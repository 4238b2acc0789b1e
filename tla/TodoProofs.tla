----------------------------- MODULE TodoProofs -----------------------------
(***************************************************************************)
(* The todo handlers check the owner of a row in one statement and write   *)
(* it by id in the next.  Three action properties of Backend say why that  *)
(* is enough; they are proved here for any number of connections, todos,   *)
(* faults and restarts.  What carries the ownership check over to the      *)
(* write is OwnInv: the uuid the handler holds was drawn for a row of the  *)
(* caller, and no row drawn later can take it.                             *)
(***************************************************************************)
EXTENDS SchemaProofs

OwnInv ==
    \A p \in Request : pc[p] \in Checked =>
      /\ args[p].todo_id \in used
      /\ \A t \in todos : t.id = args[p].todo_id => t.user_id = ctx[p].user

-----------------------------------------------------------------------------
(* What a step may do to the rows of todos. *)

LEMMA SampleTodosFresh ==
  ASSUME UpSeed, NEW s \in todos'
  PROVE  s \in todos \/ s.id \notin used
<1>1. PICK todoIds \in NewIds(SampleTitle, TodoId) :
        todos' = todos \cup SampleTodos(todoIds, users')
  BY DEF UpSeed
<1>2. /\ DOMAIN todoIds = SampleTitle
      /\ \A n \in SampleTitle : todoIds[n] \notin used
  BY NewIdsFresh
<1>3. CASE s \in SampleTodos(todoIds, users')
  <2>1. PICK u \in users', n \in SampleTitle : s = SampleTodo(todoIds[n], u, n)
    BY <1>2, <1>3 DEF SampleTodos
  <2> QED
    BY <1>2, <2>1 DEF SampleTodo
<1> QED
  BY <1>1, <1>3

(* The row was there before, is new, or is what a PATCH made of a row. *)
LEMMA TodoRowSteps ==
  ASSUME TypeInv, [BackendNext]_vars, NEW s \in todos'
  PROVE  \/ s \in todos
         \/ s.id \notin used
         \/ \E p \in Request, t \in todos :
              /\ pc[p] = "upd_write" /\ pc'[p] = "done"
              /\ t.id = args[p].todo_id /\ s = Patched(t, args[p])
              /\ s.id = t.id /\ s.user_id = t.user_id
<1>1. DbTypeOK /\ RequestTypeOK
  BY DEF TypeInv, TypeOK
<1>2. CASE UNCHANGED <<dbVars, migrationVars>>
  BY <1>2 DEF dbVars
<1>3. ASSUME NEW p \in Request, AuthWrite(p)
      PROVE  s \in todos
  BY <1>3 DEF AuthWrite, CreateUser, AssignRole, InsertApproved,
              CreateApprovedUsersBulk, DeleteApprovedUser, CascadeUsers
<1>4. ASSUME NEW p \in Request, NEW code, TodoWrite(p), Respond(p, code),
             s \notin todos, s.id \in used
      PROVE  \E t \in todos :
               /\ pc[p] = "upd_write" /\ pc'[p] = "done"
               /\ t.id = args[p].todo_id /\ s = Patched(t, args[p])
               /\ s.id = t.id /\ s.user_id = t.user_id
  <2>1. CASE InsertTodo(p)
    <3>1. PICK ids \in NewIds({args[p].title}, TodoId) :
            CreateTodo(ids, ctx[p].user, args[p].title, args[p].description,
                       args[p].due_date)
      BY <2>1 DEF InsertTodo
    <3>2. s.id = ids[args[p].title]
      BY <1>4, <3>1 DEF CreateTodo
    <3> QED
      BY <1>4, <3>2, NewIdsFresh
  <2>2. CASE /\ AtQuery(p, "upd_write")
             /\ UpdateTodoPartial(args[p].todo_id, args[p])
    <3>1. pc'[p] = "done" /\ pc[p] = "upd_write"
      BY <1>1, <1>4, <2>2 DEF Respond, RequestTypeOK, AtQuery
    <3> QED
      BY <1>1, <1>4, <2>2, <3>1, UpdateTodoRows
  <2>3. CASE DeleteTodo(args[p].todo_id)
    BY <1>4, <2>3 DEF DeleteTodo
  <2> QED
    BY <1>4, <2>1, <2>2, <2>3 DEF TodoWrite
<1>5. CASE OperatorWrite
  BY <1>5 DEF OperatorWrite, UpdateUser
<1>6. CASE Migrate
  BY <1>6, SampleTodosFresh
     DEF Migrate, RunUp, RunDownOrReset, MigrateStops, MigrateUp, UpCreateTable,
         UpCreateRoles, MigrateDown, DownSeed, DownDropTable, dbVars
<1> QED
  BY <1>2, <1>3, <1>4, <1>5, <1>6, TableSteps

(* A row that is gone was written by id, went with its owner, or fell      *)
(* victim to a down migration.                                             *)
LEMMA TodoRowsGone ==
  ASSUME TypeInv, SchemaInv, CommandInv, [BackendNext]_vars,
         NEW t \in todos, t \notin todos'
  PROVE  \/ \A u \in users' : u.id # t.user_id
         \/ \E p \in Request :
              pc[p] \in Checked /\ pc'[p] = "done" /\ args[p].todo_id = t.id
         \/ rollbacks > 0
<1>1. DbTypeOK /\ RequestTypeOK
  BY DEF TypeInv, TypeOK
<1>2. CASE UNCHANGED <<dbVars, migrationVars>>
  BY <1>2 DEF dbVars
<1>3. ASSUME NEW p \in Request, AuthWrite(p)
      PROVE  \A u \in users' : u.id # t.user_id
  <2>1. PICK id : DeleteApprovedUser(id)
    BY <1>3 DEF AuthWrite, CreateUser, AssignRole, InsertApproved,
                CreateApprovedUsersBulk
  <2> QED
    BY <2>1 DEF DeleteApprovedUser, CascadeUsers
<1>4. ASSUME NEW p \in Request, NEW code, TodoWrite(p), Respond(p, code)
      PROVE  pc[p] \in Checked /\ pc'[p] = "done" /\ args[p].todo_id = t.id
  <2>1. pc'[p] = "done"
    BY <1>1, <1>4 DEF Respond, RequestTypeOK
  <2>2. pc[p] \in Checked /\ args[p].todo_id = t.id
    BY <1>4 DEF TodoWrite, AtQuery, Checked, InsertTodo, CreateTodo,
                UpdateTodoPartial, DeleteTodo, GetTodoByID
  <2> QED
    BY <2>1, <2>2
<1>5. CASE OperatorWrite
  BY <1>5 DEF OperatorWrite, UpdateUser
<1>6. CASE Migrate
  <2>1. MigrateDown
    BY <1>6 DEF Migrate, RunUp, RunDownOrReset, MigrateStops, MigrateUp,
                UpCreateTable, UpCreateRoles, UpSeed, dbVars
  <2> QED
    BY <2>1 DEF MigrateDown, CommandInv
<1> QED
  BY <1>2, <1>3, <1>4, <1>5, <1>6, TableSteps

-----------------------------------------------------------------------------
(* What a step may do to a goroutine. *)

(* A goroutine reaches its write only from its ownership check. *)
Stays(q) == pc'[q] = pc[q] /\ args'[q] = args[q] /\ ctx'[q] = ctx[q]

LEMMA CheckedFrom ==
  ASSUME TypeInv, [BackendNext]_vars, NEW q \in Request, pc'[q] \in Checked
  PROVE  \/ Stays(q)
         \/ /\ OwnedTodo(q) # {} /\ args'[q] = args[q] /\ ctx'[q] = ctx[q]
            /\ UNCHANGED <<dbVars, migrationVars>>
<1>1. RequestTypeOK
  BY DEF TypeInv, TypeOK
<1>2. pc \in [Request -> Label] /\ args \in [Request -> Input]
        /\ ctx \in [Request -> Context]
  BY <1>1 DEF RequestTypeOK
<1>3. ASSUME NEW p \in Request, NEW code, Respond(p, code),
             \A r \in Request : r # p => ctx'[r] = ctx[r]
      PROVE  Stays(q)
  BY <1>2, <1>3 DEF Respond, Checked, Stays
<1>4. ASSUME NEW p \in Request, NEW label \in Label \ Checked, Goto(p, label),
             \A r \in Request : r # p => ctx'[r] = ctx[r]
      PROVE  Stays(q)
  BY <1>2, <1>4 DEF Goto, Stays
<1>5. ASSUME NEW p \in Request, NEW input, Begin(p, input)
      PROVE  Stays(q)
  <2>1. (IF input.op \in PublicOp THEN Entry[input.op] ELSE "auth") \notin Checked
    BY EntryType DEF PublicOp, Checked
  <2> QED
    BY <1>2, <1>5, <2>1 DEF Begin, Stays
<1>6. ASSUME NEW p \in Request, RejectInput(p)
      PROVE  Stays(q)
  BY <1>2, <1>6 DEF RejectInput, Checked, Stays
<1>7. ASSUME NEW p \in Request, AuthRequest(p)
      PROVE  Stays(q)
  <2>1. RejectInput(p) \/ \E input : Begin(p, input)
    BY <1>7 DEF AuthRequest, RegisterUser, LoginUser, GetCurrentUser,
                ListApprovedUsers, CreateApprovedUser, BulkCreateApprovedUsers,
                DeleteApprovedUserById
  <2> QED
    BY <1>5, <1>6, <2>1
<1>8. ASSUME NEW p \in Request, TodoRequest(p)
      PROVE  Stays(q)
  <2>1. \E input : Begin(p, input)
    BY <1>8 DEF TodoRequest, ListTodos, CreateTodoBody, GetTodo, UpdateTodo,
                DeleteTodoById
  <2> QED
    BY <1>5, <2>1
<1>9. ASSUME NEW p \in Request, AuthStep(p)
      PROVE  Stays(q)
  BY <1>3, <1>4, <1>9, AuthStepMoves DEF AuthMove
<1>10. ASSUME NEW p \in Request, TodoStep(p), ~Stays(q)
       PROVE  /\ OwnedTodo(q) # {} /\ args'[q] = args[q] /\ ctx'[q] = ctx[q]
              /\ UNCHANGED <<dbVars, migrationVars>>
  <2>1. ctx' = ctx
    BY <1>10 DEF TodoStep, ListTodosByUserID, GetByID, CheckOwner, Create,
                 CreateRefused, Update, Delete, TodoUnacked
  <2>2. ~\E code : Respond(p, code)
    BY <1>3, <1>10, <2>1
  <2>3. PICK lookup, write : CheckOwner(p, lookup, write)
    BY <1>10, <2>2 DEF TodoStep, ListTodosByUserID, GetByID, Create,
                       CreateRefused, Update, Delete, TodoUnacked, AnswerLost
  <2>4. /\ OwnedTodo(p) # {} /\ Goto(p, write)
        /\ UNCHANGED <<dbVars, migrationVars>>
    BY <2>2, <2>3 DEF CheckOwner, TodoVars
  <2>5. p = q /\ args' = args
    BY <1>2, <1>10, <2>1, <2>4 DEF Goto, Stays
  <2> QED
    BY <2>1, <2>4, <2>5
<1>11. CASE Environment
  <2>1. CASE \E r \in Replica : Restart(r)
    BY <1>2, <2>1 DEF Restart, Checked, Stays
  <2>2. CASE UNCHANGED reqVars
    BY <2>2 DEF reqVars, Stays
  <2> QED
    BY <1>11, <2>1, <2>2 DEF Environment, StartServer, Tick, Deactivate,
                             SetPassword, Migrate
<1>12. CASE UNCHANGED vars
  BY <1>12 DEF vars, reqVars, Stays
<1>13. ASSUME NEW p \in Request, BackendStep(p), ~Stays(q)
       PROVE  /\ OwnedTodo(q) # {} /\ args'[q] = args[q] /\ ctx'[q] = ctx[q]
              /\ UNCHANGED <<dbVars, migrationVars>>
  BY <1>9, <1>10, <1>13 DEF BackendStep
<1> QED
  BY <1>7, <1>8, <1>11, <1>12, <1>13 DEF BackendNext

-----------------------------------------------------------------------------
LEMMA OwnInvNext ==
  ASSUME TypeInv, SchemaInv, OwnInv, [BackendNext]_vars
  PROVE  OwnInv'
<1> SUFFICES ASSUME NEW q \in Request, pc'[q] \in Checked
             PROVE  /\ args'[q].todo_id \in used'
                    /\ \A s \in todos' : s.id = args'[q].todo_id =>
                         s.user_id = ctx'[q].user
  BY DEF OwnInv
<1>1. used \subseteq used'
  <2>1. CASE Migrate
    BY <2>1 DEF Migrate, RunUp, RunDownOrReset, MigrateStops, MigrateUp,
                UpCreateTable, UpCreateRoles, UpSeed, MigrateDown, DownSeed,
                DownDropTable, dbVars
  <2>2. \A p \in Request : AuthWrite(p) => used \subseteq used'
    BY DEF AuthWrite, CreateUser, AssignRole, InsertApproved,
           CreateApprovedUsersBulk, DeleteApprovedUser
  <2>3. \A p \in Request : TodoWrite(p) => used \subseteq used'
    BY DEF TodoWrite, InsertTodo, CreateTodo, UpdateTodoPartial, DeleteTodo
  <2> QED
    BY <2>1, <2>2, <2>3, TableSteps DEF OperatorWrite, UpdateUser, dbVars
<1>2. CASE Stays(q)
  <2>1. /\ args[q].todo_id \in used
        /\ \A t \in todos : t.id = args[q].todo_id => t.user_id = ctx[q].user
    BY <1>2 DEF OwnInv, Stays
  <2>2. ASSUME NEW s \in todos', s.id = args[q].todo_id
        PROVE  \E t \in todos : t.id = s.id /\ t.user_id = s.user_id
    BY <2>1, <2>2, TodoRowSteps
  <2> QED
    BY <1>1, <1>2, <2>1, <2>2 DEF Stays
<1>3. CASE /\ OwnedTodo(q) # {} /\ args'[q] = args[q] /\ ctx'[q] = ctx[q]
           /\ UNCHANGED <<dbVars, migrationVars>>
  <2>1. PICK t \in todos : t.id = args[q].todo_id /\ t.user_id = ctx[q].user
    BY <1>3 DEF OwnedTodo, GetTodoByID
  <2>2. t.id \in used /\ \A s \in todos : s.id = t.id => s = t
    BY DEF SchemaInv, Tables, RowsDrawn, UniqueKeys
  <2> QED
    BY <1>1, <1>3, <2>1, <2>2 DEF dbVars
<1> QED
  BY <1>2, <1>3, CheckedFrom

TodoInv == TypeInv /\ SchemaInv /\ OwnInv /\ CommandInv

LEMMA TodoInvInit == Init => TodoInv
<1> SUFFICES ASSUME Init PROVE TodoInv
  OBVIOUS
<1>1. OwnInv /\ CommandInv
  BY DEF Init, InitDb, InitRequests, OwnInv, CommandInv, Checked
<1> QED
  BY <1>1, TypeInvInit, SchemaInvInit DEF TodoInv

LEMMA TodoInvNext == TodoInv /\ [BackendNext]_vars => TodoInv'
BY BackendTypeNext, SchemaInvNext, OwnInvNext, CommandInvNext DEF TodoInv

(* The ownership check of one statement covers the write of the next,      *)
(* which names the row by id alone: whatever other requests, faults and    *)
(* restarts come in between, a todo changes or disappears only through its *)
(* owner's request for it or with the owner's account.                     *)
THEOREM OwnersOnly == BackendSpec => OwnerOnly
<1>1. ASSUME TodoInv, [BackendNext]_vars, rollbacks = 0,
             NEW t \in todos \ todos', ~\A u \in users' : u.id # t.user_id
      PROVE  \E p \in Request : /\ pc[p] \in {"upd_write", "del_write"}
                                /\ pc'[p] = "done"
                                /\ ctx[p].user = t.user_id
                                /\ args[p].todo_id = t.id
  <2>1. PICK p \in Request : pc[p] \in Checked /\ pc'[p] = "done" /\ args[p].todo_id = t.id
    BY <1>1, TodoRowsGone DEF TodoInv
  <2>2. ctx[p].user = t.user_id
    BY <1>1, <2>1 DEF TodoInv, OwnInv
  <2> QED
    BY <2>1, <2>2 DEF Checked
<1>2. TodoInv /\ [BackendNext]_vars =>
        [rollbacks = 0 =>
           \A t \in todos \ todos' :
             \/ \A u \in users' : u.id # t.user_id
             \/ \E p \in Request :
                  /\ pc[p] \in {"upd_write", "del_write"} /\ pc'[p] = "done"
                  /\ ctx[p].user = t.user_id
                  /\ args[p].todo_id = t.id]_vars
  BY <1>1
<1> QED
  BY <1>2, TodoInvInit, TodoInvNext, PTL DEF BackendSpec, OwnerOnly

(* What COALESCE does to one column of one row. *)
LEMMA PatchedColumns ==
  ASSUME DbTypeOK, NEW t \in todos, NEW patch,
         NEW column \in {"title", "description", "is_completed", "due_date"},
         Patched(t, patch)[column] # t[column]
  PROVE  /\ patch[column] # NULL
         /\ patch[column] = Patched(t, patch)[column]
<1>1. t \in TodoRow
  BY DEF DbTypeOK
<1>2. CASE column = "title"
  BY <1>1, <1>2 DEF Patched, TodoRow, Coalesce
<1>3. CASE column = "description"
  BY <1>1, <1>3 DEF Patched, TodoRow, Coalesce
<1>4. CASE column = "is_completed"
  BY <1>1, <1>4 DEF Patched, TodoRow, Coalesce
<1>5. CASE column = "due_date"
  BY <1>1, <1>5 DEF Patched, TodoRow, Coalesce
<1> QED
  BY <1>2, <1>3, <1>4, <1>5

(* Two PATCHes of one todo merge column by column and never undo each      *)
(* other, however their lookups and writes interleave.                     *)
THEOREM PatchesMerge == BackendSpec => PatchKeepsOthers
<1>1. ASSUME TodoInv, [BackendNext]_vars,
             NEW t \in todos, NEW s \in todos', t.id = s.id
      PROVE  /\ s.user_id = t.user_id
             /\ \A column \in {"title", "description", "is_completed", "due_date"} :
                  s[column] # t[column] =>
                    \E p \in Request : /\ pc[p] = "upd_write" /\ pc'[p] = "done"
                                       /\ args[p][column] # NULL
                                       /\ args[p][column] = s[column]
  <2>1. /\ t.id \in used
        /\ \A x \in todos : x.id = t.id => x = t
    BY <1>1 DEF TodoInv, SchemaInv, Tables, RowsDrawn, UniqueKeys
  <2>2. CASE s \in todos
    BY <1>1, <2>1, <2>2
  <2>3. CASE s \notin todos
    <3>1. PICK p \in Request, x \in todos :
            /\ pc[p] = "upd_write" /\ pc'[p] = "done"
            /\ s = Patched(x, args[p]) /\ s.id = x.id /\ s.user_id = x.user_id
      BY <1>1, <2>1, <2>3, TodoRowSteps DEF TodoInv
    <3>2. x = t
      BY <1>1, <2>1, <3>1
    <3>3. DbTypeOK
      BY <1>1 DEF TodoInv, TypeInv, TypeOK
    <3> QED
      BY <3>1, <3>2, <3>3, PatchedColumns
  <2> QED
    BY <2>2, <2>3
<1>2. TodoInv /\ [BackendNext]_vars =>
        [\A t \in todos, s \in todos' : t.id = s.id =>
           /\ s.user_id = t.user_id
           /\ \A column \in {"title", "description", "is_completed", "due_date"} :
                s[column] # t[column] =>
                  \E p \in Request : /\ pc[p] = "upd_write" /\ pc'[p] = "done"
                                     /\ args[p][column] # NULL
                                     /\ args[p][column] = s[column]]_vars
  BY <1>1
<1> QED
  BY <1>2, TodoInvInit, TodoInvNext, PTL DEF BackendSpec, PatchKeepsOthers

(* A PATCH that passed its ownership check before a DELETE does not bring  *)
(* the row back, and neither does a migration: a row that appears has a    *)
(* uuid that was never in use.                                             *)
THEOREM DeletedStaysDeleted == BackendSpec => NoResurrection
<1>1. ASSUME TodoInv, [BackendNext]_vars, NEW s \in todos',
             \A t \in todos : t.id # s.id
      PROVE  s.id \notin used
  BY <1>1, TodoRowSteps DEF TodoInv
<1>2. TodoInv /\ [BackendNext]_vars =>
        [\A s \in todos' : (\A t \in todos : t.id # s.id) => s.id \notin used]_vars
  BY <1>1
<1> QED
  BY <1>2, TodoInvInit, TodoInvNext, PTL DEF BackendSpec, NoResurrection

=============================================================================
