--------------------------- MODULE RegisterProofs ---------------------------
(***************************************************************************)
(* Registration over its several statements.  RolelessInFlight,            *)
(* FailedRegisterLeavesNothing and OnlyLiveAdminsApprove are proved from   *)
(* one inductive invariant, and so is that the handlers implement Registry.*)
(* The invariant says what a handler may rely on as long as no migration   *)
(* has been taken back: before the seed nobody can register, after it both *)
(* roles exist for good, and an account goes only with its whitelist entry.*)
(***************************************************************************)
EXTENDS SchemaProofs, AuthRefinement

Assigning == {"reg_role", "reg_role_lookup", "reg_role_store", "reg_assign"}

(* Until the seed, the whitelist is empty and nobody is there to fill it. *)
CalmTables ==
    rollbacks = 0 =>
      /\ level < 6 => approved_users = {} /\ users = {} /\ user_roles = {}
      /\ level >= 3 => \A n \in RoleName : \E r \in roles : r.name = n

(* A role id that was read stays the id of a role. *)
RoleStays(id) == rollbacks = 0 /\ id # NULL => \E r \in roles : r.id = id

(* The admin who passed RequireAdmin, and the entry the INSERT will name,  *)
(* are still there, or that entry is gone for good.                        *)
AdminStays(p) ==
    rollbacks = 0 =>
      /\ level = 6
      /\ ctx[p].creator \in used
      /\ ApprovedUserExists(ctx[p].creator) =>
           \E u \in users : /\ u.id = ctx[p].user
                            /\ u.approved_user_id = ctx[p].creator
                            /\ "admin" \in RoleNames(u.id)

(* There is no account id, and there will not be one. *)
NoAccount(id) == id = NULL \/ (id \in used /\ \A u \in users : u.id # id)

HandlerInv(p) ==
    /\ pc[p] \in Registering => args[p].op = "RegisterUser"
    /\ args[p].op = "RegisterUser" /\ pc[p] \notin Waiting =>
         pc[p] \in Registering \cup {"issue"}
    /\ pc[p] \in {"reg_exists", "reg_lookup", "reg_create"} => ctx[p].user = NULL
    /\ pc[p] \in Assigning /\ rollbacks = 0 => level = 6
    /\ RoleStays(ctx[p].role)
    /\ pc[p] \in {"ca_lookup", "ca_create", "ap_bulk"} => AdminStays(p)
    /\ /\ pc[p] = "done" /\ args[p].op = "RegisterUser" /\ status[p] = 500
       /\ faults = 0 /\ rollbacks = 0
       => NoAccount(ctx[p].user)

HandlersInv == \A p \in Request : HandlerInv(p)
CachesInv == \A r \in Replica : RoleStays(defaultUserRoleID[r])

RegisterInv == CommandInv /\ CalmTables /\ HandlersInv /\ CachesInv

-----------------------------------------------------------------------------
(* What a step does to the tables as long as no migration is taken back: a *)
(* role stays, a grant goes only with its account, an account only with    *)
(* its whitelist entry, and no uuid comes back.                            *)
CalmStep ==
    /\ rollbacks = 0
    /\ used \subseteq used' /\ roles \subseteq roles'
    /\ level <= level' /\ (level = 6 => level' = 6)
    /\ \A u \in users' : u.id \notin used \/ \E v \in users : v.id = u.id
    /\ \A a \in approved_users' :
         level < 6 \/ a.id \notin used \/ ApprovedUserExists(a.id)
    /\ \A u \in users :
         \/ \E v \in users' : /\ v.id = u.id
                              /\ v.approved_user_id = u.approved_user_id
         \/ \A a \in approved_users' : a.id # u.approved_user_id
    /\ \A x \in user_roles : x \in user_roles' \/ \A u \in users' : u.id # x.user_id

LEMMA CalmUnchanged ==
  ASSUME TypeInv, rollbacks = 0, level' = level,
         UNCHANGED <<approved_users, users, roles, user_roles>>, used \subseteq used'
  PROVE  CalmStep
<1>1. level \in 0..6
  BY DEF TypeInv, TypeOK, MigrationTypeOK
<1> QED
  BY <1>1 DEF CalmStep, ApprovedUserExists

LEMMA CalmWrite ==
  ASSUME TypeInv, SchemaInv, rollbacks = 0, level' = level,
         NEW p \in Request, AuthWrite(p) \/ TodoWrite(p)
  PROVE  CalmStep
<1>1. DbTypeOK /\ level \in 0..6
  BY DEF TypeInv, TypeOK, MigrationTypeOK
<1>2. ASSUME NEW ids \in NewIds({args[p].email}, UserId),
             CreateUser(ids, args[p].approved_id, args[p].email,
                        GenerateFromPassword(args[p].password))
      PROVE  CalmStep
  <2>1. ids[args[p].email] \notin used
    BY NewIdsFresh
  <2>2. /\ UNCHANGED <<approved_users, roles, user_roles>>
        /\ used \subseteq used' /\ users \subseteq users'
        /\ \A u \in users' : u \in users \/ u.id = ids[args[p].email]
    BY <1>2 DEF CreateUser
  <2> QED
    BY <1>1, <2>1, <2>2 DEF CalmStep, ApprovedUserExists
<1>3. CASE AssignRole(ctx[p].user, ctx[p].role)
  BY <1>1, <1>3 DEF AssignRole, CalmStep, ApprovedUserExists
<1>4. CASE InsertApproved(p)
  <2>1. PICK ids \in NewIds(DOMAIN args[p].emails, ApprovedId) :
          CreateApprovedUsersBulk(ids, args[p].emails, ctx[p].creator)
    BY <1>4 DEF InsertApproved
  <2>2. \A i \in DOMAIN args[p].emails : ids[i] \notin used
    BY NewIdsFresh
  <2>3. /\ UNCHANGED <<users, roles, user_roles>> /\ used \subseteq used'
        /\ \A a \in approved_users' :
             a \in approved_users \/ \E i \in DOMAIN args[p].emails : a.id = ids[i]
    BY <2>1 DEF CreateApprovedUsersBulk
  <2> QED
    BY <1>1, <2>2, <2>3 DEF CalmStep, ApprovedUserExists
<1>5. ASSUME NEW id, DeleteApprovedUser(id)
      PROVE  CalmStep
  <2> DEFINE kept(a) == [a EXCEPT !.created_by = IF @ = id THEN NULL ELSE @]
             gone == {u.id : u \in {x \in users : x.approved_user_id = id}}
  <2>1. /\ approved_users' = {kept(a) : a \in {x \in approved_users : x.id # id}}
        /\ CascadeUsers(gone) /\ UNCHANGED <<roles, used>>
    BY <1>5 DEF DeleteApprovedUser
  <2>2. \A a \in approved_users : kept(a).id = a.id
    BY <1>1 DEF DbTypeOK, ApprovedUserRow
  <2> HIDE DEF kept
  <2>3. \A a \in approved_users' : a.id # id /\ ApprovedUserExists(a.id)
    BY <2>1, <2>2 DEF ApprovedUserExists
  <2>4. \A u \in users : u.id \in gone => u.approved_user_id = id
    BY DEF SchemaInv, Tables, UniqueKeys
  <2> HIDE DEF gone
  <2>5. /\ users' = {u \in users : u.id \notin gone}
        /\ user_roles' = {x \in user_roles : x.user_id \notin gone}
    BY <2>1 DEF CascadeUsers
  <2> QED
    BY <1>1, <2>1, <2>3, <2>4, <2>5 DEF CalmStep
<1>6. CASE TodoWrite(p)
  <2>1. /\ UNCHANGED <<approved_users, users, roles, user_roles>>
        /\ used \subseteq used'
    BY <1>6 DEF TodoWrite, InsertTodo, CreateTodo, UpdateTodoPartial, DeleteTodo
  <2> QED
    BY <2>1, CalmUnchanged
<1> QED
  BY <1>2, <1>3, <1>4, <1>5, <1>6 DEF AuthWrite

LEMMA CalmOperator ==
  ASSUME TypeInv, rollbacks = 0, level' = level,
         NEW id, NEW h, NEW active, UpdateUser(id, h, active)
  PROVE  CalmStep
<1> DEFINE upd(u) == IF u.id = id THEN [u EXCEPT !.password_hash = h,
                                                 !.is_active = active]
                                  ELSE u
<1>1. /\ users' = {upd(u) : u \in users}
      /\ UNCHANGED <<approved_users, roles, user_roles, used>>
  BY DEF UpdateUser
<1>2. \A u \in users : /\ upd(u).id = u.id
                       /\ upd(u).approved_user_id = u.approved_user_id
  BY DEF TypeInv, TypeOK, DbTypeOK, UserRow
<1>3. level \in 0..6
  BY DEF TypeInv, TypeOK, MigrationTypeOK
<1> HIDE DEF upd
<1> QED
  BY <1>1, <1>2, <1>3 DEF CalmStep, ApprovedUserExists

LEMMA CalmMigrate ==
  ASSUME TypeInv, SchemaInv, CommandInv, CalmTables, rollbacks' = 0, Migrate
  PROVE  CalmStep
<1>1. /\ level \in 0..6 /\ rollbacks \in Nat
      /\ \A a \in approved_users : a.id \in used
  BY MaxRollbacksAssumption DEF TypeInv, TypeOK, MigrationTypeOK, SchemaInv, Tables,
                                RowsDrawn
<1>2. CASE RunUp \/ MigrateStops
  BY <1>2, CalmUnchanged DEF RunUp, MigrateStops, dbVars
<1>3. CASE MigrateUp
  <2>1. rollbacks = 0 /\ level' = level + 1 /\ level < 6
    BY <1>1, <1>3 DEF MigrateUp, UpCreateTable, UpCreateRoles, UpSeed
  <2>2. approved_users = {} /\ users = {} /\ user_roles = {}
    BY <2>1 DEF CalmTables
  <2>3. used \subseteq used' /\ roles \subseteq roles'
    BY <1>3 DEF MigrateUp, UpCreateTable, UpCreateRoles, UpSeed, DefaultRoles, dbVars
  <2>4. \A u \in users' : u.id \notin used
    <3>1. CASE UpSeed
      <4>1. PICK userIds \in NewIds(MissingUsers, UserId) :
              users' = users \cup {SeedUser(userIds, e) : e \in MissingUsers}
        BY <3>1 DEF UpSeed
      <4> QED
        BY <2>2, <4>1, NewIdsFresh DEF SeedUser
    <3> QED
      BY <1>3, <2>2, <3>1 DEF MigrateUp, UpCreateTable, UpCreateRoles, dbVars
  <2> QED
    BY <1>1, <2>1, <2>2, <2>3, <2>4 DEF CalmStep
<1>4. ~MigrateDown /\ ~RunDownOrReset("down") /\ ~RunDownOrReset("reset")
  BY <1>1 DEF MigrateDown, RunDownOrReset, CommandInv
<1> QED
  BY <1>2, <1>3, <1>4 DEF Migrate

LEMMA CalmSteps ==
  ASSUME TypeInv, SchemaInv, CommandInv, CalmTables, rollbacks' = 0,
         [BackendNext]_vars
  PROVE  CalmStep
<1>1. CASE Migrate
  BY <1>1, CalmMigrate
<1>2. CASE UNCHANGED migrationVars
  <2>1. rollbacks = 0 /\ level' = level
    BY <1>2 DEF migrationVars
  <2>2. CASE UNCHANGED dbVars
    BY <2>1, <2>2, CalmUnchanged DEF dbVars
  <2>3. CASE OperatorWrite
    BY <2>1, <2>3, CalmOperator DEF OperatorWrite
  <2> QED
    BY <1>1, <2>1, <2>2, <2>3, CalmWrite, TableSteps
<1> QED
  BY <1>1, <1>2, TableSteps

LEMMA CalmTablesNext ==
  ASSUME TypeInv, SchemaInv, CommandInv, CalmTables, [BackendNext]_vars
  PROVE  CalmTables'
<1> SUFFICES ASSUME rollbacks' = 0 PROVE CalmTables'
  BY DEF CalmTables
<1>1. CalmStep /\ level \in 0..6 /\ level' \in 0..6
  BY CalmSteps, BackendTypeNext DEF TypeInv, TypeOK, MigrationTypeOK
<1>2. ASSUME level' < 6
      PROVE  approved_users' = {} /\ users' = {} /\ user_roles' = {}
  <2>1. approved_users = {} /\ users = {} /\ user_roles = {}
    BY <1>1, <1>2 DEF CalmStep, CalmTables
  <2>2. \A p \in Request : AuthWrite(p) => UNCHANGED <<approved_users, users, user_roles>>
    BY <2>1 DEF AuthWrite, CreateUser, CreateUserRefused, AssignRole,
                AssignRoleRefused, GetUserByID, InsertApproved,
                CreateApprovedUsersBulk, CreateApprovedUsersRefused,
                DeleteApprovedUser, CascadeUsers, ApprovedUserExists
  <2>3. \A p \in Request : TodoWrite(p) => UNCHANGED <<approved_users, users, user_roles>>
    BY DEF TodoWrite, InsertTodo, CreateTodo, UpdateTodoPartial, DeleteTodo
  <2>4. ~OperatorWrite
    BY <2>1 DEF OperatorWrite
  <2>5. CASE Migrate
    BY <1>1, <1>2, <2>1, <2>5
       DEF Migrate, RunUp, RunDownOrReset, MigrateStops, MigrateUp, UpCreateTable,
           UpCreateRoles, UpSeed, MigrateDown, DownSeed, DownDropTable, dbVars
  <2> QED
    BY <2>1, <2>2, <2>3, <2>4, <2>5, TableSteps DEF dbVars
<1>3. ASSUME level' >= 3, NEW n \in RoleName
      PROVE  \E r \in roles' : r.name = n
  <2>1. CASE level >= 3
    BY <1>1, <2>1 DEF CalmStep, CalmTables
  <2>2. CASE level < 3
    <3>1. UpCreateRoles
      <4>1. Migrate
        BY <1>1, <1>3, <2>2, TableSteps DEF migrationVars
      <4>2. MigrateUp
        BY <1>1, <1>3, <2>2, <4>1 DEF Migrate, RunUp, RunDownOrReset, MigrateStops,
                                      MigrateDown
      <4> QED
        BY <1>1, <1>3, <2>2, <4>2 DEF MigrateUp, UpCreateTable, UpSeed
    <3>2. PICK ids \in NewIds(MissingRoles, RoleId) : roles' = DefaultRoles(ids)
      BY <3>1 DEF UpCreateRoles
    <3>3. DOMAIN ids = MissingRoles
      BY NewIdsFresh
    <3>4. CASE n \in MissingRoles
      <4>1. [id |-> ids[n], name |-> n] \in roles'
        BY <3>2, <3>3, <3>4 DEF DefaultRoles
      <4> QED
        BY <4>1
    <3>5. CASE n \notin MissingRoles
      BY <3>2, <3>5 DEF DefaultRoles, MissingRoles, GetRoleByName
    <3> QED
      BY <3>4, <3>5
  <2> QED
    BY <1>1, <2>1, <2>2
<1> QED
  BY <1>2, <1>3 DEF CalmTables

-----------------------------------------------------------------------------
(* What was relied on before a step may be relied on after it. *)

LEMMA RoleStaysNext ==
  ASSUME NEW id, RoleStays(id), rollbacks' = 0 => CalmStep
  PROVE  rollbacks' = 0 /\ id # NULL => \E r \in roles' : r.id = id
BY DEF RoleStays, CalmStep

LEMMA AdminStaysNext ==
  ASSUME NEW p \in Request, AdminStays(p), ctx'[p] = ctx[p],
         rollbacks' = 0 => CalmStep
  PROVE  AdminStays(p)'
<1> SUFFICES ASSUME rollbacks' = 0 PROVE AdminStays(p)'
  BY DEF AdminStays
<1>1. CalmStep /\ rollbacks = 0 /\ level = 6 /\ ctx[p].creator \in used
  BY DEF CalmStep, AdminStays
<1>2. level' = 6 /\ ctx[p].creator \in used'
  BY <1>1 DEF CalmStep
<1>3. ASSUME NEW a \in approved_users', a.id = ctx[p].creator
      PROVE  \E u \in users' : /\ u.id = ctx[p].user
                               /\ u.approved_user_id = ctx[p].creator
                               /\ "admin" \in RoleNames(u.id)'
  <2>1. ApprovedUserExists(ctx[p].creator)
    BY <1>1, <1>3 DEF CalmStep
  <2>2. PICK u \in users : /\ u.id = ctx[p].user
                           /\ u.approved_user_id = ctx[p].creator
                           /\ "admin" \in RoleNames(u.id)
    BY <1>1, <2>1 DEF AdminStays
  <2>3. PICK v \in users' : v.id = u.id /\ v.approved_user_id = u.approved_user_id
    BY <1>1, <1>3, <2>2 DEF CalmStep
  <2>4. PICK r \in roles : /\ r.name = "admin"
                           /\ [user_id |-> u.id, role_id |-> r.id] \in user_roles
    BY <2>2 DEF RoleNames
  <2>5. r \in roles' /\ [user_id |-> u.id, role_id |-> r.id] \in user_roles'
    BY <1>1, <2>3, <2>4 DEF CalmStep
  <2>6. "admin" \in RoleNames(v.id)'
    BY <2>3, <2>4, <2>5 DEF RoleNames
  <2> QED
    BY <2>2, <2>3, <2>6
<1> QED
  BY <1>2, <1>3 DEF AdminStays, ApprovedUserExists

LEMMA NoAccountNext ==
  ASSUME NEW id, NoAccount(id), CalmStep
  PROVE  id = NULL \/ (id \in used' /\ \A u \in users' : u.id # id)
BY DEF NoAccount, CalmStep

(* A goroutine that does nothing keeps what it relies on. *)
Still(q) == /\ pc'[q] = pc[q] /\ args'[q] = args[q]
            /\ ctx'[q] = ctx[q] /\ status'[q] = status[q]

LEMMA HandlerStill ==
  ASSUME NEW q \in Request, HandlerInv(q), Still(q), rollbacks' = 0 => CalmStep,
         faults' = 0 => faults = 0
  PROVE  HandlerInv(q)'
<1>1. /\ pc'[q] = pc[q] /\ args'[q] = args[q]
      /\ ctx'[q] = ctx[q] /\ status'[q] = status[q]
  BY DEF Still
<1>2. pc'[q] \in Assigning /\ rollbacks' = 0 => level' = 6
  BY <1>1 DEF HandlerInv, CalmStep
<1>3. RoleStays(ctx[q].role)'
  BY <1>1, RoleStaysNext DEF HandlerInv, RoleStays
<1>4. pc'[q] \in {"ca_lookup", "ca_create", "ap_bulk"} => AdminStays(q)'
  BY <1>1, AdminStaysNext DEF HandlerInv
<1>5. /\ pc'[q] = "done" /\ args'[q].op = "RegisterUser" /\ status'[q] = 500
      /\ faults' = 0 /\ rollbacks' = 0
      => NoAccount(ctx[q].user)'
  <2> SUFFICES ASSUME pc'[q] = "done", args'[q].op = "RegisterUser",
                      status'[q] = 500, faults' = 0, rollbacks' = 0
               PROVE  NoAccount(ctx[q].user)'
    OBVIOUS
  <2>1. CalmStep /\ rollbacks = 0
    BY DEF CalmStep
  <2>2. NoAccount(ctx[q].user)
    BY <1>1, <2>1 DEF HandlerInv
  <2> QED
    BY <1>1, <2>1, <2>2, NoAccountNext DEF NoAccount
<1> QED
  BY <1>1, <1>2, <1>3, <1>4, <1>5 DEF HandlerInv

(* An answer leaves little to rely on: only a Register that is answered    *)
(* 500 has to know that it left no account.                                *)
LEMMA HandlerResponds ==
  ASSUME TypeInv, NEW p \in Request, HandlerInv(p), NEW code, Respond(p, code),
         ctx'[p].role = ctx[p].role, rollbacks' = 0 => CalmStep,
         /\ code = 500 /\ args[p].op = "RegisterUser"
         /\ faults' = 0 /\ rollbacks' = 0
         => NoAccount(ctx[p].user)'
  PROVE  HandlerInv(p)'
<1>1. pc'[p] = "done" /\ status'[p] = code /\ args'[p].op = args[p].op
  BY DEF TypeInv, TypeOK, RequestTypeOK, Respond, NoInput
<1>2. RoleStays(ctx[p].role)'
  BY RoleStaysNext DEF HandlerInv, RoleStays
<1> QED
  BY <1>1, <1>2 DEF HandlerInv, Registering, Assigning, Waiting

LEMMA FaultsGrow ==
  ASSUME TypeInv, [Next]_vars
  PROVE  faults' = faults \/ faults' > 0
<1>1. faults \in Nat
  BY RequestAssumption DEF TypeInv, TypeOK, RequestTypeOK
<1>2. ASSUME NEW p \in Request, AuthRequest(p)
      PROVE  faults' = faults
  BY <1>2 DEF AuthRequest, runVars
<1>3. ASSUME NEW p \in Request,
             \/ RegisterExists(p) \/ RegisterLookup(p) \/ RegisterCreate(p)
             \/ RegisterCreateRefused(p) \/ RegisterRole(p) \/ RegisterRoleLookup(p)
             \/ RegisterRoleStore(p) \/ RegisterAssign(p) \/ RegisterAssignRefused(p)
      PROVE  faults' = faults
  BY <1>3 DEF RegisterExists, RegisterLookup, RegisterCreate, RegisterCreateRefused,
              RegisterRole, RegisterRoleLookup, RegisterRoleStore, RegisterAssign,
              RegisterAssignRefused, runVars
<1>4. ASSUME NEW p \in Request,
             \/ LoginLookup(p) \/ IssueToken(p) \/ Authenticate(p) \/ AnswerRead(p)
             \/ CreateApprovedLookup(p) \/ CreateApproved(p)
             \/ CreateApprovedRefused(p) \/ DeleteApproved(p)
      PROVE  faults' = faults
  BY <1>4 DEF LoginLookup, IssueToken, Authenticate, AnswerRead,
              CreateApprovedLookup, CreateApproved, CreateApprovedRefused,
              DeleteApproved, runVars
<1>5. ASSUME NEW p \in Request, QueryError(p) \/ CommitUnacked(p)
      PROVE  faults' = faults \/ faults' > 0
  BY <1>1, <1>5 DEF QueryError, QueryFails, MissingTable, CommitUnacked, AnswerLost
<1>6. CASE Environment
  <2>1. ASSUME NEW r \in Replica, StartServer(r)
        PROVE  faults' = faults \/ faults' > 0
    BY <1>1, <2>1 DEF StartServer, InitDefaultRoles
  <2>2. ASSUME NEW r \in Replica, Restart(r)
        PROVE  faults' = faults
    BY <2>2 DEF Restart, runVars
  <2>3. Tick \/ Deactivate \/ SetPassword \/ Migrate => faults' = faults
    BY DEF Tick, Deactivate, SetPassword, Migrate
  <2> QED
    BY <1>6, <2>1, <2>2, <2>3 DEF Environment
<1>7. CASE UNCHANGED vars
  BY <1>7 DEF vars
<1>8. ASSUME NEW p \in Request, AuthStep(p)
      PROVE  faults' = faults \/ faults' > 0
  BY <1>3, <1>4, <1>5, <1>8 DEF AuthStep
<1> QED
  BY <1>2, <1>6, <1>7, <1>8 DEF Next

(* A request arrives on p, or is rejected before any statement. *)
Arrival(p) ==
    /\ pc[p] \in Waiting /\ ctx'[p] = NoContext
    /\ \/ pc'[p] = "reg_exists" /\ args'[p].op = "RegisterUser"
       \/ pc'[p] \in {"login_lookup", "auth"} /\ args'[p].op # "RegisterUser"
       \/ pc'[p] = "done" /\ status'[p] \in {400, 413}
    /\ \A q \in Request : q # p => Still(q)

LEMMA AuthRequestArrives ==
  ASSUME TypeInv, NEW p \in Request, AuthRequest(p)
  PROVE  Arrival(p)
<1>1. RequestTypeOK
  BY DEF TypeInv, TypeOK
<1>2. ASSUME NEW input, Begin(p, input), input.op = "RegisterUser"
      PROVE  Arrival(p)
  BY <1>1, <1>2, EntryType DEF Begin, Arrival, Still, RequestTypeOK, PublicOp
<1>3. ASSUME NEW input, Begin(p, input), input.op = "LoginUser"
      PROVE  Arrival(p)
  BY <1>1, <1>3, EntryType DEF Begin, Arrival, Still, RequestTypeOK, PublicOp
<1>4. ASSUME NEW input, Begin(p, input), input.op \in AdminOp \cup {"GetCurrentUser"}
      PROVE  Arrival(p)
  BY <1>1, <1>4 DEF Begin, Arrival, Still, RequestTypeOK, PublicOp, AdminOp
<1>5. CASE RejectInput(p)
  BY <1>1, <1>5, RequestAssumption DEF RejectInput, Arrival, Still, RequestTypeOK
<1>6. CASE RegisterUser(p)
  <2>1. PICK e, w, a :
          Begin(p, [NoInput("RegisterUser") EXCEPT
                      !.email = e, !.password = w, !.approved_id = a])
    BY <1>6 DEF RegisterUser
  <2> QED
    BY <1>2, <2>1 DEF NoInput
<1>7. CASE LoginUser(p)
  <2>1. PICK e, w :
          Begin(p, [NoInput("LoginUser") EXCEPT !.email = e, !.password = w])
    BY <1>7 DEF LoginUser
  <2> QED
    BY <1>3, <2>1 DEF NoInput
<1>8. CASE GetCurrentUser(p)
  <2>1. PICK t : Begin(p, [NoInput("GetCurrentUser") EXCEPT
                           !.token = t])
    BY <1>8 DEF GetCurrentUser
  <2> QED
    BY <1>4, <2>1 DEF NoInput, AdminOp
<1>9. CASE ListApprovedUsers(p)
  <2>1. PICK t : Begin(p, [NoInput("ListApprovedUsers") EXCEPT
                           !.token = t])
    BY <1>9 DEF ListApprovedUsers
  <2> QED
    BY <1>4, <2>1 DEF NoInput, AdminOp
<1>10. CASE CreateApprovedUser(p)
  <2>1. PICK t, es, b : Begin(p, [NoInput("CreateApprovedUser") EXCEPT
                           !.token = t, !.emails = es, !.body = b])
    BY <1>10 DEF CreateApprovedUser
  <2> QED
    BY <1>4, <2>1 DEF NoInput, AdminOp
<1>11. CASE BulkCreateApprovedUsers(p)
  <2>1. PICK t, es, b : Begin(p, [NoInput("BulkCreateApprovedUsers") EXCEPT
                           !.token = t, !.emails = es, !.body = b])
    BY <1>11 DEF BulkCreateApprovedUsers
  <2> QED
    BY <1>4, <2>1 DEF NoInput, AdminOp
<1>12. CASE DeleteApprovedUserById(p)
  <2>1. PICK t, a :
          Begin(p, [NoInput("DeleteApprovedUser") EXCEPT
                      !.token = t, !.approved_id = a])
    BY <1>12 DEF DeleteApprovedUserById
  <2> QED
    BY <1>4, <2>1 DEF NoInput, AdminOp
<1> QED
  BY <1>5, <1>6, <1>7, <1>8, <1>9, <1>10, <1>11, <1>12 DEF AuthRequest

LEMMA HandlerArrives ==
  ASSUME NEW p \in Request, Arrival(p)
  PROVE  HandlerInv(p)'
<1>1. ctx'[p].user = NULL /\ ctx'[p].role = NULL
  BY DEF Arrival, NoContext
<1> QED
  BY <1>1 DEF Arrival, HandlerInv, Registering, Assigning, Waiting, RoleStays, NoAccount

(* What a handler has to know when it goes on to its next statement. *)
LEMMA HandlerGoes ==
  ASSUME TypeInv, NEW p \in Request, NEW label \in Label \ Waiting, Goto(p, label),
         label \in Registering => args[p].op = "RegisterUser",
         args[p].op = "RegisterUser" => label \in Registering \cup {"issue"},
         label \in {"reg_exists", "reg_lookup", "reg_create"} => ctx'[p].user = NULL,
         label \in Assigning /\ rollbacks' = 0 => level' = 6,
         RoleStays(ctx[p].role)',
         label \in {"ca_lookup", "ca_create", "ap_bulk"} => AdminStays(p)'
  PROVE  HandlerInv(p)'
<1>1. pc'[p] = label /\ args'[p] = args[p]
  BY DEF TypeInv, TypeOK, RequestTypeOK, Goto
<1>2. label # "done"
  BY DEF Waiting
<1> QED
  BY <1>1, <1>2 DEF HandlerInv

(* Each statement of Register hands on what the next one relies on. *)
LEMMA RegisterHandler ==
  ASSUME TypeInv, SchemaInv, UuidInv, RegisterInv, rollbacks' = 0 => CalmStep,
         NEW p \in Request,
         \/ RegisterExists(p) \/ RegisterLookup(p) \/ RegisterCreate(p)
         \/ RegisterCreateRefused(p) \/ RegisterRole(p) \/ RegisterRoleLookup(p)
         \/ RegisterRoleStore(p) \/ RegisterAssign(p) \/ RegisterAssignRefused(p)
  PROVE  HandlerInv(p)'
<1>1. /\ RequestTypeOK /\ LocalInv(p) /\ HandlerInv(p)
      /\ ctx \in [Request -> Context] /\ p \in DOMAIN ctx
  BY DEF TypeInv, TypeOK, RequestTypeOK, RegisterInv, HandlersInv
<1>2. \A label \in Registering \cup {"issue"} : label \in Label \ Waiting
  BY LabelType DEF Registering, Waiting
<1>3. level' = level /\ rollbacks' = rollbacks
  BY DEF RegisterExists, RegisterLookup, RegisterCreate, RegisterCreateRefused,
         RegisterRole, RegisterRoleLookup, RegisterRoleStore, RegisterAssign,
         RegisterAssignRefused, runVars, migrationVars
<1>4. pc[p] \in Registering /\ args[p].op = "RegisterUser"
  BY <1>1 DEF RegisterExists, RegisterLookup, RegisterCreate, RegisterCreateRefused,
              RegisterRole, RegisterRoleLookup, RegisterRoleStore, RegisterAssign,
              RegisterAssignRefused, AtQuery, Registering, HandlerInv
<1>5. ctx'[p] = ctx[p] => RoleStays(ctx[p].role)'
  BY <1>1, RoleStaysNext DEF HandlerInv, RoleStays
<1>6. \A label \in Registering \cup {"issue"} :
        label \notin {"ca_lookup", "ca_create", "ap_bulk"}
  BY DEF Registering
<1>7. CASE RegisterExists(p)
  <2>1. ctx'[p].user = NULL /\ ctx'[p] = ctx[p]
    BY <1>1, <1>7 DEF RegisterExists, AtQuery, HandlerInv
  <2>2. CASE Goto(p, "reg_lookup")
    <3>1. "reg_lookup" \in Registering \ Assigning
      BY DEF Registering, Assigning
    <3> QED
      BY <1>2, <1>4, <1>5, <1>6, <2>1, <2>2, <3>1, HandlerGoes
  <2>3. CASE Respond(p, 404)
    BY <1>1, <2>1, <2>3, HandlerResponds
  <2> QED
    BY <1>7, <2>2, <2>3 DEF RegisterExists
<1>8. CASE RegisterLookup(p)
  <2>1. ctx'[p].user = NULL /\ ctx'[p] = ctx[p]
    BY <1>1, <1>8 DEF RegisterLookup, AtQuery, HandlerInv
  <2>2. CASE Goto(p, "reg_create")
    <3>1. "reg_create" \in Registering \ Assigning
      BY DEF Registering, Assigning
    <3> QED
      BY <1>2, <1>4, <1>5, <1>6, <2>1, <2>2, <3>1, HandlerGoes
  <2>3. CASE Respond(p, 409)
    BY <1>1, <2>1, <2>3, HandlerResponds
  <2> QED
    BY <1>8, <2>2, <2>3 DEF RegisterLookup
<1>9. CASE RegisterCreate(p)
  <2>1. PICK id : ctx' = [ctx EXCEPT ![p].user = id]
    BY <1>9 DEF RegisterCreate
  <2>2. ctx'[p].role = ctx[p].role
    BY <1>1, <2>1 DEF Context
  <2>3. RoleStays(ctx[p].role)'
    BY <1>1, <2>2, RoleStaysNext DEF HandlerInv, RoleStays
  <2>4. approved_users # {} /\ level \in 0..6
    BY <1>9 DEF RegisterCreate, CreateUser, CreateUserRefused, ApprovedUserExists,
                TypeInv, TypeOK, MigrationTypeOK
  <2>5. rollbacks' = 0 => level' = 6
    BY <1>3, <2>4 DEF RegisterInv, CalmTables
  <2>6. Goto(p, "reg_role")
    BY <1>9 DEF RegisterCreate
  <2>7. /\ "reg_role" \in Registering
        /\ "reg_role" \notin {"reg_exists", "reg_lookup", "reg_create"}
    BY DEF Registering
  <2> QED
    BY <1>2, <1>4, <1>6, <2>3, <2>5, <2>6, <2>7, HandlerGoes
<1>10. CASE RegisterCreateRefused(p)
  <2>1. ctx'[p].user = NULL /\ ctx'[p] = ctx[p] /\ Respond(p, 500)
    BY <1>1, <1>10 DEF RegisterCreateRefused, AtQuery, HandlerInv
  <2>2. NoAccount(ctx[p].user)'
    BY <2>1 DEF NoAccount
  <2> QED
    BY <1>1, <2>1, <2>2, HandlerResponds
<1>11. /\ \A label \in Assigning : /\ label \in Registering
                                   /\ label \notin {"reg_exists", "reg_lookup",
                                                    "reg_create"}
       /\ "issue" \notin Assigning /\ "issue" \notin Registering
  BY DEF Assigning, Registering
<1>12. pc[p] \in Assigning => (rollbacks' = 0 => level' = 6)
  BY <1>1, <1>3 DEF HandlerInv
<1>13. CASE RegisterRole(p)
  <2>1. pc[p] \in Assigning /\ ctx'[p].role = defaultUserRoleID[Home[p]]
    BY <1>1, <1>13 DEF RegisterRole, Assigning, Context
  <2>2. RoleStays(defaultUserRoleID[Home[p]])
    BY RequestAssumption DEF RegisterInv, CachesInv
  <2>3. RoleStays(ctx[p].role)'
    BY <2>1, <2>2, RoleStaysNext DEF RoleStays
  <2>4. PICK label \in Assigning : Goto(p, label)
    BY <1>13 DEF RegisterRole, Assigning
  <2> QED
    BY <1>2, <1>4, <1>6, <1>11, <1>12, <2>1, <2>3, <2>4, HandlerGoes
<1>14. CASE RegisterRoleLookup(p)
  <2>1. pc[p] \in Assigning
    BY <1>14 DEF RegisterRoleLookup, AtQuery, Assigning
  <2>2. ASSUME NEW r \in GetRoleByName("user"),
               ctx' = [ctx EXCEPT ![p].role = r.id], Goto(p, "reg_role_store")
        PROVE  HandlerInv(p)'
    <3>1. ctx'[p].role = r.id /\ r \in roles
      BY <1>1, <2>2 DEF Context, GetRoleByName
    <3>2. RoleStays(ctx[p].role)'
      BY <1>14, <3>1 DEF RoleStays, RegisterRoleLookup, dbVars
    <3>3. "reg_role_store" \in Assigning
      BY DEF Assigning
    <3> QED
      BY <1>2, <1>4, <1>6, <1>11, <1>12, <2>1, <2>2, <3>2, <3>3, HandlerGoes
  <2>3. ASSUME ctx' = ctx, Goto(p, "issue")
        PROVE  HandlerInv(p)'
    BY <1>2, <1>4, <1>5, <1>6, <1>11, <2>3, HandlerGoes
  <2> QED
    BY <1>14, <2>2, <2>3 DEF RegisterRoleLookup
<1>15. CASE RegisterRoleStore(p)
  <2>1. /\ pc[p] \in Assigning /\ "reg_assign" \in Assigning
        /\ Goto(p, "reg_assign") /\ ctx'[p] = ctx[p]
    BY <1>15 DEF RegisterRoleStore, Assigning
  <2> QED
    BY <1>2, <1>4, <1>5, <1>6, <1>11, <1>12, <2>1, HandlerGoes
<1>16. CASE RegisterAssign(p)
  <2>1. Goto(p, "issue") /\ ctx'[p] = ctx[p]
    BY <1>16 DEF RegisterAssign
  <2> QED
    BY <1>2, <1>4, <1>5, <1>6, <1>11, <2>1, HandlerGoes
<1>17. CASE RegisterAssignRefused(p)
  <2>1. /\ pc[p] = "reg_assign" /\ Respond(p, 500) /\ ctx' = ctx
        /\ users' = users /\ used' = used
    BY <1>17 DEF RegisterAssignRefused, AtQuery, dbVars
  <2>2. ctx[p].role \in RoleId /\ ctx[p].user \in used
    BY <1>1, <2>1 DEF LocalInv, UuidInv, TokenInv, Bound, HasAccount
  <2>3. rollbacks = 0 => \E r \in roles : r.id = ctx[p].role
    BY <1>1, <2>2, NullAssumption DEF HandlerInv, RoleStays
  <2>4. rollbacks = 0 => NoAccount(ctx[p].user)
    BY <1>17, <2>2, <2>3 DEF RegisterAssignRefused, AssignRoleRefused, GetUserByID,
                             NoAccount
  <2>5. rollbacks' = 0 => NoAccount(ctx[p].user)'
    BY <1>3, <2>1, <2>4 DEF NoAccount
  <2> QED
    BY <1>1, <2>1, <2>5, HandlerResponds
<1> QED
  BY <1>7, <1>8, <1>9, <1>10, <1>13, <1>14, <1>15, <1>16, <1>17

(* Whoever passes RequireAdmin is an admin, and stays one for as long as   *)
(* the whitelist entry that vouches for the account is there.              *)
LEMMA AdmitHandler ==
  ASSUME TypeInv, SchemaInv, RegisterInv, rollbacks' = 0 => CalmStep,
         NEW p \in Request, Admit(p), UNCHANGED <<dbVars, migrationVars>>
  PROVE  HandlerInv(p)'
<1>1. /\ RequestTypeOK /\ LocalInv(p) /\ HandlerInv(p) /\ args[p] \in Input
      /\ ctx \in [Request -> Context] /\ level \in 0..6
  BY DEF TypeInv, TypeOK, RequestTypeOK, MigrationTypeOK, RegisterInv, HandlersInv
<1>2. PICK u \in users : /\ MayPass(p, u)
                         /\ ctx' = [ctx EXCEPT ![p].user = u.id,
                                               ![p].creator = u.approved_user_id]
  BY DEF Admit, GetUserFromToken, GetUserByID
<1>3. /\ ctx'[p].user = u.id /\ ctx'[p].creator = u.approved_user_id
      /\ ctx'[p].role = ctx[p].role
  BY <1>1, <1>2 DEF Context
<1>4. RoleStays(ctx[p].role)'
  BY <1>1, <1>3, RoleStaysNext DEF HandlerInv, RoleStays
<1>5. args[p].op \in AdminOp \cup UserOp /\ args[p].op # "RegisterUser"
  BY <1>1 DEF Admit, AtQuery, LocalInv, Input, PublicOp
<1>6. UNCHANGED <<approved_users, users, roles, user_roles, used, level, rollbacks>>
  BY DEF dbVars, migrationVars
<1>7. args[p].op \in AdminOp => AdminStays(p)'
  <2> SUFFICES ASSUME args[p].op \in AdminOp, rollbacks = 0 PROVE AdminStays(p)'
    BY <1>6 DEF AdminStays
  <2>1. level = 6
    BY <1>1 DEF RegisterInv, CalmTables
  <2>2. ApprovedUserExists(u.approved_user_id) /\ u.approved_user_id \in used
    BY DEF SchemaInv, Tables, RefIntegrity, RowsDrawn, ApprovedUserExists
  <2>3. "admin" \in RoleNames(u.id) /\ RoleNames(u.id)' = RoleNames(u.id)
    BY <1>2, <1>6 DEF MayPass, RoleNames
  <2> QED
    BY <1>3, <1>6, <2>1, <2>2, <2>3 DEF AdminStays
<1>8. CASE Goto(p, Entry[args[p].op])
  <2>1. /\ Entry[args[p].op] \in Label \ Waiting
        /\ Entry[args[p].op] \notin Registering
        /\ Entry[args[p].op] \notin Assigning
        /\ Entry[args[p].op] \notin {"reg_exists", "reg_lookup", "reg_create"}
    BY <1>5, EntryType, LabelType DEF Waiting, Registering, Assigning
  <2>2. Entry[args[p].op] \in {"ca_lookup", "ca_create", "ap_bulk"} =>
          args[p].op \in AdminOp
    BY <1>5 DEF Entry, AdminOp, UserOp
  <2> QED
    BY <1>4, <1>5, <1>7, <1>8, <2>1, <2>2, HandlerGoes
<1>9. CASE Respond(p, args[p].body)
  BY <1>1, <1>3, <1>5, <1>9, HandlerResponds
<1> QED
  BY <1>8, <1>9 DEF Admit

LEMMA ProtectedHandler ==
  ASSUME TypeInv, SchemaInv, RegisterInv, rollbacks' = 0 => CalmStep,
         NEW p \in Request,
         \/ LoginLookup(p) \/ IssueToken(p) \/ Authenticate(p) \/ AnswerRead(p)
         \/ CreateApprovedLookup(p) \/ CreateApproved(p) \/ CreateApprovedRefused(p)
         \/ DeleteApproved(p)
  PROVE  HandlerInv(p)'
<1>1. /\ RequestTypeOK /\ LocalInv(p) /\ HandlerInv(p)
      /\ ctx \in [Request -> Context]
  BY DEF TypeInv, TypeOK, RequestTypeOK, RegisterInv, HandlersInv
<1>2. ctx'[p] = ctx[p] => RoleStays(ctx[p].role)'
  BY <1>1, RoleStaysNext DEF HandlerInv, RoleStays
<1>3. /\ \A label \in {"issue", "auth_user", "ca_create"} :
           /\ label \in Label \ Waiting /\ label \notin Registering
           /\ label \notin Assigning
           /\ label \notin {"reg_exists", "reg_lookup", "reg_create"}
      /\ {"issue", "auth_user"} \cap {"ca_lookup", "ca_create", "ap_bulk"} = {}
  BY LabelType DEF Waiting, Registering, Assigning
<1>4. pc[p] \in {"login_lookup", "auth", "auth_user", "ca_lookup", "ca_create",
                 "ap_bulk"} => args[p].op # "RegisterUser"
  BY <1>1 DEF HandlerInv, Registering, Waiting
<1>5. CASE LoginLookup(p)
  <2>1. args[p].op # "RegisterUser"
    BY <1>4, <1>5 DEF LoginLookup, AtQuery
  <2>2. ctx' = ctx \/ \E id : ctx' = [ctx EXCEPT ![p].user = id]
    BY <1>5 DEF LoginLookup
  <2>3. ctx'[p].role = ctx[p].role
    BY <1>1, <2>2 DEF Context
  <2>4. RoleStays(ctx[p].role)'
    BY <1>1, <2>3, RoleStaysNext DEF HandlerInv, RoleStays
  <2>5. CASE Goto(p, "issue")
    BY <1>3, <2>1, <2>4, <2>5, HandlerGoes
  <2>6. CASE Respond(p, 401)
    BY <1>1, <2>1, <2>3, <2>6, HandlerResponds
  <2> QED
    BY <1>5, <2>5, <2>6 DEF LoginLookup
<1>6. CASE Authenticate(p)
  <2>1. CASE ParseToken(p)
    <3>1. args[p].op # "RegisterUser" /\ ctx'[p] = ctx[p]
      BY <1>4, <2>1 DEF ParseToken
    <3>2. CASE Goto(p, "auth_user")
      BY <1>2, <1>3, <3>1, <3>2, HandlerGoes
    <3>3. CASE Respond(p, 401)
      BY <1>1, <3>1, <3>3, HandlerResponds
    <3> QED
      BY <2>1, <3>2, <3>3 DEF ParseToken
  <2>2. CASE Unauthorized(p) \/ Forbidden(p)
    <3>1. ctx'[p] = ctx[p] /\ \E code \in {401, 403} : Respond(p, code)
      BY <2>2 DEF Unauthorized, Forbidden
    <3> QED
      BY <1>1, <3>1, HandlerResponds
  <2>3. CASE Admit(p)
    BY <1>6, <2>3, AdmitHandler DEF Authenticate, runVars
  <2> QED
    BY <1>6, <2>1, <2>2, <2>3 DEF Authenticate
<1>7. CASE CreateApprovedLookup(p)
  <2>1. /\ args[p].op # "RegisterUser" /\ ctx'[p] = ctx[p]
        /\ pc[p] = "ca_lookup"
    BY <1>4, <1>7 DEF CreateApprovedLookup, AtQuery
  <2>2. AdminStays(p)'
    BY <1>1, <2>1, AdminStaysNext DEF HandlerInv
  <2>3. CASE Goto(p, "ca_create")
    BY <1>2, <1>3, <2>1, <2>2, <2>3, HandlerGoes
  <2>4. CASE Respond(p, 409)
    BY <1>1, <2>1, <2>4, HandlerResponds
  <2> QED
    BY <1>7, <2>3, <2>4 DEF CreateApprovedLookup
<1>8. CASE CreateApprovedRefused(p)
  <2>1. args[p].op # "RegisterUser" /\ ctx'[p] = ctx[p] /\ Respond(p, 500)
    BY <1>4, <1>8 DEF CreateApprovedRefused, AtCreateApproved, AtQuery
  <2> QED
    BY <1>1, <2>1, HandlerResponds
<1>9. CASE IssueToken(p) \/ AnswerRead(p) \/ CreateApproved(p) \/ DeleteApproved(p)
  <2>1. ctx'[p] = ctx[p] /\ \E code \in {200, 201, 204, 404} : Respond(p, code)
    BY <1>9 DEF IssueToken, AnswerRead, CreateApproved, DeleteApproved
  <2> QED
    BY <1>1, <2>1, HandlerResponds
<1> QED
  BY <1>5, <1>6, <1>7, <1>8, <1>9

(* Only a fault or a missing table is answered 500 without a refusal, and  *)
(* no table is missing once the account exists.                            *)
LEMMA FaultHandler ==
  ASSUME TypeInv, RegisterInv, rollbacks' = 0 => CalmStep, NEW p \in Request,
         QueryError(p) \/ CommitUnacked(p)
  PROVE  HandlerInv(p)'
<1>1. /\ RequestTypeOK /\ HandlerInv(p) /\ level \in 0..6 /\ faults \in Nat
      /\ rollbacks' = rollbacks
  BY RequestAssumption
     DEF TypeInv, TypeOK, RequestTypeOK, MigrationTypeOK, RegisterInv, HandlersInv,
         QueryError, CommitUnacked, migrationVars
<1>2. ctx'[p] = ctx[p]
  BY DEF QueryError, CommitUnacked, QueryFails, MissingTable, OnQueryError
<1>3. RoleStays(ctx[p].role)'
  BY <1>1, <1>2, RoleStaysNext DEF HandlerInv, RoleStays
<1>4. CASE CommitUnacked(p)
  <2>1. Respond(p, 500) /\ faults' # 0
    BY <1>1, <1>4 DEF CommitUnacked, AnswerLost
  <2> QED
    BY <1>1, <1>2, <2>1, HandlerResponds
<1>5. CASE QueryError(p)
  <2>1. OnQueryError(p) /\ (faults' = 0 => level < Needs[pc[p]])
    BY <1>1, <1>5 DEF QueryError, QueryFails, MissingTable
  <2>2. CASE pc[p] = "reg_role_lookup"
    <3>1. Goto(p, "issue")
      BY <2>1, <2>2 DEF OnQueryError, Swallowed
    <3>2. "issue" \in Label \ Waiting /\ "issue" \notin Registering \cup Assigning
      BY LabelType DEF Waiting, Registering, Assigning
    <3> QED
      BY <1>3, <3>1, <3>2, HandlerGoes
  <2>3. CASE pc[p] = "ca_lookup"
    <3>1. Goto(p, "ca_create")
      BY <2>1, <2>3 DEF OnQueryError, Swallowed
    <3>2. /\ "ca_create" \in Label \ Waiting
          /\ "ca_create" \notin Registering \cup Assigning
      BY LabelType DEF Waiting, Registering, Assigning
    <3>3. args[p].op # "RegisterUser"
      BY <1>1, <2>3 DEF HandlerInv, Waiting, Registering
    <3>4. AdminStays(p)'
      BY <1>1, <1>2, <2>3, AdminStaysNext DEF HandlerInv
    <3> QED
      BY <1>3, <3>1, <3>2, <3>3, <3>4, HandlerGoes
  <2>4. CASE pc[p] \notin {"reg_role_lookup", "ca_lookup"}
    <3>1. Respond(p, ErrorStatus(pc[p])) /\ pc[p] \in Query
      BY <2>1, <2>4 DEF OnQueryError, Swallowed
    <3>2. ASSUME args[p].op = "RegisterUser", faults' = 0, rollbacks' = 0
          PROVE  ctx[p].user = NULL
      <4>1. pc[p] \in {"reg_exists", "reg_lookup", "reg_create", "reg_assign"}
        BY <1>1, <2>4, <3>1, <3>2, LabelType DEF HandlerInv, Waiting, Registering
      <4>2. pc[p] # "reg_assign"
        BY <1>1, <2>1, <3>2, NeedsTables DEF HandlerInv, Assigning
      <4> QED
        BY <1>1, <4>1, <4>2 DEF HandlerInv
    <3>3. /\ args[p].op = "RegisterUser" /\ faults' = 0 /\ rollbacks' = 0
          => NoAccount(ctx[p].user)'
      BY <1>2, <3>2 DEF NoAccount
    <3> QED
      BY <1>1, <1>2, <3>1, <3>3, HandlerResponds
  <2> QED
    BY <2>2, <2>3, <2>4
<1> QED
  BY <1>4, <1>5

LEMMA OthersStill ==
  ASSUME TypeInv, NEW p \in Request, AuthMove(p), NEW q \in Request, q # p
  PROVE  Still(q)
BY DEF TypeInv, TypeOK, RequestTypeOK, AuthMove, Still, Goto, Respond

LEMMA HandlersInvNext ==
  ASSUME TypeInv, SchemaInv, UuidInv, RegisterInv, rollbacks' = 0 => CalmStep,
         [Next]_vars
  PROVE  HandlersInv'
<1>1. faults' = 0 => faults = 0
  BY FaultsGrow
<1>2. \A q \in Request : Still(q) => HandlerInv(q)'
  BY <1>1, HandlerStill DEF RegisterInv, HandlersInv
<1>3. ASSUME NEW p \in Request, AuthRequest(p)
      PROVE  HandlersInv'
  BY <1>2, <1>3, AuthRequestArrives, HandlerArrives DEF Arrival, HandlersInv
<1>4. ASSUME NEW p \in Request, AuthStep(p)
      PROVE  HandlersInv'
  <2>1. HandlerInv(p)'
    BY <1>4, RegisterHandler, ProtectedHandler, FaultHandler DEF AuthStep
  <2> QED
    BY <1>2, <1>4, <2>1, AuthStepMoves, OthersStill DEF HandlersInv
<1>5. ASSUME NEW r \in Replica, Restart(r)
      PROVE  HandlersInv'
  <2> SUFFICES ASSUME NEW q \in Request PROVE HandlerInv(q)'
    BY DEF HandlersInv
  <2>1. CASE Home[q] = r /\ pc[q] # "done"
    <3>1. pc'[q] = "idle" /\ ctx'[q] = NoContext /\ args'[q] = args[q]
      BY <1>5, <2>1 DEF Restart
    <3> QED
      BY <3>1 DEF HandlerInv, NoContext, Registering, Assigning, Waiting, RoleStays
  <2>2. CASE ~(Home[q] = r /\ pc[q] # "done")
    <3>1. Still(q)
      BY <1>5, <2>2 DEF Restart, Still
    <3> QED
      BY <1>2, <3>1
  <2> QED
    BY <2>1, <2>2
<1>6. CASE UNCHANGED reqVars
  BY <1>2, <1>6 DEF reqVars, Still, HandlersInv
<1>7. ASSUME Environment, \A r \in Replica : ~Restart(r)
      PROVE  UNCHANGED reqVars
  BY <1>7 DEF Environment, StartServer, Tick, Deactivate, SetPassword, Migrate
<1>8. UNCHANGED vars => UNCHANGED reqVars
  BY DEF vars
<1> QED
  BY <1>3, <1>4, <1>5, <1>6, <1>7, <1>8 DEF Next

LEMMA CachesInvNext ==
  ASSUME TypeInv, RegisterInv, rollbacks' = 0 => CalmStep, [Next]_vars
  PROVE  CachesInv'
<1>1. defaultUserRoleID \in [Replica -> RoleId \cup {NULL}]
  BY DEF TypeInv, TypeOK, AuthTypeOK
<1>2. \A r \in Replica : defaultUserRoleID'[r] = defaultUserRoleID[r] =>
        RoleStays(defaultUserRoleID[r])'
  BY RoleStaysNext DEF RegisterInv, CachesInv, RoleStays
<1>3. CASE defaultUserRoleID' = defaultUserRoleID
  BY <1>2, <1>3 DEF CachesInv
<1>4. ASSUME NEW r \in Replica, NEW id,
             defaultUserRoleID' = [defaultUserRoleID EXCEPT ![r] = id],
             RoleStays(id)
      PROVE  CachesInv'
  <2>1. \A s \in Replica : s # r => defaultUserRoleID'[s] = defaultUserRoleID[s]
    BY <1>1, <1>4
  <2>2. defaultUserRoleID'[r] = id
    BY <1>1, <1>4
  <2>3. RoleStays(defaultUserRoleID[r])'
    BY <1>4, <2>2, RoleStaysNext DEF RoleStays
  <2> QED
    BY <1>2, <2>1, <2>3 DEF CachesInv
<1>5. ASSUME NEW p \in Request, RegisterRoleStore(p)
      PROVE  CachesInv'
  <2>1. RoleStays(ctx[p].role) /\ Home[p] \in Replica
    BY RequestAssumption DEF RegisterInv, HandlersInv, HandlerInv
  <2> QED
    BY <1>4, <1>5, <2>1 DEF RegisterRoleStore
<1>6. ASSUME NEW r \in Replica, StartServer(r)
      PROVE  CachesInv'
  <2>1. ASSUME NEW u \in GetRoleByName("user"),
               defaultUserRoleID' = [defaultUserRoleID EXCEPT ![r] = u.id]
        PROVE  CachesInv'
    <3>1. RoleStays(u.id)
      BY DEF RoleStays, GetRoleByName
    <3> QED
      BY <1>4, <2>1, <3>1
  <2> QED
    BY <1>3, <1>6, <2>1 DEF StartServer, InitDefaultRoles
<1>7. ASSUME NEW r \in Replica, Restart(r)
      PROVE  CachesInv'
  BY <1>4, <1>7 DEF Restart, RoleStays
<1>8. ASSUME NEW p \in Request, AuthRequest(p)
      PROVE  defaultUserRoleID' = defaultUserRoleID
  BY <1>8 DEF AuthRequest, processVars
<1>9. ASSUME NEW p \in Request, AuthStep(p), ~RegisterRoleStore(p)
      PROVE  defaultUserRoleID' = defaultUserRoleID
  <2>1. CASE \/ RegisterExists(p) \/ RegisterLookup(p) \/ RegisterCreate(p)
             \/ RegisterCreateRefused(p) \/ RegisterRole(p) \/ RegisterRoleLookup(p)
             \/ RegisterAssign(p) \/ RegisterAssignRefused(p)
    BY <2>1 DEF RegisterExists, RegisterLookup, RegisterCreate,
                RegisterCreateRefused, RegisterRole, RegisterRoleLookup,
                RegisterAssign, RegisterAssignRefused, processVars
  <2>2. CASE \/ LoginLookup(p) \/ IssueToken(p) \/ Authenticate(p) \/ AnswerRead(p)
             \/ CreateApprovedLookup(p) \/ CreateApproved(p)
             \/ CreateApprovedRefused(p) \/ DeleteApproved(p)
    BY <2>2 DEF LoginLookup, IssueToken, Authenticate, AnswerRead,
                CreateApprovedLookup, CreateApproved, CreateApprovedRefused,
                DeleteApproved, processVars
  <2>3. CASE QueryError(p) \/ CommitUnacked(p)
    BY <2>3 DEF QueryError, CommitUnacked, processVars
  <2> QED
    BY <1>9, <2>1, <2>2, <2>3 DEF AuthStep
<1>10. Tick \/ Deactivate \/ SetPassword \/ Migrate =>
         defaultUserRoleID' = defaultUserRoleID
  BY DEF Tick, Deactivate, SetPassword, Migrate, processVars
<1>11. UNCHANGED vars => defaultUserRoleID' = defaultUserRoleID
  BY DEF vars, processVars
<1> QED
  BY <1>3, <1>5, <1>6, <1>7, <1>8, <1>9, <1>10, <1>11 DEF Next, Environment

LEMMA RegisterInvInit == Init => RegisterInv
BY DEF Init, InitDb, InitRequests, RegisterInv, CommandInv, CalmTables, HandlersInv,
       HandlerInv, CachesInv, RoleStays, NoInput, NoContext, Registering, Assigning,
       Waiting

LEMMA RegisterInvNext ==
  TypeInv /\ SchemaInv /\ UuidInv /\ RegisterInv /\ [Next]_vars => RegisterInv'
<1> SUFFICES ASSUME TypeInv, SchemaInv, UuidInv, RegisterInv, [Next]_vars
             PROVE  RegisterInv'
  OBVIOUS
<1>1. [BackendNext]_vars
  BY NextIsBackendNext
<1>2. rollbacks' = 0 => CalmStep
  BY <1>1, CalmSteps DEF RegisterInv
<1>3. CommandInv' /\ CalmTables'
  BY <1>1, CommandInvNext, CalmTablesNext DEF RegisterInv
<1> QED
  BY <1>2, <1>3, HandlersInvNext, CachesInvNext DEF RegisterInv

AllInv == TypeInv /\ SchemaInv /\ UuidInv /\ RegisterInv

LEMMA AllInvInit == Init => AllInv
BY TypeInvInit, SchemaInvInit, UuidInvInit, RegisterInvInit DEF AllInv

LEMMA AllInvNext == AllInv /\ [Next]_vars => AllInv'
BY TypeInvNext, NextIsBackendNext, SchemaInvNext, UuidInvNext, RegisterInvNext
   DEF AllInv

LEMMA AllInvAlways == Spec => []AllInv
BY AllInvInit, AllInvNext, PTL DEF Spec

-----------------------------------------------------------------------------
(* Without faults and down migrations a Register answered 500 has left no  *)
(* account behind, for any number of connections, replicas and requests:   *)
(* the INSERT was refused, or the account was deleted with its whitelist   *)
(* entry before the role could be assigned.  Neither a stale role cache    *)
(* nor a missing table answers 500 after the account was created.          *)
THEOREM FailuresLeaveNothing == Spec => []FailedRegisterLeavesNothing
<1>1. AllInv => FailedRegisterLeavesNothing
  <2> SUFFICES ASSUME AllInv, faults = 0, rollbacks = 0, NEW p \in Request,
                      pc[p] = "done", args[p].op = "RegisterUser", status[p] = 500
               PROVE  GetUserByID(ctx[p].user) = {}
    BY DEF FailedRegisterLeavesNothing
  <2>1. NoAccount(ctx[p].user)
    BY DEF AllInv, RegisterInv, HandlersInv, HandlerInv
  <2>2. \A u \in users : u.id # NULL
    BY NullAssumption DEF AllInv, TypeInv, TypeOK, DbTypeOK, UserRow
  <2> QED
    BY <2>1, <2>2 DEF NoAccount, GetUserByID
<1> QED
  BY <1>1, AllInvAlways, PTL

(* An admin who was removed after passing RequireAdmin adds nobody: the    *)
(* entry that vouched for the admin went with the account, so created_by   *)
(* refuses the INSERT, however many whitelist requests, deletions and      *)
(* registrations come between the check and the INSERT.                    *)
THEOREM LiveAdminsApprove == Spec => OnlyLiveAdminsApprove
<1> DEFINE Step ==
      rollbacks = 0 /\ level = 6 =>
         \A a \in approved_users' \ approved_users :
           \/ \E b \in approved_users : b.id = a.id
           \/ \E p \in Request :
                /\ pc[p] \in {"ca_create", "ap_bulk"}
                /\ ctx[p].creator = a.created_by
                /\ GetUserByID(ctx[p].user) # {}
                /\ "admin" \in RoleNames(ctx[p].user)
<1>1. AllInv /\ [Next]_vars => [Step]_vars
  <2> SUFFICES ASSUME AllInv, [Next]_vars, rollbacks = 0, level = 6,
                      NEW a \in approved_users', a \notin approved_users,
                      ~\E b \in approved_users : b.id = a.id
               PROVE  \E p \in Request :
                        /\ pc[p] \in {"ca_create", "ap_bulk"}
                        /\ ctx[p].creator = a.created_by
                        /\ GetUserByID(ctx[p].user) # {}
                        /\ "admin" \in RoleNames(ctx[p].user)
    OBVIOUS
  <2>1. ~UNCHANGED approved_users
    OBVIOUS
  <2>2. PICK p \in Request : AuthWrite(p)
    <3>1. ~OperatorWrite
      BY <2>1 DEF OperatorWrite, UpdateUser
    <3>2. \A p \in Request : ~TodoWrite(p)
      BY <2>1 DEF TodoWrite, InsertTodo, CreateTodo, UpdateTodoPartial, DeleteTodo
    <3>3. ~Migrate
      BY <2>1 DEF Migrate, RunUp, RunDownOrReset, MigrateStops, MigrateUp,
                  UpCreateTable, UpCreateRoles, UpSeed, MigrateDown, AllInv,
                  RegisterInv, CommandInv, dbVars
    <3> QED
      BY <2>1, <3>1, <3>2, <3>3, NextIsBackendNext, TableSteps DEF dbVars
  <2>3. ~DeleteApprovedUser(args[p].approved_id)
    <3> SUFFICES ASSUME DeleteApprovedUser(args[p].approved_id) PROVE FALSE
      OBVIOUS
    <3> DEFINE id == args[p].approved_id
               kept(b) == [b EXCEPT !.created_by = IF @ = id THEN NULL ELSE @]
    <3>1. approved_users' = {kept(b) : b \in {x \in approved_users : x.id # id}}
      BY DEF DeleteApprovedUser
    <3>2. \A b \in approved_users : kept(b).id = b.id
      BY DEF AllInv, TypeInv, TypeOK, DbTypeOK, ApprovedUserRow
    <3> HIDE DEF kept, id
    <3> QED
      BY <3>1, <3>2
  <2>4. AtCreateApproved(p) /\ InsertApproved(p)
    BY <2>1, <2>2, <2>3 DEF AuthWrite, CreateUser, AssignRole
  <2>5. PICK ids \in NewIds(DOMAIN args[p].emails, ApprovedId) :
          CreateApprovedUsersBulk(ids, args[p].emails, ctx[p].creator)
    BY <2>4 DEF InsertApproved
  <2>6. a.created_by = ctx[p].creator /\ ApprovedUserExists(ctx[p].creator)
    BY <2>5 DEF CreateApprovedUsersBulk, CreateApprovedUsersRefused
  <2>7. pc[p] \in {"ca_create", "ap_bulk"}
    BY <2>4 DEF AtCreateApproved, AtQuery
  <2>8. AdminStays(p)
    BY <2>7 DEF AllInv, RegisterInv, HandlersInv, HandlerInv
  <2> QED
    BY <2>6, <2>7, <2>8 DEF AdminStays, GetUserByID
<1> QED
  BY <1>1, AllInvAlways, PTL DEF Spec, OnlyLiveAdminsApprove

-----------------------------------------------------------------------------
(* An account that was not there before is that of a Register, which goes  *)
(* on to assign its role, or one that the seed inserts together with its   *)
(* role.                                                                   *)
LEMMA SeededAccounts ==
  ASSUME TypeInv, CalmTables, rollbacks = 0, UpSeed, NEW u \in users'
  PROVE  RoleNames(u.id)' # {}
<1>1. PICK roleIds \in NewIds(MissingRoles, RoleId),
           userIds \in NewIds(MissingUsers, UserId) :
        LET rs == DefaultRoles(roleIds)
            us == users \cup {SeedUser(userIds, e) : e \in MissingUsers}
        IN  roles' = rs /\ users' = us /\ user_roles' = user_roles \cup SeedGrants(us, rs)
  BY DEF UpSeed
<1>2. level = 5 /\ users = {}
  BY DEF UpSeed, CalmTables
<1>3. PICK e \in SeedEmail : u.email = e
  BY <1>1, <1>2 DEF SeedUser, MissingUsers
<1>4. PICK n \in RoleName : <<e, n>> \in {<<AdminEmail, "admin">>, <<UserEmail, "user">>}
  BY <1>3 DEF SeedEmail, RoleName
<1>5. PICK r \in roles : r.name = n
  BY <1>2, <1>4 DEF CalmTables
<1>6. r \in roles'
  BY <1>1, <1>5 DEF DefaultRoles
<1>7. [user_id |-> u.id, role_id |-> r.id] \in SeedGrants(users', roles')
  <2> DEFINE x == [user_id |-> u.id, role_id |-> r.id]
  <2>1. x \in [user_id : {v.id : v \in users'}, role_id : {s.id : s \in roles'}]
    BY <1>6
  <2>2. <<u.email, r.name>> \in {<<AdminEmail, "admin">>, <<UserEmail, "user">>}
    BY <1>3, <1>4, <1>5
  <2> QED
    BY <1>6, <2>1, <2>2 DEF SeedGrants
<1>8. [user_id |-> u.id, role_id |-> r.id] \in user_roles'
  BY <1>1, <1>7
<1> QED
  BY <1>6, <1>8 DEF RoleNames

LEMMA NewAccounts ==
  ASSUME AllInv, [Next]_vars, faults' = 0, rollbacks' = 0,
         NEW u \in users', \A v \in users : v.id # u.id, RoleNames(u.id)' = {}
  PROVE  \E p \in Request : RegisterCreate(p) /\ ctx'[p].user = u.id
<1>1. users' # users
  OBVIOUS
<1>2. TypeInv /\ CalmTables /\ CommandInv /\ faults \in Nat
  BY RequestAssumption DEF AllInv, RegisterInv, TypeInv, TypeOK, RequestTypeOK
<1>3. ASSUME NEW p \in Request, AuthStep(p)
      PROVE  RegisterCreate(p)
  <2>1. ~(\/ RegisterExists(p) \/ RegisterLookup(p) \/ RegisterCreateRefused(p)
          \/ RegisterRole(p) \/ RegisterRoleLookup(p) \/ RegisterRoleStore(p)
          \/ RegisterAssign(p) \/ RegisterAssignRefused(p))
    BY <1>1 DEF RegisterExists, RegisterLookup, RegisterCreateRefused, RegisterRole,
                RegisterRoleLookup, RegisterRoleStore, RegisterAssign, AssignRole,
                RegisterAssignRefused, dbVars
  <2>2. ~(\/ LoginLookup(p) \/ IssueToken(p) \/ Authenticate(p) \/ AnswerRead(p)
          \/ CreateApprovedLookup(p) \/ CreateApproved(p) \/ CreateApprovedRefused(p)
          \/ QueryError(p))
    BY <1>1 DEF LoginLookup, IssueToken, Authenticate, AnswerRead,
                CreateApprovedLookup, CreateApproved, InsertApproved,
                CreateApprovedUsersBulk, CreateApprovedRefused, QueryError, dbVars
  <2>3. ~DeleteApproved(p)
    BY DEF DeleteApproved, DeleteApprovedUser, CascadeUsers
  <2>4. ~CommitUnacked(p)
    BY <1>2 DEF CommitUnacked, AnswerLost
  <2> QED
    BY <1>3, <2>1, <2>2, <2>3, <2>4 DEF AuthStep
<1>4. ASSUME NEW p \in Request, RegisterCreate(p)
      PROVE  ctx'[p].user = u.id
  <2>1. PICK ids \in NewIds({args[p].email}, UserId) :
          /\ CreateUser(ids, args[p].approved_id, args[p].email,
                        GenerateFromPassword(args[p].password))
          /\ ctx' = [ctx EXCEPT ![p].user = ids[args[p].email]]
    BY <1>4 DEF RegisterCreate
  <2>2. u.id = ids[args[p].email]
    BY <2>1 DEF CreateUser
  <2>3. ctx \in [Request -> Context]
    BY <1>2 DEF TypeInv, TypeOK, RequestTypeOK
  <2> QED
    BY <2>1, <2>2, <2>3 DEF Context
<1>5. ~Migrate
  <2> SUFFICES ASSUME Migrate PROVE FALSE
    OBVIOUS
  <2>1. rollbacks = 0
    BY <1>2, NextIsBackendNext, CalmSteps DEF CalmStep, AllInv
  <2>2. UpSeed
    BY <1>1, <1>2, <2>1 DEF Migrate, RunUp, RunDownOrReset, MigrateStops, MigrateUp,
             UpCreateTable, UpCreateRoles, MigrateDown, CommandInv, dbVars
  <2> QED
    BY <1>2, <2>1, <2>2, SeededAccounts
<1>6. ~OperatorWrite
  <2> SUFFICES ASSUME NEW id, NEW h, NEW active, UpdateUser(id, h, active)
               PROVE  FALSE
    BY DEF OperatorWrite
  <2> DEFINE upd(v) == IF v.id = id THEN [v EXCEPT !.password_hash = h,
                                                   !.is_active = active]
                                    ELSE v
  <2>1. users' = {upd(v) : v \in users}
    BY DEF UpdateUser
  <2>2. \A v \in users : upd(v).id = v.id
    BY <1>2 DEF TypeInv, TypeOK, DbTypeOK, UserRow
  <2> HIDE DEF upd
  <2> QED
    BY <2>1, <2>2
<1>7. ~Environment
  <2>1. \A r \in Replica : ~StartServer(r) /\ ~Restart(r)
    BY <1>1 DEF StartServer, Restart, dbVars
  <2>2. ~Tick
    BY <1>1 DEF Tick, dbVars
  <2>3. ~Deactivate /\ ~SetPassword
    BY <1>6 DEF Deactivate, SetPassword, OperatorWrite
  <2> QED
    BY <1>5, <2>1, <2>2, <2>3 DEF Environment
<1>8. \A p \in Request : ~AuthRequest(p)
  BY <1>1 DEF AuthRequest, dbVars
<1>9. ~UNCHANGED vars
  BY <1>1 DEF vars, dbVars
<1> QED
  BY <1>3, <1>4, <1>7, <1>8, <1>9 DEF Next

RegisteringAccount(p, id) ==
    /\ args[p].op = "RegisterUser" /\ ctx[p].user = id
    /\ pc[p] \in {"reg_role", "reg_role_lookup", "reg_role_store", "reg_assign"}

(* A Register that is assigning a role to an account goes on doing so,     *)
(* unless the account is gone or has its role.                             *)
LEMMA AssigningGoesOn ==
  ASSUME AllInv, [Next]_vars, faults' = 0, restarts' = 0, rollbacks' = 0, CalmStep,
         NEW p \in Request, NEW u \in users', RegisteringAccount(p, u.id),
         \E v \in users : v.id = u.id, RoleNames(u.id)' = {}
  PROVE  RegisteringAccount(p, u.id)'
<1>1. /\ TypeInv /\ RequestTypeOK /\ LocalInv(p) /\ HandlerInv(p) /\ faults \in Nat
      /\ restarts \in Nat /\ ctx \in [Request -> Context]
  BY RequestAssumption, AuthAssumption
     DEF AllInv, RegisterInv, HandlersInv, TypeInv, TypeOK, RequestTypeOK, AuthTypeOK
<1>2. /\ rollbacks = 0 /\ level = 6
      /\ \E r \in roles : r.name = "user"
  <2>1. rollbacks = 0 /\ level = 6
    BY <1>1 DEF CalmStep, HandlerInv, RegisteringAccount, Assigning
  <2> QED
    BY <2>1 DEF AllInv, RegisterInv, CalmTables, RoleName
<1>3. Still(p) => RegisteringAccount(p, u.id)'
  BY DEF Still, RegisteringAccount
<1>4. ASSUME NEW label \in {"reg_role_lookup", "reg_role_store", "reg_assign"},
             Goto(p, label), ctx'[p].user = ctx[p].user
      PROVE  RegisteringAccount(p, u.id)'
  BY <1>1, <1>4 DEF RegisteringAccount, RequestTypeOK, Goto
<1>5. CASE AuthStep(p)
  <2>1. CASE RegisterRole(p)
    <3>1. ctx'[p].user = ctx[p].user
      BY <1>1, <2>1 DEF RegisterRole, Context
    <3> QED
      BY <1>4, <2>1, <3>1 DEF RegisterRole
  <2>2. CASE RegisterRoleLookup(p)
    <3>1. PICK r : /\ ctx' = [ctx EXCEPT ![p].role = r.id]
                   /\ Goto(p, "reg_role_store")
      BY <1>2, <2>2 DEF RegisterRoleLookup, GetRoleByName
    <3>2. ctx'[p].user = ctx[p].user
      BY <1>1, <3>1 DEF Context
    <3> QED
      BY <1>4, <3>1, <3>2
  <2>3. CASE RegisterRoleStore(p)
    BY <1>4, <2>3 DEF RegisterRoleStore
  <2>4. ~RegisterAssign(p)
    <3> SUFFICES ASSUME RegisterAssign(p) PROVE FALSE
      OBVIOUS
    <3>1. PICK r \in roles : r.id = ctx[p].role
      BY DEF RegisterAssign, AssignRole, AssignRoleRefused
    <3>2. r \in roles' /\ [user_id |-> u.id, role_id |-> r.id] \in user_roles'
      BY <3>1 DEF RegisterAssign, AssignRole, RegisteringAccount
    <3> QED
      BY <3>2 DEF RoleNames
  <2>5. ~RegisterAssignRefused(p)
    <3> SUFFICES ASSUME RegisterAssignRefused(p) PROVE FALSE
      OBVIOUS
    <3>1. ctx[p].role # NULL
      BY <1>1, NullAssumption DEF RegisterAssignRefused, AtQuery, LocalInv
    <3>2. \E r \in roles : r.id = ctx[p].role
      BY <1>1, <1>2, <3>1 DEF HandlerInv, RoleStays
    <3> QED
      BY <3>2 DEF RegisterAssignRefused, AssignRoleRefused, GetUserByID,
                  RegisteringAccount
  <2>6. ~QueryError(p)
    <3>1. ~QueryFails(p)
      BY <1>1 DEF QueryFails
    <3>2. ~MissingTable(p)
      BY <1>2, LabelType DEF MissingTable, Needs, RegisteringAccount
    <3> QED
      BY <3>1, <3>2 DEF QueryError
  <2>7. ~CommitUnacked(p)
    BY <1>1 DEF CommitUnacked, AnswerLost
  <2>8. ~(\/ RegisterExists(p) \/ RegisterLookup(p) \/ RegisterCreate(p)
          \/ RegisterCreateRefused(p) \/ LoginLookup(p) \/ IssueToken(p)
          \/ Authenticate(p) \/ AnswerRead(p) \/ CreateApprovedLookup(p)
          \/ CreateApproved(p) \/ CreateApprovedRefused(p) \/ DeleteApproved(p))
    BY DEF RegisteringAccount, RegisterExists, RegisterLookup, RegisterCreate,
           RegisterCreateRefused, LoginLookup, IssueToken, Authenticate, ParseToken,
           Unauthorized, Forbidden, Admit, AnswerRead, CreateApprovedLookup,
           CreateApproved, CreateApprovedRefused, AtCreateApproved, DeleteApproved,
           AtQuery
  <2> QED
    BY <1>5, <2>1, <2>2, <2>3, <2>4, <2>5, <2>6, <2>7, <2>8 DEF AuthStep
<1>6. ASSUME NEW q \in Request, q # p, AuthStep(q)
      PROVE  Still(p)
  BY <1>1, <1>6, AuthStepMoves, OthersStill
<1>7. ASSUME NEW q \in Request, AuthRequest(q)
      PROVE  Still(p)
  <2>1. q # p
    BY <1>1, <1>7, AuthRequestArrives DEF Arrival, Waiting, RegisteringAccount
  <2> QED
    BY <1>1, <1>7, <2>1, AuthRequestArrives DEF Arrival
<1>8. CASE Environment
  <2>1. \A r \in Replica : ~Restart(r)
    BY <1>1 DEF Restart
  <2>2. UNCHANGED reqVars
    BY <1>8, <2>1 DEF Environment, StartServer, Tick, Deactivate, SetPassword, Migrate
  <2> QED
    BY <1>3, <2>2 DEF Still, reqVars
<1>9. UNCHANGED vars => Still(p)
  BY DEF vars, reqVars, Still
<1> QED
  BY <1>3, <1>5, <1>6, <1>7, <1>8, <1>9 DEF Next

LEMMA RestartsGrow ==
  ASSUME TypeInv, [Next]_vars
  PROVE  restarts' = 0 => restarts = 0
<1>1. restarts \in Nat
  BY AuthAssumption DEF TypeInv, TypeOK, AuthTypeOK
<1>2. ASSUME NEW p \in Request, AuthRequest(p)
      PROVE  restarts' = restarts
  BY <1>2 DEF AuthRequest, processVars
<1>3. ASSUME NEW p \in Request, AuthStep(p)
      PROVE  restarts' = restarts
  <2>1. CASE \/ RegisterExists(p) \/ RegisterLookup(p) \/ RegisterCreate(p)
             \/ RegisterCreateRefused(p) \/ RegisterRole(p) \/ RegisterRoleLookup(p)
             \/ RegisterRoleStore(p) \/ RegisterAssign(p) \/ RegisterAssignRefused(p)
    BY <2>1 DEF RegisterExists, RegisterLookup, RegisterCreate,
                RegisterCreateRefused, RegisterRole, RegisterRoleLookup,
                RegisterRoleStore, RegisterAssign, RegisterAssignRefused, processVars
  <2>2. CASE \/ LoginLookup(p) \/ IssueToken(p) \/ Authenticate(p) \/ AnswerRead(p)
             \/ CreateApprovedLookup(p) \/ CreateApproved(p)
             \/ CreateApprovedRefused(p) \/ DeleteApproved(p)
    BY <2>2 DEF LoginLookup, IssueToken, Authenticate, AnswerRead,
                CreateApprovedLookup, CreateApproved, CreateApprovedRefused,
                DeleteApproved, processVars
  <2>3. CASE QueryError(p) \/ CommitUnacked(p)
    BY <2>3 DEF QueryError, CommitUnacked, processVars
  <2> QED
    BY <1>3, <2>1, <2>2, <2>3 DEF AuthStep
<1>4. CASE Environment
  <2>1. ASSUME NEW r \in Replica, StartServer(r) \/ Restart(r)
        PROVE  restarts' = 0 => restarts = 0
    BY <1>1, <2>1 DEF StartServer, Restart
  <2>2. Tick \/ Deactivate \/ SetPassword \/ Migrate => restarts' = restarts
    BY DEF Tick, Deactivate, SetPassword, Migrate, processVars
  <2> QED
    BY <1>4, <2>1, <2>2 DEF Environment
<1>5. UNCHANGED vars => restarts' = restarts
  BY DEF vars, processVars
<1> QED
  BY <1>2, <1>3, <1>4, <1>5 DEF Next

LEMMA RolelessNext == AllInv /\ RolelessInFlight /\ [Next]_vars => RolelessInFlight'
<1> SUFFICES ASSUME AllInv, RolelessInFlight, [Next]_vars,
                    faults' = 0, restarts' = 0, rollbacks' = 0,
                    NEW u \in users', RoleNames(u.id)' = {}
             PROVE  \E p \in Request : RegisteringAccount(p, u.id)'
  BY DEF RolelessInFlight, RegisteringAccount
<1>1. CalmStep /\ rollbacks = 0 /\ faults = 0 /\ restarts = 0
  <2>1. CalmStep
    BY NextIsBackendNext, CalmSteps DEF AllInv, RegisterInv
  <2> QED
    BY <2>1, FaultsGrow, RestartsGrow DEF AllInv, CalmStep
<1>2. CASE \E v \in users : v.id = u.id
  <2>1. PICK v \in users : v.id = u.id
    BY <1>2
  <2>2. RoleNames(v.id) = {}
    <3> SUFFICES ASSUME NEW r \in roles,
                        [user_id |-> v.id, role_id |-> r.id] \in user_roles
                 PROVE  FALSE
      BY DEF RoleNames
    <3>1. r \in roles' /\ [user_id |-> v.id, role_id |-> r.id] \in user_roles'
      BY <1>1, <2>1 DEF CalmStep
    <3> QED
      BY <2>1, <3>1 DEF RoleNames
  <2>3. PICK p \in Request : RegisteringAccount(p, v.id)
    BY <1>1, <2>2 DEF RolelessInFlight, RegisteringAccount
  <2> QED
    BY <1>1, <2>1, <2>3, AssigningGoesOn
<1>3. CASE \A v \in users : v.id # u.id
  <2>1. PICK p \in Request : RegisterCreate(p) /\ ctx'[p].user = u.id
    BY <1>3, NewAccounts
  <2>2. args[p].op = "RegisterUser"
    BY <2>1 DEF RegisterCreate, AtQuery, AllInv, RegisterInv, HandlersInv, HandlerInv,
                Registering
  <2>3. pc'[p] = "reg_role" /\ args'[p] = args[p]
    BY <2>1 DEF RegisterCreate, Goto, AllInv, TypeInv, TypeOK, RequestTypeOK
  <2> QED
    BY <2>1, <2>2, <2>3 DEF RegisteringAccount
<1> QED
  BY <1>2, <1>3

(* CreateUser and AssignRoleToUser share no transaction, yet without       *)
(* faults, restarts and down migrations an account without a role is       *)
(* always one whose Register is about to assign it: no interleaving of any *)
(* number of requests, on any number of replicas with their own caches,    *)
(* leaves an account that can log in and do nothing.                       *)
THEOREM RolelessAccounts == Spec => []RolelessInFlight
<1>1. Init => RolelessInFlight
  BY DEF Init, InitDb, RolelessInFlight
<1> QED
  BY <1>1, RolelessNext, AllInvAlways, PTL DEF Spec

-----------------------------------------------------------------------------
(* The refinement.  AuthRefinement maps the tables, goroutines and         *)
(* counters to the state of Registry.                                      *)
RegistryStep == [AtomicRegistry!Next]_(AtomicRegistry!registryVars)

(* What the answers, the tables and the calls have to do for a step of     *)
(* Registry, one lemma for each kind of step.                              *)

LEMMA NothingHappens ==
  ASSUME Whitelist' = Whitelist, Accounts' = Accounts, Calls' = Calls,
         Trouble => Trouble'
  PROVE  RegistryStep
<1>1. CASE Trouble'
  <2>1. AtomicRegistry!StartTrouble
    BY <1>1 DEF AtomicRegistry!StartTrouble
  <2> QED
    BY <2>1 DEF RegistryStep, AtomicRegistry!Next
<1>2. CASE ~Trouble'
  <2>1. Trouble' = Trouble
    BY <1>2 DEF Trouble
  <2>2. UNCHANGED AtomicRegistry!registryVars
    BY <2>1 DEF AtomicRegistry!registryVars
  <2> QED
    BY <2>2 DEF RegistryStep
<1> QED
  BY <1>1, <1>2

LEMMA CallAt ==
  ASSUME NEW p \in Request
  PROVE  /\ pc[p] = "idle" \/ args[p].op # "RegisterUser" => Call(p) = AtomicRegistry!NoCall
         /\ pc[p] = "done" /\ args[p].op = "RegisterUser" =>
              Call(p) = [state |-> "answered", email |-> NULL, entry |-> NULL,
                         account |-> ctx[p].user, answer |-> status[p]]
         /\ pc[p] \in HasAccount /\ args[p].op = "RegisterUser" =>
              Call(p) = [state |-> "applied", email |-> args[p].email,
                         entry |-> args[p].approved_id, account |-> ctx[p].user,
                         answer |-> 0]
         /\ /\ pc[p] \in {"reg_exists", "reg_lookup", "reg_create"}
            /\ args[p].op = "RegisterUser"
            => Call(p) = [state |-> "pending", email |-> args[p].email,
                          entry |-> args[p].approved_id, account |-> ctx[p].user,
                          answer |-> 0]
<1>1. ASSUME pc[p] = "idle" \/ args[p].op # "RegisterUser"
      PROVE  Call(p) = AtomicRegistry!NoCall
  <2>1. CallState(p) = "none"
    BY <1>1 DEF CallState, HasAccount
  <2> QED
    BY <2>1 DEF Call, AtomicRegistry!NoCall
<1>2. ASSUME pc[p] = "done", args[p].op = "RegisterUser"
      PROVE  CallState(p) = "answered"
  BY <1>2 DEF CallState, HasAccount
<1>3. ASSUME pc[p] \in HasAccount, args[p].op = "RegisterUser"
      PROVE  CallState(p) = "applied"
  BY <1>3 DEF CallState, HasAccount
<1>4. ASSUME pc[p] \in {"reg_exists", "reg_lookup", "reg_create"},
             args[p].op = "RegisterUser"
      PROVE  CallState(p) = "pending"
  BY <1>4 DEF CallState, HasAccount
<1> QED
  BY <1>1, <1>2, <1>3, <1>4 DEF Call

LEMMA CallsMove ==
  ASSUME NEW p \in Request, \A q \in Request : q # p => Call(q)' = Call(q)
  PROVE  /\ Calls' = [Calls EXCEPT ![p] = Call(p)']
         /\ Call(p)' = Call(p) => Calls' = Calls
         /\ Calls[p] = Call(p) /\ Calls'[p] = Call(p)'
BY DEF Calls

LEMMA CallStill ==
  ASSUME NEW q \in Request, Still(q)
  PROVE  Call(q)' = Call(q)
<1>1. CallState(q)' = CallState(q)
  BY DEF Still, CallState
<1> QED
  BY <1>1 DEF Still, Call

(* A Register between its arrival and its answer. *)
Open(p) ==
    /\ args[p].op = "RegisterUser"
    /\ pc[p] \in HasAccount \cup {"reg_exists", "reg_lookup", "reg_create"}

LEMMA OpenCall ==
  ASSUME NEW p \in Request, Open(p)
  PROVE  /\ Call(p).state = IF pc[p] \in HasAccount THEN "applied" ELSE "pending"
         /\ Call(p).email = args[p].email /\ Call(p).entry = args[p].approved_id
         /\ Call(p).account = ctx[p].user
BY CallAt DEF Open

LEMMA OpenAtStep ==
  ASSUME TypeInv, NEW p \in Request, HandlerInv(p)
  PROVE  /\ pc[p] \in Registering => Open(p)
         /\ pc[p] = "issue" /\ args[p].op = "RegisterUser" => Open(p)
         /\ pc[p] \notin Waiting /\ ~Open(p) => args[p].op # "RegisterUser"
BY DEF HandlerInv, Registering, Open, HasAccount

LEMMA Answers ==
  ASSUME TypeInv, NEW p \in Request, Open(p), NEW code, Respond(p, code), ctx' = ctx,
         \A q \in Request : q # p => Still(q)
  PROVE  AtomicRegistry!Finish(p, code)
<1>1. /\ pc'[p] = "done" /\ args'[p].op = "RegisterUser" /\ status'[p] = code
      /\ ctx'[p] = ctx[p]
  BY DEF Open, Respond, NoInput, TypeInv, TypeOK, RequestTypeOK
<1>2. Call(p)' = [state |-> "answered", email |-> NULL, entry |-> NULL,
                  account |-> ctx[p].user, answer |-> code]
  <2>1. CallState(p)' = "answered"
    BY <1>1 DEF CallState, HasAccount
  <2> QED
    BY <1>1, <2>1 DEF Call
<1>3. Calls' = [Calls EXCEPT ![p] = Call(p)'] /\ Calls[p] = Call(p)
  BY CallStill, CallsMove
<1>4. Calls[p].account = ctx[p].user
  BY <1>3, OpenCall
<1> QED
  BY <1>2, <1>3, <1>4 DEF AtomicRegistry!Finish, AtomicRegistry!Answered

LEMMA CallAtNext ==
  ASSUME NEW p \in Request
  PROVE  /\ pc'[p] = "idle" \/ args'[p].op # "RegisterUser" =>
              Call(p)' = AtomicRegistry!NoCall
         /\ pc'[p] = "done" /\ args'[p].op = "RegisterUser" =>
              Call(p)' = AtomicRegistry!Answered(ctx'[p].user, status'[p])
         /\ pc'[p] \in HasAccount /\ args'[p].op = "RegisterUser" =>
              Call(p)' = [state |-> "applied", email |-> args'[p].email,
                          entry |-> args'[p].approved_id, account |-> ctx'[p].user,
                          answer |-> 0]
         /\ /\ pc'[p] \in {"reg_exists", "reg_lookup", "reg_create"}
            /\ args'[p].op = "RegisterUser"
            => Call(p)' = [state |-> "pending", email |-> args'[p].email,
                           entry |-> args'[p].approved_id, account |-> ctx'[p].user,
                           answer |-> 0]
<1>1. ASSUME pc'[p] = "idle" \/ args'[p].op # "RegisterUser"
      PROVE  Call(p)' = AtomicRegistry!NoCall
  <2>1. CallState(p)' = "none"
    BY <1>1 DEF CallState, HasAccount
  <2> QED
    BY <2>1 DEF Call, AtomicRegistry!NoCall
<1>2. ASSUME pc'[p] = "done", args'[p].op = "RegisterUser"
      PROVE  Call(p)' = AtomicRegistry!Answered(ctx'[p].user, status'[p])
  <2>1. CallState(p)' = "answered"
    BY <1>2 DEF CallState, HasAccount
  <2> QED
    BY <2>1 DEF Call, AtomicRegistry!Answered
<1>3. ASSUME pc'[p] \in HasAccount, args'[p].op = "RegisterUser"
      PROVE  CallState(p)' = "applied"
  BY <1>3 DEF CallState, HasAccount
<1>4. ASSUME pc'[p] \in {"reg_exists", "reg_lookup", "reg_create"},
             args'[p].op = "RegisterUser"
      PROVE  CallState(p)' = "pending"
  BY <1>4 DEF CallState, HasAccount
<1> QED
  BY <1>1, <1>2, <1>3, <1>4 DEF Call

Quiet == UNCHANGED <<approved_users, users, faults, rollbacks, level>>

LEMMA QuietKeeps ==
  ASSUME Quiet
  PROVE  Whitelist' = Whitelist /\ Accounts' = Accounts /\ Trouble' = Trouble
BY DEF Quiet, Whitelist, Accounts, Trouble, Account

LEMMA AccountColumns ==
  /\ \A u : /\ Account(u).id = u.id /\ Account(u).email = u.email
            /\ Account(u).entry = u.approved_user_id
  /\ AtomicRegistry!Emails(Accounts) = {u.email : u \in users}
  /\ AtomicRegistry!Ids(Accounts) = {u.id : u \in users}
<1>1. \A u : /\ Account(u).id = u.id /\ Account(u).email = u.email
            /\ Account(u).entry = u.approved_user_id
  BY DEF Account
<1>2. AtomicRegistry!Emails(Accounts) = {u.email : u \in users}
  BY <1>1 DEF AtomicRegistry!Emails, Accounts
<1>3. AtomicRegistry!Ids(Accounts) = {u.id : u \in users}
  BY <1>1 DEF AtomicRegistry!Ids, Accounts
<1> QED
  BY <1>1, <1>2, <1>3

LEMMA RegistryArrival ==
  ASSUME TypeInv, NEW p \in Request, AuthRequest(p)
  PROVE  RegistryStep
<1>1. Arrival(p) /\ Quiet
  BY AuthRequestArrives DEF AuthRequest, Quiet, dbVars, runVars, migrationVars
<1>2. /\ Calls' = [Calls EXCEPT ![p] = Call(p)'] /\ Calls[p] = Call(p)
      /\ Calls'[p] = Call(p)' /\ (Call(p)' = Call(p) => Calls' = Calls)
  BY <1>1, CallStill, CallsMove DEF Arrival
<1>3. /\ Call(p).state \in {"none", "answered"}
      /\ Call(p).state = "none" => Call(p) = AtomicRegistry!NoCall
  BY <1>1, CallAt DEF Arrival, Waiting, AtomicRegistry!NoCall
<1>4. CASE args'[p].op # "RegisterUser"
  <2>1. Call(p)' = AtomicRegistry!NoCall
    BY <1>4, CallAtNext
  <2>2. CASE Call(p).state = "none"
    BY <1>1, <1>2, <1>3, <2>1, <2>2, QuietKeeps, NothingHappens
  <2>3. CASE Call(p).state = "answered"
    <3>1. AtomicRegistry!Forget(p)
      BY <1>1, <1>2, <2>1, <2>3, QuietKeeps DEF AtomicRegistry!Forget
    <3> QED
      BY <3>1 DEF RegistryStep, AtomicRegistry!Next
  <2> QED
    BY <1>3, <2>2, <2>3
<1>5. CASE args'[p].op = "RegisterUser" /\ pc'[p] = "reg_exists"
  <2>1. /\ Call(p)'.state = "pending" /\ Call(p)'.account = NULL
        /\ Call(p)'.answer = 0
    BY <1>1, <1>5, CallAtNext DEF Arrival, NoContext
  <2>2. AtomicRegistry!Arrive(p)
    BY <1>1, <1>2, <1>3, <2>1, QuietKeeps DEF AtomicRegistry!Arrive
  <2> QED
    BY <2>2 DEF RegistryStep, AtomicRegistry!Next
<1>6. CASE args'[p].op = "RegisterUser" /\ pc'[p] = "done"
  <2>1. PICK code \in {400, 413} : Call(p)' = AtomicRegistry!Answered(NULL, code)
    BY <1>1, <1>6, CallAtNext DEF Arrival, NoContext
  <2>2. AtomicRegistry!Reject(p)
    BY <1>1, <1>2, <1>3, <2>1, QuietKeeps DEF AtomicRegistry!Reject
  <2> QED
    BY <2>2 DEF RegistryStep, AtomicRegistry!Next
<1> QED
  BY <1>1, <1>4, <1>5, <1>6 DEF Arrival

(* A statement that neither takes effect nor answers: nothing the client   *)
(* could see.                                                              *)
LEMMA RegistrySilent ==
  ASSUME TypeInv, NEW p \in Request, \A q \in Request : q # p => Still(q), Open(p),
         NEW label, Goto(p, label),
         ctx'[p].user = ctx[p].user, UNCHANGED <<approved_users, users>>,
         \/ pc[p] \in HasAccount /\ label \in HasAccount
         \/ /\ pc[p] \in {"reg_exists", "reg_lookup", "reg_create"}
            /\ label \in {"reg_exists", "reg_lookup", "reg_create"},
         Trouble => Trouble'
  PROVE  RegistryStep
<1>1. pc'[p] = label /\ args'[p] = args[p]
  BY DEF TypeInv, TypeOK, RequestTypeOK, Goto
<1>2. Call(p)' = Call(p)
  BY <1>1, CallAt, CallAtNext DEF Open
<1>3. Calls' = Calls
  BY <1>2, CallStill, CallsMove
<1>4. Whitelist' = Whitelist /\ Accounts' = Accounts
  BY DEF Whitelist, Accounts, Account
<1> QED
  BY <1>3, <1>4, NothingHappens

(* The answers that tell of a refusal, an account or a failure. *)
LEMMA RegistryRefusal ==
  ASSUME TypeInv, NEW p \in Request, \A q \in Request : q # p => Still(q), Open(p),
         ctx' = ctx, Quiet, pc[p] \notin HasAccount, NEW code, Respond(p, code),
         \/ code = 404 /\ ~ApprovedUserExists(args[p].approved_id)
         \/ code = 409 /\ GetUserByEmail(args[p].email) # {}
         \/ code = 500 /\ CreateUserRefused(args[p].approved_id, args[p].email)
  PROVE  RegistryStep
<1>1. AtomicRegistry!Finish(p, code)
  BY Answers
<1>2. /\ Calls[p].state = "pending" /\ Calls[p].email = args[p].email
      /\ Calls[p].entry = args[p].approved_id
  BY OpenCall DEF Calls
<1>3. ~ApprovedUserExists(args[p].approved_id) => args[p].approved_id \notin Whitelist
  BY DEF ApprovedUserExists, Whitelist
<1>4. GetUserByEmail(args[p].email) # {} =>
        args[p].email \in AtomicRegistry!Emails(Accounts)
  BY AccountColumns DEF GetUserByEmail
<1>5. \/ code = 404 /\ Calls[p].entry \notin Whitelist
      \/ code = 409 /\ Calls[p].email \in AtomicRegistry!Emails(Accounts)
      \/ /\ code = 500
         /\ \/ Calls[p].entry \notin Whitelist
            \/ Calls[p].email \in AtomicRegistry!Emails(Accounts)
  BY <1>2, <1>3, <1>4 DEF CreateUserRefused
<1>6. AtomicRegistry!Refuse(p)
  BY <1>1, <1>2, <1>5, QuietKeeps DEF AtomicRegistry!Refuse
<1> QED
  BY <1>6 DEF RegistryStep, AtomicRegistry!Next

LEMMA RegistryConfirms ==
  ASSUME TypeInv, NEW p \in Request, \A q \in Request : q # p => Still(q), Open(p),
         ctx' = ctx, Quiet, pc[p] \in HasAccount, NEW code, Respond(p, code),
         code = 201 \/ (code = 500 /\ GetUserByID(ctx[p].user) = {})
  PROVE  RegistryStep
<1>1. AtomicRegistry!Finish(p, code)
  BY Answers
<1>2. Calls[p].state = "applied" /\ Calls[p].account = ctx[p].user
  BY OpenCall DEF Calls
<1>3. CASE code = 201
  <2>1. AtomicRegistry!Confirm(p)
    BY <1>1, <1>2, <1>3, QuietKeeps DEF AtomicRegistry!Confirm
  <2> QED
    BY <2>1 DEF RegistryStep, AtomicRegistry!Next
<1>4. CASE code = 500 /\ GetUserByID(ctx[p].user) = {}
  <2>1. ctx[p].user \notin AtomicRegistry!Ids(Accounts)
    BY <1>4, AccountColumns DEF GetUserByID
  <2>2. AtomicRegistry!Revoked(p)
    BY <1>1, <1>2, <1>4, <2>1, QuietKeeps DEF AtomicRegistry!Revoked
  <2> QED
    BY <2>2 DEF RegistryStep, AtomicRegistry!Next
<1> QED
  BY <1>3, <1>4

LEMMA RegistryFailure ==
  ASSUME TypeInv, NEW p \in Request, \A q \in Request : q # p => Still(q), Open(p),
         ctx' = ctx, UNCHANGED <<approved_users, users>>, Trouble', Respond(p, 500)
  PROVE  RegistryStep
<1>1. AtomicRegistry!Finish(p, 500)
  BY Answers
<1>2. Calls[p].state \in {"pending", "applied"}
  BY OpenCall DEF Calls
<1>3. Whitelist' = Whitelist /\ Accounts' = Accounts
  BY DEF Whitelist, Accounts, Account
<1>4. AtomicRegistry!Fail(p)
  BY <1>1, <1>2, <1>3 DEF AtomicRegistry!Fail
<1> QED
  BY <1>4 DEF RegistryStep, AtomicRegistry!Next

(* The commit of CreateUser is the moment a registration takes effect,     *)
(* whether or not the handler learns of it.                                *)
LEMMA RegistryEffect ==
  ASSUME TypeInv, SchemaInv, NEW p \in Request, \A q \in Request : q # p => Still(q),
         Open(p), pc[p] = "reg_create", NEW h, NEW ids \in NewIds({args[p].email}, UserId),
         CreateUser(ids, args[p].approved_id, args[p].email, h),
         \/ /\ Goto(p, "reg_role") /\ ctx'[p].user = ids[args[p].email]
            /\ UNCHANGED <<faults, rollbacks, level>>
         \/ Respond(p, 500) /\ ctx' = ctx /\ Trouble'
  PROVE  RegistryStep
<1> DEFINE id == ids[args[p].email]
           row == [id |-> id, approved_user_id |-> args[p].approved_id,
                   email |-> args[p].email, password_hash |-> h, is_active |-> TRUE]
           a == Account(row)
<1>1. id \notin used /\ \A u \in users : u.id # id
  BY NewIdsFresh DEF SchemaInv, Tables, RowsDrawn
<1>2. users' = users \cup {row} /\ approved_users' = approved_users
  BY DEF CreateUser
<1>3. Accounts' = Accounts \cup {a} /\ Whitelist' = Whitelist
  <2>1. Accounts' = {Account(u) : u \in users'}
    BY DEF Accounts, Account
  <2> HIDE DEF row
  <2> QED
    BY <1>2, <2>1 DEF Accounts, Whitelist
<1>4. a.id = id /\ a.email = args[p].email /\ a.entry = args[p].approved_id
  BY AccountColumns
<1> HIDE DEF id, row, a
<1>5. a.id \notin AtomicRegistry!Ids(Accounts)
  BY <1>1, <1>4, AccountColumns
<1>6. a \in Accounts' \ Accounts
  BY <1>3, <1>5 DEF AtomicRegistry!Ids
<1>7. /\ Calls[p].state = "pending" /\ Calls[p].email = args[p].email
      /\ Calls[p].entry = args[p].approved_id
  <2>1. pc[p] \notin HasAccount
    BY DEF HasAccount
  <2> QED
    BY <2>1, OpenCall DEF Calls
<1>8. /\ args[p].approved_id \in Whitelist
      /\ args[p].email \notin AtomicRegistry!Emails(Accounts)
  BY AccountColumns DEF CreateUser, CreateUserRefused, ApprovedUserExists,
                        GetUserByEmail, Whitelist
<1>9. \/ /\ Calls' = [Calls EXCEPT ![p] = AtomicRegistry!Applied(Calls[p], a.id)]
         /\ UNCHANGED Trouble
      \/ AtomicRegistry!Finish(p, 500) /\ Trouble'
  <2>1. CASE /\ Goto(p, "reg_role") /\ ctx'[p].user = ids[args[p].email]
             /\ UNCHANGED <<faults, rollbacks, level>>
    <3>1. pc'[p] = "reg_role" /\ args'[p] = args[p] /\ "reg_role" \in HasAccount
      BY <2>1 DEF TypeInv, TypeOK, RequestTypeOK, Goto, HasAccount
    <3>2. Call(p)' = AtomicRegistry!Applied(Calls[p], a.id)
      BY <1>4, <1>7, <2>1, <3>1, CallAtNext DEF AtomicRegistry!Applied, Open, id
    <3>3. Calls' = [Calls EXCEPT ![p] = Call(p)']
      BY CallStill, CallsMove
    <3>4. UNCHANGED Trouble
      BY <2>1 DEF Trouble
    <3> QED
      BY <3>2, <3>3, <3>4
  <2>2. CASE Respond(p, 500) /\ ctx' = ctx /\ Trouble'
    BY <2>2, Answers
  <2> QED
    BY <2>1, <2>2
<1>10. AtomicRegistry!TakeEffect(p)
  BY <1>3, <1>4, <1>5, <1>6, <1>7, <1>8, <1>9 DEF AtomicRegistry!TakeEffect
<1> QED
  BY <1>10 DEF RegistryStep, AtomicRegistry!Next

(* The statements of Register. *)
LEMMA RegisterImplements ==
  ASSUME AllInv, NEW p \in Request,
         \/ RegisterExists(p) \/ RegisterLookup(p) \/ RegisterCreate(p)
         \/ RegisterCreateRefused(p) \/ RegisterRole(p) \/ RegisterRoleLookup(p)
         \/ RegisterRoleStore(p) \/ RegisterAssign(p) \/ RegisterAssignRefused(p)
  PROVE  RegistryStep
<1>1. /\ TypeInv /\ SchemaInv /\ HandlerInv(p) /\ LocalInv(p)
      /\ ctx \in [Request -> Context]
  BY DEF AllInv, RegisterInv, HandlersInv, TypeInv, TypeOK, RequestTypeOK
<1>2. \A q \in Request : q # p => Still(q)
  BY <1>1, AuthStepMoves, OthersStill DEF AuthStep
<1>3. pc[p] \in Registering /\ Open(p)
  <2>1. pc[p] \in Registering
    BY DEF RegisterExists, RegisterLookup, RegisterCreate, RegisterCreateRefused,
           RegisterRole, RegisterRoleLookup, RegisterRoleStore, RegisterAssign,
           RegisterAssignRefused, AtQuery, Registering
  <2> QED
    BY <1>1, <2>1, OpenAtStep
<1>4. UNCHANGED <<faults, rollbacks, level, approved_users>>
  BY DEF RegisterExists, RegisterLookup, RegisterCreate, RegisterCreateRefused,
         RegisterRole, RegisterRoleLookup, RegisterRoleStore, RegisterAssign,
         RegisterAssignRefused, CreateUser, AssignRole, runVars, migrationVars, dbVars
<1>5. ~RegisterCreate(p) => users' = users /\ Quiet
  BY <1>4 DEF RegisterExists, RegisterLookup, RegisterCreateRefused,
         RegisterRole, RegisterRoleLookup, RegisterRoleStore, RegisterAssign,
         RegisterAssignRefused, AssignRole, dbVars, Quiet
<1>6. Trouble => Trouble'
  BY <1>4 DEF Trouble
<1>7. CASE RegisterExists(p)
  <2>1. /\ ctx' = ctx /\ pc[p] = "reg_exists" /\ pc[p] \notin HasAccount
        /\ users' = users /\ Quiet
    BY <1>5, <1>7 DEF RegisterExists, RegisterCreate, AtQuery, HasAccount
  <2>2. CASE ApprovedUserExists(args[p].approved_id)
    <3>1. Goto(p, "reg_lookup")
      BY <1>7, <2>2 DEF RegisterExists
    <3> QED
      BY <1>1, <1>2, <1>3, <1>4, <1>6, <2>1, <3>1, RegistrySilent
  <2>3. CASE ~ApprovedUserExists(args[p].approved_id)
    <3>1. Respond(p, 404)
      BY <1>7, <2>3 DEF RegisterExists
    <3> QED
      BY <1>1, <1>2, <1>3, <2>1, <2>3, <3>1, RegistryRefusal
  <2> QED
    BY <2>2, <2>3
<1>8. CASE RegisterLookup(p)
  <2>1. /\ ctx' = ctx /\ pc[p] = "reg_lookup" /\ pc[p] \notin HasAccount
        /\ users' = users /\ Quiet
    BY <1>5, <1>8 DEF RegisterLookup, RegisterCreate, AtQuery, HasAccount
  <2>2. CASE GetUserByEmail(args[p].email) = {}
    <3>1. Goto(p, "reg_create")
      BY <1>8, <2>2 DEF RegisterLookup
    <3> QED
      BY <1>1, <1>2, <1>3, <1>4, <1>6, <2>1, <3>1, RegistrySilent
  <2>3. CASE GetUserByEmail(args[p].email) # {}
    <3>1. Respond(p, 409)
      BY <1>8, <2>3 DEF RegisterLookup
    <3> QED
      BY <1>1, <1>2, <1>3, <2>1, <2>3, <3>1, RegistryRefusal
  <2> QED
    BY <2>2, <2>3
<1>9. CASE RegisterCreate(p)
  <2>1. PICK ids \in NewIds({args[p].email}, UserId) :
          /\ CreateUser(ids, args[p].approved_id, args[p].email,
                        GenerateFromPassword(args[p].password))
          /\ ctx' = [ctx EXCEPT ![p].user = ids[args[p].email]]
    BY <1>9 DEF RegisterCreate
  <2>2. ctx'[p].user = ids[args[p].email]
    BY <1>1, <2>1 DEF Context
  <2>3. pc[p] = "reg_create" /\ Goto(p, "reg_role")
    BY <1>9 DEF RegisterCreate, AtQuery
  <2> QED
    BY <1>1, <1>2, <1>3, <1>4, <2>1, <2>2, <2>3, RegistryEffect
<1>10. CASE RegisterCreateRefused(p)
  <2>1. /\ ctx' = ctx /\ pc[p] = "reg_create" /\ Respond(p, 500)
        /\ CreateUserRefused(args[p].approved_id, args[p].email)
    BY <1>10 DEF RegisterCreateRefused, AtQuery
  <2>2. Quiet /\ pc[p] \notin HasAccount
    BY <1>4, <1>10, <2>1 DEF RegisterCreateRefused, dbVars, Quiet, HasAccount
  <2> QED
    BY <1>1, <1>2, <1>3, <2>1, <2>2, RegistryRefusal
<1>11. CASE \/ RegisterRole(p) \/ RegisterRoleLookup(p) \/ RegisterRoleStore(p)
            \/ RegisterAssign(p)
  <2>1. pc[p] \in HasAccount /\ users' = users
    BY <1>11 DEF RegisterRole, RegisterRoleLookup, RegisterRoleStore, RegisterAssign,
                 AssignRole, AtQuery, HasAccount, dbVars
  <2>2. ctx' = ctx \/ \E i : ctx' = [ctx EXCEPT ![p].role = i]
    BY <1>11 DEF RegisterRole, RegisterRoleLookup, RegisterRoleStore, RegisterAssign
  <2>3. ctx'[p].user = ctx[p].user
    BY <1>1, <2>2 DEF Context
  <2>4. PICK label \in HasAccount : Goto(p, label)
    <3>1. {"reg_role_lookup", "reg_role_store", "reg_assign", "issue"} \subseteq HasAccount
      BY DEF HasAccount
    <3>2. \E label \in {"reg_role_lookup", "reg_role_store", "reg_assign", "issue"} :
            Goto(p, label)
      BY <1>11 DEF RegisterRole, RegisterRoleLookup, RegisterRoleStore, RegisterAssign
    <3> QED
      BY <3>1, <3>2
  <2> QED
    BY <1>1, <1>2, <1>3, <1>4, <1>6, <2>1, <2>3, <2>4, RegistrySilent
<1>12. CASE RegisterAssignRefused(p)
  <2>1. /\ ctx' = ctx /\ pc[p] = "reg_assign" /\ Respond(p, 500) /\ users' = users
        /\ AssignRoleRefused(ctx[p].user, ctx[p].role)
    BY <1>12 DEF RegisterAssignRefused, AtQuery, dbVars
  <2>2. Quiet /\ pc[p] \in HasAccount
    BY <1>4, <2>1 DEF Quiet, HasAccount
  <2>3. CASE rollbacks > 0
    <3>1. Trouble'
      BY <1>4, <2>3 DEF Trouble
    <3> QED
      BY <1>1, <1>2, <1>3, <1>4, <2>1, <3>1, RegistryFailure
  <2>4. CASE ~(rollbacks > 0)
    <3>1. rollbacks = 0
      BY <1>1, <2>4, MaxRollbacksAssumption DEF TypeInv, TypeOK, MigrationTypeOK
    <3>2. ctx[p].role # NULL
      BY <1>1, <2>1, NullAssumption DEF LocalInv
    <3>3. \E r \in roles : r.id = ctx[p].role
      BY <1>1, <3>1, <3>2 DEF HandlerInv, RoleStays
    <3>4. GetUserByID(ctx[p].user) = {}
      BY <2>1, <3>3 DEF AssignRoleRefused
    <3> QED
      BY <1>1, <1>2, <1>3, <2>1, <2>2, <3>4, RegistryConfirms
  <2> QED
    BY <2>3, <2>4
<1> QED
  BY <1>7, <1>8, <1>9, <1>10, <1>11, <1>12

(* A goroutine that serves something else. *)
LEMMA OtherCalls ==
  ASSUME TypeInv, NEW p \in Request, AuthMove(p), args[p].op # "RegisterUser"
  PROVE  Calls' = Calls
<1>1. args'[p].op # "RegisterUser"
  BY DEF TypeInv, TypeOK, RequestTypeOK, AuthMove, Goto, Respond, NoInput
<1>2. Call(p)' = Call(p)
  BY <1>1, CallAt, CallAtNext
<1>3. \A q \in Request : q # p => Call(q)' = Call(q)
  BY OthersStill, CallStill
<1> QED
  BY <1>2, <1>3, CallsMove

LEMMA RegistryApproval ==
  ASSUME NEW p \in Request, InsertApproved(p), Calls' = Calls, Trouble => Trouble'
  PROVE  RegistryStep
<1>1. approved_users \subseteq approved_users' /\ users' = users
  BY DEF InsertApproved, CreateApprovedUsersBulk
<1>2. Whitelist \subseteq Whitelist' /\ Accounts' = Accounts
  BY <1>1 DEF Whitelist, Accounts, Account
<1>3. AtomicRegistry!Approve
  BY <1>2 DEF AtomicRegistry!Approve
<1> QED
  BY <1>3 DEF RegistryStep, AtomicRegistry!Next

LEMMA RegistryRemoval ==
  ASSUME TypeInv, SchemaInv, NEW id, DeleteApprovedUser(id), Calls' = Calls,
         Trouble => Trouble'
  PROVE  RegistryStep
<1> DEFINE kept(a) == [a EXCEPT !.created_by = IF @ = id THEN NULL ELSE @]
           gone == {u.id : u \in {x \in users : x.approved_user_id = id}}
<1>1. /\ approved_users' = {kept(a) : a \in {x \in approved_users : x.id # id}}
      /\ users' = {u \in users : u.id \notin gone}
  BY DEF DeleteApprovedUser, CascadeUsers
<1>2. \A a \in approved_users : kept(a).id = a.id
  BY DEF TypeInv, TypeOK, DbTypeOK, ApprovedUserRow
<1>3. \A u \in users : u.id \in gone <=> u.approved_user_id = id
  BY DEF SchemaInv, Tables, UniqueKeys
<1> HIDE DEF kept, gone
<1>4. Whitelist' = Whitelist \ {id}
  BY <1>1, <1>2 DEF Whitelist
<1>5. Accounts' = {a \in Accounts : a.entry # id}
  <2>1. users' = {u \in users : u.approved_user_id # id}
    BY <1>1, <1>3
  <2>2. Accounts' = {Account(u) : u \in users'}
    BY DEF Accounts, Account
  <2> QED
    BY <2>1, <2>2, AccountColumns DEF Accounts
<1>6. CASE id \in Whitelist
  <2>1. AtomicRegistry!Remove
    BY <1>4, <1>5, <1>6 DEF AtomicRegistry!Remove
  <2> QED
    BY <2>1 DEF RegistryStep, AtomicRegistry!Next
<1>7. CASE id \notin Whitelist
  <2>1. \A u \in users : u.approved_user_id \in Whitelist
    BY DEF SchemaInv, Tables, RefIntegrity, ApprovedUserExists, Whitelist
  <2>2. \A a \in Accounts : a.entry \in Whitelist
    BY <2>1, AccountColumns DEF Accounts
  <2>3. Whitelist' = Whitelist /\ Accounts' = Accounts
    BY <1>4, <1>5, <1>7, <2>2
  <2> QED
    BY <2>3, NothingHappens
<1> QED
  BY <1>6, <1>7

(* The handlers of the other operations, and the answer of Register. *)
LEMMA OthersImplement ==
  ASSUME AllInv, NEW p \in Request,
         \/ LoginLookup(p) \/ IssueToken(p) \/ Authenticate(p) \/ AnswerRead(p)
         \/ CreateApprovedLookup(p) \/ CreateApproved(p) \/ CreateApprovedRefused(p)
         \/ DeleteApproved(p)
  PROVE  RegistryStep
<1>1. TypeInv /\ SchemaInv /\ HandlerInv(p)
  BY DEF AllInv, RegisterInv, HandlersInv
<1>2. AuthMove(p) /\ \A q \in Request : q # p => Still(q)
  BY <1>1, AuthStepMoves, OthersStill DEF AuthStep
<1>3. UNCHANGED <<faults, rollbacks, level>>
  BY DEF LoginLookup, IssueToken, Authenticate, AnswerRead, CreateApprovedLookup,
         CreateApproved, CreateApprovedRefused, DeleteApproved, runVars, migrationVars
<1>4. Trouble' = Trouble
  BY <1>3 DEF Trouble
<1>5. CASE IssueToken(p) /\ args[p].op = "RegisterUser"
  <2>1. pc[p] = "issue" /\ Respond(p, 201) /\ ctx' = ctx
    BY <1>5 DEF IssueToken
  <2>2. pc[p] \in HasAccount /\ Quiet
    BY <1>3, <1>5, <2>1 DEF HasAccount, IssueToken, Quiet, dbVars
  <2>3. Open(p)
    BY <1>1, <1>5, <2>1, OpenAtStep
  <2> QED
    BY <1>1, <1>2, <2>1, <2>2, <2>3, RegistryConfirms
<1>6. CASE ~(IssueToken(p) /\ args[p].op = "RegisterUser")
  <2>1. args[p].op # "RegisterUser"
    <3>1. IssueToken(p) \/ pc[p] \notin Waiting \cup Registering \cup {"issue"}
      BY DEF LoginLookup, Authenticate, ParseToken, Unauthorized, Forbidden, Admit,
             AnswerRead, CreateApprovedLookup, CreateApproved, CreateApprovedRefused,
             AtCreateApproved, DeleteApproved, AtQuery, Waiting, Registering
    <3> QED
      BY <1>1, <1>6, <3>1 DEF HandlerInv
  <2>2. Calls' = Calls
    BY <1>1, <1>2, <2>1, OtherCalls
  <2>3. CASE CreateApproved(p)
    BY <1>4, <2>2, <2>3, RegistryApproval DEF CreateApproved
  <2>4. CASE DeleteApproved(p)
    BY <1>1, <1>4, <2>2, <2>4, RegistryRemoval DEF DeleteApproved
  <2>5. CASE ~CreateApproved(p) /\ ~DeleteApproved(p)
    <3>1. Quiet
      BY <1>3, <2>5 DEF LoginLookup, IssueToken, Authenticate, AnswerRead,
             CreateApprovedLookup, CreateApprovedRefused, Quiet, dbVars
    <3> QED
      BY <2>2, <3>1, QuietKeeps, NothingHappens
  <2> QED
    BY <2>3, <2>4, <2>5
<1> QED
  BY <1>5, <1>6

(* A failed statement, a missing table, an answer that was lost. *)
LEMMA FaultsImplement ==
  ASSUME AllInv, NEW p \in Request, QueryError(p) \/ CommitUnacked(p)
  PROVE  RegistryStep
<1>1. /\ TypeInv /\ SchemaInv /\ HandlerInv(p) /\ LocalInv(p)
      /\ faults \in Nat /\ level \in 0..6
  BY RequestAssumption
     DEF AllInv, RegisterInv, HandlersInv, TypeInv, TypeOK, RequestTypeOK,
         MigrationTypeOK
<1>2. AuthMove(p) /\ \A q \in Request : q # p => Still(q)
  BY <1>1, AuthStepMoves, OthersStill DEF AuthStep
<1>3. /\ UNCHANGED <<rollbacks, level, ctx>>
      /\ faults' > 0 \/ (faults' = faults /\ MissingTable(p))
  BY <1>1 DEF QueryError, CommitUnacked, QueryFails, AnswerLost, MissingTable,
              OnQueryError, migrationVars
<1>4. Trouble'
  <2>1. MissingTable(p) => level < 6
    <3>1. \A label \in Query : Needs[label] \in 1..5
      BY LabelType DEF Needs
    <3> QED
      BY <1>1, <3>1 DEF MissingTable
  <2> QED
    BY <1>3, <2>1 DEF Trouble
<1>5. CASE QueryError(p)
  <2>1. OnQueryError(p) /\ UNCHANGED <<approved_users, users>>
    BY <1>5 DEF QueryError, QueryFails, MissingTable, dbVars
  <2>2. Whitelist' = Whitelist /\ Accounts' = Accounts
    BY <2>1 DEF Whitelist, Accounts, Account
  <2>3. CASE args[p].op # "RegisterUser"
    BY <1>1, <1>2, <1>4, <2>2, <2>3, OtherCalls, NothingHappens
  <2>4. CASE args[p].op = "RegisterUser"
    <3>1. pc[p] \in Query /\ pc[p] \notin Waiting
      BY <2>1, LabelType DEF OnQueryError, Waiting
    <3>2. pc[p] \in Registering /\ Open(p)
      BY <1>1, <2>4, <3>1, OpenAtStep, LabelType DEF HandlerInv
    <3>3. CASE pc[p] = "reg_role_lookup"
      <4>1. Goto(p, "issue")
        BY <2>1, <3>3 DEF OnQueryError, Swallowed
      <4>2. pc[p] \in HasAccount /\ "issue" \in HasAccount
        BY <3>3 DEF HasAccount
      <4> QED
        BY <1>1, <1>2, <1>3, <1>4, <2>1, <3>2, <4>1, <4>2, RegistrySilent
    <3>4. CASE pc[p] # "reg_role_lookup"
      <4>1. pc[p] \in {"reg_exists", "reg_lookup", "reg_create", "reg_assign"}
        BY <3>1, <3>2, <3>4, LabelType DEF Registering
      <4>2. ErrorStatus(pc[p]) = 500
        BY <4>1 DEF ErrorStatus
      <4>3. Respond(p, 500)
        BY <2>1, <4>1, <4>2 DEF OnQueryError, Swallowed
      <4> QED
        BY <1>1, <1>2, <1>3, <1>4, <2>1, <3>2, <4>3, RegistryFailure
    <3> QED
      BY <3>3, <3>4
  <2> QED
    BY <2>3, <2>4
<1>6. CASE CommitUnacked(p)
  <2>1. Respond(p, 500) /\ ctx' = ctx
    BY <1>6 DEF CommitUnacked, AnswerLost
  <2>2. ASSUME pc[p] \notin Registering, pc[p] \notin Waiting, pc[p] # "issue"
        PROVE  Calls' = Calls
    <3>1. args[p].op # "RegisterUser"
      BY <1>1, <2>2 DEF HandlerInv
    <3> QED
      BY <1>1, <1>2, <3>1, OtherCalls
  <2>3. ASSUME AtQuery(p, "reg_create"), NEW ids \in NewIds({args[p].email}, UserId),
               CreateUser(ids, args[p].approved_id, args[p].email,
                          GenerateFromPassword(args[p].password))
        PROVE  RegistryStep
    <3>1. pc[p] = "reg_create" /\ pc[p] \in Registering
      BY <2>3 DEF AtQuery, Registering
    <3> QED
      BY <1>1, <1>2, <1>4, <2>1, <2>3, <3>1, OpenAtStep, RegistryEffect
  <2>4. CASE AtQuery(p, "reg_assign") /\ AssignRole(ctx[p].user, ctx[p].role)
    <3>1. pc[p] \in Registering /\ UNCHANGED <<approved_users, users>>
      BY <2>4 DEF AtQuery, Registering, AssignRole
    <3> QED
      BY <1>1, <1>2, <1>4, <2>1, <3>1, OpenAtStep, RegistryFailure
  <2>5. CASE AtCreateApproved(p) /\ InsertApproved(p)
    <3>1. Calls' = Calls
      BY <2>2, <2>5 DEF AtCreateApproved, AtQuery, Registering, Waiting
    <3> QED
      BY <1>4, <2>5, <3>1, RegistryApproval
  <2>6. CASE AtQuery(p, "ap_delete") /\ DeleteApprovedUser(args[p].approved_id)
    <3>1. Calls' = Calls
      BY <2>2, <2>6 DEF AtQuery, Registering, Waiting
    <3> QED
      BY <1>1, <1>4, <2>6, <3>1, RegistryRemoval
  <2> QED
    BY <1>6, <2>3, <2>4, <2>5, <2>6 DEF CommitUnacked, AuthWrite
<1> QED
  BY <1>5, <1>6

(* Restarts lose calls, the operator and the clock touch nothing Registry  *)
(* knows of, and migrations are trouble.                                   *)
LEMMA RestartImplements ==
  ASSUME AllInv, NEW r \in Replica, Restart(r)
  PROVE  RegistryStep
<1>1. Quiet
  BY DEF Restart, Quiet, dbVars, runVars, migrationVars
<1>2. ASSUME NEW q \in Request
      PROVE  \/ Call(q)' = Call(q)
             \/ /\ Call(q).state \in {"pending", "applied"}
                /\ Call(q)' = AtomicRegistry!NoCall
  <2>1. HandlerInv(q) /\ TypeInv
    BY DEF AllInv, RegisterInv, HandlersInv
  <2>2. CASE Home[q] = r /\ pc[q] # "done"
    <3>1. pc'[q] = "idle" /\ args'[q] = args[q]
      BY <2>2 DEF Restart
    <3>2. Call(q)' = AtomicRegistry!NoCall
      BY <3>1, CallAtNext
    <3>3. CASE Open(q)
      BY <3>2, <3>3, OpenCall
    <3>4. CASE ~Open(q)
      <4>1. pc[q] = "idle" \/ args[q].op # "RegisterUser"
        BY <2>1, <2>2, <3>4, OpenAtStep DEF Waiting
      <4> QED
        BY <3>2, <4>1, CallAt
    <3> QED
      BY <3>3, <3>4
  <2>3. CASE ~(Home[q] = r /\ pc[q] # "done")
    <3>1. Still(q)
      BY <2>3 DEF Restart, Still
    <3> QED
      BY <3>1, CallStill
  <2> QED
    BY <2>2, <2>3
<1>3. AtomicRegistry!Abandon
  <2>1. /\ \A c \in Request : Calls[c] = Call(c) /\ Calls'[c] = Call(c)'
        /\ Calls' = [c \in Request |-> Calls'[c]]
    BY DEF Calls
  <2> QED
    BY <1>1, <1>2, <2>1, QuietKeeps DEF AtomicRegistry!Abandon
<1> QED
  BY <1>3 DEF RegistryStep, AtomicRegistry!Next

LEMMA EnvironmentImplements ==
  ASSUME AllInv, Environment
  PROVE  RegistryStep
<1>1. /\ TypeInv /\ CommandInv /\ faults \in Nat /\ rollbacks \in Nat /\ level \in 0..6
  BY RequestAssumption, MaxRollbacksAssumption
     DEF AllInv, RegisterInv, TypeInv, TypeOK, RequestTypeOK, MigrationTypeOK
<1>2. UNCHANGED reqVars => Calls' = Calls
  BY CallStill DEF reqVars, Still, Calls
<1>3. ASSUME NEW r \in Replica, StartServer(r)
      PROVE  RegistryStep
  <2>1. /\ UNCHANGED reqVars
        /\ UNCHANGED <<approved_users, users, rollbacks, level>>
        /\ faults' = faults \/ faults' > 0
    BY <1>1, <1>3 DEF StartServer, InitDefaultRoles, dbVars, migrationVars
  <2>2. Whitelist' = Whitelist /\ Accounts' = Accounts /\ (Trouble => Trouble')
    BY <2>1 DEF Whitelist, Accounts, Account, Trouble
  <2> QED
    BY <1>2, <2>1, <2>2, NothingHappens
<1>4. CASE Tick
  <2>1. UNCHANGED reqVars /\ Quiet
    BY <1>4 DEF Tick, Quiet, dbVars, migrationVars
  <2> QED
    BY <1>2, <2>1, QuietKeeps, NothingHappens
<1>5. CASE Deactivate \/ SetPassword
  <2>1. PICK id, h, active : UpdateUser(id, h, active)
    BY <1>5 DEF Deactivate, SetPassword
  <2>2. UNCHANGED <<faults, rollbacks, level, approved_users>> /\ UNCHANGED reqVars
    BY <1>5, <2>1 DEF Deactivate, SetPassword, UpdateUser, migrationVars
  <2> DEFINE upd(u) == IF u.id = id THEN [u EXCEPT !.password_hash = h,
                                                   !.is_active = active]
                                    ELSE u
  <2>3. users' = {upd(u) : u \in users}
    BY <2>1 DEF UpdateUser
  <2>4. \A u \in users : Account(upd(u)) = Account(u)
    <3>1. \A u \in users : /\ upd(u).id = u.id /\ upd(u).email = u.email
                           /\ upd(u).approved_user_id = u.approved_user_id
      BY <1>1 DEF TypeInv, TypeOK, DbTypeOK, UserRow
    <3> HIDE DEF upd
    <3> QED
      BY <3>1 DEF Account
  <2> HIDE DEF upd
  <2>5. Accounts' = Accounts
    <3>1. Accounts' = {Account(u) : u \in users'}
      BY DEF Accounts, Account
    <3> QED
      BY <2>3, <2>4, <3>1 DEF Accounts
  <2>6. Whitelist' = Whitelist /\ Trouble' = Trouble
    BY <2>2 DEF Whitelist, Trouble
  <2> QED
    BY <1>2, <2>2, <2>5, <2>6, NothingHappens
<1>6. CASE Migrate
  <2>1. UNCHANGED <<reqVars, faults>>
    BY <1>6 DEF Migrate
  <2>2. CASE RunUp \/ MigrateStops
    <3>1. Quiet
      BY <2>1, <2>2 DEF RunUp, MigrateStops, Quiet, dbVars
    <3> QED
      BY <1>2, <2>1, <3>1, QuietKeeps, NothingHappens
  <2>3. CASE RunDownOrReset("down") \/ RunDownOrReset("reset")
    <3>1. UNCHANGED <<approved_users, users>> /\ rollbacks' > 0
      BY <1>1, <2>3 DEF RunDownOrReset, dbVars
    <3>2. Whitelist' = Whitelist /\ Accounts' = Accounts /\ Trouble'
      BY <3>1 DEF Whitelist, Accounts, Account, Trouble
    <3> QED
      BY <1>2, <2>1, <3>2, NothingHappens
  <2>4. CASE MigrateUp \/ MigrateDown
    <3>1. Trouble
      BY <1>1, <2>4 DEF MigrateUp, UpCreateTable, UpCreateRoles, UpSeed, MigrateDown,
                        CommandInv, Trouble
    <3>2. AtomicRegistry!Migrate
      BY <1>2, <2>1, <3>1 DEF AtomicRegistry!Migrate
    <3> QED
      BY <3>2 DEF RegistryStep, AtomicRegistry!Next
  <2> QED
    BY <1>6, <2>2, <2>3, <2>4 DEF Migrate
<1> QED
  BY <1>3, <1>4, <1>5, <1>6, RestartImplements DEF Environment

LEMMA InitImplements == Init => AtomicRegistry!Init
<1> SUFFICES ASSUME Init PROVE AtomicRegistry!Init
  OBVIOUS
<1>1. Whitelist = {} /\ Accounts = {} /\ Trouble = TRUE
  BY DEF Init, InitDb, Whitelist, Accounts, Trouble
<1>2. \A p \in Request : Call(p) = AtomicRegistry!NoCall
  BY CallAt DEF Init, InitRequests
<1>3. Calls = [p \in Request |-> AtomicRegistry!NoCall]
  BY <1>2 DEF Calls
<1> QED
  BY <1>1, <1>3 DEF AtomicRegistry!Init

LEMMA NextImplements == AllInv /\ [Next]_vars => RegistryStep
<1> SUFFICES ASSUME AllInv, [Next]_vars PROVE RegistryStep
  OBVIOUS
<1>1. ASSUME NEW p \in Request, AuthRequest(p)
      PROVE  RegistryStep
  BY <1>1, RegistryArrival DEF AllInv
<1>2. ASSUME NEW p \in Request, AuthStep(p)
      PROVE  RegistryStep
  BY <1>2, RegisterImplements, OthersImplement, FaultsImplement DEF AuthStep
<1>3. CASE UNCHANGED vars
  <2>1. Quiet /\ UNCHANGED reqVars
    BY <1>3 DEF vars, dbVars, migrationVars, Quiet
  <2>2. Calls' = Calls
    BY <2>1, CallStill DEF reqVars, Still, Calls
  <2> QED
    BY <2>1, <2>2, QuietKeeps, NothingHappens
<1> QED
  BY <1>1, <1>2, <1>3, EnvironmentImplements DEF Next

(* Register is atomic for its clients, however many there are: the four    *)
(* statements it executes without a transaction, interleaved with the      *)
(* statements of other requests, deletions, restarts, lost answers and     *)
(* migrations, implement the single step of Registry.  A 201 is answered   *)
(* only by the request that created the account, a 404 or 409 only if it   *)
(* was right at some moment of the request, and a 500 leaves no account    *)
(* unless the database was in trouble.                                     *)
THEOREM RegisterAtomic == Spec => RegisterIsAtomic
BY InitImplements, NextImplements, AllInvAlways, PTL
   DEF Spec, RegisterIsAtomic, AtomicRegistry!Spec, RegistryStep

=============================================================================
