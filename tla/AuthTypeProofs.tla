--------------------------- MODULE AuthTypeProofs ---------------------------
(***************************************************************************)
(* Type correctness of AuthService, for every set of connections, replicas *)
(* and uuids.  TypeOK is not inductive by itself: what a goroutine writes  *)
(* is well-typed only because of the statements it has executed before,    *)
(* which LocalInv records for each point of a handler.                     *)
(***************************************************************************)
EXTENDS AuthService, TLAPS

Registering == {"reg_exists", "reg_lookup", "reg_create", "reg_role",
                "reg_role_lookup", "reg_role_store", "reg_assign"}

(* What a goroutine relies on at each of its statements. *)
LocalInv(p) ==
    /\ pc[p] \in Registering \cup {"login_lookup", "issue"} =>
         args[p].email \in Email /\ args[p].password \in Password
    /\ pc[p] \in Registering => args[p].approved_id \in ApprovedId
    /\ pc[p] \in HasAccount => ctx[p].user \in UserId
    /\ pc[p] \in {"reg_role_store", "reg_assign"} => ctx[p].role \in RoleId
    /\ pc[p] \in {"auth", "auth_user"} => args[p].op \notin PublicOp
    /\ pc[p] = "auth_user" => args[p].token \in Token
    /\ pc[p] \in {"ca_lookup", "ca_create", "ap_bulk"} =>
         ctx[p].creator \in ApprovedId
    /\ pc[p] \in {"td_list", "td_create", "td_get", "upd_lookup", "upd_write",
                  "del_lookup", "del_write"} => ctx[p].user \in UserId
    /\ \/ pc[p] = "td_create"
       \/ pc[p] \in {"auth", "auth_user"} /\ args[p].op = "CreateTodo"
       => args[p].title \in Title

TypeInv == TypeOK /\ \A p \in Request : LocalInv(p)

-----------------------------------------------------------------------------
(* A draw of uuids is injective and takes none that was ever used. *)
LEMMA NewIdsFresh ==
  ASSUME NEW Keys, NEW Id, NEW ids \in NewIds(Keys, Id)
  PROVE  /\ ids \in [Keys -> Id]
         /\ \A k \in Keys : ids[k] \in Id /\ ids[k] \notin used
         /\ \A k, l \in Keys : ids[k] = ids[l] => k = l
<1> DEFINE draws == {f \in [Keys -> Fresh(Id)] :
                       \A k, l \in Keys : f[k] = f[l] => k = l}
<1>1. draws # {} /\ ids = CHOOSE f \in draws : TRUE
  BY DEF NewIds
<1>2. ids \in draws
  BY <1>1
<1> QED
  BY <1>2 DEF Fresh

(* The empty input of an operation is well-typed. *)
LEMMA NoInputType ==
  ASSUME NEW op \in PublicOp \cup AdminOp \cup UserOp
  PROVE  /\ NoInput(op) \in Input
         /\ NoInput(op).op = op
<1>1. <<>> \in Seq(Email)
  OBVIOUS
<1> QED
  BY <1>1 DEF NoInput, Input

(* Goto moves p to another statement and answers nothing. *)
LEMMA GotoType ==
  ASSUME RequestTypeOK, NEW p \in Request, NEW label \in Label, Goto(p, label)
  PROVE  /\ pc' \in [Request -> Label]
         /\ args' \in [Request -> Input]
         /\ status' \in [Request -> Status]
         /\ args' = args
         /\ pc'[p] = label
         /\ \A q \in Request : q # p => pc'[q] = pc[q]
BY DEF RequestTypeOK, Goto

(* Respond answers p, which then waits for the next request. *)
LEMMA RespondType ==
  ASSUME RequestTypeOK, NEW p \in Request, NEW code \in Status, Respond(p, code)
  PROVE  /\ pc' \in [Request -> Label]
         /\ args' \in [Request -> Input]
         /\ status' \in [Request -> Status]
         /\ pc'[p] = "done"
         /\ \A q \in Request : q # p => pc'[q] = pc[q] /\ args'[q] = args[q]
<1>1. args[p].op \in PublicOp \cup AdminOp \cup UserOp
  BY DEF RequestTypeOK, Input
<1>2. NoInput(args[p].op) \in Input
  BY <1>1, NoInputType
<1>3. "done" \in Label
  BY DEF Label, Waiting
<1> QED
  BY <1>2, <1>3 DEF RequestTypeOK, Respond

(* What one goroutine does leaves the others where they are. *)
LEMMA OthersKeep ==
  ASSUME NEW p \in Request, \A q \in Request : LocalInv(q), LocalInv(p)',
         \A q \in Request : q # p => /\ pc'[q] = pc[q] /\ args'[q] = args[q]
                                     /\ ctx'[q] = ctx[q]
  PROVE  \A q \in Request : LocalInv(q)'
BY DEF LocalInv

(* An answered goroutine relies on nothing. *)
LEMMA AnsweredLocal ==
  ASSUME NEW p \in Request, pc'[p] \in {"idle", "done"}
  PROVE  LocalInv(p)'
BY DEF LocalInv, Registering, HasAccount

-----------------------------------------------------------------------------
(* The statements keep every table well-typed. *)

LEMMA CreateUserType ==
  ASSUME DbTypeOK, NEW a \in ApprovedId, NEW e \in Email, NEW w \in Password,
         NEW ids \in NewIds({e}, UserId),
         CreateUser(ids, a, e, GenerateFromPassword(w))
  PROVE  DbTypeOK' /\ ids[e] \in UserId
<1>1. ids[e] \in UserId
  BY NewIdsFresh
<1>2. [id |-> ids[e], approved_user_id |-> a, email |-> e,
       password_hash |-> GenerateFromPassword(w), is_active |-> TRUE] \in UserRow
  BY <1>1 DEF UserRow, GenerateFromPassword
<1> QED
  BY <1>1, <1>2 DEF DbTypeOK, CreateUser

LEMMA AssignRoleType ==
  ASSUME DbTypeOK, NEW u \in UserId, NEW r \in RoleId, AssignRole(u, r)
  PROVE  DbTypeOK'
BY DEF DbTypeOK, AssignRole, UserRoleRow

LEMMA CreateApprovedType ==
  ASSUME DbTypeOK, NEW emails \in Seq(Email), NEW c \in ApprovedId,
         NEW ids \in NewIds(DOMAIN emails, ApprovedId),
         CreateApprovedUsersBulk(ids, emails, c)
  PROVE  DbTypeOK'
<1>1. \A i \in DOMAIN emails : ids[i] \in ApprovedId /\ emails[i] \in Email
  BY NewIdsFresh
<1>2. \A i \in DOMAIN emails :
        [id |-> ids[i], email |-> emails[i], created_by |-> c] \in ApprovedUserRow
  BY <1>1 DEF ApprovedUserRow
<1>3. approved_users' \subseteq ApprovedUserRow
  BY <1>2 DEF DbTypeOK, CreateApprovedUsersBulk
<1>4. used' \subseteq ApprovedId \cup UserId \cup RoleId \cup TodoId
  BY <1>1 DEF DbTypeOK, CreateApprovedUsersBulk
<1> QED
  BY <1>3, <1>4 DEF DbTypeOK, CreateApprovedUsersBulk

LEMMA DeleteApprovedType ==
  ASSUME DbTypeOK, NEW id, DeleteApprovedUser(id)
  PROVE  DbTypeOK'
<1>1. \A a \in approved_users :
        [a EXCEPT !.created_by = IF @ = id THEN NULL ELSE @] \in ApprovedUserRow
  BY DEF DbTypeOK, ApprovedUserRow
<1>2. approved_users' \subseteq ApprovedUserRow
  BY <1>1 DEF DeleteApprovedUser
<1> QED
  BY <1>2 DEF DbTypeOK, DeleteApprovedUser, CascadeUsers

LEMMA UpdateUserType ==
  ASSUME DbTypeOK, NEW u \in users, NEW hash \in [bcrypt : Password \cup {NULL}],
         NEW active \in BOOLEAN, UpdateUser(u.id, hash, active)
  PROVE  DbTypeOK'
<1>1. \A v \in users : [v EXCEPT !.password_hash = hash, !.is_active = active]
                         \in UserRow
  BY DEF DbTypeOK, UserRow
<1>2. users' \subseteq UserRow
  BY <1>1 DEF DbTypeOK, UpdateUser
<1> QED
  BY <1>2 DEF DbTypeOK, UpdateUser

-----------------------------------------------------------------------------
(* So do the migrations. *)

LEMMA UpCreateRolesType ==
  ASSUME DbTypeOK, UpCreateRoles
  PROVE  DbTypeOK'
<1>1. PICK ids \in NewIds(MissingRoles, RoleId) :
        /\ roles' = DefaultRoles(ids)
        /\ used' = used \cup {ids[n] : n \in DOMAIN ids}
  BY DEF UpCreateRoles
<1>2. /\ DOMAIN ids = MissingRoles
      /\ \A n \in MissingRoles : ids[n] \in RoleId /\ n \in RoleName
  BY NewIdsFresh DEF MissingRoles
<1>3. roles' \subseteq RoleRow
  BY <1>1, <1>2 DEF DbTypeOK, DefaultRoles, RoleRow
<1> QED
  BY <1>1, <1>2, <1>3 DEF DbTypeOK, UpCreateRoles

LEMMA UpSeedType ==
  ASSUME DbTypeOK, UpSeed
  PROVE  DbTypeOK'
<1>1. PICK roleIds \in NewIds(MissingRoles, RoleId),
           userIds \in NewIds(MissingUsers, UserId),
           todoIds \in NewIds(SampleTitle, TodoId) :
        /\ approved_users' = approved_users \cup NewSeedApproved
        /\ roles' = DefaultRoles(roleIds)
        /\ users' = users \cup {SeedUser(userIds, e) : e \in MissingUsers}
        /\ user_roles' = user_roles \cup SeedGrants(users', roles')
        /\ todos' = todos \cup SampleTodos(todoIds, users')
        /\ used' = used \cup {roleIds[n] : n \in MissingRoles}
                        \cup {userIds[e] : e \in MissingUsers}
                        \cup {todoIds[n] : n \in SampleTitle}
  BY DEF UpSeed
<1>2. /\ DOMAIN roleIds = MissingRoles
      /\ \A n \in MissingRoles : roleIds[n] \in RoleId /\ n \in RoleName
  <2>1. MissingRoles \subseteq RoleName
    BY DEF MissingRoles
  <2> QED
    BY <1>1, <2>1, NewIdsFresh
<1>3. \A e \in MissingUsers : userIds[e] \in UserId /\ e \in Email
  <2>1. MissingUsers \subseteq Email
    BY SeedAssumption DEF MissingUsers
  <2> QED
    BY <1>1, <2>1, NewIdsFresh
<1>4. /\ DOMAIN todoIds = SampleTitle
      /\ \A n \in SampleTitle : todoIds[n] \in TodoId
  BY <1>1, NewIdsFresh
<1>5. approved_users' \subseteq ApprovedUserRow
  BY <1>1, SeedAssumption DEF DbTypeOK, NewSeedApproved, SeedApproved,
                              ApprovedUserRow, SeedEmail
<1>6. roles' \subseteq RoleRow
  BY <1>1, <1>2 DEF DbTypeOK, DefaultRoles, RoleRow
<1>7. users' \subseteq UserRow
  <2>1. \A e \in MissingUsers : SeedUser(userIds, e) \in UserRow
    BY <1>3, SeedAssumption DEF SeedUser, UserRow, SeedHash
  <2> QED
    BY <1>1, <2>1 DEF DbTypeOK
<1>8. user_roles' \subseteq UserRoleRow
  <2>1. \A u \in users' : u.id \in UserId
    BY <1>7 DEF UserRow
  <2>2. \A r \in roles' : r.id \in RoleId
    BY <1>6 DEF RoleRow
  <2>3. SeedGrants(users', roles') \subseteq UserRoleRow
    BY <2>1, <2>2 DEF SeedGrants, UserRoleRow
  <2> QED
    BY <1>1, <2>3 DEF DbTypeOK
<1>9. todos' \subseteq TodoRow
  <2>1. \A u \in users' : u.id \in UserId
    BY <1>7 DEF UserRow
  <2>2. \A n \in SampleTitle : \A u \in users' :
          SampleTodo(todoIds[n], u, n) \in TodoRow
    BY <1>4, <2>1, SeedAssumption DEF TodoRow, SampleTodo
  <2>3. SampleTodos(todoIds, users') \subseteq TodoRow
    BY <1>4, <2>2 DEF SampleTodos
  <2> QED
    BY <1>1, <2>3 DEF DbTypeOK
<1>10. used' \subseteq ApprovedId \cup UserId \cup RoleId \cup TodoId
  BY <1>1, <1>2, <1>3, <1>4 DEF DbTypeOK
<1> QED
  BY <1>5, <1>6, <1>7, <1>8, <1>9, <1>10 DEF DbTypeOK

LEMMA MigrateType ==
  ASSUME DbTypeOK, MigrationTypeOK, Migrate
  PROVE  DbTypeOK' /\ MigrationTypeOK'
<1> USE MaxRollbacksAssumption
<1>1. CASE RunUp
  BY <1>1 DEF RunUp, dbVars, DbTypeOK, MigrationTypeOK, Command
<1>2. ASSUME NEW c \in {"down", "reset"}, RunDownOrReset(c)
      PROVE  DbTypeOK' /\ MigrationTypeOK'
  BY <1>2 DEF RunDownOrReset, dbVars, DbTypeOK, MigrationTypeOK, Command
<1>3. CASE MigrateUp
  <2>1. MigrationTypeOK'
    BY <1>3 DEF MigrateUp, UpCreateTable, UpCreateRoles, UpSeed,
                MigrationTypeOK, Command
  <2>2. CASE UpCreateTable
    BY <2>1, <2>2 DEF UpCreateTable, dbVars, DbTypeOK
  <2> QED
    BY <1>3, <2>1, <2>2, UpCreateRolesType, UpSeedType DEF MigrateUp
<1>4. CASE MigrateDown
  <2>1. MigrationTypeOK'
    BY <1>4 DEF MigrateDown, DownSeed, DownDropTable, MigrationTypeOK, Command
  <2>2. CASE DownSeed
    BY <2>1, <2>2 DEF DownSeed, DbTypeOK
  <2>3. CASE DownDropTable
    BY <2>1, <2>3 DEF DownDropTable, DbTypeOK
  <2> QED
    BY <1>4, <2>1, <2>2, <2>3 DEF MigrateDown
<1>5. CASE MigrateStops
  BY <1>5 DEF MigrateStops, dbVars, DbTypeOK, MigrationTypeOK
<1> QED
  BY <1>1, <1>2, <1>3, <1>4, <1>5 DEF Migrate

-----------------------------------------------------------------------------
(* Arrival of a request. *)

LEMMA LabelType ==
  /\ Query \subseteq Label
  /\ \A label \in {"auth", "me", "reg_role", "reg_role_store", "issue", "idle",
                   "done"} : label \in Label
  /\ Query = {"reg_exists", "reg_lookup", "reg_create", "reg_role_lookup",
              "reg_assign", "login_lookup", "auth_user", "ap_list", "ca_lookup",
              "ca_create", "ap_bulk", "ap_delete", "td_list", "td_create",
              "td_get", "upd_lookup", "upd_write", "del_lookup", "del_write"}
BY DEF Label, Query, Waiting, Needs

LEMMA EntryType ==
  /\ Entry["RegisterUser"] = "reg_exists"
  /\ Entry["LoginUser"] = "login_lookup"
  /\ \A op \in AdminOp \cup UserOp :
       /\ Entry[op] \in {"ap_list", "ca_lookup", "ap_bulk", "ap_delete", "me",
                         "td_list", "td_create", "td_get", "upd_lookup",
                         "del_lookup"}
       /\ Entry[op] = "td_create" => op = "CreateTodo"
BY DEF Entry, AdminOp, UserOp

LEMMA BeginType ==
  ASSUME RequestTypeOK, NEW p \in Request, NEW input \in Input, Begin(p, input)
  PROVE  /\ UNCHANGED <<issued, now, faults, serving>> => RequestTypeOK'
         /\ args'[p] = input
         /\ input.op \in PublicOp => pc'[p] = Entry[input.op]
         /\ input.op \notin PublicOp => pc'[p] = "auth"
         /\ \A q \in Request : q # p => /\ pc'[q] = pc[q] /\ args'[q] = args[q]
                                        /\ ctx'[q] = ctx[q]
<1>1. input.op \in PublicOp \cup AdminOp \cup UserOp
  BY DEF Input
<1>2. (IF input.op \in PublicOp THEN Entry[input.op] ELSE "auth") \in Label
  BY <1>1, EntryType, LabelType DEF PublicOp
<1>3. NoContext \in Context /\ 0 \in Status
  BY DEF NoContext, Context, Status
<1>4. UNCHANGED <<issued, now, faults, serving>> => RequestTypeOK'
  BY <1>2, <1>3 DEF RequestTypeOK, Begin
<1> QED
  BY <1>2, <1>4 DEF RequestTypeOK, Begin

(* Whatever a request carries is what its operation needs. *)
LEMMA ArrivalType ==
  ASSUME TypeInv, NEW p \in Request, NEW input \in Input, Begin(p, input),
         DbTypeOK', MigrationTypeOK', AuthTypeOK',
         UNCHANGED <<issued, now, faults, serving>>,
         input.op \in PublicOp =>
           input.email \in Email /\ input.password \in Password,
         input.op = "RegisterUser" => input.approved_id \in ApprovedId,
         input.op = "CreateTodo" => input.title \in Title
  PROVE  TypeInv'
<1>1. RequestTypeOK
  BY DEF TypeInv, TypeOK
<1>2. /\ RequestTypeOK'
      /\ args'[p] = input
      /\ input.op \in PublicOp => pc'[p] = Entry[input.op]
      /\ input.op \notin PublicOp => pc'[p] = "auth"
      /\ \A q \in Request : q # p => /\ pc'[q] = pc[q] /\ args'[q] = args[q]
                                     /\ ctx'[q] = ctx[q]
  BY <1>1, BeginType
<1>3. LocalInv(p)'
  BY <1>2, EntryType DEF LocalInv, Registering, HasAccount, PublicOp
<1>4. \A q \in Request : LocalInv(q)'
  BY <1>2, <1>3, OthersKeep DEF TypeInv
<1> QED
  BY <1>2, <1>4 DEF TypeInv, TypeOK

LEMMA AuthRequestType ==
  ASSUME TypeInv, NEW p \in Request, AuthRequest(p)
  PROVE  TypeInv'
<1> USE DEF TypeInv, TypeOK
<1>1. /\ DbTypeOK' /\ MigrationTypeOK' /\ AuthTypeOK'
      /\ UNCHANGED <<issued, now, faults, serving>>
  BY DEF AuthRequest, dbVars, runVars, migrationVars, processVars,
         DbTypeOK, MigrationTypeOK, AuthTypeOK
<1>2. ASSUME NEW input \in Input, Begin(p, input),
             input.op \in PublicOp =>
               input.email \in Email /\ input.password \in Password,
             input.op = "RegisterUser" => input.approved_id \in ApprovedId,
             input.op # "CreateTodo"
      PROVE  TypeInv'
  BY <1>1, <1>2, ArrivalType
<1>3. <<>> \in Seq(Email)
  OBVIOUS
<1>4. Presented \subseteq Token \cup {NULL}
  BY DEF Presented, RequestTypeOK
<1>5. CASE RegisterUser(p)
  <2>1. PICK e \in Email, w \in Password, a \in ApprovedId :
          Begin(p, [NoInput("RegisterUser") EXCEPT
                      !.email = e, !.password = w, !.approved_id = a])
    BY <1>5 DEF RegisterUser
  <2> DEFINE input == [NoInput("RegisterUser") EXCEPT
                         !.email = e, !.password = w, !.approved_id = a]
  <2>2. /\ input \in Input /\ input.email = e /\ input.password = w
        /\ input.approved_id = a /\ input.op = "RegisterUser"
    BY <1>3 DEF Input, NoInput, PublicOp
  <2> QED
    BY <1>2, <2>1, <2>2
<1>6. CASE LoginUser(p)
  <2>1. PICK e \in Email, w \in Password :
          Begin(p, [NoInput("LoginUser") EXCEPT !.email = e, !.password = w])
    BY <1>6 DEF LoginUser
  <2> DEFINE input == [NoInput("LoginUser") EXCEPT !.email = e, !.password = w]
  <2>2. /\ input \in Input /\ input.email = e /\ input.password = w
        /\ input.op = "LoginUser"
    BY <1>3 DEF Input, NoInput, PublicOp
  <2> QED
    BY <1>2, <2>1, <2>2
<1>7. CASE GetCurrentUser(p) \/ ListApprovedUsers(p)
  <2>1. PICK op \in {"GetCurrentUser", "ListApprovedUsers"}, t \in Presented :
          Begin(p, [NoInput(op) EXCEPT !.token = t])
    BY <1>7 DEF GetCurrentUser, ListApprovedUsers
  <2> DEFINE input == [NoInput(op) EXCEPT !.token = t]
  <2>2. input \in Input /\ input.op = op
    BY <1>3, <1>4 DEF Input, NoInput, AdminOp, UserOp
  <2> QED
    BY <1>2, <2>1, <2>2 DEF PublicOp
<1>8. CASE CreateApprovedUser(p)
  <2>1. PICK t \in Presented, e \in Email, b \in BodyErr :
          Begin(p, [NoInput("CreateApprovedUser") EXCEPT
                      !.token = t, !.emails = <<e>>, !.body = b])
    BY <1>8 DEF CreateApprovedUser
  <2> DEFINE input == [NoInput("CreateApprovedUser") EXCEPT
                         !.token = t, !.emails = <<e>>, !.body = b]
  <2>2. <<e>> \in Seq(Email) /\ b \in {0, 400, 413}
    BY RequestAssumption
  <2>3. input \in Input /\ input.op = "CreateApprovedUser"
    BY <1>4, <2>2 DEF Input, NoInput, AdminOp
  <2> QED
    BY <1>2, <2>1, <2>3 DEF PublicOp
<1>9. CASE BulkCreateApprovedUsers(p)
  <2>1. PICK t \in Presented, es \in Bulks, b \in BodyErr :
          Begin(p, [NoInput("BulkCreateApprovedUsers") EXCEPT
                      !.token = t, !.emails = es, !.body = b])
    BY <1>9 DEF BulkCreateApprovedUsers
  <2> DEFINE input == [NoInput("BulkCreateApprovedUsers") EXCEPT
                         !.token = t, !.emails = es, !.body = b]
  <2>2. es \in Seq(Email) /\ b \in {0, 400, 413}
    BY RequestAssumption, AuthAssumption
  <2>3. input \in Input /\ input.op = "BulkCreateApprovedUsers"
    BY <1>4, <2>2 DEF Input, NoInput, AdminOp
  <2> QED
    BY <1>2, <2>1, <2>3 DEF PublicOp
<1>10. CASE DeleteApprovedUserById(p)
  <2>1. PICK t \in Presented, a \in ApprovedId :
          Begin(p, [NoInput("DeleteApprovedUser") EXCEPT
                      !.token = t, !.approved_id = a])
    BY <1>10 DEF DeleteApprovedUserById
  <2> DEFINE input == [NoInput("DeleteApprovedUser") EXCEPT
                         !.token = t, !.approved_id = a]
  <2>2. input \in Input /\ input.op = "DeleteApprovedUser"
    BY <1>3, <1>4 DEF Input, NoInput, AdminOp
  <2> QED
    BY <1>2, <2>1, <2>2 DEF PublicOp
<1>11. CASE RejectInput(p)
  <2>1. PICK op \in Ops, code \in BodyErr \ {0} :
          /\ args' = [args EXCEPT ![p] = NoInput(op)]
          /\ status' = [status EXCEPT ![p] = code]
    BY <1>11 DEF RejectInput
  <2>2. NoInput(op) \in Input /\ code \in Status
    BY RequestAssumption, NoInputType DEF Status
  <2>3. NoContext \in Context /\ "done" \in Label
    BY LabelType DEF NoContext, Context
  <2>4. /\ pc' = [pc EXCEPT ![p] = "done"]
        /\ ctx' = [ctx EXCEPT ![p] = NoContext]
    BY <1>11 DEF RejectInput
  <2>5. RequestTypeOK'
    BY <1>1, <2>1, <2>2, <2>3, <2>4 DEF RequestTypeOK
  <2>6. /\ pc'[p] = "done"
        /\ \A q \in Request : q # p => /\ pc'[q] = pc[q] /\ args'[q] = args[q]
                                       /\ ctx'[q] = ctx[q]
    BY <2>1, <2>4 DEF RequestTypeOK
  <2>7. \A q \in Request : LocalInv(q)'
    BY <2>6, AnsweredLocal, OthersKeep
  <2> QED
    BY <1>1, <2>5, <2>7
<1> QED
  BY <1>5, <1>6, <1>7, <1>8, <1>9, <1>10, <1>11 DEF AuthRequest

-----------------------------------------------------------------------------
(* A step of one goroutine: what is left to show once it moves or answers. *)

Rest(p) ==   \* everything but the position and the answer of p
    /\ DbTypeOK' /\ MigrationTypeOK' /\ AuthTypeOK'
    /\ issued' \subseteq Token
    /\ now' \in 0..MaxTime /\ faults' \in 0..MaxFaults /\ serving' \subseteq Replica
    /\ ctx' \in [Request -> Context]
    /\ \A q \in Request : q # p => ctx'[q] = ctx[q]

LEMMA RespondStep ==
  ASSUME TypeInv, NEW p \in Request, NEW code \in Status, Respond(p, code), Rest(p)
  PROVE  TypeInv'
<1>1. RequestTypeOK
  BY DEF TypeInv, TypeOK
<1>2. /\ pc' \in [Request -> Label] /\ args' \in [Request -> Input]
      /\ status' \in [Request -> Status] /\ pc'[p] = "done"
      /\ \A q \in Request : q # p => pc'[q] = pc[q] /\ args'[q] = args[q]
  BY <1>1, RespondType
<1>3. LocalInv(p)'
  BY <1>2, AnsweredLocal
<1>4. \A q \in Request : LocalInv(q)'
  BY <1>2, <1>3, OthersKeep DEF TypeInv, Rest
<1> QED
  BY <1>2, <1>4 DEF TypeInv, TypeOK, RequestTypeOK, Rest

LEMMA GotoStep ==
  ASSUME TypeInv, NEW p \in Request, NEW label \in Label, Goto(p, label), Rest(p),
         LocalInv(p)'
  PROVE  TypeInv'
<1>1. RequestTypeOK
  BY DEF TypeInv, TypeOK
<1>2. /\ pc' \in [Request -> Label] /\ args' \in [Request -> Input]
      /\ status' \in [Request -> Status] /\ args' = args
      /\ \A q \in Request : q # p => pc'[q] = pc[q]
  BY <1>1, GotoType
<1>3. \A q \in Request : LocalInv(q)'
  BY <1>2, OthersKeep DEF TypeInv, Rest
<1> QED
  BY <1>2, <1>3 DEF TypeInv, TypeOK, RequestTypeOK, Rest

(* A step that reads: only p's own variables change. *)
LEMMA ReadRest ==
  ASSUME TypeInv, NEW p \in Request,
         UNCHANGED <<dbVars, issued, runVars, processVars>>,
         \/ UNCHANGED ctx
         \/ \E c \in Context : ctx' = [ctx EXCEPT ![p] = c]
  PROVE  Rest(p)
<1>1. /\ ctx' \in [Request -> Context]
      /\ \A q \in Request : q # p => ctx'[q] = ctx[q]
  BY DEF TypeInv, TypeOK, RequestTypeOK
<1> QED
  BY <1>1 DEF Rest, TypeInv, TypeOK, DbTypeOK, MigrationTypeOK, RequestTypeOK,
              AuthTypeOK, dbVars, runVars, migrationVars, processVars

(* A step that writes one table: the tables are the only shared state it changes. *)
LEMMA WriteRest ==
  ASSUME TypeInv, NEW p \in Request, DbTypeOK',
         UNCHANGED <<issued, runVars, processVars>>,
         \/ UNCHANGED ctx
         \/ \E c \in Context : ctx' = [ctx EXCEPT ![p] = c]
  PROVE  Rest(p)
<1>1. /\ ctx' \in [Request -> Context]
      /\ \A q \in Request : q # p => ctx'[q] = ctx[q]
  BY DEF TypeInv, TypeOK, RequestTypeOK
<1> QED
  BY <1>1 DEF Rest, TypeInv, TypeOK, MigrationTypeOK, RequestTypeOK,
              AuthTypeOK, runVars, migrationVars, processVars

(* Setting one field of the context of p keeps it a context. *)
LEMMA ContextType ==
  ASSUME RequestTypeOK, NEW p \in Request
  PROVE  /\ \A u \in UserId : ctx' = [ctx EXCEPT ![p].user = u] =>
              /\ \E c \in Context : ctx' = [ctx EXCEPT ![p] = c]
              /\ ctx'[p].user = u
         /\ \A r \in RoleId \cup {NULL} : ctx' = [ctx EXCEPT ![p].role = r] =>
              /\ \E c \in Context : ctx' = [ctx EXCEPT ![p] = c]
              /\ ctx'[p].role = r /\ ctx'[p].user = ctx[p].user
<1>1. ctx \in [Request -> Context]
  BY DEF RequestTypeOK
<1>2. ASSUME NEW u \in UserId, ctx' = [ctx EXCEPT ![p].user = u]
      PROVE  /\ \E c \in Context : ctx' = [ctx EXCEPT ![p] = c]
             /\ ctx'[p].user = u
  <2>1. [ctx[p] EXCEPT !.user = u] \in Context
    BY <1>1 DEF Context
  <2>2. ctx' = [ctx EXCEPT ![p] = [ctx[p] EXCEPT !.user = u]]
    BY <1>2
  <2> QED
    BY <1>1, <1>2, <2>1, <2>2 DEF Context
<1>3. ASSUME NEW r \in RoleId \cup {NULL}, ctx' = [ctx EXCEPT ![p].role = r]
      PROVE  /\ \E c \in Context : ctx' = [ctx EXCEPT ![p] = c]
             /\ ctx'[p].role = r /\ ctx'[p].user = ctx[p].user
  <2>1. [ctx[p] EXCEPT !.role = r] \in Context
    BY <1>1 DEF Context
  <2>2. ctx' = [ctx EXCEPT ![p] = [ctx[p] EXCEPT !.role = r]]
    BY <1>3
  <2> QED
    BY <1>1, <1>3, <2>1, <2>2 DEF Context
<1> QED
  BY <1>2, <1>3

LEMMA AdmitContextType ==
  ASSUME RequestTypeOK, NEW p \in Request, NEW u \in UserId, NEW a \in ApprovedId,
         ctx' = [ctx EXCEPT ![p].user = u, ![p].creator = a]
  PROVE  /\ \E c \in Context : ctx' = [ctx EXCEPT ![p] = c]
         /\ ctx'[p].creator = a /\ ctx'[p].user = u
<1>1. ctx \in [Request -> Context]
  BY DEF RequestTypeOK
<1>2. [ctx[p] EXCEPT !.user = u, !.creator = a] \in Context
  BY <1>1 DEF Context
<1>3. ctx' = [ctx EXCEPT ![p] = [ctx[p] EXCEPT !.user = u, !.creator = a]]
  BY <1>1 DEF Context
<1> QED
  BY <1>1, <1>2, <1>3 DEF Context

-----------------------------------------------------------------------------
(* Register, Login and the token they end with. *)

LEMMA RegisterType ==
  ASSUME TypeInv, NEW p \in Request,
         \/ RegisterExists(p) \/ RegisterLookup(p) \/ RegisterCreate(p)
         \/ RegisterCreateRefused(p) \/ RegisterRole(p) \/ RegisterRoleLookup(p)
         \/ RegisterRoleStore(p) \/ RegisterAssign(p) \/ RegisterAssignRefused(p)
  PROVE  TypeInv'
<1>1. LocalInv(p) /\ RequestTypeOK /\ DbTypeOK /\ AuthTypeOK
  BY DEF TypeInv, TypeOK
<1>2. /\ {404, 409, 500} \subseteq Status
      /\ {"reg_lookup", "reg_create", "reg_role", "reg_role_lookup",
          "reg_role_store", "reg_assign", "issue"} \subseteq Label
  BY LabelType DEF Status
<1>3. CASE RegisterExists(p)
  <2>1. Rest(p)
    BY <1>3, ReadRest DEF RegisterExists
  <2>2. Goto(p, "reg_lookup") => LocalInv(p)'
    BY <1>1, <1>3, GotoType, <1>2
       DEF RegisterExists, AtQuery, LocalInv, Registering, HasAccount
  <2> QED
    BY <1>2, <1>3, <2>1, <2>2, GotoStep, RespondStep DEF RegisterExists
<1>4. CASE RegisterLookup(p)
  <2>1. Rest(p)
    BY <1>4, ReadRest DEF RegisterLookup
  <2>2. Goto(p, "reg_create") => LocalInv(p)'
    BY <1>1, <1>4, GotoType, <1>2
       DEF RegisterLookup, AtQuery, LocalInv, Registering, HasAccount
  <2> QED
    BY <1>2, <1>4, <2>1, <2>2, GotoStep, RespondStep DEF RegisterLookup
<1>5. CASE RegisterCreate(p)
  <2>1. /\ args[p].email \in Email /\ args[p].password \in Password
        /\ args[p].approved_id \in ApprovedId
    BY <1>1, <1>5 DEF RegisterCreate, AtQuery, LocalInv, Registering
  <2>2. PICK ids \in NewIds({args[p].email}, UserId) :
          /\ CreateUser(ids, args[p].approved_id, args[p].email,
                        GenerateFromPassword(args[p].password))
          /\ ctx' = [ctx EXCEPT ![p].user = ids[args[p].email]]
    BY <1>5 DEF RegisterCreate
  <2>3. DbTypeOK' /\ ids[args[p].email] \in UserId
    BY <1>1, <2>1, <2>2, CreateUserType
  <2>4. /\ \E c \in Context : ctx' = [ctx EXCEPT ![p] = c]
        /\ ctx'[p].user \in UserId
    BY <1>1, <2>2, <2>3, ContextType
  <2>5. Rest(p)
    BY <1>5, <2>3, <2>4, WriteRest DEF RegisterCreate
  <2>6. Goto(p, "reg_role")
    BY <1>5 DEF RegisterCreate
  <2>7. pc'[p] = "reg_role" /\ args' = args
    BY <1>1, <1>2, <2>6, GotoType
  <2>8. LocalInv(p)'
    BY <2>1, <2>4, <2>7 DEF LocalInv, Registering, HasAccount
  <2> QED
    BY <1>2, <2>5, <2>6, <2>8, GotoStep
<1>6. CASE RegisterCreateRefused(p) \/ RegisterAssignRefused(p)
  <2>1. Rest(p)
    BY <1>6, ReadRest DEF RegisterCreateRefused, RegisterAssignRefused
  <2> QED
    BY <1>2, <1>6, <2>1, RespondStep
       DEF RegisterCreateRefused, RegisterAssignRefused
<1>7. CASE RegisterRole(p)
  <2>1. defaultUserRoleID[Home[p]] \in RoleId \cup {NULL}
    BY <1>1, RequestAssumption DEF AuthTypeOK
  <2>2. /\ \E c \in Context : ctx' = [ctx EXCEPT ![p] = c]
        /\ ctx'[p].role = defaultUserRoleID[Home[p]]
        /\ ctx'[p].user = ctx[p].user
    BY <1>1, <1>7, <2>1, ContextType DEF RegisterRole
  <2>3. Rest(p)
    BY <1>7, <2>2, ReadRest DEF RegisterRole
  <2>4. CASE defaultUserRoleID[Home[p]] = NULL
    <3>1. Goto(p, "reg_role_lookup")
      BY <1>7, <2>4 DEF RegisterRole
    <3>2. pc'[p] = "reg_role_lookup" /\ args' = args
      BY <1>1, <1>2, <3>1, GotoType
    <3>3. LocalInv(p)'
      BY <1>1, <1>7, <2>2, <3>2
         DEF RegisterRole, LocalInv, Registering, HasAccount
    <3> QED
      BY <1>2, <2>3, <3>1, <3>3, GotoStep
  <2>5. CASE defaultUserRoleID[Home[p]] # NULL
    <3>1. Goto(p, "reg_assign")
      BY <1>7, <2>5 DEF RegisterRole
    <3>2. pc'[p] = "reg_assign" /\ args' = args
      BY <1>1, <1>2, <3>1, GotoType
    <3>3. LocalInv(p)'
      BY <1>1, <1>7, <2>1, <2>2, <2>5, <3>2
         DEF RegisterRole, LocalInv, Registering, HasAccount
    <3> QED
      BY <1>2, <2>3, <3>1, <3>3, GotoStep
  <2> QED
    BY <2>4, <2>5
<1>8. CASE RegisterRoleLookup(p)
  <2>1. ASSUME NEW r \in GetRoleByName("user"),
               ctx' = [ctx EXCEPT ![p].role = r.id], Goto(p, "reg_role_store")
        PROVE  TypeInv'
    <3>1. r.id \in RoleId
      BY <1>1 DEF GetRoleByName, DbTypeOK, RoleRow
    <3>2. /\ \E c \in Context : ctx' = [ctx EXCEPT ![p] = c]
          /\ ctx'[p].role = r.id /\ ctx'[p].user = ctx[p].user
      BY <1>1, <2>1, <3>1, ContextType
    <3>3. Rest(p)
      BY <1>8, <3>2, ReadRest DEF RegisterRoleLookup
    <3>4. pc'[p] = "reg_role_store" /\ args' = args
      BY <1>1, <1>2, <2>1, GotoType
    <3>5. LocalInv(p)'
      BY <1>1, <1>8, <3>1, <3>2, <3>4
         DEF RegisterRoleLookup, AtQuery, LocalInv, Registering, HasAccount
    <3> QED
      BY <1>2, <2>1, <3>3, <3>5, GotoStep
  <2>2. ASSUME UNCHANGED ctx, Goto(p, "issue")
        PROVE  TypeInv'
    <3>1. Rest(p)
      BY <1>8, <2>2, ReadRest DEF RegisterRoleLookup
    <3>2. pc'[p] = "issue" /\ args' = args
      BY <1>1, <1>2, <2>2, GotoType
    <3>3. LocalInv(p)'
      BY <1>1, <1>8, <2>2, <3>2
         DEF RegisterRoleLookup, AtQuery, LocalInv, Registering, HasAccount
    <3> QED
      BY <1>2, <2>2, <3>1, <3>3, GotoStep
  <2> QED
    BY <1>8, <2>1, <2>2 DEF RegisterRoleLookup
<1>9. CASE RegisterRoleStore(p)
  <2>1. ctx[p].role \in RoleId
    BY <1>1, <1>9 DEF RegisterRoleStore, LocalInv
  <2>2. AuthTypeOK'
    BY <1>1, <1>9, <2>1 DEF RegisterRoleStore, AuthTypeOK
  <2>3. Rest(p)
    BY <1>9, <2>2 DEF RegisterRoleStore, Rest, TypeInv, TypeOK, DbTypeOK, dbVars,
         MigrationTypeOK, RequestTypeOK, runVars, migrationVars
  <2>4. Goto(p, "reg_assign")
    BY <1>9 DEF RegisterRoleStore
  <2>5. pc'[p] = "reg_assign" /\ args' = args
    BY <1>1, <1>2, <2>4, GotoType
  <2>6. LocalInv(p)'
    BY <1>1, <1>9, <2>1, <2>5
       DEF RegisterRoleStore, LocalInv, Registering, HasAccount
  <2> QED
    BY <1>2, <2>3, <2>4, <2>6, GotoStep
<1>10. CASE RegisterAssign(p)
  <2>1. ctx[p].user \in UserId /\ ctx[p].role \in RoleId
    BY <1>1, <1>10 DEF RegisterAssign, AtQuery, LocalInv, HasAccount
  <2>2. DbTypeOK'
    BY <1>1, <1>10, <2>1, AssignRoleType DEF RegisterAssign
  <2>3. Rest(p)
    BY <1>10, <2>2, WriteRest DEF RegisterAssign
  <2>4. Goto(p, "issue")
    BY <1>10 DEF RegisterAssign
  <2>5. pc'[p] = "issue" /\ args' = args
    BY <1>1, <1>2, <2>4, GotoType
  <2>6. LocalInv(p)'
    BY <1>1, <1>10, <2>5
       DEF RegisterAssign, AtQuery, LocalInv, Registering, HasAccount
  <2> QED
    BY <1>2, <2>3, <2>4, <2>6, GotoStep
<1> QED
  BY <1>3, <1>4, <1>5, <1>6, <1>7, <1>8, <1>9, <1>10

LEMMA LoginType ==
  ASSUME TypeInv, NEW p \in Request, LoginLookup(p) \/ IssueToken(p)
  PROVE  TypeInv'
<1>1. LocalInv(p) /\ RequestTypeOK /\ DbTypeOK
  BY DEF TypeInv, TypeOK
<1>2. {200, 201, 401} \subseteq Status /\ "issue" \in Label
  BY LabelType DEF Status
<1>3. CASE LoginLookup(p)
  <2>1. ASSUME NEW u \in users, ctx' = [ctx EXCEPT ![p].user = u.id],
               Goto(p, "issue")
        PROVE  TypeInv'
    <3>1. u.id \in UserId
      BY <1>1 DEF DbTypeOK, UserRow
    <3>2. /\ \E c \in Context : ctx' = [ctx EXCEPT ![p] = c]
          /\ ctx'[p].user = u.id
      BY <1>1, <2>1, <3>1, ContextType
    <3>3. Rest(p)
      BY <1>3, <3>2, ReadRest DEF LoginLookup
    <3>4. pc'[p] = "issue" /\ args' = args
      BY <1>1, <1>2, <2>1, GotoType
    <3>5. LocalInv(p)'
      BY <1>1, <1>3, <3>1, <3>2, <3>4
         DEF LoginLookup, AtQuery, LocalInv, Registering, HasAccount
    <3> QED
      BY <1>2, <2>1, <3>3, <3>5, GotoStep
  <2>2. ASSUME UNCHANGED ctx, Respond(p, 401)
        PROVE  TypeInv'
    <3>1. Rest(p)
      BY <1>3, <2>2, ReadRest DEF LoginLookup
    <3> QED
      BY <1>2, <2>2, <3>1, RespondStep
  <2> QED
    BY <1>3, <2>1, <2>2 DEF LoginLookup, GetUserByEmail
<1>4. CASE IssueToken(p)
  <2>1. now + JwtExpiry \in Nat
    BY <1>1, RequestAssumption DEF RequestTypeOK
  <2>2. [user_id |-> ctx[p].user, email |-> args[p].email,
         exp |-> now + JwtExpiry] \in Token
    BY <1>1, <1>4, <2>1 DEF IssueToken, LocalInv, HasAccount, Token
  <2>3. issued' \subseteq Token
    BY <1>1, <1>4, <2>2 DEF IssueToken, RequestTypeOK
  <2>4. Rest(p)
    BY <1>4, <2>3 DEF IssueToken, Rest, TypeInv, TypeOK, DbTypeOK, dbVars,
         MigrationTypeOK, RequestTypeOK, AuthTypeOK, runVars, migrationVars,
         processVars
  <2> QED
    BY <1>2, <1>4, <2>4, RespondStep DEF IssueToken
<1> QED
  BY <1>3, <1>4

-----------------------------------------------------------------------------
(* The middleware and the handlers behind it. *)

LEMMA AuthenticateType ==
  ASSUME TypeInv, NEW p \in Request, Authenticate(p)
  PROVE  TypeInv'
<1>1. LocalInv(p) /\ RequestTypeOK /\ DbTypeOK
  BY DEF TypeInv, TypeOK
<1>2. UNCHANGED <<dbVars, issued, runVars, processVars>>
  BY DEF Authenticate
<1>3. args[p] \in Input /\ {401, 403} \subseteq Status /\ "auth_user" \in Label
  BY <1>1, LabelType DEF RequestTypeOK, Status
<1>4. CASE ParseToken(p)
  <2>1. Rest(p)
    BY <1>2, <1>4, ReadRest DEF ParseToken
  <2>2. CASE args[p].token # NULL /\ now < args[p].token.exp
    <3>1. Goto(p, "auth_user")
      BY <1>4, <2>2 DEF ParseToken
    <3>2. pc'[p] = "auth_user" /\ args' = args
      BY <1>1, <1>3, <3>1, GotoType
    <3>3. args[p].token \in Token
      BY <1>3, <2>2 DEF Input
    <3>4. LocalInv(p)'
      BY <1>1, <1>4, <3>2, <3>3
         DEF ParseToken, LocalInv, Registering, HasAccount
    <3> QED
      BY <1>3, <2>1, <3>1, <3>4, GotoStep
  <2>3. CASE ~(args[p].token # NULL /\ now < args[p].token.exp)
    BY <1>3, <1>4, <2>1, <2>3, RespondStep DEF ParseToken
  <2> QED
    BY <2>2, <2>3
<1>5. CASE Unauthorized(p) \/ Forbidden(p)
  <2>1. Rest(p)
    BY <1>2, <1>5, ReadRest DEF Unauthorized, Forbidden
  <2> QED
    BY <1>3, <1>5, <2>1, RespondStep DEF Unauthorized, Forbidden
<1>6. CASE Admit(p)
  <2>1. PICK u \in users :
          ctx' = [ctx EXCEPT ![p].user = u.id, ![p].creator = u.approved_user_id]
    BY <1>6 DEF Admit, GetUserFromToken, GetUserByID
  <2>2. u.id \in UserId /\ u.approved_user_id \in ApprovedId
    BY <1>1 DEF DbTypeOK, UserRow
  <2>3. /\ \E c \in Context : ctx' = [ctx EXCEPT ![p] = c]
        /\ ctx'[p].creator = u.approved_user_id /\ ctx'[p].user = u.id
    BY <1>1, <2>1, <2>2, AdmitContextType
  <2>4. Rest(p)
    BY <1>2, <2>3, ReadRest
  <2>5. CASE args[p].body = 0
    <3>1. Goto(p, Entry[args[p].op])
      BY <1>6, <2>5 DEF Admit
    <3>2. args[p].op \in AdminOp \cup UserOp
      BY <1>1, <1>3, <1>6 DEF Admit, AtQuery, LocalInv, Input
    <3>3. Entry[args[p].op] \in
            {"ap_list", "ca_lookup", "ap_bulk", "ap_delete", "me", "td_list",
             "td_create", "td_get", "upd_lookup", "del_lookup"}
      BY <3>2, EntryType
    <3>4. Entry[args[p].op] \in Label
      BY <3>3, LabelType
    <3>5. pc'[p] = Entry[args[p].op] /\ args' = args
      BY <1>1, <3>1, <3>4, GotoType
    <3>6. LocalInv(p)'
      <4>1. Entry[args[p].op] = "td_create" => args[p].title \in Title
        BY <1>1, <1>6, <3>2, EntryType DEF Admit, AtQuery, LocalInv
      <4> QED
        BY <2>2, <2>3, <3>3, <3>5, <4>1 DEF LocalInv, Registering, HasAccount
    <3> QED
      BY <2>4, <3>1, <3>4, <3>6, GotoStep
  <2>6. CASE args[p].body # 0
    <3>1. args[p].body \in Status
      BY <1>3 DEF Input, Status
    <3> QED
      BY <1>6, <2>4, <2>6, <3>1, RespondStep DEF Admit
  <2> QED
    BY <2>5, <2>6
<1> QED
  BY <1>4, <1>5, <1>6 DEF Authenticate

LEMMA InsertApprovedType ==
  ASSUME TypeInv, NEW p \in Request, AtCreateApproved(p), InsertApproved(p)
  PROVE  DbTypeOK'
<1>1. LocalInv(p) /\ RequestTypeOK /\ DbTypeOK
  BY DEF TypeInv, TypeOK
<1>2. ctx[p].creator \in ApprovedId
  BY <1>1 DEF AtCreateApproved, AtQuery, LocalInv
<1>3. args[p].emails \in Seq(Email)
  BY <1>1 DEF RequestTypeOK, Input
<1> QED
  BY <1>1, <1>2, <1>3, CreateApprovedType DEF InsertApproved

LEMMA WhitelistType ==
  ASSUME TypeInv, NEW p \in Request,
         \/ AnswerRead(p) \/ CreateApprovedLookup(p) \/ CreateApproved(p)
         \/ CreateApprovedRefused(p) \/ DeleteApproved(p)
  PROVE  TypeInv'
<1>1. LocalInv(p) /\ RequestTypeOK /\ DbTypeOK
  BY DEF TypeInv, TypeOK
<1>2. {200, 201, 204, 404, 409, 500} \subseteq Status /\ "ca_create" \in Label
  BY LabelType DEF Status
<1>3. CASE AnswerRead(p) \/ CreateApprovedRefused(p)
  <2>1. Rest(p)
    BY <1>3, ReadRest DEF AnswerRead, CreateApprovedRefused
  <2> QED
    BY <1>2, <1>3, <2>1, RespondStep DEF AnswerRead, CreateApprovedRefused
<1>4. CASE CreateApprovedLookup(p)
  <2>1. Rest(p)
    BY <1>4, ReadRest DEF CreateApprovedLookup
  <2>2. Goto(p, "ca_create") => LocalInv(p)'
    BY <1>1, <1>2, <1>4, GotoType
       DEF CreateApprovedLookup, AtQuery, LocalInv, Registering, HasAccount
  <2> QED
    BY <1>2, <1>4, <2>1, <2>2, GotoStep, RespondStep DEF CreateApprovedLookup
<1>5. CASE CreateApproved(p)
  <2>1. DbTypeOK'
    BY <1>5, InsertApprovedType DEF CreateApproved
  <2>2. Rest(p)
    BY <1>5, <2>1, WriteRest DEF CreateApproved
  <2> QED
    BY <1>2, <1>5, <2>2, RespondStep DEF CreateApproved
<1>6. CASE DeleteApproved(p)
  <2>1. DbTypeOK'
    BY <1>1, <1>6, DeleteApprovedType DEF DeleteApproved
  <2>2. Rest(p)
    BY <1>6, <2>1, WriteRest DEF DeleteApproved
  <2> QED
    BY <1>2, <1>6, <2>2, RespondStep DEF DeleteApproved
<1> QED
  BY <1>3, <1>4, <1>5, <1>6

-----------------------------------------------------------------------------
(* Statements that fail, before or after they take effect. *)

LEMMA OnQueryErrorType ==
  ASSUME TypeInv, NEW p \in Request, Rest(p), OnQueryError(p)
  PROVE  TypeInv'
<1>1. LocalInv(p) /\ RequestTypeOK
  BY DEF TypeInv, TypeOK
<1>2. DOMAIN Swallowed = {"reg_role_lookup", "ca_lookup"}
  BY DEF Swallowed
<1>3. CASE pc[p] \in DOMAIN Swallowed
  <2>1. Swallowed[pc[p]] \in {"issue", "ca_create"}
    BY <1>2, <1>3 DEF Swallowed
  <2>2. Swallowed[pc[p]] \in Label
    BY <2>1, LabelType
  <2>3. Goto(p, Swallowed[pc[p]])
    BY <1>3 DEF OnQueryError
  <2>4. pc'[p] = Swallowed[pc[p]] /\ args' = args /\ ctx' = ctx
    BY <1>1, <2>2, <2>3, GotoType DEF OnQueryError
  <2>5. \/ pc[p] = "reg_role_lookup" /\ pc'[p] = "issue"
        \/ pc[p] = "ca_lookup" /\ pc'[p] = "ca_create"
    BY <1>2, <1>3, <2>4 DEF Swallowed
  <2>6. LocalInv(p)'
    BY <1>1, <2>4, <2>5 DEF LocalInv, Registering, HasAccount
  <2> QED
    BY <2>2, <2>3, <2>6, GotoStep
<1>4. CASE pc[p] \notin DOMAIN Swallowed
  <2>1. ErrorStatus(pc[p]) \in Status
    BY DEF ErrorStatus, Status
  <2> QED
    BY <1>4, <2>1, RespondStep DEF OnQueryError
<1> QED
  BY <1>3, <1>4

LEMMA FaultType ==
  ASSUME TypeInv, NEW p \in Request, QueryError(p) \/ CommitUnacked(p)
  PROVE  TypeInv'
<1>1. LocalInv(p) /\ RequestTypeOK /\ DbTypeOK /\ 500 \in Status
  BY DEF TypeInv, TypeOK, Status
<1>2. QueryFails(p) \/ AnswerLost(p) \/ MissingTable(p) => faults' \in 0..MaxFaults
  BY <1>1, RequestAssumption
     DEF QueryFails, AnswerLost, MissingTable, RequestTypeOK
<1>3. CASE QueryError(p)
  <2>1. OnQueryError(p) /\ UNCHANGED ctx
    BY <1>3 DEF QueryError, QueryFails, MissingTable, OnQueryError
  <2>2. Rest(p)
    BY <1>2, <1>3, <2>1 DEF QueryError, Rest, TypeInv, TypeOK, DbTypeOK, dbVars,
         MigrationTypeOK, RequestTypeOK, AuthTypeOK, migrationVars, processVars
  <2> QED
    BY <2>1, <2>2, OnQueryErrorType
<1>4. CASE CommitUnacked(p)
  <2>1. DbTypeOK'
    <3>1. CASE AtQuery(p, "reg_create") /\
               \E ids \in NewIds({args[p].email}, UserId) :
                 CreateUser(ids, args[p].approved_id, args[p].email,
                            GenerateFromPassword(args[p].password))
      BY <1>1, <3>1, CreateUserType DEF AtQuery, LocalInv, Registering
    <3>2. CASE AtQuery(p, "reg_assign") /\ AssignRole(ctx[p].user, ctx[p].role)
      BY <1>1, <3>2, AssignRoleType DEF AtQuery, LocalInv, HasAccount
    <3>3. CASE AtCreateApproved(p) /\ InsertApproved(p)
      BY <3>3, InsertApprovedType
    <3>4. CASE AtQuery(p, "ap_delete") /\ DeleteApprovedUser(args[p].approved_id)
      BY <1>1, <3>4, DeleteApprovedType
    <3> QED
      BY <1>4, <3>1, <3>2, <3>3, <3>4 DEF CommitUnacked, AuthWrite
  <2>2. Rest(p)
    BY <1>2, <1>4, <2>1 DEF CommitUnacked, Rest, TypeInv, TypeOK,
         MigrationTypeOK, RequestTypeOK, AuthTypeOK, migrationVars, processVars
  <2> QED
    BY <1>1, <1>4, <2>2, RespondStep DEF CommitUnacked, AnswerLost
<1> QED
  BY <1>3, <1>4

-----------------------------------------------------------------------------
(* The processes, the clock and the operator. *)

LEMMA LocalUnchanged ==
  ASSUME TypeInv, UNCHANGED reqVars
  PROVE  \A q \in Request : LocalInv(q)'
BY DEF TypeInv, reqVars, LocalInv

LEMMA EnvironmentType ==
  ASSUME TypeInv, Environment
  PROVE  TypeInv'
<1>1. RequestTypeOK /\ DbTypeOK /\ MigrationTypeOK /\ AuthTypeOK
  BY DEF TypeInv, TypeOK
<1>2. ASSUME NEW r \in Replica, StartServer(r)
      PROVE  TypeInv'
  <2>1. AuthTypeOK' /\ faults' \in 0..MaxFaults
    <3>1. \A u \in GetRoleByName("user") : u.id \in RoleId
      BY <1>1 DEF GetRoleByName, DbTypeOK, RoleRow
    <3> QED
      BY <1>1, <1>2, <3>1, RequestAssumption
         DEF StartServer, InitDefaultRoles, AuthTypeOK, RequestTypeOK
  <2>2. \A q \in Request : LocalInv(q)'
    BY <1>2, LocalUnchanged DEF StartServer
  <2> QED
    BY <1>1, <1>2, <2>1, <2>2 DEF StartServer, TypeInv, TypeOK, DbTypeOK, dbVars,
         MigrationTypeOK, RequestTypeOK, migrationVars, reqVars
<1>3. ASSUME NEW r \in Replica, Restart(r)
      PROVE  TypeInv'
  <2>1. AuthTypeOK'
    BY <1>1, <1>3, AuthAssumption DEF Restart, AuthTypeOK
  <2> DEFINE lost == {p \in Request : Home[p] = r /\ pc[p] # "done"}
  <2>2. /\ pc' = [p \in Request |-> IF p \in lost THEN "idle" ELSE pc[p]]
        /\ ctx' = [p \in Request |-> IF p \in lost THEN NoContext ELSE ctx[p]]
        /\ args' = args /\ status' = status
    BY <1>3 DEF Restart
  <2>3. NoContext \in Context /\ "idle" \in Label
    BY LabelType DEF NoContext, Context
  <2>4. RequestTypeOK'
    BY <1>1, <1>3, <2>2, <2>3
       DEF Restart, RequestTypeOK, runVars, migrationVars
  <2>5. ASSUME NEW q \in Request
        PROVE  LocalInv(q)'
    <3>1. CASE q \in lost
      BY <2>2, <3>1, AnsweredLocal
    <3>2. CASE q \notin lost
      BY <2>2, <3>2 DEF TypeInv, LocalInv
    <3> QED
      BY <3>1, <3>2
  <2> QED
    BY <1>1, <1>3, <2>1, <2>4, <2>5 DEF Restart, TypeInv, TypeOK, DbTypeOK, dbVars,
         MigrationTypeOK, runVars, migrationVars
<1>4. CASE Tick
  BY <1>1, <1>4, LocalUnchanged, RequestAssumption DEF Tick, TypeInv, TypeOK,
     DbTypeOK, dbVars, MigrationTypeOK, migrationVars, RequestTypeOK, reqVars,
     AuthTypeOK, processVars
<1>5. CASE Deactivate \/ SetPassword
  <2>1. PICK u \in users, hash \in [bcrypt : Password \cup {NULL}],
             active \in BOOLEAN : UpdateUser(u.id, hash, active)
    <3>1. \A u \in users : /\ u.password_hash \in [bcrypt : Password \cup {NULL}]
                           /\ u.is_active \in BOOLEAN
      BY <1>1 DEF DbTypeOK, UserRow
    <3>2. \A w \in Password :
            GenerateFromPassword(w) \in [bcrypt : Password \cup {NULL}]
      BY DEF GenerateFromPassword
    <3> QED
      BY <1>5, <3>1, <3>2 DEF Deactivate, SetPassword
  <2>2. DbTypeOK'
    BY <1>1, <2>1, UpdateUserType
  <2>3. \A q \in Request : LocalInv(q)'
    BY <1>5, LocalUnchanged DEF Deactivate, SetPassword
  <2> QED
    BY <1>1, <1>5, <2>2, <2>3 DEF Deactivate, SetPassword, TypeInv, TypeOK,
       MigrationTypeOK, migrationVars, RequestTypeOK, reqVars, AuthTypeOK,
       processVars
<1>6. CASE Migrate
  <2>1. DbTypeOK' /\ MigrationTypeOK'
    BY <1>1, <1>6, MigrateType
  <2>2. \A q \in Request : LocalInv(q)'
    BY <1>6, LocalUnchanged DEF Migrate
  <2> QED
    BY <1>1, <1>6, <2>1, <2>2 DEF Migrate, TypeInv, TypeOK, RequestTypeOK, reqVars,
       AuthTypeOK, processVars
<1> QED
  BY <1>2, <1>3, <1>4, <1>5, <1>6 DEF Environment

-----------------------------------------------------------------------------
LEMMA TypeInvInit == Init => TypeInv
<1> SUFFICES ASSUME Init PROVE TypeInv
  OBVIOUS
<1>1. NoInput("GetCurrentUser") \in Input
  BY NoInputType DEF UserOp
<1>2. NoContext \in Context /\ 0 \in Status /\ "idle" \in Label
  BY LabelType DEF NoContext, Context, Status
<1>3. DbTypeOK /\ MigrationTypeOK
  BY SeedAssumption, MaxRollbacksAssumption
     DEF Init, InitDb, DbTypeOK, MigrationTypeOK
<1>4. RequestTypeOK /\ AuthTypeOK
  BY <1>1, <1>2, RequestAssumption, AuthAssumption
     DEF Init, InitRequests, RequestTypeOK, AuthTypeOK
<1>5. \A p \in Request : LocalInv(p)
  BY DEF Init, InitRequests, LocalInv, Registering, HasAccount
<1> QED
  BY <1>3, <1>4, <1>5 DEF TypeInv, TypeOK

LEMMA TypeInvNext == TypeInv /\ [Next]_vars => TypeInv'
<1> SUFFICES ASSUME TypeInv, [Next]_vars PROVE TypeInv'
  OBVIOUS
<1>1. ASSUME NEW p \in Request, AuthRequest(p)
      PROVE  TypeInv'
  BY <1>1, AuthRequestType
<1>2. ASSUME NEW p \in Request, AuthStep(p)
      PROVE  TypeInv'
  BY <1>2, RegisterType, LoginType, AuthenticateType, WhitelistType, FaultType
     DEF AuthStep
<1>3. CASE UNCHANGED vars
  BY <1>3, LocalUnchanged DEF vars, TypeInv, TypeOK, DbTypeOK, dbVars,
     MigrationTypeOK, migrationVars, RequestTypeOK, reqVars, AuthTypeOK, processVars
<1> QED
  BY <1>1, <1>2, <1>3, EnvironmentType DEF Next

(* Type correctness: no interleaving of handlers, faults, restarts and     *)
(* migrations makes the API store or sign a value of the wrong kind, a nil *)
(* uuid for instance where AssignRoleToUser or the token needs a real one. *)
THEOREM TypeCorrect == Spec => []TypeOK
<1>1. TypeInv => TypeOK
  BY DEF TypeInv
<1> QED
  BY <1>1, TypeInvInit, TypeInvNext, PTL DEF Spec

=============================================================================
