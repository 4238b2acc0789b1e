---------------------------- MODULE AuthService ----------------------------
(***************************************************************************)
(* internal/auth: registration, login and the administration of the        *)
(* whitelist, with the process-wide cache of the default role.  No handler *)
(* opens a transaction, so every query is a step of its own and requests   *)
(* of both replicas interleave between any two of them.                    *)
(***************************************************************************)
EXTENDS Middleware

CONSTANTS Bulks,        \* the email lists clients send to the bulk endpoint
          MaxRestarts,  \* bound: replica restarts
          MaxInactive,  \* bound: accounts an operator has deactivated
          ResetEmails   \* the seed accounts whose password an operator sets

ASSUME AuthAssumption ==
    /\ Bulks \subseteq Seq(Email) \ {<<>>}
    /\ MaxRestarts \in Nat /\ MaxInactive \in Nat
    /\ ResetEmails \subseteq SeedEmail

VARIABLES
    defaultUserRoleID,  \* per replica: the cached id of role "user", or NULL
    restarts            \* replica restarts so far

processVars == <<serving, defaultUserRoleID, restarts>>
runVars == <<migrationVars, now, faults>>
vars == <<dbVars, migrationVars, reqVars, issued, now, faults, processVars>>

AuthTypeOK ==
    /\ defaultUserRoleID \in [Replica -> RoleId \cup {NULL}]
    /\ restarts \in 0..MaxRestarts

(* The values of every variable. *)
TypeOK == DbTypeOK /\ MigrationTypeOK /\ RequestTypeOK /\ AuthTypeOK

Init ==
    /\ InitDb
    /\ InitRequests
    /\ defaultUserRoleID = [r \in Replica |-> NULL]
    /\ restarts = 0

-----------------------------------------------------------------------------
(* Arrival of a request.  The uuid pools are finite: a request that may    *)
(* insert a row is accepted while the pool outlasts the rows that seeding  *)
(* and the other requests in flight may still insert.                      *)

InFlight(op) == {p \in Request : args[p].op = op /\ pc[p] \notin Waiting}

(* How often 000006 may still run. *)
SeedsLeft == MaxRollbacks - rollbacks
               + (IF level < 6 \/ command # "none" THEN 1 ELSE 0)

UserIdsLeft ==
    Cardinality(Fresh(UserId)) - Cardinality(InFlight("RegisterUser"))
      - 2 * SeedsLeft

MaxBulk == IF \E es \in Bulks : Len(es) > 1 THEN 2 ELSE 1

ApprovedIdsLeft ==
    Cardinality(Fresh(ApprovedId))
      - Cardinality(InFlight("CreateApprovedUser"))
      - MaxBulk * Cardinality(InFlight("BulkCreateApprovedUsers"))

RegisterUser(p) ==
    /\ UserIdsLeft > 0
    /\ \E e \in Email, w \in Password, a \in ApprovedId :
         Begin(p, [NoInput("RegisterUser") EXCEPT
                     !.email = e, !.password = w, !.approved_id = a])

LoginUser(p) ==
    \E e \in Email, w \in Password :
      Begin(p, [NoInput("LoginUser") EXCEPT !.email = e, !.password = w])

GetCurrentUser(p) ==
    \E t \in Presented :
      Begin(p, [NoInput("GetCurrentUser") EXCEPT !.token = t])

ListApprovedUsers(p) ==
    \E t \in Presented :
      Begin(p, [NoInput("ListApprovedUsers") EXCEPT !.token = t])

CreateApprovedUser(p) ==
    /\ ApprovedIdsLeft > 0
    /\ \E t \in Presented, e \in Email, b \in BodyErr :
         Begin(p, [NoInput("CreateApprovedUser") EXCEPT
                     !.token = t, !.emails = <<e>>, !.body = b])

BulkCreateApprovedUsers(p) ==
    /\ ApprovedIdsLeft >= MaxBulk
    /\ \E t \in Presented, es \in Bulks, b \in BodyErr :
         Begin(p, [NoInput("BulkCreateApprovedUsers") EXCEPT
                     !.token = t, !.emails = es, !.body = b])

DeleteApprovedUserById(p) ==
    \E t \in Presented, a \in ApprovedId :
      Begin(p, [NoInput("DeleteApprovedUser") EXCEPT
                  !.token = t, !.approved_id = a])

AuthRequest(p) ==
    /\ \/ RegisterUser(p) \/ LoginUser(p) \/ GetCurrentUser(p)
       \/ ListApprovedUsers(p) \/ CreateApprovedUser(p)
       \/ BulkCreateApprovedUsers(p) \/ DeleteApprovedUserById(p)
       \/ RejectInput(p)
    /\ UNCHANGED <<dbVars, issued, runVars, processVars>>

-----------------------------------------------------------------------------
(* Register *)

RegisterExists(p) ==
    /\ AtQuery(p, "reg_exists")
    /\ IF ApprovedUserExists(args[p].approved_id) THEN Goto(p, "reg_lookup")
                                                  ELSE Respond(p, 404)
    /\ UNCHANGED <<ctx, dbVars, issued, runVars, processVars>>

RegisterLookup(p) ==
    /\ AtQuery(p, "reg_lookup")
    /\ IF GetUserByEmail(args[p].email) = {} THEN Goto(p, "reg_create")
                                             ELSE Respond(p, 409)
    /\ UNCHANGED <<ctx, dbVars, issued, runVars, processVars>>

RegisterCreateReuses(p) ==   \* mutant: one account per whitelist entry
    /\ AtQuery(p, "reg_create")
    /\ \E u \in users :
         /\ u.approved_user_id = args[p].approved_id
         /\ ctx' = [ctx EXCEPT ![p].user = u.id]
    /\ Goto(p, "reg_role")
    /\ UNCHANGED <<dbVars, issued, runVars, processVars>>

RegisterCreate(p) ==
    /\ AtQuery(p, "reg_create")
    /\ \E ids \in NewIds({args[p].email}, UserId) :
         /\ CreateUser(ids, args[p].approved_id, args[p].email,
                       GenerateFromPassword(args[p].password))
         /\ ctx' = [ctx EXCEPT ![p].user = ids[args[p].email]]
    /\ Goto(p, "reg_role")
    /\ UNCHANGED <<issued, runVars, processVars>>

RegisterCreateRetries(p) ==   \* mutant: try the INSERT again
    /\ AtQuery(p, "reg_create")
    /\ CreateUserRefused(args[p].approved_id, args[p].email)
    /\ Goto(p, "reg_create")
    /\ UNCHANGED <<ctx, dbVars, issued, runVars, processVars>>

RegisterCreateRefusedIs409(p) ==   \* mutant: any refusal taken for a duplicate
    /\ AtQuery(p, "reg_create")
    /\ CreateUserRefused(args[p].approved_id, args[p].email)
    /\ Respond(p, 409)
    /\ UNCHANGED <<ctx, dbVars, issued, runVars, processVars>>

RegisterCreateRefused(p) ==
    /\ AtQuery(p, "reg_create")
    /\ CreateUserRefused(args[p].approved_id, args[p].email)
    /\ Respond(p, 500)
    /\ UNCHANGED <<ctx, dbVars, issued, runVars, processVars>>

RegisterRoleCacheOnly(p) ==   \* mutant: no lookup when the cache is empty
    /\ pc[p] = "reg_role"
    /\ ctx' = [ctx EXCEPT ![p].role = defaultUserRoleID[Home[p]]]
    /\ Goto(p, IF defaultUserRoleID[Home[p]] = NULL THEN "issue"
                                                    ELSE "reg_assign")
    /\ UNCHANGED <<dbVars, issued, runVars, processVars>>

RegisterRoleAssignsNil(p) ==   \* mutant: uuid.Nil taken for a role
    /\ pc[p] = "reg_role"
    /\ ctx' = [ctx EXCEPT ![p].role = defaultUserRoleID[Home[p]]]
    /\ Goto(p, "reg_assign")
    /\ UNCHANGED <<dbVars, issued, runVars, processVars>>

(* assignDefaultRole: DefaultUserRoleID() *)
RegisterRole(p) ==
    /\ pc[p] = "reg_role"
    /\ ctx' = [ctx EXCEPT ![p].role = defaultUserRoleID[Home[p]]]
    /\ Goto(p, IF defaultUserRoleID[Home[p]] = NULL THEN "reg_role_lookup"
                                                    ELSE "reg_assign")
    /\ UNCHANGED <<dbVars, issued, runVars, processVars>>

RegisterRoleLookupAny(p) ==   \* mutant: the first role of the table
    /\ AtQuery(p, "reg_role_lookup")
    /\ \/ \E r \in roles :
            /\ ctx' = [ctx EXCEPT ![p].role = r.id]
            /\ Goto(p, "reg_role_store")
       \/ roles = {} /\ Goto(p, "issue") /\ UNCHANGED ctx
    /\ UNCHANGED <<dbVars, issued, runVars, processVars>>

(* GetRoleByName("user"); without that role the account gets none. *)
RegisterRoleLookup(p) ==
    /\ AtQuery(p, "reg_role_lookup")
    /\ \/ \E r \in GetRoleByName("user") :
            /\ ctx' = [ctx EXCEPT ![p].role = r.id]
            /\ Goto(p, "reg_role_store")
       \/ /\ GetRoleByName("user") = {}
          /\ Goto(p, "issue")
          /\ UNCHANGED ctx
    /\ UNCHANGED <<dbVars, issued, runVars, processVars>>

(* SetDefaultUserRoleID *)
RegisterRoleStore(p) ==
    /\ pc[p] = "reg_role_store"
    /\ defaultUserRoleID' = [defaultUserRoleID EXCEPT ![Home[p]] = ctx[p].role]
    /\ Goto(p, "reg_assign")
    /\ UNCHANGED <<ctx, dbVars, issued, runVars, serving, restarts>>

RegisterAssign(p) ==
    /\ AtQuery(p, "reg_assign")
    /\ AssignRole(ctx[p].user, ctx[p].role)
    /\ Goto(p, "issue")
    /\ UNCHANGED <<ctx, issued, runVars, processVars>>

RegisterAssignRefused(p) ==
    /\ AtQuery(p, "reg_assign")
    /\ AssignRoleRefused(ctx[p].user, ctx[p].role)
    /\ Respond(p, 500)
    /\ UNCHANGED <<ctx, dbVars, issued, runVars, processVars>>

LoginLookupUnchecked(p) ==   \* mutant: goes on after a failed lookup
    /\ AtQuery(p, "login_lookup")
    /\ \/ \E u \in GetUserByEmail(args[p].email) :
            ctx' = [ctx EXCEPT ![p].user = u.id]
       \/ GetUserByEmail(args[p].email) = {} /\ UNCHANGED ctx
    /\ Goto(p, "issue")
    /\ UNCHANGED <<dbVars, issued, runVars, processVars>>

(* Login: no such user, an inactive one or a wrong password are all 401. *)
LoginLookup(p) ==
    /\ AtQuery(p, "login_lookup")
    /\ LET accepted == {u \in GetUserByEmail(args[p].email) :
                          /\ u.is_active
                          /\ CompareHashAndPassword(u.password_hash,
                                                    args[p].password)}
       IN  \/ \E u \in accepted :
                /\ ctx' = [ctx EXCEPT ![p].user = u.id]
                /\ Goto(p, "issue")
           \/ /\ accepted = {}
              /\ Respond(p, 401)
              /\ UNCHANGED ctx
    /\ UNCHANGED <<dbVars, issued, runVars, processVars>>

(* The last statements of Register and Login: sign the token and answer. *)
IssueToken(p) ==
    /\ pc[p] = "issue"
    /\ issued' = issued \cup {[user_id |-> ctx[p].user, email |-> args[p].email,
                               exp |-> now + JwtExpiry]}
    /\ Respond(p, IF args[p].op = "RegisterUser" THEN 201 ELSE 200)
    /\ UNCHANGED <<ctx, dbVars, runVars, processVars>>

-----------------------------------------------------------------------------
(* RequireAuth and RequireAdmin *)
Authenticate(p) ==
    /\ ParseToken(p) \/ Unauthorized(p) \/ Forbidden(p) \/ Admit(p)
    /\ UNCHANGED <<dbVars, issued, runVars, processVars>>

(* GetCurrentUser answers from the request context, ListApprovedUsers from *)
(* one read.                                                               *)
AnswerRead(p) ==
    /\ pc[p] = "me" \/ AtQuery(p, "ap_list")
    /\ Respond(p, 200)
    /\ UNCHANGED <<ctx, dbVars, issued, runVars, processVars>>

(* CreateApprovedUser looks the email up first, the bulk endpoint does not. *)
CreateApprovedLookup(p) ==
    /\ AtQuery(p, "ca_lookup")
    /\ IF GetApprovedUserByEmail(args[p].emails[1]) = {}
         THEN Goto(p, "ca_create")
         ELSE Respond(p, 409)
    /\ UNCHANGED <<ctx, dbVars, issued, runVars, processVars>>

AtCreateApproved(p) == AtQuery(p, "ca_create") \/ AtQuery(p, "ap_bulk")

InsertApproved(p) ==
    \E ids \in NewIds(DOMAIN args[p].emails, ApprovedId) :
      CreateApprovedUsersBulk(ids, args[p].emails, ctx[p].creator)

CreateApproved(p) ==
    /\ AtCreateApproved(p)
    /\ InsertApproved(p)
    /\ Respond(p, 201)
    /\ UNCHANGED <<ctx, issued, runVars, processVars>>

CreateApprovedRefused(p) ==
    /\ AtCreateApproved(p)
    /\ CreateApprovedUsersRefused(args[p].emails, ctx[p].creator)
    /\ Respond(p, 500)
    /\ UNCHANGED <<ctx, dbVars, issued, runVars, processVars>>

DeleteApproved(p) ==
    /\ AtQuery(p, "ap_delete")
    /\ DeleteApprovedUser(args[p].approved_id)
    /\ Respond(p, IF ApprovedUserExists(args[p].approved_id) THEN 204 ELSE 404)
    /\ UNCHANGED <<ctx, issued, runVars, processVars>>

-----------------------------------------------------------------------------
(* A statement that returns an error, without effect or after it committed. *)
QueryError(p) ==
    /\ QueryFails(p) \/ MissingTable(p)
    /\ UNCHANGED <<dbVars, issued, migrationVars, now, processVars>>

AuthWrite(p) ==
    \/ /\ AtQuery(p, "reg_create")
       /\ \E ids \in NewIds({args[p].email}, UserId) :
            CreateUser(ids, args[p].approved_id, args[p].email,
                       GenerateFromPassword(args[p].password))
    \/ AtQuery(p, "reg_assign") /\ AssignRole(ctx[p].user, ctx[p].role)
    \/ AtCreateApproved(p) /\ InsertApproved(p)
    \/ AtQuery(p, "ap_delete") /\ DeleteApprovedUser(args[p].approved_id)

CommitUnacked(p) ==
    /\ AuthWrite(p)
    /\ AnswerLost(p)
    /\ UNCHANGED <<ctx, issued, migrationVars, now, processVars>>

-----------------------------------------------------------------------------
(* The process: main() fills the role cache, or logs that it could not,    *)
(* and serves; a restart loses the cache and the requests in flight.       *)
InitDefaultRolesAny(r) ==   \* mutant: caches whichever role comes first
    /\ UNCHANGED faults
    /\ \/ \E u \in roles :
            defaultUserRoleID' = [defaultUserRoleID EXCEPT ![r] = u.id]
       \/ roles = {} /\ UNCHANGED defaultUserRoleID

InitDefaultRoles(r) ==
    \/ /\ level >= 3
       /\ \E u \in GetRoleByName("user") :
            defaultUserRoleID' = [defaultUserRoleID EXCEPT ![r] = u.id]
       /\ UNCHANGED faults
    \/ /\ level < 3 \/ GetRoleByName("user") = {}
       /\ UNCHANGED <<defaultUserRoleID, faults>>
    \/ /\ faults < MaxFaults
       /\ faults' = faults + 1
       /\ UNCHANGED defaultUserRoleID

StartServer(r) ==
    /\ r \notin serving
    /\ level >= ServeFrom
    /\ InitDefaultRoles(r)
    /\ serving' = serving \cup {r}
    /\ UNCHANGED <<dbVars, reqVars, issued, migrationVars, now, restarts>>

Restart(r) ==
    /\ r \in serving
    /\ restarts < MaxRestarts
    /\ restarts' = restarts + 1
    /\ serving' = serving \ {r}
    /\ defaultUserRoleID' = [defaultUserRoleID EXCEPT ![r] = NULL]
    /\ LET lost == {p \in Request : Home[p] = r /\ pc[p] # "done"}
       IN  /\ pc' = [p \in Request |-> IF p \in lost THEN "idle" ELSE pc[p]]
           /\ ctx' = [p \in Request |-> IF p \in lost THEN NoContext ELSE ctx[p]]
    /\ UNCHANGED <<dbVars, args, status, issued, runVars>>

(* The environment: time, an operator at the database, migrations. *)
Tick ==
    /\ now < MaxTime
    /\ now' = now + 1
    /\ UNCHANGED <<dbVars, migrationVars, reqVars, issued, faults, processVars>>

Deactivate ==
    /\ level >= 2
    /\ Cardinality({u \in users : ~u.is_active}) < MaxInactive
    /\ \E u \in users : /\ u.is_active
                       /\ UpdateUser(u.id, u.password_hash, FALSE)
    /\ UNCHANGED <<migrationVars, reqVars, issued, now, faults, processVars>>

(* Nobody can log in to a seed account before its password is set. *)
SetPassword ==
    /\ level >= 2
    /\ \E u \in users, w \in Password :
         /\ u.email \in ResetEmails
         /\ u.password_hash = SeedHash
         /\ UpdateUser(u.id, GenerateFromPassword(w), u.is_active)
    /\ UNCHANGED <<migrationVars, reqVars, issued, now, faults, processVars>>

Migrate ==
    /\ \/ RunUp \/ RunDownOrReset("down") \/ RunDownOrReset("reset")
       \/ MigrateUp \/ MigrateDown \/ MigrateStops
    /\ UNCHANGED <<reqVars, issued, now, faults, processVars>>

-----------------------------------------------------------------------------
(* The steps of a goroutine that nothing but itself has to bring about. *)
AuthStep(p) ==
    \/ RegisterExists(p) \/ RegisterLookup(p) \/ RegisterCreate(p)
    \/ RegisterCreateRefused(p) \/ RegisterRole(p) \/ RegisterRoleLookup(p)
    \/ RegisterRoleStore(p) \/ RegisterAssign(p) \/ RegisterAssignRefused(p)
    \/ LoginLookup(p) \/ IssueToken(p)
    \/ Authenticate(p) \/ AnswerRead(p)
    \/ CreateApprovedLookup(p) \/ CreateApproved(p) \/ CreateApprovedRefused(p)
    \/ DeleteApproved(p)
    \/ QueryError(p) \/ CommitUnacked(p)

Environment ==
    \/ \E r \in Replica : StartServer(r) \/ Restart(r)
    \/ Tick \/ Deactivate \/ SetPassword \/ Migrate

Next ==
    \/ \E p \in Request : AuthRequest(p) \/ AuthStep(p)
    \/ Environment

Spec == Init /\ [][Next]_vars

(* A goroutine in the middle of a request is scheduled sooner or later, and *)
(* a query that reaches the database returns.                               *)
FairSpec == Spec /\ \A p \in Request : WF_vars(AuthStep(p))

-----------------------------------------------------------------------------
(* Properties *)

(* In a run without faults, restarts or down migrations, an account that   *)
(* holds no role belongs to a Register that is still between CreateUser    *)
(* and AssignRoleToUser: the two statements share no transaction, yet no   *)
(* interleaving with other requests leaves the account without its role.   *)
RolelessInFlight ==
    faults = 0 /\ restarts = 0 /\ rollbacks = 0 =>
      \A u \in users : RoleNames(u.id) = {} =>
        \E p \in Request :
          /\ args[p].op = "RegisterUser" /\ ctx[p].user = u.id
          /\ pc[p] \in {"reg_role", "reg_role_lookup", "reg_role_store",
                        "reg_assign"}

(* Without faults and down migrations, a Register answered 500 has left no *)
(* account behind that would make the client's retry fail with 409.        *)
FailedRegisterLeavesNothing ==
    faults = 0 /\ rollbacks = 0 =>
      \A p \in Request :
        /\ pc[p] = "done" /\ args[p].op = "RegisterUser" /\ status[p] = 500
        => GetUserByID(ctx[p].user) = {}

(* Registration never makes an admin: whatever the cache held when the     *)
(* role was assigned, and even if migrations replaced the roles meanwhile, *)
(* only the account under the seed's admin address has that role.          *)
OnlySeedAdmin ==
    \A u \in users : "admin" \in RoleNames(u.id) => u.email = AdminEmail

(* The id in a replica's cache, or in a Register that has read it, is the  *)
(* id of role "user" or of no role at all.                                 *)
CacheNamesUser ==
    \A x \in roles :
      \/ x.name = "user"
      \/ /\ \A r \in Replica : defaultUserRoleID[r] # x.id
         /\ \A p \in Request : ctx[p].role # x.id

(* A token opens the account it was signed for: whoever the user_id of a   *)
(* token names today has the email the token was issued to.                *)
TokenBinding ==
    \A t \in issued : \A u \in users : u.id = t.user_id => u.email = t.email

(* Whoever has account id now or later has this email. *)
Bound(id, email) == id \in used /\ \A u \in users : u.id = id => u.email = email

(* id is, and stays, the id of role "user" or of no role. *)
NamesUser(id) ==
    \/ id = NULL
    \/ id \in used /\ \A r \in roles : r.id = id => r.name = "user"

HasAccount == {"reg_role", "reg_role_lookup", "reg_role_store", "reg_assign",
               "issue"}

TokenInv ==
    /\ \A u \in users : Bound(u.id, u.email)
    /\ \A t \in issued : Bound(t.user_id, t.email)
    /\ \A p \in Request :
         pc[p] \in HasAccount => Bound(ctx[p].user, args[p].email)

CacheInv ==
    /\ \A r \in roles : r.id \in used
    /\ \A r, s \in roles : r.id = s.id => r.name = s.name
    /\ \A r \in Replica : NamesUser(defaultUserRoleID[r])
    /\ \A p \in Request : NamesUser(ctx[p].role)

AdminInv ==
    \A x \in user_roles :
      /\ x.role_id \in used
      /\ \A r \in roles : /\ r.id = x.role_id
                           /\ r.name # "user"
                           => Bound(x.user_id, AdminEmail)

(* Why the three properties around it hold: a uuid once drawn keeps naming *)
(* the row it was drawn for, so what the handlers, the cache, the tokens   *)
(* and user_roles hold on to is the account or role they saw, or nothing.  *)
UuidInv == TokenInv /\ CacheInv /\ AdminInv

(* Only an admin whose account still exists adds to the whitelist: between *)
(* RequireAdmin and the INSERT the admin may have been removed, and then   *)
(* the INSERT is refused (down migrations aside).                          *)
OnlyLiveAdminsApprove ==
    [][rollbacks = 0 /\ level = 6 =>
         \A a \in approved_users' \ approved_users :
           \/ \E b \in approved_users : b.id = a.id
           \/ \E p \in Request :
                /\ pc[p] \in {"ca_create", "ap_bulk"}
                /\ ctx[p].creator = a.created_by
                /\ GetUserByID(ctx[p].user) # {}
                /\ "admin" \in RoleNames(ctx[p].user)]_vars

(* Every request that reaches a replica is answered, unless the replica    *)
(* goes down: no statement waits for another request.                      *)
EveryRequestAnswered ==
    \A p \in Request : pc[p] \notin Waiting ~> pc[p] \in Waiting

(* docs/api.md: "409 - Email already registered". *)
DuplicateIs409 ==
    [][\A p \in Request :
         /\ pc[p] \in {"reg_lookup", "reg_create"}
         /\ pc'[p] = "done"
         /\ GetUserByEmail(args[p].email) # {}
         => status'[p] = 409]_vars

(* docs/api.md: "Only users with pre-approved emails can register." *)
PreApprovedEmail ==
    \A u \in users : GetApprovedUserByEmail(u.email) # {}

=============================================================================
