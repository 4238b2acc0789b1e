----------------------------- MODULE Migrations -----------------------------
(***************************************************************************)
(* cmd/migrate and the files of migrations/, which golang-migrate          *)
(* (external) executes one after the other.  Each file is sent as one      *)
(* multi-statement query, so it takes effect in one transaction; between   *)
(* two files the API may run requests.  level is the number of files that  *)
(* are in force:                                                           *)
(*   1 approved_users, 2 users, 3 roles, 4 user_roles, 5 todos, 6 the seed *)
(***************************************************************************)
EXTENDS Database

CONSTANTS AdminApproved, UserApproved,   \* the two uuids the seed spells out
          MaxRollbacks                   \* bound: runs of "down" and "reset"

VARIABLES level,
          command,      \* what cmd/migrate is doing, or "none"
          rollbacks     \* runs of "down" and "reset" so far

migrationVars == <<level, command, rollbacks>>

AdminEmail == "admin@example.com"
UserEmail == "user@example.com"
SeedEmail == {AdminEmail, UserEmail}
SeedHash == [bcrypt |-> NULL]   \* of a password nobody knows
SampleTitle == {"Sample Todo 1", "Sample Todo 2"}
SampleDescription == "sample"

ASSUME SeedAssumption ==
    /\ {AdminApproved, UserApproved} \subseteq ApprovedId
    /\ AdminApproved # UserApproved
    /\ SeedEmail \subseteq Email
    /\ SampleTitle \subseteq Title
    /\ SampleDescription \in Description

ASSUME MaxRollbacksAssumption == MaxRollbacks \in Nat

Command == {"up", "down", "reset"}

MigrationTypeOK ==
    /\ level \in 0..6
    /\ command \in Command \cup {"none"}
    /\ rollbacks \in 0..MaxRollbacks

(* An empty database.  gen_random_uuid() never returns one of the uuids the *)
(* seed spells out.                                                        *)
InitDb ==
    /\ approved_users = {} /\ users = {} /\ roles = {}
    /\ user_roles = {} /\ todos = {}
    /\ used = {AdminApproved, UserApproved}
    /\ level = 0 /\ command = "none" /\ rollbacks = 0

-----------------------------------------------------------------------------
(* INSERT INTO roles ... ON CONFLICT (name) DO NOTHING, of 000003 and 000006. *)
DefaultRoles(ids) ==
    roles \cup {[id |-> ids[n], name |-> n] : n \in DOMAIN ids}

MissingRoles == {n \in RoleName : GetRoleByName(n) = {}}

(* 000001 to 000005: empty tables, but for the default roles of 000003. *)
UpCreateTable ==
    /\ level \in {0, 1, 3, 4}
    /\ UNCHANGED dbVars

UpCreateRoles ==
    /\ level = 2
    /\ \E ids \in NewIds(MissingRoles, RoleId) :
         /\ roles' = DefaultRoles(ids)
         /\ used' = used \cup {ids[n] : n \in DOMAIN ids}
    /\ UNCHANGED <<approved_users, users, user_roles, todos>>

SeedApproved == {[id |-> AdminApproved, email |-> AdminEmail, created_by |-> NULL],
                 [id |-> UserApproved, email |-> UserEmail, created_by |-> NULL]}

(* The rows ON CONFLICT (id) lets through. *)
NewSeedApproved == {a \in SeedApproved : ~ApprovedUserExists(a.id)}

(* approved_users.email is UNIQUE and no ON CONFLICT covers it: 000006 fails *)
(* when an admin has whitelisted a seed email again under another id.        *)
SeedRefused == \E a \in NewSeedApproved : GetApprovedUserByEmail(a.email) # {}

SeedUser(ids, email) ==
    [id |-> ids[email],
     approved_user_id |-> IF email = AdminEmail THEN AdminApproved
                                                ELSE UserApproved,
     email |-> email, password_hash |-> SeedHash,
     is_active |-> TRUE]

MissingUsers == {e \in SeedEmail : GetUserByEmail(e) = {}}

SeedGrants(us, rs) ==
    {x \in [user_id : {u.id : u \in us}, role_id : {r.id : r \in rs}] :
       \E u \in us, r \in rs :
         /\ x = [user_id |-> u.id, role_id |-> r.id]
         /\ <<u.email, r.name>> \in {<<AdminEmail, "admin">>, <<UserEmail, "user">>}}

SampleTodo(id, u, title) ==
    [id |-> id, user_id |-> u.id, title |-> title,
     description |-> SampleDescription,
     is_completed |-> title = "Sample Todo 2", due_date |-> NULL]

SampleTodos(ids, us) ==
    UNION {{SampleTodo(ids[n], u, n) : n \in DOMAIN ids} :
             u \in {x \in us : x.email = UserEmail}}

UpSeed ==
    /\ level = 5
    /\ ~SeedRefused
    /\ \E roleIds \in NewIds(MissingRoles, RoleId),
          userIds \in NewIds(MissingUsers, UserId),
          todoIds \in NewIds(SampleTitle, TodoId) :
         LET rs == DefaultRoles(roleIds)
             us == users \cup {SeedUser(userIds, e) : e \in MissingUsers}
         IN  /\ approved_users' = approved_users \cup NewSeedApproved
             /\ roles' = rs
             /\ users' = us
             /\ user_roles' = user_roles \cup SeedGrants(us, rs)
             /\ todos' = todos \cup SampleTodos(todoIds, us)
             /\ used' = used \cup {roleIds[n] : n \in MissingRoles}
                             \cup {userIds[e] : e \in MissingUsers}
                             \cup {todoIds[n] : n \in SampleTitle}

(* 000006 down removes the sample todos, the seed accounts and both roles, *)
(* with every assignment of those roles; the whitelist entries stay.       *)
DownSeed ==
    /\ level = 6
    /\ LET gone == {u.id : u \in {x \in users : x.email \in SeedEmail}}
       IN  /\ users' = {u \in users : u.id \notin gone}
           /\ todos' = {t \in todos : /\ t.title \notin SampleTitle
                                      /\ t.user_id \notin gone}
           /\ user_roles' = {x \in user_roles :
                               /\ x.user_id \notin gone
                               /\ \E r \in roles : /\ r.id = x.role_id
                                                   /\ r.name \notin RoleName}
    /\ roles' = {r \in roles : r.name \notin RoleName}
    /\ UNCHANGED <<approved_users, used>>

(* DROP TABLE ... CASCADE. *)
DownDropTable ==
    /\ level \in 1..5
    /\ approved_users' = IF level = 1 THEN {} ELSE approved_users
    /\ users' = IF level = 2 THEN {} ELSE users
    /\ roles' = IF level = 3 THEN {} ELSE roles
    /\ user_roles' = IF level = 4 THEN {} ELSE user_roles
    /\ todos' = IF level = 5 THEN {} ELSE todos
    /\ UNCHANGED used

-----------------------------------------------------------------------------
(* An operator runs cmd/migrate.  Up and Down report ErrNoChange, which is *)
(* no error, when there is nothing to do; reset is Down followed by Up.    *)
RunUp ==
    /\ command = "none"
    /\ level < 6
    /\ command' = "up"
    /\ UNCHANGED <<dbVars, level, rollbacks>>

RunDownOrReset(c) ==
    /\ command = "none"
    /\ rollbacks < MaxRollbacks
    /\ rollbacks' = rollbacks + 1
    /\ command' = IF level > 0 THEN c ELSE IF c = "reset" THEN "up" ELSE "none"
    /\ UNCHANGED <<dbVars, level>>

MigrateUp ==
    /\ command = "up"
    /\ UpCreateTable \/ UpCreateRoles \/ UpSeed
    /\ level' = level + 1
    /\ command' = IF level' = 6 THEN "none" ELSE "up"
    /\ UNCHANGED rollbacks

MigrateDown ==
    /\ command \in {"down", "reset"}
    /\ DownSeed \/ DownDropTable
    /\ level' = level - 1
    /\ command' = IF level' > 0 THEN command
                  ELSE IF command = "reset" THEN "up" ELSE "none"
    /\ UNCHANGED rollbacks

(* The run ends early: a file is refused, or the process is stopped. *)
MigrateStops ==
    /\ command # "none"
    /\ command' = "none"
    /\ UNCHANGED <<dbVars, level, rollbacks>>

=============================================================================
