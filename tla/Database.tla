------------------------------ MODULE Database ------------------------------
(***************************************************************************)
(* The PostgreSQL schema of migrations/ and the statements of sql/queries  *)
(* that the API executes.  A table is a set of rows (records); a statement *)
(* runs in autocommit mode, so each one is a single atomic step: a read is *)
(* an operator that returns the selected rows, a write is an action on the *)
(* tables.  Columns no property tells apart (first_name, timestamps, role  *)
(* descriptions) are left out.                                             *)
(***************************************************************************)
EXTENDS Naturals, Sequences

CONSTANTS
    ApprovedId, UserId, RoleId, TodoId,  \* the uuids each table may draw
    Email, Password,                     \* abstract values
    Title, Description, DueDate,         \* contents of a todo
    NULL                                 \* SQL NULL, a nil pointer, uuid.Nil

ASSUME NullAssumption ==
    /\ NULL \notin ApprovedId /\ NULL \notin UserId /\ NULL \notin RoleId
    /\ NULL \notin TodoId /\ NULL \notin Email /\ NULL \notin Password
    /\ NULL \notin Title /\ NULL \notin Description /\ NULL \notin DueDate
    /\ NULL \notin BOOLEAN

VARIABLES
    approved_users, users, roles, user_roles, todos,
    used          \* every uuid gen_random_uuid() has ever returned

dbVars == <<approved_users, users, roles, user_roles, todos, used>>

RoleName == {"admin", "user"}

(***************************************************************************)
(* bcrypt (external): a hash verifies exactly the password it was made     *)
(* from.                                                                   *)
(***************************************************************************)
GenerateFromPassword(password) == [bcrypt |-> password]
CompareHashAndPassword(hash, password) == hash = GenerateFromPassword(password)

ApprovedUserRow == [id : ApprovedId, email : Email,
                    created_by : ApprovedId \cup {NULL}]
UserRow == [id : UserId, approved_user_id : ApprovedId, email : Email,
            password_hash : [bcrypt : Password \cup {NULL}], is_active : BOOLEAN]
RoleRow == [id : RoleId, name : RoleName]
UserRoleRow == [user_id : UserId, role_id : RoleId]
TodoRow == [id : TodoId, user_id : UserId, title : Title,
            description : Description \cup {NULL}, is_completed : BOOLEAN,
            due_date : DueDate \cup {NULL}]

DbTypeOK ==
    /\ approved_users \subseteq ApprovedUserRow
    /\ users \subseteq UserRow
    /\ roles \subseteq RoleRow
    /\ user_roles \subseteq UserRoleRow
    /\ todos \subseteq TodoRow
    /\ used \subseteq ApprovedId \cup UserId \cup RoleId \cup TodoId

(***************************************************************************)
(* gen_random_uuid() (external) never returns a value twice.  Which unused *)
(* uuid it returns makes no difference to anyone, so one choice stands for *)
(* all: NewIds holds one way to give every element of Keys an unused uuid, *)
(* or nothing when the pool Id is exhausted.                               *)
(***************************************************************************)
Fresh(Id) == Id \ used

NewIds(Keys, Id) ==
    LET draws == {f \in [Keys -> Fresh(Id)] :
                    \A k, l \in Keys : f[k] = f[l] => k = l}
    IN  IF draws = {} THEN {} ELSE {CHOOSE f \in draws : TRUE}

-----------------------------------------------------------------------------
(* Reads *)

ApprovedUserExists(id) == \E a \in approved_users : a.id = id
GetApprovedUserByEmail(email) == {a \in approved_users : a.email = email}
GetUserByEmail(email) == {u \in users : u.email = email}
GetUserByID(id) == {u \in users : u.id = id}
GetRoleByName(name) == {r \in roles : r.name = name}
GetTodoByID(id) == {t \in todos : t.id = id}

(* The role_names column of the aggregate GetUserWithRolesAndApproved. *)
RoleNames(userID) ==
    {r.name : r \in {x \in roles :
                       [user_id |-> userID, role_id |-> x.id] \in user_roles}}

-----------------------------------------------------------------------------
(* Writes.  "Refused" states when a constraint of the schema rejects the   *)
(* statement; a refused statement changes nothing.                         *)

CreateUserRefusedTwice(approvedID, email) ==   \* mutant: email not UNIQUE
    ~ApprovedUserExists(approvedID)

(* users.approved_user_id REFERENCES approved_users, users.email UNIQUE. *)
CreateUserRefused(approvedID, email) ==
    ~ApprovedUserExists(approvedID) \/ GetUserByEmail(email) # {}

CreateUser(ids, approvedID, email, hash) ==
    /\ ids \in NewIds({email}, UserId)
    /\ ~CreateUserRefused(approvedID, email)
    /\ users' = users \cup {[id |-> ids[email], approved_user_id |-> approvedID,
                             email |-> email, password_hash |-> hash,
                             is_active |-> TRUE]}
    /\ used' = used \cup {ids[email]}
    /\ UNCHANGED <<approved_users, roles, user_roles, todos>>

(* user_roles.user_id REFERENCES users, user_roles.role_id REFERENCES roles *)
AssignRoleRefused(userID, roleID) ==
    GetUserByID(userID) = {} \/ ~\E r \in roles : r.id = roleID

(* ON CONFLICT DO NOTHING: assigning a role twice is no error. *)
AssignRole(userID, roleID) ==
    /\ ~AssignRoleRefused(userID, roleID)
    /\ user_roles' = user_roles \cup {[user_id |-> userID, role_id |-> roleID]}
    /\ UNCHANGED <<approved_users, users, roles, todos, used>>

CreateApprovedUsersRefusedNoCreator(emails, createdBy) ==
    \* mutant: created_by is no foreign key
    \/ \E i \in DOMAIN emails : GetApprovedUserByEmail(emails[i]) # {}
    \/ \E i, j \in DOMAIN emails : i # j /\ emails[i] = emails[j]

CreateApprovedUsersRefusedTwice(emails, createdBy) ==
    \* mutant: email not UNIQUE, the lookup before it is relied on
    ~ApprovedUserExists(createdBy)

(* One INSERT for a sequence of emails: all rows or none.  Refused when an *)
(* email is already present or repeated, or when the creator's row is gone. *)
CreateApprovedUsersRefused(emails, createdBy) ==
    \/ ~ApprovedUserExists(createdBy)
    \/ \E i \in DOMAIN emails : GetApprovedUserByEmail(emails[i]) # {}
    \/ \E i, j \in DOMAIN emails : i # j /\ emails[i] = emails[j]

CreateApprovedUsersBulk(ids, emails, createdBy) ==
    /\ ids \in NewIds(DOMAIN emails, ApprovedId)
    /\ ~CreateApprovedUsersRefused(emails, createdBy)
    /\ approved_users' = approved_users \cup
          {[id |-> ids[i], email |-> emails[i], created_by |-> createdBy] :
             i \in DOMAIN emails}
    /\ used' = used \cup {ids[i] : i \in DOMAIN emails}
    /\ UNCHANGED <<users, roles, user_roles, todos>>

(* Deleting users takes their user_roles and todos with them (CASCADE). *)
CascadeUsers(gone) ==
    /\ users' = {u \in users : u.id \notin gone}
    /\ user_roles' = {x \in user_roles : x.user_id \notin gone}
    /\ todos' = {t \in todos : t.user_id \notin gone}

DeleteApprovedUserKeepsCreator(id) ==   \* mutant: created_by left dangling
    /\ approved_users' = {a \in approved_users : a.id # id}
    /\ CascadeUsers({u.id : u \in {x \in users : x.approved_user_id = id}})
    /\ UNCHANGED <<roles, used>>

(* created_by ON DELETE SET NULL, users.approved_user_id ON DELETE CASCADE. *)
DeleteApprovedUser(id) ==
    /\ approved_users' =
         {[a EXCEPT !.created_by = IF @ = id THEN NULL ELSE @] :
            a \in {x \in approved_users : x.id # id}}
    /\ CascadeUsers({u.id : u \in {x \in users : x.approved_user_id = id}})
    /\ UNCHANGED <<roles, used>>

CreateTodoRefusedNever(userID) == FALSE   \* mutant: user_id is no foreign key

(* todos.user_id REFERENCES users ON DELETE CASCADE. *)
CreateTodoRefused(userID) == GetUserByID(userID) = {}

CreateTodo(ids, userID, title, description, dueDate) ==
    /\ ids \in NewIds({title}, TodoId)
    /\ ~CreateTodoRefused(userID)
    /\ todos' = todos \cup {[id |-> ids[title], user_id |-> userID,
                             title |-> title,
                             description |-> description,
                             is_completed |-> FALSE, due_date |-> dueDate]}
    /\ used' = used \cup {ids[title]}
    /\ UNCHANGED <<approved_users, users, roles, user_roles>>

Coalesce(value, column) == IF value = NULL THEN column ELSE value

UpdateTodoPartialClears(id, patch) ==
    \* mutant: the statement UpdateTodo, without COALESCE
    /\ todos' = (todos \ GetTodoByID(id)) \cup
          {[t EXCEPT !.title = Coalesce(patch.title, @),
                     !.description = patch.description,
                     !.is_completed = Coalesce(patch.is_completed, @),
                     !.due_date = patch.due_date] :
             t \in GetTodoByID(id)}
    /\ UNCHANGED <<approved_users, users, roles, user_roles, used>>

UpdateTodoPartialUpserts(id, patch) ==
    \* mutant: INSERT ... ON CONFLICT (id) DO UPDATE
    /\ \E u \in users :
         todos' = (todos \ GetTodoByID(id)) \cup
           {[id |-> id, user_id |-> u.id, title |-> patch.title,
             description |-> patch.description,
             is_completed |-> patch.is_completed, due_date |-> patch.due_date]}
    /\ UNCHANGED <<approved_users, users, roles, user_roles, used>>

(* Addresses the row by id alone; a NULL argument keeps the column. *)
UpdateTodoPartial(id, patch) ==
    /\ todos' = (todos \ GetTodoByID(id)) \cup
          {[t EXCEPT !.title = Coalesce(patch.title, @),
                     !.description = Coalesce(patch.description, @),
                     !.is_completed = Coalesce(patch.is_completed, @),
                     !.due_date = Coalesce(patch.due_date, @)] :
             t \in GetTodoByID(id)}
    /\ UNCHANGED <<approved_users, users, roles, user_roles, used>>

DeleteTodo(id) ==
    /\ todos' = todos \ GetTodoByID(id)
    /\ UNCHANGED <<approved_users, users, roles, user_roles, used>>

(* No handler executes UpdateUser: an operator runs it, and keeps the email. *)
UpdateUser(id, hash, active) ==
    /\ users' = {IF u.id = id THEN [u EXCEPT !.password_hash = hash,
                                             !.is_active = active]
                              ELSE u : u \in users}
    /\ UNCHANGED <<approved_users, roles, user_roles, todos, used>>

-----------------------------------------------------------------------------
(* What the keys and references of the schema guarantee of its contents.   *)

(* No two rows share a primary key, and the columns the schema declares    *)
(* UNIQUE hold each value once.                                            *)
UniqueKeys ==
    /\ \A a, b \in approved_users : a.id = b.id \/ a.email = b.email => a = b
    /\ \A u, v \in users : u.id = v.id \/ u.email = v.email => u = v
    /\ \A r, s \in roles : r.id = s.id \/ r.name = s.name => r = s
    /\ \A t, s \in todos : t.id = s.id => t = s

(* Every foreign key names a row that exists: an account its whitelist     *)
(* entry, a role assignment its account and role, a todo its owner.        *)
RefIntegrity ==
    /\ \A a \in approved_users :
         a.created_by # NULL => ApprovedUserExists(a.created_by)
    /\ \A u \in users : ApprovedUserExists(u.approved_user_id)
    /\ \A x \in user_roles : /\ \E u \in users : u.id = x.user_id
                              /\ \E r \in roles : r.id = x.role_id
    /\ \A t \in todos : \E u \in users : u.id = t.user_id

=============================================================================
