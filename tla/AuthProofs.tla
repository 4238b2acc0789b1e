----------------------------- MODULE AuthProofs -----------------------------
(***************************************************************************)
(* Three safety properties of AuthService, for every set of connections,   *)
(* replicas, uuids and addresses and any number of faults, restarts and    *)
(* migrations: TokenBinding, CacheNamesUser and OnlySeedAdmin.  None of    *)
(* them is inductive: a row drawn later could take the uuid that a token,  *)
(* the role cache, a goroutine or user_roles still holds.  UuidInv says    *)
(* that each of these uuids has been drawn, and names what it was drawn    *)
(* for or nothing.                                                         *)
(***************************************************************************)
EXTENDS AuthTypeProofs

(* What every step does to users, to roles and to user_roles: a row keeps  *)
(* its uuid and its email or name, new rows have unused uuids, and only    *)
(* the seed grants anything but the role "user".                           *)
KeepsUsers ==
    /\ used \subseteq used'
    /\ \A u \in users' : \/ \E v \in users : v.id = u.id /\ v.email = u.email
                         \/ u.id \in used' /\ u.id \notin used
    /\ \A u, v \in users' : u.id \notin used /\ u.id = v.id => u.email = v.email

KeepsRoles ==
    /\ used \subseteq used'
    /\ \A r \in roles' : r \in roles \/ (r.id \in used' /\ r.id \notin used)
    /\ \A r, s \in roles' : r.id \notin used /\ r.id = s.id => r.name = s.name

KeepsGrants ==
    \A x \in user_roles' :
      \/ x \in user_roles
      \/ /\ x.role_id \in used'
         /\ \A r \in roles' :
              /\ r.id = x.role_id
              /\ r.name # "user"
              => /\ x.user_id \in used'
                 /\ \A u \in users' : u.id = x.user_id => u.email = AdminEmail

KeepsTables == KeepsUsers /\ KeepsRoles /\ KeepsGrants

(* What every step does to the uuids held outside the tables: they were    *)
(* held before, or were read from a row, or are those of a row just made.  *)
KeepsHeld ==
    /\ \A t \in issued' : t \in issued \/ Bound(t.user_id, t.email)
    /\ \A q \in Request : pc'[q] \in HasAccount =>
         \/ Bound(ctx'[q].user, args'[q].email)
         \/ \E u \in users' : /\ u.id \in used' /\ u.id \notin used
                              /\ u.id = ctx'[q].user /\ u.email = args'[q].email
    /\ \A r \in Replica : NamesUser(defaultUserRoleID'[r])
    /\ \A q \in Request : NamesUser(ctx'[q].role)

-----------------------------------------------------------------------------
(* These two facts are all that the invariant needs of a step. *)
LEMMA UuidStep ==
  ASSUME UuidInv, KeepsTables, KeepsHeld
  PROVE  UuidInv'
<1> USE DEF UuidInv, KeepsTables
<1>1. ASSUME NEW i, NEW e, Bound(i, e)
      PROVE  i \in used' /\ \A u \in users' : u.id = i => u.email = e
  BY <1>1 DEF Bound, KeepsUsers
<1>2. TokenInv'
  <2>1. ASSUME NEW u \in users'
        PROVE  Bound(u.id, u.email)'
    <3>1. CASE \E v \in users : v.id = u.id /\ v.email = u.email
      BY <1>1, <3>1 DEF TokenInv, Bound
    <3>2. CASE u.id \in used' /\ u.id \notin used
      BY <3>2 DEF KeepsUsers, Bound
    <3> QED
      BY <3>1, <3>2 DEF KeepsUsers
  <2>2. ASSUME NEW t \in issued'
        PROVE  Bound(t.user_id, t.email)'
    <3>1. Bound(t.user_id, t.email)
      BY DEF KeepsHeld, TokenInv
    <3> QED
      BY <1>1, <3>1 DEF Bound
  <2>3. ASSUME NEW q \in Request, pc'[q] \in HasAccount
        PROVE  Bound(ctx[q].user, args[q].email)'
    <3>1. CASE Bound(ctx'[q].user, args'[q].email)
      BY <1>1, <3>1 DEF Bound
    <3>2. CASE \E u \in users' : /\ u.id \in used' /\ u.id \notin used
                                 /\ u.id = ctx'[q].user
                                 /\ u.email = args'[q].email
      BY <3>2 DEF KeepsUsers, Bound
    <3> QED
      BY <2>3, <3>1, <3>2 DEF KeepsHeld
  <2> QED
    BY <2>1, <2>2, <2>3 DEF TokenInv
<1>3. ASSUME NEW i, NamesUser(i)
      PROVE  \/ i = NULL
             \/ i \in used' /\ \A r \in roles' : r.id = i => r.name = "user"
  BY <1>3 DEF NamesUser, KeepsRoles
<1>4. CacheInv'
  <2>1. \A r \in roles' : r.id \in used'
    BY DEF CacheInv, KeepsRoles
  <2>2. \A r, s \in roles' : r.id = s.id => r.name = s.name
    BY DEF CacheInv, KeepsRoles
  <2>3. /\ \A r \in Replica : NamesUser(defaultUserRoleID[r])'
        /\ \A p \in Request : NamesUser(ctx[p].role)'
    BY <1>3 DEF KeepsHeld, NamesUser
  <2> QED
    BY <2>1, <2>2, <2>3 DEF CacheInv
<1>5. AdminInv'
  <2>1. ASSUME NEW x \in user_roles
        PROVE  /\ x.role_id \in used'
               /\ \A r \in roles' : /\ r.id = x.role_id
                                    /\ r.name # "user"
                                    => Bound(x.user_id, AdminEmail)
    BY DEF AdminInv, KeepsRoles
  <2>2. ASSUME NEW x \in user_roles', NEW r \in roles',
               r.id = x.role_id, r.name # "user"
        PROVE  Bound(x.user_id, AdminEmail)'
    <3>1. CASE x \in user_roles
      BY <1>1, <2>1, <2>2, <3>1 DEF Bound
    <3>2. CASE x \notin user_roles
      BY <2>2, <3>2 DEF KeepsGrants, Bound
    <3> QED
      BY <3>1, <3>2
  <2>3. \A x \in user_roles' : x.role_id \in used'
    BY <2>1 DEF KeepsGrants
  <2> QED
    BY <2>2, <2>3 DEF AdminInv
<1> QED
  BY <1>2, <1>4, <1>5

-----------------------------------------------------------------------------
(* The statements. *)

LEMMA TablesUnchanged ==
  ASSUME UuidInv, UNCHANGED dbVars
  PROVE  KeepsTables
BY DEF UuidInv, TokenInv, CacheInv, Bound, dbVars,
       KeepsTables, KeepsUsers, KeepsRoles, KeepsGrants

LEMMA CreateUserKeeps ==
  ASSUME UuidInv, NEW a, NEW e, NEW h, NEW ids \in NewIds({e}, UserId),
         CreateUser(ids, a, e, h)
  PROVE  /\ KeepsTables
         /\ \E u \in users' : /\ u.id \in used' /\ u.id \notin used
                              /\ u.id = ids[e] /\ u.email = e
<1>1. ids[e] \notin used
  BY NewIdsFresh
<1>2. /\ used' = used \cup {ids[e]}
      /\ users' = users \cup {[id |-> ids[e], approved_user_id |-> a, email |-> e,
                               password_hash |-> h, is_active |-> TRUE]}
      /\ roles' = roles /\ user_roles' = user_roles
  BY DEF CreateUser
<1>3. KeepsUsers
  BY <1>1, <1>2 DEF UuidInv, TokenInv, Bound, KeepsUsers
<1>4. KeepsRoles /\ KeepsGrants
  BY <1>2 DEF UuidInv, CacheInv, KeepsRoles, KeepsGrants
<1>5. [id |-> ids[e], approved_user_id |-> a, email |-> e,
       password_hash |-> h, is_active |-> TRUE] \in users'
  BY <1>2
<1> QED
  BY <1>1, <1>2, <1>3, <1>4, <1>5 DEF KeepsTables

LEMMA AssignRoleKeeps ==
  ASSUME UuidInv, NEW u, NEW r, r # NULL, NamesUser(r), AssignRole(u, r)
  PROVE  KeepsTables
<1>1. KeepsUsers /\ KeepsRoles
  BY DEF AssignRole, UuidInv, TokenInv, CacheInv, Bound, KeepsUsers, KeepsRoles
<1>2. KeepsGrants
  BY DEF AssignRole, NamesUser, KeepsGrants
<1> QED
  BY <1>1, <1>2 DEF KeepsTables

LEMMA WhitelistKeeps ==
  ASSUME UuidInv,
         \/ \E ids, emails, c : CreateApprovedUsersBulk(ids, emails, c)
         \/ \E id : DeleteApprovedUser(id)
         \/ \E id, h, active : UpdateUser(id, h, active)
  PROVE  KeepsTables
<1>1. CASE \E ids, emails, c : CreateApprovedUsersBulk(ids, emails, c)
  BY <1>1 DEF CreateApprovedUsersBulk, UuidInv, TokenInv, CacheInv, Bound,
              KeepsTables, KeepsUsers, KeepsRoles, KeepsGrants
<1>2. CASE \E id : DeleteApprovedUser(id)
  BY <1>2 DEF DeleteApprovedUser, CascadeUsers, UuidInv, TokenInv, CacheInv, Bound,
              KeepsTables, KeepsUsers, KeepsRoles, KeepsGrants
<1>3. CASE \E id, h, active : UpdateUser(id, h, active)
  <2>1. PICK id, h, active : UpdateUser(id, h, active)
    BY <1>3
  <2>2. \A u \in users : /\ [u EXCEPT !.password_hash = h, !.is_active = active].id
                              = u.id
                         /\ [u EXCEPT !.password_hash = h, !.is_active = active].email
                              = u.email
    OBVIOUS
  <2>3. \A u \in users' : \E v \in users : v.id = u.id /\ v.email = u.email
    BY <2>1, <2>2 DEF UpdateUser
  <2> QED
    BY <2>1, <2>3 DEF UpdateUser, UuidInv, TokenInv, CacheInv, Bound,
              KeepsTables, KeepsUsers, KeepsRoles, KeepsGrants
<1> QED
  BY <1>1, <1>2, <1>3

-----------------------------------------------------------------------------
(* The migrations. *)

(* The default roles get unused and distinct uuids. *)
LEMMA DefaultRolesKeep ==
  ASSUME UuidInv, NEW ids \in NewIds(MissingRoles, RoleId),
         roles' = DefaultRoles(ids), used \subseteq used',
         \A n \in MissingRoles : ids[n] \in used'
  PROVE  KeepsRoles
<1>1. /\ DOMAIN ids = MissingRoles
      /\ \A n \in MissingRoles : ids[n] \notin used
      /\ \A k, l \in MissingRoles : ids[k] = ids[l] => k = l
  BY NewIdsFresh
<1>2. \A r \in roles' : \/ r \in roles
                        \/ \E n \in MissingRoles : r = [id |-> ids[n], name |-> n]
  BY <1>1 DEF DefaultRoles
<1>3. \A r \in roles' : \/ r \in roles
                        \/ r.name \in MissingRoles /\ r.id = ids[r.name]
  BY <1>2
<1> QED
  BY <1>1, <1>3 DEF UuidInv, CacheInv, KeepsRoles

LEMMA UpCreateRolesKeeps ==
  ASSUME UuidInv, UpCreateRoles
  PROVE  KeepsTables
<1>1. PICK ids \in NewIds(MissingRoles, RoleId) :
        /\ roles' = DefaultRoles(ids)
        /\ used' = used \cup {ids[n] : n \in DOMAIN ids}
  BY DEF UpCreateRoles
<1>2. DOMAIN ids = MissingRoles
  BY <1>1, NewIdsFresh
<1>3. KeepsRoles
  BY <1>1, <1>2, DefaultRolesKeep
<1>4. KeepsUsers /\ KeepsGrants
  BY <1>1 DEF UpCreateRoles, UuidInv, TokenInv, Bound, KeepsUsers, KeepsGrants
<1> QED
  BY <1>3, <1>4 DEF KeepsTables

LEMMA UpSeedKeeps ==
  ASSUME UuidInv, UpSeed
  PROVE  KeepsTables
<1>1. PICK roleIds \in NewIds(MissingRoles, RoleId),
           userIds \in NewIds(MissingUsers, UserId),
           todoIds \in NewIds(SampleTitle, TodoId) :
        /\ roles' = DefaultRoles(roleIds)
        /\ users' = users \cup {SeedUser(userIds, e) : e \in MissingUsers}
        /\ user_roles' = user_roles \cup SeedGrants(users', roles')
        /\ used' = used \cup {roleIds[n] : n \in MissingRoles}
                        \cup {userIds[e] : e \in MissingUsers}
                        \cup {todoIds[n] : n \in SampleTitle}
  BY DEF UpSeed
<1>2. KeepsRoles
  BY <1>1, DefaultRolesKeep
<1>3. /\ \A e \in MissingUsers : userIds[e] \notin used
      /\ \A k, l \in MissingUsers : userIds[k] = userIds[l] => k = l
  BY <1>1, NewIdsFresh
<1>4. \A u \in users' : \/ u \in users
                        \/ u.email \in MissingUsers /\ u.id = userIds[u.email]
  BY <1>1 DEF SeedUser
<1>5. KeepsUsers
  BY <1>1, <1>3, <1>4 DEF UuidInv, TokenInv, Bound, KeepsUsers
<1>6. \A u \in users' : u.id \in used'
  BY <1>5 DEF KeepsUsers, UuidInv, TokenInv, Bound
<1>7. \A u, v \in users' : u.id = v.id => u.email = v.email
  BY <1>5 DEF KeepsUsers, UuidInv, TokenInv, Bound
<1>8. \A r, s \in roles' : r.id = s.id => r.name = s.name /\ r.id \in used'
  BY <1>2 DEF KeepsRoles, UuidInv, CacheInv
<1>9. KeepsGrants
  <2>1. ASSUME NEW x \in SeedGrants(users', roles')
        PROVE  \E u \in users', r \in roles' :
                 /\ x.user_id = u.id /\ x.role_id = r.id
                 /\ r.name # "user" => u.email = AdminEmail
    BY DEF SeedGrants
  <2>2. ASSUME NEW x \in SeedGrants(users', roles')
        PROVE  /\ x.role_id \in used'
               /\ \A r \in roles' :
                    /\ r.id = x.role_id
                    /\ r.name # "user"
                    => /\ x.user_id \in used'
                       /\ \A u \in users' : u.id = x.user_id => u.email = AdminEmail
    BY <1>6, <1>7, <1>8, <2>1
  <2> QED
    BY <1>1, <2>2 DEF KeepsGrants
<1> QED
  BY <1>2, <1>5, <1>9 DEF KeepsTables

LEMMA MigrateKeeps ==
  ASSUME UuidInv, Migrate
  PROVE  KeepsTables
<1>1. CASE \/ RunUp \/ RunDownOrReset("down") \/ RunDownOrReset("reset")
           \/ MigrateStops
  BY <1>1, TablesUnchanged DEF RunUp, RunDownOrReset, MigrateStops
<1>2. CASE MigrateUp
  BY <1>2, TablesUnchanged, UpCreateRolesKeeps, UpSeedKeeps
     DEF MigrateUp, UpCreateTable
<1>3. CASE MigrateDown
  <2>1. /\ users' \subseteq users /\ roles' \subseteq roles
        /\ user_roles' \subseteq user_roles /\ used' = used
    BY <1>3 DEF MigrateDown, DownSeed, DownDropTable
  <2> QED
    BY <2>1 DEF UuidInv, TokenInv, CacheInv, Bound, KeepsTables, KeepsUsers,
                KeepsRoles, KeepsGrants
<1> QED
  BY <1>1, <1>2, <1>3 DEF Migrate


-----------------------------------------------------------------------------
(* The goroutines. *)

(* The uuids that stay where they are satisfy KeepsHeld; it remains to look *)
(* at those of the goroutine that moves.                                   *)
LEMMA OthersHold ==
  ASSUME UuidInv, NEW p \in Request,
         issued' = issued, defaultUserRoleID' = defaultUserRoleID,
         \A q \in Request : q # p => /\ pc'[q] = pc[q] /\ args'[q] = args[q]
                                     /\ ctx'[q] = ctx[q],
         pc'[p] \in HasAccount => Bound(ctx'[p].user, args'[p].email),
         NamesUser(ctx'[p].role)
  PROVE  KeepsHeld
BY DEF UuidInv, TokenInv, CacheInv, KeepsHeld

(* Nothing but time, tables or bookkeeping changes. *)
LEMMA HeldUnchanged ==
  ASSUME UuidInv, UNCHANGED <<reqVars, issued, defaultUserRoleID>>
  PROVE  KeepsHeld
BY DEF reqVars, UuidInv, TokenInv, CacheInv, KeepsHeld

LEMMA RespondHolds ==
  ASSUME RequestTypeOK, UuidInv, NEW p \in Request, NEW code, Respond(p, code),
         issued' = issued, defaultUserRoleID' = defaultUserRoleID,
         \A q \in Request : q # p => ctx'[q] = ctx[q],
         ctx'[p].role = ctx[p].role
  PROVE  KeepsHeld
<1>1. /\ pc'[p] = "done"
      /\ \A q \in Request : q # p => pc'[q] = pc[q] /\ args'[q] = args[q]
  BY DEF Respond, RequestTypeOK
<1>2. NamesUser(ctx'[p].role)
  BY DEF UuidInv, CacheInv
<1> QED
  BY <1>1, <1>2, OthersHold DEF HasAccount

LEMMA GotoHolds ==
  ASSUME RequestTypeOK, UuidInv, NEW p \in Request, NEW label, Goto(p, label),
         issued' = issued, defaultUserRoleID' = defaultUserRoleID,
         \A q \in Request : q # p => ctx'[q] = ctx[q],
         label \in HasAccount => Bound(ctx'[p].user, args[p].email),
         NamesUser(ctx'[p].role)
  PROVE  KeepsHeld
<1>1. /\ pc'[p] = label /\ args' = args
      /\ \A q \in Request : q # p => pc'[q] = pc[q]
  BY DEF Goto, RequestTypeOK
<1> QED
  BY <1>1, OthersHold

LEMMA BeginHolds ==
  ASSUME RequestTypeOK, UuidInv, NEW p \in Request, AuthRequest(p)
  PROVE  KeepsHeld
<1>1. issued' = issued /\ defaultUserRoleID' = defaultUserRoleID
  BY DEF AuthRequest, processVars
<1>2. NamesUser(NoContext.role)
  BY DEF NamesUser, NoContext
<1>3. ASSUME NEW input, Begin(p, input)
      PROVE  KeepsHeld
  <2>1. /\ pc'[p] = IF input.op \in PublicOp THEN Entry[input.op] ELSE "auth"
        /\ ctx'[p] = NoContext
        /\ \A q \in Request : q # p => /\ pc'[q] = pc[q] /\ args'[q] = args[q]
                                       /\ ctx'[q] = ctx[q]
    BY <1>3 DEF Begin, RequestTypeOK
  <2>2. pc'[p] \in {"reg_exists", "login_lookup", "auth"}
    BY <2>1, EntryType DEF PublicOp
  <2> QED
    BY <1>1, <1>2, <2>1, <2>2, OthersHold DEF HasAccount
<1>4. CASE RejectInput(p)
  <2>1. /\ pc'[p] = "done" /\ ctx'[p] = NoContext
        /\ \A q \in Request : q # p => /\ pc'[q] = pc[q] /\ args'[q] = args[q]
                                       /\ ctx'[q] = ctx[q]
    BY <1>4 DEF RejectInput, RequestTypeOK
  <2> QED
    BY <1>1, <1>2, <2>1, OthersHold DEF HasAccount
<1> QED
  BY <1>3, <1>4 DEF AuthRequest, RegisterUser, LoginUser, GetCurrentUser,
     ListApprovedUsers, CreateApprovedUser, BulkCreateApprovedUsers,
     DeleteApprovedUserById


LEMMA RegisterKeeps ==
  ASSUME TypeInv, UuidInv, NEW p \in Request,
         \/ RegisterExists(p) \/ RegisterLookup(p) \/ RegisterCreate(p)
         \/ RegisterCreateRefused(p) \/ RegisterRole(p) \/ RegisterRoleLookup(p)
         \/ RegisterRoleStore(p) \/ RegisterAssign(p) \/ RegisterAssignRefused(p)
  PROVE  KeepsTables /\ KeepsHeld
<1>1. LocalInv(p) /\ RequestTypeOK /\ DbTypeOK /\ AuthTypeOK
  BY DEF TypeInv, TypeOK
<1>2. NamesUser(ctx[p].role) /\ NamesUser(defaultUserRoleID[Home[p]])
  BY RequestAssumption DEF UuidInv, CacheInv
<1>3. pc[p] \in HasAccount => Bound(ctx[p].user, args[p].email)
  BY DEF UuidInv, TokenInv
<1>4. ctx \in [Request -> Context]
  BY <1>1 DEF RequestTypeOK
<1>5. CASE \/ RegisterExists(p) \/ RegisterLookup(p)
           \/ RegisterCreateRefused(p) \/ RegisterAssignRefused(p)
  <2>1. /\ ctx' = ctx /\ issued' = issued
        /\ defaultUserRoleID' = defaultUserRoleID /\ UNCHANGED dbVars
        /\ \/ Goto(p, "reg_lookup") \/ Goto(p, "reg_create")
           \/ Respond(p, 404) \/ Respond(p, 409) \/ Respond(p, 500)
    BY <1>5 DEF RegisterExists, RegisterLookup, RegisterCreateRefused,
                RegisterAssignRefused, processVars
  <2> QED
    BY <1>1, <1>2, <2>1, TablesUnchanged, RespondHolds, GotoHolds DEF HasAccount
<1>6. CASE RegisterCreate(p)
  <2>1. PICK ids \in NewIds({args[p].email}, UserId) :
          /\ CreateUser(ids, args[p].approved_id, args[p].email,
                        GenerateFromPassword(args[p].password))
          /\ ctx' = [ctx EXCEPT ![p].user = ids[args[p].email]]
    BY <1>6 DEF RegisterCreate
  <2>2. /\ KeepsTables
        /\ \E u \in users' : /\ u.id \in used' /\ u.id \notin used
                             /\ u.id = ids[args[p].email] /\ u.email = args[p].email
    BY <2>1, CreateUserKeeps
  <2>3. /\ ctx'[p].user = ids[args[p].email] /\ ctx'[p].role = ctx[p].role
        /\ \A q \in Request : q # p => ctx'[q] = ctx[q]
    BY <1>4, <2>1 DEF Context
  <2>4. /\ args' = args /\ \A q \in Request : q # p => pc'[q] = pc[q]
        /\ issued' = issued /\ defaultUserRoleID' = defaultUserRoleID
    BY <1>1, <1>6 DEF RegisterCreate, Goto, RequestTypeOK, processVars
  <2>5. KeepsHeld
    BY <1>2, <2>2, <2>3, <2>4 DEF UuidInv, TokenInv, CacheInv, KeepsHeld
  <2> QED
    BY <2>2, <2>5
<1>7. CASE RegisterRole(p)
  <2>1. /\ ctx'[p].role = defaultUserRoleID[Home[p]]
        /\ ctx'[p].user = ctx[p].user
        /\ \A q \in Request : q # p => ctx'[q] = ctx[q]
    BY <1>4, <1>7 DEF RegisterRole, Context
  <2>2. /\ issued' = issued /\ defaultUserRoleID' = defaultUserRoleID
        /\ UNCHANGED dbVars
        /\ Goto(p, "reg_role_lookup") \/ Goto(p, "reg_assign")
    BY <1>7 DEF RegisterRole, processVars
  <2>3. Bound(ctx'[p].user, args[p].email)
    BY <1>3, <1>7, <2>1 DEF RegisterRole, HasAccount
  <2> QED
    BY <1>1, <1>2, <2>1, <2>2, <2>3, TablesUnchanged, GotoHolds
<1>8. CASE RegisterRoleLookup(p)
  <2>1. /\ issued' = issued /\ defaultUserRoleID' = defaultUserRoleID
        /\ UNCHANGED dbVars
    BY <1>8 DEF RegisterRoleLookup, processVars
  <2>2. Bound(ctx[p].user, args[p].email)
    BY <1>3, <1>8 DEF RegisterRoleLookup, AtQuery, HasAccount
  <2>3. ASSUME NEW r \in GetRoleByName("user"),
               ctx' = [ctx EXCEPT ![p].role = r.id], Goto(p, "reg_role_store")
        PROVE  KeepsHeld
    <3>1. /\ ctx'[p].role = r.id /\ ctx'[p].user = ctx[p].user
          /\ \A q \in Request : q # p => ctx'[q] = ctx[q]
      BY <1>4, <2>3 DEF Context
    <3>2. NamesUser(r.id)
      BY DEF GetRoleByName, NamesUser, UuidInv, CacheInv
    <3> QED
      BY <1>1, <2>1, <2>2, <2>3, <3>1, <3>2, GotoHolds
  <2>4. ASSUME UNCHANGED ctx, Goto(p, "issue")
        PROVE  KeepsHeld
    BY <1>1, <1>2, <2>1, <2>2, <2>4, GotoHolds
  <2> QED
    BY <1>8, <2>1, <2>3, <2>4, TablesUnchanged DEF RegisterRoleLookup
<1>9. CASE RegisterRoleStore(p)
  <2>1. \A r \in Replica : NamesUser(defaultUserRoleID'[r])
    BY <1>1, <1>2, <1>9 DEF RegisterRoleStore, AuthTypeOK, UuidInv, CacheInv
  <2>2. /\ args' = args /\ \A q \in Request : q # p => pc'[q] = pc[q]
        /\ ctx' = ctx /\ issued' = issued /\ UNCHANGED dbVars
    BY <1>1, <1>9 DEF RegisterRoleStore, Goto, RequestTypeOK
  <2>3. Bound(ctx[p].user, args[p].email)
    BY <1>3, <1>9 DEF RegisterRoleStore, HasAccount
  <2>4. KeepsHeld
    BY <2>1, <2>2, <2>3 DEF UuidInv, TokenInv, CacheInv, KeepsHeld
  <2> QED
    BY <2>2, <2>4, TablesUnchanged
<1>10. CASE RegisterAssign(p)
  <2>1. ctx[p].role # NULL
    BY <1>1, <1>10, NullAssumption DEF RegisterAssign, AtQuery, LocalInv
  <2>2. KeepsTables
    BY <1>2, <1>10, <2>1, AssignRoleKeeps DEF RegisterAssign
  <2>3. /\ ctx' = ctx /\ issued' = issued
        /\ defaultUserRoleID' = defaultUserRoleID /\ Goto(p, "issue")
    BY <1>10 DEF RegisterAssign, processVars
  <2>4. Bound(ctx[p].user, args[p].email)
    BY <1>3, <1>10 DEF RegisterAssign, AtQuery, HasAccount
  <2> QED
    BY <1>1, <1>2, <2>2, <2>3, <2>4, GotoHolds
<1> QED
  BY <1>5, <1>6, <1>7, <1>8, <1>9, <1>10

LEMMA LoginKeeps ==
  ASSUME TypeInv, UuidInv, NEW p \in Request, LoginLookup(p) \/ IssueToken(p)
  PROVE  KeepsTables /\ KeepsHeld
<1>1. RequestTypeOK /\ ctx \in [Request -> Context] /\ NamesUser(ctx[p].role)
  BY DEF TypeInv, TypeOK, RequestTypeOK, UuidInv, CacheInv
<1>2. CASE LoginLookup(p)
  <2>1. /\ issued' = issued /\ defaultUserRoleID' = defaultUserRoleID
        /\ UNCHANGED dbVars
    BY <1>2 DEF LoginLookup, processVars
  <2>2. ASSUME NEW u \in GetUserByEmail(args[p].email),
               ctx' = [ctx EXCEPT ![p].user = u.id], Goto(p, "issue")
        PROVE  KeepsHeld
    <3>1. /\ ctx'[p].user = u.id /\ ctx'[p].role = ctx[p].role
          /\ \A q \in Request : q # p => ctx'[q] = ctx[q]
      BY <1>1, <2>2 DEF Context
    <3>2. Bound(u.id, args[p].email)
      BY DEF GetUserByEmail, UuidInv, TokenInv
    <3> QED
      BY <1>1, <2>1, <2>2, <3>1, <3>2, GotoHolds
  <2>3. ASSUME UNCHANGED ctx, Respond(p, 401)
        PROVE  KeepsHeld
    BY <1>1, <2>1, <2>3, RespondHolds
  <2> QED
    BY <1>2, <2>1, <2>2, <2>3, TablesUnchanged DEF LoginLookup
<1>3. CASE IssueToken(p)
  <2>1. Bound(ctx[p].user, args[p].email)
    BY <1>3 DEF IssueToken, HasAccount, UuidInv, TokenInv
  <2>2. \A t \in issued' : t \in issued \/ Bound(t.user_id, t.email)
    BY <1>3, <2>1 DEF IssueToken
  <2>3. /\ pc'[p] = "done" /\ ctx' = ctx
        /\ \A q \in Request : q # p => pc'[q] = pc[q] /\ args'[q] = args[q]
    BY <1>1, <1>3 DEF IssueToken, Respond, RequestTypeOK
  <2>4. defaultUserRoleID' = defaultUserRoleID /\ UNCHANGED dbVars
    BY <1>3 DEF IssueToken, processVars
  <2>5. KeepsHeld
    BY <2>2, <2>3, <2>4 DEF HasAccount, UuidInv, TokenInv, CacheInv, KeepsHeld
  <2> QED
    BY <2>4, <2>5, TablesUnchanged
<1> QED
  BY <1>2, <1>3


LEMMA ProtectedKeeps ==
  ASSUME TypeInv, UuidInv, NEW p \in Request,
         \/ Authenticate(p) \/ AnswerRead(p) \/ CreateApprovedLookup(p)
         \/ CreateApproved(p) \/ CreateApprovedRefused(p) \/ DeleteApproved(p)
  PROVE  KeepsTables /\ KeepsHeld
<1>1. /\ RequestTypeOK /\ LocalInv(p) /\ ctx \in [Request -> Context]
      /\ NamesUser(ctx[p].role) /\ args[p] \in Input
  BY DEF TypeInv, TypeOK, RequestTypeOK, UuidInv, CacheInv
<1>2. issued' = issued /\ defaultUserRoleID' = defaultUserRoleID
  BY DEF Authenticate, AnswerRead, CreateApprovedLookup, CreateApproved,
         CreateApprovedRefused, DeleteApproved, processVars
<1>3. CASE Authenticate(p)
  <2>1. KeepsTables
    BY <1>3, TablesUnchanged DEF Authenticate
  <2>2. CASE ParseToken(p) \/ Unauthorized(p) \/ Forbidden(p)
    BY <1>1, <1>2, <2>1, <2>2, GotoHolds, RespondHolds
       DEF ParseToken, Unauthorized, Forbidden, HasAccount
  <2>3. CASE Admit(p)
    <3>1. PICK u \in users :
            ctx' = [ctx EXCEPT ![p].user = u.id, ![p].creator = u.approved_user_id]
      BY <2>3 DEF Admit, GetUserFromToken, GetUserByID
    <3>2. /\ ctx'[p].role = ctx[p].role
          /\ \A q \in Request : q # p => ctx'[q] = ctx[q]
      BY <1>1, <3>1 DEF Context
    <3>3. args[p].op \in AdminOp \cup UserOp
      BY <1>1, <2>3 DEF Admit, AtQuery, LocalInv, Input
    <3>4. Entry[args[p].op] \notin HasAccount
      BY <3>3, EntryType DEF HasAccount
    <3>5. Goto(p, Entry[args[p].op]) \/ Respond(p, args[p].body)
      BY <2>3 DEF Admit
    <3> QED
      BY <1>1, <1>2, <2>1, <3>2, <3>4, <3>5, GotoHolds, RespondHolds
  <2> QED
    BY <1>3, <2>2, <2>3 DEF Authenticate
<1>4. CASE \/ AnswerRead(p) \/ CreateApprovedLookup(p) \/ CreateApproved(p)
           \/ CreateApprovedRefused(p) \/ DeleteApproved(p)
  <2>1. /\ ctx' = ctx
        /\ \/ Goto(p, "ca_create")
           \/ \E code : Respond(p, code)
    BY <1>4 DEF AnswerRead, CreateApprovedLookup, CreateApproved,
                CreateApprovedRefused, DeleteApproved
  <2>2. KeepsHeld
    BY <1>1, <1>2, <2>1, GotoHolds, RespondHolds DEF HasAccount
  <2>3. KeepsTables
    BY <1>4, TablesUnchanged, WhitelistKeeps
       DEF AnswerRead, CreateApprovedLookup, CreateApproved, InsertApproved,
           CreateApprovedRefused, DeleteApproved
  <2> QED
    BY <2>2, <2>3
<1> QED
  BY <1>3, <1>4

(* An error never makes a handler hold on to a uuid it has not read. *)
LEMMA FaultKeeps ==
  ASSUME TypeInv, UuidInv, NEW p \in Request, QueryError(p) \/ CommitUnacked(p)
  PROVE  KeepsTables /\ KeepsHeld
<1>1. /\ RequestTypeOK /\ LocalInv(p) /\ NamesUser(ctx[p].role)
      /\ pc[p] \in HasAccount => Bound(ctx[p].user, args[p].email)
  BY DEF TypeInv, TypeOK, UuidInv, TokenInv, CacheInv
<1>2. /\ issued' = issued /\ defaultUserRoleID' = defaultUserRoleID /\ ctx' = ctx
  BY DEF QueryError, QueryFails, MissingTable, OnQueryError, CommitUnacked,
         processVars
<1>3. CASE QueryError(p)
  <2>1. OnQueryError(p) /\ UNCHANGED dbVars
    BY <1>3 DEF QueryError, QueryFails, MissingTable
  <2>2. \/ pc[p] = "reg_role_lookup" /\ Goto(p, "issue")
        \/ Goto(p, "ca_create")
        \/ \E code : Respond(p, code)
    BY <2>1 DEF OnQueryError, Swallowed
  <2> QED
    BY <1>1, <1>2, <2>1, <2>2, TablesUnchanged, GotoHolds, RespondHolds
       DEF HasAccount
<1>4. CASE CommitUnacked(p)
  <2>1. KeepsHeld
    BY <1>1, <1>2, <1>4, RespondHolds DEF CommitUnacked, AnswerLost
  <2>2. CASE AtQuery(p, "reg_create") /\
             \E ids \in NewIds({args[p].email}, UserId) :
               CreateUser(ids, args[p].approved_id, args[p].email,
                          GenerateFromPassword(args[p].password))
    BY <2>2, CreateUserKeeps, <2>1
  <2>3. CASE AtQuery(p, "reg_assign") /\ AssignRole(ctx[p].user, ctx[p].role)
    <3>1. ctx[p].role # NULL
      BY <1>1, <2>3, NullAssumption DEF AtQuery, LocalInv
    <3> QED
      BY <1>1, <2>1, <2>3, <3>1, AssignRoleKeeps
  <2>4. CASE InsertApproved(p) \/ DeleteApprovedUser(args[p].approved_id)
    BY <2>1, <2>4, WhitelistKeeps DEF InsertApproved
  <2> QED
    BY <1>4, <2>2, <2>3, <2>4 DEF CommitUnacked, AuthWrite
<1> QED
  BY <1>3, <1>4

LEMMA EnvironmentKeeps ==
  ASSUME TypeInv, UuidInv, Environment
  PROVE  KeepsTables /\ KeepsHeld
<1>1. ASSUME NEW r \in Replica, StartServer(r)
      PROVE  KeepsTables /\ KeepsHeld
  <2>1. \A u \in GetRoleByName("user") : NamesUser(u.id)
    BY DEF GetRoleByName, NamesUser, UuidInv, CacheInv
  <2>2. \/ defaultUserRoleID' = defaultUserRoleID
        \/ \E u \in GetRoleByName("user") :
             defaultUserRoleID' = [defaultUserRoleID EXCEPT ![r] = u.id]
    BY <1>1 DEF StartServer, InitDefaultRoles
  <2>3. \A s \in Replica : NamesUser(defaultUserRoleID'[s])
    BY <2>1, <2>2 DEF TypeInv, TypeOK, AuthTypeOK, UuidInv, CacheInv
  <2>4. KeepsHeld
    BY <1>1, <2>3 DEF StartServer, reqVars, UuidInv, TokenInv, CacheInv, KeepsHeld
  <2> QED
    BY <1>1, <2>4, TablesUnchanged DEF StartServer
<1>2. ASSUME NEW r \in Replica, Restart(r)
      PROVE  KeepsTables /\ KeepsHeld
  <2>1. NamesUser(NULL) /\ NoContext.role = NULL /\ "idle" \notin HasAccount
    BY DEF NamesUser, NoContext, HasAccount
  <2>2. \A s \in Replica : NamesUser(defaultUserRoleID'[s])
    BY <1>2, <2>1 DEF Restart, TypeInv, TypeOK, AuthTypeOK, UuidInv, CacheInv
  <2>3. \A q \in Request : \/ pc'[q] = pc[q] /\ ctx'[q] = ctx[q]
                           \/ pc'[q] = "idle" /\ ctx'[q] = NoContext
    BY <1>2 DEF Restart
  <2>4. args' = args /\ issued' = issued /\ UNCHANGED dbVars
    BY <1>2 DEF Restart
  <2>5. KeepsHeld
    BY <2>1, <2>2, <2>3, <2>4 DEF UuidInv, TokenInv, CacheInv, KeepsHeld
  <2> QED
    BY <2>4, <2>5, TablesUnchanged
<1>3. CASE Tick
  BY <1>3, TablesUnchanged, HeldUnchanged DEF Tick, processVars
<1>4. CASE Deactivate \/ SetPassword
  <2>1. KeepsHeld
    BY <1>4, HeldUnchanged DEF Deactivate, SetPassword, processVars
  <2> QED
    BY <1>4, <2>1, WhitelistKeeps DEF Deactivate, SetPassword
<1>5. CASE Migrate
  BY <1>5, MigrateKeeps, HeldUnchanged DEF Migrate, processVars
<1> QED
  BY <1>1, <1>2, <1>3, <1>4, <1>5 DEF Environment

-----------------------------------------------------------------------------
LEMMA UuidInvInit == Init => UuidInv
BY DEF Init, InitDb, InitRequests, UuidInv, TokenInv, CacheInv, AdminInv,
       NamesUser, NoContext, HasAccount

LEMMA UuidInvNext == TypeInv /\ UuidInv /\ [Next]_vars => UuidInv'
<1> SUFFICES ASSUME TypeInv, UuidInv, [Next]_vars PROVE UuidInv'
  OBVIOUS
<1>1. ASSUME NEW p \in Request, AuthRequest(p)
      PROVE  UuidInv'
  <2>1. RequestTypeOK /\ UNCHANGED dbVars
    BY <1>1 DEF TypeInv, TypeOK, AuthRequest
  <2> QED
    BY <1>1, <2>1, BeginHolds, TablesUnchanged, UuidStep
<1>2. ASSUME NEW p \in Request, AuthStep(p)
      PROVE  UuidInv'
  BY <1>2, RegisterKeeps, LoginKeeps, ProtectedKeeps, FaultKeeps, UuidStep
     DEF AuthStep
<1>3. CASE Environment
  BY <1>3, EnvironmentKeeps, UuidStep
<1>4. CASE UNCHANGED vars
  BY <1>4, TablesUnchanged, HeldUnchanged, UuidStep DEF vars, processVars
<1> QED
  BY <1>1, <1>2, <1>3, <1>4 DEF Next

(* What every uuid outside its own table names, at any time. *)
THEOREM UuidsKeepTheirMeaning == Spec => []UuidInv
BY TypeInvInit, TypeInvNext, UuidInvInit, UuidInvNext, PTL DEF Spec

(* A token opens no account but the one it was signed for: not after the   *)
(* account was cascaded away and its email registered again, not after a   *)
(* down migration and a new seed, not when Register lost a race.           *)
THEOREM TokensBound == Spec => []TokenBinding
<1>1. UuidInv => TokenBinding
  BY DEF UuidInv, TokenInv, Bound, TokenBinding
<1> QED
  BY <1>1, UuidsKeepTheirMeaning, PTL

(* The role cache, which is never invalidated, and every Register that has *)
(* read it hold the id of role "user" or of no role.                       *)
THEOREM CacheCorrect == Spec => []CacheNamesUser
<1>1. TypeInv /\ UuidInv => CacheNamesUser
  <2> SUFFICES ASSUME TypeInv, UuidInv, NEW x \in roles, x.name # "user"
               PROVE  /\ \A r \in Replica : defaultUserRoleID[r] # x.id
                      /\ \A p \in Request : ctx[p].role # x.id
    BY DEF CacheNamesUser
  <2>1. x.id # NULL
    BY NullAssumption DEF TypeInv, TypeOK, DbTypeOK, RoleRow
  <2> QED
    BY <2>1 DEF UuidInv, CacheInv, NamesUser
<1> QED
  BY <1>1, TypeInvInit, TypeInvNext, UuidInvInit, UuidInvNext, PTL DEF Spec

(* No registration, stale cache or re-seeding gives an account other than  *)
(* the one under the seed's admin address the role "admin".                *)
THEOREM OnlyTheSeedAdmin == Spec => []OnlySeedAdmin
<1>1. UuidInv => OnlySeedAdmin
  BY DEF UuidInv, AdminInv, Bound, RoleNames, OnlySeedAdmin
<1> QED
  BY <1>1, UuidsKeepTheirMeaning, PTL


=============================================================================
