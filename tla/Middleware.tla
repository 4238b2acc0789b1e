----------------------------- MODULE Middleware -----------------------------
(***************************************************************************)
(* A request on its way through the router: the goroutine that serves it,  *)
(* the answer it gives, and the RequireAuth / RequireAdmin middleware in   *)
(* front of the protected handlers.  Request is a set of connections, each *)
(* to one replica of the API; every connection carries one request at a    *)
(* time.  pc[p] names the next statement the goroutine executes, which is  *)
(* one query or one access to shared memory, args[p] holds what the client   *)
(* sent, ctx[p] the locals the goroutine keeps between two statements.     *)
(***************************************************************************)
EXTENDS Migrations, FiniteSets

CONSTANTS
    Request, Replica, Home,    \* connections, replicas, who serves whom
    Ops,                       \* the operations clients invoke in this instance
    BodyErr,                   \* what decoding and validation may answer; 0: fine
    JwtExpiry,                 \* JWT_EXPIRE_MINUTES in clock ticks
    ServeFrom,                 \* the migration level from which replicas start
    MaxTime, MaxFaults         \* bounds: clock, failed statements

VARIABLES
    pc, args, ctx, status,       \* per connection
    issued,                    \* every token the API has signed
    now,                       \* the clock
    faults,                    \* statements that failed so far
    serving                    \* replicas whose listener accepts requests

reqVars == <<pc, args, ctx, status>>

PublicOp == {"RegisterUser", "LoginUser"}
AdminOp == {"ListApprovedUsers", "CreateApprovedUser",
            "BulkCreateApprovedUsers", "DeleteApprovedUser"}
UserOp == {"GetCurrentUser", "ListTodos", "CreateTodo", "GetTodo",
           "UpdateTodo", "DeleteTodo"}

ASSUME RequestAssumption ==
    /\ Home \in [Request -> Replica]
    /\ Ops \subseteq PublicOp \cup AdminOp \cup UserOp
    /\ BodyErr \subseteq {0, 400, 413}
    /\ JwtExpiry \in Nat /\ ServeFrom \in 0..6
    /\ MaxTime \in Nat /\ MaxFaults \in Nat

-----------------------------------------------------------------------------
(* The first statement of each handler. *)
Entry == [RegisterUser |-> "reg_exists", LoginUser |-> "login_lookup",
          ListApprovedUsers |-> "ap_list", CreateApprovedUser |-> "ca_lookup",
          BulkCreateApprovedUsers |-> "ap_bulk",
          DeleteApprovedUser |-> "ap_delete", GetCurrentUser |-> "me",
          ListTodos |-> "td_list", CreateTodo |-> "td_create",
          GetTodo |-> "td_get", UpdateTodo |-> "upd_lookup",
          DeleteTodo |-> "del_lookup"]

(* The queries, each with the migration level that creates its tables. *)
Needs == [reg_exists |-> 1, reg_lookup |-> 2, reg_create |-> 2,
          reg_role_lookup |-> 3, reg_assign |-> 4, login_lookup |-> 2,
          auth_user |-> 4, ap_list |-> 1, ca_lookup |-> 1, ca_create |-> 1,
          ap_bulk |-> 1, ap_delete |-> 1, td_list |-> 5, td_create |-> 5,
          td_get |-> 5, upd_lookup |-> 5, upd_write |-> 5, del_lookup |-> 5,
          del_write |-> 5]

Query == DOMAIN Needs
Waiting == {"idle", "done"}
Label == Query \cup Waiting \cup {"auth", "me", "reg_role", "reg_role_store", "issue"}

Token == [user_id : UserId, email : Email, exp : Nat]

Input == [op : PublicOp \cup AdminOp \cup UserOp, body : {0, 400, 413},
          token : Token \cup {NULL},
          email : Email \cup {NULL}, password : Password \cup {NULL},
          approved_id : ApprovedId \cup {NULL}, emails : Seq(Email),
          todo_id : TodoId \cup {NULL}, title : Title \cup {NULL},
          description : Description \cup {NULL},
          is_completed : BOOLEAN \cup {NULL}, due_date : DueDate \cup {NULL}]

Context == [user : UserId \cup {NULL}, creator : ApprovedId \cup {NULL},
            role : RoleId \cup {NULL}]

Status == {0, 200, 201, 204, 400, 401, 403, 404, 409, 413, 500}

NoInput(op) == [op |-> op, body |-> 0, token |-> NULL, email |-> NULL,
                password |-> NULL, approved_id |-> NULL, emails |-> <<>>,
                todo_id |-> NULL, title |-> NULL, description |-> NULL,
                is_completed |-> NULL, due_date |-> NULL]
NoContext == [user |-> NULL, creator |-> NULL, role |-> NULL]

RequestTypeOK ==
    /\ pc \in [Request -> Label]
    /\ args \in [Request -> Input]
    /\ ctx \in [Request -> Context]
    /\ status \in [Request -> Status]
    /\ issued \subseteq Token
    /\ now \in 0..MaxTime
    /\ faults \in 0..MaxFaults
    /\ serving \subseteq Replica

InitRequests ==
    /\ pc = [p \in Request |-> "idle"]
    /\ args = [p \in Request |-> NoInput("GetCurrentUser")]
    /\ ctx = [p \in Request |-> NoContext]
    /\ status = [p \in Request |-> 0]
    /\ issued = {} /\ now = 0 /\ faults = 0 /\ serving = {}

-----------------------------------------------------------------------------
Goto(p, label) ==
    /\ pc' = [pc EXCEPT ![p] = label]
    /\ UNCHANGED <<args, status>>

(* Once answered, what the client sent is forgotten, but for the operation. *)
Respond(p, code) ==
    /\ pc' = [pc EXCEPT ![p] = "done"]
    /\ status' = [status EXCEPT ![p] = code]
    /\ args' = [args EXCEPT ![p] = NoInput(args[p].op)]

(* The router hands a request to its handler, or to the middleware first. *)
Begin(p, input) ==
    /\ input.op \in Ops
    /\ pc[p] \in Waiting
    /\ Home[p] \in serving
    /\ pc' = [pc EXCEPT ![p] =
                IF input.op \in PublicOp THEN Entry[input.op] ELSE "auth"]
    /\ args' = [args EXCEPT ![p] = input]
    /\ ctx' = [ctx EXCEPT ![p] = NoContext]
    /\ status' = [status EXCEPT ![p] = 0]

(* The OpenAPI validator, or the handler of a public route, rejects the    *)
(* body before any statement runs.                                         *)
RejectInput(p) ==
    /\ pc[p] \in Waiting
    /\ Home[p] \in serving
    /\ \E op \in Ops, code \in BodyErr \ {0} :
         /\ op \notin PublicOp => code = 400
         /\ args' = [args EXCEPT ![p] = NoInput(op)]
         /\ status' = [status EXCEPT ![p] = code]
    /\ pc' = [pc EXCEPT ![p] = "done"]
    /\ ctx' = [ctx EXCEPT ![p] = NoContext]

(* The tokens a client can present; NULL stands for no token and for one   *)
(* that the signature check refuses.                                       *)
Presented == issued \cup {NULL}

-----------------------------------------------------------------------------
(* The query p is about to execute finds its tables. *)
AtQuery(p, label) == pc[p] = label /\ level >= Needs[label]

(* jwt.Parse: signature, algorithm and expiry. *)
ParseToken(p) ==
    /\ pc[p] = "auth"
    /\ UNCHANGED ctx
    /\ IF args[p].token # NULL /\ now < args[p].token.exp
         THEN Goto(p, "auth_user")
         ELSE Respond(p, 401)

(* GetUserWithRolesAndApproved, then the is_active test. *)
GetUserFromToken(p) == {u \in GetUserByID(args[p].token.user_id) : u.is_active}

Unauthorized(p) ==
    /\ AtQuery(p, "auth_user")
    /\ GetUserFromToken(p) = {}
    /\ Respond(p, 401)
    /\ UNCHANGED ctx

(* RequireAdmin: HasRole("admin") on the roles the query returned. *)
MayPass(p, u) == args[p].op \in AdminOp => "admin" \in RoleNames(u.id)

Forbidden(p) ==
    /\ AtQuery(p, "auth_user")
    /\ \E u \in GetUserFromToken(p) : ~MayPass(p, u)
    /\ Respond(p, 403)
    /\ UNCHANGED ctx

(* The user goes into the request context; the handler then decodes and    *)
(* validates the body before its first statement.                          *)
Admit(p) ==
    /\ AtQuery(p, "auth_user")
    /\ \E u \in GetUserFromToken(p) :
         /\ MayPass(p, u)
         /\ ctx' = [ctx EXCEPT ![p].user = u.id,
                               ![p].creator = u.approved_user_id]
    /\ IF args[p].body = 0 THEN Goto(p, Entry[args[p].op])
                         ELSE Respond(p, args[p].body)

-----------------------------------------------------------------------------
(* What a handler does when a query returns an error other than "no rows": *)
(* most answer 500; RequireAuth and Login answer 401 and a todo lookup 404 *)
(* whatever the error; two lookups ignore it and go on.                    *)
ErrorStatus(label) ==
    CASE label \in {"auth_user", "login_lookup"} -> 401
      [] label \in {"td_get", "upd_lookup", "del_lookup"} -> 404
      [] OTHER -> 500

Swallowed == [reg_role_lookup |-> "issue", ca_lookup |-> "ca_create"]

OnQueryError(p) ==
    /\ pc[p] \in Query
    /\ UNCHANGED ctx
    /\ IF pc[p] \in DOMAIN Swallowed THEN Goto(p, Swallowed[pc[p]])
                                     ELSE Respond(p, ErrorStatus(pc[p]))

(* A lost connection, an expired request timeout, a client that went away. *)
QueryFails(p) ==
    /\ faults < MaxFaults
    /\ faults' = faults + 1
    /\ OnQueryError(p)

(* A write commits and its acknowledgement is lost: the handler sees an error. *)
AnswerLost(p) ==
    /\ faults < MaxFaults
    /\ faults' = faults + 1
    /\ Respond(p, 500)

(* The table does not exist (yet, or any more). *)
MissingTable(p) ==
    /\ pc[p] \in Query
    /\ level < Needs[pc[p]]
    /\ OnQueryError(p)
    /\ UNCHANGED faults

=============================================================================
