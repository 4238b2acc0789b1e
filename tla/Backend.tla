------------------------------ MODULE Backend ------------------------------
(***************************************************************************)
(* The whole API over one database: the auth and todo handlers of every    *)
(* connection interleave, with restarts, faults, migrations and the clock  *)
(* of AuthService around them.                                             *)
(***************************************************************************)
EXTENDS AuthService, TodoService

BackendStep(p) ==
    \/ AuthStep(p)
    \/ TodoStep(p) /\ UNCHANGED <<defaultUserRoleID, restarts>>

BackendNext ==
    \/ \E p \in Request :
         \/ AuthRequest(p) \/ BackendStep(p)
         \/ TodoRequest(p) /\ UNCHANGED <<defaultUserRoleID, restarts>>
    \/ Environment

BackendSpec == Init /\ [][BackendNext]_vars

-----------------------------------------------------------------------------
(* Properties *)

(* A todo changes or disappears only in a step of a request that its owner *)
(* sent for it, or together with the owner's account: the ownership check  *)
(* made in one statement still covers the write of the next one, although  *)
(* that write names the row by id alone (migrations aside).                *)
OwnerOnly ==
    [][rollbacks = 0 =>
         \A t \in todos \ todos' :
           \/ \A u \in users' : u.id # t.user_id
           \/ \E p \in Request :
                /\ pc[p] \in {"upd_write", "del_write"} /\ pc'[p] = "done"
                /\ ctx[p].user = t.user_id
                /\ args[p].todo_id = t.id]_vars

(* Two PATCHes of one todo never undo each other: a column changes only to *)
(* a value that the request being executed carries, a field that is absent *)
(* from its body changes nothing, and the owner stays.                     *)
PatchKeepsOthers ==
    [][\A t \in todos, s \in todos' : t.id = s.id =>
         /\ s.user_id = t.user_id
         /\ \A column \in {"title", "description", "is_completed", "due_date"} :
              s[column] # t[column] =>
                \E p \in Request : /\ pc[p] = "upd_write" /\ pc'[p] = "done"
                                   /\ args[p][column] # NULL
                                   /\ args[p][column] = s[column]]_vars

(* A deleted todo stays deleted: a PATCH that passed its ownership check   *)
(* before the DELETE does not bring the row back.                          *)
NoResurrection ==
    [][\A s \in todos' : (\A t \in todos : t.id # s.id) => s.id \notin used]_vars

(* docs/api.md, of PATCH: "404 - Todo not found or not owned by user". *)
GoneTodoIs404 ==
    [][\A p \in Request :
         /\ pc[p] \in {"upd_lookup", "upd_write"}
         /\ pc'[p] = "done"
         /\ GetTodoByID(args[p].todo_id) = {}
         => status'[p] = 404]_vars

=============================================================================
