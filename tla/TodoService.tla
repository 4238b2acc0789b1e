---------------------------- MODULE TodoService ----------------------------
(***************************************************************************)
(* internal/todo: the handlers behind RequireAuth.  Update and Delete read *)
(* the row to check its owner and then write by id alone; between the two  *)
(* statements other requests may change or delete that row.                *)
(***************************************************************************)
EXTENDS Middleware

CONSTANTS NewTodos,   \* the bodies clients POST
          Patches     \* the bodies clients PATCH; NULL: field absent

ASSUME TodoAssumption ==
    /\ NewTodos \subseteq [title : Title, description : Description \cup {NULL},
                           due_date : DueDate \cup {NULL}]
    /\ Patches \subseteq [title : Title \cup {NULL},
                          description : Description \cup {NULL},
                          is_completed : BOOLEAN \cup {NULL},
                          due_date : DueDate \cup {NULL}]

TodoVars == <<dbVars, issued, migrationVars, now, faults, serving>>

-----------------------------------------------------------------------------
(* Arrival of a request. *)

(* The pool of todo uuids outlasts the samples and the requests in flight. *)
TodoIdsLeft ==
    Cardinality(Fresh(TodoId))
      - Cardinality({p \in Request : /\ args[p].op = "CreateTodo"
                                     /\ pc[p] \notin Waiting})
      - (IF level < 6 THEN Cardinality(SampleTitle) ELSE 0)

ListTodos(p) ==
    \E t \in Presented : Begin(p, [NoInput("ListTodos") EXCEPT !.token = t])

CreateTodoBody(p) ==
    /\ TodoIdsLeft > 0
    /\ \E t \in Presented, n \in NewTodos, b \in BodyErr :
         Begin(p, [NoInput("CreateTodo") EXCEPT
                     !.token = t, !.body = b, !.title = n.title,
                     !.description = n.description, !.due_date = n.due_date])

GetTodo(p) ==
    \E t \in Presented, id \in TodoId :
      Begin(p, [NoInput("GetTodo") EXCEPT !.token = t, !.todo_id = id])

UpdateTodo(p) ==
    \E t \in Presented, id \in TodoId, c \in Patches, b \in BodyErr :
      Begin(p, [NoInput("UpdateTodo") EXCEPT
                  !.token = t, !.todo_id = id, !.body = b, !.title = c.title,
                  !.description = c.description,
                  !.is_completed = c.is_completed, !.due_date = c.due_date])

DeleteTodoById(p) ==
    \E t \in Presented, id \in TodoId :
      Begin(p, [NoInput("DeleteTodo") EXCEPT !.token = t, !.todo_id = id])

TodoRequest(p) ==
    /\ \/ ListTodos(p) \/ CreateTodoBody(p) \/ GetTodo(p)
       \/ UpdateTodo(p) \/ DeleteTodoById(p)
    /\ UNCHANGED TodoVars

-----------------------------------------------------------------------------
(* The handlers *)

ListTodosByUserID(p) ==
    /\ AtQuery(p, "td_list")
    /\ Respond(p, 200)
    /\ UNCHANGED <<ctx, TodoVars>>

OwnedTodoUnchecked(p) == GetTodoByID(args[p].todo_id)   \* mutant: any owner

(* The row if it exists and belongs to the caller; else 404 either way. *)
OwnedTodo(p) == {t \in GetTodoByID(args[p].todo_id) : t.user_id = ctx[p].user}

GetByID(p) ==
    /\ AtQuery(p, "td_get")
    /\ Respond(p, IF OwnedTodo(p) # {} THEN 200 ELSE 404)
    /\ UNCHANGED <<ctx, TodoVars>>

CheckOwner(p, lookup, write) ==
    /\ AtQuery(p, lookup)
    /\ IF OwnedTodo(p) # {} THEN Goto(p, write) ELSE Respond(p, 404)
    /\ UNCHANGED <<ctx, TodoVars>>

InsertTodo(p) ==
    \E ids \in NewIds({args[p].title}, TodoId) :
      CreateTodo(ids, ctx[p].user, args[p].title, args[p].description,
                 args[p].due_date)

Create(p) ==
    /\ AtQuery(p, "td_create")
    /\ InsertTodo(p)
    /\ Respond(p, 201)
    /\ UNCHANGED <<ctx, issued, migrationVars, now, faults, serving>>

(* The caller's account is gone: the foreign key refuses the row. *)
CreateRefused(p) ==
    /\ AtQuery(p, "td_create")
    /\ CreateTodoRefused(ctx[p].user)
    /\ Respond(p, 500)
    /\ UNCHANGED <<ctx, TodoVars>>

(* UPDATE ... RETURNING yields no row when the todo is gone: a bare        *)
(* ErrNoRows, which the handler answers with 500.                          *)
Update(p) ==
    /\ AtQuery(p, "upd_write")
    /\ UpdateTodoPartial(args[p].todo_id, args[p])
    /\ Respond(p, IF GetTodoByID(args[p].todo_id) # {} THEN 200 ELSE 500)
    /\ UNCHANGED <<ctx, issued, migrationVars, now, faults, serving>>

(* DELETE of a missing row is no error. *)
Delete(p) ==
    /\ AtQuery(p, "del_write")
    /\ DeleteTodo(args[p].todo_id)
    /\ Respond(p, 204)
    /\ UNCHANGED <<ctx, issued, migrationVars, now, faults, serving>>

TodoWrite(p) ==
    \/ AtQuery(p, "td_create") /\ InsertTodo(p)
    \/ AtQuery(p, "upd_write") /\ UpdateTodoPartial(args[p].todo_id, args[p])
    \/ AtQuery(p, "del_write") /\ DeleteTodo(args[p].todo_id)

TodoUnacked(p) ==
    /\ TodoWrite(p)
    /\ AnswerLost(p)
    /\ UNCHANGED <<ctx, issued, migrationVars, now, serving>>

TodoStep(p) ==
    \/ ListTodosByUserID(p) \/ GetByID(p)
    \/ CheckOwner(p, "upd_lookup", "upd_write")
    \/ CheckOwner(p, "del_lookup", "del_write")
    \/ Create(p) \/ CreateRefused(p) \/ Update(p) \/ Delete(p)
    \/ TodoUnacked(p)

=============================================================================
