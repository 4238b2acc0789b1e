--------------------------- MODULE AuthRefinement ---------------------------
(***************************************************************************)
(* The handlers of AuthService implement Registry: the several statements  *)
(* of Register, interleaved with everything else, look to its clients like *)
(* one atomic step, which is the commit of CreateUser.                     *)
(***************************************************************************)
EXTENDS AuthService

(* The registration a connection carries, read off its goroutine. *)
CallState(p) ==
    IF args[p].op # "RegisterUser" THEN "none"
    ELSE CASE pc[p] = "idle" -> "none"
           [] pc[p] = "done" -> "answered"
           [] pc[p] \in HasAccount -> "applied"
           [] OTHER -> "pending"

Call(p) ==
    LET state == CallState(p)
    IN  [state |-> state,
         email |-> IF state \in {"pending", "applied"} THEN args[p].email ELSE NULL,
         entry |-> IF state \in {"pending", "applied"} THEN args[p].approved_id
                                                       ELSE NULL,
         account |-> IF state = "none" THEN NULL ELSE ctx[p].user,
         answer |-> IF state = "answered" THEN status[p] ELSE 0]

Account(u) == [id |-> u.id, email |-> u.email, entry |-> u.approved_user_id]

Whitelist == {a.id : a \in approved_users}
Accounts == {Account(u) : u \in users}
Calls == [p \in Request |-> Call(p)]
Trouble == faults > 0 \/ rollbacks > 0 \/ level < 6

AtomicRegistry == INSTANCE Registry WITH
    Client <- Request, None <- NULL,
    whitelist <- Whitelist, accounts <- Accounts, call <- Calls, trouble <- Trouble

(* A client of Register sees one atomic operation, although the lookup of  *)
(* the entry, the lookup of the email, the INSERT and the role assignment  *)
(* are separate statements that other requests, deletes and migrations     *)
(* come between: 201 is answered only by the request that created the      *)
(* account, 404 and 409 only if there was a moment during the request when *)
(* that answer was right, and without trouble 500 means there is no        *)
(* account of this request.                                                *)
RegisterIsAtomic == AtomicRegistry!Spec

=============================================================================
