------------------------------ MODULE Registry ------------------------------
(***************************************************************************)
(* What POST /auth/register promises its clients: registration is one      *)
(* atomic operation on the whitelist and the accounts.  A request takes    *)
(* effect at a single moment between its arrival and its answer, or not at *)
(* all; what it is answered tells which, and why.  Only when the database  *)
(* is in trouble (a failed statement, tables missing or rolled back) may a *)
(* request end in an error that says nothing about its effect.             *)
(***************************************************************************)
CONSTANTS Client,     \* the connections, each with one request at a time
          None        \* no email, entry or account

VARIABLES whitelist,  \* the entries one may register with
          accounts,   \* the accounts: id, email, entry
          call,       \* per connection: the registration it carries
          trouble     \* the database has failed or is being migrated

registryVars == <<whitelist, accounts, call, trouble>>

NoCall == [state |-> "none", email |-> None, entry |-> None, account |-> None,
           answer |-> 0]
Applied(c, account) ==
    [state |-> "applied", email |-> c.email, entry |-> c.entry, account |-> account,
     answer |-> 0]
Answered(account, answer) ==
    [state |-> "answered", email |-> None, entry |-> None, account |-> account,
     answer |-> answer]

Emails(as) == {a.email : a \in as}
Ids(as) == {a.id : a \in as}

Init ==
    /\ whitelist = {} /\ accounts = {}
    /\ call = [c \in Client |-> NoCall]
    /\ trouble = TRUE   \* nothing is migrated yet

-----------------------------------------------------------------------------
Finish(c, answer) ==
    call' = [call EXCEPT ![c] = Answered(call[c].account, answer)]

(* A request arrives, with an email and a whitelist entry. *)
Arrive(c) ==
    /\ call[c].state \in {"none", "answered"}
    /\ call'[c].state = "pending"
    /\ call'[c].account = None /\ call'[c].answer = 0
    /\ call' = [call EXCEPT ![c] = call'[c]]
    /\ UNCHANGED <<whitelist, accounts, trouble>>

(* The body is not valid: no effect. *)
Reject(c) ==
    /\ call[c].state \in {"none", "answered"}
    /\ \E answer \in {400, 413} :
         call' = [call EXCEPT ![c] = Answered(None, answer)]
    /\ UNCHANGED <<whitelist, accounts, trouble>>

(* The one moment at which a registration takes effect. *)
TakeEffect(c) ==
    /\ call[c].state = "pending"
    /\ call[c].entry \in whitelist
    /\ call[c].email \notin Emails(accounts)
    /\ \E a \in accounts' \ accounts :
         /\ a.id \notin Ids(accounts)
         /\ a.email = call[c].email /\ a.entry = call[c].entry
         /\ accounts' = accounts \cup {a}
         /\ \/ /\ call' = [call EXCEPT ![c] = Applied(call[c], a.id)]
               /\ UNCHANGED trouble
            \/ /\ Finish(c, 500)   \* the acknowledgement was lost
               /\ trouble'
    /\ UNCHANGED whitelist

(* 404 and 409 say why there is no account; 500 only that there is none. *)
Refuse(c) ==
    /\ call[c].state = "pending"
    /\ \/ call[c].entry \notin whitelist /\ Finish(c, 404)
       \/ call[c].email \in Emails(accounts) /\ Finish(c, 409)
       \/ /\ call[c].entry \notin whitelist \/ call[c].email \in Emails(accounts)
          /\ Finish(c, 500)
    /\ UNCHANGED <<whitelist, accounts, trouble>>

(* 201: this very request has created the account. *)
Confirm(c) ==
    /\ call[c].state = "applied"
    /\ Finish(c, 201)
    /\ UNCHANGED <<whitelist, accounts, trouble>>

(* An account that is gone again before its request is answered. *)
Revoked(c) ==
    /\ call[c].state = "applied"
    /\ call[c].account \notin Ids(accounts)
    /\ Finish(c, 500)
    /\ UNCHANGED <<whitelist, accounts, trouble>>

(* In trouble, 500 leaves open whether the account exists. *)
Fail(c) ==
    /\ call[c].state \in {"pending", "applied"}
    /\ trouble'
    /\ Finish(c, 500)
    /\ UNCHANGED <<whitelist, accounts>>

(* The connection turns to something else. *)
Forget(c) ==
    /\ call[c].state = "answered"
    /\ call' = [call EXCEPT ![c] = NoCall]
    /\ UNCHANGED <<whitelist, accounts, trouble>>

-----------------------------------------------------------------------------
(* Everybody else. *)

(* The server goes down with some of the requests it is serving. *)
Abandon ==
    /\ \A c \in Client : \/ call'[c] = call[c]
                         \/ call[c].state \in {"pending", "applied"} /\ call'[c] = NoCall
    /\ call' = [c \in Client |-> call'[c]]
    /\ UNCHANGED <<whitelist, accounts, trouble>>

Approve ==
    /\ whitelist \subseteq whitelist'
    /\ trouble => trouble'
    /\ UNCHANGED <<accounts, call>>

(* An entry goes with every account that was registered with it. *)
Remove ==
    /\ \E entry \in whitelist :
         /\ whitelist' = whitelist \ {entry}
         /\ accounts' = {a \in accounts : a.entry # entry}
    /\ trouble => trouble'
    /\ UNCHANGED call

StartTrouble ==
    /\ trouble'
    /\ UNCHANGED <<whitelist, accounts, call>>

(* Migrations may do anything to the data, but not to a request. *)
Migrate ==
    /\ trouble
    /\ UNCHANGED call

Next ==
    \/ \E c \in Client :
         \/ Arrive(c) \/ Reject(c) \/ TakeEffect(c) \/ Refuse(c) \/ Confirm(c)
         \/ Revoked(c) \/ Fail(c) \/ Forget(c)
    \/ Abandon \/ Approve \/ Remove \/ StartTrouble \/ Migrate

Spec == Init /\ [][Next]_registryVars

=============================================================================
