----------------------------- MODULE MCAccounts -----------------------------
(***************************************************************************)
(* An administrator, a user, three e-mails and three requests.             *)
(***************************************************************************)
EXTENDS AccountsProperties

CONSTANTS r1, r2, r3, a, b, e1, e2, e3

MCRequests == {r1, r2, r3}
MCEmails == {e1, e2, e3}
MCUsers == {a, b}
MCUser == [u \in MCUsers |->
    IF u = a THEN [email |-> e1, role |-> "admin", is_active |-> TRUE]
             ELSE [email |-> e2, role |-> "user", is_active |-> TRUE]]

Set(user, data) == [op |-> "update_user", user |-> user, data |-> data]

\* A newcomer, a promotion by the script and by an administrator, the end of the
\* administrator's role, an exchange of e-mails, and the newcomer's e-mail.
MCInputs ==
    {[op |-> "signup", email |-> e3], [op |-> "create_admin", email |-> e2],
     Set(b, [role |-> "admin"]), Set(a, [role |-> "user"]),
     Set(a, [email |-> e2]), Set(b, [email |-> e1]),
     Set(a, [email |-> e3])}
=============================================================================
