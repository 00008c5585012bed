------------------------------ MODULE Accounts ------------------------------
(***************************************************************************)
(* Accounts and roles: sign-up, login, the PATCH of a user by an           *)
(* administrator, and the script create_admin.  Each transaction runs at   *)
(* READ COMMITTED and every statement is a step.                           *)
(*                                                                         *)
(* A token is what create_token encodes; passwords, and e-mails as data of *)
(* a token, are left out.  As in Catalog, the id of a user is the request  *)
(* that inserts it, an UPDATE waits for another one of its row, and an     *)
(* e-mail for the transactions that have written a row with it; a circle   *)
(* of such waits is broken by PostgreSQL, which aborts a transaction.      *)
(***************************************************************************)
EXTENDS Patch

CONSTANTS
    Requests,
    Inputs,         \* the requests that may come in
    Emails,
    Clients,        \* bound: the users who log in
    GivenUsers,     \* the users there at the start, and
    GivenUser,      \*   the row of each
    NoRow,          \* a row that is not there
    NoOne,          \* no user, no token
    NoInput

Users == Requests \cup GivenUsers
UserRole == {"user", "admin"}
User == [email : Emails, role : UserRole, is_active : BOOLEAN]
Token == [sub : Users, role : UserRole]

\* Any of the three fields, or none.  An explicit null is refused by the column, as in
\* Catalog, and left out here.
UserUpdate ==
    {<<>>} \cup [email : Emails] \cup [role : UserRole] \cup [is_active : BOOLEAN]
        \cup [email : Emails, role : UserRole] \cup [email : Emails, is_active : BOOLEAN]
        \cup [role : UserRole, is_active : BOOLEAN]
        \cup [email : Emails, role : UserRole, is_active : BOOLEAN]

Input ==
    [op : {"signup", "create_admin"}, email : Emails]
        \cup [op : {"update_user"}, user : Users, data : UserUpdate]

ASSUME AccountsAssumption ==
    /\ Inputs \subseteq Input
    /\ GivenUser \in [GivenUsers -> User]
    /\ \A u, v \in GivenUsers : GivenUser[u].email = GivenUser[v].email => u = v
    /\ Requests \cap GivenUsers = {}
    /\ Clients \subseteq Users
    /\ NoRow \notin User
    /\ NoOne \notin Users \cup Token
    /\ NoInput \notin Input

VARIABLES
    pc,             \* pc[r]: the statement at which request r stands
    input,          \* input[r]: its body
    token,          \* token[r]: the token that came with it
    target,         \* target[r]: the user it has loaded to write to
    loaded,         \* loaded[r]: the row as it was loaded
    outcome,        \* outcome[r]: what became of its transaction
    tokens,         \* the tokens issued
    users           \* the committed rows

vars == <<pc, input, token, target, loaded, outcome, tokens, users>>

TypeOK ==
    /\ pc \in [Requests -> {"idle", "auth", "load", "check", "insert", "update",
                            "index", "commit", "ended"}]
    /\ input \in [Requests -> Inputs \cup {NoInput}]
    /\ token \in [Requests -> tokens \cup {NoOne}]
    /\ target \in [Requests -> Users \cup {NoOne}]
    /\ loaded \in [Requests -> User \cup {NoRow}]
    /\ outcome \in [Requests -> {"none", "committed", "undone"}]
    /\ tokens \subseteq Token
    /\ users \in [Users -> User \cup {NoRow}]

Init ==
    /\ pc = [r \in Requests |-> "idle"]
    /\ input = [r \in Requests |-> NoInput]
    /\ token = [r \in Requests |-> NoOne]
    /\ target = [r \in Requests |-> NoOne]
    /\ loaded = [r \in Requests |-> NoRow]
    /\ outcome = [r \in Requests |-> "none"]
    /\ tokens = {}
    /\ users = [u \in Users |-> IF u \in GivenUsers THEN GivenUser[u] ELSE NoRow]

-----------------------------------------------------------------------------
(***************************************************************************)
(* What the open transactions write and hold                               *)
(***************************************************************************)
Op(r) == input[r].op
Inserts(r) == target[r] = NoOne

Data(r) == IF Op(r) = "update_user" THEN input[r].data
                                    ELSE [role |-> "admin", is_active |-> TRUE]
Written(r) == Changed(loaded[r], Data(r))

MisspelledRole(r) ==              \* mutant: a role that is no member of the enum
    [email |-> input[r].email, is_active |-> TRUE, role |-> "member"]

NewUser(r) == [email |-> input[r].email, is_active |-> TRUE,
               role |-> IF Op(r) = "create_admin" THEN "admin" ELSE "user"]

SignupStaysOpen(r) ==             \* mutant: a sign-up that fails leaves its session open
    \/ pc[r] \in {"insert", "update", "index", "commit"}
    \/ outcome[r] = "undone" /\ Op(r) = "signup"

Open(r) == pc[r] \in {"insert", "update", "index", "commit"}

HoldsRow(o, u) ==
    /\ Open(o) /\ pc[o] \notin {"insert", "update"}
    /\ target[o] = u /\ Written(o) # {}

NewEmail(r) == IF Inserts(r) THEN input[r].email ELSE Data(r).email

\* An e-mail of a row that was inserted or updated: before, and, once it has passed the
\* index, after the update.
HoldsEmail(o, e) ==
    \/ Open(o) /\ pc[o] # "insert" /\ Inserts(o) /\ NewEmail(o) = e
    \/ \E u \in Users : HoldsRow(o, u) /\ users[u].email = e
    \/ /\ \E u \in Users : HoldsRow(o, u)
       /\ pc[o] # "index" /\ "email" \in Written(o) /\ NewEmail(o) = e

Blockers(r) ==
    CASE pc[r] \in {"insert", "index"} -> {o \in Requests \ {r} : HoldsEmail(o, NewEmail(r))}
      [] pc[r] = "update" /\ Written(r) # {} -> {o \in Requests \ {r} : HoldsRow(o, target[r])}
      [] OTHER -> {}

Taken(r) ==
    \E u \in Users \ {target[r]} : users[u] # NoRow /\ users[u].email = NewEmail(r)

-----------------------------------------------------------------------------
(***************************************************************************)
(* login: one SELECT, and a token for an active user                       *)
(***************************************************************************)
Login(u) ==
    /\ users[u] # NoRow /\ users[u].is_active
    /\ tokens' = tokens \cup {[sub |-> u, role |-> users[u].role]}
    /\ UNCHANGED <<pc, input, token, target, loaded, outcome, users>>

-----------------------------------------------------------------------------
(***************************************************************************)
(* The transactions                                                        *)
(***************************************************************************)
Goto(r, step) == pc' = [pc EXCEPT ![r] = step]

\* The session ends, and what it holds is forgotten.
Forget(r) == token' = [token EXCEPT ![r] = NoOne] /\ loaded' = [loaded EXCEPT ![r] = NoRow]
End(r, how) ==
    /\ Goto(r, "ended") /\ outcome' = [outcome EXCEPT ![r] = how]
    /\ Forget(r)

Receive(r) ==
    /\ pc[r] = "idle"
    /\ \E i \in Inputs :
           /\ input' = [input EXCEPT ![r] = i]
           /\ \/ /\ i.op = "update_user" /\ Goto(r, "auth")
                 /\ \E t \in tokens : token' = [token EXCEPT ![r] = t]
              \/ i.op # "update_user" /\ Goto(r, "check") /\ UNCHANGED token
    /\ UNCHANGED <<target, loaded, outcome, tokens, users>>

IsAdmin(row) == row.is_active /\ row.role = "admin"

RoleOfToken(r) ==                 \* mutant: the role is the claim of the token
    /\ pc[r] = "auth"
    /\ LET row == users[token[r].sub] IN
           \/ End(r, "undone")
           \/ /\ row # NoRow /\ row.is_active /\ token[r].role = "admin"
              /\ loaded' = [loaded EXCEPT ![r] = row]
              /\ Goto(r, "load") /\ UNCHANGED <<token, outcome>>
    /\ UNCHANGED <<input, target, tokens, users>>

\* get_current_admin: the row of the token's user decides, not the token; a token may
\* have expired.
Authenticate(r) ==
    /\ pc[r] = "auth"
    /\ LET row == users[token[r].sub] IN
           \/ End(r, "undone")
           \/ /\ row # NoRow /\ IsAdmin(row)
              /\ loaded' = [loaded EXCEPT ![r] = row]
              /\ Goto(r, "load") /\ UNCHANGED <<token, outcome>>
    /\ UNCHANGED <<input, target, tokens, users>>

\* update_user: the SELECT.  The session knows the administrator's own row already and
\* keeps the values read then.
LoadUser(r) ==
    /\ pc[r] = "load"
    /\ LET u == input[r].user IN
           \/ /\ users[u] = NoRow
              /\ End(r, "undone") /\ UNCHANGED target
           \/ /\ users[u] # NoRow
              /\ target' = [target EXCEPT ![r] = u]
              /\ loaded' = [loaded EXCEPT ![r] = IF u = token[r].sub THEN @ ELSE users[u]]
              /\ Goto(r, "update") /\ UNCHANGED <<token, outcome>>
    /\ UNCHANGED <<input, tokens, users>>

\* register_user and create_admin: the SELECT by e-mail.
CheckEmail(r) ==
    /\ pc[r] = "check"
    /\ LET found == {u \in Users : users[u] # NoRow /\ users[u].email = input[r].email} IN
           \/ /\ found = {}
              /\ Goto(r, "insert") /\ UNCHANGED <<token, target, loaded, outcome>>
           \/ /\ found # {} /\ Op(r) = "signup"
              /\ End(r, "undone") /\ UNCHANGED target
           \/ /\ found # {} /\ Op(r) = "create_admin"
              /\ \E u \in found : /\ target' = [target EXCEPT ![r] = u]
                                  /\ loaded' = [loaded EXCEPT ![r] = users[u]]
              /\ Goto(r, "update") /\ UNCHANGED <<token, outcome>>
    /\ UNCHANGED <<input, tokens, users>>

\* The unique index on the e-mail: its IntegrityError is no ValueError, and no handler
\* expects it.
TrustCheck(r) ==                  \* mutant: no unique index, only the SELECT
    /\ pc[r] \in {"insert", "index"}
    /\ Goto(r, "commit")
    /\ UNCHANGED <<input, token, target, loaded, outcome, tokens, users>>

EnterEmail(r) ==
    /\ pc[r] \in {"insert", "index"}
    /\ Blockers(r) = {}
    /\ \/ Taken(r) /\ End(r, "undone")
       \/ ~ Taken(r) /\ Goto(r, "commit") /\ UNCHANGED <<token, loaded, outcome>>
    /\ UNCHANGED <<input, target, tokens, users>>

\* No field that changes, no statement.
Update(r) ==
    /\ pc[r] = "update"
    /\ Blockers(r) = {}
    /\ Goto(r, IF "email" \in Written(r) THEN "index" ELSE "commit")
    /\ UNCHANGED <<input, token, target, loaded, outcome, tokens, users>>

Commit(r) ==
    /\ pc[r] = "commit"
    /\ users' = IF Inserts(r) THEN [users EXCEPT ![r] = NewUser(r)]
                ELSE [users EXCEPT ![target[r]] = Patched(@, loaded[r], Data(r))]
    /\ End(r, "committed")
    /\ UNCHANGED <<input, target, tokens>>

\* PostgreSQL finds r in a circle of transactions that wait for each other.
InCircle(r) ==
    LET Closed(S) == \A o \in S : Blockers(o) \cap S # {} IN
        \E S \in SUBSET Requests :
            r \in S /\ Closed(S) /\ \A T \in SUBSET S \ {{}, S} : ~ Closed(T)

BreakDeadlock(r) ==
    /\ Blockers(r) # {} /\ InCircle(r)
    /\ End(r, "undone")
    /\ UNCHANGED <<input, target, tokens, users>>

\* A statement fails, or the process dies: the transaction is rolled back.
Fail(r) ==
    /\ pc[r] \notin {"idle", "ended"}
    /\ End(r, "undone")
    /\ UNCHANGED <<input, target, tokens, users>>

-----------------------------------------------------------------------------
Handle(r) ==
    \/ Authenticate(r) \/ LoadUser(r) \/ CheckEmail(r)
    \/ EnterEmail(r) \/ Update(r) \/ Commit(r) \/ BreakDeadlock(r)

Next ==
    \/ \E u \in Clients : Login(u)
    \/ \E r \in Requests : Receive(r) \/ Handle(r) \/ Fail(r)

Spec == Init /\ [][Next]_vars

\* The event loop resumes a handler whose statement has completed; a statement that
\* waits goes on, or is aborted, when its wait has ended.
Fairness == \A r \in Requests : WF_vars(Handle(r))

FairSpec == Spec /\ Fairness
=============================================================================
