------------------------- MODULE AccountsProperties -------------------------
(***************************************************************************)
(* What must hold of accounts and of the authority over them.              *)
(***************************************************************************)
EXTENDS Accounts

\* No two users have one e-mail, although sign-up and create_admin look for it in an
\* earlier statement, and a PATCH of a user does not look at all.
UniqueEmails ==
    \A u, v \in Users :
        users[u] # NoRow /\ users[v] # NoRow /\ users[u].email = users[v].email => u = v

\* Authority ends with the row: when no active administrator is left and no PATCH is
\* past its check, it stays so, whatever tokens are about; only create_admin makes an
\* administrator then.
NoAdmin == \A u \in Users : users[u] = NoRow \/ ~ IsAdmin(users[u])
PastCheck(r) == pc[r] # "auth" /\ token[r] # NoOne
LockedOut == NoAdmin /\ \A r \in Requests : ~ PastCheck(r)
ScriptRuns ==
    \E r \in Requests : pc[r] \notin {"idle", "ended"} /\ Op(r) = "create_admin"

AuthorityEnds == [][LockedOut => LockedOut' \/ ScriptRuns]_vars

\* When all is done, each field of a user has the value that a committed request which
\* named it has asked for, and its first value if there is none: neither the script nor
\* an administrator who loaded a row earlier takes back what another one wrote.
Asked(u, f) ==
    {r \in Requests : outcome[r] = "committed" /\ target[r] = u /\ f \in DOMAIN Data(r)}
First(u) == IF u \in GivenUsers THEN GivenUser[u] ELSE NewUser(u)

NoLostPatch ==
    (\A r \in Requests : pc[r] = "ended") =>
        \A u \in Users : users[u] # NoRow =>
            \A f \in DOMAIN users[u] :
                IF Asked(u, f) = {} THEN users[u][f] = First(u)[f]
                ELSE \E r \in Asked(u, f) : users[u][f] = Data(r)[f]

\* Every request ends, also two that give two users each other's e-mail: each comes
\* once, and from some point on none is under way.
RequestsEnd == <>[](\A r \in Requests : pc[r] \in {"idle", "ended"})
=============================================================================
