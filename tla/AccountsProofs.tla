--------------------------- MODULE AccountsProofs ---------------------------
(***************************************************************************)
(* Theorems about accounts, for any number of users, e-mails and requests. *)
(***************************************************************************)
EXTENDS AccountsProperties, TLAPS

(***************************************************************************)
(* Patches of a user.                                                      *)
(***************************************************************************)
LEMMA PatchedUser ==
    ASSUME NEW row \in User, NEW old \in User, NEW data \in UserUpdate
    PROVE  Patched(row, old, data) \in User
<1>1. CASE data \in [email : Emails]
  BY <1>1 DEF User, Patched, Changed
<1>2. CASE data \in [role : UserRole]
  BY <1>2 DEF User, Patched, Changed
<1>3. CASE data \in [is_active : BOOLEAN]
  BY <1>3 DEF User, Patched, Changed
<1>4. CASE data \in [email : Emails, role : UserRole]
  BY <1>4 DEF User, Patched, Changed
<1>5. CASE data \in [email : Emails, is_active : BOOLEAN]
  BY <1>5 DEF User, Patched, Changed
<1>6. CASE data \in [role : UserRole, is_active : BOOLEAN]
  BY <1>6 DEF User, Patched, Changed
<1>7. CASE data \in [email : Emails, role : UserRole, is_active : BOOLEAN]
  BY <1>7 DEF User, Patched, Changed
<1>8. CASE data = <<>>
  BY <1>8 DEF User, Patched, Changed
<1> QED BY <1>1, <1>2, <1>3, <1>4, <1>5, <1>6, <1>7, <1>8 DEF UserUpdate

LEMMA PatchedField ==
    ASSUME NEW row, NEW old, NEW data, NEW f \in DOMAIN row
    PROVE  Patched(row, old, data)[f] = IF f \in Changed(old, data) THEN data[f] ELSE row[f]
BY DEF Patched

(***************************************************************************)
(* Types, and where a request may stand with what.                         *)
(***************************************************************************)
Stands(r) ==
    /\ pc[r] # "idle" => input[r] \in Inputs
    /\ pc[r] \in {"auth", "load"} => Op(r) = "update_user"
    /\ pc[r] \in {"check", "insert"} => Op(r) # "update_user"
    /\ pc[r] \notin {"idle", "ended"} /\ Op(r) = "update_user" => token[r] # NoOne
    /\ pc[r] \in {"idle", "auth", "load", "check", "insert"} => target[r] = NoOne
    /\ pc[r] \in {"update", "index"} => target[r] # NoOne
    /\ pc[r] = "load" => loaded[r] \in User
    /\ pc[r] \in {"update", "index", "commit"} /\ target[r] # NoOne =>
           loaded[r] \in User /\ users[target[r]] \in User /\ Op(r) # "signup"
    /\ pc[r] = "commit" /\ target[r] = NoOne => Op(r) # "update_user"

Typed == TypeOK /\ \A r \in Requests : Stands(r)

LEMMA Inputs3 ==
    ASSUME NEW i \in Inputs
    PROVE  /\ i.op \in {"signup", "create_admin", "update_user"}
           /\ i.op # "update_user" => i.email \in Emails
           /\ i.op = "update_user" => i.user \in Users /\ i.data \in UserUpdate
BY AccountsAssumption DEF Input

\* What a request that has come in assigns.
LEMMA Assigned ==
    ASSUME NEW r \in Requests, input[r] \in Inputs, Op(r) # "signup"
    PROVE  Data(r) \in UserUpdate
<1>1. CASE Op(r) = "update_user"
  BY <1>1, Inputs3 DEF Data, Op
<1>2. CASE Op(r) # "update_user"
  BY <1>2 DEF Data, UserUpdate, UserRole
<1> QED BY <1>1, <1>2

LEMMA TypedInit == Init => Typed
BY AccountsAssumption DEF Init, Typed, TypeOK, Stands, Users

\* The committed rows stay rows.
LEMMA RowsCommitted ==
    ASSUME Typed, NEW r \in Requests, Commit(r)
    PROVE  /\ users' \in [Users -> User \cup {NoRow}]
           /\ \A u \in Users : users[u] \in User => users'[u] \in User
<1>1. /\ users \in [Users -> User \cup {NoRow}] /\ Stands(r) /\ input[r] \in Inputs
      /\ pc[r] = "commit" /\ NoRow \notin User /\ target[r] \in Users \cup {NoOne} /\ r \in Users
  BY AccountsAssumption DEF Typed, TypeOK, Commit, Stands, Users
<1>2. CASE Inserts(r)
  <2>1. NewUser(r) \in User
    BY <1>1, <1>2, Inputs3 DEF NewUser, User, UserRole, Stands, Inserts, Op
  <2> QED BY <1>1, <1>2, <2>1 DEF Commit
<1>3. CASE ~ Inserts(r)
  <2>1. target[r] \in Users /\ users[target[r]] \in User /\ loaded[r] \in User
        /\ Data(r) \in UserUpdate
    BY <1>1, <1>3, Assigned DEF Stands, Inserts
  <2>2. Patched(users[target[r]], loaded[r], Data(r)) \in User
    BY <2>1, PatchedUser
  <2> QED BY <1>1, <1>3, <2>1, <2>2 DEF Commit
<1> QED BY <1>2, <1>3

\* A step of one request leaves the others where they stand.
LEMMA OthersStand ==
    ASSUME Typed, NEW r \in Requests, NEW q \in Requests \ {r}, 
           pc'[q] = pc[q], input'[q] = input[q], token'[q] = token[q], target'[q] = target[q],
           loaded'[q] = loaded[q],
           \A u \in Users : users[u] \in User => users'[u] \in User
    PROVE  Stands(q)'
<1>1. Stands(q) /\ target[q] \in Users \cup {NoOne}
  BY DEF Typed, TypeOK
<1> QED BY <1>1 DEF Stands, Op

LEMMA TypedNext == Typed /\ [Next]_vars => Typed'
<1> SUFFICES ASSUME Typed, [Next]_vars PROVE Typed'
  OBVIOUS
<1> USE AccountsAssumption
<1>1. ASSUME NEW u \in Clients, Login(u) PROVE Typed'
  <2>1. [sub |-> u, role |-> users[u].role] \in Token
    BY <1>1 DEF Login, Token, Typed, TypeOK, User
  <2> QED BY <1>1, <2>1 DEF Login, Typed, TypeOK, Stands, Op
<1>2. ASSUME NEW r \in Requests, Receive(r) \/ Handle(r) \/ Fail(r) PROVE Typed'
  <2>1. TypeOK /\ Stands(r) /\ (pc[r] # "idle" => input[r] \in Inputs)
    BY DEF Typed, Stands
  <2>2. ASSUME TypeOK', Stands(r)',
               \A q \in Requests \ {r} :
                   /\ pc'[q] = pc[q] /\ input'[q] = input[q] /\ token'[q] = token[q]
                   /\ target'[q] = target[q] /\ loaded'[q] = loaded[q],
               \A u \in Users : users[u] \in User => users'[u] \in User
        PROVE  Typed'
    BY <2>2, OthersStand DEF Typed
  <2> USE <2>1
  <2>3. CASE Receive(r)
    <3>1. TypeOK' /\ Stands(r)'
      BY <2>3, Inputs3 DEF Receive, TypeOK, Stands, Goto, Op
    <3> QED BY <2>2, <2>3, <3>1 DEF Receive, Goto, TypeOK
  <2>4. ASSUME NEW how \in {"committed", "undone"}, End(r, how), pc[r] # "idle",
               UNCHANGED <<input, target, tokens>>, users' \in [Users -> User \cup {NoRow}],
               \A u \in Users : users[u] \in User => users'[u] \in User
        PROVE  Typed'
    <3>1. TypeOK' /\ Stands(r)'
      BY <2>4 DEF End, Forget, Goto, TypeOK, Stands, Op
    <3> QED BY <2>2, <2>4, <3>1 DEF End, Forget, Goto, TypeOK
  <2>5. CASE Fail(r) \/ BreakDeadlock(r)
    BY <2>4, <2>5 DEF Fail, BreakDeadlock, Blockers, TypeOK
  <2>6. CASE Commit(r)
    BY <2>4, <2>6, RowsCommitted DEF Commit
  <2>7. CASE Authenticate(r)
    <3>1. CASE End(r, "undone")
      BY <2>4, <2>7, <3>1 DEF Authenticate, TypeOK
    <3>2. CASE /\ users[token[r].sub] # NoRow
               /\ loaded' = [loaded EXCEPT ![r] = users[token[r].sub]]
               /\ Goto(r, "load") /\ UNCHANGED <<token, outcome>>
      <4>1. token[r] \in Token /\ users[token[r].sub] \in User
        BY <2>7, <3>2 DEF Authenticate, TypeOK, Stands, Token
      <4>2. TypeOK' /\ Stands(r)'
        BY <2>7, <3>2, <4>1 DEF Authenticate, Goto, TypeOK, Stands, Op
      <4> QED BY <2>2, <2>7, <3>2, <4>2 DEF Authenticate, Goto, TypeOK
    <3> QED BY <2>7, <3>1, <3>2 DEF Authenticate
  <2>8. CASE LoadUser(r)
    <3>1. input[r].user \in Users
      BY <2>8, Inputs3 DEF LoadUser, Stands, Op
    <3>2. CASE End(r, "undone") /\ UNCHANGED target
      BY <2>4, <2>8, <3>2 DEF LoadUser, TypeOK
    <3>3. CASE ~ (End(r, "undone") /\ UNCHANGED target)
      <4>1. TypeOK' /\ Stands(r)'
        BY <2>8, <3>1, <3>3 DEF LoadUser, Goto, TypeOK, Stands, Op
      <4> QED BY <2>2, <2>8, <3>3, <4>1 DEF LoadUser, Goto, TypeOK
    <3> QED BY <3>2, <3>3
  <2>9. CASE CheckEmail(r)
    <3>1. CASE End(r, "undone") /\ UNCHANGED target
      BY <2>4, <2>9, <3>1 DEF CheckEmail, TypeOK
    <3>2. CASE ~ (End(r, "undone") /\ UNCHANGED target)
      <4>1. TypeOK' /\ Stands(r)'
        BY <2>9, <3>2, Inputs3 DEF CheckEmail, Goto, TypeOK, Stands, Op
      <4> QED BY <2>2, <2>9, <3>2, <4>1 DEF CheckEmail, Goto, TypeOK
    <3> QED BY <3>1, <3>2
  <2>10. CASE EnterEmail(r)
    <3>1. CASE End(r, "undone")
      BY <2>4, <2>10, <3>1 DEF EnterEmail, TypeOK
    <3>2. CASE Goto(r, "commit") /\ UNCHANGED <<token, loaded, outcome>>
      <4>1. TypeOK' /\ Stands(r)'
        BY <2>10, <3>2 DEF EnterEmail, Goto, TypeOK, Stands, Op
      <4> QED BY <2>2, <2>10, <3>2, <4>1 DEF EnterEmail, Goto, TypeOK
    <3> QED BY <2>10, <3>1, <3>2 DEF EnterEmail
  <2>11. CASE Update(r)
    <3>1. TypeOK' /\ Stands(r)'
      BY <2>11 DEF Update, Goto, TypeOK, Stands, Op
    <3> QED BY <2>2, <2>11, <3>1 DEF Update, Goto, TypeOK
  <2> QED BY <1>2, <2>3, <2>5, <2>6, <2>7, <2>8, <2>9, <2>10, <2>11 DEF Handle
<1>3. CASE UNCHANGED vars
  BY <1>3 DEF vars, Typed, TypeOK, Stands, Op
<1> QED BY <1>1, <1>2, <1>3 DEF Next

LEMMA AlwaysTyped == Spec => []Typed
BY TypedInit, TypedNext, PTL DEF Spec

\* In every reachable state the rows, the tokens and the requests are well typed.
THEOREM TypeCorrect == Spec => []TypeOK
BY AlwaysTyped, PTL DEF Typed

(***************************************************************************)
(* The unique index.                                                       *)
(***************************************************************************)
\* A request that has entered an e-mail and not committed it.
Entered(r) == pc[r] = "commit" /\ (Inserts(r) \/ "email" \in Written(r))

EmailsFree ==
    /\ UniqueEmails
    /\ \A r \in Requests : Entered(r) =>
           \A u \in Users \ {target[r]} : users[u] # NoRow => users[u].email # NewEmail(r)
    /\ \A r, q \in Requests : r # q /\ Entered(r) /\ Entered(q) => NewEmail(r) # NewEmail(q)

LEMMA EmailsFreeInit == Init => EmailsFree
BY AccountsAssumption DEF Init, EmailsFree, UniqueEmails, Entered, Users

\* What a commit makes of the e-mails.
LEMMA CommittedEmails ==
    ASSUME Typed, NEW r \in Requests, Commit(r), NEW u \in Users, users'[u] # NoRow
    PROVE  \/ users[u] # NoRow /\ users'[u].email = users[u].email
           \/ /\ Entered(r) /\ users'[u].email = NewEmail(r)
              /\ u = r \/ u = target[r]
              /\ Inserts(r) => u = r
<1>1. /\ users \in [Users -> User \cup {NoRow}] /\ Stands(r) /\ input[r] \in Inputs
      /\ pc[r] = "commit" /\ NoRow \notin User /\ target[r] \in Users \cup {NoOne} /\ r \in Users
  BY AccountsAssumption DEF Typed, TypeOK, Commit, Stands, Users
<1>2. CASE Inserts(r)
  BY <1>1, <1>2 DEF Commit, NewUser, NewEmail, Entered
<1>3. CASE ~ Inserts(r)
  <2>1. target[r] \in Users /\ users[target[r]] \in User /\ loaded[r] \in User
        /\ Data(r) \in UserUpdate
    BY <1>1, <1>3, Assigned DEF Stands, Inserts
  <2>2. Patched(users[target[r]], loaded[r], Data(r)).email =
            IF "email" \in Written(r) THEN Data(r).email ELSE users[target[r]].email
    BY <2>1, PatchedField DEF Written, User
  <2>3. users'[u] = IF u = target[r] THEN Patched(users[target[r]], loaded[r], Data(r))
                                     ELSE users[u]
    BY <1>1, <1>3, <2>1 DEF Commit
  <2> QED BY <1>1, <1>3, <2>1, <2>2, <2>3 DEF Entered, NewEmail
<1> QED BY <1>2, <1>3

\* A request that has entered its e-mail has met no other one that has.
LEMMA EntersAlone ==
    ASSUME Typed, NEW r \in Requests, pc[r] \in {"insert", "index"}, Blockers(r) = {},
           NEW q \in Requests \ {r}, Entered(q)
    PROVE  NewEmail(q) # NewEmail(r)
<1>1. ~ HoldsEmail(q, NewEmail(r))
  BY DEF Blockers
<1>2. CASE Inserts(q)
  BY <1>1, <1>2 DEF Entered, HoldsEmail, Open
<1>3. CASE ~ Inserts(q)
  <2>1. target[q] \in Users /\ "email" \in Written(q) /\ pc[q] = "commit"
    BY <1>3 DEF Typed, TypeOK, Inserts, Entered
  <2>2. HoldsRow(q, target[q])
    BY <2>1 DEF HoldsRow, Open
  <2> QED BY <1>1, <2>1, <2>2 DEF HoldsEmail
<1> QED BY <1>2, <1>3

LEMMA EmailsFreeNext == Typed /\ EmailsFree /\ [Next]_vars => EmailsFree'
<1> SUFFICES ASSUME Typed, EmailsFree, [Next]_vars PROVE EmailsFree'
  OBVIOUS
\* A step that commits nothing, after which no request has newly entered an e-mail.
<1>1. ASSUME UNCHANGED users, 
             \A r \in Requests : Entered(r)' =>
                 Entered(r) /\ NewEmail(r)' = NewEmail(r) /\ target'[r] = target[r]
      PROVE  EmailsFree'
  BY <1>1 DEF EmailsFree, UniqueEmails
<1>2. ASSUME NEW r \in Requests, Receive(r) \/ Handle(r) \/ Fail(r) PROVE EmailsFree'
  <2>1. TypeOK
    BY DEF Typed
  <2>2. ASSUME \A q \in Requests \ {r} :
                   /\ pc'[q] = pc[q] /\ input'[q] = input[q] /\ target'[q] = target[q]
                   /\ loaded'[q] = loaded[q],
               NEW q \in Requests \ {r}
        PROVE  Entered(q)' = Entered(q) /\ NewEmail(q)' = NewEmail(q)
    BY <2>2 DEF Entered, NewEmail, Inserts, Written, Data, Op
  <2>3. ASSUME pc'[r] # "commit", UNCHANGED users,
               \A q \in Requests \ {r} :
                   /\ pc'[q] = pc[q] /\ input'[q] = input[q] /\ target'[q] = target[q]
                   /\ loaded'[q] = loaded[q]
        PROVE  EmailsFree'
    BY <1>1, <2>2, <2>3 DEF Entered
  <2>4. CASE Receive(r) \/ Fail(r) \/ Authenticate(r) \/ LoadUser(r) \/ CheckEmail(r)
                \/ BreakDeadlock(r)
    BY <2>1, <2>3, <2>4 DEF Receive, Fail, Authenticate, LoadUser, CheckEmail, BreakDeadlock,
                            End, Forget, Goto, TypeOK
  <2>5. CASE Update(r)
    <3>1. ~ Entered(r)'
      <4>1. Inserts(r)' = Inserts(r) /\ Written(r)' = Written(r) /\ ~ Inserts(r)
        BY <2>5 DEF Update, Inserts, Written, Data, Op, Typed, Stands
      <4> QED BY <2>1, <2>5, <4>1 DEF Update, Entered, Goto, TypeOK
    <3> QED BY <1>1, <2>1, <2>2, <2>5, <3>1 DEF Update, Goto, TypeOK
  <2>6. CASE EnterEmail(r)
    <3>1. CASE End(r, "undone")
      BY <2>1, <2>3, <2>6, <3>1 DEF EnterEmail, End, Forget, Goto, TypeOK
    <3>2. CASE ~ Taken(r) /\ Goto(r, "commit") /\ UNCHANGED loaded
      <4>1. /\ NewEmail(r)' = NewEmail(r) /\ target' = target /\ users' = users
            /\ \A q \in Requests \ {r} : Entered(q)' = Entered(q) /\ NewEmail(q)' = NewEmail(q)
        BY <2>1, <2>2, <2>6, <3>2 DEF EnterEmail, Goto, TypeOK, NewEmail, Inserts, Data, Op
      <4>2. \A q \in Requests \ {r} : Entered(q) => NewEmail(q) # NewEmail(r)
        BY <2>6, EntersAlone DEF EnterEmail
      <4> QED BY <3>2, <4>1, <4>2 DEF EmailsFree, UniqueEmails, Taken
    <3> QED BY <2>6, <3>1, <3>2 DEF EnterEmail
  <2>7. CASE Commit(r)
    <3>1. /\ ~ Entered(r)' /\ target' = target
          /\ \A q \in Requests \ {r} : Entered(q)' = Entered(q) /\ NewEmail(q)' = NewEmail(q)
      BY <2>1, <2>2, <2>7 DEF Commit, End, Forget, Goto, TypeOK, Entered
    <3>2. ASSUME NEW u \in Users, users'[u] # NoRow
          PROVE  \/ users[u] # NoRow /\ users'[u].email = users[u].email
                 \/ /\ Entered(r) /\ users'[u].email = NewEmail(r)
                    /\ u = r \/ u = target[r]
                    /\ Inserts(r) => u = r
      BY <2>7, <3>2, CommittedEmails
    <3>3. ASSUME NEW u \in Users, users[u] # NoRow, Entered(r), users[u].email = NewEmail(r)
          PROVE  u = target[r] /\ ~ Inserts(r)
      BY <3>3, AccountsAssumption DEF EmailsFree, Inserts, Users
    <3>4. ASSUME Entered(r), ~ Inserts(r), users'[r] # NoRow, users'[r].email = NewEmail(r)
          PROVE  r = target[r]
      <4>1. r \in Users /\ target[r] \in Users
        BY <2>1, <3>4 DEF Users, TypeOK, Inserts
      <4>2. users[r] = users'[r] \/ r = target[r]
        BY <2>1, <2>7, <3>4, <4>1 DEF Commit, TypeOK
      <4> QED BY <3>3, <3>4, <4>1, <4>2
    <3>5. UniqueEmails'
      <4> SUFFICES ASSUME NEW u \in Users, NEW v \in Users, users'[u] # NoRow,
                          users'[v] # NoRow, users'[u].email = users'[v].email
                   PROVE  u = v
        BY DEF UniqueEmails
      <4> QED BY <3>2, <3>3, <3>4 DEF EmailsFree, UniqueEmails
    <3>6. ASSUME NEW q \in Requests, Entered(q)', NEW u \in Users \ {target[q]}, users'[u] # NoRow
          PROVE  users'[u].email # NewEmail(q)'
      BY <3>1, <3>2, <3>6 DEF EmailsFree
    <3> QED BY <3>1, <3>5, <3>6 DEF EmailsFree
  <2> QED BY <1>2, <2>4, <2>5, <2>6, <2>7 DEF Handle
<1>3. ASSUME NEW u \in Clients, Login(u) PROVE EmailsFree'
  BY <1>1, <1>3 DEF Login, Entered, NewEmail, Inserts, Written, Data, Op
<1>4. CASE UNCHANGED vars
  BY <1>1, <1>4 DEF vars, Entered, NewEmail, Inserts, Written, Data, Op
<1> QED BY <1>2, <1>3, <1>4 DEF Next

\* No two users have one e-mail, however sign-ups, the script and patches interleave.
THEOREM EmailsUnique == Spec => []UniqueEmails
<1>1. Spec => [](Typed /\ EmailsFree)
  BY AlwaysTyped, EmailsFreeInit, EmailsFreeNext, PTL DEF Spec
<1>2. EmailsFree => UniqueEmails
  BY DEF EmailsFree
<1> QED BY <1>1, <1>2, PTL

(***************************************************************************)
(* The authority of the row over the token.                                *)
(***************************************************************************)
LEMMA AuthorityStep ==
    ASSUME Typed, [Next]_vars, LockedOut, ~ ScriptRuns
    PROVE  LockedOut'
<1>1. TypeOK
  BY DEF Typed
<1>2. ASSUME UNCHANGED users, \A q \in Requests : ~ PastCheck(q)'
      PROVE  LockedOut'
  BY <1>2 DEF LockedOut, NoAdmin
<1>3. ASSUME NEW r \in Requests, Receive(r) \/ Handle(r) \/ Fail(r) PROVE LockedOut'
  <2>1. ASSUME \A q \in Requests \ {r} : pc'[q] = pc[q] /\ token'[q] = token[q],
               pc'[r] = "auth" \/ token'[r] = NoOne
        PROVE  \A q \in Requests : ~ PastCheck(q)'
    BY <2>1 DEF LockedOut, PastCheck
  <2>2. Stands(r) /\ ~ PastCheck(r)
    BY DEF Typed, LockedOut
  <2>3. CASE Receive(r) \/ Fail(r) \/ BreakDeadlock(r)
    BY <1>1, <1>2, <2>1, <2>2, <2>3 DEF Receive, Fail, BreakDeadlock, End, Forget, Goto, TypeOK,
                                        PastCheck
  <2>4. CASE Authenticate(r)
    <3>1. token[r] # NoOne /\ token[r].sub \in Users
      BY <1>1, <2>2, <2>4 DEF Authenticate, TypeOK, Stands, Token
    <3>2. End(r, "undone")
      BY <2>4, <3>1 DEF Authenticate, LockedOut, NoAdmin
    <3> QED BY <1>1, <1>2, <2>1, <2>4, <3>2 DEF Authenticate, End, Forget, Goto, TypeOK
  <2>5. CASE LoadUser(r) \/ CheckEmail(r) \/ EnterEmail(r) \/ Update(r)
    BY <1>1, <1>2, <2>1, <2>2, <2>5 DEF LoadUser, CheckEmail, EnterEmail, Update, End, Forget,
                                        Goto, TypeOK, PastCheck
  <2>6. CASE Commit(r)
    <3>1. input[r] \in Inputs /\ Op(r) = "signup" /\ Inserts(r)
      <4>1. Op(r) # "create_admin"
        BY <2>6 DEF ScriptRuns, Commit
      <4>2. Op(r) # "update_user"
        BY <2>2, <2>6 DEF Commit, Stands, PastCheck
      <4> QED BY <2>2, <2>6, <4>1, <4>2, Inputs3, AccountsAssumption
              DEF Commit, Stands, Op, Inserts
    <3>2. NoAdmin'
      BY <1>1, <2>6, <3>1 DEF Commit, LockedOut, NoAdmin, NewUser, IsAdmin, TypeOK
    <3> QED BY <1>1, <2>1, <2>6, <3>2 DEF Commit, End, Forget, Goto, TypeOK, LockedOut
  <2> QED BY <1>3, <2>3, <2>4, <2>5, <2>6 DEF Handle
<1>4. ASSUME NEW u \in Clients, Login(u) PROVE LockedOut'
  BY <1>2, <1>4 DEF Login, LockedOut, PastCheck
<1>5. CASE UNCHANGED vars
  BY <1>2, <1>5 DEF vars, LockedOut, PastCheck
<1> QED BY <1>3, <1>4, <1>5 DEF Next

\* When the last administrator is gone, no token brings one back.
THEOREM AuthorityEndsWithRow == Spec => AuthorityEnds
<1>1. Typed /\ [Next]_vars => [LockedOut => LockedOut' \/ ScriptRuns]_vars
  BY AuthorityStep
<1> QED BY <1>1, AlwaysTyped, PTL DEF Spec, AuthorityEnds

(***************************************************************************)
(* No patch is lost.                                                       *)
(***************************************************************************)
UserColumns == {"email", "role", "is_active"}

\* A field of a user is what one of the committed requests that named it has asked for.
Kept(u, f) == IF Asked(u, f) = {} THEN users[u][f] = First(u)[f]
              ELSE \E r \in Asked(u, f) : users[u][f] = Data(r)[f]

\* What a request has loaded of u holds the first value of a field nobody has changed.
FirstOf(u, r) == \A f \in UserColumns : Asked(u, f) = {} => loaded[r][f] = First(u)[f]

Writes(r) == pc[r] \in {"update", "index", "commit"} /\ target[r] # NoOne

KnowsFirst(r) ==
    /\ Writes(r) => FirstOf(target[r], r)
    /\ pc[r] = "load" => users[token[r].sub] # NoRow /\ FirstOf(token[r].sub, r)

\* A user is entered by a request that has ended, and patched only when it is there.
Entry(r) ==
    /\ users[r] # NoRow => pc[r] = "ended"
    /\ outcome[r] # "none" => pc[r] = "ended"
    /\ outcome[r] = "committed" /\ target[r] # NoOne => users[target[r]] # NoRow

NothingLost ==
    /\ \A u \in Users : users[u] # NoRow => \A f \in UserColumns : Kept(u, f)
    /\ \A r \in Requests : KnowsFirst(r) /\ Entry(r)

LEMMA NothingLostInit == Init => NothingLost
<1> SUFFICES ASSUME Init PROVE NothingLost
  OBVIOUS
<1>1. \A u \in Users, f \in UserColumns : Asked(u, f) = {}
  BY DEF Init, Asked
<1>2. \A u \in Users : users[u] # NoRow => u \in GivenUsers /\ users[u] = GivenUser[u]
  BY DEF Init
<1>3. \A r \in Requests : KnowsFirst(r) /\ Entry(r)
  BY AccountsAssumption DEF Init, KnowsFirst, Writes, Entry, Users
<1> QED BY <1>1, <1>2, <1>3 DEF NothingLost, Kept, First

\* Who asked for a field, after a step that commits nothing.
LEMMA AskedStays ==
    ASSUME Typed, NothingLost, 
           \A q \in Requests : outcome[q] = "committed" <=> outcome'[q] = "committed",
           \A q \in Requests : pc[q] # "idle" => input'[q] = input[q],
           \A q \in Requests : pc[q] = "ended" => target'[q] = target[q]
    PROVE  /\ \A u \in Users, f \in UserColumns : Asked(u, f)' = Asked(u, f)
           /\ \A u \in Users : users[u] # NoRow => First(u)' = First(u)
           /\ \A u \in Users, f \in UserColumns : \A q \in Asked(u, f) : Data(q)' = Data(q)
<1>1. \A q \in Requests : outcome[q] = "committed" => input'[q] = input[q] /\ target'[q] = target[q]
  BY DEF NothingLost, Entry
<1>2. \A q \in Requests : outcome[q] = "committed" => Data(q)' = Data(q)
  BY <1>1 DEF Data, Op
<1>3. ASSUME NEW u \in Users, NEW f \in UserColumns PROVE Asked(u, f)' = Asked(u, f)
  BY <1>1, <1>2 DEF Asked
<1>4. ASSUME NEW u \in Users, users[u] # NoRow PROVE First(u)' = First(u)
  <2>1. u \notin GivenUsers => input'[u] = input[u]
    BY <1>4 DEF Users, NothingLost, Entry
  <2> QED BY <2>1 DEF First, NewUser, Op
<1> QED BY <1>2, <1>3, <1>4 DEF Asked

LEMMA NothingLostNext == Typed /\ NothingLost /\ [Next]_vars => NothingLost'
<1> SUFFICES ASSUME Typed, NothingLost, [Next]_vars PROVE NothingLost'
  OBVIOUS
<1>1. ASSUME NEW r \in Requests, Receive(r) \/ Handle(r) \/ Fail(r), ~ Commit(r)
      PROVE  NothingLost'
  <2>1. TypeOK /\ Stands(r) /\ Entry(r) /\ KnowsFirst(r) /\ r \in Users
    BY DEF Typed, NothingLost, Users
  <2>2. /\ UNCHANGED users
        /\ \A q \in Requests : outcome[q] = "committed" <=> outcome'[q] = "committed"
    BY <1>1, <2>1 DEF Handle, Receive, Fail, Authenticate, LoadUser, CheckEmail, EnterEmail,
                      Update, BreakDeadlock, Blockers, End, TypeOK, Entry
  <2>3. \A q \in Requests : pc[q] # "idle" => input'[q] = input[q]
    BY <1>1, <2>1 DEF Handle, Receive, Fail, Authenticate, LoadUser, CheckEmail, EnterEmail,
                      Update, BreakDeadlock, TypeOK
  <2>4. \A q \in Requests : pc[q] = "ended" => target'[q] = target[q] /\ pc'[q] = "ended"
    BY <1>1, <2>1 DEF Handle, Receive, Fail, Authenticate, LoadUser, CheckEmail, EnterEmail,
                      Update, BreakDeadlock, Blockers, TypeOK, Goto, End
  <2>5. /\ \A u \in Users, f \in UserColumns : Asked(u, f)' = Asked(u, f)
        /\ \A u \in Users : users[u] # NoRow => First(u)' = First(u)
        /\ \A u \in Users, f \in UserColumns : \A q \in Asked(u, f) : Data(q)' = Data(q)
    BY <2>2, <2>3, <2>4, AskedStays
  <2>6. ASSUME NEW u \in Users, NEW q \in Requests, users[u] # NoRow, FirstOf(u, q),
               loaded'[q] = loaded[q]
        PROVE  FirstOf(u, q)'
    BY <2>5, <2>6 DEF FirstOf
  <2>7. ASSUME NEW u \in Users, NEW q \in Requests, users[u] # NoRow, loaded'[q] = users[u]
        PROVE  FirstOf(u, q)'
    BY <2>5, <2>7 DEF FirstOf, NothingLost, Kept
  <2>8. \A q \in Requests : Entry(q)'
    <3>1. \A q \in Requests : outcome'[q] # "none" => outcome[q] # "none" \/ pc'[q] = "ended"
      BY <1>1, <2>1 DEF Handle, Receive, Fail, Authenticate, LoadUser, CheckEmail, EnterEmail,
                        Update, BreakDeadlock, End, Goto, TypeOK
    <3> QED BY <2>2, <2>4, <3>1 DEF NothingLost, Entry
  <2>9. ASSUME NEW q \in Requests \ {r} PROVE KnowsFirst(q)'
    <3>1. pc'[q] = pc[q] /\ target'[q] = target[q] /\ loaded'[q] = loaded[q] /\ token'[q] = token[q]
      BY <1>1, <2>1, <2>9 DEF Handle, Receive, Fail, Authenticate, LoadUser, CheckEmail, EnterEmail,
                        Update, BreakDeadlock, End, Forget, Goto, TypeOK
    <3>2. /\ Writes(q) => target[q] \in Users /\ users[target[q]] # NoRow
          /\ pc[q] = "load" => token[q].sub \in Users
      BY AccountsAssumption DEF Typed, TypeOK, Stands, Writes, Token
    <3> QED BY <2>2, <2>6, <3>1, <3>2 DEF NothingLost, KnowsFirst, Writes
  <2>10. KnowsFirst(r)'
    <3> DEFINE NoWriter == \/ pc'[r] \notin {"load", "update", "index", "commit"}
                           \/ pc'[r] = "commit" /\ target'[r] = NoOne
    <3>1. CASE NoWriter
      BY <3>1 DEF KnowsFirst, Writes
    <3>2. CASE Authenticate(r) /\ pc'[r] = "load"
      <4>1. token[r].sub \in Users /\ token'[r] = token[r] /\ loaded'[r] = users[token[r].sub]
            /\ users[token[r].sub] # NoRow
        BY <2>1, <3>2 DEF Authenticate, End, Goto, TypeOK, Stands, Token
      <4> QED BY <2>2, <2>7, <3>2, <4>1 DEF KnowsFirst, Writes
    <3>3. CASE LoadUser(r) /\ pc'[r] = "update"
      <4>1. PICK u \in Users : u = input[r].user
        BY <2>1, <3>3, Inputs3 DEF LoadUser, Stands, Op
      <4>2. /\ target'[r] = u /\ users[u] # NoRow /\ pc[r] = "load"
            /\ loaded'[r] = IF u = token[r].sub THEN loaded[r] ELSE users[u]
        BY <2>1, <3>3, <4>1 DEF LoadUser, End, Goto, TypeOK
      <4>3. CASE u = token[r].sub
        <5>1. FirstOf(u, r) /\ loaded'[r] = loaded[r]
          BY <2>1, <4>2, <4>3 DEF KnowsFirst
        <5> QED BY <2>6, <3>3, <4>2, <5>1 DEF KnowsFirst, Writes
      <4>4. CASE u # token[r].sub
        BY <2>7, <3>3, <4>2, <4>4 DEF KnowsFirst, Writes
      <4> QED BY <4>3, <4>4
    <3>4. CASE CheckEmail(r) /\ pc'[r] = "update"
      <4>1. PICK u \in Users : users[u] # NoRow /\ target'[r] = u /\ loaded'[r] = users[u]
        BY <2>1, <3>4 DEF CheckEmail, End, Goto, TypeOK
      <4> QED BY <2>7, <3>4, <4>1 DEF KnowsFirst, Writes
    <3>5. CASE Writes(r) /\ pc'[r] # "load" /\ UNCHANGED <<target, loaded>>
      <4>1. target[r] \in Users /\ users[target[r]] # NoRow
        BY <2>1, <3>5, AccountsAssumption DEF TypeOK, Stands, Writes
      <4> QED BY <2>1, <2>6, <3>5, <4>1 DEF KnowsFirst, Writes
    <3>6. CASE Receive(r) \/ Fail(r) \/ BreakDeadlock(r)
      <4>1. NoWriter
        BY <2>1, <3>6 DEF Receive, Fail, BreakDeadlock, End, Goto, TypeOK
      <4> QED BY <3>1, <4>1
    <3>7. CASE Authenticate(r) \/ LoadUser(r) \/ CheckEmail(r)
      <4>1. \/ NoWriter
            \/ Authenticate(r) /\ pc'[r] = "load"
            \/ LoadUser(r) /\ pc'[r] = "update"
            \/ CheckEmail(r) /\ pc'[r] = "update"
        BY <2>1, <3>7 DEF Authenticate, LoadUser, CheckEmail, End, Goto, TypeOK
      <4> QED BY <3>1, <3>2, <3>3, <3>4, <4>1
    <3>8. CASE EnterEmail(r) \/ Update(r)
      <4>1. \/ NoWriter
            \/ Writes(r) /\ pc'[r] # "load" /\ UNCHANGED <<target, loaded>>
        BY <2>1, <3>8 DEF EnterEmail, Update, End, Goto, TypeOK, Stands, Writes
      <4> QED BY <3>1, <3>5, <4>1
    <3> QED BY <1>1, <3>6, <3>7, <3>8 DEF Handle
  <2> QED BY <2>2, <2>5, <2>8, <2>9, <2>10 DEF NothingLost, Kept
<1>2. ASSUME NEW r \in Requests, Commit(r) PROVE NothingLost'
  <2>1. /\ TypeOK /\ Stands(r) /\ Entry(r) /\ input[r] \in Inputs
        /\ r \in Users /\ NoRow \notin User
        /\ pc[r] = "commit" /\ outcome[r] # "committed"
        /\ UNCHANGED <<input, target>>
        /\ outcome' = [outcome EXCEPT ![r] = "committed"] /\ pc' = [pc EXCEPT ![r] = "ended"]
        /\ \A q \in Requests \ {r} : loaded'[q] = loaded[q] /\ token'[q] = token[q]
    BY <1>2, AccountsAssumption DEF Commit, End, Goto, Forget, Typed, TypeOK, Stands, Users,
                                    NothingLost, Entry
  <2>2. /\ \A u \in Users : First(u)' = First(u)
        /\ \A q \in Requests : Data(q)' = Data(q)
    BY <2>1 DEF First, NewUser, Data, Op
  <2>3. ASSUME NEW u \in Users, NEW f \in UserColumns
        PROVE  Asked(u, f)' = Asked(u, f) \cup
                   IF target[r] = u /\ f \in DOMAIN Data(r) THEN {r} ELSE {}
    BY <2>1, <2>2 DEF Asked, TypeOK
  <2>4. \A u \in Users : users[u] # NoRow => users'[u] # NoRow
    BY <1>2, <2>1, RowsCommitted DEF TypeOK
  <2>5. ASSUME NEW q \in Requests PROVE KnowsFirst(q)'
    <3>1. CASE q = r
      BY <2>1, <3>1 DEF KnowsFirst, Writes, TypeOK
    <3>2. CASE q # r
      <4>1. /\ pc'[q] = pc[q] /\ token'[q] = token[q] /\ loaded'[q] = loaded[q]
            /\ Writes(q) => target[q] \in Users
            /\ pc[q] = "load" => token[q].sub \in Users
        BY <2>1, <3>2 DEF Typed, TypeOK, Stands, Writes, Token
      <4>2. \A u \in Users : FirstOf(u, q) => FirstOf(u, q)'
        BY <2>2, <2>3, <4>1 DEF FirstOf
      <4> QED BY <2>1, <2>4, <4>1, <4>2 DEF KnowsFirst, Writes, NothingLost
    <3> QED BY <3>1, <3>2
  <2>6. ASSUME NEW q \in Requests PROVE Entry(q)'
    <3>1. users'[q] # NoRow => users[q] # NoRow \/ q = r
      BY <1>2, <2>1, AccountsAssumption DEF Commit, TypeOK, Stands, Inserts, Users
    <3>2. target[r] # NoOne => users[target[r]] # NoRow
      BY <2>1 DEF Stands
    <3>3. target[q] # NoOne => target[q] \in Users
      BY <2>1 DEF TypeOK
    <3> QED BY <2>1, <2>4, <3>1, <3>2, <3>3 DEF Entry, NothingLost, TypeOK
  <2>7. ASSUME NEW u \in Users, NEW f \in UserColumns, users'[u] # NoRow PROVE Kept(u, f)'
    <3>1. CASE Inserts(r) /\ u = r
      <4>1. users'[u] = NewUser(r) /\ First(u) = NewUser(r)
        BY <1>2, <2>1, <3>1, AccountsAssumption DEF Commit, TypeOK, First
      <4>2. Asked(u, f) = {}
        BY <2>1, <3>1, AccountsAssumption DEF Asked, NothingLost, Entry
      <4>3. Asked(u, f)' = {}
        BY <2>1, <2>3, <3>1, <4>2, AccountsAssumption DEF Inserts
      <4> QED BY <2>2, <4>1, <4>3 DEF Kept
    <3>2. CASE ~ Inserts(r) /\ u = target[r]
      <4>1. users[u] \in User /\ loaded[r] \in User /\ Data(r) \in UserUpdate
        BY <2>1, <3>2, Assigned DEF Stands, Inserts
      <4>2. users'[u] = Patched(users[u], loaded[r], Data(r))
        BY <1>2, <2>1, <3>2 DEF Commit, TypeOK
      <4>3. users'[u][f] = IF f \in Changed(loaded[r], Data(r)) THEN Data(r)[f] ELSE users[u][f]
        <5>1. f \in DOMAIN users[u]
          BY <4>1 DEF User, UserColumns
        <5> QED BY <4>2, <5>1, PatchedField
      <4>4. Kept(u, f) /\ (Asked(u, f) = {} => loaded[r][f] = First(u)[f])
        BY <2>1, <3>2, <4>1 DEF NothingLost, KnowsFirst, Writes, FirstOf, Inserts
      <4>5. \A q \in Asked(u, f) : Data(q)' = Data(q)
        BY <2>2 DEF Asked
      <4>6. CASE f \in DOMAIN Data(r)
        <5>1. r \in Asked(u, f)' /\ Asked(u, f) \subseteq Asked(u, f)' /\ Data(r)' = Data(r)
          BY <2>2, <2>3, <3>2, <4>6
        <5>2. f \notin Changed(loaded[r], Data(r)) => loaded[r][f] = Data(r)[f]
          BY <4>6 DEF Changed
        <5> QED BY <4>3, <4>4, <4>5, <5>1, <5>2 DEF Kept
      <4>7. CASE f \notin DOMAIN Data(r)
        <5>1. users'[u][f] = users[u][f] /\ Asked(u, f)' = Asked(u, f)
          BY <2>3, <4>3, <4>7 DEF Changed
        <5> QED BY <2>2, <4>4, <4>5, <5>1 DEF Kept
      <4> QED BY <4>6, <4>7
    <3>3. CASE ~ (Inserts(r) /\ u = r) /\ ~ (~ Inserts(r) /\ u = target[r])
      <4>1. users'[u] = users[u] /\ target[r] # u
        BY <1>2, <2>1, <3>3, AccountsAssumption DEF Commit, TypeOK, Inserts
      <4>2. Asked(u, f)' = Asked(u, f) /\ \A q \in Asked(u, f) : Data(q)' = Data(q)
        BY <2>2, <2>3, <4>1 DEF Asked
      <4>3. Kept(u, f)
        BY <2>7, <4>1 DEF NothingLost
      <4> QED BY <2>2, <4>1, <4>2, <4>3 DEF Kept
    <3> QED BY <3>1, <3>2, <3>3
  <2> QED BY <2>5, <2>6, <2>7 DEF NothingLost
<1>3. CASE UNCHANGED <<pc, input, token, target, loaded, outcome, users>>
  BY <1>3 DEF NothingLost, Kept, KnowsFirst, Entry, FirstOf, Writes, Asked, First, NewUser, Data, Op
<1> QED BY <1>1, <1>2, <1>3 DEF Next, Login, vars

\* Each field of a user ends with a value that one of the committed requests which named
\* it has asked for: neither the script nor a PATCH takes back what another one wrote.
THEOREM NoPatchIsLost == Spec => []NoLostPatch
<1>1. Spec => [](Typed /\ NothingLost)
  BY AlwaysTyped, NothingLostInit, NothingLostNext, PTL DEF Spec
<1>2. Typed /\ NothingLost => NoLostPatch
  <2> SUFFICES ASSUME Typed, NothingLost, NEW u \in Users, users[u] # NoRow,
                      NEW f \in DOMAIN users[u]
               PROVE  Kept(u, f)
    BY DEF NoLostPatch, Kept
  <2>1. users[u] \in User
    BY DEF Typed, TypeOK
  <2>2. f \in UserColumns
    BY <2>1 DEF User, UserColumns
  <2> QED BY <2>2 DEF NothingLost
<1> QED BY <1>1, <1>2, PTL

-----------------------------------------------------------------------------
(***************************************************************************)
(* Deadlocks.                                                              *)
(***************************************************************************)
\* The statement after which an e-mail is entered is a PATCH's: the script writes none.
IndexOfPatch == \A r \in Requests : pc[r] = "index" => Op(r) = "update_user"

\* PostgreSQL breaks a circle of waits only at a PATCH that is changing an e-mail.
VictimsChangeEmail ==
    \A r \in Requests : Blockers(r) # {} /\ InCircle(r) =>
        pc[r] = "index" /\ Op(r) = "update_user"

LEMMA IndexOfPatchNext == Typed /\ IndexOfPatch /\ [Next]_vars => IndexOfPatch'
<1> SUFFICES ASSUME Typed, IndexOfPatch, [Next]_vars PROVE IndexOfPatch'
  OBVIOUS
<1>1. TypeOK
  BY DEF Typed
<1>2. ASSUME NEW r \in Requests, Receive(r) \/ Handle(r) \/ Fail(r) PROVE IndexOfPatch'
  <2>1. ASSUME pc'[r] = "index" => Op(r)' = "update_user",
               \A q \in Requests \ {r} : pc'[q] = pc[q] /\ input'[q] = input[q]
        PROVE  IndexOfPatch'
    BY <2>1 DEF IndexOfPatch, Op
  <2>2. CASE Receive(r) \/ Fail(r) \/ Authenticate(r) \/ LoadUser(r) \/ CheckEmail(r)
                \/ EnterEmail(r) \/ Commit(r) \/ BreakDeadlock(r)
    BY <1>1, <2>1, <2>2 DEF Receive, Fail, Authenticate, LoadUser, CheckEmail, EnterEmail,
                            Commit, BreakDeadlock, End, Forget, Goto, TypeOK
  <2>3. CASE Update(r)
    <3>1. Stands(r) /\ input[r] \in Inputs
      BY <2>3 DEF Typed, Stands, Update
    <3>2. "email" \in Written(r) => "email" \in DOMAIN Data(r)
      BY DEF Written, Changed
    <3>3. "email" \in Written(r) => Op(r) = "update_user"
      BY <3>2 DEF Data
    <3> QED BY <1>1, <2>1, <2>3, <3>3 DEF Update, Goto, TypeOK, Op
  <2> QED BY <1>2, <2>2, <2>3 DEF Handle
<1>3. ASSUME NEW u \in Clients, Login(u) PROVE IndexOfPatch'
  BY <1>3 DEF Login, IndexOfPatch, Op
<1>4. CASE UNCHANGED vars
  BY <1>4 DEF vars, IndexOfPatch, Op
<1> QED BY <1>2, <1>3, <1>4 DEF Next

\* In a circle every transaction is waited for, or the others would be one without it.
LEMMA CircleMembersBlock ==
    ASSUME NEW r \in Requests, InCircle(r)
    PROVE  \E q \in Requests : r \in Blockers(q)
<1>1. PICK S \in SUBSET Requests :
          /\ r \in S
          /\ \A o \in S : Blockers(o) \cap S # {}
          /\ \A T \in SUBSET S \ {{}, S} : ~ \A o \in T : Blockers(o) \cap T # {}
  BY DEF InCircle
<1> DEFINE T == S \ {r}
<1>2. r \notin Blockers(r)
  BY DEF Blockers
<1>3. SUFFICES ASSUME \A q \in S : r \notin Blockers(q)
               PROVE  FALSE
  BY <1>1
<1>4. T \in SUBSET S /\ T # S /\ T # {}
  BY <1>1, <1>2
<1>5. \A o \in T : Blockers(o) \cap T # {}
  BY <1>1, <1>3
<1> QED BY <1>1, <1>4, <1>5

\* A request that waits and is waited for has written its row, and enters an e-mail.
LEMMA WaitingBlocker ==
    ASSUME Typed, NEW r \in Requests, NEW q \in Requests, r \in Blockers(q),
           Blockers(r) # {}
    PROVE  pc[r] = "index"
<1>1. Stands(r)
  BY DEF Typed
<1>2. pc[r] \in {"insert", "update", "index"}
  BY DEF Blockers
<1>3. HoldsEmail(r, NewEmail(q)) \/ HoldsRow(r, target[q])
  BY DEF Blockers
<1>4. pc[r] \notin {"insert", "update"}
  BY <1>1, <1>3 DEF HoldsEmail, HoldsRow, Inserts, Stands
<1> QED BY <1>2, <1>4

\* Deadlock detection never aborts a sign-up, the script, or a PATCH of role or activity.
THEOREM DeadlockVictims == Spec => []VictimsChangeEmail
<1>1. Typed /\ IndexOfPatch => VictimsChangeEmail
  BY CircleMembersBlock, WaitingBlocker DEF IndexOfPatch, VictimsChangeEmail
<1>2. Init => IndexOfPatch
  BY DEF Init, IndexOfPatch
<1> QED BY <1>1, <1>2, AlwaysTyped, IndexOfPatchNext, PTL DEF Spec
=============================================================================
