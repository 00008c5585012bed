---------------------------- MODULE BookingProofs ----------------------------
(***************************************************************************)
(* Theorems about the booking handlers, for every value of the constants.  *)
(***************************************************************************)
EXTENDS BookingProperties, FiniteSetTheorems, TLAPS

(***************************************************************************)
(* The inductive invariant, in parts.  InputKnown and OpMatches tie the    *)
(* step of a request to its body.  HoldsLock is what mutual exclusion      *)
(* rests on: a holder that did not expire owns its key, under a key that   *)
(* exists.  StoredIsFinished and TargetStored bound the two writes of a    *)
(* commit: a row appears with the last step of its request, a cancellation *)
(* writes to a row that is there.  SawExact says what the second check     *)
(* established and later cancellations cannot undo.                        *)
(***************************************************************************)
InputKnown ==
    \A r \in Requests : pc[r] # "idle" => input[r] \in Inputs

OpMatches ==
    \A r \in Requests :
        /\ pc[r] \in CreateSteps => input[r].op = "create"
        /\ pc[r] \in CancelSteps => input[r].op = "cancel"

Typed == TypeOK /\ InputKnown /\ OpMatches

HoldsLock ==
    \A r \in Requests :
        InCriticalSection(r) =>
            /\ LockKey(input[r]) \in LockKeys
            /\ r \notin expired => lock[LockKey(input[r])] = r

\* A stored token is that of a request with this key, and the property: a free
\* key is no orphan, an orphan's request failed, the others are at work.
LockExplained ==
    \A k \in LockKeys :
        /\ lock[k] = NoOne => k \notin orphaned
        /\ \A r \in Requests :
              lock[k] = r =>
                  /\ k = LockKey(input[r])
                  /\ IF k \in orphaned THEN pc[r] = "failed" ELSE InCriticalSection(r)

StoredIsFinished ==
    \A b \in Requests :
        booking[b] # "absent" => pc[b] \in Finished /\ input[b].op = "create"

TargetStored ==
    \A r \in Requests :
        \/ pc[r] \in {"update", "notify"}
        \/ pc[r] = "commit" /\ input[r].op = "cancel"
        => booking[input[r].booking] # "absent"

IdleSawNothing ==
    \A r \in Requests : pc[r] = "idle" => saw[r] = {}

SawExact ==
    \A b \in Requests : \A a \in saw[b] :
        /\ booking[a] # "absent"
        /\ booking[a] = "confirmed" => ~ Collide(input[a], input[b])

Stored == StoredIsFinished /\ TargetStored

Seen == IdleSawNothing /\ SawExact

\* What is about to be committed has been announced.
EventSent ==
    \A r \in Requests :
        pc[r] \in {"release", "commit"} =>
            <<Event(r).type, Event(r).booking>> \in Announced

\* Past the first step of validation a request's seat list is sound; a seat that
\* is active now was active when any request arrived.
SeatListSound(r) ==
    /\ \A i, j \in DOMAIN input[r].seats :
           input[r].seats[i] = input[r].seats[j] => i = j
    /\ \A s \in SeatSet(input[r]) :
           HallOf[s] = input[r].hall /\ s \notin retired[r]

RetiredInactive ==
    \A r \in Requests : retired[r] \cap activeSeats = {}

\* The requests whose list has been validated.
Validated(r) ==
    \/ pc[r] \in {"conflicts", "lock", "recheck", "send", "release"}
    \/ pc[r] = "commit" /\ input[r].op = "create"
    \/ booking[r] # "absent"

ValidatedSeatsSound ==
    \A r \in Requests : Validated(r) => SeatListSound(r)

-----------------------------------------------------------------------------
(***************************************************************************)
(* Type correctness.                                                       *)
(***************************************************************************)

\* A body is a create or a cancel body, and its op says which.
LEMMA InputShape ==
    ASSUME NEW in \in Inputs
    PROVE  /\ in \in CreateInput \/ in \in CancelInput
           /\ in.op \in {"create", "cancel"}
           /\ in.op = "create" => /\ in \in CreateInput
                                  /\ LockKey(in) \in LockKeys
           /\ in.op = "cancel" => in \in CancelInput /\ in.booking \in Requests
<1>1. in \in CreateInput \/ in \in CancelInput
  BY InputAssumption
<1>2. CASE in \in CreateInput
  BY <1>2 DEF CreateInput, CancelInput, LockKeys
<1>3. CASE in \in CancelInput
  BY <1>3 DEF CreateInput, CancelInput
<1> QED BY <1>1, <1>2, <1>3

LEMMA TypedInit == Init => Typed
  BY HallAssumption
  DEF Init, Typed, TypeOK, InputKnown, OpMatches, Steps, Status, CreateSteps, CancelSteps

LEMMA TypedNext == Typed /\ [Next]_vars => Typed'
<1> SUFFICES ASSUME Typed, [Next]_vars
             PROVE  Typed'
  OBVIOUS
<1> USE DEF Typed, TypeOK, InputKnown, OpMatches, Steps, Status, CreateSteps,
            CancelSteps, Finished, data, history, Goto, Raise
<1>1. ASSUME NEW r \in Requests, Receive(r)
      PROVE  Typed'
  BY <1>1, InputShape DEF Receive
<1>2. ASSUME NEW r \in Requests, Create(r)
      PROVE  Typed'
  <2>1. CASE FindHall(r)            BY <2>1 DEF FindHall
  <2>2. CASE ValidateSeatsExist(r)  BY <2>2 DEF ValidateSeatsExist
  <2>3. CASE CheckSeatConflicts(r)  BY <2>3 DEF CheckSeatConflicts
  <2>4. CASE AcquireLock(r)
    <3>1. LockKey(input[r]) \in LockKeys
      BY <2>4, InputShape DEF AcquireLock
    <3> QED BY <2>4, <3>1 DEF AcquireLock
  <2>5. CASE RecheckAndFlush(r)     BY <2>5 DEF RecheckAndFlush
  <2>6. CASE ReleaseLock(r)
    <3>1. lock' \in [LockKeys -> Requests \cup {NoOne}]
      BY <2>6 DEF ReleaseLock, CompareAndDelete
    <3> QED BY <2>6, <3>1 DEF ReleaseLock
  <2> QED BY <1>2, <2>1, <2>2, <2>3, <2>4, <2>5, <2>6 DEF Create
<1>3. ASSUME NEW r \in Requests, FindBooking(r)
      PROVE  Typed'
  BY <1>3 DEF FindBooking
<1>4. ASSUME NEW r \in Requests, UpdateStatus(r)
      PROVE  Typed'
  BY <1>4 DEF UpdateStatus
<1>5. ASSUME NEW r \in Requests, SendBookingEvent(r)
      PROVE  Typed'
  <2>1. Event(r) \in [type : {"booking_created", "booking_cancelled"},
                      booking : Requests]
    BY <1>5, InputShape DEF SendBookingEvent, Event
  <2>2. topic' \in Seq([type : {"booking_created", "booking_cancelled"},
                        booking : Requests])
    BY <1>5, <2>1 DEF SendBookingEvent
  <2> QED BY <1>5, <2>2 DEF SendBookingEvent
<1>6. ASSUME NEW r \in Requests, CommitSession(r)
      PROVE  Typed'
  <2>1. booking' \in [Requests -> Status]
    BY <1>6 DEF CommitSession, Written
  <2> QED BY <1>6, <2>1 DEF CommitSession
<1>7. ASSUME NEW r \in Requests, Abort(r)
      PROVE  Typed'
  <2>1. orphaned' \subseteq LockKeys
    BY <1>7 DEF Abort, KeysOf
  <2>2. /\ pc' = [pc EXCEPT ![r] = pc'[r]] /\ pc'[r] \in {"unwind", "failed"}
        /\ pc[r] # "idle"
        /\ pc'[r] = "unwind" => pc[r] \in CreateSteps
    BY <1>7 DEF Abort
  <2> QED BY <1>7, <2>1, <2>2 DEF Abort
<1>8. ASSUME NEW k \in LockKeys, Expire(k)
      PROVE  Typed'
  BY <1>8 DEF Expire
<1>9. CASE Crash
  <2>1. orphaned' \subseteq LockKeys
    BY <1>9 DEF Crash, KeysOf
  <2> QED BY <1>9, <2>1 DEF Crash
<1>10. ASSUME NEW h \in ManagedHalls, SetHallActive(h)
       PROVE  Typed'
  BY <1>10, HallAssumption DEF SetHallActive
<1>11. ASSUME NEW s \in ManagedSeats, DeleteSeat(s)
       PROVE  Typed'
  BY <1>11 DEF DeleteSeat
<1>12. CASE UNCHANGED vars
  BY <1>12 DEF vars
<1> QED
  BY <1>1, <1>2, <1>3, <1>4, <1>5, <1>6, <1>7, <1>8, <1>9, <1>10, <1>11, <1>12
  DEF Next, Handle, Cancel, AllFinished

LEMMA TypedInvariant == Spec => []Typed
  BY TypedInit, TypedNext, PTL DEF Spec

\* Every reachable state is well typed: no handler, failure or crash leaves a
\* request at an unknown step, an unknown status in a row, or a stray lock token.
THEOREM TypeCorrect == Spec => []TypeOK
<1>1. Typed => TypeOK
  BY DEF Typed
<1> QED BY <1>1, TypedInvariant, PTL

-----------------------------------------------------------------------------
(***************************************************************************)
(* The lock.                                                               *)
(***************************************************************************)
LEMMA HoldsLockNext ==
    ASSUME Typed, Typed', HoldsLock, [Next]_vars
    PROVE  HoldsLock'
<1> USE DEF Typed, TypeOK, InputKnown, OpMatches, Steps, Status, CreateSteps,
            CancelSteps, Finished, CriticalSection, InCriticalSection, data, history,
            Goto, Raise, HoldsLock
<1>1. ASSUME NEW r \in Requests, Receive(r)
      PROVE  HoldsLock'
  BY <1>1 DEF Receive, LockKey
<1>2. ASSUME NEW r \in Requests,
             FindHall(r) \/ ValidateSeatsExist(r) \/ CheckSeatConflicts(r)
      PROVE  HoldsLock'
  BY <1>2 DEF FindHall, ValidateSeatsExist, CheckSeatConflicts
<1>3. ASSUME NEW r \in Requests, AcquireLock(r)
      PROVE  HoldsLock'
  <2>1. LockKey(input[r]) \in LockKeys
    BY <1>3, InputShape DEF AcquireLock
  <2>2. CASE lock[LockKey(input[r])] = NoOne
    BY <1>3, <2>1, <2>2, NoOneAssumption DEF AcquireLock
  <2>3. CASE lock[LockKey(input[r])] # NoOne
    BY <1>3, <2>3 DEF AcquireLock
  <2> QED BY <2>2, <2>3
<1>4. ASSUME NEW r \in Requests, RecheckAndFlush(r)
      PROVE  HoldsLock'
  BY <1>4 DEF RecheckAndFlush
<1>5. ASSUME NEW r \in Requests, ReleaseLock(r)
      PROVE  HoldsLock'
  <2> DEFINE k == LockKey(input[r])
  <2>1. CASE lock[k] = r
    <3>1. lock' = [lock EXCEPT ![k] = NoOne] /\ input' = input /\ expired' = expired
      BY <1>5, <2>1 DEF ReleaseLock, CompareAndDelete
    <3>2. ASSUME NEW q \in Requests, InCriticalSection(q)'
          PROVE  q # r /\ InCriticalSection(q)
      BY <1>5, <3>2 DEF ReleaseLock
    <3> QED BY <2>1, <3>1, <3>2
  <2>2. CASE lock[k] # r
    BY <1>5, <2>2 DEF ReleaseLock, CompareAndDelete
  <2> QED BY <2>1, <2>2
<1>6. ASSUME NEW r \in Requests,
             FindBooking(r) \/ UpdateStatus(r) \/ SendBookingEvent(r)
                \/ CommitSession(r) \/ Abort(r)
      PROVE  HoldsLock'
  BY <1>6 DEF FindBooking, UpdateStatus, SendBookingEvent, CommitSession, Abort
<1>7. ASSUME NEW k \in LockKeys, Expire(k)
      PROVE  HoldsLock'
  BY <1>7 DEF Expire
<1>8. CASE Crash
  BY <1>8 DEF Crash
<1>9. ASSUME NEW h \in ManagedHalls, SetHallActive(h)
      PROVE  HoldsLock'
  BY <1>9 DEF SetHallActive
<1>10. ASSUME NEW s \in ManagedSeats, DeleteSeat(s)
       PROVE  HoldsLock'
  BY <1>10 DEF DeleteSeat
<1>11. CASE UNCHANGED vars
  BY <1>11 DEF vars
<1> QED
  BY <1>1, <1>2, <1>3, <1>4, <1>5, <1>6, <1>7, <1>8, <1>9, <1>10, <1>11
  DEF Next, Handle, Create, Cancel, AllFinished

LEMMA HoldsLockInvariant == Spec => []HoldsLock
<1>1. Init => HoldsLock
  BY DEF Init, HoldsLock, InCriticalSection, CriticalSection
<1>2. Typed /\ Typed' /\ HoldsLock /\ [Next]_vars => HoldsLock'
  BY HoldsLockNext
<1> QED BY <1>1, <1>2, TypedInvariant, PTL DEF Spec

\* The Redis lock excludes, for any number of requests and keys: of two requests
\* between SET and release under one key, the TTL took the lock from one.
THEOREM MutualExclusion == Spec => []MutexUnlessExpired
<1>1. HoldsLock => MutexUnlessExpired
  BY DEF HoldsLock, MutexUnlessExpired
<1> QED BY <1>1, HoldsLockInvariant, PTL

LEMMA LockExplainedNext ==
    ASSUME Typed, Typed', LockExplained, [Next]_vars
    PROVE  LockExplained'
<1> USE DEF Typed, TypeOK, InputKnown, OpMatches, Steps, Status, CreateSteps,
            CancelSteps, Finished, CriticalSection, InCriticalSection, data, history,
            Goto, Raise, LockExplained
<1>1. ASSUME NEW r \in Requests, Receive(r)
      PROVE  LockExplained'
  <2>1. \A k \in LockKeys : lock[k] # r
    BY <1>1 DEF Receive
  <2>2. /\ UNCHANGED <<lock, orphaned>>
        /\ \A q \in Requests \ {r} : pc'[q] = pc[q] /\ input'[q] = input[q]
    BY <1>1 DEF Receive
  <2> QED BY <2>1, <2>2
<1>2. ASSUME NEW r \in Requests,
             \/ FindHall(r) \/ ValidateSeatsExist(r) \/ CheckSeatConflicts(r)
             \/ RecheckAndFlush(r) \/ FindBooking(r) \/ UpdateStatus(r)
             \/ SendBookingEvent(r) \/ CommitSession(r)
      PROVE  LockExplained'
  <2>1. /\ UNCHANGED <<input, lock, orphaned>>
        /\ pc[r] # "failed"
        /\ InCriticalSection(r) => InCriticalSection(r)'
        /\ \A q \in Requests \ {r} : pc'[q] = pc[q]
    BY <1>2
    DEF FindHall, ValidateSeatsExist, CheckSeatConflicts, RecheckAndFlush, FindBooking,
        UpdateStatus, SendBookingEvent, CommitSession
  <2> QED BY <2>1
<1>3. ASSUME NEW r \in Requests, AcquireLock(r)
      PROVE  LockExplained'
  <2> DEFINE k == LockKey(input[r])
  <2>1. /\ k \in LockKeys /\ input' = input
        /\ \A q \in Requests \ {r} : pc'[q] = pc[q]
        /\ \A l \in LockKeys : lock[l] # r
    BY <1>3, InputShape DEF AcquireLock
  <2>2. CASE lock[k] = NoOne
    <3>1. /\ lock' = [lock EXCEPT ![k] = r]
          /\ \/ pc'[r] = "recheck" /\ orphaned' = orphaned
             \/ pc'[r] = "failed" /\ orphaned' = orphaned \cup {k}
      BY <1>3, <2>2 DEF AcquireLock
    <3>2. k \notin orphaned /\ r # NoOne
      BY <2>1, <2>2, NoOneAssumption
    <3> QED BY <2>1, <3>1, <3>2
  <2>3. CASE lock[k] # NoOne
    <3>1. UNCHANGED <<lock, orphaned>>
      BY <1>3, <2>3 DEF AcquireLock
    <3> QED BY <2>1, <3>1
  <2> QED BY <2>2, <2>3
<1>4. ASSUME NEW r \in Requests, ReleaseLock(r)
      PROVE  LockExplained'
  <2>1. /\ UNCHANGED <<input, orphaned>>
        /\ \A q \in Requests \ {r} : pc'[q] = pc[q]
        /\ pc[r] \in {"release", "unwind"}
    BY <1>4 DEF ReleaseLock
  <2>2. \A k \in LockKeys :
            lock[k] = r => k = LockKey(input[r]) /\ k \notin orphaned
    BY <2>1
  <2>3. \A k \in LockKeys : lock'[k] = IF lock[k] = r THEN NoOne ELSE lock[k]
    BY <1>4, <2>2 DEF ReleaseLock, CompareAndDelete
  <2> QED BY <2>1, <2>2, <2>3, NoOneAssumption
<1>5. ASSUME NEW r \in Requests, Abort(r)
      PROVE  LockExplained'
  <2>1. /\ UNCHANGED <<input, lock>>
        /\ \A q \in Requests \ {r} : pc'[q] = pc[q]
        /\ pc[r] # "failed"
    BY <1>5 DEF Abort
  <2>2. CASE pc[r] \in {"release", "unwind"}
    <3>1. pc'[r] = "failed" /\ orphaned' = orphaned \cup KeysOf(r)
      BY <1>5, <2>2 DEF Abort
    <3> QED BY <2>1, <3>1, NoOneAssumption DEF KeysOf
  <2>3. CASE pc[r] \notin {"release", "unwind"}
    <3>1. /\ orphaned' = orphaned
          /\ InCriticalSection(r) => InCriticalSection(r)'
      BY <1>5, <2>3 DEF Abort
    <3> QED BY <2>1, <3>1
  <2> QED BY <2>2, <2>3
<1>6. ASSUME NEW k \in LockKeys, Expire(k)
      PROVE  LockExplained'
  BY <1>6, NoOneAssumption DEF Expire
<1>7. CASE Crash
  <2>1. /\ UNCHANGED <<input, lock>>
        /\ \A q \in Requests : InCriticalSection(q) => pc'[q] = "failed"
        /\ \A q \in Requests : pc[q] = "failed" => pc'[q] = "failed"
    BY <1>7 DEF Crash
  <2>2. \A k \in LockKeys :
            k \in orphaned' <=>
                \/ k \in orphaned
                \/ \E q \in Requests : lock[k] = q /\ InCriticalSection(q)
    BY <1>7 DEF Crash, KeysOf
  <2> QED BY <2>1, <2>2, NoOneAssumption
<1>8. ASSUME \/ \E h \in ManagedHalls : SetHallActive(h)
             \/ \E s \in ManagedSeats : DeleteSeat(s)
             \/ UNCHANGED vars
      PROVE  LockExplained'
  <2>1. UNCHANGED <<pc, input, lock, orphaned>>
    BY <1>8 DEF SetHallActive, DeleteSeat, vars
  <2> QED BY <2>1
<1> QED
  BY <1>1, <1>2, <1>3, <1>4, <1>5, <1>6, <1>7, <1>8
  DEF Next, Handle, Create, Cancel, AllFinished

\* A key outlives the work of its request only by a lost reply, a failed release
\* or a crash, for any number of requests, keys, expiries and successors.
THEOREM LocksLeftExplained == Spec => []OrphansExplained
<1>1. Init => LockExplained
  BY NoOneAssumption DEF Init, LockExplained
<1>2. Typed /\ Typed' /\ LockExplained /\ [Next]_vars => LockExplained'
  BY LockExplainedNext
<1>3. LockExplained => OrphansExplained
  BY DEF LockExplained, OrphansExplained
<1> QED BY <1>1, <1>2, <1>3, TypedInvariant, PTL DEF Spec

-----------------------------------------------------------------------------
(***************************************************************************)
(* The rows, and what the second check saw of them.                        *)
(***************************************************************************)
LEMMA StoredNext ==
    ASSUME Typed, Typed', Stored, [Next]_vars
    PROVE  Stored'
<1> USE DEF Typed, TypeOK, InputKnown, OpMatches, Steps, Status, CreateSteps,
            CancelSteps, Finished, data, history, Goto, Raise,
            Stored, StoredIsFinished, TargetStored
<1>1. ASSUME NEW r \in Requests, Receive(r)
      PROVE  Stored'
  BY <1>1 DEF Receive
<1>2. ASSUME NEW r \in Requests, Create(r)
      PROVE  Stored'
  BY <1>2 DEF Create, FindHall, ValidateSeatsExist, CheckSeatConflicts, AcquireLock,
              RecheckAndFlush, ReleaseLock
<1>3. ASSUME NEW r \in Requests, Cancel(r)
      PROVE  Stored'
  BY <1>3 DEF Cancel, FindBooking, UpdateStatus
<1>4. ASSUME NEW r \in Requests, SendBookingEvent(r)
      PROVE  Stored'
  <2>1. booking' = booking /\ input' = input
    BY <1>4 DEF SendBookingEvent
  <2>2. CASE pc[r] = "send"
    <3>1. pc' \in {[pc EXCEPT ![r] = "release"], [pc EXCEPT ![r] = "unwind"]}
      BY <1>4, <2>2 DEF SendBookingEvent
    <3> QED BY <2>1, <2>2, <3>1
  <2>3. CASE pc[r] = "notify"
    <3>1. pc' \in {[pc EXCEPT ![r] = "commit"], [pc EXCEPT ![r] = "failed"]}
      BY <1>4, <2>3 DEF SendBookingEvent
    <3> QED BY <2>1, <2>3, <3>1
  <2> QED BY <1>4, <2>2, <2>3 DEF SendBookingEvent
<1>5. ASSUME NEW r \in Requests, CommitSession(r)
      PROVE  Stored'
  <2>1. CASE input[r].op = "create"
    BY <1>5, <2>1 DEF CommitSession, Written
  <2>2. CASE input[r].op # "create"
    <3>1. /\ input[r].op = "cancel" /\ input[r].booking \in Requests
          /\ booking[input[r].booking] # "absent"
      BY <1>5, <2>2, InputShape DEF CommitSession
    <3> QED BY <1>5, <2>2, <3>1 DEF CommitSession, Written
  <2> QED BY <2>1, <2>2
<1>6. ASSUME NEW r \in Requests, Abort(r)
      PROVE  Stored'
  BY <1>6 DEF Abort
<1>7. ASSUME NEW k \in LockKeys, Expire(k)
      PROVE  Stored'
  BY <1>7 DEF Expire
<1>8. CASE Crash
  BY <1>8 DEF Crash
<1>9. ASSUME NEW h \in ManagedHalls, SetHallActive(h)
      PROVE  Stored'
  BY <1>9 DEF SetHallActive
<1>10. ASSUME NEW s \in ManagedSeats, DeleteSeat(s)
       PROVE  Stored'
  BY <1>10 DEF DeleteSeat
<1>11. CASE UNCHANGED vars
  BY <1>11 DEF vars
<1> QED
  BY <1>1, <1>2, <1>3, <1>4, <1>5, <1>6, <1>7, <1>8, <1>9, <1>10, <1>11
  DEF Next, Handle, AllFinished

LEMMA StoredInvariant == Spec => []Stored
<1>1. Init => Stored
  BY DEF Init, Stored, StoredIsFinished, TargetStored
<1>2. Typed /\ Typed' /\ Stored /\ [Next]_vars => Stored'
  BY StoredNext
<1> QED BY <1>1, <1>2, TypedInvariant, PTL DEF Spec

LEMMA SeenNext ==
    ASSUME Typed, Typed', Stored, Seen, [Next]_vars
    PROVE  Seen'
<1> USE DEF Typed, TypeOK, Steps, Status, CreateSteps, CancelSteps, Finished, data,
            history, Goto, Raise, Seen, IdleSawNothing, SawExact, Stored,
            StoredIsFinished, TargetStored
<1>1. ASSUME NEW r \in Requests, Receive(r)
      PROVE  Seen'
  <2>1. booking[r] = "absent" /\ saw[r] = {}
    BY <1>1 DEF Receive
  <2>2. /\ booking' = booking /\ saw' = saw
        /\ \A q \in Requests \ {r} : input'[q] = input[q] /\ pc'[q] = pc[q]
        /\ pc'[r] # "idle"
    BY <1>1 DEF Receive
  <2>3. ASSUME NEW b \in Requests, NEW a \in saw[b]
        PROVE  a # r /\ b # r /\ a \in Requests
    BY <2>1, <2>3
  <2>4. IdleSawNothing'
    BY <2>2
  <2>5. SawExact'
    <3>1. \A b \in Requests : \A a \in saw[b] :
              Collide(input'[a], input'[b]) <=> Collide(input[a], input[b])
      BY <2>2, <2>3
    <3> QED BY <2>2, <2>3, <3>1
  <2> QED BY <2>4, <2>5
<1>2. ASSUME NEW r \in Requests,
             \/ FindHall(r) \/ ValidateSeatsExist(r) \/ CheckSeatConflicts(r)
             \/ AcquireLock(r) \/ ReleaseLock(r) \/ Cancel(r)
             \/ SendBookingEvent(r) \/ Abort(r)
      PROVE  Seen'
  <2>1. /\ booking' = booking /\ input' = input /\ saw' = saw
        /\ \A q \in Requests : pc'[q] = "idle" => pc[q] = "idle"
    BY <1>2 DEF FindHall, ValidateSeatsExist, CheckSeatConflicts, AcquireLock,
                ReleaseLock, Cancel, FindBooking, UpdateStatus, SendBookingEvent, Abort
  <2> QED BY <2>1 DEF Collide
<1>3. ASSUME NEW r \in Requests, RecheckAndFlush(r)
      PROVE  Seen'
  <2>1. booking' = booking /\ input' = input
        /\ \A q \in Requests : pc'[q] = "idle" => pc[q] = "idle"
    BY <1>3 DEF RecheckAndFlush
  <2>2. CASE HasConflict(input[r])
    <3>1. saw' = saw
      BY <1>3, <2>2 DEF RecheckAndFlush
    <3> QED BY <2>1, <3>1 DEF Collide
  <2>3. CASE ~ HasConflict(input[r])
    <3>1. saw' = [saw EXCEPT ![r] = {b \in Requests : booking[b] # "absent"}]
      BY <1>3, <2>3 DEF RecheckAndFlush
    <3>2. pc[r] = "recheck"
      BY <1>3 DEF RecheckAndFlush
    <3>3. \A a \in Requests : booking[a] = "confirmed" => ~ Collide(input[a], input[r])
      BY <2>3 DEF HasConflict
    <3>4. IdleSawNothing'
      BY <2>1, <3>1, <3>2
    <3>5. SawExact'
      <4>1. ASSUME NEW b \in Requests, NEW a \in saw'[b]
            PROVE  /\ booking[a] # "absent"
                   /\ booking[a] = "confirmed" => ~ Collide(input[a], input[b])
        <5>1. CASE b = r
          BY <3>1, <3>3, <4>1, <5>1
        <5>2. CASE b # r
          BY <3>1, <4>1, <5>2
        <5> QED BY <5>1, <5>2
      <4> QED BY <2>1, <4>1 DEF Collide
    <3> QED BY <3>4, <3>5
  <2> QED BY <2>2, <2>3
<1>4. ASSUME NEW r \in Requests, CommitSession(r)
      PROVE  Seen'
  <2>1. /\ input' = input /\ saw' = saw
        /\ \A q \in Requests : pc'[q] = "idle" => pc[q] = "idle"
    BY <1>4 DEF CommitSession
  <2>2. \A a \in Requests :
            booking[a] # "absent" =>
                /\ booking'[a] # "absent"
                /\ booking'[a] = "confirmed" => booking[a] = "confirmed"
    BY <1>4 DEF CommitSession, Written
  <2> QED BY <2>1, <2>2 DEF Collide
<1>5. ASSUME NEW k \in LockKeys, Expire(k)
      PROVE  Seen'
  BY <1>5 DEF Expire, Collide
<1>6. CASE Crash
  BY <1>6 DEF Crash, Collide
<1>7. ASSUME NEW h \in ManagedHalls, SetHallActive(h)
      PROVE  Seen'
  BY <1>7 DEF SetHallActive, Collide
<1>8. ASSUME NEW s \in ManagedSeats, DeleteSeat(s)
      PROVE  Seen'
  BY <1>8 DEF DeleteSeat, Collide
<1>9. CASE UNCHANGED vars
  BY <1>9 DEF vars, Collide
<1> QED
  BY <1>1, <1>2, <1>3, <1>4, <1>5, <1>6, <1>7, <1>8, <1>9
  DEF Next, Handle, Create, AllFinished

LEMMA SeenInvariant == Spec => []Seen
<1>1. Init => Seen
  BY DEF Init, Seen, IdleSawNothing, SawExact
<1>2. Typed /\ Typed' /\ Stored /\ Seen /\ [Next]_vars => Seen'
  BY SeenNext
<1> QED BY <1>1, <1>2, TypedInvariant, StoredInvariant, PTL DEF Spec

\* No request ever books over a booking its second check could see, for any set
\* of requests, halls, seats and times.
THEOREM NoVisibleDoubleBooking == Spec => []SeenNeverDoubleBooked
<1>1. Seen => SeenNeverDoubleBooked
  BY DEF Seen, SawExact, SeenNeverDoubleBooked
<1> QED BY <1>1, SeenInvariant, PTL

-----------------------------------------------------------------------------
(***************************************************************************)
(* The service implements the ledger.                                      *)
(***************************************************************************)

\* Appending an event announces it, and takes nothing back.
LEMMA AnnouncedAppend ==
    ASSUME NEW r \in Requests, TypeOK, topic' = Append(topic, Event(r))
    PROVE  Announced' = Announced \cup {<<Event(r).type, Event(r).booking>>}
<1>1. /\ DOMAIN topic = 1 .. Len(topic) /\ Len(topic) \in Nat
      /\ DOMAIN topic' = 1 .. Len(topic) + 1
      /\ \A i \in 1 .. Len(topic) : topic'[i] = topic[i]
      /\ topic'[Len(topic) + 1] = Event(r)
  BY DEF TypeOK
<1> QED BY <1>1 DEF Announced

LEMMA EventSentNext ==
    ASSUME Typed, EventSent, [Next]_vars
    PROVE  EventSent'
<1> USE DEF Typed, TypeOK, data, history, Finished, Goto, Raise, EventSent
<1>1. ASSUME NEW r \in Requests, SendBookingEvent(r)
      PROVE  EventSent'
  <2>1. Announced' = Announced \cup {<<Event(r).type, Event(r).booking>>}
    BY <1>1, AnnouncedAppend DEF SendBookingEvent
  <2>2. \A q \in Requests : Event(q)' = Event(q)
    BY <1>1 DEF SendBookingEvent, Event
  <2>3. \A q \in Requests \ {r} : pc'[q] = pc[q]
    BY <1>1 DEF SendBookingEvent
  <2> QED BY <2>1, <2>2, <2>3
<1>2. ASSUME UNCHANGED <<input, topic>>,
             \A r \in Requests :
                 pc'[r] \in {"release", "commit"} => pc[r] \in {"release", "commit"}
      PROVE  EventSent'
  BY <1>2 DEF Event, Announced
<1>3. ASSUME NEW r \in Requests, Receive(r)
      PROVE  EventSent'
  <2>1. /\ \A q \in Requests \ {r} : pc'[q] = pc[q] /\ input'[q] = input[q]
        /\ pc'[r] \notin {"release", "commit"} /\ topic' = topic
    BY <1>3 DEF Receive
  <2> QED BY <2>1 DEF Event, Announced
<1>4. ASSUME NEW r \in Requests,
             \/ FindHall(r) \/ ValidateSeatsExist(r) \/ CheckSeatConflicts(r)
             \/ AcquireLock(r) \/ RecheckAndFlush(r) \/ ReleaseLock(r)
             \/ Cancel(r) \/ CommitSession(r) \/ Abort(r)
      PROVE  EventSent'
  BY <1>2, <1>4
  DEF FindHall, ValidateSeatsExist, CheckSeatConflicts, AcquireLock, RecheckAndFlush,
      ReleaseLock, Cancel, FindBooking, UpdateStatus, CommitSession, Abort
<1>5. ASSUME NEW k \in LockKeys, Expire(k)
      PROVE  EventSent'
  BY <1>2, <1>5 DEF Expire
<1>6. CASE Crash
  BY <1>2, <1>6 DEF Crash
<1>7. ASSUME NEW h \in ManagedHalls, SetHallActive(h)
      PROVE  EventSent'
  BY <1>2, <1>7 DEF SetHallActive
<1>8. ASSUME NEW s \in ManagedSeats, DeleteSeat(s)
      PROVE  EventSent'
  BY <1>2, <1>8 DEF DeleteSeat
<1>9. CASE UNCHANGED vars
  BY <1>2, <1>9 DEF vars
<1> QED
  BY <1>1, <1>3, <1>4, <1>5, <1>6, <1>7, <1>8, <1>9
  DEF Next, Handle, Create, AllFinished

LEMMA EventSentInvariant == Spec => []EventSent
<1>1. Init => EventSent
  BY DEF Init, EventSent
<1>2. Typed /\ EventSent /\ [Next]_vars => EventSent'
  BY EventSentNext
<1> QED BY <1>1, <1>2, TypedInvariant, PTL DEF Spec

LEMMA LedgerInit == Init => Ledger!Init
  BY DEF Init, Ledger!Init, Announced

\* Each step is a step of one booking of the ledger or leaves the ledger alone.
LEMMA LedgerNext ==
    ASSUME Typed, Stored, EventSent, [Next]_vars
    PROVE  [Ledger!Next]_(Ledger!vars)
<1> USE DEF Typed, TypeOK, data, history
<1>1. ASSUME UNCHANGED <<booking, topic>>
      PROVE  UNCHANGED Ledger!vars
  BY <1>1 DEF Ledger!vars, Announced
<1>2. ASSUME NEW r \in Requests, SendBookingEvent(r)
      PROVE  Ledger!Next
  <2>1. /\ Announced' = Announced \cup {<<Event(r).type, Event(r).booking>>}
        /\ UNCHANGED booking
    BY <1>2, AnnouncedAppend DEF SendBookingEvent
  <2>2. CASE pc[r] = "send"
    <3>1. input[r].op = "create" /\ booking[r] = "absent"
      BY <2>2 DEF OpMatches, CreateSteps, Stored, StoredIsFinished, Finished
    <3>2. Ledger!AnnounceCreated(r)
      BY <2>1, <3>1 DEF Ledger!AnnounceCreated, Event
    <3> QED BY <3>2 DEF Ledger!Next
  <2>3. CASE pc[r] = "notify"
    <3>1. /\ input[r].op = "cancel" /\ booking[input[r].booking] # "absent"
          /\ input[r].booking \in Requests
      BY <2>3, InputShape
      DEF InputKnown, OpMatches, CancelSteps, Stored, TargetStored
    <3>2. Ledger!AnnounceCancelled(input[r].booking)
      BY <2>1, <3>1 DEF Ledger!AnnounceCancelled, Event
    <3> QED BY <3>1, <3>2 DEF Ledger!Next
  <2> QED BY <1>2, <2>2, <2>3 DEF SendBookingEvent
<1>3. ASSUME NEW r \in Requests, CommitSession(r)
      PROVE  [Ledger!Next]_(Ledger!vars)
  <2>1. /\ pc[r] = "commit" /\ booking' = Written(r) /\ topic' = topic
        /\ <<Event(r).type, Event(r).booking>> \in Announced
        /\ input[r] \in Inputs
    BY <1>3 DEF CommitSession, EventSent, InputKnown
  <2>2. Announced' = Announced
    BY <2>1 DEF Announced
  <2>3. CASE input[r].op = "create"
    <3>1. booking[r] = "absent"
      BY <2>1 DEF Stored, StoredIsFinished, Finished
    <3>2. Ledger!Confirm(r)
      BY <2>1, <2>2, <2>3, <3>1 DEF Ledger!Confirm, Event, Written
    <3> QED BY <3>2 DEF Ledger!Next
  <2>4. CASE input[r].op # "create"
    <3> DEFINE b == input[r].booking
    <3>1. b \in Requests /\ booking[b] \in {"confirmed", "cancelled"}
      BY <2>1, <2>4, InputShape DEF Stored, TargetStored, Status
    <3>2. booking' = [booking EXCEPT ![b] = "cancelled"]
      BY <2>1, <2>4 DEF Written
    <3>3. CASE booking[b] = "confirmed"
      <4>1. <<"booking_cancelled", b>> \in Announced
        BY <2>1, <2>4 DEF Event
      <4>2. Ledger!Cancel(b)
        BY <2>2, <3>2, <3>3, <4>1 DEF Ledger!Cancel
      <4> QED BY <3>1, <4>2 DEF Ledger!Next
    <3>4. CASE booking[b] = "cancelled"
      <4>1. booking' = booking
        BY <3>1, <3>2, <3>4
      <4> QED BY <1>1, <2>1, <4>1
    <3> QED BY <3>1, <3>3, <3>4
  <2> QED BY <2>3, <2>4
<1>4. ASSUME NEW r \in Requests,
             \/ FindHall(r) \/ ValidateSeatsExist(r) \/ CheckSeatConflicts(r)
             \/ AcquireLock(r) \/ RecheckAndFlush(r) \/ ReleaseLock(r)
             \/ Cancel(r) \/ Receive(r) \/ Abort(r)
      PROVE  UNCHANGED <<booking, topic>>
  BY <1>4
  DEF FindHall, ValidateSeatsExist, CheckSeatConflicts, AcquireLock, RecheckAndFlush,
      ReleaseLock, Cancel, FindBooking, UpdateStatus, Receive, Abort
<1>5. ASSUME \/ \E k \in LockKeys : Expire(k)
             \/ Crash
             \/ \E h \in ManagedHalls : SetHallActive(h)
             \/ \E s \in ManagedSeats : DeleteSeat(s)
             \/ UNCHANGED vars
      PROVE  UNCHANGED <<booking, topic>>
  BY <1>5 DEF Expire, Crash, SetHallActive, DeleteSeat, vars
<1> QED
  BY <1>1, <1>2, <1>3, <1>4, <1>5 DEF Next, Handle, Create, AllFinished

\* The handlers, with their locks, transactions, failures and crashes, implement
\* the ledger for every set of requests: announced before visible, cancelled
\* only after a confirmed booking, cancelled for ever.
THEOREM ImplementsLedger == Spec => KeepsLedger
<1>1. Typed /\ Stored /\ EventSent /\ [Next]_vars => [Ledger!Next]_(Ledger!vars)
  BY LedgerNext
<1> QED
  BY <1>1, LedgerInit, TypedInvariant, StoredInvariant, EventSentInvariant, PTL
  DEF Spec, KeepsLedger, Ledger!Spec

-----------------------------------------------------------------------------
(***************************************************************************)
(* The seat list.                                                          *)
(***************************************************************************)

\* Comparing the number of rows found with the length of the list finds repeated
\* ids as well as missing seats.
LEMMA SeatsExistMeansSound ==
    ASSUME NEW in \in CreateInput, SeatsExist(in)
    PROVE  /\ \A i, j \in DOMAIN in.seats : in.seats[i] = in.seats[j] => i = j
           /\ \A s \in SeatSet(in) : HallOf[s] = in.hall /\ s \in activeSeats
<1> DEFINE n == Len(in.seats)
           found == {s \in SeatSet(in) : HallOf[s] = in.hall /\ s \in activeSeats}
<1>1. in.seats \in Seq(Seats) /\ n \in Nat /\ DOMAIN in.seats = 1 .. n
  BY DEF CreateInput
<1>2. IsFiniteSet(1 .. n) /\ Cardinality(1 .. n) = n
  BY <1>1, FS_Interval
<1>3. in.seats \in Surjection(1 .. n, SeatSet(in))
  BY <1>1 DEF Surjection, SeatSet
<1>4. /\ IsFiniteSet(SeatSet(in))
      /\ Cardinality(SeatSet(in)) <= n
      /\ Cardinality(SeatSet(in)) = n => in.seats \in Injection(1 .. n, SeatSet(in))
  BY <1>2, <1>3, FS_Surjection
<1>5. /\ Cardinality(found) <= Cardinality(SeatSet(in))
      /\ Cardinality(SeatSet(in)) = Cardinality(found) => SeatSet(in) = found
  BY <1>4, FS_Subset
<1>6. Cardinality(found) = n
  BY DEF SeatsExist
<1>7. Cardinality(SeatSet(in)) = n
  BY <1>1, <1>4, <1>5, <1>6, FS_CardinalityType
<1>8. in.seats \in Injection(1 .. n, SeatSet(in)) /\ SeatSet(in) = found
  BY <1>4, <1>5, <1>6, <1>7
<1>9. \A i, j \in 1 .. n : in.seats[i] = in.seats[j] => i = j
  BY <1>8 DEF Injection, IsInjective
<1> QED BY <1>1, <1>8, <1>9

LEMMA RetiredNext ==
    ASSUME Typed, RetiredInactive, [Next]_vars
    PROVE  RetiredInactive'
<1> USE DEF Typed, TypeOK, data, history, RetiredInactive
<1>1. ASSUME NEW r \in Requests, Receive(r)
      PROVE  RetiredInactive'
  BY <1>1 DEF Receive
<1>2. ASSUME NEW s \in ManagedSeats, DeleteSeat(s)
      PROVE  RetiredInactive'
  BY <1>2 DEF DeleteSeat
<1>3. ASSUME UNCHANGED <<activeSeats, retired>>
      PROVE  RetiredInactive'
  BY <1>3
<1>4. ASSUME NEW r \in Requests, Handle(r) \/ Abort(r)
      PROVE  UNCHANGED <<activeSeats, retired>>
  BY <1>4
  DEF Handle, Create, FindHall, ValidateSeatsExist, CheckSeatConflicts, AcquireLock,
      RecheckAndFlush, ReleaseLock, Cancel, FindBooking, UpdateStatus,
      SendBookingEvent, CommitSession, Abort
<1>5. ASSUME \/ \E k \in LockKeys : Expire(k)
             \/ Crash
             \/ \E h \in ManagedHalls : SetHallActive(h)
             \/ UNCHANGED vars
      PROVE  UNCHANGED <<activeSeats, retired>>
  BY <1>5 DEF Expire, Crash, SetHallActive, vars
<1> QED BY <1>1, <1>2, <1>3, <1>4, <1>5 DEF Next, AllFinished

LEMMA RetiredInvariant == Spec => []RetiredInactive
<1>1. Init => RetiredInactive
  BY DEF Init, RetiredInactive
<1>2. Typed /\ RetiredInactive /\ [Next]_vars => RetiredInactive'
  BY RetiredNext
<1> QED BY <1>1, <1>2, TypedInvariant, PTL DEF Spec

LEMMA ValidatedNext ==
    ASSUME Typed, Stored, RetiredInactive, ValidatedSeatsSound, [Next]_vars
    PROVE  ValidatedSeatsSound'
<1> USE DEF Typed, TypeOK, OpMatches, CreateSteps, CancelSteps, Finished, data, history,
            Goto, Raise
<1>1. ASSUME NEW r \in Requests, ValidateSeatsExist(r)
      PROVE  ValidatedSeatsSound'
  <2>1. /\ UNCHANGED <<input, booking, retired>> /\ pc[r] = "seats"
        /\ \A q \in Requests \ {r} : pc'[q] = pc[q]
    BY <1>1 DEF ValidateSeatsExist
  <2>2. \A q \in Requests \ {r} : Validated(q)' => SeatListSound(q)
    BY <2>1 DEF Validated, ValidatedSeatsSound
  <2>3. Validated(r)' => SeatListSound(r)
    <3>1. CASE SeatsExist(input[r])
      <4>1. input[r] \in CreateInput
        BY <2>1, InputShape DEF InputKnown
      <4>2. SeatListSound(r)
        BY <3>1, <4>1, SeatsExistMeansSound DEF SeatListSound, RetiredInactive
      <4> QED BY <4>2
    <3>2. CASE ~ SeatsExist(input[r])
      <4>1. pc'[r] = "failed" /\ booking'[r] = "absent"
        BY <1>1, <2>1, <3>2 DEF ValidateSeatsExist, Stored, StoredIsFinished
      <4> QED BY <4>1 DEF Validated
    <3> QED BY <3>1, <3>2
  <2> QED BY <2>1, <2>2, <2>3 DEF Validated, ValidatedSeatsSound, SeatListSound, SeatSet
<1>2. ASSUME UNCHANGED <<input, retired>>,
             \A q \in Requests : Validated(q)' => Validated(q)
      PROVE  ValidatedSeatsSound'
  BY <1>2 DEF Validated, ValidatedSeatsSound, SeatListSound, SeatSet
<1>3. ASSUME NEW r \in Requests, Receive(r)
      PROVE  ValidatedSeatsSound'
  <2>1. /\ booking' = booking /\ booking[r] = "absent"
        /\ pc'[r] \in {"hall", "find"}
        /\ \A q \in Requests \ {r} : /\ pc'[q] = pc[q] /\ input'[q] = input[q]
                                     /\ retired'[q] = retired[q]
    BY <1>3 DEF Receive, Stored, StoredIsFinished
  <2>2. \A q \in Requests \ {r} : Validated(q)' => SeatListSound(q)
    BY <2>1 DEF Validated, ValidatedSeatsSound
  <2>3. \A q \in Requests \ {r} : Validated(q)' => SeatListSound(q)'
    BY <2>1, <2>2 DEF SeatListSound, SeatSet
  <2>4. ~ Validated(r)'
    BY <2>1 DEF Validated
  <2> QED BY <2>3, <2>4 DEF Validated, ValidatedSeatsSound
<1>4. ASSUME NEW r \in Requests,
             \/ FindHall(r) \/ CheckSeatConflicts(r) \/ AcquireLock(r)
             \/ RecheckAndFlush(r) \/ ReleaseLock(r) \/ Cancel(r) \/ Abort(r)
      PROVE  ValidatedSeatsSound'
  <2>1. UNCHANGED <<input, booking, retired>>
        /\ \A q \in Requests : Validated(q)' => Validated(q)
    BY <1>4
    DEF Validated, FindHall, CheckSeatConflicts, AcquireLock, RecheckAndFlush,
        ReleaseLock, Cancel, FindBooking, UpdateStatus, Abort
  <2> QED BY <1>2, <2>1
<1>5. ASSUME NEW r \in Requests, SendBookingEvent(r)
      PROVE  ValidatedSeatsSound'
  <2>1. /\ UNCHANGED <<input, booking, retired>>
        /\ \A q \in Requests \ {r} : pc'[q] = pc[q]
    BY <1>5 DEF SendBookingEvent
  <2>2. CASE pc[r] = "send"
    BY <1>2, <2>1, <2>2 DEF Validated
  <2>3. CASE pc[r] = "notify"
    <3>1. input[r].op = "cancel" /\ pc'[r] \in {"commit", "failed"}
      BY <1>5, <2>3 DEF SendBookingEvent
    <3> QED BY <1>2, <2>1, <3>1 DEF Validated
  <2> QED BY <1>5, <2>2, <2>3 DEF SendBookingEvent
<1>6. ASSUME NEW r \in Requests, CommitSession(r)
      PROVE  ValidatedSeatsSound'
  <2>1. /\ UNCHANGED <<input, retired>> /\ pc[r] = "commit" /\ booking' = Written(r)
        /\ \A q \in Requests : pc'[q] \in {pc[q], "done", "failed"}
        /\ pc'[r] # "commit" /\ input[r] \in Inputs
    BY <1>6 DEF CommitSession, InputKnown
  <2>2. \A q \in Requests : Validated(q)' => Validated(q)
    <3>1. CASE input[r].op = "create"
      BY <2>1, <3>1 DEF Validated, Written
    <3>2. CASE input[r].op # "create"
      <4>1. booking[input[r].booking] # "absent" /\ input[r].booking \in Requests
        BY <2>1, <3>2, InputShape DEF Stored, TargetStored
      <4> QED BY <2>1, <3>2, <4>1 DEF Validated, Written
    <3> QED BY <3>1, <3>2
  <2> QED BY <1>2, <2>1, <2>2
<1>7. ASSUME \/ \E k \in LockKeys : Expire(k)
             \/ Crash
             \/ \E h \in ManagedHalls : SetHallActive(h)
             \/ \E s \in ManagedSeats : DeleteSeat(s)
             \/ UNCHANGED vars
      PROVE  ValidatedSeatsSound'
  <2>1. UNCHANGED <<input, booking, retired>>
        /\ \A q \in Requests : Validated(q)' => Validated(q)
    BY <1>7 DEF Validated, Expire, Crash, SetHallActive, DeleteSeat, vars
  <2> QED BY <1>2, <2>1
<1> QED
  BY <1>1, <1>3, <1>4, <1>5, <1>6, <1>7 DEF Next, Handle, Create, AllFinished

\* What is stored was validated: the list of every stored booking names different
\* seats, of the booking's hall, none of them inactive when the request came in.
THEOREM StoredSeatLists == Spec => []StoredSeatsSound
<1>1. Init => ValidatedSeatsSound
  BY DEF Init, ValidatedSeatsSound, Validated
<1>2. Typed /\ Stored /\ RetiredInactive /\ ValidatedSeatsSound /\ [Next]_vars
        => ValidatedSeatsSound'
  BY ValidatedNext
<1>3. ValidatedSeatsSound => StoredSeatsSound
  BY DEF ValidatedSeatsSound, Validated, SeatListSound, StoredSeatsSound
<1> QED
  BY <1>1, <1>2, <1>3, TypedInvariant, StoredInvariant, RetiredInvariant, PTL DEF Spec
=============================================================================
