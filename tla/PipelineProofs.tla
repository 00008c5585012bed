--------------------------- MODULE PipelineProofs ---------------------------
(***************************************************************************)
(* Theorems about the API process, the topic and the e-mail worker, for    *)
(* any number of bookings, events, restarts and retries.                   *)
(***************************************************************************)
EXTENDS PipelineProperties, SequenceTheorems, TLAPS

(***************************************************************************)
(* Types, and one producer.                                                *)
(***************************************************************************)
\* A producer exists exactly while the global names it, and it has started once
\* init_kafka has returned.
ProducerCounted ==
    /\ unstopped = IF producer = "None" THEN 0 ELSE 1
    /\ api \in {"tables", "serving"} => producer = "started"

\* A worker that runs was started.
Started == worker # "down" => assignments > 0

Typed == TypeOK /\ ProducerCounted /\ Started

LEMMA TypedInit == Init => Typed
<1> SUFFICES ASSUME Init PROVE Typed
  OBVIOUS
<1> USE DEF Init
<1>1. StartupTypeOK /\ ProducerCounted
  BY StartupAssumption DEF StartupInit, StartupTypeOK, ProducerCounted
<1>2. WorkerTypeOK /\ Started
  BY WorkerAssumption DEF WorkerInit, WorkerTypeOK, Started
<1>3. topic \in Seq(Events) /\ Len(topic) <= MaxEvents
  BY EventsAssumption
<1> QED BY <1>1, <1>2, <1>3 DEF Typed, TypeOK

LEMMA StartupTyped ==
    ASSUME StartupTypeOK, ProducerCounted, StartupNext
    PROVE  StartupTypeOK' /\ ProducerCounted'
<1> USE StartupAssumption DEF StartupTypeOK, ProducerCounted
<1>1. CASE StartApi
  BY <1>1 DEF StartApi
<1>2. CASE CreateProducer
  BY <1>2 DEF CreateProducer
<1>3. CASE ProducerStarts
  BY <1>3 DEF ProducerStarts
<1>4. CASE ProducerFails
  BY <1>4 DEF ProducerFails, Exit
<1>5. CASE CreateTables
  BY <1>5 DEF CreateTables
<1>6. CASE ApiEnds
  BY <1>6 DEF ApiEnds, Exit
<1> QED BY <1>1, <1>2, <1>3, <1>4, <1>5, <1>6 DEF StartupNext, Lifespan

\* The mails after a delivery.
LEMMA DeliveredMails ==
    ASSUME NEW S, mails \in Seq(S), handed \in S, Delivered
    PROVE  /\ mails' \in Seq(S)
           /\ DOMAIN mails' = 1 .. Len(mails) + 1
           /\ \A k \in 1 .. Len(mails) : mails'[k] = mails[k]
           /\ mails'[Len(mails) + 1] = handed
BY DEF Delivered

\* Where reading resumes, and what it skips.
LEMMA ResumeTyped ==
    ASSUME Len(topic) \in Nat, position \in 0 .. Len(topic), missed \subseteq 1 .. Len(topic),
           NEW c \in (0 .. Len(topic)) \cup {NoOffset}, ResumeAt(c)
    PROVE  position' \in 0 .. Len(topic) /\ missed' \subseteq 1 .. Len(topic)
<1>1. CASE c # NoOffset /\ position' = c /\ UNCHANGED missed
  BY <1>1
<1>2. CASE position' = Len(topic) /\ missed' = missed \cup (position + 1) .. Len(topic)
  <2>1. (position + 1) .. Len(topic) \subseteq 1 .. Len(topic)
    OBVIOUS
  <2>2. position' \in 0 .. Len(topic)
    BY <1>2
  <2>3. missed' = missed \cup (position + 1) .. Len(topic)
    BY <1>2
  <2>4. missed' \subseteq 1 .. Len(topic)
    BY <2>1, <2>3, Zenon
  <2> QED BY <2>2, <2>4
<1> QED BY <1>1, <1>2 DEF ResumeAt

LEMMA WorkerTyped ==
    ASSUME WorkerTypeOK, Started, topic \in Seq(Events), WorkerNext
    PROVE  WorkerTypeOK' /\ Started'
<1> USE WorkerAssumption DEF WorkerTypeOK, Started
<1>1. Len(topic) \in Nat /\ topic' = topic /\ Records' = Records
  BY DEF WorkerNext, Records
<1>2. worker = "mailing" => handed \in Records /\ handed.offset \in 1 .. Len(topic)
  BY <1>1 DEF Records
<1>3. ASSUME worker = "mailing", Delivered
      PROVE  mails' \in Seq(Records)
  BY <1>2, <1>3, DeliveredMails
<1>4. CASE Start
  BY <1>1, <1>4 DEF Start
<1>5. CASE ConsumerStart
  <2>1. position' \in 0 .. Len(topic) /\ missed' \subseteq 1 .. Len(topic)
    BY <1>1, <1>5, ResumeTyped DEF ConsumerStart
  <2>2. (missed \cup failed \cup cut)' \subseteq 1 .. Len(topic)
    BY <1>5, <2>1 DEF ConsumerStart
  <2> QED BY <1>1, <1>5, <2>1, <2>2 DEF ConsumerStart
<1>6. CASE ConsumerStartFails
  BY <1>1, <1>6 DEF ConsumerStartFails, fates
<1>7. CASE Receive
  <2>1. position' \in 0 .. Len(topic) /\ handed' \in Records
    BY <1>1, <1>7 DEF Receive, Records
  <2> QED BY <1>1, <1>7, <2>1 DEF Receive, fates
<1>8. CASE ProcessEvent
  <2>1. mails' \in Seq(Records)
    BY <1>3, <1>8 DEF ProcessEvent
  <2>2. failed' \subseteq 1 .. Len(topic)
    BY <1>2, <1>8 DEF ProcessEvent, LoggedFailure
  <2> QED BY <1>1, <1>8, <2>1, <2>2 DEF ProcessEvent
<1>9. CASE AutoCommit
  BY <1>1, <1>9 DEF AutoCommit, fates
<1>10. CASE Rejoin
  <2>1. committed' \in (0 .. Len(topic)) \cup {NoOffset}
    BY <1>10 DEF Rejoin
  <2>2. position' \in 0 .. Len(topic) /\ missed' \subseteq 1 .. Len(topic)
    BY <1>1, <1>10, <2>1, ResumeTyped DEF Rejoin
  <2>3. (missed \cup failed \cup cut)' \subseteq 1 .. Len(topic)
    BY <1>10, <2>2 DEF Rejoin
  <2>4. assignments' \in 0 .. MaxAssignments /\ Started'
    BY <1>10 DEF Rejoin
  <2>5. /\ UNCHANGED <<worker, attempt, handed, mails>>
        /\ worker \in {"waiting", "mailing"}
    BY <1>10 DEF Rejoin
  <2> QED BY <1>1, <2>1, <2>2, <2>3, <2>4, <2>5
<1>11. ASSUME CutOff PROVE mails' \in Seq(Records) /\ cut' \subseteq 1 .. Len(topic)
  BY <1>2, <1>3, <1>11 DEF CutOff
<1>12. CASE Stop
  BY <1>1, <1>11, <1>12 DEF Stop
<1>13. CASE Kill
  BY <1>1, <1>11, <1>13 DEF Kill
<1> QED BY <1>4, <1>5, <1>6, <1>7, <1>8, <1>9, <1>10, <1>12, <1>13
        DEF WorkerNext, RunWorker, Connect

\* What a request of the API leaves of the topic, and adds to it.
LEMMA ServeTyped ==
    ASSUME TypeOK, NEW b \in Bookings, Serve(b)
    PROVE  /\ topic' \in Seq(Events) /\ Len(topic') <= MaxEvents
           /\ Len(topic) <= Len(topic')
           /\ \A i \in 1 .. Len(topic) : topic'[i] = topic[i]
           /\ status' \in [Bookings -> {"absent", "confirmed", "cancelled"}]
<1> USE EventsAssumption DEF TypeOK
<1>1. ASSUME NEW type \in {"booking_created", "booking_cancelled"}, Publish(type, b)
      PROVE  /\ topic' \in Seq(Events) /\ Len(topic') <= MaxEvents
             /\ Len(topic) <= Len(topic')
             /\ \A i \in 1 .. Len(topic) : topic'[i] = topic[i]
  <2>1. PICK copies \in 1 .. 2 :
            /\ Len(topic) + copies <= MaxEvents
            /\ topic' = topic \o [i \in 1 .. copies |-> [type |-> type, booking |-> b]]
    BY <1>1 DEF Publish
  <2> DEFINE more == [i \in 1 .. copies |-> [type |-> type, booking |-> b]]
  <2>2. more \in Seq(Events) /\ Len(more) = copies
    <3>1. \A i \in 1 .. copies : [type |-> type, booking |-> b] \in Events
      BY DEF Events
    <3> QED BY <3>1
  <2> HIDE DEF more
  <2>3. topic' = topic \o more
    BY <2>1 DEF more
  <2> QED BY <2>1, <2>2, <2>3
<1>2. CASE Publish("booking_created", b) /\ Ledger!AnnounceCreated(b)
  BY <1>1, <1>2 DEF Ledger!AnnounceCreated
<1>3. CASE UNCHANGED topic /\ Ledger!Confirm(b)
  BY <1>3 DEF Ledger!Confirm
<1>4. CASE Publish("booking_cancelled", b) /\ Ledger!AnnounceCancelled(b)
  BY <1>1, <1>4 DEF Ledger!AnnounceCancelled
<1>5. CASE UNCHANGED topic /\ Ledger!Cancel(b)
  BY <1>5 DEF Ledger!Cancel
<1> QED BY <1>2, <1>3, <1>4, <1>5 DEF Serve

LEMMA SeqOfMore == ASSUME NEW S, NEW T, S \subseteq T, NEW s \in Seq(S) PROVE s \in Seq(T)
OBVIOUS

LEMMA TypedNext == Typed /\ [Next]_vars => Typed'
<1> SUFFICES ASSUME Typed, [Next]_vars PROVE Typed'
  OBVIOUS
<1> USE DEF Typed
<1>1. CASE StartupNext /\ UNCHANGED <<workerVars, topic, status>>
  <2>1. StartupTypeOK' /\ ProducerCounted'
    BY <1>1, StartupTyped DEF TypeOK
  <2> QED BY <1>1, <2>1 DEF TypeOK, WorkerTypeOK, Started, workerVars, consumer, fates,
                            Records
<1>2. CASE WorkerNext /\ UNCHANGED <<apiVars, status>>
  <2>1. WorkerTypeOK' /\ Started' /\ topic' = topic
    BY <1>2, WorkerTyped DEF TypeOK, WorkerNext
  <2> QED BY <1>2, <2>1 DEF TypeOK, StartupTypeOK, ProducerCounted, apiVars
<1>3. ASSUME NEW b \in Bookings, Serve(b), UNCHANGED <<apiVars, workerVars>>
      PROVE  Typed'
  <2>1. StartupTypeOK' /\ ProducerCounted' /\ Started'
    BY <1>3 DEF TypeOK, StartupTypeOK, ProducerCounted, Started, apiVars, workerVars,
                consumer, fates
  <2>2. Len(topic) \in Nat /\ Len(topic') \in Nat /\ Len(topic) <= Len(topic')
    BY <1>3, ServeTyped DEF TypeOK
  <2>3. Records \subseteq Records'
    BY <2>2 DEF Records
  <2>4. mails' \in Seq(Records')
    BY <1>3, <2>3, SeqOfMore DEF TypeOK, WorkerTypeOK, workerVars
  <2>5. WorkerTypeOK'
    BY <1>3, <2>2, <2>3, <2>4 DEF TypeOK, WorkerTypeOK, workerVars, consumer, fates
  <2> QED BY <1>3, <2>1, <2>5, ServeTyped DEF TypeOK
<1>4. CASE UNCHANGED vars
  BY <1>4 DEF vars, TypeOK, StartupTypeOK, WorkerTypeOK, ProducerCounted, Started, apiVars,
              workerVars, consumer, fates, Records
<1> QED BY <1>1, <1>2, <1>3, <1>4 DEF Next

LEMMA AlwaysTyped == Spec => []Typed
BY TypedInit, TypedNext, PTL DEF Spec

\* In every reachable state the processes, the topic and the mails are well typed.
THEOREM TypeCorrect == Spec => []TypeOK
BY AlwaysTyped, PTL DEF Typed

\* The retries of init_kafka leave no producer running behind, and a process that serves
\* requests has one.
THEOREM RetriesLeaveOneProducer == Spec => []OneProducer
<1>1. Typed => OneProducer
  BY DEF Typed, ProducerCounted, OneProducer
<1> QED BY <1>1, AlwaysTyped, PTL

(***************************************************************************)
(* What is lost, and what is mailed twice.                                 *)
(***************************************************************************)
LEMMA LossInit == Init => LossExplained
<1> SUFFICES ASSUME Init PROVE LossExplained
  OBVIOUS
<1>1. Behind = {}
  BY DEF Init, WorkerInit, Behind
<1> QED BY <1>1 DEF LossExplained

\* A delivery adds the event in work to the mailed ones.
LEMMA DeliveredIsMailed ==
    ASSUME TypeOK, worker = "mailing", Delivered
    PROVE  Mailed' = Mailed \cup {handed.offset}
<1>1. mails \in Seq(Records) /\ handed \in Records
  BY DEF TypeOK, WorkerTypeOK
<1>2. /\ DOMAIN mails' = 1 .. Len(mails) + 1 /\ DOMAIN mails = 1 .. Len(mails)
      /\ Len(mails) \in Nat
      /\ \A k \in 1 .. Len(mails) : mails'[k] = mails[k]
      /\ mails'[Len(mails) + 1] = handed
  BY <1>1, DeliveredMails
<1> QED BY <1>2 DEF Mailed

LEMMA LossNext == Typed /\ LossExplained /\ [Next]_vars => LossExplained'
<1> SUFFICES ASSUME Typed, LossExplained, [Next]_vars PROVE LossExplained'
  OBVIOUS
<1> DEFINE Lost == failed \cup cut \cup missed
<1>1. /\ position \in Nat /\ (committed \in Nat \/ committed = NoOffset) /\ NoOffset \notin Nat
      /\ Len(topic) \in Nat /\ TypeOK
  BY WorkerAssumption DEF Typed, TypeOK, WorkerTypeOK
<1>2. Behind \ InWork \subseteq Mailed \cup Lost
  BY DEF LossExplained
<1>3. ASSUME Behind' \ InWork' \subseteq Behind \ InWork,
             Mailed \subseteq Mailed', Lost \subseteq Lost'
      PROVE  LossExplained'
  BY <1>2, <1>3 DEF LossExplained
\* Reading resumes: what it comes to be behind without having read it is missed.
<1>4. ASSUME ResumeAt(committed'), committed' \in {committed, position},
             UNCHANGED <<mails, failed, cut>>, InWork' = InWork
      PROVE  LossExplained'
  <2>1. CASE committed' # NoOffset /\ position' = committed' /\ UNCHANGED missed
    <3>1. Behind' \subseteq Behind
      BY <1>1, <1>4, <2>1 DEF Behind
    <3> QED BY <1>3, <1>4, <2>1, <3>1 DEF Mailed
  <2>2. CASE /\ committed' = NoOffset /\ position' = Len(topic)
             /\ missed' = missed \cup position + 1 .. Len(topic)
    <3>1. Behind' \subseteq Behind \cup missed'
      BY <1>1, <1>4, <2>2 DEF Behind
    <3> QED BY <1>2, <1>4, <2>2, <3>1 DEF LossExplained, Mailed
  <2> QED BY <1>4, <2>1, <2>2 DEF ResumeAt
<1>5. ASSUME WorkerNext PROVE LossExplained'
  <2>1. CASE Start
    BY <1>3, <2>1 DEF Start, Behind, InWork, Mailed
  <2>2. CASE ConsumerStart
    BY <1>4, <2>2 DEF ConsumerStart, InWork
  <2>3. CASE ConsumerStartFails
    BY <1>3, <2>3 DEF ConsumerStartFails, fates, Behind, InWork, Mailed
  <2>4. CASE Receive
    BY <1>1, <1>3, <2>4 DEF Receive, fates, Behind, InWork, Mailed
  <2>5. CASE ProcessEvent
    <3>1. Behind' = Behind /\ InWork = {handed.offset} /\ InWork' = {}
      BY <2>5 DEF ProcessEvent, Behind, InWork
    <3>2. /\ Mailed \subseteq Mailed' /\ Lost \subseteq Lost'
          /\ handed.offset \in Mailed' \cup failed'
      BY <1>1, <2>5, DeliveredIsMailed DEF ProcessEvent, LoggedFailure, Mailed
    <3> QED BY <1>2, <3>1, <3>2 DEF LossExplained
  <2>6. CASE AutoCommit
    BY <1>1, <1>3, <2>6 DEF AutoCommit, fates, Behind, InWork, Mailed
  <2>7. CASE Rejoin
    BY <1>4, <2>7 DEF Rejoin, InWork
  <2>8. ASSUME CutOff, worker' = "down" PROVE
            /\ Mailed \subseteq Mailed' /\ cut \subseteq cut' /\ InWork \subseteq cut'
            /\ InWork' = {}
    BY <1>1, <2>8, DeliveredIsMailed DEF CutOff, InWork, Mailed
  <2>9. CASE Stop
    <3>1. Behind' \subseteq Behind
      BY <1>1, <2>9 DEF Stop, Behind
    <3> QED BY <1>2, <2>8, <2>9, <3>1 DEF Stop, LossExplained
  <2>10. CASE Kill
    <3>1. Behind' = Behind
      BY <2>10 DEF Kill, Behind
    <3> QED BY <1>2, <2>8, <2>10, <3>1 DEF Kill, LossExplained
  <2> QED BY <1>5, <2>1, <2>2, <2>3, <2>4, <2>5, <2>6, <2>7, <2>9, <2>10
        DEF WorkerNext, RunWorker, Connect
<1>6. CASE UNCHANGED workerVars
  BY <1>3, <1>6 DEF workerVars, consumer, fates, Behind, InWork, Mailed
<1> QED BY <1>5, <1>6 DEF Next, vars

\* The worker loses an event in one of three ways only: its mail failed, the process
\* ended with it in work, or it was behind a start or rejoin of a group that had
\* committed nothing.
THEOREM LossesExplained == Spec => []LossExplained
<1>1. Spec => [](Typed /\ LossExplained)
  BY AlwaysTyped, LossInit, LossNext, PTL DEF Spec
<1> QED BY <1>1, PTL

\* The mails under the present assignment are about events it has handed out, and the
\* event in work was mailed under earlier assignments only.
MailsPassed ==
    \A k \in DOMAIN mails :
        /\ mails[k].assignment <= assignments
        /\ mails[k].assignment = assignments
               => worker # "connecting" /\ mails[k].offset <= position

HandedNew ==
    worker = "mailing" =>
        /\ handed.assignment <= assignments
        /\ handed.assignment = assignments => handed.offset <= position
        /\ \A k \in DOMAIN mails :
               mails[k].offset = handed.offset => mails[k].assignment < handed.assignment

MailedOnce == OncePerAssignment /\ MailsPassed /\ HandedNew

CommittedBehind == committed # NoOffset => committed <= position

LEMMA CommitNeverAhead == Typed /\ CommittedBehind /\ [Next]_vars => CommittedBehind'
<1> SUFFICES ASSUME Typed, CommittedBehind, [Next]_vars PROVE CommittedBehind'
  OBVIOUS
<1>1. /\ position \in Nat /\ (committed \in Nat \/ committed = NoOffset) /\ NoOffset \notin Nat
      /\ Len(topic) \in Nat
  BY WorkerAssumption DEF Typed, TypeOK, WorkerTypeOK
<1>2. CASE WorkerNext
  BY <1>1, <1>2
  DEF WorkerNext, RunWorker, Connect, Start, ConsumerStart, ConsumerStartFails, Receive,
      ProcessEvent, AutoCommit, Rejoin, Stop, Kill, ResumeAt, CommittedBehind
<1>3. CASE UNCHANGED workerVars
  BY <1>3 DEF workerVars, consumer, CommittedBehind
<1> QED BY <1>2, <1>3 DEF Next, vars

LEMMA OnceNext ==
    Typed /\ CommittedBehind' /\ MailedOnce /\ [Next]_vars => MailedOnce'
<1> SUFFICES ASSUME Typed, CommittedBehind', MailedOnce, [Next]_vars PROVE MailedOnce'
  OBVIOUS
<1>1. /\ position \in Nat /\ assignments \in Nat /\ Len(topic) \in Nat
      /\ mails \in Seq(Records)
      /\ worker = "mailing" => handed \in Records
  BY DEF Typed, TypeOK, WorkerTypeOK
<1>2. /\ DOMAIN mails = 1 .. Len(mails) /\ Len(mails) \in Nat
      /\ \A k \in DOMAIN mails : mails[k] \in Records
  BY <1>1
<1>3. \A m \in Records : m.offset \in Nat /\ m.assignment \in Nat
  BY <1>1, WorkerAssumption DEF Records
<1> USE DEF MailedOnce
<1>4. ASSUME worker = "mailing", worker' \in {"waiting", "down"}, Delivered,
             UNCHANGED <<position, assignments>>
      PROVE  MailedOnce'
  <2>1. /\ DOMAIN mails' = 1 .. Len(mails) + 1
        /\ \A k \in 1 .. Len(mails) : mails'[k] = mails[k]
        /\ mails'[Len(mails) + 1] = handed
    BY <1>1, <1>4, DeliveredMails
  <2>2. ASSUME NEW k \in DOMAIN mails', NEW l \in DOMAIN mails', k < l,
               mails'[k].offset = mails'[l].offset
        PROVE  mails'[k].assignment < mails'[l].assignment
    <3>1. k \in DOMAIN mails
      BY <1>2, <2>1, <2>2
    <3>2. CASE l \in DOMAIN mails
      BY <1>2, <2>1, <2>2, <3>1, <3>2 DEF OncePerAssignment
    <3>3. CASE l = Len(mails) + 1
      BY <1>2, <1>4, <2>1, <2>2, <3>1, <3>3 DEF HandedNew
    <3> QED BY <1>2, <2>1, <3>2, <3>3
  <2>3. OncePerAssignment'
    BY <2>2 DEF OncePerAssignment, CommittedBehind
  <2>4. MailsPassed'
    BY <1>2, <1>4, <2>1 DEF MailsPassed, HandedNew
  <2> QED BY <1>4, <2>3, <2>4 DEF HandedNew
<1>5. ASSUME UNCHANGED mails, MailsPassed', HandedNew'
      PROVE  MailedOnce'
  BY <1>5 DEF OncePerAssignment, CommittedBehind
<1>6. ASSUME WorkerNext PROVE MailedOnce'
  \* A new assignment: every mail and every record in work is of an earlier one.
  <2>1. ASSUME assignments' = assignments + 1, UNCHANGED <<mails, handed>>,
               worker' = "mailing" => worker = "mailing"
        PROVE  MailedOnce'
    <3>1. MailsPassed'
      BY <1>1, <1>2, <1>3, <2>1 DEF MailsPassed
    <3>2. HandedNew'
      BY <1>1, <1>2, <1>3, <2>1 DEF HandedNew
    <3> QED BY <1>5, <2>1, <3>1, <3>2
  <2>2. CASE Start
    BY <2>1, <2>2 DEF Start
  <2>3. CASE ConsumerStart
    <3>1. MailsPassed'
      BY <1>1, <1>2, <1>3, <2>3 DEF ConsumerStart, MailsPassed
    <3> QED BY <1>5, <2>3, <3>1 DEF ConsumerStart, HandedNew
  <2>4. CASE ConsumerStartFails
    BY <1>5, <2>4 DEF ConsumerStartFails, fates, MailsPassed, HandedNew
  <2>5. CASE Receive
    <3>1. MailsPassed'
      BY <1>1, <1>2, <1>3, <2>5 DEF Receive, fates, MailsPassed
    <3>2. HandedNew'
      BY <1>1, <1>2, <1>3, <2>5 DEF Receive, fates, MailsPassed, HandedNew
    <3> QED BY <1>5, <2>5, <3>1, <3>2 DEF Receive
  <2>6. CASE ProcessEvent
    <3>1. CASE Delivered
      BY <1>4, <2>6, <3>1 DEF ProcessEvent
    <3>2. CASE UNCHANGED mails
      BY <1>5, <2>6, <3>2 DEF ProcessEvent, MailsPassed, HandedNew
    <3> QED BY <2>6, <3>1, <3>2 DEF ProcessEvent
  <2>7. CASE AutoCommit
    BY <1>5, <2>7 DEF AutoCommit, fates, MailsPassed, HandedNew
  <2>8. CASE Rejoin
    BY <2>1, <2>8 DEF Rejoin
  <2>9. ASSUME CutOff, worker' = "down", UNCHANGED <<position, assignments>>
        PROVE  MailedOnce'
    <3>1. CASE worker = "mailing" /\ Delivered
      BY <1>4, <2>9, <3>1
    <3>2. CASE UNCHANGED mails
      BY <1>5, <2>9, <3>2 DEF MailsPassed, HandedNew
    <3> QED BY <2>9, <3>1, <3>2 DEF CutOff
  <2>10. CASE Stop
    BY <2>9, <2>10 DEF Stop
  <2>11. CASE Kill
    BY <2>9, <2>11 DEF Kill
  <2> QED BY <1>6, <2>2, <2>3, <2>4, <2>5, <2>6, <2>7, <2>8, <2>10, <2>11
        DEF WorkerNext, RunWorker, Connect
<1>7. CASE UNCHANGED workerVars
  BY <1>5, <1>7 DEF workerVars, consumer, fates, MailsPassed, HandedNew
<1> QED BY <1>6, <1>7 DEF Next, vars

\* An event is mailed again only under a later assignment, after a start or a rejoin,
\* and never once the group has committed it.
THEOREM MailedOncePerAssignment == Spec => []OncePerAssignment
<1>1. Init => CommittedBehind /\ MailedOnce
  BY DEF Init, WorkerInit, CommittedBehind, MailedOnce, OncePerAssignment, MailsPassed,
         HandedNew
<1>2. Spec => [](Typed /\ CommittedBehind /\ MailedOnce)
  BY <1>1, AlwaysTyped, CommitNeverAhead, OnceNext, PTL DEF Spec
<1>3. MailedOnce => OncePerAssignment
  BY DEF MailedOnce
<1> QED BY <1>2, <1>3, PTL

(***************************************************************************)
(* What the last mail about a booking says.                                *)
(***************************************************************************)
\* The announcements of a booking: no creation after a cancellation.
EventOrder ==
    \A b \in Bookings :
        /\ \A i, j \in EventsOf(b) :
               i < j /\ topic[i].type = "booking_cancelled"
                   => topic[j].type = "booking_cancelled"
        /\ (\E i \in EventsOf(b) : topic[i].type = "booking_cancelled")
               => status[b] # "absent"
        /\ status[b] = "cancelled"
               => \E i \in EventsOf(b) : topic[i].type = "booking_cancelled"

\* Of the events of a smooth booking that the worker is done with, none is later than
\* the last mail about it.
LastMailed ==
    \A b \in Bookings : Smooth(b) =>
        \A i \in EventsOf(b) : (i <= position /\ i \notin InWork) =>
            \E k \in MailsOf(b) : (\A l \in MailsOf(b) : l <= k) /\ i <= mails[k].offset

\* What reading has passed beyond the event in work, by a rejoin, is missed.
SkippedMissed == worker = "mailing" => (handed.offset + 1) .. position \subseteq missed

LEMMA PublishAppends ==
    ASSUME TypeOK, NEW type, NEW c, Publish(type, c)
    PROVE  /\ Len(topic) \in Nat /\ Len(topic') \in Nat /\ Len(topic) <= Len(topic')
           /\ DOMAIN topic = 1 .. Len(topic) /\ DOMAIN topic' = 1 .. Len(topic')
           /\ \A i \in DOMAIN topic : topic'[i] = topic[i]
           /\ \A i \in DOMAIN topic' \ DOMAIN topic :
                  topic'[i] = [type |-> type, booking |-> c]
<1>1. PICK copies \in 1 .. 2 :
          topic' = topic \o [i \in 1 .. copies |-> [type |-> type, booking |-> c]]
  BY DEF Publish
<1> DEFINE E == [i \in 1 .. copies |-> [type |-> type, booking |-> c]]
<1>2. E \in Seq({[type |-> type, booking |-> c]}) /\ Len(E) = copies
  OBVIOUS
<1>3. \A i \in 1 .. copies : E[i] = [type |-> type, booking |-> c]
  OBVIOUS
<1> DEFINE T == Events \cup {[type |-> type, booking |-> c]}
<1>4. topic \in Seq(T) /\ E \in Seq(T)
  BY <1>2, SeqOfMore DEF TypeOK
<1> HIDE DEF E, T
<1> QED BY <1>1, <1>2, <1>3, <1>4 DEF E

LEMMA EventOrderNext == Typed /\ EventOrder /\ [Next]_vars => EventOrder'
<1> SUFFICES ASSUME Typed, EventOrder, [Next]_vars PROVE EventOrder'
  OBVIOUS
<1>1. CASE UNCHANGED <<topic, status>>
  BY <1>1 DEF EventOrder, EventsOf
<1>2. ASSUME NEW c \in Bookings, Serve(c) PROVE EventOrder'
  <2>1. TypeOK /\ status \in [Bookings -> {"absent", "confirmed", "cancelled"}]
    BY DEF Typed, TypeOK
  <2>2. CASE Publish("booking_created", c) /\ Ledger!AnnounceCreated(c)
    <3>1. status' = status /\ status[c] = "absent"
      BY <2>2 DEF Ledger!AnnounceCreated
    <3>2. \A b \in Bookings : \A i \in EventsOf(b)' :
              \/ i \in EventsOf(b) /\ topic'[i] = topic[i]
              \/ b = c /\ topic'[i].type = "booking_created"
      BY <2>1, <2>2, PublishAppends DEF EventsOf
    <3>3. \A b \in Bookings : \A i \in EventsOf(b) : i \in EventsOf(b)' /\ topic'[i] = topic[i]
      BY <2>1, <2>2, PublishAppends DEF EventsOf
    <3>4. \A i \in EventsOf(c)' : topic'[i].type # "booking_cancelled"
      BY <3>1, <3>2 DEF EventOrder
    <3> QED BY <3>1, <3>2, <3>3, <3>4 DEF EventOrder
  <2>3. CASE UNCHANGED topic /\ Ledger!Confirm(c)
    BY <2>1, <2>3 DEF Ledger!Confirm, EventOrder, EventsOf
  <2>4. CASE Publish("booking_cancelled", c) /\ Ledger!AnnounceCancelled(c)
    <3>1. status' = status /\ status[c] # "absent"
      BY <2>4 DEF Ledger!AnnounceCancelled
    <3>2. \A b \in Bookings : \A i \in EventsOf(b)' :
              \/ i \in EventsOf(b) /\ topic'[i] = topic[i]
              \/ b = c /\ topic'[i].type = "booking_cancelled" /\ i > Len(topic)
      BY <2>1, <2>4, PublishAppends DEF EventsOf
    <3>3. \A b \in Bookings : \A i \in EventsOf(b) :
              i \in EventsOf(b)' /\ topic'[i] = topic[i] /\ i <= Len(topic)
      BY <2>1, <2>4, PublishAppends DEF EventsOf
    <3>4. \A b \in Bookings : EventsOf(b)' \subseteq Nat
      BY <2>1, <2>4, PublishAppends DEF EventsOf
    <3>5. Len(topic) \in Nat
      BY <2>1 DEF TypeOK
    <3>6. ASSUME NEW b \in Bookings, NEW i \in EventsOf(b)', NEW j \in EventsOf(b)', i < j,
                 topic'[i].type = "booking_cancelled"
          PROVE  topic'[j].type = "booking_cancelled"
      BY <3>2, <3>3, <3>4, <3>5, <3>6 DEF EventOrder
    <3> QED BY <3>1, <3>2, <3>3, <3>6 DEF EventOrder
  <2>5. CASE UNCHANGED topic /\ Ledger!Cancel(c)
    <3>1. \E i \in EventsOf(c) : topic[i].type = "booking_cancelled"
      BY <2>5 DEF Ledger!Cancel, Announced, EventsOf
    <3> QED BY <2>1, <2>5, <3>1 DEF Ledger!Cancel, EventOrder, EventsOf
  <2> QED BY <1>2, <2>2, <2>3, <2>4, <2>5 DEF Serve
<1> QED BY <1>1, <1>2 DEF Next, WorkerNext, vars

\* A delivery adds a mail to those of one booking.
LEMMA DeliveredMailsOf ==
    ASSUME Typed, worker = "mailing", Delivered, topic' = topic, NEW b
    PROVE  /\ MailsOf(b)' = MailsOf(b) \cup IF topic[handed.offset].booking = b
                                            THEN {Len(mails) + 1} ELSE {}
           /\ \A k \in MailsOf(b) : mails'[k] = mails[k] /\ k <= Len(mails)
           /\ mails'[Len(mails) + 1] = handed /\ Len(mails) \in Nat
           /\ \A k \in MailsOf(b)' : k <= Len(mails) + 1
<1>1. mails \in Seq(Records) /\ handed \in Records
  BY DEF Typed, TypeOK, WorkerTypeOK
<1>2. /\ DOMAIN mails' = 1 .. Len(mails) + 1 /\ DOMAIN mails = 1 .. Len(mails)
      /\ Len(mails) \in Nat
      /\ \A k \in 1 .. Len(mails) : mails'[k] = mails[k]
      /\ mails'[Len(mails) + 1] = handed
  BY <1>1, DeliveredMails
<1> QED BY <1>2 DEF MailsOf

LEMMA MailOffsets ==
    ASSUME Typed
    PROVE  /\ DOMAIN mails \subseteq Nat
           /\ \A k \in DOMAIN mails : mails[k].offset \in 1 .. Len(topic)
<1>1. DOMAIN mails \subseteq Nat /\ \A k \in DOMAIN mails : mails[k] \in Records
  BY DEF Typed, TypeOK, WorkerTypeOK
<1> QED BY <1>1 DEF Records

LEMMA SkippedNext == Typed /\ CommittedBehind /\ SkippedMissed /\ [Next]_vars => SkippedMissed'
<1> SUFFICES ASSUME Typed, CommittedBehind, SkippedMissed, [Next]_vars PROVE SkippedMissed'
  OBVIOUS
<1>1. /\ position \in Nat /\ (committed \in Nat \/ committed = NoOffset) /\ NoOffset \notin Nat
      /\ Len(topic) \in Nat /\ worker = "mailing" => handed.offset \in Nat
  BY WorkerAssumption DEF Typed, TypeOK, WorkerTypeOK, Records
<1>2. CASE Receive
  BY <1>1, <1>2 DEF Receive, SkippedMissed
<1>3. CASE Rejoin
  <2> SUFFICES ASSUME worker = "mailing"
               PROVE  (handed.offset + 1) .. position' \subseteq missed'
    BY <1>3 DEF Rejoin, SkippedMissed
  <2>1. CASE position' = committed' /\ missed' = missed /\ committed' # NoOffset
    BY <1>1, <1>3, <2>1 DEF Rejoin, SkippedMissed, CommittedBehind
  <2>2. CASE position' = Len(topic) /\ missed' = missed \cup position + 1 .. Len(topic)
    BY <1>1, <1>3, <2>2 DEF SkippedMissed
  <2> QED BY <1>3, <2>1, <2>2 DEF Rejoin, ResumeAt
<1>4. CASE Start \/ Connect \/ ProcessEvent \/ AutoCommit \/ Stop \/ Kill
  BY <1>4 DEF Start, Connect, ConsumerStart, ConsumerStartFails, ProcessEvent, AutoCommit,
              Stop, Kill, fates, SkippedMissed
<1>5. CASE UNCHANGED workerVars
  BY <1>5 DEF workerVars, consumer, fates, SkippedMissed
<1> QED BY <1>2, <1>3, <1>4, <1>5 DEF Next, WorkerNext, RunWorker, vars

LEMMA LastMailedNext ==
    Typed /\ CommittedBehind /\ SkippedMissed /\ LastMailed /\ [Next]_vars => LastMailed'
<1> SUFFICES ASSUME Typed, CommittedBehind, SkippedMissed, LastMailed, [Next]_vars
             PROVE  LastMailed'
  OBVIOUS
<1>1. /\ position \in Nat /\ (committed \in Nat \/ committed = NoOffset) /\ NoOffset \notin Nat
      /\ Len(topic) \in Nat /\ position <= Len(topic) /\ TypeOK
      /\ DOMAIN topic = 1 .. Len(topic)
  BY WorkerAssumption DEF Typed, TypeOK, WorkerTypeOK
<1>2. \A b : \A i \in EventsOf(b) : i \in 1 .. Len(topic)
  BY <1>1 DEF EventsOf
<1>3. worker = "mailing" => handed.offset \in 1 .. Len(topic) /\ InWork = {handed.offset}
  BY DEF Typed, TypeOK, WorkerTypeOK, Records, InWork
<1>4. ASSUME UNCHANGED <<topic, mails>>, missed \subseteq missed', failed \subseteq failed',
             cut \subseteq cut',
             \A b \in Bookings : Smooth(b)' =>
                 \A i \in EventsOf(b) : (i <= position' /\ i \notin InWork')
                     => (i <= position /\ i \notin InWork)
      PROVE  LastMailed'
  BY <1>4 DEF LastMailed, Smooth, EventsOf, MailsOf
\* A delivery of an event of another booking.
<1>5. ASSUME worker = "mailing", Delivered, UNCHANGED <<topic, position>>,
             missed \subseteq missed', failed \subseteq failed', cut \subseteq cut',
             NEW b \in Bookings, topic[handed.offset].booking # b, Smooth(b)',
             NEW i \in EventsOf(b)', i <= position'
      PROVE  \E k \in MailsOf(b)' : (\A l \in MailsOf(b)' : l <= k) /\ i <= mails'[k].offset
  <2>1. Smooth(b) /\ i \in EventsOf(b) /\ i \notin InWork
    BY <1>3, <1>5 DEF Smooth, EventsOf
  <2>2. PICK k \in MailsOf(b) : (\A l \in MailsOf(b) : l <= k) /\ i <= mails[k].offset
    BY <1>5, <2>1 DEF LastMailed
  <2> QED BY <1>5, <2>2, DeliveredMailsOf
\* Reading resumes: further back, or after events that are missed.
<1>6. ASSUME ResumeAt(committed'), committed' \in {committed, position}, InWork' = InWork,
             UNCHANGED <<topic, mails, failed, cut>>
      PROVE  LastMailed'
  <2>1. CASE committed' # NoOffset /\ position' = committed' /\ UNCHANGED missed
    <3>1. \A b : \A i \in EventsOf(b) : i <= position' => i <= position
      BY <1>1, <1>2, <1>6, <2>1 DEF CommittedBehind
    <3> QED BY <1>4, <1>6, <2>1, <3>1
  <2>2. CASE position' = Len(topic) /\ missed' = missed \cup position + 1 .. Len(topic)
    <3>1. ASSUME NEW b \in Bookings, Smooth(b)', NEW i \in EventsOf(b)
          PROVE  i <= position
      <4>1. i \notin missed'
        BY <1>6, <3>1 DEF Smooth, EventsOf
      <4> QED BY <1>1, <1>2, <2>2, <4>1
    <3> QED BY <1>4, <1>6, <2>2, <3>1
  <2> QED BY <1>6, <2>1, <2>2 DEF ResumeAt
<1>7. ASSUME WorkerNext PROVE LastMailed'
  <2> USE <1>1
  <2>1. CASE Start
    BY <1>4, <1>7, <2>1 DEF Start, WorkerNext, InWork
  <2>2. CASE ConsumerStart
    BY <1>6, <1>7, <2>2 DEF ConsumerStart, WorkerNext, InWork
  <2>3. CASE ConsumerStartFails
    BY <1>4, <1>7, <2>3 DEF ConsumerStartFails, WorkerNext, fates, InWork
  <2>4. CASE Receive
    <3>1. \A b : \A i \in EventsOf(b) : i <= position + 1 /\ i # position + 1 => i <= position
      BY <1>2
    <3> QED BY <1>4, <1>7, <2>4, <3>1 DEF Receive, WorkerNext, fates, InWork
  <2>5. CASE ProcessEvent
    <3>1. ASSUME NEW b \in Bookings, Smooth(b)', NEW i \in EventsOf(b)', i <= position'
          PROVE  \E k \in MailsOf(b)' :
                     (\A l \in MailsOf(b)' : l <= k) /\ i <= mails'[k].offset
      <4>1. CASE topic[handed.offset].booking = b
        <5>1. handed.offset \in EventsOf(b)'
          BY <1>3, <1>7, <2>5, <4>1 DEF EventsOf, WorkerNext, ProcessEvent
        <5>2. Delivered
          BY <2>5, <3>1, <5>1 DEF ProcessEvent, LoggedFailure, Smooth
        <5>3. Len(mails) + 1 \in MailsOf(b)' /\ mails'[Len(mails) + 1] = handed
              /\ \A l \in MailsOf(b)' : l <= Len(mails) + 1
          BY <1>7, <2>5, <4>1, <5>2, DeliveredMailsOf DEF ProcessEvent, WorkerNext
        <5>4. i \notin missed /\ i \in Nat /\ i <= position
          BY <1>2, <1>7, <2>5, <3>1 DEF Smooth, EventsOf, ProcessEvent, WorkerNext
        <5>5. i <= handed.offset
          BY <1>3, <2>5, <5>4 DEF ProcessEvent, SkippedMissed
        <5> QED BY <5>3, <5>5
      <4>2. CASE topic[handed.offset].booking # b /\ Delivered
        BY <1>5, <1>7, <2>5, <3>1, <4>2 DEF ProcessEvent, LoggedFailure, WorkerNext
      <4>3. CASE topic[handed.offset].booking # b /\ UNCHANGED mails
        <5>1. Smooth(b) /\ i \in EventsOf(b) /\ i \notin InWork /\ MailsOf(b)' = MailsOf(b)
          BY <1>3, <1>7, <2>5, <3>1, <4>3
          DEF Smooth, EventsOf, MailsOf, ProcessEvent, LoggedFailure, WorkerNext
        <5> QED BY <2>5, <3>1, <4>3, <5>1 DEF LastMailed, ProcessEvent
      <4> QED BY <2>5, <4>1, <4>2, <4>3 DEF ProcessEvent
    <3> QED BY <3>1 DEF LastMailed
  <2>6. CASE AutoCommit
    BY <1>4, <1>7, <2>6 DEF AutoCommit, WorkerNext, fates, InWork
  <2>7. CASE Rejoin
    BY <1>6, <1>7, <2>7 DEF Rejoin, WorkerNext, InWork
  <2>8. ASSUME CutOff, worker' = "down", UNCHANGED <<position, missed, failed>>
        PROVE  LastMailed'
    <3>1. CASE worker # "mailing" \/ UNCHANGED mails
      <4>1. ASSUME NEW b \in Bookings, Smooth(b)', NEW i \in EventsOf(b), i <= position
            PROVE  i \notin InWork
        BY <1>7, <2>8, <4>1 DEF CutOff, Smooth, EventsOf, InWork, WorkerNext
      <4> QED BY <1>4, <1>7, <2>8, <3>1, <4>1 DEF CutOff, WorkerNext
    <3>2. CASE worker = "mailing" /\ Delivered
      <4>1. ASSUME NEW b \in Bookings, Smooth(b)', NEW i \in EventsOf(b)', i <= position'
            PROVE  \E k \in MailsOf(b)' :
                       (\A l \in MailsOf(b)' : l <= k) /\ i <= mails'[k].offset
        <5>1. topic[handed.offset].booking # b
          <6>1. handed.offset \in DOMAIN topic' /\ handed.offset \in cut'
            BY <1>3, <1>7, <2>8, <3>2 DEF CutOff, WorkerNext
          <6> QED BY <1>7, <4>1, <6>1 DEF Smooth, EventsOf, WorkerNext
        <5> QED BY <1>5, <1>7, <2>8, <3>2, <4>1, <5>1 DEF CutOff, WorkerNext
      <4> QED BY <4>1 DEF LastMailed
    <3> QED BY <2>8, <3>1, <3>2 DEF CutOff
  <2>9. CASE Stop
    BY <2>8, <2>9 DEF Stop
  <2>10. CASE Kill
    BY <2>8, <2>10 DEF Kill
  <2> QED BY <1>7, <2>1, <2>2, <2>3, <2>4, <2>5, <2>6, <2>7, <2>9, <2>10
        DEF WorkerNext, RunWorker, Connect
<1>8. ASSUME NEW c \in Bookings, Serve(c), UNCHANGED workerVars
      PROVE  LastMailed'
  <2>1. UNCHANGED <<worker, position, handed, mails, missed, failed, cut>>
    BY <1>8 DEF workerVars, consumer, fates
  <2>2. /\ Len(topic') \in Nat /\ Len(topic) <= Len(topic') /\ DOMAIN topic' = 1 .. Len(topic')
        /\ \A i \in 1 .. Len(topic) : topic'[i] = topic[i]
    BY <1>1, <1>8, ServeTyped
  <2>3. \A k \in DOMAIN mails : mails[k].offset \in 1 .. Len(topic)
    BY MailOffsets
  <2>4. \A b \in Bookings : MailsOf(b)' = MailsOf(b)
    BY <2>1, <2>2, <2>3 DEF MailsOf
  <2>5. \A b \in Bookings : /\ EventsOf(b) \subseteq EventsOf(b)'
                            /\ \A i \in EventsOf(b)' : i <= position => i \in EventsOf(b)
    BY <1>1, <2>2 DEF EventsOf
  <2>6. \A b \in Bookings : \A i \in EventsOf(b)' :
            Smooth(b)' /\ i <= position => Smooth(b) /\ i \in EventsOf(b)
    BY <2>1, <2>5 DEF Smooth
  <2>7. InWork' = InWork
    BY <2>1 DEF InWork
  <2> QED BY <2>1, <2>4, <2>6, <2>7 DEF LastMailed
<1>9. CASE UNCHANGED <<workerVars, topic>>
  BY <1>4, <1>9 DEF workerVars, consumer, fates, InWork
<1> QED BY <1>7, <1>8, <1>9 DEF Next, vars

LEMMA LastMailIsTrue == Typed /\ EventOrder /\ LastMailed => LastMailTrue
<1> SUFFICES ASSUME Typed, EventOrder, LastMailed, worker = "waiting", position = Len(topic),
                    NEW b \in Bookings, Smooth(b)
             PROVE  \E k \in MailsOf(b) :
                        /\ \A l \in MailsOf(b) : l <= k
                        /\ \A i \in EventsOf(b) : i <= mails[k].offset
                        /\ status[b] = "cancelled" =>
                               topic[mails[k].offset].type = "booking_cancelled"
  BY DEF LastMailTrue
<1>1. \A i \in EventsOf(b) : i \in 1 .. Len(topic) /\ i \notin InWork
  BY DEF EventsOf, Typed, TypeOK, InWork
<1>2. \A i \in EventsOf(b) :
          \E k \in MailsOf(b) : (\A l \in MailsOf(b) : l <= k) /\ i <= mails[k].offset
  BY <1>1 DEF LastMailed
<1>3. PICK j \in EventsOf(b) : TRUE
  BY DEF Smooth
<1>4. PICK k \in MailsOf(b) : (\A l \in MailsOf(b) : l <= k)
  BY <1>2, <1>3
<1>5. MailsOf(b) \subseteq Nat /\ mails[k].offset \in EventsOf(b) /\ mails[k].offset \in Nat
  <2>1. DOMAIN mails \subseteq Nat /\ \A l \in DOMAIN mails : mails[l].offset \in 1 .. Len(topic)
    BY MailOffsets
  <2>2. DOMAIN topic = 1 .. Len(topic)
    BY DEF Typed, TypeOK
  <2> QED BY <2>1, <2>2 DEF MailsOf, EventsOf
<1>6. \A i \in EventsOf(b) : i <= mails[k].offset
  BY <1>2, <1>4, <1>5
<1>7. status[b] = "cancelled" => topic[mails[k].offset].type = "booking_cancelled"
  <2> SUFFICES ASSUME status[b] = "cancelled"
               PROVE  topic[mails[k].offset].type = "booking_cancelled"
    OBVIOUS
  <2>1. PICK i \in EventsOf(b) : topic[i].type = "booking_cancelled"
    BY DEF EventOrder
  <2>2. i = mails[k].offset \/ i < mails[k].offset
    BY <1>1, <1>5, <1>6
  <2> QED BY <1>5, <2>1, <2>2 DEF EventOrder
<1> QED BY <1>4, <1>6, <1>7

\* A worker that has caught up has told the user of a booking none of whose events had an
\* accident how it stands, restarts and redelivery notwithstanding.
THEOREM LastMailsTrue == Spec => []LastMailTrue
<1>1. Init => EventOrder /\ CommittedBehind /\ SkippedMissed /\ LastMailed
  BY DEF Init, WorkerInit, EventOrder, CommittedBehind, SkippedMissed, LastMailed, EventsOf
<1>2. Spec => [](Typed /\ EventOrder /\ CommittedBehind /\ SkippedMissed /\ LastMailed)
  BY <1>1, AlwaysTyped, EventOrderNext, CommitNeverAhead, SkippedNext, LastMailedNext, PTL
  DEF Spec
<1> QED BY <1>2, LastMailIsTrue, PTL
=============================================================================
