------------------------------ MODULE Pipeline ------------------------------
(***************************************************************************)
(* From a booking to the mail about it: the API process (Startup) serves   *)
(* requests that announce and store bookings, as BookingLedger says and    *)
(* Booking implements, and the e-mail worker (Worker) reads the topic.     *)
(***************************************************************************)
EXTENDS Startup, Worker

CONSTANTS
    Bookings,
    MaxEvents       \* bound: length of the topic

ASSUME EventsAssumption == MaxEvents \in Nat

VARIABLE status     \* status[b]: what the database shows of booking b

vars == <<apiVars, workerVars, topic, status>>

Announced == {<<topic[i].type, topic[i].booking>> : i \in DOMAIN topic}
Ledger == INSTANCE BookingLedger WITH announced <- Announced

Events == [type : {"booking_created", "booking_cancelled"}, booking : Bookings]

TypeOK ==
    /\ StartupTypeOK
    /\ WorkerTypeOK
    /\ topic \in Seq(Events) /\ Len(topic) <= MaxEvents
    /\ status \in [Bookings -> {"absent", "confirmed", "cancelled"}]

Init ==
    /\ StartupInit
    /\ WorkerInit
    /\ topic = <<>>
    /\ status = [b \in Bookings |-> "absent"]

\* send_and_wait stores the event; if the reply of the broker is lost, the client
\* sends it again.
Publish(type, b) ==
    \E copies \in 1 .. 2 :
        /\ Len(topic) + copies <= MaxEvents
        /\ topic' = topic \o [i \in 1 .. copies |-> [type |-> type, booking |-> b]]

\* A request goes on, in a process that serves requests.
Serve(b) ==
    /\ api = "serving"
    /\ \/ Publish("booking_created", b) /\ Ledger!AnnounceCreated(b)
       \/ UNCHANGED topic /\ Ledger!Confirm(b)
       \/ Publish("booking_cancelled", b) /\ Ledger!AnnounceCancelled(b)
       \/ UNCHANGED topic /\ Ledger!Cancel(b)

Next ==
    \/ StartupNext /\ UNCHANGED <<workerVars, topic, status>>
    \/ WorkerNext /\ UNCHANGED <<apiVars, status>>
    \/ \E b \in Bookings : Serve(b) /\ UNCHANGED <<apiVars, workerVars>>

Spec == Init /\ [][Next]_vars

\* The event loops of the two processes go on; starts and ends of processes,
\* requests, commits of the position and rejoins are free.
FairSpec ==
    /\ Spec
    /\ WF_vars(Lifespan /\ UNCHANGED <<workerVars, topic, status>>)
    /\ WF_vars(RunWorker /\ UNCHANGED <<apiVars, topic, status>>)
=============================================================================
