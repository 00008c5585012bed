------------------------------- MODULE Worker -------------------------------
(***************************************************************************)
(* The e-mail worker: one process that reads the topic booking-events in   *)
(* the consumer group "email-workers" and sends a mail for each event.     *)
(*                                                                         *)
(* AIOKafkaConsumer is used with its defaults: the position moves past a   *)
(* record when the record is handed out, a background task commits the     *)
(* position every few seconds (enable_auto_commit), and a group that has   *)
(* never committed starts at the end of the topic (auto_offset_reset       *)
(* "latest").  The topic has one partition; an offset is the number of     *)
(* records up to and including one.                                        *)
(*                                                                         *)
(* A member of a group that loses its session, or is rebalanced, rejoins   *)
(* in the same process and goes on where a new member would.  Each start   *)
(* of the process and each rejoin is an assignment of the partition.       *)
(***************************************************************************)
EXTENDS Naturals, Sequences

CONSTANTS
    MAX_RETRIES,    \* attempts of wait_for_kafka
    MaxAssignments, \* bound: how often the process starts or rejoins the group
    NoOffset        \* a group that has committed nothing

ASSUME WorkerAssumption ==
    /\ MAX_RETRIES \in Nat \ {0}
    /\ MaxAssignments \in Nat
    /\ NoOffset \notin Nat

VARIABLES
    topic,          \* the records of booking-events
    worker,         \* where run_worker stands
    attempt,        \* the attempt of wait_for_kafka
    position,       \* the offset the consumer has read up to
    handed,         \* the record in work, and the assignment it came under
    committed,      \* the offset the group has committed
    mails,          \* the mails that reached their mailbox, in that order
    assignments,    \* history: starts and rejoins so far,
    missed,         \*   offsets skipped by a consumer that began at the end,
    failed,         \*   offsets whose mail failed,
    cut             \*   offsets in work when the process ended

consumer == <<worker, attempt, position, handed, committed>>
fates == <<assignments, missed, failed, cut>>
workerVars == <<consumer, mails, fates>>

Records == [offset : 1 .. Len(topic), assignment : 1 .. MaxAssignments]
NoRecord == [offset |-> 0, assignment |-> 0]

WorkerTypeOK ==
    /\ worker \in {"down", "connecting", "waiting", "mailing"}
    /\ attempt \in 1 .. MAX_RETRIES
    /\ position \in 0 .. Len(topic)
    /\ IF worker = "mailing" THEN handed \in Records ELSE handed = NoRecord
    /\ committed \in (0 .. Len(topic)) \cup {NoOffset}
    /\ mails \in Seq(Records)
    /\ assignments \in 0 .. MaxAssignments
    /\ missed \cup failed \cup cut \subseteq 1 .. Len(topic)

WorkerInit ==
    /\ worker = "down"
    /\ attempt = 1
    /\ position = 0
    /\ handed = NoRecord
    /\ committed = NoOffset
    /\ mails = <<>>
    /\ assignments = 0
    /\ missed = {} /\ failed = {} /\ cut = {}

-----------------------------------------------------------------------------
\* docker-compose starts the worker once; later starts are an operator's.
Start ==
    /\ worker = "down" /\ assignments < MaxAssignments
    /\ worker' = "connecting"
    /\ assignments' = assignments + 1
    /\ UNCHANGED <<attempt, position, handed, committed, mails, missed, failed, cut>>

\* Reading goes on at the offset the group has committed, or at the end.
ResumeAt(offset) ==
    \/ offset # NoOffset /\ position' = offset /\ UNCHANGED missed
    \/ /\ offset = NoOffset /\ position' = Len(topic)
       /\ missed' = missed \cup position + 1 .. Len(topic)

\* consumer.start() returns.
ConsumerStart ==
    /\ worker = "connecting"
    /\ worker' = "waiting" /\ attempt' = 1
    /\ ResumeAt(committed)
    /\ UNCHANGED <<handed, committed, mails, assignments, failed, cut>>

\* It raises: sleep and try again, or give up and leave the process.
ConsumerStartFails ==
    /\ worker = "connecting"
    /\ \/ attempt < MAX_RETRIES /\ attempt' = attempt + 1 /\ UNCHANGED worker
       \/ attempt = MAX_RETRIES /\ worker' = "down" /\ attempt' = 1
    /\ UNCHANGED <<position, handed, committed, mails, fates>>

\* async for msg in consumer
AllButLast ==                     \* mutant: < for <=
    /\ worker = "waiting" /\ position + 1 < Len(topic)
    /\ position' = position + 1
    /\ handed' = [offset |-> position + 1, assignment |-> assignments]
    /\ worker' = "mailing"
    /\ UNCHANGED <<attempt, committed, mails, fates>>

Receive ==
    /\ worker = "waiting" /\ position < Len(topic)
    /\ position' = position + 1
    /\ handed' = [offset |-> position + 1, assignment |-> assignments]
    /\ worker' = "mailing"
    /\ UNCHANGED <<attempt, committed, mails, fates>>

\* process_event and send_email.  Every event has an address and one of the two
\* types: the producer sets both, and none is dropped for the lack of them.  A
\* failure is logged and answered with False, and so is a lost reply of the server
\* to a mail it has accepted.  Without SMTP credentials every send fails.
SendAgain ==                      \* mutant: the send is repeated after a lost reply
    /\ worker = "mailing"
    /\ mails' = mails \o <<handed, handed>>
    /\ worker' = "waiting" /\ handed' = NoRecord
    /\ UNCHANGED <<attempt, position, committed, fates>>

Delivered == mails' = Append(mails, handed)
LoggedFailure == failed' = failed \cup {handed.offset}

ProcessEvent ==
    /\ worker = "mailing" /\ worker' = "waiting" /\ handed' = NoRecord
    /\ \/ Delivered /\ UNCHANGED failed
       \/ Delivered /\ LoggedFailure
       \/ LoggedFailure /\ UNCHANGED mails
    /\ UNCHANGED <<attempt, position, committed, assignments, missed, cut>>

\* The background task of the consumer.
CommitNext ==                     \* mutant: one offset too far
    /\ worker \in {"waiting", "mailing"} /\ committed # position + 1
    /\ committed' = position + 1
    /\ UNCHANGED <<worker, attempt, position, handed, mails, fates>>

CommitEnd ==                      \* mutant: commits what was fetched, not handed out
    /\ worker \in {"waiting", "mailing"} /\ committed # Len(topic)
    /\ committed' = Len(topic)
    /\ UNCHANGED <<worker, attempt, position, handed, mails, fates>>

AutoCommit ==
    /\ worker \in {"waiting", "mailing"} /\ committed # position
    /\ committed' = position
    /\ UNCHANGED <<worker, attempt, position, handed, mails, fates>>

\* The coordinator has given the member up, or the group is rebalanced.  The
\* commit of the position before rejoining succeeds or fails; then the fetched
\* records are dropped and reading resumes.  A record in work stays in work.
Rejoin ==
    /\ worker \in {"waiting", "mailing"} /\ assignments < MaxAssignments
    /\ assignments' = assignments + 1
    /\ committed' \in {committed, position}
    /\ ResumeAt(committed')
    /\ UNCHANGED <<worker, attempt, handed, mails, failed, cut>>

\* A mail in work may have been accepted all the same.
CutOff ==
    \/ /\ worker = "mailing" /\ cut' = cut \cup {handed.offset}
       /\ Delivered \/ UNCHANGED mails
    \/ worker # "mailing" /\ UNCHANGED <<cut, mails>>

\* An interrupt cancels run_worker; its finally clause stops the consumer, which
\* commits the position once more.
Stop ==
    /\ worker \in {"waiting", "mailing"}
    /\ worker' = "down" /\ handed' = NoRecord
    /\ committed' = position
    /\ CutOff
    /\ UNCHANGED <<attempt, position, assignments, missed, failed>>

\* SIGKILL, or a stop of the container: Python as process 1 ignores SIGTERM.
Kill ==
    /\ worker # "down"
    /\ worker' = "down" /\ attempt' = 1 /\ handed' = NoRecord
    /\ CutOff
    /\ UNCHANGED <<position, committed, assignments, missed, failed>>

-----------------------------------------------------------------------------
Connect == ConsumerStart \/ ConsumerStartFails
RunWorker == Connect \/ Receive \/ ProcessEvent
WorkerNext ==
    /\ Start \/ RunWorker \/ AutoCommit \/ Rejoin \/ Stop \/ Kill
    /\ UNCHANGED topic
=============================================================================
