------------------------- MODULE PipelineProperties -------------------------
(***************************************************************************)
(* What may become of an event, and what its user may read about a booking.*)
(***************************************************************************)
EXTENDS Pipeline

Mailed == {mails[k].offset : k \in DOMAIN mails}
InWork == IF worker = "mailing" THEN {handed.offset} ELSE {}
Behind == IF committed = NoOffset THEN 1 .. position
                                  ELSE (1 .. position) \cup (1 .. committed)

\* Every event the worker or its group has left behind was mailed, or is lost in
\* one of three ways: its mail failed and was not tried again, the process ended
\* while it was in work, or a start or rejoin of a group without a commit went on
\* behind it.
LossExplained == Behind \ InWork \subseteq Mailed \cup failed \cup cut \cup missed

\* A mail about an event is repeated only under a later assignment of the
\* partition, after a start or a rejoin, and only if no commit covered the event
\* by then: an offset the group has committed is never handed out again.
OncePerAssignment ==
    /\ \A k, l \in DOMAIN mails :
           (k < l /\ mails[k].offset = mails[l].offset)
               => mails[k].assignment < mails[l].assignment
    /\ committed # NoOffset => committed <= position

\* When the worker has caught up, the last mail about a booking none of whose
\* events had an accident is about its last event, and for a cancelled booking it
\* says so: events are announced in order, and a redelivery repeats their order.
MailsOf(b) == {k \in DOMAIN mails : topic[mails[k].offset].booking = b}
EventsOf(b) == {i \in DOMAIN topic : topic[i].booking = b}
Smooth(b) == EventsOf(b) # {} /\ EventsOf(b) \cap (missed \cup failed \cup cut) = {}

LastMailTrue ==
    (worker = "waiting" /\ position = Len(topic)) =>
        \A b \in Bookings : Smooth(b) =>
            \E k \in MailsOf(b) :
                /\ \A l \in MailsOf(b) : l <= k
                /\ \A i \in EventsOf(b) : i <= mails[k].offset
                /\ status[b] = "cancelled" =>
                       topic[mails[k].offset].type = "booking_cancelled"

\* Retries leave no producer running behind: a process that serves requests has
\* one started producer, a process that does not has at most the one it starts.
OneProducer ==
    /\ unstopped <= 1
    /\ api = "serving" => producer = "started" /\ unstopped = 1

\* A worker that stays up, and rejoins finitely often, mails or drops every event.
UpWorkerDrains ==
    <>[](worker # "down") =>
        \A i \in 1 .. MaxEvents : i <= Len(topic) ~> position >= i

\* Neither process retries for ever: it serves, it reads, or it has given up.
StartupsEnd ==
    /\ api \in {"connecting", "tables"} ~> api \in {"serving", "down"}
    /\ worker = "connecting" ~> worker # "connecting"
=============================================================================
