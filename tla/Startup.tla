------------------------------- MODULE Startup -------------------------------
(***************************************************************************)
(* The life of the API process: lifespan connects the Kafka producer with  *)
(* retries (init_kafka), creates the tables, and only then are requests    *)
(* served.  init_redis builds a client and connects to nothing.            *)
(***************************************************************************)
EXTENDS Naturals

CONSTANTS
    ApiRetries,     \* MAX_RETRIES of app/kafka.py
    MaxApiStarts    \* bound: how often the process is started

ASSUME StartupAssumption == ApiRetries \in Nat \ {0} /\ MaxApiStarts \in Nat

VARIABLES
    api,            \* where lifespan stands
    try,            \* the attempt of init_kafka
    producer,       \* the global kafka_producer
    unstopped,      \* history: producers created and not stopped
    apiStarts       \* history: starts of the process

apiVars == <<api, try, producer, unstopped, apiStarts>>

StartupTypeOK ==
    /\ api \in {"down", "connecting", "tables", "serving"}
    /\ try \in 1 .. ApiRetries
    /\ producer \in {"None", "starting", "started"}
    /\ unstopped \in Nat
    /\ apiStarts \in 0 .. MaxApiStarts

StartupInit ==
    /\ api = "down" /\ try = 1
    /\ producer = "None" /\ unstopped = 0
    /\ apiStarts = 0

\* The process ends, and with it what it holds.
Exit ==
    /\ api' = "down" /\ try' = 1
    /\ producer' = "None" /\ unstopped' = 0
    /\ UNCHANGED apiStarts

\* docker-compose starts the API once; later starts are an operator's.
StartApi ==
    /\ api = "down" /\ apiStarts < MaxApiStarts
    /\ api' = "connecting"
    /\ apiStarts' = apiStarts + 1
    /\ UNCHANGED <<try, producer, unstopped>>

-----------------------------------------------------------------------------
(***************************************************************************)
(* init_kafka                                                              *)
(***************************************************************************)
CreateProducer ==
    /\ api = "connecting" /\ producer = "None"
    /\ producer' = "starting" /\ unstopped' = unstopped + 1
    /\ UNCHANGED <<api, try, apiStarts>>

ProducerStarts ==
    /\ api = "connecting" /\ producer = "starting"
    /\ producer' = "started" /\ api' = "tables" /\ try' = 1
    /\ UNCHANGED <<unstopped, apiStarts>>

\* KafkaConnectionError: stop the producer, forget it, sleep, try again; after
\* the last attempt the error leaves lifespan.
ForgetProducer ==                 \* mutant: the failed producer is not stopped
    /\ api = "connecting" /\ producer = "starting"
    /\ \/ /\ try < ApiRetries /\ try' = try + 1
          /\ producer' = "None"
          /\ UNCHANGED <<api, unstopped, apiStarts>>
       \/ try = ApiRetries /\ Exit

RetryUncounted ==                 \* mutant: while True in place of the range
    /\ api = "connecting" /\ producer = "starting"
    /\ producer' = "None" /\ unstopped' = unstopped - 1
    /\ UNCHANGED <<api, try, apiStarts>>

ProducerFails ==
    /\ api = "connecting" /\ producer = "starting"
    /\ \/ /\ try < ApiRetries /\ try' = try + 1
          /\ producer' = "None" /\ unstopped' = unstopped - 1
          /\ UNCHANGED <<api, apiStarts>>
       \/ try = ApiRetries /\ Exit

-----------------------------------------------------------------------------
CreateTables ==
    /\ api = "tables" /\ api' = "serving"
    /\ UNCHANGED <<try, producer, unstopped, apiStarts>>

\* The process ends at any point: lifespan closes the producer and Redis after the
\* last request, the process crashes, or an exception that init_kafka does not
\* catch or that create_tables raises leaves lifespan.
ApiEnds == api # "down" /\ Exit

Lifespan == CreateProducer \/ ProducerStarts \/ ProducerFails \/ CreateTables
StartupNext == StartApi \/ Lifespan \/ ApiEnds
=============================================================================
