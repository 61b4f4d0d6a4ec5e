------------------------------ MODULE KafkaBus ------------------------------
(***************************************************************************)
(* The event bus every service publishes to: one producer per process,     *)
(* shared by the coroutines that publish at the same time.                 *)
(*                                                                         *)
(* libs/common/kafka_bus.py, with kafka_enabled.  start runs under a lock, *)
(* stop does not; publish takes the producer that is there, and after a    *)
(* failure stops it, sleeps, starts another and tries once more.           *)
(*                                                                         *)
(* Who calls publish, and when, is the composing module's: it takes Call   *)
(* as part of its own step and goes on when the caller is idle again.      *)
(***************************************************************************)
EXTENDS Naturals, FiniteSets

CONSTANTS Callers,      \* coroutines that publish
          Producers,    \* AIOKafkaProducer objects
          NoProducer,   \* _producer is None
          MaxErrors     \* bound: calls that raise, here and where it is composed

ASSUME KafkaAssumption == MaxErrors \in Nat /\ NoProducer \notin Producers \union Callers

VARIABLES producer,  \* _producer
          lock,      \* who holds _lock, or nobody
          caller,    \* publish of each caller
          open,      \* the producers that hold connections
          errors     \* how much of the bound was used

kafkaVars == <<producer, lock, caller, open, errors>>

CallerType == [pc : {"idle", "lock", "starting", "sending", "stopping", "sleep", "raised"},
               held : Producers \union {NoProducer}, retry : BOOLEAN]

KafkaTypeOK ==
    /\ producer \in Producers \union {NoProducer}
    /\ lock \in Callers \union {NoProducer}
    /\ caller \in [Callers -> CallerType]
    /\ open \subseteq Producers
    /\ errors \in 0 .. MaxErrors

Resting == [pc |-> "idle", held |-> NoProducer, retry |-> FALSE]

\* The callers are idle and nothing was started.
KafkaInit ==
    /\ producer = NoProducer /\ lock = NoProducer
    /\ caller = [c \in Callers |-> Resting]
    /\ open = {} /\ errors = 0

Error == errors < MaxErrors /\ errors' = errors + 1

\* c waits at pc, with p in hand.
Move(c, pc, p) == caller' = [caller EXCEPT ![c].pc = pc, ![c].held = p]

\* publish returns, whether the event is on its topic or not.
Return(c) == caller' = [caller EXCEPT ![c] = Resting]

\* publish is called: with a producer, send_and_wait of it.
Call(c) ==
    /\ caller[c].pc = "idle"
    /\ IF producer = NoProducer THEN Move(c, "lock", NoProducer) ELSE Move(c, "sending", producer)
    /\ UNCHANGED <<producer, lock, open, errors>>

\* Mutant of Lock: whether somebody has started meanwhile is not looked at.
LockUnchecked(c) ==
    /\ caller[c].pc = "lock"
    /\ lock = NoProducer
    /\ Move(c, "starting", NoProducer) /\ lock' = c
    /\ UNCHANGED <<producer, open, errors>>

\* start: the lock, and then whether somebody has started meanwhile.
Lock(c) ==
    /\ caller[c].pc = "lock"
    /\ lock = NoProducer
    /\ IF producer = NoProducer THEN Move(c, "starting", NoProducer) /\ lock' = c
       ELSE Move(c, "sending", producer) /\ UNCHANGED lock
    /\ UNCHANGED <<producer, open, errors>>

\* The objects nobody has in hand, of which a new one is taken.
Fresh == Producers \ (open \union {caller[c].held : c \in Callers})

\* One of the twelve attempts is good.
Started(c) ==
    /\ caller[c].pc = "starting"
    /\ Fresh # {}
    /\ producer' = CHOOSE p \in Fresh : TRUE
    /\ open' = open \union {producer'}
    /\ lock' = NoProducer
    /\ Move(c, "sending", producer')
    /\ UNCHANGED errors

\* Mutant of GivesUp: the lock is not given back.
GivesUpLocked(c) ==
    /\ caller[c].pc = "starting"
    /\ Error
    /\ Return(c)
    /\ UNCHANGED <<producer, lock, open>>

\* None is: start returns without a producer, and so does publish.
GivesUp(c) ==
    /\ caller[c].pc = "starting"
    /\ Error
    /\ lock' = NoProducer
    /\ Return(c)
    /\ UNCHANGED <<producer, open>>

Sent(c) ==
    /\ caller[c].pc = "sending"
    /\ caller[c].held \in open
    /\ Return(c)
    /\ UNCHANGED <<producer, lock, open, errors>>

\* The broker fails it, or another caller has stopped the producer.  The second
\* time the event is given up.  The first time stop awaits the stop of the
\* producer that is there now, which need not be the one that failed.
SendFails(c) ==
    /\ caller[c].pc = "sending"
    /\ IF caller[c].held \in open THEN Error ELSE UNCHANGED errors
    /\ CASE caller[c].retry -> Return(c)
         [] ~ caller[c].retry /\ producer = NoProducer -> Move(c, "sleep", NoProducer)
         [] OTHER -> Move(c, "stopping", producer)
    /\ UNCHANGED <<producer, lock, open>>

\* `self._producer = None`, whatever is there by then.
Stopped(c) ==
    /\ caller[c].pc = "stopping"
    /\ open' = open \ {caller[c].held}
    /\ producer' = NoProducer
    /\ Move(c, "sleep", NoProducer)
    /\ UNCHANGED <<lock, errors>>

\* Stopping it raises, out of publish: the same, and the connections may stay.
StopRaises(c) ==
    /\ caller[c].pc = "stopping"
    /\ Error
    /\ open' \in {open, open \ {caller[c].held}}
    /\ producer' = NoProducer
    /\ Move(c, "raised", NoProducer)
    /\ UNCHANGED lock

\* A second later, start once more.
Retry(c) ==
    /\ caller[c].pc = "sleep"
    /\ caller' = [caller EXCEPT ![c].pc = "lock", ![c].retry = TRUE]
    /\ UNCHANGED <<producer, lock, open, errors>>

PublishStep(c) ==
    \/ Lock(c) \/ Started(c) \/ GivesUp(c) \/ Sent(c) \/ SendFails(c)
    \/ Stopped(c) \/ StopRaises(c) \/ Retry(c)

----------------------------------------------------------------------------
(* Properties                                                              *)

\* A producer that holds connections is forgotten, so that nobody ever stops
\* it, in two ways only: stopping it raised, or a second caller stopped the one
\* before it and was late (stop of kafka_bus.py has no lock and clears whatever
\* is there).  No start replaces a producer, and one that fails its callers one
\* at a time leaves nothing open.  That the late caller finds its own producer
\* closed cannot be said: the first stop of it may have raised.
LeftOpenOnlyByLateStop ==
    [][\A p \in open :
        (p = producer /\ p # producer' /\ p \in open') =>
            /\ producer' = NoProducer
            /\ \E c \in Callers :
                 /\ caller[c].pc = "stopping"
                 /\ caller[c].held # p \/ caller'[c].pc = "raised"]_kafkaVars
=============================================================================
