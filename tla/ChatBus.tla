------------------------------ MODULE ChatBus ------------------------------
(***************************************************************************)
(* The chat: a message is committed, published to those who listen, put on *)
(* the event bus and audited, one await after the other; a client lists    *)
(* the messages and listens, in either order.                              *)
(*                                                                         *)
(* apps/backend/app/api/v1/routes/chat.py, RedisBroadcast of core/bus.py,  *)
(* and add_audit_event of libs/common/audit_store.py.  The event bus is    *)
(* KafkaBus, whose callers are the posts.                                  *)
(***************************************************************************)
EXTENDS KafkaBus, Sequences, SequencesExt

CONSTANTS Posts,     \* what clients post: a request each
          Clients,   \* clients that follow the conversation
          Cap        \* the length of a subscriber's queue (100)

ASSUME ChatAssumption == Posts = Callers /\ Cap \in Nat \ {0}

VARIABLES post,      \* post_message of each post
          messages,  \* the committed messages
          audited,   \* those with a row message_created
          published, \* history: what was published, in order
          client     \* what each client has seen and its subscription

chatVars == <<post, messages, audited, published, client>>
vars == <<kafkaVars, chatVars>>

PostPc == {"new", "publish", "kafka", "kafka_wait", "audit", "audit_wait", "ok", "failed"}

\* on says that the client has a subscription, reads that its _reader runs.
ClientType == [on : BOOLEAN, reads : BOOLEAN, listens_first : BOOLEAN, listed : SUBSET Posts,
               since : Nat, wire : Seq(Posts), queue : Seq(Posts),
               got : Seq(Posts), dropped : SUBSET Posts]

TypeOK ==
    /\ KafkaTypeOK
    /\ post \in [Posts -> PostPc]
    /\ messages \subseteq Posts
    /\ audited \subseteq Posts
    /\ published \in Seq(Posts) /\ IsInjective(published)
    /\ client \in [Clients -> ClientType]
    /\ \A x \in Clients : Len(client[x].queue) <= Cap

Step(r, pc) == post' = [post EXCEPT ![r] = pc]

----------------------------------------------------------------------------
(* post_message                                                            *)

Commit(r) ==
    /\ post[r] = "new"
    /\ messages' = messages \union {r}
    /\ Step(r, "publish")
    /\ UNCHANGED <<kafkaVars, audited, published, client>>

\* chat_bus.publish: the broker hands it to every connection that listens now.
Publish(r) ==
    /\ post[r] = "publish"
    /\ published' = Append(published, r)
    /\ client' = [x \in Clients |->
                    IF client[x].reads THEN [client[x] EXCEPT !.wire = Append(@, r)]
                    ELSE client[x]]
    /\ Step(r, "kafka")
    /\ UNCHANGED <<kafkaVars, messages, audited>>

\* kafka_bus.publish of the message
KafkaEvent(r) ==
    /\ post[r] = "kafka"
    /\ Call(r)
    /\ Step(r, "kafka_wait")
    /\ UNCHANGED <<messages, audited, published, client>>

\* add_audit_event once it returns: the row ...
Audit(r) ==
    /\ post[r] = "kafka_wait"
    /\ caller[r].pc = "idle"
    /\ audited' = audited \union {r}
    /\ Step(r, "audit")
    /\ UNCHANGED <<kafkaVars, messages, published, client>>

\* ... and an event of its own.
AuditEvent(r) ==
    /\ post[r] = "audit"
    /\ Call(r)
    /\ Step(r, "audit_wait")
    /\ UNCHANGED <<messages, audited, published, client>>

Answer(r) ==
    /\ post[r] = "audit_wait"
    /\ caller[r].pc = "idle"
    /\ Step(r, "ok")
    /\ UNCHANGED <<kafkaVars, messages, audited, published, client>>

\* kafka_bus.publish raised: so does post_message.
BusRaised(r) ==
    /\ caller[r].pc = "raised"
    /\ Return(r)
    /\ Step(r, "failed")
    /\ UNCHANGED <<producer, lock, open, errors, messages, audited, published, client>>

\* A commit or the chat bus raises: the client is told of a failure, whatever
\* was committed before.
Raise(r) ==
    /\ \/ post[r] \in {"new", "publish"}
       \/ post[r] = "kafka_wait" /\ caller[r].pc = "idle"
    /\ Error
    /\ Step(r, "failed")
    /\ UNCHANGED <<producer, lock, caller, open, messages, audited, published, client>>

PostStep(r) ==
    \/ Publish(r) \/ KafkaEvent(r) \/ Audit(r) \/ AuditEvent(r) \/ Answer(r)
    \/ BusRaised(r)

----------------------------------------------------------------------------
(* GET /messages, /stream and /ws                                          *)

\* get_messages: what is committed.
List(x) ==
    /\ client[x].listed = {}
    /\ messages # {}
    /\ client' = [client EXCEPT ![x].listed = messages, ![x].listens_first = client[x].on]
    /\ UNCHANGED <<kafkaVars, post, messages, audited, published>>

Subscribe(x) ==
    /\ ~ client[x].on
    /\ client' = [client EXCEPT ![x].on = TRUE, ![x].reads = TRUE,
                                ![x].since = Len(published)]
    /\ UNCHANGED <<kafkaVars, post, messages, audited, published>>

\* Mutant of Read: nothing bounds the queue.
ReadUnbounded(x) ==
    LET c == client[x] IN
    /\ c.wire # <<>>
    /\ client' = [client EXCEPT ![x].wire = Tail(@), ![x].queue = Append(@, Head(c.wire))]
    /\ UNCHANGED <<kafkaVars, post, messages, audited, published>>

\* Mutant of Read: a full queue refuses what comes.
ReadRefuses(x) ==
    LET c == client[x] IN
    /\ c.wire # <<>>
    /\ client' = [client EXCEPT ![x] =
                    IF Len(c.queue) < Cap
                    THEN [c EXCEPT !.wire = Tail(@), !.queue = Append(@, Head(c.wire))]
                    ELSE [c EXCEPT !.wire = Tail(@),
                                   !.dropped = @ \union {Head(c.wire)}]]
    /\ UNCHANGED <<kafkaVars, post, messages, audited, published>>

\* _reader of the subscription: a full queue loses its oldest event.
Read(x) ==
    LET c == client[x] IN
    /\ c.wire # <<>>
    /\ client' = [client EXCEPT ![x] =
                    IF Len(c.queue) < Cap
                    THEN [c EXCEPT !.wire = Tail(@), !.queue = Append(@, Head(c.wire))]
                    ELSE [c EXCEPT !.wire = Tail(@),
                                   !.queue = Append(Tail(@), Head(c.wire)),
                                   !.dropped = @ \union {Head(c.queue)}]]
    /\ UNCHANGED <<kafkaVars, post, messages, audited, published>>

\* get_message raises: the reader ends and closes its connection, with what was on
\* the wire.  Nobody looks at the task: the subscription stays, and its client waits.
ReaderEnds(x) ==
    /\ client[x].reads
    /\ Error
    /\ client' = [client EXCEPT ![x].reads = FALSE, ![x].wire = <<>>]
    /\ UNCHANGED <<producer, lock, caller, open, post, messages, audited, published>>

\* The generator takes an event and sends it.
Receive(x) ==
    /\ client[x].queue # <<>>
    /\ client' = [client EXCEPT ![x].got = Append(@, Head(client[x].queue)),
                                ![x].queue = Tail(@)]
    /\ UNCHANGED <<kafkaVars, post, messages, audited, published>>

Away == [on |-> FALSE, reads |-> FALSE, listens_first |-> FALSE, listed |-> {}, since |-> 0,
         wire |-> <<>>, queue |-> <<>>, got |-> <<>>, dropped |-> {}]

\* The client goes: unsubscribe cancels the reader, with what was in the queue.
Unsubscribe(x) ==
    /\ client[x].on
    /\ client' = [client EXCEPT ![x] = Away]
    /\ UNCHANGED <<kafkaVars, post, messages, audited, published>>

----------------------------------------------------------------------------
Init ==
    /\ KafkaInit
    /\ post = [r \in Posts |-> "new"]
    /\ messages = {} /\ audited = {} /\ published = <<>>
    /\ client = [x \in Clients |-> Away]

Next ==
    \/ \E r \in Posts :
         \/ Commit(r)
         \/ PostStep(r)
         \/ Raise(r)
         \/ PublishStep(r) /\ UNCHANGED chatVars
    \/ \E x \in Clients : List(x) \/ Subscribe(x) \/ Read(x) \/ Receive(x) \/ Unsubscribe(x)
                             \/ ReaderEnds(x)

Spec == Init /\ [][Next]_vars

\* asyncio runs every coroutine that is ready, and its lock goes to the waiters
\* in turn: what is possible again and again for a post is done in the end.
Fairness ==
    \A r \in Posts :
        SF_vars(PostStep(r) \/ (PublishStep(r) /\ UNCHANGED chatVars))

FairSpec == Spec /\ Fairness

----------------------------------------------------------------------------
(* Properties                                                              *)

Heard(x) == client[x].got \o client[x].queue \o client[x].wire

Before(r, q) ==
    \E m, n \in DOMAIN published : m < n /\ published[m] = r /\ published[n] = q

\* A client that listens before it lists misses no message, whatever the order
\* in which posts commit and publish, unless its queue ran over, its reader has
\* ended, the message is yet to be published, or its post failed before it was.  A
\* slow client loses what is oldest: what it gets is in the order of publication,
\* each once, and ends with the latest.  A client whose reader has ended loses what
\* is latest, without a sign: all of this is so of the first n events.
NothingMissed ==
    \A x \in Clients :
        LET c == client[x] IN
        c.on =>
            \E n \in c.since .. Len(published) :
                /\ c.reads => n = Len(published)
                /\ ToSet(Heard(x)) = {published[i] : i \in c.since + 1 .. n} \ c.dropped
                /\ \A i, j \in DOMAIN Heard(x) :
                     i < j => Before(Heard(x)[i], Heard(x)[j])
                /\ c.since < n => Last(Heard(x)) = published[n]
                /\ c.listens_first =>
                     \A i \in 1 .. n :
                         published[i] \in c.listed \union ToSet(Heard(x)) \union c.dropped

\* A post that has committed is answered: no failure of the event bus makes it,
\* or a post beside it, wait for ever for the lock.  An answer 'ok' says that the
\* message is stored, was published to everybody who listened, and is audited,
\* whatever became of the event bus.
Done(r) == r \in messages \intersect ToSet(published) \intersect audited

PostsAreAnswered ==
    \A r \in Posts :
        post[r] = "publish" ~> (post[r] = "ok" /\ Done(r)) \/ post[r] = "failed"
=============================================================================
