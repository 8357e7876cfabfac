------------------------------- MODULE EventBus -------------------------------
(***************************************************************************)
(* The event bus: shared/rabbitmq.js as the services use it, and as much   *)
(* of RabbitMQ and amqplib as its guarantees rest on.  Each durable queue  *)
(* is bound to one routing key and consumed by one service, one message at *)
(* a time.  The broker itself does not fail, and the order of the messages *)
(* in a queue is left out.                                                 *)
(***************************************************************************)
EXTENDS Naturals, FiniteSets

CONSTANTS Queues,     \* the queues
          Owner,      \* Owner[q]: the service that consumes q
          Publisher,  \* the service that publishes
          Events      \* messages, each published at most once

ASSUME PublisherAssumption == \A q \in Queues : Owner[q] # Publisher

VARIABLES
    bound,     \* the queues that are declared and bound
    routed,    \* routed[q]: the events that ever entered q
    queue,     \* queue[q]: the events waiting in q
    unacked,   \* unacked[q]: the events of q delivered and not settled
    link,      \* link[s]: is s "down", or up with its connection open or closed?
    attached   \* the queues with a subscription on a live channel

busVars == <<bound, routed, queue, unacked, link, attached>>

Services == {Owner[q] : q \in Queues} \union {Publisher}
QueuesOf(s) == {q \in Queues : Owner[q] = s}

BusTypeOK ==
    /\ bound \subseteq Queues
    /\ routed \in [Queues -> SUBSET Events]
    /\ queue \in [Queues -> SUBSET Events]
    /\ unacked \in [Queues -> SUBSET Events]
    /\ link \in [Services -> {"down", "open", "closed"}]
    /\ attached \subseteq Queues

\* The broker at the first start, or after the consumers ran once.
BusInit(deployed) ==
    /\ bound = IF deployed THEN Queues ELSE {}
    /\ routed = [q \in Queues |-> {}]
    /\ queue = [q \in Queues |-> {}]
    /\ unacked = [q \in Queues |-> {}]
    /\ link = [s \in Services |-> IF s = Publisher THEN "open" ELSE "down"]
    /\ attached = {}
-----------------------------------------------------------------------------
\* publish: the exchange copies the event to every queue of Q, those of its
\* routing key, that is bound by now.
Publish(e, Q) ==
    LET with(f) == [q \in Queues |-> IF q \in Q \intersect bound THEN f[q] \union {e} ELSE f[q]] IN
    /\ link[Publisher] = "open"
    /\ queue' = with(queue)
    /\ routed' = with(routed)
    /\ UNCHANGED <<bound, unacked, link, attached>>

\* The process of s starts, connects, and if it consumes declares its queues,
\* binds them and subscribes.
Start(s) ==
    /\ link[s] = "down"
    /\ link' = [link EXCEPT ![s] = "open"]
    /\ bound' = bound \union QueuesOf(s)
    /\ attached' = attached \union QueuesOf(s)
    /\ UNCHANGED <<routed, queue, unacked>>

\* Mutant: consume with noAck.
DeliverNoAck(q, e) ==
    /\ q \in attached
    /\ e \in queue[q]
    /\ queue' = [queue EXCEPT ![q] = @ \ {e}]
    /\ UNCHANGED <<bound, routed, unacked, link, attached>>

\* The broker delivers a message; prefetch(1) holds the next one back.
Deliver(q, e) ==
    /\ q \in attached
    /\ unacked[q] = {}
    /\ e \in queue[q]
    /\ queue' = [queue EXCEPT ![q] = @ \ {e}]
    /\ unacked' = [unacked EXCEPT ![q] = {e}]
    /\ UNCHANGED <<bound, routed, link, attached>>

\* Mutant: the handler of a message returns without an ack.
NeverSettle(q, e) ==
    /\ e \in unacked[q]
    /\ UNCHANGED busVars

\* ack removes the message.
Settle(q, e) ==
    /\ e \in unacked[q]
    /\ unacked' = [unacked EXCEPT ![q] = @ \ {e}]
    /\ UNCHANGED <<bound, routed, queue, link, attached>>

\* Mutant: nack with requeueing.
Requeue(q, e) ==
    /\ e \in unacked[q]
    /\ queue' = [queue EXCEPT ![q] = @ \union {e}]
    /\ unacked' = [unacked EXCEPT ![q] = @ \ {e}]
    /\ UNCHANGED <<bound, routed, link, attached>>

\* So does nack without requeueing: the dead letter exchange named by the
\* queue is declared by nobody.
Reject(q, e) == Settle(q, e)

\* The connection of s ends as told by state; the broker takes back what s
\* had not settled.
Detach(s, state) ==
    /\ link' = [link EXCEPT ![s] = state]
    /\ attached' = attached \ QueuesOf(s)
    /\ queue' = [q \in Queues |-> IF q \in QueuesOf(s) THEN queue[q] \union unacked[q] ELSE queue[q]]
    /\ unacked' = [q \in Queues |-> IF q \in QueuesOf(s) THEN {} ELSE unacked[q]]
    /\ UNCHANGED <<bound, routed>>

\* Five seconds after a lost connection there is a new one, with a channel
\* for publishing.  Nothing subscribes again.
Reconnect(s) ==
    /\ link[s] = "closed"
    /\ link' = [link EXCEPT ![s] = "open"]
    /\ UNCHANGED <<bound, routed, queue, unacked, attached>>
=============================================================================
