----------------------------- MODULE EventFanout ----------------------------
(***************************************************************************)
(* From an event of a handler to the clients of /ws/alerts: the            *)
(* notification queue and its consumer                                     *)
(* (app/services/notification_queue.py), the bus (app/core/events.py) and  *)
(* the broadcast over the dictionary of connections (app/api/routes/ws.py).*)
(*                                                                         *)
(* One event loop: the broadcast gives the others a turn at every write to *)
(* a client, and the dictionary it runs over may have changed by then.  An *)
(* event is the number of its enqueue call; which of the incident events   *)
(* it is makes no difference to the way it goes.                           *)
(* The names are told from those of Coordination, which enqueues.          *)
(***************************************************************************)
EXTENDS Naturals, Sequences, FiniteSets

CONSTANTS
  Watcher,     \* clients of /ws/alerts
  MaxEvents,   \* bound on the events
  MaxConnects  \* bound on the connections made

ASSUME FanoutAssumption ==
  /\ MaxEvents \in Nat /\ MaxConnects \in Nat
  /\ "none" \notin Watcher

VARIABLES
  enqueued,    \* number of events enqueued so far
  queue,       \* notification_queue
  event,       \* the event the consumer publishes, 0 between two jobs
  current,     \* the client it is writing to, or "none"
  visited,     \* connections the loop of broadcast has been to
  stale,       \* those whose write failed
  changed,     \* has _connections changed since the loop began?
  size,        \* its size when the loop began
  connections, \* keys of _connections
  open,        \* clients at the other end
  since,       \* since[w]: events enqueued before w's connection
  seen,        \* seen[w]: events w was told of over its connection, in order
  missed,      \* missed[w]: events a broadcast passed w over
  connects

consumerVars == <<event, current, visited, stale, changed, size>>
clientVars == <<connections, open, since, seen, missed, connects>>
fanoutVars == <<enqueued, queue, consumerVars, clientVars>>

FanoutInit ==
  /\ enqueued = 0 /\ queue = << >>
  /\ event = 0 /\ current = "none" /\ visited = {} /\ stale = {} /\ changed = FALSE /\ size = 0
  /\ connections = {} /\ open = {}
  /\ since = [w \in Watcher |-> 0] /\ seen = [w \in Watcher |-> << >>]
  /\ missed = [w \in Watcher |-> {}] /\ connects = 0

\* A handler of the backend enqueues an event; the queue has no bound.
Enqueue ==
  /\ enqueued < MaxEvents
  /\ enqueued' = enqueued + 1
  /\ queue' = Append(queue, enqueued')
  /\ UNCHANGED <<consumerVars, clientVars>>

\* Wrong: the newest job is taken first.
PublishNewest ==
  /\ event = 0 /\ queue /= << >>
  /\ event' = queue[Len(queue)] /\ queue' = SubSeq(queue, 1, Len(queue) - 1)
  /\ visited' = {} /\ stale' = {} /\ changed' = FALSE /\ size' = Cardinality(connections)
  /\ UNCHANGED <<enqueued, current, clientVars>>

\* consume_forever takes the next job; the bus has one subscriber for it, the
\* broadcast, whose loop begins.
Publish ==
  /\ event = 0 /\ queue /= << >>
  /\ event' = Head(queue) /\ queue' = Tail(queue)
  /\ visited' = {} /\ stale' = {} /\ changed' = FALSE /\ size' = Cardinality(connections)
  /\ UNCHANGED <<enqueued, current, clientVars>>

\* The iterator goes on: the dictionary has the size it had.
Intact == Cardinality(connections) = size

\* The write to the next connection begins.
WriteNext(w) ==
  /\ event /= 0 /\ current = "none" /\ Intact
  /\ w \in connections \ visited
  /\ current' = w /\ visited' = visited \union {w}
  /\ UNCHANGED <<enqueued, queue, event, stale, changed, size, clientVars>>

\* It ends: the client gets the event, or is gone and remembered as stale.
EndWrite ==
  /\ current /= "none"
  /\ current' = "none"
  /\ IF current \in open
       THEN seen' = [seen EXCEPT ![current] = Append(@, event)] /\ UNCHANGED stale
       ELSE stale' = stale \union {current} /\ UNCHANGED seen
  /\ UNCHANGED <<enqueued, queue, event, visited, changed, size, connections, open, since,
                 missed, connects>>

\* Wrong: an error in the loop is not swallowed, the consumer dies of it.
OverIfIntact == connections \subseteq visited /\ Intact

\* The loop is through, or its iterator raises because the dictionary has another
\* size, or skips what a change of the same size has moved.
Over == connections \subseteq visited \/ ~Intact \/ changed

\* broadcast drops the stale connections and returns, or the bus swallows its
\* error and the job counts as done, so that the retries of _process_job never
\* happen.  Clients not visited go without the event.
EndPublish ==
  /\ event /= 0 /\ current = "none" /\ Over
  /\ \/ Intact /\ connections' = connections \ stale
     \/ changed /\ UNCHANGED connections
  /\ missed' = [w \in Watcher |-> IF changed /\ w \in connections \ visited
                                    THEN missed[w] \union {event} ELSE missed[w]]
  /\ event' = 0
  /\ UNCHANGED <<enqueued, queue, current, visited, stale, changed, size, open, since, seen, connects>>

\* ws_alerts: a new connection, a new key at the end of the dictionary.  The
\* write to w's former connection, if there is one, has failed by then.
Connect(w) ==
  /\ w \notin connections /\ current /= w /\ connects < MaxConnects
  /\ connects' = connects + 1
  /\ connections' = connections \union {w} /\ open' = open \union {w}
  /\ since' = [since EXCEPT ![w] = enqueued]
  /\ seen' = [seen EXCEPT ![w] = << >>] /\ missed' = [missed EXCEPT ![w] = {}]
  /\ changed' = TRUE /\ visited' = visited \ {w} /\ stale' = stale \ {w}
  /\ UNCHANGED <<enqueued, queue, event, current, size>>

\* A client leaves.
Leave(w) ==
  /\ w \in open
  /\ open' = open \ {w}
  /\ UNCHANGED <<enqueued, queue, consumerVars, connections, since, seen, missed, connects>>

\* Its handler notices and takes it out of the dictionary.
Disconnect(w) ==
  /\ w \in connections \ open
  /\ connections' = connections \ {w}
  /\ changed' = TRUE
  /\ UNCHANGED <<enqueued, queue, event, current, visited, stale, size, open, since, seen,
                 missed, connects>>

Consume == Publish \/ (\E w \in Watcher : WriteNext(w)) \/ EndWrite \/ EndPublish

FanoutNext ==
  \/ Enqueue \/ Consume
  \/ \E w \in Watcher : Connect(w) \/ Leave(w) \/ Disconnect(w)

\* The consumer is a task that is ready as long as there is a job.
FanoutSpec == FanoutInit /\ [][FanoutNext]_fanoutVars /\ WF_fanoutVars(Consume)

----------------------------------------------------------------------------

\* A client is told of the events over one connection in the order in which the
\* handlers enqueued them, and of none twice.
SeenInOrder ==
  \A w \in Watcher : \A i, j \in DOMAIN seen[w] : i < j => seen[w][i] < seen[w][j]

\* Every event reaches a client that stays, or is one it was passed over.
EventsArrive ==
  \A w \in Watcher, e \in 1 .. MaxEvents :
    (w \in open \intersect connections /\ since[w] < e /\ e <= enqueued)
      ~> \/ w \notin open \intersect connections \/ since[w] >= e
         \/ e \in missed[w] \/ \E i \in DOMAIN seen[w] : seen[w][i] = e
=============================================================================
