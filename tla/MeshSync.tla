------------------------------ MODULE MeshSync ------------------------------
(***************************************************************************)
(* Head-based synchronisation between devices.  A device is an application *)
(* (mobile_app/lib/services/p2p_service.dart) and its Go daemon            *)
(* (backend/p2p-node): the daemon meets peers and announces its heads, the *)
(* application asks for what it misses and answers what others miss, and   *)
(* every envelope is published to the whole mesh.                          *)
(*                                                                         *)
(* The two logs are the ones of GossipLog and GossipLogService, here with  *)
(* a receive and its scan in one step.  The way from a daemon to its       *)
(* application belongs to that step too (GossipLog has the interleavings), *)
(* and loses whatever it likes: outChan may be full (gossip_log.go:128), a *)
(* write to the WebSocket may fail, or nobody may be connected (api.go).   *)
(* The way back, POST /broadcast, loses nothing here.  An application's    *)
(* heads are the tips of its log (HeadsAreTips of GossipLogService).  The  *)
(* caches of 1000 message ids never fill here.                             *)
(***************************************************************************)
EXTENDS Naturals, FiniteSets, SequencesExt

CONSTANTS
  Device,
  Msg,        \* incident_create messages, <<author, "inc", number>>
  MaxIter,    \* iterations of a sync session, 10 in the code
  MaxFound,   \* bound on the mDNS discoveries of one device by another
  MaxMeta,    \* bound on the ids of the sync envelopes of a device
  MaxMissed,  \* bound on the envelopes that applications miss
  LateCreate  \* may incidents be created once the devices have met?

ASSUME MeshAssumption ==
  /\ Msg \subseteq Device \X {"inc"} \X Nat
  /\ MaxIter \in Nat \ {0} /\ MaxFound \in Nat /\ MaxMeta \in Nat \ {0}
  /\ MaxMissed \in Nat
  /\ LateCreate \in BOOLEAN

VARIABLES
  made,       \* incidents created
  prev,       \* prev[m]: prev_msg_ids of m
  log,        \* log[d], pending[d]: _log and _pending of the application of d
  pending,
  session,    \* session[d][p]: _syncSessions of d
  dlog,       \* dlog[d], dpending[d], dheads[d]: log, pending and heads of the
  dpending,   \* daemon of d, which also hold the envelopes of the sync itself
  dheads,
  mesh,       \* devices whose daemons are connected
  found,      \* found[d][p]: how often d discovered p
  net,        \* envelopes [id, kind, from, body] on their way, one copy for each
              \* receiver: [e, to]
  missed,     \* number of envelopes that daemons handed on and applications did not get
  dropped,    \* history: dropped[d]: the incidents among them, at d
  lost,       \* history: has an envelope been lost, by the network or on the way from
              \* a daemon to its application?
  cutOff      \* history: <<d, p>> if heads of p that held nothing new for d ended the
              \* session of d with p while it waited for an answer

appVars == <<log, pending, session>>
daemonVars == <<dlog, dpending, dheads>>
vars == <<made, prev, appVars, daemonVars, mesh, found, net, missed, dropped, lost, cutOff>>

Author(m) == m[1]

NewSession == [requested |-> {}, received |-> {}, sent |-> {},
               iterationCount |-> 0, syncComplete |-> FALSE]

Init ==
  /\ made = {} /\ prev = [m \in Msg |-> {}]
  /\ log = [d \in Device |-> {}] /\ pending = [d \in Device |-> {}]
  /\ session = [d \in Device |-> [p \in Device |-> NewSession]]
  /\ dlog = [d \in Device |-> {}] /\ dpending = [d \in Device |-> {}]
  /\ dheads = [d \in Device |-> {}]
  /\ mesh = {} /\ found = [d \in Device |-> [p \in Device |-> 0]]
  /\ net = {} /\ missed = 0 /\ dropped = [d \in Device |-> {}]
  /\ lost = FALSE /\ cutOff = {}

----------------------------------------------------------------------------
(* Logs. *)

\* What _tryApplyPending applies of P on top of L.
Unblocked(L, P) ==
  UNION {S \in SUBSET P : \A m \in S : prev[m] \subseteq L \union S}

Tips(L) == {m \in L : \A n \in L : m \notin prev[n]}

\* The orders in which a scan may apply the messages of S.
CausalOrders(S) ==
  {s \in SetToSeqs(S) : \A i, j \in DOMAIN s : i < j => s[j] \notin prev[s[i]]}

----------------------------------------------------------------------------
(* The application, as functions on its state; asks collects the requests  *)
(* that a handler sends.                                                   *)

App(d) == [log |-> log[d], pending |-> pending[d], session |-> session[d], asks |-> {}]

Outstanding(s) == s.requested \ s.received

\* _processMissingDeps
ProcessMissing(a, p, missing) ==
  LET s == a.session[p]
      toRequest == missing \ s.requested
  IN  CASE missing = {} -> a
        [] missing /= {} /\ s.iterationCount >= MaxIter ->
             [a EXCEPT !.session[p].syncComplete = TRUE]
        [] missing /= {} /\ s.iterationCount < MaxIter /\ toRequest = {} ->
             [a EXCEPT !.session[p].syncComplete = (Outstanding(s) = {})]
        [] OTHER ->
             [a EXCEPT !.session[p] =
                         [s EXCEPT !.requested = @ \union toRequest,
                                   !.iterationCount = @ + 1,
                                   !.syncComplete = FALSE],
                       !.asks = @ \union {toRequest}]

\* Wrong: one dependency is enough.
CanApplyAny(a, m) == prev[m] = {} \/ prev[m] \intersect a.log /= {}

\* _canApply
CanApply(a, m) == prev[m] \subseteq a.log

\* Wrong: a message that is applied unblocks nothing.
AppliedAlone(a, m) == [a EXCEPT !.log = @ \union {m}]

\* _apply and _tryApplyPending
Applied(a, m) ==
  LET settled == {m} \union Unblocked(a.log \union {m}, a.pending)
  IN  [a EXCEPT !.log = @ \union settled, !.pending = @ \ settled]

\* GossipLogService.receive and, in session p, the request for what m lacks.
\* Known messages include the ones that _messageCache holds.
Receive(a, p, m) ==
  LET known == a.log \union a.pending
  IN  CASE m \in known -> a
        [] m \notin known /\ CanApply(a, m) -> Applied(a, m)
        [] OTHER ->
             ProcessMissing([a EXCEPT !.pending = @ \union {m}], p, prev[m] \ known)

\* Whatever Take makes of a for the elements of s, one after the other.
InTurn(a, s, Take(_, _)) ==
  LET after[i \in 0 .. Len(s)] == IF i = 0 THEN a ELSE Take(after[i - 1], s[i])
  IN  after[Len(s)]

\* _handleHeadExchange
HandleHeads(a, p, heads) ==
  LET missing == heads \ (a.log \union a.pending)
  IN  IF missing = {} THEN [a EXCEPT !.session[p].syncComplete = TRUE]
                      ELSE ProcessMissing(a, p, missing)

\* Wrong: a response ends the session, whatever it made necessary.
HandleResponseLast(a, p, messages) ==
  LET Take(b, m) == Receive([b EXCEPT !.session[p].received = @ \union {m}], p, m)
  IN  [InTurn(a, messages, Take) EXCEPT !.session[p].syncComplete = TRUE]

\* _handleMessageResponse: the messages one after the other, then the check
\* whether anything asked for is still out.
HandleResponse(a, p, messages) ==
  LET Take(b, m) == Receive([b EXCEPT !.session[p].received = @ \union {m}], p, m)
      b == InTurn(a, messages, Take)
  IN  [b EXCEPT !.session[p].syncComplete = @ \/ Outstanding(b.session[p]) = {}]

\* _handleMessageRequest: what is sent of ids, each message once per peer.
\* fetchAndSortMessages looks up the ids it is given and nothing else.
ToSend(a, p, ids) == (ids \intersect (a.log \union a.pending)) \ a.session[p].sent

\* Wrong: a retry does not count as an iteration.
RetriedFree(s) == s

\* A retry of the session, which it ends at the limit.
Retried(s) ==
  IF s.iterationCount < MaxIter THEN [s EXCEPT !.iterationCount = @ + 1]
                                ELSE [s EXCEPT !.syncComplete = TRUE]

\* _checkRetries for the sessions whose last request is over a second old
CheckRetries(a, due) ==
  LET Waits(s) == ~s.syncComplete /\ s.iterationCount > 0 /\ Outstanding(s) /= {}
      retried == {p \in due : Waits(a.session[p])}
      open == {p \in retried : ~Retried(a.session[p]).syncComplete}
  IN  [a EXCEPT
         !.session = [p \in Device |->
            IF p \in retried THEN Retried(a.session[p]) ELSE a.session[p]],
         !.asks = {Outstanding(a.session[p]) : p \in open}]

----------------------------------------------------------------------------
(* Steps. *)

\* The id of the next sync envelope of d.  The ids of requests and responses
\* are made from the time in milliseconds: all the requests of one handler get
\* the same, different handlers are taken to run in different milliseconds.
\* MaxMeta is out of reach of the code: a run that got there would repeat an id.
Published(d) == Cardinality({i \in dlog[d] : i[1] = d /\ i[2] = "meta"})

NextMeta(d) ==
  <<d, "meta", IF Published(d) < MaxMeta THEN Published(d) + 1 ELSE MaxMeta>>

Copies(envs, receivers) == {[e |-> e, to |-> r] : e \in envs, r \in receivers}

Requests(d, asks) ==
  {[id |-> NextMeta(d), kind |-> "message_request", from |-> d, body |-> q] : q \in asks}

\* The application of d goes over to a and posts envs; its daemon, which has
\* just taken in the ids of got and superseded old, records and publishes them.
Step(d, a, got, old, envs, delivered) ==
  LET posted == {e.id : e \in envs} IN
  /\ log' = [log EXCEPT ![d] = a.log]
  /\ pending' = [pending EXCEPT ![d] = a.pending]
  /\ session' = [session EXCEPT ![d] = a.session]
  /\ dlog' = [dlog EXCEPT ![d] = @ \union got \union posted]
  /\ dpending' = [dpending EXCEPT ![d] = @ \ got]
  /\ dheads' = [dheads EXCEPT ![d] = ((@ \union got) \ old) \union posted]
  /\ net' = (net \ delivered) \union Copies(envs, mesh \ {d})

\* History: of the sessions that were cut off, those that are still ended.
StillEnded(cut) == {x \in cut : session'[x[1]][x[2]].syncComplete}

\* The user creates incident m: broadcastIncident, recordSent in both logs.
Create(m) ==
  LET d == Author(m)
      a == [App(d) EXCEPT !.log = @ \union {m}]
  IN
  /\ m \notin made
  /\ \A n \in Msg \ made : Author(n) = d => n[3] >= m[3]
  /\ LateCreate \/ mesh = {}
  /\ made' = made \union {m}
  /\ prev' = [prev EXCEPT ![m] = Tips(log[d])]
  /\ Step(d, a, {m}, Tips(log[d]),
          {[id |-> m, kind |-> "incident_create", from |-> d, body |-> {}]}, {})
  /\ UNCHANGED <<mesh, found, missed, dropped, lost, cutOff>>

\* HandlePeerFound: d connects to p and announces its heads.
PeerFound(d, p) ==
  LET exchange == [id |-> NextMeta(d), kind |-> "head_exchange", from |-> d, body |-> dheads[d]]
  IN
  /\ d /= p /\ found[d][p] < MaxFound
  /\ found' = [found EXCEPT ![d][p] = @ + 1]
  /\ mesh' = mesh \union {d, p}
  /\ dlog' = [dlog EXCEPT ![d] = @ \union {exchange.id}]
  /\ dheads' = [dheads EXCEPT ![d] = @ \union {exchange.id}]
  /\ net' = net \union Copies({exchange}, mesh' \ {d})
  /\ UNCHANGED <<made, prev, appVars, dpending, missed, dropped, lost, cutOff>>

\* The daemon of d has the id already: listenLoop skips the envelope.
Known(d, e) == e.id \in dlog[d] \union dpending[d]

DropDuplicate(c) ==
  /\ Known(c.to, c.e)
  /\ net' = net \ {c}
  /\ UNCHANGED <<made, prev, appVars, daemonVars, mesh, found, missed, dropped, lost, cutOff>>

\* An incident whose dependencies the daemon of d lacks: the application
\* hears nothing of it.
DaemonWaits(c) ==
  /\ c.e.kind = "incident_create" /\ ~Known(c.to, c.e)
  /\ ~(prev[c.e.id] \subseteq dlog[c.to])
  /\ dpending' = [dpending EXCEPT ![c.to] = @ \union {c.e.id}]
  /\ net' = net \ {c}
  /\ UNCHANGED <<made, prev, appVars, dlog, dheads, mesh, found, missed, dropped, lost, cutOff>>

\* The application of d misses envelopes, with the ids of gone.
Missed(d, gone) ==
  /\ missed + Cardinality(gone) <= MaxMissed
  /\ missed' = missed + Cardinality(gone)
  /\ dropped' = [dropped EXCEPT ![d] = @ \union (gone \intersect Msg)]
  /\ lost' = (lost \/ gone /= {})

\* Otherwise it goes on to the application, followed by what it unblocks, except for
\* what is missed on the way.  An incident the application has is not missed.
DeliverIncident(c) ==
  LET d == c.to
      got == {c.e.id} \union Unblocked(dlog[d] \union {c.e.id}, dpending[d])
  IN
  /\ c.e.kind = "incident_create" /\ ~Known(d, c.e)
  /\ prev[c.e.id] \subseteq dlog[d]
  /\ \E order \in CausalOrders(got), gone \in SUBSET (got \ (log[d] \union pending[d])) :
       LET Take(a, m) == IF m \in gone THEN a ELSE Receive(a, Author(m), m)
           a == InTurn(App(d), order, Take)
       IN  /\ Missed(d, gone)
           /\ Step(d, a, got, UNION {prev[m] : m \in got}, Requests(d, a.asks), {c})
  /\ cutOff' = StillEnded(cutOff)
  /\ UNCHANGED <<made, prev, mesh, found>>

DeliverHeads(c) ==
  LET d == c.to
      a == HandleHeads(App(d), c.e.from, c.e.body)
  IN
  /\ c.e.kind = "head_exchange" /\ ~Known(d, c.e)
  /\ Step(d, a, {c.e.id}, {}, Requests(d, a.asks), {c})
  /\ cutOff' = StillEnded(cutOff \union
       {x \in {<<d, c.e.from>>} : /\ c.e.body \subseteq log[d] \union pending[d]
                                 /\ Outstanding(session[d][c.e.from]) /= {}})
  /\ UNCHANGED <<made, prev, mesh, found, missed, dropped, lost>>

DeliverRequest(c) ==
  LET d == c.to
      toSend == ToSend(App(d), c.e.from, c.e.body)
      a == [App(d) EXCEPT !.session[c.e.from].sent = @ \union toSend]
      response == [id |-> NextMeta(d), kind |-> "message_response", from |-> d, body |-> toSend]
  IN
  /\ c.e.kind = "message_request" /\ ~Known(d, c.e)
  /\ Step(d, a, {c.e.id}, {}, {r \in {response} : toSend /= {}}, {c})
  /\ UNCHANGED <<made, prev, mesh, found, missed, dropped, lost, cutOff>>

\* The messages come sorted by clock, but an application's own messages, and
\* those it got by a response, carry clock 0: any order is possible.
DeliverResponse(c) ==
  LET d == c.to IN
  /\ c.e.kind = "message_response" /\ ~Known(d, c.e)
  /\ \E messages \in SetToSeqs(c.e.body) :
       LET a == HandleResponse(App(d), c.e.from, messages)
       IN  Step(d, a, {c.e.id}, {}, Requests(d, a.asks), {c})
  /\ cutOff' = StillEnded(cutOff)
  /\ UNCHANGED <<made, prev, mesh, found, missed, dropped, lost>>

\* The timer of _checkRetries.
Tick(d) ==
  \E due \in SUBSET (Device \ {d}) :
    LET a == CheckRetries(App(d), due) IN
    /\ a /= App(d)
    /\ Step(d, a, {}, {}, Requests(d, a.asks), {})
    /\ UNCHANGED <<made, prev, mesh, found, missed, dropped, lost, cutOff>>

\* GossipSub does not deliver.
Lose(c) ==
  /\ net' = net \ {c} /\ lost' = TRUE
  /\ UNCHANGED <<made, prev, appVars, daemonVars, mesh, found, missed, dropped, cutOff>>

\* The daemon takes in an envelope of the sync, its application does not get it.
Miss(c) ==
  /\ c.e.kind /= "incident_create" /\ ~Known(c.to, c.e)
  /\ Missed(c.to, {c.e.id})
  /\ Step(c.to, App(c.to), {c.e.id}, {}, {}, {c})
  /\ UNCHANGED <<made, prev, mesh, found, cutOff>>

Deliver ==
  \E c \in net :
    \/ DropDuplicate(c) \/ DaemonWaits(c) \/ DeliverIncident(c)
    \/ DeliverHeads(c) \/ DeliverRequest(c) \/ DeliverResponse(c)

Retry == \E d \in Device : Tick(d)

Meet == \E d, p \in Device : PeerFound(d, p)

Use == \E m \in Msg : Create(m)

Drop == \E c \in net : Miss(c)

Loss == \E c \in net : Lose(c)

\* Whatever the network and the timers do: nothing has to be delivered, so that what the
\* network loses is what stays on its way for ever.
Next == Use \/ Meet \/ Deliver \/ Retry \/ Drop
Spec == Init /\ [][Next]_vars

\* A network that delivers within the second of the retry timer what it does
\* not lose.
RetryLate == net = {} /\ Retry
NextLossy == Use \/ Meet \/ Deliver \/ RetryLate \/ Drop \/ Loss
Fairness == WF_vars(Deliver) /\ WF_vars(RetryLate)
LossySpec == Init /\ [][NextLossy]_vars /\ Fairness

----------------------------------------------------------------------------

\* What comes by way of the mesh and what comes in answers to requests make up
\* one log that is causally closed.
CausallyClosed == \A d \in Device : \A m \in log[d] : prev[m] \subseteq log[d]

\* What is missed on the way from a daemon to its application holds back that incident
\* and those that build on it, no others: an incident the daemon has applied and the
\* application has not was missed itself, or builds on one of which the same is true.
OnlyMissedHoldBack ==
  \A d \in Device : \A m \in (dlog[d] \intersect Msg) \ log[d] :
    m \in dropped[d] \/ \E x \in prev[m] : x \in dlog[d] \ log[d]

\* Whatever an application waits for it has asked some peer for, and the asking is
\* still repeated unless the session has used up its iterations, or the peer's heads,
\* all known, have ended it and nothing has re-opened it since.
WaitedForIsAskedFor ==
  \A d \in Device : \A m \in pending[d] :
    \A x \in prev[m] \ (log[d] \union pending[d]) :
      \E p \in Device :
        LET s == session[d][p]
        IN  \/ s.iterationCount = MaxIter
            \/ x \in Outstanding(s) /\ (s.syncComplete => <<d, p>> \in cutOff)

\* "bounded synchronization using iteration limits to prevent infinite request
\* loops" (PROJECT_TIMELINE.md:1079): whatever the network loses, the requests and
\* answers come to an end.
Quiesces == <>[](net = {})

\* A device that announces its heads to a late joiner passes on everything it had
\* created, one generation of the history after the other, within the iterations
\* of a session, if no envelope is lost (p2p_service.dart, _handleHeadExchange to
\* _handleMessageResponse).
HistoryCatchesUp ==
  \A d \in Device : \A m \in {n \in Msg : Author(n) /= d} :
    (found[Author(m)][d] > 0 /\ m \in made) ~> (m \in log[d] \/ lost)
=============================================================================
