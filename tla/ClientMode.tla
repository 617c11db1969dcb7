----------------------------- MODULE ClientMode -----------------------------
(***************************************************************************)
(* Backend nodes that find each other: servers advertise themselves        *)
(* (app/services/mdns_advertiser.py), a node in client mode browses for    *)
(* them (app/services/mdns_discovery.py), connects to one at startup       *)
(* (app/main.py) and keeps the WebSocket to it                             *)
(* (app/services/client_connector.py).                                     *)
(*                                                                         *)
(* The zeroconf library and the network are external: records appear and   *)
(* disappear at the browser some time after they do at the server, and any *)
(* call may fail.  The browser's thread hands its events to the loop in    *)
(* order, and each is handled in one turn.                                 *)
(***************************************************************************)
EXTENDS Naturals, FiniteSets, SequencesExt

CONSTANTS
  Server,      \* server nodes
  Nobody,
  Admitted,    \* do the servers accept the client's WebSocket?  One made with an
               \* auth_token, yes; the startup makes one without, and the
               \* servers close that at once
  MaxAttempts, \* max_retries of discover_and_connect, 3
  MaxFaults    \* bound on failures, crashes and restarts

ASSUME ClientAssumption ==
  /\ Nobody \notin Server /\ Admitted \in BOOLEAN
  /\ MaxAttempts \in Nat \ {0} /\ MaxFaults \in Nat

VARIABLES
  up,        \* servers that run
  adv,       \* state of each advertiser
  record,    \* servers whose record is on the network
  known,     \* servers the browser has told of
  pending,   \* its events that the loop has not handled
  browsing,  \* discovery: "no", "yes", "stopped"
  table,     \* _servers, the newest last
  found,     \* _server_found_event is set
  auto,      \* _auto_connect_client
  conn,      \* the connector
  closing,   \* shutdown_event: its next step
  gaveUp,    \* history: a reconnection has failed
  faults

serverVars == <<up, adv, record>>
discVars == <<known, pending, browsing, table, found>>
connVars == <<conn, gaveUp>>
vars == <<serverVars, discVars, auto, connVars, closing, faults>>

\* target: _ip and _port; ws: none, open, or broken and not yet noticed;
\* reader: _receive_task runs; retry: where reconnect_if_needed is.
NoConnector == [target |-> Nobody, running |-> FALSE, ws |-> "none",
                reader |-> FALSE, retry |-> "no"]

Init ==
  /\ up = {} /\ adv = [s \in Server |-> "off"] /\ record = {}
  /\ known = {} /\ pending = << >> /\ browsing = "no" /\ table = << >> /\ found = FALSE
  /\ auto = [at |-> "off", attempt |-> 0, server |-> Nobody]
  /\ conn = NoConnector /\ gaveUp = FALSE
  /\ closing = "no" /\ faults = 0

Fault == faults < MaxFaults /\ faults' = faults + 1

----------------------------------------------------------------------------
(* Servers. *)

\* startup_event in server mode.  An advertiser whose registration fails stops.
StartServer(s) ==
  /\ s \notin up
  /\ up' = up \union {s}
  /\ \/ /\ adv' = [adv EXCEPT ![s] = "on"]
        /\ record' = record \union {s}
        /\ UNCHANGED faults
     \/ Fault /\ UNCHANGED <<adv, record>>
  /\ UNCHANGED <<discVars, auto, connVars, closing>>

\* update_service fails in the refresh loop; after the first failure it does so
\* on whatever is left of the registration.
RefreshFails(s) ==
  /\ \/ adv[s] = "on" /\ Fault
     \/ adv[s] = "broken" /\ UNCHANGED faults
  /\ adv' = [adv EXCEPT ![s] = "sleep"]
  /\ UNCHANGED <<up, record, discVars, auto, connVars, closing>>

\* Wrong: the record is refreshed, not registered again.
ReregisterNot(s) ==
  /\ adv[s] = "sleep"
  /\ adv' = [adv EXCEPT ![s] = "on"]
  /\ record' = record \ {s}
  /\ UNCHANGED <<up, discVars, auto, connVars, closing, faults>>

\* After the backoff: close, which withdraws the record, and register anew.
Reregister(s) ==
  /\ adv[s] = "sleep"
  /\ \/ /\ adv' = [adv EXCEPT ![s] = "on"]
        /\ record' = record \union {s}
        /\ UNCHANGED faults
     \/ /\ Fault
        /\ adv' = [adv EXCEPT ![s] = "broken"]
        /\ record' = record \ {s}
  /\ UNCHANGED <<up, discVars, auto, connVars, closing>>

\* The server of a WebSocket ends.
Broken(s) == IF conn.target = s /\ conn.ws = "open" THEN [conn EXCEPT !.ws = "broken"] ELSE conn

\* shutdown_event of a server.  Unregistering a failing service may raise, and
\* then nothing is closed.
StopServer(s) ==
  /\ s \in up /\ Fault
  /\ up' = up \ {s}
  /\ adv' = [adv EXCEPT ![s] = "off"]
  /\ \/ record' = record \ {s}
     \/ adv[s] \in {"sleep", "broken"} /\ UNCHANGED record
  /\ conn' = Broken(s)
  /\ UNCHANGED <<discVars, auto, gaveUp, closing>>

\* The process dies; its record stays until its time to live is over.
CrashServer(s) ==
  /\ s \in up /\ Fault
  /\ up' = up \ {s}
  /\ adv' = [adv EXCEPT ![s] = "off"]
  /\ conn' = Broken(s)
  /\ UNCHANGED <<record, discVars, auto, gaveUp, closing>>

Expire(s) ==
  /\ s \in record \ up
  /\ record' = record \ {s}
  /\ UNCHANGED <<up, adv, discVars, auto, connVars, closing, faults>>

----------------------------------------------------------------------------
(* Discovery. *)

\* startup_event in client mode; the auto-connect task finds the discovery set
\* up, since start does not suspend.  If the browser cannot be started it is
\* stopped for good.
StartClient ==
  /\ browsing = "no"
  /\ \/ browsing' = "yes" /\ UNCHANGED faults
     \/ browsing' = "stopped" /\ Fault
  /\ auto' = [auto EXCEPT !.at = "wait", !.attempt = 1]
  /\ UNCHANGED <<serverVars, known, pending, table, found, connVars, closing>>

\* call_soon_threadsafe
Queued(e) == Append(pending, e)

\* _on_state_change of an added service
Appear(s) ==
  /\ browsing = "yes" /\ s \in record \ known
  /\ known' = known \union {s}
  /\ pending' = Queued([added |-> TRUE, name |-> s])
  /\ UNCHANGED <<serverVars, browsing, table, found, auto, connVars, closing, faults>>

\* _on_state_change of an updated one, which is handled like an addition.  Bound:
\* it comes when the loop has handled the events before it.
Refresh(s) ==
  /\ browsing = "yes" /\ s \in record \cap known
  /\ pending = << >>
  /\ pending' = Queued([added |-> TRUE, name |-> s])
  /\ UNCHANGED <<serverVars, known, browsing, table, found, auto, connVars, closing, faults>>

\* _on_state_change of a removed one
Vanish(s) ==
  /\ browsing = "yes" /\ s \in known \ record
  /\ known' = known \ {s}
  /\ pending' = Queued([added |-> FALSE, name |-> s])
  /\ UNCHANGED <<serverVars, browsing, table, found, auto, connVars, closing, faults>>

Without(s) == SelectSeq(table, LAMBDA x : x /= s)

\* _handle_service_added: the service cannot be resolved, or it is the newest in
\* the table and whoever waits is woken up.
HandleAdded ==
  /\ pending /= << >> /\ Head(pending).added
  /\ pending' = Tail(pending)
  /\ \/ UNCHANGED <<table, found>>
     \/ /\ table' = Append(Without(Head(pending).name), Head(pending).name)
        /\ found' = TRUE
  /\ UNCHANGED <<serverVars, known, browsing, auto, connVars, closing, faults>>

\* Wrong: a removal is given to the handler of additions.
HandleRemovedAsUpdate ==
  /\ pending /= << >> /\ ~Head(pending).added
  /\ pending' = Tail(pending)
  /\ UNCHANGED <<serverVars, known, browsing, table, found, auto, connVars, closing, faults>>

\* _handle_service_removed
HandleRemoved ==
  /\ pending /= << >> /\ ~Head(pending).added
  /\ pending' = Tail(pending)
  /\ table' = Without(Head(pending).name)
  /\ UNCHANGED <<serverVars, known, browsing, found, auto, connVars, closing, faults>>

----------------------------------------------------------------------------
(* discover_and_connect, and the connection of the startup. *)

\* await_server returns the newest server.
ServerFound ==
  /\ auto.at = "wait" /\ table /= << >>
  /\ auto' = [auto EXCEPT !.at = "health", !.server = Last(table)]
  /\ UNCHANGED <<serverVars, discVars, connVars, closing, faults>>

\* It returns None: on its timeout, or at once if the event, which is never
\* cleared, was set by a server that is gone again.
NoServer ==
  /\ auto.at = "wait" /\ table = << >>
  /\ auto' = [auto EXCEPT !.at = "backoff"]
  /\ UNCHANGED <<serverVars, discVars, connVars, closing, faults>>

\* GET /health
CheckHealth ==
  /\ auto.at = "health"
  /\ auto' = [auto EXCEPT !.at = IF auto.server \in up THEN "connect" ELSE "backoff"]
  /\ UNCHANGED <<serverVars, discVars, connVars, closing, faults>>

\* The sleep is over: the next attempt, or none is left.
EndBackoff ==
  /\ auto.at = "backoff"
  /\ auto' = IF auto.attempt = MaxAttempts THEN [auto EXCEPT !.at = "done"]
             ELSE [auto EXCEPT !.at = "wait", !.attempt = @ + 1]
  /\ UNCHANGED <<serverVars, discVars, connVars, closing, faults>>

\* connect_to_server, once its await is over
Opened(s) == [target |-> s, running |-> TRUE, ws |-> "open", reader |-> TRUE, retry |-> "no"]
Accepts(s) == s \in up /\ Admitted

\* A startup connection that fails is not tried again.
AutoConnect ==
  /\ auto.at = "connect"
  /\ auto' = [auto EXCEPT !.at = "done"]
  /\ conn' = IF Accepts(auto.server) THEN Opened(auto.server)
             ELSE [NoConnector EXCEPT !.target = auto.server]
  /\ UNCHANGED <<serverVars, discVars, gaveUp, closing, faults>>

----------------------------------------------------------------------------
(* The connector. *)

\* The network breaks the connection.
BreakLink ==
  /\ conn.ws = "open" /\ Fault
  /\ conn' = [conn EXCEPT !.ws = "broken"]
  /\ UNCHANGED <<serverVars, discVars, auto, gaveUp, closing>>

\* Wrong: only the end of the loop is noticed, not its error.
ReceiveEndsSilently ==
  /\ conn.reader /\ conn.ws /= "open"
  /\ conn' = [conn EXCEPT !.reader = FALSE]
  /\ UNCHANGED <<serverVars, discVars, auto, gaveUp, closing, faults>>

\* recv raises in _receive_loop, or the loop finds the connection taken away.
ReceiveEnds ==
  /\ conn.reader /\ conn.ws /= "open"
  /\ conn' = [conn EXCEPT !.reader = FALSE,
                          !.retry = IF conn.running /\ conn.ws = "broken" THEN "due" ELSE @]
  /\ UNCHANGED <<serverVars, discVars, auto, gaveUp, closing, faults>>

\* The task of reconnect_if_needed starts: a connector that is not running any
\* more is left alone.
StartRetry ==
  /\ conn.retry = "due"
  /\ conn' = [conn EXCEPT !.retry = IF conn.running THEN "sleep" ELSE "no"]
  /\ UNCHANGED <<serverVars, discVars, auto, gaveUp, closing, faults>>

\* Its sleep is over; nobody looks again whether the connection is wanted.
EndSleep ==
  /\ conn.retry = "sleep"
  /\ conn' = [conn EXCEPT !.ws = "none", !.retry = "connecting"]
  /\ UNCHANGED <<serverVars, discVars, auto, gaveUp, closing, faults>>

\* The connection is back, or the one attempt has failed and nobody makes another.
Reconnect ==
  /\ conn.retry = "connecting"
  /\ IF Accepts(conn.target)
       THEN conn' = Opened(conn.target) /\ UNCHANGED gaveUp
       ELSE conn' = [conn EXCEPT !.retry = "no"] /\ gaveUp' = TRUE
  /\ UNCHANGED <<serverVars, discVars, auto, closing, faults>>

----------------------------------------------------------------------------
(* shutdown_event of the client. *)

\* disconnect: the reader is cancelled, the close of the WebSocket, if there is
\* one, begins.  A reconnection under way is not cancelled.
Disconnect ==
  /\ browsing /= "no" /\ closing = "no"
  /\ closing' = IF conn.ws = "none" THEN "discovery" ELSE "connector"
  /\ conn' = [conn EXCEPT !.running = FALSE, !.reader = FALSE]
  /\ UNCHANGED <<serverVars, discVars, auto, gaveUp, faults>>

\* The close is over; _ws is forgotten, even if it is a new one by now.
EndDisconnect ==
  /\ closing = "connector"
  /\ closing' = "discovery"
  /\ conn' = [conn EXCEPT !.ws = "none"]
  /\ UNCHANGED <<serverVars, discVars, auto, gaveUp, faults>>

\* MDNSDiscovery.stop; events still pending are handled after it.
StopDiscovery ==
  /\ closing = "discovery"
  /\ closing' = "done"
  /\ browsing' = "stopped" /\ known' = {} /\ table' = << >>
  /\ UNCHANGED <<serverVars, pending, found, auto, connVars, faults>>

HandleEvent == HandleAdded \/ HandleRemoved
AutoStep == ServerFound \/ NoServer \/ CheckHealth \/ EndBackoff \/ AutoConnect
RetryStep == ReceiveEnds \/ StartRetry \/ EndSleep \/ Reconnect
AdvertiserStep(s) == Reregister(s) \/ (adv[s] = "broken" /\ RefreshFails(s))
CloseStep == EndDisconnect \/ StopDiscovery

Next ==
  \/ \E s \in Server :
       \/ StartServer(s) \/ RefreshFails(s) \/ Reregister(s) \/ StopServer(s) \/ CrashServer(s)
       \/ Expire(s) \/ Appear(s) \/ Refresh(s) \/ Vanish(s)
  \/ StartClient \/ HandleEvent \/ AutoStep
  \/ BreakLink \/ RetryStep
  \/ Disconnect \/ CloseStep

\* Timers fire, tasks that are ready run, and the browser catches up.
Fairness ==
  /\ \A s \in Server :
       WF_vars(AdvertiserStep(s)) /\ WF_vars(Expire(s)) /\ WF_vars(Appear(s)) /\ WF_vars(Vanish(s))
  /\ WF_vars(HandleEvent) /\ WF_vars(AutoStep) /\ WF_vars(RetryStep) /\ WF_vars(CloseStep)

Spec == Init /\ [][Next]_vars /\ Fairness

----------------------------------------------------------------------------

\* A server that disappears leaves the table, however often it comes and goes.
GoneLeavesTable ==
  \A s \in Server :
    s \notin up ~> (s \notin Range(table) \/ s \in up \/ browsing = "stopped")

\* A connection that breaks under a running connector is opened again, or the one
\* attempt to do so fails, or the client shuts down.
LossIsRetried ==
  (conn.running /\ conn.ws = "broken") ~> (conn.ws = "open" \/ gaveUp \/ closing /= "no")

\* A server whose refresh failed is on the network again, as long as it runs.
AdvertisedAgain ==
  \A s \in Server :
    (s \in up /\ adv[s] \in {"sleep", "broken"}) ~> (s \in record /\ adv[s] = "on") \/ s \notin up
=============================================================================
