------------------------------- MODULE Pairing -------------------------------
(***************************************************************************)
(* Pairing tokens of the backend: the requests of one IP address against   *)
(* the rate limiter and the table of tokens (app/api/routes/pairing.py),   *)
(* and the redemption of a token by a connection of /ws/peer               *)
(* (app/api/routes/peer_ws.py).                                            *)
(*                                                                         *)
(* The handler of a request is a plain function: it runs in a thread of    *)
(* the server's pool, and the limiter takes no lock.  A check takes no     *)
(* time on the scale of its window: the clock stands still during it.      *)
(* Redemption runs on the event loop without suspending, and the server is *)
(* one process: no two redemptions overlap.  The list of the limiter is a  *)
(* set of entries, which are numbered to be told apart: what it is asked   *)
(* for is its length and what is old in it, never its order.               *)
(***************************************************************************)
EXTENDS Naturals, FiniteSets

CONSTANTS
  Thread,     \* threads that may handle requests of this address at once
  Window,     \* RATE_LIMIT_WINDOW, 60 seconds
  MaxRequests,\* RATE_LIMIT_MAX, 10
  TTL,        \* ttl_minutes a client may ask for
  MaxClock,   \* bound on the clock
  MaxTokens   \* bound on the tokens issued

ASSUME PairingAssumption ==
  /\ Window \in Nat \ {0} /\ MaxRequests \in Nat \ {0} /\ TTL \subseteq Nat \ {0}
  /\ MaxClock \in Nat /\ MaxTokens \in Nat

VARIABLES
  clock,
  store,      \* _rate_store of the address: entries [id, at] of accepted requests
  pc, local,  \* where each thread is, and the entries it holds: the pruned list it
              \* has computed, or the entry of the request it serves
  tokens,     \* rows of pairing_tokens
  refused,    \* history: times of requests answered with 429
  overlapped  \* history: have two checks overlapped?

vars == <<clock, store, pc, local, tokens, refused, overlapped>>

Init ==
  /\ clock = 0 /\ store = {}
  /\ pc = [t \in Thread |-> "idle"] /\ local = [t \in Thread |-> {}]
  /\ tokens = {} /\ refused = {} /\ overlapped = FALSE

Busy == {t \in Thread : pc[t] /= "idle"}
Checking == Busy \ {t \in Thread : pc[t] = "counted"}

\* The requests accepted so far: their tokens are issued, or about to be.
Issued == {[id |-> k.id, at |-> k.issued] : k \in tokens}
Serving == UNION {local[t] : t \in {u \in Thread : pc[u] = "counted"}}
Accepted == Issued \union Serving

\* Those of R accepted in the window that ends at time n.
InWindow(R, n) == {e \in R : e.at <= n /\ n - e.at < Window}

\* Wrong: nothing is ever pruned.
RecentAll(s) == s

\* The entries still inside the window.
Recent(s) == {e \in s : clock - e.at < Window}

\* _check_rate_limit reads the list and computes the pruned one.
Prune(t) ==
  /\ pc[t] = "idle" /\ Cardinality(tokens) + Cardinality(Busy) < MaxTokens
  /\ local' = [local EXCEPT ![t] = Recent(store)]
  /\ pc' = [pc EXCEPT ![t] = "pruned"]
  /\ overlapped' = (overlapped \/ Checking /= {})
  /\ UNCHANGED <<clock, store, tokens, refused>>

\* It replaces the list, with whatever was appended to it since.
Store(t) ==
  /\ pc[t] = "pruned"
  /\ store' = local[t]
  /\ pc' = [pc EXCEPT ![t] = "stored"]
  /\ local' = [local EXCEPT ![t] = {}]
  /\ UNCHANGED <<clock, tokens, refused, overlapped>>

\* Wrong: one request too many.
FullLate == Cardinality(store) > MaxRequests

Full == Cardinality(store) >= MaxRequests

\* The length decides.
Decide(t) ==
  /\ pc[t] = "stored"
  /\ IF Full
       THEN pc' = [pc EXCEPT ![t] = "idle"] /\ refused' = refused \union {clock}
       ELSE pc' = [pc EXCEPT ![t] = "passed"] /\ UNCHANGED refused
  /\ UNCHANGED <<clock, store, local, tokens, overlapped>>

\* The time is appended to the list as it is now.
Count(t) ==
  LET entry == [id |-> Cardinality(Accepted) + 1, at |-> clock] IN
  /\ pc[t] = "passed"
  /\ store' = store \union {entry}
  /\ local' = [local EXCEPT ![t] = {entry}]
  /\ pc' = [pc EXCEPT ![t] = "counted"]
  /\ UNCHANGED <<clock, tokens, refused, overlapped>>

\* create_pairing_token commits the new token.
Issue(t) ==
  /\ pc[t] = "counted"
  /\ \E ttl \in TTL : \E e \in local[t] :
       tokens' = tokens \union
         {[id |-> e.id, issued |-> clock, expires |-> clock + ttl, used |-> FALSE]}
  /\ local' = [local EXCEPT ![t] = {}]
  /\ pc' = [pc EXCEPT ![t] = "idle"]
  /\ UNCHANGED <<clock, store, refused, overlapped>>

\* _validate_pair_token of a connection: unused, not expired, and used from now on.
Redeem(k) ==
  /\ ~k.used /\ clock < k.expires
  /\ tokens' = (tokens \ {k}) \union {[k EXCEPT !.used = TRUE]}
  /\ UNCHANGED <<clock, store, pc, local, refused, overlapped>>

Tick ==
  /\ Busy = {} /\ clock < MaxClock
  /\ clock' = clock + 1
  /\ UNCHANGED <<store, pc, local, tokens, refused, overlapped>>

Next ==
  \/ \E t \in Thread : Prune(t) \/ Store(t) \/ Decide(t) \/ Count(t) \/ Issue(t)
  \/ \E k \in tokens : Redeem(k)
  \/ Tick

Spec == Init /\ [][Next]_vars

----------------------------------------------------------------------------

\* No more than MaxRequests tokens are issued in any window, as long as no two checks
\* overlap: each replaces the list and so forgets what the other appended.
WindowRespected ==
  ~overlapped => \A n \in 0 .. clock : Cardinality(InWindow(Issued, n)) <= MaxRequests

\* A request is refused only if MaxRequests others were accepted in the window before it,
\* even when checks overlap: forgetting is all that goes wrong.
NoFalseRefusal == \A n \in refused : Cardinality(InWindow(Accepted, n)) >= MaxRequests
=============================================================================
