--------------------------- MODULE MeshSyncProofs ---------------------------
(***************************************************************************)
(* Proofs about MeshSync for any number of devices, incidents and          *)
(* discoveries, whatever the network loses, doubles or delays and whatever *)
(* is missed on the way from a daemon to its application.                  *)
(*                                                                         *)
(* The inductive invariant is AppOK, said of each application: its log is  *)
(* closed, nothing pending is ready, whatever counts as received is in the *)
(* log or waits, and whatever a pending incident waits for was asked for.  *)
(* Handlers take their messages in one after the other; AppOK is also what *)
(* each message keeps, with the set M of those that count as received but  *)
(* are not in yet.                                                         *)
(***************************************************************************)
EXTENDS MeshSync, FiniteSetTheorems, WellFoundedInduction, TLAPS

Meta == Device \X {"meta"} \X Nat
Ids == Msg \union Meta

Sessions == [requested : SUBSET Ids, received : SUBSET Ids, sent : SUBSET Ids,
             iterationCount : 0 .. MaxIter, syncComplete : BOOLEAN]

Kinds == {"incident_create", "head_exchange", "message_request", "message_response"}
Envelopes == [id : Ids, kind : Kinds, from : Device, body : SUBSET Ids]

\* States of an application in the middle of a handler.
AppStates == [log : SUBSET made, pending : SUBSET made, session : [Device -> Sessions],
              asks : SUBSET SUBSET Ids]

\* Types of the variables.
TypeOK ==
  /\ made \subseteq Msg /\ IsFiniteSet(made)
  /\ prev \in [Msg -> SUBSET made]
  /\ log \in [Device -> SUBSET made] /\ pending \in [Device -> SUBSET made]
  /\ session \in [Device -> [Device -> Sessions]]
  /\ dlog \in [Device -> SUBSET Ids] /\ dheads \in [Device -> SUBSET Ids]
  /\ dpending \in [Device -> SUBSET made]
  /\ \A d \in Device : IsFiniteSet(dlog[d])
  /\ mesh \subseteq Device /\ found \in [Device -> [Device -> Nat]]
  /\ net \subseteq [e : Envelopes, to : Device]
  /\ missed \in Nat /\ dropped \in [Device -> SUBSET Ids]
  /\ lost \in BOOLEAN /\ cutOff \subseteq Device \X Device

\* What is on its way was made; only incidents have the ids of incidents.
NetOK ==
  \A c \in net :
    /\ c.e.kind = "incident_create" => c.e.id \in made
    /\ c.e.kind /= "incident_create" => c.e.id \in Meta
    /\ c.e.kind = "message_response" => c.e.body \subseteq made

\* No incident builds on itself.
HistoryOK == \A m \in Msg : m \notin prev[m]

\* x was asked for in a session that goes on, unless the limit or heads of the peer,
\* which is then in cut, ended it.
AskedFor(a, x, cut) ==
  \E p \in Device :
    \/ a.session[p].iterationCount = MaxIter
    \/ /\ x \in Outstanding(a.session[p])
       /\ a.session[p].syncComplete => p \in cut

\* An application in the middle of a handler, which has taken the messages of M out of
\* an answer but not into its log.
AppOK(a, cut, M) ==
  /\ \A m \in a.log : prev[m] \subseteq a.log
  /\ \A m \in a.pending : ~(prev[m] \subseteq a.log)
  /\ \A p \in Device : a.session[p].received \subseteq a.log \union a.pending \union M
  /\ \A m \in a.pending : \A x \in prev[m] \ (a.log \union a.pending) :
       x \in M \/ AskedFor(a, x, cut)

\* What the daemon of d has of m's past, and what became of m, when the application of d
\* has not applied it.
HandedOn(d, m) == prev[m] \subseteq dlog[d] /\ m \in pending[d] \union dropped[d]

\* Incidents a daemon has applied are applied by its application, or were handed on.
HandedOK ==
  \A d \in Device : \A m \in dlog[d] \intersect Msg :
    m \in made /\ (m \in log[d] \/ HandedOn(d, m))

CutIn(cut, d) == {p \in Device : <<d, p>> \in cut}
CutBy(d) == CutIn(cutOff, d)

IInv ==
  /\ TypeOK /\ NetOK /\ HistoryOK /\ HandedOK
  /\ \A d \in Device : AppOK(App(d), CutBy(d), {})

----------------------------------------------------------------------------
(* Induction over the elements of a sequence, from well-foundedness.       *)

LEMMA Smallest ==
  ASSUME NEW T, T \subseteq Nat, T /= {}
  PROVE  \E n \in T : \A m \in T : n <= m
<1> DEFINE R == OpToRel(<, Nat)
<1>1. IsWellFoundedOn(R, Nat)
  BY NatLessThanWellFounded
<1>2. \A m, n \in Nat : m < n => <<m, n>> \in R
  BY DEF OpToRel
<1> HIDE DEF R
<1>3. PICK n \in T : \A m \in T : ~ (<<m, n>> \in R)
  BY <1>1, WFMin
<1>4. \A m \in T : m \in Nat /\ n \in Nat
  OBVIOUS
<1>5. \A m \in T : ~(m < n)
  BY <1>2, <1>3, <1>4
<1> QED BY <1>4, <1>5

\* What holds at first and is kept by every step holds to the end.
LEMMA StepByStep ==
  ASSUME NEW n \in Nat, NEW S, 0 \in S, \A i \in 1 .. n : i - 1 \in S => i \in S
  PROVE  \A i \in 0 .. n : i \in S
<1> DEFINE T == {i \in 0 .. n : i \notin S}
<1>1. CASE T = {}
  BY <1>1
<1>2. CASE T /= {}
  <2>1. T \subseteq Nat
    OBVIOUS
  <2>2. PICK k \in T : \A m \in T : k <= m
    BY <1>2, <2>1, Smallest
  <2>3. k \in 0 .. n /\ k \notin S /\ k /= 0
    BY <2>2
  <2>4. k - 1 \in 0 .. n /\ k \in 1 .. n /\ ~(k <= k - 1)
    BY <2>3
  <2>5. k - 1 \notin T
    BY <2>2, <2>4
  <2> QED BY <2>3, <2>4, <2>5
<1> QED BY <1>1, <1>2

\* The states that n steps go through: step i takes x to F[<<x, i>>].
Runs(A, n, a, F) ==
  {f \in [0 .. n -> A] : f[0] = a /\ \A i \in 1 .. n : f[i] = F[<<f[i - 1], i>>]}

LEMMA Chain ==
  ASSUME NEW A, NEW n \in Nat, NEW a \in A, NEW F \in [A \X (1 .. n) -> A]
  PROVE  Runs(A, n, a, F) /= {}
<1> DEFINE Upto(k, f) == f[0] = a /\ \A i \in 1 .. k : f[i] = F[<<f[i - 1], i>>]
           S == {k \in 0 .. n : \E f \in [0 .. k -> A] : Upto(k, f)}
<1>1. 0 \in S
  <2> DEFINE f == [i \in 0 .. 0 |-> a]
  <2>1. f \in [0 .. 0 -> A] /\ f[0] = a
    OBVIOUS
  <2>2. \A i \in 1 .. 0 : FALSE
    OBVIOUS
  <2> HIDE DEF f
  <2>3. Upto(0, f)
    BY <2>1, <2>2
  <2> HIDE DEF Upto
  <2> QED BY <2>1, <2>3
<1>2. ASSUME NEW k \in 1 .. n, k - 1 \in S
      PROVE  k \in S
  <2>1. PICK g \in [0 .. (k - 1) -> A] : Upto(k - 1, g)
    BY <1>2
  <2> DEFINE f == [i \in 0 .. k |-> IF i = k THEN F[<<g[k - 1], k>>] ELSE g[i]]
  <2>2. k - 1 \in 0 .. (k - 1) /\ g[k - 1] \in A /\ <<g[k - 1], k>> \in A \X (1 .. n)
    OBVIOUS
  <2>3. F[<<g[k - 1], k>>] \in A
    BY <2>2
  <2>4. \A i \in 0 .. k : i = k \/ i \in 0 .. (k - 1)
    OBVIOUS
  <2>5. f \in [0 .. k -> A]
    BY <2>3, <2>4
  <2>6. \A i \in 1 .. k : i - 1 \in 0 .. k /\ i - 1 /= k /\ i \in 0 .. k /\ 0 \in 0 .. k /\ 0 /= k
    OBVIOUS
  <2>7. f[0] = a
    BY <2>1, <2>6
  <2>10. k \in 0 .. n /\ k \in 0 .. k
    OBVIOUS
  <2>8. ASSUME NEW i \in 1 .. k PROVE f[i] = F[<<f[i - 1], i>>]
    <3>1. f[i - 1] = g[i - 1]
      BY <2>6
    <3>2. CASE i = k
      <4>1. f[k] = F[<<g[k - 1], k>>]
        BY <2>10
      <4> QED BY <3>1, <3>2, <4>1
    <3>3. CASE i \in 1 .. (k - 1) /\ i /= k
      <4>1. f[i] = g[i]
        BY <2>6, <3>3
      <4> QED BY <2>1, <3>1, <3>3, <4>1
    <3> QED BY <3>2, <3>3
  <2> HIDE DEF f
  <2>9. Upto(k, f)
    BY <2>7, <2>8
  <2> HIDE DEF Upto
  <2> QED BY <2>5, <2>9, <2>10
<1> HIDE DEF S
<1>3. n \in S
  BY <1>1, <1>2, StepByStep
<1> QED BY <1>3 DEF S, Runs

----------------------------------------------------------------------------
(* What the parts of the handlers do to an application.                    *)

\* What was asked for is still asked for when a session changes as it does here.
LEMMA SessionChange ==
  ASSUME NEW a \in AppStates, NEW r \in AppStates, NEW p \in Device, NEW cut, NEW x,
         \A q \in Device \ {p} : r.session[q] = a.session[q],
         a.session[p].iterationCount = MaxIter => r.session[p].iterationCount = MaxIter,
         x \in Outstanding(a.session[p]) =>
           \/ r.session[p].iterationCount = MaxIter
           \/ /\ x \in Outstanding(r.session[p])
              /\ r.session[p].syncComplete => a.session[p].syncComplete \/ p \in cut,
         AskedFor(a, x, cut)
  PROVE  AskedFor(r, x, cut)
  BY DEF AskedFor

LEMMA SessionFields ==
  ASSUME NEW s \in Sessions
  PROVE  /\ s.requested \in SUBSET Ids /\ s.received \in SUBSET Ids /\ s.sent \in SUBSET Ids
         /\ s.iterationCount \in 0 .. MaxIter /\ s.syncComplete \in BOOLEAN
         /\ s = [requested |-> s.requested, received |-> s.received, sent |-> s.sent,
                 iterationCount |-> s.iterationCount, syncComplete |-> s.syncComplete]
  BY DEF Sessions

\* _processMissingDeps leaves the logs alone and asks for what is missing.
LEMMA MissingIsAskedFor ==
  ASSUME TypeOK, NEW a \in AppStates, NEW p \in Device, NEW missing \in SUBSET Ids,
         NEW r, r = ProcessMissing(a, p, missing)
  PROVE  /\ r \in AppStates /\ r.log = a.log /\ r.pending = a.pending
         /\ \A q \in Device : r.session[q].received = a.session[q].received
         /\ \A cut, x : AskedFor(a, x, cut) => AskedFor(r, x, cut)
         /\ \A cut : \A x \in missing :
              (\A q \in Device : x \notin a.session[q].received) => AskedFor(r, x, cut)
<1> DEFINE s == a.session[p]
           t == r.session[p]
           toRequest == missing \ s.requested
<1>1. s \in Sessions /\ s.iterationCount \in 0 .. MaxIter /\ MaxIter \in Nat \ {0}
  BY MeshAssumption DEF AppStates, Sessions
<1>2. CASE missing = {}
  <2>1. r = a
    BY <1>2 DEF ProcessMissing
  <2> QED BY <1>2, <2>1
<1>3. CASE missing /= {} /\ s.iterationCount >= MaxIter
  <2>1. r = [a EXCEPT !.session[p].syncComplete = TRUE]
    BY <1>3, <1>1 DEF ProcessMissing
  <2>2. s.iterationCount = MaxIter
    BY <1>1, <1>3
  <2> DEFINE u == [s EXCEPT !.syncComplete = TRUE]
  <2>a. u \in Sessions
    BY <1>1 DEF Sessions
  <2> DEFINE ss == [a.session EXCEPT ![p] = u]
  <2>b. r = [log |-> a.log, pending |-> a.pending, session |-> ss, asks |-> a.asks]
    BY <2>1 DEF AppStates
  <2> HIDE DEF u
  <2>c. /\ ss \in [Device -> Sessions] /\ ss[p] = u
        /\ \A o \in Device \ {p} : ss[o] = a.session[o]
    BY <2>a DEF AppStates
  <2> HIDE DEF ss
  <2>3. /\ r \in AppStates /\ r.log = a.log /\ r.pending = a.pending
        /\ \A q \in Device \ {p} : r.session[q] = a.session[q]
        /\ t = u
    BY <2>b, <2>c DEF AppStates
  <2>4. t.iterationCount = MaxIter /\ t.received = s.received
    BY <1>1, <2>2, <2>3 DEF Sessions, u
  <2>5. \A cut, x : AskedFor(r, x, cut)
    BY <2>4 DEF AskedFor
  <2> QED BY <2>3, <2>4, <2>5
<1>4. CASE missing /= {} /\ s.iterationCount < MaxIter /\ toRequest = {}
  <2>1. r = [a EXCEPT !.session[p].syncComplete = (Outstanding(s) = {})]
    BY <1>4, <1>1 DEF ProcessMissing
  <2> DEFINE u == [s EXCEPT !.syncComplete = (Outstanding(s) = {})]
  <2>a. u \in Sessions
    BY <1>1 DEF Sessions
  <2> DEFINE ss == [a.session EXCEPT ![p] = u]
  <2>b. r = [log |-> a.log, pending |-> a.pending, session |-> ss, asks |-> a.asks]
    BY <2>1 DEF AppStates
  <2> HIDE DEF u
  <2>c. /\ ss \in [Device -> Sessions] /\ ss[p] = u
        /\ \A o \in Device \ {p} : ss[o] = a.session[o]
    BY <2>a DEF AppStates
  <2> HIDE DEF ss
  <2>2. /\ r \in AppStates /\ r.log = a.log /\ r.pending = a.pending
        /\ \A q \in Device \ {p} : r.session[q] = a.session[q]
        /\ t = u
    BY <2>b, <2>c DEF AppStates
  <2>3. /\ t.iterationCount = s.iterationCount /\ t.received = s.received
        /\ t.requested = s.requested /\ t.syncComplete = (Outstanding(s) = {})
    BY <1>1, <2>2 DEF Sessions, u
  <2>4. Outstanding(t) = Outstanding(s)
    BY <2>3 DEF Outstanding
  <2>5. \A x \in Outstanding(s) : x \in Outstanding(t) /\ ~t.syncComplete
    BY <2>3, <2>4
  <2>6. \A cut, x : AskedFor(a, x, cut) => AskedFor(r, x, cut)
    BY <2>2, <2>3, <2>5, SessionChange
  <2>7. \A x \in missing : x \notin s.received => x \in Outstanding(s)
    BY <1>4 DEF Outstanding
  <2>8. \A cut : \A x \in missing :
              (\A q \in Device : x \notin a.session[q].received) => AskedFor(r, x, cut)
    BY <2>5, <2>7 DEF AskedFor
  <2> QED BY <2>2, <2>3, <2>6, <2>8
<1>5. CASE missing /= {} /\ s.iterationCount < MaxIter /\ toRequest /= {}
  <2>1. r = [a EXCEPT !.session[p] = [s EXCEPT !.requested = @ \union toRequest,
                                               !.iterationCount = @ + 1,
                                               !.syncComplete = FALSE],
                      !.asks = @ \union {toRequest}]
    BY <1>5, <1>1 DEF ProcessMissing
  <2> DEFINE u == [s EXCEPT !.requested = @ \union toRequest,
                            !.iterationCount = @ + 1, !.syncComplete = FALSE]
  <2>2. /\ u \in Sessions /\ u.iterationCount = s.iterationCount + 1 /\ u.received = s.received
        /\ u.requested = s.requested \union toRequest /\ u.syncComplete = FALSE
    <3>1. /\ s.requested \union toRequest \in SUBSET Ids
          /\ s.iterationCount + 1 \in 0 .. MaxIter
      BY <1>1, <1>5, SessionFields
    <3> DEFINE R == s.requested \union toRequest
               n == s.iterationCount + 1
    <3>2. u = [s EXCEPT !.requested = R, !.iterationCount = n, !.syncComplete = FALSE]
      OBVIOUS
    <3> HIDE DEF u, R, n, s
    <3>3. R \in SUBSET Ids /\ n \in 0 .. MaxIter
      BY <3>1 DEF R, n
    <3>4. u.requested = R /\ u.received = s.received /\ u.iterationCount = n
      BY <1>1, <3>2 DEF Sessions
    <3>5. u.syncComplete = FALSE
      BY <1>1, <3>2 DEF Sessions
    <3>6. u \in Sessions
      BY <1>1, <3>2, <3>3 DEF Sessions
    <3> QED BY <3>4, <3>5, <3>6 DEF R, n
  <2> DEFINE ss == [a.session EXCEPT ![p] = u]
  <2>3. r = [log |-> a.log, pending |-> a.pending, session |-> ss, asks |-> a.asks \union {toRequest}]
    BY <2>1 DEF AppStates
  <2>4. toRequest \in SUBSET Ids
    OBVIOUS
  <2> HIDE DEF u, toRequest
  <2>c. /\ ss \in [Device -> Sessions] /\ ss[p] = u
        /\ \A o \in Device \ {p} : ss[o] = a.session[o]
    BY <2>2 DEF AppStates
  <2> HIDE DEF ss
  <2>5. /\ r \in AppStates /\ r.log = a.log /\ r.pending = a.pending
        /\ \A q \in Device \ {p} : r.session[q] = a.session[q]
        /\ t = u
    <3>1. a.asks \union {toRequest} \in SUBSET SUBSET Ids
      BY <2>4 DEF AppStates
    <3> QED BY <2>2, <2>3, <2>c, <3>1 DEF AppStates
  <2>6. \A x \in Outstanding(s) : x \in Outstanding(t) /\ ~t.syncComplete
    BY <2>2, <2>5 DEF Outstanding
  <2>7. \A cut, x : AskedFor(a, x, cut) => AskedFor(r, x, cut)
    BY <1>1, <1>5, <2>5, <2>6, SessionChange
  <2>8. \A x \in missing : x \notin s.received => x \in Outstanding(t)
    BY <2>2, <2>5 DEF Outstanding, toRequest
  <2>9. \A cut : \A x \in missing :
              (\A q \in Device : x \notin a.session[q].received) => AskedFor(r, x, cut)
    BY <2>2, <2>5, <2>8 DEF AskedFor
  <2> QED BY <2>2, <2>5, <2>7, <2>9
<1> QED BY <1>1, <1>2, <1>3, <1>4, <1>5

\* What a scan unblocks is closed and all that can be had.
LEMMA UnblockedIsAll ==
  ASSUME NEW L, NEW P
  PROVE  /\ Unblocked(L, P) \subseteq P
         /\ \A m \in Unblocked(L, P) : prev[m] \subseteq L \union Unblocked(L, P)
         /\ \A m \in P : prev[m] \subseteq L \union Unblocked(L, P) => m \in Unblocked(L, P)
<1> DEFINE U == Unblocked(L, P)
<1>1. U \subseteq P
  BY DEF Unblocked
<1>2. \A m \in U : prev[m] \subseteq L \union U
  BY DEF Unblocked
<1>3. ASSUME NEW m \in P, prev[m] \subseteq L \union U
      PROVE  m \in U
  <2> DEFINE S == U \union {m}
  <2>1. S \in SUBSET P /\ \A n \in S : prev[n] \subseteq L \union S
    BY <1>1, <1>2, <1>3
  <2> QED BY <2>1 DEF Unblocked
<1> QED BY <1>1, <1>2, <1>3

LEMMA AppliedKeeps ==
  ASSUME TypeOK, NEW a \in AppStates, NEW m \in made, NEW r, r = Applied(a, m)
  PROVE  /\ r \in AppStates /\ a.log \subseteq r.log /\ m \in r.log
         /\ r.log \union r.pending = a.log \union a.pending \union {m}
         /\ r.session = a.session
         /\ \A cut : /\ AppOK(a, cut, {m}) /\ prev[m] \subseteq a.log
                     => AppOK(r, cut, {})
<1> DEFINE U == Unblocked(a.log \union {m}, a.pending)
           settled == {m} \union U
<1>1. /\ U \subseteq a.pending
      /\ \A n \in U : prev[n] \subseteq a.log \union {m} \union U
      /\ \A n \in a.pending : prev[n] \subseteq a.log \union {m} \union U => n \in U
  BY UnblockedIsAll
<1>2. r = [a EXCEPT !.log = @ \union settled, !.pending = @ \ settled]
  BY DEF Applied
<1> HIDE DEF U
<1>3. /\ a.log \in SUBSET made /\ a.pending \in SUBSET made
      /\ a.session \in [Device -> Sessions]
  BY DEF AppStates
<1>4. settled \subseteq made
  BY <1>1, <1>3
<1> HIDE DEF settled
<1>5. /\ r.log = a.log \union settled /\ r.pending = a.pending \ settled
      /\ r.session = a.session
  BY <1>2 DEF AppStates
<1>6. r \in AppStates
  BY <1>2, <1>3, <1>4 DEF AppStates
<1>7. r.log \union r.pending = a.log \union a.pending \union {m}
  BY <1>1, <1>5 DEF settled
<1>8. ASSUME NEW cut, AppOK(a, cut, {m}), prev[m] \subseteq a.log
      PROVE  AppOK(r, cut, {})
  <2>1. \A n \in r.log : prev[n] \subseteq r.log
    BY <1>1, <1>5, <1>8 DEF AppOK, settled
  <2>2. \A n \in r.pending : ~(prev[n] \subseteq r.log)
    BY <1>1, <1>5 DEF settled
  <2>3. \A p \in Device : r.session[p].received \subseteq r.log \union r.pending
    BY <1>5, <1>7, <1>8 DEF AppOK
  <2>4. \A x : AskedFor(a, x, cut) => AskedFor(r, x, cut)
    BY <1>5 DEF AskedFor
  <2>5. \A n \in r.pending : \A x \in prev[n] \ (r.log \union r.pending) : AskedFor(r, x, cut)
    <3> SUFFICES ASSUME NEW n \in r.pending, NEW x \in prev[n] \ (r.log \union r.pending)
                 PROVE  AskedFor(a, x, cut)
      BY <2>4
    <3>1. n \in a.pending /\ x \in prev[n] \ (a.log \union a.pending) /\ x /= m
      BY <1>5, <1>7
    <3> QED BY <1>8, <3>1 DEF AppOK
  <2> QED BY <2>1, <2>2, <2>3, <2>5 DEF AppOK
<1> QED BY <1>5, <1>6, <1>7, <1>8 DEF settled

\* GossipLogService.receive and what its caller asks for: afterwards the application has
\* m, and has asked for whatever m waits for.
LEMMA ReceiveKeeps ==
  ASSUME TypeOK, HistoryOK, NEW a \in AppStates, NEW p \in Device, NEW m \in made,
         NEW r, r = Receive(a, p, m)
  PROVE  /\ r \in AppStates /\ a.log \subseteq r.log
         /\ r.log \union r.pending = a.log \union a.pending \union {m}
         /\ \A cut : AppOK(a, cut, {m}) => AppOK(r, cut, {})
         /\ \A cut : AppOK(a, cut, {m}) /\ prev[m] \subseteq a.log => m \in r.log
<1> DEFINE known == a.log \union a.pending
<1>1. CASE m \in known
  <2>1. r = a
    BY <1>1 DEF Receive
  <2>2. \A cut : AppOK(a, cut, {m}) => AppOK(r, cut, {})
    BY <1>1, <2>1 DEF AppOK
  <2>3. \A cut : AppOK(a, cut, {m}) /\ prev[m] \subseteq a.log => m \in r.log
    BY <1>1, <2>1 DEF AppOK
  <2> QED BY <1>1, <2>1, <2>2, <2>3
<1>2. CASE m \notin known /\ CanApply(a, m)
  <2>1. r = Applied(a, m) /\ prev[m] \subseteq a.log
    BY <1>2 DEF Receive, CanApply
  <2> QED BY <2>1, AppliedKeeps
<1>3. CASE m \notin known /\ ~CanApply(a, m)
  <2> DEFINE b == [a EXCEPT !.pending = @ \union {m}]
             missing == prev[m] \ known
  <2>1. r = ProcessMissing(b, p, missing) /\ ~(prev[m] \subseteq a.log)
    BY <1>3 DEF Receive, CanApply
  <2>2. /\ b \in AppStates /\ b.log = a.log /\ b.pending = a.pending \union {m}
        /\ b.session = a.session
    BY DEF AppStates
  <2> HIDE DEF b
  <2>3. missing \in SUBSET Ids /\ m \notin prev[m]
    BY DEF TypeOK, HistoryOK, Ids
  <2> HIDE DEF missing
  <2>4. /\ r \in AppStates /\ r.log = b.log /\ r.pending = b.pending
        /\ \A q \in Device : r.session[q].received = b.session[q].received
        /\ \A cut, x : AskedFor(b, x, cut) => AskedFor(r, x, cut)
        /\ \A cut : \A x \in missing :
             (\A q \in Device : x \notin b.session[q].received) => AskedFor(r, x, cut)
    BY <2>1, <2>2, <2>3, MissingIsAskedFor
  <2>5. ASSUME NEW cut, AppOK(a, cut, {m})
        PROVE  AppOK(r, cut, {})
    <3>1. \A n \in r.log : prev[n] \subseteq r.log
      BY <2>2, <2>4, <2>5 DEF AppOK
    <3>2. \A n \in r.pending : ~(prev[n] \subseteq r.log)
      BY <2>1, <2>2, <2>4, <2>5 DEF AppOK
    <3>3. \A q \in Device : r.session[q].received \subseteq r.log \union r.pending
      BY <2>2, <2>4, <2>5 DEF AppOK
    <3>4. ASSUME NEW n \in r.pending, NEW x \in prev[n] \ (r.log \union r.pending)
          PROVE  AskedFor(r, x, cut)
      <4>1. x \notin known /\ x /= m
        BY <2>2, <2>4
      <4>2. CASE n \in a.pending
        <5>1. AskedFor(a, x, cut)
          BY <2>5, <4>1, <4>2 DEF AppOK
        <5>2. AskedFor(b, x, cut)
          BY <2>2, <5>1 DEF AskedFor
        <5> QED BY <2>4, <5>2
      <4>3. CASE n = m
        <5>1. x \in missing
          BY <4>1, <4>3 DEF missing
        <5>2. \A q \in Device : x \notin b.session[q].received
          BY <2>2, <2>5, <4>1 DEF AppOK
        <5> QED BY <2>4, <5>1, <5>2
      <4> QED BY <2>2, <2>4, <4>2, <4>3
    <3> QED BY <3>1, <3>2, <3>3, <3>4 DEF AppOK
  <2> QED BY <2>1, <2>2, <2>4, <2>5
<1> QED BY <1>1, <1>2, <1>3

\* The same for a message of an answer, which counts as received before it is taken in.
TakeAnswer(a, p, m) == Receive([a EXCEPT !.session[p].received = @ \union {m}], p, m)

LEMMA AnswerKeeps ==
  ASSUME TypeOK, HistoryOK, NEW a \in AppStates, NEW p \in Device, NEW m \in made,
         NEW r, r = TakeAnswer(a, p, m)
  PROVE  /\ r \in AppStates /\ a.log \subseteq r.log
         /\ r.log \union r.pending = a.log \union a.pending \union {m}
         /\ \A cut : AppOK(a, cut, {}) => AppOK(r, cut, {})
<1> DEFINE s == a.session[p]
           u == [s EXCEPT !.received = @ \union {m}]
           ss == [a.session EXCEPT ![p] = u]
           b == [a EXCEPT !.session[p].received = @ \union {m}]
<1>1. s \in Sessions
  BY DEF AppStates
<1>2. m \in Ids
  BY DEF TypeOK, Ids
<1>3. b = [log |-> a.log, pending |-> a.pending, session |-> ss, asks |-> a.asks]
  <2>1. b = [a EXCEPT !.session[p] = u]
    OBVIOUS
  <2> HIDE DEF u, b
  <2> QED BY <2>1 DEF AppStates
<1>4. r = Receive(b, p, m)
  BY DEF TakeAnswer
<1> HIDE DEF s
<1>5. /\ u.requested = s.requested /\ u.received = s.received \union {m}
      /\ u.iterationCount = s.iterationCount
  BY <1>1 DEF Sessions
<1>6. u.syncComplete = s.syncComplete
  BY <1>1 DEF Sessions
<1>7. u \in Sessions
  BY <1>1, <1>2 DEF Sessions
<1> HIDE DEF u
<1>8. /\ ss \in [Device -> Sessions] /\ ss[p] = u
      /\ \A o \in Device \ {p} : ss[o] = a.session[o]
  BY <1>7 DEF AppStates
<1> HIDE DEF ss, b
<1>9. b \in AppStates /\ b.log = a.log /\ b.pending = a.pending /\ b.session = ss
  BY <1>3, <1>8 DEF AppStates
<1>10. ASSUME NEW cut, AppOK(a, cut, {})
       PROVE  AppOK(b, cut, {m})
  <2>1. \A o \in Device : b.session[o].received \subseteq b.log \union b.pending \union {m}
    BY <1>5, <1>8, <1>9, <1>10 DEF AppOK, s
  <2>2. \A x : x /= m /\ AskedFor(a, x, cut) => AskedFor(b, x, cut)
    <3> SUFFICES ASSUME NEW x, x /= m, NEW o \in Device,
                        \/ a.session[o].iterationCount = MaxIter
                        \/ /\ x \in Outstanding(a.session[o])
                           /\ a.session[o].syncComplete => o \in cut
                 PROVE  \/ b.session[o].iterationCount = MaxIter
                        \/ /\ x \in Outstanding(b.session[o])
                           /\ b.session[o].syncComplete => o \in cut
      BY DEF AskedFor
    <3>1. CASE o /= p
      BY <1>8, <1>9, <3>1
    <3>2. CASE o = p
      <4>1. x \in Outstanding(s) => x \in Outstanding(u)
        BY <1>5 DEF Outstanding
      <4> QED BY <1>5, <1>6, <1>8, <1>9, <3>2, <4>1 DEF s
    <3> QED BY <3>1, <3>2
  <2>3. \A n \in b.pending : \A x \in prev[n] \ (b.log \union b.pending) :
          x \in {m} \/ AskedFor(b, x, cut)
    BY <1>9, <1>10, <2>2 DEF AppOK
  <2> QED BY <1>9, <1>10, <2>1, <2>3 DEF AppOK
<1>11. /\ r \in AppStates /\ b.log \subseteq r.log
       /\ r.log \union r.pending = b.log \union b.pending \union {m}
       /\ \A cut : AppOK(b, cut, {m}) => AppOK(r, cut, {})
  BY <1>4, <1>9, ReceiveKeeps
<1> QED BY <1>9, <1>10, <1>11
----------------------------------------------------------------------------
(* Handlers that take in several messages. *)

\* An order of a finite set is a sequence of all of it.
LEMMA OrderTakesAll ==
  ASSUME NEW S, IsFiniteSet(S), NEW s \in SetToSeqs(S)
  PROVE  /\ Len(s) \in Nat /\ DOMAIN s = 1 .. Len(s) /\ s \in [1 .. Len(s) -> S]
         /\ \A x \in S : \E i \in 1 .. Len(s) : s[i] = x
<1> DEFINE n == Cardinality(S)
<1>1. n \in Nat
  BY FS_CardinalityType
<1>2. s \in [1 .. n -> S] /\ \A i, j \in 1 .. n : i # j => s[i] # s[j]
  BY DEF SetToSeqs
<1>3. IsFiniteSet(1 .. n) /\ Cardinality(1 .. n) = n
  BY <1>1, FS_Interval
<1>4. s \in Injection(1 .. n, S)
  BY <1>2 DEF Injection, IsInjective
<1>5. s \in Surjection(1 .. n, S)
  BY <1>3, <1>4, FS_Injection
<1>6. \A x \in S : \E i \in 1 .. n : s[i] = x
  BY <1>5 DEF Surjection
<1>7. Len(s) = n
  BY <1>1, <1>2
<1> QED BY <1>1, <1>2, <1>6, <1>7

\* The loop of HandleResponse.
AnswerTaken(a, p, messages) ==
  LET Take(b, m) == Receive([b EXCEPT !.session[p].received = @ \union {m}], p, m)
  IN  InTurn(a, messages, Take)

LEMMA AnswerTakenKeeps ==
  ASSUME TypeOK, HistoryOK, NEW a \in AppStates, NEW p \in Device,
         NEW n \in Nat, NEW s \in [1 .. n -> made], Len(s) = n,
         NEW r, r = AnswerTaken(a, p, s)
  PROVE  /\ r \in AppStates /\ a.log \subseteq r.log
         /\ a.log \union a.pending \subseteq r.log \union r.pending
         /\ \A cut : AppOK(a, cut, {}) => AppOK(r, cut, {})
<1> DEFINE F == [x \in AppStates \X (1 .. n) |-> TakeAnswer(x[1], p, s[x[2]])]
<1>1. \A b \in AppStates : \A i \in 1 .. n :
        /\ TakeAnswer(b, p, s[i]) \in AppStates
        /\ b.log \subseteq TakeAnswer(b, p, s[i]).log
        /\ b.log \union b.pending \subseteq TakeAnswer(b, p, s[i]).log \union TakeAnswer(b, p, s[i]).pending
        /\ \A cut : AppOK(b, cut, {}) => AppOK(TakeAnswer(b, p, s[i]), cut, {})
  BY AnswerKeeps
<1>2. F \in [AppStates \X (1 .. n) -> AppStates]
  BY <1>1
<1>3. \A b \in AppStates : \A i \in 1 .. n : F[<<b, i>>] = TakeAnswer(b, p, s[i])
  OBVIOUS
<1> HIDE DEF F
<1>a. PICK f : f \in Runs(AppStates, n, a, F)
  BY <1>2, Chain
<1>4. f \in [0 .. n -> AppStates] /\ f[0] = a /\ \A i \in 1 .. n : f[i] = F[<<f[i - 1], i>>]
  BY <1>a DEF Runs
<1>5. f = [i \in 0 .. n |-> IF i = 0 THEN a ELSE TakeAnswer(f[i - 1], p, s[i])]
  <2> DEFINE e(i) == IF i = 0 THEN a ELSE TakeAnswer(f[i - 1], p, s[i])
  <2>1. \A i \in 0 .. n : f[i] = e(i)
    <3> SUFFICES ASSUME NEW i \in 0 .. n PROVE f[i] = e(i)
      OBVIOUS
    <3>1. CASE i = 0
      BY <1>4, <3>1
    <3>2. CASE i /= 0
      <4>1. i \in 1 .. n /\ i - 1 \in 0 .. n
        BY <3>2
      <4>2. f[i] = F[<<f[i - 1], i>>] /\ f[i - 1] \in AppStates
        BY <1>4, <4>1
      <4>3. f[i] = TakeAnswer(f[i - 1], p, s[i])
        BY <1>3, <4>1, <4>2
      <4> QED BY <3>2, <4>3
    <3> QED BY <3>1, <3>2
  <2> HIDE DEF e
  <2>2. f = [i \in 0 .. n |-> e(i)]
    BY <1>4, <2>1
  <2> QED BY <2>2 DEF e
<1> DEFINE g == CHOOSE g : g = [i \in 0 .. Len(s) |->
                                 IF i = 0 THEN a ELSE TakeAnswer(g[i - 1], p, s[i])]
<1>6. g = [i \in 0 .. n |-> IF i = 0 THEN a ELSE TakeAnswer(g[i - 1], p, s[i])]
  BY <1>5
<1>7. r = g[Len(s)]
  BY DEF AnswerTaken, InTurn, TakeAnswer
<1> HIDE DEF g
<1> DEFINE S == {i \in 0 .. n : /\ g[i] \in AppStates /\ a.log \subseteq g[i].log
                                /\ a.log \union a.pending \subseteq g[i].log \union g[i].pending
                                /\ \A cut : AppOK(a, cut, {}) => AppOK(g[i], cut, {})}
<1>8. 0 \in S
  BY <1>6
<1>9. ASSUME NEW i \in 1 .. n, i - 1 \in S
      PROVE  i \in S
  <2> DEFINE b == g[i - 1]
  <2>1. g[i] = TakeAnswer(b, p, s[i])
    BY <1>6
  <2>2. /\ b \in AppStates /\ a.log \subseteq b.log
        /\ a.log \union a.pending \subseteq b.log \union b.pending
        /\ \A cut : AppOK(a, cut, {}) => AppOK(b, cut, {})
    BY <1>9
  <2> HIDE DEF b
  <2>3. /\ TakeAnswer(b, p, s[i]) \in AppStates /\ b.log \subseteq TakeAnswer(b, p, s[i]).log
        /\ b.log \union b.pending \subseteq TakeAnswer(b, p, s[i]).log \union TakeAnswer(b, p, s[i]).pending
        /\ \A cut : AppOK(b, cut, {}) => AppOK(TakeAnswer(b, p, s[i]), cut, {})
    BY <1>1, <2>2
  <2>4. i \in 0 .. n
    OBVIOUS
  <2> QED BY <2>1, <2>2, <2>3, <2>4
<1> HIDE DEF S
<1>10. n \in S
  BY <1>8, <1>9, StepByStep
<1> QED BY <1>7, <1>10 DEF S
LEMMA Authors ==
  ASSUME TypeOK, NEW m \in made
  PROVE  m \in Msg /\ Author(m) \in Device /\ prev[m] \subseteq made
<1>1. m \in Msg
  BY DEF TypeOK
<1>2. m \in Device \X {"inc"} \X Nat
  BY <1>1, MeshAssumption
<1>3. m[1] \in Device
  BY <1>2
<1>4. prev[m] \subseteq made
  BY <1>1 DEF TypeOK
<1> QED BY <1>1, <1>3, <1>4 DEF Author

\* What an application makes of the incidents its daemon hands on, but for those of gone.
IncidentsTaken(a, order, gone) ==
  LET Take(b, m) == IF m \in gone THEN b ELSE Receive(b, Author(m), m)
  IN  InTurn(a, order, Take)

\* Whatever is missed of them, the application takes in the rest.
LEMMA IncidentsTakenKeep ==
  ASSUME TypeOK, HistoryOK, NEW a \in AppStates, NEW got \in SUBSET made, NEW gone,
         NEW s \in CausalOrders(got), NEW cut, AppOK(a, cut, {}),
         NEW r, r = IncidentsTaken(a, s, gone)
  PROVE  /\ r \in AppStates /\ AppOK(r, cut, {}) /\ a.log \subseteq r.log
         /\ a.log \union a.pending \subseteq r.log \union r.pending
         /\ got \ gone \subseteq r.log \union r.pending
<1> DEFINE n == Len(s)
           known(b) == b.log \union b.pending
<1>1. IsFiniteSet(got)
  BY FS_Subset DEF TypeOK
<1>2. s \in SetToSeqs(got)
  BY DEF CausalOrders
<1>3. /\ n \in Nat /\ DOMAIN s = 1 .. n /\ s \in [1 .. n -> got]
      /\ \A x \in got : \E i \in 1 .. n : s[i] = x
  BY <1>1, <1>2, OrderTakesAll
<1> HIDE DEF n
<1> DEFINE G(b, i) == IF s[i] \in gone THEN b ELSE Receive(b, Author(s[i]), s[i])
<1>5. \A i \in 1 .. n : s[i] \in got /\ s[i] \in made /\ Author(s[i]) \in Device
  BY <1>3, Authors
<1>6. ASSUME NEW b \in AppStates, NEW i \in 1 .. n
      PROVE  /\ G(b, i) \in AppStates /\ b.log \subseteq G(b, i).log
             /\ AppOK(b, cut, {}) => AppOK(G(b, i), cut, {})
             /\ known(b) \subseteq known(G(b, i))
             /\ s[i] \in gone \union known(G(b, i))
  <2> DEFINE q == Author(s[i])
             m == s[i]
  <2>1. q \in Device /\ m \in made
    BY <1>5
  <2>2. G(b, i) = IF m \in gone THEN b ELSE Receive(b, q, m)
    OBVIOUS
  <2> HIDE DEF q, G
  <2>3. CASE m \in gone
    BY <2>2, <2>3
  <2>4. CASE m \notin gone
    <3> HIDE DEF m
    <3> DEFINE c == Receive(b, q, m)
    <3>1. c = Receive(b, q, m)
      OBVIOUS
    <3> HIDE DEF c
    <3>2. /\ c \in AppStates /\ b.log \subseteq c.log
          /\ AppOK(b, cut, {m}) => AppOK(c, cut, {})
          /\ c.log \union c.pending = b.log \union b.pending \union {m}
      BY <2>1, <3>1, ReceiveKeeps, ZenonT(30)
    <3>3. AppOK(b, cut, {}) => AppOK(b, cut, {m})
      BY DEF AppOK
    <3>4. G(b, i) = c
      BY <2>2, <2>4, <3>1
    <3> QED BY <3>2, <3>3, <3>4 DEF m
  <2> QED BY <2>3, <2>4
<1> HIDE DEF G
<1> DEFINE F == [x \in AppStates \X (1 .. n) |-> G(x[1], x[2])]
<1>7. F \in [AppStates \X (1 .. n) -> AppStates]
  BY <1>6
<1>8. \A b \in AppStates : \A i \in 1 .. n : F[<<b, i>>] = G(b, i)
  OBVIOUS
<1> HIDE DEF F
<1>9. PICK f : f \in Runs(AppStates, n, a, F)
  BY <1>3, <1>7, Chain
<1>10. f \in [0 .. n -> AppStates] /\ f[0] = a /\ \A i \in 1 .. n : f[i] = F[<<f[i - 1], i>>]
  BY <1>9 DEF Runs
<1>11. f = [i \in 0 .. n |-> IF i = 0 THEN a ELSE G(f[i - 1], i)]
  <2> DEFINE e(i) == IF i = 0 THEN a ELSE G(f[i - 1], i)
  <2>1. \A i \in 0 .. n : f[i] = e(i)
    <3> SUFFICES ASSUME NEW i \in 0 .. n PROVE f[i] = e(i)
      OBVIOUS
    <3>1. CASE i = 0
      BY <1>10, <3>1
    <3>2. CASE i /= 0
      <4>1. i \in 1 .. n /\ i - 1 \in 0 .. n
        BY <1>3, <3>2
      <4>2. f[i] = F[<<f[i - 1], i>>] /\ f[i - 1] \in AppStates
        BY <1>10, <4>1
      <4>3. f[i] = G(f[i - 1], i)
        BY <1>8, <4>1, <4>2
      <4> QED BY <3>2, <4>3
    <3> QED BY <3>1, <3>2
  <2> HIDE DEF e
  <2>2. f = [i \in 0 .. n |-> e(i)]
    BY <1>10, <2>1
  <2> QED BY <2>2 DEF e
<1> DEFINE g == CHOOSE g : g = [i \in 0 .. Len(s) |-> IF i = 0 THEN a ELSE G(g[i - 1], i)]
<1>12. g = [i \in 0 .. n |-> IF i = 0 THEN a ELSE G(g[i - 1], i)]
  BY <1>11 DEF n
<1>13. r = g[Len(s)]
  BY DEF IncidentsTaken, InTurn, G
<1> HIDE DEF g
<1> DEFINE S == {i \in 0 .. n : /\ g[i] \in AppStates /\ AppOK(g[i], cut, {})
                                /\ a.log \subseteq g[i].log /\ known(a) \subseteq known(g[i])
                                /\ \A j \in 1 .. i : s[j] \in gone \union known(g[i])}
<1>14. 0 \in S
  BY <1>3, <1>12
<1>15. ASSUME NEW i \in 1 .. n, i - 1 \in S
       PROVE  i \in S
  <2> DEFINE b == g[i - 1]
  <2>1. g[i] = G(b, i)
    <3>1. i \in 0 .. n /\ i /= 0
      BY <1>3
    <3> QED BY <1>12, <3>1
  <2>2. /\ b \in AppStates /\ AppOK(b, cut, {}) /\ a.log \subseteq b.log
        /\ known(a) \subseteq known(b)
        /\ \A j \in 1 .. (i - 1) : s[j] \in gone \union known(b)
    BY <1>15
  <2> HIDE DEF b
  <2>3. /\ G(b, i) \in AppStates /\ b.log \subseteq G(b, i).log
        /\ AppOK(G(b, i), cut, {}) /\ known(b) \subseteq known(G(b, i))
        /\ s[i] \in gone \union known(G(b, i))
    BY <1>6, <2>2
  <2> HIDE DEF known
  <2>4. \A j \in 1 .. i : j = i \/ j \in 1 .. (i - 1)
    BY <1>3
  <2>5. \A j \in 1 .. i : s[j] \in gone \union known(G(b, i))
    BY <2>2, <2>3, <2>4
  <2>6. i \in 0 .. n
    BY <1>3
  <2> QED BY <2>1, <2>2, <2>3, <2>5, <2>6
<1> HIDE DEF S
<1>16. n \in S
  <2>1. n \in Nat /\ n \in 0 .. n
    BY <1>3
  <2>2. \A i \in 1 .. n : i - 1 \in S => i \in S
    BY <1>15
  <2>3. \A i \in 0 .. n : i \in S
    BY <1>14, <2>1, <2>2, StepByStep
  <2> QED BY <2>1, <2>3
<1>17. got \ gone \subseteq known(g[n])
  BY <1>3, <1>16 DEF S
<1> QED BY <1>13, <1>16, <1>17 DEF S, n
----------------------------------------------------------------------------
(* The handlers. *)

\* The session with p becomes u.
WithSession(a, p, u) == [a EXCEPT !.session[p] = u]

LEMMA SessionSet ==
  ASSUME NEW a \in AppStates, NEW p \in Device, NEW u \in Sessions,
         NEW r, r = WithSession(a, p, u)
  PROVE  /\ r \in AppStates /\ r.log = a.log /\ r.pending = a.pending /\ r.asks = a.asks
         /\ r.session[p] = u /\ \A q \in Device \ {p} : r.session[q] = a.session[q]
<1> DEFINE ss == [a.session EXCEPT ![p] = u]
<1>1. r = [log |-> a.log, pending |-> a.pending, session |-> ss, asks |-> a.asks]
  BY DEF WithSession, AppStates
<1>2. /\ ss \in [Device -> Sessions] /\ ss[p] = u
      /\ \A o \in Device \ {p} : ss[o] = a.session[o]
  BY DEF AppStates
<1> HIDE DEF ss
<1> QED BY <1>1, <1>2 DEF AppStates

\* The logs as before, and everything asked for: the application is as good as before.
LEMMA SameLogs ==
  ASSUME NEW a \in AppStates, NEW r \in AppStates, r.log = a.log, r.pending = a.pending,
         \A q \in Device : r.session[q].received = a.session[q].received,
         NEW cut, NEW c, \A x : AskedFor(a, x, cut) => AskedFor(r, x, c),
         AppOK(a, cut, {})
  PROVE  AppOK(r, c, {})
BY DEF AppOK

\* _handleMessageResponse
LEMMA ResponseKeeps ==
  ASSUME TypeOK, HistoryOK, NEW a \in AppStates, NEW p \in Device,
         NEW n \in Nat, NEW s \in [1 .. n -> made], Len(s) = n,
         NEW r, r = HandleResponse(a, p, s)
  PROVE  /\ r \in AppStates /\ a.log \subseteq r.log
         /\ a.log \union a.pending \subseteq r.log \union r.pending
         /\ \A cut : AppOK(a, cut, {}) => AppOK(r, cut, {})
<1> DEFINE b == AnswerTaken(a, p, s)
           t == b.session[p]
           u == [t EXCEPT !.syncComplete = @ \/ Outstanding(t) = {}]
<1>1. r = [b EXCEPT !.session[p].syncComplete = @ \/ Outstanding(b.session[p]) = {}]
  BY DEF HandleResponse, AnswerTaken
<1> HIDE DEF b
<1>2. /\ b \in AppStates /\ a.log \subseteq b.log
      /\ a.log \union a.pending \subseteq b.log \union b.pending
      /\ \A cut : AppOK(a, cut, {}) => AppOK(b, cut, {})
  BY AnswerTakenKeeps DEF b
<1>3. r = WithSession(b, p, u)
  BY <1>1 DEF WithSession
<1>4. t \in Sessions
  BY <1>2 DEF AppStates
<1> HIDE DEF t
<1> DEFINE done == t.syncComplete \/ Outstanding(t) = {}
<1>5. done \in BOOLEAN /\ u = [t EXCEPT !.syncComplete = done]
  OBVIOUS
<1> HIDE DEF u, done
<1>6. u \in Sessions
  BY <1>4, <1>5 DEF Sessions
<1>7. /\ u.iterationCount = t.iterationCount /\ u.received = t.received
      /\ u.requested = t.requested
  BY <1>4, <1>5 DEF Sessions
<1>8. u.syncComplete = done
  BY <1>4, <1>5 DEF Sessions
<1>9. /\ r \in AppStates /\ r.log = b.log /\ r.pending = b.pending
      /\ r.session[p] = u /\ \A q \in Device \ {p} : r.session[q] = b.session[q]
  BY <1>2, <1>3, <1>6, SessionSet
<1>10. \A q \in Device : r.session[q].received = b.session[q].received
  BY <1>7, <1>9 DEF t
<1>11. ASSUME NEW cut, NEW x, AskedFor(b, x, cut)
       PROVE  AskedFor(r, x, cut)
  <2>1. Outstanding(u) = Outstanding(t)
    BY <1>7 DEF Outstanding
  <2>2. x \in Outstanding(t) => x \in Outstanding(u) /\ (u.syncComplete => t.syncComplete)
    BY <1>8, <2>1 DEF done
  <2> QED BY <1>2, <1>7, <1>9, <1>11, <2>2, SessionChange DEF t
<1>12. \A cut : AppOK(b, cut, {}) => AppOK(r, cut, {})
  BY <1>2, <1>9, <1>10, <1>11, SameLogs
<1> QED BY <1>2, <1>9, <1>12

\* _handleHeadExchange: heads that hold nothing new may end a session that waits.
LEMMA HeadsKeep ==
  ASSUME TypeOK, NEW a \in AppStates, NEW p \in Device, NEW heads \in SUBSET Ids,
         NEW cut, NEW c, cut \subseteq c, AppOK(a, cut, {}),
         heads \subseteq a.log \union a.pending /\ Outstanding(a.session[p]) /= {} => p \in c,
         NEW r, r = HandleHeads(a, p, heads)
  PROVE  r \in AppStates /\ r.log = a.log /\ r.pending = a.pending /\ AppOK(r, c, {})
<1> DEFINE missing == heads \ (a.log \union a.pending)
           s == a.session[p]
<1>1. CASE missing = {}
  <2> DEFINE u == [s EXCEPT !.syncComplete = TRUE]
  <2>1. r = WithSession(a, p, u)
    BY <1>1 DEF HandleHeads, WithSession
  <2>2. s \in Sessions
    BY DEF AppStates
  <2>3. s.requested = s.requested /\ (Outstanding(s) /= {} => p \in c)
    BY <1>1
  <2> HIDE DEF s
  <2>4. u \in Sessions
    BY <2>2 DEF Sessions
  <2>5. /\ u.iterationCount = s.iterationCount /\ u.received = s.received
        /\ u.requested = s.requested
    BY <2>2 DEF Sessions
  <2> HIDE DEF u
  <2>6. /\ r \in AppStates /\ r.log = a.log /\ r.pending = a.pending
        /\ r.session[p] = u /\ \A q \in Device \ {p} : r.session[q] = a.session[q]
    BY <2>1, <2>4, SessionSet
  <2>7. \A q \in Device : r.session[q].received = a.session[q].received
    BY <2>5, <2>6 DEF s
  <2>8. ASSUME NEW x, AskedFor(a, x, cut)
        PROVE  AskedFor(r, x, c)
    <3>1. AskedFor(a, x, c)
      BY <2>8 DEF AskedFor
    <3>2. Outstanding(u) = Outstanding(s)
      BY <2>5 DEF Outstanding
    <3> QED BY <2>3, <2>5, <2>6, <3>1, <3>2, SessionChange DEF s
  <2> QED BY <2>6, <2>7, <2>8, SameLogs
<1>2. CASE missing /= {}
  <2>1. r = ProcessMissing(a, p, missing) /\ missing \in SUBSET Ids
    BY <1>2 DEF HandleHeads
  <2> HIDE DEF missing
  <2>2. /\ r \in AppStates /\ r.log = a.log /\ r.pending = a.pending
        /\ \A q \in Device : r.session[q].received = a.session[q].received
        /\ \A x : AskedFor(a, x, cut) => AskedFor(r, x, cut)
    BY <2>1, MissingIsAskedFor
  <2>3. \A x : AskedFor(r, x, cut) => AskedFor(r, x, c)
    BY DEF AskedFor
  <2> QED BY <2>2, <2>3, SameLogs
<1> QED BY <1>1, <1>2
\* _handleMessageRequest notes what it sends.
WithSent(a, p, toSend) == [a EXCEPT !.session[p].sent = @ \union toSend]

LEMMA SentKeeps ==
  ASSUME NEW a \in AppStates, NEW p \in Device, NEW toSend \in SUBSET Ids, NEW cut,
         AppOK(a, cut, {}), NEW r, r = WithSent(a, p, toSend)
  PROVE  /\ r \in AppStates /\ r.log = a.log /\ r.pending = a.pending
         /\ r.asks = a.asks /\ AppOK(r, cut, {})
<1> DEFINE s == a.session[p]
           u == [s EXCEPT !.sent = @ \union toSend]
<1>1. r = WithSession(a, p, u)
  BY DEF WithSession, WithSent
<1>2. s \in Sessions
  BY DEF AppStates
<1> HIDE DEF s
<1>3. u \in Sessions
  <2> DEFINE S == s.sent \union toSend
  <2>1. S \in SUBSET Ids /\ u = [s EXCEPT !.sent = S]
    BY <1>2, SessionFields
  <2> HIDE DEF S, u
  <2> QED BY <1>2, <2>1 DEF Sessions
<1>4. /\ u.iterationCount = s.iterationCount /\ u.received = s.received
      /\ u.requested = s.requested
  BY <1>2 DEF Sessions
<1>5. u.syncComplete = s.syncComplete
  BY <1>2 DEF Sessions
<1> HIDE DEF u
<1>6. /\ r \in AppStates /\ r.log = a.log /\ r.pending = a.pending /\ r.asks = a.asks
      /\ r.session[p] = u /\ \A q \in Device \ {p} : r.session[q] = a.session[q]
  BY <1>1, <1>3, SessionSet
<1>7. \A q \in Device : r.session[q].received = a.session[q].received
  BY <1>4, <1>6 DEF s
<1>8. ASSUME NEW x, AskedFor(a, x, cut)
      PROVE  AskedFor(r, x, cut)
  <2>1. Outstanding(u) = Outstanding(s)
    BY <1>4 DEF Outstanding
  <2> QED BY <1>4, <1>5, <1>6, <1>8, <2>1, SessionChange DEF s
<1> QED BY <1>6, <1>7, <1>8, SameLogs

\* A retry leaves the session as it is, but for its count, or has reached the limit.
LEMMA RetriedSession ==
  ASSUME NEW s \in Sessions, NEW t, t = Retried(s)
  PROVE  /\ t \in Sessions /\ t.received = s.received /\ t.requested = s.requested
         /\ s.iterationCount = MaxIter => t.iterationCount = MaxIter
         /\ t.iterationCount = MaxIter \/ t.syncComplete = s.syncComplete
<1>1. s.iterationCount \in 0 .. MaxIter /\ MaxIter \in Nat
  BY MeshAssumption DEF Sessions
<1>2. CASE s.iterationCount < MaxIter
  <2> DEFINE n == s.iterationCount + 1
  <2>1. n \in 0 .. MaxIter /\ t = [s EXCEPT !.iterationCount = n]
    BY <1>1, <1>2 DEF Retried
  <2> HIDE DEF n
  <2>2. t \in Sessions
    BY <2>1 DEF Sessions
  <2>3. t.received = s.received /\ t.requested = s.requested
    BY <2>1 DEF Sessions
  <2>4. t.syncComplete = s.syncComplete
    BY <2>1 DEF Sessions
  <2> QED BY <1>1, <1>2, <2>2, <2>3, <2>4
<1>3. CASE ~(s.iterationCount < MaxIter)
  <2>1. t = [s EXCEPT !.syncComplete = TRUE] /\ s.iterationCount = MaxIter
    BY <1>1, <1>3 DEF Retried
  <2>2. t \in Sessions
    BY <2>1 DEF Sessions
  <2>3. t.received = s.received /\ t.requested = s.requested /\ t.iterationCount = MaxIter
    BY <2>1 DEF Sessions
  <2> QED BY <2>2, <2>3
<1> QED BY <1>2, <1>3

\* _checkRetries
LEMMA RetriesKeep ==
  ASSUME NEW a \in AppStates, NEW due \in SUBSET Device, NEW cut, AppOK(a, cut, {}),
         NEW r, r = CheckRetries(a, due)
  PROVE  r \in AppStates /\ r.log = a.log /\ r.pending = a.pending /\ AppOK(r, cut, {})
<1> DEFINE retried == {p \in due : /\ ~a.session[p].syncComplete
                                   /\ a.session[p].iterationCount > 0
                                   /\ Outstanding(a.session[p]) /= {}}
           open == {p \in retried : ~Retried(a.session[p]).syncComplete}
           ss == [p \in Device |-> IF p \in retried THEN Retried(a.session[p]) ELSE a.session[p]]
           asks == {Outstanding(a.session[p]) : p \in open}
<1>1. r = [a EXCEPT !.session = ss, !.asks = asks]
  BY DEF CheckRetries
<1>2. retried \subseteq Device /\ open \subseteq Device
  OBVIOUS
<1> HIDE DEF retried, open
<1>3. a.session \in [Device -> Sessions]
  BY DEF AppStates
<1>4. asks \in SUBSET SUBSET Ids
  BY <1>2, <1>3, SessionFields DEF Outstanding
<1>5. \A p \in Device : ss[p] = IF p \in retried THEN Retried(a.session[p]) ELSE a.session[p]
  OBVIOUS
<1>6. ss \in [Device -> Sessions]
  BY <1>3, RetriedSession
<1> HIDE DEF ss, asks
<1>7. /\ r \in AppStates /\ r.log = a.log /\ r.pending = a.pending /\ r.session = ss
  BY <1>1, <1>4, <1>6 DEF AppStates
<1>8. ASSUME NEW p \in Device
      PROVE  /\ ss[p].received = a.session[p].received
             /\ ss[p].requested = a.session[p].requested
             /\ a.session[p].iterationCount = MaxIter => ss[p].iterationCount = MaxIter
             /\ ss[p].iterationCount = MaxIter \/ ss[p].syncComplete = a.session[p].syncComplete
  <2>1. a.session[p] \in Sessions
    BY <1>3
  <2>2. CASE p \in retried
    BY <1>5, <2>1, <2>2, RetriedSession
  <2>3. CASE p \notin retried
    BY <1>5, <2>3
  <2> QED BY <2>2, <2>3
<1>9. ASSUME NEW x, AskedFor(a, x, cut)
      PROVE  AskedFor(r, x, cut)
  <2>1. PICK p \in Device : \/ a.session[p].iterationCount = MaxIter
                            \/ /\ x \in Outstanding(a.session[p])
                               /\ a.session[p].syncComplete => p \in cut
    BY <1>9 DEF AskedFor
  <2>2. x \in Outstanding(a.session[p]) => x \in Outstanding(ss[p])
    BY <1>8 DEF Outstanding
  <2>3. \/ ss[p].iterationCount = MaxIter
        \/ x \in Outstanding(ss[p]) /\ (ss[p].syncComplete => p \in cut)
    BY <1>8, <2>1, <2>2
  <2> QED BY <1>7, <2>3 DEF AskedFor
<1> QED BY <1>7, <1>8, <1>9, SameLogs
----------------------------------------------------------------------------
(* The steps of the devices. *)

LEMMA MetaIds ==
  ASSUME TypeOK, NEW d \in Device
  PROVE  NextMeta(d) \in Meta /\ NextMeta(d) \in Ids /\ NextMeta(d) \notin Msg
<1> DEFINE S == {i \in dlog[d] : i[1] = d /\ i[2] = "meta"}
<1>1. S \in SUBSET dlog[d] /\ IsFiniteSet(dlog[d])
  BY DEF TypeOK
<1> HIDE DEF S
<1>2. Cardinality(S) \in Nat
  BY <1>1, FS_Subset, FS_CardinalityType
<1>3. Published(d) \in Nat
  BY <1>2 DEF S, Published
<1>4. NextMeta(d) \in Meta
  BY <1>3, MeshAssumption DEF NextMeta, Meta
<1>5. \A i \in Meta : i[2] = "meta"
  BY DEF Meta
<1>6. \A i \in Msg : i[2] = "inc"
  BY MeshAssumption
<1> QED BY <1>4, <1>5, <1>6 DEF Ids

LEMMA AppTyped ==
  ASSUME TypeOK, NEW d \in Device
  PROVE  /\ App(d) \in AppStates /\ App(d).log = log[d] /\ App(d).pending = pending[d]
         /\ App(d).session = session[d] /\ App(d).asks = {}
BY DEF TypeOK, App, AppStates

\* AppOK looks at the logs and the sessions of an application only.
LEMMA AppCopy ==
  ASSUME NEW a, NEW r, r.log = a.log, r.pending = a.pending, r.session = a.session,
         NEW cut, NEW M, AppOK(a, cut, M)
  PROVE  AppOK(r, cut, M)
BY DEF AppOK, AskedFor

\* A session that goes on needs no excuse.
LEMMA Narrowed ==
  ASSUME NEW a, NEW cut, NEW c, NEW M, AppOK(a, cut, M),
         \A p \in Device : p \in cut /\ a.session[p].syncComplete => p \in c
  PROVE  AppOK(a, c, M)
BY DEF AppOK, AskedFor

\* The application of d knows whatever it knew.
KnowsMore(d, a) ==
  log[d] \subseteq a.log /\ log[d] \union pending[d] \subseteq a.log \union a.pending

\* What the daemon of d takes in its application takes in or misses.
Accounted(d, a, got) ==
  \A m \in got \intersect Msg :
    /\ m \in made /\ prev[m] \subseteq dlog[d] \union got
    /\ m \in a.log \union a.pending \union dropped'[d]

\* What was missed stays missed.
MissedOK ==
  /\ missed' \in Nat /\ dropped' \in [Device -> SUBSET Ids] /\ lost' \in BOOLEAN
  /\ \A d \in Device : dropped[d] \subseteq dropped'[d]

\* What a handler of d does to its own application, daemon and mail, it does to no other's.
LEMMA StepKeeps ==
  ASSUME IInv, NEW d \in Device, NEW a \in AppStates,
         NEW got \in SUBSET Ids, IsFiniteSet(got), NEW old,
         NEW envs \in SUBSET Envelopes,
         \A e \in envs : /\ e.id = NextMeta(d) /\ e.kind /= "incident_create"
                         /\ e.kind = "message_response" => e.body \subseteq made,
         NEW delivered, Step(d, a, got, old, envs, delivered),
         UNCHANGED <<made, prev, mesh, found>>, MissedOK,
         NEW cut \in SUBSET (Device \X Device),
         cutOff' = cut \/ cutOff' = StillEnded(cut),
         \A o \in Device \ {d} : CutIn(cut, o) = CutBy(o),
         KnowsMore(d, a), Accounted(d, a, got), AppOK(a, CutIn(cut, d), {})
  PROVE  IInv'
<1> USE DEF IInv
<1> DEFINE posted == {e.id : e \in envs}
<1>1. /\ log' = [log EXCEPT ![d] = a.log]
      /\ pending' = [pending EXCEPT ![d] = a.pending]
      /\ session' = [session EXCEPT ![d] = a.session]
      /\ dlog' = [dlog EXCEPT ![d] = @ \union got \union posted]
      /\ dpending' = [dpending EXCEPT ![d] = @ \ got]
      /\ dheads' = [dheads EXCEPT ![d] = ((@ \union got) \ old) \union posted]
      /\ net' = (net \ delivered) \union Copies(envs, mesh \ {d})
  BY DEF Step
<1>2. NextMeta(d) \in Ids /\ NextMeta(d) \in Meta /\ NextMeta(d) \notin Msg
  BY MetaIds
<1>3. posted \subseteq {NextMeta(d)}
  OBVIOUS
<1> HIDE DEF posted
<1>4. IsFiniteSet(posted) /\ posted \in SUBSET Ids /\ posted \intersect Msg = {}
  <2>1. IsFiniteSet({NextMeta(d)}) /\ posted \in SUBSET {NextMeta(d)}
    BY <1>3, FS_Singleton
  <2>2. IsFiniteSet(posted)
    BY <2>1, FS_Subset
  <2> QED BY <1>2, <1>3, <2>2
<1>5. a.log \in SUBSET made /\ a.pending \in SUBSET made /\ a.session \in [Device -> Sessions]
  BY DEF AppStates
<1>6. \A c \in net' : c \in net \/ (c.e \in envs /\ c \in [e : Envelopes, to : Device])
  <2>1. mesh \ {d} \subseteq Device
    BY DEF TypeOK
  <2> QED BY <1>1, <2>1 DEF Copies
<1>7. TypeOK'
  <2>1. made' \subseteq Msg /\ IsFiniteSet(made)' /\ (prev \in [Msg -> SUBSET made])'
    BY DEF TypeOK
  <2>2. (log \in [Device -> SUBSET made])' /\ (pending \in [Device -> SUBSET made])'
    BY <1>1, <1>5 DEF TypeOK
  <2>3. session' \in [Device -> [Device -> Sessions]]
    BY <1>1, <1>5 DEF TypeOK
  <2>4. dlog' \in [Device -> SUBSET Ids] /\ dheads' \in [Device -> SUBSET Ids]
    BY <1>1, <1>4 DEF TypeOK
  <2>5. (dpending \in [Device -> SUBSET made])'
    BY <1>1 DEF TypeOK
  <2>6. ASSUME NEW o \in Device PROVE IsFiniteSet(dlog'[o])
    <3>1. CASE o /= d
      BY <1>1, <3>1 DEF TypeOK
    <3>2. CASE o = d
      <4>1. dlog'[o] = (dlog[d] \union got) \union posted
        BY <1>1, <3>2 DEF TypeOK
      <4>2. IsFiniteSet(dlog[d])
        BY DEF TypeOK
      <4>3. IsFiniteSet(dlog[d] \union got)
        BY <4>2, FS_Union
      <4>4. IsFiniteSet((dlog[d] \union got) \union posted)
        BY <1>4, <4>3, FS_Union
      <4> QED BY <4>1, <4>4
    <3> QED BY <3>1, <3>2
  <2>7. mesh' \subseteq Device /\ found' \in [Device -> [Device -> Nat]]
    BY DEF TypeOK
  <2>8. net' \subseteq [e : Envelopes, to : Device]
    BY <1>6 DEF TypeOK
  <2>9. /\ cutOff' \subseteq Device \X Device
        /\ missed' \in Nat /\ dropped' \in [Device -> SUBSET Ids] /\ lost' \in BOOLEAN
    BY DEF StillEnded, MissedOK
  <2> QED BY <2>1, <2>2, <2>3, <2>4, <2>5, <2>6, <2>7, <2>8, <2>9 DEF TypeOK
<1>8. NetOK'
  <2> SUFFICES ASSUME NEW c \in net'
               PROVE  /\ c.e.kind = "incident_create" => c.e.id \in made'
                      /\ c.e.kind /= "incident_create" => c.e.id \in Meta
                      /\ c.e.kind = "message_response" => c.e.body \subseteq made'
    BY DEF NetOK
  <2>1. CASE c \in net
    BY <2>1 DEF NetOK
  <2>2. CASE c.e \in envs
    BY <1>2, <2>2
  <2> QED BY <1>6, <2>1, <2>2
<1>9. HistoryOK'
  BY DEF HistoryOK
<1>10. HandedOK'
  <2> SUFFICES ASSUME NEW o \in Device, NEW m \in dlog'[o] \intersect Msg
               PROVE  /\ m \in made
                      /\ \/ m \in log'[o]
                         \/ prev[m] \subseteq dlog'[o] /\ m \in pending'[o] \union dropped'[o]
    BY DEF HandedOK, HandedOn
  <2>1. CASE o /= d
    <3>1. dlog'[o] = dlog[o] /\ log'[o] = log[o] /\ pending'[o] = pending[o]
      BY <1>1, <2>1 DEF TypeOK
    <3> QED BY <3>1 DEF HandedOK, HandedOn, MissedOK
  <2>2. CASE o = d
    <3>1. /\ dlog'[o] = (dlog[d] \union got) \union posted
          /\ log'[o] = a.log /\ pending'[o] = a.pending
      BY <1>1, <2>2 DEF TypeOK
    <3>2. m \in dlog[d] \/ m \in got
      BY <1>4, <3>1
    <3>3. CASE m \in dlog[d]
      BY <2>2, <3>1, <3>3 DEF HandedOK, HandedOn, KnowsMore, MissedOK
    <3>4. CASE m \in got
      BY <2>2, <3>1, <3>4 DEF Accounted
    <3> QED BY <3>2, <3>3, <3>4
  <2> QED BY <2>1, <2>2
<1>11. ASSUME NEW o \in Device, NEW p \in Device, p \in CutIn(cut, o),
              session'[o][p].syncComplete
       PROVE  p \in CutBy(o)'
  BY <1>11 DEF CutBy, CutIn, StillEnded
<1>12. ASSUME NEW o \in Device PROVE AppOK(App(o), CutBy(o), {})'
  <2>1. CASE o /= d
    <3>1. App(o)' = App(o)
      BY <1>1, <2>1 DEF App, TypeOK
    <3>2. App(o)'.session = session'[o] /\ AppOK(App(o)', CutIn(cut, o), {})
      BY <2>1, <3>1 DEF App
    <3>3. AppOK(App(o)', CutBy(o)', {})
      BY <1>11, <3>2, Narrowed
    <3> QED BY <3>3 DEF AppOK, AskedFor
  <2>2. CASE o = d
    <3>1. /\ App(o)'.log = a.log /\ App(o)'.pending = a.pending
          /\ App(o)'.session = a.session
      BY <1>1, <2>2 DEF App, TypeOK
    <3>2. App(o)'.session = session'[o] /\ AppOK(App(o)', CutIn(cut, o), {})
      BY <2>2, <3>1, AppCopy DEF App
    <3>3. AppOK(App(o)', CutBy(o)', {})
      BY <1>11, <3>2, Narrowed
    <3> QED BY <3>3 DEF AppOK, AskedFor
  <2> QED BY <2>1, <2>2
<1> QED BY <1>7, <1>8, <1>9, <1>10, <1>12 DEF CutBy
\* The requests of a handler are envelopes.
LEMMA RequestsOK ==
  ASSUME TypeOK, NEW d \in Device, NEW asks \in SUBSET SUBSET Ids,
         NEW envs, envs = Requests(d, asks)
  PROVE  /\ envs \in SUBSET Envelopes
         /\ \A e \in envs : /\ e.id = NextMeta(d) /\ e.kind /= "incident_create"
                            /\ e.kind = "message_response" => e.body \subseteq made
<1> DEFINE E(q) == [id |-> NextMeta(d), kind |-> "message_request", from |-> d, body |-> q]
<1>1. envs = {E(q) : q \in asks}
  BY DEF Requests
<1>2. NextMeta(d) \in Ids
  BY MetaIds
<1>3. \A q \in asks : E(q) \in Envelopes
  BY <1>2 DEF Envelopes, Kinds
<1>4. \A q \in asks : E(q).id = NextMeta(d) /\ E(q).kind = "message_request"
  OBVIOUS
<1> HIDE DEF E
<1> QED BY <1>1, <1>3, <1>4

LEMMA CreateKeeps ==
  ASSUME IInv, NEW m \in Msg, Create(m)
  PROVE  IInv'
<1> USE DEF IInv
<1> DEFINE d == Author(m)
           e == [id |-> m, kind |-> "incident_create", from |-> d, body |-> {}]
<1>1. /\ m \notin made /\ made' = made \union {m}
      /\ prev' = [prev EXCEPT ![m] = Tips(log[d])]
      /\ UNCHANGED <<mesh, found, missed, dropped, lost, cutOff>>
      /\ Step(d, [App(d) EXCEPT !.log = @ \union {m}], {m}, Tips(log[d]), {e}, {})
  BY DEF Create
<1>2. d \in Device
  <2>1. m \in Device \X {"inc"} \X Nat
    BY MeshAssumption
  <2> QED BY <2>1 DEF Author
<1>3. e \in Envelopes /\ e.id = m /\ e.kind = "incident_create"
  BY <1>2 DEF Envelopes, Kinds, Ids
<1> HIDE DEF d
<1>4. {f.id : f \in {e}} = {m}
  BY <1>3
<1> HIDE DEF e
<1> DEFINE a == [App(d) EXCEPT !.log = @ \union {m}]
<1>5. a.log = log[d] \union {m} /\ a.pending = pending[d] /\ a.session = session[d]
  BY DEF App
<1>6. /\ log' = [log EXCEPT ![d] = a.log]
      /\ pending' = [pending EXCEPT ![d] = a.pending]
      /\ session' = [session EXCEPT ![d] = a.session]
      /\ dlog' = [dlog EXCEPT ![d] = @ \union {m} \union {m}]
      /\ dpending' = [dpending EXCEPT ![d] = @ \ {m}]
      /\ dheads' = [dheads EXCEPT ![d] = ((@ \union {m}) \ Tips(log[d])) \union {m}]
      /\ net' = (net \ {}) \union Copies({e}, mesh \ {d})
  BY <1>1, <1>4 DEF Step
<1> HIDE DEF a
<1>7. Tips(log[d]) \subseteq log[d] /\ log[d] \subseteq made /\ pending[d] \subseteq made
  BY <1>2 DEF Tips, TypeOK
<1>8. \A n \in made : n \in Msg /\ n /= m /\ prev'[n] = prev[n] /\ prev[n] \subseteq made
  BY <1>1 DEF TypeOK
<1>9. prev'[m] = Tips(log[d])
  BY <1>1 DEF TypeOK
<1>10. \A c \in net' : c \in net \/ (c.e = e /\ c \in [e : Envelopes, to : Device])
  <2>1. mesh \ {d} \subseteq Device
    BY DEF TypeOK
  <2> QED BY <1>3, <1>6, <2>1 DEF Copies
<1>11. TypeOK'
  <2>1. made' \subseteq Msg /\ IsFiniteSet(made)'
    BY <1>1, FS_AddElement DEF TypeOK
  <2>2. (prev \in [Msg -> SUBSET made])'
    BY <1>1, <1>7 DEF TypeOK
  <2>3. (log \in [Device -> SUBSET made])' /\ (pending \in [Device -> SUBSET made])'
    BY <1>1, <1>5, <1>6, <1>7 DEF TypeOK
  <2>4. session' \in [Device -> [Device -> Sessions]]
    BY <1>2, <1>5, <1>6 DEF TypeOK
  <2>5. dlog' \in [Device -> SUBSET Ids] /\ dheads' \in [Device -> SUBSET Ids]
    BY <1>6 DEF TypeOK, Ids
  <2>6. (dpending \in [Device -> SUBSET made])'
    BY <1>1, <1>6 DEF TypeOK
  <2>7. ASSUME NEW o \in Device PROVE IsFiniteSet(dlog'[o])
    <3>1. IsFiniteSet(dlog[o])
      BY DEF TypeOK
    <3>2. IsFiniteSet(dlog[o] \union {m})
      BY <3>1, FS_AddElement
    <3>3. dlog'[o] = dlog[o] \/ dlog'[o] = dlog[o] \union {m}
      BY <1>6 DEF TypeOK
    <3> QED BY <3>1, <3>2, <3>3
  <2>8. net' \subseteq [e : Envelopes, to : Device]
    BY <1>10 DEF TypeOK
  <2>9. /\ mesh' \subseteq Device /\ found' \in [Device -> [Device -> Nat]]
        /\ missed' \in Nat /\ dropped' \in [Device -> SUBSET Ids]
        /\ lost' \in BOOLEAN /\ cutOff' \subseteq Device \X Device
    BY <1>1 DEF TypeOK
  <2> QED BY <2>1, <2>2, <2>3, <2>4, <2>5, <2>6, <2>7, <2>8, <2>9 DEF TypeOK
<1>12. NetOK'
  <2> SUFFICES ASSUME NEW c \in net'
               PROVE  /\ c.e.kind = "incident_create" => c.e.id \in made'
                      /\ c.e.kind /= "incident_create" => c.e.id \in Meta
                      /\ c.e.kind = "message_response" => c.e.body \subseteq made'
    BY DEF NetOK
  <2>1. CASE c \in net
    BY <1>1, <2>1 DEF NetOK
  <2>2. CASE c.e = e
    BY <1>1, <1>3, <2>2
  <2> QED BY <1>10, <2>1, <2>2
<1>13. HistoryOK'
  <2> SUFFICES ASSUME NEW n \in Msg PROVE n \notin prev'[n]
    BY DEF HistoryOK
  <2>1. CASE n = m
    BY <1>1, <1>7, <1>9, <2>1
  <2>2. CASE n /= m
    BY <1>1, <2>2 DEF HistoryOK, TypeOK
  <2> QED BY <2>1, <2>2
<1>14. HandedOK'
  <2> SUFFICES ASSUME NEW o \in Device, NEW n \in dlog'[o] \intersect Msg
               PROVE  /\ n \in made'
                      /\ \/ n \in log'[o]
                         \/ prev'[n] \subseteq dlog'[o] /\ n \in pending'[o] \union dropped'[o]
    BY DEF HandedOK, HandedOn
  <2>1. CASE n = m
    <3>1. n \notin dlog[o]
      BY <1>1, <2>1 DEF HandedOK
    <3> QED BY <1>1, <1>5, <1>6, <2>1, <3>1 DEF TypeOK
  <2>2. CASE n /= m
    <3>1. /\ n \in dlog[o] /\ dlog[o] \subseteq dlog'[o] /\ log[o] \subseteq log'[o]
          /\ pending'[o] = pending[o] /\ dropped'[o] = dropped[o]
      BY <1>1, <1>5, <1>6, <2>2 DEF TypeOK
    <3>2. n \in made /\ (n \in log[o] \/ HandedOn(o, n))
      BY <3>1 DEF HandedOK
    <3>3. prev'[n] = prev[n]
      BY <1>8, <3>2
    <3> QED BY <1>1, <3>1, <3>2, <3>3 DEF HandedOn
  <2> QED BY <2>1, <2>2
<1>15. ASSUME NEW o \in Device PROVE AppOK(App(o), CutBy(o), {})'
  <2> DEFINE L == log[o]
             P == pending[o]
             r == App(o)'
             cut == CutBy(o)
  <2>1. /\ \A n \in L : prev[n] \subseteq L
        /\ \A n \in P : ~(prev[n] \subseteq L)
        /\ \A p \in Device : session[o][p].received \subseteq L \union P
        /\ \A n \in P : \A x \in prev[n] \ (L \union P) : AskedFor(App(o), x, cut)
    BY DEF AppOK, App
  <2>2. cut = CutBy(o)'
    BY <1>1 DEF CutBy, CutIn
  <2>3. /\ r.session = session[o] /\ r.pending = P
        /\ o /= d => r.log = L
        /\ o = d => r.log = L \union {m}
    BY <1>5, <1>6 DEF App, TypeOK
  <2>4. \A x : AskedFor(App(o), x, cut) => AskedFor(r, x, cut)
    BY <2>3 DEF App, AskedFor
  <2>5. L \subseteq made /\ P \subseteq made
    BY DEF TypeOK
  <2> HIDE DEF r, cut, L, P
  <2>6. \A n \in r.log : prev'[n] \subseteq r.log
    <3>1. CASE o = d
      BY <1>7, <1>8, <1>9, <2>1, <2>3, <2>5, <3>1 DEF L
    <3>2. CASE o /= d
      BY <1>8, <2>1, <2>3, <2>5, <3>2
    <3> QED BY <3>1, <3>2
  <2>7. \A n \in r.pending : ~(prev'[n] \subseteq r.log)
    BY <1>8, <2>1, <2>3, <2>5
  <2>8. \A p \in Device : r.session[p].received \subseteq r.log \union r.pending
    BY <2>1, <2>3
  <2>9. \A n \in r.pending : \A x \in prev'[n] \ (r.log \union r.pending) : AskedFor(r, x, cut)
    BY <1>8, <2>1, <2>3, <2>4, <2>5
  <2>10. AppOK(App(o), CutBy(o), {})' <=>
           /\ \A n \in r.log : prev'[n] \subseteq r.log
           /\ \A n \in r.pending : ~(prev'[n] \subseteq r.log)
           /\ \A p \in Device : r.session[p].received \subseteq r.log \union r.pending \union {}
           /\ \A n \in r.pending : \A x \in prev'[n] \ (r.log \union r.pending) :
                x \in {} \/ AskedFor(r, x, cut)
    BY <2>2 DEF AppOK, r, AskedFor
  <2> QED BY <2>6, <2>7, <2>8, <2>9, <2>10
<1> QED BY <1>11, <1>12, <1>13, <1>14, <1>15
\* HandlePeerFound: only the id of a sync envelope enters the log of a daemon.
LEMMA MeetKeeps ==
  ASSUME IInv, NEW d \in Device, NEW p \in Device, PeerFound(d, p)
  PROVE  IInv'
<1> USE DEF IInv
<1> DEFINE e == [id |-> NextMeta(d), kind |-> "head_exchange", from |-> d, body |-> dheads[d]]
<1>1. /\ found' = [found EXCEPT ![d][p] = @ + 1]
      /\ mesh' = mesh \union {d, p}
      /\ dlog' = [dlog EXCEPT ![d] = @ \union {e.id}]
      /\ dheads' = [dheads EXCEPT ![d] = @ \union {e.id}]
      /\ net' = net \union Copies({e}, mesh' \ {d})
      /\ UNCHANGED <<made, prev, log, pending, session, dpending, missed, dropped, lost, cutOff>>
  BY DEF PeerFound, appVars
<1>2. NextMeta(d) \in Ids /\ NextMeta(d) \in Meta /\ NextMeta(d) \notin Msg
  BY MetaIds
<1>3. /\ e \in Envelopes /\ e.id = NextMeta(d) /\ e.kind = "head_exchange"
  BY <1>2 DEF Envelopes, Kinds, TypeOK
<1> HIDE DEF e
<1>4. \A c \in net' : c \in net \/ (c.e = e /\ c \in [e : Envelopes, to : Device])
  <2>1. mesh' \ {d} \subseteq Device
    BY <1>1 DEF TypeOK
  <2> QED BY <1>1, <1>3, <2>1 DEF Copies
<1>5. TypeOK'
  <2>1. dlog' \in [Device -> SUBSET Ids] /\ dheads' \in [Device -> SUBSET Ids]
    BY <1>1, <1>2, <1>3 DEF TypeOK
  <2>2. ASSUME NEW o \in Device PROVE IsFiniteSet(dlog'[o])
    <3>1. IsFiniteSet(dlog[o])
      BY DEF TypeOK
    <3>2. IsFiniteSet(dlog[o] \union {e.id})
      BY <3>1, FS_AddElement
    <3>3. dlog'[o] = dlog[o] \/ dlog'[o] = dlog[o] \union {e.id}
      BY <1>1 DEF TypeOK
    <3> QED BY <3>1, <3>2, <3>3
  <2>3. net' \subseteq [e : Envelopes, to : Device]
    BY <1>4 DEF TypeOK
  <2>4. mesh' \subseteq Device /\ found' \in [Device -> [Device -> Nat]]
    BY <1>1 DEF TypeOK
  <2>5. /\ made' \subseteq Msg /\ IsFiniteSet(made)' /\ (prev \in [Msg -> SUBSET made])'
        /\ (log \in [Device -> SUBSET made])' /\ (pending \in [Device -> SUBSET made])'
        /\ session' \in [Device -> [Device -> Sessions]]
        /\ (dpending \in [Device -> SUBSET made])'
        /\ missed' \in Nat /\ dropped' \in [Device -> SUBSET Ids]
        /\ lost' \in BOOLEAN /\ cutOff' \subseteq Device \X Device
    BY <1>1 DEF TypeOK
  <2> QED BY <2>1, <2>2, <2>3, <2>4, <2>5 DEF TypeOK
<1>6. NetOK'
  <2> SUFFICES ASSUME NEW c \in net'
               PROVE  /\ c.e.kind = "incident_create" => c.e.id \in made'
                      /\ c.e.kind /= "incident_create" => c.e.id \in Meta
                      /\ c.e.kind = "message_response" => c.e.body \subseteq made'
    BY DEF NetOK
  <2>1. CASE c \in net
    BY <1>1, <2>1 DEF NetOK
  <2>2. CASE c.e = e
    BY <1>2, <1>3, <2>2
  <2> QED BY <1>4, <2>1, <2>2
<1>7. HistoryOK'
  BY <1>1 DEF HistoryOK
<1>8. HandedOK'
  <2> SUFFICES ASSUME NEW o \in Device, NEW m \in dlog'[o] \intersect Msg
               PROVE  m \in made /\ (m \in log[o] \/ HandedOn(o, m)')
    BY <1>1 DEF HandedOK
  <2>1. m \in dlog[o] /\ dlog[o] \subseteq dlog'[o]
    BY <1>1, <1>2, <1>3 DEF TypeOK
  <2> QED BY <1>1, <2>1 DEF HandedOK, HandedOn
<1>9. \A o \in Device : AppOK(App(o), CutBy(o), {})'
  BY <1>1 DEF AppOK, App, AskedFor, CutBy, CutIn
<1> QED BY <1>5, <1>6, <1>7, <1>8, <1>9

\* What is dropped, lost or kept waiting by a daemon changes no log.
LEMMA MailKeeps ==
  ASSUME IInv, NEW c \in net, DropDuplicate(c) \/ DaemonWaits(c) \/ Lose(c)
  PROVE  IInv'
<1> USE DEF IInv
<1>1. /\ net' = net \ {c} /\ lost' \in BOOLEAN
      /\ UNCHANGED <<made, prev, log, pending, session, dlog, dheads, mesh, found, missed, dropped,
                     cutOff>>
  BY DEF DropDuplicate, DaemonWaits, Lose, appVars, daemonVars, TypeOK
<1>2. (dpending \in [Device -> SUBSET made])'
  <2>1. CASE DropDuplicate(c) \/ Lose(c)
    BY <2>1 DEF DropDuplicate, Lose, daemonVars, TypeOK
  <2>2. CASE DaemonWaits(c)
    <3>1. c.e.id \in made /\ dpending' = [dpending EXCEPT ![c.to] = @ \union {c.e.id}]
      BY <2>2 DEF DaemonWaits, NetOK
    <3> QED BY <1>1, <3>1 DEF TypeOK
  <2> QED BY <2>1, <2>2
<1>3. TypeOK'
  BY <1>1, <1>2 DEF TypeOK
<1>4. NetOK' /\ HistoryOK' /\ HandedOK'
  BY <1>1 DEF NetOK, HistoryOK, HandedOK, HandedOn
<1>5. \A o \in Device : AppOK(App(o), CutBy(o), {})'
  BY <1>1 DEF AppOK, App, AskedFor, CutBy, CutIn
<1> QED BY <1>3, <1>4, <1>5

\* What is on its way, typed.
LEMMA Letter ==
  ASSUME TypeOK, NEW c \in net
  PROVE  /\ c.to \in Device /\ c.e.from \in Device /\ c.e.id \in Ids
         /\ c.e.body \in SUBSET Ids
<1>1. c \in [e : Envelopes, to : Device]
  BY DEF TypeOK
<1>2. c.to \in Device /\ c.e \in Envelopes
  BY <1>1
<1> QED BY <1>2 DEF Envelopes

\* What is missed is counted, and remembered.
LEMMA MissedKeeps ==
  ASSUME TypeOK, NEW d \in Device, NEW gone \in SUBSET Ids, IsFiniteSet(gone), Missed(d, gone)
  PROVE  MissedOK /\ gone \intersect Msg \subseteq dropped'[d]
<1>1. Cardinality(gone) \in Nat
  BY FS_CardinalityType
<1>2. lost' = (lost \/ gone /= {})
  BY DEF Missed
<1>3. lost' \in BOOLEAN
  BY <1>2
<1> QED BY <1>1, <1>3 DEF TypeOK, Missed, MissedOK

\* The incidents a daemon hands on build on its log and on each other; what is not missed
\* of them is taken in.
LEMMA IncidentKeeps ==
  ASSUME IInv, NEW c \in net, DeliverIncident(c)
  PROVE  IInv'
<1> USE DEF IInv
<1> DEFINE d == c.to
           base == dlog[d] \union {c.e.id}
           U == Unblocked(base, dpending[d])
           got == {c.e.id} \union U
<1>1. PICK order \in CausalOrders(got), gone \in SUBSET (got \ (log[d] \union pending[d])) :
        LET a == IncidentsTaken(App(d), order, gone)
        IN  /\ Missed(d, gone)
            /\ Step(d, a, got, UNION {prev[m] : m \in got}, Requests(d, a.asks), {c})
  BY DEF DeliverIncident, IncidentsTaken
<1>2. /\ c.e.kind = "incident_create" /\ prev[c.e.id] \subseteq dlog[d]
      /\ UNCHANGED <<made, prev, mesh, found>> /\ cutOff' = StillEnded(cutOff)
  BY DEF DeliverIncident
<1>3. d \in Device /\ c.e.id \in made
  BY <1>2, Letter DEF NetOK
<1> HIDE DEF d, base
<1>4. U \subseteq dpending[d] /\ \A n \in U : prev[n] \subseteq base \union U
  BY UnblockedIsAll
<1> HIDE DEF U
<1>5. got \in SUBSET made /\ got \in SUBSET Ids
  BY <1>3, <1>4 DEF TypeOK, Ids
<1>6. IsFiniteSet(got)
  BY <1>5, FS_Subset DEF TypeOK
<1>7. \A m \in got : prev[m] \subseteq dlog[d] \union got
  BY <1>2, <1>4 DEF base
<1>8. App(d) \in AppStates /\ App(d).log = log[d] /\ App(d).pending = pending[d]
  BY <1>3, AppTyped
<1>9. gone \in SUBSET Ids /\ IsFiniteSet(gone) /\ Missed(d, gone)
  BY <1>1, <1>5, <1>6, FS_Subset
<1>10. MissedOK /\ gone \intersect Msg \subseteq dropped'[d]
  BY <1>3, <1>9, MissedKeeps
<1> DEFINE a == IncidentsTaken(App(d), order, gone)
<1> HIDE DEF got
<1>11. /\ a \in AppStates /\ AppOK(a, CutIn(cutOff, d), {}) /\ log[d] \subseteq a.log
       /\ log[d] \union pending[d] \subseteq a.log \union a.pending
       /\ got \ gone \subseteq a.log \union a.pending
  BY <1>3, <1>5, <1>8, IncidentsTakenKeep DEF CutBy
<1>12. Step(d, a, got, UNION {prev[m] : m \in got}, Requests(d, a.asks), {c})
  BY <1>1
<1> HIDE DEF a
<1>13. a.asks \in SUBSET SUBSET Ids
  BY <1>11 DEF AppStates
<1> DEFINE envs == Requests(d, a.asks)
<1>14. /\ envs \in SUBSET Envelopes
       /\ \A e \in envs : /\ e.id = NextMeta(d) /\ e.kind /= "incident_create"
                          /\ e.kind = "message_response" => e.body \subseteq made
  BY <1>3, <1>13, RequestsOK
<1>15. \A o \in Device : CutIn(cutOff, o) = CutBy(o)
  BY DEF CutBy
<1>16. cutOff \in SUBSET (Device \X Device)
  BY DEF TypeOK
<1> HIDE DEF envs
<1>17. Step(d, a, got, UNION {prev[m] : m \in got}, envs, {c})
  BY <1>12 DEF envs
<1>18. KnowsMore(d, a) /\ Accounted(d, a, got)
  BY <1>5, <1>7, <1>10, <1>11 DEF KnowsMore, Accounted
<1> QED BY <1>2, <1>3, <1>5, <1>6, <1>10, <1>11, <1>14, <1>15, <1>16, <1>17, <1>18, StepKeeps

\* The id of a sync envelope is no incident.
LEMMA SyncLetter ==
  ASSUME TypeOK, NetOK, NEW c \in net, c.e.kind /= "incident_create"
  PROVE  {c.e.id} \in SUBSET Ids /\ IsFiniteSet({c.e.id}) /\ {c.e.id} \intersect Msg = {}
<1>1. c.e.id \in Meta
  BY DEF NetOK
<1>2. \A i \in Meta : i[2] = "meta"
  BY DEF Meta
<1>3. \A i \in Msg : i[2] = "inc"
  BY MeshAssumption
<1> QED BY <1>1, <1>2, <1>3, FS_Singleton DEF Ids

\* DeliverHeads, with the cut-off it may add to the history.
LEMMA HeadExchangeKeeps ==
  ASSUME IInv, NEW c \in net, DeliverHeads(c)
  PROVE  IInv'
<1> USE DEF IInv
<1> DEFINE d == c.to
           p == c.e.from
           heads == c.e.body
           a == HandleHeads(App(d), p, heads)
           got == {c.e.id}
           envs == Requests(d, a.asks)
           now == cutOff \union
             {x \in {<<d, p>>} : /\ heads \subseteq log[d] \union pending[d]
                                 /\ Outstanding(session[d][p]) /= {}}
           cut == CutIn(now, d)
<1>1. Step(d, a, got, {}, envs, {c})
  BY DEF DeliverHeads
<1>2. /\ c.e.kind = "head_exchange"
      /\ cutOff' = StillEnded(now)
      /\ UNCHANGED <<made, prev, mesh, found, missed, dropped, lost>>
  BY DEF DeliverHeads
<1>3. d \in Device /\ p \in Device /\ heads \in SUBSET Ids
  BY Letter
<1>4. got \in SUBSET Ids /\ IsFiniteSet(got) /\ got \intersect Msg = {}
  BY <1>2, SyncLetter
<1>5. /\ App(d) \in AppStates /\ App(d).log = log[d] /\ App(d).pending = pending[d]
      /\ App(d).session = session[d]
  BY <1>3, AppTyped
<1> HIDE DEF d, p, heads, got, a
<1>6. CutBy(d) \subseteq cut /\ \A o \in Device \ {d} : CutIn(now, o) = CutBy(o)
  BY DEF CutBy, CutIn
<1>7. heads \subseteq App(d).log \union App(d).pending /\ Outstanding(App(d).session[p]) /= {}
      => p \in cut
  BY <1>3, <1>5 DEF CutIn
<1>8. AppOK(App(d), CutBy(d), {})
  BY <1>3
<1>15. now \in SUBSET (Device \X Device)
  BY <1>3 DEF TypeOK
<1> HIDE DEF cut, now
<1>9. a = HandleHeads(App(d), p, heads)
  BY DEF a
<1>10. a \in AppStates /\ a.log = App(d).log /\ a.pending = App(d).pending /\ AppOK(a, cut, {})
  <2> DEFINE b == App(d)
             old == CutBy(d)
  <2>1. /\ b \in AppStates /\ old \subseteq cut /\ AppOK(b, old, {})
        /\ heads \subseteq b.log \union b.pending /\ Outstanding(b.session[p]) /= {} => p \in cut
        /\ a = HandleHeads(b, p, heads)
    BY <1>5, <1>6, <1>7, <1>8, <1>9
  <2> HIDE DEF b, old
  <2>2. a \in AppStates /\ a.log = b.log /\ a.pending = b.pending /\ AppOK(a, cut, {})
    BY <1>3, <2>1, HeadsKeep
  <2> QED BY <2>2 DEF b
<1>11. a.asks \in SUBSET SUBSET Ids
  BY <1>10 DEF AppStates
<1>12. /\ envs \in SUBSET Envelopes
       /\ \A e \in envs : /\ e.id = NextMeta(d) /\ e.kind /= "incident_create"
                          /\ e.kind = "message_response" => e.body \subseteq made
  BY <1>3, <1>11, RequestsOK
<1>13. MissedOK
  BY <1>2 DEF TypeOK, MissedOK
<1> HIDE DEF envs
<1>14. AppOK(a, CutIn(now, d), {}) /\ KnowsMore(d, a) /\ Accounted(d, a, got)
  BY <1>4, <1>5, <1>10 DEF cut, KnowsMore, Accounted
<1> QED BY <1>1, <1>2, <1>3, <1>4, <1>6, <1>10, <1>12, <1>13, <1>14, <1>15, StepKeeps

LEMMA RequestKeeps ==
  ASSUME IInv, NEW c \in net, DeliverRequest(c)
  PROVE  IInv'
<1> USE DEF IInv
<1> DEFINE d == c.to
           p == c.e.from
           toSend == ToSend(App(d), p, c.e.body)
           a == WithSent(App(d), p, toSend)
           got == {c.e.id}
           response == [id |-> NextMeta(d), kind |-> "message_response", from |-> d,
                        body |-> toSend]
           envs == {r \in {response} : toSend /= {}}
<1>1. Step(d, a, got, {}, envs, {c})
  BY DEF DeliverRequest, WithSent
<1>2. /\ c.e.kind = "message_request"
      /\ UNCHANGED <<made, prev, mesh, found, missed, dropped, lost, cutOff>>
  BY DEF DeliverRequest
<1>3. d \in Device /\ p \in Device
  BY Letter
<1>4. got \in SUBSET Ids /\ IsFiniteSet(got) /\ got \intersect Msg = {}
  BY <1>2, SyncLetter
<1>5. /\ App(d) \in AppStates /\ App(d).log = log[d] /\ App(d).pending = pending[d]
  BY <1>3, AppTyped
<1>6. toSend \subseteq made /\ toSend \in SUBSET Ids
  BY <1>3, <1>5 DEF ToSend, TypeOK, Ids
<1> HIDE DEF d, p, got, a, toSend
<1>7. AppOK(App(d), CutBy(d), {})
  BY <1>3
<1>8. a = WithSent(App(d), p, toSend)
  BY DEF a
<1>9. /\ a \in AppStates /\ a.log = App(d).log /\ a.pending = App(d).pending
      /\ AppOK(a, CutBy(d), {})
  BY <1>3, <1>5, <1>6, <1>7, <1>8, SentKeeps
<1>10. NextMeta(d) \in Ids
  BY <1>3, MetaIds
<1>11. response \in Envelopes
  BY <1>3, <1>6, <1>10 DEF Envelopes, Kinds
<1>12. /\ response.id = NextMeta(d) /\ response.kind = "message_response"
       /\ response.body = toSend
  OBVIOUS
<1> HIDE DEF response
<1>13. /\ envs \in SUBSET Envelopes
       /\ \A e \in envs : /\ e.id = NextMeta(d) /\ e.kind /= "incident_create"
                          /\ e.kind = "message_response" => e.body \subseteq made
  BY <1>6, <1>11, <1>12
<1> HIDE DEF envs
<1>14. MissedOK /\ cutOff \in SUBSET (Device \X Device)
  BY <1>2 DEF TypeOK, MissedOK
<1>15. \A o \in Device : CutIn(cutOff, o) = CutBy(o)
  BY DEF CutBy
<1>16. AppOK(a, CutIn(cutOff, d), {}) /\ KnowsMore(d, a) /\ Accounted(d, a, got)
  BY <1>3, <1>4, <1>5, <1>9, <1>15 DEF KnowsMore, Accounted
<1> QED BY <1>1, <1>2, <1>3, <1>4, <1>9, <1>13, <1>14, <1>15, <1>16, StepKeeps

LEMMA ResponseDeliveryKeeps ==
  ASSUME IInv, NEW c \in net, DeliverResponse(c)
  PROVE  IInv'
<1> USE DEF IInv
<1> DEFINE d == c.to
           p == c.e.from
           got == {c.e.id}
<1>1. PICK messages \in SetToSeqs(c.e.body) :
        LET a == HandleResponse(App(d), p, messages)
        IN  Step(d, a, got, {}, Requests(d, a.asks), {c})
  BY DEF DeliverResponse
<1> DEFINE a == HandleResponse(App(d), p, messages)
           envs == Requests(d, a.asks)
           n == Len(messages)
<1>2. Step(d, a, got, {}, envs, {c})
  BY <1>1
<1>3. /\ c.e.kind = "message_response"
      /\ UNCHANGED <<made, prev, mesh, found, missed, dropped, lost>> /\ cutOff' = StillEnded(cutOff)
  BY DEF DeliverResponse
<1>4. d \in Device /\ p \in Device
  BY Letter
<1>5. got \in SUBSET Ids /\ IsFiniteSet(got) /\ got \intersect Msg = {}
  BY <1>3, SyncLetter
<1>6. App(d) \in AppStates /\ App(d).log = log[d] /\ App(d).pending = pending[d]
  BY <1>4, AppTyped
<1>7. c.e.body \in SUBSET made /\ IsFiniteSet(c.e.body)
  <2>1. c.e.body \in SUBSET made /\ IsFiniteSet(made)
    BY <1>3 DEF NetOK, TypeOK
  <2> QED BY <2>1, FS_Subset
<1>8. n \in Nat /\ messages \in [1 .. n -> c.e.body]
  BY <1>7, OrderTakesAll
<1>9. messages \in [1 .. n -> made]
  BY <1>7, <1>8
<1> HIDE DEF d, p, got, a
<1>10. a = HandleResponse(App(d), p, messages)
  BY DEF a
<1> DEFINE k == n
<1>11. k \in Nat /\ messages \in [1 .. k -> made] /\ Len(messages) = k
  BY <1>8, <1>9
<1> HIDE DEF k
<1>12. /\ a \in AppStates /\ App(d).log \subseteq a.log
       /\ App(d).log \union App(d).pending \subseteq a.log \union a.pending
       /\ \A cut : AppOK(App(d), cut, {}) => AppOK(a, cut, {})
  BY <1>4, <1>6, <1>10, <1>11, ResponseKeeps
<1>13. a.asks \in SUBSET SUBSET Ids
  BY <1>12 DEF AppStates
<1>14. /\ envs \in SUBSET Envelopes
       /\ \A e \in envs : /\ e.id = NextMeta(d) /\ e.kind /= "incident_create"
                          /\ e.kind = "message_response" => e.body \subseteq made
  BY <1>4, <1>13, RequestsOK
<1> HIDE DEF envs
<1>15. MissedOK /\ cutOff \in SUBSET (Device \X Device)
  BY <1>3 DEF TypeOK, MissedOK
<1>16. \A o \in Device : CutIn(cutOff, o) = CutBy(o)
  BY DEF CutBy
<1>17. AppOK(a, CutIn(cutOff, d), {}) /\ KnowsMore(d, a) /\ Accounted(d, a, got)
  BY <1>4, <1>5, <1>6, <1>12, <1>16 DEF KnowsMore, Accounted
<1> QED BY <1>2, <1>3, <1>4, <1>5, <1>12, <1>14, <1>15, <1>16, <1>17, StepKeeps

LEMMA MissKeeps ==
  ASSUME IInv, NEW c \in net, Miss(c)
  PROVE  IInv'
<1> USE DEF IInv
<1> DEFINE d == c.to
           a == App(d)
           got == {c.e.id}
<1>1. /\ c.e.kind /= "incident_create" /\ Missed(d, got) /\ Step(d, a, got, {}, {}, {c})
      /\ UNCHANGED <<made, prev, mesh, found, cutOff>>
  BY DEF Miss
<1>2. d \in Device
  BY Letter
<1>3. got \in SUBSET Ids /\ IsFiniteSet(got) /\ got \intersect Msg = {}
  BY <1>1, SyncLetter
<1>4. MissedOK
  BY <1>1, <1>2, <1>3, MissedKeeps
<1>5. a \in AppStates /\ a.log = log[d] /\ a.pending = pending[d]
  BY <1>2, AppTyped
<1>6. cutOff \in SUBSET (Device \X Device) /\ \A o \in Device : CutIn(cutOff, o) = CutBy(o)
  BY DEF CutBy, TypeOK
<1>7. AppOK(a, CutIn(cutOff, d), {}) /\ KnowsMore(d, a) /\ Accounted(d, a, got)
  BY <1>2, <1>3, <1>5, <1>6 DEF KnowsMore, Accounted
<1>8. {} \in SUBSET Envelopes
  OBVIOUS
<1> HIDE DEF d, a, got
<1> QED BY <1>1, <1>2, <1>3, <1>4, <1>5, <1>6, <1>7, <1>8, StepKeeps

LEMMA TickKeeps ==
  ASSUME IInv, NEW d \in Device, Tick(d)
  PROVE  IInv'
<1> USE DEF IInv
<1>1. PICK due \in SUBSET (Device \ {d}) :
        LET a == CheckRetries(App(d), due)
        IN  /\ Step(d, a, {}, {}, Requests(d, a.asks), {})
            /\ UNCHANGED <<made, prev, mesh, found, missed, dropped, lost, cutOff>>
  BY DEF Tick
<1> DEFINE a == CheckRetries(App(d), due)
           envs == Requests(d, a.asks)
<1>2. Step(d, a, {}, {}, envs, {}) /\ UNCHANGED <<made, prev, mesh, found, missed, dropped, lost, cutOff>>
  BY <1>1
<1>3. App(d) \in AppStates /\ App(d).log = log[d] /\ App(d).pending = pending[d]
  BY AppTyped
<1>4. a = CheckRetries(App(d), due) /\ due \in SUBSET Device
  OBVIOUS
<1> HIDE DEF a
<1>5. /\ a \in AppStates /\ a.log = App(d).log /\ a.pending = App(d).pending
      /\ AppOK(a, CutBy(d), {})
  BY <1>3, <1>4, RetriesKeep
<1>6. a.asks \in SUBSET SUBSET Ids
  BY <1>5 DEF AppStates
<1>7. /\ envs \in SUBSET Envelopes
      /\ \A e \in envs : /\ e.id = NextMeta(d) /\ e.kind /= "incident_create"
                         /\ e.kind = "message_response" => e.body \subseteq made
  BY <1>6, RequestsOK
<1> HIDE DEF envs
<1>8. MissedOK /\ cutOff \in SUBSET (Device \X Device)
  BY <1>2 DEF TypeOK, MissedOK
<1>9. \A o \in Device : CutIn(cutOff, o) = CutBy(o)
  BY DEF CutBy
<1>10. AppOK(a, CutIn(cutOff, d), {}) /\ KnowsMore(d, a) /\ Accounted(d, a, {})
  BY <1>3, <1>5, <1>9 DEF KnowsMore, Accounted
<1>11. {} \in SUBSET Ids /\ IsFiniteSet({})
  BY FS_EmptySet
<1> QED BY <1>2, <1>5, <1>7, <1>8, <1>9, <1>10, <1>11, StepKeeps

----------------------------------------------------------------------------

LEMMA InitInv == Init => IInv
<1> SUFFICES ASSUME Init PROVE IInv
  OBVIOUS
<1>1. NewSession \in Sessions /\ NewSession.received = {}
  BY MeshAssumption DEF NewSession, Sessions
<1>2. session = [d \in Device |-> [p \in Device |-> NewSession]]
  BY DEF Init
<1> HIDE DEF NewSession
<1>3. session \in [Device -> [Device -> Sessions]]
  BY <1>1, <1>2
<1>4. TypeOK
  BY <1>3, FS_EmptySet DEF Init, TypeOK
<1>5. NetOK /\ HistoryOK /\ HandedOK
  BY DEF Init, NetOK, HistoryOK, HandedOK
<1>6. \A d \in Device : AppOK(App(d), CutBy(d), {})
  BY <1>1, <1>2 DEF Init, AppOK, App
<1> QED BY <1>4, <1>5, <1>6 DEF IInv

LEMMA NextInv == IInv /\ [Next \/ NextLossy]_vars => IInv'
<1> SUFFICES ASSUME IInv, [Next \/ NextLossy]_vars PROVE IInv'
  OBVIOUS
<1>1. CASE Use
  BY <1>1, CreateKeeps DEF Use
<1>2. CASE Meet
  BY <1>2, MeetKeeps DEF Meet
<1>3. CASE Deliver
  BY <1>3, MailKeeps, IncidentKeeps, HeadExchangeKeeps, RequestKeeps, ResponseDeliveryKeeps
  DEF Deliver
<1>4. CASE Retry
  BY <1>4, TickKeeps DEF Retry
<1>5. CASE Drop
  BY <1>5, MissKeeps DEF Drop
<1>6. CASE Loss
  BY <1>6, MailKeeps DEF Loss
<1>7. CASE UNCHANGED vars
  <2>1. UNCHANGED <<made, prev, log, pending, session, dlog, dpending, dheads, mesh, found,
                    net, missed, dropped, lost, cutOff>>
    BY <1>7 DEF vars, appVars, daemonVars
  <2>2. TypeOK' /\ NetOK' /\ HistoryOK' /\ HandedOK'
    BY <2>1 DEF IInv, TypeOK, NetOK, HistoryOK, HandedOK, HandedOn
  <2>3. \A d \in Device : AppOK(App(d), CutBy(d), {})'
    BY <2>1 DEF IInv, AppOK, App, AskedFor, CutBy, CutIn
  <2> QED BY <2>2, <2>3 DEF IInv
<1> QED BY <1>1, <1>2, <1>3, <1>4, <1>5, <1>6, <1>7 DEF Next, NextLossy, RetryLate

\* The inductive invariant holds in every reachable state, whatever is lost, doubled or
\* delayed, be it that a network need not deliver or that it loses.
THEOREM Invariance == Spec \/ LossySpec => []IInv
<1>1. Spec => []IInv
  BY InitInv, NextInv, PTL DEF Spec
<1>2. LossySpec => []IInv
  BY InitInv, NextInv, PTL DEF LossySpec
<1> QED BY <1>1, <1>2

\* The variables keep their types.
THEOREM TypeCorrect == Spec \/ LossySpec => []TypeOK
<1>1. IInv => TypeOK
  BY DEF IInv
<1> QED BY <1>1, Invariance, PTL

\* What comes by way of the mesh and what comes in answers make up one log that is
\* causally closed, on every device.
THEOREM LogsAreClosed == Spec \/ LossySpec => []CausallyClosed
<1>1. IInv => CausallyClosed
  BY DEF IInv, AppOK, App, CausallyClosed
<1> QED BY <1>1, Invariance, PTL

\* What is missed between a daemon and its application holds back nothing but itself and
\* what builds on it.
THEOREM MissedHoldsBackItsOwn == Spec \/ LossySpec => []OnlyMissedHoldBack
<1>1. IInv => OnlyMissedHoldBack
  <2> SUFFICES ASSUME IInv, NEW d \in Device, NEW m \in (dlog[d] \intersect Msg) \ log[d],
                      m \notin dropped[d]
               PROVE  \E x \in prev[m] : x \in dlog[d] \ log[d]
    BY DEF OnlyMissedHoldBack
  <2>1. m \in pending[d] /\ prev[m] \subseteq dlog[d]
    BY DEF IInv, HandedOK, HandedOn
  <2>2. ~(prev[m] \subseteq log[d])
    BY <2>1 DEF IInv, AppOK, App
  <2> QED BY <2>1, <2>2
<1> QED BY <1>1, Invariance, PTL

\* Whatever an application waits for it has asked for, and goes on asking but for the
\* limit and the heads that end a session.
THEOREM WaitingMeansAsking == Spec \/ LossySpec => []WaitedForIsAskedFor
<1>1. IInv => WaitedForIsAskedFor
  BY DEF IInv, AppOK, App, AskedFor, CutBy, CutIn, WaitedForIsAskedFor
<1> QED BY <1>1, Invariance, PTL
=============================================================================
