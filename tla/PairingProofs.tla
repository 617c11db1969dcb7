---------------------------- MODULE PairingProofs ----------------------------
(***************************************************************************)
(* Theorems about the rate limiter of Pairing.                             *)
(***************************************************************************)
EXTENDS Pairing, FiniteSetTheorems, TLAPS

Entries == [id : Nat, at : Nat]
Labels == {"idle", "pruned", "stored", "passed", "counted"}

\* Types of the variables.
TypeOK ==
  /\ clock \in Nat /\ store \subseteq Entries
  /\ pc \in [Thread -> Labels] /\ local \in [Thread -> SUBSET Entries]
  /\ tokens \subseteq [id : Nat, issued : Nat, expires : Nat, used : BOOLEAN]
  /\ refused \subseteq 0 .. clock /\ overlapped \in BOOLEAN

\* A request being served has an entry of its own, made at this very time.
ServingOK ==
  /\ \A t \in Thread : pc[t] = "counted" => \E e \in local[t] : local[t] = {e} /\ e.at = clock
  /\ \A t \in Thread : pc[t] = "counted" => local[t] \intersect Issued = {}
  /\ \A t, u \in Thread : pc[t] = "counted" /\ pc[u] = "counted" /\ t /= u
                            => local[t] \intersect local[u] = {}

\* The accepted requests are numbered, and no two tokens belong to one of them.
AcceptedOK ==
  /\ IsFiniteSet(Accepted)
  /\ \A e \in Accepted : e.at <= clock /\ e.id \in 1 .. Cardinality(Accepted)
  /\ \A e, f \in Accepted : e.id = f.id => e = f
  /\ \A k, l \in tokens : k.id = l.id => k = l

\* Nothing is in the list that was not accepted, and when its length decides nothing
\* that is old.
ListOK ==
  /\ store \subseteq Accepted
  /\ \A t \in Thread : pc[t] = "pruned" => local[t] \subseteq InWindow(Accepted, clock)
  /\ \A t \in Thread : pc[t] = "stored" => store \subseteq InWindow(Accepted, clock)

\* As long as no two checks overlapped the list forgets nothing.
AloneOK ==
  /\ \A t, u \in Checking : t = u
  /\ InWindow(Accepted, clock) \subseteq store
  /\ \A t \in Thread : pc[t] = "pruned" => InWindow(Accepted, clock) \subseteq local[t]
  /\ \A t \in Thread : pc[t] = "passed" => Cardinality(store) < MaxRequests
  /\ \A n \in 0 .. clock : Cardinality(InWindow(Accepted, n)) <= MaxRequests

IInv ==
  /\ TypeOK /\ ServingOK /\ AcceptedOK /\ ListOK /\ NoFalseRefusal
  /\ ~overlapped => AloneOK

----------------------------------------------------------------------------

LEMMA Windows ==
  ASSUME NEW R, NEW S, R \subseteq S, NEW n
  PROVE  InWindow(R, n) \subseteq InWindow(S, n) /\ InWindow(R, n) \subseteq R
  BY DEF InWindow

LEMMA FiniteWindows ==
  ASSUME NEW S, IsFiniteSet(S), NEW R, R \subseteq S, NEW n
  PROVE  /\ IsFiniteSet(InWindow(S, n)) /\ Cardinality(InWindow(S, n)) \in Nat
         /\ IsFiniteSet(InWindow(R, n)) /\ Cardinality(InWindow(R, n)) \in Nat
         /\ Cardinality(InWindow(R, n)) <= Cardinality(InWindow(S, n))
<1>1. InWindow(S, n) \subseteq S /\ InWindow(R, n) \subseteq InWindow(S, n)
  BY Windows
<1> QED BY <1>1, FS_Subset, FS_CardinalityType

\* The requests of a thread that is not serving one are nobody's.
LEMMA ServingStays ==
  ASSUME TypeOK, NEW t \in Thread, UNCHANGED tokens, pc[t] /= "counted", pc'[t] /= "counted",
         \A u \in Thread \ {t} : pc'[u] = pc[u] /\ local'[u] = local[u]
  PROVE  Serving' = Serving /\ Issued' = Issued /\ Accepted' = Accepted
<1>1. Serving' = Serving
  BY DEF Serving
<1> QED BY <1>1 DEF Issued, Accepted

LEMMA ServingKept ==
  ASSUME TypeOK, ServingOK, NEW t \in Thread, UNCHANGED <<tokens, clock>>, pc[t] /= "counted",
         pc'[t] /= "counted", \A u \in Thread \ {t} : pc'[u] = pc[u] /\ local'[u] = local[u]
  PROVE  ServingOK'
<1>1. Issued' = Issued
  BY ServingStays
<1>2. \A u \in Thread : pc'[u] = "counted" => u /= t /\ pc[u] = "counted" /\ local'[u] = local[u]
  OBVIOUS
<1> QED BY <1>1, <1>2 DEF ServingOK

LEMMA InitInv == Init => IInv
<1> SUFFICES ASSUME Init PROVE IInv
  OBVIOUS
<1>1. Accepted = {} /\ Issued = {}
  BY DEF Init, Accepted, Issued, Serving
<1>2. TypeOK
  BY DEF Init, TypeOK, Labels
<1>3. ServingOK /\ ListOK /\ NoFalseRefusal
  BY <1>1 DEF Init, ServingOK, ListOK, NoFalseRefusal
<1>4. AcceptedOK
  BY <1>1, FS_EmptySet DEF Init, AcceptedOK
<1>5. AloneOK
  <2>1. \A n \in 0 .. clock : InWindow(Accepted, n) = {}
    BY <1>1 DEF InWindow
  <2>2. \A n \in 0 .. clock : Cardinality(InWindow(Accepted, n)) <= MaxRequests
    BY <2>1, FS_EmptySet, PairingAssumption
  <2> QED BY <1>1, <2>2 DEF Init, AloneOK, Checking, Busy, InWindow
<1> QED BY <1>2, <1>3, <1>4, <1>5 DEF IInv

LEMMA PruneInv ==
  ASSUME IInv, NEW t \in Thread, Prune(t)
  PROVE  IInv'
<1> USE DEF IInv
<1>0. Recent(store) \in SUBSET Entries /\ Recent(store) \subseteq store
  BY DEF TypeOK, Recent
<1>1. TypeOK'
  BY <1>0 DEF Prune, TypeOK, Labels
<1>2. /\ pc[t] = "idle" /\ pc'[t] = "pruned" /\ local'[t] = Recent(store)
      /\ \A u \in Thread \ {t} : pc'[u] = pc[u] /\ local'[u] = local[u]
      /\ UNCHANGED <<clock, store, tokens, refused>>
  BY DEF Prune, TypeOK
<1>3. Accepted' = Accepted
  BY <1>2, ServingStays
<1>4. ServingOK'
  BY <1>2, ServingKept
<1>5. AcceptedOK' /\ NoFalseRefusal'
  BY <1>2, <1>3 DEF AcceptedOK, NoFalseRefusal, InWindow
<1>6. Recent(store) \subseteq InWindow(Accepted, clock)
  BY DEF Recent, InWindow, ListOK, AcceptedOK
<1>7. ListOK'
  BY <1>2, <1>3, <1>6 DEF ListOK, InWindow
<1>8. ASSUME ~overlapped' PROVE AloneOK'
  <2>1. ~overlapped /\ Checking = {}
    BY <1>8 DEF Prune
  <2>2. Checking' = {t}
    BY <1>2, <2>1 DEF Checking, Busy
  <2>3. InWindow(Accepted, clock) \subseteq Recent(store)
    BY <2>1 DEF AloneOK, InWindow, Recent
  <2>4. \A u \in Thread \ {t} : pc'[u] /= "pruned" /\ pc'[u] /= "passed"
    BY <2>2 DEF Checking, Busy
  <2> QED BY <1>2, <1>3, <2>1, <2>2, <2>3, <2>4 DEF AloneOK, InWindow
<1> QED BY <1>1, <1>4, <1>5, <1>7, <1>8

\* Nobody else checks while a check that overlapped no other is under way.
LEMMA CheckAlone ==
  ASSUME TypeOK, AloneOK, NEW t \in Thread, pc[t] \in {"pruned", "stored", "passed"}
  PROVE  \A u \in Thread \ {t} : pc[u] \in {"idle", "counted"}
  BY DEF AloneOK, Checking, Busy, TypeOK, Labels

LEMMA StoreInv ==
  ASSUME IInv, NEW t \in Thread, Store(t)
  PROVE  IInv'
<1> USE DEF IInv
<1>1. TypeOK'
  BY DEF Store, TypeOK, Labels
<1>2. /\ pc[t] = "pruned" /\ pc'[t] = "stored" /\ local'[t] = {} /\ store' = local[t]
      /\ \A u \in Thread \ {t} : pc'[u] = pc[u] /\ local'[u] = local[u]
      /\ UNCHANGED <<clock, tokens, refused, overlapped>>
  BY DEF Store, TypeOK
<1>3. Accepted' = Accepted
  BY <1>2, ServingStays
<1>4. ServingOK'
  BY <1>2, ServingKept
<1>5. AcceptedOK' /\ NoFalseRefusal'
  BY <1>2, <1>3 DEF AcceptedOK, NoFalseRefusal, InWindow
<1>6. local[t] \subseteq InWindow(Accepted, clock) /\ InWindow(Accepted, clock) \subseteq Accepted
  BY <1>2, Windows DEF ListOK
<1>7. ListOK'
  BY <1>2, <1>3, <1>6 DEF ListOK, InWindow
<1>8. ASSUME ~overlapped' PROVE AloneOK'
  <2>1. AloneOK /\ \A u \in Thread \ {t} : pc'[u] \in {"idle", "counted"}
    BY <1>2, <1>8, CheckAlone
  <2>2. \A u, v \in Checking' : u = v
    BY <2>1 DEF Checking, Busy
  <2>3. \A u \in Thread : pc'[u] \notin {"pruned", "passed"}
    BY <1>2, <2>1
  <2> QED BY <1>2, <1>3, <2>1, <2>2, <2>3 DEF AloneOK, InWindow
<1> QED BY <1>1, <1>4, <1>5, <1>7, <1>8

LEMMA DecideInv ==
  ASSUME IInv, NEW t \in Thread, Decide(t)
  PROVE  IInv'
<1> USE DEF IInv
<1>1. /\ pc[t] = "stored" /\ pc'[t] = IF Full THEN "idle" ELSE "passed"
      /\ refused' = IF Full THEN refused \union {clock} ELSE refused
      /\ \A u \in Thread \ {t} : pc'[u] = pc[u]
      /\ pc' \in [Thread -> Labels]
      /\ UNCHANGED <<clock, store, local, tokens, overlapped>>
  BY DEF Decide, TypeOK, Labels
<1>2. TypeOK'
  BY <1>1 DEF TypeOK
<1>3. Accepted' = Accepted
  BY <1>1, ServingStays
<1>4. ServingOK'
  BY <1>1, ServingKept
<1>5. AcceptedOK'
  BY <1>1, <1>3 DEF AcceptedOK
<1>6. ListOK'
  BY <1>1, <1>3 DEF ListOK, InWindow
<1>7. IsFiniteSet(store) /\ Cardinality(store) \in Nat
  BY FS_Subset, FS_CardinalityType DEF ListOK, AcceptedOK
<1>8. NoFalseRefusal'
  <2>1. ASSUME Full PROVE Cardinality(InWindow(Accepted, clock)) >= MaxRequests
    <3>1. /\ store \subseteq InWindow(Accepted, clock) /\ IsFiniteSet(InWindow(Accepted, clock))
          /\ Cardinality(InWindow(Accepted, clock)) \in Nat
      BY <1>1, FiniteWindows DEF ListOK, AcceptedOK
    <3>2. Cardinality(store) <= Cardinality(InWindow(Accepted, clock))
      BY <3>1, FS_Subset
    <3> QED BY <1>7, <2>1, <3>1, <3>2, PairingAssumption DEF Full
  <2> QED BY <1>1, <1>3, <2>1 DEF NoFalseRefusal, InWindow
<1>9. ASSUME ~overlapped' PROVE AloneOK'
  <2>1. AloneOK /\ \A u \in Thread \ {t} : pc'[u] \in {"idle", "counted"}
    BY <1>1, <1>9, CheckAlone
  <2>2. \A u, v \in Checking' : u = v
    BY <2>1 DEF Checking, Busy
  <2>3. pc'[t] = "passed" => Cardinality(store) < MaxRequests
    BY <1>1, <1>7, PairingAssumption DEF Full
  <2> QED BY <1>1, <1>3, <2>1, <2>2, <2>3 DEF AloneOK, InWindow
<1> QED BY <1>2, <1>4, <1>5, <1>6, <1>8, <1>9

LEMMA CountInv ==
  ASSUME IInv, NEW t \in Thread, Count(t)
  PROVE  IInv'
<1> USE DEF IInv
<1> DEFINE N == Cardinality(Accepted)
           e == [id |-> N + 1, at |-> clock]
<1>1. N \in Nat /\ e \in Entries /\ e.id = N + 1 /\ e.at = clock
  BY FS_CardinalityType DEF AcceptedOK, TypeOK, Entries
<1>2. /\ pc[t] = "passed" /\ pc'[t] = "counted" /\ local'[t] = {e} /\ store' = store \union {e}
      /\ \A u \in Thread \ {t} : pc'[u] = pc[u] /\ local'[u] = local[u]
      /\ UNCHANGED <<clock, tokens, refused, overlapped>>
  BY DEF Count, TypeOK
<1>3. TypeOK'
  <2>1. pc' \in [Thread -> Labels] /\ local' \in [Thread -> SUBSET Entries]
    BY <1>1 DEF Count, TypeOK, Labels
  <2> QED BY <1>1, <1>2, <2>1 DEF TypeOK
<1>4. e \notin Accepted
  BY <1>1 DEF AcceptedOK
<1> HIDE DEF e, N
<1>5. Issued' = Issued /\ Serving' = Serving \union {e} /\ Accepted' = Accepted \union {e}
  <2>1. Issued' = Issued
    BY <1>2 DEF Issued
  <2>2. Serving' = Serving \union {e}
    BY <1>2 DEF Serving
  <2> QED BY <2>1, <2>2 DEF Accepted
<1>6. ServingOK'
  <2>1. \A u \in Thread : pc'[u] = "counted" => u = t \/ (pc[u] = "counted" /\ local'[u] = local[u])
    BY <1>2
  <2>2. \A u \in Thread : pc[u] = "counted" => e \notin local[u]
    BY <1>4 DEF Accepted, Serving
  <2>3. e \notin Issued
    BY <1>4 DEF Accepted
  <2> QED BY <1>1, <1>2, <1>5, <2>1, <2>2, <2>3 DEF ServingOK
<1>7. AcceptedOK'
  <2>1. IsFiniteSet(Accepted') /\ Cardinality(Accepted') = N + 1
    BY <1>4, <1>5, FS_AddElement DEF AcceptedOK, N
  <2>2. \A f \in Accepted' : f.at <= clock /\ f.id \in 1 .. N + 1
    BY <1>1, <1>5 DEF AcceptedOK, TypeOK, N
  <2>3. \A f \in Accepted : f.id /= e.id
    BY <1>1 DEF AcceptedOK, N
  <2>4. \A f, g \in Accepted' : f.id = g.id => f = g
    BY <1>5, <2>3 DEF AcceptedOK
  <2> QED BY <1>2, <2>1, <2>2, <2>4 DEF AcceptedOK
<1>8. e \in InWindow(Accepted', clock)
  BY <1>1, <1>5, PairingAssumption DEF InWindow, TypeOK
<1>9. /\ \A n \in Nat : InWindow(Accepted, n) \subseteq InWindow(Accepted', n)
      /\ InWindow(Accepted', clock) = InWindow(Accepted, clock) \union {e}
  BY <1>5, <1>8 DEF InWindow
<1>10. ListOK'
  BY <1>2, <1>5, <1>8, <1>9 DEF ListOK, InWindow
<1>11. NoFalseRefusal'
  <2>1. \A n \in refused : Cardinality(InWindow(Accepted, n)) <= Cardinality(InWindow(Accepted', n))
    BY <1>5, <1>7, FiniteWindows DEF AcceptedOK
  <2>2. \A n \in refused : /\ Cardinality(InWindow(Accepted, n)) \in Nat
                           /\ Cardinality(InWindow(Accepted', n)) \in Nat
    BY <1>5, <1>7, FiniteWindows DEF AcceptedOK
  <2>3. \A n \in refused : Cardinality(InWindow(Accepted', n)) >= MaxRequests
    BY <2>1, <2>2, PairingAssumption DEF NoFalseRefusal
  <2>4. \A n : InWindow(Accepted, n)' = InWindow(Accepted', n)
    BY DEF InWindow
  <2> QED BY <1>2, <2>3, <2>4 DEF NoFalseRefusal
<1>12. ASSUME ~overlapped' PROVE AloneOK'
  <2>1. AloneOK /\ \A u \in Thread \ {t} : pc'[u] \in {"idle", "counted"}
    BY <1>2, <1>12, CheckAlone
  <2>2. Checking' = {}
    BY <1>2, <2>1 DEF Checking, Busy
  <2>3. \A u \in Thread : pc'[u] \notin {"pruned", "passed"}
    BY <1>2, <2>1
  <2>4. Cardinality(InWindow(Accepted, clock)) + 1 <= MaxRequests
    <3>1. IsFiniteSet(store) /\ Cardinality(store) \in Nat
      BY FS_Subset, FS_CardinalityType DEF ListOK, AcceptedOK
    <3>2. /\ Cardinality(InWindow(Accepted, clock)) <= Cardinality(store)
          /\ Cardinality(InWindow(Accepted, clock)) \in Nat
      BY <2>1, <3>1, FS_Subset, FS_CardinalityType DEF AloneOK
    <3>3. Cardinality(store) < MaxRequests
      BY <1>2, <2>1 DEF AloneOK
    <3> QED BY <3>1, <3>2, <3>3, PairingAssumption
  <2>5. ASSUME NEW n \in 0 .. clock PROVE Cardinality(InWindow(Accepted', n)) <= MaxRequests
    <3>1. CASE n = clock
      <4>1. IsFiniteSet(InWindow(Accepted, clock)) /\ Cardinality(InWindow(Accepted, clock)) \in Nat
        BY FiniteWindows DEF AcceptedOK
      <4>2. Cardinality(InWindow(Accepted', clock)) <= Cardinality(InWindow(Accepted, clock)) + 1
        BY <1>9, <4>1, FS_AddElement, SMTT(30)
      <4>3. Cardinality(InWindow(Accepted', clock)) \in Nat
        BY <1>7, FiniteWindows DEF AcceptedOK
      <4> QED BY <2>4, <3>1, <4>1, <4>2, <4>3, PairingAssumption
    <3>2. CASE n /= clock
      <4>1. e \notin InWindow(Accepted', n)
        BY <1>1, <3>2 DEF InWindow, TypeOK
      <4>2. InWindow(Accepted', n) = InWindow(Accepted, n)
        BY <1>5, <4>1 DEF InWindow
      <4> QED BY <2>1, <4>2 DEF AloneOK
    <3> QED BY <3>1, <3>2
  <2>6. InWindow(Accepted', clock) \subseteq store'
    BY <1>2, <1>9, <2>1 DEF AloneOK
  <2>7. \A n : InWindow(Accepted, n)' = InWindow(Accepted', n)
    BY DEF InWindow
  <2> QED BY <1>2, <2>2, <2>3, <2>5, <2>6, <2>7 DEF AloneOK
<1> QED BY <1>3, <1>6, <1>7, <1>10, <1>11, <1>12

LEMMA IssueInv ==
  ASSUME IInv, NEW t \in Thread, Issue(t)
  PROVE  IInv'
<1> USE DEF IInv
<1>1. PICK ttl \in TTL, e \in local[t] :
        tokens' = tokens \union {[id |-> e.id, issued |-> clock, expires |-> clock + ttl, used |-> FALSE]}
  BY DEF Issue
<1> DEFINE k == [id |-> e.id, issued |-> clock, expires |-> clock + ttl, used |-> FALSE]
<1>2. /\ pc[t] = "counted" /\ pc'[t] = "idle" /\ local'[t] = {}
      /\ \A u \in Thread \ {t} : pc'[u] = pc[u] /\ local'[u] = local[u]
      /\ UNCHANGED <<clock, store, refused, overlapped>>
  BY DEF Issue, TypeOK
<1>3. local[t] = {e} /\ e \in Entries /\ e.at = clock /\ e \notin Issued /\ e \in Accepted
  BY <1>2 DEF ServingOK, Accepted, Serving, TypeOK
<1>4. k \in [id : Nat, issued : Nat, expires : Nat, used : BOOLEAN] /\ k.id = e.id /\ k.issued = clock
  BY <1>3, PairingAssumption DEF TypeOK, Entries
<1>5. TypeOK'
  <2>1. pc' \in [Thread -> Labels] /\ local' \in [Thread -> SUBSET Entries]
    BY DEF Issue, TypeOK, Labels
  <2> QED BY <1>1, <1>2, <1>4, <2>1 DEF TypeOK
<1>6. [id |-> k.id, at |-> k.issued] = e
  BY <1>3, <1>4 DEF Entries
<1>7. tokens' = tokens \union {k}
  BY <1>1
<1> HIDE DEF k
<1>8. Issued' = Issued \union {e}
  BY <1>6, <1>7 DEF Issued
<1>9. Serving' = Serving \ {e}
  BY <1>2, <1>3 DEF Serving, ServingOK
<1>10. Accepted' = Accepted
  BY <1>3, <1>8, <1>9 DEF Accepted
<1>11. ServingOK'
  <2>1. \A u \in Thread : pc'[u] = "counted" => u /= t /\ pc[u] = "counted" /\ local'[u] = local[u]
    BY <1>2
  <2>2. \A u \in Thread \ {t} : pc[u] = "counted" => e \notin local[u]
    BY <1>2, <1>3 DEF ServingOK
  <2> QED BY <1>2, <1>8, <2>1, <2>2 DEF ServingOK
<1>12. AcceptedOK'
  <2>1. ASSUME NEW l \in tokens, l.id = e.id PROVE FALSE
    <3>1. [id |-> l.id, at |-> l.issued] \in Issued
      BY DEF Issued
    <3>2. [id |-> l.id, at |-> l.issued] = e
      BY <1>3, <2>1, <3>1 DEF AcceptedOK, Accepted
    <3> QED BY <1>3, <3>1, <3>2
  <2>2. \A l, m \in tokens' : l.id = m.id => l = m
    BY <1>4, <1>7, <2>1 DEF AcceptedOK
  <2> QED BY <1>2, <1>10, <2>2 DEF AcceptedOK
<1>13. ListOK' /\ NoFalseRefusal'
  <2>1. \A u \in Thread : pc'[u] \in {"pruned", "stored"} => pc[u] = pc'[u] /\ local'[u] = local[u]
    BY <1>2
  <2> QED BY <1>2, <1>10, <2>1 DEF ListOK, NoFalseRefusal, InWindow
<1>14. ASSUME ~overlapped' PROVE AloneOK'
  <2>1. Checking' = Checking
    BY <1>2 DEF Checking, Busy
  <2>2. \A u \in Thread : pc'[u] \in {"pruned", "passed"} => pc[u] = pc'[u] /\ local'[u] = local[u]
    BY <1>2
  <2> QED BY <1>2, <1>10, <1>14, <2>1, <2>2 DEF AloneOK, InWindow
<1> QED BY <1>5, <1>11, <1>12, <1>13, <1>14

LEMMA RedeemInv ==
  ASSUME IInv, NEW k \in tokens, Redeem(k)
  PROVE  IInv'
<1> USE DEF IInv
<1> DEFINE r == [k EXCEPT !.used = TRUE]
<1>1. /\ r \in [id : Nat, issued : Nat, expires : Nat, used : BOOLEAN]
      /\ r.id = k.id /\ r.issued = k.issued
  BY DEF TypeOK
<1>2. tokens' = (tokens \ {k}) \union {r} /\ UNCHANGED <<clock, store, pc, local, refused, overlapped>>
  BY DEF Redeem
<1> HIDE DEF r
<1>3. TypeOK'
  BY <1>1, <1>2 DEF TypeOK
<1>4. Issued' = Issued
  BY <1>1, <1>2 DEF Issued
<1>5. Accepted' = Accepted
  BY <1>2, <1>4 DEF Accepted, Serving
<1>6. ServingOK' /\ ListOK' /\ NoFalseRefusal'
  BY <1>2, <1>4, <1>5 DEF ServingOK, ListOK, NoFalseRefusal, InWindow
<1>7. AcceptedOK'
  BY <1>1, <1>2, <1>5 DEF AcceptedOK
<1>8. AloneOK => AloneOK'
  BY <1>2, <1>5 DEF AloneOK, InWindow, Checking, Busy
<1> QED BY <1>2, <1>3, <1>6, <1>7, <1>8

LEMMA TickInv ==
  ASSUME IInv, Tick
  PROVE  IInv'
<1> USE DEF IInv
<1>1. /\ \A t \in Thread : pc[t] = "idle"
      /\ clock' = clock + 1 /\ clock \in Nat /\ UNCHANGED <<store, pc, local, tokens, refused, overlapped>>
  BY DEF Tick, Busy, TypeOK
<1>2. TypeOK'
  BY <1>1 DEF TypeOK
<1>3. Accepted' = Accepted /\ Issued' = Issued
  BY <1>1 DEF Accepted, Issued, Serving
<1>4. \A e \in Accepted : e.at \in Nat /\ e.at <= clock
  BY SMTT(30) DEF AcceptedOK, Accepted, Issued, Serving, TypeOK, Entries
<1>5. AcceptedOK'
  BY <1>1, <1>3, <1>4 DEF AcceptedOK
<1>6. ServingOK' /\ ListOK' /\ NoFalseRefusal'
  BY <1>1, <1>3 DEF ServingOK, ListOK, NoFalseRefusal, InWindow
<1>7. ASSUME AloneOK PROVE AloneOK'
  <2>1. InWindow(Accepted, clock + 1) \subseteq InWindow(Accepted, clock)
    BY <1>1, <1>4, PairingAssumption DEF InWindow
  <2>2. Cardinality(InWindow(Accepted, clock + 1)) <= MaxRequests
    <3>1. /\ IsFiniteSet(InWindow(Accepted, clock)) /\ Cardinality(InWindow(Accepted, clock)) \in Nat
          /\ Cardinality(InWindow(Accepted, clock)) <= MaxRequests
      BY <1>1, <1>7, FiniteWindows DEF AcceptedOK, AloneOK
    <3>2. /\ Cardinality(InWindow(Accepted, clock + 1)) <= Cardinality(InWindow(Accepted, clock))
          /\ Cardinality(InWindow(Accepted, clock + 1)) \in Nat
      BY <2>1, <3>1, FS_Subset, FS_CardinalityType
    <3> QED BY <3>1, <3>2, PairingAssumption
  <2>3. \A n \in 0 .. clock' : n \in 0 .. clock \/ n = clock + 1
    BY <1>1
  <2>4. \A n : InWindow(Accepted, n)' = InWindow(Accepted, n)
    BY <1>3 DEF InWindow
  <2>5. \A n \in 0 .. clock' : Cardinality(InWindow(Accepted, n)) <= MaxRequests
    BY <1>7, <2>2, <2>3 DEF AloneOK
  <2>6. Checking' = {}
    BY <1>1 DEF Checking, Busy
  <2>7. InWindow(Accepted, clock)' \subseteq store'
    BY <1>1, <1>3, <1>7, <2>1 DEF AloneOK, InWindow
  <2> QED BY <1>1, <2>4, <2>5, <2>6, <2>7 DEF AloneOK
<1> QED BY <1>1, <1>2, <1>5, <1>6, <1>7

LEMMA NextInv == IInv /\ [Next]_vars => IInv'
<1> SUFFICES ASSUME IInv, [Next]_vars PROVE IInv'
  OBVIOUS
<1>1. CASE UNCHANGED vars
  BY <1>1, SMTT(30) DEF vars, IInv, TypeOK, ServingOK, AcceptedOK, ListOK, AloneOK, NoFalseRefusal, InWindow,
              Accepted, Issued, Serving, Checking, Busy
<1> QED BY <1>1, PruneInv, StoreInv, DecideInv, CountInv, IssueInv, RedeemInv, TickInv DEF Next

LEMMA Invariance == Spec => []IInv
  BY InitInv, NextInv, PTL DEF Spec

\* The list, the threads and the tokens keep their types.
THEOREM TypeCorrect == Spec => []TypeOK
<1>1. IInv => TypeOK
  BY DEF IInv
<1> QED BY <1>1, Invariance, PTL

\* _check_rate_limit keeps its limit in every window, whatever its length, as long as no
\* two checks overlap.
THEOREM LimitKept == Spec => []WindowRespected
<1>1. IInv => WindowRespected
  <2> SUFFICES ASSUME IInv, ~overlapped, NEW n \in 0 .. clock
               PROVE  Cardinality(InWindow(Issued, n)) <= MaxRequests
    BY DEF WindowRespected
  <2>1. Cardinality(InWindow(Accepted, n)) <= MaxRequests
    BY DEF IInv, AloneOK
  <2>2. /\ Cardinality(InWindow(Issued, n)) <= Cardinality(InWindow(Accepted, n))
        /\ Cardinality(InWindow(Accepted, n)) \in Nat /\ Cardinality(InWindow(Issued, n)) \in Nat
    BY FiniteWindows DEF IInv, AcceptedOK, Accepted
  <2> QED BY <2>1, <2>2, PairingAssumption
<1> QED BY <1>1, Invariance, PTL

\* It refuses no request that is within the limit, however many checks overlap.
THEOREM RefusalsAreRight == Spec => []NoFalseRefusal
<1>1. IInv => NoFalseRefusal
  BY DEF IInv
<1> QED BY <1>1, Invariance, PTL
=============================================================================
