------------------------ MODULE InMemorySessionsProofs ------------------------
(***************************************************************************)
(* Theorems about InMemorySessions, for any requests, sessions and bounds, *)
(* and whatever the passage of time and the evictions take away.           *)
(***************************************************************************)
EXTENDS InMemorySessions, FiniteSetTheorems, TLAPS

Entry == [expires : Int, request : Requests, place : Nat]

\* A dictionary whose entries lie under the session of their request.
Dict(d) ==
  /\ IsFiniteSet(DOMAIN d) /\ DOMAIN d \subseteq Sessions
  /\ \A s \in DOMAIN d : d[s] \in Entry /\ Session[d[s].request] = s

\* d1 has entries of d only, with what they say.
Within(d, d1) ==
  /\ DOMAIN d1 \subseteq DOMAIN d
  /\ \A s \in DOMAIN d1 : d1[s].expires = d[s].expires /\ d1[s].request = d[s].request

\* A purge leaves live entries as they are, and nothing else.
LEMMA PurgeFacts ==
  ASSUME NEW d, Dict(d), clock \in Int
  PROVE  /\ Dict(Purge(d)) /\ Within(d, Purge(d))
         /\ \A s \in DOMAIN Purge(d) : d[s].expires > clock
<1> DEFINE S == {s \in Live(d) : Cardinality(After(d, Live(d), s)) < MaxSessions}
<1>1. S \subseteq DOMAIN d /\ IsFiniteSet(S) /\ \A s \in S : d[s].expires > clock
  BY FS_Subset DEF Dict, Live
<1> HIDE DEF S
<1>2. \A s \in S : Cardinality({k \in S : d[k].place <= d[s].place}) \in Nat
  BY <1>1, FS_Subset, FS_CardinalityType
<1>3. DOMAIN Left(d, S) = S
  BY DEF Left
<1>4. ASSUME NEW s \in S
      PROVE  /\ Left(d, S)[s] \in Entry
             /\ Left(d, S)[s].expires = d[s].expires /\ Left(d, S)[s].request = d[s].request
  <2> DEFINE n == Cardinality({k \in S : d[k].place <= d[s].place})
  <2>1. n \in Nat /\ d[s] \in Entry
    BY <1>1, <1>2 DEF Dict
  <2>2. Left(d, S)[s] = [d[s] EXCEPT !.place = n]
    BY DEF Left
  <2> HIDE DEF n
  <2> QED BY <2>1, <2>2 DEF Entry
<1>5. Purge(d) = Left(d, S)
  BY DEF Purge, S
<1>6. Dict(Left(d, S)) /\ Within(d, Left(d, S))
  BY <1>1, <1>3, <1>4 DEF Dict, Within
<1> QED BY <1>1, <1>3, <1>5, <1>6

\* A purge evicts no live entry while the keys fit.
LEMMA PurgeKeeps ==
  ASSUME NEW d, Dict(d), NEW K, IsFiniteSet(K), Cardinality(K) <= MaxSessions, DOMAIN d \subseteq K,
         NEW s \in DOMAIN d, d[s].expires > clock
  PROVE  s \in DOMAIN Purge(d)
<1> DEFINE A == After(d, Live(d), s)
<1>1. A \subseteq K \ {s} /\ s \in K
  BY DEF After, Live, Dict, Entry
<1>2. IsFiniteSet(K \ {s}) /\ Cardinality(K \ {s}) = Cardinality(K) - 1 /\ Cardinality(K) \in Nat
  BY <1>1, FS_RemoveElement, FS_CardinalityType
<1>3. Cardinality(A) <= Cardinality(K \ {s}) /\ Cardinality(A) \in Nat
  BY <1>1, <1>2, FS_Subset, FS_CardinalityType
<1>4. Cardinality(A) < MaxSessions
  BY <1>2, <1>3, StoreAssumption
<1>5. s \in Live(d)
  BY DEF Live
<1> QED BY <1>4, <1>5 DEF Purge, Left

\* An assignment changes one entry.
LEMMA AssignFacts ==
  ASSUME NEW d, Dict(d), NEW r \in Requests, clock \in Int
  PROVE  LET s  == Session[r]
             d1 == Assign(d, s, r)
         IN  /\ Dict(d1) /\ DOMAIN d1 = DOMAIN d \cup {s}
             /\ d1[s].request = r /\ d1[s].expires = clock + TTL
             /\ \A k \in DOMAIN d : k # s => d1[k] = d[k]
<1> DEFINE s == Session[r]
           n == IF s \in DOMAIN d THEN d[s].place ELSE Cardinality(DOMAIN d) + 1
           e == [expires |-> clock + TTL, request |-> r, place |-> n]
           d1 == Assign(d, s, r)
<1>1. s \in Sessions /\ n \in Nat /\ TTL \in Nat
  BY FS_CardinalityType, StoreAssumption DEF Dict, Entry
<1>2. d1 = [k \in DOMAIN d \cup {s} |-> IF k # s THEN d[k] ELSE e]
  BY DEF Assign
<1> HIDE DEF n
<1>3. e \in Entry /\ e.request = r /\ e.expires = clock + TTL
  BY <1>1 DEF Entry
<1> HIDE DEF e, d1
<1>4. DOMAIN d1 = DOMAIN d \cup {s} /\ d1[s] = e /\ \A k \in DOMAIN d : k # s => d1[k] = d[k]
  BY <1>2
<1>5. IsFiniteSet(DOMAIN d1)
  BY <1>4, FS_AddElement DEF Dict
<1>6. Dict(d1)
  BY <1>1, <1>3, <1>4, <1>5 DEF Dict
<1> QED BY <1>3, <1>4, <1>6 DEF d1

-----------------------------------------------------------------------------
Types ==
  /\ clock \in Nat
  /\ phase \in [Requests -> {"new", "begun", "read", "ended"}]
  /\ inherited \in [Requests -> Requests \cup {None}]
  /\ newest \in [Sessions -> Requests \cup {None}]
  /\ begunAt \in [Requests -> Nat] /\ putAt \in [Requests -> Int]
  /\ Dict(values) /\ Dict(requests)

\* What a request has done, by its phase.
Progress ==
  /\ \A r \in Requests : phase[r] \in {"new", "begun"} => inherited[r] = None
  /\ \A r \in Requests : phase[r] # "ended" => putAt[r] = -1
  /\ \A s \in Sessions : newest[s] # None => Session[newest[s]] = s /\ phase[newest[s]] # "new"

\* A reservation that is there is the last one made, with the time it began.
Reservations ==
  \A s \in DOMAIN requests :
    /\ newest[s] = requests[s].request
    /\ requests[s].expires = begunAt[requests[s].request] + TTL

\* A context that is there was put in time by a request that has ended.
Contexts ==
  \A s \in DOMAIN values :
    /\ phase[values[s].request] = "ended"
    /\ values[s].expires = putAt[values[s].request] + TTL
    /\ putAt[values[s].request] < begunAt[values[s].request] + TTL

Keys == IsFiniteSet(InUse) /\ DOMAIN values \subseteq InUse /\ DOMAIN requests \subseteq InUse

Fits == Cardinality(InUse) <= MaxSessions

\* While the sessions in use fit, a reservation stays until it is replaced or expires,
ReservationKept ==
  Fits => \A r \in Requests :
    phase[r] # "new" /\ newest[Session[r]] = r /\ clock < begunAt[r] + TTL
      => Session[r] \in DOMAIN requests

\* and so does a context that was put in time.
ContextKept ==
  Fits => \A r \in Requests :
    /\ putAt[r] >= 0 /\ putAt[r] < begunAt[r] + TTL /\ clock < putAt[r] + TTL
    /\ newest[Session[r]] = r
    => Session[r] \in DOMAIN values /\ values[Session[r]].request = r

Inv == Types /\ Progress /\ Reservations /\ Contexts /\ Keys /\ ReservationKept /\ ContextKept

\* The invariant holds of an empty store.
LEMMA InvInit == Init => Inv
<1> SUFFICES ASSUME Init PROVE Inv
  OBVIOUS
<1>1. InUse = {} /\ DOMAIN values = {} /\ DOMAIN requests = {}
  BY DEF Init, InUse
<1>2. IsFiniteSet({})
  BY FS_EmptySet
<1>3. Types /\ Keys
  BY <1>1, <1>2 DEF Init, Types, Keys, Dict
<1>4. Progress /\ Reservations /\ Contexts /\ ReservationKept /\ ContextKept
  BY <1>1 DEF Init, Progress, Reservations, Contexts, ReservationKept, ContextKept
<1> QED BY <1>3, <1>4 DEF Inv

\* A purge keeps what is said of the entries, and loses none that must be kept.
LEMMA PurgesKeep ==
  ASSUME Inv
  PROVE  /\ Dict(Purge(values)) /\ Within(values, Purge(values))
         /\ Dict(Purge(requests)) /\ Within(requests, Purge(requests))
         /\ \A s \in DOMAIN Purge(values) : values[s].expires > clock
         /\ Fits => /\ \A s \in DOMAIN values :
                         values[s].expires > clock => s \in DOMAIN Purge(values)
                    /\ \A s \in DOMAIN requests :
                         requests[s].expires > clock => s \in DOMAIN Purge(requests)
<1>1. Dict(values) /\ Dict(requests) /\ clock \in Int /\ Keys
  BY DEF Inv, Types
<1>2. ASSUME Fits, NEW s \in DOMAIN values, values[s].expires > clock
      PROVE  s \in DOMAIN Purge(values)
  BY <1>1, <1>2, PurgeKeeps DEF Keys, Fits
<1>3. ASSUME Fits, NEW s \in DOMAIN requests, requests[s].expires > clock
      PROVE  s \in DOMAIN Purge(requests)
  BY <1>1, <1>3, PurgeKeeps DEF Keys, Fits
<1> QED BY <1>1, <1>2, <1>3, PurgeFacts

\* begin() of r replaces the reservation of its session; what it evicts did not fit.
LEMMA BeginKeeps ==
  ASSUME Inv, NEW r \in Requests, Begin(r)
  PROVE  Inv'
<1> DEFINE k == Session[r]
           d == Purge(requests)
           a == Assign(d, k, r)
<1>1. /\ phase[r] = "new" /\ phase' = [phase EXCEPT ![r] = "begun"]
      /\ values' = Purge(values) /\ requests' = Purge(a)
      /\ newest' = [newest EXCEPT ![k] = r] /\ begunAt' = [begunAt EXCEPT ![r] = clock]
      /\ UNCHANGED <<clock, inherited, putAt>> /\ k \in Sessions
  BY StoreAssumption DEF Begin, Move
<1>2. /\ Dict(values') /\ Within(values, values') /\ Dict(d) /\ Within(requests, d)
      /\ clock \in Nat /\ clock \in Int /\ TTL \in Nat \ {0}
  BY <1>1, PurgesKeep, StoreAssumption DEF Inv, Types
<1>3. /\ Dict(a) /\ DOMAIN a = DOMAIN d \cup {k} /\ a[k].request = r /\ a[k].expires = clock + TTL
      /\ \A s \in DOMAIN d : s # k => a[s] = d[s]
  BY <1>2, AssignFacts
<1> HIDE DEF d, a
<1>4. Dict(requests') /\ Within(a, requests')
  BY <1>1, <1>2, <1>3, PurgeFacts
<1>5. InUse' = InUse \cup {k} /\ IsFiniteSet(InUse) /\ IsFiniteSet(InUse')
  <2>1. InUse' = InUse \cup {k}
    BY <1>1 DEF InUse, Inv, Types
  <2> QED BY <2>1, FS_AddElement DEF Inv, Keys
<1>6. Types'
  BY <1>1, <1>2, <1>4 DEF Inv, Types
<1>7. Progress'
  BY <1>1, StoreAssumption DEF Inv, Types, Progress
<1>8. Reservations'
  BY <1>1, <1>2, <1>3, <1>4 DEF Inv, Types, Reservations, Within, Dict, Entry, Progress
<1>9. Contexts'
  BY <1>1, <1>2 DEF Inv, Types, Contexts, Within, Dict, Entry
<1>10. Keys'
  BY <1>1, <1>2, <1>3, <1>4, <1>5 DEF Inv, Keys, Within
<1>11. Fits' => Fits
  BY <1>5, FS_Subset, FS_CardinalityType, StoreAssumption DEF Fits
<1>12. ASSUME Fits', NEW x \in Requests, phase'[x] # "new", newest'[Session[x]] = x,
              clock' < begunAt'[x] + TTL
       PROVE  Session[x] \in DOMAIN requests'
  <2> DEFINE s == Session[x]
  <2>1. s \in DOMAIN a /\ a[s].expires > clock
    <3>1. CASE s = k
      BY <1>2, <1>3, <3>1
    <3>2. CASE s # k
      <4>1. x # r /\ phase[x] # "new" /\ newest[s] = x /\ clock < begunAt[x] + TTL /\ begunAt[x] \in Nat
        BY <1>1, <1>12, <3>2, StoreAssumption DEF Inv, Types
      <4>2. s \in DOMAIN requests
        BY <1>11, <1>12, <4>1 DEF Inv, ReservationKept
      <4>3. requests[s].expires > clock
        BY <4>1, <4>2, StoreAssumption DEF Inv, Reservations
      <4>4. s \in DOMAIN d
        BY <1>11, <1>12, <4>2, <4>3, PurgesKeep DEF d
      <4> QED BY <1>2, <1>3, <3>2, <4>3, <4>4 DEF Within
    <3> QED BY <3>1, <3>2
  <2>2. DOMAIN a \subseteq InUse'
    BY <1>2, <1>3, <1>5 DEF Inv, Keys, Within
  <2>3. s \in DOMAIN Purge(a)
    BY <1>3, <1>5, <1>12, <2>1, <2>2, PurgeKeeps DEF Fits
  <2> QED BY <1>1, <2>3
<1>13. ReservationKept'
  BY <1>12 DEF ReservationKept
<1>14. ASSUME Fits', NEW x \in Requests, putAt'[x] >= 0, putAt'[x] < begunAt'[x] + TTL,
              clock' < putAt'[x] + TTL, newest'[Session[x]] = x
       PROVE  Session[x] \in DOMAIN values' /\ values'[Session[x]].request = x
  <2> DEFINE s == Session[x]
  <2>1. x # r
    BY <1>1, <1>14 DEF Inv, Progress
  <2>2. s # k /\ newest[s] = x /\ putAt[x] >= 0 /\ putAt[x] < begunAt[x] + TTL /\ clock < putAt[x] + TTL
    BY <1>1, <1>14, <2>1, StoreAssumption DEF Inv, Types
  <2>3. s \in DOMAIN values /\ values[s].request = x
    BY <1>11, <1>14, <2>2 DEF Inv, ContextKept
  <2>4. values[s].expires > clock
    BY <2>2, <2>3, StoreAssumption DEF Inv, Types, Contexts
  <2> QED BY <1>1, <1>2, <1>11, <1>14, <2>3, <2>4, PurgesKeep DEF Within
<1>15. ContextKept'
  BY <1>14 DEF ContextKept
<1> QED BY <1>6, <1>7, <1>8, <1>9, <1>10, <1>13, <1>15 DEF Inv

\* Nothing but time and a purge takes entries from a request that has not ended.
LEMMA ReservationsStay ==
  ASSUME Inv, requests' = Purge(requests), UNCHANGED <<clock, newest, begunAt>>,
         InUse' = InUse, NEW r \in Requests, phase[r] # "new", phase'[r] # "new",
         phase' \in [Requests -> {"new", "begun", "read", "ended"}],
         \A x \in Requests : x # r => phase'[x] = phase[x]
  PROVE  Dict(requests') /\ Reservations' /\ ReservationKept' /\ DOMAIN requests' \subseteq InUse'
<1>1. /\ Dict(requests') /\ Within(requests, requests') /\ clock \in Nat /\ TTL \in Nat
      /\ Fits => \A s \in DOMAIN requests : requests[s].expires > clock => s \in DOMAIN requests'
  BY PurgesKeep, StoreAssumption DEF Inv, Types
<1>2. Reservations' /\ DOMAIN requests' \subseteq InUse'
  BY <1>1 DEF Inv, Reservations, Keys, Within, Dict, Entry
<1>3. ASSUME Fits', NEW x \in Requests, phase'[x] # "new", newest'[Session[x]] = x,
             clock' < begunAt'[x] + TTL
      PROVE  Session[x] \in DOMAIN requests'
  <2>1. Session[x] \in DOMAIN requests
    BY <1>3 DEF Inv, ReservationKept, Fits
  <2>2. requests[Session[x]].expires > clock
    BY <1>1, <1>3, <2>1 DEF Inv, Types, Reservations
  <2> QED BY <1>1, <1>3, <2>1, <2>2 DEF Fits
<1> QED BY <1>1, <1>2, <1>3 DEF ReservationKept

\* A context of ended requests that must be kept survives a purge.
LEMMA ContextsStay ==
  ASSUME Inv, Fits, NEW x \in Requests, putAt[x] >= 0, putAt[x] < begunAt[x] + TTL,
         clock < putAt[x] + TTL, newest[Session[x]] = x
  PROVE  /\ Session[x] \in DOMAIN Purge(values) /\ Purge(values)[Session[x]].request = x
         /\ Session[x] \in DOMAIN values /\ values[Session[x]].expires > clock
<1>1. Session[x] \in DOMAIN values /\ values[Session[x]].request = x
  BY DEF Inv, ContextKept
<1>2. values[Session[x]].expires > clock
  BY <1>1, StoreAssumption DEF Inv, Types, Contexts
<1> QED BY <1>1, <1>2, PurgesKeep DEF Within

\* get() of r.
LEMMA GetKeeps ==
  ASSUME Inv, NEW r \in Requests, Get(r)
  PROVE  Inv'
<1>1. /\ phase[r] = "begun" /\ phase' = [phase EXCEPT ![r] = "read"]
      /\ values' = Purge(values) /\ requests' = Purge(requests)
      /\ inherited' = [inherited EXCEPT ![r] = Held(values', Session[r])]
      /\ UNCHANGED <<clock, newest, begunAt, putAt>>
  BY DEF Get, Move
<1>2. Dict(values') /\ Within(values, values')
  BY <1>1, PurgesKeep
<1>3. InUse' = InUse
  BY <1>1 DEF InUse, Inv, Types
<1>4. phase' \in [Requests -> {"new", "begun", "read", "ended"}]
  BY <1>1 DEF Inv, Types
<1>5. /\ Dict(requests') /\ Reservations' /\ ReservationKept'
      /\ DOMAIN requests' \subseteq InUse'
  BY <1>1, <1>3, <1>4, ReservationsStay DEF Inv, Types
<1>6. Held(values', Session[r]) \in Requests \cup {None}
  BY <1>2 DEF Held, Dict, Entry
<1>7. Types'
  BY <1>1, <1>2, <1>4, <1>5, <1>6 DEF Inv, Types
<1>8. Progress'
  BY <1>1 DEF Inv, Types, Progress
<1>9. Contexts'
  BY <1>1, <1>2 DEF Inv, Types, Contexts, Within, Dict, Entry
<1>10. Keys'
  BY <1>2, <1>3, <1>5 DEF Inv, Keys, Within
<1>11. ContextKept'
  BY <1>1, <1>3, ContextsStay DEF ContextKept, Fits
<1> QED BY <1>5, <1>7, <1>8, <1>9, <1>10, <1>11 DEF Inv

\* A request whose reservation is still there is the last one of its session, in time.
LEMMA HolderIsNewest ==
  ASSUME Inv, NEW r \in Requests, Held(Purge(requests), Session[r]) = r
  PROVE  newest[Session[r]] = r /\ clock < begunAt[r] + TTL
<1> DEFINE s == Session[r]
<1>1. s \in DOMAIN Purge(requests) /\ Purge(requests)[s].request = r
  BY StoreAssumption DEF Held
<1>2. s \in DOMAIN requests /\ requests[s].request = r /\ requests[s].expires > clock
  BY <1>1, PurgesKeep, PurgeFacts DEF Within, Inv, Types
<1> QED BY <1>2 DEF Inv, Reservations

\* put() of r, when its reservation is still there.
LEMMA WriteKeeps ==
  ASSUME Inv, NEW r \in Requests, Put(r), Held(requests', Session[r]) = r
  PROVE  Inv'
<1> DEFINE k == Session[r]
           d == Purge(values)
           a == Assign(d, k, r)
<1>1. /\ phase[r] = "read" /\ phase' = [phase EXCEPT ![r] = "ended"]
      /\ values' = Purge(a) /\ requests' = Purge(requests)
      /\ putAt' = [putAt EXCEPT ![r] = clock]
      /\ UNCHANGED <<clock, inherited, newest, begunAt>> /\ k \in Sessions
  BY StoreAssumption DEF Put, Move
<1>2. newest[k] = r /\ clock < begunAt[r] + TTL
  BY <1>1, HolderIsNewest
<1>3. /\ Dict(d) /\ Within(values, d) /\ clock \in Nat /\ clock \in Int /\ TTL \in Nat \ {0}
  BY PurgesKeep, StoreAssumption DEF Inv, Types
<1>4. /\ Dict(a) /\ DOMAIN a = DOMAIN d \cup {k} /\ a[k].request = r /\ a[k].expires = clock + TTL
      /\ \A s \in DOMAIN d : s # k => a[s] = d[s]
  BY <1>3, AssignFacts
<1> HIDE DEF d, a
<1>5. Dict(values') /\ Within(a, values')
  BY <1>1, <1>3, <1>4, PurgeFacts
<1>6. InUse' = InUse
  BY <1>1 DEF InUse, Inv, Types
<1>7. phase' \in [Requests -> {"new", "begun", "read", "ended"}]
  BY <1>1 DEF Inv, Types
<1>8. /\ Dict(requests') /\ Reservations' /\ ReservationKept'
      /\ DOMAIN requests' \subseteq InUse'
  BY <1>1, <1>6, <1>7, ReservationsStay DEF Inv, Types
<1>9. Types'
  BY <1>1, <1>3, <1>5, <1>7, <1>8 DEF Inv, Types
<1>10. Progress'
  BY <1>1 DEF Inv, Types, Progress
<1>11. Contexts'
  <2> SUFFICES ASSUME NEW s \in DOMAIN values'
               PROVE  /\ phase'[values'[s].request] = "ended"
                      /\ values'[s].expires = putAt'[values'[s].request] + TTL
                      /\ putAt'[values'[s].request] < begunAt'[values'[s].request] + TTL
    BY <1>1 DEF Contexts
  <2>1. CASE s = k
    <3>1. values'[s].request = r /\ values'[s].expires = clock + TTL
      BY <1>4, <1>5, <2>1 DEF Within
    <3> QED BY <1>1, <1>2, <3>1 DEF Inv, Types
  <2>2. CASE s # k
    <3>1. /\ s \in DOMAIN values
          /\ values'[s].request = values[s].request /\ values'[s].expires = values[s].expires
      BY <1>3, <1>4, <1>5, <2>2 DEF Within
    <3>2. values[s].request \in Requests /\ values[s].request # r
      BY <1>1, <3>1 DEF Inv, Types, Dict, Entry, Contexts
    <3> QED BY <1>1, <3>1, <3>2 DEF Inv, Types, Contexts
  <2> QED BY <2>1, <2>2
<1>12. k \in InUse /\ DOMAIN a \subseteq InUse
  <2>1. k \in InUse
    BY <1>1 DEF InUse
  <2> QED BY <1>3, <1>4, <2>1 DEF Inv, Keys, Within
<1>13. Keys'
  BY <1>5, <1>6, <1>8, <1>12 DEF Inv, Keys, Within
<1>14. ASSUME Fits', NEW x \in Requests, putAt'[x] >= 0, putAt'[x] < begunAt'[x] + TTL,
              clock' < putAt'[x] + TTL, newest'[Session[x]] = x
       PROVE  Session[x] \in DOMAIN values' /\ values'[Session[x]].request = x
  <2> DEFINE s == Session[x]
  <2>1. s \in DOMAIN a /\ a[s].expires > clock /\ a[s].request = x
    <3>1. CASE x = r
      BY <1>3, <1>4, <3>1
    <3>2. CASE x # r
      <4>1. s # k /\ putAt'[x] = putAt[x]
        BY <1>1, <1>2, <1>14, <3>2 DEF Inv, Types
      <4>2. /\ s \in DOMAIN d /\ d[s].request = x
            /\ s \in DOMAIN values /\ values[s].expires > clock
        BY <1>1, <1>6, <1>14, <4>1, ContextsStay DEF d, Fits
      <4> QED BY <1>3, <1>4, <4>1, <4>2 DEF Within
    <3> QED BY <3>1, <3>2
  <2>2. s \in DOMAIN Purge(a)
    BY <1>4, <1>6, <1>12, <1>14, <2>1, PurgeKeeps DEF Inv, Keys, Fits
  <2> QED BY <1>1, <1>5, <2>1, <2>2 DEF Within
<1>15. ContextKept'
  BY <1>14 DEF ContextKept
<1> QED BY <1>8, <1>9, <1>10, <1>11, <1>13, <1>15 DEF Inv

\* put() of r, when another request has the reservation, or nobody.
LEMMA LatePutKeeps ==
  ASSUME Inv, NEW r \in Requests, Put(r), Held(requests', Session[r]) # r
  PROVE  Inv'
<1>1. /\ phase[r] = "read" /\ phase' = [phase EXCEPT ![r] = "ended"]
      /\ values' = Purge(values) /\ requests' = Purge(requests)
      /\ putAt' = [putAt EXCEPT ![r] = clock]
      /\ UNCHANGED <<clock, inherited, newest, begunAt>>
  BY DEF Put, Move
<1>2. Dict(values') /\ Within(values, values')
  BY <1>1, PurgesKeep
<1>3. InUse' = InUse
  BY <1>1 DEF InUse, Inv, Types
<1>4. phase' \in [Requests -> {"new", "begun", "read", "ended"}]
  BY <1>1 DEF Inv, Types
<1>5. /\ Dict(requests') /\ Reservations' /\ ReservationKept'
      /\ DOMAIN requests' \subseteq InUse'
  BY <1>1, <1>3, <1>4, ReservationsStay DEF Inv, Types
<1>6. Types'
  BY <1>1, <1>2, <1>4, <1>5 DEF Inv, Types
<1>7. Progress'
  BY <1>1 DEF Inv, Types, Progress
<1>8. Contexts'
  <2> SUFFICES ASSUME NEW s \in DOMAIN values'
               PROVE  /\ phase'[values'[s].request] = "ended"
                      /\ values'[s].expires = putAt'[values'[s].request] + TTL
                      /\ putAt'[values'[s].request] < begunAt'[values'[s].request] + TTL
    BY <1>1 DEF Contexts
  <2>1. /\ s \in DOMAIN values
        /\ values'[s].request = values[s].request /\ values'[s].expires = values[s].expires
    BY <1>2 DEF Within
  <2>2. values[s].request \in Requests /\ values[s].request # r
    BY <1>1, <2>1 DEF Inv, Types, Dict, Entry, Contexts
  <2> QED BY <1>1, <2>1, <2>2 DEF Inv, Types, Contexts
<1>9. Keys'
  BY <1>2, <1>3, <1>5 DEF Inv, Keys, Within
<1>10. ASSUME Fits', NEW x \in Requests, putAt'[x] >= 0, putAt'[x] < begunAt'[x] + TTL,
              clock' < putAt'[x] + TTL, newest'[Session[x]] = x
       PROVE  Session[x] \in DOMAIN values' /\ values'[Session[x]].request = x
  <2>1. CASE x = r
    <3>1. clock < begunAt[r] + TTL /\ newest[Session[r]] = r
      BY <1>1, <1>10, <2>1 DEF Inv, Types
    <3>2. Session[r] \in DOMAIN requests
      BY <1>1, <1>3, <1>10, <3>1 DEF Inv, ReservationKept, Fits
    <3>3. requests[Session[r]].request = r /\ requests[Session[r]].expires > clock
      BY <3>1, <3>2, StoreAssumption DEF Inv, Types, Reservations
    <3>4. Held(requests', Session[r]) = r
      BY <1>1, <1>3, <1>10, <3>2, <3>3, PurgesKeep DEF Held, Within, Fits
    <3> QED BY <3>4
  <2>2. CASE x # r
    <3>1. putAt'[x] = putAt[x]
      BY <1>1, <2>2 DEF Inv, Types
    <3> QED BY <1>1, <1>3, <1>10, <3>1, ContextsStay DEF Fits
  <2> QED BY <2>1, <2>2
<1>11. ContextKept'
  BY <1>10 DEF ContextKept
<1> QED BY <1>5, <1>6, <1>7, <1>8, <1>9, <1>11 DEF Inv

\* Every step keeps the invariant.
LEMMA InvNext == Inv /\ [Next]_vars => Inv'
<1> SUFFICES ASSUME Inv, [Next]_vars PROVE Inv'
  OBVIOUS
<1>1. ASSUME NEW r \in Requests, Put(r) PROVE Inv'
  BY <1>1, WriteKeeps, LatePutKeeps
<1>2. ASSUME NEW r \in Requests, EndWithoutPut(r) PROVE Inv'
  <2>1. /\ phase[r] = "read" /\ phase' = [phase EXCEPT ![r] = "ended"]
        /\ UNCHANGED <<clock, values, requests, inherited, newest, begunAt, putAt>>
    BY <1>2 DEF EndWithoutPut, Move, storeVars
  <2>2. InUse' = InUse
    BY <2>1 DEF InUse, Inv, Types
  <2>3. Types' /\ Progress' /\ Reservations' /\ Keys'
    BY <2>1, <2>2 DEF Inv, Types, Progress, Reservations, Keys, Dict
  <2>4. Contexts'
    BY <2>1 DEF Inv, Types, Contexts, Dict, Entry
  <2>5. ReservationKept' /\ ContextKept'
    BY <2>1, <2>2 DEF Inv, Types, ReservationKept, ContextKept, Fits
  <2> QED BY <2>3, <2>4, <2>5 DEF Inv
<1>3. CASE Tick
  <2>1. clock' = clock + 1 /\ clock \in Nat
        /\ UNCHANGED <<values, requests, phase, inherited, newest, begunAt, putAt>>
    BY <1>3 DEF Tick, storeVars, Inv, Types
  <2>2. InUse' = InUse
    BY <2>1 DEF InUse
  <2>3. Types' /\ Progress' /\ Reservations' /\ Keys' /\ Contexts'
    BY <2>1, <2>2 DEF Inv, Types, Progress, Reservations, Keys, Dict, Contexts
  <2>4. ReservationKept'
    BY <2>1, <2>2, StoreAssumption DEF Inv, Types, ReservationKept, Fits
  <2>5. ContextKept'
    BY <2>1, <2>2, StoreAssumption DEF Inv, Types, ContextKept, Fits
  <2> QED BY <2>3, <2>4, <2>5 DEF Inv
<1>4. CASE UNCHANGED vars
  BY <1>4 DEF vars, storeVars, Inv, Types, Progress, Reservations, Keys, Dict, Contexts,
              ReservationKept, ContextKept, Fits, InUse
<1> QED BY <1>1, <1>2, <1>3, <1>4, BeginKeeps, GetKeeps DEF Next, Rest

\* The invariant holds throughout.
LEMMA Invariance == Spec => []Inv
BY InvInit, InvNext, PTL DEF Spec

-----------------------------------------------------------------------------
\* While the sessions in use fit, no purge, eviction or late completion of another request
\* takes the context of the last one away before its time is over (session.py:84-142).
THEOREM LastWriteAlwaysKept == Spec => []LastWriteKept
<1>1. Inv => LastWriteKept
  BY DEF Inv, ContextKept, LastWriteKept, Fits, Held
<1> QED BY <1>1, Invariance, PTL

\* A request never continues from a context that has expired, nor from one whose writer had
\* lost its reservation when it wrote (session.py:97-142).
THEOREM AlwaysInheritsLive == Spec => InheritsLive
<1> DEFINE Live1 == \A r \in Requests :
                     inherited'[r] # inherited[r] =>
                       LET w == inherited'[r]
                       IN  /\ Session[w] = Session[r]
                           /\ clock < putAt[w] + TTL /\ putAt[w] < begunAt[w] + TTL
<1>1. ASSUME Inv, [Next]_vars PROVE [Live1]_vars
  <2>1. ASSUME NEW q \in Requests, Get(q) PROVE Live1
    <3> SUFFICES ASSUME NEW r \in Requests, inherited'[r] # inherited[r]
                 PROVE  LET w == inherited'[r]
                        IN  /\ Session[w] = Session[r]
                            /\ clock < putAt[w] + TTL /\ putAt[w] < begunAt[w] + TTL
      OBVIOUS
    <3> DEFINE s == Session[q]
    <3>1. r = q /\ inherited[r] = None /\ inherited'[r] = Held(Purge(values), s)
      <4>1. /\ phase[q] = "begun" /\ inherited' = [inherited EXCEPT ![q] = Held(Purge(values), s)]
            /\ inherited \in [Requests -> Requests \cup {None}]
        BY <1>1, <2>1 DEF Get, Move, Inv, Types
      <4>2. r = q /\ inherited'[r] = Held(Purge(values), s)
        BY <4>1
      <4> QED BY <1>1, <4>1, <4>2 DEF Inv, Progress
    <3>2. s \in DOMAIN Purge(values) /\ inherited'[r] = Purge(values)[s].request
      BY <3>1 DEF Held
    <3>3. s \in DOMAIN values /\ inherited'[r] = values[s].request /\ values[s].expires > clock
      BY <1>1, <3>2, PurgesKeep DEF Within
    <3>4. values[s].request \in Requests /\ Session[values[s].request] = s
      BY <1>1, <3>3 DEF Inv, Types, Dict, Entry
    <3>5. /\ values[s].expires = putAt[values[s].request] + TTL
          /\ putAt[values[s].request] < begunAt[values[s].request] + TTL
      BY <1>1, <3>3 DEF Inv, Contexts
    <3> QED BY <3>1, <3>3, <3>4, <3>5
  <2>2. ASSUME UNCHANGED inherited PROVE Live1
    BY <2>2
  <2>3. ASSUME NEW q \in Requests, Begin(q) \/ Put(q) \/ EndWithoutPut(q) PROVE UNCHANGED inherited
    BY <2>3 DEF Begin, Put, EndWithoutPut
  <2>4. CASE Tick \/ Rest \/ UNCHANGED vars
    BY <2>2, <2>4 DEF Tick, Rest, vars
  <2> QED BY <1>1, <2>1, <2>2, <2>3, <2>4 DEF Next
<1> QED BY <1>1, Invariance, PTL DEF Spec, InheritsLive

-----------------------------------------------------------------------------
Stored == [s \in Sessions |-> Held(values, s)]

\* What a purge takes away is forgotten, nothing else.
LEMMA PurgeForgets ==
  ASSUME Inv, NEW s \in Sessions
  PROVE  Held(Purge(values), s) \in {Held(values, s), None}
BY PurgesKeep DEF Held, Within

\* Whatever expires, is evicted or is written late, a context is written only by the request
\* that reserved its session last, and a request inherits what is there or nothing
\* (session.py:76-142, orchestrator.py:141-284).
THEOREM MemoryImplementsContinuity == Spec => ImplementsContinuity
<1>1. Init => Continuity!Init
  BY DEF Init, Continuity!Init, Held
<1>2. Inv /\ Inv' /\ [Next]_vars =>
        [Stored' \in [Sessions -> Requests \cup {None}] /\ Continuity!Next]_(Continuity!vars)
  <2> SUFFICES ASSUME Inv, Inv', [Next]_vars
               PROVE  [Stored' \in [Sessions -> Requests \cup {None}]
                         /\ Continuity!Next]_(Continuity!vars)
    OBVIOUS
  <2>1. Stored' \in [Sessions -> Requests \cup {None}]
    BY DEF Inv, Types, Stored, Held, Dict, Entry
  <2>2. ASSUME values' = Purge(values) PROVE Continuity!Forgetful(Sessions)
    BY <2>2, PurgeForgets DEF Continuity!Forgetful
  <2>3. ASSUME UNCHANGED values PROVE Continuity!Forgetful(Sessions) /\ UNCHANGED Stored
    BY <2>3 DEF Continuity!Forgetful, Stored, Held
  <2>4. ASSUME NEW r \in Requests, Begin(r) PROVE Continuity!Reserve(r)
    BY <2>2, <2>4 DEF Begin, Move, Continuity!Reserve, Continuity!Move
  <2>5. ASSUME NEW r \in Requests, Get(r) PROVE Continuity!Inherit(r)
    <3>1. \/ UNCHANGED inherited
          \/ /\ Stored[Session[r]] # None
             /\ inherited' = [inherited EXCEPT ![r] = Stored[Session[r]]]
      <4>1. /\ Session[r] \in Sessions /\ inherited[r] = None
            /\ inherited \in [Requests -> Requests \cup {None}]
        BY <2>5, StoreAssumption DEF Get, Move, Inv, Types, Progress
      <4>2. inherited' = [inherited EXCEPT ![r] = Held(Purge(values), Session[r])]
        BY <2>5 DEF Get
      <4> QED BY <4>1, <4>2, PurgeForgets DEF Stored
    <3>2. /\ Session[r] \in Sessions /\ Stored[Session[r]] = Held(values, Session[r])
          /\ Stored[Session[r]] \in Requests \cup {None}
      BY StoreAssumption DEF Inv, Types, Stored, Held, Dict, Entry
    <3>3. /\ phase[r] = "begun" /\ phase' = [phase EXCEPT ![r] = "read"]
          /\ UNCHANGED newest /\ Continuity!Forgetful(Sessions)
      BY <2>2, <2>5 DEF Get, Move
    <3> QED BY <3>1, <3>2, <3>3 DEF Continuity!Inherit, Continuity!Move, Stored
  <2>6. ASSUME NEW r \in Requests, EndWithoutPut(r) PROVE Continuity!Leave(r)
    BY <2>3, <2>6 DEF EndWithoutPut, storeVars, Move, Continuity!Leave
  <2>7. ASSUME NEW r \in Requests, Put(r) PROVE Continuity!Save(r) \/ Continuity!Leave(r)
    <3> DEFINE k == Session[r]
               d == Purge(values)
               a == Assign(d, k, r)
    <3>1. /\ phase[r] = "read" /\ phase' = [phase EXCEPT ![r] = "ended"]
          /\ UNCHANGED <<newest, inherited>> /\ requests' = Purge(requests)
      BY <2>7 DEF Put, Move
    <3>2. CASE Held(requests', k) # r
      <4>1. values' = d
        BY <2>7, <3>2 DEF Put
      <4> QED BY <2>2, <3>1, <4>1 DEF Continuity!Leave
    <3>3. CASE Held(requests', k) = r
      <4>1. values' = Purge(a) /\ newest[k] = r /\ k \in Sessions
        BY <2>7, <3>1, <3>3, HolderIsNewest, StoreAssumption DEF Put
      <4>2. /\ Dict(d) /\ Dict(a) /\ DOMAIN a = DOMAIN d \cup {k} /\ a[k].request = r
            /\ \A s \in DOMAIN d : s # k => a[s] = d[s]
            /\ Within(a, Purge(a))
        <5>1. Dict(d) /\ clock \in Int
          BY PurgesKeep DEF Inv, Types
        <5> HIDE DEF d
        <5>2. /\ Dict(a) /\ DOMAIN a = DOMAIN d \cup {k} /\ a[k].request = r
              /\ \A s \in DOMAIN d : s # k => a[s] = d[s]
          BY <5>1, AssignFacts
        <5> QED BY <5>1, <5>2, PurgeFacts
      <4>3. \A s \in Sessions : s # k => Held(values', s) \in {Held(values, s), None}
        <5>1. \A s \in Sessions : s # k => Held(Purge(a), s) \in {Held(d, s), None}
          BY <4>2 DEF Held, Within
        <5> QED BY <4>1, <5>1, PurgeForgets
      <4>4. Held(values', k) \in {r, None}
        BY <4>1, <4>2 DEF Held, Within
      <4>5. CASE Held(values', k) = r
        BY <3>1, <4>1, <4>3, <4>5 DEF Continuity!Save, Continuity!Move, Continuity!Forgetful
      <4>6. CASE Held(values', k) = None
        BY <3>1, <4>1, <4>3, <4>6 DEF Continuity!Leave, Continuity!Forgetful
      <4> QED BY <4>4, <4>5, <4>6
    <3> QED BY <3>2, <3>3
  <2>8. CASE Tick \/ Rest \/ UNCHANGED vars
    BY <2>3, <2>8 DEF Tick, Rest, vars, storeVars, Continuity!vars, Stored
  <2> QED BY <2>1, <2>4, <2>5, <2>6, <2>7, <2>8 DEF Next, Continuity!Next, Stored
<1> QED BY <1>1, <1>2, Invariance, PTL DEF Spec, ImplementsContinuity, Continuity!Spec, Stored
=============================================================================
