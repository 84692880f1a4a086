------------------------- MODULE RequestServiceProofs -------------------------
(***************************************************************************)
(* Proofs about RequestService, for any number of requests, clients and    *)
(* credentials, any bounds and any times: circuit breakers are consistent  *)
(* and belong to their credential; slots are accounted for and handed on;  *)
(* the rate limiter bounds what it admits and refuses with cause.          *)
(***************************************************************************)
EXTENDS RequestService, FiniteSetTheorems, TLAPS

Phases == {"new", "queued"} \cup Holding \cup Final

RegistryEntry == [key : Credentials, breaker : Requests]

\* The types the arguments need.
ProviderTypes ==
  /\ clock \in Nat /\ phase \in [Requests -> Phases]
  /\ registry \in Seq(RegistryEntry)
  /\ breakers \in [Requests -> Breaker]
  /\ mine \in [Requests -> Requests \cup {None}]
  /\ failedAt \in [Credentials -> Int]

\* A registered breaker was made for its key, a model holds a breaker of its own
\* credential, and whoever is in a call has a model.
ByCredential ==
  /\ \A i \in DOMAIN registry : registry[i].key = Credential[registry[i].breaker]
  /\ \A r \in Requests :
       /\ mine[r] # None => Credential[r] # NoKey /\ Credential[mine[r]] = Credential[r]
       /\ phase[r] = "calling" => mine[r] # None

\* An open breaker opened when a call with its credential failed, or before the
\* last time that one did, and never in the future.
OpenedByFailure ==
  \A q \in Requests : breakers[q].opened # Closed =>
    /\ Credential[q] # NoKey
    /\ breakers[q].opened <= failedAt[Credential[q]]
    /\ breakers[q].opened <= clock

IInv == ProviderTypes /\ ByCredential /\ OpenedByFailure /\ BreakersConsistent

-----------------------------------------------------------------------------
\* Registering key for breaker b: every entry was there or is the new one, and
\* there is one for key.
LEMMA RegisterFacts ==
  ASSUME NEW reg \in Seq(RegistryEntry), NEW key \in Credentials, NEW b \in Requests
  PROVE  /\ Register(reg, key, b) \in Seq(RegistryEntry)
         /\ \A i \in DOMAIN Register(reg, key, b) :
              \/ Register(reg, key, b)[i] = [key |-> key, breaker |-> b]
              \/ \E j \in DOMAIN reg : Register(reg, key, b)[i] = reg[j]
         /\ \E i \in DOMAIN Register(reg, key, b) : Register(reg, key, b)[i].key = key
<1> DEFINE e == [key |-> key, breaker |-> b]
           kept == SubSeq(reg, Len(reg) - MaxBreakers + 2, Len(reg))
<1>0. e \in RegistryEntry /\ e.key = key
  BY DEF RegistryEntry
<1>1. CASE Registered(reg, key)
  BY <1>1 DEF Register, Registered
<1>2. CASE ~ Registered(reg, key) /\ Len(reg) < MaxBreakers
  <2>1. Register(reg, key, b) = Append(reg, e)
    BY <1>2 DEF Register
  <2>2. QED
    BY <2>1, <1>0
<1>3. CASE ~ Registered(reg, key) /\ ~ Len(reg) < MaxBreakers
  <2>1. Register(reg, key, b) = Append(kept, e)
    BY <1>3 DEF Register
  <2>2. Len(reg) - MaxBreakers + 2 \in Nat \ {0} /\ MaxBreakers \in Nat \ {0}
    BY <1>3, BreakerAssumption
  <2>3. /\ kept \in Seq(RegistryEntry)
        /\ \A i \in DOMAIN kept :
             /\ i + (Len(reg) - MaxBreakers + 1) \in DOMAIN reg
             /\ kept[i] = reg[i + (Len(reg) - MaxBreakers + 1)]
    BY <2>2
  <2> HIDE DEF kept, e
  <2>4. /\ Append(kept, e) \in Seq(RegistryEntry)
        /\ DOMAIN Append(kept, e) = 1 .. Len(kept) + 1
        /\ Append(kept, e)[Len(kept) + 1] = e
        /\ \A i \in DOMAIN kept : Append(kept, e)[i] = kept[i]
        /\ DOMAIN kept = 1 .. Len(kept) /\ Len(kept) \in Nat
    BY <2>3, <1>0
  <2>5. \A i \in DOMAIN Append(kept, e) : i \in DOMAIN kept \/ i = Len(kept) + 1
    BY <2>4
  <2>6. QED
    BY <2>1, <2>3, <2>4, <2>5, <1>0 DEF e
<1>4. QED
  BY <1>1, <1>2, <1>3

\* Handing a slot on starts no call.
LEMMA WakeNextPhase ==
  ASSUME NEW f, NEW q, NEW p \in [Requests -> Phases], WakeNext(f, q, p)
  PROVE  /\ phase' \in [Requests -> Phases]
         /\ \A x \in Requests : phase'[x] = "calling" => p[x] = "calling"
BY DEF WakeNext, Phases, Holding

\* The response drops the model and starts no call.
LEMMA LeaveFacts ==
  ASSUME ProviderTypes, ByCredential, NEW r \in Requests, Leave(r)
  PROVE  /\ phase' \in [Requests -> Phases]
         /\ \A x \in Requests : phase'[x] = "calling" => x # r /\ phase[x] = "calling"
         /\ mine' = [mine EXCEPT ![r] = None]
<1>1. [phase EXCEPT ![r] = "answered"] \in [Requests -> Phases]
  BY DEF ProviderTypes, Phases, Final
<1>2. /\ phase' \in [Requests -> Phases]
      /\ \A x \in Requests :
           phase'[x] = "calling" => [phase EXCEPT ![r] = "answered"][x] = "calling"
  <2>1. WakeNext(free + 1, queue, [phase EXCEPT ![r] = "answered"])
    BY DEF Leave
  <2>2. QED
    BY <1>1, <2>1, WakeNextPhase
<1>3. \A x \in Requests :
        [phase EXCEPT ![r] = "answered"][x] = "calling" => x # r /\ phase[x] = "calling"
  BY DEF ProviderTypes
<1>4. QED
  BY <1>2, <1>3 DEF Leave

\* What a step must do to the phases and models for ByCredential to stand, when
\* it leaves the registry alone.
LEMMA ModelsKept ==
  ASSUME ProviderTypes, ByCredential, UNCHANGED registry,
         phase' \in [Requests -> Phases],
         NEW r \in Requests, mine' \in {mine, [mine EXCEPT ![r] = None]},
         \A x \in Requests : phase'[x] = "calling" =>
           mine'[x] # None \/ (phase[x] = "calling" /\ mine'[x] = mine[x])
  PROVE  ByCredential' /\ mine' \in [Requests -> Requests \cup {None}]
BY DEF ProviderTypes, ByCredential

\* A step that leaves clock, breakers and failures alone keeps the rest.
LEMMA BreakersKept ==
  ASSUME OpenedByFailure, BreakersConsistent, UNCHANGED <<clock, breakers, failedAt>>
  PROVE  OpenedByFailure' /\ BreakersConsistent'
BY DEF OpenedByFailure, BreakersConsistent

\* The invariant holds before the first request.
LEMMA InvInit == Init => IInv
<1> SUFFICES ASSUME Init PROVE IInv
  OBVIOUS
<1>1. ProviderTypes
  BY DEF Init, ProviderTypes, Phases, Holding, Final, RegistryEntry, Breaker, Fresh
<1>2. ByCredential
  BY DEF Init, ByCredential
<1>3. OpenedByFailure /\ BreakersConsistent
  BY BreakerAssumption DEF Init, OpenedByFailure, BreakersConsistent, Fresh
<1>4. QED
  BY <1>1, <1>2, <1>3 DEF IInv

\* After a failed or refused call the request goes on or leaves.
LEMMA AfterErrorFacts ==
  ASSUME ProviderTypes, ByCredential, NEW r \in Requests, NEW call, AfterProviderError(r, call)
  PROVE  /\ phase' \in [Requests -> Phases]
         /\ mine' \in {mine, [mine EXCEPT ![r] = None]}
         /\ \A x \in Requests : phase'[x] = "calling" => x # r /\ phase[x] = "calling"
BY LeaveFacts DEF AfterProviderError, ProviderTypes, Phases, Holding, Final

-----------------------------------------------------------------------------
\* Every step of a request keeps the invariant.
LEMMA InvNext == IInv /\ [Next]_vars => IInv'
<1> SUFFICES ASSUME IInv, [Next]_vars PROVE IInv'
  OBVIOUS
<1> USE DEF IInv
<1> DEFINE Quiet(r) == /\ UNCHANGED <<clock, breakerVars>>
                       /\ phase' \in [Requests -> Phases]
                       /\ mine' \in {mine, [mine EXCEPT ![r] = None]}
                       /\ \A x \in Requests : phase'[x] = "calling" =>
                            phase[x] = "calling" /\ mine'[x] = mine[x]
<1>0. ASSUME NEW r \in Requests, Quiet(r) PROVE IInv'
  <2>1. ByCredential' /\ mine' \in [Requests -> Requests \cup {None}]
    BY <1>0, ModelsKept DEF breakerVars
  <2>2. ProviderTypes'
    BY <1>0, <2>1 DEF ProviderTypes, breakerVars
  <2>3. QED
    BY <1>0, <2>1, <2>2, BreakersKept DEF breakerVars
<1>1. ASSUME NEW r \in Requests, Arrive(r) PROVE IInv'
  <2>1. Quiet(r)
    BY <1>1 DEF Arrive, Acquire, ProviderTypes, Phases, Holding, Final, modelVars, breakerVars
  <2>2. QED
    BY <2>1, <1>0
<1>2. ASSUME NEW r \in Requests, QueueTimeout(r) PROVE IInv'
  <2>1. Quiet(r)
    BY <1>2, LeaveFacts DEF QueueTimeout, ProviderTypes, Phases, Holding, Final, breakerVars
  <2>2. QED
    BY <2>1, <1>0
<1>3. ASSUME NEW r \in Requests, Resume(r) PROVE IInv'
  <2>1. [phase EXCEPT ![r] = "reading"] \in [Requests -> Phases]
    BY DEF ProviderTypes, Phases, Holding
  <2>2. Quiet(r)
    BY <1>3, <2>1, WakeNextPhase DEF Resume, ProviderTypes, modelVars
  <2>3. QED
    BY <2>2, <1>0
<1>4. ASSUME NEW r \in Requests, ReadBody(r) \/ BodyFails(r) \/ Answer(r) PROVE IInv'
  <2>1. Quiet(r)
    BY <1>4, LeaveFacts DEF ReadBody, BodyFails, Answer, ProviderTypes, Phases, Holding, Final, modelVars, breakerVars
  <2>2. QED
    BY <2>1, <1>0
<1>5. ASSUME NEW r \in Requests, CallRefused(r) \/ CallEscapes(r) PROVE IInv'
  <2>1. Quiet(r)
    BY <1>5, LeaveFacts, AfterErrorFacts
       DEF CallRefused, CallEscapes, ProviderTypes, Phases, Holding, Final, modelVars, breakerVars
  <2>2. QED
    BY <2>1, <1>0
<1>6. ASSUME NEW r \in Requests, CreateModel(r) PROVE IInv'
  <2> DEFINE c == Credential[r]
  <2>1. c \in Credentials /\ c # NoKey
    BY <1>6 DEF CreateModel, Credentials
  <2>2. /\ registry' \in Seq(RegistryEntry)
        /\ \A i \in DOMAIN registry' :
             \/ registry'[i] = [key |-> c, breaker |-> r]
             \/ \E j \in DOMAIN registry : registry'[i] = registry[j]
        /\ \E i \in DOMAIN registry' : registry'[i].key = c
    BY <1>6, <2>1, RegisterFacts DEF CreateModel, ProviderTypes
  <2>3. \A i \in DOMAIN registry' :
          registry'[i] \in RegistryEntry /\ registry'[i].key = Credential[registry'[i].breaker]
    BY <2>2 DEF ByCredential
  <2>4. \E i \in DOMAIN registry' :
          registry'[i].key = c /\ mine' = [mine EXCEPT ![r] = registry'[i].breaker]
    <3>1. \E e \in {registry'[i] : i \in DOMAIN registry'} : e.key = c
      BY <2>2
    <3>2. \E e \in {registry'[i] : i \in DOMAIN registry'} :
            e.key = c /\ BreakerOf(registry', c) = e.breaker
      BY <3>1 DEF BreakerOf
    <3>3. mine' = [mine EXCEPT ![r] = BreakerOf(registry', c)]
      BY <1>6 DEF CreateModel
    <3>4. QED
      BY <3>2, <3>3
  <2>5. PICK i \in DOMAIN registry' :
          registry'[i].key = c /\ mine' = [mine EXCEPT ![r] = registry'[i].breaker]
    BY <2>4
  <2>6. registry'[i].breaker \in Requests /\ Credential[registry'[i].breaker] = c
    BY <2>3, <2>5 DEF RegistryEntry
  <2>7. UNCHANGED <<clock, phase, breakers, failedAt>> /\ phase[r] = "handling"
    BY <1>6 DEF CreateModel, doorVars
  <2>8. ProviderTypes'
    BY <2>2, <2>5, <2>6, <2>7 DEF ProviderTypes
  <2>9. \A x \in Requests :
          /\ mine'[x] # None => Credential[x] # NoKey /\ Credential[mine'[x]] = Credential[x]
          /\ phase'[x] = "calling" => mine'[x] # None
    <3> SUFFICES ASSUME NEW x \in Requests
                 PROVE  /\ mine'[x] # None => Credential[x] # NoKey /\ Credential[mine'[x]] = Credential[x]
                        /\ phase'[x] = "calling" => mine'[x] # None
      OBVIOUS
    <3>1. CASE x = r
      BY <3>1, <2>1, <2>5, <2>6, <2>7 DEF ProviderTypes
    <3>2. CASE x # r
      BY <3>2, <2>5, <2>7 DEF ProviderTypes, ByCredential
    <3>3. QED
      BY <3>1, <3>2
  <2>10. ByCredential'
    BY <2>3, <2>9 DEF ByCredential
  <2>11. QED
    BY <2>7, <2>8, <2>10, BreakersKept
<1>7. ASSUME NEW r \in Requests, BeginCall(r) PROVE IInv'
  <2>1. mine[r] \in Requests
    BY <1>7 DEF BeginCall, ProviderTypes, Phases, Holding, Final
  <2>2. AfterAllow(breakers[mine[r]], clock) \in {breakers[mine[r]], Fresh}
    BY DEF AfterAllow
  <2>3. ByCredential' /\ ProviderTypes'
    <3>1. ByCredential' /\ mine' \in [Requests -> Requests \cup {None}]
      BY <1>7, ModelsKept DEF BeginCall, ProviderTypes, Phases, Holding, Final
    <3>2. QED
      BY <3>1, <1>7, <2>1, <2>2 DEF BeginCall, ProviderTypes, Phases, Holding, Final, Breaker, Fresh
  <2>4. OpenedByFailure' /\ BreakersConsistent'
    BY <1>7, <2>1, <2>2, BreakerAssumption
       DEF BeginCall, OpenedByFailure, BreakersConsistent, ProviderTypes, Fresh
  <2>5. QED
    BY <2>3, <2>4
<1>8. ASSUME NEW r \in Requests, CallSucceeds(r) PROVE IInv'
  <2>1. mine[r] \in Requests
    BY <1>8 DEF CallSucceeds, ProviderTypes, Phases, Holding, Final, ByCredential
  <2>2. ByCredential' /\ ProviderTypes'
    <3>1. ByCredential' /\ mine' \in [Requests -> Requests \cup {None}]
      BY <1>8, ModelsKept DEF CallSucceeds, ProviderTypes, Phases, Holding, Final
    <3>2. QED
      BY <3>1, <1>8, <2>1 DEF CallSucceeds, ProviderTypes, Phases, Holding, Final, AfterSuccess, Breaker, Fresh
  <2>3. OpenedByFailure' /\ BreakersConsistent'
    BY <1>8, <2>1, BreakerAssumption
       DEF CallSucceeds, OpenedByFailure, BreakersConsistent, ProviderTypes, AfterSuccess, Fresh
  <2>4. QED
    BY <2>2, <2>3
<1>9. ASSUME NEW r \in Requests, CallFails(r) PROVE IInv'
  <2> DEFINE q == mine[r]
             b == AfterFailure(breakers[q], clock)
  <2>1. /\ q \in Requests /\ Credential[r] \in Credentials
        /\ Credential[q] = Credential[r] /\ Credential[r] # NoKey
    BY <1>9 DEF CallFails, ProviderTypes, ByCredential, Credentials
  <2>2. /\ UNCHANGED <<clock, registry>>
        /\ breakers' = [breakers EXCEPT ![q] = b]
        /\ failedAt' = [failedAt EXCEPT ![Credential[r]] = clock]
    BY <1>9 DEF CallFails
  <2>3. /\ breakers[q] \in Breaker /\ b \in Breaker
        /\ b.failures = breakers[q].failures + 1
        /\ b.opened = IF b.failures >= Threshold THEN clock ELSE breakers[q].opened
    BY <2>1 DEF ProviderTypes, AfterFailure, Breaker
  <2> HIDE DEF b
  <2>4. /\ phase' \in [Requests -> Phases]
        /\ mine' \in {mine, [mine EXCEPT ![r] = None]}
        /\ \A x \in Requests : phase'[x] = "calling" => x # r /\ phase[x] = "calling"
    BY <1>9, AfterErrorFacts DEF CallFails
  <2>5. ByCredential' /\ mine' \in [Requests -> Requests \cup {None}]
    <3>1. \A x \in Requests : phase'[x] = "calling" => phase[x] = "calling" /\ mine'[x] = mine[x]
      BY <2>4 DEF ProviderTypes
    <3>2. QED
      BY <3>1, <2>2, <2>4, ModelsKept
  <2>6. ProviderTypes'
    <3>1. breakers' \in [Requests -> Breaker] /\ failedAt' \in [Credentials -> Int]
      BY <2>1, <2>2, <2>3 DEF ProviderTypes
    <3>2. QED
      BY <2>2, <2>4, <2>5, <3>1 DEF ProviderTypes
  <2>7. BreakersConsistent'
    <3> SUFFICES ASSUME NEW x \in Requests
                 PROVE  breakers'[x].opened # Closed <=> breakers'[x].failures >= Threshold
      BY DEF BreakersConsistent
    <3>1. CASE x = q
      <4>1. breakers'[x] = b /\ (breakers[q].opened # Closed <=> breakers[q].failures >= Threshold)
        BY <3>1, <2>1, <2>2 DEF ProviderTypes, BreakersConsistent
      <4>2. breakers[q].failures \in Nat /\ clock \in Nat
        BY <2>3 DEF ProviderTypes, Breaker
      <4>3. QED
        BY <4>1, <4>2, <2>3, BreakerAssumption
    <3>2. CASE x # q
      BY <3>2, <2>2 DEF ProviderTypes, BreakersConsistent
    <3>3. QED
      BY <3>1, <3>2
  <2>8. OpenedByFailure'
    <3> SUFFICES ASSUME NEW x \in Requests, breakers'[x].opened # Closed
                 PROVE  /\ Credential[x] # NoKey
                        /\ breakers'[x].opened <= failedAt'[Credential[x]]
                        /\ breakers'[x].opened <= clock'
      BY DEF OpenedByFailure
    <3>1. CASE x = q
      <4>1. breakers'[x] = b /\ failedAt'[Credential[x]] = clock /\ clock' = clock /\ clock \in Nat
        BY <3>1, <2>1, <2>2 DEF ProviderTypes
      <4>2. b.opened <= clock
        BY <3>1, <4>1, <2>1, <2>3 DEF OpenedByFailure
      <4>3. QED
        BY <3>1, <4>1, <4>2, <2>1
    <3>2. CASE x # q
      <4>1. breakers'[x] = breakers[x] /\ clock' = clock
        BY <3>2, <2>2 DEF ProviderTypes
      <4>2. /\ Credential[x] \in Credentials /\ Credential[x] # NoKey
            /\ breakers[x].opened <= failedAt[Credential[x]]
            /\ breakers[x].opened <= clock
        BY <4>1 DEF OpenedByFailure, Credentials
      <4>3. failedAt'[Credential[x]] \in {failedAt[Credential[x]], clock}
        BY <2>2, <4>2 DEF ProviderTypes
      <4>4. QED
        BY <4>1, <4>2, <4>3
    <3>3. QED
      BY <3>1, <3>2
  <2>9. QED
    BY <2>5, <2>6, <2>7, <2>8
<1>10. CASE Tick
  <2>1. ByCredential' /\ BreakersConsistent'
    BY <1>10 DEF Tick, ByCredential, BreakersConsistent, doorVars, modelVars, breakerVars
  <2>2. ProviderTypes'
    BY <1>10 DEF Tick, ProviderTypes, doorVars, modelVars, breakerVars
  <2>3. \A q \in Requests : breakers[q].opened \in Nat \cup {Closed}
    BY DEF ProviderTypes, Breaker
  <2>4. OpenedByFailure'
    BY <1>10, <2>3 DEF Tick, OpenedByFailure, ProviderTypes, breakerVars
  <2>5. QED
    BY <2>1, <2>2, <2>4
<1>11. CASE UNCHANGED vars
  <2>1. ByCredential' /\ ProviderTypes'
    BY <1>11 DEF vars, ByCredential, ProviderTypes, doorVars, modelVars, breakerVars
  <2>2. QED
    BY <1>11, <2>1, BreakersKept DEF vars, breakerVars
<1>12. QED
  BY <1>1, <1>2, <1>3, <1>4, <1>5, <1>6, <1>7, <1>8, <1>9, <1>10, <1>11
     DEF Next, Serve, Rest

\* The invariant holds throughout.
LEMMA Invariance == Spec => []IInv
BY InvInit, InvNext, PTL DEF Spec

\* Calls that overlap the opening of their circuit, and finish in any order,
\* leave the count and the circuit in agreement (provider.py:39-58).
THEOREM BreakersAreConsistent == Spec => []BreakersConsistent
BY Invariance, PTL DEF IInv

\* The provenance of breakers gives the isolation of credentials.
LEMMA OwnFailures == IInv => OwnFailuresOnly
<1> SUFFICES ASSUME IInv, NEW r \in Requests, mine[r] # None, Refuses(breakers[mine[r]], clock)
             PROVE  /\ failedAt[Credential[r]] >= 0
                    /\ clock < failedAt[Credential[r]] + ResetAfter
  BY DEF OwnFailuresOnly
<1>1. mine[r] \in Requests /\ Credential[mine[r]] = Credential[r] /\ Credential[r] \in Credentials
  BY DEF IInv, ProviderTypes, ByCredential, Credentials
<1>2. /\ breakers[mine[r]].opened \in Nat /\ clock - breakers[mine[r]].opened < ResetAfter
      /\ breakers[mine[r]].opened <= failedAt[Credential[r]]
  BY <1>1 DEF Refuses, IInv, ProviderTypes, OpenedByFailure, Breaker
<1>3. failedAt[Credential[r]] \in Int /\ clock \in Nat /\ ResetAfter \in Nat
  BY <1>1, BreakerAssumption DEF IInv, ProviderTypes
<1>4. QED
  BY <1>2, <1>3

\* A circuit is open to a request only because of its own credential's failures,
\* whatever the registry evicts in the meantime (provider.py:166-185).
THEOREM RefusedForOwnFailures == Spec => []OwnFailuresOnly
BY Invariance, OwnFailures, PTL

-----------------------------------------------------------------------------
(***************************************************************************)
(* The semaphore.                                                          *)
(***************************************************************************)

Waiting == {"queued"}

\* r moves to another phase.
Becomes(p, r, to, p1) ==
  p \in [Requests -> Phases] /\ r \in Requests /\ to \in Phases /\ p1 = [p EXCEPT ![r] = to]

\* The requests with one of these phases.
Of(p, kinds) == {r \in Requests : p[r] \in kinds}

\* f free slots, waiters q and phases p add up; nobody waits twice.
Accounted(f, q, p) ==
  /\ f \in Nat /\ q \in Seq(Requests) /\ p \in [Requests -> Phases]
  /\ IsFiniteSet(Of(p, Holding)) /\ f + Cardinality(Of(p, Holding)) = Slots
  /\ IsFiniteSet(Of(p, Waiting)) /\ Len(q) = Cardinality(Of(p, Waiting))
  /\ {q[i] : i \in DOMAIN q} = Of(p, Waiting)
  /\ \A i, j \in DOMAIN q : q[i] = q[j] => i = j

DoorInv == Accounted(free, queue, phase) /\ NoIdleSlot

\* The requests with a phase of kinds, when r moves within, out of or into kinds.
LEMMA Same ==
  ASSUME NEW p, NEW r, NEW to, NEW p1, Becomes(p, r, to, p1), NEW kinds,
         p[r] \in kinds <=> to \in kinds
  PROVE  p1 \in [Requests -> Phases] /\ Of(p1, kinds) = Of(p, kinds)
BY DEF Of, Becomes

\* r leaves kinds: one fewer.
LEMMA OneLess ==
  ASSUME NEW p, NEW r, NEW to, NEW p1, Becomes(p, r, to, p1), NEW kinds,
         IsFiniteSet(Of(p, kinds)), p[r] \in kinds, to \notin kinds
  PROVE  /\ p1 \in [Requests -> Phases] /\ Of(p1, kinds) = Of(p, kinds) \ {r}
         /\ IsFiniteSet(Of(p1, kinds)) /\ Cardinality(Of(p, kinds)) \in Nat
         /\ Cardinality(Of(p1, kinds)) = Cardinality(Of(p, kinds)) - 1
<1> DEFINE S == Of(p, kinds)
<1>1. p1 \in [Requests -> Phases] /\ Of(p1, kinds) = S \ {r} /\ r \in S
  BY DEF Of, Becomes
<1>2. IsFiniteSet(S)
  OBVIOUS
<1> HIDE DEF S
<1>3. Cardinality(S) \in Nat
  BY <1>2, FS_CardinalityType
<1>4. IsFiniteSet(S \ {r}) /\ Cardinality(S \ {r}) = Cardinality(S) - 1
  BY <1>1, <1>2, FS_RemoveElement
<1> QED BY <1>1, <1>3, <1>4 DEF S

\* r enters kinds: one more.
LEMMA OneMore ==
  ASSUME NEW p, NEW r, NEW to, NEW p1, Becomes(p, r, to, p1), NEW kinds,
         IsFiniteSet(Of(p, kinds)), p[r] \notin kinds, to \in kinds
  PROVE  /\ p1 \in [Requests -> Phases] /\ Of(p1, kinds) = Of(p, kinds) \cup {r}
         /\ IsFiniteSet(Of(p1, kinds)) /\ Cardinality(Of(p, kinds)) \in Nat
         /\ Cardinality(Of(p1, kinds)) = Cardinality(Of(p, kinds)) + 1
<1> DEFINE S == Of(p, kinds)
<1>1. p1 \in [Requests -> Phases] /\ Of(p1, kinds) = S \cup {r} /\ r \notin S
  BY DEF Of, Becomes
<1>2. IsFiniteSet(S)
  OBVIOUS
<1> HIDE DEF S
<1>3. Cardinality(S) \in Nat
  BY <1>2, FS_CardinalityType
<1>4. IsFiniteSet(S \cup {r}) /\ Cardinality(S \cup {r}) = Cardinality(S) + 1
  BY <1>1, <1>2, FS_AddElement
<1> QED BY <1>1, <1>3, <1>4 DEF S

\* Which phases hold a slot.
LEMMA PhaseFacts ==
  /\ "new" \notin Holding /\ "queued" \notin Holding
  /\ "answered" \notin Holding /\ "limited" \notin Holding
  /\ "granted" \in Holding /\ "reading" \in Holding /\ "handling" \in Holding /\ "calling" \in Holding
  /\ "queued" \in Phases /\ "answered" \in Phases /\ "limited" \in Phases
  /\ Holding \subseteq Phases
  /\ "queued" \in Waiting /\ Waiting \cap Holding = {} /\ \A x \in Waiting : x = "queued"
BY DEF Holding, Phases, Final, Waiting

\* A request that neither takes nor gives back a slot, nor begins or ends to wait.
LEMMA Stays ==
  ASSUME NEW f, NEW q, NEW p, Accounted(f, q, p),
         NEW r, NEW to, NEW p1, Becomes(p, r, to, p1),
         p[r] \in Holding <=> to \in Holding, p[r] # "queued", to # "queued"
  PROVE  Accounted(f, q, p1)
<1>1. p1 \in [Requests -> Phases] /\ Of(p1, Holding) = Of(p, Holding)
  BY Same
<1>2. Of(p1, Waiting) = Of(p, Waiting)
  BY Same, PhaseFacts
<1> QED BY <1>1, <1>2 DEF Accounted

\* A slot is taken by a request that was not waiting.
LEMMA Takes ==
  ASSUME NEW f, NEW q, NEW p, Accounted(f, q, p), f > 0,
         NEW r, NEW p1, Becomes(p, r, "reading", p1), p[r] = "new"
  PROVE  Accounted(f - 1, q, p1)
<1>1. IsFiniteSet(Of(p, Holding))
  BY DEF Accounted
<1>2. Of(p1, Waiting) = Of(p, Waiting)
  BY PhaseFacts, Same
<1>3. /\ p1 \in [Requests -> Phases] /\ IsFiniteSet(Of(p1, Holding))
      /\ Cardinality(Of(p, Holding)) \in Nat
      /\ Cardinality(Of(p1, Holding)) = Cardinality(Of(p, Holding)) + 1
  BY <1>1, PhaseFacts, OneMore
<1> QED BY <1>2, <1>3, ServiceAssumption DEF Accounted

\* A slot is given back by whoever held it.
LEMMA GivesBack ==
  ASSUME NEW f, NEW q, NEW p, Accounted(f, q, p),
         NEW r, NEW p1, Becomes(p, r, "answered", p1), p[r] \in Holding
  PROVE  Accounted(f + 1, q, p1)
<1>1. IsFiniteSet(Of(p, Holding))
  BY DEF Accounted
<1>2. Of(p1, Waiting) = Of(p, Waiting)
  BY PhaseFacts, Same
<1>3. /\ p1 \in [Requests -> Phases] /\ IsFiniteSet(Of(p1, Holding))
      /\ Cardinality(Of(p, Holding)) \in Nat
      /\ Cardinality(Of(p1, Holding)) = Cardinality(Of(p, Holding)) - 1
  BY <1>1, PhaseFacts, OneLess
<1> QED BY <1>2, <1>3, ServiceAssumption DEF Accounted

\* A newcomer waits at the end of the queue.
LEMMA Waits ==
  ASSUME NEW f, NEW q, NEW p, Accounted(f, q, p),
         NEW r, NEW p1, Becomes(p, r, "queued", p1), p[r] = "new"
  PROVE  Accounted(f, Append(q, r), p1)
<1> DEFINE q1 == Append(q, r)
<1>1. r \in Requests /\ q \in Seq(Requests) /\ IsFiniteSet(Of(p, Waiting))
  BY DEF Accounted, Becomes
<1>2. p1 \in [Requests -> Phases] /\ Of(p1, Holding) = Of(p, Holding)
  BY PhaseFacts, Same
<1>3. /\ Of(p1, Waiting) = Of(p, Waiting) \cup {r} /\ IsFiniteSet(Of(p1, Waiting))
      /\ Cardinality(Of(p1, Waiting)) = Cardinality(Of(p, Waiting)) + 1
  BY <1>1, PhaseFacts, OneMore
<1>4. /\ q1 \in Seq(Requests) /\ Len(q1) = Len(q) + 1 /\ DOMAIN q1 = 1 .. Len(q) + 1
      /\ q1[Len(q) + 1] = r /\ \A i \in DOMAIN q : q1[i] = q[i]
      /\ DOMAIN q = 1 .. Len(q) /\ Len(q) \in Nat
  BY <1>1
<1>5. \A i \in DOMAIN q : q[i] # r
  BY DEF Accounted, Of, Waiting
<1> HIDE DEF q1
<1>6. {q1[i] : i \in DOMAIN q1} = {q[i] : i \in DOMAIN q} \cup {r}
  BY <1>4
<1>7. \A i, j \in DOMAIN q1 : q1[i] = q1[j] => i = j
  BY <1>4, <1>5 DEF Accounted
<1> QED BY <1>2, <1>3, <1>4, <1>6, <1>7 DEF Accounted, q1

\* The first waiter is granted a slot.
LEMMA Wakes ==
  ASSUME NEW f, NEW q, NEW p, Accounted(f, q, p), f > 0, q # <<>>,
         NEW p1, Becomes(p, Head(q), "granted", p1)
  PROVE  Head(q) \in Requests /\ Accounted(f - 1, Tail(q), p1)
<1> DEFINE r == Head(q)
           q1 == Tail(q)
<1>1. /\ q \in Seq(Requests) /\ f \in Nat
      /\ IsFiniteSet(Of(p, Waiting)) /\ IsFiniteSet(Of(p, Holding))
  BY PhaseFacts DEF Accounted
<1>2. /\ q1 \in Seq(Requests) /\ Len(q1) = Len(q) - 1 /\ DOMAIN q1 = 1 .. Len(q) - 1
      /\ 1 \in DOMAIN q /\ r = q[1] /\ \A i \in DOMAIN q1 : i + 1 \in DOMAIN q /\ q1[i] = q[i + 1]
      /\ DOMAIN q = 1 .. Len(q) /\ Len(q) \in Nat
  BY <1>1
<1> HIDE DEF r, q1
<1>3. r \in Requests /\ p[r] = "queued"
  <2>1. r \in Of(p, Waiting)
    BY <1>2 DEF Accounted
  <2> QED BY <2>1 DEF Of, Waiting
<1>4. Becomes(p, r, "granted", p1)
  BY DEF r
<1>5. /\ p1 \in [Requests -> Phases] /\ IsFiniteSet(Of(p1, Holding))
      /\ Cardinality(Of(p, Holding)) \in Nat
      /\ Cardinality(Of(p1, Holding)) = Cardinality(Of(p, Holding)) + 1
  BY <1>1, <1>3, <1>4, PhaseFacts, OneMore
<1>6. /\ Of(p1, Waiting) = Of(p, Waiting) \ {r} /\ IsFiniteSet(Of(p1, Waiting))
      /\ Cardinality(Of(p1, Waiting)) = Cardinality(Of(p, Waiting)) - 1
  BY <1>1, <1>3, <1>4, PhaseFacts, OneLess
<1>7. {q1[i] : i \in DOMAIN q1} = {q[i] : i \in DOMAIN q} \ {r}
  <2>1. \A i \in DOMAIN q1 : q1[i] # r
    BY <1>2 DEF Accounted
  <2>2. \A i \in DOMAIN q : q[i] # r => i - 1 \in DOMAIN q1 /\ q1[i - 1] = q[i]
    BY <1>2
  <2> QED BY <1>2, <2>1, <2>2
<1>8. \A i, j \in DOMAIN q1 : q1[i] = q1[j] => i = j
  BY <1>2 DEF Accounted
<1>9. Accounted(f - 1, q1, p1)
  <2>1. f - 1 \in Nat /\ f - 1 + Cardinality(Of(p1, Holding)) = Slots
    BY <1>1, <1>5, ServiceAssumption DEF Accounted
  <2>2. Len(q1) = Cardinality(Of(p1, Waiting))
    BY <1>2, <1>6 DEF Accounted
  <2>3. {q1[i] : i \in DOMAIN q1} = Of(p1, Waiting)
    BY <1>6, <1>7 DEF Accounted
  <2> QED BY <1>2, <1>5, <1>6, <1>8, <2>1, <2>2, <2>3 DEF Accounted
<1> QED BY <1>3, <1>9 DEF r, q1

\* A waiter gives up, wherever it stands in the queue.
LEMMA GivesUp ==
  ASSUME NEW f, NEW q, NEW p, Accounted(f, q, p), NEW k \in DOMAIN q,
         NEW p1, Becomes(p, q[k], "answered", p1)
  PROVE  Accounted(f, Without(q, k), p1)
<1> DEFINE r == q[k]
           q1 == Without(q, k)
<1>1. q \in Seq(Requests) /\ IsFiniteSet(Of(p, Waiting))
  BY PhaseFacts DEF Accounted
<1>2. r \in Requests /\ p[r] = "queued"
  <2>1. r \in Of(p, Waiting)
    BY DEF Accounted
  <2> QED BY <2>1 DEF Of, Waiting
<1>3. /\ DOMAIN q = 1 .. Len(q) /\ Len(q) \in Nat /\ Len(q) - 1 \in Nat
      /\ q1 = [n \in 1 .. Len(q) - 1 |-> IF n < k THEN q[n] ELSE q[n + 1]]
  BY <1>1 DEF Without
<1>4. /\ \A n \in 1 .. Len(q) - 1 : q1[n] \in Requests
      /\ q1 \in [1 .. Len(q) - 1 -> Requests]
  BY <1>1, <1>3
<1>5. q1 \in Seq(Requests) /\ Len(q1) = Len(q) - 1 /\ DOMAIN q1 = 1 .. Len(q) - 1
  BY <1>3, <1>4
<1> HIDE DEF r, q1
<1>6. Becomes(p, r, "answered", p1)
  BY DEF r
<1>7. Of(p1, Holding) = Of(p, Holding)
  BY <1>2, <1>6, PhaseFacts, Same
<1>8. /\ p1 \in [Requests -> Phases]
      /\ Of(p1, Waiting) = Of(p, Waiting) \ {r} /\ IsFiniteSet(Of(p1, Waiting))
      /\ Cardinality(Of(p1, Waiting)) = Cardinality(Of(p, Waiting)) - 1
  BY <1>1, <1>2, <1>6, PhaseFacts, OneLess
<1>9. {q1[i] : i \in DOMAIN q1} = {q[i] : i \in DOMAIN q} \ {r}
  <2>1. \A i \in DOMAIN q1 : q1[i] # r /\ \E j \in DOMAIN q : q1[i] = q[j]
    BY <1>3, <1>5 DEF Accounted, r
  <2>2. ASSUME NEW i \in DOMAIN q, q[i] # r PROVE \E j \in DOMAIN q1 : q1[j] = q[i]
    <3>1. CASE i < k
      BY <1>3, <1>5, <3>1
    <3>2. CASE i > k
      <4>1. i - 1 \in DOMAIN q1 /\ q1[i - 1] = q[i]
        BY <1>3, <1>5, <3>2
      <4> QED BY <4>1
    <3> QED BY <1>3, <2>2, <3>1, <3>2 DEF r
  <2> QED BY <2>1, <2>2
<1>10. \A i, j \in DOMAIN q1 : q1[i] = q1[j] => i = j
  BY <1>3, <1>5 DEF Accounted
<1> QED BY <1>5, <1>7, <1>8, <1>9, <1>10 DEF Accounted, q1

-----------------------------------------------------------------------------
\* Waking the next waiter leaves no slot idle behind it.
LEMMA WakeNextKeeps ==
  ASSUME NEW f, NEW q, NEW p, Accounted(f, q, p), WakeNext(f, q, p)
  PROVE  DoorInv'
<1>1. CASE f > 0 /\ q # <<>>
  <2>1. free' = f - 1 /\ queue' = Tail(q) /\ phase' = [p EXCEPT ![Head(q)] = "granted"]
    BY <1>1 DEF WakeNext
  <2>2. Head(q) \in Requests /\ p \in [Requests -> Phases]
    BY <1>1 DEF Accounted
  <2>3. Becomes(p, Head(q), "granted", phase')
    BY <2>1, <2>2, PhaseFacts DEF Becomes
  <2>4. Accounted(free', queue', phase')
    BY <1>1, <2>1, <2>3, Wakes
  <2>5. phase'[Head(q)] = "granted"
    BY <2>1, <2>2
  <2>6. NoIdleSlot'
    BY <2>2, <2>5 DEF NoIdleSlot, In
  <2> QED BY <2>4, <2>6 DEF DoorInv
<1>2. CASE ~(f > 0 /\ q # <<>>)
  <2>1. free' = f /\ queue' = q /\ phase' = p
    BY <1>2 DEF WakeNext
  <2> QED BY <1>2, <2>1 DEF DoorInv, NoIdleSlot
<1> QED BY <1>1, <1>2

\* However a request leaves, its slot comes back once.
LEMMA LeaveKeeps ==
  ASSUME DoorInv, NEW r \in Requests, phase[r] \in Holding, Leave(r)
  PROVE  DoorInv'
<1> DEFINE p1 == [phase EXCEPT ![r] = "answered"]
<1>1. Becomes(phase, r, "answered", p1)
  BY PhaseFacts DEF DoorInv, Accounted, Becomes
<1>2. Accounted(free + 1, queue, p1)
  BY <1>1, GivesBack DEF DoorInv
<1>3. WakeNext(free + 1, queue, p1)
  BY DEF Leave
<1> QED BY <1>2, <1>3, WakeNextKeeps

\* A request that moves on with its slot.
LEMMA MoveKeeps ==
  ASSUME DoorInv, NEW r \in Requests, NEW to \in Phases, UNCHANGED <<free, queue>>,
         phase' = [phase EXCEPT ![r] = to], phase[r] # "granted", phase[r] # "queued",
         to # "queued", phase[r] \in Holding <=> to \in Holding
  PROVE  DoorInv'
<1>1. Becomes(phase, r, to, phase')
  BY DEF DoorInv, Accounted, Becomes
<1>2. Accounted(free', queue', phase')
  BY <1>1, Stays DEF DoorInv
<1>3. \A x \in Requests : phase[x] = "granted" => phase'[x] = "granted"
  BY DEF DoorInv, Accounted
<1>4. NoIdleSlot'
  BY <1>3 DEF DoorInv, NoIdleSlot, In
<1> QED BY <1>2, <1>4 DEF DoorInv

\* At first every slot is free and nobody waits.
LEMMA DoorInit == Init => DoorInv
<1> SUFFICES ASSUME Init PROVE DoorInv
  OBVIOUS
<1>1. Of(phase, Holding) = {} /\ Of(phase, Waiting) = {}
  BY DEF Init, Of, Holding, Waiting
<1>2. free = Slots /\ queue = <<>> /\ phase \in [Requests -> Phases]
  BY DEF Init, Phases
<1>3. Accounted(free, queue, phase)
  BY <1>1, <1>2, FS_EmptySet, ServiceAssumption DEF Accounted
<1> QED BY <1>2, <1>3 DEF DoorInv, NoIdleSlot

\* Arrivals, grants, timeouts and everything that a request can meet while it holds its
\* slot keep the accounts.
LEMMA DoorNext == DoorInv /\ [Next]_vars => DoorInv'
<1> SUFFICES ASSUME DoorInv, [Next]_vars PROVE DoorInv'
  OBVIOUS
<1>0. phase \in [Requests -> Phases] /\ Accounted(free, queue, phase) /\ NoIdleSlot
  BY DEF DoorInv, Accounted
<1>1. ASSUME NEW r \in Requests, Arrive(r) PROVE DoorInv'
  <2>1. phase[r] = "new"
    BY <1>1 DEF Arrive
  <2>2. CASE phase' = [phase EXCEPT ![r] = "limited"] /\ UNCHANGED <<free, queue>>
    BY <2>1, <2>2, PhaseFacts, MoveKeeps
  <2>3. CASE Acquire(r) /\ free > 0 /\ In({"queued", "granted"}) = {}
    <3>1. free' = free - 1 /\ queue' = queue /\ phase' = [phase EXCEPT ![r] = "reading"]
      BY <2>3 DEF Acquire
    <3>2. Accounted(free', queue', phase')
      BY <1>0, <2>1, <2>3, <3>1, PhaseFacts, Takes DEF Becomes
    <3>3. queue = <<>>
      <4>1. Of(phase, Waiting) = {}
        BY <2>3 DEF Of, In, Waiting
      <4>2. Len(queue) = 0 /\ queue \in Seq(Requests)
        BY <1>0, <4>1, FS_EmptySet DEF Accounted
      <4> QED BY <4>2
    <3> QED BY <3>1, <3>2, <3>3 DEF DoorInv, NoIdleSlot
  <2>4. CASE Acquire(r) /\ ~(free > 0 /\ In({"queued", "granted"}) = {})
    <3>1. UNCHANGED free /\ queue' = Append(queue, r) /\ phase' = [phase EXCEPT ![r] = "queued"]
      BY <2>4 DEF Acquire
    <3>2. Accounted(free', queue', phase')
      BY <1>0, <2>1, <3>1, PhaseFacts, Waits DEF Becomes
    <3>3. ASSUME free > 0 PROVE \E x \in Requests : phase'[x] = "granted"
      <4>1. PICK x \in Requests : phase[x] \in {"queued", "granted"}
        BY <2>4, <3>3 DEF In
      <4>2. CASE phase[x] = "queued"
        <5>1. x \in Of(phase, Waiting)
          BY <4>2 DEF Of, Waiting
        <5>2. queue # <<>>
          BY <1>0, <5>1 DEF Accounted
        <5>3. PICK y \in Requests : phase[y] = "granted"
          BY <1>0, <3>3, <5>2 DEF NoIdleSlot, In
        <5> QED BY <1>0, <2>1, <3>1, <5>3
      <4>3. CASE phase[x] = "granted"
        BY <1>0, <2>1, <3>1, <4>3
      <4> QED BY <4>1, <4>2, <4>3
    <3>4. NoIdleSlot'
      BY <3>1, <3>3 DEF NoIdleSlot, In
    <3> QED BY <3>2, <3>4 DEF DoorInv
  <2> QED BY <1>1, <2>2, <2>3, <2>4 DEF Arrive
<1>2. ASSUME NEW r \in Requests, QueueTimeout(r) PROVE DoorInv'
  <2>1. CASE phase[r] = "granted" /\ Leave(r)
    BY <2>1, PhaseFacts, LeaveKeeps
  <2>2. CASE phase[r] # "granted"
    <3>1. PICK i \in DOMAIN queue :
             /\ phase[r] = "queued" /\ queue[i] = r /\ queue' = Without(queue, i)
             /\ phase' = [phase EXCEPT ![r] = "answered"] /\ UNCHANGED free
      BY <1>2, <2>2 DEF QueueTimeout
    <3>2. Accounted(free', queue', phase')
      BY <1>0, <3>1, PhaseFacts, GivesUp DEF Becomes
    <3>3. queue # <<>>
      BY <3>1
    <3>4. \A x \in Requests : phase[x] = "granted" => phase'[x] = "granted"
      BY <1>0, <3>1
    <3>5. NoIdleSlot'
      BY <1>0, <3>1, <3>3, <3>4 DEF NoIdleSlot, In
    <3> QED BY <3>2, <3>5 DEF DoorInv
  <2> QED BY <1>2, <2>1, <2>2 DEF QueueTimeout
<1>3. ASSUME NEW r \in Requests, Resume(r) PROVE DoorInv'
  <2> DEFINE p1 == [phase EXCEPT ![r] = "reading"]
  <2>1. phase[r] = "granted" /\ WakeNext(free, queue, p1)
    BY <1>3 DEF Resume
  <2>2. Accounted(free, queue, p1)
    BY <1>0, <2>1, PhaseFacts, Stays DEF Becomes
  <2> QED BY <2>1, <2>2, WakeNextKeeps
<1>4. ASSUME NEW r \in Requests,
             \/ ReadBody(r) \/ BodyFails(r) \/ CallRefused(r) \/ BeginCall(r)
             \/ CallSucceeds(r) \/ CallFails(r) \/ CallEscapes(r) \/ Answer(r)
      PROVE  DoorInv'
  <2>1. phase[r] \in {"reading", "handling", "calling"}
    BY <1>4 DEF ReadBody, BodyFails, CallRefused, BeginCall, CallSucceeds, CallFails, CallEscapes,
                Answer
  <2>2. \/ Leave(r)
        \/ /\ UNCHANGED <<free, queue>>
           /\ \E to \in {"handling", "calling"} : phase' = [phase EXCEPT ![r] = to]
    BY <1>4 DEF ReadBody, BodyFails, CallRefused, BeginCall, CallSucceeds, CallFails, CallEscapes,
                Answer, AfterProviderError
  <2> QED BY <2>1, <2>2, PhaseFacts, LeaveKeeps, MoveKeeps
<1>5. ASSUME UNCHANGED doorVars PROVE DoorInv'
  BY <1>5 DEF doorVars, DoorInv, NoIdleSlot, In
<1>6. ASSUME NEW r \in Requests, CreateModel(r) PROVE DoorInv'
  BY <1>5, <1>6 DEF CreateModel
<1>7. CASE Tick \/ Rest \/ UNCHANGED vars
  BY <1>5, <1>7 DEF Tick, Rest, vars
<1> QED BY <1>1, <1>2, <1>3, <1>4, <1>6, <1>7 DEF Next, Serve

\* The accounts are right throughout.
LEMMA DoorInvariance == Spec => []DoorInv
BY DoorInit, DoorNext, PTL DEF Spec

\* Whatever way a request ends and whatever crosses its grant, its slot comes back exactly
\* once, and the queue is those who wait (canonical.py:446-500).
THEOREM SlotsAlwaysAccounted == Spec => []SlotsAccounted
<1>1. DoorInv => SlotsAccounted
  BY DEF DoorInv, Accounted, SlotsAccounted, Of, In, Waiting
<1> QED BY <1>1, DoorInvariance, PTL

\* No wake-up is lost: while somebody waits, a free slot has a granted waiter on its way,
\* which hands the slot on when it runs.
THEOREM NoSlotIdle == Spec => []NoIdleSlot
<1>1. DoorInv => NoIdleSlot
  BY DEF DoorInv
<1> QED BY <1>1, DoorInvariance, PTL

-----------------------------------------------------------------------------
(***************************************************************************)
(* The rate limiter.                                                       *)
(***************************************************************************)

Stamp == [at : Int, of : Requests]

\* The shape of the limiter's log.
IsLog(l) ==
  /\ IsFiniteSet(DOMAIN l)
  /\ \A k \in DOMAIN l : l[k] \in [stamps : SUBSET Stamp, place : Nat] /\ IsFiniteSet(l[k].stamps)

\* Dropping keys changes no stamps of the others.
LEMMA CloseFacts ==
  ASSUME NEW l, IsLog(l), NEW K \in SUBSET DOMAIN l
  PROVE  /\ IsLog(Close(l, K)) /\ DOMAIN Close(l, K) = K
         /\ \A k \in K : Close(l, K)[k].stamps = l[k].stamps
<1>1. IsFiniteSet(K) /\ DOMAIN Close(l, K) = K
  BY FS_Subset DEF IsLog, Close
<1>2. ASSUME NEW k \in K
      PROVE  /\ Close(l, K)[k] \in [stamps : SUBSET Stamp, place : Nat]
             /\ Close(l, K)[k].stamps = l[k].stamps /\ IsFiniteSet(l[k].stamps)
  <2> DEFINE n == Cardinality({j \in K : l[j].place <= l[k].place})
  <2>1. n \in Nat
    BY <1>1, FS_Subset, FS_CardinalityType
  <2>2. Close(l, K)[k] = [l[k] EXCEPT !.place = n]
    BY DEF Close
  <2> HIDE DEF n
  <2> QED BY <2>1, <2>2 DEF IsLog
<1> QED BY <1>1, <1>2 DEF IsLog

\* What ages out is what is not of the window.
LEMMA ActiveFacts ==
  ASSUME NEW l, IsLog(l), NEW now \in Int
  PROVE  /\ IsLog(Active(l, now)) /\ DOMAIN Active(l, now) \subseteq DOMAIN l
         /\ \A k \in DOMAIN Active(l, now) : Active(l, now)[k].stamps # {}
         /\ \A k : StampsOf(Active(l, now), k) = {s \in StampsOf(l, k) : s.at > now - Window}
<1> DEFINE Aged(k) == {s \in l[k].stamps : s.at > now - Window}
           aged == [k \in DOMAIN l |-> [l[k] EXCEPT !.stamps = Aged(k)]]
           K == {k \in DOMAIN l : aged[k].stamps # {}}
<1>1. ASSUME NEW k \in DOMAIN l
      PROVE  /\ aged[k] \in [stamps : SUBSET Stamp, place : Nat]
             /\ aged[k].stamps = Aged(k) /\ IsFiniteSet(Aged(k))
  <2>1. Aged(k) \in SUBSET Stamp /\ IsFiniteSet(Aged(k))
    BY FS_Subset DEF IsLog
  <2>2. aged[k] = [l[k] EXCEPT !.stamps = Aged(k)]
    OBVIOUS
  <2> HIDE DEF Aged, aged
  <2> QED BY <2>1, <2>2 DEF IsLog
<1>2. Active(l, now) = Close(aged, K) /\ DOMAIN aged = DOMAIN l
  BY DEF Active
<1> HIDE DEF aged
<1>3. IsLog(aged) /\ K \in SUBSET DOMAIN aged
  BY <1>1, <1>2 DEF IsLog
<1>4. \A k \in K : aged[k].stamps = Aged(k) /\ Aged(k) # {}
  BY <1>1
<1>5. \A k \in DOMAIN l : k \notin K => Aged(k) = {}
  BY <1>1
<1>6. K \subseteq DOMAIN l
  OBVIOUS
<1> HIDE DEF K
<1>7. /\ IsLog(Close(aged, K)) /\ DOMAIN Close(aged, K) = K
      /\ \A k \in K : Close(aged, K)[k].stamps = Aged(k)
  BY <1>3, <1>4, CloseFacts
<1>8. ASSUME NEW k
      PROVE  StampsOf(Close(aged, K), k) = {s \in StampsOf(l, k) : s.at > now - Window}
  BY <1>5, <1>6, <1>7 DEF StampsOf
<1> QED BY <1>2, <1>4, <1>6, <1>7, <1>8

\* A key makes room for itself only if it is new; then MaxClients keys are left with it.
LEMMA RoomFacts ==
  ASSUME NEW l, IsLog(l), NEW k
  PROVE  LET m == MakeRoom(l, k)
         IN  /\ IsLog(m) /\ DOMAIN m \subseteq DOMAIN l
             /\ \A j \in DOMAIN m : m[j].stamps = l[j].stamps
             /\ k \in DOMAIN l => m = l
             /\ \A j \in DOMAIN l : j \notin DOMAIN m =>
                  k \notin DOMAIN l /\ Cardinality(DOMAIN m \cup {k}) >= MaxClients
<1>1. CASE k \in DOMAIN l \/ Cardinality(DOMAIN l) < MaxClients
  BY <1>1 DEF MakeRoom
<1>2. CASE ~ (k \in DOMAIN l \/ Cardinality(DOMAIN l) < MaxClients)
  <2> DEFINE K == DOMAIN l \ {First(l)}
             m == MakeRoom(l, k)
  <2>1. m = Close(l, K)
    BY <1>2 DEF MakeRoom
  <2>2. K \in SUBSET DOMAIN l
    OBVIOUS
  <2> HIDE DEF m
  <2>3. IsLog(m) /\ DOMAIN m = K /\ \A j \in K : m[j].stamps = l[j].stamps
    BY <2>1, <2>2, CloseFacts
  <2>4. ASSUME NEW j \in DOMAIN l, j \notin K
        PROVE  Cardinality(K \cup {k}) >= MaxClients
    <3>1. j = First(l) /\ k \notin K /\ IsFiniteSet(DOMAIN l)
      BY <1>2, <2>4 DEF IsLog
    <3>2. K = DOMAIN l \ {j}
      BY <3>1
    <3> HIDE DEF K
    <3>3. /\ IsFiniteSet(K) /\ Cardinality(K) = Cardinality(DOMAIN l) - 1
          /\ Cardinality(DOMAIN l) \in Nat
      BY <2>4, <3>1, <3>2, FS_RemoveElement, FS_CardinalityType
    <3>4. Cardinality(K \cup {k}) = Cardinality(K) + 1
      BY <3>1, <3>3, FS_AddElement
    <3> QED BY <1>2, <3>3, <3>4, LimiterAssumption
  <2> QED BY <1>2, <2>2, <2>3, <2>4 DEF m
<1> QED BY <1>1, <1>2

Admitted == {r \in Requests : admittedAt[r] >= 0}

StampOf(r) == [at |-> admittedAt[r], of |-> r]

LimiterTypes ==
  /\ clock \in Nat /\ phase \in [Requests -> Phases]
  /\ admittedAt \in [Requests -> Int] /\ IsFiniteSet(Admitted)
  /\ \A r \in Requests : admittedAt[r] <= clock /\ (phase[r] = "new" => admittedAt[r] < 0)
  /\ IsLog(log) /\ DOMAIN log \subseteq Clients

\* A stamp stands for the request it was made for, and no key has more than Rate of them.
Stamped ==
  \A k \in DOMAIN log :
    /\ \A s \in log[k].stamps :
         s.at = admittedAt[s.of] /\ admittedAt[s.of] >= 0 /\ Client[s.of] = k
    /\ Cardinality(log[k].stamps) <= Rate

\* The other clients admitted after time t.
Others(k, t) == {Client[q] : q \in AdmittedSince(t)} \ {k}

\* The stamp of a request in the window is missing only because its client was evicted, when
\* MaxClients other clients had been admitted in the window that ended then.
EvictedForOthers ==
  \A r \in Admitted :
    admittedAt[r] > clock - Window /\ StampOf(r) \notin StampsOf(log, Client[r]) =>
      Cardinality(Others(Client[r], admittedAt[r] - Window)) >= MaxClients

LimiterInv == LimiterTypes /\ Stamped /\ EvictedForOthers

\* Nothing is logged at first.
LEMMA LimiterInit == Init => LimiterInv
<1> SUFFICES ASSUME Init PROVE LimiterInv
  OBVIOUS
<1>1. Admitted = {} /\ DOMAIN log = {} /\ IsFiniteSet({})
  BY FS_EmptySet DEF Init, Admitted
<1> QED BY <1>1 DEF Init, LimiterInv, LimiterTypes, Stamped, EvictedForOthers, IsLog, Phases

\* There are finitely many clients, and no fewer after more are admitted.
LEMMA OthersGrow ==
  ASSUME LimiterTypes, NEW S, NEW T, S \subseteq T, T \subseteq Requests, IsFiniteSet(T), NEW k
  PROVE  /\ IsFiniteSet({Client[q] : q \in T} \ {k})
         /\ Cardinality({Client[q] : q \in S} \ {k}) <= Cardinality({Client[q] : q \in T} \ {k})
         /\ Cardinality({Client[q] : q \in S} \ {k}) \in Nat
<1> DEFINE Of1 == {Client[q] : q \in T}
           f == [q \in T |-> Client[q]]
<1>1. f \in Surjection(T, Of1)
  BY DEF Surjection
<1>2. IsFiniteSet(Of1)
  BY <1>1, FS_Surjection
<1>3. IsFiniteSet(Of1 \ {k})
  BY <1>2, FS_Subset
<1>4. {Client[q] : q \in S} \ {k} \subseteq Of1 \ {k}
  OBVIOUS
<1> HIDE DEF Of1
<1> QED BY <1>3, <1>4, FS_Subset, FS_CardinalityType DEF Of1

\* A request is admitted at time clock when there is room for its stamp.
LEMMA AdmitKeeps ==
  ASSUME LimiterInv, NEW r \in Requests, Arrive(r), Admits(log, Client[r], clock)
  PROVE  LimiterInv'
<1> DEFINE k == Client[r]
           act == Active(log, clock)
           room == MakeRoom(act, k)
           e == [stamps |-> StampsOf(room, k) \cup {[at |-> clock, of |-> r]},
                 place |-> IF k \in DOMAIN room THEN room[k].place
                           ELSE Cardinality(DOMAIN room) + 1]
<1>1. /\ phase[r] = "new" /\ clock' = clock /\ clock \in Nat /\ clock \in Int
      /\ admittedAt' = [admittedAt EXCEPT ![r] = clock]
      /\ phase' \in [Requests -> Phases] /\ \A x \in Requests : x # r => phase'[x] = phase[x]
      /\ phase'[r] # "new"
      /\ log' = [j \in DOMAIN room \cup {k} |-> IF j = k THEN e ELSE room[j]]
      /\ Cardinality(StampsOf(room, k)) < Rate /\ k \in Clients
  <2>1. phase \in [Requests -> Phases] /\ clock \in Nat /\ Client[r] \in Clients
    BY ServiceAssumption DEF LimiterInv, LimiterTypes
  <2>2. Acquire(r) /\ admittedAt' = [admittedAt EXCEPT ![r] = clock] /\ phase[r] = "new" /\ clock' = clock
    BY DEF Arrive
  <2>3. phase' = [phase EXCEPT ![r] = "reading"] \/ phase' = [phase EXCEPT ![r] = "queued"]
    BY <2>2 DEF Acquire
  <2>4. log' = LogAfter(log, Client[r], clock, r)
    BY DEF Arrive
  <2>5. /\ log' = [j \in DOMAIN room \cup {k} |-> IF j = k THEN e ELSE room[j]]
        /\ Cardinality(StampsOf(room, k)) < Rate
    BY <2>4 DEF LogAfter, Admits
  <2> HIDE DEF room, e
  <2>6. "reading" \in Phases /\ "queued" \in Phases
    BY PhaseFacts
  <2> QED BY <2>1, <2>2, <2>3, <2>5, <2>6
<1>2. IsLog(log) /\ DOMAIN log \subseteq Clients
  BY DEF LimiterInv, LimiterTypes
<1>3. /\ IsLog(act) /\ DOMAIN act \subseteq DOMAIN log
      /\ \A j \in DOMAIN act : act[j].stamps # {}
      /\ \A j : StampsOf(act, j) = {s \in StampsOf(log, j) : s.at > clock - Window}
  BY <1>1, <1>2, ActiveFacts
<1> HIDE DEF act
<1>4. /\ IsLog(room) /\ DOMAIN room \subseteq DOMAIN act
      /\ \A j \in DOMAIN room : room[j].stamps = act[j].stamps
      /\ \A j \in DOMAIN act : j \notin DOMAIN room => j # k /\ Cardinality(DOMAIN room \cup {k}) >= MaxClients
  BY <1>3, RoomFacts
<1> HIDE DEF room, e
<1>5. \A j \in DOMAIN room : j \in DOMAIN log /\ room[j].stamps = {s \in log[j].stamps : s.at > clock - Window}
  BY <1>3, <1>4 DEF StampsOf
<1>6. StampsOf(room, k) \in SUBSET Stamp /\ IsFiniteSet(StampsOf(room, k))
  BY <1>4, FS_EmptySet DEF StampsOf, IsLog
<1>7. [at |-> clock, of |-> r] \in Stamp
  BY <1>1 DEF Stamp
<1>8. /\ e \in [stamps : SUBSET Stamp, place : Nat] /\ IsFiniteSet(e.stamps)
      /\ e.stamps = StampsOf(room, k) \cup {[at |-> clock, of |-> r]} /\ Cardinality(e.stamps) <= Rate
  <2> DEFINE new == [at |-> clock, of |-> r]
             old == StampsOf(room, k)
             n == IF k \in DOMAIN room THEN room[k].place ELSE Cardinality(DOMAIN room) + 1
  <2>1. n \in Nat
    BY <1>4, FS_CardinalityType DEF IsLog
  <2>2. e = [stamps |-> old \cup {new}, place |-> n]
    BY DEF e
  <2> HIDE DEF n, new, old
  <2>3. IsFiniteSet(old) /\ Cardinality(old) \in Nat /\ Cardinality(old) < Rate
    BY <1>1, <1>6, FS_CardinalityType DEF old
  <2>4. IsFiniteSet(old \cup {new}) /\ Cardinality(old \cup {new}) <= Rate
    <3>1. CASE new \in old
      <4>1. old \cup {new} = old
        BY <3>1
      <4> QED BY <2>3, <4>1, LimiterAssumption
    <3>2. CASE new \notin old
      <4>1. /\ IsFiniteSet(old \cup {new})
            /\ Cardinality(old \cup {new}) = Cardinality(old) + 1
        BY <2>3, <3>2, FS_AddElement
      <4> QED BY <2>3, <4>1, LimiterAssumption
    <3> QED BY <3>1, <3>2
  <2>5. new \in Stamp /\ old \in SUBSET Stamp
    BY <1>6, <1>7 DEF new, old
  <2> QED BY <2>1, <2>2, <2>4, <2>5 DEF new, old
<1>9. /\ DOMAIN log' = DOMAIN room \cup {k} /\ log'[k] = e
      /\ \A j \in DOMAIN room : j # k => log'[j] = room[j]
  BY <1>1
<1>10. Admitted' = Admitted \cup {r} /\ IsFiniteSet(Admitted') /\ r \notin Admitted /\ admittedAt[r] < 0
  <2>1. Admitted' = Admitted \cup {r} /\ r \notin Admitted /\ admittedAt[r] < 0
    BY <1>1 DEF LimiterInv, LimiterTypes, Admitted
  <2> QED BY <2>1, FS_AddElement DEF LimiterInv, LimiterTypes
<1>11. LimiterTypes'
  <2>1. IsLog(log') /\ DOMAIN log' \subseteq Clients
    <3>1. IsFiniteSet(DOMAIN log')
      BY <1>4, <1>9, FS_AddElement DEF IsLog
    <3> QED BY <1>1, <1>2, <1>4, <1>5, <1>8, <1>9, <3>1 DEF IsLog
  <2> QED BY <1>1, <1>10, <2>1 DEF LimiterInv, LimiterTypes
<1>12. Stamped'
  <2> SUFFICES ASSUME NEW j \in DOMAIN log'
               PROVE  /\ \A s \in log'[j].stamps :
                           s.at = admittedAt'[s.of] /\ admittedAt'[s.of] >= 0 /\ Client[s.of] = j
                      /\ Cardinality(log'[j].stamps) <= Rate
    BY DEF Stamped
  <2>1. ASSUME j \in DOMAIN room, NEW s \in room[j].stamps
        PROVE  s.at = admittedAt'[s.of] /\ admittedAt'[s.of] >= 0 /\ Client[s.of] = j
    <3>1. j \in DOMAIN log /\ s \in log[j].stamps
      BY <1>5, <2>1
    <3>2. s.of \in Requests /\ s.at = admittedAt[s.of] /\ admittedAt[s.of] >= 0 /\ Client[s.of] = j
      BY <1>2, <3>1 DEF LimiterInv, Stamped, IsLog, Stamp
    <3> QED BY <1>1, <1>10, <3>2 DEF LimiterInv, LimiterTypes
  <2>2. CASE j = k
    <3> SUFFICES ASSUME NEW s \in e.stamps
                 PROVE  s.at = admittedAt'[s.of] /\ admittedAt'[s.of] >= 0 /\ Client[s.of] = k
      BY <1>8, <1>9, <2>2
    <3>1. CASE s \in StampsOf(room, k)
      BY <2>1, <2>2, <3>1 DEF StampsOf
    <3>2. CASE s = [at |-> clock, of |-> r]
      BY <1>1, <3>2 DEF LimiterInv, LimiterTypes
    <3> QED BY <1>8, <3>1, <3>2
  <2>3. CASE j # k
    <3>1. j \in DOMAIN room /\ log'[j] = room[j]
      BY <1>9, <2>3
    <3>2. Cardinality(room[j].stamps) <= Cardinality(log[j].stamps) /\ Cardinality(log[j].stamps) <= Rate
      <4>1. room[j].stamps \subseteq log[j].stamps /\ IsFiniteSet(log[j].stamps)
        BY <1>2, <1>5, <3>1 DEF IsLog
      <4>2. Cardinality(log[j].stamps) <= Rate
        BY <1>5, <3>1 DEF LimiterInv, Stamped
      <4> QED BY <4>1, <4>2, FS_Subset
    <3>3. Cardinality(room[j].stamps) \in Nat /\ Cardinality(log[j].stamps) \in Nat
      BY <1>2, <1>4, <1>5, <3>1, FS_CardinalityType DEF IsLog
    <3> QED BY <2>1, <3>1, <3>2, <3>3, LimiterAssumption
  <2> QED BY <2>2, <2>3
<1>13. ASSUME NEW x \in Admitted', admittedAt'[x] > clock' - Window,
              StampOf(x)' \notin StampsOf(log', Client[x])
       PROVE  Cardinality(Others(Client[x], admittedAt[x] - Window)') >= MaxClients
  <2> DEFINE j == Client[x]
             t == admittedAt[x] - Window
             T == {q \in Requests : admittedAt'[q] >= 0 /\ admittedAt'[q] > t}
  <2>1. x # r /\ x \in Admitted
    <3>1. ASSUME x = r PROVE FALSE
      <4>1. StampOf(x)' = [at |-> clock, of |-> r]
        BY <1>1, <3>1 DEF StampOf, LimiterInv, LimiterTypes
      <4> QED BY <1>8, <1>9, <1>13, <3>1, <4>1 DEF StampsOf
    <3> QED BY <1>10, <3>1
  <2>2. /\ admittedAt'[x] = admittedAt[x] /\ admittedAt[x] \in Int /\ admittedAt[x] <= clock
        /\ x \in Requests /\ StampOf(x)' = StampOf(x) /\ admittedAt[x] > clock - Window
    BY <1>1, <1>13, <2>1 DEF Admitted, StampOf, LimiterInv, LimiterTypes
  <2>3. AdmittedSince(t) \subseteq T /\ T \subseteq Requests /\ IsFiniteSet(T)
    <3>1. AdmittedSince(t) \subseteq T
      BY <1>1, <1>10 DEF AdmittedSince, LimiterInv, LimiterTypes
    <3>2. T \subseteq Admitted'
      BY DEF Admitted
    <3> QED BY <1>10, <3>1, <3>2, FS_Subset
  <2>4. Others(j, t)' = {Client[q] : q \in T} \ {j}
    BY <2>2 DEF Others, AdmittedSince
  <2> HIDE DEF T
  <2>5. /\ IsFiniteSet({Client[q] : q \in T} \ {j})
        /\ Cardinality(Others(j, t)) <= Cardinality({Client[q] : q \in T} \ {j})
        /\ Cardinality(Others(j, t)) \in Nat
    BY <2>3, OthersGrow DEF Others, LimiterInv
  <2>6. Cardinality({Client[q] : q \in T} \ {j}) \in Nat
    BY <2>5, FS_CardinalityType
  <2>7. CASE StampOf(x) \notin StampsOf(log, j)
    <3>1. Cardinality(Others(j, t)) >= MaxClients
      BY <2>1, <2>2, <2>7 DEF LimiterInv, EvictedForOthers
    <3> QED BY <2>4, <2>5, <2>6, <3>1, LimiterAssumption
  <2>8. CASE StampOf(x) \in StampsOf(log, j)
    <3>1. StampOf(x) \in StampsOf(act, j) /\ j \in DOMAIN act
      <4>1. StampOf(x).at > clock - Window
        BY <2>2 DEF StampOf
      <4> QED BY <1>3, <2>8, <4>1 DEF StampsOf
    <3>2. j \notin DOMAIN room
      <4>1. ASSUME j \in DOMAIN room PROVE StampOf(x) \in StampsOf(log', j)
        <5>1. StampOf(x) \in room[j].stamps
          BY <1>4, <3>1, <4>1 DEF StampsOf
        <5> QED BY <1>8, <1>9, <4>1, <5>1 DEF StampsOf
      <4> QED BY <1>13, <2>2, <4>1
    <3>3. j # k /\ Cardinality(DOMAIN room \cup {k}) >= MaxClients
      BY <1>4, <3>1, <3>2
    <3>4. DOMAIN room \cup {k} \subseteq {Client[q] : q \in T} \ {j}
      <4>1. k \in {Client[q] : q \in T}
        BY <1>1, <2>2, LimiterAssumption DEF T, LimiterInv, LimiterTypes
      <4>2. ASSUME NEW c \in DOMAIN room PROVE c \in {Client[q] : q \in T}
        <5>1. PICK s \in room[c].stamps : TRUE
          BY <1>3, <1>4
        <5>2. c \in DOMAIN log /\ s \in log[c].stamps /\ s.at > clock - Window
          BY <1>5
        <5>3. s.of \in Requests /\ s.at = admittedAt[s.of] /\ admittedAt[s.of] >= 0 /\ Client[s.of] = c
          BY <1>2, <5>2 DEF LimiterInv, Stamped, IsLog, Stamp
        <5>4. admittedAt'[s.of] = admittedAt[s.of] /\ admittedAt[s.of] \in Int
          BY <1>1, <1>10, <5>3 DEF LimiterInv, LimiterTypes
        <5>5. s.of \in T
          BY <1>1, <2>2, <5>2, <5>3, <5>4, LimiterAssumption DEF T
        <5> QED BY <5>3, <5>5
      <4> QED BY <3>2, <3>3, <4>1, <4>2
    <3>5. Cardinality(DOMAIN room \cup {k}) <= Cardinality({Client[q] : q \in T} \ {j})
          /\ Cardinality(DOMAIN room \cup {k}) \in Nat
      BY <2>5, <3>4, FS_Subset, FS_CardinalityType
    <3>6. Cardinality({Client[q] : q \in T} \ {j}) >= MaxClients
      BY <2>6, <3>3, <3>5, LimiterAssumption
    <3> QED BY <2>4, <3>6
  <2> QED BY <2>7, <2>8
<1>14. EvictedForOthers'
  <2> SUFFICES ASSUME NEW x \in Admitted', admittedAt'[x] > clock' - Window,
                      StampOf(x)' \notin StampsOf(log', Client[x])
               PROVE  Cardinality(Others(Client[x], admittedAt[x] - Window)') >= MaxClients
    BY DEF EvictedForOthers
  <2> QED BY <1>13
<1> QED BY <1>11, <1>12, <1>14 DEF LimiterInv

\* A request is refused at time clock: the log only ages, and its client stays.
LEMMA RefusalFacts ==
  ASSUME LimiterInv, NEW r \in Requests, Arrive(r), ~ Admits(log, Client[r], clock)
  PROVE  /\ log' = Active(log, clock)
         /\ Cardinality(StampsOf(Active(log, clock), Client[r])) >= Rate
<1> DEFINE k == Client[r]
           act == Active(log, clock)
           room == MakeRoom(act, k)
<1>1. log' = room /\ ~ (Cardinality(StampsOf(room, k)) < Rate)
  BY DEF Arrive, LogAfter, Admits
<1>2. IsLog(act)
  BY ActiveFacts DEF LimiterInv, LimiterTypes
<1> HIDE DEF act
<1>3. IsLog(room) /\ DOMAIN room \subseteq DOMAIN act /\ (k \in DOMAIN act => room = act)
  BY <1>2, RoomFacts
<1> HIDE DEF room
<1>4. k \in DOMAIN room
  <2>1. ASSUME k \notin DOMAIN room PROVE FALSE
    <3>1. StampsOf(room, k) = {} /\ Cardinality({}) = 0
      BY <2>1, FS_EmptySet DEF StampsOf
    <3> QED BY <1>1, <3>1, LimiterAssumption
  <2> QED BY <2>1
<1>5. IsFiniteSet(StampsOf(room, k))
  BY <1>3, <1>4 DEF StampsOf, IsLog
<1>6. Cardinality(StampsOf(room, k)) \in Nat
  BY <1>5, FS_CardinalityType
<1> QED BY <1>1, <1>3, <1>4, <1>6, LimiterAssumption DEF act

\* A refusal keeps the invariant.
LEMMA RefuseKeeps ==
  ASSUME LimiterInv, NEW r \in Requests, Arrive(r), ~ Admits(log, Client[r], clock)
  PROVE  LimiterInv'
<1> DEFINE act == Active(log, clock)
<1>1. /\ log' = act /\ admittedAt' = admittedAt /\ clock' = clock /\ clock \in Int
      /\ phase' = [phase EXCEPT ![r] = "limited"]
  BY RefusalFacts DEF Arrive, LimiterInv, LimiterTypes
<1>2. /\ IsLog(act) /\ DOMAIN act \subseteq DOMAIN log
      /\ \A j : StampsOf(act, j) = {s \in StampsOf(log, j) : s.at > clock - Window}
  BY <1>1, ActiveFacts DEF LimiterInv, LimiterTypes
<1> HIDE DEF act
<1>3. Admitted' = Admitted
  BY <1>1 DEF Admitted
<1>4. LimiterTypes'
  BY <1>1, <1>2, <1>3, PhaseFacts DEF LimiterInv, LimiterTypes
<1>5. Stamped'
  <2> SUFFICES ASSUME NEW k \in DOMAIN act
               PROVE  /\ \A s \in act[k].stamps :
                           s.at = admittedAt[s.of] /\ admittedAt[s.of] >= 0 /\ Client[s.of] = k
                      /\ Cardinality(act[k].stamps) <= Rate
    BY <1>1 DEF Stamped
  <2>1. k \in DOMAIN log /\ act[k].stamps \subseteq log[k].stamps
    BY <1>2 DEF StampsOf
  <2>2. IsFiniteSet(log[k].stamps) /\ Cardinality(log[k].stamps) <= Rate
    BY <2>1 DEF LimiterInv, LimiterTypes, IsLog, Stamped
  <2>3. /\ Cardinality(act[k].stamps) <= Cardinality(log[k].stamps)
        /\ Cardinality(act[k].stamps) \in Nat /\ Cardinality(log[k].stamps) \in Nat
    BY <2>1, <2>2, FS_Subset, FS_CardinalityType
  <2>4. Cardinality(act[k].stamps) <= Rate
    BY <2>2, <2>3, LimiterAssumption
  <2> QED BY <2>1, <2>4 DEF LimiterInv, Stamped
<1>6. EvictedForOthers'
  <2> SUFFICES ASSUME NEW x \in Admitted, admittedAt[x] > clock - Window,
                      StampOf(x) \notin StampsOf(act, Client[x])
               PROVE  Cardinality(Others(Client[x], admittedAt[x] - Window)) >= MaxClients
    BY <1>1, <1>3 DEF EvictedForOthers, Others, AdmittedSince, StampOf
  <2>1. StampOf(x) \notin StampsOf(log, Client[x])
    BY <1>2 DEF StampOf
  <2> QED BY <2>1 DEF LimiterInv, EvictedForOthers
<1> QED BY <1>4, <1>5, <1>6 DEF LimiterInv

\* What requests do behind the limiter.
Behind(r) == QueueTimeout(r) \/ Serve(r)

\* No step behind the limiter makes a request new or limited.
LEMMA BehindFacts ==
  ASSUME phase \in [Requests -> Phases], queue \in Seq(Requests),
         NEW r \in Requests, Behind(r)
  PROVE  /\ phase' \in [Requests -> Phases] /\ UNCHANGED <<clock, log, admittedAt>>
         /\ \A x \in Requests : phase'[x] \in {"new", "limited"} => phase'[x] = phase[x]
<1>1. ASSUME NEW p \in [Requests -> Phases], NEW f, WakeNext(f, queue, p)
      PROVE  /\ phase' \in [Requests -> Phases]
             /\ \A x \in Requests : phase'[x] \in {"new", "limited"} => phase'[x] = p[x]
  <2>1. CASE phase' = p
    BY <2>1
  <2>2. CASE queue # <<>> /\ phase' = [p EXCEPT ![Head(queue)] = "granted"]
    BY <2>2, PhaseFacts
  <2> QED BY <1>1, <2>1, <2>2 DEF WakeNext
<1>2. ASSUME NEW to \in {"answered", "reading", "handling", "calling"}
      PROVE  /\ [phase EXCEPT ![r] = to] \in [Requests -> Phases]
             /\ \A x \in Requests : [phase EXCEPT ![r] = to][x] \in {"new", "limited"}
                                     => [phase EXCEPT ![r] = to][x] = phase[x]
  BY PhaseFacts
<1>3. ASSUME Leave(r)
      PROVE  /\ phase' \in [Requests -> Phases]
             /\ \A x \in Requests : phase'[x] \in {"new", "limited"} => phase'[x] = phase[x]
  BY <1>1, <1>2, <1>3 DEF Leave
<1>4. CASE Resume(r)
  BY <1>1, <1>2, <1>4 DEF Resume
<1>5. CASE QueueTimeout(r)
  BY <1>2, <1>3, <1>5 DEF QueueTimeout
<1>6. CASE CreateModel(r)
  BY <1>6 DEF CreateModel, doorVars
<1>7. CASE \/ ReadBody(r) \/ BodyFails(r) \/ CallRefused(r) \/ BeginCall(r)
           \/ CallSucceeds(r) \/ CallFails(r) \/ CallEscapes(r) \/ Answer(r)
  <2>1. UNCHANGED <<clock, log, admittedAt>>
    BY <1>7 DEF ReadBody, BodyFails, CallRefused, BeginCall, CallSucceeds, CallFails, CallEscapes,
                Answer
  <2>2. Leave(r) \/ \E to \in {"handling", "calling"} : phase' = [phase EXCEPT ![r] = to]
    BY <1>7 DEF ReadBody, BodyFails, CallRefused, BeginCall, CallSucceeds, CallFails, CallEscapes,
                Answer, AfterProviderError
  <2> QED BY <1>2, <1>3, <2>1, <2>2
<1> QED BY <1>4, <1>5, <1>6, <1>7 DEF Behind, Serve

\* Only arrivals change the log; time makes less of it count.
LEMMA LimiterNext == LimiterInv /\ DoorInv /\ [Next]_vars => LimiterInv'
<1> SUFFICES ASSUME LimiterInv, DoorInv, [Next]_vars PROVE LimiterInv'
  OBVIOUS
<1>1. ASSUME NEW r \in Requests, Arrive(r) PROVE LimiterInv'
  BY <1>1, AdmitKeeps, RefuseKeeps
<1>2. ASSUME UNCHANGED <<log, admittedAt>>, clock' \in {clock, clock + 1},
             phase' \in [Requests -> Phases],
             \A x \in Requests : phase'[x] = "new" => phase[x] = "new"
      PROVE  LimiterInv'
  <2>1. Admitted' = Admitted /\ clock \in Nat
    BY <1>2 DEF Admitted, LimiterInv, LimiterTypes
  <2>2. LimiterTypes'
    BY <1>2, <2>1 DEF LimiterInv, LimiterTypes, IsLog
  <2>3. Stamped'
    BY <1>2 DEF LimiterInv, Stamped
  <2>4. EvictedForOthers'
    <3> SUFFICES ASSUME NEW x \in Admitted, admittedAt[x] > clock' - Window,
                        StampOf(x) \notin StampsOf(log, Client[x])
                 PROVE  Cardinality(Others(Client[x], admittedAt[x] - Window)) >= MaxClients
      BY <1>2, <2>1 DEF EvictedForOthers, Others, AdmittedSince, StampOf, StampsOf
    <3>1. admittedAt[x] > clock - Window
      BY <1>2, <2>1, LimiterAssumption DEF LimiterInv, LimiterTypes, Admitted
    <3> QED BY <3>1 DEF LimiterInv, EvictedForOthers
  <2> QED BY <2>2, <2>3, <2>4 DEF LimiterInv
<1>3. ASSUME NEW r \in Requests, Behind(r) PROVE LimiterInv'
  BY <1>2, <1>3, BehindFacts DEF LimiterInv, LimiterTypes, DoorInv, Accounted
<1>4. CASE Tick \/ Rest \/ UNCHANGED vars
  BY <1>2, <1>4 DEF Tick, Rest, vars, doorVars, LimiterInv, LimiterTypes
<1> QED BY <1>1, <1>3, <1>4 DEF Next, Behind

\* The log is right throughout.
LEMMA LimiterInvariance == Spec => []LimiterInv
BY LimiterInit, LimiterNext, DoorInvariance, PTL DEF Spec

\* More than Rate in a window: one of them has lost its stamp.
LEMMA BoundOfStamps ==
  ASSUME LimiterInv, NEW k \in Clients
  PROVE  Cardinality({r \in AdmittedSince(clock - Window) : Client[r] = k}) > Rate =>
           Cardinality({Client[r] : r \in AdmittedSince(clock - 2 * Window)} \ {k}) >= MaxClients
<1> DEFINE A == {r \in AdmittedSince(clock - Window) : Client[r] = k}
           S == StampsOf(log, k)
           T == AdmittedSince(clock - 2 * Window)
<1> SUFFICES ASSUME Cardinality(A) > Rate
             PROVE  Cardinality({Client[r] : r \in T} \ {k}) >= MaxClients
  OBVIOUS
<1>1. IsFiniteSet(S) /\ Cardinality(S) <= Rate /\ Cardinality(S) \in Nat
  BY FS_EmptySet, FS_CardinalityType, LimiterAssumption
     DEF StampsOf, LimiterInv, LimiterTypes, IsLog, Stamped
<1>2. A \subseteq Admitted /\ IsFiniteSet(A) /\ Cardinality(A) \in Nat
  <2>1. A \subseteq Admitted
    BY DEF Admitted, AdmittedSince
  <2> QED BY <2>1, FS_Subset, FS_CardinalityType DEF LimiterInv, LimiterTypes
<1>3. PICK r \in A : StampOf(r) \notin S
  <2>1. ASSUME \A r \in A : StampOf(r) \in S PROVE FALSE
    <3> DEFINE f == [r \in A |-> StampOf(r)]
    <3>1. f \in Injection(A, S)
      <4>1. \A x, y \in A : f[x] = f[y] => x = y
        BY DEF StampOf
      <4> QED BY <2>1, <4>1 DEF Injection, IsInjective
    <3>2. Cardinality(A) <= Cardinality(S)
      BY <1>1, <3>1, FS_Injection
    <3> QED BY <1>1, <1>2, <3>2, LimiterAssumption
  <2> QED BY <2>1
<1>4. /\ r \in Admitted /\ admittedAt[r] \in Int /\ admittedAt[r] > clock - Window /\ Client[r] = k
      /\ clock \in Nat
  BY <1>2 DEF AdmittedSince, LimiterInv, LimiterTypes
<1>5. Cardinality(Others(k, admittedAt[r] - Window)) >= MaxClients
  BY <1>3, <1>4 DEF LimiterInv, EvictedForOthers
<1>6. /\ AdmittedSince(admittedAt[r] - Window) \subseteq T /\ T \subseteq Requests /\ IsFiniteSet(T)
  <2>1. AdmittedSince(admittedAt[r] - Window) \subseteq T
    BY <1>4, LimiterAssumption DEF AdmittedSince, LimiterInv, LimiterTypes
  <2>2. T \subseteq Admitted
    BY DEF AdmittedSince, Admitted
  <2> QED BY <2>1, <2>2, FS_Subset DEF LimiterInv, LimiterTypes, AdmittedSince
<1> HIDE DEF T
<1>7. /\ IsFiniteSet({Client[q] : q \in T} \ {k})
      /\ Cardinality(Others(k, admittedAt[r] - Window)) <= Cardinality({Client[q] : q \in T} \ {k})
      /\ Cardinality(Others(k, admittedAt[r] - Window)) \in Nat
  BY <1>6, OthersGrow DEF Others, LimiterInv
<1>8. Cardinality({Client[q] : q \in T} \ {k}) \in Nat
  BY <1>7, FS_CardinalityType
<1> QED BY <1>5, <1>7, <1>8, LimiterAssumption

\* No client is admitted more than Rate times in a window unless it was evicted, for which
\* MaxClients other clients must have been admitted within two windows (canonical.py:88-112).
THEOREM RateAlwaysBounded == Spec => []RateBound
<1>1. LimiterInv => RateBound
  BY BoundOfStamps DEF RateBound
<1> QED BY <1>1, LimiterInvariance, PTL

\* Whoever gets a 429 has had Rate requests admitted in the window that ends now, whatever
\* clients were evicted or aged out in between (canonical.py:88-112, 429-438).
THEOREM AlwaysLimitedWithCause == Spec => LimitedWithCause
<1> DEFINE Caused == \A r \in Requests :
             phase[r] = "new" /\ phase'[r] = "limited" =>
               Cardinality({q \in AdmittedSince(clock - Window) : Client[q] = Client[r]}) >= Rate
<1>1. ASSUME LimiterInv, DoorInv, [Next]_vars PROVE [Caused]_vars
  <2>1. ASSUME NEW r \in Requests, Arrive(r) PROVE Caused
    <3> SUFFICES ASSUME NEW x \in Requests, phase[x] = "new", phase'[x] = "limited"
                 PROVE  Cardinality({q \in AdmittedSince(clock - Window) : Client[q] = Client[x]})
                          >= Rate
      OBVIOUS
    <3>1. x = r /\ ~ Admits(log, Client[r], clock)
      BY <1>1, <2>1, ServiceAssumption DEF Arrive, Acquire, LimiterInv, LimiterTypes
    <3> DEFINE k == Client[r]
               S == StampsOf(Active(log, clock), k)
               A == {q \in AdmittedSince(clock - Window) : Client[q] = k}
               f == [s \in S |-> s.of]
    <3>2. Cardinality(S) >= Rate
      BY <1>1, <2>1, <3>1, RefusalFacts
    <3>3. S = {s \in StampsOf(log, k) : s.at > clock - Window}
      BY <1>1, ActiveFacts DEF LimiterInv, LimiterTypes
    <3>4. ASSUME NEW s \in S PROVE s.of \in A /\ s = [at |-> admittedAt[s.of], of |-> s.of]
      <4>1. k \in DOMAIN log /\ s \in log[k].stamps /\ s.at > clock - Window
        BY <3>3 DEF StampsOf
      <4>2. s \in Stamp
        BY <1>1, <4>1 DEF LimiterInv, LimiterTypes, IsLog
      <4>3. s.at = admittedAt[s.of] /\ admittedAt[s.of] >= 0 /\ Client[s.of] = k
        BY <1>1, <4>1 DEF LimiterInv, Stamped
      <4> QED BY <4>1, <4>2, <4>3 DEF Stamp, AdmittedSince
    <3> HIDE DEF S
    <3>5. f \in Injection(S, A)
      <4>1. \A s, t \in S : f[s] = f[t] => s = t
        BY <3>4
      <4> QED BY <3>4, <4>1 DEF Injection, IsInjective
    <3>6. IsFiniteSet(A)
      <4>1. A \subseteq Admitted
        BY DEF AdmittedSince, Admitted
      <4> QED BY <1>1, <4>1, FS_Subset DEF LimiterInv, LimiterTypes
    <3> HIDE DEF f, A
    <3>7. IsFiniteSet(S) /\ Cardinality(S) <= Cardinality(A)
      BY <3>5, <3>6, FS_Injection
    <3>8. Cardinality(S) \in Nat /\ Cardinality(A) \in Nat
      BY <3>6, <3>7, FS_CardinalityType
    <3>9. Cardinality(A) >= Rate
      BY <3>2, <3>7, <3>8, LimiterAssumption
    <3> QED BY <3>1, <3>9 DEF A
  <2>2. ASSUME NEW r \in Requests, Behind(r) PROVE Caused
    BY <1>1, <2>2, BehindFacts DEF LimiterInv, LimiterTypes, DoorInv, Accounted
  <2>3. CASE Tick \/ Rest \/ UNCHANGED vars
    BY <2>3 DEF Tick, Rest, vars, doorVars
  <2> QED BY <1>1, <2>1, <2>2, <2>3 DEF Next, Behind
<1> QED BY <1>1, LimiterInvariance, DoorInvariance, PTL DEF Spec, LimitedWithCause
=============================================================================
