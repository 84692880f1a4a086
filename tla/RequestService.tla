---------------------------- MODULE RequestService ----------------------------
(***************************************************************************)
(* app/server/canonical.py: the guard middleware and the /ask handler, as  *)
(* far as requests meet each other: the rate limiter, the concurrency      *)
(* semaphore with its queue, and the circuit breakers of agent/provider.py *)
(* that the requests of one credential share.  The middleware runs on one  *)
(* event loop, handlers and model calls on worker threads.  The attempts   *)
(* of one generate() touch nothing shared and are one step.                *)
(***************************************************************************)
EXTENDS RateLimiter, CircuitBreaker, FiniteSets

CONSTANTS
  Requests,
  Client,       \* Client[r]: the limiter key of r
  Credential,   \* Credential[r]: the breaker key of r's own model key, or NoKey
  NoKey, None,
  Slots,        \* max_concurrent_requests
  MaxClock      \* bound: the clock stops here

ASSUME ServiceAssumption ==
  /\ Client \in [Requests -> Clients]
  /\ None \notin Requests
  /\ Slots \in Nat \ {0} /\ MaxClock \in Nat

VARIABLES
  clock,       \* time.monotonic()
  log,         \* RateLimiter._values
  free,        \* Semaphore._value
  queue,       \* Semaphore._waiters whose future is not done, oldest first
  phase,       \* phase[r]: how far request r is
  calls,       \* calls[r]: model calls begun: 1 understanding, 2 synthesis
  registry,    \* RequestModelFactory._breakers
  breakers,    \* breakers[q]: the breaker that q's create() made
  mine,        \* mine[r]: whose breaker r's model holds, None without a model
  admittedAt,  \* history: when the limiter admitted r, -1 before
  failedAt     \* history: when a call with the credential last failed, -1 before

doorVars == <<free, queue, phase>>
modelVars == <<calls, mine>>
breakerVars == <<registry, breakers, failedAt>>
vars == <<clock, log, doorVars, modelVars, breakerVars, admittedAt>>

Credentials == {Credential[r] : r \in Requests} \ {NoKey}
Holding == {"granted", "reading", "handling", "calling"}
Final == {"limited", "answered"}
In(p) == {r \in Requests : phase[r] \in p}

-----------------------------------------------------------------------------
(***************************************************************************)
(* The semaphore.                                                          *)
(***************************************************************************)

\* Faulty variant: the first waiter is woken, but the slot stays on offer.
WakeNextTwice(f, q, p) ==
  IF f > 0 /\ q # <<>>
  THEN free' = f /\ queue' = Tail(q) /\ phase' = [p EXCEPT ![Head(q)] = "granted"]
  ELSE free' = f /\ queue' = q /\ phase' = p

\* _wake_up_next(), with f slots, waiters q and phases p: the first waiter gets
\* a slot before it runs again.
WakeNext(f, q, p) ==
  IF f > 0 /\ q # <<>>
  THEN free' = f - 1 /\ queue' = Tail(q) /\ phase' = [p EXCEPT ![Head(q)] = "granted"]
  ELSE free' = f /\ queue' = q /\ phase' = p

\* The waiters q without the i-th.
Without(q, i) == [n \in 1 .. Len(q) - 1 |-> IF n < i THEN q[n] ELSE q[n + 1]]

\* Faulty variant: the slot is not given back.
LeaveHolding(r) ==
  /\ phase' = [phase EXCEPT ![r] = "answered"]
  /\ calls' = [calls EXCEPT ![r] = 0]
  /\ mine' = [mine EXCEPT ![r] = None]
  /\ UNCHANGED <<free, queue>>

\* The response is made; the model is gone and the slot released.
Leave(r) ==
  /\ WakeNext(free + 1, queue, [phase EXCEPT ![r] = "answered"])
  /\ calls' = [calls EXCEPT ![r] = 0]
  /\ mine' = [mine EXCEPT ![r] = None]

\* acquire(): at once if a slot is free and nobody waits or is about to resume.
Acquire(r) ==
  IF free > 0 /\ In({"queued", "granted"}) = {}
  THEN free' = free - 1 /\ phase' = [phase EXCEPT ![r] = "reading"] /\ UNCHANGED queue
  ELSE queue' = Append(queue, r) /\ phase' = [phase EXCEPT ![r] = "queued"] /\ UNCHANGED free

-----------------------------------------------------------------------------
(***************************************************************************)
(* The middleware.                                                         *)
(***************************************************************************)

Init ==
  /\ clock = 0
  /\ log = [k \in {} |-> None]
  /\ free = Slots /\ queue = <<>>
  /\ phase = [r \in Requests |-> "new"]
  /\ calls = [r \in Requests |-> 0]
  /\ registry = <<>>
  /\ breakers = [q \in Requests |-> Fresh]
  /\ mine = [r \in Requests |-> None]
  /\ admittedAt = [r \in Requests |-> -1]
  /\ failedAt = [c \in Credentials |-> -1]

Arrive(r) ==
  /\ phase[r] = "new"
  /\ log' = LogAfter(log, Client[r], clock, r)
  /\ IF Admits(log, Client[r], clock)
     THEN Acquire(r) /\ admittedAt' = [admittedAt EXCEPT ![r] = clock]
     ELSE /\ phase' = [phase EXCEPT ![r] = "limited"]
          /\ UNCHANGED <<free, queue, admittedAt>>
  /\ UNCHANGED <<clock, modelVars, breakerVars>>

\* Faulty variant: a resumed waiter looks after itself only.
ResumeOnly(r) ==
  /\ phase[r] = "granted"
  /\ phase' = [phase EXCEPT ![r] = "reading"]
  /\ UNCHANGED <<clock, log, free, queue, modelVars, breakerVars, admittedAt>>

\* A granted waiter runs again, and hands on another slot if there is one.
Resume(r) ==
  /\ phase[r] = "granted"
  /\ WakeNext(free, queue, [phase EXCEPT ![r] = "reading"])
  /\ UNCHANGED <<clock, log, modelVars, breakerVars, admittedAt>>

\* wait_for() times out: the request leaves the queue or, when a slot was
\* already granted to it, passes the slot on.
QueueTimeout(r) ==
  /\ \/ /\ phase[r] = "queued"
        /\ \E i \in DOMAIN queue : queue[i] = r /\ queue' = Without(queue, i)
        /\ phase' = [phase EXCEPT ![r] = "answered"]
        /\ UNCHANGED <<free, calls, mine>>
     \/ phase[r] = "granted" /\ Leave(r)
  /\ UNCHANGED <<clock, log, breakerVars, admittedAt>>

ReadBody(r) ==
  /\ phase[r] = "reading"
  /\ phase' = [phase EXCEPT ![r] = "handling"]
  /\ UNCHANGED <<clock, log, free, queue, modelVars, breakerVars, admittedAt>>

\* The body is too large, too slow, or its sender is gone.
BodyFails(r) ==
  /\ phase[r] = "reading" /\ Leave(r)
  /\ UNCHANGED <<clock, log, breakerVars, admittedAt>>

-----------------------------------------------------------------------------
(***************************************************************************)
(* The handler and its model.                                              *)
(***************************************************************************)

\* create(): the breaker registered for the credential, or a new one.
CreateModel(r) ==
  /\ phase[r] = "handling" /\ Credential[r] # NoKey /\ mine[r] = None
  /\ registry' = Register(registry, Credential[r], r)
  /\ mine' = [mine EXCEPT ![r] = BreakerOf(registry', Credential[r])]
  /\ UNCHANGED <<clock, log, doorVars, calls, breakers, failedAt, admittedAt>>

\* A failed call is swallowed by understanding and ends the request in synthesis.
AfterProviderError(r, call) ==
  IF call = 1
  THEN /\ phase' = [phase EXCEPT ![r] = "handling"]
       /\ calls' = [calls EXCEPT ![r] = call]
       /\ UNCHANGED <<free, queue, mine>>
  ELSE Leave(r)

CallRefused(r) ==
  /\ phase[r] = "handling" /\ mine[r] # None /\ calls[r] < 2
  /\ Refuses(breakers[mine[r]], clock)
  /\ AfterProviderError(r, calls[r] + 1)
  /\ UNCHANGED <<clock, log, breakerVars, admittedAt>>

BeginCall(r) ==
  /\ phase[r] = "handling" /\ mine[r] # None /\ calls[r] < 2
  /\ ~ Refuses(breakers[mine[r]], clock)
  /\ breakers' = [breakers EXCEPT ![mine[r]] = AfterAllow(@, clock)]
  /\ calls' = [calls EXCEPT ![r] = @ + 1]
  /\ phase' = [phase EXCEPT ![r] = "calling"]
  /\ UNCHANGED <<clock, log, free, queue, registry, mine, failedAt, admittedAt>>

CallSucceeds(r) ==
  /\ phase[r] = "calling"
  /\ breakers' = [breakers EXCEPT ![mine[r]] = AfterSuccess(@)]
  /\ phase' = [phase EXCEPT ![r] = "handling"]
  /\ UNCHANGED <<clock, log, free, queue, calls, registry, mine, failedAt, admittedAt>>

\* The attempts are used up, or the deadline has passed.
CallFails(r) ==
  /\ phase[r] = "calling"
  /\ breakers' = [breakers EXCEPT ![mine[r]] = AfterFailure(@, clock)]
  /\ failedAt' = [failedAt EXCEPT ![Credential[r]] = clock]
  /\ AfterProviderError(r, calls[r])
  /\ UNCHANGED <<clock, log, registry, admittedAt>>

\* An exception that generate() does not catch (ConnectionResetError,
\* IncompleteRead, UnicodeDecodeError): nothing is recorded, and synthesis
\* falls back or ends the request.
CallEscapes(r) ==
  /\ phase[r] = "calling"
  /\ \/ phase' = [phase EXCEPT ![r] = "handling"] /\ UNCHANGED <<free, queue, modelVars>>
     \/ calls[r] = 2 /\ Leave(r)
  /\ UNCHANGED <<clock, log, breakerVars, admittedAt>>

\* The handler returns or raises.
Answer(r) ==
  /\ phase[r] = "handling" /\ Leave(r)
  /\ UNCHANGED <<clock, log, breakerVars, admittedAt>>

-----------------------------------------------------------------------------
Tick ==
  /\ clock < MaxClock /\ clock' = clock + 1
  /\ UNCHANGED <<log, doorVars, modelVars, breakerVars, admittedAt>>

Rest == In(Final) = Requests /\ clock = MaxClock /\ UNCHANGED vars

Serve(r) ==
  \/ Resume(r) \/ ReadBody(r) \/ BodyFails(r)
  \/ CreateModel(r) \/ CallRefused(r) \/ BeginCall(r)
  \/ CallSucceeds(r) \/ CallFails(r) \/ CallEscapes(r) \/ Answer(r)

Next == (\E r \in Requests : Arrive(r) \/ QueueTimeout(r) \/ Serve(r)) \/ Tick \/ Rest

Spec == Init /\ [][Next]_vars

\* The loop and the worker threads keep serving whoever holds a slot: the body
\* timeout and the provider timeout end what the client or the provider does
\* not.  Nothing is assumed of arrivals or of the queue timeout.
FairSpec == Spec /\ \A r \in Requests : WF_vars(Serve(r))

-----------------------------------------------------------------------------
(***************************************************************************)
(* Properties.                                                             *)
(***************************************************************************)

\* Whatever way a request ends (a body too slow, a refused call, a queue timeout
\* that crosses the grant), its slot comes back exactly once: the free slots and
\* those held or granted are max_concurrent_requests, and the queue is those who
\* wait.
SlotsAccounted ==
  /\ free + Cardinality(In(Holding)) = Slots
  /\ {queue[i] : i \in DOMAIN queue} = In({"queued"})
  /\ Len(queue) = Cardinality(In({"queued"}))

\* No lost wake-up: a slot is free while somebody waits only if a granted waiter
\* is still to run, and it hands the slot on.
NoIdleSlot == free > 0 /\ queue # <<>> => In({"granted"}) # {}

\* The requests admitted after time t.
AdmittedSince(t) == {r \in Requests : admittedAt[r] >= 0 /\ admittedAt[r] > t}

\* No client is admitted more than Rate times in a window, unless it was evicted
\* from the limiter: then MaxClients other clients were admitted within two
\* windows.
RateBound ==
  \A k \in Clients :
    Cardinality({r \in AdmittedSince(clock - Window) : Client[r] = k}) > Rate =>
      Cardinality({Client[r] : r \in AdmittedSince(clock - 2 * Window)} \ {k}) >= MaxClients

\* A 429 has its cause: Rate requests of that very client were admitted in the
\* window that ends now.
LimitedWithCause ==
  [][\A r \in Requests :
       phase[r] = "new" /\ phase'[r] = "limited" =>
         Cardinality({q \in AdmittedSince(clock - Window) : Client[q] = Client[r]}) >= Rate]_vars

\* A breaker is open exactly when it has counted Threshold failures, in whatever
\* order calls that began before it opened report their success or failure.
BreakersConsistent ==
  \A q \in Requests : breakers[q].opened # Closed <=> breakers[q].failures >= Threshold

\* The breaker a request's model holds refuses its calls only within ResetAfter
\* of a failed call with the same credential: the failures of others never close
\* the way, though breakers are evicted from the registry while models hold them.
OwnFailuresOnly ==
  \A r \in Requests :
    mine[r] # None /\ Refuses(breakers[mine[r]], clock) =>
      failedAt[Credential[r]] >= 0 /\ clock < failedAt[Credential[r]] + ResetAfter

\* Every request that arrives gets a response.
AlwaysAnswered == \A r \in Requests : phase[r] # "new" ~> phase[r] \in Final
=============================================================================
