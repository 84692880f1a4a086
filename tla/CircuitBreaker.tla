---------------------------- MODULE CircuitBreaker ----------------------------
(***************************************************************************)
(* agent/provider.py: ProviderCircuitBreaker, and the bounded registry of  *)
(* breakers that RequestModelFactory keeps.  A breaker is a record; it is  *)
(* identified by the request whose create() made it.  The registry is a    *)
(* dictionary from credential key to breaker, in insertion order.          *)
(***************************************************************************)
EXTENDS Integers, Sequences

CONSTANTS
  Threshold,    \* failure_threshold
  ResetAfter,   \* reset_after_seconds
  MaxBreakers,  \* max_breaker_keys
  Closed        \* _opened_at is None

ASSUME BreakerAssumption ==
  /\ Threshold \in Nat \ {0} /\ ResetAfter \in Nat \ {0} /\ MaxBreakers \in Nat \ {0}
  /\ Closed \notin Nat

Breaker == [failures : Nat, opened : Nat \cup {Closed}]

Fresh == [failures |-> 0, opened |-> Closed]

\* allow() answers False.
Refuses(b, now) == b.opened # Closed /\ now - b.opened < ResetAfter

\* Faulty variant: the count survives the reset.
AfterAllowKeepsCount(b, now) ==
  IF b.opened = Closed \/ Refuses(b, now) THEN b ELSE [b EXCEPT !.opened = Closed]

\* allow(): an open circuit whose time is over is closed again.
AfterAllow(b, now) == IF b.opened = Closed \/ Refuses(b, now) THEN b ELSE Fresh

\* record_success()
AfterSuccess(b) == Fresh

\* record_failure()
AfterFailure(b, now) ==
  [failures |-> b.failures + 1,
   opened |-> IF b.failures + 1 >= Threshold THEN now ELSE b.opened]

-----------------------------------------------------------------------------
Registered(reg, key) == \E i \in DOMAIN reg : reg[i].key = key

BreakerOf(reg, key) == (CHOOSE e \in {reg[i] : i \in DOMAIN reg} : e.key = key).breaker

\* Faulty variant: the place of the evicted key is reused, breaker and all.
RegisterReusing(reg, key, b) ==
  IF Registered(reg, key) THEN reg
  ELSE IF Len(reg) < MaxBreakers THEN Append(reg, [key |-> key, breaker |-> b])
  ELSE [reg EXCEPT ![1].key = key]

\* _breaker_for(): evict from the front until there is room, then add.
Register(reg, key, b) ==
  IF Registered(reg, key) THEN reg
  ELSE Append(IF Len(reg) < MaxBreakers THEN reg
              ELSE SubSeq(reg, Len(reg) - MaxBreakers + 2, Len(reg)),
              [key |-> key, breaker |-> b])
=============================================================================
