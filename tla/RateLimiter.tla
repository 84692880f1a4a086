------------------------------ MODULE RateLimiter ------------------------------
(***************************************************************************)
(* app/server/canonical.py: RateLimiter.  allow() runs under one lock, so  *)
(* it is a function of the log it finds: a dictionary from client key to   *)
(* the stamps of its admitted requests, each key with its place in         *)
(* insertion order.  A stamp is a time and the request it was made for:    *)
(* two requests at one time make two stamps.  Keys are the members of      *)
(* Clients; hashing long ones is left out.                                 *)
(***************************************************************************)
EXTENDS Integers, FiniteSets

CONSTANTS
  Clients,     \* the keys of _client_rate_key()
  Rate,        \* maximum
  Window,      \* window_seconds
  MaxClients   \* max_clients

ASSUME LimiterAssumption ==
  Rate \in Nat \ {0} /\ Window \in Nat \ {0} /\ MaxClients \in Nat \ {0}

\* The stamps kept for key k.
StampsOf(log, k) == IF k \in DOMAIN log THEN log[k].stamps ELSE {}

\* The log when only the keys of K stay: their places close up.
Close(log, K) ==
  [k \in K |-> [log[k] EXCEPT !.place = Cardinality({j \in K : log[j].place <= log[k].place})]]

\* Faulty variant: a stamp that is just as old as the window still counts.
ActiveInclusive(log, now) ==
  LET aged == [k \in DOMAIN log |->
                 [log[k] EXCEPT !.stamps = {s \in log[k].stamps : s.at >= now - Window}]]
  IN  Close(aged, {k \in DOMAIN log : aged[k].stamps # {}})

\* What is left of the log at time now: stamps age out, then empty keys go.
Active(log, now) ==
  LET aged == [k \in DOMAIN log |->
                 [log[k] EXCEPT !.stamps = {s \in log[k].stamps : s.at > now - Window}]]
  IN  Close(aged, {k \in DOMAIN log : aged[k].stamps # {}})

First(log) == CHOOSE k \in DOMAIN log : \A j \in DOMAIN log : log[k].place <= log[j].place

\* Faulty variant: makes room for a key that has its place already.
MakeRoomAlways(log, k) ==
  IF Cardinality(DOMAIN log) < MaxClients THEN log ELSE Close(log, DOMAIN log \ {First(log)})

\* A key that is new evicts the first one if there is no room for it.  Keys
\* are added one at a time, so one eviction is enough.
MakeRoom(log, k) ==
  IF k \in DOMAIN log \/ Cardinality(DOMAIN log) < MaxClients THEN log
  ELSE Close(log, DOMAIN log \ {First(log)})

Admits(log, k, now) == Cardinality(StampsOf(MakeRoom(Active(log, now), k), k)) < Rate

\* The log after allow(k) for request r: a refused request is not recorded.
LogAfter(log, k, now, r) ==
  LET room == MakeRoom(Active(log, now), k)
      entry == [stamps |-> StampsOf(room, k) \cup {[at |-> now, of |-> r]},
                place |-> IF k \in DOMAIN room THEN room[k].place
                          ELSE Cardinality(DOMAIN room) + 1]
  IN  IF Admits(log, k, now)
      THEN [j \in DOMAIN room \cup {k} |-> IF j = k THEN entry ELSE room[j]]
      ELSE room
=============================================================================
