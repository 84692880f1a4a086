--------------------------- MODULE ReleaseTrust ---------------------------
(***************************************************************************)
(* What the release protocol promises, without files, processes or crashes *)
(* in between: contents become active only after both evaluations of       *)
(* exactly these contents passed, and a worker serves only contents that   *)
(* were made active.                                                       *)
(***************************************************************************)
CONSTANTS Contents, Workers, None

VARIABLES passed,     \* pairs of an evaluation and the contents that passed it
          certified,  \* contents with a published attestation
          activated,  \* contents that were active at some time
          active,     \* the active contents
          serving     \* what each worker serves

vars == <<passed, certified, activated, active, serving>>

Init ==
    /\ passed = {}
    /\ certified = {}
    /\ activated = {}
    /\ active = None
    /\ serving = [w \in Workers |-> None]

Pass(kind, c) ==
    /\ passed' = passed \cup {<<kind, c>>}
    /\ UNCHANGED <<certified, activated, active, serving>>

Certify(c) ==
    /\ {"agent", "retrieval"} \X {c} \subseteq passed
    /\ certified' = certified \cup {c}
    /\ UNCHANGED <<passed, activated, active, serving>>

Activate(c) ==
    /\ c \in certified
    /\ active' = c
    /\ activated' = activated \cup {c}
    /\ UNCHANGED <<passed, certified, serving>>

Serve(w, c) ==
    /\ c \in activated
    /\ serving' = [serving EXCEPT ![w] = c]
    /\ UNCHANGED <<passed, certified, activated, active>>

Leave(w) ==
    /\ serving' = [serving EXCEPT ![w] = None]
    /\ UNCHANGED <<passed, certified, activated, active>>

Next ==
    \/ \E kind \in {"agent", "retrieval"}, c \in Contents : Pass(kind, c)
    \/ \E c \in Contents : Certify(c) \/ Activate(c)
    \/ \E w \in Workers, c \in Contents : Serve(w, c)
    \/ \E w \in Workers : Leave(w)

Spec == Init /\ [][Next]_vars
===========================================================================
