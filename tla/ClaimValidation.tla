------------------------- MODULE ClaimValidation -------------------------
(***************************************************************************)
(* ClaimValidator.validate (generation/validator.py): which drafts may be  *)
(* released over a packet of facts and evidence (evidence/models.py).      *)
(*                                                                         *)
(* A packet maps identifiers of facts to facts and identifiers of evidence *)
(* to the review status.  Of the wording of a claim only the outcome of    *)
(* the tests on text is kept: "faithful" passes them, "loose" fails one    *)
(* for which the orchestrator tries again (a dropped qualifier, terms      *)
(* without support), "unbound" one for which it does not (a number or code *)
(* that no bound fact has, an inverted polarity).  An atom matches its     *)
(* facts ("exact"), states another comparator ("comparator") or differs    *)
(* in value, unit, scope or time ("other").                                *)
(***************************************************************************)
EXTENDS FiniteSets, SequencesExt

Wordings == {"faithful", "loose", "unbound"}

\* _fact_support: evidence along the inputs of each fact, and whether an edge is broken.
\* The facts that are left are those that are not on the path.
FactSupport(facts) ==
    LET visit[left \in SUBSET DOMAIN facts] ==
          [id \in left |->
             LET fact == facts[id]
                 rest == left \ {id}
                 inputs == fact.inputs \cap rest
             IN [evidence |-> fact.evidence \cup UNION {visit[rest][i].evidence : i \in inputs},
                 broken |-> \/ fact.derived /\ fact.inputs = {}
                            \/ fact.inputs # inputs
                            \/ \E i \in inputs : visit[rest][i].broken]]
    IN visit[DOMAIN facts]

Support(packet, id) == FactSupport(packet.facts)[id].evidence
Broken(packet, id) == FactSupport(packet.facts)[id].broken

\* Facts of a claim that the packet has.
Bound(packet, c) == c.facts \cap DOMAIN packet.facts
Factual(packet, c) == \E f \in Bound(packet, c) : packet.facts[f].factual
Reachable(packet, c) == UNION {Support(packet, f) : f \in Bound(packet, c)}

FactsKnown(packet, c) == c.facts # {} /\ c.facts \subseteq DOMAIN packet.facts
CitationsLinked(packet, c) == c.evidence \subseteq Reachable(packet, c) \cap DOMAIN packet.evidence

AtomMatches(packet, c, a) ==
    a.facts # {} /\ a.facts \subseteq Bound(packet, c) /\ a.match = "exact"
AtomCites(packet, c, a) ==
    /\ a.evidence # {} /\ a.evidence \subseteq c.evidence
    /\ \A f \in a.facts \cap Bound(packet, c) : a.evidence \subseteq Support(packet, f)
\* Every cited span covers the value of what was observed and not computed: the spans of the
\* fact itself do, and of a long excerpt, whose value is not compared, any that is there.
SpanCovers(packet, c, a) ==
    \A f \in a.facts \cap Bound(packet, c) :
      LET fact == packet.facts[f]
      IN fact.derived \/ a.evidence \subseteq DOMAIN packet.evidence \cap
                           (IF fact.long THEN DOMAIN packet.evidence ELSE fact.evidence)

\* Observed facts in one claim come from one record.
ShareRecord(packet, c) ==
    LET records == {packet.facts[f].records : f \in {g \in Bound(packet, c) :
                      ~packet.facts[g].derived /\ packet.facts[g].records # {}}}
    IN records = {} \/ \E x \in UNION records : \A s \in records : x \in s

Grounded(packet, c) ==
    /\ \A f \in Bound(packet, c) : ~Broken(packet, f)
    /\ ShareRecord(packet, c)
    /\ Reachable(packet, c) # {} /\ c.evidence # {}
    /\ \A f \in Bound(packet, c) :
          Support(packet, f) # {} => c.evidence \cap Support(packet, f) # {}
    /\ \A e \in Reachable(packet, c) : e \in DOMAIN packet.evidence /\ packet.evidence[e] = "verified"

Stated(packet, c) ==
    /\ c.atoms # {}
    /\ \A f \in Bound(packet, c) : packet.facts[f].factual => \E a \in c.atoms : f \in a.facts
    /\ \A a \in c.atoms : AtomCites(packet, c, a) /\ SpanCovers(packet, c, a)

Passes(packet, c) ==
    /\ FactsKnown(packet, c)
    /\ CitationsLinked(packet, c)
    /\ \A a \in c.atoms : AtomMatches(packet, c, a)
    /\ Factual(packet, c) => (Stated(packet, c) /\ Grounded(packet, c))
    /\ c.wording # "unbound"
    /\ c.wording = "loose" => (~Factual(packet, c) /\ c.evidence = {})

\* A reason for which the orchestrator asks for another wording of the same packet.
Rewordable(packet, c) ==
    \/ (c.wording = "loose" /\ (Factual(packet, c) \/ c.evidence # {}))
    \/ ~(c.evidence \subseteq DOMAIN packet.evidence)
    \/ \E a \in c.atoms : a.match = "comparator" /\ a.facts \cap Bound(packet, c) # {}
    \/ (Factual(packet, c) /\ \E a \in c.atoms : ~SpanCovers(packet, c, a))

\* Mutant of AllPass: one good claim carries the others.
AllPassAny(packet, claims) == claims # {} /\ \E c \in claims : Passes(packet, c)

AllPass(packet, claims) == claims # {} /\ \A c \in claims : Passes(packet, c)

\* A conflict of the packet refuses whatever was drafted, with all evidence of the packet;
\* a question back to the user is released as it is.
Validated(packet, draft) ==
    IF packet.conflict
      THEN [claims |-> draft.claims, refused |-> TRUE, clarification |-> FALSE,
            citations |-> DOMAIN packet.evidence, reword |-> FALSE]
      ELSE LET refused == draft.refused \/
                          ~(draft.clarification \/ AllPass(packet, draft.claims))
           IN [claims |-> draft.claims, refused |-> refused, clarification |-> draft.clarification,
               citations |-> (UNION {c.evidence : c \in draft.claims}) \cap DOMAIN packet.evidence,
               reword |-> refused /\ \E c \in draft.claims : Rewordable(packet, c)]
===========================================================================
