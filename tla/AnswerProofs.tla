---------------------------- MODULE AnswerProofs ----------------------------
(***************************************************************************)
(* Theorems about AnswerPipeline, for any corpora, requests, scores, flaws *)
(* of the audit and drafts of a model.  First what _fact_support computes  *)
(* over any graph of facts; then that the pipeline asks it the right       *)
(* questions; then what the rankings and their cuts may pass over.         *)
(***************************************************************************)
EXTENDS AnswerPipeline, FiniteSetTheorems, TLAPS

---------------------------------------------------------------------------
(***************************************************************************)
(* What the validator finds out about a graph of facts (_fact_support).    *)
(***************************************************************************)

\* One call of _fact_support, given the results of the calls it makes.
Visit(facts, v, left, id) ==
    LET rest == left \ {id}
        inputs == facts[id].inputs \cap rest
    IN [evidence |-> facts[id].evidence \cup UNION {v[rest][i].evidence : i \in inputs},
        broken |-> \/ facts[id].derived /\ facts[id].inputs = {}
                   \/ facts[id].inputs # inputs
                   \/ \E i \in inputs : v[rest][i].broken]

Solves(facts, v) ==
    v = [left \in SUBSET DOMAIN facts |-> [id \in left |-> Visit(facts, v, left, id)]]

\* The facts of a set that one reaches from a fact without leaving the set.
ClosedIn(facts, S, left) == \A g \in S : facts[g].inputs \cap left \subseteq S
Reached(facts, left, id) ==
    {g \in left : \A S \in SUBSET left : id \in S /\ ClosedIn(facts, S, left) => g \in S}

\* A set of facts that needs no others, down to observations and without a circle.
Unbroken(facts, S) ==
    /\ \A g \in S : facts[g].inputs \subseteq S /\ (facts[g].derived => facts[g].inputs # {})
    /\ \A T \in (SUBSET S) \ {{}} : \E g \in T : facts[g].inputs \cap T = {}
Sound(facts, left, id) == \E S \in SUBSET left : id \in S /\ Unbroken(facts, S)

Solution(facts) ==
    [left \in SUBSET DOMAIN facts |-> [id \in left |->
       [evidence |-> UNION {facts[g].evidence : g \in Reached(facts, left, id)},
        broken |-> ~Sound(facts, left, id)]]]

\* The definition of the validator, read as an equation.
LEMMA SupportSolves ==
  ASSUME NEW facts
  PROVE  FactSupport(facts) = (CHOOSE v : Solves(facts, v))[DOMAIN facts]
BY DEF FactSupport, Solves, Visit

\* Of some subsets of a finite set there is one that contains no other.
LEMMA Smallest ==
  ASSUME NEW D, IsFiniteSet(D), NEW B \in SUBSET SUBSET D, B # {}
  PROVE  \E S \in B : \A R \in B : R \subseteq S => R = S
<1>1. IsWellFoundedOn(StrictSubsetOrdering(D), SUBSET D)
  BY FS_StrictSubsetOrderingWellFounded, FS_FiniteSubsetsOfFinite
<1>2. PICK S \in B : \A R \in B : ~(<<R, S>> \in StrictSubsetOrdering(D))
  BY <1>1, WFMin
<1>3. S \in SUBSET D
  OBVIOUS
<1>4. ASSUME NEW R \in B, R \subseteq S, R # S PROVE FALSE
  <2>1. <<R, S>> \in (SUBSET D) \X (SUBSET D)
    BY <1>3
  <2>2. <<R, S>> \in StrictSubsetOrdering(D)
    BY <2>1, <1>4 DEF StrictSubsetOrdering
  <2> QED BY <1>2, <2>2
<1> QED BY <1>4

\* The recursion ends, so that its equation has one solution at most.
LEMMA OneSolution ==
  ASSUME NEW facts, IsFiniteSet(DOMAIN facts), NEW v, NEW w, Solves(facts, v), Solves(facts, w)
  PROVE  v = w
<1> DEFINE D == DOMAIN facts
           bad == {left \in SUBSET D : v[left] # w[left]}
<1>1. \A left \in SUBSET D : v[left] = [id \in left |-> Visit(facts, v, left, id)]
  BY DEF Solves
<1>2. \A left \in SUBSET D : w[left] = [id \in left |-> Visit(facts, w, left, id)]
  BY DEF Solves
<1>3. ASSUME bad # {} PROVE FALSE
  <2>1. PICK left \in bad : \A R \in bad : R \subseteq left => R = left
    <3>1. bad \in SUBSET SUBSET D
      OBVIOUS
    <3> HIDE DEF bad
    <3> QED BY <1>3, <3>1, Smallest
  <2>2. \A id \in left : v[left \ {id}] = w[left \ {id}]
    <3>1. ASSUME NEW id \in left PROVE left \ {id} \notin bad
      BY <2>1
    <3> QED BY <3>1
  <2>3. \A id \in left : Visit(facts, v, left, id) = Visit(facts, w, left, id)
    BY <2>2 DEF Visit
  <2>4. v[left] = [id \in left |-> Visit(facts, v, left, id)]
    BY <1>1
  <2>5. w[left] = [id \in left |-> Visit(facts, w, left, id)]
    BY <1>2
  <2>6. v[left] = w[left]
    BY <2>3, <2>4, <2>5
  <2> QED BY <2>1, <2>6
<1>4. v = [left \in SUBSET D |-> v[left]] /\ w = [left \in SUBSET D |-> w[left]]
  BY DEF Solves
<1>5. \A left \in SUBSET D : v[left] = w[left]
  BY <1>3
<1> HIDE DEF D
<1> QED BY <1>4, <1>5

\* What is reached is closed.
LEMMA ReachedCloses ==
  ASSUME NEW facts, NEW left, NEW id \in left
  PROVE  /\ id \in Reached(facts, left, id)
         /\ ClosedIn(facts, Reached(facts, left, id), left)
BY DEF Reached, ClosedIn

\* What is reached from a fact is the fact and what its inputs reach without it.
LEMMA ReachedStep ==
  ASSUME NEW facts, NEW left, NEW id \in left
  PROVE  Reached(facts, left, id) =
           {id} \cup UNION {Reached(facts, left \ {id}, i) : i \in facts[id].inputs \cap (left \ {id})}
<1> DEFINE rest == left \ {id}
           inputs == facts[id].inputs \cap rest
           all == {id} \cup UNION {Reached(facts, rest, i) : i \in inputs}
<1>1. ASSUME NEW i \in inputs, NEW g \in Reached(facts, rest, i)
      PROVE  g \in Reached(facts, left, id)
  <2>1. ASSUME NEW S \in SUBSET left, id \in S, ClosedIn(facts, S, left)
        PROVE  g \in S
    <3>1. ClosedIn(facts, S \cap rest, rest) /\ i \in S \cap rest
      BY <2>1 DEF ClosedIn
    <3>2. S \cap rest \in SUBSET rest
      OBVIOUS
    <3>3. g \in S \cap rest
      BY <3>1, <3>2 DEF Reached
    <3> QED BY <3>3
  <2> QED BY <2>1 DEF Reached
<1>2. all \subseteq Reached(facts, left, id)
  BY <1>1, ReachedCloses
<1>3. ClosedIn(facts, all, left)
  <2>1. ASSUME NEW g \in all, NEW j \in facts[g].inputs \cap left, j # id PROVE j \in all
    <3>1. CASE g = id
      BY <2>1, <3>1, ReachedCloses
    <3>2. CASE g # id
      <4>1. PICK i \in inputs : g \in Reached(facts, rest, i)
        BY <3>2
      <4>2. ClosedIn(facts, Reached(facts, rest, i), rest)
        BY ReachedCloses
      <4>3. j \in Reached(facts, rest, i)
        BY <4>1, <4>2, <2>1 DEF ClosedIn
      <4> QED BY <4>1, <4>3
    <3> QED BY <3>1, <3>2
  <2> QED BY <2>1 DEF ClosedIn
<1>4. all \in SUBSET left
  BY DEF Reached
<1>5. id \in all
  OBVIOUS
<1>6. Reached(facts, left, id) \subseteq all
  <2> HIDE DEF all
  <2> QED BY <1>3, <1>4, <1>5 DEF Reached
<1> QED BY <1>2, <1>6

\* Sets that need no others may be put together.
LEMMA UnbrokenUnion ==
  ASSUME NEW facts, NEW F, \A S \in F : Unbroken(facts, S)
  PROVE  Unbroken(facts, UNION F)
<1>1. ASSUME NEW T \in SUBSET (UNION F), T # {}
      PROVE  \E g \in T : facts[g].inputs \cap T = {}
  <2>1. PICK h \in T : TRUE
    BY <1>1
  <2>2. PICK S \in F : h \in S
    BY <2>1
  <2>3. T \cap S \in (SUBSET S) \ {{}}
    BY <2>1, <2>2
  <2>4. PICK g \in T \cap S : facts[g].inputs \cap (T \cap S) = {}
    BY <2>2, <2>3 DEF Unbroken
  <2>5. facts[g].inputs \subseteq S
    BY <2>2, <2>4 DEF Unbroken
  <2> QED BY <2>4, <2>5
<1>2. \A g \in UNION F : facts[g].inputs \subseteq UNION F /\ (facts[g].derived => facts[g].inputs # {})
  BY DEF Unbroken
<1> QED BY <1>1, <1>2 DEF Unbroken

\* A fact is sound if and only if it has the inputs it needs and they are sound without it.
LEMMA SoundStep ==
  ASSUME NEW facts, NEW left, NEW id \in left
  PROVE  Sound(facts, left, id) <=>
           /\ facts[id].derived => facts[id].inputs # {}
           /\ facts[id].inputs \subseteq left \ {id}
           /\ \A i \in facts[id].inputs : Sound(facts, left \ {id}, i)
<1> DEFINE rest == left \ {id}
<1>1. ASSUME NEW S \in SUBSET left, id \in S, Unbroken(facts, S)
      PROVE  /\ facts[id].derived => facts[id].inputs # {}
             /\ facts[id].inputs \subseteq rest
             /\ \A i \in facts[id].inputs : Sound(facts, rest, i)
  <2> DEFINE apart(Q) == Q \in SUBSET S /\ id \notin Q /\ \A h \in Q : facts[h].inputs \subseteq Q
             tied == {h \in S : \A Q \in SUBSET S : apart(Q) => h \notin Q}
  <2>1. id \in tied
    BY <1>1
  <2>2. PICK f \in tied : facts[f].inputs \cap tied = {}
    <3>1. tied \in (SUBSET S) \ {{}}
      BY <2>1
    <3> HIDE DEF tied
    <3> QED BY <3>1, <1>1 DEF Unbroken
  <2>3. f = id
    <3>1. SUFFICES ASSUME f # id PROVE FALSE
      OBVIOUS
    <3> DEFINE Q == {f} \cup UNION {P \in SUBSET S : apart(P)}
    <3>2. \A j \in facts[f].inputs : j \in S /\ j \notin tied
      BY <1>1, <2>2 DEF Unbroken
    <3>3. \A j \in facts[f].inputs : \E P \in SUBSET S : apart(P) /\ j \in P
      BY <3>2
    <3>4. \A h \in Q : facts[h].inputs \subseteq Q
      BY <3>3
    <3>5. apart(Q)
      BY <3>1, <3>4
    <3> QED BY <3>5
  <2>4. ASSUME NEW i \in facts[id].inputs
        PROVE  i \in rest /\ Sound(facts, rest, i)
    <3>1. i \in S /\ i \notin tied
      BY <1>1, <2>2, <2>3 DEF Unbroken
    <3>2. PICK Q \in SUBSET S : apart(Q) /\ i \in Q
      BY <3>1
    <3>3. Unbroken(facts, Q)
      BY <3>2, <1>1 DEF Unbroken
    <3>4. Q \in SUBSET rest
      BY <3>2
    <3> QED BY <3>2, <3>3, <3>4 DEF Sound
  <2> QED BY <2>4, <1>1 DEF Unbroken
<1>2. ASSUME facts[id].derived => facts[id].inputs # {},
             facts[id].inputs \subseteq rest,
             \A i \in facts[id].inputs : Sound(facts, rest, i)
      PROVE  Sound(facts, left, id)
  <2> DEFINE good == UNION {Q \in SUBSET rest : Unbroken(facts, Q)}
             S == good \cup {id}
  <2>1. Unbroken(facts, good)
    BY UnbrokenUnion
  <2>2. facts[id].inputs \subseteq good
    BY <1>2 DEF Sound
  <2>3. good \subseteq rest
    OBVIOUS
  <2> HIDE DEF good
  <2>4. ASSUME NEW T \in SUBSET S, T # {}
        PROVE  \E g \in T : facts[g].inputs \cap T = {}
    <3>1. CASE T \cap good = {}
      <4>1. T = {id}
        BY <2>4, <3>1
      <4> QED BY <4>1, <1>2
    <3>2. CASE T \cap good # {}
      <4>1. PICK g \in T \cap good : facts[g].inputs \cap (T \cap good) = {}
        BY <2>1, <3>2 DEF Unbroken
      <4>2. facts[g].inputs \subseteq good
        BY <2>1, <4>1 DEF Unbroken
      <4> QED BY <4>1, <4>2
    <3> QED BY <3>1, <3>2
  <2>5. \A g \in S : facts[g].inputs \subseteq S /\ (facts[g].derived => facts[g].inputs # {})
    BY <2>1, <2>2, <1>2 DEF Unbroken
  <2>6. Unbroken(facts, S)
    BY <2>4, <2>5 DEF Unbroken
  <2>7. S \in SUBSET left /\ id \in S
    BY <2>3
  <2> QED BY <2>6, <2>7 DEF Sound
<1> QED BY <1>1, <1>2 DEF Sound

\* Reached and Sound solve the equation.
LEMMA SolutionSolves ==
  ASSUME NEW facts
  PROVE  Solves(facts, Solution(facts))
<1> DEFINE v == Solution(facts)
           ev(left, id) == UNION {facts[g].evidence : g \in Reached(facts, left, id)}
<1>1. ASSUME NEW left \in SUBSET DOMAIN facts, NEW id \in left
      PROVE  Visit(facts, v, left, id) = [evidence |-> ev(left, id), broken |-> ~Sound(facts, left, id)]
  <2> DEFINE rest == left \ {id}
             inputs == facts[id].inputs \cap rest
  <2>1. \A i \in inputs : /\ v[rest][i].evidence = ev(rest, i)
                          /\ v[rest][i].broken = ~Sound(facts, rest, i)
    BY DEF Solution
  <2>2. facts[id].evidence \cup UNION {ev(rest, i) : i \in inputs} = ev(left, id)
    <3>1. ASSUME NEW e
          PROVE  e \in ev(left, id) <=> \/ e \in facts[id].evidence
                                       \/ \E i \in inputs : e \in ev(rest, i)
      <4>1. \A g : g \in Reached(facts, left, id) <=>
                     g = id \/ \E i \in inputs : g \in Reached(facts, rest, i)
        BY ReachedStep
      <4> HIDE DEF inputs, rest
      <4> QED BY <4>1
    <3> HIDE DEF ev
    <3> QED BY <3>1
  <2>3. UNION {v[rest][i].evidence : i \in inputs} = UNION {ev(rest, i) : i \in inputs}
    <3>1. {v[rest][i].evidence : i \in inputs} = {ev(rest, i) : i \in inputs}
      <4> HIDE DEF v, ev, inputs
      <4> QED BY <2>1
    <3> QED BY <3>1
  <2>4. (\/ facts[id].derived /\ facts[id].inputs = {}
         \/ facts[id].inputs # inputs
         \/ \E i \in inputs : v[rest][i].broken) = ~Sound(facts, left, id)
    <3> HIDE DEF v, ev
    <3> QED BY <2>1, SoundStep
  <2> HIDE DEF v, ev
  <2> QED BY <2>2, <2>3, <2>4 DEF Visit
<1>2. v = [left \in SUBSET DOMAIN facts |-> [id \in left |-> Visit(facts, v, left, id)]]
  BY <1>1 DEF Solution
<1> QED BY <1>2 DEF Solves

\* The validator finds the evidence of everything that a fact rests on, and calls it broken
\* if and only if that is not complete, down to observations and without a circle.
LEMMA SupportOf ==
  ASSUME NEW facts, IsFiniteSet(DOMAIN facts), NEW id \in DOMAIN facts
  PROVE  /\ FactSupport(facts)[id].evidence =
              UNION {facts[g].evidence : g \in Reached(facts, DOMAIN facts, id)}
         /\ FactSupport(facts)[id].broken = ~Sound(facts, DOMAIN facts, id)
<1> DEFINE v == CHOOSE v : Solves(facts, v)
<1>1. Solves(facts, v)
  BY SolutionSolves
<1>2. v = Solution(facts)
  <2> HIDE DEF v
  <2> QED BY <1>1, SolutionSolves, OneSolution
<1>3. FactSupport(facts)[id] = Solution(facts)[DOMAIN facts][id]
  BY <1>2, SupportSolves
<1> QED BY <1>3 DEF Solution

---------------------------------------------------------------------------
(***************************************************************************)
(* What a claim that passes rests on.                                      *)
(***************************************************************************)

\* Facts of the tools: each is factual and has evidence, and is not computed from policies.
PlainFacts ==
    /\ IsFiniteSet(DOMAIN packet.facts)
    /\ \A f \in DOMAIN packet.facts :
         /\ packet.facts[f].factual = TRUE
         /\ packet.facts[f].evidence # {}
         /\ packet.facts[f].wording \in Wordings
         /\ \A i \in packet.facts[f].inputs : i[1] # "policy"

\* The least set that holds some facts of the packet and what they need.
ClosedFacts(facts) ==
    {S \in SUBSET (DOMAIN packet.facts \cup facts) :
       /\ facts \subseteq S
       /\ \A f \in S \cap DOMAIN packet.facts : packet.facts[f].inputs \subseteq S}

\* Whatever holds the facts and what they need holds what they rest on.
LEMMA RestsInside ==
  ASSUME NEW facts, NEW S \in ClosedFacts(facts)
  PROVE  Rests(facts) \subseteq S
BY DEF Rests, ClosedFacts

\* What facts rest on, when the validator calls none of them broken.
LEMMA BasisSound ==
  ASSUME NEW facts \in SUBSET DOMAIN packet.facts,
         \A f \in facts : Sound(packet.facts, DOMAIN packet.facts, f)
  PROVE  /\ Rests(facts) \subseteq DOMAIN packet.facts
         /\ WellFounded(Rests(facts))
         /\ \A g \in Rests(facts) :
              /\ packet.facts[g].derived => packet.facts[g].inputs # {}
              /\ packet.facts[g].inputs \subseteq Rests(facts)
              /\ \E f \in facts : g \in Reached(packet.facts, DOMAIN packet.facts, f)
<1> DEFINE D == DOMAIN packet.facts
           good == UNION {S \in SUBSET D : Unbroken(packet.facts, S)}
           reached == {g \in good : \E f \in facts : g \in Reached(packet.facts, D, f)}
<1>1. Unbroken(packet.facts, good)
  BY UnbrokenUnion
<1>2. facts \subseteq good /\ good \subseteq D
  BY DEF Sound
<1> HIDE DEF good
<1>3. facts \subseteq reached
  BY <1>2, ReachedCloses
<1>4. ASSUME NEW g \in reached, NEW i \in packet.facts[g].inputs PROVE i \in reached
  <2>1. i \in good
    BY <1>1, <1>4 DEF Unbroken
  <2>2. PICK f \in facts : g \in Reached(packet.facts, D, f)
    OBVIOUS
  <2>3. i \in Reached(packet.facts, D, f)
    BY <2>1, <2>2, <1>2, <1>4, ReachedCloses DEF ClosedIn
  <2> QED BY <2>1, <2>3
<1>5. reached \in ClosedFacts(facts)
  BY <1>2, <1>3, <1>4 DEF ClosedFacts
<1>6. Rests(facts) \subseteq reached
  BY <1>5, RestsInside
<1>7. WellFounded(Rests(facts))
  <2>1. ASSUME NEW T \in (SUBSET Rests(facts)) \ {{}}
        PROVE  \E f \in T : packet.facts[f].inputs \cap T = {}
    BY <1>1, <1>6 DEF Unbroken
  <2> QED BY <2>1 DEF WellFounded
<1>8. ASSUME NEW g \in Rests(facts), NEW i \in packet.facts[g].inputs PROVE i \in Rests(facts)
  <2>1. \A S \in ClosedFacts(facts) : i \in S
    BY <1>2, <1>6, <1>8 DEF Rests, ClosedFacts
  <2>2. i \in D
    BY <2>1, <1>2, <1>5
  <2> QED BY <2>1, <2>2 DEF Rests, ClosedFacts
<1> QED BY <1>1, <1>2, <1>6, <1>7, <1>8 DEF Unbroken

\* What a fact reaches is among what it rests on.
LEMMA ReachedRests ==
  ASSUME NEW f \in DOMAIN packet.facts
  PROVE  Reached(packet.facts, DOMAIN packet.facts, f) \subseteq Rests({f})
<1>1. ASSUME NEW g \in Reached(packet.facts, DOMAIN packet.facts, f), NEW S \in ClosedFacts({f})
      PROVE  g \in S
  <2>1. S \in SUBSET DOMAIN packet.facts /\ f \in S
    BY <1>1 DEF ClosedFacts
  <2>2. ClosedIn(packet.facts, S, DOMAIN packet.facts)
    BY <2>1, <1>1 DEF ClosedFacts, ClosedIn
  <2> QED BY <2>1, <2>2, <1>1 DEF Reached
<1>2. \A g \in Reached(packet.facts, DOMAIN packet.facts, f) : g \in DOMAIN packet.facts
  BY DEF Reached
<1> QED BY <1>1, <1>2 DEF Rests, ClosedFacts

\* Whatever a claim binds: if the validator lets it pass, what it says holds all the way
\* down, on reviewed evidence of the packet, and it cites some for each of its facts.
LEMMA PassedIsGrounded ==
  ASSUME PlainFacts, NEW c, Passes(packet, c), c.wording \in Wordings
  PROVE  /\ c.facts \in SUBSET DOMAIN packet.facts
         /\ Rests(c.facts) \subseteq DOMAIN packet.facts
         /\ WellFounded(Rests(c.facts))
         /\ \A f \in Rests(c.facts) :
              /\ packet.facts[f].derived => packet.facts[f].inputs # {}
              /\ \A e \in packet.facts[f].evidence :
                   e \in DOMAIN packet.evidence /\ packet.evidence[e] = "verified"
              /\ f[1] = "policy" => f \in c.facts
         /\ \A f \in c.facts :
              /\ c.evidence \cap DOMAIN packet.evidence
                   \cap UNION {packet.facts[g].evidence : g \in Rests({f})} # {}
              /\ \E a \in c.atoms : f \in a.facts /\ a.match = "exact"
         /\ c.wording = "faithful"
<1> DEFINE D == DOMAIN packet.facts
           reached(f) == Reached(packet.facts, D, f)
           evidence(f) == UNION {packet.facts[g].evidence : g \in reached(f)}
<1>1. c.facts # {} /\ c.facts \in SUBSET D /\ Bound(packet, c) = c.facts
  BY DEF Passes, FactsKnown, Bound
<1>2. Factual(packet, c)
  BY <1>1 DEF Factual, PlainFacts
<1>3. Grounded(packet, c) /\ Stated(packet, c) /\ \A a \in c.atoms : AtomMatches(packet, c, a)
  BY <1>2 DEF Passes
<1>4. \A f \in c.facts : Support(packet, f) = evidence(f) /\ Broken(packet, f) = ~Sound(packet.facts, D, f)
  BY <1>1, SupportOf DEF Support, Broken, PlainFacts
<1>5. \A f \in c.facts : Sound(packet.facts, D, f)
  BY <1>1, <1>3, <1>4 DEF Grounded
<1>6. /\ Rests(c.facts) \subseteq D
      /\ WellFounded(Rests(c.facts))
      /\ \A g \in Rests(c.facts) : /\ packet.facts[g].derived => packet.facts[g].inputs # {}
                                   /\ packet.facts[g].inputs \subseteq Rests(c.facts)
                                   /\ \E f \in c.facts : g \in reached(f)
  BY <1>1, <1>5, BasisSound
<1>7. ASSUME NEW g \in Rests(c.facts), NEW e \in packet.facts[g].evidence
      PROVE  e \in DOMAIN packet.evidence /\ packet.evidence[e] = "verified"
  <2>1. PICK f \in c.facts : g \in reached(f)
    BY <1>6
  <2>2. e \in Reachable(packet, c)
    BY <2>1, <1>1, <1>4, <1>7 DEF Reachable
  <2> QED BY <2>2, <1>3 DEF Grounded
<1>8. ASSUME NEW g \in Rests(c.facts), g[1] = "policy" PROVE g \in c.facts
  <2> DEFINE S == {h \in Rests(c.facts) : h[1] = "policy" => h \in c.facts}
  <2>1. c.facts \subseteq Rests(c.facts)
    BY DEF Rests
  <2>3. S \in ClosedFacts(c.facts)
    BY <2>1, <1>6 DEF ClosedFacts, PlainFacts
  <2> QED BY <2>3, <1>8, RestsInside
<1>9. ASSUME NEW f \in c.facts
      PROVE  /\ c.evidence \cap DOMAIN packet.evidence
                  \cap UNION {packet.facts[g].evidence : g \in Rests({f})} # {}
             /\ \E a \in c.atoms : f \in a.facts /\ a.match = "exact"
  <2>1. evidence(f) # {}
    <3>1. f \in reached(f) /\ packet.facts[f].evidence # {}
      BY <1>1, ReachedCloses DEF PlainFacts
    <3> QED BY <3>1
  <2>2. PICK e \in c.evidence : e \in evidence(f)
    BY <2>1, <1>1, <1>3, <1>4 DEF Grounded
  <2>3. e \in DOMAIN packet.evidence
    BY <2>2 DEF Passes, CitationsLinked
  <2>4. \E g \in Rests({f}) : e \in packet.facts[g].evidence
    BY <2>2, <1>1, ReachedRests
  <2>5. \E a \in c.atoms : f \in a.facts /\ a.match = "exact"
    BY <1>1, <1>3 DEF Stated, AtomMatches, PlainFacts
  <2> QED BY <2>2, <2>3, <2>4, <2>5
<1>10. c.wording = "faithful"
  BY <1>2 DEF Passes, Wordings
<1> QED BY <1>1, <1>6, <1>7, <1>8, <1>9, <1>10

---------------------------------------------------------------------------
(***************************************************************************)
(* The pipeline.                                                           *)
(***************************************************************************)

\* Every candidate is a verified section in scope.
FoundSound ==
    found # None =>
      /\ "policy" \in request.outputs
      /\ found.candidates \in Seq(Verified(corpus, request))

\* What a fact of the packet is there for.  The gate has looked at the authority of the
\* sections only if it found the policy covered.
PacketSound ==
    /\ PlainFacts
    /\ \A f \in DOMAIN packet.facts :
         IF f[1] = "policy"
           THEN /\ "policy" \in request.outputs
                /\ "policy" \in fulfilled => Quotable(f[2])
           ELSE "progress" \in request.outputs
    /\ fulfilled # {}
    /\ "policy" \in fulfilled =>
         /\ Excerpts \subseteq Nat
         /\ \E k \in Excerpts : /\ \A l \in Excerpts : k <= l
                                /\ packet.order[k] = <<"policy", found.candidates[1]>>

DraftSound ==
    IF model THEN ModelWrites /\ draft \in ModelDrafts ELSE draft = PlainDraft

AnswerSound ==
    answer # None => pc = "done" /\ PacketSound /\ DraftSound /\ answer = Validated(packet, draft)

\* What the ranking passed over, as NotDisplaced states it.
PassedOver(c, r, mode, s, candidates) ==
    LET eligible == Verified(c, r)
        shown == ToSet(candidates)
        full == Len(candidates) = r.topK
    IN /\ shown \subseteq eligible
       /\ \A i \in eligible \ shown :
            IF mode = "lexical"
              THEN s.bm25[i] = 0 \/ (full /\ \A j \in shown : Better(s.bm25, i, j))
              ELSE \/ s.reranker[i] < MinScore
                   \/ full
                   \/ Cardinality({j \in eligible : BetterByWords(s.bm25, i, j) \/ Better(s.cosine, i, j)})
                        >= r.topK * FuseFetch

RankedSound ==
    scores # None =>
      pc = "gather" /\ PassedOver(corpus, request, found.mode, scores, found.candidates)

Inv ==
    /\ corpus \in Corpora /\ request \in Requests
    /\ fulfilled \subseteq request.outputs
    /\ pc \in {"retrieve", "gather", "draft", "validate", "done"}
    /\ pc = "retrieve" => "policy" \in request.outputs /\ scores = None
    /\ pc \in {"retrieve", "gather", "draft"} => ~model
    /\ FoundSound
    /\ pc \in {"draft", "validate"} => PacketSound
    /\ pc = "validate" => DraftSound
    /\ AnswerSound
    /\ RankedSound

\* An eligible section, under the identifier it is kept by.
LEMMA EligibleSection ==
  ASSUME NEW c \in Corpora, NEW r, NEW i \in Verified(c, r)
  PROVE  /\ Document(c, i) \in Scoped(c, r) /\ Document(c, i) \in c
         /\ Document(c, i).chunk = i /\ Document(c, i).review = "verified"
         /\ i \in Nat
<1>1. PICK d \in Scoped(c, r) : d.chunk = i /\ d.review = "verified"
  BY DEF Verified
<1>2. d \in c
  BY DEF Scoped, Matching, RetrievalDocuments
<1>3. Document(c, i) = d
  BY <1>1, <1>2, AnswersAssumption DEF Document
<1> QED BY <1>1, <1>2, <1>3, AnswersAssumption

\* The packet of the policy tool holds eligible sections, and no others.
LEMMA PolicyFacts ==
  ASSUME NEW c \in Corpora, NEW r, NEW candidates \in Seq(Verified(c, r))
  PROVE  LET p == PolicyPacket(c, r, candidates) IN
         /\ IsFiniteSet(DOMAIN p.facts)
         /\ \A f \in DOMAIN p.facts :
              /\ f = <<"policy", f[2]>> /\ f[2] \in Verified(c, r)
              /\ p.facts[f] = PolicyFact(Document(c, f[2]))
              /\ p.ok => Document(c, f[2]).authority >= 1
         /\ p.ok => /\ candidates # <<>>
                    /\ p.order = [k \in DOMAIN candidates |-> <<"policy", candidates[k]>>]
<1> DEFINE p == PolicyPacket(c, r, candidates)
           rows == SelectSeq(candidates, LAMBDA i : ScopeMatches(Document(c, i), r))
           docs == {Document(c, i) : i \in {j \in ToSet(candidates) : ScopeMatches(Document(c, j), r)}}
<1>1. ASSUME NEW d \in docs
      PROVE  d \in c /\ d.chunk \in Verified(c, r) /\ Document(c, d.chunk) = d
  <2>1. PICK i \in ToSet(candidates) : d = Document(c, i)
    OBVIOUS
  <2>2. i \in Verified(c, r)
    BY <2>1 DEF ToSet
  <2> QED BY <2>1, <2>2, EligibleSection
<1>2. IsFiniteSet({<<"policy", d.chunk>> : d \in docs})
  <2>1. IsFiniteSet(docs)
    BY <1>1, FS_Subset, AnswersAssumption
  <2> DEFINE S == {<<"policy", d.chunk>> : d \in docs}
             g == [d \in docs |-> <<"policy", d.chunk>>]
  <2>2. g \in Surjection(docs, S)
    BY DEF Surjection
  <2> QED BY <2>1, <2>2, FS_Surjection
<1>3. /\ DOMAIN p.facts = {<<"policy", d.chunk>> : d \in docs}
      /\ \A f \in DOMAIN p.facts : p.facts[f] = PolicyFact(Document(c, f[2]))
  BY DEF PolicyPacket
<1>4. p.ok => rows # <<>> /\ rows = candidates /\ \A d \in docs : d.authority >= 1
  BY DEF PolicyPacket
<1>5. p.order = [k \in DOMAIN rows |-> <<"policy", rows[k]>>]
  BY DEF PolicyPacket
<1> HIDE DEF p, rows, docs
<1>6. \A f \in DOMAIN p.facts : \E d \in docs : f = <<"policy", d.chunk>>
  BY <1>3
<1>7. \A f \in DOMAIN p.facts : /\ f = <<"policy", f[2]>> /\ f[2] \in Verified(c, r)
                                /\ p.ok => Document(c, f[2]).authority >= 1
  BY <1>1, <1>4, <1>6
<1> QED BY <1>2, <1>3, <1>4, <1>5, <1>7 DEF p

\* The packet of the audit holds facts of its own, computed from one another only.
LEMMA AuditFacts ==
  ASSUME NEW counted \in BOOLEAN, NEW flaw
  PROVE  LET p == Audit(counted, flaw) IN
         /\ IsFiniteSet(DOMAIN p.facts)
         /\ \A f \in DOMAIN p.facts :
              /\ f[1] = "audit"
              /\ p.facts[f].factual = TRUE /\ p.facts[f].wording \in Wordings
              /\ p.facts[f].evidence # {}
              /\ \A i \in p.facts[f].inputs : i[1] = "audit"
         /\ p.order \in Seq({"audit"} \X {"credits", "required", "completed", "remaining"})
<1> DEFINE p == Audit(counted, flaw)
           all == {"credits", "required", "completed", "remaining"}
           names == (IF counted THEN <<"credits">> ELSE <<>>)
                    \o (IF flaw = "lost fact" THEN <<>> ELSE <<"required">>) \o <<"completed", "remaining">>
           id(name) == <<"audit", name>>
           plan == {<<"plan", 1>>}
           course == {<<"plan", 2>>}
           taken == IF counted THEN course ELSE plan
           of == [credits |-> AuditFact(FALSE, {}, {"course"}, course),
                  required |-> AuditFact(FALSE, {}, {"requirement"}, plan),
                  completed |-> AuditFact(counted,
                    IF ~counted THEN {} ELSE {id(IF flaw = "cycle" THEN "remaining" ELSE "credits")},
                    {"requirement"}, taken),
                  remaining |-> AuditFact(TRUE, {id("required"), id("completed")}, {"requirement"}, plan \cup taken)]
<1>1. names \in Seq(all)
  <2> DEFINE first == IF counted THEN <<"credits">> ELSE <<>>
             second == IF flaw = "lost fact" THEN <<>> ELSE <<"required">>
  <2>1. <<"credits">> \in Seq(all) /\ <<"required">> \in Seq(all) /\ <<>> \in Seq(all)
    OBVIOUS
  <2>2. <<"completed", "remaining">> \in Seq(all)
    OBVIOUS
  <2>3. first \in Seq(all) /\ second \in Seq(all)
    <3> HIDE DEF all
    <3> QED BY <2>1
  <2> HIDE DEF all, first, second
  <2>4. first \o second \o <<"completed", "remaining">> \in Seq(all)
    BY <2>2, <2>3
  <2> QED BY <2>4 DEF first, second
<1>2. /\ p.order = [k \in DOMAIN names |-> id(names[k])]
      /\ p.facts = [f \in {id(n) : n \in ToSet(names)} |-> of[f[2]]]
  BY DEF Audit
<1>3. ToSet(names) \subseteq all
  <2> HIDE DEF names, all
  <2> QED BY <1>1 DEF ToSet
<1>4. \A n \in all : /\ of[n].factual = TRUE /\ of[n].wording = "faithful" /\ of[n].evidence # {}
                     /\ \A i \in of[n].inputs : i[1] = "audit"
  <2> DEFINE fine(n) == /\ of[n].factual = TRUE /\ of[n].wording = "faithful"
                        /\ of[n].evidence # {} /\ \A i \in of[n].inputs : i[1] = "audit"
             inputs == IF ~counted THEN {} ELSE {id(IF flaw = "cycle" THEN "remaining" ELSE "credits")}
  <2>1. fine("credits")
    BY DEF AuditFact
  <2>2. fine("required")
    BY DEF AuditFact
  <2>3. fine("completed")
    <3>1. of["completed"] = AuditFact(counted, inputs, {"requirement"}, taken)
      OBVIOUS
    <3>2. taken # {}
      OBVIOUS
    <3>3. \A i \in inputs : i[1] = "audit"
      OBVIOUS
    <3> HIDE DEF of, inputs, taken
    <3> QED BY <3>1, <3>2, <3>3 DEF AuditFact
  <2>4. fine("remaining")
    <3>1. of["remaining"] =
            AuditFact(TRUE, {id("required"), id("completed")}, {"requirement"}, plan \cup taken)
      OBVIOUS
    <3>2. plan \cup taken # {}
      OBVIOUS
    <3>3. \A i \in {id("required"), id("completed")} : i[1] = "audit"
      OBVIOUS
    <3> HIDE DEF of, taken, plan, id
    <3> QED BY <3>1, <3>2, <3>3 DEF AuditFact
  <2> HIDE DEF of
  <2> QED BY <2>1, <2>2, <2>3, <2>4
<1> HIDE DEF p, names, of
<1>5. IsFiniteSet({id(n) : n \in ToSet(names)})
  <2>1. IsFiniteSet({id("credits")} \cup {id("required")} \cup {id("completed")} \cup {id("remaining")})
    <3>1. IsFiniteSet({id("credits")})
      BY FS_Singleton
    <3>2. IsFiniteSet({id("credits")} \cup {id("required")})
      BY <3>1, FS_AddElement
    <3>3. IsFiniteSet({id("credits")} \cup {id("required")} \cup {id("completed")})
      BY <3>2, FS_AddElement
    <3> QED BY <3>3, FS_AddElement
  <2>2. {id(n) : n \in ToSet(names)} \subseteq
          {id("credits")} \cup {id("required")} \cup {id("completed")} \cup {id("remaining")}
    BY <1>3
  <2> QED BY <2>1, <2>2, FS_Subset
<1>6. ASSUME NEW f \in DOMAIN p.facts
      PROVE  /\ f[1] = "audit" /\ p.facts[f].factual = TRUE /\ p.facts[f].wording \in Wordings
             /\ p.facts[f].evidence # {} /\ \A i \in p.facts[f].inputs : i[1] = "audit"
  <2>1. PICK n \in ToSet(names) : f = id(n)
    BY <1>2, <1>6
  <2>2. p.facts[f] = of[n] /\ n \in all
    BY <1>2, <1>3, <2>1
  <2> HIDE DEF all
  <2> QED BY <2>1, <2>2, <1>4 DEF Wordings
<1>7. p.order \in Seq({"audit"} \X all)
  <2> HIDE DEF all
  <2> QED BY <1>1, <1>2
<1> QED BY <1>2, <1>5, <1>6, <1>7 DEF p

\* The first excerpt of a packet.
Leads(order, f) ==
    LET excerpts == {k \in DOMAIN order : order[k][1] = "policy"} IN
    /\ excerpts \subseteq Nat
    /\ \E k \in excerpts : (\A l \in excerpts : k <= l) /\ order[k] = f

\* In a merged packet it is the first one of the policy tool.
LEMMA FirstExcerpt ==
  ASSUME NEW p \in Seq({"policy"} \X Nat), p # <<>>, NEW a, NEW q \in Seq({"audit"} \X a),
         NEW order, order = p \o q \/ order = q \o p
  PROVE  Leads(order, p[1])
<1>1. \A k \in DOMAIN p : p[k][1] = "policy"
  OBVIOUS
<1>2. \A k \in DOMAIN q : q[k][1] = "audit"
  OBVIOUS
<1>3. CASE order = p \o q
  <2>1. 1 \in DOMAIN order /\ order[1] = p[1]
    BY <1>3
  <2>2. DOMAIN order \subseteq Nat /\ \A l \in DOMAIN order : 1 <= l
    BY <1>3
  <2> QED BY <1>1, <2>1, <2>2 DEF Leads
<1>4. CASE order = q \o p
  <2> DEFINE k == Len(q) + 1
  <2>1. k \in DOMAIN order /\ order[k] = p[1]
    BY <1>4
  <2>2. DOMAIN order \subseteq Nat
    BY <1>4
  <2>3. \A l \in DOMAIN order : l < k => order[l][1] = "audit"
    BY <1>2, <1>4
  <2>4. k \in Nat /\ p[1][1] = "policy"
    BY <1>1
  <2> HIDE DEF k
  <2>5. ASSUME NEW l \in DOMAIN order, order[l][1] = "policy" PROVE k <= l
    <3>1. ~(l < k)
      BY <2>3, <2>5
    <3> QED BY <2>2, <2>4, <3>1
  <2>6. order[k][1] = "policy"
    BY <2>1, <2>4
  <2> QED BY <2>1, <2>2, <2>5, <2>6 DEF Leads
<1> QED BY <1>3, <1>4

\* A section of a packet that the gate finds covered may be quoted.
LEMMA EligibleQuotable ==
  ASSUME Inv, NEW i \in Verified(corpus, request), Document(corpus, i).authority >= 1
  PROVE  Quotable(i)
<1> DEFINE d == Document(corpus, i)
<1>1. d \in Scoped(corpus, request) /\ d \in corpus /\ d.chunk = i /\ d.review = "verified"
  BY EligibleSection DEF Inv
<1>2. d \in Matching(corpus, request) /\ \A newer \in Matching(corpus, request) : newer.supersedes # d.source
  BY <1>1 DEF Scoped
<1>3. d.docType \in PolicyTypes /\ InForce(d, request) /\ ScopeMatches(d, request)
  BY <1>2 DEF Matching, RetrievalDocuments
<1> QED BY <1>1, <1>2, <1>3 DEF Quotable

---------------------------------------------------------------------------
(***************************************************************************)
(* Rankings and their cuts.                                                *)
(***************************************************************************)

\* What a ranking of ids keeps: something that it does not keep stands below all it keeps,
\* and it keeps as many as it may.
Kept(t, ids, above, limit) ==
    /\ t \in Seq(ids)
    /\ Len(t) <= limit
    /\ \A p, q \in DOMAIN t : p < q => <<t[p], t[q]>> \in above
    /\ \A i \in ids \ ToSet(t) : Len(t) = limit /\ \A k \in DOMAIN t : <<t[k], i>> \in above

\* Nothing stands twice in a ranking.
LEMMA OnceInRanking ==
  ASSUME NEW above, \A x : <<x, x>> \notin above, NEW ids, NEW t \in Seq(ids),
         \A p, q \in DOMAIN t : p < q => <<t[p], t[q]>> \in above
  PROVE  \A p, q \in DOMAIN t : t[p] = t[q] => p = q
<1>1. ASSUME NEW p \in DOMAIN t, NEW q \in DOMAIN t, t[p] = t[q], p < q PROVE FALSE
  <2>1. <<t[p], t[q]>> \in above
    BY <1>1
  <2>2. <<t[p], t[p]>> \in above
    BY <2>1, <1>1
  <2> QED BY <2>2
<1>2. \A p, q \in DOMAIN t : p \in Nat /\ q \in Nat
  OBVIOUS
<1> QED BY <1>1, <1>2

\* A sorted sequence, cut.
LEMMA CutKept ==
  ASSUME NEW ids, IsFiniteSet(ids), NEW above, \A x : <<x, x>> \notin above,
         NEW limit \in Nat, NEW s \in Sorted(ids, above)
  PROVE  Kept(Atmost(s, limit), ids, above, limit)
<1> DEFINE n == Cardinality(ids)
           t == Atmost(s, limit)
           m == IF limit < n THEN limit ELSE n
<1>1. /\ n \in Nat /\ s \in [1..n -> ids]
      /\ \A p, q \in 1..n : p < q => <<s[p], s[q]>> \in above
  BY FS_CardinalityType DEF Sorted
<1> HIDE DEF n
<1>2. s \in Seq(ids) /\ Len(s) = n
  BY <1>1
<1>3. \A i \in ids : \E q \in 1..n : s[q] = i
  <2>1. \A p, q \in DOMAIN s : s[p] = s[q] => p = q
    BY <1>1, <1>2, OnceInRanking
  <2>2. s \in Injection(1..n, ids)
    BY <1>1, <2>1 DEF Injection, IsInjective
  <2>3. Cardinality(1..n) = n
    BY <1>1, FS_Interval
  <2>4. s \in Surjection(1..n, ids)
    BY <2>2, <2>3, FS_Injection DEF n
  <2> QED BY <2>4 DEF Surjection
<1>4. m \in Nat /\ m <= n /\ m <= limit
  BY <1>1
<1>5. t = [k \in 1..m |-> s[k]]
  BY <1>1, <1>2, <1>4 DEF Atmost
<1> HIDE DEF t, m
<1>6. t \in Seq(ids) /\ Len(t) = m
  BY <1>1, <1>4, <1>5
<1>7. ASSUME NEW i \in ids \ ToSet(t)
      PROVE  Len(t) = limit /\ \A k \in DOMAIN t : <<t[k], i>> \in above
  <2>1. PICK q \in 1..n : s[q] = i
    BY <1>3
  <2>2. q \notin 1..m
    BY <2>1, <1>5 DEF ToSet
  <2>3. m < q /\ m < n
    BY <2>2, <1>1, <1>4
  <2>4. m = limit
    BY <2>3, <1>1 DEF m
  <2>5. \A k \in 1..m : k \in 1..n /\ k < q
    BY <2>3, <1>1, <1>4
  <2> QED BY <2>1, <2>4, <2>5, <1>1, <1>5, <1>6
<1>8. \A p, q \in DOMAIN t : p < q => <<t[p], t[q]>> \in above
  BY <1>1, <1>4, <1>5
<1> QED BY <1>4, <1>6, <1>7, <1>8 DEF Kept, t

\* The order by score is a strict one, and as the property states it.
LEMMA ByScoreStrict ==
  ASSUME NEW ids \in SUBSET Nat, NEW score, \A i \in ids : score[i] \in Int
  PROVE  /\ \A x : <<x, x>> \notin ByScore(ids, score)
         /\ \A i, j \in ids : /\ <<j, i>> \in ByScore(ids, score) <=> Better(score, i, j)
                              /\ i # j /\ ~Better(score, i, j) => Better(score, j, i)
                              /\ Better(score, i, j) => ~Better(score, j, i)
<1>1. ASSUME NEW x, <<x, x>> \in ByScore(ids, score) PROVE FALSE
  <2>1. x \in ids /\ (score[x] > score[x] \/ x < x)
    BY <1>1 DEF ByScore
  <2>2. x \in Nat /\ score[x] \in Int
    BY <2>1
  <2> QED BY <2>1, <2>2
<1>2. ASSUME NEW i \in ids, NEW j \in ids
      PROVE  /\ <<j, i>> \in ByScore(ids, score) <=> Better(score, i, j)
             /\ i # j /\ ~Better(score, i, j) => Better(score, j, i)
             /\ Better(score, i, j) => ~Better(score, j, i)
  <2>1. <<j, i>> \in ids \X ids /\ score[i] \in Int /\ score[j] \in Int /\ i \in Nat /\ j \in Nat
    BY <1>2
  <2>2. <<j, i>> \in ByScore(ids, score) <=> Better(score, i, j)
    BY <2>1 DEF ByScore, Better
  <2> QED BY <2>1, <2>2 DEF Better
<1> QED BY <1>1, <1>2

\* A ranking by score keeps the best.
LEMMA RankedKept ==
  ASSUME NEW ids \in SUBSET Nat, IsFiniteSet(ids), NEW score, \A i \in ids : score[i] \in Int,
         NEW limit \in Nat, NEW t \in Ranked(ids, score, limit)
  PROVE  Kept(t, ids, ByScore(ids, score), limit)
<1>1. PICK s \in Sorted(ids, ByScore(ids, score)) : t = Atmost(s, limit)
  BY DEF Ranked
<1> QED BY <1>1, CutKept, ByScoreStrict

\* A cut of what a ranking keeps.
LEMMA CutAgain ==
  ASSUME NEW ids, NEW above, NEW limit \in Nat, NEW n \in Nat, n <= limit,
         NEW t, Kept(t, ids, above, limit)
  PROVE  Kept(Atmost(t, n), ids, above, n)
<1> DEFINE m == IF n < Len(t) THEN n ELSE Len(t)
           u == Atmost(t, n)
<1>1. /\ t \in Seq(ids) /\ Len(t) \in Nat /\ Len(t) <= limit
      /\ \A p, q \in 1..Len(t) : p < q => <<t[p], t[q]>> \in above
      /\ \A i \in ids \ ToSet(t) : Len(t) = limit /\ \A k \in 1..Len(t) : <<t[k], i>> \in above
  BY DEF Kept
<1>2. m \in Nat /\ m <= Len(t) /\ m <= n
  BY <1>1
<1>3. u = [k \in 1..m |-> t[k]]
  BY <1>1, <1>2 DEF Atmost
<1> HIDE DEF u
<1>4. u \in Seq(ids) /\ Len(u) = m
  <2> HIDE DEF m
  <2> QED BY <1>1, <1>2, <1>3
<1>5. ASSUME NEW i \in ids \ ToSet(u)
      PROVE  Len(u) = n /\ \A k \in DOMAIN u : <<u[k], i>> \in above
  <2>1. CASE i \in ToSet(t)
    <3>1. PICK q \in 1..Len(t) : t[q] = i
      BY <2>1, <1>1 DEF ToSet
    <3>2. q \notin 1..m
      BY <3>1, <1>3 DEF ToSet
    <3>3. m < q /\ m = n
      BY <3>1, <3>2, <1>1, <1>2
    <3>4. \A k \in 1..m : k \in 1..Len(t) /\ k < q
      BY <3>1, <3>3, <1>1, <1>2
    <3> HIDE DEF m
    <3> QED BY <3>1, <3>3, <3>4, <1>1, <1>3, <1>4
  <2>2. CASE i \notin ToSet(t)
    <3>1. Len(t) = limit /\ \A k \in 1..Len(t) : <<t[k], i>> \in above
      BY <2>2, <1>1
    <3>2. m = n
      BY <3>1, <1>1
    <3>3. \A k \in 1..m : k \in 1..Len(t)
      BY <1>1, <1>2
    <3> HIDE DEF m
    <3> QED BY <3>1, <3>2, <3>3, <1>3, <1>4
  <2> QED BY <2>1, <2>2
<1>6. \A p, q \in DOMAIN u : p < q => <<u[p], u[q]>> \in above
  <2>1. \A k \in 1..m : k \in 1..Len(t)
    BY <1>1, <1>2
  <2> HIDE DEF m
  <2> QED BY <2>1, <1>1, <1>3
<1> HIDE DEF m
<1> QED BY <1>2, <1>4, <1>5, <1>6 DEF Kept, u

\* The sections that may be returned, and what rankings judge them by.
LEMMA EligibleScored ==
  ASSUME NEW c \in Corpora, NEW r
  PROVE  /\ Verified(c, r) \in SUBSET Nat /\ IsFiniteSet(Verified(c, r))
         /\ \A mode \in DOMAIN Scores : \A s \in Scores[mode], i \in Verified(c, r) :
              /\ s.bm25[i] \in Int
              /\ mode = "hybrid" => s.cosine[i] \in Int /\ s.reranker[i] \in Int
<1> DEFINE docs == {e \in Scoped(c, r) : e.review = "verified"}
<1>1. docs \subseteq c
  BY DEF Scoped, Matching, RetrievalDocuments
<1>2. Verified(c, r) = {d.chunk : d \in docs}
  BY DEF Verified
<1> HIDE DEF docs
<1>3. IsFiniteSet(Verified(c, r))
  <2>1. IsFiniteSet(docs)
    BY <1>1, FS_Subset, AnswersAssumption
  <2> DEFINE g == [d \in docs |-> d.chunk]
  <2>2. g \in Surjection(docs, Verified(c, r))
    BY <1>2 DEF Surjection
  <2> QED BY <2>1, <2>2, FS_Surjection
<1>4. \A i \in Verified(c, r) : \E d \in c : d.chunk = i
  BY <1>1, <1>2
<1> QED BY <1>3, <1>4, AnswersAssumption

\* A multiple.
LEMMA Multiple ==
  ASSUME NEW k \in Nat, NEW a \in Nat \ {0}, NEW b \in Nat, a <= b
  PROVE  k * a \in Nat /\ k * b \in Nat /\ k <= k * a /\ k * a <= k * b
<1>1. k * b = k * a + k * (b - a) /\ k * (b - a) \in Nat
  OBVIOUS
<1>2. k * a = k + k * (a - 1) /\ k * (a - 1) \in Nat
  OBVIOUS
<1> QED BY <1>1, <1>2

\* In lexical mode nothing but better sections displaces one that shares words with the question.
LEMMA LexicalSound ==
  ASSUME NEW c \in Corpora, NEW r \in Requests, "lexical" \in DOMAIN Scores,
         NEW s \in Scores["lexical"], NEW candidates \in LexicalCandidates(c, r, s)
  PROVE  candidates \in Seq(Verified(c, r)) /\ PassedOver(c, r, "lexical", s, candidates)
<1> DEFINE ids == {i \in Verified(c, r) : s.bm25[i] # 0}
           above == ByScore(ids, s.bm25)
<1>1. /\ r.topK \in Nat /\ r.topK * Overfetch \in Nat /\ r.topK <= r.topK * Overfetch
  BY AnswersAssumption, Multiple
<1>2. PICK lexical \in Ranked(ids, s.bm25, r.topK * Overfetch) : candidates = Atmost(lexical, r.topK)
  BY DEF LexicalCandidates, LexicalRank
<1>3. ids \in SUBSET Nat /\ IsFiniteSet(ids) /\ \A i \in ids : s.bm25[i] \in Int
  BY EligibleScored, FS_Subset
<1> HIDE DEF ids
<1>4. Kept(lexical, ids, above, r.topK * Overfetch)
  BY <1>1, <1>2, <1>3, RankedKept
<1>5. Kept(candidates, ids, above, r.topK)
  <2> HIDE DEF above
  <2> QED BY <1>1, <1>2, <1>4, CutAgain
<1>6. candidates \in Seq(Verified(c, r)) /\ ToSet(candidates) \subseteq ids /\ ids \subseteq Verified(c, r)
  <2>1. candidates \in Seq(ids)
    BY <1>5 DEF Kept
  <2>2. ids \subseteq Verified(c, r)
    BY DEF ids
  <2> QED BY <2>1, <2>2 DEF ToSet
<1>7. ASSUME NEW i \in Verified(c, r) \ ToSet(candidates), s.bm25[i] # 0
      PROVE  Len(candidates) = r.topK /\ \A j \in ToSet(candidates) : Better(s.bm25, i, j)
  <2>1. i \in ids
    BY <1>7 DEF ids
  <2>2. Len(candidates) = r.topK /\ \A k \in DOMAIN candidates : <<candidates[k], i>> \in above
    BY <2>1, <1>5, <1>7 DEF Kept
  <2>3. \A j \in ToSet(candidates) : <<j, i>> \in above
    BY <2>2 DEF ToSet
  <2> HIDE DEF above
  <2>4. \A j \in ids : <<j, i>> \in above <=> Better(s.bm25, i, j)
    BY <1>3, <2>1, ByScoreStrict DEF above
  <2> QED BY <1>6, <2>2, <2>3, <2>4
<1> QED BY <1>6, <1>7 DEF PassedOver

\* Of two sums of fractions, the one with the greater terms is the greater one.
LEMMA GreaterSum ==
  ASSUME NEW a1 \in Nat, NEW b1 \in Nat \ {0}, NEW c1 \in Nat, NEW d1 \in Nat \ {0},
         NEW a2 \in Nat, NEW b2 \in Nat \ {0}, NEW c2 \in Nat, NEW d2 \in Nat \ {0},
         a1 * b2 >= a2 * b1, c1 * d2 >= c2 * d1,
         a1 * b2 > a2 * b1 \/ c1 * d2 > c2 * d1
  PROVE  (a1 * d1 + c1 * b1) * (b2 * d2) > (a2 * d2 + c2 * b2) * (b1 * d1)
<1> DEFINE x == a1 * b2 - a2 * b1
           y == c1 * d2 - c2 * d1
           p == d1 * d2
           q == b1 * b2
<1>1. x \in Nat /\ y \in Nat /\ (x > 0 \/ y > 0)
  OBVIOUS
<1>2. p \in Nat /\ p > 0 /\ q \in Nat /\ q > 0
  <2>1. \A u, v \in Nat : u > 0 /\ v > 0 => u * v > 0
    OBVIOUS
  <2> QED BY <2>1
<1>3. (a1 * d1 + c1 * b1) * (b2 * d2) - (a2 * d2 + c2 * b2) * (b1 * d1) = x * p + y * q
  OBVIOUS
<1>4. x * p + y * q > 0
  <2> HIDE DEF x, y, p, q
  <2>1. x * p \in Nat /\ y * q \in Nat
    BY <1>1, <1>2
  <2>2. (x > 0 => x * p > 0) /\ (y > 0 => y * q > 0)
    BY <1>1, <1>2
  <2> QED BY <1>1, <2>1, <2>2
<1>5. (a1 * d1 + c1 * b1) * (b2 * d2) \in Int /\ (a2 * d2 + c2 * b2) * (b1 * d1) \in Int
  OBVIOUS
<1> HIDE DEF x, y, p, q
<1> QED BY <1>3, <1>4, <1>5

\* The share of a place in a ranking.
LEMMA ShareOf ==
  ASSUME NEW ids, NEW t \in Seq(ids), NEW i
  PROVE  /\ i \in ToSet(t) => \E p \in DOMAIN t : t[p] = i /\ Share(t, i) = [n |-> 1, d |-> 60 + p]
         /\ i \notin ToSet(t) => Share(t, i) = [n |-> 0, d |-> 1]
         /\ Share(t, i).n \in Nat /\ Share(t, i).d \in Nat \ {0}
<1>1. Contains(t, i) <=> i \in ToSet(t)
  BY DEF Contains, ToSet
<1>2. CASE i \in ToSet(t)
  <2> DEFINE p == CHOOSE p \in DOMAIN t : t[p] = i
  <2>1. p \in DOMAIN t /\ t[p] = i
    BY <1>2 DEF ToSet
  <2>2. Share(t, i) = [n |-> 1, d |-> 60 + p]
    BY <1>1, <1>2 DEF Share
  <2> HIDE DEF p
  <2> QED BY <1>2, <2>1, <2>2
<1>3. CASE i \notin ToSet(t)
  BY <1>1, <1>3 DEF Share
<1> QED BY <1>2, <1>3

\* Of two sections the better one has the greater share in a ranking that holds the other.
LEMMA BetterShare ==
  ASSUME NEW ids, NEW above, NEW limit \in Nat, NEW t, Kept(t, ids, above, limit),
         NEW i, NEW j, j \in ToSet(t) => i \in ids, <<j, i>> \notin above, i # j
  PROVE  /\ Share(t, i).n * Share(t, j).d >= Share(t, j).n * Share(t, i).d
         /\ j \in ToSet(t) => Share(t, i).n * Share(t, j).d > Share(t, j).n * Share(t, i).d
<1>1. t \in Seq(ids)
  BY DEF Kept
<1>2. CASE j \in ToSet(t)
  <2>1. PICK q \in DOMAIN t : t[q] = j /\ Share(t, j) = [n |-> 1, d |-> 60 + q]
    BY <1>1, <1>2, ShareOf
  <2>2. i \in ToSet(t)
    BY <1>2, <2>1 DEF Kept
  <2>3. PICK p \in DOMAIN t : t[p] = i /\ Share(t, i) = [n |-> 1, d |-> 60 + p]
    BY <1>1, <2>2, ShareOf
  <2>4. p \in Nat /\ q \in Nat
    BY <1>1, <2>1, <2>3
  <2>5. ~(q < p)
    BY <2>1, <2>3 DEF Kept
  <2>6. p < q
    BY <2>1, <2>3, <2>4, <2>5
  <2> QED BY <2>1, <2>3, <2>4, <2>6
<1>3. CASE j \notin ToSet(t)
  <2>1. Share(t, j) = [n |-> 0, d |-> 1] /\ Share(t, i).n \in Nat /\ Share(t, i).d \in Nat \ {0}
    BY <1>1, <1>3, ShareOf
  <2> QED BY <1>3, <2>1
<1> QED BY <1>2, <1>3

\* How far one section is ahead of another in the fused ranking.
LEMMA LeadType ==
  ASSUME NEW ids, NEW l \in Seq(ids), NEW c \in Seq(ids), NEW i, NEW j
  PROVE  /\ Lead(l, c, i, j) \in Int /\ Lead(l, c, i, i) = 0
         /\ Lead(l, c, i, j) = - Lead(l, c, j, i)
<1>1. \A k : Rrf(l, c, k).n \in Nat /\ Rrf(l, c, k).d \in Nat
  <2>1. ASSUME NEW k PROVE Rrf(l, c, k).n \in Nat /\ Rrf(l, c, k).d \in Nat
    <3>1. /\ Share(l, k).n \in Nat /\ Share(l, k).d \in Nat
          /\ Share(c, k).n \in Nat /\ Share(c, k).d \in Nat
      BY ShareOf
    <3>2. \A x, y \in Nat : x * y \in Nat /\ x + y \in Nat
      OBVIOUS
    <3> QED BY <3>1, <3>2 DEF Rrf
  <2> QED BY <2>1
<1>2. \A x, y \in Nat : x * y \in Nat
  OBVIOUS
<1> QED BY <1>1, <1>2 DEF Lead

\* What a fused ranking puts above a section beats it by words or by meaning.
LEMMA FusedAbove ==
  ASSUME NEW ids \in SUBSET Nat, NEW bm25, NEW cosine,
         \A i \in ids : bm25[i] \in Int /\ cosine[i] \in Int,
         NEW limit \in Nat,
         NEW l, Kept(l, {k \in ids : bm25[k] # 0}, ByScore({k \in ids : bm25[k] # 0}, bm25), limit),
         NEW c, Kept(c, ids, ByScore(ids, cosine), limit),
         NEW i \in ToSet(l) \cup ToSet(c), NEW j \in ToSet(l) \cup ToSet(c), i # j,
         Lead(l, c, j, i) >= 0
  PROVE  BetterByWords(bm25, i, j) \/ Better(cosine, i, j)
<1> DEFINE some == {k \in ids : bm25[k] # 0}
<1>1. l \in Seq(ids) /\ c \in Seq(ids) /\ ToSet(l) \subseteq some /\ ToSet(c) \subseteq ids
  BY DEF Kept, ToSet
<1>2. i \in ids /\ j \in ids
  BY <1>1
<1> SUFFICES ASSUME ~BetterByWords(bm25, i, j), ~Better(cosine, i, j)
             PROVE  FALSE
  OBVIOUS
<1>3. j \in ToSet(l) => i \in some
  BY <1>1, <1>2 DEF BetterByWords
<1>4. <<j, i>> \notin ByScore(some, bm25)
  BY DEF ByScore, Better, BetterByWords
<1>5. <<j, i>> \notin ByScore(ids, cosine)
  BY DEF ByScore, Better
<1> HIDE DEF some
<1>6. /\ Share(l, i).n * Share(l, j).d >= Share(l, j).n * Share(l, i).d
      /\ j \in ToSet(l) => Share(l, i).n * Share(l, j).d > Share(l, j).n * Share(l, i).d
  BY <1>3, <1>4, BetterShare DEF some
<1>7. /\ Share(c, i).n * Share(c, j).d >= Share(c, j).n * Share(c, i).d
      /\ j \in ToSet(c) => Share(c, i).n * Share(c, j).d > Share(c, j).n * Share(c, i).d
  BY <1>2, <1>5, BetterShare
<1>8. \A k : /\ Share(l, k).n \in Nat /\ Share(l, k).d \in Nat \ {0}
             /\ Share(c, k).n \in Nat /\ Share(c, k).d \in Nat \ {0}
  BY <1>1, ShareOf
<1>9. (Share(l, i).n * Share(c, i).d + Share(c, i).n * Share(l, i).d) * (Share(l, j).d * Share(c, j).d)
        > (Share(l, j).n * Share(c, j).d + Share(c, j).n * Share(l, j).d) * (Share(l, i).d * Share(c, i).d)
  BY <1>6, <1>7, <1>8, GreaterSum
<1>10. Rrf(l, c, i).n * Rrf(l, c, j).d > Rrf(l, c, j).n * Rrf(l, c, i).d
  BY <1>9 DEF Rrf
<1>11. \A k : Rrf(l, c, k).n \in Nat /\ Rrf(l, c, k).d \in Nat
  <2>1. \A x, y \in Nat : x * y \in Nat /\ x + y \in Nat
    OBVIOUS
  <2> QED BY <1>8, <2>1 DEF Rrf
<1>12. Rrf(l, c, i).n * Rrf(l, c, j).d \in Int /\ Rrf(l, c, j).n * Rrf(l, c, i).d \in Int
  <2>1. \A x, y \in Nat : x * y \in Int
    OBVIOUS
  <2> QED BY <1>11, <2>1
<1>13. Lead(l, c, j, i) = Rrf(l, c, j).n * Rrf(l, c, i).d - Rrf(l, c, i).n * Rrf(l, c, j).d
  BY DEF Lead
<1> QED BY <1>10, <1>12, <1>13

\* The fused ranking keeps the sections that lead.
LEMMA FusedKept ==
  ASSUME NEW ids \in SUBSET Nat, IsFiniteSet(ids), NEW limit \in Nat,
         NEW l \in Seq(ids), NEW c \in Seq(ids), NEW f \in Fused(l, c, limit)
  PROVE  \E above : /\ Kept(f, ToSet(l) \cup ToSet(c), above, limit)
                    /\ \A x : <<x, x>> \notin above
                    /\ \A i, j : <<j, i>> \in above => Lead(l, c, j, i) >= 0
<1> DEFINE both == ToSet(l) \cup ToSet(c)
           above == {pair \in both \X both :
                       \/ Lead(l, c, pair[1], pair[2]) > 0
                       \/ Lead(l, c, pair[1], pair[2]) = 0 /\ pair[1] < pair[2]}
<1>1. both \in SUBSET ids /\ IsFiniteSet(both)
  <2>1. both \in SUBSET ids
    BY DEF ToSet
  <2> QED BY <2>1, FS_Subset
<1>2. ASSUME NEW x, <<x, x>> \in above PROVE FALSE
  <2>1. x \in both /\ (Lead(l, c, x, x) > 0 \/ x < x)
    BY <1>2
  <2>2. Lead(l, c, x, x) = 0 /\ x \in Nat
    BY <2>1, <1>1, LeadType
  <2> QED BY <2>1, <2>2
<1>3. ASSUME NEW i, NEW j, <<j, i>> \in above PROVE Lead(l, c, j, i) >= 0
  <2>1. Lead(l, c, j, i) > 0 \/ Lead(l, c, j, i) = 0
    BY <1>3
  <2>2. Lead(l, c, j, i) \in Int
    BY LeadType
  <2> QED BY <2>1, <2>2
<1>4. PICK s \in Sorted(both, above) : f = Atmost(s, limit)
  BY DEF Fused
<1> HIDE DEF above, both
<1>5. Kept(f, both, above, limit)
  BY <1>1, <1>2, <1>4, CutKept
<1> QED BY <1>2, <1>3, <1>5 DEF both

\* As many different sections as a ranking has places.
LEMMA KeptCount ==
  ASSUME NEW ids, IsFiniteSet(ids), NEW above, \A x : <<x, x>> \notin above,
         NEW limit \in Nat, NEW t, Kept(t, ids, above, limit),
         NEW S \in SUBSET ids, ToSet(t) \subseteq S
  PROVE  Cardinality(S) \in Nat /\ Len(t) <= Cardinality(S)
<1>1. /\ t \in Seq(ids) /\ Len(t) \in Nat /\ DOMAIN t = 1..Len(t)
      /\ \A p, q \in DOMAIN t : p < q => <<t[p], t[q]>> \in above
  BY DEF Kept
<1>2. \A p, q \in DOMAIN t : t[p] = t[q] => p = q
  BY <1>1, OnceInRanking
<1>3. t \in Injection(1..Len(t), S)
  <2>1. \A k \in 1..Len(t) : t[k] \in S
    BY <1>1 DEF ToSet
  <2>2. t \in [1..Len(t) -> S]
    BY <1>1, <2>1
  <2> QED BY <1>2, <2>2 DEF Injection, IsInjective
<1>4. IsFiniteSet(S) /\ Cardinality(S) \in Nat
  BY FS_Subset, FS_CardinalityType
<1>5. Cardinality(1..Len(t)) = Len(t)
  <2> DEFINE n == Len(t)
  <2>1. n \in Nat
    BY <1>1
  <2> HIDE DEF n
  <2>2. Cardinality(1..n) = n
    BY <2>1, FS_Interval
  <2> QED BY <2>2 DEF n
<1> QED BY <1>3, <1>4, <1>5, FS_Injection

\* What is left out of a diversified selection that is not full: nothing.
LEMMA DiversifiedWhole ==
  ASSUME NEW ids, IsFiniteSet(ids), NEW score, NEW limit \in Nat,
         NEW s \in Diversified(ids, score, limit)
  PROVE  /\ s \in Seq(ids) /\ Len(s) <= limit
         /\ Len(s) # limit => ToSet(s) = ids
<1> DEFINE n == IF limit < Cardinality(ids) THEN limit ELSE Cardinality(ids)
<1>1. Cardinality(ids) \in Nat
  BY FS_CardinalityType
<1>2. n \in Nat /\ n <= limit /\ (n # limit => n = Cardinality(ids))
  BY <1>1
<1>3. s \in [1..n -> ids] /\ IsInjective(s)
  BY DEF Diversified
<1> HIDE DEF n
<1>4. s \in Seq(ids) /\ Len(s) = n
  BY <1>2, <1>3
<1>5. ASSUME n = Cardinality(ids) PROVE ToSet(s) = ids
  <2>1. s \in Injection(1..n, ids)
    BY <1>3 DEF Injection, IsInjective
  <2>2. Cardinality(1..n) = n
    BY <1>2, FS_Interval
  <2>3. s \in Surjection(1..n, ids)
    BY <2>1, <2>2, <1>5, FS_Injection
  <2>4. \A i \in ids : \E k \in DOMAIN s : s[k] = i
    BY <2>3, <1>3 DEF Surjection
  <2> QED BY <2>4, <1>3, <1>4 DEF ToSet
<1> QED BY <1>2, <1>4, <1>5

\* In hybrid mode a relevant section is passed over only for enough others, returned or
\* fused, that beat it by words or by meaning.
LEMMA HybridSound ==
  ASSUME NEW c \in Corpora, NEW r \in Requests, "hybrid" \in DOMAIN Scores,
         NEW s \in Scores["hybrid"], NEW candidates \in HybridCandidates(c, r, s)
  PROVE  candidates \in Seq(Verified(c, r)) /\ PassedOver(c, r, "hybrid", s, candidates)
<1> DEFINE ids == Verified(c, r)
           some == {k \in ids : s.bm25[k] # 0}
           wide == r.topK * Overfetch
           width == r.topK * FuseFetch
           relevant(f) == {i \in ToSet(f) : s.reranker[i] >= MinScore}
           better(i) == {j \in ids : BetterByWords(s.bm25, i, j) \/ Better(s.cosine, i, j)}
<1>1. r.topK \in Nat /\ wide \in Nat /\ width \in Nat /\ width <= wide
  BY AnswersAssumption, Multiple
<1>2. /\ ids \in SUBSET Nat /\ IsFiniteSet(ids)
      /\ \A i \in ids : s.bm25[i] \in Int /\ s.cosine[i] \in Int /\ s.reranker[i] \in Int
  BY EligibleScored
<1>3. PICK l \in LexicalRank(ids, s.bm25, wide), d \in DenseRank(ids, s.cosine, wide) :
        \E f \in Fused(l, d, width) : candidates \in Diversified(relevant(f), s.reranker, r.topK)
  <2> DEFINE fused == UNION {Fused(l, d, width) : l \in LexicalRank(ids, s.bm25, wide),
                                                 d \in DenseRank(ids, s.cosine, wide)}
  <2>1. candidates \in UNION {Diversified(relevant(f), s.reranker, r.topK) : f \in fused}
    BY DEF HybridCandidates
  <2> HIDE DEF ids, wide, width, relevant
  <2> QED BY <2>1
<1>4. PICK f \in Fused(l, d, width) : candidates \in Diversified(relevant(f), s.reranker, r.topK)
  BY <1>3
<1>5. l \in Ranked(some, s.bm25, wide) /\ d \in Ranked(ids, s.cosine, wide)
  BY <1>3 DEF LexicalRank, DenseRank
<1>6. some \in SUBSET Nat /\ some \in SUBSET ids /\ IsFiniteSet(some) /\ \A i \in some : s.bm25[i] \in Int
  BY <1>2, FS_Subset
<1> HIDE DEF ids, wide, width
<1>7. Kept(l, some, ByScore(some, s.bm25), wide)
  <2> HIDE DEF some
  <2> QED BY <1>1, <1>5, <1>6, RankedKept
<1>8. Kept(d, ids, ByScore(ids, s.cosine), wide)
  BY <1>1, <1>2, <1>5, RankedKept
<1>9. l \in Seq(ids) /\ d \in Seq(ids)
  BY <1>7, <1>8 DEF Kept
<1>10. PICK above : /\ Kept(f, ToSet(l) \cup ToSet(d), above, width)
                    /\ \A x : <<x, x>> \notin above
                    /\ \A i, j : <<j, i>> \in above => Lead(l, d, j, i) >= 0
  BY <1>1, <1>2, <1>4, <1>9, FusedKept
<1>11. ToSet(l) \cup ToSet(d) \in SUBSET ids
  BY <1>9 DEF ToSet
<1>12. f \in Seq(ids) /\ ToSet(f) \subseteq ToSet(l) \cup ToSet(d) /\ ToSet(f) \in SUBSET ids
  BY <1>10, <1>11 DEF Kept, ToSet
<1>13. relevant(f) \in SUBSET ids /\ IsFiniteSet(relevant(f))
  BY <1>2, <1>12, FS_Subset
<1>14. /\ candidates \in Seq(ids) /\ ToSet(candidates) \subseteq ids
       /\ Len(candidates) # r.topK => ToSet(candidates) = relevant(f)
  <2> HIDE DEF relevant
  <2>1. candidates \in Seq(relevant(f)) /\ (Len(candidates) # r.topK => ToSet(candidates) = relevant(f))
    BY <1>1, <1>4, <1>13, DiversifiedWhole
  <2> QED BY <2>1, <1>13 DEF ToSet
<1>15. ASSUME NEW i \in ids \ ToSet(candidates), ~(s.reranker[i] < MinScore), Len(candidates) # r.topK
       PROVE  Cardinality(better(i)) >= width
  <2>1. i \notin ToSet(f)
    <3>1. s.reranker[i] >= MinScore
      BY <1>2, <1>15, AnswersAssumption
    <3> QED BY <3>1, <1>14, <1>15
  <2>2. CASE i \in ToSet(l) \cup ToSet(d)
    <3>1. Len(f) = width /\ \A k \in DOMAIN f : <<f[k], i>> \in above
      BY <2>1, <2>2, <1>10 DEF Kept
    <3>2. ASSUME NEW j \in ToSet(f) PROVE j \in better(i)
      <4>1. j \in ToSet(l) \cup ToSet(d) /\ i # j /\ <<j, i>> \in above
        BY <3>1, <3>2, <2>1, <1>12 DEF ToSet
      <4>2. Lead(l, d, j, i) >= 0
        BY <4>1, <1>10
      <4>3. BetterByWords(s.bm25, i, j) \/ Better(s.cosine, i, j)
        BY <4>1, <4>2, <2>2, <1>1, <1>2, <1>7, <1>8, FusedAbove
      <4> QED BY <4>3, <1>12
    <3>3. better(i) \in SUBSET ids
      OBVIOUS
    <3>4. IsFiniteSet(ToSet(l) \cup ToSet(d))
      BY <1>2, <1>11, FS_Subset
    <3>5. ToSet(f) \in SUBSET (ToSet(l) \cup ToSet(d)) /\ IsFiniteSet(better(i)) /\ ToSet(f) \subseteq better(i)
      BY <3>2, <3>3, <1>2, <1>12, FS_Subset
    <3> HIDE DEF better
    <3>6. Len(f) <= Cardinality(ToSet(f)) /\ Cardinality(ToSet(f)) \in Nat
      BY <3>4, <3>5, <1>1, <1>10, KeptCount
    <3>7. Cardinality(ToSet(f)) <= Cardinality(better(i)) /\ Cardinality(better(i)) \in Nat
      BY <3>5, FS_Subset, FS_CardinalityType
    <3> QED BY <3>1, <3>6, <3>7, <1>1
  <2>3. CASE i \notin ToSet(d)
    <3>1. Len(d) = wide /\ \A k \in DOMAIN d : <<d[k], i>> \in ByScore(ids, s.cosine)
      BY <2>3, <1>8, <1>15 DEF Kept
    <3>2. ASSUME NEW j \in ToSet(d) PROVE j \in better(i)
      <4>1. j \in ids /\ <<j, i>> \in ByScore(ids, s.cosine)
        BY <3>1, <1>11 DEF ToSet
      <4>2. Better(s.cosine, i, j)
        BY <4>1, <1>2, <1>15, ByScoreStrict
      <4> QED BY <4>1, <4>2
    <3>3. better(i) \in SUBSET ids /\ ToSet(d) \subseteq better(i)
      BY <3>2
    <3>4. \A x : <<x, x>> \notin ByScore(ids, s.cosine)
      BY <1>2, ByScoreStrict
    <3> HIDE DEF better
    <3>5. Len(d) <= Cardinality(better(i)) /\ Cardinality(better(i)) \in Nat
      BY <3>3, <3>4, <1>1, <1>2, <1>8, KeptCount
    <3> QED BY <3>1, <3>5, <1>1
  <2> QED BY <2>2, <2>3
<1> QED BY <1>14, <1>15 DEF PassedOver, ids, width

\* What the retriever may return.
LEMMA RetrievedSound ==
  ASSUME NEW c \in Corpora, NEW r \in Requests, NEW mode \in DOMAIN Scores,
         NEW s \in Scores[mode], NEW candidates \in Retrieved(c, r, mode, s)
  PROVE  candidates \in Seq(Verified(c, r)) /\ PassedOver(c, r, mode, s, candidates)
<1>1. mode = "lexical" \/ mode = "hybrid"
  BY AnswersAssumption
<1>2. CASE mode = "lexical"
  BY <1>2, LexicalSound DEF Retrieved
<1>3. CASE mode = "hybrid"
  <2>1. candidates \in HybridCandidates(c, r, s)
    BY <1>3 DEF Retrieved
  <2> QED BY <1>3, <2>1, HybridSound
<1> QED BY <1>1, <1>2, <1>3

---------------------------------------------------------------------------
(***************************************************************************)
(* The steps of the pipeline.                                              *)
(***************************************************************************)

\* A merged packet has the facts of both, and of neither more.
LEMMA MergedFacts ==
  ASSUME NEW p, NEW q
  PROVE  LET m == Merge(p, q) IN
         /\ DOMAIN m.facts = DOMAIN p.facts \cup DOMAIN q.facts
         /\ \A f \in DOMAIN m.facts : \/ f \in DOMAIN p.facts /\ m.facts[f] = p.facts[f]
                                      \/ f \in DOMAIN q.facts /\ m.facts[f] = q.facts[f]
BY DEF Merge, Joined

\* An operation that failed brings nothing.
LEMMA NothingBrought ==
  /\ DOMAIN NoPacket.facts = {} /\ IsFiniteSet(DOMAIN NoPacket.facts)
  /\ NoPacket.order = <<>> /\ NoPacket.ok = FALSE
<1>1. DOMAIN NoPacket.facts = {} /\ NoPacket.order = <<>> /\ NoPacket.ok = FALSE
  BY DEF NoPacket
<1> QED BY <1>1, FS_EmptySet

\* What the gate lets through can be drafted from.
LEMMA GatherPacket ==
  ASSUME Inv, Gather, pc' = "draft"
  PROVE  PacketSound'
<1>1. PICK counted \in BOOLEAN, flaw \in Flaws, policyFirst \in BOOLEAN :
        LET policy == IF found = None THEN NoPacket
                      ELSE PolicyPacket(corpus, request, found.candidates)
            audit == IF "progress" \in request.outputs THEN Audit(counted, flaw) ELSE NoPacket
            covered == {o \in request.outputs : (IF o = "policy" THEN policy ELSE audit).ok}
        IN /\ packet' = IF policyFirst THEN Merge(policy, audit) ELSE Merge(audit, policy)
           /\ fulfilled' = covered
           /\ pc' = IF covered = {} THEN "done" ELSE "draft"
  BY DEF Gather, Covered
<1> DEFINE policy == IF found = None THEN NoPacket ELSE PolicyPacket(corpus, request, found.candidates)
           audit == IF "progress" \in request.outputs THEN Audit(counted, flaw) ELSE NoPacket
           parts == {"credits", "required", "completed", "remaining"}
<1>2. packet' \in {Merge(policy, audit), Merge(audit, policy)}
  BY <1>1
<1>3. fulfilled' # {} /\ ("policy" \in fulfilled' => policy.ok)
  BY <1>1
<1>4. UNCHANGED <<corpus, request, found>> /\ corpus \in Corpora /\ FoundSound
  BY DEF Gather, Inv
<1>5. /\ IsFiniteSet(DOMAIN policy.facts)
      /\ \A f \in DOMAIN policy.facts :
           /\ "policy" \in request.outputs
           /\ f[1] = "policy" /\ f[2] \in Verified(corpus, request)
           /\ policy.facts[f] = PolicyFact(Document(corpus, f[2]))
           /\ policy.ok => Document(corpus, f[2]).authority >= 1
      /\ policy.ok => /\ found # None /\ found.candidates \in Seq(Verified(corpus, request))
                      /\ found.candidates # <<>>
                      /\ policy.order = [k \in DOMAIN found.candidates |-> <<"policy", found.candidates[k]>>]
  <2>1. CASE found = None
    BY <2>1, NothingBrought
  <2>2. CASE found # None
    BY <2>2, <1>4, PolicyFacts DEF FoundSound
  <2> QED BY <2>1, <2>2
<1>6. /\ IsFiniteSet(DOMAIN audit.facts)
      /\ \A f \in DOMAIN audit.facts :
           /\ "progress" \in request.outputs
           /\ f[1] = "audit"
           /\ audit.facts[f].factual = TRUE /\ audit.facts[f].wording \in Wordings
           /\ audit.facts[f].evidence # {}
           /\ \A i \in audit.facts[f].inputs : i[1] = "audit"
      /\ audit.order \in Seq({"audit"} \X parts)
  <2>1. CASE "progress" \in request.outputs
    BY <2>1, AuditFacts
  <2>2. CASE "progress" \notin request.outputs
    <3>1. audit = NoPacket
      BY <2>2
    <3> HIDE DEF audit
    <3> QED BY <3>1, NothingBrought
  <2> QED BY <2>1, <2>2
<1> HIDE DEF policy, audit, parts
<1>7. /\ DOMAIN packet'.facts = DOMAIN policy.facts \cup DOMAIN audit.facts
      /\ \A f \in DOMAIN packet'.facts :
           \/ f \in DOMAIN policy.facts /\ packet'.facts[f] = policy.facts[f]
           \/ f \in DOMAIN audit.facts /\ packet'.facts[f] = audit.facts[f]
  BY <1>2, MergedFacts
<1>8. IsFiniteSet(DOMAIN packet'.facts)
  <2>1. IsFiniteSet(DOMAIN policy.facts \cup DOMAIN audit.facts)
    BY <1>5, <1>6, FS_Union
  <2> QED BY <2>1, <1>7
<1>9. ASSUME NEW f \in DOMAIN packet'.facts
      PROVE  /\ packet'.facts[f].factual = TRUE
             /\ packet'.facts[f].evidence # {}
             /\ packet'.facts[f].wording \in Wordings
             /\ \A i \in packet'.facts[f].inputs : i[1] # "policy"
             /\ IF f[1] = "policy"
                  THEN /\ "policy" \in request.outputs
                       /\ "policy" \in fulfilled' => Quotable(f[2])
                  ELSE "progress" \in request.outputs
  <2>1. CASE f \in DOMAIN policy.facts /\ packet'.facts[f] = policy.facts[f]
    <3>1. policy.facts[f] = PolicyFact(Document(corpus, f[2])) /\ Document(corpus, f[2]) \in corpus
      BY <2>1, <1>4, <1>5, EligibleSection
    <3>2. Document(corpus, f[2]).wording \in Wordings
      BY <3>1, <1>4, AnswersAssumption
    <3>3. "policy" \in fulfilled' => Quotable(f[2])
      BY <2>1, <1>3, <1>5, EligibleQuotable
    <3>4. /\ packet'.facts[f].factual = TRUE
          /\ packet'.facts[f].evidence # {}
          /\ packet'.facts[f].wording \in Wordings
          /\ packet'.facts[f].inputs = {}
      <4> DEFINE d == Document(corpus, f[2])
      <4>1. packet'.facts[f] = PolicyFact(d) /\ d.wording \in Wordings
        BY <2>1, <3>1, <3>2
      <4> HIDE DEF d
      <4>2. /\ PolicyFact(d).factual = TRUE /\ PolicyFact(d).evidence # {}
            /\ PolicyFact(d).wording = d.wording /\ PolicyFact(d).inputs = {}
        BY DEF PolicyFact
      <4> QED BY <4>1, <4>2
    <3>5. f[1] = "policy" /\ "policy" \in request.outputs
      BY <2>1, <1>5
    <3> QED BY <3>3, <3>4, <3>5
  <2>2. CASE f \in DOMAIN audit.facts /\ packet'.facts[f] = audit.facts[f]
    BY <2>2, <1>6
  <2> QED BY <2>1, <2>2, <1>7
<1>10. ASSUME "policy" \in fulfilled'
       PROVE  /\ Excerpts' \subseteq Nat
              /\ \E k \in Excerpts' : /\ \A l \in Excerpts' : k <= l
                                      /\ packet'.order[k] = <<"policy", found.candidates[1]>>
  <2>1. packet'.order \in {policy.order \o audit.order, audit.order \o policy.order}
    <3>1. CASE packet' = Merge(policy, audit)
      BY <3>1 DEF Merge
    <3>2. CASE packet' = Merge(audit, policy)
      BY <3>2 DEF Merge
    <3> QED BY <3>1, <3>2, <1>2
  <2>2. /\ found.candidates \in Seq(Nat) /\ found.candidates # <<>>
        /\ policy.order = [k \in DOMAIN found.candidates |-> <<"policy", found.candidates[k]>>]
    BY <1>3, <1>4, <1>5, <1>10, EligibleScored
  <2>3. policy.order \in Seq({"policy"} \X Nat) /\ policy.order # <<>>
    <3> DEFINE n == Len(found.candidates)
    <3>1. n \in Nat /\ n # 0 /\ DOMAIN found.candidates = 1..n
      BY <2>2
    <3>2. policy.order = [k \in 1..n |-> <<"policy", found.candidates[k]>>]
      BY <2>2, <3>1
    <3>3. \A k \in 1..n : <<"policy", found.candidates[k]>> \in {"policy"} \X Nat
      BY <2>2, <3>1
    <3> HIDE DEF n
    <3>4. policy.order \in Seq({"policy"} \X Nat) /\ Len(policy.order) = n
      BY <3>1, <3>2, <3>3
    <3> QED BY <3>1, <3>4
  <2>4. policy.order[1] = <<"policy", found.candidates[1]>>
    BY <2>2
  <2>5. Excerpts' = {k \in DOMAIN packet'.order : packet'.order[k][1] = "policy"}
    BY DEF Excerpts
  <2>6. Leads(packet'.order, policy.order[1])
    <3>1. packet'.order = policy.order \o audit.order \/ packet'.order = audit.order \o policy.order
      BY <2>1
    <3> QED BY <2>3, <3>1, <1>6, FirstExcerpt
  <2> QED BY <2>4, <2>5, <2>6 DEF Leads
<1>11. PlainFacts'
  BY <1>8, <1>9 DEF PlainFacts
<1>12. \A i : Quotable(i)' <=> Quotable(i)
  BY <1>4 DEF Quotable
<1> QED BY <1>3, <1>4, <1>9, <1>10, <1>11, <1>12 DEF PacketSound

\* What is written of a packet depends on nothing else that a step may change.
LEMMA SameDrafts ==
  ASSUME UNCHANGED <<request, packet, fulfilled>>
  PROVE  PlainDraft' = PlainDraft /\ ModelDrafts' = ModelDrafts /\ (ModelWrites' <=> ModelWrites)
<1>1. PlainDraft' = PlainDraft
  BY DEF PlainDraft, Section, PlainClaim, Quoted, FirstOf, Fitting, Excerpts
<1>2. ModelClaims' = ModelClaims
  BY DEF ModelClaims, AtomsOf, Parts
<1> QED BY <1>1, <1>2 DEF ModelDrafts, ModelWrites

LEMMA SamePacket ==
  ASSUME PacketSound, UNCHANGED <<corpus, request, found, packet, fulfilled>>
  PROVE  PacketSound'
<1>1. \A i : Quotable(i)' <=> Quotable(i)
  BY DEF Quotable
<1> QED BY <1>1 DEF PacketSound, PlainFacts, Excerpts

\* The invariant holds at the beginning.
LEMMA InitSound == Init => Inv
BY DEF Init, Inv, FoundSound, AnswerSound, RankedSound

\* Every step keeps it.
LEMMA StepSound == Inv /\ [Next]_vars => Inv'
<1> SUFFICES ASSUME Inv, [Next]_vars PROVE Inv'
  OBVIOUS
<1>1. ASSUME NEW mode \in DOMAIN Scores, RetrievePolicy(mode) PROVE Inv'
  <2> PICK s \in Scores[mode] :
         /\ scores' = s
         /\ \E candidates \in Retrieved(corpus, request, mode, s) :
              found' = [mode |-> mode, candidates |-> candidates]
    BY <1>1 DEF RetrievePolicy
  <2>1. PICK candidates \in Retrieved(corpus, request, mode, s) :
          scores' = s /\ found' = [mode |-> mode, candidates |-> candidates]
    OBVIOUS
  <2>2. /\ pc = "retrieve" /\ pc' = "gather"
        /\ UNCHANGED <<corpus, request, packet, fulfilled, draft, answer, model, again>>
    BY <1>1 DEF RetrievePolicy
  <2>3. corpus \in Corpora /\ request \in Requests /\ "policy" \in request.outputs
    BY <2>2 DEF Inv
  <2>4. candidates \in Seq(Verified(corpus, request)) /\ PassedOver(corpus, request, mode, s, candidates)
    BY <2>1, <2>3, RetrievedSound
  <2>5. found'.candidates = candidates /\ found'.mode = mode
    BY <2>1
  <2>6. FoundSound'
    BY <2>2, <2>3, <2>4, <2>5 DEF FoundSound
  <2>7. RankedSound'
    BY <2>1, <2>2, <2>4, <2>5 DEF RankedSound
  <2>8. AnswerSound'
    BY <2>2 DEF Inv, AnswerSound
  <2> QED BY <2>2, <2>6, <2>7, <2>8 DEF Inv
<1>2. CASE RetrievalFails
  <2>1. /\ pc = "retrieve" /\ pc' = "gather"
        /\ UNCHANGED <<corpus, request, found, scores, packet, fulfilled, draft, answer, model, again>>
    BY <1>2 DEF RetrievalFails
  <2> QED BY <2>1 DEF Inv, FoundSound, AnswerSound, RankedSound
<1>3. CASE Gather
  <2>1. /\ pc = "gather" /\ scores' = None
        /\ UNCHANGED <<corpus, request, found, draft, answer, model, again>>
    BY <1>3 DEF Gather
  <2>2. fulfilled' \subseteq request.outputs /\ pc' \in {"draft", "done"}
    BY <1>3 DEF Gather, Covered
  <2>3. pc' = "draft" => PacketSound'
    BY <1>3, GatherPacket
  <2>4. FoundSound' /\ AnswerSound' /\ RankedSound'
    BY <2>1 DEF Inv, FoundSound, AnswerSound, RankedSound
  <2> QED BY <2>1, <2>2, <2>3, <2>4 DEF Inv
<1>4. CASE DraftPlainly \/ DraftByModel
  <2>1. /\ pc = "draft" /\ pc' = "validate"
        /\ UNCHANGED <<corpus, request, found, scores, packet, fulfilled, answer>>
    BY <1>4 DEF DraftPlainly, DraftByModel
  <2>2. DraftSound'
    <3>1. \/ draft' = PlainDraft /\ model' = FALSE
          \/ draft' \in ModelDrafts /\ ModelWrites /\ model' = TRUE
      BY <1>4, <2>1 DEF DraftPlainly, DraftByModel, Inv
    <3> QED BY <2>1, <3>1, SameDrafts DEF DraftSound
  <2>3. PacketSound'
    BY <2>1, SamePacket DEF Inv
  <2>4. FoundSound' /\ AnswerSound' /\ RankedSound'
    BY <2>1 DEF Inv, FoundSound, AnswerSound, RankedSound
  <2> QED BY <2>1, <2>2, <2>3, <2>4 DEF Inv
<1>5. CASE Validate
  <2>1. pc = "validate" /\ UNCHANGED <<corpus, request, found, scores, packet, fulfilled>>
    BY <1>5 DEF Validate
  <2>2. PacketSound /\ DraftSound /\ PacketSound'
    BY <2>1, SamePacket DEF Inv
  <2>3. FoundSound' /\ RankedSound'
    BY <2>1 DEF Inv, FoundSound, RankedSound
  <2>4. CASE draft' = PlainDraft /\ model' = FALSE /\ pc' = "validate" /\ UNCHANGED answer
    <3>1. DraftSound'
      BY <2>1, <2>4, SameDrafts DEF DraftSound
    <3>2. AnswerSound'
      BY <2>1, <2>4 DEF Inv, AnswerSound
    <3> QED BY <2>1, <2>2, <2>3, <2>4, <3>1, <3>2 DEF Inv
  <2>5. CASE answer' = Validated(packet, draft) /\ pc' = "done" /\ UNCHANGED <<draft, again, model>>
    <3>1. DraftSound'
      BY <2>1, <2>2, <2>5, SameDrafts DEF DraftSound
    <3>2. AnswerSound'
      BY <2>1, <2>2, <2>5, <3>1 DEF AnswerSound
    <3> QED BY <2>1, <2>3, <2>5, <3>2 DEF Inv
  <2> QED BY <1>5, <2>1, <2>4, <2>5 DEF Validate
<1>6. CASE UNCHANGED vars
  <2>1. UNCHANGED <<pc, corpus, request, found, scores, packet, fulfilled, draft, answer, model, again>>
    BY <1>6 DEF vars
  <2>2. PacketSound => PacketSound'
    BY <2>1, SamePacket
  <2>3. DraftSound' <=> DraftSound
    BY <2>1, SameDrafts DEF DraftSound
  <2> QED BY <2>1, <2>2, <2>3 DEF Inv, FoundSound, AnswerSound, RankedSound
<1> QED BY <1>1, <1>2, <1>3, <1>4, <1>5, <1>6 DEF Next

LEMMA AlwaysSound == Spec => []Inv
BY InitSound, StepSound, PTL DEF Spec

---------------------------------------------------------------------------
(***************************************************************************)
(* The results.                                                            *)
(***************************************************************************)

\* A claim of a draft, by the tool or by the model, is about a covered output if its facts
\* are in the packet.
LEMMA ClaimCovered ==
  ASSUME Inv, PacketSound, DraftSound, NEW c \in draft.claims, c.facts \subseteq DOMAIN packet.facts,
         NEW f \in c.facts
  PROVE  /\ IF f[1] = "policy" THEN "policy" \in fulfilled ELSE "progress" \in fulfilled
         /\ c.wording \in Wordings
<1>1. fulfilled \subseteq {"policy", "progress"} /\ fulfilled \subseteq request.outputs /\ fulfilled # {}
  BY AnswersAssumption DEF Inv, PacketSound
<1>2. /\ "policy" \in request.outputs \/ "progress" \in request.outputs
      /\ IF f[1] = "policy" THEN "policy" \in request.outputs ELSE "progress" \in request.outputs
      /\ packet.facts[f].wording \in Wordings
  BY DEF PacketSound, PlainFacts
<1>3. CASE c \in PlainDraft.claims
  <2>1. PICK o \in fulfilled : c \in Section(o)
    BY <1>3 DEF PlainDraft
  <2>2. PICK g : /\ c = PlainClaim(g)
                 /\ IF o = "policy" THEN g \in Quoted ELSE g = <<"audit", "remaining">>
    BY <2>1 DEF Section
  <2>3. c.facts = {g} /\ c.wording = packet.facts[g].wording
    BY <2>2 DEF PlainClaim
  <2>4. f = g
    BY <2>3
  <2>5. o = "policy" => f[1] = "policy"
    BY <2>2, <2>4 DEF Quoted, FirstOf, Fitting, Excerpts
  <2>6. o # "policy" => f[1] = "audit" /\ o = "progress"
    BY <2>2, <2>4, <1>1
  <2> QED BY <2>1, <2>3, <2>4, <2>5, <2>6, <1>2
<1>4. CASE c \notin PlainDraft.claims
  <2>1. ModelWrites /\ draft \in ModelDrafts
    BY <1>4 DEF DraftSound
  <2>2. c \in ModelClaims
    BY <1>4, <2>1 DEF ModelDrafts
  <2>3. c.wording \in Wordings
    BY <2>2 DEF ModelClaims
  <2>4. PICK o : request.outputs = {o}
    <3>1. Cardinality(request.outputs) = 1
      BY <2>1 DEF ModelWrites
    <3>2. IsFiniteSet(request.outputs)
      <4>1. request.outputs \in SUBSET ({"policy"} \cup {"progress"})
        BY AnswersAssumption DEF Inv
      <4>2. IsFiniteSet({"policy"} \cup {"progress"})
        BY FS_Singleton, FS_AddElement
      <4> QED BY <4>1, <4>2, FS_Subset
    <3> QED BY <3>1, <3>2, FS_Singleton
  <2>5. fulfilled = request.outputs
    BY <1>1, <2>4
  <2> QED BY <2>3, <2>5, <1>2
<1> QED BY <1>3, <1>4

\* All evidence that a draft cites.
Cited == UNION {c.evidence : c \in draft.claims}

\* What is released has passed the validator.
LEMMA ReleasedPassed ==
  ASSUME Inv, Released
  PROVE  /\ PacketSound /\ DraftSound /\ answer.claims = draft.claims /\ ~packet.conflict
         /\ answer.citations = Cited \cap DOMAIN packet.evidence
         /\ answer.clarification = draft.clarification
         /\ draft.clarification \/ AllPass(packet, draft.claims)
<1>1. PacketSound /\ DraftSound /\ answer = Validated(packet, draft) /\ ~answer.refused
  BY DEF Inv, AnswerSound, Released
<1>2. ~packet.conflict
  BY <1>1 DEF Validated
<1>3. /\ answer.claims = draft.claims
      /\ answer.clarification = draft.clarification
      /\ draft.clarification \/ AllPass(packet, draft.claims)
  BY <1>1, <1>2 DEF Validated
<1>4. answer.citations = Cited \cap DOMAIN packet.evidence
  BY <1>1, <1>2 DEF Validated, Cited
<1> QED BY <1>1, <1>2, <1>3, <1>4

\* A question back to the user makes no claims.
LEMMA ClarificationSilent ==
  ASSUME DraftSound, draft.clarification
  PROVE  draft.claims = {}
BY DEF DraftSound, PlainDraft, ModelDrafts

\* A released claim is about an output that the gate found covered: facts of another output's
\* operation may be in the packet although the gate refused them.
THEOREM NothingUncovered == Spec => []OnlyFulfilled
<1>1. Inv => OnlyFulfilled
  <2> SUFFICES ASSUME Inv, Released, NEW c \in answer.claims, NEW f \in c.facts
               PROVE  IF f[1] = "policy" THEN "policy" \in fulfilled ELSE "progress" \in fulfilled
    BY DEF OnlyFulfilled
  <2>1. PacketSound /\ DraftSound /\ c \in draft.claims /\ AllPass(packet, draft.claims)
    BY ReleasedPassed, ClarificationSilent
  <2>2. c.facts \subseteq DOMAIN packet.facts
    BY <2>1 DEF AllPass, Passes, FactsKnown
  <2> QED BY <2>1, <2>2, ClaimCovered
<1> QED BY <1>1, AlwaysSound, PTL

\* Whatever a model wrote, each claim of a released answer rests on facts that are complete
\* down to observations and without a circle, on reviewed evidence that the packet has and
\* the answer cites, states each of its facts exactly, and quotes only policy sections that
\* may be quoted to this request.
THEOREM ReleasedIsGrounded == Spec => []AnswersGrounded
<1>1. Inv => AnswersGrounded
  <2> SUFFICES ASSUME Inv, Released, ~answer.clarification PROVE AnswersGrounded
    BY DEF AnswersGrounded
  <2>1. /\ PacketSound /\ DraftSound /\ answer.claims = draft.claims /\ ~packet.conflict
        /\ answer.citations = Cited \cap DOMAIN packet.evidence
        /\ AllPass(packet, draft.claims)
    BY ReleasedPassed
  <2>2. answer.claims # {} /\ \A c \in draft.claims : Passes(packet, c)
    BY <2>1 DEF AllPass
  <2>3. PlainFacts
    BY <2>1 DEF PacketSound
  <2>4. ASSUME NEW c \in answer.claims
        PROVE  LET basis == Rests(c.facts) IN
               /\ basis \subseteq DOMAIN packet.facts
               /\ WellFounded(basis)
               /\ \A f \in basis :
                    /\ packet.facts[f].derived => packet.facts[f].inputs # {}
                    /\ \A e \in packet.facts[f].evidence :
                         e \in DOMAIN packet.evidence /\ packet.evidence[e] = "verified"
                    /\ f[1] = "policy" => Quotable(f[2])
               /\ \A f \in c.facts :
                    /\ answer.citations \cap UNION {packet.facts[g].evidence : g \in Rests({f})} # {}
                    /\ \E a \in c.atoms : f \in a.facts /\ a.match = "exact"
               /\ c.wording = "faithful"
    <3>1. Passes(packet, c) /\ c \in draft.claims
      BY <2>1, <2>2
    <3>2. c.facts \subseteq DOMAIN packet.facts /\ c.facts # {}
      BY <3>1 DEF Passes, FactsKnown
    <3>3. /\ c.wording \in Wordings
          /\ \A f \in c.facts : f[1] = "policy" => "policy" \in fulfilled
      BY <2>1, <3>1, <3>2, ClaimCovered
    <3>4. \A f \in c.facts : f[1] = "policy" => Quotable(f[2])
      BY <2>1, <3>2, <3>3 DEF PacketSound
    <3>5. c.evidence \cap DOMAIN packet.evidence \subseteq answer.citations
      <4>1. c.evidence \subseteq Cited
        BY <3>1 DEF Cited
      <4> QED BY <2>1, <4>1
    <3>6. /\ Rests(c.facts) \subseteq DOMAIN packet.facts
          /\ WellFounded(Rests(c.facts))
          /\ \A f \in Rests(c.facts) :
               /\ packet.facts[f].derived => packet.facts[f].inputs # {}
               /\ \A e \in packet.facts[f].evidence :
                    e \in DOMAIN packet.evidence /\ packet.evidence[e] = "verified"
               /\ f[1] = "policy" => f \in c.facts
          /\ \A f \in c.facts :
               /\ c.evidence \cap DOMAIN packet.evidence
                    \cap UNION {packet.facts[g].evidence : g \in Rests({f})} # {}
               /\ \E a \in c.atoms : f \in a.facts /\ a.match = "exact"
          /\ c.wording = "faithful"
      BY <2>3, <3>1, <3>3, PassedIsGrounded
    <3> QED BY <3>4, <3>5, <3>6
  <2> QED BY <2>1, <2>2, <2>4 DEF AnswersGrounded
<1> QED BY <1>1, AlwaysSound, PTL

\* An eligible document that the question matches is passed over only for better ones, by
\* whichever ranking, and what the deterministic synthesizer quotes is the best candidate.
THEOREM NothingDisplaced == Spec => []NotDisplaced
<1>1. ASSUME Inv, scores # None
      PROVE  PassedOver(corpus, request, found.mode, scores, found.candidates)
  BY <1>1 DEF Inv, RankedSound
<1>2. ASSUME Inv, pc = "validate", ~model, "policy" \in fulfilled, ~request.quantity
      PROVE  \E c \in draft.claims : <<"policy", found.candidates[1]>> \in c.facts
  <2>1. PacketSound /\ draft = PlainDraft
    BY <1>2 DEF Inv, DraftSound
  <2>2. PICK k \in Excerpts : /\ Excerpts \subseteq Nat /\ \A l \in Excerpts : k <= l
                              /\ packet.order[k] = <<"policy", found.candidates[1]>>
    BY <1>2, <2>1 DEF PacketSound
  <2>3. packet.order[k] \in FirstOf(Excerpts)
    BY <2>2 DEF FirstOf
  <2>4. Fitting # {} => packet.order[k] \in FirstOf(Fitting)
    <3>1. ASSUME NEW m \in Fitting PROVE k \in Fitting
      <4>1. m \in Excerpts /\ m <= Glance /\ k <= m
        BY <3>1, <2>2 DEF Fitting
      <4>2. k \in Nat /\ m \in Nat /\ Glance \in Int
        BY <4>1, <2>2, AnswersAssumption
      <4>3. k <= Glance
        BY <4>1, <4>2
      <4> QED BY <4>3, <1>2 DEF Fitting
    <3>2. \A l \in Fitting : k <= l
      BY <2>2 DEF Fitting
    <3> QED BY <3>1, <3>2 DEF FirstOf
  <2>5. packet.order[k] \in Quoted
    BY <2>3, <2>4 DEF Quoted
  <2>6. PlainClaim(packet.order[k]) \in draft.claims
    BY <1>2, <2>1, <2>5 DEF PlainDraft, Section
  <2>7. packet.order[k] \in PlainClaim(packet.order[k]).facts
    BY DEF PlainClaim
  <2> QED BY <2>2, <2>6, <2>7
<1>3. Inv => NotDisplaced
  BY <1>1, <1>2 DEF NotDisplaced, PassedOver
<1> QED BY <1>3, AlwaysSound, PTL
=============================================================================
