# Verification of the evidence-grounded academic agent

TLA+ specifications of the program under `src/`, the TLC configurations that
check them on small instances, and TLAPS proofs of what matters most for every
value of the constants. `PROJECT.json` is the machine-readable side: every
definition with the lines it models, every run, mutant, hazard and theorem.

Run everything in this directory:

    tlc -workers 2 -config executor_plans.cfg MCPlanExecutor
    tlapm PlanExecutorProofs.tla

## 1. The system

A question enters the web server, passes a guard, and is answered by one call of
`AgentRuntime.ask`: it is understood (by a model the caller brings, or by rules),
normalised against the academic database, planned as a DAG of tool calls, executed
on a shared thread pool, judged by a coverage gate, perhaps repaired once, worded,
validated claim by claim and rendered. Its inputs are immutable data releases.

| Component | State | Operations | Meets others through |
|---|---|---|---|
| request guard, rate limiter (`app/server/canonical.py`) | stamps per client; a semaphore and its waiters | admit, queue, read the body, call the handler, release | the event loop; one limiter and one semaphore for all requests |
| model provider (`agent/provider.py`) | breakers and their bounded registry | create a model, generate | breakers shared by the requests of a credential |
| agent runtime (`agent/orchestrator.py`, `agent/state.py`) | status, plan, packet, contracts, counters of one request | `ask` | calls planner, executor, gate, stores |
| understanding, normalisation, planning (`query/`) | none | draft, normalise, plan | pure calls |
| plan executor, tool pool (`agent/tools.py`) | futures, permits; states, results and packets of a plan | `execute`, `submit`, done callbacks | one pool shared by every request thread |
| coverage gate and repair (`agent/coverage_gate.py`, `agent/repair.py`) | none | `evaluate`, `plan` | reads plan and packet |
| sessions (`agent/session.py`) | context and reservation per session, in process or in Redis | `begin`, `get`, `put` | requests and workers share the store |
| academic database and tools (`academic/`) | SQLite, read only at run time | lookups, audits, credit sums | called from pool threads |
| retrieval (`retrieval/`) | indexes | scope filter, rank, fuse, rerank | called from pool threads |
| generation (`generation/`) | none | synthesise, validate, render | reads the packet |
| releases (`storage/`, `scripts/`) | directories, attestations, the pointer `active.json` | stage, publish, promote, load, install | file system, several processes |
| ingestion (`ingest/`, the catalog scripts) | drafts, ledgers, catalog, chunks, registry: files | extract, review, materialise, build | operators edit the files between the scripts |
| evaluation (`eval/`) | reports, holdout locks | measure, gate | reads a candidate release, feeds its attestation |
| registry, MCP, tracing, audit log (`agent/`) | a table, counters | look up, record | - |

Hard behaviours: plans contend for workers that tools may hold for ever; timeouts
race results; requests of one session overlap in one worker or across workers; a
queue timeout races the grant of a slot; calls overlap the opening of a circuit;
entries are evicted while they are in use; tools fail, report the wrong thing, or
report it twice; promotions and loads interleave with crashes; documents are revised
between extraction, review and build; a model may bind a claim to anything.

What makes the components correct: every operation of a plan gets one outcome and
sees exactly its ancestors' packets; permits and slots come back exactly once; a
late request never overwrites a newer context; an answer contains only outputs all
of whose producers succeeded with sound evidence; every loop ends; limits hold up
to eviction and a refusal has its cause; a release that is served is complete,
attested and of one piece; a course that is called verified was read from the declared
document and approved; a released claim rests on reviewed evidence all the way down.

## 2. Modules

| Module | Models | Correspondence |
|---|---|---|
| `PlanDag` | the plans and their dependency graph | constants; `Ancestors` is `_context_for` |
| `DagExecution` | the promise of the executor | abstract: no threads, clock or pool |
| `PlanExecutor` | `BoundedToolPool`, `PlanExecutor.execute` | one action per block of the scheduling loop, by program counter (`pc`); `BeginTool`, `EndTool`, `ReleasePermit` are the pool thread and the done callback |
| `SessionContinuity` | the promise of a session store | abstract: a context may be lost, never replaced by an older one nor inherited across data sets |
| `InMemorySessions` | `InMemoryTTLSessionStore` | one action per locked method, every purge included; a dictionary is a function of its keys, each with its place in insertion order |
| `RedisSessions` | `RedisSessionStore` | one action per Redis command; `...Fails` may or may not have taken effect; `get` and its `_forget` are separate steps |
| `Planner` | `requested_outputs`, `QueryNormalizer`, `ExecutionPlanner` | pure operators on drafts; words and entities are flags and counts |
| `CoverageGate` | `CoverageGate.evaluate` | pure operators on plan and packet |
| `AgentRuntime` | `ask`, `AgentState`, the repair planner | composes Planner and CoverageGate; the executor appears as its contract; one action per transition |
| `RateLimiter`, `CircuitBreaker` | the classes of those names and the breaker registry | pure operators; each method runs under one lock |
| `RequestService` | the guard middleware, `/ask`, `generate` | composes the two; one action per await or model call; `asyncio.Semaphore` of Python 3.11 is external and modelled with its waiters |
| `ReleaseTrust` | the promise of the release protocol | abstract: only what passed both evaluations becomes active, only what was active is served |
| `PromotionPolicy`, `Attestation` | gates of a promotion, reports, the evaluation subject, holdout lock, verification | pure operators on reports, identities and listings |
| `ReleaseStore` | builds, evaluations, signings, promotions, starting workers | one action per file operation of each script (`job[j].pc`); any process may die in between; directories may be edited |
| `DatasetInstall`, `ReleasePipeline` | `download_dataset.py`; the two together | one action per file operation; a build needs an installed data set |
| `CatalogReview`, `CatalogMaterialization`, `AcademicDatabase`, `AcademicTools` | `ingest/catalog.py`, `catalog_materialize.py`, `academic/database.py`, `academic/tools.py` | pure operators: each script as a function of its input files, each tool as one of the database |
| `CurriculumPipeline` | operators and scripts around the files | one action per script and per kind of edit |
| `PolicyRetrieval` | the hybrid retriever and the policy tool | pure operators; `Retrieved` is the set of candidate lists that scores allow |
| `ClaimValidation` | `ClaimValidator.validate` | pure operators; `Passes` for one claim, `Validated` for the answer |
| `AnswerPipeline` | retrieval, packets, merge, draft, validation, second draft | composes the two; one action per stage |
| `MC*` | instances | plans, drafts, tool answers, corpora, edits, reports |
| `*Proofs` | theorems and proofs | section 5 |

A definition headed "Faulty variant" is a plausible bug. No specification uses it;
it stands in for the definition after it to show that a property notices.

Abstractions that matter. A message, packet, fact or context is a model value or
is identified by the request or operation that made it. Parsing, hashing, wording
and logging are left out; conversions that can fail are steps with both outcomes.
All attempts of one `generate()` are one step, since they touch nothing shared.
In `RequestService` the model and the call count of a request vanish with it (they
are locals), admission and the entry into the semaphore queue are one step on the
event loop, and body, queue and provider timeouts may fire at any time. Health
probes and preflight requests bypass the guard and are left out.
In `ReleaseStore` a digest is the thing it is a digest of; hash and open of one file
are one step. In `CurriculumPipeline` a script replaces its output in one step. In
`PolicyRetrieval` scores are given integers (the code's floats are compared as exact numbers,
sums of reciprocal ranks as fractions) and every assignment of them is tried; of the wording
of a claim `ClaimValidation` keeps the outcome of the tests on text, and the model may
draft every combination of facts, citations, atoms and outcome.

## 3. Runs

| Run | Shows |
|---|---|
| `executor_plans` | A course plan, a tangled plan (cycle, unknown dependency, a tool with no time) and a rejected plan on two workers under every timeout, failure, rejection and late result: they implement `DagExecution`; permits follow futures (`PermitAccounting`); an operation is blocked only if some ancestor really failed (`RootCause`) |
| `executor_pool` | Plans contend for one worker: `execute()` returns although tools may hang for ever (`AlwaysReturns`); if tools end, all permits are back in the end (`PermitsComeBack`) |
| `executor_false_cycle` | Finding: an operation overtaken by the plan deadline is reported as a dependency cycle |
| `sessions_in_memory` | The store implements `SessionContinuity`; as long as the sessions in use fit, the newest context stays for its time to live (`LastWriteKept`); none is handed out after it (`InheritsLive`) |
| `redis_sessions` | The same refinement under failing commands, expiring keys and workers of two data sets, whose contexts do not cross; a context that could have been used goes only by expiry, to a newer one, or by the deletion of a request that was overtaken since its `GET` (`LostForCause`) |
| `runtime_planning` | Every draft the rules can make, through planning, execution and the gate with sound tools: course tools run only in scope (`PlannedInScope`), every call is used (`CallsAreUsed`), everything planned is answered (`PlannedIsAnswered`), a policy question survives what a course question lacks (`PolicyIndependent`) |
| `runtime_evidence` | Tools that report anything, also under foreign identifiers: only proven outputs are answered, no illegal transition is asked for, every request ends |
| `runtime_shortage` | Finding: with the tools of the repository no request is ever repaired |
| `request_service` | Four requests of three clients meet in the limiter, the queue and the breakers: slots are accounted for (`SlotsAccounted`) and no wake-up is lost (`NoIdleSlot`); the rate holds up to eviction (`RateBound`) and a 429 has its cause (`LimitedWithCause`); a circuit is open exactly at its threshold (`BreakersConsistent`) and only for failures of its own credential (`OwnFailuresOnly`); everyone who arrives is answered (`AlwaysAnswered`) |
| `releases` | Two processes at a time build, evaluate, sign, promote and serve, and die anywhere; a directory is edited once; two installers: the pointer names an attested release (`PointerAttested`), workers serve only what was admitted (`WorkersAdmitted`), a published directory is never replaced (`PublishedKept`), an installed data set is whole and never replaced (`InstalledWhole`), and all of it implements `ReleaseTrust` |
| `curriculum` | A plan in four versions is extracted, reviewed, materialised and built while operators revise documents and files: a verified course was read from the declared document or edited, and approved (`VerifiedIsReviewed`); every row is somewhere (`NothingLost`); a database that calls itself ready is answerable (`ReadyIsAnswerable`); the trust that tools read from sections agrees with the rows (`TrustedIsVerified`) |
| `answers` | Policy sections that differ in scope, time, succession, review and values, every ranking, faulty audit packets and a model that drafts anything: no section is displaced by a worse one (`NotDisplaced`); a released answer rests on complete, reviewed, cited evidence (`AnswersGrounded`) and only on outputs the gate let through (`OnlyFulfilled`) |

### Bounds

- Executor: plans of at most five operations contain every shape that matters (a
  diamond, a chain, a cycle, a dangling dependency with dependents on both sides of
  it in identifier order, a duplicate, too many operations). One or two workers make
  rejection and queueing happen; `MaxClock` 3 lets every tool and plan deadline
  (0 to 2) pass before, between and after results.
- Sessions: four requests of two or three sessions give overlap inside a session and
  eviction by others. `MaxClock` 4 is two lifetimes of 2.
- Runtime: every draft of the rules, over each combination of intent, hint, scope and
  entity count 0 to 2; `MaxToolCalls` 8 as deployed. For faulty tools, one draft
  for each kind of plan that reaches the gate.
- Requests: two slots and four requests are the least for which a slot can be free
  while somebody waits behind a granted waiter. Rate 1, two remembered clients of three,
  threshold 2 with two requests sharing a credential, one registered breaker for two
  credentials: every limit is reached. One tick ages stamps out and resets breakers.
- Releases: two slots are the least for a race; every slot is used again, so that any
  number of processes follow each other. Of two data sets the first is only built with
  local changes; two commits give two releases to promote against each other. One edit,
  while there is one release (`OneReleaseEdited`); edits are never undone. Installations
  precede the first build, with which they share nothing but finished directories.
- Curriculum: one plan of two rows in four versions (a failed scan, a repeated course, the
  plain one, a changed value), a handbook that is already reviewed, four edits. By `Forwards`
  a script does not run again once the next one has used its output, and nothing follows the
  build: a later file reads nothing of the earlier ones but registry, documents and ledger,
  which keep changing, so a second try reaches the same files as a first one.
- Answers: three sections, `top_k` 1 and 2, and rankings cut at 2 `top_k` instead of 8 and 6,
  so that every cut bites; scores by words from -1 to 1 (`rank_bm25` weighs words of most
  sections below zero, and the code asks for `!= 0` only) and of two levels otherwise, where
  negative ones are combined with a reranker that finds everything relevant; the draft
  looks at 2 facts instead of 8. A model binds at most two facts and two citations in a
  claim, beside what the deterministic synthesizer says.

### Fairness

`PlanExecutor!FairSpec` assumes that request threads run and that time passes;
nothing of the tools, which the code cannot interrupt. `PermitsComeBack` assumes in its
statement that tools end. `AgentRuntime!FairSpec` assumes that the thread of the request
runs; that `execute()` returns is `AlwaysReturns`. `RequestService!FairSpec` assumes that
whoever holds a slot is served on: the body timeout ends reading and the provider timeout
is what ends a call (but see observation 8). Neither arrivals nor queue timeouts are
fair there: a waiter is answered because slots come back, not because it gives up.
The other runs check safety only.

## 4. Findings and observations

Findings, each with a run that TLC refutes:

1. `executor_false_cycle`: the clock is read twice in one round (`agent/tools.py:286` and
   `:328`). When the plan deadline passes in between and nothing is running, lines 364-379
   record the ready operations as `invalid_operation_dependency_cycle`; the comment at
   329-330 promises a deadline record in the next loop.
2. `runtime_shortage`: `docs/ARCHITECTURE.md:43` allows one targeted repair after
   insufficient evidence, but `retrieve_policy` reports an empty retrieval as untrusted,
   unauthoritative and unresolved besides incomplete (`academic/tools.py:969`), which
   the gate refuses outright; only `missing_data` is repairable.

Observed while modelling, without a run of their own:

3. A plan may have more operations than the executor's budget of eight, which
   rejects it whole (nine for a request that asks for a course plan, a course, a module
   minimum and a policy at once). `PlannedIsAnswered` excludes these plans by `PlanFitsBudget`.
4. A structured model may request an output twice, or two that normalise to one
   (`query/normalization.py:218`); contracts are then duplicated (`query/planner.py:421`)
   and the gate refuses the request. The gate fails closed.
5. `RedisSessionStore.get` reads, judges and deletes in three steps (`session.py:203-243`):
   the deletion may hit a fresh context of another worker. `Forget` models it,
   `SessionContinuity` allows a context to be lost, and `LostForCause` says that this takes
   a later request of the same session; without its last clause TLC refutes the property.
6. Dictionary assignment keeps a key's place, so the in-memory store and the rate
   limiter evict by first insertion and not by last use.
7. A late success closes a circuit that others opened, a late failure extends it, and
   after the reset every waiting call is let through at once. Exceptions outside the list
   at `provider.py:119-128` (a reset connection while reading, say) count as neither.
   A `ProviderError` is swallowed by understanding but ends a request in synthesis
   with 503, without the fallback that malformed output gets.
8. The provider timeout bounds each socket operation, not the call; a slow sender holds
   a slot for longer. With `SWUFE_REQUEST_QUEUE_TIMEOUT_SECONDS=0` waiting is unbounded.
9. `docs/AGENT_RUNTIME.md` and `INTERVIEW_GUIDE.md` place repair after validation; in the code
   repair follows the gate only, and a regeneration rewords the same packet once (an `if`).
   The clarification branch of `_coverage_stop` is unreachable.
10. Dependents of an operation rejected for capacity are reported as blocked, or as a
    cycle, depending on the order of identifiers.

Releases:

11. `docs/RELEASES.md` shows attestations as `sha256-<digest>.json` in one directory; the code
    keeps them as `<release id>/<digest>.json`.
12. Staged files are not synchronised before the rename, so a published directory may be
    torn after a power loss; `Disturbance` covers it, and a worker that starts finds it out.
    Errors other than the listed ones leave the staging directory of a build behind.
13. The agent evaluation opens its questions after the holdout was verified and checks
    their number again, not their digest. The data set manifest of a release is not hashed
    again when a worker opens it.
14. An identity is reproducible from the files it binds (`release.py:178-182`), but one of them,
    the database, holds the wall clock (`created_at`, `extracted_at`): a rebuild from the same
    inputs is another release.

Curriculum:

15. The identifier of a record binds neither the digest of its document nor its values
    (`ingest/catalog.py:353-377`): an approval carries over to a revised row of the same
    place and code. The extraction does not compare the bytes it reads with the declared
    digest (`ingest/sources.py:265`); the build does, as `docs/DATA_MODEL.md:20` promises.
    `VerifiedIsReviewed` states what remains true.
16. `--fail-on-quarantine` fails whenever a source that is no catalog is in the extracted
    registry. Rows quarantined by the materialiser, and requirements it drops, leave a
    programme ready with fewer courses or modules. Exact duplicates of a row pass the
    extraction and make the build fail, as does a witness that names an absent chunk.
17. `list_courses` compares the first digit of a semester, so semester 10 is found under 1;
    the catalog accepts 1 to 16, `verify_dataset` at most 8. The audit counts a course that is
    offered twice twice.

Answers:

18. A bare year as `effective_from` is its last day for the retriever (`hybrid.py:45`) and its
    first day for the database (`database.py:2409`): such a document is hidden for a year.
19. A section that supersedes another removes it even when it is itself unreviewed or of lower
    authority, unlike in `policy_candidates`. Conflicts are looked for among the returned
    candidates only, and a conflict anywhere in the packet refuses a partial answer whole.
20. The set of reasons that allow a second draft names `predicate_polarity_conflict`
    (`orchestrator.py:256`), which the validator emits with a prefix and a suffix; such a
    claim is never reworded. An excerpt is cut at 300 characters, if need be within a number,
    which then is bound to no fact. A refused answer keeps the citations of all its claims.
21. `_merge_packets` of the repair path orders facts by hashed identifiers, which the comment
    at `agent/tools.py:95-98` calls a bug of the past: the quoted section would be an arbitrary one.
    It is out of reach for the same reason as finding 2.

## 5. Proofs

| Theorem | For every | Argument |
|---|---|---|
| `PlanExecutorProofs!TypeCorrect`, `PermitsAccounted` | number of plans, operations, workers, any dependencies and timeouts (finite sets) | the inductive invariant adds to types that live futures hold permits and that a cancelled set of futures returns exactly its own; cardinality lemmas for cancellation |
| `PlanExecutorProofs!ExecutorImplementsDag` | same | a per-plan invariant relates program counter, states, futures, contexts and packets; every step maps to a step of `DagExecution` or a stutter |
| `PlanExecutorProofs!BlameHasARoot` | same | `RootCause` says nothing of plans that still run; `BlameInv` holds at every program counter: state and code agree, and whatever is blocked has an ancestor with trouble of its own. Every block settles an operation for good (`Settles`), and the pass over blocked operations carries the ancestor down (`AncestorsOfDeps`) |
| `RedisSessionsProofs!TypeCorrect`, `LossesHaveCause` | requests, sessions, data sets | inductively: a reservation that Redis holds is the newest (`TokenIsNewest`), so what replaces a context is newer; a usable context under a request that refused another was written after a later reservation (`Overtaken`) |
| `RedisSessionsProofs!RedisImplementsContinuity` | same | step simulation under the mapping that hides refused values and `forgetting`; nothing is inherited before `get` returns (`Unread`) |
| `InMemorySessionsProofs!LastWriteAlwaysKept`, `AlwaysInheritsLive` | requests, sessions, capacity, times to live | the invariant ties both dictionaries to the history: a reservation is the last one made and expires a life after its `begin`, a context a life after its `put`, both keep to the sessions in use; hence no eviction while those fit (`ReservationKept`, `ContextKept`), and a purge takes only what has expired |
| `InMemorySessionsProofs!MemoryImplementsContinuity` | same | step simulation, using that a reservation in the dictionary is the session's newest |
| `AgentRuntimeProofs!TypeCorrect`, `OnlyProvenAnswers` | tool answers, drafts, budgets | lemmas about the gate (`GateSound`, `GateAccounts`) give the step from `COVERAGE_CHECK`; the rest keeps plan and packet |
| `AgentRuntimeProofs!TransitionsAlwaysAllowed` | same | status by status, with what the invariant says of the counters of repairs and rewordings |
| `AgentRuntimeProofs!PlannedAlwaysInScope`, `CallsAlwaysUsed`, `PolicyAlwaysIndependent` | drafts of any kind | `PlanInv`: from planning to the end, the repair included, nothing is planned that the query does not call for, what an operation waits for is planned, each serves a contract, and contracts follow the outputs; then lemmas over the planner's tables (`PlannableScope`, `PlanBuilt`, `RepairStep`) |
| `AgentRuntimeProofs!PlannedAlwaysAnswered` | questions that name no output twice (`DistinctOutputs`) | `ProvenSuffices`: a gate that refuses everything finds, for each contract that could be fulfilled, a producer without sound evidence; needs `PlanInv` for results and contracts, and one contract for each output |
| `AgentRuntimeProofs!RulesAlwaysAnswered` | questions understood by the rules, in any words | `ParsedIsDistinct`: the rules name no output twice, so `DistinctOutputs` holds; drafts of a structured model need not be distinct (observation 4), where the property is false |
| `RequestServiceProofs!BreakersAreConsistent`, `RefusedForOwnFailures` | requests, credentials, capacities, times | needs the provenance of breakers: a registered or held breaker was made for that credential, and an open one opened no later than the credential's last failure; `RegisterFacts` carries it through eviction |
| `RequestServiceProofs!SlotsAlwaysAccounted`, `NoSlotIdle` | requests, slots | the two together (`DoorInv`) are inductive: free slots and holders add up to `Slots`, the queue holds each waiter once, and a slot is free beside a waiter only if a granted one has yet to run; a counting lemma for each way in and out of a phase |
| `RequestServiceProofs!RateAlwaysBounded`, `AlwaysLimitedWithCause` | clients, rate, window, capacity | `LimiterInv`: a stamp is the admission of its request, a key has at most `Rate`, places are insertion order, and the stamp of a request in the window is missing only if `MaxClients` others were admitted within two windows (`EvictedForOthers`) |
| `ReleaseProofs!PointerAlwaysAttested`, `WorkersAlwaysAdmitted`, `PublishedAlwaysKept` | releases, processes, commits, reports, edits; any process may die anywhere | the invariant says at each program counter what the checks made so far still imply (`Provenance`, `Vouching`, `PointerSound`, `Untouched`): measurements, attestations and published names only grow, so that a check stays good until its use |
| `ReleaseProofs!ReleasesImplementTrust` | same | step simulation: `Provenance` maps signing to the measurements, `Vouching` the switch and the load to what was signed and active; `GatesMet` derives the policy from the gates of a report |
| `ReleaseProofs!InstalledAlwaysWhole` | data sets, installers | `StagedWhole`: a copy that was validated is private until it is renamed, and the rename needs a free name |
| `CurriculumProofs!VerifiedCoursesReviewed` | documents, versions, edits, ledgers, scaffolds, mappings | the inductive invariant `Justified /\ InRegistry` follows the values of a record: what a draft says was read, what a reviewed draft says was read or edited, what a catalog says was moreover approved under the digest its witnesses name; the history and the ledger only grow, so what was justified stays so |
| `CurriculumProofs!TrustedAlwaysVerified`, `ReadyAlwaysAnswerable` | same | `DatabaseIsWhole`: every row has a status for each strict field, and a section where it must; then `verify_dataset` and the readiness check imply, tool by tool, that packets are complete and rest on verified rows |
| `CurriculumProofs!NothingEverLost` | same | `RowsPlaced`: in the draft and in the reviewed draft, whatever operators do to them, each row of the documents read is one course or one entry of the quarantine |
| `AnswerProofs!NothingUncovered` | corpora, scores, faulty audits, drafts of a model | an invariant stage by stage (`FoundSound`, `PacketSound`, `DraftSound`, `AnswerSound`): what the merged packet holds of each output, what may be drafted from it, and that an answer is what the validator made of that draft |
| `AnswerProofs!ReleasedIsGrounded` | same | `FactSupport`, the walk of the validator over facts and evidence, is shown to find exactly what is reachable and sound: its defining equation has that solution (`SolutionSolves`) and no other (`OneSolution`), because each call leaves strictly fewer facts, of which there are finitely many |
| `AnswerProofs!NothingDisplaced` | same, any `top_k` and widths of the rankings | `RankedSound`: a cut of a ranking leaves out only what a full ranking of better ones displaced (`Kept`); a section is above another in the fused ranking only if it is ahead by words or by meaning (`FusedAbove`, on fractions); an injection counts those (`KeptCount`) |

All safety properties that the passing runs check are stated by a theorem, as is each
refinement. None of the strengthenings is assumed: each is shown to hold initially and to
be kept by every step.

Assumptions are the named `ASSUME`s beside the constants, each of which TLC evaluates in a
passing run. They say what the code's configuration checks or its types give: finite sets of
plans, requests and corpora, positive limits and times to live, a closed circuit is not a
time, the values that stand for nothing differ from those that stand for something. `AnswersAssumption`
is the longest: section identifiers are unique, as `lexical.py:101` keeps them, scores are
integers, of either sign by words, and a ranking keeps at least as many sections as their fusion
looks at (8 and 6 in the code). Two theorems carry a hypothesis on the questions,
`DistinctOutputs` and `OnlyParsed`; the instance of `runtime_planning`, which enumerates what the rules
make, satisfies both.

What the proofs changed in the model. An earlier `ContractFor` had overlapping cases,
which TLC resolves by order and a proof cannot: its cases are now disjoint. `AnswersAssumption` first
had scores by words in `Nat`; no line of the code justified it, and `NotDisplaced` had to say what "better by words"
means when scores are negative: any score but zero is ahead of zero. `UNION S \cup x` and
`SUBSET S \ x` are read differently by TLC's parser and by the prover's, and are parenthesised.
Dictionaries became functions with places, and the recursive operator of the fact walk a recursive
function, so that both can be reasoned about.

Only model-checked: liveness (`AlwaysReturns`, `PermitsComeBack`, `AlwaysFinishes`, `AlwaysAnswered`),
because the prover has no `ENABLED`, and the counterexamples of the two findings.

## 6. Not modelled, and what is left

Not modelled for good: document parsing, embeddings, how scores come about, wording
and the matching of wording, cryptography, HTTP routing, logging and metrics, one-shot
migrations. Also left out: `retrieval/service.py`, whose scope cache serves an offline
diagnostic only; the compatibility copies of `build_all.py`; the repair path in
`AnswerPipeline` (finding 2); names and nature of courses, aliases, taxonomy and the dimensions
of a comparison that read them; feasibility and course plans; entity resolution; files that
are replaced while a build reads them (`build_database` hashes chunk and ledger files after
reading them); activation in the same call as a build, which only tests do.

Worth proving next: the step from `AlwaysReturns` of the executor to the contract by which
`AgentRuntime` uses it, for the reports of several requests at once; that the two session stores keep
`SessionContinuity` when a request of `AgentRuntime` ends anywhere between `begin` and `put`;
which outputs of a request the gate keeps when a structured model names one twice (now it is only
shown that it keeps none it should not); and a bound on the time between a grant and the call it
is for, in terms of the queue and provider timeouts.
