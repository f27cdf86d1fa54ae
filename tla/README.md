# TrustAero in TLA+

TrustAero stands between an untrusted agent that writes query plans and the
database that runs them. A plan is validated against a policy, planned
physically, executed, and its execution is certified; the certificate is then
verified by somebody who does not trust the executor. Around this pipeline
stand a downloader for its data and a collection of long experiments that
survive interruption. Nothing here is a distributed protocol, but its
correctness rests on arguments that tests reach badly: what several stages
guarantee *together* about plans and policies nobody foresaw, what an event log
proves about an execution nobody watched, which files of which runs verify
together, and what is left on disk when a process dies.

This directory holds TLA+ modules translated from the Python code, TLC
configurations that check them on small instances, and TLAPS proofs of the
properties that matter most for every instance. Paths below are relative to
`src/trustaero/` unless they start with `docs/`, `scripts/` or `tests/`.

## 1. The system

```
agent --CandidatePlan--> validator --ValidatedLogicalPlan--> physical planner
                          |  ^                                  | candidates
                    policy|  |catalog                  optimizer: cost models,
                                                    feasibility, dominance, choice
                                                                |
   verifier <--certificate-- recorder <--result, lineage-- compiler + DuckDB
                                                        (ApprovedPhysicalPlan)
   registry of artifacts --> downloader --> data files --> preparation --> DuckDB
   experiments: resumable runs of units (executions, agent questions) on disk
```

| Component | State it keeps | Operations | What is hard | What makes it correct |
|---|---|---|---|---|
| Validator service (`validator/service.py`) | the plan being rewritten, normalized obligations, snapshot bindings | purpose, graph, types, policy, normalization, rewriting, rechecks, bindings, postconditions | an early return per stage; the stages rely on each other; operator ids are untrusted | nothing is validated unless every permitting rule's obligations are discharged as written |
| Obligation normalizer and postconditions (`validator/obligation_normalizer.py`, `validator/obligations.py`) | none | canonical form, merge per type, suffix order; enforcement suffix | four different partial orders; incomparable masks | merging never weakens; only the suffix after the agent's output counts |
| Type checker (`validator/type_checker.py`) | schema per operator | a transfer rule per operator type | value states and precisions carried through a DAG | no masked value is used for its value; the schema describes the data |
| Policy evaluator (`policy/evaluator.py`) | none | match, deny-overrides | several rules at once | no permission without a permit, none against a deny |
| Physical planner (`planner/`) | physical operators, rewired inputs | filter orders, mask placement, materialization, candidates | rewiring can drop an operator from the output path or move a mask below one that reads the field | every approved candidate returns the rows of the validated plan |
| Compiler and executor (`execution/compiler.py`, `duckdb.py`) | parameters collected so far | SQL per operator, checks, execution | the order of placeholders in nested text | values are bound where they were written |
| Record lineage (`execution/record_lineage.py`) | the artifact | fragment, four encodings, capture, four verifiers | identities computed twice, in SQL and in Python; masks policy adds later | an accepted artifact is the captured one and names source records |
| Feasibility and hierarchical planner (`optimizer/candidate_feasibility.py`, `hierarchical_planner.py`) | candidate sets | legality filter, dominance pruning, fallback, defer | a pruned fallback; an empty set | what is selected is legal and not dominated |
| Mask placement (`optimizer/mask*.py`) | a stored model | load or refuse, features, predict, support, margin, choose | twelve selectors that stack guards on each other; a model that is trusted where it was never fitted | no choice breaks governance; outside support or below the margin the choice is the conservative one |
| Candidate spaces and cost selectors (`optimizer/governed_*.py`, `lineage_checkpoint_space.py`, `adaptive_checkpoint.py`, `execution_aware.py`) | none | derive work and exposure, prune, price, break ties, fall back | five selectors with an order of checks each; ties within a tolerance | what is chosen is legal, and no other candidate's fate changes the choice |
| Frozen models (`experiments/*_calibration.py`, `*_holdout.py`, `real_governed_*_transfer.py`) | `model.json`, `calibration.json`, digests in a configuration | fit, write, bind, authorize, score, decide | two files and a crash between them; an evaluation that ranks by a copy of the selector | what an evaluation credits is what is deployed, and a pass means what its required comparisons say of every fixed choice |
| Governed candidate execution (`experiments/governed_pipeline_execution.py`, `governed_pipeline_admission.py`, `governed_checkpoint_reversal.py`, the transfers) | temporary tables of one connection | observe plans, warm up, run every candidate in every order, compare digests | tables of fixed names that one run leaves for the next; what EXPLAIN leaves behind | no order makes a statement fail; all candidates return the governed answer; declared work is done work |
| Recorder (`experiments/real_data_governed.py`) | event log | topological rounds, events | order of a DAG | the log passes the verifier |
| Certificate verifier (`validator/certificate*.py`, `physical_dag.py`, `lineage.py`) | none | DAG check, event coverage, ordering, digests, lineage, planner decision | logs of concurrent executions; files written by somebody else, from any run | what it accepts is evidence of one execution in dependency order; legitimate parallelism is accepted |
| Governed case studies (`experiments/multisource_case_study*.py`) | a run directory of eight or nine files, `latest_run.json` | check data, validate, plan, execute twice, certify, verify, publish | a table replaced meanwhile; a crash between files | what is published is whole, legal and of the checked data |
| Checkpointed runners (`experiments/phase2c.py` and ten others) | unit files, `checkpoint.json`, configuration and environment | create, resume, run a unit block by block, record, summarise | crashes between files; a resume with another configuration or commit | no unit lost, counted twice or measured under another declaration |
| Real-agent plan coverage (`experiments/real_agent_plan_coverage.py`) | a call log, an answer and a judgement per cell | ask, retry, persist, judge, summarise, analyse | billable calls that fail after they were charged | an answer is asked for once and judged once; every charge is in the log |
| Downloader (`data/download.py`, `scripts/download_datasets.py`) | final file, `.part` file | reuse, resume, verify, publish, retry | broken and shortened bodies, crashes, a remote file that changes | the final path only ever holds a verified file; an interrupted download ends |
| Data preparation (`data/multisource.py`) | tables, manifest | replace tables, then the manifest | beside a running loop | a loop notices |
| Range-verified downloader, reports, reproducibility, command line | files | batch | statistics | not modelled, see 7 |

Interaction is by values handed from one function to the next, and by files:
the evidence of a run, the ledger of an experiment, the prepared tables. The
catalog is immutable after construction and is a constant of the models. The
concurrent or failing actors are the executor's branches, the party that
delivers a log or hands over files, the HTTP server, the publisher of a file,
the model provider, the user who starts programs again, and the operating system
that kills them.

`PROJECT.json` lists the hazards at the line where each bites.

## 2. Modules

### Validation

| Module | Models | Correspondence |
|---|---|---|
| `LogicalPlan` | `validate_graph`, `_output_depends_on_aggregate`, `_enforcement_suffix` | graph checks reuse `PhysicalDag`, whose Python counterpart makes the same checks |
| `ObligationNormalizer` | `validator/obligation_normalizer.py`, `_matches_suffix` | obligations are records in sets; each merge is one operator |
| `TypeChecker` | `validator/type_checker.py` | `Accepts` and `Output` are the two results of a transfer rule; `Schemas` is a recursive function over the DAG |
| `Validator` | `validate()` and `policy/evaluator.py` | one action per stage of the function and per obligation of the rewriting loop; `pc` is the stage, `response` the answer |

The obligation loop of `_rewrite_obligations` takes obligations in the order of
`_sort_key`; between obligations of one type the code breaks ties by
parameters, the model takes any of them. The graph check of the model is a
closure and not the code's depth-first walk: only its result matters.

### Planning and execution

| Module | Models | Correspondence |
|---|---|---|
| `PhysicalPlanner` | `planner/physical.py`, `planner/candidates.py`, the shape checks of `compile_approved_physical_plan` | a plan is a function from operator to record; each strategy is one operator on plans |
| `QueryExecution` | `generate_*_candidates`, the compiler and DuckDB | the SQL of an operator is the sequence of rows it returns and the two orders of its parameters; cells are sequences that grow when they are masked |
| `RecordLineage` | `execution/record_lineage.py` | a traced plan gets an artifact in one of four encodings, which another process verifies; a digest is the records it is computed from |
| `HierarchicalPlanner` | the legality filter, dominance and selection | candidates are profiles of exposure and work |
| `MaskPlacement` | the features each mask model computes, its surface and range of support, the twelve `choose_mask_placement*` and the constructors' checks | `Load` builds a stored model or refuses it, `Decide` is one call of its selector; quantities are integers, logarithms a monotone table, a prediction is scaled so that division is exact |
| `CandidateSpaces` | the candidates of each governed query shape with their declared work and exposure | a profile per candidate, as functions of the statistics; extends `HierarchicalPlanner`, which decides among them |
| `CandidateRanking` | the five selectors that price legal candidates | one operator per selector: legality, support, ranking, ties, preference, fallback, with the reason each answers |

### Certificates

| Module | Models | Correspondence |
|---|---|---|
| `PhysicalDag` | `validator/physical_dag.py` | a plan is a sequence of operators and an output; duplicate ids, unknown inputs, cycles, unreachable operators; direct-input order of the first events |
| `EventCoverage` | `validator/certificate_events.py` | `first_sequence`, `has_event` and every comparison of `validate_event_coverage` |
| `DependencyExecution` | what an execution promises (`docs/architecture.md`, "Certificate verification") | abstract specification: started and completed operators, stage, lineage |
| `RecordedExecution` | an executor that overlaps independent branches and logs every step | external: the code has no such executor, the verifier is written for one |
| `CertificateAudit` | the event part of `verify_execution_certificate`, a recorder that loses, repeats or exchanges events, an auditor who replays an accepted log | composes the above; `Verify` is the code, `Lose`, `Repeat`, `Exchange` are the environment |
| `CertificateEvents` | `_topological_physical_operators` and `_certificate_events` | one action per event; a round is one iteration of the `while remaining` loop |
| `CertificateBindings` | every other comparison of `verify_execution_certificate`, and `validator/lineage.py` | `Accepted` is the conjunction over a plan, a physical plan, a certificate and what the caller observed |
| `GovernedQuery` | both case studies, the preparation beside them, `scripts/verify_certificate_bundle.py` | one action per step that reads or writes something another process can change; run directories survive `Crash`; composes `HierarchicalPlanner` and `CertificateBindings` |

Two refinements tie the event modules together. `CertificateEvents` implements
`RecordedExecution` (`RecorderIsAnExecution`), and the replay of any accepted
log implements `DependencyExecution` (`ReplayIsAnExecution`). So what the code
records is something the verifier accepts, and what the verifier accepts is
evidence of what the documentation promises.

### Experiments

| Module | Models | Correspondence |
|---|---|---|
| `MeasurementOrders` | the `_balanced_*_orders` of the experiments | orders as sequences of sequences; the seeded shuffle is a parameter |
| `UnitLedger` | what a resumable experiment promises | abstract specification: results enter once, never change, and a summary holds all |
| `CheckpointedRun` | `run_*` and `_run_unit` of eleven experiments | one run directory; one action per atomic write and per block of executions; the differences between the experiments are the fields of a record |
| `ExperimentRunners` | the eleven records | order of the files, what a resume needs and compares, the design of a unit |
| `GovernedPipeline` | one unit of the experiments that execute governed candidates | the SQL phases of each candidate over named temporary tables; `Observe`, `Run` and `EndBlock` follow `_run_unit`; composes `CandidateSpaces`, whose declared work it compares with the work done |
| `FrozenModels` | a cost model from calibration to use | one action per file of a calibration, per binding, per evaluation and per request; composes `CandidateRanking` with the evaluations' own copies of the ranking |
| `AgentCells` | the real-agent plan coverage | the call log, answers and judgements survive `Crash`; each attempt, its outcome, the persisted answer and the judgement are actions |

`CheckpointedRun` implements `UnitLedger` (`EveryUnitOnce`): an interruption at
any write, followed by any number of resumes, is invisible in the ledger.

### Download

`Download` is one artifact: `download_artifact` inside `_download_with_retries`.
A file is a sequence of blocks; the body of a response is read block by block.
The two files survive `Die`, everything else starts over with `Run`. Its variables
are named for the download (`step`, `deaths`), so that `RemoteWorkProofs` can extend it
beside `AgentCells`, the other component that works with a remote party.
`MCDownload` gives sizes to the versions.

### Model-checking and proof modules

`MC...` modules hold instances (plans, tables, policies, protocols, runners).
`...Proofs` modules hold theorems: `GovernedQueryProofs` those of `GovernedQuery` and of
the recorder of its event log, `CertificateEvents` (whose specification is named
`RecorderSpec` for that) and of `GovernedPipeline` (`UnitSpec`), `RemoteWorkProofs` those of `Download` and
`AgentCells`, `CheckpointedRunProofs` those of `CheckpointedRun` and
`MeasurementOrders`, `FrozenModelsProofs` those of `FrozenModels` and the selectors
below it, the others those of the module they are named after. `FiniteLemmas` has
the facts on finite sets, least and largest elements and sums that they share.

## 3. Runs

| Run | Instance | Shows |
|---|---|---|
| `audit` | two scans, a join and a mask, one disturbance | no interleaving of an honest executor is rejected; accepted logs keep order along whole paths and replay as an execution |
| `recorder` | seven operators, four sources, two rounds of joins | the recorder refines the executor, and its finished log is accepted |
| `validator` | about 900 plans (chains, joins, malformed ones) under few policies, and twelve plans that reach every stage under every combination of up to three of eleven obligations in one rule or shared out over two | one answer at the end; no masked value is used; obligations discharged as written; rewriter and verifier agree; output governed |
| `query_candidates` | chains of four unary steps, filters shared by two branches, hashing and redacting masks above inner and left joins, with every strategy; chains policy wants traced, with an artifact in each encoding, a table refreshed between capture and verification | approved candidates return the validated plan's rows, but for the padded cells that section 4 names; a captured artifact verifies, an accepted one is the captured one and names source records unless the key is masked |
| `governed_query` | two runs under seven protocols that differ in one thing each, one rewrite of the table at any moment, one death | files of different runs never verify together; what was approved was legal; the published run is whole; under a frozen digest only the rows of the named snapshot are certified; a sound loop publishes |
| `checkpointed_runs` | eleven runners, two units, one changed result, two crashes, resumes with another configuration or commit | units measured once and as declared; a run that `latest_run.json` names can be resumed and its summary comes in the end, but for interrupted TPC-H runs (section 4) |
| `agent_cells` | two cells asked at most twice, refused, lost and malformed answers, two deaths, resumes with another configuration | answers are final, charges are logged; a process that is not killed reports every cell of its configuration, and a failed cell is reported and keeps the run from passing |
| `download` | size and checksum declared, three faults, one crash, one replacement | `.part` aligned; only verified files at the final path; broken transfers are resumed until one succeeds |
| `mask_placement` | workloads on both sides of every range, limit and tie, models of each kind with both signs, valid and invalid | a choice is legal; more matching rows never argue against masking early, through corrections, margins and fallbacks; unsupported or unclear predictions fall back |
| `governed_pipeline` | generated and native events, dimensions with keys once, twice, partly or not at all, every policy over three values, every limit of the query; pipeline and checkpoint units; engines that leave explained tables or do not | no order of candidates makes a statement fail; equal keys aside, every candidate returns the governed answer; what was declared for the planner is what was executed |
| `frozen_models` | two fits, a configuration that requires every comparison and one that requires none, runs that pass and fail each gate, four kinds of evaluation, a death between the two files of a calibration, requests that reach every reason of every selector | an evaluation credits what the selector would deploy; a holdout scores authorized models only; a pass beats every fixed choice in what its configuration requires; a decision is legal and a ranked one stays when the policy is tightened |
| `query_parameters` | a filter below a redacting mask | *violation*: values bound in another order than written |

Section 4 names further properties that the code violates and that no run
checks; each can be checked by adding it to the configuration named there. The
type invariants (`...TypeOK`, `RoundsOK`) and `ResultsAgree`, `DesignBalanced`,
`EvidenceImmutable`, `PassIsComplete`, `CreditIsUnanimous` and
`GroupsWeighEqually` are stated beside the properties above and hold when they
are added to the configuration of their module; `RoundsOK` and `FailuresReported`
(of `AgentCells`, on which `EventuallyReported` rests) are proved.

### Bounds

* `MaxFaults` (audit): disturbances of one log. One lost, repeated or exchanged
  event produces each kind of defective log; the theorem has no bound.
* `MaxAmount`: precisions and group sizes up to 3. They are only compared, and
  three values give weaker, equal and stronger.
* Plans have at most four operators (five for joins). A masked field needs a
  mask, an operator that carries it and one that uses it; the rewriter
  appends up to four more.
* Tables have four and three rows with a NULL, a repeated key, a row that
  matches nothing and one that matches twice. `MaxRank` orders the cells there
  can be, for `Sort`.
* `MaxRuns = 2`, `MaxRewrites = 1`, `MaxCrashes = 1` (governed query): the
  properties relate files of two runs; one rewrite falls between any two steps
  of either. The theorems have no bound.
* Two units, two crashes, `MaxDrifts = 1` (checkpointed runs): a crash before
  and one after the write that a resume relies on. The theorems have no bound
  on any of them.
* `Retries = 1`, two cells, two deaths (agent cells): one attempt can fail and
  be repeated, one cell can be finished while the other is not.
* `MaxFaults = 3`, `MaxDeaths`, `MaxChanges`, `FetchRetries = 1` (download): more
  faults than the attempts of one run, so that runs fail and start over; a crash
  and a replacement each meet every step.
* Mask placement: workloads have 0, 1 or 3 rows of two widths, match rates 0, 1/2
  and 1, and every combination of what governance allows; the log table has a
  step per power of two: selectors compare sums of monotone features, and both sides of
  every comparison and every tie occur.
* `MaxBlocks = 2`, `KeyDomain = 2` (governed pipeline): what a block leaves is met
  by the next one, and the second block's order is free; with three or four events
  over two keys, matches repeat and events without a match occur.
* Frozen models: a scenario has three candidates that are fastest in turn, and each
  gate has a run on both sides; rows are in hundreds and costs whole numbers, chosen
  so that ties inside and outside the tolerance and predictions on both sides of the
  support occur. A behaviour follows the pipeline's model or the checkpoint's, which
  share no file.

Deadlock is checked where the program can go on forever (download and agent
cells: the user can start them again). The validator, the recorder, the
compiler and the audit return; a run directory that a runner refuses to open is
abandoned (checkpointed runs); the number of runs of the governed loop is
bounded. Their configurations allow termination.

### Fairness

* `Download!FairDownloadSpec`: the process runs, and it is run again after it stopped.
  The retry loop and a user who repeats the script justify this; faults,
  crashes and replacements need not occur. A server that answers the same
  request with 200 or with 206 is a choice without fairness.
* `CertificateEvents!FairRecorderSpec` and `GovernedQuery!FairSpec`: a function that
  has been called runs to its return. Nobody has to prepare data, start a loop
  or kill one.
* `CheckpointedRun!FairSpec` and `AgentCells!FairSpec`: as for the download,
  the user resumes an interrupted experiment with a configuration that is
  accepted; which one the user tries first is free. The TPC-H runners accept none
  (section 4), so for them the fairness has no effect after an interruption, and
  `EventuallySummarised` leaves such runs out (`Stranded`). `EventuallyReported` needs
  no resume: it is about a process that is not killed.

The other specifications have no fairness because nothing about them is
claimed to happen eventually.

## 4. What the violations say

* `query_parameters`: `_compile_mask` and `_compile_generalize_location`
  (`execution/compiler.py:346`, `:388`) put their `?` before the text of their
  input and their value after its parameters; `_compile_aggregate` puts its
  values first. A filter, limit or join below a redacting mask is run with the
  values exchanged.

Violated properties that are not among the runs (a configuration with the
property in place of its own shows the violation):

* `EventuallySucceeds` (`Download.cfg` with one version, `MaxFaults = 0`,
  `MaxDeaths = 1`, `MaxChanges = 0`): when the process dies after the last block
  and before `os.replace`, `.part` is complete; the next request asks for a range
  past the end (`data/download.py:213`), 416 becomes a `DownloadError`, and every
  run repeats it. `scripts/download_datasets.py:8` promises "safe resumption".
* `IdentitiesAreSources` (`QueryCandidates.cfg` with `Plans <- TracedChains`):
  `_identity_context` (`execution/record_lineage.py:349`) looks for masks of the
  key below the traced target; the masks policy adds are above it, so masked
  values become "source" identities, where the module says "Every returned row
  must retain a unique, unmasked source key." (`:4`).
  `UnmaskedIdentitiesAreSources`, checked in `query_candidates`, is what remains
  true.
* `MeasurementCommit` (`CheckpointedRuns.cfg`, one crash): a pipeline-transfer
  run resumes at any commit, and its summary names the first one for all units
  (`real_governed_pipeline_transfer.py:701`).
* `ResultAfterAllCompletions` (`CertificateAudit.cfg`, one scan):
  `certificate_events.py:142` says "ResultMaterialized must occur after all
  OperatorCompleted events."; first events are what is compared (`:94`), so a
  completion repeated after the result is accepted. `ReplayIsAnExecution` shows
  what remains true.
* `GeneralizationCoarsens` (`Validator.cfg`): `docs/validation-semantics.md:38`
  promises "fields with coarser precision metadata"; `type_checker.py:748`
  replaces the precision by the operator's, also when that is finer than what
  the field already had.
* `SumsAreNumeric` (`Validator.cfg`): `type_checker.py:373` types the MIN or MAX
  of a DATETIME as INTEGER, and a later SUM over it passes the numeric check that
  `docs/validation-semantics.md:53` announces.
* `SuccessIsWhole` (`Download.cfg` with `HasBytes` and `HasChecksum` FALSE, one
  version): `data/download.py:3` says that "an interrupted download cannot
  masquerade as a complete dataset"; 16 of the registry's 41 entries declare
  neither size nor checksum, and a body that ends early without an error is then
  published.
* `CandidatesAgreeExactly` (`QueryCandidates.cfg`): a redacting mask moved below a left
  join (`planner/physical.py:234`) leaves NULL where the validated plan redacts the
  NULL of an unmatched row. The docstring permits "joins on different keys" (`:198`) without
  asking which side a join pads. `CandidatesAgree` and `ExecutedAsValidated`, which are
  checked over the same plans, allow that difference (`SameRows`): in the fields of a
  redacting mask, below a padding join, NULL and nothing else; every other row and
  cell must be equal.
* `EveryLatestResumable` (`CheckpointedRuns.cfg`): `tpch_q1_formal.py:560` says "A killed
  process can therefore resume without inventing or losing rows.", but a resume
  compares `config.json` as JSON returns it with `asdict(config)` (`:414`, and
  `tpch_q6_formal.py:415`); `carryover_candidate_ids` is a list in the one and a tuple in
  the other, so every resume raises. `real_data_pilot.py:475` sends its own through JSON
  because "otherwise an unchanged config looks different". `LatestResumable` is what
  holds of the other nine runners.

Met while reading, without a property:

* A `MinGroupSize` that an agent places over detail rows is validated
  (`type_checker.py:821`), where the operator table asks for an "existing
  aggregate output path" (`docs/validation-semantics.md:40`); the compiler
  refuses such a plan later.
* A hash mask over an already redacted field is validated
  (`type_checker.py:776` looks at the type only), where the comment at `:768`
  speaks of raw strings.
* `analyze_real_agent_plan_coverage` writes "No unauthorized output crossed
  ..." whatever the judgements say. The holdouts write
  `"model_frozen_before_measurement": True` unconditionally, and nothing ties a
  `model.json` to the `calibration.json` of the same calibration.
* `scripts/verify_certificate_bundle.py:49` passes the text "None" for an absent
  planner digest, so the bundles of the first case study are rejected.
* A pipeline-transfer run that died between `config.json` and
  `environment.json` measures all its units and cannot be summarised.

## 5. Proofs

| Theorem | Says, for every instance |
|---|---|
| `CertificateAuditProofs!ExecutionSafety` | the executor runs operators only on completed inputs, and a result exists only when all have completed |
| `CertificateAuditProofs!VerifierSafety` | accepted logs keep the order along every path |
| `CertificateAuditProofs!ConcurrencyAccepted` | no undisturbed log is rejected, however branches interleave |
| `CertificateAuditProofs!ReplayRefinesExecution` | replaying an accepted log refines `DependencyExecution` |
| `GovernedQueryProofs!RoundsInvariant` | the recorder's rounds are sound |
| `GovernedQueryProofs!RecorderRefines` | the recorder refines `RecordedExecution` |
| `ValidatorProofs!ValidatorEnforcesPolicy` | a validated plan discharges every obligation as written and no applicable rule is against it |
| `ValidatorProofs!RewritingIsNeverRefused` | what the rewriting appends passes every check that follows it |
| `ValidatorProofs!MaskingIsFinal` | no operator that a masked field reaches computes with it |
| `ValidatorProofs!OutputIsGoverned` | the final schema shows every mask by its method, and every generalization as coarse or masked |
| `RemoteWorkProofs!ResumedPartAligned` | `.part` is aligned |
| `RemoteWorkProofs!SuccessLeavesWholeFile` | success is the whole registered file, if a checksum is declared, or a size and the file is never replaced |
| `RemoteWorkProofs!FinalPathVerified` | the final path changes only from bad to good |
| `CheckpointedRunProofs!AlwaysAsDeclared` | results on disk were measured under the frozen configuration and, where the runner compares it, the frozen commit |
| `RemoteWorkProofs!AlwaysLogged` | logged attempts account for every billed answer but for one cell's attempts per death |
| `RemoteWorkProofs!AnswersStand` | a persisted answer is final and its cell is never billed again |
| `RemoteWorkProofs!AlwaysReportsFailures` | a summary has a record of every cell of its configuration, and no run with a failed one passes |
| `RemoteWorkProofs!EvidenceStands` | judgements are of the persisted answer, and those in a summary or analysis never change |
| `CheckpointedRunProofs!AlwaysResumable` | the run that `latest_run.json` names has all a resume reads, and is admitted, for every runner that compares configurations which both went through JSON (all but the TPC-H ones) |
| `CheckpointedRunProofs!RunKeepsLedger` | a run directory refines `UnitLedger` |
| `CheckpointedRunProofs!NoPairRepeats` | in one cycle of the Williams design no candidate follows another one twice |
| `GovernedQueryProofs!SelectedIsBest` | what the planner selects is feasible and no feasible candidate dominates it |
| `GovernedQueryProofs!SomethingSurvives` | dominance never empties a finite set of legal candidates |
| `GovernedQueryProofs!AlwaysLegal` | what was approved under a decision was legal for the checked data |
| `GovernedQueryProofs!AlwaysOneExecution` | files that verify together are of one plan, one physical plan and one result |
| `GovernedQueryProofs!AlwaysOfSnapshot` | under a frozen result digest, a certificate's result is the governed rows that the snapshot it names gives |
| `GovernedQueryProofs!AlwaysLatestVerifies` | the run that `latest_run.json` names is whole and its files verify together |
| `GovernedQueryProofs!StatementsFindTheirTables` | no statement of a governed pipeline meets another run's table or misses its own |
| `GovernedQueryProofs!CandidatesAnswerAlike` | every answer a unit writes is the governed one, and with unique keys no comparison fails |
| `GovernedQueryProofs!ExecutionDoesWhatWasDeclared` | with unique keys a candidate writes, exposes, probes with and hashes what its profile declares |
| `MaskPlacementProofs!ChoiceIsLegal` | every selector chooses where governance allows it, within the limit on raw rows |
| `MaskPlacementProofs!OutsideIsConservative` | outside the workloads it was fitted on no model is followed |
| `MaskPlacementProofs!EarlyStaysEarly` | a mask placed early stays early when more rows match |
| `FrozenModelsProofs!AlwaysAuthorized` | a holdout scores no unauthorized model, and beside it its own record, unless the digests were taken after a calibration died between the two files |
| `FrozenModelsProofs!AlwaysDeployed` | what an evaluation credits is what the deployed selector answers |
| `FrozenModelsProofs!AlwaysBeatsFixed` | an evaluation that passes beats always choosing any one candidate in whatever its configuration requires to be compared |
| `FrozenModelsProofs!AlwaysDecidedLegally` | the selectors answer with a legal candidate, the pipeline's with one within the tie of every legal one, and never with none while one is legal |
| `FrozenModelsProofs!AlwaysSurvives` | a ranked choice is answered again under every tighter policy that leaves it legal |

**Assumptions.** The plan given to the executor and the recorder is a valid DAG
over known ids (`PlanAssumption`, `ApprovedPlanAssumption`: the planner's plan,
which the verifier checks again). Parsing delivers operators of the union in `ir/models.py`, with natural amounts, a
sequence of inputs, a method and fields in a mask and two keys in a join
(`CandidateAssumption`), rules with a decision of the four (`PolicyAssumption`), and a
catalog whose default versions exist and whose coordinates have the spatial role
(`CatalogAssumption`, `catalog/models.py:81`); an operator that names no field names
none of the catalog's (`FieldAssumption`). A stored mask model holds numbers where its
`from_dict` calls `float` and `int`, and members of an ensemble are a sequence
(`PayloadAssumption`); a workload's quantities are whole numbers, and `Log` is monotone
and a table of every amount a feature takes the logarithm of (`WorkloadAssumption`,
`LogIsMonotone`, `QuantityAssumption`). Whether the numbers have the signs and the
ranges they should is what constructors check, and not assumed. Versions of a
file have at least one block (`DownloadAssumption`). Configuration and
environment are the first files of a run, and a resume compares the
configuration with a file it needs or writes it first (`RunnerAssumption`;
TLC evaluates it for the eleven runners). Work and exposure are natural numbers
over equal dimensions, as `CandidateProfile` validates them
(`ProtocolAssumption`); a frozen result is the rows that the named snapshot gives
(`FrozenAssumption`), and rows are not the absence of a result (`RowsAssumption`; two
tables may give the same rows, or none). Cells are
finitely many (`AgentAssumption`). A unit of the pipeline experiments is of one of
their two kinds; its events are finitely many rows of four columns, numbered by
`row_id` as the SQL that creates them does (a range, or `row_number()`), and its lines
have a key and a marker (`UnitAssumption`). Models, guards, policies and requests are what their
constructors accept and a primary regime is configured (`FrozenModelsAssumption`); a gate
is a natural number and a configuration requires any of the comparisons, or none
(`ConfigurationsAssumption`); a measured run has finitely many groups, each with every
candidate that was legal when it was planned (`MeasuredAssumption`): the experiments
refuse a matrix with a hole (`governed_pipeline_admission.py:401`,
`execution_aware_calibration.py:39`).

**Arguments.**

* *Audit.* `AuditInvariant` adds to the executor's invariant
  `DependenciesRespected` that its log mentions each step once, numbered
  consecutively and in the order the steps need (`LogInvariant`), that an
  undisturbed log is that log, and that a verdict is the one the delivered log
  deserves. `ParallelismAccepted` follows because an honest finished log passes
  every check; `AcceptedOrder` follows from the checks alone
  (`CoverageOrdersAncestors`), by an induction along the ancestors expressed as
  membership in every closed set, whatever was done to the log.
* *Replay.* Positions of first events are ordered as their sequence numbers
  (`AcceptedPositions`), so a replay step is either the first event of its
  kind, hence an abstract step whose guard holds, or a stutter.
* *Recorder.* `RoundsOK` is inductive once the log before the operators is
  known (`RecorderOpening`), which the decision's uniqueness needs.
* *Validator.* The invariant follows the data through the stages: the plan is
  the candidate plus operators (so scans and bindings stay what they were),
  from normalization on the decision is PERMIT and the obligations are the
  merge of what the rules wrote, and at the end the postconditions hold. It
  then remains to show that what satisfies a merged obligation satisfies each
  of those it was merged from (`NormalizedCovers`, one lemma per merge).
* *Validator, rewriting and schemas.* `AInv` adds what the accepted plan is: ids that
  differ, and a graph on which every set with all inputs of what is in it holds
  every operator (`Sound`), which replaces the recursion of the graph check. The
  tables of the walk back from the output and of the schemas are recursive: each is
  determined by its equation on a sound plan, by the least operator where two would
  differ, and exists by the same argument. A fresh id exists because of more ids than
  operators two would have to be the same (`TwoShareOne`). One turn of the rewriting
  (`ProgressStep`) keeps the plan sound and typed and adds one enforcer to the chain.
  A masked value is recognised in a schema by its state and its lost roles; every
  transfer rule keeps both and refuses its use, which makes masking final. That the
  output is governed needs that no field has two methods once obligations are merged
  (`Mergeable`): otherwise a later mask would overwrite an earlier one.
* *Download.* Alignment needs that the body's position is the length of `.part`
  while a body is read (`Streaming`); success needs what is known of the final
  file from the refusal to reuse it to the promotion (`NotReusable`,
  `Promotable`).
* *Checkpointed run.* `IInv` says what a process may rely on in each phase:
  nothing is measured while a run is opened; once it is open the frozen
  configuration is the process's own (`Declared`) and what it takes as done is
  what is listed (`Measuring`, `Recorded`). A crash falls back to `idle`, whose
  phase says nothing, and `Disk` is what survives. The refinement maps the
  ledger to the listed units: a unit file that no list names yet is not in the
  ledger, so a crash between the two writes is a stutter.
* *Orders.* Consecutive columns of the terrace differ by k or -k modulo the
  even number of periods, so no difference occurs twice (`StepsDiffer`); a pair
  that occurred twice would need two equal differences.
* *Checkpointed run, latest.* `Resumable` needs that the files are written in the
  runner's order and that a pointer is only written behind the files a resume needs;
  the admission of some tree follows from the environment on disk being the one the
  run was created with, and from the configuration on disk being equal to the one in
  memory where both went through JSON (`LoadedMatches`).
* *Agent cells.* A charge that is not in the log is one of the process that is alive
  (`Accounted`): dying moves it to the account of the death, so the sum is bounded by
  the attempts of one cell per death. An answer stands (`Standing`) because asking is
  guarded by its absence in every phase, also after a resume.
* *Frozen models.* `FilesInv` follows the two files of a calibration through a death
  between them and through bindings that a later calibration outdates. What is credited
  equals what is deployed because both rank by the same predicted sums among the same
  legal candidates (`Ranking` lemmas; ties are broken in the same order). Tightening
  only removes candidates, and the least of a set is the least of every subset that
  keeps it. For the best fixed candidate, sums over scenarios are exchanged with sums
  over families, the baseline is a least element of the fixed sums, and the
  improvement over it carries to every other. What is not required is not claimed: each
  part of `BeatsFixed` has the flag of its gate as a condition. In the checkpoint
  transfer the picked seed of a family is one of its seeds, so its hits are among
  `SomeHits`; where seed consistency is required the choice of every seed is the same
  and they are `SureHits`.
* *Mask placement.* A decision is what the loaded model chooses (`PlacementInv`), so
  legality and conservatism are facts about the selectors, each governance around a
  choice. For monotonicity the costs are sums over features: with coefficients that
  are not negative a late cost grows with the match rate and an early one does not
  (`CostsMove`); coefficients of the match features that are not positive make the
  residual fall (`CorrectionFalls`); the terms of the four surfaces of a pipeline
  model compare two and two, since the output term is the same for both placements
  (`RatioFalls`). A smaller ratio then keeps an early choice through the margin and
  the fallback: a sign that was overruled stays overruled or clears the margin on the
  other side.
* *Governed query.* `IInv` binds every file in a run directory to that run's
  protocol and checked data (`RunsHold`), and `Ordered` says that evidence is
  written in order, so a certificate comes with the plans it is for. The
  identifier of a physical plan binds its strategy; the decision, which it does
  not cover, is compared by itself; hence two files that pass the comparisons
  agree (`SamePlan`, `SamePhysicalPlan`). Legality is `SelectedIsBest` at the
  planning step. The published run is whole because the pointer is written after
  the last file (`Ordered`) and nothing removes a file; its files verify by the same
  binding, read backwards. The snapshot theorem adds that the rows of a result are those
  that the data there gave when the query ran, so equality with the frozen ones makes
  them the named snapshot's; nothing is said of which table that data was. `SomethingSurvives` needs that dominance is a strict order
  (`DominatesTransitive`): a candidate with fewest dominators has none.
* *Governed pipeline.* Every run drops at least what it is about to create, and a
  statement reads only what the one before it made (`SetupOf`): a session in which the
  candidate's tables are gone (`Drops`) has no error after any of its statements
  (`Creates`, `Phases`, `CreatingSucceeds`), so only a profiled checkpoint can miss a
  table. The strengthening (`UnitInv`) says no more than that the candidates left in a
  block are candidates.
* *Governed pipeline, answers and work.* `MeasuringInv` says of every measurement
  that its answer is the governed one in order and that its work was done on tables
  each of which is what its statement makes of the others (`Evident`, `Consistent`);
  the session lemmas say that a run leaves such tables, whatever it found. Then the
  tables of a candidate are images of sets of events (`EventRow`) or of events with a
  line of their key (`JoinedRow`), and every operator of the SQL moves such an image to
  another one (`RowsAdmitted`, `PairsAdmitted`, `MaskedColumns`, `JoinedRows`); all
  three candidates end in the image of the same pairs. Two enumerations in order are
  one, because where they first differ each would have to be before the other
  (`AnswersInOrder`, which needs unique keys), and the sums of a checkpoint unit do not
  change when rows are renamed (`SumRenamed`). The work is counted through the same
  images: rows are as many as the events they name (`EventRowsCount`), or those of them
  with a line (`JoinedRowsCount`), and with unique keys that is what `Statistics`
  counts (`CountedIs`).

**Only model-checked.** Liveness (`UndisturbedSucceeds`, `LogAccepted`,
`EventuallySummarised`, `EventuallyReported`, `SoundLoopPublishes`): temporal
formulas under fairness are out of the prover's reach. The properties of rows in
query execution and record lineage (`CandidatesAgree`, `ExecutedAsValidated`,
`AcceptedIsCaptured`, `UnmaskedIdentitiesAreSources`): what a plan returns is there
computed by recursion over its operators and over sequences of rows, for every plan
and not for three fixed ones, and what it computes for every plan is an induction over
its depth with an operator as a parameter, which none of the provers can instantiate.

## 6. Abstractions

Left out everywhere: wording, digests as strings, JSON. In the type checker:
repeated names in a field list, coordinate reference systems, empty time
ranges, literal types, nullability, decimals, product aggregates, more than one
expression per aggregate. In the validator: role, purpose and action are one
context, and the plan digest is not computed. In the download: the registry's
parsing, the audit file, progress output.

*Query execution.* Aggregates and spatial operators are typed and compiled but
have no rows. DuckDB is assumed to number `?` in textual order and to keep the
order of a subquery's rows, which the code relies on as well.

*Record lineage.* A digest is the set or sequence of records it is made from,
so digests collide only for equal data. JSON edges are a set. Keys are unique in
the result and need not be in the source. Generalized keys are not modelled.
Three verifiers take the result's id from the artifact and therefore accept
rows with the same keys and other values; only the fourth binds values and order.

*Governed query.* The illegal request, tests of the result's rows, the report
and the copies of the agent's requests are left out; the table is replaced by one
of three contents: one with other governed rows, one with the same and one with none. The digest of a result covers its rows
(`execution/duckdb.py:52`) and neither the plan nor the tables: `ResultOf` is any function
from request and table to rows. A protocol without a frozen result digest accepts a
table that is replaced after the check, and one with a frozen digest a table that is
replaced by another with the same rows (hence `FrozenResultIsOfSnapshot` is about rows).
The snapshot of the catalog and the manifest's digest are never compared by the
code. An order fault in the events is the subject of `CertificateAudit`.

*Checkpointed runs.* Progress, log and failure files, torn lines of
`measurements.csv`, statistics, and two processes that resume one run at the
same time are left out. The persisted rows of a TPC-H run are not compared with
a resumed process's reference digest by the code, nor in the model.

*Agent cells.* The validator's verdict on a plan is any of its statuses. The
cap on billable calls is compared with the number of cells only, a resume
compares no configuration, and a recorded `request_sha256` is never compared:
the model does the same.
*Mask placement.* Fitting (ridge regression, calibration of thresholds) is not
modelled: how a model was fitted is one flag, that the provenance its
constructor asks for is there. Exponentials of a prediction are monotone and are
compared before they are taken; predictions beyond the range of a float, for
which the code raises, do not occur. The constructor of the residual model takes
match coefficients up to 1e-12 as not positive (`mask_residual.py:93`); coefficients are
whole here and the test is `<= 0`. A coefficient in between could, in the code, turn a
decision that is within that tolerance of a tie, which `MatchMonotone` does not cover.

*Governed pipeline.* A table is a set of rows; a masked value is a term, so masks
collide only for equal values. Whether explaining a `CREATE TABLE` leaves the table
is the engine's: pipeline units succeed either way, checkpoint units only if
`EXPLAIN ANALYZE` leaves it, as `NoStatementFails` says. Timing, memory and
the seeds of the orders are left out; any order may come next, and the engine may
fail any statement. With a repeated key in the dimension candidates may differ (the
unit is then lost), hence `UniqueKeys` in two of the properties.

*Frozen models.* A fit and a bootstrap are any outcome. `log2` is whole. The
configuration of all the models of a run is one (same tie and preference). The gates and
the `require_*` flags of an evaluation are a record of `Configurations`: `mean` and `p95`
(`governed_pipeline_cost_calibration.py:323`, `governed_pipeline_cost_holdout.py:286`,
`real_governed_pipeline_transfer.py:859`, `policy_stratified_pipeline_holdout.py:355`),
`carryover` (`policy_stratified_pipeline_holdout.py:368`; the other two ask for it
always), `both` (`governed_checkpoint_optimizer_holdout.py:446`) and `seeds` (`:449`,
`real_governed_checkpoint_transfer.py:836`). The only configuration of these evaluations
in the repository, `policy_stratified_pipeline_holdout_evaluation_v2.json`, has all of its
flags on. With a flag off a pass says nothing of that comparison; with `seeds` off the
selection of a family whose seeds disagree is that of whichever seed comes first
(`real_governed_checkpoint_transfer.py:775`), and only the families of which some seed is
right are known to outnumber those of a fixed choice. The
flag `model_frozen_before_measurement` is written unconditionally by the code and
therefore not a property. `ScoredIsAuthorized` leaves out a record that a death
separated from its model: binding the digests of both then passes every check, as
the model shows. `ChoiceSurvivesTightening` compares policies that ask for the same
checkpoint; without one, the fused candidate dominates policy first.
`PassBeatsEveryFixed` is about means and families: the 95th percentile is compared with the one
fixed candidate that is best on average.

## 7. Not modelled

Fitting cost models is regression over measured costs in floating-point arithmetic.
The experiments that section 2 does not name (multi-join queries over TPC-H and
BTS, the record-lineage pilot and its evaluation, calibrations of lineage
checkpoints and of other cost shapes, ablations and plan mutations under
`scripts/`, validator scalability, paired statistics, tables and figures) measure,
fit or tabulate in one pass and keep nothing that a later step could find stale.
The range-verified BTS downloader (per-block files and a worker pool), the
one-shot preparations, reports, digests of files (reproducibility) and the
command line read and write files in one pass. SQL text is a translation without
state; execution is the database's.

## 8. Plan

1. `RangeDownload`: blocks, headers and workers, as an implementation of the
   same promise as `Download` (the final path only ever holds a verified file).
2. Proofs: that an accepted artifact is the captured one (`AcceptedIsCaptured`), which
   compares records and needs of the rows only that they are a sequence.
