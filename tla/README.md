# Diamond Thermal Lab OS: formal models

TLA+ modules about the parts of Lab OS that are hard to test: artifacts that
several processes write and read through a file system, a chain of commands
that carries a decision from a case to a proposal through files people edit in
between, sidecars that several readers judge by rules of their own, and audits
of files that change under them.  TLC checks the modules on small instances;
TLAPS proves the core of them for every number of writers, directories, commands, sources,
sidecars, commits and incidents.

All source paths below are relative to `src/`.

## 1. The system

Lab OS is a set of command-line tools and a Python library.  There is no server,
no thread and no lock: what runs concurrently are processes (two operators, a
script and an editor), and what they share is the directory tree of a case.

| component | state it keeps | operations | talks to |
|---|---|---|---|
| EPR compiler and writer (`labos/engineering/compiler.py`) | `engineering/problems/EPR-###.json`, immutable once there | `compile_engineering_problem`, `write_engineering_problem` | reads the numbered case files and the evidence / measurement sidecars |
| EER binding, writer, reader (`labos/engineering/evaluation_binding.py`) | `engineering/evaluations/EER-###.json`, immutable once there | `bind_evaluation_plan`, `write_engineering_evaluation_result`, `load_engineering_evaluation_result` | reads the EPR file |
| strict 1-D evaluation and orchestration (`labos/thermal/`) | none (pure) | `orchestrate_strict_1d`, ... | turns a bound plan into an EER |
| engineering models (`engineering/problem.py`, `evaluation.py`, `quantities.py`, `serialization.py`) | none (immutable values) | `from_dict`, validation, canonical bytes | used by all of `engineering/` |
| prediction-reality adapter (`engineering/prediction_reality_adapter.py`) | none | `project_eer_prediction_to_measurement` | reloads EPR, EER and a measurement sidecar |
| evidence and measurement sidecars (`labos/evidence/`, `labos/prediction_reality/`) | `evidence/*.json`, `measurements/*.json` | template, validate, summarise, compare | read by the compiler and the adapter |
| triage and decision board (`labos/triage/`, `labos/decision_board/`) | none (read the numbered files and the sidecars) | `triage_case`, `build_decision_board` | used by the export |
| review package (`labos/review_package/`) | four files in a package directory | `export_decision_review_package` | hashes the numbered files, embeds the board |
| human decision record (`labos/decision_record/`) | one record file, then edited by hand | `create_decision_record_template`, `validate_decision_record` | bound to one package |
| canonical proposal (`labos/canonical_proposal/`) | four files in a proposal directory | `build_canonical_decision_proposal` | validates record against package and case |
| case checkers (`labos/checkers/`) | none | text scans | report to people |
| benchmarks (`labos/benchmarks/`) | sealed manifest, execution baseline | seal, verify, run, leakage scan | tests and CI |
| pattern index (`labos/patterns/`) | none | `resolve_pattern_id` | used by the record validator, triage, case generator |
| command line (`scripts/`) | none | dispatch, case generation | everything |

What is hard here, and what makes each part correct:

* **Both writers.** Publication is "write a temporary file, sync it, `os.link` it".
  Several writers of one ID, directories replaced underneath, system calls that
  fail on either side of the link, kills and power loss.  Correct means: a linked
  file is complete, never replaced, removed only by the rollback of its own
  writer; success means that the bytes are there; stale input never gets
  published; every call ends.
* **The compiler.** A snapshot of several files that people edit, taken without a
  lock and verified twice; sidecars are read several times, by the compiler and by
  validators, and one that fails becomes a finding.  Correct means: what a published
  EPR records is one state of the case, and no later read of it saw anything else.
* **The decision chain.** Three commands, each re-reading files the others and
  people write, with no lock and no common transaction.  Correct means: nobody can
  turn a held case into an approval, a package, a record and a proposal that
  pass the hash checks belong together, and what is stale is refused.
* **Triage and board.** Rules with early returns and precedences, computed anew
  after every edit, and two functions that each decide about the same routes.
  Correct means: no order of edits makes a case look ready while a gap is open, and
  status, routes, deferred routes and actions agree with each other.
* **Thermal orchestration**: no concurrency, but three parts that each decide on the
  same facts: the plan counts scenarios and the orchestrator generates them; the
  model closes and sorts acknowledgements and the record checks them again; core
  and OAT scenarios both produce results, and only the former count.  Correct
  means: what a plan asks for is executed or visibly missing, only comparable
  candidates are ranked, no assumption is used unacknowledged, and what ends well
  can be recorded.
* **Sidecars and their readers.**  Evidence, measurements and prediction records
  are JSON files edited by hand.  Validators, triage and compiler read them with
  three sets of rules, and none is told what changed.  Correct means: the readers
  draw the same conclusions from a valid case, nothing counts as reviewed or
  learned without the reviews and links it needs, and no command adds a review.
* **Adapter, leakage scan, sealing, baselines.**  A verdict about files that are
  read one after the other while they change.  Correct means: what is projected is
  what was validated, a pass overlooks nothing that was there when it looked, and a
  clean verification means what it says, in both directions.

## 2. Modules

| module | models | used by |
|---|---|---|
| `WriteOnceStore` | abstract: what a no-clobber writer promises for one ID | refined by the two writers |
| `WriteOnceStoreProofs` | agreement and permanence of the store | |
| `EvaluationWriter` | EER binding, writer, rollback, cleanup, reader; the environment | |
| `EvaluationWriterProofs` | its invariants and its refinement, proved | |
| `ProblemWriter` | EPR compiler's reads of numbered files and linked sidecars, writer; the environment | |
| `ProblemWriterProofs` | its invariants and its refinement, proved | |
| `DecisionBoard` | `triage_case` and `build_decision_board` as functions of what a case states | `CaseScreening`, `RecordValidator`, `DecisionChain` |
| `CaseScreening` | a case from its template through any edits, with the board it has at each point | |
| `CaseScreeningProofs` | what a ready board means, how it is reached and lost, what it defers and asks for, proved | |
| `RecordValidator` | the verdict of `validate_decision_record` as a function | `DecisionChain` |
| `DecisionChain` | export, template, loader, validator, proposal, and the edits between | |
| `DecisionChainProofs` | its properties, proved, each for as much overlap as it survives | |
| `EvaluationPlan` | when a plan is accepted, how it counts, both acknowledgement orders | `Strict1D` |
| `Strict1D` | binding, closure of acknowledgements, and one scenario, as functions | `Orchestration` |
| `Orchestration` | one call from the plan to the record | |
| `OrchestrationProofs` | its four properties, proved | |
| `Sidecars` | the three validators, comparison and summary of a case, as functions of its folders | `SidecarReaders` |
| `SidecarReaders` | thermomechanical screening and the compiler's check of provenance, as functions of the same folders | `EvidenceLoop` |
| `EvidenceLoop` | the folders under edits, copies, deletions and the three template commands | |
| `EvidenceLoopProofs` | its properties, proved | |
| `FileTree` | external: a tree of files that others change during reads | `MeasurementAdapter`, `LeakageScan`, `SealedManifest` |
| `MeasurementAdapter` | the projection of a prediction onto a measurement, with its two snapshots | `TreeAudits` |
| `LeakageScan` | the leakage audit's walk | `TreeAudits` |
| `SealedManifest` | sealing, the manifest file, verification | `TreeAudits` |
| `ExecutionBaseline` | measuring, recording and verifying protected files against Git | `TreeAudits` |
| `TreeAudits` | one of the four in use while people change what it reads | |
| `TreeAuditsProofs` | the property of each of the four, proved | |
| `MCEvaluationWriter`, `MCProblemWriter`, `MCCaseScreening`, `MCDecisionChain`, `MCOrchestration`, `MCEvidenceLoop`, `MCTreeAudits` | instances for TLC | |

Definitions ending in `_Something` right before a definition (for example
`SyncTemporary_NoSync`) are faulty variants: what the code would be after a
plausible slip.  Replacing the definition by its variant must break a property,
which is how we know that the property can fail at all.

### 2.1 `WriteOnceStore`

State: `stored`, and per caller what it `wants` and the `reply` it got.  A caller
submits content; the first publication sticks (`Permanence`); "accepted" is only
said while the store holds exactly that content, hence two accepted callers
submitted the same (`Agreement`); a caller may be refused at any time.

### 2.2 `EvaluationWriter`

One evaluation ID of one case.  `evaluations` is the directory object behind the
pathname `engineering/evaluations` (replacing the case or the engineering
directory replaces it as well), `target[d]` the file object linked under
`EER-###.json` in directory object `d`, `temp[w]` the directory holding the
temporary name of writer `w`, `bytes[w]` how much of its content has reached its
file (`"cached"`: written but not synced).  `created`, `valid`, `raised` are the
locals `created_target_link`, `valid_target_present` and the exception that will
surface.

Each label of `pc` stands between two groups of system calls of
`write_engineering_evaluation_result`; the actions follow the function from top to
bottom: `Rebind` (`_independently_rebind`, `_validate_writer_binding`, first
freshness check), `MakeDirectory`, `CheckExisting`, `CreateTemporary`,
`CheckTemporary`, `WriteTemporary`, `SyncTemporary`, `CheckDirectories`,
`CheckFresh` (second freshness check), `LinkTemporary`, `Collide` or `ReadBack`,
`Settle`; on an exception `RollbackInspect`, `RollbackUnlink`, `RollbackConfirm`;
`CleanupTemporary`.  The environment edits the EPR, swaps directories, fails
system calls before (`IoError`) or after (`ReadBackError`) the link or in the
`finally` clause (`CleanupError`), deletes the published file, kills a process,
cuts the power.  `Budget` bounds each kind of incident, `MaxEdits` the EPR edits;
nothing else is bounded.

Fairness (`FairSpec`): weak fairness of each running call's next step.  The writer
is straight-line code that waits for nobody, so a call that is not killed goes on.
Nothing is assumed about the environment, about readers, or about anybody making
a call.

### 2.3 `ProblemWriter`

One problem ID of one case.  A source's `version` is the number of its edits.  The
authoring data links provenances (`Linked`) to sidecars, each with the evidence that
owns it, and declares a hash for each (`Declares`); the validator of a sidecar reads
the files in `Consults`.

`ReadNumbered` reads a numbered file once and records its hash from the same buffer.
Then `turn` walks over the provenances as `_provenance_reality` does.
`HoldSidecar` takes the bytes of the linked sidecar into hand (`held`), `CheckSidecar` is
one read of its validator, `HoldOwner` and `CheckOwner` do the same for the owning
evidence of a measurement, and only then do `CommitOwner` and `CommitSidecar` record the
hashes of the bytes in hand (`recorded`, `seen`).  So the validator of a
measurement reads the owning evidence before that is read for its hash.  Any check
may fail: a read that raises (`SidecarError`), a rejection after one or both hashes
were recorded, a declared hash that is another.  A failure is a `Finding` of this
provenance (`verdict`), the walk goes on, and what was not recorded by then never
is, so no later pass looks at it.  `IoError` at these steps stands for what the loop does not
catch: it ends the call without an EPR.

`VerifySource` and `ReverifySource` are the turns of the two
`_assert_sources_fresh` loops, over what was recorded; the rest is the writer.  `Epr`
has the authoring data, the hashes of the numbered files and the findings; the
hashes of sidecars are kept beside it.  `asOf` (versions when the last pass began),
`basis` (versions read since the last read for the hash) and `entryLost` are
history variables that only properties use.

### 2.4 `DecisionBoard` and `CaseScreening`

The rules of triage are searches for phrases in the numbered files, except for the
thermomechanical screen, which reads `evidence/*.json` and `measurements/*.json` as
well (`triage/thermomechanical.py:257`).  A case is
therefore a record of facts, one per search, plus the list of patterns mentioned
(in order, each once).  `Secondary`, `TriageStatus`, `Primary`, `TriageAction` and
`TopUncertainty` follow `triage_case`, including its early return for missing
inputs; `StatusOf`, `RouteStatus`, `RouteUncertainties`, `Deferred` and
`AllActions` follow the functions of `decision_board/builder.py`.  The
thermomechanical rules count as one fact: whether any of them triggers
(`SidecarReaders` says when, from the text and the sidecars); it may change with
either.

`CaseScreening` starts from the facts of the template that `create_case` writes and
lets people change one of them at a time, in any order and as often as they like.

### 2.5 `RecordValidator` and `DecisionChain`

`RecordValidator` turns the rules of `decision_record/validator.py` into one
verdict.  Route lists remain sequences of names, because duplicates, aliases and
unknown names each have their own rule; texts are reduced to what the rules ask
of them (is the rationale missing, about bulk conductivity only, or about the
system; are acknowledgements complete; ...).

`DecisionChain` holds the numbered files (one value, `case`), the sidecars as far as
the board depends on them (`reviewed`: the screen finds stress and bow reviewed), the
four package files, the record, the four proposal files, and per command its program
counter and what it has read.  A text may leave something open to the thermomechanical
screen itself, be outside of it, or have everything declared, so that rule 003
depends on the sidecars; `FactsOf` puts the two together, and `Board` is a function of the result.
A hash is the content it is a hash of, and only numbered files are hashed
(`review_package/manifest.py:22`): a change of `reviewed` changes a board and
no hash.  Every read
that the code does separately is an action of its own: the export builds the board
and hashes the case in two steps; the loader reads manifest, artifacts, preview and
manifest again; the proposer loads the package twice (the second time in the
validator) and reads the record three times.  A package file is opened
(`TruncateFile`) and then written (`WriteFile`); a proposal file is moved into
place (`Publish`).  `Stop` kills a command anywhere.  `seen` is a history variable: the
states the numbered files were in while a command ran.

`Overlap` says what may change while commands run: with `"export"`, `"template"`,
`"propose"` people edit the numbered files and the sidecars while such commands run, with
`"record"` the record, and with `"package"` commands start while others run.  The run `DecisionChain` has
`{"propose"}`.

### 2.6 `EvaluationPlan`, `Strict1D` and `Orchestration`

A candidate has three quantities: `area`, which must equal the source's for the
path to be one-dimensional; `conductivity`, which the arithmetic uses; and `spare`,
a property the model does not use unless an OAT point names it.  They stand for the
three ways a field can matter: to applicability, to the result, to OAT only.  Each
carries its envelope's status; `missing` also covers `conflicting`, since both
leave no usable value.  Numbers are integers over a shared exponent; the physics is
the constant function `SourceTemperature`, which may fail.  The objective is the
source temperature.  Identifiers, hashes, units and messages are left out; findings and
warnings are kept by rule, because coverage and the unions depend on them.

`Orchestration` makes one call: `ReadPlan` (`EvaluationPlan.from_dict`), `Bind`
(known candidates, binding, OAT targets, sweep expansion), `ExecuteCandidate` once per candidate
(core scenarios in the order of `itertools.product`, then OAT, then aggregation),
`Compare` (the count, eligibility, ranking, the result schema's validator, the outcome)
and `BuildResult` (prediction outputs and `_validate_eer`).  `refusal` says which
part ended the call.  `PointCount` divides as the plan does, in a context that
rounds from `AmbientLimit` on; `Points` steps as the orchestrator does.

### 2.7 `Sidecars`, `SidecarReaders` and `EvidenceLoop`

A folder maps file numbers to contents: absent, no JSON, JSON but no object, or an
object.  File *n* has the name the command line proposes for object *n*; file 0 is a
temporary `.labos-*.json`, which every reader takes for a sidecar, because they go
by the suffix.  An object has the fields that readers relate to each other (ID,
owner, status, reviewer, links, quantity, value, unit, disposition); all other
rules of format are one Boolean, `sound`.  A value is null, a word, a text that
reads as a number, or a number, NaN and infinity among them: `decimal_value` accepts
the last two kinds, triage numbers only, `convert_quantity` only what is `Convertible`
with a unit `Registered` for its kind; anything else raises there and becomes a
finding.  A comparison may raise as well (`Undefined`: an infinite reality).  A `case_id` has a
spelling: validators strip blanks from that of a sidecar and quotes and comments
from that of the intake (`loader.py:33`), triage takes the rest of the intake's line as it is
(`thermomechanical.py:87`), and the compiler compares IDs as they stand.

`Sidecars` has the validators (`EvidenceFails`, `MeasurementFails`,
`PredictionFails`), `Comparison`, `SummaryFails` and `LoopStatus`; `SidecarReaders`
has triage's `SourceContext`, `ReviewedContext`, `QuantityState` and the seven rules,
and the compiler's `Substantiated`.  They keep what makes the three differ: who
looks up by ID and who by file name, who notices a duplicate and who takes the
last one, who demands a reviewer of whom.

In `EvidenceLoop` people change one field of one file, copy, break or delete a
file, or revise the text of the case, the spelling of its ID included; a template command checks that its output is
free, makes an empty temporary, fills it and renames it, and may fail or be
killed after each.

### 2.8 `FileTree` and the audits

`FileTree` is the world outside: objects with identity and stamp, directories that
are objects too, links, and people who edit, create, remove, swap directories for
prepared ones or for links, and bring back what was there before.  `late` is a
history variable: the paths that came to lead elsewhere since the tool last vouched
for them.

* `MeasurementAdapter`: `_measurement_snapshot` one system call at a time (look,
  open, read, `fstat`, look again), validation between the two snapshots, comparison.
* `LeakageScan`: roots looked at twice, a stack of directories with the snapshot
  before and after each listing, entries by the kind they were listed with, files
  opened, compared, read and compared again.  A listing may or may not contain
  what comes or goes during it.
* `SealedManifest`: artifacts hashed one by one, exclusive creation of the manifest,
  its write (which may fail or be cut off), and later load, listing and
  verification.
* `ExecutionBaseline`: the working tree measured item by item, the record with a
  commit named by the caller, and both layers of verification; people edit, commit
  part of what differs, check out, delete the record.  `GitFindings` are the five
  questions asked of Git.

`TreeAudits` runs one of the four per behaviour, since they share no state.

## 3. Runs

| run | instance | what it shows |
|---|---|---|
| `EvaluationWriterCalm` | 3 writers, 2 results, 1 directory, 1 EPR edit, 1 failing call, 1 kill | `TypeOK`, `SuccessBacked`, `ReadersAgree`, and the refinement of `WriteOnceStore` |
| `EvaluationWriterFault` | 2 writers, 2 results, 3 directory objects, 2 swaps, 1 each of io error, read-back error, removal, kill, power loss | `PublishedComplete`, `NoClobber`, `OnlyOwnLinkRemoved`, `CreatedSuccessKept`, `FailedLeavesNoTarget`, `TemporaryRemoved` |
| `EvaluationWriterFair` | 2 writers, 1 EPR edit, 1 swap, 1 read-back error, with fairness | `CallsEnd`, `EventuallyPublished`, `StaleNeverPublished` |
| `EvaluationWriterAdopted` | 2 writers, 1 read-back error | finding 1 |
| `ProblemWriter` | 2 calls, 1 case file, an evidence file and a measurement it owns, a provenance for each, 1 edit of each file, any check failing, any number of failures, kills, power losses (2,430,256 states) | `TypeOK`, `PublishedComplete`, `SnapshotFresh`, `SuccessBacked`, `RecordsItsBasis` |
| `CaseScreening` | 3 patterns (direct GaN-on-diamond, another diamond pattern, a conventional one), at most 2 at once; all statements | `ReadyHidesNoGap`, `SelectionNeverReadies`, `ReadyIsLostToGaps`, `DeferredAreFramed`, `NoActionIsCut` |
| `DecisionChain` | 2 exports, 1 template, 2 proposals, each with or without `--force`; a case that moves between a complete text that depends on its sidecars and one held for data, also while proposals run; reviews in sidecars given and withdrawn; 2 routes, an alias, a typo; 3 record bodies (310,452 states) | `ContextCoherent`, `ApprovalWarranted`, `RenderedRecordPasses`, `StaleRecordRefused`, `ProposalWasCurrent` |
| `DecisionChainHold` | record bodies that defer | finding 2 |
| `Orchestration` | 2 candidates, 16,530 requests (91,942 states): 9 x 2 candidate states, 3 limits, all, one or no candidate limited, 9 sweep lists, 4 OAT requests, acknowledgements exact, one short, one over; a plan for an unknown candidate | `RefusalsExplained`, `ResultsComeFromCore`, `RankedAreComparable`, `AcknowledgementsClosed` |
| `OrchestrationRecord` | the same | finding 3 |
| `EvidenceLoop` | 2 evidence IDs, 2 measurements, 1 record, 6 kinds of values, 4 spellings of a case ID; an empty case and a reviewed one; 3 edits or commands (709,498 states) | `ReadersConcur`, `ScreenedIsReviewed`, `LearningBacked`, `CommandsPromoteNothing` |
| `TreeAudits` | 7 paths in 3 directories, 2 changes of files; 2 protected items, 4 steps with Git, any number of commands | `ProjectsWhatWasValidated`, `PassMissesNothing`, `VerdictIsRight`, `FrozenIsReviewed` |

Why these bounds: a violation of the writer's properties needs a writer that rolls
back, one that publishes, and (for adoption and agreement) one that finds; a
directory must be able to go away and come back, which takes two swaps and, for
`os.mkdir` to find an object nobody has seen, three objects.  Two results tell
"same bytes" from "different bytes".  In `ProblemWriter` the two calls differ in what they
read and in which provenances fail; with one provenance for the evidence and one
for the measurement it owns, the evidence is read for its hash twice, by its own
validator twice and by that of the measurement once, and one edit of each file can
fall between any two of these reads.  Its declared hashes are that of the evidence as
it is first and that of the measurement after an edit.  The `VIEW` of this run leaves out
what a call held that has ended without being the published one, since no step and no
property looks at it again (`Unsettled` in `MCProblemWriter`).  In the chain two exports give a
stale record and a torn re-export; two proposals an old proposal under a new one.
The two texts are one whose board allows an approval if the sidecars are reviewed, and
one without its inputs.
`ApprovalWarranted` is stated about the case itself, not about its board: nothing
missing, comparison reviewed, no open classification, no candidate that waits for
data or validation.  In `CaseScreening`, two patterns at once show every
order of a route with rules of its own and another; more patterns add only copies.
In the orchestration, two candidates are enough for a ranking and for
acknowledgements of two scopes; sweep lists cover inclusive and exclusive ends,
hit and jumped over, rising and falling, a wrong direction, two axes, the same axis
twice, a count above the plan's maximum, and a range the ambient context rounds.  The call is deterministic, so its
requests are the whole variety; `AmbientLimit = 10` plays the role of 28 digits.
In the evidence loop a measurement and its evidence, with a second one of each to
mistake them for, are what every rule relates; from a reviewed case three edits
reach every wrong combination of two files and a duplicate, and from the empty case
three commands build a draft of each kind.  The properties of states in that run are
also proved for all folders that can exist at all, so its bounds only matter for
the commands.  At most one left-over temporary per folder is modelled.  In the
audits two changes allow a swap and its undoing, which is what a check that
compares only contents or only identities would miss.  Four steps of people with
Git allow edit, commit, edit and checkout around a measurement.
Writers, results, directories, exports and proposals are interchangeable, so they
are symmetric; the liveness run uses no symmetry.  Deadlock is not checked where a
finished system legitimately stops (the two writers, the orchestration, the audits
with their verdict) or reaches a bound on edits (the evidence loop).  The chain and
the screening of a case check it.

## 4. Proofs

| theorem | module | says |
|---|---|---|
| `AgreementHolds`, `PermanenceHolds` | `WriteOnceStoreProofs` | the store's promises |
| `TypeCorrect`, `PublishedIsComplete`, `FailureLeavesNoTarget`, `OwnSuccessIsKept`, `NeverClobbers`, `OnlyOwnerRemoves`, `TemporaryIsRemoved` | `EvaluationWriterProofs` | the safety properties of `EvaluationWriterFault` for all parameters |
| `StaleIsNeverPublished` | `EvaluationWriterProofs` | the temporal property `StaleNeverPublished` of `EvaluationWriterFair`, for all parameters and without fairness |
| `SuccessIsBacked`, `ReadersAlwaysAgree`, `Refinement` | `EvaluationWriterProofs` | under `Calm` (no budget for swaps, read-back errors, removals, power loss), success is backed, all readers get the same result and the store is implemented |
| `TypeCorrect`, `PublishedIsComplete`, `SnapshotIsFresh`, `SuccessIsBacked` | `ProblemWriterProofs` | the safety properties of the run for all parameters |
| `BasisIsRecorded` | `ProblemWriterProofs` | `RecordsItsBasis`, for any provenances, shared sidecars included |
| `Refinement` | `ProblemWriterProofs` | the store is implemented as long as no power loss undoes the link |
| `ReadyMeansClear` | `CaseScreeningProofs` | a board is ready exactly if no input is missing, a comparison is reviewed and no classification is open |
| `SelectionAloneNeverReadies`, `ReadinessIsLostToGaps` | `CaseScreeningProofs` | the action properties of `CaseScreening` for any set of patterns, any number of them in a case |
| `ReadyBoardsHideNoGap`, `DeferredAreAlwaysFramed`, `ActionsAreNeverCut` | `CaseScreeningProofs` | its state properties, for the same |
| `ChainTypeCorrect`, `ProposalsWereCurrent` | `DecisionChainProofs` | the chain's types, and `ProposalWasCurrent`, whatever overlaps, for any texts, records, aliases and commands |
| `ApprovalsAreWarranted` | `DecisionChainProofs` | `ApprovalWarranted` if the case is not edited during exports nor the record during proposals (`Trusted`) |
| `LoadedPackageIsOne`, `RenderedRecordsPass`, `StaleRecordsAreRefused` | `DecisionChainProofs` | `ContextCoherent`, `RenderedRecordPasses` and `StaleRecordRefused` if commands run one at a time and the record is not edited meanwhile (`Quiet`); the case and its sidecars may be |
| `TypeCorrect`, `ReadersAlwaysConcur`, `ScreeningStandsOnReview`, `LearningIsBacked` | `EvidenceLoopProofs` | the state properties of `EvidenceLoop` for any folders, edits and commands |
| `CommandsNeverPromote` | `EvidenceLoopProofs` | its action property: a draft adds no reviewed quantity |
| `BaselineTypeCorrect`, `FrozenBaselineIsReviewed` | `TreeAuditsProofs` | a frozen baseline in a clean checkout is the committed and named content, for any protected files and any history |
| `ProjectionSound`, `AuditSound`, `VerdictSound` | `TreeAuditsProofs` | the adapter projects what was validated, a passing leakage audit missed nothing, a verdict on a sealed folder is right both ways; for any tree, any number of changes by others |
| `RefusalsAreExplained`, `RankingIsComparable`, `ResultsAreOfCore`, `AcknowledgementsAreClosed` | `OrchestrationProofs` | the properties of the run `Orchestration` for any problems and plans, any arithmetic and any limit of the ambient context |

The writer's inductive invariant (`IInv` in `EvaluationWriterProofs`) ties the
program counter to the files: who is past `sync` has durable bytes; a file that is
linked belongs to a writer past `sync`; it is linked in at most the directory its
writer verified; `created` holds from the link until the rollback is confirmed.
The safety properties alone are not inductive: nothing in `PublishedComplete`, for
example, says that a writer about to link has synced.

`StaleNeverPublished` says that something stays false once a condition has held, so
it needs a predicate that, once true of a call, is kept by every step: `Doomed`.  A
call is doomed while it is before the second freshness check with another EPR than
the bound one, and when it has left the checks with nothing created.  That the EPR
stays another one needs `BoundInPast`: plans are bound to versions that exist, and
versions never come back.

For `ProblemWriter` the crux is `SnapshotFresh`.  The last pass over what was recorded
visits one source after the other while edits go on, so no single state witnesses
all comparisons.  The invariant (`SnapInv`) says: a source already visited had, when the pass
began, a version between the recorded one and the one compared, and since versions
only grow, the recorded one itself.  `FileInv` carries this over to the linked file,
`BackedInv` ties success to it.  That the right sources were recorded at all is the work of
`RecordInv`: what a provenance without a finding leaves behind is kept
(`Answered`) by every later turn of the loop, except for the declared hash, which a
later provenance may overwrite by recording the same sidecar once more; hence
`RecordsLast` in the property.

`RecordsItsBasis` rests on `BasisInv`.  While the EPR is compiled, everything that was read of
a recorded source since its hash was taken lies between the recorded version and
the current one (`Known`, and `InHand` for bytes that are held but not yet
recorded).  The first pass finds the current version equal to the recorded one, so
that nothing lies between (`Exact`).  A second record of the same sidecar starts
afresh.  No premise is left.

`CaseScreeningProofs` reduces the status to five conditions (`NothingSecondary`,
`ReadyMeansClear`).  Adding patterns can only add to the diamond context and
changes nothing else, so it can open a classification and never close one.

`DecisionChainProofs` has no premise for what it says of types (`Shaped`: also what a call
holds at each step) and for `ProposalWasCurrent`, which follows from `Watched`: the
numbered files are at every moment in a state the running proposer has seen.

Under `Quiet` at most one call runs (`Alone`) and what it has read of package and
record is what is there (`Calm`, `Progress`), so that its two loads of a
package are equal and the record it validated, which is bound to this very
package, is the one it renders (`AllPass`).  The case may change under it.

Under `Trusted` commands may overlap in any way.  Then a context may well be a mixture,
but the manifest in it is one that an export wrote, and the board of each manifest is
that of its own sources beside some sidecars (`Traceable`), because nothing was
edited between the two reads of the export.  A record that passes is bound to such
a manifest (`Sure`, `Warranted`), and approves only if that board is ready
(`ApprovalNeedsReady`); a board that is ready beside some sidecars is ready beside reviewed
ones (`ReadyBesideReviewed`), and ready means that nothing is open
(`ReadyMeansClear`).  The sidecars themselves may have changed since; that is why
`ApprovalWarranted` speaks of the numbered files beside reviewed sidecars (section 5).

`EvidenceLoopProofs`: nothing orders the edits, so the three state properties must
follow from the shape of a folder alone, and they do: each is a lemma under
`TypeOK`.  `FoundIsOne` and `MeasurementIsOwned` carry the weight: in a case whose
summary does not fail, looking up by ID, by file name and by "last one wins" find
the same file, which is why a reader without validation can agree with the compiler, up
to the five conditions that only one of them has.
`CommandsNeverPromote` holds because a draft lacks status, reviewer and value at
once; since a draft may come to replace another object with the same ID for triage,
its premise is that no file is replaced.

`TreeAuditsProofs`: a verdict is about reads made one after the other, so
`FrozenIsReviewed` is not inductive.  The invariant (`IInv`) adds that, while the
number of people's steps is the one at which the record was loaded, everything read
so far is what the working tree contains, and that "frozen" stands for the two
comparisons it was drawn from.  No assumption is made about how the record came to
be: if it was measured in the middle of edits, one of the comparisons fails.

The other three audits share their lemmas about the tree.  `TreeOK` says that the tree is
well-formed, `Stamped` that no stamp comes from the future; `Change` is what one step
of others can do: everything below the path they touch is in `late`, and every object
that changes, leaves or arrives is stamped.  On these stands one invariant each.
`AdapterInv` says what the second snapshot tells (`SecondTells`): if the path was not
steady since the first, some object on it bears another stamp, and otherwise the
validator read what the second snapshot read.  `SealInv` says that, as long as nobody
touches the folder, what a verification has listed and found so far is what is there
(`VerifiedSoFar`), and ties the manifest to what was sealed (`ManifestKept`).  `ScanInv` is the hard one: the walk keeps a stack of
directories, each listed at another moment, and the invariant (`Covered`) accounts for
every path below a root: it is harmless, or is in `late`, or is still ahead of the
walk.  At its end only the first two are left.

`CaseScreeningProofs` further proves its state properties from two invariants about
a case alone (`Listed`, `Known`: it lists each pattern once, and only critical inputs
are missing).  The
lists of a board are filtered sequences; what a filter keeps, and how many, is proved
by induction on the length (`KeptFacts`).  `NoActionIsCut` is then a count: the
action of triage and at most four more.

`OrchestrationProofs`: a call is deterministic, and its invariant (`IInv`) says so: at
each stage the results are those of the first candidates of the plan, in order
(`Done`), a call that goes on has had its plan accepted, and a call that was refused
was refused for what it says.  Everything else is about functions of the request.
`ResultFits` collects what holds of the result of one candidate, `Fits` of one
scenario.  From there

* `ResultsAreOfCore` needs that the counts of the four dispositions add up
  (`CountsAddUp`), without which the cases of `Status` could overlap;
* `AcknowledgementsAreClosed` needs that an evaluated scenario had no findings;
* `RankingIsComparable` needs that a finite set with a strict total order can be
  sorted at all (`OrderingExists`: the place of an element is the number of those
  before it), and that candidates differ and what is ranked has a number for a
  temperature;
* `RefusalsAreExplained` needs most.  The plan's division and the orchestrator's
  stepping give the same count for every range the context does not round
  (`RangePoints`, over all integers), and so do the products over sweeps.  What the
  comparison puts together always passes its own schema (`ContentIsAccepted`).  The
  two orders of acknowledgements are the same on every set of one scope
  (`OneScopeOneOrder`), so that the record accepts a list sorted by the model
  unless scopes are mixed.

So finding 3 has exactly the two causes named there, for all plans and not only for
those of the instance.

Assumptions on constants, each checked by TLC on its instance: `PlanAssumption` (a
plan is a record of the fields and types that `EvaluationPlan` has after parsing),
`ArithmeticAssumption` (for usable physical input the arithmetic gives a number or
fails), `SealAssumption`, `AdapterAssumption`, `AuditAssumption` (the files the tools
are pointed at are paths of the tree, the manifest is written outside of the sealed
folder, and there is something to seal and to scan), `AmbientAssumption`,
`LinkAssumption` (each provenance has a sidecar and an owner, and a validator reads its
own file), `CaseAssumption` (a text comes to one set of facts beside reviewed sidecars and
one beside others), and the two about values and units (`SidecarsAssumption`,
`KindAssumption`).

Induction over the natural numbers is done on sets of them (`NoneLeftOut`, from the
well-foundedness of `<`), which the provers can instantiate, unlike the library's
induction theorems.

The refinements map every step to a step of the store or to a stutter: linking
maps to `Publish`, the last step of a call to `Accept` or `Refuse`, a completed
compilation or binding to `Submit`.

Only model-checked, not proved: liveness (`CallsEnd`, `EventuallyPublished`), which
is out of the prover's reach.  Every other property of a passing run is stated by a
theorem.
What `Ancestors` computes is no obstacle: the proof cites Git's answers, not how they
are found.

## 5. Findings

1. *Adopted success can be withdrawn* (`EvaluationWriterAdopted`).  Identical
   existing bytes count as success as soon as they are visible.  Their publisher
   may still fail its own read-back and roll its link back; the adopter then holds
   a path to nothing.  `SuccessBacked` is true, and proved, once links cannot be
   withdrawn.
2. *A held package can have approved routes* (`DecisionChainHold`).  The validator
   looks at the board status only for the outcome `approved`.  A final `deferred`
   or `rejected` record may list approved routes; the proposal shows them.
3. *What is orchestrated cannot always be recorded* (`OrchestrationRecord`).  The
   orchestrator reports the acknowledgements of evaluated candidates; the record's
   validator wants those of all.  A candidate whose base input is nonphysical is
   blocked, yet its OAT points are evaluated and use its acknowledgements.  And
   acknowledgements are sorted global first by the model but checked candidate first by the
   record, so that one of each scope is enough for a refusal.  Both happen with the
   code as it is: the call returns a result, building the record raises.
   `RefusalsExplained` says that there is no third reason.

Further limits of the same kind, each found by widening an instance, without a
document that promises otherwise:

* No hash covers the sidecars.  The board of a package depends on them
  (`triage/thermomechanical.py:257`, `:296`), the manifest hashes the numbered files
  (`review_package/manifest.py:22`), and the proposer compares these hashes only
  (`canonical_proposal/builder.py:44`).  When the review of a sidecar is withdrawn after an
  export with a ready board, an approval on the ground of this package is still
  published, with nothing overlapping at all.  Exporting again stops it: the
  record is then bound to another package (`StaleRecordRefused`).  `ApprovalWarranted`
  allows for exactly this.
* The export reads the case once for its board and once for its hashes
  (`review_package/exporter.py:26`): an edit between the two gives a package with the
  hashes of another case than its board describes, and an approval that is not
  warranted by the case (`ApprovalWarranted` fails with `"export"` in `Overlap`).
* An edit of the case after the proposer has compared its hashes
  (`canonical_proposal/builder.py:44`) goes unnoticed: the proposal appears for a case
  that has changed, and its diff may be against another state of the board file
  than the one it gives the hash of.  `ProposalWasCurrent` says what remains true.
* A record edited between the validator's read and the proposer's own
  (`canonical_proposal/builder.py:33` and `:37`) is rendered although never
  validated (`RenderedRecordPasses` fails with `"record"` in `Overlap`).
* A package exported again while it is loaded can yield a context of two packages
  (`ContextCoherent` fails with `"package"` in `Overlap`).
* A provenance that fails before its sidecar is hashed (`compiler.py:582`) leaves a finding
  and no hash: if the sidecar is mended before the EPR is published, or was only
  unreadable for a moment, the EPR still carries the finding.  The same holds for
  what validators consult without recording it, the claim ledger and other
  sidecars: their edits are noticed only if they are selected or linked.
* The validator of a measurement reads the owning evidence (`compiler.py:520`) before it is
  read for its hash (`:522`), so that an edit between the two leaves a verdict on
  the measurement from evidence that is not the recorded one.  `RecordsItsBasis`
  speaks of the reads since the one that was hashed.
* A sidecar that serves two provenances is hashed once for each and only the last hash
  is kept (`compiler.py:524`, `:531`).  An edit between the two goes unnoticed, and two
  provenances that declare different hashes of one sidecar can both be without a
  finding: hence `RecordsLast` in `SnapshotFresh`.
* Between the second freshness check and `os.link` the EPR, or a source, may still
  change.  The window is inherent; `StaleNeverPublished` and `SnapshotFresh` say
  exactly what is guaranteed.
* Two writers that both find `engineering/problems` missing race for `mkdir`, and
  one of them gets a bare `FileExistsError` (`compiler.py:923`); in the model this
  is one of the `IoError`s.
* A range such as 1E-40 to 1 by 1 is accepted with a count of two, because the plan
  subtracts in the ambient 28-digit context (`engineering/evaluation.py:278`); the
  orchestrator generates one point and refuses its own plan (the `count` refusal
  of `RefusalsExplained`).
* `HOLD_FOR_MEASUREMENT` needs the measurement gap to be the only classification
  (`triage/engine.py:109`).  A further gap, an unbounded interface for instance, turns the
  hold into `READY_FOR_ARCHITECTURE_SCREENING`, and so may mentioning a diamond
  pattern; closing that gap brings the hold back.  `SelectionNeverReadies` and
  `ReadyIsLostToGaps` are therefore about `READY_FOR_HUMAN_DECISION` and
  `HOLD_FOR_DATA` only.
* The execution baseline's record names a commit that nothing compares with the
  working tree while it is measured, although it is documented as the commit "whose
  protected bytes were measured" (`docs/BENCHMARK_EXECUTION_BASELINE_GUIDE.md`,
  section 3).  Git-aware verification makes up for it as long as the checkout it runs
  in is clean, which it does not check: that is the premise of `FrozenIsReviewed`.
* An empty quantity label is compared with any other
  (`prediction_reality/comparison.py:20`), although
  `docs/EVIDENCE_AND_REALITY_GUIDE.md:31` speaks of an exact match; hence the
  premise in `LearningBacked`.
* In a case whose summary does not fail, triage and compiler differ on what is reviewed in
  five ways, which `ReadersConcur` names and proves to be all.  Triage alone wants a
  JSON number (validators and compiler take a text that reads as one), a link back from
  the evidence, and an intake that writes the case ID bare: with quotes or a comment,
  which validators take off, no sidecar is of the case for triage.  The compiler alone
  wants a registered unit and a value its own syntax can express, which NaN is not.
* A prediction against an infinite reality ends the summary with an error
  (`prediction_reality/comparison.py:39`).
* A JSON array saved as a sidecar ends triage with an error
  (`triage/thermomechanical.py:121`); the summary reports it as a failure.
* A template command replaces a file that was saved after its existence check, and a
  killed one leaves a temporary that counts as a sidecar until
  somebody deletes it.
* A problem with a thousand unknown values cannot be compiled, because they are
  numbered with three digits (`compiler.py:657`); nor can an evaluation with more
  than 333 candidates (`strict_1d_sensitivity.py:131`).

## 6. What the models leave out

* `EvaluationWriter`: one ID; several system calls that only read count as one
  step; case, engineering and evaluations directories are replaced as one; symlink
  checks, the fallback without directory descriptors and Windows are not modelled;
  errors in `close` are part of `CleanupError`; a link that was rolled back is not
  resurrected by a power loss.  Somebody deleting the file between the rollback's
  inspection and its unlink is excluded only by the `used["removal"] = 0` premises.
* `ProblemWriter`: no edit restores earlier content of a source (with such edits
  the version comparison would be one of contents, and the snapshot property would
  speak of contents).  A finding says only whether it was raised before or after the
  sidecar was recorded, not why, so that two EPRs are equal somewhat more often than
  in the code; every check may fail or pass whatever was read; any file a validator
  may read (other sidecars with an ID it looks for, the intake, the ledger) is in
  `Consults`, read once.
* `DecisionChain`: one case ID and one record file; of the sidecars one Boolean, and an
  export reads it in the same step as the numbered files; the three artifact hashes are
  compared in one step; editing a record is atomic; the temporary files of atomic
  writes are invisible.
* `DecisionBoard`: which phrases make a fact true, rule texts, hold points and claim
  guardrails; the facts of a case vary independently of each other, although one sentence
  can state several.  (The word lists are broad: the substring `tim` of "time" or "estimate"
  counts as interface material, so almost every real text is a diamond context.)
* `Orchestration`: the temperature-margin objective and its preflight, model options,
  normalized sensitivities and their ranking, exact contents of diagnostics, node
  temperatures; the Decimal arithmetic itself.
* `Sidecars`: blanks around identifiers and labels other than `case_id`, which validators
  strip and other readers do not; the bounds of a prediction; rules of pure format, confidentiality of references, the arithmetic of
  a comparison, the contents of templates beyond what readers ask about.
* `EvidenceLoop`: the folders are read in one step by each reader (each command reads
  while nobody edits); the reads that happen during edits are those of
  `ProblemWriter` and `MeasurementAdapter`.
* `FileTree`: two levels of directories; every change gets a stamp of its own, that
  is, the clock of the file system tells changes apart; nobody sets a stamp back.
* `SealedManifest`: `VerdictIsRight` is about a folder that nobody touches during the
  verification, which would not notice; a digest is the content; the names of artifacts come from the
  command line in sorted order; the rest of the manifest's header is left out.
* `ExecutionBaseline`: a protected tree counts as one item with one content; the
  questions to Git are asked in one step; Git itself is external.
* Not modelled within components that are marked "partly": the resolution of
  candidates and the content of an EPR, the schema of problems, unit conversion,
  the parsing of policies, scopes and pattern files, the integrity listing, the
  generation of cases.  They are deterministic functions of one input, without
  state or order, where a unit test says as much as a model.
* Not modelled at all: the case checkers (red flags, pattern references,
  confidentiality), which are independent text scans whose results only reach people.

## 7. Possible continuations

1. Hashes of the sidecars in package and proposal: `CheckCase` would compare them too, and
   `ApprovalWarranted` could then speak of the sidecars as they were hashed.
2. The proofs about `Orchestration` speak of one call; that equal requests give equal
   records, and the content identifiers computed from them, is the next layer.
3. Candidate resolution in the compiler: overrides, their order, and the equality of
   the baseline with its declared content.
