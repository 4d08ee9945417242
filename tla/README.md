# CounterPilot: specifications, model checking and proofs

CounterPilot negotiates a price between a Shopify buyer and a merchant, turns an
accepted price into a draft order, follows the order through payment, refunds
and returns, and tells the merchant the margin of what has *matured*. The
running system is the Node server of
`src/apps/shopify/counterpilot-dev/server/` with its maturity job and its report;
the Python package under `src/src/behavior_lab/` holds the ledgers, the reference
transaction machine, the pilots and experiments, and the research laboratory with
its datasets and benchmarks.

The specifications are about the state these programs keep and the order in which
they write it: append-only files and ledgers, one write queue, processes that do
not use it, an external service that creates draft orders, webhooks in any order,
twice, or after a crash, and long commands that are interrupted and resumed over
what they have left. All TLA+ was written from the code; `PROJECT.json` gives, for
every definition, the lines it stands for.

Paths below are relative to `src/apps/shopify/counterpilot-dev/server/` (the
*app*) or to `src/src/behavior_lab/` (the *package*).

## 1. Inventory

### The app

| Component | State | Operations | Hard because | Correct when |
|---|---|---|---|---|
| Offer log and replay, `counterpilot-server.mjs` `buildOfferSnapshots` | `offers.jsonl`; a snapshot for each transaction, computed on every read | one case for each event type | the state an event carries is assigned, whatever came before it | the snapshot is what the log says: see the components that write |
| Negotiation: `handleOfferPost`, `handleMerchantActionPost`, `handleBuyerAcceptPost`, `OfferStore.transaction`, `shopify-draft-orders.mjs` | `offers.jsonl`, `checkout_refs.jsonl`, the write queue, the draft orders at Shopify | offer, accept/counter/decline, buyer accept (up to four appends around one call to Shopify) | the call may create a draft order and lose the answer; the process may die between any two appends; the catch block covers appends and call alike; retries | the price charged is the price agreed; one checkout at most; a started checkout is not started again; the queue moves |
| Webhooks: orders, refunds, returns, with the three `shopify-*-webhooks.mjs` | five files: offers, order refs, refund refs, return refs, deliveries | three handlers, each of several appends, the delivery id last | Shopify repeats, reorders and delays; fields are missing, malformed or in conflict; a crash leaves a prefix of the appends | nothing is counted twice, nothing answered is missing, the state follows the payments |
| Maturity job, `counterpilot-maturity.mjs` | none of its own; reads three of the files, appends `mature` events | `runMaturityJob` | a second process: it does not enter the write queue, and what it planned can be stale when it appends | one mature event for each input; none over a hold or an open return; stale ones are not current |
| Merchant report, `counterpilot-report.mjs` | none; reads three files | `runReportJob` | a third process, that puts figures of three reads side by side | the figures of one report agree with each other |
| Storefront form (theme extension) | none | posts an offer | - | - |

The components meet in `offers.jsonl`. Negotiation and webhooks share the write
queue of one process, so their handlers are serial; the maturity job and the
report share only the files. Shopify is called by the accept handler and calls the
webhook routes.

### The package: commerce

| Component | State | Operations | Hard because | Correct when |
|---|---|---|---|---|
| Immutable ledger, `ledger.py` | a hash-chained JSONL file and a lock file | `append_guarded`, `append_many_guarded`, `scan`, `verify` | several processes; a lock older than `stale_after` is broken by unlinking a path; `release` unlinks whatever is there; a batch is written line by line | mutual exclusion, an unbroken chain, of a batch at most a prefix |
| Transaction machine, `counterpilot_state/machine.py` | a ledger of transitions | `append_event`, `inspect`, replay sorted by time, pending webhooks | an event accepted late sorts before events already applied; idempotency keys | the stored history always replays; what was accepted stays accepted |
| Funnel and margin reports, `counterpilot_reports.py` | none | sums over the events of a transaction | it counts events, the machine applies them | what it calls mature is mature |
| Shopify adapter, `src/integrations/shopify/adapter.py` | delivery claims, operational records, transitions | local calls, `create_checkout`, `ingest_webhook`, `mature_and_export` | claim, append and update are three writes in three stores; the record is read at the start and written back whole | a claimed delivery is applied once and not lost; the record loses nothing, deleted data stay deleted |
| Consent and research stores, `counterpilot_storage/` | consent ledger, research ledger | grant, revoke, `training_dataset` | grants and revocations in any order, back-dated or ahead; consent is asked store by store after the rows were read | a dataset has the consent of every store in it |
| Money ledger, `money/ledger.py` | decisions, resolutions, corrections | an append each, built from what was read | two bookkeepers at one decision | one chain per decision, forecasts never rewritten |
| Pilot events, `counterpilot.py` | one ledger | import, shadow recommendation, preregistration, assignment, outcome | read, decide, append: only the record id is guarded | the arms of an experiment are kept apart |
| Seller pilot, `offerlab_pilot.py` | a ledger of imports | import, audit, shadow report | the report reads the latest import twice | both halves of a report agree |

### The package: research and data

| Component | State | Operations | Hard because | Correct when |
|---|---|---|---|---|
| Research campaigns, `gym.py`, `registry.py`, `research_api.py` | one ledger: cases, split assignments, freezes, reservations, scores | classify, fit, freeze, evaluate, submit | clients read the splits, then act while recorders append; a caller dies between reservation and score | hidden cases pay once; prospective means after the freeze |
| Randomized experiments, `experiments.py` | a ledger | preregister, assign, record outcome | sequence and index are computed from a read and guarded by a retry loop | an allocation that can be recomputed |
| Formula research, `offerlab_research/` | an event store, budgets | open, propose, evaluate, submit | proposals live in memory; several processes share a campaign | no more results than the budget |
| Campaign 001 collector, `campaign001_collector.py`, `bridge.py` | capture files, a ledger | seal, finalize, invalidate, amend, miss | files are read once and written whole, nothing locks them | file and ledger tell one story |
| Batch runner, `runner.py`, `stress.py` | a run directory with a lock | seed, score, complete | a lock broken after six hours | complete means the whole dataset |
| Source download, `source_inventory.py` | a partial file, a destination | `download_once` by ranges or as a stream | the remote file changes between attempts | a file that is present is a copy |
| Normalization, `real_normalize.py` | buckets, checkpoints, partitions, manifests | the passes, resume, finalize | interrupted runs with other arguments | a manifest lists what a clean run writes |
| Restriction passes, `restriction_forensics.py`, `replication.py`, `full_listing_pass.py` | buckets, databases | evaluate threads and listings | two programs sort, deduplicate and join differently | they decide alike |
| Publication evidence, `final_publication.py`, `table1_forensics.py` | databases, artifacts, promoted work | replication to final report | reuse by size, count or signature | a complete report rests on the official data |
| Benchmark v2, `benchmark_v2*.py` | partitions, splits, a lockbox, a preregistration | build, run, gate | builds over earlier builds, files of several runs | the lockbox is fresh; a signal was earned |
| Models and statistics | none shared | numerical fits | floating point | not a question for TLC |
| Command line, probes | none | argument parsing | - | - |

The hazards of each are listed in `PROJECT.json`, each at the line where it
bites, with the properties that cover it.

## 2. The modules

### Commerce

| Module | What it is |
|---|---|
| `OfferEvents` | The vocabulary of the log, and `Replay`: the body of the loop in `buildOfferSnapshots` for one event. |
| `DealContract` | What one offer promises to the two parties: one answer of the merchant, agreement only to that price, at most one checkout, at that price. No server, no log, no Shopify. |
| `Negotiation` | The offer, merchant and accept handlers, the write queue, the draft-order call, crashes and failed writes. Implements `DealContract` (`Contract`). |
| `ShopifyPayloads` | What the webhook handlers read in the body of a delivery: the transaction from attributes and tags, totals, currencies, the transactions of a refund and its fallbacks, the exposure of a return. |
| `WebhookIngest` | Extends both with the three webhook handlers, append by append. |
| `MaturityJob` | Extends `WebhookIngest` with the job as a second process. |
| `MerchantReport` | Extends `MaturityJob` with the report as a third. |
| `LedgerLock` | `ImmutableLedger`: the lock file and the hash-chained records, written by several processes. |
| `TransactionMachine` | `TransactionStateMachine` for one transaction: the transition table, the sorted replay, `append_event` over it, and what the reports count. |
| `ShopifyAdapter` | Extends `TransactionMachine` with the calls of `ShopifyDevelopmentAdapter`: the operational record and its deletion, the delivery claims, the order at Shopify. |
| `ConsentLedger`, `MoneyLedger`, `Counterpilot`, `SellerPilot` | The component of that name. |

### Research and data

| Module | What it is |
|---|---|
| `ResearchCampaign` | Splits, freezes and one-shot evaluations over one ledger. |
| `ExperimentScheduler` | Preregistration, assignment and outcomes with their retry loops. |
| `OfferLabResearch` | Campaigns of formula research by several processes over one event store. |
| `EpisodeCollector` | Captures, exports, imports and audits of Campaign 001. |
| `BatchRunner` | The run lock, the dataset and the end record of a synthetic batch. |
| `SourceDownload` | The download of a source file that may be replaced. |
| `NormalizeRelease` | Passes, checkpoints, partitions, manifests of the normalizer. |
| `ThreadRestrictions` | The restrictions as two programs compute them, and their definition. |
| `PublicationEvidence` | From replication to the final report. |
| `BenchmarkBuild`, `IntegrationGate` | The build of Benchmark v2; the choice of models, the preregistration and the report of its gate. |

### Instances and proofs

`MCWebhookIngest`, `MCMaturityJob` and `MCMerchantReport` are the small shop TLC uses:
orders, refunds, returns and the bodies of the deliveries about them.
`MCEventLedger` puts `LedgerLock` and `TransactionMachine` in one run, `MCResearch` the
seven programs over ledgers, `MCData` the eight that write files. The components of
these three share no variable and do not interact: `studied` picks one at the start,
the variables of the others stay as they are, so that each is explored alone, and a
run checks the properties of all.

`Negotiation_proofs`, `WebhookIngest_proofs` (which also has `MaturityJob`), `MerchantReport_proofs` and
`ShopifyAdapter_proofs` (which also has `TransactionMachine`) hold the theorems about the modules of these names. Those about smaller modules
share a file, each with a part of its own: `ResearchSide_proofs` (`LedgerLock`, `MoneyLedger`, `SellerPilot`,
`ExperimentScheduler`, `OfferLabResearch`, `ConsentLedger`), `Campaigns_proofs` (`ResearchCampaign`,
`Counterpilot`) and `DataSide_proofs` (`BatchRunner`, `SourceDownload`, `NormalizeRelease`,
`PublicationEvidence`, `IntegrationGate`, `EpisodeCollector`, `BenchmarkBuild`, `ThreadRestrictions`).
`FoldFacts` has what they need to know about induction, sums, sorts and folds over a list.

### How state corresponds

*App.* Each `.jsonl` file is a variable: `log` (offers.jsonl by transaction), `refs` or
`orderRefs`, `refundRefs`, `returnRefs`, `deliveries`. `snap` is the replay of
`log`; every action that appends an event also moves `snap` by `Replay`, which is
what the next read of the file would compute. The write queue is `call` in
`Negotiation` (the accept transaction that holds it, and the step it is at) and
`todo` in `WebhookIngest` (the appends the running handler has still to make).
The running job is `job[j]`, the running report `report`: the step it is at and what
it has read. Nothing else survives a crash, so a crash empties `call`, `todo` or
`job[j]` and leaves the files. The body of a delivery is a constant, `Body`, and
`OrderWebhook`, `RefundWebhook` and `ReturnWebhook` what the code makes of it.

*Ledger.* The lock is a file at a path, and is modelled as such: `lock` is
what is at the path now (who created it, whether the pid is in it, whether it is
older than `stale_after`), and a process that looks at it twice may see two
files. `records` are the complete lines of the ledger, `torn` says that a piece of
a line follows them. A record carries its id, the hash before it, and its own
hash as the process and place that computed it. `robbed` is a history variable:
some process was inside the critical section when its lock was unlinked by
another.

*Machine and adapter.* `history` is what happened, in the order of the times the
events carry, and an event is its place in it; `stored` is the set of events the
ledger holds. Replay sorts by time, so a set is all there is to know of the file.
An append is one step because the ledger's lock is held from reading to writing:
that is `Exclusive` and `ChainKept` of `LedgerLock`. `ops` is the operational record
(whether there is one, the draft order it names, whether it names the order),
`claims` the deliveries claimed, `call[c]` the call a caller is in with the record it
read at its start; `drafts` and `orderDraft` are Shopify's.

*The other programs over ledgers* keep one sequence or set of records each; what a
process has read is carried in its own record (as a length, where nothing is
rewritten), and the guard of an append is evaluated on the ledger as it is then.

*The programs that write files* keep the content of each file by where it came from:
the arguments it was computed with, the version of the source, the run that wrote
it. A program is at a step, writes are steps of their own (a replace by rename is
one step, a file written in place can be found cut), and death loses the step.

### How actions correspond

* A handler that appends once (offer, merchant answer) is one action: reading,
  testing and appending happen in one turn of the queue.
* The accept handler is one action for each `await` that changes something.
  `AcceptBegin` is everything up to the first write, `NextStep` the branch after
  `buyer_accepted`; `AppendStarted`, `DraftCreated` or `DraftCallFails`,
  `AppendCheckoutCreated`, `AppendCheckoutRef` the try block; `AppendCheckoutFailed`
  the catch block. `WriteFails` is an append that throws: inside the try block it
  leads to the catch block, elsewhere out of the handler. `Crash` may come at any
  step, with the request to Shopify already on the wire or not.
* A webhook handler reads all files and decides first: `Receive...` puts its
  appends in `todo`, and `AppendEvent`, `AppendOrderRef`, `AppendRefundRef`,
  `AppendReturnRef`, `AppendWebhookDelivery` make them one at a time. Requests
  that write nothing (an expired token, 202, 400, 403, 409, a recorded delivery)
  change no state and are not actions.
* The job is `ReadEvents`, `ReadRefundRefs`, `ReadReturnRefs` (which also plans)
  and `AppendMature` for each planned event; the report `ReportReadsEvents`,
  `ReportReadsRefundRefs` and `WriteReport`, which reads the last file and computes
  every figure (`ReportModel`).
* A call of the ledger is `Open` (the O_EXCL create), `Stamp` (the pid), `Scan` (read,
  verify, decide), `Write` and `Release`; one that finds the lock taken goes through
  `Stat` (its age), `ReadOwner` (its pid) and `Break` (unlink), each a system call of
  its own, and starts again. `StampFails` and `WriteFails` are the calls that raise,
  `Die` a process killed at any of these steps, `Age` a lock file getting old.
* `MachineAppend` is `append_event` with an event of the history, in any order and
  repeated: `Known` is the test for the idempotency key, `Accepted` the comparison of
  the replays without and with the event.
* The adapter's calls are cut where they write: `CheckoutCall` reads, `DraftCreated` or
  `DraftFails` is the call to Shopify, `PutCheckout` the record, `AppendLocal` the event;
  `Receive` reads the record, `Claim`, `Apply` and `Update` are the three writes of a
  webhook. `Crash` and `DeleteCustomerData` may come between any two. `Happen` is the
  order at Shopify moving on.
* In the research modules a command is a `Begin...` (its reads), a step for each
  further read or computation that others can overtake, and a step for each append,
  whose guard may refuse it. Retry loops go back to their read until the attempts
  are used up.
* In the data modules a command is one step per file it replaces, removes or appends
  to; `RunnerDies`, `BreakOff`, `StopRun`, `Interrupt` or `CommandDies` end it between any two, and the next command finds what is
  there and resumes or starts anew as the code decides.

### What is abstracted

* Hashes are the things hashed. Amounts are small integers; the maturity input is its
  amounts and states, without the margin configuration, which a deployment fixes.
* Texts, redaction, HMAC and header checks are left out; a body that cannot be read is
  one whose field is malformed.
* An append of one record is atomic: a line torn by a crash (after which every read of the app's
  file throws) is listed as a hazard and not modelled. In `LedgerLock` it is. A batch, which
  `append_many_guarded` writes line by line, is cut short in `LedgerLock`, and where a property depends
  on its rows: `DieInImport` in `SellerPilot`, `DieInAssign` in `ResearchCampaign`.
* In `LedgerLock` a pid is not given to another process, files are those of POSIX (an
  open file can be unlinked), and all writers ask for unique record ids, as the
  critical ledgers do. `fsync` and the clock matter only through what `Age`, `WriteFails`
  and `Die` may do.
* A webhook handler reads the files of its transaction in one step. No other writer of
  the server runs meanwhile; the maturity job could append an event between two
  of these reads, which no decision of the handlers tells apart from an append
  just before or after.
* The transaction machine has no currencies, amounts or decision traces; a field
  that fails validation is an append that does not happen. Orders at Shopify move
  along the table: what it refuses by itself (a second partial refund) is listed as a
  hazard. An identifier that neither the record nor the webhook has counts as equal in
  `_validate_webhook_resource_binding`; `CheckoutIds` says whether the provider gives a
  `checkout_gid`, with which that does not happen.
* The webhook modules start where `Negotiation` ends: a transaction is either
  known to have a checkout, or `Forgotten` (the draft order exists and the server
  died before writing so). Both are reachable in `Negotiation`.
* Every research and data module is above the lock: what it needs of the ledger is
  that an append and its guard are one step. An append that raises ends its process; a scheduler that
  catches the failure of an evaluation goes on (`FailDevelopment`).
* What `IntegrationGate` keeps of a reading of many files, under which the directory was normalized anew,
  is any directory there may be: rows of the old and the new files (`Readings`).
* Models, scores, formulas and statistics are inputs: losses and figures are chosen
  from small sets, and the properties are about who sees which cases when, and which
  file was computed from which.

## 3. The runs

Passing runs, from a few seconds to two and a half minutes each:

| Run | Instance | Shows |
|---|---|---|
| `negotiation` | 1 offer, 3 prices, 4 draft orders, 3 faults | The inductive `NegotiationInv`; `AgreedPrice` (a draft order only at a price answered and accepted), `OneCheckout`, `FailsClosed` (a started checkout nobody works on is never restarted), `Contract` (implements `DealContract`), `QueueReleased` (every transaction leaves the queue). |
| `webhooks` | 3 orders (two of the same transaction), 2 refunds, 2 returns, 12 deliveries, 1 crash | `OnceInOrder`, `RefundCountedOnce`, `AcknowledgedIsDone` (what was answered is in the files), `PaymentStateFollowsRefunds`. |
| `maturity` | 1 order paid, 2 refunds, 1 return requested and closed, 1 crash of either process | `MatureOncePerInput`, `NoMatureOverEarlyRefund`, `MatureDescribesLog` (no mixture of the job's three reads), `LaterEventsDemote`. |
| `maturity_live` | 2 orders of one transaction, 2 refunds, 2 crashes | `CatchesUp`: a payment is recorded once the checkout is on record, and an offer that stays clear to mature ends up mature with its current amounts. |
| `report` | as `maturity` with 1 refund, and a report that runs at any time | `ReportReconciles`: each mature event is counted once, as current or as stale; the refunds in the totals are among the references counted; a transaction whose last return event is open is in the margin only if that event came between a job's read and its append. |
| `event_ledger` | 3 processes, single records and a batch, 1 death, stall or failed write; and every legal history of up to 6 events after the offer or the checkout, every sequence of 3 others, delivered in any order | `Exclusive` and `ChainKept`, unless a lock was broken under its owner; `DeadLockRecovered` (a dead process's lock does not stay); `LegalHistoryApplied` (out-of-order events are reconciled); `MachineSound` (no stored event of a legal history is an error, and what the reports total as mature is mature to the machine, with every payment and refund applied). |
| `adapter` | 2 callers, accept and decline, checkout, webhooks, maturing; 6 events; 1 crash, failed call or deletion of the customer's data | `WebhooksApplied` (no webhook is lost once the checkout is on record in time), `RecordKept` (a record written back whole keeps the order; deleted data come back only through a call that overlaps the deletion). |
| `research` | see the bounds | `FreezeSound`, `HiddenPaidOnce` (campaigns); `ProtocolKept`, `ImportedIsOnRecord` (pilot experiments); `SchedulerSound` (randomized experiments); `HistoryLinked` (money); `ConsentKept`; `CampaignSound` (formula research); `ReportOfOneImport` (seller pilot). |
| `data` | see the bounds | `CollectionSound` (captures and ledger tell one story), `CompletedOnWholeDataset` (batches), `PresentIsACopy` (downloads), `ManifestOfCleanRun` (normalization), `RestrictionsAgree`, `CompleteEvidence` (publication), `BenchmarkSound`, `GateSound`. |

Runs that TLC must find violated; each states a sentence of the documents, and
the counterexample is what the code does:

| Run | Property | What happens |
|---|---|---|
| `refund_lost` | `RefundEventuallyRecorded` | A crash between the processed reference and the event: the redelivery is answered as a duplicate. |
| `stale_mature_current` | `StaleMatureExcluded` | A refund recorded between the job's read and its append is missing from a current margin, and a return opened there does not keep the transaction out of it. |
| `pilot_blocks_freeze` | `RefusedForARow` | A pilot episode in the ledger is never assigned by `ensure_split_manifest`, and `freeze_candidate` refuses as long as a case is unassigned: no campaign can freeze any more, although the protocol keeps pilot episodes in the ledger and out of the rows. |

`StaleMatureExcluded` and `CatchesUp` belong together. The code does not keep a stale
margin out of the report: the mature event carries the exposure of the job's read, and replay puts it over
whatever was recorded since (`counterpilot-server.mjs:799`). A refund recorded meanwhile is corrected by a later run,
a return by its closing (`ReportReconciles` says how far an open return can get), except when the corrected
input equals an earlier one, which needs a return reopened after maturity and closed
again: the offer is then a duplicate on every run and never current again.
`maturity_live` has refunds only, and the amounts refunded grow, so its inputs never
come back.

### Where properties stop

A property that names an exception (`robbed`, an overlap, `drafts = 1`) names a case the
code does not handle, and the exception is no wider than that. What lies behind it,
and disagreements that were met and are not runs of their own:

* *App.* The answer of a created draft order is lost: the catch block clears the
  started marker and the retry creates a second draft order (the app's
  `README.md:114-116` says it fails closed). Two open returns share one exposure: closing one lets
  the job go ahead, and so does a return opened after the job's read (`docs/COUNTERPILOT_ACCEPTANCE_TEST.md:16`
  blocks maturity until it is closed, the app's `README.md:178-180` takes it out of the margin). The orders of a
  `Forgotten` transaction, an orders/create that comes after a refund or maturity, and a
  negative adjustment are refused on every delivery, for ever; this is why `CatchesUp`
  speaks of transactions whose checkout is on record. After a crash between
  `checkout_created` and the checkout reference the URL is never returned. A refund that
  overtakes its order keeps a reference that the report counts as unmatched and nothing
  binds. An order's total in the shop's currency is labelled `presentment_currency`
  (`shopify-order-webhooks.mjs:114-127`), unlike the refund's. A return without a status is
  compared as null, and its close counts as a duplicate.
* *Ledger.* Two processes find a dead owner's lock stale; the first breaks it and takes the
  lock, the second breaks the fresh one; both append after the same record, although
  `ledger.py:118-119` says the lock prevents it. `robbed` records it.
* *Adapter.* A second `create_checkout` creates a second draft order (`adapter.py:323`,
  against `docs/SHOPIFY_DEV_STORE_RUNBOOK.md:73-74`). A checkout retried after the order has a
  later time than the order, which then waits for ever (`CheckoutInTime`). A webhook under
  way while the customer's data are deleted writes them back; `retention_expires_at` is
  always None, and nothing calls `retention_due`. A refund dated before the maturing makes
  the exported margin stale. Consent granted for an export carries the time of the call.
* *Pilots and experiments.* Overlapping commands can exceed the planned units by fewer than
  there are callers, and show a recommendation to the control arm.
  `run_offline_experiment` checks before it appends and nothing guards the append.
* *Seller pilot.* `append_many_guarded` says "Atomically append several records" and writes them line by line. An import
  that dies meanwhile is on record with some of its rows, and its repetition is skipped for ever, since only
  its record is looked for (`offerlab_pilot.py:319`). `cutShort` records it.
* *Research campaigns.* A split cut short while it is written leaves the campaign started and the remaining
  cases to staging: no later call puts them into training.
* *Money.* `append_resolution` copies the entry it supersedes with its correction reason, so a
  second resolution of a corrected decision passes for a correction
  (`docs/finance/MONEY_LEDGER.md:76-81`).
* *Formula research.* Two processes that register one id with different formulas make every later
  opening of the campaign raise.
* *Collector.* A finalization that died after its import leaves an episode; a follow-up then
  missed makes the same capture an audited exclusion, which is not to be an episode
  (`COLLECTION_PROTOCOL.md:85`).
* *Batches.* A run whose dataset was cut short in writing can never be completed.
* *Normalization.* Two runs at once share `_tmp`; a crash between `manifest.json` and its
  `.sha256` leaves the two disagreeing until the next run.
* *Publication.* `final_publication.py:137` says of the database's hash that "row count and upstream source
  hashes still bind the table". A build that died after its table and before its manifest leaves
  the table beside an older manifest, and a third normalization can find the two to fit (`eligible.torn`).
* *Restriction passes.* The normalizer's buckets lack the rows it refused (unknown codes, missing ids), which
  forensics judges: a listing with such a row can be in the sample and not be cleared, or the other way round.
* *Benchmark.* The runner reads the manifest, the audit and the tasks one after the other and compares none with another
  (`benchmark_v2_runner.py:309-314`): normalized anew in between, a signal can stand on rows nobody audited under the
  manifest of an audited release. A baseline without error asks nothing of the model. The runner splits
  all rows anew, those of the lockbox among them, and reports the fresh lockbox as not passed
  (`benchmark_v2_runner.py:654`), so that a gate with the shipped protocol always stops.

### Bounds, and why they are enough

* `negotiation`: `MaxLog`, `MaxDrafts` bound when an accept may *begin*; one that began runs to
  its end. Four draft orders and three faults allow a lost answer, a failed write
  and a crash in one history, and a retry after each. `Negotiation_proofs`
  removes the bounds for the safety properties. One offer, here and in all runs of the app:
  a handler touches one offer, and offers meet only in the queue, which one transaction
  holds at a time. Prices 1, 2, 3 tell the offer, a counter-offer and a wrong price apart.
* `webhooks`: two refunds of 1 and 2 of an order of 3, partial then full, in either order.
  Two orders carry the same transaction, as when its draft order exists twice. Bodies
  name the transaction in each of the three places, some of them malformed or in conflict,
  or a foreign shop, an unclear currency, no transaction. One crash, and two in
  `maturity_live`: after a crash the system is in a state of the same shape.
* `Jobs` is one process. Nothing in the code keeps two runs of the job apart, and
  with two, `MatureOncePerInput` fails; the documents promise idempotence of
  *repeated* runs.
* `event_ledger`: three processes are one that left a lock and two that race for it. At
  most two records when an append begins: an empty ledger, the first append, and
  one after it. One fault is enough for each way a lock can be left behind; the proofs remove
  these bounds for the safety properties. Six events after the checkout reach the end of
  every path through the table but those that repeat returns; sequences of three arbitrary
  events contain every wrong predecessor and every late event before an applied one.
* `adapter`: six events are the offer, a decision, the checkout, the order and two
  more, or retries in place of some. Two callers are enough for a read, a write of
  another, and a write of what was read.
* `research`: up to six of seven cases, some there and some to come, two campaigns, two models, two
  clients, budgets of one query; two callers of the pilot with three offers, four import files, one
  experiment and two recommendation configurations; two workers of one design and of ad hoc
  comparisons with two attempts instead of five (a call gives up when each was overtaken; two are enough to tell the
  first failure from the last); two bookkeepers, one decision, three entries (a correction of
  a resolution); two stores of two merchants, three consent entries now or ahead; two agents with two proposals in one campaign, and with two campaigns whose hidden
  cases overlap; two good folders that share an order and one that is refused, two importers, three days, one import cut short. One scenario of the campaigns has a batch of assignments cut short.
* `data`: two commanders on one capture and one missed slot, with one command cut; three
  runners (one that died, two that find its lock) on two episodes; two downloaders and two
  versions of 3 and 2 blocks, fetched two at a time, one stop; two arguments, two partitions,
  two runs, one of them interrupted; threads of up to three rows, of which ties, repetitions and orders are
  told apart, a limit of one offer; releases of three and five cases with two builds, the
  second smaller or larger; the official listings and another file of its rows but not its
  size, two replacements, one killed command; a gate directory that signals and those that differ from it in one
  thing, two gates, one swap of directories, between any two readings or under one of them.

### Fairness

* `WF(CallStep)` in `Negotiation`: the event loop continues a transaction that has begun, and
  the HTTP client of the runtime ends every request, with an answer or an error.
* `WF(HandlerStep)`, and `WF` of each delivery: Shopify repeats a webhook that was
  not answered with success. It gives up after some days; the crashes are bounded,
  so finitely many repetitions are enough.
* `WF(JobStep)`, `WF(WindowCloses)`: the job is run on a schedule, time passes.
* `WF(CallStep(p))` and `WF(Age)` in `LedgerLock`: living processes run and call the ledger
  again, time passes. Nothing is assumed of the dead.
* `WF(MachineStep)`: who has an event to report repeats it while it is refused.
* `WF(CallStep(c))` in `ShopifyAdapter`: a call that began goes on. `SF` of receiving each
  webhook: Shopify repeats it, and finds a free caller again and again, if not all the
  time. Nobody is bound to call the adapter otherwise.
* No fairness for buyers and merchants, who may leave, nor for crashes, nor for anybody who
  may start a command of the package. The safety properties assume none.

`CHECK_DEADLOCK FALSE` everywhere, since every instance may really stop: a
declined offer, a started checkout after a crash, all deliveries made, every process
of the ledger dead, every command of a bounded instance run.

## 4. What is proved

Eight modules hold theorems that TLAPS checks. None of them bounds anything: the numbers of
offers, processes, prices, arguments, parts, blocks, cases and faults are constants of any value
the named assumptions allow (`*Assumption` of the module proved about). For each component one
theorem states the inductive invariant, and the others what follows from it.

| Module | Theorems | Say |
|---|---|---|
| `Negotiation_proofs` | `NegotiationTypeOK`, `NegotiationInvariant`, `NegotiationAgreedPrice`, `NegotiationOneCheckout`, `NegotiationFailsClosed` | `[]TypeOK`, `[]NegotiationInv`, `[]AgreedPrice`, `[]OneCheckout`, `FailsClosed` |
| | `NegotiationImplementsDeal` | `Spec => Contract`: `Negotiation` implements `DealContract` |
| `WebhookIngest_proofs` | `IngestInvariant`, `EventsOnceInOrder`, `AcknowledgedWorkIsDone`, `StateFollowsRefunds` | `[]IngestInv`, `[]OnceInOrder`, `[]AcknowledgedIsDone`, `[]PaymentStateFollowsRefunds` |
| | `RefundsCountedOnce` | `[]RefundCountedOnce`, if the bodies about a refund state the amount that Shopify paid back (`BodiesTruthful`) |
| | `JobInvariant`, `FilesBesideJobs` | the same with maturity jobs beside the handlers: `JobSpec => []JobInv`, and `OnceInOrder`, `AcknowledgedIsDone` |
| | `NeverMatureOverEarlyRefund`, `MatureDescribesOnePoint`, `LaterEventsTakeMatureBack` | `[]NoMatureOverEarlyRefund`, `[]MatureDescribesLog`, `LaterEventsDemote` |
| | `MatureOnce` | `[]MatureOncePerInput`, if one job runs at a time |
| `MerchantReport_proofs` | `ReportInvariant`, `ReportsReconcile` | `[]AllInv`, `[]ReportReconciles`, if one job runs at a time and bodies state the amounts |
| `FoldFacts` | `SumOfOneMore`, `SumAgrees` | `SumFunctionOnSet` with one element more; it depends on the values summed only |
| `ShopifyAdapter_proofs` | `MachineInvariant`, `StoredStaysUsable` | `[]MachineInv`, `[]MachineSound`, for any set of histories |
| | `AdapterInvariant`, `RecordStaysKept` | `[]AdapterInv`, `RecordKept` |
| `ResearchSide_proofs` | `LedgerTypeOK`, `LedgerInvariant`, `LedgerExclusive`, `LedgerChainKept` | `[]TypeOK`, `[]LedgerInv`, `[]Exclusive`, `[]ChainKept` |
| | `MoneyInvariant`, `MoneyHistoryLinked` | `[]MoneyInv`, `[]HistoryLinked` |
| | `SellerInvariant`, `SellerReportOfOneImport` | `[]SellerInv`, `[]ReportOfOneImport` |
| | `SchedulerInvariant`, `SchedulerIsSound` | `[]SchedulerInv`, `[]SchedulerSound` |
| | `ResearchInvariant`, `ResearchCampaignSound` | `[]ResearchInv`, `[]CampaignSound` |
| | `ConsentInvariant`, `ConsentIsKept` | `[]ConsentInv`, `[]ConsentKept` |
| `Campaigns_proofs` | `CampaignInvariant`, `CampaignFreezeSound`, `CampaignHiddenPaidOnce` | `[]CampaignInv`, `[]FreezeSound`, `[]HiddenPaidOnce` |
| | `PilotInvariant`, `PilotProtocolKept`, `PilotImportedIsOnRecord` | `[]PilotInv`, `[]ProtocolKept`, `[]ImportedIsOnRecord` |
| `DataSide_proofs` | `BatchInvariant`, `BatchCompletedOnWholeDataset` | `[]BatchInv`, `[]CompletedOnWholeDataset` |
| | `DownloadInvariant`, `DownloadPresentIsACopy` | `[]DownloadInv`, `[]PresentIsACopy` |
| | `NormalizeInvariant`, `NormalizeManifestOfCleanRun` | `[]NormalizeInv`, `[]ManifestOfCleanRun` |
| | `EvidenceComplete` | `[]CompleteEvidence` |
| | `GateInvariant`, `GateReportsAreSound` | `[]GateInv`, `[]GateSound` |
| | `CollectorInvariant`, `CollectorIsSound` | `[]CollectorInv`, `[]CollectionSound` |
| | `BenchmarkInvariant`, `BenchmarkIsSound` | `[]BenchmarkInv`, `[]BenchmarkSound` |
| | `RestrictionsInvariant`, `RestrictionsDoAgree` | `[]RestrictionInv`, `[]RestrictionsAgree` |

*Negotiation.* `AgreedPrice` is not inductive: that a draft order is at the agreed price depends
on what the transaction in the queue read some appends ago. The inductive
invariant `NegotiationInv` adds three parts for each offer: `StateInv` (what each
lifecycle state says of the log and of the price on the table), `CheckoutInv`
(draft orders and stored URLs against the state: nothing before the buyer agreed,
a stored URL is the end), and `CallInv` (what the transaction has established at
each step). The proofs first state what each event does to a snapshot (`Replay`,
one lemma for each event), that a longer log keeps what was agreed, and that an
action of one offer leaves the parts of the others alone; then one lemma for each
action; the theorems put them together. The refinement maps an offer to the phase
it is in (`Phase`), the price on the table and the prices of the stored checkouts:
each step of `Negotiation` is a step of `DealContract` or changes none of the three.

*Webhooks.* A handler reads the files once and then appends, one file at a time, while other handlers
do the same and any of them may crash between two appends. What the log says is therefore no matter of
the files alone: `IngestInv` is `FilesInv`, what the files say of each other (an event is beside its
reference line, a refund is recorded once for each processed reference, the snapshot's total is the sum of
the recorded amounts), and `TodoInv`, which says of each append that is still to be made
that it will fit when it is made: an event is not in the log yet, nor earlier in `todo`, and what it needs is in
the files or earlier in `todo` (`EventOK`, `LineOK`, `DeliveryOK`). There is one lemma for each handler
(its appends fit), for each append (the files stay consistent and the rest
of `todo` still fits) and for the crash. `RefundsCountedOnce` adds `AmountsInv`, and needs its hypothesis: the code
takes the amount from the body, and a body that contradicts the refund is recorded as it is.
`StateFollowsRefunds` adds `PaymentInv`.

*Jobs.* What a job read may be old when it appends. `JobInv` keeps of it what does not age: who was
paid when it read is paid (`PaidWhenRead`), whom it planned was eligible by what
it read (`PlannedEligible`). For `NeverMatureOverEarlyRefund` the lemmas add that a refund held back before the
payment was held back when the job read (`EarlyInv`); for `MatureDescribesOnePoint` that a snapshot is the
replay of the log and what a job read the replay of a prefix of it (`ReplayInv`); `MatureOnce`
that a job knows the inputs of all mature events in the log (`InputsKnown`), which is so of one job at a time
only.

*Report.* The report compares sums over offers with a sum over refunds, of files it reads at different times. `LogsInv`
adds to the invariants above that a refund in the log, or about to be, is of the offer's own order, so that no
refund is in two sums (`OwnLogged`, `TodoTrue`), that what a job has read was refunded is not more than
what is refunded (`JobsEarlier`), and of each snapshot that a mature one has the figures of one mature event
and its exposure, which is not open (`SnapsOK`). What that says of the return events in the log is shown event by event (`OpenReturnStays`): after the
event that opens it the replay stays open up to a mature event, and that one was made from an earlier read.
`ReportInv` says that all this is so of what the report has read of the log, and
that each refund in it has a processed line in the references, first as they are and then as they were read
(`ReadReferenced`): lines are only added, and the handler writes them first. The rest is about sums: of two functions, over disjoint sets, over fewer
elements (`SumOfSums`, `SumOverParts`, `SumMonotone` of `FoldFacts`).

*Sums and replays.* `PriorRefundTotal` and the replay of a history are folds, and what a fold returns is an
induction over data. The library states induction with an operator as parameter, which cannot be used;
`NatSetInduction` says the same of a set of numbers and follows from the least element of its
complement. With it `FoldFacts` shows that the recursive function the folds of the community modules are
defined by exists on the subsets of a finite set, and that a sum does not depend on the order it is
taken in; `StateOfOneMore` in `WebhookIngest_proofs` that a replay of one event more is `Replay` of the replay.

*Machine.* `Replay` is a recursive function on the places of a history. `ReplayIs` shows by induction on the place that there is one, and
says what it returns by the states it goes through (`StateRun`): which events it applies and which it refuses.
`MachineInv` is that every stored event that is no webhook is applied (`LocalApplied`): an append that would undo
one is refused. Of a legal history a run is always in a state the history has been in (`RunOnPath`), and what a
webhook reports is ahead of every earlier state (`PathAhead`); that `Reach`, which stops at paths of 32
transitions, contains everything ahead is computed state by state (`ReachesAhead`), so no webhook is an error. For the
totals: a history is paid once (`PaidOnce`), a run past the payment has applied it (`RunPaid`), and a refund
comes right after it, or after a partial one. None of this uses the order in which events of this side are delivered.

*Adapter.* A record is written back whole as it was read, so what can be lost depends on which calls read what.
`AdapterInv` says that a draft order about to be put on record is in no other call, not on record and not the
order's (`DraftsOwned`), that nobody knows of an order before there is one (`OrderPlaced`), and that whoever handles a webhook
has read a record (`Handling`); `MachineInv` is in it, kept when something happens and when it is
stored. With one draft order a second checkout therefore cannot be put over a known order (`OrderStays`). That deleted data
stay deleted (`ForgottenStays`) needs the machine: a transaction with a checkout in its ledger never returns to a
state in which a checkout may be created (`CheckoutSettles`), in whatever order webhooks arrived.

*Ledger.* `Exclusive` is not inductive: that `Open` lets nobody in beside another needs that
whoever is inside still owns the file at the path. `LedgerInv` says so (`LockInv`),
and that what a process is about to write follows the record that is last now
and repeats no id (`WriteInv`); both under `~robbed`, which only `Break` can end. The
batches are sequences of any length: the lemmas are about `\o` and `SubSeq`, from
`SequenceTheorems`.

*Batches.* The lock of `runner.py` is not the ledger's, and the dataset is counted before the run
is scored. `BatchInv` says that a process scores a whole dataset only and an end is over one (`WholeScored`, `WholeCompleted`), and, as long as no lock was broken, that one
process at most is between its lock and its release, that nobody works on a
run that is complete (`NoneWorking`), and that the end is recorded once.

*Money.* An entry names the last one of its decision, a greatest position. That a
non-empty finite set of positions has one is an induction; `MoneyInv` carries the fact instead
(`LastExists`), and each append keeps it, the new position being the greatest.

*Normalization.* What a manifest lists was written by other runs, with other arguments, of
which only checkpoints tell. `NormalizeInv` says that a checkpoint is true of the files it speaks
of (`ChecksClean`), that buckets are of the arguments of the run that works on them
(`BucketsAreOwn`), that what a run has listed, its partitions and its last files are what a
clean run writes (`ListedClean`, `PartitionClean`, `ClosingClean`), and so are the manifests.

*Download.* `DownloadInv`: as long as no two downloads overlapped there is one process at the partial
file, which is filled in order up to where that process is; as long as nothing changed or
was cut short either, it is of one version. The steps of a download have one lemma for each,
on top of two about a process that moves and a file that grows.

*Seller pilot.* `SellerInv`: an import is on record with a prefix of its rows, with all of them unless it was cut
short, and no row is there without its import (`ImportsOnRecord`); a repetition adds no rows. An audit is of an import on
record and counts orders on record that have a margin by now (`AuditsSound`). Orders only gain margins as days pass (`MarginsGrow`), which is why an audit
read yesterday agrees with a report written today.

*Scheduler.* `AllocationReproducible` is almost inductive: the sequence and the index of a record were
free when it was appended, since the guard is the record id they make. `WorkersFine` adds for
`SchedulerSound` that a call has been overtaken once for each attempt it has used (`InCall`), by
counting: what was appended since its first read is at least the attempts.

*Formula research.* A budget is counted from events that are on record before the work is done, so `PaidFirst`
counts with the results the calls under way (`Busy`), by cardinalities of sets that gain one
element. `KnownToOne` says of a campaign that was never shared that its one process knows all
proposals, hence no formula has two contents.

*Consent.* `is_active` sorts the records of a store and takes the last, the prohibitive one if several share a
time. The lemma `ActiveIsHeld` says the same without an order: some record grants, and every one that prohibits is
earlier (`Held`); the last of a finite set exists by induction (`OneIsLast`). An export asks store by
store while consents are recorded and begin. `ConsentInv` keeps of each export that the stores of its rows are those in its lineage and
those it has still to ask (`ExportOK`), that the store just passed was held in the records of some
moment since the export began (`Asked`), and that an inactive state in the lineage has a later record to
answer for it (`Excused`).

*Research campaigns.* Clients read the splits and act later. `CampaignInv` says of the ledger what the
records say of each other (`LedgerOK`) and of each call what it carries by the place it is at (`CallOK`): the
freeze it read is the freeze there is, or there was none and all rows it read have been assigned since (`ReadsAgree`); its cut
covers the selection (`CutKept`); its reservation is there and is its own (`Reserved`, `PaidOnce`). Every step makes the ledger
grow in one sense (`Grows`), and what holds of a call holds in a ledger that grew; a batch of assignments
cut short makes it grow by less.

*Pilot experiments.* A caller counts, then appends. `WithinPlanWithPending` counts with the assignments those that
passed the count and are not in the ledger yet (`PendingOf`): never more than the plan and one for
each other caller. `ClashesOnlyLater` says of a record about to be appended that what clashes with
it came after its command's read.

*Publication.* `EvidenceInv`: a manifest of eligibility is of the table beside it unless a build was cut
short between them, and while a build goes on the table is of the database there is (`TableOfManifest`, `TableOfDatabase`).

*Gate.* The choice of the best baseline and model is a minimum over a finite set (`BestFacts`); a
report is ready only if every gain was earned on the boards (`ReadyMeansEarned`). `GateInv` carries
what the run under way has read (`ReadSoFar`: its parts are of one directory as long as nothing was normalized under it)
and written, so that the four files of a report are of one run.

*Collector.* `Underway` types a command by its place in the order of its steps: a
finalization past its export has an export, past its import an episode. As long as no two
commands ran on one capture (`lapped`), each is the only one (`OneAtATime`) and what it read is still
so (`AloneUndisturbed`). `Agreement` is `CollectionSound` for a moment in between: file and ledger
agree but for what the command under way is about to do (`Expected`).

*Sorts.* A sort is modelled by what it returns: the n-th element is the one with n - 1 before it in the order of
the key (`InTime`, `InOrder`). `RankIsOnto` shows by cardinalities that in a strict order of a finite set
each place is taken by one element; `RankedFacts` that the sequence therefore lists the set, and is
sorted. `FlattenedIs` and `SetToSeqFacts` say of concatenated partitions and of a list of a set what elements they have.

*Benchmark.* A build writes its files over those of earlier builds, and may die between two. `BenchmarkInv` says that
the files before the one a build is at are of its own release, cut and limits (`PartsOK`, `SplitsOK`, `BoxesOK`), whatever lies in the others,
and that a manifest has the splits and lockboxes of one release (`ManifestOK`). That a hidden case comes after
every case to train on, and shares no listing with it, follows from the ranks and the purge.

*Restriction passes.* Two programs upsert the flags of a thread into a row for its listing, bucket by bucket, in the order their
rows come. `RestrictionInv` says that the table of a program has the flags of the threads in the buckets it is through with (`TablesSoFar`),
since the hash puts a thread into one bucket only (`BucketFolded`), and that upserts in any order give the
union (`MergedAll`). In one thread, without ties, the next row of the sorted list is the next in time (`NextRowIs`), so that
its flags are a matter of the set of its rows (`ThreadFlags`); of a listing none of whose rows was refused both programs
read the same rows (`SameOfListing`); with ties both programs flag T5, and the listing is in
neither sample, whatever T3 and T4 are.

What is assumed of constants is what the code has: identifiers of one kind are not those of
another (`AdHoc` and `Designs`, `Captures` and `Missed`), processes, baselines, and the offers and refunds of a shop are finite, histories are sequences, the ids of
cases are unique (they are a primary key), times are numbers, a start price is missing or no less than zero, an import file has no "assignment" events (`EVENT_TYPES` does not list it), a
target has a baseline.

Only model-checked: liveness (`QueueReleased`, `CatchesUp`, `DeadLockRecovered`,
`LegalHistoryApplied`, `WebhooksApplied`), which TLAPS does not prove under fairness. Every other property of a
passing run is a theorem; its instances above found what the invariants lacked before they were proved, and show that the cases the
properties are about happen.

## 5. Not modelled, and what could come next

Coverage follows the state: what is modelled in the app is every route, job and
report that writes or reads the files; in the package every program that writes a ledger, a
lock, a checkpoint or a directory that another run reads. Left out:

* The storefront form and the command lines: they keep no state.
* Models, scores, calibration, formulas and statistics: floating-point fits over data in
  memory. They enter as inputs; what is modelled is which cases they see, and what is
  concluded from their figures.
* The published statistics of the restricted sample, the profiles of downloaded columns, the
  utility reports, dashboards and simulations, which only read.
* Of the adapter, tokens, the app's own webhooks, the offer inbox and the submission; of the
  stores, encryption, the mapping of identifiers and redaction; of the machine, the validation of
  fields.
* Lines of the app's files torn by a crash: every later read throws, and no code recovers.

Next: a composition of `Negotiation` and `WebhookIngest` for
one transaction in place of the two initial states of the latter.

## 6. Running

    tlc -config Negotiation.cfg Negotiation.tla
    tlc -config WebhookIngest.cfg MCWebhookIngest.tla
    tlc -config WebhookIngest_RefundEventuallyRecorded.cfg MCWebhookIngest.tla
    tlc -config MaturityJob.cfg MCMaturityJob.tla
    tlc -config MaturityJobLive.cfg MCMaturityJob.tla
    tlc -config MaturityJob_StaleMatureExcluded.cfg MCMaturityJob.tla
    tlc -config MerchantReport.cfg MCMerchantReport.tla
    tlc -config EventLedger.cfg MCEventLedger.tla
    tlc -config ShopifyAdapter.cfg ShopifyAdapter.tla
    tlc -config MCResearch.cfg MCResearch.tla
    tlc -config MCResearch_RefusedForARow.cfg MCResearch.tla
    tlc -config MCData.cfg MCData.tla
    tlapm Negotiation_proofs.tla       (and WebhookIngest_, MerchantReport_, ShopifyAdapter_,
                                        ResearchSide_, Campaigns_, DataSide_proofs.tla,
                                        FoldFacts.tla)

`PROJECT.json` lists every run with its module, configuration and expected result,
the mutants that show each property can fail, and the map to the code.
