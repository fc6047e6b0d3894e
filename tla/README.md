# A TLA+ verification of BAZAAR

BAZAAR (`backend/bazaar`) lets software agents buy on behalf of a human: the human's limits are a
signed *mandate*, a deterministic *gate* decides each purchase, an *authorization service* records
the decision in SQLite with a signed receipt and a hash-chained audit entry, and *settlement* turns
an allowed purchase into a Razorpay order that webhooks or a reconciliation later mark as settled.

This directory models that core in TLA+, checks it with TLC on small instances and proves what
matters most with TLAPS for every value of the constants. Line numbers refer to files under
`backend/bazaar/` unless another path is given.

Contents: 1 inventory, 2 modules, 3 model and code, 4 runs, 5 fairness, 6 proofs, 7 divergences
between documentation and code, 8 abstractions, 9 what is not modelled, 10 plan.

## 1. Inventory

| Component | State it keeps | Operations | Hard parts | What makes it correct |
|---|---|---|---|---|
| Gate `verifier/gate.py`, `reasons.py`, `models.py` | none | `authorize` (11 checks in a fixed order), `apply_risk`, `sign_mandate`, `verify_signature` | the first failing check names the reason; boundaries of the cap | an ALLOW is within the signed mandate; risk only tightens; each attack gets its own code |
| Authorization service `verifier/service.py` | locals of a call between reads and writes | `authorize` | reads before the gate, constraints after it, three separate commits, rollback on a clash | no purchase twice, nonce and row together, evidence agrees with the ledger |
| Database `db/*` | tables agents, mandates, nonces, transactions, receipts, audit_logs, merchant_catalog, attack_runs | inserts, updates and reads of `repository.py`; `connect`, `init_db` | primary keys and the partial unique index decide races; an exception may leave a transaction open | the constraints hold for what is recorded; nothing is lost |
| Audit log `ledger/audit_log.py` | table audit_logs | `append_event`, `verify_chain` | the tip is read before the insert | an intact log verifies; a modified one is reported where it was modified |
| Trust receipts `receipt/trust_receipt.py` | table receipts | `build_receipt`, `verify` | none of its own | every call leaves one |
| Settlement `razorpay/settlement.py` | columns status, razorpay_order_id, razorpay_payment_id | `settle`, `reconcile` | lost answers, retries, two commits | one charge per transaction; settled means captured |
| Webhooks `razorpay/webhooks.py` | the same columns | `verify_webhook_signature`, `handle_event` | duplicates, reordering, late failures, missing amounts | a settled row stays as it is |
| Razorpay client `razorpay/client.py` | lazily created SDK | `create_order`, `order_payments` | network | as Razorpay's |
| HTTP API `api/app.py` | `_LOCK`, the lazy `_State` (one connection, mandates, last ids) | intent, purchase, attack, AP2 checkout and demo, settle, webhook, audit | one lock and one connection for all; the first call deletes and makes the database; an async handler takes the lock | every call returns; the database is made once; handlers do not interleave |
| AP2 adapter `adapters/ap2.py`, `agents/ap2_buyer.py` | none | `verify_cart_mandate`, `to_bazaar` | order of checks, shared mandate ids, missing transaction ids | only a verified cart becomes a mandate, a cart is spent once |
| Negotiation and agents `agents/*` | buyer id, issuer key | `negotiate`, `propose_upsell`, `counter`, `build_transaction`, `confirm_and_sign` | clamps, rounding, catalog updates in between | the agreed price is between floor and cap |
| Catalog `catalog/store.py`, `seed.py` | table merchant_catalog | `update_price`, `make_offer` | price below floor | an offer is in the merchant's band |
| Attestation `catalog/attestation.py` | signer key | `attest`, `verify_price_attestation`, `signed_offer` | expiry | the signed price is the merchant's |
| Risk `risk/*` | the loaded artifact and its thresholds | `extract`, `assess`, `_load_model`, `top_reasons` | double-checked loading; a second list of the gate's conditions; sums at a threshold | only advisory; features agree with the gate; plain purchases are not held; no purchase is put to half a model |
| Intent compiler `intent/compiler.py` | none | `compile_intent` | text | a draft is confirmable only if complete |
| Red team `redteam/*` | none | two generators, evaluation, fuzzer | random draws at boundaries | every attack is blocked with its code, no legitimate purchase is |
| Live payment script `scripts/live_razorpay.py` | a database of its own, deleted at each start | authorize, settle, checkout, up to twelve calls of `reconcile` | the user pays late and runs it again | a captured payment is recorded |
| Cryptography, configuration, other scripts, benchmarks, frontend | keys, paths, none | | | |

How they interact: the API (or a script) saves a mandate, builds a request and calls
`AuthorizationService.authorize`, which reads the database, calls the pure gate and the risk model,
and writes transaction, receipt and audit entry. `settle`, `reconcile` and `handle_event` work on
the rows it left. All API handlers share one connection and hold `_LOCK` for their whole body,
network calls included; the webhook handler waits for it on the event loop itself. Callers that do not use the API (tests, scripts, benchmarks) open
connections of their own, and SQLite's write lock and the schema's constraints are then all that
stands between them.

`PROJECT.json` lists the hazards of this code, each at its line with the properties that cover it.

## 2. Modules

| Module | Contents |
|---|---|
| `Gate` | the pure gate, mandates and signatures, `apply_risk`; `WithinMandate`, what an ALLOW must satisfy |
| `GateProofs` | theorems about the gate |
| `RiskModel` | extends `Gate`: the hard features, the rules without a classifier, the reasons shown |
| `RedTeam`, `MCRedTeam` | extends `RiskModel`: the red-team generators and the fuzzer run through gate and risk model |
| `RedTeamProofs` | features and rules against the gate, and what the suite expects, for any scale of money |
| `SpendLedger` | abstract: a set of grants, each within its mandate, with unique ids, nonces and keys, that only grows |
| `AuthorizationService` | extends `Gate`: the service over the database, statement by statement; implements `SpendLedger` |
| `AuthorizationProofs` | its theorems |
| `MCAuthorizationService` | mandates, requests, connections of the runs |
| `PaymentLedger` | abstract: each transaction is bound to at most one order and paid at most once, by a captured payment of the authorized amount |
| `Settlement`, `MCSettlement` | settlement, reconciliation and webhooks against Razorpay and the customer; implements `PaymentLedger` |
| `SettlementProofs` | its invariants and the refinement of `PaymentLedger` |
| `LiveRazorpay`, `MCLiveRazorpay` | extends `Settlement`: the live payment script, its user and their next start |
| `LiveRazorpayProofs` | what the script keeps of the settlement's promises, run after run |
| `ApiServer`, `MCApiServer` | extends `Settlement`: the process of the API, its threads and event loop, lazy state and lazy risk model; implements `Settlement` |
| `ApiServerProofs` | its invariants, that refinement, and what follows from it about its payments |
| `AuditLog`, `AuditLogProofs` | the hash chain, and its theorems |
| `Catalog` | extends `Gate`: the merchant of record, its changes of price and its offers |
| `Negotiation` | extends `Catalog`: one `negotiate()` call, read by read |
| `AP2Adapter` | extends `Gate`: signed carts, their verification, price attestations, the bridge to mandates and requests |
| `Storefront`, `MCStorefront` | extends `Negotiation` and `AP2Adapter`: the API's purchase, attack console and AP2 endpoints on one database, made of `Negotiation`'s steps and its own |
| `StorefrontProofs` | the walls of a negotiation, alone and inside the API; what a call of the storefront is answered, and why |

`AuthorizationService` composes with `Gate` by EXTENDS, with `SpendLedger` by INSTANCE. `Settlement`
begins where the service ends: its action `Authorize` places the rows that
`AuthorizationService` records (decision, status). `AuditLog` refines the one step by which the
other two append an entry: what they take as atomic under the lock is there a read and an insert.
`ApiServer` runs the calls of `Settlement` in threads and adds the purchase in ten steps, of which
`Settlement` sees one, the row. `Storefront` is the view from above: it takes one `authorize()` under the API's lock as one step
(`Authorize`, or `AuthorizeRaises` when a database error ends it before or after its commit) and has
instead what surrounds it, the negotiation, the console and the carts.

A definition with the comment "Mutant:" is no part of the model. It is a plausible mistake in the
definition below it, and putting it in that definition's place breaks the property that
`PROJECT.json` pairs it with.

## 3. Model and code

**Gate.** `Checklist` is the fixed order of `gate.py`; `Outcome` says of each check whether it
holds, `authorize` takes the reason of the first that does not. A signature is the pair of the key
that made it and the body it was made over.

**AuthorizationService.** A session is one call; `pc` is the statement it is about to execute:

| `pc` | action | code |
|---|---|---|
| `waiting` | `Enter` | `with _LOCK` (`api/app.py:240`), a plain call without the API |
| `called` | `save_mandate`, `ReuseMandate` | the caller, `app.py:246`, `app.py:286` |
| `read_frozen`, `read_nonce`, `read_key` | `is_agent_frozen`, `nonce_seen`, `idempotency_seen` | `service.py:69-71` |
| `decide` | `Decide` | `service.py:73-93` |
| `reserve`, `record`, `commit` | `reserve_nonce`, `RecordAllow`, `CommitRow` | `service.py:96-99`, with the handlers of 101-108 |
| `block`, `commit` | `RecordBlocked`, `CommitRow` | `service.py:113-116` |
| `receipt`, `audit` | `save_receipt`, `append_event` | `service.py:120-136` |

SQLite is modelled by the connection that holds the write lock (`writer`) and what it has not
committed (`open_nonces`, `open_rows`), which only that connection sees. An INSERT clashes as the
primary keys and the partial unique index say. A clash on the nonce or the row rolls back and
blocks (`Downgrade`); a clash in `RecordBlocked` is raised outside the handlers and leaves the
transaction open, as does `DatabaseError`. `LockTimeout` is SQLite's "database is locked".
`Crash` is a process embedding the service that dies and opens the same file again with
`connect()`; the API and the scripts delete the file at start, which is `Settlement!Restart`.

**Settlement.** `settle`, `reconcile` and `razorpay_webhook` are calls under `_LOCK` (`call[s]`),
each with its network step (`create_order`, `order_payments`), its UPDATE and its audit entry as
steps. Their early returns change nothing: they are the negations of the guards. Razorpay and the
customer act at any time (`Pay`, `Capture`, `Fail`), on orders whose id the program returned to the
customer (`offered`). `events` is a set that is never emptied: any event may be handled any number
of times, in any order, or never.

**LiveRazorpay.** `act` is where `main()` is. The calls of `settle()` and `reconcile()` are those of
`Settlement`, made by one thread with nobody else on its database and no webhooks. A transaction on
hold goes on to the checkout without an order, as in the code. A run that has settled makes Act 5's two
calls (lines 397-398, `settle_again` and `reconcile_again`) through the same actions as the first
ones; Act 6 only reads. `RunAgain` is the user.

**ApiServer.** A request is `waiting` until a thread takes it and enters `_LOCK`; `job` is what a thread
serves. `purchase()` is the sequence `check_state`, `build_state` (`api/app.py:94-98`), `negotiate`
(242-256), the loader's `check_loaded` to `load_thresholds` (`risk/model.py:52-76`), `assess` and
`record`. The negotiation and `authorize()`, which the other modules have statement by statement, are one
step each here. `loop` is the event the event loop works with: while it is not None nothing is
dispatched, but threads at work go on. `EnterUnlocked` and `PurchaseUnlocked` are mutants: without the
lock the loader's flag, the lazy database and the ledger all break, each in a property of its own.

**RiskModel.** Each hard feature of `features.py:99-159` is a condition; the ratios, counts and logarithms
among the features are left to the classifier, whose probability is any number. The rules' weights are
tenths. `RiskContext` is what `service.py:75-82` passes: velocity and prior blocks keep their
defaults. The gate reads the clock once, `extract` reads it again (`features.py:125`), so in `RedTeam` a case is
assessed at a moment of its own (`Later`).

**RedTeam.** `EvaluateAttack`, `EvaluateLegit` and `run_fuzz` are iterations of the suite's loops over what its
generators draw. `EvaluateService` adds purchases that no generator builds: by an agent that the mandate does not
name, and of an item whose text carries an injection.

**AuditLog.** Entries, the tip a session has read, and edits of the table that do not go through
`append_event`: one field of one row, or an exchange of two rows. A hash is the record of what went
into it. A commit that fails leaves its INSERT in the shared connection's open transaction, where the next
append sees it, or nothing: `DatabaseError` allows both.

**Negotiation.** `deal` holds the locals of the call. The catalog is read by the upsell, by
`store.get` and by `make_offer` (`agents/negotiation.py:48`, `49`, `74`); each read is a step, and
the merchant's `Reprice` may fall between them, since the API's lock does not hold a merchant with a
connection of its own. All arithmetic of the call depends on one read and belongs to that step.

**AP2 rail.** A token is the record of its header, its claims and the key that signed it.
`CartChecklist` is the order in which `verify_cart_mandate` raises; a token that is no JWT
(`ap2.py:88-92`) stands with those of an unknown provider, a cart without amounts is `malformed`. `to_bazaar` is
`draft_of_cart` and `to_bazaar`; ids are triples whose first two components are the eight
characters that a mandate id keeps.

**Storefront.** `call` is the handler under way, or `NoCall`, and `todo` the requests it still has to authorize:
a replay or a double charge has two. `save_mandate` is an INSERT OR REPLACE: a mandate with the id of
another takes its place in `mandates`. `issued` are the mandates of `s.mandates`, among which the
console may name any one. The clock moves at any time, so a mandate or a cart may run out in the middle
of a call. `Restart` is `_State.__init__` again: a fresh database, a fresh catalog and fresh keys.
`SignedCarts` are the carts that users had signed outside the API, also by the provider key of an
earlier start.

## 4. Runs

Each run finishes within about a minute with two workers. `CHECK_DEADLOCK FALSE` appears where calls, ids or log
entries are bounded and the system may come to rest when they are used up; `RedTeam` never stops.

| Run | Instance | Question |
|---|---|---|
| `RedTeam` | caps of 3 and 4 units, 3 categories, fuzzer up to 3, purchases by two agents, of items with and without injected text, a second clock reading up to 2 later | does every case either generator or the fuzzer can draw get the expected verdict, do the features differ from the gate in nothing but the agent and the clock, are only marked items held, is each attack explained? |
| `AuthRace` | 2 callers, own connections, 3 requests sharing a nonce or a key, any risk advice, freezes | do the database's constraints decide every race, does the evidence follow, does the service implement `SpendLedger`? |
| `AuthApi` | 2 callers, `_LOCK`, one connection, 4 requests (good, repeated, over budget, forged), a clock that passes the expiry | is only what the human signed allowed, nothing for frozen agents, and does every call leave its evidence? |
| `AuthFaults` | 2 callers, own connections, 1 request sent any number of times, 1 database error, 1 crash, no risk advice | is `IInv` an invariant, is anything committed lost, does every call end although an exception may leave the write lock taken for good? |
| `AuthResubmit` | `AuthApi` with requests sent again | see section 7 |
| `Settle` | 2 transactions of one price, 2 orders, 2 payments, 2 amounts, 1 fault, 1 restart with a fresh database | is settled always captured and final, is nobody charged twice, does the audit log follow? |
| `SettleLiveness` | one process of the API: 2 pool threads and the event loop, 2 requests under way, 2 purchases of one price, 1 order, 2 payments, captures and failures delivered, settlement of the last purchase, 1 fault, the model's file in place | does every call end and the event loop come back, is a captured payment recorded in the end, do the rows behave like the payment ledger and the process like `Settlement`, are database and model made once? |
| `SettleLostAnswer` | as `Settle`, with 1 fault | see section 7 |
| `SettleForgotten` | the live script: 2 runs, 2 attempts of `reconcile` each, no fault | see section 7 |
| `Storefront` | 5 items in units of 100 rupees, one of them repriced below its floor or above every cap; 3 intents (one not confirmable), 7 carts, all 9 attack classes, all 6 demo variants; 2 calls, 2 starts, 1 failure of `authorize`, clock in {1, 3} with a lifetime of 1 | do offers stay within their walls, do negotiation and gate agree, is a cart spent once, does every demonstration show its code? |
| `StorefrontMandates` | the carts alone, 1 start, no failure | see section 7 |
| `AuditLog` | 2 threads, 4 entries, one edit | does an intact log verify, is an edit reported where it was made? |

What section 6 proves for every instance is not run again where it would only repeat another
property: `FuzzClean` follows from `FeaturesMirrorGate`, `LogInv` carries the proofs about the log, the
service's `TypeOK` is a part of `IInv` (`AuthFaults`) and the settlement's is a theorem. `AuthRace` checks
the refinement of `SpendLedger`, the proof covers it with errors, crashes and one shared connection too.

Why the bounds are enough. A race in `authorize` needs two callers and two requests that share a
nonce or a key; the third request of `AuthRace` makes both kinds of clash happen in one behaviour,
and the theorems of section 6 remove the bounds. A fault or a crash bites between two statements of
one call; a second one meets a state that the first can already produce. In the settlement a
confusion of payments needs two transactions of the same price; a double charge needs two orders
for one transaction, which takes one lost answer. A failed attempt before a captured one takes two
payments. The API's lazy state and lazy model are
made once in a process, so two threads are enough to meet in them; a third thread, the event loop, competes
with them for the lock. The script's twelve attempts differ in nothing, and two runs are what it asks for.
In the audit log the chain's rule relates neighbours; four entries give an edit both
predecessors and successors, appended before and after it. The properties of `Storefront` relate at
most two calls: what the first left (a mandate, a spent key, a frozen agent, a cart of the last
start) and what the second makes of it; a third call finds nothing that one of two could not have
left. The prices are those of the demo catalog, rounded, where they relate to caps and floors as
the originals do, and caps lie below, at and above the floor. In `RedTeam` prices matter only
relative to the cap, and every position around it (below, at, one above, far above) occurs.

## 5. Fairness

`AuthorizationService!Fairness`: a call that can take a step does (`WF Step`), because the thread
that serves it is scheduled. Nothing is assumed of who gets `_LOCK`, because Python's `Lock` promises nothing,
nor of errors, crashes or new calls: `EveryCallReturns` is about calls that have begun, and `NobodyIsStuck`
about those that wait. `LockTimeout` is part of `Step`: sqlite3 has a busy timeout of five seconds, so a call
that waits for the write lock of another connection raises in the end. `AuthFaults` checks it where only that
ends the wait, after an exception of another caller has left its transaction open.

`Settlement!Fairness`: a call under way goes on (`WF Progress`; it may go on by failing), and
Razorpay delivers each `payment.captured` event again until it has been handled (`SF` over the
delivery while the handler would still act on it): Razorpay redelivers what was not answered with a
2xx. Nothing is assumed of customers or of who calls `settle` and `reconcile`.

`ApiServer!ApiFairness`: a pool thread inside a call goes on, and the event loop takes a step whenever one
stays possible; both are threads of a running process. That calls to Razorpay return, with an answer or an
exception, is assumed with it: the SDK's HTTP client, not this code, bounds them. Nothing is assumed of who
gets `_LOCK` when several wait: `NobodyIsStuck` holds
all the same, since a loop that waits dispatches no request that could overtake it for ever. Delivery of
capture events is as above. No fairness makes anybody request anything.

`LiveSpec`: the script runs on, and its user does run it again, as `RunAgainReconciles` supposes.

## 6. Proofs

`tlapm` checks every proof from nothing. The theorems hold for every value of the constants that satisfies
the assumptions, which TLC evaluates on the runs:

| Assumption | What it says, and why the code justifies it |
|---|---|
| `RequestAssumption` | a request is identified by its transaction id: callers draw uuids |
| `SessionAssumption` | sessions that share a connection are kept apart by the lock, as in `api/app.py`; others have connections of their own |
| `LogAssumption`, `ApiServerAssumption` | the threads are no data; the event loop is not in the pool |
| `SettlementAssumption` | every transaction has an amount (a column NOT NULL) |
| `CatalogAssumption`, `NegotiationAssumption` | items are listed under their own sku, prices, floors and caps are naturals, one sku is unknown |
| `StorefrontAssumption` | the caps in intents are caps that buyers ask for, the clock has an earliest moment, lifetimes, demo caps and discounts are positive, the AP2 page is tried with items on sale (`app.py:184-208` names a seeded shoe) |
| `CartAssumption` | a cart signed outside the API is not named by a uuid the API has drawn |
| `DemoAssumption`, `RedTeamAssumption` | the attack classes and variants are those with an expected code; two categories, two keys, positive caps |
| `NoneAssumption`, `NullAssumption` | Python's None and SQL's NULL are none of the values they stand beside |

*Gate.* `AllowIsWithinMandate`: an ALLOW means no check failed, so the price is the record's, the
category is allowed and the amount is within the cap of a mandate whose signature verifies under a
pinned key. `AllowedAsSigned` goes back to what was signed: suppose the pinned keys signed certain drafts
and no others; then whatever was edited in a mandate afterwards, an ALLOW is for the agent, within the cap and
categories and before the expiry of one of those drafts. It uses the signature, but would fail if any limit the
gate compares with were missing from `signed_body`. `RiskNeverWidens`.

*Authorization service.* The safety invariants are not inductive: `AllowedOnce` speaks of committed
rows, and what a commit adds is in `open_rows`. `IInv` therefore says the same of committed and
uncommitted rows together (`LedgerCoherent`), that a session between its INSERT and its commit holds
the write lock (`Exclusion`), what a call has established at each label (`CallOK`), and that row,
receipt and audit entry follow each other (`EvidenceTrails`). `InductiveInvariant` proves it for
each action, one lemma per action or group of actions that a part can be disturbed by, and
`TypeCorrect`, `AllowedOnceHolds`, `AllowedWithinMandateHolds`,
`EvidenceAgreesHolds` and `EnforcedNotLooserHolds` follow from it; `LedgerOnlyGrowsHolds` is a step
property. `Refinement` shows that every step grants nothing or commits grants that keep the
abstract ledger coherent: the rows of a commit may come from two calls when an earlier call ended
with its transaction open, which is why `SpendLedger!Commit` takes a set. All of this holds with
and without the API's lock, for any number of callers, connections, requests, errors and crashes.

Four more results say what the service promises when its surroundings behave, each with no more than it
needs. `NoncesSpentByAllowsHolds` adds to `IInv` who owns a nonce that no allowed purchase has yet: the
call between its two INSERTs (`OwnedInv`). It holds until the first database error, which may leave a
reserved nonce in an open transaction that a later call commits. `AuthorizationsAuditedHolds` and
`FrozenAgentsGetNothingHolds` assume the lock (`Serialized`): without it a call can time out on SQLite's
lock between its commit and its audit entry, and a freeze can fall between the read of the flag and the
commit. The first adds that an allowed row has its entry or its call is still to write it (`EntryFollows`), the
second that a flag a call has read still stands (`FlagStands`); a frozen agent gets nothing also when
things fail. `EvidenceAlwaysHolds` is the docstring's "always" (`verifier/service.py:10`) under the lock, with
a transaction id per call and neither errors nor crashes: that no attempt then finds itself on the ledger, and
only a call that is about to commit has the write lock, is `TransactionsInv`. Section 7 shows what
happens when one of these is missing.

*Audit log.* `LogInv` adds to the chain that the session about to insert holds the lock and has
read the present tip, that events are in the order they were made, and that after an edit all links
before the edited row hold and its own does not. It carries `IntactChainVerifies` and `EditIsFound`
for any number of threads and entries.

*Negotiation.* `OfferWithinWalls` speaks of a finished negotiation; `NegotiationInv` adds that the
agreed price is within the walls from the first clamp on, and that its lower wall is the floor the
merchant of record still has, since a change of price keeps floors. The second clamp, at whatever
the list price is by then, can therefore only lower the price, and not below the floor
(`OfferNotAboveRequest`). The storefront takes the negotiation's own steps among its own (a lemma,
`ShopNegotiates`), which with `NegotiationKeepsWalls` gives `OfferWithinWallsHolds` for every
catalog, every price the merchant may set and any number of calls, restarts and failures.

*Risk model and red team.* `FeaturesMirrorGateHolds` compares the two lists of conditions for any purchase by
any agent and any two readings of the clock, the second not before the first. They do not quite agree, and the
theorem says where: no feature tells whose mandate it is (`gate.py:81-88`), and a mandate that runs out between
the readings is allowed with the feature `expired`. That the gate's first check passes without pinned keys is why
the features are asked for with the same `trusted_issuer_keys`. `HeldForMarkersOnlyHolds` is arithmetic: what the gate allows can collect the
weights of markers and of the nearby cap only. `RedTeamProofs` needs, of the last case evaluated, how it
was generated (`Sampled`) and what the gate says of it (`Outcomes`); each attack class is a lemma
that the checks before its own pass. `AttackIsExplainedHolds` is about a ranking of eleven signals of which
three are shown: for each class, at most two signals that can be raised with it rank above the one that
names it.

*Storefront.* Every property relates an answer to what was asked, often calls earlier, so the proof grows
with the call, each layer an invariant that uses those before it. `ShopShape`: what a handler may
have left to do. `MandatesSaved`: each request waits with its mandate saved, each row refers to one
(`ShopTypeOK`). `CartInv`: a request of the AP2 page comes from a cart that verified under this start's
provider key, and a spent cart is on the ledger or its key is of an earlier start, so it can be
allowed neither again nor after a restart (`CartSpentOnceHolds`, `AllowedCartWasSignedHolds`). `IdsMinted`: ids carry
the number of their call, so a fresh one is on no ledger. `PurchaseAsked`: a negotiated request is at the
record's price, for its item, within the cap of the mandate that was signed for it; each of the gate's eleven
checks then passes, except the three that `PurchaseRefusedForCause` allows to fail. For the demonstrations each request
is followed from how it was made (`VariantAsked`, `AttackAsked`, with `IssuedGenuine` for mandates the
console picks up, and `TwiceAsked` for the second request of a replay and of a double charge) to the first check
it fails; `DemonstrationNamesItsCodeHolds` puts them together, for any catalog, cap, discount and history of
the database. `FreezeEndsWithAttackHolds` needs only the handlers that freeze and thaw.

*Settlement.* `NoDoubleCharge` and `SettledIsCaptured` are far from inductive. `Inv` adds: one call has
the lock and is about a transaction that may be settled (`LockInv`, `CallInv`); an order known to a row or to
a call is of that transaction and nobody else's (`RowInv`, `OrderInv`); an order's id is offered to the
customer only after the row has it, so an order whose answer was lost is never offered (`OfferInv`); at
most one payment of an order is captured, and payments are of offered orders (`PayInv`); events tell of
payments that are there (`EventInv`). The restarts are in it: a deleted row leaves orders, payments and
events behind, and transaction ids are not used again. `Refinement` maps an update of a row to a charge
or a binding of the payment ledger for `MaxRestarts = 0`; a restart deletes rows, which that ledger does not do.

*API server.* `ApiInv` says that a call has the lock exactly while it works (`Locks`), that whoever
purchases is the only one and about a transaction nobody has used (`Buying`, `Queue`), that rows exist
only in a database that was made (`Stored`), and, of the loader, that outside the critical two steps
a set flag means a complete model (`Risk`). `ApiRefinement` hides the purchase: its calls are seen as
idle, its lock as free, until `record` makes the row in one step of `Settlement!Authorize`. What is
proved of `Settlement` about rows, orders and payments thus holds of the process: the proof module instantiates
`SettlementProofs` with the process's variables and no restarts (no step of the process is one), and
cites its theorems. `ApiKeepsMoneySafe`, `ApiSettlementAudited` and `ApiSettledStays` are the settlement's
promises for threads, lock and event loop, and `ApiImplementsPaymentLedger` composes the two refinements.

*Live script.* Its steps are steps of `Settlement`, except that a new run empties the database while the
ids used, Razorpay's orders and the payments stay. `ScriptInv` adds where the script may have a call under way,
that a run's transaction has no order before the first `settle()`, and that it is settled when Act 5 asks
again. `LiveKeepsMoneySafe` follows from the settlement's `Inv`. `LiveOneOrder` is the promise of
`razorpay/settlement.py:6-7` that the API breaks (section 7) and the script keeps, though it calls `settle()`
twice: after an error it ends, and the second call finds the order of a settled row. `LiveRetryRefused` is Act 5 itself,
"a retry can never charge twice": neither call changes a row, an order or the log. All of them suppose the one thread that
the script has (`OneThread`).

*Only model-checked.* Liveness, because fairness and ENABLED are beyond the prover: `EveryCallReturns`,
`NobodyIsStuck` and `CapturedSettles`. Every other property of a passing run is stated by a theorem. The four
properties of section 7 are violated on a small instance; `EvidenceAlways` and `OneOrderPerTransaction`
have theorems for the circumstances in which they do hold.

## 7. Where documentation and code part

* `AuthResubmit`: "sign a Trust Receipt and append a hash-chained audit entry - always"
  (`verifier/service.py:10`). A transaction id that is sent twice ends in `DuplicateTransaction`
  raised at `service.py:114`, outside the handlers, with neither. A database error between the commit
  of the row (line 99) and that of the audit entry (line 127) has the same effect on an allowed
  purchase, which is why `AuthorizationsAudited` is checked without errors only.
* `SettleLostAnswer`: "if a transaction already has an order, we return it instead of creating a
  second one" (`razorpay/settlement.py:6-7`). The order whose creation was not answered is unknown.
  The same sentence's "can never produce a double charge" is `NoDoubleCharge`, and holds: the id of
  the lost order reaches no customer.
* `SettleForgotten`: "If you completed the payment, run this again - reconcile is safe to repeat and
  never re-charges" (`scripts/live_razorpay.py:385-386`). The script's start deletes the transaction
  (line 329) and the next run reconciles a new one, so the payment is never recorded. The API's start
  deletes its database too (`api/app.py:63`).

* `StorefrontMandates`: "Mandates. Human-authorized, Ed25519-signed, immutable once signed"
  (`db/schema.sql:24`). `save_mandate` is an INSERT OR REPLACE (`db/repository.py:46`) and the AP2
  bridge keeps eight characters of a transaction id (`adapters/ap2.py:176`): a cart whose id begins
  alike, or the same cart again, replaces the mandate that an allowed transaction refers to. The
  gate decides on the mandate in hand, so no decision is affected; the record of it is.

What the preconditions of the properties leave out, where no text of the repository says otherwise:
a cart without a transaction id can be presented again (`CartSpentOnce` names only the others); the
console's attacks show another code, or an ALLOW, when the mandate they pick up has run out or is
for other goods (`AttackSuits`); an offer may exceed a list price that was lowered during the
negotiation below its floor (`OfferWithinWalls` is about the list price of the transcript).

Two observations without a text to hold them against. `_load_model` is safe because its callers hold
`_LOCK` of `api/app.py`, not by its own double-checked lock: without it a second thread takes the early
return of line 55 and scores with the rules, or with the default thresholds (the mutant `PurchaseUnlocked`
shows it). The live script does not look at the result of `settle()`: a purchase on hold goes on to a
checkout page without an order.

## 8. Abstractions

* Ed25519, HMAC and SHA-256 are ideal; keys are never leaked.
* Money is a few small integers. Python's integers do not overflow and SQLite's are 64 bits wide,
  far above any amount in paise.
* In `AuthorizationService` the risk signal is any action of `RiskAction`, which contains what the rules
  of `RiskModel` or any classifier advise.
* The float sums of the rules are integers in tenths; for every combination of rules they fall on the
  same side of 0.4 and 0.8. Amounts are integers, and 0.98 of a cap is compared exactly.
* In `ApiServer` ids of purchases are given with the request and used once, `authorize()` allows, holds or
  blocks as it likes, and starts of the process after the first are left to `Settlement!Restart`.
* Foreign keys cannot fail: every caller saves the mandate and registers the agent first
  (`TypeOK` of `Storefront` has it for mandates).
* Random ids are fresh: a call's ids carry its number. Only AP2 transaction ids, which come from
  outside, may coincide.
* The text of an intent is replaced by what the compiler makes of it, a cap and categories.
* SQLite's SHARED locks are not modelled: a read never waits. A receipt or an audit entry whose own
  commit fails is taken as not inserted in `AuthorizationService`; in `Settlement` both outcomes are
  possible.
* `AuthorizationService` takes an append to the audit log as one step; `AuditLog` shows what that
  needs: the lock.
* Razorpay closes an order once a payment of it is captured, and a customer pays only orders whose
  id the program returned: `NoDoubleCharge` rests on both.
* `reconcile` is called by `scripts/live_razorpay.py` in a single thread, never by the API. The model
  lets it run under the lock together with the API's calls, which contains that use.

## 9. Not modelled

* The trained classifier (`scripts/train_risk.py`, `predict_proba`): floating-point arithmetic; the
  artifact is there or not, its probability is any.
* The intent compiler: regular expressions over free text. Its result, a cap and categories that may be
  missing, is an input of `Storefront`.
* `crypto/*` and `config.py`: Ed25519, JSON canonicalization, key files, paths. Signatures are ideal in the
  modules that use them.
* A receipt's body and verification: never read back by the program.
* `showcase.py`, `bench_latency.py`, `benchmarks/runner.py`, the metrics and the bargaining experiment of the
  harness: they drive the modelled parts and print numbers.
* Endpoints that only read, and the frontend: they hold no state. `health` is in `ApiServer` because it takes
  no lock.
* Table `attack_runs`, which the program never reads.

## 10. Plan

Written: the gate, the risk model and the red team; the authorization service; settlement, the live script
and the API's process; the audit log; the storefront with catalog, negotiation and AP2 rail. What is left:

1. A composition of `AuditLog` with `Settlement`: that the entries whose order `AuditLog` proves intact are the
   ones whose existence `SettlementAudited` promises.
2. A refinement of the storefront's `Authorize` by the service, so that `AllowedOnce` and `EvidenceAgrees`
   are theorems about the calls of the storefront too.
3. A model of the cart without a transaction id that says how often it can be presented.
