# Verification of the pricing service

TLA+ models of the Go service under `src/`: interactive and batch pricing,
the result cache, the stores and the administration of promotions. TLC checks
the models on small instances; TLAPS proves the central properties for every
value of the constants. The code is the reference for every definition:
`PROJECT.json` maps each one to the lines it stands for.

## The system

One Go process serves HTTP. Each request runs in a goroutine of its own; all
of them share one `Engine`, its cache and one store, which is either
`MemoryStore` or a PostgreSQL database.

| Component | State | Operations | Talks to |
|---|---|---|---|
| `internal/httpapi` | none; holds engine and store | quote, batch, list, create, patch, search, audit, seed | engine, store |
| `internal/pricing` engine | `evalMu`, the cache, the compiler | `Evaluate` | store, cache, resolver, compiler, money |
| `internal/pricing` batch | none | `ProcessBatch`, `evaluateBatchItem` | store, resolver, compiler, money |
| `internal/cache` | entries, a disabled flag, its own RWMutex | `Get`, `Put`, `Disable`, `Clear`, `Key` | clock |
| `internal/storage` | the tables (memory: maps under one RWMutex) | lookups, selection, writes, audit log | database |
| `internal/promotion` | none | `ResolveConflicts`, `Ordered` | |
| `internal/ruleengine` | a compile cache that is never written, a miss counter | `Compile`, `Invalidate`, `Stats` | |
| `internal/money` | none | `ApplyPercent`, `RoundJPY`, `MinJPY`, `MaxJPY` | |
| `cmd/api`, `internal/application` | chooses the store | start, shutdown | database |
| others | counters and log lines only | search query text, hashing, aggregation, seed data, migration, worker, benchmarks, frontend | |

`Evaluate` holds `evalMu` from its first store call to its return. Batches do
not take it; neither do the administrative handlers. Every store method is
atomic by itself, but an evaluation makes a dozen such calls, and quotes,
batches and edits interleave between them.

What is hard here:

- The mutex and its ten return paths; who may see a cache entry, and when.
- Request, decision, cache entry and audit event are written one after the
  other. On PostgreSQL each statement may fail, commit and still report a
  failure, or be followed by a crash. Clients repeat requests under ids of
  their own choice.
- The cache's key says less than its inputs; its entries outlive what they
  were computed from.
- Equal priorities are ordered arbitrarily, by map iteration or by an
  unspecific `ORDER BY`, and a promotion that does not stack ends the list.
- Two implementations of the evaluation, each with its own rounding.
- PATCH reads, waits for a body and writes everything back; seeding puts its
  rows one by one over whatever is there, and both run beside quotes.
- Conditions are evaluated by searching and cutting text.
- Go iterates maps in any order, and the listings are cut to a page.
- 64-bit products that are not checked.

What makes each part correct: money is rounded down and never takes more than
there is; the resolver permutes its input by falling priority; the cache never
exceeds its size and never shows what was not put; every answer is stored,
audited and for the request asked; every request is decided once; both paths
compute the same price; edits are audited and take effect; a seeding restores
its rows; an expression means what its operators say; a page holds the newest;
everybody is answered.

## Modules

| Module | Models | Remarks |
|---|---|---|
| `Maps` | Go's maps | put and restrict |
| `Money` | `internal/money`, the clamp of the pricing loops | a word of any width: `HalfWord` is half its range |
| `Resolver` | `internal/promotion/resolver.go`, and `sort.SliceStable` | folds instead of recursion, so that it can be reasoned about; the stable sort is the one rearrangement that Go documents |
| `PricingCache` | `internal/cache` | one action per method, a clock, arbitrary choice among equally old entries |
| `CacheContract` | what a caller of the cache may rely on | abstract: no clock, no order of eviction |
| `PricingStore` | `internal/storage`, both backends | tables and methods; no behaviour of its own |
| `PricingEngine` | `Evaluate` behind `handleQuote` | one action per call to store, cache or mutex |
| `QuoteContract` | what `POST /pricing/quote` promises | abstract: no mutex, cache, evaluation or audit |
| `EngineProperties` | properties of the engine, and its refinement of `QuoteContract` | |
| `PricingEdits` | the same with two history variables | when an edit reaches the clients |
| `PricingService` | batches and promotion edits beside quotes | extends the engine's state and actions |
| `ServiceProperties` | properties of the above | |
| `PricingSeeding` | `POST /admin/seed` beside all of it | extends the service's state and actions |
| `Splitter` | `splitTop` of `internal/ruleengine/compiler.go` | a fold over the positions of a token sequence |
| `RuleEngine` | the evaluator of the same file | recursive; for TLC only |
| `Listings` | `ListAudit`, `ListPromotions`, `parseInt`, `ClampLimit` | pure operators on the order a map yields |
| `Algorithms` | one call each of the pure functions: discount, `ResolveConflicts`, limit, audit page, promotion list, `splitTop` | arguments are constant sets, so that what is said of results is said of every argument |
| `FunctionProofs`, `AlgorithmProofs` | theorems about the pure functions | |
| `PricingCacheProofs`, `PricingEngineProofs`, `QuoteContractProofs`, `PriceProofs`, `PricingEditsProofs`, `PricingServiceProofs` | theorems about the state machines | |
| `MCAlgorithms`, `MCPricingCache`, `MCPricingEngine`, `MCPricingEdits`, `MCPricingService`, `MCPricingSeeding` | instances for TLC | `MCAlgorithms` adds the call of the compiled predicate, which is recursive |

A connection is a member of `Quoters`, `Batchers` or `Admins`; `pc`, `batchPc`
and `adminPc` say at which call its handler is, `frame`, `batchFrame` and
`edit` hold its local variables. A step between two labels is one call that
other goroutines can tell apart. The actions of a quote follow the code:

    ReceiveQuote, Lock, ReadConfig, CacheGet, StoreRequest, Lookup, Select,
    LoadNextConditions (once per candidate), Resolve, ApplyNext (once per
    promotion), StoreDecision, PutCache, Audit

`StoreFails` adds, on PostgreSQL, the failure of each of these statements and
`Crash` the loss of everything in memory. `BatchStep` has the same shape
without mutex, cache, request and audit. `CreatePromotion`, `PatchGet`,
`PatchPut`, `PatchRejected` and `AuditPromotion` are the two administrative
handlers. Where it stands for them alone, in `PricingEngine`, a promotion is
replaced by one step, `ReplacePromotion`; `PricingService` has the handlers
themselves in its place. `ReceiveSeed`, `SeedNext` (once per promotion) and
`SeedAnswer` are `handleSeed`. In `SeedingNext` every step of the service also
writes the histories (`Watched`), as in `EditsNext` every step of the engine
does (`Noted`).

`QuoteContract` is the engine as its clients see it: a quote is asked, its
request is saved, one decision is made and saved for it, and the client is
answered with that decision; or it is answered with a decision already on
record whose customer, product, quantity and channel are the same; or it fails,
with what was saved left behind. A decision on record never changes. The
refinement mapping (`EngineProperties`) reads the phase of a quote off `pc` and
takes the tables as they are, but for the time filled into a request. On
PostgreSQL a request id can be saved once (`Keyed`). The contract speaks of
the parts of a question as a bag, because the cache's key is: it sorts its
parts, so a customer and a channel that exchange their names share a key.
`AnswerMatchesRequest` asks for the very fields, of every request that no other
accepted request shares its parts with (`Unmistakable`).

Operators whose comment begins with "Mutant" belong to no specification: they
are plausible bugs, kept beside the definition they vary, and each property
has one that it must refute.

### Abstractions

- Ids are numbers, 0 being the empty one; generated ids start above every id
  that a client sends. After a crash generation goes on, since UUIDs do not
  repeat. Other names are strings without `|` or dates, so that the parts of a
  cache key can be compared as a bag.
- `security.Hash` is a tag on the name: injective and opaque.
- In the engine a condition is the set of quantities it accepts. The
  expressions may also name channel, SKU and promotion; of these only the
  quantity varies in the instances. `RuleEngine` has the evaluator itself: it
  is a function of text and context, since every call compiles anew and the
  compile cache is never written.
- In `Splitter` and `RuleEngine` a text is the sequence of its tokens, without
  blanks and quoted literals, and a value is its printed form. Separators and
  operators are written character by character, so that `<` is found in `<=`.
- A seeding's dataset is a constant, in the order of its rows: the generator
  has a fixed seed. Of its puts only those of promotions are modelled. Tenants
  are read by nobody; products and customers are constants, those which a
  seeding before the traffic has put, and later ones put the same rows again.
- History variables (`failed` and `refused` in `PricingService`, `edited` and
  `altered` in `PricingSeeding`, `overtaken` and `settled` in `PricingEdits`)
  restrict nothing; only properties read them.
- `Put` reads the clock twice, for the time of an entry and for its expiry
  (`cache/pricing.go:130`); the model once. The two
  are never compared with each other, only the expiry with the clock.
- Of `GET /admin/audit` the rejection of a blank tenant and the empty list on
  PostgreSQL are left out of `Audit`, which is about the page.
- Sums and products wrap as the word does, but the properties about amounts
  speak of those that fit it (`Fits`, `AmountsFit`): beyond them the code
  promises nothing.
- Time is a tick; a day has `DayLength` ticks. A request's time 0 means that
  the client gave none.
- Contract prices never change: no handler writes them.
- The rows of `pricing_requests` refer to a tenant in the schema; that foreign
  key is left out, as every tenant of the instances exists.
- Active configurations are written by `SetActiveConfig`, which no handler
  calls (tests and benchmarks do): `ActivateConfig` is an action of the
  surroundings. A tenant without one is answered 500.
- A restart on the memory store is a new behaviour from `Init`, so `Crash`
  happens on PostgreSQL only.
- Fields that no step reads (names, exclusion lists, provenance, latency,
  explanation texts) are left out.

## Runs

Bounds: `LastUuid` stops new quotes after so many generated ids, `MaxTime`
stops the clock, `MaxChanges` bounds activations and edits, `MaxFaults` bounds
failed statements and crashes, `HalfWord` is the word. None of them cuts a
handler short: they stop work from being accepted. Deadlock is checked
everywhere; a service with nothing in flight idles.

Two runs on PostgreSQL leave out actions that cannot happen in them.
`engine_postgres` checks quotes among themselves (`UndisturbedSpec`), and
`engine_cache` has them beside the clock, new configurations and edits.
`service_postgres` checks `PostgresSpec`, which lacks the two steps that follow
the body of a patch: over PostgreSQL a patch is answered 503 before its body is
read, so that `ServiceSpec` takes no other step (theorem `PostgresService`);
`service_live` has them.

| Run | Instance | Shows |
|---|---|---|
| `algorithms` | amounts -3..60, percentages to 250%, a word too small for the largest products; all lists of at most 3 promotions, 3 priorities, 4 kinds; all texts of at most 5 tokens; all disjunctions of at most 2 conjunctions of at most 2 comparisons; all orders of at most 3 rows; all limits of at most 7 digits | `RoundsDown`, `LeavesAValidRest`; `FallingPriority`, `SamePromotions`, `KeepsStoreOrder`, `AgreesWithOrdered`; `SplitLosesNothing`, `ExpressionsMeanTheirFormula`; `PageHoldsNewest`, `LimitInRange`, `ListingIsStable` |
| `cache` | 3 keys, 2 places, lifetime 2, clock to 5 | `Bounded`; `KeepsContract`: it implements `CacheContract` |
| `engine_cache` | memory store; 2 connections, 5 requests that differ from the first in one respect each and 2 made of the same parts, 2 products, 3 customers; 1 place, lifetime 1, clock to 2, one activation or replaced promotion | `MutualExclusion`, `AnswersArePersisted`, `AnswersAreAudited`, `AnswerMatchesRequest`, `EditsTakeEffect`; `KeepsQuoteContract`: it implements `QuoteContract` |
| `engine_postgres` | 2 connections, repeated ids, requests rejected at different steps; 5 promotions (tied, conditional, ending, over 100%, of another channel), overlapping contracts; 2 faults or crashes | `AnswersArePersisted`, `DecisionHasRequest`, `DecisionMatchesRequest`, `OneDecisionPerRequest`; `Balanced`, `DiscountIsItemised`, `NoPromotionTwice`, `DecisionsPricedByDefinition`; `KeepsQuoteContract` under failures |
| `service_postgres` | a quoter, a batcher, an administrator; batches of two items, with a bad second item, with the ids of an earlier batch in another order, of another tenant, with an invalid item, without items or tenant; 1 fault or crash | `BatchAnswersEveryItem`, `BatchLosesOnlyFailedRows`, `BatchPricedByDefinition`, `PathsAgreeWithoutTies` |
| `service_live` | memory store; 2 quoters, one administrator, one seeder whose dataset differs from what stands, 2 changes; requests that fail use no id, so traffic never has to end | `QuoteAnswered`, `ChangesAreAudited`, `SeedRestores` |

`cache`, `engine_postgres` and `service_postgres` also check a type invariant
each.

Why the bounds suffice: a race needs two handlers, and two are in every place
where one can meet another; a fault matters by the step at which it happens,
and every step of every handler is reached, with a second fault for a repeated
or a recovered attempt; one place in the cache makes every put evict, one tick
of lifetime makes every entry expire; three promotions suffice for a stack that
is cut in the middle, and the sort is a composition of exchanges of two. What
the bounds cannot say, that more connections, entries or promotions change
nothing, is what the theorems are for.

Some of these need a word.

`EditsTakeEffect`: the code invalidates nothing when a promotion is edited, so
old prices are answered for the lifetime of an entry, and longer than that
after the edit itself: an evaluation that began before it caches its old price
when it ends. The property says that this is all. `settled` is the last instant
at which a promotion changed or an evaluation overtaken by a change was still
running; more than a lifetime after it, whatever the cache can answer with is
priced by the promotions as they are.

`SeedRestores`: seeding is not atomic and quotes see it half done. What it
guarantees is that, once answered, each of its promotions stands as in the
dataset, with its conditions, unless somebody else wrote that promotion after
the seeding had put it (`edited`).

`ChangesAreAudited` counts. `altered` holds how often administrators altered
each promotion or its conditions; there must be as many events that tell of it,
less one for every editor who has stored the promotion and is about to write
its event. An earlier event excuses no later change, and since an event has an
id of its own, two events of one promotion do not merge. Seeding is the
exception: it alters promotions and writes no event. No document promises one.

`BatchLosesOnlyFailedRows`: the error of a batch's `SaveDecision` is dropped,
so a client may be answered with a decision that is in no table. It is asked of
each such decision that its own insert failed (`failed`), or that it was turned
away (`refused`) because its id, which a client chose, is taken by a row that
is still there. A failed read, another decision's failure or a crash excuses
nothing.

`ExpressionsMeanTheirFormula` is stated for texts without parentheses; see
below for those with. `SplitLosesNothing` holds for every text, parentheses
unbalanced and separators in odd runs included. `LimitInRange` includes limits
that wrap round: seven digits make more than the word of the run can hold.

`DecisionsPricedByDefinition` is the reference for the whole evaluation: the
base price is the list price or that of a contract in force that started last,
the subtotal is base times quantity, and there must be some order by falling
priority of the promotions eligible by definition whose cut after the first
that does not stack gives the promotions applied and the amount.
It speaks of a decision when it has just been saved, against the handler's own
request and not against the row in `pricing_requests`: on the memory store a
later request under the same id replaces that row.

### Fairness

`ServiceFairness` is weak for the steps of a handler, which Go runs until it
returns, and strong for `Lock`: `sync.Mutex` hands itself to a waiter that has
been passed over for a millisecond. Weak fairness of `Lock` would not do, for
another connection may take the mutex again and again. Nobody is obliged to
send a request, nothing has to fail, the clock need not advance; the body of a
PATCH is assumed to arrive or be rejected. `SeedingFairness` adds weak fairness
of the seeding handler's steps.

### Statements of the documentation that the code does not keep

Each is a run that TLC ends with a counterexample, and a finding.

| Run | Statement | Counterexample |
|---|---|---|
| `claim_cache` | "tenant- and configuration-aware ... result cache" (`cache/pricing.go:1`) | one tenant is answered with the other's decision; a key has neither tenant nor configuration |
| `claim_paths_agree` | "identical decisions for identical inputs" (`pricing/engine.go:2`) | two promotions of equal priority, one of which does not stack: each evaluation draws its own order |
| `claim_batch_persisted` | "The decision is persisted" (`docs/architecture.md:58`) | items without ids share the decision id `-b`; the second overwrites the first |
| `claim_ties` | "the same as a stable sort by (priority DESC, id ASC)" (`resolver.go:86`) | candidates of equal priority keep the store's order, the greater id first |
| `claim_promotion_end` | `valid_to`: "Inclusive end." (`docs/data-dictionary.md:87`) | a quote at that instant is priced without the promotion |
| `claim_patch_fields` | "Updates a subset of fields" (`docs/api.md:99`) | the later of two concurrent patches writes back the field the earlier one set |

Others were met while reading and are modelled as the code has them, without a
run of their own:

- `resolver.go:38` says that candidates may come twice and be applied twice. In
  the service they do not: a store returns each row once (`NoPromotionTwice`).
  `SamePromotions` and `KeepsStoreOrder` therefore speak of distinct ids.
- `batch.go:15` says the paths differ by rounding. They do not: `RoundJPY` is
  the identity (`PathsAgreeWithoutTies` passes).
- A failed read of the contract price is taken for no contract
  (`postgres.go:189`) and the list price is charged.
- `base * quantity` wraps for large quantities (`engine.go:103`).
- A batch stores the customer's plain id (`batch.go:111`; the dictionary, line
  120, says hashed) and decisions whose request was never stored (line 118: a
  foreign key; the migration declares none).
- A patch erases the promotion's conditions (`server.go:297`).
- On PostgreSQL a created promotion is answered 200 and stored nowhere
  (`server.go:258`).
- "ConfigVersion identifies a frozen rule set" (`types.go:150`), yet edits take
  effect under an unchanged configuration, and one that falls between selection
  and loading has a quote priced with an old promotion and new conditions.
- Seeding activates no configuration, and neither does any other handler, so a
  process on an empty store answers every quote 500; one that cannot reach its
  database at start (`main.go:45`) falls back to just such a store.
- Parentheses are never removed (`compiler.go:99`), so a group does not have
  the meaning it looks to have: `(a == b)` compares the texts `(a` and `b)` and
  is always false, `(a != b)` always true. Expressions in the seed data have
  none.
- "the cache key is (tenant_id, config_version, expr) so that compiled
  predicates are safely reused" (`compiler.go:1`): none is reused.
- Equality in an expression compares printed forms, so `quantity == 1.0` is
  false of the quantity 1, while `quantity >= 1.0` is true.
- The sku promotions that seeding generates for every tenant but the first name
  products that it does not generate (`seeddata.go:116`).
- `GET /promotions` ignores channel and date; `GET /admin/audit` is empty on
  PostgreSQL.
- The search of the memory store ignores sort and order and cuts rows in the
  order in which the map yields them.

## Proofs

All proofs are checked by TLAPS. They assume what the modules name
(`StoreAssumption`, `EngineAssumption`, `CacheAssumption`, `HalfWordAssumption`,
`AlgorithmsAssumption`, `ServiceAssumption`, `SeedingAssumption`): that
constants have their types, that generated ids lie above the clients', that
nothing fails on the memory store, that a patch sets numbers to numbers and
flags to flags (the handler converts each field it decodes), and that a
dataset numbers its promotions with one counter. TLC evaluates each of them on
the instances. Other hypotheses belong to single theorems and are named there:
`AmountsFit`, `BatchAmountsFit`, `OneProductPerSku`, `ContractsApart`,
`RowsStand` and `MaxFaults = 0`. Each holds on the instance whose
run checks the property, so what is proved covers what is checked.

**`FunctionProofs`**. Money, for every word width: `PercentOfAmount`
says that when the product fits, `ApplyPercent` is the exact share rounded down,
`ClampedDiscount` that the clamped discount lies between 0 and the amount. They
carry the arithmetic of the other modules.

The resolver, for lists of every length: the sort and the selection are folds.
What a fold computes is an induction over its rounds. The library's induction
theorem takes a predicate as parameter, which the provers cannot instantiate;
`Inductive` states it for sets of numbers instead, so that each use names the
set of rounds for which the claim holds. `FoldExists` and `FoldRounds` turn a
fold into the sequence of its intermediate values. The loop invariants are those
one would write beside the Go code: after the inner loop for position `i`,
position `i` outranks all later ones; after `i` rounds of the outer loop the
first `i` positions fall and outrank the rest; every exchange keeps the list a
rearrangement (a permutation of positions, composed step by step); and on a
falling list no exchange happens. The results are `PairwiseOrderSorts` and
`ResolveConflictsOrders`.

The stable sort, for lists of every length. `SliceStable` chooses a
rearrangement in which every element comes before those it is less than or tied
with and earlier; `StableOrderExists` shows that there is one, by giving each
position the number of positions that come before it, so `Arranged` may use it.
`OneOrderFalls`: two rearrangements of one set that both fall strictly are the
same.

**`AlgorithmProofs`** turns these, and the arithmetic, into ten of the eleven
properties that `algorithms` checks. Their invariant, `CallsInv`, says that a
call that has returned has returned what its function gives for its arguments.

- `RoundsDown`, `LeavesAValidRest`, `FallingPriority`, `SamePromotions`,
  `KeepsStoreOrder` and `LimitInRange` follow from the facts above.
- `AgreesWithOrdered`: without ties both sorts yield a strictly falling
  rearrangement of the same candidates, and there is only one.
- `PageHoldsNewest`, `ListingIsStable`: the append loop keeps the tenant's rows
  in their order (`AmongKeeps`), the sort rearranges them, and a prefix of a
  list that falls holds its greatest (`CutKeepsNewest`). That ids are the
  table's key makes the listing's order total, so the order in which the map
  was iterated leaves no trace.
- `SplitLosesNothing`: after every round of the loop, the parts found so far and
  the rest of the text, joined, are the text (`Keeps`). `StepKeeps` shows that a
  cut only exchanges the last part for its two halves (`CutStaysWoven`), and
  that what the loop jumps over is the separator.

**`PricingCacheProofs`**, for every capacity, lifetime and set of keys.
`CacheInvariance` is the inductive invariant `CacheInv`: types, capacity and
`UniformLifetime`; `CacheTyping` and `CacheBounded` are parts of it. The last
is what makes `CacheKeepsContract` true: since all entries live equally long,
the oldest is the first to expire, so evicting it costs a visible decision only
when every entry is visible, that is at capacity. The refinement maps each
`Put` to `Store`, and expiry, `Clear` and `Disable` to `Forget`.

**`PricingEngineProofs`**, for any number of connections, any catalog, both
backends, with failures and crashes:

- `Typing`: `TypeOK`, one lemma per action.
- `Exclusion`: `MutualExclusion` is inductive given types.
- `AnswersPersisted` and `DecisionsHaveRequests` follow from `PersistenceInv`.
  That an answer is stored is not inductive, for an answer may come from the
  cache and its row might be overwritten. The strengthening adds that every
  cached decision is stored (`CacheStored`), that no stored id has been used by
  a generator yet to come (`Fresh`), so that no decision is overwritten, and
  that a handler past `StoreRequest` has its row and one past `StoreDecision`
  its decision (`HandlerOK`).
- `AnswersAudited` follows from `AuditInv`, on top of the mutex: an entry is
  unaudited only while the handler that put it holds the mutex (`CacheAudited`),
  and nobody reads the cache without it. Events are keyed by generated ids, all
  below `uuid`, so no event overwrites another.

**`QuoteContractProofs`**, under the same generality:

- `Refinement`: the engine implements `QuoteContract`. Beyond types and
  persistence it needs `FittingInv`: a decision that has been made is the one
  for its handler's request (`MadeForRequest`), and a cached one has the parts
  of its key (`CacheFits`), so that an answer from the cache is
  `AnswerFromRecord`. One lemma per action shows which step of the contract it
  is; the mutex, the lookups and the loop are stuttering.
- `DecisionsMatch` and `DecidedOnce`, from the contract's steps alone. A request
  id is saved only once, so among the quotes between saving and deciding each
  has its own row, no decision names it yet (`PendingOwnRows`), and recording
  one keeps `RowsMatch` and `OneRowEach`. `ContractEffects` reduces the contract
  to three kinds of step: no row, a request row, a decision row. The mutex is
  not used: the primary key suffices.
- `AnswersMatch`: `AnswerMatchesRequest`, without hypothesis. Every decision on
  record was made for some accepted request, with its fields; an answer from the
  record has the parts that were asked for; and if no other accepted request has
  these parts, it is the same fields. Requests that do share them, a customer
  called like a channel, the code confuses, and the property leaves out.

**`PriceProofs`**, from lookup to rounding:

- `Balance`, for any shop whose amounts fit the word, stated as
  `AmountsFit(most)`: subtotals of accepted requests lie in `0..most`, and no
  percentage of such an amount overflows. Nothing is asked of the percentages
  otherwise, so it covers those above 100%, where the clamp matters.
  `HandlerBalanced` says that within the loop what remains and what was taken
  off make the subtotal, and that the handler's own copies of promotions fit,
  even when they were replaced in the store meanwhile.
- `AppliedOnce`: `NoPromotionTwice`, for any shop. `OnceInv` follows the ids:
  the candidates come from a table keyed by id, so no two share one; resolving
  keeps them apart (`ResolveConflictsOrders`); and in the loop no id still to be
  applied has been applied.
- `Itemised`: `DiscountIsItemised`, under `AmountsFit` again, for a total that
  wraps round is not the sum of its parts. `ItemInv` is the loop invariant.

`PricedAsDefined`, that is `DecisionsPricedByDefinition`, is about the whole
price. The definition does not mention the loop: it asks for *some* order of the
eligible promotions. The proof gives one. The ids that `ResolveConflicts`
returned name a list `t` of promotions, falling and without repetition
(`ResolveConflictsOrders`); the positions of `t` whose conditions accept the
quantity have an enumeration `g` (`Enumerated`), and `t` read along `g` is an
order of `Eligible` (`PickedIsEligible`). `Loop` is the invariant of the loop:
after `m` ids of `t`, `k` of the positions in `g` have been passed, what was
applied are the first `k` in that order, all but perhaps the last stacking, and
what remains is `Remaining` after these `k`. A skipped id leaves `k` alone, an
applied one adds one, and a promotion that does not stack ends the order where
`Stacked` cuts it. Around the loop, `PricedAt` says at each label that base
price, candidates and conditions are still what the store holds, which is true
until a promotion is edited or a read fails; hence the property's premise.

It needs `AmountsFit`, and `OneProductPerSku`: no tenant has two products of one
sku. The schema does not ask for it (the index on tenant and sku is not unique),
but the seed data numbers every sku (`seeddata.go:84`), and without it "the
promotions of the sku" is not one set: lookup returns any of the products, and
only its own promotions count.

**`PricingEditsProofs`**: `EditsReachClients`, that is `EditsTakeEffect`, about
the engine with its two history variables. `EditsInv` has two parts.
`OvertakenOrPriced`: a handler that no edit has overtaken is priced by the
promotions as they are, at its label, by the lemmas of `PriceProofs`; an edit
moves all handlers that are evaluating into `overtaken`. `EntriesSettle`: an
entry that is not priced by the promotions as they are was put no later than
`settled`, so it is gone a lifetime after. The second rests on the first when an
entry is put, and on `settled` moving to the present when a promotion changes or
an overtaken handler ends. It needs the hypotheses of `PricedAsDefined`, and two
more. `MaxFaults = 0`: an edit reaches the memory store only, and there nothing
fails. `RowsStand`: the property reads the request that an entry was made for
from `pricing_requests`; on the memory store a client that reuses an id for
something else replaces that row, and there is no longer anything to compare
with.

**`PricingServiceProofs`**, for any number of quoters, batchers, editors and
seeders on one store:

- `ServiceTyping`: `ServiceTypeOK`. The engine's lemmas are used again for the
  steps of quotes; batches and editors have one lemma per action.
- `PostgresService`: over PostgreSQL `ServiceSpec` implies `PostgresSpec`, since
  no editor ever waits for a body (`NoBody`).
- `BatchComplete`: `BatchAnswersEveryItem`. An answer speaks of items that were
  evaluated long before, so `AnsweringInv` says at every step that the request
  in the frame is that of the next item, and that each decision made so far is
  for its item.
- `BatchPricedAsDefined`: `BatchPricedByDefinition`, under `BatchAmountsFit`
  (`AmountsFit`, of items) and `OneProductPerSku`, in `ServiceSpec`: no seeding
  runs, whose puts would change promotions too. The batch is its own code
  with its own order of operations, so `BatchPriceInv` has a statement for each
  of its labels. But what it carries from one to the next is what a quote
  carries, so the lemmas about the loop, which speak of frames and not of
  handlers, serve again.
- `PathsAgreeUntied`: `PathsAgreeWithoutTies`. `CalmInv` says that as long as no
  promotion has changed and no read has failed (`Calm`), every stored quote and
  every batch item has exactly a price by definition. `OneBase` and
  `OneFallingOrder` show that the definition leaves one price: `ContractsApart`
  (contracts of one customer and sku that start together have one price) gives
  one base, and without ties only one order falls. Without `ContractsApart` the
  property would fail, for lookup takes either contract; without `RowsStand` a
  reused id would have it compare a batch item with a quote for something else.
- `BatchLosses`: `BatchLosesOnlyFailedRows`. `LossInv` says it of every decision
  that a batch has made, answered or not, one decision at a time: it is in the
  table, its own insert failed, or it was turned away by a row of its id
  (`Explained`). A decision in the table stays, because no row is ever removed
  and ids are keys (`RowsStay`); the two histories only grow (`LostGrows`).
- `ChangesAudited`: `ChangesAreAudited`, in `SeedingSpec`. `AlteredInv` counts:
  for each promotion there are at most as many alterations as events that tell
  of it plus editors between write and audit (`Covered`). The write of an
  editor adds one to both sides, its audit turns the editor into an event, under
  an id that no event has; the steps of a seeding touch neither side.
- `SeedingRestores`: `SeedRestores`, in `SeedingSpec`, where edits, batches,
  quotes and other seedings run beside it. `SeedInv` says that what is still to
  be put is a suffix of the dataset and that every row before it (`Position`)
  stands as in the dataset or was written by somebody since (`Restored`). The
  distinct ids matter: a later row of the same dataset must not undo an earlier
  one.

Only model-checked, and why:

- Liveness (`QuoteAnswered`) and whatever needs ENABLED: out of the prover's
  reach.
- `ExpressionsMeanTheirFormula`: the evaluator is recursive, and a module that
  declares a recursive operator cannot be proved about.

## Not modelled

- `/admin/search` and the query builder: reads, whose order is the database's
  or none.
- The query logs. `PGStore.RecordQuery` appends without a lock
  (`postgres.go:34`), a data race; nothing in the service reads the log.
- Aggregation, `PGStore.PutPromotion`, `LoadAllConditions`, batch jobs, users
  and eligibility rules: called by nobody in the service.
- The random generation of the seed data, the seed command (it writes a file),
  migrations (a linear script), metrics, logs, JSON, the worker (a heartbeat),
  benchmarks and frontend.

## Plan

Done: every component of the list above that keeps state, and a theorem for
every safety property a run checks but one. What would come next if the code
grows: `/admin/search` and the query builder, once their order is specified;
the evaluator as a function on texts ordered by length, so that what
expressions mean could be stated for every formula.
