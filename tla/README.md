# Verification of arbbot's live trader

TLA+ models of `src/rust`, the armed trader of arbbot: a process that rests
maker orders on Kalshi and Polymarket US, hedges their fills at the other venue,
and cancels everything on its way out. Each module is translated from the
source; `PROJECT.json` maps its definitions to the lines they stand for. TLC
checks small instances and TLAPS proves the main invariants for every instance.

## 1. The system

The trader (`rust/bins/arb-trader`) is one process with these tasks.

| Part | State it keeps | Operations | Talks to |
|---|---|---|---|
| engine (`engine/mod.rs` and its children) | books, quotes, `pending_hedges`, `hedge_orders`, `oid_venue`, `unclaimed_fills`, `parked_cancels`, `sweeps_owed`, `FillLedger` | one `select!` loop: feed frames and answers first, then 1 Hz ticks (kill, hedge, fill, cancel), stats | executors by bounded channel (`try_send`, a full one drops); answers and fills by `FeedMsg` |
| executors (`exec.rs`), one per venue | a waiting list, tokens, ids claimed | `next_cmd` (takers first), halt gate, token bucket, `prior_attempt`, `Halt::enter`, place or cancel, ack, `recover_place` | the venue's `OrderSink`; answers to the engine |
| venue sweep (`sink.rs`) | one call's rounds, polls, empties | `cancel_all_and_verify` | `OrderSink` |
| halt (`exec.rs`, `main.rs`, `wal.rs`, `engine/fill.rs`) | `Halt` counters, `HALTING` | `begin`, `claim_halt`, `await_quiescent`, `shutdown_sweep`, exit code | executors by atomics, venues by sweep |
| fill feeds (`fills.rs`) | Kalshi's running totals, trade identities seen, the reconcile gate | `line`, `merge_venue`, `spawn_reconcile`; PM-US frames are cumulative already | two tasks of one feed share the totals; engine by `FeedMsg` |
| maker exit (`maker_exit.rs`, `maker_exit/*.rs`, `unwind.rs`) | an exit per owner on disk and in memory (`State`, `Receipt`), its latch | the pass (`cycle`, `place_group`) and the reactor (`react`); `advance`, `recover`, `checkpoint`, `manage_with` | sinks directly, ledger |
| reconciliation (`positions.rs`, `naked_act.rs`) | findings, confirmations | `cycle`, `act`, `place_and_book` | sinks directly, the engine's published set |
| risk gate (`risk.rs`) | reservations, open exposure, unread hedges, directions and cash, a lock each | `check`, `release`, `consume`, `record_open` / `record_close`, `release_closed`, `set_live_capital`, `hedges_read` | called by quoter and engine; written by the balance and ledger polls |
| trade ledger (`ledger.rs`) | a file | `append_basket`, `append`, torn-tail heal | engine, maker exit, reconciliation, the Python tools |
| restart census (`orphan.rs`) | none | `undischarged`, `adopt` | intents, ledger, positions; engine at start |
| feeds and health (`feed.rs`, `feed_health.rs`, `arb-core/book.rs`) | books, sequence numbers, staleness | snapshot, delta, pull quotes | recorder's socket |
| recorder and broadcast (`arb-tape`) | subscribers, tape | publish, welcome, evict | unix socket |

Quoting and scanning (`arb-core/quoter.rs`, `scan.rs`), the gateways
(`arb-venue`), capital and marks reports, and the offline tools complete the
tree. The Python under `src/src/arbbot` is the predecessor and shares only files.

### What is hard, and what makes each part correct

- **Hedge.** A fill frame is cumulative and may come late, twice, out of order,
  before the ack of its order, or never. Retries have fresh ids, so the venue
  would fill both. Correct means: what the ledger holds is what was hedged, up to
  what was owed; an obligation is tracked, retried and alarmed exactly until it
  is covered; nothing is credited twice; and a retry is not placed over an
  attempt that filled unseen.
- **Halt.** The latch, the in-flight count and the claim are atomics shared by
  executors and racing entry points; venues' lists lag; some place may never
  return. Correct means: a code that says clean is true, one entry point decides,
  and the process always ends.
- **Sweep.** Correct means: a clean verdict is proof in spite of the lag, and
  the softer verdict never hides an order the last cancel was shown.
- **Owed sweeps.** A halt in a running process owes its venue a cancel-all; the
  channel may be full, the sweep may fail, and its answer comes back among others,
  perhaps after the next halt. Correct means: it is owed until a sweep that began
  after the stop has verified the book, a retry never stacks one behind one at large,
  none is offered on the way out of a halt, and a halt that stays in force is proven.
- **Parked cancels.** A cancel is decided before the order can be addressed, is lost
  with a full channel, is refused, and is answered late. Correct means: no order
  rests that the process has forgotten.
- **Fill feed.** A trade comes as a frame, which may be lost with its socket or
  replayed, and as a row of a list, which lags; frames carry pieces that are summed
  and floored; two tasks count into one accumulator and send after releasing it.
  Correct means: a trade is counted once whichever way it comes first, the engine is
  never told more than the venue filled, and a trade that is lost has a counter that
  says so.
- **Maker exit.** A rest and its hedge are orders at two venues, their answers may be
  lost, and the process may die between any checkpoint and its side effect. Correct
  means: what a rest traded is closed on the other leg once and no more, is booked
  once, and nobody lets go of an order before that is so; a lot is in one exit; and
  an exit in doubt holds back fresh ones of its market.
- **Risk gate.** A check reads five figures under five locks while two polls write
  some of them; a fill moves contracts from one to another; an amend overwrites the
  reservation of an order that may still fill; lots are closed by other processes.
  Correct means: each figure is what the world has, or errs on the side that refuses, by
  no more than what was opened past the gate otherwise;
  a close is taken out once, across polls and restarts; and no quote that has gone
  keeps capital.
- **Not modelled** (section 7): a restart's matching of intents and positions, and the
  interlocks between the parties that place orders.

`PROJECT.json` lists every hazard at its line with the property that catches it,
or the module that is to.

## 2. Modules

| Module | What it is |
|---|---|
| `Hedge` | the hedge state machine with its venues, feed and executors |
| `HedgeContract` | what the engine promises of the fills of its maker orders, with no attempt, frame, ack or executor in it; `Hedge` implements it |
| `MCHedge` + 2 cfg | the instances of `Hedge` |
| `HedgeProofs` | its theorems, the refinement among them |
| `Sweep` | `cancel_all_and_verify` and the venue's book and lagging list |
| `Halt` | EXTENDS `Sweep`: latch, executors, entry points, exit code |
| `MCHalt` + 3 cfg | its instances |
| `HaltProofs` | their theorems; the sweep's lemmas come first and the halt's reuse them |
| `SumProofs` | what a fold that sums a function over a finite set is worth, with no induction; used by four modules of proofs |
| `KillSweep` + 2 cfg | a running engine's halts and the sweep each owes |
| `Cancel` | EXTENDS `KillSweep`: the quotes, the park and the venue's book, over the same channel |
| `MCCancel` + cfg | its instance |
| `KillSweepProofs`, `CancelProofs` | their theorems; the channel's lemmas are reused by the cancels' |
| `Fills`, `MCFills` + 2 cfg | the Kalshi fill feed between the venue and the engine, and its instances |
| `FillsProofs` | its theorems |
| `ExitContract` | what an exit promises of the orders it rests, with no process in it |
| `MakerExit`, `MCMakerExit` + cfg | lots, exits and their files, the pass and the reactor, the two venues; implements `ExitContract` |
| `MakerExitProofs` | its theorems, the refinement among them |
| `Risk`, `MCRisk` + cfg | the figures of the capital gate, the orders and fills that move them and the two polls, and its instance |
| `RiskProofs` | its theorems |

Mutants (`Mut...`) stand before the definition they change, with the bug they
plant in a comment; `PROJECT.json` says which property finds each.

### Hedge: state and code

| Model | Code |
|---|---|
| `vfilled` | the venues' truth |
| `mcum`, `dropped`, `anchored` | `FillLedger` records; `DROPPED_UNCONSUMED` per order; a record's anchor |
| `pending`, `ob[c]` | `pending_hedges`; a `PendingHedge`, kept after retirement so that properties can speak of it |
| `attempts`, `ho[h]` | `hedge_orders`, a `HedgeOrder` |
| `named` | `oid_venue` / `venue_oid` |
| `unclaimed` | `unclaimed_fills`, keyed by the order the venue id belongs to |
| `queue`, `chan` | each executor's channel and its answers, not yet received |
| `booked`, `extra` | contracts in the trade ledger, and in `OVER-HEDGED` alarms |
| `ho[h].skipped` | history only: the earlier attempts a retry was not checked against because they had no venue id |

Actions: `FillReported`, `FillHeld` (on_fill), `HeldFillExpires` (unclaimed_tick),
`RecvMakerAck`, `RecvAck` (on_order_ack and its replay), `RecvFill` (the fill an
executor found by asking), `RecvMarketHalted` (on_place_result), `TickWaits`,
`TickPlaces` (one obligation of hedge_tick), the clocks, `MakerTrades`, and the
executor's outcomes `ExecUnreadable`, `ExecUnaccounted`, `ExecPlaces`,
`ExecAnswerLost`, `ExecRefused`.

Abstractions, all of data: one relationship; prices are the outcome of the
comparison they enter, so the slip gate is a choice; verification, place and
answer are one executor step, and the time a command takes is the time it waits
in the queue; a full channel is a choice (`Backlog`); the retry interval and
HOLD_FOR_ACK are `sinceTry` 0, 1, 2. An obligation's tick is a step of its own: the
plans of one tick read no other obligation. Left out: `tries`, `dry_tries`,
`paused_strikes` (they choose a log line, a distrust set and a park's length),
the `HedgeNeeded` intent, the risk calls, fills of orders placed outside the
engine, `on_ioc_terminal`, and obligations adopted at a restart.

The model assumes what the fill feed is to provide: a reported count is one the
order has reached. `Fills` shows when it is (`NeverPastVenue`).

### Sweep and Halt: state and code

| Model | Code |
|---|---|
| `book[v]`, `listed[v]` | the venue's book; its book at the last access, which a list may still show |
| `sweep[v]` | the locals of `cancel_all_and_verify_blocking`; `pc` is the place in its loop or its verdict (`clean` = Ok, `unconfirmed` = `is_only_unconfirmed`, `unclean`) |
| `sweep[v].late`, `.before` | history only |
| `halted`, `inflight`, `discarded` | `Halt`; the two counts as the sets of places they count |
| `todo`, `queue`, `ex[v]` | commands not yet emitted, queued, and being served: `held` (bucket, prior attempt), `counted` and `wire` (either side of the latch read in `enter`), `answering` |
| `aside` | places of the maker exit on the wire |
| `claimed`, `halter[h]` | `HALTING`; where SIGTERM, a WAL or ledger crash and a panic are |
| `stuck`, `leg`, `exit` | `places_inflight_at_verify`, `discarded_takers`, the exit code |

`EntersCount` and `EntersLatch` are two steps because the whole argument of
`Halt::enter` is their order. Budgets (quiesce, sweep, loser's wait) are choices:
each may run out at any time. Left out: an engine loop that ends
(`sweep_after_engine_exit`, a signal in all but name), the process that was never
armed, and the panic runtime's shorter quiesce.

Two assumptions about venues, both stated in the modules: an access to a list
shows the book as it is or as it was at the access before (`poll_delay` outlasts
the lag), and a place reaches its venue, if it does, before its call returns.

### KillSweep and Cancel: state and code

| Model | Code |
|---|---|
| `killFile`, `killed`, `pulled` | the kill file; `Engine.killed`; `Engine.feed_reason` |
| `owed` | one venue's entry of `sweeps_owed`; `backoff` is the wait that its `attempts` stand for |
| `queue`, `running`, `answers` | the executor's channel with the command being served first; the sweep being served; its messages to the engine |
| `halts`, `spell`, `proven` | history only: halts, stops, and the last stop a sweep proved |
| `apart`, `alone` | history only: no sweep was at large at the last stop; nor at the last halt, which may have come on top of one in force |
| `todo`, `resting` | the orders still to be placed; `Quoter.resting` |
| `acked`, `park` | `oid_venue`; `parked_cancels`, a `ParkedCancel` per order |
| `at` | where each order is at the venue: nowhere yet, in the book, filled, gone |

Actions of `KillSweep`: `KillEngages` and `KillWatch` (kill_tick), `FeedPulls`,
`FeedHealthy` (pull_quotes and the way out), `HearsSweep` (on_sweep_result),
`SweepBegins`, `SweepEnds` (the executor), and the operator's file. `Cancel` adds the
quoter (`Quotes`, `Amends`, `Pulls`, `QuoteFilled`), a halt's own cancels
(`KillCancels`, `PullCancels`), `HearsAck`, `HearsCancel`, `CancelTick`, the
executor (`PlaceServed`, `CancelServed`, `EscalateServed`), a sweep's effect on the
book (`BookSwept`) and `OrderFills`.

Abstractions: one venue, because venues owe and answer apart; the two grace
periods of a cancel are choices, as is the order in which one tick visits the
park; a place or a cancel is served in one step with its answer, a sweep in two,
since a halt may fall inside it; `next_cmd` moves only takers forward, so the
commands here keep their order. Other traffic is opaque in `KillSweep` and is what
`Cancel` says in `Cancel`. Left out: an executor whose channel is closed,
`gave_up_logged`, gauges. A fill is credited to a quote only after the order's ack
(before it the fill is held, which `Hedge` models).

### Fills: state and code

| Model | Code |
|---|---|
| `filled`, `listed`, `sameIds` | the venue's trades in order; those its list shows; whether socket and list name a trade alike |
| `wire`, `link`, `gaps` | frames sent and not read; the socket, down, asked to subscribe or live; `KALSHI_FILL_GAPS` |
| `seen`, `hundredths` | `KalshiFills.seen`, `KalshiFills.hundredths` |
| `task`, `page` | the reconcile task, holding the gate unless `idle`; the rows it has read |
| `outbox[p]`, `told` | the lines the socket loop and the task have yet to send; the engine's cumulative counts |
| `claims`, `counted`, `overlooked` | history only: how often a trade was counted; the trades a failure counter answers for; those let go with none raised |

Actions: `ReadFrame` (`line`, readable or not), `Drop`, `ConnectFails`, `Subscribe`
(with `spawn_reconcile` from the second time on), `Confirmed` (the venue's: the
subscription takes force, with or without a replay), `Fetch` and `FetchFails`
(`fills_since`), `Merge` (`merge_venue` under the lock), `Send`, and the venue's
`VenueFill` and `ListCatchesUp`.

Abstractions: Kalshi only, since PM-US reports cumulative counts and keeps no sum; a
trade is its number, its quantity is in parts of which `Unit` make a contract (two for
TLC, one hundred in the code); the rate of reconciles and the backoff are choices of
time; a page walk is one read that may repeat a row. A request for a reconcile is
tried in the step that subscribes, and neither waits for the venue's confirmation: a
read may be over before frames flow, and a trade between the two is in neither
(`"window"`). Trades filled before the first subscription are a gap the feed never
reconciles; the model keeps it (`"boot"`).

### MakerExit: state and code

| Model | Code |
|---|---|
| `ord[r]`, `covered` | the venues' order of receipt `r`, whose number stands for its client id; history: contracts closed against a rest |
| `file[l]`, `mem[l]` | the checkpoint of owner `l` and the `State` in memory |
| `mem[l].rest`, `.restKnown` | the rest's `Receipt`, and whether it has a venue id; `.hedge`, `.hedgeKnown` the same of the hedge |
| `mem[l].final`, `.filled`, `.hedged` | the terminal count of the rest, and how much of it is hedged |
| `pc[l]`, `by[l]` | where the task that holds the owner's lock is, and whose it is |
| `latched` | owners that hold back fresh exits of the market (`outstanding_for`) |
| `pass` | `cycle`'s phase, what it has still to plan, the reservations it took, its plans |
| `ledger[r][l]` | rows keyed by receipt and lot (`append_basket`) |
| `swept` | the receipts a clean PM-US sweep at this start covers |

Actions: of the lot, `Placed`, `PlaceRefused`, `PlaceUnknown`, `RecoverRest`,
`LookAtRest`, `ReadPulled`, `Settled`, `SendHedge`, `NoPrice`, `HedgeTaken`,
`HedgeRefused`, `HedgeUnknown`, `AskHedge`, `Book`, `Forget`; `Manage` (the pass or an
event takes an owner up); of the pass, `PassPlans`, `PassTurns`, `Regroup`,
`ChooseGroup`, `PlaceGroup`; `Restart`, which is a crash at any point and the start
after it; and the venues' `Land`, `Fill`, `Expire`, `Age`.

`ExitContract` has five things: the orders somebody answers for, those let go of,
those that may trade, what each traded and what is closed against it. `MakerExit` maps
onto it the rests that owners hold in memory (`Held`), the rests sent and held by
nobody (`LetGo`), the rests in flight or live (`MayTrade`), the venues' counts
(`Traded`) and `covered`. In the contract an order trades only while open, is closed
only when dead and for at most what it traded, is let go of only when all of that is
closed, and is never taken up again: what the checkpoints, receipts and recoveries are
for.

Abstractions: one market; prices, blackouts, attempts, the heal clock and depth claims
are choices; the reservations of a pass are read at once, because only the pass
reserves; book and fill events are one kind of event, which may come at any time. An
error anywhere in `advance` is `Park`: the checkpoint is written and the owner latched.
A checkpoint that cannot be written exits the process, which is `Restart` before the
step.

### Risk: state and code

| Model | Code |
|---|---|
| `exposure`, `released` | `Exposure.by_rel`, `RiskView.released`, closes keyed by relationship and their own `ts` |
| `reserved`, `reservedIoc` | `RiskView.reserved`: the slots of quotes, and `ioc/<order id>` |
| `unread`, `minted` | `hedges_unread`; a hedge is the number of its minting, which stands for its `Instant` |
| `cash` | `Cash`: how many hedges were minted before the reading in force was begun, or nothing to spend |
| `directed` | `RiskView.directed` |
| `live`, `quote` | the orders that may still fill, and `Quoter.resting` with its `count` |
| `owed`, `booked`, `closes` | contracts filled and neither hedged nor sold back; the ledger's open lots; its `unwound` rows |
| `balancePoll`, `ledgerPoll` | the locals of `balance_loop` and of the task of `spawn_exposure_release` |
| `check` | the locals of `assess`, between two of its locks |
| `raced` | history only: what other orders of a slot took from it since it was written |
| `uncharged`, `strays` | history only: the contracts the ledger has been given open that this run's exposure was not charged for, and over all runs, which bounds them |

Actions: a check is `Assess`, `ReadDirected`, `ReadUnread`, `ReadCash` and then
`AllowQuote`, `AllowIoc` or `Refuse`; the engine's `Pull`, `Fill`, `FillIoc`,
`FinishIoc`, `SellBack`; `BookBasket`, of contracts a fill was charged for, by the engine or
whoever completed the leg; `BookUncharged`, of contracts none was (a leg that
`place_and_book` completes of an imbalance the engine never heard of, the second row of a
contested hedge); `SellBackBooked`, the engine selling back an entry whose basket another
writer has booked; `CloseLot`, by anybody; the polls' `LedgerRead`, `LedgerApply` (two steps, as it
writes under two locks), `BalanceAsk`, `BalanceFail`, `SetLiveCapital`, `HedgesRead`;
`CashExpires`; and `Restart`, a crash at any point and the seeding of the next run.

Abstractions: the verdict is a choice (what the caps decide is decimal arithmetic),
and so is the set of quotes a fill's `pull_refused` takes off; classes and topics are
sums over the same contracts as the relationships, moved in the same statements;
every fill has an anchor, so that it mints a hedge; an order is never removed from
`live` by a cancel, since a fill may race it; no two closes of a relationship have one
`ts`, as `closed_lots` needs. Left out: the naked limit, the shadow's cached capital
and dry run, corrections of the ledger by hand, and a ledger that cannot be read at the
start (the code says that the caps cannot be trusted then).

## 3. Runs

| Run | Shows | Bounds |
|---|---|---|
| `hedge` | nine properties under every loss, delay, duplication, reordering, partial fill, halted market, full channel and lost ack; the last is that every obligation is covered or alarmed | 1 maker order of 2 contracts, 3 ids, of which the first may meet a halted market, the second be a sell-back or lose its answer; 398 thousand states |
| `hedge_unnamed` | violation: finding 2 | 3 ids, nothing lost, no backlog |
| `halt` | five properties of the racing halt | a maker, a hedge, a maker-exit order; a signal and a panic; 2 rounds of 2 polls, 2 confirming reads; 1.8 M states |
| `halt_live` | a halt ends the process | 1 round; an entry point of each of the three kinds |
| `halt_sidecar` | violation: finding 3 | one order |
| `kill` | three properties of the owed sweep, and that a halt is proven in the end | a channel of 2, backoff from 1 to 2, 3 halts; 30 thousand states |
| `kill_stale` | violation: finding 4 | a channel of 8 |
| `cancel` | four properties of the parked cancels under the same halts | 2 orders, a channel of 1, 2 sends, 2 refusals, 1 halt; 2.3 M states |
| `fills` | seven properties of the feed under every fault | 3 trades on 2 orders, of 3, 2 and 1 parts, 2 parts to a contract, the first unreadable at will, the last slow to be listed; 3 gaps; 462 thousand states |
| `fills_dropped` | violation: finding 1 | the same, with a venue that has no fault |
| `risk` | five properties of the gate's figures | 1 relationship with one slot, a ledger of 1 lot of the other direction; 2 orders of up to 2 contracts, 2 fills, 2 closes, 1 contract opened uncharged, any number of polls and restarts; 1.8 M states |
| `exit` | four properties of the maker exit and that it keeps `ExitContract`'s promise | lots of 2 and 1 contracts, 2 starts; 3 orders one at a time, or 2 for a group, on PM-US, or 2 at once on Kalshi with a cross; 456 thousand states |

Why the bounds are enough. Size two is the smallest that has a partial fill, two
obligations from one order, and a late frame for part of an attempt; three ids
allow h1, h2, h3 of one chain, which the walk of `superseded` needs, or two
obligations with a retry. Two rounds and two polls let a run of empty reads cross a
round boundary and let an accepted cancel precede a refused one; two confirming
reads is the policy's default. Venues are swept independently, so one suffices for
TLC, and the proofs are for any number. Three halts are one in force, one that re-owes
while its sweep is out, and one after; a channel of two is full as soon as a sweep
waits behind a command; two orders are what an amend needs, and two sends and two
refusals let either budget run out first and a late answer name an earlier attempt.
The orders of `cancel` are interchangeable, hence its symmetry; its channel is of one,
so that a cancel finds it full behind any command.
In `hedge` three sets say which ids may meet what beyond a partial fill (`Lost`,
`Halted`, `SellBacks`): each happens to one id of a chain, where a retry can follow
it, and the proofs are for any sets. `Lagging` and `Unreadable` do the same for the
trades of `fills`: the one that completes a contract may not be read, the last one may
not be listed when its gap is reconciled.
Two entry points are what the claim of a halt is contended by; `halt_live` has all
three, and the proofs any number.
The trades of `fills` are the least that have dust from one piece complete another
(3 and 1 parts of one order) with another order between; the third gap is what a
request dropped behind a running reconcile needs. Two lots are what a group, its
incumbent and a share of a partial hedge need; a rest, a hedge that falls short and
the next hedge are three orders. The three scenes of `exit` divide what one instance
would be too large for: a sequence of orders of one lot on the venue that keeps no
client ids, a group of two lots there, and two exits at once, one a cross, on the venue
that does. In `risk`, two orders are what an amend and a fill of the order it superseded
need, two contracts a partial fill, two closes a lot closed in pieces; the lot of the
ledger is held in the direction that the quotes are not, so that both are counted. A
stray (a contract opened uncharged) touches the book alone, which the orders and the cash
do not read: `MCSpec` has it come while no cash is spendable, after which fills, closes,
checks, the ledger poll and restarts go on and no order is placed; the proofs are of `Spec`,
which has it at any time. `MaxIds` (with `Ids`), `Rounds`, `Polls`
and `NeedEmpty`, `MaxHalts`, `Orders`, `Trades`, `MaxGaps`, `MaxReceipts` (with a scene's
`orders`), `MaxStarts`, `MaxOrders`, `MaxFills`, `MaxCloses` and `MaxStrays` are the only bounds; `Rounds`, `Polls` and
`NeedEmpty` are the code's own, as are `Depth`, `Floor`, `Ceiling`, `MaxRefusals` and
`MaxSends`, here at small values.

Deadlock checking is off for the halt because the process ends, and for the feed,
the exit and the gate because trades, gaps, orders and starts are bounded; it is on for the hedge, the kill switch and the cancels, which never do.

### Properties

Hedge, with the numbers of the invariant in `hedge.rs`:
`LedgerIsTheHedge` (I2), `NakedIsTracked` (I3), `ObligationsCoverFills` (I4),
`CreditsAddUp` (over a chain, credited = booked + alarmed),
`OverHedgeNeedsSkippedAttempt` (the only way to an over-hedge),
`HeldFillIsReplayed`, `RetiredIsFinal` (action properties), `NakedNeverSilent`
(liveness). `AnswersForFills` is the refinement of `HedgeContract`, which is proved and
which no run repeats (section 4). The contract's
`traded` is what the venues have filled of an obligation's attempts, before the engine
hears of any of it, so that a `Trade` is a venue's step and a `Settle` an engine's;
an obligation is `blind` once one of its attempts was queued past an earlier one that
had filled and had no venue id, and only then may more trade for it than it owes.

Sweep and halt: `CleanIsProof`, `UnconfirmedHidesNothing`, `OneOwner`,
`CleanExitLeavesNothing`, `NoneSlipsOut` (action property), `HaltEnds` (liveness).

Owed sweeps and cancels: `NeverStacked` (at most one sweep is at large at a venue that
had none when it was last owed one), `OwedUntilProven`, `OfferedOnlyInForce`
(action property), `HaltIsProven` (liveness: a halt in force is proven by a sweep that
began in it, and not merely owed nothing; of a stop with no sweep at large);
`NoneForgotten`, `NewestIsAnswered` (a cancel is due again only once its newest attempt
is answered or overdue), `HaltedOwesEveryQuote`. The conditions `alone` and `apart` are
the code's own limits: a halt that re-owes a venue while a sweep is at large loses the
interlock and may lose the proof (finding 4).

Fill feed: `CountedOnce` (once for each identity of a trade that is spent, and only
if it executed), `TotalsAreSums` (flooring happens once, on the sum),
`NeverPastVenue` (with the one exception that foreign identities leave),
`FrameShutsOutRows` (why that exception needs the row first; action property),
`LossIsAccounted`, `BankedIsTold` (no whole contract is banked and left untold).

Maker exit: `BookedExactly`, `NeverBeyondOpen` (booked and still held of a lot never
exceed the lot), `UncertainIsLatched`, and `KeepsPromise`, the refinement of
`ExitContract`.

Risk gate: `ReservationIsTheQuote` (a slot holds what its quote has left, less what
superseded orders raced away, and an IOC what of it may still fill),
`HedgeCashCounted` (a hedge the check does not charge was minted before the balance it
spends was begun), `ExposureIsTheBook` (the exposure is the open lots and what is
filled and not booked, plus the closes no poll has applied, each of them once: never
more, and less by no more than the ledger opened uncharged since the start),
`NettingHidesNothing` (what a check counts in a direction and in both is at least what
is held there, but for the same). The gate is charged by the engine's fills and by the
start only, while every writer of the ledger opens rows and every close is released: a
contract opened uncharged is not counted, and its close, floored at zero, is taken out of
what was charged for others. The two properties bound what that costs.

### Fairness

`Hedge`: weak fairness of the tick of an obligation and of the alarm's horizon:
the hedge interval is polled by the `biased` loop after at most `FEED_BUDGET`
feed messages, and clocks move. No venue, feed or executor is fair.

`Halt`: weak fairness of an entry point's next step and of a sweep's: every wait in
them is under a deadline (QUIESCE_BUDGET, SWEEP_BUDGET, HALT_LOSER_WAIT) or is
a venue call abandoned by one. A place on the wire, the engine and the executors
are not fair.

`KillSweep`: weak fairness of the engine's tick, of the engine hearing its answers
and of the executor, which are loops; strong fairness of a tick that finds room in
the channel, since it drains at the venue's rate limit and a tick is not always
the unlucky one; strong fairness of a sweep that verifies, since a venue asked
again and again answers in the end. The file and the feed are not fair.

`Fills`, `MakerExit` and `Risk` state no fairness: a reconcile may fail for ever by design,
an exit in doubt on a venue that never answers stays in doubt, and a gate whose polls
fail refuses.

## 4. Proofs

All proofs are for any constants allowed by the modules' assumptions. Every
invariant and every action property that a passing run checks is stated by a theorem
of these modules, and so are the refinements of `HedgeContract` and `ExitContract`; what
stays with TLC is named at the end of this section. A model is never bounded by `CONSTRAINT`, so what is
proved of `Spec` is of the specification that the runs check.

**Sums and counts.** The provers cannot instantiate an induction, so what a fold yields
for every input is out of reach as such. The modules need less: that a sum over a set
with one element more is the sum and that element. `SumProofs` gets it from what
`SumFunctionOnSet` is defined by, a function on the subsets of its set, and replaces each
induction by a smallest counterexample: of the subsets of a finite set for which a claim
fails, one that contains no other, from which taking an element away leaves none that fails.
From it: sums are natural numbers, equal for equal summands, split over disjoint
sets, and move by what one summand moves. Where the models count the elements of a
sequence, they count its indices (`Outstanding`), and `KillSweepProofs` says what
appending, concatenating and taking the head off do to such a count.

`HedgeProofs` proves `IInv` inductive: TypeOK, `IdsAreFresh` (ids are used once and
in order, nothing is booked before an obligation is minted: without it a mint
could overwrite a live obligation), LedgerIsTheHedge, NakedIsTracked and
NeverAheadOfVenue. The ledger's invariant needs the pending one, because what a
frame books depends on whether its obligation is pending, and the venue's because a
credited count must be one the venue reached. From it: `TypeCorrect`,
`LedgerCorrect`, `NakedTracked`, `NeverAhead`, and `RetiredForGood` for the
action property RetiredIsFinal; `HeldFillsAreReplayed` for HeldFillIsReplayed.

Two more invariants stand on it. `Books` says that the credits of each chain add up to
what is booked and alarmed, that an attempt is of an obligation that was minted, and that
nothing pending is over-hedged: `CreditsBalance` and `FillsCovered`. `Attempted` is why an
over-hedge needs a skipped attempt. An attempt is *backed* if, unless one of its
chain was queued past a filled one without a venue id, all that its predecessors
filled has been credited and what it asks for fits in what is left. Every
attempt the venue has taken is backed (`PlacedBacked`), and so is every one in a queue
whose predecessors the executor will find accounted for (`QueuedBacked`); this holds
because a command is queued once (`QueuedOnce`), a venue fills no more than it was
asked for (`WithinQty`), and each predecessor is asked about or named as
skipped (`AllAsked`). From it: `OverHedgeIsSkippedAttempt`.

`HedgeAnswersForFills` is the refinement of `HedgeContract`, for any losses, delays and
backlog. Its invariant is the one just described (`OInv`), with `PassedOwn` (an attempt
is queued past earlier ones of its own chain only, so that a step of one obligation
makes no other blind) and `AlarmedMinted` (no alarm is raised for an obligation that
does not exist). The steps fall in kinds: a maker's trade is a `Sell`; a command served
moves the venues' fills of one attempt at most, hence a `Trade` of its obligation or a
stutter, and `OverHedge` is why it stays within what is owed unless blind; a credit to a
maker order is an `Owe` of a fresh id or a `Forgo`; a credit to a hedge is a `Settle`,
which adds no more than what has traded because the credits of a chain add up to what is
booked and alarmed and none exceeds its attempt's fill; a tick is a `Chase` of an
obligation that is pending, hence naked; the rest are stutters.
Before the proof, TLC found no error with `AnswersForFills` among the properties of
`MCHedge.cfg`; it is not among them because it more than doubles the time of that run.

`HaltProofs` proves first, for one sweep, that a run of empty reads confines what rests
to what landed since its first read (with what `listed` may still show), as
lemmas about each step under any environment that only lands and removes orders.
The halt's invariant uses them with: the latch precedes every claim, the claim has one
owner, every command in an executor is counted exactly between `enter` and the
drop of its guard, and a place that reached the wire before the latch makes the
quiesce find it. From that: `TypeCorrect`, `OneOwnerOfTheExit`,
`CleanVerdictIsProof` and `CleanExitIsClean` (both assume `NeedEmpty >= 2`, the
default policy: one read is not enough, and a mutant shows it), and
`NonePastTheLatch`. `UnconfirmedIsNotHiding` needs `HideInv` besides: an order is in one
place on its way (`SentOnce`), and one that has rested is not on its way to land again
(`LandsOnce`), so nothing that an accepted cancel-all was shown and removed comes back
under the verdict that could not confirm it.

`KillSweepProofs` proves `TypeInv` and, with it, `ProofInv`: from a stop with no
sweep at large, any sweep then running began in this spell, any verified answer not
yet heard comes from one that did, and an entry no longer owed has been proven. From
them: `TypeCorrect`, `OwedUntilItIsProven`, and `OffersOnlyInForce`. `StackInv` says
that after a halt which found no sweep at large, as many sweeps are at large as the
entry's interlock says, none or one: an offer sets it with the sweep it queues, and an
answer takes both away. From it: `SweepsNeverStack`. The lemmas say what an offer and a dispatch leave in the channel;
they hold for commands of any set, so that `CancelProofs` can use them.

`CancelProofs` proves `CancelInv` inductive: types, `RunsItsHead` (a sweep that runs is
the head of the channel), `QueueInv` (a place is queued once, before its order is
anywhere, and while the order is remembered; a cancel is of an order that reached
the venue), `AnswerInv` (a cancel's success is of an order that is no longer there),
`VenueInv`, `HaltInv` and `NoneForgotten` itself. The last needs the rest because an
order is remembered long before it rests, and is forgotten only on an answer that
was true when it was sent and must be true still. From it: `NoneIsForgotten` and
`HaltedOwesThemAll`.

`NewestInv` counts each attempt of a cancel in the channel and among the answers. An
attempt is in play at most once; none is of a number its park has not reached, nor of
one that was reached and has been answered (`AttemptInv`). That holds because a park
starts anew only for an order leaving the record, of which no attempt was ever made;
because an order is acknowledged once (`AckInv`), so that the cancel sent on its ack is the
first; and because each dispatch sends one attempt of an order at most, numbered after
the newest. `ParkInv` keeps every park within its budgets, and so the numbers in the
channel (`RangeInv`). From it: `NewestAttemptIsAnswered` and, with the histories'
`CounterInv`, `CancelTyped`.

`FillsProofs` proves `IInv` inductive: types, the frames, rows and pages are of trades
that executed, `CountedOnce`, `MergedIsSettled` (once a merge has let the task go on to
send, every row of its page is counted or answered for) and `Tracked` (a trade not
counted is on its way, answered for or let go, which is `LossIsAccounted` said of every
state of the feed and not only of one at rest). `GateHeld` (the task is sending
exactly while it has lines) is proved by itself. From them: `FeedInvariant`,
`NoTradeCountedTwice`, `NoSilentLoss`. `FeedInv` adds TypeOK and `SumsInv`: a
running total is the sum of the trades counted for its order, each as often as it was
counted (`TotalsKept`); no order is told beyond its whole contracts, now or by a line on
its way (`ToldBounded`, `LinesBounded`); and one that is behind has a line on its way that
tells it all (`AllTold`). A merge claims its rows oldest first, which is why its last
moving line tells the total. From it: `FeedSums`, `FeedTyped`, `TotalsAreTheSums`,
`BankedReachesTheEngine`, `NeverPastTheVenue` and, for the action property
FrameShutsOutRows, `FramesShutOutRows`.

`MakerExitProofs` proves `IInv` inductive: types; `Money`, which says that files agree
with memory where it matters, that orders and exits point to each other, that a rest
has one owner and no hedge is stray, that what a task is about to do fits its exit, and
that an order let go of is dead and closed; `UncertainIsLatched`; `ReservedOnce`; and
`PlansOK`, that a planned lot is in no exit until its group is placed. Each action's
lemma says what it does to one owner and one order; shared lemmas carry the rest. From
it: `ExitInvariant`, `NothingHedgedTwice`, `NothingLeftBehind`, `NoLotInTwoExits`,
`UncertainHoldsMarket`. `ExitKeepsPromise` is the refinement: the initial states begin
the contract, and every step of a state in `IInv` is a move of it or a stutter. It
needs the invariant because a hedge that lands must find its rest dead and still held,
and an exit that is let go of must have had its fills closed.

`BookInv` is the maker exit's books. Members are laid out one after another, so a
member's share of a hedge is what of an interval of contracts falls on its own, and the
shares of all add up to the hedge. Of each exit, what is booked for hedges it has counted
is every member's share of them, and of the hedge under way each share is booked whole
or not at all (`BooksOK`): that is what makes a booking repeated after a crash find the
keys it wrote. Of an order let go of, all it filled is booked (`LetGoBooked`). A lot has
room for what its exit still holds of it (`RoomHeld`) and for what a plan would take
(`RoomPlanned`): a plan reads a ledger on which other exits write, but no other exit
holds that lot. From it: `ExitBooks`, `ExitTyped`, `BookedOnce`, `LotNotOversold`.

`RiskProofs` has an inductive invariant for each of three figures. `CashInv` says of a
reading that is asked for, installed or in force that every hedge minted after it was
begun is still charged, in the set and, once a check has read the set, in what it read:
the order of the check's two locks and of the poll's two writes is what it rests on.
From it: `CashSafe`. `ReservationInv` is `LiveInv` (orders that may fill have distinct
ids, all placed), `SlotInv` and `IocInv`; it needs the ids because a fill finds its
quote by id and its reservation by slot. From it: `ReservationSafe`. `GateInv` is
the exposure and the directions. Closes are told apart by their time, and none is
released that never was (`ClosesOK`); a reading of the ledger has every close that was
released by then, and what was open then is open still or closed since
(`LedgerPollOK`); the directions never run ahead of the releases (`DirectedOK`); and
while a check runs the exposure it has read only falls (`CheckOK`), which is what lets it
read the directions under one lock and the exposure under another. The book is kept
between two bounds (`Agrees`): an open row that was charged moves neither, one that was
not raises `uncharged` with the book, and a release floored at zero takes no more from the
exposure than the close takes from the book. From it:
`ExposureSafe`, `NettingSafe` and, with the other two, `RiskTyped`.

Model-checked only: the liveness properties `NakedNeverSilent`, `HaltEnds` and
`HaltIsProven`, because fairness and ENABLED are out of the prover's reach; and the four runs
of section 5, whose point is a counterexample. The type invariants of `Halt` and `KillSweep`
are proved for every instance and no run repeats them.

## 5. Findings

1. A reconcile asked for while another holds the gate is dropped as covered by it,
   but the holder may have read already and be merging or sending. The trade of the
   gap is then in no rows, no frame and no counter (`fills_dropped`).
   `LossIsAccounted` names the other three ways a trade is let go silently: one filled
   before the first subscription is in force, one the list does not show yet when it is
   read, and one filled between the read and the moment a later subscription takes
   force. Of the last the comment in `kalshi_fill_feed` (`fills.rs:951`) has "the read
   then covers [process start, now] while the socket covers [subscribe, ...], and the two
   overlap"; they do only if the venue acts on the subscription before it serves the
   list, which nothing in the code waits for.
2. `superseded` treats an attempt without a venue id as harmless, but its choice is
   made when the retry is queued. An attempt still queued or on the wire then is
   skipped, placed afterwards, and the retry is placed unverified behind it: one
   obligation, two hedges, with nothing lost (`hedge_unnamed`).
   `OverHedgeNeedsSkippedAttempt` bounds it: no other history leads to an over-hedge.
3. The maker exit places on the sinks without reading the latch, against the doc of
   `Halt`: an order can land after the sweep has proved the book empty and the exit
   code is 0 (`halt_sidecar`).
4. A sweep in flight when a second halt re-owes the venue can still discharge the
   new entry with its late success, which `on_sweep_result` does not tell from a
   current one. The sweep queued behind it may then fail, and its refusal finds no
   entry to keep: the halt is in force with nothing owed, nothing at large and no
   proof of the book, against that function's doc (`kill_stale`). If the old sweep is
   refused instead, its answer clears the interlock of the new entry, and after the
   backoff a third sweep is queued behind the second. `OwedUntilProven`, `HaltIsProven`
   and `NeverStacked` say when the code is right: no sweep at large at the stop, or at
   the halt.

Noted without a run:

- A retry asks only about the latest named attempt (`sink.rs:519`, the doc of
  `prior_attempt`). After finding 2 an earlier named one can have filled unseen while a
  later one answers for the chain.
- A hedge held by its executor, or queued behind a long command, when the outcome of a
  halt is taken is in no count (`exec.rs:447`): exit 0 with a half-done position.
- `checkpoint` in `maker_exit/lot.rs` exits 19 without a sweep, while `main.rs` says
  every other way out of the process sweeps.
- The doc of `KALSHI_RECONCILE_REJECTED` (`fills.rs:428`) says that a count doubles
  only with a mismatch of identities and a replay together. A frame still in flight when the
  row is merged does it without a replay; `NeverPastVenue` allows exactly that case.
- A PM-US hedge whose answer is lost, or whose receipt is saved and the process dies
  before the place, leaves its exit latched for good: `recover` never gives a hedge up.
- A fill of a superseded order takes from the reservation of its replacement, as
  `fill.rs:425` says of itself; `raced` counts by how much, and `ReservationIsTheQuote`
  shows that nothing else makes a reservation less than its quote.
- A leg that `place_and_book` completes (`positions.rs:907`) is appended without
  `record_open`, and no poll adds an open row to the exposure; only the next start does.
  Until then it is held and not counted, and once closed it makes room that contracts
  charged for others still fill. `release_closed` (`risk.rs:961`) floors the exposure so that
  such a close cannot hand out "headroom that does not exist"; the floor keeps it from
  doing so below zero only. `ExposureIsTheBook` bounds it by what was opened so.
- A hedge minted before a balance reading and traded after it is in neither the charge
  nor the cash. `risk.rs:38` says so; `HedgeCashCounted` is about the ones after.
- `outstanding_for` is read before the owner's lock is taken, so a fresh exit may still
  be placed just after another lot of the market latched.

## 6. What the properties assume

That the venue's fill counts only grow, that a client id is never reused across
orders, that the ledger file is written only through `ledger.rs`, and the two venue
assumptions of section 2. `Cancel` adds that the quoter
drops a quote for a fill only when the venue has filled it whole, and that a
cancel's success means that the order is gone.

`MakerExit` assumes of the venues: an explicit rejection (400, 401, 403, 404, 422, 429
or a halted market) proves that nothing was accepted; after `ABSENT_IS_PROOF_AFTER_S` a
request has landed or never will, and Kalshi's list shows what landed; a request of a
dead process lands before the sweep of the next start or never; an immediate-or-cancel
order trades once, when it lands; a terminal count is final. The comments in `lot.rs`
rely on each. That the sweep at the start is clean is not assumed.

## 7. Not modelled, and why

- **What the risk gate decides.** `check_order`, the class, topic and tail caps and the
  sizes they leave are decimal arithmetic over prices, fees and capital. `Risk` models
  the figures they are given, not the verdict.
- **Restart census** (`orphan.rs`), **reconciliation and the completer**
  (`positions.rs`, `naked_act.rs`). They match intents, ledger rows and positions by
  market and size; what they decide depends on files and venue reads that would be
  modelled as arbitrary, so that a model would show little of them. Of the completer
  `Risk` has the row it appends (`BookUncharged`). `MakerExit` models
  the one restart whose state is a checkpoint.
- **Stand-off of the two exits.** The taker exit (`unwind.rs`) and what it and the
  maker exit publish to each other; `MakerExit` has no second exit.
- **Torn ledger lines.** The bytes of a line are below the model, where an append
  happens or fails whole; `ledger.rs`'s tests cut a file at every byte.
- **PM-US fill feed.** Its frames are cumulative, so the order's own maximum is all
  its state, and that is `Hedge`'s `mcum`.
- **Data and I/O.** Prices, fees, slip and edge arithmetic (the outcome of each
  comparison is a choice), formatting and logs, HTTP, signing and parsing (they appear
  as the venue's possible answers), books and quoting (pinned by replay goldens), the
  recorder and its broadcast, reports and gauges, offline tools and the Python
  predecessor.

## 8. Plan

Done: `Hedge`, `HedgeContract`, `Sweep`, `Halt`, `KillSweep`, `Cancel`, `Fills`, `ExitContract`,
`MakerExit`, `Risk` and their proofs.

Next, in this order:

1. `Restart`: census, adoption and the interlocks with the completer, composed with
   `Hedge`'s obligations.
2. More of the code under the models that stand: the stand-off of the two exits in
   `MakerExit`, the completer's interlock beside `Hedge`.

Bounds as above: two or three orders, one or two venues, one crash, queues of two.
