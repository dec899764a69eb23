# TLA+ models of archer-market-maker

Paths are relative to the repository root; line numbers are those of the
commit the models were written from.  `PROJECT.json` lists the components, the
runs, the map from definitions to source lines, the hazards and the theorems.

## 1. The system

The bot quotes on one maker book of the Archer program on Solana.  One process
(`archer-market-maker run`) holds four long-lived tokio tasks, one short task per
transaction, and a block of atomics they share.

| Component | State it keeps | Operations | Talks to |
|---|---|---|---|
| engine, `src/engine.rs` | `local_seq`, `last_structure_hash`, `last_sent_mid_ticks`, `last_sent_at_us`, `needs_initial_book` | one cycle per notification or heartbeat; breaker pause; final clear | reads shared state, calls strategy, instruction builder, sender |
| strategy, `src/strategy.rs` | none | `compute`: clear, mid only, full, or nothing | engine |
| quoting instructions, `src/archer/quote.rs` | none | price to ticks, book update, numbering of instructions | engine, operator commands |
| transaction sender, `src/tx.rs` | blockhash cache, `consecutive_failures` | `fire` (spawned), `send_now` (awaited) | RPC node |
| account stream, `src/fills.rs` | subscriptions | `run_once`, `handle_account`, reconnection, fill counters | writes mid, balances and sequence number to shared state |
| price feed, `src/feed.rs` | connection, quotes of both legs | connect, read, `handle_tick`, reconnect | writes price, timestamp, volatility; notifies the engine |
| volatility tracker, `src/volatility.rs` | ring buffer | `push`, `realized_vol` | feed |
| shared state, `src/state.rs` | atomics, one `Notify` | loads and stores | all of the above |
| run and shutdown, `src/main.rs` (`cmd_run`) | the cancellation token | fetch the book, spawn, wait for the first price, Ctrl+C, join | all of the above |
| operator commands, `src/main.rs`, `src/archer/client.rs` | none; one process each | init, deposit, withdraw, kill, set-expiry, set-delegate | RPC node, confirmed sends; the bot only through the book |
| listing and status, configuration | none | read-only | |
| Archer program and network (external) | the book account | take or refuse a write by its sequence number; matching | |

How they interact.  The feed and the account stream write the shared atomics
cell by cell, with no lock.  The engine reads them and decides; nothing comes
back from a fired transaction except the failure counter, so what became of a
write is known only through the account stream, late, possibly out of order, and
with gaps whenever the subscription is renewed.

What is hard:

- *ordering*: transactions are answered, forwarded and executed in any order;
  the sequence number alone decides what survives;
- *unreliable delivery*: a write may be lost without a trace, a frame of the
  account stream may be lost with its subscription;
- *stale state*: the engine judges the book by `cached_mid_ticks`, its own last
  sent mid and its own last hash, each of which can be wrong;
- *crash and restart*: writes of the old process land after the new one has
  fetched its number;
- *interleaving*: three price cells and four account cells stored one by one
  while the engine reads; a notification that arrives during a cycle; every send
  in line for one lock that is held across an RPC call;
- *two writers*: an operator's command takes its number from the book and races
  the bot's own writes;
- *what the bot does not compare*: its structure hash speaks of what it wants, not
  of what takers have left, and mid updates carry sizes cut for another price;
- *liveness*: the emergency clear, the breaker's reset, the shutdown, the feed's
  end and the renewed subscription all depend on retries and timeouts.

What makes each component correct:

- engine and sender: decisions take effect in the order they were made; a
  repricing write is never out of the program's reach; a refused write is a
  superseded one; the mid settles on the price, and a book that has it or is about to
  get it is left alone; a silent feed empties the book;
  the breaker closes again; Ctrl+C ends the process with an empty book;
- strategy: the ladder it is content with is backed by the quote;
- sender: one RPC call for any number of sends, no old hash, no send stuck;
- account stream: caught up means exact; sequence numbers never go back and never
  run ahead of the book; a mixture of two frames does not last; the subscription
  comes back;
- feed: no tick is slept through; a synthetic price belongs to one moment;
  price and volatility belong to the same tick as soon as it is complete; the token ends the
  task;
- volatility tracker: the walk is the last samples in order;
- operator commands: done at most once, refused only when overtaken, whatever the locked
  balances they read were settled at; a revoked delegate and a kill end all quoting; the bot's counter
  survives the second writer.

## 2. Modules

```
PriceScale                prices and volatilities (constants)
 ├─ Quoting               what a cycle wants: strategy.rs, quote.rs
 │   └─ ArcherProgram     the book account, transactions in flight (external)
 │       └─ TxSender      tx.rs
 │           └─ AccountStream        fills.rs, account half
 ├─ PriceFeed             what the feed promises the engine
 │
 DecisionOrder            what sequence numbers are for, without the numbers
 Engine                   engine.rs; EXTENDS AccountStream and PriceFeed
  └─ MarketMaker          cmd_run: all of them, the environment, Spec, FairSpec
      └─ MarketMakerProperties        properties; implements DecisionOrder (INSTANCE)
          ├─ MCMarketMaker            TLC instances
          ├─ MarketMakerProofs        theorems
          └─ OperatorCommands         main.rs, client.rs: commands next to the bot
              ├─ MCOperatorCommands
              └─ OperatorProofs       EXTENDS MarketMakerProofs as well

Volatility                volatility.rs
 └─ Feed                  feed.rs, store by store
     └─ PriceHandoff      Feed and the engine's reads; implements PriceFeed
         ├─ MCPriceHandoff
         └─ PriceHandoffProofs

SeqView                   what the stream promises of sequence numbers
 └─ AccountView           fills.rs and the engine's loads; implements SeqView (INSTANCE)
     └─ AccountViewProofs

HashCell                  the blockhash cache in one step
 └─ BlockhashCache        tx.rs: two looks, two locks, a call; implements HashCell
     └─ BlockhashCacheProofs

Ladder                    strategy.rs: sizes of the levels between full updates
 ├─ MCLadder
 └─ LadderProofs
```

The two halves meet in `PriceFeed`.  `Engine` is written against it: a tick sets
price, volatility and freshness in one step.  `Feed` stores them one after the
other, and `PriceHandoff` shows that what it does implements `PriceFeed` under
the refinement mapping `PriceSeen`, `VolSeen`, `FreshSeen` (a tick counts from the
moment `handle_tick` starts).  `PriceFeed` by itself takes any volatility with any price, so
`KeepsPromise` adds that the window `VolSeen` was computed from ends with `PriceSeen`.  What the engine
reads in the middle of a tick is outside the mapping and is `NoTickSleptThrough`'s subject.

`DecisionOrder` is what the engine, the sender, the stream and the program promise together:
decisions are made one by one, travel on their own, vanish or take effect, and take
effect in the order they were made unless the engine has started to count anew in between.
It knows no sequence numbers, no stream and no processes.  `KeepsOrder` maps the bot to it:
the transactions that may still land are the pending decisions, `applied` is the one shown, the
book's levels are the levels.  So a crash is a step in which decisions vanish, a restart or a
reset of the counter one that starts to count anew, and everything else a stutter.

`AccountView` and `AccountStream` stand in a similar relation: the second handles a frame
in one step, the first store by store.  What carries over exactly is the sequence number
(`SeqView`); the other cells can be seen mixed, but by `ViewHeals` not for long.
`BlockhashCache` is what happens inside a call of `TxSender`'s `Fire` before
the transaction leaves; to the engine it is a task that takes its time and may fail.

### State and actions

- **ArcherProgram**.  `book` is the account (kind, `last_updated_sequence_number`,
  mid, levels, balances; `slot` orders its changes).  `flight` is the set of
  transactions a leader may still execute: `Lands`, `Refused`, `Lost`.  A write is
  taken when its first number lies in `last + 1 ..= last + MaxJump` (README.md,
  "Program v2").  `applied` is history: which decision landed last.
- **TxSender**.  `tasks` are the calls of `build_and_send` that have not returned,
  `failures` is `consecutive_failures`.  A send that fails may have been forwarded.
- **AccountStream**.  `frames` are account states on their way, `cachedMid`,
  `invSeen`, `onchainSeq` the cells `handle_account` writes.  `missed` is
  history: the account's last change is on no frame that was or will be handled.  A frame
  that does not decode changes no cell (`SkipsFrame`, in the bot `AccountUnreadable`).
- **Engine**.  `pc` says where the task waits: `starting` (the 15 s wait for a
  price in `cmd_run`), `loop` (the `select!`), `backoff` (the breaker's pause),
  `closing` (`send_now` of the final clear), `done`, `down` (no process).  Each
  action is one way a cycle ends:

  | Action | Cycle |
  |---|---|
  | `EnginePullsStale` | price too old: ClearBook |
  | `EngineTrips`, `PauseEnds`, `PauseCancelled` | breaker open: ClearBook, pause, cancelled pause |
  | `EngineIdles` | nothing to change, or the mid is on the book or on its way |
  | `EngineReprices` | `UpdateMidPrice` only |
  | `EngineRequotes` | full update, one instruction or two |
  | `EngineClears` | nothing to quote, or the price cannot be expressed |
  | `EngineCloses`, `EngineReturns`, `CloseTimesOut` | the cancel branch |

  `needs_initial_book` is not a variable of the model: it is set and reset
  together with `last_structure_hash`, so it says the same as hash 0 (`NoLevels`).
  `decided`, `era` (resets of the counter) are history, `repeats` serves a bound.
- **MarketMaker** adds the process (`StartEngine`, `StartTimesOut`, `CtrlC`, `Exit`,
  `Crash`, `Restart`), the environment and the fairness.  `Exit` and `Crash` drop the
  tasks that are still sending, as leaving the runtime does; what is in flight
  stays in flight.
- **Feed** has one action per await or store of `run_feed`; `link` is the place in the
  connection loop, `step` the next store of `handle_tick`, `permit` the stored permit
  of `price_notify`.  **PriceHandoff** adds `reader`, the engine's reads: the
  timestamp twice (`FindsFresh`, `FindsNone`, `FindsStale`, `FindsNoneStill`), price, volatility.
- **Volatility** is the ring buffer with its `head` and `count`; `samples` is history.
- **OperatorCommands** adds to `MarketMaker` one command at a time: `step` is where its
  process is, `order` the transaction it signed, `tries` what is left of `max_retries`.
  `Gives` reads the book and signs, `Submits` and `Confirms` are
  `send_and_confirm_transaction`, `AttemptFails` each of its errors.  Orders on their way
  (`onWay`) land, are refused or lost next to the bot's writes; `processed` are signatures
  the chain knows, `executed` is history, `authorised` the book's delegate.  `split` is what the
  account shows as `mid_at_last_sync`, `base_locked` and `quote_locked`; `ProjectedLocked` is
  `projected_quote_balances`, `PendingReprice` and `HasResting` are what `withdraw` decides
  by, `Withdrawn` what it takes.  Every step
  of the bot is a step here (`BotRuns`), except that a write of a revoked delegate fails.
- **AccountView**: `link` is the await `run_fills` is in, `frame` and `unstored` what
  `handle_account` still has to copy, `unread` and `reading` what a cycle has still to
  load and what it got, `acted` what the last whole cycle used; `cell` are the atomics.
  `missed` is history: the account's last change made no frame, or one from before it was
  handled after it.
- **BlockhashCache**: `phase` is where each call of `get_or_refresh_blockhash` is, `held` its
  guard, `queue` tokio's line for the lock (readers and writers in order of arrival).
  `Impatient` are the callers whose timeout may drop the call, as the final clear's does.
- **Ladder**: `book` is what each level still has and the price it lies around; `hash` is
  `last_structure_hash`.  A cycle `Clears`, `Keeps` (mid update or nothing) or `Requotes`;
  in between prices and spreads move, takers eat, funds come and go.

Operators whose comment begins "Faulty variant" are used by no specification.
Each is a plausible mistake in the definition that follows it, listed in
`PROJECT.json` under `mutants`: with it in place TLC refutes the property that
is meant to notice.

### Abstractions

- Prices are tick counts.  A book's sizes are a class (`Quantized`), 0 when every
  level rounds to nothing; the structure hash is the structure itself, so hash
  collisions are out of sight.  `Unpriceable` are the prices `price_to_ticks` refuses,
  `Unbuildable` those a book update refuses (at least the former).
- Whether a lone `UpdateBook` moves the book's mid is the program's business and
  the repository does not say; `UpdateBookSetsMid` covers both.  The theorems hold
  for either, and the passing runs pass with either; `live` takes FALSE, where only
  the engine's own resend corrects the mid.
- A cycle of the engine is one step: it has no await between its first read and the
  `fire`.  That the three price cells can change under it is `PriceHandoff`'s
  subject, that the account cells can is `AccountView`'s.  In `AccountStream`
  `handle_account` is one step.
- `AccountView`: all accesses are `Relaxed`, so the stores of a frame and the loads of a
  cycle happen in any order; the stores of one frame are done before the next is
  taken.  The book's number starts at 0, the length of the backoff is left out.
- `OperatorCommands`: a command's fetch and its signature are one step, and the node it
  asks is not behind; a command whose RPC calls fail before it has signed is one
  that was not given.  That a transaction the node confirms took effect is assumed, so nothing
  is stated of what a command reports; one that ends with an error may have taken effect.
  What the levels lock is the program's business: asks lock their base lots (`SizeLots`), bids
  their quote lots at the price they lie at (`QuoteUnit` ticks times base lots make one), and a
  lone `UpdateMidPrice` leaves the locked balances as they were (README.md, "Deferred quote
  rebalancing").  The maker fee in the projection is left out.  A command signs with the owner's key.  A write of the bot that
  is refused for its key leaves no trace, like any other refused one.
- `BlockhashCache`: time is counted in steps of `BLOCKHASH_TTL / Ttl`; a reply carries a hash
  as old as some moment of the call.
- `Ladder`: every write lands at once and the stream is up to date, which is the other
  modules' subject; arithmetic is exact, a price is in quote lots per base lot and levels
  are traded at the mid.  That sizes are cut down to whole lots, and that the mid of a
  one-sided quote is the price, is assumed of `archer-sdk`, which is not in the
  repository.
- After Ctrl+C the engine reads nothing of feed and stream, so both stop at once.  `cmd_run` waits at
  most 10 s for the engine (`main.rs:246`); the final clear is bounded by 8 s and nothing
  else makes the engine wait, so `Exit` takes place only after `EngineReturns` or `CloseTimesOut`.
- The engine of the bot reads the timestamp once.  The two loads of the code can call the first
  price stale when its timestamp is stored between them: `PriceHandoff` has that, in the bot
  it is a stale period that the second tick ends.
- Infinite and NaN prices do not occur: the parser of `feed.rs` rejects quotes that are
  not positive, and the exchange sends finite ones.
- The volatility is represented by the sequence of prices it is computed from.
- Left out: metrics and log counters, `is_heartbeat`, `feed_alive`, `engine_alive`,
  `quote_unfundable` (logged only), shadow mode (sends nothing), what `handle_logs` counts.

## 3. Runs

The runs of the bot, its commands, its feed and its stream set `CHECK_DEADLOCK FALSE`: the
process may stop for good, and after its last restart nothing is left to do.
`blockhash` and `ladder` check deadlock: somebody can always ask, and a cycle always ends.

| Run | Question | Size |
|---|---|---|
| `orders` | MM and LO books, with or without leftover quotes; price moves, a stale feed, a crash at any point and a new process, frames late and in any order: types, sequence numbers, order of effects, refinement of `DecisionOrder` | 1.8 M states, 2 min |
| `live` | a lost transaction, an inventory that sells out and a dropped subscription or a frame that cannot be read: the mid settles on the price, and no mid update is sent that is not needed | 0.17 M, 55 s |
| `stop` | MM and LO books, a price without a tick, stale feed, breaker, Ctrl+C at any point: book empty, breaker closes, process ends; a clear that ends or interrupts quoting has the last word | 0.14 M, 35 s |
| `feed` | two legs, failing connections, stores interleaved with the engine's reads: refinement of `PriceFeed` with a volatility of the same tick, the ring, lost wake-ups, mixed legs, end of the task | 0.6 M, 2.1 min |
| `blockhash` | three senders, one impatient, slow and failing calls: refinement of `HashCell`, single fetch, age of the hash, bounded waiting, no caller stuck | 0.25 M, 1 min |
| `commands` | any two of kill, withdraw, deposit and revocation next to a bot that runs as delegate, with a loss and a retry, and locked balances settled at any mid: once, who is refused, `RevokedKillSticks`, the counter after a foreign number | 1.2 M, 1.8 min |
| `view` | frames in any order or unreadable, failing awaits, closing streams: refinement of `SeqView`, the subscription comes back, cells exact when caught up, the engine comes to act on them | 0.5 M, 1 min |
| `ladder` | MM and LO books, two levels, fills, deposits, withdrawals: the settled ladder is funded | 0.2 M, 5 s |
| `pause`, `dropped`, `jump`, `overtaken` | violations, section 5 | seconds |

Bounds, all named:

- `Budget` (per event): prices ticks, stale periods, failed sends, lost transactions,
  balance changes, dropped subscriptions, Ctrl+C, crashes and restarts.  A
  configuration allows each event the question needs, once or up to three times.
- `MaxSends` (transactions decided on) and `MaxLive` (transactions not yet gone).  The
  safety runs need enough writes for three to race: 4 and 3.  In `orders` a lost write is one
  that stays in flight (a safety property cannot tell), so no losses are budgeted there.  In the
  liveness runs `MaxSends` must never be the reason why the engine stops sending: 12 in
  `live` and 10 in `stop` are above what any behaviour within the budgets decides.
- `MaxRepeats`: clears in a row.  The code fires one per heartbeat while there is
  nothing to quote, which is unbounded; a further one only repeats the same.
  `MayRepeat` lets the breaker's probe through all the same, because it is what
  closes the breaker.
- `MaxJump = 3`, `MaxLead = 2` in the safety runs, so that both limits are reached; the
  code has 65535 and 4096, and the theorems hold for all with `MaxLead < MaxJump`.
- In `stop`, `MaxLead` is above `MaxSends`, so the counter is never reset: the proviso
  `era = 1` of `ShutdownEmptiesBook` excludes nothing there, and `ClearIsLastWord` is about all writes.
- `feed`: `Window = 2`, two quotes per leg, `MaxMoves = 4`: the ring wraps, and
  both legs can be quoted, change, and be quoted again after a break.
- `blockhash`: `Ttl = 2`, `Latency = 1`: a hash expires while calls queue, and a call can
  outlast a tick.  Three senders suffice for one to fetch, one to wait and one to give up;
  `WaitsBounded` is tight there (each of the others is waited for twice).
- `commands`: two commands in a row (`MaxCommands`), each with one retry, and one write of the bot
  next to those of an earlier run; `Inventories` bounds what may be deposited.  One lot a side and
  `QuoteUnit = 2`: a bid at price 1 locks nothing and at price 2 a lot, so a lone mid update
  makes the raw field, the projection and the pending reprice disagree in both directions.
- `view`: two changes, enough for a frame to be overtaken and for one change to fall into the
  copy of another; two values of the balances, one mid, which is stored and loaded like them.
- `ladder`: `MaxChanges = 4` between and around the cycles; prices more than a factor two
  apart, so that sizes of one price are too large for another, and shares of up to four
  quanta, on both sides of `Roomy`.

`live`, `stop`, `pause`, `dropped` set `WindowCoversDelivery`: `MID_RESEND_AFTER` passes
only when nothing sent is on its way, which is what its comment says it is for
(`engine.rs`: "Covers confirmation plus the account subscription's delivery").
`orders`, `jump` and the runs of the commands do without, the resend may come at any time.

### Fairness

Assumed, in `MarketMaker!Fairness`: the engine's `select!` is woken (heartbeat), its
timers fire, every RPC call is answered (the client has a timeout), a transaction
in flight lands or fails, delivered frames are handled, a dropped subscription is
renewed (the retry loop has no limit), `cmd_run` goes on.  In `PriceHandoff!FairSpec`: both
tasks run, connecting and the backoff's sleep return, and the cancel branch of the
unbiased `select!` is taken in the end although messages keep coming (strong
fairness).  In `BlockhashCache!FairSpec`: a caller that can go on is polled and an RPC call
returns (the client has a timeout); nobody is assumed to ask or to give up.  In
`AccountView!FairSpec`: both tasks run, and the node answers a connect or a
subscribe, with a stream or an error.  Nothing is assumed of price ticks, takers or Ctrl+C.

Liveness properties speak of behaviours whose environment settles (`<>[]...`): with
a price that moves for ever no book settles on it.

## 4. Proofs

The six modules named `...Proofs` prove, for all values of the constants that
satisfy the named assumptions (`PriceScaleAssumption`, `QuotingAssumption`,
`NoLevelsAssumption`, `ProgramAssumption`, `StreamAssumption`, `EngineAssumption`,
`MarketMakerAssumption`, `OperatorAssumption`; `WindowAssumption`, `FeedAssumption`;
`CellAssumption`, `NoHashAssumption`, `ImpatientAssumption`, `SendersAssumption`; `ViewAssumption`;
`LadderAssumption`):

- `TypeCorrect` (in three modules), `HandoffTypeCorrect`, `LadderTypeCorrect`: the type
  invariants.  Those of the bot, the feed and the ladder are inductive as stated; those of
  `BlockhashCache` and `AccountView` come with the invariants below.
- `SeqCorrect`: `SeqInv`, from which `JumpCorrect`, `StaleCorrect` and `OrderCorrect` follow.
  None of the three is inductive: they compare live writes with the book only, and say
  nothing of the writes the engine is about to make.  `SeqInv` adds that a write on its way
  carries at most `local_seq` (`Made`), that decisions of one era use disjoint growing
  numbers (`InOrder`), on which side of the last executed write each one lies (`Placed`), that
  a repricing write was within `MaxLead + 1` of the book (`WithinLead`), and that the
  stream's view is never ahead of the book (`ViewBehind`).  The argument is that
  `local_seq` only grows within an era, and every reset starts a new one.
- `OrderImplements`: the bot implements `DecisionOrder`.  `SeqInv` gives the one step that is
  not plain, a write that executes: a pending decision of the era shown carries a number below the
  book's or was made later.  `EngineFires` says of every way a cycle can end that it makes
  at most one decision, with a number of its own.
- `LastWordCorrect`: `ClearIsLastWord`, by `WithdrawInv`: from the breaker's trip or the cancel
  branch on, the decision made last is a clear of the present era, and once it is the one that
  executed, the book is empty.  `SeqInv` refuses whatever else of that era is still on its way.
- `FeedInvariant`: `FeedInv`, which adds to the types that the slots the walk visits are
  filled (`RingFilled`), that `mid_price` holds the tick's price from its store on
  (`StoresInOrder`), and what a reader with no permit pending has read so far (`WakeInv`).  From it:
  `NoTickLost`, `WalkCorrect` (the ring's walk is the suffix of `samples`; its
  step lemma `PushWalk` is the modular arithmetic of `head`), and `FeedImplements`: every
  step of the feed is a step of `PriceFeed` or leaves its variables as they are.

- `ViewCorrect` (`MarketMakerProofs`): `CaughtUpViewIsExact`, by `StreamInv`: no frame is newer than
  the book, and in slot order with nothing missed the book's last change is among the frames,
  or there are none and the cells are the account.
- `PriceCorrect`: `PriceIsMarkets`, by `MarketInv`: while the link is up, what the inbox
  last says of each leg, or else what the task has heard, is the market's quote (`LegsInv`), and
  the price stored or about to be is the rate of what was heard (`PublishedInv`).
- `CacheCorrect`: `CacheInv`, which ties each caller's guard to its phase, finds the
  cache expired while a call is out and nobody else looking or fetching, and bounds the
  age of the cached hash and of one handed out.  From it `FetchCorrect`, `AgeCorrect` and the refinement `CacheImplements`.
- `WaitCorrect`: `WaitsBounded`, by `WaitInv`: the queue holds every waiting call once, and what a
  call has waited for so far and the number of callers before it together stay within
  the bound, once for each of its two queues (`Bounded`).  A caller whose call ends, or who gives up,
  leaves the set `Before(s)` and can only join the queue behind `s` again.
  It needs finitely many senders (`SendersAssumption`).
- `OperatorCorrect`: `OperatorInv` says that a command has one signature, that what
  has executed was processed, and each order once.  From it `OnceCorrect`; and `RevokedKillCorrect`, because after the
  revocation no write of the bot lands, and after the kill nothing but such a write
  could bring levels.  The bot's own steps need only its type invariant.
- `SeenCorrect`: next to a second writer `SeqInv` does not hold, the book's number can pass
  the engine's counter and an old write of the bot can be overtaken by a foreign one.  What is left is
  `SeenInv`: the book's number only grows, the stream's view is never ahead of it and has
  it when it has caught up (`CatchesUp`), and a repricing write lies within `MaxLead + 1` of the book
  (`WithinReach`).  A frame that cannot be read is a gap, so `CatchesUp` is about a stream with nothing missed.
  It suffices for `OperatorJumpCorrect` (`RepriceWithinJump` with commands under way) and
  `FitCorrect` (`QuotesFitCaughtUpBook`).
- `RefusalCorrect`: `RefusedOnlyIfOvertaken`, by `RefusalInv`.  The account's locked balances are what the
  levels lock at some mid, the one they were settled at last (`SplitInv`).  If `base_locked` and the
  projection are 0 and no reprice is pending, that mid is the book's own or 0, at which bids around the
  mid lock nothing: either way nothing is locked before or after settling (`NothingLocked`), and the
  balances taken are free.  So an order fits the book it was read from, with and without
  `ClearBook`, and keeps fitting until the account changes; and one with a `ClearBook` until
  its number is used or its funds are gone (`Fits`).  Without `has_pending_reprice` it does not hold: the
  mutant `HasRestingProjected` is that.
- `NeededCorrect`: `RepricesOnlyIfNeeded`, by `AwaitedInv`: for as long as the last write may still land,
  `last_sent_mid_ticks` is its mid and the window of `MID_RESEND_AFTER` is open, unless a clear has made the
  engine forget the structure, in which case its next write is a full one.  `StreamInv` gives the other half.
- `AccountViewProofs!ViewCorrect`: `ViewInv` orders the numbers (read, cell, frames, book) and
  says which frame holds the account, whatever order they come in.  From it `CaughtUpCorrect` and the
  refinement `ViewImplements`.
- `FundedCorrect`: `SettledIsFunded` by `LadderInv`: no bid is larger than the upper end of what its
  hash stands for.  With the lower end of what the same size stands for at the present
  price, `Roomy` is exactly what is left between the two; the rest is arithmetic
  of products (`Backed`).  With the default 80 per cent it holds from five hundredths of a
  base unit per level on.

Only model-checked: all liveness, whose proof needs ENABLED and fairness.  Every invariant and
every action property of a passing run, and each of the four refinements, is a theorem.

## 5. Where the code and its documentation part

These have a run of expected violation; the counterexample is the trace TLC prints.

- `pause`: cancelled during the breaker's pause the engine returns without the awaited
  final clear (`engine.rs`, the pause's `select!`), and the spawned one is dropped.
- `dropped`: the structure hash is taken over when a full update is fired.  If it is lost,
  later cycles only move the mid; README.md says a dropped update is retried.
- `jump`: the stale and the breaker's clear precede the drift rule, so clears that are lost
  drive the counter past the program's jump; it takes more than 65535 of them, a long
  outage of feed and network together.
- `overtaken`: a kill that loses the race for its number is refused, and its retries send
  the same transaction.

These show in the models too, as the provisos of properties that hold, and have no run of
their own:

- A renewed account subscription starts without a snapshot, so `cached_mid_ticks` can be
  wrong, and a price that returns to the old value is left off the book: `Reprices` and
  `CaughtUpViewIsExact` hold only while nothing is `missed`.
- Mid and balances of a late, older frame overwrite the newer ones, only the sequence number
  is guarded; and a cycle can read the base of one frame and the quote of the next.
  `fills.rs:140` says "Inventory itself is always exact": `CaughtUpCellsAreExact` and
  `ViewHeals` say when.
- When the account stream is late by more than `MAX_LOCAL_SEQ_LEAD` landed writes, the
  drift rule moves the counter behind the book: `StaleIffOvertaken` and
  `LandsInDecisionOrder` hold between two resets, and `DecisionOrder` lets the engine count
  anew.  The clears of the breaker and of the cancel branch precede the resync, but a cycle before
  them may have reset the counter: the final clear can then carry a number the book has
  passed and be refused, which is why `ShutdownEmptiesBook` asks for `era = 1`.
- A bot that is running may quote again after a confirmed kill.  It is the revocation of the
  delegate together with the kill that ends quoting: `RevokedKillSticks`.
- A fill that changes no quantized share leaves the structure hash as it was, and the eaten
  level is not refilled: `SettledIsFunded` bounds the sizes from above only.
- The changelog's price deviation breaker (`CHANGELOG.md:43`) is not in the code.

## 6. Not modelled, and what could come next

Not modelled:

- `markets` and `status` (read-only output), `config.rs` (parsing; the bounds it checks are
  assumptions of the modules), encoding of instructions, which is `archer-sdk`'s.
- `init`, `set-expiry`, `set-delegate` with a key: one confirmed send each, of which
  `OperatorCommands` has the sending; what they change, nothing else here reads.
- `handle_logs` and `record_fill`: counters and log lines that nothing decides by.
- Floating-point errors of the strategy and of `realized_vol`, and collisions of the
  structure hash: TLC's integers do not hold 64-bit words, and the products of the hash
  are what a collision is about.
- The rate of attempts of `run_feed` when a subscribe message cannot be sent (`feed.rs:94`): time is
  abstract.
- A cross leg that has gone silent (`feed.rs:119`): the model's exchange reports
  every change, as the code takes it to.
- A start that ends before the engine exists (`main.rs:227-233`): it is modelled, but nothing is
  promised for the quotes it leaves.

Next, if the code grows: the level prices of `Ladder` with the volatility multiplier, once the
rounding of `archer-sdk` can be read.
