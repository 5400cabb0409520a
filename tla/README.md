# A TLA+ model of JustQiu

JustQiu is a payment platform: it takes QRIS deposits for its tenants (a tenant
is a *toko*), pays out their settled money, and gives their players access to
the NexusGGR game platform. The repository holds an HTTP API (`apps/api`), a
worker (`apps/worker`), the crates they share and a Vue dashboard (`apps/web`).
Money moves in two databases that know nothing of each other, PostgreSQL and
Redis, and between three companies (the QRIS vendor, NexusGGR, the toko) that
call and are called over HTTP. The modules here model how that is kept
consistent.

## Inventory

| component | code | state | operations | hard because | correct when |
|---|---|---|---|---|---|
| QRIS worker | `worker/jobs/process_qris.rs` | `transactions`, `balances`, `incomes`; the job in hand | pop, credit a deposit or a top-up, skip, requeue, push a callback | LPOP is destructive; a commit's answer may be lost; a job may be repeated | each payment is credited once, by its share, and announced |
| QRIS webhook | `http/webhook/qris.rs` | Redis key of the `trx_id`, list `process_qris` | SET NX, RPUSH, answer | two commands, no transaction; the vendor repeats and reorders | an acknowledged payment reaches the worker |
| QRIS bridge | `http/bridge/mod.rs` (`generate`, `check_status`) | `transactions`, the vendor | create code and row; ask the vendor, overwrite the status | read, question and write without a lock | the status never runs ahead of the money |
| Callback worker | `worker/jobs/send_toko_callback.rs`, `callback_client` | list, one key per event and reference, attempts and `not_before` in the job | lock, post up to three times, release, retry up to four times | key as lock and as receipt; crash while holding it | one sender, bounded posts, none after delivery, every job ends |
| Disbursement | `worker/jobs/process_disbursement.rs`, `http/webhook/disbursement.rs` | withdrawal row, `settle`, `incomes` | apply a verdict: earn the fee or refund | repeated, early and reordered verdicts | money is conserved, the toko hears what its ledger says |
| Queue and keys | `redis_store/{queue,idempotency}.rs` | Redis lists and keys | RPUSH, LPOP, SET NX EX, EXISTS, DEL | each command may take effect and lose its reply | see their callers |
| Worker loop | `worker/main.rs`, `worker/jobs/mod.rs` | the three lists | one job per iteration, in a fixed order | a job that always fails comes back at once | only a job that fails for ever, in a list served before, keeps a job waiting |
| NexusGGR players and balances | `http/bridge/mod.rs` (`user_create`, `user_deposit`, `user_withdraw`, `user_withdraw_reset`) | `players`, `balances.nexusggr`, upstream balances | check, call upstream, write | upstream call between check and write, or inside an open transaction | the two sides agree, balances stay positive, names are unique |
| NexusGGR catalogue, calls, RTP | `http/bridge/mod.rs` (the other endpoints of `/api/v1`) | cached lists of providers and games, `players`, the rows of `balances`, the platform's calls | validate, look up players, ask, map usernames, cache | a list cached from before it changed; players created while the platform answers; an answer lost after its effect | a toko sees its own players and all of them, a success is true, a new list is shown in the end |
| NexusGGR client | `crates/nexusggr_client` | none | refuse a parameter, send, read the JSON | numbers as texts, fields left out, one bad record in a list | it never refuses what a handler validated |
| Sign-in | `dashboard/auth.rs`, `crates/auth`, `redis_store/{session,captcha}.rs` | captcha, session, CSRF token in Redis | captcha, login, logout, me | one-time tokens and expiry races | a captcha works once, a closed session stays closed |
| Rate limits | `redis_store/rate_limit.rs` and two middlewares | a counter with TTL | INCR, EXPIRE NX, TTL | three commands | no more than the limit per window |
| Toko tokens, QRIS client, domain types, errors, pool, observability | their crates | none of their own | lookups, conversions | - | - |
| Dashboard | `apps/web` | the signed-in user | routing | - | - |

How they interact: the webhooks and the bridge share the `transactions` row with
the worker; the webhooks reach the worker only through a Redis list; the workers
reach the callback worker only through another list; every process may die
between two commands and any command may lose its reply. The hazards this
leads to are listed in `PROJECT.json`, each at the line where it bites.

## Modules

**QrisAmounts** is the worker's integer arithmetic (fee, conversion of a top-up,
what goes to the toko and to the platform), with the `checked_*` operations as
`...Fits` predicates against `MaxMoney`, the model's `i64::MAX`.

**QrisDeposit** joins the QRIS worker, webhook and bridge, because the row, the
key and the list are shared by all three. `txn`, `balance` and `income` are the
tables; `keys` and `queue` are Redis; `hooks` holds handlers between SET NX and
RPUSH, `checks` the check-status requests between the vendor's answer and the
UPDATE, `worker` the phase of each worker process. `process_job` takes the row
`FOR UPDATE` first and commits last, and the UPDATE of `check_status` waits for
that lock, so a job's database transaction is one action
(`ProcessRegularDeposit`, `ProcessNexusggrTopup`). All that lies between two
Redis commands or behind a commit is an action of its own. A failure is drawn
from `FaultKinds` (`redis`: a command fails, with or without effect; `db`: the
transaction fails, or COMMIT's answer is lost; `crash`: the process dies) and
counted in `faults`. `credits`, `acks` and `lost` are history variables. A row's
note is abstracted to its purpose: a regular deposit *replaces* the note
(`DepositedRow`), a top-up *merges* into it (`ToppedUpRow`), and that difference
decides what a later job may do with the row.

**IdealDeposit** is the promise: a set of settled transactions, each settled
once, in a step that moves its share. `QrisDeposit!IdealLedger` is the
refinement (settled = rows with status success).

**CallbackDelivery** is the callback worker alone; its environment pushes jobs
(`Enqueue`) as the other two lists' jobs do, and WorkerLoop composes it with them. `not_before` is the flag `due`, which
time (`Elapse`) sets. `confirmed` remembers which keys stand for a delivery, `orphaned`
which were left by a failure that nobody cleans up after: the code cannot tell the two
apart, and skips a job for either. `NoSilentDrop` says that there is no third kind of key
but that of a worker at work.

**WorkerLoop** is `main` and `jobs::run_once` around the callback worker. `look[w]` is the list
a worker pops next: it passes an empty list (`PassList`), takes a job of the first
two (`PopAhead`), or comes to the callbacks (`PopCallback`, then the steps of
CallbackDelivery). `lists` holds the jobs of `process_qris` and `process_disbursement`
in order, each abstracted to the reference of the callback it pushes when it is done
(`Serve`, which is CallbackDelivery's `Enqueue`); a job in `Poisoned` fails each time it is tried and
goes back to the tail (`Fail`), as one does whose note cannot be parsed or whose fee
overflows. Redis failures and crashes around the first two lists are `PopAheadFails`,
`ServeFails` and `CrashAhead`, counted in `mishaps`. Every step of the loop is a
step of CallbackDelivery or leaves it alone, which is proved.

**Disbursement** is the webhook and the worker of withdrawals. The submission of
a withdrawal is not in the repository: two external actions stand for it
(`SubmitTransfer`, `InsertWithdrawal`), in the order that `docs/` gives, with the
deduction that `process_failed` gives back. `transfer[x].said` is the verdicts the vendor
has given, which may contradict each other; a webhook carries one of them (or "pending")
and an amount of its own, which the refund must not use. A row's note tells the fees, is
empty (no fees, `ExistingDisbursementNote::default`) or cannot be parsed, which fails the
job each time; a fee that is missing or negative counts as 0 (`Charged`). The webhook is one action here,
because what happens between its two commands is already told apart in
QrisDeposit; its failures are `WebhookFails`. **IdealEscrow** is the promise:
held, then paid or refunded, once.

**NexusBridge** is the players and their money on the NexusGGR platform. Each
handler of `http/bridge/mod.rs` is cut at its calls of the platform: `request[r]`
is the phase and what the handler holds there, `lock` is `SELECT ... FOR UPDATE`
on the toko's balance row. `user_deposit` calls the platform inside the
transaction (`LockBalance`, `DepositUpstream`, `CommitDeposit`); `user_withdraw`
reads the wallet, calls the platform and then writes (`AskWallet`, `WithdrawUpstream`,
`CommitWithdraw`). Its transaction is open before the call, but all that runs in it
by then is `INSERT ... ON CONFLICT DO NOTHING` of the balance row (`bridge/mod.rs:913-924`),
which neither changes nor locks a row that exists, so the transaction is `CommitWithdraw`
alone. `user_create` checks the name, calls the
platform and inserts under the unique index; `user_withdraw_reset` empties wallets
and records what the platform reports. A reset may name a user, say all users, or both:
the client then sends both, and which of the two the platform means by it is left open
(`FindReset`, scope "both"). `upstream` and `wallet` are the platform's
(external), moved also by games (`Play`). `given` and `taken` are a history of
what the platform did, `booked` and `topped` of what the database recorded: the
properties compare the two. `unrecorded` is what resets took from users that are no
players of the toko that asked, for which the code inserts no transaction. `Fault` kinds: the platform's answer is lost, a
database step fails with or without effect, the handler is dropped (`Abandon`: the
process dies, or the client hangs up and the server drops the handler).

**GameBridge** is the rest of `/api/v1`: `balance`, `merchant_active`, the three
lists (`providers`, `games`, `games_v2`), `game_launch`, `money_info`,
`transfer_status`, the five endpoints about calls and the two about RTP. Each has
an action that starts it, with its body drawn from a set: validation, the lookup of
the players it names, and what the client checks before it sends. Then the platform
answers (`Answered`: it does what it is asked for, but may leave out a list, a
number or the name of a user, or send a number that cannot be read; `Refused`;
`Lost`: the answer does not come, with or without effect). `MapUsernames` loads the
toko's players after the answer and translates external usernames, `StoreList` is
SET EX of a list. `cache` is Redis with the time each list has left, `catalogue` the
edition of each list on the platform, `calls` its calls, `balances` the tokos that
have a balance row. `known` and `did` are history: the toko's players when the
platform answered, and the users it changed. Endpoints that share no state
are called in different behaviours (`Groups`), and two handlers at a time where
they share the cache. **BridgeRequests** is the validation of their bodies, a text
abstracted to its length, padding and which kinds of upper-case letters it has. The
validators lower ASCII letters only (`Fold`), PostgreSQL's `LOWER` all of them
(`Lower`), so a player stored with an upper-case letter outside ASCII is found when it
is asked for in lower case and not when it is asked for as it is stored. **PlatformClient** is `nexusggr_client`:
which parameters each method refuses (`..._params`), and the typed answer it makes of
raw JSON, with the conversion of numbers sent as texts (`parse_money_text`). `WholePart` is
what a number means, said without the parser; the properties compare the two.
A launch of a game never gets past its lookup (see `game_launch` below), so the
client's method for it is modelled and never reached.

**SignIn** is what `/backoffice/api/auth` and the rate limits keep in Redis for one
client. `check_rate_limit` is two actions, `Increment` (INCR) and `SetExpiry`
(EXPIRE NX, TTL and the decision on INCR's answer); a login passes its scopes in
order and stops at the first that is exceeded. Then come GETDEL of the captcha,
the lookup of the user (accepted or not), SET EX of the session. `/me` and
`/logout` ask Redis for the session and, for a POST, compare the CSRF token,
abstracted to the session it was derived from. Counters have a time to live in
ticks; captchas and sessions may expire at any moment. `Routes` gives the scopes
of each kind of request: two for a login, one for the API and webhook routes.

**QrisDepositProofs**, **CallbackDeliveryProofs**, **WorkerLoopProofs**, **DisbursementProofs**,
**NexusBridgeProofs**, **GameBridgeProofs**, **SignInProofs** hold the theorems about the component
each is named after, **SumTheorems** the facts about sums that they share; **MC\*** modules and `.cfg` files the instances. Operators marked
*slip* in a module are not the code: each is a plausible mistake in the operator
it is named after, kept to show that a property would notice it.

## Runs

| run | instance | shows |
|---|---|---|
| `qris_pipeline` | 2 transactions of 1 toko, 1 worker, no check-status, 2 failures, 2 webhooks; paid amounts 1049 (a platform share below 0, a conversion that rounds up) and 20000 | at most one credit; balances and income explained by the rows; callbacks follow credits; no job vanishes without a failure; every payment in the pipeline is credited and announced in the end; refinement of IdealDeposit |
| `qris_check_status` | 1 transaction of any purpose, 2 workers, 2 check-status requests, 2 failures, 3 webhooks | a regular deposit is credited once even then; only paid codes are credited, with the paid amount |
| `worker_loop` | 3 references: a deposit's, a withdrawal's that the client rejects, and one whose job always fails; 2 workers, 2 jobs or callbacks, 1 failure of the callbacks and 1 of the other lists | one sender at a time; posts bounded; no post after a confirmed delivery; give-up only after all posts; every job is served and every callback ends, unless a job that fails for ever is in a list before |
| `disbursement` | 2 withdrawals of a toko that can afford two, with fees, with a negative fee, with an empty and an unreadable note; 1 worker, 2 webhooks of either verdict whose amount may not be the row's, 1 failure | money conserved; callbacks tell the row's verdict unless the vendor gave both; verdicts applied in the end; refinement of IdealEscrow |
| `nexus_bridge` | 2 toko, 1 username, 2 codes, 2 handlers, 4 requests or top-ups, resets of one player, of all users or of both, 1 failure | the balance never runs out under racing deposits; one player per name, known to the platform; what is booked the platform did; balances explained by bookings; without a failure nothing is stranded but what a reset takes from another toko's player; every request ends |
| `game_bridge` | 2 toko with a player of the same name each and one more that may join, 3 users of the platform with a number that has a fraction, is negative with a fraction, or is written with an exponent; texts padded, upper-case in and out of ASCII, blank; lists kept for 2 ticks, each changed once; 2 calls, 1 failure | a toko is shown its own players, all of them, with the whole part of their numbers; a success was carried out and an error changes only users that were named; the client never refuses what was validated; an old list leaves the cache |
| `sign_in` | 2 handlers, 1 captcha, 1 session id, limits of 1 in windows of 1 and 2 ticks, 1 failure | the limit of a window holds under interleaved commands; a captcha is tested once; a confirmed logout is final; a client that keeps trying is let in again |

Why the bounds are enough. A double credit needs one transaction and two jobs
of it: a second webhook after the key expired, or one requeue. Two
transactions of one toko let jobs overtake each other and their shares add up.
The shares are compared with definitions of their own (`TokoShare`, `Converted`,
`Margin`: what is rounded, and in whose favour), not with the operators the worker's
actions use, and 1049 tells rounding from truncation. A withdrawal of another amount
than the webhooks carry tells whose amount is refunded.
Two failures allow a failure during the recovery of another (a lost commit,
then a failed push). For check-status two requests are needed for an old answer
to overwrite a newer one, and two workers for one to hold a job while the other
commits. The callback worker needs two workers to compete for a key, and two
jobs of a reference for one to arrive after the other's delivery; in the loop one of
two jobs is the one that fails for ever while the other has to be served. In the bridge every race is between two
handlers; four starts are two racing creates (of one toko or of two), or one create with
two deposits that race for the last unit of the balance and a top-up, a withdrawal or
a reset, by the player's toko or by the other.
In `game_bridge` a stale list needs two handlers of one list and one change
of it; a wrong mapping needs two toko that use one username, and a player that joins
while the platform is asked; the numbers 0 to 2 and texts of 0, 2 and 3 bytes lie on both
sides of each limit but those of length (50 and more), which only the theorems reach.
`sign_in` needs no bound but failures: ids are used again once nobody has them,
and a count stops one above its limit. A window of two ticks lets a tick pass
inside it, which is what a renewed window would need to go on for ever. Deadlock checking is off everywhere,
because every instance may stop once the vendor's webhooks are used up and the
lists are empty.

Five runs are expected to fail; each shows a behaviour of the code that
contradicts the documents or comments quoted in `PROJECT.json`:

* `qris_double_credit`: a check-status answer from before the payment, written
  after the credit, sets the row back to pending; a top-up keeps its purpose and
  the requeued job credits it again.
* `qris_uncredited_payment`: check-status learns of the payment first and marks
  the row success; the worker believes the deposit is done, credits nothing and
  still announces it to the toko. No failure is needed.
* `qris_dropped_final`: the webhook key is the code alone; a webhook with status
  pending takes it, and the success webhook is acknowledged and dropped.
* `callback_forgotten`: SET NX takes effect and its reply is lost; the requeued
  job meets its own key and is skipped as "already delivered".
* `game_launch`: the query of the launch selects `ext_username` alone and the record
  it is decoded into wants `username` too, so a launch of any player that exists
  ends in 500 before the platform is asked. The other handlers that use the
  record select both columns.

Two differences that no document settles are no runs. `user_withdraw_reset` records
withdrawals of category nexusggr and leaves `balances.nexusggr` alone, where a single
withdrawal raises it; `BalanceExplained` counts the records of a reset apart. And with
`all_users` the request names no user and carries the credentials of the one agent that
all tokos share (`bridge/mod.rs:1021-1027`), so the platform empties the wallets of every
toko's players; the records of those that are not the toko's own are skipped
(`bridge/mod.rs:2083-2085`), and their money is in no transaction of anybody. An earlier
form of `NothingStranded` said that this could not be, and held in an instance of one toko;
its proof failed, and a second toko shows why in seven steps: a player joins, wins,
and the other toko resets all users. What `all_users` covers is the platform's to say (see
the assumptions), so the property now states the exception: what is recorded nowhere is
counted in `unrecorded`, and was a player's of another toko, in a reset of all users.

## Fairness

`WF(WorkerStep(w))`: `main` loops forever and each iteration finishes; a
supervisor restarts a process that died (a crash returns the worker to idle with
its job gone). In QrisDeposit the list is the first that `run_once` serves, so the loop gets to it
in every iteration. Disbursement's list is the second: that a worker gets round to it
holds while no job fails for ever in `process_qris` and its webhooks leave the loop a pause.
WorkerLoop has no such assumption: `WF(run_once(w))` says only that `main`
repeats, and `EveryJobEnds` names the starvation that `jobs/mod.rs:8` leads to, a job
that fails for ever in a list served before, as its one exception (with an endless stream
of webhooks, which `MaxPushes` keeps out). `WF(EnqueueWebhook)`: an HTTP handler that got past SET NX runs on
unless it fails. `WF(Elapse)`: clocks advance. Nothing is assumed of the vendor,
of payers, of the toko's server, of check-status callers, of key expiry or of the
code that submits withdrawals. Failures are bounded, so a requeue succeeds in the
end. In NexusBridge a handler's own steps are strongly fair (PostgreSQL grants a
row lock in turn, so a waiting handler is not passed over for ever) and the
steps that need the platform weakly fair: it answers every call in the end. The
HTTP client sets no timeout, so the second is an assumption about the platform,
and a deposit holds its row for as long as the answer takes.
In GameBridge only the expiry of keys (`Tick`) and the answer of Redis to a SET
(`StoreList`) are fair; nothing is assumed of the platform, for which an old list in
the cache need not wait.
In SignIn a handler runs on and clocks advance; that a client keeps
trying is a premise of `LockoutEnds` and not an assumption.
Weak fairness of the single action `WorkerStep` suffices, because a worker
that has a job always has a step.

## Theorems

All hold for every value of the constants that satisfies the `ASSUME` of the
module, in particular any number of transactions, toko, workers, callers,
failures and webhooks.

* `TypeCorrect` in QrisDepositProofs, CallbackDeliveryProofs, DisbursementProofs,
  NexusBridgeProofs and GameBridgeProofs, `SignInTypes` in SignInProofs: `Spec => []TypeOK`.

**QRIS pipeline**

* `RegularDepositOnce`: `Spec => []RegularDepositCreditedOnce`. The invariant adds
  that a row which was credited has one of the two purposes a credit leaves
  behind (missing, or top-up); no step of check-status changes a purpose.
* `CreditedOnce` and `ImplementsIdealLedger`, both under `Callers = {}`: the
  inductive invariant says that a row is credited exactly when its status is
  success, and once. With a caller both are false (see the runs).
* `LedgerIsExplained`, under `Callers = {}`: balances and income are the sums of the shares of
  the rows with status success. A step that settles a row adds it to one set of rows
  and its share to one sum; every other step leaves the sets and the amounts of settled rows.
* `CreditsArePayments`, with any number of callers: a job of status success is of a code that
  is paid and has the amount that was paid, in the list, in a hand, behind a webhook's SET NX
  and in the answer a check-status request holds; and a credited row keeps that amount.
* `CallbacksFollowCredits` and `NothingSilentlyLost`, under `Callers = {}`: a callback, and a
  worker that is about to push one, is of a row with status success (`OutcomeInv`), which is a
  credited one (`OnceInv`). A success job leaves the pipeline only by a credit, by a row that
  is credited already, or by a failure counted in `lost`.

**Callbacks and the loop**

* `NeverTwoSenders`, `NeverPostedAfterDelivery`: the inductive invariant `LockInv`
  has four parts: a worker that sends or releases has its key set, two of them
  never hold one key, a confirmed reference has its key set, and nobody holds a
  confirmed reference. `OneSender` alone is not inductive: without the first part
  a second worker could take the key.
* `NeverSilentlyDropped`: a step of a worker goes on with its job, puts it back, or ends it with
  a fate (`JobEffect`), so a reference of which a job was pushed is in flight or has a fate.
  A key is set by the worker that then holds it; the holder ends by a confirmed delivery,
  by deleting the key, or by a failure that records it in `orphaned`.
* `NeverGivenUpEarly`: a job of attempt `n` has had at least `n - 1` whole rounds of posts, and
  the worker that has made `i` sends in this one as many more (`SendsInv`, `RoundsInv`).
* `PostsNeverExceedBudget`: what was posted for a reference, and what the jobs of the list and of
  the workers' hands may still post, add up to no more than the jobs produced allow
  (`BudgetInv`). This is a sum over the list and over the hands; popping a job moves its
  share from one to the other, a post turns one unit of it into the count, a retry takes
  the rest of a round.
* `LoopImplementsDelivery`: each step of the loop is a step of the callback worker or
  leaves its variables alone, so `LoopHasOneSender`, `LoopPostsNoneAfterDelivery`,
  `LoopDropsNoneSilently`, `LoopGivesUpNoneEarly` and `LoopKeepsBudget` follow
  from the theorems before; `LoopTypeCorrect` adds the loop's own types.

**Disbursement**

* `CallbacksAreTrue`: the verdict in a queued job, in a worker's hand and in a
  decided row is one the vendor gave (`VerdictInv`), and what a worker is about to
  announce, built from the payload, is the row's or the other of two that were both
  given (`Tellable`). Rows never lose a verdict and the vendor's never shrink, so a
  callback stays tellable.
* `ImplementsIdealEscrow`: every step is a Hold, Pay or Refund or leaves the
  escrow's variables unchanged; it needs type correctness only, since the guard
  `status = 'pending'` of the UPDATE carries the rest.
* `MoneyIsConserved`: what a toko has in `settle` and what its pending and successful
  withdrawals tie up is what it started with, and the income is what the successful ones
  earned; `EscrowInv` adds that only finitely many withdrawals have such a row. An insert
  and a refund move one summand between `settle` and the sum, a payment moves none.
  The refund is computed from the note, the deduction from the terms: `NoteInv` says that
  a row whose note tells no fees is of a withdrawal that was charged none.

**NexusGGR bridge**

* `DepositsLeaveBalance`: the invariant adds that a deposit past its check holds
  its toko's row and that the balance there still exceeds its amount (`HoldsRow`);
  without it the commit could charge a balance somebody else has lowered. A
  withdrawal is booked only on a free row, so no other step can touch it.
* `NamesAreUnique`, `PlayersAreKnown`: `PlayerInv` says of every create under way
  that its code is on the platform exactly after the platform made it, that no
  player has the code and that no other handler creates it.
* `BookingsAreTrue`, and the first half of `MoneyIsNotStranded`: `BookedIsDone` is not
  inductive, because a commit would break it if the platform had not acted before.
  `HandsInv` counts what handlers hold with what is booked: for each user the platform gave,
  and took, at least that, and exactly that while no failure is counted. A step changes one
  handler, and adds as much to one side as to the other (`GivenMove`, `TakenMove`) or
  counts a failure.
* The second half of `MoneyIsNotStranded`: `KnownInv` says that the handlers' transfers are of
  players, that a user who is no player has no money and no bookings, and that a
  reset of one player has taken from a player of its toko; so what a reset took and does not
  record was a player's of another toko.
* `BalanceIsExplained`: `BooksInv` is the property with `KnownInv`. A player joins without
  bookings and adds 0 to its toko's sum; a booking is of a player, and no other player
  has its code, so it changes one toko's sum, and that toko's balance by as much.
* `AnswersAreOwn`, `SuccessesAreTrue`, `NeverRefusedByClient` (GameBridgeProofs): the
  inductive invariant says of each handler's record alone, given the players and the
  calls, that its rows are the players of its toko with the names it asked for
  (`Looked`), that each record it holds of the platform has the whole part of its user's
  number, or 0 once a failure was counted (`Truthful`), and that what was done was asked for (`Carried`). `Safe` survives when
  players are added, calls are closed and failures counted (`Monotone`), so every step is judged by the
  one record it changes (`OneRecord`). What the client makes of an answer is
  `AnswerFacts`, one case per endpoint; that a text which passes a validator is not
  blank is `FittingIsCallable`. Players never leave the table; the proof needs it.

**Sign-in**

* `CaptchasAreAnsweredOnce`: a challenge that Redis still has was never tested.
* `LogoutsAreFinal`: a confirmed logout's session is gone from Redis, and its id
  is still in a cookie, so no login is given it again.
* `LimitsAreKept`: each admission, past or to come, used up a count of its own. `LimitInv`
  says that the requests admitted in a window, and the handlers that hold a count which
  the limit admits, are together no more than the counter's value and no more than the
  limit. It is about how many they are, so neither the order of the decisions nor that of
  EXPIRE NX matters; without the handlers the bound by the limit would not be inductive.

**Sums.** The balances are sums over sets and lists whose size is not known, by
`SumFunctionOnSet` of Functions, a recursive function that takes the elements in the order of
CHOOSE. SumTheorems proves that the recursion has a solution (`SumIsSolution`), that any
element may be taken first (`SumRemove`), and how a sum follows a change of one argument
(`SumOfExtended`, `SumOfReduced`, `SumOfUpdated`). The library's induction theorems have an
operator as a parameter, which the provers cannot instantiate; these proofs say instead
that a set of counterexamples that is not empty has a minimal element (`Minimal`, from the
well-foundedness of proper inclusion), and show that it is none. No proof about a component
assumes that its tokos, handlers or workers are finitely many: that finitely many
of them hold something is part of the inductive invariant, or of the type of the list.

Each inductive invariant was first checked by TLC on the component's run.

Model-checked only: all liveness (`PaymentIsCredited`, `CreditIsAnnounced`, `EveryJobEnds`,
`VerdictIsApplied`, `RequestEnds`, `NewListsAreShown`, `LockoutEnds`), which is about
fairness and ENABLED. Every invariant and every other action property or refinement that
a passing run checks is stated by a theorem, some for `Callers = {}` as the run is.

## Assumptions and limits

* The QRIS vendor settles a code once, and its webhook reports the current status or,
  late, "pending". The disbursement vendor may take a verdict back: a toko is then told
  both, because the callback of a withdrawal that is decided repeats the webhook's.
* The 24 hour TTL of a key outlasts any webhook request or delivery.
* The code that submits a withdrawal notes its fees in the row whenever it charges any.
* Rows of other purposes (top-ups above all) and withdrawals are inserted by code
  that is not in the repository.
* Payload validation and sanitising, JSON, headers, URLs, log lines and the exact
  backoff times are left out; a payload that is rejected changes no state.
* The configuration that the clients need (agent code and token) is present. A body
  that is no JSON is answered 400 and changes nothing.
* The database's locale knows Unicode, so `LOWER()` lowers every letter. Lengths do not
  change with case.
* A number that JSON writes with an exponent (1.5e16) is read as its digits before the
  point (1). The model does as the code does, and `AnswersOwnPlayers` speaks of numbers
  written without an exponent only; amounts that large are not expected from the platform.
* `call_history` pages over the calls of all toko before it leaves out those of others, so a
  toko may be shown fewer records than its limit while there are more: the model has
  this, no property forbids it. `money_info` also answers the balance of the agent and
  of the toko, read before the platform answers; they are left out.
* `call_apply` has nothing that identifies a repetition; a request whose answer was lost
  and that is sent again opens a second call. Likewise a verdict that arrives before its
  withdrawal row is dropped and its key blocks the repetition. The code promises nothing
  about either; both behaviours are in the model, and the properties except them.
* The platform keeps wallets at zero or above, only players play, and a reset of
  all users covers every user of the agent, whichever toko they belong to.
* In NexusBridge the balance row of a toko exists; the code creates it with 0 when it
  does not, which GameBridge models (`load_or_create_balance`).
* The limits count in fixed windows that start with the first request: across the
  end of a window up to twice the limit may be admitted. `docs/architecture.md:321`
  calls this a sliding window; `WithinLimit` states what the code gives.
* `incomes` has its bootstrap row, and its percentages do not change.

## Not modelled

* **Toko tokens, QRIS client**: a lookup without state, and HTTP and JSON whose result
  is an action of the vendor in QrisDeposit.
* **Domain types, errors, observability, database pool**: no behaviour of their own.
* **Web dashboard**: routing and a copy of the signed-in user, which mirror SignIn.
* **The users table**: a changed role or a deactivated account is noticed at the next
  login (`session_auth.rs:32`); only `/me` reads the table after login.
* **Submission of a withdrawal, expiry of pending transactions, top-up requests**: in the
  documents, not in the source.

## Plan

1. *Done:* QrisAmounts, QrisDeposit with IdealDeposit; CallbackDelivery and
   WorkerLoop; Disbursement with IdealEscrow; NexusBridge; BridgeRequests,
   PlatformClient and GameBridge; SignIn; their proofs.
2. For NexusBridge an abstract specification: two accounts and a transfer that
   either happens on both sides or is known to hang, and the refinement.
3. Proofs to add: that refinement; the arithmetic of QrisAmounts (shares are not negative
   and add up to the payment, and `...Fits` says exactly when no operation overflows).
