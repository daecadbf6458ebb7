# ch_pos: verification project

TLA+ models, model-checking runs and proofs for the point-of-sale application in
`src/ch_pos` (a Frappe / ERPNext app). Every definition is translated from the
source; `PROJECT.json` maps each one to the lines it stands for. Paths below are
relative to `src/ch_pos/`.

## 1. The system

A *store* has a few *tills* (POS Profiles). A cashier opens a *session* on a till,
bills customers, counts the cash at the end (a *settlement*), and closes the
session; the store's *business date* moves on when its last session closes.
Customers queue with *tokens*. All state is in database documents that requests
and scheduled jobs read and write; a request is one database transaction, which a
refusal (`frappe.throw`) rolls back.

| Component | State | Operations | Hard behaviour |
|---|---|---|---|
| Till session (`api/session_api.py`, `pos_core/doctype/ch_pos_session`) | CH POS Session: status, till, user, date; the POS Opening Entry and POS Closing Entry behind it | open, lock, unlock, release a cashier, close, reopen, two sweeps | orders nobody tested: reopen beside the next session, sweep against close; vouchers that drift from the session; requests that overlap |
| Business date (`ch_business_date`) | one row per store: date, status | advance at close, manual override, rewind at reopen | the date moves from three places while sessions carry copies of it |
| Cash drawer (`ch_pos_settlement`, `ch_cash_drop`, `api/isolation_api.py`, `api/petty_cash.py`) | settlement snapshot, drops, petty cash, expected float of the next session | settle, reopen settlement, correct a closed one, drop, cancel a drop, petty cash | a snapshot of totals taken before later movements; carried float |
| Token queue (`api/token_api.py`, `overrides/pos_invoice.py`) | POS Kiosk Token: status, till | create, assign, start, complete, cancel, drop, engage, bill, hold, recover, expire, end-of-day sweep | one billing token per till, sweeps against the desk, terminal states |
| Invoice creation and offline replay (`public/js/pos_app/services/sync_service.js`, `shared/payment_dialog.js`, `www/pos-sw.js`, `api/offline_sync.py`, `api/pos_api.py`) | the browser's `pending_invoices` store and replay flags; Sales Invoice with its client_request_id | confirm payment, queue, replay, retry, background sync | an answer lost after the commit, a replay that overtakes its first call, a closed tab, a wake-up nobody hears |
| Money of a bill (`api/pos_api.py`, `overrides/pos_invoice.py`, `overrides/gl_backstop.py`) | lines, tax rows, header and ledger of one Sales Invoice | spread a discount, split the tax, round, rewrite the ledger | writes whose failure is only logged, rounding |
| What may be charged (`overrides/discount_control.py`, `cash_receipt_limit.py`, `cutoff_time_guard.py`, `return_policy.py`) | sums of discounts per store and of cash per customer | floor price, commercial policy, budget, cash limit, cut-off, return window | two bills that each read the sums without the other |
| What a bill uses up (`overrides/pos_invoice.py`, `api/pos_api.py`) | coupon count, voucher and advance balances, exceptions, warranty claims | apply, consume, cancel | locked, but judged by an older snapshot |
| Plans (`api/pos_api.py`, `api/attach_api.py`, `api/free_sale_api.py`) | catalogues, Active VAS Plans, CH Customer Device | offer, price, bill, cancel | a device inferred from a cart that changed |
| Pre-booking (`api/pos_api.py`, cart and prebook JavaScript) | tags on serials, proformas, orders, advances, the till's carts | reserve, edit, release, convert, load, hold, bill | two reservations of one serial; what a refreshed page forgets |
| Returns, exchanges (`api/pos_api.py`, `overrides/`) | credit notes, plans and vouchers of the bill, refund instruments | return, approve, return with replacement | drafts that do not count; a difference settled on an estimate |
| Buyback, repair, gifts, FIFO (`api/pos_api.py`, `api/repair.py`, `api/token_api.py`, `api/gift_redemption.py`) | orders and bills of the desks | settle, credit, close, spin, redeem, expire, sell by exception | value or gift given twice by overlapping requests |
| Goods receipts, stock transfers (`api/pos_inbound.py`, `api/pos_api.py`) | Purchase Receipts, Stock Entries and their serials | draft, scan, submit, send, receive | two drafts of one order; lines against items |
| Approvals (`api/manager_approval.py`, `api/free_sale_api.py`, `ch_manager_pin`) | one-time grants in Redis, free-sale documents, PIN rows and attempts | request, answer, consume, restore, verify | a grant consumed by a request that then fails; Redis does not roll back |
| Incentives (`pos_incentive_ledger`, `api/pos_api.py`, `hooks.py`) | ledger entries, monthly bonus | earn, reverse, back-fill, approve, pay, award | back-fill beside the sale |
| Customers (`api/pos_api.py`, `api/token_api.py`) | Customer, Contact, Address | create, edit, look up | two tills, one phone number |

Components that only read (reports, search, offers), that render (the POS client), that
decide who may call, or that talk to outside services are listed in `PROJECT.json`
with the reason they are not modelled.

How the parts touch each other:

- *Session and date.* A session copies the store's date when it opens
  (`session_api.open_session`); closing it may move the date on
  (`_auto_advance_business_date_after_eod`), reopening it may move it back
  (`admin_reopen_session`). The two sweeps close sessions and leave the date alone.
- *Session and vouchers.* `open_session` creates a POS Opening Entry, `close_session`
  a POS Closing Entry that makes ERPNext close the opening one; `open_session`,
  `release_cashier_assignment` and `admin_reopen_session` also change opening
  entries, those of other sessions included.
- *Session and settlement.* `create_settlement` stops the till (Pending Close) and is
  required before a close when the control setting says so; `reopen_settlement` and
  `admin_reopen_session` cancel it.
- *Bill and token.* The hooks of Sales Invoice (`on_submit`, `on_cancel`) write the
  token's status and its link and call the customers on Hold back.
- *Scheduler.* Hourly: expire tokens, close stale sessions. Every ten minutes: take
  abandoned bills back. 06:00: close overnight sessions. 23:55: close visits.
- *Browser and server.* The till's page, its IndexedDB store, its service worker and
  the server only share requests, which may be lost in either direction.
- *Bill and everything else.* `create_pos_invoice` is one transaction that reads and
  writes nearly every other component: gates, benefits, plans, orders, FIFO, tokens,
  incentives. Each of these is modelled with the part of the bill that concerns it,
  and with several bills at once; the bill as a whole is not one module.
- *Approvals and desks.* Returns, exchanges, discounts, credit sales, openings and
  petty cash ask for a grant or a PIN; `ManagerApprovals` has the deeds, the desks
  take "a manager agreed" as an input.

## 2. The modules

| Module | Models | Role |
|---|---|---|
| `StoreDay` | sessions, vouchers, settlement, store date | detailed specification |
| `StoreDayProps` | its properties, and the mapping to `TradingDays` | |
| `TradingDays` | what the lifecycle promises the accounts | abstract specification |
| `TokenQueue`, `TokenQueueProps` | walk-in tokens, bills that end visits, three jobs; its properties and the mapping to `CounterSlot` | detailed specification |
| `CounterSlot` | what the queue promises the counters | abstract specification |
| `TokenRaces` | the queue of `TokenQueue` with requests that overlap | composition with the database's snapshots |
| `OfflineBilling`, `OfflineBillingProps` | page, store, replay, service worker, server; its properties and the mapping to `DurableQueue` | detailed specification |
| `DurableQueue` | what the offline store promises | abstract specification |
| `CashDrawer`, `TillRaces`, `ManagerApprovals`, `ManagerPin`, `PreBookings`, `OrderTrail`, `Incentives`, `AttachBonus`, `GoodsReceipt`, `StockTransfer`, `BillTotals`, `PlanDesk`, `CustomerBook` | the desks behind the counter | each with its properties; run together by `MCBackOffice` |
| `SaleBenefits`, `SaleGates`, `GiftDesk`, `ReturnsDesk`, `ExchangeDesk`, `BuybackDesk`, `RepairDesk`, `FifoDesk` | the desks that sell, return and repair | each with its properties; run together by `MCSaleDesks` |
| `StoreDay_proofs`, `TokenQueue_proofs`, `OfflineBilling_proofs` | theorems about these three and `TokenRaces`, and that they implement `TradingDays`, `CounterSlot` and `DurableQueue` | proofs |
| `Till_proofs`, `Promises_proofs`, `BackOffice_proofs` | theorems about the desks of `MCBackOffice`: cash and overlapping till requests; pre-bookings and the trail of documents; all the others, and the desks together | proofs, each EXTENDS the one before or the modules it is about |
| `SaleDesks_proofs` | theorems about the desks of `MCSaleDesks`, and the desks together | proofs |
| `Sums` | what a sum over a finite set does when a term, the set or the terms change | lemmas |
| `MC*` | values of the constants for TLC | small instances |

A definition that directly precedes another one and differs from it by a slip (a
dropped check, a forgotten update, a swapped order) is a *mutant* of it: no action
uses it. Put in the place of its neighbour it makes TLC reject one of the
properties, which shows that the property depends on what the code does there. The
pairs are listed in `PROJECT.json`.

A property at the end of a module that its comment says a run *refutes* states what a
comment of the code promises; TLC finds a counterexample, and section 5 tells it.
They are not part of a run.

*How a request is modelled.* Where nothing that matters can come between its reads and
its commit, one action is one committed request. Where something can, reading and
committing are two actions: a request works on the snapshot of its first read
(MariaDB, REPEATABLE READ); a row it locks later is locked, but what it read before
stays old; a document that is *saved* must not have been modified since it was read
(the framework's `check_if_latest`); a field that is set in the database (`db_set`,
`set_value`) is written whatever it has become. The properties that hold under
overlap therefore often say what an exception *must have been*: "on two bills only
if the second was judged before the first committed". The ghost variables behind
such statements (`stale`, `overtaken`, `raced`, `outread`, `late`, …) record an
overlap and guard nothing.

### StoreDay

One action is one committed request or scheduler job; `frappe.throw` rolls a request
back, so a refusal is the absence of a step. Requests do not overlap in this module.

| Code | Action |
|---|---|
| `session_api.open_session` with `_validate_no_duplicate_open_for_store` | `OpenSession`: guards `StoreIsQuiet` and `DateNotClosed`, then the session, its opening entry, the orphans (`Orphans`) and a store date that read Closed |
| lock / unlock | `LockSession`, `UnlockSession` |
| `release_cashier_assignment` | `ReleaseCashierAssignment` |
| `isolation_api.create_settlement`, `reopen_settlement` | `CreateSettlement`, `ReopenSettlement` |
| `session_api.close_session`, `CHPOSSession.close_session`, `_update_business_date_status_after_close`, `_auto_advance_business_date_after_eod` | `CloseSession`, one step with all four |
| `auto_close_stale_sessions`, `auto_close_overnight_sessions` | `SweepSessions(failed)`: a savepoint per session, so any of them may fail alone |
| `admin_reopen_session` | `AdminReopenSession`, with the rewind of the date or the demotion of its status |
| `override_business_date`, `advance_business_date` | `OverrideBusinessDate` |

`date[s]`, `profile[s]`, `cashier[s]` are the columns of the session and its opening
entry; a document that does not exist has `status[s] = "None"`. Whether the card
terminals matched (`block_business_date_on_edc_mismatch`) is an arbitrary Boolean at
each close. Abstracted: amounts, denominations, PINs and permissions (any caller the
code would accept may call), audit logs. `OpenSession` leaves the other running tills
of the same cashier as they were: the code parks their opening entries and restores
them within one transaction.

### TradingDays

A store's day is *unopened*, *trading* or *counted*; a day starts once, while no other
day of the store is trading; it is counted; it may be taken up again; the store's
date goes back only to take up a counted day. Under the mapping a day is trading when
a session of that date is not Closed, and counted when all of them are.
`ImplementsTradingDays` checks that every behaviour of `StoreDay` is one of
`TradingDays`.

### TokenQueue and TokenRaces

`tok[t]` is the row of a token: status, docstatus, counter, whether the visit is one
to the shop, when it is due, whether its bill was left alone for
`stale_billing_timeout_minutes`, and the bill it shows. An endpoint is an operator
that returns the *set of writes* it may choose from the rows it read (argument `r`),
empty when it refuses. `TokenQueue` reads and commits in one step. `TokenRaces` uses
the same operators, but decides on the snapshot of the transaction (`Decide…`) and
writes later (`Commit`): the code's updates are by token name and do not test the
status again, and the named lock of `_with_pos_profile_lock` (`api/token_api.py:369`)
is taken after the transaction has read and given back before it commits, so it
orders nothing. `scheduler_batch_limit` is `Batch`.

After a visit ends, calling back the customers on Hold is best effort: the code logs an
exception and goes on (`TryToReleaseHeld` may write nothing). Inside a swap it must work,
because the claim follows in the same request.

`TillNext` has what the till screens and the jobs do; `Next` adds the walk-in entry
and the queue board, which take the billing slot without asking whether it is free.

### CounterSlot

A counter serves one visit or nobody, and some visits are over. `Serve` gives the slot
of a *free* counter to a visit that is not over and is served nowhere else; `Free` makes
counters free and ends visits, and whoever is over holds no slot. The slot therefore
never passes from one visit to the next in one step, and an ended visit never comes
back. Under the mapping a counter serves the visit whose submitted token is In Progress
there, and a visit is over when its status is terminal. `ImplementsCounterSlot` checks
that `TillSpec` does this; `Spec` does not, because the queue board restarts ended visits
(section 5).

### OfflineBilling

`cart` is the payment dialog, `pending` the store `pending_invoices`, `syncing`,
`batch` and `timer` the state of `SyncService`, `tag` the background-sync tag of the
service worker, `req[w]` the call a web worker serves. A press of "Confirm Payment"
mints a request id, so a press *is* its id, a number; the store returns presses in
the order they were made. A call is read (`Read`: is there an invoice with this id?),
then committed or refused, then answered. When the connection breaks, or the tab
closes, the browser gives the call up while the server goes on serving it; `overtaken`
counts those calls, it is no state of the program. An invoice cancelled at the desk
is not found by the look-up. The connection is either there or not; one tab is open.

### DurableQueue

Ids are minted in their order, `Put` into the store or billed without it; an id is billed
only if it was minted; it is taken out of the store only when it is billed and is the
oldest there. Under the mapping `stored` is `pending`, and an id is billed once an invoice
was made for it, cancelled later or not. `ImplementsDurableQueue` checks that every
behaviour of `OfflineBilling`, with its lost answers, orphaned calls and closed tabs, is
one of these.

### The back-office desks

- `CashDrawer`: one till over its sessions. `drawer` is the cash that is there,
  `Expected` what `_calculate_expected_cash` says should be. Bills in flight, drops and
  petty cash with approval, cancellation of either, settlement, close, sweep, reopen,
  correction. `CashIsAccounted`: books and drawer agree at every moment, up to bills
  being written and documents of other sessions; the closed session mirrors its
  settlement; unapproved petty cash stays in the float; a shortfall is signed.
- `TillRaces`: open, settle, reopen a settlement, close, sweep, admin reopen as requests
  that read, then commit. `TillsStayCoherent`: a till is counted out once; records of a
  till whose requests never overtook each other agree; two running tills of a store
  come from an overlap or an administrator.
- `ManagerApprovals`, `ManagerPin`: a deed takes a grant out of Redis, works, commits or
  rolls back and restores. One approval carries one deed, of its kind and cart. A PIN
  names one manager, the most specific row wins, a second person is another person,
  and a site that cannot decrypt its PINs does not lock its tills.
- `PreBookings`: tags of two users at once, release, lapse, cancellation with the
  advance, billing and return, next to the life cycle of each device. `OrderTrail`: the
  way from a proforma over a pre-booking and the till's cart (loaded, edited, held,
  refreshed) to the bill. `PromisesAreKept`: a unit is with one customer; an order is
  billed once, to its own customer, never after its cancellation; a bill takes
  off no more advance than was posted for its own pre-bookings (that a posted advance
  always comes off is refuted, section 5).
- `Incentives`, `AttachBonus`: entries, reversals by each credit note (several partial
  returns of one line are several notes), drafts released without one, overlapping
  back-fills, the monthly job. `RewardedOnce`.
- `GoodsReceipt`, `StockTransfer`: two tills drafting one order; a transfer's lines,
  scans and counts. `ReceivedAsOrdered`, `TransferIsCounted`.
- `BillTotals`: the money of one bill in integer arithmetic with `flt`'s rounding, from
  the header discount to the ledger check, where the write of a tax row or of a line's
  values may fail and only be logged. `BillAddsUp`.
- `PlanDesk`: three catalogues, a cart whose devices come and go, the record of a plan,
  the device register over returns and resale. `PlansCover`: a plan names a device that
  was sold, leaves no gap, keeps its purchase window, costs what its device makes it.
- `CustomerBook`: creation after a look for the number, the complete update and the
  quick one, addresses, e-mail, look-up. `CustomersAreKept`: duplicates come only of
  overlapping requests; one billing address; a confirmed e-mail stays.

### The sale desks

- `SaleBenefits`: bills of one customer that draw on one coupon, voucher, advance and
  one-time paper. `BenefitsServeOnce`: no part of a voucher or an advance is spent twice; a
  paper serves a second bill, and a coupon goes uncounted, only for a bill whose first read
  came before another bill's use. (That a paper never serves twice is refuted, section 5.)
- `SaleGates`: floor price, commercial policy, bank offer, discount budget, cash limit,
  cut-off time and return window, over several days with a business date that lags.
  `GatesHold`: the cash limit is passed only by bills that another one overtook between
  their check and their commit, also while the business date lags; the budget by those, and
  by bills of a lagging date, for which it limits nothing (refuted, section 5).
- `GiftDesk`: spin, redeem and the hourly expiry overlap. `GiftIsBilledOnce`,
  `ExpiredStaysUnbilled`.
- `ReturnsDesk`: credit notes submitted at once or left for a manager, with the plans and
  vouchers of the bill. `ExchangeDesk`: a return with its replacement in one request, its
  difference, the draft that waits, and the same press made offline.
  `ReturnsAreSquare`: no row is credited by two submitted notes; the device of a return
  that takes goods back is in stock, and no device is that has not come back; the plans of
  a return made at once are cancelled all or none; the customer is square after an exchange.
  What becomes of the device of a credit-only note, and of the plans of a draft that a manager
  releases, is not claimed: there the code leaves its comments (section 5).
- `BuybackDesk`: approval by signature, code or link, payout, credit on a bill.
  `CreditAndPayoutEachOnce`: the payout stops at the price and the credit is on one bill, each
  up to overtaken requests. That a device takes only one of the two ways is refuted
  (section 5). `EvidenceIsFinal`.
- `RepairDesk`: intake from a token, acceptance, four ways to a bill. `RepairsAreBilled`.
- `FifoDesk`: the check in the cart and on the bill over units that are reserved, sold and
  traded in again. `SkipsAreExplained`.

## 3. The runs

Sizes are distinct states. Every run finishes within four minutes on two cores.

| Run | Instance | Shows |
|---|---|---|
| `store_day` | one store, two counters, three sessions, three days; settlement required; 180 000 | types; one session per store and day; vouchers and settlement in step with the session (`RecordsAgree`); a Closed day is quiet and no date in the future (`DatesAreHonest`); what a date change implies; `TradingDays` |
| `store_day_two_stores` | two stores that share a cashier, two sessions, settlement optional, fair sweeps; 65 000 | opening a till spares the cashier's other running till; a till left open past its day is closed or settled |
| `two_active_sessions` | as `store_day` | **violated**: a reopen beside the store's next session |
| `swept_store_closed` | as `store_day` | **violated**: after the sweep the store cannot open |
| `token_till` | three visits, two counters, one bill, `TillSpec`; 293 000 | one customer billed per counter; release-then-claim finds the counter free; `CounterSlot` |
| `token_fair` | two visits, one counter, two bills, all endpoints, fair clock and end-of-day job; 199 000 | types; visits end |
| `token_races` | two requests and two jobs that overlap, two visits, one bill, fair requests and hourly job; 415 000 | the bill a visit shows is live and its own, also when writes come from old snapshots; a customer parked on Hold by a claim that missed the release does not stay there |
| `two_billed_at_counter` | two visits, one counter, all endpoints | **violated**: two customers billed at one counter |
| `offline_queue` | two sales (one may be refused), two workers, three presses, three troubles; 1 640 000 | no sale is lost; a press is billed again only for calls overtaken by their own replay; `DurableQueue`, so the replay keeps the order |
| `queue_strands` | two sales, one worker, two presses, two troubles, everything fair, nothing refused | **violated**: a queued sale is never sent although the till stays online |
| `back_office` | thirteen components, below; 1 571 000 | one property per row of "back-office desks" |
| `sale_desks` | eight components, below; 1 324 000 | one property per row of "sale desks" |

Bounds, and why they suffice. *Three days and three sessions* are the smallest
calendar in which a session is reopened while a later one runs and the date has moved
past it; the third session lets a close follow a reopen while another session runs. *Two stores* are
needed only where one cashier joins them. *Three visits* fill a counter, its Hold and
one more; two counters let a release at the wrong counter show. `MaxTime` bounds the
clock and `Enter` takes no token whose end lies beyond it (`now + TTL < MaxTime`), so
that every token's end comes within the run; `Batch` is as large as the number of
visits in the runs and arbitrary in the theorems. *Three presses* let a sale
be paid twice beside another one; *three troubles* are a lost answer, a closed tab
and one more. Symmetry is used for tokens, bills and workers, in safety runs only.
Deadlock is checked for `StoreDay`; it is switched off for the queue and the offline
store, where every visit or every sale may be over and nothing is left to do.

*Several components in one run.* `MCBackOffice` and `MCSaleDesks` EXTEND their components,
which share no variable. `desk` names the one that runs; the others stay as they
began, so the state spaces add up and do not multiply. A constant set of one component is
given values of its own or shares the interchangeable ones (`p1`, `p2`; `d1` to `d3`).
Where a promise spans two components the run states both halves under one name
(`RewardedOnce`, `ApprovalsAreSound`, `PromisesAreKept`, `ReturnsAreSquare`, and the type
invariants); `FinalStatesStand` joins two action properties.

| Component | Bounds | Why they show the hazard |
|---|---|---|
| `CashDrawer` | two sessions, one bill (sale or refund), two slips, at most three papers, one rework | the second session carries the float of the first, which is corrected after it opened; a bill lands after the count |
| `TillRaces` | two tills, four requests | two requests that overlap on a till, and two that follow to see what they left |
| `ManagerApprovals` | one grant, one free sale, two deeds, two carts, two managers | two requests fight for one approval; the cart changes; managers disagree |
| `PreBookings` | two orders, two units, one bill, orders of one unit | two users tag one unit; a unit is swapped; `Advances` holds the receipt's draft state |
| `OrderTrail` | one proforma, order and till, two bills, two customers | the order is billed, tried again; another customer is chosen |
| `Incentives`, `AttachBonus` | one bill of two lines, one of two units and one of one, two credit notes and two back-fills; three months and offers | a back-fill meets a half-earned bill; the job runs late or twice |
| `GoodsReceipt`, `StockTransfer` | three drafts of an order of two; two items and devices, lines of up to two | a cancelled draft next to two live ones; two lines of one item |
| `BillTotals` | up to two lines of five kinds, two templates, two roundings | two lines bring rounding apart; 101 paise do not spread evenly |
| `PlanDesk` | two handsets of different price, one own IMEI, two plans, three days | the cart's devices change between choice and bill; a window of one day passes |
| `ManagerPin` | three rows of six settings, two codes, two attempts | rows that share a PIN at one rank and at two; one readable row among unreadable ones |
| `CustomerBook` | two customers, two requests, two numbers, three requests in all | two creations of a number, or two updates of a customer, overlap |
| `SaleBenefits`, `GiftDesk`, `BuybackDesk`, `SaleGates` | three overlapping bills or requests; three days for the gates | the third request meets what two overlapping ones left |
| `ReturnsDesk`, `ExchangeDesk` | two devices and three notes; two exchanges, three estimates, three drifts of the price | two drafts of one device; an estimate that is short, right or over |
| `RepairDesk` | two repairs, two billing requests, one spare | two bills of a repair, and a second request for the token |
| `FifoDesk` | three units, three days, a window of one row | an older unit hidden behind a reserved one; a unit that comes back |

Deadlock is switched off in both: a desk may have nothing left to do.

Fairness. `StoreDay!FairSpec`: the scheduler goes on, and a session a sweep failed on
is tried again in the next (per session, since each close has its own savepoint).
`TokenQueue!FairSpec`: the clock, and the 23:55 job. `RaceFairSpec`: requests finish,
the clock, the hourly job. `OfflineBilling!FairSpec`: the browser and the server go on
and the connection comes back. Nothing is assumed of people: nobody has to open,
settle, pay, complete or cancel. The desks promise nothing that must happen: every
step of theirs is a person's or a job's whose run the properties do not rely on.

## 4. What is proved

Every invariant and every action property that a passing run checks is also a
theorem, and so are the refinements of `TradingDays`, `CounterSlot` and `DurableQueue`;
`PROJECT.json` ("theorems") pairs them. The three liveness properties stay with TLC (below). The theorems hold for every
value of the constants allowed by the `ASSUME` of the module: any stores, tills,
sessions, days, visits, bills, documents, prices and batch sizes, and any finite set of
web workers or requests where something is counted. Three theorems have a hypothesis of
their own, each a circumstance the code leaves open and without which the conclusion is
false: `OneActiveIfReopenedAlone` (nobody reopens a session beside a running one),
`SwapsFreeTheCounter` (no counter has more customers on Hold than one batch) and
`OnlyClaimsCollide` (no two claims of a counter are uncommitted at once).

What the assumptions say of the program: sets of documents that are summed are finite;
prices, quantities, rates and limits are natural numbers (paise, percent), quantities
are not zero, tenders are integers; an item's warranty belongs to the item, so two
devices of one item have the same base warranty (`PlansAssumption`: the code reads it
from the Item); a "none" value is no element of the set it stands beside. Each is
evaluated by TLC in the run that extends its module.

A theorem has three parts: `…Starts` (the initial states satisfy the inductive
invariant), `…Steps` or `…Keeps` (every step keeps it, one lemma or step per action) and
`…InvSays` (it implies what the run checks).

### The lifecycle of sessions and days

`IInv` is `TypeOK`, `OneSessionPerStoreDay`, `VoucherFollowsSession`,
`SettledMeansStopped`, `ClosedDayIsQuiet`, `NoFutureDate` and `BlankUntilOpened`. The
conjuncts need each other: a date is not used twice because a running session blocks
`StoreIsQuiet` and a closed one `DateNotClosed`, whatever date the store shows; the
voucher follows because settlement and opening entry are blank until a session
exists. Under it, three step properties: `RewindsOnlyToReopened`;
`OpeningSparesOtherTills` (the entries an opening closes are those of Closed sessions,
and a Closed session has no open entry at all); `AdvanceLeavesNothingRunning` (only a
close whose `DayComplete` found no other session moves the date).

`LifecycleKeepsDays` proves `ImplementsTradingDays`, step by step. The mapping reads
the state of a day off its sessions; by `OneSessionPerStoreDay` a day has one session,
so a step that moves one session moves one day. Opening is `StartDay` (`DateNotClosed`
makes the day unopened), a close is `CountDays` or `CountAndAdvance` (the latter because
`DayComplete` leaves no other day trading), a sweep is `CountDays`, a reopening
`TakeUpAgain`, an override `MoveOn`; the rest are stutters. The calendar of the mapping
is `1..MaxDay`, so the proof first shows `today <= MaxDay` (`CalendarHolds`).

The run `two_active_sessions` refutes `OneActivePerStore`. `OneActiveIfReopenedAlone` says
how much of it is left: with `ReopensAlone` (an `admin_reopen_session` happens only while
no other session of its store runs) it holds for any stores, sessions and calendar. So
the check that `admin_reopen_session` does not make is all that is missing; opening,
which does ask (`StoreIsQuiet`), unlocking, sweeping and settling never start a second one.

### Tokens

`LinkInv`: types, `LinkedBillIsLive`, and that a submitted bill belongs to a token, which
the step that cancels a bill needs. The writes are proved once: every endpoint's write
set maps tokens to statuses, and all but a claim start nobody's billing.
`SlotIsExclusive` adds `OneBillingSlot`, under `TillSpec`: a claim is the only write that
starts billing and it finds the counter free. `SwapsFreeTheCounter` needs the slot (the
released token was the only one billed) and, as a hypothesis, that no counter has more
tokens on Hold than one batch (`HeldFitOneBatch`): with more, the release would leave
some behind, and the code's limit is 500 by default.

`BillsAreLiveInRaces` is the link for requests that overlap. A plan may be made on any
older snapshot; what it needs is that its writes are statuses of tokens, that a bill's
plan ends exactly one visit, and that the bill it submits is still unsubmitted, or the
one it cancels still of that visit (`PlanSound`). That survives other commits because a
bill is in one request at a time (`PlannedOnce`: its document is locked by its save).
`RaceTypes` follows from the same invariant.

`OneBillingSlot` fails under overlap, and `OnlyClaimsCollide` says in how many ways: one.
As long as no two requests have claimed the same counter and not yet committed
(`ClaimsAlone`), it holds, however old the snapshots of everything else are. The
invariant (`RaceSlotInv`) says that a pending claim still fits (`ClaimFits`): it is of one
visit that is there, and nobody else is billed at that counter *now*, although the claim
looked some time ago. Other commits keep that because they start no billing (a stale
release, bill, withdrawal or job only writes other statuses), or start one at another
counter; and a row never moves to another counter, as no write makes a token's name free
again (`NeverNone`, `RowsStay`).

`SlotRefines` proves `ImplementsCounterSlot` on `SlotInv`. With one visit billed per
counter the mapping's holder is that visit (`InSlot`); a claim that is granted is `Serve`;
every other step starts nobody (`OnlyClaimsStart`) and ends visits for good
(`VisitsStayEnded`: each write set of `TillNext` leaves terminal statuses terminal), so it
is `Free`.

### The offline queue

`SaleIsKept` is not inductive: a sale leaves the store on an answer, so answers must be
true (`AnswersAreTrue`: an "ok" is about a press that is billed).
`ExtraBillsWereOvertaken` needs counting. The browser waits for one call of a press at
a time (`OneCallEach`), so all other servers of that press are orphans, and those
were counted when they were given up. Hence `live + creating <= 1 + overtaken`
(`Counted`), by the cardinality of sets of workers. `ReplaysInOrder` (a queued sale leaves
the store before every later one) needs `ReplayInv`:
ids are minted in order, so what is stored during a replay is younger than all it still
has to send (`BatchIsOldest`), and the one answer it waits for is about the oldest
(`OneReplay`).

`StoreRefines` proves `ImplementsDurableQueue` from both invariants and one more conjunct:
a call under way is about a press that was minted (`CallsAreMinted`), so that nothing is
billed that nobody rang up. A press is `Put` or `Mint`, a commit on the server is `Bill`, the
answer the replay waits for is `Take` (true because of `AnswersAreTrue`, the oldest because
of `ReplayInv`), all else stutters.

### The desks behind the counter

| Invariant | What makes it inductive |
|---|---|
| `CashInv` | the drawer is explained per session by bills booked *and under way* plus a term for other sessions' documents (`DrawerIsExplained`); petty cash that approved itself is booked (`AutoIsBooked`); sessions open in order |
| `TillInv` | a request read what its kind needs (`ReadWhatItNeeds`); the entry and the session move together (`EntryIsVersion`); a till nobody overtook is `Coherent` |
| `ApprovalsInv` | every paper a running deed holds backs that deed (`HoldingsBack`); claims and deeds match one to one (`ClaimsMatchDeeds`) |
| `PinInv` | matches by rank; a verdict "valid" means one owner |
| `EarnInv` | entries are of submitted bills; what a back-fill will write has nothing of its sale yet; a clawback names a row that was returned |
| `BonusInv` | a month has no award or one, of an offer it had |
| `GrnInv` | a draft begins only where there is no receipt, so what one saw is empty |
| `BookInv` | who was registered after a request looked is in its `late` set (`LateOnesAreKnown`) |
| `PreInv`, `TrailInv` | tags, edits and counts fit the documents behind them; documents are owned, and a billed one stands |
| `TransferInv` | the sent lines stand while goods are under way; devices are scanned only then |
| `PlanInv` | a chosen line is right for the device it names; the register's base is the item's; cover starts right after it |
| `TotalsInv` | see below |

*The money of a bill.* With the header discount spread over the lines, each share but
the last is off by at most half a paisa, is capped at its line's value, and the last takes
the rest; the unit price of a line is rounded once more, which the quantity multiplies.
Hence the total is off by at most half a paisa for each line and each unit
(`DiscountReachesTotal`). That is a tight enough bound to tell a lost discount, and the
best the code gives: for a line of quantity `q` the rounding of its price alone costs up to
`q / 2`. Tax parts add up because the last part is the rest (`PartsAdd`, `RowsAdd`), however
few tax rows were stored: a row's write may fail, so the rows are a function on any
subset of the template's. The ledger is within 2 paise because that is checked before
the bill is left standing; a cash bill leaves open what was rounded, since it was
paid `100 * Rounded(grand, 100)` less what was prepaid.

*Sums.* Sums are folds of the community modules. `Sums` shows that such a fold is a
function `p` on the subsets with `p[{}] = 0` and `p[s] = f[x] + p[s \ {x}]`; that there is
exactly one, by the minimal counterexample among the subsets of a finite set; and from
it how a sum changes with a term, a part, a sum, a difference or a multiple.

*Together.* `MCBackOffice!Next` lets one desk step. `DeskSteps` shows that this is a step of
that desk and a stutter of each other one, so the invariants of the thirteen desks
carry over; a property that joins two desks (`RewardedOnce`, `ApprovalsAreSound`,
`PromisesAreKept`) follows from two of them. `MCSaleDesks` is treated alike.

### The desks that sell

| Invariant | What makes it inductive |
|---|---|
| `BenefitsInv` | a bill that holds the locks passed the checks on what it saw (`LetThrough`), so one that carries a paper saw it unused; a paper that reads unused is on no bill (`PaperIsFreeUntilBilled`). Hence a second bill of a paper did not see the first one's stamp |
| `GiftInv` | a request past its lock may redeem what it *saw*, and no request is past it for an expired gift |
| `ReturnInv` | the rows of submitted notes are disjoint, and the stock register holds what they name; a cancelled plan is accounted for by its note |
| `ExchangeInv` | the stages an exchange passes, with what is paid and given back at each |
| `BuyInv` | credits beyond the first were over an overtaken link; an order paid in full is settled |
| `RepairInv` | what a stage says was billed is among the bills of the job, with the requests that could still bill it |
| `FifoInv` | dates of units are in order and not in the future |
| `GateInv` | per day, the sum of the bills that were *judged* (for cash those nobody overtook, for the budget those that are not of a lagging date either) stays within the cap; a bill under way that saw every other one fits under it |

### What the proofs corrected

Working the inductive steps out for all values of the constants showed places where
the model or a property said less, or more, than the code does. They were corrected
from the source:

- `CancelPreBooking`: what happens to the advance was a CASE whose guards overlap (a
  CASE may take any arm that is true). The code is an if/elif chain, an advance that was
  not posted first, then a retained one, then the refund mode; the model is that chain now.
- `EarnedOnce` is stronger: a back-fill never adds to a bill that earned at the sale, or
  that had an entry when the back-fill read it.
- The bound of `DiscountReachesTotal` ignored the units of a line: the distance is half a
  paisa for each line and for each unit.
- A tax row (`BillTotals`) or a received line of a transfer (`StockTransfer`) may be missing
  anywhere, not only at the end: both are functions on a subset of the places.
- `PlanDesk` names the assumption that devices of one item have one base warranty, and
  its type invariant covers every variable.
- Assumptions TLC's instances met silently are named `ASSUME`s: finite sets, and "none"
  values distinct from the real ones.

### Only model-checked

- *Liveness*: `VisitsEnd`, `StaleTillsAreSwept`, `HeldDoesNotStick`. Fairness and ENABLED
  are outside what the prover supports.
- *The violations*, which are counterexamples and need no proof.
- *Induction over data* (an operator as a parameter) is out of reach too; the modules
  declare no RECURSIVE operator and use folds instead.

Some status names are written without spaces in the desks (`PendingClose`, `InStock`):
the SMT translation rejects strings with spaces in some obligations. They stand for the
program's words.

## 5. Disagreements met while reading

With a run (see `PROJECT.json`, "findings"): two active sessions of one store after a
reopen; the swept store that cannot open; two customers billed at one counter; the
queued sale that is never sent.

Without a run of its own, from reading the code beside its own comments or callers:

- A reopen rolls the store back to the session's day "so new invoices post on the
  correct day" (`api/session_api.py:779`), but every request of a session dated
  before today is refused as stale (`api/scope_guard.py:132`): the session can be
  settled and closed, not billed on.
- The opening screen calls a store whose date lies in the past unusable
  (`api/session_api.py:168`); `open_session` opens a till on that date all the same
  (`:304`), which is then stale at once.
- "A token can no longer move" (`pos_kiosk_token.py:35`) of the terminal statuses:
  `start_token` and `complete_token` (`api/token_api.py:1631`, `:1643`) do not look at
  the status.
- `drop_token`, `cancel_token` and `complete_token` end the billed visit without
  calling back the customers on Hold; the hourly job ends their visit instead.
- The 23:55 job is to ensure that all tokens are finished by the end of the day
  (`hooks.py:167`); it takes only those whose `expires_at` has passed, a day after they
  were drawn, so today's tokens wait for tomorrow's job.
- Written requests are kept out of the end-of-day sweep because a message that is
  still live must not be thrown away (`api/session_validation.py:145`); the hourly
  expiry (`pos_kiosk_token.py:138`) does not make that distinction.
- Two overlapping claims of one counter are both granted: the named lock ends before
  the commit and the reads come from snapshots (`api/token_api.py:369`). It is the only
  overlap that does it (`OnlyClaimsCollide`).
- "so the SW flushes queue even after page close" (`page/ch_pos_app/ch_pos_app.js:20`):
  the service worker only notifies open pages (`www/pos-sw.js:98`).
- A cashier who presses again after a lost answer bills the sale under a second
  request id, which nothing connects with the first (`payment_dialog.js:3484`).
- "No post-close cash movement" (`ch_cash_drop.py:11`): cancelling a drop does not look
  at the session.
- `create_cash_drop` compares with `total_cash_drops` of the session
  (`api/session_api.py:929`), which is only computed when it closes.
- Cancelling a settlement cancels its variance entry only when that was submitted;
  the draft the settlement itself created stays.

Properties stated in the modules and refuted by TLC (or observed while modelling), each
a comment or docstring of the code that its behaviour does not meet:

- *Cash.* A rejected petty-cash request can still be paid (`RejectedStaysRejected`,
  `api/petty_cash.py:265`); settled and closing variance differ when a bill lands between
  (`OneVariance`, `ch_pos_session.py:392`). A correction does not see later bills and asks
  for no new signature; a swept session leaves an expected float of 0; `auto_closed`
  survives an admin reopen, so the later close by hand skips the variance approval
  (`ch_pos_session.py:414`).
- *Tills.* "Closed is a terminal state by design" (`ClosedIsTerminal`,
  `session_api.py:746`): `reopen_settlement` or `create_settlement` writes over a close that
  committed after their read.
- *Gifts.* The row lock does not stop a second free invoice, as the row was read before
  (`OneFreeInvoicePerGift`, `gift_redemption.py:34`); a customer whose answer was lost
  cannot have the code again (`CodeCanBeHad`, `:446`).
- *Benefits.* A coupon's maximum is passed by overlapping bills (`CouponWithinMaximum`,
  `pos_invoice.py:735`). "FOR UPDATE prevents two cashiers racing on the same exception
  request and double-spending the approval" (`NoPaperServesTwice`, `pos_api.py:3574`): the
  second request waits for the row and then judges it by its own, older, first read.
- *Pre-bookings.* A draft advance becomes no credit on cancellation
  (`RetainedAdvanceIsCredit`, `pos_api.py:1222`); an order that wakes up again claims a unit
  that was tagged meanwhile. *Proformas:* the advance does not come off when the page was
  refreshed in between (`AdvanceComesOff`, `:18754`); a proforma may
  be billed and not shown, shown and not billed, billed twice (`BilledIsShown`, `:3485`,
  `ShownIsBilled`, `BilledOnceOnly`); an accessory added to a loaded order is refused
  (`:3805`).
- *Returns.* A waiting return that is approved cancels no plan and claws nothing back, so
  a plan stays on a device that came back (`NoOrphanPlans`, `:6474`) and the reward on a sale
  that was undone, though "a return without incentive recovery is a financial integrity
  failure" (`ReturnsAreRecovered` of `Incentives`, `:7153`); a credit-only note
  restocks the device (`CreditOnlyKeepsGoods`, `:6817`). *Exchanges:* the ledger shows a
  refund twice (`RefundIsBookedOnce`, `:7650`); approving a waiting exchange resumes no
  replacement; each press has a new request id (`payment_dialog.js:3484`); an exchange made
  offline is queued as an ordinary sale (`:3513`), since the branch for returns in
  `sync_service.js:420` is never reached.
- *Incentives.* The bonus job of the 1st awards the month that has just begun, not the
  previous one (`PreviousMonthIsPaid`, `hooks.py:171`).
- *Buyback.* The till lets the customer choose "Buyback = cash/UPI/bank payout / Exchange =
  trade-in for a new device" (`buyback_workspace.js:3007`), yet one device can be paid out and
  credited on a bill, without any overlap (`ValueGivenOnce`); the
  approval link writes the status blindly. *Repair:* plain collection looks for no earlier
  bill (`RepairBilledOnce`). *FIFO:* a unit that came back passes older ones by its first
  inward (`OldestGoesFirst`, `pos_api.py:17709`).
- *Totals.* Lines and tax rows are split apart and differ by paise (`LinesAddUpToTaxRows`,
  `:2268`); the breakup uses the template's rate whatever the item's (`BreakupIsTheTax`).
  The loss of every tax row together with the lines' values passes the ledger check; a lost
  SGST row makes the fallback rate 9 percent; payments are rounded after the cash limit
  was checked.
- *Gates.* A refund makes room for more cash on the same day (`ReceiptsStayBelow`,
  `cash_receipt_limit.py:4`); goods at rate zero pass the free-accessory gate
  (`FreeNeedsLeave`, `discount_control.py:189`). The budget sums the calendar day while bills
  carry the business date, so on a store whose date lags bills in sequence exceed it
  (`BudgetHoldsOnEveryDate`, `discount_control.py:268`); the log of an exception that refuses a bill rolls back with
  it; a row below market price stays blocked with a manager's grant; submit does not
  validate again.
- *Plans.* A plan may name no serial, be bought within the window of a return, insure the
  new phone as the customer's own, be priced on another device, or cover a device that was
  never sold (`PlansNameASerial` `:5044`, `WindowIsFromTheSale` `:5374`,
  `OwnDeviceIsNotTheNewOne` `:5088`, `EarlierIsPricedOnItsDevice` `free_sale_api.py:280`,
  `PlanForASoldDevice` `:5016`). `get_warranty_plans` limits its rows before it filters them,
  and a plan on offer may be refused at billing.
- *PINs.* One readable row among unreadable ones is enough to lock a till that gave no wrong
  PIN (`OnlyWrongPinsLock`, `ch_manager_pin.py:326`).
- *Customers.* Two tills that register a number at once both succeed (`OneCustomerPerNumber`,
  `pos_api.py:15296`); two first shipping addresses stand side by side
  (`OneShippingAddress`); the counter is told "unknown" of a number that is somebody's
  WhatsApp, and "found" of a disabled customer whose number may be registered anew
  (`UnknownIsNew`, `FoundIsKnown`, `token_api.py:2282`); the quick edit reports an e-mail as
  changed that its save fetches back from the contact (`pos_api.py:14842`).


## 6. Not modelled, and why

- *Of modelled components* (their status in `PROJECT.json` is then "partly"): the exact list is
  in each component's note there. The larger ones: token numbering and waiting estimates;
  loyalty, foreign currency and ERPNext's own ledger; the vouchers a plan issues; the
  look-up of exchanges; the transfer lists and e-way bill; changes of a customer's name,
  number and PAN, which another app checks; who may call an endpoint.
- *A second tab* of the same till: the browser's store would be shared, each tab's
  `_syncing` flag not. *The ten-minute window* of the look-up by content plays no role,
  since every press has an id of its own.
- *MariaDB, Redis, ERPNext, the buyback, repair and item-master apps* are external: modelled
  as this code uses them, and marked external in the map.
- *Payment gateway, sharing, AI:* calls of outside services. *EDC settlement:* its outcome is
  an input of `StoreDay`. *Offers, guide, search, dashboards, reports:* read-only. *Access
  rules:* every action is taken by someone who may. *Patches, fixtures, set-up:* run once.
- *Thin front ends of other applications*: they keep no state that other parts act on.

## 7. Plan

Done: the modules of section 2, and a theorem for every safety and action property of
their runs. What could follow:

| Order | What | How |
|---|---|---|
| 1 | what a desk promises as an abstract specification (an approval used once, a benefit served once), and the desk as its refinement | as `LifecycleKeepsDays`, `SlotRefines` and `StoreRefines`, on the invariants of section 4 |
| 2 | step properties of the desks (a submitted note, a received order, a paid bonus are final) | each from its inductive invariant |
| 3 | modules: token numbers (`_next_daily_seq` under overlap), EDC settlement, free items on a partial return | new |
