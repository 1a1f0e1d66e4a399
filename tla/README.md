# Formal models of Remitt: backend, Earn vault and wallet

Remitt is a mobile wallet for USDC on Stellar. A user's account is a 2-of-3
multisig (device key, Remitt's KMS key, compliance key); the treasury pays fees
and sponsors reserves; savings go into a Soroban vault on top of Blend. These
modules model the parts whose correctness depends on the order in which
independent things happen, on where a sequence of calls is cut short, or on
arithmetic: the Postgres functions, the Edge Functions that act on the ledger,
the two contracts, and the flows of the phone that keep keys, passcodes,
requests and savings consistent with them. They are checked with TLC on small
instances and, where stated below, proved for every instance with TLAPS.

Paths below are relative to the repository root. `PROJECT.json` maps every
definition to the lines it models.

## 1. The system

| component | state it keeps | operations | talks to | what is hard |
|---|---|---|---|---|
| Earn vault (`contracts/earn-vault`) | shares, total shares, net deposits, high-water mark, fee settings, admin | initialize, deposit, withdraw, withdraw_all, set_fee_bps, set_fee_recipient, propose/accept_admin, upgrade | Blend pool, USDC token | integer rounding; accrual inside every call; the fee recipient as a caller |
| Treasury contract (`contracts/treasury`) | admin, its USDC | claim_fees, claim_all_fees, sweep | Earn vault as its fee recipient | reads its shares before an accrual mints more |
| Channel pool (`channel_accounts`, `_shared/channels.ts`) | busy, locked_until per channel | claim, release | Postgres row locks, the ledger's sequence numbers | concurrent claims, crashes, leases that end too early, lost answers |
| Activation (`reserve-channel`, `activate-account`, `stellar.ts`) | none of its own | reserve, client signs, activate | channel pool, KMS, ledger | a claim held across two invocations and a phone |
| Custody (`fee-bump`, `recover-account`, `close-account`, `set-freeze`) | account signers and balance (ledger), freeze list, payout queue | co-sign a send, recover, close, freeze/unfreeze | channel pool, KMS, ledger | checks made before a submission that lands later |
| Cash-in (`create-intent`, `deliver-cash-in`, `cash_in_intents`) | status of intents | create, match (outside the repository), deliver | channel pool, ledger | read-pay-mark without a lock; lost answers and lost writes |
| Recovery passcode (`recovery_pins` and three SQL functions) | hash, failed, locked_until | set, verify, recover_profile | close-account, recovery | lost updates; an exception that rolls a counter back |
| Client wallet (`wallet-context.tsx`, `stellar.ts`, `auth.ts`, `directory.ts`) | key pair, profile and flags in secure storage; the app's memory; the profile row | create, verify e-mail, recover, add cash, close, reset | all of the above | long chains of awaits cut by crashes, errors and lost answers; several phones |
| Device passcode (`pin.ts`, `biometrics.ts`, `lock-screen.tsx`) | salted hash, wrong tries, lock until; the lock that is shown | unlock, confirm, set, change, clear | every flow that moves money; the recovery passcode | handlers that are closures of an earlier lock; two stores of one passcode |
| Payment requests (`create-request`, `requests.ts`, `send.tsx`, `activity.tsx`) | request rows; send screens | ask, list, pay, decline | fee-bump, notifications, directory | the mark that is not tied to the payment; a button that can be pressed again |
| Usernames (`wallet-context.tsx`, `directory.ts`) | profiles.username; the name on the phone | change, look up, sync of the profile | payments | looked up, stored and registered in separate calls; every other edit of the profile upserts the whole row |
| Earn client and ledger (`earn-vault.ts`, `earn-ledger.ts`) | principal per address | deposit, withdraw, poll, retry | vault, fee-bump | retry of a transaction of unknown outcome |
| Earn screen and chart (`earn.tsx`, `savings-chart.tsx`, `earn_snapshots`) | points of balance and principal | load, log a point, draw bars | Earn ledger | two readings of two moments taken for one |
| Balance, activity, contacts (`wallet-context.tsx`, `contacts.ts`, `stellar.ts`) | what is shown; the stored contacts | refresh, payment stream, merge, star, reset | ledger | answers out of order, and answers that outlive the account they were asked for |
| Rates, history, notifications, inbound e-mail, avatars, layout, scripts | samples, local lists | inserts and upserts | | little: last write wins, best-effort |

What makes each correct, in a sentence:

- **Vault and treasury:** shares add up; the vault can pay what it quotes; profit
  is taxed once, at no more than its rate; nobody is diluted by somebody else's
  call; fees never reach into what was paid in.
- **Pool:** two transactions never build on one sequence number, and a channel
  lost to a crash comes back.
- **Custody:** a recovered account has one live device key, a revoked key stays
  dead, a freeze holds, payouts are only queued for money that has arrived.
- **Cash-in:** an intent is paid once, delivered means paid, an intent whose
  pesos have come is never retired.
- **Recovery passcode:** a bounded number of wrong tries locks, and the lock holds.
- **Wallet:** a phone that shows an account holds its key; an account that is open
  stays within its owner's reach, through the phone or through the directory.
- **Device passcode:** the pad locks after its tries, every flow that asks for the
  passcode is answered, and phone and server keep the same one.
- **Requests and names:** paid means paid, one screen pays once, a name leads to
  its owner.
- **Earn client, screen and chart:** a deposit asked for once is made once, under
  which timing; what is shown as earned is interest.
- **Balance, activity, contacts:** what is shown is of the account the phone holds,
  and not older than what was promised; a star that was lit stays lit.

## 2. Modules

| module | models | proofs |
|---|---|---|
| `SequencePool` | what the pool promises: one user of a channel, each number once | |
| `ChannelPool` | `claim_channel_account`, `release_channel_account`, both kinds of request that use a channel, sequence numbers; implements `SequencePool` | `ChannelPoolProofs` |
| `EarnVault` | every entry point of the vault contract but `upgrade` | `SavingsProofs` |
| `Treasury` | the treasury contract, composed with `EarnVault` | `SavingsProofs` |
| `CashIn` | `create-intent`, `deliver-cash-in` | `CashInProofs` |
| `RecoveryPin` | `set_recovery_pin`, `verify_recovery_pin`, `recover_profile` | `ServerProofs` |
| `Custody` | `fee-bump`, `recover-account`, `close-account`, `set-freeze` | `ServerProofs` |
| `Wallet` | a user's phones, the ledger key and the directory row: onboarding, recovery, closing, reset | `WalletProofs` |
| `Feed` | the balance, the activity and the contacts of one phone: refreshes, the payment stream, merges and stars | `WalletProofs` |
| `Passcode` | `pin.ts`, `biometrics.ts`, the lock screen, the flows that wait for it, the sync to the server | `PasscodeProofs` |
| `Payments` | requests, send screens, their transactions, usernames and the sync of profiles | `PaymentsProofs` |
| `EarnClient` | `earnDeposit`, `earnWithdraw`, `invokeEarn`, the principal ledger | `EarnClientProofs` |
| `EarnHome` | the load of the Earn screen, `chartMovementNow`, snapshots, `bucketize` | `SavingsProofs` |
| `MC...` | the instances of the runs | |

`Treasury` extends `EarnVault`: its steps are the vault's with the treasury as the
caller. `ChannelPool` is related to `SequencePool` by a refinement mapping. The
others meet at the state they share and abstract each other there: `Custody`,
`CashIn` and `Wallet` leave the channel to `ChannelPool`; `Wallet` takes the Edge
Functions of `Custody` as single steps; `Passcode` does so with `RecoveryPin`;
`EarnClient` and `EarnHome` reduce the vault to an account that earns interest;
`Feed` takes the ways into and out of an account, `Wallet`'s subject, as single
steps. A proof module may be about two components that nothing connects
(`RecoveryPin` and `Custody`, `Wallet` and `Feed`, the vault and `EarnHome`); the
names of one of them then carry a prefix (`PinInit`, `FeedNext`, `HomeSpec`).

### ChannelPool and SequencePool

State: `busy`, `lease` (the time left of `locked_until`) and `rowLock` per row;
`seqNum` per channel on the ledger; `pc`, `ch`, `seq`, `ttl`, `tx` per request.
Time is kept as time left and stops at "in the past", so that the state space is
finite without a clock bound. `Init` is what `setup-channel-accounts.mjs` leaves.

The claim is one SQL statement, but two steps of the model: the SELECT that
takes the row lock (`FOR UPDATE SKIP LOCKED`) and the commit of the UPDATE. A
server request then builds, submits, is answered and releases. An activation
does it in two invocations: `reserve-channel` claims and returns the sequence
number, the phone builds and signs, `activate-account` looks the row up by key
(it asks only whether it is busy), submits and releases. Any request may crash
anywhere; a release may be lost; a submitted transaction may be applied after
its request has given up, until its time bound has passed.

`clean` is a history variable: no lease has ended while work done under it was
still going on. It is the assumption under which the pool is safe.

`SequencePool` says what the pool is for, without rows, locks, leases or time: a
request takes a channel nobody uses, is served with the next number at most
once, and leaves. The refinement (`Promise` in `ChannelPool`) maps the users of a
channel to the requests that hold it or have a transaction that may still be
applied, and the end of `clean` to the end of the promise.

### EarnVault and Treasury

A contract call is atomic and a panic undoes it, so every call is one action and
every panic a guard. Amounts are integers, every division rounds as the
contract's does. The scales (`VIRTUAL_SHARES`, `VIRTUAL_ASSETS`, `BPS_DENOM`,
`SCALAR_12`) are parameters: rounding is what can go wrong, and small scales make
it large enough to see. Blend's `b_rate` may change to any of a set of rates
between calls, downwards too. `withdraw_all` is its two accruals in a row;
initialize is `Init`.

In `Treasury` one holder is the treasury contract: it never deposits, claims by
`withdraw` as any holder does, and moves its USDC out by `sweep`. `claim_all_fees`
passes on the share balance it has read before the accrual inside `withdraw`
mints more, and leaves those for the next claim. Two history variables: `fell`,
the rate has fallen; and `rounding`, what roundings may have cost each depositor
until then: for a call of its own the price of one share, for any call what Blend
keeps, by which the assets after it fall short of the assets before it and the move.

### CashIn

Every await of the two functions is a step boundary, and what an invocation knows
of a row is what it has read. `tidy` and `sure` are history variables: creations
(deliveries) did not overlap and none was half done. The matching of a deposit
with an intent is done outside the repository and is an external action. The
channel is left to `ChannelPool`.

### RecoveryPin

A call is a read and a write: under READ COMMITTED another call may commit in
between. `recover_profile` raises after its UPDATE, and the exception undoes it
(`RecoverWrong` changes nothing). `misses` and `age` are history variables that
count the wrong tries the owner would count; `alone` says no two calls
overlapped.

### Custody

One account. A request reads what it decides on, submits, and is answered in
separate steps; a transaction that was not answered in time may land later. A send
carries the signature of any device that ever had a key, live or not. Remitt and
compliance are signers throughout, so weights reduce to: Remitt with a live device
key, or Remitt with compliance. A recovery revokes the master and the keys it has
read; keys are named by the recovery that brings them. Amounts are stroops. A
Soroban call through fee-bump passes the same check and co-signature and stands
here as a send that is no cash-out; so does a payment of the treasury that carries
the fee memo.

### Wallet

Several phones of one inbox. A key pair is a number and names the account its
public key is the address of; `ledger[a]` is the device key that controls `a`.
`disk` is a phone's secure storage (the secret, the public key, whether a profile
is stored, whether it says the e-mail is verified), `app` the memory of its app,
`job` the locals of the flow under way, and `pc` the await it is at. A crash
loses all but `disk`; a lost phone loses that as well. Each server call is one
step with its three outcomes: done, done and not answered, refused.
`registerUser`'s upsert does not send `email_verified`, so it never takes it back;
`mark_email_verified` is sent without waiting; `updateAddress` matches no row when
the row has been moved already, and says nothing. An answer to `refresh` is shown
whenever it comes. `slip`, `moved` and `spoiled` are history variables that name
what the properties except: a directory call that was lost, a row that a recovery
has moved, a phone left with half a key pair or overtaken in its recovery.

### Passcode

One phone. The lock screen's handlers are closures: the timer behind the last
digit (`typed`), a passcode being checked or set (`checks`) and a biometric prompt
(`prompts`) go on with the lock they were made for. `Resolve` is `finish`: it
resolves the promise of that lock and takes down whatever lock is shown. `waiting`
is the set of promises nobody has resolved. `flow` says who asked (the Gate, an
action that moves money, the change of the passcode, closing, the new passcode,
onboarding or a recovery) and what follows the answer. The stored hash and its
salt are written one after the other, so `salt` may be another's. `sent` are the
syncs on their way to `set_recovery_pin`, each with the passcode that proves it.
Without a hash or a salt `verifyPin` lets anything pass and leaves the counter as it
is (`Verdict`, `Right`). A crash may fall between the two writes of `setPin`
(`Crash`), after the second one and before or after the counter is removed
(`SetPinCut`), and among the deletions of `clearPin` (`ClearCut`).
`wrongs` is a history variable: what the owner would count; `overtaken`: a
closure came back to a lock that was not its own; `slip`: a sync was lost, never
sent, or sent in a way the server refuses.

### Payments

`table` are the rows of `payment_requests`, `list` what an Activity screen shows,
`patches` the status updates nobody waits for. `screens` are send screens: a
screen is opened blank, from the list, or from a notification, whose request may
be in any state; a step of it is an await of `onSend`. A send to a username goes
to whoever has it when it is looked up. What the request filled in can be typed
over (`edited`) while the screen still marks the request. A transaction carries
the sequence number that was loaded for it and lands, or is dropped, whether or
not its screen still waits (`awaited`). `slip` is a history variable: an answer of
the ledger was lost.

A change of username is three calls: look it up, store it on the phone, upsert the
profile, where the unique index may refuse it unheard. The look-up may fail: then
`resolveUsername` answers null, as for a name nobody has, and the change goes on
(`ChangeUsername`'s second disjunct). Accounts start registered under different
names; how that is done is `Wallet`'s subject. `Boot` registers the
profile once more. Every other edit of the profile (`UpdateProfile`, `SyncProfile`)
sends the whole row with the username of the render it was called from, and whether
it arrives nobody learns. `astray` is a history variable, a set of accounts: those
whose look-up failed to find the owner of the name, those that are after one name,
those whose registration was lost, and those whose row a sync that had begun earlier
put back. An account leaves the set when its name is registered after all. It says
nothing of the others: the owner of a name somebody else shows is not astray, and
neither is an account whose failed look-up hid nobody.

### EarnClient

A call asks for the position (withdrawals only), loads the account, sends its
transaction, polls, and records the principal; each is a step, a call may throw
after any, and a transaction may be dropped, fail, or be applied as long as its
sequence number is the next one, whether or not its call still waits for it.
After an unsuccessful poll the call goes back to loading the account, once. The
vault is reduced to an account that earns interest; its rounding is `EarnVault`'s
subject. `slipped` and `orderly` are history variables: some first transaction
landed in the 7 seconds between the last poll and the second loading; calls came
one after another and none ended unsure of its transaction or unrecorded. The app
may show the account on one device or more: nothing keeps calls apart.

### EarnHome

The position, the principal, and the readers that pair them: the load of the
screen and the end of every call that moved money. A reader reads both by two
requests in either order; the load shows the pair and logs it when the last point
is older than 15 minutes (or its age cannot be read), the other logs it always. A
principal that cannot be read is `Unknown`: the screen shows no earnings, the point
says 0. `BarEarned` and `ChartEarned` are `bucketize`'s earned part, over every
choice of bar edges. `orderly`, `steady` and `apart` are history variables: calls
came one after another; no pair was read while a call was under way; readers came
one after another.

### Feed

One phone. The balance and the activity are what the account's payments made of
them, so each is the number of payments its answer has seen, and whose they were
(`shown`). `jobs` are what is under way: a refresh, which shows both parts, calls
the balance loaded and goes on to merge the counterparties into the contacts; an
event of the stream, which asks for either part and shows each by itself; the
boot's reading of the contacts; a star. A rewriting of the contacts reads the
stored list, saves what it made of it and shows that, in three steps; a list that
cannot be read is an empty one. The stream starts from now when it opens, and
announces nothing of what lands while it is down.

Nothing is stopped by a reset (`WipeAccount`): the jobs go on, `old`, and show and
save what they find for whoever the phone holds by then. A restart ends them and
begins with a refresh and a boot's reading. `due` (what a refresh or an event has
promised to show), `wanted` (the contacts the user has starred) and `slips` are
history variables. The slips say what the properties except: `missed`, a request
failed or an older answer took the place of a newer one, until a refresh made
alone; `stray`, an answer of before a reset was shown; `lost`, two rewritings
overlapped or one could not read or save; `leak`, a rewriting of before a reset
went on after it.

## 3. Runs

| run | instance | shows |
|---|---|---|
| `pool` | 1 channel, 2 server requests, 1 activation | while leases outlive work: no channel has two users, no `tx_bad_seq`, and the pool implements `SequencePool`; and a channel left busy becomes claimable again |
| `vault` | 2 depositors and the treasury, rates of 1, 1.5 and 2, 4 calls, 2 rate changes | the properties of the vault, with the treasury claiming and sweeping; fees, and the calls of others, leave what was paid in alone (`PrincipalKept`) |
| `cashin` | 3 intents of 2 users, 3 deliveries | paid once, delivered is paid, one open intent, under the named assumptions; funded intents stand, always |
| `pin` | 2 sessions, 2 passcodes, 3 tries, 7 calls | the lockout and the lock, for calls that do not overlap |
| `pin_reset` (violation) | the same | wrong tries at recovery never lock |
| `custody` | 2 sends, 2 recoveries, 1 closing, 2 stroops | one key, no key revived, payouts settled, a freeze holds |
| `earn` | any 3 of 2 deposits, a withdrawal and an exit, 2 at a time | a retried call moves money twice only by a slip; earned is interest while calls are orderly |
| `wallet` | 2 phones, 3 key pairs, 1 fault | a phone's key fits its account, what it says of its e-mail holds on the server, an account gets out of reach only where its owner gives it up |
| `lock` | 4 locks, 2 passcodes, a pad of 2 tries, 1 fault | every flow is answered, the pad locks, phone and server agree on the passcode |
| `requests` | 2 people, 3 names, amounts of 1 and 2 from a balance of 1, any 3 of requests, screens and renamings, 1 lost call | paid means paid, a screen pays once, a name leads to its account and no other |
| `feed` | 2 accounts, 2 jobs at a time, 1 payment of each account, 1 failure, reset or restart | what is shown is due and of the account the phone holds, stars stay lit, contacts are the account's |
| `savings` | any 2 of 2 deposits, a withdrawal and an exit, 1 load, interest of 2, 1 error | earned is interest, on the screen and over every range of the chart |

### Why these bounds are enough

- **pool:** the longest known scenario needs a stale holder, the request that
  took over its channel, and a third one let in by the stale holder's release;
  an activation must be one of them, and they must meet at one channel. A lease and a time bound of one tick give
  every order of "lease ends", "transaction expires" and "work ends".
- **vault:** two depositors, each of which may become the fee recipient in place
  of the treasury. The rate rises, falls and rises again within two changes of a
  deposit, so that the mark is passed, missed and passed again. Scales of 1 and 2
  make every division inexact for some call. One depositor has 3 units, so that it
  can come twice and at two prices, the other a single one, of which a rounding takes
  the largest part.
- **cashin:** two intents of one user race, a third one of another user shows
  what must not be touched; three deliveries are one more than a double payment.
- **pin:** seven calls set a passcode, lock after three tries, wait, and lock
  again at once; two sessions are what an overlap takes.
- **custody:** two recoveries overlap or follow each other; a payment of 1 and a
  cash-out of 2 from a balance of 2 compete; money may arrive.
- **earn:** deposits of 2 and a withdrawal of 1, so that interest of 1 can be
  withdrawn and a principal remain, and a withdrawal may meet a principal read as
  0; the wallet affords a second deposit only after a withdrawal. A second call at
  a time is what a race for a sequence number takes; three calls are deposit,
  withdrawal and deposit, or exit.
- **wallet:** the second phone recovers the account of the first and the third key
  recovers it back, or opens another account beside it; both phones may be in the
  middle of a flow. One fault cuts any flow anywhere.
- **lock:** the first passcode, the two locks of a change, and one more that is
  refused, cancelled, passed or overtaken; two tries lock the pad, so the second
  lock can be reached with a count left by the first. The fault is a crash, inside
  `setPin` and `clearPin` too, a lost phone with a recovery, or a lost sync.
- **requests:** one request with two screens that pay it, two requests, or two
  renamings and what is sent to them, to the free name or, after a look-up that
  failed, to the other's; an amount the balance does not cover is refused by the
  ledger. The lost call is a status update, a look-up, a registration or an answer
  of the ledger.
- **savings:** a deposit and what takes it out again, with interest before,
  between and after, and the load anywhere among them.
- **feed:** two answers cross, two rewritings of the contacts overlap, and one job
  outlives a reset into the opening of the other account: each takes two jobs or a
  job and the break. A payment seen by one answer and not by another is what makes
  one older.

The type invariants of all components but the pool and the vault are proved
(section 5) and not run.

Symmetry is used only over sets of interchangeable values (phones, accounts,
sessions, passcodes, deposits, deliveries, recoveries, jobs) and only in runs without
liveness. `pool`, `vault`, `custody` and
`feed` check deadlock.
The others switch it off: their calls, locks or screens are one-shot or counted,
so the system stops.

### Fairness

Only `pool` checks a liveness property, `LeaseSelfHeals`. It assumes that time passes
(`WF(Tick)`) and that an open claim, a single statement in Postgres, ends
(`WF(ClaimCommit)`; a crash of the request ends it as well). Nothing is assumed
of requests: they may stop anywhere, which is what the lease is for. Elsewhere no
code retries on its own and no user has to come back, so nothing would be
justified: what must happen in the end is stated as safety (`PadAnswers`: the
promise somebody waits for is still the one that can be resolved; `Reach`: the way
back to an account is still there).

## 4. Disagreements between the code and its documentation

`pin_reset` is run: `scripts/supabase-schema.sql:207` promises a lockout of
recovery. The exception that reports the wrong passcode rolls its count back.

The exceptions the properties name are each something the code does; the models
reach every one of them, and dropping the exception makes TLC show it. An exception
is also the end of what is checked: a hazard it takes in whole has no property in
`PROJECT.json`, one it takes in by half has a note that says which half.

- **Pool, `clean`.** `docs/custody-testing.md:25` reports zero `tx_bad_seq`
  collisions. `release_channel_account` frees a row by key, without asking whose
  claim it is, and the lease (60 s from the claim) may end before the transaction
  (60 s from the build).
- **Cash-in, `sure`.** `deliver-cash-in/index.ts:98` promises to refuse to
  double-deliver. The status is read before the payment and written (best-effort)
  after it.
- **Cash-in, `tidy`.** `create-intent/index.ts:10` promises one open intent per
  user. Retiring and inserting are two statements.
- **Custody.** `docs/security-custody.md:201` says that closing sweeps the balance.
  A balance of exactly 0.0000001 fails `balance > 0.0000001`, is not swept, and its
  trustline cannot be dropped.
- **Wallet.** Closing asks the app's memory whether the account is active
  (`wallet-context.tsx:640`): while `activated` is stale, or a refresh has failed,
  the phone is wiped and the account stays open. `addCash` opens the account of
  the stored key, which after a recovery is not the one that is shown.
- **Feed.** An answer has no turn: one that was asked for before a reset is shown,
  and its counterparties are stored as contacts, for the account opened next
  (`wallet-context.tsx:218`, `258`). `contacts.ts` reads a list that fails to parse
  as an empty one and saves it back: the stars are gone.
- **Usernames.** Saving an edited profile calls `changeUsername` and then
  `updateName` (`edit-profile.tsx:55`), which upserts the username of the render it
  was called from: the directory is given the old name back, until the next start.
  A look-up that fails reads as "not taken" (`directory.ts:134`, `138`), so
  `changeUsername` stores a name another account has (`wallet-context.tsx:437`); the
  unique index refuses the upsert, which nobody hears of. The phone shows from then
  on a name that leads to somebody else, for a month at least, and every start of the
  app is refused in the same way. Two people who go for a free name at once end
  likewise: the one who registers last shows the other's name. No doc, comment or
  test promises otherwise, so this is an exception of `NameLeadsHome` (`astray`), and
  no run that expects a violation.
- **Passcode.** `bioKey` belongs to the previous lock until the effect of the next
  one has run, so a prompt pressed in between answers a confirmation without a
  passcode; a crash between the two writes of `setPin` leaves a salt that is not
  the hash's, and no passcode fits; one after them leaves a new passcode that the
  server never hears of, next to the count of the old one; a crash after a recovery and before
  `ensurePinSetup` (`recover.tsx:111`) loses the proof that the next sync needs; a
  late closure takes down another lock, whose caller hangs.
- **Payments.** The recipient can be typed over while the request to be marked
  stays (`send.tsx:70`, `128`); a retry after a lost answer pays twice.
- **Earn screen.** A principal that could not be read becomes 0 in the point that
  is logged (`net ?? 0`), for good; readers that overlap log their points out of
  order.

Two things were read in the code and are in no model:

- `reset` is memoised without its dependencies (`wallet-context.tsx:546`), so the
  `publicKey` it sees is that of the first render, `null`: the push token it means
  to remove stays, as it does when an account is closed.
- `watchIntent` polls `cash_in_intents` with the client's key, which
  `onramp-schema.sql:32` revokes: every poll answers nothing, and the cash-in screen
  keeps waiting.

## 5. Proofs

Every theorem holds for all values of the constants that satisfy the named
assumptions of its module. The assumptions say that sets of different things are
disjoint, that times, scales and funds are naturals, positive where the code
divides by them, and that null values are no ordinary ones.

- **ChannelPool.** `IInv` adds to the types: a row lock belongs to the one open
  claim on a row that is still claimable; a transaction in flight belongs to a
  request past its submission; and while `clean`, whoever uses a channel holds it
  under a running lease, alone, with the next sequence number. Exclusivity alone
  is not inductive: it is the lease that keeps a claim away from a busy row, and
  the row lock that keeps a second claim away from a free one. Proved:
  `PoolIsExclusive`, `PoolPreventsBadSeq`, `ClaimsAreSafe`, `TypeCorrect`, and on
  top of them the refinement `PoolKeepsPromise`: a claim that commits is a `Take`,
  a transaction that lands a `Serve`, every way out a `Leave`, a step that ends
  `clean` a `Break`, the rest stutters.
- **EarnVault and Treasury** (`SavingsProofs`, for `Spec` and `FundSpec` alike).
  Even the type of `totalShares` (it never goes negative) rests on its being the sum
  of the balances, and a sum is a fold, which the provers cannot unfold. The
  invariant says it without one: `SumsTo(f, n)` states that some measure of the sets
  of holders adds up `f` and gives `n`; every step carries the measure along. That
  the fold computes this measure is proved once, for any finite set and any choice
  of order (`SumMeasured`): of the sets for which it does not, there would be a
  smallest, by the well-founded order of inclusion, and taking one element out of it
  leads to a smaller one (`MeasureTaken`, `TakenOnce`). Proved: `TypeCorrect`,
  `BooksBalance` (`SharesAccounted`), `TaxedOnce`, `FeeIsFair`, `PriceIsKept`,
  `YieldIsYield`, by inequalities over the divisions of the contract, the last one
  because Blend moves whole b-tokens, so the assets follow an amount up to two
  roundings; and `StaysSolvent` (`Solvent`): values rounded down add up to no more
  than the value of all shares (`PartsOfTheWhole`), which stays below the assets and
  the virtual assets together: with one virtual asset, at most the assets. That
  needs the contract's `VIRTUAL_ASSETS` of 1
  (`contracts/earn-vault/src/lib.rs:41`), and is stated so; with 2 it is false.
  `PrincipalIsKept` (`PrincipalKept`) is the last. That nobody falls below what it
  came with is not inductive: between the calls a part of the profit waits to be
  charged, and a holder is worth more on paper than it will keep. `Covered` prices
  the shares of a holder at the fund without that part (`Base`), over the shares
  there are, and asks, multiplied out, that they and what roundings may have cost
  make up for what has left its wallet. Charging the fee only raises that price
  (`FeeFromProfit`): the fee is minted against the assets left after it, and is paid
  by the profit as long as it is at most half of it. A call moves assets and shares
  at the price of the whole, the caller's own to within one share (`SharePrice`), and
  Blend takes no more than what `BlendKeeps` counts (`CoverTraded`, `BaseMoves`);
  interest raises the price (`BaseRises`). Stated for one virtual asset and a fee of
  at most half the profit (`FeeIsCapped`): the contract has 1 and 30 %
  (`lib.rs:41`, `44`, `45`).
- **CashIn.** `PayInv`: where a delivery is tells what became of its payment; every
  payment is some delivery's; while `sure`, an intent has at most one unsettled
  delivery, and no payment yet if that one may still pay. Proved: `PaidOnce`,
  `DeliveredMeansPaid`, `FundedStand`, `OneOpen` (with an invariant of its own),
  `TypeCorrect`.
- **RecoveryPin** (`ServerProofs`). `PinInv`: between calls the row agrees with the history, and a
  call that runs alone has read the row as it is. Proved: `LockoutWorks`,
  `LockIsKept`, `PinTypeCorrect`.
- **Custody** (`ServerProofs`). `IInv`: the key of a recovery is nowhere before it lands (no
  signer, not revoked, not read); while recoveries do not overlap, at most one may
  still change the signers and it revokes all there are. Proved: `OneKey`,
  `KeysDie`, `PayoutsSettle`, `Frozen`, `TypeCorrect`.
- **EarnClient.** `SeqInv`: a landed transaction's number is behind the account's; a
  second transaction has no smaller number than the first, and once the first has
  landed its number is behind as well, so only one has a turn. `Books`: while
  calls are orderly at most one is under way (`Underway`); until its money moves
  the principal explains the position, from then on what it is about to write
  does. That a withdrawal which empties the position covers the principal is the
  strengthening `EarnedIsInterest` needs. Proved: `Once`, `Earned`, `TypeCorrect`.
- **Passcode.** `PadInv`: one passcode is checked at a time, a check has read the
  counter as it is or a higher one, and while the pad is not locked the counter
  covers the wrong tries: the lost update of `pin.ts` cannot happen because
  `onComplete` drops digits while others are checked. `ScreenInv`: until a closure
  comes back late, every closure belongs to the lock that is shown and that is the
  only one anybody waits for. `AgreeInv`: with no sync lost or refused, one is on
  its way at most, it carries the phone's passcode and the server will take it; and
  the lock of a setup finds a server it can prove itself to. Proved:
  `PadLocksCorrect`, `PadAnswersCorrect`, `PasscodesAgreeCorrect`, `TypeCorrect`.
- **Payments.** `NamesInv`: no two rows have one name; a phone that is changing its
  name shows the new one once it is stored; and the new name of an account that is
  not astray is nobody else's in any of four places: the row, the phone, a change or
  a sync under way. So its registration cannot be refused, and one that is refused
  was astray before (`RegisterNames`); and a sync cannot take a name that somebody
  else is about to register. `PayInv`: a screen waits for one transaction at most,
  the one it has sent. `PaidInv`: a screen past its form holds what its request asked for
  unless it says edited; one that was told its payment landed has it on the
  ledger; a mark on its way, and a status that says paid, has a finished screen
  behind it. `OnceInv`: while no answer is lost every transaction is waited for,
  and what a screen has paid it knows of. Proved: `NamesLeadHome`,
  `PaidMeansPaid`, `PaysOnceCorrect`, `TypeCorrect`.
- **Wallet.** Four layers, each resting on the one before. `Owned`: keys are made
  once (`Known`), and for every step of every flow which of a phone's pair of keys is
  whose (`OwnKeys`, `Stage`, `Place`). `New`: the key of a flow that has not reached
  the ledger is nowhere else, and an opening half done is the phone's own affair
  (`NewKeyUnused`, `HalfOpenOwn`): without this another phone's recovery could
  disturb it. `AllFit`: on a phone that is not spoiled, an account whose key was made
  here obeys the stored key exactly if it is the one that is shown; the flows carry
  the same of their locals. `AllWords`: while no call to the directory was lost, what
  a phone says of its e-mail is vouched for by a row, a mark on its way or a move.
  `AllLead`: a flow that has the ledger's key leads to its account. Proved: `KeysFit`,
  `WordsKept`, `NothingLost` (an action property: each way an account gets out of
  reach is traced to the step that gives it up), `TypeCorrect`.
- **Feed.** `Basics`: the shape of what is under way, and that the stream announces
  no more than was paid. `Owners`, `Mine`: a job that is not old is the owner's, and
  so is what is shown once it is called loaded (`ShownMine`). `OwnContacts`: the lists
  a rewriting holds are the owner's (`ContactsMine`). `DueInv`: each part either shows
  what is due or is owed by a job that will show it, and a balance that is not loaded
  is being refreshed (`DueIsShown`). `StarInv`: one rewriting at a time has read and
  not saved (`OneReader`), the contacts shown are the stored ones or about to be
  (`ShownStore`), and a contact's stored star differs from the user's wish exactly if
  an odd number of touches of it is pending (`StoredStars`): parity, since each touch
  turns what it finds (`StarsStay`). `DueInv` and `StarInv` were checked by TLC first.
  Also `FeedTypes`.
- **EarnHome** (`SavingsProofs`). `HomeInv` follows the principal as the call under way
  will have recorded it (`HomeBooks`: position less any such principal is at most the
  interest); what a reader has in its hands was read while no call was under way
  (`Holding`, `Calm`), so its gap is interest (`Pairs`), and so is what is shown
  (`Screen`): `EarnedIsPaid`. For the chart, every point can be stamped with the
  interest that had been paid when it was read, so that from stamp to stamp no more
  is gained than was paid (`Chart`); the bars over any edges then telescope over the
  stamps, by the same measures as the vault's sums: `ChartIsPaid`. Also `ScreenTypes`.

Only model-checked:

- `LeaseSelfHeals`, a liveness property, out of this prover's reach.
- `RecoveryLocks`, which is violated.

## 6. Not modelled

- Overflow of i128 in the vault, `upgrade` of the contracts, storage lifetimes.
- KMS, Horizon and e-mail as services: a failure of theirs is a request that
  throws.
- Which operations fee-bump agrees to co-sign (a check of the shape of one
  transaction, without state).
- Disbursement of payouts and detection of deposits: not in the repository.
- The expiry of a payment request (the list leaves expired rows out, the table
  keeps them), its note and the delivery of its notification.
- The invite code that opens onboarding: one atomic UPDATE, and a flag on the
  phone. An answer that is lost, or a crash before the flag is stored, uses up the
  code of a tester who is not let in.
- Avatars, rate samples, inbound e-mail: nothing reads them back in a way that could
  go wrong across steps. The simulator screen computes from constants; `watchIntent`
  polls.
- The APY, and the shares a partial withdrawal burns, in the Earn client.

## 7. What could follow

- A bound on `BlendKeeps` by the worth of a b-token and a unit, as in `YieldIsYield`,
  which would bound `rounding` by the number of calls; and a bound on the share price
  itself, which `PriceNeverFalls` lets grow without one.
- A counter with a lock, and a payment made at most once, as abstract
  specifications of `RecoveryPin` and `CashIn` under their assumptions.
- The push tokens of a phone, and the cash-in screen, once the code makes them do
  what they are for.
