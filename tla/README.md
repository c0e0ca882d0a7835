# Verification of the Uzanet control plane

Uzanet sells Internet access on MikroTik routers: a customer pays on a portal
(M-Pesa or Kopo Kopo) and a FastAPI service opens a HotSpot account or extends a
PPPoE account on the router of the ISP. This directory holds TLA+ models of the
service's stateful core, the TLC configurations that check them, and proofs.

    tlc -config HotspotMpesa.cfg MCPaymentSessions.tla       # model-check
    tlapm PaymentSessionsProofs.tla                          # check the proofs

`PROJECT.json` lists the components, runs, theorems, hazards and findings, maps
every definition to the lines it models, and gives for each property a change of
the code that breaks it. Line numbers are those of `src/`.

## The system

Processes: two or more API workers (gunicorn, each with an event loop and a
thread pool), one maintenance process (`jobs.py`), and on the VPS a provisioning
agent (`vpn_agent/agent.py`). They share a MySQL 8 database (REPEATABLE READ,
SQLAlchemy with autoflush off) and call peers that are slow and may fail: the
payment providers, the routers (RouterOS API), the agent (a Unix socket).

| Component | State | Operations | Correct when |
|---|---|---|---|
| Payment admission (`services/payment_service.py` 180-250) | `PaymentSession` keys and counts | look up, repeat, limit, insert, charge | a key is charged once; the limit holds |
| Payment sessions (`services/payment_service.py`) | `PaymentSession`: status, request id, credentials; `Payment` (ledger) | create, initiate, poll, callback, verify, complete, retry, manual review, expire, reconcile | access only for money, booked with its ledger row, granted once; every session ends |
| Session access (`services/access_service.py`) | `HotspotUser`, `PPPUser`, the account on the router | prepare, provision, clean up | the shown password works; cleanup removes what was not paid, and only that |
| Customer accounts (`access_service`, `maintenance_service`) | the same rows, `is_active`, expiry | create, enable, disable, delete, renew, expire | database and router agree; no paid minute is lost; overdue access ends |
| Router onboarding (`services/onboarding_service.py`) | `Router`: status, address, token, script; the files and objects of the device | create, claim, download, expire, import, refresh the portal | a live router's address is its own; scripts end; the operator's own page and configuration survive |
| Router administration (`services/router_service.py`) | `Router`, its packages and sessions | create, update, delete, check | deletion is final and stops what it says it stops |
| Provisioning agent (`vpn_agent/agent.py`) | `chap-secrets`, nonces | create, rotate, delete | addresses are unique and stable, calls atomic |
| Agent client (`services/vpn_agent_service.py`) | none | provision, revoke | gives up in time; takes no failure for success |
| Authentication (`mono.py`, `security.py`) | `AdminUser`: active, token version, failed logins, lock | seed, register, login, logout, change password | a worker that serves is safe; old tokens stay refused; the lockout comes |
| Maintenance (`jobs.py`) | none | one iteration after another | one failing phase does not stop the others for good |
| RouterOS client, providers | none of their own | by their outcomes | |
| Settings, migrations, logs, front ends | configuration, append-only rows, pages | | not modelled |

How they meet:

* The portal's POST inserts a session, then starts the charge and, in a thread,
  the preparation of the HotSpot account, and waits for both (`asyncio.gather`)
  before it saves the provider's request id.
* A callback (from the provider, any number of times), a poll (from a browser),
  an administrator's retry and the reconciliation of the jobs process all end in
  `complete_payment`, which holds the session's row lock during a router call.
* `expire_payment_sessions`, the poll, the declined callback and
  `_mark_manual_review` write a status from a read that takes no lock.
* The cleanup of the jobs process removes what the preparation made for a
  session that failed.
* Deleting a router rewrites the sessions of that router, then revokes its
  tunnel peer at the agent. Onboarding asks the agent for the peer inside the
  transaction that inserts the router, and revokes it on failure.
* The agent serves each request in a thread; an `flock` covers the reading and
  the replacement of the secrets file.
* The operator pastes an install command on the router; the script it fetches
  changes the device command by command and claims the record at its end. The
  portal refresh, asked for through the API, writes the same login pages.
* Operators' requests, renewals and `expire_access` read a customer's row, call
  the router and commit; none of them locks the row it has read.
* Every API worker seeds the administrators at its start; the handlers of
  `mono.py` read and write the account rows without a lock.

What is hard: reads without a lock before slow calls and writes after them;
handlers that time out (504) and go on; duplicated, lost and early callbacks;
rollbacks after the router was changed; kills between two commits; an agent that
answers a client that has left. `PROJECT.json` lists these hazards at their lines.

## Modules

| Module | What it is | Proofs |
|---|---|---|
| `IdempotentCharges` | what an idempotency key promises: one purchase, one charge | |
| `PaymentAdmission` | which portal requests become a session and a charge; refines `IdempotentCharges` | `PaymentAdmissionProofs` |
| `PaidAccess` | what payment sessions promise: paid, then granted in one step with the ledger row | |
| `PaymentSessions` | payment sessions, their access, and the payment phases of the jobs process; refines `PaidAccess` | `PaymentSessionsProofs`, `ShownPasswordProofs` |
| `CustomerAccess` | customers' accounts: operators, renewals, expiry | `CustomerAccessProofs` |
| `PeerRegistry` | what the provisioning agent promises: an atomic registry of peers | |
| `PeerStore` | the agent: threads, lock, file; refines `PeerRegistry` | `PeerStoreProofs` |
| `RouterOnboarding` | the life of a managed router, composed with `PeerRegistry` | `RouterOnboardingProofs` |
| `OnboardingScript` | what the install script and the portal refresh do on the device | `OnboardingScriptProofs` |
| `AdminAccounts` | administrators: seeding, lockout, tokens | `AdminAccountsProofs` |
| `MC...` | the instances TLC checks, with their symmetry sets | |

`RouterOnboarding` takes the agent as `PeerRegistry` promises it, and `PeerStore`
is shown to keep that promise, so the two models together cover the path from the
operator's request to the secrets file. `PaymentAdmission` ends where
`PaymentSessions` begins, with the inserted session. `CustomerAccess` takes a
renewal as one request; that it happens once, and only for money, is the subject of
`PaymentSessions`.

In every module, operators marked "Defect:" are plausible mistakes that no action
uses; `PROJECT.json` says which property notices each.

### PaymentAdmission

The first part of `create_public_payment`, for one router. A worker checks a
request (portal, package, idempotency key, limiter) in one step, because nothing is
awaited between its first read and its last, and inserts it in another: the
snapshot of the first may be old by then, and the unique key decides. Then it
awaits the provider (`charging`) and admits others. The operator opens, closes and
deletes the portal and changes packages meanwhile; a worker dies anywhere.
`charges` counts what the provider is asked and `answered` is the last request that
was answered with a session.

`IdempotentCharges` is the same seen from the clients: a purchase is accepted under
a key, charged at most once, and everyone who is answered under the key is answered
with it. A session is mapped to its purchase (phone and package); checks, refusals,
kills, the limiter's window and the operator's changes are stutters.

### PaymentSessions

A variable is a column or a process. `row` holds the committed columns of
`PaymentSession` that the properties tell apart (`reqid`: is the request id
saved?). `user` is the `HotspotUser` row: absent, prepared (`expires_at` is
NULL) or granted. `acct` is the password on the router. `grants` counts the
windows a session started or extended, `booked` is its `Payment` row, `money` is
what the provider knows. `create` and `prep` are the coroutine and the thread
of the portal's POST; `proc` are API threads and the jobs process, which has in
addition its `phase` and `todo`.

A step ends where the code waits for a peer or a lock, and between a read that
takes no lock and its write. A row lock lasts from the locking statement to the
end of the transaction, so it is a position of a process (`Completing`,
`Preparing`) and not a variable. `RowFree(s)` guards every statement that would
wait for it. A rollback is a step that writes nothing; what was done on the
router remains. Each router and provider call may succeed, fail before its effect
or fail after it. `UserWriteSucceeds` stands for the unique key on the user name
and for the row count that SQLAlchemy verifies.

`RetireRouter` is the part of `delete_router` that rewrites the sessions of its
router; all modelled sessions belong to one router.

The cleanup takes the `CleanupLimit` (200) sessions that were updated longest ago.
`others` counts the sessions beyond the modelled ones that its query selects; it
changes at will, up to `MaxOthers`. When all fit the limit, all are taken; when the
list is `Crowded`, the run takes some that fill it (`FirstRows`: the times of update
are not modelled, so any may be the oldest). A completion that finds the user of its
session there leaves the router alone, unless that user is inactive: whether it is
(the rescue of lines 372-381) is left open in `CompleteLock`.

`PaidAccess` knows the money, what the customer is shown, the ledger and the number
of windows. A session shows its access when it is committed as provisioned
(`Shown`). Of a completion (lock, router call, commit or rollback, recorded
failure) only the commit shows: it grants and books in one step, or shows again a
window that is open. A late status of an unlocked writer hides what was granted.
What `PaidAccess` leaves possible is what the code does: after `Hide`, `Grant` may
happen again (`double_renewal`).

### CustomerAccess

A customer has a row (`id` tells a row from one created later under the same name)
and an account on the router. A process has read the row (`seen`), calls the
router for the customers it has in hand, and commits the columns that differ from
its read; `expire_access` takes all overdue customers in one run and goes on when
one fails. An UPDATE of a row that is gone rolls the transaction back, a DELETE
does not. `clock` counts in units of the package's validity.

Two history variables set aside what no code promises. `barred` are the customers
an operator disabled last. `disturbed` are those on whom two requests overlapped,
or one of whose requests changed the router and lost its commit; the code repairs
neither by itself.

### PeerRegistry and PeerStore

In the registry a call is sent, takes effect at one instant, and is answered;
it may be lost at any time, before or after its effect. In `PeerStore` a thread
reads the file under the lock (`Load`), and replaces it (`KeepAddress`,
`NewAddress`, `Delete`) from what it read, which is how a missing lock would lose
another thread's peer. The refinement maps a thread that has loaded the file to a
call still waiting: the effect is the replacement. A write that fails leaves the
old file, because `os.replace` is the only change to it. A dying agent loses every
call in progress and no more, and the kernel releases its lock.

### RouterOnboarding

`router` are the committed columns of the routers. `onboard`, `claim`, `update`
and `delete` are the requests on each router; each router has one onboarding, at
most one deletion, and any number of claims and updates, one at a time of each
kind. SQLAlchemy writes the columns that differ from what was read: an update
carries the address it changes (other columns, as the portal switch, are not
modelled here). A claim selects the row FOR UPDATE, so it is a position and a lock.

The model assumes that the agent is configured (`vpn_agent_enabled`). Nothing
obliges the agent, so a lost call is one it never serves or never answers, and
its answers to revocations, which nobody reads, are left out. An address an
operator has typed (`edited`) is out of the agent's hands and of PeerHeld.

### OnboardingScript

One device, and the records whose script may run on it. An import (`run`) goes
command by command: configuration backup, tunnel, user, then for each HotSpot
directory the backup of the login page (`PrintFile` makes the file, `FillFile`
fills it) and the new page, then the claim. It may stop after any command; an
error inside the page loop is caught there. The two commands of lines 216-217 that
look at the backup file and read the page are one step. The terminal imports one
script at a time; `refresh_captive_portal` lists the files and writes pages beside
it. `tunnel`, `user`, `login` and `saved` say whose each object is, the
operator's or the script's, which is what the comments and names on the device
tell the script.

A refresh takes a directory for managed in three cases (`Managed`): it has a backup
file, its page carries the portal's mark, or its path holds the name of the record
that is refreshed, as older onboardings made them. `Legacy` are the directories of
the last kind. They belong to the service, may hold the portal's page from the
beginning, and may be refreshed for the record they are named after (`own`). That
record is none of `Records`, since new ones make no such directories; the tunnel it
left is `"older"`. `cut` is history: the directories where an import was cut between
`PrintFile` and `FillFile`.

### AdminAccounts

A worker runs a handler from its read to its commit before it takes another (the
routes are coroutines without an `await` in between), so `worker` is one handler
and the rows it has read. Tokens are `issued` with the version the row has after
the commit; `get_current_user` runs in a thread pool and checks them before the
handler's turn (`admitted`). A seed reads all rows, commits the deactivation of
default passwords, then looks for the superadmin and inserts it. The counters
`guesses` are history.

## Checks

| Run | Shows |
|---|---|
| `payment_admission` | TypeOK, ChargedOnce, AnswersMatch, LimitHeld, ImplementsCharges: requests repeated and at once, over two workers that die |
| `hotspot_mpesa` | ShownPasswordWorks, HotspotWindowFixed, ImplementsPaidAccess, OpenSessionsEnd, PreparedAccountsEnd: M-Pesa confirmations wait for the request id, hence for the preparation; an open window is not extended; sessions and prepared accounts end, through a crash, the latter as long as the cleanup's list is not crowded |
| `two_renewals` | TypeOK, CompletionExclusive, AccessIsBooked, AccessOnlyForMoney, NoGrantWhenProvisioned, ImplementsPaidAccess: an M-Pesa and a Kopo Kopo renewal completed by polls, callbacks, retries and reconciliation; a Kopo Kopo callback may overtake the request that created the session |
| `cleanup_of_paid` | finding: cleanup deletes the user row of a session completed during its router call |
| `double_renewal` | finding: a lost status lets a repeated callback extend a PPPoE account twice |
| `customer_access` | TypeOK, RouterAgrees, PaidTimeKept, OverdueEnds: two requests and the recurring expiry, with failing calls and a router that is down |
| `unwatched_access` | finding: an account that is on, whose row is inactive, so that it never expires |
| `peer_store` | TypeOK, AddressesUnique, AddressStable, ImplementsRegistry, EveryRequestEnds |
| `router_lifecycle` | TypeOK, PeerHeld, LiveRoutersApart, DeletedStaysDeleted, OnboardingEnds, ScriptsEnd: two routers that compete for one address |
| `onboarding_script` | TypeOK, OperatorsPageKept, BackupPredatesChanges, ForeignUntouched, RetriesSucceed: imports of two records interrupted at any command, and refreshes |
| `admin_accounts` | TypeOK, StartedIsSafe, LockoutBounded: two workers over the same rows; the superadmin's name is not a default one |
| `stale_revocation` | finding: a token survives a password change |

### Bounds, and why they are enough

* `PaymentAdmission`: two workers, three keys, a limit of one. Two workers can
  both count before either inserts, and with three keys the limit can be passed by
  one and would be by two if it could; two phones and an address that may be unknown
  give every combination the limiter counts. One package is enough, since it only
  enters the comparison of requests beside the phone.
* `PaymentSessions`: one session in the HotSpot runs: sessions have separate rows,
  users and accounts, and meet only in the jobs process, whose list of several
  sessions `two_renewals` exercises. One API thread beside the jobs process gives
  two completions at once and a creator beside them; `double_renewal` needs two
  threads. Three passwords: the stored one, the one on the router and one in the
  making can all differ; renewals have none, so one value serves. `MaxCrashes = 1`
  in `hotspot_mpesa`: a crash loses a process's position, and the state it leaves is
  that of an earlier step of the same process; it is 0 where kills add nothing to
  the question. `GrantCap = 2` tells "once" from "more often" (counting stops there).
  `CleanupLimit = 1` and `MaxOthers = 1` in `hotspot_mpesa`: the list is empty, just
  full, or crowded, and a crowded run may take the session or leave it.
* `CustomerAccess`: a HotSpot customer whose router is down and a PPPoE customer,
  so that `expire_access` meets a failing call before one that works; two requests
  and the job give every pair of overlapping handlers. A request serves once.
  `Validity = 1` and `MaxTime = 2` let access expire, be renewed and expire again.
* `PeerStore`: three peers, three calls and a pool of two free addresses: a call can
  find its peer known, unknown with a free address, or the pool used up; the
  operator's line lies inside the range, between the two free addresses.
* `RouterOnboarding`: two routers and one address the agent may give force every
  reuse of an address; a second one, taken for something else, is what an operator
  may type.
* `OnboardingScript`: two records, one of which may replace the other's tunnel and
  one of which brings a portal page; two directories, one ordinary and one `Legacy`,
  so that an error at one page does not hide what happens at the other and a refresh
  may begin with no backup file on the device; `MaxFaults = 2`, so that the
  repetition of an interrupted import can be interrupted.
* `AdminAccounts`: two workers (`entrypoint.sh:10` starts two by default), the
  superadmin and one historical account of another name (the theorem covers the same
  name too), the threshold of the code. `Guessed` and
  `MaxVersion` bound the runs; the first run guesses the superadmin's password, the
  second needs two versions and no guesses. With two workers that each lose the
  other's counts, an account is locked after at most 1 + 2 + ... + Threshold wrong
  guesses, 15 instead of 5; `LockoutBounded` states that number.

Symmetry is declared in `MCPaymentAdmission` (workers, keys, phones, packages) and
`MCAdminAccounts` (workers), whose runs have no liveness properties.

`CHECK_DEADLOCK FALSE` where the system may stop: once every agent call is made,
every router deleted, every request on a customer served and the clock at its
bound, or every record registered, there may be nothing left to do.

### Fairness

`PaymentSessions`: handlers run to their end because router and provider calls have
timeouts, and InnoDB grants row locks in the order they were asked for (strong
fairness, since a lock is not free all the time); the jobs loop never ends
(`jobs.py` 26-40 catches every exception, and the container is restarted); the clock
runs. Nobody is obliged to pay, to poll or to send a callback. `PreparedAccountsEnd`
needs in addition that cleanup's router call and commit succeed sometimes
(`ReachableSpec`), and it promises nothing once the list is `Crowded`: no fairness
puts an order on rows that never leave it. That InnoDB breaks deadlocks and ends
long lock waits with an error is not modelled: such an error acts like a rollback.

`CustomerAccess`: the expiry job comes round and its calls and commit end (weak
fairness); it is not killed before the same call each time, and a router that is
not down answers one of the calls that keep coming (strong fairness). Nothing is
asked of the operator's requests.

`PeerStore`: a thread that is not blocked by the lock goes on. `flock` does not
promise an order, so only the end of a finite burst is claimed, for which weak
fairness is enough.

`RouterOnboarding`: onboarding and claim requests that have begun go on, and the
UPDATE of the jobs process gets its row locks in the end. Nothing is asked of the
agent: the client's socket has a timeout.

`OnboardingScript`: an import that has begun goes on, and the operator pastes the
command again as long as the record is neither registered nor expired. What
fails is bounded by `MaxFaults`.

`PaymentAdmission` and `AdminAccounts` claim no liveness.

## Proofs

All theorems hold for every value of the constants that satisfies the named
assumptions of the module (sets are subsets of each other where the names say so,
"no value" is not a value, bounds are naturals), which TLC evaluates in each run. Two
theorems about administrators name the number of workers they are about.

| Module | Theorem | Property |
|---|---|---|
| `PaymentSessionsProofs` | `TypeCorrect` | TypeOK |
| | `NoAccessWithoutMoney` | AccessOnlyForMoney |
| | `OneCompletionAtATime` | CompletionExclusive |
| | `AccessAlwaysBooked` | AccessIsBooked |
| | `ProvisionedGetsNoMore` | NoGrantWhenProvisioned |
| | `HotspotWindowStaysFixed` | HotspotWindowFixed |
| | `SessionsImplementPaidAccess` | ImplementsPaidAccess |
| `ShownPasswordProofs` | `PasswordsShownWork` | ShownPasswordWorks |
| `PaymentAdmissionProofs` | `AdmissionTypeCorrect` | TypeOK |
| | `KeyChargedOnce` | ChargedOnce |
| | `AnswersAlwaysMatch` | AnswersMatch |
| | `LimitAlmostHeld` | LimitHeld |
| | `AdmissionImplementsCharges` | ImplementsCharges |
| `CustomerAccessProofs` | `AccessTypeCorrect` | TypeOK |
| | `RouterAlwaysAgrees` | RouterAgrees |
| | `PaidTimeAlwaysKept` | PaidTimeKept (not of customers in `barred` or `disturbed`) |
| `PeerStoreProofs` | `StoreTypeCorrect` | TypeOK |
| | `AddressesStayUnique` | AddressesUnique |
| | `AddressesKept` | AddressStable |
| | `StoreImplementsRegistry` | ImplementsRegistry |
| `RouterOnboardingProofs` | `RouterTypeCorrect` | TypeOK |
| | `PeerAlwaysHeld` | PeerHeld |
| | `LiveRoutersStayApart` | LiveRoutersApart |
| | `DeletionIsFinal` | DeletedStaysDeleted |
| `OnboardingScriptProofs` | `ScriptTypeCorrect` | TypeOK |
| | `OperatorsPagesKept` | OperatorsPageKept |
| | `BackupsPredateChanges` | BackupPredatesChanges |
| | `ForeignThingsUntouched` | ForeignUntouched |
| `AdminAccountsProofs` | `AccountsTypeCorrect` | TypeOK |
| | `StartedAlwaysSafe` | StartedIsSafe (that the superadmin can log in: if its name is not a default one) |
| | `LockoutAlwaysBounded` | LockoutBounded, for one or two workers |
| | `OneWorkerRevokes` | ChangeRevokesTokens, for one worker (two refute it: `stale_revocation`) |

The arguments, by their inductive invariants:

* Mutual exclusion of completions is inductive together with what a process
  inside the lock has seen. `LockInv` adds to CompletionExclusive that a session
  being completed is not committed as provisioned, which every status write keeps
  because it waits for the lock, and, for AccessIsBooked, that a completion that
  found the window open already found it booked.
* AccessOnlyForMoney is not inductive, since the money is asked about long before
  access is granted; `MoneyInv` adds that a process that stands anywhere between a
  confirmation and its commit works on a paid session. Money is never given back,
  so this is kept by all other steps.
* ShownPasswordWorks is an argument of order (`PasswordInv`). `Ordered`: a process
  stands at a confirmation only when the request id is saved, and that comes after
  the preparation. `Prepared`: until then there is no user row and no stored
  password. `Agreed`: from then on a user row exists exactly when a password is
  stored, the router has that password or none, and the one completing process
  either holds the stored password or has set the one it will commit.
* A key is charged once because at most one worker holds a request for it
  (`KeyInv`), and none does once it is charged. `LimitInv` counts, for a phone or a
  known client address, the recent sessions together with the requests that are
  checked: a check passes only below the limit of both, so each sum exceeds it by
  the other workers at most.
* RouterAgrees and PaidTimeKept are about customers on whom no two requests
  overlapped and none of whose requests was interrupted after its router call; a
  renewal beside `expire_access` is thus outside them. For such a customer one process
  at most has the row in hand (`Good`), has read what is still stored, and has brought
  the router to the state it will commit (`InHand`).
* The agent: at most one thread has loaded the file, and the file has not changed
  since; what it writes is the current file with one line replaced. The refinement
  shows that each step of a thread is a step of the registry or, for `Load`, a
  stutter.
* A router's peer: what each agent call is for (`Meant`), how far the requests are
  and what they have made of the row (`Phases`), and what the registry holds while no
  revocation has been sent (`Holds`); `Apart` is the registry's uniqueness.
* Saved pages, in directories that are not legacy ones: an import that is about to
  fill a backup file carries the operator's page (`ImportInv`), a refresh writes only
  where a backup file exists (`RefreshInv`), and a listing stands in a backup file
  only while an import is about to fill it or after one was cut there (`PageInv`).
* Seeding: a default password in force now was in force when a seed read the rows
  (`SeedInv`, because no step makes one), so past any seed's commit none is left
  (`LegacyInv`); the superadmin, once there, stays there, and usable if its name is
  not a default one, because only the seed deactivates (`SuperInv`).

* The lockout with two workers is an argument of exchange (`GuessInv`). A worker
  *holds* the count it has read, or, when it has none in hand, the stored one. With
  T the threshold, f the stored count and m a held one, guesses that were answered,
  guesses the stored count still allows and guesses the holder can still undo stay
  together below one bound: 2 guesses + 2 (T - f) + (T - m)(T - m - 1) <= T (T + 1).
  A commit from an old count m < f raises the second term by what the third loses,
  but only if f is still held by the other worker; that the stored count is always
  held by someone is the part of the invariant that three workers break. The
  inequalities are lemma `Delays`, the three kinds of steps lemma `GuessMove`.
* One worker revokes: between its read and its commit nobody writes, so it writes
  the version after the stored one (`FreshRead`), and passwords change only there or
  with a new account (`PasswordChanges`).
* An open HotSpot window: a completion that found no window open before its commit
  still finds none (`WindowInv`), because only completions open one and they exclude
  each other; the cleanup closes windows and opens none.
* The refinements: `SessionsImplementPaidAccess` shows of each step that money is
  kept or answered once (`MoneyKept`), and of a commit that the session was paid
  (`MoneyInv`), not shown (`LockInv`), and, when the window is not extended, already
  booked; steps that only replace statuses are `Hide`. `AdmissionImplementsCharges`
  rests on `KeyInv`: the request a worker is about to charge is the purchase of its
  session, and its key has not been charged.

Model-checked only: the liveness properties, which need fairness, and LockoutBounded's
number for more than two workers: each further worker delays the lock again, C(T + n
- 1, n) guesses for n of them, which is a recursion over n.

## What the code does not promise

Behaviour the models show or exclude by an assumption, and no run claims otherwise:

* A failure after the commit of an onboarding is handled like one before it: the
  peer of a live router is revoked (`onboarding_service.py` 357). PeerHeld excepts
  the router to which this happened, and no other.
* A peer that the agent creates after its client gave up is never removed
  (`onboarding_service.py` 341).
* A session that is being opened while its router is deleted may stay open until its
  own expiry (`payment_service.py` 281), although the deletion means to stop open
  sessions (`router_service.py` 123); that it ends is OpenSessionsEnd.
* Two renewals of one PPPoE account from the same read lose one extension
  (`access_service.py` 402).
* When an import is cut, or its command fails, between making the backup of a login
  page and filling it, a listing stands for the backup, and the next import or refresh
  replaces the only copy of the operator's page (`onboarding_service.py` 216-226).
  That is not what the texts say: "it preserves the active login page before
  installing a small ISP-qualified redirect" (`onboarding_service.py` 4), "Preserve
  the active HotSpot login page once" (194), "WAN/default routes, unrelated tunnels
  and hotspot HTML are preserved" (`src/README.md` 147-148). OperatorsPageKept excepts
  the directories where this happened (`cut`) and shows that a page is lost in no
  other way. In a legacy directory an import may save the portal's page. A
  page the operator puts back is replaced by the next refresh, because the backup
  file still marks its directory.
* A repeated payment request is refused once its package is retired, although its
  session exists.
* A correct login that has read the row before a lock was set need not clear it.
* A superadmin whose name is one of the historical accounts and has the default
  password is switched off by the seed and, because its row exists, not created again
  (`mono.py` 105-117; `superadmin` is such a name). StartedIsSafe then promises that
  the account is there and no default password usable, not that anyone can log in.
* Sessions that the cleanup cannot clear, those of deleted routers and those whose
  user is gone or was granted (`access_service.py` 292-293), stay in its list; when
  they fill it (line 318), accounts prepared for later failed sessions are not removed.
* A renewal and `expire_access` that overlap may cut off a customer in paid time
  (`maintenance_service.py` 24), and a request interrupted between the router and its
  commit leaves the two apart (`access_service.py` 128, 184).

## Not modelled, and why

* InnoDB lock-wait timeouts and deadlock victims (they act as rollbacks, which
  the models take into account where a commit may fail).
* The missing package in `complete_payment` (445-449): the service never deletes a
  package.
* The nonce cache, signatures and message format of the agent, the passwords of
  peers, and the backups of the secrets file: they decide whether a request is
  heard, never what it does.
* Routers without a tunnel (`create_router`), `check_router` and the encryption of
  legacy credentials at the first start after an upgrade.
* The `MPESA` and Kopo Kopo wire formats, phone numbers, amounts and signatures,
  the text of RouterOS scripts, and the readings of the RouterOS client (traffic,
  interfaces, status): data, or no state.
* HTTP routes that validate and call what is modelled, and schemas.
* Settings (constants of the models), migrations (run once, alone, before the
  service starts), logs (append-only), front ends (static pages that call the API).

## Plan

Done, in this order: `PaymentSessions` and its proofs (money and access are what
the system is for), `PeerRegistry`, `PeerStore` and their proofs,
`RouterOnboarding`, `OnboardingScript`, `CustomerAccess`, `AdminAccounts`,
`PaymentAdmission`, and the proofs of each.

Left:

1. The expiry date that two sessions of one PPPoE account share, as a composition of
   `PaymentSessions` and `CustomerAccess`.
2. Pure parts against reference definitions: `routeros_duration`, the
   interpretation of M-Pesa queries, the choice of the traffic interface.
3. LockoutBounded with the number for any number of workers, model-checked for three.
