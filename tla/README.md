# digicash: TLA+ models, checks and proofs

digicash is an e-cash system after Chaum: a bank signs blinded coins against a
debit, wallets keep the coins and hand them to each other as bundle files, and a
coin is redeemed once. Several banks may share a registry of spent serials that
also nets what they owe one another. This directory models the parts of the
repository that keep state, checks them with TLC on small instances and proves
the central properties with TLAPS for all instances.

    tlc -workers 2 -config withdraw_concurrent.cfg MCBankWithdraw
    tlapm BankWithdrawProofs.tla

`PROJECT.json` lists components, runs, mutants (the wrong variants kept beside
the definitions), the map from definitions to source lines, findings, hazards
and theorems.

## 1. Inventory

Paths are relative to `src/crates/`.

| Component | State | Operations | Talks to |
|---|---|---|---|
| bank, withdrawals (`digicash-bank/src/bank.rs`) | Postgres `accounts`, `withdraw_states` | `withdraw`, `resume_withdraw`, `finalize_withdraw`, `debit_and_record_pending`, `compensate`, `set_state`, `recover_withdrawals` | wallet over HTTPS; key store |
| bank, deposits (`bank.rs`) | `spent_serials`, `deposits`, `accounts` | `deposit`, `commit_deposit` | registry client, wallet |
| bank, accounts and identities | `accounts`, `identities` | `create_account`, `register_identity` | wallet |
| bank, request authentication (`auth.rs`, nonce store in `bank.rs`) | `nonce_store`, prune counter, the clock | `register`, `authenticate`, `check_and_record_nonce`, `purge_expired_nonces`, `ensure_account` | every signed request |
| registry (`digicash-registry/src/registry.rs`) | `members`, `exposure_caps`, `serials`, `transcripts`, `receivables`, `settlement_claims` | `register_member`, `set_cap`, `submit_serial`, `settle` | banks |
| registry, authentication | same as the bank's, over `members` | same code | banks |
| wallet (`digicash-wallet/src/wallet.rs`, `store.rs`) | sled store: identity, coins; bundle files | `account create`, `withdraw`, `spend`, `deposit` | bank; other wallets through files |
| wallet, coin arithmetic | none | `decompose`, `select_exact` | wallet |
| bank, key store (`keys.rs`) | `denom_<d>_scheme_<s>.pem` files, the keys in memory | `load_or_create`, `load_key`, `create_key` at every start | signing, recovery, published keys |
| bank, certificate authority and start (`tls.rs`, `main.rs`) | the CA key's file, `ca-cert.pem`, the ports | `CertAuthority::load_or_create`, `issue_client_identity`, publishing the certificate, `bind` | wallets pin the certificate and hold issued identities |
| bank, registry client (`registry_client.rs`) | the identity read at the start | `submit_serial` | deposits; registry over HTTPS |
| core (RSA blind signatures, serials, Ed25519), proto, CLI | none | | |

**What is hard here.** Handlers are tokio tasks on a shared pool, so two requests
with one `request_id`, coin or nonce run statement by statement in between one
another; transactions are READ COMMITTED, so a SELECT without a lock is stale by
the time of the write that depends on it. A handler can be dropped at any await
(the client goes away) and the process can die between any two statements; the
withdraw state machine and its recovery exist for that. Clients retry. The
registry commits before the bank's own transaction, over a connection that loses
requests and answers, from a blocking thread that outlives the handler. Keys are
files that are looked for, truncated and written in separate steps, and nothing
keeps a second process from the directory. A wallet command is a list of
requests and writes that can stop anywhere, and a bundle file is shared state of
two wallets. Amounts live in BIGINT columns.

**What makes each part correct.** Withdrawals: one debit per `request_id`, then one
signature or one refund, never both; every reply carries the same signature;
recovery leaves nothing open. Deposits: a coin is credited at most once, together
with its records; answers mean what they say; transactions end. Authentication:
redelivery of a request is refused, or bounded; an account is acted on under one
key. Registry: one bank gets a fresh serial, collisions name both, accepted value
ends in exactly one claim unless a settlement is raced, a cap is passed by less than
a coin per handler, whoever waits for a row ends. Wallet: coins are lost or paid twice only in named windows; an account's key is lost only
in named windows; money is conserved. Key store: what depends on a key is honoured
by all later runs. Banks and registry together: a coin is credited once in the
whole network, by a bank that is owed for it.

## 2. Modules

| Module | Models | Notes |
|---|---|---|
| `WithdrawContract` | the promise about withdrawals | abstract: open, pay in, fund, issue, refund, reply |
| `BankWithdraw` | withdraw handlers, recovery, crashes | refines `WithdrawContract` |
| `DepositContract` | the promise about deposits | abstract: open, redeem, confirm |
| `BankDeposit` | deposit handlers and transactions, registry submission | refines `DepositContract` |
| `RequestAuth` | registration, timestamp window, nonces, purges, account check | the ledger behind it is the history variable `acted` |
| `KeyStore` | the key directory over starts, crashes and second processes; blinded messages, coins, pinned and issued certificates | refusals of what depended on a key are the history variables `refused` and `turnedAway` |
| `Registry` | submissions, caps, settlement, member and admin checks | |
| `Clearing` | several banks against the registry | extends `Registry`, whose steps it uses as they are; a bank's own transaction is one step, as `DepositContract` promises; refines `DepositContract` for the whole network |
| `WalletCoins` | `decompose`, `select_exact` | functions over denominations |
| `Purse` | what the two functions should compute, for any bag of coins | extends `WalletCoins` |
| `Wallet` | wallets, files and the bank together | extends `WalletCoins`; the bank appears through its two contracts, one step per request |
| `MC*` | the instances TLC checks | |
| `*Proofs` | theorems and proofs of the module they extend | `ClearingProofs` builds on `RegistryProofs`; `WalletProofs` covers `Wallet` and `Purse` |
| `SumTheorems` | lemmas about sums over finite sets and counting | used by the proofs about money and about the greedy walks |

**How code becomes steps.** An SQL statement outside a transaction is a step. The
two transactions of `BankWithdraw` lock the account row first and hold it to the
commit, so each is one step. The transactions of `commit_deposit`,
`submit_serial` and `settle` are modelled statement by statement: a handler's
`stage` says which statement comes next, the writes of an open transaction are
implied by its stage and become visible in its commit action, and `SerialLocked`,
`AccountLocked`, `RequestLocked` and `RowLocked` read off the stages what the open
transactions hold. `INSERT ... ON CONFLICT` and `UPDATE` wait for those locks,
plain `SELECT` does not. The `DELETE` of `settle` goes row by row: `SettleDelete`
fixes the rows that are committed when it starts, `SettleVisit` goes to one of them,
in any order, since an update moves a row in the table, and `SettleLock` locks it,
keeping the locks it has while it waits for one that another transaction holds. The
rows a settlement has taken are gone with its commit, for a second one that waits
for them or has still to visit them, too. Two settlements can so wait for each
other in a circle (`InCircle`); Postgres detects that and fails one of them, which
is `Abort`.

The issuing bank of a submission is what the depositing bank's registry client is
configured with (`Issuer(j)`, `registry_client.rs:42`), not a property of the coin.
Two bank processes may have addresses of their own (`DIGICASH_ADDR`), so the `Bind`
of a second one succeeds or fails. Its recovery, which runs before that, treats a
record as the handler of a client's retry does: the same load, signing, `set_state`
and `compensate`, one after the other and with no look at who else is at work.
`BankWithdraw` therefore has no recovery beside serving handlers; a further handler
stands for it.

Values read before an await are kept per handler (`job`, `held`, `seen`, `limit`,
`amounts`) and used later as they are, however old. A refusal that changes nothing
is not a step unless the answer is recorded in `replies`. Messages, coins, keys,
nonces and files are model values; a request is a record, so a retry is the same
record again and a reused `request_id` another record with the same `id`. A blind
signature is the pair of key and message, because `sign_blinded` is
deterministic.

Variables that are no program state, named "history" where they are declared:
`paidIn`, `opening`, `fresh` (the request found no record on arrival), `owed`, `letIn`
(caps that submissions were let past), `raced` (pairs whose receivable another commit
wrote during a settlement), `admitted`, `first`, `acted`, `undelivered`, `overwritten`,
`cutOff`, `stranded`, `lost`, `refused`, `turnedAway`; `replies` and `answers` are
what clients have been told.

## 3. Runs

Every passing run also has, for each of its properties, a wrong variant of one
definition that TLC finds violating it (`mutants` in `PROJECT.json`).

| Run | Instance | Shows |
|---|---|---|
| `withdraw_concurrent` | 2 handlers, 2 request ids, each sent with two contents, 2 accounts, SQL errors, crashes, all messages signable, `MaxBalance` 2 | types and no overdraft; replies match the record; money conserved at every instant; `WithdrawContract` is implemented |
| `withdraw_mixed` | 3 handlers, messages that can and cannot be signed, crashes, no SQL errors, fair | no withdrawal refunded and signed; nobody loses money; decisions are final; recovery leaves nothing open and ends |
| `withdraw_double_refund` (violation) | 2 handlers, 1 request | see finding 1 |
| `deposit_concurrent` | 2 handlers, a coin under two request ids, and under one of them for two accounts, a request id with three coins (one forged), balances at the limit; with and without a registry that another bank uses and that submissions reach after their handler is gone; transactions fair | the tables agree, answers mean what `messages.rs` says or are one of two named exceptions, money conserved, a coin is credited only where it was registered, `DepositContract` is implemented, every transaction ends, whatever handlers that wait for the registry do |
| `deposit_registry_retry` (violation) | 1 handler, 1 request and its retries, a registry | see finding 2 |
| `clearing` | 2 banks, 2 handlers, a coin deposited at both banks and a second one under a used request id, caps, receivables that meet the column's limit, requests and answers lost, either side failing | types; one bank is told that a serial is fresh and collisions name both; a registered coin is credited by its bank or in a named loss; no bank pays without a receivable; the network keeps `DepositContract`; transcripts outlive the rejections they are evidence for |
| `keystore_restart` | 2 processes, 1 denomination and the CA, 4 key pairs, processes failing anywhere | torn files are never files anything depends on; messages, coins and certificates of earlier runs are honoured unless a file was written over; complete files stay |
| `auth_window` | 2 handlers, 4 requests of 2 accounts, one of them about the other account, clock to 9, `Skew` 2, `TTL` 4, `MaxStall` 1 | every further passage of a request is a nonce's lifetime less the stall later and inside its window (a second one occurs, a third does not); all that acts on an account is signed with one key |
| `registry_locks` | 2 handlers that submit and settle, 2 coins, either bank the issuer of the other's, fair | submissions wait for rows of settlements and the other way round, settlements wait in a circle, and everybody ends |
| `registry_settle` | the same, with caps 0 and 1 set and changed | value is lost or claimed twice only for pairs whose receivable was written during a settlement; a cap is passed by less than a coin per handler |
| `registry_settle_race` (violation) | 1 submitter, 1 settler | see finding 3 |
| `wallet_commands` | payer and payee, 2 serials, 2 files, commands cut off anywhere; beside them all purses of up to 3 coins of each of 4 denominations | where coins can be lost or paid twice and accounts lost; money conserved; greedy selection and decomposition are right and best |

**Why the bounds are enough.** The races are pairwise: a second handler on the
same row is what changes a read value before it is used, so two handlers reach
them (`withdraw_mixed` has a third for one that is late for both). Two accounts
and two request ids make requests that share one of the two and differ in the
other. `MaxBalance` and `MaxAmount` stand for `i64::MAX` and are set so low that
credits meet them in `withdraw_concurrent`, `deposit_concurrent` and `clearing`; the arithmetic
is only addition and comparison, so the value itself does not matter.
`withdraw_mixed` sets it out of reach instead, because a refund that does not fit
leaves the record open (section 6). `Skew` and `TTL` keep the code's ratio of 1:2
(60 s and 120 s), and the clock passes a whole window before and after the
timestamps. `PruneInterval` 2 makes the counter wrap. In the registry's runs every
handler serves both kinds of request, so two of them make every pair: two
submissions past one check, a submission beside a settlement, two settlements. Two
coins let receivables of one pair add up or of opposite pairs net, and give two
settlements two rows to lock in different orders. Their views leave out `replies` and
`transcripts`: no step reads `replies`, `transcripts` flow only into them, and the
runs' properties mention neither (`clearing` has those that do); `registry_settle`
also leaves out caps of pairs that no submission is about.
The view of `clearing` leaves out refusals at a cap, and the banks' answers that are no
acceptances, which neither its steps nor its properties read. The view of
`deposit_concurrent` leaves out answers of an unknown account, and `fresh` where no
DoubleSpend can follow or has followed. In `keystore_restart` four key
pairs let two processes both create both keys, or one create again after a crash;
key pairs and processes are interchangeable, hence its symmetry. Serials and files
of `wallet_commands` are, too. The commands of `wallet_commands` handle at most two
coins, too few to tell a good selection from a bad one, so the greedy functions are
compared on purses that are initial states of their own.
That run may stop when the serials are used up and no command can go on, so deadlock is
not checked there; it is everywhere else.

**Fairness.** `BankWithdraw`: weak fairness of each handler's next step and of the
recovery, since tokio polls every ready task and a bank that is down is started
again; its steps never wait for another handler. `BankDeposit`: strong fairness of each
handler's next statement of its transaction, since it may wait for a row lock that
is taken and released again and again, and Postgres serves the queue of a lock
in order; nothing is assumed of the submission to the registry, which has no
timeout. `Registry`: the same strong fairness, and weak fairness of the failure of a
transaction that waits in a circle, for Postgres' deadlock detector. Clients, crashes, errors and new requests are under no fairness.

## 4. Findings

Runs that are expected to fail, each against a sentence of the repository.

1. `withdraw_double_refund` (`bank.rs:516`). `compensate` does not look at the
   record's state. Handler A debits and records `pending`; a retry B loads the
   record as `pending`; signing fails in both and both credit the account. The
   documentation of `Compensated` (`bank.rs:33`) says "the debit was reversed by a
   compensating credit".
2. `deposit_registry_retry` (`bank.rs:582`). `deposit` submits the serial before
   `commit_deposit` looks at the `request_id`. A deposit is credited; its client
   sends it again and is told `RegistryDoubleSpend`.
   `digicash-proto/src/messages.rs:35` says "a retry of the same coin replays".
3. `registry_settle_race` (`registry.rs:274`). A submission commits between the
   `SELECT` and the `DELETE` of `settle`: its receivable is deleted and in no
   claim. The schema calls receivables "accumulated at deposit and reset at
   settlement".

Other places where the models behave differently from what a comment says. They
were met while modelling; each schedule is short and no run is kept for it.

- `bank.rs:436`: two handlers that both read `pending` both sign. The schema says
  a retry "never re-signs". Harmless, as the signature is the same
  (`OutcomeIsFinal`, `RepliesMatchRecord`).
- `bank.rs:145-155`: recovery logs any error of one record and goes on, so after
  an SQL error, or a refund beyond the column, the bank serves with a `pending`
  record; `bank.rs:118-119` says it "is never left stranded". A retry by the client
  or the next restart resumes it.
- `bank.rs:649`: a retry of a deposit that runs while the first attempt is open
  is answered `DoubleSpend`; `messages.rs:53` says that means a different
  `request_id`. One of the two exceptions of `RepliesAreTrue`: it needs a request
  that came before the record was there.
- `bank.rs:630`: a repeated `request_id` and coin for another account is answered
  accepted, without a credit; `messages.rs:42` says "and the account credited". The
  other exception: the request that is recorded was itself answered accepted.
- `bank.rs:600`: the registry commits the serial, then the local transaction fails,
  or finds no account; every later deposit of the coin is told
  `RegistryDoubleSpend`, which `messages.rs:65` explains as "already-spent
  (cross-bank)", and nobody was credited. `RegisteredIsCredited` lists the ways
  (`lost`): there are no others.
- `tls.rs:50`, `keys.rs:30`: two processes that start on an empty directory both find
  no key; the second one's truncating write replaces the key that the first one has
  in memory, issues identities with and signs with. `tls.rs:32-33` says "client
  certificates issued in an earlier run still chain to the CA". That a file was
  written over is the one exception of `HonouredLater`, and
  `SettledKeysStay` shows that it can happen only while a file is still missing or
  being created.
- `auth.rs:94`: a request stamped `Skew` ahead is still in its window in the second
  its nonce expires (`TTL` = 2 `Skew`), so it passes again; `auth.rs:91-92` says a
  replay is caught. It happens in `auth_window`. `ReplayBound` limits the passages, and
  `CodeConstantsBoundReplay` proves that with the code's constants there are at most
  two, the first of them at the opening of the window.
- `registry.rs:230`: two settlements that read before either commits both write
  claims; `registry.rs:223-224` calls a re-run idempotent. It happens in
  `registry_settle`, and `OnlyRacesClaimTwice` says that it takes such a pair.
- `registry.rs:152`: the receivable is compared with the cap without a lock, so two
  submissions pass it together; `registry.rs:139-140` says the deposit is rejected
  once the cap is reached. It happens in `registry_settle` (cap 1, receivable 2), and
  `OvershootBounded` says how far it can go.
- `registry.rs:122`: a transcript is "always appended", but a refusal at the cap
  comes before it and rolls back (`registry.rs:139-140`, "reject before recording
  anything"), for a coin that is spent already too. `EvidenceKept` has this as its
  one exception.
- `wallet.rs:161`: a spend cut off after its bundle leaves the coins in the store
  and a later spend may use them again; `wallet.rs:158-159` says it "will not
  re-spend them". `RespendNeedsCutOff` shows that this is the only way.

## 5. Theorems

All hold for every value of the constants that satisfies the assumptions the
modules name: `ConstantsAssumption`, `DenominationsAssumption`,
`RequestsAssumption` (ranges of the amounts, powers of two from 1 on, shapes of the
requests, null values outside their sets), `FinitenessAssumption` (finitely
many request ids at a bank, finitely many banks), without which a sum over a table
has no meaning, and `HandlersAssumption` (finitely many handlers of submissions), for
the bound on caps. TLC evaluates them in every run.

Every property that a run checks, liveness apart, is stated by a theorem. Some hold
of the code only where a known race does not happen; the theorem then has that as
a temporal hypothesis about the behaviour, never as a change of the model:

| Hypothesis | Says | Needed, because |
|---|---|---|
| `RefundsAlone` | no two processes are about to refund one request | finding 1 |
| `RefundFits`, no SQL errors | recovery's refund fits the column, its statements succeed | recovery logs an error and goes on (section 4) |

They are not vacuous: in `withdraw_mixed` there are no SQL errors and `RefundFits` always holds, and every
behaviour of it that refunds a request from one process satisfies `RefundsAlone`. The
theorems about the registry need no hypothesis: what a race can do is in the
properties themselves.

**BankWithdrawProofs.** `RepliesMatchRecord` is not inductive: it says nothing of
handlers that have not answered yet. The inductive `IInv` adds what a row means by
its state (`RowsInv`: a signature is there from `signed` on and is the one over
the row's own message; only an unsignable request is compensated) and what a
handler past the debit holds (`ProcsInv`: the request of the record as it stands,
and from signing on the stored signature). Whether signing succeeds depends on
the record alone, so every handler of a record decides alike; that is why writing
`signed` or `compensated` without looking at the state is harmless for
`TypeCorrect`, `Idempotency`, `RefundExcludesSignature` and `Finality`, all proved
for any number of handlers, with crashes and SQL errors.

`RecoveryIsComplete` adds `RecoveryInv`: no handler runs before the bank serves,
and what is open during recovery is on its list or in its hands.
`KeepsContractWithRefunds` is the refinement, under `RefundsAlone`, from which no
process is about to refund what is refunded (`Unrefunded`); `KeepsContract` follows
where every message can be signed. Money is a sum over the records: `Gain(a)` is
what account `a` holds, open and issued debits included, beyond what was paid in. Every
step leaves it as it is, except a second refund of one record, which raises it
(`CompensateGain`). Hence `CustomersLoseNothing` without any hypothesis, and
`SingleRefundsConserveMoney` and `WithdrawalsConserveMoney` where no second refund
happens.

**BankDepositProofs.** `IInv` adds to the properties what a handler knows at a
stage (`HandlersInv`: the serial it inserted is not spent, its credit fits, its
request id is free, its coin is registered here) and that no two open
transactions hold the same row (`LocksInv`), and, for the answers, that a record was
answered accepted when it was written (`RecordsAnswered`), that a handler past the
look-up had found no record on arrival (`fresh`), so that only an overtaken retry is told
DoubleSpend under its own id, and that only a bank with a registry answers for it
(`RegistryAnswers`). From it: `TypeCorrect`,
`TablesAgree`, `TruthfulReplies`, `NoCrossBankDoubleSpend`, the refinement
`KeepsContract`, with and without a registry, and `DepositsConserveMoney`: a commit
credits what it records under a request id that had no record.

**RegistryProofs.** `IInv` has again what a handler may rely on between two
statements (`HandlersInv`: nobody has committed its serial since its insert; the
sum it has written fits), what the locks give (`LocksInv`), and that the first
depositor's transcript is on record (`TranscriptsInv`), because a collision is
answered from the transcripts and not from the serial. From it `TypeCorrect`,
`TruthfulReplies` and `EvidenceOutlives`. Settlements are followed row by row: in a row
that no other commit has written since a settlement began, what it read is what is
outstanding, and its `DELETE` covers it exactly if it is not empty (`AgreesInv`), and no
more is outstanding and claimed than was accepted (`BacklogInv`). So the nets and the
deletions of a settlement cancel wherever it was not raced: `LossNeedsRace`, and with it
`DoubleClaimNeedsRace`. `CapsOvershootByHandlers` counts who has passed the check and not
committed: the receivable plus a largest coin for each of them stays below a cap that
one of them was compared with plus a coin per handler (`ProspectInv`). A check that
passes adds one to the count while the receivable is below the cap, a commit moves a coin from the
count to the receivable, and a settlement or a rollback only lowers the sum.

**ClearingProofs.** `UsesRegistry` shows that what the banks do is, for the registry,
a step of `Registry` or none, so its theorems hold in the network
(`EvidenceKeptInNetwork`). `CInv` adds where a submission is (`HandoverInv`: a bank
handler that waits has it on the wire or at the registry, one that commits was
told of its own registration) and that a recorded deposit is registered for its
bank (`LedgerInv`). From it `NoCoinCreditedTwice` and the refinement
`NetworkRefinesContract`: many banks over one registry keep the contract of one bank.
`CreditsAreBacked` compares two sums over coins: a bank's balance is the value of
the coins it credited, its receivables the value of the coins registered for it,
and the first are among the second (`BackingInv`).

**RequestAuthProofs.** `Earliest(m)` is the earliest clock reading that the last of a
request's passages can have had: a nonce's lifetime less the stall after each one
before. `IInv` says that the nonce of a passed request is stored until the expiry of
that passage is over (`PassedInv`), although slow handlers insert and purge with old
clock readings, and that whatever acted was signed with the key registered for its
target (`ActedInv`); from it `TypeCorrect`, `ReplayIsBounded` and `KeyIsFixed`.
`CodeConstantsBoundReplay` is about the constants of `auth.rs`, 120 s = 2 * 60 s, and a
stall shorter than the skew: since a first passage is not before the opening of the window, at most
one more fits.

**WalletProofs.** `NoOtherLoss` rests on `RemovalInv`: what a spend has still to
remove is in a bundle, redeemed, or was overwritten. `RespendOnlyInWindow` and
`HeldIsGood` rest on `CleanInv`, which places each coin in one store or one bundle
unless a spend was cut off. `AccountsUsable` proves `AccountsStayUsable` from the
agreement of the registered key with what the wallet has stored or is about to
store (a registration is two steps, and `account create` may be run again).
`CommandsConserveMoney` sums over the accounts and coins that exist, which are
finitely many in every reachable state (`LedgerShapes`). `TypeCorrect` needs that
`decompose` returns a bag (`DecomposeType`).

The greedy walks are proved for every number of denominations, bag and amount.
`DecomposeIsShortest` compares `decompose` with any bag of the same total, from the
smallest denomination up: below each denomination the two values differ by a
multiple of it (`Aligned`), the greedy value is smaller than it, so the other bag
has at least as many coins more as it is multiples ahead. `SelectIsBest` is an
exchange argument from the largest denomination down. Take any two payments that
fit the purse together. Where the walk takes more coins of a denomination than the
first payment does, smaller coins of that payment come to exactly those
(`Split`, where powers of two are needed); the first payment gives them up, and
the second one takes from them what it needs for coins it has to give up
(`Exchange`). At the end the first payment is what the walk took, and the second
still fits.

**KeyStoreProofs.** `HonouredLater` says nothing of processes that have not refused
anything yet. The inductive `IInv` adds what a start has in memory at each stage
(`LoadedInv`), that a key in memory is the file's unless it is still to be written or
the file was written over (`MemoryInv`), and the same of `ca-cert.pem` (`CertInv`). A
step on a file either finds it without complete content, and then nothing can
depend on it, or notes it as written over (`FileStepKeeps`). From it: `TypeCorrect`,
`DependedOnDisk`, `KeysAreStable` and the action property `FirstStartOnly`, for any
number of processes, denominations and key pairs.

**SumTheorems.** The provers cannot use induction theorems with a predicate as
parameter. The lemmas here state induction with sets instead: a family of subsets
of a finite set has a smallest member (`SmallestSubset`, from the well-foundedness
of the strict subset relation), a set of numbers that has 0 and is closed under
successors up to n has 0..n (`CountUp`, `CountDown`). By the first, the recursive
function behind `SumFunctionOnSet` exists, is unique, does not depend on the order
of the elements, and changes as expected (`SumUpdate`, `SumAdd`, `SumSubset`). By
the second, `WalletProofs` shows that the recursive functions of `WalletCoins`
exist (`WalkExists`) and what they return.

**Only model-checked:** liveness (`RecoveryDecides`, `DepositEnds`,
`HandlersEnd`), which the prover does not do.

## 6. Not modelled

- Cryptography is ideal: a coin verifies exactly when the bank signed it, a signed
  request was made with the account's key, random values are fresh.
- Configuration, the command line, serialisation and the web page have no state of
  interest. A TLS handshake is a comparison of CA keys.
- `KeyStore` has the processes and files, the other modules take the keys as they
  are: a constant. A bank restarted with fewer denominations than its
  open records need is not modelled; recovery would
  then log an unknown denomination and leave them pending.
- The wallet's bank is one step per request, one bank, no registry and no balance
  limit. Files are written whole; loss of power without an fsync of the bundle is
  not modelled.
- What `fs::write` has written survives the process. A loss of power before the
  data is on the disk (nothing is fsynced) is not modelled.
- The recovery of a second bank process that runs while the first one serves is not an
  action of its own; a handler of a retry does the same to a record (section 2).
- `Clearing` has no settlements (they are in `Registry`), and the registry's
  authentication of a submission is an acceptance or a refusal.
- The HTTP agent of the registry client has no overall timeout, so nothing ends a
  deposit whose registry never answers: no liveness is stated across the network.
- Handlers' number is a parameter; the pool's size only limits it further.
- A refund that exceeds the column leaves its record pending for as long as the
  balance stays that high. The models contain it, but no run states a property
  of it.
- The registry's timestamp window and nonce store are the bank's code over
  `members`; `RequestAuth` is written from the bank's copy, and `Registry` has
  only the membership and the admin check.

## 7. Plan

Done, in this order: withdrawals with their contract, deposits with theirs,
authentication, registry, wallet; the key store and the certificate authority, the
composition of banks and registry, abandoned submissions, the loss of account
keys; the proofs about single components, then those about the registry, the
network of banks, recovery, refunds, money, and the two greedy functions; row by row
settlements, and what registry and nonce store guarantee with their races. Next:

1. Corollaries of `SelectIsBest` for the commands of `Wallet`: a spend fails for want
   of coins only if no coins held make the amount.
2. A shared statement of the timestamp window and nonce store for bank and
   registry, so that the theorems of `RequestAuthProofs` apply to both.
