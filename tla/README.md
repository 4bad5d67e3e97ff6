# Magna in TLA+

Magna issues private identity credentials on Aztec. A passport proof or an
Instagram proof becomes a set of private notes in the holder's wallet; the
holder proves a credential to a dApp by a private *verify* call; a company pays
for that call out of *verify rights* it bought on Ethereum or on Aztec; and a
second account of the holder, the *ghost*, can revoke everything and move the
passport root to a new wallet with a passport scan accepted by a portal on
Ethereum.

This directory holds TLA+ modules translated from that code, the TLC
configurations that check them, and TLAPS proofs about each part modelled here.
`PROJECT.json`
lists the components, the runs, the mutants that show each property can fail,
the lines of source every definition stands for, the hazards and the findings.
Paths below are relative to `src/`.

    tlc -workers 2 -config issuer_linking.cfg MCMagnaIssuer
    tlapm MagnaLoginProofs.tla

## 1. The system

### Contracts on Aztec

| Component | State it keeps | Operations | What is hard |
|---|---|---|---|
| `magna-issuer`, credentials | nine private note sets, the nullifier tree, one-time refresh authorizations, `verify_meter_count` | register (V1, V2, rooted), link, revoke (standalone, linked, root; by holder or ghost), recover, renew, verify (six kinds of note) | private calls read an *anchor* and settle later; a kill switch settled in between is not seen; linked secrets derive from root secrets; a recovery cannot delete notes in the old wallet, only outdate them |
| `magna-issuer`, sponsorship | delayed allow-lists of company and consumer gateways, delayed mask of sponsored types, rate-limit nullifiers | add and remove gateways, schedule a mask, the sponsored branch of each verify | delayed values read privately; window boundaries; one-way disable made of two values |
| `magna-company-rights-registry` | remaining and consumed rights, last nonce per company | claim an L1 credit, credit from the L2 adapter, `consume_right` | messages claimed late, twice, out of order; two rails; unsigned overflow |
| `magna-rights-purchase-l2` | its own nonce | `purchase_rights_public` against an AuthWit | atomic with the credit |
| `magna-company-sponsor` | wiring, `sponsored_verify_count` | twelve sponsored entrypoints, one per kind of verify, with and without a session | pays the fee before the public call that may revert |
| `magna-consumer` | `gated_login_count` | four login entrypoints | verifies for its caller |
| `magna-verify-meter-hook` | allowed mask, issuer, its count | `meter_verify_or_revert` | a revert must undo the issuer's count |
| `magna-webauthn`, `magna-webauthn-account` | one signing key note | signature checks | pure parsing |

### Contracts on Ethereum

| Component | State | Operations | What is hard |
|---|---|---|---|
| `MagnaRightsPortal` | configuration, purchase nonce, ERC-20 balance | `initialize`, `setTreasury`, `purchaseRights`, `withdraw` | a message is the only trace of a purchase |
| `MagnaRecoveryPortal` | `accepted` authorizations | `authorizeRecovery` | proofs travel while registry roots change; several proofs of one authorization |
| zkPassport `RootRegistry`, `RegistryInstance` (vendored, deployed with it) | roots with validity intervals, validation mode, window, pauses | `updateRoot`, revocation, policy, pause, add and remove | the window arithmetic underflows near time zero; a policy change affects proofs already built |

### Off chain

| Component | State | What is hard |
|---|---|---|
| login with Magna: connector, popup, wallet session broker, sponsor slots | a promise and its timer, the popup's document, one active request per broker, the slots used | four parties each of which may go away; answers after a timeout; two logins that find one slot; logins half paid |
| management app: issuance and storage of credentials | the session, the shown request, witnesses and references in `localStorage` | a completion runs on after a disconnect or a change of wallet; answers are lost; notes of dead credentials are still notes |
| management app: recovery V3 | React state and one finalization record in `localStorage` | a crash between the irreversible transaction and the last note discovery; a second recovery; a resume beside it |
| management app: company dashboard, with the wallet client's top-ups | the running action, the balance shown; the claim secret of a purchase in memory | two snapshot reads at two blocks; pages that share one L1 account; a claim whose answer is lost |
| embedded wallet: lifecycle, passkey accounts, PXE store | records, profile, target and chain fingerprint in `localStorage`, one store in OPFS | tabs that share one lock; a chain that restarts under a store; keys that do not belong to the answering passkey |
| verification API | its environment as read at start, handlers, one-time session codes | files, page and server of different deployments; a request delivered twice; clocks that disagree |
| local clock (development network) | phase of the sequencer clock, the ready marker | bootstrap runs in the past, live runs behind the host; an error that leaves the phase failed |
| bootstrap and validation scripts | manifest, environment files, completion marker | killed anywhere and run again over what is left |
| proof packages, core, bindings, static pages | none | pure or generated |

The interactions: the verification API is the *orchestrator* of the issuer and
sends its issuance transactions; the sponsor and the consumer call the issuer's
verify entrypoints; the sponsor and the issuer enqueue public calls to the
registry and the hook; both portals speak to Aztec only through messages of the
Inbox, each consumed by a nullifier; the management app drives the recovery
portal, the wallet client and the issuer in one recovery; a dApp, its popup and
the open management tab talk by `postMessage` and a `BroadcastChannel`; the
bootstrap, the page, the dApp and the API meet in the deployment files.

### What makes each part correct

* Revocation: a kill switch that settled stops verifications, links and
  renewals after at most 300 s, however old the anchor.
* Root lineage: a root is issued once, one version is live, and it moves only to
  a wallet the portal approved, once per approval; the ghost can always recover.
* Linking: a link kills the standalone credential it came from, and a linked
  Instagram credential dies with the root version it is linked to.
* Rights: every right was paid for, credited once to the company it was bought
  for, and used once; a balance counts every top-up the page knew to be done when
  its node reached the block it is read at.
* Sponsorship: verification, right, meters, rate-limit slot and session settle
  together; private reads of delayed values are still true at inclusion.
* Recovery: proofs survive root rotation but old roots age out, and what the
  browser remembers is true and enough to finish.
* Login: one outcome per promise, accepted on authorizations that stand in
  blocks, each granted once by the wallet that was picked; it always ends.
* Credentials: a witness opens the notes it is filed with, only a lost page or
  answer loses one, and a login finds the live credential of a wallet.
* Verification API: minted where it was asked, once, for no longer than the day
  of the proof allows; a session code is read once, in time, by its login.
* Wallet: no stale store is restored, the store belongs to the wallet that is
  open, ready means deployed and able to sign, no remembered wallet is forgotten.
* Deployment: a bootstrap that ends well leaves a network that can be used, and
  the services that run agree on it; a live clock does not drift ahead of the
  host; a smoke test that passes has had its purchase credited, once.

## 2. The modules

Each component `X` has its properties in `XSafety`.

| Module | Models | Composes |
|---|---|---|
| `MagnaIssuer` | notes, nullifiers and entrypoints of the issuer | |
| `MagnaRootLineage` | abstract: issue, withdraw, approve, recover | refined by `MagnaIssuer` |
| `MagnaIssuerProofs` | theorems: types, revocation lag, recoverability, one lineage, refinement; linking, linked credentials, renewals | `MagnaIssuerSafety` |
| `MagnaRights` | both purchase rails, the registry and the Inbox between them | |
| `MagnaRightsLedger` | abstract: buy, credit, use | refined by `MagnaRights` |
| `MagnaTopUp` | pages that top up, read balances, authorize and use sponsors | extends `MagnaRights`; properties in `MagnaRightsSafety` |
| `MagnaRightsProofs` | theorems: payment, the ledger, the balance shown | `MagnaRightsSafety` |
| `MagnaDelayedValue` | `DelayedPublicMutable` of aztec-nr (external) | |
| `MagnaSponsorship` | sponsor, consumer, hook, registry row, the issuer's gates, the transaction pool | `MagnaDelayedValue` |
| `MagnaSponsorshipProofs` | theorems: private reads, rate limit, atomic settlement | `MagnaSponsorshipSafety` |
| `MagnaRecoveryPortal` | registry, portal, Inbox | |
| `MagnaRecoveryFlow` | page, storage, relaying, Aztec side of one recovery | extends `MagnaRecoveryPortal` |
| `MagnaLogin` | dApp promise, popup, picker, broker, wallet, slots, blocks | |
| `MagnaLoginPromise` | abstract: ask, grant, accept, reject | refined by `MagnaLogin` |
| `MagnaLoginProofs` | theorems: the picked wallet, the allowance, the promise | `MagnaLoginSafety` |
| `MagnaCredentials` | requests, proofs, answers, notes and witnesses of the management page | |
| `MagnaCredentialsProofs` | theorems: where witnesses are filed, that they are kept, what a login is offered | `MagnaCredentialsSafety` |
| `MagnaVerification` | request checks, configurations, issuing transactions, session codes of the API | |
| `MagnaVerificationProofs` | theorems: where, for how long and how often is minted; redirects | `MagnaVerificationSafety` |
| `MagnaWallet` | passkey wallets of two tabs, their store and the chain's restarts | |
| `MagnaWalletProofs` | theorems: stale stores, who holds the store, ready wallets, remembered wallets | `MagnaWalletSafety` |
| `MagnaLocalClock` | Anvil, warps, checkpoints, activation, keep-alive | |
| `MagnaDeployment` | bootstrap scripts, files, services, smoke tests | extends `MagnaLocalClock` |
| `MagnaDeploymentProofs` | theorems: the clock, its headroom, smoke tests, services, completed networks; and, of the portal a deployment puts on L1, rotation, old roots, the stored record | `MagnaDeploymentSafety` and the two `Safety` modules of recovery |
| `MC*` | constants for TLC, and which parts of a component a behaviour is about | |

Where an `MC` module has a variable `about`, a behaviour picks one part of the
component at the start and stays with it: the parts share the state and the
helpers, but TLC need not multiply them. What each part leaves out is said in the
module's heading.

### MagnaIssuer

*State.* One variable per note set, with the names of the contract's storage,
plus the nullifier tree as a set of `[n, at]` (what, and when it settled), the
Inbox, the block time `now` and `fresh`, the next secret. A note carries the time
it was mined in place of its position in the note tree.

*Transactions.* A private call is proven against an anchor `a` and settles in a
later block. Each action is the settlement, in the block built at `now`, of a
transaction proven at some `a < now`: what the contract asserts about notes and
nullifiers is evaluated as of `a` (`AbsentAt`, `x.at <= a`); what the protocol
enforces is evaluated as of `now` (`Before` the inclusion deadline, inclusive,
and `Push` of nullifiers none of which exists). Since states carry settlement
times, every possible anchor can be picked afterwards and no pool is needed. The
pool is explicit in `MagnaSponsorship`, where public calls can revert.

*Data.* `random()` is a counter that never repeats. Hashes are injective and
separated by domain, so a nullifier is written as its domain and preimage, and a
derived secret (`compute_linked_status_secret`) as the pair it is derived from.
The claims hash of a credential is a model value, in one of four classes the
code tells apart: V1 passports and other V1 claims commit to their expiry, V2
passports open it from a blinded witness, Instagram is verified by its own
entrypoint. Ghost accounts are disjoint from wallets: the contract does not
require it, the wallets derive them so.

*Who calls.* `OrchestratorCalls` names the orchestrator entrypoints an instance
uses. The deployed service uses `register_rooted_passport_v2`,
`register_credential`, `register_credential_v2` and
`authorize_root_authority_refresh`; the V1 entrypoints exist for older notes and
are a part of the run `issuer_linking`. Holder and ghost entrypoints are called by the note's
owner at any time. `initialize_recovery_portal` is wiring, and has happened.

*Note spends.* A note popped by a call is a `Spend` nullifier; a note only read
leaves nothing, which is why verify, unlike linking and recovery, is bound to a
deadline. Old notes stay in the sets, since a wallet's cache may keep them: what
can be done with them is what the properties ask.

The meter hook is the zero address here and `force_sponsored` is false; the
sponsored branches are `MagnaSponsorship`'s.

### MagnaRights

Ethereum transactions and Aztec public calls are atomic actions. A message sits in
`inbox` from its purchase and its nullifier is in `consumed_messages` once it has
been claimed; claiming can happen in any order or never, and a second claim is
refused. The registry accepts credits from whatever adapter its admin installed,
so one other than this repository's is among the `Adapter`s, and
`EveryRightWasPaidFor` says of the L2 rail only what holds when none was. The
`u128` additions are checked, as in Noir: an overflow refuses the whole
transaction (`MaxU128`). Sums over messages and companies are written as
cardinalities of sets of units, which the prover can reason about.

`MagnaRightsLedger` is the promise: a company's rights are bought, become
available once and are used once. A right sold on Aztec is paid for in the step
that credits it; a credit at no known price needs an adapter of the admin's own
(`foreign`). A purchase that pays nothing, a message credited twice and a
right used twice are no steps of it.

### MagnaTopUp

A page runs one action of the dashboard at a time (`runAction`); `job` is where
it is, and every client call between two awaits is an action. `Fail` may take
the place of any of them, and a reload forgets the balance as well. What the
page holds of an L1 purchase (amount, id, and with them the claim secret) is in
`job` only. Pages share the L1 account of the configuration, so one page's
`approve` replaces the allowance of another's, computed as in the code from the
L2 price; the event read after the purchase is the first one of its block, which
may be another page's, and then the claim never fits. `Claim` may settle and its
answer be lost; the retry then finds the nullifier. `owed` is what the page was
told. Two equal authwits count as one, registration of contracts and fee juice
are one step, and the sponsored verification is reduced to its right.

A snapshot is simulated on the block the page's node has by then, not on the
latest one: `seen` is the counters of that block and what the page had been told
when its node reached it. `CatchUp` brings the node to the latest block at any
moment or never, so the two fields of one snapshot may lag by different amounts,
and a snapshot right after a top-up may miss it: the client has
`waitForSponsorRightsSnapshotPurchaseSync` (`client.ts:1762-1779`) for that,
and the page reads without it (`App.tsx:2255`). That a node never goes back, and
that the counters of a block are those of one moment, are the assumptions. The
time at which the page is told and the time at which its node has the block are
thus apart, and `TopUpsAreShown` promises only what is true of such a page: what
it was told *before its node reached the block of the first field*.

### MagnaSponsorship

A transaction is proven against the latest block (`anchor`), waits in `pool`, and
is then included, reverted in public (the fee stays charged and the
non-revertible effects stay), or dropped. Gateways, disables and the mask are
delayed values read at the anchor, which bounds the inclusion deadline by the
earliest time the value could change. The sponsored call sets the fee payer, ends
setup, and enqueues the public metering call, in that order. Fees are counted at
their upper bound, gas limits times maximal fees per gas, as one of the bounds a
wallet may set (`assert_fee_cap`).
The plain and the consumer lane share the issuer's meter and hook. Which notes a
verify proves is `MagnaIssuer`'s subject: here the twelve sponsored entrypoints
are one action with or without a session, and the four logins another, over a
credential that has a type, an expiry and a status secret.
Sponsor contracts' own wiring is one-time and can happen in any order.

### MagnaRecoveryPortal

The registries' roots are a sequence of published roots and a record of the
interval and revocation of each, as in `RegistryInstance`; `ValidByMode` follows
its four validation modes, the checked subtraction included. A wrapper proof is a
record of what it attests: the authorization, the date and the root of each
registry. `Prove` may use any published root and a date up to `Lead` ahead. A
root may be dated up to `Lag` behind the chain and never ahead of it, with `Lag`
below the validity window: the publisher's practice, not a check in the code, and
`ProofsSurviveRotation` needs it. `authorizeRecovery` makes the portal's checks
and then sends one message; the verifier itself is trusted to accept what is
true. Who may call an owner operation is left to the owner. `batchUpdateRoots`,
`updateRegistry` and transfers of roles are not modelled.

### MagnaRecoveryFlow

One page of the management app. Each action runs from one `await` of
`startRootRecovery`, or of `resumeRecoveryV3Finalization`, to the next; `Fail`
leaves it at any await and `Crash` loses the page's memory. An attempt is one
number: it stands for the recovery nonce, the message secret and the claim blinds
derived from them, all made in the page. `pending` is the one record in
`localStorage`, `witnesses` the claim witnesses saved there. Before the portal
call is sent, the proof's date is compared with the latest L1 block and the call
is simulated. The issuer's side is reduced to what the page can
observe: messages that reached Aztec's tree, transactions in the pool that
expire after `TxLife`, and which attempt's notes the root keeps alive. Whether an
attempt's credential is active is asked of any live root note the wallet holds
(`selectRootStatusHint`), so an attempt that was rotated away to the same wallet
still reads as active (`Active`); all attempts of one root go to one wallet. One proof
is made per attempt, and a credential lives `Lifetime` after its proof (the
smaller of the document's expiry and 30 days).

### MagnaLogin

`login` is the promise of `openLoginRequest`, `page` the document in the named
window (a second call of the dApp loads the same window again), `mail` and
`channel` the messages in flight, delivered in any order, `tab` the management
tab with the brokers it registered, `run` the wallet's work wherever it runs:
in the tab, or in the popup with a session of its own. A request asks for one
credential or more (the connector refuses none); each requirement selects a
slot from the nullifiers settled so far, broadcasts, and may be sent again only
on a conflict found before it was broadcast. Timers are untimed: one may fire
whenever it is set. Verifications conflict in a block when they hold the same
slot of the same credential. The passkey prompts are `BeginAction`/`EndAction`,
which make the tab busy. The popup always serves a page that opened it:
`AuthorizePage` refuses to work without an opener, the redirect login of the
integration guide included.

### MagnaCredentials

A request captures the session it began with and runs on whatever happens to
the page's own; `shown`, `request` and `busy` are the React state, `witness` and
`refs` the two `localStorage` lists. The API's part is its handler per request
and the transaction it sends. `Live` is what the issuer will verify, and
`Selectable` what `wallet-login.ts` offers after reading the notes, their kill
switches and the witnesses. A link needs a live rooted passport among the
credentials shown. All passports are of one person and share a root;
blinds are fresh, so an attempt names its claims hash. One browser, one tab.

### MagnaVerification

A configuration is what the `.env` files may name: issuer, profile, scope, DKIM
keys. The manifest names the issuer alone; `fill-env-from-local-deploy.mjs` copies
it into the `.env` files, where the rest is edited by hand. The page was built
with the `.env` files of some moment; the API reads them when it starts and lays
the manifest over them. A proof is a record of its
public inputs: action, owner, scope, date, registry root or DKIM key. A handler
simulates, then sends; a request whose connection died may be delivered again,
also to the next process, so two handlers of one request may overlap. The page's
clock may be ahead by `Skew` of the server's. Session codes live in the memory
of the process and die with it; the exchange of one may fail after the server has
deleted it or before it got there, and the dApp's pending login is gone either way. Rate limits of the HTTP server are left out.

### MagnaWallet

An account is a pair: the public key its contract is deployed with and the
passkey whose PRF derives the rest. They differ when a person enters a public
key and another passkey answers. `flow` is one opening, step by step: store,
ceremony, registration, status, deployment, notes, records. `owner` is the tab
whose wallet holds the OPFS store; opening needs it free. `committed` is the
chain fingerprint this browser keeps, `store.chain` the chain its data is of.
Simplifications: clearing the store and keeping the fingerprint of the new chain
are one step; a tab runs one chain check at a time; the WalletDB is part of the
store; managed and external wallets are not modelled.

The effect of `App.tsx:653-673` runs beside the flows: when the open wallet has no
record, `StartRepair` notes its account, and `SaveRepair` writes the record later,
after the hash `rememberWebAuthnWalletSessionAccount` awaits, whatever the
records hold by then and whether or not the wallet is still open (`cancelled`
keeps the log line back, not the write). A recovery target is opened with the key
kept in its profile (`OpenTarget`, kind `target`; `App.tsx:1260-1267`), which is
compared with the address only after the record was saved, and only where a
destination is prepared. Both can displace the record of a passkey's own wallet
by an account of that passkey under another's key. `RememberedWalletsStay` names
the ways this can happen: a key the person entered, a target's, a profile that is
itself such a wallet, and a repair of one. An opening by a stored or a new
passkey, or by the profile of an ordinary wallet, is none of them.

### MagnaLocalClock and MagnaDeployment

A unit is four seconds of the node's time: a slot is two units, the danger
threshold four. Headroom and gateway delay are shortened together (48 and 24 for
two hours and one), so that a bootstrap has to warp through the delay inside
the headroom as it does in earnest. The sequencer's serial queue keeps checkpoints,
warps and activations apart (`QueueFree`); it does not hold L1 back. A checkpoint
of a live clock is two steps: `Pace` reads the pending time and compares the slot
it leads to with the host's clock, then `Checkpoint` reads the pending time again
and builds (`patch.mjs:23`); up to `Between` L1 blocks come in between, and
`BuildFails` is the way out of the queue without a build. `WarpTo` waits *before* it
sets the stamp (`policy.mjs:66-67`) and sets an exact one, so it stays one step.
Activation and keep-alive run inside the queue and read L1 and set it in one
step. The bootstrap is one process with a program counter (`boot.at`), killed at any
point by `BootstrapDies`; a deployment is named by its attempt, so two files agree when
they name the same one. L1, L2 and the files can be lost separately
(`RestartChain`, `RestartNode`, `FreshStart`). A bootstrap may begin under services
that run, as `up --build` does. Retries of a step, and the transactions of
`DeployApps` (nine) and `Seed` (six), are one step of one slot each.

The smoke tests are the validator's, await by await: purchase, send of the claim
(`SendClaim`), its inclusion at any later block or never (`IncludeClaim`, which
spends the nullifier of the message and credits), the answer the script awaits
(`ClaimAnswered`), the reading of the balance (`CheckBalance`), and the replay,
whose every outcome, its own success included, ends in *passed* (`Replay`). The
replay may be included after that. Others buy and consume meanwhile
(`Traffic`), so the balance alone proves nothing. Two simplifications: `work` follows
one test at a time, so a claim left over from a failed test counts as another's
credit, and an Inbox index that is not the portal's is one way to fail.

## 3. The runs

Times are small numbers whose order is that of the code's constants. Every
configuration says `CHECK_DEADLOCK FALSE`, because a bounded instance stops when
its time, secrets or rights run out; the program has no end state of its own.
Symmetry is declared on wallets and on companies, which no definition tells
apart, and only in configurations whose properties are symmetric safety
properties.

| Run | Question | Bounds, and why they are enough |
|---|---|---|
| `issuer_linking` | Do revocation, linking and recovery compose when proofs wait, for notes of both generations? | One root, one Instagram credential, one recovery; `RevocationAnchor = 2` of 4 time units, so a proof can wait 0, 1, 2 (the last allowed) or 3 (refused); 8 secrets allow issuance, link with rotation and one recovery. The V1 entrypoints run over claims of their own (`about = "legacy"`), with 4 secrets |
| `issuer_roots` | Does the root have one lineage, and does the system implement the abstract one? | Two wallets, two messages, so two recoveries of one version race, and follow each other; renewals race with both |
| `issuer_same_wallet` | Is the old lineage unusable after a recovery? (finding) | One wallet, one recovery |
| `rights_purchase` | Are rights conserved across both rails, and does a balance count the top-ups its node knows of? | Contracts alone: two companies, amounts 1 and 2 against `MaxU128 = 3`, so sums overflow; two purchases per rail, on L1 one where the contract was initialized with another registry or adapter, and authorizations up to `MaxU128`. Pages: one operator that buys and reads, one other page that buys over the bridge with the same L1 account, authorizes and verifies; the operator's node lags by any number of blocks during a reading; two claim attempts, so a lost answer is retried; two L1 blocks, so purchases share one or not. A registration goes before the other page's step, and a gateway is removed between two actions of the pages. A behaviour follows the operator until it has read a balance, and a reading that began is not given up |
| `sponsorship` | Are private reads still true at inclusion, and do the effects of a sponsored verify settle together, within its rate? | *governance*: policy delay 3 in 5 time units, so adding and removing take effect while a call waits; *settlement*: two credentials and two waiting transactions on one slot per window of 2, so windows turn while transactions wait; 2 rights, so budgets run out |
| `recovery` | Do proofs survive rotations, and old roots not? Is what the browser keeps true? | *portal*: three roots in succession, two proofs of one authorization, every mode, windows 2 and 9 (9 underflows), age 2; *flow*: two attempts, one page, resumes beside, failure after every step |
| `recovery_restart` | Can every recovered passport be finished? (finding) | The same flow |
| `login` | Does a login keep its promise, and end? | Two requests that share the popup's name, one with two requirements of one credential, two slots: so a login runs out of slots only beside another; two wallets; the tab may register twice, so a dead broker's messages meet a live one |
| `credentials` | Does storage follow the notes through loss, switch and link? | A passport, its renewal and an Instagram credential, in either issuance mode; two wallets opened twice in all |
| `verification` | Does what is minted follow what was asked, whatever was redeployed, repeated or delayed? | Two deployments, a development and a production profile, one root rotation; one request beside every change, or two passports of one person; two deliveries; staleness 1, validity 2 and expiry 5 of 4 days, so each of the three limits binds; two redirect logins with two codes that live one unit |
| `wallet` | Is the store never stale, owned by who is open, and ready when it says so? | *tabs*: two tabs and one wallet; *keys*: one tab, two passkeys and accounts of either key under the first, with records that are repaired; another device deploys while this one asks; *reset*: one tab, one passkey and a chain that restarts once. One repair waits per tab; the tabs are symmetric |
| `deployment` | Is a bootstrap that ends well usable, whatever died before? Does a live clock drift? Does a smoke test tell the truth? | *deploy*: two attempts and two networks; Headroom 48, Delay 24 and slots of 2, so a deployment crosses the warp and still fits. *clock*: four units of live time, enough for activation, a stale anchor and a checkpoint built a block (`Between = 1`) after its pacing check, then another. *tests*: both smoke tests beside a buyer and a consumer of one right (`MaxCredit = 1`), so one credit can hide another |

What the properties say is in the `*Safety` modules, each above its definition.
Every property of a passing run has a mutant in `PROJECT.json`: the definition
with a plausible bug, under which that very run reports that very property.

Fairness is assumed in two modules. `MagnaLogin` takes weak fairness of the
timers (`LoginTimeout`, `DiscoveryTimeout`, `CompletionTimeout`), of the dApp's
validation, and of each step of a wallet's run: timers of a document that stays
open fire, and an `await` on the node returns or throws. Nothing is assumed of messages, of
the person, of inclusion, or of any party staying: `LoginsEnd` and `WalletIsFreed` hold when all others
have gone. `MagnaCredentials` takes weak fairness of what a page and a server do on
their own (the final-result timer, proving, the handler, the answer), and
nothing of the phone: `RequestsEnd` therefore starts where the phone has sent its
last proof, as the timer does. The other modules claim safety only: what their
users, relayers and operators may stop doing, they may stop for ever.

## 4. The findings

Each is a run whose single property a text of the repository states and the
translated code violates.

* `issuer_same_wallet` / `OldPassportLineageUnusable`. `recover_root_v3` outdates
  the old root status note. The linked passport notes carry the root commitment
  alone (`main.nr:1833`), so in a wallet that receives the root *again* the old
  passport notes and their authority note pair with the new status note.
  The recovery specification says the old lineage becomes unusable. Linked
  Instagram notes are bound to the version's secret and do die, which
  `LinkedInstagramDiesWithItsRootVersion` checks.
* `recovery_restart` / `RecoveredPassportIsResumable`. `localStorage` holds one
  record. A second recovery replaces the record of one that settled after its
  page had failed, and with it the only copy of its claim blinds.

Other places where text and code differ were met while modelling. The models
follow the code, and no run is spent on them:

* `docs/protocol-spec.md:543` says that a failing check costs the sponsor
  nothing; the budget is checked by the public `consume_right`, after the sponsor
  has become the fee payer, so the loser of a race for the last right is charged
  to it (`Revert` in `MagnaSponsorship` keeps the fee).
* `docs/passport-recovery-v3-spec.md:587` says that a recovery never mints an expired
  credential; `main.nr:1303` compares the expiry with the anchor and bounds no
  inclusion by it. The verify entrypoints refuse the result.
* `passport-issuance.ts:26` advises to issue a rooted passport again when its
  witness is missing, which the one-time issuance nullifier refuses.
* `docs/integration-guide.md:128` offers a redirect login for blocked popups;
  `AuthorizePage.tsx:219` ends in an error without an opener.
* `magna-testnet-validate.mjs:1213` throws the error that reports a successful
  replay into the handler that swallows refusals, so the script could not fail on
  it; `PassedMeansCredited` holds because a claim spends the nullifier of its
  message, whenever the replay is included.

## 5. The proofs

Each theorem below is proved for every value of the constants; the runs show
the same property on a small instance, with a mutant that breaks it. The
hypotheses are the named assumptions of the modules: sorts are disjoint where
the code tells them apart, bounds are naturals. Those that say more are listed
at the end of the section.

The pattern is the same throughout. A property is seldom inductive, so a proof
module starts with the invariant that is: the shape of the state, then what each
step relies on. Steps are examined once, in a lemma that sorts them into a few
*kinds* (what a step does to the part of the state in question), and the
invariant is proved over kinds. `PTL` does the temporal step at the end.

### The issuer

* `TypeCorrect`: `TypeOK` is inductive. One lemma per group of entrypoints
  (`TypeIssue`, `TypeHold`, `TypeRenew`, `TypeRecover`, `LoginStep`).
* `RevocationLag`: `BoundedRevocationLag` follows from `TypeOK` in every state.
  The lemma `AbsentNotEffective` is the heart of it: a nullifier absent at `a`
  settled after `a`, and the inclusion deadline is at most `a` plus the window,
  so it cannot have been settled for the whole window. What the proof adds to the
  run is that each entrypoint checks every kill switch it is exposed to *and*
  bounds its inclusion, for any window.
* `RootRecoverability`: `RootAlwaysRecoverable` is not inductive. A step that
  issues or recovers a root creates a recovery note whose secret is `fresh`; it
  is usable only if nothing with that secret has settled. `RecoverableInv` adds
  `FreshSecrets`: settled lineage nullifiers and existing root notes use secrets
  below `fresh`.
* `RootLineage`: `OneLiveRootVersion` needs more: `LineageInv` adds that each root
  either has no notes, or has settled its issuance nullifier and has one live
  pair (`LivePair`): a status and a recovery note with the same secret, the
  recovery note usable, such that every other version of the root is retired and
  every other recovery note unusable. A second issuance is then refused by the issuance
  nullifier, and a recovery from an older note by the older note's nullifiers.
* `IssuerImplementsLineage`: every step maps to a step of `MagnaRootLineage` or
  to a stutter, where roots are issued by V2 entrypoints only (`RootedOnce`, the
  deployment's practice). The holder of a root is the owner of its live version,
  which `LineageInv` makes unique; an approval is an unconsumed message of the
  Inbox, counted per root and wallet, and a recovery consumes exactly one.
* `LinkingIsFinal`: `LinkingInv` ties the two nullifiers a link pushes together.
  A settled linked-issuance nullifier of a wallet and claims hash comes with the
  kill switch of the *one* standalone status note there can be
  (`OneStandalone`, `LinkingKills`), settled at the same time.
* `LinkedDiesWithVersion`: a linked note's secret is derived from a version of its
  root (`LinkedToVersion`), and whatever recovers that root later finds that
  version retired by then (`RecoveryRetires`). It rests on `LineageInv`: if two
  versions could live, a link to the other one would survive.
* `RenewalsReplace`, `RenewalApproval`: counting arguments. Authorities use
  secrets of their own (`Sampled`), so a renewal exchanges one live authority for
  another (`AuthorityInv`), and the authorities a wallet holds of a root are its
  versions plus the approvals it has used (`RenewalInv`), each of which was given
  (`Approvals`).

### Rights

Theorems of `ClientSpec` in `MagnaTopUp`: any number of pages over the contracts,
beside any other caller. The run follows one operator's page to its first
reading; the theorems cover every reading of every page.

* `TopUps`: `TopUpsAreShown` speaks of a balance made of two readings at two
  blocks, so it is not inductive. `TopUpInv` says why the sum is large enough: what a page is
  owed is in the registry (`OwedIsHeld`), so is an L2 purchase it has not
  reported (`BoughtIsHeld`), the message of its L1 purchase is for what it asked
  (`BoughtIsAsked`), what a node has seen is past, and covers
  what its page was owed by then (`SeenIsPast`), and half a snapshot is a lower bound the other half only raises (`HalfIsEnough`). The last holds because the remaining rights are read first:
  read the other way round, a right used in between would be in neither number,
  which is the mutant of the run. All calls of the contracts are examined once,
  in `AnyCall`: rights change hands, none is lost, and a new message has a
  number of its own (`Grows`). That another page's event was read does no harm,
  since a claim goes ahead only with the number of the page's own purchase.
* `RightsArePaidFor`: `PaidInv` adds to the property that balances and budgets
  are naturals, that the messages are finitely many with distinct numbers, and
  that only what was sent is consumed (`Accounts`). `CallEffect` reduces every
  call to what it does to the books; one lemma per effect then adds a unit set
  to a sum or moves it.
* `BudgetsFollowLedger`: the same effects, mapped to steps of
  `MagnaRightsLedger`. `PaidInv` is needed for the claim: what is credited is
  still bought and not yet credited.

### Sponsorship

* `PrivateReads`: `PoolInv` keeps for each waiting transaction that what it read
  is `Sure` from now to its deadline, and that the deadline is before its anchor
  plus the policy delay. A change scheduled meanwhile takes effect a delay after
  *now*, hence after the deadline (`SureWhenScheduled`). This is the one place
  where the minimum over all deadlines matters: a gate left out of it would not
  be covered.
* `WindowsAreRateLimited`: a settled limit nullifier names the window of its
  anchor, and the deadline keeps the transaction in that window up to and
  including its end, which is why `WindowOf` of the settlement is half-open at
  the other side (`SettledWindow`). Entries of a credential and window then
  differ in their slot, and there is an injection into `Slot`.
* `AtomicMetering`: the counters and the cardinalities of the settled sets move
  together in `Include`, and nothing else moves either (`Metered`).

### Recovery

These theorems are the second part of `MagnaDeploymentProofs`.

* `RotationSurvival`, `RetiredRoots`: `PortalInv` says that a published root began
  at some time up to now, and has an end if it is not the latest (`Intervals`);
  of each proof, that its roots were published and, if it was made with the roots
  of the moment, that they began before its date and were not replaced a validity
  window before it (`ProofsKnown`).
* `TrueRecords`, `OneRecoveryIsKept`: `FlowInv` says what the page at each await,
  and a resume, have seen (`Seen`), that every attempt anyone knows was started
  (`Started`), and what is kept from the record on until the witness is saved
  (`Kept`). That the second holds for one attempt and not for two is the finding
  `RecoveredPassportIsResumable`.
* `FlowImplementsPortal`: every step of the flow is one of the portal's or leaves it
  alone, so the first two theorems hold of the whole recovery.

### Login

* `LoginInv` says of each request that it is in at most one place: not yet asked,
  asked, in a popup's picker, in discovery, called to a broker, on its way back,
  or running (`OneToken`). Two runs of one request at a time, or a broker's late
  answer that starts a second one, would be two tokens. What follows a token is
  said per request: who was picked (`WalletPicked`), which requirements were sent
  (`Ordered`), what the allowance check counted (`Checked`).
* `PickedWallet` follows from `WalletPicked`.
* `AllowanceCovers`: what other logins used when the run started leaves each
  credential at least as many slots as the run has requirements of it
  (`Covers`). The requirements sent so far hold one slot each (`UsedOnce`), so
  one is left for the next: a surjection from requirements to slots.
* `LoginKeepsPromise`: the steps of dApp, popup and chain mapped to
  `MagnaLoginPromise`. That a login is accepted on settled verifications is
  the dApp's own check; that they are all of *one* wallet, and that none settles
  before the dApp asked, needs `WalletPicked` and `Ordered`.

### Verification API

* `MintedWhereAsked`, `EndFollowsProof`, `MintsOnce`: `VerificationInv` follows a
  request. Once the server has it, the page's flow does not change what was asked
  (`Closed`); the proof binds deployment, root and end (`Sealed`), and from the
  check of its date on also its validity (`Fresh`); each transaction carries
  what its proof says (`Covered`). Configurations and restarts appear in none of
  these, which is the point: they can change what is accepted and not what
  an accepted proof means.
* `BoundRedirects`: a code is in the map or was read, not both, and names one
  login (`RedirectInv`).

### Wallets

* `WalletInv` says per tab what an opening holds at its stage (`Holds`: an
  account from the ceremony on, and the account's note in the PXE once it is
  taken for ready), that the tab owns the store exactly while it works on it or
  has it open (`Owns`), and how old the page is (`Current`). The lemma
  `FlowMoves` is the step of an opening, `Closes` the step after which a tab
  holds nothing; `OthersUndisturbed` says why other tabs are unaffected by
  either: the store changes only under its owner or when there is none.
* `StaleStores` rests on the order of a check: the page is no newer than what it
  has asked the node, and it is prepared only when the fingerprint is that of
  the node or the store is gone. A store that another tab holds cannot be
  deleted, and then the page stays unprepared.
* `StoresAreOwned` is `Owns`: an opening that fails gives the store up, unless it
  prepares a target on a wallet that is open (`Borrows`), which then still owns
  it. Any other opening is refused while a wallet holds the store.
* `ReadyWallets`: the note of an account is found before it is called ready, and
  the store can be emptied only when no wallet is open (`Sound`, `StoreGrows`).
* `RememberedWallets`, an action property: a record is kept under the passkey
  its account is derived with (`RecordShape`), so what saving another account
  can displace has the same passkey and another public key (`Displaced`). By
  which doors such an account comes in is examined for openings and for repairs
  (`SavedByFlow`, `SavedByRepair`).

### Credentials

* `CredentialInv` says of a request that has not begun that it has no owner and no
  handler (`Owned`), of a transaction that waits what it may issue (`Issues`), of
  what is in the chain that an Instagram credential in rooted form has killed its
  standalone form (`Issued`), of a handler that is done that its transaction is
  in a block (`Answered`), of a witness that it is under the key of the wallet
  the request began with (`Filed`), and of a flow past its answer that its
  witness is there (`Kept`). `Grows` is what no step takes back: notes, kill
  switches, witnesses, and the owner of a request.
* `WitnessesFollow`, `WitnessesAreKept` follow from `Filed` and `Kept`: a request
  captured its wallet, and neither looks at the page's session.
* `LoginsAreServed`: the key of a witness leaves out the mode of an Instagram
  credential, so one witness opens it before and after linking; and the two
  forms are never alive together, so the one that is alive is offered.

### Deployment

* `DeploymentInv` sorts the points of a bootstrap into sets, from the last one
  back (`Ending`, `Ported`, ..., `Placed`), each with what must be behind it
  (`Behind`, `Completing`). A manifest names the network it was written on; while
  that one runs, its rights stack and token are on the chain (`OnThisNetwork`).
  The marker is the last word: until the files go nothing is written over
  what it was written for, and while its network runs that can be used
  (`Complete`). After a restart of either chain the manifest names a network that
  is gone.
* `ServicesAreOfOneDeployment` is `Serving` with `Complete`: services start on a
  marker, and beside one no later attempt writes a file.
* `CompletedNetworksAreUsable`, an action property: only two steps end a bootstrap
  well (`WhoIsDone`). One writes the marker; the other finds it, and the portal
  it names on L1. `OnlyL2Lost` is what that look at L1 alone leaves out.
* `ClockDoesNotDrift`: a live L1 may pass the host by a block in flight, and a
  checkpoint by the blocks between its check and its build. `ClockShape` keeps two
  bounds: what was read at the check was not ahead, and each block since adds at
  most one. An activation succeeds only when all of L1, the last checkpoint
  included, is behind the host, and the next check refuses until the host has
  caught up (`ClockMoves`, `ActivateKeeps`), so nothing accumulates.
* `SmokeTestsAreTrue`: `Tested` ties the stage of a test to its claim: at *claiming*
  one waits or was credited, after its answer it was credited, and the nullifier
  makes the number of credits at most one however often it is sent. The balance
  the script reads plays no part in the proof: with other buyers it cannot.
* `HeadroomIsEnough`: an inequality for every number of attempts, slot and
  delay. `Budget` says of each point of a bootstrap that what L1 and Anvil are
  still behind the host (`Spare`) is at least what the rest of the way costs. An
  attempt that dies before it writes an environment file has used up one block
  and two checkpoints (`FirstCost`); one that wrote a file is the last until the
  files go with the chain, and pays the gateway's delay, four checkpoints and the
  blocks between (`LastCost`). `Beside` keeps the rest out of the sum: while a
  bootstrap works no clock has been activated, so traffic, refreshes and funded
  wallets come after it or with a new chain. `HeadroomCovers` is an equality in
  the `deployment` run (48).

### Assumptions that say more than sorts and bounds

* `OperationAssumption`: roots are dated less than the validity window behind the
  chain, and the chain's time is past one window. The first is the publisher's
  practice, the second the age of Ethereum.
* `RightsAssumption`: a treasury buys no rights from itself and is not the portal.
  The contract does not check it; a portal that is its own treasury would count
  a withdrawal twice.
* `RootedOnce` in `IssuerImplementsLineage`, and as a hypothesis inside the
  issuer properties that need it: the deployed orchestrator has no other call.
* `SponsorshipAssumption` and `FlowAssumption` take slots and authorizations to be
  finitely many, which counting needs.
* `DeploymentAssumption` takes the absence of a file (`None`) to be neither the
  number of an attempt nor a manifest.
* `HeadroomIsEnough` has two hypotheses. `HeadroomCovers`: the headroom is at
  least what so many attempts cost, in the model's count, where a stage of the
  bootstrap is one block; the two hours of the code are fixed and its attempts are
  not, so some number of attempts does use them up. And no smoke test
  runs before the marker is written: nothing stops the operator from running one
  against a half-built network, and its claims move time.

### Only model-checked

The liveness of login and credentials (`LoginsEnd`, `WalletIsFreed`,
`RequestsEnd`) is out of the prover's reach, as is everything about `ENABLED`. The two findings
are violations and have nothing to prove.

## 6. Not modelled

* Cryptography and encodings: hashes are injective, proofs attest what is true,
  signatures belong to their signer. WebAuthn parsing, circuits and proof inputs
  are pure functions over bytes.
* Roles: that an owner, admin or orchestrator entrypoint checks its caller is
  taken as the reading of the assertion; transfers of roles, and the one-time
  wiring of the issuer's portal, are left out.
* Reorganisations and pruned blocks of either chain.
* A second tab of the management page during a recovery or an issuance; managed
  and external wallets; the redirect login's popup-less page, which the code
  does not serve.
* `batchUpdateRoots`, `updateRegistry` and the transfers of roles in the
  vendored registry.
* `magna-verify-meter-hook-instant` (a test double), generated bindings, the
  vendored token except the transfer the purchase uses, static pages, artifact
  tooling and end-to-end tests.

## 7. The plan

Done: the issuer, rights with the pages that buy them, sponsorship, recovery,
login, credentials, the verification API, the wallet, and the development
deployment with its clock; the theorems of section 5.

Next:

1. A second tab in `MagnaRecoveryFlow` and `MagnaCredentials`, sharing
   `localStorage` and not React state.
2. `batchUpdateRoots` and the registry's roles.
