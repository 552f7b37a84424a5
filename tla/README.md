# Roshi vault: a TLA+ verification project

Roshi is a Solana program that runs base-denominated NAV vaults. Users deposit
for shares, a NAV authority reports what the vault is worth, a strategist moves
the money through authorized calls to other programs, and users leave through a
queue of withdrawal tickets or atomically. This directory models the program as
a set of state machines, model-checks them with TLC and proves, with TLAPS, the
safety properties of every component for instances of any size.

## 1. The system

| Component | State it keeps | Operations | Where |
| --- | --- | --- | --- |
| Accounting math | none | floor/ceil products, share and asset conversion, performance fee, oracle scaling | `interface/src/math.rs` |
| Vault account | NAV, fee and queue counters, drip window, configuration, pause flags | drip, debit, report recognition, gates, validation | `interface/src/state/vault.rs` |
| User instructions | share balances, tickets | `Deposit`, `Redeem`, `CancelRedeem` | `roshi/src/instructions/user` |
| Withdrawal queue | ticket accounts by (vault, owner, index), their rent | `ProcessWithdrawals`: strike, pay, close | `admin/process_withdrawals.rs`, `accounts/` |
| NAV reporting | report epoch, watermark, drip | `ReportNav`, `RecoverNav` | `admin/report_nav.rs` |
| Atomic redeem | custody around a CPI | `AtomicRedeem` | `execution/atomic_redeem.rs` |
| Fees | `fees_payable` | `CollectFees`, `WriteDownFees` | `admin/` |
| External custody | registered destinations, `external_assets` | register, revoke, `InvestExternal`, `ReturnExternal` | `admin/` |
| Administration | configuration, pauses, access mode | `InitializeVault`, `UpdateVaultConfig`, `SetPauseFlags`, `SetVaultAccess`, `SetShareMetadata` | `admin/` |
| Execution | `Action` accounts, custody token accounts and their delegates | `AuthorizeAction`, `RevokeAction`, `Manage`, `ManageBatch`, `Swap`, `DepositAndDeploy`, `AssertDelegateCleared`, flash approvals | `execution/`, `interface/src/action.rs` |
| Flash fee rate | the rate in an `Action` | admin sets it, strategist lowers it | `admin/flash_fee_rate.rs` |
| Assets and oracles | asset registry, base oracle | register, update, read Pyth, Scope and Switchboard, value a deposit or a swap | `oracle/`, `accounts/oracle_price.rs` |
| Roles, program config | program authority, five roles per vault | create, transfer, set | `admin/`, `accounts/program_config.rs` |
| Access lists | Merkle root, private mode | client builds tree and proofs, vault verifies | `client/src/access.rs`, `interface/src/access.rs` |
| Client builders, encoding | none | account lists, argument layouts | `client/`, `interface/src/instructions` |

Instructions share the vault account. Each loads it (which validates it),
checks, moves tokens through the SPL token program, perhaps calls another
program, and stores it. There are no threads and no messages: the concurrency is
that independent actors submit transactions in any order while the clock runs,
that the programs a vault calls do as they please with the accounts and the
signature they are handed, and that the submitter of a transaction chooses every
account in it and what other instructions stand beside it. A transaction is
atomic: a failing check undoes all of it. What is hard is therefore the
*sequence* and the *account list*: exits priced by a report that comes after
them, two exit paths and a cancel racing for the same shares, configuration
replaced while money and tickets are in flight, an allowance that must be gone
by the end of a transaction somebody else arranged, a price chosen among several
genuine ones, an account that only looks like a ticket. `PROJECT.json` lists each
hazard at its line.

What makes the components correct:

* the share ledger and the base ledger balance after every instruction;
* a stored vault account can be loaded again;
* nobody but a NAV report lowers the share price, and a smoothed report never
  raises it at once;
* fees are charged only above a watermark that never falls;
* a redeemer always gets out, and every burned share is honoured once: returned
  to its owner or paid to the recipient it named, by its own vault;
* between transactions nobody but its sub-account controls a custody account,
  and a relayed call is one the admin authorized;
* a price used is genuine, fresh, and the only one of its feed in that valuation;
* nobody outside those a vault's admins named ever passes one of its role checks;
* the Merkle list admits the listed wallets and no others.

## 2. The modules

```
RoshiMath -> VaultAccount -> Vault -> VaultProperties -> VaultClaims -> MCVault
                               |                                          ^
                               +-- RedemptionQueue <- VaultRefinement ----+
Tokens ------+-> Execution -> ExecutionProperties -> MCExecution
ActionHash --+
     +---------> ActionEncoding -> MCActionEncoding
Tokens -> Oracles -> Assets -> AssetsProperties -> MCAssets
Tokens -> ProgramAccounts -> ProgramAccountsProperties -> MCProgramAccounts
AccessList <- AccessTree -> MCAccess
Tickets -> MCTickets

Proofs, each beside the module it is about:

ArithmeticTheorems -+-> VaultProofs          (VaultProperties, VaultRefinement)
                    +-> TicketsProofs        (Tickets)
                    +-> AssetsProofs         (AssetsProperties)
                    +-> ActionHashTheorems   (ActionHash)
                             +-> ClientProofs     (ActionEncoding, AccessTree)
                             +-> ExecutionProofs  (ExecutionProperties)
ProgramAccountsProofs                        (ProgramAccountsProperties)
```

The accounting core:

* **RoshiMath** - the share arithmetic of `math.rs`. Products are exact naturals
  (the code computes in u128); the conversions that fail are the predicate
  `fits_u64`, which the handlers make a guard of.
* **VaultAccount** - the `Vault` struct as a record, its `&mut self` methods as
  operators from record to record, its failing checks as predicates.
* **Vault** - the state machine. One action per instruction. An action's guard
  is the conjunction of the handler's checks, in its order; its updates are the
  token movements and the stored account. `venue` and `forgiven` are the only
  variables that are not program state: they record the value last reported
  outside custody (less the flows since) and the fees written down since that
  report, so that the books can be stated as an equation.
* **VaultProperties** - its properties, and the fairness of `FairSpec`.
* **RedemptionQueue**, **VaultRefinement** - what redemption promises a holder,
  as a specification of its own (shares are held or queued; queued shares come
  back whole or are paid after a report their owner could not have seen), and
  the mapping under which `Vault` implements it.
* **VaultClaims** - three statements of comments that the code does not meet.

What surrounds it:

* **Tickets** - withdrawal tickets as accounts of two vaults: the addresses they
  live at, the account lists that open, cancel and settle them, the recipients
  fixed at redemption, and the rent. Amounts and timing are `Vault`'s.
* **Tokens** - SPL token accounts and mints as records, and every check
  `token.rs` makes of them.
* **ActionHash**, **ActionEncoding** - ops, the preimage of an action hash, its
  pre-sized buffer, stored ops and packed flags. A hash is its preimage, a
  sequence of the words the code writes, so that whether two fields can run
  together is decided, not assumed.
* **Execution** - the registry of actions and transactions of several top-level
  instructions: `Begin`, one step per instruction (one per action of a batch),
  `Commit`, or `Abort` back to the saved state. A called venue is external: it
  may set balances, approve, plant a close authority, give the account away or
  close it, as far as its signature and the writable flags go.
* **Oracles**, **Assets** - the three price readers with their identity and
  freshness checks, the read session that keeps one price per feed, decimal
  scaling with its overflow; and the registry, deposits and swaps that use them.
* **ProgramAccounts** - creation of the config, of vaults and of share mints,
  the five roles and both authorities, share metadata, and how an account is
  recognised (owner, type tag, derived address).
* **AccessTree**, **AccessList** - the client's Merkle tree and proofs and the
  vault's check, shown to implement a plain list, which is what `Vault` uses.
* **MC...** and the `.cfg` files - the instances for TLC.
* **ArithmeticTheorems** - products and order, the least element of a set of
  naturals, and sums over finite functions: one entry changes, the sum changes by
  as much. The community module's `SumFunction` is a fold, about which nothing is
  provable without such lemmas.
* **VaultProofs, TicketsProofs, AssetsProofs, ProgramAccountsProofs,
  ActionHashTheorems, ClientProofs, ExecutionProofs** - the theorems. `ClientProofs`
  is about what a client prepares off the chain: action patterns and access lists.

An operator named `X_SomeFault` beside an operator `X` is a plausible bug in
`X`; substituting it must break a property. They document what each property
catches and are used nowhere else.

How the modules fit together: `Vault` takes from the others what they establish.
A private vault is a set of members (`AccessTree` implements it); a non-base
deposit is the base value it adds (`Assets` says which); roles may act at any
time (`ProgramAccounts` says who can be one); a ticket is an entry of a function
(`Tickets` says which accounts stand for it); the unwind of an atomic redemption
returns any amount (`Execution` says what a venue can do meanwhile).

### Correspondence

| Model | Code |
| --- | --- |
| `vault`, `config`, `paused`, `access` | the vault account, split by who writes it |
| `share_supply`, `shares` | the share mint's supply and token balances (SPL) |
| `tickets[<<owner, index>>]` | the ticket PDAs; `ClosedTicket` is the account closed and zeroed |
| `custody[<<sub_account, "ata" or "aux">>]` | base token accounts a sub-account PDA owns; `ata` is the associated one |
| `destinations` | the `ExternalDestination` PDAs |
| `now`, `slot` | the Clock sysvar; `AdvanceClock` moves both |
| `execute_deposit`, then `Deposit` or `DepositAsset` | `DepositContext::resolve_base_atoms` picks the branch; both run `execute_deposit` |
| `Settlement(batch)` | the loop of `process`: each turn strikes a ticket on the vault the previous turn left |
| `reported_vault` | fee, watermark, epoch, then `apply_reported_nav` with the old `last_update_ts`, then the stamp |
| `Execution!tx`, `pc`, `leg` | the transaction, the Instructions sysvar's current index, the action of a batch |
| `Execution!stored_action(t)` | the `Action` account at the address derived from the pattern's hash |
| `validate_authorized_cpi`, `bind_flash_siblings` | the functions of those names in `execution/shared.rs` |
| `Execution!flow`, `relayed`, `admin_rate`; `Assets!valued`, `overfilled`; `Tickets!claims`, `gifts` | nothing: they record what a property needs to refer back to |
| `Assets!read_session` | `OracleReadSession::read` |
| `ProgramAccounts!ledger`, `Tickets!accounts` | account owner, lamports and data by address |
| `ProgramAccounts!Circle` | nothing: whom the holders of a vault's roles are willing to name |
| `AccessTree!layers`, `siblings`, `proof` | `AccessMerkleTree` of the client |
| `AccessTree!climbed` | the loop of `verify_access_merkle_proof` |

Abstractions, all of them of data: pubkeys are small numbers or model values and
a derived address is its seeds (bumps and writable flags of Roshi's own accounts
are left out); a Merkle hash is the term it was made from, so collisions are
excluded; a caller's slippage floor is 0 in `Vault`, because a floor can only
turn a success into a rejection; `report_hash` is carried for off-chain use
only; `MaxU128` is small in `Oracles` so that overflow happens. A burn that a
delegate signs is a burn by the ticket's owner.

## 3. What is checked

Run a configuration with `tlc -config X.cfg M`, `M` being the module of the run.

| Run | Module, cfg | Instance | Shows |
| --- | --- | --- | --- |
| `queue` | `MCVault`, `MCQueue` | 2 users x 2 ticket slots, batches of up to 2, 2 reports, grace of 2 slots | `SharesAccounted`, `NothingStruckAtRest`, `EligibleIsStrikable`, `OnlyReportsLowerPrice`, `ImplementsQueue` |
| `nav` | `MCVault`, `MCNav` | 1 user, 3 reports over 4 seconds, 3 s drip, 50% fee, 10% atomic exit fee | `VaultStaysLoadable`, `ReportNeverLiftsPrice`, `PayoutKeepsUnlockLine`, `FeesOnlyAboveWatermark` |
| `admin` | `MCVault`, `MCAdmin` | 2 sub-accounts, 2 configurations, external custody, pauses, private mode, 50% gain bound, grace of 2 slots | `TypeOK`, `BooksBalance`, `GainsBounded`, `NoRedeemerTrapped` |
| `tickets` | `MCTickets`, `MCTickets` | 2 vaults x 2 owners, 3 redemptions, batches of 2, recipients that close or change mint, a look-alike, a gift | `TicketsTypeOK`, `ClaimsAreHonouredOnce`, `RentComesBack`, `NobodyIsLockedOut` |
| `execution` | `MCExecution`, `MCExecution` | 5 deployments, below | `ExecutionTypeOK`, `CustodyIsCleanAtRest`, `FlashCostsAtMostItsFee`, `RelaysAreWhatTheAdminMeant`, `StrategistNeverRaisesTheCap`, `SwapKeepsVaultValue`, `DeployMovesOnlyTheDeposit` |
| `action_hash` | `MCActionEncoding`, `MCActionEncoding` | all pairs of lists of up to 2 of 11 ops over 36 calls, up to 5 account flags | `HashPinsThePattern`, `PreimageExactlyFits`, `OpsSurviveStorage`, `FlagsSurvivePacking` |
| `assets` | `MCAssets`, `MCAssets` | 3 markets, below; 3 mints, 2 time units | `AssetsTypeOK`, `DepositCreditsTheFloor`, `OnePricePerFeed`, `PricesAreGenuineAndFresh`, `DepositsNeverOverfill`, `SwapLosesToleranceAndAnAtom` |
| `accounts` | `MCProgramAccounts`, `MCProgramAccounts` | 3 keys, 2 vaults whose tags pad alike, 2 arguments that are no tag, 1 look-alike address, 1 prefund | `AccountsTypeOK`, `OutsidersPassNoGate`, `VaultsAnswerAtTheirAddress`, `CreationIsNeverBlocked` |
| `access_tree` | `MCAccess`, `MCAccess` | 5 wallets, 10 lists of 0 to 5 wallets, forged proofs of up to 2 hashes | `ListedWalletsGetIn`, `ImplementsList` |
| `claim_grace`, `claim_drip`, `claim_idle` | `MCVault`, `MCClaim...` | smallest instance that reaches the case | counterexamples, section 5 |

**Bounds of the vault runs.** Amounts are a few atoms and one whole share is 4
share atoms (`ShareScale = 4`), with one virtual share: floors and ceilings then
differ from the exact quotient almost everywhere, so a rounding in the wrong
direction shows in one step, and a price of zero is reached by an ordinary loss.
`MaxU64 = 200` is never the reason a guard fails in these instances; what happens
at the limit is the proofs' business, where `MaxU64` is any number. Two tickets
per batch are enough for one strike to see the state another left; three reports
are enough for a drip to be rolled over and then lost. `MaxTs`, `MaxSlot`,
`MaxEpoch` and `MaxRequestSlot` bound the run's length only. `MaxRequestSlot`
stops new requests early enough that every ticket's escape opens before
`MaxSlot`, without which the liveness property would blame the bound.

**Deployments of the execution run.** A behavior is of one deployment, chosen at
the start. *flash*: all transactions of up to four of eight instructions, which
is every order of one borrow, one approval, one spend and one cleared check with
any of them repeated, faked or missing; amounts up to 4 with a loan of 2 at one
half, so that the fee is one atom and one atom too many is seen. One of
the patterns lacks the cleared check, as if its author had forgotten it. *early*: two
patterns, one with its loan before the approval and one with it after, in every
order with one borrow, so that two approvals can meet at one loan. *routes*: a
batch of two calls and swaps both ways, with a custody account the swap does not
name among the route's accounts, two wallets, pauses and revocations. *public*:
deploy and unwind routes that pin all their accounts and ones that leave some
loose, which the code must refuse unless the loose ones are not passed at all;
the unwind route pays into a second base account of the sub-account, and the
caller names that one or another as the custody to measure. *rates*: seven
fractions with equal values in other terms, zero numerators and zero
denominators. Amounts and the length of transactions are bounded here only; the
proofs bound neither.

**Markets of the assets run.** *pull*: two Pyth update accounts that anyone
rewrites, two feeds, one update not fully verified, lists of accounts in both
orders and with one account twice. *cached*: a Scope entry whose admin remaps
and freezes it, another feed's mappings account, a Switchboard quote, and lists
that mix them. *several*: two Pyth configurations and swaps with every choice of
endpoints (`endpoints`: whether each is the deposit sub-account's own account of
its mint or another account) and of amounts, zero included (`swap_amounts`); two
endpoints may be of one mint if they are two accounts, as `SwapContext::load`
compares keys. In the first two markets swaps are between own accounts and move
at least one atom. Prices with different exponents and mints with one decimal make
every one of the four scales of a valuation cancel in some state; amounts up to
2 and caps of 2 and 3 let two deposits race for one place.

**Bounds of the others.** Three keys are one for the program, one for each
vault's own circle, each an outsider to the rest. One prefund of 1, 2 or 3
lamports with a rent of 2 is short of, at and past the exemption. Lists of 1 to 5
wallets give trees with an odd node in none, one and two layers. Two vaults and
two owners make every wrong pairing of ticket, owner and recipient possible.

**Symmetry.** Users are interchangeable in `queue` (safety only).

**Fairness.** `FairSpec` (in `admin`) assumes that slots keep passing (the
cluster's clock) and that a redeemer whose cancel is possible eventually submits
it. Nothing is assumed of the withdrawal authority, of the NAV authority or of
the admin: that they may never act, or pause and reconfigure meanwhile, is the
point of the property. It needs `cancel_grace_slots > 0`; with 0 the code has no
escape once a ticket is strike-eligible, which is what the control's comment
says. `LiveSpec` (in `accounts`) assumes that whoever deploys the program and the
vaults keeps submitting the right transaction, and nothing of those who send
lamports ahead.

**Refinements.** `ImplementsQueue`: `Vault` under the mapping of
`VaultRefinement` implements `RedemptionQueue`. `ImplementsList`: `AccessTree`
with the set of the published list for `members` implements `AccessList`.

## 4. What is proved

Check a module with `tlapm M.tla`. The theorems hold for every value of the
constants that satisfies the named assumptions of the component, which TLC
evaluates on its runs.

| Theorem | Statement |
| --- | --- |
| `VaultProofs!TypeCorrect` | `Spec => []TypeOK` |
| `VaultProofs!AlwaysLoadable` | `Spec => []VaultStaysLoadable` |
| `VaultProofs!StrikesArePaid` | `Spec => []NothingStruckAtRest` |
| `VaultProofs!PriceNeverFallsBetweenReports` | `Spec => OnlyReportsLowerPrice` |
| `VaultProofs!SharesConserved` | `Spec => []SharesAccounted` |
| `VaultProofs!BooksAlwaysBalance` | `Spec => []BooksBalance` |
| `VaultProofs!FeesAreEarned` | `Spec => FeesOnlyAboveWatermark` |
| `VaultProofs!ReportsNeverLift` | `Spec => ReportNeverLiftsPrice` |
| `VaultProofs!ReportsStayInBounds` | `Spec => GainsBounded` |
| `VaultProofs!PayoutsKeepTheLine` | `Spec => PayoutKeepsUnlockLine` |
| `VaultProofs!DueTicketsAreStrikable` | `Spec => []EligibleIsStrikable` |
| `VaultProofs!VaultImplementsQueue` | `Spec => ImplementsQueue` |
| `TicketsProofs!TicketsKeepTheirTypes` | `Spec => []TicketsTypeOK` |
| `TicketsProofs!EveryClaimIsHonouredOnce` | `Spec => []ClaimsAreHonouredOnce` |
| `TicketsProofs!RentAlwaysComesBack` | `Spec => []RentComesBack` |
| `TicketsProofs!TicketsLockNobodyOut` | `Spec => []NobodyIsLockedOut` |
| `AssetsProofs!AssetsKeepTheirTypes` | `Spec => []AssetsTypeOK` |
| `AssetsProofs!DepositsAreFloored` | `Spec => []DepositCreditsTheFloor` |
| `AssetsProofs!SessionsHaveOnePrice` | `Spec => []OnePricePerFeed` |
| `AssetsProofs!PricesStayGenuine` | `Spec => []PricesAreGenuineAndFresh` |
| `AssetsProofs!CapsHoldForDeposits` | `Spec => []DepositsNeverOverfill` |
| `AssetsProofs!SwapsKeepValue` | `Spec => []SwapLosesToleranceAndAnAtom` |
| `ProgramAccountsProofs!AccountsKeepTheirTypes` | `Spec => []AccountsTypeOK` |
| `ProgramAccountsProofs!GatesKeepOutsidersOut` | `Spec => []OutsidersPassNoGate` |
| `ProgramAccountsProofs!VaultsKeepAnswering` | `Spec => []VaultsAnswerAtTheirAddress` |
| `ActionHashTheorems!HashesPinPatterns` | any two ops lists and well-formed calls satisfy `PinsThePattern` |
| `ClientProofs!HashesAlwaysPin` | `AuthoringSpec => []HashPinsThePattern` |
| `ClientProofs!StorageLosesNothing` | `AuthoringSpec => []OpsSurviveStorage` |
| `ClientProofs!PackingLosesNothing` | `AuthoringSpec => []FlagsSurvivePacking` |
| `ClientProofs!PreimagesFit` | `AuthoringSpec => []PreimageExactlyFits` |
| `ExecutionProofs!StrategistStaysUnderTheAdmin` | `Spec => []StrategistNeverRaisesTheCap` |
| `ExecutionProofs!ExecutionTypeCorrect` | `Spec => []ExecutionTypeOK` |
| `ExecutionProofs!DeploysTakeNothingElse` | `Spec => DeployMovesOnlyTheDeposit` |
| `ExecutionProofs!RelaysAreMeant` | `Spec => []RelaysAreWhatTheAdminMeant` |
| `ExecutionProofs!CustodyStaysClean` | `Spec => []CustodyIsCleanAtRest` |
| `ExecutionProofs!SwapsKeepVaultValue` | `Spec => SwapKeepsVaultValue` |
| `ExecutionProofs!FlashLoansCostTheirFee` | `Spec => []FlashCostsAtMostItsFee` |
| `ClientProofs!ProofsAdmitOnlyTheListed` | a proof that verifies against a list's root is a listed wallet's, whatever its hashes |
| `ClientProofs!TheListedHaveProofs` | a listed wallet's proof verifies against the list's root |
| `ClientProofs!ListedAlwaysGetIn` | `Spec => []ListedWalletsGetIn` |
| `ClientProofs!TreeImplementsList` | `Spec => ImplementsList` |

**Recursion.** Batches, ops lists, settlements and Merkle layers are recursive
functions, and sums are folds. What they compute is proved by an induction written out: the set
of indexes at which a claim fails, if not empty, has a least element
(`LeastNat`), and the step before it contradicts that.

### The vault

*Assumptions*: `MathAssumption`, `VaultAssumption` (finite sets of users, tickets
and custodies; configurations of the right type).

**The inductive invariant.** `Inv` is `TypeOK /\ VaultStaysLoadable /\
NothingStruckAtRest`. None of the three is inductive alone. That a subtraction
stays in u64 (`TypeOK`) needs `locked_profit <= total_assets`; that a debit keeps
that bound needs the payout to be at most effective NAV; and that a batch pays
exactly what it strikes needs `pending_withdrawal_assets = 0` and
`assets_owed = 0` before it, or the sum of the payouts would not be the growth of
the pending counter.

1. *Arithmetic.* A floor is at most its quotient (`FloorBound`), a part of a
   whole is at most the whole (`FloorOfPart`), and from these: a deposit's floored
   shares and an exit's floored payout both keep
   `(effective + 1) / (supply + virtual)` from falling (`EntryKeepsPrice`,
   `ExitKeepsPrice`), and an exit is never worth more than effective NAV
   (`ExitIsCovered`). Comparisons are cross-multiplied, so no fraction appears.
2. *Account.* The locked remainder is at most `locked_profit`, falls with time
   and survives a re-anchoring (`RemainingBounds`, `RemainingFalls`,
   `DebitFacts`); a report leaves a valid account (`ReportedFacts`).
3. *Batch.* `RunTurn` shows that one turn of `Settlement` keeps a record of facts
   about the loop (valid account, pending equals settled, total falls by settled,
   price kept) and `RunSettles` carries it to the end of a batch of any length.
4. *Steps.* One lemma per action that moves money, one step per action in
   `NextInv`; the temporal theorems combine them.
5. *Ledger.* Changing one entry of a sum, and zeroing a set of entries for a
   batch; `NextShares` uses one lemma per action that touches shares.
6. *Books.* `BooksMove` reduces a step to the amounts by which it moves the five
   terms of the equation; each action then names its amounts. A report does not
   move them: `IdleSplitsCustody` shows that the idle read and the rest of custody
   are the whole, so the equation holds after a report whatever held before it.
7. *Refinement.* Initial states map to initial states of `RedemptionQueue`, and
   each action of `Vault` to an action of it or to a stutter; a batch maps to one
   step that settles all its tickets, because every ticket it strikes is paid.

### Tickets

*Assumption*: `TicketsAssumption` (finite vaults, owners and indexes; a ticket's
address is its seeds, so no look-alike is at one). `TicketsInv` is stated of a
ledger and not of the state, so that it can be carried through the turns of a
batch: `Kept` says that every claim has exactly one ticket or has ended in one of
its allowed ways and that every ticket is some claim's; `Worth` says that an
owner's wallet and the lamports at the addresses of its tickets add up to what it
came with and was given. Honouring once is not inductive without the converse
half, that no two tickets carry one claim.

### Assets

*Assumptions*: `AssetsAssumption` (the swap bound is set, decimals are naturals;
`MaxU128` is any bound, the code's included: a power of ten exists as far as it
fits, which at the code's size is exponent 38),
`MarketsAssumption` (oracle accounts stay with their programs; a Scope price
account starts with prices its mappings name). `AssetsInv` is `OraclesInv /\
RegistryInv /\ ValuationsOK`. That a price is genuine needs `EntriesMatch`: an
entry that holds a price holds one of the source its mapping names, through
remapping and freezing. The decimal scaling is four cases (which side cancels),
each a floor of an exact quotient; the swap bound then follows from one floor and
one ceiling, hence the one atom.

### Program accounts

*Assumptions*: `ArgumentsAssumption`, `AddressAssumption` (no one holds a key to
a derived address). `AccountsInv` describes the account at every address: what a
config, a vault, its share mint and its metadata can look like at every stage of
creation, with the roles inside their vault's circle. A vault that exists has a
mint: the order of creation is what makes it inductive.

### Actions

*Assumption*: `EncodingAssumption` (ops with fields of their width, calls whose
data fits the u32 its length is hashed as). A preimage is read from the front:
the first cell of an op gives its kind (`TagsTellKinds`), the kind and the cells
after it give its length, so two equal preimages are split at the same places
(`OpsAreReadOneWay`, `HashesComparedUpTo`), op by op. `PreimagesFit` counts the
same cells against `preimage_len`, 32 bytes for a cell that is a key. The only
invariant needed is that the lists are lists of ops and flags (`ListsInv`).

### Access lists

*Assumption*: `AccessAssumption` (wallets are numbered, lists are sequences of
them). That hashes do not collide is not an assumption but the model: a hash is
its term. `TreeInv`, that the vault holds the root of the list in force, is all
the state needs; the rest is about trees.

1. *Shape.* The entries are the listed wallets, each once: a wallet's rank is the
   number of listed ones before it, ranks differ, and as many ranks as wallets are
   all taken (`EveryRankIsTaken`). A layer of more than one node is followed by a
   shorter one, so a layer of one node comes up before the layers run out
   (`TowerShape`, `HeightShape`).
2. *Nobody else gets in.* A climb that meets a node of some layer met one a layer
   below or is still at its leaf (`MeetsBelow`): a leaf is no node, and a node
   determines its two children. Down at the leaves it met its owner's own
   (`MeetsALeaf`). Nothing is asked of the proof, so stale, foreign and forged ones
   of any length are covered, and of the empty list nobody has a proof.
3. *Nobody listed is kept out.* The proof up to layer i takes the owner's leaf to
   the owner's place in layer i (`OnTheWay`): a place with a sibling climbs to the
   node of both, in either order, and a last place without one moves up with no
   hash added (`SiblingPairs`). A proof has at most one hash a layer, hence the
   bound on the tree's depth in the property.

### Execution

*Assumptions.* `DeploymentsAssumption` gives instructions, patterns and accounts
their shapes and says that no wallet has a sub-account's key, which is a PDA.
`CleanStartAssumption`: custody is clean to begin with. `BackstopAssumption`: of
the two siblings a FlashApprove pattern commits, the one of this program is the
cleared check, runs later, and is tied by the account it checks. The code leaves
that to the pattern's author (`bind_flash_siblings` compares the program only:
"Program + selector + the tied account are pinned by the action hash"), and
`CustodyIsCleanAtRest` is false without it. `VenueAssumption`: the amount offset
of a Deploy pattern is where its venue reads the amount. `LenderAssumption`: the
other sibling of a FlashApprove pattern is the lender's borrow, at whatever
distance, tied by the account it pays into; like the cleared check, the code
leaves this to the pattern's author. Further shapes in
`DeploymentsAssumption`: a deployment has finitely many token accounts, its
slippage tolerance is at most 10000 bps (`validate_percentage_bps`), and prices
are naturals.

Six invariants, each used by the next:

* `RegistryInv`: every stored action is one of the admin's patterns, under that
  pattern's hash, with a rate `AtMost` the admin's. "Lower" alone is not enough:
  the relation must survive a chain of lowerings and include equal rates in other
  terms, zero numerators, and admin rates that are no fractions.
* `TypeInv`: the running transaction is a list of the deployment's instructions
  with `pc` and `leg` inside it, and what an abort restores is typed too.
* `RelayInv`: a recorded relay is `Meant`. This is where `HashesPinPatterns` is
  used: the hash of the rebuilt call is the stored one, hence the pattern's, hence
  the call agrees with the pattern in everything the ops see.
* `CustodyInv`: in the middle of a transaction an account may have a delegate,
  so cleanliness is not invariant. What is: the sub-account keeps control, and
  where there is a delegate, the check that it is gone is `Pledged` to run later
  in the same transaction. A transaction that gets to its end has run it; one
  that does not restores accounts that were clean.
* `FlowInv`: the books of a transaction (what loans paid in, committed fees, what
  delegates took) are numbers for every account.
* `LendingInv`: what delegates took and may still take from an account is within
  the fees and the loans that approvals so far were of, each loan counted once,
  whether or not it has been paid in yet. The property speaks of loans that were
  paid in; an approval may come before the borrow it is measured by, so the
  invariant counts loans by position in the transaction (`Covered`), and only at
  the end, when every instruction has run, are the two the same sum (`PaidIn`).
  A delegate's allowance falls by what it draws (`Drawn`), an approval replaces
  it. An approval is measured by the loan its pattern places; that no other action
  of the transaction is bound to the same loan is `LoansAreNotShared`, the
  property's own condition.

**A swap and the rest of custody.** `SwapsKeepVaultValue` needs no invariant beyond
types. An account of the swapping sub-account that the route is handed may not
lose (`verify_custody_unchanged`); one of another sub-account is not signed for, so
it can only lose what a delegate draws under an allowance it had; one that the
route is not handed does not change. The endpoints are what `verify_swap_value`
compares. The sums over custody then differ by at most the tolerance
(`SumWithinButTwo`).

**Properties made exact by their proofs.** `SwapKeepsVaultValue` used to be
stated of deployments in which no delegate is around during a swap; it now
subtracts what delegates drew in the step and holds of all of them.

`FlashCostsAtMostItsFee` holds of transactions in which no two actions are bound to
one loan (`LoansAreNotShared`). Nothing in `bind_flash_siblings` says so: the actions
of a batch are one instruction and have the same siblings, and patterns that place
the loan at different distances can meet at it from two instructions. Each
approval is then measured by the whole loan, and the argument counts a loan once.
Where all patterns place their loan at one distance and no batch approves twice,
the condition is met; `early` has a pair of patterns that can miss it.

`DeployMovesOnlyTheDeposit` is about the amount check of `try_deposit_and_deploy`:
a venue that takes no more than the call names takes no more than the deposit. The
venue of a deposit is as arbitrary as any other, and what it takes beyond the
amount in the call nothing in the code compares; the property says so in its
antecedent. That it plants nothing on the accounts it is handed is
`CustodyIsCleanAtRest`, by the scan and the re-verification after the call.

**The custody of an atomic redemption.** `AtomicRedeemContext::load` takes any base
account of the sub-account the caller names, and `execute_unwind_cpi` measures and
re-verifies that account alone. The accounts the unwind route is handed are the
pattern's, and need not include it. `Execution!AtomicRedeem` has the caller's choice
(`ix.custody`), and the `public` deployment a redemption that names another account
than the one its route pays into (`redeem_unwatched`). An account that an
AtomicRedeem route is handed as writable (`Exposed`) is therefore outside
`CustodyIsCleanAtRest` and `FlashCostsAtMostItsFee`, base custody included: the venue
of an authorized unwind could leave a delegate there, and only the admin's choice
of venues keeps it from doing so. The payout itself is bounded by what arrived in
the measured account and debited from the books (`Vault!AtomicRedeem`). There the
comparison of the amount in the call's data with the entitlement is left out; it
only refuses calls, so the model allows more than the code.

**A correction.** `RelaysAreWhatTheAdminMeant` used to ask that a Deploy call pass
exactly the pattern's accounts. The proof failed: `require_all_metas_bound` checks
the accounts that are passed, so a caller may leave out trailing accounts that no
op ingests. The property now says what the code ensures, that nothing else is
passed (a prefix for Deploy, no other writable token account for AtomicRedeem),
and the run has a call that leaves one out (`deploy_short`). It also says who
relayed: the strategist for Manager and FlashApprove actions, the strategist or the
swap authority for swaps, while the admin replaces the strategist between
transactions.

### Only model-checked

* `NoRedeemerTrapped` and `CreationIsNeverBlocked`: liveness, and `ENABLED`.

Every other property of a passing run is stated by a theorem.

## 5. What the comments say and the code does not

* **Grace shorter than the cancel delay** (`MCClaimGrace`). The comment of
  `cancel_grace_slots` opens the escape at `request_slot + cancel_grace_slots`;
  `try_cancel_redeem` also asks for `REDEEM_CANCEL_DELAY_SLOTS`, so a grace
  below 150 slots opens later than it says.
* **Two reports in one second** (`MCClaimDrip`). The window of a re-locked gain
  is the time since the previous report. A second report in the same second, or
  shortly after, releases the rest of the first gain at once or faster than "the
  span it was earned in". `min_report_interval_secs` prevents it where it is set.
* **Idle base outside the associated account** (`MCClaimIdle`). Returns,
  investments and fee payments check a custody account's mint and owner;
  `report_nav` reads the associated accounts. Base returned to another account
  of the same sub-account is not in the idle read the comment says always covers it.
* **Struck tickets that wait** (`queue`, a property that holds).
  `docs/economic-controls.md` (lines 247 and 326) lists as an accepted risk that a
  struck, unsettled ticket can be trapped by a dead withdrawal authority, and the
  comment of `try_write_down_fees` calls struck tickets inviolable.
  `process_withdrawals` strikes, pays and closes in one instruction, so there is no
  such ticket: `NothingStruckAtRest` is checked and proved, and the risk the docs
  accept is not one the code has.

One more thing the instances above take into account. A fee rate stored with
a positive numerator and no denominator makes every relay of its action revert;
`rate_strictly_lower` then takes any rate at all for a lower one, so
`StrategistNeverRaisesTheCap` speaks of actions the admin gave a proper fraction.

## 6. Not modelled, and the plan

Not modelled:

* The instruction enum, its argument structs and their serialization, and the
  client's instruction builders. They keep no state, the encodings are generated
  by derive macros, and a builder lists accounts in a fixed order; the
  integration tests run every one of them.
* Tests and the fuzz driver, read as evidence of intent.
* Byte layouts of accounts, except packed flags, stored ops and padded tags.
* In `Oracles`: Pyth's and Switchboard's own signature checks (an update carries
  whether it is genuine). Scope is assumed to empty an entry that it remaps. A
  Pyth update dated after the clock is accepted, as by the code.
* In `Assets`: a vault with `max_swap_slippage_bps = 0`, whose swaps the code
  does not value at all (`verify_swap_value` in `Execution` has that branch).
* Base sent to a custody account by anyone outside the program.
* In `Execution`: a venue that calls back into Roshi. The runtime forbids
  reentrancy.

What would extend the project, in this order: `LoansAreNotShared` as a condition on
the admin's patterns instead of on transactions; the two liveness properties, once
the prover handles fairness; and the byte layout of accounts.
