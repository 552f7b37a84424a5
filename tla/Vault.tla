------------------------------- MODULE Vault -------------------------------
(***************************************************************************)
(* The Roshi vault program as a state machine: deposits, queued and atomic *)
(* redemptions, NAV reports, fees, external custody moves and admin        *)
(* configuration over one vault account.                                   *)
(*                                                                         *)
(* One instruction is one transaction, hence one action: a failing check   *)
(* anywhere in a handler reverts all of it, so a handler's checks are the  *)
(* guard of its action.  Users, the strategist, the authorities and the    *)
(* admin submit instructions in any order, and the clock moves between     *)
(* them.  A caller's slippage floor (min_shares_out, min_output) can only  *)
(* turn a success into a rejection, so the floor is left at 0.             *)
(***************************************************************************)
EXTENDS VaultAccount, Sequences, Functions, FiniteSetsExt

CONSTANTS
    Users,             \* wallets holding shares
    TicketIndexes,     \* ticket slots of one owner (u8)
    Custodies,         \* base token accounts <<sub_account, "ata" | "aux">>
    Destinations,      \* external token accounts the admin may register
    Configs,           \* configurations the admin may install
    PauseSettings,     \* pause flags the admin may set
    AccessSettings,    \* access modes the admin may set
    DepositAmounts,    \* base atoms a user may deposit
    AssetValues,       \* base value of a non-base deposit, as the oracle prices it
    ShareAmounts,      \* share amounts a user may queue for redemption
    AtomicAmounts,     \* share amounts a user may redeem atomically
    ExternalValues,    \* external_value a report may carry
    MoveAmounts,       \* base atoms a custody move or a fee payment may carry
    ClockSteps,        \* <<seconds, slots>> the clock may advance by
    GenesisTs,         \* unix time at initialization
    RedeemCancelDelaySlots,
    MaxBatch,          \* bound: tickets in one ProcessWithdrawals
    MaxEpoch,          \* bound: NAV reports
    MaxTs,             \* bound: unix time
    MaxSlot,           \* bound: slots
    MaxRequestSlot     \* bound: last slot a redemption is requested in

WITHDRAWAL_STRIKE_DELAY_EPOCHS == 1

PauseRecord == [deposits : BOOLEAN, withdrawals : BOOLEAN, manage : BOOLEAN]

\* The Merkle root of a private vault stands for the set of wallets under it.
AccessRecord == [private : BOOLEAN, members : SUBSET Users]

ASSUME VaultAssumption ==
    /\ IsFiniteSet(Users) /\ IsFiniteSet(TicketIndexes) /\ IsFiniteSet(Custodies)
    /\ Custodies \subseteq SubAccounts \X {"ata", "aux"}
    /\ \A sub \in SubAccounts : <<sub, "ata">> \in Custodies
    /\ Configs \subseteq ConfigRecord
    /\ PauseSettings \subseteq PauseRecord
    /\ AccessSettings \subseteq AccessRecord
    /\ DepositAmounts \subseteq Nat
    /\ AssetValues \subseteq Nat
    /\ ShareAmounts \subseteq Nat
    /\ AtomicAmounts \subseteq Nat
    /\ ExternalValues \subseteq Nat
    /\ MoveAmounts \subseteq Nat
    /\ ClockSteps \subseteq Nat \X Nat
    /\ GenesisTs \in Nat
    /\ RedeemCancelDelaySlots \in Nat
    /\ MaxBatch \in Nat /\ MaxEpoch \in Nat /\ MaxTs \in Nat
    /\ MaxSlot \in Nat /\ MaxRequestSlot \in Nat

VARIABLES
    now,           \* Clock.unix_timestamp
    slot,          \* Clock.slot
    vault,         \* the vault account's economic fields
    config,        \* the vault account's configuration
    paused,        \* the vault account's pause flags
    access,        \* the vault account's access mode
    share_supply,  \* supply of the share mint
    shares,        \* share token balances
    tickets,       \* withdrawal tickets by <<owner, index>>
    custody,       \* base balances of the sub-accounts' token accounts
    destinations,  \* registered external destinations
    venue,         \* auxiliary: value outside custody, as last reported, less flows
    forgiven       \* auxiliary: fees written down since the last report

clock_vars == <<now, slot>>
admin_vars == <<config, paused, access, destinations>>
share_vars == <<share_supply, shares>>
aux_vars   == <<venue, forgiven>>
vars == <<clock_vars, admin_vars, share_vars, aux_vars, vault, tickets, custody>>

-----------------------------------------------------------------------------
(* Tickets, custody and prices.                                              *)

TicketKeys == Users \X TicketIndexes

Ticket == [shares_burned : U64, assets_owed : U64,
           request_epoch : Nat, request_slot : Nat]

\* A closed ticket account is zeroed: its PDA is uninitialized again.
ClosedTicket == [shares_burned |-> 0, assets_owed |-> 0,
                 request_epoch |-> 0, request_slot |-> 0]

Open(k) == tickets[k] # ClosedTicket

ata(sub_account) == <<sub_account, "ata">>

\* Custody accounts a sub-account owns, by mint and owner only.
CustodiesOf(sub_account) == {c \in Custodies : c[1] = sub_account}

\* Faulty variant: one account in both roles is counted twice.
idle_base_Twice ==
    custody[ata(config.deposit_sub_account)] + custody[ata(config.withdraw_sub_account)]

\* What report_nav reads on chain: the two canonical accounts, counted once.
idle_base ==
    custody[ata(config.deposit_sub_account)]
    + IF config.withdraw_sub_account # config.deposit_sub_account
      THEN custody[ata(config.withdraw_sub_account)] ELSE 0

\* Base the sub-accounts hold anywhere else.
other_base ==
    SumFunctionOnSet(custody, Custodies \ {ata(config.deposit_sub_account),
                                          ata(config.withdraw_sub_account)})

economic_share_supply == share_supply + vault.requested_withdrawal_shares

effective == effective_total_assets(vault, now)

\* Every instruction first loads the vault, and loading validates it.
load_checked == validate_state(vault)

-----------------------------------------------------------------------------
Init ==
    /\ now = GenesisTs
    /\ slot = 0
    /\ vault = new_vault
    /\ config \in {c \in Configs : ~c.external_enabled}
    /\ paused = [deposits |-> FALSE, withdrawals |-> FALSE, manage |-> FALSE]
    /\ access \in AccessSettings
    /\ share_supply = 0
    /\ shares = [u \in Users |-> 0]
    /\ tickets = [k \in TicketKeys |-> ClosedTicket]
    /\ custody = [c \in Custodies |-> 0]
    /\ destinations = {}
    /\ venue = 0
    /\ forgiven = 0

-----------------------------------------------------------------------------
(* User instructions.                                                        *)

allows_depositor(u) == access.private => u \in access.members

\* The handler Deposit and DepositAndDeploy share, after base_atoms is known.
execute_deposit(u, base_atoms) ==
    LET total_shares == economic_share_supply
        projected == total_assets_after_deposit(vault, base_atoms, now)
        minted == shares_for_deposit(base_atoms, effective, total_shares)
    IN  /\ load_checked
        /\ ~paused.deposits
        /\ allows_depositor(u)
        /\ deposit_within_cap(config, projected)
        /\ fits_u64(total_shares)
        /\ effective >= 0
        /\ total_shares # 0 =>
             share_price_from_assets(effective, total_shares) \in 1..MaxU64
        /\ minted # 0 /\ fits_u64(minted)
        /\ fits_u64(share_supply + minted) /\ fits_u64(shares[u] + minted)
        /\ share_supply' = share_supply + minted
        /\ shares' = [shares EXCEPT ![u] = @ + minted]
        /\ vault' = [vault EXCEPT !.total_assets = projected]
        /\ UNCHANGED <<clock_vars, admin_vars, tickets, forgiven>>

\* A base-mint deposit lands in the deposit sub-account's canonical account.
Deposit(u, amount) ==
    LET c == ata(config.deposit_sub_account)
    IN  /\ execute_deposit(u, amount)
        /\ fits_u64(custody[c] + amount)
        /\ custody' = [custody EXCEPT ![c] = @ + amount]
        /\ UNCHANGED venue

\* A non-base deposit lands in the asset's own custody, outside idle base.
DepositAsset(u, base_atoms) ==
    /\ execute_deposit(u, base_atoms)
    /\ venue' = venue + base_atoms
    /\ UNCHANGED custody

\* Burn now, price at a later strike.
Redeem(u, index, amount) ==
    LET k == <<u, index>>
        total_shares == economic_share_supply
    IN  /\ load_checked
        /\ ~paused.withdrawals
        /\ ~Open(k)
        /\ slot <= MaxRequestSlot
        /\ amount # 0 /\ amount <= share_supply
        /\ amount <= shares[u]
        /\ fits_u64(total_shares)
        /\ effective >= 0
        /\ assets_for_shares(amount, effective, total_shares) # 0
        /\ share_supply' = share_supply - amount
        /\ shares' = [shares EXCEPT ![u] = @ - amount]
        /\ tickets' = [tickets EXCEPT ![k] =
             [shares_burned |-> amount, assets_owed |-> 0,
              request_epoch |-> vault.report_epoch, request_slot |-> slot]]
        /\ vault' = [vault EXCEPT !.requested_withdrawal_shares = @ + amount]
        /\ UNCHANGED <<clock_vars, admin_vars, aux_vars, custody>>

\* Faulty variant: a ticket is due at the report it was requested under.
strike_eligible_SameEpoch(t) == vault.report_epoch >= t.request_epoch

strike_eligible(t) ==
    vault.report_epoch >= t.request_epoch + WITHDRAWAL_STRIKE_DELAY_EPOCHS

grace_elapsed(t) ==
    /\ config.cancel_grace_slots > 0
    /\ slot >= t.request_slot + config.cancel_grace_slots

\* Faulty variant: without the grace escape.
cancellable_NoEscape(t) ==
    /\ t.assets_owed = 0
    /\ ~strike_eligible(t)
    /\ slot >= t.request_slot + RedeemCancelDelaySlots

\* The checks of try_cancel_redeem on an open ticket.
cancellable(t) ==
    /\ t.assets_owed = 0
    /\ strike_eligible(t) => grace_elapsed(t)
    /\ slot >= t.request_slot + RedeemCancelDelaySlots

\* Remint the burned shares to the owner and close the ticket.
CancelRedeem(u, index) ==
    LET k == <<u, index>>
        t == tickets[k]
    IN  /\ load_checked
        /\ Open(k)
        /\ cancellable(t)
        /\ t.shares_burned <= vault.requested_withdrawal_shares
        /\ fits_u64(share_supply + t.shares_burned) /\ fits_u64(shares[u] + t.shares_burned)
        /\ share_supply' = share_supply + t.shares_burned
        /\ shares' = [shares EXCEPT ![u] = @ + t.shares_burned]
        /\ tickets' = [tickets EXCEPT ![k] = ClosedTicket]
        /\ vault' = [vault EXCEPT !.requested_withdrawal_shares = @ - t.shares_burned]
        /\ UNCHANGED <<clock_vars, admin_vars, aux_vars, custody>>

(***************************************************************************)
(* Unwind a position into a custody account of any sub-account and pay the *)
(* realized base, less the exit fee, which stays in that account.  The CPI *)
(* is a venue's code: it may return anything up to the entitlement.  The   *)
(* comparison of the amount in the call's data with the entitlement is     *)
(* left out: it only refuses calls, and the amount is not what is paid.    *)
(***************************************************************************)
AtomicRedeem(u, amount, c, received) ==
    LET total_shares == economic_share_supply
        max_assets_owed == assets_for_shares(amount, effective, total_shares)
        payout == received - bps_ceil(received, config.atomic_redeem_fee_bps)
    IN  /\ load_checked
        /\ ~paused.withdrawals
        /\ amount # 0
        /\ verify_report_fresh(vault, config, now)
        /\ amount <= share_supply /\ amount <= shares[u]
        /\ fits_u64(total_shares)
        /\ effective >= 0
        /\ max_assets_owed # 0
        /\ received <= max_assets_owed
        /\ fits_u64(custody[c] + received)
        /\ can_debit(vault, payout, now)
        /\ custody' = [custody EXCEPT ![c] = @ + received - payout]
        /\ venue' = venue - received
        /\ share_supply' = share_supply - amount
        /\ shares' = [shares EXCEPT ![u] = @ - amount]
        /\ validate_state(debit_assets_at_effective(vault, payout, now))
        /\ vault' = debit_assets_at_effective(vault, payout, now)
        /\ UNCHANGED <<clock_vars, admin_vars, tickets, forgiven>>

-----------------------------------------------------------------------------
(* The withdrawal authority.                                                 *)

\* strike_ticket: price t at v's effective NAV and move the amount to pending.
strike_owed(v, t) ==
    assets_for_shares(t.shares_burned, effective_total_assets(v, now),
                      share_supply + v.requested_withdrawal_shares)

can_strike(v, t) ==
    /\ strike_eligible(t)
    /\ fits_u64(share_supply + v.requested_withdrawal_shares)
    /\ effective_total_assets(v, now) >= 0
    /\ t.shares_burned <= v.requested_withdrawal_shares
    /\ can_debit(v, strike_owed(v, t), now)
    /\ fits_u64(v.pending_withdrawal_assets + strike_owed(v, t))

\* Faulty variant: the struck shares stay queued.
strike_ticket_KeepsShares(v, t) ==
    [debit_assets_at_effective(v, strike_owed(v, t), now)
       EXCEPT !.pending_withdrawal_assets = @ + strike_owed(v, t)]

\* Faulty variant: the payout is not debited from NAV.
strike_ticket_NoDebit(v, t) ==
    [v EXCEPT !.requested_withdrawal_shares = @ - t.shares_burned,
              !.pending_withdrawal_assets = @ + strike_owed(v, t)]

strike_ticket(v, t) ==
    LET owed == strike_owed(v, t)
    IN  [debit_assets_at_effective(v, owed, now)
           EXCEPT !.requested_withdrawal_shares = @ - t.shares_burned,
                  !.pending_withdrawal_assets = @ + owed]

\* Faulty variant: only tickets struck by an earlier call are settled.
settle_next_StruckOnly(run, t) ==
    IF t.assets_owed # 0
    THEN [run EXCEPT !.settled = @ + t.assets_owed]
    ELSE [run EXCEPT !.v = strike_ticket(run.v, t),
                     !.ok = run.ok /\ can_strike(run.v, t)]

\* One turn of the settlement loop: strike the ticket unless it is struck already.
settle_next(run, t) ==
    IF t.assets_owed # 0
    THEN [run EXCEPT !.settled = @ + t.assets_owed]
    ELSE [v       |-> strike_ticket(run.v, t),
          settled |-> run.settled + strike_owed(run.v, t),
          ok      |-> run.ok /\ can_strike(run.v, t)]

\* The loop over the supplied tickets, in their order.
Settlement(batch) ==
    LET run[i \in 0..Len(batch)] ==
            IF i = 0 THEN [v |-> vault, settled |-> 0, ok |-> TRUE]
            ELSE settle_next(run[i - 1], tickets[batch[i]])
    IN  run[Len(batch)]

\* Nonempty sequences of distinct tickets.
Batches == UNION {Injection(1..n, TicketKeys) : n \in 1..MaxBatch}

\* Strike and pay a batch from one account of the withdraw sub-account.
ProcessWithdrawals(batch, c) ==
    LET end == Settlement(batch)
    IN  /\ load_checked
        /\ \A i \in DOMAIN batch : Open(batch[i])
        /\ c \in CustodiesOf(config.withdraw_sub_account)
        /\ end.ok
        /\ end.settled <= end.v.pending_withdrawal_assets
        /\ end.settled <= custody[c]
        /\ validate_state(end.v)
        /\ custody' = [custody EXCEPT ![c] = @ - end.settled]
        /\ tickets' = [k \in TicketKeys |->
                         IF k \in Range(batch) THEN ClosedTicket ELSE tickets[k]]
        /\ vault' = [end.v EXCEPT !.pending_withdrawal_assets = @ - end.settled]
        /\ UNCHANGED <<clock_vars, admin_vars, share_vars, aux_vars>>

-----------------------------------------------------------------------------
(* The NAV authority.                                                        *)

report_outcome(external_value) ==
    performance_fee_for_nav(
        (idle_base + external_value)
            - vault.fees_payable - vault.pending_withdrawal_assets,
        economic_share_supply, vault.high_watermark, config.performance_fee_bps)

\* Book the fee, then recognize the net NAV, then stamp the report time.
reported_vault(outcome) ==
    LET booked == [vault EXCEPT !.fees_payable = @ + outcome.fee,
                                !.high_watermark = outcome.high_watermark,
                                !.report_epoch = @ + 1]
    IN  [apply_reported_nav(booked, config, outcome.net, now)
           EXCEPT !.last_update_ts = now]

\* What ReportNav and RecoverNav share.
apply_nav_report(external_value) ==
    LET gross   == idle_base + external_value
        outcome == report_outcome(external_value)
    IN  /\ load_checked
        /\ vault.report_epoch < MaxEpoch
        /\ verify_report_interval(vault, config, now)
        /\ fits_u64(economic_share_supply)
        /\ fits_u64(gross)
        /\ vault.fees_payable + vault.pending_withdrawal_assets <= gross
        /\ performance_fee_fits(
             gross - vault.fees_payable - vault.pending_withdrawal_assets,
             economic_share_supply)
        /\ fits_u64(vault.fees_payable + outcome.fee)
        /\ effective >= 0
        /\ validate_state(reported_vault(outcome))
        /\ vault' = reported_vault(outcome)
        /\ venue' = external_value - other_base
        /\ forgiven' = 0
        /\ UNCHANGED <<clock_vars, admin_vars, share_vars, tickets, custody>>

ReportNav(external_value) ==
    /\ verify_nav_gain_bound(vault, config, report_outcome(external_value).net,
                             economic_share_supply)
    /\ apply_nav_report(external_value)

\* Faulty variant: recovery looks at the price with locked profit left out.
recoverable_AtEffective ==
    /\ paused.deposits
    /\ economic_share_supply # 0
    /\ share_price_from_assets(effective, economic_share_supply) = 0

\* Deposits are paused and the recognized price of live shares is zero.
recoverable ==
    /\ paused.deposits
    /\ economic_share_supply # 0
    /\ share_price_from_assets(vault.total_assets, economic_share_supply) = 0

\* Signed by the admin too; the gain bound is not asked for.
RecoverNav(external_value) ==
    /\ recoverable
    /\ apply_nav_report(external_value)

-----------------------------------------------------------------------------
(* The strategist.                                                           *)

InvestExternal(d, c, amount) ==
    /\ load_checked
    /\ amount # 0
    /\ ~paused.manage
    /\ config.external_enabled
    /\ verify_idle_sub_account(config, c[1])
    /\ d \in destinations
    /\ amount <= custody[c]
    /\ fits_u64(vault.external_assets + amount)
    /\ custody' = [custody EXCEPT ![c] = @ - amount]
    /\ venue' = venue + amount
    /\ vault' = [vault EXCEPT !.external_assets = @ + amount]
    /\ UNCHANGED <<clock_vars, admin_vars, share_vars, tickets, forgiven>>

\* Faulty variant: more may come back than was sent out.
ReturnExternal_AnyAmount(c, amount) ==
    /\ load_checked
    /\ amount # 0
    /\ ~paused.manage
    /\ config.external_enabled
    /\ verify_idle_sub_account(config, c[1])
    /\ fits_u64(custody[c] + amount)
    /\ custody' = [custody EXCEPT ![c] = @ + amount]
    /\ venue' = venue - amount
    /\ vault' = [vault EXCEPT !.external_assets = @ - amount]
    /\ UNCHANGED <<clock_vars, admin_vars, share_vars, tickets, forgiven>>

\* Any external account returns; registration is not asked for.
ReturnExternal(c, amount) ==
    /\ load_checked
    /\ amount # 0
    /\ ~paused.manage
    /\ config.external_enabled
    /\ amount <= vault.external_assets
    /\ verify_idle_sub_account(config, c[1])
    /\ fits_u64(custody[c] + amount)
    /\ custody' = [custody EXCEPT ![c] = @ + amount]
    /\ venue' = venue - amount
    /\ vault' = [vault EXCEPT !.external_assets = @ - amount]
    /\ UNCHANGED <<clock_vars, admin_vars, share_vars, tickets, forgiven>>

-----------------------------------------------------------------------------
(* The vault admin.                                                          *)

CollectFees(c, amount) ==
    /\ load_checked
    /\ amount # 0
    /\ amount <= vault.fees_payable
    /\ verify_idle_sub_account(config, c[1])
    /\ amount <= custody[c]
    /\ custody' = [custody EXCEPT ![c] = @ - amount]
    /\ vault' = [vault EXCEPT !.fees_payable = @ - amount]
    /\ UNCHANGED <<clock_vars, admin_vars, share_vars, aux_vars, tickets>>

\* Forgive fees without moving tokens.
WriteDownFees(amount) ==
    /\ load_checked
    /\ amount # 0
    /\ amount <= vault.fees_payable
    /\ vault' = [vault EXCEPT !.fees_payable = @ - amount]
    /\ forgiven' = forgiven + amount
    /\ UNCHANGED <<clock_vars, admin_vars, share_vars, tickets, custody, venue>>

SetPauseFlags(flags) ==
    /\ load_checked
    /\ paused' = flags
    /\ UNCHANGED <<clock_vars, config, access, destinations, share_vars, aux_vars,
                   vault, tickets, custody>>

SetVaultAccess(mode) ==
    /\ load_checked
    /\ access' = mode
    /\ UNCHANGED <<clock_vars, config, paused, destinations, share_vars, aux_vars,
                   vault, tickets, custody>>

UpdateVaultConfig(cfg) ==
    /\ load_checked
    /\ config' = cfg
    /\ UNCHANGED <<clock_vars, paused, access, destinations, share_vars, aux_vars,
                   vault, tickets, custody>>

RegisterExternalDestination(d) ==
    /\ load_checked
    /\ d \notin destinations
    /\ destinations' = destinations \cup {d}
    /\ UNCHANGED <<clock_vars, config, paused, access, share_vars, aux_vars,
                   vault, tickets, custody>>

RevokeExternalDestination(d) ==
    /\ load_checked
    /\ d \in destinations
    /\ destinations' = destinations \ {d}
    /\ UNCHANGED <<clock_vars, config, paused, access, share_vars, aux_vars,
                   vault, tickets, custody>>

-----------------------------------------------------------------------------
\* The cluster's clock: both counters only move forward.
AdvanceClock ==
    \E step \in ClockSteps :
        /\ now' = now + step[1] /\ now' <= MaxTs
        /\ slot' = slot + step[2] /\ slot' <= MaxSlot
        /\ UNCHANGED <<admin_vars, share_vars, aux_vars, vault, tickets, custody>>

UserStep ==
    \E u \in Users :
        \/ \E amount \in DepositAmounts : Deposit(u, amount)
        \/ \E base_atoms \in AssetValues : DepositAsset(u, base_atoms)
        \/ \E i \in TicketIndexes, amount \in ShareAmounts : Redeem(u, i, amount)
        \/ \E i \in TicketIndexes : CancelRedeem(u, i)
        \/ \E amount \in AtomicAmounts, c \in Custodies :
             \E received \in 0..assets_for_shares(amount, effective, economic_share_supply) :
                AtomicRedeem(u, amount, c, received)

AuthorityStep ==
    \/ \E batch \in Batches, c \in Custodies : ProcessWithdrawals(batch, c)
    \/ \E value \in ExternalValues : ReportNav(value)
    \/ \E value \in ExternalValues : RecoverNav(value)
    \/ \E d \in Destinations, c \in Custodies, amount \in MoveAmounts :
          InvestExternal(d, c, amount)
    \/ \E c \in Custodies, amount \in MoveAmounts : ReturnExternal(c, amount)

AdminStep ==
    \/ \E c \in Custodies, amount \in MoveAmounts : CollectFees(c, amount)
    \/ \E amount \in MoveAmounts : WriteDownFees(amount)
    \/ \E flags \in PauseSettings : SetPauseFlags(flags)
    \/ \E mode \in AccessSettings : SetVaultAccess(mode)
    \/ \E cfg \in Configs : UpdateVaultConfig(cfg)
    \/ \E d \in Destinations : RegisterExternalDestination(d)
    \/ \E d \in Destinations : RevokeExternalDestination(d)

Next == UserStep \/ AuthorityStep \/ AdminStep \/ AdvanceClock

Spec == Init /\ [][Next]_vars
=============================================================================
