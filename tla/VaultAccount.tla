--------------------------- MODULE VaultAccount ---------------------------
(***************************************************************************)
(* The Vault account of crates/interface/src/state/vault.rs: its economic  *)
(* fields and the methods the instruction handlers share.  A method that   *)
(* takes &mut self is an operator from a vault record to a vault record; a *)
(* method that can fail is a predicate the handler makes a guard of.       *)
(***************************************************************************)
EXTENDS RoshiMath

CONSTANT SubAccounts    \* sub-account indexes (u8)

Bps == 0..BPS_DENOMINATOR

\* The fields instructions account with.
VaultRecord ==
    [total_assets                : U64,
     external_assets             : U64,
     pending_withdrawal_assets   : U64,
     fees_payable                : U64,
     high_watermark              : U64,
     report_epoch                : Nat,
     requested_withdrawal_shares : U64,
     last_update_ts              : Nat,
     locked_profit               : U64,
     profit_unlock_start_ts      : Nat,
     profit_unlock_end_ts        : Nat]

\* The fields UpdateVaultConfig replaces, VaultControls among them.
ConfigRecord ==
    [deposit_cap              : U64,
     performance_fee_bps      : Bps,
     max_unlock_duration_secs : Nat,
     max_report_age_secs      : Nat,
     min_report_interval_secs : Nat,
     cancel_grace_slots       : Nat,
     max_nav_gain_bps         : Nat,
     atomic_redeem_fee_bps    : Bps,
     deposit_sub_account      : SubAccounts,
     withdraw_sub_account     : SubAccounts,
     external_enabled         : BOOLEAN]

new_vault ==
    [total_assets |-> 0, external_assets |-> 0, pending_withdrawal_assets |-> 0,
     fees_payable |-> 0, high_watermark |-> 0, report_epoch |-> 0,
     requested_withdrawal_shares |-> 0, last_update_ts |-> 0, locked_profit |-> 0,
     profit_unlock_start_ts |-> 0, profit_unlock_end_ts |-> 0]

-----------------------------------------------------------------------------
(* Pricing: the drip of a reported gain and the NAV shares are priced at.    *)

\* The profit still locked: all of it until the window opens, none from its end.
remaining_locked_profit(v, now) ==
    IF now >= v.profit_unlock_end_ts THEN 0
    ELSE IF now <= v.profit_unlock_start_ts THEN v.locked_profit
    ELSE mul_div_floor(v.locked_profit,
                       v.profit_unlock_end_ts - now,
                       v.profit_unlock_end_ts - v.profit_unlock_start_ts)

\* total_assets less what still drips; never negative in a valid state.
effective_total_assets(v, now) == v.total_assets - remaining_locked_profit(v, now)

\* Faulty variant: the deposit is added to the NAV shares are priced at.
total_assets_after_deposit_AtEffective(v, base_atoms, now) ==
    effective_total_assets(v, now) + base_atoms

\* Recognized AUM after a deposit: raw total_assets, locked profit included.
total_assets_after_deposit(v, base_atoms, now) == v.total_assets + base_atoms

\* The part of debit_assets_at_effective that can fail.
can_debit(v, amount, now) ==
    LET effective == effective_total_assets(v, now)
    IN  effective >= 0 /\ amount <= effective

\* Faulty variant: the window restarts now with all of the profit locked again.
debit_assets_at_effective_Relocking(v, amount, now) ==
    [v EXCEPT !.total_assets = @ - amount,
              !.profit_unlock_start_ts =
                  IF remaining_locked_profit(v, now) > 0 THEN now ELSE @]

\* Faulty variant: the remainder is stored but the window keeps its old start.
debit_assets_at_effective_NoReanchor(v, amount, now) ==
    [v EXCEPT !.total_assets = @ - amount,
              !.locked_profit = remaining_locked_profit(v, now)]

\* Pay amount out and re-anchor the unlock window at now.
debit_assets_at_effective(v, amount, now) ==
    LET remaining == remaining_locked_profit(v, now)
    IN  [v EXCEPT !.total_assets = @ - amount,
                  !.locked_profit = remaining,
                  !.profit_unlock_start_ts = IF remaining > 0 THEN now ELSE @]

\* Seconds a gain reported now unlocks over.
unlock_window(v, cfg, now) ==
    LET elapsed == Larger(0, now - v.last_update_ts)
    IN  IF elapsed <= cfg.max_unlock_duration_secs
        THEN elapsed ELSE cfg.max_unlock_duration_secs

\* Faulty variant: the gain is measured from raw total_assets, so what still
\* drips is neither locked again nor left locked.
apply_reported_nav_FromRaw(v, cfg, net, now) ==
    LET window == IF net > effective_total_assets(v, now)
                  THEN unlock_window(v, cfg, now) ELSE 0
    IN  [v EXCEPT !.locked_profit = IF window = 0 THEN 0
                                    ELSE Larger(0, net - v.total_assets),
                  !.profit_unlock_start_ts = now,
                  !.profit_unlock_end_ts = now + window,
                  !.total_assets = net]

\* Recognize a report's net NAV: a gain re-locks in full, a loss lands at once.
apply_reported_nav(v, cfg, net, now) ==
    LET prior  == effective_total_assets(v, now)
        window == IF net > prior THEN unlock_window(v, cfg, now) ELSE 0
    IN  [v EXCEPT !.locked_profit = IF window = 0 THEN 0 ELSE net - prior,
                  !.profit_unlock_start_ts = now,
                  !.profit_unlock_end_ts = now + window,
                  !.total_assets = net]

-----------------------------------------------------------------------------
(* Gates.                                                                    *)

\* The projected total_assets is a u64 and, with a cap, within it.
deposit_within_cap(cfg, projected) ==
    /\ fits_u64(projected)
    /\ cfg.deposit_cap # 0 => projected <= cfg.deposit_cap

verify_report_fresh(v, cfg, now) ==
    v.report_epoch # 0 /\ cfg.max_report_age_secs # 0
        => now - v.last_update_ts <= cfg.max_report_age_secs

verify_report_interval(v, cfg, now) ==
    v.report_epoch # 0 /\ cfg.min_report_interval_secs # 0
        => now - v.last_update_ts >= cfg.min_report_interval_secs

verify_nav_gain_bound(v, cfg, net, total_shares) ==
    cfg.max_nav_gain_bps # 0 /\ total_shares # 0
        => net * BPS_DENOMINATOR
             <= v.total_assets * (BPS_DENOMINATOR + cfg.max_nav_gain_bps)

verify_idle_sub_account(cfg, sub_account) ==
    sub_account \in {cfg.deposit_sub_account, cfg.withdraw_sub_account}

\* The economic half of validate_state; ConfigRecord carries the percentage checks.
validate_state(v) ==
    /\ v.locked_profit <= v.total_assets
    /\ v.profit_unlock_start_ts <= v.profit_unlock_end_ts
=============================================================================
