-------------------------- MODULE VaultProperties --------------------------
(***************************************************************************)
(* What the vault promises its depositors, its redeemers and its           *)
(* operators, stated over the state machine of module Vault.               *)
(***************************************************************************)
EXTENDS Vault

\* Every variable has its type: amounts are u64s and no subtraction went below 0.
TypeOK ==
    /\ now \in Nat /\ slot \in Nat
    /\ vault \in VaultRecord
    /\ config \in Configs
    /\ paused \in PauseRecord
    /\ access \in AccessRecord
    /\ share_supply \in U64
    /\ shares \in [Users -> U64]
    /\ tickets \in [TicketKeys -> Ticket]
    /\ custody \in [Custodies -> U64]
    /\ destinations \subseteq Destinations
    /\ venue \in Int
    /\ forgiven \in Nat

-----------------------------------------------------------------------------
(* Invariants.                                                               *)

(***************************************************************************)
(* The vault account always passes validate_state.  Deposit, Redeem and    *)
(* CancelRedeem store without validating, and every instruction validates  *)
(* on load, so one bad store would leave an account nobody can load again. *)
(***************************************************************************)
VaultStaysLoadable == validate_state(vault)

(***************************************************************************)
(* Every share is in exactly one place: the mint's supply is what wallets  *)
(* hold, and requested_withdrawal_shares is what open tickets burned.  The *)
(* economic denominator is their sum, whatever the order of redeem, cancel *)
(* and batched strikes.                                                    *)
(***************************************************************************)
SharesAccounted ==
    /\ share_supply = SumFunction(shares)
    /\ vault.requested_withdrawal_shares
         = SumFunction([k \in TicketKeys |-> tickets[k].shares_burned])

(***************************************************************************)
(* Between instructions nothing is struck and unpaid: ProcessWithdrawals   *)
(* strikes and pays in one instruction, so no liability can rank before a  *)
(* report and no owner can hold a ticket with a fixed payout.  The docs    *)
(* (economic-controls.md, write_down_fees.rs) still speak of struck        *)
(* tickets that wait to be settled.                                        *)
(***************************************************************************)
NothingStruckAtRest ==
    /\ vault.pending_withdrawal_assets = 0
    /\ \A k \in TicketKeys : tickets[k].assets_owed = 0

(***************************************************************************)
(* An eligible ticket can always be struck: its shares are still queued    *)
(* and its price never exceeds effective NAV, so only missing custody (or  *)
(* an economic supply that is no u64) can hold a payout back.              *)
(***************************************************************************)
EligibleIsStrikable ==
    \A k \in TicketKeys :
        Open(k) /\ strike_eligible(tickets[k]) /\ fits_u64(economic_share_supply)
            => can_strike(vault, tickets[k])

(***************************************************************************)
(* The books: base in custody plus the value last reported outside it, net *)
(* of the flows since, is what the vault owes holders, its fee liability,  *)
(* pending payouts and the fees forgiven since that report.  No handler    *)
(* moves tokens and counters by different amounts.                         *)
(***************************************************************************)
BooksBalance ==
    SumFunction(custody) + venue
      = vault.total_assets + vault.fees_payable
          + vault.pending_withdrawal_assets + forgiven

-----------------------------------------------------------------------------
(* Action properties.                                                        *)

IsReport == vault'.report_epoch # vault.report_epoch

(***************************************************************************)
(* Only a NAV report can lower the share price.  Deposits, queued, batched *)
(* and atomic exits, cancellations, fee payments, configuration and the    *)
(* clock all keep (effective + 1) / (economic supply + virtual shares) at  *)
(* least where it was: every rounding goes to the remaining holders.       *)
(***************************************************************************)
OnlyReportsLowerPrice ==
    [][~IsReport =>
         (effective' + 1) * (economic_share_supply + VirtualShares)
           >= (effective + 1) * (economic_share_supply' + VirtualShares)]_vars

(***************************************************************************)
(* With smoothing on, a report in a later second than the previous one     *)
(* never lifts the NAV shares are priced at: a gain only re-locks, a loss  *)
(* is absorbed by the locked remainder first.                              *)
(***************************************************************************)
ReportNeverLiftsPrice ==
    [][IsReport /\ config.max_unlock_duration_secs > 0 /\ now > vault.last_update_ts
         => effective' <= effective]_vars

(***************************************************************************)
(* A payout re-anchors the unlock window without changing the line: at     *)
(* every later instant the profit still locked is what it would have been, *)
(* or one atom less, never more.                                           *)
(***************************************************************************)
PayoutKeepsUnlockLine ==
    [][~IsReport =>
         \A t \in now'..Larger(now', vault.profit_unlock_end_ts) :
            remaining_locked_profit(vault', t)
              \in {remaining_locked_profit(vault, t),
                   remaining_locked_profit(vault, t) - 1}]_vars

(***************************************************************************)
(* Performance fees are charged only above the high watermark and never    *)
(* push holders back under it, and the watermark never falls, also when    *)
(* the last shares leave and the vault fills again.                        *)
(***************************************************************************)
FeesOnlyAboveWatermark ==
    [][/\ vault'.high_watermark >= vault.high_watermark
       /\ vault'.fees_payable > vault.fees_payable =>
            /\ vault.high_watermark # 0
            /\ share_price_from_assets(vault'.total_assets, economic_share_supply)
                 >= vault.high_watermark]_vars

(***************************************************************************)
(* With a gain bound, NAV per share of a vault with a price rises by more  *)
(* than the bound in no single report: RecoverNav, which skips the bound,  *)
(* only runs once all recognized value is gone, locked profit included.    *)
(***************************************************************************)
GainsBounded ==
    [][/\ IsReport
       /\ config.max_nav_gain_bps # 0 /\ economic_share_supply # 0
       /\ share_price_from_assets(vault.total_assets, economic_share_supply) # 0
       => vault'.total_assets * BPS_DENOMINATOR
            <= vault.total_assets * (BPS_DENOMINATOR + config.max_nav_gain_bps)]_vars

-----------------------------------------------------------------------------
(* Liveness.                                                                 *)

\* Slots keep passing, and a redeemer keeps asking for an unanswered ticket back.
Fairness ==
    /\ WF_vars(AdvanceClock)
    /\ \A u \in Users, i \in TicketIndexes : WF_vars(CancelRedeem(u, i))

FairSpec == Spec /\ Fairness

(***************************************************************************)
(* With a cancel grace configured, no redeemer is trapped: every open      *)
(* ticket is eventually closed, with a withdrawal authority that never     *)
(* acts, NAV reports at any time and every pause flag set.                 *)
(***************************************************************************)
NoRedeemerTrapped ==
    \A k \in TicketKeys : Open(k) ~> ~Open(k)
=============================================================================
