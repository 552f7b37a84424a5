----------------------------- MODULE RoshiMath -----------------------------
(***************************************************************************)
(* The integer accounting arithmetic of crates/interface/src/math.rs.      *)
(*                                                                         *)
(* The program computes on u64 amounts through u128 intermediates, so a    *)
(* product never wraps: it either fits or the instruction fails.  Here the *)
(* operators return the exact natural number and fits_u64 is the check     *)
(* (checked_u64, checked_add) that each handler makes a guard of.          *)
(***************************************************************************)
EXTENDS Integers

CONSTANTS
    ShareScale,     \* 10^SHARE_DECIMALS: share atoms per whole share
    VirtualShares,  \* 10^(SHARE_DECIMALS - base_decimals)
    MaxU64          \* the largest u64

ASSUME MathAssumption ==
    /\ ShareScale \in Nat \ {0}
    /\ VirtualShares \in Nat \ {0}
    /\ MaxU64 \in Nat

BPS_DENOMINATOR == 10000

U64 == 0..MaxU64

fits_u64(value) == value <= MaxU64

\* Callers establish denominator # 0; the code returns DivisionByZero.
mul_div_floor(lhs, rhs, denominator) == (lhs * rhs) \div denominator

mul_div_ceil(lhs, rhs, denominator) ==
    LET product == lhs * rhs
    IN  IF product % denominator = 0
        THEN product \div denominator
        ELSE (product \div denominator) + 1

bps_floor(amount, bps) == mul_div_floor(amount, bps, BPS_DENOMINATOR)

bps_ceil(amount, bps) == mul_div_ceil(amount, bps, BPS_DENOMINATOR)

\* Faulty variant: a deposit's shares round up.
shares_for_deposit_Ceil(base_atoms, total_assets, total_shares) ==
    mul_div_ceil(base_atoms, total_shares + VirtualShares, total_assets + 1)

\* Shares minted for a deposit; the caller rejects 0 and an overflow.
shares_for_deposit(base_atoms, total_assets, total_shares) ==
    mul_div_floor(base_atoms, total_shares + VirtualShares, total_assets + 1)

\* Faulty variant: the virtual shares are left out of the denominator.
assets_for_shares_NoOffset(shares, total_assets, total_shares) ==
    mul_div_floor(shares, total_assets + 1, total_shares)

\* Base value of shares, rounded down; the caller rejects shares > total_shares.
assets_for_shares(shares, total_assets, total_shares) ==
    mul_div_floor(shares, total_assets + 1, total_shares + VirtualShares)

\* Only read when total_shares # 0; the code rejects 0.
share_price_from_assets(total_assets, total_shares) ==
    mul_div_floor(total_assets, ShareScale, total_shares)

Larger(a, b) == IF a >= b THEN a ELSE b

\* Faulty variant: with no fee to charge the watermark follows the price down.
performance_fee_for_nav_FollowsPrice(gross, total_shares, high_watermark, bps) ==
    IF total_shares = 0
    THEN [fee |-> 0, net |-> gross, high_watermark |-> high_watermark]
    ELSE [fee |-> 0, net |-> gross,
          high_watermark |-> share_price_from_assets(gross, total_shares)]

(***************************************************************************)
(* The performance fee of a report.  No shares: the gross NAV passes       *)
(* through.  First priced report, a price at or under the watermark, or no *)
(* fee: only the watermark moves.  Otherwise the fee is a share of the     *)
(* assets above the watermark, which is rounded up.                        *)
(***************************************************************************)
performance_fee_for_nav(gross, total_shares, high_watermark, bps) ==
    LET gross_price == share_price_from_assets(gross, total_shares)
        hwm_assets  == mul_div_ceil(high_watermark, total_shares, ShareScale)
        fee         == bps_floor(gross - hwm_assets, bps)
    IN  IF total_shares = 0
        THEN [fee |-> 0, net |-> gross, high_watermark |-> high_watermark]
        ELSE IF high_watermark = 0 \/ gross_price <= high_watermark \/ bps = 0
        THEN [fee |-> 0, net |-> gross,
              high_watermark |-> Larger(high_watermark, gross_price)]
        ELSE [fee |-> fee, net |-> gross - fee,
              high_watermark |->
                  Larger(high_watermark,
                         share_price_from_assets(gross - fee, total_shares))]

\* The performance fee's failing conversions: a share price that is no u64.
performance_fee_fits(gross, total_shares) ==
    total_shares # 0 => fits_u64(share_price_from_assets(gross, total_shares))
=============================================================================
