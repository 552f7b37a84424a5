---------------------------- MODULE VaultProofs ----------------------------
(***************************************************************************)
(* Safety of the vault for every set of users, tickets, custodies and      *)
(* configurations, every amount and every number of steps.  First, what    *)
(* the accounting arithmetic returns, for all amounts, and what the vault  *)
(* account's methods preserve, for every account and clock.  Then the      *)
(* vault's invariants and steps; its ledgers, which are sums over users,   *)
(* tickets and custodies; what NAV reports and payouts may do to the       *)
(* price, the watermark and the unlock line; that a due ticket can be      *)
(* struck; and that the vault implements the redemption queue.             *)
(***************************************************************************)
EXTENDS VaultProperties, VaultRefinement, ArithmeticTheorems

-----------------------------------------------------------------------------
(* The accounting arithmetic.                                                *)

\* A floor division is the largest quotient that does not exceed the product.
LEMMA FloorFacts ==
    ASSUME NEW lhs \in Nat, NEW rhs \in Nat, NEW denominator \in Nat \ {0}
    PROVE  /\ mul_div_floor(lhs, rhs, denominator) \in Nat
           /\ mul_div_floor(lhs, rhs, denominator) * denominator <= lhs * rhs
           /\ lhs * rhs < mul_div_floor(lhs, rhs, denominator) * denominator + denominator
<1>1. lhs * rhs \in Nat
  OBVIOUS
<1>2. ASSUME NEW a \in Nat
      PROVE  /\ a \div denominator \in Nat
             /\ (a \div denominator) * denominator <= a
             /\ a < (a \div denominator) * denominator + denominator
  OBVIOUS
<1> QED
  BY <1>1, <1>2 DEF mul_div_floor

\* A quotient is bounded by anything whose product is not below the dividend.
LEMMA FloorBound ==
    ASSUME NEW lhs \in Nat, NEW rhs \in Nat, NEW denominator \in Nat \ {0},
           NEW bound \in Nat, lhs * rhs <= bound * denominator
    PROVE  mul_div_floor(lhs, rhs, denominator) <= bound
<1> DEFINE q == mul_div_floor(lhs, rhs, denominator)
<1>1. q \in Nat /\ q * denominator <= lhs * rhs
  BY FloorFacts
<1> HIDE DEF q
<1>2. q * denominator <= bound * denominator
  BY <1>1
<1>3. q <= bound
  BY <1>1, <1>2, ProductCancel
<1> QED
  BY <1>3 DEF q

\* A part of an amount is no more than the amount.
LEMMA FloorOfPart ==
    ASSUME NEW amount \in Nat, NEW part \in Nat, NEW whole \in Nat \ {0}, part <= whole
    PROVE  mul_div_floor(amount, part, whole) \in 0..amount
<1>1. amount * part <= amount * whole
  OBVIOUS
<1> QED
  BY <1>1, FloorFacts, FloorBound

\* Floor division is monotone in the first factor.
LEMMA FloorMonotone ==
    ASSUME NEW a \in Nat, NEW b \in Nat, NEW rhs \in Nat, NEW denominator \in Nat \ {0},
           a <= b
    PROVE  mul_div_floor(a, rhs, denominator) <= mul_div_floor(b, rhs, denominator)
<1> DEFINE p == mul_div_floor(a, rhs, denominator)
           q == mul_div_floor(b, rhs, denominator)
<1>1. /\ p \in Nat /\ p * denominator <= a * rhs
      /\ q \in Nat /\ b * rhs < q * denominator + denominator
  BY FloorFacts
<1> HIDE DEF p, q
<1>2. a * rhs <= b * rhs
  BY ProductMonotone
<1>3. p * denominator < (q + 1) * denominator
  BY <1>1, <1>2
<1>4. p < q + 1
  BY <1>1, <1>3, ProductCancelStrict
<1> QED
  BY <1>1, <1>4 DEF p, q

\* A rounded-up quotient is the least one that covers the product.
LEMMA CeilBound ==
    ASSUME NEW lhs \in Nat, NEW rhs \in Nat, NEW denominator \in Nat \ {0},
           NEW bound \in Nat, lhs * rhs <= bound * denominator
    PROVE  mul_div_ceil(lhs, rhs, denominator) \in 0..bound
<1> DEFINE product == lhs * rhs
           q == product \div denominator
           r == product % denominator
<1>1. product \in Nat
  OBVIOUS
<1>2. ASSUME NEW a \in Nat
      PROVE  /\ a \div denominator \in Nat
             /\ a % denominator \in 0..(denominator - 1)
             /\ a = (a \div denominator) * denominator + (a % denominator)
  OBVIOUS
<1>3. q \in Nat /\ r \in 0..(denominator - 1) /\ product = q * denominator + r
  BY <1>1, <1>2
<1>4. product <= bound * denominator
  OBVIOUS
<1>5. mul_div_ceil(lhs, rhs, denominator) = IF r = 0 THEN q ELSE q + 1
  BY DEF mul_div_ceil
<1> HIDE DEF product, q, r
<1>6. CASE r = 0
  <2>1. q * denominator <= bound * denominator
    BY <1>3, <1>4, <1>6
  <2>2. q <= bound
    BY <1>3, <2>1, ProductCancel
  <2> QED
    BY <1>3, <1>5, <1>6, <2>2
<1>7. CASE r # 0
  <2>1. q * denominator < bound * denominator
    BY <1>3, <1>4, <1>7
  <2>2. q < bound
    BY <1>3, <2>1, ProductCancelStrict
  <2> QED
    BY <1>3, <1>5, <1>7, <2>2
<1> QED
  BY <1>6, <1>7

\* A percentage, rounded up, is still no more than the amount.
LEMMA BpsCeilOfPart ==
    ASSUME NEW amount \in Nat, NEW bps \in 0..BPS_DENOMINATOR
    PROVE  bps_ceil(amount, bps) \in 0..amount
<1>1. BPS_DENOMINATOR \in Nat \ {0} /\ bps \in Nat /\ bps <= BPS_DENOMINATOR
  BY DEF BPS_DENOMINATOR
<1>2. amount * bps <= amount * BPS_DENOMINATOR
  BY <1>1
<1> QED
  BY <1>1, <1>2, CeilBound DEF bps_ceil

(***************************************************************************)
(* A report's fee outcome: the fee is taken out of the gross NAV and no    *)
(* more, and the watermark is a u64 that does not fall.                    *)
(***************************************************************************)
LEMMA PerformanceFeeFacts ==
    ASSUME NEW gross \in U64, NEW total_shares \in Nat, NEW high_watermark \in U64,
           NEW bps \in 0..BPS_DENOMINATOR, performance_fee_fits(gross, total_shares),
           NEW outcome,
           outcome = performance_fee_for_nav(gross, total_shares, high_watermark, bps)
    PROVE  /\ outcome.fee \in 0..gross
           /\ outcome.net = gross - outcome.fee
           /\ outcome.high_watermark \in U64
           /\ outcome.high_watermark >= high_watermark
<1> DEFINE gross_price == share_price_from_assets(gross, total_shares)
           hwm_assets == mul_div_ceil(high_watermark, total_shares, ShareScale)
           fee == bps_floor(gross - hwm_assets, bps)
           net_price == share_price_from_assets(gross - fee, total_shares)
<1> USE MathAssumption
<1>1. CASE total_shares = 0
  BY <1>1 DEF performance_fee_for_nav, U64
<1>2. CASE total_shares # 0
  <2>1. gross_price \in U64
    <3>1. gross_price \in Nat
      <4>1. gross \in Nat /\ ShareScale \in Nat /\ total_shares \in Nat \ {0}
        BY <1>2 DEF U64
      <4> QED
        BY <4>1, FloorFacts DEF share_price_from_assets
    <3> QED
      BY <3>1, <1>2 DEF performance_fee_fits, fits_u64, U64
  <2>2. CASE high_watermark = 0 \/ gross_price <= high_watermark \/ bps = 0
    BY <1>2, <2>1, <2>2 DEF performance_fee_for_nav, Larger, U64
  <2>3. CASE ~(high_watermark = 0 \/ gross_price <= high_watermark \/ bps = 0)
    <3>1. high_watermark * total_shares <= gross * ShareScale
      <4>1. gross_price * total_shares <= gross * ShareScale
        BY <1>2, FloorFacts DEF share_price_from_assets, U64
      <4>2. high_watermark * total_shares <= gross_price * total_shares
        BY <2>1, <2>3, ProductMonotone DEF U64
      <4> HIDE DEF gross_price
      <4> QED
        BY <4>1, <4>2, <2>1 DEF U64
    <3>2. hwm_assets \in 0..gross
      BY <3>1, CeilBound DEF U64
    <3>3. fee \in 0..(gross - hwm_assets)
      <4>1. gross - hwm_assets \in Nat
        BY <3>2 DEF U64
      <4> HIDE DEF hwm_assets
      <4>2. BPS_DENOMINATOR \in Nat \ {0} /\ bps \in Nat /\ bps <= BPS_DENOMINATOR
        BY DEF BPS_DENOMINATOR
      <4> QED
        BY <4>1, <4>2, FloorOfPart DEF bps_floor
    <3>4. fee \in 0..gross /\ gross - fee \in 0..gross
      <4> HIDE DEF fee, hwm_assets
      <4> QED
        BY <3>2, <3>3 DEF U64
    <3>5. net_price \in U64
      <4> HIDE DEF fee
      <4>1. net_price \in Nat /\ net_price <= gross_price
        <5>1. /\ gross \in Nat /\ gross - fee \in Nat /\ gross - fee <= gross
              /\ ShareScale \in Nat /\ total_shares \in Nat \ {0}
          BY <1>2, <3>4 DEF U64
        <5> QED
          BY <5>1, FloorFacts, FloorMonotone DEF share_price_from_assets
      <4> QED
        BY <4>1, <2>1 DEF U64
    <3>6. outcome = [fee |-> fee, net |-> gross - fee,
                     high_watermark |-> Larger(high_watermark, net_price)]
      BY <1>2, <2>3 DEF performance_fee_for_nav
    <3> HIDE DEF fee, net_price
    <3> QED
      BY <3>4, <3>5, <3>6 DEF Larger, U64
  <2> QED
    BY <2>2, <2>3
<1> QED
  BY <1>1, <1>2

-----------------------------------------------------------------------------
(* The price (assets + 1) / (shares + VirtualShares) of an entry and an exit, *)
(* compared by cross multiplication.                                          *)

\* Shares minted for a deposit, rounded down, do not lower the price.
LEMMA EntryKeepsPrice ==
    ASSUME NEW assets \in Nat, NEW total_shares \in Nat, NEW base_atoms \in Nat
    PROVE  LET minted == shares_for_deposit(base_atoms, assets, total_shares)
           IN  /\ minted \in Nat
               /\ (assets + base_atoms + 1) * (total_shares + VirtualShares)
                    >= (assets + 1) * (total_shares + minted + VirtualShares)
<1> DEFINE minted == shares_for_deposit(base_atoms, assets, total_shares)
<1>1. /\ total_shares + VirtualShares \in Nat /\ assets + 1 \in Nat \ {0}
      /\ VirtualShares \in Nat
  BY MathAssumption
<1>2. minted \in Nat /\ minted * (assets + 1) <= base_atoms * (total_shares + VirtualShares)
  BY <1>1, FloorFacts DEF shares_for_deposit
<1> HIDE DEF minted
<1>3. (assets + base_atoms + 1) * (total_shares + VirtualShares)
        >= (assets + 1) * (total_shares + minted + VirtualShares)
  BY <1>1, <1>2
<1> QED
  BY <1>2, <1>3 DEF minted

\* The value of shares is covered by the assets, with the offset left over.
LEMMA ExitIsCovered ==
    ASSUME NEW burned \in Nat, NEW assets \in Nat, NEW total_shares \in Nat
    PROVE  /\ assets_for_shares(burned, assets, total_shares) \in Nat
           /\ assets_for_shares(burned, assets, total_shares) * (total_shares + VirtualShares)
                <= burned * (assets + 1)
<1>1. total_shares + VirtualShares \in Nat \ {0} /\ assets + 1 \in Nat
  BY MathAssumption
<1> QED
  BY <1>1, FloorFacts DEF assets_for_shares

\* Paying at most the value of the burned shares does not lower the price.
LEMMA ExitKeepsPrice ==
    ASSUME NEW burned \in Nat, NEW assets \in Nat, NEW total_shares \in Nat,
           NEW payout \in Nat,
           payout <= assets_for_shares(burned, assets, total_shares)
    PROVE  (assets - payout + 1) * (total_shares + VirtualShares)
             >= (assets + 1) * (total_shares - burned + VirtualShares)
<1> DEFINE value == assets_for_shares(burned, assets, total_shares)
           denominator == total_shares + VirtualShares
<1>1. value \in Nat /\ value * denominator <= burned * (assets + 1)
  BY ExitIsCovered
<1>2. denominator \in Nat /\ VirtualShares \in Nat
  BY MathAssumption
<1> HIDE DEF value
<1>3. payout * denominator <= value * denominator
  BY <1>1, <1>2, ProductMonotone DEF value
<1>4. payout * denominator <= burned * (assets + 1)
  BY <1>1, <1>2, <1>3
<1> QED
  BY <1>2, <1>4

\* Prices that do not fall step by step do not fall in all.
LEMMA PriceTransitive ==
    ASSUME NEW a1 \in Nat, NEW a2 \in Nat, NEW a3 \in Nat,
           NEW s1 \in Nat \ {0}, NEW s2 \in Nat \ {0}, NEW s3 \in Nat \ {0},
           a2 * s1 >= a1 * s2, a3 * s2 >= a2 * s3
    PROVE  a3 * s1 >= a1 * s3
<1>1. (a1 * s3) * s2 <= (a2 * s1) * s3
  <2>1. (a1 * s2) * s3 <= (a2 * s1) * s3
    BY ProductMonotone
  <2> QED
    BY <2>1
<1>2. (a2 * s3) * s1 <= (a3 * s2) * s1
  BY ProductMonotone
<1>3. (a1 * s3) * s2 <= (a3 * s1) * s2
  BY <1>1, <1>2
<1> QED
  BY <1>3, ProductCancel

\* Shares that exist are worth at most the assets there are.
LEMMA ExitWithinAssets ==
    ASSUME NEW burned \in Nat, NEW assets \in Nat, NEW total_shares \in Nat,
           burned <= total_shares
    PROVE  assets_for_shares(burned, assets, total_shares) \in 0..assets
<1> DEFINE value == assets_for_shares(burned, assets, total_shares)
           denominator == total_shares + VirtualShares
<1>1. value \in Nat /\ value * denominator <= burned * (assets + 1)
  BY ExitIsCovered
<1>2. denominator \in Nat \ {0} /\ burned + 1 <= denominator
  BY MathAssumption
<1> HIDE DEF value, denominator
<1>3. (burned + 1) * (assets + 1) <= denominator * (assets + 1)
  BY <1>2, ProductMonotone
<1>4. value * denominator < (assets + 1) * denominator
  BY <1>1, <1>2, <1>3
<1>5. value < assets + 1
  BY <1>1, <1>2, <1>4, ProductCancelStrict
<1> QED
  BY <1>1, <1>5 DEF value

-----------------------------------------------------------------------------
(* The watermark and the unlock line.                                        *)

\* A quotient reaches anything whose product is within the dividend.
LEMMA FloorReaches ==
    ASSUME NEW lhs \in Nat, NEW rhs \in Nat, NEW denominator \in Nat \ {0},
           NEW bound \in Nat, bound * denominator <= lhs * rhs
    PROVE  bound <= mul_div_floor(lhs, rhs, denominator)
<1> DEFINE q == mul_div_floor(lhs, rhs, denominator)
<1>1. q \in Nat /\ lhs * rhs < q * denominator + denominator
  BY FloorFacts
<1> HIDE DEF q
<1>2. bound * denominator < (q + 1) * denominator
  BY <1>1
<1>3. bound < q + 1
  BY <1>1, <1>2, ProductCancelStrict
<1> QED
  BY <1>1, <1>3 DEF q

\* A quotient rounded up covers the dividend.
LEMMA CeilCovers ==
    ASSUME NEW lhs \in Nat, NEW rhs \in Nat, NEW denominator \in Nat \ {0}
    PROVE  /\ mul_div_ceil(lhs, rhs, denominator) \in Nat
           /\ lhs * rhs <= mul_div_ceil(lhs, rhs, denominator) * denominator
<1> DEFINE product == lhs * rhs
           q == product \div denominator
           r == product % denominator
<1>1. product \in Nat
  OBVIOUS
<1>2. ASSUME NEW a \in Nat
      PROVE  /\ a \div denominator \in Nat
             /\ a % denominator \in 0..(denominator - 1)
             /\ a = (a \div denominator) * denominator + (a % denominator)
  OBVIOUS
<1>3. q \in Nat /\ r \in 0..(denominator - 1) /\ product = q * denominator + r
  <2> HIDE DEF product
  <2> QED
    BY <1>1, <1>2
<1>4. mul_div_ceil(lhs, rhs, denominator) = IF r = 0 THEN q ELSE q + 1
  BY DEF mul_div_ceil
<1> HIDE DEF product, q, r
<1>5. CASE r = 0
  BY <1>3, <1>4, <1>5 DEF product
<1>6. CASE r # 0
  <2>1. product <= (q + 1) * denominator
    BY <1>3
  <2> QED
    BY <1>3, <1>4, <1>6, <2>1 DEF product
<1> QED
  BY <1>5, <1>6

(***************************************************************************)
(* A performance fee is charged only once a watermark is set, and leaves   *)
(* the net price of a share at or above it.                                *)
(***************************************************************************)
LEMMA FeeKeepsWatermark ==
    ASSUME NEW gross \in U64, NEW total_shares \in Nat, NEW high_watermark \in U64,
           NEW bps \in 0..BPS_DENOMINATOR, NEW outcome,
           outcome = performance_fee_for_nav(gross, total_shares, high_watermark, bps),
           outcome.fee # 0
    PROVE  /\ high_watermark # 0
           /\ share_price_from_assets(outcome.net, total_shares) >= high_watermark
<1> DEFINE gross_price == share_price_from_assets(gross, total_shares)
           hwm_assets == mul_div_ceil(high_watermark, total_shares, ShareScale)
           fee == bps_floor(gross - hwm_assets, bps)
           hwm == Larger(high_watermark, share_price_from_assets(gross - fee, total_shares))
<1> USE MathAssumption
<1>1. total_shares # 0 /\ ~(high_watermark = 0 \/ gross_price <= high_watermark \/ bps = 0)
  BY DEF performance_fee_for_nav
<1>2. outcome = [fee |-> fee, net |-> gross - fee, high_watermark |-> hwm]
  BY <1>1 DEF performance_fee_for_nav
<1>3. gross \in Nat /\ high_watermark \in Nat /\ total_shares \in Nat \ {0}
  BY <1>1 DEF U64
<1>4. gross_price \in Nat /\ gross_price * total_shares <= gross * ShareScale
  BY <1>3, FloorFacts DEF share_price_from_assets
<1>5. gross_price > high_watermark /\ outcome.net = gross - fee
  <2> HIDE DEF fee, hwm, gross_price
  <2> QED
    BY <1>1, <1>2, <1>3, <1>4
<1> HIDE DEF gross_price
<1>6. high_watermark * total_shares <= gross * ShareScale
  <2>1. high_watermark * total_shares <= gross_price * total_shares
    BY <1>3, <1>4, <1>5, ProductMonotone
  <2> QED
    BY <1>3, <1>4, <2>1
<1>7. hwm_assets \in 0..gross
  BY <1>3, <1>6, CeilBound
<1>8. high_watermark * total_shares <= hwm_assets * ShareScale
  BY <1>3, CeilCovers
<1> HIDE DEF hwm_assets
<1>9. fee \in 0..(gross - hwm_assets)
  <2>1. gross - hwm_assets \in Nat
    BY <1>3, <1>7
  <2>2. BPS_DENOMINATOR \in Nat \ {0} /\ bps \in Nat /\ bps <= BPS_DENOMINATOR
    BY DEF BPS_DENOMINATOR
  <2> QED
    BY <2>1, <2>2, FloorOfPart DEF bps_floor
<1> HIDE DEF fee
<1>10. gross - fee \in Nat /\ hwm_assets \in Nat /\ hwm_assets <= gross - fee
  BY <1>3, <1>7, <1>9
<1>11. hwm_assets * ShareScale <= (gross - fee) * ShareScale
  BY <1>10, ProductMonotone
<1>12. high_watermark * total_shares <= (gross - fee) * ShareScale
  BY <1>3, <1>8, <1>10, <1>11
<1>13. high_watermark <= mul_div_floor(gross - fee, ShareScale, total_shares)
  BY <1>3, <1>10, <1>12, FloorReaches
<1> QED
  BY <1>1, <1>3, <1>5, <1>10, <1>13, FloorFacts DEF share_price_from_assets

(***************************************************************************)
(* Flooring twice along one line: a quantity scaled by a/c and then by b/a *)
(* is what scaling by b/c once gives, or one less.                         *)
(***************************************************************************)
LEMMA FloorTwice ==
    ASSUME NEW whole \in Nat, NEW a \in Nat \ {0}, NEW b \in Nat, NEW c \in Nat \ {0}, b <= a
    PROVE  LET once  == mul_div_floor(whole, b, c)
               twice == mul_div_floor(mul_div_floor(whole, a, c), b, a)
           IN  twice = once \/ twice = once - 1
<1> DEFINE once == mul_div_floor(whole, b, c)
           part == mul_div_floor(whole, a, c)
           twice == mul_div_floor(part, b, a)
<1>1. once \in Nat /\ once * c <= whole * b /\ whole * b < once * c + c
  BY FloorFacts
<1>2. part \in Nat /\ part * c <= whole * a /\ whole * a < part * c + c
  BY FloorFacts
<1>3. twice \in Nat /\ twice * a <= part * b /\ part * b < twice * a + a
  <2> HIDE DEF part
  <2> QED
    BY <1>2, FloorFacts
<1> HIDE DEF once, part, twice
<1> DEFINE d == a * c
<1>4. /\ d \in Nat \ {0}
      /\ once \in Nat /\ part \in Nat /\ twice \in Nat
  BY <1>1, <1>2, <1>3
<1>5. twice * d < (once + 1) * d
  <2>1. (twice * a) * c <= (part * b) * c
    BY <1>2, <1>3, ProductMonotone
  <2>2. (part * c) * b <= (whole * a) * b
    BY <1>2, ProductMonotone
  <2>3. (whole * b) * a < (once * c + c) * a
    BY <1>1
  <2>4. /\ (twice * a) * c = twice * d
        /\ (part * b) * c = (part * c) * b
        /\ (whole * a) * b = (whole * b) * a
        /\ (once * c + c) * a = (once + 1) * d
    BY <1>1, <1>2, <1>3
  <2> QED
    BY <1>4, <2>1, <2>2, <2>3, <2>4
<1>6. once * d < (twice + 2) * d
  <2>1. (once * c) * a <= (whole * b) * a
    BY <1>1, ProductMonotone
  <2>2. (whole * a) * b <= (part * c + c) * b
    BY <1>2, ProductMonotone
  <2>3. (part * b) * c < (twice * a + a) * c
    BY <1>2, <1>3
  <2>4. b * c <= a * c
    BY ProductMonotone
  <2>5. /\ (once * c) * a = once * d
        /\ (whole * b) * a = (whole * a) * b
        /\ (part * c + c) * b = (part * b) * c + b * c
        /\ (twice * a + a) * c + a * c = (twice + 2) * d
    BY <1>1, <1>2, <1>3
  <2> QED
    BY <1>4, <2>1, <2>2, <2>3, <2>4, <2>5
<1>7. twice < once + 1 /\ once < twice + 2
  <2> HIDE DEF d
  <2> QED
    BY <1>1, <1>3, <1>4, <1>5, <1>6, ProductCancelStrict
<1>8. twice = once \/ twice = once - 1
  BY <1>4, <1>7
<1> QED
  BY <1>8 DEF once, part, twice

-----------------------------------------------------------------------------
(* The vault account.                                                        *)

\* What still drips is at most the profit that was locked.
LEMMA RemainingBounds ==
    ASSUME NEW v \in VaultRecord, NEW instant \in Nat, validate_state(v)
    PROVE  remaining_locked_profit(v, instant) \in 0..v.locked_profit
<1>1. /\ v.locked_profit \in Nat
      /\ v.profit_unlock_start_ts \in Nat /\ v.profit_unlock_end_ts \in Nat
  BY MathAssumption DEF VaultRecord, U64
<1>2. CASE instant < v.profit_unlock_end_ts /\ instant > v.profit_unlock_start_ts
  <2> DEFINE left == v.profit_unlock_end_ts - instant
             span == v.profit_unlock_end_ts - v.profit_unlock_start_ts
  <2>1. left \in Nat /\ span \in Nat \ {0} /\ left <= span
    BY <1>1, <1>2
  <2>2. mul_div_floor(v.locked_profit, left, span) \in 0..v.locked_profit
    BY <1>1, <2>1, FloorOfPart
  <2> QED
    BY <1>1, <1>2, <2>2 DEF remaining_locked_profit
<1> QED
  BY <1>1, <1>2 DEF remaining_locked_profit

\* So the NAV shares are priced at never goes below zero nor above total_assets.
LEMMA EffectiveBounds ==
    ASSUME NEW v \in VaultRecord, NEW instant \in Nat, validate_state(v)
    PROVE  effective_total_assets(v, instant) \in 0..v.total_assets
<1>1. v.locked_profit \in Nat /\ v.total_assets \in Nat
  BY MathAssumption DEF VaultRecord, U64
<1>2. v.locked_profit <= v.total_assets
  BY DEF validate_state
<1> QED
  BY <1>1, <1>2, RemainingBounds DEF effective_total_assets

\* Locked profit only melts as time passes.
LEMMA RemainingFalls ==
    ASSUME NEW v \in VaultRecord, validate_state(v),
           NEW instant \in Nat, NEW later \in Nat, instant <= later
    PROVE  remaining_locked_profit(v, later) <= remaining_locked_profit(v, instant)
<1> DEFINE lock == v.locked_profit
           start == v.profit_unlock_start_ts
           end == v.profit_unlock_end_ts
<1>1. lock \in Nat /\ start \in Nat /\ end \in Nat
  BY MathAssumption DEF VaultRecord, U64
<1>2. /\ remaining_locked_profit(v, instant) \in 0..lock
      /\ remaining_locked_profit(v, later) \in 0..lock
  BY RemainingBounds
<1>3. CASE later >= end
  BY <1>1, <1>2, <1>3 DEF remaining_locked_profit
<1>4. CASE later < end /\ instant <= start
  BY <1>1, <1>2, <1>4 DEF remaining_locked_profit
<1>5. CASE later < end /\ start < instant
  <2>1. end - start \in Nat \ {0} /\ end - instant \in Nat /\ end - later \in Nat
        /\ end - later <= end - instant
    BY <1>1, <1>5
  <2>2. mul_div_floor(end - later, lock, end - start)
          <= mul_div_floor(end - instant, lock, end - start)
    BY <1>1, <2>1, FloorMonotone
  <2>3. ASSUME NEW left \in Nat
        PROVE  mul_div_floor(left, lock, end - start) = mul_div_floor(lock, left, end - start)
    <3>1. left * lock = lock * left
      BY <1>1
    <3> QED
      BY <3>1 DEF mul_div_floor
  <2> QED
    BY <1>1, <1>5, <2>1, <2>2, <2>3 DEF remaining_locked_profit
<1> QED
  BY <1>1, <1>3, <1>4, <1>5

(***************************************************************************)
(* A payout at effective NAV leaves a valid account, and lowers the NAV    *)
(* shares are priced at by exactly the amount paid.                        *)
(***************************************************************************)
LEMMA DebitFacts ==
    ASSUME NEW v \in VaultRecord, NEW instant \in Nat, NEW amount \in Nat,
           validate_state(v), can_debit(v, amount, instant),
           NEW w, w = debit_assets_at_effective(v, amount, instant)
    PROVE  /\ w \in VaultRecord
           /\ validate_state(w)
           /\ effective_total_assets(w, instant) = effective_total_assets(v, instant) - amount
           /\ w.total_assets = v.total_assets - amount
           /\ w.requested_withdrawal_shares = v.requested_withdrawal_shares
           /\ w.pending_withdrawal_assets = v.pending_withdrawal_assets
           /\ w.fees_payable = v.fees_payable
<1> DEFINE remaining == remaining_locked_profit(v, instant)
<1>1. /\ v.locked_profit \in Nat /\ v.total_assets \in Nat
      /\ v.total_assets <= MaxU64 /\ v.locked_profit <= MaxU64
      /\ v.profit_unlock_start_ts \in Nat /\ v.profit_unlock_end_ts \in Nat
  BY MathAssumption DEF VaultRecord, U64
<1>2. /\ v.locked_profit <= v.total_assets
      /\ v.profit_unlock_start_ts <= v.profit_unlock_end_ts
  BY DEF validate_state
<1>3. remaining \in Nat /\ remaining <= v.locked_profit
  BY <1>1, RemainingBounds
<1>4. amount <= v.total_assets - remaining
  BY DEF can_debit, effective_total_assets
<1>5. remaining > 0 => instant < v.profit_unlock_end_ts
  BY <1>1 DEF remaining_locked_profit
<1> DEFINE assets == v.total_assets - amount
           start == IF remaining > 0 THEN instant ELSE v.profit_unlock_start_ts
<1> HIDE DEF remaining
<1>6. w = [v EXCEPT !.total_assets = assets,
                    !.locked_profit = remaining,
                    !.profit_unlock_start_ts = start]
  BY DEF debit_assets_at_effective, remaining
<1>7. w \in VaultRecord
  <2>1. assets \in U64 /\ remaining \in U64 /\ start \in Nat
    BY MathAssumption, <1>1, <1>3, <1>4 DEF U64
  <2> HIDE DEF assets, start
  <2> QED
    BY <1>6, <2>1 DEF VaultRecord
<1>8. /\ w.total_assets = v.total_assets - amount
      /\ w.locked_profit = remaining
      /\ w.profit_unlock_end_ts = v.profit_unlock_end_ts
      /\ w.profit_unlock_start_ts = IF remaining > 0 THEN instant ELSE v.profit_unlock_start_ts
      /\ w.requested_withdrawal_shares = v.requested_withdrawal_shares
      /\ w.pending_withdrawal_assets = v.pending_withdrawal_assets
      /\ w.fees_payable = v.fees_payable
  BY <1>6 DEF VaultRecord
<1>9. validate_state(w)
  BY <1>1, <1>2, <1>3, <1>4, <1>5, <1>8 DEF validate_state
<1>10. remaining_locked_profit(w, instant) = remaining
  <2>1. CASE remaining > 0
    BY <1>1, <1>5, <1>8, <2>1 DEF remaining_locked_profit
  <2>2. CASE remaining = 0
    BY <1>3, <1>7, <1>8, <1>9, <2>2, RemainingBounds
  <2> QED
    BY <1>3, <2>1, <2>2
<1>11. effective_total_assets(w, instant) = effective_total_assets(v, instant) - amount
  BY <1>1, <1>3, <1>8, <1>10 DEF effective_total_assets, remaining
<1> QED
  BY <1>7, <1>8, <1>9, <1>11

(***************************************************************************)
(* Recognizing a net NAV leaves a valid account: a gain locks at most the  *)
(* new NAV, a loss locks nothing.                                          *)
(***************************************************************************)
LEMMA ReportedFacts ==
    ASSUME NEW v \in VaultRecord, NEW instant \in Nat, NEW cfg \in ConfigRecord,
           NEW net \in U64, validate_state(v),
           NEW w, w = apply_reported_nav(v, cfg, net, instant)
    PROVE  /\ w \in VaultRecord
           /\ validate_state(w)
           /\ w.total_assets = net
           /\ w.pending_withdrawal_assets = v.pending_withdrawal_assets
           /\ w.fees_payable = v.fees_payable
<1> DEFINE prior == effective_total_assets(v, instant)
           window == IF net > prior THEN unlock_window(v, cfg, instant) ELSE 0
           lock == IF window = 0 THEN 0 ELSE net - prior
           end == instant + window
<1>1. net \in Nat /\ net <= MaxU64 /\ v.total_assets \in Nat /\ v.last_update_ts \in Nat
      /\ cfg.max_unlock_duration_secs \in Nat
  BY MathAssumption DEF VaultRecord, ConfigRecord, U64
<1>2. prior \in Nat
  BY <1>1, EffectiveBounds
<1>3. window \in Nat
  BY <1>1 DEF unlock_window, Larger
<1>4. lock \in Nat /\ lock <= net
  BY <1>1, <1>2
<1>5. w = [v EXCEPT !.locked_profit = lock,
                    !.profit_unlock_start_ts = instant,
                    !.profit_unlock_end_ts = end,
                    !.total_assets = net]
  BY DEF apply_reported_nav
<1> HIDE DEF lock, window, prior
<1>6. lock \in U64 /\ end \in Nat /\ instant <= end
  BY <1>1, <1>3, <1>4, MathAssumption DEF U64
<1> HIDE DEF end
<1>7. w \in VaultRecord
  BY <1>5, <1>6 DEF VaultRecord
<1>8. /\ w.total_assets = net /\ w.locked_profit = lock
      /\ w.profit_unlock_start_ts = instant /\ w.profit_unlock_end_ts = end
      /\ w.pending_withdrawal_assets = v.pending_withdrawal_assets
      /\ w.fees_payable = v.fees_payable
  BY <1>5 DEF VaultRecord
<1> QED
  BY <1>4, <1>6, <1>7, <1>8 DEF validate_state

(***************************************************************************)
(* With smoothing on, a report in a later second than the last one does    *)
(* not lift effective NAV: a gain is locked in full at its own second.     *)
(***************************************************************************)
LEMMA ReportedNeverLifts ==
    ASSUME NEW v \in VaultRecord, NEW instant \in Nat, NEW cfg \in ConfigRecord,
           NEW net \in U64, validate_state(v),
           cfg.max_unlock_duration_secs > 0, instant > v.last_update_ts,
           NEW w, w = apply_reported_nav(v, cfg, net, instant)
    PROVE  effective_total_assets(w, instant) <= effective_total_assets(v, instant)
<1> DEFINE prior == effective_total_assets(v, instant)
           window == IF net > prior THEN unlock_window(v, cfg, instant) ELSE 0
           lock == IF window = 0 THEN 0 ELSE net - prior
           end == instant + window
<1>1. /\ net \in Nat /\ v.total_assets \in Nat /\ v.last_update_ts \in Nat
      /\ cfg.max_unlock_duration_secs \in Nat
  BY MathAssumption DEF VaultRecord, ConfigRecord, U64
<1>2. prior \in Nat
  BY <1>1, EffectiveBounds
<1>3. window \in Nat /\ (net > prior => window > 0)
  BY <1>1 DEF unlock_window, Larger
<1>4. w = [v EXCEPT !.locked_profit = lock,
                    !.profit_unlock_start_ts = instant,
                    !.profit_unlock_end_ts = end,
                    !.total_assets = net]
  BY DEF apply_reported_nav
<1>5. lock \in Nat /\ (net > prior => lock = net - prior) /\ (net <= prior => window = 0)
  <2> HIDE DEF prior
  <2>1. net <= prior => window = 0
    BY <1>1, <1>2
  <2> HIDE DEF window
  <2> QED
    BY <1>1, <1>2, <1>3, <2>1
<1> HIDE DEF prior, window, lock
<1>6. /\ w.total_assets = net /\ w.locked_profit = lock
      /\ w.profit_unlock_start_ts = instant /\ w.profit_unlock_end_ts = end
  BY <1>4 DEF VaultRecord
<1>7. CASE net > prior
  <2>1. remaining_locked_profit(w, instant) = lock
    BY <1>3, <1>6, <1>7 DEF remaining_locked_profit
  <2> QED
    BY <1>1, <1>2, <1>5, <1>6, <1>7, <2>1 DEF effective_total_assets, prior
<1>8. CASE net <= prior
  <2>1. remaining_locked_profit(w, instant) = 0
    BY <1>5, <1>6, <1>8 DEF remaining_locked_profit
  <2> QED
    BY <1>1, <1>2, <1>6, <1>8, <2>1 DEF effective_total_assets, prior
<1> QED
  BY <1>1, <1>2, <1>7, <1>8

-----------------------------------------------------------------------------
(* The unlock line.                                                          *)

\* w keeps the unlock line of v, or draws it again from what is left at now.
Reanchored(v, w, instant) ==
    /\ w.profit_unlock_end_ts = v.profit_unlock_end_ts
    /\ \/ /\ w.locked_profit = v.locked_profit
          /\ w.profit_unlock_start_ts = v.profit_unlock_start_ts
       \/ /\ w.locked_profit = remaining_locked_profit(v, instant)
          /\ w.profit_unlock_start_ts = IF remaining_locked_profit(v, instant) > 0
                                        THEN instant ELSE v.profit_unlock_start_ts

\* A payout re-anchors the line and leaves watermark and epoch alone.
LEMMA DebitReanchors ==
    ASSUME NEW v \in VaultRecord, NEW instant, NEW amount,
           NEW w, w = debit_assets_at_effective(v, amount, instant)
    PROVE  /\ w.locked_profit = remaining_locked_profit(v, instant)
           /\ w.profit_unlock_start_ts = IF remaining_locked_profit(v, instant) > 0
                                         THEN instant ELSE v.profit_unlock_start_ts
           /\ w.profit_unlock_end_ts = v.profit_unlock_end_ts
           /\ w.high_watermark = v.high_watermark
           /\ w.report_epoch = v.report_epoch
           /\ Reanchored(v, w, instant)
<1> DEFINE remaining == remaining_locked_profit(v, instant)
           assets == v.total_assets - amount
           start == IF remaining > 0 THEN instant ELSE v.profit_unlock_start_ts
<1>1. w = [v EXCEPT !.total_assets = assets,
                    !.locked_profit = remaining,
                    !.profit_unlock_start_ts = start]
  BY DEF debit_assets_at_effective
<1> HIDE DEF remaining, assets, start
<1>2. /\ w.locked_profit = remaining /\ w.profit_unlock_start_ts = start
      /\ w.profit_unlock_end_ts = v.profit_unlock_end_ts
      /\ w.high_watermark = v.high_watermark /\ w.report_epoch = v.report_epoch
  BY <1>1 DEF VaultRecord
<1> QED
  BY <1>2 DEF Reanchored, remaining, start

\* Paying twice in one instant re-anchors once.
LEMMA ReanchoredTwice ==
    ASSUME NEW instant \in Nat,
           NEW v \in VaultRecord, validate_state(v),
           NEW w \in VaultRecord, validate_state(w), Reanchored(v, w, instant),
           NEW x, x.profit_unlock_end_ts = w.profit_unlock_end_ts,
           x.locked_profit = remaining_locked_profit(w, instant),
           x.profit_unlock_start_ts = IF remaining_locked_profit(w, instant) > 0
                                      THEN instant ELSE w.profit_unlock_start_ts
    PROVE  Reanchored(v, x, instant)
<1> DEFINE remaining == remaining_locked_profit(v, instant)
<1>1. v.locked_profit \in Nat /\ v.profit_unlock_end_ts \in Nat
  BY MathAssumption DEF VaultRecord, U64
<1>2. remaining \in Nat /\ (remaining > 0 => instant < v.profit_unlock_end_ts)
  <2>1. remaining \in Nat
    BY <1>1, RemainingBounds
  <2>2. remaining > 0 => instant < v.profit_unlock_end_ts
    BY <1>1 DEF remaining_locked_profit
  <2> QED
    BY <2>1, <2>2
<1>3. CASE /\ w.locked_profit = v.locked_profit
           /\ w.profit_unlock_start_ts = v.profit_unlock_start_ts
  BY <1>3 DEF Reanchored, remaining_locked_profit
<1>4. CASE /\ w.locked_profit = remaining
           /\ w.profit_unlock_start_ts = IF remaining > 0 THEN instant ELSE v.profit_unlock_start_ts
  <2>1. remaining_locked_profit(w, instant) = remaining
    <3>1. w.profit_unlock_end_ts = v.profit_unlock_end_ts
      BY DEF Reanchored
    <3>2. CASE remaining > 0
      <4> HIDE DEF remaining
      <4> QED
        BY <1>1, <1>2, <1>4, <3>1, <3>2 DEF remaining_locked_profit
    <3>3. CASE remaining = 0
      <4> HIDE DEF remaining
      <4>1. remaining_locked_profit(w, instant) \in 0..0
        BY <1>4, <3>3, RemainingBounds
      <4> QED
        BY <3>3, <4>1
    <3> HIDE DEF remaining
    <3> QED
      BY <1>2, <3>2, <3>3
  <2> QED
    BY <1>4, <2>1 DEF Reanchored
<1> QED
  BY <1>3, <1>4 DEF Reanchored

(***************************************************************************)
(* A re-anchored line, drawn after the window opened, is the old line at   *)
(* every later instant, or one atom under it.                              *)
(***************************************************************************)
LEMMA ReanchoredLine ==
    ASSUME NEW instant \in Nat, NEW t \in Nat, instant <= t,
           NEW v \in VaultRecord, validate_state(v), v.profit_unlock_start_ts <= instant,
           NEW w \in VaultRecord, validate_state(w), Reanchored(v, w, instant)
    PROVE  remaining_locked_profit(w, t)
             \in {remaining_locked_profit(v, t), remaining_locked_profit(v, t) - 1}
<1> DEFINE lock == v.locked_profit
           start == v.profit_unlock_start_ts
           end == v.profit_unlock_end_ts
           remaining == remaining_locked_profit(v, instant)
<1>1. lock \in Nat /\ start \in Nat /\ end \in Nat /\ w.profit_unlock_end_ts = end
  BY MathAssumption DEF VaultRecord, U64, Reanchored
<1>2. CASE w.locked_profit = lock /\ w.profit_unlock_start_ts = start
  BY <1>1, <1>2 DEF remaining_locked_profit
<1>3. CASE t >= end
  BY <1>1, <1>3 DEF remaining_locked_profit
<1>4. CASE /\ t < end
           /\ w.locked_profit = remaining
           /\ w.profit_unlock_start_ts = IF remaining > 0 THEN instant ELSE start
  <2>1. /\ remaining \in Nat /\ remaining_locked_profit(v, t) \in Nat
        /\ remaining_locked_profit(v, t) <= remaining
    BY <1>1, RemainingBounds, RemainingFalls
  <2>2. CASE remaining = 0
    <3>1. remaining_locked_profit(w, t) \in 0..0
      <4> HIDE DEF remaining
      <4> QED
        BY <1>4, <2>2, RemainingBounds
    <3> QED
      BY <2>1, <2>2, <3>1
  <2>3. CASE remaining # 0 /\ instant = start
    <3>1. remaining = lock
      BY <1>1, <1>4, <2>3 DEF remaining_locked_profit
    <3> HIDE DEF remaining
    <3>2. w.locked_profit = lock /\ w.profit_unlock_start_ts = start
      BY <1>4, <2>1, <2>3, <3>1
    <3> QED
      BY <1>2, <3>2
  <2>4. CASE remaining # 0 /\ instant # start
    <3> DEFINE a == end - instant
               b == end - t
               c == end - start
    <3>1. /\ a \in Nat \ {0} /\ b \in Nat /\ c \in Nat \ {0} /\ b <= a
          /\ start < instant /\ instant < end
      BY <1>1, <1>4, <2>4
    <3>2. remaining = mul_div_floor(lock, a, c)
      BY <1>1, <3>1 DEF remaining_locked_profit
    <3>3. remaining_locked_profit(v, t) = mul_div_floor(lock, b, c)
      BY <1>1, <1>4, <3>1 DEF remaining_locked_profit
    <3>4. w.locked_profit = remaining /\ w.profit_unlock_start_ts = instant
      <4> HIDE DEF remaining
      <4> QED
        BY <1>4, <2>1, <2>4
    <3>5. CASE t = instant
      <4>1. remaining_locked_profit(w, t) = remaining
        BY <1>1, <1>4, <3>4, <3>5 DEF remaining_locked_profit
      <4> QED
        BY <3>5, <4>1
    <3>6. CASE t # instant
      <4>1. remaining_locked_profit(w, t) = mul_div_floor(remaining, b, a)
        <5>1. instant < t
          BY <3>6
        <5> HIDE DEF remaining
        <5> QED
          BY <1>1, <1>4, <3>4, <5>1 DEF remaining_locked_profit
      <4> HIDE DEF a, b, c, lock, remaining
      <4>2. LET once  == mul_div_floor(lock, b, c)
                twice == mul_div_floor(mul_div_floor(lock, a, c), b, a)
            IN  twice = once \/ twice = once - 1
        BY <1>1, <3>1, FloorTwice
      <4> QED
        BY <3>2, <3>3, <4>1, <4>2
    <3> QED
      BY <3>5, <3>6
  <2> QED
    BY <2>2, <2>3, <2>4
<1> QED
  BY <1>1, <1>2, <1>3, <1>4 DEF Reanchored

-----------------------------------------------------------------------------
(* The vault.                                                                *)

(***************************************************************************)
(* The inductive invariant.  The type of total_assets after a payout needs *)
(* a valid unlock window, a valid window after a payout needs the types,   *)
(* and a batch settles exactly what it strikes only if nothing was struck  *)
(* before it.                                                              *)
(***************************************************************************)
Inv == TypeOK /\ VaultStaysLoadable /\ NothingStruckAtRest

\* The effective price of account w is not below that of v.
PriceKept(v, w) ==
    (effective_total_assets(w, now) + 1)
      * (share_supply + v.requested_withdrawal_shares + VirtualShares)
    >= (effective_total_assets(v, now) + 1)
      * (share_supply + w.requested_withdrawal_shares + VirtualShares)

-----------------------------------------------------------------------------
(* The settlement loop of ProcessWithdrawals.                                *)

\* The prefixes of a settlement: each turn starts where the previous one ended.
SettlementRun(batch, n, run) ==
    run = [i \in 0..n |->
             IF i = 0 THEN [v |-> vault, settled |-> 0, ok |-> TRUE]
             ELSE settle_next(run[i - 1], tickets[batch[i]])]

\* The loop has a run of every length.
LEMMA RunExists ==
    ASSUME NEW batch, NEW n \in Nat
    PROVE  \E run : SettlementRun(batch, n, run)
<1> DEFINE Bad == {m \in Nat : ~ \E run : SettlementRun(batch, m, run)}
           first == [v |-> vault, settled |-> 0, ok |-> TRUE]
<1>1. Bad = {}
  <2> SUFFICES ASSUME Bad # {} PROVE FALSE
    OBVIOUS
  <2>1. PICK m \in Bad : \A k \in Bad : m <= k
    BY LeastNat
  <2>2. CASE m = 0
    <3> DEFINE run0 == [i \in 0..0 |-> first]
    <3>1. SettlementRun(batch, 0, run0)
      BY DEF SettlementRun
    <3> QED
      BY <3>1, <2>1, <2>2
  <2>3. CASE m # 0
    <3>1. m \in Nat /\ m - 1 \in Nat
      BY <2>1, <2>3
    <3>2. m - 1 \notin Bad
      BY <3>1, <2>1
    <3>3. PICK f : SettlementRun(batch, m - 1, f)
      BY <3>1, <3>2
    <3> DEFINE turn(r, i) == settle_next(r, tickets[batch[i]])
               g == [i \in 0..m |-> IF i = m THEN turn(f[m - 1], m) ELSE f[i]]
    <3>4. f = [i \in 0..(m - 1) |-> IF i = 0 THEN first ELSE turn(f[i - 1], i)]
      BY <3>3 DEF SettlementRun
    <3> HIDE DEF turn, first
    <3>5. g = [i \in 0..m |-> IF i = 0 THEN first ELSE turn(g[i - 1], i)]
      <4>1. ASSUME NEW i \in 0..m
            PROVE  g[i] = IF i = 0 THEN first ELSE turn(g[i - 1], i)
        <5>1. CASE i = m
          <6>1. g[m - 1] = f[m - 1]
            BY <3>1
          <6> QED
            BY <6>1, <5>1, <2>3
        <5>2. CASE i # m /\ i = 0
          BY <5>2, <3>4, <3>1
        <5>3. CASE i # m /\ i # 0
          <6>1. i \in 0..(m - 1) /\ i - 1 \in 0..(m - 1) /\ i - 1 # m
            BY <5>3, <3>1
          <6>2. g[i] = f[i] /\ g[i - 1] = f[i - 1]
            BY <6>1, <5>3
          <6>3. f[i] = turn(f[i - 1], i)
            BY <3>4, <6>1, <5>3
          <6> QED
            BY <6>2, <6>3, <5>3
        <5> QED
          BY <5>1, <5>2, <5>3
      <4> QED
        BY <4>1
    <3>6. SettlementRun(batch, m, g)
      BY <3>5 DEF SettlementRun, turn, first
    <3> QED
      BY <3>6, <2>1
  <2> QED
    BY <2>2, <2>3
<1> QED
  BY <1>1

\* Settlement returns the last record of such a run.
LEMMA SettlementIsRun ==
    ASSUME NEW batch, Len(batch) \in Nat
    PROVE  \E run : /\ SettlementRun(batch, Len(batch), run)
                    /\ Settlement(batch) = run[Len(batch)]
<1>1. PICK f : SettlementRun(batch, Len(batch), f)
  BY RunExists
<1> QED
  BY <1>1 DEF Settlement, SettlementRun

\* Batches are sequences of tickets.
LEMMA BatchIsSeq ==
    ASSUME NEW batch \in Batches
    PROVE  batch \in Seq(TicketKeys) /\ Len(batch) \in Nat
<1>1. PICK n \in 1..MaxBatch : batch \in Injection(1..n, TicketKeys)
  BY DEF Batches
<1>2. batch \in [1..n -> TicketKeys] /\ n \in Nat
  BY <1>1, VaultAssumption DEF Injection
<1> QED
  BY <1>2

\* A strike leaves a valid account, moves its price to pending and its shares
\* out of the queue, and does not lower the price of those that remain.
LEMMA StrikeFacts ==
    ASSUME now \in Nat, share_supply \in U64,
           NEW v \in VaultRecord, validate_state(v),
           NEW t \in Ticket, can_strike(v, t),
           NEW w, w = strike_ticket(v, t)
    PROVE  /\ w \in VaultRecord
           /\ validate_state(w)
           /\ strike_owed(v, t) \in Nat
           /\ w.pending_withdrawal_assets
                = v.pending_withdrawal_assets + strike_owed(v, t)
           /\ w.requested_withdrawal_shares
                = v.requested_withdrawal_shares - t.shares_burned
           /\ w.total_assets = v.total_assets - strike_owed(v, t)
           /\ w.fees_payable = v.fees_payable
           /\ PriceKept(v, w)
<1> DEFINE owed == strike_owed(v, t)
           assets == effective_total_assets(v, now)
           total_shares == share_supply + v.requested_withdrawal_shares
           d == debit_assets_at_effective(v, owed, now)
<1>1. /\ v.requested_withdrawal_shares \in Nat /\ v.pending_withdrawal_assets \in Nat
      /\ v.requested_withdrawal_shares <= MaxU64
      /\ share_supply \in Nat /\ t.shares_burned \in Nat /\ v.total_assets \in Nat
  BY MathAssumption DEF VaultRecord, Ticket, U64
<1>2. assets \in Nat
  BY <1>1, EffectiveBounds
<1>3. /\ t.shares_burned <= v.requested_withdrawal_shares
      /\ can_debit(v, owed, now)
      /\ v.pending_withdrawal_assets + owed <= MaxU64
  BY DEF can_strike, fits_u64
<1>4. total_shares \in Nat
  BY <1>1
<1>5. owed = assets_for_shares(t.shares_burned, assets, total_shares)
  BY DEF strike_owed
<1>6. owed \in Nat
  <2> HIDE DEF owed, assets, total_shares
  <2> QED
    BY <1>1, <1>2, <1>4, <1>5, ExitIsCovered
<1>7. /\ d \in VaultRecord /\ validate_state(d)
      /\ effective_total_assets(d, now) = assets - owed
      /\ d.requested_withdrawal_shares = v.requested_withdrawal_shares
      /\ d.pending_withdrawal_assets = v.pending_withdrawal_assets
      /\ d.total_assets = v.total_assets - owed
      /\ d.fees_payable = v.fees_payable
  <2> HIDE DEF owed
  <2>1. d = debit_assets_at_effective(v, owed, now)
    OBVIOUS
  <2> HIDE DEF d
  <2> QED
    BY <1>3, <1>6, <2>1, DebitFacts
<1>8. w = [d EXCEPT !.requested_withdrawal_shares = d.requested_withdrawal_shares - t.shares_burned,
                    !.pending_withdrawal_assets = d.pending_withdrawal_assets + owed]
  BY DEF strike_ticket
<1> HIDE DEF d, owed, assets
<1> DEFINE queued == v.requested_withdrawal_shares - t.shares_burned
           pending == v.pending_withdrawal_assets + owed
<1>9. w = [d EXCEPT !.requested_withdrawal_shares = queued,
                    !.pending_withdrawal_assets = pending]
  BY <1>7, <1>8
<1>10. queued \in U64 /\ pending \in U64
  BY MathAssumption, <1>1, <1>3, <1>6 DEF U64
<1> HIDE DEF queued, pending
<1>11. w \in VaultRecord
  BY <1>7, <1>9, <1>10 DEF VaultRecord
<1>12. /\ w.requested_withdrawal_shares = queued /\ w.pending_withdrawal_assets = pending
       /\ w.total_assets = d.total_assets /\ w.locked_profit = d.locked_profit
       /\ w.profit_unlock_start_ts = d.profit_unlock_start_ts
       /\ w.profit_unlock_end_ts = d.profit_unlock_end_ts
       /\ w.fees_payable = d.fees_payable
  BY <1>7, <1>9 DEF VaultRecord
<1>13. validate_state(w) /\ effective_total_assets(w, now) = assets - owed
  BY <1>7, <1>12 DEF validate_state, effective_total_assets, remaining_locked_profit
<1>14. PriceKept(v, w)
  <2>1. (assets - owed + 1) * (total_shares + VirtualShares)
          >= (assets + 1) * (total_shares - t.shares_burned + VirtualShares)
    BY <1>1, <1>2, <1>4, <1>5, <1>6, ExitKeepsPrice
  <2>2. share_supply + queued = total_shares - t.shares_burned
    BY <1>1 DEF queued
  <2> QED
    BY <1>12, <1>13, <2>1, <2>2 DEF PriceKept, assets
<1> QED
  BY <1>6, <1>7, <1>11, <1>12, <1>13, <1>14 DEF queued, pending, owed

\* What holds of the record after each turn of a settlement that goes through.
Settles(r) ==
    /\ r.v \in VaultRecord
    /\ validate_state(r.v)
    /\ r.settled = r.v.pending_withdrawal_assets
    /\ r.v.total_assets = vault.total_assets - r.settled
    /\ r.v.fees_payable = vault.fees_payable
    /\ PriceKept(vault, r.v)

\* One turn keeps it.
LEMMA TurnSettles ==
    ASSUME now \in Nat, share_supply \in U64, vault \in VaultRecord, validate_state(vault),
           NEW r, NEW t \in Ticket, t.assets_owed = 0,
           r.ok => Settles(r),
           settle_next(r, t).ok
    PROVE  Settles(settle_next(r, t))
<1> DEFINE w == strike_ticket(r.v, t)
<1>1. settle_next(r, t) = [v |-> w, settled |-> r.settled + strike_owed(r.v, t),
                           ok |-> r.ok /\ can_strike(r.v, t)]
  BY DEF settle_next
<1>2. r.ok /\ can_strike(r.v, t)
  <2> DEFINE passed == r.ok /\ can_strike(r.v, t)
  <2>1. settle_next(r, t) = [v |-> w, settled |-> r.settled + strike_owed(r.v, t),
                             ok |-> passed]
    BY <1>1
  <2> HIDE DEF passed, w
  <2>2. settle_next(r, t).ok = passed
    BY <2>1
  <2> QED
    BY <2>2 DEF passed
<1>3. /\ r.v \in VaultRecord /\ validate_state(r.v)
      /\ r.settled = r.v.pending_withdrawal_assets /\ PriceKept(vault, r.v)
      /\ r.v.total_assets = vault.total_assets - r.settled
      /\ r.v.fees_payable = vault.fees_payable
  BY <1>2 DEF Settles
<1>4. w = strike_ticket(r.v, t)
  OBVIOUS
<1> HIDE DEF w
<1>5. /\ w \in VaultRecord /\ validate_state(w)
      /\ w.pending_withdrawal_assets = r.v.pending_withdrawal_assets + strike_owed(r.v, t)
      /\ PriceKept(r.v, w)
      /\ w.total_assets = r.v.total_assets - strike_owed(r.v, t)
      /\ w.fees_payable = r.v.fees_payable
      /\ strike_owed(r.v, t) \in Nat
  BY <1>2, <1>3, <1>4, StrikeFacts
<1>6. PriceKept(vault, w)
  <2> DEFINE assets(v) == effective_total_assets(v, now) + 1
             total_shares(v) == share_supply + v.requested_withdrawal_shares + VirtualShares
  <2>1. ASSUME NEW v \in VaultRecord, validate_state(v)
        PROVE  assets(v) \in Nat /\ total_shares(v) \in Nat \ {0}
    <3>1. /\ v.total_assets \in Nat /\ v.requested_withdrawal_shares \in Nat
          /\ share_supply \in Nat
      BY MathAssumption DEF VaultRecord, U64
    <3>2. effective_total_assets(v, now) \in Nat
      BY <2>1, <3>1, EffectiveBounds
    <3> QED
      BY MathAssumption, <3>1, <3>2
  <2>2. /\ assets(vault) \in Nat /\ total_shares(vault) \in Nat \ {0}
        /\ assets(r.v) \in Nat /\ total_shares(r.v) \in Nat \ {0}
        /\ assets(w) \in Nat /\ total_shares(w) \in Nat \ {0}
    BY <1>3, <1>5, <2>1
  <2>3. /\ assets(r.v) * total_shares(vault) >= assets(vault) * total_shares(r.v)
        /\ assets(w) * total_shares(r.v) >= assets(r.v) * total_shares(w)
    BY <1>3, <1>5 DEF PriceKept
  <2> HIDE DEF assets, total_shares
  <2>4. assets(w) * total_shares(vault) >= assets(vault) * total_shares(w)
    BY <2>2, <2>3, PriceTransitive
  <2> QED
    BY <2>4 DEF PriceKept, assets, total_shares
<1>7. w.total_assets = vault.total_assets - (r.settled + strike_owed(r.v, t))
  <2>1. r.settled \in Nat /\ vault.total_assets \in Nat
    BY <1>3, MathAssumption DEF VaultRecord, U64
  <2> QED
    BY <1>3, <1>5, <2>1
<1> QED
  BY <1>1, <1>3, <1>5, <1>6, <1>7 DEF Settles

\* The first record of a run.
LEMMA RunFirst ==
    ASSUME NEW batch, NEW n \in Nat, NEW run, SettlementRun(batch, n, run)
    PROVE  run[0] = [v |-> vault, settled |-> 0, ok |-> TRUE]
BY DEF SettlementRun

\* Each turn of a run.
LEMMA RunTurn ==
    ASSUME NEW batch, NEW n \in Nat, NEW run, SettlementRun(batch, n, run), NEW i \in 1..n
    PROVE  run[i] = settle_next(run[i - 1], tickets[batch[i]])
<1> DEFINE turn(j) == IF j = 0 THEN [v |-> vault, settled |-> 0, ok |-> TRUE]
                      ELSE settle_next(run[j - 1], tickets[batch[j]])
<1>1. run = [j \in 0..n |-> turn(j)]
  BY DEF SettlementRun
<1>2. i \in 0..n /\ i # 0
  OBVIOUS
<1>3. run[i] = turn(i)
  <2> HIDE DEF turn
  <2> QED
    BY <1>1, <1>2
<1> QED
  BY <1>2, <1>3

\* Every prefix of a batch that goes through settles.
LEMMA RunSettles ==
    ASSUME Inv, NEW batch \in Seq(TicketKeys), NEW run,
           SettlementRun(batch, Len(batch), run), NEW i0 \in 0..Len(batch), run[i0].ok
    PROVE  Settles(run[i0])
<1> DEFINE n == Len(batch)
<1>1. n \in Nat
  OBVIOUS
<1>2. /\ now \in Nat /\ share_supply \in U64 /\ vault \in VaultRecord
      /\ validate_state(vault) /\ vault.pending_withdrawal_assets = 0
      /\ \A k \in TicketKeys : tickets[k] \in Ticket /\ tickets[k].assets_owed = 0
  BY DEF Inv, TypeOK, VaultStaysLoadable, NothingStruckAtRest
<1>3. run[0] = [v |-> vault, settled |-> 0, ok |-> TRUE]
  BY <1>1, RunFirst
<1> DEFINE Bad == {i \in 0..n : run[i].ok /\ ~Settles(run[i])}
<1>4. Bad = {}
  <2> SUFFICES ASSUME Bad # {} PROVE FALSE
    OBVIOUS
  <2>1. PICK i \in Bad : \A j \in Bad : i <= j
    <3>1. Bad \in SUBSET Nat
      BY <1>1
    <3> HIDE DEF Bad
    <3> QED
      BY <3>1, LeastNat
  <2>2. i \in 0..n /\ run[i].ok /\ ~Settles(run[i])
    BY <2>1
  <2>3. CASE i = 0
    <3>1. PriceKept(vault, vault)
      <4>1. /\ vault.requested_withdrawal_shares \in Nat /\ share_supply \in Nat
            /\ effective_total_assets(vault, now) \in Int
        <5>1. vault.total_assets \in Nat /\ vault.requested_withdrawal_shares \in Nat
          BY <1>2, MathAssumption DEF VaultRecord, U64
        <5>2. effective_total_assets(vault, now) \in 0..vault.total_assets
          BY <1>2, EffectiveBounds
        <5> QED
          BY <1>2, <5>1, <5>2 DEF U64
      <4> QED
        BY <4>1, MathAssumption DEF PriceKept
    <3>2. vault.total_assets = vault.total_assets - 0
      BY <1>2, MathAssumption DEF VaultRecord, U64
    <3>3. Settles(run[0])
      BY <1>2, <1>3, <3>1, <3>2 DEF Settles
    <3> QED
      BY <2>2, <2>3, <3>3
  <2>4. CASE i # 0
    <3>1. i \in 1..n /\ i - 1 \in 0..n /\ i - 1 < i
      BY <1>1, <2>2, <2>4
    <3>2. run[i - 1].ok => Settles(run[i - 1])
      <4>1. i - 1 \notin Bad
        BY <2>1, <3>1, <2>2
      <4> QED
        BY <3>1, <4>1
    <3>3. batch[i] \in TicketKeys
      BY <3>1
    <3>4. tickets[batch[i]] \in Ticket /\ tickets[batch[i]].assets_owed = 0
      BY <1>2, <3>3
    <3>5. run[i] = settle_next(run[i - 1], tickets[batch[i]])
      BY <1>1, <3>1, RunTurn, ZenonT(30)
    <3> QED
      BY <1>2, <2>2, <3>2, <3>4, <3>5, TurnSettles
  <2> QED
    BY <2>3, <2>4
<1> QED
  BY <1>4

\* A batch that goes through ends in a valid account that owes what it settles.
LEMMA SettlementSettles ==
    ASSUME Inv, NEW batch \in Batches, Settlement(batch).ok
    PROVE  Settles(Settlement(batch))
<1>1. batch \in Seq(TicketKeys) /\ Len(batch) \in Nat
  BY BatchIsSeq
<1>2. PICK run : /\ SettlementRun(batch, Len(batch), run)
                 /\ Settlement(batch) = run[Len(batch)]
  BY <1>1, SettlementIsRun
<1>3. Len(batch) \in 0..Len(batch)
  BY <1>1
<1> QED
  BY <1>1, <1>2, <1>3, RunSettles

-----------------------------------------------------------------------------
(* The invariant is inductive.                                               *)

\* The fields of an account, as the arithmetic needs them.
LEMMA RecordFields ==
    ASSUME NEW v \in VaultRecord
    PROVE  /\ v.total_assets \in Nat /\ v.total_assets <= MaxU64
           /\ v.external_assets \in Nat /\ v.external_assets <= MaxU64
           /\ v.pending_withdrawal_assets \in Nat /\ v.pending_withdrawal_assets <= MaxU64
           /\ v.fees_payable \in Nat /\ v.fees_payable <= MaxU64
           /\ v.high_watermark \in U64
           /\ v.report_epoch \in Nat /\ v.last_update_ts \in Nat
           /\ v.requested_withdrawal_shares \in Nat
           /\ v.requested_withdrawal_shares <= MaxU64
           /\ v.locked_profit \in Nat /\ v.locked_profit <= MaxU64
           /\ v.profit_unlock_start_ts \in Nat /\ v.profit_unlock_end_ts \in Nat
BY MathAssumption DEF VaultRecord, U64

\* The account keeps everything the invariant asks of it when only the fields
\* outside pricing and pending payouts change.
VaultInv(v) ==
    /\ v \in VaultRecord
    /\ validate_state(v)
    /\ v.pending_withdrawal_assets = 0

\* The types of what is not the account.
RestOK ==
    /\ now \in Nat /\ slot \in Nat
    /\ config \in Configs
    /\ paused \in PauseRecord
    /\ access \in AccessRecord
    /\ share_supply \in U64
    /\ shares \in [Users -> U64]
    /\ tickets \in [TicketKeys -> Ticket]
    /\ \A k \in TicketKeys : tickets[k].assets_owed = 0
    /\ custody \in [Custodies -> U64]
    /\ destinations \subseteq Destinations
    /\ venue \in Int
    /\ forgiven \in Nat

\* The invariant, split into the account and the rest.
LEMMA InvSplit == Inv <=> VaultInv(vault) /\ RestOK
BY DEF Inv, TypeOK, VaultStaysLoadable, NothingStruckAtRest, VaultInv, RestOK

\* The same of the next state.
LEMMA InvSplitNext == Inv' <=> VaultInv(vault') /\ RestOK'
BY DEF Inv, TypeOK, VaultStaysLoadable, NothingStruckAtRest, VaultInv, RestOK

\* Initially nothing is held, locked or queued.
LEMMA InitInv == Init => Inv
<1> SUFFICES ASSUME Init PROVE Inv
  OBVIOUS
<1> USE MathAssumption, VaultAssumption
<1>1. VaultInv(vault)
  BY DEF Init, VaultInv, new_vault, VaultRecord, U64, validate_state
<1>2. ClosedTicket \in Ticket /\ ClosedTicket.assets_owed = 0
  BY DEF ClosedTicket, Ticket, U64
<1>3. RestOK
  BY <1>2 DEF Init, RestOK, PauseRecord, U64
<1> QED
  BY <1>1, <1>3, InvSplit

\* Stored amounts of a valid state.
LEMMA StateFacts ==
    ASSUME Inv
    PROVE  /\ VaultInv(vault) /\ RestOK
           /\ effective \in Nat /\ effective <= vault.total_assets
           /\ economic_share_supply \in Nat
           /\ share_supply \in Nat /\ share_supply <= MaxU64
<1>1. VaultInv(vault) /\ RestOK
  BY InvSplit
<1>2. vault \in VaultRecord /\ validate_state(vault) /\ now \in Nat
  BY <1>1 DEF VaultInv, RestOK
<1>3. vault.total_assets \in Nat /\ vault.requested_withdrawal_shares \in Nat
  BY <1>2, RecordFields
<1>4. effective \in Nat /\ effective <= vault.total_assets
  BY <1>2, <1>3, EffectiveBounds DEF effective
<1>5. share_supply \in Nat /\ share_supply <= MaxU64
  BY <1>1, MathAssumption DEF RestOK, U64
<1> QED
  BY <1>1, <1>3, <1>4, <1>5 DEF economic_share_supply

\* The shared deposit handler: a deposit lands on raw total_assets, so the
\* locked profit stays covered although the store does not validate.
LEMMA ExecuteDepositInv ==
    ASSUME Inv, NEW u \in Users, NEW base_atoms \in Nat, execute_deposit(u, base_atoms),
           custody' \in [Custodies -> U64], venue' \in Int
    PROVE  Inv'
<1> DEFINE minted == shares_for_deposit(base_atoms, effective, economic_share_supply)
           projected == vault.total_assets + base_atoms
<1>1. /\ VaultInv(vault) /\ RestOK /\ effective \in Nat /\ economic_share_supply \in Nat
      /\ share_supply \in Nat
  BY StateFacts
<1>2. minted \in Nat
  BY <1>1, EntryKeepsPrice
<1>3. /\ projected <= MaxU64 /\ share_supply + minted <= MaxU64
      /\ shares[u] + minted <= MaxU64
      /\ share_supply' = share_supply + minted
      /\ shares' = [shares EXCEPT ![u] = shares[u] + minted]
      /\ vault' = [vault EXCEPT !.total_assets = projected]
      /\ UNCHANGED <<now, slot, config, paused, access, destinations, tickets, forgiven>>
  BY DEF execute_deposit, total_assets_after_deposit, deposit_within_cap, fits_u64,
         clock_vars, admin_vars
<1> HIDE DEF minted
<1>4. VaultInv(vault')
  <2>1. vault \in VaultRecord /\ validate_state(vault) /\ vault.pending_withdrawal_assets = 0
    BY <1>1 DEF VaultInv
  <2>2. vault.total_assets \in Nat /\ vault.locked_profit \in Nat
    BY <2>1, RecordFields
  <2>3. projected \in U64 /\ vault.total_assets <= projected
    BY <1>3, <2>2 DEF U64
  <2> HIDE DEF projected
  <2>4. vault' \in VaultRecord
    BY <1>3, <2>1, <2>3 DEF VaultRecord
  <2>5. /\ vault'.total_assets = projected
        /\ vault'.locked_profit = vault.locked_profit
        /\ vault'.profit_unlock_start_ts = vault.profit_unlock_start_ts
        /\ vault'.profit_unlock_end_ts = vault.profit_unlock_end_ts
        /\ vault'.pending_withdrawal_assets = vault.pending_withdrawal_assets
    BY <1>3, <2>1 DEF VaultRecord
  <2>6. projected \in Nat
    BY <2>3, MathAssumption DEF U64
  <2> QED
    BY <2>1, <2>2, <2>3, <2>4, <2>5, <2>6 DEF VaultInv, validate_state
<1>5. share_supply' \in U64 /\ shares' \in [Users -> U64]
  BY <1>1, <1>2, <1>3, MathAssumption DEF RestOK, U64
<1> QED
  BY <1>1, <1>3, <1>4, <1>5, InvSplitNext DEF RestOK

\* An account that differs only in fields pricing does not read keeps its part.
LEMMA SamePricingInv ==
    ASSUME NEW v, VaultInv(v), NEW w \in VaultRecord,
           w.total_assets = v.total_assets, w.locked_profit = v.locked_profit,
           w.profit_unlock_start_ts = v.profit_unlock_start_ts,
           w.profit_unlock_end_ts = v.profit_unlock_end_ts,
           w.pending_withdrawal_assets = v.pending_withdrawal_assets
    PROVE  VaultInv(w)
BY DEF VaultInv, validate_state

\* Burning into a ticket moves shares from the supply to the queue.
LEMMA RedeemInv ==
    ASSUME Inv, NEW u \in Users, NEW index \in TicketIndexes, NEW amount \in Nat,
           Redeem(u, index, amount)
    PROVE  Inv'
<1> DEFINE queued == vault.requested_withdrawal_shares + amount
           t == [shares_burned |-> amount, assets_owed |-> 0,
                 request_epoch |-> vault.report_epoch, request_slot |-> slot]
<1>1. VaultInv(vault) /\ RestOK /\ share_supply \in Nat /\ share_supply <= MaxU64
  BY StateFacts
<1>2. vault \in VaultRecord
  BY <1>1 DEF VaultInv
<1>3. vault.requested_withdrawal_shares \in Nat /\ vault.report_epoch \in Nat
  BY <1>2, RecordFields
<1>4. /\ amount <= share_supply /\ amount <= shares[u]
      /\ economic_share_supply <= MaxU64
      /\ share_supply' = share_supply - amount
      /\ shares' = [shares EXCEPT ![u] = shares[u] - amount]
      /\ tickets' = [tickets EXCEPT ![<<u, index>>] = t]
      /\ vault' = [vault EXCEPT !.requested_withdrawal_shares = queued]
      /\ UNCHANGED <<now, slot, config, paused, access, destinations, venue, forgiven, custody>>
  BY DEF Redeem, fits_u64, clock_vars, admin_vars, aux_vars
<1>5. VaultInv(vault')
  <2>1. queued \in U64
    BY <1>1, <1>3, <1>4, MathAssumption DEF economic_share_supply, U64
  <2> HIDE DEF queued
  <2>2. vault' \in VaultRecord
    BY <1>2, <1>4, <2>1 DEF VaultRecord
  <2> QED
    BY <1>1, <1>2, <1>4, <2>2, SamePricingInv DEF VaultRecord
<1>6. share_supply' \in U64 /\ shares' \in [Users -> U64]
  BY <1>1, <1>4, MathAssumption DEF RestOK, U64
<1>7. tickets' \in [TicketKeys -> Ticket] /\ \A k \in TicketKeys : tickets'[k].assets_owed = 0
  <2>1. t \in Ticket /\ t.assets_owed = 0
    BY <1>1, <1>3, <1>4, MathAssumption DEF Ticket, RestOK, U64
  <2> HIDE DEF t
  <2> QED
    BY <1>1, <1>4, <2>1 DEF RestOK
<1> QED
  BY <1>1, <1>4, <1>5, <1>6, <1>7, InvSplitNext DEF RestOK

\* Cancelling moves them back.
LEMMA CancelRedeemInv ==
    ASSUME Inv, NEW u \in Users, NEW index \in TicketIndexes, CancelRedeem(u, index)
    PROVE  Inv'
<1> DEFINE burned == tickets[<<u, index>>].shares_burned
           queued == vault.requested_withdrawal_shares - burned
<1>1. VaultInv(vault) /\ RestOK /\ share_supply \in Nat /\ share_supply <= MaxU64
  BY StateFacts
<1>2. vault \in VaultRecord
  BY <1>1 DEF VaultInv
<1>3. /\ vault.requested_withdrawal_shares \in Nat
      /\ vault.requested_withdrawal_shares <= MaxU64
  BY <1>2, RecordFields
<1>4. burned \in Nat
  <2>1. <<u, index>> \in TicketKeys
    BY DEF TicketKeys
  <2>2. tickets[<<u, index>>] \in Ticket
    BY <1>1, <2>1 DEF RestOK
  <2> QED
    BY <2>2, MathAssumption DEF Ticket, U64
<1>5. /\ burned <= vault.requested_withdrawal_shares
      /\ share_supply + burned <= MaxU64 /\ shares[u] + burned <= MaxU64
      /\ share_supply' = share_supply + burned
      /\ shares' = [shares EXCEPT ![u] = shares[u] + burned]
      /\ tickets' = [tickets EXCEPT ![<<u, index>>] = ClosedTicket]
      /\ vault' = [vault EXCEPT !.requested_withdrawal_shares = queued]
      /\ UNCHANGED <<now, slot, config, paused, access, destinations, venue, forgiven, custody>>
  BY DEF CancelRedeem, fits_u64, clock_vars, admin_vars, aux_vars
<1> HIDE DEF burned
<1>6. VaultInv(vault')
  <2>1. queued \in U64
    BY <1>3, <1>4, <1>5, MathAssumption DEF U64
  <2> HIDE DEF queued
  <2>2. vault' \in VaultRecord
    BY <1>2, <1>5, <2>1 DEF VaultRecord
  <2> QED
    BY <1>1, <1>2, <1>5, <2>2, SamePricingInv DEF VaultRecord
<1>7. share_supply' \in U64 /\ shares' \in [Users -> U64]
  BY <1>1, <1>4, <1>5, MathAssumption DEF RestOK, U64
<1>8. tickets' \in [TicketKeys -> Ticket] /\ \A k \in TicketKeys : tickets'[k].assets_owed = 0
  <2>1. ClosedTicket \in Ticket /\ ClosedTicket.assets_owed = 0
    BY MathAssumption DEF ClosedTicket, Ticket, U64
  <2> QED
    BY <1>1, <1>5, <2>1 DEF RestOK
<1> QED
  BY <1>1, <1>5, <1>6, <1>7, <1>8, InvSplitNext DEF RestOK

\* An atomic exit pays at most its entitlement out of effective NAV.
LEMMA AtomicRedeemInv ==
    ASSUME Inv, NEW u \in Users, NEW amount \in Nat, NEW c \in Custodies,
           NEW received \in Nat, AtomicRedeem(u, amount, c, received)
    PROVE  Inv'
<1> DEFINE fee == bps_ceil(received, config.atomic_redeem_fee_bps)
           payout == received - fee
<1>1. VaultInv(vault) /\ RestOK /\ share_supply \in Nat /\ share_supply <= MaxU64
  BY StateFacts
<1>2. fee \in 0..received
  <2>1. config.atomic_redeem_fee_bps \in 0..BPS_DENOMINATOR
    BY <1>1, VaultAssumption DEF RestOK, ConfigRecord, Bps
  <2> QED
    BY <2>1, BpsCeilOfPart
<1> HIDE DEF fee
<1>3. payout \in Nat /\ payout <= received
  BY <1>2
<1>4. /\ can_debit(vault, payout, now)
      /\ amount <= share_supply /\ amount <= shares[u]
      /\ custody[c] + received <= MaxU64
      /\ custody' = [custody EXCEPT ![c] = custody[c] + received - payout]
      /\ venue' = venue - received
      /\ share_supply' = share_supply - amount
      /\ shares' = [shares EXCEPT ![u] = shares[u] - amount]
      /\ vault' = debit_assets_at_effective(vault, payout, now)
      /\ UNCHANGED <<now, slot, config, paused, access, destinations, tickets, forgiven>>
  BY DEF AtomicRedeem, fits_u64, clock_vars, admin_vars, fee
<1> HIDE DEF payout
<1>5. VaultInv(vault')
  <2>1. vault \in VaultRecord /\ validate_state(vault) /\ now \in Nat
        /\ vault.pending_withdrawal_assets = 0
    BY <1>1 DEF VaultInv, RestOK
  <2> QED
    BY <1>3, <1>4, <2>1, DebitFacts DEF VaultInv
<1>6. /\ share_supply' \in U64 /\ shares' \in [Users -> U64]
      /\ custody' \in [Custodies -> U64] /\ venue' \in Int
  BY <1>1, <1>3, <1>4, MathAssumption DEF RestOK, U64
<1> QED
  BY <1>1, <1>4, <1>5, <1>6, InvSplitNext DEF RestOK

\* A batch pays out all that it strikes.
LEMMA ProcessWithdrawalsInv ==
    ASSUME Inv, NEW batch \in Batches, NEW c \in Custodies, ProcessWithdrawals(batch, c)
    PROVE  Inv'
<1> DEFINE end == Settlement(batch)
           paid == end.v.pending_withdrawal_assets - end.settled
<1>1. VaultInv(vault) /\ RestOK
  BY StateFacts
<1>2. /\ end.ok /\ end.settled <= custody[c] /\ validate_state(end.v)
      /\ custody' = [custody EXCEPT ![c] = custody[c] - end.settled]
      /\ tickets' = [k \in TicketKeys |->
                        IF k \in Range(batch) THEN ClosedTicket ELSE tickets[k]]
      /\ vault' = [end.v EXCEPT !.pending_withdrawal_assets = paid]
      /\ UNCHANGED <<now, slot, config, paused, access, destinations, share_supply, shares,
                     venue, forgiven>>
  BY DEF ProcessWithdrawals, clock_vars, admin_vars, share_vars, aux_vars
<1>3. /\ end.v \in VaultRecord
      /\ end.settled = end.v.pending_withdrawal_assets
  BY <1>2, SettlementSettles DEF Settles
<1> HIDE DEF end
<1>4. end.settled \in Nat /\ paid = 0
  BY <1>3, RecordFields
<1>5. VaultInv(vault')
  <2>1. paid \in U64
    BY <1>4, MathAssumption DEF U64
  <2> HIDE DEF paid
  <2>2. vault' \in VaultRecord
    BY <1>2, <1>3, <2>1 DEF VaultRecord
  <2>3. /\ vault'.pending_withdrawal_assets = paid
        /\ vault'.total_assets = end.v.total_assets
        /\ vault'.locked_profit = end.v.locked_profit
        /\ vault'.profit_unlock_start_ts = end.v.profit_unlock_start_ts
        /\ vault'.profit_unlock_end_ts = end.v.profit_unlock_end_ts
    BY <1>2, <1>3 DEF VaultRecord
  <2> QED
    BY <1>2, <1>4, <2>2, <2>3 DEF VaultInv, validate_state
<1>6. custody' \in [Custodies -> U64]
  BY <1>1, <1>2, <1>4, MathAssumption DEF RestOK, U64
<1>7. tickets' \in [TicketKeys -> Ticket] /\ \A k \in TicketKeys : tickets'[k].assets_owed = 0
  <2>1. ClosedTicket \in Ticket /\ ClosedTicket.assets_owed = 0
    BY MathAssumption DEF ClosedTicket, Ticket, U64
  <2> HIDE DEF ClosedTicket
  <2> QED
    BY <1>1, <1>2, <2>1 DEF RestOK
<1> QED
  BY <1>1, <1>2, <1>5, <1>6, <1>7, InvSplitNext DEF RestOK

\* A report recognizes what is left of the gross NAV after liabilities and fee.
LEMMA ReportInv ==
    ASSUME Inv, NEW external_value \in Nat, apply_nav_report(external_value)
    PROVE  Inv'
<1> DEFINE gross == (idle_base + external_value) - vault.fees_payable
                      - vault.pending_withdrawal_assets
           outcome == report_outcome(external_value)
           fees == vault.fees_payable + outcome.fee
           booked == [vault EXCEPT !.fees_payable = fees,
                                   !.high_watermark = outcome.high_watermark,
                                   !.report_epoch = vault.report_epoch + 1]
           applied == apply_reported_nav(booked, config, outcome.net, now)
<1>1. VaultInv(vault) /\ RestOK /\ economic_share_supply \in Nat
  BY StateFacts
<1>2. /\ vault \in VaultRecord /\ validate_state(vault)
      /\ vault.pending_withdrawal_assets = 0 /\ now \in Nat
      /\ config \in ConfigRecord
  BY <1>1, VaultAssumption DEF VaultInv, RestOK
<1>3. /\ vault.fees_payable \in Nat /\ vault.high_watermark \in U64
      /\ vault.report_epoch \in Nat
  BY <1>2, RecordFields
<1>4. idle_base \in Nat
  <2>1. /\ ata(config.deposit_sub_account) \in Custodies
        /\ ata(config.withdraw_sub_account) \in Custodies
    BY <1>2, VaultAssumption DEF ata, ConfigRecord
  <2> QED
    BY <1>1, <2>1, MathAssumption DEF RestOK, U64, idle_base
<1>5. /\ idle_base + external_value <= MaxU64
      /\ vault.fees_payable + vault.pending_withdrawal_assets <= idle_base + external_value
      /\ performance_fee_fits(gross, economic_share_supply)
      /\ fees <= MaxU64
      /\ vault' = [applied EXCEPT !.last_update_ts = now]
      /\ validate_state(vault')
      /\ venue' = external_value - other_base
      /\ forgiven' = 0
      /\ UNCHANGED <<now, slot, config, paused, access, destinations, share_supply, shares,
                     tickets, custody>>
  <2>1. /\ fits_u64(idle_base + external_value)
        /\ vault.fees_payable + vault.pending_withdrawal_assets <= idle_base + external_value
        /\ performance_fee_fits(gross, economic_share_supply)
        /\ fits_u64(fees)
    BY DEF apply_nav_report
  <2>2. /\ validate_state(reported_vault(outcome))
        /\ vault' = reported_vault(outcome)
    BY DEF apply_nav_report
  <2>3. /\ venue' = external_value - other_base
        /\ forgiven' = 0
    BY DEF apply_nav_report
  <2>4. UNCHANGED <<clock_vars, admin_vars, share_vars, tickets, custody>>
    BY DEF apply_nav_report
  <2>5. reported_vault(outcome) = [applied EXCEPT !.last_update_ts = now]
    BY DEF reported_vault
  <2> HIDE DEF gross, outcome, fees, applied
  <2> QED
    BY <2>1, <2>2, <2>3, <2>4, <2>5 DEF fits_u64, clock_vars, admin_vars, share_vars
<1>6. gross \in U64 /\ gross \in Nat
  BY <1>2, <1>3, <1>4, <1>5, MathAssumption DEF U64
<1>7. outcome = performance_fee_for_nav(gross, economic_share_supply, vault.high_watermark,
                                        config.performance_fee_bps)
  BY DEF report_outcome
<1> HIDE DEF gross, outcome
<1>8. /\ outcome.fee \in 0..gross /\ outcome.net = gross - outcome.fee
      /\ outcome.high_watermark \in U64
  <2>1. config.performance_fee_bps \in 0..BPS_DENOMINATOR
    BY <1>2 DEF ConfigRecord, Bps
  <2> QED
    BY <1>1, <1>3, <1>5, <1>6, <1>7, <2>1, PerformanceFeeFacts
<1>9. /\ fees \in U64 /\ outcome.net \in U64 /\ vault.report_epoch + 1 \in Nat
  BY <1>3, <1>5, <1>6, <1>8, MathAssumption DEF U64
<1> HIDE DEF fees
<1>10. /\ booked \in VaultRecord /\ validate_state(booked)
       /\ booked.pending_withdrawal_assets = 0
  <2>1. booked \in VaultRecord
    BY <1>2, <1>8, <1>9 DEF VaultRecord
  <2>2. /\ booked.total_assets = vault.total_assets
        /\ booked.locked_profit = vault.locked_profit
        /\ booked.profit_unlock_start_ts = vault.profit_unlock_start_ts
        /\ booked.profit_unlock_end_ts = vault.profit_unlock_end_ts
        /\ booked.pending_withdrawal_assets = vault.pending_withdrawal_assets
    BY <1>2 DEF VaultRecord
  <2> HIDE DEF booked
  <2> QED
    BY <1>2, <2>1, <2>2 DEF validate_state
<1> HIDE DEF booked
<1>11. applied \in VaultRecord /\ applied.pending_withdrawal_assets = 0
  <2>1. applied = apply_reported_nav(booked, config, outcome.net, now)
    OBVIOUS
  <2> HIDE DEF applied
  <2> QED
    BY <1>2, <1>9, <1>10, <2>1, ReportedFacts
<1> HIDE DEF applied
<1>12. VaultInv(vault')
  <2>1. vault' \in VaultRecord /\ vault'.pending_withdrawal_assets = 0
    BY <1>2, <1>5, <1>11 DEF VaultRecord
  <2> QED
    BY <1>5, <2>1 DEF VaultInv
<1>13. venue' \in Int
  <2> DEFINE rest == Custodies \ {ata(config.deposit_sub_account),
                                  ata(config.withdraw_sub_account)}
  <2>1. IsFiniteSet(rest)
    BY VaultAssumption, FS_Subset
  <2>2. \A c \in rest : custody[c] \in Nat
    BY <1>1, MathAssumption DEF RestOK, U64
  <2>3. other_base = SumFunctionOnSet(custody, rest)
    BY DEF other_base
  <2> HIDE DEF rest
  <2> QED
    BY <1>5, <2>1, <2>2, <2>3, SumNat
<1> QED
  BY <1>1, <1>5, <1>12, <1>13, InvSplitNext DEF RestOK

\* Moves between custody and external accounts keep cost basis and balances u64s.
LEMMA ExternalInv ==
    ASSUME Inv, NEW c \in Custodies, NEW amount \in Nat,
           \/ \E d \in Destinations : InvestExternal(d, c, amount)
           \/ ReturnExternal(c, amount)
    PROVE  Inv'
<1>1. VaultInv(vault) /\ RestOK
  BY StateFacts
<1>2. vault \in VaultRecord
  BY <1>1 DEF VaultInv
<1>3. vault.external_assets \in Nat
  BY <1>2, RecordFields
<1>4. custody[c] \in Nat /\ custody[c] <= MaxU64
  BY <1>1, MathAssumption DEF RestOK, U64
<1>5. PICK basis \in U64, balance \in U64, outside \in Int :
        /\ vault' = [vault EXCEPT !.external_assets = basis]
        /\ custody' = [custody EXCEPT ![c] = balance]
        /\ venue' = outside
        /\ UNCHANGED <<clock_vars, admin_vars, share_vars, tickets, forgiven>>
  <2>1. CASE \E d \in Destinations : InvestExternal(d, c, amount)
    <3> DEFINE basis == vault.external_assets + amount
               balance == custody[c] - amount
    <3>1. /\ amount <= custody[c] /\ basis <= MaxU64
          /\ vault' = [vault EXCEPT !.external_assets = basis]
          /\ custody' = [custody EXCEPT ![c] = balance]
          /\ venue' = venue + amount
          /\ UNCHANGED <<clock_vars, admin_vars, share_vars, tickets, forgiven>>
      BY <2>1 DEF InvestExternal, fits_u64
    <3>2. basis \in U64 /\ balance \in U64 /\ venue + amount \in Int
      BY <1>1, <1>3, <1>4, <3>1, MathAssumption DEF RestOK, U64
    <3> QED
      BY <3>1, <3>2
  <2>2. CASE ReturnExternal(c, amount)
    <3> DEFINE basis == vault.external_assets - amount
               balance == custody[c] + amount
    <3>1. /\ amount <= vault.external_assets /\ balance <= MaxU64
          /\ vault' = [vault EXCEPT !.external_assets = basis]
          /\ custody' = [custody EXCEPT ![c] = balance]
          /\ venue' = venue - amount
          /\ UNCHANGED <<clock_vars, admin_vars, share_vars, tickets, forgiven>>
      BY <2>2 DEF ReturnExternal, fits_u64
    <3>2. basis \in U64 /\ balance \in U64 /\ venue - amount \in Int
      <4>1. vault.external_assets <= MaxU64
        BY <1>2, RecordFields
      <4> QED
        BY <1>1, <1>3, <1>4, <3>1, <4>1, MathAssumption DEF RestOK, U64
    <3> QED
      BY <3>1, <3>2
  <2> QED
    BY <2>1, <2>2
<1>6. VaultInv(vault')
  <2>1. vault' \in VaultRecord
    BY <1>2, <1>5 DEF VaultRecord
  <2> QED
    BY <1>1, <1>2, <1>5, <2>1, SamePricingInv DEF VaultRecord
<1>7. custody' \in [Custodies -> U64] /\ venue' \in Int
  BY <1>1, <1>5 DEF RestOK
<1> QED
  BY <1>1, <1>5, <1>6, <1>7, InvSplitNext
     DEF RestOK, clock_vars, admin_vars, share_vars

\* Fees are paid or forgiven out of the liability that was booked.
LEMMA FeesInv ==
    ASSUME Inv, NEW amount \in Nat,
           \/ \E c \in Custodies : CollectFees(c, amount)
           \/ WriteDownFees(amount)
    PROVE  Inv'
<1> DEFINE fees == vault.fees_payable - amount
<1>1. VaultInv(vault) /\ RestOK
  BY StateFacts
<1>2. vault \in VaultRecord
  BY <1>1 DEF VaultInv
<1>3. vault.fees_payable \in Nat /\ vault.fees_payable <= MaxU64
  BY <1>2, RecordFields
<1>4. /\ amount <= vault.fees_payable
      /\ vault' = [vault EXCEPT !.fees_payable = fees]
      /\ UNCHANGED <<clock_vars, admin_vars, share_vars, tickets, venue>>
  BY DEF CollectFees, WriteDownFees, aux_vars
<1>5. custody' \in [Custodies -> U64] /\ forgiven' \in Nat
  <2>1. CASE WriteDownFees(amount)
    BY <1>1, <2>1 DEF WriteDownFees, RestOK
  <2>2. CASE \E c \in Custodies : CollectFees(c, amount)
    <3>1. PICK c \in Custodies : CollectFees(c, amount)
      BY <2>2
    <3>2. /\ amount <= custody[c] /\ custody' = [custody EXCEPT ![c] = custody[c] - amount]
          /\ forgiven' = forgiven
      BY <3>1 DEF CollectFees, aux_vars
    <3>3. custody[c] - amount \in U64
      BY <1>1, <3>2, MathAssumption DEF RestOK, U64
    <3> QED
      BY <1>1, <3>2, <3>3 DEF RestOK
  <2> QED
    BY <2>1, <2>2
<1>6. VaultInv(vault')
  <2>1. fees \in U64
    BY <1>3, <1>4, MathAssumption DEF U64
  <2> HIDE DEF fees
  <2>2. vault' \in VaultRecord
    BY <1>2, <1>4, <2>1 DEF VaultRecord
  <2> QED
    BY <1>1, <1>2, <1>4, <2>2, SamePricingInv DEF VaultRecord
<1> QED
  BY <1>1, <1>4, <1>5, <1>6, InvSplitNext DEF RestOK, clock_vars, admin_vars, share_vars

\* What an unwind may return is a natural.
LEMMA ReceivedNat ==
    ASSUME Inv, NEW amount \in Nat,
           NEW received \in 0..assets_for_shares(amount, effective, economic_share_supply)
    PROVE  received \in Nat
<1>1. effective \in Nat /\ economic_share_supply \in Nat
  BY StateFacts
<1>2. assets_for_shares(amount, effective, economic_share_supply) \in Nat
  BY <1>1, ExitIsCovered
<1> QED
  BY <1>2

\* Every step keeps the invariant.
LEMMA NextInv == Inv /\ [Next]_vars => Inv'
<1> SUFFICES ASSUME Inv, [Next]_vars PROVE Inv'
  OBVIOUS
<1>1. ASSUME NEW u \in Users, NEW amount \in DepositAmounts, Deposit(u, amount) PROVE Inv'
  <2> DEFINE c == ata(config.deposit_sub_account)
  <2>1. VaultInv(vault) /\ RestOK
    BY StateFacts
  <2>2. amount \in Nat /\ c \in Custodies
    BY <2>1, VaultAssumption DEF ata, RestOK, ConfigRecord
  <2>3. /\ execute_deposit(u, amount) /\ custody[c] + amount <= MaxU64
        /\ custody' = [custody EXCEPT ![c] = custody[c] + amount] /\ venue' = venue
    BY <1>1 DEF Deposit, fits_u64
  <2> HIDE DEF c
  <2>4. custody' \in [Custodies -> U64] /\ venue' \in Int
    BY <2>1, <2>2, <2>3, MathAssumption DEF RestOK, U64
  <2> QED
    BY <2>2, <2>3, <2>4, ExecuteDepositInv
<1>2. ASSUME NEW u \in Users, NEW base_atoms \in AssetValues, DepositAsset(u, base_atoms)
      PROVE  Inv'
  <2>1. RestOK /\ base_atoms \in Nat
    BY StateFacts, VaultAssumption
  <2>2. custody' \in [Custodies -> U64] /\ venue' \in Int /\ execute_deposit(u, base_atoms)
    BY <1>2, <2>1 DEF DepositAsset, RestOK
  <2> QED
    BY <2>1, <2>2, ExecuteDepositInv
<1>3. ASSUME NEW u \in Users, NEW i \in TicketIndexes, NEW amount \in ShareAmounts,
             Redeem(u, i, amount)
      PROVE  Inv'
  BY <1>3, VaultAssumption, RedeemInv
<1>4. ASSUME NEW u \in Users, NEW i \in TicketIndexes, CancelRedeem(u, i) PROVE Inv'
  BY <1>4, CancelRedeemInv
<1>5. ASSUME NEW u \in Users, NEW amount \in AtomicAmounts, NEW c \in Custodies,
             NEW received \in 0..assets_for_shares(amount, effective, economic_share_supply),
             AtomicRedeem(u, amount, c, received)
      PROVE  Inv'
  <2>1. amount \in Nat
    BY VaultAssumption
  <2>2. received \in Nat
    BY <2>1, ReceivedNat
  <2> QED
    BY <1>5, <2>1, <2>2, AtomicRedeemInv
<1>6. ASSUME NEW batch \in Batches, NEW c \in Custodies, ProcessWithdrawals(batch, c)
      PROVE  Inv'
  BY <1>6, ProcessWithdrawalsInv
<1>7. ASSUME NEW value \in ExternalValues, ReportNav(value) \/ RecoverNav(value) PROVE Inv'
  BY <1>7, VaultAssumption, ReportInv DEF ReportNav, RecoverNav
<1>8. ASSUME NEW c \in Custodies, NEW amount \in MoveAmounts,
             \/ \E d \in Destinations : InvestExternal(d, c, amount)
             \/ ReturnExternal(c, amount)
      PROVE  Inv'
  BY <1>8, VaultAssumption, ExternalInv
<1>9. ASSUME NEW amount \in MoveAmounts,
             \/ \E c \in Custodies : CollectFees(c, amount)
             \/ WriteDownFees(amount)
      PROVE  Inv'
  BY <1>9, VaultAssumption, FeesInv
<1>10. ASSUME \/ \E flags \in PauseSettings : SetPauseFlags(flags)
              \/ \E mode \in AccessSettings : SetVaultAccess(mode)
              \/ \E cfg \in Configs : UpdateVaultConfig(cfg)
              \/ \E d \in Destinations : RegisterExternalDestination(d)
              \/ \E d \in Destinations : RevokeExternalDestination(d)
       PROVE  Inv'
  <2>1. VaultInv(vault) /\ RestOK
    BY StateFacts
  <2>2. /\ UNCHANGED <<clock_vars, share_vars, aux_vars, vault, tickets, custody>>
        /\ config' \in Configs /\ paused' \in PauseRecord /\ access' \in AccessRecord
        /\ destinations' \subseteq Destinations
    BY <1>10, <2>1, VaultAssumption
       DEF SetPauseFlags, SetVaultAccess, UpdateVaultConfig, RegisterExternalDestination,
           RevokeExternalDestination, RestOK
  <2> QED
    BY <2>1, <2>2, InvSplitNext DEF RestOK, clock_vars, share_vars, aux_vars
<1>11. CASE AdvanceClock
  <2>1. VaultInv(vault) /\ RestOK
    BY StateFacts
  <2>2. /\ now' \in Nat /\ slot' \in Nat
        /\ UNCHANGED <<admin_vars, share_vars, aux_vars, vault, tickets, custody>>
    BY <1>11, <2>1, VaultAssumption DEF AdvanceClock, RestOK
  <2> QED
    BY <2>1, <2>2, InvSplitNext DEF RestOK, admin_vars, share_vars, aux_vars
<1>12. CASE UNCHANGED vars
  BY <1>12, StateFacts, InvSplitNext
     DEF RestOK, vars, clock_vars, admin_vars, share_vars, aux_vars
<1>13. CASE UserStep
  BY <1>1, <1>2, <1>3, <1>4, <1>5, <1>13 DEF UserStep
<1>14. CASE AuthorityStep
  BY <1>6, <1>7, <1>8, <1>14 DEF AuthorityStep
<1>15. CASE AdminStep
  BY <1>9, <1>10, <1>15 DEF AdminStep
<1> QED
  BY <1>11, <1>12, <1>13, <1>14, <1>15 DEF Next

(***************************************************************************)
(* Every variable keeps its type in every behavior: no amount leaves u64   *)
(* and no subtraction goes below zero.                                     *)
(***************************************************************************)
THEOREM TypeCorrect == Spec => []TypeOK
<1>1. Inv => TypeOK
  BY DEF Inv
<1> QED
  BY <1>1, InitInv, NextInv, PTL DEF Spec

(***************************************************************************)
(* No instruction ever stores an account that the next load_checked would  *)
(* refuse, the unvalidated stores of Deposit, Redeem and CancelRedeem      *)
(* included.                                                               *)
(***************************************************************************)
THEOREM AlwaysLoadable == Spec => []VaultStaysLoadable
<1>1. Inv => VaultStaysLoadable
  BY DEF Inv
<1> QED
  BY <1>1, InitInv, NextInv, PTL DEF Spec

(***************************************************************************)
(* ProcessWithdrawals leaves nothing struck and unpaid behind, whatever    *)
(* the batch: pending_withdrawal_assets is zero between instructions.      *)
(***************************************************************************)
THEOREM StrikesArePaid == Spec => []NothingStruckAtRest
<1>1. Inv => NothingStruckAtRest
  BY DEF Inv
<1> QED
  BY <1>1, InitInv, NextInv, PTL DEF Spec

-----------------------------------------------------------------------------
(* The share price.                                                          *)

\* The step leaves (effective + 1) / (economic supply + VirtualShares) where it
\* was or raises it.
PriceStep ==
    (effective' + 1) * (economic_share_supply + VirtualShares)
      >= (effective + 1) * (economic_share_supply' + VirtualShares)

\* What pricing reads is the same in the next state.
LEMMA SamePrice ==
    ASSUME Inv, now' = now, share_supply' = share_supply,
           vault'.total_assets = vault.total_assets,
           vault'.locked_profit = vault.locked_profit,
           vault'.profit_unlock_start_ts = vault.profit_unlock_start_ts,
           vault'.profit_unlock_end_ts = vault.profit_unlock_end_ts,
           vault'.requested_withdrawal_shares = vault.requested_withdrawal_shares
    PROVE  PriceStep
<1>1. effective \in Nat /\ economic_share_supply \in Nat
  BY StateFacts
<1>2. effective' = effective /\ economic_share_supply' = economic_share_supply
  BY DEF effective, economic_share_supply, effective_total_assets, remaining_locked_profit
<1> QED
  BY <1>1, <1>2, MathAssumption DEF PriceStep

\* A deposit: shares are minted at the effective price, rounded down.
LEMMA DepositPrice ==
    ASSUME Inv, NEW u \in Users, NEW base_atoms \in Nat, execute_deposit(u, base_atoms)
    PROVE  PriceStep
<1> DEFINE minted == shares_for_deposit(base_atoms, effective, economic_share_supply)
<1>1. /\ effective \in Nat /\ economic_share_supply \in Nat /\ share_supply \in Nat
      /\ vault \in VaultRecord /\ validate_state(vault) /\ now \in Nat
  BY StateFacts DEF VaultInv, RestOK
<1>2. /\ minted \in Nat
      /\ (effective + base_atoms + 1) * (economic_share_supply + VirtualShares)
           >= (effective + 1) * (economic_share_supply + minted + VirtualShares)
  BY <1>1, EntryKeepsPrice
<1>3. /\ share_supply' = share_supply + minted /\ now' = now
      /\ vault' = [vault EXCEPT !.total_assets = vault.total_assets + base_atoms]
  BY DEF execute_deposit, total_assets_after_deposit, clock_vars
<1> HIDE DEF minted
<1>4. /\ vault'.total_assets = vault.total_assets + base_atoms
      /\ vault'.locked_profit = vault.locked_profit
      /\ vault'.profit_unlock_start_ts = vault.profit_unlock_start_ts
      /\ vault'.profit_unlock_end_ts = vault.profit_unlock_end_ts
      /\ vault'.requested_withdrawal_shares = vault.requested_withdrawal_shares
  BY <1>1, <1>3 DEF VaultRecord
<1>5. remaining_locked_profit(vault', now') = remaining_locked_profit(vault, now)
  BY <1>3, <1>4 DEF remaining_locked_profit
<1>6. /\ vault.total_assets \in Nat /\ vault.locked_profit \in Nat
      /\ vault.requested_withdrawal_shares \in Nat
  BY <1>1, RecordFields
<1>7. remaining_locked_profit(vault, now) \in Nat
  BY <1>1, <1>6, RemainingBounds
<1>8. effective' = effective + base_atoms
  BY <1>4, <1>5, <1>6, <1>7 DEF effective, effective_total_assets
<1>9. economic_share_supply' = economic_share_supply + minted
  BY <1>1, <1>2, <1>3, <1>4, <1>6 DEF economic_share_supply
<1> QED
  BY <1>2, <1>8, <1>9 DEF PriceStep

\* Burning into a ticket and minting back leave the economic supply alone.
LEMMA TicketPrice ==
    ASSUME Inv, NEW u \in Users, NEW i \in TicketIndexes,
           \/ \E amount \in Nat : Redeem(u, i, amount)
           \/ CancelRedeem(u, i)
    PROVE  PriceStep
<1>1. /\ effective \in Nat /\ economic_share_supply \in Nat /\ share_supply \in Nat
      /\ vault \in VaultRecord /\ RestOK
  BY StateFacts DEF VaultInv
<1>2. vault.requested_withdrawal_shares \in Nat
  BY <1>1, RecordFields
<1>3. PICK moved \in Int :
        /\ share_supply' = share_supply - moved /\ now' = now
        /\ vault' = [vault EXCEPT !.requested_withdrawal_shares
                                    = vault.requested_withdrawal_shares + moved]
  <2>1. ASSUME NEW amount \in Nat, Redeem(u, i, amount)
        PROVE  /\ share_supply' = share_supply - amount /\ now' = now
               /\ vault' = [vault EXCEPT !.requested_withdrawal_shares
                                           = vault.requested_withdrawal_shares + amount]
    BY <2>1 DEF Redeem, clock_vars
  <2>2. CASE CancelRedeem(u, i)
    <3> DEFINE burned == tickets[<<u, i>>].shares_burned
    <3>1. burned \in Nat
      <4>1. <<u, i>> \in TicketKeys
        BY DEF TicketKeys
      <4>2. tickets[<<u, i>>] \in Ticket
        BY <1>1, <4>1 DEF RestOK
      <4> QED
        BY <4>2, MathAssumption DEF Ticket, U64
    <3>2. /\ share_supply' = share_supply + burned /\ now' = now
          /\ vault' = [vault EXCEPT !.requested_withdrawal_shares
                                      = vault.requested_withdrawal_shares - burned]
      BY <2>2 DEF CancelRedeem, clock_vars
    <3> HIDE DEF burned
    <3>3. /\ share_supply + burned = share_supply - (-burned)
          /\ vault.requested_withdrawal_shares - burned
               = vault.requested_withdrawal_shares + (-burned)
          /\ -burned \in Int
      BY <1>1, <1>2, <3>1
    <3> QED
      BY <3>2, <3>3
  <2> QED
    BY <2>1, <2>2
<1>4. /\ vault'.total_assets = vault.total_assets
      /\ vault'.locked_profit = vault.locked_profit
      /\ vault'.profit_unlock_start_ts = vault.profit_unlock_start_ts
      /\ vault'.profit_unlock_end_ts = vault.profit_unlock_end_ts
      /\ vault'.requested_withdrawal_shares = vault.requested_withdrawal_shares + moved
  BY <1>1, <1>3 DEF VaultRecord
<1>5. effective' = effective
  BY <1>3, <1>4 DEF effective, effective_total_assets, remaining_locked_profit
<1>6. economic_share_supply' = economic_share_supply
  BY <1>1, <1>2, <1>3, <1>4 DEF economic_share_supply
<1> QED
  BY <1>1, <1>5, <1>6, MathAssumption DEF PriceStep

\* An atomic exit pays at most the value of the shares it burns.
LEMMA AtomicRedeemPrice ==
    ASSUME Inv, NEW u \in Users, NEW amount \in Nat, NEW c \in Custodies,
           NEW received \in Nat, AtomicRedeem(u, amount, c, received)
    PROVE  PriceStep
<1> DEFINE fee == bps_ceil(received, config.atomic_redeem_fee_bps)
           payout == received - fee
<1>1. /\ effective \in Nat /\ economic_share_supply \in Nat /\ share_supply \in Nat
      /\ vault \in VaultRecord /\ validate_state(vault) /\ RestOK
  BY StateFacts DEF VaultInv
<1>2. fee \in 0..received
  <2>1. config.atomic_redeem_fee_bps \in 0..BPS_DENOMINATOR
    BY <1>1, VaultAssumption DEF RestOK, ConfigRecord, Bps
  <2> QED
    BY <2>1, BpsCeilOfPart
<1> HIDE DEF fee
<1>3. payout \in Nat /\ payout <= received
  BY <1>2
<1>4. /\ can_debit(vault, payout, now)
      /\ received <= assets_for_shares(amount, effective, economic_share_supply)
      /\ share_supply' = share_supply - amount
      /\ vault' = debit_assets_at_effective(vault, payout, now)
      /\ now' = now
  BY DEF AtomicRedeem, clock_vars, fee
<1> HIDE DEF payout
<1>5. /\ effective' = effective - payout
      /\ vault'.requested_withdrawal_shares = vault.requested_withdrawal_shares
  BY <1>1, <1>3, <1>4, DebitFacts DEF effective, RestOK
<1>6. economic_share_supply' = economic_share_supply - amount
  <2>1. vault.requested_withdrawal_shares \in Nat
    BY <1>1, RecordFields
  <2> QED
    BY <1>1, <1>4, <1>5, <2>1 DEF economic_share_supply
<1>7. payout <= assets_for_shares(amount, effective, economic_share_supply)
  <2>1. assets_for_shares(amount, effective, economic_share_supply) \in Nat
    BY <1>1, ExitIsCovered
  <2> QED
    BY <1>3, <1>4, <2>1
<1>8. (effective - payout + 1) * (economic_share_supply + VirtualShares)
        >= (effective + 1) * (economic_share_supply - amount + VirtualShares)
  BY <1>1, <1>3, <1>7, ExitKeepsPrice
<1> QED
  BY <1>5, <1>6, <1>8 DEF PriceStep

\* A batch: every strike in it keeps the price, and paying it out does not count.
LEMMA ProcessWithdrawalsPrice ==
    ASSUME Inv, NEW batch \in Batches, NEW c \in Custodies, ProcessWithdrawals(batch, c)
    PROVE  PriceStep
<1> DEFINE end == Settlement(batch)
<1>1. /\ end.ok /\ now' = now /\ share_supply' = share_supply
      /\ vault' = [end.v EXCEPT !.pending_withdrawal_assets
                                  = end.v.pending_withdrawal_assets - end.settled]
  BY DEF ProcessWithdrawals, clock_vars, share_vars
<1>2. end.v \in VaultRecord /\ PriceKept(vault, end.v)
  BY <1>1, SettlementSettles DEF Settles
<1> HIDE DEF end
<1>3. /\ vault'.total_assets = end.v.total_assets
      /\ vault'.locked_profit = end.v.locked_profit
      /\ vault'.profit_unlock_start_ts = end.v.profit_unlock_start_ts
      /\ vault'.profit_unlock_end_ts = end.v.profit_unlock_end_ts
      /\ vault'.requested_withdrawal_shares = end.v.requested_withdrawal_shares
  BY <1>1, <1>2 DEF VaultRecord
<1>4. effective' = effective_total_assets(end.v, now)
  BY <1>1, <1>3 DEF effective, effective_total_assets, remaining_locked_profit
<1>5. economic_share_supply' = share_supply + end.v.requested_withdrawal_shares
  BY <1>1, <1>3 DEF economic_share_supply
<1> QED
  BY <1>2, <1>4, <1>5 DEF PriceKept, PriceStep, effective, economic_share_supply

\* As time passes locked profit melts into the price.
LEMMA AdvanceClockPrice ==
    ASSUME Inv, AdvanceClock
    PROVE  PriceStep
<1>1. /\ effective \in Nat /\ economic_share_supply \in Nat
      /\ vault \in VaultRecord /\ validate_state(vault) /\ now \in Nat
  BY StateFacts DEF VaultInv, RestOK
<1>2. now' \in Nat /\ now <= now' /\ vault' = vault /\ share_supply' = share_supply
  BY <1>1, VaultAssumption DEF AdvanceClock, share_vars
<1>3. vault.total_assets \in Nat /\ vault.locked_profit \in Nat
  BY <1>1, RecordFields
<1>4. /\ remaining_locked_profit(vault, now') \in Nat
      /\ remaining_locked_profit(vault, now) \in Nat
      /\ remaining_locked_profit(vault, now') <= remaining_locked_profit(vault, now)
  BY <1>1, <1>2, <1>3, RemainingBounds, RemainingFalls
<1>5. PICK later \in Nat : effective' = later /\ effective <= later
  <2> DEFINE later == vault.total_assets - remaining_locked_profit(vault, now')
  <2>1. effective' = later /\ effective = vault.total_assets - remaining_locked_profit(vault, now)
    BY <1>2 DEF effective, effective_total_assets
  <2>2. later \in Nat /\ effective <= later
    BY <1>1, <1>3, <1>4, <2>1
  <2> QED
    BY <2>1, <2>2
<1>6. economic_share_supply' = economic_share_supply
  BY <1>2 DEF economic_share_supply
<1>7. (effective + 1) * (economic_share_supply + VirtualShares)
        <= (later + 1) * (economic_share_supply + VirtualShares)
  <2>1. /\ effective + 1 \in Nat /\ later + 1 \in Nat /\ effective + 1 <= later + 1
        /\ economic_share_supply + VirtualShares \in Nat
    BY <1>1, <1>5, MathAssumption
  <2> QED
    BY <2>1, ProductMonotone
<1> QED
  BY <1>1, <1>5, <1>6, <1>7, MathAssumption DEF PriceStep

(***************************************************************************)
(* Only a NAV report can lower the share price: deposits, cancellations,   *)
(* batched and atomic exits, custody moves, fees, configuration and the    *)
(* clock never do, for every amount and every rounding.                    *)
(***************************************************************************)
THEOREM PriceNeverFallsBetweenReports == Spec => OnlyReportsLowerPrice
<1>1. ASSUME Inv, [Next]_vars
      PROVE  [~IsReport =>
                (effective' + 1) * (economic_share_supply + VirtualShares)
                  >= (effective + 1) * (economic_share_supply' + VirtualShares)]_vars
  <2> SUFFICES ASSUME Next, ~IsReport PROVE PriceStep
    BY <1>1 DEF PriceStep
  <2>1. vault \in VaultRecord
    BY <1>1, StateFacts DEF VaultInv
  <2>2. ASSUME NEW u \in Users, NEW amount \in DepositAmounts, Deposit(u, amount)
        PROVE  PriceStep
    BY <1>1, <2>2, VaultAssumption, DepositPrice DEF Deposit
  <2>3. ASSUME NEW u \in Users, NEW base_atoms \in AssetValues, DepositAsset(u, base_atoms)
        PROVE  PriceStep
    BY <1>1, <2>3, VaultAssumption, DepositPrice DEF DepositAsset
  <2>4. ASSUME NEW u \in Users, NEW i \in TicketIndexes,
               \/ \E amount \in ShareAmounts : Redeem(u, i, amount)
               \/ CancelRedeem(u, i)
        PROVE  PriceStep
    <3>1. \/ \E amount \in Nat : Redeem(u, i, amount)
          \/ CancelRedeem(u, i)
      BY <2>4, VaultAssumption
    <3> QED
      BY <1>1, <3>1, TicketPrice
  <2>5. ASSUME NEW u \in Users, NEW amount \in AtomicAmounts, NEW c \in Custodies,
               NEW received \in 0..assets_for_shares(amount, effective, economic_share_supply),
               AtomicRedeem(u, amount, c, received)
        PROVE  PriceStep
    <3>1. amount \in Nat
      BY VaultAssumption
    <3>2. received \in Nat
      BY <1>1, <3>1, ReceivedNat
    <3> QED
      BY <1>1, <2>5, <3>1, <3>2, AtomicRedeemPrice
  <2>6. ASSUME NEW batch \in Batches, NEW c \in Custodies, ProcessWithdrawals(batch, c)
        PROVE  PriceStep
    BY <1>1, <2>6, ProcessWithdrawalsPrice
  <2>7. ASSUME NEW value \in ExternalValues, ReportNav(value) \/ RecoverNav(value)
        PROVE  FALSE
    <3> DEFINE w == reported_vault(report_outcome(value))
    <3>1. vault' = w
      BY <2>7 DEF ReportNav, RecoverNav, apply_nav_report
    <3>2. w.report_epoch = vault.report_epoch + 1
      BY <2>1 DEF reported_vault, apply_reported_nav, VaultRecord
    <3> QED
      BY <2>1, <3>1, <3>2, RecordFields DEF IsReport
  <2>8. ASSUME NEW c \in Custodies, NEW amount \in MoveAmounts,
               \/ \E d \in Destinations : InvestExternal(d, c, amount)
               \/ ReturnExternal(c, amount)
               \/ CollectFees(c, amount)
        PROVE  PriceStep
    <3>1. now' = now /\ share_supply' = share_supply
      BY <2>8 DEF InvestExternal, ReturnExternal, CollectFees, clock_vars, share_vars
    <3>2. \/ \E x : vault' = [vault EXCEPT !.external_assets = x]
          \/ \E x : vault' = [vault EXCEPT !.fees_payable = x]
      BY <2>8 DEF InvestExternal, ReturnExternal, CollectFees
    <3>3. /\ vault'.total_assets = vault.total_assets
          /\ vault'.locked_profit = vault.locked_profit
          /\ vault'.profit_unlock_start_ts = vault.profit_unlock_start_ts
          /\ vault'.profit_unlock_end_ts = vault.profit_unlock_end_ts
          /\ vault'.requested_withdrawal_shares = vault.requested_withdrawal_shares
      BY <2>1, <3>2 DEF VaultRecord
    <3> QED
      BY <1>1, <3>1, <3>3, SamePrice
  <2>9. ASSUME \/ \E flags \in PauseSettings : SetPauseFlags(flags)
               \/ \E mode \in AccessSettings : SetVaultAccess(mode)
               \/ \E cfg \in Configs : UpdateVaultConfig(cfg)
               \/ \E d \in Destinations : RegisterExternalDestination(d)
               \/ \E d \in Destinations : RevokeExternalDestination(d)
        PROVE  PriceStep
    <3>1. now' = now /\ share_supply' = share_supply /\ vault' = vault
      BY <2>9 DEF SetPauseFlags, SetVaultAccess, UpdateVaultConfig,
                  RegisterExternalDestination, RevokeExternalDestination,
                  clock_vars, share_vars
    <3> QED
      BY <1>1, <3>1, SamePrice
  <2>10. CASE AdvanceClock
    BY <1>1, <2>10, AdvanceClockPrice
  <2>11. CASE UserStep
    BY <2>2, <2>3, <2>4, <2>5, <2>11 DEF UserStep
  <2>12. CASE AuthorityStep
    BY <2>6, <2>7, <2>8, <2>12 DEF AuthorityStep
  <2>13. CASE AdminStep
    <3>1. CASE \E amount \in MoveAmounts : WriteDownFees(amount)
      <4>1. /\ now' = now /\ share_supply' = share_supply
            /\ \E y : vault' = [vault EXCEPT !.fees_payable = y]
        BY <3>1 DEF WriteDownFees, clock_vars, share_vars
      <4>2. /\ vault'.total_assets = vault.total_assets
            /\ vault'.locked_profit = vault.locked_profit
            /\ vault'.profit_unlock_start_ts = vault.profit_unlock_start_ts
            /\ vault'.profit_unlock_end_ts = vault.profit_unlock_end_ts
            /\ vault'.requested_withdrawal_shares = vault.requested_withdrawal_shares
        BY <2>1, <4>1 DEF VaultRecord
      <4> QED
        BY <1>1, <4>1, <4>2, SamePrice
    <3> QED
      BY <2>8, <2>9, <2>13, <3>1 DEF AdminStep
  <2> QED
    BY <2>10, <2>11, <2>12, <2>13 DEF Next
<1> QED
  BY <1>1, InitInv, NextInv, PTL DEF Spec, OnlyReportsLowerPrice

-----------------------------------------------------------------------------
(* Shares.                                                                   *)

\* Shares burned into each ticket.
Burned == [k \in TicketKeys |-> tickets[k].shares_burned]

\* The sets the ledgers range over are finite.
LEMMA FiniteLedgers ==
    IsFiniteSet(Users) /\ IsFiniteSet(TicketKeys) /\ IsFiniteSet(Custodies)
<1>1. IsFiniteSet(Users) /\ IsFiniteSet(TicketIndexes) /\ IsFiniteSet(Custodies)
  BY VaultAssumption
<1>2. IsFiniteSet(Users \X TicketIndexes)
  BY <1>1, FS_Product
<1> QED
  BY <1>1, <1>2 DEF TicketKeys

\* The ledgers, over the sets they are functions on.
LEMMA LedgerSums ==
    ASSUME RestOK
    PROVE  /\ \A u \in Users : shares[u] \in Nat
           /\ \A k \in TicketKeys : Burned[k] \in Nat /\ Burned[k] = tickets[k].shares_burned
           /\ \A c \in Custodies : custody[c] \in Nat
           /\ SumFunction(shares) = SumFunctionOnSet(shares, Users)
           /\ SumFunction(Burned) = SumFunctionOnSet(Burned, TicketKeys)
           /\ SumFunction(custody) = SumFunctionOnSet(custody, Custodies)
           /\ SumFunctionOnSet(shares, Users) \in Nat
           /\ SumFunctionOnSet(Burned, TicketKeys) \in Nat
           /\ SumFunctionOnSet(custody, Custodies) \in Nat
<1>1. /\ \A u \in Users : shares[u] \in Nat
      /\ \A k \in TicketKeys : tickets[k].shares_burned \in Nat
      /\ \A c \in Custodies : custody[c] \in Nat
  BY MathAssumption DEF RestOK, Ticket, U64
<1>2. \A k \in TicketKeys : Burned[k] \in Nat /\ Burned[k] = tickets[k].shares_burned
  BY <1>1 DEF Burned
<1>3. DOMAIN shares = Users /\ DOMAIN Burned = TicketKeys /\ DOMAIN custody = Custodies
  BY DEF RestOK, Burned
<1> QED
  BY <1>1, <1>2, <1>3, FiniteLedgers, SumNat DEF SumFunction

\* The same of the next state.
LEMMA LedgerSumsNext ==
    ASSUME RestOK'
    PROVE  /\ \A u \in Users : shares'[u] \in Nat
           /\ \A k \in TicketKeys : Burned'[k] \in Nat /\ Burned'[k] = tickets'[k].shares_burned
           /\ \A c \in Custodies : custody'[c] \in Nat
           /\ SumFunction(shares') = SumFunctionOnSet(shares', Users)
           /\ SumFunction(Burned') = SumFunctionOnSet(Burned', TicketKeys)
           /\ SumFunction(custody') = SumFunctionOnSet(custody', Custodies)
<1>1. /\ \A u \in Users : shares'[u] \in Nat
      /\ \A k \in TicketKeys : tickets'[k].shares_burned \in Nat
      /\ \A c \in Custodies : custody'[c] \in Nat
  BY MathAssumption DEF RestOK, Ticket, U64
<1>2. \A k \in TicketKeys : Burned'[k] \in Nat /\ Burned'[k] = tickets'[k].shares_burned
  BY <1>1 DEF Burned
<1>3. DOMAIN shares' = Users /\ DOMAIN Burned' = TicketKeys /\ DOMAIN custody' = Custodies
  BY DEF RestOK, Burned
<1> QED
  BY <1>1, <1>2, <1>3 DEF SumFunction

\* One wallet's balance changes.
LEMMA OneBalance ==
    ASSUME RestOK, RestOK', NEW u \in Users, NEW balance \in Nat,
           shares' = [shares EXCEPT ![u] = balance]
    PROVE  SumFunction(shares') = SumFunction(shares) + balance - shares[u]
<1>1. PICK after : after = shares'
  OBVIOUS
<1>2. \A x \in Users : shares[x] \in Nat /\ after[x] \in Nat
  BY <1>1, LedgerSums, LedgerSumsNext
<1>3. after[u] = balance /\ \A x \in Users \ {u} : after[x] = shares[x]
  BY <1>1 DEF RestOK
<1>4. SumFunctionOnSet(after, Users) = SumFunctionOnSet(shares, Users) + after[u] - shares[u]
  BY <1>2, <1>3, FiniteLedgers, SumUpdate
<1> QED
  BY <1>1, <1>3, <1>4, LedgerSums, LedgerSumsNext

\* One ticket changes.
LEMMA OneTicket ==
    ASSUME RestOK, RestOK', NEW k \in TicketKeys, NEW t \in Ticket,
           tickets' = [tickets EXCEPT ![k] = t]
    PROVE  SumFunction(Burned')
             = SumFunction(Burned) + t.shares_burned - tickets[k].shares_burned
<1>1. \A x \in TicketKeys : Burned[x] \in Nat /\ Burned'[x] \in Nat
  BY LedgerSums, LedgerSumsNext
<1>2. tickets'[k] = t /\ \A x \in TicketKeys \ {k} : tickets'[x] = tickets[x]
  BY DEF RestOK
<1>3. Burned'[k] = t.shares_burned /\ \A x \in TicketKeys \ {k} : Burned'[x] = Burned[x]
  BY <1>2, LedgerSums, LedgerSumsNext
<1>4. SumFunctionOnSet(Burned', TicketKeys)
        = SumFunctionOnSet(Burned, TicketKeys) + Burned'[k] - Burned[k]
  BY <1>1, <1>3, FiniteLedgers, SumUpdate
<1>5. Burned[k] = tickets[k].shares_burned
  BY LedgerSums
<1> QED
  BY <1>3, <1>4, <1>5, LedgerSums, LedgerSumsNext

\* The ledger of shares, with the tickets' side named.
LEMMA SharesAccountedAs ==
    SharesAccounted <=> /\ share_supply = SumFunction(shares)
                        /\ vault.requested_withdrawal_shares = SumFunction(Burned)
BY DEF SharesAccounted, Burned

\* The same of the next state.
LEMMA SharesAccountedNext ==
    SharesAccounted' <=> /\ share_supply' = SumFunction(shares')
                         /\ vault'.requested_withdrawal_shares = SumFunction(Burned')
BY DEF SharesAccounted, Burned

\* Minting to or burning from one wallet, with what the queue takes or gives back.
LEMMA DepositShares ==
    ASSUME Inv, Inv', SharesAccounted, NEW u \in Users, NEW base_atoms \in Nat,
           execute_deposit(u, base_atoms)
    PROVE  SharesAccounted'
<1> DEFINE minted == shares_for_deposit(base_atoms, effective, economic_share_supply)
<1>1. /\ effective \in Nat /\ economic_share_supply \in Nat /\ vault \in VaultRecord /\ RestOK
  BY StateFacts DEF VaultInv
<1>2. RestOK'
  BY InvSplitNext
<1>3. minted \in Nat
  BY <1>1, EntryKeepsPrice
<1>4. /\ share_supply' = share_supply + minted
      /\ shares' = [shares EXCEPT ![u] = shares[u] + minted]
      /\ vault' = [vault EXCEPT !.total_assets = vault.total_assets + base_atoms]
      /\ tickets' = tickets
  BY DEF execute_deposit, total_assets_after_deposit
<1> HIDE DEF minted
<1>5. shares[u] \in Nat /\ SumFunction(shares) \in Nat
  BY <1>1, LedgerSums
<1>6. SumFunction(shares') = SumFunction(shares) + (shares[u] + minted) - shares[u]
  <2>1. shares[u] + minted \in Nat
    BY <1>3, <1>5
  <2> QED
    BY <1>1, <1>2, <1>4, <2>1, OneBalance
<1>7. share_supply' = SumFunction(shares')
  BY <1>3, <1>4, <1>5, <1>6, SharesAccountedAs
<1>8. /\ vault'.requested_withdrawal_shares = vault.requested_withdrawal_shares
      /\ Burned' = Burned
  BY <1>1, <1>4 DEF VaultRecord, Burned
<1> QED
  BY <1>7, <1>8, SharesAccountedAs, SharesAccountedNext

\* A redemption moves shares from a wallet to the queue.
LEMMA RedeemShares ==
    ASSUME Inv, Inv', SharesAccounted, NEW u \in Users, NEW i \in TicketIndexes,
           NEW amount \in Nat, Redeem(u, i, amount)
    PROVE  SharesAccounted'
<1> DEFINE k == <<u, i>>
           t == [shares_burned |-> amount, assets_owed |-> 0,
                 request_epoch |-> vault.report_epoch, request_slot |-> slot]
<1>1. vault \in VaultRecord /\ RestOK /\ share_supply \in Nat
  BY StateFacts DEF VaultInv
<1>2. RestOK'
  BY InvSplitNext
<1>3. /\ amount <= shares[u] /\ tickets[k] = ClosedTicket
      /\ share_supply' = share_supply - amount
      /\ shares' = [shares EXCEPT ![u] = shares[u] - amount]
      /\ tickets' = [tickets EXCEPT ![k] = t]
      /\ vault' = [vault EXCEPT !.requested_withdrawal_shares
                                  = vault.requested_withdrawal_shares + amount]
  BY DEF Redeem, Open
<1>4. k \in TicketKeys /\ t \in Ticket /\ t.shares_burned = amount
  <2>1. k \in TicketKeys
    BY DEF TicketKeys
  <2>2. tickets'[k] = t /\ tickets'[k] \in Ticket
    BY <1>1, <1>2, <1>3, <2>1 DEF RestOK
  <2> QED
    BY <2>1, <2>2
<1> HIDE DEF k, t
<1>5. tickets[k].shares_burned = 0
  BY <1>3 DEF ClosedTicket
<1>6. shares[u] \in Nat /\ SumFunction(shares) \in Nat /\ SumFunction(Burned) \in Nat
  BY <1>1, LedgerSums
<1>7. SumFunction(Burned') = SumFunction(Burned) + t.shares_burned - tickets[k].shares_burned
  BY <1>1, <1>2, <1>3, <1>4, OneTicket
<1>8. SumFunction(shares') = SumFunction(shares) + (shares[u] - amount) - shares[u]
  <2>1. shares[u] - amount \in Nat
    BY <1>3, <1>6
  <2> QED
    BY <1>1, <1>2, <1>3, <2>1, OneBalance
<1>9. share_supply' = SumFunction(shares')
  BY <1>3, <1>6, <1>8, SharesAccountedAs
<1>10. vault'.requested_withdrawal_shares = vault.requested_withdrawal_shares + amount
  BY <1>1, <1>3 DEF VaultRecord
<1>11. vault'.requested_withdrawal_shares = SumFunction(Burned')
  BY <1>4, <1>5, <1>6, <1>7, <1>10, SharesAccountedAs
<1> QED
  BY <1>9, <1>11, SharesAccountedNext

\* A cancellation moves them back.
LEMMA CancelShares ==
    ASSUME Inv, Inv', SharesAccounted, NEW u \in Users, NEW i \in TicketIndexes,
           CancelRedeem(u, i)
    PROVE  SharesAccounted'
<1> DEFINE k == <<u, i>>
           burned == tickets[k].shares_burned
<1>1. vault \in VaultRecord /\ RestOK /\ share_supply \in Nat
  BY StateFacts DEF VaultInv
<1>2. RestOK'
  BY InvSplitNext
<1>3. /\ share_supply' = share_supply + burned
      /\ shares' = [shares EXCEPT ![u] = shares[u] + burned]
      /\ tickets' = [tickets EXCEPT ![k] = ClosedTicket]
      /\ vault' = [vault EXCEPT !.requested_withdrawal_shares
                                  = vault.requested_withdrawal_shares - burned]
  BY DEF CancelRedeem
<1>4. k \in TicketKeys /\ burned \in Nat
  <2>1. k \in TicketKeys
    BY DEF TicketKeys
  <2> QED
    BY <1>1, <2>1, LedgerSums
<1>5. ClosedTicket \in Ticket /\ ClosedTicket.shares_burned = 0
  BY MathAssumption DEF ClosedTicket, Ticket, U64
<1> HIDE DEF k
<1>6. shares[u] \in Nat /\ SumFunction(shares) \in Nat /\ SumFunction(Burned) \in Nat
  BY <1>1, LedgerSums
<1>7. SumFunction(Burned') = SumFunction(Burned) + 0 - burned
  BY <1>1, <1>2, <1>3, <1>4, <1>5, OneTicket
<1> HIDE DEF burned
<1>8. SumFunction(shares') = SumFunction(shares) + (shares[u] + burned) - shares[u]
  <2>1. shares[u] + burned \in Nat
    BY <1>4, <1>6
  <2> QED
    BY <1>1, <1>2, <1>3, <2>1, OneBalance
<1>9. share_supply' = SumFunction(shares')
  BY <1>3, <1>4, <1>6, <1>8, SharesAccountedAs
<1>10. vault'.requested_withdrawal_shares = vault.requested_withdrawal_shares - burned
  BY <1>1, <1>3 DEF VaultRecord
<1>11. vault'.requested_withdrawal_shares = SumFunction(Burned')
  BY <1>4, <1>6, <1>7, <1>10, SharesAccountedAs
<1> QED
  BY <1>9, <1>11, SharesAccountedNext

\* An atomic exit burns from one wallet.
LEMMA AtomicShares ==
    ASSUME Inv, Inv', SharesAccounted, NEW u \in Users, NEW amount \in Nat,
           NEW c \in Custodies, NEW received \in Nat, AtomicRedeem(u, amount, c, received)
    PROVE  SharesAccounted'
<1> DEFINE fee == bps_ceil(received, config.atomic_redeem_fee_bps)
           payout == received - fee
<1>1. /\ vault \in VaultRecord /\ validate_state(vault) /\ RestOK /\ share_supply \in Nat
  BY StateFacts DEF VaultInv
<1>2. RestOK'
  BY InvSplitNext
<1>3. payout \in Nat
  <2>1. config.atomic_redeem_fee_bps \in 0..BPS_DENOMINATOR
    BY <1>1, VaultAssumption DEF RestOK, ConfigRecord, Bps
  <2>2. fee \in 0..received
    BY <2>1, BpsCeilOfPart
  <2> HIDE DEF fee
  <2> QED
    BY <2>2
<1>4. /\ can_debit(vault, payout, now) /\ amount <= shares[u]
      /\ share_supply' = share_supply - amount
      /\ shares' = [shares EXCEPT ![u] = shares[u] - amount]
      /\ vault' = debit_assets_at_effective(vault, payout, now)
      /\ tickets' = tickets
  BY DEF AtomicRedeem
<1> HIDE DEF payout
<1>5. vault'.requested_withdrawal_shares = vault.requested_withdrawal_shares
  BY <1>1, <1>3, <1>4, DebitFacts DEF RestOK
<1>6. shares[u] \in Nat /\ SumFunction(shares) \in Nat
  BY <1>1, LedgerSums
<1>7. SumFunction(shares') = SumFunction(shares) + (shares[u] - amount) - shares[u]
  <2>1. shares[u] - amount \in Nat
    BY <1>4, <1>6
  <2> QED
    BY <1>1, <1>2, <1>4, <2>1, OneBalance
<1>8. share_supply' = SumFunction(shares')
  BY <1>4, <1>6, <1>7, SharesAccountedAs
<1>9. Burned' = Burned
  BY <1>4 DEF Burned
<1> QED
  BY <1>5, <1>8, <1>9, SharesAccountedAs, SharesAccountedNext

\* The tickets' shares once the first i tickets of a batch are settled.
LeftAfter(batch, i) ==
    [k \in TicketKeys |-> IF \E j \in 1..i : batch[j] = k THEN 0 ELSE Burned[k]]

\* A batch takes its tickets' shares off the queue, each ticket once.
LEMMA SettlementShares ==
    ASSUME Inv, SharesAccounted, NEW batch \in Batches, Settlement(batch).ok
    PROVE  Settlement(batch).v.requested_withdrawal_shares
             = SumFunctionOnSet(LeftAfter(batch, Len(batch)), TicketKeys)
<1>1. /\ batch \in Seq(TicketKeys) /\ Len(batch) \in Nat
      /\ \A a, b \in 1..Len(batch) : batch[a] = batch[b] => a = b
  <2>1. PICK n \in 1..MaxBatch : batch \in Injection(1..n, TicketKeys)
    BY DEF Batches
  <2>2. /\ batch \in [1..n -> TicketKeys] /\ n \in Nat
        /\ \A a, b \in 1..n : batch[a] = batch[b] => a = b
    BY <2>1, VaultAssumption DEF Injection, IsInjective
  <2>3. batch \in Seq(TicketKeys) /\ Len(batch) = n
    BY <2>2
  <2> QED
    BY <2>2, <2>3
<1> DEFINE n == Len(batch)
<1>2. PICK run : SettlementRun(batch, n, run) /\ Settlement(batch) = run[n]
  BY <1>1, SettlementIsRun
<1>3. /\ now \in Nat /\ share_supply \in U64 /\ vault \in VaultRecord
      /\ validate_state(vault) /\ vault.pending_withdrawal_assets = 0 /\ RestOK
      /\ \A k \in TicketKeys : tickets[k] \in Ticket /\ tickets[k].assets_owed = 0
  BY StateFacts DEF VaultInv, RestOK
<1>4. run[0] = [v |-> vault, settled |-> 0, ok |-> TRUE]
  BY <1>1, <1>2, RunFirst
<1>5. \A i \in 0..n : run[i].ok => Settles(run[i])
  BY <1>1, <1>2, RunSettles
<1> DEFINE Left(i) == SumFunctionOnSet(LeftAfter(batch, i), TicketKeys)
           Holds(i) == run[i].v.requested_withdrawal_shares = Left(i)
           Bad == {i \in 0..n : run[i].ok /\ ~Holds(i)}
<1>6. Bad = {}
  <2> SUFFICES ASSUME Bad # {} PROVE FALSE
    OBVIOUS
  <2>1. PICK i \in Bad : \A j \in Bad : i <= j
    <3>1. Bad \in SUBSET Nat
      BY <1>1
    <3> HIDE DEF Bad
    <3> QED
      BY <3>1, LeastNat
  <2>2. i \in 0..n /\ run[i].ok /\ ~Holds(i)
    BY <2>1
  <2>3. CASE i = 0
    <3>1. LeftAfter(batch, 0) = Burned
      BY DEF LeftAfter, Burned
    <3>2. SumFunctionOnSet(Burned, TicketKeys) = vault.requested_withdrawal_shares
      BY <1>3, LedgerSums, SharesAccountedAs
    <3> QED
      BY <1>4, <2>2, <2>3, <3>1, <3>2
  <2>4. CASE i # 0
    <3> DEFINE k == batch[i]
               r == run[i - 1]
               t == tickets[k]
    <3>1. i \in 1..n /\ i - 1 \in 0..n /\ i - 1 < i /\ i \in Nat /\ i - 1 \in Nat
      BY <1>1, <2>2, <2>4
    <3>2. k \in TicketKeys
      BY <1>1, <3>1
    <3>3. t \in Ticket /\ t.assets_owed = 0 /\ run[i] = settle_next(r, t)
      BY <1>1, <1>2, <1>3, <3>1, <3>2, RunTurn
    <3>4. r.ok /\ can_strike(r.v, t) /\ run[i].v = strike_ticket(r.v, t)
      <4> HIDE DEF r, t
      <4> DEFINE passed == r.ok /\ can_strike(r.v, t)
      <4>1. settle_next(r, t) = [v |-> strike_ticket(r.v, t),
                                 settled |-> r.settled + strike_owed(r.v, t), ok |-> passed]
        BY <3>3 DEF settle_next
      <4> HIDE DEF passed
      <4>2. run[i].ok = passed /\ run[i].v = strike_ticket(r.v, t)
        BY <3>3, <4>1
      <4> QED
        BY <2>2, <4>2 DEF passed
    <3>5. r.v \in VaultRecord /\ validate_state(r.v)
      BY <1>5, <3>1, <3>4 DEF Settles
    <3>6. run[i].v.requested_withdrawal_shares
            = r.v.requested_withdrawal_shares - t.shares_burned
      <4> HIDE DEF r, t
      <4> QED
        BY <1>3, <3>3, <3>4, <3>5, StrikeFacts
    <3>7. r.v.requested_withdrawal_shares = Left(i - 1)
      <4>1. i - 1 \notin Bad
        <5> HIDE DEF Bad
        <5> QED
          BY <2>1, <2>2, <3>1
      <4> QED
        BY <3>1, <3>4, <4>1
    <3> HIDE DEF r
    <3>8. Left(i) = Left(i - 1) - t.shares_burned
      <4> DEFINE f == LeftAfter(batch, i - 1)
                 g == LeftAfter(batch, i)
      <4>1. \A x \in TicketKeys : Burned[x] \in Nat /\ Burned[x] = tickets[x].shares_burned
        BY <1>3, LedgerSums
      <4>2. \A x \in TicketKeys : f[x] \in Nat /\ g[x] \in Nat
        BY <4>1 DEF LeftAfter
      <4>3. g[k] = 0
        BY <3>1, <3>2 DEF LeftAfter
      <4>4. f[k] = t.shares_burned
        <5>1. \A j \in 1..(i - 1) : batch[j] # k
          BY <1>1, <3>1
        <5> QED
          BY <3>2, <4>1, <5>1 DEF LeftAfter
      <4>5. \A x \in TicketKeys \ {k} : g[x] = f[x]
        <5>1. ASSUME NEW x \in TicketKeys \ {k}
              PROVE  (\E j \in 1..i : batch[j] = x) <=> (\E j \in 1..(i - 1) : batch[j] = x)
          <6>1. \A j \in 1..i : j # i => j \in 1..(i - 1)
            BY <3>1
          <6>2. \A j \in 1..(i - 1) : j \in 1..i
            BY <3>1
          <6> QED
            BY <6>1, <6>2
        <5> QED
          BY <5>1 DEF LeftAfter
      <4> HIDE DEF f, g
      <4>6. SumFunctionOnSet(g, TicketKeys) = SumFunctionOnSet(f, TicketKeys) + g[k] - f[k]
        BY <3>2, <4>2, <4>5, FiniteLedgers, SumUpdate
      <4>7. SumFunctionOnSet(f, TicketKeys) \in Nat /\ f[k] \in Nat
        BY <3>2, <4>2, FiniteLedgers, SumNat
      <4>8. SumFunctionOnSet(g, TicketKeys) = SumFunctionOnSet(f, TicketKeys) - t.shares_burned
        <5> HIDE DEF t, k
        <5> QED
          BY <4>3, <4>4, <4>6, <4>7
      <4> QED
        BY <4>8 DEF f, g
    <3> QED
      BY <2>2, <3>6, <3>7, <3>8
  <2> QED
    BY <2>3, <2>4
<1>7. n \in 0..n
  BY <1>1
<1>8. Holds(n)
  BY <1>2, <1>6, <1>7
<1> QED
  BY <1>2, <1>8

\* A batch closes its tickets and takes their shares off the queue.
LEMMA ProcessShares ==
    ASSUME Inv, Inv', SharesAccounted, NEW batch \in Batches, NEW c \in Custodies,
           ProcessWithdrawals(batch, c)
    PROVE  SharesAccounted'
<1> DEFINE end == Settlement(batch)
<1>1. RestOK /\ RestOK'
  BY StateFacts, InvSplitNext
<1>2. /\ end.ok
      /\ tickets' = [k \in TicketKeys |->
                        IF k \in Range(batch) THEN ClosedTicket ELSE tickets[k]]
      /\ vault' = [end.v EXCEPT !.pending_withdrawal_assets
                                  = end.v.pending_withdrawal_assets - end.settled]
      /\ share_supply' = share_supply /\ shares' = shares
  BY DEF ProcessWithdrawals, share_vars
<1>3. end.v \in VaultRecord
  BY <1>2, SettlementSettles DEF Settles
<1>4. end.v.requested_withdrawal_shares
        = SumFunctionOnSet(LeftAfter(batch, Len(batch)), TicketKeys)
  BY <1>2, SettlementShares
<1> HIDE DEF end
<1>5. vault'.requested_withdrawal_shares = end.v.requested_withdrawal_shares
  BY <1>2, <1>3 DEF VaultRecord
<1>6. Burned' = LeftAfter(batch, Len(batch))
  <2>1. DOMAIN batch = 1..Len(batch)
    BY BatchIsSeq
  <2>2. ASSUME NEW k \in TicketKeys
        PROVE  k \in Range(batch) <=> \E j \in 1..Len(batch) : batch[j] = k
    BY <2>1 DEF Range
  <2>3. ClosedTicket.shares_burned = 0
    BY DEF ClosedTicket
  <2>4. ASSUME NEW k \in TicketKeys
        PROVE  tickets'[k].shares_burned
                 = IF \E j \in 1..Len(batch) : batch[j] = k THEN 0 ELSE Burned[k]
    <3>1. tickets'[k] = IF k \in Range(batch) THEN ClosedTicket ELSE tickets[k]
      BY <1>2
    <3>2. Burned[k] = tickets[k].shares_burned
      BY <1>1, LedgerSums
    <3> QED
      BY <2>2, <2>3, <3>1, <3>2
  <2> QED
    BY <2>4 DEF Burned, LeftAfter
<1>7. vault'.requested_withdrawal_shares = SumFunction(Burned')
  BY <1>1, <1>4, <1>5, <1>6, LedgerSumsNext
<1> QED
  BY <1>2, <1>7, SharesAccountedAs, SharesAccountedNext

\* Every step keeps the share ledger.
LEMMA NextShares == Inv /\ Inv' /\ SharesAccounted /\ [Next]_vars => SharesAccounted'
<1> SUFFICES ASSUME Inv, Inv', SharesAccounted, [Next]_vars PROVE SharesAccounted'
  OBVIOUS
<1>1. vault \in VaultRecord
  BY StateFacts DEF VaultInv
<1>2. ASSUME share_supply' = share_supply, shares' = shares, tickets' = tickets,
             vault'.requested_withdrawal_shares = vault.requested_withdrawal_shares
      PROVE  SharesAccounted'
  <2>1. Burned' = Burned
    BY <1>2 DEF Burned
  <2> QED
    BY <1>2, <2>1, SharesAccountedAs, SharesAccountedNext
<1>3. ASSUME NEW u \in Users, NEW amount \in DepositAmounts, Deposit(u, amount)
      PROVE  SharesAccounted'
  BY <1>3, VaultAssumption, DepositShares DEF Deposit
<1>4. ASSUME NEW u \in Users, NEW base_atoms \in AssetValues, DepositAsset(u, base_atoms)
      PROVE  SharesAccounted'
  BY <1>4, VaultAssumption, DepositShares DEF DepositAsset
<1>5. ASSUME NEW u \in Users, NEW i \in TicketIndexes, NEW amount \in ShareAmounts,
             Redeem(u, i, amount)
      PROVE  SharesAccounted'
  BY <1>5, VaultAssumption, RedeemShares
<1>6. ASSUME NEW u \in Users, NEW i \in TicketIndexes, CancelRedeem(u, i)
      PROVE  SharesAccounted'
  BY <1>6, CancelShares
<1>7. ASSUME NEW u \in Users, NEW amount \in AtomicAmounts, NEW c \in Custodies,
             NEW received \in 0..assets_for_shares(amount, effective, economic_share_supply),
             AtomicRedeem(u, amount, c, received)
      PROVE  SharesAccounted'
  <2>1. amount \in Nat
    BY VaultAssumption
  <2>2. received \in Nat
    BY <2>1, ReceivedNat
  <2> QED
    BY <1>7, <2>1, <2>2, AtomicShares
<1>8. ASSUME NEW batch \in Batches, NEW c \in Custodies, ProcessWithdrawals(batch, c)
      PROVE  SharesAccounted'
  BY <1>8, ProcessShares
<1>9. ASSUME NEW value \in ExternalValues, ReportNav(value) \/ RecoverNav(value)
      PROVE  SharesAccounted'
  <2> DEFINE w == reported_vault(report_outcome(value))
  <2>1. vault' = w /\ UNCHANGED <<share_supply, shares, tickets>>
    BY <1>9 DEF ReportNav, RecoverNav, apply_nav_report, share_vars
  <2>2. w.requested_withdrawal_shares = vault.requested_withdrawal_shares
    BY <1>1 DEF reported_vault, apply_reported_nav, VaultRecord
  <2> HIDE DEF w
  <2> QED
    BY <1>2, <2>1, <2>2
<1>10. ASSUME NEW c \in Custodies, NEW amount \in MoveAmounts,
              \/ \E d \in Destinations : InvestExternal(d, c, amount)
              \/ ReturnExternal(c, amount)
              \/ CollectFees(c, amount)
       PROVE  SharesAccounted'
  <2>1. UNCHANGED <<share_supply, shares, tickets>>
    BY <1>10 DEF InvestExternal, ReturnExternal, CollectFees, share_vars
  <2>2. \/ \E x : vault' = [vault EXCEPT !.external_assets = x]
        \/ \E x : vault' = [vault EXCEPT !.fees_payable = x]
    BY <1>10 DEF InvestExternal, ReturnExternal, CollectFees
  <2>3. vault'.requested_withdrawal_shares = vault.requested_withdrawal_shares
    BY <1>1, <2>2 DEF VaultRecord
  <2> QED
    BY <1>2, <2>1, <2>3
<1>11. ASSUME NEW amount \in MoveAmounts, WriteDownFees(amount) PROVE SharesAccounted'
  <2>1. /\ UNCHANGED <<share_supply, shares, tickets>>
        /\ \E x : vault' = [vault EXCEPT !.fees_payable = x]
    BY <1>11 DEF WriteDownFees, share_vars
  <2>2. vault'.requested_withdrawal_shares = vault.requested_withdrawal_shares
    BY <1>1, <2>1 DEF VaultRecord
  <2> QED
    BY <1>2, <2>1, <2>2
<1>12. ASSUME \/ \E flags \in PauseSettings : SetPauseFlags(flags)
              \/ \E mode \in AccessSettings : SetVaultAccess(mode)
              \/ \E cfg \in Configs : UpdateVaultConfig(cfg)
              \/ \E d \in Destinations : RegisterExternalDestination(d)
              \/ \E d \in Destinations : RevokeExternalDestination(d)
              \/ AdvanceClock
              \/ UNCHANGED vars
       PROVE  SharesAccounted'
  <2>1. UNCHANGED <<share_supply, shares, tickets, vault>>
    BY <1>12 DEF SetPauseFlags, SetVaultAccess, UpdateVaultConfig,
                 RegisterExternalDestination, RevokeExternalDestination, AdvanceClock,
                 vars, share_vars
  <2> QED
    BY <1>2, <2>1
<1>13. CASE UserStep
  BY <1>3, <1>4, <1>5, <1>6, <1>7, <1>13 DEF UserStep
<1>14. CASE AuthorityStep
  BY <1>8, <1>9, <1>10, <1>14 DEF AuthorityStep
<1>15. CASE AdminStep
  BY <1>10, <1>11, <1>12, <1>15 DEF AdminStep
<1> QED
  BY <1>12, <1>13, <1>14, <1>15 DEF Next

\* Initially there are no shares.
LEMMA InitShares == Init => SharesAccounted
<1> SUFFICES ASSUME Init PROVE SharesAccounted
  OBVIOUS
<1>1. RestOK
  BY InitInv, InvSplit
<1>2. \A u \in Users : shares[u] = 0
  BY DEF Init
<1>3. \A k \in TicketKeys : Burned[k] = 0
  BY DEF Init, Burned, ClosedTicket
<1>4. SumFunction(shares) = 0 /\ SumFunction(Burned) = 0
  BY <1>1, <1>2, <1>3, FiniteLedgers, SumZero, LedgerSums
<1>5. share_supply = 0 /\ vault.requested_withdrawal_shares = 0
  BY DEF Init, new_vault
<1> QED
  BY <1>4, <1>5, SharesAccountedAs

(***************************************************************************)
(* Every share is in exactly one place in every reachable state: the       *)
(* mint's supply is held by wallets, the queued shares by open tickets,    *)
(* for any number of owners, ticket indexes and batch sizes.               *)
(***************************************************************************)
THEOREM SharesConserved == Spec => []SharesAccounted
<1>1. Init => Inv /\ SharesAccounted
  BY InitInv, InitShares
<1>2. (Inv /\ SharesAccounted) /\ [Next]_vars => (Inv /\ SharesAccounted)'
  BY NextInv, NextShares
<1> QED
  BY <1>1, <1>2, PTL DEF Spec

-----------------------------------------------------------------------------
(* The base ledger: tokens and the vault's counters move together, for any   *)
(* number of custodies and whatever the reports say.                         *)

\* The terms of the books are numbers, and nothing is pending at rest.
LEMMA BooksFacts ==
    ASSUME Inv
    PROVE  /\ SumFunction(custody) \in Nat /\ venue \in Int /\ forgiven \in Nat
           /\ vault \in VaultRecord
           /\ vault.total_assets \in Nat /\ vault.fees_payable \in Nat
           /\ vault.pending_withdrawal_assets = 0
<1>1. VaultInv(vault) /\ RestOK
  BY StateFacts
<1>2. vault \in VaultRecord /\ vault.pending_withdrawal_assets = 0
  BY <1>1 DEF VaultInv
<1>3. vault.total_assets \in Nat /\ vault.fees_payable \in Nat
  BY <1>2, RecordFields
<1>4. SumFunction(custody) \in Nat
  BY <1>1, LedgerSums
<1> QED
  BY <1>1, <1>2, <1>3, <1>4 DEF RestOK

\* The books stay balanced when both sides move by the same amount.
LEMMA BooksMove ==
    ASSUME Inv, Inv', BooksBalance,
           NEW d_custody \in Int, NEW d_venue \in Int, NEW d_total \in Int,
           NEW d_fees \in Int, NEW d_forgiven \in Int,
           SumFunction(custody') = SumFunction(custody) + d_custody,
           venue' = venue + d_venue,
           vault'.total_assets = vault.total_assets + d_total,
           vault'.fees_payable = vault.fees_payable + d_fees,
           forgiven' = forgiven + d_forgiven,
           d_custody + d_venue = d_total + d_fees + d_forgiven
    PROVE  BooksBalance'
<1>1. /\ SumFunction(custody) \in Nat /\ venue \in Int /\ forgiven \in Nat
      /\ vault.total_assets \in Nat /\ vault.fees_payable \in Nat
      /\ vault.pending_withdrawal_assets = 0
  BY BooksFacts
<1>2. vault'.pending_withdrawal_assets = 0
  BY InvSplitNext DEF VaultInv
<1>3. SumFunction(custody) + venue = vault.total_assets + vault.fees_payable + forgiven
  BY <1>1 DEF BooksBalance
<1>4. SumFunction(custody') + venue' = vault'.total_assets + vault'.fees_payable + forgiven'
  BY <1>1, <1>3
<1>5. /\ vault'.total_assets \in Nat /\ vault'.fees_payable \in Nat /\ forgiven' \in Nat
  <2>1. vault' \in VaultRecord /\ RestOK'
    BY InvSplitNext DEF VaultInv
  <2>2. PICK w : w = vault'
    OBVIOUS
  <2>3. w.total_assets \in Nat /\ w.fees_payable \in Nat
    BY <2>1, <2>2, RecordFields
  <2> QED
    BY <2>1, <2>2, <2>3 DEF RestOK
<1> QED
  BY <1>2, <1>4, <1>5 DEF BooksBalance

\* One custody account changes.
LEMMA OneCustody ==
    ASSUME RestOK, RestOK', NEW c \in Custodies, NEW balance \in Nat,
           custody' = [custody EXCEPT ![c] = balance]
    PROVE  SumFunction(custody') = SumFunction(custody) + (balance - custody[c])
<1>1. PICK after : after = custody'
  OBVIOUS
<1>2. \A x \in Custodies : custody[x] \in Nat /\ after[x] \in Nat
  BY <1>1, LedgerSums, LedgerSumsNext
<1>3. after[c] = balance /\ \A x \in Custodies \ {c} : after[x] = custody[x]
  BY <1>1 DEF RestOK
<1>4. SumFunctionOnSet(after, Custodies)
        = SumFunctionOnSet(custody, Custodies) + after[c] - custody[c]
  BY <1>2, <1>3, FiniteLedgers, SumUpdate
<1>5. SumFunctionOnSet(custody, Custodies) \in Nat /\ custody[c] \in Nat
  BY <1>2, LedgerSums
<1> QED
  BY <1>1, <1>3, <1>4, <1>5, LedgerSums, LedgerSumsNext

-----------------------------------------------------------------------------
(* One lemma per kind of step.                                               *)

\* A deposit is recognized where it lands: in custody or outside it.
LEMMA DepositBooks ==
    ASSUME Inv, Inv', BooksBalance, NEW u \in Users, NEW base_atoms \in Nat,
           Deposit(u, base_atoms) \/ DepositAsset(u, base_atoms)
    PROVE  BooksBalance'
<1>1. /\ vault \in VaultRecord /\ vault.total_assets \in Nat /\ vault.fees_payable \in Nat
      /\ SumFunction(custody) \in Nat /\ venue \in Int /\ forgiven \in Nat
  BY BooksFacts
<1>2. RestOK /\ RestOK'
  BY InvSplit, InvSplitNext
<1>3. /\ vault' = [vault EXCEPT !.total_assets = vault.total_assets + base_atoms]
      /\ forgiven' = forgiven
  BY DEF Deposit, DepositAsset, execute_deposit, total_assets_after_deposit
<1>4. /\ vault'.total_assets = vault.total_assets + base_atoms
      /\ vault'.fees_payable = vault.fees_payable + 0
      /\ forgiven' = forgiven + 0
  BY <1>1, <1>3 DEF VaultRecord
<1>5. CASE Deposit(u, base_atoms)
  <2> DEFINE c == ata(config.deposit_sub_account)
  <2>1. c \in Custodies
    BY <1>2, VaultAssumption DEF ata, RestOK, ConfigRecord
  <2>2. /\ custody' = [custody EXCEPT ![c] = custody[c] + base_atoms]
        /\ venue' = venue + 0
    BY <1>1, <1>5 DEF Deposit
  <2> HIDE DEF c
  <2>3. custody[c] \in Nat /\ custody[c] + base_atoms \in Nat
    BY <1>2, <2>1, LedgerSums
  <2>4. SumFunction(custody') = SumFunction(custody) + ((custody[c] + base_atoms) - custody[c])
    BY <1>2, <2>1, <2>2, <2>3, OneCustody
  <2>5. SumFunction(custody') = SumFunction(custody) + base_atoms
    BY <1>1, <2>3, <2>4
  <2>6. base_atoms + 0 = base_atoms + 0 + 0 /\ base_atoms \in Int /\ 0 \in Int
    OBVIOUS
  <2>7. venue' = venue + 0
    BY <2>2
  <2> QED
    BY <1>4, <2>5, <2>6, <2>7, BooksMove, SMTT(60)
<1>6. CASE DepositAsset(u, base_atoms)
  <2>1. SumFunction(custody') = SumFunction(custody) + 0 /\ venue' = venue + base_atoms
    BY <1>1, <1>6 DEF DepositAsset
  <2>2. 0 + base_atoms = base_atoms + 0 + 0
    OBVIOUS
  <2> QED
    BY <1>4, <2>1, <2>2, BooksMove
<1> QED
  BY <1>5, <1>6

\* Queueing and cancelling move shares only.
LEMMA TicketBooks ==
    ASSUME Inv, Inv', BooksBalance, NEW u \in Users, NEW i \in TicketIndexes,
           (\E amount \in ShareAmounts : Redeem(u, i, amount)) \/ CancelRedeem(u, i)
    PROVE  BooksBalance'
<1>1. vault \in VaultRecord
  BY BooksFacts
<1>2. /\ custody' = custody /\ venue' = venue /\ forgiven' = forgiven
      /\ \E queued : vault' = [vault EXCEPT !.requested_withdrawal_shares = queued]
  BY DEF Redeem, CancelRedeem, aux_vars
<1>3. /\ vault'.total_assets = vault.total_assets
      /\ vault'.fees_payable = vault.fees_payable
      /\ vault'.pending_withdrawal_assets = vault.pending_withdrawal_assets
  BY <1>1, <1>2 DEF VaultRecord
<1> QED
  BY <1>2, <1>3 DEF BooksBalance

\* An atomic exit: the unwound value arrives, the payout leaves, the fee stays.
LEMMA AtomicBooks ==
    ASSUME Inv, Inv', BooksBalance, NEW u \in Users, NEW amount \in Nat, NEW c \in Custodies,
           NEW received \in Nat, AtomicRedeem(u, amount, c, received)
    PROVE  BooksBalance'
<1> DEFINE fee == bps_ceil(received, config.atomic_redeem_fee_bps)
           payout == received - fee
<1>1. /\ vault \in VaultRecord /\ vault.total_assets \in Nat /\ vault.fees_payable \in Nat
      /\ SumFunction(custody) \in Nat /\ venue \in Int /\ forgiven \in Nat
  BY BooksFacts
<1>2. RestOK /\ RestOK' /\ validate_state(vault) /\ now \in Nat
  BY InvSplit, InvSplitNext DEF VaultInv, RestOK
<1>3. fee \in 0..received
  <2>1. config.atomic_redeem_fee_bps \in 0..BPS_DENOMINATOR
    BY <1>2, VaultAssumption DEF RestOK, ConfigRecord, Bps
  <2> QED
    BY <2>1, BpsCeilOfPart
<1> HIDE DEF fee
<1>4. payout \in Nat /\ payout <= received
  BY <1>3
<1>5. /\ can_debit(vault, payout, now)
      /\ custody' = [custody EXCEPT ![c] = custody[c] + received - payout]
      /\ venue' = venue - received
      /\ vault' = debit_assets_at_effective(vault, payout, now)
      /\ forgiven' = forgiven
  BY DEF AtomicRedeem, fee
<1> HIDE DEF payout
<1>6. vault'.total_assets = vault.total_assets - payout
      /\ vault'.fees_payable = vault.fees_payable
  BY <1>1, <1>2, <1>4, <1>5, DebitFacts
<1>7. custody[c] \in Nat /\ custody[c] + received - payout \in Nat
  BY <1>2, <1>4, LedgerSums
<1>8. SumFunction(custody')
        = SumFunction(custody) + ((custody[c] + received - payout) - custody[c])
  BY <1>2, <1>5, <1>7, OneCustody
<1>9. SumFunction(custody') = SumFunction(custody) + (received - payout)
  BY <1>1, <1>4, <1>7, <1>8
<1>10. /\ venue' = venue + (0 - received)
       /\ vault'.total_assets = vault.total_assets + (0 - payout)
       /\ vault'.fees_payable = vault.fees_payable + 0
       /\ forgiven' = forgiven + 0
  BY <1>1, <1>4, <1>5, <1>6
<1>11. (received - payout) + (0 - received) = (0 - payout) + 0 + 0
  BY <1>4
<1>12. received - payout \in Int /\ 0 - received \in Int /\ 0 - payout \in Int
  BY <1>4
<1> QED
  BY <1>9, <1>10, <1>11, <1>12, BooksMove

\* A batch pays from custody what it takes from recognized NAV.
LEMMA ProcessBooks ==
    ASSUME Inv, Inv', BooksBalance, NEW batch \in Batches, NEW c \in Custodies,
           ProcessWithdrawals(batch, c)
    PROVE  BooksBalance'
<1> DEFINE end == Settlement(batch)
           paid == end.v.pending_withdrawal_assets - end.settled
<1>1. /\ vault.total_assets \in Nat /\ vault.fees_payable \in Nat
      /\ SumFunction(custody) \in Nat /\ venue \in Int /\ forgiven \in Nat
  BY BooksFacts
<1>2. RestOK /\ RestOK'
  BY InvSplit, InvSplitNext
<1>3. /\ end.ok /\ end.settled <= custody[c]
      /\ custody' = [custody EXCEPT ![c] = custody[c] - end.settled]
      /\ vault' = [end.v EXCEPT !.pending_withdrawal_assets = paid]
      /\ venue' = venue /\ forgiven' = forgiven
  BY DEF ProcessWithdrawals, aux_vars
<1>4. /\ end.v \in VaultRecord
      /\ end.settled = end.v.pending_withdrawal_assets
      /\ end.v.total_assets = vault.total_assets - end.settled
      /\ end.v.fees_payable = vault.fees_payable
  BY <1>3, SettlementSettles DEF Settles
<1> HIDE DEF end, paid
<1>5. end.settled \in Nat
  BY <1>4, RecordFields
<1>6. /\ vault'.total_assets = vault.total_assets - end.settled
      /\ vault'.fees_payable = vault.fees_payable
  BY <1>3, <1>4 DEF VaultRecord
<1>7. custody[c] \in Nat /\ custody[c] - end.settled \in Nat
  BY <1>2, <1>3, <1>5, LedgerSums
<1>8. SumFunction(custody') = SumFunction(custody) + ((custody[c] - end.settled) - custody[c])
  BY <1>2, <1>3, <1>7, OneCustody
<1>9. /\ SumFunction(custody') = SumFunction(custody) + (0 - end.settled)
      /\ vault'.total_assets = vault.total_assets + (0 - end.settled)
      /\ vault'.fees_payable = vault.fees_payable + 0
      /\ venue' = venue + 0 /\ forgiven' = forgiven + 0
  BY <1>1, <1>3, <1>5, <1>6, <1>7, <1>8
<1>10. 0 - end.settled \in Int /\ (0 - end.settled) + 0 = (0 - end.settled) + 0 + 0
  BY <1>5
<1> QED
  BY <1>9, <1>10, BooksMove

\* A report replaces the value outside custody by the one that was reported.
LEMMA IdleSplitsCustody ==
    ASSUME Inv
    PROVE  /\ idle_base \in Nat /\ other_base \in Nat
           /\ SumFunction(custody) = idle_base + other_base
<1> DEFINE d == ata(config.deposit_sub_account)
           w == ata(config.withdraw_sub_account)
<1>1. RestOK
  BY StateFacts
<1>2. /\ d \in Custodies /\ w \in Custodies
      /\ d = w <=> config.deposit_sub_account = config.withdraw_sub_account
  BY <1>1, VaultAssumption DEF ata, RestOK, ConfigRecord
<1>3. /\ \A c \in Custodies : custody[c] \in Nat
      /\ SumFunction(custody) = SumFunctionOnSet(custody, Custodies)
  BY <1>1, LedgerSums
<1>4. /\ idle_base = IF d # w THEN custody[d] + custody[w] ELSE custody[d]
      /\ other_base = SumFunctionOnSet(custody, Custodies \ {d, w})
  BY <1>2, <1>3 DEF idle_base, other_base
<1> HIDE DEF d, w
<1>5. /\ IsFiniteSet(Custodies) /\ IsFiniteSet(Custodies \ {d})
      /\ IsFiniteSet(Custodies \ {d, w})
  BY FiniteLedgers, FS_Subset
<1>6. SumFunctionOnSet(custody, Custodies)
        = custody[d] + SumFunctionOnSet(custody, Custodies \ {d})
  BY <1>2, <1>3, <1>5, SumRemove
<1>7. SumFunctionOnSet(custody, Custodies \ {d, w}) \in Nat
  BY <1>3, <1>5, SumNat
<1>8. CASE d = w
  <2>1. Custodies \ {d, w} = Custodies \ {d}
    BY <1>8
  <2> QED
    BY <1>2, <1>3, <1>4, <1>6, <1>7, <1>8, <2>1
<1>9. CASE d # w
  <2>1. (Custodies \ {d}) \ {w} = Custodies \ {d, w} /\ w \in Custodies \ {d}
    BY <1>2, <1>9
  <2>2. SumFunctionOnSet(custody, Custodies \ {d})
          = custody[w] + SumFunctionOnSet(custody, (Custodies \ {d}) \ {w})
    BY <1>3, <1>5, <2>1, SumRemove
  <2> QED
    BY <1>2, <1>3, <1>4, <1>6, <1>7, <1>9, <2>1, <2>2
<1> QED
  BY <1>8, <1>9

LEMMA ReportBooks ==
    ASSUME Inv, Inv', NEW external_value \in Nat, apply_nav_report(external_value)
    PROVE  BooksBalance'
<1> DEFINE gross == (idle_base + external_value) - vault.fees_payable
                      - vault.pending_withdrawal_assets
           outcome == report_outcome(external_value)
           fees == vault.fees_payable + outcome.fee
           booked == [vault EXCEPT !.fees_payable = fees,
                                   !.high_watermark = outcome.high_watermark,
                                   !.report_epoch = vault.report_epoch + 1]
           applied == apply_reported_nav(booked, config, outcome.net, now)
<1>1. /\ vault \in VaultRecord /\ vault.fees_payable \in Nat
      /\ vault.pending_withdrawal_assets = 0
      /\ idle_base \in Nat /\ other_base \in Nat
      /\ SumFunction(custody) = idle_base + other_base
  BY BooksFacts, IdleSplitsCustody
<1>2. /\ vault'.total_assets = outcome.net
      /\ vault'.fees_payable = fees
      /\ vault'.pending_withdrawal_assets = 0
  <2>1. vault' = [applied EXCEPT !.last_update_ts = now]
    BY DEF apply_nav_report, reported_vault
  <2>2. /\ applied.total_assets = outcome.net
        /\ applied.fees_payable = booked.fees_payable
        /\ DOMAIN applied = DOMAIN booked
    BY DEF apply_reported_nav
  <2>3. booked.fees_payable = fees
    BY <1>1 DEF VaultRecord
  <2>4. vault'.pending_withdrawal_assets = 0
    BY InvSplitNext DEF VaultInv
  <2> HIDE DEF applied, booked, fees, outcome
  <2> QED
    BY <2>1, <2>2, <2>3, <2>4
<1>3. /\ venue' = external_value - other_base /\ forgiven' = 0 /\ custody' = custody
      /\ idle_base + external_value <= MaxU64
      /\ vault.fees_payable + vault.pending_withdrawal_assets <= idle_base + external_value
      /\ performance_fee_fits(gross, economic_share_supply)
  BY DEF apply_nav_report, fits_u64
<1>4. gross \in U64 /\ gross = (idle_base + external_value) - vault.fees_payable
  BY <1>1, <1>3, MathAssumption DEF U64
<1>5. outcome = performance_fee_for_nav(gross, economic_share_supply, vault.high_watermark,
                                        config.performance_fee_bps)
  BY DEF report_outcome
<1>6. /\ economic_share_supply \in Nat /\ vault.high_watermark \in U64
      /\ config.performance_fee_bps \in 0..BPS_DENOMINATOR
  <2>1. RestOK /\ economic_share_supply \in Nat
    BY StateFacts
  <2> QED
    BY <1>1, <2>1, RecordFields, VaultAssumption DEF RestOK, ConfigRecord, Bps
<1> HIDE DEF gross, outcome
<1>7. outcome.fee \in 0..gross /\ outcome.net = gross - outcome.fee
  <2>1. performance_fee_fits(gross, economic_share_supply) /\ gross \in U64
    BY <1>3, <1>4
  <2> HIDE DEF fees
  <2> QED
    BY <1>5, <1>6, <2>1, PerformanceFeeFacts
<1>8. gross \in Nat /\ outcome.fee \in Nat /\ outcome.net \in Nat
  BY <1>4, <1>7, MathAssumption DEF U64
<1>9. SumFunction(custody') + venue' = idle_base + external_value
  BY <1>1, <1>3
<1>10. outcome.net + fees + 0 + 0 = idle_base + external_value
  BY <1>1, <1>4, <1>7, <1>8
<1> HIDE DEF fees
<1> QED
  BY <1>2, <1>3, <1>9, <1>10 DEF BooksBalance

\* Base moves between custody and external accounts without changing its sum.
LEMMA ExternalBooks ==
    ASSUME Inv, Inv', BooksBalance, NEW c \in Custodies, NEW amount \in Nat,
           \/ \E d \in Destinations : InvestExternal(d, c, amount)
           \/ ReturnExternal(c, amount)
    PROVE  BooksBalance'
<1>1. /\ vault \in VaultRecord /\ vault.total_assets \in Nat /\ vault.fees_payable \in Nat
      /\ SumFunction(custody) \in Nat /\ venue \in Int /\ forgiven \in Nat
  BY BooksFacts
<1>2. RestOK /\ RestOK'
  BY InvSplit, InvSplitNext
<1>3. PICK moved \in Int :
        /\ custody[c] + moved \in Nat
        /\ custody' = [custody EXCEPT ![c] = custody[c] + moved]
        /\ venue' = venue + (0 - moved)
  <2>1. custody[c] \in Nat
    BY <1>2, LedgerSums
  <2>2. CASE ReturnExternal(c, amount)
    <3>1. /\ custody' = [custody EXCEPT ![c] = custody[c] + amount]
          /\ venue' = venue + (0 - amount)
      BY <1>1, <2>2 DEF ReturnExternal
    <3>2. amount \in Int /\ custody[c] + amount \in Nat
      BY <2>1
    <3> QED
      BY <3>1, <3>2, Zenon
  <2>3. CASE \E d \in Destinations : InvestExternal(d, c, amount)
    <3> DEFINE moved == 0 - amount
    <3>1. /\ amount <= custody[c]
          /\ custody' = [custody EXCEPT ![c] = custody[c] - amount]
          /\ venue' = venue + amount
      BY <2>3 DEF InvestExternal
    <3>2. /\ moved \in Int /\ custody[c] + moved = custody[c] - amount
          /\ custody[c] + moved \in Nat /\ 0 - moved = amount
      BY <2>1, <3>1
    <3> HIDE DEF moved
    <3>3. /\ custody' = [custody EXCEPT ![c] = custody[c] + moved]
          /\ venue' = venue + (0 - moved)
      BY <3>1, <3>2
    <3> QED
      BY <3>2, <3>3, Zenon
  <2> QED
    BY <2>2, <2>3
<1>4. /\ forgiven' = forgiven
      /\ \E basis : vault' = [vault EXCEPT !.external_assets = basis]
  BY DEF InvestExternal, ReturnExternal
<1>5. /\ vault'.total_assets = vault.total_assets + 0
      /\ vault'.fees_payable = vault.fees_payable + 0
      /\ forgiven' = forgiven + 0
  BY <1>1, <1>4 DEF VaultRecord
<1>6. SumFunction(custody') = SumFunction(custody) + ((custody[c] + moved) - custody[c])
  BY <1>2, <1>3, OneCustody
<1>7. SumFunction(custody') = SumFunction(custody) + moved
  <2>1. custody[c] \in Nat
    BY <1>2, LedgerSums
  <2> QED
    BY <1>1, <1>3, <1>6, <2>1
<1>8. moved \in Int /\ 0 \in Int /\ 0 - moved \in Int /\ moved + (0 - moved) = 0 + 0 + 0
  BY <1>3
<1>9. venue' = venue + (0 - moved)
  BY <1>3
<1> QED
  BY <1>5, <1>7, <1>8, <1>9, BooksMove, SMTT(60)

\* Fees leave with the liability, or are forgiven with it.
LEMMA FeesBooks ==
    ASSUME Inv, Inv', BooksBalance, NEW amount \in Nat,
           \/ \E c \in Custodies : CollectFees(c, amount)
           \/ WriteDownFees(amount)
    PROVE  BooksBalance'
<1>1. /\ vault \in VaultRecord /\ vault.total_assets \in Nat /\ vault.fees_payable \in Nat
      /\ SumFunction(custody) \in Nat /\ venue \in Int /\ forgiven \in Nat
  BY BooksFacts
<1>2. RestOK /\ RestOK'
  BY InvSplit, InvSplitNext
<1>3. /\ vault' = [vault EXCEPT !.fees_payable = vault.fees_payable - amount]
      /\ venue' = venue
  BY DEF CollectFees, WriteDownFees, aux_vars
<1>4. /\ vault'.total_assets = vault.total_assets + 0
      /\ vault'.fees_payable = vault.fees_payable + (0 - amount)
      /\ venue' = venue + 0
  BY <1>1, <1>3 DEF VaultRecord
<1>5. CASE WriteDownFees(amount)
  <2>1. SumFunction(custody') = SumFunction(custody) + 0 /\ forgiven' = forgiven + amount
    BY <1>1, <1>5 DEF WriteDownFees
  <2>2. 0 - amount \in Int /\ 0 + 0 = 0 + (0 - amount) + amount
    OBVIOUS
  <2> QED
    BY <1>4, <2>1, <2>2, BooksMove
<1>6. CASE \E c \in Custodies : CollectFees(c, amount)
  <2>1. PICK c \in Custodies : CollectFees(c, amount)
    BY <1>6
  <2>2. /\ amount <= custody[c]
        /\ custody' = [custody EXCEPT ![c] = custody[c] - amount]
        /\ forgiven' = forgiven + 0
    BY <1>1, <2>1 DEF CollectFees, aux_vars
  <2>3. custody[c] \in Nat /\ custody[c] - amount \in Nat
    BY <1>2, <2>2, LedgerSums
  <2>4. SumFunction(custody') = SumFunction(custody) + ((custody[c] - amount) - custody[c])
    BY <1>2, <2>2, <2>3, OneCustody
  <2>5. SumFunction(custody') = SumFunction(custody) + (0 - amount)
    BY <1>1, <2>3, <2>4
  <2>6. 0 \in Int /\ 0 - amount \in Int /\ (0 - amount) + 0 = 0 + (0 - amount) + 0
    OBVIOUS
  <2>7. forgiven' = forgiven + 0
    BY <2>2
  <2> QED
    BY <1>4, <2>5, <2>6, <2>7, BooksMove, SMTT(60)
<1> QED
  BY <1>5, <1>6

-----------------------------------------------------------------------------
(* The theorem.                                                              *)

\* Every step keeps the books balanced.
LEMMA NextBooks == Inv /\ BooksBalance /\ [Next]_vars => BooksBalance'
<1> SUFFICES ASSUME Inv, BooksBalance, [Next]_vars PROVE BooksBalance'
  OBVIOUS
<1>1. Inv'
  BY NextInv
<1>2. ASSUME NEW u \in Users,
             \/ \E amount \in DepositAmounts : Deposit(u, amount)
             \/ \E base_atoms \in AssetValues : DepositAsset(u, base_atoms)
      PROVE  BooksBalance'
  BY <1>1, <1>2, VaultAssumption, DepositBooks
<1>3. ASSUME NEW u \in Users, NEW i \in TicketIndexes,
             (\E amount \in ShareAmounts : Redeem(u, i, amount)) \/ CancelRedeem(u, i)
      PROVE  BooksBalance'
  BY <1>1, <1>3, TicketBooks
<1>4. ASSUME NEW u \in Users, NEW amount \in AtomicAmounts, NEW c \in Custodies,
             NEW received \in 0..assets_for_shares(amount, effective, economic_share_supply),
             AtomicRedeem(u, amount, c, received)
      PROVE  BooksBalance'
  <2>1. amount \in Nat
    BY VaultAssumption
  <2>2. received \in Nat
    BY <2>1, ReceivedNat
  <2> QED
    BY <1>1, <1>4, <2>1, <2>2, AtomicBooks
<1>5. ASSUME NEW batch \in Batches, NEW c \in Custodies, ProcessWithdrawals(batch, c)
      PROVE  BooksBalance'
  BY <1>1, <1>5, ProcessBooks
<1>6. ASSUME NEW value \in ExternalValues, ReportNav(value) \/ RecoverNav(value)
      PROVE  BooksBalance'
  BY <1>1, <1>6, VaultAssumption, ReportBooks DEF ReportNav, RecoverNav
<1>7. ASSUME NEW c \in Custodies, NEW amount \in MoveAmounts,
             \/ \E d \in Destinations : InvestExternal(d, c, amount)
             \/ ReturnExternal(c, amount)
      PROVE  BooksBalance'
  BY <1>1, <1>7, VaultAssumption, ExternalBooks
<1>8. ASSUME NEW amount \in MoveAmounts,
             \/ \E c \in Custodies : CollectFees(c, amount)
             \/ WriteDownFees(amount)
      PROVE  BooksBalance'
  BY <1>1, <1>8, VaultAssumption, FeesBooks
<1>9. ASSUME UNCHANGED <<vault, custody, aux_vars>> PROVE BooksBalance'
  BY <1>9 DEF BooksBalance, aux_vars
<1>10. CASE UserStep
  BY <1>2, <1>3, <1>4, <1>10 DEF UserStep
<1>11. CASE AuthorityStep
  BY <1>5, <1>6, <1>7, <1>11 DEF AuthorityStep
<1>12. CASE AdminStep
  BY <1>8, <1>9, <1>12
     DEF AdminStep, SetPauseFlags, SetVaultAccess, UpdateVaultConfig,
         RegisterExternalDestination, RevokeExternalDestination
<1>13. CASE AdvanceClock
  BY <1>9, <1>13 DEF AdvanceClock
<1>14. CASE UNCHANGED vars
  BY <1>9, <1>14 DEF vars
<1> QED
  BY <1>10, <1>11, <1>12, <1>13, <1>14 DEF Next

\* An empty vault balances.
LEMMA InitBooks == Init => BooksBalance
<1> SUFFICES ASSUME Init PROVE BooksBalance
  OBVIOUS
<1>1. RestOK
  BY InitInv, InvSplit
<1>2. \A c \in Custodies : custody[c] = 0
  BY DEF Init
<1>3. SumFunction(custody) = 0
  BY <1>1, <1>2, FiniteLedgers, SumZero, LedgerSums
<1> QED
  BY <1>3 DEF Init, new_vault, BooksBalance

(***************************************************************************)
(* The books balance in every reachable state: deposits, exits, custody    *)
(* moves and fee payments change the tokens held and the vault's counters  *)
(* by the same amount, and a report closes the gap to what it reads.       *)
(***************************************************************************)
THEOREM BooksAlwaysBalance == Spec => []BooksBalance
<1>1. Init => Inv /\ BooksBalance
  BY InitInv, InitBooks
<1>2. (Inv /\ BooksBalance) /\ [Next]_vars => (Inv /\ BooksBalance)'
  BY NextInv, NextBooks
<1> QED
  BY <1>1, <1>2, PTL DEF Spec

-----------------------------------------------------------------------------
(* Two kinds of steps: reports and the rest.                                 *)

ReportStep == \E value \in ExternalValues : ReportNav(value) \/ RecoverNav(value)

\* Fees are only paid, the watermark and the epoch stand still, and the unlock
\* line is at most re-anchored.
QuietStep ==
    /\ vault'.report_epoch = vault.report_epoch
    /\ vault'.high_watermark = vault.high_watermark
    /\ vault'.fees_payable <= vault.fees_payable
    /\ Reanchored(vault, vault', now)
    /\ now <= now' /\ now' \in Nat
    /\ now' # now => vault' = vault

\* What a turn of a settlement that goes through leaves alone.
Quiet(r) ==
    /\ r.v.report_epoch = vault.report_epoch
    /\ r.v.high_watermark = vault.high_watermark
    /\ Reanchored(vault, r.v, now)

\* A strike is a payout at effective NAV.
LEMMA StrikeReanchors ==
    ASSUME now \in Nat, NEW v \in VaultRecord, NEW t, NEW w, w = strike_ticket(v, t)
    PROVE  /\ w.locked_profit = remaining_locked_profit(v, now)
           /\ w.profit_unlock_start_ts = IF remaining_locked_profit(v, now) > 0
                                         THEN now ELSE v.profit_unlock_start_ts
           /\ w.profit_unlock_end_ts = v.profit_unlock_end_ts
           /\ w.high_watermark = v.high_watermark
           /\ w.report_epoch = v.report_epoch
<1> DEFINE owed == strike_owed(v, t)
           d == debit_assets_at_effective(v, owed, now)
           queued == d.requested_withdrawal_shares - t.shares_burned
           pending == d.pending_withdrawal_assets + owed
<1>1. w = [d EXCEPT !.requested_withdrawal_shares = queued,
                    !.pending_withdrawal_assets = pending]
  BY DEF strike_ticket
<1>2. DOMAIN d = DOMAIN v
  BY DEF debit_assets_at_effective
<1>3. d = debit_assets_at_effective(v, owed, now)
  OBVIOUS
<1> HIDE DEF d, queued, pending, owed
<1>4. /\ w.locked_profit = d.locked_profit
      /\ w.profit_unlock_start_ts = d.profit_unlock_start_ts
      /\ w.profit_unlock_end_ts = d.profit_unlock_end_ts
      /\ w.high_watermark = d.high_watermark
      /\ w.report_epoch = d.report_epoch
  BY <1>1, <1>2 DEF VaultRecord
<1> QED
  BY <1>3, <1>4, DebitReanchors

\* A turn of a settlement is a strike the ticket was due for.
LEMMA TurnStrikes ==
    ASSUME NEW r, NEW t, t.assets_owed = 0, settle_next(r, t).ok
    PROVE  /\ r.ok /\ can_strike(r.v, t)
           /\ settle_next(r, t).v = strike_ticket(r.v, t)
<1> DEFINE passed == r.ok /\ can_strike(r.v, t)
           w == strike_ticket(r.v, t)
           paid == r.settled + strike_owed(r.v, t)
<1>1. settle_next(r, t) = [v |-> w, settled |-> paid, ok |-> passed]
  BY DEF settle_next
<1> HIDE DEF passed, w, paid
<1>2. settle_next(r, t).ok = passed /\ settle_next(r, t).v = w
  BY <1>1
<1> QED
  BY <1>2 DEF passed, w

\* A batch that goes through is quiet, and struck only tickets that were due.
LEMMA SettlementQuiet ==
    ASSUME Inv, NEW batch \in Batches, Settlement(batch).ok
    PROVE  /\ Quiet(Settlement(batch))
           /\ \A i \in 1..Len(batch) : strike_eligible(tickets[batch[i]])
<1> DEFINE n == Len(batch)
<1>1. batch \in Seq(TicketKeys) /\ n \in Nat
  BY BatchIsSeq
<1>2. PICK run : SettlementRun(batch, n, run) /\ Settlement(batch) = run[n]
  BY <1>1, SettlementIsRun
<1>3. /\ now \in Nat /\ vault \in VaultRecord /\ validate_state(vault)
      /\ \A k \in TicketKeys : tickets[k] \in Ticket /\ tickets[k].assets_owed = 0
  BY StateFacts DEF VaultInv, RestOK
<1>4. run[0] = [v |-> vault, settled |-> 0, ok |-> TRUE]
  BY <1>1, <1>2, RunFirst
<1>5. \A i \in 0..n : run[i].ok => Settles(run[i])
  BY <1>1, <1>2, RunSettles
<1> DEFINE Holds(i) == /\ Quiet(run[i])
                       /\ \A j \in 1..i : strike_eligible(tickets[batch[j]])
           Bad == {i \in 0..n : run[i].ok /\ ~Holds(i)}
<1>6. Bad = {}
  <2> SUFFICES ASSUME Bad # {} PROVE FALSE
    OBVIOUS
  <2>1. PICK i \in Bad : \A j \in Bad : i <= j
    <3>1. Bad \in SUBSET Nat
      BY <1>1
    <3> HIDE DEF Bad
    <3> QED
      BY <3>1, LeastNat
  <2>2. i \in 0..n /\ run[i].ok /\ ~Holds(i)
    BY <2>1
  <2>3. CASE i = 0
    <3>1. Quiet(run[0])
      BY <1>4 DEF Quiet, Reanchored
    <3> QED
      BY <2>2, <2>3, <3>1
  <2>4. CASE i # 0
    <3> DEFINE r == run[i - 1]
               t == tickets[batch[i]]
               w == run[i].v
    <3>1. i \in 1..n /\ i - 1 \in 0..n /\ i - 1 < i /\ i \in Nat /\ i - 1 \in Nat
      BY <1>1, <2>2, <2>4
    <3>2. t \in Ticket /\ t.assets_owed = 0 /\ run[i] = settle_next(r, t)
      <4>1. batch[i] \in TicketKeys
        BY <1>1, <3>1
      <4> QED
        BY <1>1, <1>2, <1>3, <3>1, <4>1, RunTurn
    <3>3. r.ok /\ can_strike(r.v, t) /\ w = strike_ticket(r.v, t)
      <4> HIDE DEF r, t
      <4> QED
        BY <2>2, <3>2, TurnStrikes
    <3>4. Holds(i - 1)
      <4>1. i - 1 \notin Bad
        BY <2>1, <2>2, <3>1
      <4> QED
        BY <3>1, <3>3, <4>1
    <3>5. r.v \in VaultRecord /\ validate_state(r.v)
      BY <1>5, <3>1, <3>3 DEF Settles
    <3>6. Quiet(r)
      BY <3>4
    <3> HIDE DEF r, w
    <3>7. Quiet(run[i])
      <4> HIDE DEF t
      <4>1. /\ w.locked_profit = remaining_locked_profit(r.v, now)
            /\ w.profit_unlock_start_ts = IF remaining_locked_profit(r.v, now) > 0
                                          THEN now ELSE r.v.profit_unlock_start_ts
            /\ w.profit_unlock_end_ts = r.v.profit_unlock_end_ts
            /\ w.high_watermark = r.v.high_watermark
            /\ w.report_epoch = r.v.report_epoch
        BY <1>3, <3>3, <3>5, StrikeReanchors
      <4>2. Reanchored(vault, r.v, now)
        BY <3>6 DEF Quiet
      <4>3. Reanchored(vault, w, now)
        BY <1>3, <3>5, <4>1, <4>2, ReanchoredTwice
      <4> QED
        BY <3>6, <4>1, <4>3 DEF Quiet, w
    <3>8. \A j \in 1..i : strike_eligible(tickets[batch[j]])
      <4>1. strike_eligible(t)
        BY <3>3 DEF can_strike
      <4>2. \A j \in 1..i : j = i \/ j \in 1..(i - 1)
        BY <3>1
      <4> QED
        BY <3>4, <4>1, <4>2
    <3> QED
      BY <2>2, <3>7, <3>8
  <2> QED
    BY <2>3, <2>4
<1>7. n \in 0..n
  BY <1>1
<1>8. Holds(n)
  BY <1>2, <1>6, <1>7
<1> QED
  BY <1>2, <1>8

\* A step that moves only the other fields of the account is quiet.
LEMMA QuietFields ==
    ASSUME Inv, now' = now,
           vault'.fees_payable <= vault.fees_payable,
           vault'.report_epoch = vault.report_epoch,
           vault'.high_watermark = vault.high_watermark,
           vault'.locked_profit = vault.locked_profit,
           vault'.profit_unlock_start_ts = vault.profit_unlock_start_ts,
           vault'.profit_unlock_end_ts = vault.profit_unlock_end_ts
    PROVE  QuietStep
<1>1. now \in Nat
  BY StateFacts DEF RestOK
<1> QED
  BY <1>1 DEF QuietStep, Reanchored

\* A batch is quiet.
LEMMA ProcessQuiet ==
    ASSUME Inv, NEW batch \in Batches, NEW c \in Custodies, ProcessWithdrawals(batch, c)
    PROVE  QuietStep
<1> DEFINE end == Settlement(batch)
           pending == end.v.pending_withdrawal_assets - end.settled
<1>1. end.ok /\ now' = now /\ vault' = [end.v EXCEPT !.pending_withdrawal_assets = pending]
  BY DEF ProcessWithdrawals, clock_vars
<1>2. end.v \in VaultRecord /\ end.v.fees_payable = vault.fees_payable
  BY <1>1, SettlementSettles DEF Settles
<1>3. Quiet(end)
  BY <1>1, SettlementQuiet
<1> HIDE DEF end, pending
<1>4. /\ vault'.fees_payable = end.v.fees_payable
      /\ vault'.report_epoch = end.v.report_epoch
      /\ vault'.high_watermark = end.v.high_watermark
      /\ vault'.locked_profit = end.v.locked_profit
      /\ vault'.profit_unlock_start_ts = end.v.profit_unlock_start_ts
      /\ vault'.profit_unlock_end_ts = end.v.profit_unlock_end_ts
  BY <1>1, <1>2 DEF VaultRecord
<1>5. now \in Nat /\ vault.fees_payable \in Nat
  BY StateFacts, RecordFields DEF RestOK, VaultInv
<1> QED
  BY <1>1, <1>2, <1>3, <1>4, <1>5 DEF QuietStep, Quiet, Reanchored

\* An atomic exit is quiet.
LEMMA AtomicQuiet ==
    ASSUME Inv, NEW u \in Users, NEW amount \in Nat, NEW c \in Custodies,
           NEW received \in Nat, AtomicRedeem(u, amount, c, received)
    PROVE  QuietStep
<1> DEFINE payout == received - bps_ceil(received, config.atomic_redeem_fee_bps)
<1>1. vault' = debit_assets_at_effective(vault, payout, now) /\ now' = now
  BY DEF AtomicRedeem, clock_vars
<1>2. vault \in VaultRecord /\ now \in Nat
  BY StateFacts DEF VaultInv, RestOK
<1>3. vault'.fees_payable = vault.fees_payable
  BY <1>1, <1>2 DEF debit_assets_at_effective, VaultRecord
<1> HIDE DEF payout
<1>4. /\ vault'.high_watermark = vault.high_watermark
      /\ vault'.report_epoch = vault.report_epoch
      /\ Reanchored(vault, vault', now)
  BY <1>1, <1>2, DebitReanchors
<1>5. vault.fees_payable \in Nat
  BY <1>2, RecordFields
<1> QED
  BY <1>1, <1>2, <1>3, <1>4, <1>5 DEF QuietStep

\* Every step is a report or quiet.
LEMMA StepKinds == Inv /\ [Next]_vars => ReportStep \/ QuietStep
<1> SUFFICES ASSUME Inv, [Next]_vars, ~ReportStep PROVE QuietStep
  OBVIOUS
<1>1. vault \in VaultRecord /\ vault.fees_payable \in Nat /\ now \in Nat
  BY StateFacts, RecordFields DEF VaultInv, RestOK
<1>2. ASSUME now' = now,
             \/ \E x : vault' = [vault EXCEPT !.total_assets = x]
             \/ \E x : vault' = [vault EXCEPT !.requested_withdrawal_shares = x]
             \/ \E x : vault' = [vault EXCEPT !.external_assets = x]
             \/ vault' = vault
      PROVE  QuietStep
  <2>1. /\ vault'.fees_payable = vault.fees_payable
        /\ vault'.report_epoch = vault.report_epoch
        /\ vault'.high_watermark = vault.high_watermark
        /\ vault'.locked_profit = vault.locked_profit
        /\ vault'.profit_unlock_start_ts = vault.profit_unlock_start_ts
        /\ vault'.profit_unlock_end_ts = vault.profit_unlock_end_ts
    BY <1>1, <1>2 DEF VaultRecord
  <2> QED
    BY <1>1, <1>2, <2>1, QuietFields
<1>3. ASSUME NEW u \in Users, NEW amount, execute_deposit(u, amount) PROVE QuietStep
  BY <1>2, <1>3 DEF execute_deposit, clock_vars
<1>4. ASSUME NEW u \in Users, NEW i \in TicketIndexes,
             \/ \E amount \in ShareAmounts : Redeem(u, i, amount)
             \/ CancelRedeem(u, i)
      PROVE  QuietStep
  BY <1>2, <1>4 DEF Redeem, CancelRedeem, clock_vars
<1>5. ASSUME NEW u \in Users, NEW amount \in AtomicAmounts, NEW c \in Custodies,
             NEW received \in 0..assets_for_shares(amount, effective, economic_share_supply),
             AtomicRedeem(u, amount, c, received)
      PROVE  QuietStep
  <2>1. amount \in Nat
    BY VaultAssumption
  <2>2. received \in Nat
    BY <2>1, ReceivedNat
  <2> QED
    BY <1>5, <2>1, <2>2, AtomicQuiet
<1>6. ASSUME NEW batch \in Batches, NEW c \in Custodies, ProcessWithdrawals(batch, c)
      PROVE  QuietStep
  BY <1>6, ProcessQuiet
<1>7. ASSUME NEW c \in Custodies, NEW amount,
             \/ \E d \in Destinations : InvestExternal(d, c, amount)
             \/ ReturnExternal(c, amount)
      PROVE  QuietStep
  BY <1>2, <1>7 DEF InvestExternal, ReturnExternal, clock_vars
<1>8. ASSUME NEW amount \in MoveAmounts,
             \/ \E c \in Custodies : CollectFees(c, amount)
             \/ WriteDownFees(amount)
      PROVE  QuietStep
  <2> DEFINE fees == vault.fees_payable - amount
  <2>1. now' = now /\ vault' = [vault EXCEPT !.fees_payable = fees]
    BY <1>8 DEF CollectFees, WriteDownFees, clock_vars
  <2>2. amount \in Nat /\ fees <= vault.fees_payable
    BY <1>1, VaultAssumption
  <2> HIDE DEF fees
  <2>3. /\ vault'.fees_payable = fees
        /\ vault'.report_epoch = vault.report_epoch
        /\ vault'.high_watermark = vault.high_watermark
        /\ vault'.locked_profit = vault.locked_profit
        /\ vault'.profit_unlock_start_ts = vault.profit_unlock_start_ts
        /\ vault'.profit_unlock_end_ts = vault.profit_unlock_end_ts
    BY <1>1, <2>1 DEF VaultRecord
  <2> QED
    BY <2>1, <2>2, <2>3, QuietFields
<1>9. ASSUME \/ \E flags \in PauseSettings : SetPauseFlags(flags)
             \/ \E mode \in AccessSettings : SetVaultAccess(mode)
             \/ \E cfg \in Configs : UpdateVaultConfig(cfg)
             \/ \E d \in Destinations : RegisterExternalDestination(d)
             \/ \E d \in Destinations : RevokeExternalDestination(d)
             \/ UNCHANGED vars
      PROVE  QuietStep
  BY <1>2, <1>9 DEF SetPauseFlags, SetVaultAccess, UpdateVaultConfig,
                    RegisterExternalDestination, RevokeExternalDestination, vars, clock_vars
<1>10. CASE AdvanceClock
  <2>1. now' \in Nat /\ now <= now' /\ vault' = vault
    BY <1>1, <1>10, VaultAssumption DEF AdvanceClock
  <2> QED
    BY <1>1, <2>1 DEF QuietStep, Reanchored
<1>11. CASE UserStep
  BY <1>3, <1>4, <1>5, <1>11 DEF UserStep, Deposit, DepositAsset
<1>12. CASE AuthorityStep
  BY <1>6, <1>7, <1>12 DEF AuthorityStep, ReportStep
<1>13. CASE AdminStep
  BY <1>8, <1>9, <1>13 DEF AdminStep
<1> QED
  BY <1>9, <1>10, <1>11, <1>12, <1>13 DEF Next

(***************************************************************************)
(* A report: the net NAV is recognized, the fee is booked on top of the    *)
(* liability and leaves the price at the watermark or above, the unlock    *)
(* window starts now, and effective NAV is not lifted when a gain can drip.*)
(***************************************************************************)
LEMMA ReportFacts ==
    ASSUME Inv, NEW external_value \in Nat, apply_nav_report(external_value),
           NEW outcome, outcome = report_outcome(external_value)
    PROVE  /\ vault'.total_assets = outcome.net
           /\ vault'.report_epoch = vault.report_epoch + 1
           /\ vault'.profit_unlock_start_ts = now
           /\ vault'.high_watermark >= vault.high_watermark
           /\ vault'.fees_payable > vault.fees_payable =>
                /\ vault.high_watermark # 0
                /\ share_price_from_assets(vault'.total_assets, economic_share_supply)
                     >= vault.high_watermark
           /\ config.max_unlock_duration_secs > 0 /\ now > vault.last_update_ts
                => effective' <= effective
           /\ now' = now
<1> DEFINE gross == (idle_base + external_value) - vault.fees_payable
                      - vault.pending_withdrawal_assets
           fees == vault.fees_payable + outcome.fee
           booked == [vault EXCEPT !.fees_payable = fees,
                                   !.high_watermark = outcome.high_watermark,
                                   !.report_epoch = vault.report_epoch + 1]
           applied == apply_reported_nav(booked, config, outcome.net, now)
<1>1. /\ VaultInv(vault) /\ RestOK /\ economic_share_supply \in Nat
      /\ vault \in VaultRecord /\ validate_state(vault)
      /\ vault.pending_withdrawal_assets = 0 /\ now \in Nat /\ config \in ConfigRecord
  BY StateFacts, VaultAssumption DEF VaultInv, RestOK
<1>2. /\ vault.fees_payable \in Nat /\ vault.high_watermark \in U64
      /\ vault.report_epoch \in Nat
  BY <1>1, RecordFields
<1>3. idle_base \in Nat
  <2>1. /\ ata(config.deposit_sub_account) \in Custodies
        /\ ata(config.withdraw_sub_account) \in Custodies
    BY <1>1, VaultAssumption DEF ata, ConfigRecord
  <2> QED
    BY <1>1, <2>1, MathAssumption DEF RestOK, U64, idle_base
<1>4. /\ idle_base + external_value <= MaxU64
      /\ vault.fees_payable + vault.pending_withdrawal_assets <= idle_base + external_value
      /\ performance_fee_fits(gross, economic_share_supply)
      /\ fees <= MaxU64
      /\ vault' = [applied EXCEPT !.last_update_ts = now]
      /\ now' = now
  <2>1. /\ fits_u64(idle_base + external_value)
        /\ vault.fees_payable + vault.pending_withdrawal_assets <= idle_base + external_value
        /\ performance_fee_fits(gross, economic_share_supply)
        /\ fits_u64(fees)
    BY DEF apply_nav_report
  <2>2. vault' = reported_vault(outcome) /\ UNCHANGED clock_vars
    BY DEF apply_nav_report
  <2>3. reported_vault(outcome) = [applied EXCEPT !.last_update_ts = now]
    BY DEF reported_vault
  <2> HIDE DEF gross, fees, applied
  <2> QED
    BY <2>1, <2>2, <2>3 DEF fits_u64, clock_vars
<1>5. gross \in U64 /\ gross \in Nat
  BY <1>1, <1>2, <1>3, <1>4, MathAssumption DEF U64
<1>6. outcome = performance_fee_for_nav(gross, economic_share_supply, vault.high_watermark,
                                        config.performance_fee_bps)
  BY DEF report_outcome
<1>7. config.performance_fee_bps \in 0..BPS_DENOMINATOR
  BY <1>1 DEF ConfigRecord, Bps
<1> HIDE DEF gross
<1>8. /\ outcome.fee \in 0..gross /\ outcome.net = gross - outcome.fee
      /\ outcome.high_watermark \in U64 /\ outcome.high_watermark >= vault.high_watermark
  BY <1>1, <1>2, <1>4, <1>5, <1>6, <1>7, PerformanceFeeFacts
<1>9. outcome.fee # 0 =>
        /\ vault.high_watermark # 0
        /\ share_price_from_assets(outcome.net, economic_share_supply) >= vault.high_watermark
  BY <1>1, <1>2, <1>5, <1>6, <1>7, FeeKeepsWatermark
<1>10. /\ fees \in U64 /\ outcome.net \in U64 /\ vault.report_epoch + 1 \in Nat
       /\ fees > vault.fees_payable => outcome.fee # 0
  BY <1>2, <1>4, <1>5, <1>8, MathAssumption DEF U64
<1> HIDE DEF fees
<1>11. booked \in VaultRecord
  BY <1>1, <1>8, <1>10 DEF VaultRecord
<1>12. /\ booked.total_assets = vault.total_assets
       /\ booked.locked_profit = vault.locked_profit
       /\ booked.profit_unlock_start_ts = vault.profit_unlock_start_ts
       /\ booked.profit_unlock_end_ts = vault.profit_unlock_end_ts
       /\ booked.last_update_ts = vault.last_update_ts
       /\ booked.high_watermark = outcome.high_watermark
       /\ booked.report_epoch = vault.report_epoch + 1
       /\ booked.fees_payable = fees
  BY <1>1 DEF VaultRecord
<1>13. applied = apply_reported_nav(booked, config, outcome.net, now)
  OBVIOUS
<1> HIDE DEF booked, applied
<1>14. validate_state(booked) /\ effective_total_assets(booked, now) = effective
  BY <1>1, <1>12 DEF validate_state, effective, effective_total_assets, remaining_locked_profit
<1>15. /\ applied \in VaultRecord /\ applied.total_assets = outcome.net
       /\ applied.fees_payable = fees
  BY <1>1, <1>10, <1>11, <1>12, <1>13, <1>14, ReportedFacts
<1>16. /\ applied.profit_unlock_start_ts = now
       /\ applied.high_watermark = outcome.high_watermark
       /\ applied.report_epoch = vault.report_epoch + 1
  <2> DEFINE window == IF outcome.net > effective_total_assets(booked, now)
                       THEN unlock_window(booked, config, now) ELSE 0
             lock == IF window = 0 THEN 0
                     ELSE outcome.net - effective_total_assets(booked, now)
  <2>1. applied = [booked EXCEPT !.locked_profit = lock,
                                 !.profit_unlock_start_ts = now,
                                 !.profit_unlock_end_ts = now + window,
                                 !.total_assets = outcome.net]
    BY <1>13 DEF apply_reported_nav
  <2> HIDE DEF window, lock
  <2> QED
    BY <1>11, <1>12, <2>1 DEF VaultRecord
<1>17. config.max_unlock_duration_secs > 0 /\ now > vault.last_update_ts
         => effective_total_assets(applied, now) <= effective
  BY <1>1, <1>10, <1>11, <1>12, <1>13, <1>14, ReportedNeverLifts
<1>18. /\ vault'.total_assets = applied.total_assets
       /\ vault'.fees_payable = applied.fees_payable
       /\ vault'.high_watermark = applied.high_watermark
       /\ vault'.report_epoch = applied.report_epoch
       /\ vault'.locked_profit = applied.locked_profit
       /\ vault'.profit_unlock_start_ts = applied.profit_unlock_start_ts
       /\ vault'.profit_unlock_end_ts = applied.profit_unlock_end_ts
  BY <1>4, <1>15 DEF VaultRecord
<1>19. effective' = effective_total_assets(applied, now)
  BY <1>4, <1>18 DEF effective, effective_total_assets, remaining_locked_profit
<1> QED
  BY <1>4, <1>8, <1>9, <1>10, <1>15, <1>16, <1>17, <1>18, <1>19

-----------------------------------------------------------------------------
(* Action properties of reports.                                             *)

(***************************************************************************)
(* Performance fees are charged only above the high watermark, which never *)
(* falls: for every NAV, share count, fee rate and rounding, and with      *)
(* every share gone in between.                                            *)
(***************************************************************************)
THEOREM FeesAreEarned == Spec => FeesOnlyAboveWatermark
<1> DEFINE Charged == /\ vault'.high_watermark >= vault.high_watermark
                      /\ vault'.fees_payable > vault.fees_payable =>
                           /\ vault.high_watermark # 0
                           /\ share_price_from_assets(vault'.total_assets, economic_share_supply)
                                >= vault.high_watermark
<1>1. ASSUME Inv, [Next]_vars PROVE [Charged]_vars
  <2>1. CASE ReportStep
    <3>1. PICK value \in ExternalValues : apply_nav_report(value)
      BY <2>1 DEF ReportStep, ReportNav, RecoverNav
    <3>2. value \in Nat
      BY VaultAssumption
    <3> QED
      BY <1>1, <3>1, <3>2, ReportFacts
  <2>2. CASE QuietStep
    <3>1. vault.high_watermark \in Nat /\ vault.fees_payable \in Nat
      BY <1>1, StateFacts, RecordFields, MathAssumption DEF VaultInv, U64
    <3>2. vault'.high_watermark = vault.high_watermark /\ vault'.fees_payable <= vault.fees_payable
      BY <2>2 DEF QuietStep
    <3>3. vault'.fees_payable \in Nat
      <4>1. Inv'
        BY <1>1, NextInv
      <4>2. vault' \in VaultRecord
        BY <4>1, InvSplitNext DEF VaultInv
      <4> QED
        BY <4>2, RecordFields
    <3> QED
      BY <3>1, <3>2, <3>3
  <2> QED
    BY <1>1, <2>1, <2>2, StepKinds
<1> QED
  BY <1>1, InitInv, NextInv, PTL DEF Spec, FeesOnlyAboveWatermark

(***************************************************************************)
(* With smoothing on, no report in a later second lifts the NAV shares are *)
(* priced at, whatever it reports and whatever still drips.                *)
(***************************************************************************)
THEOREM ReportsNeverLift == Spec => ReportNeverLiftsPrice
<1> DEFINE Kept == IsReport /\ config.max_unlock_duration_secs > 0
                     /\ now > vault.last_update_ts => effective' <= effective
<1>1. ASSUME Inv, [Next]_vars PROVE [Kept]_vars
  <2>1. CASE ReportStep
    <3>1. PICK value \in ExternalValues : apply_nav_report(value)
      BY <2>1 DEF ReportStep, ReportNav, RecoverNav
    <3>2. value \in Nat
      BY VaultAssumption
    <3> QED
      BY <1>1, <3>1, <3>2, ReportFacts
  <2>2. CASE QuietStep
    BY <2>2 DEF QuietStep, IsReport
  <2> QED
    BY <1>1, <2>1, <2>2, StepKinds
<1> QED
  BY <1>1, InitInv, NextInv, PTL DEF Spec, ReportNeverLiftsPrice

(***************************************************************************)
(* No report raises the NAV of a vault with a price by more than the       *)
(* bound, RecoverNav included.                                             *)
(***************************************************************************)
THEOREM ReportsStayInBounds == Spec => GainsBounded
<1> DEFINE Bounded == /\ IsReport
                      /\ config.max_nav_gain_bps # 0 /\ economic_share_supply # 0
                      /\ share_price_from_assets(vault.total_assets, economic_share_supply) # 0
                      => vault'.total_assets * BPS_DENOMINATOR
                           <= vault.total_assets * (BPS_DENOMINATOR + config.max_nav_gain_bps)
<1>1. ASSUME Inv, [Next]_vars PROVE [Bounded]_vars
  <2>1. CASE ReportStep
    <3>1. PICK value \in ExternalValues : ReportNav(value) \/ RecoverNav(value)
      BY <2>1 DEF ReportStep
    <3>2. value \in Nat /\ apply_nav_report(value)
      BY <3>1, VaultAssumption DEF ReportNav, RecoverNav
    <3>3. vault'.total_assets = report_outcome(value).net
      BY <1>1, <3>2, ReportFacts
    <3>4. CASE ReportNav(value)
      BY <3>3, <3>4 DEF ReportNav, verify_nav_gain_bound
    <3>5. CASE RecoverNav(value)
      BY <3>5 DEF RecoverNav, recoverable
    <3> QED
      BY <3>1, <3>4, <3>5
  <2>2. CASE QuietStep
    BY <2>2 DEF QuietStep, IsReport
  <2> QED
    BY <1>1, <2>1, <2>2, StepKinds
<1> QED
  BY <1>1, InitInv, NextInv, PTL DEF Spec, GainsBounded

-----------------------------------------------------------------------------
(* The unlock line.                                                          *)

\* Unlocking has begun: no window starts in the future.
WindowOpened == vault.profit_unlock_start_ts <= now

LEMMA NextWindow == Inv /\ WindowOpened /\ [Next]_vars => WindowOpened'
<1> SUFFICES ASSUME Inv, WindowOpened, [Next]_vars PROVE WindowOpened'
  OBVIOUS
<1>1. now \in Nat /\ vault.profit_unlock_start_ts \in Nat
  BY StateFacts, RecordFields DEF RestOK, VaultInv
<1>2. CASE ReportStep
  <2>1. PICK value \in ExternalValues : apply_nav_report(value)
    BY <1>2 DEF ReportStep, ReportNav, RecoverNav
  <2>2. value \in Nat
    BY VaultAssumption
  <2>3. vault'.profit_unlock_start_ts = now /\ now' = now
    BY <2>1, <2>2, ReportFacts
  <2> QED
    BY <1>1, <2>3 DEF WindowOpened
<1>3. CASE QuietStep
  BY <1>1, <1>3 DEF QuietStep, Reanchored, WindowOpened
<1> QED
  BY <1>2, <1>3, StepKinds

(***************************************************************************)
(* Between reports the profit still locked at any later instant is what    *)
(* the last report fixed, or one atom less per payout: no payout stretches *)
(* or shortens the drip.                                                   *)
(***************************************************************************)
THEOREM PayoutsKeepTheLine == Spec => PayoutKeepsUnlockLine
<1> DEFINE Later == now'..Larger(now', vault.profit_unlock_end_ts)
           SameLine == ~IsReport =>
                         \A t \in Later :
                            remaining_locked_profit(vault', t)
                              \in {remaining_locked_profit(vault, t),
                                   remaining_locked_profit(vault, t) - 1}
<1>1. Init => WindowOpened
  BY VaultAssumption DEF Init, WindowOpened, new_vault
<1>2. ASSUME Inv, WindowOpened, [Next]_vars PROVE [SameLine]_vars
  <2>1. Inv'
    BY <1>2, NextInv
  <2>2. /\ vault \in VaultRecord /\ validate_state(vault) /\ now \in Nat
        /\ vault' \in VaultRecord /\ validate_state(vault')
    BY <1>2, <2>1, StateFacts, InvSplitNext DEF VaultInv, RestOK
  <2>3. CASE ReportStep
    <3>1. PICK value \in ExternalValues : apply_nav_report(value)
      BY <2>3 DEF ReportStep, ReportNav, RecoverNav
    <3>2. value \in Nat
      BY VaultAssumption
    <3>3. vault'.report_epoch = vault.report_epoch + 1
      BY <1>2, <3>1, <3>2, ReportFacts
    <3> QED
      BY <2>2, <3>3, RecordFields DEF IsReport
  <2>4. CASE QuietStep
    <3> SUFFICES ASSUME NEW t \in Later
                 PROVE  remaining_locked_profit(vault', t)
                          \in {remaining_locked_profit(vault, t),
                               remaining_locked_profit(vault, t) - 1}
      OBVIOUS
    <3>1. /\ now' \in Nat /\ now <= now' /\ Reanchored(vault, vault', now)
      BY <2>4 DEF QuietStep
    <3>2. vault.profit_unlock_end_ts \in Nat
      BY <2>2, RecordFields
    <3>3. t \in Nat /\ now <= t
      BY <2>2, <3>1, <3>2 DEF Larger
    <3> HIDE DEF Later
    <3> QED
      BY <1>2, <2>2, <3>1, <3>3, ReanchoredLine DEF WindowOpened
  <2> QED
    BY <1>2, <2>3, <2>4, StepKinds
<1> QED
  BY <1>1, <1>2, InitInv, NextInv, NextWindow, PTL DEF Spec, PayoutKeepsUnlockLine

-----------------------------------------------------------------------------
(* Strikes.                                                                  *)

\* The invariant and the share ledger make a due ticket strikable.
LEMMA DueIsStrikable == Inv /\ SharesAccounted => EligibleIsStrikable
<1> SUFFICES ASSUME Inv, SharesAccounted, NEW k \in TicketKeys,
                    strike_eligible(tickets[k]), fits_u64(economic_share_supply)
             PROVE  can_strike(vault, tickets[k])
  BY DEF EligibleIsStrikable
<1> DEFINE t == tickets[k]
           owed == strike_owed(vault, t)
<1>1. /\ VaultInv(vault) /\ RestOK /\ effective \in Nat /\ effective <= vault.total_assets
      /\ economic_share_supply \in Nat /\ share_supply \in Nat
  BY StateFacts
<1>2. /\ vault.total_assets \in Nat /\ vault.total_assets <= MaxU64
      /\ vault.requested_withdrawal_shares \in Nat /\ vault.pending_withdrawal_assets = 0
  BY <1>1, RecordFields DEF VaultInv
<1>3. t.shares_burned \in Nat /\ t.shares_burned <= vault.requested_withdrawal_shares
  <2>1. /\ \A x \in TicketKeys : Burned[x] \in Nat /\ Burned[x] = tickets[x].shares_burned
        /\ SumFunction(Burned) = SumFunctionOnSet(Burned, TicketKeys)
    BY <1>1, LedgerSums
  <2>2. Burned[k] <= SumFunctionOnSet(Burned, TicketKeys)
    BY <2>1, FiniteLedgers, SumCovers
  <2> QED
    BY <2>1, <2>2, SharesAccountedAs
<1>4. owed = assets_for_shares(t.shares_burned, effective, economic_share_supply)
  BY DEF strike_owed, effective, economic_share_supply
<1>5. t.shares_burned <= economic_share_supply
  BY <1>1, <1>2, <1>3 DEF economic_share_supply
<1> HIDE DEF t, owed
<1>6. owed \in 0..effective
  BY <1>1, <1>3, <1>4, <1>5, ExitWithinAssets
<1>7. /\ owed <= effective /\ effective >= 0
      /\ vault.pending_withdrawal_assets + owed <= MaxU64
  BY <1>1, <1>2, <1>6, MathAssumption
<1> QED
  BY <1>3, <1>7
     DEF can_strike, can_debit, effective, fits_u64, economic_share_supply, t, owed

(***************************************************************************)
(* A due ticket can always be struck: nothing but missing custody, or an   *)
(* economic supply that is no u64, holds a payout back.                    *)
(***************************************************************************)
THEOREM DueTicketsAreStrikable == Spec => []EligibleIsStrikable
<1>1. Init => Inv /\ SharesAccounted
  BY InitInv, InitShares
<1>2. (Inv /\ SharesAccounted) /\ [Next]_vars => (Inv /\ SharesAccounted)'
  BY NextInv, NextShares
<1> QED
  BY <1>1, <1>2, DueIsStrikable, PTL DEF Spec

-----------------------------------------------------------------------------
(* The redemption queue.                                                     *)

\* An open ticket holds shares: what the queue sees of it is never 0.
TicketsHoldShares ==
    \A k \in TicketKeys : tickets[k].shares_burned = 0 => tickets[k] = ClosedTicket

Queued == [k \in TicketKeys |-> tickets[k].shares_burned]
Asked  == [k \in TicketKeys |-> tickets[k].request_epoch]

\* Tickets only open with shares in them and close to the zeroed account.
LEMMA NextTicketsHold == Inv /\ TicketsHoldShares /\ [Next]_vars => TicketsHoldShares'
<1> SUFFICES ASSUME Inv, TicketsHoldShares, [Next]_vars PROVE TicketsHoldShares'
  OBVIOUS
<1>1. tickets \in [TicketKeys -> Ticket]
  BY StateFacts DEF RestOK
<1>2. ASSUME tickets' = tickets PROVE TicketsHoldShares'
  BY <1>2 DEF TicketsHoldShares
<1>3. ASSUME NEW u \in Users, NEW i \in TicketIndexes, NEW amount \in ShareAmounts,
             Redeem(u, i, amount)
      PROVE  TicketsHoldShares'
  <2> DEFINE t == [shares_burned |-> amount, assets_owed |-> 0,
                   request_epoch |-> vault.report_epoch, request_slot |-> slot]
  <2>1. tickets' = [tickets EXCEPT ![<<u, i>>] = t] /\ amount # 0
    BY <1>3 DEF Redeem
  <2>2. t.shares_burned # 0
    BY <2>1
  <2> HIDE DEF t
  <2> QED
    BY <1>1, <2>1, <2>2 DEF TicketsHoldShares
<1>4. ASSUME NEW u \in Users, NEW i \in TicketIndexes, CancelRedeem(u, i)
      PROVE  TicketsHoldShares'
  <2>1. tickets' = [tickets EXCEPT ![<<u, i>>] = ClosedTicket]
    BY <1>4 DEF CancelRedeem
  <2> QED
    BY <1>1, <2>1 DEF TicketsHoldShares
<1>5. ASSUME NEW batch \in Batches, NEW c \in Custodies, ProcessWithdrawals(batch, c)
      PROVE  TicketsHoldShares'
  <2>1. tickets' = [k \in TicketKeys |->
                      IF k \in Range(batch) THEN ClosedTicket ELSE tickets[k]]
    BY <1>5 DEF ProcessWithdrawals
  <2> QED
    BY <2>1 DEF TicketsHoldShares
<1>6. CASE UserStep
  <2>1. ASSUME NEW u \in Users, NEW amount, execute_deposit(u, amount)
        PROVE  TicketsHoldShares'
    BY <1>2, <2>1 DEF execute_deposit
  <2>2. ASSUME NEW u \in Users, NEW amount, NEW c, NEW received,
               AtomicRedeem(u, amount, c, received)
        PROVE  TicketsHoldShares'
    BY <1>2, <2>2 DEF AtomicRedeem
  <2> QED
    BY <1>3, <1>4, <1>6, <2>1, <2>2 DEF UserStep, Deposit, DepositAsset
<1>7. CASE AuthorityStep
  <2>1. ASSUME ~ \E batch \in Batches, c \in Custodies : ProcessWithdrawals(batch, c)
        PROVE  tickets' = tickets
    BY <1>7, <2>1 DEF AuthorityStep, ReportNav, RecoverNav, apply_nav_report,
                      InvestExternal, ReturnExternal
  <2> QED
    BY <1>2, <1>5, <2>1
<1>8. CASE AdminStep \/ AdvanceClock \/ UNCHANGED vars
  BY <1>2, <1>8
     DEF AdminStep, CollectFees, WriteDownFees, SetPauseFlags, SetVaultAccess,
         UpdateVaultConfig, RegisterExternalDestination, RevokeExternalDestination,
         AdvanceClock, vars
<1> QED
  BY <1>6, <1>7, <1>8 DEF Next

\* A deposit mints shares to one wallet.
LEMMA DepositQueues ==
    ASSUME Inv, NEW u \in Users, NEW base_atoms \in Nat, execute_deposit(u, base_atoms)
    PROVE  /\ shares'[u] > shares[u] /\ shares' = [shares EXCEPT ![u] = shares'[u]]
           /\ tickets' = tickets /\ vault'.report_epoch = vault.report_epoch
<1> DEFINE minted == shares_for_deposit(base_atoms, effective, economic_share_supply)
           assets == total_assets_after_deposit(vault, base_atoms, now)
<1>1. /\ effective \in Nat /\ economic_share_supply \in Nat
      /\ vault \in VaultRecord /\ shares \in [Users -> U64]
  BY StateFacts DEF VaultInv, RestOK
<1>2. minted \in Nat /\ shares[u] \in Nat
  <2>1. minted \in Nat
    BY <1>1, EntryKeepsPrice
  <2> QED
    BY <1>1, <2>1, MathAssumption DEF U64
<1>3. /\ minted # 0 /\ shares' = [shares EXCEPT ![u] = shares[u] + minted]
      /\ vault' = [vault EXCEPT !.total_assets = assets] /\ tickets' = tickets
  BY DEF execute_deposit
<1> HIDE DEF minted, assets
<1>4. shares'[u] = shares[u] + minted /\ vault'.report_epoch = vault.report_epoch
  BY <1>1, <1>3 DEF VaultRecord
<1> QED
  BY <1>1, <1>2, <1>3, <1>4

\* The queue's view after one ticket changed.
LEMMA OneTicketQueued ==
    ASSUME Inv, NEW k \in TicketKeys, NEW t, tickets' = [tickets EXCEPT ![k] = t]
    PROVE  /\ Queued' = [Queued EXCEPT ![k] = t.shares_burned]
           /\ Asked' = [Asked EXCEPT ![k] = t.request_epoch]
<1>1. tickets \in [TicketKeys -> Ticket]
  BY StateFacts DEF RestOK
<1>2. ASSUME NEW x \in TicketKeys
      PROVE  /\ tickets'[x].shares_burned = IF x = k THEN t.shares_burned ELSE Queued[x]
             /\ tickets'[x].request_epoch = IF x = k THEN t.request_epoch ELSE Asked[x]
  BY <1>1 DEF Queued, Asked
<1>3. /\ Queued' = [x \in TicketKeys |-> IF x = k THEN t.shares_burned ELSE Queued[x]]
      /\ Asked' = [x \in TicketKeys |-> IF x = k THEN t.request_epoch ELSE Asked[x]]
  BY <1>2 DEF Queued, Asked
<1>4. DOMAIN Queued = TicketKeys /\ DOMAIN Asked = TicketKeys
  BY DEF Queued, Asked
<1> QED
  BY <1>3, <1>4

\* Every instruction is a step of the queue or leaves it alone.
LEMMA NextQueue == Inv /\ TicketsHoldShares /\ [Next]_vars => [Queue!Next]_(Queue!vars)
<1> SUFFICES ASSUME Inv, TicketsHoldShares, [Next]_vars
             PROVE  Queue!Next \/ UNCHANGED <<shares, Queued, Asked, vault.report_epoch>>
  BY DEF Queue!vars, Queued, Asked
<1>1. /\ vault \in VaultRecord /\ shares \in [Users -> U64]
      /\ tickets \in [TicketKeys -> Ticket] /\ vault.report_epoch \in Nat
  BY StateFacts, RecordFields DEF VaultInv, RestOK
<1>2. \A k \in TicketKeys : /\ Queued[k] = tickets[k].shares_burned
                            /\ Asked[k] = tickets[k].request_epoch
                            /\ Queued[k] \in Nat /\ Asked[k] \in Nat
  BY <1>1, MathAssumption DEF Queued, Asked, Ticket, U64
<1>3. \A u \in Users : shares[u] \in Nat
  BY <1>1, MathAssumption DEF U64
<1>4. Queue!TicketKeys = TicketKeys
  BY DEF Queue!TicketKeys, TicketKeys
<1>5. ASSUME tickets' = tickets PROVE Queued' = Queued /\ Asked' = Asked
  BY <1>5 DEF Queued, Asked
<1>6. ASSUME NEW u \in Users, NEW base_atoms \in Nat, execute_deposit(u, base_atoms)
      PROVE  Queue!Next
  <2>1. /\ shares'[u] > shares[u] /\ shares' = [shares EXCEPT ![u] = shares'[u]]
        /\ tickets' = tickets /\ vault'.report_epoch = vault.report_epoch
    BY <1>6, DepositQueues
  <2>2. Queue!Deposit(u)
    BY <1>5, <2>1 DEF Queue!Deposit, Queued, Asked
  <2> QED
    BY <2>2 DEF Queue!Next
<1>7. ASSUME NEW u \in Users, NEW i \in TicketIndexes, NEW amount \in Nat, Redeem(u, i, amount)
      PROVE  Queue!Next
  <2> DEFINE k == <<u, i>>
             t == [shares_burned |-> amount, assets_owed |-> 0,
                   request_epoch |-> vault.report_epoch, request_slot |-> slot]
             queued == vault.requested_withdrawal_shares + amount
  <2>1. k \in TicketKeys /\ k[1] = u
    BY DEF TicketKeys
  <2>2. /\ tickets' = [tickets EXCEPT ![k] = t] /\ amount # 0 /\ amount <= shares[u]
        /\ shares' = [shares EXCEPT ![u] = shares[u] - amount]
        /\ vault' = [vault EXCEPT !.requested_withdrawal_shares = queued]
        /\ tickets[k] = ClosedTicket
    BY <1>7 DEF Redeem, Open
  <2>3. Queued' = [Queued EXCEPT ![k] = amount] /\ Asked' = [Asked EXCEPT ![k] = vault.report_epoch]
    <3>1. t.shares_burned = amount /\ t.request_epoch = vault.report_epoch
      OBVIOUS
    <3> HIDE DEF t, k
    <3> QED
      BY <2>1, <2>2, <3>1, OneTicketQueued
  <2>4. Queued[k] = 0
    BY <1>2, <2>1, <2>2 DEF ClosedTicket
  <2> HIDE DEF k, t, queued
  <2>5. vault'.report_epoch = vault.report_epoch
    BY <1>1, <2>2 DEF VaultRecord
  <2>6. amount \in 1..shares[u]
    BY <1>3, <2>2
  <2>7. Queue!Request(k)
    BY <2>1, <2>2, <2>3, <2>4, <2>5, <2>6 DEF Queue!Request, Queued, Asked
  <2> QED
    BY <1>4, <2>1, <2>7 DEF Queue!Next
<1>8. ASSUME NEW u \in Users, NEW i \in TicketIndexes, CancelRedeem(u, i) PROVE Queue!Next
  <2> DEFINE k == <<u, i>>
             queued == vault.requested_withdrawal_shares - tickets[k].shares_burned
  <2>1. k \in TicketKeys /\ k[1] = u
    BY DEF TicketKeys
  <2>2. /\ tickets' = [tickets EXCEPT ![k] = ClosedTicket] /\ tickets[k] # ClosedTicket
        /\ shares' = [shares EXCEPT ![u] = shares[u] + tickets[k].shares_burned]
        /\ vault' = [vault EXCEPT !.requested_withdrawal_shares = queued]
    BY <1>8 DEF CancelRedeem, Open
  <2> HIDE DEF k, queued
  <2>3. Queued' = [Queued EXCEPT ![k] = 0] /\ Asked' = [Asked EXCEPT ![k] = 0]
    <3>1. ClosedTicket.shares_burned = 0 /\ ClosedTicket.request_epoch = 0
      BY DEF ClosedTicket
    <3> QED
      BY <2>1, <2>2, <3>1, OneTicketQueued
  <2>4. Queued[k] > 0 /\ Queued[k] = tickets[k].shares_burned
    BY <1>2, <2>1, <2>2 DEF TicketsHoldShares
  <2>5. vault'.report_epoch = vault.report_epoch
    BY <1>1, <2>2 DEF VaultRecord
  <2>6. Queue!Cancel(k)
    BY <2>1, <2>2, <2>3, <2>4, <2>5 DEF Queue!Cancel, Queued, Asked
  <2> QED
    BY <1>4, <2>1, <2>6 DEF Queue!Next
<1>9. ASSUME NEW u \in Users, NEW amount \in Nat, NEW c \in Custodies, NEW received \in Nat,
             AtomicRedeem(u, amount, c, received)
      PROVE  Queue!Next
  <2>1. /\ amount # 0 /\ tickets' = tickets
        /\ shares' = [shares EXCEPT ![u] = shares[u] - amount]
    BY <1>9 DEF AtomicRedeem
  <2>2. vault'.report_epoch = vault.report_epoch
    BY <1>9, AtomicQuiet DEF QuietStep
  <2>3. shares'[u] = shares[u] - amount /\ shares'[u] < shares[u]
    BY <1>1, <1>3, <2>1
  <2>4. Queue!Leave(u)
    BY <1>5, <2>1, <2>2, <2>3 DEF Queue!Leave, Queued, Asked
  <2> QED
    BY <2>4 DEF Queue!Next
<1>10. ASSUME NEW batch \in Batches, NEW c \in Custodies, ProcessWithdrawals(batch, c)
       PROVE  Queue!Next
  <2> DEFINE paid == Range(batch)
  <2>1. /\ \A i \in DOMAIN batch : tickets[batch[i]] # ClosedTicket
        /\ Settlement(batch).ok
        /\ tickets' = [k \in TicketKeys |-> IF k \in paid THEN ClosedTicket ELSE tickets[k]]
        /\ shares' = shares
    BY <1>10 DEF ProcessWithdrawals, Open, share_vars
  <2>2. batch \in Seq(TicketKeys) /\ DOMAIN batch = 1..Len(batch)
    BY BatchIsSeq
  <2>3. paid \in SUBSET TicketKeys
    BY <2>2 DEF Range
  <2>4. ASSUME NEW k \in paid PROVE Queued[k] > 0 /\ Asked[k] < vault.report_epoch
    <3>1. PICK i \in 1..Len(batch) : batch[i] = k
      BY <2>2, <2>4 DEF Range
    <3>2. strike_eligible(tickets[k]) /\ tickets[k] # ClosedTicket /\ k \in TicketKeys
      BY <2>1, <2>2, <2>3, <2>4, <3>1, SettlementQuiet
    <3> QED
      BY <1>1, <1>2, <3>2
         DEF strike_eligible, WITHDRAWAL_STRIKE_DELAY_EPOCHS, TicketsHoldShares
  <2>5. /\ Queued' = [k \in TicketKeys |-> IF k \in paid THEN 0 ELSE Queued[k]]
        /\ Asked' = [k \in TicketKeys |-> IF k \in paid THEN 0 ELSE Asked[k]]
    <3> HIDE DEF paid
    <3>1. ASSUME NEW k \in TicketKeys
          PROVE  /\ tickets'[k].shares_burned = IF k \in paid THEN 0 ELSE Queued[k]
                 /\ tickets'[k].request_epoch = IF k \in paid THEN 0 ELSE Asked[k]
      BY <1>2, <2>1 DEF ClosedTicket
    <3> QED
      BY <3>1 DEF Queued, Asked
  <2>6. vault'.report_epoch = vault.report_epoch
    BY <1>10, ProcessQuiet DEF QuietStep
  <2> HIDE DEF paid
  <2>7. Queue!Pay(paid)
    BY <1>4, <2>1, <2>4, <2>5, <2>6 DEF Queue!Pay, Queued, Asked
  <2> QED
    BY <1>4, <2>3, <2>7 DEF Queue!Next
<1>11. CASE ReportStep
  <2>1. PICK value \in ExternalValues : apply_nav_report(value)
    BY <1>11 DEF ReportStep, ReportNav, RecoverNav
  <2>2. value \in Nat
    BY VaultAssumption
  <2>3. vault'.report_epoch = vault.report_epoch + 1
    BY <2>1, <2>2, ReportFacts
  <2>4. shares' = shares /\ tickets' = tickets
    BY <2>1 DEF apply_nav_report, share_vars
  <2>5. Queue!Report
    BY <1>5, <2>3, <2>4 DEF Queue!Report, Queued, Asked
  <2> QED
    BY <2>5 DEF Queue!Next
<1>12. ASSUME shares' = shares, tickets' = tickets, QuietStep
       PROVE  UNCHANGED <<shares, Queued, Asked, vault.report_epoch>>
  BY <1>5, <1>12 DEF QuietStep
<1>13. CASE UserStep
  <2>1. ASSUME NEW u \in Users, NEW amount \in AtomicAmounts, NEW c \in Custodies,
               NEW received \in 0..assets_for_shares(amount, effective, economic_share_supply),
               AtomicRedeem(u, amount, c, received)
        PROVE  Queue!Next
    <3>1. amount \in Nat
      BY VaultAssumption
    <3>2. received \in Nat
      BY <3>1, ReceivedNat
    <3> QED
      BY <1>9, <2>1, <3>1, <3>2
  <2>2. DepositAmounts \subseteq Nat /\ AssetValues \subseteq Nat /\ ShareAmounts \subseteq Nat
    BY VaultAssumption
  <2> QED
    BY <1>6, <1>7, <1>8, <1>13, <2>1, <2>2 DEF UserStep, Deposit, DepositAsset
<1>14. CASE AuthorityStep
  <2>1. CASE \/ \E d \in Destinations, c \in Custodies, amount \in MoveAmounts :
                   InvestExternal(d, c, amount)
             \/ \E c \in Custodies, amount \in MoveAmounts : ReturnExternal(c, amount)
    <3>1. shares' = shares /\ tickets' = tickets
      BY <2>1 DEF InvestExternal, ReturnExternal, share_vars
    <3> QED
      BY <1>11, <1>12, <3>1, StepKinds
  <2> QED
    BY <1>10, <1>11, <1>14, <2>1 DEF AuthorityStep, ReportStep
<1>15. CASE AdminStep \/ AdvanceClock \/ UNCHANGED vars
  <2>1. shares' = shares /\ tickets' = tickets
    BY <1>15
       DEF AdminStep, CollectFees, WriteDownFees, SetPauseFlags, SetVaultAccess,
           UpdateVaultConfig, RegisterExternalDestination, RevokeExternalDestination,
           AdvanceClock, vars, share_vars
  <2> QED
    BY <1>11, <1>12, <2>1, StepKinds
<1> QED
  BY <1>13, <1>14, <1>15 DEF Next

\* An empty vault is an empty queue.
LEMMA InitQueue == Init => Queue!Init /\ TicketsHoldShares
<1> SUFFICES ASSUME Init PROVE Queue!Init /\ TicketsHoldShares
  OBVIOUS
<1>1. /\ \A k \in TicketKeys : tickets[k] = ClosedTicket
      /\ shares = [u \in Users |-> 0] /\ vault.report_epoch = 0
  BY DEF Init, new_vault
<1>2. ClosedTicket.shares_burned = 0 /\ ClosedTicket.request_epoch = 0
  BY DEF ClosedTicket
<1>3. /\ [k \in TicketKeys |-> tickets[k].shares_burned] = [k \in TicketKeys |-> 0]
      /\ [k \in TicketKeys |-> tickets[k].request_epoch] = [k \in TicketKeys |-> 0]
  BY <1>1, <1>2
<1>4. Queue!TicketKeys = TicketKeys
  BY DEF Queue!TicketKeys, TicketKeys
<1> QED
  BY <1>1, <1>3, <1>4 DEF Queue!Init, TicketsHoldShares

(***************************************************************************)
(* The vault implements the redemption queue: queued shares come back      *)
(* whole to the wallet they left, or are paid after a report their owner   *)
(* had not seen, and nothing else touches them, whatever batches, grace    *)
(* escapes, reused ticket indexes and reports interleave.                  *)
(***************************************************************************)
THEOREM VaultImplementsQueue == Spec => ImplementsQueue
<1>1. Init => Inv /\ TicketsHoldShares /\ Queue!Init
  BY InitInv, InitQueue
<1>2. (Inv /\ TicketsHoldShares) /\ [Next]_vars => (Inv /\ TicketsHoldShares)'
  BY NextInv, NextTicketsHold
<1>3. (Inv /\ TicketsHoldShares) /\ [Next]_vars => [Queue!Next]_(Queue!vars)
  BY NextQueue
<1> QED
  BY <1>1, <1>2, <1>3, PTL DEF Spec, Queue!Spec, ImplementsQueue
=============================================================================
