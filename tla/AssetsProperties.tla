-------------------------- MODULE AssetsProperties --------------------------
(* What pricing through the registry promises.                               *)
EXTENDS Assets

\* Registered assets have a valid oracle and never the base mint; balances are counts.
AssetsTypeOK ==
    /\ \A m \in Mints : assets[m] # NoAsset =>
         /\ assets[m].asset_mint = m /\ m # BaseMint
         /\ validate(assets[m].oracle)
         /\ assets[m].asset_decimals = MintAccounts[m].decimals
    /\ validate(base_oracle)
    /\ custody \in [Mints -> 0..MaxOracleU64]
    /\ now \in 0..MaxTime

\* Base atoms as a fraction <<numerator, denominator>>, nothing cancelled.
ExactValue(amount, price, base_price, decimals) ==
    <<amount * price.value * Pow10[BaseDecimals + base_price.decimals],
      base_price.value * Pow10[decimals + price.decimals]>>

(***************************************************************************)
(* A deposit is credited the floor of its exact value at the prices read:  *)
(* never more, and never a whole atom less, whichever way the four decimal *)
(* scales cancel (base_atoms_from_asset_atoms).                            *)
(***************************************************************************)
DepositCreditsTheFloor ==
    \A v \in {x \in valued : x.op = "deposit"} :
        LET exact == ExactValue(v.amount, v.prices[1], v.base_price, v.asset.asset_decimals)
        IN  /\ v.base_atoms * exact[2] <= exact[1]
            /\ exact[1] < (v.base_atoms + 1) * exact[2]

(***************************************************************************)
(* Within one deposit or swap a feed has one price: the submitter, who may *)
(* hold several verified updates of a pull feed, cannot value two legs at  *)
(* different ones (OracleReadSession::read).                               *)
(***************************************************************************)
OnePricePerFeed ==
    \A v \in valued : \A i, j \in DOMAIN v.legs :
        feed_key(v.legs[i].config) = feed_key(v.legs[j].config) => v.prices[i] = v.prices[j]

\* The observation behind a leg: [genuine, time].
Observation(leg) ==
    LET a == accounts[leg.keys[1]]
    IN  IF leg.config.kind = "Scope"
        THEN [genuine |-> a.entries[leg.config.price_index].source = leg.config.mapping,
              time |-> a.entries[leg.config.price_index].unix_timestamp]
        ELSE [genuine |-> a.genuine,
              time |-> IF leg.config.kind = "Pyth" THEN a.publish_time ELSE a.slot]

(***************************************************************************)
(* Every price used was published by the source its configuration names,   *)
(* at most max_age before, however publishers post, Scope's admin remaps   *)
(* and the vault's admin changes configurations meanwhile                  *)
(* (read_verified_price of the three readers).                             *)
(***************************************************************************)
PricesAreGenuineAndFresh ==
    \A v \in valued : \A i \in DOMAIN v.legs :
        /\ Observation(v.legs[i]).genuine
        /\ now - Observation(v.legs[i]).time <= v.legs[i].config.max_age

(***************************************************************************)
(* Custody of an asset is past its inventory cap only where a swap bought  *)
(* more of it or the admin lowered the cap, and only until it is drained:  *)
(* deposits racing for the same room never get there together              *)
(* (the cap check of resolve_base_atoms).                                  *)
(***************************************************************************)
DepositsNeverOverfill == past_cap(assets, custody) \subseteq overfilled

(***************************************************************************)
(* In exact base value, at one price per feed, a swap returns what it      *)
(* spent less one atom, less the tolerated slippage: rounding both legs    *)
(* down leaks no more (verify_swap_value, value_in_base_atoms).            *)
(***************************************************************************)
SwapLosesToleranceAndAnAtom ==
    \A v \in {x \in valued : x.op = "swap"} :
        LET base(m) == IF m # BaseMint /\ assets[m].routed THEN v.base_price ELSE UNIT
            scale(m) == IF m = BaseMint THEN BaseDecimals ELSE assets[m].asset_decimals
            in == ExactValue(v.spent, v.in_price, base(v.input), scale(v.input))
            out == ExactValue(v.received, v.out_price, base(v.output), scale(v.output))
        IN  out[1] * in[2] * 10000 >= (in[1] - in[2]) * out[2] * (10000 - MaxSwapSlippageBps)
=============================================================================
