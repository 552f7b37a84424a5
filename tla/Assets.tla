------------------------------- MODULE Assets -------------------------------
(***************************************************************************)
(* The asset registry and what is priced through it: deposits of non-base  *)
(* assets and the value bound of swaps.                                    *)
(*                                                                         *)
(* Whoever submits an instruction chooses the oracle accounts it carries.  *)
(* Publishers, cranks and Scope's admin rewrite those accounts at any      *)
(* time.  Shares and recognized value are module Vault's; here is what the *)
(* base value of a deposit is and where the deposited atoms go.            *)
(***************************************************************************)
EXTENDS Oracles

CONSTANTS
    BaseMint, BaseDecimals,  \* vault.base_mint, vault.base_decimals
    MintAccounts,            \* by mint, the mint account
    MaxSwapSlippageBps,
    MaxTime,                 \* bound: clock
    Markets                  \* by name, the oracles at hand; their fields are below

\* The swap bound is configured; a swap without it is not valued.
ASSUME AssetsAssumption ==
    /\ MaxSwapSlippageBps \in 1..10000
    /\ BaseMint \in DOMAIN MintAccounts /\ BaseDecimals \in Nat
    /\ {MaxU128, MaxOracleU64, MaxTime} \subseteq Nat /\ ScopeMaxEntries \in Nat \ {0}
    /\ \A m \in DOMAIN MintAccounts : MintAccounts[m].decimals \in Nat

(***************************************************************************)
(* Oracle accounts stay with the program that owns them, and a Scope price *)
(* account has mappings of its own, from which its prices were ingested.   *)
(***************************************************************************)
ASSUME MarketsAssumption ==
    \A name \in DOMAIN Markets :
        LET m == Markets[name]
            feeds == {k \in DOMAIN m.accounts : m.accounts[k].owner = "scope_prices"}
        IN  /\ m.max_transfer \in 0..MaxOracleU64 /\ m.caps \subseteq Nat
            /\ m.swap_amounts \subseteq Nat /\ m.endpoints \subseteq BOOLEAN \X BOOLEAN
            /\ m.configs \subseteq OracleConfigRecord
            /\ m.accounts \in [DOMAIN m.accounts -> OracleAccount]
            /\ \A keys \in m.key_lists :
                 keys \in Seq(DOMAIN m.accounts)
            /\ \A u \in m.updates :
                 /\ u.key \in DOMAIN m.accounts /\ u.account \in PythAccount \cup QuoteAccount
                 /\ u.account.owner = m.accounts[u.key].owner
            /\ m.scope_values \subseteq Nat \X Nat /\ m.mappings \subseteq MappingRecord
            /\ \A k \in feeds :
                 /\ m.accounts[k].mappings \in DOMAIN m.accounts
                 /\ m.accounts[m.accounts[k].mappings].owner = "scope_mappings"
                 /\ \A i \in 0..(ScopeMaxEntries - 1) : m.accounts[k].entries[i].value # 0 =>
                      m.accounts[k].entries[i].source
                        = m.accounts[m.accounts[k].mappings].entries[i].mapping
                 /\ \A j \in feeds : j # k => m.accounts[j].mappings # m.accounts[k].mappings

VARIABLE market              \* the one this behavior is in

OracleConfigs == Markets[market].configs          \* configurations the admin may choose
Caps == Markets[market].caps                      \* values of deposit_cap_atoms
InitialAccounts == Markets[market].accounts       \* by key, oracle accounts
OracleKeys == DOMAIN InitialAccounts
KeyLists == Markets[market].key_lists             \* lists of them that are submitted
Updates == Markets[market].updates                \* posts: [key, account], without their time
ScopeValues == Markets[market].scope_values       \* <<value, exp>> a crank may ingest
Mappings == Markets[market].mappings              \* source mappings of Scope's entry
MaxTransfer == Markets[market].max_transfer       \* bound: atoms of one deposit
SwapAmounts == Markets[market].swap_amounts       \* bound: atoms a swap spends or receives
Endpoints == Markets[market].endpoints            \* bound: <<own_in, own_out>> of swaps

Mints == DOMAIN MintAccounts
NoAsset == [asset_mint |-> NoKey]

VARIABLES
    assets,       \* [Mints -> Asset or NoAsset]
    base_oracle,  \* vault.base_oracle
    custody,      \* [Mints -> balance of the deposit sub-account's token account]
    accounts,     \* oracle accounts
    now,          \* clock: seconds, and slots at one a second
    valued,       \* auxiliary: the valuation the last step made, if any
    overfilled    \* auxiliary: mints whose custody something other than a deposit put past its cap

vars == <<market, assets, base_oracle, custody, accounts, now, valued, overfilled>>

Amounts == 1..MaxTransfer

-----------------------------------------------------------------------------
(* The registry.                                                             *)

past_cap(as, cu) ==
    {m \in Mints : as[m] # NoAsset /\ cu[m] > as[m].deposit_cap_atoms}

\* Mints that stay overfilled, with those the admin's new cap strands.
stranded(as) == (overfilled \cup past_cap(as, custody)) \cap past_cap(as, custody)

\* Faulty variant: the base mint is registered like any other.
registrable_AnyMint(mint, decimals) == verify_mint(MintAccounts[mint], decimals, NoKey)

registrable(mint, decimals) ==
    mint # BaseMint /\ verify_mint(MintAccounts[mint], decimals, NoKey)

InitializeAsset(mint, oracle, decimals, enabled, routed, cap) ==
    /\ assets[mint] = NoAsset
    /\ registrable(mint, decimals)
    /\ validate(oracle)
    /\ assets' = [assets EXCEPT ![mint] =
         [asset_mint |-> mint, oracle |-> oracle, asset_decimals |-> decimals,
          enabled |-> enabled, routed |-> routed, deposit_cap_atoms |-> cap]]
    /\ overfilled' = stranded(assets')
    /\ valued' = {}
    /\ UNCHANGED <<market, base_oracle, custody, accounts, now>>

\* The mint and its decimals stay; the rest is replaced at once.
UpdateAsset(mint, oracle, enabled, routed, cap) ==
    /\ assets[mint] # NoAsset
    /\ validate(oracle)
    /\ assets' = [assets EXCEPT ![mint].oracle = oracle, ![mint].enabled = enabled,
                                ![mint].routed = routed, ![mint].deposit_cap_atoms = cap]
    /\ overfilled' = stranded(assets')
    /\ valued' = {}
    /\ UNCHANGED <<market, base_oracle, custody, accounts, now>>

\* The base oracle is part of UpdateVaultConfig; storing validates it.
UpdateBaseOracle(oracle) ==
    /\ validate(oracle)
    /\ base_oracle' = oracle
    /\ valued' = {}
    /\ UNCHANGED <<market, assets, custody, accounts, now, overfilled>>

-----------------------------------------------------------------------------
(* Deposits.                                                                 *)

deposit_legs_ok(asset, keys) ==
    /\ parse_leg_ok(asset.oracle, keys)
    /\ asset.routed => parse_leg_ok(base_oracle, rest_after(asset.oracle, keys))

\* The asset leg, then the base leg when the asset routes.
deposit_legs(asset, keys) ==
    <<parse_leg(asset.oracle, keys)>>
      \o (IF asset.routed THEN <<parse_leg(base_oracle, rest_after(asset.oracle, keys))>>
          ELSE <<>>)

\* Faulty variant: the cap is compared with the balance before the deposit.
within_inventory_cap_Before(asset, amount) ==
    custody[asset.asset_mint] <= asset.deposit_cap_atoms

within_inventory_cap(asset, amount) ==
    /\ custody[asset.asset_mint] + amount <= MaxOracleU64
    /\ custody[asset.asset_mint] + amount <= asset.deposit_cap_atoms

DepositAsset(mint, amount, keys) ==
    LET asset == assets[mint]
        legs == deposit_legs(asset, keys)
    IN  /\ asset # NoAsset /\ asset.enabled
        /\ within_inventory_cap(asset, amount)
        /\ deposit_legs_ok(asset, keys)
        /\ \E prices \in read_session(legs, accounts, now) :
             LET base_price == IF asset.routed THEN prices[2] ELSE UNIT
             IN  \E base_atoms \in base_atoms_from_asset_atoms(
                        amount, prices[1], base_price, asset.asset_decimals, BaseDecimals) :
                   valued' = {[op |-> "deposit", legs |-> legs, prices |-> prices,
                               asset |-> asset, base_price |-> base_price,
                               amount |-> amount, base_atoms |-> base_atoms]}
        /\ custody' = [custody EXCEPT ![mint] = @ + amount]
        /\ UNCHANGED <<market, assets, base_oracle, accounts, now, overfilled>>

-----------------------------------------------------------------------------
(* Swaps between two custody accounts of a sub-account.                      *)

registered(m) == m = BaseMint \/ assets[m] # NoAsset

routed(m) == m # BaseMint /\ assets[m].routed

\* An endpoint's own leg, none for base; and what is left of the submitted accounts.
own_leg_ok(m, keys) == m # BaseMint => parse_leg_ok(assets[m].oracle, keys)
own_leg(m, keys) == IF m = BaseMint THEN <<>> ELSE <<parse_leg(assets[m].oracle, keys)>>
after_leg(m, keys) == IF m = BaseMint THEN keys ELSE rest_after(assets[m].oracle, keys)

valuation_parses(input, output, keys) ==
    LET second == after_leg(input, keys)
    IN  /\ own_leg_ok(input, keys) /\ own_leg_ok(output, second)
        /\ routed(input) \/ routed(output) =>
             parse_leg_ok(base_oracle, after_leg(output, second))

\* Read in this order: the shared base leg, the input, the output.
valuation_legs(input, output, keys) ==
    LET second == after_leg(input, keys)
        shared == IF routed(input) \/ routed(output)
                  THEN <<parse_leg(base_oracle, after_leg(output, second))>> ELSE <<>>
    IN  shared \o own_leg(input, keys) \o own_leg(output, second)

\* Faulty variant: routed assets are valued as if their feed quoted base.
value_in_base_atoms_Direct(m, amount, asset_price, base_price) ==
    IF m = BaseMint THEN {amount}
    ELSE base_atoms_from_asset_atoms(amount, asset_price, UNIT,
             assets[m].asset_decimals, BaseDecimals)

value_in_base_atoms(m, amount, asset_price, base_price) ==
    IF m = BaseMint THEN {amount}
    ELSE base_atoms_from_asset_atoms(amount, asset_price,
             IF assets[m].routed THEN base_price ELSE UNIT,
             assets[m].asset_decimals, BaseDecimals)

\* ceil(spent_value * tolerated / 10000) <= received_value, in integers.
swap_value_kept(spent_value, received_value) ==
    spent_value * (10000 - MaxSwapSlippageBps) <= received_value * 10000

\* Balances after a swap; an endpoint that is not the deposit sub-account's own account of
\* its mint is another account of that mint, whose balance is not kept here.
after_swap(input, own_in, spent, output, own_out, received) ==
    [m \in Mints |-> custody[m] - (IF own_in /\ m = input THEN spent ELSE 0)
                                + (IF own_out /\ m = output THEN received ELSE 0)]

\* The endpoints are two accounts, of any two mints; either amount may be zero.
Swap(input, own_in, spent, output, own_out, received, keys) ==
    LET legs == valuation_legs(input, output, keys)
        base_at == IF routed(input) \/ routed(output) THEN 1 ELSE 0
        in_at == base_at + (IF input = BaseMint THEN 0 ELSE 1)
    IN  /\ input = output => ~(own_in /\ own_out)
        /\ registered(input) /\ registered(output)
        /\ own_in => spent <= custody[input]
        /\ own_out => custody[output] + received <= MaxOracleU64
        /\ valuation_parses(input, output, keys)
        /\ \E prices \in read_session(legs, accounts, now) :
             LET base_price == IF base_at = 1 THEN prices[1] ELSE UNIT
                 in_price == IF input = BaseMint THEN UNIT ELSE prices[in_at]
                 out_price == IF output = BaseMint THEN UNIT ELSE prices[in_at + 1]
             IN  \E spent_value \in value_in_base_atoms(input, spent, in_price, base_price),
                    received_value \in value_in_base_atoms(output, received, out_price, base_price) :
                   /\ swap_value_kept(spent_value, received_value)
                   /\ valued' = {[op |-> "swap", legs |-> legs, prices |-> prices,
                                  base_price |-> base_price,
                                  input |-> input, in_price |-> in_price, spent |-> spent,
                                  output |-> output, out_price |-> out_price, received |-> received]}
        /\ custody' = after_swap(input, own_in, spent, output, own_out, received)
        /\ overfilled' = (overfilled \cup (IF own_out THEN {output} ELSE {}))
                           \cap past_cap(assets, custody')
        /\ UNCHANGED <<market, assets, base_oracle, accounts, now>>

-----------------------------------------------------------------------------
(* Time and the publishers (external).                                       *)

Tick ==
    /\ now < MaxTime
    /\ now' = now + 1
    /\ valued' = {}
    /\ UNCHANGED <<market, assets, base_oracle, custody, accounts, overfilled>>

\* A Pyth update or a Switchboard quote lands in an account, dated now.
Publish(u) ==
    /\ accounts' = [accounts EXCEPT ![u.key] =
         IF u.account.owner = "switchboard" THEN [u.account EXCEPT !.slot = now]
         ELSE [u.account EXCEPT !.publish_time = now]]
    /\ valued' = {}
    /\ UNCHANGED <<market, assets, base_oracle, custody, now, overfilled>>

\* Scope's crank ingests a price from the source its mapping names.
RefreshScope(prices_key, value) ==
    /\ accounts[prices_key].owner = "scope_prices"
    /\ LET live_entry == accounts[accounts[prices_key].mappings].entries[0]
       IN  /\ ~live_entry.frozen
           /\ accounts' = [accounts EXCEPT ![prices_key].entries[0] =
                [value |-> value[1], exp |-> value[2], unix_timestamp |-> now,
                 source |-> live_entry.mapping]]
    /\ valued' = {}
    /\ UNCHANGED <<market, assets, base_oracle, custody, now, overfilled>>

\* Scope's admin freezes the entry or points it at another source, which empties it.
RemapScope(prices_key, mapping, frozen) ==
    /\ accounts[prices_key].owner = "scope_prices"
    /\ LET mappings_key == accounts[prices_key].mappings
           remapped == mapping # accounts[mappings_key].entries[0].mapping
       IN  accounts' = [accounts EXCEPT
             ![mappings_key].entries[0] = [mapping |-> mapping, frozen |-> frozen],
             ![prices_key].entries[0].value = IF remapped THEN 0 ELSE @]
    /\ valued' = {}
    /\ UNCHANGED <<market, assets, base_oracle, custody, now, overfilled>>

-----------------------------------------------------------------------------
Init ==
    /\ market \in DOMAIN Markets
    /\ assets = [m \in Mints |-> NoAsset]
    /\ base_oracle \in {c \in OracleConfigs : validate(c)}
    /\ custody = [m \in Mints |-> IF m = BaseMint THEN MaxTransfer ELSE 0]
    /\ accounts = InitialAccounts
    /\ now = 0
    /\ valued = {}
    /\ overfilled = {}

RegistryStep ==
    \/ \E m \in Mints, c \in OracleConfigs, d \in 0..2, e, r \in BOOLEAN, cap \in Caps :
         InitializeAsset(m, c, d, e, r, cap)
    \/ \E m \in Mints, c \in OracleConfigs, e, r \in BOOLEAN, cap \in Caps :
         UpdateAsset(m, c, e, r, cap)
    \/ \E c \in OracleConfigs : UpdateBaseOracle(c)

UserStep ==
    \/ \E m \in Mints, n \in Amounts, keys \in KeyLists : DepositAsset(m, n, keys)
    \/ \E i, o \in Mints, own \in Endpoints, s, r \in SwapAmounts, keys \in KeyLists :
         Swap(i, own[1], s, o, own[2], r, keys)

PublisherStep ==
    \/ Tick
    \/ \E u \in Updates : Publish(u)
    \/ \E k \in OracleKeys, v \in ScopeValues : RefreshScope(k, v)
    \/ \E k \in OracleKeys, mp \in Mappings, f \in BOOLEAN : RemapScope(k, mp, f)

Next == RegistryStep \/ UserStep \/ PublisherStep

Spec == Init /\ [][Next]_vars
=============================================================================
