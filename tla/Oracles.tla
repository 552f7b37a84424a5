------------------------------ MODULE Oracles ------------------------------
(***************************************************************************)
(* Verified price reads (crates/roshi/src/oracle, accounts/oracle_price.rs)*)
(* and the pricing of asset atoms in base atoms (interface math.rs).       *)
(*                                                                         *)
(* A read that can fail returns a set: empty when the program rejects,     *)
(* else the one price [value, decimals].  Account contents are abstracted  *)
(* to the fields the readers look at; `parses' stands for discriminator,   *)
(* length and layout, `owner' for the program that owns the account.       *)
(***************************************************************************)
EXTENDS Tokens, Sequences

CONSTANTS
    MaxU128,         \* the largest u128
    MaxOracleU64,    \* the largest u64
    ScopeMaxEntries  \* MAX_ENTRIES of a Scope account

UNIT == [value |-> 1, decimals |-> 0]

Pow10[n \in Nat] == IF n = 0 THEN 1 ELSE 10 * Pow10[n - 1]

\* 10^n, as a set that is empty past u128.
pow10(n) == IF Pow10[n] <= MaxU128 THEN {Pow10[n]} ELSE {}

-----------------------------------------------------------------------------
(* Configurations: one active leg, by kind.  `canonical' says that padding   *)
(* and dead bytes are zero.                                                  *)

SwitchboardConfig(quote_account, queue_account, feed_id, price_decimals, max_age_slots) ==
    [kind |-> "Switchboard", quote_account |-> quote_account, queue_account |-> queue_account,
     feed_id |-> feed_id, max_age |-> max_age_slots, price_decimals |-> price_decimals]

PythConfig(feed_id, pinned, price_decimals, max_age_seconds, max_confidence_bps) ==
    [kind |-> "Pyth", feed_id |-> feed_id, price_update_account |-> pinned,
     max_age |-> max_age_seconds, max_confidence_bps |-> max_confidence_bps,
     price_decimals |-> price_decimals]

ScopeConfig(prices_account, mapping, price_index, max_age_seconds, canonical) ==
    [kind |-> "Scope", prices_account |-> prices_account, mapping |-> mapping,
     price_index |-> price_index, max_age |-> max_age_seconds, canonical |-> canonical]

\* Scope's source of an entry.
MappingRecord == [source : Nat, price_type : Nat]

OracleConfigRecord ==
    [kind : {"Switchboard"}, quote_account : Nat, queue_account : Nat, feed_id : Nat,
     max_age : Nat, price_decimals : Nat]
    \cup [kind : {"Pyth"}, feed_id : Nat, price_update_account : Nat \cup {NoKey},
          max_age : Nat, max_confidence_bps : Nat, price_decimals : Nat]
    \cup [kind : {"Scope"}, prices_account : Nat, mapping : MappingRecord, price_index : Nat,
          max_age : Nat, canonical : BOOLEAN]

\* A kind byte outside the three is an error wherever the configuration is used.
active(c) == c.kind \in {"Switchboard", "Pyth", "Scope"}

validate(c) ==
    /\ active(c)
    /\ c.kind = "Pyth" => c.max_confidence_bps # 0
    /\ c.kind = "Scope" =>
         c.price_index < ScopeMaxEntries /\ c.mapping.price_type <= 127 /\ c.canonical

-----------------------------------------------------------------------------
(* Accounts of the oracle programs (external).  Pyth's own level says what   *)
(* was fully verified; the quote verifier takes what the queue's oracles     *)
(* signed.  `genuine' says that the source the feed names published it.      *)

PythAccount ==
    {a \in [owner : {"pyth"}, parses : BOOLEAN, full : BOOLEAN, feed_id : Nat, price : Int,
            conf : Nat, exponent : Int, publish_time : Nat, genuine : BOOLEAN] :
       a.full => a.genuine}
QuoteAccount ==
    {a \in [owner : {"switchboard"}, parses : BOOLEAN, feed_id : Nat, value : Int, slot : Nat,
            genuine : BOOLEAN] : a.parses => a.genuine}
ScopePrices ==
    [owner : {"scope_prices"}, parses : BOOLEAN, mappings : Nat,
     entries : [0..(ScopeMaxEntries - 1) ->
                  [value : Nat, exp : Nat, unix_timestamp : Nat, source : MappingRecord]]]
ScopeMappings ==
    [owner : {"scope_mappings"}, parses : BOOLEAN,
     entries : [0..(ScopeMaxEntries - 1) -> [mapping : MappingRecord, frozen : BOOLEAN]]]
OtherAccount == [owner : {"sysvar"}]

OracleAccount == PythAccount \cup QuoteAccount \cup ScopePrices \cup ScopeMappings \cup OtherAccount

-----------------------------------------------------------------------------
(* Pyth.                                                                     *)

confidence_within_bounds(price, confidence, max_confidence_bps) ==
    max_confidence_bps = 0 \/ confidence * 10000 <= price * max_confidence_bps

\* Floors when the configured scale is coarser than the feed's.
scale_price(price, exponent, decimals) ==
    LET scale == decimals + exponent
    IN  IF scale >= 0
        THEN {price * p : p \in {q \in pow10(scale) : price * q <= MaxU128}}
        ELSE {price \div p : p \in pow10(-scale)}

price_from_pyth(c, u) ==
    IF u.price > 0 /\ confidence_within_bounds(u.price, u.conf, c.max_confidence_bps)
    THEN {[value |-> v, decimals |-> c.price_decimals] :
            v \in scale_price(u.price, u.exponent, c.price_decimals) \ {0}}
    ELSE {}

\* Faulty variant: a partially verified update will do.
read_verified_update_Partial(c, u, now) ==
    IF u.feed_id = c.feed_id /\ u.publish_time + c.max_age >= now
    THEN price_from_pyth(c, u) ELSE {}

\* An update may be dated in the future.
read_verified_update(c, u, now) ==
    IF u.full /\ u.feed_id = c.feed_id /\ u.publish_time + c.max_age >= now
    THEN price_from_pyth(c, u) ELSE {}

read_pyth(c, key, a, now) ==
    IF /\ c.price_update_account \in {NoKey, key}
       /\ a.owner = "pyth" /\ a.parses
    THEN read_verified_update(c, a, now) ELSE {}

-----------------------------------------------------------------------------
(* Kamino Scope.                                                             *)

\* Faulty variant: only the frozen bit is looked at.
verify_mapping_entry_FrozenOnly(c, mappings) ==
    mappings.parses /\ ~mappings.entries[c.price_index].frozen

verify_mapping_entry(c, mappings) ==
    /\ mappings.parses
    /\ c.price_index < ScopeMaxEntries
    /\ ~mappings.entries[c.price_index].frozen
    /\ mappings.entries[c.price_index].mapping = c.mapping

verify_freshness(c, entry, now) ==
    entry.unix_timestamp <= now /\ now - entry.unix_timestamp <= c.max_age

price_from_entry(entry) ==
    IF entry.value # 0 /\ entry.exp < 256
    THEN {[value |-> entry.value, decimals |-> entry.exp]} ELSE {}

read_scope(c, keys, a, b, now) ==
    IF /\ keys[1] = c.prices_account
       /\ a.owner = "scope_prices" /\ b.owner = "scope_mappings"
       /\ a.parses /\ a.mappings = keys[2]
       /\ verify_mapping_entry(c, b)
       /\ verify_freshness(c, a.entries[c.price_index], now)
    THEN price_from_entry(a.entries[c.price_index]) ELSE {}

-----------------------------------------------------------------------------
(* Switchboard.                                                              *)

SLOT_HASHES_ID == 1001
INSTRUCTIONS_ID == 1002

verify_account_contract(c, keys) ==
    keys = <<c.quote_account, c.queue_account, SLOT_HASHES_ID, INSTRUCTIONS_ID>>

\* The quote verifier: signatures of the queue's oracles and the quote's age (external).
quote_verified(c, a, slot) == a.owner = "switchboard" /\ a.parses /\ slot - a.slot <= c.max_age

price_from_quote(c, a) ==
    IF a.feed_id = c.feed_id /\ a.value > 0
    THEN {[value |-> a.value, decimals |-> c.price_decimals]} ELSE {}

read_switchboard(c, keys, a, slot) ==
    IF verify_account_contract(c, keys) /\ quote_verified(c, a, slot)
    THEN price_from_quote(c, a) ELSE {}

-----------------------------------------------------------------------------
(* Legs and read sessions.                                                   *)

leg_accounts(c) == [Pyth |-> 1, Switchboard |-> 4, Scope |-> 2][c.kind]

\* A leg takes its accounts from the front of what was submitted.
parse_leg_ok(c, keys) == active(c) /\ Len(keys) >= leg_accounts(c)

parse_leg(c, keys) == [config |-> c, keys |-> SubSeq(keys, 1, leg_accounts(c))]

rest_after(c, keys) == SubSeq(keys, leg_accounts(c) + 1, Len(keys))

read_leg(leg, accounts, now) ==
    LET c == leg.config
        first == accounts[leg.keys[1]]
    IN  CASE c.kind = "Pyth" -> read_pyth(c, leg.keys[1], first, now)
          [] c.kind = "Scope" -> read_scope(c, leg.keys, first, accounts[leg.keys[2]], now)
          [] c.kind = "Switchboard" -> read_switchboard(c, leg.keys, first, now)

feed_key(c) ==
    IF c.kind = "Scope" THEN <<"Scope", c.prices_account, c.price_index>>
    ELSE <<c.kind, c.feed_id>>

\* Faulty variant: a repeated feed may come with other accounts.
compatible_AnyAccounts(l, r) ==
    feed_key(l.config) = feed_key(r.config) => l.config = r.config

\* Two legs on one feed have one policy and one set of accounts.
compatible(l, r) ==
    feed_key(l.config) = feed_key(r.config) => l.config = r.config /\ l.keys = r.keys

\* The prices of a session's legs, in order; empty when any read is rejected.
read_session(legs, accounts, now) ==
    IF /\ \A i, j \in DOMAIN legs : i < j => compatible(legs[j], legs[i])
       /\ \A i \in DOMAIN legs : read_leg(legs[i], accounts, now) # {}
    THEN {[i \in DOMAIN legs |-> CHOOSE p \in read_leg(legs[i], accounts, now) : TRUE]}
    ELSE {}

-----------------------------------------------------------------------------
(* Pricing.                                                                  *)

\* Faulty variant: the base price's own scale is forgotten.
base_atoms_from_asset_atoms_NoBaseScale(atoms, asset_price, base_price, asset_decimals, base_decimals) ==
    LET up == base_decimals
        down == asset_decimals + asset_price.decimals
    IN  IF up >= down
        THEN {(atoms * asset_price.value * s) \div base_price.value : s \in pow10(up - down)}
        ELSE {(atoms * asset_price.value) \div (base_price.value * s) : s \in pow10(down - up)}

\* One floor division after cancelling powers of ten, every product checked.
base_atoms_from_asset_atoms(atoms, asset_price, base_price, asset_decimals, base_decimals) ==
    LET up == base_decimals + base_price.decimals
        down == asset_decimals + asset_price.decimals
        scaled == atoms * asset_price.value
        values ==
          IF up >= down
          THEN {(scaled * s) \div base_price.value :
                  s \in {t \in pow10(up - down) : scaled * t <= MaxU128}}
          ELSE {scaled \div (base_price.value * s) :
                  s \in {t \in pow10(down - up) : base_price.value * t <= MaxU128}}
    IN  IF base_price.value # 0 /\ scaled <= MaxU128
        THEN {v \in values : v <= MaxOracleU64} ELSE {}
=============================================================================
