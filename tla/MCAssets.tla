------------------------------ MODULE MCAssets ------------------------------
(* Small instances of module Assets for TLC.                                 *)
EXTENDS AssetsProperties

\* Mints.
Base == 50
Coll == 51    \* Token-2022 with metadata
Fee == 52     \* Token-2022 with a transfer fee, never registered

mint(program, extensions) ==
    [program |-> program, initialized |-> TRUE, decimals |-> 1, mint_authority |-> NoKey,
     extensions |-> extensions]
MCMints ==
    [m \in {Base, Coll, Fee} |->
        IF m = Base THEN mint(TOKEN_PROGRAM_ID, <<>>)
        ELSE mint(TOKEN_2022_PROGRAM_ID, IF m = Coll THEN <<18, 19, 0>> ELSE <<1>>)]

-----------------------------------------------------------------------------
(* Pull feeds: two update accounts anyone may post to.                       *)

P1 == 60
P2 == 61
AssetFeed == 70
BaseFeed == 71

PullConfigs ==
    {PythConfig(AssetFeed, NoKey, 0, 1, 5000), PythConfig(BaseFeed, NoKey, 1, 1, 5000),
     PythConfig(BaseFeed, P1, 1, 1, 5000), PythConfig(AssetFeed, NoKey, 0, 1, 0)}

update(feed, price, exponent, full) ==
    [owner |-> "pyth", parses |-> TRUE, full |-> full, feed_id |-> feed, price |-> price,
     conf |-> 0, exponent |-> exponent, publish_time |-> 0, genuine |-> full]

PullAccounts ==
    [k \in {P1, P2} |-> IF k = P1 THEN update(AssetFeed, 2, 0, TRUE) ELSE update(BaseFeed, 40, -1, TRUE)]
PullUpdates ==
    {[key |-> P1, account |-> update(BaseFeed, 1, 0, TRUE)],
     [key |-> P2, account |-> update(AssetFeed, 9, 0, FALSE)]}
PullKeys == {<<P1>>, <<P1, P2>>, <<P2, P1>>, <<P1, P1>>}

-----------------------------------------------------------------------------
(* Scope entries and Switchboard quotes.                                     *)

SP == 62       \* Scope prices, declaring SM
SM == 63
SM2 == 64      \* mappings of another Scope feed
Quote == 65
Queue == 66
QuoteFeed == 72

ScopeMapping(source) == [source |-> source, price_type |-> 1]
MCMappings == {ScopeMapping(1), ScopeMapping(2)}

CachedConfigs ==
    {ScopeConfig(SP, ScopeMapping(1), 0, 1, TRUE), ScopeConfig(SP, ScopeMapping(2), 0, 1, TRUE),
     ScopeConfig(SP, ScopeMapping(1), 1, 1, TRUE), SwitchboardConfig(Quote, Queue, QuoteFeed, 0, 1)}

mappings(source) ==
    [owner |-> "scope_mappings", parses |-> TRUE,
     entries |-> [i \in {0} |-> [mapping |-> ScopeMapping(source), frozen |-> FALSE]]]
quote(value) ==
    [owner |-> "switchboard", parses |-> TRUE, feed_id |-> QuoteFeed, value |-> value, slot |-> 0,
     genuine |-> TRUE]
other == [owner |-> "sysvar"]

CachedAccounts ==
    [k \in {SP, SM, SM2, Quote, Queue, SLOT_HASHES_ID, INSTRUCTIONS_ID} |->
        CASE k = SP -> [owner |-> "scope_prices", parses |-> TRUE, mappings |-> SM,
                        entries |-> [i \in {0} |-> [value |-> 0, exp |-> 0, unix_timestamp |-> 0,
                                                    source |-> ScopeMapping(1)]]]
          [] k = SM -> mappings(1)
          [] k = SM2 -> mappings(2)
          [] k = Quote -> quote(1)
          [] OTHER -> other]
CachedUpdates == {[key |-> Quote, account |-> quote(2)]}
QuoteKeys == <<Quote, Queue, SLOT_HASHES_ID, INSTRUCTIONS_ID>>
CachedKeys ==
    {<<SP, SM>>, <<SP, SM2>>, QuoteKeys, <<SP, SM>> \o QuoteKeys, QuoteKeys \o <<SP, SM>>,
     <<SP, SM, SP, SM>>}
CachedValues == {<<15, 1>>}

-----------------------------------------------------------------------------
\* Swaps between the deposit sub-account's own accounts, and between any two.
OwnEndpoints == {<<TRUE, TRUE>>}
AllEndpoints == BOOLEAN \X BOOLEAN

MarketsByName ==
    [pull |->
       [configs |-> PullConfigs, caps |-> {2, 3}, accounts |-> PullAccounts,
        key_lists |-> PullKeys, updates |-> PullUpdates, scope_values |-> {},
        mappings |-> {}, max_transfer |-> 2, swap_amounts |-> 1..2, endpoints |-> OwnEndpoints],
     cached |->
       [configs |-> CachedConfigs, caps |-> {2}, accounts |-> CachedAccounts,
        key_lists |-> CachedKeys, updates |-> CachedUpdates, scope_values |-> CachedValues,
        mappings |-> MCMappings, max_transfer |-> 1, swap_amounts |-> {1}, endpoints |-> OwnEndpoints],
     several |->
       [configs |-> {PythConfig(AssetFeed, NoKey, 0, 1, 5000), PythConfig(BaseFeed, NoKey, 1, 1, 5000)},
        caps |-> {1}, accounts |-> PullAccounts, key_lists |-> {<<P1>>, <<P1, P1>>, <<P1, P1, P2>>},
        updates |-> {}, scope_values |-> {}, mappings |-> {},
        max_transfer |-> 1, swap_amounts |-> 0..1, endpoints |-> AllEndpoints]]

\* The same, a function of the name, which TLC evaluates once.
MCMarkets == [name \in DOMAIN MarketsByName |-> MarketsByName[name]]
=============================================================================
