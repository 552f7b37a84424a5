---------------------------- MODULE AssetsProofs ----------------------------
(***************************************************************************)
(* Proofs about pricing: what a read of each oracle kind guarantees, that  *)
(* one session has one price per feed, and what rounding may cost a        *)
(* deposit or a swap, for all prices, scales and amounts.                  *)
(***************************************************************************)
EXTENDS AssetsProperties, SequenceTheorems, ArithmeticTheorems

-----------------------------------------------------------------------------
(* Powers of ten.                                                            *)

\* The powers up to the n-th, as a function.
Powers(n, g) == g = [k \in 0..n |-> IF k = 0 THEN 1 ELSE 10 * g[k - 1]]

\* What such a function is, power by power.
LEMMA PowersAt ==
    ASSUME NEW n \in Nat, NEW g, Powers(n, g), NEW k \in 0..n
    PROVE  g[k] = IF k = 0 THEN 1 ELSE 10 * g[k - 1]
<1> DEFINE next(j) == IF j = 0 THEN 1 ELSE 10 * g[j - 1]
<1>1. g = [j \in 0..n |-> next(j)]
  BY DEF Powers
<1>2. g[k] = next(k)
  <2> HIDE DEF next
  <2> QED
    BY <1>1
<1> QED
  BY <1>2

\* There is one for every n.
LEMMA PowersExist ==
    ASSUME NEW n \in Nat
    PROVE  \E g : Powers(n, g)
<1> DEFINE Bad == {j \in Nat : ~ \E g : Powers(j, g)}
<1> SUFFICES ASSUME Bad # {} PROVE FALSE
  OBVIOUS
<1>1. PICK j \in Bad : \A i \in Bad : j <= i
  <2>1. Bad \in SUBSET Nat
    OBVIOUS
  <2> HIDE DEF Bad
  <2> QED
    BY <2>1, LeastNat
<1>2. j \in Nat /\ ~ \E g : Powers(j, g)
  BY <1>1
<1>3. CASE j = 0
  <2> DEFINE g == [k \in 0..0 |-> 1]
  <2>1. g = [k \in 0..0 |-> IF k = 0 THEN 1 ELSE 10 * g[k - 1]]
    OBVIOUS
  <2> QED
    BY <1>2, <1>3, <2>1 DEF Powers
<1>4. CASE j # 0
  <2>1. j - 1 \in Nat
    BY <1>2, <1>4
  <2>2. j - 1 \notin Bad
    <3> HIDE DEF Bad
    <3> QED
      BY <1>1, <1>2, <2>1
  <2>3. PICK h : Powers(j - 1, h)
    BY <2>1, <2>2
  <2> DEFINE g == [k \in 0..j |-> IF k = 0 THEN 1 ELSE 10 * h[k - 1]]
  <2>4. \A k \in 0..(j - 1) : g[k] = h[k]
    BY <1>2, <2>1, <2>3, PowersAt
  <2>5. \A k \in 0..j : k # 0 => g[k - 1] = h[k - 1]
    <3> HIDE DEF g
    <3> QED
      BY <1>2, <2>4
  <2>6. \A k \in 0..j : (IF k = 0 THEN 1 ELSE 10 * g[k - 1]) = IF k = 0 THEN 1 ELSE 10 * h[k - 1]
    <3> HIDE DEF g
    <3> QED
      BY <2>5
  <2>7. Powers(j, g)
    <3> DEFINE with(f, k) == IF k = 0 THEN 1 ELSE 10 * f[k - 1]
    <3>1. \A k \in 0..j : with(g, k) = with(h, k)
      BY <2>6
    <3>2. g = [k \in 0..j |-> with(h, k)]
      OBVIOUS
    <3>3. g = [k \in 0..j |-> with(g, k)]
      <4> HIDE DEF with, g
      <4> QED
        BY <3>1, <3>2
    <3> HIDE DEF g
    <3> QED
      BY <3>3 DEF Powers
  <2> QED
    BY <1>2, <2>7
<1> QED
  BY <1>3, <1>4

\* Any two agree where both are defined.
LEMMA PowersAgree ==
    ASSUME NEW n \in Nat, NEW g, Powers(n, g), NEW m \in Nat, NEW h, Powers(m, h),
           NEW k \in Nat, k <= n, k <= m
    PROVE  g[k] = h[k]
<1> DEFINE Bad == {j \in Nat : j <= n /\ j <= m /\ g[j] # h[j]}
<1> SUFFICES ASSUME Bad # {} PROVE FALSE
  OBVIOUS
<1>1. PICK j \in Bad : \A i \in Bad : j <= i
  <2>1. Bad \in SUBSET Nat
    OBVIOUS
  <2> HIDE DEF Bad
  <2> QED
    BY <2>1, LeastNat
<1>2. j \in Nat /\ j <= n /\ j <= m /\ g[j] # h[j]
  BY <1>1
<1>3. /\ g[j] = IF j = 0 THEN 1 ELSE 10 * g[j - 1]
      /\ h[j] = IF j = 0 THEN 1 ELSE 10 * h[j - 1]
  <2>1. j \in 0..n /\ j \in 0..m
    BY <1>2
  <2> QED
    BY <2>1, PowersAt
<1>4. j # 0 /\ g[j - 1] # h[j - 1]
  BY <1>2, <1>3
<1>5. j - 1 \in Bad
  BY <1>2, <1>4
<1> HIDE DEF Bad
<1> QED
  BY <1>1, <1>2, <1>5

\* Powers of ten as the recursion defines them.
LEMMA PowerStep ==
    /\ Pow10[0] = 1
    /\ \A n \in Nat : Pow10[n + 1] = 10 * Pow10[n]
<1> DEFINE G(n) == CHOOSE g : Powers(n, g)
           f == [n \in Nat |-> G(n)[n]]
           next(p, n) == IF n = 0 THEN 1 ELSE 10 * p[n - 1]
           F(p) == [n \in Nat |-> next(p, n)]
<1>1. \A n \in Nat : Powers(n, G(n))
  BY PowersExist
<1>2. \A n \in Nat : f[n] = next(f, n)
  <2> SUFFICES ASSUME NEW n \in Nat PROVE f[n] = next(f, n)
    OBVIOUS
  <2>1. G(n)[n] = IF n = 0 THEN 1 ELSE 10 * G(n)[n - 1]
    <3> HIDE DEF G
    <3>1. n \in 0..n
      OBVIOUS
    <3> QED
      BY <1>1, <3>1, PowersAt
  <2>2. n # 0 => G(n)[n - 1] = G(n - 1)[n - 1]
    <3> HIDE DEF G
    <3> SUFFICES ASSUME n # 0 PROVE G(n)[n - 1] = G(n - 1)[n - 1]
      OBVIOUS
    <3>1. n - 1 \in Nat /\ n - 1 <= n /\ n - 1 <= n - 1
      OBVIOUS
    <3>2. Powers(n, G(n)) /\ Powers(n - 1, G(n - 1))
      BY <1>1, <3>1
    <3> QED
      BY <3>1, <3>2, PowersAgree
  <2> HIDE DEF G
  <2> QED
    BY <2>1, <2>2
<1>3. f = F(f)
  <2> HIDE DEF next, G
  <2>1. f = [n \in Nat |-> f[n]]
    OBVIOUS
  <2> HIDE DEF f
  <2> QED
    BY <1>2, <2>1
<1>4. Pow10 = CHOOSE p : p = F(p)
  BY DEF Pow10
<1>5. Pow10 = F(Pow10)
  <2> HIDE DEF F, f
  <2> QED
    BY <1>3, <1>4
<1>6. \A n \in Nat : Pow10[n] = next(Pow10, n)
  <2> HIDE DEF next
  <2> QED
    BY <1>5
<1> QED
  BY <1>6

\* They are positive counts.
LEMMA PowerPositive ==
    ASSUME NEW n \in Nat
    PROVE  Pow10[n] \in Nat \ {0}
<1> DEFINE Bad == {j \in Nat : Pow10[j] \notin Nat \ {0}}
<1> SUFFICES ASSUME Bad # {} PROVE FALSE
  OBVIOUS
<1>1. PICK j \in Bad : \A i \in Bad : j <= i
  <2>1. Bad \in SUBSET Nat
    OBVIOUS
  <2> HIDE DEF Bad
  <2> QED
    BY <2>1, LeastNat
<1>2. j \in Nat /\ Pow10[j] \notin Nat \ {0}
  BY <1>1
<1>3. j # 0
  BY <1>2, PowerStep
<1>4. j - 1 \in Nat /\ Pow10[j] = 10 * Pow10[j - 1]
  <2>1. j - 1 \in Nat /\ (j - 1) + 1 = j
    BY <1>2, <1>3
  <2>2. Pow10[(j - 1) + 1] = 10 * Pow10[j - 1]
    BY <2>1, PowerStep
  <2> QED
    BY <2>1, <2>2
<1>5. Pow10[j - 1] \in Nat \ {0}
  <2>1. j - 1 \notin Bad
    <3> HIDE DEF Bad
    <3> QED
      BY <1>1, <1>2, <1>4
  <2> QED
    BY <1>4, <2>1
<1> QED
  BY <1>2, <1>4, <1>5

\* Powers multiply by adding exponents.
LEMMA PowerSum ==
    ASSUME NEW m \in Nat, NEW n \in Nat
    PROVE  Pow10[m + n] = Pow10[m] * Pow10[n]
<1> DEFINE Bad == {j \in Nat : Pow10[m + j] # Pow10[m] * Pow10[j]}
<1> SUFFICES ASSUME Bad # {} PROVE FALSE
  OBVIOUS
<1>1. PICK j \in Bad : \A i \in Bad : j <= i
  <2>1. Bad \in SUBSET Nat
    OBVIOUS
  <2> HIDE DEF Bad
  <2> QED
    BY <2>1, LeastNat
<1>2. j \in Nat /\ Pow10[m + j] # Pow10[m] * Pow10[j]
  BY <1>1
<1>3. \A k \in Nat : Pow10[k] \in Nat
  BY PowerPositive
<1>4. j # 0
  <2>1. Pow10[m + 0] = Pow10[m] * Pow10[0]
    BY <1>3, PowerStep
  <2> QED
    BY <1>2, <2>1
<1> DEFINE i == j - 1
<1>5. i \in Nat /\ m + i \in Nat /\ i + 1 = j /\ (m + i) + 1 = m + j
  BY <1>2, <1>4
<1>6. Pow10[m + i] = Pow10[m] * Pow10[i]
  <2>1. i \notin Bad
    <3> HIDE DEF Bad
    <3> QED
      BY <1>1, <1>2, <1>5
  <2> QED
    BY <1>5, <2>1
<1> HIDE DEF Bad, i
<1>7. Pow10[m + j] = 10 * Pow10[m + i] /\ Pow10[j] = 10 * Pow10[i]
  <2>1. Pow10[(m + i) + 1] = 10 * Pow10[m + i] /\ Pow10[i + 1] = 10 * Pow10[i]
    BY <1>5, PowerStep
  <2> QED
    BY <1>5, <2>1
<1>8. Pow10[m] \in Nat /\ Pow10[i] \in Nat
  BY <1>3, <1>5
<1>9. 10 * (Pow10[m] * Pow10[i]) = Pow10[m] * (10 * Pow10[i])
  BY <1>8
<1> QED
  BY <1>2, <1>6, <1>7, <1>9

-----------------------------------------------------------------------------
(* Pricing.                                                                  *)

Price == [value : Nat \ {0}, decimals : Nat]

\* Division by a positive number, as two inequalities.
LEMMA QuotientFacts ==
    ASSUME NEW a \in Nat, NEW d \in Nat \ {0}
    PROVE  /\ a \div d \in Nat
           /\ (a \div d) * d <= a
           /\ a < (a \div d + 1) * d
<1>1. a \div d \in Nat /\ a % d \in 0..(d - 1) /\ a = d * (a \div d) + (a % d)
  OBVIOUS
<1> DEFINE q == a \div d
           r == a % d
<1>2. q \in Nat /\ r \in Nat /\ r < d /\ a = d * q + r
  BY <1>1
<1> HIDE DEF q, r
<1>3. q * d <= a /\ a < (q + 1) * d
  BY <1>2
<1> QED
  BY <1>2, <1>3 DEF q

\* The value in base atoms is the floor of the exact one, however the scales cancel.
LEMMA ValueIsFloor ==
    ASSUME NEW atoms \in Nat, NEW p \in Price, NEW b \in Price, NEW decimals \in Nat,
           NEW v \in base_atoms_from_asset_atoms(atoms, p, b, decimals, BaseDecimals)
    PROVE  LET exact == ExactValue(atoms, p, b, decimals)
           IN  /\ v \in Nat /\ exact[1] \in Nat /\ exact[2] \in Nat \ {0}
               /\ v * exact[2] <= exact[1]
               /\ exact[1] < (v + 1) * exact[2]
<1> DEFINE up == BaseDecimals + b.decimals
           down == decimals + p.decimals
           scaled == atoms * p.value
           value == b.value
           num == scaled * Pow10[up]
           den == value * Pow10[down]
<1>1. /\ up \in Nat /\ down \in Nat /\ value \in Nat \ {0} /\ scaled \in Nat
  BY AssetsAssumption DEF Price
<1>2. ExactValue(atoms, p, b, decimals) = <<num, den>>
  BY DEF ExactValue
<1>3. /\ Pow10[up] \in Nat \ {0} /\ Pow10[down] \in Nat \ {0}
  BY <1>1, PowerPositive
<1>4. num \in Nat /\ den \in Nat \ {0}
  <2> HIDE DEF up, down, scaled, value
  <2> QED
    BY <1>1, <1>3
<1>5. v \in Nat /\ v * den <= num /\ num < (v + 1) * den
  <2>1. CASE up >= down
    <3> DEFINE s == Pow10[up - down]
    <3>1. v = (scaled * s) \div value
      <4>1. PICK t \in pow10(up - down) : v = (scaled * t) \div value
        BY <2>1 DEF base_atoms_from_asset_atoms
      <4>2. t = s
        BY <4>1 DEF pow10
      <4> QED
        BY <4>1, <4>2
    <3>2. up - down \in Nat /\ down + (up - down) = up
      BY <1>1, <2>1
    <3> HIDE DEF up, down, scaled, value
    <3>3. s \in Nat \ {0} /\ Pow10[up] = Pow10[down] * s
      <4>1. s \in Nat \ {0}
        BY <3>2, PowerPositive, Zenon
      <4>2. Pow10[down + (up - down)] = Pow10[down] * s
        BY <1>1, <3>2, PowerSum, Zenon
      <4> QED
        BY <3>2, <4>1, <4>2, Zenon
    <3> DEFINE x == scaled * s
               t == Pow10[down]
    <3>4. x \in Nat /\ t \in Nat \ {0} /\ num = x * t /\ den = value * t
      <4>1. scaled * (t * s) = (scaled * s) * t
        BY <1>1, <1>3, <3>3
      <4> QED
        BY <1>1, <1>3, <3>3, <4>1
    <3> HIDE DEF s
    <3>5. v = x \div value
      BY <3>1
    <3> HIDE DEF x, t, num, den
    <3>6. v \in Nat /\ v * value <= x /\ x < (v + 1) * value
      BY <1>1, <3>4, <3>5, QuotientFacts
    <3>7. (v * value) * t <= x * t
      <4>1. v * value \in Nat
        BY <1>1, <3>6
      <4> QED
        BY <3>4, <3>6, <4>1, ProductMonotone
    <3>8. x * t < ((v + 1) * value) * t
      <4> DEFINE z == (v + 1) * value
      <4>1. z \in Nat /\ x + 1 <= z
        BY <1>1, <3>4, <3>6
      <4> HIDE DEF z
      <4>2. (x + 1) * t <= z * t
        BY <3>4, <4>1, ProductMonotone
      <4>3. (x + 1) * t = x * t + t /\ x * t \in Nat
        BY <3>4
      <4>4. x * t < z * t
        BY <3>4, <4>1, <4>2, <4>3
      <4> QED
        BY <4>4 DEF z
    <3>9. (v * value) * t = v * (value * t) /\ ((v + 1) * value) * t = (v + 1) * (value * t)
      BY <1>1, <3>4, <3>6
    <3> QED
      BY <3>4, <3>6, <3>7, <3>8, <3>9
  <2>2. CASE ~(up >= down)
    <3> DEFINE s == Pow10[down - up]
    <3>1. v = scaled \div (value * s)
      <4>1. PICK t \in pow10(down - up) : v = scaled \div (value * t)
        BY <2>2 DEF base_atoms_from_asset_atoms
      <4>2. t = s
        BY <4>1 DEF pow10
      <4> QED
        BY <4>1, <4>2
    <3>2. down - up \in Nat /\ up + (down - up) = down
      BY <1>1, <2>2
    <3> HIDE DEF up, down, scaled, value
    <3>3. s \in Nat \ {0} /\ Pow10[down] = Pow10[up] * s
      <4>1. s \in Nat \ {0}
        BY <3>2, PowerPositive, Zenon
      <4>2. Pow10[up + (down - up)] = Pow10[up] * s
        BY <1>1, <3>2, PowerSum, Zenon
      <4> QED
        BY <3>2, <4>1, <4>2, Zenon
    <3> DEFINE y == value * s
               t == Pow10[up]
    <3>4. y \in Nat \ {0} /\ t \in Nat \ {0} /\ num = scaled * t /\ den = y * t
      <4>1. value * (t * s) = (value * s) * t
        BY <1>1, <1>3, <3>3
      <4> QED
        BY <1>1, <1>3, <3>3, <4>1
    <3> HIDE DEF s
    <3>5. v = scaled \div y
      BY <3>1
    <3> HIDE DEF y, t, num, den
    <3>6. v \in Nat /\ v * y <= scaled /\ scaled < (v + 1) * y
      BY <1>1, <3>4, <3>5, QuotientFacts
    <3>7. (v * y) * t <= scaled * t
      <4>1. v * y \in Nat
        BY <3>4, <3>6
      <4> QED
        BY <1>1, <3>4, <3>6, <4>1, ProductMonotone
    <3>8. scaled * t < ((v + 1) * y) * t
      <4> DEFINE z == (v + 1) * y
      <4>1. z \in Nat /\ scaled + 1 <= z
        BY <1>1, <3>4, <3>6
      <4> HIDE DEF z
      <4>2. (scaled + 1) * t <= z * t
        BY <1>1, <3>4, <4>1, ProductMonotone
      <4>3. (scaled + 1) * t = scaled * t + t /\ scaled * t \in Nat
        BY <1>1, <3>4
      <4>4. scaled * t < z * t
        BY <3>4, <4>1, <4>2, <4>3
      <4> QED
        BY <4>4 DEF z
    <3>9. (v * y) * t = v * (y * t) /\ ((v + 1) * y) * t = (v + 1) * (y * t)
      BY <3>4, <3>6
    <3> QED
      BY <3>4, <3>6, <3>7, <3>8, <3>9
  <2> QED
    BY <2>1, <2>2
<1> HIDE DEF num, den
<1> QED
  BY <1>2, <1>4, <1>5

-----------------------------------------------------------------------------
(* Reads.                                                                    *)

ScopeEntries == 0..(ScopeMaxEntries - 1)

\* Price accounts of Scope.
Feeds == {k \in OracleKeys : InitialAccounts[k].owner = "scope_prices"}

\* An entry with a price in it holds one of the source its mapping names.
EntriesMatch ==
    \A k \in Feeds, i \in ScopeEntries : accounts[k].entries[i].value # 0 =>
        accounts[k].entries[i].source = accounts[accounts[k].mappings].entries[i].mapping

OraclesInv ==
    /\ market \in DOMAIN Markets
    /\ now \in 0..MaxTime
    /\ accounts \in [OracleKeys -> OracleAccount]
    /\ \A k \in OracleKeys : accounts[k].owner = InitialAccounts[k].owner
    /\ \A k \in Feeds : accounts[k].mappings = InitialAccounts[k].mappings
    /\ EntriesMatch

\* A leg as parse_leg makes it of a stored configuration and submitted accounts.
LegOK(leg) ==
    /\ leg = [config |-> leg.config, keys |-> leg.keys]
    /\ leg.config \in OracleConfigRecord /\ validate(leg.config)
    /\ leg.keys \in Seq(OracleKeys) /\ Len(leg.keys) = leg_accounts(leg.config)

\* What the accounts of a market are.
LEMMA MarketFacts ==
    ASSUME market \in DOMAIN Markets
    PROVE  /\ MaxTransfer \in 0..MaxOracleU64 /\ Caps \subseteq Nat
           /\ SwapAmounts \subseteq Nat /\ Endpoints \subseteq BOOLEAN \X BOOLEAN
           /\ OracleConfigs \subseteq OracleConfigRecord
           /\ InitialAccounts \in [OracleKeys -> OracleAccount]
           /\ \A keys \in KeyLists : keys \in Seq(OracleKeys)
           /\ \A u \in Updates :
                /\ u.key \in OracleKeys /\ u.account \in PythAccount \cup QuoteAccount
                /\ u.account.owner = InitialAccounts[u.key].owner
           /\ ScopeValues \subseteq Nat \X Nat /\ Mappings \subseteq MappingRecord
           /\ \A k \in Feeds :
                /\ InitialAccounts[k].mappings \in OracleKeys
                /\ InitialAccounts[InitialAccounts[k].mappings].owner = "scope_mappings"
                /\ \A i \in ScopeEntries : InitialAccounts[k].entries[i].value # 0 =>
                     InitialAccounts[k].entries[i].source
                       = InitialAccounts[InitialAccounts[k].mappings].entries[i].mapping
                /\ \A j \in Feeds : j # k => InitialAccounts[j].mappings # InitialAccounts[k].mappings
<1> DEFINE m == Markets[market]
           feeds == {k \in DOMAIN m.accounts : m.accounts[k].owner = "scope_prices"}
<1>1. /\ m.max_transfer \in 0..MaxOracleU64 /\ m.caps \subseteq Nat
      /\ m.swap_amounts \subseteq Nat /\ m.endpoints \subseteq BOOLEAN \X BOOLEAN
      /\ m.configs \subseteq OracleConfigRecord
      /\ m.accounts \in [DOMAIN m.accounts -> OracleAccount]
      /\ \A keys \in m.key_lists : keys \in Seq(DOMAIN m.accounts)
      /\ \A u \in m.updates :
           /\ u.key \in DOMAIN m.accounts /\ u.account \in PythAccount \cup QuoteAccount
           /\ u.account.owner = m.accounts[u.key].owner
      /\ m.scope_values \subseteq Nat \X Nat /\ m.mappings \subseteq MappingRecord
      /\ \A k \in feeds :
           /\ m.accounts[k].mappings \in DOMAIN m.accounts
           /\ m.accounts[m.accounts[k].mappings].owner = "scope_mappings"
           /\ \A i \in 0..(ScopeMaxEntries - 1) : m.accounts[k].entries[i].value # 0 =>
                m.accounts[k].entries[i].source
                  = m.accounts[m.accounts[k].mappings].entries[i].mapping
           /\ \A j \in feeds : j # k => m.accounts[j].mappings # m.accounts[k].mappings
  BY MarketsAssumption, Zenon
<1>2. Feeds = feeds
  BY DEF Feeds, OracleKeys, InitialAccounts
<1> QED
  BY <1>1, <1>2, Zenon DEF MaxTransfer, Caps, OracleConfigs, InitialAccounts, OracleKeys, KeyLists,
     Updates, ScopeValues, Mappings, ScopeEntries, SwapAmounts, Endpoints

\* An account's owner says what kind it is.
LEMMA AccountKinds ==
    ASSUME NEW a \in OracleAccount
    PROVE  /\ a.owner = "pyth" => a \in PythAccount
           /\ a.owner = "switchboard" => a \in QuoteAccount
           /\ a.owner = "scope_prices" => a \in ScopePrices
           /\ a.owner = "scope_mappings" => a \in ScopeMappings
BY DEF OracleAccount, PythAccount, QuoteAccount, ScopePrices, ScopeMappings, OtherAccount

\* A configuration's kind says which fields it has.
LEMMA ConfigKinds ==
    ASSUME NEW c \in OracleConfigRecord
    PROVE  /\ c.max_age \in Nat /\ c.kind \in {"Switchboard", "Pyth", "Scope"}
           /\ c.kind = "Scope" => c.price_index \in Nat
           /\ c.kind # "Scope" => c.price_decimals \in Nat
BY DEF OracleConfigRecord

\* Bringing a price to the configured scale yields a count, if it yields anything.
LEMMA ScaledPrice ==
    ASSUME NEW price \in Nat \ {0}, NEW exponent \in Int, NEW decimals \in Nat,
           NEW v \in scale_price(price, exponent, decimals)
    PROVE  v \in Nat
<1> DEFINE scale == decimals + exponent
<1>1. CASE scale >= 0
  <2>1. PICK q \in pow10(scale) : v = price * q
    BY <1>1 DEF scale_price
  <2>2. scale \in Nat /\ q = Pow10[scale]
    BY <1>1, <2>1 DEF pow10
  <2>3. q \in Nat
    BY <2>2, PowerPositive
  <2> QED
    BY <2>1, <2>3
<1>2. CASE ~(scale >= 0)
  <2>1. PICK q \in pow10(-scale) : v = price \div q
    BY <1>2 DEF scale_price
  <2>2. -scale \in Nat /\ q = Pow10[-scale]
    BY <1>2, <2>1 DEF pow10
  <2> HIDE DEF scale
  <2>3. q \in Nat \ {0}
    BY <2>2, PowerPositive
  <2> QED
    BY <2>1, <2>3, QuotientFacts
<1> QED
  BY <1>1, <1>2

\* A Pyth price is of a fully verified update of the feed, recent enough.
LEMMA PythRead ==
    ASSUME NEW c \in OracleConfigRecord, c.kind = "Pyth", NEW key, NEW a \in OracleAccount,
           NEW t \in Nat, NEW p \in read_pyth(c, key, a, t)
    PROVE  p \in Price /\ a.genuine /\ t - a.publish_time <= c.max_age
<1>1. a.owner = "pyth" /\ p \in read_verified_update(c, a, t)
  BY DEF read_pyth
<1>2. a.full /\ a.publish_time + c.max_age >= t /\ p \in price_from_pyth(c, a)
  BY <1>1 DEF read_verified_update
<1>3. a \in PythAccount /\ c.max_age \in Nat /\ c.price_decimals \in Nat
  BY <1>1, AccountKinds, ConfigKinds
<1>4. a.price \in Int /\ a.exponent \in Int /\ a.publish_time \in Nat /\ a.genuine
  BY <1>2, <1>3 DEF PythAccount
<1>5. a.price > 0
  BY <1>2 DEF price_from_pyth
<1>6. PICK v \in scale_price(a.price, a.exponent, c.price_decimals) \ {0} :
        p = [value |-> v, decimals |-> c.price_decimals]
  BY <1>2, <1>5 DEF price_from_pyth
<1>7. v \in Nat \ {0}
  <2>1. a.price \in Nat \ {0}
    BY <1>4, <1>5
  <2> QED
    BY <1>3, <1>4, <1>6, <2>1, ScaledPrice
<1> QED
  BY <1>2, <1>3, <1>4, <1>6, <1>7 DEF Price

\* A Switchboard price is of a quote that verifies, recent enough.
LEMMA QuoteRead ==
    ASSUME NEW c \in OracleConfigRecord, c.kind = "Switchboard", NEW keys, NEW a \in OracleAccount,
           NEW t \in Nat, NEW p \in read_switchboard(c, keys, a, t)
    PROVE  p \in Price /\ a.genuine /\ t - a.slot <= c.max_age
<1>1. quote_verified(c, a, t) /\ p \in price_from_quote(c, a)
  BY DEF read_switchboard
<1>2. a.owner = "switchboard" /\ a.parses /\ t - a.slot <= c.max_age
  BY <1>1 DEF quote_verified
<1>3. a \in QuoteAccount /\ c.price_decimals \in Nat
  BY <1>2, AccountKinds, ConfigKinds
<1>4. a.value \in Int /\ a.genuine
  BY <1>2, <1>3 DEF QuoteAccount
<1>5. a.value > 0 /\ p = [value |-> a.value, decimals |-> c.price_decimals]
  BY <1>1 DEF price_from_quote
<1> QED
  BY <1>2, <1>3, <1>4, <1>5 DEF Price

\* A Scope price is of the configured source, recent enough.
LEMMA ScopeRead ==
    ASSUME OraclesInv, NEW c \in OracleConfigRecord, c.kind = "Scope", validate(c),
           NEW keys, keys[1] \in OracleKeys, keys[2] \in OracleKeys,
           NEW p \in read_scope(c, keys, accounts[keys[1]], accounts[keys[2]], now)
    PROVE  LET entry == accounts[keys[1]].entries[c.price_index]
           IN  /\ p \in Price /\ entry.source = c.mapping
               /\ now - entry.unix_timestamp <= c.max_age
<1> DEFINE k == keys[1]
           i == c.price_index
           entry == accounts[k].entries[i]
<1>1. /\ accounts[k].owner = "scope_prices" /\ accounts[k].mappings = keys[2]
      /\ verify_mapping_entry(c, accounts[keys[2]])
      /\ verify_freshness(c, entry, now) /\ p \in price_from_entry(entry)
  BY DEF read_scope
<1>2. k \in Feeds /\ accounts[k] \in OracleAccount
  BY <1>1 DEF OraclesInv, Feeds
<1>3. i \in ScopeEntries
  BY ConfigKinds, AssetsAssumption DEF validate, ScopeEntries
<1>4. accounts[k] \in ScopePrices
  BY <1>1, <1>2, AccountKinds
<1>5. entry \in [value : Nat, exp : Nat, unix_timestamp : Nat, source : MappingRecord]
  BY <1>3, <1>4 DEF ScopePrices, ScopeEntries
<1>6. entry.value # 0 /\ p = [value |-> entry.value, decimals |-> entry.exp]
  BY <1>1 DEF price_from_entry
<1>7. entry.source = accounts[keys[2]].entries[i].mapping
  BY <1>1, <1>2, <1>3, <1>6 DEF OraclesInv, EntriesMatch
<1>8. entry.source = c.mapping
  BY <1>1, <1>7 DEF verify_mapping_entry
<1> QED
  BY <1>1, <1>5, <1>6, <1>8 DEF Price, verify_freshness

\* So every leg's price was published by its configured source, recently enough.
LEMMA LegRead ==
    ASSUME OraclesInv, NEW leg, LegOK(leg), NEW p \in read_leg(leg, accounts, now)
    PROVE  /\ p \in Price /\ Observation(leg).genuine
           /\ now - Observation(leg).time <= leg.config.max_age
<1> DEFINE c == leg.config
           k == leg.keys[1]
<1>1. c \in OracleConfigRecord /\ validate(c) /\ c.kind \in {"Switchboard", "Pyth", "Scope"}
  BY ConfigKinds DEF LegOK
<1>2. now \in Nat
  BY AssetsAssumption DEF OraclesInv
<1>3. Len(leg.keys) >= 1 /\ (c.kind = "Scope" => Len(leg.keys) = 2)
  BY <1>1 DEF LegOK, leg_accounts
<1>4. k \in OracleKeys /\ (c.kind = "Scope" => leg.keys[2] \in OracleKeys)
  BY <1>3 DEF LegOK
<1>5. accounts[k] \in OracleAccount
  BY <1>4 DEF OraclesInv
<1>6. CASE c.kind = "Pyth"
  <2>1. p \in read_pyth(c, k, accounts[k], now)
    BY <1>6 DEF read_leg
  <2>2. p \in Price /\ accounts[k].genuine /\ now - accounts[k].publish_time <= c.max_age
    BY <1>1, <1>2, <1>5, <1>6, <2>1, PythRead
  <2> QED
    BY <1>6, <2>2 DEF Observation
<1>7. CASE c.kind = "Switchboard"
  <2>1. p \in read_switchboard(c, leg.keys, accounts[k], now)
    BY <1>7 DEF read_leg
  <2>2. p \in Price /\ accounts[k].genuine /\ now - accounts[k].slot <= c.max_age
    BY <1>1, <1>2, <1>5, <1>7, <2>1, QuoteRead
  <2> QED
    BY <1>7, <2>2 DEF Observation
<1>8. CASE c.kind = "Scope"
  <2>1. p \in read_scope(c, leg.keys, accounts[k], accounts[leg.keys[2]], now)
    BY <1>8 DEF read_leg
  <2>2. /\ p \in Price /\ accounts[k].entries[c.price_index].source = c.mapping
        /\ now - accounts[k].entries[c.price_index].unix_timestamp <= c.max_age
    BY <1>1, <1>4, <1>8, <2>1, ScopeRead
  <2> QED
    BY <1>8, <2>2 DEF Observation
<1> QED
  BY <1>1, <1>6, <1>7, <1>8

-----------------------------------------------------------------------------
(* Sessions.                                                                 *)

Legs ==
    {leg \in [config : OracleConfigRecord, keys : Seq(OracleKeys)] :
       validate(leg.config) /\ Len(leg.keys) = leg_accounts(leg.config)}

\* Parsing takes a leg's accounts off the front and leaves the rest.
LEMMA ParsedLeg ==
    ASSUME NEW c \in OracleConfigRecord, validate(c), NEW keys \in Seq(OracleKeys),
           parse_leg_ok(c, keys)
    PROVE  parse_leg(c, keys) \in Legs /\ rest_after(c, keys) \in Seq(OracleKeys)
<1> DEFINE n == leg_accounts(c)
<1>1. n \in Nat /\ n >= 1 /\ n <= Len(keys) /\ Len(keys) \in Nat
  BY ConfigKinds DEF leg_accounts, parse_leg_ok
<1> HIDE DEF n
<1>2. \A i \in 1..Len(keys) : keys[i] \in OracleKeys
  OBVIOUS
<1>3. SubSeq(keys, 1, n) \in Seq(OracleKeys) /\ Len(SubSeq(keys, 1, n)) = n
  <2>1. \A i \in 1..n : keys[i] \in OracleKeys
    BY <1>1, <1>2
  <2>2. /\ SubSeq(keys, 1, n) \in Seq(OracleKeys)
        /\ Len(SubSeq(keys, 1, n)) = IF 1 <= n THEN n - 1 + 1 ELSE 0
    BY <1>1, <2>1, SubSeqProperties
  <2> QED
    BY <1>1, <2>2
<1>4. SubSeq(keys, n + 1, Len(keys)) \in Seq(OracleKeys)
  <2>1. \A i \in (n + 1)..Len(keys) : keys[i] \in OracleKeys
    BY <1>1, <1>2
  <2> QED
    BY <1>1, <2>1, SubSeqProperties
<1> QED
  BY <1>3, <1>4 DEF parse_leg, rest_after, Legs, n

\* What the prices of one session are.
LEMMA SessionFacts ==
    ASSUME OraclesInv, NEW legs \in Seq(Legs), NEW prices \in read_session(legs, accounts, now)
    PROVE  /\ \A i \in DOMAIN legs :
                /\ prices[i] \in Price /\ Observation(legs[i]).genuine
                /\ now - Observation(legs[i]).time <= legs[i].config.max_age
           /\ \A i, j \in DOMAIN legs :
                feed_key(legs[i].config) = feed_key(legs[j].config) => prices[i] = prices[j]
<1> DEFINE reads(i) == read_leg(legs[i], accounts, now)
           some(S) == CHOOSE p \in S : TRUE
<1>1. /\ \A i, j \in DOMAIN legs : i < j => compatible(legs[j], legs[i])
      /\ \A i \in DOMAIN legs : reads(i) # {}
      /\ prices = [i \in DOMAIN legs |-> some(reads(i))]
  BY DEF read_session
<1>2. ASSUME NEW i \in DOMAIN legs
      PROVE  /\ prices[i] \in Price /\ Observation(legs[i]).genuine
             /\ now - Observation(legs[i]).time <= legs[i].config.max_age
  <2>1. prices[i] \in reads(i)
    <3> HIDE DEF reads
    <3> QED
      BY <1>1
  <2>2. LegOK(legs[i])
    <3>1. legs[i] \in Legs
      OBVIOUS
    <3> QED
      BY <3>1 DEF Legs, LegOK
  <2> QED
    BY <2>1, <2>2, LegRead
<1>3. ASSUME NEW i \in DOMAIN legs, NEW j \in DOMAIN legs, i < j,
             feed_key(legs[i].config) = feed_key(legs[j].config)
      PROVE  prices[i] = prices[j]
  <2>1. legs[i].config = legs[j].config /\ legs[i].keys = legs[j].keys
    BY <1>1, <1>3 DEF compatible
  <2>2. legs[i] = legs[j]
    <3>1. legs[i] \in Legs /\ legs[j] \in Legs
      OBVIOUS
    <3> QED
      BY <2>1, <3>1 DEF Legs
  <2>3. reads(i) = reads(j)
    BY <2>2
  <2> HIDE DEF reads, some
  <2>4. prices[i] = some(reads(i)) /\ prices[j] = some(reads(j))
    BY <1>1
  <2> QED
    BY <2>3, <2>4
<1>4. \A i, j \in DOMAIN legs : i = j \/ i < j \/ j < i
  OBVIOUS
<1> QED
  BY <1>2, <1>3, <1>4

\* One or two or three legs, one after another.
LEMMA LegsInOrder ==
    ASSUME NEW x \in Seq(Legs), NEW y \in Seq(Legs)
    PROVE  x \o y \in Seq(Legs) /\ Len(x \o y) = Len(x) + Len(y)
BY ConcatProperties

-----------------------------------------------------------------------------
(* The registry.                                                             *)

AssetRecord ==
    [asset_mint : Mints, oracle : OracleConfigRecord, asset_decimals : Nat, enabled : BOOLEAN,
     routed : BOOLEAN, deposit_cap_atoms : Nat]

\* The type invariant, with the shapes it leaves open.
RegistryInv ==
    /\ assets \in [Mints -> AssetRecord \cup {NoAsset}]
    /\ base_oracle \in OracleConfigRecord
    /\ overfilled \in SUBSET Mints
    /\ AssetsTypeOK
    /\ DepositsNeverOverfill

\* The asset behind a registered mint.
LEMMA Registered ==
    ASSUME RegistryInv, NEW m \in Mints, assets[m] # NoAsset
    PROVE  /\ assets[m] \in AssetRecord /\ assets[m].asset_mint = m /\ m # BaseMint
           /\ validate(assets[m].oracle)
BY DEF RegistryInv, AssetsTypeOK

\* A deposit's legs are the asset's own and the base's, parsed from what was submitted.
LEMMA DepositLegs ==
    ASSUME OraclesInv, RegistryInv, NEW m \in Mints, assets[m] # NoAsset, NEW keys \in KeyLists,
           deposit_legs_ok(assets[m], keys)
    PROVE  /\ deposit_legs(assets[m], keys) \in Seq(Legs)
           /\ Len(deposit_legs(assets[m], keys)) = IF assets[m].routed THEN 2 ELSE 1
<1> DEFINE asset == assets[m]
           first == parse_leg(asset.oracle, keys)
           second == parse_leg(base_oracle, rest_after(asset.oracle, keys))
<1>1. asset.oracle \in OracleConfigRecord /\ validate(asset.oracle)
  BY Registered DEF AssetRecord
<1>2. keys \in Seq(OracleKeys)
  BY MarketFacts DEF OraclesInv
<1>3. first \in Legs /\ rest_after(asset.oracle, keys) \in Seq(OracleKeys)
  BY <1>1, <1>2, ParsedLeg DEF deposit_legs_ok
<1>4. <<first>> \in Seq(Legs) /\ Len(<<first>>) = 1
  <2> HIDE DEF first
  <2> QED
    BY <1>3
<1>5. CASE asset.routed
  <2>1. second \in Legs
    <3>1. base_oracle \in OracleConfigRecord /\ validate(base_oracle)
      BY DEF RegistryInv, AssetsTypeOK
    <3> QED
      BY <1>3, <1>5, <3>1, ParsedLeg DEF deposit_legs_ok
  <2>2. <<second>> \in Seq(Legs) /\ Len(<<second>>) = 1
    <3> HIDE DEF second
    <3> QED
      BY <2>1
  <2>3. deposit_legs(asset, keys) = <<first>> \o <<second>>
    BY <1>5 DEF deposit_legs
  <2> HIDE DEF first, second, asset
  <2>4. <<first>> \o <<second>> \in Seq(Legs) /\ Len(<<first>> \o <<second>>) = 1 + 1
    BY <1>4, <2>2, LegsInOrder
  <2> QED
    BY <1>5, <2>3, <2>4 DEF asset
<1>6. CASE ~asset.routed
  <2>1. <<>> \in Seq(Legs) /\ Len(<<>>) = 0
    OBVIOUS
  <2>2. deposit_legs(asset, keys) = <<first>> \o <<>>
    BY <1>6 DEF deposit_legs
  <2> HIDE DEF first, second, asset
  <2>3. <<first>> \o <<>> \in Seq(Legs) /\ Len(<<first>> \o <<>>) = 1 + 0
    BY <1>4, <2>1, LegsInOrder
  <2> QED
    BY <1>6, <2>2, <2>3 DEF asset
<1> QED
  BY <1>5, <1>6

-----------------------------------------------------------------------------
(* Valuations.                                                               *)

\* What the four properties say of the last valuation.
ValuationsOK ==
    /\ DepositCreditsTheFloor
    /\ OnePricePerFeed
    /\ PricesAreGenuineAndFresh
    /\ SwapLosesToleranceAndAnAtom

\* A step that values nothing satisfies them.
LEMMA NothingValued == valued = {} => ValuationsOK
BY DEF ValuationsOK, DepositCreditsTheFloor, OnePricePerFeed, PricesAreGenuineAndFresh,
       SwapLosesToleranceAndAnAtom

\* The same after a step.
LEMMA NothingValuedNext == valued' = {} => ValuationsOK'
BY DEF ValuationsOK, DepositCreditsTheFloor, OnePricePerFeed, PricesAreGenuineAndFresh,
       SwapLosesToleranceAndAnAtom

\* The unit price is a price.
LEMMA UnitPrice == UNIT \in Price /\ UNIT.value = 1 /\ UNIT.decimals = 0
BY DEF UNIT, Price

\* A step that leaves the oracles alone is judged by what it read.
LEMMA ReadsStand ==
    ASSUME accounts' = accounts, now' = now, NEW legs, \A v \in valued' : v.legs = legs,
           \A i \in DOMAIN legs :
             /\ Observation(legs[i]).genuine
             /\ now - Observation(legs[i]).time <= legs[i].config.max_age
    PROVE  PricesAreGenuineAndFresh'
<1> DEFINE seen(as_of, leg) ==
             IF leg.config.kind = "Scope"
             THEN [genuine |-> as_of[leg.keys[1]].entries[leg.config.price_index].source
                                 = leg.config.mapping,
                   time |-> as_of[leg.keys[1]].entries[leg.config.price_index].unix_timestamp]
             ELSE [genuine |-> as_of[leg.keys[1]].genuine,
                   time |-> IF leg.config.kind = "Pyth" THEN as_of[leg.keys[1]].publish_time
                            ELSE as_of[leg.keys[1]].slot]
<1>1. \A i \in DOMAIN legs : /\ seen(accounts, legs[i]).genuine
                            /\ now - seen(accounts, legs[i]).time <= legs[i].config.max_age
  BY Zenon DEF Observation
<1>2. SUFFICES \A v \in valued' : \A i \in DOMAIN v.legs :
                 /\ seen(accounts', v.legs[i]).genuine
                 /\ now' - seen(accounts', v.legs[i]).time <= v.legs[i].config.max_age
  BY Zenon DEF PricesAreGenuineAndFresh, Observation
<1> HIDE DEF seen
<1> QED
  BY <1>1, Zenon

\* A deposit is valued at the floor of its exact value, at prices of one session.
LEMMA DepositValued ==
    ASSUME OraclesInv, RegistryInv, NEW m \in Mints, NEW n \in Amounts, NEW keys \in KeyLists,
           DepositAsset(m, n, keys)
    PROVE  ValuationsOK'
<1> DEFINE asset == assets[m]
           legs == deposit_legs(asset, keys)
<1>1. asset # NoAsset /\ deposit_legs_ok(asset, keys)
  BY DEF DepositAsset
<1>2. PICK prices \in read_session(legs, accounts, now) :
        LET base_price == IF asset.routed THEN prices[2] ELSE UNIT
        IN  \E base_atoms \in base_atoms_from_asset_atoms(
                   n, prices[1], base_price, asset.asset_decimals, BaseDecimals) :
              valued' = {[op |-> "deposit", legs |-> legs, prices |-> prices,
                          asset |-> asset, base_price |-> base_price,
                          amount |-> n, base_atoms |-> base_atoms]}
  BY DEF DepositAsset
<1> DEFINE base_price == IF asset.routed THEN prices[2] ELSE UNIT
<1>3. PICK base_atoms \in base_atoms_from_asset_atoms(
                n, prices[1], base_price, asset.asset_decimals, BaseDecimals) :
        valued' = {[op |-> "deposit", legs |-> legs, prices |-> prices,
                    asset |-> asset, base_price |-> base_price,
                    amount |-> n, base_atoms |-> base_atoms]}
  BY <1>2
<1>4. UNCHANGED <<accounts, now, assets, market>>
  BY DEF DepositAsset
<1>5. legs \in Seq(Legs) /\ Len(legs) = IF asset.routed THEN 2 ELSE 1
  BY <1>1, DepositLegs
<1>6. asset.asset_decimals \in Nat /\ asset.routed \in BOOLEAN
  BY <1>1, Registered DEF AssetRecord
<1>7. n \in Nat
  BY MarketFacts DEF OraclesInv, Amounts
<1> HIDE DEF asset, legs
<1>8. /\ \A i \in DOMAIN legs :
           /\ prices[i] \in Price /\ Observation(legs[i]).genuine
           /\ now - Observation(legs[i]).time <= legs[i].config.max_age
      /\ \A i, j \in DOMAIN legs :
           feed_key(legs[i].config) = feed_key(legs[j].config) => prices[i] = prices[j]
  BY <1>2, <1>5, SessionFacts
<1>9. prices[1] \in Price /\ base_price \in Price
  BY <1>5, <1>6, <1>8, UnitPrice
<1> HIDE DEF base_price
<1>10. LET exact == ExactValue(n, prices[1], base_price, asset.asset_decimals)
       IN  base_atoms * exact[2] <= exact[1] /\ exact[1] < (base_atoms + 1) * exact[2]
  BY <1>3, <1>6, <1>7, <1>9, ValueIsFloor
<1>11. DepositCreditsTheFloor'
  BY <1>3, <1>10 DEF DepositCreditsTheFloor, ExactValue
<1>12. OnePricePerFeed'
  BY <1>3, <1>8 DEF OnePricePerFeed
<1>13. PricesAreGenuineAndFresh'
  <2>1. accounts' = accounts /\ now' = now
    BY <1>4
  <2>2. \A v \in valued' : v.legs = legs
    BY <1>3
  <2> QED
    BY <1>8, <2>1, <2>2, ReadsStand
<1>14. SwapLosesToleranceAndAnAtom'
  BY <1>3 DEF SwapLosesToleranceAndAnAtom
<1> QED
  BY <1>11, <1>12, <1>13, <1>14 DEF ValuationsOK

\* An endpoint's own leg, and what is left for the next.
LEMMA OwnLeg ==
    ASSUME RegistryInv, NEW m \in Mints, registered(m), NEW keys \in Seq(OracleKeys),
           own_leg_ok(m, keys)
    PROVE  /\ own_leg(m, keys) \in Seq(Legs)
           /\ Len(own_leg(m, keys)) = IF m = BaseMint THEN 0 ELSE 1
           /\ after_leg(m, keys) \in Seq(OracleKeys)
<1>1. CASE m = BaseMint
  <2>1. own_leg(m, keys) = <<>> /\ after_leg(m, keys) = keys
    BY <1>1 DEF own_leg, after_leg
  <2> QED
    BY <1>1, <2>1
<1>2. CASE m # BaseMint
  <2> DEFINE leg == parse_leg(assets[m].oracle, keys)
  <2>1. assets[m].oracle \in OracleConfigRecord /\ validate(assets[m].oracle)
    BY <1>2, Registered DEF registered, AssetRecord
  <2>2. leg \in Legs /\ rest_after(assets[m].oracle, keys) \in Seq(OracleKeys)
    BY <1>2, <2>1, ParsedLeg DEF own_leg_ok
  <2>3. own_leg(m, keys) = <<leg>> /\ after_leg(m, keys) = rest_after(assets[m].oracle, keys)
    BY <1>2 DEF own_leg, after_leg
  <2> HIDE DEF leg
  <2>4. <<leg>> \in Seq(Legs) /\ Len(<<leg>>) = 1
    BY <2>2
  <2> QED
    BY <1>2, <2>2, <2>3, <2>4
<1> QED
  BY <1>1, <1>2

\* A swap's legs are the shared base leg, the input's and the output's.
LEMMA SwapLegs ==
    ASSUME OraclesInv, RegistryInv, NEW i \in Mints, NEW o \in Mints, registered(i), registered(o),
           NEW keys \in KeyLists, valuation_parses(i, o, keys)
    PROVE  /\ valuation_legs(i, o, keys) \in Seq(Legs)
           /\ Len(valuation_legs(i, o, keys))
                = ((IF routed(i) \/ routed(o) THEN 1 ELSE 0) + (IF i = BaseMint THEN 0 ELSE 1))
                    + (IF o = BaseMint THEN 0 ELSE 1)
<1> DEFINE second == after_leg(i, keys)
           base == parse_leg(base_oracle, after_leg(o, second))
           shared == IF routed(i) \/ routed(o) THEN <<base>> ELSE <<>>
           x == own_leg(i, keys)
           y == own_leg(o, second)
<1>1. keys \in Seq(OracleKeys)
  BY MarketFacts DEF OraclesInv
<1>2. x \in Seq(Legs) /\ Len(x) = (IF i = BaseMint THEN 0 ELSE 1) /\ second \in Seq(OracleKeys)
  BY <1>1, OwnLeg DEF valuation_parses
<1>3. y \in Seq(Legs) /\ Len(y) = (IF o = BaseMint THEN 0 ELSE 1)
      /\ after_leg(o, second) \in Seq(OracleKeys)
  <2>1. own_leg_ok(o, second)
    BY DEF valuation_parses
  <2> HIDE DEF second
  <2> QED
    BY <1>2, <2>1, OwnLeg
<1>4. shared \in Seq(Legs) /\ Len(shared) = IF routed(i) \/ routed(o) THEN 1 ELSE 0
  <2>1. CASE routed(i) \/ routed(o)
    <3>1. base_oracle \in OracleConfigRecord /\ validate(base_oracle)
      BY DEF RegistryInv, AssetsTypeOK
    <3>2. parse_leg_ok(base_oracle, after_leg(o, second))
      BY <2>1 DEF valuation_parses
    <3>3. base \in Legs
      <4> HIDE DEF second
      <4> QED
        BY <1>3, <3>1, <3>2, ParsedLeg
    <3> HIDE DEF base
    <3>4. <<base>> \in Seq(Legs) /\ Len(<<base>>) = 1
      BY <3>3
    <3> QED
      BY <2>1, <3>4
  <2>2. CASE ~(routed(i) \/ routed(o))
    BY <2>2
  <2> QED
    BY <2>1, <2>2
<1>5. valuation_legs(i, o, keys) = shared \o x \o y
  BY DEF valuation_legs
<1> HIDE DEF shared, x, y
<1>6. shared \o x \in Seq(Legs) /\ Len(shared \o x) = Len(shared) + Len(x)
  BY <1>2, <1>4, LegsInOrder
<1>7. shared \o x \o y \in Seq(Legs) /\ Len(shared \o x \o y) = Len(shared \o x) + Len(y)
  BY <1>3, <1>6, LegsInOrder
<1> QED
  BY <1>2, <1>3, <1>4, <1>5, <1>6, <1>7

\* What scales an endpoint's amount: base atoms are worth themselves.
EndpointValue(m, amount, price, base_price) ==
    ExactValue(amount, price, IF m # BaseMint /\ assets[m].routed THEN base_price ELSE UNIT,
               IF m = BaseMint THEN BaseDecimals ELSE assets[m].asset_decimals)

\* An endpoint's value is the floor of its exact one.
LEMMA EndpointIsFloor ==
    ASSUME RegistryInv, NEW m \in Mints, registered(m), NEW amount \in Nat,
           NEW price \in Price, m = BaseMint => price = UNIT, NEW base_price \in Price,
           NEW v \in value_in_base_atoms(m, amount, price, base_price)
    PROVE  LET exact == EndpointValue(m, amount, price, base_price)
           IN  /\ v \in Nat /\ exact[1] \in Nat /\ exact[2] \in Nat \ {0}
               /\ v * exact[2] <= exact[1]
               /\ exact[1] < (v + 1) * exact[2]
<1>1. CASE m = BaseMint
  <2> DEFINE t == Pow10[BaseDecimals + 0]
  <2>1. t \in Nat \ {0}
    BY AssetsAssumption, PowerPositive
  <2>2. EndpointValue(m, amount, price, base_price) = <<amount * 1 * t, 1 * t>>
    BY <1>1, UnitPrice DEF EndpointValue, ExactValue
  <2>3. v = amount
    BY <1>1 DEF value_in_base_atoms
  <2> HIDE DEF t
  <2>4. amount * 1 * t = amount * t /\ 1 * t = t /\ amount * t \in Nat /\ amount * t < (amount + 1) * t
    BY <2>1
  <2> QED
    BY <2>1, <2>2, <2>3, <2>4
<1>2. CASE m # BaseMint
  <2> DEFINE b == IF assets[m].routed THEN base_price ELSE UNIT
             decimals == assets[m].asset_decimals
  <2>1. decimals \in Nat
    BY <1>2, Registered DEF registered, AssetRecord
  <2>2. b \in Price
    BY UnitPrice
  <2>3. v \in base_atoms_from_asset_atoms(amount, price, b, decimals, BaseDecimals)
    BY <1>2 DEF value_in_base_atoms
  <2>4. EndpointValue(m, amount, price, base_price) = ExactValue(amount, price, b, decimals)
    BY <1>2 DEF EndpointValue
  <2> HIDE DEF b, decimals
  <2> QED
    BY <2>1, <2>2, <2>3, <2>4, ValueIsFloor
<1> QED
  BY <1>1, <1>2

\* Rounding both legs down leaks at most one atom of the input side.
LEMMA LossBound ==
    ASSUME NEW a \in Nat, NEW b \in Nat \ {0}, NEW c \in Nat, NEW d \in Nat \ {0},
           NEW spent \in Nat, a < (spent + 1) * b,
           NEW received \in Nat, received * d <= c,
           NEW kept \in Nat, spent * kept <= received * 10000
    PROVE  c * b * 10000 >= (a - b) * d * kept
<1>1. a - b \in Int /\ spent * b \in Nat /\ a - b <= spent * b
  OBVIOUS
<1>2. d * kept \in Nat
  OBVIOUS
<1>3. (a - b) * (d * kept) <= (spent * b) * (d * kept)
  <2> DEFINE x == a - b
             y == spent * b
             z == d * kept
  <2>1. x \in Int /\ y \in Int /\ z \in Nat /\ x <= y
    BY <1>1, <1>2
  <2> HIDE DEF x, y, z
  <2>2. (y - x) \in Nat /\ (y - x) * z \in Nat
    BY <2>1
  <2>3. (y - x) * z = y * z - x * z
    BY <2>1
  <2>4. x * z <= y * z
    BY <2>1, <2>2, <2>3
  <2> QED
    BY <2>4 DEF x, y, z
<1>4. (spent * b) * (d * kept) = (spent * kept) * (b * d)
  OBVIOUS
<1>5. (spent * kept) * (b * d) <= (received * 10000) * (b * d)
  <2>1. spent * kept \in Nat /\ received * 10000 \in Nat /\ b * d \in Nat
    OBVIOUS
  <2> DEFINE x == spent * kept
             y == received * 10000
             z == b * d
  <2>2. x \in Nat /\ y \in Nat /\ z \in Nat /\ x <= y
    BY <2>1
  <2> HIDE DEF x, y, z
  <2>3. x * z <= y * z
    BY <2>2, ProductMonotone
  <2> QED
    BY <2>3 DEF x, y, z
<1>6. (received * 10000) * (b * d) = (received * d) * (b * 10000)
  OBVIOUS
<1>7. (received * d) * (b * 10000) <= c * (b * 10000)
  <2> DEFINE x == received * d
             z == b * 10000
  <2>1. x \in Nat /\ z \in Nat /\ x <= c
    OBVIOUS
  <2> HIDE DEF x, z
  <2>2. x * z <= c * z
    BY <2>1, ProductMonotone
  <2> QED
    BY <2>2 DEF x, z
<1>8. c * (b * 10000) = c * b * 10000 /\ (a - b) * (d * kept) = (a - b) * d * kept
  BY <1>1
<1>9. /\ (a - b) * (d * kept) \in Int /\ (spent * b) * (d * kept) \in Int
      /\ (received * 10000) * (b * d) \in Int /\ c * (b * 10000) \in Int
  BY <1>1
<1> QED
  BY <1>3, <1>4, <1>5, <1>6, <1>7, <1>8, <1>9

\* A swap is valued at prices of one session and keeps the tolerated value.
LEMMA SwapValued ==
    ASSUME OraclesInv, RegistryInv, NEW i \in Mints, NEW o \in Mints, NEW s \in SwapAmounts,
           NEW r \in SwapAmounts, NEW own_in \in BOOLEAN, NEW own_out \in BOOLEAN, NEW keys \in KeyLists,
           Swap(i, own_in, s, o, own_out, r, keys)
    PROVE  ValuationsOK'
<1> DEFINE legs == valuation_legs(i, o, keys)
           base_at == IF routed(i) \/ routed(o) THEN 1 ELSE 0
           in_at == base_at + (IF i = BaseMint THEN 0 ELSE 1)
<1>1. registered(i) /\ registered(o) /\ valuation_parses(i, o, keys)
      /\ UNCHANGED <<accounts, now, assets, market>>
  BY DEF Swap
<1>2. PICK prices \in read_session(legs, accounts, now) :
        LET base_price == IF base_at = 1 THEN prices[1] ELSE UNIT
            in_price == IF i = BaseMint THEN UNIT ELSE prices[in_at]
            out_price == IF o = BaseMint THEN UNIT ELSE prices[in_at + 1]
        IN  \E spent_value \in value_in_base_atoms(i, s, in_price, base_price),
               received_value \in value_in_base_atoms(o, r, out_price, base_price) :
              /\ swap_value_kept(spent_value, received_value)
              /\ valued' = {[op |-> "swap", legs |-> legs, prices |-> prices,
                             base_price |-> base_price,
                             input |-> i, in_price |-> in_price, spent |-> s,
                             output |-> o, out_price |-> out_price, received |-> r]}
  BY DEF Swap
<1> DEFINE base_price == IF base_at = 1 THEN prices[1] ELSE UNIT
           in_price == IF i = BaseMint THEN UNIT ELSE prices[in_at]
           out_price == IF o = BaseMint THEN UNIT ELSE prices[in_at + 1]
<1>3. PICK spent_value \in value_in_base_atoms(i, s, in_price, base_price),
           received_value \in value_in_base_atoms(o, r, out_price, base_price) :
        /\ swap_value_kept(spent_value, received_value)
        /\ valued' = {[op |-> "swap", legs |-> legs, prices |-> prices,
                       base_price |-> base_price,
                       input |-> i, in_price |-> in_price, spent |-> s,
                       output |-> o, out_price |-> out_price, received |-> r]}
  BY <1>2
<1>4. legs \in Seq(Legs) /\ Len(legs) = in_at + (IF o = BaseMint THEN 0 ELSE 1)
  BY <1>1, SwapLegs
<1> HIDE DEF legs
<1>5. /\ \A j \in DOMAIN legs :
           /\ prices[j] \in Price /\ Observation(legs[j]).genuine
           /\ now - Observation(legs[j]).time <= legs[j].config.max_age
      /\ \A j, k \in DOMAIN legs :
           feed_key(legs[j].config) = feed_key(legs[k].config) => prices[j] = prices[k]
  BY <1>2, <1>4, SessionFacts
<1>6. /\ base_at = 1 => 1 \in DOMAIN legs
      /\ i # BaseMint => in_at \in DOMAIN legs
      /\ o # BaseMint => in_at + 1 \in DOMAIN legs
  BY <1>4
<1>7. base_price \in Price /\ in_price \in Price /\ out_price \in Price
  <2> HIDE DEF base_at, in_at
  <2> QED
    BY <1>5, <1>6, UnitPrice
<1>8. (i = BaseMint => in_price = UNIT) /\ (o = BaseMint => out_price = UNIT)
  OBVIOUS
<1> HIDE DEF base_at, in_at, base_price, in_price, out_price
<1>9. s \in Nat /\ r \in Nat
  BY MarketFacts DEF OraclesInv
<1> DEFINE in == EndpointValue(i, s, in_price, base_price)
           out == EndpointValue(o, r, out_price, base_price)
<1>10. /\ spent_value \in Nat /\ in[1] \in Nat /\ in[2] \in Nat \ {0}
       /\ in[1] < (spent_value + 1) * in[2]
  BY <1>1, <1>3, <1>7, <1>8, <1>9, EndpointIsFloor
<1>11. /\ received_value \in Nat /\ out[1] \in Nat /\ out[2] \in Nat \ {0}
       /\ received_value * out[2] <= out[1]
  BY <1>1, <1>3, <1>7, <1>8, <1>9, EndpointIsFloor
<1>12. 10000 - MaxSwapSlippageBps \in Nat
  BY AssetsAssumption
<1>13. out[1] * in[2] * 10000 >= (in[1] - in[2]) * out[2] * (10000 - MaxSwapSlippageBps)
  <2>1. spent_value * (10000 - MaxSwapSlippageBps) <= received_value * 10000
    BY <1>3 DEF swap_value_kept
  <2> HIDE DEF in, out
  <2> QED
    BY <1>10, <1>11, <1>12, <2>1, LossBound
<1>14. SwapLosesToleranceAndAnAtom'
  BY <1>1, <1>3, <1>13 DEF SwapLosesToleranceAndAnAtom, EndpointValue, ExactValue
<1>15. OnePricePerFeed'
  BY <1>3, <1>5 DEF OnePricePerFeed
<1>16. PricesAreGenuineAndFresh'
  <2>1. accounts' = accounts /\ now' = now
    BY <1>1
  <2>2. \A v \in valued' : v.legs = legs
    BY <1>3
  <2> QED
    BY <1>5, <2>1, <2>2, ReadsStand
<1>17. DepositCreditsTheFloor'
  BY <1>3 DEF DepositCreditsTheFloor
<1> QED
  BY <1>14, <1>15, <1>16, <1>17 DEF ValuationsOK

-----------------------------------------------------------------------------
(* Oracle accounts keep their kinds, and Scope's entries their sources.      *)

\* Steps of users and the admin leave the oracles alone.
LEMMA OraclesUnchanged ==
    ASSUME OraclesInv, UNCHANGED <<market, accounts, now>>
    PROVE  OraclesInv'
BY DEF OraclesInv, EntriesMatch, Feeds, OracleKeys, InitialAccounts

\* Time goes on within its bound.
LEMMA TickKeeps ==
    ASSUME OraclesInv, Tick
    PROVE  OraclesInv'
<1>1. now' \in 0..MaxTime /\ UNCHANGED <<market, accounts>>
  BY AssetsAssumption, SMTT(30) DEF OraclesInv, Tick
<1> QED
  BY <1>1 DEF OraclesInv, EntriesMatch, Feeds, OracleKeys, InitialAccounts

\* The invariant of a step that changes accounts only, in terms of the market's.
LEMMA OraclesNext ==
    ASSUME OraclesInv, UNCHANGED <<market, now>>,
           accounts' \in [OracleKeys -> OracleAccount],
           \A k \in OracleKeys : accounts'[k].owner = accounts[k].owner,
           \A k \in Feeds : accounts'[k].mappings = accounts[k].mappings,
           \A k \in Feeds, i \in ScopeEntries : accounts'[k].entries[i].value # 0 =>
             accounts'[k].entries[i].source = accounts'[accounts[k].mappings].entries[i].mapping
    PROVE  OraclesInv'
<1>1. Feeds' = Feeds /\ OracleKeys' = OracleKeys /\ InitialAccounts' = InitialAccounts
  BY DEF Feeds, OracleKeys, InitialAccounts
<1>2. /\ \A k \in OracleKeys : accounts'[k].owner = InitialAccounts[k].owner
      /\ \A k \in Feeds : accounts'[k].mappings = InitialAccounts[k].mappings
  BY DEF OraclesInv
<1>3. EntriesMatch'
  BY <1>1 DEF EntriesMatch
<1> QED
  BY <1>1, <1>2, <1>3 DEF OraclesInv

\* What a Scope price account and its mappings are.
LEMMA FeedFacts ==
    ASSUME OraclesInv, NEW k \in Feeds
    PROVE  /\ k \in OracleKeys /\ accounts[k] \in ScopePrices
           /\ accounts[k].mappings \in OracleKeys /\ accounts[accounts[k].mappings] \in ScopeMappings
           /\ accounts[k].mappings \notin Feeds
           /\ \A j \in Feeds : j # k => accounts[j].mappings # accounts[k].mappings
<1>1. market \in DOMAIN Markets /\ k \in OracleKeys /\ InitialAccounts[k].owner = "scope_prices"
  BY DEF OraclesInv, Feeds
<1>2. /\ accounts[k].owner = "scope_prices" /\ accounts[k] \in OracleAccount
      /\ \A j \in Feeds : accounts[j].mappings = InitialAccounts[j].mappings
  BY <1>1 DEF OraclesInv
<1> DEFINE mk == InitialAccounts[k].mappings
<1>3. mk \in OracleKeys /\ InitialAccounts[mk].owner = "scope_mappings"
      /\ \A j \in Feeds : j # k => InitialAccounts[j].mappings # mk
  BY <1>1, MarketFacts
<1> HIDE DEF mk
<1>4. accounts[mk].owner = "scope_mappings" /\ accounts[mk] \in OracleAccount /\ mk \notin Feeds
  BY <1>3 DEF OraclesInv, Feeds
<1> QED
  BY <1>1, <1>2, <1>3, <1>4, AccountKinds DEF mk

\* A post replaces an account of the same program, dated now.
LEMMA PublishKeeps ==
    ASSUME OraclesInv, NEW u \in Updates, Publish(u)
    PROVE  OraclesInv'
<1> DEFINE dated == IF u.account.owner = "switchboard" THEN [u.account EXCEPT !.slot = now]
                    ELSE [u.account EXCEPT !.publish_time = now]
<1>1. accounts' = [accounts EXCEPT ![u.key] = dated] /\ UNCHANGED <<market, now>>
  BY DEF Publish
<1>2. /\ u.key \in OracleKeys /\ u.account \in PythAccount \cup QuoteAccount
      /\ u.account.owner = InitialAccounts[u.key].owner
  BY MarketFacts DEF OraclesInv
<1>3. now \in Nat
  BY AssetsAssumption DEF OraclesInv
<1>4. dated \in PythAccount \cup QuoteAccount /\ dated.owner = u.account.owner
  <2>1. CASE u.account \in PythAccount
    <3>1. dated = [u.account EXCEPT !.publish_time = now]
      BY <2>1 DEF PythAccount
    <3> HIDE DEF dated
    <3>2. /\ dated \in [owner : {"pyth"}, parses : BOOLEAN, full : BOOLEAN, feed_id : Nat, price : Int,
                        conf : Nat, exponent : Int, publish_time : Nat, genuine : BOOLEAN]
          /\ dated.full = u.account.full /\ dated.genuine = u.account.genuine
          /\ dated.owner = u.account.owner
      BY <1>3, <2>1, <3>1 DEF PythAccount
    <3> QED
      BY <2>1, <3>2 DEF PythAccount
  <2>2. CASE u.account \in QuoteAccount
    <3>1. dated = [u.account EXCEPT !.slot = now]
      BY <2>2 DEF QuoteAccount
    <3> HIDE DEF dated
    <3>2. /\ dated \in [owner : {"switchboard"}, parses : BOOLEAN, feed_id : Nat, value : Int,
                        slot : Nat, genuine : BOOLEAN]
          /\ dated.parses = u.account.parses /\ dated.genuine = u.account.genuine
          /\ dated.owner = u.account.owner
      BY <1>3, <2>2, <3>1 DEF QuoteAccount
    <3> QED
      BY <2>2, <3>2 DEF QuoteAccount
  <2> QED
    BY <1>2, <2>1, <2>2
<1> HIDE DEF dated
<1>5. u.account.owner \in {"pyth", "switchboard"}
  BY <1>2 DEF PythAccount, QuoteAccount
<1>6. accounts \in [OracleKeys -> OracleAccount]
      /\ \A k \in OracleKeys : accounts[k].owner = InitialAccounts[k].owner
  BY DEF OraclesInv
<1>7. accounts' \in [OracleKeys -> OracleAccount]
  BY <1>1, <1>4, <1>6 DEF OracleAccount
<1>8. accounts'[u.key] = dated /\ \A k \in OracleKeys \ {u.key} : accounts'[k] = accounts[k]
  BY <1>1, <1>2, <1>6
<1>9. \A k \in OracleKeys : accounts'[k].owner = accounts[k].owner
  BY <1>2, <1>4, <1>6, <1>8
<1>10. ASSUME NEW k \in Feeds
       PROVE  accounts'[k] = accounts[k] /\ accounts'[accounts[k].mappings] = accounts[accounts[k].mappings]
  <2>1. /\ k \in OracleKeys /\ accounts[k].owner = "scope_prices"
        /\ accounts[k].mappings \in OracleKeys /\ accounts[accounts[k].mappings].owner = "scope_mappings"
    BY FeedFacts DEF ScopePrices, ScopeMappings
  <2>2. accounts[u.key].owner \in {"pyth", "switchboard"}
    BY <1>2, <1>5, <1>6
  <2> QED
    BY <1>8, <2>1, <2>2
<1>11. \A k \in Feeds, i \in ScopeEntries : accounts'[k].entries[i].value # 0 =>
         accounts'[k].entries[i].source = accounts'[accounts[k].mappings].entries[i].mapping
  BY <1>10 DEF OraclesInv, EntriesMatch
<1> QED
  BY <1>1, <1>7, <1>9, <1>10, <1>11, OraclesNext

\* A crank ingests from the source the mapping names.
LEMMA RefreshKeeps ==
    ASSUME OraclesInv, NEW k \in OracleKeys, NEW v \in ScopeValues, RefreshScope(k, v)
    PROVE  OraclesInv'
<1> DEFINE mk == accounts[k].mappings
           entry == [value |-> v[1], exp |-> v[2], unix_timestamp |-> now,
                     source |-> accounts[mk].entries[0].mapping]
           after == [accounts[k] EXCEPT !.entries[0] = entry]
<1>1. accounts[k].owner = "scope_prices" /\ UNCHANGED <<market, now>>
      /\ accounts' = [accounts EXCEPT ![k] = after]
  BY DEF RefreshScope
<1>2. accounts \in [OracleKeys -> OracleAccount] /\ now \in Nat /\ market \in DOMAIN Markets
      /\ \A j \in OracleKeys : accounts[j].owner = InitialAccounts[j].owner
  <2>1. now \in Nat
    BY AssetsAssumption DEF OraclesInv
  <2> QED
    BY <2>1, Zenon DEF OraclesInv
<1>3. k \in Feeds
  BY <1>1, <1>2 DEF Feeds
<1>4. /\ accounts[k] \in ScopePrices /\ mk \in OracleKeys /\ accounts[mk] \in ScopeMappings
      /\ mk \notin Feeds /\ \A j \in Feeds : j # k => accounts[j].mappings # mk
  BY <1>3, FeedFacts
<1>5. 0 \in 0..(ScopeMaxEntries - 1)
  BY AssetsAssumption
<1>6. entry \in [value : Nat, exp : Nat, unix_timestamp : Nat, source : MappingRecord]
  <2>1. v[1] \in Nat /\ v[2] \in Nat
    BY <1>2, MarketFacts
  <2>2. accounts[mk].entries[0].mapping \in MappingRecord
    <3> HIDE DEF mk
    <3> QED
      BY <1>4, <1>5 DEF ScopeMappings
  <2> QED
    BY <1>2, <2>1, <2>2
<1>7. entry.source = accounts[mk].entries[0].mapping
  OBVIOUS
<1> HIDE DEF mk, entry
<1>8. /\ after \in ScopePrices /\ after.mappings = mk /\ after.entries[0] = entry
      /\ \A i \in ScopeEntries \ {0} : after.entries[i] = accounts[k].entries[i]
  BY <1>4, <1>5, <1>6 DEF ScopePrices, ScopeEntries, mk
<1> HIDE DEF after
<1>9. accounts' \in [OracleKeys -> OracleAccount] /\ accounts'[k] = after
      /\ \A j \in OracleKeys \ {k} : accounts'[j] = accounts[j]
  BY <1>1, <1>2, <1>8 DEF OracleAccount
<1>10. \A j \in OracleKeys : accounts'[j].owner = accounts[j].owner
  BY <1>1, <1>8, <1>9 DEF ScopePrices
<1>11. \A j \in Feeds : accounts'[j].mappings = accounts[j].mappings
  BY <1>8, <1>9 DEF Feeds, mk
<1>12. ASSUME NEW j \in Feeds, NEW i \in ScopeEntries, accounts'[j].entries[i].value # 0
       PROVE  accounts'[j].entries[i].source = accounts'[accounts[j].mappings].entries[i].mapping
  <2>1. j \in OracleKeys /\ accounts[j].mappings \in OracleKeys /\ accounts[j].mappings \notin Feeds
    BY FeedFacts
  <2>2. accounts'[accounts[j].mappings] = accounts[accounts[j].mappings]
    BY <1>3, <1>9, <2>1
  <2>3. accounts[j].entries[i].value # 0 =>
          accounts[j].entries[i].source = accounts[accounts[j].mappings].entries[i].mapping
    BY DEF OraclesInv, EntriesMatch
  <2>4. CASE j = k /\ i = 0
    BY <1>7, <1>8, <1>9, <2>2, <2>4 DEF mk
  <2>5. CASE j = k /\ i # 0
    BY <1>8, <1>9, <1>12, <2>2, <2>3, <2>5
  <2>6. CASE j # k
    BY <1>9, <1>12, <2>1, <2>2, <2>3, <2>6
  <2> QED
    BY <2>4, <2>5, <2>6
<1> QED
  BY <1>1, <1>9, <1>10, <1>11, <1>12, OraclesNext

\* Pointing an entry at another source empties it.
LEMMA RemapKeeps ==
    ASSUME OraclesInv, NEW k \in OracleKeys, NEW mp \in Mappings, NEW f \in BOOLEAN,
           RemapScope(k, mp, f)
    PROVE  OraclesInv'
<1> DEFINE mk == accounts[k].mappings
           remapped == mp # accounts[mk].entries[0].mapping
           entry == [mapping |-> mp, frozen |-> f]
           there == [accounts[mk] EXCEPT !.entries[0] = entry]
           here == [accounts[k] EXCEPT !.entries[0].value = IF remapped THEN 0 ELSE @]
<1>1. accounts[k].owner = "scope_prices" /\ UNCHANGED <<market, now>>
  BY DEF RemapScope
<1>2. accounts \in [OracleKeys -> OracleAccount] /\ now \in Nat /\ market \in DOMAIN Markets
      /\ \A j \in OracleKeys : accounts[j].owner = InitialAccounts[j].owner
  <2>1. now \in Nat
    BY AssetsAssumption DEF OraclesInv
  <2> QED
    BY <2>1, Zenon DEF OraclesInv
<1>3. k \in Feeds
  BY <1>1, <1>2 DEF Feeds
<1>4. /\ accounts[k] \in ScopePrices /\ mk \in OracleKeys /\ accounts[mk] \in ScopeMappings
      /\ mk \notin Feeds /\ \A j \in Feeds : j # k => accounts[j].mappings # mk
  BY <1>3, FeedFacts
<1>5. 0 \in 0..(ScopeMaxEntries - 1) /\ mp \in MappingRecord
  <2>1. 0 \in 0..(ScopeMaxEntries - 1)
    BY AssetsAssumption
  <2>2. Mappings \subseteq MappingRecord
    BY <1>2, MarketFacts
  <2> QED
    BY <2>1, <2>2
<1>6. k # mk
  BY <1>3, <1>4
<1>7. /\ DOMAIN accounts' = OracleKeys /\ accounts'[k] = here /\ accounts'[mk] = there
      /\ \A j \in OracleKeys \ {k, mk} : accounts'[j] = accounts[j]
  BY <1>2, <1>4, <1>6 DEF RemapScope
<1>8. /\ there \in ScopeMappings /\ there.entries[0].mapping = mp
      /\ \A i \in ScopeEntries \ {0} : there.entries[i] = accounts[mk].entries[i]
  <2>1. entry \in [mapping : MappingRecord, frozen : BOOLEAN]
    BY <1>5
  <2> HIDE DEF mk
  <2> QED
    BY <1>4, <1>5, <2>1 DEF ScopeMappings, ScopeEntries
<1>9. accounts[k].entries[0] \in [value : Nat, exp : Nat, unix_timestamp : Nat, source : MappingRecord]
  BY <1>4, <1>5 DEF ScopePrices
<1>10. /\ here \in ScopePrices /\ here.mappings = mk
       /\ here.entries[0].value = (IF remapped THEN 0 ELSE accounts[k].entries[0].value)
       /\ here.entries[0].source = accounts[k].entries[0].source
       /\ \A i \in ScopeEntries \ {0} : here.entries[i] = accounts[k].entries[i]
  <2> DEFINE z == IF remapped THEN 0 ELSE accounts[k].entries[0].value
             new == [accounts[k].entries[0] EXCEPT !.value = z]
  <2>1. z \in Nat
    BY <1>9
  <2>2. here = [accounts[k] EXCEPT !.entries[0] = new]
    <3> HIDE DEF remapped, mk
    <3> QED
      BY <1>4, <1>5, <1>9 DEF ScopePrices
  <2> HIDE DEF z, here, mk, remapped
  <2>3. new \in [value : Nat, exp : Nat, unix_timestamp : Nat, source : MappingRecord]
        /\ new.value = z /\ new.source = accounts[k].entries[0].source
    BY <1>9, <2>1
  <2> HIDE DEF new
  <2>4. /\ here \in ScopePrices /\ here.mappings = accounts[k].mappings /\ here.entries[0] = new
        /\ \A i \in ScopeEntries \ {0} : here.entries[i] = accounts[k].entries[i]
    BY <1>4, <1>5, <2>2, <2>3 DEF ScopePrices, ScopeEntries
  <2> QED
    BY <2>3, <2>4 DEF mk, z
<1> HIDE DEF here, there, entry
<1>11. accounts' \in [OracleKeys -> OracleAccount]
  <2>1. \A j \in OracleKeys : accounts'[j] \in OracleAccount
    BY <1>2, <1>7, <1>8, <1>10 DEF OracleAccount
  <2>2. PICK g, a, b : accounts' = [g EXCEPT ![a] = b]
    BY DEF RemapScope
  <2>3. accounts' = [j \in DOMAIN accounts' |-> accounts'[j]]
    BY <2>2
  <2> QED
    BY <1>7, <2>1, <2>3
<1>12. \A j \in OracleKeys : accounts'[j].owner = accounts[j].owner
  BY <1>1, <1>4, <1>7, <1>8, <1>10 DEF ScopePrices, ScopeMappings
<1>13. \A j \in Feeds : accounts'[j].mappings = accounts[j].mappings
  BY <1>4, <1>7, <1>10 DEF Feeds, mk
<1>14. ASSUME NEW j \in Feeds, NEW i \in ScopeEntries, accounts'[j].entries[i].value # 0
       PROVE  accounts'[j].entries[i].source = accounts'[accounts[j].mappings].entries[i].mapping
  <2>1. j \in OracleKeys /\ accounts[j].mappings \in OracleKeys /\ accounts[j].mappings \notin Feeds
    BY FeedFacts
  <2>2. accounts[j].entries[i].value # 0 =>
          accounts[j].entries[i].source = accounts[accounts[j].mappings].entries[i].mapping
    BY DEF OraclesInv, EntriesMatch
  <2> HIDE DEF remapped
  <2>3. CASE j = k /\ i = 0
    <3>1. ~remapped /\ accounts[k].entries[0].value # 0
      BY <1>7, <1>10, <1>14, <2>3
    <3>2. accounts[mk].entries[0].mapping = mp
      BY <3>1 DEF remapped
    <3> QED
      BY <1>7, <1>8, <1>10, <2>2, <2>3, <3>1, <3>2 DEF mk
  <2>4. CASE j = k /\ i # 0
    BY <1>7, <1>8, <1>10, <1>14, <2>2, <2>4 DEF mk
  <2>5. CASE j # k
    <3>1. accounts'[j] = accounts[j] /\ accounts'[accounts[j].mappings] = accounts[accounts[j].mappings]
      BY <1>3, <1>4, <1>7, <2>1, <2>5
    <3> QED
      BY <1>14, <2>2, <3>1
  <2> QED
    BY <2>3, <2>4, <2>5
<1> QED
  BY <1>1, <1>11, <1>12, <1>13, <1>14, OraclesNext

-----------------------------------------------------------------------------
(* The registry and the custody balances keep their types and caps.          *)

\* Steps of publishers leave the registry alone.
LEMMA RegistryUnchanged ==
    ASSUME RegistryInv, now' \in 0..MaxTime, UNCHANGED <<assets, base_oracle, custody, overfilled>>
    PROVE  RegistryInv'
BY DEF RegistryInv, AssetsTypeOK, DepositsNeverOverfill, past_cap

\* Whatever is past a cap the admin just chose is stranded.
LEMMA AdminStrands ==
    ASSUME custody' = custody, overfilled' = stranded(assets')
    PROVE  DepositsNeverOverfill' /\ overfilled' \in SUBSET Mints
BY DEF stranded, past_cap, DepositsNeverOverfill

\* The invariant after the admin registers an asset or changes one.
LEMMA AssetStored ==
    ASSUME RegistryInv, UNCHANGED <<base_oracle, custody, now>>, overfilled' = stranded(assets'),
           NEW m \in Mints, m # BaseMint, NEW asset \in AssetRecord, asset.asset_mint = m,
           validate(asset.oracle), asset.asset_decimals = MintAccounts[m].decimals,
           assets' = [assets EXCEPT ![m] = asset]
    PROVE  RegistryInv'
<1>1. DepositsNeverOverfill' /\ overfilled' \in SUBSET Mints
  BY AdminStrands
<1>2. assets' \in [Mints -> AssetRecord \cup {NoAsset}] /\ assets'[m] = asset
      /\ \A k \in Mints \ {m} : assets'[k] = assets[k]
  BY DEF RegistryInv
<1>3. AssetsTypeOK'
  BY <1>2 DEF RegistryInv, AssetsTypeOK
<1> QED
  BY <1>1, <1>2, <1>3 DEF RegistryInv

\* Registering takes the decimals of the mint and never the base mint.
LEMMA InitializeAssetKeeps ==
    ASSUME OraclesInv, RegistryInv, NEW m \in Mints, NEW c \in OracleConfigs, NEW d \in 0..2,
           NEW e \in BOOLEAN, NEW r \in BOOLEAN, NEW cap \in Caps, InitializeAsset(m, c, d, e, r, cap)
    PROVE  RegistryInv'
<1> DEFINE asset == [asset_mint |-> m, oracle |-> c, asset_decimals |-> d,
                     enabled |-> e, routed |-> r, deposit_cap_atoms |-> cap]
<1>1. c \in OracleConfigRecord /\ cap \in Nat
  BY MarketFacts DEF OraclesInv
<1>2. asset \in AssetRecord /\ asset.asset_mint = m /\ asset.oracle = c /\ asset.asset_decimals = d
  BY <1>1 DEF AssetRecord
<1>3. /\ m # BaseMint /\ d = MintAccounts[m].decimals /\ validate(c)
      /\ assets' = [assets EXCEPT ![m] = asset]
      /\ overfilled' = stranded(assets') /\ UNCHANGED <<base_oracle, custody, now>>
  BY DEF InitializeAsset, registrable, verify_mint
<1> HIDE DEF asset
<1> QED
  BY <1>2, <1>3, AssetStored

\* An update leaves the mint and its decimals.
LEMMA UpdateAssetKeeps ==
    ASSUME OraclesInv, RegistryInv, NEW m \in Mints, NEW c \in OracleConfigs,
           NEW e \in BOOLEAN, NEW r \in BOOLEAN, NEW cap \in Caps, UpdateAsset(m, c, e, r, cap)
    PROVE  RegistryInv'
<1> DEFINE asset == [assets[m] EXCEPT !.oracle = c, !.enabled = e, !.routed = r,
                                      !.deposit_cap_atoms = cap]
<1>1. c \in OracleConfigRecord /\ cap \in Nat
  BY MarketFacts DEF OraclesInv
<1>2. assets[m] # NoAsset /\ validate(c) /\ overfilled' = stranded(assets')
      /\ UNCHANGED <<base_oracle, custody, now>>
  BY DEF UpdateAsset
<1>3. assets[m] \in AssetRecord /\ assets[m].asset_mint = m /\ m # BaseMint
      /\ assets[m].asset_decimals = MintAccounts[m].decimals
  BY <1>2 DEF RegistryInv, AssetsTypeOK
<1>4. assets' = [assets EXCEPT ![m] = asset]
  BY <1>3 DEF UpdateAsset, RegistryInv, AssetRecord
<1>5. asset \in AssetRecord /\ asset.asset_mint = m /\ asset.oracle = c
      /\ asset.asset_decimals = assets[m].asset_decimals
  BY <1>1, <1>3 DEF AssetRecord
<1> HIDE DEF asset
<1> QED
  BY <1>2, <1>3, <1>4, <1>5, AssetStored

\* The base oracle is stored validated.
LEMMA UpdateBaseOracleKeeps ==
    ASSUME OraclesInv, RegistryInv, NEW c \in OracleConfigs, UpdateBaseOracle(c)
    PROVE  RegistryInv'
<1>1. c \in OracleConfigRecord
  BY MarketFacts DEF OraclesInv
<1> QED
  BY <1>1 DEF RegistryInv, UpdateBaseOracle, AssetsTypeOK, DepositsNeverOverfill, past_cap

\* A deposit fits under the cap it was checked against.
LEMMA DepositKeeps ==
    ASSUME OraclesInv, RegistryInv, NEW m \in Mints, NEW n \in Amounts, NEW keys \in KeyLists,
           DepositAsset(m, n, keys)
    PROVE  RegistryInv'
<1>1. /\ assets[m] # NoAsset /\ within_inventory_cap(assets[m], n)
      /\ custody' = [custody EXCEPT ![m] = @ + n]
      /\ UNCHANGED <<market, assets, base_oracle, accounts, now, overfilled>>
  BY DEF DepositAsset
<1>2. assets[m] \in AssetRecord /\ assets[m].asset_mint = m
  BY <1>1, Registered
<1>3. n \in Nat
  BY MarketFacts DEF OraclesInv, Amounts
<1>4. custody \in [Mints -> 0..MaxOracleU64] /\ MaxOracleU64 \in Nat
  BY AssetsAssumption DEF RegistryInv, AssetsTypeOK
<1>5. custody[m] + n <= MaxOracleU64 /\ custody[m] + n <= assets[m].deposit_cap_atoms
  BY <1>1, <1>2 DEF within_inventory_cap
<1>6. custody' \in [Mints -> 0..MaxOracleU64] /\ custody'[m] = custody[m] + n
      /\ \A k \in Mints \ {m} : custody'[k] = custody[k]
  BY <1>1, <1>3, <1>4, <1>5
<1>7. past_cap(assets', custody') \subseteq overfilled'
  <2> SUFFICES ASSUME NEW k \in Mints, assets[k] # NoAsset, custody'[k] > assets[k].deposit_cap_atoms
               PROVE  k \in overfilled
    BY <1>1 DEF past_cap
  <2>1. assets[k].deposit_cap_atoms \in Nat
    BY Registered DEF AssetRecord
  <2>2. k # m
    BY <1>4, <1>3, <1>5, <1>6, <2>1
  <2>3. k \in past_cap(assets, custody)
    BY <1>6, <2>2 DEF past_cap
  <2> QED
    BY <2>3 DEF RegistryInv, DepositsNeverOverfill
<1>8. AssetsTypeOK'
  BY <1>1, <1>6 DEF RegistryInv, AssetsTypeOK
<1> QED
  BY <1>1, <1>7, <1>8 DEF RegistryInv, DepositsNeverOverfill

\* A swap can only put its output past the cap.
LEMMA SwapKeeps ==
    ASSUME OraclesInv, RegistryInv, NEW i \in Mints, NEW o \in Mints, NEW s \in SwapAmounts,
           NEW r \in SwapAmounts, NEW own_in \in BOOLEAN, NEW own_out \in BOOLEAN, NEW keys \in KeyLists,
           Swap(i, own_in, s, o, own_out, r, keys)
    PROVE  RegistryInv'
<1>1. /\ own_in => s <= custody[i]
      /\ own_out => custody[o] + r <= MaxOracleU64
      /\ i = o => ~(own_in /\ own_out)
      /\ custody' = after_swap(i, own_in, s, o, own_out, r)
      /\ overfilled' = (overfilled \cup (IF own_out THEN {o} ELSE {})) \cap past_cap(assets, custody')
      /\ UNCHANGED <<market, assets, base_oracle, accounts, now>>
  BY DEF Swap
<1>2. s \in Nat /\ r \in Nat
  BY MarketFacts DEF OraclesInv
<1>3. custody \in [Mints -> 0..MaxOracleU64] /\ MaxOracleU64 \in Nat
  BY AssetsAssumption DEF RegistryInv, AssetsTypeOK
<1>4. /\ custody' \in [Mints -> 0..MaxOracleU64]
      /\ \A k \in Mints : ~(own_out /\ k = o) => custody'[k] <= custody[k]
  <2> DEFINE new(k) == custody[k] - (IF own_in /\ k = i THEN s ELSE 0) + (IF own_out /\ k = o THEN r ELSE 0)
  <2>1. ASSUME NEW k \in Mints
        PROVE  new(k) \in 0..MaxOracleU64 /\ (~(own_out /\ k = o) => new(k) <= custody[k])
    <3>1. custody[k] \in 0..MaxOracleU64
      BY <1>3
    <3>2. CASE own_in /\ k = i
      BY <1>1, <1>2, <1>3, <3>1, <3>2
    <3>3. CASE ~(own_in /\ k = i)
      BY <1>1, <1>2, <1>3, <3>1, <3>3
    <3> QED
      BY <3>2, <3>3
  <2>2. custody' = [k \in Mints |-> new(k)]
    BY <1>1 DEF after_swap
  <2> HIDE DEF new
  <2> QED
    BY <2>1, <2>2
<1>5. past_cap(assets', custody') \subseteq overfilled'
  <2> SUFFICES ASSUME NEW k \in Mints, k \in past_cap(assets, custody'), ~(own_out /\ k = o)
               PROVE  k \in overfilled
    BY <1>1 DEF past_cap
  <2>1. assets[k] # NoAsset /\ custody'[k] > assets[k].deposit_cap_atoms
    BY DEF past_cap
  <2>2. assets[k].deposit_cap_atoms \in Nat
    BY <2>1, Registered DEF AssetRecord
  <2>3. custody[k] > assets[k].deposit_cap_atoms
    BY <1>2, <1>3, <1>4, <2>1, <2>2
  <2>4. k \in past_cap(assets, custody)
    BY <2>1, <2>3 DEF past_cap
  <2> QED
    BY <2>4 DEF RegistryInv, DepositsNeverOverfill
<1>6. AssetsTypeOK'
  BY <1>1, <1>4 DEF RegistryInv, AssetsTypeOK
<1>7. overfilled' \in SUBSET Mints
  BY <1>1 DEF past_cap
<1> QED
  BY <1>1, <1>5, <1>6, <1>7 DEF RegistryInv, DepositsNeverOverfill

-----------------------------------------------------------------------------
(* What follows.                                                             *)

AssetsInv == OraclesInv /\ RegistryInv /\ ValuationsOK

\* At first nothing is registered, and Scope's entries match their mappings.
LEMMA InitAssets == Init => AssetsInv
<1> SUFFICES ASSUME Init PROVE AssetsInv
  OBVIOUS
<1>1. /\ market \in DOMAIN Markets /\ accounts = InitialAccounts /\ now = 0
      /\ overfilled = {} /\ valued = {} /\ assets = [m \in Mints |-> NoAsset]
  BY DEF Init
<1>2. OraclesInv
  <2>1. InitialAccounts \in [OracleKeys -> OracleAccount]
        /\ \A k \in Feeds, i \in ScopeEntries : InitialAccounts[k].entries[i].value # 0 =>
             InitialAccounts[k].entries[i].source
               = InitialAccounts[InitialAccounts[k].mappings].entries[i].mapping
    BY <1>1, MarketFacts
  <2>2. now \in 0..MaxTime
    BY <1>1, AssetsAssumption
  <2> QED
    BY <1>1, <2>1, <2>2 DEF OraclesInv, EntriesMatch
<1>3. RegistryInv
  <2>1. base_oracle \in OracleConfigRecord /\ validate(base_oracle) /\ MaxTransfer \in 0..MaxOracleU64
    BY <1>1, MarketFacts DEF Init
  <2>2. custody \in [Mints -> 0..MaxOracleU64]
    BY <2>1, AssetsAssumption DEF Init
  <2>3. now \in 0..MaxTime
    BY <1>1, AssetsAssumption
  <2> QED
    BY <1>1, <2>1, <2>2, <2>3 DEF RegistryInv, AssetsTypeOK, DepositsNeverOverfill, past_cap
<1> QED
  BY <1>1, <1>2, <1>3, NothingValued DEF AssetsInv

\* Every step keeps what it read, what is registered and what it valued.
LEMMA NextAssets == AssetsInv /\ [Next]_vars => AssetsInv'
<1> SUFFICES ASSUME OraclesInv, RegistryInv, ValuationsOK, [Next]_vars PROVE AssetsInv'
  BY DEF AssetsInv
<1>1. ASSUME NEW m \in Mints, NEW c \in OracleConfigs, NEW d \in 0..2, NEW e \in BOOLEAN,
             NEW r \in BOOLEAN, NEW cap \in Caps, InitializeAsset(m, c, d, e, r, cap)
      PROVE  AssetsInv'
  <2>1. valued' = {} /\ UNCHANGED <<market, accounts, now>>
    BY <1>1 DEF InitializeAsset
  <2> QED
    BY <1>1, <2>1, InitializeAssetKeeps, OraclesUnchanged, NothingValuedNext DEF AssetsInv
<1>2. ASSUME NEW m \in Mints, NEW c \in OracleConfigs, NEW e \in BOOLEAN, NEW r \in BOOLEAN,
             NEW cap \in Caps, UpdateAsset(m, c, e, r, cap)
      PROVE  AssetsInv'
  <2>1. valued' = {} /\ UNCHANGED <<market, accounts, now>>
    BY <1>2 DEF UpdateAsset
  <2> QED
    BY <1>2, <2>1, UpdateAssetKeeps, OraclesUnchanged, NothingValuedNext DEF AssetsInv
<1>3. ASSUME NEW c \in OracleConfigs, UpdateBaseOracle(c)
      PROVE  AssetsInv'
  <2>1. valued' = {} /\ UNCHANGED <<market, accounts, now>>
    BY <1>3 DEF UpdateBaseOracle
  <2> QED
    BY <1>3, <2>1, UpdateBaseOracleKeeps, OraclesUnchanged, NothingValuedNext DEF AssetsInv
<1>4. ASSUME NEW m \in Mints, NEW n \in Amounts, NEW keys \in KeyLists, DepositAsset(m, n, keys)
      PROVE  AssetsInv'
  <2>1. UNCHANGED <<market, accounts, now>>
    BY <1>4 DEF DepositAsset
  <2> QED
    BY <1>4, <2>1, DepositKeeps, DepositValued, OraclesUnchanged DEF AssetsInv
<1>5. ASSUME NEW i \in Mints, NEW o \in Mints, NEW s \in SwapAmounts, NEW r \in SwapAmounts,
             NEW own \in Endpoints, NEW keys \in KeyLists, Swap(i, own[1], s, o, own[2], r, keys)
      PROVE  AssetsInv'
  <2>1. UNCHANGED <<market, accounts, now>>
    BY <1>5 DEF Swap
  <2>2. own[1] \in BOOLEAN /\ own[2] \in BOOLEAN
    BY <1>5, MarketFacts DEF OraclesInv
  <2> QED
    BY <1>5, <2>1, <2>2, SwapKeeps, SwapValued, OraclesUnchanged DEF AssetsInv
<1>6. CASE PublisherStep
  <2>1. OraclesInv'
    BY <1>6, TickKeeps, PublishKeeps, RefreshKeeps, RemapKeeps DEF PublisherStep
  <2>2. valued' = {} /\ UNCHANGED <<assets, base_oracle, custody, overfilled>>
    BY <1>6 DEF PublisherStep, Tick, Publish, RefreshScope, RemapScope
  <2>3. now' \in 0..MaxTime
    BY <2>1 DEF OraclesInv
  <2> QED
    BY <2>1, <2>2, <2>3, RegistryUnchanged, NothingValuedNext DEF AssetsInv
<1>7. CASE UNCHANGED vars
  <2>1. OraclesInv' /\ RegistryInv'
    <3>1. now' \in 0..MaxTime
      BY <1>7 DEF vars, OraclesInv
    <3> QED
      BY <1>7, <3>1, OraclesUnchanged, RegistryUnchanged DEF vars
  <2>2. ValuationsOK'
    <3>1. valued' = valued /\ accounts' = accounts /\ now' = now /\ assets' = assets
      BY <1>7 DEF vars
    <3>2. DepositCreditsTheFloor'
      BY <3>1, Zenon DEF ValuationsOK, DepositCreditsTheFloor
    <3>3. OnePricePerFeed'
      BY <3>1, Zenon DEF ValuationsOK, OnePricePerFeed
    <3>4. PricesAreGenuineAndFresh'
      <4>1. ASSUME NEW leg PROVE Observation(leg)' = Observation(leg)
        BY <3>1, Zenon DEF Observation
      <4>2. PricesAreGenuineAndFresh
        BY Zenon DEF ValuationsOK
      <4> QED
        BY <3>1, <4>1, <4>2, ZenonT(30) DEF PricesAreGenuineAndFresh
    <3>5. SwapLosesToleranceAndAnAtom'
      BY <3>1 DEF ValuationsOK, SwapLosesToleranceAndAnAtom, ExactValue, UNIT
    <3> QED
      BY <3>2, <3>3, <3>4, <3>5 DEF ValuationsOK
  <2> QED
    BY <2>1, <2>2 DEF AssetsInv
<1> QED
  BY <1>1, <1>2, <1>3, <1>4, <1>5, <1>6, <1>7 DEF Next, RegistryStep, UserStep

\* The three together are an invariant.
LEMMA AssetsInductive == Spec => []AssetsInv
BY InitAssets, NextAssets, PTL DEF Spec

(***************************************************************************)
(* For any oracles, mints and caps: registered assets keep a validated     *)
(* oracle and their mint's decimals, never the base mint, and balances     *)
(* stay counts (InitializeAsset, UpdateAsset).                             *)
(***************************************************************************)
THEOREM AssetsKeepTheirTypes == Spec => []AssetsTypeOK
<1>1. AssetsInv => AssetsTypeOK
  BY DEF AssetsInv, RegistryInv
<1> QED
  BY <1>1, AssetsInductive, PTL

(***************************************************************************)
(* For all prices, scales and amounts: a deposit is credited the floor of  *)
(* its exact value (base_atoms_from_asset_atoms).                          *)
(***************************************************************************)
THEOREM DepositsAreFloored == Spec => []DepositCreditsTheFloor
<1>1. AssetsInv => DepositCreditsTheFloor
  BY DEF AssetsInv, ValuationsOK
<1> QED
  BY <1>1, AssetsInductive, PTL

(***************************************************************************)
(* For any accounts a submitter may pass: legs of one feed are valued at   *)
(* one price (OracleReadSession::read).                                    *)
(***************************************************************************)
THEOREM SessionsHaveOnePrice == Spec => []OnePricePerFeed
<1>1. AssetsInv => OnePricePerFeed
  BY DEF AssetsInv, ValuationsOK
<1> QED
  BY <1>1, AssetsInductive, PTL

(***************************************************************************)
(* However publishers post, Scope's admin remaps and the vault's admin     *)
(* reconfigures: every price used was published by its configured source,  *)
(* at most max_age before (read_verified_price of the three readers).      *)
(***************************************************************************)
THEOREM PricesStayGenuine == Spec => []PricesAreGenuineAndFresh
<1>1. AssetsInv => PricesAreGenuineAndFresh
  BY DEF AssetsInv, ValuationsOK
<1> QED
  BY <1>1, AssetsInductive, PTL

(***************************************************************************)
(* For any caps and any interleaving of deposits, swaps and cap changes:   *)
(* no deposit puts custody past the cap (the cap check of                  *)
(* resolve_base_atoms).                                                    *)
(***************************************************************************)
THEOREM CapsHoldForDeposits == Spec => []DepositsNeverOverfill
<1>1. AssetsInv => DepositsNeverOverfill
  BY DEF AssetsInv, RegistryInv
<1> QED
  BY <1>1, AssetsInductive, PTL

(***************************************************************************)
(* For all prices, scales, amounts and tolerances: a swap returns the      *)
(* exact value it spent less one base atom, less the tolerance             *)
(* (verify_swap_value, value_in_base_atoms).                               *)
(***************************************************************************)
THEOREM SwapsKeepValue == Spec => []SwapLosesToleranceAndAnAtom
<1>1. AssetsInv => SwapLosesToleranceAndAnAtom
  BY DEF AssetsInv, ValuationsOK
<1> QED
  BY <1>1, AssetsInductive, PTL
============================================================================
