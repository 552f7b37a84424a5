-------------------------- MODULE ExecutionProofs --------------------------
(***************************************************************************)
(* Proofs about authorized execution, for every deployment: what is        *)
(* relayed is what the admin meant, the strategist can only lower the      *)
(* allowance, a deposit's deployment that takes what it was asked to takes *)
(* nothing else, delegates take no more than loans and fees, and custody   *)
(* is clean whenever no transaction runs.                                  *)
(***************************************************************************)
EXTENDS ExecutionProperties, ActionHashTheorems

-----------------------------------------------------------------------------
(* Flash-fee rates.                                                          *)

\* A quotient reaches whatever the dividend holds that many times.
LEMMA QuotientReaches ==
    ASSUME NEW a \in Nat, NEW b \in Nat \ {0}, NEW q \in Nat, q * b <= a
    PROVE  q <= a \div b
<1> DEFINE e == a \div b
<1>1. e \in Nat /\ a < (e + 1) * b
  <2>1. a = b * (a \div b) + (a % b) /\ a % b \in 0..(b - 1) /\ a \div b \in Nat
    OBVIOUS
  <2> QED
    BY <2>1
<1> HIDE DEF e
<1>2. q * b < (e + 1) * b
  <2>1. q * b \in Int /\ (e + 1) * b \in Int
    BY <1>1
  <2> QED
    BY <1>1, <2>1
<1>3. q < e + 1
  BY <1>1, <1>2, ProductCancelStrict
<1>4. q <= e
  BY <1>1, <1>3
<1> QED
  BY <1>4 DEF e

\* And its product with the divisor stays within the dividend.
LEMMA QuotientWithin ==
    ASSUME NEW a \in Nat, NEW b \in Nat \ {0}
    PROVE  a \div b \in Nat /\ (a \div b) * b <= a
<1>1. a = b * (a \div b) + (a % b) /\ a % b \in 0..(b - 1) /\ a \div b \in Nat
  OBVIOUS
<1> QED
  BY <1>1

(***************************************************************************)
(* A rate the strategist may have come to from the admin's: the same, or   *)
(* zero, or no higher as a fraction; anything goes where the admin's own   *)
(* is no fraction.                                                         *)
(***************************************************************************)
AtMost(rate, admins) ==
    \/ rate = admins
    \/ rate[1] = 0
    \/ admins[1] # 0 /\ admins[2] = 0
    \/ /\ admins[1] # 0 /\ admins[2] # 0 /\ rate[2] # 0
       /\ rate[1] * admins[2] <= admins[1] * rate[2]

\* The components of a rate.
LEMMA RateParts ==
    ASSUME NEW rate \in Nat \X Nat
    PROVE  rate[1] \in Nat /\ rate[2] \in Nat
OBVIOUS

\* A strictly lower rate is again such a rate.
LEMMA LoweringStaysAtMost ==
    ASSUME NEW new \in Nat \X Nat, NEW cur \in Nat \X Nat, NEW admins \in Nat \X Nat,
           AtMost(cur, admins), rate_strictly_lower(new, cur)
    PROVE  AtMost(new, admins)
<1> DEFINE a == new[1]
           b == new[2]
           c == cur[1]
           d == cur[2]
           N == admins[1]
           D == admins[2]
<1>1. a \in Nat /\ b \in Nat /\ c \in Nat /\ d \in Nat /\ N \in Nat /\ D \in Nat
  BY RateParts
<1>2. CASE a = 0
  BY <1>2 DEF AtMost
<1>3. CASE a # 0
  <2>1. c # 0 /\ a * d < c * b
    BY <1>3 DEF rate_strictly_lower
  <2>2. b # 0
    <3> HIDE DEF a, b, c, d
    <3>1. ASSUME b = 0 PROVE FALSE
      <4>1. c * b = 0 /\ a * d >= 0
        BY <1>1, <3>1
      <4> QED
        BY <1>1, <2>1, <4>1
    <3> QED
      BY <3>1
  <2>3. CASE cur = admins
    <3>1. c = N /\ d = D
      BY <2>3
    <3>2. CASE D = 0
      BY <2>1, <3>1, <3>2 DEF AtMost
    <3>3. CASE D # 0
      <4> HIDE DEF a, b, c, d, N, D
      <4>1. a * D <= N * b
        <5>1. a * D \in Int /\ N * b \in Int /\ a * D < N * b
          BY <1>1, <2>1, <3>1
        <5> QED
          BY <5>1
      <4> QED
        BY <2>1, <2>2, <3>1, <3>3, <4>1 DEF AtMost, a, b, c, d, N, D
    <3> QED
      BY <3>2, <3>3
  <2>4. CASE c = 0
    BY <2>1, <2>4
  <2>5. CASE N # 0 /\ D = 0
    BY <2>5 DEF AtMost
  <2>6. CASE N # 0 /\ D # 0 /\ d # 0 /\ c * D <= N * d
    <3> HIDE DEF a, b, c, d, N, D
    <3> DEFINE ad == a * d
               cb == c * b
               cD == c * D
               Nd == N * d
               aD == a * D
               Nb == N * b
    <3>1. ad \in Nat /\ cb \in Nat /\ cD \in Nat /\ Nd \in Nat /\ aD \in Nat /\ Nb \in Nat
      BY <1>1
    <3>2. aD * d = ad * D /\ cb * D = cD * b /\ Nd * b = Nb * d
      BY <1>1
    <3>3. ad <= cb /\ cD <= Nd
      BY <2>1, <2>6, <3>1
    <3> HIDE DEF ad, cb, cD, Nd, aD, Nb
    <3>4. ad * D <= cb * D /\ cD * b <= Nd * b
      BY <1>1, <3>1, <3>3, ProductMonotone
    <3>5. aD * d <= Nb * d
      <4>1. aD * d \in Int /\ ad * D \in Int /\ cb * D \in Int /\ cD * b \in Int /\ Nd * b \in Int /\ Nb * d \in Int
        BY <1>1, <3>1
      <4> QED
        BY <3>2, <3>4, <4>1
    <3>6. aD <= Nb
      BY <1>1, <2>6, <3>1, <3>5, ProductCancel
    <3> QED
      BY <2>2, <2>6, <3>6 DEF AtMost, aD, Nb, a, b, N, D
  <2> QED
    BY <2>3, <2>4, <2>5, <2>6 DEF AtMost
<1> QED
  BY <1>2, <1>3

\* The fee of a positive rate, before the one-atom minimum.
Rounded(value, num, den) == (2 * value * num + den) \div (2 * den)

\* The fee is a number, and at least one atom where there is one.
LEMMA FeeFacts ==
    ASSUME NEW value \in Nat, NEW num \in Nat, NEW den \in Nat, den # 0
    PROVE  /\ round_with_min1(value, num, den) \in Nat
           /\ Rounded(value, num, den) \in Nat
           /\ num # 0 /\ value # 0 =>
                /\ round_with_min1(value, num, den) >= 1
                /\ round_with_min1(value, num, den)
                     = IF Rounded(value, num, den) = 0 THEN 1 ELSE Rounded(value, num, den)
<1> DEFINE a == 2 * value * num + den
           b == 2 * den
           q == a \div b
<1>1. a \in Nat /\ b \in Nat \ {0}
  <2>1. value * num \in Nat /\ 2 * value * num = 2 * (value * num)
    OBVIOUS
  <2> QED
    BY <2>1
<1>2. q \in Nat
  <2> HIDE DEF a, b
  <2> QED
    BY <1>1, QuotientWithin
<1>3. Rounded(value, num, den) = q
  BY DEF Rounded
<1>4. round_with_min1(value, num, den) = IF num = 0 \/ value = 0 THEN 0 ELSE IF q = 0 THEN 1 ELSE q
  BY DEF round_with_min1
<1> HIDE DEF q
<1> QED
  BY <1>2, <1>3, <1>4

\* A fraction no higher asks for a fee no higher.
LEMMA FeeMonotone ==
    ASSUME NEW value \in Nat, NEW n \in Nat, NEW d \in Nat \ {0}, NEW N \in Nat, NEW D \in Nat \ {0},
           n * D <= N * d
    PROVE  Rounded(value, n, d) <= Rounded(value, N, D)
<1> DEFINE vn == value * n
           vN == value * N
           a == 2 * value * n + d
           A == 2 * value * N + D
           q == a \div (2 * d)
<1>1. vn \in Nat /\ vN \in Nat /\ a = 2 * vn + d /\ A = 2 * vN + D
  OBVIOUS
<1>2. vn * D <= vN * d
  <2> DEFINE nD == n * D
             Nd == N * d
  <2>1. nD \in Nat /\ Nd \in Nat /\ nD <= Nd /\ vn * D = nD * value /\ vN * d = Nd * value
    OBVIOUS
  <2> HIDE DEF nD, Nd
  <2>2. nD * value <= Nd * value
    BY <2>1, ProductMonotone
  <2> QED
    BY <2>1, <2>2
<1> HIDE DEF vn, vN
<1>3. a \in Nat /\ A \in Nat /\ 2 * d \in Nat \ {0} /\ 2 * D \in Nat \ {0}
  BY <1>1
<1>4. q \in Nat /\ q * (2 * d) <= a
  <2> DEFINE t == 2 * d
  <2>1. t \in Nat \ {0} /\ a \in Nat /\ q = a \div t
    BY <1>3
  <2> HIDE DEF a, t
  <2>2. a \div t \in Nat /\ (a \div t) * t <= a
    BY <2>1, QuotientWithin
  <2> QED
    BY <2>1, <2>2 DEF t
<1> HIDE DEF q, a, A
<1>5. q * (2 * D) <= A
  <2> DEFINE x == q * (2 * d)
             y == q * (2 * D)
  <2>1. x \in Nat /\ y \in Nat /\ x <= a /\ y * d = x * D
    BY <1>4
  <2> HIDE DEF x, y
  <2>2. x * D <= a * D
    BY <1>3, <2>1, ProductMonotone
  <2>3. a * D = 2 * (vn * D) + d * D /\ A * d = 2 * (vN * d) + d * D
    BY <1>1, <1>3
  <2> DEFINE vnD == vn * D
             vNd == vN * d
             dD == d * D
             aD == a * D
             Ad == A * d
             yd == y * d
             xD == x * D
  <2>4. vnD \in Int /\ vNd \in Int /\ dD \in Int /\ aD \in Int /\ Ad \in Int /\ yd \in Int /\ xD \in Int
    BY <1>1, <1>3, <2>1
  <2>5. vnD <= vNd /\ aD = 2 * vnD + dD /\ Ad = 2 * vNd + dD /\ yd = xD /\ xD <= aD
    BY <1>2, <2>1, <2>2, <2>3
  <2> HIDE DEF vnD, vNd, dD, aD, Ad, yd, xD
  <2>6. yd <= Ad
    BY <2>4, <2>5
  <2>7. y <= A
    BY <1>3, <2>1, <2>6, ProductCancel DEF yd, Ad
  <2> QED
    BY <2>7 DEF y
<1>6. q <= A \div (2 * D)
  <2> DEFINE t == 2 * D
  <2>1. t \in Nat \ {0} /\ q * t <= A
    BY <1>3, <1>5
  <2> HIDE DEF t
  <2>2. q <= A \div t
    BY <1>3, <1>4, <2>1, QuotientReaches
  <2> QED
    BY <2>2 DEF t
<1> QED
  BY <1>6 DEF Rounded, q, a, A

\* The allowance under such a rate is within the allowance under the admin's.
LEMMA CapUnderAdmins ==
    ASSUME NEW value \in Nat, NEW rate \in Nat \X Nat, NEW admins \in Nat \X Nat,
           AtMost(rate, admins), fee_defined(value, admins[1], admins[2])
    PROVE  delegate_cap(value, rate) <= delegate_cap(value, admins)
<1> DEFINE n == rate[1]
           d == rate[2]
           N == admins[1]
           D == admins[2]
<1>1. n \in Nat /\ d \in Nat /\ N \in Nat /\ D \in Nat
  BY RateParts
<1>2. delegate_cap(value, admins) = value + round_with_min1(value, N, D)
  BY DEF delegate_cap
<1>3. delegate_cap(value, rate) =
        IF fee_defined(value, n, d) THEN value + round_with_min1(value, n, d) ELSE 0
  BY DEF delegate_cap
<1>4. \A m \in Nat, e \in Nat : m = 0 \/ value = 0 => round_with_min1(value, m, e) = 0
  BY DEF round_with_min1
<1>5. round_with_min1(value, N, D) \in Nat
  <2>1. CASE N = 0 \/ value = 0
    <3> HIDE DEF N, D
    <3> QED
      BY <1>1, <1>4, <2>1
  <2>2. CASE D # 0
    <3> HIDE DEF N, D
    <3> QED
      BY <1>1, <2>2, FeeFacts
  <2> QED
    BY <2>1, <2>2 DEF fee_defined
<1>6. CASE rate = admins
  BY <1>2, <1>5, <1>6
<1>7. CASE n = 0 \/ value = 0
  <2>1. round_with_min1(value, n, d) = 0
    <3> HIDE DEF n, d
    <3> QED
      BY <1>1, <1>4, <1>7
  <2> HIDE DEF n, d, N, D
  <2> QED
    BY <1>2, <1>3, <1>5, <2>1
<1>8. CASE n # 0 /\ value # 0 /\ N # 0 /\ D # 0 /\ d # 0 /\ n * D <= N * d
  <2> HIDE DEF n, d, N, D
  <2>1. Rounded(value, n, d) <= Rounded(value, N, D)
    BY <1>1, <1>8, FeeMonotone
  <2>2. /\ Rounded(value, n, d) \in Nat
        /\ round_with_min1(value, n, d) = IF Rounded(value, n, d) = 0 THEN 1 ELSE Rounded(value, n, d)
    BY <1>1, <1>8, FeeFacts
  <2>3. /\ Rounded(value, N, D) \in Nat
        /\ round_with_min1(value, N, D) = IF Rounded(value, N, D) = 0 THEN 1 ELSE Rounded(value, N, D)
    BY <1>1, <1>8, FeeFacts
  <2>4. round_with_min1(value, n, d) <= round_with_min1(value, N, D) /\ round_with_min1(value, n, d) \in Nat
    BY <2>1, <2>2, <2>3
  <2> QED
    BY <1>2, <1>3, <1>5, <2>4
<1>9. CASE N # 0 /\ D = 0
  <2>1. value = 0
    BY <1>9 DEF fee_defined
  <2> QED
    BY <1>7, <2>1
<1> QED
  BY <1>6, <1>7, <1>8, <1>9 DEF AtMost

-----------------------------------------------------------------------------
(* The registry.                                                             *)

\* The Action account a pattern and a rate make.
ActionOf(d, t, rate) ==
    LET pattern == Deployments[d].templates[t]
    IN  [action_hash |-> TemplateHash[d][t], ops |-> pattern.ops, scope |-> pattern.scope,
         fee |-> rate, amount_offset |-> pattern.amount_offset]

\* Every stored action is one of the admin's patterns, with a rate at most the admin's.
Registry(d, held, rates) ==
    /\ d \in DOMAIN Deployments
    /\ rates \in [DOMAIN Deployments[d].templates -> Nat \X Nat]
    /\ \A a \in held : \E t \in DOMAIN Deployments[d].templates, rate \in Deployments[d].fee_rates :
         a = ActionOf(d, t, rate)
    /\ \A a \in held, t \in DOMAIN Deployments[d].templates :
         a.action_hash = TemplateHash[d][t] => AtMost(a.fee, rates[t])

RegistryInv == Registry(deployment, actions, admin_rate)

\* What a rate is in a deployment.
LEMMA RatesAreFractions ==
    ASSUME NEW d \in DOMAIN Deployments, NEW rate \in Deployments[d].fee_rates
    PROVE  rate \in Nat \X Nat
BY DeploymentsAssumption DEF deployment_formed

\* Rewriting the rate of an action makes the action of that rate.
LEMMA ActionRewritten ==
    ASSUME NEW d, NEW t, NEW old, NEW rate
    PROVE  /\ [ActionOf(d, t, old) EXCEPT !.fee = rate] = ActionOf(d, t, rate)
           /\ ActionOf(d, t, rate).fee = rate
           /\ ActionOf(d, t, rate).action_hash = TemplateHash[d][t]
BY DEF ActionOf

\* The admin's choice, for every pattern of one hash.
Chosen(d, rates, t, rate) ==
    [u \in DOMAIN Deployments[d].templates |->
        IF TemplateHash[d][u] = TemplateHash[d][t] THEN rate ELSE rates[u]]

\* The choice is made for the pattern's own hash, and for no other.
LEMMA ChosenFacts ==
    ASSUME NEW d, NEW t, NEW rate \in Nat \X Nat,
           NEW rates \in [DOMAIN Deployments[d].templates -> Nat \X Nat]
    PROVE  /\ Chosen(d, rates, t, rate) \in [DOMAIN Deployments[d].templates -> Nat \X Nat]
           /\ \A u \in DOMAIN Deployments[d].templates :
                /\ TemplateHash[d][u] = TemplateHash[d][t] => Chosen(d, rates, t, rate)[u] = rate
                /\ TemplateHash[d][u] # TemplateHash[d][t] => Chosen(d, rates, t, rate)[u] = rates[u]
BY DEF Chosen

\* Storing a new action keeps the registry.
LEMMA AuthorizeKeeps ==
    ASSUME NEW d, NEW held, NEW rates, Registry(d, held, rates),
           NEW t \in DOMAIN Deployments[d].templates, NEW rate \in Deployments[d].fee_rates,
           \A a \in held : a.action_hash # TemplateHash[d][t]
    PROVE  Registry(d, held \cup {ActionOf(d, t, rate)}, Chosen(d, rates, t, rate))
<1> DEFINE more == held \cup {ActionOf(d, t, rate)}
           chosen == Chosen(d, rates, t, rate)
<1>1. /\ d \in DOMAIN Deployments /\ rates \in [DOMAIN Deployments[d].templates -> Nat \X Nat]
      /\ \A a \in held : \E u \in DOMAIN Deployments[d].templates, r \in Deployments[d].fee_rates :
           a = ActionOf(d, u, r)
      /\ \A a \in held, u \in DOMAIN Deployments[d].templates :
           a.action_hash = TemplateHash[d][u] => AtMost(a.fee, rates[u])
  BY DEF Registry
<1>2. rate \in Nat \X Nat
  BY <1>1, RatesAreFractions
<1>3. /\ chosen \in [DOMAIN Deployments[d].templates -> Nat \X Nat]
      /\ \A u \in DOMAIN Deployments[d].templates :
           /\ TemplateHash[d][u] = TemplateHash[d][t] => chosen[u] = rate
           /\ TemplateHash[d][u] # TemplateHash[d][t] => chosen[u] = rates[u]
  BY <1>1, <1>2 DEF Chosen
<1>4. ActionOf(d, t, rate).fee = rate /\ ActionOf(d, t, rate).action_hash = TemplateHash[d][t]
  BY ActionRewritten
<1> HIDE DEF chosen
<1>5. ASSUME NEW a \in more, NEW u \in DOMAIN Deployments[d].templates,
             a.action_hash = TemplateHash[d][u]
      PROVE  AtMost(a.fee, chosen[u])
  <2>1. CASE a \in held
    <3>1. TemplateHash[d][u] # TemplateHash[d][t]
      BY <1>5, <2>1
    <3>2. AtMost(a.fee, rates[u]) /\ chosen[u] = rates[u]
      BY <1>1, <1>3, <1>5, <2>1, <3>1
    <3> QED
      BY <3>2
  <2>2. CASE a = ActionOf(d, t, rate)
    <3>1. a.fee = rate /\ chosen[u] = rate
      BY <1>3, <1>4, <1>5, <2>2
    <3> QED
      BY <3>1 DEF AtMost
  <2> QED
    BY <2>1, <2>2
<1>6. \A a \in more : \E u \in DOMAIN Deployments[d].templates, r \in Deployments[d].fee_rates :
        a = ActionOf(d, u, r)
  BY <1>1
<1> HIDE DEF more
<1>7. Registry(d, more, chosen)
  BY <1>1, <1>3, <1>5, <1>6 DEF Registry
<1> QED
  BY <1>7 DEF more, chosen

\* The actions after the rate of those of one hash was rewritten.
Rewritten(d, held, t, rate) ==
    {IF a.action_hash = TemplateHash[d][t] THEN [a EXCEPT !.fee = rate] ELSE a : a \in held}

\* What is in there.
LEMMA RewrittenFacts ==
    ASSUME NEW d, NEW held, NEW rates, Registry(d, held, rates), NEW t, NEW rate,
           NEW a \in Rewritten(d, held, t, rate)
    PROVE  \E b \in held, u \in DOMAIN Deployments[d].templates, r \in Deployments[d].fee_rates :
             /\ b = ActionOf(d, u, r) /\ a.action_hash = b.action_hash
             /\ b.action_hash = TemplateHash[d][t] => a = ActionOf(d, u, rate) /\ a.fee = rate
             /\ b.action_hash # TemplateHash[d][t] => a = b
<1>1. PICK b \in held : a = IF b.action_hash = TemplateHash[d][t] THEN [b EXCEPT !.fee = rate] ELSE b
  BY DEF Rewritten
<1>2. PICK u \in DOMAIN Deployments[d].templates, r \in Deployments[d].fee_rates : b = ActionOf(d, u, r)
  BY DEF Registry
<1>3. /\ [ActionOf(d, u, r) EXCEPT !.fee = rate] = ActionOf(d, u, rate)
      /\ ActionOf(d, u, rate).fee = rate
      /\ ActionOf(d, u, rate).action_hash = TemplateHash[d][u]
      /\ ActionOf(d, u, r).action_hash = TemplateHash[d][u]
  BY ActionRewritten
<1>4. CASE b.action_hash = TemplateHash[d][t]
  <2>1. a = ActionOf(d, u, rate) /\ a.fee = rate /\ a.action_hash = b.action_hash
    BY <1>1, <1>2, <1>3, <1>4
  <2> QED
    BY <1>2, <1>4, <2>1
<1>5. CASE b.action_hash # TemplateHash[d][t]
  <2>1. a = b
    BY <1>1, <1>5
  <2> QED
    BY <1>2, <1>5, <2>1
<1> QED
  BY <1>4, <1>5

\* The admin's new rate keeps the registry.
LEMMA AdminRateKeeps ==
    ASSUME NEW d, NEW held, NEW rates, Registry(d, held, rates),
           NEW t \in DOMAIN Deployments[d].templates, NEW rate \in Deployments[d].fee_rates
    PROVE  Registry(d, Rewritten(d, held, t, rate), Chosen(d, rates, t, rate))
<1> DEFINE after == Rewritten(d, held, t, rate)
           chosen == Chosen(d, rates, t, rate)
<1>1. /\ d \in DOMAIN Deployments /\ rates \in [DOMAIN Deployments[d].templates -> Nat \X Nat]
      /\ \A a \in held, u \in DOMAIN Deployments[d].templates :
           a.action_hash = TemplateHash[d][u] => AtMost(a.fee, rates[u])
  BY DEF Registry
<1>2. rate \in Nat \X Nat
  BY <1>1, RatesAreFractions
<1>3. /\ chosen \in [DOMAIN Deployments[d].templates -> Nat \X Nat]
      /\ \A u \in DOMAIN Deployments[d].templates :
           /\ TemplateHash[d][u] = TemplateHash[d][t] => chosen[u] = rate
           /\ TemplateHash[d][u] # TemplateHash[d][t] => chosen[u] = rates[u]
  BY <1>1, <1>2 DEF Chosen
<1> HIDE DEF chosen
<1>4. ASSUME NEW a \in after
      PROVE  /\ \E u \in DOMAIN Deployments[d].templates, r \in Deployments[d].fee_rates : a = ActionOf(d, u, r)
             /\ \A u \in DOMAIN Deployments[d].templates :
                  a.action_hash = TemplateHash[d][u] => AtMost(a.fee, chosen[u])
  <2>1. PICK b \in held, u \in DOMAIN Deployments[d].templates, r \in Deployments[d].fee_rates :
             /\ b = ActionOf(d, u, r) /\ a.action_hash = b.action_hash
             /\ b.action_hash = TemplateHash[d][t] => a = ActionOf(d, u, rate) /\ a.fee = rate
             /\ b.action_hash # TemplateHash[d][t] => a = b
    BY RewrittenFacts
  <2>2. CASE b.action_hash = TemplateHash[d][t]
    <3>1. a = ActionOf(d, u, rate) /\ a.fee = rate
      BY <2>1, <2>2
    <3>2. ASSUME NEW w \in DOMAIN Deployments[d].templates, a.action_hash = TemplateHash[d][w]
          PROVE  AtMost(a.fee, chosen[w])
      <4>1. chosen[w] = rate
        BY <1>3, <2>1, <2>2, <3>2
      <4> QED
        BY <3>1, <4>1 DEF AtMost
    <3> QED
      BY <3>1, <3>2
  <2>3. CASE b.action_hash # TemplateHash[d][t]
    <3>1. a = b
      BY <2>1, <2>3
    <3>2. ASSUME NEW w \in DOMAIN Deployments[d].templates, a.action_hash = TemplateHash[d][w]
          PROVE  AtMost(a.fee, chosen[w])
      <4>1. chosen[w] = rates[w] /\ AtMost(a.fee, rates[w])
        BY <1>1, <1>3, <2>1, <2>3, <3>1, <3>2
      <4> QED
        BY <4>1
    <3> QED
      BY <2>1, <3>1, <3>2
  <2> QED
    BY <2>2, <2>3
<1> HIDE DEF after
<1>5. Registry(d, after, chosen)
  BY <1>1, <1>3, <1>4 DEF Registry
<1> QED
  BY <1>5 DEF after, chosen

\* So does the strategist's lower one.
LEMMA StrategistRateKeeps ==
    ASSUME NEW d, NEW held, NEW rates, Registry(d, held, rates),
           NEW t \in DOMAIN Deployments[d].templates, NEW rate \in Deployments[d].fee_rates,
           \A a \in held : a.action_hash = TemplateHash[d][t] => rate_strictly_lower(rate, a.fee)
    PROVE  Registry(d, Rewritten(d, held, t, rate), rates)
<1> DEFINE after == Rewritten(d, held, t, rate)
<1>1. /\ d \in DOMAIN Deployments /\ rates \in [DOMAIN Deployments[d].templates -> Nat \X Nat]
      /\ \A a \in held, u \in DOMAIN Deployments[d].templates :
           a.action_hash = TemplateHash[d][u] => AtMost(a.fee, rates[u])
  BY DEF Registry
<1>2. \A r \in Deployments[d].fee_rates : r \in Nat \X Nat
  BY <1>1, RatesAreFractions
<1>3. ASSUME NEW a \in after
      PROVE  /\ \E u \in DOMAIN Deployments[d].templates, r \in Deployments[d].fee_rates : a = ActionOf(d, u, r)
             /\ \A u \in DOMAIN Deployments[d].templates :
                  a.action_hash = TemplateHash[d][u] => AtMost(a.fee, rates[u])
  <2>1. PICK b \in held, u \in DOMAIN Deployments[d].templates, r \in Deployments[d].fee_rates :
             /\ b = ActionOf(d, u, r) /\ a.action_hash = b.action_hash
             /\ b.action_hash = TemplateHash[d][t] => a = ActionOf(d, u, rate) /\ a.fee = rate
             /\ b.action_hash # TemplateHash[d][t] => a = b
    BY RewrittenFacts
  <2>2. CASE b.action_hash = TemplateHash[d][t]
    <3>1. a = ActionOf(d, u, rate) /\ a.fee = rate
      BY <2>1, <2>2
    <3>2. b.fee \in Nat \X Nat /\ rate_strictly_lower(rate, b.fee)
      <4>1. b.fee = r
        BY <2>1, ActionRewritten
      <4> QED
        BY <1>2, <2>2, <4>1
    <3>3. ASSUME NEW w \in DOMAIN Deployments[d].templates, a.action_hash = TemplateHash[d][w]
          PROVE  AtMost(a.fee, rates[w])
      <4>1. AtMost(b.fee, rates[w]) /\ rates[w] \in Nat \X Nat
        BY <1>1, <2>1, <3>3
      <4>2. AtMost(rate, rates[w])
        BY <1>2, <3>2, <4>1, LoweringStaysAtMost
      <4> QED
        BY <3>1, <4>2
    <3> QED
      BY <3>1, <3>3
  <2>3. CASE b.action_hash # TemplateHash[d][t]
    <3>1. a = b
      BY <2>1, <2>3
    <3> QED
      BY <1>1, <2>1, <3>1
  <2> QED
    BY <2>2, <2>3
<1> HIDE DEF after
<1>4. Registry(d, after, rates)
  BY <1>1, <1>3 DEF Registry
<1> QED
  BY <1>4 DEF after

\* A transaction leaves the registry and the roles alone.
LEMMA TransactionsLeaveTheRegistry ==
    ASSUME TransactionStep
    PROVE  /\ deployment' = deployment /\ actions' = actions /\ admin_rate' = admin_rate
           /\ strategist' = strategist /\ swap_authority' = swap_authority
           /\ manage_paused' = manage_paused
<1>1. Advance => UNCHANGED registry_vars
  BY DEF Advance
<1>2. ASSUME NEW signer, NEW body, Begin(signer, body) PROVE UNCHANGED registry_vars
  BY <1>2 DEF Begin
<1>3. Manage => UNCHANGED registry_vars
  BY <1>1 DEF Manage, next_leg
<1>4. Swap => UNCHANGED registry_vars
  BY <1>1 DEF Swap
<1>5. DepositAndDeploy => UNCHANGED registry_vars
  BY <1>1 DEF DepositAndDeploy
<1>6. AtomicRedeem => UNCHANGED registry_vars
  BY <1>1 DEF AtomicRedeem
<1>7. AssertDelegateCleared => UNCHANGED registry_vars
  BY <1>1 DEF AssertDelegateCleared
<1>8. FlashBorrow => UNCHANGED registry_vars
  BY <1>1 DEF FlashBorrow
<1>9. DelegateSpend => UNCHANGED registry_vars
  BY <1>1 DEF DelegateSpend
<1>10. Commit => UNCHANGED registry_vars
  BY DEF Commit
<1>11. Abort => UNCHANGED registry_vars
  BY DEF Abort
<1>12. UNCHANGED registry_vars
  BY <1>2, <1>3, <1>4, <1>5, <1>6, <1>7, <1>8, <1>9, <1>10, <1>11 DEF TransactionStep
<1> QED
  BY <1>12 DEF registry_vars

\* The registry as it starts.
LEMMA RegistryInit ==
    ASSUME Init
    PROVE  RegistryInv
<1>1. deployment \in DOMAIN Deployments /\ actions = {}
  BY DEF Init
<1>2. admin_rate = [t \in DOMAIN Deployments[deployment].templates |-> <<0, 1>>]
  BY DEF Init, Templates
<1>3. admin_rate \in [DOMAIN Deployments[deployment].templates -> Nat \X Nat]
  BY <1>2
<1> QED
  BY <1>1, <1>3 DEF RegistryInv, Registry

\* The registry keeps to the admin's patterns and rates.
LEMMA RegistryInductive ==
    ASSUME RegistryInv, [Next]_vars
    PROVE  RegistryInv'
<1>1. Registry(deployment, actions, admin_rate)
  BY DEF RegistryInv
<1>2. SUFFICES Registry(deployment', actions', admin_rate')
  BY DEF RegistryInv
<1>3. ASSUME NEW t \in DOMAIN Templates, NEW rate \in FeeRates, AuthorizeAction(t, rate)
      PROVE  Registry(deployment', actions', admin_rate')
  <2>1. \A a \in actions : a.action_hash # TemplateHash[deployment][t]
    BY <1>3 DEF AuthorizeAction, stored_action
  <2>2. /\ deployment' = deployment
        /\ actions' = actions \cup {ActionOf(deployment, t, rate)}
        /\ admin_rate' = Chosen(deployment, admin_rate, t, rate)
    BY <1>3 DEF AuthorizeAction, ActionOf, Chosen, admin_chooses, Templates
  <2>3. t \in DOMAIN Deployments[deployment].templates /\ rate \in Deployments[deployment].fee_rates
    BY DEF Templates, FeeRates
  <2>4. Registry(deployment, actions \cup {ActionOf(deployment, t, rate)},
                 Chosen(deployment, admin_rate, t, rate))
    BY <1>1, <2>1, <2>3, AuthorizeKeeps
  <2> QED
    BY <2>2, <2>4
<1>4. ASSUME NEW t \in DOMAIN Templates, RevokeAction(t)
      PROVE  Registry(deployment', actions', admin_rate')
  <2>1. deployment' = deployment /\ actions' \subseteq actions /\ admin_rate' = admin_rate
    BY <1>4 DEF RevokeAction
  <2> QED
    BY <1>1, <2>1 DEF Registry
<1>5. ASSUME NEW t, NEW rate, update_action_flash_fee(t, rate)
      PROVE  deployment' = deployment /\ actions' = Rewritten(deployment, actions, t, rate)
  <2>1. /\ deployment' = deployment
        /\ actions' = {IF a \in stored_action(t) THEN [a EXCEPT !.fee = rate] ELSE a : a \in actions}
    BY <1>5 DEF update_action_flash_fee
  <2>2. \A a \in actions : a \in stored_action(t) <=> a.action_hash = TemplateHash[deployment][t]
    BY DEF stored_action
  <2> QED
    BY <2>1, <2>2 DEF Rewritten
<1>6. ASSUME NEW t \in DOMAIN Templates, NEW rate \in FeeRates, AdminSetFlashFeeRate(t, rate)
      PROVE  Registry(deployment', actions', admin_rate')
  <2>1. deployment' = deployment /\ actions' = Rewritten(deployment, actions, t, rate)
    BY <1>5, <1>6 DEF AdminSetFlashFeeRate
  <2>2. admin_rate' = Chosen(deployment, admin_rate, t, rate)
    BY <1>6 DEF AdminSetFlashFeeRate, Chosen, admin_chooses, Templates
  <2>3. t \in DOMAIN Deployments[deployment].templates /\ rate \in Deployments[deployment].fee_rates
    BY DEF Templates, FeeRates
  <2>4. Registry(deployment, Rewritten(deployment, actions, t, rate), Chosen(deployment, admin_rate, t, rate))
    BY <1>1, <2>3, AdminRateKeeps
  <2> QED
    BY <2>1, <2>2, <2>4
<1>7. ASSUME NEW t \in DOMAIN Templates, NEW rate \in FeeRates, StrategistLowerFlashFeeRate(t, rate)
      PROVE  Registry(deployment', actions', admin_rate')
  <2>1. deployment' = deployment /\ actions' = Rewritten(deployment, actions, t, rate)
    BY <1>5, <1>7 DEF StrategistLowerFlashFeeRate
  <2>2. admin_rate' = admin_rate
    BY <1>7 DEF StrategistLowerFlashFeeRate
  <2>3. t \in DOMAIN Deployments[deployment].templates /\ rate \in Deployments[deployment].fee_rates
    BY DEF Templates, FeeRates
  <2>4. \A a \in actions : a.action_hash = TemplateHash[deployment][t] => rate_strictly_lower(rate, a.fee)
    BY <1>7 DEF StrategistLowerFlashFeeRate, stored_action
  <2>5. Registry(deployment, Rewritten(deployment, actions, t, rate), admin_rate)
    BY <1>1, <2>3, <2>4, StrategistRateKeeps
  <2> QED
    BY <2>1, <2>2, <2>5
<1>8. ASSUME deployment' = deployment, actions' = actions, admin_rate' = admin_rate
      PROVE  Registry(deployment', actions', admin_rate')
  BY <1>1, <1>8
<1>9. ASSUME NEW w, SetStrategist(w) \/ SetManagePaused(w)
      PROVE  Registry(deployment', actions', admin_rate')
  BY <1>8, <1>9 DEF SetStrategist, SetManagePaused
<1>10. ASSUME RegistryStep PROVE Registry(deployment', actions', admin_rate')
  BY <1>3, <1>4, <1>6, <1>7, <1>9, <1>10 DEF RegistryStep
<1>11. ASSUME TransactionStep PROVE Registry(deployment', actions', admin_rate')
  BY <1>8, <1>11, TransactionsLeaveTheRegistry
<1>12. ASSUME UNCHANGED vars PROVE Registry(deployment', actions', admin_rate')
  BY <1>8, <1>12 DEF vars, registry_vars
<1> QED
  BY <1>10, <1>11, <1>12 DEF Next

\* The invariant bounds every allowance by the admin's.
LEMMA RegistryBoundsTheCap ==
    ASSUME RegistryInv
    PROVE  StrategistNeverRaisesTheCap
<1> SUFFICES ASSUME NEW t \in DOMAIN Templates, NEW a \in stored_action(t), NEW value \in Amounts,
                    fee_defined(value, admin_rate[t][1], admin_rate[t][2])
             PROVE  delegate_cap(value, a.fee) <= delegate_cap(value, admin_rate[t])
  BY DEF StrategistNeverRaisesTheCap
<1>1. /\ deployment \in DOMAIN Deployments
      /\ admin_rate \in [DOMAIN Deployments[deployment].templates -> Nat \X Nat]
      /\ t \in DOMAIN Deployments[deployment].templates
      /\ a \in actions /\ a.action_hash = TemplateHash[deployment][t]
  BY DEF RegistryInv, Registry, Templates, stored_action
<1>2. PICK u \in DOMAIN Deployments[deployment].templates, rate \in Deployments[deployment].fee_rates :
        a = ActionOf(deployment, u, rate)
  BY <1>1 DEF RegistryInv, Registry
<1>3. a.fee = rate
  BY <1>2, ActionRewritten
<1>4. AtMost(a.fee, admin_rate[t])
  BY <1>1 DEF RegistryInv, Registry
<1>5. a.fee \in Nat \X Nat /\ admin_rate[t] \in Nat \X Nat
  BY <1>1, <1>2, <1>3, RatesAreFractions
<1>6. value \in Nat
  BY <1>1, DeploymentsAssumption DEF Amounts, deployment_formed
<1> QED
  BY <1>4, <1>5, <1>6, CapUnderAdmins

(***************************************************************************)
(* No rate the strategist sets, in any order with the admin's own          *)
(* settings, revocations and authorizations, lets an action leave an       *)
(* allowance above the one the admin's last rate gives                     *)
(* (try_strategist_lower_flash_fee_rate, rate_strictly_lower).             *)
(***************************************************************************)
THEOREM StrategistStaysUnderTheAdmin == Spec => []StrategistNeverRaisesTheCap
<1>1. Init => RegistryInv
  BY RegistryInit
<1>2. RegistryInv /\ [Next]_vars => RegistryInv'
  BY RegistryInductive
<1>3. RegistryInv => StrategistNeverRaisesTheCap
  BY RegistryBoundsTheCap
<1> QED
  BY <1>1, <1>2, <1>3, PTL DEF Spec

-----------------------------------------------------------------------------
(* What a relayed call leaves of the token accounts.                         *)

\* A token account with amounts and keys of any size.
Account == TokenAccountRecord(Nat, DOMAIN Price, Nat)

\* No one but the owner the account began with can move it, a delegate aside.
Controlled(a, owner) == live(a) /\ a.owner = owner /\ a.close_authority = NoKey

\* Control is where it was; a delegate may have used itself up.
ControlKept(a, b) ==
    /\ live(b) /\ b.owner = a.owner /\ b.close_authority = a.close_authority
    /\ b.delegate = a.delegate \/ b.delegate = NoKey

\* The bound on balances.
LEMMA AmountsAreNaturals ==
    ASSUME deployment \in DOMAIN Deployments
    PROVE  \A n \in Amounts : n \in Nat
BY DeploymentsAssumption DEF Amounts, deployment_formed

\* Moving a balance leaves the rest of the account.
LEMMA AmountMoves ==
    ASSUME NEW a \in Account, NEW n \in Nat
    PROVE  LET b == [a EXCEPT !.amount = n]
           IN  b \in Account /\ (live(a) => ControlKept(a, b)) /\ b.delegate = a.delegate /\ b.amount = n
BY DEF Account, TokenAccountRecord, ControlKept, live

\* What a delegate's transfer leaves.
LEMMA DelegateMoves ==
    ASSUME NEW a \in Account, NEW n \in Nat, n <= a.amount, n <= a.delegated_amount
    PROVE  LET b == spl_delegate_debit(a, n)
           IN  b \in Account /\ (live(a) => ControlKept(a, b))
<1> DEFINE left == a.amount - n
           allowed == a.delegated_amount - n
           to == IF a.delegated_amount = n THEN NoKey ELSE a.delegate
           b == [a EXCEPT !.amount = left, !.delegated_amount = allowed, !.delegate = to]
<1>1. a.amount \in Nat /\ a.delegated_amount \in Nat
  BY DEF Account, TokenAccountRecord
<1>2. left \in Nat /\ allowed \in Nat
  BY <1>1
<1>3. to \in Nat \cup {NoKey} /\ (to = a.delegate \/ to = NoKey)
  BY DEF Account, TokenAccountRecord
<1>4. spl_delegate_debit(a, n) = b
  BY DEF spl_delegate_debit
<1> HIDE DEF left, allowed, to
<1>5. b \in Account
  BY <1>2, <1>3 DEF Account, TokenAccountRecord
<1>6. live(a) => ControlKept(a, b)
  BY <1>3 DEF Account, TokenAccountRecord, ControlKept, live
<1> QED
  BY <1>4, <1>5, <1>6

\* What an approval leaves.
LEMMA ApprovalMoves ==
    ASSUME NEW a \in Account, NEW key \in Nat, NEW n \in Nat
    PROVE  LET b == spl_approve(a, key, n)
           IN  /\ b \in Account /\ b.owner = a.owner /\ b.close_authority = a.close_authority
               /\ live(a) => live(b)
BY DEF Account, TokenAccountRecord, spl_approve, live

\* What a venue leaves of an account, with and without its owner's signature.
LEMMA TouchedFacts ==
    ASSUME deployment \in DOMAIN Deployments, NEW a \in Account, NEW signed \in BOOLEAN,
           NEW b \in touched(a, signed)
    PROVE  b \in Account /\ (live(a) /\ ~signed => ControlKept(a, b))
<1>1. CASE ~live(a)
  BY <1>1 DEF touched
<1>2. CASE live(a) /\ b \in {[a EXCEPT !.amount = n] : n \in {m \in Amounts : signed \/ m >= a.amount}}
  <2>1. PICK n \in Amounts : b = [a EXCEPT !.amount = n]
    BY <1>2
  <2>2. n \in Nat
    BY AmountsAreNaturals
  <2> QED
    BY <1>2, <2>1, <2>2, AmountMoves
<1>3. CASE /\ live(a)
           /\ b \in {spl_delegate_debit(a, n) :
                       n \in {m \in Amounts : m <= a.amount /\ m <= a.delegated_amount}}
  <2>1. PICK n \in Amounts : n <= a.amount /\ n <= a.delegated_amount /\ b = spl_delegate_debit(a, n)
    BY <1>3
  <2>2. n \in Nat
    BY AmountsAreNaturals
  <2> QED
    BY <1>3, <2>1, <2>2, DelegateMoves
<1>4. CASE /\ signed
           /\ b \in {spl_approve(a, PlantedKey, 1), [a EXCEPT !.close_authority = PlantedKey],
                     [a EXCEPT !.owner = PlantedKey], [a EXCEPT !.initialized = FALSE]}
  <2>1. PlantedKey \in Nat
    BY DeploymentsAssumption
  <2>2. CASE b = spl_approve(a, PlantedKey, 1)
    BY <1>4, <2>1, <2>2, ApprovalMoves
  <2>3. CASE b = [a EXCEPT !.close_authority = PlantedKey]
    BY <1>4, <2>1, <2>3 DEF Account, TokenAccountRecord
  <2>4. CASE b = [a EXCEPT !.owner = PlantedKey]
    BY <1>4, <2>1, <2>4 DEF Account, TokenAccountRecord
  <2>5. CASE b = [a EXCEPT !.initialized = FALSE]
    BY <1>4, <2>1, <2>5 DEF Account, TokenAccountRecord
  <2> QED
    BY <1>4, <2>2, <2>3, <2>4, <2>5
<1> QED
  BY <1>1, <1>2, <1>3, <1>4 DEF touched

\* A downstream call, as a relay builds it.
Passed(call) == call.metas \in Seq(MetaRecord) /\ call.data \in Seq(Nat)

\* An approval through the token program.
LEMMA TokenProgramFacts ==
    ASSUME deployment \in DOMAIN Deployments, NEW toks \in [TokenKeys -> Account],
           NEW call, Passed(call), NEW post \in spl_outcomes(toks, call)
    PROVE  /\ post \in [TokenKeys -> Account]
           /\ \A k \in TokenKeys : k \notin writable_tokens(call) => post[k] = toks[k]
           /\ \A k \in TokenKeys : post[k].owner = toks[k].owner
           /\ \A k \in TokenKeys : live(toks[k]) /\ ~signs(call, toks[k].owner) => ControlKept(toks[k], post[k])
<1> DEFINE source == call.metas[1].key
           written == spl_approve(toks[source], call.metas[2].key, call.data[2])
<1>1. /\ Len(call.metas) >= 3 /\ Len(call.data) >= 2
      /\ source \in writable_tokens(call) /\ live(toks[source])
      /\ call.metas[3].key = toks[source].owner /\ call.metas[3].is_signer
      /\ post = [toks EXCEPT ![source] = written]
  BY DEF spl_outcomes
<1>2. source \in TokenKeys
  BY <1>1 DEF writable_tokens
<1>3. toks[source] \in Account /\ call.metas[2].key \in Nat /\ call.data[2] \in Nat
  <2>1. call.metas[2] \in MetaRecord /\ call.data[2] \in Nat
    BY <1>1 DEF Passed
  <2> QED
    BY <1>2, <2>1 DEF MetaRecord
<1>4. written \in Account /\ written.owner = toks[source].owner
  BY <1>3, ApprovalMoves
<1>5. 3 \in DOMAIN call.metas
  BY <1>1 DEF Passed
<1>6. signs(call, toks[source].owner)
  BY <1>1, <1>5 DEF signs
<1> HIDE DEF source, written
<1>7. /\ post \in [TokenKeys -> Account] /\ post[source] = written
      /\ \A k \in TokenKeys : k # source => post[k] = toks[k]
  BY <1>1, <1>2, <1>4
<1>8. \A k \in TokenKeys : live(toks[k]) => ControlKept(toks[k], toks[k])
  BY DEF ControlKept
<1> QED
  BY <1>1, <1>4, <1>6, <1>7, <1>8

\* Whatever program runs: readonly accounts stay, and control stays with an owner that did not sign.
LEMMA InvokeFacts ==
    ASSUME deployment \in DOMAIN Deployments, NEW toks \in [TokenKeys -> Account],
           NEW call, Passed(call), NEW post \in invoke_authorized_cpi(toks, call)
    PROVE  /\ post \in [TokenKeys -> Account]
           /\ \A k \in TokenKeys : k \notin writable_tokens(call) => post[k] = toks[k]
           /\ verify_is_approve(call) => \A k \in TokenKeys : post[k].owner = toks[k].owner
           /\ \A k \in TokenKeys : live(toks[k]) /\ ~signs(call, toks[k].owner) => ControlKept(toks[k], post[k])
<1>1. CASE verify_is_approve(call)
  <2>1. post \in spl_outcomes(toks, call)
    BY <1>1 DEF invoke_authorized_cpi
  <2> QED
    BY <2>1, TokenProgramFacts
<1>2. CASE ~verify_is_approve(call)
  <2> DEFINE w == writable_tokens(call)
  <2>1. w \subseteq TokenKeys
    BY DEF writable_tokens
  <2>2. PICK f : /\ \A k \in w : f[k] \in touched(toks[k], signs(call, toks[k].owner))
                 /\ post = [k \in TokenKeys |-> IF k \in w THEN f[k] ELSE toks[k]]
    BY <1>2 DEF invoke_authorized_cpi
  <2> HIDE DEF w
  <2>3. ASSUME NEW k \in TokenKeys
        PROVE  /\ post[k] \in Account
               /\ k \notin w => post[k] = toks[k]
               /\ live(toks[k]) /\ ~signs(call, toks[k].owner) => ControlKept(toks[k], post[k])
    <3>1. CASE k \in w
      <4>1. post[k] = f[k] /\ f[k] \in touched(toks[k], signs(call, toks[k].owner))
        BY <2>2, <3>1
      <4>2. signs(call, toks[k].owner) \in BOOLEAN /\ toks[k] \in Account
        BY DEF signs
      <4>3. f[k] \in Account /\ (live(toks[k]) /\ ~signs(call, toks[k].owner) => ControlKept(toks[k], f[k]))
        BY <4>1, <4>2, TouchedFacts
      <4> QED
        BY <3>1, <4>1, <4>3
    <3>2. CASE k \notin w
      <4>1. post[k] = toks[k]
        BY <2>2, <3>2
      <4> QED
        BY <3>2, <4>1 DEF ControlKept
    <3> QED
      BY <3>1, <3>2
  <2>4. post \in [TokenKeys -> Account]
    BY <2>2, <2>3
  <2> QED
    BY <1>2, <2>3, <2>4 DEF w
<1> QED
  BY <1>1, <1>2

\* Balances moved, and nothing else.
OnlyBalances(toks, post) ==
    /\ post \in [TokenKeys -> Account]
    /\ \A k \in TokenKeys : \E n \in Nat : post[k] = [toks[k] EXCEPT !.amount = n]

\* The payout of a redemption moves balances.
LEMMA TransferFacts ==
    ASSUME NEW toks \in [TokenKeys -> Account], NEW from \in TokenKeys, NEW to \in TokenKeys,
           NEW amount \in Nat, amount <= toks[from].amount
    PROVE  OnlyBalances(toks, transfer_signed(toks, from, to, amount))
<1> DEFINE result == transfer_signed(toks, from, to, amount)
<1>1. \A k \in TokenKeys : toks[k] \in Account /\ toks[k].amount \in Nat
  BY DEF Account, TokenAccountRecord
<1>2. CASE from = to
  <2>1. \A k \in TokenKeys : result[k] = [toks[k] EXCEPT !.amount = toks[k].amount]
    BY <1>1, <1>2 DEF transfer_signed, Account, TokenAccountRecord
  <2> QED
    BY <1>1, <1>2, <2>1 DEF transfer_signed, OnlyBalances
<1>3. CASE from # to
  <2>1. result = [toks EXCEPT ![from] = spl_debit(toks[from], amount), ![to] = spl_credit(toks[to], amount)]
    BY <1>3 DEF transfer_signed
  <2>2. toks[from].amount - amount \in Nat /\ toks[to].amount + amount \in Nat
    BY <1>1
  <2>3. /\ spl_debit(toks[from], amount) = [toks[from] EXCEPT !.amount = toks[from].amount - amount]
        /\ spl_credit(toks[to], amount) = [toks[to] EXCEPT !.amount = toks[to].amount + amount]
    BY <1>1 DEF spl_debit, spl_credit, Account, TokenAccountRecord
  <2>4. spl_debit(toks[from], amount) \in Account /\ spl_credit(toks[to], amount) \in Account
    BY <1>1, <2>2, <2>3 DEF Account, TokenAccountRecord
  <2>5. /\ result \in [TokenKeys -> Account]
        /\ result[from] = spl_debit(toks[from], amount) /\ result[to] = spl_credit(toks[to], amount)
        /\ \A k \in TokenKeys : k # from /\ k # to => result[k] = toks[k]
    BY <1>3, <2>1, <2>4
  <2>6. \A k \in TokenKeys : toks[k] = [toks[k] EXCEPT !.amount = toks[k].amount]
    BY <1>1 DEF Account, TokenAccountRecord
  <2> QED
    BY <1>1, <2>2, <2>3, <2>5, <2>6 DEF OnlyBalances
<1> QED
  BY <1>2, <1>3

-----------------------------------------------------------------------------
(* Types.                                                                    *)

\* A running transaction: its signer, its instructions, where it is, what it saved.
Transaction(d, t, n, l, sv) ==
    LET instructions == Deployments[d].instructions
    IN  /\ t.signer \in Deployments[d].wallets
        /\ Len(t.body) \in Nat /\ DOMAIN t.body = 1..Len(t.body)
        /\ \A i \in DOMAIN t.body : t.body[i] \in DOMAIN instructions
        /\ n \in 1..(Len(t.body) + 1)
        /\ sv \in [DOMAIN Deployments[d].tokens -> Account]
        /\ n \in DOMAIN t.body /\ instructions[t.body[n]].name = "Manage" =>
             l \in 1..Len(instructions[t.body[n]].legs)

Roles(d, s, w, p) == s \in Deployments[d].wallets /\ w \in Deployments[d].wallets /\ p \in BOOLEAN

Typing(d, toks, t, n, l, sv) ==
    /\ toks \in [DOMAIN Deployments[d].tokens -> Account]
    /\ t # NoTx => Transaction(d, t, n, l, sv)

TypeInv ==
    /\ Roles(deployment, strategist, swap_authority, manage_paused)
    /\ Typing(deployment, tokens, tx, pc, leg, saved)

\* The deployment a behavior is of is one of those considered.
LEMMA TheDeployment ==
    ASSUME RegistryInv
    PROVE  deployment \in DOMAIN Deployments /\ deployment_formed(Deployments[deployment])
BY DeploymentsAssumption DEF RegistryInv, Registry

\* Where a transaction is while it runs.
LEMMA RunningFacts ==
    ASSUME RegistryInv, TypeInv, Running
    PROVE  /\ tx # NoTx /\ Transaction(deployment, tx, pc, leg, saved)
           /\ pc \in 1..Len(tx.body) /\ Len(tx.body) \in Nat
           /\ ix = Deployments[deployment].instructions[tx.body[pc]]
           /\ instruction_formed(ix, Deployments[deployment])
<1>1. tx # NoTx /\ pc \in DOMAIN tx.body /\ Transaction(deployment, tx, pc, leg, saved)
  BY DEF Running, TypeInv, Typing
<1>2. pc \in 1..Len(tx.body) /\ Len(tx.body) \in Nat /\ tx.body[pc] \in DOMAIN Deployments[deployment].instructions
  BY <1>1 DEF Transaction
<1>3. ix = Deployments[deployment].instructions[tx.body[pc]]
  BY DEF ix, at, Instructions
<1>4. instruction_formed(ix, Deployments[deployment])
  BY <1>2, <1>3, TheDeployment DEF deployment_formed
<1> QED
  BY <1>1, <1>2, <1>3, <1>4

\* The instructions of the body, by position.
LEMMA BodyFacts ==
    ASSUME RegistryInv, TypeInv, tx # NoTx, NEW j \in DOMAIN tx.body
    PROVE  instruction_formed(at(j), Deployments[deployment])
<1>1. Transaction(deployment, tx, pc, leg, saved)
  BY DEF TypeInv, Typing
<1>2. tx.body[j] \in DOMAIN Deployments[deployment].instructions
  BY <1>1 DEF Transaction
<1> QED
  BY <1>2, TheDeployment DEF deployment_formed, at, Instructions

\* The running leg carries a call.
LEMMA RunningLeg ==
    ASSUME RegistryInv, TypeInv, Running, ix.name \in Relays
    PROVE  /\ leg_formed(ix.legs[1], Deployments[deployment])
           /\ ix.name = "Manage" => leg_formed(ix.legs[leg], Deployments[deployment])
<1>1. Len(ix.legs) \in Nat \ {0} /\ \A n \in 1..Len(ix.legs) : leg_formed(ix.legs[n], Deployments[deployment])
  BY RunningFacts DEF instruction_formed
<1>2. leg_formed(ix.legs[1], Deployments[deployment])
  BY <1>1
<1>3. ix.name = "Manage" => leg \in 1..Len(ix.legs)
  <2>1. pc \in DOMAIN tx.body
    BY DEF Running
  <2> QED
    BY <2>1, RunningFacts DEF Transaction
<1> QED
  BY <1>1, <1>2, <1>3

\* Promoting a signer keeps metas metas.
LEMMA PromotedMetas ==
    ASSUME NEW metas \in Seq(MetaRecord), NEW sub
    PROVE  /\ promoted(metas, sub) \in Seq(MetaRecord) /\ Len(promoted(metas, sub)) = Len(metas)
           /\ DOMAIN promoted(metas, sub) = DOMAIN metas
           /\ \A i \in DOMAIN metas :
                /\ promoted(metas, sub)[i].key = metas[i].key
                /\ promoted(metas, sub)[i].is_writable = metas[i].is_writable
                /\ promoted(metas, sub)[i].is_signer => metas[i].is_signer \/ metas[i].key = sub
<1> DEFINE one(m) == [m EXCEPT !.is_signer = @ \/ m.key = sub]
<1>1. ASSUME NEW m \in MetaRecord
      PROVE  /\ one(m) \in MetaRecord /\ one(m).key = m.key /\ one(m).is_writable = m.is_writable
             /\ one(m).is_signer => m.is_signer \/ m.key = sub
  BY DEF MetaRecord
<1>2. promoted(metas, sub) = [i \in DOMAIN metas |-> one(metas[i])]
  BY DEF promoted
<1> HIDE DEF one
<1>3. \A i \in DOMAIN metas : metas[i] \in MetaRecord
  OBVIOUS
<1>4. DOMAIN metas = 1..Len(metas) /\ Len(metas) \in Nat
  OBVIOUS
<1>5. promoted(metas, sub) \in [1..Len(metas) -> MetaRecord]
  BY <1>1, <1>2, <1>3, <1>4
<1>6. promoted(metas, sub) \in Seq(MetaRecord) /\ Len(promoted(metas, sub)) = Len(metas)
  BY <1>4, <1>5
<1> QED
  BY <1>1, <1>2, <1>3, <1>6

\* The call a relay builds is fit for hashing and for invoking.
LEMMA RelayedCallFormed ==
    ASSUME RegistryInv, TypeInv, tx # NoTx, NEW ops, NEW l, leg_formed(l, Deployments[deployment])
    PROVE  well_formed(authorized_call(l, ops)) /\ Passed(authorized_call(l, ops))
<1> DEFINE call == authorized_call(l, ops)
<1>1. /\ call.program = l.call.program /\ call.metas = promoted(l.call.metas, l.sub)
      /\ call.data = l.call.data /\ call.siblings = load_required_siblings(ops)
  BY DEF authorized_call
<1>2. l.call.program \in Nat /\ l.call.metas \in Seq(MetaRecord) /\ Bytes(l.call.data)
  BY DEF leg_formed
<1>3. call.metas \in Seq(MetaRecord)
  BY <1>1, <1>2, PromotedMetas
<1>4. ASSUME NEW r \in DOMAIN load_required_siblings(ops)
      PROVE  /\ load_required_siblings(ops)[r].program \in Nat
             /\ Bytes(load_required_siblings(ops)[r].data)
             /\ load_required_siblings(ops)[r].accounts \in Seq(Nat)
  <2>1. pc + r \in DOMAIN tx.body
    BY DEF load_required_siblings, sibling_exists
  <2>2. instruction_formed(at(pc + r), Deployments[deployment])
    BY <2>1, BodyFacts
  <2>3. load_required_siblings(ops)[r] =
          [program |-> at(pc + r).program, data |-> at(pc + r).data, accounts |-> at(pc + r).accounts]
    BY DEF load_required_siblings
  <2> QED
    BY <2>2, <2>3 DEF instruction_formed
<1> HIDE DEF call
<1>5. well_formed(call)
  BY <1>1, <1>2, <1>3, <1>4 DEF well_formed
<1>6. Passed(call)
  BY <1>1, <1>2, <1>3 DEF Passed, Bytes
<1> QED
  BY <1>5, <1>6 DEF call

\* The token accounts a transaction begins with are typed.
LEMMA InitialAccounts ==
    ASSUME RegistryInv
    PROVE  InitialTokens \in [TokenKeys -> Account]
BY TheDeployment DEF deployment_formed, InitialTokens, TokenKeys, Account

\* So are the ones a running transaction sees.
LEMMA CurrentAccounts ==
    ASSUME TypeInv
    PROVE  tokens \in [TokenKeys -> Account]
BY DEF TypeInv, Typing, TokenKeys, InitialTokens

\* Going on with the next instruction.
LEMMA AdvanceTyped ==
    ASSUME RegistryInv, TypeInv, Running, Advance, tokens' \in [TokenKeys -> Account]
    PROVE  TypeInv'
<1>1. /\ tx # NoTx /\ Transaction(deployment, tx, pc, leg, saved)
      /\ pc \in 1..Len(tx.body) /\ Len(tx.body) \in Nat
  BY RunningFacts
<1>2. /\ pc' = pc + 1 /\ leg' = 1 /\ tx' = tx /\ saved' = saved /\ deployment' = deployment
      /\ strategist' = strategist /\ swap_authority' = swap_authority /\ manage_paused' = manage_paused
  BY DEF Advance, registry_vars
<1>3. Transaction(deployment, tx, pc + 1, 1, saved)
  <2>1. pc + 1 \in 1..(Len(tx.body) + 1)
    BY <1>1
  <2>2. ASSUME pc + 1 \in DOMAIN tx.body,
               Deployments[deployment].instructions[tx.body[pc + 1]].name = "Manage"
        PROVE  1 \in 1..Len(Deployments[deployment].instructions[tx.body[pc + 1]].legs)
    <3>1. instruction_formed(Deployments[deployment].instructions[tx.body[pc + 1]], Deployments[deployment])
      BY <1>1, <2>2, BodyFacts DEF at, Instructions
    <3>2. Len(Deployments[deployment].instructions[tx.body[pc + 1]].legs) \in Nat \ {0}
      BY <2>2, <3>1 DEF instruction_formed, Relays
    <3> QED
      <4> DEFINE n == Len(Deployments[deployment].instructions[tx.body[pc + 1]].legs)
      <4> HIDE DEF n
      <4>1. n \in Nat \ {0}
        BY <3>2 DEF n
      <4>2. 1 \in 1..n
        BY <4>1
      <4> QED
        BY <4>2 DEF n
  <2> QED
    BY <1>1, <2>1, <2>2 DEF Transaction
<1>4. Roles(deployment, strategist, swap_authority, manage_paused)
  BY DEF TypeInv
<1>5. Typing(deployment', tokens', tx', pc', leg', saved')
  BY <1>2, <1>3 DEF Typing, TokenKeys, InitialTokens
<1>6. Roles(deployment', strategist', swap_authority', manage_paused')
  BY <1>2, <1>4
<1> QED
  BY <1>5, <1>6 DEF TypeInv

\* One leg of a batch, or its last.
LEMMA ManageTyped ==
    ASSUME RegistryInv, TypeInv, Manage
    PROVE  TypeInv' /\ tokens' \in [TokenKeys -> Account]
<1>1. Running /\ ix.name = "Manage" /\ next_leg
  BY DEF Manage
<1>2. tx # NoTx /\ deployment \in DOMAIN Deployments /\ tokens \in [TokenKeys -> Account]
  BY <1>1, RunningFacts, TheDeployment, CurrentAccounts
<1>3. leg_formed(ix.legs[leg], Deployments[deployment])
  BY <1>1, RunningLeg DEF Relays
<1>4. PICK a : tokens' \in invoke_authorized_cpi(tokens, authorized_call(ix.legs[leg], a.ops))
  BY DEF Manage
<1>5. Passed(authorized_call(ix.legs[leg], a.ops))
  BY <1>2, <1>3, RelayedCallFormed
<1>6. tokens' \in [TokenKeys -> Account]
  BY <1>2, <1>4, <1>5, InvokeFacts
<1>7. CASE leg < Len(ix.legs)
  <2>1. /\ leg' = leg + 1 /\ pc' = pc /\ tx' = tx /\ saved' = saved /\ deployment' = deployment
        /\ strategist' = strategist /\ swap_authority' = swap_authority /\ manage_paused' = manage_paused
    BY <1>1, <1>7 DEF next_leg, registry_vars
  <2>2. /\ Transaction(deployment, tx, pc, leg, saved) /\ pc \in DOMAIN tx.body
        /\ ix = Deployments[deployment].instructions[tx.body[pc]]
    BY <1>1, RunningFacts DEF Running
  <2>3. Len(ix.legs) \in Nat /\ leg \in 1..Len(ix.legs)
    <3>1. Len(ix.legs) \in Nat
      BY <1>1, RunningFacts DEF instruction_formed, Relays
    <3>2. leg \in 1..Len(ix.legs)
      BY <1>1, <2>2 DEF Transaction
    <3> QED
      BY <3>1, <3>2
  <2>4. leg + 1 \in 1..Len(ix.legs)
    BY <1>7, <2>3
  <2>5. Transaction(deployment, tx, pc, leg + 1, saved)
    BY <2>2, <2>4 DEF Transaction
  <2>6. Typing(deployment', tokens', tx', pc', leg', saved')
    BY <1>6, <2>1, <2>5 DEF Typing, TokenKeys, InitialTokens
  <2>7. Roles(deployment', strategist', swap_authority', manage_paused')
    BY <2>1 DEF TypeInv
  <2> QED
    BY <1>6, <2>6, <2>7 DEF TypeInv
<1>8. CASE ~(leg < Len(ix.legs))
  <2>1. Advance
    BY <1>1, <1>8 DEF next_leg
  <2> QED
    BY <1>1, <1>6, <2>1, AdvanceTyped
<1> QED
  BY <1>7, <1>8

\* A swap.
LEMMA SwapTyped ==
    ASSUME RegistryInv, TypeInv, Swap
    PROVE  TypeInv' /\ tokens' \in [TokenKeys -> Account]
<1>1. Running /\ ix.name \in Relays /\ Advance
  BY DEF Swap, Relays
<1>2. tx # NoTx /\ deployment \in DOMAIN Deployments /\ tokens \in [TokenKeys -> Account]
  BY <1>1, RunningFacts, TheDeployment, CurrentAccounts
<1>3. leg_formed(ix.legs[1], Deployments[deployment])
  BY <1>1, RunningLeg
<1>4. PICK a : tokens' \in invoke_authorized_cpi(tokens, authorized_call(ix.legs[1], a.ops))
  BY DEF Swap
<1>5. Passed(authorized_call(ix.legs[1], a.ops))
  BY <1>2, <1>3, RelayedCallFormed
<1>6. tokens' \in [TokenKeys -> Account]
  BY <1>2, <1>4, <1>5, InvokeFacts
<1> QED
  BY <1>1, <1>6, AdvanceTyped

\* What a redemption did: the unwind left `post', the payout then moved balances.
UnwindOutcome(l, a, call, post) ==
    /\ a.scope = "AtomicRedeem" /\ validate_authorized_cpi(l, a, ix)
    /\ require_writable_metas_bound(call, a.ops)
    /\ post \in invoke_authorized_cpi(tokens, call)
    /\ post \in [TokenKeys -> Account] /\ OnlyBalances(post, tokens')
    /\ flow' = with_spending(flow, post)

\* Every redemption is of that kind.
LEMMA UnwindHasOutcome ==
    ASSUME RegistryInv, TypeInv, AtomicRedeem
    PROVE  /\ Running /\ ix.name = "AtomicRedeem" /\ Advance
           /\ \E a \in stored_action(ix.legs[1].template) : \E post :
                UnwindOutcome(ix.legs[1], a, authorized_call(ix.legs[1], a.ops), post)
<1> DEFINE l == ix.legs[1]
<1>1. Running /\ ix.name = "AtomicRedeem" /\ Advance
  BY DEF AtomicRedeem
<1>2. tx # NoTx /\ deployment \in DOMAIN Deployments /\ tokens \in [TokenKeys -> Account]
  BY <1>1, RunningFacts, TheDeployment, CurrentAccounts
<1>3. leg_formed(l, Deployments[deployment]) /\ ix.custody \in TokenKeys /\ ix.recipient \in TokenKeys
  BY <1>1, RunningLeg, RunningFacts DEF Relays, instruction_formed, TokenKeys, InitialTokens
<1>4. PICK a \in stored_action(l.template) :
        LET call == authorized_call(l, a.ops)
        IN  /\ a.scope = "AtomicRedeem" /\ validate_authorized_cpi(l, a, ix)
            /\ require_writable_metas_bound(call, a.ops)
            /\ \E post \in invoke_authorized_cpi(tokens, call) :
                 /\ \E payout \in 0..post[ix.custody].amount - tokens[ix.custody].amount :
                      tokens' = transfer_signed(post, ix.custody, ix.recipient, payout)
                 /\ flow' = with_spending(flow, post)
  BY DEF AtomicRedeem
<1> DEFINE call == authorized_call(l, a.ops)
<1>5. PICK post \in invoke_authorized_cpi(tokens, call) :
        /\ \E payout \in 0..post[ix.custody].amount - tokens[ix.custody].amount :
             tokens' = transfer_signed(post, ix.custody, ix.recipient, payout)
        /\ flow' = with_spending(flow, post)
  BY <1>4
<1>6. PICK payout \in 0..post[ix.custody].amount - tokens[ix.custody].amount :
        tokens' = transfer_signed(post, ix.custody, ix.recipient, payout)
  BY <1>5
<1>7. Passed(call)
  BY <1>2, <1>3, RelayedCallFormed
<1> HIDE DEF l, call
<1>8. post \in [TokenKeys -> Account]
  BY <1>2, <1>7, InvokeFacts
<1>9. payout \in Nat /\ payout <= post[ix.custody].amount
  <2>1. post[ix.custody].amount \in Nat /\ tokens[ix.custody].amount \in Nat
    BY <1>2, <1>3, <1>8 DEF Account, TokenAccountRecord
  <2> QED
    BY <1>6, <2>1
<1>10. OnlyBalances(post, tokens')
  <2>1. OnlyBalances(post, transfer_signed(post, ix.custody, ix.recipient, payout))
    BY <1>3, <1>8, <1>9, TransferFacts
  <2> QED
    BY <1>6, <2>1, Zenon
<1>11. UnwindOutcome(l, a, call, post)
  BY <1>4, <1>5, <1>8, <1>10 DEF UnwindOutcome, call
<1> QED
  BY <1>1, <1>4, <1>11 DEF l, call

\* The deposit, before the call it is deployed with.
Deposited == [tokens EXCEPT ![BaseCustody] = spl_credit(@, ix.amount)]

\* A deposit raises a balance and changes nothing else.
LEMMA DepositedFacts ==
    ASSUME RegistryInv, TypeInv, Running, ix.name = "DepositAndDeploy"
    PROVE  /\ BaseCustody \in TokenKeys /\ tokens[BaseCustody].amount \in Nat /\ ix.amount \in Nat
           /\ Deposited \in [TokenKeys -> Account]
           /\ \A k \in TokenKeys : \E n \in Nat :
                tokens[k].amount <= n /\ Deposited[k] = [tokens[k] EXCEPT !.amount = n]
<1>1. tokens \in [TokenKeys -> Account] /\ BaseCustody \in TokenKeys /\ ix.amount \in Nat
  BY RunningFacts, TheDeployment, CurrentAccounts DEF deployment_formed, TokenKeys, InitialTokens, instruction_formed
<1>2. \A k \in TokenKeys : tokens[k] \in Account /\ tokens[k].amount \in Nat
  BY <1>1 DEF Account, TokenAccountRecord
<1> DEFINE n == tokens[BaseCustody].amount + ix.amount
<1>3. n \in Nat /\ tokens[BaseCustody].amount <= n
  BY <1>1, <1>2
<1>4. Deposited = [tokens EXCEPT ![BaseCustody] = [tokens[BaseCustody] EXCEPT !.amount = n]]
  BY <1>1 DEF Deposited, spl_credit
<1> HIDE DEF n
<1>5. [tokens[BaseCustody] EXCEPT !.amount = n] \in Account
  BY <1>1, <1>2, <1>3 DEF Account, TokenAccountRecord
<1>6. \A k \in TokenKeys : tokens[k] = [tokens[k] EXCEPT !.amount = tokens[k].amount]
  BY <1>2 DEF Account, TokenAccountRecord
<1>7. /\ Deposited \in [TokenKeys -> Account]
      /\ Deposited[BaseCustody] = [tokens[BaseCustody] EXCEPT !.amount = n]
      /\ \A k \in TokenKeys : k # BaseCustody => Deposited[k] = tokens[k]
  BY <1>1, <1>4, <1>5
<1>8. ASSUME NEW k \in TokenKeys
      PROVE  \E m \in Nat : tokens[k].amount <= m /\ Deposited[k] = [tokens[k] EXCEPT !.amount = m]
  <2>1. CASE k = BaseCustody
    BY <1>3, <1>7, <2>1
  <2>2. CASE k # BaseCustody
    <3>1. tokens[k].amount \in Nat /\ tokens[k].amount <= tokens[k].amount
      BY <1>2
    <3>2. Deposited[k] = [tokens[k] EXCEPT !.amount = tokens[k].amount]
      BY <1>6, <1>7, <2>2, Zenon
    <3> QED
      BY <3>1, <3>2, Zenon
  <2> QED
    BY <2>1, <2>2
<1> QED
  BY <1>1, <1>2, <1>7, <1>8

\* What a deposit that deploys itself did.
DeployOutcome(l, a, call) ==
    /\ a.scope = "Deploy" /\ deploy_amount_matches(call.data, a, ix.amount)
    /\ validate_authorized_cpi(l, a, ix)
    /\ scan_ok(Deposited, call, l.sub)
    /\ tokens' \in invoke_authorized_cpi(Deposited, call)
    /\ reverify_subaccount_custody_except(scan_subaccount_custody(Deposited, call, l.sub), tokens', l.sub, {})
    /\ flow' = with_spending(flow, tokens')
    /\ relayed' = {[action |-> a, call |-> call, signer |-> tx.signer]}

\* Every such deposit did.
LEMMA DeployHasOutcome ==
    ASSUME RegistryInv, TypeInv, DepositAndDeploy
    PROVE  /\ Running /\ ix.name = "DepositAndDeploy" /\ Advance
           /\ tokens' \in [TokenKeys -> Account]
           /\ \E a \in stored_action(ix.legs[1].template) :
                DeployOutcome(ix.legs[1], a, authorized_call(ix.legs[1], a.ops))
<1> DEFINE l == ix.legs[1]
<1>1. Running /\ ix.name = "DepositAndDeploy" /\ Advance
  BY DEF DepositAndDeploy
<1>2. tx # NoTx /\ deployment \in DOMAIN Deployments /\ leg_formed(l, Deployments[deployment])
  BY <1>1, RunningFacts, RunningLeg, TheDeployment DEF Relays
<1>3. PICK a \in stored_action(l.template) : DeployOutcome(l, a, authorized_call(l, a.ops))
  BY DEF DepositAndDeploy, DeployOutcome, Deposited, record_relay
<1> DEFINE call == authorized_call(l, a.ops)
<1>4. Passed(call)
  BY <1>2, RelayedCallFormed
<1>5. Deposited \in [TokenKeys -> Account]
  BY <1>1, DepositedFacts
<1>6. tokens' \in invoke_authorized_cpi(Deposited, call)
  BY <1>3 DEF DeployOutcome
<1> HIDE DEF call
<1>7. tokens' \in [TokenKeys -> Account]
  BY <1>2, <1>4, <1>5, <1>6, InvokeFacts
<1> QED
  BY <1>1, <1>3, <1>7

\* Every stored action is a pattern of the admin's.
LEMMA StoredFacts ==
    ASSUME RegistryInv, NEW a \in actions
    PROVE  \E u \in DOMAIN Templates :
             /\ a.action_hash = TemplateHash[deployment][u] /\ a.ops = Templates[u].ops
             /\ a.scope = Templates[u].scope /\ a.amount_offset = Templates[u].amount_offset
             /\ a.fee \in FeeRates /\ template_formed(Templates[u])
<1>1. PICK u \in DOMAIN Deployments[deployment].templates, rate \in Deployments[deployment].fee_rates :
        a = ActionOf(deployment, u, rate)
  BY DEF RegistryInv, Registry
<1>2. template_formed(Templates[u])
  BY TheDeployment DEF deployment_formed, Templates
<1>3. /\ a.action_hash = TemplateHash[deployment][u] /\ a.ops = Templates[u].ops
      /\ a.scope = Templates[u].scope /\ a.amount_offset = Templates[u].amount_offset
      /\ a.fee = rate
  BY <1>1 DEF ActionOf, Templates
<1> QED
  BY <1>2, <1>3 DEF Templates, FeeRates

\* The call of such a deposit asks the venue for the deposit and no more.
LEMMA DeployAsksForTheDeposit ==
    ASSUME RegistryInv, TypeInv, Running, ix.name = "DepositAndDeploy", NEW call, call.data \in Seq(Nat),
           NEW a \in actions, a.scope = "Deploy", deploy_amount_matches(call.data, a, ix.amount)
    PROVE  call.data[2] = ix.amount
<1> DEFINE data == call.data
<1>1. decode_withdrawal_amount(data, a) = {ix.amount}
  BY DEF deploy_amount_matches
<1>2. a.amount_offset = 1
  <2>1. PICK u \in DOMAIN Templates : a.scope = Templates[u].scope /\ a.amount_offset = Templates[u].amount_offset
    BY StoredFacts
  <2> QED
    BY <2>1, TheDeployment, VenueAssumption DEF Templates
<1>3. 1 < Len(data)
  <2>1. decode_withdrawal_amount(data, a) # {}
    BY <1>1
  <2> QED
    BY <1>2, <2>1 DEF decode_withdrawal_amount
<1>4. decode_withdrawal_amount(data, a) = {data[1 + 1]} /\ 1 + 1 = 2
  BY <1>2, <1>3 DEF decode_withdrawal_amount
<1> QED
  BY <1>1, <1>4

\* What the external instructions do to the account they name.
LEMMA ExternalFacts ==
    ASSUME RegistryInv, TypeInv, FlashBorrow \/ DelegateSpend
    PROVE  LET k == ix.accounts[1]
           IN  /\ Running /\ Advance /\ k \in TokenKeys
               /\ \E b \in Account : /\ tokens' = [tokens EXCEPT ![k] = b]
                                     /\ live(tokens[k]) => ControlKept(tokens[k], b)
<1> DEFINE k == ix.accounts[1]
<1>1. Running /\ Advance /\ ix.name \notin Relays
  BY DEF FlashBorrow, DelegateSpend, Relays
<1>2. deployment \in DOMAIN Deployments /\ tokens \in [TokenKeys -> Account]
  BY TheDeployment, CurrentAccounts
<1>3. k \in TokenKeys
  BY <1>1, RunningFacts DEF instruction_formed, TokenKeys, InitialTokens
<1>4. tokens[k] \in Account
  BY <1>2, <1>3
<1>5. CASE FlashBorrow
  <2> DEFINE paid == IF ix.lends THEN ix.data[2] ELSE 0
  <2>1. /\ tokens[k].amount + paid \in Amounts
        /\ tokens' = [tokens EXCEPT ![k] = spl_credit(@, paid)]
    BY <1>5 DEF FlashBorrow
  <2>2. tokens[k].amount + paid \in Nat
    BY <1>2, <2>1, AmountsAreNaturals
  <2>3. spl_credit(tokens[k], paid) = [tokens[k] EXCEPT !.amount = tokens[k].amount + paid]
    BY DEF spl_credit
  <2> HIDE DEF paid
  <2>4. spl_credit(tokens[k], paid) \in Account /\ (live(tokens[k]) => ControlKept(tokens[k], spl_credit(tokens[k], paid)))
    BY <1>4, <2>2, <2>3, AmountMoves
  <2>5. tokens' = [tokens EXCEPT ![k] = spl_credit(tokens[k], paid)]
    BY <1>2, <2>1
  <2> QED
    BY <1>1, <1>3, <2>4, <2>5
<1>6. CASE DelegateSpend
  <2>1. PICK n \in Amounts : /\ n <= tokens[k].delegated_amount /\ n <= tokens[k].amount
                             /\ tokens' = [tokens EXCEPT ![k] = spl_delegate_debit(@, n)]
    BY <1>6 DEF DelegateSpend
  <2>2. n \in Nat
    BY <1>2, AmountsAreNaturals
  <2>3. /\ spl_delegate_debit(tokens[k], n) \in Account
        /\ live(tokens[k]) => ControlKept(tokens[k], spl_delegate_debit(tokens[k], n))
    BY <1>4, <2>1, <2>2, DelegateMoves
  <2>4. tokens' = [tokens EXCEPT ![k] = spl_delegate_debit(tokens[k], n)]
    BY <1>2, <2>1
  <2> QED
    BY <1>1, <1>3, <2>3, <2>4
<1> QED
  BY <1>5, <1>6

\* Every instruction leaves typed token accounts.
LEMMA InstructionTyped ==
    ASSUME RegistryInv, TypeInv,
           Manage \/ Swap \/ DepositAndDeploy \/ AtomicRedeem \/ AssertDelegateCleared
             \/ FlashBorrow \/ DelegateSpend
    PROVE  TypeInv' /\ tokens' \in [TokenKeys -> Account]
<1>1. tokens \in [TokenKeys -> Account]
  BY CurrentAccounts
<1>2. CASE Manage
  BY <1>2, ManageTyped
<1>3. CASE Swap
  BY <1>3, SwapTyped
<1>4. CASE DepositAndDeploy \/ AtomicRedeem
  <2>1. Running /\ Advance /\ tokens' \in [TokenKeys -> Account]
    BY <1>4, DeployHasOutcome, UnwindHasOutcome DEF UnwindOutcome, OnlyBalances
  <2> QED
    BY <2>1, AdvanceTyped
<1>5. CASE AssertDelegateCleared
  <2>1. Running /\ Advance /\ tokens' = tokens
    BY <1>5 DEF AssertDelegateCleared
  <2>2. tokens' \in [TokenKeys -> Account]
    BY <1>1, <2>1
  <2> QED
    BY <2>1, <2>2, AdvanceTyped
<1>6. CASE FlashBorrow \/ DelegateSpend
  <2>1. Running /\ Advance
    BY <1>6, ExternalFacts
  <2>2. tokens' \in [TokenKeys -> Account]
    BY <1>1, <1>6, ExternalFacts
  <2> QED
    BY <2>1, <2>2, AdvanceTyped
<1> QED
  BY <1>2, <1>3, <1>4, <1>5, <1>6

\* Bodies are lists of instructions.
LEMMA BodyOfBodies ==
    ASSUME RegistryInv, NEW body \in Bodies
    PROVE  /\ Len(body) \in Nat \ {0} /\ DOMAIN body = 1..Len(body)
           /\ \A i \in DOMAIN body : body[i] \in DOMAIN Deployments[deployment].instructions
<1>1. MaxBody \in Nat
  BY TheDeployment DEF deployment_formed, MaxBody
<1>2. PICK n \in 1..MaxBody : body \in [1..n -> DOMAIN Instructions]
  BY DEF Bodies
<1>3. n \in Nat \ {0}
  BY <1>1, <1>2
<1>4. body \in Seq(DOMAIN Instructions) /\ Len(body) = n
  BY <1>2, <1>3
<1> QED
  BY <1>2, <1>3, <1>4 DEF Instructions

\* Types hold to begin with.
LEMMA TypeInit ==
    ASSUME Init
    PROVE  TypeInv
<1>1. RegistryInv
  BY RegistryInit
<1>2. Roles(deployment, strategist, swap_authority, manage_paused)
  BY DEF Init, Roles, Wallets
<1>3. Typing(deployment, tokens, tx, pc, leg, saved)
  BY <1>1, InitialAccounts DEF Init, Typing, TokenKeys, InitialTokens
<1> QED
  BY <1>2, <1>3 DEF TypeInv

\* And are kept.
LEMMA TypeInductive ==
    ASSUME RegistryInv, TypeInv, [Next]_vars
    PROVE  TypeInv'
<1>1. /\ Roles(deployment, strategist, swap_authority, manage_paused)
      /\ Typing(deployment, tokens, tx, pc, leg, saved)
  BY DEF TypeInv
<1>2. ASSUME Roles(deployment', strategist', swap_authority', manage_paused'),
             deployment' = deployment, UNCHANGED tx_vars
      PROVE  TypeInv'
  <2>1. tokens' = tokens /\ tx' = tx /\ pc' = pc /\ leg' = leg /\ saved' = saved
    BY <1>2 DEF tx_vars
  <2>2. Typing(deployment', tokens', tx', pc', leg', saved')
    BY <1>1, <1>2, <2>1
  <2> QED
    BY <1>2, <2>2 DEF TypeInv
<1>3. ASSUME RegistryStep PROVE TypeInv'
  <2>1. ASSUME deployment' = deployment, strategist' = strategist, swap_authority' = swap_authority,
               manage_paused' = manage_paused
        PROVE  Roles(deployment', strategist', swap_authority', manage_paused')
    BY <1>1, <2>1
  <2>2. CASE \E t \in DOMAIN Templates, rate \in FeeRates :
               \/ AuthorizeAction(t, rate) \/ RevokeAction(t)
               \/ AdminSetFlashFeeRate(t, rate) \/ StrategistLowerFlashFeeRate(t, rate)
    BY <1>2, <2>1, <2>2 DEF AuthorizeAction, RevokeAction, AdminSetFlashFeeRate,
       StrategistLowerFlashFeeRate, update_action_flash_fee
  <2>3. CASE \E t \in DOMAIN Templates : RevokeAction(t)
    BY <1>2, <2>1, <2>3 DEF RevokeAction
  <2>4. CASE \E w \in Wallets : SetStrategist(w)
    <3>1. /\ deployment' = deployment /\ strategist' \in Wallets /\ swap_authority' = swap_authority
          /\ manage_paused' = manage_paused /\ UNCHANGED tx_vars
      BY <2>4 DEF SetStrategist
    <3>2. Roles(deployment', strategist', swap_authority', manage_paused')
      BY <1>1, <3>1 DEF Roles, Wallets
    <3> QED
      BY <1>2, <3>1, <3>2
  <2>5. CASE \E p \in PauseSettings : SetManagePaused(p)
    <3>1. PICK p \in PauseSettings : SetManagePaused(p)
      BY <2>5
    <3>2. p \in BOOLEAN
      BY TheDeployment DEF deployment_formed, PauseSettings
    <3>3. /\ deployment' = deployment /\ strategist' = strategist /\ swap_authority' = swap_authority
          /\ manage_paused' = p /\ UNCHANGED tx_vars
      BY <3>1 DEF SetManagePaused
    <3>4. Roles(deployment', strategist', swap_authority', manage_paused')
      BY <1>1, <3>2, <3>3 DEF Roles
    <3> QED
      BY <1>2, <3>3, <3>4
  <2> QED
    BY <1>3, <2>2, <2>3, <2>4, <2>5 DEF RegistryStep
<1>4. ASSUME TransactionStep PROVE TypeInv'
  <2>1. /\ deployment' = deployment
        /\ Roles(deployment', strategist', swap_authority', manage_paused')
    BY <1>1, <1>4, TransactionsLeaveTheRegistry
  <2>2. ASSUME NEW signer \in Wallets, NEW body \in Bodies, Begin(signer, body) PROVE TypeInv'
    <3>1. /\ tx' = [signer |-> signer, body |-> body] /\ pc' = 1 /\ leg' = 1
          /\ saved' = tokens /\ tokens' = tokens
      BY <2>2 DEF Begin
    <3>2. /\ Len(body) \in Nat \ {0} /\ DOMAIN body = 1..Len(body)
          /\ \A i \in DOMAIN body : body[i] \in DOMAIN Deployments[deployment].instructions
      BY BodyOfBodies
    <3>3. ASSUME 1 \in DOMAIN body, Deployments[deployment].instructions[body[1]].name = "Manage"
          PROVE  1 \in 1..Len(Deployments[deployment].instructions[body[1]].legs)
      <4>1. instruction_formed(Deployments[deployment].instructions[body[1]], Deployments[deployment])
        BY <3>2, <3>3, TheDeployment DEF deployment_formed
      <4>2. Len(Deployments[deployment].instructions[body[1]].legs) \in Nat \ {0}
        BY <3>3, <4>1 DEF instruction_formed, Relays
      <4> QED
        BY <4>2
    <3>4. tx'.signer = signer /\ tx'.body = body
      BY <3>1
    <3>5. 1 \in 1..(Len(body) + 1) /\ signer \in Deployments[deployment].wallets
      BY <3>2 DEF Wallets
    <3>6. tokens \in [DOMAIN Deployments[deployment].tokens -> Account]
      BY <1>1 DEF Typing
    <3>7. Transaction(deployment, tx', 1, 1, tokens)
      BY <3>2, <3>3, <3>4, <3>5, <3>6 DEF Transaction
    <3>8. Typing(deployment', tokens', tx', pc', leg', saved')
      BY <2>1, <3>1, <3>6, <3>7 DEF Typing
    <3> QED
      BY <2>1, <3>8 DEF TypeInv
  <2>3. ASSUME Commit \/ Abort PROVE TypeInv'
    <3>1. tx' = NoTx /\ (tokens' = tokens \/ tokens' = saved) /\ tx # NoTx
      BY <2>3 DEF Commit, Abort, Finished
    <3>2. tokens' \in [DOMAIN Deployments[deployment].tokens -> Account]
      BY <1>1, <3>1 DEF Typing, Transaction
    <3>3. Typing(deployment', tokens', tx', pc', leg', saved')
      BY <2>1, <3>1, <3>2 DEF Typing
    <3> QED
      BY <2>1, <3>3 DEF TypeInv
  <2> QED
    BY <1>4, <2>2, <2>3, InstructionTyped DEF TransactionStep
<1>5. ASSUME UNCHANGED vars PROVE TypeInv'
  BY <1>1, <1>2, <1>5 DEF vars, registry_vars
<1> QED
  BY <1>3, <1>4, <1>5 DEF Next

\* The invariant gives the types the runs check.
LEMMA InvariantTypes ==
    ASSUME RegistryInv, TypeInv
    PROVE  ExecutionTypeOK
<1>1. ASSUME NEW a \in actions PROVE a.scope \in ActionScopes /\ a.fee \in FeeRates
  BY StoredFacts DEF template_formed
<1>2. strategist \in Wallets /\ swap_authority \in Wallets /\ manage_paused \in BOOLEAN
  BY DEF TypeInv, Roles, Wallets
<1>3. tokens \in [TokenKeys -> TokenAccountRecord(Nat, DOMAIN Price, Nat)]
  BY CurrentAccounts DEF Account
<1>4. tx = NoTx \/ (tx.signer \in Wallets /\ pc \in 1..Len(tx.body) + 1)
  BY DEF TypeInv, Typing, Transaction, Wallets
<1>5. ASSUME Running, ix.name = "Manage" PROVE leg \in 1..Len(ix.legs)
  BY <1>5, RunningFacts DEF Transaction, Running
<1> QED
  BY <1>1, <1>2, <1>3, <1>4, <1>5 DEF ExecutionTypeOK

(***************************************************************************)
(* Values stay in their sets whatever venues, lenders and delegates do,    *)
(* and a batch never runs past its last action (ManageBatch).              *)
(***************************************************************************)
THEOREM ExecutionTypeCorrect == Spec => []ExecutionTypeOK
<1>1. Init => RegistryInv /\ TypeInv
  BY RegistryInit, TypeInit
<1>2. RegistryInv /\ TypeInv /\ [Next]_vars => RegistryInv' /\ TypeInv'
  BY RegistryInductive, TypeInductive
<1>3. RegistryInv /\ TypeInv => ExecutionTypeOK
  BY InvariantTypes
<1> QED
  BY <1>1, <1>2, <1>3, PTL DEF Spec

-----------------------------------------------------------------------------
(* Deposits that deploy themselves.                                          *)

\* Only DepositAndDeploy moves on from a DepositAndDeploy instruction.
LEMMA OnlyDeployAdvances ==
    ASSUME RegistryInv, TypeInv, [Next]_vars, Running, ix.name = "DepositAndDeploy", pc' = pc + 1
    PROVE  DepositAndDeploy
<1>1. tx # NoTx /\ pc \in Nat \ {0}
  BY RunningFacts
<1>2. ~RegistryStep
  BY <1>1 DEF RegistryStep, AuthorizeAction, RevokeAction, AdminSetFlashFeeRate, StrategistLowerFlashFeeRate,
     update_action_flash_fee, SetStrategist, SetManagePaused
<1>3. pc' # 0 /\ pc' # pc
  BY <1>1
<1>4. \A signer, body : ~Begin(signer, body)
  BY <1>1 DEF Begin
<1>5. ~Commit /\ ~Abort
  BY <1>3 DEF Commit, Abort
<1>6. ~Manage /\ ~Swap /\ ~AtomicRedeem /\ ~AssertDelegateCleared /\ ~FlashBorrow /\ ~DelegateSpend
  BY DEF Manage, Swap, AtomicRedeem, AssertDelegateCleared, FlashBorrow, DelegateSpend
<1>7. ~UNCHANGED vars
  BY <1>3 DEF vars, tx_vars
<1> QED
  BY <1>2, <1>4, <1>5, <1>6, <1>7 DEF Next, TransactionStep

(***************************************************************************)
(* Whatever pattern, data and amounts a public caller picks, a deposit     *)
(* that deploys itself takes no base that was idle before it, so long as   *)
(* the venue takes no more than the call asks for (the amount check of     *)
(* try_deposit_and_deploy).                                                *)
(***************************************************************************)
THEOREM DeploysTakeNothingElse == Spec => DeployMovesOnlyTheDeposit
<1>1. Init => RegistryInv /\ TypeInv
  BY RegistryInit, TypeInit
<1>2. RegistryInv /\ TypeInv /\ [Next]_vars => RegistryInv' /\ TypeInv'
  BY RegistryInductive, TypeInductive
<1>3. RegistryInv /\ TypeInv /\ [Next]_vars =>
        [(/\ Running /\ ix.name = "DepositAndDeploy" /\ pc' = pc + 1
          /\ \A r \in relayed' :
               tokens[BaseCustody].amount + ix.amount - tokens'[BaseCustody].amount <= r.call.data[2]) =>
            tokens'[BaseCustody].amount >= tokens[BaseCustody].amount]_vars
  <2> SUFFICES ASSUME RegistryInv, TypeInv, [Next]_vars,
                      Running, ix.name = "DepositAndDeploy", pc' = pc + 1,
                      \A r \in relayed' :
                        tokens[BaseCustody].amount + ix.amount - tokens'[BaseCustody].amount <= r.call.data[2]
               PROVE  tokens'[BaseCustody].amount >= tokens[BaseCustody].amount
    OBVIOUS
  <2>1. DepositAndDeploy
    BY OnlyDeployAdvances
  <2>2. /\ BaseCustody \in TokenKeys /\ tokens[BaseCustody].amount \in Nat /\ ix.amount \in Nat
        /\ tokens' \in [TokenKeys -> Account]
    BY <2>1, DeployHasOutcome, DepositedFacts
  <2> DEFINE l == ix.legs[1]
  <2>3. PICK a \in stored_action(l.template) : DeployOutcome(l, a, authorized_call(l, a.ops))
    BY <2>1, DeployHasOutcome
  <2> DEFINE call == authorized_call(l, a.ops)
  <2>4. Passed(call)
    BY RunningFacts, RunningLeg, RelayedCallFormed DEF Relays
  <2>5. a \in actions /\ a.scope = "Deploy" /\ deploy_amount_matches(call.data, a, ix.amount)
    BY <2>3 DEF stored_action, DeployOutcome
  <2>6. relayed' = {[action |-> a, call |-> call, signer |-> tx.signer]}
    BY <2>3 DEF DeployOutcome
  <2> HIDE DEF call, l
  <2>7. call.data[2] = ix.amount
    BY <2>4, <2>5, DeployAsksForTheDeposit DEF Passed
  <2>8. tokens[BaseCustody].amount + ix.amount - tokens'[BaseCustody].amount <= ix.amount
    BY <2>6, <2>7
  <2>9. tokens'[BaseCustody].amount \in Nat
    BY <2>2 DEF Account, TokenAccountRecord
  <2> QED
    BY <2>2, <2>8, <2>9
<1> QED
  BY <1>1, <1>2, <1>3, PTL DEF Spec, DeployMovesOnlyTheDeposit

-----------------------------------------------------------------------------
(* Relays.                                                                   *)

\* A relay that passes validation is an instance of the pattern its action was stored for.
Instance(u, call) ==
    LET t == Templates[u]
    IN  /\ t.call.program = call.program /\ template_formed(t)
        /\ \A i \in DOMAIN t.ops : SameThrough(t.ops[i], t.call, call)

\* The hash sees to it.
LEMMA ValidatedIsInstance ==
    ASSUME RegistryInv, TypeInv, tx # NoTx, NEW l, leg_formed(l, Deployments[deployment]),
           NEW a \in actions, validate_authorized_cpi(l, a, ix)
    PROVE  \E u \in DOMAIN Templates :
             /\ a.action_hash = TemplateHash[deployment][u]
             /\ a.scope = Templates[u].scope /\ a.ops = Templates[u].ops
             /\ Instance(u, authorized_call(l, a.ops))
<1> DEFINE call == authorized_call(l, a.ops)
<1>1. PICK u \in DOMAIN Templates :
        /\ a.action_hash = TemplateHash[deployment][u] /\ a.ops = Templates[u].ops
        /\ a.scope = Templates[u].scope /\ template_formed(Templates[u])
  BY StoredFacts
<1> DEFINE ops == Templates[u].ops
           mine == Templates[u].call
<1>2. ops \in Seq(ActionOps) /\ well_formed(mine) /\ hashable(ops, mine)
  BY <1>1 DEF template_formed
<1>3. well_formed(call)
  BY RelayedCallFormed
<1>4. hashable(ops, call) /\ compute_action_hash_from_metas(ops, call) = a.action_hash
  BY <1>1 DEF validate_authorized_cpi
<1>5. a.action_hash = compute_action_hash_from_metas(ops, mine)
  BY <1>1, TheDeployment DEF TemplateHash, Templates
<1> HIDE DEF call, ops, mine
<1>6. PinsThePattern(ops, mine, ops, call)
  BY <1>2, <1>3, HashesPinPatterns
<1>7. mine.program = call.program /\ \A i \in DOMAIN ops : SameThrough(ops[i], mine, call)
  BY <1>2, <1>4, <1>5, <1>6 DEF PinsThePattern
<1> QED
  BY <1>1, <1>7 DEF Instance, call, ops, mine

\* A meta the ops ingest is the admin's.
LEMMA IngestedMeta ==
    ASSUME NEW u, NEW call, Instance(u, call), NEW i \in Nat \ {0},
           ingests_account(Templates[u].ops, i - 1)
    PROVE  /\ Templates[u].call.metas \in Seq(MetaRecord) /\ i <= Len(Templates[u].call.metas)
           /\ Templates[u].call.metas[i] = call.metas[i]
<1> DEFINE t == Templates[u]
<1>1. PICK n \in DOMAIN t.ops : t.ops[n] = IngestAccount(i - 1)
  BY DEF ingests_account
<1> DEFINE op == t.ops[n]
<1>2. op.kind = "IngestAccount" /\ op.index = i - 1
  BY <1>1 DEF IngestAccount
<1>3. t.call.metas \in Seq(MetaRecord) /\ ingestable(op, t.call) /\ SameThrough(op, t.call, call)
  BY DEF Instance, template_formed, well_formed, hashable
<1> HIDE DEF op
<1>4. op.index < Len(t.call.metas)
  BY <1>2, <1>3 DEF ingestable
<1>5. t.call.metas[op.index + 1] = call.metas[op.index + 1]
  BY <1>2, <1>3 DEF SameThrough
<1>6. (i - 1) + 1 = i /\ Len(t.call.metas) \in Nat
  BY <1>3
<1> QED
  BY <1>2, <1>3, <1>4, <1>5, <1>6

\* All metas bound: the call's metas begin the admin's.
LEMMA BoundMetasArePrefix ==
    ASSUME NEW u, NEW call, Instance(u, call), Passed(call), require_all_metas_bound(call, Templates[u].ops)
    PROVE  IsPrefix(call.metas, Templates[u].call.metas)
<1> DEFINE s == call.metas
           t == Templates[u].call.metas
<1>1. s \in Seq(MetaRecord) /\ t \in Seq(MetaRecord)
  BY DEF Passed, Instance, template_formed, well_formed
<1>2. Len(s) \in Nat /\ Len(t) \in Nat /\ DOMAIN s = 1..Len(s)
  BY <1>1
<1>3. ASSUME NEW i \in 1..Len(s) PROVE i <= Len(t) /\ t[i] = s[i]
  <2>1. i \in DOMAIN s /\ i \in Nat \ {0}
    BY <1>2
  <2>2. ingests_account(Templates[u].ops, i - 1)
    BY <2>1 DEF require_all_metas_bound
  <2> QED
    BY <2>1, <2>2, IngestedMeta
<1> HIDE DEF s, t
<1>4. Len(s) <= Len(t)
  <2>1. CASE Len(s) = 0
    BY <1>2, <2>1
  <2>2. CASE Len(s) # 0
    <3>1. Len(s) \in 1..Len(s)
      BY <1>2, <2>2
    <3> QED
      BY <1>3, <3>1
  <2> QED
    BY <2>1, <2>2
<1>5. SubSeq(s, 1, Len(s)) = SubSeq(t, 1, Len(s))
  <2>1. SubSeq(s, 1, Len(s)) = [i \in 1..Len(s) |-> s[i]]
    BY <1>1, <1>2
  <2>2. SubSeq(t, 1, Len(s)) = [i \in 1..Len(s) |-> t[i]]
    BY <1>1, <1>2, <1>4
  <2> QED
    BY <1>3, <2>1, <2>2
<1>6. IsPrefix(s, t)
  BY <1>4, <1>5 DEF IsPrefix
<1> QED
  BY <1>6 DEF s, t

\* Writable metas bound: the call writes to no account the admin's does not.
LEMMA BoundMetasWriteWithin ==
    ASSUME NEW u, NEW call, Instance(u, call), Passed(call), require_writable_metas_bound(call, Templates[u].ops)
    PROVE  writable_tokens(call) \subseteq writable_tokens(Templates[u].call)
<1> SUFFICES ASSUME NEW k \in writable_tokens(call)
             PROVE  k \in writable_tokens(Templates[u].call)
  OBVIOUS
<1>1. PICK i \in DOMAIN call.metas : call.metas[i].is_writable /\ call.metas[i].key = k
  BY DEF writable_tokens
<1>2. i \in Nat \ {0}
  BY DEF Passed
<1>3. ingests_account(Templates[u].ops, i - 1)
  BY <1>1 DEF require_writable_metas_bound
<1>4. /\ Templates[u].call.metas \in Seq(MetaRecord) /\ i <= Len(Templates[u].call.metas)
      /\ Templates[u].call.metas[i] = call.metas[i]
  BY <1>2, <1>3, IngestedMeta
<1>5. i \in DOMAIN Templates[u].call.metas
  BY <1>2, <1>4
<1>6. k \in TokenKeys
  BY DEF writable_tokens
<1> QED
  BY <1>1, <1>4, <1>5, <1>6 DEF writable_tokens

\* Token accounts a call may write to.
WrittenIn(d, call) ==
    {call.metas[i].key : i \in {j \in DOMAIN call.metas : call.metas[j].is_writable}}
        \cap DOMAIN Deployments[d].tokens

\* A relay the admin meant.
Meant(d, r) ==
    \E u \in DOMAIN Deployments[d].templates :
        LET t == Deployments[d].templates[u]
        IN  /\ t.scope = r.action.scope /\ t.ops = r.action.ops
            /\ t.call.program = r.call.program
            /\ \A i \in DOMAIN t.ops : SameThrough(t.ops[i], t.call, r.call)
            /\ t.scope = "Deploy" => IsPrefix(r.call.metas, t.call.metas)
            /\ t.scope = "AtomicRedeem" => WrittenIn(d, r.call) \subseteq WrittenIn(d, t.call)

\* Relayed by whom its scope names, given the strategist and the swap authority.
HasRole(r, s, w) ==
    /\ r.action.scope \in {"Manager", "FlashApprove"} => r.signer = s
    /\ r.action.scope = "Swap" => r.signer \in {w, s}

\* Relays are recorded while a transaction runs, are meant, and were made by whom they may.
Recorded(d, stored_actions, s, w, t, relays) ==
    /\ t = NoTx => relays = {}
    /\ \A r \in relays : r.action \in stored_actions /\ Meant(d, r) /\ HasRole(r, s, w)

RelayInv == Recorded(deployment, actions, strategist, swap_authority, tx, relayed)

\* A relay as it is recorded.
Relay(a, call, signer) == [action |-> a, call |-> call, signer |-> signer]

\* A validated relay is meant, given what the scopes open to everyone check besides.
LEMMA ValidatedIsMeant ==
    ASSUME RegistryInv, TypeInv, tx # NoTx, NEW l, leg_formed(l, Deployments[deployment]),
           NEW a \in actions, validate_authorized_cpi(l, a, ix), NEW signer,
           a.scope = "Deploy" => require_all_metas_bound(authorized_call(l, a.ops), a.ops),
           a.scope = "AtomicRedeem" => require_writable_metas_bound(authorized_call(l, a.ops), a.ops)
    PROVE  Meant(deployment, Relay(a, authorized_call(l, a.ops), signer))
<1> DEFINE call == authorized_call(l, a.ops)
<1>1. PICK u \in DOMAIN Templates :
        a.scope = Templates[u].scope /\ a.ops = Templates[u].ops /\ Instance(u, call)
  BY ValidatedIsInstance
<1>2. Passed(call)
  BY RelayedCallFormed
<1>3. \A c : WrittenIn(deployment, c) = writable_tokens(c)
  BY DEF WrittenIn, writable_tokens, TokenKeys, InitialTokens
<1> HIDE DEF call
<1>4. Templates[u].scope = "Deploy" => IsPrefix(call.metas, Templates[u].call.metas)
  BY <1>1, <1>2, BoundMetasArePrefix DEF call
<1>5. Templates[u].scope = "AtomicRedeem" =>
        WrittenIn(deployment, call) \subseteq WrittenIn(deployment, Templates[u].call)
  BY <1>1, <1>2, <1>3, BoundMetasWriteWithin DEF call
<1>6. /\ Relay(a, call, signer).action = a /\ Relay(a, call, signer).call = call
  BY DEF Relay
<1>7. /\ Templates[u].call.program = call.program
      /\ \A i \in DOMAIN Templates[u].ops : SameThrough(Templates[u].ops[i], Templates[u].call, call)
  BY <1>1 DEF Instance
<1>8. Meant(deployment, Relay(a, call, signer))
  BY <1>1, <1>4, <1>5, <1>6, <1>7 DEF Meant, Templates
<1> QED
  BY <1>8 DEF call

\* What the relay instructions record.
LEMMA RelaysRecord ==
    ASSUME RegistryInv, TypeInv, Manage \/ Swap \/ DepositAndDeploy \/ AtomicRedeem
    PROVE  /\ tx # NoTx /\ tx' = tx
           /\ \E r : /\ relayed' = {r} /\ r.action \in actions /\ Meant(deployment, r)
                    /\ HasRole(r, strategist, swap_authority)
<1>1. Running /\ ix.name \in Relays /\ tx' = tx
  <2>1. Advance => tx' = tx
    BY DEF Advance
  <2>2. next_leg => tx' = tx
    BY <2>1 DEF next_leg
  <2> QED
    BY <2>1, <2>2 DEF Manage, Swap, DepositAndDeploy, AtomicRedeem, Relays
<1>2. tx # NoTx
  BY <1>1, RunningFacts
<1>3. leg_formed(ix.legs[1], Deployments[deployment])
  BY <1>1, RunningLeg
<1>4. ix.name = "Manage" => leg_formed(ix.legs[leg], Deployments[deployment])
  BY <1>1, RunningLeg
<1>5. ASSUME NEW l, leg_formed(l, Deployments[deployment]), NEW a \in stored_action(l.template),
             validate_authorized_cpi(l, a, ix), record_relay(a, authorized_call(l, a.ops)),
             a.scope = "Deploy" => require_all_metas_bound(authorized_call(l, a.ops), a.ops),
             a.scope = "AtomicRedeem" => require_writable_metas_bound(authorized_call(l, a.ops), a.ops),
             a.scope \in {"Manager", "FlashApprove"} => tx.signer = strategist,
             a.scope = "Swap" => tx.signer \in {swap_authority, strategist}
      PROVE  \E r : /\ relayed' = {r} /\ r.action \in actions /\ Meant(deployment, r)
                    /\ HasRole(r, strategist, swap_authority)
  <2>1. a \in actions
    BY DEF stored_action
  <2> DEFINE r == Relay(a, authorized_call(l, a.ops), tx.signer)
  <2>2. relayed' = {r} /\ r.action = a /\ r.signer = tx.signer
    BY <1>5 DEF record_relay, Relay
  <2>3. Meant(deployment, r)
    BY <1>2, <1>5, <2>1, ValidatedIsMeant
  <2> HIDE DEF r
  <2>4. HasRole(r, strategist, swap_authority)
    BY <1>5, <2>2 DEF HasRole
  <2> QED
    BY <2>1, <2>2, <2>3, <2>4
<1>6. CASE Manage
  <2> DEFINE l == ix.legs[leg]
  <2>1. leg_formed(l, Deployments[deployment])
    BY <1>4, <1>6 DEF Manage
  <2>2. PICK a \in stored_action(l.template) :
          /\ validate_manage_accounts(l, a) /\ validate_authorized_cpi(l, a, ix)
          /\ record_relay(a, authorized_call(l, a.ops))
    BY <1>6 DEF Manage
  <2>3. a.scope # "Deploy" /\ a.scope # "AtomicRedeem" /\ a.scope # "Swap" /\ tx.signer = strategist
    BY <2>2 DEF validate_manage_accounts, verify_action_executor
  <2> HIDE DEF l
  <2> QED
    BY <1>1, <1>2, <1>5, <2>1, <2>2, <2>3
<1> DEFINE one == ix.legs[1]
<1>7. CASE Swap
  <2>1. PICK a \in stored_action(one.template) :
          /\ a.scope = "Swap" /\ validate_authorized_cpi(one, a, ix)
          /\ tx.signer \in {swap_authority, strategist}
          /\ record_relay(a, authorized_call(one, a.ops))
    BY <1>7 DEF Swap, swap_loaded
  <2>2. a.scope # "Deploy" /\ a.scope # "AtomicRedeem" /\ a.scope \notin {"Manager", "FlashApprove"}
    BY <2>1
  <2> HIDE DEF one
  <2> QED
    BY <1>1, <1>2, <1>3, <1>5, <2>1, <2>2 DEF one
<1>8. CASE DepositAndDeploy
  <2>1. PICK a \in stored_action(one.template) :
          /\ a.scope = "Deploy" /\ validate_authorized_cpi(one, a, ix)
          /\ require_all_metas_bound(authorized_call(one, a.ops), a.ops)
          /\ record_relay(a, authorized_call(one, a.ops))
    BY <1>8 DEF DepositAndDeploy
  <2>2. a.scope # "AtomicRedeem" /\ a.scope # "Swap" /\ a.scope \notin {"Manager", "FlashApprove"}
    BY <2>1
  <2> QED
    BY <1>1, <1>2, <1>3, <1>5, <2>1, <2>2
<1>9. CASE AtomicRedeem
  <2>1. PICK a \in stored_action(one.template) :
          /\ a.scope = "AtomicRedeem" /\ validate_authorized_cpi(one, a, ix)
          /\ require_writable_metas_bound(authorized_call(one, a.ops), a.ops)
          /\ record_relay(a, authorized_call(one, a.ops))
    BY <1>9 DEF AtomicRedeem
  <2>2. a.scope # "Deploy" /\ a.scope # "Swap" /\ a.scope \notin {"Manager", "FlashApprove"}
    BY <2>1
  <2> QED
    BY <1>1, <1>2, <1>3, <1>5, <2>1, <2>2
<1> QED
  BY <1>6, <1>7, <1>8, <1>9

\* Recorded relays stay meant.
LEMMA RelayInductive ==
    ASSUME RegistryInv, TypeInv, RelayInv, [Next]_vars
    PROVE  RelayInv'
<1>1. Recorded(deployment, actions, strategist, swap_authority, tx, relayed)
  BY DEF RelayInv
<1>2. SUFFICES Recorded(deployment', actions', strategist', swap_authority', tx', relayed')
  BY DEF RelayInv
<1>3. ASSUME RegistryStep PROVE Recorded(deployment', actions', strategist', swap_authority', tx', relayed')
  <2>1. tx = NoTx /\ tx' = tx /\ relayed' = relayed
    BY <1>3 DEF RegistryStep, AuthorizeAction, RevokeAction, AdminSetFlashFeeRate, StrategistLowerFlashFeeRate,
       update_action_flash_fee, SetStrategist, SetManagePaused, tx_vars
  <2>2. relayed' = {}
    BY <1>1, <2>1 DEF Recorded
  <2> QED
    BY <2>2 DEF Recorded
<1>4. ASSUME TransactionStep PROVE Recorded(deployment', actions', strategist', swap_authority', tx', relayed')
  <2>1. /\ deployment' = deployment /\ actions' = actions
        /\ strategist' = strategist /\ swap_authority' = swap_authority
    BY <1>4, TransactionsLeaveTheRegistry
  <2>2. CASE Manage \/ Swap \/ DepositAndDeploy \/ AtomicRedeem
    <3>1. tx' # NoTx /\ \E r : /\ relayed' = {r} /\ r.action \in actions /\ Meant(deployment, r)
                              /\ HasRole(r, strategist, swap_authority)
      BY <2>2, RelaysRecord
    <3> QED
      BY <2>1, <3>1 DEF Recorded
  <2>3. CASE AssertDelegateCleared \/ FlashBorrow \/ DelegateSpend
    <3>1. tx' = tx /\ relayed' = relayed
      BY <2>3 DEF AssertDelegateCleared, FlashBorrow, DelegateSpend, Advance
    <3> QED
      BY <1>1, <2>1, <3>1
  <2>4. CASE \E signer \in Wallets, body \in Bodies : Begin(signer, body)
    <3>1. tx = NoTx /\ relayed' = relayed
      BY <2>4 DEF Begin
    <3>2. relayed' = {}
      BY <1>1, <3>1 DEF Recorded
    <3> QED
      BY <3>2 DEF Recorded
  <2>5. CASE Commit \/ Abort
    <3>1. relayed' = {}
      BY <2>5 DEF Commit, Abort
    <3> QED
      BY <3>1 DEF Recorded
  <2> QED
    BY <1>4, <2>2, <2>3, <2>4, <2>5 DEF TransactionStep
<1>5. ASSUME UNCHANGED vars PROVE Recorded(deployment', actions', strategist', swap_authority', tx', relayed')
  <2>1. /\ deployment' = deployment /\ actions' = actions /\ tx' = tx /\ relayed' = relayed
        /\ strategist' = strategist /\ swap_authority' = swap_authority
    BY <1>5 DEF vars, registry_vars, tx_vars
  <2> QED
    BY <1>1, <2>1
<1> QED
  BY <1>3, <1>4, <1>5 DEF Next

\* The invariant says what the runs check.
LEMMA RecordedAreMeant ==
    ASSUME RelayInv
    PROVE  RelaysAreWhatTheAdminMeant
<1>1. \A c : WrittenIn(deployment, c) = writable_tokens(c)
  BY DEF WrittenIn, writable_tokens, TokenKeys, InitialTokens
<1> SUFFICES ASSUME NEW r \in relayed
             PROVE  /\ r.action \in actions
                    /\ r.action.scope \in {"Manager", "FlashApprove"} => r.signer = strategist
                    /\ r.action.scope = "Swap" => r.signer \in {swap_authority, strategist}
                    /\ \E t \in Range(Templates) :
                         /\ t.scope = r.action.scope /\ t.ops = r.action.ops
                         /\ t.call.program = r.call.program
                         /\ \A i \in DOMAIN t.ops : SameThrough(t.ops[i], t.call, r.call)
                         /\ t.scope = "Deploy" => IsPrefix(r.call.metas, t.call.metas)
                         /\ t.scope = "AtomicRedeem" => writable_tokens(r.call) \subseteq writable_tokens(t.call)
  BY DEF RelaysAreWhatTheAdminMeant
<1>2. r.action \in actions /\ Meant(deployment, r) /\ HasRole(r, strategist, swap_authority)
  BY DEF RelayInv, Recorded
<1>3. PICK u \in DOMAIN Templates :
        /\ Templates[u].scope = r.action.scope /\ Templates[u].ops = r.action.ops
        /\ Templates[u].call.program = r.call.program
        /\ \A i \in DOMAIN Templates[u].ops : SameThrough(Templates[u].ops[i], Templates[u].call, r.call)
        /\ Templates[u].scope = "Deploy" => IsPrefix(r.call.metas, Templates[u].call.metas)
        /\ Templates[u].scope = "AtomicRedeem" =>
             writable_tokens(r.call) \subseteq writable_tokens(Templates[u].call)
  BY <1>1, <1>2 DEF Meant, Templates
<1>4. Templates[u] \in Range(Templates)
  BY DEF Range
<1>5. /\ r.action.scope \in {"Manager", "FlashApprove"} => r.signer = strategist
      /\ r.action.scope = "Swap" => r.signer \in {swap_authority, strategist}
  BY <1>2 DEF HasRole
<1> QED
  BY <1>2, <1>3, <1>4, <1>5

(***************************************************************************)
(* Every call the program relays, in whatever transaction and batch, is    *)
(* one the admin meant, relayed by whom its scope names: its action is     *)
(* stored, its program and everything the ops ingest are the pattern's,    *)
(* and a call open to everyone leaves no account to choose                 *)
(* (verify_action_executor, validate_authorized_cpi,                       *)
(* require_all_metas_bound, require_writable_metas_bound).                 *)
(***************************************************************************)
THEOREM RelaysAreMeant == Spec => []RelaysAreWhatTheAdminMeant
<1>1. Init => RegistryInv /\ TypeInv /\ RelayInv
  <2>1. Init => RelayInv
    BY DEF Init, RelayInv, Recorded
  <2> QED
    BY <2>1, RegistryInit, TypeInit
<1>2. RegistryInv /\ TypeInv /\ RelayInv /\ [Next]_vars => RegistryInv' /\ TypeInv' /\ RelayInv'
  BY RegistryInductive, TypeInductive, RelayInductive
<1>3. RelayInv => RelaysAreWhatTheAdminMeant
  BY RecordedAreMeant
<1> QED
  BY <1>1, <1>2, <1>3, PTL DEF Spec

-----------------------------------------------------------------------------
(* Custody.                                                                  *)

\* Accounts an AtomicRedeem route is handed.
HandedToUnwinds(d, k) ==
    \E t \in DOMAIN Deployments[d].templates :
        /\ Deployments[d].templates[t].scope = "AtomicRedeem"
        /\ k \in WrittenIn(d, Deployments[d].templates[t].call)

\* The other custody accounts.
Guarded(d) ==
    {k \in DOMAIN Deployments[d].tokens :
       Deployments[d].tokens[k].owner \in SubAccounts /\ ~HandedToUnwinds(d, k)}

\* The sub-account a custody account began with.
OwnerOf(d, k) == Deployments[d].tokens[k].owner

\* A check that the delegate of an account was cleared is still to come.
Pledged(d, body, n, k) ==
    \E j \in DOMAIN body :
        /\ j >= n
        /\ Deployments[d].instructions[body[j]].name = "AssertDelegateCleared"
        /\ Deployments[d].instructions[body[j]].accounts[1] = k

(***************************************************************************)
(* The sub-account keeps control throughout a transaction, and an account  *)
(* has a delegate only where its cleared check is still to come; what an   *)
(* abort would restore has none.                                           *)
(***************************************************************************)
Custody(d, toks, t, n, sv) ==
    \A k \in Guarded(d) :
        /\ Controlled(toks[k], OwnerOf(d, k))
        /\ toks[k].delegate # NoKey => t # NoTx /\ Pledged(d, t.body, n, k)
        /\ t # NoTx => Controlled(sv[k], OwnerOf(d, k)) /\ sv[k].delegate = NoKey

CustodyInv == Custody(deployment, tokens, tx, pc, saved)

\* An account after an instruction: under control, with no delegate but its old one or a pledged one.
After(a, b, owner, pledged) ==
    Controlled(b, owner) /\ (b.delegate = NoKey \/ b.delegate = a.delegate \/ pledged)

\* Guarded accounts are custody accounts.
LEMMA GuardedFacts ==
    ASSUME NEW d, NEW k \in Guarded(d)
    PROVE  k \in DOMAIN Deployments[d].tokens /\ OwnerOf(d, k) \in SubAccounts
BY DEF Guarded, OwnerOf

\* No unwind pattern writes to them.
LEMMA GuardedIsNotExposed ==
    ASSUME NEW d, NEW k \in Guarded(d),
           NEW u \in DOMAIN Deployments[d].templates, Deployments[d].templates[u].scope = "AtomicRedeem"
    PROVE  k \notin WrittenIn(d, Deployments[d].templates[u].call)
BY DEF Guarded, HandedToUnwinds

\* A sub-account other than the relay's own signs nothing.
LEMMA OthersDoNotSign ==
    ASSUME RegistryInv, TypeInv, tx # NoTx, NEW l, leg_formed(l, Deployments[deployment]),
           NEW a, validate_authorized_cpi(l, a, ix),
           NEW owner \in SubAccounts, owner # l.sub
    PROVE  ~signs(authorized_call(l, a.ops), owner)
<1>1. tx.signer \notin SubAccounts
  <2>1. tx.signer \in Deployments[deployment].wallets
    BY DEF TypeInv, Typing, Transaction
  <2> QED
    BY <2>1, TheDeployment DEF deployment_formed
<1> DEFINE metas == l.call.metas
           call == authorized_call(l, a.ops)
<1>2. \A i \in DOMAIN metas : metas[i].is_signer => metas[i].key \in {tx.signer, l.sub}
  BY DEF validate_authorized_cpi
<1>3. call.metas = promoted(metas, l.sub) /\ metas \in Seq(MetaRecord)
  BY DEF authorized_call, leg_formed
<1> HIDE DEF metas, call
<1>4. /\ DOMAIN call.metas = DOMAIN metas
      /\ \A i \in DOMAIN metas :
           /\ call.metas[i].key = metas[i].key
           /\ call.metas[i].is_signer => metas[i].is_signer \/ metas[i].key = l.sub
  BY <1>3, PromotedMetas
<1>5. ASSUME signs(call, owner) PROVE FALSE
  <2>1. PICK i \in DOMAIN call.metas : call.metas[i].key = owner /\ call.metas[i].is_signer
    BY <1>5 DEF signs
  <2>2. metas[i].key = owner /\ metas[i].is_signer
    BY <1>4, <2>1
  <2> QED
    BY <1>1, <1>2, <1>4, <2>1, <2>2
<1> QED
  BY <1>5 DEF call

\* A checked account is under its sub-account's control and has no delegate.
LEMMA CleanIsControlled ==
    ASSUME NEW a, NEW sub
    PROVE  /\ is_clean_custody(a, sub) = "clean" => Controlled(a, sub) /\ a.delegate = NoKey
           /\ verify_custody_account(a, sub) <=> Controlled(a, sub) /\ a.delegate = NoKey
           /\ Controlled(a, sub) /\ is_clean_custody(a, sub) # "tainted" => is_clean_custody(a, sub) = "clean"
BY DEF is_clean_custody, verify_custody_account, has_transfer_authority, Controlled

\* What a venue leaves of a guarded account, unless the account is exempted from the checks.
LEMMA GuardedThroughInvoke ==
    ASSUME RegistryInv, TypeInv, tx # NoTx, NEW toks \in [TokenKeys -> Account],
           NEW l, leg_formed(l, Deployments[deployment]), NEW a, validate_authorized_cpi(l, a, ix),
           NEW post \in invoke_authorized_cpi(toks, authorized_call(l, a.ops)),
           NEW k \in Guarded(deployment), NEW pledged, Controlled(toks[k], OwnerOf(deployment, k)),
           OwnerOf(deployment, k) = l.sub /\ k \in writable_tokens(authorized_call(l, a.ops)) =>
               After(toks[k], post[k], l.sub, pledged)
    PROVE  After(toks[k], post[k], OwnerOf(deployment, k), pledged)
<1> DEFINE call == authorized_call(l, a.ops)
           owner == OwnerOf(deployment, k)
<1>1. k \in TokenKeys /\ owner \in SubAccounts
  BY GuardedFacts DEF TokenKeys, InitialTokens
<1>2. Controlled(toks[k], owner)
  OBVIOUS
<1>3. /\ k \notin writable_tokens(call) => post[k] = toks[k]
      /\ live(toks[k]) /\ ~signs(call, toks[k].owner) => ControlKept(toks[k], post[k])
  <2>1. Passed(call) /\ deployment \in DOMAIN Deployments
    BY RelayedCallFormed, TheDeployment
  <2> HIDE DEF call
  <2>2. post \in invoke_authorized_cpi(toks, call)
    BY DEF call
  <2> QED
    BY <1>1, <2>1, <2>2, InvokeFacts
<1>4. CASE k \notin writable_tokens(call)
  BY <1>2, <1>3, <1>4 DEF After
<1>5. CASE owner # l.sub
  <2>1. ~signs(call, owner)
    BY <1>1, <1>5, OthersDoNotSign
  <2>2. ControlKept(toks[k], post[k])
    BY <1>2, <1>3, <2>1 DEF Controlled
  <2> QED
    BY <1>2, <2>2 DEF Controlled, ControlKept, After
<1>6. CASE owner = l.sub /\ k \in writable_tokens(call)
  BY <1>6
<1> QED
  BY <1>4, <1>5, <1>6

\* The account checks of Manager and FlashApprove, on an account that is not exempted.
LEMMA ReverifiedIsControlled ==
    ASSUME NEW toks, NEW post, NEW call, NEW sub, NEW exempt, NEW k \in writable_tokens(call) \ exempt,
           Controlled(toks[k], sub), scan_ok(toks, call, sub),
           reverify_subaccount_custody_except(scan_subaccount_custody(toks, call, sub), post, sub, exempt)
    PROVE  Controlled(post[k], sub) /\ post[k].delegate = NoKey
<1>1. is_clean_custody(toks[k], sub) = "clean"
  BY CleanIsControlled DEF scan_ok
<1>2. is_clean_custody(post[k], sub) = "clean"
  BY <1>1 DEF scan_subaccount_custody, reverify_subaccount_custody_except
<1> QED
  BY <1>2, CleanIsControlled

\* The least of some positions is one of them.
LEMMA LeastPosition ==
    ASSUME NEW T \in SUBSET Nat, T # {}
    PROVE  Min(T) \in T
<1>1. \E x \in T : \A y \in T : x <= y
  BY LeastNat
<1> QED
  BY <1>1 DEF Min

\* A tie pairs account ops with the committed one, each at a position of the action.
LEMMA PairedPositions ==
    ASSUME NEW ops \in Seq(ActionOps), NEW r, NEW source, tied_to_source(ops, r, source)
    PROVE  paired_accounts(ops, r) \in SUBSET Nat /\ paired_accounts(ops, r) # {}
<1>1. paired_accounts(ops, r) \subseteq DOMAIN ops
  BY Zenon DEF paired_accounts, OpsOfKind
<1>2. DOMAIN ops = 1..Len(ops) /\ Len(ops) \in Nat
  BY LenProperties
<1>3. DOMAIN ops \subseteq Nat
  <2> DEFINE n == Len(ops)
  <2> HIDE DEF n
  <2>1. n \in Nat
    BY <1>2 DEF n
  <2>2. 1..n \subseteq Nat
    BY <2>1
  <2> QED
    BY <1>2, <2>2, Zenon DEF n
<1>4. paired_accounts(ops, r) # {}
  BY Zenon DEF tied_to_source
<1> QED
  BY <1>1, <1>3, <1>4, Zenon

\* Two committed ops: besides one there is another.
LEMMA AnotherOfTwo ==
    ASSUME NEW T, NEW x \in T, Cardinality(T) = 2
    PROVE  \E y \in T : y # x
<1>1. ASSUME \A y \in T : y = x PROVE FALSE
  <2>1. T = {x}
    BY <1>1
  <2>2. Cardinality({x}) = 1
    BY FS_Singleton
  <2> QED
    BY <2>1, <2>2
<1> QED
  BY <1>1

\* The relative index of a sibling op is a number.
LEMMA SiblingOpIndex ==
    ASSUME NEW op \in ActionOps, op.kind = "IngestSiblingInstruction"
    PROVE  op.relative_index \in Int
<1>1. op \in [kind : {"IngestSiblingInstruction"}, relative_index : I8, offset : U8, len : U8]
  BY DEF ActionOps, Noop, IngestInstructionDataSize
<1> QED
  BY <1>1 DEF I8

\* The sibling an op commits to is the instruction at that place of the transaction.
LEMMA SiblingOfCall ==
    ASSUME NEW l, NEW ops, NEW n \in DOMAIN ops, ops[n].kind = "IngestSiblingInstruction",
           sibling_exists(ops[n].relative_index)
    PROVE  LET r == ops[n].relative_index
               sibling == authorized_call(l, ops).siblings[r]
           IN  sibling.program = at(pc + r).program /\ sibling.data = at(pc + r).data
<1> DEFINE r == ops[n].relative_index
<1>1. r \in SiblingIndexes(ops)
  BY DEF SiblingIndexes
<1>2. authorized_call(l, ops).siblings[r] =
        [program |-> at(pc + r).program, data |-> at(pc + r).data, accounts |-> at(pc + r).accounts]
  BY <1>1 DEF authorized_call, load_required_siblings
<1> QED
  BY <1>2

(***************************************************************************)
(* A flash approval leaves a pledge: later in the same transaction the     *)
(* account is checked to have no delegate.  The two committed ops are the  *)
(* borrow and one of this program's instructions; the stored hash makes it *)
(* the one the admin committed, which is the cleared check, and the tie    *)
(* makes it a check of this account.                                       *)
(***************************************************************************)
LEMMA FlashPledges ==
    ASSUME RegistryInv, TypeInv, Running, NEW l, leg_formed(l, Deployments[deployment]),
           NEW a \in actions, a.scope = "FlashApprove", validate_authorized_cpi(l, a, ix),
           NEW source, NEW amount \in bind_flash_siblings(a.ops, ix, source)
    PROVE  Pledged(deployment, tx.body, pc + 1, source)
<1> DEFINE ops == a.ops
           call == authorized_call(l, ops)
           committed == OpsOfKind(ops, "IngestSiblingInstruction")
<1>1. tx # NoTx /\ pc \in Nat
  BY RunningFacts
<1>2. PICK u \in DOMAIN Templates : a.scope = Templates[u].scope /\ ops = Templates[u].ops /\ Instance(u, call)
  BY <1>1, ValidatedIsInstance
<1>3. PICK borrow \in committed :
        /\ Cardinality(committed) = 2
        /\ \A n \in committed : tied_to_source(ops, ops[n].relative_index, source)
        /\ \A n \in committed \ {borrow} : at(pc + ops[n].relative_index).program = ROSHI
  BY DEF bind_flash_siblings
<1>4. PICK n \in committed : n # borrow
  <2> HIDE DEF committed
  <2> QED
    BY <1>3, AnotherOfTwo
<1> DEFINE op == ops[n]
           r == op.relative_index
           mine == Templates[u].call
<1>5. n \in DOMAIN ops /\ op.kind = "IngestSiblingInstruction"
  BY DEF OpsOfKind
<1>6. tied_to_source(ops, r, source) /\ at(pc + r).program = ROSHI
  BY <1>3, <1>4
<1>7. r \in Int /\ ops \in Seq(ActionOps)
  <2>1. ops \in Seq(ActionOps)
    BY <1>2 DEF Instance, template_formed
  <2>2. op \in ActionOps
    BY <1>5, <2>1
  <2> QED
    BY <1>5, <2>1, <2>2, SiblingOpIndex
<1>8. pc + r \in DOMAIN tx.body /\ sibling_exists(r)
  BY <1>6 DEF tied_to_source, sibling_exists
<1>9. call.siblings[r].program = at(pc + r).program /\ call.siblings[r].data = at(pc + r).data
  BY <1>5, <1>8, SiblingOfCall
<1>10. /\ mine.siblings[r].program = call.siblings[r].program
       /\ \A j \in op.offset + 1 .. op.offset + op.len : mine.siblings[r].data[j] = call.siblings[r].data[j]
  <2>1. SameThrough(op, mine, call)
    BY <1>2, <1>5 DEF Instance
  <2> HIDE DEF op, mine, call
  <2> QED
    BY <1>5, <2>1 DEF SameThrough
<1>11. backstop(op, Templates[u], Deployments[deployment])
  BY <1>2, <1>5, <1>6, <1>9, <1>10, TheDeployment, BackstopAssumption DEF Templates
<1>12. Deployments[deployment].instructions[tx.body[pc + r]] = at(pc + r)
  BY DEF at, Instructions
<1>13. tx.body[pc + r] \in DOMAIN Deployments[deployment].instructions
  BY <1>1, <1>8 DEF TypeInv, Typing, Transaction
<1>14. r > 0 /\ at(pc + r).name = "AssertDelegateCleared"
  BY <1>6, <1>9, <1>10, <1>11, <1>12, <1>13 DEF backstop
<1>15. at(pc + r).accounts[1] = source
  <2> DEFINE paired == paired_accounts(ops, r)
             p == Min(paired)
  <2>1. paired \in SUBSET Nat /\ paired # {}
    BY <1>6, <1>7, PairedPositions, Zenon
  <2> HIDE DEF paired
  <2>2. p \in paired
    BY <2>1, LeastPosition
  <2>3. p \in DOMAIN ops /\ ops[p].kind = "IngestSiblingAccount" /\ ops[p].relative_index = r
    BY <2>2 DEF paired, paired_accounts, OpsOfKind
  <2>4. ops[p].index = 0
    BY <1>2, <1>11, <2>3 DEF backstop
  <2>5. at(pc + r).accounts[ops[p].index + 1] = source
    BY <1>6 DEF tied_to_source, p, paired
  <2>6. 0 + 1 = 1
    OBVIOUS
  <2> QED
    BY <2>4, <2>5, <2>6
<1> HIDE DEF r
<1>16. pc + r >= pc + 1
  BY <1>1, <1>7, <1>14 DEF r
<1> QED
  BY <1>8, <1>12, <1>14, <1>15, <1>16 DEF Pledged

\* The guarded accounts after an instruction.
Kept == \A k \in Guarded(deployment) :
            After(tokens[k], tokens'[k], OwnerOf(deployment, k), Pledged(deployment, tx.body, pc + 1, k))

\* One action of a batch.
LEMMA ManageKeeps ==
    ASSUME RegistryInv, TypeInv, CustodyInv, Manage
    PROVE  Kept
<1> SUFFICES ASSUME NEW k \in Guarded(deployment)
             PROVE  After(tokens[k], tokens'[k], OwnerOf(deployment, k), Pledged(deployment, tx.body, pc + 1, k))
  BY DEF Kept
<1> DEFINE l == ix.legs[leg]
           pledged == Pledged(deployment, tx.body, pc + 1, k)
<1>1. Running /\ ix.name = "Manage"
  BY DEF Manage
<1>2. tx # NoTx /\ leg_formed(l, Deployments[deployment])
  BY <1>1, RunningFacts, RunningLeg DEF Relays
<1>3. PICK a \in stored_action(l.template) :
        /\ validate_authorized_cpi(l, a, ix)
        /\ tokens' \in invoke_authorized_cpi(tokens, authorized_call(l, a.ops))
        /\ settle_authorized_cpi(l, a, authorized_call(l, a.ops), tokens')
  BY DEF Manage
<1> DEFINE call == authorized_call(l, a.ops)
           source == call.metas[1].key
<1>4. a \in actions
  BY DEF stored_action
<1>5. Controlled(tokens[k], OwnerOf(deployment, k))
  BY DEF CustodyInv, Custody
<1>6. ASSUME OwnerOf(deployment, k) = l.sub, k \in writable_tokens(call)
      PROVE  After(tokens[k], tokens'[k], l.sub, pledged)
  <2>1. Controlled(tokens[k], l.sub)
    BY <1>5, <1>6
  <2>2. CASE settle_manager(l, call, tokens')
    <3>1. /\ scan_ok(tokens, call, l.sub)
          /\ reverify_subaccount_custody_except(scan_subaccount_custody(tokens, call, l.sub), tokens', l.sub, {})
      BY <2>2 DEF settle_manager
    <3> HIDE DEF call, l
    <3>2. Controlled(tokens'[k], l.sub) /\ tokens'[k].delegate = NoKey
      BY <1>6, <2>1, <3>1, ReverifiedIsControlled
    <3> QED
      BY <3>2 DEF After
  <2>3. CASE a.scope = "FlashApprove" /\ settle_flash_approve(l, a, call, tokens')
    <3>1. PICK amount \in bind_flash_siblings(a.ops, ix, source) :
            /\ scan_ok(tokens, call, l.sub)
            /\ reverify_subaccount_custody_except(scan_subaccount_custody(tokens, call, l.sub),
                                                  tokens', l.sub, {source})
            /\ \E n : verify_flash_delegate(tokens'[source], l.sub, n)
      BY <2>3 DEF settle_flash_approve
    <3>2. CASE k # source
      <4> HIDE DEF call, l, source
      <4>1. Controlled(tokens'[k], l.sub) /\ tokens'[k].delegate = NoKey
        BY <1>6, <2>1, <3>1, <3>2, ReverifiedIsControlled
      <4> QED
        BY <4>1 DEF After
    <3>3. CASE k = source
      <4>1. Controlled(tokens'[k], l.sub)
        BY <3>1, <3>3 DEF verify_flash_delegate, has_close_authority, Controlled
      <4>2. Pledged(deployment, tx.body, pc + 1, source)
        <5> HIDE DEF source, l
        <5> QED
          BY <1>1, <1>2, <1>3, <1>4, <2>3, <3>1, FlashPledges
      <4> QED
        BY <3>3, <4>1, <4>2 DEF After
    <3> QED
      BY <3>2, <3>3
  <2> QED
    BY <1>3, <2>2, <2>3 DEF settle_authorized_cpi
<1>7. tokens \in [TokenKeys -> Account] /\ Controlled(tokens[k], OwnerOf(deployment, k))
  BY CurrentAccounts DEF CustodyInv, Custody
<1> HIDE DEF l, pledged
<1>8. After(tokens[k], tokens'[k], OwnerOf(deployment, k), pledged)
  BY <1>2, <1>3, <1>6, <1>7, GuardedThroughInvoke
<1> QED
  BY <1>8 DEF pledged

\* A swap.
LEMMA SwapKeeps ==
    ASSUME RegistryInv, TypeInv, CustodyInv, Swap
    PROVE  Kept
<1> SUFFICES ASSUME NEW k \in Guarded(deployment)
             PROVE  After(tokens[k], tokens'[k], OwnerOf(deployment, k), Pledged(deployment, tx.body, pc + 1, k))
  BY DEF Kept
<1> DEFINE l == ix.legs[1]
           input == ix.accounts[1]
           output == ix.accounts[2]
           pledged == Pledged(deployment, tx.body, pc + 1, k)
<1>1. Running /\ ix.name = "Swap"
  BY DEF Swap
<1>2. tx # NoTx /\ leg_formed(l, Deployments[deployment])
  BY <1>1, RunningFacts, RunningLeg DEF Relays
<1>3. PICK a \in stored_action(l.template) :
        /\ validate_authorized_cpi(l, a, ix)
        /\ tokens' \in invoke_authorized_cpi(tokens, authorized_call(l, a.ops))
        /\ swap_settled(l, input, output, authorized_call(l, a.ops), tokens')
  BY DEF Swap
<1> DEFINE call == authorized_call(l, a.ops)
<1>4. Controlled(tokens[k], OwnerOf(deployment, k))
  BY DEF CustodyInv, Custody
<1>5. tokens[k] \in Account /\ tokens'[k] \in Account
  <2>1. k \in TokenKeys
    BY GuardedFacts DEF TokenKeys, InitialTokens
  <2> QED
    BY <2>1, CurrentAccounts, SwapTyped
<1>6. ASSUME OwnerOf(deployment, k) = l.sub, k \in writable_tokens(call)
      PROVE  After(tokens[k], tokens'[k], l.sub, pledged)
  <2>1. CASE k \in {input, output}
    <3>1. [tokens[k] EXCEPT !.amount = 0] = [tokens'[k] EXCEPT !.amount = 0]
      BY <1>3, <2>1 DEF swap_settled, verify_swap_endpoint_unchanged
    <3>2. /\ tokens'[k].program = tokens[k].program /\ tokens'[k].initialized = tokens[k].initialized
          /\ tokens'[k].owner = tokens[k].owner /\ tokens'[k].delegate = tokens[k].delegate
          /\ tokens'[k].close_authority = tokens[k].close_authority
      BY <1>5, <3>1 DEF Account, TokenAccountRecord
    <3> QED
      BY <1>4, <1>6, <3>2 DEF Controlled, live, After
  <2>2. CASE k \notin {input, output}
    <3> DEFINE snapshot == snapshot_writable_custody(tokens, call, l.sub, {input, output})
    <3>1. is_clean_custody(tokens[k], l.sub) # "tainted" /\ verify_custody_unchanged(snapshot, tokens', l.sub)
      BY <1>3, <1>6, <2>2 DEF swap_settled
    <3>2. is_clean_custody(tokens[k], l.sub) = "clean"
      BY <1>4, <1>6, <3>1, CleanIsControlled
    <3>3. k \in DOMAIN snapshot
      BY <1>6, <2>2, <3>2 DEF snapshot_writable_custody, scan_subaccount_custody
    <3>4. is_clean_custody(tokens'[k], l.sub) = "clean"
      BY <3>1, <3>3 DEF verify_custody_unchanged
    <3>5. Controlled(tokens'[k], l.sub) /\ tokens'[k].delegate = NoKey
      BY <3>4, CleanIsControlled
    <3> QED
      BY <3>5 DEF After
  <2> QED
    BY <2>1, <2>2
<1>7. tokens \in [TokenKeys -> Account] /\ Controlled(tokens[k], OwnerOf(deployment, k))
  BY CurrentAccounts DEF CustodyInv, Custody
<1> HIDE DEF l, pledged
<1>8. After(tokens[k], tokens'[k], OwnerOf(deployment, k), pledged)
  BY <1>2, <1>3, <1>6, <1>7, GuardedThroughInvoke
<1> QED
  BY <1>8 DEF pledged

\* A deposit that deploys itself.
LEMMA DeployKeeps ==
    ASSUME RegistryInv, TypeInv, CustodyInv, DepositAndDeploy
    PROVE  Kept
<1> SUFFICES ASSUME NEW k \in Guarded(deployment)
             PROVE  After(tokens[k], tokens'[k], OwnerOf(deployment, k), Pledged(deployment, tx.body, pc + 1, k))
  BY DEF Kept
<1> DEFINE l == ix.legs[1]
           pledged == Pledged(deployment, tx.body, pc + 1, k)
<1>1. Running /\ ix.name = "DepositAndDeploy"
  BY DeployHasOutcome
<1>2. tx # NoTx /\ leg_formed(l, Deployments[deployment])
  BY <1>1, RunningFacts, RunningLeg DEF Relays
<1>3. PICK a \in stored_action(l.template) : DeployOutcome(l, a, authorized_call(l, a.ops))
  BY DeployHasOutcome
<1> DEFINE call == authorized_call(l, a.ops)
<1>4. k \in TokenKeys /\ Controlled(tokens[k], OwnerOf(deployment, k))
  BY GuardedFacts DEF CustodyInv, Custody, TokenKeys, InitialTokens
<1>5. Deposited \in [TokenKeys -> Account] /\ \E n \in Nat : Deposited[k] = [tokens[k] EXCEPT !.amount = n]
  BY <1>1, <1>4, DepositedFacts
<1>6. Controlled(Deposited[k], OwnerOf(deployment, k)) /\ Deposited[k].delegate = tokens[k].delegate
  <2>1. tokens[k] \in Account
    BY <1>4, CurrentAccounts
  <2> QED
    BY <1>4, <1>5, <2>1 DEF Controlled, live, Account, TokenAccountRecord
<1>7. /\ validate_authorized_cpi(l, a, ix) /\ scan_ok(Deposited, call, l.sub)
      /\ tokens' \in invoke_authorized_cpi(Deposited, call)
      /\ reverify_subaccount_custody_except(scan_subaccount_custody(Deposited, call, l.sub), tokens', l.sub, {})
  BY <1>3 DEF DeployOutcome
<1> HIDE DEF l, call, pledged
<1>8. ASSUME OwnerOf(deployment, k) = l.sub, k \in writable_tokens(call)
      PROVE  After(Deposited[k], tokens'[k], l.sub, pledged)
  <2>1. Controlled(tokens'[k], l.sub) /\ tokens'[k].delegate = NoKey
    BY <1>6, <1>7, <1>8, ReverifiedIsControlled
  <2> QED
    BY <2>1 DEF After
<1>9. After(Deposited[k], tokens'[k], OwnerOf(deployment, k), pledged)
  BY <1>2, <1>5, <1>6, <1>7, <1>8, GuardedThroughInvoke DEF call
<1> QED
  BY <1>6, <1>9 DEF After, pledged

\* An unwind writes to no guarded account, and its payout moves balances only.
LEMMA UnwindLeavesGuarded ==
    ASSUME RegistryInv, TypeInv, tx # NoTx, NEW l, leg_formed(l, Deployments[deployment]),
           NEW a \in actions, NEW post, UnwindOutcome(l, a, authorized_call(l, a.ops), post),
           NEW k \in Guarded(deployment)
    PROVE  /\ k \in TokenKeys /\ post[k] = tokens[k]
           /\ \E n \in Nat : tokens'[k] = [tokens[k] EXCEPT !.amount = n]
<1> DEFINE call == authorized_call(l, a.ops)
<1>1. /\ a.scope = "AtomicRedeem" /\ validate_authorized_cpi(l, a, ix)
      /\ require_writable_metas_bound(call, a.ops)
      /\ post \in invoke_authorized_cpi(tokens, call)
      /\ OnlyBalances(post, tokens')
  BY DEF UnwindOutcome
<1>2. PICK u \in DOMAIN Templates : a.scope = Templates[u].scope /\ a.ops = Templates[u].ops /\ Instance(u, call)
  BY <1>1, ValidatedIsInstance
<1>3. Passed(call)
  BY RelayedCallFormed
<1> HIDE DEF call
<1>4. writable_tokens(call) \subseteq writable_tokens(Templates[u].call)
  BY <1>1, <1>2, <1>3, BoundMetasWriteWithin
<1>5. WrittenIn(deployment, Templates[u].call) = writable_tokens(Templates[u].call)
  BY DEF WrittenIn, writable_tokens, TokenKeys, InitialTokens
<1>6. k \notin writable_tokens(Templates[u].call)
  BY <1>1, <1>2, <1>5, GuardedIsNotExposed DEF Templates
<1>7. k \in TokenKeys
  BY GuardedFacts DEF TokenKeys, InitialTokens
<1>8. deployment \in DOMAIN Deployments /\ tokens \in [TokenKeys -> Account]
  BY TheDeployment, CurrentAccounts
<1>9. \A j \in TokenKeys : j \notin writable_tokens(call) => post[j] = tokens[j]
  BY <1>1, <1>3, <1>8, InvokeFacts
<1>10. post[k] = tokens[k]
  BY <1>4, <1>6, <1>7, <1>9
<1>11. \E n \in Nat : tokens'[k] = [post[k] EXCEPT !.amount = n]
  BY <1>1, <1>7, Zenon DEF OnlyBalances
<1> QED
  BY <1>7, <1>10, <1>11, Zenon

\* So an unwind keeps custody.
LEMMA AtomicRedeemKeeps ==
    ASSUME RegistryInv, TypeInv, CustodyInv, AtomicRedeem
    PROVE  Kept
<1> SUFFICES ASSUME NEW k \in Guarded(deployment)
             PROVE  After(tokens[k], tokens'[k], OwnerOf(deployment, k), Pledged(deployment, tx.body, pc + 1, k))
  BY DEF Kept
<1> DEFINE l == ix.legs[1]
<1>1. Running /\ ix.name = "AtomicRedeem"
  BY UnwindHasOutcome
<1>2. tx # NoTx /\ leg_formed(l, Deployments[deployment])
  BY <1>1, RunningFacts, RunningLeg DEF Relays
<1>3. PICK a \in stored_action(l.template) : \E post : UnwindOutcome(l, a, authorized_call(l, a.ops), post)
  BY UnwindHasOutcome
<1>4. a \in actions
  BY DEF stored_action
<1>5. Controlled(tokens[k], OwnerOf(deployment, k))
  BY DEF CustodyInv, Custody
<1> HIDE DEF l
<1>6. k \in TokenKeys /\ \E n \in Nat : tokens'[k] = [tokens[k] EXCEPT !.amount = n]
  BY <1>2, <1>3, <1>4, UnwindLeavesGuarded
<1>7. tokens[k] \in Account
  BY <1>6, CurrentAccounts
<1> QED
  BY <1>5, <1>6, <1>7 DEF Controlled, live, After, Account, TokenAccountRecord

\* The other instructions.
LEMMA OthersKeep ==
    ASSUME RegistryInv, TypeInv, CustodyInv, AssertDelegateCleared \/ FlashBorrow \/ DelegateSpend
    PROVE  Kept
<1> SUFFICES ASSUME NEW k \in Guarded(deployment)
             PROVE  After(tokens[k], tokens'[k], OwnerOf(deployment, k), Pledged(deployment, tx.body, pc + 1, k))
  BY DEF Kept
<1>1. Controlled(tokens[k], OwnerOf(deployment, k))
  BY DEF CustodyInv, Custody
<1>2. CASE tokens'[k] = tokens[k]
  BY <1>1, <1>2 DEF After
<1>3. CASE AssertDelegateCleared
  BY <1>2, <1>3 DEF AssertDelegateCleared
<1>4. CASE FlashBorrow \/ DelegateSpend
  <2> DEFINE e == ix.accounts[1]
  <2>1. PICK b \in Account : /\ tokens' = [tokens EXCEPT ![e] = b]
                             /\ live(tokens[e]) => ControlKept(tokens[e], b)
    BY <1>4, ExternalFacts
  <2>2. k \in TokenKeys /\ tokens \in [TokenKeys -> Account]
    BY GuardedFacts, CurrentAccounts DEF TokenKeys, InitialTokens
  <2> HIDE DEF e
  <2>3. CASE k # e
    BY <1>2, <2>1, <2>2, <2>3
  <2>4. CASE k = e
    <3>1. tokens'[k] = b /\ ControlKept(tokens[k], b)
      BY <1>1, <2>1, <2>2, <2>4 DEF Controlled
    <3> QED
      BY <1>1, <3>1 DEF Controlled, ControlKept, After
  <2> QED
    BY <2>3, <2>4
<1> QED
  BY <1>3, <1>4

\* A pledge outlives every instruction but the check itself.
LEMMA PledgeMovesOn ==
    ASSUME NEW d, NEW body, NEW n \in Nat, DOMAIN body \subseteq Nat, NEW k, Pledged(d, body, n, k),
           ~(/\ Deployments[d].instructions[body[n]].name = "AssertDelegateCleared"
             /\ Deployments[d].instructions[body[n]].accounts[1] = k)
    PROVE  Pledged(d, body, n + 1, k)
<1>1. PICK j \in DOMAIN body :
        /\ j >= n
        /\ Deployments[d].instructions[body[j]].name = "AssertDelegateCleared"
        /\ Deployments[d].instructions[body[j]].accounts[1] = k
  BY DEF Pledged
<1>2. j # n
  BY <1>1
<1>3. j >= n + 1
  BY <1>1, <1>2
<1> QED
  BY <1>1, <1>3 DEF Pledged

\* A pledge for later is a pledge.
LEMMA PledgeForLater ==
    ASSUME NEW d, NEW body, NEW n \in Nat, DOMAIN body \subseteq Nat, NEW k, Pledged(d, body, n + 1, k)
    PROVE  Pledged(d, body, n, k)
<1>1. PICK j \in DOMAIN body :
        /\ j >= n + 1
        /\ Deployments[d].instructions[body[j]].name = "AssertDelegateCleared"
        /\ Deployments[d].instructions[body[j]].accounts[1] = k
  BY DEF Pledged
<1>2. j >= n
  BY <1>1
<1> QED
  BY <1>1, <1>2 DEF Pledged

\* Instructions keep custody.
LEMMA InstructionKeepsCustody ==
    ASSUME RegistryInv, TypeInv, CustodyInv,
           Manage \/ Swap \/ DepositAndDeploy \/ AtomicRedeem \/ AssertDelegateCleared
             \/ FlashBorrow \/ DelegateSpend
    PROVE  Custody(deployment, tokens', tx', pc', saved')
<1>1. Kept
  BY ManageKeeps, SwapKeeps, DeployKeeps, AtomicRedeemKeeps, OthersKeep
<1>2. Running
  BY DEF Manage, Swap, DepositAndDeploy, AtomicRedeem, AssertDelegateCleared, FlashBorrow, DelegateSpend
<1>3. tx # NoTx /\ pc \in Nat /\ DOMAIN tx.body \subseteq Nat
  BY <1>2, RunningFacts DEF Transaction
<1>4. tx' = tx /\ saved' = saved /\ (pc' = pc \/ pc' = pc + 1)
  <2>1. Advance => tx' = tx /\ saved' = saved /\ pc' = pc + 1
    BY DEF Advance
  <2>2. next_leg => tx' = tx /\ saved' = saved /\ (pc' = pc \/ pc' = pc + 1)
    BY <2>1 DEF next_leg
  <2> QED
    BY <2>1, <2>2 DEF Manage, Swap, DepositAndDeploy, AtomicRedeem, AssertDelegateCleared, FlashBorrow, DelegateSpend
<1>5. ASSUME NEW k \in Guarded(deployment), tokens'[k].delegate # NoKey
      PROVE  Pledged(deployment, tx.body, pc + 1, k)
  <2>1. CASE tokens'[k].delegate = tokens[k].delegate
    <3>1. Pledged(deployment, tx.body, pc, k) /\ tokens[k].delegate # NoKey
      BY <1>5, <2>1 DEF CustodyInv, Custody
    <3>2. ASSUME ix.name = "AssertDelegateCleared", ix.accounts[1] = k PROVE FALSE
      <4>1. AssertDelegateCleared
        BY <3>2 DEF Manage, Swap, DepositAndDeploy, AtomicRedeem, FlashBorrow, DelegateSpend
      <4>2. tokens[k].delegate = NoKey
        BY <3>2, <4>1 DEF AssertDelegateCleared, assert_delegate_cleared
      <4> QED
        BY <3>1, <4>2
    <3>3. ix = Deployments[deployment].instructions[tx.body[pc]]
      BY <1>2, RunningFacts
    <3> QED
      BY <1>3, <3>1, <3>2, <3>3, PledgeMovesOn
  <2> QED
    BY <1>1, <1>5, <2>1 DEF Kept, After
<1>6. ASSUME NEW k \in Guarded(deployment), tokens'[k].delegate # NoKey
      PROVE  Pledged(deployment, tx.body, pc', k)
  <2>1. Pledged(deployment, tx.body, pc + 1, k)
    BY <1>5, <1>6
  <2>2. Pledged(deployment, tx.body, pc, k)
    BY <1>3, <2>1, PledgeForLater
  <2> QED
    BY <1>4, <2>1, <2>2
<1>7. ASSUME NEW k \in Guarded(deployment)
      PROVE  /\ Controlled(tokens'[k], OwnerOf(deployment, k))
             /\ Controlled(saved[k], OwnerOf(deployment, k)) /\ saved[k].delegate = NoKey
  BY <1>1, <1>3 DEF Kept, After, CustodyInv, Custody
<1> QED
  BY <1>3, <1>4, <1>6, <1>7 DEF Custody

\* Custody begins clean.
LEMMA CustodyInit ==
    ASSUME Init
    PROVE  CustodyInv
<1>1. deployment \in DOMAIN Deployments /\ tokens = Deployments[deployment].tokens /\ tx = NoTx
  BY DEF Init, InitialTokens
<1>2. ASSUME NEW k \in Guarded(deployment)
      PROVE  Controlled(tokens[k], OwnerOf(deployment, k)) /\ tokens[k].delegate = NoKey
  <2>1. k \in DOMAIN Deployments[deployment].tokens /\ OwnerOf(deployment, k) \in SubAccounts
    BY GuardedFacts
  <2>2. verify_custody_account(tokens[k], OwnerOf(deployment, k))
    BY <1>1, <2>1, CleanStartAssumption DEF OwnerOf
  <2> QED
    BY <2>2, CleanIsControlled
<1> QED
  BY <1>1, <1>2 DEF CustodyInv, Custody

\* Once the last instruction ran, nothing is pledged any more.
LEMMA NothingPledgedAtTheEnd ==
    ASSUME RegistryInv, TypeInv, Finished, NEW k
    PROVE  ~Pledged(deployment, tx.body, pc, k)
<1>1. tx # NoTx /\ pc > Len(tx.body) /\ Transaction(deployment, tx, pc, leg, saved)
  BY DEF Finished, TypeInv, Typing
<1>2. DOMAIN tx.body = 1..Len(tx.body) /\ Len(tx.body) \in Nat /\ pc \in Nat
  BY <1>1 DEF Transaction
<1>3. \A j \in DOMAIN tx.body : ~(j >= pc)
  BY <1>1, <1>2
<1> QED
  BY <1>3 DEF Pledged

\* Every step keeps custody.
LEMMA CustodyInductive ==
    ASSUME RegistryInv, TypeInv, CustodyInv, [Next]_vars
    PROVE  CustodyInv'
<1>1. Custody(deployment, tokens, tx, pc, saved)
  BY DEF CustodyInv
<1>2. SUFFICES Custody(deployment', tokens', tx', pc', saved')
  BY DEF CustodyInv
<1>3. ASSUME deployment' = deployment, UNCHANGED tx_vars
      PROVE  Custody(deployment', tokens', tx', pc', saved')
  <2>1. tokens' = tokens /\ tx' = tx /\ pc' = pc /\ saved' = saved
    BY <1>3 DEF tx_vars
  <2> QED
    BY <1>1, <1>3, <2>1
<1>4. ASSUME RegistryStep PROVE Custody(deployment', tokens', tx', pc', saved')
  BY <1>3, <1>4 DEF RegistryStep, AuthorizeAction, RevokeAction, AdminSetFlashFeeRate,
     StrategistLowerFlashFeeRate, update_action_flash_fee, SetStrategist, SetManagePaused
<1>5. ASSUME TransactionStep PROVE Custody(deployment', tokens', tx', pc', saved')
  <2>1. deployment' = deployment
    BY <1>5, TransactionsLeaveTheRegistry
  <2>2. ASSUME NEW signer, NEW body, Begin(signer, body)
        PROVE  Custody(deployment', tokens', tx', pc', saved')
    <3>1. tx = NoTx /\ tokens' = tokens /\ saved' = tokens
      BY <2>2 DEF Begin
    <3>2. \A k \in Guarded(deployment) : Controlled(tokens[k], OwnerOf(deployment, k)) /\ tokens[k].delegate = NoKey
      BY <1>1, <3>1 DEF Custody
    <3> QED
      BY <2>1, <3>1, <3>2 DEF Custody
  <2>3. ASSUME Commit PROVE Custody(deployment', tokens', tx', pc', saved')
    <3>1. tx' = NoTx /\ tokens' = tokens /\ Finished
      BY <2>3 DEF Commit
    <3>2. \A k \in Guarded(deployment) : Controlled(tokens[k], OwnerOf(deployment, k)) /\ tokens[k].delegate = NoKey
      BY <1>1, <3>1, NothingPledgedAtTheEnd DEF Custody
    <3> QED
      BY <2>1, <3>1, <3>2 DEF Custody
  <2>4. ASSUME Abort PROVE Custody(deployment', tokens', tx', pc', saved')
    <3>1. tx' = NoTx /\ tokens' = saved /\ tx # NoTx
      BY <2>4 DEF Abort
    <3>2. \A k \in Guarded(deployment) : Controlled(saved[k], OwnerOf(deployment, k)) /\ saved[k].delegate = NoKey
      BY <1>1, <3>1 DEF Custody
    <3> QED
      BY <2>1, <3>1, <3>2 DEF Custody
  <2>5. CASE Manage \/ Swap \/ DepositAndDeploy \/ AtomicRedeem \/ AssertDelegateCleared
               \/ FlashBorrow \/ DelegateSpend
    BY <2>1, <2>5, InstructionKeepsCustody
  <2> QED
    BY <1>5, <2>2, <2>3, <2>4, <2>5 DEF TransactionStep
<1>6. ASSUME UNCHANGED vars PROVE Custody(deployment', tokens', tx', pc', saved')
  BY <1>3, <1>6 DEF vars, registry_vars
<1> QED
  BY <1>4, <1>5, <1>6 DEF Next

\* What is not exposed to an unwind is guarded.
LEMMA UnexposedIsGuarded ==
    ASSUME NEW k \in CustodyKeys \ Exposed
    PROVE  k \in Guarded(deployment)
<1>1. \A c : WrittenIn(deployment, c) = writable_tokens(c)
  BY DEF WrittenIn, writable_tokens, TokenKeys, InitialTokens
<1>2. ASSUME HandedToUnwinds(deployment, k) PROVE FALSE
  <2>1. PICK t \in DOMAIN Templates : Templates[t].scope = "AtomicRedeem" /\ k \in writable_tokens(Templates[t].call)
    BY <1>1, <1>2 DEF HandedToUnwinds, Templates
  <2> DEFINE unwinds == {u \in DOMAIN Templates : Templates[u].scope = "AtomicRedeem"}
             written == {writable_tokens(Templates[u].call) : u \in unwinds}
  <2>2. writable_tokens(Templates[t].call) \in written
    BY <2>1
  <2>3. Exposed = UNION written
    BY DEF Exposed
  <2> HIDE DEF written
  <2>4. k \in Exposed
    BY <2>1, <2>2, <2>3
  <2> QED
    BY <2>4
<1> QED
  BY <1>2 DEF Guarded, CustodyKeys, TokenKeys, InitialTokens

\* With no transaction running, control without a delegate is clean custody.
LEMMA CustodyAtRest ==
    ASSUME RegistryInv, CustodyInv
    PROVE  CustodyIsCleanAtRest
<1> SUFFICES ASSUME tx = NoTx, NEW k \in CustodyKeys \ Exposed
             PROVE  verify_custody_account(tokens[k], InitialTokens[k].owner)
  BY DEF CustodyIsCleanAtRest, AtRest
<1>2. k \in Guarded(deployment)
  BY UnexposedIsGuarded
<1>3. Controlled(tokens[k], OwnerOf(deployment, k)) /\ tokens[k].delegate = NoKey
  BY <1>2 DEF CustodyInv, Custody
<1>4. InitialTokens[k].owner = OwnerOf(deployment, k)
  BY DEF OwnerOf, InitialTokens
<1> QED
  BY <1>3, <1>4, CleanIsControlled

(***************************************************************************)
(* Between transactions nobody but its sub-account controls a custody      *)
(* account, for every deployment in which the admin's FlashApprove         *)
(* patterns commit to the cleared check, however transactions arrange,     *)
(* repeat or leave out instructions and whatever venues do, those of       *)
(* deposits included (scan and reverify, bind_flash_siblings,              *)
(* verify_swap_endpoint_unchanged, assert_delegate_cleared).  Only         *)
(* accounts no AtomicRedeem route is handed as writable: a redeemer names  *)
(* the one custody account that is re-verified.                            *)
(***************************************************************************)
THEOREM CustodyStaysClean == Spec => []CustodyIsCleanAtRest
<1>1. Init => RegistryInv /\ TypeInv /\ CustodyInv
  BY RegistryInit, TypeInit, CustodyInit
<1>2. RegistryInv /\ TypeInv /\ CustodyInv /\ [Next]_vars => RegistryInv' /\ TypeInv' /\ CustodyInv'
  BY RegistryInductive, TypeInductive, CustodyInductive
<1>3. RegistryInv /\ CustodyInv => CustodyIsCleanAtRest
  BY CustodyAtRest
<1> QED
  BY <1>1, <1>2, <1>3, PTL DEF Spec

-----------------------------------------------------------------------------
(* What flash loans and delegates move.                                      *)

\* What a delegate may still take.
Allowance(a) == IF a.delegate = NoKey THEN 0 ELSE a.delegated_amount

\* An account its owner did not sign for: it lost what its delegate drew, and no more.
Drawn(a, b) ==
    /\ live(b) /\ b.owner = a.owner
    /\ delegate_spent(a, b) \in Nat
    /\ a.amount <= b.amount + delegate_spent(a, b)
    /\ delegate_spent(a, b) + Allowance(b) = Allowance(a)

\* An account nothing happened to.
LEMMA NothingDrawn ==
    ASSUME NEW a \in Account, live(a)
    PROVE  Drawn(a, a)
BY DEF Drawn, delegate_spent, Allowance, Account, TokenAccountRecord

\* Credits draw nothing.
LEMMA CreditDraws ==
    ASSUME NEW a \in Account, live(a), NEW n \in Nat, a.amount <= n
    PROVE  Drawn(a, [a EXCEPT !.amount = n])
BY DEF Drawn, delegate_spent, Allowance, Account, TokenAccountRecord, live

\* A delegate draws on its allowance.
LEMMA DelegateDraws ==
    ASSUME NEW a \in Account, live(a), a.delegate # NoKey,
           NEW n \in Nat, n <= a.amount, n <= a.delegated_amount
    PROVE  Drawn(a, spl_delegate_debit(a, n)) /\ delegate_spent(a, spl_delegate_debit(a, n)) = n
<1> DEFINE left == a.amount - n
           allowed == a.delegated_amount - n
           to == IF a.delegated_amount = n THEN NoKey ELSE a.delegate
           b == [a EXCEPT !.amount = left, !.delegated_amount = allowed, !.delegate = to]
<1>1. a.amount \in Nat /\ a.delegated_amount \in Nat
  BY DEF Account, TokenAccountRecord
<1>2. left \in Nat /\ allowed \in Nat /\ left + n = a.amount /\ allowed + n = a.delegated_amount
  BY <1>1
<1>3. spl_delegate_debit(a, n) = b
  BY DEF spl_delegate_debit
<1>4. to = NoKey => allowed = 0
  BY <1>1
<1> HIDE DEF left, allowed, to
<1>5. /\ b.amount = left /\ b.delegated_amount = allowed /\ b.delegate = to /\ b.owner = a.owner
      /\ b.program = a.program /\ b.initialized = a.initialized
  BY DEF Account, TokenAccountRecord
<1> HIDE DEF b
<1>6. delegate_spent(a, b) = a.delegated_amount - allowed
  BY <1>5 DEF delegate_spent
<1>7. delegate_spent(a, b) = n
  BY <1>1, <1>2, <1>6
<1>8. Allowance(b) = allowed /\ Allowance(a) = a.delegated_amount
  BY <1>4, <1>5 DEF Allowance
<1>9. live(b)
  BY <1>5 DEF live
<1> QED
  BY <1>1, <1>2, <1>3, <1>5, <1>7, <1>8, <1>9 DEF Drawn

\* What a venue does to an account whose owner did not sign, and to the mint of any account.
LEMMA TouchedDraws ==
    ASSUME deployment \in DOMAIN Deployments, NEW a \in Account, NEW signed \in BOOLEAN,
           NEW b \in touched(a, signed)
    PROVE  b.mint = a.mint /\ (live(a) /\ ~signed => Drawn(a, b))
<1>1. CASE ~live(a)
  BY <1>1 DEF touched
<1>2. CASE live(a) /\ b \in {[a EXCEPT !.amount = n] : n \in {m \in Amounts : signed \/ m >= a.amount}}
  <2>1. PICK n \in Amounts : b = [a EXCEPT !.amount = n] /\ (signed \/ n >= a.amount)
    BY <1>2
  <2>2. n \in Nat /\ a.amount \in Nat
    BY AmountsAreNaturals DEF Account, TokenAccountRecord
  <2>3. b.mint = a.mint
    BY <2>1 DEF Account, TokenAccountRecord
  <2>4. ~signed => Drawn(a, b)
    BY <1>2, <2>1, <2>2, CreditDraws
  <2> QED
    BY <2>3, <2>4
<1>3. CASE /\ live(a) /\ a.delegate # NoKey
           /\ b \in {spl_delegate_debit(a, n) :
                       n \in {m \in Amounts : m <= a.amount /\ m <= a.delegated_amount}}
  <2>1. PICK n \in Amounts : n <= a.amount /\ n <= a.delegated_amount /\ b = spl_delegate_debit(a, n)
    BY <1>3
  <2>2. n \in Nat
    BY AmountsAreNaturals
  <2>3. b.mint = a.mint
    BY <2>1 DEF Account, TokenAccountRecord, spl_delegate_debit
  <2> QED
    BY <1>3, <2>1, <2>2, <2>3, DelegateDraws
<1>4. CASE /\ signed
           /\ b \in {spl_approve(a, PlantedKey, 1), [a EXCEPT !.close_authority = PlantedKey],
                     [a EXCEPT !.owner = PlantedKey], [a EXCEPT !.initialized = FALSE]}
  BY <1>4 DEF Account, TokenAccountRecord, spl_approve
<1> QED
  BY <1>1, <1>2, <1>3, <1>4 DEF touched

\* Whatever program a relay calls.
LEMMA InvokeDraws ==
    ASSUME deployment \in DOMAIN Deployments, NEW toks \in [TokenKeys -> Account],
           NEW call, Passed(call), NEW post \in invoke_authorized_cpi(toks, call), NEW k \in TokenKeys
    PROVE  /\ post[k].mint = toks[k].mint
           /\ live(toks[k]) /\ ~signs(call, toks[k].owner) => Drawn(toks[k], post[k])
<1>1. toks[k] \in Account
  OBVIOUS
<1>2. CASE verify_is_approve(call)
  <2> DEFINE source == call.metas[1].key
             written == spl_approve(toks[source], call.metas[2].key, call.data[2])
  <2>1. /\ Len(call.metas) >= 3 /\ call.metas[3].key = toks[source].owner /\ call.metas[3].is_signer
        /\ source \in writable_tokens(call)
        /\ post = [toks EXCEPT ![source] = written]
    BY <1>2 DEF invoke_authorized_cpi, spl_outcomes
  <2>2. 3 \in DOMAIN call.metas /\ source \in TokenKeys
    BY <2>1 DEF Passed, writable_tokens
  <2>3. signs(call, toks[source].owner)
    BY <2>1, <2>2 DEF signs
  <2>4. written.mint = toks[source].mint
    <3>1. toks[source] \in Account
      BY <2>2
    <3> HIDE DEF source
    <3> QED
      BY <3>1 DEF Account, TokenAccountRecord, spl_approve
  <2> HIDE DEF source, written
  <2>5. post[source] = written /\ (k # source => post[k] = toks[k])
    BY <2>1, <2>2
  <2> QED
    BY <1>1, <2>3, <2>4, <2>5, NothingDrawn
<1>3. CASE ~verify_is_approve(call)
  <2> DEFINE w == writable_tokens(call)
  <2>1. PICK f : /\ \A j \in w : f[j] \in touched(toks[j], signs(call, toks[j].owner))
                 /\ post = [j \in TokenKeys |-> IF j \in w THEN f[j] ELSE toks[j]]
    BY <1>3 DEF invoke_authorized_cpi
  <2> HIDE DEF w
  <2>2. CASE k \in w
    <3>1. post[k] = f[k] /\ f[k] \in touched(toks[k], signs(call, toks[k].owner))
      BY <2>1, <2>2
    <3>2. signs(call, toks[k].owner) \in BOOLEAN
      BY DEF signs
    <3>3. f[k].mint = toks[k].mint /\ (live(toks[k]) /\ ~signs(call, toks[k].owner) => Drawn(toks[k], f[k]))
      BY <1>1, <3>1, <3>2, TouchedDraws
    <3> QED
      BY <3>1, <3>3
  <2>3. CASE k \notin w
    <3>1. post[k] = toks[k]
      BY <2>1, <2>3
    <3> QED
      BY <1>1, <3>1, NothingDrawn
  <2> QED
    BY <2>2, <2>3
<1> QED
  BY <1>2, <1>3

\* The books: what loans paid in, what the committed fees are, what delegates took.
Books == [borrowed : Int, fees : Int, spent : Int]

FlowInv == flow \in [DOMAIN Deployments[deployment].tokens -> Books]

\* What a delegate took is a number.
LEMMA SpentIsNumber ==
    ASSUME NEW a \in Account, NEW b \in Account
    PROVE  delegate_spent(a, b) \in Int
BY DEF delegate_spent, Account, TokenAccountRecord

\* A relay books what delegates took.
LEMMA SpendingBooked ==
    ASSUME tokens \in [TokenKeys -> Account], NEW post \in [TokenKeys -> Account],
           flow \in [TokenKeys -> Books]
    PROVE  /\ with_spending(flow, post) \in [TokenKeys -> Books]
           /\ \A k \in TokenKeys :
                /\ with_spending(flow, post)[k].spent = flow[k].spent + delegate_spent(tokens[k], post[k])
                /\ with_spending(flow, post)[k].borrowed = flow[k].borrowed
                /\ with_spending(flow, post)[k].fees = flow[k].fees
<1> DEFINE one(k) == [flow[k] EXCEPT !.spent = @ + delegate_spent(tokens[k], post[k])]
<1>1. ASSUME NEW k \in TokenKeys
      PROVE  /\ one(k) \in Books /\ one(k).spent = flow[k].spent + delegate_spent(tokens[k], post[k])
             /\ one(k).borrowed = flow[k].borrowed /\ one(k).fees = flow[k].fees
  <2>1. delegate_spent(tokens[k], post[k]) \in Int
    BY SpentIsNumber
  <2>2. flow[k] \in Books
    OBVIOUS
  <2> QED
    BY <2>1, <2>2 DEF Books
<1>2. with_spending(flow, post) = [k \in TokenKeys |-> one(k)]
  BY DEF with_spending
<1> HIDE DEF one
<1> QED
  BY <1>1, <1>2

\* A flash approval books its fee on top.
FeeBooked(f, k, fee) == [f EXCEPT ![k].fees = @ + fee]

\* Only that account's fees change.
LEMMA FeesBooked ==
    ASSUME NEW S, NEW f \in [S -> Books], NEW k, NEW fee \in Int
    PROVE  /\ FeeBooked(f, k, fee) \in [S -> Books]
           /\ \A j \in S : /\ FeeBooked(f, k, fee)[j].spent = f[j].spent
                           /\ FeeBooked(f, k, fee)[j].borrowed = f[j].borrowed
                           /\ FeeBooked(f, k, fee)[j].fees = IF j = k THEN f[j].fees + fee ELSE f[j].fees
<1>1. CASE k \in S
  <2> DEFINE b == [f[k] EXCEPT !.fees = @ + fee]
  <2>1. b \in Books /\ b.spent = f[k].spent /\ b.borrowed = f[k].borrowed /\ b.fees = f[k].fees + fee
    BY <1>1 DEF Books
  <2>2. FeeBooked(f, k, fee) = [f EXCEPT ![k] = b]
    BY DEF FeeBooked
  <2> HIDE DEF b
  <2> QED
    BY <1>1, <2>1, <2>2
<1>2. CASE k \notin S
  <2>1. FeeBooked(f, k, fee) = f
    BY <1>2 DEF FeeBooked
  <2> QED
    BY <1>2, <2>1
<1> QED
  BY <1>1, <1>2

\* The books of the account an external instruction names.
LoanBooked(f, k, n) == [f EXCEPT ![k].borrowed = @ + n]

DrawBooked(f, k, n) == [f EXCEPT ![k].spent = @ + n]

\* Only that account's books change.
LEMMA LoansBooked ==
    ASSUME NEW S, NEW f \in [S -> Books], NEW k \in S, NEW n \in Int
    PROVE  /\ LoanBooked(f, k, n) \in [S -> Books] /\ DrawBooked(f, k, n) \in [S -> Books]
           /\ \A j \in S : j # k => LoanBooked(f, k, n)[j] = f[j] /\ DrawBooked(f, k, n)[j] = f[j]
           /\ LoanBooked(f, k, n)[k].borrowed = f[k].borrowed + n
           /\ LoanBooked(f, k, n)[k].spent = f[k].spent /\ LoanBooked(f, k, n)[k].fees = f[k].fees
           /\ DrawBooked(f, k, n)[k].spent = f[k].spent + n
           /\ DrawBooked(f, k, n)[k].borrowed = f[k].borrowed /\ DrawBooked(f, k, n)[k].fees = f[k].fees
<1> DEFINE b == [f[k] EXCEPT !.borrowed = @ + n]
           c == [f[k] EXCEPT !.spent = @ + n]
<1>1. /\ b \in Books /\ b.spent = f[k].spent /\ b.borrowed = f[k].borrowed + n /\ b.fees = f[k].fees
      /\ c \in Books /\ c.spent = f[k].spent + n /\ c.borrowed = f[k].borrowed /\ c.fees = f[k].fees
  BY DEF Books
<1>2. LoanBooked(f, k, n) = [f EXCEPT ![k] = b] /\ DrawBooked(f, k, n) = [f EXCEPT ![k] = c]
  BY DEF LoanBooked, DrawBooked
<1> HIDE DEF b, c
<1> QED
  BY <1>1, <1>2

\* A relay draws on the accounts of other sub-accounts only through their delegates.
LEMMA OthersDraw ==
    ASSUME RegistryInv, TypeInv, tx # NoTx, NEW toks \in [TokenKeys -> Account],
           NEW l, leg_formed(l, Deployments[deployment]), NEW a, validate_authorized_cpi(l, a, ix),
           NEW post \in invoke_authorized_cpi(toks, authorized_call(l, a.ops)),
           NEW k \in TokenKeys, Held(toks[k]),
           toks[k].owner # l.sub \/ k \notin writable_tokens(authorized_call(l, a.ops))
    PROVE  Drawn(toks[k], post[k])
<1> DEFINE call == authorized_call(l, a.ops)
<1>1. Passed(call) /\ deployment \in DOMAIN Deployments 
  BY RelayedCallFormed, TheDeployment
<1>2. live(toks[k]) /\ toks[k].owner \in SubAccounts /\ toks[k] \in Account
  BY <1>1 DEF Held
<1>3. toks[k].owner # l.sub => ~signs(call, toks[k].owner)
  BY <1>2, OthersDoNotSign
<1>4. post \in invoke_authorized_cpi(toks, call)
  OBVIOUS
<1> HIDE DEF call
<1>5. CASE toks[k].owner # l.sub
  BY <1>1, <1>2, <1>3, <1>4, <1>5, InvokeDraws
<1>6. CASE k \notin writable_tokens(call)
  <2>1. post[k] = toks[k]
    BY <1>1, <1>4, <1>6, InvokeFacts
  <2> QED
    BY <1>2, <2>1, NothingDrawn
<1> QED
  BY <1>5, <1>6 DEF call

\* Accounts that are clean before and after a call have lost nothing to delegates.
LEMMA CleanDraws ==
    ASSUME NEW a, NEW b, NEW sub, is_clean_custody(a, sub) = "clean", is_clean_custody(b, sub) = "clean"
    PROVE  delegate_spent(a, b) = 0 /\ Allowance(a) = 0 /\ Allowance(b) = 0 /\ live(b) /\ b.owner = sub
<1>1. a.delegate = NoKey /\ b.delegate = NoKey /\ Controlled(b, sub)
  BY CleanIsControlled
<1> QED
  BY <1>1 DEF delegate_spent, Allowance, Controlled

-----------------------------------------------------------------------------
(* Swaps.                                                                    *)

\* Only Swap moves on from a Swap instruction.
LEMMA OnlySwapAdvances ==
    ASSUME RegistryInv, TypeInv, [Next]_vars, Running, ix.name = "Swap", pc' = pc + 1
    PROVE  Swap
<1>1. tx # NoTx /\ pc \in Nat \ {0}
  BY RunningFacts
<1>2. ~RegistryStep
  BY <1>1 DEF RegistryStep, AuthorizeAction, RevokeAction, AdminSetFlashFeeRate, StrategistLowerFlashFeeRate,
     update_action_flash_fee, SetStrategist, SetManagePaused
<1>3. pc' # 0 /\ pc' # pc
  BY <1>1
<1>4. \A signer, body : ~Begin(signer, body)
  BY <1>1 DEF Begin
<1>5. ~Commit /\ ~Abort
  BY <1>3 DEF Commit, Abort
<1>6. /\ ~Manage /\ ~DepositAndDeploy /\ ~AtomicRedeem /\ ~AssertDelegateCleared /\ ~FlashBorrow
      /\ ~DelegateSpend
  BY DEF Manage, DepositAndDeploy, AtomicRedeem, AssertDelegateCleared, FlashBorrow, DelegateSpend
<1>7. ~UNCHANGED vars
  BY <1>3 DEF vars, tx_vars
<1> QED
  BY <1>2, <1>4, <1>5, <1>6, <1>7 DEF Next, TransactionStep

\* What was received is worth what was spent, less the tolerance.
Worthwhile(spent, received, pin, pout, s) ==
    received * pout >= ceil_div(spent * pin * (10000 - s), 10000)

LossWithin(spent, received, pin, pout, s, most) ==
    (spent * pin - received * pout) * 10000 <= s * most * pin

\* What the value check asks, without its division.
LEMMA ToleratedLoss ==
    ASSUME NEW spent \in Nat, NEW received \in Nat, NEW pin \in Nat, NEW pout \in Nat,
           NEW s \in Nat, s <= 10000, NEW max_in \in Nat, spent <= max_in,
           Worthwhile(spent, received, pin, pout, s)
    PROVE  LossWithin(spent, received, pin, pout, s, max_in)
<1> DEFINE x == spent * pin
           y == received * pout
           n == x * (10000 - s)
           m == n + 10000 - 1
           q == m \div 10000
<1>1. x \in Nat /\ y \in Nat /\ s \in Nat /\ 10000 - s \in Nat
  OBVIOUS
<1>2. n \in Nat
  <2> HIDE DEF x
  <2> QED
    BY <1>1
<1>3. y >= q
  BY DEF ceil_div, Worthwhile
<1> HIDE DEF x, y
<1>4. n = x * 10000 - x * s /\ x * s \in Nat
  BY <1>1
<1> HIDE DEF n
<1>5. q \in Int /\ q * 10000 >= n
  <2>1. m \in Nat
    BY <1>2
  <2> HIDE DEF m
  <2> DEFINE rest == m % 10000
  <2>2. m = 10000 * q + rest /\ rest \in Int /\ rest <= 9999 /\ q \in Int
    BY <2>1, SMT
  <2>3. m = n + 9999
    BY <1>2 DEF m
  <2> HIDE DEF q, rest
  <2> QED
    BY <1>2, <2>1, <2>2, <2>3, SMT
<1> HIDE DEF q
<1>6. (x - y) * 10000 <= x * s
  BY <1>1, <1>3, <1>4, <1>5
<1>7. x * s <= s * max_in * pin
  <2> DEFINE z == max_in * pin
  <2>1. x <= z /\ z \in Nat
    BY ProductMonotone DEF x
  <2>2. s * max_in * pin = z * s
    BY <1>1
  <2> HIDE DEF z
  <2>3. x * s <= z * s
    BY <1>1, <2>1, ProductMonotone
  <2> QED
    BY <2>2, <2>3
<1> QED
  <2> DEFINE z == s * max_in * pin
  <2>1. z \in Int
    BY <1>1
  <2> HIDE DEF z
  <2>2. x * s <= z
    BY <1>7 DEF z
  <2>3. (x - y) * 10000 <= z
    BY <1>1, <1>4, <1>6, <2>1, <2>2
  <2> QED
    BY <2>3 DEF x, y, z, LossWithin

\* Accounts have a value.
LEMMA ValueIsNumber ==
    ASSUME NEW a \in Account
    PROVE  AccountValue(a) \in Nat /\ Price[a.mint] \in Nat /\ a.amount \in Nat
<1>1. a.mint \in DOMAIN Price /\ a.amount \in Nat
  BY DEF Account, TokenAccountRecord
<1>2. Price[a.mint] \in Nat
  BY <1>1, DeploymentsAssumption
<1>3. a.amount * Price[a.mint] \in Nat
  BY <1>1, <1>2
<1> QED
  BY <1>1, <1>2, <1>3 DEF AccountValue

\* An endpoint of which only the balance moved.
LEMMA EndpointMoves ==
    ASSUME NEW a \in Account, NEW b \in Account, verify_swap_endpoint_unchanged(a, b)
    PROVE  /\ b.mint = a.mint /\ (Held(a) => Held(b)) /\ delegate_spent(a, b) = 0
           /\ Allowance(b) = Allowance(a)
<1>1. [a EXCEPT !.amount = 0] = [b EXCEPT !.amount = 0]
  BY DEF verify_swap_endpoint_unchanged
<1>2. /\ b.program = a.program /\ b.initialized = a.initialized /\ b.mint = a.mint /\ b.owner = a.owner
      /\ b.delegate = a.delegate /\ b.delegated_amount = a.delegated_amount
  BY <1>1 DEF Account, TokenAccountRecord
<1>3. a.delegated_amount - a.delegated_amount = 0
  BY DEF Account, TokenAccountRecord
<1> QED
  BY <1>2, <1>3 DEF Held, live, delegate_spent, Allowance

\* A swap, as far as balances go.
SwapOutcome(l, a, call, input, output) ==
    /\ validate_authorized_cpi(l, a, ix)
    /\ tokens' \in invoke_authorized_cpi(tokens, call)
    /\ swap_loaded(l, a, input, output)
    /\ swap_settled(l, input, output, call, tokens')
    /\ tokens[input].amount - tokens'[input].amount <= ix.max_in
    /\ verify_swap_value(input, output, tokens[input].amount - tokens'[input].amount,
                         tokens'[output].amount - tokens[output].amount)
    /\ flow' = with_spending(flow, tokens')

\* What a Swap step did.
LEMMA SwapHasOutcome ==
    ASSUME Swap
    PROVE  \E a \in stored_action(ix.legs[1].template) :
             SwapOutcome(ix.legs[1], a, authorized_call(ix.legs[1], a.ops), ix.accounts[1], ix.accounts[2])
BY DEF Swap, SwapOutcome

\* The accounts a swap is not about lose no value but what their delegates draw.
LEMMA BystandersKeepValue ==
    ASSUME RegistryInv, TypeInv, FlowInv, Running,
           NEW l, leg_formed(l, Deployments[deployment]), NEW a, NEW input, NEW output,
           SwapOutcome(l, a, authorized_call(l, a.ops), input, output),
           tokens' \in [TokenKeys -> Account],
           NEW k \in TokenKeys, k # input, k # output
    PROVE  /\ DrawnFrom(k) \in Nat
           /\ AccountValue(tokens[k]) <= AccountValue(tokens'[k]) + DrawnFrom(k)
<1> DEFINE call == authorized_call(l, a.ops)
           drawn == delegate_spent(tokens[k], tokens'[k])
           price == Price[tokens[k].mint]
<1>1. /\ tx # NoTx /\ tokens \in [TokenKeys -> Account] /\ deployment \in DOMAIN Deployments
      /\ flow \in [TokenKeys -> Books] /\ Passed(call)
  BY RunningFacts, CurrentAccounts, TheDeployment, RelayedCallFormed DEF FlowInv, TokenKeys, InitialTokens
<1>2. /\ validate_authorized_cpi(l, a, ix) /\ tokens' \in invoke_authorized_cpi(tokens, call)
      /\ swap_settled(l, input, output, call, tokens') /\ flow' = with_spending(flow, tokens')
  BY DEF SwapOutcome
<1>3. AccountValue(tokens[k]) \in Nat /\ AccountValue(tokens'[k]) \in Nat /\ price \in Nat
  <2>1. tokens[k] \in Account /\ tokens'[k] \in Account
    BY <1>1
  <2> QED
    BY <2>1, ValueIsNumber
<1>4. CASE ~Held(tokens[k])
  BY <1>3, <1>4 DEF DrawnFrom, AccountValue
<1>5. CASE Held(tokens[k])
  <2>1. flow'[k].spent - flow[k].spent = drawn /\ drawn \in Int
    <3>1. flow'[k].spent = flow[k].spent + drawn /\ flow[k].spent \in Int
      <4>1. flow[k] \in Books
        BY <1>1
      <4> QED
        BY <1>1, <1>2, <4>1, SpendingBooked DEF Books
    <3>2. drawn \in Int
      BY <1>1, SpentIsNumber
    <3> HIDE DEF drawn
    <3> QED
      BY <3>1, <3>2
  <2>2. DrawnFrom(k) = drawn * price
    BY <1>5, <2>1 DEF DrawnFrom
  <2>3. tokens'[k].mint = tokens[k].mint /\ tokens[k].amount \in Nat /\ tokens'[k].amount \in Nat
    <3>1. tokens'[k].mint = tokens[k].mint
      BY <1>1, <1>2, InvokeDraws
    <3> QED
      BY <1>1, <3>1, ValueIsNumber
  <2>4. /\ Held(tokens'[k]) /\ drawn \in Nat /\ tokens[k].amount <= tokens'[k].amount + drawn
    <3>1. CASE tokens[k].owner # l.sub \/ k \notin writable_tokens(call)
      <4>1. Drawn(tokens[k], tokens'[k])
        BY <1>1, <1>2, <1>5, <3>1, OthersDraw
      <4> QED
        BY <1>5, <4>1 DEF Drawn, Held
    <3>2. CASE tokens[k].owner = l.sub /\ k \in writable_tokens(call)
      <4> DEFINE snapshot == snapshot_writable_custody(tokens, call, l.sub, {input, output})
      <4>1. is_clean_custody(tokens[k], l.sub) # "tainted" /\ verify_custody_unchanged(snapshot, tokens', l.sub)
        BY <1>2, <3>2 DEF swap_settled
      <4>2. is_clean_custody(tokens[k], l.sub) = "clean"
        BY <1>5, <3>2, <4>1 DEF is_clean_custody, Held
      <4>3. k \in DOMAIN snapshot /\ snapshot[k] = tokens[k].amount
        BY <3>2, <4>2 DEF snapshot_writable_custody, scan_subaccount_custody
      <4>4. is_clean_custody(tokens'[k], l.sub) = "clean" /\ tokens'[k].amount = tokens[k].amount
        BY <4>1, <4>3 DEF verify_custody_unchanged
      <4>5. drawn = 0 /\ live(tokens'[k]) /\ tokens'[k].owner = l.sub
        BY <4>2, <4>4, CleanDraws
      <4> HIDE DEF drawn
      <4> QED
        BY <1>5, <2>3, <3>2, <4>4, <4>5 DEF Held
    <3> QED
      BY <3>1, <3>2
  <2>5. /\ AccountValue(tokens[k]) = tokens[k].amount * price
        /\ AccountValue(tokens'[k]) = tokens'[k].amount * price
    BY <1>5, <2>3, <2>4 DEF AccountValue
  <2> HIDE DEF drawn, price
  <2>6. tokens[k].amount * price <= (tokens'[k].amount + drawn) * price
    BY <1>3, <2>3, <2>4, ProductMonotone
  <2>7. (tokens'[k].amount + drawn) * price = tokens'[k].amount * price + drawn * price
    BY <1>3, <2>3, <2>4
  <2>8. drawn * price \in Nat
    BY <1>3, <2>4
  <2> QED
    BY <2>2, <2>5, <2>6, <2>7, <2>8
<1> QED
  BY <1>4, <1>5

\* The tolerance is a fraction.
LEMMA ToleranceIsFraction ==
    ASSUME RegistryInv
    PROVE  MaxSwapSlippageBps \in Nat /\ MaxSwapSlippageBps <= 10000
<1> DEFINE d == Deployments[deployment]
<1>1. deployment_formed(d)
  BY TheDeployment
<1> HIDE DEF d
<1>2. d.slippage_bps \in Nat /\ d.slippage_bps <= 10000
  BY <1>1 DEF deployment_formed
<1> QED
  BY <1>2, SMTT(30) DEF d, MaxSwapSlippageBps

\* The endpoints of a swap lose what the value check tolerates.
LEMMA EndpointsKeepValue ==
    ASSUME RegistryInv, TypeInv, FlowInv, MaxSwapSlippageBps > 0, ix.max_in \in Nat,
           NEW l, NEW a, NEW call, NEW input \in TokenKeys, NEW output \in TokenKeys,
           SwapOutcome(l, a, call, input, output), tokens' \in [TokenKeys -> Account]
    PROVE  /\ ((AccountValue(tokens[input]) - AccountValue(tokens'[input]))
                + (AccountValue(tokens[output]) - AccountValue(tokens'[output]))) * 10000
                 <= MaxSwapSlippageBps * ix.max_in * Price[tokens[input].mint]
           /\ DrawnFrom(input) \in Nat /\ DrawnFrom(output) \in Nat
           /\ input # output
<1>1. /\ tokens \in [TokenKeys -> Account] /\ flow \in [TokenKeys -> Books]
      /\ MaxSwapSlippageBps \in Nat /\ MaxSwapSlippageBps <= 10000
  BY CurrentAccounts, ToleranceIsFraction DEF FlowInv, TokenKeys, InitialTokens
<1>2. /\ swap_loaded(l, a, input, output) /\ swap_settled(l, input, output, call, tokens')
      /\ flow' = with_spending(flow, tokens')
      /\ tokens[input].amount - tokens'[input].amount <= ix.max_in
      /\ verify_swap_value(input, output, tokens[input].amount - tokens'[input].amount,
                           tokens'[output].amount - tokens[output].amount)
  BY DEF SwapOutcome
<1>3. /\ l.sub \in SubAccounts /\ input # output
      /\ Held(tokens[input]) /\ Held(tokens[output])
  BY <1>2 DEF swap_loaded, verify_swap_endpoint_custody, Held
<1>4. /\ verify_swap_endpoint_unchanged(tokens[input], tokens'[input])
      /\ verify_swap_endpoint_unchanged(tokens[output], tokens'[output])
      /\ tokens'[input].amount <= tokens[input].amount /\ tokens'[output].amount >= tokens[output].amount
  BY <1>2 DEF swap_settled
<1>5. ASSUME NEW k \in {input, output}
      PROVE  /\ tokens[k] \in Account /\ tokens'[k] \in Account
             /\ AccountValue(tokens[k]) = tokens[k].amount * Price[tokens[k].mint]
             /\ AccountValue(tokens'[k]) = tokens'[k].amount * Price[tokens[k].mint]
             /\ Price[tokens[k].mint] \in Nat /\ tokens[k].amount \in Nat /\ tokens'[k].amount \in Nat
             /\ DrawnFrom(k) = 0
  <2>1. tokens[k] \in Account /\ tokens'[k] \in Account /\ flow[k] \in Books /\ k \in TokenKeys
    BY <1>1
  <2>2. verify_swap_endpoint_unchanged(tokens[k], tokens'[k]) /\ Held(tokens[k])
    BY <1>3, <1>4
  <2>3. tokens'[k].mint = tokens[k].mint /\ Held(tokens'[k]) /\ delegate_spent(tokens[k], tokens'[k]) = 0
    BY <2>1, <2>2, EndpointMoves
  <2>4. Price[tokens[k].mint] \in Nat /\ tokens[k].amount \in Nat /\ tokens'[k].amount \in Nat
    BY <2>1, ValueIsNumber
  <2>5. flow'[k].spent = flow[k].spent + 0 /\ flow[k].spent \in Int
    BY <1>1, <1>2, <2>1, <2>3, SpendingBooked DEF Books
  <2>6. flow'[k].spent - flow[k].spent = 0
    BY <2>5
  <2>7. DrawnFrom(k) = 0
    BY <2>2, <2>4, <2>6 DEF DrawnFrom
  <2> QED
    BY <2>1, <2>2, <2>3, <2>4, <2>7 DEF AccountValue
<1> DEFINE spent == tokens[input].amount - tokens'[input].amount
           received == tokens'[output].amount - tokens[output].amount
           pin == Price[tokens[input].mint]
           pout == Price[tokens[output].mint]
<1>6. spent \in Nat /\ received \in Nat /\ pin \in Nat /\ pout \in Nat
  BY <1>4, <1>5
<1>7. /\ AccountValue(tokens[input]) - AccountValue(tokens'[input]) = spent * pin
      /\ AccountValue(tokens[output]) - AccountValue(tokens'[output]) = 0 - received * pout
  BY <1>5
<1>8. received * pout >= ceil_div(spent * pin * (10000 - MaxSwapSlippageBps), 10000)
  BY <1>2 DEF verify_swap_value
<1> HIDE DEF spent, received, pin, pout
<1>9. spent <= ix.max_in
  BY <1>2 DEF spent
<1>10. (spent * pin - received * pout) * 10000 <= MaxSwapSlippageBps * ix.max_in * pin
  <2> DEFINE s == MaxSwapSlippageBps
             most == ix.max_in
  <2>1. s \in Nat /\ s <= 10000 /\ most \in Nat /\ spent <= most
    BY <1>1, <1>9
  <2>2. Worthwhile(spent, received, pin, pout, s)
    BY <1>8 DEF Worthwhile
  <2> HIDE DEF s, most
  <2>3. LossWithin(spent, received, pin, pout, s, most)
    BY <1>6, <2>1, <2>2, ToleratedLoss
  <2> QED
    BY <2>3 DEF s, most, LossWithin
<1>11. spent * pin + (0 - received * pout) = spent * pin - received * pout
  BY <1>6
<1> QED
  BY <1>3, <1>5, <1>7, <1>10, <1>11 DEF pin

\* The vault as a whole.
LEMMA SwapKeepsValue ==
    ASSUME RegistryInv, TypeInv, FlowInv, Swap, MaxSwapSlippageBps > 0
    PROVE  (CustodyValue(tokens) - CustodyValue(tokens') - DrawnValue) * 10000
              <= MaxSwapSlippageBps * ix.max_in * Price[tokens[ix.accounts[1]].mint]
<1> DEFINE l == ix.legs[1]
           input == ix.accounts[1]
           output == ix.accounts[2]
           f == [k \in TokenKeys |-> AccountValue(tokens[k])]
           g == [k \in TokenKeys |-> AccountValue(tokens'[k])]
           h == [k \in TokenKeys |-> DrawnFrom(k)]
           bound == MaxSwapSlippageBps * ix.max_in * Price[tokens[input].mint]
<1>1. Running /\ ix.name = "Swap" /\ Advance
  BY DEF Swap
<1>2. leg_formed(l, Deployments[deployment])
  BY <1>1, RunningLeg DEF Relays
<1>3. /\ ix.max_in \in Nat /\ input \in TokenKeys /\ output \in TokenKeys
      /\ IsFiniteSet(TokenKeys) /\ MaxSwapSlippageBps \in Nat
  <2>1. instruction_formed(ix, Deployments[deployment])
    BY <1>1, RunningFacts
  <2>2. ix.max_in \in Nat /\ input \in TokenKeys /\ output \in TokenKeys
    BY <1>1, <2>1 DEF instruction_formed, TokenKeys, InitialTokens
  <2>3. IsFiniteSet(TokenKeys)
    BY TheDeployment DEF deployment_formed, TokenKeys, InitialTokens
  <2> QED
    BY <2>2, <2>3, ToleranceIsFraction
<1>4. tokens' \in [TokenKeys -> Account] /\ tokens \in [TokenKeys -> Account]
  BY SwapTyped, CurrentAccounts
<1>5. PICK a : SwapOutcome(l, a, authorized_call(l, a.ops), input, output)
  BY SwapHasOutcome
<1>6. /\ ((AccountValue(tokens[input]) - AccountValue(tokens'[input]))
           + (AccountValue(tokens[output]) - AccountValue(tokens'[output]))) * 10000 <= bound
      /\ DrawnFrom(input) \in Nat /\ DrawnFrom(output) \in Nat
      /\ input # output
  <2> HIDE DEF input, output, l
  <2> QED
    BY <1>3, <1>4, <1>5, EndpointsKeepValue
<1>7. ASSUME NEW k \in TokenKeys, k # input, k # output
      PROVE  DrawnFrom(k) \in Nat /\ AccountValue(tokens[k]) <= AccountValue(tokens'[k]) + DrawnFrom(k)
  <2> HIDE DEF input, output, l
  <2> QED
    BY <1>1, <1>2, <1>4, <1>5, <1>7, BystandersKeepValue, ZenonT(30)
<1>8. \A k \in TokenKeys : AccountValue(tokens[k]) \in Nat /\ AccountValue(tokens'[k]) \in Nat
  BY <1>4, ValueIsNumber
<1>9. /\ CustodyValue(tokens) = SumFunctionOnSet(f, TokenKeys)
      /\ DrawnValue = SumFunctionOnSet(h, TokenKeys)
  BY DEF CustodyValue, DrawnValue, SumFunction
<1>10. CustodyValue(tokens') = SumFunctionOnSet(g, TokenKeys)
  BY DEF CustodyValue, SumFunction
<1>11. \A k \in TokenKeys : f[k] = AccountValue(tokens[k]) /\ g[k] = AccountValue(tokens'[k]) /\ h[k] = DrawnFrom(k)
  OBVIOUS
<1> HIDE DEF f, g, h, input, output, l
<1>12. \A k \in TokenKeys : f[k] \in Nat /\ g[k] \in Nat /\ h[k] \in Nat
  BY <1>6, <1>7, <1>8, <1>11
<1>13. \A k \in TokenKeys \ {input, output} : f[k] <= g[k] + h[k]
  BY <1>7, <1>11
<1>14. SumFunctionOnSet(f, TokenKeys) - SumFunctionOnSet(g, TokenKeys) - SumFunctionOnSet(h, TokenKeys)
         <= (f[input] - g[input]) + (f[output] - g[output])
  BY <1>3, <1>6, <1>12, <1>13, SumWithinButTwo
<1>15. /\ SumFunctionOnSet(f, TokenKeys) \in Nat /\ SumFunctionOnSet(g, TokenKeys) \in Nat
       /\ SumFunctionOnSet(h, TokenKeys) \in Nat
  BY <1>3, <1>12, SumNat
<1>16. ((f[input] - g[input]) + (f[output] - g[output])) * 10000 <= bound
  BY <1>3, <1>6, <1>11
<1>17. bound \in Int
  <2>1. Price[tokens[input].mint] \in Nat
    BY <1>3, <1>4, ValueIsNumber
  <2> QED
    BY <1>3, <2>1
<1> HIDE DEF bound
<1>18. f[input] \in Nat /\ g[input] \in Nat /\ f[output] \in Nat /\ g[output] \in Nat
  BY <1>3, <1>12
<1>19. (SumFunctionOnSet(f, TokenKeys) - SumFunctionOnSet(g, TokenKeys) - SumFunctionOnSet(h, TokenKeys)) * 10000 <= bound
  BY <1>14, <1>15, <1>16, <1>17, <1>18
<1> QED
  BY <1>9, <1>10, <1>19 DEF bound, input

-----------------------------------------------------------------------------
(* Flash loans.                                                              *)

\* An approval by this leg is bound to the loan at this distance: bound_to, of a deployment.
Bound(d, l, distance) ==
    \E u \in DOMAIN Deployments[d].templates :
        /\ Deployments[d].templates[u].scope = "FlashApprove"
        /\ TemplateHash[d][u] = TemplateHash[d][l.template]
        /\ \E i \in loan_ops(Deployments[d].templates[u]) :
             Deployments[d].templates[u].ops[i].relative_index = distance

\* What an instruction of a transaction lends to an account.
LoanTo(d, body, j, k) ==
    LET i == Deployments[d].instructions[body[j]]
    IN  IF i.name = "FlashBorrow" /\ i.lends /\ i.accounts[1] = k THEN i.data[2] ELSE 0

\* A body of instructions of the deployment.
BodyOf(d, body) ==
    /\ d \in DOMAIN Deployments
    /\ Len(body) \in Nat /\ DOMAIN body = 1..Len(body)
    /\ \A j \in DOMAIN body : body[j] \in DOMAIN Deployments[d].instructions

\* Its loans are of natural amounts.
LEMMA LoanIsNatural ==
    ASSUME NEW d, NEW body, BodyOf(d, body), NEW j \in DOMAIN body, NEW k
    PROVE  LoanTo(d, body, j, k) \in Nat
<1> DEFINE i == Deployments[d].instructions[body[j]]
<1>1. instruction_formed(i, Deployments[d])
  BY DeploymentsAssumption DEF BodyOf, deployment_formed
<1> HIDE DEF i
<1>2. ASSUME i.name = "FlashBorrow" PROVE i.data[2] \in Nat
  <2>1. i.data \in Seq(Nat) /\ Len(i.data) >= 2
    BY <1>1, <1>2 DEF instruction_formed, Bytes
  <2>2. Len(i.data) \in Nat
    BY <2>1
  <2>3. 2 \in 1..Len(i.data)
    BY <2>1, <2>2
  <2> QED
    BY <2>1, <2>3
<1> QED
  BY <1>2 DEF LoanTo, i

\* The running transaction's are.
LEMMA LoansAreNaturals ==
    ASSUME RegistryInv, TypeInv, tx # NoTx, NEW j \in DOMAIN tx.body, NEW k
    PROVE  LoanTo(deployment, tx.body, j, k) \in Nat
<1>1. Transaction(deployment, tx, pc, leg, saved)
  BY DEF TypeInv, Typing
<1>2. BodyOf(deployment, tx.body)
  BY <1>1, TheDeployment DEF Transaction, BodyOf
<1> QED
  BY <1>2, LoanIsNatural

\* A loan the running action's approval is bound to, of this amount into this account.
BoundLoan(l, source, amount) ==
    \E p \in DOMAIN tx.body :
        Bound(deployment, l, p - pc) /\ LoanTo(deployment, tx.body, p, source) = amount

(***************************************************************************)
(* A flash approval is of a loan in the same transaction, into the account *)
(* it is for: the committed sibling that is not this program's is, by the  *)
(* stored hash, the one the admin committed, and the tie makes it a loan   *)
(* into this account.                                                      *)
(***************************************************************************)
LEMMA FlashLoan ==
    ASSUME RegistryInv, TypeInv, Running, NEW l, leg_formed(l, Deployments[deployment]),
           NEW a \in stored_action(l.template), a.scope = "FlashApprove", validate_authorized_cpi(l, a, ix),
           NEW source, NEW amount \in bind_flash_siblings(a.ops, ix, source)
    PROVE  BoundLoan(l, source, amount)
<1> DEFINE ops == a.ops
           call == authorized_call(l, ops)
           committed == OpsOfKind(ops, "IngestSiblingInstruction")
<1>1. tx # NoTx /\ pc \in Nat
  BY RunningFacts
<1>2. PICK u \in DOMAIN Templates : /\ a.action_hash = TemplateHash[deployment][u] /\ a.scope = Templates[u].scope
                                   /\ ops = Templates[u].ops /\ Instance(u, call)
  BY <1>1, ValidatedIsInstance DEF stored_action
<1>3. PICK n \in committed :
        /\ amount = at(pc + ops[n].relative_index).data[amount_at(ops[n]) + 1]
        /\ tied_to_source(ops, ops[n].relative_index, source)
        /\ at(pc + ops[n].relative_index).program # ROSHI
  BY DEF bind_flash_siblings
<1> DEFINE op == ops[n]
           r == op.relative_index
           mine == Templates[u].call
<1>4. n \in DOMAIN ops /\ op.kind = "IngestSiblingInstruction"
  BY DEF OpsOfKind
<1>5. ops \in Seq(ActionOps)
  BY <1>2 DEF Instance, template_formed
<1>6. pc + r \in DOMAIN tx.body /\ sibling_exists(r)
  BY <1>3 DEF tied_to_source, sibling_exists
<1>7. call.siblings[r].program = at(pc + r).program /\ call.siblings[r].data = at(pc + r).data
  BY <1>4, <1>6, SiblingOfCall
<1>8. /\ mine.siblings[r].program = call.siblings[r].program
      /\ \A j \in op.offset + 1 .. op.offset + op.len : mine.siblings[r].data[j] = call.siblings[r].data[j]
  <2>1. SameThrough(op, mine, call)
    BY <1>2, <1>4 DEF Instance
  <2> HIDE DEF op, mine, call
  <2> QED
    BY <1>4, <2>1 DEF SameThrough
<1>9. n \in loan_ops(Templates[u]) /\ loan(op, Templates[u], Deployments[deployment])
  <2>1. Templates[u].scope = "FlashApprove" /\ n \in DOMAIN Templates[u].ops /\ op = Templates[u].ops[n]
    BY <1>2, <1>4
  <2>2. mine.siblings[r].program # ROSHI
    BY <1>3, <1>7, <1>8
  <2>3. n \in loan_ops(Templates[u])
    BY <1>4, <2>1, <2>2 DEF loan_ops
  <2> QED
    BY <2>1, <2>3, TheDeployment, LenderAssumption DEF Templates
<1>10. Deployments[deployment].instructions[tx.body[pc + r]] = at(pc + r)
  BY DEF at, Instructions
<1>11. tx.body[pc + r] \in DOMAIN Deployments[deployment].instructions
  BY <1>1, <1>6 DEF TypeInv, Typing, Transaction
<1>12. at(pc + r).name = "FlashBorrow" /\ at(pc + r).lends /\ op.offset + op.len = 1
  BY <1>7, <1>8, <1>9, <1>10, <1>11 DEF loan
<1>13. at(pc + r).accounts[1] = source
  <2> DEFINE paired == paired_accounts(ops, r)
             p == Min(paired)
  <2>1. paired \in SUBSET Nat /\ paired # {}
    BY <1>3, <1>5, PairedPositions, Zenon
  <2> HIDE DEF paired
  <2>2. p \in paired
    BY <2>1, LeastPosition
  <2>3. p \in DOMAIN ops /\ ops[p].kind = "IngestSiblingAccount" /\ ops[p].relative_index = r
    BY <2>2 DEF paired, paired_accounts, OpsOfKind
  <2>4. ops[p].index = 0
    BY <1>2, <1>9, <2>3 DEF loan
  <2>5. at(pc + r).accounts[ops[p].index + 1] = source
    BY <1>3 DEF tied_to_source, p, paired
  <2>6. 0 + 1 = 1
    OBVIOUS
  <2> QED
    BY <2>4, <2>5, <2>6
<1>14. amount = at(pc + r).data[2]
  <2>1. amount_at(op) + 1 = 2
    BY <1>12 DEF amount_at
  <2> QED
    BY <1>3, <2>1
<1>15. r \in Int
  <2>1. op \in ActionOps
    BY <1>4, <1>5
  <2> QED
    BY <1>4, <2>1, SiblingOpIndex
<1>16. Bound(deployment, l, r)
  <2>1. TemplateHash[deployment][u] = TemplateHash[deployment][l.template]
    BY <1>2 DEF stored_action
  <2> QED
    BY <1>2, <1>9, <2>1 DEF Bound, Templates
<1> HIDE DEF r
<1>17. LoanTo(deployment, tx.body, pc + r, source) = amount
  BY <1>10, <1>12, <1>13, <1>14 DEF LoanTo
<1>18. (pc + r) - pc = r
  BY <1>1, <1>15
<1>19. Bound(deployment, l, (pc + r) - pc)
  BY <1>16, <1>18, Zenon
<1> QED
  BY <1>6, <1>17, <1>19, Zenon DEF BoundLoan

\* The fee of a flash approval is a natural number.
LEMMA FlashFee ==
    ASSUME RegistryInv, NEW a \in actions, NEW amount \in Nat, fee_defined(amount, a.fee[1], a.fee[2])
    PROVE  round_with_min1(amount, a.fee[1], a.fee[2]) \in Nat
<1> DEFINE num == a.fee[1]
           den == a.fee[2]
<1>1. a.fee \in Nat \X Nat
  BY StoredFacts, TheDeployment, RatesAreFractions DEF FeeRates
<1>2. num \in Nat /\ den \in Nat
  BY <1>1, RateParts
<1> HIDE DEF num, den
<1>3. CASE num = 0 \/ amount = 0
  BY <1>3 DEF round_with_min1, num, den
<1>4. CASE ~(num = 0 \/ amount = 0)
  <2>1. den # 0
    BY <1>4 DEF fee_defined, num, den
  <2>2. round_with_min1(amount, num, den) \in Nat
    BY <1>2, <2>1, FeeFacts
  <2> QED
    BY <2>2 DEF num, den
<1> QED
  BY <1>3, <1>4

\* A relay through Manage: the call is an authorized one, and this is what it left.
ManageOutcome(l, a, call) ==
    /\ validate_authorized_cpi(l, a, ix)
    /\ tokens' \in invoke_authorized_cpi(tokens, call)
    /\ settle_authorized_cpi(l, a, call, tokens')

\* One that was settled as a Manager action.
ManagerSettled(l, call) ==
    /\ scan_ok(tokens, call, l.sub)
    /\ reverify_subaccount_custody_except(scan_subaccount_custody(tokens, call, l.sub), tokens', l.sub, {})
    /\ flow' = with_spending(flow, tokens')

\* One that was settled as a FlashApprove action, of a loan of this amount.
FlashSettled(l, call, source, amount, fee) ==
    /\ verify_is_approve(call) /\ source \in writable_tokens(call)
    /\ scan_ok(tokens, call, l.sub)
    /\ reverify_subaccount_custody_except(scan_subaccount_custody(tokens, call, l.sub), tokens', l.sub, {source})
    /\ verify_flash_delegate(tokens'[source], l.sub, amount + fee)
    /\ flow' = FeeBooked(with_spending(flow, tokens'), source, fee)
    /\ BoundLoan(l, source, amount)

\* What a Manage step did.
LEMMA ManageHasOutcome ==
    ASSUME Manage
    PROVE  \E a \in stored_action(ix.legs[leg].template) :
             ManageOutcome(ix.legs[leg], a, authorized_call(ix.legs[leg], a.ops))
BY DEF Manage, ManageOutcome

\* A settled relay is one or the other; the loan and the fee are natural numbers.
LEMMA ManageSettles ==
    ASSUME RegistryInv, TypeInv, Running, NEW l, leg_formed(l, Deployments[deployment]),
           NEW a \in stored_action(l.template), ManageOutcome(l, a, authorized_call(l, a.ops))
    PROVE  \/ ManagerSettled(l, authorized_call(l, a.ops))
           \/ /\ a.scope = "FlashApprove"
              /\ \E amount \in Nat, fee \in Nat :
                   FlashSettled(l, authorized_call(l, a.ops), authorized_call(l, a.ops).metas[1].key, amount, fee)
<1> DEFINE call == authorized_call(l, a.ops)
           source == call.metas[1].key
<1>1. CASE settle_manager(l, call, tokens')
  BY <1>1 DEF settle_manager, ManagerSettled
<1>2. CASE a.scope = "FlashApprove" /\ settle_flash_approve(l, a, call, tokens')
  <2>1. PICK amount \in bind_flash_siblings(a.ops, ix, source) :
          /\ fee_defined(amount, a.fee[1], a.fee[2])
          /\ scan_ok(tokens, call, l.sub)
          /\ reverify_subaccount_custody_except(scan_subaccount_custody(tokens, call, l.sub),
                                                tokens', l.sub, {source})
          /\ verify_flash_delegate(tokens'[source], l.sub, amount + round_with_min1(amount, a.fee[1], a.fee[2]))
          /\ flow' = [with_spending(flow, tokens') EXCEPT
                        ![source].fees = @ + round_with_min1(amount, a.fee[1], a.fee[2])]
    BY <1>2 DEF settle_flash_approve
  <2> DEFINE fee == round_with_min1(amount, a.fee[1], a.fee[2])
  <2>2. verify_is_approve(call)
    BY <1>2 DEF settle_flash_approve
  <2>3. source \in writable_tokens(call)
    BY <2>2 DEF ManageOutcome, invoke_authorized_cpi, spl_outcomes
  <2>4. validate_authorized_cpi(l, a, ix) /\ tx # NoTx
    BY RunningFacts DEF ManageOutcome
  <2>5. BoundLoan(l, source, amount)
    <3> HIDE DEF source
    <3> QED
      BY <1>2, <2>4, FlashLoan
  <2>6. amount \in Nat
    BY <2>4, <2>5, LoansAreNaturals DEF BoundLoan
  <2>7. fee \in Nat
    BY <2>1, <2>6, FlashFee DEF stored_action
  <2>8. FlashSettled(l, call, source, amount, fee)
    BY <2>1, <2>2, <2>3, <2>5 DEF FlashSettled, FeeBooked
  <2> HIDE DEF call, source, fee
  <2> QED
    BY <1>2, <2>6, <2>7, <2>8 DEF call, source
<1> QED
  BY <1>1, <1>2 DEF ManageOutcome, settle_authorized_cpi

\* The books of a transaction that has not begun.
LEMMA IdleBooks == Idle \in Books /\ Idle.borrowed = 0 /\ Idle.fees = 0 /\ Idle.spent = 0
BY DEF Idle, Books

\* Manage keeps books.
LEMMA ManageBooks ==
    ASSUME RegistryInv, TypeInv, FlowInv, Manage
    PROVE  flow' \in [TokenKeys -> Books]
<1> DEFINE l == ix.legs[leg]
<1>1. Running /\ ix.name = "Manage"
  BY DEF Manage
<1>2. leg_formed(l, Deployments[deployment])
  BY <1>1, RunningLeg DEF Relays
<1>3. PICK a \in stored_action(l.template) : ManageOutcome(l, a, authorized_call(l, a.ops))
  BY ManageHasOutcome
<1>5. tokens' \in [TokenKeys -> Account] /\ tokens \in [TokenKeys -> Account]
  BY ManageTyped, CurrentAccounts
<1>6. flow \in [TokenKeys -> Books]
  BY DEF FlowInv, TokenKeys, InitialTokens
<1>7. with_spending(flow, tokens') \in [TokenKeys -> Books]
  BY <1>5, <1>6, SpendingBooked
<1> HIDE DEF l
<1>8. CASE ManagerSettled(l, authorized_call(l, a.ops))
  BY <1>7, <1>8 DEF ManagerSettled
<1>9. CASE \E amount \in Nat, fee \in Nat :
             FlashSettled(l, authorized_call(l, a.ops), authorized_call(l, a.ops).metas[1].key, amount, fee)
  <2> DEFINE source == authorized_call(l, a.ops).metas[1].key
  <2>1. PICK amount \in Nat, fee \in Nat : FlashSettled(l, authorized_call(l, a.ops), source, amount, fee)
    BY <1>9
  <2>2. flow' = FeeBooked(with_spending(flow, tokens'), source, fee) /\ fee \in Int
    BY <2>1 DEF FlashSettled
  <2> HIDE DEF source
  <2> QED
    BY <1>7, <2>2, FeesBooked
<1> QED
  BY <1>1, <1>2, <1>3, <1>8, <1>9, ManageSettles

\* So do the other relays: what a payout moves is no delegate's doing.
LEMMA RelayBooks ==
    ASSUME RegistryInv, TypeInv, FlowInv, Swap \/ DepositAndDeploy \/ AtomicRedeem
    PROVE  /\ flow' \in [TokenKeys -> Books]
           /\ \A k \in TokenKeys :
                /\ flow'[k].spent = flow[k].spent + delegate_spent(tokens[k], tokens'[k])
                /\ flow'[k].borrowed = flow[k].borrowed /\ flow'[k].fees = flow[k].fees
<1>1. tokens \in [TokenKeys -> Account] /\ flow \in [TokenKeys -> Books]
  BY CurrentAccounts DEF FlowInv, TokenKeys, InitialTokens
<1>2. ASSUME NEW post \in [TokenKeys -> Account], flow' = with_spending(flow, post),
             \A k \in TokenKeys : delegate_spent(tokens[k], post[k]) = delegate_spent(tokens[k], tokens'[k])
      PROVE  /\ flow' \in [TokenKeys -> Books]
             /\ \A k \in TokenKeys :
                  /\ flow'[k].spent = flow[k].spent + delegate_spent(tokens[k], tokens'[k])
                  /\ flow'[k].borrowed = flow[k].borrowed /\ flow'[k].fees = flow[k].fees
  BY <1>1, <1>2, SpendingBooked
<1>3. CASE Swap \/ DepositAndDeploy
  <2>1. flow' = with_spending(flow, tokens')
    BY <1>3 DEF Swap, DepositAndDeploy
  <2>2. tokens' \in [TokenKeys -> Account]
    BY <1>3, SwapTyped, DeployHasOutcome
  <2> QED
    BY <1>2, <2>1, <2>2
<1>4. CASE AtomicRedeem
  <2>1. PICK a \in stored_action(ix.legs[1].template) : \E post :
          UnwindOutcome(ix.legs[1], a, authorized_call(ix.legs[1], a.ops), post)
    BY <1>4, UnwindHasOutcome
  <2>2. PICK post : UnwindOutcome(ix.legs[1], a, authorized_call(ix.legs[1], a.ops), post)
    BY <2>1
  <2>3. /\ post \in [TokenKeys -> Account] /\ OnlyBalances(post, tokens')
        /\ flow' = with_spending(flow, post)
    BY <2>2 DEF UnwindOutcome
  <2>4. ASSUME NEW k \in TokenKeys
        PROVE  delegate_spent(tokens[k], post[k]) = delegate_spent(tokens[k], tokens'[k])
    <3>1. PICK n \in Nat : tokens'[k] = [post[k] EXCEPT !.amount = n]
      BY <2>3 DEF OnlyBalances
    <3>2. post[k] \in Account
      BY <2>3
    <3>3. tokens'[k].delegated_amount = post[k].delegated_amount
      BY <3>1, <3>2 DEF Account, TokenAccountRecord
    <3> QED
      BY <3>3 DEF delegate_spent
  <2> QED
    BY <1>2, <2>3, <2>4
<1> QED
  BY <1>3, <1>4

\* A flash borrow books the loan, and the account holds it.
LEMMA BorrowBooks ==
    ASSUME RegistryInv, TypeInv, FlowInv, FlashBorrow
    PROVE  LET k == ix.accounts[1]
               paid == LoanTo(deployment, tx.body, pc, k)
           IN  /\ k \in TokenKeys /\ paid \in Nat
               /\ flow' = LoanBooked(flow, k, paid)
               /\ tokens' = [tokens EXCEPT ![k] = spl_credit(@, paid)]
<1> DEFINE k == ix.accounts[1]
           paid == IF ix.lends THEN ix.data[2] ELSE 0
<1>1. Running /\ ix.name = "FlashBorrow" /\ k \in TokenKeys
  BY ExternalFacts DEF FlashBorrow
<1>2. tx # NoTx /\ pc \in DOMAIN tx.body /\ ix = Deployments[deployment].instructions[tx.body[pc]]
  BY <1>1, RunningFacts DEF Running
<1>3. paid = LoanTo(deployment, tx.body, pc, k)
  BY <1>1, <1>2 DEF LoanTo
<1>4. paid \in Nat
  BY <1>2, <1>3, LoansAreNaturals
<1>5. flow' = LoanBooked(flow, k, paid) /\ tokens' = [tokens EXCEPT ![k] = spl_credit(@, paid)]
  BY DEF FlashBorrow, LoanBooked
<1> QED
  BY <1>1, <1>3, <1>4, <1>5

\* A delegate's transfer is booked.
LEMMA DrawBooks ==
    ASSUME RegistryInv, TypeInv, FlowInv, DelegateSpend
    PROVE  LET k == ix.accounts[1]
           IN  \E n \in Nat :
                 /\ k \in TokenKeys /\ tokens[k].delegate # NoKey
                 /\ n <= tokens[k].delegated_amount /\ n <= tokens[k].amount
                 /\ flow' = DrawBooked(flow, k, n)
                 /\ tokens' = [tokens EXCEPT ![k] = spl_delegate_debit(@, n)]
<1> DEFINE k == ix.accounts[1]
<1>1. k \in TokenKeys
  BY ExternalFacts
<1>2. PICK n \in Amounts :
        /\ tokens[k].delegate # NoKey /\ n <= tokens[k].delegated_amount /\ n <= tokens[k].amount
        /\ tokens' = [tokens EXCEPT ![k] = spl_delegate_debit(@, n)]
        /\ flow' = DrawBooked(flow, k, n)
  BY DEF DelegateSpend, DrawBooked
<1>3. n \in Nat
  BY TheDeployment, AmountsAreNaturals
<1> QED
  BY <1>1, <1>2, <1>3

\* The books are books to begin with.
LEMMA FlowInit ==
    ASSUME Init
    PROVE  FlowInv
BY IdleBooks DEF Init, FlowInv, TokenKeys, InitialTokens

\* Every step keeps them.
LEMMA FlowInductive ==
    ASSUME RegistryInv, TypeInv, FlowInv, [Next]_vars
    PROVE  FlowInv'
<1>1. flow \in [TokenKeys -> Books]
  BY DEF FlowInv, TokenKeys, InitialTokens
<1>2. ASSUME deployment' = deployment, flow' \in [TokenKeys -> Books] PROVE FlowInv'
  BY <1>2 DEF FlowInv, TokenKeys, InitialTokens
<1>3. ASSUME RegistryStep PROVE deployment' = deployment /\ flow' = flow
  BY <1>3 DEF RegistryStep, AuthorizeAction, RevokeAction, AdminSetFlashFeeRate,
     StrategistLowerFlashFeeRate, update_action_flash_fee, SetStrategist, SetManagePaused, tx_vars
<1>4. ASSUME TransactionStep PROVE deployment' = deployment /\ flow' \in [TokenKeys -> Books]
  <2>1. deployment' = deployment
    BY <1>4, TransactionsLeaveTheRegistry
  <2>2. ASSUME (\E signer \in Wallets, body \in Bodies : Begin(signer, body))
                 \/ AssertDelegateCleared
        PROVE  flow' \in [TokenKeys -> Books]
    BY <1>1, <2>2 DEF Begin, AssertDelegateCleared
  <2>3. ASSUME Commit \/ Abort PROVE flow' \in [TokenKeys -> Books]
    BY <2>3, IdleBooks DEF Commit, Abort
  <2>4. ASSUME FlashBorrow PROVE flow' \in [TokenKeys -> Books]
    <3> DEFINE k == ix.accounts[1]
               paid == LoanTo(deployment, tx.body, pc, k)
    <3>1. k \in TokenKeys /\ paid \in Int /\ flow' = LoanBooked(flow, k, paid)
      BY <2>4, BorrowBooks
    <3> HIDE DEF k, paid
    <3> QED
      BY <1>1, <3>1, LoansBooked
  <2>5. ASSUME DelegateSpend PROVE flow' \in [TokenKeys -> Books]
    <3> DEFINE k == ix.accounts[1]
    <3>1. PICK n \in Nat : k \in TokenKeys /\ flow' = DrawBooked(flow, k, n)
      BY <2>5, DrawBooks
    <3> HIDE DEF k
    <3>2. n \in Int
      OBVIOUS
    <3> QED
      BY <1>1, <3>1, <3>2, LoansBooked
  <2> QED
    BY <1>4, <2>1, <2>2, <2>3, <2>4, <2>5, ManageBooks, RelayBooks DEF TransactionStep
<1>5. ASSUME UNCHANGED vars PROVE deployment' = deployment /\ flow' = flow
  BY <1>5 DEF vars, registry_vars, tx_vars
<1> QED
  BY <1>1, <1>2, <1>3, <1>4, <1>5 DEF Next

(***************************************************************************)
(* A swap costs the vault as a whole at most the slippage tolerated on     *)
(* what its caller let it spend, for every deployment, valuation and       *)
(* tolerance and every route the admin authorized: what the venue does to  *)
(* the other accounts it was handed never takes value from the vault, a    *)
(* delegate's own draw aside (execute_swap_cpi, verify_swap_value,         *)
(* snapshot_writable_custody, verify_custody_unchanged).                   *)
(***************************************************************************)
THEOREM SwapsKeepVaultValue == Spec => SwapKeepsVaultValue
<1> DEFINE Costs == (CustodyValue(tokens) - CustodyValue(tokens') - DrawnValue) * 10000
                      <= MaxSwapSlippageBps * ix.max_in * Price[tokens[ix.accounts[1]].mint]
<1>1. Init => RegistryInv /\ TypeInv /\ FlowInv
  BY RegistryInit, TypeInit, FlowInit
<1>2. RegistryInv /\ TypeInv /\ FlowInv /\ [Next]_vars => RegistryInv' /\ TypeInv' /\ FlowInv'
  BY RegistryInductive, TypeInductive, FlowInductive
<1>3. RegistryInv /\ TypeInv /\ FlowInv /\ [Next]_vars =>
        [(Running /\ ix.name = "Swap" /\ pc' = pc + 1 /\ MaxSwapSlippageBps > 0) => Costs]_vars
  BY OnlySwapAdvances, SwapKeepsValue
<1> QED
  BY <1>1, <1>2, <1>3, PTL DEF Spec, SwapKeepsVaultValue

-----------------------------------------------------------------------------
(* What flash approvals cost.                                                *)

\* A step let delegates take, and take later, at most this much more than the fees it booked.
CostWithin(a, b, f, g, granted) ==
    (g.spent + Allowance(b)) + f.fees <= (f.spent + Allowance(a)) + (g.fees + granted)

\* What delegates may take is a number.
LEMMA AllowanceIsNumber ==
    ASSUME NEW a \in Account
    PROVE  Allowance(a) \in Nat
BY DEF Allowance, Account, TokenAccountRecord

\* Spending what was allowed costs nothing.
LEMMA DrawingIsFree ==
    ASSUME NEW a \in Account, NEW b \in Account, NEW f \in Books, NEW g \in Books,
           delegate_spent(a, b) + Allowance(b) = Allowance(a),
           g.spent = f.spent + delegate_spent(a, b), g.fees = f.fees
    PROVE  CostWithin(a, b, f, g, 0)
<1>1. Allowance(a) \in Nat /\ Allowance(b) \in Nat /\ delegate_spent(a, b) \in Int
  BY AllowanceIsNumber, SpentIsNumber
<1>2. f.spent \in Int /\ f.fees \in Int
  BY DEF Books
<1> QED
  BY <1>1, <1>2 DEF CostWithin

\* Accounts under control are held, and their balances are numbers.
LEMMA GuardedNow ==
    ASSUME RegistryInv, TypeInv, CustodyInv, FlowInv, NEW k \in Guarded(deployment)
    PROVE  /\ k \in TokenKeys /\ tokens[k] \in Account /\ flow[k] \in Books
           /\ live(tokens[k]) /\ Held(tokens[k]) /\ Controlled(tokens[k], OwnerOf(deployment, k))
           /\ tokens[k].owner = OwnerOf(deployment, k)
<1>1. k \in TokenKeys /\ OwnerOf(deployment, k) \in SubAccounts
  BY GuardedFacts DEF TokenKeys, InitialTokens
<1>2. tokens[k] \in Account
  BY <1>1, CurrentAccounts
<1>3. flow[k] \in Books
  BY <1>1 DEF FlowInv, TokenKeys, InitialTokens
<1>4. Controlled(tokens[k], OwnerOf(deployment, k))
  BY DEF CustodyInv, Custody
<1> QED
  BY <1>1, <1>2, <1>3, <1>4 DEF Controlled, Held

\* A checked account of the relay's sub-account was clean, and is.
LEMMA ReverifiedDraws ==
    ASSUME NEW toks, NEW post, NEW call, NEW sub, NEW exempt, NEW k \in writable_tokens(call) \ exempt,
           Controlled(toks[k], sub), scan_ok(toks, call, sub),
           reverify_subaccount_custody_except(scan_subaccount_custody(toks, call, sub), post, sub, exempt)
    PROVE  delegate_spent(toks[k], post[k]) = 0 /\ Allowance(toks[k]) = 0 /\ Allowance(post[k]) = 0
<1>1. is_clean_custody(toks[k], sub) = "clean"
  BY CleanIsControlled DEF scan_ok
<1>2. is_clean_custody(post[k], sub) = "clean"
  BY <1>1 DEF scan_subaccount_custody, reverify_subaccount_custody_except
<1> QED
  BY <1>1, <1>2, CleanDraws

\* An account the relay's own checks do not exempt keeps its allowance, less what was drawn.
LEMMA SettledDraws ==
    ASSUME RegistryInv, TypeInv, tx # NoTx, NEW toks \in [TokenKeys -> Account],
           NEW l, leg_formed(l, Deployments[deployment]), NEW a, validate_authorized_cpi(l, a, ix),
           NEW post \in invoke_authorized_cpi(toks, authorized_call(l, a.ops)),
           NEW exempt, NEW k \in Guarded(deployment), k \notin exempt,
           Controlled(toks[k], OwnerOf(deployment, k)),
           scan_ok(toks, authorized_call(l, a.ops), l.sub),
           reverify_subaccount_custody_except(
               scan_subaccount_custody(toks, authorized_call(l, a.ops), l.sub), post, l.sub, exempt)
    PROVE  delegate_spent(toks[k], post[k]) + Allowance(post[k]) = Allowance(toks[k])
<1> DEFINE call == authorized_call(l, a.ops)
<1>1. k \in TokenKeys /\ OwnerOf(deployment, k) \in SubAccounts
  BY GuardedFacts DEF TokenKeys, InitialTokens
<1>2. Held(toks[k]) /\ toks[k].owner = OwnerOf(deployment, k)
  BY <1>1 DEF Controlled, Held
<1>3. CASE toks[k].owner # l.sub \/ k \notin writable_tokens(call)
  <2>1. Drawn(toks[k], post[k])
    BY <1>1, <1>2, <1>3, OthersDraw
  <2> QED
    BY <2>1 DEF Drawn
<1>4. CASE toks[k].owner = l.sub /\ k \in writable_tokens(call)
  <2>1. Controlled(toks[k], l.sub)
    BY <1>2, <1>4
  <2> HIDE DEF call
  <2>2. delegate_spent(toks[k], post[k]) = 0 /\ Allowance(toks[k]) = 0 /\ Allowance(post[k]) = 0
    BY <1>4, <2>1, ReverifiedDraws DEF call
  <2> QED
    BY <2>2
<1> QED
  BY <1>3, <1>4

\* What a step may grant delegates: nothing, or the loan its flash approval is bound to.
Grants(k, granted) ==
    \/ granted = 0
    \/ /\ ix.name = "Manage"
       /\ \E p \in DOMAIN tx.body : /\ Bound(deployment, ix.legs[leg], p - pc)
                                    /\ granted = LoanTo(deployment, tx.body, p, k)

\* What a step costs at an account is within such a grant.
CostCovered(k) ==
    \E granted \in Nat : Grants(k, granted) /\ CostWithin(tokens[k], tokens'[k], flow[k], flow'[k], granted)

\* What costs nothing needs none.
LEMMA FreeIsCovered ==
    ASSUME NEW k, CostWithin(tokens[k], tokens'[k], flow[k], flow'[k], 0)
    PROVE  CostCovered(k)
BY DEF CostCovered, Grants

\* A flash approval allows the loan and the fee on an account that had no delegate.
LEMMA ApprovalCosts ==
    ASSUME RegistryInv, TypeInv, CustodyInv, FlowInv, tx # NoTx,
           NEW l, leg_formed(l, Deployments[deployment]), NEW a, validate_authorized_cpi(l, a, ix),
           tokens' \in [TokenKeys -> Account],
           tokens' \in invoke_authorized_cpi(tokens, authorized_call(l, a.ops)),
           NEW source \in Guarded(deployment), NEW amount \in Nat, NEW fee \in Nat,
           FlashSettled(l, authorized_call(l, a.ops), source, amount, fee)
    PROVE  CostWithin(tokens[source], tokens'[source], flow[source], flow'[source], amount)
<1> DEFINE call == authorized_call(l, a.ops)
           pre == tokens[source]
           post == tokens'[source]
           f == flow[source]
           g == flow'[source]
<1>1. /\ source \in TokenKeys /\ pre \in Account /\ f \in Books /\ live(pre)
      /\ Controlled(pre, OwnerOf(deployment, source)) /\ pre.owner = OwnerOf(deployment, source)
  BY GuardedNow
<1>2. post.owner = pre.owner
  <2>1. Passed(call) /\ deployment \in DOMAIN Deployments /\ tokens \in [TokenKeys -> Account]
    BY RelayedCallFormed, TheDeployment, CurrentAccounts
  <2>2. verify_is_approve(call) /\ tokens' \in invoke_authorized_cpi(tokens, call)
    BY DEF FlashSettled
  <2> HIDE DEF call
  <2> QED
    BY <1>1, <2>1, <2>2, InvokeFacts
<1>3. post.owner = l.sub /\ post.delegated_amount = amount + fee
  BY DEF FlashSettled, verify_flash_delegate
<1>4. is_clean_custody(pre, l.sub) = "clean"
  <2>1. Controlled(pre, l.sub)
    BY <1>1, <1>2, <1>3
  <2>2. is_clean_custody(pre, l.sub) # "tainted"
    BY DEF FlashSettled, scan_ok
  <2> QED
    BY <2>1, <2>2, CleanIsControlled
<1>5. pre.delegate = NoKey
  BY <1>4, CleanIsControlled
<1>6. delegate_spent(pre, post) = 0 /\ Allowance(pre) = 0
  BY <1>5 DEF delegate_spent, Allowance
<1>7. Allowance(post) \in Nat /\ Allowance(post) <= amount + fee
  <2>1. post \in Account
    BY <1>1
  <2>2. Allowance(post) = 0 \/ Allowance(post) = amount + fee
    BY <1>3 DEF Allowance
  <2> QED
    BY <2>1, <2>2, AllowanceIsNumber
<1>8. g.spent = f.spent /\ g.fees = f.fees + fee
  <2>1. flow \in [TokenKeys -> Books] /\ tokens \in [TokenKeys -> Account]
    BY CurrentAccounts DEF FlowInv, TokenKeys, InitialTokens
  <2>2. /\ with_spending(flow, tokens') \in [TokenKeys -> Books]
        /\ with_spending(flow, tokens')[source].spent = f.spent + delegate_spent(pre, post)
        /\ with_spending(flow, tokens')[source].fees = f.fees
    BY <1>1, <2>1, SpendingBooked
  <2>3. flow' = FeeBooked(with_spending(flow, tokens'), source, fee) /\ fee \in Int
    BY DEF FlashSettled
  <2>4. /\ g.spent = with_spending(flow, tokens')[source].spent
        /\ g.fees = with_spending(flow, tokens')[source].fees + fee
    BY <1>1, <2>2, <2>3, FeesBooked
  <2>5. f.spent \in Int
    BY <1>1 DEF Books
  <2> QED
    BY <1>6, <2>2, <2>4, <2>5
<1>9. f.spent \in Int /\ f.fees \in Int
  BY <1>1 DEF Books
<1> HIDE DEF pre, post, f, g
<1>10. CostWithin(pre, post, f, g, amount)
  BY <1>6, <1>7, <1>8, <1>9 DEF CostWithin
<1> QED
  BY <1>10 DEF pre, post, f, g

\* One action of a batch.
LEMMA ManageCosts ==
    ASSUME RegistryInv, TypeInv, CustodyInv, FlowInv, Manage, NEW k \in Guarded(deployment)
    PROVE  CostCovered(k)
<1> DEFINE l == ix.legs[leg]
<1>1. Running /\ ix.name = "Manage"
  BY DEF Manage
<1>2. tx # NoTx /\ leg_formed(l, Deployments[deployment])
  BY <1>1, RunningFacts, RunningLeg DEF Relays
<1>3. PICK a \in stored_action(l.template) : ManageOutcome(l, a, authorized_call(l, a.ops))
  BY ManageHasOutcome
<1>5. tokens' \in [TokenKeys -> Account] /\ tokens \in [TokenKeys -> Account]
  BY ManageTyped, CurrentAccounts
<1>6. flow \in [TokenKeys -> Books] /\ flow' \in [TokenKeys -> Books]
  BY ManageBooks DEF FlowInv, TokenKeys, InitialTokens
<1>7. /\ with_spending(flow, tokens') \in [TokenKeys -> Books]
      /\ \A j \in TokenKeys :
           /\ with_spending(flow, tokens')[j].spent = flow[j].spent + delegate_spent(tokens[j], tokens'[j])
           /\ with_spending(flow, tokens')[j].fees = flow[j].fees
  BY <1>5, <1>6, SpendingBooked
<1>8. /\ k \in TokenKeys /\ tokens[k] \in Account /\ flow[k] \in Books
      /\ tokens'[k] \in Account /\ flow'[k] \in Books
  BY <1>5, <1>6, GuardedNow
<1>9. Controlled(tokens[k], OwnerOf(deployment, k))
  BY GuardedNow
<1>10. validate_authorized_cpi(l, a, ix) /\ tokens' \in invoke_authorized_cpi(tokens, authorized_call(l, a.ops))
  BY <1>3 DEF ManageOutcome
<1>11. ASSUME delegate_spent(tokens[k], tokens'[k]) + Allowance(tokens'[k]) = Allowance(tokens[k]),
              flow'[k].spent = flow[k].spent + delegate_spent(tokens[k], tokens'[k]), flow'[k].fees = flow[k].fees
       PROVE  CostCovered(k)
  BY <1>8, <1>11, DrawingIsFree, FreeIsCovered
<1>12. CASE ManagerSettled(l, authorized_call(l, a.ops))
  <2>1. /\ scan_ok(tokens, authorized_call(l, a.ops), l.sub) /\ flow' = with_spending(flow, tokens')
        /\ reverify_subaccount_custody_except(
               scan_subaccount_custody(tokens, authorized_call(l, a.ops), l.sub), tokens', l.sub, {})
    BY <1>12 DEF ManagerSettled
  <2> HIDE DEF l
  <2>2. delegate_spent(tokens[k], tokens'[k]) + Allowance(tokens'[k]) = Allowance(tokens[k])
    BY <1>2, <1>5, <1>9, <1>10, <2>1, SettledDraws
  <2> QED
    BY <1>7, <1>8, <1>11, <2>1, <2>2
<1>13. CASE /\ a.scope = "FlashApprove"
            /\ \E amount \in Nat, fee \in Nat :
                 FlashSettled(l, authorized_call(l, a.ops), authorized_call(l, a.ops).metas[1].key, amount, fee)
  <2> DEFINE source == authorized_call(l, a.ops).metas[1].key
  <2>1. PICK amount \in Nat, fee \in Nat : FlashSettled(l, authorized_call(l, a.ops), source, amount, fee)
    BY <1>13
  <2>2. Grants(source, amount)
    BY <1>1, <2>1 DEF Grants, FlashSettled, BoundLoan
  <2> HIDE DEF l, source
  <2>4. CASE k = source
    <3>1. CostWithin(tokens[k], tokens'[k], flow[k], flow'[k], amount)
      BY <1>2, <1>5, <1>10, <2>1, <2>4, ApprovalCosts
    <3> QED
      BY <2>2, <2>4, <3>1 DEF CostCovered
  <2>5. CASE k # source
    <3>1. /\ scan_ok(tokens, authorized_call(l, a.ops), l.sub)
          /\ flow' = FeeBooked(with_spending(flow, tokens'), source, fee)
          /\ reverify_subaccount_custody_except(
                 scan_subaccount_custody(tokens, authorized_call(l, a.ops), l.sub), tokens', l.sub, {source})
      BY <2>1 DEF FlashSettled
    <3>2. k \notin {source} /\ fee \in Int
      BY <2>5
    <3>3. delegate_spent(tokens[k], tokens'[k]) + Allowance(tokens'[k]) = Allowance(tokens[k])
      BY <1>2, <1>5, <1>9, <1>10, <3>1, <3>2, SettledDraws
    <3>4. /\ flow'[k].spent = with_spending(flow, tokens')[k].spent
          /\ flow'[k].fees = with_spending(flow, tokens')[k].fees
      BY <1>7, <1>8, <2>5, <3>1, <3>2, FeesBooked
    <3> QED
      BY <1>7, <1>8, <1>11, <3>3, <3>4
  <2> QED
    BY <2>4, <2>5
<1> HIDE DEF l
<1> QED
  BY <1>1, <1>2, <1>3, <1>12, <1>13, ManageSettles

\* A swap draws on allowances, and gives none.
LEMMA SwapDraws ==
    ASSUME RegistryInv, TypeInv, CustodyInv, FlowInv, Swap, NEW k \in Guarded(deployment)
    PROVE  delegate_spent(tokens[k], tokens'[k]) + Allowance(tokens'[k]) = Allowance(tokens[k])
<1> DEFINE l == ix.legs[1]
           input == ix.accounts[1]
           output == ix.accounts[2]
<1>1. Running /\ ix.name = "Swap"
  BY DEF Swap
<1>2. tx # NoTx /\ leg_formed(l, Deployments[deployment])
  BY <1>1, RunningFacts, RunningLeg DEF Relays
<1>3. PICK a : SwapOutcome(l, a, authorized_call(l, a.ops), input, output)
  BY SwapHasOutcome
<1> DEFINE call == authorized_call(l, a.ops)
<1>4. /\ validate_authorized_cpi(l, a, ix) /\ tokens' \in invoke_authorized_cpi(tokens, call)
      /\ swap_settled(l, input, output, call, tokens')
  BY <1>3 DEF SwapOutcome
<1>5. k \in TokenKeys /\ tokens[k] \in Account /\ Held(tokens[k]) /\ tokens \in [TokenKeys -> Account]
  BY GuardedNow, CurrentAccounts
<1>6. tokens'[k] \in Account
  BY <1>5, SwapTyped
<1> HIDE DEF l, input, output
<1>7. CASE k = input \/ k = output
  <2>1. verify_swap_endpoint_unchanged(tokens[k], tokens'[k])
    BY <1>4, <1>7 DEF swap_settled
  <2>2. delegate_spent(tokens[k], tokens'[k]) = 0 /\ Allowance(tokens'[k]) = Allowance(tokens[k])
    BY <1>5, <1>6, <2>1, EndpointMoves
  <2>3. Allowance(tokens[k]) \in Nat
    BY <1>5, AllowanceIsNumber
  <2> QED
    BY <2>2, <2>3
<1>8. CASE tokens[k].owner # l.sub \/ k \notin writable_tokens(call)
  <2>1. Drawn(tokens[k], tokens'[k])
    BY <1>2, <1>4, <1>5, <1>8, OthersDraw
  <2> QED
    BY <2>1 DEF Drawn
<1>9. CASE k # input /\ k # output /\ tokens[k].owner = l.sub /\ k \in writable_tokens(call)
  <2> DEFINE snapshot == snapshot_writable_custody(tokens, call, l.sub, {input, output})
  <2>1. is_clean_custody(tokens[k], l.sub) # "tainted" /\ verify_custody_unchanged(snapshot, tokens', l.sub)
    BY <1>4, <1>9 DEF swap_settled
  <2>2. is_clean_custody(tokens[k], l.sub) = "clean"
    BY <1>5, <1>9, <2>1 DEF is_clean_custody, Held
  <2>3. k \in DOMAIN snapshot
    BY <1>9, <2>2 DEF snapshot_writable_custody, scan_subaccount_custody
  <2>4. is_clean_custody(tokens'[k], l.sub) = "clean"
    BY <2>1, <2>3 DEF verify_custody_unchanged
  <2>5. delegate_spent(tokens[k], tokens'[k]) = 0 /\ Allowance(tokens[k]) = 0 /\ Allowance(tokens'[k]) = 0
    BY <2>2, <2>4, CleanDraws
  <2> QED
    BY <2>5
<1> QED
  BY <1>7, <1>8, <1>9

\* So does a deposit's venue: it finds the allowances as they were, and the deposit on top.
LEMMA DeployDraws ==
    ASSUME RegistryInv, TypeInv, CustodyInv, FlowInv, DepositAndDeploy, NEW k \in Guarded(deployment)
    PROVE  delegate_spent(tokens[k], tokens'[k]) + Allowance(tokens'[k]) = Allowance(tokens[k])
<1> DEFINE l == ix.legs[1]
<1>1. Running /\ ix.name = "DepositAndDeploy"
  BY DeployHasOutcome
<1>2. tx # NoTx /\ leg_formed(l, Deployments[deployment])
  BY <1>1, RunningFacts, RunningLeg DEF Relays
<1>3. PICK a \in stored_action(l.template) : DeployOutcome(l, a, authorized_call(l, a.ops))
  BY DeployHasOutcome
<1>4. k \in TokenKeys /\ tokens[k] \in Account /\ Controlled(tokens[k], OwnerOf(deployment, k))
  BY GuardedNow
<1>5. Deposited \in [TokenKeys -> Account] /\ \E n \in Nat : Deposited[k] = [tokens[k] EXCEPT !.amount = n]
  BY <1>1, <1>4, DepositedFacts
<1>6. /\ Controlled(Deposited[k], OwnerOf(deployment, k)) /\ Deposited[k].delegate = tokens[k].delegate
      /\ Deposited[k].delegated_amount = tokens[k].delegated_amount
  BY <1>4, <1>5 DEF Controlled, live, Account, TokenAccountRecord
<1>7. delegate_spent(Deposited[k], tokens'[k]) = delegate_spent(tokens[k], tokens'[k])
      /\ Allowance(Deposited[k]) = Allowance(tokens[k])
  BY <1>6 DEF delegate_spent, Allowance
<1> HIDE DEF l
<1>8. /\ validate_authorized_cpi(l, a, ix) /\ scan_ok(Deposited, authorized_call(l, a.ops), l.sub)
      /\ tokens' \in invoke_authorized_cpi(Deposited, authorized_call(l, a.ops))
      /\ reverify_subaccount_custody_except(
             scan_subaccount_custody(Deposited, authorized_call(l, a.ops), l.sub), tokens', l.sub, {})
  BY <1>3 DEF DeployOutcome
<1>9. delegate_spent(Deposited[k], tokens'[k]) + Allowance(tokens'[k]) = Allowance(Deposited[k])
  BY <1>2, <1>5, <1>6, <1>8, SettledDraws
<1> QED
  BY <1>7, <1>9

\* An unwind draws on no account that is not exposed to it.
LEMMA UnwindDraws ==
    ASSUME RegistryInv, TypeInv, CustodyInv, FlowInv, AtomicRedeem, NEW k \in Guarded(deployment)
    PROVE  delegate_spent(tokens[k], tokens'[k]) + Allowance(tokens'[k]) = Allowance(tokens[k])
<1> DEFINE l == ix.legs[1]
<1>1. Running /\ ix.name = "AtomicRedeem"
  BY UnwindHasOutcome
<1>2. tx # NoTx /\ leg_formed(l, Deployments[deployment])
  BY <1>1, RunningFacts, RunningLeg DEF Relays
<1>3. PICK a \in stored_action(l.template) : \E post : UnwindOutcome(l, a, authorized_call(l, a.ops), post)
  BY UnwindHasOutcome
<1>4. a \in actions
  BY DEF stored_action
<1> HIDE DEF l
<1>5. \E n \in Nat : tokens'[k] = [tokens[k] EXCEPT !.amount = n]
  BY <1>2, <1>3, <1>4, UnwindLeavesGuarded
<1>6. tokens[k] \in Account
  BY GuardedNow
<1>7. tokens'[k].delegate = tokens[k].delegate /\ tokens'[k].delegated_amount = tokens[k].delegated_amount
  BY <1>5, <1>6 DEF Account, TokenAccountRecord
<1>8. Allowance(tokens'[k]) = Allowance(tokens[k]) /\ Allowance(tokens[k]) \in Nat
  BY <1>6, <1>7, AllowanceIsNumber DEF Allowance
<1>9. delegate_spent(tokens[k], tokens'[k]) = 0
  BY <1>6, <1>7 DEF delegate_spent, Account, TokenAccountRecord
<1> QED
  BY <1>8, <1>9

\* A flash borrow and a delegate's transfer cost nothing.
LEMMA ExternalCosts ==
    ASSUME RegistryInv, TypeInv, CustodyInv, FlowInv, FlashBorrow \/ DelegateSpend,
           flow' \in [TokenKeys -> Books], tokens' \in [TokenKeys -> Account],
           NEW k \in Guarded(deployment)
    PROVE  CostWithin(tokens[k], tokens'[k], flow[k], flow'[k], 0)
<1> DEFINE e == ix.accounts[1]
<1>1. k \in TokenKeys /\ tokens[k] \in Account /\ flow[k] \in Books /\ live(tokens[k])
  BY GuardedNow
<1>2. flow \in [TokenKeys -> Books] /\ tokens \in [TokenKeys -> Account]
  BY CurrentAccounts DEF FlowInv, TokenKeys, InitialTokens
<1>3. tokens'[k] \in Account /\ flow'[k] \in Books
  BY <1>1
<1>4. ASSUME NEW n \in Nat, delegate_spent(tokens[k], tokens'[k]) + Allowance(tokens'[k]) = Allowance(tokens[k]),
             delegate_spent(tokens[k], tokens'[k]) = n,
             flow'[k].spent = flow[k].spent + n, flow'[k].fees = flow[k].fees
      PROVE  CostWithin(tokens[k], tokens'[k], flow[k], flow'[k], 0)
  BY <1>1, <1>3, <1>4, DrawingIsFree
<1>5. ASSUME tokens'[k] = tokens[k], flow'[k].spent = flow[k].spent, flow'[k].fees = flow[k].fees
      PROVE  CostWithin(tokens[k], tokens'[k], flow[k], flow'[k], 0)
  <2>1. Allowance(tokens[k]) \in Nat /\ flow[k].spent \in Int /\ flow[k].fees \in Int
    BY <1>1, AllowanceIsNumber DEF Books
  <2> QED
    BY <1>5, <2>1 DEF CostWithin
<1>6. CASE FlashBorrow
  <2> DEFINE paid == LoanTo(deployment, tx.body, pc, e)
  <2>1. /\ e \in TokenKeys /\ paid \in Nat /\ flow' = LoanBooked(flow, e, paid)
        /\ tokens' = [tokens EXCEPT ![e] = spl_credit(@, paid)]
    BY <1>6, BorrowBooks
  <2> HIDE DEF e, paid
  <2>2. flow'[k].spent = flow[k].spent /\ flow'[k].fees = flow[k].fees
    <3>1. paid \in Int
      BY <2>1
    <3> QED
      BY <1>1, <1>2, <2>1, <3>1, LoansBooked
  <2>3. CASE k # e
    <3>1. tokens'[k] = tokens[k]
      BY <1>1, <1>2, <2>1, <2>3
    <3> QED
      BY <1>5, <2>2, <3>1
  <2>4. CASE k = e
    <3>1. tokens'[k] = [tokens[k] EXCEPT !.amount = @ + paid]
      BY <1>1, <1>2, <2>1, <2>4 DEF spl_credit
    <3>2. tokens'[k].delegate = tokens[k].delegate /\ tokens'[k].delegated_amount = tokens[k].delegated_amount
      BY <1>1, <3>1 DEF Account, TokenAccountRecord
    <3>3. Allowance(tokens'[k]) = Allowance(tokens[k])
      BY <3>2 DEF Allowance
    <3>4. Allowance(tokens[k]) \in Nat /\ flow[k].spent \in Int /\ flow[k].fees \in Int
      BY <1>1, AllowanceIsNumber DEF Books
    <3> QED
      BY <2>2, <3>3, <3>4 DEF CostWithin
  <2> QED
    BY <2>3, <2>4
<1>7. CASE DelegateSpend
  <2>1. PICK n \in Nat :
          /\ e \in TokenKeys /\ tokens[e].delegate # NoKey
          /\ n <= tokens[e].delegated_amount /\ n <= tokens[e].amount
          /\ flow' = DrawBooked(flow, e, n) /\ tokens' = [tokens EXCEPT ![e] = spl_delegate_debit(@, n)]
    BY <1>7, DrawBooks
  <2> HIDE DEF e
  <2>2. n \in Int
    OBVIOUS
  <2>3. CASE k # e
    <3>1. tokens'[k] = tokens[k]
      BY <1>1, <1>2, <2>1, <2>3
    <3>2. flow'[k] = flow[k]
      BY <1>1, <1>2, <2>1, <2>2, <2>3, LoansBooked
    <3> QED
      BY <1>5, <3>1, <3>2
  <2>4. CASE k = e
    <3>1. tokens'[k] = spl_delegate_debit(tokens[k], n)
      BY <1>1, <1>2, <2>1, <2>4
    <3>2. Drawn(tokens[k], tokens'[k]) /\ delegate_spent(tokens[k], tokens'[k]) = n
      BY <1>1, <2>1, <2>4, <3>1, DelegateDraws
    <3>3. flow'[k].spent = flow[k].spent + n /\ flow'[k].fees = flow[k].fees
      BY <1>1, <1>2, <2>1, <2>2, <2>4, LoansBooked
    <3> QED
      BY <1>4, <3>2, <3>3 DEF Drawn
  <2> QED
    BY <2>3, <2>4
<1> QED
  BY <1>6, <1>7

\* Every instruction costs at most what it grants.
LEMMA InstructionCosts ==
    ASSUME RegistryInv, TypeInv, CustodyInv, FlowInv,
           Manage \/ Swap \/ DepositAndDeploy \/ AtomicRedeem \/ AssertDelegateCleared
             \/ FlashBorrow \/ DelegateSpend,
           flow' \in [TokenKeys -> Books], tokens' \in [TokenKeys -> Account],
           NEW k \in Guarded(deployment)
    PROVE  CostCovered(k)
<1>1. /\ k \in TokenKeys /\ tokens[k] \in Account /\ flow[k] \in Books /\ live(tokens[k])
      /\ tokens'[k] \in Account /\ flow'[k] \in Books
  BY GuardedNow
<1>2. CASE Swap \/ DepositAndDeploy \/ AtomicRedeem
  <2>1. delegate_spent(tokens[k], tokens'[k]) + Allowance(tokens'[k]) = Allowance(tokens[k])
    BY <1>2, SwapDraws, DeployDraws, UnwindDraws
  <2>2. flow'[k].spent = flow[k].spent + delegate_spent(tokens[k], tokens'[k]) /\ flow'[k].fees = flow[k].fees
    BY <1>1, <1>2, RelayBooks
  <2> QED
    BY <1>1, <2>1, <2>2, DrawingIsFree, FreeIsCovered
<1>3. CASE AssertDelegateCleared
  <2>1. tokens'[k] = tokens[k] /\ flow' = flow
    BY <1>3 DEF AssertDelegateCleared
  <2>2. Allowance(tokens[k]) \in Nat /\ flow[k].spent \in Int /\ flow[k].fees \in Int
    BY <1>1, AllowanceIsNumber DEF Books
  <2>3. CostWithin(tokens[k], tokens'[k], flow[k], flow'[k], 0)
    BY <2>1, <2>2 DEF CostWithin
  <2> QED
    BY <2>3, FreeIsCovered
<1> QED
  BY <1>2, <1>3, ManageCosts, ExternalCosts, FreeIsCovered

-----------------------------------------------------------------------------
(* Every loan counted once.                                                  *)

\* The instruction at a place of a transaction.
InstructionAt(d, body, j) == Deployments[d].instructions[body[j]]

\* LoansAreNotShared, of a deployment and a transaction's body.
LoansApart(d, body) ==
    \A j, k \in DOMAIN body :
        InstructionAt(d, body, j).name = "Manage" /\ InstructionAt(d, body, k).name = "Manage" =>
            \A m \in 1..Len(InstructionAt(d, body, j).legs), n \in 1..Len(InstructionAt(d, body, k).legs) :
                (\E p \in DOMAIN body : /\ Bound(d, InstructionAt(d, body, j).legs[m], p - j)
                                        /\ Bound(d, InstructionAt(d, body, k).legs[n], p - k))
                => j = k /\ m = n

\* The loan at `p' may have been given out as an allowance by action `m' of instruction `j'.
BackedAt(d, body, j, m, p) ==
    /\ j \in DOMAIN body /\ InstructionAt(d, body, j).name = "Manage"
    /\ m \in 1..Len(InstructionAt(d, body, j).legs)
    /\ Bound(d, InstructionAt(d, body, j).legs[m], p - j)

\* It may have been by the time instruction `n' comes to action `l'.
Backed(d, body, n, l, p) ==
    \E j, m : BackedAt(d, body, j, m, p) /\ (j < n \/ (j = n /\ m < l))

\* What lenders have paid an account, and what of the transaction's loans may have been allowed on it.
PaidBy(d, body, n, k) == [j \in DOMAIN body |-> IF j < n THEN LoanTo(d, body, j, k) ELSE 0]
BackedBy(d, body, n, l, k) == [j \in DOMAIN body |-> IF Backed(d, body, n, l, j) THEN LoanTo(d, body, j, k) ELSE 0]

PaidIn(d, body, n, k) == SumFunctionOnSet(PaidBy(d, body, n, k), DOMAIN body)
Covered(d, body, n, l, k) == SumFunctionOnSet(BackedBy(d, body, n, l, k), DOMAIN body)

\* It is finite, and the sums over it are of natural numbers.
LEMMA BodySums ==
    ASSUME NEW d, NEW body, BodyOf(d, body), NEW n \in Nat, NEW l, NEW k
    PROVE  /\ IsFiniteSet(DOMAIN body)
           /\ \A j \in DOMAIN body : PaidBy(d, body, n, k)[j] \in Nat /\ BackedBy(d, body, n, l, k)[j] \in Nat
           /\ PaidIn(d, body, n, k) \in Nat /\ Covered(d, body, n, l, k) \in Nat
<1>1. IsFiniteSet(DOMAIN body)
  <2>1. Len(body) \in Nat /\ DOMAIN body = 1..Len(body) /\ 1 \in Int /\ Len(body) \in Int
    BY DEF BodyOf
  <2> QED
    BY <2>1, FS_Interval
<1>2. \A j \in DOMAIN body : PaidBy(d, body, n, k)[j] \in Nat
  BY LoanIsNatural DEF PaidBy
<1>3. \A j \in DOMAIN body : BackedBy(d, body, n, l, k)[j] \in Nat
  BY LoanIsNatural DEF BackedBy
<1> QED
  BY <1>1, <1>2, <1>3, SumNat DEF PaidIn, Covered

\* Nothing is paid in before the first instruction.
LEMMA NothingPaidYet ==
    ASSUME NEW d, NEW body, BodyOf(d, body), NEW k
    PROVE  PaidIn(d, body, 1, k) = 0
<1>1. IsFiniteSet(DOMAIN body)
  BY BodySums
<1>2. \A j \in DOMAIN body : PaidBy(d, body, 1, k)[j] = 0
  <2>1. \A j \in DOMAIN body : ~(j < 1)
    BY DEF BodyOf
  <2> QED
    BY <2>1 DEF PaidBy
<1> QED
  BY <1>1, <1>2, SumZero DEF PaidIn

\* An instruction pays in its loan.
LEMMA NextPaid ==
    ASSUME NEW d, NEW body, BodyOf(d, body), NEW n \in DOMAIN body, NEW k
    PROVE  PaidIn(d, body, n + 1, k) = PaidIn(d, body, n, k) + LoanTo(d, body, n, k)
<1> DEFINE f == PaidBy(d, body, n, k)
           g == PaidBy(d, body, n + 1, k)
<1>1. n \in Nat /\ n + 1 \in Nat /\ DOMAIN body \subseteq Nat
  BY DEF BodyOf
<1>2. IsFiniteSet(DOMAIN body) /\ \A j \in DOMAIN body : f[j] \in Nat /\ g[j] \in Nat
  BY <1>1, BodySums
<1>3. f[n] = 0 /\ g[n] = LoanTo(d, body, n, k)
  BY <1>1 DEF PaidBy
<1>4. \A j \in DOMAIN body \ {n} : g[j] = f[j]
  BY <1>1 DEF PaidBy
<1> HIDE DEF f, g
<1>5. SumFunctionOnSet(g, DOMAIN body) = SumFunctionOnSet(f, DOMAIN body) + g[n] - f[n]
  BY <1>2, <1>4, SumUpdate
<1>6. SumFunctionOnSet(f, DOMAIN body) \in Nat /\ g[n] \in Nat
  BY <1>2, SumNat
<1> QED
  BY <1>3, <1>5, <1>6 DEF PaidIn, f, g

\* At the end every loan was paid in.
LEMMA CoveredIsPaid ==
    ASSUME NEW d, NEW body, BodyOf(d, body), NEW n \in Nat, n > Len(body), NEW l, NEW k
    PROVE  Covered(d, body, n, l, k) <= PaidIn(d, body, n, k)
<1> DEFINE f == BackedBy(d, body, n, l, k)
           g == PaidBy(d, body, n, k)
<1>1. IsFiniteSet(DOMAIN body) /\ \A j \in DOMAIN body : f[j] \in Nat /\ g[j] \in Nat
  BY BodySums
<1>2. \A j \in DOMAIN body : j < n
  BY DEF BodyOf
<1>3. \A j \in DOMAIN body : f[j] <= g[j]
  <2> SUFFICES ASSUME NEW j \in DOMAIN body PROVE f[j] <= g[j]
    OBVIOUS
  <2>1. LoanTo(d, body, j, k) \in Nat
    BY LoanIsNatural
  <2>2. g[j] = LoanTo(d, body, j, k)
    BY <1>2 DEF PaidBy
  <2>3. f[j] = LoanTo(d, body, j, k) \/ f[j] = 0
    BY DEF BackedBy
  <2> QED
    BY <2>1, <2>2, <2>3
<1> HIDE DEF f, g
<1> QED
  BY <1>1, <1>3, SumMonotone DEF Covered, PaidIn, f, g

\* What is backed stays so, and a step that grants a loan not yet backed adds it.
LEMMA CoverGrows ==
    ASSUME NEW d, NEW body, BodyOf(d, body), NEW n \in Nat, NEW l, NEW n1 \in Nat, NEW l1, NEW k,
           \A j \in DOMAIN body : Backed(d, body, n, l, j) => Backed(d, body, n1, l1, j),
           NEW granted \in Nat,
           granted = 0 \/ \E j \in DOMAIN body : /\ granted = LoanTo(d, body, j, k)
                                                 /\ ~Backed(d, body, n, l, j) /\ Backed(d, body, n1, l1, j)
    PROVE  Covered(d, body, n, l, k) + granted <= Covered(d, body, n1, l1, k)
<1> DEFINE f == BackedBy(d, body, n, l, k)
           g == BackedBy(d, body, n1, l1, k)
<1>1. IsFiniteSet(DOMAIN body) /\ \A j \in DOMAIN body : f[j] \in Nat /\ g[j] \in Nat
  BY BodySums
<1>2. \A j \in DOMAIN body : f[j] <= g[j]
  <2> SUFFICES ASSUME NEW j \in DOMAIN body PROVE f[j] <= g[j]
    OBVIOUS
  <2>1. LoanTo(d, body, j, k) \in Nat
    BY LoanIsNatural
  <2>2. f[j] = 0 \/ (f[j] = LoanTo(d, body, j, k) /\ g[j] = LoanTo(d, body, j, k))
    BY DEF BackedBy
  <2> QED
    BY <1>1, <2>1, <2>2
<1>3. CASE granted = 0
  <2> HIDE DEF f, g
  <2>1. SumFunctionOnSet(f, DOMAIN body) <= SumFunctionOnSet(g, DOMAIN body)
    BY <1>1, <1>2, SumMonotone
  <2>2. SumFunctionOnSet(f, DOMAIN body) \in Nat
    BY <1>1, SumNat
  <2> QED
    BY <1>3, <2>1, <2>2 DEF Covered, f, g
<1>4. CASE \E j \in DOMAIN body : /\ granted = LoanTo(d, body, j, k)
                                  /\ ~Backed(d, body, n, l, j) /\ Backed(d, body, n1, l1, j)
  <2>1. PICK j \in DOMAIN body : /\ granted = LoanTo(d, body, j, k)
                                 /\ ~Backed(d, body, n, l, j) /\ Backed(d, body, n1, l1, j)
    BY <1>4
  <2>2. f[j] = 0 /\ g[j] = granted
    BY <2>1 DEF BackedBy
  <2> HIDE DEF f, g
  <2>3. f[j] + granted <= g[j]
    BY <2>2
  <2> QED
    BY <1>1, <1>2, <2>3, SumExceeds DEF Covered, f, g
<1> QED
  BY <1>3, <1>4

\* The running transaction's body is one.
LEMMA RunningBody ==
    ASSUME RegistryInv, TypeInv, tx # NoTx
    PROVE  /\ BodyOf(deployment, tx.body) /\ pc \in Nat
           /\ LoansApart(deployment, tx.body) <=> LoansAreNotShared
           /\ \A j : InstructionAt(deployment, tx.body, j) = at(j)
<1>1. Transaction(deployment, tx, pc, leg, saved)
  BY DEF TypeInv, Typing
<1>2. BodyOf(deployment, tx.body)
  BY <1>1, TheDeployment DEF Transaction, BodyOf
<1>3. pc \in Nat
  BY <1>1 DEF Transaction
<1>4. \A l, distance : Bound(deployment, l, distance) <=> bound_to(l, distance)
  BY DEF Bound, bound_to, Templates
<1>5. \A j : InstructionAt(deployment, tx.body, j) = at(j)
  BY DEF InstructionAt, at, Instructions
<1>6. LoansApart(deployment, tx.body) <=> LoansAreNotShared
  BY <1>4, <1>5 DEF LoansApart, LoansAreNotShared
<1> QED
  BY <1>2, <1>3, <1>5, <1>6

\* Where an instruction goes on.
LEMMA Moves ==
    ASSUME Manage \/ Swap \/ DepositAndDeploy \/ AtomicRedeem \/ AssertDelegateCleared
             \/ FlashBorrow \/ DelegateSpend
    PROVE  /\ Running /\ tx' = tx
           /\ \/ pc' = pc + 1 /\ leg' = 1
              \/ pc' = pc /\ leg' = leg + 1 /\ ix.name = "Manage"
<1>1. Advance => tx' = tx /\ pc' = pc + 1 /\ leg' = 1
  BY DEF Advance
<1>2. next_leg => tx' = tx /\ ((pc' = pc + 1 /\ leg' = 1) \/ (pc' = pc /\ leg' = leg + 1))
  BY <1>1 DEF next_leg
<1> QED
  BY <1>1, <1>2 DEF Manage, Swap, DepositAndDeploy, AtomicRedeem, AssertDelegateCleared, FlashBorrow, DelegateSpend

\* An action that comes to its loan is the first to.
LEMMA GrantIsFirst ==
    ASSUME RegistryInv, TypeInv, Running, LoansApart(deployment, tx.body), ix.name = "Manage",
           NEW p \in DOMAIN tx.body, Bound(deployment, ix.legs[leg], p - pc)
    PROVE  /\ ~Backed(deployment, tx.body, pc, leg, p)
           /\ Backed(deployment, tx.body, pc + 1, 1, p) /\ Backed(deployment, tx.body, pc, leg + 1, p)
<1> DEFINE d == deployment
           body == tx.body
<1>1. /\ tx # NoTx /\ pc \in DOMAIN body /\ Transaction(d, tx, pc, leg, saved)
      /\ InstructionAt(d, body, pc) = ix /\ pc \in Nat
  BY RunningFacts DEF Running, InstructionAt
<1>2. leg \in 1..Len(ix.legs)
  BY <1>1 DEF Transaction, InstructionAt
<1>3. Len(ix.legs) \in Nat
  BY RunningFacts DEF instruction_formed, Relays
<1>4. leg \in Nat
  BY <1>2, <1>3
<1>5. BackedAt(d, body, pc, leg, p)
  BY <1>1, <1>2 DEF BackedAt
<1>6. ASSUME NEW j, NEW m, BackedAt(d, body, j, m, p) PROVE j = pc /\ m = leg
  BY <1>5, <1>6 DEF BackedAt, LoansApart
<1> HIDE DEF d, body
<1>7. ~Backed(d, body, pc, leg, p)
  BY <1>1, <1>4, <1>6 DEF Backed
<1>8. pc < pc + 1 /\ leg < leg + 1
  BY <1>1, <1>4
<1>9. Backed(d, body, pc + 1, 1, p) /\ Backed(d, body, pc, leg + 1, p)
  BY <1>5, <1>8 DEF Backed
<1> QED
  BY <1>7, <1>9 DEF d, body

\* What was backed stays so.
LEMMA BackedStays ==
    ASSUME NEW d, NEW body, BodyOf(d, body), NEW n \in Nat, NEW l, NEW p, Backed(d, body, n, l, p)
    PROVE  Backed(d, body, n + 1, 1, p) /\ (l \in Int => Backed(d, body, n, l + 1, p))
<1>1. PICK j, m : BackedAt(d, body, j, m, p) /\ (j < n \/ (j = n /\ m < l))
  BY DEF Backed
<1>2. j \in Nat /\ m \in Int
  BY <1>1 DEF BackedAt, BodyOf
<1>3. j < n + 1 /\ (l \in Int => j < n \/ (j = n /\ m < l + 1))
  BY <1>1, <1>2
<1> QED
  BY <1>1, <1>3 DEF Backed

\* Instructions cover what they grant.
LEMMA CoverFollows ==
    ASSUME RegistryInv, TypeInv, Running, LoansApart(deployment, tx.body), NEW k,
           NEW granted \in Nat, Grants(k, granted),
           \/ pc' = pc + 1 /\ leg' = 1
           \/ pc' = pc /\ leg' = leg + 1 /\ ix.name = "Manage"
    PROVE  Covered(deployment, tx.body, pc, leg, k) + granted <= Covered(deployment, tx.body, pc', leg', k)
<1> DEFINE d == deployment
           body == tx.body
<1>1. tx # NoTx /\ BodyOf(d, body) /\ pc \in Nat /\ pc' \in Nat
  BY RunningFacts, RunningBody
<1>2. \A p \in DOMAIN body : Backed(d, body, pc, leg, p) => Backed(d, body, pc', leg', p)
  <2>1. CASE pc' = pc + 1 /\ leg' = 1
    <3> HIDE DEF d, body
    <3> QED
      BY <1>1, <2>1, BackedStays
  <2>2. CASE pc' = pc /\ leg' = leg + 1 /\ ix.name = "Manage"
    <3>1. leg \in Int
      <4>1. leg \in 1..Len(ix.legs)
        BY <2>2, RunningFacts DEF Transaction, Running
      <4> QED
        BY <4>1
    <3> HIDE DEF d, body
    <3> QED
      BY <1>1, <2>2, <3>1, BackedStays
  <2> QED
    BY <2>1, <2>2
<1>3. \/ granted = 0
      \/ \E p \in DOMAIN body : /\ granted = LoanTo(d, body, p, k)
                                /\ ~Backed(d, body, pc, leg, p) /\ Backed(d, body, pc', leg', p)
  <2>1. CASE granted = 0
    BY <2>1
  <2>2. CASE /\ ix.name = "Manage"
             /\ \E p \in DOMAIN tx.body : /\ Bound(deployment, ix.legs[leg], p - pc)
                                          /\ granted = LoanTo(deployment, tx.body, p, k)
    <3>1. PICK p \in DOMAIN tx.body : /\ Bound(deployment, ix.legs[leg], p - pc)
                                      /\ granted = LoanTo(deployment, tx.body, p, k)
      BY <2>2
    <3>2. /\ ~Backed(d, body, pc, leg, p)
          /\ Backed(d, body, pc + 1, 1, p) /\ Backed(d, body, pc, leg + 1, p)
      BY <2>2, <3>1, GrantIsFirst
    <3>3. Backed(d, body, pc', leg', p)
      BY <3>2
    <3> QED
      BY <3>1, <3>2, <3>3
  <2> QED
    BY <2>1, <2>2 DEF Grants
<1> HIDE DEF d, body
<1>4. Covered(d, body, pc, leg, k) + granted <= Covered(d, body, pc', leg', k)
  BY <1>1, <1>2, <1>3, CoverGrows
<1> QED
  BY <1>4 DEF d, body

\* An instruction books its loan.
LEMMA InstructionLends ==
    ASSUME RegistryInv, TypeInv, FlowInv,
           Manage \/ Swap \/ DepositAndDeploy \/ AtomicRedeem \/ AssertDelegateCleared
             \/ FlashBorrow \/ DelegateSpend,
           tokens' \in [TokenKeys -> Account], NEW k \in TokenKeys
    PROVE  flow'[k].borrowed = flow[k].borrowed + LoanTo(deployment, tx.body, pc, k)
<1>1. Running /\ tx # NoTx /\ ix = Deployments[deployment].instructions[tx.body[pc]]
  BY Moves, RunningFacts
<1>2. flow \in [TokenKeys -> Books] /\ tokens \in [TokenKeys -> Account]
  BY CurrentAccounts DEF FlowInv, TokenKeys, InitialTokens
<1>3. flow[k].borrowed \in Int
  <2>1. flow[k] \in Books
    BY <1>2
  <2> QED
    BY <2>1 DEF Books
<1>4. /\ with_spending(flow, tokens') \in [TokenKeys -> Books]
      /\ with_spending(flow, tokens')[k].borrowed = flow[k].borrowed
  BY <1>2, SpendingBooked
<1>5. CASE FlashBorrow
  <2> DEFINE e == ix.accounts[1]
             paid == LoanTo(deployment, tx.body, pc, e)
  <2>1. e \in TokenKeys /\ paid \in Int /\ flow' = LoanBooked(flow, e, paid)
    BY <1>5, BorrowBooks
  <2>2. k # e => LoanTo(deployment, tx.body, pc, k) = 0
    BY <1>1 DEF LoanTo
  <2> HIDE DEF e
  <2>3. CASE k = e
    <3> HIDE DEF paid
    <3>1. flow'[e].borrowed = flow[e].borrowed + paid
      BY <1>2, <2>1, LoansBooked
    <3> QED
      BY <2>3, <3>1 DEF paid
  <2>4. CASE k # e
    <3> HIDE DEF paid
    <3>1. flow'[k] = flow[k]
      BY <1>2, <2>1, <2>4, LoansBooked
    <3> QED
      BY <1>3, <2>2, <2>4, <3>1
  <2> QED
    BY <2>3, <2>4
<1>6. CASE ix.name # "FlashBorrow" /\ flow'[k].borrowed = flow[k].borrowed
  <2>1. LoanTo(deployment, tx.body, pc, k) = 0
    BY <1>1, <1>6 DEF LoanTo
  <2> QED
    BY <1>3, <1>6, <2>1
<1>7. CASE DelegateSpend
  <2> DEFINE e == ix.accounts[1]
  <2>1. PICK n \in Nat : e \in TokenKeys /\ flow' = DrawBooked(flow, e, n)
    BY <1>7, DrawBooks
  <2> HIDE DEF e
  <2>2. n \in Int
    OBVIOUS
  <2>3. k # e => flow'[k] = flow[k]
    BY <1>2, <2>1, <2>2, LoansBooked
  <2>4. flow'[e].borrowed = flow[e].borrowed
    BY <1>2, <2>1, <2>2, LoansBooked
  <2> QED
    BY <1>6, <1>7, <2>3, <2>4 DEF DelegateSpend
<1>8. CASE Swap \/ DepositAndDeploy \/ AtomicRedeem
  <2>1. ix.name # "FlashBorrow"
    BY <1>8 DEF Swap, DepositAndDeploy, AtomicRedeem
  <2> QED
    BY <1>6, <1>8, <2>1, RelayBooks
<1>9. CASE AssertDelegateCleared
  BY <1>6, <1>9 DEF AssertDelegateCleared
<1>10. CASE Manage
  <2> DEFINE l == ix.legs[leg]
  <2>1. ix.name = "Manage"
    BY <1>10 DEF Manage
  <2>2. leg_formed(l, Deployments[deployment])
    BY <1>1, <2>1, RunningLeg DEF Relays
  <2>3. PICK a \in stored_action(l.template) : ManageOutcome(l, a, authorized_call(l, a.ops))
    BY <1>10, ManageHasOutcome
  <2> DEFINE source == authorized_call(l, a.ops).metas[1].key
  <2> HIDE DEF l
  <2>5. CASE ManagerSettled(l, authorized_call(l, a.ops))
    BY <1>4, <1>6, <2>1, <2>5 DEF ManagerSettled
  <2>6. CASE \E amount \in Nat, fee \in Nat : FlashSettled(l, authorized_call(l, a.ops), source, amount, fee)
    <3>1. PICK amount \in Nat, fee \in Nat : FlashSettled(l, authorized_call(l, a.ops), source, amount, fee)
      BY <2>6
    <3>2. flow' = FeeBooked(with_spending(flow, tokens'), source, fee) /\ fee \in Int
      BY <3>1 DEF FlashSettled
    <3> HIDE DEF source
    <3>3. flow'[k].borrowed = with_spending(flow, tokens')[k].borrowed
      BY <1>4, <3>2, FeesBooked
    <3> QED
      BY <1>4, <1>6, <2>1, <3>3
  <2> QED
    BY <1>1, <2>2, <2>3, <2>5, <2>6, ManageSettles
<1> QED
  BY <1>5, <1>7, <1>8, <1>9, <1>10

(***************************************************************************)
(* While a transaction runs, the books hold what its loans paid in so far, *)
(* and what delegates took and may still take is within the fees and the   *)
(* loans the approvals so far were of, each loan counted once, whether or  *)
(* not it was paid in yet.  Between transactions the books are empty.      *)
(***************************************************************************)
Lending(d, toks, t, n, l, f) ==
    /\ t = NoTx => \A k \in DOMAIN Deployments[d].tokens : f[k] = Idle
    /\ t # NoTx => \A k \in DOMAIN Deployments[d].tokens : f[k].borrowed = PaidIn(d, t.body, n, k)
    /\ t # NoTx /\ LoansApart(d, t.body) =>
         \A k \in Guarded(d) : f[k].spent + Allowance(toks[k]) <= f[k].fees + Covered(d, t.body, n, l, k)

LendingInv == Lending(deployment, tokens, tx, pc, leg, flow)

\* Instructions keep it.
LEMMA InstructionKeepsLending ==
    ASSUME RegistryInv, TypeInv, CustodyInv, FlowInv, LendingInv,
           Manage \/ Swap \/ DepositAndDeploy \/ AtomicRedeem \/ AssertDelegateCleared
             \/ FlashBorrow \/ DelegateSpend,
           flow' \in [TokenKeys -> Books], tokens' \in [TokenKeys -> Account]
    PROVE  Lending(deployment, tokens', tx', pc', leg', flow')
<1>1. /\ Running /\ tx' = tx
      /\ \/ pc' = pc + 1 /\ leg' = 1
         \/ pc' = pc /\ leg' = leg + 1 /\ ix.name = "Manage"
  BY Moves
<1>2. /\ tx # NoTx /\ pc \in DOMAIN tx.body /\ BodyOf(deployment, tx.body) /\ pc \in Nat
      /\ ix = Deployments[deployment].instructions[tx.body[pc]]
  BY <1>1, RunningFacts, RunningBody DEF Running
<1>3. TokenKeys = DOMAIN Deployments[deployment].tokens
  BY DEF TokenKeys, InitialTokens
<1>4. ASSUME NEW k \in TokenKeys
      PROVE  flow'[k].borrowed = PaidIn(deployment, tx.body, pc', k)
  <2>1. flow'[k].borrowed = flow[k].borrowed + LoanTo(deployment, tx.body, pc, k)
    BY InstructionLends
  <2>2. flow[k].borrowed = PaidIn(deployment, tx.body, pc, k)
    BY <1>2, <1>3 DEF LendingInv, Lending
  <2>3. CASE pc' = pc + 1
    BY <1>2, <2>1, <2>2, <2>3, NextPaid
  <2>4. CASE pc' = pc /\ ix.name = "Manage"
    <3>1. LoanTo(deployment, tx.body, pc, k) = 0
      BY <1>2, <2>4 DEF LoanTo
    <3>2. PaidIn(deployment, tx.body, pc, k) \in Nat
      BY <1>2, BodySums
    <3> QED
      BY <2>1, <2>2, <2>4, <3>1, <3>2
  <2> QED
    BY <1>1, <2>3, <2>4
<1>5. ASSUME LoansApart(deployment, tx.body), NEW k \in Guarded(deployment)
      PROVE  flow'[k].spent + Allowance(tokens'[k])
               <= flow'[k].fees + Covered(deployment, tx.body, pc', leg', k)
  <2> DEFINE c == Covered(deployment, tx.body, pc, leg, k)
             c1 == Covered(deployment, tx.body, pc', leg', k)
  <2>1. flow[k].spent + Allowance(tokens[k]) <= flow[k].fees + c
    BY <1>2, <1>5 DEF LendingInv, Lending
  <2>2. PICK granted \in Nat :
          Grants(k, granted) /\ CostWithin(tokens[k], tokens'[k], flow[k], flow'[k], granted)
    BY <1>5, InstructionCosts DEF CostCovered
  <2>3. c + granted <= c1
    BY <1>1, <1>5, <2>2, CoverFollows
  <2>4. /\ k \in TokenKeys /\ tokens[k] \in Account /\ flow[k] \in Books
        /\ tokens'[k] \in Account /\ flow'[k] \in Books
    BY <1>5, GuardedNow
  <2>5. /\ flow[k].spent \in Int /\ flow[k].fees \in Int /\ flow'[k].spent \in Int /\ flow'[k].fees \in Int
        /\ Allowance(tokens[k]) \in Nat /\ Allowance(tokens'[k]) \in Nat
    BY <2>4, AllowanceIsNumber DEF Books
  <2>6. c \in Nat /\ c1 \in Nat
    <3>1. pc' \in Nat
      BY <1>1, <1>2
    <3> QED
      BY <1>2, <3>1, BodySums
  <2>7. (flow'[k].spent + Allowance(tokens'[k])) + flow[k].fees
           <= (flow[k].spent + Allowance(tokens[k])) + (flow'[k].fees + granted)
    BY <2>2 DEF CostWithin
  <2> HIDE DEF c, c1
  <2>8. flow'[k].spent + Allowance(tokens'[k]) <= flow'[k].fees + c1
    BY <2>1, <2>3, <2>5, <2>6, <2>7
  <2> QED
    BY <2>8 DEF c1
<1> QED
  BY <1>1, <1>2, <1>3, <1>4, <1>5 DEF Lending

\* The books begin empty.
LEMMA LendingInit ==
    ASSUME Init
    PROVE  LendingInv
BY DEF Init, LendingInv, Lending, TokenKeys, InitialTokens

\* A transaction begins with nothing lent, nothing taken and no delegate.
LEMMA BeginLends ==
    ASSUME RegistryInv, TypeInv, CustodyInv, LendingInv,
           NEW signer \in Wallets, NEW body \in Bodies, Begin(signer, body)
    PROVE  Lending(deployment, tokens', tx', pc', leg', flow')
<1>1. /\ tx = NoTx /\ tx' = [signer |-> signer, body |-> body] /\ pc' = 1 /\ leg' = 1
      /\ tokens' = tokens /\ flow' = flow
  BY DEF Begin
<1>2. tx'.body = body
  BY <1>1
<1>3. BodyOf(deployment, body)
  <2>1. deployment \in DOMAIN Deployments
    BY TheDeployment
  <2>2. /\ Len(body) \in Nat /\ DOMAIN body = 1..Len(body)
        /\ \A i \in DOMAIN body : body[i] \in DOMAIN Deployments[deployment].instructions
    BY BodyOfBodies
  <2> QED
    BY <2>1, <2>2 DEF BodyOf
<1>4. \A k \in DOMAIN Deployments[deployment].tokens : flow[k] = Idle
  BY <1>1 DEF LendingInv, Lending
<1>5. ASSUME NEW k \in DOMAIN Deployments[deployment].tokens
      PROVE  flow'[k].borrowed = PaidIn(deployment, body, 1, k)
  BY <1>1, <1>3, <1>4, NothingPaidYet, IdleBooks
<1>6. ASSUME NEW k \in Guarded(deployment)
      PROVE  flow'[k].spent + Allowance(tokens'[k]) <= flow'[k].fees + Covered(deployment, body, 1, 1, k)
  <2>1. flow'[k].spent = 0 /\ flow'[k].fees = 0
    BY <1>1, <1>4, GuardedFacts, IdleBooks
  <2>2. Allowance(tokens'[k]) = 0
    BY <1>1 DEF CustodyInv, Custody, Allowance
  <2>3. Covered(deployment, body, 1, 1, k) \in Nat
    BY <1>3, BodySums
  <2> QED
    BY <2>1, <2>2, <2>3
<1> QED
  BY <1>1, <1>2, <1>5, <1>6 DEF Lending, NoTx

\* Every step keeps the loans covered.
LEMMA LendingInductive ==
    ASSUME RegistryInv, TypeInv, CustodyInv, FlowInv, LendingInv, [Next]_vars, TypeInv', FlowInv'
    PROVE  LendingInv'
<1>1. Lending(deployment, tokens, tx, pc, leg, flow)
  BY DEF LendingInv
<1>2. SUFFICES Lending(deployment', tokens', tx', pc', leg', flow')
  BY DEF LendingInv
<1>3. ASSUME deployment' = deployment, UNCHANGED tx_vars
      PROVE  Lending(deployment', tokens', tx', pc', leg', flow')
  <2>1. tokens' = tokens /\ tx' = tx /\ pc' = pc /\ leg' = leg /\ flow' = flow
    BY <1>3 DEF tx_vars
  <2> QED
    BY <1>1, <1>3, <2>1
<1>4. ASSUME RegistryStep PROVE Lending(deployment', tokens', tx', pc', leg', flow')
  BY <1>3, <1>4 DEF RegistryStep, AuthorizeAction, RevokeAction, AdminSetFlashFeeRate,
     StrategistLowerFlashFeeRate, update_action_flash_fee, SetStrategist, SetManagePaused
<1>5. ASSUME TransactionStep PROVE Lending(deployment', tokens', tx', pc', leg', flow')
  <2>1. deployment' = deployment
    BY <1>5, TransactionsLeaveTheRegistry
  <2>2. flow' \in [TokenKeys -> Books] /\ tokens' \in [TokenKeys -> Account]
    BY <2>1 DEF TypeInv, Typing, FlowInv, TokenKeys, InitialTokens
  <2>3. CASE Commit \/ Abort
    <3>1. tx' = NoTx /\ flow' = [k \in TokenKeys |-> Idle]
      BY <2>3 DEF Commit, Abort
    <3> QED
      BY <2>1, <3>1 DEF Lending, TokenKeys, InitialTokens
  <2>4. CASE \E signer \in Wallets, body \in Bodies : Begin(signer, body)
    BY <2>1, <2>4, BeginLends
  <2>5. CASE Manage \/ Swap \/ DepositAndDeploy \/ AtomicRedeem \/ AssertDelegateCleared
               \/ FlashBorrow \/ DelegateSpend
    BY <2>1, <2>2, <2>5, InstructionKeepsLending
  <2> QED
    BY <1>5, <2>3, <2>4, <2>5 DEF TransactionStep
<1>6. ASSUME UNCHANGED vars PROVE Lending(deployment', tokens', tx', pc', leg', flow')
  BY <1>3, <1>6 DEF vars, registry_vars
<1> QED
  BY <1>4, <1>5, <1>6 DEF Next

\* Once the last instruction ran, the loans that cover the approvals are all paid in.
LEMMA LoansCoverWhatWasTaken ==
    ASSUME RegistryInv, TypeInv, CustodyInv, FlowInv, LendingInv
    PROVE  FlashCostsAtMostItsFee
<1> SUFFICES ASSUME Finished, LoansAreNotShared, NEW k \in CustodyKeys \ Exposed
             PROVE  flow[k].spent <= flow[k].borrowed + flow[k].fees
  BY DEF FlashCostsAtMostItsFee
<1> DEFINE c == Covered(deployment, tx.body, pc, leg, k)
           p == PaidIn(deployment, tx.body, pc, k)
<1>1. tx # NoTx /\ pc > Len(tx.body)
  BY DEF Finished
<1>2. k \in Guarded(deployment)
  BY UnexposedIsGuarded
<1>3. BodyOf(deployment, tx.body) /\ pc \in Nat /\ LoansApart(deployment, tx.body)
  BY <1>1, RunningBody
<1>4. k \in TokenKeys /\ tokens[k] \in Account /\ flow[k] \in Books
  BY <1>2, GuardedNow
<1>5. flow[k].spent + Allowance(tokens[k]) <= flow[k].fees + c
  BY <1>1, <1>2, <1>3 DEF LendingInv, Lending
<1>6. flow[k].borrowed = p
  BY <1>1, <1>4 DEF LendingInv, Lending, TokenKeys, InitialTokens
<1>7. c <= p
  BY <1>1, <1>3, CoveredIsPaid
<1>8. c \in Nat /\ p \in Nat
  BY <1>3, BodySums
<1>9. Allowance(tokens[k]) \in Nat /\ flow[k].spent \in Int /\ flow[k].fees \in Int
  BY <1>4, AllowanceIsNumber DEF Books
<1> HIDE DEF c, p
<1> QED
  BY <1>5, <1>6, <1>7, <1>8, <1>9

(***************************************************************************)
(* What delegates took from a custody account in a transaction is covered  *)
(* by the flash loans paid into that account and the committed fees, for   *)
(* every deployment whose FlashApprove patterns commit to their lender,    *)
(* every length of transaction and however borrows, approvals, transfers,  *)
(* swaps and deposits are arranged or repeated in it                       *)
(* (bind_flash_siblings, verify_flash_delegate, round_with_min1).  Two     *)
(* cases are not covered: a transaction in which two actions are bound to  *)
(* one loan, and an account an AtomicRedeem route is handed.               *)
(***************************************************************************)
THEOREM FlashLoansCostTheirFee == Spec => []FlashCostsAtMostItsFee
<1> DEFINE Inv == RegistryInv /\ TypeInv /\ CustodyInv /\ FlowInv /\ LendingInv
<1>1. Init => Inv
  BY RegistryInit, TypeInit, CustodyInit, FlowInit, LendingInit
<1>2. Inv /\ [Next]_vars => Inv'
  <2>1. RegistryInv /\ TypeInv /\ CustodyInv /\ FlowInv /\ [Next]_vars
          => RegistryInv' /\ TypeInv' /\ CustodyInv' /\ FlowInv'
    BY RegistryInductive, TypeInductive, CustodyInductive, FlowInductive
  <2>2. RegistryInv /\ TypeInv /\ CustodyInv /\ FlowInv /\ LendingInv /\ [Next]_vars /\ TypeInv' /\ FlowInv'
          => LendingInv'
    BY LendingInductive
  <2> QED
    BY <2>1, <2>2
<1>3. Inv => FlashCostsAtMostItsFee
  BY LoansCoverWhatWasTaken
<1> QED
  BY <1>1, <1>2, <1>3, PTL DEF Spec
=============================================================================
