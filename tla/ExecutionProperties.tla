------------------------ MODULE ExecutionProperties ------------------------
(* What authorized execution promises about custody.                         *)
EXTENDS Execution

AtRest == tx = NoTx

\* Values stay in their sets, and a batch never runs past its last action.
ExecutionTypeOK ==
    /\ \A a \in actions : a.scope \in ActionScopes /\ a.fee \in FeeRates
    /\ strategist \in Wallets /\ swap_authority \in Wallets
    /\ manage_paused \in BOOLEAN
    /\ tokens \in [TokenKeys -> TokenAccountRecord(Nat, DOMAIN Price, Nat)]
    /\ tx = NoTx \/ (tx.signer \in Wallets /\ pc \in 1..Len(tx.body) + 1)
    /\ (Running /\ ix.name = "Manage") => leg \in 1..Len(ix.legs)

\* Accounts an AtomicRedeem route is handed as writable.
Exposed ==
    UNION {writable_tokens(Templates[t].call) :
             t \in {u \in DOMAIN Templates : Templates[u].scope = "AtomicRedeem"}}

(***************************************************************************)
(* Between transactions nobody but its sub-account controls a custody      *)
(* account: no delegate, no close authority, no change of owner, whatever  *)
(* venues do and however a transaction arranges, repeats or leaves out     *)
(* flash borrows, approvals, swaps and cleared checks (scan and reverify,  *)
(* bind_flash_siblings, verify_swap_endpoint_unchanged).  Accounts exposed *)
(* to an AtomicRedeem route are left out: that path re-verifies only the   *)
(* custody account the caller named, which need not be one the route is    *)
(* handed.                                                                 *)
(***************************************************************************)
CustodyIsCleanAtRest ==
    AtRest => \A k \in CustodyKeys \ Exposed :
                 verify_custody_account(tokens[k], InitialTokens[k].owner)

\* An approval by this leg is bound to the loan at this distance: some FlashApprove
\* pattern of the leg's hash commits it.
bound_to(l, distance) ==
    \E u \in DOMAIN Templates :
        /\ Templates[u].scope = "FlashApprove"
        /\ TemplateHash[deployment][u] = TemplateHash[deployment][l.template]
        /\ \E i \in loan_ops(Templates[u]) : Templates[u].ops[i].relative_index = distance

\* No two actions of the transaction are bound to one of its instructions as their loan.
LoansAreNotShared ==
    \A j, k \in DOMAIN tx.body :
        at(j).name = "Manage" /\ at(k).name = "Manage" =>
            \A m \in 1..Len(at(j).legs), n \in 1..Len(at(k).legs) :
                (\E p \in DOMAIN tx.body :
                    bound_to(at(j).legs[m], p - j) /\ bound_to(at(k).legs[n], p - k))
                => j = k /\ m = n

(***************************************************************************)
(* What delegates took from a custody account in a transaction is covered  *)
(* by what flash loans paid into that same account plus the committed      *)
(* fees: a loan into another account, a repeated approval or a loan by an  *)
(* impostor buys no allowance (bind_flash_siblings, verify_flash_delegate).*)
(* A transaction with two approvals of one loan is left out: a batch has   *)
(* the same siblings for all its actions, and patterns that differ in the  *)
(* loan's distance can meet at it.  So are the accounts exposed to an      *)
(* AtomicRedeem route, on which the venue may plant a delegate.            *)
(***************************************************************************)
FlashCostsAtMostItsFee ==
    Finished /\ LoansAreNotShared =>
        \A k \in CustodyKeys \ Exposed : flow[k].spent <= flow[k].borrowed + flow[k].fees

(***************************************************************************)
(* A relayed call is one the admin meant, relayed by whom its scope names: *)
(* its action is stored, and it agrees with the authorized pattern on the  *)
(* program and on everything the ops ingest.  A call anyone may relay      *)
(* leaves no account to choose: Deploy pins all the metas it passes on,    *)
(* AtomicRedeem every writable one (verify_action_executor,                *)
(* validate_authorized_cpi, require_all_metas_bound,                       *)
(* require_writable_metas_bound).                                          *)
(***************************************************************************)
RelaysAreWhatTheAdminMeant ==
    \A r \in relayed :
        /\ r.action \in actions
        /\ r.action.scope \in {"Manager", "FlashApprove"} => r.signer = strategist
        /\ r.action.scope = "Swap" => r.signer \in {swap_authority, strategist}
        /\ \E t \in Range(Templates) :
             /\ t.scope = r.action.scope /\ t.ops = r.action.ops
             /\ t.call.program = r.call.program
             /\ \A i \in DOMAIN t.ops : SameThrough(t.ops[i], t.call, r.call)
             /\ t.scope = "Deploy" => IsPrefix(r.call.metas, t.call.metas)
             /\ t.scope = "AtomicRedeem" => writable_tokens(r.call) \subseteq writable_tokens(t.call)

\* A token account counts while one of the vault's sub-accounts holds it.
Held(a) == live(a) /\ a.owner \in SubAccounts

AccountValue(a) == IF Held(a) THEN a.amount * Price[a.mint] ELSE 0

CustodyValue(toks) == SumFunction([k \in TokenKeys |-> AccountValue(toks[k])])

\* What a step's delegates drew on an account a sub-account held before it.
DrawnFrom(k) ==
    IF Held(tokens[k]) THEN (flow'[k].spent - flow[k].spent) * Price[tokens[k].mint] ELSE 0

DrawnValue == SumFunction([k \in TokenKeys |-> DrawnFrom(k)])

(***************************************************************************)
(* While the vault bounds slippage, a swap costs it as a whole at most the *)
(* slippage tolerated on what the caller let it spend: no other custody    *)
(* account pays for it, whichever accounts the route is handed, and the    *)
(* input account is not drained past its limit (execute_swap_cpi,          *)
(* verify_swap_value).  What a delegate draws meanwhile under an allowance *)
(* it had before is its own doing, and FlashCostsAtMostItsFee's subject.   *)
(***************************************************************************)
SwapKeepsVaultValue ==
    [][(Running /\ ix.name = "Swap" /\ pc' = pc + 1 /\ MaxSwapSlippageBps > 0) =>
         (CustodyValue(tokens) - CustodyValue(tokens') - DrawnValue) * 10000
            <= MaxSwapSlippageBps * ix.max_in * Price[tokens[ix.accounts[1]].mint]]_vars

(***************************************************************************)
(* A deposit that deploys itself leaves the base that was idle before it   *)
(* where it was, so long as the venue takes no more than the amount the    *)
(* relayed call asks it to: a public caller cannot send withdrawal         *)
(* liquidity into a venue (the amount check of try_deposit_and_deploy).    *)
(* What a venue takes beyond that nothing in the code compares.            *)
(***************************************************************************)
DeployMovesOnlyTheDeposit ==
    [][(/\ Running /\ ix.name = "DepositAndDeploy" /\ pc' = pc + 1
        /\ \A r \in relayed' :
             tokens[BaseCustody].amount + ix.amount - tokens'[BaseCustody].amount <= r.call.data[2]) =>
         tokens'[BaseCustody].amount >= tokens[BaseCustody].amount]_vars

(***************************************************************************)
(* However often the strategist lowers a flash-fee rate, no allowance an   *)
(* action can leave exceeds the one under the rate the admin last chose    *)
(* (try_strategist_lower_flash_fee_rate, rate_strictly_lower).  A rate of  *)
(* the admin's without a denominator is no fraction: an action stored with *)
(* it leaves no allowance, and whatever replaces it compares as lower.     *)
(***************************************************************************)
StrategistNeverRaisesTheCap ==
    \A t \in DOMAIN Templates : \A a \in stored_action(t) : \A value \in Amounts :
        fee_defined(value, admin_rate[t][1], admin_rate[t][2]) =>
            delegate_cap(value, a.fee) <= delegate_cap(value, admin_rate[t])
=============================================================================
