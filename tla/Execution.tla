----------------------------- MODULE Execution -----------------------------
(***************************************************************************)
(* Execution of authorized actions.                                        *)
(*                                                                         *)
(* The admin stores Action accounts; whoever holds the role an action's    *)
(* scope asks for relays a downstream call that matches the stored hash,   *)
(* signed by a sub-account that owns custody.  A transaction is a list of  *)
(* top-level instructions of any program that runs to the end or leaves no *)
(* trace, and a relay may commit to its siblings in that list.             *)
(*                                                                         *)
(* The programs a relay calls are external: a venue that holds the         *)
(* sub-account's signature may do anything an owner may do to the accounts *)
(* it was handed as writable.                                              *)
(***************************************************************************)
EXTENDS Tokens, ActionHash, FiniteSetsExt

CONSTANTS
    ROSHI,           \* crate::ID
    Programs,        \* executable accounts
    SubAccounts,     \* sub-account PDAs of the vault
    BaseCustody,     \* the deposit sub-account's base token account
    PlantedKey,      \* the key a misbehaving venue plants as an authority
    Price,           \* [mint -> base atoms per atom]: the oracle's valuation
    Deployments      \* by name, the deployments considered; their fields are below

VARIABLE deployment  \* the one this behavior is of

Wallets == Deployments[deployment].wallets                   \* signers
InitialTokens == Deployments[deployment].tokens              \* by key, token accounts
TokenKeys == DOMAIN InitialTokens
Templates == Deployments[deployment].templates               \* by name, patterns to authorize
FeeRates == Deployments[deployment].fee_rates                \* <<fee_num, fee_den>>
Instructions == Deployments[deployment].instructions         \* by name, top-level instructions
PauseSettings == Deployments[deployment].pause_settings      \* values of manage_paused
MaxSwapSlippageBps == Deployments[deployment].slippage_bps
Amounts == 0..Deployments[deployment].max_amount             \* bound: balances
MaxBody == Deployments[deployment].max_body                  \* bound: instructions of a transaction

CustodyKeys == {k \in TokenKeys : InitialTokens[k].owner \in SubAccounts}

-----------------------------------------------------------------------------
(* What the deployments consist of.                                          *)

\* Instructions that relay a call.
Relays == {"Manage", "Swap", "DepositAndDeploy", "AtomicRedeem"}

\* A leg names a pattern and carries the call to hold against it.
leg_formed(l, d) ==
    /\ l.template \in DOMAIN d.templates
    /\ l.call.program \in Nat /\ l.call.metas \in Seq(MetaRecord) /\ Bytes(l.call.data)

instruction_formed(i, d) ==
    /\ i.program \in Nat /\ Bytes(i.data) /\ i.accounts \in Seq(Nat)
    /\ i.name \in Relays =>
         Len(i.legs) \in Nat \ {0} /\ \A n \in 1..Len(i.legs) : leg_formed(i.legs[n], d)
    /\ i.name \notin Relays => i.accounts # <<>> /\ i.accounts[1] \in DOMAIN d.tokens
    /\ i.name = "FlashBorrow" => i.lends \in BOOLEAN /\ Len(i.data) >= 2
    /\ i.name = "DepositAndDeploy" => i.amount \in Nat
    /\ i.name = "AtomicRedeem" => i.custody \in DOMAIN d.tokens /\ i.recipient \in DOMAIN d.tokens
    /\ i.name = "Swap" =>
         /\ i.max_in \in Nat /\ Len(i.accounts) >= 2
         /\ i.accounts[1] \in DOMAIN d.tokens /\ i.accounts[2] \in DOMAIN d.tokens

\* The admin hashes a call of its own.
template_formed(t) ==
    /\ t.scope \in ActionScopes /\ t.ops \in Seq(ActionOps)
    /\ well_formed(t.call) /\ hashable(t.ops, t.call)

\* Wallets sign for themselves; no wallet has a sub-account's key, which is a PDA.
deployment_formed(d) ==
    /\ d.wallets \cap SubAccounts = {} /\ d.pause_settings \subseteq BOOLEAN
    /\ IsFiniteSet(DOMAIN d.tokens)
    /\ d.tokens \in [DOMAIN d.tokens -> TokenAccountRecord(Nat, DOMAIN Price, Nat)]
    /\ BaseCustody \in DOMAIN d.tokens
    /\ d.fee_rates \subseteq Nat \X Nat
    /\ d.slippage_bps \in Nat /\ d.slippage_bps <= 10000
    /\ d.max_amount \in Nat /\ d.max_body \in Nat
    /\ \A t \in DOMAIN d.templates : template_formed(d.templates[t])
    /\ \A i \in DOMAIN d.instructions : instruction_formed(d.instructions[i], d)

ASSUME DeploymentsAssumption ==
    /\ PlantedKey \in Nat
    /\ Price \in [DOMAIN Price -> Nat]
    /\ \A name \in DOMAIN Deployments : deployment_formed(Deployments[name])

\* At rest, custody is clean to begin with.
ASSUME CleanStartAssumption ==
    \A name \in DOMAIN Deployments :
        LET d == Deployments[name]
        IN  \A k \in DOMAIN d.tokens :
              d.tokens[k].owner \in SubAccounts =>
                  verify_custody_account(d.tokens[k], d.tokens[k].owner)

(***************************************************************************)
(* A FlashApprove pattern that commits an instruction of this program      *)
(* commits the check that the delegate was cleared: one that runs later,   *)
(* recognized by the committed selector, on the account it checks first.   *)
(***************************************************************************)
backstop(op, t, d) ==
    LET committed == t.call.siblings[op.relative_index]
    IN  /\ op.relative_index > 0
        /\ \A n \in DOMAIN t.ops :
             /\ t.ops[n].kind = "IngestSiblingAccount"
             /\ t.ops[n].relative_index = op.relative_index
             => t.ops[n].index = 0
        /\ \A i \in DOMAIN d.instructions :
             /\ d.instructions[i].program = ROSHI
             /\ \A j \in op.offset + 1 .. op.offset + op.len :
                  committed.data[j] = d.instructions[i].data[j]
             => d.instructions[i].name = "AssertDelegateCleared"

ASSUME BackstopAssumption ==
    \A name \in DOMAIN Deployments :
        LET d == Deployments[name]
        IN  \A t \in DOMAIN d.templates :
              d.templates[t].scope = "FlashApprove" =>
                \A i \in DOMAIN d.templates[t].ops :
                  LET op == d.templates[t].ops[i]
                  IN  /\ op.kind = "IngestSiblingInstruction"
                      /\ d.templates[t].call.siblings[op.relative_index].program = ROSHI
                      => backstop(op, d.templates[t], d)

(***************************************************************************)
(* One that commits an instruction of another program commits a flash      *)
(* loan: the lender's, recognized by the committed selector, which pays    *)
(* the amount after the selector into the account it names first.          *)
(***************************************************************************)
loan(op, t, d) ==
    LET committed == t.call.siblings[op.relative_index]
    IN  /\ op.offset + op.len = 1
        /\ \A n \in DOMAIN t.ops :
             /\ t.ops[n].kind = "IngestSiblingAccount"
             /\ t.ops[n].relative_index = op.relative_index
             => t.ops[n].index = 0
        /\ \A i \in DOMAIN d.instructions :
             /\ d.instructions[i].program = committed.program
             /\ \A j \in op.offset + 1 .. op.offset + op.len :
                  committed.data[j] = d.instructions[i].data[j]
             => d.instructions[i].name = "FlashBorrow" /\ d.instructions[i].lends

\* The ops by which a pattern commits its loans.
loan_ops(t) ==
    {i \in DOMAIN t.ops :
        /\ t.ops[i].kind = "IngestSiblingInstruction"
        /\ t.call.siblings[t.ops[i].relative_index].program # ROSHI}

ASSUME LenderAssumption ==
    \A name \in DOMAIN Deployments :
        LET d == Deployments[name]
        IN  \A t \in DOMAIN d.templates :
              d.templates[t].scope = "FlashApprove" =>
                \A i \in loan_ops(d.templates[t]) :
                  loan(d.templates[t].ops[i], d.templates[t], d)

\* A Deploy pattern's amount is the one the venue supplies: the word after its selector.
ASSUME VenueAssumption ==
    \A name \in DOMAIN Deployments : \A t \in DOMAIN Deployments[name].templates :
        Deployments[name].templates[t].scope = "Deploy" =>
            Deployments[name].templates[t].amount_offset = 1

NoTx == <<>>

VARIABLES
    actions,        \* Action accounts
    strategist,     \* vault.strategist
    swap_authority, \* vault.swap_authority
    manage_paused,  \* vault.manage_paused
    tokens,         \* token accounts, as the running transaction sees them
    tx,             \* [signer, body] or NoTx
    pc,             \* the executing top-level instruction
    leg,            \* the executing action of a batch
    saved,          \* token accounts before the transaction
    flow,           \* auxiliary: what flash loans moved through each account in it
    relayed,        \* auxiliary: the last relay of the transaction
    admin_rate      \* auxiliary: the fee rate the admin last chose per action

registry_vars == <<deployment, actions, strategist, swap_authority, manage_paused, admin_rate>>
tx_vars == <<tokens, tx, pc, leg, saved, flow, relayed>>
vars == <<registry_vars, tx_vars>>

-----------------------------------------------------------------------------
(* The flash fee.                                                            *)

\* Rounds half up, at least one atom; a zero rate needs no denominator.
round_with_min1(value, num, den) ==
    IF num = 0 \/ value = 0 THEN 0
    ELSE LET rounded == (2 * value * num + den) \div (2 * den)
         IN  IF rounded = 0 THEN 1 ELSE rounded

fee_defined(value, num, den) == num = 0 \/ value = 0 \/ den # 0

\* The allowance a FlashApprove of `value' may leave; none while the rate is undefined.
delegate_cap(value, rate) ==
    IF fee_defined(value, rate[1], rate[2])
    THEN value + round_with_min1(value, rate[1], rate[2]) ELSE 0

\* Faulty variant: equal rates, and higher ones over a smaller denominator, pass.
rate_strictly_lower_ByNumerator(new, cur) == new[1] < cur[1] \/ new[2] < cur[2]

\* Cross-multiplied comparison; a zero numerator is a zero rate.
rate_strictly_lower(new, cur) ==
    IF new[1] = 0 THEN cur[1] # 0
    ELSE cur[1] # 0 /\ new[1] * cur[2] < cur[1] * new[2]

-----------------------------------------------------------------------------
(* Authorization of one relayed call.                                        *)

\* The hash the admin computes off chain for each pattern.
TemplateHash ==
    [d \in DOMAIN Deployments |-> [t \in DOMAIN Deployments[d].templates |->
        compute_action_hash_from_metas(Deployments[d].templates[t].ops,
                                       Deployments[d].templates[t].call)]]

\* The Action account at the address derived from that hash, if there is one.
stored_action(t) == {a \in actions : a.action_hash = TemplateHash[deployment][t]}

\* A transaction's instructions, by position.
at(i) == Instructions[tx.body[i]]

\* Top-level instructions the ops refer to, by index relative to the running one.
SiblingIndexes(ops) ==
    {ops[i].relative_index : i \in {j \in DOMAIN ops :
        ops[j].kind \in {"IngestSiblingInstruction", "IngestSiblingAccount"}}}

\* The sysvar can be read, and its indexes are relative to this program's call.
instructions_sysvar(ix) == ix.sysvar /\ ix.program = ROSHI

sibling_exists(r) == pc + r \in DOMAIN tx.body

load_required_siblings_ok(ops, ix) ==
    SiblingIndexes(ops) # {} =>
        /\ instructions_sysvar(ix)
        /\ \A r \in SiblingIndexes(ops) : sibling_exists(r)

load_required_siblings(ops) ==
    [r \in {i \in SiblingIndexes(ops) : sibling_exists(i)} |->
        [program |-> at(pc + r).program, data |-> at(pc + r).data,
         accounts |-> at(pc + r).accounts]]

\* Effective metas: the selected sub-account is promoted to signer.
promoted(metas, sub) ==
    [i \in DOMAIN metas |->
        [metas[i] EXCEPT !.is_signer = @ \/ metas[i].key = sub]]

authorized_call(l, ops) ==
    [program |-> l.call.program, metas |-> promoted(l.call.metas, l.sub),
     data |-> l.call.data, siblings |-> load_required_siblings(ops)]

\* Faulty variant: the recomputed hash is not compared.
validate_authorized_cpi_NoHash(l, a, ix) ==
    /\ l.call.program \in Programs
    /\ load_required_siblings_ok(a.ops, ix)
    /\ hashable(a.ops, authorized_call(l, a.ops))

(***************************************************************************)
(* The call rebuilt from the accounts and flags supplied with the relay    *)
(* has the stored hash.  The submitter marks writable what it asks to be   *)
(* writable; a signer flag needs a transaction signature.                  *)
(***************************************************************************)
validate_authorized_cpi(l, a, ix) ==
    LET call == authorized_call(l, a.ops)
    IN  /\ l.call.program \in Programs
        /\ \A i \in DOMAIN l.call.metas :
             l.call.metas[i].is_signer => l.call.metas[i].key \in {tx.signer, l.sub}
        /\ load_required_siblings_ok(a.ops, ix)
        /\ hashable(a.ops, call)
        /\ compute_action_hash_from_metas(a.ops, call) = a.action_hash

require_writable_metas_bound(call, ops) ==
    \A i \in DOMAIN call.metas :
        call.metas[i].is_writable => ingests_account(ops, i - 1)

\* Faulty variant: readonly metas stay free.
require_all_metas_bound_Writable(call, ops) == require_writable_metas_bound(call, ops)

require_all_metas_bound(call, ops) ==
    \A i \in DOMAIN call.metas : ingests_account(ops, i - 1)

has_account_meta(call, key) == \E i \in DOMAIN call.metas : call.metas[i].key = key

writable_tokens(call) ==
    {call.metas[i].key : i \in {j \in DOMAIN call.metas : call.metas[j].is_writable}}
        \cap TokenKeys

-----------------------------------------------------------------------------
(* What a downstream program may do (external).                              *)

signs(call, key) ==
    \E i \in DOMAIN call.metas : call.metas[i].key = key /\ call.metas[i].is_signer

\* One writable token account after a venue ran.
touched(a, signed) ==
    IF ~live(a) THEN {a}
    ELSE {[a EXCEPT !.amount = n] : n \in {m \in Amounts : signed \/ m >= a.amount}}
         \cup (IF a.delegate = NoKey THEN {}
               ELSE {spl_delegate_debit(a, n) :
                       n \in {m \in Amounts : m <= a.amount /\ m <= a.delegated_amount}})
         \cup (IF ~signed THEN {}
               ELSE {spl_approve(a, PlantedKey, 1),
                     [a EXCEPT !.close_authority = PlantedKey],
                     [a EXCEPT !.owner = PlantedKey],
                     [a EXCEPT !.initialized = FALSE]})

\* SPL Approve: tag 4, then the amount; accounts source, delegate, owner.
SPL_APPROVE_TAG == 4

\* Token program, Approve tag.
verify_is_approve(call) ==
    /\ is_token_program(call.program)
    /\ call.data # <<>> /\ call.data[1] = SPL_APPROVE_TAG

\* What SPL makes of an Approve.
spl_outcomes(toks, call) ==
    LET source == call.metas[1].key
    IN  IF /\ Len(call.metas) >= 3 /\ Len(call.data) >= 2
           /\ source \in writable_tokens(call)
           /\ live(toks[source])
           /\ call.metas[3].key = toks[source].owner /\ call.metas[3].is_signer
        THEN {[toks EXCEPT ![source] = spl_approve(@, call.metas[2].key, call.data[2])]}
        ELSE {}

\* Token accounts after the invoked program returned; empty when it fails.
invoke_authorized_cpi(toks, call) ==
    IF verify_is_approve(call) THEN spl_outcomes(toks, call)
    ELSE LET w == writable_tokens(call)
         IN  {[k \in TokenKeys |-> IF k \in w THEN post[k] ELSE toks[k]] :
                post \in {f \in [w -> UNION {touched(toks[k], signs(call, toks[k].owner)) : k \in w}] :
                            \A k \in w : f[k] \in touched(toks[k], signs(call, toks[k].owner))}}

-----------------------------------------------------------------------------
(* Custody checks around the call.                                           *)

scan_ok(toks, call, sub) ==
    \A k \in writable_tokens(call) : is_clean_custody(toks[k], sub) # "tainted"

scan_subaccount_custody(toks, call, sub) ==
    {k \in writable_tokens(call) : is_clean_custody(toks[k], sub) = "clean"}

\* Faulty variant: a custody account that left the sub-account is forgotten.
reverify_subaccount_custody_except_Foreign(keys, post, sub, exempt) ==
    \A k \in keys \ exempt : is_clean_custody(post[k], sub) # "tainted"

reverify_subaccount_custody_except(keys, post, sub, exempt) ==
    \A k \in keys \ exempt : is_clean_custody(post[k], sub) = "clean"

snapshot_writable_custody(toks, call, sub, exempt) ==
    [k \in scan_subaccount_custody(toks, call, sub) \ exempt |-> toks[k].amount]

\* Faulty variant: balances are not compared.
verify_custody_unchanged_CleanOnly(snapshot, post, sub) ==
    \A k \in DOMAIN snapshot : is_clean_custody(post[k], sub) = "clean"

verify_custody_unchanged(snapshot, post, sub) ==
    \A k \in DOMAIN snapshot :
        is_clean_custody(post[k], sub) = "clean" /\ post[k].amount = snapshot[k]

\* Positions of the ops of one kind.
OpsOfKind(ops, kind) == {i \in DOMAIN ops : ops[i].kind = kind}

\* The account ops paired with an instruction op; the first of them counts.
paired_accounts(ops, r) ==
    {i \in OpsOfKind(ops, "IngestSiblingAccount") : ops[i].relative_index = r}

\* A committed sibling exists, and its tied account is the delegated source.
tied_to_source(ops, r, source) ==
    /\ paired_accounts(ops, r) # {}
    /\ sibling_exists(r)
    /\ LET accounts == at(pc + r).accounts
           index == ops[Min(paired_accounts(ops, r))].index
       IN  index < Len(accounts) /\ accounts[index + 1] = source

\* The amount a flash borrow asks for follows its selector.
amount_at(op) == op.offset + op.len

\* Faulty variant: two borrows will do, with no check that the delegate was cleared.
bind_flash_siblings_NoBackstop(ops, ix, source) ==
    {at(pc + ops[i].relative_index).data[amount_at(ops[i]) + 1] :
        i \in {n \in OpsOfKind(ops, "IngestSiblingInstruction") :
                 /\ tied_to_source(ops, ops[n].relative_index, source)
                 /\ at(pc + ops[n].relative_index).program # ROSHI}}

(***************************************************************************)
(* The borrowed amount F, as a set that is empty when binding fails: two   *)
(* committed siblings, each tied to the source; one is this program's (the *)
(* check that the delegate was cleared), the other the flash borrow, with  *)
(* F right after its selector.                                             *)
(***************************************************************************)
bind_flash_siblings(ops, ix, source) ==
    LET committed == OpsOfKind(ops, "IngestSiblingInstruction")
        resolved(n) == at(pc + ops[n].relative_index)
    IN  {resolved(i).data[amount_at(ops[i]) + 1] :
           i \in {borrow \in committed :
             /\ Cardinality(committed) = 2
             /\ Cardinality(OpsOfKind(ops, "IngestSiblingAccount")) = 2
             /\ instructions_sysvar(ix)
             /\ \A n \in committed : tied_to_source(ops, ops[n].relative_index, source)
             /\ resolved(borrow).program # ROSHI
             /\ \A n \in committed \ {borrow} : resolved(n).program = ROSHI
             /\ amount_at(ops[borrow]) < Len(resolved(borrow).data)}}

-----------------------------------------------------------------------------
(* Transactions.                                                             *)

Running == tx # NoTx /\ pc \in DOMAIN tx.body

ix == at(pc)

Idle == [borrowed |-> 0, fees |-> 0, spent |-> 0]

Begin(signer, body) ==
    /\ tx = NoTx
    /\ tx' = [signer |-> signer, body |-> body]
    /\ pc' = 1 /\ leg' = 1
    /\ saved' = tokens
    /\ UNCHANGED <<registry_vars, tokens, flow, relayed>>

Finished == tx # NoTx /\ pc > Len(tx.body)

Commit ==
    /\ Finished
    /\ tx' = NoTx /\ pc' = 0 /\ leg' = 0
    /\ saved' = <<>>
    /\ flow' = [k \in TokenKeys |-> Idle]
    /\ relayed' = {}
    /\ UNCHANGED <<registry_vars, tokens>>

\* An instruction fails, for whatever reason: nothing of the transaction stays.
Abort ==
    /\ tx # NoTx
    /\ tokens' = saved
    /\ tx' = NoTx /\ pc' = 0 /\ leg' = 0
    /\ saved' = <<>>
    /\ flow' = [k \in TokenKeys |-> Idle]
    /\ relayed' = {}
    /\ UNCHANGED registry_vars

\* The running instruction is done.
Advance == pc' = pc + 1 /\ leg' = 1 /\ UNCHANGED <<registry_vars, tx, saved>>

delegate_spent(pre, post) ==
    IF pre.delegate = NoKey THEN 0 ELSE pre.delegated_amount - post.delegated_amount

with_spending(f, post) ==
    [k \in TokenKeys |-> [f[k] EXCEPT !.spent = @ + delegate_spent(tokens[k], post[k])]]

record_relay(a, call) ==
    relayed' = {[action |-> a, call |-> call, signer |-> tx.signer]}

-----------------------------------------------------------------------------
(* The relay instructions.                                                   *)

\* Faulty variant: whoever signs.
verify_action_executor_AnyWallet(a, executor) == a.scope \in {"Manager", "FlashApprove"}

\* Only the strategist, and only for the two scopes that relay through manage.
verify_action_executor(a, executor) ==
    a.scope \in {"Manager", "FlashApprove"} /\ executor = strategist

validate_manage_accounts(l, a) ==
    /\ l.sub \in SubAccounts
    /\ verify_action_executor(a, tx.signer)
    /\ ~manage_paused

settle_manager(l, call, post) ==
    /\ scan_ok(tokens, call, l.sub)
    /\ reverify_subaccount_custody_except(scan_subaccount_custody(tokens, call, l.sub),
                                          post, l.sub, {})
    /\ flow' = with_spending(flow, post)

settle_flash_approve(l, a, call, post) ==
    LET source == call.metas[1].key
    IN  /\ verify_is_approve(call)
        /\ \E amount \in bind_flash_siblings(a.ops, ix, source) :
             LET fee == round_with_min1(amount, a.fee[1], a.fee[2])
             IN  /\ fee_defined(amount, a.fee[1], a.fee[2])
                 /\ scan_ok(tokens, call, l.sub)
                 /\ reverify_subaccount_custody_except(
                        scan_subaccount_custody(tokens, call, l.sub), post, l.sub, {source})
                 /\ verify_flash_delegate(post[source], l.sub, amount + fee)
                 /\ flow' = [with_spending(flow, post) EXCEPT ![source].fees = @ + fee]

settle_authorized_cpi(l, a, call, post) ==
    \/ a.scope = "Manager" /\ settle_manager(l, call, post)
    \/ a.scope = "FlashApprove" /\ settle_flash_approve(l, a, call, post)

\* Faulty variant: the batch runs on past its last action.
next_leg_PastTheEnd ==
    IF leg <= Len(ix.legs)
    THEN leg' = leg + 1 /\ UNCHANGED <<registry_vars, tx, pc, saved>>
    ELSE Advance

\* The batch goes on with its next action, which sees what this one wrote.
next_leg ==
    IF leg < Len(ix.legs)
    THEN leg' = leg + 1 /\ UNCHANGED <<registry_vars, tx, pc, saved>>
    ELSE Advance

\* One action of Manage or ManageBatch: validated, run and settled in turn.
Manage ==
    /\ Running /\ ix.name = "Manage"
    /\ LET l == ix.legs[leg]
       IN  \E a \in stored_action(l.template) :
             LET call == authorized_call(l, a.ops)
             IN  /\ validate_manage_accounts(l, a)
                 /\ validate_authorized_cpi(l, a, ix)
                 /\ \E post \in invoke_authorized_cpi(tokens, call) :
                      /\ settle_authorized_cpi(l, a, call, post)
                      /\ tokens' = post
                 /\ record_relay(a, call)
    /\ next_leg

\* Only the two endpoints' balances changed, the first down, the second up.
swap_settled(l, input, output, call, post) ==
    LET snapshot == snapshot_writable_custody(tokens, call, l.sub, {input, output})
    IN  /\ \A k \in writable_tokens(call) \ {input, output} :
             is_clean_custody(tokens[k], l.sub) # "tainted"
        /\ verify_custody_unchanged(snapshot, post, l.sub)
        /\ verify_swap_endpoint_unchanged(tokens[input], post[input])
        /\ verify_swap_endpoint_unchanged(tokens[output], post[output])
        /\ post[input].amount <= tokens[input].amount
        /\ post[output].amount >= tokens[output].amount

ceil_div(n, d) == (n + d - 1) \div d

\* The realized output is worth the realized input, less the tolerance.
verify_swap_value(input, output, spent, received) ==
    MaxSwapSlippageBps > 0 =>
        received * Price[tokens[output].mint]
          >= ceil_div(spent * Price[tokens[input].mint] * (10000 - MaxSwapSlippageBps), 10000)

\* Roles, pause, endpoints and scope of a swap.
swap_loaded(l, a, input, output) ==
    /\ tx.signer \in {swap_authority, strategist}
    /\ ~manage_paused
    /\ l.sub \in SubAccounts
    /\ verify_swap_endpoint_custody(tokens[input], l.sub)
    /\ verify_swap_endpoint_custody(tokens[output], l.sub)
    /\ input # output
    /\ a.scope = "Swap"

Swap ==
    /\ Running /\ ix.name = "Swap"
    /\ LET l == ix.legs[1]
           input == ix.accounts[1]
           output == ix.accounts[2]
       IN  \E a \in stored_action(l.template) :
             LET call == authorized_call(l, a.ops)
             IN  /\ swap_loaded(l, a, input, output)
                 /\ validate_authorized_cpi(l, a, ix)
                 /\ \E post \in invoke_authorized_cpi(tokens, call) :
                      LET spent == tokens[input].amount - post[input].amount
                          received == post[output].amount - tokens[output].amount
                      IN  /\ swap_settled(l, input, output, call, post)
                          /\ spent <= ix.max_in /\ received >= ix.min_out
                          /\ verify_swap_value(input, output, spent, received)
                          /\ tokens' = post
                          /\ flow' = with_spending(flow, post)
                 /\ record_relay(a, call)
    /\ Advance

\* The u64 of the route's data at the admin's offset; a set, empty when out of range.
decode_withdrawal_amount(data, a) ==
    IF a.amount_offset < Len(data) THEN {data[a.amount_offset + 1]} ELSE {}

\* Faulty variant: the route's amount is not compared with the deposit.
deploy_amount_matches_Any(data, a, amount) == decode_withdrawal_amount(data, a) # {}

deploy_amount_matches(data, a, amount) == decode_withdrawal_amount(data, a) = {amount}

\* Public: deposit base, then relay a Deploy action from the deposit sub-account.
DepositAndDeploy ==
    /\ Running /\ ix.name = "DepositAndDeploy"
    /\ LET l == ix.legs[1]
           deposited == [tokens EXCEPT ![BaseCustody] = spl_credit(@, ix.amount)]
       IN  \E a \in stored_action(l.template) :
             LET call == authorized_call(l, a.ops)
             IN  /\ l.sub = InitialTokens[BaseCustody].owner
                 /\ verify_custody_account(tokens[BaseCustody], l.sub)
                 /\ a.scope = "Deploy"
                 /\ deploy_amount_matches(call.data, a, ix.amount)
                 /\ validate_authorized_cpi(l, a, ix)
                 /\ require_all_metas_bound(call, a.ops)
                 /\ deposited[BaseCustody].amount \in Amounts
                 /\ scan_ok(deposited, call, l.sub)
                 /\ \E post \in invoke_authorized_cpi(deposited, call) :
                      /\ reverify_subaccount_custody_except(
                            scan_subaccount_custody(deposited, call, l.sub), post, l.sub, {})
                      /\ tokens' = post
                      /\ flow' = with_spending(flow, post)
                 /\ record_relay(a, call)
    /\ Advance

\* The payout leaves the custody account; to itself, SPL moves nothing.
transfer_signed(toks, from, to, amount) ==
    IF from = to THEN toks
    ELSE [toks EXCEPT ![from] = spl_debit(@, amount), ![to] = spl_credit(@, amount)]

\* The accounts of a redemption: any base account of the sub-account may be the custody.
atomic_redeem_loaded(l, custody, recipient) ==
    LET base_mint == InitialTokens[BaseCustody].mint
    IN  /\ verify_token_account_mint(tokens[recipient], base_mint)
        /\ l.sub \in SubAccounts
        /\ verify_token_account_mint_and_owner(tokens[custody], base_mint, l.sub)
        /\ verify_custody_account(tokens[custody], l.sub)

(***************************************************************************)
(* Public: the unwind call, measured and re-verified on the custody        *)
(* account the caller named, then the payout of what arrived there less a  *)
(* fee.  Entitlement, fee and shares are module Vault's.                   *)
(***************************************************************************)
AtomicRedeem ==
    /\ Running /\ ix.name = "AtomicRedeem"
    /\ LET l == ix.legs[1]
           custody == ix.custody
       IN  \E a \in stored_action(l.template) :
             LET call == authorized_call(l, a.ops)
             IN  /\ atomic_redeem_loaded(l, custody, ix.recipient)
                 /\ a.scope = "AtomicRedeem"
                 /\ decode_withdrawal_amount(call.data, a) # {}
                 /\ validate_authorized_cpi(l, a, ix)
                 /\ ~has_account_meta(call, ix.user_share_account)
                 /\ require_writable_metas_bound(call, a.ops)
                 /\ \E post \in invoke_authorized_cpi(tokens, call) :
                      /\ verify_custody_account(post[custody], l.sub)
                      /\ \E payout \in 0..post[custody].amount - tokens[custody].amount :
                           /\ post[ix.recipient].amount + payout \in Amounts
                           /\ tokens' = transfer_signed(post, custody, ix.recipient, payout)
                      /\ flow' = with_spending(flow, post)
                 /\ record_relay(a, call)
    /\ Advance

\* Permissionless.
AssertDelegateCleared ==
    /\ Running /\ ix.name = "AssertDelegateCleared"
    /\ ix.program = ROSHI
    /\ assert_delegate_cleared(tokens[ix.accounts[1]])
    /\ Advance
    /\ UNCHANGED <<tokens, flow, relayed>>

-----------------------------------------------------------------------------
(* Other programs' top-level instructions (external).                        *)

\* A lender pays the loan out; an impostor of the same shape pays nothing.
FlashBorrow ==
    /\ Running /\ ix.name = "FlashBorrow"
    /\ LET k == ix.accounts[1]
           paid == IF ix.lends THEN ix.data[2] ELSE 0
       IN  /\ tokens[k].amount + paid \in Amounts
           /\ tokens' = [tokens EXCEPT ![k] = spl_credit(@, paid)]
           /\ flow' = [flow EXCEPT ![k].borrowed = @ + paid]
    /\ Advance
    /\ UNCHANGED relayed

\* The holder of an allowance spends some of it; a repayment is the usual case.
DelegateSpend ==
    /\ Running /\ ix.name = "DelegateSpend"
    /\ \E amount \in Amounts : LET k == ix.accounts[1]
       IN  /\ tokens[k].delegate # NoKey
           /\ amount <= tokens[k].delegated_amount /\ amount <= tokens[k].amount
           /\ tokens' = [tokens EXCEPT ![k] = spl_delegate_debit(@, amount)]
           /\ flow' = [flow EXCEPT ![k].spent = @ + amount]
    /\ Advance
    /\ UNCHANGED relayed

-----------------------------------------------------------------------------
(* The registry and the roles: instructions of their own transactions.       *)

\* Patterns of one hash share an address, whatever their scopes.
admin_chooses(t, rate) ==
    admin_rate' = [u \in DOMAIN Templates |->
        IF TemplateHash[deployment][u] = TemplateHash[deployment][t] THEN rate ELSE admin_rate[u]]

AuthorizeAction(t, rate) ==
    LET pattern == Templates[t]
    IN  /\ tx = NoTx
        /\ stored_action(t) = {}
        /\ validate_ops(pattern.ops)
        /\ pattern.scope \in {"AtomicRedeem", "Deploy"} => pattern.ops # <<>>
        /\ actions' = actions \cup
             {[action_hash |-> TemplateHash[deployment][t], ops |-> pattern.ops, scope |-> pattern.scope,
               fee |-> rate, amount_offset |-> pattern.amount_offset]}
        /\ admin_chooses(t, rate)
        /\ UNCHANGED <<strategist, swap_authority, manage_paused, deployment, tx_vars>>

RevokeAction(t) ==
    /\ tx = NoTx
    /\ stored_action(t) # {}
    /\ actions' = actions \ stored_action(t)
    /\ UNCHANGED <<strategist, swap_authority, manage_paused, admin_rate, deployment, tx_vars>>

\* The rate is not part of the hash: it is rewritten in place.
update_action_flash_fee(t, rate) ==
    /\ tx = NoTx
    /\ stored_action(t) # {}
    /\ actions' = {IF a \in stored_action(t) THEN [a EXCEPT !.fee = rate] ELSE a : a \in actions}
    /\ UNCHANGED <<strategist, swap_authority, manage_paused, deployment, tx_vars>>

AdminSetFlashFeeRate(t, rate) ==
    /\ update_action_flash_fee(t, rate)
    /\ admin_chooses(t, rate)

StrategistLowerFlashFeeRate(t, rate) ==
    /\ update_action_flash_fee(t, rate)
    /\ \A a \in stored_action(t) : rate_strictly_lower(rate, a.fee)
    /\ UNCHANGED admin_rate

SetStrategist(w) ==
    /\ tx = NoTx
    /\ strategist' = w
    /\ UNCHANGED <<actions, swap_authority, manage_paused, admin_rate, deployment, tx_vars>>

SetManagePaused(p) ==
    /\ tx = NoTx
    /\ manage_paused' = p
    /\ UNCHANGED <<actions, strategist, swap_authority, admin_rate, deployment, tx_vars>>

-----------------------------------------------------------------------------
Init ==
    /\ deployment \in DOMAIN Deployments
    /\ actions = {}
    /\ strategist \in Wallets
    /\ swap_authority = strategist
    /\ manage_paused = FALSE
    /\ admin_rate = [t \in DOMAIN Templates |-> <<0, 1>>]
    /\ tokens = InitialTokens
    /\ tx = NoTx /\ pc = 0 /\ leg = 0
    /\ saved = <<>>
    /\ flow = [k \in TokenKeys |-> Idle]
    /\ relayed = {}

Bodies == UNION {[1..n -> DOMAIN Instructions] : n \in 1..MaxBody}

RegistryStep ==
    \/ \E t \in DOMAIN Templates, rate \in FeeRates : AuthorizeAction(t, rate)
    \/ \E t \in DOMAIN Templates : RevokeAction(t)
    \/ \E t \in DOMAIN Templates, rate \in FeeRates : AdminSetFlashFeeRate(t, rate)
    \/ \E t \in DOMAIN Templates, rate \in FeeRates : StrategistLowerFlashFeeRate(t, rate)
    \/ \E w \in Wallets : SetStrategist(w)
    \/ \E p \in PauseSettings : SetManagePaused(p)

\* Bodies are enumerated only where one can begin.
TransactionStep ==
    \/ tx = NoTx /\ \E signer \in Wallets, body \in Bodies : Begin(signer, body)
    \/ Manage
    \/ Swap
    \/ DepositAndDeploy
    \/ AtomicRedeem
    \/ AssertDelegateCleared
    \/ FlashBorrow
    \/ DelegateSpend
    \/ Commit
    \/ Abort

Next == RegistryStep \/ TransactionStep

Spec == Init /\ [][Next]_vars
=============================================================================
