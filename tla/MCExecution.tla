---------------------------- MODULE MCExecution ----------------------------
(* Small instances of module Execution for TLC.                              *)
EXTENDS ExecutionProperties

\* Keys.
Roshi == 3
Lender == 4
Venue == 5
Sub == 10
Alice == 11
Bob == 12
BaseAta == 20      \* base custody of Sub
CollAta == 21      \* other custody of Sub
UserAta == 22      \* a user's account
SpareAta == 23     \* base custody of Sub besides the canonical account
Planted == 30
MCPrograms == {TOKEN_PROGRAM_ID, Roshi, Lender, Venue}

token(mint, owner, amount) ==
    [program |-> TOKEN_PROGRAM_ID, initialized |-> TRUE, mint |-> mint, owner |-> owner,
     amount |-> amount, delegate |-> NoKey, delegated_amount |-> 0,
     close_authority |-> NoKey]

MCTokens == BaseAta :> token("base", Sub, 2) @@ CollAta :> token("coll", Sub, 1)
              @@ UserAta :> token("base", Alice, 0)
MCPrice == [base |-> 1, coll |-> 2]

w(key) == [key |-> key, is_signer |-> FALSE, is_writable |-> TRUE]
r(key) == [key |-> key, is_signer |-> FALSE, is_writable |-> FALSE]
s(key) == [key |-> key, is_signer |-> TRUE, is_writable |-> FALSE]

call(program, metas, data) == [program |-> program, metas |-> metas, data |-> data]
none == [i \in {} |-> i]

template(scope, ops, program, metas, data, siblings, offset) ==
    [scope |-> scope, ops |-> ops, amount_offset |-> offset,
     call |-> call(program, metas, data) @@ [siblings |-> siblings]]

relay(name, program, t, c) ==
    [name |-> name, program |-> program, data |-> <<7>>, accounts |-> <<>>, sysvar |-> TRUE,
     legs |-> <<[sub |-> Sub, template |-> t, call |-> c]>>]

external(name, program, data, accounts) ==
    [name |-> name, program |-> program, data |-> data, accounts |-> accounts]

-----------------------------------------------------------------------------
(* Flash loans: borrow, approve, spend, check.  Data words are selectors     *)
(* (8 borrow, 9 cleared check, 6 spend) and amounts.                         *)

borrow(program, key, amount) ==
    external("FlashBorrow", program, <<8, amount>>, <<key>>) @@ [lends |-> program = Lender]
cleared(key) == external("AssertDelegateCleared", Roshi, <<9>>, <<key>>)
spend(key) == external("DelegateSpend", Lender, <<6>>, <<key>>)

\* A pattern with its loan and its cleared check at these distances.
FlashTemplate(loan_at, check_at) ==
    template("FlashApprove",
        <<IngestInstruction(0, 1), IngestSiblingInstruction(loan_at, 0, 1),
          IngestSiblingAccount(loan_at, 0), IngestSiblingInstruction(check_at, 0, 1),
          IngestSiblingAccount(check_at, 0)>>,
        TOKEN_PROGRAM_ID, <<w(BaseAta), r(Lender), s(Sub)>>, <<SPL_APPROVE_TAG, 0>>,
        loan_at :> [program |-> Lender, data |-> <<8, 0>>, accounts |-> <<BaseAta>>]
          @@ check_at :> [program |-> Roshi, data |-> <<9>>, accounts |-> <<BaseAta>>], 0)

\* A pattern whose author forgot the cleared check.
BareTemplate ==
    template("FlashApprove",
        <<IngestSiblingInstruction(-1, 0, 1), IngestSiblingAccount(-1, 0)>>,
        TOKEN_PROGRAM_ID, <<w(BaseAta), r(Lender), s(Sub)>>, <<SPL_APPROVE_TAG, 0>>,
        -1 :> [program |-> Lender, data |-> <<8, 0>>, accounts |-> <<BaseAta>>], 0)

approve(t, key, amount) ==
    relay("Manage", Roshi, t,
          call(TOKEN_PROGRAM_ID, <<w(key), r(Lender), r(Sub)>>, <<SPL_APPROVE_TAG, amount>>))

FlashTemplates == [flash |-> FlashTemplate(-1, 2), bare |-> BareTemplate]
FlashInstructions ==
    [borrow |-> borrow(Lender, BaseAta, 2), borrow_fake |-> borrow(Venue, BaseAta, 2),
     approve |-> approve("flash", BaseAta, 3), approve_other |-> approve("flash", CollAta, 3),
     approve_more |-> approve("flash", BaseAta, 4),
     approve_bare |-> approve("bare", BaseAta, 3),
     spend |-> spend(BaseAta),
     cleared |-> cleared(BaseAta)]

\* Allowances that follow their loan and ones that precede it.
EarlyTemplates == [flash |-> FlashTemplate(-1, 2), early |-> FlashTemplate(1, 3)]
EarlyInstructions ==
    [borrow |-> borrow(Lender, BaseAta, 2), approve |-> approve("flash", BaseAta, 3),
     approve_early |-> approve("early", BaseAta, 3), spend |-> spend(BaseAta),
     cleared |-> cleared(BaseAta)]

-----------------------------------------------------------------------------
(* The strategist's routes: a batch of two venue calls and swaps, with an    *)
(* account the swap does not name among the route's writable ones.           *)

RouteTokens == BaseAta :> token("base", Sub, 2) @@ CollAta :> token("coll", Sub, 0)
                 @@ SpareAta :> token("base", Sub, 1)

RouteTemplates ==
    [manager |-> template("Manager", <<IngestAccount(0)>>, Venue, <<w(BaseAta)>>, <<>>, none, 0),
     swap |-> template("Swap", <<>>, Venue, <<>>, <<>>, none, 0)]

leg_of(t, c) == [sub |-> Sub, template |-> t, call |-> c]

swap_by(sub_meta, input, output) ==
    [relay("Swap", Roshi, "swap", call(Venue, <<w(input), w(output), w(SpareAta), sub_meta>>, <<>>))
       EXCEPT !.accounts = <<input, output>>] @@ [max_in |-> 2, min_out |-> 1]

RouteInstructions ==
    [batch |-> [relay("Manage", Roshi, "manager", <<>>) EXCEPT !.legs =
        <<leg_of("manager", call(Venue, <<w(BaseAta), r(Sub)>>, <<>>)),
          leg_of("manager", call(Venue, <<w(BaseAta), w(CollAta), r(Sub)>>, <<>>))>>],
     redirected |-> relay("Manage", Roshi, "manager", call(Venue, <<w(SpareAta), r(Sub)>>, <<>>)),
     swap |-> swap_by(r(Sub), BaseAta, CollAta),
     swap_back |-> swap_by(r(Sub), CollAta, BaseAta)]

-----------------------------------------------------------------------------
(* Routes anyone may relay: pinned ones, and ones the admin left loose,      *)
(* whole or cut down to what is pinned.                                      *)

PublicTokens == BaseAta :> token("base", Sub, 1) @@ CollAta :> token("coll", Sub, 1)
                  @@ UserAta :> token("base", Alice, 0) @@ SpareAta :> token("base", Sub, 1)

Pin(n) == [i \in 1..n |-> IngestAccount(i - 1)]

PublicTemplates ==
    [deploy |-> template("Deploy", Pin(3) \o <<IngestInstruction(0, 1), IngestInstructionDataSize>>,
                    Venue, <<w(BaseAta), r(UserAta), s(Sub)>>, <<6, 0>>, none, 1),
     deploy_loose |-> template("Deploy", Pin(1), Venue,
                    <<w(BaseAta), r(UserAta), s(Sub)>>, <<7, 0>>, none, 1),
     redeem |-> template("AtomicRedeem", Pin(2), Venue,
                    <<w(SpareAta), w(UserAta), s(Sub)>>, <<8, 0>>, none, 1),
     redeem_loose |-> template("AtomicRedeem", Pin(1), Venue,
                    <<w(SpareAta), w(UserAta), s(Sub)>>, <<9, 0>>, none, 1)]

deploy(t, selector, third, amount, data) ==
    relay("DepositAndDeploy", Roshi, t, call(Venue, <<w(BaseAta), r(third), r(Sub)>>, <<selector, data>>))
      @@ [amount |-> amount]

\* The route pays into the spare account; the caller names the custody to measure.
redeem(t, selector, target, custody) ==
    relay("AtomicRedeem", Roshi, t, call(Venue, <<w(SpareAta), w(target), r(Sub)>>, <<selector, 1>>))
      @@ [user_share_account |-> Planted, custody |-> custody, recipient |-> UserAta]

PublicInstructions ==
    [deploy |-> deploy("deploy", 6, UserAta, 1, 1), deploy_more |-> deploy("deploy", 6, UserAta, 1, 2),
     deploy_other |-> deploy("deploy_loose", 7, CollAta, 1, 1),
     deploy_short |-> relay("DepositAndDeploy", Roshi, "deploy_loose", call(Venue, <<w(BaseAta)>>, <<7, 1>>))
                        @@ [amount |-> 1],
     redeem |-> redeem("redeem", 8, UserAta, SpareAta),
     redeem_unwatched |-> redeem("redeem", 8, UserAta, BaseAta),
     redeem_other |-> redeem("redeem_loose", 9, CollAta, SpareAta)]

-----------------------------------------------------------------------------
(* The deployments: flash loans; loans at two distances; a strategist and a  *)
(* successor; public routes; and fee rates in equal, reduced and zero        *)
(* fractions.                                                                *)

deployed(tokens_at, templates, instructions, wallets, rates, pauses, slippage, amount, body) ==
    [tokens |-> tokens_at, templates |-> templates, instructions |-> instructions,
     wallets |-> wallets, fee_rates |-> rates, pause_settings |-> pauses,
     slippage_bps |-> slippage, max_amount |-> amount, max_body |-> body]

SomeRates == {<<0, 0>>, <<0, 1>>, <<1, 3>>, <<1, 2>>, <<2, 4>>, <<2, 1>>, <<1, 0>>}

DeploymentsByName ==
    [flash |-> deployed(MCTokens, FlashTemplates, FlashInstructions, {Alice}, {<<1, 2>>}, {FALSE}, 0, 4, 4),
     early |-> deployed(MCTokens, EarlyTemplates, EarlyInstructions, {Alice}, {<<1, 2>>}, {FALSE}, 0, 4, 4),
     routes |-> deployed(RouteTokens, RouteTemplates, RouteInstructions, {Alice, Bob}, {<<1, 2>>},
                         BOOLEAN, 2500, 2, 1),
     public |-> deployed(PublicTokens, PublicTemplates, PublicInstructions, {Alice}, {<<1, 2>>}, {FALSE}, 0, 2, 1),
     rates |-> deployed(MCTokens, FlashTemplates, [borrow |-> borrow(Lender, BaseAta, 2)],
                        {Alice}, SomeRates, {FALSE}, 0, 4, 1)]

\* The same, a function of the name, which TLC evaluates once.
MCDeployments == [name \in DOMAIN DeploymentsByName |-> DeploymentsByName[name]]
=============================================================================
