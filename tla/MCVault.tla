------------------------------ MODULE MCVault ------------------------------
(* Small instances of module Vault for TLC. *)
EXTENDS VaultClaims, VaultRefinement, TLC

UserSymmetry == Permutations(Users)

BaseConfig ==
    [deposit_cap |-> 6, performance_fee_bps |-> 0,
     max_unlock_duration_secs |-> 0, max_report_age_secs |-> 0,
     min_report_interval_secs |-> 0, cancel_grace_slots |-> 0,
     max_nav_gain_bps |-> 0, atomic_redeem_fee_bps |-> 0,
     deposit_sub_account |-> 0, withdraw_sub_account |-> 0,
     external_enabled |-> FALSE]

Unpaused == [deposits |-> FALSE, withdrawals |-> FALSE, manage |-> FALSE]
OpenAccess == [private |-> FALSE, members |-> {}]

\* Queue runs: prices move by reports, exits interleave.
QueueConfigs == {[BaseConfig EXCEPT !.cancel_grace_slots = 2]}

\* NAV runs: gains drip over at most three seconds, half of a gain above the
\* watermark is a fee, atomic exits pay one tenth.
NavConfigs ==
    {[BaseConfig EXCEPT !.max_unlock_duration_secs = 3,
                        !.performance_fee_bps = 5000,
                        !.max_report_age_secs = 2,
                        !.atomic_redeem_fee_bps = 1000]}

\* Admin runs: repointed sub-accounts, external custody, a 50% gain bound, a cancel grace.
AdminConfigs ==
    LET bounded == [BaseConfig EXCEPT !.deposit_cap = 3, !.max_nav_gain_bps = 5000, !.cancel_grace_slots = 2,
                                      !.max_unlock_duration_secs = 2]
    IN  {bounded,
         [bounded EXCEPT !.external_enabled = TRUE, !.withdraw_sub_account = 1]}
Pauses == {Unpaused, [deposits |-> TRUE, withdrawals |-> TRUE, manage |-> FALSE]}
Accesses == {OpenAccess, [private |-> TRUE, members |-> {}]}
TwoSubAccounts == {0, 1}
TwoCustodies == {<<0, "ata">>, <<1, "ata">>}

\* Claim runs.
ShortGraceConfigs == {[BaseConfig EXCEPT !.cancel_grace_slots = 1]}
DripConfigs == {[BaseConfig EXCEPT !.max_unlock_duration_secs = 3]}
ExternalConfigs == {BaseConfig, [BaseConfig EXCEPT !.external_enabled = TRUE]}
AtaAndAux == {<<0, "ata">>, <<0, "aux">>}
OnlyUnpaused == {Unpaused}
OnlyOpenAccess == {OpenAccess}
OneSubAccount == {0}
OneCustody == {<<0, "ata">>}
SecondAndSlot == {<<1, 1>>}
=============================================================================
