-------------------------- MODULE MCProgramAccounts --------------------------
(* Small instances of module ProgramAccounts for TLC.                        *)
EXTENDS ProgramAccountsProperties, TLC

CONSTANTS ops, alice, bob, program

MCKeys == {ops, alice, bob}
Base == 50
MCBaseMints ==
    [m \in {Base} |-> [program |-> TOKEN_PROGRAM_ID, initialized |-> TRUE, decimals |-> 6,
                       mint_authority |-> NoKey, extensions |-> <<>>]]
MCTreasuries ==
    [y \in {Base} |-> [program |-> TOKEN_PROGRAM_ID, initialized |-> TRUE, mint |-> Base]]
MCLoose == {<<"keypair", 1>>}

\* Tags that pad to the same bytes, and two that are no tag.
TwoTags == {<<<<1, 0>>, 1>>, <<<<1, 0>>, 2>>, <<<<1, 0>>, 0>>, <<<<1, 0>>, 3>>}

\* The program's operator, one vault's two keys and the other's one.
MCCircle(a) ==
    CASE a = ConfigKey -> {ops, bob}
      [] a = <<"vault", <<1>>, Base>> -> {alice, ops}
      [] a = <<"vault", <<1, 0>>, Base>> -> {bob}
      [] OTHER -> {}
MCRoleChoices == {[r \in Roles |-> k] : k \in MCKeys}
=============================================================================
