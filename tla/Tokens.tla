------------------------------- MODULE Tokens -------------------------------
(***************************************************************************)
(* Token accounts and mints as the program's token helpers see them.       *)
(*                                                                         *)
(* A token account is a record of the fields the helpers read at fixed     *)
(* byte offsets.  An SPL account that is uninitialized, too short or owned *)
(* by another program is one that is not `live': the helpers never look    *)
(* further at it.                                                          *)
(***************************************************************************)
EXTENDS Integers, Sequences, FiniteSets

CONSTANT NoKey       \* an unset COption<Pubkey>

\* Program ids are keys, and keys are numbers.
SYSTEM_PROGRAM_ID == 0
TOKEN_PROGRAM_ID == 1
TOKEN_2022_PROGRAM_ID == 2

is_token_program(key) == key \in {TOKEN_PROGRAM_ID, TOKEN_2022_PROGRAM_ID}

TokenAccountRecord(keys, mints, amounts) ==
    [program : {TOKEN_PROGRAM_ID, TOKEN_2022_PROGRAM_ID, SYSTEM_PROGRAM_ID},
     initialized : BOOLEAN, mint : mints, owner : keys, amount : amounts,
     delegate : keys \cup {NoKey}, delegated_amount : amounts,
     close_authority : keys \cup {NoKey}]

\* The prologue of every helper: token program, full length, state initialized.
live(a) == is_token_program(a.program) /\ a.initialized

-----------------------------------------------------------------------------
(* Authority checks.                                                         *)

has_transfer_authority(a) == a.delegate # NoKey \/ a.close_authority # NoKey

has_close_authority(a) == a.close_authority # NoKey

verify_token_account_mint(a, expected_mint) == live(a) /\ a.mint = expected_mint

verify_token_account_mint_and_owner(a, expected_mint, expected_owner) ==
    verify_token_account_mint(a, expected_mint) /\ a.owner = expected_owner

\* Custody fully controlled by the sub-account, whatever its mint.
verify_custody_account(a, sub_account) ==
    live(a) /\ a.owner = sub_account /\ ~has_transfer_authority(a)

\* A swap endpoint before the route runs: a delegate is tolerated.
verify_swap_endpoint_custody(a, sub_account) ==
    live(a) /\ a.owner = sub_account /\ ~has_close_authority(a)

\* A swap endpoint after the route ran: only the balance may differ.
verify_swap_endpoint_unchanged(pre, post) ==
    [pre EXCEPT !.amount = 0] = [post EXCEPT !.amount = 0]

\* Classification for the custody scan; "tainted" stands for the error.
is_clean_custody(a, sub_account) ==
    IF ~live(a) \/ a.owner # sub_account THEN "foreign"
    ELSE IF has_transfer_authority(a) THEN "tainted" ELSE "clean"

\* Faulty variant: the allowance may be smaller or larger than expected.
verify_flash_delegate_AnyAmount(a, sub_account, expected_amount) ==
    live(a) /\ a.owner = sub_account /\ ~has_close_authority(a)

\* The one-shot delegate a FlashApprove leaves behind; its holder is not checked.
verify_flash_delegate(a, sub_account, expected_amount) ==
    /\ live(a)
    /\ a.owner = sub_account
    /\ ~has_close_authority(a)
    /\ a.delegated_amount = expected_amount

assert_delegate_cleared(a) ==
    live(a) /\ a.delegate = NoKey /\ a.delegated_amount = 0

-----------------------------------------------------------------------------
(* Mints: [program, initialized, decimals, mint_authority, extensions], the  *)
(* extensions a list of Token-2022 type codes as they lie in the account.    *)

EXTENSION_UNINITIALIZED == 0
EXTENSION_METADATA_POINTER == 18
EXTENSION_TOKEN_METADATA == 19

\* Up to the end marker, nothing but display metadata.
verify_token_2022_mint_extensions(m) ==
    \A i \in DOMAIN m.extensions :
        (\A j \in 1..i : m.extensions[j] # EXTENSION_UNINITIALIZED) =>
            m.extensions[i] \in {EXTENSION_METADATA_POINTER, EXTENSION_TOKEN_METADATA}

\* NoKey as the expected authority asks for none in particular.
verify_mint(m, decimals, expected_authority) ==
    /\ is_token_program(m.program)
    /\ m.program = TOKEN_2022_PROGRAM_ID => verify_token_2022_mint_extensions(m)
    /\ m.program = TOKEN_PROGRAM_ID => m.extensions = <<>>
    /\ m.initialized /\ m.decimals = decimals
    /\ expected_authority # NoKey => m.mint_authority = expected_authority

-----------------------------------------------------------------------------
(* What the SPL token program does to an account (external).                 *)

spl_credit(a, amount) == [a EXCEPT !.amount = @ + amount]

spl_debit(a, amount) == [a EXCEPT !.amount = @ - amount]

spl_approve(a, delegate, amount) ==
    [a EXCEPT !.delegate = delegate, !.delegated_amount = amount]

\* A delegate's transfer shrinks its allowance and clears itself at zero.
spl_delegate_debit(a, amount) ==
    [a EXCEPT !.amount = @ - amount,
              !.delegated_amount = @ - amount,
              !.delegate = IF a.delegated_amount = amount THEN NoKey ELSE @]
=============================================================================
