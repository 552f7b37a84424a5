-------------------------- MODULE ProgramAccounts --------------------------
(***************************************************************************)
(* The program's own accounts: the config singleton, vaults and their      *)
(* share mints, who may create them, who holds which role, and how an      *)
(* account passed to an instruction is recognised.                         *)
(*                                                                         *)
(* Addresses derived from seeds are the seeds themselves (bumps are a      *)
(* function of them).  A transaction carries the keys that signed it; the  *)
(* submitter chooses every account.  Writable flags are the submitter's    *)
(* too: without one an instruction is refused, so none is modelled.        *)
(* Every key belongs to a party that may sign anything, except that those  *)
(* in the circle of a config or a vault only ever sign to name each other  *)
(* to its roles, at any time and in any order, retries and late arrivals   *)
(* included.                                                               *)
(***************************************************************************)
EXTENDS Tokens, FiniteSetsExt

CONSTANTS
    Keys,            \* wallets
    ProgramKeypair,  \* crate::ID, as a signer
    MAX_TAG_LEN,
    TagArgs,         \* <<tag, tag_len>> arguments of InitializeVault
    BaseMints,       \* by mint, the mint account
    Treasuries,      \* by key, the token account
    BaseDecimals,
    Circle(_),       \* by config or vault address, the keys that act for it
    RoleChoices,     \* role assignments a vault may be created with
    Loose,           \* addresses of accounts anyone may create
    Names,           \* display names
    Rent,            \* rent exemption of an account
    PrefundAmounts,  \* lamports sent to an address that holds no account
    MaxPrefunds      \* bound: how often they are sent

VARIABLES
    ledger,          \* by address, [lamports, owner, data]
    prefunded        \* how often lamports were sent so far

vars == <<ledger, prefunded>>

Roles == {"Admin", "Strategist", "SwapAuthority", "NavAuthority", "WithdrawalAuthority"}
SHARE_DECIMALS == 9

\* A tag argument is a full field of bytes and a length; roles go to wallets.
ASSUME ArgumentsAssumption ==
    /\ MAX_TAG_LEN \in Nat /\ TagArgs \subseteq [1..MAX_TAG_LEN -> Nat] \X Nat
    /\ RoleChoices \subseteq [Roles -> Keys]
    /\ Rent \in Nat /\ PrefundAmounts \subseteq Nat

-----------------------------------------------------------------------------
(* Addresses.                                                                *)

validate_tag(tag) == Len(tag) \in 1..MAX_TAG_LEN

unpack_tag_ok(tag, tag_len) == tag_len <= MAX_TAG_LEN /\ validate_tag(SubSeq(tag, 1, tag_len))

unpack_tag(tag, tag_len) == SubSeq(tag, 1, tag_len)

\* Faulty variant: the tag is stored at the end of its field.
pack_tag_AtTheEnd(tag) ==
    [i \in 1..MAX_TAG_LEN |-> IF i + Len(tag) > MAX_TAG_LEN THEN tag[i + Len(tag) - MAX_TAG_LEN] ELSE 0]

pack_tag(tag) == [i \in 1..MAX_TAG_LEN |-> IF i <= Len(tag) THEN tag[i] ELSE 0]

ConfigKey == <<"program_config">>
find_vault_address(tag, base_mint) == <<"vault", tag, base_mint>>
find_share_mint_address(vault) == <<"share_mint", vault>>
find_metadata_address(mint) == <<"metadata", mint>>

VaultKeys ==
    {find_vault_address(SubSeq(t[1], 1, t[2]), m) :
        t \in {x \in TagArgs : unpack_tag_ok(x[1], x[2])}, m \in DOMAIN BaseMints}
MintKeys == {find_share_mint_address(v) : v \in VaultKeys}
MetadataKeys == {find_metadata_address(m) : m \in MintKeys}
Derived == {ConfigKey} \cup VaultKeys \cup MintKeys \cup MetadataKeys
Addresses == Derived \cup Loose

\* No one holds a key to a derived address.
ASSUME AddressAssumption == Loose \cap Derived = {}

-----------------------------------------------------------------------------
(* Recognising an account.                                                   *)

Empty == [type |-> "empty"]
Zeroed == [type |-> "zeroed"]     \* tag 0, which no type maps to
ProgramConfig(authority) == [type |-> "ProgramConfig", authority |-> authority]
Nothing == [lamports |-> 0, owner |-> "system", data |-> Empty]

load_as(a, type) == ledger[a].owner = "roshi" /\ ledger[a].data.type = type

vault_at(a) == ledger[a].data

verify_address(vault, key) ==
    /\ unpack_tag_ok(vault.tag, vault.tag_len)
    /\ key = find_vault_address(unpack_tag(vault.tag, vault.tag_len), vault.base_mint)

load_checked(a) == load_as(a, "Vault") /\ verify_address(vault_at(a), a)

verify_role(vault, role, key, signers) ==
    key \in signers /\ vault.authority[role] = key

verify_either_role(vault, a, b, key, signers) ==
    key \in signers /\ key \in {vault.authority[a], vault.authority[b]}

\* Every instruction a role is needed for starts like this.
VaultRoleContext(a, role, key, signers) ==
    load_checked(a) /\ verify_role(vault_at(a), role, key, signers)

\* Faulty variant: any account of the type is the config.
verify_config_address_Any(config) == TRUE

verify_config_address(config) == config = ConfigKey

ProgramConfigAuthorityContext(config, key, signers) ==
    /\ verify_config_address(config) /\ load_as(config, "ProgramConfig")
    /\ ledger[config].data.authority = key /\ key \in signers

-----------------------------------------------------------------------------
(* Creating an account at a derived address.                                 *)

require_uninitialized_account(a) ==
    ledger[a].data = Empty /\ ledger[a].owner = "system"

\* Faulty variant: the system program's create_account alone.
create_pda_account_Bare(account, owner, data) ==
    {[lamports |-> Rent, owner |-> owner, data |-> data] : x \in {0} \cap {account.lamports}}

\* Faulty variant: a prefunded address is taken to be funded.
create_pda_account_NoShortfall(account, owner, data) ==
    {[lamports |-> IF account.lamports = 0 THEN Rent ELSE account.lamports,
      owner |-> owner, data |-> data]}

\* create_account, or for a prefunded address the shortfall, allocate and assign.
create_pda_account(account, owner, data) ==
    {[lamports |-> account.lamports + Max({Rent - account.lamports, 0}),
      owner |-> owner, data |-> data]}

-----------------------------------------------------------------------------
(* Instructions.  Each ends with what its signers agree to (see above).      *)

agree(signers, guardians, named, circle) == signers \cap guardians # {} => named \subseteq circle

\* Faulty variant: the program account is passed and need not sign.
program_signed_NotRequired(signers) == TRUE

program_signed(signers) == ProgramKeypair \in signers

InitializeProgram(signers, config, authority) ==
    /\ signers \cap Keys # {}                        \* the payer
    /\ program_signed(signers)
    /\ require_uninitialized_account(config)
    /\ verify_config_address(config)
    /\ \E created \in create_pda_account(ledger[config], "roshi", ProgramConfig(authority)) :
         ledger' = [ledger EXCEPT ![config] = created]
    /\ agree(signers, Circle(ConfigKey) \cup {ProgramKeypair}, {authority}, Circle(ConfigKey))
    /\ UNCHANGED prefunded

TransferProgramAuthority(signers, config, key, new_authority) ==
    /\ ProgramConfigAuthorityContext(config, key, signers)
    /\ ledger' = [ledger EXCEPT ![config].data.authority = new_authority]
    /\ agree(signers, Circle(ConfigKey), {new_authority}, Circle(ConfigKey))
    /\ UNCHANGED prefunded

initialize_vault_loads(signers, config, key, vault, share_mint, t, base_mint) ==
    /\ signers \cap Keys # {}                        \* the payer
    /\ require_uninitialized_account(vault) /\ require_uninitialized_account(share_mint)
    /\ ProgramConfigAuthorityContext(config, key, signers)
    /\ unpack_tag_ok(t[1], t[2])
    /\ vault = find_vault_address(unpack_tag(t[1], t[2]), base_mint)
    /\ share_mint = find_share_mint_address(vault)

verify_external_token_accounts(base_mint, decimals, treasury) ==
    /\ verify_mint(BaseMints[base_mint], decimals, NoKey)
    /\ verify_token_account_mint(Treasuries[treasury], base_mint)

InitializeVault(signers, config, key, vault, share_mint, t, base_mint, treasury, authority) ==
    /\ initialize_vault_loads(signers, config, key, vault, share_mint, t, base_mint)
    /\ BaseDecimals <= SHARE_DECIMALS
    /\ verify_external_token_accounts(base_mint, BaseDecimals, treasury)
    /\ LET tag == unpack_tag(t[1], t[2])
           stored == [type |-> "Vault", tag |-> pack_tag(tag), tag_len |-> Len(tag),
                      base_mint |-> base_mint, share_mint |-> share_mint, authority |-> authority]
           mint == [type |-> "Mint", mint_authority |-> vault, decimals |-> SHARE_DECIMALS]
       IN  \E v \in create_pda_account(ledger[vault], "roshi", stored),
              m \in create_pda_account(ledger[share_mint], "token", mint) :
                ledger' = [ledger EXCEPT ![vault] = v, ![share_mint] = m]
    /\ agree(signers, Circle(ConfigKey) \cup Circle(vault), {authority[r] : r \in Roles}, Circle(vault))
    /\ UNCHANGED prefunded

update_writable_vault_as_admin(signers, a, key, role, new_authority) ==
    /\ VaultRoleContext(a, "Admin", key, signers)
    /\ ledger' = [ledger EXCEPT ![a].data.authority[role] = new_authority]
    /\ agree(signers, Circle(a), {new_authority}, Circle(a))
    /\ UNCHANGED prefunded

TransferVaultAuthority(signers, a, key, new_authority) ==
    update_writable_vault_as_admin(signers, a, key, "Admin", new_authority)
SetStrategist(signers, a, key, strategist) ==
    update_writable_vault_as_admin(signers, a, key, "Strategist", strategist)
SetSwapAuthority(signers, a, key, swap_authority) ==
    update_writable_vault_as_admin(signers, a, key, "SwapAuthority", swap_authority)
SetNavAuthority(signers, a, key, nav_authority) ==
    update_writable_vault_as_admin(signers, a, key, "NavAuthority", nav_authority)
SetWithdrawalAuthority(signers, a, key, withdrawal_authority) ==
    update_writable_vault_as_admin(signers, a, key, "WithdrawalAuthority", withdrawal_authority)

\* Metaplex: the mint's authority creates, the recorded update authority updates.
metaplex(account, mint, vault, name) ==
    IF account.data = Empty
    THEN {[lamports |-> Max({account.lamports, Rent}), owner |-> "metaplex",
           data |-> [type |-> "Metadata", update_authority |-> v, name |-> name]] :
             v \in {vault} \cap {mint.mint_authority}}
    ELSE {[account EXCEPT !.data.name = name] : v \in {vault} \cap {account.data.update_authority}}

SetShareMetadata(signers, a, key, share_mint, metadata, name) ==
    /\ VaultRoleContext(a, "Admin", key, signers)
    /\ share_mint = vault_at(a).share_mint
    /\ metadata = find_metadata_address(share_mint)
    /\ \E written \in metaplex(ledger[metadata], ledger[share_mint].data, a, name) :
         ledger' = [ledger EXCEPT ![metadata] = written]
    /\ UNCHANGED prefunded

-----------------------------------------------------------------------------
(* Anyone (external).                                                        *)

\* Lamports can be sent to an address before anything is there.
Prefund(a, amount) ==
    /\ prefunded < MaxPrefunds
    /\ ledger[a].data = Empty
    /\ ledger' = [ledger EXCEPT ![a].lamports = @ + amount]
    /\ prefunded' = prefunded + 1

\* An account at an address of one's own: Roshi's by assignment, zeroed, or
\* another program's with any bytes in it.
CreateLoose(a, authority) ==
    /\ ledger[a] = Nothing
    /\ \/ ledger' = [ledger EXCEPT ![a] = [lamports |-> Rent, owner |-> "roshi", data |-> Zeroed]]
       \/ ledger' = [ledger EXCEPT ![a] =
            [lamports |-> Rent, owner |-> "other", data |-> ProgramConfig(authority)]]
    /\ UNCHANGED prefunded

-----------------------------------------------------------------------------
Init == ledger = [a \in Addresses |-> Nothing] /\ prefunded = 0

\* Who signs: one wallet, with or without the program's keypair.
SignerSets == {{k} : k \in Keys} \cup {{k, ProgramKeypair} : k \in Keys}

CreateProgram ==
    \E s \in SignerSets, c \in {ConfigKey} \cup Loose, new \in Keys : InitializeProgram(s, c, new)
CreateVault ==
    \E s \in SignerSets, c \in {ConfigKey} \cup Loose, k \in Keys, v \in VaultKeys, m \in MintKeys,
       t \in TagArgs, b \in DOMAIN BaseMints, y \in DOMAIN Treasuries, roles \in RoleChoices :
         InitializeVault(s, c, k, v, m, t, b, y, roles)
Handover ==
    \E s \in SignerSets, k, new \in Keys :
        \/ \E c \in {ConfigKey} \cup Loose : TransferProgramAuthority(s, c, k, new)
        \/ \E a \in VaultKeys \cup Loose :
             \/ TransferVaultAuthority(s, a, k, new)
             \/ SetStrategist(s, a, k, new)
             \/ SetSwapAuthority(s, a, k, new)
             \/ SetNavAuthority(s, a, k, new)
             \/ SetWithdrawalAuthority(s, a, k, new)
Rename ==
    \E s \in SignerSets, a \in VaultKeys, k \in Keys, m \in MintKeys, d \in MetadataKeys, n \in Names :
        SetShareMetadata(s, a, k, m, d, n)
Anyone ==
    \/ \E a \in Addresses \ Loose, amount \in PrefundAmounts : Prefund(a, amount)
    \/ \E a \in Loose, k \in Keys : CreateLoose(a, k)

Next == CreateProgram \/ CreateVault \/ Handover \/ Rename \/ Anyone

Spec == Init /\ [][Next]_vars

\* Someone of the program's circle deploys it, and the vaults, with the right accounts.
DeployProgram ==
    \E k \in Circle(ConfigKey) : InitializeProgram({k, ProgramKeypair}, ConfigKey, k)
DeployVault(v) ==
    \E k \in Circle(ConfigKey), t \in TagArgs, b \in DOMAIN BaseMints, y \in DOMAIN Treasuries,
       roles \in RoleChoices :
         InitializeVault({k}, ConfigKey, k, v, find_share_mint_address(v), t, b, y, roles)

\* They keep trying; nothing is assumed of anyone else.
Fairness == WF_vars(DeployProgram) /\ \A v \in VaultKeys : WF_vars(DeployVault(v))
LiveSpec == Spec /\ Fairness
=============================================================================
