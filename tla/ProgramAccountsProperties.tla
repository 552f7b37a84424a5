---------------------- MODULE ProgramAccountsProperties ----------------------
(* What the program's accounts promise to those who own them.                *)
EXTENDS ProgramAccounts

\* Derived addresses hold their own type or nothing; no other account of Roshi's holds anything.
AccountsTypeOK ==
    /\ DOMAIN ledger = Addresses
    /\ \A a \in Addresses : ledger[a].lamports \in Nat
    /\ ledger[ConfigKey].data.type \in {"empty", "ProgramConfig"}
    /\ \A v \in VaultKeys : ledger[v].data.type \in {"empty", "Vault"}
    /\ \A m \in MintKeys : ledger[m].data.type \in {"empty", "Mint"}
    /\ \A a \in Loose : ledger[a].owner = "roshi" => ledger[a].data = Zeroed
    /\ \A d \in MetadataKeys : ledger[d].data.type \in {"empty", "Metadata"}

(***************************************************************************)
(* No transaction passes a role check of a vault, or the program           *)
(* authority's, unless someone of that vault's (the program's) circle      *)
(* signed it: no order of creations, handovers, prefunds, look-alike       *)
(* accounts and other vaults' admins ever lets an outsider in              *)
(* (verify_role, ProgramConfigAuthorityContext::load, and the program      *)
(* keypair InitializeProgram asks for).                                    *)
(***************************************************************************)
OutsidersPassNoGate ==
    \A s \in SignerSets :
        /\ \A a \in VaultKeys \cup Loose, r \in Roles, k \in Keys :
             load_checked(a) /\ s \cap Circle(a) = {} =>
               /\ ~VaultRoleContext(a, r, k, s)
               /\ ~verify_either_role(vault_at(a), "Admin", r, k, s)
        /\ \A c \in {ConfigKey} \cup Loose, k \in Keys :
             ProgramConfigAuthorityContext(c, k, s) => s \cap Circle(ConfigKey) # {}

(***************************************************************************)
(* A vault once created can be loaded for good, under the address of its   *)
(* own tag and base mint, and its share mint and metadata answer to it     *)
(* alone: tags that pad to the same bytes stay two vaults                  *)
(* (Vault::verify_address, pack_tag, create_share_mint).                   *)
(***************************************************************************)
VaultsAnswerAtTheirAddress ==
    \A v \in VaultKeys : ledger[v].data # Empty =>
        /\ load_checked(v)
        /\ ledger[vault_at(v).share_mint].data.mint_authority = v
        /\ LET d == ledger[find_metadata_address(vault_at(v).share_mint)].data
           IN  d # Empty => d.update_authority = v

(***************************************************************************)
(* Nobody can keep the program or a vault from being created by funding an *)
(* address first, short of, at or past the rent exemption, and what is     *)
(* created is rent exempt: the runtime collects an account that is not     *)
(* (create_pda_account, require_uninitialized_account).                    *)
(***************************************************************************)
CreationIsNeverBlocked ==
    \A a \in {ConfigKey} \cup VaultKeys :
        <>(ledger[a].owner = "roshi" /\ ledger[a].lamports >= Rent)
=============================================================================
