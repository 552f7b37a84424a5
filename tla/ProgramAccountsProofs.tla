----------------------- MODULE ProgramAccountsProofs -----------------------
(***************************************************************************)
(* Proofs about the program's accounts.  What is at every address, put     *)
(* together, is inductive: each derived address holds nothing or the one   *)
(* account its seeds name, whose authorities are of the right circle, and  *)
(* a look-alike elsewhere is blank or foreign.  Every property of module   *)
(* ProgramAccountsProperties but the liveness one follows from it.         *)
(***************************************************************************)
EXTENDS ProgramAccountsProperties, SequenceTheorems, TLAPS

-----------------------------------------------------------------------------
(* What each address may hold.                                               *)

Blank == [lamports : Nat, owner : {"system"}, data : {Empty}]

ConfigAccounts ==
    Blank \cup [lamports : Nat, owner : {"roshi"},
                data : [type : {"ProgramConfig"}, authority : Circle(ConfigKey)]]

VaultData(v) ==
    {d \in [type : {"Vault"}, tag : [1..MAX_TAG_LEN -> Nat], tag_len : Nat,
            base_mint : DOMAIN BaseMints, share_mint : {find_share_mint_address(v)},
            authority : [Roles -> Circle(v)]] : verify_address(d, v)}

VaultAccounts(v) == Blank \cup [lamports : Nat, owner : {"roshi"}, data : VaultData(v)]

MintAccounts(v) ==
    Blank \cup [lamports : Nat, owner : {"token"},
                data : [type : {"Mint"}, mint_authority : {v}, decimals : {SHARE_DECIMALS}]]

MetadataAccounts(v) ==
    Blank \cup [lamports : Nat, owner : {"metaplex"},
                data : [type : {"Metadata"}, update_authority : {v}, name : Names]]

LooseAccounts ==
    {Nothing}
      \cup [lamports : Nat, owner : {"roshi"}, data : {Zeroed}]
      \cup [lamports : Nat, owner : {"other"}, data : [type : {"ProgramConfig"}, authority : Keys]]

\* A vault, its share mint and the mint's metadata; the mint is created with the vault.
VaultTriple(l, v) ==
    LET m == find_share_mint_address(v)
    IN  /\ l[v] \in VaultAccounts(v)
        /\ l[m] \in MintAccounts(v)
        /\ l[find_metadata_address(m)] \in MetadataAccounts(v)
        /\ l[v].data # Empty => l[m].data # Empty

AccountsInv ==
    /\ DOMAIN ledger = Addresses
    /\ ledger[ConfigKey] \in ConfigAccounts
    /\ \A v \in VaultKeys : VaultTriple(ledger, v)
    /\ \A a \in Loose : ledger[a] \in LooseAccounts

-----------------------------------------------------------------------------
(* Addresses, tags and rent.                                                 *)

\* Seeds of different kinds, and of different vaults, are different addresses.
LEMMA AddressesApart ==
    ASSUME NEW v \in VaultKeys, NEW w \in VaultKeys
    PROVE  LET m == find_share_mint_address(v)
               n == find_share_mint_address(w)
           IN  /\ ConfigKey \notin {v, m, find_metadata_address(m)}
               /\ v \notin {n, find_metadata_address(n)}
               /\ m # find_metadata_address(n)
               /\ v # w => m # n /\ find_metadata_address(m) # find_metadata_address(n)
<1>1. PICK tag, mint : v = <<"vault", tag, mint>>
  BY DEF VaultKeys, find_vault_address
<1>2. v[1] = "vault" /\ ConfigKey[1] = "program_config"
  BY <1>1 DEF ConfigKey
<1>3. \A x : find_share_mint_address(x)[1] = "share_mint" /\ find_share_mint_address(x)[2] = x
  BY DEF find_share_mint_address
<1>4. \A x : find_metadata_address(x)[1] = "metadata" /\ find_metadata_address(x)[2] = x
  BY DEF find_metadata_address
<1> QED
  BY <1>2, <1>3, <1>4

\* They are accounts of the ledger, and none is loose.
LEMMA AddressesDerived ==
    ASSUME NEW v \in VaultKeys
    PROVE  LET m == find_share_mint_address(v)
           IN  {ConfigKey, v, m, find_metadata_address(m)} \subseteq Addresses \ Loose
<1>1. {ConfigKey, v, find_share_mint_address(v),
       find_metadata_address(find_share_mint_address(v))} \subseteq Derived
  BY DEF Derived, MintKeys, MetadataKeys
<1> QED
  BY <1>1, AddressAssumption DEF Addresses

\* Topping up to the rent exemption keeps lamports a count.
LEMMA ToppedUp ==
    ASSUME NEW n \in Nat
    PROVE  n + Max({Rent - n, 0}) \in Nat /\ Max({n, Rent}) \in Nat
<1>1. Rent \in Nat
  BY ArgumentsAssumption
<1>2. \A x, y \in Int : Max({x, y}) \in {x, y} /\ Max({x, y}) >= x /\ Max({x, y}) >= y
  <2> SUFFICES ASSUME NEW x \in Int, NEW y \in Int
               PROVE  Max({x, y}) \in {x, y} /\ Max({x, y}) >= x /\ Max({x, y}) >= y
    OBVIOUS
  <2>1. \E z \in {x, y} : \A u \in {x, y} : z >= u
    OBVIOUS
  <2> QED
    BY <2>1 DEF Max
<1>3. Max({Rent - n, 0}) \in {Rent - n, 0} /\ Max({Rent - n, 0}) >= 0
  BY <1>1, <1>2
<1>4. Max({n, Rent}) \in {n, Rent}
  BY <1>1, <1>2
<1> QED
  BY <1>1, <1>3, <1>4

\* A tag survives being stored padded with its length, and names its vault again.
LEMMA TagSurvives ==
    ASSUME NEW t \in TagArgs, unpack_tag_ok(t[1], t[2])
    PROVE  LET tag == unpack_tag(t[1], t[2])
           IN  /\ Len(tag) \in Nat
               /\ pack_tag(tag) \in [1..MAX_TAG_LEN -> Nat]
               /\ unpack_tag_ok(pack_tag(tag), Len(tag))
               /\ unpack_tag(pack_tag(tag), Len(tag)) = tag
<1> DEFINE tag == unpack_tag(t[1], t[2])
           packed == pack_tag(tag)
<1>1. t[1] \in [1..MAX_TAG_LEN -> Nat] /\ t[2] \in Nat /\ MAX_TAG_LEN \in Nat
  BY ArgumentsAssumption
<1>2. t[2] <= MAX_TAG_LEN /\ Len(tag) \in 1..MAX_TAG_LEN
  BY DEF unpack_tag_ok, unpack_tag, validate_tag
<1>3. \A i \in 1..t[2] : t[1][i] \in Nat
  BY <1>1, <1>2
<1>4. tag \in Seq(Nat) /\ Len(tag) = t[2]
  <2>1. SubSeq(t[1], 1, t[2]) \in Seq(Nat)
        /\ Len(SubSeq(t[1], 1, t[2])) = IF 1 <= t[2] THEN t[2] - 1 + 1 ELSE 0
    BY <1>1, <1>3, SubSeqProperties
  <2> QED
    BY <1>1, <1>2, <2>1 DEF unpack_tag
<1>5. packed \in [1..MAX_TAG_LEN -> Nat] /\ \A i \in 1..Len(tag) : packed[i] = tag[i]
  BY <1>1, <1>2, <1>4 DEF pack_tag
<1>6. /\ SubSeq(packed, 1, Len(tag)) \in Seq(Nat)
      /\ Len(SubSeq(packed, 1, Len(tag))) = Len(tag)
      /\ \A i \in 1..Len(tag) : SubSeq(packed, 1, Len(tag))[i] = packed[i]
  <2> HIDE DEF tag, packed
  <2>0. Len(tag) \in Nat /\ 1 <= Len(tag)
    BY <1>1, <1>2
  <2>1. \A i \in 1..Len(tag) : packed[i] \in Nat
    BY <1>1, <1>2, <1>5
  <2>2. /\ SubSeq(packed, 1, Len(tag)) \in Seq(Nat)
        /\ Len(SubSeq(packed, 1, Len(tag))) = IF 1 <= Len(tag) THEN Len(tag) - 1 + 1 ELSE 0
        /\ \A i \in 1..(Len(tag) - 1 + 1) : SubSeq(packed, 1, Len(tag))[i] = packed[1 + i - 1]
    BY <2>0, <2>1, SubSeqProperties
  <2> QED
    BY <2>0, <2>2
<1>7. SubSeq(packed, 1, Len(tag)) = tag
  <2> HIDE DEF tag, packed
  <2> QED
    BY <1>4, <1>5, <1>6, SeqEqual
<1>8. unpack_tag_ok(packed, Len(tag)) /\ unpack_tag(packed, Len(tag)) = tag
  <2> HIDE DEF tag, packed
  <2> QED
    BY <1>1, <1>2, <1>7 DEF unpack_tag_ok, unpack_tag, validate_tag
<1> QED
  BY <1>2, <1>5, <1>8

-----------------------------------------------------------------------------
(* The invariant is inductive.                                               *)

\* Nothing is anywhere at first.
LEMMA InitAccounts == Init => AccountsInv
<1> SUFFICES ASSUME Init PROVE AccountsInv
  OBVIOUS
<1>1. \A a \in Addresses : ledger[a] = Nothing
  BY DEF Init
<1>2. Nothing \in Blank /\ Nothing.data = Empty
  BY DEF Nothing, Blank
<1>3. ConfigKey \in Addresses /\ ledger[ConfigKey] \in ConfigAccounts
  BY <1>1, <1>2 DEF Addresses, Derived, ConfigAccounts
<1>4. ASSUME NEW v \in VaultKeys
      PROVE  VaultTriple(ledger, v)
  BY <1>1, <1>2, AddressesDerived DEF VaultTriple, VaultAccounts, MintAccounts, MetadataAccounts
<1>5. \A a \in Loose : ledger[a] \in LooseAccounts
  BY <1>1 DEF LooseAccounts, Addresses
<1> QED
  BY <1>3, <1>4, <1>5 DEF Init, AccountsInv

\* What a step leaves alone keeps its part of the invariant.
LEMMA TripleKept ==
    ASSUME NEW k, NEW l, NEW v, VaultTriple(k, v),
           LET m == find_share_mint_address(v)
           IN  l[v] = k[v] /\ l[m] = k[m] /\ l[find_metadata_address(m)] = k[find_metadata_address(m)]
    PROVE  VaultTriple(l, v)
BY DEF VaultTriple

\* A created account has the owner and the data asked for, and counts its lamports.
LEMMA Created ==
    ASSUME NEW account, account.lamports \in Nat, NEW owner, NEW data,
           NEW created \in create_pda_account(account, owner, data)
    PROVE  /\ created = [lamports |-> created.lamports, owner |-> owner, data |-> data]
           /\ created.lamports \in Nat
<1>1. created = [lamports |-> account.lamports + Max({Rent - account.lamports, 0}),
                 owner |-> owner, data |-> data]
  BY DEF create_pda_account
<1> QED
  BY <1>1, ToppedUp

\* The config authority is of the program's circle, whichever account is passed for it.
LEMMA ConfigGate ==
    ASSUME AccountsInv, NEW c, NEW k, NEW s, ProgramConfigAuthorityContext(c, k, s)
    PROVE  /\ c = ConfigKey /\ k \in s /\ k \in Circle(ConfigKey)
           /\ ledger[c] \in [lamports : Nat, owner : {"roshi"},
                             data : [type : {"ProgramConfig"}, authority : Circle(ConfigKey)]]
<1>1. c = ConfigKey /\ ledger[c].owner = "roshi" /\ k \in s /\ ledger[c].data.authority = k
  BY DEF ProgramConfigAuthorityContext, verify_config_address, load_as
<1>2. ledger[c] \in ConfigAccounts
  BY <1>1 DEF AccountsInv
<1> QED
  BY <1>1, <1>2 DEF ConfigAccounts, Blank

\* A role check passes at a vault's own address only, for someone of its circle.
LEMMA RoleGate ==
    ASSUME AccountsInv, NEW a \in VaultKeys \cup Loose, load_checked(a)
    PROVE  /\ a \in VaultKeys
           /\ ledger[a] \in [lamports : Nat, owner : {"roshi"}, data : VaultData(a)]
           /\ vault_at(a).authority \in [Roles -> Circle(a)]
           /\ vault_at(a).share_mint = find_share_mint_address(a)
<1>1. ledger[a].owner = "roshi" /\ ledger[a].data.type = "Vault"
  BY DEF load_checked, load_as
<1>2. a \notin Loose
  <2> SUFFICES ASSUME a \in Loose PROVE FALSE
    OBVIOUS
  <2>1. ledger[a] \in LooseAccounts
    BY DEF AccountsInv
  <2> QED
    BY <1>1, <2>1 DEF LooseAccounts, Nothing, Zeroed
<1>3. ledger[a] \in VaultAccounts(a)
  BY <1>2 DEF AccountsInv, VaultTriple
<1>4. ledger[a] \in [lamports : Nat, owner : {"roshi"}, data : VaultData(a)]
  BY <1>1, <1>3 DEF VaultAccounts, Blank
<1>5. vault_at(a) \in VaultData(a)
  BY <1>4 DEF vault_at
<1> QED
  BY <1>2, <1>4, <1>5 DEF VaultData

\* Whoever initializes the program names someone of its circle.
LEMMA CreateProgramKeeps == AccountsInv /\ CreateProgram => AccountsInv'
<1> SUFFICES ASSUME AccountsInv,
                    NEW s \in SignerSets, NEW c \in {ConfigKey} \cup Loose, NEW new \in Keys,
                    InitializeProgram(s, c, new)
             PROVE  AccountsInv'
  BY DEF CreateProgram
<1>1. c = ConfigKey /\ new \in Circle(ConfigKey)
  BY DEF InitializeProgram, verify_config_address, program_signed, agree
<1>2. PICK created \in create_pda_account(ledger[c], "roshi", ProgramConfig(new)) :
        ledger' = [ledger EXCEPT ![c] = created]
  BY DEF InitializeProgram
<1>3. ledger[c].lamports \in Nat
  BY <1>1 DEF AccountsInv, ConfigAccounts, Blank
<1>4. created = [lamports |-> created.lamports, owner |-> "roshi", data |-> ProgramConfig(new)]
      /\ created.lamports \in Nat
  BY <1>3, Created
<1>5. created \in ConfigAccounts
  BY <1>1, <1>4 DEF ConfigAccounts, ProgramConfig
<1>6. DOMAIN ledger' = Addresses /\ \A a \in Addresses \ {ConfigKey} : ledger'[a] = ledger[a]
  BY <1>1, <1>2 DEF AccountsInv
<1>7. ConfigKey \in Addresses /\ ConfigKey \notin Loose
  BY AddressAssumption DEF Addresses, Derived
<1>8. ledger'[ConfigKey] \in ConfigAccounts
  BY <1>1, <1>2, <1>5, <1>7 DEF AccountsInv
<1>9. ASSUME NEW v \in VaultKeys
      PROVE  VaultTriple(ledger', v)
  <2>1. VaultTriple(ledger, v)
    BY DEF AccountsInv
  <2> QED
    BY <1>6, <2>1, TripleKept, AddressesApart, AddressesDerived
<1>10. \A a \in Loose : ledger'[a] \in LooseAccounts
  BY <1>6, <1>7 DEF AccountsInv, Addresses
<1> QED
  BY <1>6, <1>8, <1>9, <1>10 DEF AccountsInv

\* A vault is created with its share mint, and its roles go to its own circle.
LEMMA CreateVaultKeeps == AccountsInv /\ CreateVault => AccountsInv'
<1> SUFFICES ASSUME AccountsInv,
                    NEW s \in SignerSets, NEW c \in {ConfigKey} \cup Loose, NEW k \in Keys,
                    NEW w \in VaultKeys, NEW n \in MintKeys, NEW t \in TagArgs,
                    NEW b \in DOMAIN BaseMints, NEW y \in DOMAIN Treasuries, NEW roles \in RoleChoices,
                    InitializeVault(s, c, k, w, n, t, b, y, roles)
             PROVE  AccountsInv'
  BY DEF CreateVault
<1> DEFINE tag == unpack_tag(t[1], t[2])
           stored == [type |-> "Vault", tag |-> pack_tag(tag), tag_len |-> Len(tag),
                      base_mint |-> b, share_mint |-> n, authority |-> roles]
           mint == [type |-> "Mint", mint_authority |-> w, decimals |-> SHARE_DECIMALS]
<1>1. /\ ProgramConfigAuthorityContext(c, k, s)
      /\ unpack_tag_ok(t[1], t[2])
      /\ w = find_vault_address(tag, b)
      /\ n = find_share_mint_address(w)
  BY DEF InitializeVault, initialize_vault_loads
<1>2. PICK v \in create_pda_account(ledger[w], "roshi", stored),
           m \in create_pda_account(ledger[n], "token", mint) :
             ledger' = [ledger EXCEPT ![w] = v, ![n] = m]
  BY DEF InitializeVault
<1>3. roles \in [Roles -> Circle(w)]
  <2>1. k \in s \cap (Circle(ConfigKey) \cup Circle(w))
    BY <1>1, ConfigGate
  <2>2. {roles[r] : r \in Roles} \subseteq Circle(w)
    BY <2>1 DEF InitializeVault, agree
  <2>3. roles \in [Roles -> Keys]
    BY ArgumentsAssumption
  <2> QED
    BY <2>2, <2>3
<1>4. stored \in VaultData(w)
  <2>1. /\ Len(tag) \in Nat /\ pack_tag(tag) \in [1..MAX_TAG_LEN -> Nat]
        /\ unpack_tag_ok(pack_tag(tag), Len(tag)) /\ unpack_tag(pack_tag(tag), Len(tag)) = tag
    BY <1>1, TagSurvives
  <2> HIDE DEF tag
  <2>2. verify_address(stored, w)
    BY <1>1, <2>1 DEF verify_address
  <2> QED
    BY <1>1, <1>3, <2>1, <2>2 DEF VaultData
<1> HIDE DEF tag, stored
<1>5. VaultTriple(ledger, w)
  BY DEF AccountsInv
<1>6. v \in VaultAccounts(w) /\ v.data # Empty
  <2>1. ledger[w].lamports \in Nat
    BY <1>5 DEF VaultTriple, VaultAccounts, Blank
  <2>2. v = [lamports |-> v.lamports, owner |-> "roshi", data |-> stored] /\ v.lamports \in Nat
    BY <2>1, Created
  <2>3. stored # Empty
    BY <1>4 DEF VaultData, Empty
  <2> QED
    BY <1>4, <2>2, <2>3 DEF VaultAccounts
<1>7. m \in MintAccounts(w) /\ m.data # Empty
  <2>1. ledger[n].lamports \in Nat
    BY <1>1, <1>5 DEF VaultTriple, MintAccounts, Blank
  <2>2. m = [lamports |-> m.lamports, owner |-> "token", data |-> mint] /\ m.lamports \in Nat
    BY <2>1, Created
  <2> QED
    BY <2>2 DEF MintAccounts, Empty
<1> HIDE DEF mint
<1>8. w \in Addresses /\ n \in Addresses /\ w # n /\ w \notin Loose /\ n \notin Loose
      /\ w # ConfigKey /\ n # ConfigKey
  BY <1>1, AddressesApart, AddressesDerived
<1>9. /\ DOMAIN ledger' = Addresses /\ ledger'[w] = v /\ ledger'[n] = m
      /\ \A a \in Addresses \ {w, n} : ledger'[a] = ledger[a]
  BY <1>2, <1>8 DEF AccountsInv
<1>10. ASSUME NEW u \in VaultKeys
       PROVE  VaultTriple(ledger', u)
  <2>1. VaultTriple(ledger, u)
    BY DEF AccountsInv
  <2>2. CASE u = w
    <3>1. ledger'[find_metadata_address(n)] = ledger[find_metadata_address(n)]
      BY <1>1, <1>9, AddressesApart, AddressesDerived
    <3> QED
      BY <1>1, <1>5, <1>6, <1>7, <1>9, <2>2, <3>1 DEF VaultTriple
  <2>3. CASE u # w
    BY <1>1, <1>9, <2>1, <2>3, TripleKept, AddressesApart, AddressesDerived
  <2> QED
    BY <2>2, <2>3
<1>11. ledger'[ConfigKey] \in ConfigAccounts
  BY <1>8, <1>9 DEF AccountsInv, Addresses, Derived
<1>12. \A a \in Loose : ledger'[a] \in LooseAccounts
  BY <1>8, <1>9 DEF AccountsInv, Addresses
<1> QED
  BY <1>9, <1>10, <1>11, <1>12 DEF AccountsInv

\* A role changes hands within the vault's circle, and nothing else of it changes.
LEMMA RoleKeeps ==
    ASSUME AccountsInv, NEW s, NEW a \in VaultKeys \cup Loose, NEW k, NEW new, NEW role \in Roles,
           update_writable_vault_as_admin(s, a, k, role, new)
    PROVE  AccountsInv'
<1>1. load_checked(a) /\ k \in s /\ vault_at(a).authority["Admin"] = k
  BY DEF update_writable_vault_as_admin, VaultRoleContext, verify_role
<1>2. /\ a \in VaultKeys
      /\ ledger[a] \in [lamports : Nat, owner : {"roshi"}, data : VaultData(a)]
      /\ vault_at(a).authority \in [Roles -> Circle(a)]
  BY <1>1, RoleGate
<1>3. new \in Circle(a)
  <2>1. k \in Circle(a)
    BY <1>1, <1>2 DEF Roles
  <2> QED
    BY <1>1, <2>1 DEF update_writable_vault_as_admin, agree
<1> DEFINE after == [ledger[a] EXCEPT !.data.authority[role] = new]
<1>4. ledger' = [ledger EXCEPT ![a] = after]
  BY DEF update_writable_vault_as_admin
<1>5. after \in VaultAccounts(a)
  <2>1. ledger[a].data \in VaultData(a)
    BY <1>2
  <2>2. after.data \in VaultData(a)
    <3>1. after.data = [ledger[a].data EXCEPT !.authority[role] = new]
      BY <1>2
    <3>2. after.data \in [type : {"Vault"}, tag : [1..MAX_TAG_LEN -> Nat], tag_len : Nat,
            base_mint : DOMAIN BaseMints, share_mint : {find_share_mint_address(a)},
            authority : [Roles -> Circle(a)]]
      BY <1>3, <2>1, <3>1 DEF VaultData
    <3>3. /\ after.data.tag = ledger[a].data.tag /\ after.data.tag_len = ledger[a].data.tag_len
          /\ after.data.base_mint = ledger[a].data.base_mint
      BY <2>1, <3>1 DEF VaultData
    <3>4. verify_address(ledger[a].data, a)
      BY <2>1 DEF VaultData
    <3>5. verify_address(after.data, a)
      BY <3>3, <3>4 DEF verify_address
    <3> QED
      BY <3>2, <3>5 DEF VaultData
  <2>3. after = [lamports |-> ledger[a].lamports, owner |-> "roshi", data |-> after.data]
    BY <1>2
  <2> HIDE DEF after
  <2> QED
    BY <1>2, <2>2, <2>3 DEF VaultAccounts
<1> HIDE DEF after
<1>6. a \in Addresses /\ a \notin Loose /\ a # ConfigKey
  BY <1>2, AddressesApart, AddressesDerived
<1>7. DOMAIN ledger' = Addresses /\ ledger'[a] = after
      /\ \A x \in Addresses \ {a} : ledger'[x] = ledger[x]
  BY <1>4, <1>6 DEF AccountsInv
<1>8. ASSUME NEW u \in VaultKeys
      PROVE  VaultTriple(ledger', u)
  <2>1. VaultTriple(ledger, u)
    BY DEF AccountsInv
  <2>2. CASE u = a
    <3>1. ledger[a].data # Empty
      BY <1>2 DEF VaultData, Empty
    <3>2. LET m == find_share_mint_address(a)
          IN  ledger'[m] = ledger[m]
              /\ ledger'[find_metadata_address(m)] = ledger[find_metadata_address(m)]
      BY <1>2, <1>7, AddressesApart, AddressesDerived
    <3> QED
      BY <1>5, <1>7, <2>1, <2>2, <3>1, <3>2 DEF VaultTriple
  <2>3. CASE u # a
    BY <1>2, <1>7, <2>1, <2>3, TripleKept, AddressesApart, AddressesDerived
  <2> QED
    BY <2>2, <2>3
<1>9. ledger'[ConfigKey] \in ConfigAccounts
  BY <1>6, <1>7 DEF AccountsInv, Addresses, Derived
<1>10. \A x \in Loose : ledger'[x] \in LooseAccounts
  BY <1>6, <1>7 DEF AccountsInv, Addresses
<1> QED
  BY <1>7, <1>8, <1>9, <1>10 DEF AccountsInv

\* The program authority changes hands within the program's circle.
LEMMA AuthorityKeeps ==
    ASSUME AccountsInv, NEW s, NEW c, NEW k, NEW new, TransferProgramAuthority(s, c, k, new)
    PROVE  AccountsInv'
<1>1. /\ c = ConfigKey /\ k \in s /\ k \in Circle(ConfigKey)
      /\ ledger[c] \in [lamports : Nat, owner : {"roshi"},
                        data : [type : {"ProgramConfig"}, authority : Circle(ConfigKey)]]
  BY ConfigGate DEF TransferProgramAuthority
<1>2. new \in Circle(ConfigKey)
  BY <1>1 DEF TransferProgramAuthority, agree
<1> DEFINE after == [ledger[c] EXCEPT !.data.authority = new]
<1>3. ledger' = [ledger EXCEPT ![c] = after]
  BY DEF TransferProgramAuthority
<1>4. after \in ConfigAccounts
  BY <1>1, <1>2 DEF ConfigAccounts
<1> HIDE DEF after
<1>5. c \in Addresses /\ c \notin Loose
  BY <1>1, AddressAssumption DEF Addresses, Derived
<1>6. DOMAIN ledger' = Addresses /\ ledger'[ConfigKey] = after
      /\ \A x \in Addresses \ {ConfigKey} : ledger'[x] = ledger[x]
  BY <1>1, <1>3, <1>5 DEF AccountsInv
<1>7. ASSUME NEW u \in VaultKeys
      PROVE  VaultTriple(ledger', u)
  <2>1. VaultTriple(ledger, u)
    BY DEF AccountsInv
  <2> QED
    BY <1>6, <2>1, TripleKept, AddressesApart, AddressesDerived
<1>8. \A x \in Loose : ledger'[x] \in LooseAccounts
  BY <1>1, <1>5, <1>6 DEF AccountsInv, Addresses
<1> QED
  BY <1>4, <1>6, <1>7, <1>8 DEF AccountsInv

\* Every handover is one of these two.
LEMMA HandoverKeeps == AccountsInv /\ Handover => AccountsInv'
<1> SUFFICES ASSUME AccountsInv, Handover PROVE AccountsInv'
  OBVIOUS
<1>1. PICK s \in SignerSets, k \in Keys, new \in Keys :
        \/ \E c \in {ConfigKey} \cup Loose : TransferProgramAuthority(s, c, k, new)
        \/ \E a \in VaultKeys \cup Loose, role \in Roles :
             update_writable_vault_as_admin(s, a, k, role, new)
  BY DEF Handover, TransferVaultAuthority, SetStrategist, SetSwapAuthority, SetNavAuthority,
         SetWithdrawalAuthority, Roles
<1> QED
  BY <1>1, AuthorityKeeps, RoleKeeps

\* Metadata is created by the mint's authority and updated by whom it records: the vault.
LEMMA MetadataWritten ==
    ASSUME NEW v, NEW account \in MetadataAccounts(v), NEW mint, mint.mint_authority = v,
           NEW name \in Names, NEW written \in metaplex(account, mint, v, name)
    PROVE  written \in MetadataAccounts(v)
<1>1. CASE account.data = Empty
  <2>1. written = [lamports |-> Max({account.lamports, Rent}), owner |-> "metaplex",
                   data |-> [type |-> "Metadata", update_authority |-> v, name |-> name]]
    BY <1>1 DEF metaplex
  <2>2. account.lamports \in Nat
    BY DEF MetadataAccounts, Blank
  <2>3. Max({account.lamports, Rent}) \in Nat
    BY <2>2, ToppedUp
  <2> QED
    BY <2>1, <2>3 DEF MetadataAccounts
<1>2. CASE account.data # Empty
  <2>1. account \in [lamports : Nat, owner : {"metaplex"},
                     data : [type : {"Metadata"}, update_authority : {v}, name : Names]]
    BY <1>2 DEF MetadataAccounts, Blank
  <2>2. written = [account EXCEPT !.data.name = name]
    BY <1>2 DEF metaplex
  <2> QED
    BY <2>1, <2>2 DEF MetadataAccounts
<1> QED
  BY <1>1, <1>2

\* Only the vault's own metadata is written, in its name.
LEMMA RenameKeeps == AccountsInv /\ Rename => AccountsInv'
<1> SUFFICES ASSUME AccountsInv,
                    NEW s \in SignerSets, NEW a \in VaultKeys, NEW k \in Keys, NEW m \in MintKeys,
                    NEW d \in MetadataKeys, NEW name \in Names,
                    SetShareMetadata(s, a, k, m, d, name)
             PROVE  AccountsInv'
  BY DEF Rename
<1>1. load_checked(a) /\ m = vault_at(a).share_mint /\ d = find_metadata_address(m)
  BY DEF SetShareMetadata, VaultRoleContext
<1>2. m = find_share_mint_address(a)
      /\ ledger[a] \in [lamports : Nat, owner : {"roshi"}, data : VaultData(a)]
  BY <1>1, RoleGate
<1>3. VaultTriple(ledger, a)
  BY DEF AccountsInv
<1>4. ledger[m].data.mint_authority = a
  <2>1. ledger[a].data # Empty
    BY <1>2 DEF VaultData, Empty
  <2>2. ledger[m] \in MintAccounts(a) /\ ledger[m].data # Empty
    BY <1>2, <1>3, <2>1 DEF VaultTriple
  <2> QED
    BY <2>2 DEF MintAccounts, Blank
<1>5. PICK written \in metaplex(ledger[d], ledger[m].data, a, name) :
        ledger' = [ledger EXCEPT ![d] = written]
  BY DEF SetShareMetadata
<1>6. ledger[d] \in MetadataAccounts(a)
  BY <1>1, <1>2, <1>3 DEF VaultTriple
<1>7. written \in MetadataAccounts(a)
  BY <1>4, <1>6, MetadataWritten
<1>8. d \in Addresses /\ d \notin Loose /\ d # ConfigKey /\ d # a /\ d # m
  BY <1>1, <1>2, AddressesApart, AddressesDerived
<1>9. DOMAIN ledger' = Addresses /\ ledger'[d] = written
      /\ \A x \in Addresses \ {d} : ledger'[x] = ledger[x]
  BY <1>5, <1>8 DEF AccountsInv
<1>10. ASSUME NEW u \in VaultKeys
       PROVE  VaultTriple(ledger', u)
  <2>1. VaultTriple(ledger, u)
    BY DEF AccountsInv
  <2>2. CASE u = a
    <3>1. ledger'[a] = ledger[a] /\ ledger'[m] = ledger[m]
      BY <1>2, <1>8, <1>9, AddressesDerived
    <3> QED
      BY <1>1, <1>2, <1>3, <1>7, <1>9, <2>2, <3>1 DEF VaultTriple
  <2>3. CASE u # a
    BY <1>1, <1>2, <1>9, <2>1, <2>3, TripleKept, AddressesApart, AddressesDerived
  <2> QED
    BY <2>2, <2>3
<1>11. ledger'[ConfigKey] \in ConfigAccounts
  BY <1>8, <1>9 DEF AccountsInv, Addresses, Derived
<1>12. \A x \in Loose : ledger'[x] \in LooseAccounts
  BY <1>8, <1>9 DEF AccountsInv, Addresses
<1> QED
  BY <1>9, <1>10, <1>11, <1>12 DEF AccountsInv

\* Lamports at an empty address leave it empty.
LEMMA PrefundKeeps ==
    ASSUME AccountsInv, NEW a \in Addresses \ Loose, NEW amount \in PrefundAmounts, Prefund(a, amount)
    PROVE  AccountsInv'
<1> DEFINE after == [ledger[a] EXCEPT !.lamports = @ + amount]
<1>1. ledger[a].data = Empty /\ ledger' = [ledger EXCEPT ![a] = after] /\ amount \in Nat
  BY ArgumentsAssumption DEF Prefund
<1>2. DOMAIN ledger' = Addresses /\ ledger'[a] = after
      /\ \A x \in Addresses \ {a} : ledger'[x] = ledger[x]
  BY <1>1 DEF AccountsInv
<1>3. ledger[a] \in Blank => after \in Blank /\ after.data = Empty
  BY <1>1 DEF Blank
<1> HIDE DEF after
<1>4. ledger'[ConfigKey] \in ConfigAccounts
  <2>1. ledger[ConfigKey] \in ConfigAccounts /\ ConfigKey \in Addresses
    BY DEF AccountsInv, Addresses, Derived
  <2>2. CASE a = ConfigKey
    <3>1. ledger[a] \in Blank
      BY <1>1, <2>1, <2>2 DEF ConfigAccounts, Empty
    <3> QED
      BY <1>2, <1>3, <2>2, <3>1 DEF ConfigAccounts
  <2> QED
    BY <1>2, <2>1, <2>2
<1>5. ASSUME NEW u \in VaultKeys
      PROVE  VaultTriple(ledger', u)
  <2> DEFINE m == find_share_mint_address(u)
             d == find_metadata_address(m)
  <2>1. VaultTriple(ledger, u)
    BY DEF AccountsInv
  <2>2. /\ u \in Addresses /\ m \in Addresses /\ d \in Addresses
        /\ u # m /\ u # d /\ m # d
    BY AddressesApart, AddressesDerived
  <2>3. ledger[u] \in VaultAccounts(u) /\ ledger[m] \in MintAccounts(u) /\ ledger[d] \in MetadataAccounts(u)
        /\ (ledger[u].data # Empty => ledger[m].data # Empty)
    BY <2>1 DEF VaultTriple
  <2> HIDE DEF m, d
  <2>4. CASE a = u
    <3>1. ledger[a] \in Blank
      BY <1>1, <2>3, <2>4 DEF VaultAccounts, VaultData, Empty
    <3>2. ledger'[u] \in VaultAccounts(u) /\ ledger'[u].data = Empty
      BY <1>2, <1>3, <2>4, <3>1 DEF VaultAccounts
    <3>3. ledger'[m] = ledger[m] /\ ledger'[d] = ledger[d]
      BY <1>2, <2>2, <2>4
    <3> QED
      BY <2>3, <3>2, <3>3 DEF VaultTriple, m, d
  <2>5. CASE a = m
    <3>1. ledger[a] \in Blank
      BY <1>1, <2>3, <2>5 DEF MintAccounts, Empty
    <3>2. ledger'[m] \in MintAccounts(u) /\ ledger'[m].data = Empty
      BY <1>2, <1>3, <2>5, <3>1 DEF MintAccounts
    <3>3. ledger'[u] = ledger[u] /\ ledger'[d] = ledger[d] /\ ledger[u].data = Empty
      BY <1>1, <1>2, <2>2, <2>3, <2>5
    <3> QED
      BY <2>3, <3>2, <3>3 DEF VaultTriple, m, d
  <2>6. CASE a = d
    <3>1. ledger[a] \in Blank
      BY <1>1, <2>3, <2>6 DEF MetadataAccounts, Empty
    <3>2. ledger'[d] \in MetadataAccounts(u)
      BY <1>2, <1>3, <2>6, <3>1 DEF MetadataAccounts
    <3>3. ledger'[u] = ledger[u] /\ ledger'[m] = ledger[m]
      BY <1>2, <2>2, <2>6
    <3> QED
      BY <2>3, <3>2, <3>3 DEF VaultTriple, m, d
  <2>7. CASE a \notin {u, m, d}
    <3>1. ledger'[u] = ledger[u] /\ ledger'[m] = ledger[m] /\ ledger'[d] = ledger[d]
      BY <1>2, <2>2, <2>7
    <3> QED
      BY <2>1, <3>1 DEF VaultTriple, m, d
  <2> QED
    BY <2>4, <2>5, <2>6, <2>7
<1>6. \A x \in Loose : ledger'[x] \in LooseAccounts
  BY <1>2 DEF AccountsInv, Addresses
<1> QED
  BY <1>2, <1>4, <1>5, <1>6 DEF AccountsInv

\* Accounts of one's own are at other addresses than derived ones.
LEMMA CreateLooseKeeps ==
    ASSUME AccountsInv, NEW a \in Loose, NEW k \in Keys, CreateLoose(a, k)
    PROVE  AccountsInv'
<1>1. PICK after \in LooseAccounts : ledger' = [ledger EXCEPT ![a] = after]
  <2>1. [lamports |-> Rent, owner |-> "roshi", data |-> Zeroed] \in LooseAccounts
    BY ArgumentsAssumption DEF LooseAccounts
  <2>2. [lamports |-> Rent, owner |-> "other", data |-> ProgramConfig(k)] \in LooseAccounts
    BY ArgumentsAssumption DEF LooseAccounts, ProgramConfig
  <2> QED
    BY <2>1, <2>2 DEF CreateLoose
<1>2. DOMAIN ledger' = Addresses /\ ledger'[a] = after
      /\ \A x \in Addresses \ {a} : ledger'[x] = ledger[x]
  BY <1>1 DEF AccountsInv, Addresses
<1>3. ASSUME NEW u \in VaultKeys
      PROVE  VaultTriple(ledger', u)
  <2>1. VaultTriple(ledger, u)
    BY DEF AccountsInv
  <2> QED
    BY <1>2, <2>1, TripleKept, AddressesDerived
<1>4. ledger'[ConfigKey] \in ConfigAccounts
  BY <1>2, AddressAssumption DEF AccountsInv, Addresses, Derived
<1>5. \A x \in Loose : ledger'[x] \in LooseAccounts
  BY <1>2 DEF AccountsInv, Addresses
<1> QED
  BY <1>2, <1>3, <1>4, <1>5 DEF AccountsInv

-----------------------------------------------------------------------------
(* What follows.                                                             *)

\* Every step keeps every account what its address says it is.
LEMMA AccountsInductive == Spec => []AccountsInv
<1>1. AccountsInv /\ [Next]_vars => AccountsInv'
  <2> SUFFICES ASSUME AccountsInv, [Next]_vars PROVE AccountsInv'
    OBVIOUS
  <2>1. CASE Anyone
    BY <2>1, PrefundKeeps, CreateLooseKeeps DEF Anyone
  <2>2. CASE UNCHANGED vars
    BY <2>2 DEF vars, AccountsInv
  <2> QED
    BY <2>1, <2>2, CreateProgramKeeps, CreateVaultKeeps, HandoverKeeps, RenameKeeps DEF Next
<1> QED
  BY <1>1, InitAccounts, PTL DEF Spec

(***************************************************************************)
(* For any wallets, tags, mints, rent and prefunding: a derived address    *)
(* holds its own type or nothing, and an account of Roshi's at any other   *)
(* holds nothing (create_pda_account and the loads before it).             *)
(***************************************************************************)
THEOREM AccountsKeepTheirTypes == Spec => []AccountsTypeOK
<1>1. AccountsInv => AccountsTypeOK
  <2> SUFFICES ASSUME AccountsInv PROVE AccountsTypeOK
    OBVIOUS
  <2>1. ledger[ConfigKey].lamports \in Nat /\ ledger[ConfigKey].data.type \in {"empty", "ProgramConfig"}
    BY DEF AccountsInv, ConfigAccounts, Blank, Empty
  <2>2. ASSUME NEW v \in VaultKeys
        PROVE  LET m == find_share_mint_address(v)
                   d == find_metadata_address(m)
               IN  /\ {ledger[v].lamports, ledger[m].lamports, ledger[d].lamports} \subseteq Nat
                   /\ ledger[v].data.type \in {"empty", "Vault"}
                   /\ ledger[m].data.type \in {"empty", "Mint"}
                   /\ ledger[d].data.type \in {"empty", "Metadata"}
    BY DEF AccountsInv, VaultTriple, VaultAccounts, VaultData, MintAccounts, MetadataAccounts, Blank,
           Empty
  <2>3. \A a \in Loose : ledger[a].lamports \in Nat /\ (ledger[a].owner = "roshi" => ledger[a].data = Zeroed)
    BY DEF AccountsInv, LooseAccounts, Nothing
  <2>4. /\ \A m \in MintKeys : \E v \in VaultKeys : m = find_share_mint_address(v)
        /\ \A d \in MetadataKeys : \E v \in VaultKeys :
             d = find_metadata_address(find_share_mint_address(v))
    BY DEF MintKeys, MetadataKeys
  <2>5. \A a \in Addresses : ledger[a].lamports \in Nat
    BY <2>1, <2>2, <2>3, <2>4 DEF Addresses, Derived
  <2> QED
    BY <2>1, <2>2, <2>3, <2>4, <2>5 DEF AccountsTypeOK, AccountsInv
<1> QED
  BY <1>1, AccountsInductive, PTL

(***************************************************************************)
(* For any circles and any submitters: a role check of a vault, or the     *)
(* program authority's, passes only for a transaction that someone of that *)
(* vault's (the program's) circle signed (verify_role,                     *)
(* ProgramConfigAuthorityContext::load).                                   *)
(***************************************************************************)
THEOREM GatesKeepOutsidersOut == Spec => []OutsidersPassNoGate
<1>1. AccountsInv => OutsidersPassNoGate
  <2> SUFFICES ASSUME AccountsInv, NEW s \in SignerSets
               PROVE  /\ \A a \in VaultKeys \cup Loose, r \in Roles, k \in Keys :
                           load_checked(a) /\ s \cap Circle(a) = {} =>
                             /\ ~VaultRoleContext(a, r, k, s)
                             /\ ~verify_either_role(vault_at(a), "Admin", r, k, s)
                      /\ \A c \in {ConfigKey} \cup Loose, k \in Keys :
                           ProgramConfigAuthorityContext(c, k, s) => s \cap Circle(ConfigKey) # {}
    BY DEF OutsidersPassNoGate
  <2>1. ASSUME NEW a \in VaultKeys \cup Loose, NEW r \in Roles, NEW k \in Keys,
               load_checked(a), s \cap Circle(a) = {}
        PROVE  /\ ~VaultRoleContext(a, r, k, s)
               /\ ~verify_either_role(vault_at(a), "Admin", r, k, s)
    <3>1. vault_at(a).authority \in [Roles -> Circle(a)]
      BY <2>1, RoleGate
    <3>2. vault_at(a).authority[r] \in Circle(a) /\ vault_at(a).authority["Admin"] \in Circle(a)
      BY <3>1 DEF Roles
    <3> QED
      BY <2>1, <3>2 DEF VaultRoleContext, verify_role, verify_either_role
  <2>2. ASSUME NEW c \in {ConfigKey} \cup Loose, NEW k \in Keys, ProgramConfigAuthorityContext(c, k, s)
        PROVE  s \cap Circle(ConfigKey) # {}
    BY <2>2, ConfigGate
  <2> QED
    BY <2>1, <2>2
<1> QED
  BY <1>1, AccountsInductive, PTL

(***************************************************************************)
(* For any tags and base mints: a vault once created loads for good at the *)
(* address of its own tag and mint, and its share mint and metadata answer *)
(* to it alone (Vault::verify_address, pack_tag, create_share_mint).       *)
(***************************************************************************)
THEOREM VaultsKeepAnswering == Spec => []VaultsAnswerAtTheirAddress
<1>1. AccountsInv => VaultsAnswerAtTheirAddress
  <2> SUFFICES ASSUME AccountsInv, NEW v \in VaultKeys, ledger[v].data # Empty
               PROVE  /\ load_checked(v)
                      /\ ledger[vault_at(v).share_mint].data.mint_authority = v
                      /\ LET d == ledger[find_metadata_address(vault_at(v).share_mint)].data
                         IN  d # Empty => d.update_authority = v
    BY DEF VaultsAnswerAtTheirAddress
  <2>1. VaultTriple(ledger, v)
    BY DEF AccountsInv
  <2>2. ledger[v].owner = "roshi" /\ ledger[v].data \in VaultData(v)
    BY <2>1 DEF VaultTriple, VaultAccounts, Blank
  <2>3. load_checked(v) /\ vault_at(v).share_mint = find_share_mint_address(v)
    BY <2>2 DEF VaultData, load_checked, load_as, vault_at
  <2>4. ledger[find_share_mint_address(v)].data.mint_authority = v
    BY <2>1 DEF VaultTriple, MintAccounts, Blank
  <2>5. LET d == ledger[find_metadata_address(find_share_mint_address(v))].data
        IN  d # Empty => d.update_authority = v
    BY <2>1 DEF VaultTriple, MetadataAccounts, Blank
  <2> QED
    BY <2>3, <2>4, <2>5
<1> QED
  BY <1>1, AccountsInductive, PTL
============================================================================
