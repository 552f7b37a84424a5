---------------------------- MODULE AccessList ----------------------------
(***************************************************************************)
(* What an access list promises: a vault is open to all or to a set of     *)
(* wallets, replaced whole.  Module Vault's access mode is this one.       *)
(***************************************************************************)
CONSTANTS Wallets, NoWallet

VARIABLES
    private,   \* the vault is closed to wallets that are not listed
    members,   \* the wallets listed
    admitted   \* the depositor the last step let in, if any

Init == private \in BOOLEAN /\ members \subseteq Wallets /\ admitted = NoWallet

SetAccess(p, m) == private' = p /\ members' = m /\ admitted' = NoWallet

Admit(w) ==
    /\ private => w \in members
    /\ admitted' = w
    /\ UNCHANGED <<private, members>>

Next ==
    \/ \E p \in BOOLEAN, m \in SUBSET Wallets : SetAccess(p, m)
    \/ \E w \in Wallets : Admit(w)

Spec == Init /\ [][Next]_<<private, members, admitted>>
=============================================================================
