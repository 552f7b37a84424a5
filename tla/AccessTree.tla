---------------------------- MODULE AccessTree ----------------------------
(***************************************************************************)
(* Access lists as they are: the client builds a Merkle tree over the      *)
(* listed wallets and hands out proofs, the vault keeps the root, a        *)
(* depositor presents a proof.                                             *)
(*                                                                         *)
(* A hash is the term it was made from, so that hashes collide only when   *)
(* their preimages are equal; the two domains are the two shapes of term.  *)
(* Nodes hash their children in sorted order, which is to say without      *)
(* order.  Wallets are numbered in the order of their leaf hashes.         *)
(***************************************************************************)
EXTENDS Integers, SequencesExt

CONSTANTS
    Wallets,        \* a set of numbers
    NoWallet,
    Lists,          \* owner lists the admin may build a tree from, repeats included
    MAX_ACCESS_PROOF_LEN,
    ForgedLen       \* bound: length of the proofs put together from known hashes

ASSUME AccessAssumption ==
    /\ Wallets \subseteq Nat /\ \A list \in Lists : list \in Seq(Wallets)
    /\ MAX_ACCESS_PROOF_LEN \in Nat /\ ForgedLen \in Nat

VARIABLES
    private,        \* vault.private
    root,           \* vault.access_merkle_root
    published,      \* the list the root was built from
    rotated_out,    \* the list published before it, whose proofs are still around
    admitted        \* the depositor the last step let in, if any

vars == <<private, root, published, rotated_out, admitted>>

-----------------------------------------------------------------------------
(* Hashes and the on-chain check.                                            *)

EMPTY_ACCESS_MERKLE_ROOT == <<"zero">>

access_merkle_leaf(owner) == <<"leaf", owner>>

access_merkle_node(left, right) == <<"node", {left, right}>>

\* Up from the leaf, one node for each hash of the proof.
climbed(owner, access_proof) ==
    LET node[i \in 0..Len(access_proof)] ==
          IF i = 0 THEN access_merkle_leaf(owner) ELSE access_merkle_node(node[i - 1], access_proof[i])
    IN  node

verify_access_merkle_proof(owner, merkle_root, access_proof) ==
    /\ Len(access_proof) <= MAX_ACCESS_PROOF_LEN
    /\ climbed(owner, access_proof)[Len(access_proof)] = merkle_root

-----------------------------------------------------------------------------
(* The client's tree.                                                        *)

\* n.div_ceil(2)
halved(n) == (n + 1) \div 2

\* Owners sorted by leaf, without repeats: the k-th has k - 1 before it.
entries(owners) ==
    LET listed == ToSet(owners)
    IN  [k \in 1..Cardinality(listed) |->
            CHOOSE w \in listed : Cardinality({v \in listed : v < w}) = k - 1]

leaves(owners) == [k \in DOMAIN entries(owners) |-> access_merkle_leaf(entries(owners)[k])]

\* A last node without a sibling moves up as it is.
next_layer(layer) ==
    [k \in 1..halved(Len(layer)) |->
        IF 2 * k <= Len(layer) THEN access_merkle_node(layer[2 * k - 1], layer[2 * k])
        ELSE layer[2 * k - 1]]

\* Layer upon layer; each is shorter than the one below until one has a single node.
tower(bottom) ==
    LET layer[i \in DOMAIN bottom] == IF i = 1 THEN bottom ELSE next_layer(layer[i - 1])
    IN  layer

\* Up to the first layer of a single node.
height(bottom) == Min({i \in DOMAIN bottom : Len(tower(bottom)[i]) = 1})

\* Layers from the leaves to the root; none for an empty list.
layers(owners) ==
    IF owners = <<>> THEN <<>>
    ELSE [i \in 1..height(leaves(owners)) |-> tower(leaves(owners))[i]]

tree_root(owners) ==
    IF owners = <<>> THEN EMPTY_ACCESS_MERKLE_ROOT ELSE Last(layers(owners))[1]

\* Faulty variant: a node without a sibling is paired with itself in the proof.
sibling_SelfPaired(layer, index) ==
    LET other == IF index % 2 = 0 THEN index - 1 ELSE index + 1
    IN  IF other \in DOMAIN layer THEN <<layer[other]>> ELSE <<layer[index]>>

\* The node a place is paired with, if there is one.
sibling(layer, index) ==
    LET other == IF index % 2 = 0 THEN index - 1 ELSE index + 1
    IN  IF other \in DOMAIN layer THEN <<layer[other]>> ELSE <<>>

\* The owner's place, layer by layer.
places(owners, owner) ==
    LET index[i \in 1..Len(layers(owners))] ==
          IF i = 1 THEN CHOOSE k \in DOMAIN entries(owners) : entries(owners)[k] = owner
          ELSE halved(index[i - 1])
    IN  index

\* The siblings on the owner's path, from the leaves through each layer below the root.
siblings(owners, owner) ==
    LET path[i \in 0..(Len(layers(owners)) - 1)] ==
          IF i = 0 THEN <<>> ELSE path[i - 1] \o sibling(layers(owners)[i], places(owners, owner)[i])
    IN  path

\* The proof the client gives out: none for a stranger, none past the limit.
proof(owners, owner) ==
    IF owner \notin ToSet(owners) THEN {}
    ELSE {p \in {siblings(owners, owner)[Len(layers(owners)) - 1]} : Len(p) <= MAX_ACCESS_PROOF_LEN}

-----------------------------------------------------------------------------
(* The vault.                                                                *)

\* Faulty variant: the mode changes and the root stays.
SetVaultAccess_KeepsRoot(p, owners) ==
    /\ private' = p
    /\ root' = IF p THEN root ELSE tree_root(owners)
    /\ published' = owners /\ rotated_out' = published
    /\ admitted' = NoWallet

SetVaultAccess(p, owners) ==
    /\ private' = p
    /\ root' = tree_root(owners)
    /\ published' = owners /\ rotated_out' = published
    /\ admitted' = NoWallet

allows_depositor(owner, access_proof) ==
    private => verify_access_merkle_proof(owner, root, access_proof)

Deposit(owner, access_proof) ==
    /\ Len(access_proof) <= MAX_ACCESS_PROOF_LEN
    /\ allows_depositor(owner, access_proof)
    /\ admitted' = owner
    /\ UNCHANGED <<private, root, published, rotated_out>>

\* Hashes a depositor can have seen: those of this list and of the one before.
known(owners) == UNION {ToSet(layer) : layer \in ToSet(layers(owners))}

\* Real proofs of anyone, and anything put together from known hashes.
Presentable ==
    UNION {proof(list, w) : list \in {published, rotated_out}, w \in Wallets}
      \cup BoundedSeq(known(published) \cup known(rotated_out), ForgedLen)

Init ==
    \E list \in Lists, p \in BOOLEAN :
        /\ private = p /\ root = tree_root(list)
        /\ published = list /\ rotated_out = <<>>
        /\ admitted = NoWallet

Next ==
    \/ \E p \in BOOLEAN, list \in Lists : SetVaultAccess(p, list)
    \/ \E w \in Wallets, p \in Presentable : Deposit(w, p)

Spec == Init /\ [][Next]_vars

-----------------------------------------------------------------------------
AbstractList == INSTANCE AccessList WITH members <- ToSet(published)

(***************************************************************************)
(* The tree implements the list: whoever is let in is on the list in force *)
(* or the vault is open, whatever the depositor presents, a proof rotated  *)
(* out, another wallet's proof and forged ones included                    *)
(* (allows_depositor, try_set_vault_access).                               *)
(***************************************************************************)
ImplementsList == AbstractList!Spec

(***************************************************************************)
(* Nobody listed is kept out: the client's proof opens the vault for every *)
(* wallet of the list, for lists of any shape, odd layers included, while  *)
(* the tree is no deeper than a proof may be                               *)
(* (AccessMerkleTree::proof against verify_access_merkle_proof).           *)
(***************************************************************************)
ListedWalletsGetIn ==
    \A w \in ToSet(published) :
        Len(layers(published)) - 1 <= MAX_ACCESS_PROOF_LEN =>
            \E p \in proof(published, w) : allows_depositor(w, p)
=============================================================================
