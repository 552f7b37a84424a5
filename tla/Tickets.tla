------------------------------ MODULE Tickets ------------------------------
(***************************************************************************)
(* Withdrawal tickets as accounts: who opens one at which address, which   *)
(* account lists settle or cancel it, who is paid, who gets the shares     *)
(* back and who gets the rent.                                             *)
(*                                                                         *)
(* Amounts, and when a ticket may be struck or cancelled, are module       *)
(* Vault's: here either may come at any time.  Roles are module            *)
(* ProgramAccounts's: here the withdrawal authority of each vault signs    *)
(* and passes any accounts, in any grouping.  Addresses derived from seeds *)
(* are the seeds.                                                          *)
(***************************************************************************)
EXTENDS Integers, FiniteSetsExt, SequencesExt

CONSTANTS
    Vaults,
    Owners,          \* wallets of redeemers
    Indexes,         \* ticket indexes of one owner in one vault
    TokenAccounts,   \* addresses payouts may be sent to
    BaseMint,        \* by vault, its base mint
    Mints,
    Closed,          \* no token account at the address
    LookAlikes,      \* addresses of other programs' accounts that hold a ticket's bytes
    Rent,            \* rent exemption of a ticket
    Funds,           \* lamports of a wallet
    MaxClaims,       \* bound: redemptions
    MaxBatch,        \* bound: tickets in one settlement
    MaxGifts         \* bound: lamports sent to ticket addresses by others

\* A ticket's address is derived from its seeds: no other account is there.
TicketKeys == Vaults \X Owners \X Indexes

ASSUME TicketsAssumption ==
    /\ IsFiniteSet(Vaults) /\ IsFiniteSet(Owners) /\ IsFiniteSet(Indexes)
    /\ {} \notin {Vaults, Owners, Indexes, TokenAccounts}
    /\ BaseMint \in [Vaults -> Mints]
    /\ {Rent, Funds, MaxClaims, MaxBatch, MaxGifts} \subseteq Nat
    /\ LookAlikes \cap TicketKeys = {} /\ \A a \in LookAlikes : a[2] \in Vaults

VARIABLES
    accounts,        \* by address, [lamports, owner, data]
    wallets,         \* by owner, lamports
    token_accounts,  \* by address, the mint of the token account there, or Closed
    claims,          \* one entry per Redeem: its vault, owner, recipient and how it ended
    gifts            \* by owner, lamports others sent to addresses of its tickets

vars == <<accounts, wallets, token_accounts, claims, gifts>>

-----------------------------------------------------------------------------
(* Addresses and accounts.                                                   *)

\* Faulty variant: seeded by the index alone.
find_address_Shared(vault, owner, ticket_index) ==
    <<vault, CHOOSE o \in Owners : TRUE, ticket_index>>

find_address(vault, owner, ticket_index) == <<vault, owner, ticket_index>>

Empty == [type |-> "empty"]
Nothing == [lamports |-> 0, owner |-> "system", data |-> Empty]

WithdrawalTicket(vault, owner, recipient, ticket_index, claim) ==
    [type |-> "WithdrawalTicket", vault |-> vault, owner |-> owner,
     recipient_token_account |-> recipient, ticket_index |-> ticket_index, claim |-> claim]

\* A foreign account with the bytes of a ticket that pays anyone's claim.
LookAlike(v) ==
    [lamports |-> Rent, owner |-> "other",
     data |-> WithdrawalTicket(v, CHOOSE o \in Owners : TRUE,
                               CHOOSE r \in TokenAccounts : TRUE, CHOOSE i \in Indexes : TRUE, 1)]

require_uninitialized_account(a) ==
    accounts[a].data = Empty /\ accounts[a].owner = "system"

load_as_ticket(a) == accounts[a].owner = "roshi" /\ accounts[a].data.type = "WithdrawalTicket"

verify_token_account_mint(r, mint) == token_accounts[r] = mint

-----------------------------------------------------------------------------
(* Loading.                                                                  *)

redeem_loads(vault, owner, ticket_index, recipient, a) ==
    /\ require_uninitialized_account(a)
    /\ verify_token_account_mint(recipient, BaseMint[vault])
    /\ a = find_address(vault, owner, ticket_index)

cancel_loads(vault, owner, a, share_dest) ==
    /\ load_as_ticket(a)
    /\ LET t == accounts[a].data
       IN  /\ t.vault = vault /\ t.owner = owner
           /\ a = find_address(vault, owner, t.ticket_index)
    /\ share_dest = owner             \* a share account of the owner's

\* Faulty variant: the owner is whoever is passed.
settlement_loads_AnyOwner(vault, g) ==
    /\ load_as_ticket(g.ticket)
    /\ LET t == accounts[g.ticket].data
       IN  /\ t.vault = vault /\ t.recipient_token_account = g.destination
           /\ g.ticket = find_address(vault, t.owner, t.ticket_index)
    /\ verify_token_account_mint(g.destination, BaseMint[vault])

\* One (ticket, owner, destination) group of a settlement's account list.
settlement_loads(vault, g) ==
    /\ load_as_ticket(g.ticket)
    /\ LET t == accounts[g.ticket].data
       IN  /\ t.vault = vault /\ t.owner = g.owner
           /\ t.recipient_token_account = g.destination
           /\ g.ticket = find_address(vault, g.owner, t.ticket_index)
    /\ verify_token_account_mint(g.destination, BaseMint[vault])

\* Faulty variant: a ticket may be listed again.
no_ticket_twice_Unchecked(batch) == TRUE

no_ticket_twice(batch) == \A i, j \in DOMAIN batch : i # j => batch[i].ticket # batch[j].ticket

-----------------------------------------------------------------------------
(* Creating and closing, on s = [accounts, wallets, claims].                 *)

now == [accounts |-> accounts, wallets |-> wallets, claims |-> claims]

becomes(s) == accounts' = s.accounts /\ wallets' = s.wallets /\ claims' = s.claims

shortfall(a) == Max({Rent - accounts[a].lamports, 0})

create_ticket(s, a, t) ==
    [s EXCEPT !.accounts[a] = [lamports |-> @.lamports + shortfall(a), owner |-> "roshi", data |-> t],
              !.wallets[t.owner] = @ - shortfall(a)]

\* Faulty variant: the account stays with the program.
close_account_KeepsOwner(s, a, refund_to) ==
    [s EXCEPT !.accounts[a] = [Nothing EXCEPT !.owner = "roshi"],
              !.wallets[refund_to] = @ + s.accounts[a].lamports]

close_account(s, a, refund_to) ==
    [s EXCEPT !.accounts[a] = Nothing, !.wallets[refund_to] = @ + s.accounts[a].lamports]

\* The claim behind the ticket at a ends so.
ends(s, a, how) == [s EXCEPT !.claims[accounts[a].data.claim].ended = Append(@, how)]

-----------------------------------------------------------------------------
(* Instructions.                                                             *)

Redeem(vault, owner, ticket_index, recipient, a) ==
    /\ Len(claims) < MaxClaims
    /\ redeem_loads(vault, owner, ticket_index, recipient, a)
    /\ shortfall(a) <= wallets[owner]
    /\ becomes([create_ticket(now, a, WithdrawalTicket(vault, owner, recipient, ticket_index,
                                                       Len(claims) + 1))
                  EXCEPT !.claims = Append(@, [vault |-> vault, owner |-> owner,
                                               recipient |-> recipient, ended |-> <<>>])])
    /\ UNCHANGED <<token_accounts, gifts>>

CancelRedeem(vault, owner, a, share_dest) ==
    /\ cancel_loads(vault, owner, a, share_dest)
    /\ becomes(close_account(ends(now, a, <<"reminted", vault, share_dest>>), a, owner))
    /\ UNCHANGED <<token_accounts, gifts>>

pay(vault, s, g) ==
    close_account(
      ends(s, g.ticket, <<"paid", vault, g.destination, token_accounts[g.destination]>>),
      g.ticket, g.owner)

\* Paid one after the other.
settle(vault, batch) ==
    LET after[n \in 0..Len(batch)] ==
          IF n = 0 THEN now ELSE pay(vault, after[n - 1], batch[n])
    IN  after[Len(batch)]

ProcessWithdrawals(vault, batch) ==
    /\ batch # <<>>
    /\ \A i \in DOMAIN batch : settlement_loads(vault, batch[i])
    /\ no_ticket_twice(batch)
    /\ becomes(settle(vault, batch))
    /\ UNCHANGED <<token_accounts, gifts>>

-----------------------------------------------------------------------------
(* Others (external).                                                        *)

\* Lamports can be sent to any address.
Gift(a) ==
    /\ \A o \in Owners : gifts[o] < MaxGifts
    /\ accounts' = [accounts EXCEPT ![a].lamports = @ + 1]
    /\ gifts' = [gifts EXCEPT ![a[2]] = @ + 1]
    /\ UNCHANGED <<wallets, token_accounts, claims>>

\* A recipient is closed, or opened again, for another mint perhaps.
Reopen(r, mint) ==
    /\ token_accounts' = [token_accounts EXCEPT ![r] = mint]
    /\ UNCHANGED <<accounts, wallets, claims, gifts>>

-----------------------------------------------------------------------------
Init ==
    /\ accounts = [a \in TicketKeys \cup LookAlikes |->
                     IF a \in TicketKeys THEN Nothing ELSE LookAlike(a[2])]
    /\ wallets = [o \in Owners |-> Funds]
    /\ token_accounts = [r \in TokenAccounts |-> BaseMint[CHOOSE v \in Vaults : TRUE]]
    /\ claims = <<>>
    /\ gifts = [o \in Owners |-> 0]

Groups == [ticket : DOMAIN accounts, owner : Owners, destination : TokenAccounts]

Redeemers ==
    \E v \in Vaults, o \in Owners, a \in DOMAIN accounts :
        \/ \E i \in Indexes, r \in TokenAccounts : Redeem(v, o, i, r, a)
        \/ \E s \in Owners : CancelRedeem(v, o, a, s)

\* A list with a group that is refused is refused whole.
WithdrawalAuthorities ==
    \E v \in Vaults :
      \E batch \in BoundedSeq({g \in Groups : settlement_loads(v, g)}, MaxBatch) :
        ProcessWithdrawals(v, batch)

Outsiders ==
    \/ \E a \in TicketKeys : Gift(a)
    \/ \E r \in TokenAccounts, mint \in Mints \cup {Closed} : Reopen(r, mint)

Next == Redeemers \/ WithdrawalAuthorities \/ Outsiders

Spec == Init /\ [][Next]_vars

-----------------------------------------------------------------------------
(* What redeemers rely on.                                                   *)

\* Addresses of tickets hold one or nothing; claims name what they were made with.
TicketsTypeOK ==
    /\ DOMAIN accounts = TicketKeys \cup LookAlikes
    /\ \A a \in TicketKeys :
         /\ accounts[a].owner \in {"system", "roshi"}
         /\ accounts[a].owner = "roshi" <=> accounts[a].data.type = "WithdrawalTicket"
    /\ wallets \in [Owners -> 0..(Funds + MaxGifts)]
    /\ token_accounts \in [TokenAccounts -> Mints \cup {Closed}]

(***************************************************************************)
(* Burned shares are honoured exactly once: until then one ticket holds    *)
(* the claim; it ends by a payout in the vault's base mint, from that      *)
(* vault, to the recipient named at the redemption, or by reminting to the *)
(* owner.  No account list, repeated, mixed between vaults or with another *)
(* program's look-alikes in it, pays twice or pays somebody else           *)
(* (ProcessWithdrawalsContext::load, CancelRedeemContext::load).           *)
(***************************************************************************)
ClaimsAreHonouredOnce ==
    \A c \in DOMAIN claims :
        LET claim == claims[c]
            holding == {a \in DOMAIN accounts : load_as_ticket(a) /\ accounts[a].data.claim = c}
        IN  /\ Cardinality(holding) + Len(claim.ended) = 1
            /\ ToSet(claim.ended) \subseteq
                 {<<"paid", claim.vault, claim.recipient, BaseMint[claim.vault]>>,
                  <<"reminted", claim.vault, claim.owner>>}

(***************************************************************************)
(* The rent an owner put into tickets is its own or back in its wallet,    *)
(* with whatever others sent to them, through any reuse of addresses       *)
(* (create_ticket over create_pda_account, close_account).                 *)
(***************************************************************************)
RentComesBack ==
    \A o \in Owners :
        wallets[o] + SumFunctionOnSet([a \in TicketKeys |-> accounts[a].lamports],
                                      {a \in TicketKeys : a[2] = o})
          = Funds + gifts[o]

(***************************************************************************)
(* "one user can never occupy another user's ticket-index namespace": an   *)
(* owner with no open ticket of an index can open one, and an open ticket  *)
(* whose recipient still takes the base mint can be settled on its own,    *)
(* whatever others opened, sent or left unpayable                          *)
(* (WithdrawalTicket::find_address, require_uninitialized_account).        *)
(***************************************************************************)
NobodyIsLockedOut ==
    \A v \in Vaults, o \in Owners, i \in Indexes, r \in TokenAccounts :
        token_accounts[r] = BaseMint[v] =>
            LET held == {a \in TicketKeys : load_as_ticket(a) /\ accounts[a].data.vault = v
                              /\ accounts[a].data.owner = o /\ accounts[a].data.ticket_index = i}
            IN  IF held = {} THEN \E a \in TicketKeys : redeem_loads(v, o, i, r, a)
                ELSE \A a \in held : accounts[a].data.recipient_token_account = r =>
                       settlement_loads(v, [ticket |-> a, owner |-> o, destination |-> r])
=============================================================================
