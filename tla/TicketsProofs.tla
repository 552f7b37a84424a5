--------------------------- MODULE TicketsProofs ---------------------------
(***************************************************************************)
(* Proofs about tickets as accounts: whatever lists are submitted, a claim *)
(* is held by one ticket or ended once, and rent goes back to who paid it. *)
(***************************************************************************)
EXTENDS Tickets, SequenceTheorems, ArithmeticTheorems

TicketRecord ==
    [type : {"WithdrawalTicket"}, vault : Vaults, owner : Owners,
     recipient_token_account : TokenAccounts, ticket_index : Indexes, claim : Nat]

AccountRecord ==
    [lamports : Nat, owner : {"system"}, data : {Empty}]
      \cup [lamports : Nat, owner : {"roshi", "other"}, data : TicketRecord]

Paid(vault, recipient) == <<"paid", vault, recipient, BaseMint[vault]>>
Reminted(vault, owner) == <<"reminted", vault, owner>>

Outcome == {Paid(v, r) : v \in Vaults, r \in TokenAccounts}
             \cup {Reminted(v, o) : v \in Vaults, o \in Owners}

Claim == [vault : Vaults, owner : Owners, recipient : TokenAccounts, ended : Seq(Outcome)]

Ledger == [accounts : [TicketKeys \cup LookAlikes -> AccountRecord],
           wallets : [Owners -> Nat], claims : Seq(Claim)]

\* How a claim may end.
Outcomes(claim) == {Paid(claim.vault, claim.recipient), Reminted(claim.vault, claim.owner)}

Ticket(s, a) == s.accounts[a].owner = "roshi"

\* The ticket at a is of its address, and of the open claim it names.
TicketOK(s, a) ==
    LET t == s.accounts[a].data
    IN  /\ a = <<t.vault, t.owner, t.ticket_index>>
        /\ t.claim \in DOMAIN s.claims
        /\ s.claims[t.claim] = [vault |-> t.vault, owner |-> t.owner,
                                recipient |-> t.recipient_token_account, ended |-> <<>>]

ClaimOK(s, c) ==
    \/ /\ s.claims[c].ended = <<>>
       /\ \E a \in TicketKeys : Ticket(s, a) /\ s.accounts[a].data.claim = c
    \/ \E h \in Outcomes(s.claims[c]) : s.claims[c].ended = <<h>>

\* Every claim has one ticket or has ended, and every ticket is one claim's.
Kept(s) ==
    /\ s \in Ledger
    /\ \A a \in TicketKeys : s.accounts[a].owner # "other"
    /\ \A a \in LookAlikes : s.accounts[a].owner = "other"
    /\ \A a \in TicketKeys : Ticket(s, a) => TicketOK(s, a)
    /\ \A a, b \in TicketKeys :
         Ticket(s, a) /\ Ticket(s, b) /\ s.accounts[a].data.claim = s.accounts[b].data.claim => a = b
    /\ \A c \in DOMAIN s.claims : ClaimOK(s, c)

KeysOf(o) == {a \in TicketKeys : a[2] = o}

\* Lamports in an owner's wallet and at the addresses of its tickets.
Worth(s, o) ==
    s.wallets[o] + SumFunctionOnSet([a \in TicketKeys |-> s.accounts[a].lamports], KeysOf(o))

TicketsInv ==
    /\ Kept(now)
    /\ \A o \in Owners : Worth(now, o) = Funds + gifts[o]
    /\ gifts \in [Owners -> 0..MaxGifts]
    /\ token_accounts \in [TokenAccounts -> Mints \cup {Closed}]

-----------------------------------------------------------------------------
(* Addresses.                                                                *)

\* An address of a ticket is its seeds.
LEMMA KeyParts ==
    ASSUME NEW a \in TicketKeys
    PROVE  /\ a = <<a[1], a[2], a[3]>> /\ a[1] \in Vaults /\ a[2] \in Owners /\ a[3] \in Indexes
           /\ a \in KeysOf(a[2])
BY DEF TicketKeys, KeysOf

\* There are finitely many.
LEMMA KeysFinite == IsFiniteSet(TicketKeys) /\ \A o \in Owners : IsFiniteSet(KeysOf(o))
<1> DEFINE pairs == Vaults \X Owners
           nested == pairs \X Indexes
           flat(p) == <<p[1][1], p[1][2], p[2]>>
<1>1. IsFiniteSet(nested)
  BY TicketsAssumption, FS_Product
<1>2. TicketKeys = {flat(p) : p \in nested}
  <2>1. ASSUME NEW a \in TicketKeys PROVE a \in {flat(p) : p \in nested}
    <3>1. a[1] \in Vaults /\ a[2] \in Owners /\ a[3] \in Indexes /\ a = <<a[1], a[2], a[3]>>
      BY KeyParts
    <3>2. <<<<a[1], a[2]>>, a[3]>> \in nested /\ flat(<<<<a[1], a[2]>>, a[3]>>) = a
      BY <3>1
    <3> QED
      BY <3>2
  <2>2. ASSUME NEW p \in nested PROVE flat(p) \in TicketKeys
    BY DEF TicketKeys
  <2> QED
    BY <2>1, <2>2
<1>3. IsFiniteSet(TicketKeys)
  <2> DEFINE f == [p \in nested |-> flat(p)]
  <2>1. f \in Surjection(nested, TicketKeys)
    <3> HIDE DEF nested, flat
    <3> QED
      BY <1>2 DEF Surjection
  <2> HIDE DEF nested, f
  <2> QED
    BY <1>1, <2>1, FS_Surjection
<1> QED
  BY <1>3, FS_Subset DEF KeysOf


\* What an owner has is a number of lamports.
LEMMA WorthNat ==
    ASSUME NEW s \in Ledger, NEW o \in Owners
    PROVE  Worth(s, o) \in Nat /\ s.wallets[o] <= Worth(s, o)
<1> DEFINE f == [b \in TicketKeys |-> s.accounts[b].lamports]
<1>1. \A b \in TicketKeys : f[b] \in Nat
  BY DEF Ledger, AccountRecord
<1>2. s.wallets[o] \in Nat
  BY DEF Ledger
<1>3. Worth(s, o) = s.wallets[o] + SumFunctionOnSet(f, KeysOf(o))
  BY DEF Worth
<1> HIDE DEF f
<1>4. IsFiniteSet(KeysOf(o)) /\ \A b \in KeysOf(o) : f[b] \in Nat
  BY <1>1, KeysFinite DEF KeysOf
<1>5. SumFunctionOnSet(f, KeysOf(o)) \in Nat
  BY <1>4, SumNat
<1> QED
  BY <1>2, <1>3, <1>5

\* What one change at an address of an owner's ticket does to the sums.
LEMMA WorthChange ==
    ASSUME NEW s \in Ledger, NEW u \in Ledger, NEW a \in TicketKeys, NEW o \in Owners, a[2] = o,
           NEW d \in Int, u.wallets[o] = s.wallets[o] + d,
           \A p \in Owners \ {o} : u.wallets[p] = s.wallets[p],
           \A b \in TicketKeys \ {a} : u.accounts[b].lamports = s.accounts[b].lamports
    PROVE  /\ Worth(u, o) = Worth(s, o) + (d + (u.accounts[a].lamports - s.accounts[a].lamports))
           /\ \A p \in Owners \ {o} : Worth(u, p) = Worth(s, p)
<1> DEFINE f == [b \in TicketKeys |-> s.accounts[b].lamports]
           g == [b \in TicketKeys |-> u.accounts[b].lamports]
<1>1. /\ \A b \in TicketKeys : f[b] \in Nat /\ g[b] \in Nat
      /\ \A b \in TicketKeys \ {a} : g[b] = f[b]
      /\ f[a] = s.accounts[a].lamports /\ g[a] = u.accounts[a].lamports
  BY DEF Ledger, AccountRecord
<1>2. \A p \in Owners : s.wallets[p] \in Nat /\ u.wallets[p] \in Nat
  BY DEF Ledger
<1>3. /\ \A p \in Owners : Worth(s, p) = s.wallets[p] + SumFunctionOnSet(f, KeysOf(p))
      /\ \A p \in Owners : Worth(u, p) = u.wallets[p] + SumFunctionOnSet(g, KeysOf(p))
  BY DEF Worth
<1> HIDE DEF f, g
<1>4. \A p \in Owners : KeysOf(p) \subseteq TicketKeys /\ IsFiniteSet(KeysOf(p))
  BY KeysFinite DEF KeysOf
<1>5. Worth(u, o) = Worth(s, o) + (d + (u.accounts[a].lamports - s.accounts[a].lamports))
  <2>1. a \in KeysOf(o)
    BY KeyParts
  <2>2. SumFunctionOnSet(f, KeysOf(o)) \in Nat
    <3>1. \A b \in KeysOf(o) : f[b] \in Nat
      BY <1>1, <1>4
    <3> QED
      BY <1>4, <3>1, SumNat
  <2>3. SumFunctionOnSet(g, KeysOf(o)) = SumFunctionOnSet(f, KeysOf(o)) + g[a] - f[a]
    <3>1. /\ \A b \in KeysOf(o) : f[b] \in Nat /\ g[b] \in Nat
          /\ \A b \in KeysOf(o) \ {a} : g[b] = f[b]
      BY <1>1, <1>4
    <3> QED
      BY <1>4, <2>1, <3>1, SumUpdate
  <2>4. f[a] \in Nat /\ g[a] \in Nat
    BY <1>1
  <2> QED
    BY <1>1, <1>2, <1>3, <2>2, <2>3, <2>4
<1>6. ASSUME NEW p \in Owners \ {o} PROVE Worth(u, p) = Worth(s, p)
  <2>1. \A b \in KeysOf(p) : b \in TicketKeys \ {a}
    BY DEF KeysOf
  <2>2. SumFunctionOnSet(f, KeysOf(p)) = SumFunctionOnSet(g, KeysOf(p))
    <3>1. \A b \in KeysOf(p) : f[b] = g[b]
      BY <1>1, <2>1
    <3> QED
      BY <1>4, <3>1, SumAgree
  <2> QED
    BY <1>3, <2>2
<1> QED
  BY <1>5, <1>6

-----------------------------------------------------------------------------
(* Ending a claim.                                                           *)

\* The state after the claim c of the ticket at a ended by h, and a was closed.
Ended(s, a, c, h, o) == close_account([s EXCEPT !.claims[c].ended = Append(@, h)], a, o)

\* One account, one wallet and one claim of it.
Emptied(s, a) == [s.accounts EXCEPT ![a] = Nothing]
Refunded(s, a, o) == [s.wallets EXCEPT ![o] = @ + s.accounts[a].lamports]
Concluded(s, c, h) == [s.claims EXCEPT ![c] = [@ EXCEPT !.ended = <<h>>]]

\* Nothing else changes.
LEMMA EndedFields ==
    ASSUME NEW s \in Ledger, NEW a \in TicketKeys, NEW c \in DOMAIN s.claims,
           NEW h \in Outcome, NEW o \in Owners, s.claims[c].ended = <<>>
    PROVE  /\ Ended(s, a, c, h, o) \in Ledger
           /\ Ended(s, a, c, h, o).accounts = Emptied(s, a)
           /\ Ended(s, a, c, h, o).wallets = Refunded(s, a, o)
           /\ Ended(s, a, c, h, o).claims = Concluded(s, c, h)
<1> DEFINE held == [s.accounts EXCEPT ![a] = Nothing]
           ws == [s.wallets EXCEPT ![o] = @ + s.accounts[a].lamports]
           cs == [s.claims EXCEPT ![c] = [@ EXCEPT !.ended = <<h>>]]
           t == [s EXCEPT !.claims[c].ended = Append(@, h)]
<1>1. /\ s.accounts \in [TicketKeys \cup LookAlikes -> AccountRecord]
      /\ s.wallets \in [Owners -> Nat] /\ s.claims \in Seq(Claim)
      /\ s = [accounts |-> s.accounts, wallets |-> s.wallets, claims |-> s.claims]
  BY DEF Ledger
<1>2. held \in [TicketKeys \cup LookAlikes -> AccountRecord]
  BY <1>1 DEF AccountRecord, Nothing
<1>3. ws \in [Owners -> Nat]
  BY <1>1 DEF AccountRecord
<1>4. cs \in Seq(Claim)
  <2>1. s.claims[c] \in Claim
    BY <1>1, ElementOfSeq
  <2>2. [s.claims[c] EXCEPT !.ended = <<h>>] \in Claim
    <3>1. <<h>> \in Seq(Outcome)
      OBVIOUS
    <3> QED
      BY <2>1, <3>1 DEF Claim
  <2> QED
    BY <1>1, <2>2, ExceptSeq
<1>5. t = [accounts |-> s.accounts, wallets |-> s.wallets, claims |-> cs]
  <2>1. Append(s.claims[c].ended, h) = <<h>>
    BY SMT
  <2> DEFINE new == [s.claims EXCEPT ![c] = [s.claims[c] EXCEPT !.ended = Append(s.claims[c].ended, h)]]
  <2>2. t = [s EXCEPT !.claims = new]
    OBVIOUS
  <2>3. new = cs
    BY <2>1
  <2> HIDE DEF new, cs, t
  <2> QED
    BY <1>1, <2>2, <2>3
<1>6. Ended(s, a, c, h, o) = [accounts |-> held, wallets |-> ws, claims |-> cs]
  <2>1. close_account(t, a, o) =
          [t EXCEPT !.accounts[a] = Nothing, !.wallets[o] = @ + t.accounts[a].lamports]
    BY DEF close_account
  <2> HIDE DEF t, cs
  <2> QED
    BY <1>5, <2>1 DEF Ended, t
<1> HIDE DEF held, ws, cs
<1>7. Ended(s, a, c, h, o) \in Ledger
  <2>1. [accounts |-> held, wallets |-> ws, claims |-> cs] \in Ledger
    BY <1>2, <1>3, <1>4, Zenon DEF Ledger
  <2> QED
    BY <1>6, <2>1
<1>8. /\ Ended(s, a, c, h, o).accounts = held /\ Ended(s, a, c, h, o).wallets = ws
      /\ Ended(s, a, c, h, o).claims = cs
  BY <1>6
<1> QED
  BY <1>7, <1>8 DEF held, ws, cs, Emptied, Refunded, Concluded

\* Both ways to end a claim are outcomes.
LEMMA OutcomesIn ==
    ASSUME NEW claim \in Claim
    PROVE  Outcomes(claim) \subseteq Outcome
BY DEF Claim, Outcomes, Outcome

\* Ending the claim of one ticket leaves the others' alone and moves its lamports home.
LEMMA EndedKeeps ==
    ASSUME NEW s, Kept(s), NEW a \in TicketKeys, Ticket(s, a),
           NEW c, c = s.accounts[a].data.claim, NEW o, o = s.accounts[a].data.owner,
           NEW h \in Outcomes(s.claims[c])
    PROVE  /\ Kept(Ended(s, a, c, h, o))
           /\ \A b \in (TicketKeys \cup LookAlikes) \ {a} :
                Ended(s, a, c, h, o).accounts[b] = s.accounts[b]
           /\ \A p \in Owners : Worth(Ended(s, a, c, h, o), p) = Worth(s, p)
<1> DEFINE u == Ended(s, a, c, h, o)
<1>1. /\ s \in Ledger /\ s.claims \in Seq(Claim) /\ s.wallets \in [Owners -> Nat]
      /\ s.accounts \in [TicketKeys \cup LookAlikes -> AccountRecord]
  BY DEF Kept, Ledger
<1>2. TicketOK(s, a)
  BY DEF Kept
<1>3. c \in DOMAIN s.claims /\ c \in 1..Len(s.claims) /\ s.claims[c].ended = <<>>
      /\ o \in Owners /\ a[2] = o
  <2>1. c \in DOMAIN s.claims /\ s.claims[c].ended = <<>>
    BY <1>2 DEF TicketOK
  <2>2. a = <<s.accounts[a].data.vault, o, s.accounts[a].data.ticket_index>>
    BY <1>2 DEF TicketOK
  <2> QED
    BY <1>1, <2>1, <2>2, KeyParts
<1>4. s.claims[c] \in Claim /\ h \in Outcome
  BY <1>1, <1>3, OutcomesIn, ElementOfSeq
<1>5. /\ u \in Ledger
      /\ u.accounts = Emptied(s, a)
      /\ u.wallets = Refunded(s, a, o)
      /\ u.claims = Concluded(s, c, h)
  BY <1>1, <1>3, <1>4, EndedFields
<1> HIDE DEF u
<1>6. \A b \in (TicketKeys \cup LookAlikes) \ {a} : u.accounts[b] = s.accounts[b]
  BY <1>1, <1>5 DEF Emptied
<1>7. u.accounts[a] = Nothing
  BY <1>1, <1>5 DEF Emptied
<1>8. /\ DOMAIN u.claims = DOMAIN s.claims
      /\ \A d \in DOMAIN s.claims : d # c => u.claims[d] = s.claims[d]
      /\ u.claims[c] = [s.claims[c] EXCEPT !.ended = <<h>>]
  BY <1>1, <1>3, <1>5 DEF Concluded
<1>9. \A b \in TicketKeys : Ticket(u, b) => b # a /\ Ticket(s, b) /\ s.accounts[b].data.claim # c
  BY <1>6, <1>7 DEF Ticket, Nothing, Kept
<1>10. Kept(u)
  <2>1. ASSUME NEW b \in TicketKeys PROVE u.accounts[b].owner # "other"
    BY <1>6, <1>7 DEF Kept, Nothing
  <2>2. ASSUME NEW b \in LookAlikes PROVE u.accounts[b].owner = "other"
    BY <1>6, TicketsAssumption DEF Kept
  <2>3. ASSUME NEW b \in TicketKeys, Ticket(u, b) PROVE TicketOK(u, b)
    <3>1. TicketOK(s, b)
      BY <1>9, <2>3 DEF Kept
    <3>2. u.accounts[b] = s.accounts[b] /\ s.accounts[b].data.claim # c
      BY <1>6, <1>9, <2>3
    <3> QED
      BY <1>8, <3>1, <3>2 DEF TicketOK
  <2>4. ASSUME NEW b \in TicketKeys, NEW d \in TicketKeys, Ticket(u, b), Ticket(u, d),
               u.accounts[b].data.claim = u.accounts[d].data.claim
        PROVE  b = d
    BY <1>6, <1>9, <2>4 DEF Kept
  <2>5. ASSUME NEW d \in DOMAIN u.claims PROVE ClaimOK(u, d)
    <3>1. CASE d = c
      <4>1. u.claims[c].ended = <<h>> /\ Outcomes(u.claims[c]) = Outcomes(s.claims[c])
        BY <1>4, <1>8 DEF Claim, Outcomes
      <4> QED
        BY <3>1, <4>1 DEF ClaimOK
    <3>2. CASE d # c
      <4>1. ClaimOK(s, d) /\ u.claims[d] = s.claims[d]
        BY <1>8, <2>5, <3>2 DEF Kept
      <4>2. ASSUME NEW b \in TicketKeys, Ticket(s, b), s.accounts[b].data.claim = d
            PROVE  Ticket(u, b) /\ u.accounts[b].data.claim = d
        BY <1>6, <3>2, <4>2 DEF Ticket
      <4> QED
        BY <4>1, <4>2 DEF ClaimOK
    <3> QED
      BY <3>1, <3>2
  <2> QED
    BY <1>5, <2>1, <2>2, <2>3, <2>4, <2>5 DEF Kept
<1>11. \A p \in Owners : Worth(u, p) = Worth(s, p)
  <2> DEFINE d == s.accounts[a].lamports
  <2>1. d \in Nat /\ u.accounts[a].lamports = 0
    BY <1>1, <1>7 DEF AccountRecord, Nothing
  <2>2. u.wallets[o] = s.wallets[o] + d /\ \A p \in Owners \ {o} : u.wallets[p] = s.wallets[p]
    BY <1>1, <1>3, <1>5 DEF Refunded
  <2>3. \A b \in TicketKeys \ {a} : u.accounts[b].lamports = s.accounts[b].lamports
    BY <1>6
  <2> HIDE DEF d
  <2>4. /\ Worth(u, o) = Worth(s, o) + (d + (0 - d))
        /\ \A p \in Owners \ {o} : Worth(u, p) = Worth(s, p)
    <3>1. d \in Int
      BY <2>1
    <3>2. /\ Worth(u, o) = Worth(s, o) + (d + (u.accounts[a].lamports - s.accounts[a].lamports))
          /\ \A p \in Owners \ {o} : Worth(u, p) = Worth(s, p)
      <4>1. u \in Ledger /\ s \in Ledger /\ o \in Owners /\ a[2] = o
        BY <1>1, <1>3, <1>5
      <4> QED
        BY <2>2, <2>3, <3>1, <4>1, WorthChange
    <3> QED
      BY <2>1, <3>2 DEF d
  <2>5. Worth(s, o) \in Nat
    BY <1>1, <1>3, WorthNat
  <2> QED
    BY <2>1, <2>4, <2>5
<1> QED
  BY <1>6, <1>10, <1>11 DEF u

\* Paying a ticket that loads, whatever was paid before it.
LEMMA PayKeeps ==
    ASSUME Kept(now), NEW vault \in Vaults, NEW g \in Groups, settlement_loads(vault, g),
           NEW s, Kept(s), s.accounts[g.ticket] = accounts[g.ticket]
    PROVE  /\ Kept(pay(vault, s, g))
           /\ \A b \in (TicketKeys \cup LookAlikes) \ {g.ticket} :
                pay(vault, s, g).accounts[b] = s.accounts[b]
           /\ \A p \in Owners : Worth(pay(vault, s, g), p) = Worth(s, p)
<1> DEFINE a == g.ticket
           t == accounts[a].data
           h == <<"paid", vault, g.destination, token_accounts[g.destination]>>
<1>1. /\ accounts[a].owner = "roshi" /\ t.vault = vault /\ t.owner = g.owner
      /\ t.recipient_token_account = g.destination
      /\ token_accounts[g.destination] = BaseMint[vault]
  BY DEF settlement_loads, load_as_ticket, verify_token_account_mint
<1>2. a \in TicketKeys
  <2>1. a \in TicketKeys \cup LookAlikes
    <3>1. DOMAIN accounts = TicketKeys \cup LookAlikes
      BY DEF Kept, Ledger, now
    <3> QED
      BY <3>1 DEF Groups
  <2> QED
    BY <1>1, <2>1 DEF Kept, now
<1>3. Ticket(s, a) /\ t.claim = s.accounts[a].data.claim /\ g.owner = s.accounts[a].data.owner
  BY <1>1 DEF Ticket
<1>4. h \in Outcomes(s.claims[t.claim])
  <2>1. TicketOK(s, a)
    BY <1>2, <1>3 DEF Kept
  <2>2. s.claims[t.claim].vault = vault /\ s.claims[t.claim].recipient = g.destination
    BY <1>1, <2>1 DEF TicketOK
  <2>3. h = Paid(vault, g.destination)
    BY <1>1 DEF Paid
  <2> HIDE DEF h, t
  <2> QED
    BY <2>2, <2>3 DEF Outcomes
<1>5. pay(vault, s, g) = Ended(s, a, t.claim, h, g.owner)
  BY DEF pay, ends, Ended
<1> HIDE DEF a, t, h
<1>6. /\ Kept(Ended(s, a, t.claim, h, g.owner))
      /\ \A b \in (TicketKeys \cup LookAlikes) \ {a} :
           Ended(s, a, t.claim, h, g.owner).accounts[b] = s.accounts[b]
      /\ \A p \in Owners : Worth(Ended(s, a, t.claim, h, g.owner), p) = Worth(s, p)
  <2> DEFINE c == t.claim
             o == g.owner
  <2>1. c = s.accounts[a].data.claim /\ o = s.accounts[a].data.owner /\ h \in Outcomes(s.claims[c])
    BY <1>3, <1>4
  <2> HIDE DEF c, o
  <2>2. /\ Kept(Ended(s, a, c, h, o))
        /\ \A b \in (TicketKeys \cup LookAlikes) \ {a} : Ended(s, a, c, h, o).accounts[b] = s.accounts[b]
        /\ \A p \in Owners : Worth(Ended(s, a, c, h, o), p) = Worth(s, p)
    <3>1. a \in TicketKeys /\ Ticket(s, a) /\ Kept(s)
      BY <1>2, <1>3, Zenon
    <3> QED
      BY <2>1, <3>1, EndedKeeps, SMTT(60)
  <2> QED
    BY <2>2 DEF c, o
<1> QED
  BY <1>5, <1>6 DEF a

-----------------------------------------------------------------------------
(* A settlement, ticket by ticket.                                           *)

\* The states after each of the first m payments of a batch.
Payments(vault, batch, m, f) ==
    f = [n \in 0..m |-> IF n = 0 THEN now ELSE pay(vault, f[n - 1], batch[n])]

\* What they are, one by one.
LEMMA PaymentsAt ==
    ASSUME NEW vault, NEW batch, NEW m \in Nat, NEW f, Payments(vault, batch, m, f), NEW k \in 0..m
    PROVE  /\ k = 0 => f[k] = now
           /\ k # 0 => f[k] = pay(vault, f[k - 1], batch[k])
<1> DEFINE next(j) == IF j = 0 THEN now ELSE pay(vault, f[j - 1], batch[j])
<1>1. f = [j \in 0..m |-> next(j)]
  BY DEF Payments
<1>2. f[k] = next(k)
  <2> HIDE DEF next
  <2> QED
    BY <1>1
<1> QED
  BY <1>2

\* They exist for every m.
LEMMA PaymentsExist ==
    ASSUME NEW vault, NEW batch, NEW m \in Nat
    PROVE  \E f : Payments(vault, batch, m, f)
<1> DEFINE Bad == {j \in Nat : ~ \E f : Payments(vault, batch, j, f)}
<1> SUFFICES ASSUME Bad # {} PROVE FALSE
  OBVIOUS
<1>1. PICK j \in Bad : \A i \in Bad : j <= i
  <2>1. Bad \in SUBSET Nat
    OBVIOUS
  <2> HIDE DEF Bad
  <2> QED
    BY <2>1, LeastNat
<1>2. j \in Nat /\ ~ \E f : Payments(vault, batch, j, f)
  BY <1>1
<1>3. CASE j = 0
  <2> DEFINE f == [n \in 0..0 |-> now]
  <2>1. f = [n \in 0..0 |-> IF n = 0 THEN now ELSE pay(vault, f[n - 1], batch[n])]
    OBVIOUS
  <2> QED
    BY <1>2, <1>3, <2>1 DEF Payments
<1>4. CASE j # 0
  <2>1. j - 1 \in Nat
    BY <1>2, <1>4
  <2>2. j - 1 \notin Bad
    <3> HIDE DEF Bad
    <3> QED
      BY <1>1, <1>2, <2>1
  <2>3. PICK h : Payments(vault, batch, j - 1, h)
    BY <2>1, <2>2
  <2> DEFINE f == [n \in 0..j |-> IF n = 0 THEN now ELSE pay(vault, h[n - 1], batch[n])]
  <2>4. \A k \in 0..(j - 1) : f[k] = h[k]
    <3>1. ASSUME NEW k \in 0..(j - 1) PROVE f[k] = h[k]
      <4>1. k \in 0..j /\ k \in Nat
        BY <1>2
      <4>2. (k = 0 => h[k] = now) /\ (k # 0 => h[k] = pay(vault, h[k - 1], batch[k]))
        <5> DEFINE last == j - 1
        <5>1. last \in Nat /\ k \in 0..last /\ Payments(vault, batch, last, h)
          BY <2>1, <2>3
        <5> HIDE DEF f, last, Bad
        <5> QED
          BY <5>1, PaymentsAt
      <4> QED
        BY <4>1, <4>2
    <3> QED
      BY <3>1
  <2>5. f = [n \in 0..j |-> IF n = 0 THEN now ELSE pay(vault, f[n - 1], batch[n])]
    <3>1. ASSUME NEW n \in 0..j, n # 0 PROVE f[n - 1] = h[n - 1]
      <4>1. n - 1 \in 0..(j - 1)
        BY <1>2, <3>1
      <4> HIDE DEF f
      <4> QED
        BY <2>4, <4>1
    <3>2. ASSUME NEW n \in 0..j
          PROVE  (IF n = 0 THEN now ELSE pay(vault, h[n - 1], batch[n]))
                   = (IF n = 0 THEN now ELSE pay(vault, f[n - 1], batch[n]))
      <4> HIDE DEF f
      <4> QED
        BY <3>1
    <3> DEFINE one(n) == IF n = 0 THEN now ELSE pay(vault, h[n - 1], batch[n])
               two(n) == IF n = 0 THEN now ELSE pay(vault, f[n - 1], batch[n])
    <3>3. \A n \in 0..j : one(n) = two(n)
      BY <3>2
    <3>4. f = [n \in 0..j |-> one(n)]
      OBVIOUS
    <3> HIDE DEF f, one, two
    <3>5. f = [n \in 0..j |-> two(n)]
      BY <3>3, <3>4
    <3> QED
      BY <3>5 DEF two
  <2> HIDE DEF f
  <2>6. Payments(vault, batch, j, f)
    BY <2>5 DEF Payments
  <2> QED
    BY <1>2, <2>6
<1> QED
  BY <1>3, <1>4

\* A settlement is the last of its payments.
LEMMA SettleIsLast ==
    ASSUME NEW vault, NEW batch, Len(batch) \in Nat
    PROVE  \E f : Payments(vault, batch, Len(batch), f) /\ settle(vault, batch) = f[Len(batch)]
<1>1. PICK f : Payments(vault, batch, Len(batch), f)
  BY PaymentsExist
<1> DEFINE Step(g) == [n \in 0..Len(batch) |-> IF n = 0 THEN now ELSE pay(vault, g[n - 1], batch[n])]
           after == CHOOSE g : g = Step(g)
<1>2. f = Step(f)
  BY <1>1 DEF Payments
<1>3. after = Step(after)
  <2> HIDE DEF Step
  <2> QED
    BY <1>2
<1>4. Payments(vault, batch, Len(batch), after)
  <2> HIDE DEF after
  <2> QED
    BY <1>3 DEF Payments
<1>5. settle(vault, batch) = after[Len(batch)]
  BY DEF settle
<1> QED
  BY <1>4, <1>5

\* A settlement of tickets that load, none of them twice, keeps the books.
LEMMA SettleKeeps ==
    ASSUME Kept(now), NEW vault \in Vaults, NEW batch \in Seq(Groups), no_ticket_twice(batch),
           \A i \in DOMAIN batch : settlement_loads(vault, batch[i])
    PROVE  /\ Kept(settle(vault, batch))
           /\ \A p \in Owners : Worth(settle(vault, batch), p) = Worth(now, p)
<1> DEFINE last == Len(batch)
<1>1. last \in Nat /\ DOMAIN batch = 1..last
  OBVIOUS
<1>2. PICK f : Payments(vault, batch, last, f) /\ settle(vault, batch) = f[last]
  BY <1>1, SettleIsLast
<1> HIDE DEF last
<1> DEFINE Good(n) == /\ Kept(f[n])
                      /\ \A p \in Owners : Worth(f[n], p) = Worth(now, p)
                      /\ \A i \in (n + 1)..last :
                           f[n].accounts[batch[i].ticket] = accounts[batch[i].ticket]
           Bad == {n \in 0..last : ~Good(n)}
<1>3. Bad = {}
  <2> SUFFICES ASSUME Bad # {} PROVE FALSE
    OBVIOUS
  <2>1. PICK n \in Bad : \A m \in Bad : n <= m
    <3>1. Bad \in SUBSET Nat
      BY <1>1
    <3> HIDE DEF Bad
    <3> QED
      BY <3>1, LeastNat
  <2>2. n \in 0..last /\ n \in Nat /\ ~Good(n)
    BY <1>1, <2>1
  <2>3. CASE n = 0
    <3>1. f[n] = now /\ now.accounts = accounts
      <4>1. f[n] = now
        <5>1. n \in 0..last /\ last \in Nat /\ n = 0 /\ Payments(vault, batch, last, f)
          BY <1>1, <1>2, <2>2, <2>3
        <5> HIDE DEF Good, Bad
        <5> QED
          BY <5>1, PaymentsAt, Zenon
      <4>2. now.accounts = accounts
        BY DEF now
      <4> QED
        BY <4>1, <4>2
    <3> QED
      BY <2>2, <3>1
  <2>4. CASE n # 0
    <3>1. n - 1 \in 0..last /\ n \in 1..last /\ n \in (n - 1) + 1..last
      BY <1>1, <2>2, <2>4
    <3>2. Good(n - 1)
      <4>1. n - 1 \notin Bad
        <5> HIDE DEF Bad
        <5> QED
          BY <2>1, <2>2, <3>1
      <4> HIDE DEF Good
      <4> QED
        BY <3>1, <4>1
    <3>3. f[n] = pay(vault, f[n - 1], batch[n])
      BY <1>1, <1>2, <2>2, <2>4, PaymentsAt
    <3> DEFINE s == f[n - 1]
               g == batch[n]
               u == f[n]
    <3>4. g \in Groups /\ settlement_loads(vault, g) /\ Kept(s)
          /\ s.accounts[g.ticket] = accounts[g.ticket]
      <4>1. g \in Groups /\ settlement_loads(vault, g)
        BY <1>1, <3>1
      <4>2. Kept(s) /\ s.accounts[g.ticket] = accounts[g.ticket]
        BY <3>1, <3>2
      <4> QED
        BY <4>1, <4>2
    <3>5. u = pay(vault, s, g)
      BY <3>3
    <3>6. \A p \in Owners : Worth(s, p) = Worth(now, p)
      BY <3>2
    <3>7. \A i \in (n + 1)..last : /\ s.accounts[batch[i].ticket] = accounts[batch[i].ticket]
                                   /\ batch[i].ticket # g.ticket
                                   /\ batch[i].ticket \in TicketKeys \cup LookAlikes
      <4> TAKE i \in (n + 1)..last
      <4>1. i \in (n - 1) + 1..last /\ i \in 1..last /\ i # n
        BY <1>1, <2>2
      <4>2. s.accounts[batch[i].ticket] = accounts[batch[i].ticket]
        BY <3>2, <4>1
      <4>3. batch[i].ticket # g.ticket
        BY <1>1, <3>1, <4>1 DEF no_ticket_twice
      <4>4. batch[i].ticket \in DOMAIN accounts
        <5>1. batch[i] \in Groups
          BY <1>1, <4>1
        <5> QED
          BY <5>1 DEF Groups
      <4>5. DOMAIN accounts = TicketKeys \cup LookAlikes
        BY DEF Kept, Ledger, now
      <4> QED
        BY <4>2, <4>3, <4>4, <4>5
    <3> HIDE DEF s, g, u, Good, Bad
    <3>8. /\ Kept(u)
          /\ \A b \in (TicketKeys \cup LookAlikes) \ {g.ticket} : u.accounts[b] = s.accounts[b]
          /\ \A p \in Owners : Worth(u, p) = Worth(s, p)
      BY <3>4, <3>5, PayKeeps
    <3>9. Kept(u) /\ \A p \in Owners : Worth(u, p) = Worth(now, p)
      BY <3>6, <3>8
    <3>10. \A i \in (n + 1)..last : u.accounts[batch[i].ticket] = accounts[batch[i].ticket]
      BY <3>7, <3>8
    <3>11. Good(n)
      BY <3>9, <3>10 DEF Good, u
    <3> QED
      BY <2>2, <3>11
  <2> QED
    BY <2>3, <2>4
<1>4. Good(last)
  <2>1. last \in 0..last
    BY <1>1
  <2> HIDE DEF Good
  <2> QED
    BY <1>3, <2>1
<1> QED
  BY <1>2, <1>4

-----------------------------------------------------------------------------
(* The steps.                                                                *)

\* A step that leaves s, and leaves everybody what they had, keeps the invariant.
LEMMA LedgerNext ==
    ASSUME TicketsInv, NEW s, Kept(s), \A o \in Owners : Worth(s, o) = Worth(now, o), becomes(s),
           UNCHANGED <<token_accounts, gifts>>
    PROVE  TicketsInv'
<1>1. now' = s
  BY DEF Kept, Ledger, becomes, now
<1>2. Kept(now)'
  BY <1>1
<1>3. (\A o \in Owners : Worth(now, o) = Funds + gifts[o])'
  <2>1. \A o \in Owners : Worth(now', o) = Funds + gifts'[o]
    BY <1>1 DEF TicketsInv
  <2> QED
    BY <2>1
<1> QED
  BY <1>2, <1>3 DEF TicketsInv

\* Cancelling ends the claim of the caller's ticket by reminting to it.
LEMMA CancelKeeps ==
    ASSUME TicketsInv, NEW v \in Vaults, NEW o \in Owners, NEW a \in DOMAIN accounts,
           NEW d \in Owners, CancelRedeem(v, o, a, d)
    PROVE  TicketsInv'
<1> DEFINE t == accounts[a].data
           c == t.claim
           h == <<"reminted", v, d>>
<1>1. /\ accounts[a].owner = "roshi" /\ t.vault = v /\ t.owner = o /\ d = o
      /\ becomes(close_account(ends(now, a, h), a, o)) /\ UNCHANGED <<token_accounts, gifts>>
  BY DEF CancelRedeem, cancel_loads, load_as_ticket
<1>2. Kept(now) /\ now.accounts = accounts
  BY DEF TicketsInv, now
<1>3. a \in TicketKeys
  <2>1. DOMAIN accounts = TicketKeys \cup LookAlikes
    BY <1>2 DEF Kept, Ledger
  <2> QED
    BY <1>1, <1>2, <2>1 DEF Kept
<1>4. Ticket(now, a) /\ c = now.accounts[a].data.claim /\ o = now.accounts[a].data.owner
  BY <1>1, <1>2 DEF Ticket
<1>5. h \in Outcomes(now.claims[c])
  <2>1. TicketOK(now, a)
    BY <1>2, <1>3, <1>4 DEF Kept
  <2>2. now.claims[c].vault = v /\ now.claims[c].owner = o
    BY <1>1, <1>2, <2>1 DEF TicketOK
  <2>3. h = Reminted(v, o)
    BY <1>1 DEF Reminted
  <2> HIDE DEF h, c
  <2> QED
    BY <2>2, <2>3 DEF Outcomes
<1>6. close_account(ends(now, a, h), a, o) = Ended(now, a, c, h, o)
  BY DEF ends, Ended
<1> HIDE DEF c, h, t
<1>7. /\ Kept(Ended(now, a, c, h, o))
      /\ \A p \in Owners : Worth(Ended(now, a, c, h, o), p) = Worth(now, p)
  BY <1>2, <1>3, <1>4, <1>5, EndedKeeps
<1> QED
  BY <1>1, <1>6, <1>7, LedgerNext

\* So does a settlement, by payouts.
LEMMA ProcessKeeps ==
    ASSUME TicketsInv, NEW v \in Vaults,
           NEW batch \in BoundedSeq({g \in Groups : settlement_loads(v, g)}, MaxBatch),
           ProcessWithdrawals(v, batch)
    PROVE  TicketsInv'
<1>1. batch \in Seq(Groups)
  BY TicketsAssumption DEF BoundedSeq, SeqOf
<1>2. /\ no_ticket_twice(batch) /\ \A i \in DOMAIN batch : settlement_loads(v, batch[i])
      /\ becomes(settle(v, batch)) /\ UNCHANGED <<token_accounts, gifts>>
  BY DEF ProcessWithdrawals
<1>3. Kept(now)
  BY DEF TicketsInv
<1>4. Kept(settle(v, batch)) /\ \A p \in Owners : Worth(settle(v, batch), p) = Worth(now, p)
  BY <1>1, <1>2, <1>3, SettleKeeps
<1> QED
  BY <1>2, <1>4, LedgerNext

WithClaims(s, cs) == [s EXCEPT !.claims = cs]

\* A state with its claims replaced.
LEMMA WithClaimsIs ==
    ASSUME NEW x, NEW y, NEW z, NEW w
    PROVE  WithClaims([accounts |-> x, wallets |-> y, claims |-> z], w)
             = [accounts |-> x, wallets |-> y, claims |-> w]
BY DEF WithClaims

\* A redeemer's next claim is a new one, held by a new ticket at the address of its seeds.
LEMMA RedeemKeeps ==
    ASSUME TicketsInv, NEW v \in Vaults, NEW o \in Owners, NEW a \in DOMAIN accounts,
           NEW i \in Indexes, NEW r \in TokenAccounts, Redeem(v, o, i, r, a)
    PROVE  TicketsInv'
<1> DEFINE c == Len(claims) + 1
           t == WithdrawalTicket(v, o, r, i, c)
           claim == [vault |-> v, owner |-> o, recipient |-> r, ended |-> <<>>]
           d == shortfall(a)
           account == [lamports |-> accounts[a].lamports + d, owner |-> "roshi", data |-> t]
           held == [accounts EXCEPT ![a] = account]
           ws == [wallets EXCEPT ![o] = @ - d]
           cs == Append(claims, claim)
           u == [accounts |-> held, wallets |-> ws, claims |-> cs]
<1>1. /\ Kept(now) /\ now.accounts = accounts /\ now.wallets = wallets /\ now.claims = claims
      /\ accounts \in [TicketKeys \cup LookAlikes -> AccountRecord]
      /\ wallets \in [Owners -> Nat] /\ claims \in Seq(Claim)
  <2>1. Kept(now) /\ now.accounts = accounts /\ now.wallets = wallets /\ now.claims = claims
    BY DEF TicketsInv, now
  <2> QED
    BY <2>1 DEF Kept, Ledger
<1>2. /\ accounts[a].data = Empty /\ accounts[a].owner = "system" /\ d <= wallets[o]
      /\ a = <<v, o, i>> /\ UNCHANGED <<token_accounts, gifts>>
  BY DEF Redeem, redeem_loads, require_uninitialized_account, find_address
<1>3. a \in TicketKeys /\ a[2] = o
  BY <1>2 DEF TicketKeys
<1>4. accounts[a].lamports \in Nat /\ d \in Nat
  <2>1. accounts[a].lamports \in Nat
    BY <1>1, <1>3 DEF AccountRecord
  <2>2. Rent \in Nat
    BY TicketsAssumption
  <2>3. d \in {Rent - accounts[a].lamports, 0} /\ d >= 0
    <3> DEFINE S == {Rent - accounts[a].lamports, 0}
    <3>1. \E m \in S : \A y \in S : m >= y
      BY <2>1, <2>2
    <3>2. Max(S) \in S /\ \A y \in S : Max(S) >= y
      <4> HIDE DEF S
      <4> QED
        BY <3>1 DEF Max
    <3> QED
      BY <3>2 DEF shortfall
  <2> QED
    BY <2>1, <2>2, <2>3
<1>5. becomes(u)
  <2>1. t.owner = o
    BY DEF WithdrawalTicket
  <2>2. create_ticket(now, a, t) = [accounts |-> held, wallets |-> ws, claims |-> claims]
    <3>1. create_ticket(now, a, t) =
            [now EXCEPT !.accounts = [now.accounts EXCEPT ![a] =
                           [lamports |-> now.accounts[a].lamports + d, owner |-> "roshi", data |-> t]],
                        !.wallets = [now.wallets EXCEPT ![t.owner] = now.wallets[t.owner] - d]]
      <4> HIDE DEF t
      <4> QED
        BY DEF create_ticket
    <3>2. now = [accounts |-> accounts, wallets |-> wallets, claims |-> claims]
      BY DEF now
    <3> HIDE DEF t, d
    <3> QED
      BY <1>1, <2>1, <3>1, <3>2
  <2>3. becomes([create_ticket(now, a, t) EXCEPT !.claims = Append(@, claim)])
    BY DEF Redeem
  <2>4. [create_ticket(now, a, t) EXCEPT !.claims = Append(@, claim)] = u
    <3> DEFINE k == create_ticket(now, a, t)
    <3>1. k = [accounts |-> held, wallets |-> ws, claims |-> claims]
      BY <2>2
    <3> HIDE DEF k, held, ws, claim
    <3>2. k.claims = claims
      BY <3>1
    <3>3. Append(k.claims, claim) = cs
      BY <3>2
    <3> HIDE DEF cs
    <3>4. WithClaims(k, cs) = u
      BY <3>1, WithClaimsIs
    <3> QED
      BY <3>3, <3>4 DEF k, WithClaims
  <2> QED
    BY <2>3, <2>4
<1>6. c \in Nat /\ c \notin DOMAIN claims /\ Len(claims) \in Nat /\ DOMAIN claims = 1..Len(claims)
  BY <1>1
<1>7. t \in TicketRecord /\ account \in AccountRecord
  <2>1. t \in TicketRecord
    BY <1>6 DEF TicketRecord, WithdrawalTicket
  <2> HIDE DEF t, d
  <2> QED
    BY <1>4, <2>1 DEF AccountRecord
<1>8. /\ claim \in Claim /\ cs \in Seq(Claim) /\ DOMAIN cs = DOMAIN claims \cup {c}
      /\ cs[c] = claim /\ \A e \in DOMAIN claims : cs[e] = claims[e]
  <2>1. claim \in Claim
    BY DEF Claim
  <2> HIDE DEF claim
  <2> QED
    BY <1>1, <2>1, AppendProperties
<1>9. /\ t.vault = v /\ t.owner = o /\ t.ticket_index = i /\ t.recipient_token_account = r
      /\ t.claim = c
  BY DEF WithdrawalTicket
<1>10. ws \in [Owners -> Nat] /\ ws[o] = wallets[o] + (0 - d)
       /\ \A p \in Owners \ {o} : ws[p] = wallets[p]
  <2> HIDE DEF d
  <2> QED
    BY <1>1, <1>2, <1>4
<1>11. /\ held \in [TicketKeys \cup LookAlikes -> AccountRecord] /\ held[a] = account
       /\ \A b \in (TicketKeys \cup LookAlikes) \ {a} : held[b] = accounts[b]
  <2> HIDE DEF account
  <2> QED
    BY <1>1, <1>7
<1>12. account.lamports = accounts[a].lamports + d /\ account.owner = "roshi" /\ account.data = t
  OBVIOUS
<1> HIDE DEF t, claim, account, held, ws, cs, d, c
<1>13. u \in Ledger /\ u.accounts = held /\ u.wallets = ws /\ u.claims = cs
  BY <1>8, <1>10, <1>11, Zenon DEF Ledger
<1> HIDE DEF u
<1>14. Kept(u)
  <2>1. ASSUME NEW b \in TicketKeys PROVE held[b].owner # "other"
    BY <1>1, <1>11, <1>12 DEF Kept
  <2>2. ASSUME NEW b \in LookAlikes PROVE held[b].owner = "other"
    BY <1>1, <1>3, <1>11, TicketsAssumption DEF Kept
  <2>3. ASSUME NEW b \in TicketKeys \ {a}, Ticket(u, b)
        PROVE  /\ held[b] = accounts[b] /\ Ticket(now, b) /\ TicketOK(now, b)
               /\ held[b].data.claim \in DOMAIN claims
    <3>1. held[b] = accounts[b] /\ Ticket(now, b)
      BY <1>1, <1>11, <1>13, <2>3 DEF Ticket
    <3>2. TicketOK(now, b)
      BY <1>1, <3>1 DEF Kept
    <3> QED
      BY <1>1, <3>1, <3>2 DEF TicketOK
  <2>4. ASSUME NEW b \in TicketKeys, Ticket(u, b) PROVE TicketOK(u, b)
    <3>1. CASE b = a
      BY <1>2, <1>8, <1>9, <1>11, <1>12, <1>13, <3>1 DEF TicketOK, claim
    <3>2. CASE b # a
      <4>1. held[b] = accounts[b] /\ TicketOK(now, b) /\ held[b].data.claim \in DOMAIN claims
        BY <2>3, <2>4, <3>2
      <4>2. cs[held[b].data.claim] = claims[held[b].data.claim] /\ held[b].data.claim \in DOMAIN cs
        BY <1>8, <4>1
      <4> QED
        BY <1>1, <1>13, <4>1, <4>2 DEF TicketOK
    <3> QED
      BY <3>1, <3>2
  <2>5. ASSUME NEW b \in TicketKeys, NEW e \in TicketKeys, Ticket(u, b), Ticket(u, e),
               held[b].data.claim = held[e].data.claim
        PROVE  b = e
    <3>1. ASSUME NEW x \in TicketKeys, Ticket(u, x) PROVE x = a <=> held[x].data.claim = c
      BY <1>6, <1>9, <1>11, <1>12, <2>3, <3>1
    <3>2. CASE b # a /\ e # a
      BY <1>1, <2>3, <2>5, <3>2 DEF Kept
    <3> QED
      BY <2>5, <3>1, <3>2
  <2>6. ASSUME NEW e \in DOMAIN cs PROVE ClaimOK(u, e)
    <3>1. CASE e = c
      <4>1. cs[e].ended = <<>>
        BY <1>8, <3>1 DEF claim
      <4>2. Ticket(u, a) /\ u.accounts[a].data.claim = e
        BY <1>9, <1>11, <1>12, <1>13, <3>1 DEF Ticket
      <4> QED
        BY <1>3, <1>13, <4>1, <4>2 DEF ClaimOK
    <3>2. CASE e # c
      <4>1. cs[e] = claims[e] /\ ClaimOK(now, e)
        BY <1>1, <1>8, <2>6, <3>2 DEF Kept
      <4>2. ASSUME NEW b \in TicketKeys, Ticket(now, b)
            PROVE  Ticket(u, b) /\ u.accounts[b] = accounts[b]
        BY <1>1, <1>2, <1>11, <1>13, <4>2 DEF Ticket
      <4> QED
        BY <1>1, <1>13, <4>1, <4>2 DEF ClaimOK
    <3> QED
      BY <3>1, <3>2
  <2> QED
    BY <1>13, <2>1, <2>2, <2>4, <2>5, <2>6 DEF Kept
<1>15. \A p \in Owners : Worth(u, p) = Worth(now, p)
  <2>1. now \in Ledger /\ u \in Ledger
    BY <1>1, <1>13 DEF Kept
  <2> DEFINE e == 0 - d
  <2>2. /\ e \in Int /\ u.wallets[o] = now.wallets[o] + e
        /\ \A p \in Owners \ {o} : u.wallets[p] = now.wallets[p]
        /\ \A b \in TicketKeys \ {a} : u.accounts[b].lamports = now.accounts[b].lamports
    <3>1. e \in Int
      BY <1>4
    <3>2. u.wallets[o] = now.wallets[o] + e /\ \A p \in Owners \ {o} : u.wallets[p] = now.wallets[p]
      BY <1>1, <1>10, <1>13
    <3>3. \A b \in TicketKeys \ {a} : u.accounts[b].lamports = now.accounts[b].lamports
      BY <1>1, <1>11, <1>13
    <3> QED
      BY <3>1, <3>2, <3>3
  <2> HIDE DEF e
  <2>3. /\ Worth(u, o) = Worth(now, o) + (e + (u.accounts[a].lamports - now.accounts[a].lamports))
        /\ \A p \in Owners \ {o} : Worth(u, p) = Worth(now, p)
    BY <1>3, <2>1, <2>2, WorthChange
  <2>4. Worth(now, o) \in Nat
    BY <2>1, WorthNat
  <2>5. u.accounts[a].lamports = accounts[a].lamports + d /\ now.accounts[a].lamports = accounts[a].lamports
    BY <1>1, <1>11, <1>12, <1>13
  <2> QED
    BY <1>4, <2>3, <2>4, <2>5 DEF e
<1> QED
  BY <1>2, <1>5, <1>14, <1>15, LedgerNext

\* A gift adds to what the owner of the address has.
LEMMA GiftKeeps ==
    ASSUME TicketsInv, NEW a \in TicketKeys, Gift(a)
    PROVE  TicketsInv'
<1> DEFINE o == a[2]
           account == [accounts[a] EXCEPT !.lamports = @ + 1]
           held == [accounts EXCEPT ![a] = account]
           u == [accounts |-> held, wallets |-> wallets, claims |-> claims]
<1>1. /\ Kept(now) /\ now.accounts = accounts /\ now.wallets = wallets /\ now.claims = claims
      /\ accounts \in [TicketKeys \cup LookAlikes -> AccountRecord]
      /\ wallets \in [Owners -> Nat] /\ claims \in Seq(Claim)
  <2>1. Kept(now) /\ now.accounts = accounts /\ now.wallets = wallets /\ now.claims = claims
    BY DEF TicketsInv, now
  <2> QED
    BY <2>1 DEF Kept, Ledger
<1>2. /\ accounts' = held /\ wallets' = wallets /\ claims' = claims
      /\ token_accounts' = token_accounts /\ gifts' = [gifts EXCEPT ![o] = @ + 1]
      /\ \A p \in Owners : gifts[p] < MaxGifts
  BY DEF Gift
<1>3. o \in Owners /\ gifts \in [Owners -> 0..MaxGifts] /\ MaxGifts \in Nat
  BY KeyParts, TicketsAssumption DEF TicketsInv
<1>4. /\ account \in AccountRecord /\ account.owner = accounts[a].owner
      /\ account.data = accounts[a].data /\ account.lamports = accounts[a].lamports + 1
      /\ accounts[a].lamports \in Nat
  <2>1. accounts[a] \in AccountRecord
    BY <1>1
  <2> QED
    BY <2>1 DEF AccountRecord
<1> HIDE DEF account
<1>5. /\ held \in [TicketKeys \cup LookAlikes -> AccountRecord] /\ held[a] = account
      /\ \A b \in (TicketKeys \cup LookAlikes) \ {a} : held[b] = accounts[b]
  BY <1>1, <1>4
<1> HIDE DEF held
<1>6. u \in Ledger /\ u.accounts = held /\ u.wallets = wallets /\ u.claims = claims
  BY <1>1, <1>5, Zenon DEF Ledger
<1>7. now' = u
  BY <1>2 DEF now
<1> HIDE DEF u
<1>8. \A b \in TicketKeys \cup LookAlikes :
        u.accounts[b].owner = accounts[b].owner /\ u.accounts[b].data = accounts[b].data
  BY <1>4, <1>5, <1>6
<1>9. Kept(u)
  <2>1. \A b \in TicketKeys : Ticket(u, b) <=> Ticket(now, b)
    BY <1>1, <1>8 DEF Ticket
  <2>2. ASSUME NEW b \in TicketKeys, Ticket(u, b) PROVE TicketOK(u, b)
    <3>1. TicketOK(now, b)
      BY <1>1, <2>1, <2>2 DEF Kept
    <3> QED
      BY <1>1, <1>6, <1>8, <3>1 DEF TicketOK
  <2>3. ASSUME NEW c \in DOMAIN u.claims PROVE ClaimOK(u, c)
    <3>1. ClaimOK(now, c)
      BY <1>1, <1>6, <2>3 DEF Kept
    <3> QED
      BY <1>1, <1>6, <1>8, <2>1, <3>1 DEF ClaimOK
  <2>4. \A b \in TicketKeys : u.accounts[b].owner # "other"
    BY <1>1, <1>8 DEF Kept
  <2>5. \A b \in LookAlikes : u.accounts[b].owner = "other"
    BY <1>1, <1>8 DEF Kept
  <2>6. ASSUME NEW b \in TicketKeys, NEW e \in TicketKeys, Ticket(u, b), Ticket(u, e),
               u.accounts[b].data.claim = u.accounts[e].data.claim
        PROVE  b = e
    BY <1>1, <1>8, <2>1, <2>6 DEF Kept
  <2> QED
    BY <1>6, <2>2, <2>3, <2>4, <2>5, <2>6 DEF Kept
<1>10. \A p \in Owners : Worth(u, p) = Funds + gifts'[p]
  <2>1. now \in Ledger /\ u \in Ledger
    BY <1>1, <1>6 DEF Kept
  <2>2. /\ 0 \in Int /\ u.wallets[o] = now.wallets[o] + 0
        /\ \A p \in Owners \ {o} : u.wallets[p] = now.wallets[p]
    <3>1. wallets[o] \in Nat
      BY <1>1, <1>3
    <3> QED
      BY <1>1, <1>6, <3>1
  <2>3. \A b \in TicketKeys \ {a} : u.accounts[b].lamports = now.accounts[b].lamports
    BY <1>1, <1>5, <1>6
  <2>4. a[2] = o
    OBVIOUS
  <2> HIDE DEF o
  <2>5. /\ Worth(u, o) = Worth(now, o) + (0 + (u.accounts[a].lamports - now.accounts[a].lamports))
        /\ \A p \in Owners \ {o} : Worth(u, p) = Worth(now, p)
    BY <1>3, <2>1, <2>2, <2>3, <2>4, WorthChange
  <2>6. u.accounts[a].lamports - now.accounts[a].lamports = 1
    BY <1>1, <1>4, <1>5, <1>6
  <2>7. Worth(u, o) = Worth(now, o) + 1 /\ Worth(now, o) \in Nat
    BY <1>3, <2>1, <2>5, <2>6, WorthNat
  <2>8. \A p \in Owners : Worth(now, p) = Funds + gifts[p]
    BY DEF TicketsInv
  <2>9. Funds \in Nat /\ \A p \in Owners : gifts[p] \in Nat
    BY <1>3, TicketsAssumption
  <2> QED
    BY <1>2, <1>3, <2>5, <2>7, <2>8, <2>9
<1>11. gifts' \in [Owners -> 0..MaxGifts]
  <2> HIDE DEF o
  <2> QED
    BY <1>2, <1>3
<1>12. Kept(now)'
  BY <1>7, <1>9
<1>13. (\A p \in Owners : Worth(now, p) = Funds + gifts[p])'
  BY <1>7, <1>10
<1> QED
  BY <1>2, <1>11, <1>12, <1>13 DEF TicketsInv

\* Recipients may close and reopen.
LEMMA ReopenKeeps ==
    ASSUME TicketsInv, NEW r \in TokenAccounts, NEW mint \in Mints \cup {Closed}, Reopen(r, mint)
    PROVE  TicketsInv'
<1>1. now' = now /\ gifts' = gifts
  BY DEF Reopen, now
<1>2. token_accounts' \in [TokenAccounts -> Mints \cup {Closed}]
  BY DEF Reopen, TicketsInv
<1>3. Kept(now)'
  BY <1>1 DEF TicketsInv
<1>4. (\A o \in Owners : Worth(now, o) = Funds + gifts[o])'
  BY <1>1 DEF TicketsInv
<1> QED
  BY <1>1, <1>2, <1>3, <1>4 DEF TicketsInv

\* At first there is nothing at any ticket's address.
LEMMA InitTickets == Init => TicketsInv
<1> SUFFICES ASSUME Init PROVE TicketsInv
  OBVIOUS
<1>1. /\ DOMAIN accounts = TicketKeys \cup LookAlikes
      /\ accounts = [a \in TicketKeys \cup LookAlikes |->
                       IF a \in TicketKeys THEN Nothing ELSE LookAlike(a[2])]
      /\ wallets = [o \in Owners |-> Funds] /\ claims = <<>> /\ gifts = [o \in Owners |-> 0]
  BY DEF Init
<1>2. \A a \in TicketKeys : accounts[a] = Nothing
  BY <1>1
<1>3. \A a \in LookAlikes : accounts[a] = LookAlike(a[2])
  BY <1>1, TicketsAssumption
<1>4. Nothing \in AccountRecord /\ Nothing.owner = "system" /\ Nothing.lamports = 0
  BY DEF Nothing, AccountRecord
<1>5. ASSUME NEW a \in LookAlikes
      PROVE  LookAlike(a[2]) \in AccountRecord /\ LookAlike(a[2]).owner = "other"
  <2> DEFINE o == CHOOSE x \in Owners : TRUE
             r == CHOOSE x \in TokenAccounts : TRUE
             i == CHOOSE x \in Indexes : TRUE
  <2>1. o \in Owners /\ r \in TokenAccounts /\ i \in Indexes /\ Rent \in Nat /\ a[2] \in Vaults
    BY TicketsAssumption
  <2>2. LookAlike(a[2]) = [lamports |-> Rent, owner |-> "other",
                           data |-> WithdrawalTicket(a[2], o, r, i, 1)]
    BY DEF LookAlike
  <2> HIDE DEF o, r, i
  <2>3. WithdrawalTicket(a[2], o, r, i, 1) \in TicketRecord
    BY <2>1 DEF WithdrawalTicket, TicketRecord
  <2> QED
    BY <2>1, <2>2, <2>3 DEF AccountRecord
<1>6. accounts \in [TicketKeys \cup LookAlikes -> AccountRecord]
  <2>1. \A a \in TicketKeys \cup LookAlikes : accounts[a] \in AccountRecord
    BY <1>2, <1>3, <1>4, <1>5
  <2> DEFINE f(a) == IF a \in TicketKeys THEN Nothing ELSE LookAlike(a[2])
  <2>2. accounts = [a \in TicketKeys \cup LookAlikes |-> f(a)]
    BY <1>1
  <2> HIDE DEF f
  <2> QED
    BY <2>1, <2>2
<1>7. wallets \in [Owners -> Nat] /\ claims \in Seq(Claim)
      /\ gifts \in [Owners -> 0..MaxGifts]
  BY <1>1, TicketsAssumption
<1>8. now \in Ledger /\ now.accounts = accounts /\ now.wallets = wallets /\ now.claims = claims
  BY <1>6, <1>7, Zenon DEF now, Ledger
<1>9. Kept(now)
  <2>1. \A a \in TicketKeys : ~Ticket(now, a) /\ now.accounts[a].owner # "other"
    BY <1>2, <1>4, <1>8 DEF Ticket
  <2>2. \A a \in LookAlikes : now.accounts[a].owner = "other"
    BY <1>3, <1>5, <1>8
  <2>3. DOMAIN now.claims = {}
    BY <1>1, <1>8
  <2> QED
    BY <1>8, <2>1, <2>2, <2>3 DEF Kept
<1>10. ASSUME NEW o \in Owners PROVE Worth(now, o) = Funds + gifts[o]
  <2> DEFINE f == [a \in TicketKeys |-> accounts[a].lamports]
  <2>1. IsFiniteSet(KeysOf(o)) /\ \A a \in KeysOf(o) : f[a] = 0
    BY <1>2, <1>4, KeysFinite DEF KeysOf
  <2>2. Worth(now, o) = wallets[o] + SumFunctionOnSet(f, KeysOf(o))
    BY <1>8 DEF Worth
  <2> HIDE DEF f
  <2>3. SumFunctionOnSet(f, KeysOf(o)) = 0
    BY <2>1, SumZero
  <2> QED
    BY <1>1, <2>2, <2>3
<1>11. token_accounts \in [TokenAccounts -> Mints \cup {Closed}]
  <2> DEFINE v == CHOOSE x \in Vaults : TRUE
  <2>1. v \in Vaults
    BY TicketsAssumption
  <2>2. token_accounts = [r \in TokenAccounts |-> BaseMint[v]]
    BY DEF Init
  <2> HIDE DEF v
  <2> QED
    BY <2>1, <2>2, TicketsAssumption
<1> QED
  BY <1>7, <1>9, <1>10, <1>11 DEF TicketsInv

\* Every step keeps it.
LEMMA NextTickets == TicketsInv /\ [Next]_vars => TicketsInv'
<1> SUFFICES ASSUME TicketsInv, [Next]_vars PROVE TicketsInv'
  OBVIOUS
<1>1. CASE Redeemers
  BY <1>1, RedeemKeeps, CancelKeeps DEF Redeemers
<1>2. CASE WithdrawalAuthorities
  BY <1>2, ProcessKeeps DEF WithdrawalAuthorities
<1>3. CASE Outsiders
  BY <1>3, GiftKeeps, ReopenKeeps DEF Outsiders
<1>4. CASE UNCHANGED vars
  <2>1. now' = now /\ gifts' = gifts /\ token_accounts' = token_accounts
    BY <1>4 DEF vars, now
  <2>2. Kept(now)'
    BY <2>1 DEF TicketsInv
  <2>3. (\A o \in Owners : Worth(now, o) = Funds + gifts[o])'
    BY <2>1 DEF TicketsInv
  <2> QED
    BY <2>1, <2>2, <2>3 DEF TicketsInv
<1> QED
  BY <1>1, <1>2, <1>3, <1>4 DEF Next

\* So it is an invariant.
LEMMA TicketsInductive == Spec => []TicketsInv
BY InitTickets, NextTickets, PTL DEF Spec

-----------------------------------------------------------------------------
(* What redeemers rely on, for every instance.                               *)

\* The invariant in terms of the variables.
LEMMA InvFacts ==
    ASSUME TicketsInv
    PROVE  /\ now \in Ledger /\ now.accounts = accounts /\ now.wallets = wallets /\ now.claims = claims
           /\ accounts \in [TicketKeys \cup LookAlikes -> AccountRecord]
           /\ wallets \in [Owners -> Nat] /\ claims \in Seq(Claim)
           /\ \A a \in TicketKeys : load_as_ticket(a) <=> Ticket(now, a)
           /\ \A a \in LookAlikes : ~load_as_ticket(a)
           /\ \A a \in TicketKeys : ~load_as_ticket(a) =>
                accounts[a].owner = "system" /\ accounts[a].data = Empty
<1>1. now \in Ledger /\ now.accounts = accounts /\ now.wallets = wallets /\ now.claims = claims
  <2>1. now \in Ledger
    BY DEF TicketsInv, Kept
  <2> QED
    BY <2>1 DEF now
<1>2. /\ accounts \in [TicketKeys \cup LookAlikes -> AccountRecord]
      /\ wallets \in [Owners -> Nat] /\ claims \in Seq(Claim)
  BY <1>1 DEF Ledger
<1>3. /\ \A a \in TicketKeys : accounts[a].owner # "other"
      /\ \A a \in LookAlikes : accounts[a].owner = "other"
  BY <1>1 DEF TicketsInv, Kept
<1>4. ASSUME NEW a \in TicketKeys
      PROVE  /\ load_as_ticket(a) <=> Ticket(now, a)
             /\ ~load_as_ticket(a) => accounts[a].owner = "system" /\ accounts[a].data = Empty
  <2>1. accounts[a] \in AccountRecord /\ accounts[a].owner # "other"
    BY <1>2, <1>3
  <2> QED
    BY <1>1, <2>1 DEF load_as_ticket, Ticket, AccountRecord, TicketRecord
<1>5. ASSUME NEW a \in LookAlikes PROVE ~load_as_ticket(a)
  BY <1>3 DEF load_as_ticket
<1> QED
  BY <1>1, <1>2, <1>4, <1>5

(***************************************************************************)
(* For any vaults, owners, indexes and outside accounts: a ticket's        *)
(* address holds a ticket of the program or nothing, and no wallet holds   *)
(* more than it came with and was given (create_ticket, close_account).    *)
(***************************************************************************)
THEOREM TicketsKeepTheirTypes == Spec => []TicketsTypeOK
<1>1. TicketsInv => TicketsTypeOK
  <2> SUFFICES ASSUME TicketsInv PROVE TicketsTypeOK
    OBVIOUS
  <2>1. DOMAIN accounts = TicketKeys \cup LookAlikes
    BY InvFacts
  <2>2. ASSUME NEW a \in TicketKeys
        PROVE  /\ accounts[a].owner \in {"system", "roshi"}
               /\ accounts[a].owner = "roshi" <=> accounts[a].data.type = "WithdrawalTicket"
    <3>1. accounts[a] \in AccountRecord
      BY InvFacts
    <3>2. accounts[a].owner # "other"
      BY InvFacts DEF TicketsInv, Kept
    <3> QED
      BY <3>1, <3>2 DEF AccountRecord, TicketRecord, Empty
  <2>3. wallets \in [Owners -> 0..(Funds + MaxGifts)]
    <3>1. ASSUME NEW o \in Owners PROVE wallets[o] \in 0..(Funds + MaxGifts)
      <4>1. now \in Ledger /\ now.wallets = wallets /\ wallets[o] \in Nat
        BY InvFacts
      <4>2. now.wallets[o] <= Worth(now, o)
        BY <4>1, WorthNat
      <4>3. Worth(now, o) = Funds + gifts[o] /\ gifts[o] \in 0..MaxGifts
        BY DEF TicketsInv
      <4>4. Funds \in Nat /\ MaxGifts \in Nat
        BY TicketsAssumption
      <4> QED
        BY <4>1, <4>2, <4>3, <4>4
    <3>2. wallets \in [Owners -> Nat]
      BY InvFacts
    <3> QED
      BY <3>1, <3>2
  <2>4. token_accounts \in [TokenAccounts -> Mints \cup {Closed}]
    BY DEF TicketsInv
  <2> QED
    BY <2>1, <2>2, <2>3, <2>4 DEF TicketsTypeOK
<1> QED
  BY <1>1, TicketsInductive, PTL

(***************************************************************************)
(* For batches of any length and any mixture of vaults, owners, recipients *)
(* and look-alikes: burned shares are honoured exactly once, and to whom   *)
(* the redemption named (ProcessWithdrawalsContext::load,                  *)
(* CancelRedeemContext::load).                                             *)
(***************************************************************************)
THEOREM EveryClaimIsHonouredOnce == Spec => []ClaimsAreHonouredOnce
<1>1. TicketsInv => ClaimsAreHonouredOnce
  <2> SUFFICES ASSUME TicketsInv, NEW c \in DOMAIN claims
               PROVE  LET claim == claims[c]
                          holding == {a \in DOMAIN accounts :
                                        load_as_ticket(a) /\ accounts[a].data.claim = c}
                      IN  /\ Cardinality(holding) + Len(claim.ended) = 1
                          /\ ToSet(claim.ended) \subseteq
                               {<<"paid", claim.vault, claim.recipient, BaseMint[claim.vault]>>,
                                <<"reminted", claim.vault, claim.owner>>}
    BY DEF ClaimsAreHonouredOnce
  <2> DEFINE claim == claims[c]
             holding == {a \in DOMAIN accounts : load_as_ticket(a) /\ accounts[a].data.claim = c}
             ways == {<<"paid", claim.vault, claim.recipient, BaseMint[claim.vault]>>,
                      <<"reminted", claim.vault, claim.owner>>}
  <2>1. ways = Outcomes(claim)
    BY DEF Outcomes, Paid, Reminted
  <2>2. \A a \in holding : a \in TicketKeys /\ Ticket(now, a) /\ now.accounts[a].data.claim = c
    BY InvFacts
  <2>3. \A a \in TicketKeys : Ticket(now, a) /\ now.accounts[a].data.claim = c => a \in holding
    BY InvFacts
  <2>4. ClaimOK(now, c) /\ now.claims = claims
    BY InvFacts DEF TicketsInv, Kept
  <2>5. \A a \in holding : claim.ended = <<>>
    <3> TAKE a \in holding
    <3>1. TicketOK(now, a) /\ now.accounts[a].data.claim = c
      BY <2>2 DEF TicketsInv, Kept
    <3> HIDE DEF holding
    <3>2. now.claims[c].ended = <<>>
      BY <3>1 DEF TicketOK
    <3> QED
      BY <2>4, <3>2
  <2> HIDE DEF holding, ways
  <2>6. CASE claim.ended = <<>>
    <3>1. PICK a \in TicketKeys : Ticket(now, a) /\ now.accounts[a].data.claim = c
      <4>1. \A h : <<h>> # <<>>
        OBVIOUS
      <4> QED
        BY <2>4, <2>6, <4>1 DEF ClaimOK
    <3>2. holding = {a}
      <4>1. ASSUME NEW b \in holding PROVE b = a
        BY <2>2, <3>1 DEF TicketsInv, Kept
      <4> QED
        BY <2>3, <3>1, <4>1
    <3>3. Cardinality(holding) = 1
      BY <3>2, FS_Singleton
    <3>4. Len(claim.ended) = 0 /\ ToSet(claim.ended) = {}
      BY <2>6 DEF ToSet
    <3> QED
      BY <3>3, <3>4 DEF ways, holding
  <2>7. CASE claim.ended # <<>>
    <3>1. PICK h \in Outcomes(claim) : claim.ended = <<h>>
      BY <2>4, <2>7 DEF ClaimOK
    <3>2. holding = {}
      BY <2>5, <2>7
    <3>3. Cardinality(holding) = 0
      BY <3>2, FS_EmptySet
    <3>4. Len(claim.ended) = 1 /\ ToSet(claim.ended) = {h}
      BY <3>1 DEF ToSet
    <3>5. ToSet(claim.ended) \subseteq ways
      BY <2>1, <3>1, <3>4
    <3> QED
      BY <3>3, <3>4, <3>5 DEF ways, holding
  <2> QED
    BY <2>6, <2>7
<1> QED
  BY <1>1, TicketsInductive, PTL

(***************************************************************************)
(* For any rent, wallets and gifts: what an owner put into tickets and     *)
(* others sent there is at their addresses or back in its wallet           *)
(* (create_ticket, close_account).                                         *)
(***************************************************************************)
THEOREM RentAlwaysComesBack == Spec => []RentComesBack
<1>1. TicketsInv => RentComesBack
  <2> SUFFICES ASSUME TicketsInv, NEW o \in Owners
               PROVE  wallets[o] + SumFunctionOnSet([a \in TicketKeys |-> accounts[a].lamports],
                                                    {a \in TicketKeys : a[2] = o})
                        = Funds + gifts[o]
    BY DEF RentComesBack
  <2>1. Worth(now, o) = Funds + gifts[o]
    BY DEF TicketsInv
  <2>2. Worth(now, o) = now.wallets[o]
          + SumFunctionOnSet([a \in TicketKeys |-> now.accounts[a].lamports],
                             {a \in TicketKeys : a[2] = o})
    BY DEF Worth, KeysOf
  <2>3. now.wallets = wallets /\ now.accounts = accounts
    BY DEF now
  <2> QED
    BY <2>1, <2>2, <2>3
<1> QED
  BY <1>1, TicketsInductive, PTL

(***************************************************************************)
(* Whatever others opened, sent or left unpayable: a free index can be     *)
(* opened, and a ticket whose recipient takes the base mint can be settled *)
(* (WithdrawalTicket::find_address, require_uninitialized_account).        *)
(***************************************************************************)
THEOREM TicketsLockNobodyOut == Spec => []NobodyIsLockedOut
<1>1. TicketsInv => NobodyIsLockedOut
  <2> SUFFICES ASSUME TicketsInv, NEW v \in Vaults, NEW o \in Owners, NEW i \in Indexes,
                      NEW r \in TokenAccounts, token_accounts[r] = BaseMint[v]
               PROVE  LET held == {a \in TicketKeys : load_as_ticket(a) /\ accounts[a].data.vault = v
                                     /\ accounts[a].data.owner = o /\ accounts[a].data.ticket_index = i}
                      IN  IF held = {} THEN \E a \in TicketKeys : redeem_loads(v, o, i, r, a)
                          ELSE \A a \in held : accounts[a].data.recipient_token_account = r =>
                                 settlement_loads(v, [ticket |-> a, owner |-> o, destination |-> r])
    BY DEF NobodyIsLockedOut
  <2> DEFINE held == {a \in TicketKeys : load_as_ticket(a) /\ accounts[a].data.vault = v
                        /\ accounts[a].data.owner = o /\ accounts[a].data.ticket_index = i}
  <2>1. ASSUME NEW a \in TicketKeys, load_as_ticket(a)
        PROVE  a = <<accounts[a].data.vault, accounts[a].data.owner, accounts[a].data.ticket_index>>
    BY <2>1, InvFacts DEF TicketsInv, Kept, TicketOK
  <2>2. ASSUME held = {} PROVE \E a \in TicketKeys : redeem_loads(v, o, i, r, a)
    <3> DEFINE a == <<v, o, i>>
    <3>1. a \in TicketKeys /\ a[1] = v /\ a[2] = o /\ a[3] = i
      BY DEF TicketKeys
    <3> HIDE DEF a
    <3>2. ~load_as_ticket(a)
      <4> SUFFICES ASSUME load_as_ticket(a) PROVE FALSE
        OBVIOUS
      <4>1. a = <<accounts[a].data.vault, accounts[a].data.owner, accounts[a].data.ticket_index>>
        BY <2>1, <3>1
      <4>2. accounts[a].data.vault = v /\ accounts[a].data.owner = o /\ accounts[a].data.ticket_index = i
        BY <3>1, <4>1
      <4> QED
        BY <2>2, <3>1, <4>2
    <3>3. accounts[a].owner = "system" /\ accounts[a].data = Empty
      BY <3>1, <3>2, InvFacts
    <3>4. redeem_loads(v, o, i, r, a)
      BY <3>3 DEF redeem_loads, require_uninitialized_account, verify_token_account_mint,
         find_address, a
    <3> QED
      BY <3>1, <3>4
  <2>3. ASSUME NEW a \in held, accounts[a].data.recipient_token_account = r
        PROVE  settlement_loads(v, [ticket |-> a, owner |-> o, destination |-> r])
    BY <2>1, <2>3 DEF settlement_loads, verify_token_account_mint, find_address
  <2> QED
    BY <2>2, <2>3
<1> QED
  BY <1>1, TicketsInductive, PTL
=============================================================================
