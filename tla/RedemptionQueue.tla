-------------------------- MODULE RedemptionQueue --------------------------
(***************************************************************************)
(* What redemption promises a holder, and no more.  Shares are held or     *)
(* queued.  Queued shares come back whole when their owner cancels, or     *)
(* leave when their ticket is paid, which no report published before the   *)
(* request can bring about.  Nobody else touches them.                     *)
(***************************************************************************)
EXTENDS Naturals

CONSTANTS Users, TicketIndexes

VARIABLES
    held,      \* shares in each user's wallet
    queued,    \* shares in each ticket, 0 when there is none
    asked,     \* the epoch of the ticket's request
    epoch      \* NAV reports so far

vars == <<held, queued, asked, epoch>>
TicketKeys == Users \X TicketIndexes

Init ==
    /\ held = [u \in Users |-> 0]
    /\ queued = [k \in TicketKeys |-> 0]
    /\ asked = [k \in TicketKeys |-> 0]
    /\ epoch = 0

Deposit(u) ==
    /\ held'[u] > held[u] /\ held' = [held EXCEPT ![u] = held'[u]]
    /\ UNCHANGED <<queued, asked, epoch>>

\* Redeemed at once.
Leave(u) ==
    /\ held'[u] < held[u] /\ held' = [held EXCEPT ![u] = held'[u]]
    /\ UNCHANGED <<queued, asked, epoch>>

Request(k) ==
    /\ queued[k] = 0
    /\ \E n \in 1..held[k[1]] :
         /\ held' = [held EXCEPT ![k[1]] = @ - n]
         /\ queued' = [queued EXCEPT ![k] = n]
    /\ asked' = [asked EXCEPT ![k] = epoch]
    /\ UNCHANGED epoch

Cancel(k) ==
    /\ queued[k] > 0
    /\ held' = [held EXCEPT ![k[1]] = @ + queued[k]]
    /\ queued' = [queued EXCEPT ![k] = 0]
    /\ asked' = [asked EXCEPT ![k] = 0]
    /\ UNCHANGED epoch

\* Tickets are paid together, each after a report it could not have seen.
Pay(paid) ==
    /\ \A k \in paid : queued[k] > 0 /\ asked[k] < epoch
    /\ queued' = [k \in TicketKeys |-> IF k \in paid THEN 0 ELSE queued[k]]
    /\ asked' = [k \in TicketKeys |-> IF k \in paid THEN 0 ELSE asked[k]]
    /\ UNCHANGED <<held, epoch>>

Report == epoch' = epoch + 1 /\ UNCHANGED <<held, queued, asked>>

Next ==
    \/ \E u \in Users : Deposit(u) \/ Leave(u)
    \/ \E k \in TicketKeys : Request(k) \/ Cancel(k)
    \/ \E paid \in SUBSET TicketKeys : Pay(paid)
    \/ Report

Spec == Init /\ [][Next]_vars
=============================================================================
