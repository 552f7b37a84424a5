----------------------------- MODULE MCTickets -----------------------------
(* A small instance of module Tickets for TLC.                               *)
EXTENDS Tickets, TLC

CONSTANTS v1, v2, usd, eur

MCBaseMint == [v \in {v1, v2} |-> usd]
MCLookAlikes == {<<"keypair", v1>>}
=============================================================================
