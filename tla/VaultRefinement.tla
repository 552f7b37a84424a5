-------------------------- MODULE VaultRefinement --------------------------
(* The vault implements the redemption queue its users are promised.         *)
EXTENDS Vault

Queue == INSTANCE RedemptionQueue WITH
    held   <- shares,
    queued <- [k \in TicketKeys |-> tickets[k].shares_burned],
    asked  <- [k \in TicketKeys |-> tickets[k].request_epoch],
    epoch  <- vault.report_epoch

(***************************************************************************)
(* Every instruction is a step of the queue or none: batches, grace        *)
(* escapes, reused ticket indexes and reports interleave without a share   *)
(* coming back to the wrong wallet, twice or partly, and without a ticket  *)
(* paid at a report its owner had seen (try_redeem, try_cancel_redeem,     *)
(* try_process_withdrawals).                                               *)
(***************************************************************************)
ImplementsQueue == Queue!Spec
=============================================================================
