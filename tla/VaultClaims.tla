---------------------------- MODULE VaultClaims ----------------------------
(***************************************************************************)
(* What comments and docs of the repository say of the vault and its code  *)
(* does not do.  Each run of one of these ends in a counterexample.        *)
(***************************************************************************)
EXTENDS VaultProperties

(***************************************************************************)
(* A strike-eligible unstruck ticket is cancellable once the cancel grace  *)
(* has elapsed (VaultControls::cancel_grace_slots).  try_cancel_redeem     *)
(* also asks for REDEEM_CANCEL_DELAY_SLOTS, so a shorter grace does not    *)
(* open the escape.                                                        *)
(***************************************************************************)
EscapeOpensAtGrace ==
    \A k \in TicketKeys :
        Open(k) /\ strike_eligible(tickets[k]) /\ grace_elapsed(tickets[k])
            => cancellable(tickets[k])

(***************************************************************************)
(* A gain unlocks over the span it was earned in, the unfinished drip of   *)
(* the previous window included (Vault::apply_reported_nav): a report that *)
(* brings no new value does not make locked profit reach the share price   *)
(* any sooner.  The code unlocks the rolled remainder over the time since  *)
(* the previous report, however short.                                     *)
(***************************************************************************)
RolledDripKeepsItsSpan ==
    [][IsReport /\ config.max_unlock_duration_secs > 0
                /\ vault'.total_assets <= vault.total_assets
         => \A t \in now..MaxTs :
              effective_total_assets(vault', t) <= effective_total_assets(vault, t)]_vars

(***************************************************************************)
(* External returns are pinned to the sub-accounts whose base ATAs         *)
(* report_nav reads, so the idle read covers all base in the current       *)
(* custodies (Vault::verify_idle_sub_account).  The handlers check a       *)
(* custody account's mint and owner only, so base can come back to an      *)
(* account of the right sub-account that is not its ATA.                   *)
(***************************************************************************)
IdleReadCoversCustody ==
    idle_base = SumFunctionOnSet(custody,
                    CustodiesOf(config.deposit_sub_account)
                      \cup CustodiesOf(config.withdraw_sub_account))
=============================================================================
