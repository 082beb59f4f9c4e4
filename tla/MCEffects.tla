----------------------------- MODULE MCEffects -----------------------------
(***************************************************************************)
(* A small instance of EffectBoundary: one actor, whose two-step intents,   *)
(* one-shot effects and delegated acts compete for the same grants.  The    *)
(* intents give each reason to refuse on its own, and salama flags with and *)
(* without a grant.  The delegation is for another scope than the founder's *)
(* grants, so an act under it may be paid for by either or be refused.      *)
(***************************************************************************)
EXTENDS EffectBoundary, TLC

CONSTANTS alice, work, play, core, noScope, c1, op, s1, unset, uncapped

Durable ==
  [ring |-> "local-write", claim |-> "moga", scope |-> work, requiresAuthorization |-> TRUE,
   humanClearance |-> FALSE, triggerSalama |-> FALSE, clearSalama |-> FALSE]
SelfModify == [Durable EXCEPT !.ring = "self-modify"]

MCRequest ==
  {Durable, SelfModify, [SelfModify EXCEPT !.humanClearance = TRUE],
   [Durable EXCEPT !.scope = core, !.humanClearance = TRUE],
   [Durable EXCEPT !.triggerSalama = TRUE], [Durable EXCEPT !.clearSalama = TRUE],
   [Durable EXCEPT !.triggerSalama = TRUE, !.requiresAuthorization = FALSE]}
MCOffer ==
  {[actor |-> alice, ring |-> "self-modify", scope |-> work, ttl |-> 9, maxUses |-> uncapped],
   [actor |-> alice, ring |-> "local-write", scope |-> work, ttl |-> -9, maxUses |-> 0]}
MCDelegation == {[silicon |-> alice, ring |-> "local-write", scope |-> play]}
MCManifest == {[subject |-> alice, scope |-> work]}

=============================================================================
