---------------------------- MODULE PeriodLedger ----------------------------
(***************************************************************************)
(* What engagement_unique_period promises to everyone who creates, deletes *)
(* and restores engagements of a series: for each series and period there  *)
(* is one slot, held by at most one live engagement, and every committed   *)
(* change fills one free slot, frees one, or sets one's auto_renew.        *)
(***************************************************************************)
CONSTANTS Series,   \* client and service type
          Period    \* period_start

VARIABLE slot       \* "free", or the auto_renew of the engagement that holds it

SlotState == {"free", "renewing", "ending"}

Init == slot \in [Series \X Period -> SlotState]

(* create_engagement, create_next_period, restore_engagement *)
Fill(s, p, state) ==
  /\ slot[<<s, p>>] = "free"
  /\ slot' = [slot EXCEPT ![<<s, p>>] = state]

(* soft_delete_engagement *)
Free(s, p) ==
  /\ slot[<<s, p>>] # "free"
  /\ slot' = [slot EXCEPT ![<<s, p>>] = "free"]

(* set_auto_renew, update_engagement *)
SetRenewal(s, p, state) ==
  /\ slot[<<s, p>>] # "free"
  /\ slot' = [slot EXCEPT ![<<s, p>>] = state]

Next ==
  \E s \in Series, p \in Period :
    \/ \E state \in {"renewing", "ending"} : Fill(s, p, state) \/ SetRenewal(s, p, state)
    \/ Free(s, p)

Spec == Init /\ [][Next]_slot
=============================================================================
