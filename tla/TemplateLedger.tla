--------------------------- MODULE TemplateLedger ---------------------------
(***************************************************************************)
(* What the templates of a service type promise to those who change them   *)
(* and to those who generate from them: each template is added, changed    *)
(* and deleted in one step, always to a sequence that is free at that      *)
(* moment, and a generation copies what one look at the templates showed,  *)
(* if they are all still there.                                            *)
(***************************************************************************)
CONSTANTS Template, Sequence, Engagement,
          Unborn, Gone

VARIABLES
  sequence,     \* of each template; Unborn, Gone
  copied,       \* of each engagement: the sequence copied from each template
  referenced,   \* <<engagement, template>> of the tasks that know their template
  snapshot      \* of each engagement: what a generation for it has seen

state == <<sequence, copied, referenced, snapshot>>

NoCopies == [t \in {} |-> 0]

Rows == {t \in Template : sequence[t] \notin {Unborn, Gone}}

FreeFor(t, q) == \A u \in Rows \ {t} : sequence[u] # q

Init ==
  /\ sequence = [t \in Template |-> Unborn]
  /\ copied = [g \in Engagement |-> NoCopies]
  /\ referenced = {}
  /\ snapshot = [g \in Engagement |-> NoCopies]

(* add_task_template *)
Add(t, q) ==
  /\ sequence[t] = Unborn
  /\ FreeFor(t, q)
  /\ sequence' = [sequence EXCEPT ![t] = q]
  /\ UNCHANGED <<copied, referenced, snapshot>>

(* update_task_template *)
Change(t, q) ==
  /\ t \in Rows
  /\ FreeFor(t, q)
  /\ sequence' = [sequence EXCEPT ![t] = q]
  /\ UNCHANGED <<copied, referenced, snapshot>>

(* delete_task_template: the tasks stay and no longer know their template. *)
Delete(t) ==
  /\ t \in Rows
  /\ sequence' = [sequence EXCEPT ![t] = Gone]
  /\ referenced' = {r \in referenced : r[2] # t}
  /\ UNCHANGED <<copied, snapshot>>

(* generate_tasks_for_engagement, which copies once or gives up. *)
Look(g) ==
  /\ copied[g] = NoCopies /\ snapshot[g] = NoCopies
  /\ Rows # {}
  /\ snapshot' = [snapshot EXCEPT ![g] = [t \in Rows |-> sequence[t]]]
  /\ UNCHANGED <<sequence, copied, referenced>>

Copy(g) ==
  /\ snapshot[g] # NoCopies
  /\ DOMAIN snapshot[g] \subseteq Rows
  /\ copied' = [copied EXCEPT ![g] = snapshot[g]]
  /\ referenced' = referenced \cup ({g} \X DOMAIN snapshot[g])
  /\ snapshot' = [snapshot EXCEPT ![g] = NoCopies]
  /\ UNCHANGED sequence

GiveUp(g) ==
  /\ snapshot[g] # NoCopies
  /\ snapshot' = [snapshot EXCEPT ![g] = NoCopies]
  /\ UNCHANGED <<sequence, copied, referenced>>

Next ==
  \/ \E t \in Template, q \in Sequence : Add(t, q) \/ Change(t, q)
  \/ \E t \in Template : Delete(t)
  \/ \E g \in Engagement : Look(g) \/ Copy(g) \/ GiveUp(g)

Spec == Init /\ [][Next]_state
=============================================================================
