------------------------- MODULE GenerationHistory -------------------------
(***************************************************************************)
(* GenerationService with what no transaction keeps: the templates that a  *)
(* series has had since the engagement being created was inserted.         *)
(***************************************************************************)
EXTENDS GenerationService

VARIABLE seen   \* of each process: every value of its series' templates since its INSERT

historyVars == <<vars, seen>>

Inserted(p) ==
  work[p].kind \in {"next", "create"} /\ work[p].phase \in {"templates", "commit"}

HistoryInit == Init /\ seen = [p \in Process |-> {}]

HistoryNext ==
  /\ Next
  /\ seen' = [p \in Process |-> IF Inserted(p)' THEN seen[p] \cup {templates'[work'[p].series]}
                                               ELSE {}]

HistorySpec == HistoryInit /\ [][HistoryNext]_historyVars

(* "An engagement never exists without the tasks its service type defines":  *)
(* it is committed with a task for every template that the series had at one *)
(* moment of the transaction, and all of those are still there.  A template  *)
(* that was there all the time has its task; one added after that moment has *)
(* none.                                                                     *)
CreatedWithItsWork ==
  [][\A e \in DOMAIN engagement' \ Ids :
       LET created == engagement'[e]
       IN  /\ created.tasks # {}
           /\ created.tasks \subseteq templates[created.series]
           /\ \E p \in Process :
                /\ Inserted(p) /\ ~ Inserted(p)'
                /\ work[p].series = created.series /\ work[p].period = created.period
                /\ created.tasks \in seen[p]]_historyVars

(* What it rests on: what a creation has read was there after its INSERT.    *)
ReadWasSeen ==
  \A p \in Process :
    work[p].kind \in {"next", "create"} /\ work[p].phase = "commit"
      => work[p].tasks \in seen[p] \ {{}}
=============================================================================
