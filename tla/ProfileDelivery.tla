--------------------------- MODULE ProfileDelivery ---------------------------
(***************************************************************************)
(* What the ingest path promises about a profile an agent uploads, with    *)
(* none of its queues, files and goroutines.  A profile has two parts, the *)
(* stack rows and, if the agent sent any, a metric row.  A profile the     *)
(* server refuses stays out for good; one it takes has each part stored    *)
(* once, whole, or lost; and the answer the agent gets agrees with that.   *)
(* Losing a part that was taken is allowed: nothing retries it.            *)
(***************************************************************************)
CONSTANTS Profiles, HasMetrics

VARIABLES answer, fate

Parts(p) == IF HasMetrics[p] THEN {"stacks", "metrics"} ELSE {"stacks"}

Answers == {"none", "200", "400", "500", "dropped"}
Fates == {"out", "taken", "stored", "lost"}

Init ==
    /\ answer = [p \in Profiles |-> "none"]
    /\ fate = [p \in Profiles |-> [part \in Parts(p) |-> "out"]]

IsOut(p) == \A part \in Parts(p) : fate[p][part] = "out"

(* The server answers for the profile from here on. *)
Take(p) ==
    /\ answer[p] = "none"
    /\ IsOut(p)
    /\ UNCHANGED answer
    /\ fate'[p] = [part \in Parts(p) |-> "taken"]
    /\ fate' = [fate EXCEPT ![p] = fate'[p]]

(* Parts of taken profiles come to an end together when a batch is written *)
(* or given up, but each part in its own way.                              *)
Settle ==
    /\ UNCHANGED answer
    /\ fate' # fate
    /\ DOMAIN fate' = Profiles
    /\ \A p \in Profiles :
          /\ DOMAIN fate'[p] = Parts(p)
          /\ \A part \in Parts(p) :
                \/ fate'[p][part] = fate[p][part]
                \/ fate[p][part] = "taken" /\ fate'[p][part] \in {"stored", "lost"}

Answer(p, code) ==
    /\ answer[p] = "none"
    /\ answer' = [answer EXCEPT ![p] = code]
    /\ IF code = "200" THEN ~IsOut(p) ELSE IsOut(p)
    /\ UNCHANGED fate

(* The process dies: what it held is lost, and so are the answers it owed  *)
(* to the agents that were connected.                                      *)
Die ==
    /\ \E owed \in SUBSET {p \in Profiles : answer[p] = "none"} :
          answer' = [p \in Profiles |-> IF p \in owed THEN "dropped" ELSE answer[p]]
    /\ fate' = [p \in Profiles |-> [part \in Parts(p) |->
                    IF fate[p][part] = "taken" THEN "lost" ELSE fate[p][part]]]

Next ==
    \/ \E p \in Profiles : Take(p)
    \/ Settle
    \/ \E p \in Profiles : \E code \in {"200", "400", "500"} : Answer(p, code)
    \/ Die

vars == <<answer, fate>>

(* No part stays taken for ever. *)
EveryPartSettles ==
    \A p \in Profiles : \A part \in Parts(p) :
        (fate[p][part] = "taken") ~> (fate[p][part] # "taken")

Safety == Init /\ [][Next]_vars

Spec == Safety /\ EveryPartSettles
=============================================================================
