--------------------------- MODULE AssetLifecycle ---------------------------
(***************************************************************************)
(* What the API promises about the assets of the poems, as a client that   *)
(* polls GET /api/poems/{id} sees them: the statuses of models.AssetStatus,*)
(* "new" before the asset is created and "gone" after its deletion. No     *)
(* queue, worker or fault appears here.                                    *)
(***************************************************************************)
CONSTANT Assets

VARIABLES
    status,     \* the status shown for each asset
    url         \* "given" when the asset is shown with a url, else "null"

vars == <<status, url>>

Unsettled == {"pending", "running"}

(* Every asset has one of the statuses, and a url or none.                 *)
TypeOK == /\ status \in [Assets -> Unsettled \cup {"new", "done", "failed", "gone"}]
          /\ url \in [Assets -> {"null", "given"}]

Init == /\ status = [a \in Assets |-> "new"]
        /\ url = [a \in Assets |-> "null"]

(* All the assets of a poem appear at once.                                *)
Create(A) ==
    /\ \A a \in A : status[a] = "new"
    /\ status' = [a \in Assets |-> IF a \in A THEN "pending" ELSE status[a]]
    /\ UNCHANGED url

(* An attempt begins. Delivery is at least once, so that an asset already  *)
(* given up may be attempted again; one that is done may not.              *)
BeginAgain(a) ==                            \* mutant: a done asset runs again
    /\ status[a] \in {"pending", "failed", "done"}
    /\ status' = [status EXCEPT ![a] = "running"]
    /\ UNCHANGED url
Begin(a) ==
    /\ status[a] \in {"pending", "failed"}
    /\ status' = [status EXCEPT ![a] = "running"]
    /\ UNCHANGED url

Succeed(a) ==
    /\ status[a] = "running"
    /\ status' = [status EXCEPT ![a] = "done"]
    /\ url' = [url EXCEPT ![a] = "given"]

Retry(a) ==
    /\ status[a] = "running"
    /\ status' = [status EXCEPT ![a] = "pending"]
    /\ UNCHANGED url

GiveUp(a) ==
    /\ status[a] = "running"
    /\ status' = [status EXCEPT ![a] = "failed"]
    /\ UNCHANGED url

(* All the assets of a poem disappear at once, and for good.               *)
Delete(A) ==
    /\ status' = [a \in Assets |-> IF a \in A THEN "gone" ELSE status[a]]
    /\ url' = [a \in Assets |-> IF a \in A THEN "null" ELSE url[a]]

Next ==
    \/ \E A \in SUBSET Assets : Create(A) \/ Delete(A)
    \/ \E a \in Assets : Begin(a) \/ Succeed(a) \/ Retry(a) \/ GiveUp(a)

Spec == Init /\ [][Next]_vars
=============================================================================
