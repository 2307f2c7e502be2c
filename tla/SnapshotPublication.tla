------------------------ MODULE SnapshotPublication ------------------------
(***************************************************************************)
(* What the ingest worker promises everybody else who uses the database,   *)
(* whoever runs it, how often and however it fails: snapshots are built    *)
(* out of sight, one is served at a time, all tables change to the next    *)
(* one in a single step together with everything that names it, a snapshot *)
(* that is over never comes back, and what is announced is what is served  *)
(* or nothing.  SnapshotSync implements this specification (its definition *)
(* PublicationSpec).                                                       *)
(***************************************************************************)
CONSTANTS
    Ids,          \* snapshots
    Datasets,     \* tables of a snapshot
    None          \* the empty tables of the migrations, the id of no snapshot

VARIABLES
    stage,        \* stage[i]: "none", "building", "served" or "over"
    serving,      \* serving[d]: the snapshot whose table readers of d see
    announced,    \* the id reported with search results
    named         \* named[d]: the snapshot the import state of d refers to

pubVars == <<stage, serving, announced, named>>

Init ==
    /\ stage = [i \in Ids |-> "none"]
    /\ serving = [d \in Datasets |-> None]
    /\ announced = None
    /\ named = [d \in Datasets |-> None]

Begin(i) ==
    /\ stage[i] = "none"
    /\ stage' = [stage EXCEPT ![i] = "building"]
    /\ UNCHANGED <<serving, announced, named>>

\* The only step that changes what readers see.
Serve(i) ==
    /\ stage[i] = "building"
    /\ stage' = [j \in Ids |-> IF j = i THEN "served"
                               ELSE IF stage[j] = "served" THEN "over"
                               ELSE stage[j]]
    /\ serving' = [d \in Datasets |-> i]
    /\ announced' = i
    /\ named' = [d \in Datasets |-> i]

Abandon(i) ==
    /\ stage[i] = "building"
    /\ stage' = [stage EXCEPT ![i] = "over"]
    /\ UNCHANGED <<serving, announced, named>>

\* The served snapshot loses its announcement; no other one gets it.
Withdraw ==
    /\ announced' = None
    /\ UNCHANGED <<stage, serving, named>>

Forget(d) ==
    /\ named' = [named EXCEPT ![d] = None]
    /\ UNCHANGED <<stage, serving, announced>>

Next ==
    \/ \E i \in Ids : Begin(i) \/ Serve(i) \/ Abandon(i)
    \/ Withdraw
    \/ \E d \in Datasets : Forget(d)

Spec == Init /\ [][Next]_pubVars

=============================================================================
