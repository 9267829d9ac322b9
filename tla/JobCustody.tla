----------------------------- MODULE JobCustody -----------------------------
(***************************************************************************)
(* What the coordinator, the store and the workers promise about a job     *)
(* between its publication and its result: one dispatch at a time has      *)
(* custody of it, and custody is not given back, nor the job ended, while  *)
(* a live worker still executes it for that dispatch.                      *)
(***************************************************************************)
EXTENDS Naturals

CONSTANTS Jobs, Dispatches

VARIABLES
    job,       \* its durable state and the dispatch that has custody
    executing  \* the dispatch a live worker executes it for, 0 if none

custodyVars == <<job, executing>>
Held(j) == job[j].state \in {"CLAIMED", "RUNNING"}
Idle(j) == executing[j] = 0

Init ==
    /\ job = [j \in Jobs |-> [state |-> "QUEUED", dispatch |-> 0]]
    /\ executing = [j \in Jobs |-> 0]

(* A dispatch that never had a job takes queued ones. *)
Take(S, d) ==
    /\ \A j \in S : job[j].state = "QUEUED"
    /\ \A j \in Jobs : job[j].dispatch # d /\ executing[j] # d
    /\ job' = [j \in Jobs |-> IF j \in S THEN [state |-> "CLAIMED", dispatch |-> d] ELSE job[j]]
    /\ UNCHANGED executing

(* A worker gets unstarted jobs of a dispatch that has custody of them. *)
Give(S, d) ==
    /\ \A j \in S : Idle(j) /\ job[j] = [state |-> "CLAIMED", dispatch |-> d]
    /\ executing' = [j \in Jobs |-> IF j \in S THEN d ELSE executing[j]]
    /\ UNCHANGED job

(* A worker ends items, or is lost with all it has. *)
End(S) ==
    /\ executing' = [j \in Jobs |-> IF j \in S THEN 0 ELSE executing[j]]
    /\ UNCHANGED job

RecordStart(j) ==
    /\ job[j].state = "CLAIMED"
    /\ job' = [job EXCEPT ![j].state = "RUNNING"]
    /\ UNCHANGED executing

Finish(j) ==
    /\ Held(j) /\ Idle(j)
    /\ job' = [job EXCEPT ![j].state = "FINISHED"]
    /\ UNCHANGED executing

Cancel(j) ==
    /\ job[j].state = "CLAIMED" /\ Idle(j)
    /\ job' = [job EXCEPT ![j].state = "CANCELED"]
    /\ UNCHANGED executing

(* Started jobs are interrupted for good, the others queued again. *)
Return(S) ==
    /\ \A j \in S : Held(j) /\ Idle(j)
    /\ job' = [j \in Jobs |->
                 IF j \notin S THEN job[j]
                 ELSE IF job[j].state = "RUNNING" THEN [job[j] EXCEPT !.state = "INTERRUPTED"]
                 ELSE [state |-> "QUEUED", dispatch |-> 0]]
    /\ UNCHANGED executing

Next ==
    \/ \E S \in SUBSET Jobs :
         End(S) \/ Return(S) \/ \E d \in Dispatches : Take(S, d) \/ Give(S, d)
    \/ \E j \in Jobs : RecordStart(j) \/ Finish(j) \/ Cancel(j)

Spec == Init /\ [][Next]_custodyVars

=============================================================================
