------------------------------ MODULE JobPool ------------------------------
(***************************************************************************)
(* What class Statement_Detector promises to its caller (main.cpp), with   *)
(* no threads, queue, mutex or condition variable in sight:                *)
(*                                                                         *)
(*   - jobs are submitted one by one (add_job) and numbered in that order; *)
(*   - they are started in the order of submission, never more than        *)
(*     NumWorkers at a time ("The number of worker-threads is defined by   *)
(*     n_workers in the ctor", inc/statement_detector.h);                  *)
(*   - a started job is finished exactly once;                             *)
(*   - the caller is released (wait_for_workers returns) only when every   *)
(*     job has been submitted and finished, and it is released eventually. *)
(***************************************************************************)
EXTENDS Naturals, FiniteSets

CONSTANTS NumJobs,      (* how many files the caller submits                *)
          NumWorkers    (* how many jobs may be in progress at a time       *)

VARIABLES submitted,    (* jobs 1..submitted have been submitted            *)
          started,      (* jobs 1..started have been started                *)
          finished,     (* the jobs that are done                           *)
          released      (* has wait_for_workers returned?                   *)

vars == <<submitted, started, finished, released>>

InProgress == (1..started) \ finished

Init == submitted = 0 /\ started = 0 /\ finished = {} /\ released = FALSE

Submit == /\ submitted < NumJobs
          /\ submitted' = submitted + 1
          /\ UNCHANGED <<started, finished, released>>

Start == /\ started < submitted
         /\ Cardinality(InProgress) < NumWorkers
         /\ started' = started + 1
         /\ UNCHANGED <<submitted, finished, released>>

Finish(j) == /\ j \in InProgress
             /\ finished' = finished \cup {j}
             /\ UNCHANGED <<submitted, started, released>>

Release == /\ ~released
           /\ finished = 1..NumJobs
           /\ released' = TRUE
           /\ UNCHANGED <<submitted, started, finished>>

Next == Submit \/ Start \/ (\E j \in InProgress : Finish(j)) \/ Release

Safety == Init /\ [][Next]_vars

Spec == Safety /\ WF_vars(Next)
=============================================================================
