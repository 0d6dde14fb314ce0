------------------------------- MODULE CheckJob -------------------------------
(***************************************************************************)
(* The check of sites in the server: POST puts a job into the only slot    *)
(* and answers at once; a task of its own starts one blocking probe per    *)
(* domain, waits for all of them, whether they end or panic, and marks the *)
(* job done; GET copies what the job in the slot has so far.               *)
(***************************************************************************)
EXTENDS FiniteSets, Naturals

CONSTANTS Sites,           (* the domains of a request, without doubles    *)
          MaxJobs          (* bound: jobs begun                            *)

ASSUME CjAssumption == IsFiniteSet(Sites) /\ MaxJobs \in Nat

VARIABLES slot,            (* the job in the slot, 0 if none yet           *)
          wanted,          (* per job: the domains it was begun with       *)
          probing,         (* per job: probes not ended yet                *)
          results,         (* per job: domains with a result               *)
          panicked,        (* per job: domains whose probe panicked        *)
          done,            (* per job                                      *)
          seen             (* ghost: what the last GET showed              *)

cjVars == <<slot, wanted, probing, results, panicked, done, seen>>

JobIds == 1..MaxJobs

(* Type correctness. *)
CjTypeOK ==
    /\ slot \in 0..MaxJobs
    /\ {wanted, probing, results, panicked} \subseteq [JobIds -> SUBSET Sites]
    /\ done \in [JobIds -> BOOLEAN]
    /\ seen \in [job : 0..MaxJobs, done : BOOLEAN, results : SUBSET Sites]

CjInit ==
    /\ slot = 0
    /\ wanted = [j \in JobIds |-> {}] /\ probing = [j \in JobIds |-> {}]
    /\ results = [j \in JobIds |-> {}] /\ panicked = [j \in JobIds |-> {}]
    /\ done = [j \in JobIds |-> FALSE]
    /\ seen = [job |-> 0, done |-> FALSE, results |-> {}]

-----------------------------------------------------------------------------
(* A job that is not done keeps the slot: the answer is 409. *)
SlotFree == slot # 0 => done[slot]

(* sites: begin_job under the mutex of the slot, then the task. *)
BeginJob ==
    /\ SlotFree /\ slot < MaxJobs
    /\ \E asked \in SUBSET Sites \ {{}} :
          /\ wanted' = [wanted EXCEPT ![slot + 1] = asked]
          /\ probing' = [probing EXCEPT ![slot + 1] = asked]
    /\ slot' = slot + 1
    /\ UNCHANGED <<results, panicked, done, seen>>

(* A probe ends and its result is pushed under the mutex of the job. *)
PushResult(j, site) ==
    /\ site \in probing[j]
    /\ probing' = [probing EXCEPT ![j] = @ \ {site}]
    /\ results' = [results EXCEPT ![j] = @ \cup {site}]
    /\ UNCHANGED <<slot, wanted, panicked, done, seen>>

(* A probe panics: outside the mutex, which is not poisoned. *)
Panic(j, site) ==
    /\ site \in probing[j]
    /\ probing' = [probing EXCEPT ![j] = @ \ {site}]
    /\ panicked' = [panicked EXCEPT ![j] = @ \cup {site}]
    /\ UNCHANGED <<slot, wanted, results, done, seen>>

(* Mutant of FinishJob: the job is marked done when the first probe ends. *)
FinishJobEarly(j) ==
    /\ 0 < j /\ j <= slot /\ ~done[j] /\ probing[j] # wanted[j]
    /\ done' = [done EXCEPT ![j] = TRUE]
    /\ UNCHANGED <<slot, wanted, probing, results, panicked, seen>>

(* Mutant of FinishJob: a probe that panicked ends the task before that. *)
FinishJobUnlessPanic(j) ==
    /\ 0 < j /\ j <= slot /\ ~done[j] /\ probing[j] = {} /\ panicked[j] = {}
    /\ done' = [done EXCEPT ![j] = TRUE]
    /\ UNCHANGED <<slot, wanted, probing, results, panicked, seen>>

(* All probes are awaited, the outcome of each is dropped. *)
FinishJob(j) ==
    /\ 0 < j /\ j <= slot /\ ~done[j] /\ probing[j] = {}
    /\ done' = [done EXCEPT ![j] = TRUE]
    /\ UNCHANGED <<slot, wanted, probing, results, panicked, seen>>

(* status: a copy, under both mutexes. *)
Show ==
    /\ slot # 0
    /\ seen' = [job |-> slot, done |-> done[slot], results |-> results[slot]]
    /\ UNCHANGED <<slot, wanted, probing, results, panicked, done>>

CjNext ==
    \/ BeginJob
    \/ \E j \in JobIds, site \in Sites : PushResult(j, site) \/ Panic(j, site)
    \/ \E j \in JobIds : FinishJob(j)
    \/ Show

(* The client of every probe has a timeout, and the task is polled. *)
CjRuns(j) == FinishJob(j) \/ \E site \in Sites : PushResult(j, site) \/ Panic(j, site)

CjFairness == \A j \in JobIds : WF_cjVars(CjRuns(j))

CjSpec == CjInit /\ [][CjNext]_cjVars /\ CjFairness

-----------------------------------------------------------------------------
(* Properties                                                              *)

(* What a page was shown as done is final and whole: no result comes after *)
(* it, and each domain asked for has one, unless its probe panicked.       *)
ShownDoneIsFinal ==
    seen.done => /\ seen.results = results[seen.job]
                 /\ results[seen.job] \cup panicked[seen.job] = wanted[seen.job]

(* A page that waits for "done" does not wait for ever, panics or not: the *)
(* job in the slot is done at some time again.                             *)
JobEnds == []<>SlotFree
=============================================================================
