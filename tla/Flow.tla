-------------------------------- MODULE Flow --------------------------------
(***************************************************************************)
(* flow.c: jobs of one flow group share a counter of the requests issued,   *)
(* and a job stalls while its part of the counter is above its part of the  *)
(* weights.  The main thread adds the jobs while it reads the job file,     *)
(* starts them, and takes a job out of the group when it has reaped it; the *)
(* jobs read and add to the shared numbers without flow_lock.               *)
(***************************************************************************)
EXTENDS Integers, FiniteSets, Functions

CONSTANTS
  FlowJob,     \* the jobs with this flow_id
  MAX_WEIGHT,  \* largest value of the option flow
  MAX_IO       \* bound of the model: requests a job issues

VARIABLES
  refs, flow_counter, total_weight,  \* struct fio_flow
  weight,                            \* td->o.flow, the job's option
  td_flow,                           \* jobs whose td->flow is set
  td_counter,                        \* td->flow_counter
  fpc, ratio,                        \* where a job is, the counter it has read
  main, out                          \* the main thread, the job it reaps

flowVars == <<refs, flow_counter, total_weight, weight, td_flow, td_counter,
              fpc, ratio, main, out>>

Init ==
  /\ weight \in [FlowJob -> 0 .. MAX_WEIGHT]
  /\ refs = 0 /\ flow_counter = 0 /\ total_weight = 0
  /\ td_flow = {} /\ td_counter = [j \in FlowJob |-> 0]
  /\ fpc = [j \in FlowJob |-> "new"] /\ ratio = [j \in FlowJob |-> 0]
  /\ main = "parse" /\ out = CHOOSE j \in FlowJob : TRUE

\* flow_init_job: flow_get makes the group for its first job, then the weight
\* of the job is added.  A job with flow=0 has no group.
flow_init_job(j) ==
  /\ main = "parse" /\ fpc[j] = "new"
  /\ fpc' = [fpc EXCEPT ![j] = "idle"]
  /\ IF weight[j] = 0 THEN UNCHANGED <<refs, flow_counter, total_weight, td_flow>>
     ELSE /\ refs' = refs + 1 /\ td_flow' = td_flow \cup {j}
          /\ flow_counter' = IF refs = 0 THEN 1 ELSE flow_counter
          /\ total_weight' = (IF refs = 0 THEN 0 ELSE total_weight) + weight[j]
  /\ UNCHANGED <<weight, td_counter, ratio, main, out>>

\* Every job has been added; their threads run.
Start ==
  /\ main = "parse" /\ \A j \in FlowJob : fpc[j] # "new"
  /\ main' = "run"
  /\ UNCHANGED <<refs, flow_counter, total_weight, weight, td_flow, td_counter, fpc, ratio, out>>

Running(j, place) == main # "parse" /\ fpc[j] = place

\* flow_threshold_exceeded: the shared counter is read ...
LoadCounter(j) ==
  /\ Running(j, "idle") /\ j \in td_flow
  /\ td_counter[j] < MAX_IO
  /\ ratio' = [ratio EXCEPT ![j] = flow_counter]
  /\ fpc' = [fpc EXCEPT ![j] = "test"]
  /\ UNCHANGED <<refs, flow_counter, total_weight, weight, td_flow, td_counter, main, out>>

\* The quotient of the counters is above the quotient of the weights.
Exceeded(own, all, w, total) == own * total > w * all

\* ... then the weights, and the job stalls or goes on.
TestRatio(j) ==
  /\ Running(j, "test")
  /\ fpc' = [fpc EXCEPT ![j] =
       IF Exceeded(td_counter[j], ratio[j], weight[j], total_weight) THEN "idle" ELSE "add"]
  /\ ratio' = [ratio EXCEPT ![j] = 0]
  /\ UNCHANGED <<refs, flow_counter, total_weight, weight, td_flow, td_counter, main, out>>

\* atomic_add on the shared counter, then the job's own.
AddShared(j) ==
  /\ Running(j, "add")
  /\ flow_counter' = flow_counter + 1
  /\ fpc' = [fpc EXCEPT ![j] = "own"]
  /\ UNCHANGED <<refs, total_weight, weight, td_flow, td_counter, ratio, main, out>>

AddOwn(j) ==
  /\ Running(j, "own")
  /\ td_counter' = [td_counter EXCEPT ![j] = @ + 1]
  /\ fpc' = [fpc EXCEPT ![j] = "idle"]
  /\ UNCHANGED <<refs, flow_counter, total_weight, weight, td_flow, ratio, main, out>>

\* The thread of a job exits.
JobExits(j) ==
  /\ Running(j, "idle")
  /\ fpc' = [fpc EXCEPT ![j] = "exited"]
  /\ UNCHANGED <<refs, flow_counter, total_weight, weight, td_flow, td_counter, ratio, main, out>>

\* flow_put for a reaped job takes its requests out of the shared counter ...
PutCounter(j) ==
  /\ main = "run" /\ fpc[j] = "exited" /\ j \in td_flow
  /\ flow_counter' = flow_counter - td_counter[j]
  /\ main' = "put" /\ out' = j
  /\ UNCHANGED <<refs, total_weight, weight, td_flow, td_counter, fpc, ratio>>

\* Mutant: the weight of the job stays in the total.
PutWeightKept ==
  /\ main = "put" /\ refs' = refs - 1 /\ td_flow' = td_flow \ {out} /\ main' = "run"
  /\ UNCHANGED <<total_weight, flow_counter, weight, td_counter, fpc, ratio, out>>

\* ... then its weight out of the total, and drops its reference.
PutWeight ==
  /\ main = "put"
  /\ total_weight' = total_weight - weight[out]
  /\ refs' = refs - 1 /\ td_flow' = td_flow \ {out}
  /\ main' = "run"
  /\ UNCHANGED <<flow_counter, weight, td_counter, fpc, ratio, out>>

Next ==
  \/ Start \/ PutWeight
  \/ \E j \in FlowJob :
       \/ flow_init_job(j) \/ LoadCounter(j) \/ TestRatio(j) \/ AddShared(j)
       \/ AddOwn(j) \/ JobExits(j) \/ PutCounter(j)

-----------------------------------------------------------------------------
\* Requests counted in the group and not yet in the job's own counter.
Adding == {j \in FlowJob : fpc[j] = "own"}

\* The group's counter is one more than the requests of its jobs (the assert of
\* flow_put), some job of the group may always issue its next request, so the
\* group never stalls as a whole, and until a job leaves none is more than one
\* request above its share of the weights.
FlowKeepsRatio ==
  main # "put" /\ td_flow # {} =>
    /\ flow_counter = 1 + SumFunctionOnSet(td_counter, td_flow) + Cardinality(Adding)
    /\ \E j \in td_flow : ~ Exceeded(td_counter[j], flow_counter, weight[j], total_weight)
    /\ (\A j \in FlowJob : weight[j] > 0 => j \in td_flow) =>
         \A j \in td_flow :
           ~ Exceeded(td_counter[j] - 1, flow_counter, weight[j], total_weight)
=============================================================================
