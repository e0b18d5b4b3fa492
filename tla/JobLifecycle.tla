---------------------------- MODULE JobLifecycle ----------------------------
(***************************************************************************)
(* What a job queue promises about each of its jobs, whatever keeps it: a  *)
(* job is done by numbered attempts, one at a time and at most `budget' of *)
(* them, every attempt that was started keeps one outcome, and the state   *)
(* of the job follows from the outcome of its last attempt.  There is no   *)
(* clock, worker, token or lease here: those are how JobStore (SQLite) and *)
(* MemoryQueue (InMemoryJobQueue) keep the promise.                        *)
(*                                                                         *)
(* One step may move several jobs, each along one edge: a recovery of      *)
(* expired leases does.                                                    *)
(***************************************************************************)
EXTENDS Integers

CONSTANTS Job, Limit  \* Limit: the largest budget a job may have

VARIABLES
    state,    \* the state of each job
    budget,   \* how often it may be attempted, 0 before it exists
    count,    \* how often it was attempted
    outcome   \* the status of each of its attempts

lifecycleVars == <<state, budget, count, outcome>>

Waiting == {"queued", "retry_wait"}
Results == {"succeeded", "empty"}
Closed  == Results \cup {"partial", "failed", "cancelled"}
States  == {"absent", "claimed", "running", "failed", "dead_letter",
            "cancelled"} \cup Waiting \cup Results

Init ==
    /\ state = [j \in Job |-> "absent"]
    /\ budget = [j \in Job |-> 0]
    /\ count = [j \in Job |-> 0]
    /\ outcome = [j \in Job |-> [n \in 1..Limit |-> "none"]]

-----------------------------------------------------------------------------
Keeps(j) == /\ budget'[j] = budget[j]
            /\ count'[j] = count[j]
            /\ outcome'[j] = outcome[j]

Submit(j) == /\ state[j] = "absent" /\ state'[j] = "queued"
             /\ budget'[j] \in 1..Limit
             /\ count'[j] = count[j]
             /\ outcome'[j] = outcome[j]

Claim(j) == state[j] \in Waiting /\ state'[j] = "claimed" /\ Keeps(j)

(* A claim that was not used in time.                                      *)
Return(j) == state[j] = "claimed" /\ state'[j] = "queued" /\ Keeps(j)

Withdraw(j) == /\ state[j] \in Waiting \cup {"claimed"}
               /\ state'[j] = "cancelled"
               /\ Keeps(j)

Start(j) == /\ state[j] = "claimed" /\ state'[j] = "running"
            /\ count[j] < budget[j]
            /\ count'[j] = count[j] + 1
            /\ outcome'[j] = [outcome[j] EXCEPT ![count[j] + 1] = "running"]
            /\ budget'[j] = budget[j]

(* What may become of a job whose attempt ended so.  It is attempted again *)
(* only while the budget lasts and given up as dead_letter only when it is *)
(* used up; a job that need not wait may be claimed again at once.         *)
After(j, status) ==
    IF status \in Results THEN {status}
    ELSE {"failed"}
           \cup (IF status = "cancelled" THEN {"cancelled"} ELSE {})
           \cup (IF count[j] < budget[j] THEN {"retry_wait", "claimed"}
                                         ELSE {"dead_letter"})

End(j) == /\ state[j] = "running"
          /\ \E status \in Closed :
                /\ state'[j] \in After(j, status)
                /\ outcome'[j] = [outcome[j] EXCEPT ![count[j]] = status]
          /\ count'[j] = count[j]
          /\ budget'[j] = budget[j]

Stay(j) == state'[j] = state[j] /\ Keeps(j)

Step(j) == \/ Submit(j) \/ Claim(j) \/ Return(j) \/ Withdraw(j) \/ Start(j)
           \/ End(j) \/ Stay(j)

Next ==
    /\ state' \in [Job -> States]
    /\ budget' \in [Job -> 0..Limit]
    /\ count' \in [Job -> 0..Limit]
    /\ outcome' \in [Job -> [1..Limit -> Closed \cup {"none", "running"}]]
    /\ \A j \in Job : Step(j)

Spec == Init /\ [][Next]_lifecycleVars
=============================================================================
