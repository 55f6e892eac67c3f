------------------------------ MODULE TaskQueue ------------------------------
(***************************************************************************)
(* What the services may expect of Celery as workers/celery_app.py sets it *)
(* up: a message is acknowledged only when the run it started has come to  *)
(* its end (acks_late), so a job that was published stays on the broker or *)
(* with a worker until then.  A job runs more often than it was asked for  *)
(* only because a run of it was retried, lost its worker or outlived the   *)
(* visibility timeout.  DeliverySync and Mailer are shown to implement it. *)
(***************************************************************************)
EXTENDS Tables, Naturals

CONSTANTS
    Job,        \* what a task is asked to do
    Worker,     \* worker processes, one run each (prefork)
    MaxRetries  \* of a task

(* A message: the job, and how often it was retried.  *)
Message == Job \X (0..MaxRetries)

VARIABLES
    asked,      \* jobs a caller of dispatch_task has still to send
    ready,      \* number of each message the broker may hand out
    busy,       \* the message each busy worker runs
    owed        \* jobs published of which no run has come to its end since

vars == <<asked, ready, busy, owed>>

TypeOK ==
    /\ asked \subseteq Job
    /\ ready \in [Message -> Nat]
    /\ IsTable(busy, Worker, Message)
    /\ owed \subseteq Job

Init ==
    /\ asked = {}
    /\ ready = [m \in Message |-> 0]
    /\ busy = EmptyTable
    /\ owed = {}

(* A service is to dispatch these jobs.  *)
Ask(jobs) ==
    /\ asked' = asked \cup jobs
    /\ UNCHANGED <<ready, busy, owed>>

(* dispatch_task sends what was asked for, ...  *)
Publish(j) ==
    /\ j \in asked
    /\ asked' = asked \ {j}
    /\ ready' = [ready EXCEPT ![<<j, 0>>] = @ + 1]
    /\ owed' = owed \cup {j}
    /\ UNCHANGED busy

(* ... and swallows a broker outage: the job is never heard of.  *)
Drop(j) ==
    /\ j \in asked
    /\ asked' = asked \ {j}
    /\ UNCHANGED <<ready, busy, owed>>

(* A worker runs the task in an event loop of its own (run_async).  *)
Take(w, m) ==
    /\ w \notin DOMAIN busy
    /\ ready[m] > 0
    /\ ready' = [ready EXCEPT ![m] = @ - 1]
    /\ busy' = Insert(busy, w, m)
    /\ UNCHANGED <<asked, owed>>

(* The run has come to its end, whether it succeeded or failed for good.  *)
Ack(w) ==
    /\ w \in DOMAIN busy
    /\ busy' = Delete(busy, w)
    /\ owed' = owed \ {busy[w][1]}
    /\ UNCHANGED <<asked, ready>>

(* The message m goes to the broker in place of the run of w.  *)
Replace(w, m) ==
    /\ ready' = [ready EXCEPT ![m] = @ + 1]
    /\ busy' = Delete(busy, w)
    /\ UNCHANGED <<asked, owed>>

(* autoretry_for: the run failed and its job is published again.  *)
Retry(w) ==
    /\ w \in DOMAIN busy
    /\ busy[w][2] < MaxRetries
    /\ Replace(w, <<busy[w][1], busy[w][2] + 1>>)

(* task_reject_on_worker_lost: the worker died, its message goes back.  *)
Return(w) ==
    /\ w \in DOMAIN busy
    /\ Replace(w, busy[w])

(* visibility_timeout: the message is handed out again while it runs.  *)
Redeliver(w) ==
    /\ w \in DOMAIN busy
    /\ ready' = [ready EXCEPT ![busy[w]] = @ + 1]
    /\ UNCHANGED <<asked, busy, owed>>

Next ==
    \/ \E jobs \in SUBSET Job : Ask(jobs)
    \/ \E j \in Job : Publish(j) \/ Drop(j)
    \/ \E w \in Worker :
         \/ Ack(w) \/ Retry(w) \/ Return(w) \/ Redeliver(w)
         \/ \E m \in Message : Take(w, m)

Spec == Init /\ [][Next]_vars

(* Whoever dies, a job that is owed is on the broker or being run.  *)
NoneLost ==
    \A j \in owed : \/ \E m \in Message : m[1] = j /\ ready[m] > 0
                    \/ \E w \in DOMAIN busy : busy[w][1] = j

(* No step, a crash included, loses the last trace of a job that is owed.  *)
NeverLoses == [][NoneLost']_vars
=============================================================================
