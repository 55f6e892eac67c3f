------------------------------- MODULE Mailer -------------------------------
(***************************************************************************)
(* The emails: a service commits a change and dispatches a task that loads *)
(* the row again and sends what it reads (workers/email_tasks.py,          *)
(* workers/notification_tasks.py, workers/_email.py).                      *)
(***************************************************************************)
EXTENDS Tables, Naturals

CONSTANTS
    Row,        \* sellers, orders, documents and users
    Kind,       \* the tasks
    Worker,     \* Celery worker processes
    MaxRetries, \* of a task
    MaxLosses,  \* bound on deaths of workers and timeouts of messages
    MaxVersion  \* bound on the changes of a row

ToAdmins == {"new_seller", "document"}
WithReason == {"rejection", "ban"}

ASSUME KindAssumption ==
    Kind \subseteq ToAdmins \cup WithReason
                   \cup {"approval", "confirmation", "delivery_update"}
ASSUME BoundAssumption ==
    MaxRetries \in Nat /\ MaxLosses \in Nat /\ MaxVersion \in Nat \ {0}

VARIABLES
    config,      \* which settings are set
    row,         \* number of changes of each row
    dispatching, \* emails whose change is committed and that are not queued
    queued,      \* number of messages of each job on the broker
    task,        \* the run of each busy worker
    losses,      \* counts against MaxLosses
    mailed,      \* history: the texts sent or logged
    owed         \* history: emails queued no run of which has come to its end

state == <<config, row>>
history == <<mailed, owed>>
vars == <<config, row, dispatching, queued, task, losses, mailed, owed>>

Version == 1..MaxVersion

(* An email, by the change that causes it.  *)
Email == [row : Row, kind : Kind, cause : Version]

(* A message: the email and how often its task was retried.  *)
Job == [email : Email, tries : 0..MaxRetries]

(* What an email says: the row as of a version and, where the task takes   *)
(* it as an argument, the reason the admin gave at a version.              *)
Text == [details : 0..MaxVersion, reason : 0..MaxVersion]

NoText == [details |-> 0, reason |-> 0]

(* A run is to load the row or to send the text it made of it.  *)
Task == [job : Job, pc : {"load", "send"}, text : Text]

TypeOK ==
    /\ config \in [SMTP_HOST : BOOLEAN, EMAILS_FROM_ADDRESS : BOOLEAN,
                   ADMIN_NOTIFY_EMAILS : BOOLEAN]
    /\ row \in [Row -> 0..MaxVersion]
    /\ dispatching \subseteq Email
    /\ queued \in [Job -> 0..(MaxLosses + 1)]
    /\ IsTable(task, Worker, Task)
    /\ losses \in 0..MaxLosses
    /\ mailed \subseteq [email : Email, text : Text]
    /\ owed \subseteq Email

Init ==
    /\ config \in [SMTP_HOST : BOOLEAN, EMAILS_FROM_ADDRESS : BOOLEAN,
                   ADMIN_NOTIFY_EMAILS : BOOLEAN]
    /\ row = [r \in Row |-> 0]
    /\ dispatching = {}
    /\ queued = [j \in Job |-> 0]
    /\ task = EmptyTable
    /\ losses = 0
    /\ mailed = {}
    /\ owed = {}
-----------------------------------------------------------------------------
(* The services.  *)

(* A change nobody is told of.  *)
Edit(r) ==
    /\ row[r] < MaxVersion
    /\ row' = [row EXCEPT ![r] = @ + 1]
    /\ UNCHANGED <<config, dispatching, queued, task, losses, history>>

(* Fault: the task is dispatched before the change is committed.  *)
DispatchFirst(r, kind) ==
    /\ row[r] < MaxVersion
    /\ dispatching' = dispatching \cup {[row |-> r, kind |-> kind, cause |-> row[r] + 1]}
    /\ UNCHANGED <<config, row, queued, task, losses, history>>

(* register_seller, confirm_document_upload, approve_seller, reject_seller, *)
(* ban_user, create_order and sync_delivery_status, once validated.        *)
Commit(r, kind) ==
    /\ row[r] < MaxVersion
    /\ row' = [row EXCEPT ![r] = @ + 1]
    /\ dispatching' = dispatching \cup {[row |-> r, kind |-> kind, cause |-> row'[r]]}
    /\ UNCHANGED <<config, queued, task, losses, history>>

Publish(email) ==
    queued' = [queued EXCEPT ![[email |-> email, tries |-> 0]] = @ + 1]

(* dispatch_task swallows a broker outage; the process may crash as well.  *)
Dispatch(email) ==
    /\ email \in dispatching
    /\ dispatching' = dispatching \ {email}
    /\ Publish(email)
    /\ owed' = owed \cup {email}
    /\ UNCHANGED <<state, task, losses, mailed>>

LoseDispatch(email) ==
    /\ email \in dispatching
    /\ dispatching' = dispatching \ {email}
    /\ UNCHANGED <<state, queued, task, losses, history>>
-----------------------------------------------------------------------------
(* The worker.  *)

At(w, pc) == w \in DOMAIN task /\ task[w].pc = pc
EmailOf(w) == task[w].job.email
Finish(w) == task' = Delete(task, w)

(* The run is over: only now its message is acknowledged.  *)
End(w) == Finish(w) /\ owed' = owed \ {EmailOf(w)}

(* Fault: the message is still handed out while it runs.  *)
StartUnclaimed(w, j) ==
    /\ w \notin DOMAIN task
    /\ queued[j] > 0
    /\ task' = Insert(task, w, [job |-> j, pc |-> "load", text |-> NoText])
    /\ UNCHANGED <<state, dispatching, queued, losses, history>>

StartMail(w, j) ==
    /\ w \notin DOMAIN task
    /\ queued[j] > 0
    /\ queued' = [queued EXCEPT ![j] = @ - 1]
    /\ task' = Insert(task, w, [job |-> j, pc |-> "load", text |-> NoText])
    /\ UNCHANGED <<state, dispatching, losses, history>>

(* _admin_recipients is empty.  *)
NobodyToTell(email) == email.kind \in ToAdmins /\ ~config.ADMIN_NOTIFY_EMAILS

SkipNotice(w) ==
    /\ At(w, "load")
    /\ NobodyToTell(EmailOf(w))
    /\ End(w)
    /\ UNCHANGED <<state, dispatching, queued, losses, mailed>>

(* Fault: the reason is read from the row.  *)
Reread(email) ==
    [details |-> row[email.row],
     reason |-> IF email.kind \in WithReason THEN row[email.row] ELSE 0]

Render(email) ==
    [details |-> row[email.row],
     reason |-> IF email.kind \in WithReason THEN email.cause ELSE 0]

(* The row is there: its id was sent after the commit, and none is deleted. *)
LoadRow(w) ==
    /\ At(w, "load")
    /\ ~NobodyToTell(EmailOf(w))
    /\ task' = [task EXCEPT ![w].pc = "send", ![w].text = Render(EmailOf(w))]
    /\ UNCHANGED <<state, dispatching, queued, losses, history>>

(* send_email: the logging backend, or SMTP with an address to send from.  *)
Addressed == config.SMTP_HOST => config.EMAILS_FROM_ADDRESS
Out(w) == mailed \cup {[email |-> EmailOf(w), text |-> task[w].text]}

SendMail(w) ==
    /\ At(w, "send")
    /\ Addressed
    /\ mailed' = Out(w)
    /\ End(w)
    /\ UNCHANGED <<state, dispatching, queued, losses>>

DropMail(w) ==
    /\ At(w, "send")
    /\ ~Addressed
    /\ End(w)
    /\ UNCHANGED <<state, dispatching, queued, losses, mailed>>

(* OSError, which smtplib's errors are: the database or the SMTP server    *)
(* cannot be reached, or the latter fails, before or after it took it.     *)
Fails(w) ==
    \/ At(w, "load") /\ ~NobodyToTell(EmailOf(w)) /\ UNCHANGED mailed
    \/ At(w, "send") /\ config.SMTP_HOST /\ Addressed /\ mailed' \in {mailed, Out(w)}

Requeue(w, tries) ==
    queued' = [queued EXCEPT ![[email |-> EmailOf(w), tries |-> tries]] = @ + 1]

(* Fault: retries are not counted.  *)
RetryForever(w) ==
    /\ w \in DOMAIN task
    /\ Fails(w)
    /\ Requeue(w, task[w].job.tries)
    /\ Finish(w)
    /\ UNCHANGED <<state, dispatching, losses, owed>>

(* autoretry_for  *)
RetryMail(w) ==
    /\ w \in DOMAIN task
    /\ task[w].job.tries < MaxRetries
    /\ Fails(w)
    /\ Requeue(w, task[w].job.tries + 1)
    /\ Finish(w)
    /\ UNCHANGED <<state, dispatching, losses, owed>>

GiveUp(w) ==
    /\ w \in DOMAIN task
    /\ task[w].job.tries = MaxRetries
    /\ Fails(w)
    /\ End(w)
    /\ UNCHANGED <<state, dispatching, queued, losses>>

(* Any other error of the database.  *)
FailMail(w) ==
    /\ At(w, "load")
    /\ ~NobodyToTell(EmailOf(w))
    /\ End(w)
    /\ UNCHANGED <<state, dispatching, queued, losses, mailed>>

Lose == losses < MaxLosses /\ losses' = losses + 1

(* Fault: messages are acknowledged when they are taken.  *)
LoseMessage(w) ==
    /\ w \in DOMAIN task
    /\ Lose
    /\ Finish(w)
    /\ UNCHANGED <<state, dispatching, queued, history>>

(* The worker dies, perhaps once the mail is out: its message goes back    *)
(* (task_acks_late, task_reject_on_worker_lost).                           *)
LoseWorker(w) ==
    /\ w \in DOMAIN task
    /\ Lose
    /\ Requeue(w, task[w].job.tries)
    /\ Finish(w)
    /\ mailed' \in (IF At(w, "send") /\ Addressed THEN {mailed, Out(w)} ELSE {mailed})
    /\ UNCHANGED <<state, dispatching, owed>>

(* visibility_timeout: a message is handed out again while it runs.  *)
Redeliver(w) ==
    /\ w \in DOMAIN task
    /\ Lose
    /\ Requeue(w, task[w].job.tries)
    /\ UNCHANGED <<state, dispatching, task, history>>
-----------------------------------------------------------------------------
(* A step of the task itself.  *)
Run(w) ==
    \/ SkipNotice(w) \/ LoadRow(w) \/ SendMail(w) \/ DropMail(w)
    \/ RetryMail(w) \/ GiveUp(w) \/ FailMail(w)

Next ==
    \/ \E r \in Row : Edit(r) \/ \E kind \in Kind : Commit(r, kind)
    \/ \E email \in dispatching : Dispatch(email) \/ LoseDispatch(email)
    \/ \E w \in Worker :
         \/ Run(w) \/ LoseWorker(w) \/ Redeliver(w)
         \/ \E j \in Job : StartMail(w, j)

Spec == Init /\ [][Next]_vars

(***************************************************************************)
(* Celery's workers keep running tasks.  Only finitely many of them die    *)
(* (MaxLosses); SMTP may fail forever.                                     *)
(***************************************************************************)
FairSpec ==
    Spec /\ WF_vars(\E w \in Worker : Run(w) \/ \E j \in Job : StartMail(w, j))
-----------------------------------------------------------------------------
(* Properties.  *)

(* However runs are repeated, delayed and overtaken by edits, a mail shows *)
(* the row at least as new as the change that caused it, and the reason    *)
(* given with that change, not with a later one (email_tasks.py:           *)
(* duplicates but never inconsistent ones).                                *)
TextMatchesCause ==
    \A m \in mailed :
        /\ m.text.details >= m.email.cause
        /\ m.email.kind \in WithReason => m.text.reason = m.email.cause

(* A misbehaving task can't loop forever and starve the queue              *)
(* (celery_app.py), nor does a worker's death lose it: an email on the     *)
(* queue is sent, dropped by the configuration or given up, even if SMTP   *)
(* never works.                                                            *)
QueueDrains == \A email \in Email : email \in owed ~> email \notin owed

(* The email tasks run as the task queue promises: an email that was       *)
(* queued is with the broker or a worker until a run of it has come to its *)
(* end, whichever workers die, and runs again only because it failed, lost *)
(* its worker or outlived the timeout (celery_app.py: acks_late).          *)
Queue == INSTANCE TaskQueue
    WITH Job <- Email,
         asked <- dispatching,
         ready <- [m \in Email \X (0..MaxRetries) |->
                      queued[[email |-> m[1], tries |-> m[2]]]],
         busy <- [w \in DOMAIN task |-> <<EmailOf(w), task[w].job.tries>>]

RefinesQueue == Queue!Spec /\ Queue!NeverLoses
=============================================================================
