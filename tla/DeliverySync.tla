---------------------------- MODULE DeliverySync ----------------------------
(***************************************************************************)
(* workers/delivery_tasks.py: the beat job queues one sync_delivery_status *)
(* per active delivery; each sync loads the delivery and its order, asks   *)
(* the carrier, and writes back what changed.  Nothing is locked between   *)
(* the load and the commit, and Celery (workers/celery_app.py, acks_late)  *)
(* delivers a message again when its worker dies or is slow, so syncs of   *)
(* one order overlap.                                                      *)
(***************************************************************************)
EXTENDS Tables, Naturals, FiniteSets, Sequences

CONSTANTS
    Order,          \* orders that have a delivery row
    Worker,         \* Celery worker processes
    Journeys,       \* what the carrier may report of a parcel, status by status
    BrokerOutage,   \* whether the broker may refuse a message
    MaxQueued       \* bound on the queued syncs of one order

Status == {"PENDING", "PICKED_UP", "IN_TRANSIT", "OUT_FOR_DELIVERY",
           "DELIVERED", "EXCEPTION"}
OrderStatus == {"PENDING", "PAID", "PROCESSING", "SHIPPED", "DELIVERED",
                "CANCELLED", "REFUNDED"}

ASSUME JourneyAssumption ==
    \A journey \in Journeys : journey \in Seq(Status) /\ journey # <<>>
ASSUME BrokerAssumption == BrokerOutage \in BOOLEAN
ASSUME MaxQueuedAssumption == MaxQueued \in Nat

VARIABLES
    journey,    \* the journey of each parcel
    parcel,     \* how far along its journey the carrier has each parcel
    delivery,   \* the delivery rows
    order,      \* orders.status
    fanout,     \* ids the running beat job has read and not dispatched yet
    queued,     \* number of sync messages queued for each order
    task,       \* the sync each busy worker runs
    mail,       \* orders with an update email queued
    told,       \* orders whose buyer was mailed that they are delivered
    owed,       \* history: orders no sync of which has ended since one was queued
    unmailed    \* history: orders of which a change went without its email

history == <<owed, unmailed>>
vars == <<journey, parcel, delivery, order, fanout, queued, task, mail, told,
          owed, unmailed>>

(* The event log is the set of the points of the journey it records.       *)
Event == UNION {DOMAIN j : j \in Journeys}
DeliveryRow == [status : Status, events : SUBSET Event]

(***************************************************************************)
(* A running sync: the copies it loaded, the carrier's response, and what  *)
(* it does next: "order" is the second SELECT (selectinload), "fetch" the  *)
(* call of the carrier, "commit" the write, "mail" the dispatch after it.  *)
(***************************************************************************)
Task == [order : Order, pc : {"order", "fetch", "commit", "mail"},
         delivery : DeliveryRow, status : OrderStatus, response : DeliveryRow]

(* What a sync holds that has read nothing yet, or whose session is over.  *)
NewRow == [status |-> "PENDING", events |-> {}]
Blank(o, pc) == [order |-> o, pc |-> pc, delivery |-> NewRow,
                 status |-> "PENDING", response |-> NewRow]

TypeOK ==
    /\ journey \in [Order -> Journeys]
    /\ parcel \in [Order -> Event]
    /\ delivery \in [Order -> DeliveryRow]
    /\ order \in [Order -> OrderStatus]
    /\ fanout \subseteq Order
    /\ queued \in [Order -> 0..MaxQueued]
    /\ IsTable(task, Worker, Task)
    /\ mail \subseteq Order
    /\ told \subseteq Order
    /\ owed \subseteq Order
    /\ unmailed \subseteq Order
-----------------------------------------------------------------------------
(* Fault: the order is set to a status that is none.  *)
MisspeltStatus == [s \in {"DELIVERED"} |-> "COMPLETED"]

(* Fault: an order is shipped as soon as the carrier reports at all.  *)
EveryStatus == [s \in Status |-> IF s = "DELIVERED" THEN "DELIVERED" ELSE "SHIPPED"]

(* _DELIVERY_TO_ORDER_STATUS; other statuses leave the order alone.  *)
DeliveryToOrderStatus ==
    [s \in {"PICKED_UP", "IN_TRANSIT", "OUT_FOR_DELIVERY", "DELIVERED"} |->
        IF s = "DELIVERED" THEN "DELIVERED" ELSE "SHIPPED"]

Init ==
    /\ journey \in [Order -> Journeys]
    /\ parcel = [o \in Order |-> 1]
    /\ delivery = [o \in Order |-> NewRow]
    /\ order = [o \in Order |-> "PAID"]
    /\ fanout = {}
    /\ queued = [o \in Order |-> 0]
    /\ task = EmptyTable
    /\ mail = {}
    /\ told = {}
    /\ owed = {}
    /\ unmailed = {}

At(w, pc) == w \in DOMAIN task /\ task[w].pc = pc

(* The worker is free.  *)
Finish(w) == task' = Delete(task, w)

(* The run is over: only now its message is acknowledged.  *)
End(w) == Finish(w) /\ owed' = owed \ {task[w].order}

(* Fault: orders that are already shipped are not polled.  *)
PaidOnly(o) ==
    order[o] = "PAID" /\ delivery[o].status \notin {"DELIVERED", "EXCEPTION"}

(* The WHERE of sync_active_deliveries.  *)
Active(o) ==
    /\ order[o] \in {"PAID", "PROCESSING", "SHIPPED"}
    /\ delivery[o].status \notin {"DELIVERED", "EXCEPTION"}

(* What the carrier answers: all the events so far and the current status. *)
Fetched(o) == [status |-> journey[o][parcel[o]], events |-> 1..parcel[o]]
-----------------------------------------------------------------------------
(* The carrier moves the parcel.  *)
MoveParcel(o) ==
    /\ parcel[o] < Len(journey[o])
    /\ parcel' = [parcel EXCEPT ![o] = @ + 1]
    /\ UNCHANGED <<journey, delivery, order, fanout, queued, task, mail, told, history>>

(* The beat job reads the active deliveries...  *)
StartFanout ==
    /\ fanout = {}
    /\ fanout' = {o \in Order : Active(o)}
    /\ UNCHANGED <<journey, parcel, delivery, order, queued, task, mail, told, history>>

(* ... and queues a sync for each.  *)
Dispatch(o) ==
    /\ o \in fanout
    /\ queued[o] < MaxQueued
    /\ fanout' = fanout \ {o}
    /\ queued' = [queued EXCEPT ![o] = @ + 1]
    /\ owed' = owed \cup {o}
    /\ UNCHANGED <<journey, parcel, delivery, order, task, mail, told, unmailed>>

(* dispatch_task swallows a broker outage; a beat job that dies is a row   *)
(* of these.                                                               *)
LoseDispatch(o) ==
    /\ BrokerOutage
    /\ o \in fanout
    /\ fanout' = fanout \ {o}
    /\ UNCHANGED <<journey, parcel, delivery, order, queued, task, mail, told, history>>

(* A worker takes a message and loads the delivery row.  *)
StartSync(w, o) ==
    /\ w \notin DOMAIN task
    /\ queued[o] > 0
    /\ queued' = [queued EXCEPT ![o] = @ - 1]
    /\ task' = Insert(task, w, [Blank(o, "order") EXCEPT !.delivery = delivery[o]])
    /\ UNCHANGED <<journey, parcel, delivery, order, fanout, mail, told, history>>

LoadOrder(w) ==
    /\ At(w, "order")
    /\ task' = [task EXCEPT ![w].pc = "fetch", ![w].status = order[task[w].order]]
    /\ UNCHANGED <<journey, parcel, delivery, order, fanout, queued, mail, told, history>>

Fetch(w) ==
    /\ At(w, "fetch")
    /\ task' = [task EXCEPT ![w].pc = "commit",
                            ![w].response = Fetched(task[w].order)]
    /\ UNCHANGED <<journey, parcel, delivery, order, fanout, queued, mail, told, history>>

(* Fault: only the newest event is taken over.  *)
OnlyNewest(existing, incoming) ==
    existing \cup {k \in incoming : \A j \in incoming : j <= k}

(* _merge_events on logs seen as sets.  *)
MergeEvents(existing, incoming) == existing \cup incoming

(* Fault: compared with the row after it was written.  *)
NeverChanged(w) == FALSE

StatusChanged(w) == task[w].delivery.status # task[w].response.status

(* Columns equal to the copy loaded are not written.  *)
Commit(w) ==
    /\ At(w, "commit")
    /\ LET t == task[w]
           wanted == [status |-> t.response.status,
                      events |-> MergeEvents(t.delivery.events, t.response.events)]
           new == t.response.status
       IN  /\ delivery' = [delivery EXCEPT ![t.order] = Flush(@, t.delivery, wanted)]
           /\ order' =
                IF /\ new \in DOMAIN DeliveryToOrderStatus
                   /\ t.status # DeliveryToOrderStatus[new]
                THEN [order EXCEPT ![t.order] = DeliveryToOrderStatus[new]]
                ELSE order
    /\ IF StatusChanged(w)
       THEN task' = [task EXCEPT ![w] = Blank(@.order, "mail")] /\ UNCHANGED owed
       ELSE End(w)
    /\ UNCHANGED <<journey, parcel, fanout, queued, mail, told, unmailed>>

DispatchMail(w) ==
    /\ At(w, "mail")
    /\ mail' = mail \cup {task[w].order}
    /\ End(w)
    /\ UNCHANGED <<journey, parcel, delivery, order, fanout, queued, told, unmailed>>

LoseMail(w) ==
    /\ BrokerOutage
    /\ At(w, "mail")
    /\ unmailed' = unmailed \cup {task[w].order}
    /\ End(w)
    /\ UNCHANGED <<journey, parcel, delivery, order, fanout, queued, mail, told>>

(* send_delivery_update_email says what the row says when it is sent; a    *)
(* retry sends it again.  Only the mails that say DELIVERED are recorded.  *)
SendMail(o) ==
    /\ o \in mail
    /\ told' = IF delivery[o].status = "DELIVERED" THEN told \cup {o} ELSE told
    /\ mail' \in {mail, mail \ {o}}
    /\ UNCHANGED <<journey, parcel, delivery, order, fanout, queued, task, history>>
-----------------------------------------------------------------------------
(* The carrier or the database fails; Celery has no retry left, or does    *)
(* not retry this error.                                                   *)
GiveUp(w) ==
    /\ At(w, "order") \/ At(w, "fetch") \/ At(w, "commit")
    /\ End(w)
    /\ UNCHANGED <<journey, parcel, delivery, order, fanout, queued, mail, told, unmailed>>

(* The message of a run goes back to the broker.  *)
Requeue(w) ==
    /\ queued[task[w].order] < MaxQueued
    /\ queued' = [queued EXCEPT ![task[w].order] = @ + 1]

(* autoretry_for: the database or the carrier cannot be reached (OSError). *)
RetrySync(w) ==
    /\ At(w, "order") \/ At(w, "fetch")
    /\ Requeue(w)
    /\ Finish(w)
    /\ UNCHANGED <<journey, parcel, delivery, order, fanout, mail, told, history>>

(* What a sync leaves undone that dies between its commit and its email.   *)
LeaveUnmailed(w) ==
    unmailed' = IF At(w, "mail") THEN unmailed \cup {task[w].order} ELSE unmailed

(* Fault: messages are acknowledged when they are taken.  *)
LoseMessage(w) ==
    /\ w \in DOMAIN task
    /\ LeaveUnmailed(w)
    /\ Finish(w)
    /\ UNCHANGED <<journey, parcel, delivery, order, fanout, queued, mail, told, owed>>

(* The worker dies; its message was not acknowledged (task_acks_late) and  *)
(* goes back (task_reject_on_worker_lost).                                 *)
LoseWorker(w) ==
    /\ w \in DOMAIN task
    /\ Requeue(w)
    /\ LeaveUnmailed(w)
    /\ Finish(w)
    /\ UNCHANGED <<journey, parcel, delivery, order, fanout, mail, told, owed>>

(* visibility_timeout: a message not acknowledged within the hour is       *)
(* delivered again while its task runs on.                                 *)
Redeliver(w) ==
    /\ w \in DOMAIN task
    /\ Requeue(w)
    /\ UNCHANGED <<journey, parcel, delivery, order, fanout, task, mail, told, history>>
-----------------------------------------------------------------------------
Next ==
    \/ StartFanout
    \/ \E o \in Order :
         \/ MoveParcel(o) \/ Dispatch(o) \/ LoseDispatch(o) \/ SendMail(o)
         \/ \E w \in Worker : StartSync(w, o)
    \/ \E w \in Worker :
         \/ LoadOrder(w) \/ Fetch(w) \/ Commit(w) \/ DispatchMail(w) \/ LoseMail(w)
         \/ GiveUp(w) \/ RetrySync(w) \/ LoseWorker(w) \/ Redeliver(w)

Spec == Init /\ [][Next]_vars

(***************************************************************************)
(* Celery beat never stops, and neither the carrier, the broker nor the    *)
(* workers fail every single time.                                         *)
(***************************************************************************)
FairSpec ==
    /\ Spec
    /\ WF_vars(StartFanout)
    /\ \A o \in Order :
         /\ SF_vars(Dispatch(o))
         /\ SF_vars(\E w \in Worker : StartSync(w, o))
    /\ SF_vars(\E w \in Worker : LoadOrder(w))
    /\ SF_vars(\E w \in Worker : Fetch(w))
    /\ SF_vars(\E w \in Worker : Commit(w))
    /\ WF_vars(\E w \in Worker : DispatchMail(w) \/ LoseMail(w))

(* And SMTP does not fail every single time.  *)
MailFairSpec ==
    FairSpec /\ \A o \in Order : SF_vars(SendMail(o) /\ o \notin mail')
-----------------------------------------------------------------------------
(* Properties.  *)

(* Statuses the carrier has reported of the parcel.  *)
Reported(o) == {journey[o][k] : k \in 1..parcel[o]}

(* However syncs overlap, what is recorded is something the carrier did    *)
(* report: an order is not shipped before its parcel was picked up, not    *)
(* delivered before its parcel was, and the buyer is not told it is.       *)
NothingInvented ==
    \A o \in Order :
        /\ delivery[o].status \in Reported(o) \cup {"PENDING"}
        /\ o \in told => "DELIVERED" \in Reported(o)
        /\ delivery[o].events \subseteq 1..parcel[o]
        /\ order[o] = "DELIVERED" => "DELIVERED" \in Reported(o)
        /\ order[o] = "SHIPPED" =>
             Reported(o) \cap {"PICKED_UP", "IN_TRANSIT", "OUT_FOR_DELIVERY"} # {}

(* An overlapping sync may take events out of the log again, but never     *)
(* leaves a hole in it, so the newest event shown is preceded by all of    *)
(* its past (the events are stored as one JSON list).                      *)
LogHasNoHoles ==
    \A o \in Order : \A k \in delivery[o].events : 1..k \subseteq delivery[o].events

(* Once the carrier has delivered a parcel that was never held up, that is *)
(* recorded for good, whatever stale syncs write on the way: in the order  *)
(* or in the delivery (a delivery once recorded as EXCEPTION is not polled *)
(* any more).                                                              *)
Arrived(o) == journey[o][parcel[o]] = "DELIVERED" /\ "EXCEPTION" \notin Reported(o)

DeliveryRecorded ==
    \A o \in Order :
        Arrived(o) ~> [](order[o] = "DELIVERED" \/ delivery[o].status = "DELIVERED")

(* A buyer whose parcel ends up recorded as delivered is mailed so, unless *)
(* the broker refused the email or the worker died between its commit and  *)
(* the dispatch: the sync that is then delivered again sees no change      *)
(* (delivery_tasks.py: "Notifies the buyer via email whenever the status   *)
(* actually changes").  Needs MailFairSpec.                                *)
BuyerTold ==
    \A o \in Order :
        <>[](delivery[o].status = "DELIVERED") => <>(o \in told \cup unmailed)

(* The syncs run as the task queue promises: a queued sync is with the     *)
(* broker or a worker until a run of it has come to its end, whichever     *)
(* workers die, and runs again only because it failed, lost its worker or  *)
(* outlived the timeout (celery_app.py: acks_late).  How often a sync was  *)
(* retried is not kept here: its message goes back as it was.              *)
Queue == INSTANCE TaskQueue
    WITH Job <- Order,
         MaxRetries <- 0,
         asked <- fanout,
         ready <- [m \in Order \X (0..0) |-> queued[m[1]]],
         busy <- [w \in DOMAIN task |-> <<task[w].order, 0>>]

RefinesQueue == Queue!Spec /\ Queue!NeverLoses

(* What the code says and does not do.  *)

(* delivery_tasks.py: the sync "advances Delivery.status if the carrier     *)
(* reports a terminal state, and propagates the matching OrderStatus to    *)
(* the Order row".                                                         *)
StatusesSettle ==
    \A o \in Order :
        Arrived(o) ~> [](order[o] = "DELIVERED" /\ delivery[o].status = "DELIVERED")
=============================================================================
