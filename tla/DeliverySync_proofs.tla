------------------------ MODULE DeliverySync_proofs ------------------------
(***************************************************************************)
(* Proofs of DeliverySync, for any number of orders, workers and journeys: *)
(* what is recorded was reported, without holes, and the syncs run as the  *)
(* task queue promises.                                                    *)
(***************************************************************************)
EXTENDS DeliverySync, TLAPS

(* A delivery row, or a copy of one, that the carrier's reports back: its  *)
(* status was reported and its events have happened, each with its past.   *)
Backed(o, row) ==
    /\ row.status \in Reported(o) \cup {"PENDING"}
    /\ row.events \subseteq 1..parcel[o]
    /\ \A k \in row.events : 1..k \subseteq row.events

(* What the order row and the mails claim was reported.                    *)
Claims(o) ==
    /\ o \in told => "DELIVERED" \in Reported(o)
    /\ order[o] = "DELIVERED" => "DELIVERED" \in Reported(o)
    /\ order[o] = "SHIPPED" =>
         Reported(o) \cap {"PICKED_UP", "IN_TRANSIT", "OUT_FOR_DELIVERY"} # {}

Underway == \A o \in Order : parcel[o] \in DOMAIN journey[o]

(* The rows are backed, and so is everything a running sync holds, however *)
(* old it is: reports are never taken back.                                *)
IInv ==
    /\ TypeOK
    /\ Underway
    /\ \A o \in Order : Backed(o, delivery[o]) /\ Claims(o)
    /\ \A w \in DOMAIN task : /\ Backed(task[w].order, task[w].delivery)
                              /\ Backed(task[w].order, task[w].response)

(* What a running sync holds is well typed.                                *)
LEMMA Running ==
    ASSUME IInv, NEW w \in DOMAIN task
    PROVE  /\ w \in Worker /\ task[w] \in Task /\ task[w].order \in Order
           /\ task[w].delivery \in DeliveryRow /\ task[w].response \in DeliveryRow
           /\ task[w].status \in OrderStatus
           /\ Backed(task[w].order, task[w].delivery)
           /\ Backed(task[w].order, task[w].response)
BY DEF IInv, TypeOK, IsTable, Task

(* The task table when a sync ends or goes on.                             *)
LEMMA Finished ==
    ASSUME IInv, NEW w, Finish(w)
    PROVE  /\ IsTable(task', Worker, Task)
           /\ DOMAIN task' = DOMAIN task \ {w}
           /\ \A v \in DOMAIN task' : task'[v] = task[v]
<1>1. IsTable(task', Worker, Task)
  BY DEF IsTable, Delete, IInv, TypeOK, Finish
<1> QED
  BY <1>1 DEF Finish, Delete

(* A task that moves on leaves the other tasks alone.                      *)
LEMMA Moved ==
    ASSUME IInv, NEW w \in DOMAIN task, NEW t \in Task, task' = [task EXCEPT ![w] = t]
    PROVE  /\ IsTable(task', Worker, Task)
           /\ DOMAIN task' = DOMAIN task /\ task'[w] = t
           /\ \A v \in DOMAIN task \ {w} : task'[v] = task[v]
<1>1. IsTable(task', Worker, Task)
  BY DEF IsTable, IInv, TypeOK
<1> QED
  BY <1>1

(* A sync that holds no rows holds nothing that was not reported.          *)
LEMMA BlankBacked ==
    ASSUME NEW o \in Order, NEW pc \in {"order", "fetch", "commit", "mail"}
    PROVE  /\ NewRow \in DeliveryRow /\ Backed(o, NewRow)
           /\ Blank(o, pc) \in Task /\ Blank(o, pc).order = o /\ Blank(o, pc).pc = pc
           /\ Blank(o, pc).delivery = NewRow /\ Blank(o, pc).response = NewRow
<1>1. NewRow \in DeliveryRow /\ Backed(o, NewRow)
  BY DEF NewRow, DeliveryRow, Status, Backed
<1> QED
  BY <1>1 DEF Blank, Task, OrderStatus

(* An answer of the carrier, and how a row is backed when it is merged.    *)
LEMMA FetchedBacked ==
    ASSUME IInv, NEW o \in Order
    PROVE  Fetched(o) \in DeliveryRow /\ Backed(o, Fetched(o))
<1>1. /\ journey[o] \in Seq(Status) /\ journey[o] \in Journeys
      /\ parcel[o] \in DOMAIN journey[o]
  BY JourneyAssumption DEF IInv, TypeOK, Underway
<1>2. /\ DOMAIN journey[o] = 1..Len(journey[o]) /\ Len(journey[o]) \in Nat
      /\ journey[o][parcel[o]] \in Status
  BY <1>1
<1>3. parcel[o] \in Nat /\ 1..parcel[o] \subseteq DOMAIN journey[o]
  BY <1>1, <1>2
<1>4. DOMAIN journey[o] \subseteq Event
  BY <1>1 DEF Event
<1>5. Fetched(o) \in DeliveryRow
  BY <1>2, <1>3, <1>4 DEF Fetched, DeliveryRow
<1>6. journey[o][parcel[o]] \in Reported(o)
  BY <1>1, <1>2 DEF Reported
<1>7. \A k \in 1..parcel[o] : 1..k \subseteq 1..parcel[o]
  BY <1>3
<1> QED
  BY <1>5, <1>6, <1>7 DEF Fetched, Backed

(* A merge of what the carrier said flushes only what the carrier said.    *)
LEMMA MergeBacked ==
    ASSUME NEW o, NEW row \in DeliveryRow, NEW loaded \in DeliveryRow,
           NEW response \in DeliveryRow,
           Backed(o, row), Backed(o, loaded), Backed(o, response),
           NEW wanted, wanted = [status |-> response.status,
                                 events |-> MergeEvents(loaded.events, response.events)]
    PROVE  /\ Flush(row, loaded, wanted) \in DeliveryRow
           /\ Backed(o, Flush(row, loaded, wanted))
<1>1. Backed(o, wanted) /\ wanted \in DeliveryRow
  BY DEF Backed, MergeEvents, DeliveryRow
<1>2. /\ Flush(row, loaded, wanted) \in DeliveryRow
      /\ Flush(row, loaded, wanted).status \in {row.status, wanted.status}
      /\ Flush(row, loaded, wanted).events \in {row.events, wanted.events}
  BY <1>1 DEF Flush, DeliveryRow
<1> QED
  BY <1>1, <1>2 DEF Backed

(* Steps that do not move a parcel.                                        *)
LEMMA QuietInv ==
    ASSUME IInv, TypeOK', UNCHANGED <<journey, parcel>>,
           \A o \in Order : Backed(o, delivery'[o]) /\ Claims(o)',
           \A w \in DOMAIN task' : /\ Backed(task'[w].order, task'[w].delivery)
                                   /\ Backed(task'[w].order, task'[w].response)
    PROVE  IInv'
<1>1. Underway'
  BY DEF IInv, Underway
<1>2. ASSUME NEW o, NEW row, Backed(o, row)
      PROVE  /\ row.status \in Reported(o)' \cup {"PENDING"}
             /\ row.events \subseteq 1..parcel'[o]
             /\ \A k \in row.events : 1..k \subseteq row.events
  BY <1>2 DEF Backed, Reported
<1> QED
  BY <1>1, <1>2 DEF IInv, Backed

(* Steps that write no row, tell nobody and load nothing.                  *)
LEMMA SilentInv ==
    ASSUME IInv, UNCHANGED <<journey, parcel, delivery, order, told>>,
           IsTable(task', Worker, Task), DOMAIN task' \subseteq DOMAIN task,
           \A w \in DOMAIN task' : /\ task'[w].order = task[w].order
                                   /\ task'[w].delivery = task[w].delivery
                                   /\ task'[w].response = task[w].response,
           fanout' \subseteq Order, queued' \in [Order -> 0..MaxQueued],
           mail' \subseteq Order, owed' \subseteq Order, unmailed' \subseteq Order
    PROVE  IInv'
<1>1. TypeOK'
  BY DEF IInv, TypeOK
<1>2. \A o \in Order : Claims(o)'
  BY DEF IInv, Claims, Reported
<1> QED
  BY <1>1, <1>2, QuietInv DEF IInv

(* MoveParcel keeps the inductive invariant.                               *)
LEMMA MoveParcelInv ==
    ASSUME IInv, NEW o \in Order, MoveParcel(o)
    PROVE  IInv'
<1>1. /\ parcel[o] < Len(journey[o])
      /\ parcel' = [parcel EXCEPT ![o] = @ + 1]
      /\ UNCHANGED <<journey, delivery, order, fanout, queued, task, mail, told, owed, unmailed>>
  BY DEF MoveParcel, history
<1>2. /\ journey[o] \in Seq(Status) /\ journey[o] \in Journeys
      /\ parcel[o] \in DOMAIN journey[o]
  BY JourneyAssumption DEF IInv, TypeOK, Underway
<1>3. /\ parcel[o] \in Nat /\ parcel[o] + 1 \in DOMAIN journey[o]
  BY <1>1, <1>2
<1>4. parcel[o] + 1 \in Event
  BY <1>2, <1>3 DEF Event
<1>5. TypeOK'
  BY <1>1, <1>4 DEF IInv, TypeOK
<1>6. Underway'
  BY <1>1, <1>3 DEF IInv, Underway, TypeOK
<1>7. ASSUME NEW p \in Order
      PROVE  1..parcel[p] \subseteq 1..parcel'[p] /\ Reported(p) \subseteq Reported(p)'
  <2>1. 1..parcel[p] \subseteq 1..parcel'[p]
    BY <1>1, <1>3 DEF IInv, TypeOK
  <2> QED
    BY <1>1, <2>1 DEF Reported
<1>8. ASSUME NEW p \in Order, NEW row, Backed(p, row)
      PROVE  /\ row.status \in Reported(p)' \cup {"PENDING"}
             /\ row.events \subseteq 1..parcel'[p]
             /\ \A k \in row.events : 1..k \subseteq row.events
  BY <1>7, <1>8 DEF Backed
<1>9. \A p \in Order : Backed(p, delivery[p])' /\ Claims(p)'
  BY <1>1, <1>7, <1>8 DEF IInv, Backed, Claims
<1>10. \A w \in DOMAIN task' : /\ Backed(task[w].order, task[w].delivery)'
                               /\ Backed(task[w].order, task[w].response)'
  BY <1>1, <1>8, Running DEF Backed
<1> QED
  BY <1>5, <1>6, <1>9, <1>10 DEF IInv

(* The beat job and the mails.                                             *)
LEMMA StartFanoutInv ==
    ASSUME IInv, StartFanout
    PROVE  IInv'
<1>1. /\ UNCHANGED <<journey, parcel, delivery, order, queued, task, mail, told, owed, unmailed>>
      /\ fanout' \subseteq Order
  BY DEF StartFanout, history
<1> QED
  BY <1>1, SilentInv DEF IInv, TypeOK

(* Dispatch keeps the inductive invariant.                                 *)
LEMMA DispatchInv ==
    ASSUME IInv, NEW o \in Order, Dispatch(o) \/ LoseDispatch(o)
    PROVE  IInv'
<1>1. /\ UNCHANGED <<journey, parcel, delivery, order, task, mail, told, unmailed>>
      /\ fanout' \subseteq Order /\ owed' \subseteq Order
  BY DEF Dispatch, LoseDispatch, IInv, TypeOK, history
<1>2. queued' \in [Order -> 0..MaxQueued]
  BY MaxQueuedAssumption DEF Dispatch, LoseDispatch, IInv, TypeOK
<1> QED
  BY <1>1, <1>2, SilentInv DEF IInv, TypeOK

(* SendMail keeps the inductive invariant.                                 *)
LEMMA SendMailInv ==
    ASSUME IInv, NEW o \in Order, SendMail(o)
    PROVE  IInv'
<1>1. /\ told' = IF delivery[o].status = "DELIVERED" THEN told \cup {o} ELSE told
      /\ mail' \subseteq mail
      /\ UNCHANGED <<journey, parcel, delivery, order, fanout, queued, task, owed, unmailed>>
  BY DEF SendMail, history
<1>2. TypeOK'
  BY <1>1 DEF IInv, TypeOK
<1>3. delivery[o].status = "DELIVERED" => "DELIVERED" \in Reported(o)
  BY DEF IInv, Backed
<1>4. \A p \in Order : Claims(p)'
  BY <1>1, <1>3 DEF IInv, Claims, Reported
<1> QED
  BY <1>1, <1>2, <1>4, QuietInv DEF IInv

(* A sync, step by step.                                                   *)
LEMMA StartSyncInv ==
    ASSUME IInv, NEW w \in Worker, NEW o \in Order, StartSync(w, o)
    PROVE  IInv'
<1> DEFINE t == [Blank(o, "order") EXCEPT !.delivery = delivery[o]]
<1>1. /\ w \notin DOMAIN task /\ queued[o] > 0
      /\ queued' = [queued EXCEPT ![o] = @ - 1]
      /\ task' = Insert(task, w, t)
      /\ UNCHANGED <<journey, parcel, delivery, order, fanout, mail, told, owed, unmailed>>
  BY DEF StartSync, history
<1>2. /\ t \in Task /\ t.order = o /\ t.delivery = delivery[o] /\ t.response = NewRow
      /\ Backed(o, NewRow)
  BY BlankBacked DEF IInv, TypeOK, Task, Blank
<1> HIDE DEF t
<1>3. IsTable(task', Worker, Task)
  BY <1>1, <1>2 DEF IsTable, Insert, IInv, TypeOK
<1>4. /\ DOMAIN task' = DOMAIN task \cup {w} /\ task'[w] = t
      /\ \A v \in DOMAIN task : task'[v] = task[v]
  BY <1>1 DEF Insert
<1>5. queued' \in [Order -> 0..MaxQueued]
  BY <1>1, MaxQueuedAssumption DEF IInv, TypeOK
<1>6. TypeOK'
  BY <1>1, <1>3, <1>5 DEF IInv, TypeOK
<1>7. \A p \in Order : Backed(p, delivery'[p]) /\ Claims(p)'
  BY <1>1 DEF IInv, Claims, Reported
<1>8. \A v \in DOMAIN task' : /\ Backed(task'[v].order, task'[v].delivery)
                              /\ Backed(task'[v].order, task'[v].response)
  BY <1>2, <1>4 DEF IInv
<1> QED
  BY <1>1, <1>6, <1>7, <1>8, QuietInv

(* LoadOrder keeps the inductive invariant.                                *)
LEMMA LoadOrderInv ==
    ASSUME IInv, NEW w \in Worker, LoadOrder(w)
    PROVE  IInv'
<1> DEFINE t == [task[w] EXCEPT !.pc = "fetch", !.status = order[task[w].order]]
<1>1. /\ w \in DOMAIN task /\ task' = [task EXCEPT ![w] = t]
      /\ UNCHANGED <<journey, parcel, delivery, order, fanout, queued, mail, told, owed, unmailed>>
  BY DEF LoadOrder, At, history
<1>2. task[w] \in Task /\ task[w].order \in Order
  BY <1>1, Running
<1>3. /\ t \in Task /\ t.order = task[w].order
      /\ t.delivery = task[w].delivery /\ t.response = task[w].response
  BY <1>2 DEF IInv, TypeOK, Task
<1> HIDE DEF t
<1>4. /\ IsTable(task', Worker, Task)
      /\ DOMAIN task' = DOMAIN task /\ task'[w] = t
      /\ \A v \in DOMAIN task \ {w} : task'[v] = task[v]
  BY <1>1, <1>3, Moved
<1> QED
  BY <1>1, <1>3, <1>4, SilentInv DEF IInv, TypeOK

(* Fetch keeps the inductive invariant.                                    *)
LEMMA FetchInv ==
    ASSUME IInv, NEW w \in Worker, Fetch(w)
    PROVE  IInv'
<1> DEFINE o == task[w].order
           t == [task[w] EXCEPT !.pc = "commit", !.response = Fetched(o)]
<1>1. /\ w \in DOMAIN task /\ task' = [task EXCEPT ![w] = t]
      /\ UNCHANGED <<journey, parcel, delivery, order, fanout, queued, mail, told, owed, unmailed>>
  BY DEF Fetch, At, history
<1>2. task[w] \in Task /\ o \in Order /\ Backed(o, task[w].delivery)
  BY <1>1, Running
<1>3. Fetched(o) \in DeliveryRow /\ Backed(o, Fetched(o))
  BY <1>2, FetchedBacked
<1>4. t \in Task /\ t.order = o /\ t.delivery = task[w].delivery /\ t.response = Fetched(o)
  BY <1>2, <1>3 DEF Task
<1> HIDE DEF t
<1>5. /\ IsTable(task', Worker, Task)
      /\ DOMAIN task' = DOMAIN task /\ task'[w] = t
      /\ \A v \in DOMAIN task \ {w} : task'[v] = task[v]
  BY <1>1, <1>4, Moved
<1>6. TypeOK'
  BY <1>1, <1>5 DEF IInv, TypeOK
<1>7. \A p \in Order : Backed(p, delivery'[p]) /\ Claims(p)'
  BY <1>1 DEF IInv, Claims, Reported
<1>8. \A v \in DOMAIN task' : /\ Backed(task'[v].order, task'[v].delivery)
                              /\ Backed(task'[v].order, task'[v].response)
  BY <1>2, <1>3, <1>4, <1>5 DEF IInv
<1> QED
  BY <1>1, <1>6, <1>7, <1>8, QuietInv

(* The status an order is set to is the one of a status that was reported. *)
LEMMA PropagatedClaims ==
    ASSUME NEW o, NEW status \in DOMAIN DeliveryToOrderStatus, status \in Reported(o)
    PROVE  LET new == DeliveryToOrderStatus[status]
           IN  /\ new \in OrderStatus
               /\ new = "DELIVERED" => "DELIVERED" \in Reported(o)
               /\ new = "SHIPPED" =>
                    Reported(o) \cap {"PICKED_UP", "IN_TRANSIT", "OUT_FOR_DELIVERY"} # {}
BY DEF DeliveryToOrderStatus, OrderStatus

(* Commit keeps the inductive invariant.                                   *)
LEMMA CommitInv ==
    ASSUME IInv, NEW w \in Worker, Commit(w)
    PROVE  IInv'
<1> DEFINE t == task[w]
           o == t.order
           new == t.response.status
           wanted == [status |-> new,
                      events |-> MergeEvents(t.delivery.events, t.response.events)]
           row == Flush(delivery[o], t.delivery, wanted)
<1>1. /\ w \in DOMAIN task
      /\ delivery' = [delivery EXCEPT ![o] = row]
      /\ order' = IF /\ new \in DOMAIN DeliveryToOrderStatus
                     /\ t.status # DeliveryToOrderStatus[new]
                  THEN [order EXCEPT ![o] = DeliveryToOrderStatus[new]]
                  ELSE order
      /\ \/ task' = [task EXCEPT ![w] = Blank(o, "mail")] /\ UNCHANGED owed
         \/ End(w)
      /\ UNCHANGED <<journey, parcel, fanout, queued, mail, told, unmailed>>
  BY DEF Commit, At
<1>2. /\ o \in Order /\ t.delivery \in DeliveryRow /\ t.response \in DeliveryRow
      /\ Backed(o, t.delivery) /\ Backed(o, t.response)
      /\ delivery[o] \in DeliveryRow /\ Backed(o, delivery[o])
  BY <1>1, Running DEF IInv, TypeOK
<1>3. row \in DeliveryRow /\ Backed(o, row)
  BY <1>2, MergeBacked
<1>4. /\ IsTable(task', Worker, Task) /\ owed' \subseteq Order
      /\ \A v \in DOMAIN task' : \/ v \in DOMAIN task /\ task'[v] = task[v]
                                 \/ task'[v] = Blank(o, "mail")
  <2>1. CASE End(w)
    BY <2>1, Finished DEF End, IInv, TypeOK
  <2>2. CASE task' = [task EXCEPT ![w] = Blank(o, "mail")] /\ UNCHANGED owed
    <3>1. Blank(o, "mail") \in Task
      BY <1>2, BlankBacked
    <3> QED
      BY <1>1, <2>2, <3>1, Moved DEF IInv, TypeOK
  <2> QED
    BY <1>1, <2>1, <2>2
<1>5. new \in DOMAIN DeliveryToOrderStatus => new \in Reported(o)
  BY <1>2 DEF Backed, DeliveryToOrderStatus
<1> HIDE DEF row, wanted
<1>6. TypeOK'
  <2>1. order' \in [Order -> OrderStatus]
    BY <1>1, <1>2, <1>5, PropagatedClaims DEF IInv, TypeOK
  <2> QED
    BY <1>1, <1>2, <1>3, <1>4, <2>1 DEF IInv, TypeOK
<1>7. \A p \in Order : Backed(p, delivery'[p])
  BY <1>1, <1>3 DEF IInv, TypeOK
<1>8. ASSUME NEW p \in Order
      PROVE  Claims(p)'
  <2>1. CASE order'[p] = order[p]
    BY <1>1, <2>1 DEF IInv, Claims, Reported
  <2>2. CASE order'[p] # order[p]
    <3>1. p = o /\ new \in DOMAIN DeliveryToOrderStatus
          /\ order'[p] = DeliveryToOrderStatus[new]
      BY <1>1, <2>2 DEF IInv, TypeOK
    <3>2. /\ order'[p] = "DELIVERED" => "DELIVERED" \in Reported(p)
          /\ order'[p] = "SHIPPED" =>
               Reported(p) \cap {"PICKED_UP", "IN_TRANSIT", "OUT_FOR_DELIVERY"} # {}
      BY <3>1, <1>5, PropagatedClaims
    <3> QED
      BY <1>1, <3>2 DEF IInv, Claims, Reported
  <2> QED
    BY <2>1, <2>2
<1>9. \A v \in DOMAIN task' : /\ Backed(task'[v].order, task'[v].delivery)
                              /\ Backed(task'[v].order, task'[v].response)
  <2>1. /\ Blank(o, "mail").order = o /\ Backed(o, NewRow)
        /\ Blank(o, "mail").delivery = NewRow /\ Blank(o, "mail").response = NewRow
    BY <1>2, BlankBacked
  <2> QED
    BY <1>4, <2>1 DEF IInv
<1> QED
  BY <1>1, <1>6, <1>7, <1>8, <1>9, QuietInv

(* A message goes back to the broker.                                      *)
LEMMA Requeued ==
    ASSUME IInv, NEW w \in DOMAIN task, Requeue(w)
    PROVE  queued' \in [Order -> 0..MaxQueued] /\ queued'[task[w].order] > 0
<1>1. task[w].order \in Order /\ queued[task[w].order] \in 0..MaxQueued
  BY Running DEF IInv, TypeOK
<1> QED
  BY <1>1, MaxQueuedAssumption DEF Requeue, IInv, TypeOK

(* A sync ends, or starts again.                                           *)
LEMMA EndInv ==
    ASSUME IInv, NEW w \in Worker,
           \/ DispatchMail(w) \/ LoseMail(w) \/ GiveUp(w) \/ RetrySync(w) \/ LoseWorker(w)
    PROVE  IInv'
<1>1. /\ w \in DOMAIN task /\ Finish(w)
      /\ UNCHANGED <<journey, parcel, delivery, order, fanout, told>>
  BY DEF DispatchMail, LoseMail, GiveUp, RetrySync, LoseWorker, At, End
<1>2. task[w].order \in Order
  BY <1>1, Running
<1>3. mail' \subseteq Order /\ owed' \subseteq Order /\ unmailed' \subseteq Order
  BY <1>2 DEF DispatchMail, LoseMail, GiveUp, RetrySync, LoseWorker, LeaveUnmailed,
              End, history, IInv, TypeOK
<1>4. queued' \in [Order -> 0..MaxQueued]
  <2>1. UNCHANGED queued \/ Requeue(w)
    BY DEF DispatchMail, LoseMail, GiveUp, RetrySync, LoseWorker
  <2> QED
    BY <1>1, <2>1, Requeued DEF IInv, TypeOK
<1>5. /\ IsTable(task', Worker, Task) /\ DOMAIN task' \subseteq DOMAIN task
      /\ \A v \in DOMAIN task' : task'[v] = task[v]
  BY <1>1, Finished
<1> QED
  BY <1>1, <1>3, <1>4, <1>5, SilentInv DEF IInv, TypeOK

(* Redeliver keeps the inductive invariant.                                *)
LEMMA RedeliverInv ==
    ASSUME IInv, NEW w \in Worker, Redeliver(w)
    PROVE  IInv'
<1>1. /\ w \in DOMAIN task /\ Requeue(w)
      /\ UNCHANGED <<journey, parcel, delivery, order, fanout, task, mail, told, owed, unmailed>>
  BY DEF Redeliver, history
<1> QED
  BY <1>1, Requeued, SilentInv DEF IInv, TypeOK

(* A step that changes nothing keeps the inductive invariant.              *)
LEMMA StutterInv ==
    ASSUME IInv, UNCHANGED vars
    PROVE  IInv'
BY SilentInv DEF IInv, TypeOK, vars

(* The initial states satisfy the inductive invariant.                     *)
LEMMA InitInv == Init => IInv
<1> SUFFICES ASSUME Init
             PROVE  IInv
  OBVIOUS
<1>1. ASSUME NEW o \in Order
      PROVE  /\ journey[o] \in Seq(Status) /\ journey[o] \in Journeys
             /\ parcel[o] \in DOMAIN journey[o] /\ parcel[o] \in Event
  <2>1. journey[o] \in Journeys /\ parcel[o] = 1
    BY DEF Init
  <2>2. journey[o] \in Seq(Status) /\ journey[o] # <<>>
    BY <2>1, JourneyAssumption
  <2>3. 1 \in DOMAIN journey[o]
    BY <2>2
  <2> QED
    BY <2>1, <2>2, <2>3 DEF Event
<1>2. TypeOK
  BY <1>1, MaxQueuedAssumption
     DEF Init, TypeOK, IsTable, EmptyTable, DeliveryRow, NewRow, Status, OrderStatus
<1>3. \A o \in Order : Backed(o, delivery[o]) /\ Claims(o)
  BY DEF Init, Backed, Claims, NewRow
<1>4. DOMAIN task = {}
  BY DEF IsTable, EmptyTable, Init
<1> QED
  BY <1>1, <1>2, <1>3, <1>4 DEF IInv, Underway

(* The inductive invariant holds of every reachable state.                 *)
THEOREM Invariance == Spec => []IInv
<1>1. IInv /\ [Next]_vars => IInv'
  <2> SUFFICES ASSUME IInv, [Next]_vars
               PROVE  IInv'
    OBVIOUS
  <2> QED
    BY StartFanoutInv, DispatchInv, MoveParcelInv, SendMailInv, StartSyncInv,
       LoadOrderInv, FetchInv, CommitInv, EndInv, RedeliverInv, StutterInv DEF Next
<1> QED
  BY <1>1, InitInv, PTL DEF Spec

(* Every reachable state is well typed.                                    *)
THEOREM TypeCorrect == Spec => []TypeOK
<1>1. IInv => TypeOK
  BY DEF IInv
<1> QED
  BY <1>1, Invariance, PTL

(* However many syncs overlap, what is recorded and mailed was reported:   *)
(* everything a sync holds was, and reports are never taken back.          *)
THEOREM RecordedWasReported == Spec => []NothingInvented
<1>1. IInv => NothingInvented
  BY DEF IInv, Backed, Claims, NothingInvented
<1> QED
  BY <1>1, Invariance, PTL

(* Lost updates of the event log may shorten it, but leave no hole in it.  *)
THEOREM LogsHaveNoHoles == Spec => []LogHasNoHoles
<1>1. IInv => LogHasNoHoles
  BY DEF IInv, Backed, LogHasNoHoles
<1> QED
  BY <1>1, Invariance, PTL
-----------------------------------------------------------------------------
(* No queued sync is lost: it is on the broker or with a worker until a    *)
(* run of it has ended.                                                    *)
Kept ==
    \A o \in owed : queued[o] > 0 \/ \E w \in DOMAIN task : task[w].order = o

(* A run that is over frees its worker, and its order is no longer owed.   *)
LEMMA EndKept ==
    ASSUME IInv, Kept, NEW w \in DOMAIN task, End(w), UNCHANGED queued
    PROVE  Kept'
<1>1. /\ owed' = owed \ {task[w].order} /\ DOMAIN task' = DOMAIN task \ {w}
      /\ \A v \in DOMAIN task' : task'[v] = task[v]
  BY Finished DEF End
<1> QED
  BY <1>1 DEF Kept

(* A run that breaks off leaves its message with the broker.               *)
LEMMA RequeueKept ==
    ASSUME IInv, Kept, NEW w \in DOMAIN task, Requeue(w), UNCHANGED owed,
           Finish(w) \/ UNCHANGED task
    PROVE  Kept'
<1>1. queued'[task[w].order] > 0
  BY Requeued
<1>2. \A v \in DOMAIN task \ {w} : v \in DOMAIN task' /\ task'[v] = task[v]
  BY Finished
<1>3. \A o \in Order : queued[o] > 0 => queued'[o] > 0
  BY <1>1 DEF Requeue, IInv, TypeOK
<1> QED
  BY <1>1, <1>2, <1>3 DEF Kept, IInv, TypeOK

(* A run that goes on is of the order it was of.                           *)
LEMMA OngoingKept ==
    ASSUME Kept, UNCHANGED <<queued, owed>>, DOMAIN task' = DOMAIN task,
           \A v \in DOMAIN task : task'[v].order = task[v].order
    PROVE  Kept'
BY DEF Kept

(* The tasks a load or an answer moves on keep their orders.               *)
LEMMA StepKeepsOrders ==
    ASSUME IInv, NEW w \in Worker,
           \/ LoadOrder(w) \/ Fetch(w)
           \/ At(w, "commit") /\ task' = [task EXCEPT ![w] = Blank(@.order, "mail")]
    PROVE  DOMAIN task' = DOMAIN task /\ \A v \in DOMAIN task : task'[v].order = task[v].order
<1>1. /\ w \in DOMAIN task
      /\ \/ task' = [task EXCEPT ![w].pc = "fetch", ![w].status = order[task[w].order]]
         \/ task' = [task EXCEPT ![w].pc = "commit", ![w].response = Fetched(task[w].order)]
         \/ task' = [task EXCEPT ![w] = Blank(task[w].order, "mail")]
  BY DEF LoadOrder, Fetch, At
<1>2. task[w] \in Task /\ Blank(task[w].order, "mail").order = task[w].order
  BY <1>1, Running DEF Blank
<1> QED
  BY <1>1, <1>2 DEF Task

(* Every step keeps every queued sync.                                     *)
LEMMA KeptStep ==
    ASSUME IInv, Kept, [Next]_vars
    PROVE  Kept'
<1>1. ASSUME NEW o \in Order, Dispatch(o)
      PROVE  Kept'
  BY <1>1 DEF Dispatch, Kept, IInv, TypeOK
<1>2. ASSUME NEW o \in Order, NEW w \in Worker, StartSync(w, o)
      PROVE  Kept'
  <2>1. /\ w \notin DOMAIN task /\ UNCHANGED owed
        /\ queued' = [queued EXCEPT ![o] = @ - 1]
        /\ DOMAIN task' = DOMAIN task \cup {w} /\ task'[w].order = o
        /\ \A v \in DOMAIN task : task'[v] = task[v]
    BY <1>2 DEF StartSync, Insert, Blank, history
  <2> QED
    BY <2>1 DEF Kept, IInv, TypeOK
<1>3. ASSUME NEW w \in Worker, DispatchMail(w) \/ LoseMail(w) \/ GiveUp(w)
      PROVE  Kept'
  BY <1>3, EndKept DEF DispatchMail, LoseMail, GiveUp, At
<1>4. ASSUME NEW w \in Worker, RetrySync(w) \/ LoseWorker(w) \/ Redeliver(w)
      PROVE  Kept'
  BY <1>4, RequeueKept DEF RetrySync, LoseWorker, Redeliver, At, history
<1>5. ASSUME NEW w \in Worker, Commit(w)
      PROVE  Kept'
  <2>1. /\ w \in DOMAIN task /\ At(w, "commit") /\ UNCHANGED queued
        /\ \/ task' = [task EXCEPT ![w] = Blank(@.order, "mail")] /\ UNCHANGED owed
           \/ End(w)
    BY <1>5 DEF Commit, At
  <2> QED
    BY <2>1, EndKept, StepKeepsOrders, OngoingKept
<1>6. ASSUME NEW w \in Worker, LoadOrder(w) \/ Fetch(w)
      PROVE  Kept'
  <2>1. UNCHANGED <<queued, owed>>
    BY <1>6 DEF LoadOrder, Fetch, history
  <2> QED
    BY <1>6, <2>1, StepKeepsOrders, OngoingKept
<1>7. ASSUME \/ StartFanout \/ UNCHANGED vars
             \/ \E o \in Order : MoveParcel(o) \/ LoseDispatch(o) \/ SendMail(o)
      PROVE  Kept'
  BY <1>7 DEF StartFanout, MoveParcel, LoseDispatch, SendMail, history, vars, Kept
<1> QED
  BY <1>1, <1>2, <1>3, <1>4, <1>5, <1>6, <1>7 DEF Next

(* No queued sync is lost in any reachable state.                          *)
THEOREM SyncsKept == Spec => []Kept
<1>1. Init => Kept
  BY DEF Init, Kept
<1> QED
  BY <1>1, KeptStep, Invariance, PTL DEF Spec
-----------------------------------------------------------------------------
(* The syncs run as the task queue promises: each step that changes the    *)
(* messages of a sync, its worker or what is owed is a step of the queue.  *)

Ready == [m \in Order \X (0..0) |-> queued[m[1]]]
Busy == [w \in DOMAIN task |-> <<task[w].order, 0>>]

(* The messages are the orders.                                            *)
LEMMA Messages ==
    /\ Queue!Message = Order \X (0..0)
    /\ \A m \in Queue!Message : m[1] \in Order /\ m = <<m[1], 0>>
    /\ \A o \in Order : <<o, 0>> \in Queue!Message
BY DEF Queue!Message

(* A message more or less of an order is one more or less in the queue.    *)
LEMMA ReadyCounts ==
    ASSUME IInv, NEW o \in Order
    PROVE  /\ Ready[<<o, 0>>] = queued[o]
           /\ queued' = [queued EXCEPT ![o] = @ + 1] =>
                Ready' = [Ready EXCEPT ![<<o, 0>>] = @ + 1]
           /\ queued' = [queued EXCEPT ![o] = @ - 1] =>
                Ready' = [Ready EXCEPT ![<<o, 0>>] = @ - 1]
<1>1. \A m \in Order \X (0..0) : m[1] \in Order /\ m = <<m[1], 0>>
  OBVIOUS
<1>2. <<o, 0>> \in Order \X (0..0)
  OBVIOUS
<1>3. ASSUME queued' = [queued EXCEPT ![o] = @ + 1]
      PROVE  Ready' = [Ready EXCEPT ![<<o, 0>>] = @ + 1]
  BY <1>1, <1>2, <1>3 DEF Ready, IInv, TypeOK
<1>4. ASSUME queued' = [queued EXCEPT ![o] = @ - 1]
      PROVE  Ready' = [Ready EXCEPT ![<<o, 0>>] = @ - 1]
  BY <1>1, <1>2, <1>4 DEF Ready, IInv, TypeOK
<1> QED
  BY <1>2, <1>3, <1>4 DEF Ready

(* A worker that is done is free in the queue.                             *)
LEMMA FinishBusy ==
    ASSUME NEW w, Finish(w)
    PROVE  Busy' = Queue!Delete(Busy, w)
BY DEF Busy, Finish, Delete, Queue!Delete

(* Workers that keep their orders are as busy as before.                   *)
LEMMA KeepBusy ==
    ASSUME IInv, DOMAIN task' = DOMAIN task,
           \A v \in DOMAIN task : task'[v].order = task[v].order
    PROVE  Busy' = Busy
BY DEF Busy

(* The first state is the first state of the queue.                        *)
LEMMA QueueInit == Init => Queue!Init
<1> SUFFICES ASSUME Init
             PROVE  Queue!Init
  OBVIOUS
<1>1. Busy = Queue!EmptyTable
  BY DEF Init, Busy, EmptyTable, Queue!EmptyTable
<1>2. Ready = [m \in Queue!Message |-> 0]
  BY Messages DEF Init, Ready
<1> QED
  BY <1>1, <1>2 DEF Init, Queue!Init, Busy, Ready

(* A run that ends is acknowledged.                                        *)
LEMMA EndAcks ==
    ASSUME IInv, NEW w \in DOMAIN task, End(w), UNCHANGED <<fanout, queued>>
    PROVE  Queue!Ack(w)
<1>1. Busy' = Queue!Delete(Busy, w) /\ DOMAIN Busy = DOMAIN task
      /\ Busy[w][1] = task[w].order /\ UNCHANGED Ready
  BY FinishBusy DEF End, Busy, Ready
<1> QED
  BY <1>1 DEF Queue!Ack, End, Busy, Ready

(* A run that fails or loses its worker gives its message back.            *)
LEMMA RequeueReturns ==
    ASSUME IInv, NEW w \in DOMAIN task, Requeue(w), UNCHANGED <<fanout, owed>>
    PROVE  /\ Finish(w) => Queue!Return(w)
           /\ UNCHANGED task => Queue!Redeliver(w)
<1>1. /\ Ready' = [Ready EXCEPT ![<<task[w].order, 0>>] = @ + 1]
      /\ w \in DOMAIN Busy /\ Busy[w] = <<task[w].order, 0>>
  BY Running, ReadyCounts DEF Requeue, Busy
<1>2. ASSUME Finish(w)
      PROVE  Queue!Return(w)
  <2>1. Busy' = Queue!Delete(Busy, w)
    BY <1>2, FinishBusy
  <2> QED
    BY <1>1, <2>1 DEF Queue!Return, Queue!Replace, Busy, Ready
<1>3. ASSUME UNCHANGED task
      PROVE  Queue!Redeliver(w)
  <2>1. UNCHANGED Busy
    BY <1>3 DEF Busy
  <2> QED
    BY <1>1, <2>1 DEF Queue!Redeliver, Busy, Ready
<1> QED
  BY <1>2, <1>3

(* Every step is a step of the queue or leaves it alone.                   *)
LEMMA QueueStep ==
    ASSUME IInv, [Next]_vars
    PROVE  [Queue!Next]_(Queue!vars)
<1>1. ASSUME StartFanout
      PROVE  \E jobs \in SUBSET Order : Queue!Ask(jobs)
  <2>1. fanout' = fanout \cup fanout' /\ fanout' \in SUBSET Order
    BY <1>1 DEF StartFanout
  <2>2. UNCHANGED <<Ready, Busy, owed>>
    BY <1>1 DEF StartFanout, Ready, Busy, history
  <2> QED
    BY <2>1, <2>2 DEF Queue!Ask, Busy, Ready
<1>2. ASSUME NEW o \in Order, Dispatch(o)
      PROVE  Queue!Publish(o)
  <2>1. Ready' = [Ready EXCEPT ![<<o, 0>>] = @ + 1] /\ UNCHANGED Busy
    BY <1>2, ReadyCounts DEF Dispatch, Busy
  <2> QED
    BY <1>2, <2>1 DEF Dispatch, Queue!Publish, Busy, Ready
<1>3. ASSUME NEW o \in Order, LoseDispatch(o)
      PROVE  Queue!Drop(o)
  <2>1. UNCHANGED <<Ready, Busy>>
    BY <1>3 DEF LoseDispatch, Busy, Ready
  <2> QED
    BY <1>3, <2>1 DEF LoseDispatch, history, Queue!Drop, Busy, Ready
<1>4. ASSUME NEW o \in Order, NEW w \in Worker, StartSync(w, o)
      PROVE  \E m \in Queue!Message : Queue!Take(w, m)
  <2>1. /\ w \notin DOMAIN task /\ queued[o] > 0 /\ UNCHANGED <<fanout, owed>>
        /\ queued' = [queued EXCEPT ![o] = @ - 1]
        /\ DOMAIN task' = DOMAIN task \cup {w} /\ task'[w].order = o
        /\ \A v \in DOMAIN task : task'[v] = task[v]
    BY <1>4 DEF StartSync, Insert, Blank, history
  <2>2. /\ Ready' = [Ready EXCEPT ![<<o, 0>>] = @ - 1]
        /\ Ready[<<o, 0>>] > 0
    BY <2>1, ReadyCounts
  <2>3. Busy' = Queue!Insert(Busy, w, <<o, 0>>) /\ w \notin DOMAIN Busy
    BY <2>1 DEF Queue!Insert, Busy
  <2>4. Queue!Take(w, <<o, 0>>)
    BY <2>1, <2>2, <2>3 DEF Queue!Take, Busy, Ready
  <2> QED
    BY <2>4, Messages
<1>5. ASSUME NEW w \in Worker, DispatchMail(w) \/ LoseMail(w) \/ GiveUp(w)
      PROVE  Queue!Ack(w)
  BY <1>5, EndAcks DEF DispatchMail, LoseMail, GiveUp, At
<1>6. ASSUME NEW w \in Worker, RetrySync(w) \/ LoseWorker(w)
      PROVE  Queue!Return(w)
  BY <1>6, RequeueReturns DEF RetrySync, LoseWorker, At, history
<1>7. ASSUME NEW w \in Worker, Redeliver(w)
      PROVE  Queue!Redeliver(w)
  BY <1>7, RequeueReturns DEF Redeliver, history
<1>8. ASSUME NEW w \in Worker, Commit(w)
      PROVE  Queue!Ack(w) \/ UNCHANGED Queue!vars
  <2>1. /\ w \in DOMAIN task /\ At(w, "commit") /\ UNCHANGED <<fanout, queued>>
        /\ \/ task' = [task EXCEPT ![w] = Blank(@.order, "mail")] /\ UNCHANGED owed
           \/ End(w)
    BY <1>8 DEF Commit, At
  <2>2. CASE End(w)
    BY <2>1, <2>2, EndAcks
  <2>3. CASE task' = [task EXCEPT ![w] = Blank(@.order, "mail")] /\ UNCHANGED owed
    <3>1. Busy' = Busy /\ Ready' = Ready
      BY <2>1, <2>3, StepKeepsOrders, KeepBusy DEF Ready
    <3> QED
      BY <2>1, <2>3, <3>1 DEF Queue!vars, Busy, Ready
  <2> QED
    BY <2>1, <2>2, <2>3
<1>9. ASSUME NEW w \in Worker, LoadOrder(w) \/ Fetch(w)
      PROVE  UNCHANGED Queue!vars
  <2>1. UNCHANGED <<fanout, queued, owed>>
    BY <1>9 DEF LoadOrder, Fetch, history
  <2>2. Busy' = Busy /\ Ready' = Ready
    BY <1>9, <2>1, StepKeepsOrders, KeepBusy DEF Ready
  <2> QED
    BY <2>1, <2>2 DEF Queue!vars, Busy, Ready
<1>10. ASSUME \/ UNCHANGED vars
              \/ \E o \in Order : MoveParcel(o) \/ SendMail(o)
       PROVE  UNCHANGED Queue!vars
  <2>1. UNCHANGED <<fanout, queued, task, owed>>
    BY <1>10 DEF MoveParcel, SendMail, vars, history
  <2>2. Busy' = Busy /\ Ready' = Ready
    BY <2>1 DEF Busy, Ready
  <2> QED
    BY <2>1, <2>2 DEF Queue!vars, Busy, Ready
<1> QED
  BY <1>1, <1>2, <1>3, <1>4, <1>5, <1>6, <1>7, <1>8, <1>9, <1>10 DEF Next, Queue!Next

(* What is kept here is what the queue promises.                           *)
LEMMA KeptIsNoneLost ==
    ASSUME IInv, Kept
    PROVE  Queue!NoneLost
<1> SUFFICES ASSUME NEW o \in owed
             PROVE  \/ \E m \in Queue!Message : m[1] = o /\ Ready[m] > 0
                    \/ \E w \in DOMAIN Busy : Busy[w][1] = o
  BY DEF Queue!NoneLost, Ready, Busy
<1>1. o \in Order
  BY DEF IInv, TypeOK
<1>2. CASE queued[o] > 0
  <2>1. /\ <<o, 0>> \in Queue!Message /\ <<o, 0>>[1] = o
        /\ Ready[<<o, 0>>] > 0
    BY <1>1, <1>2, Messages, ReadyCounts
  <2> QED
    BY <2>1
<1>3. CASE \E w \in DOMAIN task : task[w].order = o
  BY <1>3 DEF Busy
<1> QED
  BY <1>2, <1>3 DEF Kept

(* Every step of the syncs is a step of the task queue or none of it, and  *)
(* no queued sync is lost before a run of it has ended.                    *)
THEOREM QueueRefinement == Spec => RefinesQueue
<1>1. IInv /\ [Next]_vars => [Queue!Next]_(Queue!vars)
  BY QueueStep
<1>2. IInv /\ Kept => Queue!NoneLost
  BY KeptIsNoneLost
<1> QED
  BY <1>1, <1>2, QueueInit, Invariance, SyncsKept, PTL
      DEF Spec, RefinesQueue, Queue!Spec, Queue!NeverLoses
=============================================================================
