--------------------------- MODULE Mailer_proofs ---------------------------
(***************************************************************************)
(* Proofs of Mailer, for any number of rows, workers, retries and losses:  *)
(* mails fit the change that caused them, no message multiplies beyond the *)
(* losses, and the tasks run as the task queue promises.                   *)
(***************************************************************************)
EXTENDS Mailer, TLAPS, FiniteSetTheorems

(* TypeOK but for how many messages of a job there may be.                 *)
Typed ==
    /\ config \in [SMTP_HOST : BOOLEAN, EMAILS_FROM_ADDRESS : BOOLEAN,
                   ADMIN_NOTIFY_EMAILS : BOOLEAN]
    /\ row \in [Row -> 0..MaxVersion]
    /\ dispatching \subseteq Email
    /\ queued \in [Job -> Nat]
    /\ IsTable(task, Worker, Task)
    /\ losses \in 0..MaxLosses
    /\ mailed \subseteq [email : Email, text : Text]
    /\ owed \subseteq Email

(* The messages of an email, one by one, and the workers that run it.      *)
Slot == (0..MaxRetries) \X (Nat \ {0})
Copies(e) == {c \in Slot : c[2] <= queued[[email |-> e, tries |-> c[1]]]}
Runs(e) == {w \in DOMAIN task : EmailOf(w) = e}

(* An email has one message or run more than were lost, and none before it *)
(* is dispatched.                                                          *)
Counted(e) ==
    /\ IsFiniteSet(Copies(e)) /\ IsFiniteSet(Runs(e))
    /\ Cardinality(Copies(e)) + Cardinality(Runs(e)) <= 1 + losses

Unsent(e) == Copies(e) = {} /\ Runs(e) = {}

Committed(e) == e.cause <= row[e.row]

(* A text that fits the change an email is about.                          *)
Fits(e, text) ==
    /\ text.details >= e.cause
    /\ e.kind \in WithReason => text.reason = e.cause

Counts == \A e \in Email : Counted(e)

Causes ==
    /\ \A e \in Email : ~Committed(e) => Unsent(e)
    /\ \A e \in dispatching : Committed(e) /\ Unsent(e)

TextsFit ==
    /\ \A w \in DOMAIN task : At(w, "send") => Fits(EmailOf(w), task[w].text)
    /\ \A m \in mailed : Fits(m.email, m.text)

IInv == Typed /\ Counts /\ Causes /\ TextsFit

(***************************************************************************)
(* Counting the messages of an email.                                      *)
(***************************************************************************)
TheJob(e, t) == [email |-> e, tries |-> t]

(* What a busy worker runs is a job of its email, with a legal number of   *)
(* tries.                                                                  *)
LEMMA RunningTyped ==
    ASSUME Typed, NEW w \in DOMAIN task
    PROVE  /\ w \in Worker /\ task[w] \in Task /\ task[w].job \in Job
           /\ EmailOf(w) \in Email /\ task[w].job.tries \in 0..MaxRetries
           /\ task[w].job = TheJob(EmailOf(w), task[w].job.tries)
<1>1. w \in Worker /\ task[w] \in Task
  BY DEF Typed, IsTable
<1>2. task[w].job \in Job
  BY <1>1 DEF Task
<1> QED
  BY <1>1, <1>2 DEF Job, EmailOf, TheJob

(* A message more or less is one element more or less of Copies.           *)
LEMMA MoreCopies ==
    ASSUME Typed, NEW e \in Email, NEW t \in 0..MaxRetries,
           queued' = [queued EXCEPT ![TheJob(e, t)] = @ + 1]
    PROVE  /\ queued' \in [Job -> Nat]
           /\ \E c : c \notin Copies(e) /\ Copies(e)' = Copies(e) \cup {c}
           /\ \A f \in Email \ {e} : Copies(f)' = Copies(f)
<1> DEFINE j == TheJob(e, t)
           c == <<t, queued[j] + 1>>
<1>1. j \in Job /\ queued[j] \in Nat
  BY DEF Typed, Job, TheJob
<1>2. queued' \in [Job -> Nat]
  BY <1>1 DEF Typed
<1>3. c \in Slot /\ c \notin Copies(e)
  BY <1>1 DEF Slot, Copies, TheJob
<1>4. ASSUME NEW f \in Email, NEW s \in Slot
      PROVE  queued'[TheJob(f, s[1])] =
               IF f = e /\ s[1] = t THEN queued[j] + 1 ELSE queued[TheJob(f, s[1])]
  <2>1. TheJob(f, s[1]) \in Job /\ (TheJob(f, s[1]) = j <=> f = e /\ s[1] = t)
    BY DEF TheJob, Job, Slot
  <2> QED
    BY <1>1, <2>1 DEF Typed
<1>5. Copies(e)' = Copies(e) \cup {c}
  <2>1. ASSUME NEW s \in Slot
        PROVE  s \in Copies(e)' <=> s \in Copies(e) \cup {c}
    <3>1. s = <<s[1], s[2]>> /\ s[2] \in Nat
      BY DEF Slot
    <3>2. CASE s[1] = t
      <4>1. s \in Copies(e)' <=> s[2] <= queued[j] + 1
        BY <1>4, <3>2 DEF Copies, TheJob
      <4>2. s \in Copies(e) <=> s[2] <= queued[j]
        BY <3>2 DEF Copies, TheJob
      <4>3. s = c <=> s[2] = queued[j] + 1
        BY <3>1, <3>2
      <4> HIDE DEF j, c
      <4> QED
        BY <1>1, <3>1, <4>1, <4>2, <4>3
    <3>3. CASE s[1] # t
      <4>1. s # c
        BY <3>3
      <4> QED
        BY <1>4, <3>3, <4>1 DEF Copies, TheJob
    <3> QED
      BY <3>2, <3>3
  <2> HIDE DEF c
  <2> QED
    BY <1>3, <2>1 DEF Copies
<1>6. \A f \in Email \ {e} : Copies(f)' = Copies(f)
  BY <1>4 DEF Copies, TheJob
<1> QED
  BY <1>2, <1>3, <1>5, <1>6

(* A job taken from the queue is one copy fewer of its email, and of no    *)
(* other.                                                                  *)
LEMMA FewerCopies ==
    ASSUME Typed, NEW e \in Email, NEW t \in 0..MaxRetries,
           queued[TheJob(e, t)] > 0,
           queued' = [queued EXCEPT ![TheJob(e, t)] = @ - 1]
    PROVE  /\ queued' \in [Job -> Nat]
           /\ \E c \in Copies(e) : Copies(e)' = Copies(e) \ {c}
           /\ \A f \in Email \ {e} : Copies(f)' = Copies(f)
<1> DEFINE j == TheJob(e, t)
           c == <<t, queued[j]>>
<1>1. j \in Job /\ queued[j] \in Nat
  BY DEF Typed, Job, TheJob
<1>2. queued' \in [Job -> Nat]
  BY <1>1 DEF Typed
<1>3. c \in Copies(e)
  BY <1>1 DEF Slot, Copies, TheJob
<1>4. ASSUME NEW f \in Email, NEW s \in Slot
      PROVE  queued'[TheJob(f, s[1])] =
               IF f = e /\ s[1] = t THEN queued[j] - 1 ELSE queued[TheJob(f, s[1])]
  <2>1. TheJob(f, s[1]) \in Job /\ (TheJob(f, s[1]) = j <=> f = e /\ s[1] = t)
    BY DEF TheJob, Job, Slot
  <2> QED
    BY <1>1, <2>1 DEF Typed
<1>5. Copies(e)' = Copies(e) \ {c}
  <2>1. ASSUME NEW s \in Slot
        PROVE  s \in Copies(e)' <=> s \in Copies(e) \ {c}
    <3>1. s = <<s[1], s[2]>> /\ s[2] \in Nat
      BY DEF Slot
    <3>2. CASE s[1] = t
      <4>1. s \in Copies(e)' <=> s[2] <= queued[j] - 1
        BY <1>4, <3>2 DEF Copies, TheJob
      <4>2. s \in Copies(e) <=> s[2] <= queued[j]
        BY <3>2 DEF Copies, TheJob
      <4>3. s = c <=> s[2] = queued[j]
        BY <3>1, <3>2
      <4> HIDE DEF j, c
      <4> QED
        BY <1>1, <3>1, <4>1, <4>2, <4>3
    <3>3. CASE s[1] # t
      <4>1. s # c
        BY <3>3
      <4> QED
        BY <1>4, <3>3, <4>1 DEF Copies, TheJob
    <3> QED
      BY <3>2, <3>3
  <2> HIDE DEF c
  <2> QED
    BY <2>1 DEF Copies
<1>6. \A f \in Email \ {e} : Copies(f)' = Copies(f)
  BY <1>4 DEF Copies, TheJob
<1> QED
  BY <1>2, <1>3, <1>5, <1>6

(* An untouched queue keeps the copies.                                    *)
LEMMA SameCopies ==
    ASSUME UNCHANGED queued, NEW e
    PROVE  Copies(e)' = Copies(e)
BY DEF Copies

(* The same for Runs.                                                      *)
LEMMA FewerRuns ==
    ASSUME NEW w, Finish(w), NEW e
    PROVE  Runs(e)' = Runs(e) \ {w}
BY DEF Finish, Delete, Runs, EmailOf

(* A worker that starts a job adds one run of its email.                   *)
LEMMA MoreRuns ==
    ASSUME NEW w, w \notin DOMAIN task, NEW t, task' = Insert(task, w, t), NEW e
    PROVE  Runs(e)' = IF e = t.job.email THEN Runs(e) \cup {w} ELSE Runs(e)
BY DEF Insert, Runs, EmailOf

(* Workers that keep their jobs keep the runs.                             *)
LEMMA SameRuns ==
    ASSUME DOMAIN task' = DOMAIN task, \A w \in DOMAIN task : task'[w].job = task[w].job,
           NEW e
    PROVE  Runs(e)' = Runs(e)
BY DEF Runs, EmailOf

(* Adding a member makes a finite set at most one larger.                  *)
LEMMA OneMore ==
    ASSUME NEW S, IsFiniteSet(S), NEW x
    PROVE  /\ IsFiniteSet(S \cup {x})
           /\ Cardinality(S \cup {x}) <= Cardinality(S) + 1
<1>1. /\ IsFiniteSet(S \cup {x})
      /\ Cardinality(S \cup {x}) = IF x \in S THEN Cardinality(S) ELSE Cardinality(S) + 1
  BY FS_AddElement
<1>2. Cardinality(S) \in Nat
  BY FS_CardinalityType
<1> QED
  BY <1>1, <1>2

(* A message that is taken, or a run that is published again, leaves the   *)
(* sum as it is; a loss may add one.                                       *)
LEMMA Sum ==
    ASSUME NEW e, Counted(e), losses \in Nat
    PROVE  /\ Cardinality(Copies(e)) \in Nat /\ Cardinality(Runs(e)) \in Nat
           /\ \A c : /\ IsFiniteSet(Copies(e) \cup {c})
                     /\ Cardinality(Copies(e) \cup {c}) <= Cardinality(Copies(e)) + 1
                     /\ IsFiniteSet(Runs(e) \cup {c})
                     /\ Cardinality(Runs(e) \cup {c}) <= Cardinality(Runs(e)) + 1
           /\ \A c : /\ IsFiniteSet(Copies(e) \ {c}) /\ IsFiniteSet(Runs(e) \ {c})
                     /\ Cardinality(Runs(e) \ {c}) <= Cardinality(Runs(e))
           /\ \A c \in Copies(e) : Cardinality(Copies(e) \ {c}) = Cardinality(Copies(e)) - 1
           /\ \A c \in Runs(e) : Cardinality(Runs(e) \ {c}) = Cardinality(Runs(e)) - 1
           /\ Unsent(e) => Cardinality(Copies(e)) = 0 /\ Cardinality(Runs(e)) = 0
<1>1. IsFiniteSet(Copies(e)) /\ IsFiniteSet(Runs(e))
  BY DEF Counted
<1>2. Cardinality(Copies(e)) \in Nat /\ Cardinality(Runs(e)) \in Nat
  BY <1>1, FS_CardinalityType
<1>3. \A c : /\ IsFiniteSet(Copies(e) \cup {c})
             /\ Cardinality(Copies(e) \cup {c}) <= Cardinality(Copies(e)) + 1
             /\ IsFiniteSet(Runs(e) \cup {c})
             /\ Cardinality(Runs(e) \cup {c}) <= Cardinality(Runs(e)) + 1
  BY <1>1, OneMore
<1>4. \A c : /\ IsFiniteSet(Copies(e) \ {c}) /\ IsFiniteSet(Runs(e) \ {c})
             /\ Cardinality(Runs(e) \ {c}) <= Cardinality(Runs(e))
  BY <1>1, <1>2, FS_RemoveElement
<1>5. /\ \A c \in Copies(e) : Cardinality(Copies(e) \ {c}) = Cardinality(Copies(e)) - 1
      /\ \A c \in Runs(e) : Cardinality(Runs(e) \ {c}) = Cardinality(Runs(e)) - 1
  BY <1>1, FS_RemoveElement
<1>6. Unsent(e) => Cardinality(Copies(e)) = 0 /\ Cardinality(Runs(e)) = 0
  BY FS_EmptySet DEF Unsent
<1> QED
  BY <1>2, <1>3, <1>4, <1>5, <1>6

NothingNew == \A e \in Email : Unsent(e) => Unsent(e)'

(* A job put back, by a retry or after a lost worker, stays within the     *)
(* count.                                                                  *)
LEMMA RequeueCounts ==
    ASSUME Typed, Counts, NEW w \in DOMAIN task, NEW t \in 0..MaxRetries,
           Requeue(w, t), Finish(w), losses' \in {losses, losses + 1}
    PROVE  queued' \in [Job -> Nat] /\ Counts' /\ NothingNew
<1> PICK e \in Email : e = EmailOf(w)
  BY RunningTyped
<1>1. w \in Runs(e) /\ losses \in Nat
  BY BoundAssumption DEF Runs, Typed
<1>2. queued' = [queued EXCEPT ![TheJob(e, t)] = @ + 1]
  BY DEF Requeue, TheJob
<1>3. /\ queued' \in [Job -> Nat]
      /\ \E c : c \notin Copies(e) /\ Copies(e)' = Copies(e) \cup {c}
      /\ \A f \in Email \ {e} : Copies(f)' = Copies(f)
  BY <1>1, <1>2, MoreCopies
<1>4. \A f : Runs(f)' = Runs(f) \ {w}
  BY FewerRuns
<1>5. ASSUME NEW f \in Email
      PROVE  Counted(f)'
  <2>1. Counted(f)
    BY DEF Counts
  <2>2. CASE f = e
    <3>1. PICK c : Copies(f)' = Copies(f) \cup {c}
      BY <1>3, <2>2
    <3>2. Runs(f)' = Runs(f) \ {w} /\ w \in Runs(f)
      BY <1>1, <1>4, <2>2
    <3>3. /\ Cardinality(Copies(f)) \in Nat /\ Cardinality(Runs(f)) \in Nat
          /\ IsFiniteSet(Copies(f) \cup {c}) /\ IsFiniteSet(Runs(f) \ {w})
          /\ Cardinality(Copies(f) \cup {c}) <= Cardinality(Copies(f)) + 1
          /\ Cardinality(Runs(f) \ {w}) = Cardinality(Runs(f)) - 1
      BY <1>1, <2>1, <3>2, Sum
    <3>4. Cardinality(Copies(f) \cup {c}) \in Nat
      BY <3>3, FS_CardinalityType
    <3> QED
      BY <1>1, <2>1, <3>1, <3>2, <3>3, <3>4 DEF Counted
  <2>3. CASE f # e
    <3>1. Copies(f)' = Copies(f) /\ Runs(f)' = Runs(f) \ {w}
      BY <1>3, <1>4, <2>3
    <3>2. /\ Cardinality(Copies(f)) \in Nat /\ Cardinality(Runs(f)) \in Nat
          /\ IsFiniteSet(Runs(f) \ {w})
          /\ Cardinality(Runs(f) \ {w}) <= Cardinality(Runs(f))
          /\ Cardinality(Runs(f) \ {w}) \in Nat
      BY <1>1, <2>1, Sum, FS_CardinalityType
    <3> QED
      BY <1>1, <2>1, <3>1, <3>2 DEF Counted
  <2> QED
    BY <2>2, <2>3
<1>6. NothingNew
  BY <1>1, <1>3, <1>4 DEF NothingNew, Unsent
<1> QED
  BY <1>3, <1>5, <1>6 DEF Counts

(* A worker that is done stays within the count.                           *)
LEMMA FinishCounts ==
    ASSUME Typed, Counts, NEW w, Finish(w), UNCHANGED <<queued, losses>>
    PROVE  Counts' /\ NothingNew
<1>1. \A e : Copies(e)' = Copies(e) /\ Runs(e)' = Runs(e) \ {w}
  BY SameCopies, FewerRuns
<1>2. ASSUME NEW e \in Email
      PROVE  Counted(e)'
  <2>1. Counted(e) /\ losses \in Nat
    BY BoundAssumption DEF Counts, Typed
  <2>2. /\ Cardinality(Copies(e)) \in Nat /\ Cardinality(Runs(e)) \in Nat
        /\ IsFiniteSet(Runs(e) \ {w})
        /\ Cardinality(Runs(e) \ {w}) <= Cardinality(Runs(e))
        /\ Cardinality(Runs(e) \ {w}) \in Nat
    BY <2>1, Sum, FS_CardinalityType
  <2> QED
    BY <1>1, <2>1, <2>2 DEF Counted
<1> QED
  BY <1>1, <1>2 DEF Counts, NothingNew, Unsent

(* A job moved from the queue to a worker is counted as before.            *)
LEMMA TakeCounts ==
    ASSUME Typed, Counts, NEW w, w \notin DOMAIN task, NEW j \in Job, queued[j] > 0,
           queued' = [queued EXCEPT ![j] = @ - 1],
           NEW t, t.job = j, task' = Insert(task, w, t), UNCHANGED losses
    PROVE  queued' \in [Job -> Nat] /\ Counts' /\ NothingNew
<1> DEFINE e == j.email
<1>1. e \in Email /\ j.tries \in 0..MaxRetries /\ j = TheJob(e, j.tries) /\ losses \in Nat
  BY BoundAssumption DEF Job, TheJob, Typed
<1>2. /\ queued' \in [Job -> Nat]
      /\ \E c \in Copies(e) : Copies(e)' = Copies(e) \ {c}
      /\ \A f \in Email \ {e} : Copies(f)' = Copies(f)
  BY <1>1, FewerCopies
<1>3. \A f : Runs(f)' = IF f = e THEN Runs(f) \cup {w} ELSE Runs(f)
  BY MoreRuns
<1>4. ASSUME NEW f \in Email
      PROVE  Counted(f)'
  <2>1. Counted(f)
    BY DEF Counts
  <2>2. CASE f = e
    <3>1. PICK c \in Copies(f) : Copies(f)' = Copies(f) \ {c}
      BY <1>2, <2>2
    <3>2. Runs(f)' = Runs(f) \cup {w}
      BY <1>3, <2>2
    <3>3. /\ Cardinality(Copies(f) \ {c}) = Cardinality(Copies(f)) - 1
          /\ IsFiniteSet(Copies(f) \ {c}) /\ IsFiniteSet(Runs(f) \cup {w})
          /\ Cardinality(Runs(f) \cup {w}) <= Cardinality(Runs(f)) + 1
          /\ Cardinality(Copies(f)) \in Nat /\ Cardinality(Runs(f)) \in Nat
      BY <1>1, <2>1, Sum
    <3>4. Cardinality(Runs(f) \cup {w}) \in Nat
      BY <3>3, FS_CardinalityType
    <3> QED
      BY <1>1, <2>1, <3>1, <3>2, <3>3, <3>4 DEF Counted
  <2>3. CASE f # e
    BY <1>2, <1>3, <2>1, <2>3 DEF Counted
  <2> QED
    BY <2>2, <2>3
<1>5. NothingNew
  BY <1>2, <1>3 DEF NothingNew, Unsent
<1> QED
  BY <1>2, <1>4, <1>5 DEF Counts

(* One more message: of an email that is dispatched, or redelivered.       *)
LEMMA PublishCounts ==
    ASSUME Typed, Counts, NEW e \in Email, NEW t \in 0..MaxRetries,
           queued' = [queued EXCEPT ![TheJob(e, t)] = @ + 1], UNCHANGED task,
           \/ Unsent(e) /\ UNCHANGED losses
           \/ losses' = losses + 1
    PROVE  /\ queued' \in [Job -> Nat] /\ Counts'
           /\ \A f \in Email \ {e} : Unsent(f) => Unsent(f)'
<1>1. losses \in Nat
  BY BoundAssumption DEF Typed
<1>2. /\ queued' \in [Job -> Nat]
      /\ \E c : c \notin Copies(e) /\ Copies(e)' = Copies(e) \cup {c}
      /\ \A f \in Email \ {e} : Copies(f)' = Copies(f)
  BY MoreCopies
<1>3. \A f : Runs(f)' = Runs(f)
  BY SameRuns
<1>4. ASSUME NEW f \in Email
      PROVE  Counted(f)'
  <2>1. Counted(f)
    BY DEF Counts
  <2>2. /\ Cardinality(Copies(f)) \in Nat /\ Cardinality(Runs(f)) \in Nat
        /\ Unsent(f) => Cardinality(Copies(f)) = 0 /\ Cardinality(Runs(f)) = 0
    BY <1>1, <2>1, Sum
  <2>3. CASE f = e
    <3>1. PICK c : Copies(f)' = Copies(f) \cup {c}
      BY <1>2, <2>3
    <3>2. /\ IsFiniteSet(Copies(f) \cup {c})
          /\ Cardinality(Copies(f) \cup {c}) <= Cardinality(Copies(f)) + 1
      BY <1>1, <2>1, Sum
    <3>3. Cardinality(Copies(f) \cup {c}) \in Nat
      BY <3>2, FS_CardinalityType
    <3> QED
      BY <1>1, <1>3, <2>1, <2>2, <2>3, <3>1, <3>2, <3>3 DEF Counted
  <2>4. CASE f # e
    BY <1>1, <1>2, <1>3, <2>1, <2>2, <2>4 DEF Counted
  <2> QED
    BY <2>3, <2>4
<1>5. \A f \in Email \ {e} : Unsent(f) => Unsent(f)'
  BY <1>2, <1>3 DEF Unsent
<1> QED
  BY <1>2, <1>4, <1>5 DEF Counts

(* A step of a worker that keeps its job changes no count.                 *)
LEMMA SameCounts ==
    ASSUME Counts, UNCHANGED <<queued, losses>>, DOMAIN task' = DOMAIN task,
           \A w \in DOMAIN task : task'[w].job = task[w].job
    PROVE  Counts' /\ \A e \in Email : Unsent(e)' <=> Unsent(e)
<1>1. \A e : Copies(e)' = Copies(e) /\ Runs(e)' = Runs(e)
  BY SameCopies, SameRuns
<1> QED
  BY <1>1 DEF Counts, Counted, Unsent

(***************************************************************************)
(* The steps.                                                              *)
(***************************************************************************)
LEMMA EditInv ==
    ASSUME IInv, NEW r \in Row, Edit(r)
    PROVE  IInv'
<1>1. /\ row[r] < MaxVersion /\ row' = [row EXCEPT ![r] = @ + 1]
      /\ UNCHANGED <<config, dispatching, queued, task, losses, mailed, owed>>
  BY DEF Edit, history
<1>2. Typed'
  BY <1>1, BoundAssumption DEF IInv, Typed
<1>3. Counts' /\ \A e \in Email : Unsent(e)' <=> Unsent(e)
  BY <1>1, SameCounts DEF IInv
<1>4. \A e \in Email : Committed(e) => Committed(e)'
  BY <1>1, BoundAssumption DEF IInv, Typed, Committed, Email, Version
<1>5. Causes'
  BY <1>1, <1>3, <1>4 DEF IInv, Causes, Typed
<1>6. TextsFit'
  BY <1>1 DEF IInv, TextsFit, At, EmailOf
<1> QED
  BY <1>2, <1>3, <1>5, <1>6 DEF IInv

(* Commit keeps the inductive invariant.                                   *)
LEMMA CommitInv ==
    ASSUME IInv, NEW r \in Row, NEW kind \in Kind, Commit(r, kind)
    PROVE  IInv'
<1> DEFINE n == row[r] + 1
           new == [row |-> r, kind |-> kind, cause |-> n]
<1>1. /\ row[r] < MaxVersion /\ row' = [row EXCEPT ![r] = n]
      /\ row'[r] = n /\ n \in Version /\ row[r] \in Nat
  BY BoundAssumption DEF Commit, IInv, Typed, Version
<1>2. /\ dispatching' = dispatching \cup {new}
      /\ UNCHANGED <<config, queued, task, losses, mailed, owed>>
  BY <1>1 DEF Commit, history
<1>3. new \in Email /\ ~Committed(new) /\ Unsent(new)
  BY <1>1 DEF Email, Committed, IInv, Causes
<1> HIDE DEF n
<1>4. Typed'
  BY <1>1, <1>2, <1>3, BoundAssumption DEF IInv, Typed, Version
<1>5. Counts' /\ \A e \in Email : Unsent(e)' <=> Unsent(e)
  BY <1>2, SameCounts DEF IInv
<1>6. ASSUME NEW e \in Email
      PROVE  Committed(e) \/ e = new => Committed(e)'
  <2>1. e.row \in Row /\ e.cause \in Nat /\ row[e.row] \in Nat
    BY BoundAssumption DEF Email, Version, IInv, Typed
  <2>2. row'[e.row] = IF e.row = r THEN n ELSE row[e.row]
    BY <1>1, <2>1 DEF IInv, Typed
  <2>3. CASE e.row = r /\ Committed(e)
    BY <1>1, <2>1, <2>2, <2>3 DEF Committed, n
  <2>4. CASE e = new
    BY <1>1, <2>2, <2>4 DEF Committed, Version
  <2> QED
    BY <2>2, <2>3, <2>4 DEF Committed
<1>7. Causes'
  BY <1>2, <1>3, <1>5, <1>6 DEF IInv, Causes, Typed
<1>8. TextsFit'
  BY <1>2 DEF IInv, TextsFit, At, EmailOf
<1> QED
  BY <1>4, <1>5, <1>7, <1>8 DEF IInv

(* Dispatch keeps the inductive invariant.                                 *)
LEMMA DispatchInv ==
    ASSUME IInv, NEW email \in dispatching, Dispatch(email)
    PROVE  IInv'
<1>1. /\ dispatching' = dispatching \ {email}
      /\ queued' = [queued EXCEPT ![TheJob(email, 0)] = @ + 1]
      /\ owed' = owed \cup {email}
      /\ UNCHANGED <<config, row, task, losses, mailed>>
  BY DEF Dispatch, Publish, TheJob, state, history
<1>2. email \in Email /\ Unsent(email) /\ Committed(email) /\ 0 \in 0..MaxRetries
  BY BoundAssumption DEF IInv, Typed, Causes
<1>3. /\ queued' \in [Job -> Nat] /\ Counts'
      /\ \A f \in Email \ {email} : Unsent(f) => Unsent(f)'
  BY <1>1, <1>2, PublishCounts DEF IInv
<1>4. Typed'
  BY <1>1, <1>2, <1>3 DEF IInv, Typed
<1>5. Causes'
  BY <1>1, <1>2, <1>3 DEF IInv, Causes, Typed, Committed
<1>6. TextsFit'
  BY <1>1 DEF IInv, TextsFit, At, EmailOf
<1> QED
  BY <1>3, <1>4, <1>5, <1>6 DEF IInv

(* LoseDispatch keeps the inductive invariant.                             *)
LEMMA LoseDispatchInv ==
    ASSUME IInv, NEW email \in dispatching, LoseDispatch(email)
    PROVE  IInv'
<1>1. /\ dispatching' = dispatching \ {email}
      /\ UNCHANGED <<config, row, queued, task, losses, mailed, owed>>
  BY DEF LoseDispatch, state, history
<1>2. Counts' /\ \A e \in Email : Unsent(e)' <=> Unsent(e)
  BY <1>1, SameCounts DEF IInv
<1>3. Typed'
  BY <1>1 DEF IInv, Typed
<1>4. Causes'
  BY <1>1, <1>2, <1>3 DEF IInv, Causes, Typed, Committed
<1>5. TextsFit'
  BY <1>1 DEF IInv, TextsFit, At, EmailOf
<1> QED
  BY <1>2, <1>3, <1>4, <1>5 DEF IInv

(* Steps of the workers change no row and queue no email for the first     *)
(* time.                                                                   *)
LEMMA WorkerCauses ==
    ASSUME IInv, NothingNew, UNCHANGED <<row, dispatching>>
    PROVE  Causes'
BY DEF IInv, Causes, Typed, NothingNew, Committed

(* StartMail keeps the inductive invariant.                                *)
LEMMA StartMailInv ==
    ASSUME IInv, NEW w \in Worker, NEW j \in Job, StartMail(w, j)
    PROVE  IInv'
<1> DEFINE t == [job |-> j, pc |-> "load", text |-> NoText]
<1>1. /\ w \notin DOMAIN task /\ queued[j] > 0
      /\ queued' = [queued EXCEPT ![j] = @ - 1]
      /\ task' = Insert(task, w, t)
      /\ UNCHANGED <<config, row, dispatching, losses, mailed, owed>>
  BY DEF StartMail, state, history
<1>2. t \in Task /\ t.job = j /\ t.pc = "load"
  BY BoundAssumption DEF Task, Text, NoText
<1> HIDE DEF t
<1>3. queued' \in [Job -> Nat] /\ Counts' /\ NothingNew
  BY <1>1, <1>2, TakeCounts DEF IInv
<1>4. IsTable(task', Worker, Task)
  BY <1>1, <1>2 DEF IsTable, Insert, IInv, Typed
<1>5. Typed'
  BY <1>1, <1>3, <1>4 DEF IInv, Typed
<1>6. TextsFit'
  BY <1>1, <1>2 DEF IInv, TextsFit, At, EmailOf, Insert
<1> QED
  BY <1>1, <1>3, <1>5, <1>6, WorkerCauses DEF IInv

(* A mail is rendered from a row that has the change already.              *)
LEMMA LoadRowInv ==
    ASSUME IInv, NEW w \in Worker, LoadRow(w)
    PROVE  IInv'
<1> DEFINE text == Render(EmailOf(w))
           t == [task[w] EXCEPT !.pc = "send", !.text = text]
<1>1. /\ w \in DOMAIN task /\ task' = [task EXCEPT ![w] = t]
      /\ UNCHANGED <<config, row, dispatching, queued, losses, mailed, owed>>
  BY DEF LoadRow, At, state, history
<1>2. task[w] \in Task /\ EmailOf(w) \in Email
  BY <1>1, RunningTyped DEF IInv
<1>3. Committed(EmailOf(w))
  BY <1>1, <1>2 DEF IInv, Causes, Unsent, Runs
<1>4. text \in Text /\ Fits(EmailOf(w), text)
  <2>1. /\ row[EmailOf(w).row] \in 0..MaxVersion /\ EmailOf(w).cause \in 1..MaxVersion
        /\ EmailOf(w).cause <= row[EmailOf(w).row]
    BY <1>2, <1>3 DEF Email, Version, IInv, Typed, Committed
  <2> QED
    BY <2>1, BoundAssumption DEF Render, Text, Fits
<1> HIDE DEF text
<1>5. t \in Task /\ t.job = task[w].job /\ t.text = text
  BY <1>2, <1>4 DEF Task
<1> HIDE DEF t
<1>6. IsTable(task', Worker, Task)
  BY <1>1, <1>5 DEF IsTable, IInv, Typed
<1>7. /\ DOMAIN task' = DOMAIN task /\ task'[w] = t
      /\ \A v \in DOMAIN task \ {w} : task'[v] = task[v]
  BY <1>1
<1>8. Counts' /\ NothingNew
  BY <1>1, <1>5, <1>7, SameCounts DEF IInv, NothingNew
<1>9. Typed'
  BY <1>1, <1>6 DEF IInv, Typed
<1>10. TextsFit'
  BY <1>1, <1>4, <1>5, <1>7 DEF IInv, TextsFit, At, EmailOf
<1> QED
  BY <1>1, <1>8, <1>9, <1>10, WorkerCauses DEF IInv

(* A run that ends, by whatever: it is sent or not, and queued again or    *)
(* not.                                                                    *)
Sent(w) == mailed' = mailed \/ (At(w, "send") /\ mailed' = Out(w))

(* A run that leaves its worker, whatever becomes of its job, keeps the    *)
(* invariant.                                                              *)
LEMMA EndInv ==
    ASSUME IInv, NEW w \in DOMAIN task, Finish(w), Sent(w),
           UNCHANGED <<config, row, dispatching>>,
           owed' \in {owed, owed \ {EmailOf(w)}},
           \/ UNCHANGED <<queued, losses>>
           \/ /\ \E t \in 0..MaxRetries : Requeue(w, t)
              /\ losses' \in {losses, losses + 1} /\ losses' <= MaxLosses
    PROVE  IInv'
<1>1. task[w] \in Task /\ EmailOf(w) \in Email /\ task[w].text \in Text
  BY RunningTyped DEF IInv, Task
<1>2. queued' \in [Job -> Nat] /\ Counts' /\ NothingNew
  BY FinishCounts, RequeueCounts DEF IInv, Typed
<1>3. /\ IsTable(task', Worker, Task)
      /\ DOMAIN task' \subseteq DOMAIN task
      /\ \A v \in DOMAIN task' : task'[v] = task[v]
  <2>1. IsTable(task', Worker, Task)
    BY DEF IsTable, Delete, IInv, Typed, Finish
  <2> QED
    BY <2>1 DEF Finish, Delete
<1>4. /\ mailed' \subseteq [email : Email, text : Text]
      /\ \A m \in mailed' : Fits(m.email, m.text)
  <2>1. CASE mailed' = mailed
    BY <2>1 DEF IInv, Typed, TextsFit
  <2>2. CASE At(w, "send") /\ mailed' = Out(w)
    BY <1>1, <2>2 DEF IInv, Typed, TextsFit, Out
  <2> QED
    BY <2>1, <2>2 DEF Sent
<1>5. losses' \in 0..MaxLosses
  BY BoundAssumption DEF IInv, Typed
<1>6. Typed'
  BY <1>1, <1>2, <1>3, <1>4, <1>5 DEF IInv, Typed
<1>7. TextsFit'
  BY <1>3, <1>4 DEF IInv, TextsFit, At, EmailOf
<1> QED
  BY <1>2, <1>6, <1>7, WorkerCauses DEF IInv

(* A run that fails has sent its mail or nothing.                          *)
LEMMA FailsSent ==
    ASSUME NEW w, Fails(w)
    PROVE  Sent(w)
<1>1. CASE UNCHANGED mailed
  BY <1>1 DEF Sent
<1>2. CASE At(w, "send") /\ mailed' \in {mailed, Out(w)}
  BY <1>2 DEF Sent
<1> QED
  BY <1>1, <1>2 DEF Fails

(* A run that ends for good keeps the invariant.                           *)
LEMMA EndsInv ==
    ASSUME IInv, NEW w \in Worker, w \in DOMAIN task, End(w), Sent(w),
           UNCHANGED <<config, row, dispatching, queued, losses>>
    PROVE  IInv'
<1>1. Finish(w) /\ owed' = owed \ {EmailOf(w)}
  BY DEF End
<1> QED
  BY <1>1, EndInv

(* SkipNotice keeps the inductive invariant.                               *)
LEMMA SkipNoticeInv ==
    ASSUME IInv, NEW w \in Worker, SkipNotice(w)
    PROVE  IInv'
<1>1. w \in DOMAIN task /\ End(w) /\ Sent(w)
  BY DEF SkipNotice, At, Sent
<1> QED
  BY <1>1, EndsInv DEF SkipNotice, state

(* SendMail keeps the inductive invariant.                                 *)
LEMMA SendMailInv ==
    ASSUME IInv, NEW w \in Worker, SendMail(w)
    PROVE  IInv'
<1>1. w \in DOMAIN task /\ End(w) /\ Sent(w)
  BY DEF SendMail, At, Sent
<1> QED
  BY <1>1, EndsInv DEF SendMail, state

(* DropMail keeps the inductive invariant.                                 *)
LEMMA DropMailInv ==
    ASSUME IInv, NEW w \in Worker, DropMail(w)
    PROVE  IInv'
<1>1. w \in DOMAIN task /\ End(w) /\ Sent(w)
  BY DEF DropMail, At, Sent
<1> QED
  BY <1>1, EndsInv DEF DropMail, state

(* GiveUp keeps the inductive invariant.                                   *)
LEMMA GiveUpInv ==
    ASSUME IInv, NEW w \in Worker, GiveUp(w)
    PROVE  IInv'
<1>1. w \in DOMAIN task /\ End(w) /\ Sent(w)
  BY FailsSent DEF GiveUp
<1> QED
  BY <1>1, EndsInv DEF GiveUp, state

(* FailMail keeps the inductive invariant.                                 *)
LEMMA FailMailInv ==
    ASSUME IInv, NEW w \in Worker, FailMail(w)
    PROVE  IInv'
<1>1. w \in DOMAIN task /\ End(w) /\ Sent(w)
  BY DEF FailMail, At, Sent
<1> QED
  BY <1>1, EndsInv DEF FailMail, state

(* RetryMail keeps the inductive invariant.                                *)
LEMMA RetryMailInv ==
    ASSUME IInv, NEW w \in Worker, RetryMail(w)
    PROVE  IInv'
<1>1. /\ w \in DOMAIN task /\ Finish(w)
      /\ task[w].job.tries < MaxRetries /\ Requeue(w, task[w].job.tries + 1)
      /\ UNCHANGED <<config, row, dispatching, losses, owed>>
  BY DEF RetryMail, state
<1>2. Sent(w)
  BY FailsSent DEF RetryMail
<1>3. task[w].job.tries + 1 \in 0..MaxRetries
  BY <1>1, RunningTyped, BoundAssumption DEF IInv
<1>4. losses <= MaxLosses
  BY DEF IInv, Typed
<1> QED
  BY <1>1, <1>2, <1>3, <1>4, EndInv

(* LoseWorker keeps the inductive invariant.                               *)
LEMMA LoseWorkerInv ==
    ASSUME IInv, NEW w \in Worker, LoseWorker(w)
    PROVE  IInv'
<1>1. /\ w \in DOMAIN task /\ Finish(w) /\ Requeue(w, task[w].job.tries)
      /\ losses < MaxLosses /\ losses' = losses + 1
      /\ UNCHANGED <<config, row, dispatching, owed>>
  BY DEF LoseWorker, Lose, state
<1>2. Sent(w)
  <2>1. CASE At(w, "send") /\ Addressed
    <3>1. mailed' \in {mailed, Out(w)}
      BY <2>1 DEF LoseWorker
    <3> QED
      BY <2>1, <3>1 DEF Sent
  <2>2. CASE ~(At(w, "send") /\ Addressed)
    <3>1. mailed' \in {mailed}
      BY <2>2 DEF LoseWorker
    <3> QED
      BY <3>1 DEF Sent
  <2> QED
    BY <2>1, <2>2
<1>3. task[w].job.tries \in 0..MaxRetries /\ losses' <= MaxLosses
  BY <1>1, RunningTyped, BoundAssumption DEF IInv, Typed
<1> QED
  BY <1>1, <1>2, <1>3, EndInv

(* Redeliver keeps the inductive invariant.                                *)
LEMMA RedeliverInv ==
    ASSUME IInv, NEW w \in Worker, Redeliver(w)
    PROVE  IInv'
<1> PICK e \in Email, t \in 0..MaxRetries : task[w].job = TheJob(e, t) /\ EmailOf(w) = e
  BY RunningTyped DEF Redeliver, IInv
<1>1. /\ queued' = [queued EXCEPT ![TheJob(e, t)] = @ + 1]
      /\ losses < MaxLosses /\ losses' = losses + 1
      /\ UNCHANGED <<config, row, dispatching, task, mailed, owed>>
  BY DEF Redeliver, Requeue, Lose, TheJob, state, history
<1>2. /\ queued' \in [Job -> Nat] /\ Counts'
      /\ \A f \in Email \ {e} : Unsent(f) => Unsent(f)'
  BY <1>1, PublishCounts DEF IInv
<1>3. ~Unsent(e)
  BY DEF Redeliver, Unsent, Runs
<1>4. NothingNew
  BY <1>2, <1>3 DEF NothingNew
<1>5. Typed'
  BY <1>1, <1>2, BoundAssumption DEF IInv, Typed
<1>6. TextsFit'
  BY <1>1 DEF IInv, TextsFit, At, EmailOf
<1> QED
  BY <1>1, <1>2, <1>4, <1>5, <1>6, WorkerCauses DEF IInv

(* A step that changes nothing keeps the inductive invariant.              *)
LEMMA StutterInv ==
    ASSUME IInv, UNCHANGED vars
    PROVE  IInv'
<1>1. Counts' /\ NothingNew
  BY SameCounts DEF IInv, vars, NothingNew
<1>2. Typed' /\ TextsFit'
  BY DEF IInv, Typed, TextsFit, At, EmailOf, vars
<1> QED
  BY <1>1, <1>2, WorkerCauses DEF IInv, vars

(* The initial states satisfy the inductive invariant.                     *)
LEMMA InitInv == Init => IInv
<1> SUFFICES ASSUME Init
             PROVE  IInv
  OBVIOUS
<1>1. DOMAIN task = {} /\ IsTable(task, Worker, Task)
  BY DEF IsTable, EmptyTable, Init
<1>2. Typed
  BY <1>1, BoundAssumption DEF Init, Typed
<1>3. \A e \in Email : Copies(e) = {} /\ Runs(e) = {}
  BY <1>1 DEF Init, Copies, Slot, Runs, Job
<1>4. IsFiniteSet({}) /\ Cardinality({}) = 0 /\ losses = 0
  BY FS_EmptySet DEF Init
<1>5. Counts
  BY <1>3, <1>4 DEF Counts, Counted
<1> QED
  BY <1>1, <1>2, <1>3, <1>5 DEF Init, IInv, Causes, Unsent, TextsFit

(* The inductive invariant holds of every reachable state.                 *)
THEOREM Invariance == Spec => []IInv
<1>1. IInv /\ [Next]_vars => IInv'
  BY EditInv, CommitInv, DispatchInv, LoseDispatchInv, StartMailInv, LoadRowInv,
     SkipNoticeInv, SendMailInv, DropMailInv, RetryMailInv, GiveUpInv, FailMailInv,
     LoseWorkerInv, RedeliverInv, StutterInv DEF Next, Run
<1> QED
  BY <1>1, InitInv, PTL DEF Spec

(* No more messages of a job are on the broker than copies of its email.   *)
LEMMA QueuedBounded ==
    ASSUME IInv, NEW j \in Job
    PROVE  queued[j] \in 0..(MaxLosses + 1)
<1> DEFINE e == j.email
           S == {j.tries} \X (1..queued[j])
<1>0. e \in Email /\ j.tries \in 0..MaxRetries /\ j = TheJob(e, j.tries)
  BY DEF Job, TheJob
<1>1. queued[j] \in Nat /\ losses \in Nat /\ losses <= MaxLosses
  BY BoundAssumption DEF IInv, Typed
<1>2. S \subseteq Copies(e)
  BY <1>0, <1>1 DEF Copies, Slot, TheJob
<1>3. /\ IsFiniteSet(1..queued[j]) /\ Cardinality(1..queued[j]) = queued[j]
      /\ IsFiniteSet({j.tries}) /\ Cardinality({j.tries}) = 1
  <2>1. \A n \in Nat : IsFiniteSet(1..n) /\ Cardinality(1..n) = n
    BY FS_Interval
  <2> QED
    BY <1>1, <2>1, FS_Singleton
<1>4. Cardinality(S) = Cardinality({j.tries}) * Cardinality(1..queued[j])
  BY <1>3, FS_Product
<1>5. Cardinality(S) = queued[j]
  BY <1>1, <1>3, <1>4
<1>6. Counted(e)
  BY <1>0 DEF IInv, Counts
<1>7. IsFiniteSet(Copies(e))
  BY <1>6 DEF Counted
<1>8. Cardinality(S) <= Cardinality(Copies(e))
  BY <1>2, <1>7, FS_Subset
<1>9. Cardinality(Copies(e)) \in Nat /\ Cardinality(Runs(e)) \in Nat
  BY <1>1, <1>6, Sum
<1> HIDE DEF S, e
<1> QED
  BY <1>1, <1>5, <1>6, <1>8, <1>9, BoundAssumption DEF Counted

(* Every reachable state is well typed: a job is on the broker at most     *)
(* once more than messages were lost.                                      *)
THEOREM TypeCorrect == Spec => []TypeOK
<1>1. ASSUME IInv
      PROVE  TypeOK
  <2>1. \A j \in Job : queued[j] \in 0..(MaxLosses + 1)
    BY <1>1, QueuedBounded
  <2>2. queued \in [Job -> 0..(MaxLosses + 1)]
    BY <1>1, <2>1 DEF IInv, Typed
  <2> QED
    BY <1>1, <2>2 DEF IInv, Typed, TypeOK
<1> QED
  BY <1>1, Invariance, PTL

(* However runs are repeated, delayed and overtaken by edits, a mail shows *)
(* a row that has the change it is about and the reason given with it.     *)
THEOREM MailsFitTheirCause == Spec => []TextMatchesCause
<1>1. IInv => TextMatchesCause
  BY DEF IInv, TextsFit, Fits, TextMatchesCause
<1> QED
  BY <1>1, Invariance, PTL
-----------------------------------------------------------------------------
(* No queued email is lost: it is on the broker or with a worker until a   *)
(* run of it has ended.                                                    *)
Kept == \A e \in owed : ~Unsent(e)

(* A run that is over frees its worker, and its email is no longer owed.   *)
LEMMA EndKept ==
    ASSUME Kept, NEW w, End(w), UNCHANGED queued
    PROVE  Kept'
<1>1. \A e : Copies(e)' = Copies(e) /\ Runs(e)' = Runs(e) \ {w}
  BY SameCopies, FewerRuns DEF End
<1>2. \A e : e # EmailOf(w) => w \notin Runs(e)
  BY DEF Runs
<1>3. \A e : e # EmailOf(w) /\ ~Unsent(e) => ~Unsent(e)'
  BY <1>1, <1>2 DEF Unsent
<1> QED
  BY <1>3 DEF End, Kept

(* A run that breaks off leaves a message of its email with the broker.    *)
LEMMA RequeueKept ==
    ASSUME Typed, Kept, NEW w \in DOMAIN task, NEW t \in 0..MaxRetries, Requeue(w, t),
           Finish(w) \/ UNCHANGED task, UNCHANGED owed
    PROVE  Kept'
<1> PICK e \in Email : e = EmailOf(w)
  BY RunningTyped
<1>1. queued' = [queued EXCEPT ![TheJob(e, t)] = @ + 1]
  BY DEF Requeue, TheJob
<1>2. /\ Copies(e)' # {}
      /\ \A f \in Email \ {e} : Copies(f)' = Copies(f)
  BY <1>1, MoreCopies
<1>3. \A f \in Email \ {e} : Runs(f)' = Runs(f)
  <2>1. \A f \in Email \ {e} : w \notin Runs(f)
    BY DEF Runs
  <2>2. CASE Finish(w)
    <3>1. \A f : Runs(f)' = Runs(f) \ {w}
      BY <2>2, FewerRuns
    <3> QED
      BY <2>1, <3>1
  <2>3. CASE UNCHANGED task
    BY <2>3 DEF Runs, EmailOf
  <2> QED
    BY <2>2, <2>3
<1>4. \A f \in Email : ~Unsent(f) => ~Unsent(f)'
  BY <1>2, <1>3 DEF Unsent
<1> QED
  BY <1>4 DEF Kept, Typed

(* A run that goes on, or a step that is none of the queue's.              *)
LEMMA OngoingKept ==
    ASSUME Kept, UNCHANGED <<queued, owed>>, DOMAIN task' = DOMAIN task,
           \A w \in DOMAIN task : task'[w].job = task[w].job
    PROVE  Kept'
<1>1. \A e : Copies(e)' = Copies(e) /\ Runs(e)' = Runs(e)
  BY SameCopies, SameRuns
<1> QED
  BY <1>1 DEF Kept, Unsent

(* Every step keeps every queued email.                                    *)
LEMMA KeptStep ==
    ASSUME IInv, Kept, [Next]_vars
    PROVE  Kept'
<1>1. ASSUME NEW e \in dispatching, Dispatch(e)
      PROVE  Kept'
  <2>1. /\ queued' = [queued EXCEPT ![TheJob(e, 0)] = @ + 1]
        /\ owed' = owed \cup {e} /\ UNCHANGED task
    BY <1>1 DEF Dispatch, Publish, TheJob
  <2>2. e \in Email /\ 0 \in 0..MaxRetries
    BY BoundAssumption DEF IInv, Typed
  <2>3. /\ Copies(e)' # {}
        /\ \A f \in Email \ {e} : Copies(f)' = Copies(f)
    BY <2>1, <2>2, MoreCopies DEF IInv
  <2>4. \A f : Runs(f)' = Runs(f)
    BY <2>1, SameRuns
  <2>5. \A f \in Email : ~Unsent(f) \/ f = e => ~Unsent(f)'
    BY <2>3, <2>4 DEF Unsent
  <2> QED
    BY <2>1, <2>5 DEF Kept, IInv, Typed
<1>2. ASSUME NEW j \in Job, NEW w \in Worker, StartMail(w, j)
      PROVE  Kept'
  <2> DEFINE t == [job |-> j, pc |-> "load", text |-> NoText]
             e == j.email
  <2>1. /\ w \notin DOMAIN task /\ queued[j] > 0 /\ UNCHANGED owed
        /\ queued' = [queued EXCEPT ![j] = @ - 1]
        /\ task' = Insert(task, w, t)
    BY <1>2 DEF StartMail, history
  <2>2. t.job = j
    OBVIOUS
  <2> HIDE DEF t
  <2>3. \A f : Runs(f)' = IF f = e THEN Runs(f) \cup {w} ELSE Runs(f)
    BY <2>1, <2>2, MoreRuns
  <2>4. e \in Email /\ j.tries \in 0..MaxRetries /\ j = TheJob(e, j.tries)
    BY DEF Job, TheJob
  <2>5. \A f \in Email \ {e} : Copies(f)' = Copies(f)
    BY <2>1, <2>4, FewerCopies DEF IInv
  <2>6. \A f \in Email : ~Unsent(f) => ~Unsent(f)'
    BY <2>3, <2>5 DEF Unsent
  <2> QED
    BY <2>1, <2>6 DEF Kept, IInv, Typed
<1>3. ASSUME NEW w \in Worker,
             \/ SkipNotice(w) \/ SendMail(w) \/ DropMail(w) \/ GiveUp(w) \/ FailMail(w)
      PROVE  Kept'
  BY <1>3, EndKept DEF SkipNotice, SendMail, DropMail, GiveUp, FailMail
<1>4. ASSUME NEW w \in Worker, RetryMail(w)
      PROVE  Kept'
  <2>1. /\ w \in DOMAIN task /\ Finish(w) /\ task[w].job.tries < MaxRetries
        /\ Requeue(w, task[w].job.tries + 1) /\ UNCHANGED owed
    BY <1>4 DEF RetryMail
  <2>2. task[w].job.tries + 1 \in 0..MaxRetries
    BY <2>1, RunningTyped, BoundAssumption DEF IInv
  <2> QED
    BY <2>1, <2>2, RequeueKept DEF IInv
<1>5. ASSUME NEW w \in Worker, LoseWorker(w) \/ Redeliver(w)
      PROVE  Kept'
  <2>1. /\ w \in DOMAIN task /\ (Finish(w) \/ UNCHANGED task)
        /\ Requeue(w, task[w].job.tries) /\ UNCHANGED owed
    BY <1>5 DEF LoseWorker, Redeliver, history
  <2>2. task[w].job.tries \in 0..MaxRetries
    BY <2>1, RunningTyped DEF IInv
  <2> QED
    BY <2>1, <2>2, RequeueKept DEF IInv
<1>6. ASSUME NEW w \in Worker, LoadRow(w)
      PROVE  Kept'
  <2>1. /\ w \in DOMAIN task /\ UNCHANGED <<queued, owed>>
        /\ task' = [task EXCEPT ![w].pc = "send", ![w].text = Render(EmailOf(w))]
    BY <1>6 DEF LoadRow, At, history
  <2>2. task[w] \in Task
    BY <2>1, RunningTyped DEF IInv
  <2>3. DOMAIN task' = DOMAIN task /\ \A v \in DOMAIN task : task'[v].job = task[v].job
    BY <2>1, <2>2 DEF Task
  <2> QED
    BY <2>1, <2>3, OngoingKept
<1>7. ASSUME \/ UNCHANGED vars
             \/ \E r \in Row : Edit(r) \/ \E kind \in Kind : Commit(r, kind)
             \/ \E e \in dispatching : LoseDispatch(e)
      PROVE  Kept'
  <2>1. UNCHANGED <<queued, task, owed>>
    BY <1>7 DEF Edit, Commit, LoseDispatch, vars, history
  <2> QED
    BY <2>1, OngoingKept
<1> QED
  BY <1>1, <1>2, <1>3, <1>4, <1>5, <1>6, <1>7 DEF Next, Run

(* No queued email is lost in any reachable state.                         *)
THEOREM MailsKept == Spec => []Kept
<1>1. Init => Kept
  BY DEF Init, Kept
<1> QED
  BY <1>1, KeptStep, Invariance, PTL DEF Spec
-----------------------------------------------------------------------------
(* The emails run as the task queue promises.                              *)

Ready == [m \in Email \X (0..MaxRetries) |-> queued[[email |-> m[1], tries |-> m[2]]]]
Busy == [w \in DOMAIN task |-> <<EmailOf(w), task[w].job.tries>>]

(* The messages are the jobs.                                              *)
LEMMA Messages ==
    /\ Queue!Message = Email \X (0..MaxRetries)
    /\ \A e \in Email, t \in 0..MaxRetries :
         /\ <<e, t>> \in Queue!Message /\ TheJob(e, t) \in Job
         /\ Ready[<<e, t>>] = queued[TheJob(e, t)]
BY DEF Queue!Message, Ready, TheJob, Job

(* A job more or less on the broker is a message more or less.             *)
LEMMA ReadyCounts ==
    ASSUME Typed, NEW e \in Email, NEW t \in 0..MaxRetries
    PROVE  /\ queued' = [queued EXCEPT ![TheJob(e, t)] = @ + 1] =>
                Ready' = [Ready EXCEPT ![<<e, t>>] = @ + 1]
           /\ queued' = [queued EXCEPT ![TheJob(e, t)] = @ - 1] =>
                Ready' = [Ready EXCEPT ![<<e, t>>] = @ - 1]
<1> DEFINE M == Email \X (0..MaxRetries)
<1>1. /\ <<e, t>> \in M /\ Ready = [m \in M |-> queued[TheJob(m[1], m[2])]]
      /\ Ready' = [m \in M |-> queued'[TheJob(m[1], m[2])]]
  BY DEF Ready, TheJob
<1>2. \A m \in M : /\ TheJob(m[1], m[2]) \in Job
                   /\ TheJob(m[1], m[2]) = TheJob(e, t) <=> m = <<e, t>>
  BY DEF TheJob, Job
<1>3. queued \in [Job -> Nat]
  BY DEF Typed
<1> HIDE DEF M
<1>4. ASSUME queued' = [queued EXCEPT ![TheJob(e, t)] = @ + 1]
      PROVE  Ready' = [Ready EXCEPT ![<<e, t>>] = @ + 1]
  <2>1. \A m \in M : queued'[TheJob(m[1], m[2])] =
          IF m = <<e, t>> THEN queued[TheJob(e, t)] + 1 ELSE queued[TheJob(m[1], m[2])]
    BY <1>2, <1>3, <1>4
  <2>2. Ready[<<e, t>>] = queued[TheJob(e, t)]
    BY <1>1, <1>2
  <2> QED
    BY <1>1, <2>1, <2>2
<1>5. ASSUME queued' = [queued EXCEPT ![TheJob(e, t)] = @ - 1]
      PROVE  Ready' = [Ready EXCEPT ![<<e, t>>] = @ - 1]
  <2>1. \A m \in M : queued'[TheJob(m[1], m[2])] =
          IF m = <<e, t>> THEN queued[TheJob(e, t)] - 1 ELSE queued[TheJob(m[1], m[2])]
    BY <1>2, <1>3, <1>5
  <2>2. Ready[<<e, t>>] = queued[TheJob(e, t)]
    BY <1>1, <1>2
  <2> QED
    BY <1>1, <2>1, <2>2
<1> QED
  BY <1>4, <1>5

(* A worker that is done is free in the queue.                             *)
LEMMA FinishBusy ==
    ASSUME NEW w, Finish(w)
    PROVE  Busy' = Queue!Delete(Busy, w)
BY DEF Busy, EmailOf, Finish, Delete, Queue!Delete

(* The first state is the first state of the queue.                        *)
LEMMA QueueInit == Init => Queue!Init
<1> SUFFICES ASSUME Init
             PROVE  Queue!Init
  OBVIOUS
<1>1. Busy = Queue!EmptyTable
  BY DEF Init, Busy, EmptyTable, Queue!EmptyTable
<1>2. Ready = [m \in Queue!Message |-> 0]
  BY Messages DEF Init, Ready, Job
<1> QED
  BY <1>1, <1>2 DEF Init, Queue!Init, Busy, Ready

(* A run that ends is acknowledged.                                        *)
LEMMA EndAcks ==
    ASSUME NEW w \in DOMAIN task, End(w), UNCHANGED <<dispatching, queued>>
    PROVE  Queue!Ack(w)
<1>1. /\ Busy' = Queue!Delete(Busy, w) /\ DOMAIN Busy = DOMAIN task
      /\ Busy[w][1] = EmailOf(w) /\ UNCHANGED Ready
  BY FinishBusy DEF End, Busy, Ready
<1> QED
  BY <1>1 DEF Queue!Ack, End, Busy, Ready

(* Every step is a step of the queue or leaves it alone.                   *)
LEMMA QueueStep ==
    ASSUME IInv, [Next]_vars
    PROVE  [Queue!Next]_(Queue!vars)
<1>1. ASSUME NEW e \in dispatching, Dispatch(e)
      PROVE  e \in Email /\ Queue!Publish(e)
  <2>1. e \in Email /\ 0 \in 0..MaxRetries /\ Typed
    BY BoundAssumption DEF IInv, Typed
  <2>2. queued' = [queued EXCEPT ![TheJob(e, 0)] = @ + 1]
    BY <1>1 DEF Dispatch, Publish, TheJob
  <2>3. Ready' = [Ready EXCEPT ![<<e, 0>>] = @ + 1] /\ UNCHANGED Busy
    BY <1>1, <2>1, <2>2, ReadyCounts DEF Dispatch, Busy, EmailOf
  <2> QED
    BY <1>1, <2>1, <2>3 DEF Dispatch, Queue!Publish, Busy, Ready
<1>2. ASSUME NEW j \in Job, NEW w \in Worker, StartMail(w, j)
      PROVE  \E m \in Queue!Message : Queue!Take(w, m)
  <2>1. /\ w \notin DOMAIN task /\ queued[j] > 0 /\ UNCHANGED <<dispatching, owed>>
        /\ queued' = [queued EXCEPT ![j] = @ - 1]
        /\ DOMAIN task' = DOMAIN task \cup {w} /\ task'[w].job = j
        /\ \A v \in DOMAIN task : task'[v] = task[v]
    BY <1>2 DEF StartMail, Insert, history
  <2> PICK e \in Email, t \in 0..MaxRetries : j = TheJob(e, t) /\ j.email = e /\ j.tries = t
    BY DEF Job, TheJob
  <2>2. /\ Ready' = [Ready EXCEPT ![<<e, t>>] = @ - 1]
        /\ Ready[<<e, t>>] > 0 /\ <<e, t>> \in Queue!Message
    BY <2>1, ReadyCounts, Messages DEF IInv
  <2>3. Busy' = Queue!Insert(Busy, w, <<e, t>>) /\ w \notin DOMAIN Busy
    BY <2>1 DEF Queue!Insert, Busy, EmailOf
  <2>4. Queue!Take(w, <<e, t>>)
    BY <2>1, <2>2, <2>3 DEF Queue!Take, Busy, Ready
  <2> QED
    BY <2>2, <2>4
<1>3. ASSUME NEW w \in Worker,
             \/ SkipNotice(w) \/ SendMail(w) \/ DropMail(w) \/ GiveUp(w) \/ FailMail(w)
      PROVE  Queue!Ack(w)
  BY <1>3, EndAcks DEF SkipNotice, SendMail, DropMail, GiveUp, FailMail, At
<1>4. ASSUME NEW w \in Worker, RetryMail(w)
      PROVE  Queue!Retry(w)
  <2>1. /\ w \in DOMAIN task /\ Finish(w) /\ task[w].job.tries < MaxRetries
        /\ UNCHANGED <<dispatching, owed>>
        /\ queued' = [queued EXCEPT ![TheJob(EmailOf(w), task[w].job.tries + 1)] = @ + 1]
    BY <1>4 DEF RetryMail, Requeue, TheJob
  <2>2. EmailOf(w) \in Email /\ task[w].job.tries + 1 \in 0..MaxRetries
    BY <2>1, RunningTyped, BoundAssumption DEF IInv
  <2>3. /\ Ready' = [Ready EXCEPT ![<<EmailOf(w), task[w].job.tries + 1>>] = @ + 1]
        /\ Busy' = Queue!Delete(Busy, w) /\ w \in DOMAIN Busy
        /\ Busy[w][1] = EmailOf(w) /\ Busy[w][2] = task[w].job.tries
    BY <2>1, <2>2, ReadyCounts, FinishBusy DEF IInv, Busy
  <2> QED
    BY <2>1, <2>3 DEF Queue!Retry, Queue!Replace, Busy, Ready
<1>5. ASSUME NEW w \in Worker, LoseWorker(w) \/ Redeliver(w)
      PROVE  Queue!Return(w) \/ Queue!Redeliver(w)
  <2>1. /\ w \in DOMAIN task /\ UNCHANGED <<dispatching, owed>>
        /\ queued' = [queued EXCEPT ![TheJob(EmailOf(w), task[w].job.tries)] = @ + 1]
    BY <1>5 DEF LoseWorker, Redeliver, Requeue, TheJob, history
  <2>2. EmailOf(w) \in Email /\ task[w].job.tries \in 0..MaxRetries
    BY <2>1, RunningTyped DEF IInv
  <2>3. /\ Ready' = [Ready EXCEPT ![Busy[w]] = @ + 1] /\ w \in DOMAIN Busy
    BY <2>1, <2>2, ReadyCounts DEF IInv, Busy
  <2>4. CASE LoseWorker(w)
    <3>1. Busy' = Queue!Delete(Busy, w)
      BY <2>4, FinishBusy DEF LoseWorker
    <3> QED
      BY <2>1, <2>3, <3>1 DEF Queue!Return, Queue!Replace, Busy, Ready
  <2>5. CASE Redeliver(w)
    <3>1. Busy' = Busy
      BY <2>5 DEF Redeliver, Busy, EmailOf
    <3> QED
      BY <2>1, <2>3, <3>1 DEF Queue!Redeliver, Busy, Ready
  <2> QED
    BY <1>5, <2>4, <2>5
<1>6. ASSUME NEW w \in Worker, LoadRow(w)
      PROVE  UNCHANGED Queue!vars
  <2>1. /\ w \in DOMAIN task /\ UNCHANGED <<dispatching, queued, owed>>
        /\ task' = [task EXCEPT ![w].pc = "send", ![w].text = Render(EmailOf(w))]
    BY <1>6 DEF LoadRow, At, history
  <2>2. task[w] \in Task
    BY <2>1, RunningTyped DEF IInv
  <2>3. DOMAIN task' = DOMAIN task /\ \A v \in DOMAIN task : task'[v].job = task[v].job
    BY <2>1, <2>2 DEF Task
  <2>4. Busy' = Busy /\ Ready' = Ready
    BY <2>1, <2>3 DEF Busy, Ready, EmailOf
  <2> QED
    BY <2>1, <2>4 DEF Queue!vars, Busy, Ready
<1>7. ASSUME NEW r \in Row, NEW kind \in Kind, Commit(r, kind)
      PROVE  \E jobs \in SUBSET Email : Queue!Ask(jobs)
  <2>1. /\ UNCHANGED <<queued, task, owed>>
        /\ dispatching' = dispatching \cup {[row |-> r, kind |-> kind, cause |-> row'[r]]}
    BY <1>7 DEF Commit, history
  <2>2. dispatching' \subseteq Email
    BY <1>7, CommitInv DEF IInv, Typed
  <2>3. {[row |-> r, kind |-> kind, cause |-> row'[r]]} \in SUBSET Email
    BY <2>1, <2>2
  <2>4. Busy' = Busy /\ Ready' = Ready
    BY <2>1 DEF Busy, Ready, EmailOf
  <2> QED
    BY <2>1, <2>3, <2>4 DEF Queue!Ask, Busy, Ready
<1>8. ASSUME NEW e \in dispatching, LoseDispatch(e)
      PROVE  e \in Email /\ Queue!Drop(e)
  <2>1. Busy' = Busy /\ Ready' = Ready
    BY <1>8 DEF LoseDispatch, Busy, Ready, EmailOf
  <2> QED
    BY <1>8, <2>1 DEF LoseDispatch, history, Queue!Drop, Busy, Ready, IInv, Typed
<1>9. ASSUME UNCHANGED vars \/ \E r \in Row : Edit(r)
      PROVE  UNCHANGED Queue!vars
  <2>1. UNCHANGED <<dispatching, queued, task, owed>>
    BY <1>9 DEF Edit, vars, history
  <2>2. Busy' = Busy /\ Ready' = Ready
    BY <2>1 DEF Busy, Ready, EmailOf
  <2> QED
    BY <2>1, <2>2 DEF Queue!vars, Busy, Ready
<1> QED
  BY <1>1, <1>2, <1>3, <1>4, <1>5, <1>6, <1>7, <1>8, <1>9 DEF Next, Run, Queue!Next

(* What is kept here is what the queue promises.                           *)
LEMMA KeptIsNoneLost ==
    ASSUME IInv, Kept
    PROVE  Queue!NoneLost
<1> SUFFICES ASSUME NEW e \in owed
             PROVE  \/ \E m \in Queue!Message : m[1] = e /\ Ready[m] > 0
                    \/ \E w \in DOMAIN Busy : Busy[w][1] = e
  BY DEF Queue!NoneLost, Ready, Busy
<1>1. e \in Email
  BY DEF IInv, Typed
<1>2. CASE Copies(e) # {}
  <2>1. PICK c \in Slot : c[2] <= queued[[email |-> e, tries |-> c[1]]]
    BY <1>2 DEF Copies
  <2>2. c[1] \in 0..MaxRetries /\ c[2] \in Nat \ {0}
    BY DEF Slot
  <2>3. TheJob(e, c[1]) \in Job /\ queued[TheJob(e, c[1])] \in Nat
    BY <1>1, <2>2 DEF IInv, Typed, TheJob, Job
  <2>4. queued[TheJob(e, c[1])] > 0
    BY <2>1, <2>2, <2>3 DEF TheJob
  <2>5. /\ <<e, c[1]>> \in Queue!Message /\ <<e, c[1]>>[1] = e
        /\ Ready[<<e, c[1]>>] > 0
    BY <1>1, <2>2, <2>4, Messages
  <2> QED
    BY <2>5
<1>3. CASE Runs(e) # {}
  BY <1>3 DEF Runs, Busy
<1> QED
  BY <1>2, <1>3 DEF Kept, Unsent

(* Every step of an email is a step of the task queue or none of it, and   *)
(* no queued email is lost before a run of it has ended.                   *)
THEOREM QueueRefinement == Spec => RefinesQueue
<1>1. IInv /\ [Next]_vars => [Queue!Next]_(Queue!vars)
  BY QueueStep
<1>2. IInv /\ Kept => Queue!NoneLost
  BY KeptIsNoneLost
<1> QED
  BY <1>1, <1>2, QueueInit, Invariance, MailsKept, PTL
      DEF Spec, RefinesQueue, Queue!Spec, Queue!NeverLoses
=============================================================================
