--------------------------- MODULE AutomationProofs ---------------------------
(***************************************************************************)
(* Theorems of AutomationScheduler, for any number of automations,         *)
(* minutes, tries, faults and changes, and any cron expressions.           *)
(***************************************************************************)
EXTENDS AutomationScheduler, TLAPS

Row == [row : {"none", "active", "inactive", "deleted"}, due : SUBSET (1 .. Minutes),
        created : Nat, last : Nat \cup {Never}]

(* What a scheduler means to fire, and what it has fired. *)
Firing == [auto : Autos, due : SUBSET (1 .. Minutes), base : Nat, now : Nat,
           by : 1 .. Minutes]

CronStages == {"none", "queued", "loop", "enqueue", "done", "cut"}
RunStages == {"none", "queued", "deliver", "commit", "done"}

CronJob == [pc : CronStages, tries : 0 .. CronTries, todo : SUBSET Firing, cur : SUBSET Autos]
RunTask == [pc : RunStages, tries : Nat]

(* The types, with the domains TypeOK takes for granted. *)
Domains ==
  /\ clock \in 0 .. Minutes /\ up \in BOOLEAN /\ overlap \in BOOLEAN
  /\ auto \in [Autos -> Row]
  /\ cron \in [1 .. Minutes -> CronJob]
  /\ run \in [RunIds -> RunTask]
  /\ faults \in [stops : Nat, lost : Nat] /\ changes \in Nat
  /\ fires \subseteq Firing
  /\ delivered \in [RunIds -> Nat] /\ touched \subseteq Autos

(* Nothing is dated later than the clock, in the table or in what the      *)
(* schedulers hold and have fired; an expression in use is one of those    *)
(* that owners may set.                                                    *)
Timely ==
  /\ \A a \in Autos : /\ auto[a].created <= clock /\ auto[a].last <= clock
                      /\ auto[a].due = {} \/ auto[a].due \in Schedules
  /\ \A m \in 1 .. Minutes : \A f \in cron[m].todo : f.now <= clock
  /\ \A f \in fires : f.now <= clock

TypesInv == Domains /\ Timely

-----------------------------------------------------------------------------
(* A run is enqueued once: a scheduler has one entry for an automation, is *)
(* enqueued in its minute and not before, is tried once, and the runs of   *)
(* the entries it has not come to do not exist yet.                        *)
Ahead(m, a) == a \in cron[m].cur \/ \E f \in cron[m].todo : f.auto = a

Orderly(m) ==
  /\ m > clock => cron[m].pc = "none" /\ cron[m].tries = 0
  /\ \A f \in cron[m].todo : f.auto \notin cron[m].cur
  /\ \A f, g \in cron[m].todo : f.auto = g.auto => f = g
  /\ SchedulerRuns(m) => cron[m].tries # 0
  /\ \A r \in RunIds : r[2] = m =>
       /\ cron[m].pc \in {"none", "queued"} /\ cron[m].tries = 0 => run[r].pc = "none"
       /\ SchedulerRuns(m) /\ Ahead(m, r[1]) => run[r].pc = "none"

EnqueuedOnce == \A m \in 1 .. Minutes : Orderly(m)

(* What a run may have delivered so far: the stops pay for the deliveries  *)
(* of the tries that were interrupted.                                     *)
Sent(r) == IF run[r].pc \in {"commit", "done"} THEN 1 ELSE 0

DeliveriesPaid == \A r \in RunIds : delivered[r] <= Sent(r) + faults.stops

SendInv == EnqueuedOnce /\ DeliveriesPaid

-----------------------------------------------------------------------------
(* While no two schedulers ran at the same time: one runs at most; the     *)
(* last_run_at of a row is not before what was fired for it, nor is the    *)
(* base of an entry of a scheduler that runs; and what was fired for one   *)
(* automation lies in stretches of time that follow each other.            *)
Follows(f, g) == g.now <= f.base

Marked ==
  /\ \A m, n \in 1 .. Minutes : SchedulerRuns(m) /\ SchedulerRuns(n) => m = n
  /\ \A g \in fires :
       /\ auto[g.auto].row # "none"
       /\ Exists(g.auto) => g.now <= auto[g.auto].last
       /\ \A m \in 1 .. Minutes : SchedulerRuns(m) =>
            \A f \in cron[m].todo : f.auto = g.auto => Follows(f, g)
  /\ \A f, g \in fires : f.auto = g.auto /\ f # g => Follows(f, g) \/ Follows(g, f)

Increasing == \A m \in 1 .. Minutes : \A f \in cron[m].todo : f.base < f.now

MarkInv == Increasing /\ (~overlap => Marked)

-----------------------------------------------------------------------------
(* While a scheduler runs, and none has overlapped: an active automation   *)
(* that its owner has left alone has its entry still to come, or nothing   *)
(* due that last_run_at is not past.                                       *)
UpToDate(a, m) ==
  \A t \in auto[a].due : auto[a].created < t /\ t <= m => t <= auto[a].last

InTodo(a, m) == \E f \in cron[m].todo : f.auto = a

NoneLeft(m) ==
  \A a \in Autos \ touched : auto[a].row = "active" => InTodo(a, m) \/ UpToDate(a, m)

InTime == \A m \in 1 .. Minutes : \A f \in cron[m].todo : m <= f.now

DueInv ==
  /\ InTime
  /\ ~overlap => \A m \in 1 .. Minutes : SchedulerRuns(m) => NoneLeft(m)

-----------------------------------------------------------------------------
(* The shape of the identifiers of runs; what a step of a run is to the    *)
(* other runs, and of a scheduler to the others.                           *)
LEMMA RunIdParts ==
  ASSUME NEW r \in RunIds
  PROVE  r[1] \in Autos /\ r[2] \in 1 - MaxChanges .. Minutes
  BY SchedulerAssumption DEF RunIds

LEMMA Bounds ==
  /\ Minutes \in Nat /\ 0 \in 0 .. Minutes
  /\ CronTries = 1 /\ 0 \in 0 .. CronTries
  BY SchedulerAssumption DEF CronTries

LEMMA QueuedTask ==
  ASSUME NEW t \in RunTask
  PROVE  [t EXCEPT !.pc = "queued"] \in RunTask
  BY DEF RunTask, RunStages

LEMMA ScheduledMinutes ==
  ASSUME NEW s \in Schedules
  PROVE  s \in SUBSET (1 .. Minutes)
  BY SchedulerAssumption

LEMMA BaseType ==
  ASSUME NEW row \in Row
  PROVE  Base(row) \in Nat
  BY DEF Base, Row

-----------------------------------------------------------------------------
(* Types.                                                                  *)
LEMMA InitTypes == Init => TypesInv
<1> SUFFICES ASSUME Init PROVE TypesInv
  OBVIOUS
<1>1. NoAuto \in Row /\ NoAuto.created = 0 /\ NoAuto.last = -1 /\ NoAuto.due = {}
  BY DEF NoAuto, Row, Never
<1>2. IdleCron \in CronJob /\ IdleCron.todo = {}
  BY Bounds DEF IdleCron, CronJob, CronStages
<1>3. IdleRun \in RunTask
  BY DEF IdleRun, RunTask, RunStages
<1>4. Domains
  BY <1>1, <1>2, <1>3, Bounds DEF Init, Domains
<1>5. Timely
  BY <1>1, <1>2 DEF Init, Timely
<1> QED
  BY <1>4, <1>5 DEF TypesInv

(* An owner's call changes one row, or enqueues one run. *)
LEMMA OwnerTypes ==
  ASSUME TypesInv, NEW a \in Autos, Create(a) \/ Patch(a) \/ Delete(a) \/ Trigger(a)
  PROVE  TypesInv'
<1> USE DEF TypesInv, Domains
<1>1. ASSUME NEW w \in Row, auto' = [auto EXCEPT ![a] = w],
             w.created <= clock, w.last <= clock, w.due = {} \/ w.due \in Schedules,
             UNCHANGED <<clock, work, faults, up, fires, delivered, overlap>>,
             touched' \subseteq Autos, changes' \in Nat
      PROVE  TypesInv'
  BY <1>1 DEF Timely, work
<1>0. changes' \in Nat
  BY DEF Create, Patch, Delete, Trigger, Change
<1>2. CASE Create(a)
  <2>1. PICK s \in Schedules :
          auto' = [auto EXCEPT ![a] =
                     [row |-> "active", due |-> s, created |-> clock, last |-> Never]]
    BY <1>2 DEF Create
  <2>2. PICK w : w = [row |-> "active", due |-> s, created |-> clock, last |-> Never]
    OBVIOUS
  <2>3. w \in Row /\ w.created <= clock /\ w.last <= clock /\ w.due \in Schedules
    BY <2>2, ScheduledMinutes, SchedulerAssumption DEF Row, Never
  <2> QED BY <1>0, <1>1, <1>2, <2>1, <2>2, <2>3 DEF Create
<1>3. CASE Patch(a)
  <2>1. PICK s \in Schedules, row \in {"active", "inactive"} :
          auto' = [auto EXCEPT ![a].due = s, ![a].row = row]
    BY <1>3 DEF Patch
  <2>2. PICK w : w = [auto[a] EXCEPT !.due = s, !.row = row]
    OBVIOUS
  <2>3. /\ w \in Row /\ w.created = auto[a].created /\ w.last = auto[a].last /\ w.due = s
        /\ auto' = [auto EXCEPT ![a] = w]
    BY <2>1, <2>2, ScheduledMinutes DEF Row
  <2> QED BY <1>0, <1>1, <1>3, <2>3 DEF Patch, Timely
<1>4. CASE Delete(a)
  <2>1. PICK w : w = [NoAuto EXCEPT !.row = "deleted"]
    OBVIOUS
  <2>2. w \in Row /\ w.created = 0 /\ w.last = -1 /\ w.due = {}
    BY <2>1 DEF Row, NoAuto, Never
  <2>3. w.created <= clock /\ w.last <= clock
    BY <2>2, SchedulerAssumption
  <2> QED BY <1>0, <1>1, <1>4, <2>1, <2>2, <2>3 DEF Delete, history
<1>5. CASE Trigger(a)
  <2>1. run' \in [RunIds -> RunTask]
    BY <1>5 DEF Trigger, RunTask, RunStages
  <2> QED BY <1>0, <1>5, <2>1 DEF Trigger, Timely, history
<1> QED
  BY <1>2, <1>3, <1>4, <1>5

(* A scheduler moves on: its own job changes, and perhaps one row, the     *)
(* runs and the faults.                                                    *)
LEMMA ScheduleTypes ==
  ASSUME TypesInv, NEW m \in 1 .. Minutes, Schedule(m)
  PROVE  TypesInv'
<1> USE DEF TypesInv, Domains
<1>0. cron[m] \in CronJob
  OBVIOUS
<1>1. ASSUME NEW c \in CronJob, cron' = [cron EXCEPT ![m] = c], \A f \in c.todo : f.now <= clock
      PROVE  /\ cron' \in [1 .. Minutes -> CronJob]
             /\ \A n \in 1 .. Minutes : \A f \in cron'[n].todo : f.now <= clock
  BY <1>1 DEF Timely
<1>2. CASE SchedulerStart(m)
  <2> DEFINE todo == {[auto |-> a, due |-> auto[a].due, base |-> Base(auto[a]), now |-> clock,
                       by |-> m] :
                        a \in {b \in Autos : auto[b].row = "active" /\ IsDue(auto[b], clock)}}
  <2>1. PICK c : c = [pc |-> "loop", tries |-> cron[m].tries + 1, cur |-> {}, todo |-> todo]
    OBVIOUS
  <2>2. cron' = [cron EXCEPT ![m] = c]
    BY <1>2, <2>1 DEF SchedulerStart
  <2>3. cron[m].tries + 1 \in 0 .. CronTries
    BY <1>0, <1>2, Bounds DEF SchedulerStart, CronJob
  <2>4. ASSUME NEW f \in todo PROVE f \in Firing /\ f.now <= clock
    <3>1. PICK a \in Autos : f = [auto |-> a, due |-> auto[a].due, base |-> Base(auto[a]),
                                  now |-> clock, by |-> m]
      OBVIOUS
    <3>2. Base(auto[a]) \in Nat /\ auto[a].due \in SUBSET (1 .. Minutes)
      BY BaseType DEF Row
    <3> QED BY <3>1, <3>2, SchedulerAssumption DEF Firing
  <2>5. c \in CronJob /\ \A f \in c.todo : f.now <= clock
    <3> HIDE DEF todo
    <3> QED BY <2>1, <2>3, <2>4 DEF CronJob, CronStages
  <2>6. overlap' \in BOOLEAN
    BY <1>2 DEF SchedulerStart
  <2>7. /\ cron' \in [1 .. Minutes -> CronJob]
        /\ \A n \in 1 .. Minutes : \A f \in cron'[n].todo : f.now <= clock
    BY <1>1, <2>2, <2>5
  <2> QED BY <1>2, <2>6, <2>7 DEF SchedulerStart, Timely, rows
<1>3. CASE Fire(m)
  <2>1. PICK f \in cron[m].todo :
          /\ auto' = [auto EXCEPT ![f.auto].last = f.now]
          /\ cron' = [cron EXCEPT ![m].pc = "enqueue", ![m].cur = {f.auto}, ![m].todo = @ \ {f}]
          /\ fires' = fires \cup {f}
    BY <1>3 DEF Fire
  <2>2. f \in Firing /\ f.auto \in Autos /\ f.now \in Nat /\ f.now <= clock
    BY <1>0 DEF CronJob, Firing, Timely
  <2>3. /\ auto' \in [Autos -> Row]
        /\ \A a \in Autos : /\ auto'[a].created = auto[a].created /\ auto'[a].due = auto[a].due
                            /\ auto'[a].last = IF a = f.auto THEN f.now ELSE auto[a].last
    <3>1. PICK row : row = [auto[f.auto] EXCEPT !.last = f.now]
      OBVIOUS
    <3>2. /\ row \in Row /\ row.created = auto[f.auto].created /\ row.due = auto[f.auto].due
          /\ row.last = f.now
      BY <2>2, <3>1 DEF Row
    <3>3. auto' = [auto EXCEPT ![f.auto] = row]
      BY <2>1, <3>1
    <3> QED BY <2>2, <3>2, <3>3
  <2>4. PICK c : c = [cron[m] EXCEPT !.pc = "enqueue", !.cur = {f.auto}, !.todo = @ \ {f}]
    OBVIOUS
  <2>5. c \in CronJob /\ c.todo \subseteq cron[m].todo
    BY <1>0, <2>2, <2>4 DEF CronJob, CronStages
  <2>6. cron' = [cron EXCEPT ![m] = c]
    BY <2>1, <2>4
  <2>7. /\ cron' \in [1 .. Minutes -> CronJob]
        /\ \A n \in 1 .. Minutes : \A g \in cron'[n].todo : g.now <= clock
    BY <1>1, <2>5, <2>6 DEF Timely
  <2> QED BY <1>3, <2>1, <2>2, <2>3, <2>7 DEF Fire, Timely
<1>4. CASE FireGone(m) \/ SchedulerEnd(m)
  <2>1. PICK pc \in {"done", "cut"} : /\ cron' = [cron EXCEPT ![m] = [IdleCron EXCEPT !.pc = pc]]
                                     /\ UNCHANGED <<clock, rows, run, faults, up, history>>
    BY <1>4 DEF FireGone, SchedulerEnd
  <2>2. PICK c : c = [IdleCron EXCEPT !.pc = pc]
    OBVIOUS
  <2>3. c \in CronJob /\ c.todo = {} /\ cron' = [cron EXCEPT ![m] = c]
    BY <2>1, <2>2, Bounds DEF CronJob, CronStages, IdleCron
  <2>4. /\ cron' \in [1 .. Minutes -> CronJob]
        /\ \A n \in 1 .. Minutes : \A f \in cron'[n].todo : f.now <= clock
    BY <1>1, <2>3
  <2> QED BY <2>1, <2>4 DEF Timely, rows, history
<1>5. CASE SchedulerEnqueue(m)
  <2>1. PICK c : c = [cron[m] EXCEPT !.pc = "loop", !.cur = {}]
    OBVIOUS
  <2>2. c \in CronJob /\ c.todo = cron[m].todo /\ cron' = [cron EXCEPT ![m] = c]
    BY <1>0, <1>5, <2>1 DEF CronJob, CronStages, SchedulerEnqueue
  <2>3. run' \in [RunIds -> RunTask]
    BY <1>5, QueuedTask DEF SchedulerEnqueue
  <2>4. faults' \in [stops : Nat, lost : Nat]
    BY <1>5 DEF SchedulerEnqueue
  <2> QED BY <1>1, <1>5, <2>2, <2>3, <2>4 DEF SchedulerEnqueue, Timely, rows, history
<1> QED
  BY <1>2, <1>3, <1>4, <1>5 DEF Schedule

(* A run moves on: its own task changes, and perhaps its row. *)
LEMMA ExecuteTypes ==
  ASSUME TypesInv, NEW r \in RunIds, Execute(r)
  PROVE  TypesInv'
<1> USE DEF TypesInv, Domains
<1>1. run[r] \in RunTask /\ r[1] \in Autos
  BY RunIdParts
<1>2. CASE RunStart(r)
  <2>1. run' \in [RunIds -> RunTask]
    BY <1>1, <1>2 DEF RunStart, RunTask, RunStages, DoneRun
  <2> QED BY <1>2, <2>1 DEF RunStart, Timely, rows, history
<1>3. CASE RunDeliver(r)
  <2>1. run' \in [RunIds -> RunTask] /\ delivered' \in [RunIds -> Nat]
    BY <1>1, <1>3 DEF RunDeliver, RunTask, RunStages
  <2> QED BY <1>3, <2>1 DEF RunDeliver, Timely, rows
<1>4. CASE RunFails(r)
  <2>1. run' \in [RunIds -> RunTask]
    BY <1>4 DEF RunFails, RunTask, RunStages, DoneRun
  <2> QED BY <1>4, <2>1 DEF RunFails, Timely, rows, history
<1>5. CASE RunCommit(r)
  <2>1. run' \in [RunIds -> RunTask]
    BY <1>5 DEF RunCommit, RunTask, RunStages, DoneRun
  <2>2. /\ auto' \in [Autos -> Row]
        /\ \A a \in Autos : /\ auto'[a].created = auto[a].created /\ auto'[a].due = auto[a].due
                            /\ auto'[a].last \in {auto[a].last, clock}
    <3>1. CASE Exists(r[1])
      <4>1. PICK w : w = [auto[r[1]] EXCEPT !.last = clock]
        OBVIOUS
      <4>2. /\ w \in Row /\ w.created = auto[r[1]].created /\ w.due = auto[r[1]].due
            /\ w.last = clock
        <5>1. auto[r[1]] \in Row /\ clock \in Nat
          BY <1>1, Bounds
        <5> HIDE DEF TypesInv, Domains
        <5> QED BY <4>1, <5>1 DEF Row
      <4>3. auto' = [auto EXCEPT ![r[1]] = w]
        BY <1>5, <3>1, <4>1 DEF RunCommit
      <4> QED BY <1>1, <4>2, <4>3
    <3>2. CASE ~Exists(r[1])
      BY <1>5, <3>2 DEF RunCommit
    <3> QED BY <3>1, <3>2
  <2>3. \A a \in Autos : auto'[a].last <= clock
    BY <2>2, SchedulerAssumption DEF Timely
  <2> QED BY <1>5, <2>1, <2>2, <2>3 DEF RunCommit, Timely, history
<1> QED
  BY <1>2, <1>3, <1>4, <1>5 DEF Execute

LEMMA WorkerTypes ==
  ASSUME TypesInv, Tick \/ WorkerStop \/ WorkerStart
  PROVE  TypesInv'
<1> USE DEF TypesInv, Domains
<1>1. CASE Tick
  <2>1. clock' = clock + 1 /\ clock' \in 1 .. Minutes
    BY <1>1, SchedulerAssumption DEF Tick
  <2>2. \A a \in Autos : auto[a].created \in Nat /\ auto[a].last \in Int
    BY DEF Row, Never
  <2>3. /\ cron' \in [1 .. Minutes -> CronJob]
        /\ \A m \in 1 .. Minutes : cron'[m].todo = cron[m].todo
    BY <1>1, <2>1 DEF Tick, CronJob, CronStages
  <2>4. \A f \in Firing : f.now <= clock => f.now <= clock'
    BY <2>1, SchedulerAssumption DEF Firing
  <2>5. \A m \in 1 .. Minutes : cron[m].todo \subseteq Firing
    BY DEF CronJob
  <2>6. \A a \in Autos : auto[a].created <= clock' /\ auto[a].last <= clock'
    BY <2>1, <2>2, SchedulerAssumption DEF Timely
  <2> QED BY <1>1, <2>1, <2>3, <2>4, <2>5, <2>6, SchedulerAssumption DEF Tick, Timely, history
<1>2. CASE WorkerStop
  <2>1. /\ cron' \in [1 .. Minutes -> CronJob]
        /\ \A m \in 1 .. Minutes : cron'[m].todo \subseteq cron[m].todo
    BY <1>2 DEF WorkerStop, CronJob, CronStages, IdleCron
  <2>2. run' \in [RunIds -> RunTask]
    BY <1>2, QueuedTask DEF WorkerStop
  <2>3. faults' \in [stops : Nat, lost : Nat]
    <3>1. faults' = [faults EXCEPT !.stops = faults.stops + 1]
      BY <1>2 DEF WorkerStop
    <3> QED BY <3>1
  <2> QED BY <1>2, <2>1, <2>2, <2>3 DEF WorkerStop, Timely, rows, history
<1>3. CASE WorkerStart
  BY <1>3 DEF WorkerStart, Timely, rows, work, history
<1> QED
  BY <1>1, <1>2, <1>3

LEMMA NextTypes == TypesInv /\ [Next]_vars => TypesInv'
<1> SUFFICES ASSUME TypesInv, [Next]_vars PROVE TypesInv'
  OBVIOUS
<1>1. CASE UNCHANGED vars
  BY <1>1 DEF vars, TypesInv, Domains, Timely
<1> QED
  BY <1>1, OwnerTypes, ScheduleTypes, ExecuteTypes, WorkerTypes DEF Next

(* The domains of the table, the queue and the clock, and that no row and  *)
(* no task is dated later than the clock (tasks.py:82-115).                *)
THEOREM TypesKept == Spec => []TypesInv
  BY InitTypes, NextTypes, PTL DEF Spec

(* The table, the queue and the clock stay within their types, and nothing *)
(* in the table is dated in the future (tasks.py:82-115).                  *)
THEOREM AutomationTypes == Spec => []TypeOK
<1>1. TypesInv => TypeOK
  <2> SUFFICES ASSUME TypesInv PROVE TypeOK
    OBVIOUS
  <2>1. \A a \in Autos : auto[a].created \in 0 .. clock /\ auto[a].last \in -1 .. clock
    BY SchedulerAssumption DEF TypesInv, Domains, Timely, Row, Never
  <2>2. \A m \in 1 .. Minutes : {f.auto : f \in cron[m].todo} \subseteq Autos
    BY DEF TypesInv, Domains, CronJob, Firing
  <2> QED BY <2>1, <2>2 DEF TypesInv, Domains, Timely, TypeOK, Row, CronJob, CronStages,
                            RunTask, RunStages
<1> QED
  BY <1>1, TypesKept, PTL

-----------------------------------------------------------------------------
(* What is sent.                                                           *)
LEMMA InitSend == Init => SendInv
  BY Bounds, SchedulerAssumption DEF Init, SendInv, EnqueuedOnce, Orderly, DeliveriesPaid, Sent,
     SchedulerRuns, Ahead, IdleCron, IdleRun

(* A step that leaves the schedulers alone, and starts no run of theirs. *)
LEMMA OrderlyFrame ==
  ASSUME EnqueuedOnce, UNCHANGED <<clock, cron>>,
         \A r \in RunIds : r[2] \in 1 .. Minutes /\ run[r].pc = "none" => run'[r].pc = "none"
  PROVE  EnqueuedOnce'
  BY DEF EnqueuedOnce, Orderly, SchedulerRuns, Ahead

(* A step of one scheduler, which starts runs of its own at most. *)
LEMMA OrderlyStep ==
  ASSUME TypesInv, EnqueuedOnce, NEW m \in 1 .. Minutes, Orderly(m)', UNCHANGED clock,
         NEW c \in CronJob, cron' = [cron EXCEPT ![m] = c],
         \A r \in RunIds : r[2] # m => run'[r] = run[r]
  PROVE  EnqueuedOnce'
<1>1. \A n \in 1 .. Minutes : n # m => cron'[n] = cron[n]
  BY DEF TypesInv, Domains
<1> QED
  BY <1>1 DEF EnqueuedOnce, Orderly, SchedulerRuns, Ahead

LEMMA OrderlySchedule ==
  ASSUME TypesInv, EnqueuedOnce, NEW m \in 1 .. Minutes, Schedule(m)
  PROVE  EnqueuedOnce'
<1>1. /\ cron[m] \in CronJob /\ cron \in [1 .. Minutes -> CronJob] /\ clock \in 0 .. Minutes
      /\ cron'[m] \in CronJob /\ cron' = [cron EXCEPT ![m] = cron'[m]] /\ clock' = clock
      /\ Orderly(m)
  <2>1. Domains'
    BY ScheduleTypes DEF TypesInv
  <2>2. PICK c : cron' = [cron EXCEPT ![m] = c]
    BY DEF Schedule, SchedulerStart, Fire, FireGone, SchedulerEnqueue, SchedulerEnd
  <2>3. cron'[m] = c
    BY <2>2 DEF TypesInv, Domains
  <2>4. clock' = clock
    BY DEF Schedule, SchedulerStart, Fire, FireGone, SchedulerEnqueue, SchedulerEnd
  <2> QED BY <2>1, <2>2, <2>3, <2>4 DEF TypesInv, Domains, EnqueuedOnce
<1>2. \A r \in RunIds : r[2] # m => run'[r] = run[r]
  BY DEF Schedule, SchedulerStart, Fire, FireGone, SchedulerEnqueue, SchedulerEnd, TypesInv, Domains
<1>3. SUFFICES Orderly(m)'
  BY <1>1, <1>2, OrderlyStep
<1>4. m <= clock
  <2>1. cron[m].pc # "none"
    BY DEF Schedule, SchedulerStart, Fire, FireGone, SchedulerEnqueue, SchedulerEnd
  <2> QED BY <1>1, <2>1 DEF Orderly
<1>5. CASE SchedulerStart(m)
  <2> DEFINE todo == {[auto |-> a, due |-> auto[a].due, base |-> Base(auto[a]), now |-> clock,
                       by |-> m] :
                        a \in {b \in Autos : auto[b].row = "active" /\ IsDue(auto[b], clock)}}
  <2>1. \A f, g \in todo : f.auto = g.auto => f = g
    OBVIOUS
  <2>2. /\ cron'[m] = [pc |-> "loop", tries |-> cron[m].tries + 1, cur |-> {}, todo |-> todo]
        /\ UNCHANGED run
    BY <1>1, <1>5 DEF SchedulerStart
  <2>3. /\ cron'[m].pc = "loop" /\ cron'[m].tries = cron[m].tries + 1 /\ cron'[m].cur = {}
        /\ cron'[m].todo = todo
    BY <2>2
  <2> HIDE DEF todo
  <2>4. cron[m].tries = 0
    BY <1>1, <1>5, Bounds DEF SchedulerStart, CronJob
  <2>5. \A r \in RunIds : r[2] = m => run[r].pc = "none"
    BY <1>1, <1>5, <2>4 DEF Orderly, SchedulerStart
  <2> QED BY <1>1, <1>4, <2>1, <2>2, <2>3, <2>4, <2>5, Bounds DEF Orderly
<1>6. CASE Fire(m)
  <2>1. PICK f \in cron[m].todo :
          /\ cron' = [cron EXCEPT ![m].pc = "enqueue", ![m].cur = {f.auto}, ![m].todo = @ \ {f}]
          /\ UNCHANGED run
    BY <1>6 DEF Fire
  <2>2. /\ cron'[m].pc = "enqueue" /\ cron'[m].tries = cron[m].tries /\ cron'[m].cur = {f.auto}
        /\ cron'[m].todo = cron[m].todo \ {f}
    BY <1>1, <2>1 DEF CronJob
  <2>3. SchedulerRuns(m)
    BY <1>6 DEF Fire, SchedulerRuns
  <2>4. \A a : Ahead(m, a)' => Ahead(m, a)
    BY <2>2 DEF Ahead
  <2> QED BY <1>1, <1>4, <2>1, <2>2, <2>3, <2>4 DEF Orderly
<1>7. CASE FireGone(m) \/ SchedulerEnd(m)
  <2>1. cron'[m].pc \in {"done", "cut"} /\ cron'[m].todo = {}
    BY <1>1, <1>7 DEF FireGone, SchedulerEnd, IdleCron
  <2> QED BY <1>1, <1>4, <2>1, Bounds DEF Orderly, SchedulerRuns
<1>8. CASE SchedulerEnqueue(m)
  <2>1. /\ cron'[m].pc = "loop" /\ cron'[m].cur = {} /\ cron'[m].tries = cron[m].tries
        /\ cron'[m].todo = cron[m].todo /\ SchedulerRuns(m)
    BY <1>1, <1>8 DEF SchedulerEnqueue, CronJob, SchedulerRuns
  <2>2. ASSUME NEW r \in RunIds, r[2] = m, Ahead(m, r[1])' PROVE run'[r].pc = "none"
    <3>1. Ahead(m, r[1]) /\ r[1] \notin cron[m].cur
      BY <1>1, <2>1, <2>2 DEF Ahead, Orderly
    <3>2. run[r].pc = "none"
      BY <1>1, <2>1, <2>2, <3>1 DEF Orderly
    <3> QED BY <1>8, <3>1, <3>2 DEF SchedulerEnqueue
  <2> QED BY <1>1, <1>4, <2>1, <2>2 DEF Orderly, SchedulerRuns
<1> QED
  BY <1>5, <1>6, <1>7, <1>8 DEF Schedule

LEMMA OrderlyNext == TypesInv /\ EnqueuedOnce /\ [Next]_vars => EnqueuedOnce'
<1> SUFFICES ASSUME TypesInv, EnqueuedOnce, [Next]_vars PROVE EnqueuedOnce'
  OBVIOUS
<1>1. CASE UNCHANGED vars
  BY <1>1, OrderlyFrame DEF vars
<1>2. ASSUME NEW a \in Autos, Create(a) \/ Patch(a) \/ Delete(a) PROVE EnqueuedOnce'
  BY <1>2, OrderlyFrame DEF Create, Patch, Delete, work
<1>3. ASSUME NEW a \in Autos, Trigger(a) PROVE EnqueuedOnce'
  <2>1. -changes \notin 1 .. Minutes
    BY DEF TypesInv, Domains
  <2>2. \A r \in RunIds : r[2] \in 1 .. Minutes => r # <<a, -changes>>
    BY <2>1
  <2>3. \A r \in RunIds : r # <<a, -changes>> => run'[r] = run[r]
    BY <1>3 DEF Trigger, TypesInv, Domains
  <2> QED BY <1>3, <2>2, <2>3, OrderlyFrame DEF Trigger
<1>4. ASSUME NEW q \in RunIds, Execute(q) PROVE EnqueuedOnce'
  <2>1. \A r \in RunIds : run[r].pc = "none" => run'[r] = run[r]
    BY <1>4 DEF Execute, RunStart, RunDeliver, RunCommit, RunFails, RunRuns, TypesInv, Domains
  <2>2. UNCHANGED <<clock, cron>>
    BY <1>4 DEF Execute, RunStart, RunDeliver, RunCommit, RunFails
  <2> QED BY <2>1, <2>2, OrderlyFrame
<1>5. CASE Tick
  <2>0. clock \in 0 .. Minutes /\ clock' = clock + 1 /\ clock' \in 1 .. Minutes /\ UNCHANGED run
    BY <1>5, SchedulerAssumption DEF Tick, TypesInv, Domains
  <2>1. \A n \in 1 .. Minutes :
          /\ cron'[n].todo = cron[n].todo /\ cron'[n].cur = cron[n].cur
          /\ cron'[n].tries = cron[n].tries
          /\ cron'[n].pc = IF up /\ n = clock' THEN "queued" ELSE cron[n].pc
    BY <1>5, <2>0 DEF Tick, TypesInv, Domains, CronJob
  <2>2. ASSUME NEW n \in 1 .. Minutes PROVE Orderly(n)'
    <3>1. Orderly(n)
      BY DEF EnqueuedOnce
    <3>2. n > clock' => n > clock /\ n # clock'
      BY <2>0, Bounds
    <3>3. CASE n = clock'
      <4>1. cron[n].pc = "none" /\ ~(n > clock')
        BY <2>0, <3>1, <3>3, Bounds DEF Orderly
      <4> QED BY <2>0, <2>1, <3>1, <3>3, <4>1 DEF Orderly, SchedulerRuns, Ahead
    <3>4. CASE n # clock'
      BY <2>0, <2>1, <3>1, <3>2, <3>4 DEF Orderly, SchedulerRuns, Ahead
    <3> QED BY <3>3, <3>4
  <2> QED BY <2>2 DEF EnqueuedOnce
<1>6. CASE WorkerStop
  <2>1. \A n \in 1 .. Minutes :
          /\ cron'[n].tries = cron[n].tries
          /\ \/ cron'[n] = cron[n]
             \/ SchedulerRuns(n) /\ cron'[n].pc = "queued" /\ cron'[n].todo = {}
    BY <1>6 DEF WorkerStop, IdleCron
  <2>2. \A r \in RunIds : run[r].pc = "none" => run'[r].pc = "none"
    BY <1>6 DEF WorkerStop, RunRuns
  <2>3. ASSUME NEW n \in 1 .. Minutes PROVE Orderly(n)'
    <3>1. Orderly(n) /\ clock' = clock
      BY <1>6 DEF EnqueuedOnce, WorkerStop
    <3>2. CASE cron'[n] = cron[n]
      BY <2>2, <3>1, <3>2 DEF Orderly, SchedulerRuns, Ahead
    <3>3. CASE SchedulerRuns(n) /\ cron'[n].pc = "queued" /\ cron'[n].todo = {}
      BY <2>1, <2>2, <3>1, <3>3 DEF Orderly, SchedulerRuns, Ahead
    <3> QED BY <2>1, <3>2, <3>3
  <2> QED BY <2>3 DEF EnqueuedOnce
<1>7. CASE WorkerStart
  BY <1>7, OrderlyFrame DEF WorkerStart, work
<1> QED
  BY <1>1, <1>2, <1>3, <1>4, <1>5, <1>6, <1>7, OrderlySchedule DEF Next

(* A step of the runs and of what they delivered keeps to what the stops   *)
(* pay for.                                                                *)
LEMMA PaidNext == TypesInv /\ SendInv /\ [Next]_vars => DeliveriesPaid'
<1> SUFFICES ASSUME TypesInv, SendInv, [Next]_vars PROVE DeliveriesPaid'
  OBVIOUS
<1> USE DEF SendInv
<1>1. /\ run \in [RunIds -> RunTask] /\ delivered \in [RunIds -> Nat] /\ faults.stops \in Nat
      /\ \A r \in RunIds : delivered[r] \in Nat
  BY DEF TypesInv, Domains
<1>2. ASSUME UNCHANGED <<delivered, faults>>,
             \A r \in RunIds : run'[r].pc = run[r].pc \/ run[r].pc \in {"none", "queued"}
                                 \/ run'[r].pc = "done"
      PROVE  DeliveriesPaid'
  BY <1>1, <1>2 DEF DeliveriesPaid, Sent
<1>3. CASE UNCHANGED vars
  BY <1>2, <1>3 DEF vars
<1>4. ASSUME NEW a \in Autos, Create(a) \/ Patch(a) \/ Delete(a) PROVE DeliveriesPaid'
  BY <1>2, <1>4 DEF Create, Patch, Delete, work, history
<1>5. ASSUME NEW a \in Autos, Trigger(a) PROVE DeliveriesPaid'
  <2>1. \A r \in RunIds : run'[r].pc = run[r].pc \/ run[r].pc = "none"
    BY <1>1, <1>5 DEF Trigger, RunTask
  <2> QED BY <1>2, <1>5, <2>1 DEF Trigger, history
<1>6. ASSUME NEW m \in 1 .. Minutes, Schedule(m) PROVE DeliveriesPaid'
  <2>1. \A r \in RunIds : run'[r].pc = run[r].pc \/ run[r].pc = "none"
    <3>1. CASE SchedulerEnqueue(m)
      <4>1. Orderly(m) /\ SchedulerRuns(m)
        BY <3>1 DEF SchedulerEnqueue, SchedulerRuns, EnqueuedOnce
      <4>2. \A r \in RunIds : r[1] \in cron[m].cur /\ r[2] = m => run[r].pc = "none"
        BY <4>1 DEF Orderly, Ahead
      <4> QED BY <3>1, <4>2 DEF SchedulerEnqueue
    <3>2. CASE ~SchedulerEnqueue(m)
      BY <1>6, <3>2 DEF Schedule, SchedulerStart, Fire, FireGone, SchedulerEnd
    <3> QED BY <3>1, <3>2
  <2>2. faults'.stops = faults.stops /\ UNCHANGED delivered
    BY <1>6 DEF Schedule, SchedulerStart, Fire, FireGone, SchedulerEnqueue, SchedulerEnd, history,
       TypesInv, Domains
  <2> QED BY <1>1, <2>1, <2>2 DEF DeliveriesPaid, Sent
<1>7. ASSUME NEW q \in RunIds, Execute(q) PROVE DeliveriesPaid'
  <2>1. CASE RunDeliver(q)
    <3>1. /\ delivered'[q] = delivered[q] + 1 /\ run[q].pc = "deliver" /\ run'[q].pc = "commit"
          /\ \A r \in RunIds : r # q => run'[r] = run[r] /\ delivered'[r] = delivered[r]
          /\ UNCHANGED faults
      BY <1>1, <2>1 DEF RunDeliver, RunTask
    <3>2. delivered'[q] <= 1 + faults.stops
      BY <1>1, <3>1 DEF DeliveriesPaid, Sent
    <3> QED BY <1>1, <3>1, <3>2 DEF DeliveriesPaid, Sent
  <2>2. CASE RunStart(q) \/ RunCommit(q) \/ RunFails(q)
    <3>1. \A r \in RunIds : run'[r] = run[r] \/ run[r].pc = "queued" \/ run'[r].pc = "done"
      BY <1>1, <2>2 DEF RunStart, RunCommit, RunFails, DoneRun
    <3> QED BY <1>2, <2>2, <3>1 DEF RunStart, RunCommit, RunFails, history
  <2> QED BY <1>7, <2>1, <2>2 DEF Execute
<1>8. CASE Tick \/ WorkerStart
  BY <1>2, <1>8 DEF Tick, WorkerStart, work, history
<1>9. CASE WorkerStop
  <2>1. faults'.stops = faults.stops + 1 /\ UNCHANGED delivered
    BY <1>9 DEF WorkerStop, history, TypesInv, Domains
  <2>2. \A r \in RunIds : run'[r].pc = run[r].pc \/ (RunRuns(r) /\ run'[r].pc = "queued")
    BY <1>1, <1>9 DEF WorkerStop, RunTask
  <2> QED BY <1>1, <2>1, <2>2 DEF DeliveriesPaid, Sent, RunRuns
<1> QED
  BY <1>3, <1>4, <1>5, <1>6, <1>7, <1>8, <1>9 DEF Next

(* A run sends its answer again only after a stop of the worker: every run *)
(* is enqueued once, and a try that is not interrupted ends the run        *)
(* (tasks.py:103-115, automation_service.py:43-53).                        *)
THEOREM SendsPaidByStops == Spec => []SentAgainOnlyAfterStop
<1>1. TypesInv /\ SendInv /\ [Next]_vars => SendInv'
  BY OrderlyNext, PaidNext DEF SendInv
<1>2. TypesInv /\ SendInv => SentAgainOnlyAfterStop
  BY DEF TypesInv, Domains, SendInv, DeliveriesPaid, Sent, SentAgainOnlyAfterStop
<1> QED
  BY <1>1, <1>2, InitSend, TypesKept, PTL DEF Spec

-----------------------------------------------------------------------------
(* What is fired.                                                          *)
LEMMA InitMark == Init => MarkInv
  BY DEF Init, MarkInv, Marked, Increasing, SchedulerRuns, IdleCron

(* Time does not decrease, no row comes back, and last_run_at only grows:  *)
(* a step that fires nothing keeps what was marked.                        *)
LEMMA MarkFrame ==
  ASSUME MarkInv, UNCHANGED fires, overlap => overlap',
         \A m \in 1 .. Minutes : /\ SchedulerRuns(m)' => SchedulerRuns(m)
                                 /\ cron'[m].todo \subseteq cron[m].todo,
         \A g \in fires : auto[g.auto].row # "none" =>
            /\ auto'[g.auto].row # "none"
            /\ (Exists(g.auto))' => /\ Exists(g.auto)
                                    /\ g.now <= auto[g.auto].last => g.now <= auto'[g.auto].last
  PROVE  MarkInv'
<1>1. Increasing'
  BY DEF MarkInv, Increasing
<1>2. ASSUME ~overlap' PROVE Marked'
  <2>1. Marked
    BY <1>2 DEF MarkInv
  <2> QED BY <2>1 DEF Marked, Follows
<1> QED
  BY <1>1, <1>2 DEF MarkInv

LEMMA IncreasingSchedule ==
  ASSUME TypesInv, Increasing, NEW m \in 1 .. Minutes, Schedule(m)
  PROVE  Increasing'
<1>1. \A n \in 1 .. Minutes : n # m => cron'[n] = cron[n]
  BY DEF Schedule, SchedulerStart, Fire, FireGone, SchedulerEnqueue, SchedulerEnd, TypesInv, Domains
<1>2. \A f \in cron'[m].todo : f.base < f.now
  <2>1. CASE SchedulerStart(m)
    <3>1. cron'[m].todo = {[auto |-> a, due |-> auto[a].due, base |-> Base(auto[a]), now |-> clock,
                            by |-> m] :
                     a \in {b \in Autos : auto[b].row = "active" /\ IsDue(auto[b], clock)}}
      BY <2>1 DEF SchedulerStart, TypesInv, Domains
    <3>2. ASSUME NEW a \in Autos, IsDue(auto[a], clock) PROVE Base(auto[a]) < clock
      <4>1. PICK t \in auto[a].due : Base(auto[a]) < t /\ t <= clock
        BY <3>2 DEF IsDue
      <4>2. t \in Nat /\ Base(auto[a]) \in Nat /\ clock \in Nat
        BY BaseType, Bounds DEF TypesInv, Domains, Row
      <4> QED BY <4>1, <4>2
    <3> QED BY <3>1, <3>2
  <2>2. CASE Fire(m) \/ FireGone(m) \/ SchedulerEnqueue(m) \/ SchedulerEnd(m)
    <3>1. cron'[m].todo \subseteq cron[m].todo
      <4>0. cron \in [1 .. Minutes -> CronJob] /\ cron[m] \in CronJob
        BY DEF TypesInv, Domains
      <4>1. CASE Fire(m)
        <5>1. PICK f \in cron[m].todo : cron' = [cron EXCEPT ![m].pc = "enqueue",
                                           ![m].cur = {f.auto}, ![m].todo = @ \ {f}]
          BY <4>1 DEF Fire
        <5> QED BY <4>0, <5>1 DEF CronJob
      <4>2. CASE FireGone(m) \/ SchedulerEnd(m)
        BY <4>0, <4>2 DEF FireGone, SchedulerEnd, IdleCron
      <4>3. CASE SchedulerEnqueue(m)
        BY <4>0, <4>3 DEF SchedulerEnqueue, CronJob
      <4> QED BY <2>2, <4>1, <4>2, <4>3
    <3> QED BY <3>1 DEF Increasing
  <2> QED BY <2>1, <2>2 DEF Schedule
<1> QED
  BY <1>1, <1>2 DEF Increasing

(* The scheduler that starts is the only one, and reads last_run_at as the *)
(* fires before it have left it.                                           *)
LEMMA MarkedStart ==
  ASSUME TypesInv, Marked, NEW m \in 1 .. Minutes, SchedulerStart(m), ~overlap'
  PROVE  Marked'
<1>1. /\ \A n \in 1 .. Minutes : ~SchedulerRuns(n)
      /\ \A n \in 1 .. Minutes : n # m => cron'[n] = cron[n]
      /\ UNCHANGED <<fires, auto>>
  BY DEF SchedulerStart, TypesInv, Domains, rows
<1>2. \A n \in 1 .. Minutes : SchedulerRuns(n)' => n = m
  BY <1>1 DEF SchedulerRuns
<1>3. ASSUME NEW g \in fires, NEW f \in cron'[m].todo, f.auto = g.auto
      PROVE  Follows(f, g)
  <2>1. cron'[m].todo = {[auto |-> a, due |-> auto[a].due, base |-> Base(auto[a]), now |-> clock,
                          by |-> m] :
                   a \in {b \in Autos : auto[b].row = "active" /\ IsDue(auto[b], clock)}}
    BY DEF SchedulerStart, TypesInv, Domains
  <2>2. PICK a \in Autos : /\ f.auto = a /\ f.base = Base(auto[a])
                           /\ auto[a].row = "active"
    BY <2>1
  <2>3. g.now <= auto[a].last /\ g.now \in Nat /\ auto[a].last \in Nat \cup {-1}
    BY <1>3, <2>2 DEF Marked, Exists, TypesInv, Domains, Firing, Row, Never
  <2>4. Base(auto[a]) = auto[a].last
    BY <2>3 DEF Base, Never
  <2> QED BY <2>2, <2>3, <2>4 DEF Follows
<1> QED
  BY <1>1, <1>2, <1>3 DEF Marked, Exists

(* What is fired follows all that was fired for the automation before.     *)
LEMMA MarkedFire ==
  ASSUME TypesInv, EnqueuedOnce, Increasing, Marked, NEW m \in 1 .. Minutes, Fire(m)
  PROVE  Marked'
<1>1. PICK f \in cron[m].todo :
        /\ Exists(f.auto)
        /\ auto' = [auto EXCEPT ![f.auto].last = f.now]
        /\ cron' = [cron EXCEPT ![m].pc = "enqueue", ![m].cur = {f.auto}, ![m].todo = @ \ {f}]
        /\ fires' = fires \cup {f}
  BY DEF Fire
<1>2. /\ f \in Firing /\ f.auto \in Autos /\ f.now \in Nat /\ f.base \in Nat /\ f.base < f.now
      /\ SchedulerRuns(m)
  BY DEF TypesInv, Domains, CronJob, Firing, Increasing, Fire, SchedulerRuns
<1>3. \A a \in Autos : /\ auto'[a].row = auto[a].row
                       /\ auto'[a].last = IF a = f.auto THEN f.now ELSE auto[a].last
  BY <1>1, <1>2 DEF TypesInv, Domains, Row
<1>4. /\ cron'[m].todo = cron[m].todo \ {f}
      /\ \A n \in 1 .. Minutes : n # m => cron'[n] = cron[n]
  BY <1>1 DEF TypesInv, Domains, CronJob
<1>5. \A n \in 1 .. Minutes : SchedulerRuns(n)' => n = m
  BY <1>2, <1>4 DEF Marked, SchedulerRuns
<1>6. \A g \in fires : g.auto = f.auto => Follows(f, g)
  BY <1>2 DEF Marked
<1>7. \A g \in fires : g.auto \in Autos /\ g.now \in Nat /\ (Follows(f, g) => g.now <= f.now)
  BY <1>2 DEF TypesInv, Domains, Firing, Follows
<1>8. \A h \in cron'[m].todo : h \in cron[m].todo /\ h.auto # f.auto
  BY <1>1, <1>4 DEF EnqueuedOnce, Orderly
<1>9. ASSUME NEW g \in fires'
      PROVE  /\ auto'[g.auto].row # "none"
             /\ (Exists(g.auto))' => g.now <= auto'[g.auto].last
             /\ \A h \in cron'[m].todo : h.auto = g.auto => Follows(h, g)
  <2>1. CASE g = f
    <3>1. auto'[f.auto].row # "none" /\ auto'[f.auto].last = f.now
      BY <1>1, <1>2, <1>3 DEF Exists
    <3>2. f.now <= f.now
      BY <1>2
    <3> QED BY <1>8, <2>1, <3>1, <3>2
  <2>2. CASE g \in fires
    BY <1>2, <1>3, <1>6, <1>7, <1>8, <2>2 DEF Marked, Exists
  <2> QED BY <1>1, <2>1, <2>2
<1>10. \A g, h \in fires' : g.auto = h.auto /\ g # h => Follows(g, h) \/ Follows(h, g)
  BY <1>1, <1>6 DEF Marked
<1> QED
  BY <1>5, <1>9, <1>10 DEF Marked

LEMMA MarkNext == TypesInv /\ EnqueuedOnce /\ MarkInv /\ [Next]_vars => MarkInv'
<1> SUFFICES ASSUME TypesInv, EnqueuedOnce, MarkInv, [Next]_vars PROVE MarkInv'
  OBVIOUS
<1>0. \A g \in fires : g.auto \in Autos /\ g.now \in Nat /\ g.now <= clock
  BY DEF TypesInv, Domains, Timely, Firing
<1>1. CASE UNCHANGED vars
  BY <1>1, MarkFrame DEF vars, SchedulerRuns, Exists
<1>2. ASSUME NEW a \in Autos, Create(a) \/ Patch(a) \/ Delete(a) PROVE MarkInv'
  <2>1. UNCHANGED <<cron, fires, overlap>>
    BY <1>2 DEF Create, Patch, Delete, work, history
  <2>2. ASSUME NEW b \in Autos, auto[b].row # "none"
        PROVE  /\ auto'[b].row # "none"
               /\ (Exists(b))' => Exists(b) /\ auto'[b].last = auto[b].last
    <3>1. CASE Create(a)
      BY <2>2, <3>1 DEF Create, TypesInv, Domains, Exists
    <3>2. CASE Patch(a)
      <4>1. PICK s \in Schedules, row \in {"active", "inactive"} :
              auto' = [auto EXCEPT ![a].due = s, ![a].row = row]
        BY <3>2 DEF Patch
      <4>2. /\ auto'[b].last = auto[b].last
            /\ auto'[b].row = IF b = a THEN row ELSE auto[b].row
        BY <4>1 DEF TypesInv, Domains, Row
      <4> QED BY <2>2, <3>2, <4>2 DEF Patch, Exists
    <3>3. CASE Delete(a)
      BY <2>2, <3>3 DEF Delete, TypesInv, Domains, Exists, NoAuto
    <3> QED BY <1>2, <3>1, <3>2, <3>3
  <2> QED BY <1>0, <2>1, <2>2, MarkFrame DEF SchedulerRuns
<1>3. ASSUME NEW a \in Autos, Trigger(a) PROVE MarkInv'
  BY <1>3, MarkFrame DEF Trigger, history, SchedulerRuns, Exists
<1>4. ASSUME NEW m \in 1 .. Minutes, Schedule(m) PROVE MarkInv'
  <2>1. Increasing'
    BY <1>4, IncreasingSchedule DEF MarkInv
  <2>2. ASSUME SchedulerStart(m), ~overlap' PROVE Marked'
    <3>1. ~overlap
      BY <2>2 DEF SchedulerStart
    <3> QED BY <2>2, <3>1, MarkedStart DEF MarkInv
  <2>3. ASSUME Fire(m), ~overlap' PROVE Marked'
    <3>1. ~overlap
      BY <2>3 DEF Fire
    <3> QED BY <2>3, <3>1, MarkedFire DEF MarkInv
  <2>4. ASSUME FireGone(m) \/ SchedulerEnqueue(m) \/ SchedulerEnd(m) PROVE MarkInv'
    <3>0. cron \in [1 .. Minutes -> CronJob] /\ cron[m] \in CronJob
      BY DEF TypesInv, Domains
    <3>1. /\ UNCHANGED <<auto, fires, overlap>>
          /\ \A n \in 1 .. Minutes : n # m => cron'[n] = cron[n]
          /\ cron'[m].todo \subseteq cron[m].todo
          /\ cron'[m].pc \in {"loop", "enqueue"} => SchedulerRuns(m)
      <4>1. CASE SchedulerEnqueue(m)
        BY <3>0, <4>1 DEF SchedulerEnqueue, SchedulerRuns, CronJob, rows, history
      <4>2. CASE FireGone(m) \/ SchedulerEnd(m)
        BY <3>0, <4>2 DEF FireGone, SchedulerEnd, IdleCron, CronJob, rows, history
      <4> QED BY <2>4, <4>1, <4>2
    <3> QED BY <3>1, MarkFrame DEF SchedulerRuns, Exists
  <2> QED BY <1>4, <2>1, <2>2, <2>3, <2>4 DEF Schedule, MarkInv
<1>5. ASSUME NEW r \in RunIds, Execute(r) PROVE MarkInv'
  <2>1. UNCHANGED <<cron, fires, overlap, clock>>
    BY <1>5 DEF Execute, RunStart, RunDeliver, RunCommit, RunFails, history
  <2>2. \A b \in Autos : /\ auto'[b].row = auto[b].row
                         /\ auto'[b].last = auto[b].last \/ auto'[b].last = clock
    <3>1. CASE RunCommit(r) /\ Exists(r[1])
      BY <3>1, RunIdParts DEF RunCommit, TypesInv, Domains, Row
    <3>2. CASE ~(RunCommit(r) /\ Exists(r[1]))
      BY <1>5, <3>2 DEF Execute, RunStart, RunDeliver, RunCommit, RunFails, rows
    <3> QED BY <3>1, <3>2
  <2> QED BY <1>0, <2>1, <2>2, MarkFrame DEF SchedulerRuns, Exists
<1>6. CASE Tick \/ WorkerStop \/ WorkerStart
  <2>1. /\ UNCHANGED <<auto, fires, overlap>>
        /\ \A n \in 1 .. Minutes : /\ cron'[n].todo \subseteq cron[n].todo
                                   /\ cron'[n].pc \in {"queued", cron[n].pc}
    <3>0. cron \in [1 .. Minutes -> CronJob] /\ \A n \in 1 .. Minutes : cron[n] \in CronJob
      BY DEF TypesInv, Domains
    <3>1. CASE Tick
      BY <3>0, <3>1 DEF Tick, history, CronJob
    <3>2. CASE WorkerStop
      BY <3>0, <3>2 DEF WorkerStop, rows, history, IdleCron
    <3>3. CASE WorkerStart
      BY <3>3 DEF WorkerStart, rows, work, history
    <3> QED BY <1>6, <3>1, <3>2, <3>3
  <2> QED BY <2>1, MarkFrame DEF SchedulerRuns, Exists
<1> QED
  BY <1>1, <1>2, <1>3, <1>4, <1>5, <1>6 DEF Next

(* No due minute is fired twice while schedulers do not overlap, for any   *)
(* number of missed minutes, of stops and of changes by the owners         *)
(* (tasks.py:94-113).                                                      *)
THEOREM DueFiredOnce == Spec => []FiredOnce
<1>1. Init => EnqueuedOnce
  BY InitSend DEF SendInv
<1>2. ASSUME TypesInv, MarkInv, ~overlap, NEW f \in fires, NEW g \in fires, f.auto = g.auto,
             f # g, NEW t \in 1 .. Minutes
      PROVE  ~(Covers(f, t) /\ Covers(g, t))
  <2>1. f.base \in Nat /\ f.now \in Nat /\ g.base \in Nat /\ g.now \in Nat
    BY <1>2 DEF TypesInv, Domains, Firing
  <2>2. g.now <= f.base \/ f.now <= g.base
    BY <1>2 DEF MarkInv, Marked, Follows
  <2> QED BY <2>1, <2>2 DEF Covers
<1>3. TypesInv /\ MarkInv => FiredOnce
  BY <1>2 DEF FiredOnce
<1> QED
  BY <1>1, <1>3, InitMark, OrderlyNext, MarkNext, TypesKept, PTL DEF Spec

-----------------------------------------------------------------------------
(* What a scheduler leaves behind.                                         *)
LEMMA InitDue == Init => DueInv
  BY DEF Init, DueInv, InTime, SchedulerRuns, IdleCron

(* A step in which no scheduler starts or takes an entry: a row that is    *)
(* still active and untouched has its expression, and last_run_at has only *)
(* grown.                                                                  *)
LEMMA DueFrame ==
  ASSUME TypesInv, DueInv, overlap => overlap', touched \subseteq touched',
         \A m \in 1 .. Minutes : /\ cron'[m].todo \subseteq cron[m].todo
                                 /\ SchedulerRuns(m)' => /\ SchedulerRuns(m)
                                                         /\ cron'[m].todo = cron[m].todo,
         \A a \in Autos \ touched' : auto'[a].row = "active" =>
            /\ auto[a].row = "active"
            /\ auto'[a].due = auto[a].due /\ auto'[a].created = auto[a].created
            /\ auto'[a].last = auto[a].last \/ auto'[a].last = clock
  PROVE  DueInv'
<1>1. InTime'
  BY DEF DueInv, InTime
<1>2. ASSUME NEW m \in 1 .. Minutes, SchedulerRuns(m)', ~overlap', NEW a \in Autos \ touched',
             auto'[a].row = "active", ~InTodo(a, m)'
      PROVE  UpToDate(a, m)'
  <2>1. /\ auto[a].due = auto'[a].due /\ auto[a].created = auto'[a].created
        /\ auto'[a].last = auto[a].last \/ auto'[a].last = clock
        /\ UpToDate(a, m)
    BY <1>2 DEF DueInv, NoneLeft, InTodo
  <2>2. /\ auto[a].last \in Nat \cup {-1} /\ auto[a].last <= clock /\ clock \in Nat
        /\ auto[a].due \in SUBSET (1 .. Minutes)
    BY Bounds DEF TypesInv, Domains, Timely, Row, Never
  <2>3. \A t \in auto[a].due : t <= auto[a].last => t <= auto'[a].last
    BY <2>1, <2>2
  <2> QED BY <2>1, <2>3 DEF UpToDate
<1> QED
  BY <1>1, <1>2 DEF DueInv, NoneLeft

(* Whatever is active and not due has nothing due to mark.                 *)
LEMMA DueStart ==
  ASSUME TypesInv, EnqueuedOnce, DueInv, NEW m \in 1 .. Minutes, SchedulerStart(m)
  PROVE  DueInv'
<1> DEFINE todo == {[auto |-> a, due |-> auto[a].due, base |-> Base(auto[a]), now |-> clock,
                     by |-> m] :
                      a \in {b \in Autos : auto[b].row = "active" /\ IsDue(auto[b], clock)}}
<1>1. /\ cron'[m].todo = todo
      /\ \A n \in 1 .. Minutes : n # m => cron'[n] = cron[n]
      /\ UNCHANGED auto
  BY DEF SchedulerStart, TypesInv, Domains, rows
<1>2. m <= clock
  BY SchedulerAssumption DEF SchedulerStart, EnqueuedOnce, Orderly, TypesInv, Domains
<1>3. InTime'
  <2>1. \A f \in todo : f.now = clock
    OBVIOUS
  <2> QED BY <1>1, <1>2, <2>1 DEF DueInv, InTime
<1>4. ASSUME NEW a \in Autos, auto[a].row = "active", ~InTodo(a, m)'
      PROVE  UpToDate(a, m)
  <2>0. ASSUME IsDue(auto[a], clock) PROVE \E f \in todo : f.auto = a
    <3>1. PICK f : f = [auto |-> a, due |-> auto[a].due, base |-> Base(auto[a]), now |-> clock,
                        by |-> m]
      OBVIOUS
    <3>2. f \in todo
      BY <1>4, <2>0, <3>1
    <3> QED BY <3>1, <3>2
  <2>1. ~IsDue(auto[a], clock)
    <3> HIDE DEF todo
    <3> QED BY <1>1, <1>4, <2>0 DEF InTodo
  <2>2. ASSUME NEW t \in auto[a].due, auto[a].created < t, t <= m
        PROVE  t <= auto[a].last
    <3>1. /\ t \in Nat /\ m \in Nat /\ clock \in Nat /\ auto[a].last \in Nat \cup {-1}
          /\ t <= clock
      BY <1>2, <2>2, Bounds DEF TypesInv, Domains, Row, Never
    <3>2. ~(Base(auto[a]) < t)
      BY <2>1, <3>1 DEF IsDue
    <3> QED BY <2>2, <3>1, <3>2 DEF Base, Never
  <2> QED BY <2>2 DEF UpToDate
<1>5. ASSUME ~overlap', NEW n \in 1 .. Minutes, SchedulerRuns(n)' PROVE n = m
  BY <1>1, <1>5 DEF SchedulerStart, SchedulerRuns
<1>6. \A a \in Autos : UpToDate(a, m) => UpToDate(a, m)'
  BY <1>1 DEF UpToDate
<1> QED
  BY <1>1, <1>3, <1>4, <1>5, <1>6 DEF DueInv, NoneLeft

(* The commit brings its automation up to date. *)
LEMMA DueFire ==
  ASSUME TypesInv, DueInv, NEW m \in 1 .. Minutes, Fire(m), ~overlap => Marked
  PROVE  DueInv'
<1>1. PICK f \in cron[m].todo :
        /\ Exists(f.auto)
        /\ auto' = [auto EXCEPT ![f.auto].last = f.now]
        /\ cron' = [cron EXCEPT ![m].pc = "enqueue", ![m].cur = {f.auto}, ![m].todo = @ \ {f}]
        /\ UNCHANGED <<overlap, touched>>
  BY DEF Fire
<1>2. f.auto \in Autos /\ f.now \in Nat /\ m <= f.now /\ SchedulerRuns(m)
  BY DEF TypesInv, Domains, CronJob, Firing, DueInv, InTime, Fire, SchedulerRuns
<1>3. \A a \in Autos : /\ auto'[a].row = auto[a].row /\ auto'[a].due = auto[a].due
                       /\ auto'[a].created = auto[a].created
                       /\ auto'[a].last = IF a = f.auto THEN f.now ELSE auto[a].last
  BY <1>1, <1>2 DEF TypesInv, Domains, Row
<1>4. /\ cron'[m].todo = cron[m].todo \ {f}
      /\ \A n \in 1 .. Minutes : n # m => cron'[n] = cron[n]
  BY <1>1 DEF TypesInv, Domains, CronJob
<1>5. InTime'
  BY <1>4 DEF DueInv, InTime
<1>6. ASSUME ~overlap', NEW n \in 1 .. Minutes, SchedulerRuns(n)' PROVE n = m
  BY <1>1, <1>2, <1>4, <1>6 DEF Marked, SchedulerRuns
<1>7. ASSUME ~overlap', NEW a \in Autos \ touched', auto'[a].row = "active", ~InTodo(a, m)'
      PROVE  UpToDate(a, m)'
  <2>1. CASE a = f.auto
    <3>1. \A t \in auto[a].due : t \in Nat
      BY <1>2, <2>1 DEF TypesInv, Domains, Row
    <3> QED BY <1>2, <1>3, <2>1, <3>1 DEF UpToDate
  <2>2. CASE a # f.auto
    <3>1. ~InTodo(a, m)
      BY <1>4, <1>7, <2>2 DEF InTodo
    <3>2. UpToDate(a, m)
      BY <1>1, <1>2, <1>3, <1>7, <3>1 DEF DueInv, NoneLeft
    <3> QED BY <1>3, <2>2, <3>2 DEF UpToDate
  <2> QED BY <2>1, <2>2
<1> QED
  BY <1>5, <1>6, <1>7 DEF DueInv, NoneLeft

LEMMA DueNext == TypesInv /\ SendInv /\ MarkInv /\ DueInv /\ [Next]_vars => DueInv'
<1> SUFFICES ASSUME TypesInv, SendInv, MarkInv, DueInv, [Next]_vars PROVE DueInv'
  OBVIOUS
<1>0. /\ EnqueuedOnce /\ (~overlap => Marked)
      /\ cron \in [1 .. Minutes -> CronJob] /\ \A n \in 1 .. Minutes : cron[n] \in CronJob
  BY DEF SendInv, MarkInv, TypesInv, Domains
<1>1. CASE UNCHANGED vars
  BY <1>1, DueFrame DEF vars, SchedulerRuns
<1>2. ASSUME NEW a \in Autos, Create(a) \/ Patch(a) \/ Delete(a) \/ Trigger(a) PROVE DueInv'
  <2>1. UNCHANGED <<cron, overlap>> /\ touched \subseteq touched'
    BY <1>2 DEF Create, Patch, Delete, Trigger, work, history
  <2>2. ASSUME NEW b \in Autos \ touched', auto'[b].row = "active" PROVE auto'[b] = auto[b]
    <3>1. CASE Create(a) \/ Patch(a)
      <4>1. b # a
        BY <2>2, <3>1 DEF Create, Patch
      <4> QED BY <3>1, <4>1 DEF Create, Patch, TypesInv, Domains
    <3>2. CASE Delete(a)
      <4>1. auto'[a].row = "deleted"
        BY <3>2 DEF Delete, TypesInv, Domains, NoAuto
      <4> QED BY <2>2, <3>2, <4>1 DEF Delete, TypesInv, Domains
    <3>3. CASE Trigger(a)
      BY <3>3 DEF Trigger
    <3> QED BY <1>2, <3>1, <3>2, <3>3
  <2> QED BY <2>1, <2>2, DueFrame DEF SchedulerRuns
<1>3. ASSUME NEW m \in 1 .. Minutes, Schedule(m) PROVE DueInv'
  <2>1. CASE SchedulerStart(m)
    BY <1>0, <2>1, DueStart
  <2>2. CASE Fire(m)
    BY <1>0, <2>2, DueFire
  <2>3. CASE FireGone(m) \/ SchedulerEnqueue(m) \/ SchedulerEnd(m)
    <3>1. UNCHANGED <<auto, overlap, touched>>
      BY <2>3 DEF FireGone, SchedulerEnqueue, SchedulerEnd, rows, history
    <3>2. /\ \A n \in 1 .. Minutes : n # m => cron'[n] = cron[n]
          /\ cron'[m].todo \subseteq cron[m].todo
          /\ cron'[m].pc \in {"loop", "enqueue"} => /\ SchedulerRuns(m)
                                                   /\ cron'[m].todo = cron[m].todo
      <4>1. CASE SchedulerEnqueue(m)
        BY <1>0, <4>1 DEF SchedulerEnqueue, SchedulerRuns, CronJob
      <4>2. CASE FireGone(m) \/ SchedulerEnd(m)
        BY <1>0, <4>2 DEF FireGone, SchedulerEnd, IdleCron, CronJob
      <4> QED BY <2>3, <4>1, <4>2
    <3> QED BY <3>1, <3>2, DueFrame DEF SchedulerRuns
  <2> QED BY <1>3, <2>1, <2>2, <2>3 DEF Schedule
<1>4. ASSUME NEW r \in RunIds, Execute(r) PROVE DueInv'
  <2>1. UNCHANGED <<cron, overlap, touched>>
    BY <1>4 DEF Execute, RunStart, RunDeliver, RunCommit, RunFails, history
  <2>2. \A b \in Autos : /\ auto'[b].row = auto[b].row /\ auto'[b].due = auto[b].due
                         /\ auto'[b].created = auto[b].created
                         /\ auto'[b].last = auto[b].last \/ auto'[b].last = clock
    <3>1. CASE RunCommit(r) /\ Exists(r[1])
      BY <3>1, RunIdParts DEF RunCommit, TypesInv, Domains, Row
    <3>2. CASE ~(RunCommit(r) /\ Exists(r[1]))
      BY <1>4, <3>2 DEF Execute, RunStart, RunDeliver, RunCommit, RunFails, rows
    <3> QED BY <3>1, <3>2
  <2> QED BY <2>1, <2>2, DueFrame DEF SchedulerRuns
<1>5. CASE Tick \/ WorkerStop \/ WorkerStart
  <2>1. UNCHANGED <<auto, overlap, touched>>
    BY <1>5 DEF Tick, WorkerStop, WorkerStart, rows, history
  <2>2. \A n \in 1 .. Minutes :
          /\ cron'[n].todo \subseteq cron[n].todo
          /\ cron'[n].pc \in {"loop", "enqueue"} => cron'[n] = cron[n]
    <3>1. CASE Tick
      BY <1>0, <3>1 DEF Tick, CronJob
    <3>2. CASE WorkerStop
      BY <1>0, <3>2 DEF WorkerStop, IdleCron, SchedulerRuns
    <3>3. CASE WorkerStart
      BY <3>3 DEF WorkerStart, work
    <3> QED BY <1>5, <3>1, <3>2, <3>3
  <2> QED BY <2>1, <2>2, DueFrame DEF SchedulerRuns
<1> QED
  BY <1>1, <1>2, <1>3, <1>4, <1>5 DEF Next

(* A scheduler that comes to its end has marked whatever was due, with any *)
(* number of automations, missed minutes, stops and failed enqueues, and   *)
(* with runs and changes of other automations in between                   *)
(* (tasks.py:94-115).                                                      *)
THEOREM DueAreMarked == Spec => DueIsMarked
<1>1. ASSUME TypesInv, DueInv, [Next]_vars, NEW m \in 1 .. Minutes,
             cron[m].pc = "loop", cron'[m].pc = "done", ~overlap,
             NEW a \in Autos \ touched, auto[a].row = "active"
      PROVE  UpToDate(a, m)
  <2>1. cron[m].todo = {}
    <3>0. cron \in [1 .. Minutes -> CronJob] /\ \A n \in 1 .. Minutes : cron[n] \in CronJob
      BY <1>1 DEF TypesInv, Domains
    <3>1. CASE UNCHANGED cron
      BY <1>1, <3>1
    <3>2. CASE Tick \/ WorkerStop
      BY <1>1, <3>0, <3>2 DEF Tick, WorkerStop, IdleCron, CronJob
    <3>3. ASSUME NEW n \in 1 .. Minutes, Schedule(n) PROVE cron[m].todo = {}
      <4>1. n = m
        BY <1>1, <3>0, <3>3 DEF Schedule, SchedulerStart, Fire, FireGone, SchedulerEnqueue,
           SchedulerEnd
      <4>2. ~(SchedulerStart(m) \/ Fire(m) \/ FireGone(m) \/ SchedulerEnqueue(m))
        <5>1. SchedulerStart(m) => cron'[m].pc = "loop"
          BY <3>0 DEF SchedulerStart
        <5>2. Fire(m) => cron'[m].pc = "enqueue"
          BY <3>0 DEF Fire, CronJob
        <5>3. FireGone(m) => cron'[m].pc = "cut"
          BY <3>0 DEF FireGone, IdleCron
        <5>4. SchedulerEnqueue(m) => cron'[m].pc = "loop"
          BY <3>0 DEF SchedulerEnqueue, CronJob
        <5> QED BY <1>1, <5>1, <5>2, <5>3, <5>4
      <4>3. SchedulerEnd(m)
        BY <3>3, <4>1, <4>2 DEF Schedule
      <4> QED BY <1>1, <4>3 DEF SchedulerEnd
    <3>4. UNCHANGED cron \/ Tick \/ WorkerStop \/ \E n \in 1 .. Minutes : Schedule(n)
      <4>1. CASE UNCHANGED vars
        BY <4>1 DEF vars
      <4>2. ASSUME NEW b \in Autos, Create(b) \/ Patch(b) \/ Delete(b) \/ Trigger(b)
            PROVE  UNCHANGED cron
        BY <4>2 DEF Create, Patch, Delete, Trigger, work
      <4>3. ASSUME NEW r \in RunIds, Execute(r) PROVE UNCHANGED cron
        BY <4>3 DEF Execute, RunStart, RunDeliver, RunCommit, RunFails
      <4>4. CASE WorkerStart
        BY <4>4 DEF WorkerStart, work
      <4> QED BY <1>1, <4>1, <4>2, <4>3, <4>4 DEF Next
    <3> QED BY <3>1, <3>2, <3>3, <3>4
  <2> QED BY <1>1, <2>1 DEF DueInv, NoneLeft, InTodo, SchedulerRuns
<1>2. TypesInv /\ DueInv /\ [Next]_vars =>
        [\A m \in 1 .. Minutes :
           /\ cron[m].pc = "loop" /\ cron'[m].pc = "done" /\ ~overlap
           => \A a \in Autos \ touched : auto[a].row = "active" =>
                \A t \in auto[a].due : auto[a].created < t /\ t <= m => t <= auto[a].last]_vars
  BY <1>1 DEF UpToDate
<1>3. SendInv => EnqueuedOnce
  BY DEF SendInv
<1>4. TypesInv /\ SendInv /\ [Next]_vars => SendInv'
  BY OrderlyNext, PaidNext DEF SendInv
<1> QED
  BY <1>2, <1>3, <1>4, InitSend, InitMark, InitDue, MarkNext, DueNext, TypesKept, PTL
  DEF Spec, DueIsMarked

=============================================================================
