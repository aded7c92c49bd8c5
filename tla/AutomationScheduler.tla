------------------------- MODULE AutomationScheduler -------------------------
(***************************************************************************)
(* Automations: the rows their owners create, change and delete            *)
(* (routers/automations.py), the scheduler arq starts each minute          *)
(* (cron_scheduler in workers/tasks.py) and the runs it enqueues           *)
(* (services/automation_service.py).                                       *)
(*                                                                         *)
(* The clock counts minutes, which is all a cron expression, the set of    *)
(* the minutes it names, can tell apart: the next minute of an expression  *)
(* after a moment in minute m is one after m.  A scheduler is named by its *)
(* minute, a run by its automation and the scheduler or, from 0 down, the  *)
(* call that enqueued it.  gem_id is a foreign key with RESTRICT, so the   *)
(* gem of a run is there.                                                  *)
(***************************************************************************)
EXTENDS Integers, FiniteSets

CONSTANTS
  Autos,
  Schedules,  \* cron expressions
  Minutes,    \* bounds the clock
  MaxChanges, \* bounds PATCH, DELETE and trigger calls
  MaxJobs,    \* arq's max_jobs
  MaxTries,   \* arq's max_tries for the other jobs
  MaxFaults   \* bounds the stops of the worker and the enqueues that raise

ASSUME SchedulerAssumption ==
  /\ Minutes \in Nat /\ MaxChanges \in Nat /\ MaxTries \in Nat \ {0}
  /\ MaxJobs \in Nat \ {0} /\ MaxFaults \in Nat
  /\ Schedules \subseteq SUBSET (1 .. Minutes)

VARIABLES
  clock,
  auto,      \* the table automations
  cron,      \* the scheduler job of each minute
  run,       \* the run_automation tasks
  changes,
  faults,    \* counts [stops, lost]: stops of the worker, enqueues that raised
  up,        \* the worker process is running
  fires,     \* history: what schedulers committed last_run_at for
  delivered, \* history: how often each run delivered
  overlap,   \* history: a scheduler has started while another one ran
  touched    \* history: what owners have changed since the last scheduler started

rows == <<auto, changes>>
work == <<cron, run>>
history == <<fires, delivered, overlap, touched>>
vars == <<clock, auto, cron, run, changes, faults, up, fires, delivered, overlap, touched>>

Never == -1
NoAuto == [row |-> "none", due |-> {}, created |-> 0, last |-> Never]
RunIds == Autos \X (1 - MaxChanges .. Minutes)

(* cron() of arq lets a job be tried once, unless it is told otherwise.     *)
CronTries == 1

IdleCron == [pc |-> "none", tries |-> 0, todo |-> {}, cur |-> {}]

IdleRun == [pc |-> "none", tries |-> 0]
DoneRun == [pc |-> "done", tries |-> 0]

Init ==
  /\ clock = 0
  /\ auto = [a \in Autos |-> NoAuto]
  /\ cron = [m \in 1 .. Minutes |-> IdleCron]
  /\ run = [r \in RunIds |-> IdleRun]
  /\ changes = 0 /\ faults = [stops |-> 0, lost |-> 0] /\ up = TRUE
  /\ fires = {} /\ delivered = [r \in RunIds |-> 0] /\ overlap = FALSE /\ touched = {}

Exists(a) == auto[a].row \in {"active", "inactive"}

-----------------------------------------------------------------------------
(* routers/automations.py *)
Create(a) ==
  /\ auto[a].row = "none"
  /\ \E s \in Schedules :
       auto' = [auto EXCEPT ![a] = [row |-> "active", due |-> s, created |-> clock, last |-> Never]]
  /\ touched' = touched \cup {a}
  /\ UNCHANGED <<clock, work, changes, faults, up, fires, delivered, overlap>>

Change == changes < MaxChanges /\ changes' = changes + 1

(* PATCH sets the expression and the flag, and leaves last_run_at alone.   *)
Patch(a) ==
  /\ Exists(a) /\ Change
  /\ \E s \in Schedules, row \in {"active", "inactive"} :
       auto' = [auto EXCEPT ![a].due = s, ![a].row = row]
  /\ touched' = touched \cup {a}
  /\ UNCHANGED <<clock, work, faults, up, fires, delivered, overlap>>

Delete(a) ==
  /\ Exists(a) /\ Change
  /\ auto' = [auto EXCEPT ![a] = [NoAuto EXCEPT !.row = "deleted"]]
  /\ UNCHANGED <<clock, work, faults, up, history>>

(* Enqueues a run whether the automation is active or not. *)
Trigger(a) ==
  /\ Exists(a) /\ Change
  /\ run[<<a, -changes>>].pc = "none"
  /\ run' = [run EXCEPT ![<<a, -changes>>].pc = "queued"]
  /\ UNCHANGED <<clock, auto, cron, faults, up, history>>

-----------------------------------------------------------------------------
(* Time passes; at the beginning of a minute a running worker enqueues the *)
(* scheduler.  A minute that begins while it is down is left out.          *)
Tick ==
  /\ clock < Minutes
  /\ clock' = clock + 1
  /\ cron' = IF up THEN [cron EXCEPT ![clock'].pc = "queued"] ELSE cron
  /\ UNCHANGED <<auto, run, changes, faults, up, history>>

SchedulerRuns(m) == cron[m].pc \in {"loop", "enqueue"}
RunRuns(r) == run[r].pc \in {"deliver", "commit"}

(* arq starts a task while fewer than max_jobs run. *)
SlotFree ==
  /\ up
  /\ Cardinality({m \in 1 .. Minutes : SchedulerRuns(m)})
       + Cardinality({r \in RunIds : RunRuns(r)}) < MaxJobs

Base(row) == IF row.last = Never THEN row.created ELSE row.last

(* Mutant: a scheduler looks at the present minute alone. *)
IsDueNow(row, now) == \E t \in row.due : Base(row) < t /\ t = now

(* croniter(cron_expr, base).get_next() <= now *)
IsDue(row, now) == \E t \in row.due : Base(row) < t /\ t <= now

(* The start of cron_scheduler: the active automations are read once, and  *)
(* kept as they were read (expire_on_commit=False); what the loop will do  *)
(* with each of them follows from that and from now.                       *)
SchedulerStart(m) ==
  LET now == clock
  IN  /\ SlotFree /\ cron[m].pc = "queued" /\ cron[m].tries < CronTries
      /\ cron' = [cron EXCEPT ![m] =
           [pc |-> "loop", tries |-> @.tries + 1, cur |-> {},
            todo |-> {[auto |-> a, due |-> auto[a].due, base |-> Base(auto[a]), now |-> now,
                       by |-> m] :
                        a \in {b \in Autos : auto[b].row = "active" /\ IsDue(auto[b], now)}}]]
      /\ overlap' = (overlap \/ \E n \in 1 .. Minutes : SchedulerRuns(n))
      /\ touched' = {}
      /\ UNCHANGED <<clock, rows, run, faults, up, fires, delivered>>

(* Mutant: last_run_at is left to the run. *)
FireUnmarked(m) ==
  /\ cron[m].pc = "loop"
  /\ \E f \in cron[m].todo :
       /\ Exists(f.auto)
       /\ cron' = [cron EXCEPT ![m].pc = "enqueue", ![m].cur = {f.auto}, ![m].todo = @ \ {f}]
       /\ fires' = fires \cup {f}
  /\ UNCHANGED <<clock, rows, run, faults, up, delivered, overlap, touched>>

(* Mutant: one commit for all that is due, and then the enqueues. *)
FireTogether(m) ==
  /\ cron[m].pc = "loop" /\ cron[m].todo # {}
  /\ \A f \in cron[m].todo : Exists(f.auto)
  /\ auto' = [a \in Autos |-> IF \E f \in cron[m].todo : f.auto = a
                             THEN [auto[a] EXCEPT !.last = clock] ELSE auto[a]]
  /\ cron' = [cron EXCEPT ![m].pc = "enqueue", ![m].todo = {},
                          ![m].cur = {f.auto : f \in cron[m].todo}]
  /\ fires' = fires \cup cron[m].todo
  /\ UNCHANGED <<clock, run, changes, faults, up, delivered, overlap, touched>>

(* last_run_at is committed, then the run is enqueued. *)
Fire(m) ==
  /\ cron[m].pc = "loop"
  /\ \E f \in cron[m].todo :
       /\ Exists(f.auto)
       /\ auto' = [auto EXCEPT ![f.auto].last = f.now]
       /\ cron' = [cron EXCEPT ![m].pc = "enqueue", ![m].cur = {f.auto}, ![m].todo = @ \ {f}]
       /\ fires' = fires \cup {f}
  /\ UNCHANGED <<clock, run, changes, faults, up, delivered, overlap, touched>>

(* The row was deleted since it was read: the commit raises, its rollback  *)
(* expires auto.id, and reading that for the log message raises again, out *)
(* of the loop: the other automations of this minute are left.             *)
FireGone(m) ==
  /\ cron[m].pc = "loop"
  /\ \E f \in cron[m].todo : ~Exists(f.auto)
  /\ cron' = [cron EXCEPT ![m] = [IdleCron EXCEPT !.pc = "cut"]]
  /\ UNCHANGED <<clock, rows, run, faults, up, history>>

SchedulerEnqueue(m) ==
  /\ cron[m].pc = "enqueue"
  /\ cron' = [cron EXCEPT ![m].pc = "loop", ![m].cur = {}]
  /\ \/ /\ run' = [r \in RunIds |->
            IF r[1] \in cron[m].cur /\ r[2] = m THEN [run[r] EXCEPT !.pc = "queued"] ELSE run[r]]
        /\ UNCHANGED faults
     \/ /\ faults.stops + faults.lost < MaxFaults
        /\ faults' = [faults EXCEPT !.lost = @ + 1]
        /\ UNCHANGED run
  /\ UNCHANGED <<clock, rows, up, history>>

(* The loop has ended; or arq gives up a scheduler that was interrupted.   *)
SchedulerEnd(m) ==
  /\ \/ /\ cron[m].pc = "loop" /\ cron[m].todo = {}
        /\ cron' = [cron EXCEPT ![m] = [IdleCron EXCEPT !.pc = "done"]]
     \/ /\ cron[m].pc = "queued" /\ cron[m].tries = CronTries
        /\ cron' = [cron EXCEPT ![m] = [IdleCron EXCEPT !.pc = "cut"]]
  /\ UNCHANGED <<clock, rows, run, faults, up, history>>

-----------------------------------------------------------------------------
(* execute_automation: nothing happens to an inactive or deleted one.      *)
RunStart(r) ==
  /\ SlotFree /\ run[r].pc = "queued" /\ run[r].tries < MaxTries
  /\ run' = [run EXCEPT ![r] = IF auto[r[1]].row = "active"
       THEN [pc |-> "deliver", tries |-> @.tries + 1] ELSE DoneRun]
  /\ UNCHANGED <<clock, rows, cron, faults, up, history>>

(* search, generate and deliver: nothing is written before the answer is   *)
(* sent.                                                                   *)
RunDeliver(r) ==
  /\ run[r].pc = "deliver"
  /\ run' = [run EXCEPT ![r].pc = "commit"]
  /\ delivered' = [delivered EXCEPT ![r] = @ + 1]
  /\ UNCHANGED <<clock, rows, cron, faults, up, fires, overlap, touched>>

(* Mutant: the time of the next run is kept. *)
RunCommitNext(r) ==
  /\ run[r].pc = "commit"
  /\ auto' = IF Exists(r[1]) THEN [auto EXCEPT ![r[1]].last = clock + 1] ELSE auto
  /\ run' = [run EXCEPT ![r] = DoneRun]
  /\ UNCHANGED <<clock, cron, changes, faults, up, history>>

(* last_run_at is the time the run ends; without the row nothing is kept.  *)
RunCommit(r) ==
  /\ run[r].pc = "commit"
  /\ auto' = IF Exists(r[1]) THEN [auto EXCEPT ![r[1]].last = clock] ELSE auto
  /\ run' = [run EXCEPT ![r] = DoneRun]
  /\ UNCHANGED <<clock, cron, changes, faults, up, history>>

(* Mutant: a run whose commit fails is queued again. *)
RunFailsRetried(r) ==
  /\ RunRuns(r)
  /\ run' = [run EXCEPT ![r].pc = "queued"]
  /\ UNCHANGED <<clock, rows, cron, faults, up, history>>

(* An exception is logged and the task ends; so does one arq gives up.     *)
RunFails(r) ==
  /\ RunRuns(r) \/ (run[r].pc = "queued" /\ run[r].tries = MaxTries)
  /\ run' = [run EXCEPT ![r] = DoneRun]
  /\ UNCHANGED <<clock, rows, cron, faults, up, history>>

-----------------------------------------------------------------------------
(* The worker stops: arq queues again what it was running. *)
WorkerStop ==
  /\ up /\ faults.stops + faults.lost < MaxFaults
  /\ up' = FALSE /\ faults' = [faults EXCEPT !.stops = @ + 1]
  /\ cron' = [m \in 1 .. Minutes |-> IF SchedulerRuns(m)
       THEN [IdleCron EXCEPT !.pc = "queued", !.tries = cron[m].tries] ELSE cron[m]]
  /\ run' = [r \in RunIds |-> IF RunRuns(r) THEN [run[r] EXCEPT !.pc = "queued"] ELSE run[r]]
  /\ UNCHANGED <<clock, rows, history>>

WorkerStart ==
  /\ ~up /\ up' = TRUE
  /\ UNCHANGED <<clock, rows, work, faults, history>>

Schedule(m) ==
  SchedulerStart(m) \/ Fire(m) \/ FireGone(m) \/ SchedulerEnqueue(m) \/ SchedulerEnd(m)

Execute(r) ==
  RunStart(r) \/ RunDeliver(r) \/ RunCommit(r) \/ RunFails(r)

Next ==
  \/ \E a \in Autos : Create(a) \/ Patch(a) \/ Delete(a) \/ Trigger(a)
  \/ \E m \in 1 .. Minutes : Schedule(m)
  \/ \E r \in RunIds : Execute(r)
  \/ Tick \/ WorkerStop \/ WorkerStart

Spec == Init /\ [][Next]_vars

-----------------------------------------------------------------------------
TypeOK ==
  /\ clock \in 0 .. Minutes /\ up \in BOOLEAN /\ overlap \in BOOLEAN /\ touched \subseteq Autos
  /\ \A a \in Autos : /\ auto[a].row \in {"none", "active", "inactive", "deleted"}
                      /\ auto[a].due = {} \/ auto[a].due \in Schedules
                      /\ auto[a].created \in 0 .. clock /\ auto[a].last \in -1 .. clock
  /\ \A m \in 1 .. Minutes :
       /\ cron[m].pc \in {"none", "queued", "loop", "enqueue", "done", "cut"}
       /\ {f.auto : f \in cron[m].todo} \cup cron[m].cur \subseteq Autos
       /\ cron[m].tries \in 0 .. CronTries
  /\ \A r \in RunIds : run[r].pc \in {"none", "queued", "deliver", "commit", "done"}

Covers(f, t) == t \in f.due /\ f.base < t /\ t <= f.now

(* A due minute is fired once, however late the schedulers are, whatever   *)
(* minutes were missed and wherever the worker stopped, provided that no   *)
(* scheduler started while another was running (tasks.py:94-113).          *)
FiredOnce ==
  ~overlap => \A f, g \in fires : f.auto = g.auto /\ f # g =>
                \A t \in 1 .. Minutes : ~(Covers(f, t) /\ Covers(g, t))

(* A run sends its answer a second time only if the worker stopped in      *)
(* between: what was sent and not committed is sent again                  *)
(* (automation_service.py:43-53).                                          *)
SentAgainOnlyAfterStop == \A r \in RunIds : delivered[r] <= 1 + faults.stops

(* A minute that was fired and whose run was never enqueued is paid for: by*)
(* an enqueue that raised, or by a stop of the worker between the commit of*)
(* last_run_at and the enqueue, which costs a scheduler one run            *)
(* (tasks.py:110-113).                                                     *)
NeverEnqueued ==
  {f \in fires : run[<<f.auto, f.by>>].pc = "none" /\ f.auto \notin cron[f.by].cur}

LossesPaid == Cardinality(NeverEnqueued) <= faults.lost + MaxJobs * faults.stops

(* A scheduler that comes to the end of its loop leaves no active          *)
(* automation behind: last_run_at is past every due minute up to its own,  *)
(* those of missed minutes and of schedulers that were cut short included, *)
(* whatever runs end, whatever rows are deleted and whatever enqueues fail *)
(* meanwhile, unless the automation itself was changed under it or two     *)
(* schedulers overlapped (tasks.py:103-115).  Whether a run follows is     *)
(* another matter, see LossesPaid.                                         *)
DueIsMarked ==
  [][\A m \in 1 .. Minutes :
       /\ cron[m].pc = "loop" /\ cron'[m].pc = "done" /\ ~overlap
       => \A a \in Autos \ touched : auto[a].row = "active" =>
            \A t \in auto[a].due : auto[a].created < t /\ t <= m => t <= auto[a].last]_vars

=============================================================================
