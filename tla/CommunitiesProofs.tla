-------------------------- MODULE CommunitiesProofs --------------------------
(***************************************************************************)
(* Theorems of Communities, for any number of rebuilds and tries.          *)
(***************************************************************************)
EXTENDS Communities, TLAPS

Stages == RebuildSteps \cup {"none", "queued", "done", "skipped", "failed"}

Task == [pc : Stages, tries : 0 .. RebuildTries, over : Rebuilds \cup {NoRebuild},
         doomed : SUBSET Rebuilds]

(* The types; TypeOK without them does not say that rebuild is a function. *)
Types ==
  /\ table \subseteq Rebuilds
  /\ projection \in Rebuilds \cup {NoRebuild} /\ ids \in Rebuilds \cup {NoRebuild}
  /\ rebuild \in [Rebuilds -> Task]
  /\ together \subseteq Rebuilds \X Rebuilds

(* Two rebuilds that run are known to run together: whichever started its  *)
(* last try later has recorded both.                                       *)
RunningTogether ==
  \A q, r \in Rebuilds : q # r /\ RebuildRuns(q) /\ RebuildRuns(r) => <<q, r>> \in together

(* Who ran together with a rebuild that still runs does not start again    *)
(* before that one ends, so nothing is forgotten of whom it ran with.      *)
NoneRestarts ==
  \A q, r \in Rebuilds :
    RebuildRuns(r) /\ <<r, q>> \in together => rebuild[q].pc \notin {"none", "queued"}

(* A rebuild between its projection and the end of its Leiden sees only    *)
(* projections made since, each by one that ran with it.                   *)
MadeTogether ==
  \A r \in Rebuilds :
    /\ RebuildAt(r, "leiden") =>
         projection \in {r, NoRebuild} \/ <<r, projection>> \in together
    /\ RebuildAt(r, "write") => rebuild[r].over = r \/ <<r, rebuild[r].over>> \in together

(* After its own Leiden only those of rebuilds that run with it overwrite  *)
(* the ids, with the projection they saw.                                  *)
IdsAreRecent ==
  \A r \in Rebuilds : RebuildAt(r, "read") =>
    \/ ids = r \/ <<r, ids>> \in together
    \/ \E q \in Rebuilds : <<r, q>> \in together /\ <<q, ids>> \in together

(* Who has rows has ended, so no later try of it forgets who ran with it.  *)
RowsOfEnded == \A r \in table : RebuildAt(r, "done")

(* The rows a rebuild will leave are those of rebuilds that ran with it.   *)
SparedTogether ==
  \A r \in Rebuilds, q \in table :
    rebuild[r].pc \in {"wait", "summarise"} /\ q \notin rebuild[r].doomed =>
      <<r, q>> \in together

Inv ==
  /\ Types /\ RunningTogether /\ NoneRestarts /\ MadeTogether /\ IdsAreRecent
  /\ MembersAreRecent /\ RowsOfEnded /\ SparedTogether /\ OneRunInTable

-----------------------------------------------------------------------------
LEMMA InitInv == Init => Inv
BY RebuildAssumption
DEF Init, Inv, Types, Task, Stages, RunningTogether, NoneRestarts, MadeTogether, IdsAreRecent,
    MembersAreRecent, RowsOfEnded, SparedTogether, OneRunInTable, RebuildAt, RebuildRuns,
    RebuildSteps

(* What a step of one rebuild leaves: it goes to another stage with another *)
(* projection in mind and other rows to delete, and the others stay.       *)
Moved(r, stage, by, rows) ==
  /\ rebuild' \in [Rebuilds -> Task]
  /\ rebuild'[r].pc = stage /\ rebuild'[r].over = by /\ rebuild'[r].doomed = rows
  /\ \A q \in Rebuilds \ {r} : rebuild'[q] = rebuild[q]

LEMMA MoveEffect ==
  ASSUME Types, NEW r \in Rebuilds, NEW stage \in Stages,
         NEW by \in Rebuilds \cup {NoRebuild}, NEW rows \in SUBSET Rebuilds, NEW w,
         w = [rebuild[r] EXCEPT !.pc = stage, !.over = by, !.doomed = rows],
         rebuild' = [rebuild EXCEPT ![r] = w]
  PROVE  Moved(r, stage, by, rows)
<1>1. w \in Task /\ w.pc = stage /\ w.over = by /\ w.doomed = rows
  <2>1. rebuild[r] \in Task
    BY DEF Types
  <2> QED
    BY <2>1 DEF Task
<1> QED
  BY <1>1 DEF Types, Moved

LEMMA GotoEffect ==
  ASSUME Types, NEW r \in Rebuilds, NEW stage \in Stages, RebuildGoto(r, stage)
  PROVE  Moved(r, stage, rebuild[r].over, rebuild[r].doomed)
BY DEF Types, Task, RebuildGoto, Moved

LEMMA OverEffect ==
  ASSUME Types, NEW r \in Rebuilds, NEW stage \in Stages,
         NEW by \in Rebuilds \cup {NoRebuild},
         rebuild' = [rebuild EXCEPT ![r].pc = stage, ![r].over = by]
  PROVE  Moved(r, stage, by, rebuild[r].doomed)
<1>1. PICK w : w = [rebuild[r] EXCEPT !.pc = stage, !.over = by]
  OBVIOUS
<1>2. rebuild' = [rebuild EXCEPT ![r] = w]
  BY <1>1
<1>3. w \in Task /\ w.pc = stage /\ w.over = by /\ w.doomed = rebuild[r].doomed
  <2>1. rebuild[r] \in Task
    BY DEF Types
  <2> QED
    BY <1>1, <2>1 DEF Task
<1> QED
  BY <1>2, <1>3 DEF Types, Moved

LEMMA RowsEffect ==
  ASSUME Types, NEW r \in Rebuilds, NEW stage \in Stages, NEW rows \in SUBSET Rebuilds,
         rebuild' = [rebuild EXCEPT ![r].pc = stage, ![r].doomed = rows]
  PROVE  Moved(r, stage, rebuild[r].over, rows)
<1>1. PICK w : w = [rebuild[r] EXCEPT !.pc = stage, !.doomed = rows]
  OBVIOUS
<1>2. rebuild' = [rebuild EXCEPT ![r] = w]
  BY <1>1
<1>3. w \in Task /\ w.pc = stage /\ w.over = rebuild[r].over /\ w.doomed = rows
  <2>1. rebuild[r] \in Task
    BY DEF Types
  <2> QED
    BY <1>1, <2>1 DEF Task
<1> QED
  BY <1>2, <1>3 DEF Types, Moved

LEMMA EndEffect ==
  ASSUME Types, NEW r \in Rebuilds, NEW stage \in Stages,
         rebuild' = [rebuild EXCEPT ![r].pc = stage, ![r].over = NoRebuild, ![r].doomed = {}]
  PROVE  Moved(r, stage, NoRebuild, {})
<1>1. PICK w : w = [rebuild[r] EXCEPT !.pc = stage, !.over = NoRebuild, !.doomed = {}]
  OBVIOUS
<1>2. rebuild' = [rebuild EXCEPT ![r] = w]
  BY <1>1
<1> QED
  BY <1>1, <1>2, MoveEffect

(* Every step, one conjunct after the other. *)
LEMMA StepInv == Inv /\ [Next]_vars => Inv'
<1> SUFFICES ASSUME Inv, [Next]_vars PROVE Inv'
  OBVIOUS
<1>0. /\ Types /\ RunningTogether /\ NoneRestarts /\ MadeTogether /\ IdsAreRecent
      /\ MembersAreRecent /\ RowsOfEnded /\ SparedTogether /\ OneRunInTable
  BY DEF Inv
<1>1. ASSUME NEW r \in Rebuilds, RequestRebuild(r) PROVE Inv'
  <2>0. Moved(r, "queued", rebuild[r].over, rebuild[r].doomed)
    BY <1>0, <1>1, GotoEffect DEF RequestRebuild, Stages, RebuildSteps
  <2>1. Types'
    BY <1>0, <1>1, <2>0, RebuildAssumption
    DEF RequestRebuild, Moved, Types
  <2>2. RunningTogether'
    BY <1>0, <1>1, <2>0
    DEF RequestRebuild, Moved, RunningTogether, Types, RebuildAt, RebuildRuns, RebuildSteps
  <2>3. NoneRestarts'
    BY <1>0, <1>1, <2>0
    DEF RequestRebuild, Moved, NoneRestarts, Types, RebuildAt, RebuildRuns, RebuildSteps
  <2>4. MadeTogether'
    BY <1>0, <1>1, <2>0, RebuildAssumption
    DEF RequestRebuild, Moved, RunningTogether, NoneRestarts, MadeTogether, Types, RebuildAt,
        RebuildRuns, RebuildSteps
  <2>5. IdsAreRecent'
    BY <1>0, <1>1, <2>0
    DEF RequestRebuild, Moved, RunningTogether, NoneRestarts, MadeTogether, IdsAreRecent,
        Types, RebuildAt, RebuildRuns, RebuildSteps
  <2>6. MembersAreRecent'
    BY <1>0, <1>1, <2>0
    DEF RequestRebuild, Moved, RunningTogether, NoneRestarts, IdsAreRecent, MembersAreRecent,
        Types, RebuildAt, RebuildRuns, RebuildSteps
  <2>7. RowsOfEnded'
    BY <1>0, <1>1, <2>0
    DEF RequestRebuild, Moved, RowsOfEnded, Types, RebuildAt, RebuildRuns, RebuildSteps
  <2>8. SparedTogether'
    BY <1>0, <1>1, <2>0
    DEF RequestRebuild, Moved, RunningTogether, RowsOfEnded, SparedTogether, Types, RebuildAt,
        RebuildRuns, RebuildSteps
  <2>9. OneRunInTable'
    BY <1>0, <1>1, <2>0
    DEF RequestRebuild, Moved, RowsOfEnded, SparedTogether, OneRunInTable, Types, RebuildAt,
        RebuildRuns, RebuildSteps
  <2> QED
    BY <2>1, <2>2, <2>3, <2>4, <2>5, <2>6, <2>7, <2>8, <2>9 DEF Inv
<1>2. ASSUME NEW r \in Rebuilds, RebuildStart(r) PROVE Inv'
  <2>0. Moved(r, "drop", rebuild[r].over, rebuild[r].doomed)
    BY <1>0, <1>2, RebuildAssumption DEF RebuildStart, Types, Task, Stages, RebuildSteps, Moved
  <2>1. Types'
    BY <1>0, <1>2, <2>0, RebuildAssumption
    DEF RebuildStart, Moved, Types, RebuildRuns
  <2>2. RunningTogether'
    BY <1>0, <1>2, <2>0
    DEF RebuildStart, Moved, RunningTogether, Types, RebuildAt, RebuildRuns, RebuildSteps
  <2>3. NoneRestarts'
    BY <1>0, <1>2, <2>0
    DEF RebuildStart, Moved, NoneRestarts, Types, RebuildAt, RebuildRuns, RebuildSteps
  <2>4. MadeTogether'
    BY <1>0, <1>2, <2>0, RebuildAssumption
    DEF RebuildStart, Moved, RunningTogether, NoneRestarts, MadeTogether, Types, RebuildAt,
        RebuildRuns, RebuildSteps
  <2>5. IdsAreRecent'
    <3>1. \A a, b \in Rebuilds : a # r /\ <<a, b>> \in together => <<a, b>> \in together'
      BY <1>2 DEF RebuildStart
    <3>2. \A x \in Rebuilds : RebuildRuns(x) => <<x, r>> \notin together
      BY <1>0, <1>2 DEF RebuildStart, NoneRestarts, RebuildAt
    <3>3. SUFFICES ASSUME NEW x \in Rebuilds, RebuildAt(x, "read")'
                   PROVE  \/ ids = x \/ <<x, ids>> \in together'
                          \/ \E q \in Rebuilds : <<x, q>> \in together' /\ <<q, ids>> \in together'
      BY <1>2 DEF RebuildStart, IdsAreRecent
    <3>4. x # r /\ RebuildAt(x, "read")
      BY <2>0, <3>3 DEF Moved, RebuildAt
    <3>5. RebuildRuns(x)
      BY <3>4 DEF RebuildAt, RebuildRuns, RebuildSteps
    <3> QED
      BY <1>0, <3>1, <3>2, <3>4, <3>5 DEF IdsAreRecent, Types
  <2>6. MembersAreRecent'
    <3>1. \A a, b \in Rebuilds : a # r /\ <<a, b>> \in together => <<a, b>> \in together'
      BY <1>2 DEF RebuildStart
    <3>2. \A x \in Rebuilds : RebuildRuns(x) => <<x, r>> \notin together
      BY <1>0, <1>2 DEF RebuildStart, NoneRestarts, RebuildAt
    <3>3. SUFFICES ASSUME NEW x \in Rebuilds, NEW by, by = rebuild'[x].over,
                          rebuild'[x].pc \in {"clear", "delete", "wait", "summarise"}
                   PROVE  \/ by = x \/ <<x, by>> \in together'
                          \/ \E q \in Rebuilds : <<x, q>> \in together' /\ <<q, by>> \in together'
      BY DEF MembersAreRecent
    <3>4. x # r /\ rebuild'[x] = rebuild[x]
      BY <2>0, <3>3 DEF Moved
    <3>5. RebuildRuns(x)
      BY <3>3, <3>4 DEF RebuildRuns, RebuildSteps
    <3>6. \/ by = x \/ <<x, by>> \in together
          \/ \E q \in Rebuilds : <<x, q>> \in together /\ <<q, by>> \in together
      BY <1>0, <3>3, <3>4 DEF MembersAreRecent
    <3> QED
      BY <1>0, <3>1, <3>2, <3>4, <3>5, <3>6 DEF Types
  <2>7. RowsOfEnded'
    BY <1>0, <1>2, <2>0
    DEF RebuildStart, Moved, RowsOfEnded, Types, RebuildAt, RebuildRuns, RebuildSteps
  <2>8. SparedTogether'
    BY <1>0, <1>2, <2>0
    DEF RebuildStart, Moved, RunningTogether, RowsOfEnded, SparedTogether, Types, RebuildAt,
        RebuildRuns, RebuildSteps
  <2>9. OneRunInTable'
    BY <1>0, <1>2, <2>0
    DEF RebuildStart, Moved, RowsOfEnded, SparedTogether, OneRunInTable, Types, RebuildAt,
        RebuildRuns, RebuildSteps
  <2> QED
    BY <2>1, <2>2, <2>3, <2>4, <2>5, <2>6, <2>7, <2>8, <2>9 DEF Inv
<1>3. ASSUME NEW r \in Rebuilds, DropProjection(r) PROVE Inv'
  <2>0. Moved(r, "project", rebuild[r].over, rebuild[r].doomed)
    BY <1>0, <1>3, GotoEffect DEF DropProjection, Stages, RebuildSteps
  <2>1. Types'
    BY <1>0, <1>3, <2>0, RebuildAssumption
    DEF DropProjection, Moved, Types
  <2>2. RunningTogether'
    BY <1>0, <1>3, <2>0
    DEF DropProjection, Moved, RunningTogether, Types, RebuildAt, RebuildRuns, RebuildSteps
  <2>3. NoneRestarts'
    BY <1>0, <1>3, <2>0
    DEF DropProjection, Moved, NoneRestarts, Types, RebuildAt, RebuildRuns, RebuildSteps
  <2>4. MadeTogether'
    BY <1>0, <1>3, <2>0, RebuildAssumption
    DEF DropProjection, Moved, RunningTogether, NoneRestarts, MadeTogether, Types, RebuildAt,
        RebuildRuns, RebuildSteps
  <2>5. IdsAreRecent'
    BY <1>0, <1>3, <2>0
    DEF DropProjection, Moved, RunningTogether, NoneRestarts, MadeTogether, IdsAreRecent,
        Types, RebuildAt, RebuildRuns, RebuildSteps
  <2>6. MembersAreRecent'
    BY <1>0, <1>3, <2>0
    DEF DropProjection, Moved, RunningTogether, NoneRestarts, IdsAreRecent, MembersAreRecent,
        Types, RebuildAt, RebuildRuns, RebuildSteps
  <2>7. RowsOfEnded'
    BY <1>0, <1>3, <2>0
    DEF DropProjection, Moved, RowsOfEnded, Types, RebuildAt, RebuildRuns, RebuildSteps
  <2>8. SparedTogether'
    BY <1>0, <1>3, <2>0
    DEF DropProjection, Moved, RunningTogether, RowsOfEnded, SparedTogether, Types, RebuildAt,
        RebuildRuns, RebuildSteps
  <2>9. OneRunInTable'
    BY <1>0, <1>3, <2>0
    DEF DropProjection, Moved, RowsOfEnded, SparedTogether, OneRunInTable, Types, RebuildAt,
        RebuildRuns, RebuildSteps
  <2> QED
    BY <2>1, <2>2, <2>3, <2>4, <2>5, <2>6, <2>7, <2>8, <2>9 DEF Inv
<1>4. ASSUME NEW r \in Rebuilds, Project(r) PROVE Inv'
  <2>0. Moved(r, "leiden", rebuild[r].over, rebuild[r].doomed)
    BY <1>0, <1>4, GotoEffect DEF Project, Stages, RebuildSteps
  <2>1. Types'
    BY <1>0, <1>4, <2>0, RebuildAssumption
    DEF Project, Moved, Types
  <2>2. RunningTogether'
    BY <1>0, <1>4, <2>0
    DEF Project, Moved, RunningTogether, Types, RebuildAt, RebuildRuns, RebuildSteps
  <2>3. NoneRestarts'
    BY <1>0, <1>4, <2>0
    DEF Project, Moved, NoneRestarts, Types, RebuildAt, RebuildRuns, RebuildSteps
  <2>4. MadeTogether'
    BY <1>0, <1>4, <2>0, RebuildAssumption
    DEF Project, Moved, RunningTogether, NoneRestarts, MadeTogether, Types, RebuildAt,
        RebuildRuns, RebuildSteps
  <2>5. IdsAreRecent'
    BY <1>0, <1>4, <2>0
    DEF Project, Moved, RunningTogether, NoneRestarts, MadeTogether, IdsAreRecent, Types,
        RebuildAt, RebuildRuns, RebuildSteps
  <2>6. MembersAreRecent'
    BY <1>0, <1>4, <2>0
    DEF Project, Moved, RunningTogether, NoneRestarts, IdsAreRecent, MembersAreRecent, Types,
        RebuildAt, RebuildRuns, RebuildSteps
  <2>7. RowsOfEnded'
    BY <1>0, <1>4, <2>0
    DEF Project, Moved, RowsOfEnded, Types, RebuildAt, RebuildRuns, RebuildSteps
  <2>8. SparedTogether'
    BY <1>0, <1>4, <2>0
    DEF Project, Moved, RunningTogether, RowsOfEnded, SparedTogether, Types, RebuildAt,
        RebuildRuns, RebuildSteps
  <2>9. OneRunInTable'
    BY <1>0, <1>4, <2>0
    DEF Project, Moved, RowsOfEnded, SparedTogether, OneRunInTable, Types, RebuildAt,
        RebuildRuns, RebuildSteps
  <2> QED
    BY <2>1, <2>2, <2>3, <2>4, <2>5, <2>6, <2>7, <2>8, <2>9 DEF Inv
<1>5. ASSUME NEW r \in Rebuilds, LeidenStarts(r) PROVE Inv'
  <2>0. Moved(r, "write", projection, rebuild[r].doomed)
    <3>1. "write" \in Stages /\ projection \in Rebuilds \cup {NoRebuild}
      BY <1>0 DEF Stages, RebuildSteps, Types
    <3> QED
      BY <1>0, <1>5, <3>1, OverEffect DEF LeidenStarts
  <2>1. Types'
    BY <1>0, <1>5, <2>0, RebuildAssumption
    DEF LeidenStarts, Moved, Types
  <2>2. RunningTogether'
    BY <1>0, <1>5, <2>0
    DEF LeidenStarts, Moved, RunningTogether, Types, RebuildAt, RebuildRuns, RebuildSteps
  <2>3. NoneRestarts'
    BY <1>0, <1>5, <2>0
    DEF LeidenStarts, Moved, NoneRestarts, Types, RebuildAt, RebuildRuns, RebuildSteps
  <2>4. MadeTogether'
    <3>1. RebuildAt(r, "leiden") /\ projection \in Rebuilds /\ UNCHANGED <<projection, together>>
      BY <1>0, <1>5 DEF LeidenStarts, Types
    <3>2. projection = r \/ <<r, projection>> \in together
      BY <1>0, <3>1, RebuildAssumption DEF MadeTogether
    <3> QED
      BY <1>0, <2>0, <3>1, <3>2 DEF Moved, MadeTogether, RebuildAt
  <2>5. IdsAreRecent'
    BY <1>0, <1>5, <2>0
    DEF LeidenStarts, Moved, RunningTogether, NoneRestarts, MadeTogether, IdsAreRecent, Types,
        RebuildAt, RebuildRuns, RebuildSteps
  <2>6. MembersAreRecent'
    BY <1>0, <1>5, <2>0
    DEF LeidenStarts, Moved, RunningTogether, NoneRestarts, IdsAreRecent, MembersAreRecent,
        Types, RebuildAt, RebuildRuns, RebuildSteps
  <2>7. RowsOfEnded'
    BY <1>0, <1>5, <2>0
    DEF LeidenStarts, Moved, RowsOfEnded, Types, RebuildAt, RebuildRuns, RebuildSteps
  <2>8. SparedTogether'
    BY <1>0, <1>5, <2>0
    DEF LeidenStarts, Moved, RunningTogether, RowsOfEnded, SparedTogether, Types, RebuildAt,
        RebuildRuns, RebuildSteps
  <2>9. OneRunInTable'
    BY <1>0, <1>5, <2>0
    DEF LeidenStarts, Moved, RowsOfEnded, SparedTogether, OneRunInTable, Types, RebuildAt,
        RebuildRuns, RebuildSteps
  <2> QED
    BY <2>1, <2>2, <2>3, <2>4, <2>5, <2>6, <2>7, <2>8, <2>9 DEF Inv
<1>6. ASSUME NEW r \in Rebuilds, LeidenWrites(r) PROVE Inv'
  <2>0. Moved(r, "read", rebuild[r].over, rebuild[r].doomed)
    BY <1>0, <1>6, GotoEffect DEF LeidenWrites, Stages, RebuildSteps
  <2>1. Types'
    BY <1>0, <1>6, <2>0, RebuildAssumption
    DEF LeidenWrites, Moved, Types, Task
  <2>2. RunningTogether'
    BY <1>0, <1>6, <2>0
    DEF LeidenWrites, Moved, RunningTogether, Types, RebuildAt, RebuildRuns, RebuildSteps
  <2>3. NoneRestarts'
    BY <1>0, <1>6, <2>0
    DEF LeidenWrites, Moved, NoneRestarts, Types, RebuildAt, RebuildRuns, RebuildSteps
  <2>4. MadeTogether'
    BY <1>0, <1>6, <2>0, RebuildAssumption
    DEF LeidenWrites, Moved, RunningTogether, NoneRestarts, MadeTogether, Types, RebuildAt,
        RebuildRuns, RebuildSteps
  <2>5. IdsAreRecent'
    BY <1>0, <1>6, <2>0
    DEF LeidenWrites, Moved, RunningTogether, NoneRestarts, MadeTogether, IdsAreRecent, Types,
        RebuildAt, RebuildRuns, RebuildSteps
  <2>6. MembersAreRecent'
    BY <1>0, <1>6, <2>0
    DEF LeidenWrites, Moved, RunningTogether, NoneRestarts, IdsAreRecent, MembersAreRecent,
        Types, RebuildAt, RebuildRuns, RebuildSteps
  <2>7. RowsOfEnded'
    BY <1>0, <1>6, <2>0
    DEF LeidenWrites, Moved, RowsOfEnded, Types, RebuildAt, RebuildRuns, RebuildSteps
  <2>8. SparedTogether'
    BY <1>0, <1>6, <2>0
    DEF LeidenWrites, Moved, RunningTogether, RowsOfEnded, SparedTogether, Types, RebuildAt,
        RebuildRuns, RebuildSteps
  <2>9. OneRunInTable'
    BY <1>0, <1>6, <2>0
    DEF LeidenWrites, Moved, RowsOfEnded, SparedTogether, OneRunInTable, Types, RebuildAt,
        RebuildRuns, RebuildSteps
  <2> QED
    BY <2>1, <2>2, <2>3, <2>4, <2>5, <2>6, <2>7, <2>8, <2>9 DEF Inv
<1>7. ASSUME NEW r \in Rebuilds, Skip(r) PROVE Inv'
  <2>0. Moved(r, "skipped", NoRebuild, rebuild[r].doomed)
    <3>1. "skipped" \in Stages /\ NoRebuild \in Rebuilds \cup {NoRebuild}
      BY <1>0 DEF Stages, RebuildSteps, Types
    <3> QED
      BY <1>0, <1>7, <3>1, OverEffect DEF Skip
  <2>1. Types'
    BY <1>0, <1>7, <2>0, RebuildAssumption
    DEF Skip, Moved, Types
  <2>2. RunningTogether'
    BY <1>0, <1>7, <2>0
    DEF Skip, Moved, RunningTogether, Types, RebuildAt, RebuildRuns, RebuildSteps
  <2>3. NoneRestarts'
    BY <1>0, <1>7, <2>0
    DEF Skip, Moved, NoneRestarts, Types, RebuildAt, RebuildRuns, RebuildSteps
  <2>4. MadeTogether'
    BY <1>0, <1>7, <2>0, RebuildAssumption
    DEF Skip, Moved, RunningTogether, NoneRestarts, MadeTogether, Types, RebuildAt,
        RebuildRuns, RebuildSteps
  <2>5. IdsAreRecent'
    BY <1>0, <1>7, <2>0
    DEF Skip, Moved, RunningTogether, NoneRestarts, MadeTogether, IdsAreRecent, Types,
        RebuildAt, RebuildRuns, RebuildSteps
  <2>6. MembersAreRecent'
    BY <1>0, <1>7, <2>0
    DEF Skip, Moved, RunningTogether, NoneRestarts, IdsAreRecent, MembersAreRecent, Types,
        RebuildAt, RebuildRuns, RebuildSteps
  <2>7. RowsOfEnded'
    BY <1>0, <1>7, <2>0
    DEF Skip, Moved, RowsOfEnded, Types, RebuildAt, RebuildRuns, RebuildSteps
  <2>8. SparedTogether'
    BY <1>0, <1>7, <2>0
    DEF Skip, Moved, RunningTogether, RowsOfEnded, SparedTogether, Types, RebuildAt,
        RebuildRuns, RebuildSteps
  <2>9. OneRunInTable'
    BY <1>0, <1>7, <2>0
    DEF Skip, Moved, RowsOfEnded, SparedTogether, OneRunInTable, Types, RebuildAt,
        RebuildRuns, RebuildSteps
  <2> QED
    BY <2>1, <2>2, <2>3, <2>4, <2>5, <2>6, <2>7, <2>8, <2>9 DEF Inv
<1>8. ASSUME NEW r \in Rebuilds, ReadMembers(r) PROVE Inv'
  <2>0. Moved(r, "clear", ids, rebuild[r].doomed)
    <3>1. "clear" \in Stages /\ ids \in Rebuilds \cup {NoRebuild}
      BY <1>0 DEF Stages, RebuildSteps, Types
    <3> QED
      BY <1>0, <1>8, <3>1, OverEffect DEF ReadMembers
  <2>1. Types'
    BY <1>0, <1>8, <2>0, RebuildAssumption
    DEF ReadMembers, Moved, Types
  <2>2. RunningTogether'
    BY <1>0, <1>8, <2>0
    DEF ReadMembers, Moved, RunningTogether, Types, RebuildAt, RebuildRuns, RebuildSteps
  <2>3. NoneRestarts'
    BY <1>0, <1>8, <2>0
    DEF ReadMembers, Moved, NoneRestarts, Types, RebuildAt, RebuildRuns, RebuildSteps
  <2>4. MadeTogether'
    BY <1>0, <1>8, <2>0, RebuildAssumption
    DEF ReadMembers, Moved, RunningTogether, NoneRestarts, MadeTogether, Types, RebuildAt,
        RebuildRuns, RebuildSteps
  <2>5. IdsAreRecent'
    BY <1>0, <1>8, <2>0
    DEF ReadMembers, Moved, RunningTogether, NoneRestarts, MadeTogether, IdsAreRecent, Types,
        RebuildAt, RebuildRuns, RebuildSteps
  <2>6. MembersAreRecent'
    <3>1. RebuildAt(r, "read") /\ UNCHANGED <<ids, together>>
      BY <1>8 DEF ReadMembers
    <3>2. \/ ids = r \/ <<r, ids>> \in together
          \/ \E q \in Rebuilds : <<r, q>> \in together /\ <<q, ids>> \in together
      BY <1>0, <3>1 DEF IdsAreRecent
    <3> QED
      BY <1>0, <2>0, <3>1, <3>2 DEF Moved, MembersAreRecent
  <2>7. RowsOfEnded'
    BY <1>0, <1>8, <2>0
    DEF ReadMembers, Moved, RowsOfEnded, Types, RebuildAt, RebuildRuns, RebuildSteps
  <2>8. SparedTogether'
    BY <1>0, <1>8, <2>0
    DEF ReadMembers, Moved, RunningTogether, RowsOfEnded, SparedTogether, Types, RebuildAt,
        RebuildRuns, RebuildSteps
  <2>9. OneRunInTable'
    BY <1>0, <1>8, <2>0
    DEF ReadMembers, Moved, RowsOfEnded, SparedTogether, OneRunInTable, Types, RebuildAt,
        RebuildRuns, RebuildSteps
  <2> QED
    BY <2>1, <2>2, <2>3, <2>4, <2>5, <2>6, <2>7, <2>8, <2>9 DEF Inv
<1>9. ASSUME NEW r \in Rebuilds, ClearProjection(r) PROVE Inv'
  <2>0. Moved(r, "delete", rebuild[r].over, rebuild[r].doomed)
    BY <1>0, <1>9, GotoEffect DEF ClearProjection, Stages, RebuildSteps
  <2>1. Types'
    BY <1>0, <1>9, <2>0, RebuildAssumption
    DEF ClearProjection, Moved, Types
  <2>2. RunningTogether'
    BY <1>0, <1>9, <2>0
    DEF ClearProjection, Moved, RunningTogether, Types, RebuildAt, RebuildRuns, RebuildSteps
  <2>3. NoneRestarts'
    BY <1>0, <1>9, <2>0
    DEF ClearProjection, Moved, NoneRestarts, Types, RebuildAt, RebuildRuns, RebuildSteps
  <2>4. MadeTogether'
    BY <1>0, <1>9, <2>0, RebuildAssumption
    DEF ClearProjection, Moved, RunningTogether, NoneRestarts, MadeTogether, Types, RebuildAt,
        RebuildRuns, RebuildSteps
  <2>5. IdsAreRecent'
    BY <1>0, <1>9, <2>0
    DEF ClearProjection, Moved, RunningTogether, NoneRestarts, MadeTogether, IdsAreRecent,
        Types, RebuildAt, RebuildRuns, RebuildSteps
  <2>6. MembersAreRecent'
    BY <1>0, <1>9, <2>0
    DEF ClearProjection, Moved, RunningTogether, NoneRestarts, IdsAreRecent, MembersAreRecent,
        Types, RebuildAt, RebuildRuns, RebuildSteps
  <2>7. RowsOfEnded'
    BY <1>0, <1>9, <2>0
    DEF ClearProjection, Moved, RowsOfEnded, Types, RebuildAt, RebuildRuns, RebuildSteps
  <2>8. SparedTogether'
    BY <1>0, <1>9, <2>0
    DEF ClearProjection, Moved, RunningTogether, RowsOfEnded, SparedTogether, Types,
        RebuildAt, RebuildRuns, RebuildSteps
  <2>9. OneRunInTable'
    BY <1>0, <1>9, <2>0
    DEF ClearProjection, Moved, RowsOfEnded, SparedTogether, OneRunInTable, Types, RebuildAt,
        RebuildRuns, RebuildSteps
  <2> QED
    BY <2>1, <2>2, <2>3, <2>4, <2>5, <2>6, <2>7, <2>8, <2>9 DEF Inv
<1>10. ASSUME NEW r \in Rebuilds, DeleteRows(r) PROVE Inv'
  <2>0. Moved(r, "wait", rebuild[r].over, table)
    <3>1. "wait" \in Stages /\ table \in SUBSET Rebuilds
      BY <1>0 DEF Stages, RebuildSteps, Types
    <3> QED
      BY <1>0, <1>10, <3>1, RowsEffect DEF DeleteRows
  <2>1. Types'
    BY <1>0, <1>10, <2>0, RebuildAssumption
    DEF DeleteRows, Moved, Types
  <2>2. RunningTogether'
    BY <1>0, <1>10, <2>0
    DEF DeleteRows, Moved, RunningTogether, Types, RebuildAt, RebuildRuns, RebuildSteps
  <2>3. NoneRestarts'
    BY <1>0, <1>10, <2>0
    DEF DeleteRows, Moved, NoneRestarts, Types, RebuildAt, RebuildRuns, RebuildSteps
  <2>4. MadeTogether'
    BY <1>0, <1>10, <2>0, RebuildAssumption
    DEF DeleteRows, Moved, RunningTogether, NoneRestarts, MadeTogether, Types, RebuildAt,
        RebuildRuns, RebuildSteps
  <2>5. IdsAreRecent'
    BY <1>0, <1>10, <2>0
    DEF DeleteRows, Moved, RunningTogether, NoneRestarts, MadeTogether, IdsAreRecent, Types,
        RebuildAt, RebuildRuns, RebuildSteps
  <2>6. MembersAreRecent'
    BY <1>0, <1>10, <2>0
    DEF DeleteRows, Moved, RunningTogether, NoneRestarts, IdsAreRecent, MembersAreRecent,
        Types, RebuildAt, RebuildRuns, RebuildSteps
  <2>7. RowsOfEnded'
    BY <1>0, <1>10, <2>0
    DEF DeleteRows, Moved, RowsOfEnded, Types, RebuildAt, RebuildRuns, RebuildSteps
  <2>8. SparedTogether'
    BY <1>0, <1>10, <2>0
    DEF DeleteRows, Moved, RunningTogether, RowsOfEnded, SparedTogether, Types, RebuildAt,
        RebuildRuns, RebuildSteps
  <2>9. OneRunInTable'
    BY <1>0, <1>10, <2>0
    DEF DeleteRows, Moved, RowsOfEnded, SparedTogether, OneRunInTable, Types, RebuildAt,
        RebuildRuns, RebuildSteps
  <2> QED
    BY <2>1, <2>2, <2>3, <2>4, <2>5, <2>6, <2>7, <2>8, <2>9 DEF Inv
<1>11. ASSUME NEW r \in Rebuilds, GetLocks(r) PROVE Inv'
  <2>0. Moved(r, "summarise", rebuild[r].over, rebuild[r].doomed \cap table)
    <3>1. "summarise" \in Stages /\ rebuild[r].doomed \cap table \in SUBSET Rebuilds
      BY <1>0 DEF Stages, RebuildSteps, Types
    <3> QED
      BY <1>0, <1>11, <3>1, RowsEffect DEF GetLocks
  <2>1. Types'
    BY <1>0, <1>11, <2>0, RebuildAssumption
    DEF GetLocks, Moved, Types
  <2>2. RunningTogether'
    BY <1>0, <1>11, <2>0
    DEF GetLocks, Moved, RunningTogether, Types, RebuildAt, RebuildRuns, RebuildSteps
  <2>3. NoneRestarts'
    BY <1>0, <1>11, <2>0
    DEF GetLocks, Moved, NoneRestarts, Types, RebuildAt, RebuildRuns, RebuildSteps
  <2>4. MadeTogether'
    BY <1>0, <1>11, <2>0, RebuildAssumption
    DEF GetLocks, Moved, RunningTogether, NoneRestarts, MadeTogether, Types, RebuildAt,
        RebuildRuns, RebuildSteps
  <2>5. IdsAreRecent'
    BY <1>0, <1>11, <2>0
    DEF GetLocks, Moved, RunningTogether, NoneRestarts, MadeTogether, IdsAreRecent, Types,
        RebuildAt, RebuildRuns, RebuildSteps
  <2>6. MembersAreRecent'
    BY <1>0, <1>11, <2>0
    DEF GetLocks, Moved, RunningTogether, NoneRestarts, IdsAreRecent, MembersAreRecent, Types,
        RebuildAt, RebuildRuns, RebuildSteps
  <2>7. RowsOfEnded'
    BY <1>0, <1>11, <2>0
    DEF GetLocks, Moved, RowsOfEnded, Types, RebuildAt, RebuildRuns, RebuildSteps
  <2>8. SparedTogether'
    BY <1>0, <1>11, <2>0
    DEF GetLocks, Moved, RunningTogether, RowsOfEnded, SparedTogether, Types, RebuildAt,
        RebuildRuns, RebuildSteps
  <2>9. OneRunInTable'
    BY <1>0, <1>11, <2>0
    DEF GetLocks, Moved, RowsOfEnded, SparedTogether, OneRunInTable, Types, RebuildAt,
        RebuildRuns, RebuildSteps
  <2> QED
    BY <2>1, <2>2, <2>3, <2>4, <2>5, <2>6, <2>7, <2>8, <2>9 DEF Inv
<1>12. ASSUME NEW r \in Rebuilds, InsertRows(r) PROVE Inv'
  <2>0. Moved(r, "done", NoRebuild, {})
    <3>1. "done" \in Stages
      BY <1>0 DEF Stages, RebuildSteps, Types
    <3> QED
      BY <1>0, <1>12, <3>1, EndEffect DEF InsertRows
  <2>1. Types'
    BY <1>0, <1>12, <2>0, RebuildAssumption
    DEF InsertRows, Moved, Types
  <2>2. RunningTogether'
    BY <1>0, <1>12, <2>0
    DEF InsertRows, Moved, RunningTogether, Types, RebuildAt, RebuildRuns, RebuildSteps
  <2>3. NoneRestarts'
    BY <1>0, <1>12, <2>0
    DEF InsertRows, Moved, NoneRestarts, Types, RebuildAt, RebuildRuns, RebuildSteps
  <2>4. MadeTogether'
    BY <1>0, <1>12, <2>0, RebuildAssumption
    DEF InsertRows, Moved, RunningTogether, NoneRestarts, MadeTogether, Types, RebuildAt,
        RebuildRuns, RebuildSteps
  <2>5. IdsAreRecent'
    BY <1>0, <1>12, <2>0
    DEF InsertRows, Moved, RunningTogether, NoneRestarts, MadeTogether, IdsAreRecent, Types,
        RebuildAt, RebuildRuns, RebuildSteps
  <2>6. MembersAreRecent'
    BY <1>0, <1>12, <2>0
    DEF InsertRows, Moved, RunningTogether, NoneRestarts, IdsAreRecent, MembersAreRecent,
        Types, RebuildAt, RebuildRuns, RebuildSteps
  <2>7. RowsOfEnded'
    BY <1>0, <1>12, <2>0
    DEF InsertRows, Moved, RowsOfEnded, Types, RebuildAt, RebuildRuns, RebuildSteps
  <2>8. SparedTogether'
    BY <1>0, <1>12, <2>0
    DEF InsertRows, Moved, RunningTogether, RowsOfEnded, SparedTogether, Types, RebuildAt,
        RebuildRuns, RebuildSteps
  <2>9. OneRunInTable'
    BY <1>0, <1>12, <2>0
    DEF InsertRows, Moved, RowsOfEnded, SparedTogether, OneRunInTable, Types, RebuildAt,
        RebuildRuns, RebuildSteps
  <2> QED
    BY <2>1, <2>2, <2>3, <2>4, <2>5, <2>6, <2>7, <2>8, <2>9 DEF Inv
<1>13. ASSUME NEW r \in Rebuilds, RebuildFails(r) PROVE Inv'
  <2>0. Moved(r, "failed", NoRebuild, {})
    <3>1. "failed" \in Stages
      BY <1>0 DEF Stages, RebuildSteps, Types
    <3> QED
      BY <1>0, <1>13, <3>1, EndEffect DEF RebuildFails
  <2>1. Types'
    BY <1>0, <1>13, <2>0, RebuildAssumption
    DEF RebuildFails, Moved, Types
  <2>2. RunningTogether'
    BY <1>0, <1>13, <2>0
    DEF RebuildFails, Moved, RunningTogether, Types, RebuildAt, RebuildRuns, RebuildSteps
  <2>3. NoneRestarts'
    BY <1>0, <1>13, <2>0
    DEF RebuildFails, Moved, NoneRestarts, Types, RebuildAt, RebuildRuns, RebuildSteps
  <2>4. MadeTogether'
    BY <1>0, <1>13, <2>0, RebuildAssumption
    DEF RebuildFails, Moved, RunningTogether, NoneRestarts, MadeTogether, Types, RebuildAt,
        RebuildRuns, RebuildSteps
  <2>5. IdsAreRecent'
    BY <1>0, <1>13, <2>0
    DEF RebuildFails, Moved, RunningTogether, NoneRestarts, MadeTogether, IdsAreRecent, Types,
        RebuildAt, RebuildRuns, RebuildSteps
  <2>6. MembersAreRecent'
    BY <1>0, <1>13, <2>0
    DEF RebuildFails, Moved, RunningTogether, NoneRestarts, IdsAreRecent, MembersAreRecent,
        Types, RebuildAt, RebuildRuns, RebuildSteps
  <2>7. RowsOfEnded'
    BY <1>0, <1>13, <2>0
    DEF RebuildFails, Moved, RowsOfEnded, Types, RebuildAt, RebuildRuns, RebuildSteps
  <2>8. SparedTogether'
    BY <1>0, <1>13, <2>0
    DEF RebuildFails, Moved, RunningTogether, RowsOfEnded, SparedTogether, Types, RebuildAt,
        RebuildRuns, RebuildSteps
  <2>9. OneRunInTable'
    BY <1>0, <1>13, <2>0
    DEF RebuildFails, Moved, RowsOfEnded, SparedTogether, OneRunInTable, Types, RebuildAt,
        RebuildRuns, RebuildSteps
  <2> QED
    BY <2>1, <2>2, <2>3, <2>4, <2>5, <2>6, <2>7, <2>8, <2>9 DEF Inv
<1>14. ASSUME NEW r \in Rebuilds, RebuildGivenUp(r) PROVE Inv'
  <2>0. Moved(r, "failed", rebuild[r].over, rebuild[r].doomed)
    BY <1>0, <1>14, GotoEffect DEF RebuildGivenUp, Stages, RebuildSteps
  <2>1. Types'
    BY <1>0, <1>14, <2>0, RebuildAssumption
    DEF RebuildGivenUp, Moved, Types
  <2>2. RunningTogether'
    BY <1>0, <1>14, <2>0
    DEF RebuildGivenUp, Moved, RunningTogether, Types, RebuildAt, RebuildRuns, RebuildSteps
  <2>3. NoneRestarts'
    BY <1>0, <1>14, <2>0
    DEF RebuildGivenUp, Moved, NoneRestarts, Types, RebuildAt, RebuildRuns, RebuildSteps
  <2>4. MadeTogether'
    BY <1>0, <1>14, <2>0, RebuildAssumption
    DEF RebuildGivenUp, Moved, RunningTogether, NoneRestarts, MadeTogether, Types, RebuildAt,
        RebuildRuns, RebuildSteps
  <2>5. IdsAreRecent'
    BY <1>0, <1>14, <2>0
    DEF RebuildGivenUp, Moved, RunningTogether, NoneRestarts, MadeTogether, IdsAreRecent,
        Types, RebuildAt, RebuildRuns, RebuildSteps
  <2>6. MembersAreRecent'
    BY <1>0, <1>14, <2>0
    DEF RebuildGivenUp, Moved, RunningTogether, NoneRestarts, IdsAreRecent, MembersAreRecent,
        Types, RebuildAt, RebuildRuns, RebuildSteps
  <2>7. RowsOfEnded'
    BY <1>0, <1>14, <2>0
    DEF RebuildGivenUp, Moved, RowsOfEnded, Types, RebuildAt, RebuildRuns, RebuildSteps
  <2>8. SparedTogether'
    BY <1>0, <1>14, <2>0
    DEF RebuildGivenUp, Moved, RunningTogether, RowsOfEnded, SparedTogether, Types, RebuildAt,
        RebuildRuns, RebuildSteps
  <2>9. OneRunInTable'
    BY <1>0, <1>14, <2>0
    DEF RebuildGivenUp, Moved, RowsOfEnded, SparedTogether, OneRunInTable, Types, RebuildAt,
        RebuildRuns, RebuildSteps
  <2> QED
    BY <2>1, <2>2, <2>3, <2>4, <2>5, <2>6, <2>7, <2>8, <2>9 DEF Inv
<1>15. CASE RebuildsStop
  <2>0. /\ rebuild' \in [Rebuilds -> Task]
        /\ \A r \in Rebuilds :
             \/ rebuild'[r].pc = "queued" /\ RebuildRuns(r)
             \/ rebuild'[r] = rebuild[r] /\ ~RebuildRuns(r)
    <3>1. ASSUME NEW r \in Rebuilds
          PROVE  LET w == [rebuild[r] EXCEPT !.pc = "queued", !.over = NoRebuild, !.doomed = {}]
                 IN  w \in Task /\ w.pc = "queued"
      <4>1. rebuild[r] \in Task
        BY <1>0 DEF Types
      <4> QED
        BY <4>1 DEF Task, Stages
    <3> QED
      BY <1>0, <1>15, <3>1 DEF RebuildsStop, Types
  <2>1. Types'
    BY <1>0, <1>15, <2>0
    DEF RebuildsStop, Types
  <2>2. RunningTogether'
    BY <1>0, <1>15, <2>0
    DEF RebuildsStop, RunningTogether, Types, RebuildAt, RebuildRuns, RebuildSteps
  <2>3. NoneRestarts'
    BY <1>0, <1>15, <2>0
    DEF RebuildsStop, NoneRestarts, Types, RebuildAt, RebuildRuns, RebuildSteps
  <2>4. MadeTogether'
    BY <1>0, <1>15, <2>0
    DEF RebuildsStop, RunningTogether, NoneRestarts, MadeTogether, Types, RebuildAt,
        RebuildRuns, RebuildSteps
  <2>5. IdsAreRecent'
    BY <1>0, <1>15, <2>0
    DEF RebuildsStop, RunningTogether, NoneRestarts, MadeTogether, IdsAreRecent, Types,
        RebuildAt, RebuildRuns, RebuildSteps
  <2>6. MembersAreRecent'
    BY <1>0, <1>15, <2>0
    DEF RebuildsStop, RunningTogether, NoneRestarts, IdsAreRecent, MembersAreRecent, Types,
        RebuildAt, RebuildRuns, RebuildSteps
  <2>7. RowsOfEnded'
    BY <1>0, <1>15, <2>0
    DEF RebuildsStop, RowsOfEnded, Types, RebuildAt, RebuildRuns, RebuildSteps
  <2>8. SparedTogether'
    BY <1>0, <1>15, <2>0
    DEF RebuildsStop, RunningTogether, RowsOfEnded, SparedTogether, Types, RebuildAt,
        RebuildRuns, RebuildSteps
  <2>9. OneRunInTable'
    BY <1>0, <1>15, <2>0
    DEF RebuildsStop, RowsOfEnded, SparedTogether, OneRunInTable, Types, RebuildAt,
        RebuildRuns, RebuildSteps
  <2> QED
    BY <2>1, <2>2, <2>3, <2>4, <2>5, <2>6, <2>7, <2>8, <2>9 DEF Inv
<1>16. CASE UNCHANGED vars
  <2>1. Types' /\ RunningTogether' /\ NoneRestarts' /\ RowsOfEnded'
    BY <1>0, <1>16
    DEF vars, Types, RunningTogether, NoneRestarts, RowsOfEnded, RebuildAt, RebuildRuns
  <2>2. MadeTogether' /\ IdsAreRecent' /\ MembersAreRecent'
    BY <1>0, <1>16 DEF vars, MadeTogether, IdsAreRecent, MembersAreRecent, RebuildAt
  <2>3. SparedTogether' /\ OneRunInTable'
    BY <1>0, <1>16 DEF vars, SparedTogether, OneRunInTable
  <2> QED
    BY <2>1, <2>2, <2>3 DEF Inv
<1> QED
  BY <1>1, <1>2, <1>3, <1>4, <1>5, <1>6, <1>7, <1>8, <1>9, <1>10, <1>11, <1>12, <1>13, <1>14,
     <1>15, <1>16
  DEF Next

-----------------------------------------------------------------------------
(* Every variable keeps its type, the tries of a rebuild included.         *)
THEOREM TypeCorrectness == Spec => []TypeOK
<1>1. Inv => TypeOK
  BY DEF Inv, Types, Task, Stages, TypeOK
<1> QED
  BY <1>1, InitInv, StepInv, PTL DEF Spec

(* The members a rebuild stores are never those of a projection that an    *)
(* earlier one left behind, whatever failed or stopped before              *)
(* (communities.py:38-107).                                                *)
THEOREM OnlyRecentMembers == Spec => []MembersAreRecent
<1>1. Inv => MembersAreRecent
  BY DEF Inv
<1> QED
  BY <1>1, InitInv, StepInv, PTL DEF Spec

(* The table holds rows of two rebuilds only if these two ran at the same  *)
(* time (communities.py:110-116).                                          *)
THEOREM LatestRunOnly == Spec => []OneRunInTable
<1>1. Inv => OneRunInTable
  BY DEF Inv
<1> QED
  BY <1>1, InitInv, StepInv, PTL DEF Spec

=============================================================================
