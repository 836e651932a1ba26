-------------------------- MODULE CronServiceProofs --------------------------
(***************************************************************************)
(* Theorems about CronService, for any tasks, limits and bounds.           *)
(***************************************************************************)
EXTENDS CronService, FiniteSetTheorems, TLAPS

-----------------------------------------------------------------------------
(* Values of the helpers *)

LEMMA NextType ==
    ASSUME past \subseteq Instants, NEW s
    PROVE  computeNextRunMs(s) \in {"none", "later"} \cup Instants
BY DEF computeNextRunMs

LEMMA AbsentType == Absent \in Task
BY CronAssumption DEF Absent, Task

LEMMA NewType ==
    ASSUME past \subseteq Instants, NEW s \in Schedules
    PROVE  New(s) \in Task
<1>1. computeNextRunMs(s) \in {"none", "later"} \cup Instants
  BY NextType
<1>2. s \in {"recurring", "never"} \cup Instants
  BY CronAssumption
<1> QED
  BY <1>1, <1>2 DEF New, Task

LEMMA RecomputeType ==
    ASSUME past \subseteq Instants, NEW ts \in Table
    PROVE  recomputeAllNextRuns(ts) \in Table
<1>1. ASSUME NEW t \in Tasks
      PROVE  [ts[t] EXCEPT !.next = computeNextRunMs(ts[t].schedule)] \in Task
  <2>1. computeNextRunMs(ts[t].schedule) \in {"none", "later"} \cup Instants
    BY NextType
  <2>2. ts[t] \in Task
    BY DEF Table
  <2> QED
    BY <2>1, <2>2 DEF Task
<1> QED
  BY <1>1 DEF recomputeAllNextRuns, Table

LEMMA ResetType ==
    ASSUME NEW ts \in Table
    PROVE  ResetMarks(ts) \in Table
BY DEF ResetMarks, Table, Task

LEMMA ResultType ==
    ASSUME past \subseteq Instants, NEW r \in Run, NEW ok \in BOOLEAN
    PROVE  /\ Result(r, ok).status \in {"enabled", "disabled", "error"}
           /\ Result(r, ok).next \in {"none", "later"} \cup Instants
           /\ Result(r, ok).errors = IF ok THEN 0 ELSE r.got.errors + 1
           /\ Result(r, ok).errors \in Nat
           /\ Result(r, ok).status = "error" => Result(r, ok).errors >= BackoffSteps
<1>1. computeNextRunMs(r.got.schedule) \in {"none", "later"} \cup Instants
  BY NextType
<1>2. r.got.errors \in Nat
  BY DEF Run, Task
<1>3. BackoffSteps \in Nat
  BY CronAssumption
<1> QED
  BY <1>1, <1>2, <1>3 DEF Result

LEMMA PatchedType ==
    ASSUME past \subseteq Instants, NEW ts \in Table, NEW r \in Run, NEW ok \in BOOLEAN
    PROVE  Patched(ts, r.task, Result(r, ok)) \in Table
<1> DEFINE p == Result(r, ok)
           patch == [status |-> p.status, schedule |-> ts[r.task].schedule,
                     next |-> p.next, errors |-> p.errors]
<1>1. patch \in Task
  <2>1. ts[r.task] \in Task
    BY DEF Table, Run
  <2> QED
    BY <2>1, ResultType DEF Task
<1>2. Patched(ts, r.task, p) = IF ts[r.task].status = "absent" THEN ts
                               ELSE [ts EXCEPT ![r.task] = patch]
  BY DEF Patched
<1> QED
  BY <1>1, <1>2 DEF Table

LEMMA KeepType ==
    ASSUME TypeOK, NEW id \in Snapshot
    PROVE  /\ Keep(id).index \in Seq(Snapshot)
           /\ DOMAIN Keep(id).held \subseteq Snapshot
           /\ \A s \in DOMAIN Keep(id).held :
                 Keep(id).held[s] = tasks \/ (s \in DOMAIN held /\ Keep(id).held[s] = held[s])
<1> DEFINE all == Append(index, id)
           over == IF Len(all) > MaxSnapshots THEN Len(all) - MaxSnapshots ELSE 0
           gone == {all[k] : k \in 1..over}
<1>1. all \in Seq(Snapshot) /\ over \in Nat /\ over + 1 >= 1
  BY CronAssumption DEF TypeOK
<1>2. SubSeq(all, over + 1, Len(all)) \in Seq(Snapshot)
  BY <1>1
<1>3. Keep(id) = [index |-> SubSeq(all, over + 1, Len(all)),
                  held |-> [s \in (DOMAIN held \cup {id}) \ gone |->
                              IF s = id THEN tasks ELSE held[s]]]
  BY DEF Keep
<1> HIDE DEF all, over, gone
<1> QED
  BY <1>2, <1>3 DEF TypeOK

-----------------------------------------------------------------------------
(* Types, and the slots that runs hold *)

Fresh == \A r \in runs : r.n <= started[r.task]

Base == TypeOK /\ IsFiniteSet(runs) /\ Fresh /\ SlotsAccounted

LEMMA FaultsType ==
    ASSUME faults \in Nat, NEW n \in Nat, Faults(n)
    PROVE  faults' \in Nat /\ faults' = faults + n
BY DEF Faults

LEMMA CostType == \A b \in BOOLEAN : Cost(b) \in {0, 1} /\ (Cost(b) = 1 <=> b)
BY DEF Cost

LEMMA EmptyRuns ==
    ASSUME TypeOK, runs' = {}, activeRunCount' = 0, faults' \in Nat
    PROVE  IsFiniteSet(runs)' /\ Fresh' /\ SlotsAccounted'
<1>1. IsFiniteSet({}) /\ Cardinality({}) = 0
  BY FS_EmptySet
<1> QED
  BY <1>1 DEF Fresh, SlotsAccounted

LEMMA SameRuns ==
    ASSUME Base, UNCHANGED <<runs, started, activeRunCount>>, faults' \in Nat, faults' >= faults
    PROVE  IsFiniteSet(runs)' /\ Fresh' /\ SlotsAccounted'
<1>1. Cardinality(runs) \in Nat
  BY FS_CardinalityType DEF Base
<1> QED
  BY <1>1 DEF Base, Fresh, SlotsAccounted, TypeOK

LEMMA InitBase == Init => Base
<1> SUFFICES ASSUME Init PROVE Base
  OBVIOUS
<1>1. \A s \in Schedules : New(s) \in Task
  BY NewType DEF Init
<1>2. file \in Table
  <2>1. file \in [Tasks -> {New(s) : s \in Schedules} \cup {Absent}]
    BY DEF Init
  <2>2. {New(s) : s \in Schedules} \cup {Absent} \subseteq Task
    BY <1>1, AbsentType
  <2> QED
    BY <2>1, <2>2 DEF Table
<1>3. IsFiniteSet({}) /\ Cardinality({}) = 0
  BY FS_EmptySet
<1>4. asked \in [Tasks -> [Instants -> Nat]]
  BY DEF Init, Cost
<1>5. index \in Seq(Snapshot) /\ DOMAIN held = {}
  BY DEF Init
<1>6. tasks \in Table /\ missed \in Table
  BY AbsentType DEF Init, Table
<1>7. /\ started \in [Tasks -> Nat] /\ overrides \in [Tasks -> Nat]
      /\ failures \in [Tasks -> Nat] /\ shots \in [Tasks -> [Instants -> Nat]]
  BY DEF Init
<1>8. TypeOK
  BY <1>2, <1>4, <1>5, <1>6, <1>7 DEF Init, TypeOK
<1> QED
  BY <1>3, <1>8 DEF Init, Base, Fresh, SlotsAccounted

\* A run that begins takes its slot, with or without its save.
LEMMA BeginBase ==
    ASSUME Base, NEW t \in Tasks, NEW by \in {"hand", "catchUp"}, NEW got \in Task,
           NEW failed \in BOOLEAN, Begin(t, by, got, failed), Faults(Cost(failed))
    PROVE  /\ tasks' \in Table /\ file' \in Table /\ activeRunCount' \in Nat
           /\ runs' \subseteq Run /\ runs \subseteq runs'
           /\ started' \in [Tasks -> Nat] /\ overrides' \in [Tasks -> Nat]
           /\ faults' \in Nat
           /\ IsFiniteSet(runs)' /\ Fresh' /\ SlotsAccounted'
<1> DEFINE new == [task |-> t, n |-> started[t] + 1, by |-> by, got |-> got]
<1>1. /\ tasks \in Table /\ file \in Table /\ activeRunCount \in Nat /\ runs \subseteq Run
      /\ started \in [Tasks -> Nat] /\ overrides \in [Tasks -> Nat] /\ faults \in Nat
      /\ IsFiniteSet(runs) /\ Fresh /\ SlotsAccounted
  BY DEF Base, TypeOK
<1>2. /\ started' = [started EXCEPT ![t] = @ + 1]
      /\ activeRunCount' = activeRunCount + 1
      /\ tasks' = [tasks EXCEPT ![t].status = IF @ = "absent" THEN @ ELSE "running"]
      /\ file' = file \/ file' = tasks'
      /\ runs' = IF failed THEN runs ELSE runs \cup {new}
      /\ overrides' = [overrides EXCEPT ![t] = @ + Cost(tasks[t].status \in {"running", "absent"})]
  BY DEF Begin, persist
<1>3. tasks' \in Table /\ file' \in Table
  <2>1. tasks[t] \in Task
    BY <1>1 DEF Table
  <2>2. [tasks[t] EXCEPT !.status = IF @ = "absent" THEN @ ELSE "running"] \in Task
    BY <2>1 DEF Task
  <2>3. tasks' \in Table
    BY <1>1, <1>2, <2>2 DEF Table
  <2> QED
    BY <1>1, <1>2, <2>3
<1>4. started' \in [Tasks -> Nat] /\ overrides' \in [Tasks -> Nat] /\ activeRunCount' \in Nat
  <2>1. Cost(tasks[t].status \in {"running", "absent"}) \in Nat
    BY DEF Cost
  <2> QED
    BY <1>1, <1>2, <2>1
<1>5. faults' = faults + Cost(failed) /\ faults' \in Nat
  BY <1>1, CostType, FaultsType
<1>6. new \in Run /\ new.n = started[t] + 1 /\ new.task = t
  BY <1>1 DEF Run
<1>7. new \notin runs
  BY <1>1, <1>6 DEF Fresh
<1>8. Cardinality(runs) \in Nat
  BY <1>1, FS_CardinalityType
<1>9. runs' \subseteq Run /\ runs \subseteq runs'
  BY <1>1, <1>2, <1>6
<1>10. Fresh'
  <2>1. \A r \in runs : r.task \in Tasks /\ r.n \in Nat /\ r.n <= started[r.task]
    BY <1>1 DEF Fresh, Run
  <2>2. \A u \in Tasks : started[u] \in Nat /\ started'[u] \in Nat /\ started[u] <= started'[u]
    BY <1>1, <1>2
  <2>3. \A r \in runs : r.n <= started'[r.task]
    BY <2>1, <2>2
  <2>4. new.n <= started'[new.task]
    BY <1>1, <1>2, <1>6
  <2> QED
    BY <1>2, <2>3, <2>4 DEF Fresh
<1>11. IsFiniteSet(runs') /\ SlotsAccounted'
  <2>1. CASE failed
    BY <1>1, <1>2, <1>5, <1>8, <2>1 DEF SlotsAccounted, Cost
  <2>2. CASE ~failed
    <3>1. IsFiniteSet(runs \cup {new}) /\ Cardinality(runs \cup {new}) = Cardinality(runs) + 1
      BY <1>1, <1>7, FS_AddElement
    <3> QED
      BY <1>1, <1>2, <1>5, <1>8, <2>2, <3>1 DEF SlotsAccounted, Cost
  <2> QED
    BY <2>1, <2>2
<1> QED
  BY <1>3, <1>4, <1>5, <1>9, <1>10, <1>11

\* The runs that a tick starts, one for each task.
NewRuns(S) == {[task |-> t, n |-> started[t] + 1, by |-> "tick", got |-> tasks[t]] : t \in S}

LEMMA NewRunsCount ==
    ASSUME NEW S \in SUBSET Tasks
    PROVE  IsFiniteSet(NewRuns(S)) /\ Cardinality(NewRuns(S)) = Cardinality(S)
<1> DEFINE f == [t \in S |-> [task |-> t, n |-> started[t] + 1, by |-> "tick", got |-> tasks[t]]]
<1>1. IsFiniteSet(S)
  BY CronAssumption, FS_Subset
<1>2. f \in Bijection(S, NewRuns(S))
  <2>1. \A t \in S : f[t] \in NewRuns(S) /\ f[t].task = t
    BY DEF NewRuns
  <2>2. \A r \in NewRuns(S) : \E t \in S : f[t] = r
    BY DEF NewRuns
  <2>3. f \in [S -> NewRuns(S)]
    BY <2>1
  <2>4. \A a, b \in S : f[a] = f[b] => a = b
    BY <2>1
  <2> HIDE DEF f
  <2> QED
    BY <2>1, <2>2, <2>3, <2>4 DEF Bijection, Injection, Surjection, IsInjective
<1>3. ExistsBijection(S, NewRuns(S))
  BY <1>2 DEF ExistsBijection
<1> QED
  BY <1>1, <1>3, FS_Bijection

\* What a tick does: it starts the runs of `ran' and loses a slot for each of
\* `failed'.
LEMMA TickFacts ==
    ASSUME Base, onTick
    PROVE  \E batch \in SUBSET Tasks : \E failed \in SUBSET batch :
             /\ \A t \in batch : Due(tasks[t])
             /\ Cardinality(batch) <= Slots
             /\ faults' = faults + Cardinality(failed) /\ faults' \in Nat
             /\ Cardinality(failed) \in Nat /\ Cardinality(batch) \in Nat
             /\ Cardinality(batch \ failed) = Cardinality(batch) - Cardinality(failed)
             /\ tasks' = [t \in Tasks |-> IF t \in batch THEN [tasks[t] EXCEPT !.status = "running"]
                                          ELSE tasks[t]]
             /\ \/ file' = file
                \/ \E unsaved \in SUBSET failed :
                      file' = [t \in Tasks |-> IF t \in unsaved THEN tasks[t] ELSE tasks'[t]]
             /\ activeRunCount' = activeRunCount + Cardinality(batch)
             /\ started' = [t \in Tasks |-> started[t] + IF t \in batch THEN 1 ELSE 0]
             /\ runs' = runs \cup NewRuns(batch \ failed)
             /\ batches' \subseteq batches \cup {NewRuns(batch \ failed)}
             /\ batches \subseteq batches'
             /\ NewRuns(batch \ failed) # {} => NewRuns(batch \ failed) \in batches'
             /\ timer' \in BOOLEAN
             /\ NewRuns(batch \ failed) = {} => armTimer(tasks')
             /\ UNCHANGED <<phase, running, missed, past, snapVars, overrides, failures>>
<1> DEFINE due == {t \in Tasks : Due(tasks[t]) /\ started[t] < MaxRuns}
<1>1. PICK batch \in SUBSET due : \E failed \in SUBSET batch : \E unsaved \in SUBSET failed :
        LET ts == [t \in Tasks |-> IF t \in batch THEN [tasks[t] EXCEPT !.status = "running"]
                                   ELSE tasks[t]]
        IN  /\ Cardinality(batch) = IF Cardinality(due) < Slots THEN Cardinality(due) ELSE Slots
            /\ Faults(Cardinality(failed))
            /\ tasks' = ts
            /\ file' = IF batch = failed THEN file
                       ELSE [t \in Tasks |-> IF t \in unsaved THEN tasks[t] ELSE ts[t]]
            /\ activeRunCount' = activeRunCount + Cardinality(batch)
            /\ started' = [t \in Tasks |-> started[t] + IF t \in batch THEN 1 ELSE 0]
            /\ runs' = runs \cup NewRuns(batch \ failed)
            /\ IF NewRuns(batch \ failed) = {} THEN armTimer(ts) /\ UNCHANGED batches
               ELSE timer' = FALSE /\ batches' = batches \cup {NewRuns(batch \ failed)}
  BY DEF onTick, NewRuns
<1>2. PICK failed \in SUBSET batch : \E unsaved \in SUBSET failed :
        LET ts == [t \in Tasks |-> IF t \in batch THEN [tasks[t] EXCEPT !.status = "running"]
                                   ELSE tasks[t]]
        IN  /\ Faults(Cardinality(failed))
            /\ tasks' = ts
            /\ file' = IF batch = failed THEN file
                       ELSE [t \in Tasks |-> IF t \in unsaved THEN tasks[t] ELSE ts[t]]
            /\ activeRunCount' = activeRunCount + Cardinality(batch)
            /\ started' = [t \in Tasks |-> started[t] + IF t \in batch THEN 1 ELSE 0]
            /\ runs' = runs \cup NewRuns(batch \ failed)
            /\ IF NewRuns(batch \ failed) = {} THEN armTimer(ts) /\ UNCHANGED batches
               ELSE timer' = FALSE /\ batches' = batches \cup {NewRuns(batch \ failed)}
  BY <1>1
<1>3. IsFiniteSet(due) /\ IsFiniteSet(batch) /\ IsFiniteSet(failed) /\ batch \in SUBSET Tasks
  BY CronAssumption, FS_Subset
<1>4. /\ Cardinality(due) \in Nat /\ Cardinality(batch) \in Nat /\ Cardinality(failed) \in Nat
      /\ Cardinality(batch \ failed) = Cardinality(batch) - Cardinality(failed)
  <2>1. batch \cap failed = failed
    OBVIOUS
  <2> QED
    BY <1>3, <2>1, FS_CardinalityType, FS_Difference
<1>5. faults' = faults + Cardinality(failed) /\ faults' \in Nat
  BY <1>2, <1>4, FaultsType DEF Base, TypeOK
<1>6. Slots \in Nat /\ Cardinality(batch) <= Slots
  <2>1. Slots \in Nat
    BY CronAssumption DEF Slots, Base, TypeOK
  <2>2. Cardinality(batch) = IF Cardinality(due) < Slots THEN Cardinality(due) ELSE Slots
    BY <1>1
  <2> HIDE DEF due
  <2> QED
    BY <1>4, <2>1, <2>2
<1>7. timer' \in BOOLEAN
  BY <1>2 DEF armTimer, Base, TypeOK
<1>8. UNCHANGED <<phase, running, missed, past, snapVars, overrides, failures>>
  BY DEF onTick
<1>9. \A t \in batch : Due(tasks[t])
  OBVIOUS
<1>10. \/ file' = file
       \/ \E unsaved \in SUBSET failed :
             file' = [t \in Tasks |-> IF t \in unsaved THEN tasks[t] ELSE tasks'[t]]
  <2>1. PICK unsaved \in SUBSET failed :
          /\ tasks' = [t \in Tasks |-> IF t \in batch THEN [tasks[t] EXCEPT !.status = "running"]
                                       ELSE tasks[t]]
          /\ file' = IF batch = failed THEN file
                     ELSE [t \in Tasks |-> IF t \in unsaved THEN tasks[t]
                             ELSE IF t \in batch THEN [tasks[t] EXCEPT !.status = "running"]
                             ELSE tasks[t]]
    <3> HIDE DEF due
    <3> QED
      BY <1>2
  <2>2. [t \in Tasks |-> IF t \in unsaved THEN tasks[t]
             ELSE IF t \in batch THEN [tasks[t] EXCEPT !.status = "running"] ELSE tasks[t]]
        = [t \in Tasks |-> IF t \in unsaved THEN tasks[t] ELSE tasks'[t]]
    BY <2>1
  <2> QED
    BY <2>1, <2>2
<1>11. /\ batches' \subseteq batches \cup {NewRuns(batch \ failed)}
       /\ batches \subseteq batches'
       /\ NewRuns(batch \ failed) # {} => NewRuns(batch \ failed) \in batches'
       /\ NewRuns(batch \ failed) = {} => armTimer(tasks')
  BY <1>2
<1>12. /\ tasks' = [t \in Tasks |-> IF t \in batch THEN [tasks[t] EXCEPT !.status = "running"]
                                    ELSE tasks[t]]
       /\ activeRunCount' = activeRunCount + Cardinality(batch)
       /\ started' = [t \in Tasks |-> started[t] + IF t \in batch THEN 1 ELSE 0]
       /\ runs' = runs \cup NewRuns(batch \ failed)
  BY <1>2
<1> HIDE DEF due
<1> QED
  BY <1>3, <1>4, <1>5, <1>6, <1>7, <1>8, <1>9, <1>10, <1>11, <1>12

LEMMA TickBase ==
    ASSUME Base, onTick
    PROVE  Base'
<1>1. PICK batch \in SUBSET Tasks : \E failed \in SUBSET batch :
        /\ faults' = faults + Cardinality(failed) /\ faults' \in Nat
        /\ Cardinality(failed) \in Nat /\ Cardinality(batch) \in Nat
        /\ Cardinality(batch \ failed) = Cardinality(batch) - Cardinality(failed)
        /\ tasks' = [t \in Tasks |-> IF t \in batch THEN [tasks[t] EXCEPT !.status = "running"]
                                     ELSE tasks[t]]
        /\ \/ file' = file
           \/ \E unsaved \in SUBSET failed :
                 file' = [t \in Tasks |-> IF t \in unsaved THEN tasks[t] ELSE tasks'[t]]
        /\ activeRunCount' = activeRunCount + Cardinality(batch)
        /\ started' = [t \in Tasks |-> started[t] + IF t \in batch THEN 1 ELSE 0]
        /\ runs' = runs \cup NewRuns(batch \ failed)
        /\ batches' \subseteq batches \cup {NewRuns(batch \ failed)}
        /\ timer' \in BOOLEAN
        /\ UNCHANGED <<phase, running, missed, past, snapVars, overrides, failures>>
  BY TickFacts
<1>2. PICK failed \in SUBSET batch :
        /\ faults' = faults + Cardinality(failed) /\ faults' \in Nat
        /\ Cardinality(failed) \in Nat /\ Cardinality(batch) \in Nat
        /\ Cardinality(batch \ failed) = Cardinality(batch) - Cardinality(failed)
        /\ tasks' = [t \in Tasks |-> IF t \in batch THEN [tasks[t] EXCEPT !.status = "running"]
                                     ELSE tasks[t]]
        /\ \/ file' = file
           \/ \E unsaved \in SUBSET failed :
                 file' = [t \in Tasks |-> IF t \in unsaved THEN tasks[t] ELSE tasks'[t]]
        /\ activeRunCount' = activeRunCount + Cardinality(batch)
        /\ started' = [t \in Tasks |-> started[t] + IF t \in batch THEN 1 ELSE 0]
        /\ runs' = runs \cup NewRuns(batch \ failed)
        /\ batches' \subseteq batches \cup {NewRuns(batch \ failed)}
        /\ timer' \in BOOLEAN
        /\ UNCHANGED <<phase, running, missed, past, snapVars, overrides, failures>>
  BY <1>1
<1> DEFINE new == NewRuns(batch \ failed)
<1>3. /\ tasks \in Table /\ file \in Table /\ activeRunCount \in Nat /\ runs \subseteq Run
      /\ started \in [Tasks -> Nat] /\ faults \in Nat
      /\ IsFiniteSet(runs) /\ Fresh /\ SlotsAccounted /\ batches \subseteq SUBSET runs
  BY DEF Base, TypeOK
<1>4. tasks' \in Table
  <2>1. \A t \in Tasks : tasks[t] \in Task /\ [tasks[t] EXCEPT !.status = "running"] \in Task
    BY <1>3 DEF Table, Task
  <2> QED
    BY <1>2, <2>1 DEF Table
<1>5. file' \in Table
  BY <1>2, <1>3, <1>4 DEF Table
<1>6. started' \in [Tasks -> Nat] /\ \A t \in Tasks : started[t] <= started'[t]
  BY <1>2, <1>3
<1>7. ASSUME NEW r \in new
      PROVE  r \in Run /\ r.n = started[r.task] + 1 /\ r.task \in batch
  <2>1. PICK t \in batch \ failed :
          r = [task |-> t, n |-> started[t] + 1, by |-> "tick", got |-> tasks[t]]
    BY DEF NewRuns
  <2> QED
    BY <1>3, <2>1 DEF Run, Table
<1>8. runs \cap new = {}
  <2>1. \A r \in runs : r.task \in Tasks /\ r.n <= started[r.task]
    BY <1>3 DEF Fresh, Run
  <2>2. \A t \in Tasks : started[t] \in Nat
    BY <1>3
  <2>3. ASSUME NEW r \in runs, r \in new
        PROVE  FALSE
    BY <1>7, <2>1, <2>2, <2>3
  <2> QED
    BY <2>3
<1>9. Fresh'
  <2>1. \A r \in runs : r.n <= started'[r.task]
    BY <1>3, <1>6 DEF Fresh, Run
  <2>2. ASSUME NEW r \in new
        PROVE  r.n <= started'[r.task]
    <3>1. r.n = started[r.task] + 1 /\ r.task \in batch /\ r.task \in Tasks
      BY <1>7
    <3>2. started'[r.task] = started[r.task] + 1 /\ started[r.task] \in Nat
      BY <1>2, <1>3, <3>1
    <3> QED
      BY <3>1, <3>2
  <2> QED
    BY <1>2, <2>1, <2>2 DEF Fresh
<1>10. IsFiniteSet(runs') /\ SlotsAccounted'
  <2>1. IsFiniteSet(new) /\ Cardinality(new) = Cardinality(batch) - Cardinality(failed)
    BY <1>2, NewRunsCount
  <2>2. IsFiniteSet(runs') /\ Cardinality(runs') = Cardinality(runs) + Cardinality(new)
    <3>1. Cardinality(runs) \in Nat /\ Cardinality(new) \in Nat
      BY <1>3, <2>1, FS_CardinalityType
    <3> HIDE DEF new
    <3>2. Cardinality(runs \cap new) = 0
      BY <1>8, FS_EmptySet
    <3>3. runs' = runs \cup new
      BY <1>2 DEF new
    <3>4. Cardinality(runs \cup new)
            = Cardinality(runs) + Cardinality(new) - Cardinality(runs \cap new)
      BY <1>3, <2>1, FS_Union
    <3>5. IsFiniteSet(runs \cup new)
      BY <1>3, <2>1, FS_Union
    <3> QED
      BY <3>1, <3>2, <3>3, <3>4, <3>5
  <2>3. Cardinality(runs) \in Nat
    BY <1>3, FS_CardinalityType
  <2> HIDE DEF new
  <2> QED
    BY <1>2, <1>3, <2>1, <2>2, <2>3 DEF SlotsAccounted
<1>11. batches' \subseteq SUBSET runs' /\ runs' \subseteq Run
  BY <1>2, <1>3, <1>7
<1>12. shots' \in [Tasks -> [Instants -> Nat]] /\ UNCHANGED <<byHand, changes, stops, asked, stale>>
  <2>1. \A t \in Tasks, i \in Instants : shots[t][i] \in Nat
    BY DEF Base, TypeOK
  <2>2. UNCHANGED <<byHand, changes, stops, asked, stale>>
    BY DEF onTick
  <2>3. PICK b \in SUBSET {t \in Tasks : Due(tasks[t]) /\ started[t] < MaxRuns} :
          \E d \in SUBSET b : \E u \in SUBSET d :
            shots' = [t \in Tasks |-> [i \in Instants |-> shots[t][i] +
                       IF t \in b \ d /\ tasks[t].next = i THEN 1 ELSE 0]]
    BY DEF onTick
  <2> QED
    BY <2>1, <2>2, <2>3
<1>13. activeRunCount' \in Nat
  BY <1>2, <1>3
<1>14. TypeOK'
  <2>1. /\ phase' \in {"down", "loaded", "between", "catching", "up"} /\ running' \in BOOLEAN
        /\ timer' \in BOOLEAN /\ missed' \in Table /\ past' \subseteq Instants
        /\ index' \in Seq(Snapshot) /\ ms' \in Nat
        /\ DOMAIN held' \subseteq Snapshot /\ \A id \in DOMAIN held' : held'[id] \in Table
        /\ overrides' \in [Tasks -> Nat] /\ failures' \in [Tasks -> Nat]
        /\ asked' \in [Tasks -> [Instants -> Nat]] /\ stale' \in [Tasks -> [Instants -> Nat]]
        /\ byHand' \in Nat /\ changes' \in Nat /\ stops' \in Nat
    BY <1>2, <1>12 DEF Base, TypeOK, snapVars
  <2> QED
    BY <1>2, <1>4, <1>5, <1>6, <1>11, <1>12, <1>13, <2>1 DEF TypeOK
<1> QED
  BY <1>9, <1>10, <1>14 DEF Base

LEMMA FinishBase ==
    ASSUME Base, NEW r \in runs, NEW ok \in BOOLEAN, Finish(r, ok)
    PROVE  Base'
<1> DEFINE ts == Patched(tasks, r.task, Result(r, ok))
<1>1. /\ tasks \in Table /\ file \in Table /\ activeRunCount \in Nat /\ runs \subseteq Run
      /\ started \in [Tasks -> Nat] /\ faults \in Nat /\ past \subseteq Instants
      /\ missed \in Table /\ failures \in [Tasks -> Nat]
      /\ IsFiniteSet(runs) /\ Fresh /\ SlotsAccounted /\ batches \subseteq SUBSET runs
  BY DEF Base, TypeOK
<1>2. ts \in Table
  BY <1>1, PatchedType
<1> HIDE DEF ts
<1>3. /\ runs' = runs \ {r} /\ activeRunCount' = activeRunCount - 1 /\ tasks' = ts
      /\ failures' = [failures EXCEPT ![r.task] = @ + IF ok THEN 0 ELSE 1]
      /\ batches' = {b \ {r} : b \in batches} \ {{}}
      /\ UNCHANGED <<running, past, snapVars, started, byHand, changes, stops,
                     overrides, shots, asked, stale>>
  BY DEF Finish, ts
<1>4. /\ file' = file \/ file' = ts
      /\ faults' \in Nat /\ faults' >= faults
      /\ missed' = missed \/ missed' = [t \in Tasks |-> Absent]
      /\ phase' \in {phase, "up", "between"}
  <2>1. PICK unsaved \in BOOLEAN, unrecorded \in BOOLEAN :
          /\ Faults(Cost(unsaved \/ unrecorded))
          /\ IF tasks[r.task].status = "absent" THEN UNCHANGED file ELSE persist(ts, unsaved)
          /\ IF r.by = "catchUp"
             THEN /\ phase' = IF unsaved \/ unrecorded THEN "up" ELSE "between"
                  /\ missed' = IF unsaved \/ unrecorded THEN [t \in Tasks |-> Absent] ELSE missed
             ELSE UNCHANGED <<phase, missed>>
    BY DEF Finish, ts
  <2>2. Cost(unsaved \/ unrecorded) \in {0, 1}
    BY DEF Cost
  <2>3. faults' = faults + Cost(unsaved \/ unrecorded)
    BY <2>1 DEF Faults
  <2> QED
    BY <1>1, <2>1, <2>2, <2>3 DEF persist
<1>5. timer' \in BOOLEAN
  BY DEF Finish, armTimer, Base, TypeOK
<1>6. IsFiniteSet(runs') /\ Cardinality(runs') = Cardinality(runs) - 1
      /\ Cardinality(runs) \in Nat /\ Cardinality(runs') \in Nat
  BY <1>1, <1>3, FS_RemoveElement, FS_CardinalityType
<1>7. activeRunCount' \in Nat /\ SlotsAccounted'
  BY <1>1, <1>3, <1>4, <1>6 DEF SlotsAccounted
<1>8. Fresh'
  BY <1>1, <1>3 DEF Fresh
<1>9. batches' \subseteq SUBSET runs' /\ runs' \subseteq Run
  BY <1>1, <1>3
<1>10. failures' \in [Tasks -> Nat] /\ file' \in Table /\ missed' \in Table
  <2>1. file' \in Table /\ [t \in Tasks |-> Absent] \in Table
    BY <1>1, <1>2, <1>4, AbsentType DEF Table
  <2>2. r.task \in Tasks /\ failures[r.task] + (IF ok THEN 0 ELSE 1) \in Nat
    BY <1>1 DEF Run
  <2>3. failures' \in [Tasks -> Nat]
    BY <1>1, <1>3, <2>2
  <2> QED
    BY <1>1, <1>4, <2>1, <2>3
<1>11. TypeOK'
  <2>1. /\ phase' \in {"down", "loaded", "between", "catching", "up"} /\ running' \in BOOLEAN
        /\ past' \subseteq Instants
        /\ index' \in Seq(Snapshot) /\ ms' \in Nat
        /\ DOMAIN held' \subseteq Snapshot /\ \A id \in DOMAIN held' : held'[id] \in Table
        /\ overrides' \in [Tasks -> Nat] /\ started' \in [Tasks -> Nat]
        /\ shots' \in [Tasks -> [Instants -> Nat]] /\ asked' \in [Tasks -> [Instants -> Nat]]
        /\ stale' \in [Tasks -> [Instants -> Nat]]
        /\ byHand' \in Nat /\ changes' \in Nat /\ stops' \in Nat
    BY <1>3, <1>4 DEF Base, TypeOK, snapVars
  <2> QED
    BY <1>2, <1>3, <1>4, <1>5, <1>7, <1>9, <1>10, <2>1 DEF TypeOK
<1> QED
  BY <1>6, <1>7, <1>8, <1>11 DEF Base

\* A change keeps the types, whatever table of tasks it makes.
LEMMA ChangeBase ==
    ASSUME Base, NEW source \in Sources, NEW ts \in Table, Change(source, ts),
           asked' \in [Tasks -> [Instants -> Nat]]
    PROVE  /\ Base'
           /\ tasks' = ts /\ (file' = file \/ file' = ts)
           /\ \A s \in DOMAIN held' : held'[s] = tasks \/ (s \in DOMAIN held /\ held'[s] = held[s])
           /\ overrides' = [t \in Tasks |-> overrides[t] +
                              Cost(tasks[t].status = "running" /\ ts[t].status # "running")]
           /\ UNCHANGED <<phase, running, activeRunCount, runs, batches, missed, past, started,
                          failures, shots, stale>>
<1>1. PICK how \in {"kept", "lost", "unlisted"}, failed \in BOOLEAN :
        /\ capture(source, how)
        /\ persist(ts, failed)
        /\ Faults(Cost(how # "kept") + Cost(failed))
        /\ IF failed THEN UNCHANGED timer ELSE armTimer(ts)
  BY DEF Change
<1>2. /\ tasks' = ts /\ changes' = changes + 1
      /\ overrides' = [t \in Tasks |-> overrides[t] +
                         Cost(tasks[t].status = "running" /\ ts[t].status # "running")]
      /\ UNCHANGED <<phase, running, activeRunCount, runs, batches, missed, past, started, byHand,
                     stops, failures, shots, stale>>
  BY DEF Change
<1>3. /\ index' \in Seq(Snapshot) /\ ms' \in Nat /\ DOMAIN held' \subseteq Snapshot
      /\ \A s \in DOMAIN held' : held'[s] = tasks \/ (s \in DOMAIN held /\ held'[s] = held[s])
  <2>1. CASE how = "lost"
    BY <1>1, <2>1 DEF capture, snapVars, Base, TypeOK
  <2>2. CASE how # "lost"
    <3>1. PICK later \in {0, 1} :
            LET kept == Keep(<<source, ms + later>>)
            IN  /\ ms' = ms + later
                /\ held' = kept.held
                /\ index' = IF how = "unlisted" THEN index ELSE kept.index
      BY <1>1, <2>2 DEF capture
    <3> DEFINE id == <<source, ms + later>>
    <3>2. id \in Snapshot
      BY DEF Base, TypeOK, Snapshot
    <3>3. /\ Keep(id).index \in Seq(Snapshot)
          /\ DOMAIN Keep(id).held \subseteq Snapshot
          /\ \A s \in DOMAIN Keep(id).held :
                Keep(id).held[s] = tasks \/ (s \in DOMAIN held /\ Keep(id).held[s] = held[s])
      <4> HIDE DEF id
      <4> QED
        BY <3>2, KeepType DEF Base
    <3>4. held' = Keep(id).held /\ (index' = index \/ index' = Keep(id).index) /\ ms' \in Nat
      BY <3>1 DEF Base, TypeOK
    <3> HIDE DEF id
    <3> QED
      BY <3>3, <3>4 DEF Base, TypeOK
  <2> QED
    BY <2>1, <2>2
<1>4. faults' \in Nat /\ faults' >= faults
  BY <1>1 DEF Faults, Cost, Base, TypeOK
<1>5. file' = file \/ file' = ts
  BY <1>1 DEF persist
<1>6. timer' \in BOOLEAN
  BY <1>1 DEF armTimer, Base, TypeOK
<1>7. overrides' \in [Tasks -> Nat]
  <2>1. \A t \in Tasks :
          Cost(tasks[t].status = "running" /\ ts[t].status # "running") \in Nat
    BY DEF Cost
  <2> QED
    BY <1>2, <2>1 DEF Base, TypeOK
<1>8. IsFiniteSet(runs)' /\ Fresh' /\ SlotsAccounted'
  BY <1>2, <1>4, SameRuns
<1>9. \A s \in DOMAIN held' : held'[s] \in Table
  BY <1>3 DEF Base, TypeOK
<1>10. TypeOK'
  BY <1>2, <1>3, <1>4, <1>5, <1>6, <1>7, <1>9 DEF Base, TypeOK
<1> QED
  BY <1>2, <1>3, <1>5, <1>8, <1>10 DEF Base

LEMMA AskType ==
    ASSUME TypeOK, NEW t \in Tasks, NEW s, Ask(t, s)
    PROVE  asked' \in [Tasks -> [Instants -> Nat]]
<1>1. \A i \in Instants : asked[t][i] + Cost(s = i) \in Nat
  BY DEF TypeOK, Cost
<1> QED
  BY <1>1 DEF Ask, TypeOK

\* The tables that the operations of an operator make.
LEMMA ChangedTables ==
    ASSUME TypeOK
    PROVE  /\ \A t \in Tasks, s \in Schedules : [tasks EXCEPT ![t] = New(s)] \in Table
           /\ \A t \in Tasks : [tasks EXCEPT ![t] = Absent] \in Table
           /\ \A id \in DOMAIN held : recomputeAllNextRuns(held[id]) \in Table
<1>1. past \subseteq Instants /\ tasks \in Table /\ \A id \in DOMAIN held : held[id] \in Table
  BY DEF TypeOK
<1> QED
  BY <1>1, NewType, AbsentType, RecomputeType DEF Table

Merged(t, patch) ==
    [tasks[t] EXCEPT
       !.status = IF patch.status = "kept" THEN @ ELSE patch.status,
       !.schedule = IF patch.schedule = "kept" THEN @ ELSE patch.schedule,
       !.next = IF patch.schedule = "kept" THEN @ ELSE computeNextRunMs(patch.schedule)]

LEMMA MergedType ==
    ASSUME TypeOK, NEW t \in Tasks, NEW patch \in Patch
    PROVE  /\ Merged(t, patch) \in Task
           /\ Merged(t, patch).errors = tasks[t].errors
           /\ Merged(t, patch).status \in {tasks[t].status, "enabled", "disabled"}
           /\ [tasks EXCEPT ![t] = Merged(t, patch)] \in Table
<1>1. tasks \in Table /\ tasks[t] \in Task /\ past \subseteq Instants
  BY DEF TypeOK, Table
<1>2. computeNextRunMs(patch.schedule) \in {"none", "later"} \cup Instants
  BY <1>1, NextType
<1>3. patch.schedule \in {"kept", "recurring", "never"} \cup Instants
      /\ patch.status \in {"kept", "enabled", "disabled"}
  BY CronAssumption DEF Patch
<1>4. /\ Merged(t, patch) \in Task
      /\ Merged(t, patch).errors = tasks[t].errors
      /\ Merged(t, patch).status \in {tasks[t].status, "enabled", "disabled"}
  BY <1>1, <1>2, <1>3 DEF Merged, Task
<1> QED
  BY <1>1, <1>4 DEF Table

\* Every action keeps the types, and every slot accounted for.
LEMMA NextBase ==
    ASSUME Base, [Next]_vars
    PROVE  Base'
<1>1. /\ TypeOK /\ IsFiniteSet(runs) /\ Fresh /\ SlotsAccounted
      /\ \A t \in Tasks : tasks[t] \in Task /\ missed[t] \in Task
  BY DEF Base, TypeOK, Table
<1>2. [t \in Tasks |-> Absent] \in Table
  BY AbsentType DEF Table
<1>3. CASE start
  <2>1. recomputeAllNextRuns(ResetMarks(file)) \in Table
    BY <1>1, ResetType, RecomputeType DEF TypeOK
  <2>2. PICK failed \in BOOLEAN :
          /\ persist(recomputeAllNextRuns(ResetMarks(file)), failed) /\ Faults(Cost(failed))
          /\ phase' = IF failed THEN "up" ELSE "loaded"
    BY <1>3 DEF start
  <2>3. faults' \in Nat /\ faults' >= faults
    BY <1>1, <2>2 DEF Faults, Cost, TypeOK
  <2>4. TypeOK'
    BY <1>1, <1>3, <2>1, <2>2, <2>3 DEF start, persist, TypeOK, snapVars, historyVars
  <2> QED
    BY <1>3, <2>3, <2>4, SameRuns DEF start, Base
<1>4. CASE catchUpMissedJobs
  <2>1. missed' \in Table
    BY <1>1, <1>4, AbsentType DEF catchUpMissedJobs, Table
  <2>2. TypeOK'
    BY <1>1, <1>4, <2>1 DEF catchUpMissedJobs, TypeOK, snapVars, boundVars, historyVars
  <2> QED
    BY <1>1, <1>4, <2>2, SameRuns DEF catchUpMissedJobs, boundVars, Base, TypeOK
<1>5. CASE CaughtUp
  <2>1. TypeOK'
    BY <1>1, <1>2, <1>5 DEF CaughtUp, armTimer, TypeOK, snapVars, boundVars, historyVars
  <2> QED
    BY <1>1, <1>5, <2>1, SameRuns DEF CaughtUp, boundVars, Base, TypeOK
<1>6. CASE onTick
  BY <1>6, TickBase
<1>7. CASE stop
  <2>1. TypeOK'
    BY <1>1, <1>7 DEF stop, TypeOK, snapVars, boundVars, historyVars
  <2> QED
    BY <1>1, <1>7, <2>1, SameRuns DEF stop, boundVars, Base, TypeOK
<1>8. CASE Exit
  <2>1. /\ phase' = "down" /\ running' = FALSE /\ timer' = FALSE
        /\ tasks' \in Table /\ missed' \in Table /\ stops' \in Nat
        /\ activeRunCount' = 0 /\ runs' = {} /\ batches' = {}
        /\ UNCHANGED <<file, past, snapVars, started, byHand, changes, faults, historyVars>>
    BY <1>1, <1>2, <1>8 DEF Exit, TypeOK
  <2>2. TypeOK'
    BY <1>1, <2>1 DEF TypeOK, snapVars, historyVars
  <2> QED
    BY <1>1, <2>1, <2>2, EmptyRuns DEF Base, TypeOK
<1>9. ASSUME NEW t \in Tasks, runNow(t)
      PROVE  Base'
  <2>1. PICK failed \in BOOLEAN : Begin(t, "hand", tasks[t], failed) /\ Faults(Cost(failed))
    BY <1>9 DEF runNow
  <2>2. /\ tasks' \in Table /\ file' \in Table /\ activeRunCount' \in Nat
        /\ runs' \subseteq Run /\ runs \subseteq runs'
        /\ started' \in [Tasks -> Nat] /\ overrides' \in [Tasks -> Nat]
        /\ faults' \in Nat
        /\ IsFiniteSet(runs)' /\ Fresh' /\ SlotsAccounted'
    BY <1>1, <2>1, BeginBase
  <2>3. TypeOK'
    BY <1>1, <1>9, <2>2 DEF runNow, TypeOK, snapVars
  <2> QED
    BY <2>2, <2>3 DEF Base
<1>10. ASSUME NEW t \in Tasks, CatchUpNext(t)
       PROVE  Base'
  <2>1. PICK failed \in BOOLEAN :
          /\ Begin(t, "catchUp", missed[t], failed) /\ Faults(Cost(failed))
          /\ phase' = IF failed THEN "up" ELSE "catching"
          /\ missed' = IF failed THEN [u \in Tasks |-> Absent] ELSE [missed EXCEPT ![t] = Absent]
          /\ shots' = [shots EXCEPT ![t] = [i \in Instants |-> @[i] +
                         IF ~failed /\ missed[t].next = i THEN 1 ELSE 0]]
          /\ stale' = [stale EXCEPT ![t] = [i \in Instants |-> @[i] +
                         Cost(~failed /\ missed[t].next = i
                                /\ ~(tasks[t].status = "enabled" /\ tasks[t].next = i))]]
    BY <1>10 DEF CatchUpNext
  <2>2. /\ tasks' \in Table /\ file' \in Table /\ activeRunCount' \in Nat
        /\ runs' \subseteq Run /\ runs \subseteq runs'
        /\ started' \in [Tasks -> Nat] /\ overrides' \in [Tasks -> Nat]
        /\ faults' \in Nat
        /\ IsFiniteSet(runs)' /\ Fresh' /\ SlotsAccounted'
    BY <1>1, <2>1, BeginBase
  <2>3. /\ shots' \in [Tasks -> [Instants -> Nat]] /\ missed' \in Table
        /\ stale' \in [Tasks -> [Instants -> Nat]]
    <3>1. \A i \in Instants :
            shots[t][i] + (IF ~failed /\ missed[t].next = i THEN 1 ELSE 0) \in Nat
      BY <1>1 DEF TypeOK
    <3>2. shots' \in [Tasks -> [Instants -> Nat]]
      BY <1>1, <2>1, <3>1 DEF TypeOK
    <3>3. missed' \in Table
      BY <1>1, <1>2, <2>1, AbsentType DEF TypeOK, Table
    <3>4. \A i \in Instants :
            stale[t][i] + Cost(~failed /\ missed[t].next = i
                                 /\ ~(tasks[t].status = "enabled" /\ tasks[t].next = i)) \in Nat
      BY <1>1 DEF TypeOK, Cost
    <3>5. stale' \in [Tasks -> [Instants -> Nat]]
      BY <1>1, <2>1, <3>4 DEF TypeOK
    <3> QED
      BY <3>2, <3>3, <3>5
  <2>4. TypeOK'
    BY <1>1, <1>10, <2>1, <2>2, <2>3 DEF CatchUpNext, TypeOK, snapVars
  <2> QED
    BY <2>2, <2>4 DEF Base
<1>11. ASSUME NEW t \in Tasks, Elapse(t)
       PROVE  Base'
  <2>1. [tasks[t] EXCEPT !.next = "due"] \in Task
    BY <1>1 DEF Task
  <2>2. tasks' \in Table
    BY <1>1, <1>11, <2>1 DEF Elapse, TypeOK, Table
  <2>3. TypeOK'
    BY <1>1, <1>11, <2>2 DEF Elapse, TypeOK, snapVars, boundVars, historyVars
  <2> QED
    <3>1. UNCHANGED <<runs, started, activeRunCount, faults>> /\ faults \in Nat
      BY <1>1, <1>11 DEF Elapse, boundVars, TypeOK
    <3>2. faults' \in Nat /\ faults' >= faults
      BY <3>1
    <3> QED
      BY <2>3, <3>1, <3>2, SameRuns DEF Base
<1>12. ASSUME NEW i \in Instants, Pass(i)
       PROVE  Base'
  <2>1. TypeOK'
    BY <1>1, <1>12 DEF Pass, TypeOK, memVars, snapVars, boundVars, historyVars
  <2>2. UNCHANGED <<runs, started, activeRunCount, faults>> /\ faults \in Nat
    BY <1>1, <1>12 DEF Pass, memVars, boundVars, TypeOK
  <2>3. faults' \in Nat /\ faults' >= faults
    BY <2>2
  <2> QED
    BY <2>1, <2>2, <2>3, SameRuns DEF Base
<1>13. ASSUME NEW t \in Tasks, remove(t)
       PROVE  Base'
  BY <1>1, <1>13, ChangedTables, ChangeBase DEF remove, Sources, TypeOK
<1>14. ASSUME NEW t \in Tasks, NEW s \in Schedules, add(t, s)
       PROVE  Base'
  BY <1>1, <1>14, ChangedTables, ChangeBase, AskType DEF add, Sources
<1>15. ASSUME NEW t \in Tasks, NEW patch \in Patch, update(t, patch)
       PROVE  Base'
  <2>1. /\ Change("update", [tasks EXCEPT ![t] = Merged(t, patch)])
        /\ asked' = asked \/ Ask(t, Merged(t, patch).next)
    BY <1>15 DEF update, Merged
  <2>2. asked' \in [Tasks -> [Instants -> Nat]]
    BY <1>1, <2>1, AskType DEF TypeOK
  <2> QED
    BY <1>1, <2>1, <2>2, MergedType, ChangeBase DEF Sources
<1>16. ASSUME NEW id \in DOMAIN held, rollback(id)
       PROVE  Base'
  BY <1>1, <1>16, ChangedTables, ChangeBase DEF rollback, Sources, TypeOK
<1>17. ASSUME NEW r \in runs, NEW ok \in BOOLEAN, Finish(r, ok)
       PROVE  Base'
  BY <1>17, FinishBase
<1>18. CASE UNCHANGED vars
  BY <1>1, <1>18 DEF vars, memVars, snapVars, boundVars, historyVars, Base, TypeOK, Fresh,
                     SlotsAccounted
<1> QED
  BY <1>3, <1>4, <1>5, <1>6, <1>7, <1>8, <1>9, <1>10, <1>11, <1>12, <1>13, <1>14, <1>15,
     <1>16, <1>17, <1>18 DEF Next

LEMMA BaseHolds == Spec => []Base
BY InitBase, NextBase, PTL DEF Spec

\* Every variable of the scheduler keeps its type.
THEOREM CronTypeCorrect == Spec => []TypeOK
<1>1. Base => TypeOK
  BY DEF Base
<1> QED
  BY <1>1, BaseHolds, PTL

\* Slots and runs agree but for saves that failed at the start of a run.
THEOREM SlotsAreAccounted == Spec => []SlotsAccounted
<1>1. Base => SlotsAccounted
  BY DEF Base
<1> QED
  BY <1>1, BaseHolds, PTL

-----------------------------------------------------------------------------
(* The limit on runs of the timer *)

\* A step that adds a run of the timer leaves the count within the limit.
LEMMA TimedStep ==
    ASSUME Base, [Next]_vars
    PROVE  Timed' \subseteq Timed \/ activeRunCount' <= MaxConcurrentRuns
<1>1. CASE onTick
  <2>1. PICK batch \in SUBSET Tasks : \E failed \in SUBSET batch :
          /\ Cardinality(batch) <= Slots /\ Cardinality(batch) \in Nat
          /\ activeRunCount' = activeRunCount + Cardinality(batch)
          /\ runs' = runs \cup NewRuns(batch \ failed)
    BY <1>1, TickFacts
  <2>2. PICK failed \in SUBSET batch : runs' = runs \cup NewRuns(batch \ failed)
    BY <2>1
  <2>3. CASE batch = {}
    <3>1. NewRuns(batch \ failed) = {}
      BY <2>3 DEF NewRuns
    <3> QED
      BY <2>2, <3>1 DEF Timed
  <2>4. CASE batch # {}
    <3>1. Cardinality(batch) # 0
      <4>1. IsFiniteSet(batch)
        BY CronAssumption, FS_Subset
      <4> QED
        BY <2>4, <4>1, FS_EmptySet
    <3>2. activeRunCount \in Nat /\ MaxConcurrentRuns \in Nat
      BY CronAssumption DEF Base, TypeOK
    <3> QED
      BY <2>1, <3>1, <3>2 DEF Slots
  <2> QED
    BY <2>3, <2>4
<1>2. ASSUME NEW t \in Tasks, CatchUpNext(t)
      PROVE  activeRunCount' <= MaxConcurrentRuns
  BY <1>2, CronAssumption DEF CatchUpNext, Begin, Base, TypeOK
<1>3. ASSUME NEW t \in Tasks, runNow(t)
      PROVE  Timed' \subseteq Timed
  BY <1>3 DEF runNow, Begin, Timed
<1>4. ASSUME NEW r \in runs, NEW ok \in BOOLEAN, Finish(r, ok)
      PROVE  Timed' \subseteq Timed
  BY <1>4 DEF Finish, Timed
<1>5. CASE Exit
  BY <1>5 DEF Exit, Timed
<1>6. CASE UNCHANGED runs
  BY <1>6 DEF Timed
<1>7. \/ onTick \/ Exit \/ UNCHANGED runs
      \/ \E t \in Tasks : CatchUpNext(t) \/ runNow(t)
      \/ \E r \in runs, ok \in BOOLEAN : Finish(r, ok)
  BY DEF Next, vars, memVars, start, catchUpMissedJobs, CaughtUp, stop, Elapse, Pass, remove,
         add, update, rollback, Change
<1> QED
  BY <1>1, <1>2, <1>3, <1>4, <1>5, <1>6, <1>7

LimitInv == Base /\ TimerWithinLimit

LEMMA NextLimit ==
    ASSUME LimitInv, [Next]_vars
    PROVE  LimitInv'
<1>1. Base /\ Base'
  BY NextBase DEF LimitInv
<1>2. /\ IsFiniteSet(runs) /\ IsFiniteSet(runs')
      /\ Cardinality(runs') \in Nat /\ activeRunCount' \in Nat
      /\ Cardinality(runs') <= activeRunCount'
  BY <1>1, FS_CardinalityType DEF Base, SlotsAccounted, TypeOK
<1>3. /\ IsFiniteSet(Timed) /\ Cardinality(Timed) \in Nat
      /\ IsFiniteSet(Timed') /\ Cardinality(Timed') \in Nat
      /\ Cardinality(Timed') <= Cardinality(runs')
  <2>1. Timed \in SUBSET runs /\ Timed' \in SUBSET runs'
    BY DEF Timed
  <2> QED
    BY <1>2, <2>1, FS_Subset, FS_CardinalityType
<1>4. CASE Timed' \subseteq Timed
  <2>1. Cardinality(Timed') <= Cardinality(Timed)
    BY <1>3, <1>4, FS_Subset
  <2> QED
    BY <1>1, <1>3, <2>1, CronAssumption DEF LimitInv, TimerWithinLimit
<1>5. CASE activeRunCount' <= MaxConcurrentRuns
  BY <1>1, <1>2, <1>3, <1>5, CronAssumption DEF LimitInv, TimerWithinLimit
<1> QED
  BY <1>1, <1>4, <1>5, TimedStep

\* However ticks, the catch-up and runs by hand interleave, the timer and the
\* catch-up have no more runs than maxConcurrentRuns.
THEOREM TimerIsWithinLimit == Spec => []TimerWithinLimit
<1>1. Init => LimitInv
  <2>1. Init => Timed = {} /\ Cardinality({}) = 0
    BY FS_EmptySet DEF Init, Timed
  <2> QED
    BY <2>1, InitBase, CronAssumption DEF LimitInv, TimerWithinLimit
<1>2. LimitInv => TimerWithinLimit
  BY DEF LimitInv
<1> QED
  BY <1>1, <1>2, NextLimit, PTL DEF Spec

-----------------------------------------------------------------------------
(* One run of a task at a time *)

\* A task that is not marked running has fewer runs than one that is.
Room(t) == overrides[t] + (IF tasks[t].status = "running" THEN 1 ELSE 0)

OverlapInv ==
    /\ Base
    /\ phase = "down" => runs = {}
    /\ \A t \in Tasks : Cardinality(Live(t)) <= Room(t)

\* Runs of one task are counted by those of all.
LEMMA LiveCount ==
    ASSUME Base, NEW t \in Tasks
    PROVE  IsFiniteSet(Live(t)) /\ Cardinality(Live(t)) \in Nat
<1>1. Live(t) \in SUBSET runs
  BY DEF Live
<1> QED
  BY <1>1, FS_Subset, FS_CardinalityType DEF Base

LEMMA RoomType ==
    ASSUME TypeOK, NEW t \in Tasks
    PROVE  Room(t) \in Nat /\ overrides[t] \in Nat /\ Room(t) <= overrides[t] + 1
BY DEF TypeOK, Room

\* What the room of a task is, before and after a step.
LEMMA RoomNat ==
    ASSUME Base, Base', NEW t \in Tasks
    PROVE  Room(t) \in Nat /\ Room(t)' \in Nat
<1>1. overrides[t] \in Nat /\ overrides'[t] \in Nat
  BY DEF Base, TypeOK
<1> QED
  BY <1>1 DEF Room

\* A task that gets no run keeps its bound if its room does not shrink.
LEMMA SameLive ==
    ASSUME OverlapInv, Base', NEW t \in Tasks, Live(t)' \subseteq Live(t), Room(t)' >= Room(t)
    PROVE  Cardinality(Live(t)') <= Room(t)'
<1>1. Cardinality(Live(t)') <= Cardinality(Live(t))
  BY LiveCount, FS_Subset DEF OverlapInv
<1>2. Cardinality(Live(t)) \in Nat /\ Cardinality(Live(t)') \in Nat
  <2>1. Cardinality(Live(t)) \in Nat
    BY LiveCount DEF OverlapInv
  <2>2. IsFiniteSet(runs') /\ Live(t)' \in SUBSET runs'
    BY DEF Base, Live
  <2> QED
    BY <2>1, <2>2, FS_Subset, FS_CardinalityType
<1>3. Room(t) \in Nat /\ Room(t)' \in Nat
  BY RoomNat DEF OverlapInv
<1> QED
  BY <1>1, <1>2, <1>3 DEF OverlapInv

\* A run that begins takes the room that it makes.
LEMMA OneMoreLive ==
    ASSUME OverlapInv, NEW t \in Tasks, NEW x, Live(t)' \subseteq Live(t) \cup {x},
           Room(t)' >= Room(t) + 1, Base'
    PROVE  Cardinality(Live(t)') <= Room(t)'
<1>1. IsFiniteSet(Live(t)) /\ Cardinality(Live(t)) \in Nat
  BY LiveCount DEF OverlapInv
<1>2. IsFiniteSet(Live(t) \cup {x}) /\ Cardinality(Live(t) \cup {x}) <= Cardinality(Live(t)) + 1
      /\ Cardinality(Live(t) \cup {x}) \in Nat
  <2>1. /\ IsFiniteSet(Live(t) \cup {x})
        /\ Cardinality(Live(t) \cup {x}) = IF x \in Live(t) THEN Cardinality(Live(t))
                                           ELSE Cardinality(Live(t)) + 1
    BY <1>1, FS_AddElement
  <2> QED
    BY <1>1, <2>1
<1>3. Cardinality(Live(t)') <= Cardinality(Live(t) \cup {x}) /\ Cardinality(Live(t)') \in Nat
  BY <1>2, FS_Subset, FS_CardinalityType
<1>4. Room(t) \in Nat /\ Room(t)' \in Nat
  BY RoomNat DEF OverlapInv
<1> QED
  BY <1>1, <1>2, <1>3, <1>4 DEF OverlapInv

LEMMA BeginOverlap ==
    ASSUME OverlapInv, Base', NEW t \in Tasks, NEW by, NEW got, NEW failed \in BOOLEAN,
           Begin(t, by, got, failed)
    PROVE  \A u \in Tasks : Cardinality(Live(u)') <= Room(u)'
<1> DEFINE new == [task |-> t, n |-> started[t] + 1, by |-> by, got |-> got]
<1>1. /\ tasks' = [tasks EXCEPT ![t].status = IF @ = "absent" THEN @ ELSE "running"]
      /\ runs' \subseteq runs \cup {new}
      /\ overrides' = [overrides EXCEPT ![t] = @ + Cost(tasks[t].status \in {"running", "absent"})]
  BY DEF Begin
<1>2. /\ tasks \in Table /\ overrides \in [Tasks -> Nat]
  BY DEF OverlapInv, Base, TypeOK
<1>3. ASSUME NEW u \in Tasks, u # t
      PROVE  Live(u)' \subseteq Live(u) /\ Room(u)' = Room(u)
  <2>1. new.task = t
    OBVIOUS
  <2>2. tasks'[u] = tasks[u] /\ overrides'[u] = overrides[u]
    BY <1>1, <1>2, <1>3 DEF Table
  <2> HIDE DEF new
  <2> QED
    BY <1>1, <1>3, <2>1, <2>2 DEF Live, Room
<1>4. Live(t)' \subseteq Live(t) \cup {new}
  BY <1>1 DEF Live
<1>5. Room(t)' >= Room(t) + 1
  <2>1. tasks[t] \in Task /\ tasks'[t] = [tasks[t] EXCEPT !.status =
                                            IF @ = "absent" THEN @ ELSE "running"]
    BY <1>1, <1>2 DEF Table
  <2>2. tasks'[t].status = IF tasks[t].status = "absent" THEN "absent" ELSE "running"
    BY <2>1 DEF Task
  <2>3. overrides[t] \in Nat
        /\ overrides'[t] = overrides[t] + Cost(tasks[t].status \in {"running", "absent"})
    BY <1>1, <1>2
  <2> QED
    BY <2>2, <2>3 DEF Room, Cost
<1> HIDE DEF new
<1>6. Cardinality(Live(t)') <= Room(t)'
  BY <1>4, <1>5, OneMoreLive
<1>7. ASSUME NEW u \in Tasks, u # t
      PROVE  Cardinality(Live(u)') <= Room(u)'
  <2>1. Room(u) \in Nat
    BY RoomType DEF OverlapInv, Base
  <2> QED
    BY <1>3, <1>7, <2>1, SameLive
<1> QED
  BY <1>6, <1>7

LEMMA TickOverlap ==
    ASSUME OverlapInv, Base', onTick
    PROVE  \A u \in Tasks : Cardinality(Live(u)') <= Room(u)'
<1>1. PICK batch \in SUBSET Tasks : \E failed \in SUBSET batch :
        /\ \A t \in batch : Due(tasks[t])
        /\ tasks' = [t \in Tasks |-> IF t \in batch THEN [tasks[t] EXCEPT !.status = "running"]
                                     ELSE tasks[t]]
        /\ runs' = runs \cup NewRuns(batch \ failed)
        /\ UNCHANGED overrides
  BY TickFacts DEF OverlapInv
<1>2. PICK failed \in SUBSET batch : runs' = runs \cup NewRuns(batch \ failed)
  BY <1>1
<1>3. tasks \in Table /\ overrides \in [Tasks -> Nat]
  BY DEF OverlapInv, Base, TypeOK
<1> SUFFICES ASSUME NEW u \in Tasks
             PROVE  Cardinality(Live(u)') <= Room(u)'
  OBVIOUS
<1>4. Room(u) \in Nat
  BY RoomType DEF OverlapInv, Base
<1>5. CASE u \notin batch
  <2>1. Live(u)' \subseteq Live(u)
    BY <1>2, <1>5 DEF Live, NewRuns
  <2>2. Room(u)' = Room(u)
    BY <1>1, <1>5 DEF Room
  <2> QED
    BY <1>4, <2>1, <2>2, SameLive
<1>6. CASE u \in batch
  <2> DEFINE new == [task |-> u, n |-> started[u] + 1, by |-> "tick", got |-> tasks[u]]
  <2>1. Live(u)' \subseteq Live(u) \cup {new}
    BY <1>2 DEF Live, NewRuns
  <2>2. Room(u)' = Room(u) + 1
    <3>1. tasks[u].status = "enabled"
      BY <1>1, <1>6 DEF Due
    <3>2. tasks'[u].status = "running"
      BY <1>1, <1>3, <1>6 DEF Table, Task
    <3> QED
      BY <1>1, <1>3, <3>1, <3>2 DEF Room
  <2> HIDE DEF new
  <2> QED
    BY <1>4, <2>1, <2>2, OneMoreLive
<1> QED
  BY <1>5, <1>6

LEMMA FinishOverlap ==
    ASSUME OverlapInv, Base', NEW r \in runs, NEW ok \in BOOLEAN, Finish(r, ok)
    PROVE  \A u \in Tasks : Cardinality(Live(u)') <= Room(u)'
<1>1. /\ runs' = runs \ {r} /\ tasks' = Patched(tasks, r.task, Result(r, ok))
      /\ UNCHANGED overrides
  BY DEF Finish
<1>2. /\ tasks \in Table /\ overrides \in [Tasks -> Nat] /\ r \in Run /\ r.task \in Tasks
      /\ past \subseteq Instants
  BY DEF OverlapInv, Base, TypeOK, Run
<1> SUFFICES ASSUME NEW u \in Tasks
             PROVE  Cardinality(Live(u)') <= Room(u)'
  OBVIOUS
<1>3. Room(u) \in Nat
  BY RoomType DEF OverlapInv, Base
<1>4. CASE u # r.task
  <2>1. Live(u)' \subseteq Live(u)
    BY <1>1 DEF Live
  <2>2. Room(u)' = Room(u)
    BY <1>1, <1>2, <1>4 DEF Room, Patched, Table
  <2> QED
    BY <1>3, <2>1, <2>2, SameLive
<1>5. CASE u = r.task
  <2>1. IsFiniteSet(Live(u)) /\ Cardinality(Live(u)) \in Nat /\ r \in Live(u)
    BY <1>5, LiveCount DEF OverlapInv, Live
  <2>2. Cardinality(Live(u)') = Cardinality(Live(u)) - 1
    <3>1. Live(u)' = Live(u) \ {r}
      BY <1>1 DEF Live
    <3> QED
      BY <2>1, <3>1, FS_RemoveElement
  <2>3. Room(u)' >= Room(u) - 1
    BY <1>1, <1>2 DEF Room
  <2>4. Room(u)' \in Nat
    BY DEF Base, TypeOK, Room
  <2> QED
    BY <1>3, <2>1, <2>2, <2>3, <2>4 DEF OverlapInv
<1> QED
  BY <1>4, <1>5

LEMMA ChangeOverlap ==
    ASSUME OverlapInv, NEW source \in Sources, NEW ts \in Table, Change(source, ts),
           asked' \in [Tasks -> [Instants -> Nat]]
    PROVE  /\ phase' = phase /\ runs' = runs
           /\ \A u \in Tasks : Cardinality(Live(u)') <= Room(u)'
<1>1. /\ Base' /\ tasks' = ts
      /\ overrides' = [t \in Tasks |-> overrides[t] +
                         Cost(tasks[t].status = "running" /\ ts[t].status # "running")]
      /\ UNCHANGED <<phase, runs>>
  BY ChangeBase DEF OverlapInv
<1> SUFFICES ASSUME NEW u \in Tasks
             PROVE  Cardinality(Live(u)') <= Room(u)'
  BY <1>1
<1>2. Live(u)' = Live(u)
  BY <1>1 DEF Live
<1>3. Room(u)' >= Room(u)
  <2>1. overrides[u] \in Nat
    BY DEF OverlapInv, Base, TypeOK
  <2> QED
    BY <1>1, <2>1 DEF Room, Cost
<1> QED
  BY <1>1, <1>2, <1>3, SameLive

LEMMA NextOverlap ==
    ASSUME OverlapInv, [Next]_vars
    PROVE  OverlapInv'
<1>1. Base /\ Base' /\ TypeOK
  BY NextBase DEF OverlapInv, Base
<1> DEFINE Bounded == \A u \in Tasks : Cardinality(Live(u)') <= Room(u)'
<1>2. ASSUME UNCHANGED runs, \A u \in Tasks : Room(u)' >= Room(u)
      PROVE  Bounded
  <2>1. \A u \in Tasks : Live(u)' = Live(u)
    BY <1>2 DEF Live
  <2> QED
    BY <1>1, <1>2, <2>1, SameLive
<1>3. \A u \in Tasks : Room(u) \in Nat
  BY <1>1, RoomType
<1>4. CASE start
  <2>1. runs = {} /\ runs' = {}
    BY <1>4 DEF start, OverlapInv
  <2>2. \A u \in Tasks : Live(u)' = {}
    BY <2>1 DEF Live
  <2>3. Cardinality({}) = 0 /\ \A u \in Tasks : Room(u)' \in Nat
    BY <1>1, FS_EmptySet DEF Base, TypeOK, Room
  <2>4. Bounded
    BY <2>2, <2>3
  <2> QED
    BY <1>1, <2>1, <2>4 DEF OverlapInv
<1>5. CASE catchUpMissedJobs \/ CaughtUp \/ stop
  <2>1. UNCHANGED <<runs, tasks, overrides>> /\ phase' # "down"
    BY <1>5 DEF catchUpMissedJobs, CaughtUp, stop, historyVars, Serving
  <2>2. \A u \in Tasks : Room(u)' = Room(u)
    BY <2>1 DEF Room
  <2> QED
    BY <1>1, <1>2, <1>3, <2>1, <2>2 DEF OverlapInv
<1>6. CASE onTick
  <2>1. phase' # "down"
    BY <1>6 DEF onTick, Serving
  <2> QED
    BY <1>1, <1>6, <2>1, TickOverlap DEF OverlapInv
<1>7. CASE Exit
  <2>1. runs' = {}
    BY <1>7 DEF Exit
  <2>2. \A u \in Tasks : Live(u)' = {}
    BY <2>1 DEF Live
  <2>3. Cardinality({}) = 0 /\ \A u \in Tasks : Room(u)' \in Nat
    BY <1>1, FS_EmptySet DEF Base, TypeOK, Room
  <2>4. Bounded
    BY <2>2, <2>3
  <2> QED
    BY <1>1, <2>1, <2>4 DEF OverlapInv
<1>8. ASSUME NEW t \in Tasks, runNow(t)
      PROVE  OverlapInv'
  <2>1. phase' # "down"
    BY <1>8 DEF runNow, Serving
  <2>2. Bounded
    BY <1>1, <1>8, BeginOverlap DEF runNow
  <2> QED
    BY <1>1, <2>1, <2>2 DEF OverlapInv
<1>9. ASSUME NEW t \in Tasks, CatchUpNext(t)
      PROVE  OverlapInv'
  <2>1. phase' # "down"
    BY <1>9 DEF CatchUpNext
  <2>2. Bounded
    BY <1>1, <1>9, BeginOverlap DEF CatchUpNext
  <2> QED
    BY <1>1, <2>1, <2>2 DEF OverlapInv
<1>10. ASSUME NEW t \in Tasks, Elapse(t)
       PROVE  OverlapInv'
  <2>1. UNCHANGED <<phase, runs, overrides>>
    BY <1>10 DEF Elapse, historyVars
  <2>2. \A u \in Tasks : tasks'[u].status = tasks[u].status
    BY <1>1, <1>10 DEF Elapse, TypeOK, Table, Task
  <2>3. \A u \in Tasks : Room(u)' = Room(u)
    BY <2>1, <2>2 DEF Room
  <2> QED
    BY <1>1, <1>2, <1>3, <2>1, <2>3 DEF OverlapInv
<1>11. ASSUME NEW i \in Instants, Pass(i)
       PROVE  OverlapInv'
  <2>1. UNCHANGED <<phase, runs, tasks, overrides>>
    BY <1>11 DEF Pass, memVars, historyVars
  <2>2. \A u \in Tasks : Room(u)' = Room(u)
    BY <2>1 DEF Room
  <2> QED
    BY <1>1, <1>2, <1>3, <2>1, <2>2 DEF OverlapInv
<1>12. ASSUME NEW t \in Tasks, remove(t)
       PROVE  OverlapInv'
  <2>1. Change("remove", [tasks EXCEPT ![t] = Absent]) /\ UNCHANGED asked
    BY <1>12 DEF remove
  <2>2. phase' = phase /\ runs' = runs /\ Bounded
    BY <1>1, <2>1, ChangedTables, ChangeOverlap DEF Sources, TypeOK
  <2> QED
    BY <1>1, <2>2 DEF OverlapInv
<1>13. ASSUME NEW t \in Tasks, NEW s \in Schedules, add(t, s)
       PROVE  OverlapInv'
  <2>1. Change("add", [tasks EXCEPT ![t] = New(s)]) /\ Ask(t, s)
    BY <1>13 DEF add
  <2>2. phase' = phase /\ runs' = runs /\ Bounded
    BY <1>1, <2>1, ChangedTables, ChangeOverlap, AskType DEF Sources
  <2> QED
    BY <1>1, <2>2 DEF OverlapInv
<1>14. ASSUME NEW t \in Tasks, NEW patch \in Patch, update(t, patch)
       PROVE  OverlapInv'
  <2>1. /\ Change("update", [tasks EXCEPT ![t] = Merged(t, patch)])
        /\ asked' = asked \/ Ask(t, Merged(t, patch).next)
    BY <1>14 DEF update, Merged
  <2>2. asked' \in [Tasks -> [Instants -> Nat]]
    BY <1>1, <2>1, AskType DEF TypeOK
  <2>3. phase' = phase /\ runs' = runs /\ Bounded
    BY <1>1, <2>1, <2>2, MergedType, ChangeOverlap DEF Sources
  <2> QED
    BY <1>1, <2>3 DEF OverlapInv
<1>15. ASSUME NEW id \in DOMAIN held, rollback(id)
       PROVE  OverlapInv'
  <2>1. Change("rollback", recomputeAllNextRuns(held[id])) /\ UNCHANGED asked
    BY <1>15 DEF rollback
  <2>2. phase' = phase /\ runs' = runs /\ Bounded
    BY <1>1, <2>1, ChangedTables, ChangeOverlap DEF Sources, TypeOK
  <2> QED
    BY <1>1, <2>2 DEF OverlapInv
<1>16. ASSUME NEW r \in runs, NEW ok \in BOOLEAN, Finish(r, ok)
       PROVE  OverlapInv'
  <2>1. phase' # "down"
    BY <1>16 DEF Finish, Serving
  <2> QED
    BY <1>1, <1>16, <2>1, FinishOverlap DEF OverlapInv
<1>17. CASE UNCHANGED vars
  <2>1. UNCHANGED <<phase, runs, tasks, overrides>>
    BY <1>17 DEF vars, memVars, historyVars
  <2>2. \A u \in Tasks : Room(u)' = Room(u)
    BY <2>1 DEF Room
  <2> QED
    BY <1>1, <1>2, <1>3, <2>1, <2>2 DEF OverlapInv
<1> HIDE DEF Bounded
<1> QED
  BY <1>4, <1>5, <1>6, <1>7, <1>8, <1>9, <1>10, <1>11, <1>12, <1>13, <1>14, <1>15,
     <1>16, <1>17 DEF Next

\* Runs of one task overlap only where an operator or the catch-up overrode its
\* running mark.
THEOREM RunsDoNotOverlap == Spec => []OneRunUnlessOverridden
<1>1. Init => OverlapInv
  <2> SUFFICES ASSUME Init PROVE OverlapInv
    OBVIOUS
  <2>1. runs = {} /\ Cardinality({}) = 0 /\ Base
    BY InitBase, FS_EmptySet DEF Init
  <2>2. \A t \in Tasks : Live(t) = {} /\ Room(t) \in Nat
    BY <2>1, RoomType DEF Live, Base
  <2> QED
    BY <2>1, <2>2 DEF OverlapInv
<1>2. OverlapInv => OneRunUnlessOverridden
  <2> SUFFICES ASSUME OverlapInv, NEW t \in Tasks
               PROVE  Cardinality(Live(t)) <= overrides[t] + 1
    BY DEF OneRunUnlessOverridden
  <2>1. /\ Cardinality(Live(t)) \in Nat /\ Room(t) \in Nat /\ overrides[t] \in Nat
        /\ Room(t) <= overrides[t] + 1 /\ Cardinality(Live(t)) <= Room(t)
    BY LiveCount, RoomType DEF OverlapInv, Base
  <2> QED
    BY <2>1
<1> QED
  BY <1>1, <1>2, NextOverlap, PTL DEF Spec

-----------------------------------------------------------------------------
(* A task is given up after as many failures as there are backoff steps *)

\* What a task says of its failures, if it has had n.
Charged(task, n) == task.errors <= n /\ (task.status = "error" => BackoffSteps <= n)

Sound(ts) == \A t \in Tasks : Charged(ts[t], failures[t])

\* Whatever copy of a task may come back into the table is sound.
FailInv ==
    /\ Base
    /\ Sound(tasks) /\ Sound(file) /\ Sound(missed)
    /\ \A id \in DOMAIN held : Sound(held[id])
    /\ \A r \in runs : r.got.errors <= failures[r.task]

LEMMA AbsentSound == TypeOK => Sound([t \in Tasks |-> Absent])
BY DEF TypeOK, Sound, Charged, Absent

\* A table whose tasks say no more than those of a sound one.
LEMMA NoMoreSound ==
    ASSUME NEW ts, NEW us, Sound(ts),
           \A t \in Tasks : /\ us[t].errors = ts[t].errors
                            /\ us[t].status = "error" => ts[t].status = "error"
    PROVE  Sound(us)
BY DEF Sound, Charged

LEMMA RecomputeSound ==
    ASSUME NEW ts \in Table, Sound(ts)
    PROVE  Sound(recomputeAllNextRuns(ts)) /\ Sound(ResetMarks(ts))
<1>1. \A t \in Tasks : ts[t] \in Task
  BY DEF Table
<1>2. \A t \in Tasks : /\ recomputeAllNextRuns(ts)[t].errors = ts[t].errors
                       /\ recomputeAllNextRuns(ts)[t].status = ts[t].status
  BY <1>1 DEF recomputeAllNextRuns, Task
<1>3. \A t \in Tasks : /\ ResetMarks(ts)[t].errors = ts[t].errors
                       /\ ResetMarks(ts)[t].status \in {ts[t].status, "enabled"}
  BY <1>1 DEF ResetMarks, Task
<1> QED
  BY <1>2, <1>3, NoMoreSound

LEMMA BeginSound ==
    ASSUME FailInv, NEW t \in Tasks, NEW by, NEW got, NEW failed \in BOOLEAN,
           Begin(t, by, got, failed), got.errors <= failures[t], UNCHANGED failures
    PROVE  /\ Sound(tasks)' /\ Sound(file)'
           /\ \A r \in runs' : r.got.errors <= failures'[r.task]
<1> DEFINE new == [task |-> t, n |-> started[t] + 1, by |-> by, got |-> got]
<1>1. /\ tasks' = [tasks EXCEPT ![t].status = IF @ = "absent" THEN @ ELSE "running"]
      /\ file' = file \/ file' = tasks'
      /\ runs' \subseteq runs \cup {new}
  BY DEF Begin, persist
<1>2. tasks \in Table /\ \A u \in Tasks : tasks[u] \in Task
  BY DEF FailInv, Base, TypeOK, Table
<1>3. \A u \in Tasks : /\ tasks'[u].errors = tasks[u].errors
                       /\ tasks'[u].status \in {tasks[u].status, "running"}
  BY <1>1, <1>2 DEF Table, Task
<1>4. Sound(tasks') /\ Sound(file)
  BY <1>3, NoMoreSound DEF FailInv
<1>5. Sound(tasks)'
  BY <1>4 DEF Sound
<1>6. Sound(file)'
  BY <1>1, <1>4 DEF Sound
<1>7. \A r \in runs' : r.got.errors <= failures[r.task]
  BY <1>1 DEF FailInv
<1> QED
  BY <1>5, <1>6, <1>7

LEMMA TickSound ==
    ASSUME FailInv, Base', onTick
    PROVE  FailInv'
<1>1. PICK batch \in SUBSET Tasks : \E failed \in SUBSET batch :
        /\ tasks' = [t \in Tasks |-> IF t \in batch THEN [tasks[t] EXCEPT !.status = "running"]
                                     ELSE tasks[t]]
        /\ \/ file' = file
           \/ \E unsaved \in SUBSET failed :
                 file' = [t \in Tasks |-> IF t \in unsaved THEN tasks[t] ELSE tasks'[t]]
        /\ runs' = runs \cup NewRuns(batch \ failed)
        /\ UNCHANGED <<missed, snapVars, failures>>
  BY TickFacts DEF FailInv
<1>2. PICK failed \in SUBSET batch :
        /\ \/ file' = file
           \/ \E unsaved \in SUBSET failed :
                 file' = [t \in Tasks |-> IF t \in unsaved THEN tasks[t] ELSE tasks'[t]]
        /\ runs' = runs \cup NewRuns(batch \ failed)
  BY <1>1
<1>3. \A t \in Tasks : tasks[t] \in Task
  BY DEF FailInv, Base, TypeOK, Table
<1>4. \A t \in Tasks : /\ tasks'[t].errors = tasks[t].errors
                       /\ tasks'[t].status \in {tasks[t].status, "running"}
  BY <1>1, <1>3 DEF Task
<1>5. Sound(tasks')
  BY <1>4, NoMoreSound DEF FailInv
<1>6. Sound(file')
  <2>1. CASE file' = file
    BY <2>1 DEF FailInv, Sound
  <2>2. CASE file' # file
    <3>1. PICK unsaved \in SUBSET failed :
            file' = [t \in Tasks |-> IF t \in unsaved THEN tasks[t] ELSE tasks'[t]]
      BY <1>2, <2>2
    <3>2. \A t \in Tasks : /\ file'[t].errors = tasks[t].errors
                           /\ file'[t].status \in {tasks[t].status, "running"}
      BY <1>4, <3>1
    <3> QED
      BY <3>2, NoMoreSound DEF FailInv
  <2> QED
    BY <2>1, <2>2
<1>7. \A r \in runs' : r.got.errors <= failures[r.task]
  <2>1. \A r \in NewRuns(batch \ failed) : r.got.errors <= failures[r.task]
    BY DEF NewRuns, FailInv, Sound, Charged
  <2> QED
    BY <1>2, <2>1 DEF FailInv
<1> QED
  BY <1>1, <1>5, <1>6, <1>7 DEF FailInv, Sound, snapVars

\* The end of a failed run charges its task with one more than the run found,
\* and so does the history with one more than there were.
LEMMA FinishSound ==
    ASSUME FailInv, Base', NEW r \in runs, NEW ok \in BOOLEAN, Finish(r, ok)
    PROVE  FailInv'
<1> DEFINE ts == Patched(tasks, r.task, Result(r, ok))
<1>1. /\ tasks \in Table /\ failures \in [Tasks -> Nat] /\ runs \subseteq Run
      /\ r \in Run /\ r.task \in Tasks /\ r.got.errors \in Nat /\ past \subseteq Instants
  BY DEF FailInv, Base, TypeOK, Run, Task
<1>2. /\ tasks' = ts /\ runs' = runs \ {r}
      /\ failures' = [failures EXCEPT ![r.task] = @ + IF ok THEN 0 ELSE 1]
      /\ UNCHANGED <<held>>
      /\ file' = file \/ file' = ts
      /\ missed' = missed \/ missed' = [t \in Tasks |-> Absent]
  BY DEF Finish, persist, snapVars
<1>3. \A t \in Tasks : /\ failures[t] \in Nat /\ failures'[t] \in Nat
                       /\ failures[t] <= failures'[t]
  BY <1>1, <1>2
<1>4. ASSUME NEW us \in Table, Sound(us)
      PROVE  \A t \in Tasks : Charged(us[t], failures'[t])
  <2>1. \A t \in Tasks : us[t].errors \in Nat /\ Charged(us[t], failures[t])
    BY <1>4 DEF Table, Task, Sound
  <2> QED
    BY <1>3, <2>1, CronAssumption DEF Charged
<1>5. \A t \in Tasks : Charged(ts[t], failures'[t])
  <2>1. \A t \in Tasks : Charged(tasks[t], failures'[t])
    BY <1>1, <1>4 DEF FailInv
  <2>2. CASE tasks[r.task].status = "absent"
    BY <2>1, <2>2 DEF Patched
  <2>3. CASE tasks[r.task].status # "absent"
    <3> DEFINE p == Result(r, ok)
               patch == [status |-> p.status, schedule |-> tasks[r.task].schedule,
                         next |-> p.next, errors |-> p.errors]
    <3>1. ts = [tasks EXCEPT ![r.task] = patch]
      BY <2>3 DEF Patched
    <3>2. /\ p.errors = IF ok THEN 0 ELSE r.got.errors + 1
          /\ p.errors \in Nat /\ (p.status = "error" => p.errors >= BackoffSteps)
      BY <1>1, ResultType
    <3>3. r.got.errors <= failures[r.task]
      BY DEF FailInv
    <3>4. failures'[r.task] = failures[r.task] + IF ok THEN 0 ELSE 1
      BY <1>1, <1>2
    <3>5. failures[r.task] \in Nat /\ BackoffSteps \in Nat
      BY <1>1, CronAssumption
    <3>6. patch.errors = p.errors /\ patch.status = p.status
      OBVIOUS
    <3> HIDE DEF p
    <3>7. Charged(patch, failures'[r.task])
      BY <1>1, <3>2, <3>3, <3>4, <3>5, <3>6 DEF Charged
    <3> HIDE DEF patch, ts
    <3> QED
      BY <1>1, <2>1, <3>1, <3>7 DEF Table
  <2> QED
    BY <2>2, <2>3
<1>6. Sound(tasks)'
  BY <1>2, <1>5 DEF Sound
<1>7. Sound(file)'
  <2>1. \A t \in Tasks : Charged(file[t], failures'[t])
    BY <1>4 DEF FailInv, Base, TypeOK
  <2> QED
    BY <1>2, <1>5, <2>1 DEF Sound
<1>8. Sound(missed)'
  <2>1. \A t \in Tasks : Charged(missed[t], failures'[t])
    BY <1>4 DEF FailInv, Base, TypeOK
  <2>2. \A t \in Tasks : Charged(Absent, failures'[t])
    BY <1>3 DEF Charged, Absent
  <2> QED
    BY <1>2, <2>1, <2>2 DEF Sound
<1>9. \A id \in DOMAIN held' : Sound(held[id])'
  <2>1. \A id \in DOMAIN held : \A t \in Tasks : Charged(held[id][t], failures'[t])
    BY <1>4 DEF FailInv, Base, TypeOK
  <2> QED
    BY <1>2, <2>1 DEF Sound
<1>10. \A u \in runs' : u.got.errors <= failures'[u.task]
  <2>1. \A u \in runs : /\ u.task \in Tasks /\ u.got.errors \in Nat
                        /\ u.got.errors <= failures[u.task]
    BY <1>1 DEF FailInv, Run, Task
  <2> QED
    BY <1>2, <1>3, <2>1
<1> QED
  BY <1>6, <1>7, <1>8, <1>9, <1>10 DEF FailInv

\* A change of the table to a sound one; the snapshot of it holds the old one.
LEMMA ChangeSound ==
    ASSUME FailInv, NEW source \in Sources, NEW ts \in Table, Sound(ts), Change(source, ts),
           asked' \in [Tasks -> [Instants -> Nat]]
    PROVE  FailInv'
<1>1. /\ Base'
      /\ tasks' = ts /\ (file' = file \/ file' = ts)
      /\ \A s \in DOMAIN held' : held'[s] = tasks \/ (s \in DOMAIN held /\ held'[s] = held[s])
      /\ UNCHANGED <<runs, missed, failures>>
  BY ChangeBase DEF FailInv
<1>2. \A us : Sound(us) <=> \A t \in Tasks : Charged(us[t], failures'[t])
  BY <1>1 DEF Sound
<1>3. Sound(tasks)' /\ Sound(file)' /\ Sound(missed)'
  BY <1>1 DEF FailInv, Sound
<1>4. \A id \in DOMAIN held' : Sound(held[id])'
  <2>1. \A id \in DOMAIN held' : Sound(held'[id])
    BY <1>1 DEF FailInv
  <2> QED
    BY <1>2, <2>1 DEF Sound
<1> QED
  BY <1>1, <1>3, <1>4 DEF FailInv

LEMMA NextSound ==
    ASSUME FailInv, [Next]_vars
    PROVE  FailInv'
<1>1. Base /\ Base' /\ TypeOK
  BY NextBase DEF FailInv, Base
<1>2. /\ tasks \in Table /\ file \in Table /\ missed \in Table
      /\ \A t \in Tasks : tasks[t] \in Task /\ missed[t] \in Task
      /\ \A id \in DOMAIN held : held[id] \in Table
  BY <1>1 DEF TypeOK, Table
<1>3. \A t \in Tasks : Charged(Absent, failures[t])
  BY <1>1, AbsentSound DEF Sound
<1>4. CASE start
  <2>1. Sound(recomputeAllNextRuns(ResetMarks(file)))
    BY <1>2, ResetType, RecomputeSound DEF FailInv
  <2>2. /\ tasks' = recomputeAllNextRuns(ResetMarks(file))
        /\ file' = file \/ file' = tasks'
        /\ UNCHANGED <<missed, held, runs, failures>>
    BY <1>4 DEF start, persist, snapVars, historyVars
  <2> QED
    BY <1>1, <2>1, <2>2 DEF FailInv, Sound
<1>5. CASE catchUpMissedJobs
  <2>1. /\ missed' = [t \in Tasks |-> IF Due(tasks[t]) THEN tasks[t] ELSE Absent]
        /\ UNCHANGED <<tasks, file, held, runs, failures>>
    BY <1>5 DEF catchUpMissedJobs, snapVars, historyVars
  <2> QED
    BY <1>1, <1>3, <2>1 DEF FailInv, Sound
<1>6. CASE CaughtUp
  <2>1. /\ missed' = [t \in Tasks |-> Absent]
        /\ UNCHANGED <<tasks, file, held, runs, failures>>
    BY <1>6 DEF CaughtUp, snapVars, historyVars
  <2> QED
    BY <1>1, <1>3, <2>1 DEF FailInv, Sound
<1>7. CASE onTick
  BY <1>1, <1>7, TickSound
<1>8. CASE stop \/ UNCHANGED vars \/ \E i \in Instants : Pass(i)
  <2>1. UNCHANGED <<tasks, file, missed, held, runs, failures>>
    BY <1>8 DEF stop, Pass, vars, memVars, snapVars, historyVars
  <2> QED
    BY <1>1, <2>1 DEF FailInv, Sound
<1>9. CASE Exit
  <2>1. /\ tasks' = [t \in Tasks |-> Absent] /\ missed' = [t \in Tasks |-> Absent]
        /\ runs' = {} /\ UNCHANGED <<file, held, failures>>
    BY <1>9 DEF Exit, snapVars, historyVars
  <2> QED
    BY <1>1, <1>3, <2>1 DEF FailInv, Sound
<1>10. ASSUME NEW t \in Tasks, runNow(t)
       PROVE  FailInv'
  <2>1. PICK failed \in BOOLEAN : Begin(t, "hand", tasks[t], failed)
    BY <1>10 DEF runNow
  <2>2. tasks[t].errors <= failures[t] /\ UNCHANGED <<missed, held, failures>>
    BY <1>10 DEF runNow, snapVars, FailInv, Sound, Charged
  <2> QED
    BY <1>1, <2>1, <2>2, BeginSound DEF FailInv, Sound
<1>11. ASSUME NEW t \in Tasks, CatchUpNext(t)
       PROVE  FailInv'
  <2>1. PICK failed \in BOOLEAN :
          /\ Begin(t, "catchUp", missed[t], failed)
          /\ missed' = IF failed THEN [u \in Tasks |-> Absent] ELSE [missed EXCEPT ![t] = Absent]
    BY <1>11 DEF CatchUpNext
  <2>2. missed[t].errors <= failures[t] /\ UNCHANGED <<held, failures>>
    BY <1>11 DEF CatchUpNext, snapVars, FailInv, Sound, Charged
  <2>3. \A u \in Tasks : missed'[u] \in {missed[u], Absent}
    BY <1>2, <2>1 DEF Table
  <2>4. Sound(missed)'
    BY <1>3, <2>2, <2>3 DEF FailInv, Sound
  <2> QED
    BY <1>1, <2>1, <2>2, <2>4, BeginSound DEF FailInv, Sound
<1>12. ASSUME NEW t \in Tasks, Elapse(t)
       PROVE  FailInv'
  <2>1. /\ tasks' = [tasks EXCEPT ![t].next = "due"]
        /\ UNCHANGED <<file, missed, held, runs, failures>>
    BY <1>12 DEF Elapse, snapVars, historyVars
  <2>2. \A u \in Tasks : /\ tasks'[u].errors = tasks[u].errors
                         /\ tasks'[u].status = tasks[u].status
    BY <1>2, <2>1 DEF Table, Task
  <2>3. Sound(tasks')
    BY <2>2, NoMoreSound DEF FailInv
  <2> QED
    BY <1>1, <2>1, <2>3 DEF FailInv, Sound
<1>13. ASSUME NEW t \in Tasks, remove(t)
       PROVE  FailInv'
  <2> DEFINE ts == [tasks EXCEPT ![t] = Absent]
  <2>1. Change("remove", ts) /\ asked' \in [Tasks -> [Instants -> Nat]]
    BY <1>1, <1>13 DEF remove, TypeOK
  <2>2. Sound(ts)
    BY <1>2, <1>3 DEF FailInv, Sound, Table
  <2>3. ts \in Table /\ "remove" \in Sources
    BY <1>1, ChangedTables DEF Sources
  <2> HIDE DEF ts
  <2> QED
    BY <2>1, <2>2, <2>3, ChangeSound
<1>14. ASSUME NEW t \in Tasks, NEW s \in Schedules, add(t, s)
       PROVE  FailInv'
  <2> DEFINE ts == [tasks EXCEPT ![t] = New(s)]
  <2>1. Change("add", ts) /\ asked' \in [Tasks -> [Instants -> Nat]]
    BY <1>1, <1>14, AskType DEF add
  <2>2. Sound(ts)
    <3>1. New(s).errors = 0 /\ New(s).status = "enabled"
      BY DEF New
    <3>2. Charged(New(s), failures[t])
      BY <1>1, <3>1 DEF Charged, TypeOK
    <3> QED
      BY <1>2, <3>2 DEF FailInv, Sound, Table
  <2>3. ts \in Table /\ "add" \in Sources
    BY <1>1, ChangedTables DEF Sources
  <2> HIDE DEF ts
  <2> QED
    BY <2>1, <2>2, <2>3, ChangeSound
<1>15. ASSUME NEW t \in Tasks, NEW patch \in Patch, update(t, patch)
       PROVE  FailInv'
  <2> DEFINE ts == [tasks EXCEPT ![t] = Merged(t, patch)]
  <2>1. /\ Change("update", ts)
        /\ asked' = asked \/ Ask(t, Merged(t, patch).next)
    BY <1>15 DEF update, Merged
  <2>2. asked' \in [Tasks -> [Instants -> Nat]]
    BY <1>1, <2>1, AskType DEF TypeOK
  <2>3. Sound(ts)
    <3>1. \A u \in Tasks : /\ ts[u].errors = tasks[u].errors
                           /\ ts[u].status \in {tasks[u].status, "enabled", "disabled"}
      BY <1>1, <1>2, MergedType DEF Table
    <3> HIDE DEF ts
    <3> QED
      BY <3>1, NoMoreSound DEF FailInv
  <2>4. ts \in Table /\ "update" \in Sources
    BY <1>1, MergedType DEF Sources
  <2> HIDE DEF ts
  <2> QED
    BY <2>1, <2>2, <2>3, <2>4, ChangeSound
<1>16. ASSUME NEW id \in DOMAIN held, rollback(id)
       PROVE  FailInv'
  <2> DEFINE ts == recomputeAllNextRuns(held[id])
  <2>1. Change("rollback", ts) /\ asked' \in [Tasks -> [Instants -> Nat]]
    BY <1>1, <1>16 DEF rollback, TypeOK
  <2>2. Sound(ts)
    BY <1>2, RecomputeSound DEF FailInv
  <2>3. ts \in Table /\ "rollback" \in Sources
    BY <1>1, ChangedTables DEF Sources
  <2> HIDE DEF ts
  <2> QED
    BY <2>1, <2>2, <2>3, ChangeSound
<1>17. ASSUME NEW r \in runs, NEW ok \in BOOLEAN, Finish(r, ok)
       PROVE  FailInv'
  BY <1>1, <1>17, FinishSound
<1> QED
  BY <1>4, <1>5, <1>6, <1>7, <1>8, <1>9, <1>10, <1>11, <1>12, <1>13, <1>14, <1>15,
     <1>16, <1>17 DEF Next

\* The count of a task's consecutive errors (executeTask, patchTaskUnsafe) never
\* exceeds the runs of it that failed, whatever copies of the task a run, a
\* catch-up, a rollback or a restart brings back; so none is given up too early.
THEOREM TasksGivenUpAfterFailures == Spec => []GivenUpAfterFailures
<1>1. Init => FailInv
  <2> SUFFICES ASSUME Init PROVE FailInv
    OBVIOUS
  <2>1. Base /\ BackoffSteps \in Nat
    BY InitBase, CronAssumption
  <2>2. Sound(file)
    <3>1. \A t \in Tasks : file[t].errors = 0 /\ file[t].status # "error"
      BY DEF Init, New, Absent
    <3> QED
      BY <3>1 DEF Init, Sound, Charged
  <2>3. Sound(tasks) /\ Sound(missed)
    BY <2>1, AbsentSound DEF Init, Base
  <2> QED
    BY <2>1, <2>2, <2>3 DEF Init, FailInv
<1>2. FailInv => GivenUpAfterFailures
  <2> SUFFICES ASSUME FailInv PROVE GivenUpAfterFailures
    OBVIOUS
  <2>1. \A t \in Tasks : failures[t] \in Nat
    BY DEF FailInv, Base, TypeOK
  <2> QED
    BY <2>1, CronAssumption DEF FailInv, Sound, Charged, GivenUpAfterFailures
<1> QED
  BY <1>1, <1>2, NextSound, PTL DEF Spec

-----------------------------------------------------------------------------
(* A task marked running for nothing *)

Excused == faults' > faults \/ \E id \in DOMAIN held : rollback(id)

\* A task that keeps its runs, and is not marked anew, is not stuck anew.
LEMMA NotStuck ==
    ASSUME NEW t \in Tasks, Live(t) \subseteq Live(t)',
           tasks'[t].status = "running" => tasks[t].status = "running"
    PROVE  Stuck(t)' => Stuck(t)
BY DEF Stuck

LEMMA BeginStuck ==
    ASSUME Base, NEW t \in Tasks, NEW by, NEW got, NEW failed \in BOOLEAN,
           Begin(t, by, got, failed), Faults(Cost(failed)), NEW u \in Tasks, Stuck(u)'
    PROVE  Stuck(u) \/ faults' > faults
<1> DEFINE new == [task |-> t, n |-> started[t] + 1, by |-> by, got |-> got]
<1>1. /\ tasks' = [tasks EXCEPT ![t].status = IF @ = "absent" THEN @ ELSE "running"]
      /\ runs' = IF failed THEN runs ELSE runs \cup {new}
  BY DEF Begin
<1>2. CASE failed
  BY <1>2 DEF Faults, Cost, Base, TypeOK
<1>3. CASE ~failed /\ u = t
  <2>1. new \in runs' /\ new.task = t
    BY <1>1, <1>3
  <2> HIDE DEF new
  <2> QED
    BY <1>3, <2>1 DEF Stuck, Live
<1>4. CASE u # t
  <2>1. tasks'[u] = tasks[u] /\ Live(u) \subseteq Live(u)'
    BY <1>1, <1>4 DEF Live, Base, TypeOK, Table
  <2> QED
    BY <2>1, NotStuck
<1> QED
  BY <1>2, <1>3, <1>4

LEMMA TickStuck ==
    ASSUME Base, onTick, NEW u \in Tasks, Stuck(u)'
    PROVE  Stuck(u) \/ faults' > faults
<1>1. PICK batch \in SUBSET Tasks : \E failed \in SUBSET batch :
        /\ faults' = faults + Cardinality(failed) /\ Cardinality(failed) \in Nat
        /\ tasks' = [t \in Tasks |-> IF t \in batch THEN [tasks[t] EXCEPT !.status = "running"]
                                     ELSE tasks[t]]
        /\ runs' = runs \cup NewRuns(batch \ failed)
  BY TickFacts
<1>2. PICK failed \in SUBSET batch :
        /\ faults' = faults + Cardinality(failed) /\ Cardinality(failed) \in Nat
        /\ runs' = runs \cup NewRuns(batch \ failed)
  BY <1>1
<1>3. CASE u \notin batch
  <2>1. tasks'[u] = tasks[u] /\ Live(u) \subseteq Live(u)'
    BY <1>1, <1>2, <1>3 DEF Live
  <2> QED
    BY <2>1, NotStuck
<1>4. CASE u \in batch \ failed
  <2> DEFINE new == [task |-> u, n |-> started[u] + 1, by |-> "tick", got |-> tasks[u]]
  <2>1. new \in runs' /\ new.task = u
    BY <1>2, <1>4 DEF NewRuns
  <2> HIDE DEF new
  <2> QED
    BY <2>1 DEF Stuck, Live
<1>5. CASE u \in failed
  <2>1. IsFiniteSet(failed)
    BY CronAssumption, FS_Subset
  <2>2. Cardinality(failed) # 0
    BY <1>5, <2>1, FS_EmptySet
  <2> QED
    BY <1>2, <2>2 DEF Base, TypeOK
<1> QED
  BY <1>3, <1>4, <1>5

LEMMA FinishStuck ==
    ASSUME Base, NEW r \in runs, NEW ok \in BOOLEAN, Finish(r, ok), NEW u \in Tasks, Stuck(u)'
    PROVE  Stuck(u)
<1>1. runs' = runs \ {r} /\ tasks' = Patched(tasks, r.task, Result(r, ok))
  BY DEF Finish
<1>2. /\ tasks \in Table /\ r \in Run /\ r.task \in Tasks /\ past \subseteq Instants
      /\ Result(r, ok).status # "running"
  BY ResultType DEF Base, TypeOK, Run
<1>3. CASE u # r.task
  <2>1. tasks'[u] = tasks[u] /\ Live(u) \subseteq Live(u)'
    BY <1>1, <1>2, <1>3 DEF Live, Patched, Table
  <2> QED
    BY <2>1, NotStuck
<1>4. CASE u = r.task
  <2>1. tasks'[u].status # "running"
    BY <1>1, <1>2, <1>4 DEF Patched, Table
  <2> QED
    BY <2>1 DEF Stuck
<1> QED
  BY <1>3, <1>4

\* A change of the table strands no task unless it marks one.
LEMMA ChangeStuck ==
    ASSUME NEW source, NEW ts, Change(source, ts), NEW u \in Tasks, Stuck(u)',
           ts[u].status = "running" => tasks[u].status = "running"
    PROVE  Stuck(u)
<1>1. tasks' = ts /\ runs' = runs
  BY DEF Change
<1> QED
  BY <1>1 DEF Stuck, Live

LEMMA NextStuck ==
    ASSUME Base, [Next]_vars, NEW u \in Tasks, Stuck(u)'
    PROVE  Stuck(u) \/ Excused
<1>1. /\ TypeOK /\ \A t \in Tasks : tasks[t] \in Task
      /\ tasks \in Table /\ file \in Table
  BY DEF Base, TypeOK, Table
<1>2. CASE start
  <2>1. \A t \in Tasks : tasks'[t].status # "running"
    <3>1. tasks' = recomputeAllNextRuns(ResetMarks(file))
      BY <1>2 DEF start
    <3>2. \A t \in Tasks : ResetMarks(file)[t].status # "running" /\ ResetMarks(file)[t] \in Task
      BY <1>1 DEF ResetMarks, Table, Task
    <3> QED
      BY <3>1, <3>2 DEF recomputeAllNextRuns, Task
  <2> QED
    BY <2>1 DEF Stuck
<1>3. CASE catchUpMissedJobs \/ CaughtUp \/ stop \/ UNCHANGED vars \/ \E i \in Instants : Pass(i)
  <2>1. UNCHANGED <<tasks, runs>>
    BY <1>3 DEF catchUpMissedJobs, CaughtUp, stop, Pass, vars, memVars
  <2> QED
    BY <2>1 DEF Stuck, Live
<1>4. CASE onTick
  BY <1>4, TickStuck DEF Excused
<1>5. CASE Exit
  BY <1>5 DEF Exit, Absent, Stuck
<1>6. ASSUME NEW t \in Tasks, runNow(t)
      PROVE  Stuck(u) \/ Excused
  BY <1>6, BeginStuck DEF runNow, Excused
<1>7. ASSUME NEW t \in Tasks, CatchUpNext(t)
      PROVE  Stuck(u) \/ Excused
  BY <1>7, BeginStuck DEF CatchUpNext, Excused
<1>8. ASSUME NEW t \in Tasks, Elapse(t)
      PROVE  Stuck(u)
  <2>1. tasks' = [tasks EXCEPT ![t].next = "due"] /\ runs' = runs
    BY <1>8 DEF Elapse
  <2>2. tasks'[u].status = tasks[u].status
    BY <1>1, <2>1 DEF Table, Task
  <2> QED
    BY <2>1, <2>2 DEF Stuck, Live
<1>9. ASSUME NEW t \in Tasks, remove(t)
      PROVE  Stuck(u)
  <2>1. [tasks EXCEPT ![t] = Absent][u].status = "running" => tasks[u].status = "running"
    BY <1>1 DEF Table, Absent
  <2> QED
    BY <1>9, <2>1, ChangeStuck DEF remove
<1>10. ASSUME NEW t \in Tasks, NEW s \in Schedules, add(t, s)
       PROVE  Stuck(u)
  <2>1. [tasks EXCEPT ![t] = New(s)][u].status = "running" => tasks[u].status = "running"
    BY <1>1 DEF Table, New
  <2> QED
    BY <1>10, <2>1, ChangeStuck DEF add
<1>11. ASSUME NEW t \in Tasks, NEW patch \in Patch, update(t, patch)
       PROVE  Stuck(u)
  <2>1. Change("update", [tasks EXCEPT ![t] = Merged(t, patch)])
    BY <1>11 DEF update, Merged
  <2>2. Merged(t, patch).status \in {tasks[t].status, "enabled", "disabled"}
    BY <1>1, MergedType
  <2>3. [tasks EXCEPT ![t] = Merged(t, patch)][u].status = "running" => tasks[u].status = "running"
    BY <1>1, <2>2 DEF Table
  <2> QED
    BY <2>1, <2>3, ChangeStuck
<1>12. ASSUME NEW id \in DOMAIN held, rollback(id)
       PROVE  Excused
  BY <1>12 DEF Excused
<1>13. ASSUME NEW r \in runs, NEW ok \in BOOLEAN, Finish(r, ok)
       PROVE  Stuck(u)
  BY <1>13, FinishStuck
<1> QED
  BY <1>2, <1>3, <1>4, <1>5, <1>6, <1>7, <1>8, <1>9, <1>10, <1>11, <1>12, <1>13 DEF Next

\* What StuckOnly says of a step.
Strands == \A t \in Tasks : ~Stuck(t) /\ Stuck(t)' =>
              faults' > faults \/ \E id \in DOMAIN held : rollback(id)

\* StuckOnly: a task is marked running for nothing only by a rollback or a failed
\* save (executeTask, patchTaskUnsafe, start); no order of ticks, ends of runs,
\* toggles and restarts strands one.
THEOREM TasksAreStrandedOnly == Spec => StuckOnly
<1>1. Base /\ [Next]_vars => [Strands]_vars
  <2> SUFFICES ASSUME Base, [Next]_vars, NEW t \in Tasks, ~Stuck(t), Stuck(t)'
               PROVE  faults' > faults \/ \E id \in DOMAIN held : rollback(id)
    BY DEF Strands
  <2> QED
    BY NextStuck DEF Excused
<1>2. StuckOnly <=> [][Strands]_vars
  BY DEF StuckOnly, Strands
<1> QED
  BY <1>1, <1>2, BaseHolds, PTL DEF Spec

-----------------------------------------------------------------------------
(* The scheduler falls asleep only when a run by hand ends or a write fails *)

\* The end of a tick waits for each of its runs, and sets the timer after them.
AwakeInv == Base /\ \A r \in runs : r.by = "tick" => \E b \in batches : r \in b

\* The run that ends, and the tick that waited for others too.
LEMMA RestOfBatches ==
    ASSUME NEW r, NEW b \in batches, batches' = {c \ {r} : c \in batches} \ {{}}, b # {r}, b # {}
    PROVE  b \ {r} \in batches' /\ b \ {r} # {}
OBVIOUS

LEMMA NextAwake ==
    ASSUME AwakeInv, [Next]_vars
    PROVE  AwakeInv'
<1>1. Base /\ Base'
  BY NextBase DEF AwakeInv
<1> DEFINE Waited == \A r \in runs' : r.by = "tick" => \E b \in batches' : r \in b
<1>2. CASE onTick
  <2>1. PICK batch \in SUBSET Tasks : \E failed \in SUBSET batch :
          /\ runs' = runs \cup NewRuns(batch \ failed)
          /\ batches \subseteq batches'
          /\ NewRuns(batch \ failed) # {} => NewRuns(batch \ failed) \in batches'
    BY <1>1, <1>2, TickFacts
  <2>2. PICK new : /\ runs' = runs \cup new /\ batches \subseteq batches'
                   /\ new # {} => new \in batches'
    BY <2>1
  <2>3. ASSUME NEW r \in runs', r.by = "tick"
        PROVE  \E b \in batches' : r \in b
    BY <2>2, <2>3 DEF AwakeInv
  <2> QED
    BY <1>1, <2>3 DEF AwakeInv
<1>3. ASSUME NEW r \in runs, NEW ok \in BOOLEAN, Finish(r, ok)
      PROVE  AwakeInv'
  <2>1. runs' = runs \ {r} /\ batches' = {b \ {r} : b \in batches} \ {{}}
    BY <1>3 DEF Finish
  <2>2. ASSUME NEW u \in runs', u.by = "tick"
        PROVE  \E b \in batches' : u \in b
    <3>1. PICK b \in batches : u \in b
      BY <2>1, <2>2 DEF AwakeInv
    <3>2. u \in b \ {r} /\ b \ {r} \in batches'
      BY <2>1, <3>1
    <3> QED
      BY <3>2
  <2> QED
    BY <1>1, <2>2 DEF AwakeInv
<1>4. CASE Exit
  BY <1>1, <1>4 DEF Exit, AwakeInv
<1>5. ASSUME NEW t \in Tasks, NEW by \in {"hand", "catchUp"}, NEW got, NEW failed \in BOOLEAN,
             Begin(t, by, got, failed), UNCHANGED batches
      PROVE  AwakeInv'
  <2> DEFINE new == [task |-> t, n |-> started[t] + 1, by |-> by, got |-> got]
  <2>1. runs' \subseteq runs \cup {new} /\ new.by # "tick"
    BY <1>5 DEF Begin
  <2> HIDE DEF new
  <2> QED
    BY <1>1, <1>5, <2>1 DEF AwakeInv
<1>6. ASSUME NEW t \in Tasks, runNow(t)
      PROVE  AwakeInv'
  BY <1>5, <1>6 DEF runNow
<1>7. ASSUME NEW t \in Tasks, CatchUpNext(t)
      PROVE  AwakeInv'
  BY <1>5, <1>7 DEF CatchUpNext
<1>8. CASE UNCHANGED <<runs, batches>>
  BY <1>1, <1>8 DEF AwakeInv
<1>9. \/ onTick \/ Exit \/ UNCHANGED <<runs, batches>>
      \/ \E t \in Tasks : CatchUpNext(t) \/ runNow(t)
      \/ \E r \in runs, ok \in BOOLEAN : Finish(r, ok)
  <2>1. ASSUME start \/ catchUpMissedJobs \/ CaughtUp \/ stop \/ UNCHANGED vars
        PROVE  UNCHANGED <<runs, batches>>
    BY <2>1 DEF start, catchUpMissedJobs, CaughtUp, stop, vars, memVars
  <2>2. ASSUME \/ \E t \in Tasks : Elapse(t)
               \/ \E i \in Instants : Pass(i)
        PROVE  UNCHANGED <<runs, batches>>
    BY <2>2 DEF Elapse, Pass, memVars
  <2>3. ASSUME \/ \E t \in Tasks : remove(t)
               \/ \E t \in Tasks, s \in Schedules : add(t, s)
               \/ \E t \in Tasks, patch \in Patch : update(t, patch)
               \/ \E id \in DOMAIN held : rollback(id)
        PROVE  UNCHANGED <<runs, batches>>
    BY <2>3 DEF remove, add, update, rollback, Change
  <2> QED
    BY <2>1, <2>2, <2>3 DEF Next
<1> QED
  BY <1>2, <1>3, <1>4, <1>6, <1>7, <1>8, <1>9

\* What FallsAsleepOnly excuses in a step.
Dozes == faults' > faults \/ \E r \in runs \ runs' : r.by = "hand"

\* A step that arms the timer for the table it leaves.
LEMMA ArmedAwake ==
    ASSUME armTimer(tasks'), UNCHANGED running
    PROVE  ~Asleep'
BY DEF armTimer, Asleep, Armable

LEMMA BeginAwake ==
    ASSUME Base, NEW t \in Tasks, NEW by, NEW got, NEW failed \in BOOLEAN,
           Begin(t, by, got, failed), Faults(Cost(failed))
    PROVE  IF failed THEN faults' > faults ELSE Armable(tasks') => Armable(tasks)
<1>1. CASE failed
  BY <1>1 DEF Faults, Cost, Base, TypeOK
<1>2. CASE ~failed
  <2>1. tasks' = [tasks EXCEPT ![t].status = IF @ = "absent" THEN @ ELSE "running"]
        /\ tasks \in Table
    BY DEF Begin, Base, TypeOK
  <2>2. \A u \in Tasks : tasks'[u].next = tasks[u].next
                         /\ (tasks'[u].status = "enabled" => tasks[u].status = "enabled")
    BY <2>1 DEF Table, Task
  <2> QED
    BY <1>2, <2>2 DEF Armable
<1> QED
  BY <1>1, <1>2

LEMMA FinishAwake ==
    ASSUME AwakeInv, NEW r \in runs, NEW ok \in BOOLEAN, Finish(r, ok)
    PROVE  ~Asleep' \/ Dozes
<1>1. /\ runs' = runs \ {r} /\ tasks' = Patched(tasks, r.task, Result(r, ok))
      /\ batches' = {b \ {r} : b \in batches} \ {{}} /\ UNCHANGED running
      /\ {} \in {b \ {r} : b \in batches} => armTimer(tasks')
  BY DEF Finish
<1>2. r.by \in {"tick", "hand", "catchUp"}
  BY DEF AwakeInv, Base, TypeOK, Run
<1>3. CASE r.by = "hand"
  BY <1>1, <1>3 DEF Dozes
<1>4. CASE r.by = "catchUp"
  <2>1. PICK unsaved \in BOOLEAN, unrecorded \in BOOLEAN :
          /\ Faults(Cost(unsaved \/ unrecorded))
          /\ phase' = IF unsaved \/ unrecorded THEN "up" ELSE "between"
    BY <1>4 DEF Finish
  <2>2. CASE unsaved \/ unrecorded
    BY <2>1, <2>2 DEF Faults, Cost, AwakeInv, Base, TypeOK, Dozes
  <2>3. CASE ~(unsaved \/ unrecorded)
    BY <2>1, <2>3 DEF Asleep
  <2> QED
    BY <2>2, <2>3
<1>5. CASE r.by = "tick"
  <2>1. PICK b \in batches : r \in b
    BY <1>5 DEF AwakeInv
  <2>2. CASE b = {r}
    <3>1. b \ {r} = {}
      BY <2>2
    <3>2. {} \in {c \ {r} : c \in batches}
      BY <3>1
    <3> QED
      BY <1>1, <3>2, ArmedAwake
  <2>3. CASE b # {r}
    <3>1. b # {} /\ batches' = {c \ {r} : c \in batches} \ {{}}
      BY <1>1, <2>1
    <3>2. b \ {r} \in batches'
      BY <2>3, <3>1, RestOfBatches
    <3> QED
      BY <3>2 DEF Asleep
  <2> QED
    BY <2>2, <2>3
<1> QED
  BY <1>2, <1>3, <1>4, <1>5

\* A change that is saved sets the timer, one that is not is a fault.
LEMMA ChangeAwake ==
    ASSUME Base, NEW source, NEW ts, Change(source, ts)
    PROVE  ~Asleep' \/ Dozes
<1>1. PICK how \in {"kept", "lost", "unlisted"}, failed \in BOOLEAN :
        /\ Faults(Cost(how # "kept") + Cost(failed))
        /\ IF failed THEN UNCHANGED timer ELSE armTimer(ts)
  BY DEF Change
<1>2. CASE failed
  BY <1>1, <1>2 DEF Faults, Cost, Base, TypeOK, Dozes
<1>3. CASE ~failed
  <2>1. tasks' = ts /\ UNCHANGED running
    BY DEF Change
  <2> QED
    BY <1>1, <1>3, <2>1, ArmedAwake
<1> QED
  BY <1>2, <1>3

LEMMA NextDozes ==
    ASSUME AwakeInv, [Next]_vars, Asleep'
    PROVE  Asleep \/ Dozes
<1>1. Base /\ TypeOK /\ tasks \in Table
  BY DEF AwakeInv, Base, TypeOK
<1>2. CASE start
  BY <1>1, <1>2 DEF start, Faults, Cost, TypeOK, Asleep, Dozes
<1>3. CASE catchUpMissedJobs
  BY <1>3 DEF catchUpMissedJobs, Asleep
<1>4. CASE CaughtUp
  <2>1. armTimer(tasks') /\ UNCHANGED running
    BY <1>4 DEF CaughtUp
  <2> QED
    BY <2>1, ArmedAwake
<1>5. CASE onTick
  <2>1. PICK batch \in SUBSET Tasks : \E failed \in SUBSET batch :
          /\ NewRuns(batch \ failed) # {} => NewRuns(batch \ failed) \in batches'
          /\ NewRuns(batch \ failed) = {} => armTimer(tasks')
          /\ UNCHANGED running
    BY <1>1, <1>5, TickFacts
  <2>2. batches' # {} \/ (armTimer(tasks') /\ UNCHANGED running)
    BY <2>1
  <2> QED
    BY <2>2, ArmedAwake DEF Asleep
<1>6. CASE stop \/ Exit
  BY <1>6 DEF stop, Exit, Asleep
<1>7. ASSUME NEW t \in Tasks, runNow(t)
      PROVE  Asleep \/ Dozes
  <2>1. PICK failed \in BOOLEAN : Begin(t, "hand", tasks[t], failed) /\ Faults(Cost(failed))
    BY <1>7 DEF runNow
  <2>2. UNCHANGED <<phase, running, timer, batches>>
    BY <1>7 DEF runNow
  <2> QED
    BY <1>1, <2>1, <2>2, BeginAwake DEF Asleep, Dozes, Armable
<1>8. ASSUME NEW t \in Tasks, CatchUpNext(t)
      PROVE  Dozes
  <2>1. PICK failed \in BOOLEAN :
          /\ Begin(t, "catchUp", missed[t], failed) /\ Faults(Cost(failed))
          /\ phase' = IF failed THEN "up" ELSE "catching"
    BY <1>8 DEF CatchUpNext
  <2> QED
    BY <1>1, <2>1, BeginAwake DEF Asleep, Dozes
<1>9. ASSUME NEW t \in Tasks, Elapse(t)
      PROVE  Asleep
  <2>1. /\ tasks' = [tasks EXCEPT ![t].next = "due"] /\ tasks[t].next = "later"
        /\ UNCHANGED <<phase, running, timer, batches>>
    BY <1>9 DEF Elapse
  <2>2. \A u \in Tasks : tasks'[u].status = tasks[u].status
                         /\ (tasks[u].next = "none" => tasks'[u].next = "none")
    BY <1>1, <2>1 DEF Table, Task
  <2> QED
    BY <2>1, <2>2 DEF Asleep, Armable
<1>10. CASE UNCHANGED vars \/ \E i \in Instants : Pass(i)
  <2>1. UNCHANGED <<phase, running, timer, batches, tasks>>
    BY <1>10 DEF Pass, vars, memVars
  <2> QED
    BY <2>1 DEF Asleep, Armable
<1>11. ASSUME NEW t \in Tasks, \/ remove(t)
                               \/ \E s \in Schedules : add(t, s)
                               \/ \E patch \in Patch : update(t, patch)
       PROVE  Dozes
  BY <1>1, <1>11, ChangeAwake DEF remove, add, update
<1>12. ASSUME NEW id \in DOMAIN held, rollback(id)
       PROVE  Dozes
  BY <1>1, <1>12, ChangeAwake DEF rollback
<1>13. ASSUME NEW r \in runs, NEW ok \in BOOLEAN, Finish(r, ok)
       PROVE  Dozes
  BY <1>13, FinishAwake
<1> QED
  BY <1>2, <1>3, <1>4, <1>5, <1>6, <1>7, <1>8, <1>9, <1>10, <1>11, <1>12, <1>13 DEF Next

\* What FallsAsleepOnly says of a step.
DozesOff == ~Asleep /\ Asleep' => \/ faults' > faults
                                  \/ \E r \in runs \ runs' : r.by = "hand"

\* FallsAsleepOnly: the timer is set again by whatever could have left the
\* scheduler without one (onTick, start, the operators' changes), but for a run
\* by hand that ends and a write that fails.
THEOREM SchedulerStaysAwake == Spec => FallsAsleepOnly
<1>1. Init => AwakeInv
  BY InitBase DEF Init, AwakeInv
<1>2. AwakeInv /\ [Next]_vars => [DozesOff]_vars
  <2> SUFFICES ASSUME AwakeInv, [Next]_vars, ~Asleep, Asleep'
               PROVE  Dozes
    BY DEF DozesOff, Dozes
  <2> QED
    BY NextDozes
<1>3. FallsAsleepOnly <=> [][DozesOff]_vars
  BY DEF FallsAsleepOnly, DozesOff
<1> QED
  BY <1>1, <1>2, <1>3, NextAwake, PTL DEF Spec

-----------------------------------------------------------------------------
(* An instant is served no more often than it was asked for *)

\* A task of the table that may still be run at i.
Waits(t, i) == Cost(tasks[t].status = "enabled" /\ tasks[t].next = i)

Spent(t, i) == shots[t][i] + Waits(t, i) <= asked[t][i] + stale[t][i]

\* Where a table names an instant that is not over, it was asked for: that is
\* what lets a restart or a rollback compute a next run from it.
Vouched(ts) ==
    \A t \in Tasks : \A i \in Instants \ past : ts[t].schedule = i => asked[t][i] >= 1
VouchedNext(ts) ==
    \A t \in Tasks : \A i \in Instants \ past' : ts[t].schedule = i => asked'[t][i] >= 1

OnceInv ==
    /\ Base
    /\ \A t \in Tasks, i \in Instants : Spent(t, i)
    /\ \A t \in Tasks, i \in Instants : i \notin past => shots[t][i] = 0
    /\ \A t \in Tasks : missed[t].next \in Instants => missed[t].next \in past
    /\ Vouched(tasks) /\ Vouched(file)
    /\ \A id \in DOMAIN held : Vouched(held[id])

LEMMA NextInstant ==
    ASSUME NEW s, NEW i \in Instants, computeNextRunMs(s) = i
    PROVE  s = i /\ i \notin past
BY CronAssumption DEF computeNextRunMs

\* A run that ends leaves its task no instant to wait for.
LEMMA ResultInstant ==
    ASSUME NEW r \in Run, NEW ok \in BOOLEAN
    PROVE  Result(r, ok).next \notin Instants
<1>1. r.got.schedule \notin Instants => computeNextRunMs(r.got.schedule) \notin Instants
  BY NextInstant
<1>2. "none" \notin Instants /\ "later" \notin Instants
  BY CronAssumption
<1> QED
  BY <1>1, <1>2 DEF Result

LEMMA HistoryNat ==
    ASSUME TypeOK, NEW t \in Tasks, NEW i \in Instants
    PROVE  shots[t][i] \in Nat /\ asked[t][i] \in Nat /\ stale[t][i] \in Nat
BY DEF TypeOK

\* A table with the same schedules, later, when no less was asked for.
LEMMA VouchedKept ==
    ASSUME NEW ts, NEW us, Vouched(ts), past \subseteq past',
           \A t \in Tasks, i \in Instants : asked[t][i] \in Nat /\ asked'[t][i] \in Nat
                                            /\ asked[t][i] <= asked'[t][i],
           \A t \in Tasks : us[t].schedule = ts[t].schedule \/ us[t].schedule \notin Instants
    PROVE  VouchedNext(us)
BY DEF Vouched, VouchedNext

\* What a step must show, when it serves no instant and asks for none.
LEMMA SameOnce ==
    ASSUME OnceInv, Base', UNCHANGED <<shots, asked, stale>>, past \subseteq past',
           \A t \in Tasks : tasks'[t].schedule = tasks[t].schedule
                            \/ tasks'[t].schedule \notin Instants,
           \A t \in Tasks, i \in Instants : Waits(t, i)' <= Waits(t, i),
           \A t \in Tasks : file'[t] \in {file[t], tasks[t], tasks'[t]},
           \A t \in Tasks : missed'[t].next \in Instants => missed'[t].next \in past,
           UNCHANGED held
    PROVE  OnceInv'
<1>1. \A t \in Tasks, i \in Instants :
        shots[t][i] \in Nat /\ asked[t][i] \in Nat /\ stale[t][i] \in Nat
  BY HistoryNat DEF OnceInv, Base
<1>2. \A t \in Tasks, i \in Instants : Spent(t, i)'
  <2> SUFFICES ASSUME NEW t \in Tasks, NEW i \in Instants
               PROVE  shots[t][i] + Waits(t, i)' <= asked[t][i] + stale[t][i]
    BY DEF Spent
  <2>1. Waits(t, i) \in Nat /\ Waits(t, i)' \in Nat /\ Waits(t, i)' <= Waits(t, i)
    BY CostType DEF Waits, Cost
  <2>2. shots[t][i] + Waits(t, i) <= asked[t][i] + stale[t][i]
    BY DEF OnceInv, Spent
  <2> QED
    BY <1>1, <2>1, <2>2
<1>3. VouchedNext(tasks') /\ VouchedNext(file') /\ \A id \in DOMAIN held : VouchedNext(held[id])
  <2>1. \A t \in Tasks : file'[t].schedule \in {file[t].schedule, tasks[t].schedule}
                         \/ file'[t].schedule \notin Instants
    OBVIOUS
  <2>2. VouchedNext(tasks') /\ VouchedNext(tasks) /\ VouchedNext(file)
        /\ \A id \in DOMAIN held : VouchedNext(held[id])
    BY <1>1, VouchedKept DEF OnceInv
  <2>3. VouchedNext(file')
    BY <2>1, <2>2 DEF VouchedNext
  <2> QED
    BY <2>2, <2>3
<1>4. Vouched(tasks)' /\ Vouched(file)' /\ \A id \in DOMAIN held' : Vouched(held[id])'
  BY <1>3 DEF Vouched, VouchedNext
<1>5. \A t \in Tasks, i \in Instants : i \notin past' => shots'[t][i] = 0
  BY DEF OnceInv
<1>6. \A t \in Tasks : missed'[t].next \in Instants => missed'[t].next \in past'
  OBVIOUS
<1> QED
  BY <1>2, <1>4, <1>5, <1>6 DEF OnceInv

\* A run that begins takes its task out of those that wait.
LEMMA BeginOnce ==
    ASSUME Base, NEW t \in Tasks, NEW by, NEW got, NEW failed \in BOOLEAN,
           Begin(t, by, got, failed)
    PROVE  /\ \A u \in Tasks : tasks'[u].schedule = tasks[u].schedule
           /\ \A u \in Tasks, i \in Instants : Waits(u, i)' <= Waits(u, i)
           /\ \A i \in Instants : Waits(t, i)' = 0
           /\ file' = file \/ file' = tasks'
<1>1. /\ tasks' = [tasks EXCEPT ![t].status = IF @ = "absent" THEN @ ELSE "running"]
      /\ file' = file \/ file' = tasks'
      /\ tasks \in Table
  BY DEF Begin, persist, Base, TypeOK
<1>2. \A u \in Tasks : /\ tasks'[u].schedule = tasks[u].schedule /\ tasks'[u].next = tasks[u].next
                       /\ u # t => tasks'[u].status = tasks[u].status
  BY <1>1 DEF Table, Task
<1>3. tasks'[t].status # "enabled"
  BY <1>1 DEF Table, Task
<1>4. \A i \in Instants : Waits(t, i)' = 0 /\ 0 <= Waits(t, i)
  BY <1>3 DEF Waits, Cost
<1>5. \A u \in Tasks, i \in Instants : u # t => Waits(u, i)' = Waits(u, i)
  BY <1>2 DEF Waits
<1>6. \A u \in Tasks, i \in Instants : Waits(u, i) \in Nat
  BY DEF Waits, Cost
<1> QED
  BY <1>1, <1>2, <1>4, <1>5, <1>6

\* The catch-up serves an instant its task waits for, or counts its copy as stale.
LEMMA CatchUpOnce ==
    ASSUME OnceInv, Base', NEW t \in Tasks, CatchUpNext(t)
    PROVE  OnceInv'
<1>1. PICK failed \in BOOLEAN :
        /\ Begin(t, "catchUp", missed[t], failed)
        /\ missed' = IF failed THEN [u \in Tasks |-> Absent] ELSE [missed EXCEPT ![t] = Absent]
        /\ shots' = [shots EXCEPT ![t] = [i \in Instants |-> @[i] +
                       IF ~failed /\ missed[t].next = i THEN 1 ELSE 0]]
        /\ stale' = [stale EXCEPT ![t] = [i \in Instants |-> @[i] +
                       Cost(~failed /\ missed[t].next = i
                              /\ ~(tasks[t].status = "enabled" /\ tasks[t].next = i))]]
  BY DEF CatchUpNext
<1>2. UNCHANGED <<past, held, asked>> /\ Base /\ missed \in Table
      /\ shots \in [Tasks -> [Instants -> Nat]] /\ stale \in [Tasks -> [Instants -> Nat]]
  BY DEF CatchUpNext, snapVars, OnceInv, Base, TypeOK
<1>3. /\ \A u \in Tasks : tasks'[u].schedule = tasks[u].schedule
      /\ \A u \in Tasks, i \in Instants : Waits(u, i)' <= Waits(u, i)
      /\ \A i \in Instants : Waits(t, i)' = 0
      /\ file' = file \/ file' = tasks'
  BY <1>1, <1>2, BeginOnce
<1>4. /\ \A u \in Tasks, i \in Instants : u # t => shots'[u][i] = shots[u][i] /\ stale'[u][i] = stale[u][i]
      /\ \A i \in Instants :
            /\ shots'[t][i] = shots[t][i] + IF ~failed /\ missed[t].next = i THEN 1 ELSE 0
            /\ stale'[t][i] = stale[t][i] +
                 Cost(~failed /\ missed[t].next = i
                        /\ ~(tasks[t].status = "enabled" /\ tasks[t].next = i))
  BY <1>1, <1>2
<1>5. \A u \in Tasks, i \in Instants :
        /\ shots[u][i] \in Nat /\ asked[u][i] \in Nat /\ stale[u][i] \in Nat
        /\ Waits(u, i) \in Nat /\ Waits(u, i)' \in Nat
        /\ shots[u][i] + Waits(u, i) <= asked[u][i] + stale[u][i]
  BY <1>2, HistoryNat DEF Waits, Cost, OnceInv, Spent, Base
<1>6. ASSUME NEW u \in Tasks, NEW i \in Instants
      PROVE  shots'[u][i] + Waits(u, i)' <= asked[u][i] + stale'[u][i]
  <2>1. CASE u # t
    <3>1. /\ shots'[u][i] = shots[u][i] /\ stale'[u][i] = stale[u][i]
          /\ Waits(u, i)' <= Waits(u, i)
      BY <1>3, <1>4, <2>1
    <3> QED
      BY <1>5, <3>1
  <2>2. CASE u = t
    <3>1. Waits(u, i)' = 0
      BY <1>3, <2>2
    <3>2. Waits(u, i) = 1 <=> tasks[t].status = "enabled" /\ tasks[t].next = i
      BY <2>2 DEF Waits, Cost
    <3>3. /\ shots'[u][i] = shots[u][i] + IF ~failed /\ missed[t].next = i THEN 1 ELSE 0
          /\ stale'[u][i] = stale[u][i] + Cost(~failed /\ missed[t].next = i /\ Waits(u, i) # 1)
      BY <1>4, <2>2, <3>2
    <3> QED
      BY <1>5, <3>1, <3>3 DEF Cost
  <2> QED
    BY <2>1, <2>2
<1>7. \A u \in Tasks, i \in Instants : i \notin past => shots'[u][i] = 0
  <2>1. \A i \in Instants : missed[t].next = i => i \in past
    BY DEF OnceInv
  <2> QED
    BY <1>4, <2>1 DEF OnceInv
<1>8. \A u \in Tasks : missed'[u].next \in Instants => missed'[u].next \in past
  <2>1. Absent.next \notin Instants
    BY CronAssumption DEF Absent
  <2>2. \A u \in Tasks : missed'[u] \in {missed[u], Absent}
    BY <1>1, <1>2 DEF Table
  <2> QED
    BY <2>1, <2>2 DEF OnceInv
<1>9. Vouched(tasks') /\ Vouched(file')
  <2>1. Vouched(tasks')
    BY <1>3 DEF OnceInv, Vouched
  <2> QED
    BY <1>3, <2>1 DEF OnceInv
<1> QED
  BY <1>2, <1>6, <1>7, <1>8, <1>9 DEF OnceInv, Spent, Vouched

\* What a tick does to the table, the file and the count of what it serves.
LEMMA TickShots ==
    ASSUME onTick
    PROVE  \E batch \in SUBSET {t \in Tasks : Due(tasks[t])} : \E failed \in SUBSET batch :
             /\ tasks' = [t \in Tasks |-> IF t \in batch THEN [tasks[t] EXCEPT !.status = "running"]
                                          ELSE tasks[t]]
             /\ file' = file \/ \A t \in Tasks : file'[t] \in {tasks[t], tasks'[t]}
             /\ shots' = [t \in Tasks |-> [i \in Instants |-> shots[t][i] +
                            IF t \in batch \ failed /\ tasks[t].next = i THEN 1 ELSE 0]]
<1>1. PICK batch \in SUBSET {t \in Tasks : Due(tasks[t]) /\ started[t] < MaxRuns} :
        \E failed \in SUBSET batch : \E unsaved \in SUBSET failed :
          LET ts == [t \in Tasks |-> IF t \in batch THEN [tasks[t] EXCEPT !.status = "running"]
                                     ELSE tasks[t]]
          IN  /\ tasks' = ts
              /\ file' = IF batch = failed THEN file
                         ELSE [t \in Tasks |-> IF t \in unsaved THEN tasks[t] ELSE ts[t]]
              /\ shots' = [t \in Tasks |-> [i \in Instants |-> shots[t][i] +
                             IF t \in batch \ failed /\ tasks[t].next = i THEN 1 ELSE 0]]
  BY DEF onTick
<1>2. PICK failed \in SUBSET batch : \E unsaved \in SUBSET failed :
        LET ts == [t \in Tasks |-> IF t \in batch THEN [tasks[t] EXCEPT !.status = "running"]
                                   ELSE tasks[t]]
        IN  /\ tasks' = ts
            /\ file' = IF batch = failed THEN file
                       ELSE [t \in Tasks |-> IF t \in unsaved THEN tasks[t] ELSE ts[t]]
            /\ shots' = [t \in Tasks |-> [i \in Instants |-> shots[t][i] +
                           IF t \in batch \ failed /\ tasks[t].next = i THEN 1 ELSE 0]]
  BY <1>1
<1>3. batch \in SUBSET {t \in Tasks : Due(tasks[t])}
  OBVIOUS
<1>4. file' = file \/ \A t \in Tasks : file'[t] \in {tasks[t], tasks'[t]}
  BY <1>2
<1> QED
  BY <1>2, <1>3, <1>4

LEMMA TickOnce ==
    ASSUME OnceInv, Base', onTick
    PROVE  OnceInv'
<1>1. PICK batch \in SUBSET {t \in Tasks : Due(tasks[t])} : \E failed \in SUBSET batch :
        /\ tasks' = [t \in Tasks |-> IF t \in batch THEN [tasks[t] EXCEPT !.status = "running"]
                                     ELSE tasks[t]]
        /\ file' = file \/ \A t \in Tasks : file'[t] \in {tasks[t], tasks'[t]}
        /\ shots' = [t \in Tasks |-> [i \in Instants |-> shots[t][i] +
                       IF t \in batch \ failed /\ tasks[t].next = i THEN 1 ELSE 0]]
  BY TickShots
<1>2. PICK failed \in SUBSET batch :
        shots' = [t \in Tasks |-> [i \in Instants |-> shots[t][i] +
                    IF t \in batch \ failed /\ tasks[t].next = i THEN 1 ELSE 0]]
  BY <1>1
<1>3. UNCHANGED <<past, held, asked, stale, missed>> /\ tasks \in Table
  BY DEF onTick, snapVars, OnceInv, Base, TypeOK
<1>4. \A t \in Tasks, i \in Instants :
        /\ shots[t][i] \in Nat /\ asked[t][i] \in Nat /\ stale[t][i] \in Nat
        /\ Waits(t, i) \in Nat /\ Waits(t, i)' \in Nat
        /\ shots[t][i] + Waits(t, i) <= asked[t][i] + stale[t][i]
  BY HistoryNat DEF Waits, Cost, OnceInv, Spent, Base
<1>5. ASSUME NEW t \in batch
      PROVE  /\ t \in Tasks /\ tasks[t].status = "enabled" /\ tasks'[t].status = "running"
             /\ tasks'[t].schedule = tasks[t].schedule
             /\ \A i \in Instants : tasks[t].next = i => i \in past
  <2>1. t \in Tasks /\ Due(tasks[t]) /\ "due" \notin Instants
    BY CronAssumption
  <2> QED
    BY <1>1, <1>3, <2>1 DEF Due, Table, Task
<1>6. ASSUME NEW t \in Tasks, NEW i \in Instants
      PROVE  /\ shots'[t][i] + Waits(t, i)' <= asked[t][i] + stale[t][i]
             /\ i \notin past => shots'[t][i] = 0
  <2>1. shots'[t][i] = shots[t][i] + IF t \in batch \ failed /\ tasks[t].next = i THEN 1 ELSE 0
    BY <1>2
  <2>2. CASE t \in batch
    <3>1. Waits(t, i)' = 0 /\ Waits(t, i) = IF tasks[t].next = i THEN 1 ELSE 0
      BY <1>5, <2>2 DEF Waits, Cost
    <3>2. i \notin past => shots[t][i] = 0 /\ tasks[t].next # i
      BY <1>5, <2>2 DEF OnceInv
    <3> QED
      BY <1>4, <2>1, <3>1, <3>2
  <2>3. CASE t \notin batch
    <3>1. Waits(t, i)' = Waits(t, i)
      BY <1>1, <2>3 DEF Waits
    <3> QED
      BY <1>4, <2>1, <2>3, <3>1 DEF OnceInv
  <2> QED
    BY <2>2, <2>3
<1>7. Vouched(tasks') /\ Vouched(file')
  <2>1. \A t \in Tasks : tasks'[t].schedule = tasks[t].schedule
    BY <1>1, <1>5
  <2>2. Vouched(tasks')
    BY <2>1 DEF OnceInv, Vouched
  <2>3. \A t \in Tasks : file'[t].schedule \in {file[t].schedule, tasks[t].schedule}
    BY <1>1, <2>1
  <2> QED
    BY <2>2, <2>3 DEF OnceInv, Vouched
<1> QED
  BY <1>3, <1>6, <1>7 DEF OnceInv, Spent, Vouched

\* The end of a run: its task waits for no instant.
LEMMA FinishOnce ==
    ASSUME OnceInv, Base', NEW r \in runs, NEW ok \in BOOLEAN, Finish(r, ok)
    PROVE  OnceInv'
<1> DEFINE p == Result(r, ok)
<1>1. /\ tasks' = Patched(tasks, r.task, p)
      /\ file' = file \/ file' = tasks'
      /\ missed' = missed \/ missed' = [t \in Tasks |-> Absent]
      /\ UNCHANGED <<past, held, shots, asked, stale>>
  BY DEF Finish, persist, snapVars
<1>2. tasks \in Table /\ r \in Run /\ r.task \in Tasks /\ p.next \notin Instants
  BY ResultInstant DEF OnceInv, Base, TypeOK, Run
<1> HIDE DEF p
<1>3. /\ \A t \in Tasks : tasks'[t].schedule = tasks[t].schedule
      /\ \A t \in Tasks : tasks'[t] = tasks[t] \/ tasks'[t].next \notin Instants
  BY <1>1, <1>2 DEF Patched, Table
<1>4. \A t \in Tasks, i \in Instants : Waits(t, i)' <= Waits(t, i)
  <2> SUFFICES ASSUME NEW t \in Tasks, NEW i \in Instants
               PROVE  Waits(t, i)' <= Waits(t, i)
    OBVIOUS
  <2>1. Waits(t, i) \in Nat
    BY DEF Waits, Cost
  <2>2. Waits(t, i)' = Waits(t, i) \/ Waits(t, i)' = 0
    BY <1>3 DEF Waits, Cost
  <2> QED
    BY <2>1, <2>2
<1>5. \A t \in Tasks : missed'[t].next \in Instants => missed'[t].next \in past
  <2>1. Absent.next \notin Instants
    BY CronAssumption DEF Absent
  <2> QED
    BY <1>1, <2>1 DEF OnceInv
<1> QED
  BY <1>1, <1>3, <1>4, <1>5, SameOnce

\* Next runs that are computed anew are asked for, and not served yet.
LEMMA RecomputeOnce ==
    ASSUME OnceInv, NEW ts \in Table, Vouched(ts)
    PROVE  /\ Vouched(recomputeAllNextRuns(ts)) /\ Vouched(ResetMarks(ts))
           /\ \A t \in Tasks, i \in Instants :
                 shots[t][i] + Cost(/\ recomputeAllNextRuns(ts)[t].status = "enabled"
                                    /\ recomputeAllNextRuns(ts)[t].next = i)
                   <= asked[t][i] + stale[t][i]
<1> DEFINE us == recomputeAllNextRuns(ts)
<1>1. \A t \in Tasks : /\ us[t].schedule = ts[t].schedule /\ ResetMarks(ts)[t].schedule = ts[t].schedule
                       /\ us[t].status = "enabled" => us[t].next = computeNextRunMs(ts[t].schedule)
  BY DEF recomputeAllNextRuns, ResetMarks, Table, Task
<1>2. Vouched(us) /\ Vouched(ResetMarks(ts))
  BY <1>1 DEF Vouched
<1>3. ASSUME NEW t \in Tasks, NEW i \in Instants
      PROVE  shots[t][i] + Cost(us[t].status = "enabled" /\ us[t].next = i)
               <= asked[t][i] + stale[t][i]
  <2>1. /\ shots[t][i] \in Nat /\ asked[t][i] \in Nat /\ stale[t][i] \in Nat
        /\ Waits(t, i) \in Nat /\ shots[t][i] + Waits(t, i) <= asked[t][i] + stale[t][i]
    BY HistoryNat DEF Waits, Cost, OnceInv, Spent, Base
  <2>2. CASE us[t].status = "enabled" /\ us[t].next = i
    <3>1. ts[t].schedule = i /\ i \notin past
      BY <1>1, <2>2, NextInstant
    <3>2. asked[t][i] >= 1 /\ shots[t][i] = 0
      BY <3>1 DEF Vouched, OnceInv
    <3> QED
      BY <2>1, <2>2, <3>2 DEF Cost
  <2>3. CASE ~(us[t].status = "enabled" /\ us[t].next = i)
    BY <2>1, <2>3 DEF Cost
  <2> QED
    BY <2>2, <2>3
<1> QED
  BY <1>2, <1>3

LEMMA StartOnce ==
    ASSUME OnceInv, Base', start
    PROVE  OnceInv'
<1> DEFINE ts == recomputeAllNextRuns(ResetMarks(file))
<1>1. /\ tasks' = ts /\ (file' = file \/ file' = ts)
      /\ UNCHANGED <<past, held, shots, asked, stale, missed>>
  BY DEF start, persist, snapVars, historyVars
<1>2. file \in Table /\ ResetMarks(file) \in Table
  BY ResetType DEF OnceInv, Base, TypeOK
<1>3. Vouched(ResetMarks(file))
  BY <1>2, RecomputeOnce DEF OnceInv
<1>4. /\ Vouched(ts)
      /\ \A t \in Tasks, i \in Instants :
            shots[t][i] + Cost(ts[t].status = "enabled" /\ ts[t].next = i)
              <= asked[t][i] + stale[t][i]
  BY <1>2, <1>3, RecomputeOnce
<1> HIDE DEF ts
<1>5. \A t \in Tasks, i \in Instants : Spent(t, i)'
  BY <1>1, <1>4 DEF Spent, Waits
<1> QED
  BY <1>1, <1>4, <1>5 DEF OnceInv, Vouched

\* A change to a table that is vouched for, and whose next runs are asked for.
LEMMA ChangeOnce ==
    ASSUME OnceInv, NEW source \in Sources, NEW ts \in Table, Change(source, ts),
           asked' \in [Tasks -> [Instants -> Nat]],
           \A t \in Tasks, i \in Instants : asked[t][i] <= asked'[t][i],
           \A t \in Tasks : \A i \in Instants \ past : ts[t].schedule = i => asked'[t][i] >= 1,
           \A t \in Tasks, i \in Instants :
              shots[t][i] + Cost(ts[t].status = "enabled" /\ ts[t].next = i)
                <= asked'[t][i] + stale[t][i]
    PROVE  OnceInv'
<1>1. /\ Base'
      /\ tasks' = ts /\ (file' = file \/ file' = ts)
      /\ \A s \in DOMAIN held' : held'[s] = tasks \/ (s \in DOMAIN held /\ held'[s] = held[s])
      /\ UNCHANGED <<missed, past, shots, stale>>
  BY ChangeBase DEF OnceInv
<1>2. \A t \in Tasks, i \in Instants : asked[t][i] \in Nat /\ asked'[t][i] \in Nat
  BY HistoryNat DEF OnceInv, Base
<1>3. VouchedNext(ts) /\ VouchedNext(tasks) /\ VouchedNext(file)
      /\ \A s \in DOMAIN held : VouchedNext(held[s])
  <2>1. VouchedNext(ts)
    BY <1>1 DEF VouchedNext
  <2>2. ASSUME NEW us, Vouched(us)
        PROVE  VouchedNext(us)
    BY <1>1, <1>2, <2>2, VouchedKept
  <2> QED
    BY <2>1, <2>2 DEF OnceInv
<1>4. Vouched(tasks)' /\ Vouched(file)' /\ \A s \in DOMAIN held' : Vouched(held[s])'
  <2>1. VouchedNext(tasks') /\ VouchedNext(file') /\ \A s \in DOMAIN held' : VouchedNext(held'[s])
    BY <1>1, <1>3
  <2> QED
    BY <2>1 DEF Vouched, VouchedNext
<1>5. \A t \in Tasks, i \in Instants : Spent(t, i)'
  BY <1>1 DEF Spent, Waits
<1> QED
  BY <1>1, <1>4, <1>5 DEF OnceInv

LEMMA AskMore ==
    ASSUME TypeOK, NEW t \in Tasks, NEW s, Ask(t, s)
    PROVE  \A u \in Tasks, i \in Instants :
              asked'[u][i] = asked[u][i] + Cost(u = t /\ s = i)
<1>1. asked \in [Tasks -> [Instants -> Nat]]
  BY DEF TypeOK
<1>2. \A i \in Instants : asked'[t][i] = asked[t][i] + Cost(s = i)
  BY <1>1 DEF Ask
<1>3. \A u \in Tasks, i \in Instants : u # t => asked'[u][i] = asked[u][i] + 0
  BY <1>1 DEF Ask
<1> QED
  BY <1>2, <1>3 DEF Cost

LEMMA UpdateOnce ==
    ASSUME OnceInv, NEW t \in Tasks, NEW patch \in Patch, update(t, patch)
    PROVE  OnceInv'
<1> DEFINE merged == Merged(t, patch)
           ts == [tasks EXCEPT ![t] = merged]
           asks == patch.status = "enabled" \/ patch.schedule # "kept"
<1>1. /\ Change("update", ts)
      /\ IF asks THEN Ask(t, merged.next) ELSE UNCHANGED asked
  BY DEF update, Merged
<1>2. /\ TypeOK /\ tasks \in Table /\ tasks[t] \in Task
      /\ ts \in Table /\ "update" \in Sources
  BY MergedType DEF OnceInv, Base, TypeOK, Table, Sources
<1>3. /\ merged.status = IF patch.status = "kept" THEN tasks[t].status ELSE patch.status
      /\ merged.schedule = IF patch.schedule = "kept" THEN tasks[t].schedule ELSE patch.schedule
      /\ merged.next = IF patch.schedule = "kept" THEN tasks[t].next
                       ELSE computeNextRunMs(patch.schedule)
      /\ patch.status \in {"kept", "enabled", "disabled"}
  BY <1>2 DEF Merged, Task, Patch
<1> HIDE DEF merged
<1>4. /\ ts[t] = merged /\ \A u \in Tasks : u # t => ts[u] = tasks[u]
  BY <1>2 DEF Table
<1> HIDE DEF ts
<1>5. \A u \in Tasks, i \in Instants :
        asked'[u][i] = asked[u][i] + Cost(asks /\ u = t /\ merged.next = i)
  <2>1. CASE asks
    BY <1>1, <1>2, <2>1, AskMore
  <2>2. CASE ~asks
    BY <1>1, <1>2, <2>2, HistoryNat DEF Cost
  <2> QED
    BY <2>1, <2>2
<1> HIDE DEF asks
<1>6. \A u \in Tasks, i \in Instants :
        /\ shots[u][i] \in Nat /\ asked[u][i] \in Nat /\ stale[u][i] \in Nat
        /\ Waits(u, i) \in Nat /\ shots[u][i] + Waits(u, i) <= asked[u][i] + stale[u][i]
  BY <1>2, HistoryNat DEF Waits, Cost, OnceInv, Spent
<1>7. asked' \in [Tasks -> [Instants -> Nat]]
      /\ \A u \in Tasks, i \in Instants : asked[u][i] <= asked'[u][i]
  <2>1. asked' \in [Tasks -> [Instants -> Nat]]
    BY <1>1, <1>2, AskType DEF TypeOK
  <2> QED
    BY <1>5, <1>6, <2>1 DEF Cost
<1>8. ASSUME NEW u \in Tasks, NEW i \in Instants \ past, ts[u].schedule = i
      PROVE  asked'[u][i] >= 1
  <2>1. CASE tasks[u].schedule = i
    <3>1. asked[u][i] >= 1
      BY <2>1 DEF OnceInv, Vouched
    <3> QED
      BY <1>5, <1>6, <3>1 DEF Cost
  <2>2. CASE tasks[u].schedule # i
    <3>1. u = t /\ patch.schedule = i /\ patch.schedule # "kept"
      BY <1>3, <1>4, <1>8, <2>2
    <3>2. asks /\ merged.next = i
      BY <1>3, <3>1 DEF computeNextRunMs, asks
    <3> QED
      BY <1>5, <1>6, <3>1, <3>2 DEF Cost
  <2> QED
    BY <2>1, <2>2
<1>9. ASSUME NEW u \in Tasks, NEW i \in Instants
      PROVE  shots[u][i] + Cost(ts[u].status = "enabled" /\ ts[u].next = i)
               <= asked'[u][i] + stale[u][i]
  <2>1. CASE asks /\ u = t /\ merged.next = i
    BY <1>5, <1>6, <2>1 DEF Cost
  <2>2. CASE ~(asks /\ u = t /\ merged.next = i)
    <3>1. ts[u].status = "enabled" /\ ts[u].next = i => tasks[u].status = "enabled" /\ tasks[u].next = i
      BY <1>3, <1>4, <2>2 DEF asks
    <3>2. Cost(ts[u].status = "enabled" /\ ts[u].next = i) <= Waits(u, i)
      BY <3>1 DEF Waits, Cost
    <3>3. Cost(ts[u].status = "enabled" /\ ts[u].next = i) \in Nat /\ asked'[u][i] = asked[u][i]
      BY <1>5, <1>6, <2>2 DEF Cost
    <3> QED
      BY <1>6, <3>2, <3>3
  <2> QED
    BY <2>1, <2>2
<1> QED
  BY <1>1, <1>2, <1>7, <1>8, <1>9, ChangeOnce

LEMMA AddOnce ==
    ASSUME OnceInv, NEW t \in Tasks, NEW s \in Schedules, add(t, s)
    PROVE  OnceInv'
<1> DEFINE ts == [tasks EXCEPT ![t] = New(s)]
<1>1. Change("add", ts) /\ Ask(t, s) /\ tasks[t].status = "absent"
  BY DEF add
<1>2. TypeOK /\ tasks \in Table /\ ts \in Table /\ "add" \in Sources
  BY ChangedTables DEF OnceInv, Base, TypeOK, Sources
<1>3. ts[t] = New(s) /\ \A u \in Tasks : u # t => ts[u] = tasks[u]
  BY <1>2 DEF Table
<1> HIDE DEF ts
<1>4. \A u \in Tasks, i \in Instants : asked'[u][i] = asked[u][i] + Cost(u = t /\ s = i)
  BY <1>1, <1>2, AskMore
<1>5. \A u \in Tasks, i \in Instants :
        /\ shots[u][i] \in Nat /\ asked[u][i] \in Nat /\ stale[u][i] \in Nat
        /\ Waits(u, i) \in Nat /\ shots[u][i] + Waits(u, i) <= asked[u][i] + stale[u][i]
  BY <1>2, HistoryNat DEF Waits, Cost, OnceInv, Spent
<1>6. asked' \in [Tasks -> [Instants -> Nat]]
      /\ \A u \in Tasks, i \in Instants : asked[u][i] <= asked'[u][i]
  <2>1. asked' \in [Tasks -> [Instants -> Nat]]
    BY <1>1, <1>2, AskType
  <2> QED
    BY <1>4, <1>5, <2>1 DEF Cost
<1>7. ASSUME NEW u \in Tasks, NEW i \in Instants \ past, ts[u].schedule = i
      PROVE  asked'[u][i] >= 1
  <2>1. CASE u = t
    BY <1>3, <1>4, <1>5, <1>7, <2>1 DEF New, Cost
  <2>2. CASE u # t
    <3>1. asked[u][i] >= 1
      BY <1>3, <1>7, <2>2 DEF OnceInv, Vouched
    <3> QED
      BY <1>4, <1>5, <3>1 DEF Cost
  <2> QED
    BY <2>1, <2>2
<1>8. ASSUME NEW u \in Tasks, NEW i \in Instants
      PROVE  shots[u][i] + Cost(ts[u].status = "enabled" /\ ts[u].next = i)
               <= asked'[u][i] + stale[u][i]
  <2>1. CASE u = t
    <3>1. ts[u].next = i => s = i
      BY <1>3, <2>1, NextInstant DEF New
    <3>2. Cost(ts[u].status = "enabled" /\ ts[u].next = i) <= Cost(u = t /\ s = i)
      BY <2>1, <3>1 DEF Cost
    <3>3. Cost(ts[u].status = "enabled" /\ ts[u].next = i) \in Nat /\ Cost(u = t /\ s = i) \in Nat
      BY DEF Cost
    <3> QED
      BY <1>4, <1>5, <3>2, <3>3
  <2>2. CASE u # t
    <3>1. Cost(ts[u].status = "enabled" /\ ts[u].next = i) = Waits(u, i)
      BY <1>3, <2>2 DEF Waits
    <3> QED
      BY <1>5, <1>6, <3>1
  <2> QED
    BY <2>1, <2>2
<1> QED
  BY <1>1, <1>2, <1>6, <1>7, <1>8, ChangeOnce

\* A removal asks for nothing and takes what its task waited for.
LEMMA RemoveOnce ==
    ASSUME OnceInv, NEW t \in Tasks, remove(t)
    PROVE  OnceInv'
<1> DEFINE ts == [tasks EXCEPT ![t] = Absent]
<1>1. Change("remove", ts) /\ UNCHANGED asked
  BY DEF remove
<1>2. TypeOK /\ tasks \in Table /\ ts \in Table /\ "remove" \in Sources
      /\ asked \in [Tasks -> [Instants -> Nat]]
  BY ChangedTables DEF OnceInv, Base, TypeOK, Sources
<1>3. ts[t] = Absent /\ \A u \in Tasks : u # t => ts[u] = tasks[u]
  BY <1>2 DEF Table
<1>4. Absent.status = "absent" /\ Absent.schedule \notin Instants
  BY CronAssumption DEF Absent
<1> HIDE DEF ts
<1>5. \A u \in Tasks, i \in Instants :
        /\ shots[u][i] \in Nat /\ asked[u][i] \in Nat /\ stale[u][i] \in Nat
        /\ Waits(u, i) \in Nat /\ shots[u][i] + Waits(u, i) <= asked[u][i] + stale[u][i]
  BY <1>2, HistoryNat DEF Waits, Cost, OnceInv, Spent
<1>6. \A u \in Tasks : \A i \in Instants \ past : ts[u].schedule = i => asked'[u][i] >= 1
  BY <1>1, <1>3, <1>4 DEF OnceInv, Vouched
<1>7. ASSUME NEW u \in Tasks, NEW i \in Instants
      PROVE  shots[u][i] + Cost(ts[u].status = "enabled" /\ ts[u].next = i)
               <= asked[u][i] + stale[u][i]
  <2>1. \/ Cost(ts[u].status = "enabled" /\ ts[u].next = i) = Waits(u, i)
        \/ Cost(ts[u].status = "enabled" /\ ts[u].next = i) = 0
    BY <1>3, <1>4 DEF Waits, Cost
  <2> QED
    BY <1>5, <2>1
<1> QED
  BY <1>1, <1>2, <1>5, <1>6, <1>7, ChangeOnce

LEMMA RollbackOnce ==
    ASSUME OnceInv, NEW id \in DOMAIN held, rollback(id)
    PROVE  OnceInv'
<1> DEFINE ts == recomputeAllNextRuns(held[id])
<1>1. Change("rollback", ts) /\ UNCHANGED asked
  BY DEF rollback
<1>2. TypeOK /\ held[id] \in Table /\ ts \in Table /\ "rollback" \in Sources
      /\ asked \in [Tasks -> [Instants -> Nat]]
  BY ChangedTables DEF OnceInv, Base, TypeOK, Sources
<1>3. /\ Vouched(ts)
      /\ \A t \in Tasks, i \in Instants :
            shots[t][i] + Cost(ts[t].status = "enabled" /\ ts[t].next = i)
              <= asked[t][i] + stale[t][i]
  BY <1>2, RecomputeOnce DEF OnceInv
<1> HIDE DEF ts
<1>4. \A t \in Tasks, i \in Instants : asked[t][i] \in Nat
  BY <1>2
<1> QED
  BY <1>1, <1>2, <1>3, <1>4, ChangeOnce DEF Vouched

LEMMA NextOnce ==
    ASSUME OnceInv, [Next]_vars
    PROVE  OnceInv'
<1>1. Base /\ Base' /\ tasks \in Table
  BY NextBase DEF OnceInv, Base, TypeOK
<1>2. "due" \notin Instants /\ Absent.next \notin Instants /\ Absent.schedule \notin Instants
  BY CronAssumption DEF Absent
<1>3. \A t \in Tasks, i \in Instants : Waits(t, i) \in Nat
  BY DEF Waits, Cost
<1>4. CASE start
  BY <1>1, <1>4, StartOnce
<1>5. CASE catchUpMissedJobs
  <2>1. /\ missed' = [t \in Tasks |-> IF Due(tasks[t]) THEN tasks[t] ELSE Absent]
        /\ UNCHANGED <<tasks, file, held, past, shots, asked, stale>>
    BY <1>5 DEF catchUpMissedJobs, snapVars, historyVars
  <2>2. \A t \in Tasks : missed'[t].next \in Instants => missed'[t].next \in past
    BY <1>2, <2>1 DEF Due
  <2>3. \A t \in Tasks, i \in Instants : Waits(t, i)' <= Waits(t, i)
    BY <1>3, <2>1 DEF Waits
  <2> QED
    BY <1>1, <2>1, <2>2, <2>3, SameOnce
<1>6. CASE CaughtUp \/ stop \/ UNCHANGED vars \/ \E i \in Instants : Pass(i)
  <2>1. /\ missed' = missed \/ missed' = [t \in Tasks |-> Absent]
        /\ past \subseteq past'
        /\ UNCHANGED <<tasks, file, held, shots, asked, stale>>
    BY <1>6 DEF CaughtUp, stop, Pass, vars, memVars, snapVars, historyVars
  <2>2. \A t \in Tasks : missed'[t].next \in Instants => missed'[t].next \in past
    BY <1>2, <2>1 DEF OnceInv
  <2>3. \A t \in Tasks, i \in Instants : Waits(t, i)' <= Waits(t, i)
    BY <1>3, <2>1 DEF Waits
  <2> QED
    BY <1>1, <2>1, <2>2, <2>3, SameOnce
<1>7. CASE onTick
  BY <1>1, <1>7, TickOnce
<1>8. CASE Exit
  <2>1. /\ tasks' = [t \in Tasks |-> Absent] /\ missed' = [t \in Tasks |-> Absent]
        /\ UNCHANGED <<file, held, past, shots, asked, stale>>
    BY <1>8 DEF Exit, snapVars, historyVars
  <2>2. \A t \in Tasks, i \in Instants : Waits(t, i)' <= Waits(t, i)
    <3>1. \A t \in Tasks, i \in Instants : Waits(t, i)' = 0
      BY <2>1 DEF Waits, Cost, Absent
    <3> QED
      BY <1>3, <3>1
  <2> QED
    BY <1>1, <1>2, <2>1, <2>2, SameOnce
<1>9. ASSUME NEW t \in Tasks, runNow(t)
      PROVE  OnceInv'
  <2>1. PICK failed \in BOOLEAN : Begin(t, "hand", tasks[t], failed)
    BY <1>9 DEF runNow
  <2>2. UNCHANGED <<missed, held, past, shots, asked, stale>>
    BY <1>9 DEF runNow, snapVars
  <2>3. /\ \A u \in Tasks : tasks'[u].schedule = tasks[u].schedule
        /\ \A u \in Tasks, i \in Instants : Waits(u, i)' <= Waits(u, i)
        /\ file' = file \/ file' = tasks'
    BY <1>1, <2>1, BeginOnce
  <2> QED
    BY <1>1, <2>2, <2>3, SameOnce DEF OnceInv
<1>10. ASSUME NEW t \in Tasks, CatchUpNext(t)
       PROVE  OnceInv'
  BY <1>1, <1>10, CatchUpOnce
<1>11. ASSUME NEW t \in Tasks, Elapse(t)
       PROVE  OnceInv'
  <2>1. /\ tasks' = [tasks EXCEPT ![t].next = "due"]
        /\ UNCHANGED <<file, missed, held, past, shots, asked, stale>>
    BY <1>11 DEF Elapse, snapVars, historyVars
  <2>2. \A u \in Tasks : /\ tasks'[u].schedule = tasks[u].schedule
                         /\ tasks'[u].status = tasks[u].status
                         /\ tasks'[u].next = tasks[u].next \/ tasks'[u].next \notin Instants
    BY <1>1, <1>2, <2>1 DEF Table, Task
  <2>3. \A u \in Tasks, i \in Instants : Waits(u, i)' = Waits(u, i) \/ Waits(u, i)' = 0
    BY <2>2 DEF Waits, Cost
  <2>4. \A u \in Tasks, i \in Instants : Waits(u, i)' <= Waits(u, i)
    BY <1>3, <2>3
  <2> QED
    BY <1>1, <2>1, <2>2, <2>4, SameOnce DEF OnceInv
<1>12. ASSUME NEW t \in Tasks, \/ remove(t)
                               \/ \E s \in Schedules : add(t, s)
                               \/ \E patch \in Patch : update(t, patch)
       PROVE  OnceInv'
  BY <1>12, RemoveOnce, AddOnce, UpdateOnce
<1>13. ASSUME NEW id \in DOMAIN held, rollback(id)
       PROVE  OnceInv'
  BY <1>13, RollbackOnce
<1>14. ASSUME NEW r \in runs, NEW ok \in BOOLEAN, Finish(r, ok)
       PROVE  OnceInv'
  BY <1>1, <1>14, FinishOnce
<1> QED
  BY <1>4, <1>5, <1>6, <1>7, <1>8, <1>9, <1>10, <1>11, <1>12, <1>13, <1>14 DEF Next

\* OneShotOnce: the timer serves an instant once for each time an operator asked
\* for it, and the catch-up once more for each copy it starts that its task no
\* longer waits for (catchUpMissedJobs on captured tasks).
THEOREM InstantsAreServedOnce == Spec => []OneShotOnce
<1>1. Init => OnceInv
  <2> SUFFICES ASSUME Init PROVE OnceInv
    OBVIOUS
  <2>1. /\ past = {} /\ DOMAIN held = {}
        /\ \A t \in Tasks : tasks[t] = Absent /\ missed[t] = Absent
        /\ \A t \in Tasks, i \in Instants : shots[t][i] = 0 /\ stale[t][i] = 0
        /\ \A t \in Tasks, i \in Instants : asked[t][i] = Cost(file[t].next = i)
    BY DEF Init
  <2>2. Absent.status = "absent" /\ Absent.next \notin Instants /\ Absent.schedule \notin Instants
    BY CronAssumption DEF Absent
  <2>3. \A t \in Tasks, i \in Instants : Spent(t, i)
    BY <2>1, <2>2 DEF Spent, Waits, Cost
  <2>4. Vouched(file)
    <3> SUFFICES ASSUME NEW t \in Tasks, NEW i \in Instants, file[t].schedule = i
                 PROVE  asked[t][i] >= 1
      BY DEF Vouched
    <3>1. PICK s \in Schedules : file[t] = New(s)
      BY <2>2 DEF Init
    <3>2. file[t].next = i
      BY <2>1, <3>1 DEF New, computeNextRunMs
    <3> QED
      BY <2>1, <3>2 DEF Cost
  <2> QED
    BY <2>1, <2>2, <2>3, <2>4, InitBase DEF OnceInv, Vouched
<1>2. OnceInv => OneShotOnce
  <2> SUFFICES ASSUME OnceInv, NEW t \in Tasks, NEW i \in Instants
               PROVE  shots[t][i] <= asked[t][i] + stale[t][i]
    BY DEF OneShotOnce
  <2>1. /\ shots[t][i] \in Nat /\ asked[t][i] \in Nat /\ stale[t][i] \in Nat
        /\ Waits(t, i) \in Nat /\ shots[t][i] + Waits(t, i) <= asked[t][i] + stale[t][i]
    BY HistoryNat DEF Waits, Cost, OnceInv, Spent, Base
  <2> QED
    BY <2>1
<1> QED
  BY <1>1, <1>2, NextOnce, PTL DEF Spec

=============================================================================
