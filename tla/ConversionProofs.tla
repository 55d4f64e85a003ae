-------------------------- MODULE ConversionProofs --------------------------
(***************************************************************************)
(* Proofs about Conversion, for any papers, hosts and concurrency: its     *)
(* types, that each paper is reported once, that nothing runs on after a   *)
(* batch, that converters are bounded, that hosts which gave up are left   *)
(* alone, and that it implements ConvertBatch.                             *)
(***************************************************************************)
EXTENDS Conversion, FiniteSetTheorems, TLAPS

ProcState == {"none", "running", "signalled", "gone"}

\* A task and its process agree on whether a converter is alive.
ProcessOK(p) ==
  /\ task[p].stage \in {"lock", "send", "request", "slot"} => proc[p] = "none"
  /\ task[p].stage = "run" => proc[p] \in {"running", "gone"}
  /\ task[p].stage \in {"timing_out", "stopping"} => proc[p] \in {"signalled", "gone"}
  /\ task[p].stage = "ended" => proc[p] # "running"

\* How a task can end depends on the kind of the paper and on its first host.
OutcomeOK(p) ==
  /\ task[p].stage = "ended" <=> task[p].outcome # "none"
  /\ SetAside(p, Fast) => task[p].outcome = "needs_pdf"
  /\ task[p].outcome = "needs_pdf" => Fast /\ Format[p] = "pdf"
  /\ p \in Throttled /\ ~SetAside(p, Fast) =>
       /\ task[p].source = FirstSource(p)
       /\ task[p].stage \in {"lock", "send", "request", "ended"}
       /\ task[p].stage \in {"send", "request"} => task[p].at = HostOf(p)
       /\ task[p].outcome \in {"none", "deferred", "broken", "cancelled"}

PaperOK(p) ==
  /\ HoldsLock(p) => task[p].tries < Attempts[HostOf(p)]
  /\ ProcessOK(p)
  /\ OutcomeOK(p)

TasksOK ==
  /\ task \in [Papers -> Task]
  /\ proc \in [Papers -> ProcState]
  /\ \A p \in Papers : PaperOK(p)

-----------------------------------------------------------------------------
(***************************************************************************)
(* One step of one task.                                                   *)
(***************************************************************************)

LEMMA OwnType == Own \in Nat \ {0} /\ Own = Len(Renderings) + 1
BY ConversionAssumption DEF Own

LEMMA SourceHostType ==
  ASSUME NEW p \in Papers, NEW s \in 1..Own
  PROVE  SourceHost(p, s) \in Hosts
<1>1. CASE s = Own
  BY <1>1, ConversionAssumption DEF SourceHost
<1>2. CASE s # Own
  <2>1. s \in 1..Len(Renderings)
    BY <1>2, OwnType, ConversionAssumption
  <2> QED
    BY <1>2, <2>1, ConversionAssumption DEF SourceHost
<1> QED
  BY <1>1, <1>2

LEMMA FirstSourceType ==
  ASSUME NEW p \in Papers
  PROVE  FirstSource(p) \in 1..Own
BY OwnType DEF FirstSource

LEMMA FirstIsOwn ==
  ASSUME NEW p \in Papers
  PROVE  FirstSource(p) = Own <=> p \notin ArxivIds
BY OwnType, ConversionAssumption DEF FirstSource

\* Turning to a source sets exactly the PDFs of a fast pass aside.
LEMMA TurnType ==
  ASSUME NEW p \in Papers, NEW t \in Task, NEW s \in 1..Own
  PROVE  /\ Turn(p, t, s) \in Task
         /\ Turn(p, t, s).source = s
         /\ \/ /\ s = Own /\ Fast /\ Format[p] = "pdf"
               /\ Turn(p, t, s).stage = "ended"
               /\ Turn(p, t, s).outcome = "needs_pdf"
            \/ /\ ~(s = Own /\ Fast /\ Format[p] = "pdf")
               /\ Turn(p, t, s).stage = "lock"
               /\ Turn(p, t, s).outcome = t.outcome
BY DEF Turn, End, Task, Stage, TaskOutcome

LEMMA InitTasks == Init => TasksOK
<1> SUFFICES ASSUME Init PROVE TasksOK
  OBVIOUS
<1> DEFINE t0(p) == [stage |-> "lock", source |-> 1, figures |-> 0, tries |-> 0,
                     at |-> InputHost[p], outcome |-> "none"]
<1>1. \A p \in Papers : t0(p) \in Task
  BY OwnType, ConversionAssumption DEF Task, Stage, TaskOutcome
<1>2. \A p \in Papers : task[p] = Turn(p, t0(p), FirstSource(p)) /\ proc[p] = "none"
  BY DEF Init
<1> HIDE DEF t0
<1>3. task \in [Papers -> Task] /\ proc \in [Papers -> ProcState]
  BY <1>1, FirstSourceType, TurnType DEF Init, t0, ProcState
<1>4. ASSUME NEW p \in Papers
      PROVE  PaperOK(p)
  <2>0. t0(p).outcome = "none"
    BY DEF t0
  <2>1. /\ task[p].source = FirstSource(p)
        /\ \/ /\ FirstSource(p) = Own /\ Fast /\ Format[p] = "pdf"
              /\ task[p].stage = "ended" /\ task[p].outcome = "needs_pdf"
           \/ /\ ~(FirstSource(p) = Own /\ Fast /\ Format[p] = "pdf")
              /\ task[p].stage = "lock" /\ task[p].outcome = "none"
    BY <1>1, <1>2, <2>0, FirstSourceType, TurnType
  <2>2. ProcessOK(p)
    BY <1>2, <2>1 DEF ProcessOK
  <2>3. SetAside(p, Fast) <=> FirstSource(p) = Own /\ Fast /\ Format[p] = "pdf"
    BY FirstIsOwn, KindAssumption, ConversionAssumption DEF SetAside
  <2>5. OutcomeOK(p)
    BY <2>1, <2>3 DEF OutcomeOK
  <2> QED
    BY <2>1, <2>2, <2>5 DEF PaperOK, HoldsLock
<1> QED
  BY <1>3, <1>4 DEF TasksOK

\* What one step of the task of a paper, or of its process, does.
Moves(p) ==
  /\ task' \in [Papers -> Task] /\ proc' \in [Papers -> ProcState]
  /\ \A q \in Papers \ {p} : task'[q] = task[q] /\ proc'[q] = proc[q]
  /\ PaperOK(p)'
  /\ task[p].stage = "ended" => task'[p] = task[p]
  /\ task'[p].stage = "stopping" => task[p].stage = "stopping"
  /\ task'[p].outcome = "cancelled" =>
       task[p].outcome = "cancelled" \/ task[p].stage = "stopping"
  /\ task[p].stage = "stopping" =>
       task'[p].stage = "stopping" \/ task'[p].outcome = "cancelled"

LEMMA StepType ==
  ASSUME NEW p \in Papers, NEW t \in Task, task \in [Papers -> Task], Step(p, t)
  PROVE  /\ task' \in [Papers -> Task]
         /\ task'[p] = t
         /\ \A q \in Papers \ {p} : task'[q] = task[q]
BY DEF Step

LEMMA AcquireMoves ==
  ASSUME NEW p \in Papers, TasksOK, Acquire(p)
  PROVE  Moves(p)
<1> USE DEF TasksOK
<1>1. task[p] \in Task /\ HostOf(p) \in Hosts /\ PaperOK(p) /\ proc' = proc
  BY SourceHostType DEF Task, HostOf, Acquire
<1>2. Attempts[HostOf(p)] \in Nat \ {0}
  BY <1>1, ConversionAssumption
<1>3. CASE HostOf(p) \in limited
  <2>1. /\ End(task[p], "deferred") \in Task
        /\ Step(p, End(task[p], "deferred"))
    BY <1>1, <1>3 DEF Acquire, End, Task, Stage, TaskOutcome
  <2>2. task'[p] = End(task[p], "deferred")
    BY <2>1, StepType
  <2>3. PaperOK(p)'
    BY <1>1, <2>1, <2>2
    DEF Acquire, PaperOK, ProcessOK, OutcomeOK, HoldsLock, End, Task, HostOf
  <2> QED
    BY <1>1, <2>1, <2>2, <2>3, StepType DEF Acquire, Moves, End, Task
<1>4. CASE HostOf(p) \notin limited
  <2> DEFINE t == [task[p] EXCEPT !.stage = "send", !.tries = 0, !.at = HostOf(p)]
  <2>1. t \in Task /\ Step(p, t)
    BY <1>1, <1>4 DEF Acquire, Task, Stage
  <2>2. task'[p] = t
    BY <2>1, StepType
  <2>3. PaperOK(p)'
    BY <1>1, <1>2, <2>1, <2>2
    DEF Acquire, PaperOK, ProcessOK, OutcomeOK, HoldsLock, Task, HostOf
  <2> QED
    BY <1>1, <2>1, <2>2, <2>3, StepType DEF Acquire, Moves, Task
<1> QED
  BY <1>3, <1>4

LEMMA SendMoves ==
  ASSUME NEW p \in Papers, TasksOK, Send(p)
  PROVE  Moves(p)
<1> USE DEF TasksOK
<1>1. task[p] \in Task /\ PaperOK(p) /\ proc' = proc /\ task[p].stage = "send"
  BY DEF Send
<1>2. PICK h \in Hops[task[p].at] :
        Step(p, [task[p] EXCEPT !.stage = "request", !.at = h])
  BY DEF Send
<1> DEFINE t == [task[p] EXCEPT !.stage = "request", !.at = h]
<1>3. h \in Hosts /\ (task[p].at \in Refusing => h = task[p].at)
  BY <1>1, ConversionAssumption DEF Task
<1>4. t \in Task /\ task'[p] = t
  BY <1>1, <1>2, <1>3, StepType DEF Task, Stage
<1>5. p \in Throttled => SourceHost(p, FirstSource(p)) \in Refusing
  BY KindAssumption
<1>6. PaperOK(p)'
  BY <1>1, <1>3, <1>4, <1>5
  DEF PaperOK, ProcessOK, OutcomeOK, HoldsLock, Task, HostOf
<1> QED
  BY <1>1, <1>2, <1>4, <1>6, StepType DEF Moves, Task

LEMMA RefusedMoves ==
  ASSUME NEW p \in Papers, TasksOK, Refused(p)
  PROVE  Moves(p)
<1> USE DEF TasksOK
<1> DEFINE last == task[p].tries + 1 = Attempts[HostOf(p)]
<1> DEFINE t == IF last THEN End(task[p], "deferred")
                ELSE [task[p] EXCEPT !.stage = "send", !.tries = @ + 1]
<1>1. /\ task[p] \in Task /\ PaperOK(p) /\ proc' = proc
      /\ task[p].stage = "request" /\ Step(p, t)
  BY DEF Refused
<1>2. HostOf(p) \in Hosts /\ Attempts[HostOf(p)] \in Nat \ {0}
  BY <1>1, SourceHostType, ConversionAssumption DEF Task, HostOf
<1>3. t \in Task
  <2>1. End(task[p], "deferred") \in Task
    BY <1>1 DEF End, Task, Stage, TaskOutcome
  <2>2. task[p].tries + 1 \in Nat
    BY <1>1 DEF Task
  <2>3. [task[p] EXCEPT !.stage = "send", !.tries = @ + 1] \in Task
    BY <1>1, <2>2 DEF Task, Stage
  <2> QED
    BY <2>1, <2>3
<1>4. task'[p] = t
  BY <1>1, <1>3, StepType
<1>5. /\ task[p].outcome = "none" /\ proc[p] = "none"
      /\ ~SetAside(p, Fast)
      /\ task[p].tries < Attempts[HostOf(p)]
  BY <1>1 DEF PaperOK, ProcessOK, OutcomeOK, HoldsLock
<1>6. PaperOK(p)'
  <2>1. CASE last
    <3>1. /\ task'[p].stage = "ended" /\ task'[p].outcome = "deferred"
          /\ task'[p].source = task[p].source
      BY <1>1, <1>4, <2>1 DEF End, Task
    <3> HIDE DEF t
    <3> QED
      BY <1>1, <1>5, <3>1 DEF PaperOK, ProcessOK, OutcomeOK, HoldsLock
  <2>2. CASE ~last
    <3>1. /\ task'[p].stage = "send" /\ task'[p].outcome = "none"
          /\ task'[p].source = task[p].source /\ task'[p].at = task[p].at
          /\ task'[p].tries = task[p].tries + 1
      BY <1>1, <1>4, <1>5, <2>2 DEF Task
    <3>2. HostOf(p)' = HostOf(p)
      BY <3>1 DEF HostOf
    <3>3. task'[p].tries < Attempts[HostOf(p)]
      BY <1>1, <1>2, <1>5, <2>2, <3>1 DEF Task
    <3> HIDE DEF t
    <3> QED
      BY <1>1, <1>5, <3>1, <3>2, <3>3
      DEF PaperOK, ProcessOK, OutcomeOK, HoldsLock
  <2> QED
    BY <2>1, <2>2
<1> QED
  BY <1>1, <1>3, <1>4, <1>6, StepType DEF Moves, End, Task

LEMMA NextFigureType ==
  ASSUME NEW t \in Task, t.figures > 0
  PROVE  /\ NextFigure(t) \in Task
         /\ NextFigure(t).stage \in {"slot", "lock"}
         /\ NextFigure(t).outcome = t.outcome
<1>1. t.figures \in 0..MaxFigures
  BY DEF Task
<1>2. t.figures - 1 \in 0..MaxFigures
  BY <1>1, ConversionAssumption
<1> QED
  BY <1>2 DEF NextFigure, Task, Stage

LEMMA UselessMoves ==
  ASSUME NEW p \in Papers, TasksOK, Useless(p)
  PROVE  Moves(p)
<1> USE DEF TasksOK
<1> DEFINE t == IF task[p].figures > 0 THEN NextFigure(task[p])
                ELSE IF task[p].source = Own THEN End(task[p], "failed")
                ELSE Turn(p, task[p], task[p].source + 1)
<1>1. /\ task[p] \in Task /\ PaperOK(p) /\ proc' = proc
      /\ task[p].stage = "request" /\ task[p].at \notin Refusing /\ Step(p, t)
  BY DEF Useless
<1>2. /\ task[p].outcome = "none" /\ proc[p] = "none"
      /\ ~SetAside(p, Fast)
  BY <1>1 DEF PaperOK, ProcessOK, OutcomeOK
<1>3. p \notin Throttled
  BY <1>1, <1>2, KindAssumption DEF PaperOK, OutcomeOK, HostOf
<1>4. CASE task[p].figures > 0
  <2>1. t \in Task /\ t.stage \in {"slot", "lock"} /\ t.outcome = "none"
    BY <1>1, <1>2, <1>4, NextFigureType
  <2> HIDE DEF t
  <2>2. task'[p] = t
    BY <1>1, <2>1, StepType
  <2>3. PaperOK(p)'
    BY <1>1, <1>2, <1>3, <2>1, <2>2 DEF PaperOK, ProcessOK, OutcomeOK, HoldsLock
  <2> QED
    BY <1>1, <1>2, <2>1, <2>2, <2>3, StepType DEF Moves
<1>5. CASE ~(task[p].figures > 0) /\ task[p].source = Own
  <2>1. t \in Task
    BY <1>1, <1>5 DEF End, Task, Stage, TaskOutcome
  <2>2. task'[p] = t
    BY <1>1, <2>1, StepType
  <2>3. PaperOK(p)'
    BY <1>1, <1>2, <1>3, <1>5, <2>2
    DEF PaperOK, ProcessOK, OutcomeOK, HoldsLock, End, Task
  <2> QED
    BY <1>1, <1>2, <1>5, <2>1, <2>2, <2>3, StepType DEF Moves, End, Task
<1>6. CASE ~(task[p].figures > 0) /\ task[p].source # Own
  <2>1. t = Turn(p, task[p], task[p].source + 1) /\ task[p].source + 1 \in 1..Own
    BY <1>1, <1>6, OwnType DEF Task
  <2> HIDE DEF t
  <2>2. /\ t \in Task
        /\ \/ /\ Fast /\ Format[p] = "pdf"
              /\ t.stage = "ended" /\ t.outcome = "needs_pdf"
           \/ t.stage = "lock" /\ t.outcome = "none"
    BY <1>1, <1>2, <2>1, TurnType
  <2>3. task'[p] = t
    BY <1>1, <2>2, StepType
  <2>4. PaperOK(p)'
    BY <1>1, <1>2, <1>3, <2>2, <2>3 DEF PaperOK, ProcessOK, OutcomeOK, HoldsLock
  <2> QED
    BY <1>1, <1>2, <2>2, <2>3, <2>4, StepType DEF Moves
<1> QED
  BY <1>4, <1>5, <1>6

LEMMA ServedMoves ==
  ASSUME NEW p \in Papers, NEW images \in 0..MaxFigures, TasksOK, Served(p, images)
  PROVE  Moves(p)
<1> USE DEF TasksOK
<1> DEFINE t == IF task[p].figures > 0 THEN NextFigure(task[p])
                ELSE [task[p] EXCEPT !.figures = images,
                                     !.stage = IF images > 0 THEN "lock" ELSE "slot"]
<1>1. /\ task[p] \in Task /\ PaperOK(p) /\ proc' = proc
      /\ task[p].stage = "request" /\ task[p].at \notin Refusing /\ Step(p, t)
  BY DEF Served
<1>2. /\ task[p].outcome = "none" /\ proc[p] = "none"
      /\ ~SetAside(p, Fast)
  BY <1>1 DEF PaperOK, ProcessOK, OutcomeOK
<1>3. p \notin Throttled
  BY <1>1, <1>2, KindAssumption DEF PaperOK, OutcomeOK, HostOf
<1>4. t \in Task /\ t.stage \in {"lock", "slot"} /\ t.outcome = "none"
  <2>1. CASE task[p].figures > 0
    BY <1>1, <1>2, <2>1, NextFigureType
  <2>2. CASE ~(task[p].figures > 0)
    BY <1>1, <1>2, <2>2 DEF Task, Stage
  <2> QED
    BY <2>1, <2>2
<1>5. task'[p] = t
  BY <1>1, <1>4, StepType
<1> HIDE DEF t
<1>6. PaperOK(p)'
  BY <1>1, <1>2, <1>3, <1>4, <1>5 DEF PaperOK, ProcessOK, OutcomeOK, HoldsLock
<1> QED
  BY <1>1, <1>2, <1>4, <1>5, <1>6, StepType DEF Moves

LEMMA StartProcessMoves ==
  ASSUME NEW p \in Papers, TasksOK, StartProcess(p)
  PROVE  Moves(p)
<1> USE DEF TasksOK
<1> DEFINE t == [task[p] EXCEPT !.stage = "run"]
<1>1. /\ task[p] \in Task /\ PaperOK(p) /\ task[p].stage = "slot" /\ Step(p, t)
      /\ proc' = [proc EXCEPT ![p] = "running"]
  BY DEF StartProcess
<1>2. t \in Task /\ task'[p] = t
  BY <1>1, StepType DEF Task, Stage
<1>3. proc'[p] = "running" /\ proc' \in [Papers -> ProcState]
  BY <1>1 DEF ProcState
<1>4. PaperOK(p)'
  BY <1>1, <1>2, <1>3, FirstIsOwn
  DEF PaperOK, ProcessOK, OutcomeOK, HoldsLock, Task
<1> QED
  BY <1>1, <1>2, <1>3, <1>4, StepType DEF Moves, Task

LEMMA ExitMoves ==
  ASSUME NEW p \in Papers, TasksOK, ProcessExits(p) \/ Kill(p)
  PROVE  Moves(p) /\ task' = task
<1> USE DEF TasksOK
<1>1. /\ PaperOK(p) /\ task' = task /\ proc[p] # "none"
      /\ proc' = [proc EXCEPT ![p] = "gone"]
  BY DEF ProcessExits, Kill
<1>2. proc'[p] = "gone" /\ proc' \in [Papers -> ProcState]
  BY <1>1 DEF ProcState
<1>3. PaperOK(p)'
  BY <1>1, <1>2 DEF PaperOK, ProcessOK, OutcomeOK, HoldsLock, HostOf
<1> QED
  BY <1>1, <1>2, <1>3 DEF Moves

LEMMA TimesOutMoves ==
  ASSUME NEW p \in Papers, TasksOK, TimesOut(p)
  PROVE  Moves(p)
<1> USE DEF TasksOK
<1> DEFINE t == [task[p] EXCEPT !.stage = "timing_out"]
<1>1. /\ task[p] \in Task /\ PaperOK(p) /\ task[p].stage = "run" /\ Step(p, t)
      /\ proc' = [proc EXCEPT ![p] = Terminated(@)]
  BY DEF TimesOut
<1>2. t \in Task /\ task'[p] = t
  BY <1>1, StepType DEF Task, Stage
<1>3. proc'[p] \in {"signalled", "gone"} /\ proc' \in [Papers -> ProcState]
  BY <1>1 DEF ProcState, Terminated, PaperOK, ProcessOK
<1>4. PaperOK(p)'
  BY <1>1, <1>2, <1>3 DEF PaperOK, ProcessOK, OutcomeOK, HoldsLock, Task
<1> QED
  BY <1>1, <1>2, <1>3, <1>4, StepType DEF Moves, Task

\* A task that ends otherwise than deferred ends in one of these ways.
LEMMA EndMoves ==
  ASSUME NEW p \in Papers, TasksOK, proc' = proc,
         NEW how \in {"succeeded", "failed", "broken", "cancelled"},
         Step(p, End(task[p], how)),
         task[p].stage # "ended", proc[p] # "running",
         p \in Throttled => how = "broken",
         how = "cancelled" <=> task[p].stage = "stopping"
  PROVE  Moves(p)
<1> USE DEF TasksOK
<1> DEFINE t == End(task[p], how)
<1>1. /\ task[p] \in Task /\ PaperOK(p)
      /\ t \in Task /\ t.stage = "ended" /\ t.outcome = how
      /\ t.source = task[p].source /\ Step(p, t)
  BY DEF End, Task, Stage, TaskOutcome
<1>2. task'[p] = t
  BY <1>1, StepType
<1> HIDE DEF t
<1>3. PaperOK(p)'
  BY <1>1, <1>2 DEF PaperOK, ProcessOK, OutcomeOK, HoldsLock
<1> QED
  BY <1>1, <1>2, <1>3, StepType DEF Moves

\* A host that refuses every request lets no paper come to a converter.
LEMMA ThrottledNeverRun ==
  ASSUME NEW p \in Papers, TasksOK, HoldsSlot(p)
  PROVE  p \notin Throttled
BY DEF TasksOK, PaperOK, OutcomeOK, HoldsSlot

LEMMA FinishMoves ==
  ASSUME NEW p \in Papers, TasksOK, Finish(p)
  PROVE  Moves(p)
<1>1. PICK how \in {"succeeded", "failed"} : Step(p, End(task[p], how))
  BY DEF Finish
<1>2. task[p].stage = "run" /\ proc[p] = "gone" /\ proc' = proc /\ p \notin Throttled
  BY ThrottledNeverRun DEF Finish, HoldsSlot
<1> QED
  BY <1>1, <1>2, EndMoves

LEMMA ReapedMoves ==
  ASSUME NEW p \in Papers, TasksOK, Reaped(p)
  PROVE  Moves(p)
<1> DEFINE how == IF task[p].stage = "stopping" THEN "cancelled" ELSE "failed"
<1>1. /\ task[p].stage \in {"timing_out", "stopping"} /\ proc[p] = "gone"
      /\ proc' = proc /\ p \notin Throttled /\ Step(p, End(task[p], how))
  BY ThrottledNeverRun DEF Reaped, HoldsSlot
<1>2. how \in {"cancelled", "failed"} /\ (how = "cancelled" <=> task[p].stage = "stopping")
  OBVIOUS
<1> HIDE DEF how
<1> QED
  BY <1>1, <1>2, EndMoves

LEMMA BreaksMoves ==
  ASSUME NEW p \in Papers, TasksOK, Breaks(p)
  PROVE  Moves(p)
<1>1. /\ task[p].stage \in {"request", "slot", "run"} /\ proc' = proc
      /\ Step(p, End(task[p], "broken")) /\ proc[p] # "running"
  BY DEF Breaks, TasksOK, PaperOK, ProcessOK
<1> QED
  BY <1>1, EndMoves

\* What the steps of one paper do to the shared state.
LEMMA RunMoves ==
  ASSUME NEW p \in Papers, TasksOK, Run(p) \/ ProcessExits(p)
  PROVE  Moves(p) /\ UNCHANGED loop
<1>1. CASE Acquire(p)
  BY <1>1, AcquireMoves DEF Acquire
<1>2. CASE Send(p)
  BY <1>2, SendMoves DEF Send
<1>3. CASE Refused(p)
  BY <1>3, RefusedMoves DEF Refused
<1>4. CASE Useless(p)
  BY <1>4, UselessMoves DEF Useless
<1>5. CASE \E images \in 0..MaxFigures : Served(p, images)
  BY <1>5, ServedMoves DEF Served
<1>6. CASE StartProcess(p)
  BY <1>6, StartProcessMoves DEF StartProcess
<1>7. CASE Finish(p)
  BY <1>7, FinishMoves DEF Finish
<1>8. CASE TimesOut(p)
  BY <1>8, TimesOutMoves DEF TimesOut
<1>9. CASE Kill(p) \/ ProcessExits(p)
  BY <1>9, ExitMoves DEF Kill, ProcessExits
<1>10. CASE Reaped(p)
  BY <1>10, ReapedMoves DEF Reaped
<1>11. CASE Breaks(p)
  BY <1>11, BreaksMoves DEF Breaks
<1> QED
  BY <1>1, <1>2, <1>3, <1>4, <1>5, <1>6, <1>7, <1>8, <1>9, <1>10, <1>11 DEF Run

-----------------------------------------------------------------------------
(***************************************************************************)
(* The invariant of the loop of convert_batch: its three collections and   *)
(* where the tasks are.  Only tasks that a budget ended are interrupted,   *)
(* and none has ended otherwise without being collected.                   *)
(***************************************************************************)

HasResult(p) == task[p].outcome \in {"succeeded", "failed", "deferred", "needs_pdf"}

LoopType ==
  /\ main \in {"wait", "stopping", "failing", "promote", "returned", "raised"}
  /\ pending \in SUBSET Papers /\ results \in SUBSET Papers
  /\ interrupted \in SUBSET Papers
  /\ overdue \in BOOLEAN

\* Before the loop stops its tasks none of them is cancelled.
Waiting ==
  /\ results = Papers \ pending /\ interrupted = {}
  /\ \A p \in Papers : task[p].stage # "stopping" /\ task[p].outcome # "cancelled"

Stopping ==
  /\ results = Papers \ pending /\ interrupted = pending
  /\ \A p \in pending : task[p].stage = "stopping" \/ task[p].outcome = "cancelled"

AllEnded == \A p \in Papers : task[p].stage = "ended"

Reported ==
  /\ results = Papers \ interrupted
  /\ \A p \in interrupted : task[p].outcome = "cancelled"
  /\ AllEnded

LoopOK ==
  /\ LoopType
  /\ \A p \in results : HasResult(p)
  /\ \A p \in Papers \ pending : task[p].stage = "ended"
  /\ main = "wait" => Waiting
  /\ main = "stopping" => Stopping
  /\ main = "failing" => \A p \in Papers : task[p].stage \in {"stopping", "ended"}
  /\ main \in {"promote", "returned"} => Reported
  /\ main = "raised" => AllEnded

ConversionInv == TasksOK /\ LoopOK

LEMMA InitLoop == Init => LoopOK
<1> SUFFICES ASSUME Init PROVE LoopOK
  OBVIOUS
<1> DEFINE t0(p) == [stage |-> "lock", source |-> 1, figures |-> 0, tries |-> 0,
                     at |-> InputHost[p], outcome |-> "none"]
<1>1. \A p \in Papers : t0(p) \in Task /\ t0(p).outcome = "none"
  BY OwnType, ConversionAssumption DEF Task, Stage, TaskOutcome
<1>2. \A p \in Papers : task[p] = Turn(p, t0(p), FirstSource(p))
  BY DEF Init
<1> HIDE DEF t0
<1>3. \A p \in Papers : task[p].stage # "stopping" /\ task[p].outcome # "cancelled"
  BY <1>1, <1>2, FirstSourceType, TurnType
<1> QED
  BY <1>3 DEF Init, LoopOK, LoopType, Waiting

\* A step of a task keeps the invariant: what has ended stays as it is.
LEMMA MoveKeeps ==
  ASSUME NEW p \in Papers, TasksOK, LoopOK, Moves(p), UNCHANGED loop
  PROVE  TasksOK' /\ LoopOK'
<1>1. TasksOK'
  <2>1. ASSUME NEW q \in Papers
        PROVE  PaperOK(q)'
    <3>1. CASE q = p
      BY <3>1 DEF Moves
    <3>2. CASE q # p
      <4>1. task'[q] = task[q] /\ proc'[q] = proc[q] /\ PaperOK(q)
        BY <3>2 DEF Moves, TasksOK
      <4> QED
        BY <4>1 DEF PaperOK, ProcessOK, OutcomeOK, HoldsLock, HostOf
    <3> QED
      BY <3>1, <3>2
  <2> QED
    BY <2>1 DEF TasksOK, Moves
<1>2. /\ main' = main /\ pending' = pending /\ results' = results
      /\ interrupted' = interrupted /\ overdue' = overdue
  BY DEF loop
<1>3. \A q \in Papers : task[q].stage = "ended" => task'[q] = task[q]
  BY DEF Moves
<1>4. \A q \in Papers : task[q].outcome # "none" => task[q].stage = "ended"
  BY DEF TasksOK, PaperOK, OutcomeOK
<1>5. \A q \in Papers : task'[q].stage = "stopping" => task[q].stage = "stopping"
  BY DEF Moves
<1>6. \A q \in Papers : task'[q].outcome = "cancelled" =>
        task[q].outcome = "cancelled" \/ task[q].stage = "stopping"
  BY DEF Moves
<1>7. \A q \in Papers : task[q].stage = "stopping" =>
        task'[q].stage = "stopping" \/ task'[q].outcome = "cancelled"
  BY DEF Moves
<1>8. \A q \in Papers : task'[q].outcome = "cancelled" => task'[q].stage = "ended"
  BY <1>1 DEF TasksOK, PaperOK, OutcomeOK
<1>9. LoopType' /\ (\A q \in results : HasResult(q))'
  BY <1>2, <1>3, <1>4 DEF LoopOK, LoopType, HasResult
<1>10. (\A q \in Papers \ pending : task[q].stage = "ended")'
  BY <1>2, <1>3 DEF LoopOK
<1>11. (main = "wait" => Waiting)'
  BY <1>2, <1>5, <1>6 DEF LoopOK, Waiting
<1>12. (main = "stopping" => Stopping)'
  BY <1>2, <1>3, <1>4, <1>7 DEF LoopOK, LoopType, Stopping
<1>13. (main = "failing" => \A q \in Papers : task[q].stage \in {"stopping", "ended"})'
  BY <1>2, <1>3, <1>7, <1>8 DEF LoopOK
<1>14. (main \in {"promote", "returned"} => Reported)'
  BY <1>2, <1>3, <1>4 DEF LoopOK, LoopType, Reported, AllEnded
<1>15. (main = "raised" => AllEnded)'
  BY <1>2, <1>3 DEF LoopOK, AllEnded
<1> QED
  BY <1>1, <1>9, <1>10, <1>11, <1>12, <1>13, <1>14, <1>15 DEF LoopOK

-----------------------------------------------------------------------------
(***************************************************************************)
(* The steps of the loop.                                                  *)
(***************************************************************************)

LEMMA CancelledType ==
  ASSUME NEW t \in Task, t.stage # "ended"
  PROVE  /\ Cancelled(t) \in Task
         /\ Cancelled(t).source = t.source
         /\ \/ /\ t.stage = "run" /\ Cancelled(t).stage = "stopping"
               /\ Cancelled(t).outcome = t.outcome
            \/ /\ t.stage # "run" /\ Cancelled(t).stage = "ended"
               /\ Cancelled(t).outcome = "cancelled"
BY DEF Cancelled, End, Task, Stage, TaskOutcome

\* What cancelling the pending tasks does to all of them.
LEMMA CancelKeeps ==
  ASSUME TasksOK, CancelPending
  PROVE  /\ TasksOK'
         /\ \A p \in Papers :
              /\ p \notin pending \/ task[p].stage = "ended" => task'[p] = task[p]
              /\ p \in pending /\ task[p].stage # "ended" =>
                   \/ task'[p].stage = "stopping"
                   \/ task'[p].stage = "ended" /\ task'[p].outcome = "cancelled"
<1> USE DEF TasksOK
<1>1. \A p \in Papers : p \notin pending \/ task[p].stage = "ended" =>
        task'[p] = task[p] /\ proc'[p] \in {proc[p], Terminated(proc[p])}
  BY DEF CancelPending, Cancelled
<1>2. \A p \in Papers : p \in pending /\ task[p].stage # "ended" =>
        /\ task'[p] = Cancelled(task[p])
        /\ proc'[p] = IF task'[p].stage = "stopping" THEN Terminated(proc[p])
                      ELSE proc[p]
  BY DEF CancelPending
<1>3. ASSUME NEW p \in Papers, p \notin pending \/ task[p].stage = "ended"
      PROVE  task'[p] = task[p] /\ proc'[p] = proc[p] /\ PaperOK(p)'
  <2>1. task'[p] = task[p]
    BY <1>1, <1>3
  <2>2. proc'[p] = proc[p]
    BY <1>3, <2>1 DEF CancelPending
  <2> QED
    BY <2>1, <2>2 DEF PaperOK, ProcessOK, OutcomeOK, HoldsLock, HostOf
<1>4. ASSUME NEW p \in Papers, p \in pending, task[p].stage # "ended"
      PROVE  /\ task'[p] \in Task /\ proc'[p] \in ProcState /\ PaperOK(p)'
             /\ \/ task'[p].stage = "stopping"
                \/ task'[p].stage = "ended" /\ task'[p].outcome = "cancelled"
  <2>1. /\ task'[p] = Cancelled(task[p]) /\ task[p] \in Task /\ PaperOK(p)
        /\ proc[p] \in ProcState
    BY <1>2, <1>4
  <2>2. /\ task'[p] \in Task /\ task'[p].source = task[p].source
        /\ \/ /\ task[p].stage = "run" /\ task'[p].stage = "stopping"
              /\ task'[p].outcome = task[p].outcome
           \/ /\ task[p].stage # "run" /\ task'[p].stage = "ended"
              /\ task'[p].outcome = "cancelled"
    BY <1>4, <2>1, CancelledType
  <2>3. /\ proc'[p] \in ProcState
        /\ task'[p].stage = "stopping" => proc'[p] \in {"signalled", "gone"}
        /\ task'[p].stage = "ended" => proc'[p] # "running"
    <3>1. CASE task[p].stage = "run"
      <4>1. proc'[p] = Terminated(proc[p]) /\ proc[p] \in {"running", "gone"}
        BY <1>2, <1>4, <2>1, <2>2, <3>1 DEF PaperOK, ProcessOK
      <4> QED
        BY <2>2, <3>1, <4>1 DEF Terminated, ProcState
    <3>2. CASE task[p].stage # "run"
      <4>1. proc'[p] = proc[p]
        BY <1>2, <1>4, <2>2, <3>2
      <4>2. task[p].stage \in Stage
        BY <2>1 DEF Task
      <4> QED
        BY <1>4, <2>1, <2>2, <3>2, <4>1, <4>2 DEF PaperOK, ProcessOK, Stage
    <3> QED
      BY <3>1, <3>2
  <2>4. PaperOK(p)'
    BY <1>4, <2>1, <2>2, <2>3 DEF PaperOK, ProcessOK, OutcomeOK, HoldsLock
  <2> QED
    BY <2>2, <2>3, <2>4
<1>5. TasksOK'
  <2>1. \A p \in Papers : task'[p] \in Task /\ proc'[p] \in ProcState /\ PaperOK(p)'
    BY <1>3, <1>4
  <2>2. task' = [p \in Papers |-> task'[p]] /\ proc' = [p \in Papers |-> proc'[p]]
    BY DEF CancelPending
  <2> QED
    BY <2>1, <2>2
<1> QED
  BY <1>3, <1>4, <1>5

LEMMA CollectKeeps == TasksOK /\ LoopOK /\ Collect => TasksOK' /\ LoopOK'
<1> SUFFICES ASSUME TasksOK, LoopOK, Collect PROVE TasksOK' /\ LoopOK'
  OBVIOUS
<1>1. task' = task /\ proc' = proc /\ interrupted' = interrupted /\ overdue' = overdue
  BY DEF Collect
<1>2. TasksOK'
  BY <1>1 DEF TasksOK, PaperOK, ProcessOK, OutcomeOK, HoldsLock, HostOf
<1>3. /\ LoopType /\ Waiting /\ Done \subseteq pending
      /\ \A p \in Papers \ pending : task[p].stage = "ended"
  BY DEF Collect, LoopOK, Done
<1>4. /\ pending' = pending \ Done /\ results' = results \cup Done
      /\ main' = IF pending' = {} THEN "promote" ELSE "wait"
  BY DEF Collect
<1>5. \A p \in Done : HasResult(p) /\ task[p].stage = "ended"
  <2> SUFFICES ASSUME NEW p \in Done PROVE HasResult(p) /\ task[p].stage = "ended"
    OBVIOUS
  <2>1. /\ p \in Papers /\ task[p].stage = "ended"
        /\ task[p].outcome # "broken" /\ task[p].outcome # "cancelled"
    BY <1>3 DEF Done, LoopType, Collect, Waiting
  <2>2. task[p].outcome # "none" /\ task[p].outcome \in TaskOutcome
    BY <2>1 DEF TasksOK, PaperOK, OutcomeOK, Task
  <2> QED
    BY <2>1, <2>2 DEF HasResult, TaskOutcome
<1>6. LoopType' /\ results' = Papers \ pending' /\ interrupted' = {}
  BY <1>1, <1>3, <1>4 DEF LoopType, Waiting
<1>7. (\A p \in results : HasResult(p))'
  BY <1>1, <1>4, <1>5 DEF LoopOK, HasResult
<1>8. (\A p \in Papers \ pending : task[p].stage = "ended")'
  BY <1>1, <1>3, <1>4, <1>5
<1>9. (main = "wait" => Waiting)'
  BY <1>1, <1>3, <1>6 DEF Waiting
<1>10. (main = "promote" => Reported)'
  BY <1>1, <1>4, <1>6, <1>8 DEF Reported, AllEnded
<1> QED
  BY <1>2, <1>4, <1>6, <1>7, <1>8, <1>9, <1>10 DEF LoopOK

LEMMA GiveUpKeeps == TasksOK /\ LoopOK /\ GiveUp => TasksOK' /\ LoopOK'
<1> SUFFICES ASSUME TasksOK, LoopOK, GiveUp PROVE TasksOK' /\ LoopOK'
  OBVIOUS
<1>1. /\ CancelPending /\ main' = "failing" /\ pending' = pending \ Done
      /\ results' = results /\ interrupted' = interrupted /\ overdue' = overdue
      /\ Waiting /\ LoopType
  BY DEF GiveUp, LoopOK
<1>2. TasksOK' /\ LoopType' /\ \A p \in results : HasResult(p)'
  <2>1. \A p \in results : p \in Papers \ pending /\ HasResult(p)
    BY <1>1 DEF Waiting, LoopOK
  <2> QED
    BY <1>1, <2>1, CancelKeeps DEF LoopType, HasResult
<1>3. \A p \in Papers \ pending' : task[p].stage = "ended"
  BY <1>1 DEF LoopOK, Done
<1>4. (\A p \in Papers \ pending : task[p].stage = "ended")'
  BY <1>1, <1>3, CancelKeeps
<1>5. \A p \in Papers : task'[p].stage \in {"stopping", "ended"}
  BY <1>1, CancelKeeps DEF LoopOK
<1> QED
  BY <1>1, <1>2, <1>4, <1>5 DEF LoopOK

LEMMA OutOfTimeKeeps == TasksOK /\ LoopOK /\ OutOfTime => TasksOK' /\ LoopOK'
<1> SUFFICES ASSUME TasksOK, LoopOK, OutOfTime PROVE TasksOK' /\ LoopOK'
  OBVIOUS
<1>1. /\ CancelPending /\ main' = "stopping" /\ interrupted' = pending /\ Done = {}
      /\ pending' = pending /\ results' = results /\ overdue' = overdue
      /\ Waiting /\ LoopType
  BY DEF OutOfTime, LoopOK
<1>2. TasksOK' /\ LoopType' /\ \A p \in results : HasResult(p)'
  <2>1. \A p \in results : p \in Papers \ pending /\ HasResult(p)
    BY <1>1 DEF Waiting, LoopOK
  <2> QED
    BY <1>1, <2>1, CancelKeeps DEF LoopType, HasResult
<1>3. (\A p \in Papers \ pending : task[p].stage = "ended")'
  BY <1>1, CancelKeeps DEF LoopOK
<1>4. Stopping'
  <2>1. \A p \in pending : p \in Papers /\ task[p].stage # "ended"
    BY <1>1 DEF Done, LoopType
  <2> QED
    BY <1>1, <2>1, CancelKeeps DEF Stopping, Waiting
<1> QED
  BY <1>1, <1>2, <1>3, <1>4 DEF LoopOK

LEMMA EndKeeps ==
  TasksOK /\ LoopOK /\ (Stopped \/ Return \/ BudgetEnds) => TasksOK' /\ LoopOK'
<1> SUFFICES ASSUME TasksOK, LoopOK, Stopped \/ Return \/ BudgetEnds
             PROVE  TasksOK' /\ LoopOK'
  OBVIOUS
<1>1. task' = task /\ proc' = proc /\ UNCHANGED <<pending, results, interrupted>>
  BY DEF Stopped, Return, BudgetEnds
<1>2. TasksOK'
  BY <1>1 DEF TasksOK, PaperOK, ProcessOK, OutcomeOK, HoldsLock, HostOf
<1>3. \A p \in results : HasResult(p)
  BY DEF LoopOK
<1>4. (\A p \in results : HasResult(p))' /\ (\A p \in Papers \ pending : task[p].stage = "ended")'
  BY <1>1, <1>3 DEF LoopOK, HasResult
<1>5. CASE Stopped
  <2>1. LoopType' /\ main \in {"stopping", "failing"}
        /\ main' = IF main = "stopping" THEN "promote" ELSE "raised"
    BY <1>1, <1>5 DEF Stopped, LoopOK, LoopType
  <2>2. AllEnded'
    BY <1>1, <1>5 DEF Stopped, Done, LoopOK, AllEnded
  <2>3. main = "stopping" => Reported'
    BY <1>1, <2>2 DEF LoopOK, Stopping, Reported, AllEnded, LoopType
  <2> QED
    BY <1>2, <1>4, <2>1, <2>2, <2>3 DEF LoopOK
<1>6. CASE Return
  <2>1. LoopType' /\ main' \in {"returned", "raised"} /\ Reported
    BY <1>1, <1>6 DEF Return, LoopOK, LoopType
  <2>2. Reported' /\ AllEnded'
    BY <1>1, <2>1 DEF Reported, AllEnded
  <2> QED
    BY <1>2, <1>4, <2>1, <2>2 DEF LoopOK
<1>7. CASE BudgetEnds
  <2>1. LoopType' /\ main' = main
    BY <1>1, <1>7 DEF BudgetEnds, LoopOK, LoopType
  <2> QED
    BY <1>1, <1>2, <1>4, <2>1 DEF LoopOK, Waiting, Stopping, Reported, AllEnded
<1> QED
  BY <1>5, <1>6, <1>7

-----------------------------------------------------------------------------
(***************************************************************************)
(* The hosts.                                                              *)
(***************************************************************************)

HostsOK ==
  /\ limited \in SUBSET Hosts
  /\ recent \in SUBSET Paced
  /\ refusers \in SUBSET Hosts

LEMMA HostsStep ==
  ASSUME TasksOK, HostsOK, [Next]_vars
  PROVE  HostsOK'
<1> DEFINE same == UNCHANGED <<limited, refusers>>
<1>1. \A p \in Papers : HostOf(p) \in Hosts /\ task[p].at \in Hosts
  BY SourceHostType DEF TasksOK, Task, HostOf
<1>2. ASSUME NEW p \in Papers, Run(p) \/ ProcessExits(p)
      PROVE  HostsOK'
  <2>1. CASE Refused(p)
    BY <1>1, <2>1 DEF Refused, RequestEnds, HostsOK
  <2>2. CASE ~Refused(p)
    <3>1. same /\ (recent' = recent \/ RequestEnds(p))
      BY <1>2, <2>2
      DEF Run, Acquire, Send, Useless, Served, StartProcess, Finish, TimesOut,
          Kill, Reaped, Breaks, ProcessExits, hosts
    <3> QED
      BY <3>1 DEF RequestEnds, HostsOK
  <2> QED
    BY <2>1, <2>2
<1>3. CASE Loop
  <2>1. same /\ (recent' = recent \/ CancelPending)
    BY <1>3 DEF Loop, Collect, GiveUp, OutOfTime, Stopped, Return, hosts, CancelPending
  <2>2. recent' \in SUBSET Paced
    BY <2>1 DEF CancelPending, HostsOK
  <2> QED
    BY <2>1, <2>2 DEF HostsOK
<1>4. CASE BudgetEnds
  BY <1>4 DEF BudgetEnds, HostsOK, hosts
<1>5. CASE \E h \in Hosts : IntervalEnds(h)
  BY <1>5 DEF IntervalEnds, HostsOK
<1>6. CASE UNCHANGED vars
  BY <1>6 DEF vars, hosts, HostsOK
<1> QED
  BY <1>2, <1>3, <1>4, <1>5, <1>6 DEF Next

LEMMA NextKeeps ==
  ASSUME ConversionInv, [Next]_vars
  PROVE  ConversionInv'
<1> USE DEF ConversionInv
<1>1. ASSUME NEW p \in Papers, Run(p) \/ ProcessExits(p)
      PROVE  ConversionInv'
  BY <1>1, RunMoves, MoveKeeps
<1>2. CASE Loop
  BY <1>2, CollectKeeps, GiveUpKeeps, OutOfTimeKeeps, EndKeeps DEF Loop
<1>3. CASE BudgetEnds
  BY <1>3, EndKeeps
<1>4. CASE (\E h \in Hosts : IntervalEnds(h)) \/ UNCHANGED vars
  <2>1. UNCHANGED <<loop, task, proc>>
    BY <1>4 DEF IntervalEnds, vars
  <2> QED
    BY <2>1
    DEF TasksOK, PaperOK, ProcessOK, OutcomeOK, HoldsLock, HostOf, loop, LoopOK,
        LoopType, HasResult, Waiting, Stopping, Reported, AllEnded
<1> QED
  BY <1>1, <1>2, <1>3, <1>4 DEF Next

THEOREM ConversionInvariant == Spec => [](ConversionInv /\ HostsOK)
<1>1. Init => ConversionInv /\ HostsOK
  BY InitTasks, InitLoop DEF ConversionInv, HostsOK, Init
<1>2. ConversionInv /\ HostsOK /\ [Next]_vars => (ConversionInv /\ HostsOK)'
  BY NextKeeps, HostsStep DEF ConversionInv
<1> QED
  BY <1>1, <1>2, PTL DEF Spec

\* Every variable keeps its type, and a task that may send has attempts left
\* (convert.py: the attempts of DownloadingMaterializer.download).
THEOREM ConversionTypeCorrect == Spec => []TypeOK
<1>1. ConversionInv /\ HostsOK => TypeOK
  BY DEF ConversionInv, TasksOK, LoopOK, LoopType, HostsOK, TypeOK, PaperOK, ProcState
<1> QED
  BY <1>1, ConversionInvariant, PTL

\* A batch that returns has reported each paper once, and as interrupted exactly
\* those whose task it cancelled (convert.py: the loop of convert_batch).
THEOREM PapersReportedOnce == Spec => []EachReportedOnce
<1>1. ConversionInv => EachReportedOnce
  <2> SUFFICES ASSUME ConversionInv, main = "returned" PROVE EachReportedOnce
    BY DEF EachReportedOnce
  <2>1. Reported /\ LoopType /\ \A p \in results : HasResult(p)
    BY DEF ConversionInv, LoopOK
  <2> QED
    BY <2>1 DEF EachReportedOnce, Reported, LoopType, HasResult
<1> QED
  BY <1>1, ConversionInvariant, PTL

\* When a batch is over its tasks have ended and each converter was told to stop
\* (convert.py: _cancel_pending and the handlers of CommandRunner.run).
THEOREM NothingIsLeftRunning == Spec => []NothingRunsOn
<1>1. ConversionInv => NothingRunsOn
  BY DEF ConversionInv, TasksOK, PaperOK, ProcessOK, LoopOK, Reported, AllEnded,
         NothingRunsOn, Over
<1> QED
  BY <1>1, ConversionInvariant, PTL

-----------------------------------------------------------------------------
(***************************************************************************)
(* Conversion implements ConvertBatch.                                     *)
(***************************************************************************)

\* The outcomes a returned batch reports are those its caller expects.
LEMMA FatesExpected ==
  ASSUME ConversionInv, Reported, NEW p \in Papers
  PROVE  LET how == IF p \in interrupted THEN "interrupted" ELSE task[p].outcome
         IN  how \in Outcome /\ how \in Expected(p, Fast) \cup Upset(p, Fast)
<1>1. OutcomeOK(p)
  BY DEF ConversionInv, TasksOK, PaperOK
<1>2. Kind[p] = "pdf" <=> Format[p] = "pdf" /\ p \notin ArxivIds
  BY KindAssumption, ConversionAssumption
<1>3. Format[p] = "pdf" /\ p \in ArxivIds => Kind[p] = "arxiv"
  BY KindAssumption, ConversionAssumption
<1>4. CASE p \in interrupted
  <2>1. task[p].outcome = "cancelled"
    BY <1>4 DEF Reported
  <2> QED
    BY <1>1, <1>4, <2>1 DEF OutcomeOK, Outcome, Upset
<1>5. CASE p \notin interrupted
  <2>1. HasResult(p)
    BY <1>5 DEF Reported, ConversionInv, LoopOK
  <2> QED
    BY <1>1, <1>2, <1>3, <1>5, <2>1
    DEF OutcomeOK, Outcome, Expected, Upset, SetAside, HasResult
<1> QED
  BY <1>4, <1>5

LEMMA StepImplements ==
  ASSUME ConversionInv, ConversionInv', [Next]_vars
  PROVE  [Promise!Next]_<<Phase, [p \in Papers |-> Fate(p)]>>
<1> DEFINE fates == [p \in Papers |-> Fate(p)]
<1>1. CASE Return
  <2>1. /\ main = "promote" /\ main' \in {"returned", "raised"}
        /\ interrupted' = interrupted /\ task' = task
    BY <1>1 DEF Return
  <2>2. Phase = "running" /\ fates = [p \in Papers |-> "open"]
    BY <2>1 DEF Phase, Over, Fate
  <2>3. CASE main' = "raised"
    <3>1. Phase' = "raised" /\ fates' = fates
      BY <2>1, <2>2, <2>3 DEF Phase, Over, Fate
    <3> QED
      BY <2>2, <3>1 DEF Promise!Next, Promise!Raise
  <2>4. CASE main' = "returned"
    <3>1. Phase' = "returned"
      BY <2>4 DEF Phase, Over
    <3>2. ASSUME NEW p \in Papers
          PROVE  fates'[p] \in Outcome /\ fates'[p] \in Expected(p, Fast) \cup Upset(p, Fast)
      <4>1. Reported
        BY <2>1 DEF ConversionInv, LoopOK
      <4>2. fates'[p] = IF p \in interrupted THEN "interrupted" ELSE task[p].outcome
        BY <2>1, <2>4 DEF Fate
      <4> QED
        BY <4>1, <4>2, FatesExpected
    <3>3. fates' \in [Papers -> Outcome]
      BY <3>2
    <3> QED
      BY <2>2, <3>1, <3>2, <3>3
      DEF Promise!Next, Promise!Return, Promise!Outcome, Promise!Expected,
          Promise!Upset, Promise!SetAside, Outcome, Expected, Upset, SetAside
  <2> QED
    BY <2>1, <2>3, <2>4
<1>2. CASE Stopped /\ main = "failing"
  <2>1. main' = "raised"
    BY <1>2 DEF Stopped
  <2>2. Phase = "running" /\ Phase' = "raised" /\ fates' = fates
    BY <1>2, <2>1 DEF Phase, Over, Fate
  <2> QED
    BY <2>2 DEF Promise!Next, Promise!Raise
<1>3. ASSUME ~Over, main' \notin {"returned", "raised"}
      PROVE  UNCHANGED <<Phase, fates>>
  BY <1>3 DEF Phase, Over, Fate
<1>4. CASE Collect \/ GiveUp \/ OutOfTime \/ (Stopped /\ main = "stopping")
  <2>1. ~Over /\ main' \notin {"returned", "raised"}
    BY <1>4 DEF Over, Collect, GiveUp, OutOfTime, Stopped
  <2> QED
    BY <1>3, <2>1
<1>5. ASSUME main' = main, interrupted' = interrupted,
             \A p \in Papers : task[p].stage = "ended" => task'[p] = task[p]
      PROVE  UNCHANGED <<Phase, fates>>
  <2>1. main = "returned" => \A p \in Papers : task[p].stage = "ended"
    BY DEF ConversionInv, LoopOK, Reported, AllEnded
  <2>2. \A p \in Papers : Fate(p)' = Fate(p)
    BY <1>5, <2>1 DEF Fate
  <2>3. Phase' = Phase
    BY <1>5 DEF Phase, Over
  <2> QED
    BY <2>2, <2>3
<1>6. CASE \E p \in Papers : Run(p) \/ ProcessExits(p)
  <2>1. PICK p \in Papers : Run(p) \/ ProcessExits(p)
    BY <1>6
  <2>2. Moves(p) /\ UNCHANGED loop
    BY <2>1, RunMoves DEF ConversionInv
  <2>3. \A q \in Papers : task[q].stage = "ended" => task'[q] = task[q]
    BY <2>2 DEF Moves
  <2> QED
    BY <1>5, <2>2, <2>3 DEF loop
<1>7. CASE BudgetEnds \/ (\E h \in Hosts : IntervalEnds(h)) \/ UNCHANGED vars
  <2>1. main' = main /\ interrupted' = interrupted /\ task' = task
    BY <1>7 DEF BudgetEnds, IntervalEnds, vars, loop
  <2> QED
    BY <1>5, <2>1
<1>8. Stopped => main \in {"stopping", "failing"}
  BY DEF Stopped
<1> QED
  BY <1>1, <1>2, <1>4, <1>6, <1>7, <1>8 DEF Next, Loop

\* A batch ends once, and gives each paper an outcome that the run loop is prepared
\* for (convert.py convert_batch; Nightly uses the same outcomes).
THEOREM ConversionImplements == Spec => ImplementsConvertBatch
<1>1. Init => Promise!Init
  BY DEF Init, Promise!Init, Phase, Over, Fate
<1>2. ConversionInv /\ ConversionInv' /\ [Next]_vars =>
        [Promise!Next]_<<Phase, [p \in Papers |-> Fate(p)]>>
  BY StepImplements
<1> QED
  BY <1>1, <1>2, ConversionInvariant, PTL DEF Spec, ImplementsConvertBatch, Promise!Spec

-----------------------------------------------------------------------------
(***************************************************************************)
(* Converters are bounded.  While the loop waits, whoever has a converter  *)
(* alive holds a slot; afterwards no converter is started.                 *)
(***************************************************************************)

AliveNow(p) == proc[p] \in {"running", "signalled"}

Holders(format) == {p \in Papers : HoldsSlot(p) /\ Tool(p) = format}

Alive(format) ==
  {p \in Papers : /\ Tool(p) = format
                  /\ proc[p] \in {"running", "signalled"}}

SlotsOK ==
  /\ \A format \in Formats : Cardinality(Holders(format)) <= Slots[format]
  /\ \A format \in Formats : Cardinality(Alive(format)) <= Slots[format]
  /\ main = "wait" => \A p \in Papers : AliveNow(p) => HoldsSlot(p)

\* A step that takes no slot and starts no converter.
Shrinks(p) ==
  /\ HoldsSlot(p)' => HoldsSlot(p) /\ Tool(p)' = Tool(p)
  /\ AliveNow(p)' => AliveNow(p) /\ Tool(p)' = Tool(p)
  /\ main' = "wait" /\ AliveNow(p)' /\ HoldsSlot(p) => HoldsSlot(p)'

LEMMA SmallerIsBounded ==
  ASSUME NEW S, NEW T, T \in SUBSET Papers, S \subseteq T, NEW n \in Nat,
         Cardinality(T) <= n
  PROVE  Cardinality(S) <= n
<1>1. IsFiniteSet(T)
  BY ConversionAssumption, FS_Subset
<1>2. IsFiniteSet(S) /\ Cardinality(S) <= Cardinality(T)
  BY <1>1, FS_Subset
<1> QED
  BY <1>1, <1>2, FS_CardinalityType

LEMMA SlotType ==
  ASSUME NEW format \in Formats
  PROVE  Slots[format] \in Nat \ {0}
BY ConversionAssumption

LEMMA ShrinkKeeps ==
  ASSUME SlotsOK, \A p \in Papers : Shrinks(p), main' = "wait" => main = "wait"
  PROVE  SlotsOK'
<1>1. ASSUME NEW format \in Formats
      PROVE  /\ Cardinality(Holders(format)') <= Slots[format]
             /\ Cardinality(Alive(format)') <= Slots[format]
  <2>1. Holders(format)' \subseteq Holders(format)
    BY DEF Holders, Shrinks
  <2>2. Alive(format)' \subseteq Alive(format)
    BY DEF Alive, AliveNow, Shrinks
  <2>3. Holders(format) \in SUBSET Papers /\ Alive(format) \in SUBSET Papers
    BY DEF Holders, Alive
  <2> QED
    BY <2>1, <2>2, <2>3, SlotType, SmallerIsBounded DEF SlotsOK
<1>2. main' = "wait" => \A p \in Papers : AliveNow(p)' => HoldsSlot(p)'
  BY DEF SlotsOK, Shrinks
<1> QED
  BY <1>1, <1>2 DEF SlotsOK

LEMMA StartKeeps ==
  ASSUME ConversionInv, SlotsOK, NEW p \in Papers, StartProcess(p)
  PROVE  SlotsOK'
<1> DEFINE tool == Tool(p)
<1>1. /\ task \in [Papers -> Task] /\ proc \in [Papers -> ProcState]
      /\ task[p].stage = "slot" /\ main' = main
      /\ task' = [task EXCEPT ![p] = [task[p] EXCEPT !.stage = "run"]]
      /\ proc' = [proc EXCEPT ![p] = "running"]
  BY DEF ConversionInv, TasksOK, StartProcess, Step, loop
<1>2. /\ task'[p].stage = "run" /\ Tool(p)' = tool
      /\ \A q \in Papers \ {p} : task'[q] = task[q] /\ proc'[q] = proc[q]
  BY <1>1 DEF Task, Tool
<1>3. tool \in Formats
  BY ConversionAssumption DEF Tool, Formats
<1>4. main = "wait"
  <2>1. p \in pending /\ main \notin {"failing", "promote", "returned", "raised"}
    BY <1>1 DEF ConversionInv, LoopOK, Reported, AllEnded
  <2>2. main # "stopping"
    BY <1>1, <2>1 DEF ConversionInv, TasksOK, PaperOK, OutcomeOK, LoopOK, Stopping
  <2> QED
    BY <2>1, <2>2 DEF ConversionInv, LoopOK, LoopType
<1>5. \A q \in Papers : AliveNow(q)' => HoldsSlot(q)'
  <2>1. ASSUME NEW q \in Papers, q # p, AliveNow(q)'
        PROVE  HoldsSlot(q)'
    BY <1>2, <1>4, <2>1 DEF AliveNow, HoldsSlot, SlotsOK
  <2>2. HoldsSlot(p)'
    BY <1>2 DEF HoldsSlot
  <2> QED
    BY <2>1, <2>2
<1>6. ASSUME NEW format \in Formats
      PROVE  Cardinality(Holders(format)') <= Slots[format]
  <2>1. IsFiniteSet(Holders(format))
    BY ConversionAssumption, FS_Subset DEF Holders
  <2>2. CASE format # tool
    <3>1. Holders(format)' \subseteq Holders(format)
      BY <1>2, <2>2 DEF Holders, HoldsSlot, Tool
    <3> QED
      BY <3>1, SlotType, SmallerIsBounded DEF SlotsOK, Holders
  <2>3. CASE format = tool
    <3>1. Cardinality(Holders(format)) < Slots[format]
      BY <2>3 DEF StartProcess, HasRoom, Holders
    <3>2. Holders(format)' \subseteq Holders(format) \cup {p}
      BY <1>2 DEF Holders, HoldsSlot, Tool
    <3>3. p \notin Holders(format)
      BY <1>1 DEF Holders, HoldsSlot
    <3>4. Cardinality(Holders(format) \cup {p}) = Cardinality(Holders(format)) + 1
      BY <2>1, <3>3, FS_AddElement
    <3>5. Cardinality(Holders(format) \cup {p}) <= Slots[format]
      BY <2>1, <3>1, <3>4, SlotType, FS_CardinalityType
    <3>6. Holders(format) \cup {p} \in SUBSET Papers
      BY DEF Holders
    <3> QED
      BY <3>2, <3>5, <3>6, SlotType, SmallerIsBounded
  <2> QED
    BY <2>2, <2>3
<1>7. ASSUME NEW format \in Formats
      PROVE  Cardinality(Alive(format)') <= Slots[format]
  <2>1. Alive(format)' \subseteq Holders(format)'
    BY <1>5 DEF Alive, AliveNow, Holders
  <2>2. Holders(format)' \in SUBSET Papers
    BY DEF Holders
  <2> QED
    BY <1>6, <2>1, <2>2, SlotType, SmallerIsBounded
<1> QED
  BY <1>5, <1>6, <1>7 DEF SlotsOK

LEMMA RunShrinks ==
  ASSUME TasksOK, NEW p \in Papers, Run(p) \/ ProcessExits(p), ~StartProcess(p)
  PROVE  \A q \in Papers : Shrinks(q)
<1> USE DEF TasksOK
<1>1. Moves(p) /\ task[p] \in Task /\ PaperOK(p)
  BY RunMoves
<1>2. ASSUME NEW q \in Papers, q # p
      PROVE  Shrinks(q)
  <2>1. task'[q] = task[q] /\ proc'[q] = proc[q]
    BY <1>1, <1>2 DEF Moves
  <2> QED
    BY <2>1 DEF Shrinks, HoldsSlot, AliveNow, Tool
<1>3. Shrinks(p)
  <2>1. CASE Acquire(p) \/ Send(p) \/ Refused(p) \/ Useless(p)
             \/ \E images \in 0..MaxFigures : Served(p, images)
    <3>1. proc' = proc /\ task[p].stage \in {"lock", "send", "request"}
      BY <2>1 DEF Acquire, Send, Refused, Useless, Served
    <3>2. proc[p] = "none" /\ PaperOK(p)' /\ task' \in [Papers -> Task]
      BY <1>1, <3>1 DEF PaperOK, ProcessOK, Moves
    <3> QED
      BY <3>1, <3>2 DEF PaperOK, ProcessOK, Shrinks, HoldsSlot, AliveNow
  <2>2. CASE Finish(p) \/ Reaped(p) \/ Breaks(p)
    <3>1. PICK how \in TaskOutcome : Step(p, End(task[p], how))
      BY <2>2 DEF Finish, Reaped, Breaks, TaskOutcome
    <3>2. End(task[p], how) \in Task /\ End(task[p], how).stage = "ended"
      BY <1>1 DEF End, Task, Stage
    <3>3. task'[p].stage = "ended"
      BY <3>1, <3>2, StepType
    <3>4. proc' = proc /\ proc[p] \in {"none", "gone"}
      BY <1>1, <2>2 DEF Finish, Reaped, Breaks, PaperOK, ProcessOK
    <3> QED
      BY <3>3, <3>4 DEF Shrinks, HoldsSlot, AliveNow
  <2>3. CASE TimesOut(p)
    <3>1. /\ task[p].stage = "run" /\ Step(p, [task[p] EXCEPT !.stage = "timing_out"])
          /\ proc' = [proc EXCEPT ![p] = Terminated(@)]
      BY <2>3 DEF TimesOut
    <3>2. task'[p].stage = "timing_out" /\ task'[p].source = task[p].source
      BY <1>1, <3>1 DEF Step, Task
    <3>3. proc'[p] = Terminated(proc[p])
      BY <3>1
    <3> QED
      BY <3>1, <3>2, <3>3 DEF Shrinks, HoldsSlot, AliveNow, Tool, Terminated
  <2>4. CASE Kill(p) \/ ProcessExits(p)
    <3>1. task' = task /\ proc'[p] = "gone"
      BY <2>4 DEF Kill, ProcessExits
    <3> QED
      BY <3>1 DEF Shrinks, HoldsSlot, AliveNow, Tool
  <2> QED
    BY <2>1, <2>2, <2>3, <2>4 DEF Run
<1> QED
  BY <1>2, <1>3

LEMMA LoopShrinks ==
  ASSUME ConversionInv, Loop
  PROVE  (\A p \in Papers : Shrinks(p)) /\ (main' = "wait" => main = "wait")
<1>1. CASE Collect \/ Stopped \/ Return
  <2>1. task' = task /\ proc' = proc
    BY <1>1 DEF Collect, Stopped, Return
  <2>2. main' = "wait" => main = "wait"
    BY <1>1 DEF Collect, Stopped, Return
  <2> QED
    BY <2>1, <2>2 DEF Shrinks, HoldsSlot, AliveNow, Tool
<1>2. CASE GiveUp \/ OutOfTime
  <2>1. CancelPending /\ main = "wait" /\ main' # "wait"
    BY <1>2 DEF GiveUp, OutOfTime
  <2>2. ASSUME NEW p \in Papers
        PROVE  Shrinks(p)
    <3>1. task[p] \in Task /\ PaperOK(p)
      BY DEF ConversionInv, TasksOK
    <3>2. proc'[p] \in {proc[p], Terminated(proc[p])}
      BY <2>1 DEF CancelPending
    <3>3. task'[p] \in {task[p], Cancelled(task[p])}
      BY <2>1 DEF CancelPending
    <3>4. task'[p].source = task[p].source /\ (HoldsSlot(p)' => HoldsSlot(p))
      <4>1. CASE task[p].stage = "ended"
        BY <3>3, <4>1 DEF Cancelled, HoldsSlot
      <4>2. CASE task[p].stage # "ended"
        BY <3>1, <3>3, <4>2, CancelledType DEF HoldsSlot
      <4> QED
        BY <4>1, <4>2
    <3> QED
      BY <2>1, <3>2, <3>4 DEF Shrinks, AliveNow, Terminated, Tool
  <2> QED
    BY <2>1, <2>2
<1> QED
  BY <1>1, <1>2 DEF Loop

\* No more converters of a format are alive than its concurrency, whatever ignores
\* SIGTERM and however the batch ends (convert.py: the semaphores of convert_batch).
THEOREM ConvertersAreBounded == Spec => []ConvertersBounded
<1>1. Init => SlotsOK
  <2> SUFFICES ASSUME Init PROVE SlotsOK
    OBVIOUS
  <2>1. ASSUME NEW p \in Papers
        PROVE  ~HoldsSlot(p) /\ ~AliveNow(p)
    <3>1. ~AliveNow(p) /\ proc[p] = "none" /\ PaperOK(p) /\ task[p] \in Task
      BY InitTasks DEF Init, AliveNow, TasksOK
    <3> QED
      BY <3>1 DEF PaperOK, ProcessOK, HoldsSlot
  <2>2. \A format \in Formats : Holders(format) = {} /\ Alive(format) = {}
    BY <2>1 DEF Holders, Alive, AliveNow
  <2> QED
    BY <2>1, <2>2, SlotType, FS_EmptySet DEF SlotsOK
<1>2. ConversionInv /\ SlotsOK /\ [Next]_vars => SlotsOK'
  <2> SUFFICES ASSUME ConversionInv, SlotsOK, [Next]_vars PROVE SlotsOK'
    OBVIOUS
  <2>1. ASSUME NEW p \in Papers, Run(p) \/ ProcessExits(p)
        PROVE  SlotsOK'
    <3>1. CASE StartProcess(p)
      BY <3>1, StartKeeps
    <3>2. CASE ~StartProcess(p)
      <4>1. main' = main
        BY <2>1, RunMoves DEF ConversionInv, loop
      <4> QED
        BY <2>1, <3>2, <4>1, RunShrinks, ShrinkKeeps DEF ConversionInv
    <3> QED
      BY <3>1, <3>2
  <2>2. CASE Loop
    BY <2>2, LoopShrinks, ShrinkKeeps
  <2>3. CASE BudgetEnds \/ (\E h \in Hosts : IntervalEnds(h)) \/ UNCHANGED vars
    <3>1. main' = main /\ task' = task /\ proc' = proc
      BY <2>3 DEF BudgetEnds, IntervalEnds, vars, loop
    <3>2. \A p \in Papers : Shrinks(p)
      BY <3>1 DEF Shrinks, HoldsSlot, AliveNow, Tool
    <3> QED
      BY <3>1, <3>2, ShrinkKeeps
  <2> QED
    BY <2>1, <2>2, <2>3 DEF Next
<1>3. SlotsOK => ConvertersBounded
  BY DEF SlotsOK, Alive, ConvertersBounded
<1> QED
  BY <1>1, <1>2, <1>3, ConversionInvariant, PTL DEF Spec

-----------------------------------------------------------------------------
(***************************************************************************)
(* A host that gave up is left alone, where no request is redirected: the  *)
(* host a download began with is then the one that answers.                *)
(***************************************************************************)

NoRedirects == \A h \in Hosts : Hops[h] = {h}

LocksOK ==
  /\ refusers = limited
  /\ \A p \in Papers : HoldsLock(p) => task[p].at = HostOf(p) /\ HostOf(p) \notin limited
  /\ \A p, q \in Papers :
       HoldsLock(p) /\ HoldsLock(q) /\ HostOf(p) = HostOf(q) => p = q

\* Nobody takes a lock, or asks another host under it.
LocksKept ==
  \A p \in Papers : HoldsLock(p)' =>
    HoldsLock(p) /\ task'[p].source = task[p].source /\ task'[p].at = task[p].at

LEMMA KeptLocks ==
  ASSUME LocksOK, LocksKept, UNCHANGED <<limited, refusers>>
  PROVE  LocksOK'
BY DEF LocksOK, LocksKept, HostOf

LEMMA AcquireLocks ==
  ASSUME TasksOK, LocksOK, NEW p \in Papers, Acquire(p)
  PROVE  LocksOK'
<1>1. /\ task[p] \in Task /\ task[p].stage = "lock" /\ UNCHANGED <<limited, refusers>>
      /\ \A q \in Papers : HoldsLock(q) => HostOf(q) # HostOf(p)
      /\ \A q \in Papers \ {p} : task'[q] = task[q]
  BY AcquireMoves DEF Acquire, TasksOK, hosts, Moves
<1>2. CASE HostOf(p) \in limited
  <2>1. /\ End(task[p], "deferred") \in Task /\ Step(p, End(task[p], "deferred"))
        /\ End(task[p], "deferred").stage = "ended"
    BY <1>1, <1>2 DEF Acquire, End, Task, Stage, TaskOutcome
  <2>2. task'[p].stage = "ended"
    BY <2>1, StepType DEF TasksOK
  <2> QED
    BY <1>1, <2>2, KeptLocks DEF LocksKept, HoldsLock
<1>3. CASE HostOf(p) \notin limited
  <2>1. task'[p].source = task[p].source /\ task'[p].at = HostOf(p)
    BY <1>1, <1>3 DEF Acquire, Step, Task, TasksOK
  <2>2. HostOf(p)' = HostOf(p)
    BY <2>1 DEF HostOf
  <2>3. \A q \in Papers \ {p} : /\ HoldsLock(q)' <=> HoldsLock(q)
                               /\ HostOf(q)' = HostOf(q) /\ task'[q].at = task[q].at
    BY <1>1 DEF HoldsLock, HostOf
  <2>4. \A q \in Papers : HoldsLock(q)' =>
          task'[q].at = HostOf(q)' /\ HostOf(q)' \notin limited
    BY <1>3, <2>1, <2>2, <2>3 DEF LocksOK
  <2>5. \A q, r \in Papers :
          HoldsLock(q)' /\ HoldsLock(r)' /\ HostOf(q)' = HostOf(r)' => q = r
    BY <1>1, <2>2, <2>3 DEF LocksOK
  <2> QED
    BY <1>1, <2>4, <2>5 DEF LocksOK
<1> QED
  BY <1>2, <1>3

LEMMA RefusedLocks ==
  ASSUME TasksOK, LocksOK, NEW p \in Papers, Refused(p)
  PROVE  LocksOK'
<1> DEFINE last == task[p].tries + 1 = Attempts[HostOf(p)]
<1>1. /\ task[p] \in Task /\ HoldsLock(p)
      /\ \A q \in Papers \ {p} : task'[q] = task[q]
  BY RefusedMoves DEF Refused, TasksOK, Moves, HoldsLock
<1>2. CASE ~last
  <2>1. /\ UNCHANGED <<limited, refusers>>
        /\ task'[p].source = task[p].source /\ task'[p].at = task[p].at
    BY <1>1, <1>2 DEF Refused, Step, Task, TasksOK
  <2> QED
    BY <1>1, <2>1, KeptLocks DEF LocksKept, HoldsLock
<1>3. CASE last
  <2>1. task'[p].stage = "ended"
    BY <1>1, <1>3 DEF Refused, Step, End, Task, TasksOK
  <2>2. /\ limited' = limited \cup {HostOf(p)}
        /\ refusers' = refusers \cup {task[p].at}
    BY <1>3 DEF Refused
  <2>3. refusers' = limited'
    BY <1>1, <2>2 DEF LocksOK
  <2>4. \A q \in Papers : HoldsLock(q)' =>
          /\ q # p /\ HoldsLock(q) /\ HostOf(q)' = HostOf(q) /\ task'[q].at = task[q].at
    BY <1>1, <2>1 DEF HoldsLock, HostOf
  <2>5. \A q \in Papers : HoldsLock(q)' =>
          task'[q].at = HostOf(q)' /\ HostOf(q)' \notin limited'
    BY <1>1, <2>2, <2>4 DEF LocksOK
  <2> QED
    BY <2>3, <2>4, <2>5 DEF LocksOK
<1> QED
  BY <1>2, <1>3

\* A download that ends gives its lock back.
LEMMA DownloadEnds ==
  ASSUME TasksOK, NEW p \in Papers,
         Useless(p) \/ \E images \in 0..MaxFigures : Served(p, images)
  PROVE  ~HoldsLock(p)'
<1>1. task[p] \in Task /\ task \in [Papers -> Task]
  BY DEF TasksOK
<1>2. CASE task[p].figures > 0
  <2>1. Step(p, NextFigure(task[p]))
    BY <1>2 DEF Useless, Served
  <2> QED
    BY <1>1, <1>2, <2>1, NextFigureType, StepType DEF HoldsLock
<1>3. CASE ~(task[p].figures > 0) /\ Useless(p)
  <2>1. CASE task[p].source = Own
    BY <1>1, <1>3, <2>1 DEF Useless, Step, End, Task, HoldsLock
  <2>2. CASE task[p].source # Own
    <3>1. task[p].source + 1 \in 1..Own
      BY <1>1, <2>2, OwnType DEF Task
    <3>2. Step(p, Turn(p, task[p], task[p].source + 1))
      BY <1>3, <2>2 DEF Useless
    <3> QED
      BY <1>1, <3>1, <3>2, TurnType, StepType DEF HoldsLock
  <2> QED
    BY <2>1, <2>2
<1>4. ASSUME ~(task[p].figures > 0), NEW images \in 0..MaxFigures, Served(p, images)
      PROVE  ~HoldsLock(p)'
  BY <1>1, <1>4 DEF Served, Step, Task, HoldsLock
<1> QED
  BY <1>2, <1>3, <1>4

LEMMA RefusersGrow ==
  ASSUME [Next]_vars
  PROVE  refusers \subseteq refusers'
<1>1. ASSUME NEW p \in Papers, Run(p) \/ ProcessExits(p)
      PROVE  refusers \subseteq refusers'
  BY <1>1
  DEF Run, Acquire, Send, Refused, Useless, Served, StartProcess, Finish, TimesOut,
      Kill, Reaped, Breaks, ProcessExits, hosts
<1>2. CASE Loop \/ BudgetEnds \/ (\E h \in Hosts : IntervalEnds(h)) \/ UNCHANGED vars
  BY <1>2
  DEF Loop, Collect, GiveUp, OutOfTime, Stopped, Return, CancelPending, BudgetEnds,
      IntervalEnds, vars, hosts
<1> QED
  BY <1>1, <1>2 DEF Next

LEMMA LocksStep ==
  ASSUME NoRedirects, ConversionInv, LocksOK, [Next]_vars
  PROVE  LocksOK'
<1>1. ASSUME NEW p \in Papers, Run(p) \/ ProcessExits(p)
      PROVE  LocksOK'
  <2>1. TasksOK /\ Moves(p) /\ task[p] \in Task
    BY <1>1, RunMoves DEF ConversionInv, TasksOK
  <2>2. ASSUME UNCHANGED <<limited, refusers>>,
               HoldsLock(p)' => /\ HoldsLock(p)
                                /\ task'[p].source = task[p].source
                                /\ task'[p].at = task[p].at
        PROVE  LocksOK'
    BY <2>1, <2>2, KeptLocks DEF LocksKept, Moves, HoldsLock
  <2>3. CASE Send(p)
    <3>1. PICK h \in Hops[task[p].at] :
            Step(p, [task[p] EXCEPT !.stage = "request", !.at = h])
      BY <2>3 DEF Send
    <3>2. h = task[p].at /\ HoldsLock(p) /\ UNCHANGED <<limited, refusers>>
      BY <2>1, <2>3, <3>1 DEF NoRedirects, Task, Send, HoldsLock, hosts
    <3>3. task'[p].source = task[p].source /\ task'[p].at = task[p].at
      BY <2>1, <3>1, <3>2 DEF Step, Task, TasksOK
    <3> QED
      BY <2>2, <3>2, <3>3
  <2>4. CASE Acquire(p)
    BY <2>1, <2>4, AcquireLocks
  <2>5. CASE Refused(p)
    BY <2>1, <2>5, RefusedLocks
  <2>6. CASE ~(Send(p) \/ Acquire(p) \/ Refused(p))
    <3>1. UNCHANGED <<limited, refusers>>
      BY <1>1, <2>6
      DEF Run, Useless, Served, StartProcess, Finish, TimesOut, Kill, Reaped,
          Breaks, ProcessExits, hosts
    <3>2. ~HoldsLock(p)' \/ task' = task
      <4>1. CASE Useless(p) \/ \E images \in 0..MaxFigures : Served(p, images)
        BY <2>1, <4>1, DownloadEnds
      <4>2. CASE StartProcess(p) \/ TimesOut(p)
        BY <2>1, <4>2 DEF StartProcess, TimesOut, Step, Task, TasksOK, HoldsLock
      <4>3. CASE Finish(p) \/ Reaped(p) \/ Breaks(p)
        <5>1. CASE Finish(p)
          BY <2>1, <5>1 DEF Finish, Step, End, Task, TasksOK, HoldsLock
        <5>2. CASE Reaped(p)
          BY <2>1, <5>2 DEF Reaped, Step, End, Task, TasksOK, HoldsLock
        <5>3. CASE Breaks(p)
          BY <2>1, <5>3 DEF Breaks, Step, End, Task, TasksOK, HoldsLock
        <5> QED BY <4>3, <5>1, <5>2, <5>3
      <4>4. CASE Kill(p) \/ ProcessExits(p)
        BY <4>4 DEF Kill, ProcessExits
      <4> QED
        BY <1>1, <2>6, <4>1, <4>2, <4>3, <4>4 DEF Run
    <3> QED
      BY <2>2, <3>1, <3>2 DEF HoldsLock
  <2> QED
    BY <2>3, <2>4, <2>5, <2>6
<1>2. CASE Loop
  <2>1. UNCHANGED <<limited, refusers>> /\ (task' = task \/ CancelPending)
    BY <1>2 DEF Loop, Collect, GiveUp, OutOfTime, Stopped, Return, CancelPending, hosts
  <2>2. LocksKept
    <3>1. CASE task' = task
      BY <3>1 DEF LocksKept, HoldsLock
    <3>2. CASE CancelPending
      <4>1. \A p \in Papers : task'[p] = task[p] \/ task'[p].stage \in {"stopping", "ended"}
        BY <3>2, CancelKeeps DEF ConversionInv
      <4> QED
        BY <4>1 DEF LocksKept, HoldsLock
    <3> QED
      BY <2>1, <3>1, <3>2
  <2> QED
    BY <2>1, <2>2, KeptLocks
<1>3. CASE BudgetEnds \/ (\E h \in Hosts : IntervalEnds(h)) \/ UNCHANGED vars
  <2>1. UNCHANGED <<limited, refusers, task>>
    BY <1>3 DEF BudgetEnds, IntervalEnds, vars, hosts
  <2> QED
    BY <2>1, KeptLocks DEF LocksKept, HoldsLock
<1> QED
  BY <1>1, <1>2, <1>3 DEF Next

\* A host that refused the last allowed attempt gets no further request, if no host
\* redirects to another (convert.py: the locks and _rate_limited of download).
THEOREM RefusersAreLeftAlone ==
  ASSUME NoRedirects
  PROVE  Spec => RefusersLeftAlone
<1>1. Init => LocksOK
  <2> SUFFICES ASSUME Init PROVE LocksOK
    OBVIOUS
  <2>1. \A p \in Papers : ~HoldsLock(p)
    <3> SUFFICES ASSUME NEW p \in Papers PROVE ~HoldsLock(p)
      OBVIOUS
    <3>1. /\ [stage |-> "lock", source |-> 1, figures |-> 0, tries |-> 0,
              at |-> InputHost[p], outcome |-> "none"] \in Task
          /\ task[p] = Turn(p, [stage |-> "lock", source |-> 1, figures |-> 0,
                                tries |-> 0, at |-> InputHost[p],
                                outcome |-> "none"], FirstSource(p))
      BY OwnType, ConversionAssumption DEF Init, Task, Stage, TaskOutcome
    <3>2. task[p].stage \in {"lock", "ended"}
      BY <3>1, FirstSourceType, TurnType
    <3> QED
      BY <3>2 DEF HoldsLock
  <2> QED
    BY <2>1 DEF Init, LocksOK
<1>2. ConversionInv /\ LocksOK /\ [Next]_vars => LocksOK'
  BY LocksStep
<1>3. ConversionInv /\ LocksOK /\ [Next]_vars =>
        [\A p \in Papers :
           task[p].stage = "send" /\ task'[p].stage = "request" =>
             task'[p].at \notin refusers]_vars
  <2> SUFFICES ASSUME ConversionInv, LocksOK, LocksOK', [Next]_vars,
                      NEW p \in Papers,
                      task[p].stage = "send", task'[p].stage = "request"
               PROVE  task'[p].at \notin refusers
    BY <1>2
  <2>1. HoldsLock(p) /\ HoldsLock(p)'
    BY DEF HoldsLock
  <2> QED
    BY <2>1, RefusersGrow DEF LocksOK
<1> QED
  BY <1>1, <1>2, <1>3, ConversionInvariant, PTL DEF Spec, RefusersLeftAlone

=============================================================================
