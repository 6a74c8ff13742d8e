------------------------- MODULE LearnerGraph_proofs -------------------------
(***************************************************************************)
(* What holds of the learner graph for every set of threads, learners,     *)
(* keys and replies and for every step limit.                              *)
(***************************************************************************)
EXTENDS LearnerGraph, SequenceTheorems, WellFoundedInduction, TLAPS

-----------------------------------------------------------------------------
(* The audit log only grows *)

\* A row stays in a log that another row is appended to, and so does the new one.
LEMMA TracedGrows ==
    ASSUME NEW rows \in Seq(TraceStep), NEW row \in TraceStep
    PROVE  /\ Traced(Append(rows, row), row)
           /\ \A r : Traced(rows, r) => Traced(Append(rows, row), r)
<1>1. /\ DOMAIN Append(rows, row) = 1 .. Len(rows) + 1
      /\ DOMAIN rows = 1 .. Len(rows)
      /\ \A k \in 1 .. Len(rows) : Append(rows, row)[k] = rows[k]
      /\ Append(rows, row)[Len(rows) + 1] = row
      /\ Len(rows) \in Nat
  OBVIOUS
<1>2. \A k \in DOMAIN rows : k \in DOMAIN Append(rows, row)
  BY <1>1
<1>3. Len(rows) + 1 \in DOMAIN Append(rows, row)
  BY <1>1
<1> QED
  BY <1>1, <1>2, <1>3 DEF Traced

\* What a thread's state owes to its rows is still owed and paid after another row.
LEMMA StateInvGrows ==
    ASSUME NEW rows \in Seq(TraceStep), NEW row \in TraceStep, NEW s,
           StateInv(rows, s)
    PROVE  StateInv(Append(rows, row), s)
BY TracedGrows DEF StateInv, CoversAnswers

\* The calls in flight keep their rows when another row is appended.
LEMMA FlightInvGrows ==
    ASSUME NEW rows \in Seq(TraceStep), NEW row \in TraceStep, NEW s, NEW flight,
           FlightInv(rows, s, flight)
    PROVE  FlightInv(Append(rows, row), s, flight)
BY TracedGrows DEF FlightInv

\* The row behind a memory record stays when another row is appended.
LEMMA WriteTracedGrows ==
    ASSUME NEW rows \in Seq(TraceStep), NEW row \in TraceStep, NEW slot, NEW r,
           WriteTraced(rows, slot, r)
    PROVE  WriteTraced(Append(rows, row), slot, r)
<1>1. /\ DOMAIN Append(rows, row) = 1 .. Len(rows) + 1
      /\ DOMAIN rows = 1 .. Len(rows)
      /\ \A k \in 1 .. Len(rows) : Append(rows, row)[k] = rows[k]
      /\ Len(rows) \in Nat
  OBVIOUS
<1>2. \A k \in DOMAIN rows :
          k \in DOMAIN Append(rows, row) /\ Append(rows, row)[k] = rows[k]
  BY <1>1
<1> QED
  BY <1>2 DEF WriteTraced

\* Memory records keep their rows in a step that leaves the memory alone and
\* appends at most one row.
LEMMA WritesGrow ==
    ASSUME TypeOK, WritesAreTraced, memory' = memory,
           \/ trace' = trace
           \/ \E t \in Threads : \E row \in TraceStep : RecordStep(t, row)
    PROVE  WritesAreTraced'
<1>1. CASE trace' = trace
  BY <1>1 DEF WritesAreTraced
<1>2. ASSUME NEW t \in Threads, NEW row \in TraceStep, RecordStep(t, row)
      PROVE  WritesAreTraced'
  <2> SUFFICES ASSUME NEW u \in Users, NEW slot \in MemoryKinds \X Keys,
                      memory[u][slot] # None
               PROVE  WriteTraced(trace'[memory[u][slot].thread], slot, memory[u][slot])
    BY DEF WritesAreTraced
  <2> DEFINE w == memory[u][slot].thread
  <2>1. w \in Threads
    BY DEF TypeOK, MemoryRecord
  <2>2. WriteTraced(trace[w], slot, memory[u][slot])
    BY DEF WritesAreTraced
  <2>3. trace[w] \in Seq(TraceStep)
    BY <2>1 DEF TypeOK
  <2>4. trace'[w] = trace[w] \/ trace'[w] = Append(trace[w], row)
    BY <1>2, <2>1 DEF RecordStep, TypeOK
  <2> QED
    BY <2>2, <2>3, <2>4, WriteTracedGrows
<1> QED
  BY <1>1, <1>2

-----------------------------------------------------------------------------
(* Type correctness *)

\* The state a thread starts with has the type of a planner state.
LEMMA BlankType == Blank \in PlannerState
BY StepAssumption DEF Blank, PlannerState, Nodes

\* What a node starts with is a sequence of stages.
LEMMA LaunchType ==
    ASSUME NEW s \in PlannerState
    PROVE  Launch(s) \in Seq(Results \cup {"waiting", "traced"})
<1>1. CASE s.node = "planner_tools"
  <2>1. s.last_ai \in Seq(Call)
    BY DEF PlannerState
  <2>2. DOMAIN s.last_ai = 1 .. Len(s.last_ai) /\ Len(s.last_ai) \in Nat
    BY <2>1
  <2>3. [p \in 1 .. Len(s.last_ai) |-> "waiting"] \in Seq(Results \cup {"waiting", "traced"})
    BY <2>2
  <2> QED
    BY <1>1, <2>2, <2>3 DEF Launch
<1>2. CASE s.node # "planner_tools"
  BY <1>2 DEF Launch
<1> QED
  BY <1>1, <1>2

\* The initial state has the declared types.
LEMMA InitType == Init => TypeOK
BY BlankType, UserAssumption DEF Init, TypeOK

\* Invoking a thread with a planner state keeps the types.
LEMMA InvokeType ==
    ASSUME TypeOK, NEW t \in Threads, NEW s \in PlannerState, Invoke(t, s)
    PROVE  TypeOK'
<1>1. work' \in [Threads -> PlannerState]
  BY DEF Invoke, Commit, TypeOK
<1>2. running' \in [Threads -> BOOLEAN] /\ invocations' \in [Threads -> Nat]
  BY DEF Invoke, TypeOK
<1>3. inflight' \in [Threads -> Seq(Results \cup {"waiting", "traced"})]
  BY LaunchType DEF Invoke, Progress, TypeOK
<1> QED
  BY <1>1, <1>2, <1>3 DEF Invoke, TypeOK, durable

\* Ending an invocation keeps the types.
LEMMA LeaveType ==
    ASSUME TypeOK, NEW t \in Threads, Leave(t)
    PROVE  TypeOK'
<1>1. running' \in [Threads -> BOOLEAN] /\ saved' \in [Threads -> PlannerState]
  BY DEF Leave, TypeOK
<1>2. inflight' \in [Threads -> Seq(Results \cup {"waiting", "traced"})]
  BY DEF Leave, Progress, TypeOK
<1> QED
  BY <1>1, <1>2 DEF Leave, TypeOK, durable

\* Appending a row keeps the type of the log.
LEMMA RecordStepType ==
    ASSUME TypeOK, NEW t \in Threads, NEW row \in TraceStep, RecordStep(t, row)
    PROVE  trace' \in [Threads -> Seq(TraceStep)]
BY DEF RecordStep, TypeOK

\* Logging a gap keeps the type of the gaps.
LEMMA RecordGapType ==
    ASSUME TypeOK, NEW t \in Threads, RecordGap(t)
    PROVE  gaps' \in [Threads -> Nat]
BY DEF RecordGap, TypeOK

\* Writing a record under a known kind and key keeps the type of the memory.
LEMMA PutType ==
    ASSUME TypeOK, NEW t \in Threads, NEW kind \in MemoryKinds, NEW key \in Keys,
           NEW record \in MemoryRecord, Put(t, kind, key, record)
    PROVE  memory' \in [Users -> [MemoryKinds \X Keys -> MemoryRecord \cup {None}]]
<1>1. UserOf[t] \in Users
  BY UserAssumption
<1>2. <<kind, key>> \in MemoryKinds \X Keys
  OBVIOUS
<1> QED
  BY <1>1, <1>2 DEF Put, TypeOK

\* Rows of calls and terminal rows have the type of the log.
LEMMA RowTypes ==
    ASSUME NEW s \in PlannerState
    PROVE  /\ \A i \in Nat : \A call \in Call : StepRow(s, i, call) \in TraceStep
           /\ \A reason \in HaltReason \cup {"none"} : TerminalRow(s, reason) \in TraceStep
<1>1. s.turn_id \in Nat /\ s.tool_calls \in Seq(Call)
  BY DEF PlannerState
<1>2. Len(s.tool_calls) \in Nat
  BY <1>1
<1> QED
  BY <1>1, <1>2 DEF StepRow, TerminalRow, TraceStep, HaltReason

-----------------------------------------------------------------------------
(* The states that nodes return *)

\* start_turn leaves nothing of the previous turn.
LEMMA StartTurnState ==
    ASSUME NEW rows \in Seq(TraceStep), NEW n \in Nat
    PROVE  LET s == [Blank EXCEPT !.node = "planner_model", !.turn_id = n]
           IN  /\ s \in PlannerState
               /\ StateInv(rows, s)
               /\ s.turn_id = n /\ s.node = "planner_model"
<1> DEFINE s == [Blank EXCEPT !.node = "planner_model", !.turn_id = n]
<1>1. /\ s.node = "planner_model" /\ s.turn_id = n /\ s.model_calls = 0
      /\ s.tool_calls = <<>> /\ s.results = <<>> /\ s.halt_reason = "none"
  BY DEF Blank
<1>2. s \in PlannerState
  BY BlankType DEF PlannerState, Nodes
<1>3. StateInv(rows, s)
  BY <1>1, StepAssumption DEF StateInv, CoversAnswers, Refused, Answered
<1> QED
  BY <1>1, <1>2, <1>3

\* A final message ends the turn with its own terminal row.
LEMMA FinalMessageState ==
    ASSUME NEW rows \in Seq(TraceStep), NEW s \in PlannerState,
           s.node = "planner_model", StateInv(rows, s)
    PROVE  LET f == [s EXCEPT !.model_calls = @ + 1, !.last_ai = <<>>,
                              !.halt_reason = "final_message", !.node = "memory_writer"]
           IN  /\ f \in PlannerState
               /\ StateInv(Append(rows, TerminalRow(s, "final_message")), f)
<1> DEFINE f == [s EXCEPT !.model_calls = @ + 1, !.last_ai = <<>>,
                          !.halt_reason = "final_message", !.node = "memory_writer"]
           row == TerminalRow(s, "final_message")
<1>1. /\ f.node = "memory_writer" /\ f.turn_id = s.turn_id /\ f.last_ai = <<>>
      /\ f.tool_calls = s.tool_calls /\ f.results = s.results
      /\ f.halt_reason = "final_message"
  BY DEF PlannerState
<1>2. f \in PlannerState
  <2>1. s.model_calls + 1 \in 0 .. MAX_PLANNER_STEPS
    BY StepAssumption DEF PlannerState, StateInv
  <2>2. "memory_writer" \in Nodes /\ "final_message" \in HaltReason \cup {"none"}
    BY DEF Nodes, HaltReason
  <2>3. <<>> \in Seq(Call)
    OBVIOUS
  <2> QED
    BY <2>1, <2>2, <2>3 DEF PlannerState
<1>3. row \in TraceStep
  BY RowTypes DEF HaltReason
<1>4. TerminalRow(f, f.halt_reason) = row
  BY <1>1 DEF TerminalRow
<1>5. StateInv(Append(rows, row), s)
  BY <1>3, StateInvGrows
<1>6. CoversAnswers(Append(rows, row), f)
  BY <1>1, <1>5 DEF StateInv, CoversAnswers, StepRow
<1>7. HaltCause(f)
  BY <1>1 DEF HaltCause, Refused, StateInv
<1> QED
  BY <1>1, <1>2, <1>3, <1>4, <1>6, <1>7, TracedGrows DEF StateInv

\* At the step limit the calls are dropped and the fallback is next.
LEMMA StepLimitState ==
    ASSUME NEW rows \in Seq(TraceStep), NEW s \in PlannerState, NEW calls \in Seq(Call),
           calls # <<>>, OutOfSteps(s), s.node = "planner_model", StateInv(rows, s)
    PROVE  LET f == [s EXCEPT !.model_calls = @ + 1, !.last_ai = calls,
                              !.halt_reason = "max_steps", !.node = "fallback_lesson"]
           IN  f \in PlannerState /\ StateInv(rows, f)
<1> DEFINE f == [s EXCEPT !.model_calls = @ + 1, !.last_ai = calls,
                          !.halt_reason = "max_steps", !.node = "fallback_lesson"]
<1>1. /\ f.node = "fallback_lesson" /\ f.turn_id = s.turn_id /\ f.last_ai = calls
      /\ f.tool_calls = s.tool_calls /\ f.results = s.results
      /\ f.halt_reason = "max_steps" /\ f.model_calls = s.model_calls + 1
  BY DEF PlannerState
<1>2. s.model_calls \in 0 .. MAX_PLANNER_STEPS /\ s.model_calls < MAX_PLANNER_STEPS
  BY DEF PlannerState, StateInv
<1>3. f \in PlannerState
  <2>1. s.model_calls + 1 \in 0 .. MAX_PLANNER_STEPS
    BY <1>2, StepAssumption
  <2>2. "fallback_lesson" \in Nodes /\ "max_steps" \in HaltReason \cup {"none"}
    BY DEF Nodes, HaltReason
  <2> QED
    BY <2>1, <2>2 DEF PlannerState
<1>4. f.model_calls = MAX_PLANNER_STEPS
  BY <1>1, <1>2, StepAssumption DEF OutOfSteps
<1>5. HaltCause(f)
  BY <1>1, <1>4 DEF HaltCause, Refused, StateInv
<1>6. CoversAnswers(rows, f)
  BY <1>1 DEF StateInv, CoversAnswers, StepRow
<1> QED
  BY <1>1, <1>3, <1>5, <1>6 DEF StateInv, Answered

\* A reply with calls to run appends them to the turn's calls.
LEMMA AskToolsState ==
    ASSUME NEW rows \in Seq(TraceStep), NEW s \in PlannerState, NEW calls \in Seq(Call),
           ~OutOfSteps(s), s.node = "planner_model", StateInv(rows, s)
    PROVE  LET f == [s EXCEPT !.model_calls = @ + 1, !.last_ai = calls,
                              !.tool_calls = @ \o calls, !.node = "planner_tools"]
           IN  f \in PlannerState /\ StateInv(rows, f)
<1> DEFINE f == [s EXCEPT !.model_calls = @ + 1, !.last_ai = calls,
                          !.tool_calls = @ \o calls, !.node = "planner_tools"]
<1>1. /\ f.node = "planner_tools" /\ f.turn_id = s.turn_id /\ f.last_ai = calls
      /\ f.tool_calls = s.tool_calls \o calls /\ f.results = s.results
      /\ f.halt_reason = s.halt_reason /\ f.model_calls = s.model_calls + 1
  BY DEF PlannerState
<1>2. s.tool_calls \in Seq(Call) /\ s.results \in Seq(Results)
  BY DEF PlannerState
<1>3. /\ s.tool_calls \o calls \in Seq(Call)
      /\ Len(s.tool_calls \o calls) = Len(s.tool_calls) + Len(calls)
      /\ \A i \in 1 .. Len(s.tool_calls) : (s.tool_calls \o calls)[i] = s.tool_calls[i]
      /\ \A p \in 1 .. Len(calls) : (s.tool_calls \o calls)[Len(s.tool_calls) + p] = calls[p]
  BY <1>2, ConcatProperties
<1>4. s.model_calls \in 0 .. MAX_PLANNER_STEPS /\ s.model_calls + 1 < MAX_PLANNER_STEPS
  BY StepAssumption DEF PlannerState, OutOfSteps
<1>5. f \in PlannerState
  <2>1. s.model_calls + 1 \in 0 .. MAX_PLANNER_STEPS
    BY <1>4, StepAssumption
  <2>2. "planner_tools" \in Nodes
    BY DEF Nodes
  <2> QED
    BY <1>3, <2>1, <2>2 DEF PlannerState
<1>6. Len(s.tool_calls) = Len(s.results)
  BY DEF StateInv
<1>7. CoversAnswers(rows, f)
  <2> SUFFICES ASSUME NEW i \in DOMAIN s.results
               PROVE  Traced(rows, StepRow(f, i - 1, f.tool_calls[i]))
    BY <1>1 DEF CoversAnswers
  <2>1. i \in 1 .. Len(s.tool_calls)
    BY <1>2, <1>6
  <2>2. StepRow(f, i - 1, f.tool_calls[i]) = StepRow(s, i - 1, s.tool_calls[i])
    BY <1>1, <1>3, <2>1 DEF StepRow
  <2> QED
    BY <2>2 DEF StateInv, CoversAnswers
<1>8. \A p \in DOMAIN f.last_ai : f.tool_calls[Len(f.results) + p] = f.last_ai[p]
  <2>1. DOMAIN calls = 1 .. Len(calls)
    OBVIOUS
  <2> HIDE DEF f
  <2> QED
    BY <1>1, <1>3, <1>6, <2>1
<1>9. f.halt_reason = "none" /\ ~Refused(f)
  BY <1>1 DEF StateInv, Refused
<1> QED
  BY <1>1, <1>3, <1>4, <1>5, <1>6, <1>7, <1>8, <1>9 DEF StateInv, Answered

\* The last of some positions of a sequence is one of them, and no other is later:
\* the least distance to the end exists because < is well founded on Nat.
LEMMA LastIsGreatest ==
    ASSUME NEW n \in Nat, NEW S, S \subseteq 1 .. n, S # {}
    PROVE  Last(S) \in S /\ \A q \in S : q <= Last(S)
<1> DEFINE T == {n - x : x \in S}
<1>1. T \subseteq Nat /\ T # {}
  <2>1. PICK z \in S : TRUE
    OBVIOUS
  <2>2. n - z \in T
    OBVIOUS
  <2>3. T \subseteq Nat
    OBVIOUS
  <2> QED
    BY <2>2, <2>3
<1> HIDE DEF T
<1>2. PICK m \in T : \A y \in T : ~(<<y, m>> \in OpToRel(<, Nat))
  BY <1>1, NatLessThanWellFounded, WFMin
<1>3. \A y \in T : ~(y < m)
  BY <1>1, <1>2 DEF OpToRel
<1>4. PICK x \in S : m = n - x
  BY <1>2 DEF T
<1>5. \A q \in S : q <= x
  BY <1>3, <1>4 DEF T
<1> QED
  BY <1>4, <1>5 DEF Last

\* The calls of the last reply are the last of the turn, so step indexes count
\* from the answers the turn has.
LEMMA StepIndexValue ==
    ASSUME NEW s \in PlannerState, Len(s.tool_calls) = Len(s.results) + Len(s.last_ai),
           NEW p \in 1 .. Len(s.last_ai)
    PROVE  /\ StepIndex(s, p) = Len(s.results) + p - 1
           /\ StepIndex(s, p) \in Nat
<1>1. /\ Len(s.tool_calls) \in Nat
      /\ Len(s.results) \in Nat
      /\ Len(s.last_ai) \in Nat
  <2>1. s.tool_calls \in Seq(Call) /\ s.last_ai \in Seq(Call) /\ s.results \in Seq(Results)
    BY DEF PlannerState
  <2> QED
    BY <2>1, LenProperties
<1> QED
  BY <1>1 DEF StepIndex

\* What the tool node returns has the type of a planner state.
LEMMA AfterToolsType ==
    ASSUME NEW s \in PlannerState, NEW results \in Seq(Results),
           Len(s.tool_calls) = Len(s.results) + Len(s.last_ai),
           DOMAIN results = DOMAIN s.last_ai
    PROVE  AfterTools(s, results) \in PlannerState
<1> DEFINE taught == Taught(s.last_ai, results)
           quizzed == Quizzed(s.last_ai, results)
<1>1. s.last_ai \in Seq(Call) /\ s.results \in Seq(Results)
  BY DEF PlannerState
<1>2. DOMAIN results = 1 .. Len(s.last_ai) /\ Len(s.last_ai) \in Nat
  BY <1>1
<1>3. taught \subseteq 1 .. Len(s.last_ai) /\ quizzed \subseteq 1 .. Len(s.last_ai)
  BY <1>2 DEF Taught, Quizzed
<1>4. taught # {} => [turn_id |-> s.turn_id, step_index |-> StepIndex(s, Last(taught)),
                      grounded |-> results[Last(taught)] = "ok"] \in Lesson
  <2>1. taught # {} => Last(taught) \in 1 .. Len(s.last_ai)
    BY <1>2, <1>3, LastIsGreatest
  <2>2. taught # {} => StepIndex(s, Last(taught)) \in Nat
    BY <2>1, StepIndexValue
  <2>3. s.turn_id \in Nat
    BY DEF PlannerState
  <2> QED
    BY <2>2, <2>3 DEF Lesson
<1>5. quizzed # {} => [turn_id |-> s.turn_id, step_index |-> StepIndex(s, Last(quizzed))]
                        \in QuizOf
  <2>1. quizzed # {} => Last(quizzed) \in 1 .. Len(s.last_ai)
    BY <1>2, <1>3, LastIsGreatest
  <2>2. quizzed # {} => StepIndex(s, Last(quizzed)) \in Nat
    BY <2>1, StepIndexValue
  <2>3. s.turn_id \in Nat
    BY DEF PlannerState
  <2> QED
    BY <2>2, <2>3 DEF QuizOf
<1>6. s.results \o results \in Seq(Results)
  BY <1>1
<1>7. {"fallback_lesson", "planner_model"} \subseteq Nodes /\ "forbidden_write" \in HaltReason
  BY DEF Nodes, HaltReason
<1> QED
  BY <1>4, <1>5, <1>6, <1>7 DEF AfterTools, LessonOf, LessonAt, Refuses, PlannerState

\* When the tool node returns, every answer of the turn has its row, and a
\* refused call is the reason the turn ends early.
LEMMA AfterToolsState ==
    ASSUME NEW rows \in Seq(TraceStep), NEW s \in PlannerState, NEW results \in Seq(Results),
           s.node = "planner_tools", StateInv(rows, s), FlightInv(rows, s, results),
           \A p \in DOMAIN results : results[p] # "raised"
    PROVE  /\ AfterTools(s, results) \in PlannerState
           /\ StateInv(rows, AfterTools(s, results))
           /\ AfterTools(s, results).turn_id = s.turn_id
           /\ Len(s.results) <= Len(AfterTools(s, results).results)
           /\ AfterTools(s, results).node \in {"fallback_lesson", "planner_model"}
<1> DEFINE f == AfterTools(s, results)
           refused == \E p \in DOMAIN results : results[p] = "refused"
<1>1. s.last_ai \in Seq(Call) /\ s.results \in Seq(Results) /\ s.tool_calls \in Seq(Call)
  BY DEF PlannerState
<1>2. /\ DOMAIN results = DOMAIN s.last_ai
      /\ Len(s.tool_calls) = Len(s.results) + Len(s.last_ai)
      /\ \A p \in DOMAIN s.last_ai : s.tool_calls[Len(s.results) + p] = s.last_ai[p]
  BY DEF FlightInv, StateInv
<1>3. DOMAIN results = 1 .. Len(s.last_ai) /\ Len(results) = Len(s.last_ai)
  BY <1>1, <1>2
<1>4. /\ f.results = s.results \o results /\ f.tool_calls = s.tool_calls
      /\ f.turn_id = s.turn_id /\ f.model_calls = s.model_calls
      /\ f.halt_reason = IF refused THEN "forbidden_write" ELSE s.halt_reason
      /\ f.node = IF refused THEN "fallback_lesson" ELSE "planner_model"
  BY DEF AfterTools, LessonOf, LessonAt, Refuses, PlannerState
<1>5. f \in PlannerState
  BY <1>2, AfterToolsType
<1> HIDE DEF f
<1>6. /\ s.results \o results \in Seq(Results)
      /\ Len(s.results \o results) = Len(s.results) + Len(results)
      /\ \A i \in 1 .. Len(s.results) : (s.results \o results)[i] = s.results[i]
      /\ \A p \in 1 .. Len(results) : (s.results \o results)[Len(s.results) + p] = results[p]
  BY <1>1, ConcatProperties
<1>7. Len(f.tool_calls) = Len(f.results)
  BY <1>2, <1>3, <1>4, <1>6
<1>8. CoversAnswers(rows, f)
  <2> SUFFICES ASSUME NEW i \in 1 .. Len(s.results) + Len(results)
               PROVE  Traced(rows, StepRow(f, i - 1, f.tool_calls[i]))
    BY <1>4, <1>6 DEF CoversAnswers
  <2>1. CASE i \in 1 .. Len(s.results)
    <3>1. Traced(rows, StepRow(s, i - 1, s.tool_calls[i]))
      BY <1>1, <2>1 DEF StateInv, CoversAnswers
    <3> QED
      BY <1>4, <3>1 DEF StepRow
  <2>2. CASE i \notin 1 .. Len(s.results)
    <3>1. PICK p \in 1 .. Len(results) : i = Len(s.results) + p
      <4>1. Len(s.results) \in Nat /\ Len(results) \in Nat
        BY <1>1, LenProperties
      <4>2. i - Len(s.results) \in 1 .. Len(results) /\ i = Len(s.results) + (i - Len(s.results))
        BY <2>2, <4>1
      <4> QED
        BY <4>2
    <3>2. results[p] \notin {"waiting", "raised"}
      <4>1. results[p] \in Results /\ p \in DOMAIN results
        BY <3>1
      <4> QED
        BY <4>1 DEF Results
    <3>3. Traced(rows, StepRow(s, StepIndex(s, p), s.last_ai[p]))
      BY <1>3, <3>2 DEF FlightInv
    <3>4. StepIndex(s, p) = i - 1
      <4>1. p \in 1 .. Len(s.last_ai)
        BY <1>3
      <4>2. StepIndex(s, p) = Len(s.results) + p - 1
        BY <1>2, <4>1, StepIndexValue
      <4> QED
        BY <3>1, <4>2
    <3>5. s.last_ai[p] = f.tool_calls[i]
      BY <1>2, <1>3, <1>4, <3>1
    <3> QED
      BY <1>4, <3>3, <3>4, <3>5 DEF StepRow
  <2> QED
    BY <2>1, <2>2
<1>9. Refused(f) <=> refused
  <2>1. ~Refused(s)
    BY DEF StateInv
  <2>2. DOMAIN f.results = 1 .. Len(s.results) + Len(results)
    BY <1>4, <1>6
  <2>3. ASSUME NEW i \in DOMAIN f.results, f.results[i] = "refused"
        PROVE  refused
    <3>1. i \notin 1 .. Len(s.results)
      BY <1>1, <1>4, <1>6, <2>1, <2>3 DEF Refused
    <3>2. i - Len(s.results) \in 1 .. Len(results)
      BY <1>1, <2>2, <3>1
    <3>3. results[i - Len(s.results)] = "refused"
      BY <1>1, <1>4, <1>6, <2>3, <3>2
    <3> QED
      BY <3>2, <3>3
  <2>4. ASSUME NEW p \in DOMAIN results, results[p] = "refused"
        PROVE  Refused(f)
    <3>1. Len(s.results) + p \in DOMAIN f.results
      BY <1>1, <2>2
    <3>2. f.results[Len(s.results) + p] = "refused"
      BY <1>4, <1>6, <2>4
    <3> QED
      BY <3>1, <3>2 DEF Refused
  <2> QED
    BY <2>3, <2>4 DEF Refused
<1>10. refused => HaltCause(f)
  BY <1>4, <1>9 DEF HaltCause
<1>11. ~refused => f.model_calls < MAX_PLANNER_STEPS /\ f.halt_reason = "none"
  BY <1>4 DEF StateInv
<1>12. Len(s.results) <= Len(f.results)
  BY <1>1, <1>4, <1>6
<1>13. StateInv(rows, f)
  BY <1>4, <1>7, <1>8, <1>9, <1>10, <1>11 DEF StateInv, Answered
<1> QED
  BY <1>4, <1>5, <1>12, <1>13 DEF f

\* The fallback ends the turn with the terminal row of the reason it halted for.
LEMMA FallbackReplyState ==
    ASSUME NEW rows \in Seq(TraceStep), NEW s \in PlannerState, NEW lesson \in Lesson,
           s.node = "fallback_lesson", StateInv(rows, s)
    PROVE  LET f == [s EXCEPT !.lesson = lesson, !.node = "memory_writer"]
           IN  /\ f \in PlannerState
               /\ StateInv(Append(rows, TerminalRow(s, s.halt_reason)), f)
<1> DEFINE f == [s EXCEPT !.lesson = lesson, !.node = "memory_writer"]
           row == TerminalRow(s, s.halt_reason)
<1>1. /\ f.node = "memory_writer" /\ f.turn_id = s.turn_id /\ f.last_ai = s.last_ai
      /\ f.tool_calls = s.tool_calls /\ f.results = s.results
      /\ f.halt_reason = s.halt_reason /\ f.model_calls = s.model_calls
  BY DEF PlannerState
<1>2. f \in PlannerState
  <2>1. "memory_writer" \in Nodes
    BY DEF Nodes
  <2> QED
    BY <2>1 DEF PlannerState
<1>3. row \in TraceStep
  <2>1. s.halt_reason \in HaltReason \cup {"none"}
    BY DEF PlannerState
  <2> QED
    BY <2>1, RowTypes
<1>4. TerminalRow(f, f.halt_reason) = row
  BY <1>1 DEF TerminalRow
<1>5. StateInv(Append(rows, row), s)
  BY <1>3, StateInvGrows
<1>6. CoversAnswers(Append(rows, row), f)
  BY <1>1, <1>5 DEF StateInv, CoversAnswers, StepRow
<1>7. HaltCause(f)
  BY <1>1 DEF HaltCause, Refused, StateInv
<1> QED
  BY <1>1, <1>2, <1>3, <1>4, <1>6, <1>7, TracedGrows DEF StateInv

\* memory_writer changes nothing of the turn's outcome.
LEMMA MemoryWriterState ==
    ASSUME NEW rows \in Seq(TraceStep), NEW s \in PlannerState,
           s.node = "memory_writer", StateInv(rows, s)
    PROVE  [s EXCEPT !.node = "done"] \in PlannerState /\ StateInv(rows, [s EXCEPT !.node = "done"])
<1> DEFINE f == [s EXCEPT !.node = "done"]
<1>1. /\ f.node = "done" /\ f.turn_id = s.turn_id /\ f.last_ai = s.last_ai
      /\ f.tool_calls = s.tool_calls /\ f.results = s.results
      /\ f.halt_reason = s.halt_reason /\ f.model_calls = s.model_calls
  BY DEF PlannerState
<1>2. f \in PlannerState
  BY DEF PlannerState, Nodes
<1>3. TerminalRow(f, f.halt_reason) = TerminalRow(s, s.halt_reason)
  BY <1>1 DEF TerminalRow
<1>4. CoversAnswers(rows, f)
  BY <1>1 DEF StateInv, CoversAnswers, StepRow
<1>5. HaltCause(f) /\ Traced(rows, TerminalRow(f, f.halt_reason))
  BY <1>1, <1>3 DEF HaltCause, Refused, StateInv, Answered
<1> QED
  BY <1>1, <1>2, <1>4, <1>5 DEF StateInv

\* A new message keeps the thread's previous turn until start_turn runs.
LEMMA SubmitState ==
    ASSUME NEW rows \in Seq(TraceStep), NEW s \in PlannerState, StateInv(rows, s)
    PROVE  /\ [s EXCEPT !.node = "start_turn"] \in PlannerState
           /\ StateInv(rows, [s EXCEPT !.node = "start_turn"])
<1> DEFINE f == [s EXCEPT !.node = "start_turn"]
<1>1. /\ f.node = "start_turn" /\ f.turn_id = s.turn_id
      /\ f.tool_calls = s.tool_calls /\ f.results = s.results
  BY DEF PlannerState
<1>2. f \in PlannerState
  BY DEF PlannerState, Nodes
<1>3. CoversAnswers(rows, f)
  BY <1>1 DEF StateInv, CoversAnswers, StepRow
<1> QED
  BY <1>1, <1>2, <1>3 DEF StateInv, Answered

\* Calls that wait owe no row yet.
LEMMA LaunchFlight ==
    ASSUME NEW rows \in Seq(TraceStep), NEW s \in PlannerState
    PROVE  FlightInv(rows, s, Launch(s))
BY DEF FlightInv, Launch

-----------------------------------------------------------------------------
(* Every step keeps the inductive invariant *)

\* A step of one thread that leaves the others alone keeps the invariant if it
\* keeps the types, the thread's part and the records' rows.
LEMMA OneThread ==
    ASSUME IInv, NEW t \in Threads, TypeOK', ThreadInv(t)', WritesAreTraced',
           \A u \in Threads \ {t} :
               /\ work'[u] = work[u] /\ saved'[u] = saved[u] /\ running'[u] = running[u]
               /\ invocations'[u] = invocations[u] /\ inflight'[u] = inflight[u]
               /\ trace'[u] = trace[u]
    PROVE  IInv'
BY DEF IInv, ThreadInv

\* The facts about thread t that the proofs below start from.
LEMMA ThreadFacts ==
    ASSUME IInv, NEW t \in Threads
    PROVE  /\ work[t] \in PlannerState /\ saved[t] \in PlannerState
           /\ trace[t] \in Seq(TraceStep) /\ invocations[t] \in Nat
           /\ running[t] \in BOOLEAN
           /\ inflight[t] \in Seq(Results \cup {"waiting", "traced"})
           /\ work[t].turn_id \in Nat /\ saved[t].turn_id \in Nat
           /\ Len(work[t].results) \in Nat /\ Len(saved[t].results) \in Nat
           /\ ThreadInv(t)
<1>1. /\ work[t] \in PlannerState /\ saved[t] \in PlannerState
      /\ trace[t] \in Seq(TraceStep) /\ invocations[t] \in Nat
      /\ running[t] \in BOOLEAN
      /\ inflight[t] \in Seq(Results \cup {"waiting", "traced"})
  BY DEF IInv, TypeOK
<1>2. \A s \in PlannerState : s.turn_id \in Nat /\ s.results \in Seq(Results)
  BY DEF PlannerState
<1> QED
  BY <1>1, <1>2, LenProperties DEF IInv

\* An invocation starts from the thread's last state, at start_turn or where it was.
LEMMA InvokeStep ==
    ASSUME IInv, NEW t \in Threads, NEW s \in PlannerState, Invoke(t, s),
           StateInv(trace[t], s), s.turn_id = saved[t].turn_id, s.results = saved[t].results
    PROVE  IInv'
<1>1. TypeOK'
  BY InvokeType DEF IInv
<1>2. /\ work'[t] = s /\ saved'[t] = saved[t] /\ running'[t] = TRUE /\ trace'[t] = trace[t]
      /\ inflight'[t] = Launch(s) /\ invocations'[t] = invocations[t] + 1
  BY DEF IInv, TypeOK, Invoke, Commit, Progress, durable
<1>3. StateInv(trace[t], saved[t])
  BY ThreadFacts DEF ThreadInv
<1>4. FlightInv(trace[t], s, Launch(s))
  BY ThreadFacts, LaunchFlight
<1>5. TurnInv(s, saved[t], TRUE, invocations[t] + 1)
  <2>1. saved[t].turn_id <= invocations[t]
    BY ThreadFacts DEF ThreadInv, TurnInv
  <2> QED
    BY <2>1, ThreadFacts DEF TurnInv
<1>6. ThreadInv(t)'
  BY <1>2, <1>3, <1>4, <1>5 DEF ThreadInv
<1>7. WritesAreTraced'
  BY WritesGrow DEF IInv, Invoke, durable
<1> QED
  BY <1>1, <1>6, <1>7, OneThread DEF Invoke, Commit, Progress, durable, IInv, TypeOK

\* A message that starts a turn keeps the invariant.
LEMMA SubmitStep == ASSUME IInv, NEW t \in Threads, Submit(t) PROVE IInv'
<1> DEFINE s == [work[t] EXCEPT !.node = "start_turn"]
<1>1. work[t] = saved[t] /\ StateInv(trace[t], work[t])
  BY ThreadFacts DEF Submit, Invoke, ThreadInv, TurnInv
<1>2. s \in PlannerState /\ StateInv(trace[t], s)
  BY <1>1, ThreadFacts, SubmitState
<1>3. s.turn_id = saved[t].turn_id /\ s.results = saved[t].results
  BY <1>1, ThreadFacts DEF PlannerState
<1> QED
  BY <1>2, <1>3, InvokeStep DEF Submit

\* Going on from the checkpoint keeps the invariant.
LEMMA ResumeStep == ASSUME IInv, NEW t \in Threads, Resume(t) PROVE IInv'
<1>1. saved[t] \in PlannerState /\ StateInv(trace[t], saved[t])
  BY ThreadFacts DEF ThreadInv
<1> QED
  BY <1>1, InvokeStep DEF Resume

\* Writing a checkpoint keeps the invariant.
LEMMA PersistStep == ASSUME IInv, NEW t \in Threads, Persist(t) PROVE IInv'
<1>1. TypeOK'
  <2>1. saved' \in [Threads -> PlannerState]
    BY DEF IInv, TypeOK, Persist
  <2> QED
    BY <2>1 DEF IInv, TypeOK, Persist, durable
<1>2. /\ work'[t] = work[t] /\ saved'[t] = work[t] /\ running'[t] = running[t]
      /\ trace'[t] = trace[t] /\ inflight'[t] = inflight[t]
      /\ invocations'[t] = invocations[t] /\ running[t]
  BY DEF IInv, TypeOK, Persist, durable
<1>3. TurnInv(work[t], work[t], running[t], invocations[t])
  BY ThreadFacts DEF ThreadInv, TurnInv
<1>4. ThreadInv(t)'
  BY <1>2, <1>3, ThreadFacts DEF ThreadInv
<1>5. WritesAreTraced'
  BY WritesGrow DEF IInv, Persist, durable
<1> QED
  BY <1>1, <1>4, <1>5, OneThread DEF Persist, durable, IInv, TypeOK

\* Ending an invocation, with or without its turn, keeps the invariant.
LEMMA LeaveStep == ASSUME IInv, NEW t \in Threads, Leave(t) PROVE IInv'
<1>1. TypeOK'
  BY LeaveType DEF IInv
<1>2. /\ work'[t] = work[t] /\ saved'[t] = work[t] /\ running'[t] = FALSE
      /\ trace'[t] = trace[t] /\ invocations'[t] = invocations[t]
  BY DEF IInv, TypeOK, Leave, Progress, durable
<1>3. TurnInv(work[t], work[t], FALSE, invocations[t])
  BY ThreadFacts DEF ThreadInv, TurnInv
<1>4. ThreadInv(t)'
  BY <1>2, <1>3, ThreadFacts DEF ThreadInv
<1>5. WritesAreTraced'
  BY WritesGrow DEF IInv, Leave, durable
<1> QED
  BY <1>1, <1>4, <1>5, OneThread DEF Leave, Progress, durable, IInv, TypeOK

\* A crash leaves the checkpoints, of which the invariant holds already.
LEMMA CrashStep == ASSUME IInv, Crash PROVE IInv'
<1>1. TypeOK'
  <2>1. /\ work' \in [Threads -> PlannerState]
        /\ running' \in [Threads -> BOOLEAN]
        /\ inflight' \in [Threads -> Seq(Results \cup {"waiting", "traced"})]
    BY DEF IInv, TypeOK, Crash
  <2> QED
    BY <2>1 DEF IInv, TypeOK, Crash, durable
<1>2. ASSUME NEW t \in Threads PROVE ThreadInv(t)'
  <2>1. /\ work'[t] = saved[t] /\ saved'[t] = saved[t] /\ running'[t] = FALSE
        /\ trace'[t] = trace[t] /\ invocations'[t] = invocations[t]
    BY DEF Crash, durable
  <2>2. TurnInv(saved[t], saved[t], FALSE, invocations[t])
    BY ThreadFacts DEF ThreadInv, TurnInv
  <2> QED
    BY <2>1, <2>2, ThreadFacts DEF ThreadInv
<1>3. WritesAreTraced'
  BY WritesGrow DEF IInv, Crash, durable
<1> QED
  BY <1>1, <1>2, <1>3 DEF IInv

\* A step of the node that thread t is at keeps the invariant if the state it
\* commits, the progress it makes and the row it may append fit together.
LEMMA NodeStep ==
    ASSUME IInv, NEW t \in Threads, running[t], UNCHANGED <<saved, running, invocations>>,
           NEW s \in PlannerState, Commit(t, s),
           NEW f \in Seq(Results \cup {"waiting", "traced"}), Progress(t, f),
           \/ trace' = trace
           \/ \E row \in TraceStep : RecordStep(t, row),
           StateInv(trace'[t], s), FlightInv(trace'[t], s, f),
           TurnInv(s, saved[t], TRUE, invocations[t]),
           gaps' \in [Threads -> Nat],
           memory' \in [Users -> [MemoryKinds \X Keys -> MemoryRecord \cup {None}]],
           WritesAreTraced'
    PROVE  IInv'
<1>1. trace' \in [Threads -> Seq(TraceStep)]
  BY RecordStepType DEF IInv, TypeOK
<1>2. work' \in [Threads -> PlannerState]
  BY DEF IInv, TypeOK, Commit
<1>3. inflight' \in [Threads -> Seq(Results \cup {"waiting", "traced"})]
  BY DEF IInv, TypeOK, Progress
<1>4. TypeOK'
  BY <1>1, <1>2, <1>3 DEF IInv, TypeOK
<1>5. /\ work'[t] = s /\ saved'[t] = saved[t] /\ running'[t] = TRUE
      /\ inflight'[t] = f /\ invocations'[t] = invocations[t]
  BY DEF IInv, TypeOK, Commit, Progress
<1>6. StateInv(trace'[t], saved[t])
  <2>1. StateInv(trace[t], saved[t]) /\ trace[t] \in Seq(TraceStep)
    BY ThreadFacts DEF ThreadInv
  <2>2. ASSUME NEW row \in TraceStep, RecordStep(t, row)
        PROVE  StateInv(trace'[t], saved[t])
    <3>1. trace'[t] = Append(trace[t], row)
      BY <2>2 DEF RecordStep, IInv, TypeOK
    <3> QED
      BY <2>1, <3>1, StateInvGrows
  <2> QED
    BY <2>1, <2>2
<1>7. ThreadInv(t)'
  BY <1>5, <1>6 DEF ThreadInv
<1>8. ASSUME NEW u \in Threads \ {t}
      PROVE  /\ work'[u] = work[u] /\ saved'[u] = saved[u] /\ running'[u] = running[u]
             /\ invocations'[u] = invocations[u] /\ inflight'[u] = inflight[u]
             /\ trace'[u] = trace[u]
  BY DEF Commit, Progress, RecordStep, IInv, TypeOK
<1> QED
  BY <1>4, <1>7, <1>8, OneThread

\* The progress of a node that stays as it is.
LEMMA SameProgress ==
    ASSUME IInv, NEW t \in Threads, UNCHANGED inflight
    PROVE  Progress(t, inflight[t])
BY DEF IInv, TypeOK, Progress

\* The state of a thread that stays as it is.
LEMMA SameState ==
    ASSUME IInv, NEW t \in Threads, UNCHANGED work
    PROVE  Commit(t, work[t])
BY DEF IInv, TypeOK, Commit

\* A turn that goes on keeps its id and its answers.
LEMMA SameTurn ==
    ASSUME IInv, NEW t \in Threads, running[t], work[t].node # "start_turn",
           NEW s \in PlannerState, s.node # "start_turn", s.turn_id = work[t].turn_id,
           Len(work[t].results) <= Len(s.results)
    PROVE  TurnInv(s, saved[t], TRUE, invocations[t])
<1>1. Len(s.results) \in Nat
  BY LenProperties DEF PlannerState
<1> QED
  BY <1>1, ThreadFacts DEF ThreadInv, TurnInv

\* So does one whose state stays as it is.
LEMMA SameStateTurn ==
    ASSUME IInv, NEW t \in Threads, running[t], work[t].node # "start_turn"
    PROVE  TurnInv(work[t], saved[t], TRUE, invocations[t])
BY ThreadFacts DEF ThreadInv, TurnInv

\* start_turn keeps the invariant: its turn id is the number of this invocation,
\* which no checkpoint holds yet.
LEMMA StartTurnStep == ASSUME IInv, NEW t \in Threads, StartTurn(t) PROVE IInv'
<1> DEFINE s == [Blank EXCEPT !.node = "planner_model", !.turn_id = invocations[t]]
<1>1. /\ s \in PlannerState /\ StateInv(trace[t], s)
      /\ s.turn_id = invocations[t] /\ s.node = "planner_model"
  BY ThreadFacts, StartTurnState
<1>2. Progress(t, inflight[t])
  BY SameProgress DEF StartTurn
<1>3. FlightInv(trace[t], s, inflight[t])
  BY <1>1 DEF FlightInv
<1>4. TurnInv(s, saved[t], TRUE, invocations[t])
  <2>1. saved[t].turn_id < invocations[t]
    BY ThreadFacts DEF StartTurn, At, ThreadInv, TurnInv
  <2> QED
    BY <1>1, <2>1, ThreadFacts DEF TurnInv
<1>5. WritesAreTraced' /\ trace' = trace
  BY WritesGrow DEF IInv, StartTurn, durable
<1>6. /\ gaps' \in [Threads -> Nat]
      /\ memory' \in [Users -> [MemoryKinds \X Keys -> MemoryRecord \cup {None}]]
  BY DEF IInv, TypeOK, StartTurn, durable
<1> HIDE DEF s
<1> QED
  BY <1>1, <1>2, <1>3, <1>4, <1>5, <1>6, ThreadFacts, NodeStep DEF StartTurn, At, s

\* A final message keeps the invariant: it traces the end of the turn it ends.
LEMMA FinalMessageStep == ASSUME IInv, NEW t \in Threads, FinalMessage(t) PROVE IInv'
<1> DEFINE s == [work[t] EXCEPT !.model_calls = @ + 1, !.last_ai = <<>>,
                                !.halt_reason = "final_message", !.node = "memory_writer"]
           row == TerminalRow(work[t], "final_message")
<1>1. /\ work[t] \in PlannerState /\ StateInv(trace[t], work[t])
      /\ trace[t] \in Seq(TraceStep) /\ work[t].node = "planner_model" /\ running[t]
  BY ThreadFacts DEF ThreadInv, FinalMessage, At
<1>2. s \in PlannerState /\ StateInv(Append(trace[t], row), s)
  BY <1>1, FinalMessageState
<1>3. s.turn_id = work[t].turn_id /\ s.results = work[t].results /\ s.node = "memory_writer"
  BY <1>1 DEF PlannerState
<1>4. row \in TraceStep
  BY <1>1, RowTypes DEF HaltReason
<1>5. RecordStep(t, row) /\ trace'[t] = Append(trace[t], row)
  BY DEF FinalMessage, RecordStep, IInv, TypeOK
<1>6. Progress(t, inflight[t])
  BY SameProgress DEF FinalMessage
<1>7. FlightInv(trace'[t], s, inflight[t])
  BY <1>3 DEF FlightInv
<1>8. TurnInv(s, saved[t], TRUE, invocations[t])
  <2> HIDE DEF s
  <2>1. Len(work[t].results) <= Len(s.results)
    BY <1>3, ThreadFacts
  <2> QED
    BY <1>1, <1>2, <1>3, <2>1, SameTurn
<1>9. WritesAreTraced'
  BY <1>4, <1>5, WritesGrow DEF IInv, FinalMessage
<1>10. /\ gaps' \in [Threads -> Nat]
       /\ memory' \in [Users -> [MemoryKinds \X Keys -> MemoryRecord \cup {None}]]
  BY DEF IInv, TypeOK, FinalMessage
<1>11. Commit(t, s) /\ UNCHANGED <<saved, running, invocations>>
  BY DEF FinalMessage
<1> HIDE DEF s, row
<1> QED
  BY <1>1, <1>2, <1>4, <1>5, <1>6, <1>7, <1>8, <1>9, <1>10, <1>11, ThreadFacts, NodeStep

\* Halting at the step limit keeps the invariant.
LEMMA StepLimitStep ==
    ASSUME IInv, NEW t \in Threads, NEW calls \in Replies, StepLimit(t, calls)
    PROVE  IInv'
<1> DEFINE s == [work[t] EXCEPT !.model_calls = @ + 1, !.last_ai = calls,
                                !.halt_reason = "max_steps", !.node = "fallback_lesson"]
<1>1. /\ work[t] \in PlannerState /\ StateInv(trace[t], work[t])
      /\ trace[t] \in Seq(TraceStep) /\ work[t].node = "planner_model" /\ running[t]
      /\ calls # <<>> /\ OutOfSteps(work[t]) /\ calls \in Seq(Call)
  BY ThreadFacts, ReplyAssumption DEF ThreadInv, StepLimit, At
<1>2. s \in PlannerState /\ StateInv(trace[t], s)
  BY <1>1, StepLimitState
<1>3. s.turn_id = work[t].turn_id /\ s.results = work[t].results /\ s.node = "fallback_lesson"
  BY <1>1 DEF PlannerState
<1>4. Progress(t, inflight[t])
  BY SameProgress DEF StepLimit
<1>5. FlightInv(trace[t], s, inflight[t])
  BY <1>3 DEF FlightInv
<1>6. TurnInv(s, saved[t], TRUE, invocations[t])
  <2> HIDE DEF s
  <2>1. Len(work[t].results) <= Len(s.results)
    BY <1>3, ThreadFacts
  <2> QED
    BY <1>1, <1>2, <1>3, <2>1, SameTurn
<1>7. WritesAreTraced' /\ trace' = trace
  BY WritesGrow DEF IInv, StepLimit, durable
<1>8. /\ gaps' \in [Threads -> Nat]
      /\ memory' \in [Users -> [MemoryKinds \X Keys -> MemoryRecord \cup {None}]]
  BY DEF IInv, TypeOK, StepLimit, durable
<1>9. Commit(t, s) /\ UNCHANGED <<saved, running, invocations>>
  BY DEF StepLimit
<1> HIDE DEF s
<1> QED
  BY <1>1, <1>2, <1>4, <1>5, <1>6, <1>7, <1>8, <1>9, ThreadFacts, NodeStep

\* Asking for tools keeps the invariant: none of the calls has run.
LEMMA AskToolsStep ==
    ASSUME IInv, NEW t \in Threads, NEW calls \in Replies, AskTools(t, calls)
    PROVE  IInv'
<1> DEFINE s == [work[t] EXCEPT !.model_calls = @ + 1, !.last_ai = calls,
                                !.tool_calls = @ \o calls, !.node = "planner_tools"]
<1>1. /\ work[t] \in PlannerState /\ StateInv(trace[t], work[t])
      /\ trace[t] \in Seq(TraceStep) /\ work[t].node = "planner_model" /\ running[t]
      /\ ~OutOfSteps(work[t]) /\ calls \in Seq(Call)
  BY ThreadFacts, ReplyAssumption DEF ThreadInv, AskTools, At
<1>2. s \in PlannerState /\ StateInv(trace[t], s)
  BY <1>1, AskToolsState
<1>3. s.turn_id = work[t].turn_id /\ s.results = work[t].results /\ s.node = "planner_tools"
  BY <1>1 DEF PlannerState
<1>4. Progress(t, Launch(s)) /\ Launch(s) \in Seq(Results \cup {"waiting", "traced"})
  BY <1>2, LaunchType DEF AskTools
<1>5. FlightInv(trace[t], s, Launch(s))
  BY <1>1, <1>2, LaunchFlight
<1>6. TurnInv(s, saved[t], TRUE, invocations[t])
  <2> HIDE DEF s
  <2>1. Len(work[t].results) <= Len(s.results)
    BY <1>3, ThreadFacts
  <2> QED
    BY <1>1, <1>2, <1>3, <2>1, SameTurn
<1>7. WritesAreTraced' /\ trace' = trace
  BY WritesGrow DEF IInv, AskTools, durable
<1>8. /\ gaps' \in [Threads -> Nat]
      /\ memory' \in [Users -> [MemoryKinds \X Keys -> MemoryRecord \cup {None}]]
  BY DEF IInv, TypeOK, AskTools, durable
<1>9. Commit(t, s) /\ UNCHANGED <<saved, running, invocations>>
  BY DEF AskTools
<1> HIDE DEF s
<1> QED
  BY <1>1, <1>2, <1>4, <1>5, <1>6, <1>7, <1>8, <1>9, NodeStep

\* A memory write whose row is in the log keeps every record's row in the log.
LEMMA PutTraced ==
    ASSUME TypeOK, WritesAreTraced, trace' = trace, NEW t \in Threads,
           NEW kind \in MemoryKinds, NEW key \in Keys, NEW record \in MemoryRecord,
           record.thread = t, WriteTraced(trace[t], <<kind, key>>, record),
           Put(t, kind, key, record)
    PROVE  WritesAreTraced'
<1> SUFFICES ASSUME NEW u \in Users, NEW slot \in MemoryKinds \X Keys, memory'[u][slot] # None
             PROVE  WriteTraced(trace[memory'[u][slot].thread], slot, memory'[u][slot])
  BY DEF WritesAreTraced
<1>1. UserOf[t] \in Users /\ <<kind, key>> \in MemoryKinds \X Keys
  BY UserAssumption
<1>2. CASE u = UserOf[t] /\ slot = <<kind, key>>
  <2>1. memory'[u][slot] = record
    BY <1>1, <1>2 DEF Put, TypeOK
  <2> QED
    BY <1>2, <2>1
<1>3. CASE ~(u = UserOf[t] /\ slot = <<kind, key>>)
  <2>1. memory'[u][slot] = memory[u][slot]
    BY <1>1, <1>3 DEF Put, TypeOK
  <2> QED
    BY <2>1 DEF WritesAreTraced
<1> QED
  BY <1>2, <1>3

\* The call that a step of planner_tools is about.
LEMMA CallFacts ==
    ASSUME IInv, NEW t \in Threads, NEW p, NEW stage, Stage(t, p, stage)
    PROVE  /\ running[t] /\ work[t].node = "planner_tools"
           /\ work[t] \in PlannerState /\ trace[t] \in Seq(TraceStep)
           /\ StateInv(trace[t], work[t])
           /\ FlightInv(trace[t], work[t], inflight[t])
           /\ p \in DOMAIN inflight[t] /\ inflight[t][p] = stage
           /\ work[t].last_ai[p] \in Call
           /\ StepIndex(work[t], p) \in Nat
<1>1. /\ running[t] /\ work[t].node = "planner_tools"
      /\ p \in DOMAIN inflight[t] /\ inflight[t][p] = stage
  BY DEF Stage, At
<1>2. /\ work[t] \in PlannerState /\ trace[t] \in Seq(TraceStep)
      /\ StateInv(trace[t], work[t]) /\ FlightInv(trace[t], work[t], inflight[t])
  BY <1>1, ThreadFacts DEF ThreadInv
<1>3. work[t].last_ai \in Seq(Call)
  BY <1>2 DEF PlannerState
<1>4. p \in DOMAIN work[t].last_ai
  BY <1>1, <1>2 DEF FlightInv
<1>5. p \in 1 .. Len(work[t].last_ai)
  BY <1>3, <1>4
<1>6. Len(work[t].tool_calls) = Len(work[t].results) + Len(work[t].last_ai)
  BY <1>1, <1>2 DEF StateInv
<1>7. StepIndex(work[t], p) \in Nat
  BY <1>2, <1>5, <1>6, StepIndexValue
<1> QED
  BY <1>1, <1>2, <1>3, <1>4, <1>7

\* Advancing one call keeps the sequence of stages one.
LEMMA AdvanceType ==
    ASSUME IInv, NEW t \in Threads, NEW p \in DOMAIN inflight[t],
           NEW stage \in Results \cup {"waiting", "traced"}
    PROVE  [inflight[t] EXCEPT ![p] = stage] \in Seq(Results \cup {"waiting", "traced"})
<1>1. inflight[t] \in Seq(Results \cup {"waiting", "traced"})
  BY ThreadFacts
<1> QED
  BY <1>1

\* A call that has its row may advance to any stage, one that has none to raised.
LEMMA AdvanceFlight ==
    ASSUME NEW rows, NEW s, NEW flight, NEW p \in DOMAIN flight, NEW stage,
           FlightInv(rows, s, flight),
           stage # "raised" => Traced(rows, StepRow(s, StepIndex(s, p), s.last_ai[p]))
    PROVE  FlightInv(rows, s, [flight EXCEPT ![p] = stage])
BY DEF FlightInv

\* Tracing a call keeps the invariant: the call has its row from now on.
LEMMA TraceCallStep == ASSUME IInv, NEW t \in Threads, NEW p, TraceCall(t, p) PROVE IInv'
<1> DEFINE s == work[t]
           row == StepRow(s, StepIndex(s, p), s.last_ai[p])
           f == [inflight[t] EXCEPT ![p] = "traced"]
<1>1. Stage(t, p, "waiting")
  BY DEF TraceCall
<1>2. /\ running[t] /\ s.node = "planner_tools" /\ s \in PlannerState
      /\ trace[t] \in Seq(TraceStep) /\ StateInv(trace[t], s)
      /\ FlightInv(trace[t], s, inflight[t]) /\ p \in DOMAIN inflight[t]
      /\ s.last_ai[p] \in Call /\ StepIndex(s, p) \in Nat
  BY <1>1, CallFacts
<1>3. row \in TraceStep
  BY <1>2, RowTypes
<1>4. RecordStep(t, row) /\ Progress(t, f) /\ trace'[t] = Append(trace[t], row)
  BY DEF TraceCall, Advance, RecordStep, IInv, TypeOK
<1>5. StateInv(trace'[t], s)
  BY <1>2, <1>3, <1>4, StateInvGrows
<1>6. f \in Seq(Results \cup {"waiting", "traced"})
  BY <1>2, AdvanceType
<1>7. FlightInv(trace'[t], s, f)
  <2>1. FlightInv(trace'[t], s, inflight[t])
    BY <1>2, <1>3, <1>4, FlightInvGrows
  <2>2. Traced(trace'[t], row)
    BY <1>2, <1>3, <1>4, TracedGrows
  <2> QED
    BY <1>2, <2>1, <2>2, AdvanceFlight
<1>8. Commit(t, s) /\ UNCHANGED <<saved, running, invocations>>
  BY SameState DEF TraceCall
<1>9. TurnInv(s, saved[t], TRUE, invocations[t])
  BY <1>2, SameStateTurn
<1>10. WritesAreTraced'
  BY <1>3, <1>4, WritesGrow DEF IInv, TraceCall
<1>11. /\ gaps' \in [Threads -> Nat]
       /\ memory' \in [Users -> [MemoryKinds \X Keys -> MemoryRecord \cup {None}]]
  BY DEF IInv, TypeOK, TraceCall
<1> HIDE DEF s, row, f
<1> QED
  BY <1>2, <1>3, <1>4, <1>5, <1>6, <1>7, <1>8, <1>9, <1>10, <1>11, NodeStep

\* Running a call keeps the invariant: what it writes follows its row.
LEMMA RunCallStep == ASSUME IInv, NEW t \in Threads, NEW p, RunCall(t, p) PROVE IInv'
<1> DEFINE s == work[t]
           call == s.last_ai[p]
           i == StepIndex(s, p)
           record == [thread |-> t, turn_id |-> s.turn_id, step_index |-> i, recap |-> None]
<1>1. Stage(t, p, "traced")
  BY DEF RunCall
<1>2. /\ running[t] /\ s.node = "planner_tools" /\ s \in PlannerState
      /\ trace[t] \in Seq(TraceStep) /\ StateInv(trace[t], s)
      /\ FlightInv(trace[t], s, inflight[t]) /\ p \in DOMAIN inflight[t]
      /\ inflight[t][p] = "traced" /\ call \in Call /\ i \in Nat /\ s.turn_id \in Nat
  BY <1>1, CallFacts, ThreadFacts
<1>3. PICK result \in ResultsOf(call) :
          /\ Advance(t, p, result)
          /\ IF result = "empty" THEN RecordGap(t) ELSE UNCHANGED gaps
          /\ IF call.tool = "record_outcome" /\ result = "ok"
               THEN Put(t, call.kind, call.key, record)
               ELSE UNCHANGED memory
  BY DEF RunCall
<1> DEFINE f == [inflight[t] EXCEPT ![p] = result]
<1>4. result \in Results \cup {"waiting", "traced"}
  BY DEF ResultsOf, Results
<1>5. f \in Seq(Results \cup {"waiting", "traced"}) /\ Progress(t, f)
  BY <1>2, <1>3, <1>4, AdvanceType DEF Advance
<1>6. trace' = trace /\ Commit(t, s) /\ UNCHANGED <<saved, running, invocations>>
  BY SameState DEF RunCall
<1>7. Traced(trace[t], StepRow(s, i, call))
  BY <1>2 DEF FlightInv
<1>8. FlightInv(trace'[t], s, f)
  BY <1>2, <1>6, <1>7, AdvanceFlight
<1>9. TurnInv(s, saved[t], TRUE, invocations[t])
  BY <1>2, SameStateTurn
<1>10. gaps' \in [Threads -> Nat]
  <2>1. CASE result = "empty"
    BY <1>2, <1>3, <2>1, RecordGapType DEF IInv
  <2>2. CASE result # "empty"
    BY <1>3, <2>2 DEF IInv, TypeOK
  <2> QED
    BY <2>1, <2>2
<1>11. /\ memory' \in [Users -> [MemoryKinds \X Keys -> MemoryRecord \cup {None}]]
       /\ WritesAreTraced'
  <2>1. CASE call.tool = "record_outcome" /\ result = "ok"
    <3>1. call.kind \in PLANNER_WRITE_ALLOWLIST
      BY <1>3, <2>1 DEF ResultsOf
    <3>2. call.kind \in MemoryKinds /\ call.key \in Keys
      BY <1>2, <2>1, <3>1 DEF Call, PLANNER_WRITE_ALLOWLIST, MemoryKinds
    <3>3. record \in MemoryRecord
      BY <1>2 DEF MemoryRecord
    <3>4. WriteTraced(trace[t], <<call.kind, call.key>>, record)
      BY <1>2, <1>7, NoneAssumption DEF WriteTraced, Traced, StepRow
    <3>5. Put(t, call.kind, call.key, record)
      BY <1>3, <2>1
    <3> QED
      BY <1>6, <3>2, <3>3, <3>4, <3>5, PutType, PutTraced DEF IInv
  <2>2. CASE ~(call.tool = "record_outcome" /\ result = "ok")
    <3>1. memory' = memory
      BY <1>3, <2>2
    <3> QED
      BY <1>6, <3>1, WritesGrow DEF IInv, TypeOK
  <2> QED
    BY <2>1, <2>2
<1> HIDE DEF s, f, i, call
<1> QED
  BY <1>2, <1>5, <1>6, <1>8, <1>9, <1>10, <1>11, NodeStep DEF s

\* A call that raises keeps the invariant: it may or may not have its row.
LEMMA CallRaisesStep == ASSUME IInv, NEW t \in Threads, NEW p, CallRaises(t, p) PROVE IInv'
<1> DEFINE s == work[t]
           f == [inflight[t] EXCEPT ![p] = "raised"]
<1>1. Stage(t, p, "waiting") \/ Stage(t, p, "traced")
  BY DEF CallRaises
<1>2. /\ running[t] /\ s.node = "planner_tools" /\ s \in PlannerState
      /\ StateInv(trace[t], s) /\ FlightInv(trace[t], s, inflight[t])
      /\ p \in DOMAIN inflight[t]
  BY <1>1, CallFacts
<1>3. f \in Seq(Results \cup {"waiting", "traced"}) /\ Progress(t, f)
  BY <1>2, AdvanceType DEF CallRaises, Advance, Results
<1>4. trace' = trace /\ Commit(t, s) /\ UNCHANGED <<saved, running, invocations>>
  BY SameState DEF CallRaises, durable
<1>5. FlightInv(trace'[t], s, f)
  BY <1>2, <1>4, AdvanceFlight
<1>6. TurnInv(s, saved[t], TRUE, invocations[t])
  BY <1>2, SameStateTurn
<1>7. WritesAreTraced'
  BY WritesGrow DEF IInv, CallRaises, durable
<1>8. /\ gaps' \in [Threads -> Nat]
      /\ memory' \in [Users -> [MemoryKinds \X Keys -> MemoryRecord \cup {None}]]
  BY DEF IInv, TypeOK, CallRaises, durable
<1> HIDE DEF s, f
<1> QED
  BY <1>2, <1>3, <1>4, <1>5, <1>6, <1>7, <1>8, NodeStep DEF s

\* The return of planner_tools keeps the invariant: all its calls have their rows.
LEMMA ToolsReturnStep == ASSUME IInv, NEW t \in Threads, ToolsReturn(t) PROVE IInv'
<1> DEFINE s == AfterTools(work[t], inflight[t])
<1>1. /\ running[t] /\ work[t].node = "planner_tools" /\ work[t] \in PlannerState
      /\ trace[t] \in Seq(TraceStep) /\ StateInv(trace[t], work[t])
      /\ FlightInv(trace[t], work[t], inflight[t])
      /\ inflight[t] \in Seq(Results \cup {"waiting", "traced"})
      /\ \A p \in DOMAIN inflight[t] : inflight[t][p] \in Results \ {"raised"}
  BY ThreadFacts DEF ToolsReturn, At, ThreadInv
<1>2. inflight[t] \in Seq(Results) /\ \A p \in DOMAIN inflight[t] : inflight[t][p] # "raised"
  BY <1>1
<1>3. /\ s \in PlannerState /\ StateInv(trace[t], s) /\ s.turn_id = work[t].turn_id
      /\ Len(work[t].results) <= Len(s.results)
      /\ s.node \in {"fallback_lesson", "planner_model"}
  BY <1>1, <1>2, AfterToolsState
<1>4. Commit(t, s) /\ Progress(t, <<>>) /\ UNCHANGED <<saved, running, invocations>>
  BY DEF ToolsReturn
<1> HIDE DEF s
<1>5. FlightInv(trace[t], s, <<>>)
  BY <1>3 DEF FlightInv
<1>6. TurnInv(s, saved[t], TRUE, invocations[t])
  BY <1>1, <1>3, SameTurn
<1>7. WritesAreTraced' /\ trace' = trace
  BY WritesGrow DEF IInv, ToolsReturn, durable
<1>8. /\ gaps' \in [Threads -> Nat]
      /\ memory' \in [Users -> [MemoryKinds \X Keys -> MemoryRecord \cup {None}]]
  BY DEF IInv, TypeOK, ToolsReturn, durable
<1>9. <<>> \in Seq(Results \cup {"waiting", "traced"})
  OBVIOUS
<1> QED
  BY <1>1, <1>3, <1>4, <1>5, <1>6, <1>7, <1>8, <1>9, NodeStep

\* The fallback's lesson keeps the invariant: the state waits for the terminal row.
LEMMA FallbackTeachStep == ASSUME IInv, NEW t \in Threads, FallbackTeach(t) PROVE IInv'
<1> DEFINE s == work[t]
<1>1. /\ running[t] /\ s.node = "fallback_lesson" /\ s \in PlannerState
      /\ StateInv(trace[t], s)
  BY ThreadFacts DEF FallbackTeach, At, ThreadInv
<1>2. PICK result \in {"ok", "empty"} :
          /\ Progress(t, <<result>>)
          /\ IF result = "empty" THEN RecordGap(t) ELSE UNCHANGED gaps
  BY DEF FallbackTeach
<1>3. <<result>> \in Seq(Results \cup {"waiting", "traced"})
  BY DEF Results
<1>4. trace' = trace /\ Commit(t, s) /\ UNCHANGED <<saved, running, invocations>>
  BY SameState DEF FallbackTeach
<1>5. FlightInv(trace'[t], s, <<result>>)
  BY <1>1 DEF FlightInv
<1>6. TurnInv(s, saved[t], TRUE, invocations[t])
  BY <1>1, SameStateTurn
<1>7. gaps' \in [Threads -> Nat]
  <2>1. CASE result = "empty"
    BY <1>2, <2>1, RecordGapType DEF IInv
  <2>2. CASE result # "empty"
    BY <1>2, <2>2 DEF IInv, TypeOK
  <2> QED
    BY <2>1, <2>2
<1>8. /\ memory' \in [Users -> [MemoryKinds \X Keys -> MemoryRecord \cup {None}]]
      /\ WritesAreTraced'
  BY WritesGrow DEF IInv, TypeOK, FallbackTeach
<1> HIDE DEF s
<1> QED
  BY <1>1, <1>2, <1>3, <1>4, <1>5, <1>6, <1>7, <1>8, NodeStep DEF s

\* The end of the fallback keeps the invariant: it traces the end of the turn.
LEMMA FallbackReplyStep == ASSUME IInv, NEW t \in Threads, FallbackReply(t) PROVE IInv'
<1> DEFINE w == work[t]
           lesson == [turn_id |-> w.turn_id, step_index |-> Len(w.tool_calls),
                      grounded |-> inflight[t][1] = "ok"]
           s == [w EXCEPT !.lesson = lesson, !.node = "memory_writer"]
           row == TerminalRow(w, w.halt_reason)
<1>1. /\ w \in PlannerState /\ StateInv(trace[t], w)
      /\ trace[t] \in Seq(TraceStep) /\ w.node = "fallback_lesson" /\ running[t]
  BY ThreadFacts DEF ThreadInv, FallbackReply, At
<1>2. lesson \in Lesson
  <2>1. w.turn_id \in Nat /\ w.tool_calls \in Seq(Call)
    BY <1>1 DEF PlannerState
  <2>2. Len(w.tool_calls) \in Nat
    BY <2>1
  <2> QED
    BY <2>1, <2>2 DEF Lesson
<1>3. Commit(t, s) /\ Progress(t, <<>>) /\ UNCHANGED <<saved, running, invocations>>
  BY DEF FallbackReply
<1> HIDE DEF lesson
<1>4. s \in PlannerState /\ StateInv(Append(trace[t], row), s)
  BY <1>1, <1>2, FallbackReplyState
<1>5. s.turn_id = w.turn_id /\ s.results = w.results /\ s.node = "memory_writer"
  BY <1>1 DEF PlannerState
<1>6. row \in TraceStep
  <2>1. w.halt_reason \in HaltReason \cup {"none"}
    BY <1>1 DEF PlannerState
  <2> QED
    BY <1>1, <2>1, RowTypes
<1>7. RecordStep(t, row) /\ trace'[t] = Append(trace[t], row)
  BY DEF FallbackReply, RecordStep, IInv, TypeOK
<1>8. FlightInv(trace'[t], s, <<>>)
  BY <1>5 DEF FlightInv
<1>9. TurnInv(s, saved[t], TRUE, invocations[t])
  <2> HIDE DEF s
  <2>1. Len(work[t].results) <= Len(s.results)
    BY <1>5, ThreadFacts
  <2> QED
    BY <1>1, <1>4, <1>5, <2>1, SameTurn
<1>10. WritesAreTraced'
  BY <1>6, <1>7, WritesGrow DEF IInv, FallbackReply
<1>11. /\ gaps' \in [Threads -> Nat]
       /\ memory' \in [Users -> [MemoryKinds \X Keys -> MemoryRecord \cup {None}]]
  BY DEF IInv, TypeOK, FallbackReply
<1>12. <<>> \in Seq(Results \cup {"waiting", "traced"})
  OBVIOUS
<1> HIDE DEF s, row, w
<1> QED
  BY <1>1, <1>3, <1>4, <1>6, <1>7, <1>8, <1>9, <1>10, <1>11, <1>12, NodeStep

\* memory_writer keeps the invariant: the summary follows the terminal row.
LEMMA MemoryWriterStep == ASSUME IInv, NEW t \in Threads, MemoryWriter(t) PROVE IInv'
<1> DEFINE w == work[t]
           s == [w EXCEPT !.node = "done"]
           record == [thread |-> t, turn_id |-> w.turn_id,
                      step_index |-> Len(w.tool_calls), recap |-> Recap(w)]
<1>1. /\ w \in PlannerState /\ StateInv(trace[t], w)
      /\ trace[t] \in Seq(TraceStep) /\ w.node = "memory_writer" /\ running[t]
  BY ThreadFacts DEF ThreadInv, MemoryWriter, At
<1>2. s \in PlannerState /\ StateInv(trace[t], s)
  BY <1>1, MemoryWriterState
<1>3. s.turn_id = w.turn_id /\ s.results = w.results /\ s.node = "done"
  BY <1>1 DEF PlannerState
<1>4. Commit(t, s) /\ trace' = trace /\ UNCHANGED <<saved, running, invocations>>
  BY DEF MemoryWriter
<1>5. Progress(t, inflight[t])
  BY SameProgress DEF MemoryWriter
<1>6. FlightInv(trace'[t], s, inflight[t])
  BY <1>3 DEF FlightInv
<1>7. TurnInv(s, saved[t], TRUE, invocations[t])
  <2> HIDE DEF s
  <2>1. Len(work[t].results) <= Len(s.results)
    BY <1>3, ThreadFacts
  <2> QED
    BY <1>1, <1>2, <1>3, <2>1, SameTurn
<1>8. Recap(w) \in RecapText
  <2>1. w.halt_reason \in HaltReason \cup {"none"}
    BY <1>1 DEF PlannerState
  <2> QED
    BY <2>1 DEF Recap, RecapText
<1>9. record \in MemoryRecord
  <2>1. w.turn_id \in Nat /\ w.tool_calls \in Seq(Call)
    BY <1>1 DEF PlannerState
  <2>2. Len(w.tool_calls) \in Nat
    BY <2>1
  <2> QED
    BY <1>8, <2>1, <2>2 DEF MemoryRecord
<1>10. WriteTraced(trace[t], <<"session_summary", SUMMARY_KEY>>, record)
  <2>1. HaltCause(w) /\ Traced(trace[t], TerminalRow(w, w.halt_reason))
    BY <1>1 DEF StateInv, Answered
  <2>2. w.halt_reason # "none"
    BY <2>1 DEF HaltCause
  <2>3. record.recap # None
    BY <1>8, NoneAssumption
  <2> HIDE DEF w
  <2> QED
    BY <2>1, <2>2, <2>3 DEF WriteTraced, Traced, TerminalRow
<1>11. Put(t, "session_summary", SUMMARY_KEY, record)
  BY DEF MemoryWriter
<1>12. "session_summary" \in MemoryKinds /\ SUMMARY_KEY \in Keys /\ record.thread = t
  BY KeyAssumption DEF MemoryKinds
<1> HIDE DEF record
<1>13. /\ memory' \in [Users -> [MemoryKinds \X Keys -> MemoryRecord \cup {None}]]
       /\ WritesAreTraced'
  BY <1>4, <1>9, <1>10, <1>11, <1>12, PutType, PutTraced DEF IInv
<1>14. gaps' \in [Threads -> Nat]
  BY DEF IInv, TypeOK, MemoryWriter
<1> HIDE DEF s, w
<1> QED
  BY <1>1, <1>2, <1>4, <1>5, <1>6, <1>7, <1>13, <1>14, ThreadFacts, NodeStep

-----------------------------------------------------------------------------
(* Theorems *)

\* The invariant holds of the empty system.
LEMMA InitInv == Init => IInv
<1> SUFFICES ASSUME Init PROVE IInv
  OBVIOUS
<1>1. TypeOK
  BY InitType
<1>2. \A t \in Threads : StateInv(trace[t], Blank)
  <2>1. Blank.node = "idle" /\ Blank.results = <<>> /\ Blank.tool_calls = <<>>
    BY DEF Blank
  <2>2. DOMAIN Blank.results = {}
    BY <2>1
  <2> HIDE DEF Blank
  <2> QED
    BY <2>1, <2>2 DEF StateInv, CoversAnswers, Answered
<1>3. \A t \in Threads : TurnInv(Blank, Blank, FALSE, 0)
  BY DEF TurnInv, Blank
<1>4. \A t \in Threads : ThreadInv(t)
  BY <1>2, <1>3 DEF Init, ThreadInv
<1>5. WritesAreTraced
  BY DEF Init, WritesAreTraced
<1> QED
  BY <1>1, <1>4, <1>5 DEF IInv

\* Every step of the system keeps the invariant.
LEMMA NextInv == IInv /\ [Next]_vars => IInv'
<1> SUFFICES ASSUME IInv, [Next]_vars PROVE IInv'
  OBVIOUS
<1>1. ASSUME NEW t \in Threads, Submit(t) PROVE IInv'
  BY <1>1, SubmitStep
<1>2. ASSUME NEW t \in Threads, Persist(t) PROVE IInv'
  BY <1>2, PersistStep
<1>3. ASSUME NEW t \in Threads, TurnStep(t) PROVE IInv'
  <2>1. CASE StartTurn(t)
    BY <2>1, StartTurnStep
  <2>2. CASE PlannerModel(t)
    BY <2>2, FinalMessageStep, StepLimitStep, AskToolsStep DEF PlannerModel
  <2>3. CASE PlannerTools(t)
    BY <2>3, TraceCallStep, RunCallStep, ToolsReturnStep DEF PlannerTools
  <2>4. CASE FallbackTeach(t)
    BY <2>4, FallbackTeachStep
  <2>5. CASE FallbackReply(t)
    BY <2>5, FallbackReplyStep
  <2>6. CASE MemoryWriter(t)
    BY <2>6, MemoryWriterStep
  <2>7. CASE Return(t)
    BY <2>7, LeaveStep DEF Return
  <2> QED
    BY <1>3, <2>1, <2>2, <2>3, <2>4, <2>5, <2>6, <2>7 DEF TurnStep
<1>4. ASSUME NEW t \in Threads, Failure(t) PROVE IInv'
  <2>1. CASE Resume(t)
    BY <2>1, ResumeStep
  <2>2. CASE Fail(t)
    BY <2>2, LeaveStep DEF Fail
  <2>3. CASE \E p \in DOMAIN inflight[t] : CallRaises(t, p)
    BY <2>3, CallRaisesStep
  <2> QED
    BY <1>4, <2>1, <2>2, <2>3 DEF Failure
<1>5. CASE Crash
  BY <1>5, CrashStep
<1>6. CASE UNCHANGED vars
  BY <1>6 DEF vars, durable, IInv, TypeOK, ThreadInv, WritesAreTraced
<1> QED
  BY <1>1, <1>2, <1>3, <1>4, <1>5, <1>6 DEF Next

\* The inductive invariant holds in every state, whatever fails and crashes.
THEOREM Inductive == Spec => []IInv
<1> QED
  BY InitInv, NextInv, PTL DEF Spec

\* The state has its types: in particular no turn counts more model calls than
\* MAX_PLANNER_STEPS.
THEOREM TypeCorrect == Spec => []TypeOK
<1>1. IInv => TypeOK
  BY DEF IInv
<1> QED
  BY <1>1, Inductive, PTL

\* The audit log covers every turn: a row for each answered call, under its own
\* index, and a terminal row for each answered turn.
THEOREM TraceCoverage == Spec => []TraceCoversTurn
<1>1. IInv => TraceCoversTurn
  BY ThreadFacts DEF TraceCoversTurn, ThreadInv, StateInv
<1> QED
  BY <1>1, Inductive, PTL

\* No memory record without the audit row of what wrote it.
THEOREM WriteAudit == Spec => []WritesAreTraced
<1>1. IInv => WritesAreTraced
  BY DEF IInv
<1> QED
  BY <1>1, Inductive, PTL

\* The reason a turn ended with is what happened in it.
THEOREM HaltSoundness == Spec => []HaltHasItsCause
<1>1. IInv => HaltHasItsCause
  BY ThreadFacts DEF HaltHasItsCause, ThreadInv, StateInv
<1> QED
  BY <1>1, Inductive, PTL

\* Whenever tools run, the turn may still call the model.
THEOREM StepBudget == Spec => []ToolsLeaveAModelCall
<1>1. IInv => ToolsLeaveAModelCall
  BY ThreadFacts DEF ToolsLeaveAModelCall, ThreadInv, StateInv
<1> QED
  BY <1>1, Inductive, PTL

\* A step that changes the audit log appends one row, of the step the turn is at.
LEMMA TraceSteps ==
    ASSUME IInv, [Next]_vars, trace' # trace
    PROVE  \E t \in Threads : \E row \in TraceStep :
              /\ RecordStep(t, row)
              /\ row.turn_id = work[t].turn_id
              /\ row.step_index >= Len(work[t].results)
<1>1. CASE \E t \in Threads : \E p \in DOMAIN inflight[t] : TraceCall(t, p)
  <2> PICK t \in Threads : \E p \in DOMAIN inflight[t] : TraceCall(t, p)
    BY <1>1
  <2>1. PICK p \in DOMAIN inflight[t] : TraceCall(t, p)
    OBVIOUS
  <2> DEFINE s == work[t]
  <2>2. p \in DOMAIN s.last_ai /\ StepIndex(s, p) = Len(s.results) + p - 1
    <3>1. running[t] /\ s.node = "planner_tools"
      BY <2>1 DEF TraceCall, Stage, At
    <3>2. Len(s.tool_calls) = Len(s.results) + Len(s.last_ai) /\ p \in DOMAIN s.last_ai
      BY <2>1, <3>1, ThreadFacts DEF ThreadInv, StateInv, FlightInv
    <3>3. s.last_ai \in Seq(Call) /\ s \in PlannerState
      BY ThreadFacts DEF PlannerState
    <3>4. p \in 1 .. Len(s.last_ai)
      BY <3>2, <3>3
    <3> HIDE DEF s
    <3> QED
      BY <3>2, <3>3, <3>4, StepIndexValue
  <2>3. Len(s.results) \in Nat /\ p \in Nat \ {0}
    BY <2>2, ThreadFacts DEF PlannerState
  <2> DEFINE row == StepRow(s, StepIndex(s, p), s.last_ai[p])
  <2>4. RecordStep(t, row) /\ row \in TraceStep
    BY <2>1, CallFacts, RowTypes DEF TraceCall
  <2>5. row.turn_id = s.turn_id /\ row.step_index = StepIndex(s, p)
    BY DEF StepRow
  <2> HIDE DEF row
  <2>6. row.step_index >= Len(s.results)
    BY <2>2, <2>3, <2>5
  <2> QED
    BY <2>4, <2>5, <2>6
<1>2. CASE \E t \in Threads : FinalMessage(t) \/ FallbackReply(t)
  <2>1. PICK t \in Threads : FinalMessage(t) \/ FallbackReply(t)
    BY <1>2
  <2>2. PICK reason \in HaltReason : RecordStep(t, TerminalRow(work[t], reason))
    <3>1. CASE FinalMessage(t)
      BY <3>1 DEF FinalMessage, HaltReason
    <3>2. CASE FallbackReply(t)
      <4>1. work[t].halt_reason \in HaltReason
        BY <3>2, ThreadFacts
           DEF FallbackReply, At, ThreadInv, StateInv, HaltCause, HaltReason
      <4> QED
        BY <3>2, <4>1 DEF FallbackReply
    <3> QED
      BY <2>1, <3>1, <3>2
  <2>3. work[t].node \in {"planner_model", "fallback_lesson"}
    BY <2>1 DEF FinalMessage, FallbackReply, At
  <2>4. Len(work[t].tool_calls) = Len(work[t].results)
    BY <2>3, ThreadFacts DEF ThreadInv, StateInv
  <2>5. Len(work[t].results) \in Nat
    BY ThreadFacts DEF PlannerState
  <2>6. TerminalRow(work[t], reason) \in TraceStep
    BY ThreadFacts, RowTypes
  <2> QED
    BY <2>2, <2>4, <2>5, <2>6 DEF TerminalRow
<1> QED
  BY <1>1, <1>2 DEF Next, TurnStep, Failure, PlannerModel, PlannerTools, Submit, Resume, Invoke,
     Persist, Return, Fail, Leave, StartTurn, StepLimit, AskTools, RunCall, ToolsReturn,
     FallbackTeach, CallRaises, MemoryWriter, Crash, vars, durable

\* Once the answers of a reply's calls are in a checkpoint, no later row of the
\* turn is of one of these calls, whatever crashes and resumes follow.
THEOREM NoRework == Spec => CheckpointedCallsStayDone
<1> DEFINE Later ==
        \A t \in Threads : trace'[t] # trace[t] =>
            LET row == trace'[t][Len(trace'[t])] IN
            row.turn_id = saved[t].turn_id => row.step_index >= Len(saved[t].results)
<1>1. IInv /\ [Next]_vars => [Later]_trace
  <2> SUFFICES ASSUME IInv, [Next]_vars, trace' # trace,
                      NEW t \in Threads, trace'[t] # trace[t],
                      trace'[t][Len(trace'[t])].turn_id = saved[t].turn_id
               PROVE  trace'[t][Len(trace'[t])].step_index >= Len(saved[t].results)
    OBVIOUS
  <2>1. PICK u \in Threads, row \in TraceStep :
            /\ RecordStep(u, row)
            /\ row.turn_id = work[u].turn_id
            /\ row.step_index >= Len(work[u].results)
    BY TraceSteps
  <2>2. trace \in [Threads -> Seq(TraceStep)]
    BY DEF IInv, TypeOK
  <2>3. u = t /\ trace'[t] = Append(trace[t], row)
    BY <2>1, <2>2 DEF RecordStep
  <2>4. trace'[t][Len(trace'[t])] = row
    BY <2>2, <2>3
  <2>5. Len(saved[t].results) <= Len(work[t].results)
    BY <2>1, <2>3, <2>4, ThreadFacts DEF ThreadInv, TurnInv
  <2>6. Len(saved[t].results) \in Nat /\ Len(work[t].results) \in Nat
    BY ThreadFacts
  <2>7. row.step_index \in Nat
    BY DEF TraceStep
  <2>8. row.step_index >= Len(work[t].results)
    BY <2>1, <2>3
  <2>9. row.step_index >= Len(saved[t].results)
    BY <2>5, <2>6, <2>7, <2>8
  <2> QED
    BY <2>4, <2>9
<1> QED
  BY <1>1, Inductive, PTL DEF Spec, CheckpointedCallsStayDone

-----------------------------------------------------------------------------
(* The lesson of a state *)

\* A node that leaves the calls and the lesson alone keeps what holds of them,
\* unless it ends the turn early.
LEMMA SameLesson ==
    ASSUME NEW s, NEW f, LessonInv(s), s.node # "start_turn",
           f.turn_id = s.turn_id, f.tool_calls = s.tool_calls, f.results = s.results,
           f.lesson = s.lesson, f.quiz = s.quiz,
           (Answered(f) /\ f.halt_reason # "final_message")
             = (Answered(s) /\ s.halt_reason # "final_message")
    PROVE  LessonInv(f)
BY DEF LessonInv

\* A position that is in a set and that no other passes is its last.
LEMMA LastIs ==
    ASSUME NEW n \in Nat, NEW S, S \subseteq 1 .. n, NEW x \in S, \A q \in S : q <= x
    PROVE  Last(S) = x
<1>1. Last(S) \in S /\ x <= Last(S)
  BY LastIsGreatest
<1>2. Last(S) <= x
  BY <1>1
<1>3. Last(S) \in Nat /\ x \in Nat
  <2>1. Last(S) \in 1 .. n /\ x \in 1 .. n
    BY <1>1
  <2> QED
    BY <2>1
<1> QED
  BY <1>1, <1>2, <1>3

\* The answers of a reply add its own teaching calls to those of the turn.
LEMMA TaughtOfReply ==
    ASSUME NEW s \in PlannerState, NEW results \in Seq(Results),
           Len(s.tool_calls) = Len(s.results) + Len(s.last_ai),
           \A p \in DOMAIN s.last_ai : s.tool_calls[Len(s.results) + p] = s.last_ai[p],
           DOMAIN results = DOMAIN s.last_ai
    PROVE  LET old == Taught(s.tool_calls, s.results)
               new == Taught(s.last_ai, results)
               all == Taught(s.tool_calls, s.results \o results)
           IN  /\ new = {} => all = old
               /\ new # {} => all # {} /\ Last(all) = Len(s.results) + Last(new)
<1> DEFINE old == Taught(s.tool_calls, s.results)
           new == Taught(s.last_ai, results)
           all == Taught(s.tool_calls, s.results \o results)
           m == Len(s.results)
           n == Len(results)
<1>1. s.last_ai \in Seq(Call) /\ s.results \in Seq(Results) /\ s.tool_calls \in Seq(Call)
  BY DEF PlannerState
<1>2. /\ m \in Nat /\ n \in Nat
      /\ DOMAIN results = 1 .. n /\ DOMAIN s.results = 1 .. m
      /\ DOMAIN s.last_ai = 1 .. n
  BY <1>1
<1>3. /\ DOMAIN (s.results \o results) = 1 .. m + n
      /\ \A i \in 1 .. m : (s.results \o results)[i] = s.results[i]
      /\ \A p \in 1 .. n : (s.results \o results)[m + p] = results[p]
  <2>1. /\ s.results \o results \in Seq(Results)
        /\ Len(s.results \o results) = m + n
    BY <1>1, ConcatProperties
  <2> QED
    BY <1>1, <2>1, ConcatProperties
<1> DEFINE concat == s.results \o results
           calls == s.tool_calls
           reply == s.last_ai
<1>4. \A p \in 1 .. n : calls[m + p] = reply[p]
  BY <1>2
<1> HIDE DEF concat, calls, reply, m, n
<1>5. \A i \in 1 .. m : i \in all <=> i \in old
  <2>1. \A i \in 1 .. m : i \in 1 .. m + n
    BY <1>2
  <2> QED
    BY <1>2, <1>3, <2>1 DEF Taught, concat, calls
<1>6. \A p \in 1 .. n : m + p \in all <=> p \in new
  <2>1. \A p \in 1 .. n : m + p \in 1 .. m + n
    BY <1>2
  <2> QED
    BY <1>2, <1>3, <1>4, <2>1 DEF Taught, concat, calls, reply
<1>7. all \subseteq 1 .. m + n /\ old \subseteq 1 .. m /\ new \subseteq 1 .. n
  BY <1>2, <1>3 DEF Taught, concat
<1> HIDE DEF old, new, all
<1>8. \A i \in 1 .. m + n : i \notin 1 .. m => i - m \in 1 .. n /\ i = m + (i - m)
  BY <1>2
<1>9. ASSUME new = {} PROVE all = old
  <2>1. \A i \in all : i \in old
    <3> SUFFICES ASSUME NEW i \in all PROVE i \in old
      OBVIOUS
    <3>1. i \in 1 .. m
      BY <1>6, <1>7, <1>8, <1>9
    <3> QED
      BY <1>5, <3>1
  <2>2. \A i \in old : i \in all
    BY <1>5, <1>7
  <2> QED
    BY <2>1, <2>2
<1>10. ASSUME new # {} PROVE all # {} /\ Last(all) = m + Last(new)
  <2> DEFINE x == Last(new)
  <2>1. x \in new /\ \A q \in new : q <= x
    BY <1>2, <1>7, <1>10, LastIsGreatest
  <2> HIDE DEF x
  <2>2. x \in 1 .. n
    BY <1>7, <2>1
  <2>3. m + x \in all
    BY <1>6, <2>1, <2>2
  <2>4. \A i \in all : i <= m + x
    <3> SUFFICES ASSUME NEW i \in all PROVE i <= m + x
      OBVIOUS
    <3>1. CASE i \in 1 .. m
      BY <1>2, <2>2, <3>1
    <3>2. CASE i \notin 1 .. m
      <4>1. i - m \in 1 .. n /\ i = m + (i - m)
        BY <1>7, <1>8, <3>2
      <4>2. i - m \in new
        BY <1>6, <4>1
      <4>3. i - m <= x
        BY <2>1, <4>2
      <4> QED
        BY <1>2, <2>2, <4>1, <4>3
    <3> QED
      BY <3>1, <3>2
  <2>5. m + n \in Nat
    BY <1>2
  <2>6. Last(all) = m + x
    BY <1>7, <2>3, <2>4, <2>5, LastIs
  <2> QED
    BY <2>3, <2>6 DEF x
<1> QED
  BY <1>9, <1>10 DEF old, new, all, m

\* What the tool node returns has the lesson of the last of its calls that taught.
LEMMA AfterToolsLesson ==
    ASSUME NEW s \in PlannerState, NEW results \in Seq(Results),
           s.node = "planner_tools",
           Len(s.tool_calls) = Len(s.results) + Len(s.last_ai),
           \A p \in DOMAIN s.last_ai : s.tool_calls[Len(s.results) + p] = s.last_ai[p],
           DOMAIN results = DOMAIN s.last_ai,
           LessonInv(s)
    PROVE  LessonInv(AfterTools(s, results))
<1> DEFINE f == AfterTools(s, results)
           new == Taught(s.last_ai, results)
           quizzed == Quizzed(s.last_ai, results)
<1>1. s.last_ai \in Seq(Call) /\ s.turn_id \in Nat
  BY DEF PlannerState
<1>2. /\ DOMAIN results = 1 .. Len(s.last_ai) /\ Len(s.last_ai) \in Nat
      /\ new \subseteq 1 .. Len(s.last_ai) /\ quizzed \subseteq 1 .. Len(s.last_ai)
  BY <1>1 DEF Taught, Quizzed
<1>3. /\ f.turn_id = s.turn_id /\ f.tool_calls = s.tool_calls
      /\ f.results = s.results \o results
      /\ f.lesson = IF new = {} THEN s.lesson ELSE LessonAt(s, Last(new), results)
      /\ f.quiz = IF quizzed = {} THEN s.quiz
                  ELSE [turn_id |-> s.turn_id, step_index |-> StepIndex(s, Last(quizzed))]
      /\ f.node \in {"planner_model", "fallback_lesson"}
  BY DEF AfterTools, LessonOf, PlannerState
<1>4. f.quiz # None => f.quiz.turn_id = f.turn_id
  BY <1>3 DEF LessonInv
<1> HIDE DEF f, quizzed
<1>5. CASE new = {}
  <2>1. Taught(f.tool_calls, f.results) = Taught(s.tool_calls, s.results) /\ f.lesson = s.lesson
    BY <1>3, <1>5, TaughtOfReply
  <2>2. LessonInv(f)
    BY <1>3, <1>4, <2>1 DEF LessonInv, Answered
  <2> QED
    BY <2>2 DEF f
<1>6. CASE new # {}
  <2> DEFINE x == Last(new)
  <2>1. x \in new /\ x \in 1 .. Len(s.last_ai)
    BY <1>2, <1>6, LastIsGreatest
  <2>2. StepIndex(s, x) = Len(s.results) + x - 1 /\ StepIndex(s, x) \in Nat
    <3> HIDE DEF x
    <3> QED
      BY <2>1, StepIndexValue
  <2>3. /\ Taught(f.tool_calls, f.results) # {}
        /\ Last(Taught(f.tool_calls, f.results)) = Len(s.results) + x
    BY <1>3, <1>6, TaughtOfReply
  <2>4. /\ f.lesson = [turn_id |-> s.turn_id, step_index |-> StepIndex(s, x),
                       grounded |-> results[x] = "ok"]
        /\ results[x] \in {"ok", "empty"} /\ x \in DOMAIN results
    BY <1>3, <1>6, <2>1 DEF LessonAt, Taught
  <2> HIDE DEF x, new
  <2>5. f.lesson \in Lesson
    BY <1>1, <2>2, <2>4 DEF Lesson
  <2>6. f.lesson # None
    BY <2>5, NoneAssumption
  <2>7. /\ f.lesson.turn_id = s.turn_id /\ f.lesson.step_index = StepIndex(s, x)
        /\ f.lesson.grounded = (results[x] = "ok")
    BY <2>4
  <2>8. LessonInv(f)
    <3>1. ~Answered(f) /\ f.lesson.turn_id = f.turn_id
      BY <1>3, <2>7 DEF Answered
    <3>2. f.lesson.step_index = Last(Taught(f.tool_calls, f.results)) - 1
      <4>1. s.results \in Seq(Results) /\ x \in Nat
        BY <2>1 DEF PlannerState
      <4>2. Len(s.results) \in Nat
        BY <4>1
      <4>3. f.lesson.step_index = Len(s.results) + x - 1
        BY <2>2, <2>7
      <4> QED
        BY <2>3, <4>1, <4>2, <4>3
    <3> QED
      BY <1>4, <2>3, <2>6, <3>1, <3>2 DEF LessonInv
  <2> QED
    BY <2>8 DEF f
<1> QED
  BY <1>5, <1>6

-----------------------------------------------------------------------------
(* Steps *)

\* The facts about the lessons of thread t that the proofs below start from.
LEMMA LessonFacts ==
    ASSUME LInv, NEW t \in Threads
    PROVE  /\ LessonInv(work[t]) /\ LessonInv(saved[t])
           /\ running[t] /\ work[t].node \in {"start_turn", "planner_model"}
                 => inflight[t] = <<>>
BY DEF LInv, LessonThread

\* A step of one thread keeps the invariant if what it leaves of the thread does.
LEMMA ThreadStep ==
    ASSUME LInv, NEW t \in Threads,
           \A u \in Threads \ {t} :
              /\ work'[u] = work[u] /\ saved'[u] = saved[u] /\ running'[u] = running[u]
              /\ inflight'[u] = inflight[u],
           LessonInv(work'[t]), LessonInv(saved'[t]),
           running'[t] /\ work'[t].node \in {"start_turn", "planner_model"}
              => inflight'[t] = <<>>
    PROVE  LInv'
<1> SUFFICES ASSUME NEW u \in Threads PROVE LessonThread(u)'
  BY DEF LInv
<1>1. CASE u = t
  BY <1>1 DEF LessonThread
<1>2. CASE u # t
  <2>1. /\ work'[u] = work[u] /\ saved'[u] = saved[u] /\ running'[u] = running[u]
        /\ inflight'[u] = inflight[u]
    BY <1>2
  <2> QED
    BY <2>1, LessonFacts DEF LessonThread
<1> QED
  BY <1>1, <1>2

\* A node's step keeps the invariant if the state it commits and the progress
\* it makes do.
LEMMA NodeLesson ==
    ASSUME IInv, LInv, NEW t \in Threads, UNCHANGED <<saved, running>>,
           NEW s, Commit(t, s), NEW flight, Progress(t, flight), LessonInv(s),
           s.node \in {"start_turn", "planner_model"} => flight = <<>>
    PROVE  LInv'
<1>1. work'[t] = s /\ inflight'[t] = flight /\ saved'[t] = saved[t]
  BY DEF IInv, TypeOK, Commit, Progress
<1>2. \A u \in Threads \ {t} :
          /\ work'[u] = work[u] /\ saved'[u] = saved[u] /\ running'[u] = running[u]
          /\ inflight'[u] = inflight[u]
  BY DEF IInv, TypeOK, Commit, Progress
<1> QED
  BY <1>1, <1>2, LessonFacts, ThreadStep

\* An invocation starts with a state that has its lesson and no progress.
LEMMA InvokeLesson ==
    ASSUME IInv, LInv, NEW t \in Threads, NEW s, Invoke(t, s), LessonInv(s)
    PROVE  LInv'
<1>1. /\ work'[t] = s /\ saved'[t] = saved[t] /\ inflight'[t] = Launch(s)
      /\ \A u \in Threads \ {t} :
            /\ work'[u] = work[u] /\ saved'[u] = saved[u] /\ running'[u] = running[u]
            /\ inflight'[u] = inflight[u]
  BY DEF IInv, TypeOK, Invoke, Commit, Progress, durable
<1>2. s.node \in {"start_turn", "planner_model"} => Launch(s) = <<>>
  BY DEF Launch
<1> QED
  BY <1>1, <1>2, LessonFacts, ThreadStep

\* A learner's message keeps the invariant: start_turn forgets the lesson.
LEMMA SubmitLesson == ASSUME IInv, LInv, NEW t \in Threads, Submit(t) PROVE LInv'
<1> DEFINE s == [work[t] EXCEPT !.node = "start_turn"]
<1>1. s.node = "start_turn"
  BY ThreadFacts DEF PlannerState
<1>2. Invoke(t, s)
  BY DEF Submit
<1> HIDE DEF s
<1>3. LessonInv(s)
  BY <1>1 DEF LessonInv
<1> QED
  BY <1>2, <1>3, InvokeLesson

\* A resumed thread has the lesson of its checkpoint.
LEMMA ResumeLesson == ASSUME IInv, LInv, NEW t \in Threads, Resume(t) PROVE LInv'
BY LessonFacts, InvokeLesson DEF Resume

\* A checkpoint has the lesson of the state it is of.
LEMMA PersistLesson == ASSUME IInv, LInv, NEW t \in Threads, Persist(t) PROVE LInv'
<1>1. /\ work' = work /\ running' = running /\ inflight' = inflight
      /\ saved'[t] = work[t] /\ \A u \in Threads \ {t} : saved'[u] = saved[u]
  BY DEF IInv, TypeOK, Persist, durable
<1> QED
  BY <1>1, LessonFacts, ThreadStep

\* An invocation that ends leaves its lesson in the checkpoint.
LEMMA LeaveLesson == ASSUME IInv, LInv, NEW t \in Threads, Leave(t) PROVE LInv'
<1>1. /\ work' = work /\ saved'[t] = work[t] /\ running'[t] = FALSE
      /\ \A u \in Threads \ {t} :
            saved'[u] = saved[u] /\ running'[u] = running[u] /\ inflight'[u] = inflight[u]
  BY DEF IInv, TypeOK, Leave, Progress, durable
<1> QED
  BY <1>1, LessonFacts, ThreadStep

\* A crash leaves the lessons of the checkpoints.
LEMMA CrashLesson == ASSUME IInv, LInv, Crash PROVE LInv'
<1> SUFFICES ASSUME NEW t \in Threads PROVE LessonThread(t)'
  BY DEF LInv
<1>1. work'[t] = saved[t] /\ saved'[t] = saved[t] /\ running'[t] = FALSE
  BY DEF Crash, durable
<1> QED
  BY <1>1, LessonFacts DEF LessonThread

\* A turn starts without a lesson.
LEMMA StartTurnLesson == ASSUME IInv, LInv, NEW t \in Threads, StartTurn(t) PROVE LInv'
<1> DEFINE s == [Blank EXCEPT !.node = "planner_model", !.turn_id = invocations[t]]
<1>1. /\ s.node = "planner_model" /\ s.lesson = None /\ s.quiz = None
      /\ s.results = <<>> /\ s.tool_calls = <<>>
  BY DEF Blank
<1>2. Commit(t, s) /\ UNCHANGED <<saved, running>>
  BY DEF StartTurn, durable
<1> HIDE DEF s
<1>3. Taught(s.tool_calls, s.results) = {}
  BY <1>1 DEF Taught
<1>4. LessonInv(s)
  BY <1>1, <1>3 DEF LessonInv, Answered
<1>5. inflight[t] = <<>>
  BY LessonFacts DEF StartTurn, At
<1>6. Progress(t, <<>>)
  BY <1>5, SameProgress DEF StartTurn
<1> QED
  BY <1>2, <1>4, <1>6, NodeLesson

\* The state of a turn that goes on from planner_model has its lesson, and the
\* turn has no call in flight.
LEMMA ModelFacts ==
    ASSUME IInv, LInv, NEW t \in Threads, At(t, "planner_model")
    PROVE  /\ work[t] \in PlannerState /\ work[t].node = "planner_model"
           /\ LessonInv(work[t]) /\ inflight[t] = <<>>
           /\ Len(work[t].tool_calls) = Len(work[t].results)
BY ThreadFacts, LessonFacts DEF At, ThreadInv, StateInv

\* A final message keeps the lesson of the turn.
LEMMA FinalMessageLesson == ASSUME IInv, LInv, NEW t \in Threads, FinalMessage(t) PROVE LInv'
<1> DEFINE w == work[t]
           s == [w EXCEPT !.model_calls = @ + 1, !.last_ai = <<>>,
                          !.halt_reason = "final_message", !.node = "memory_writer"]
<1>1. /\ w \in PlannerState /\ w.node = "planner_model" /\ LessonInv(w)
      /\ inflight[t] = <<>>
  BY ModelFacts DEF FinalMessage
<1>2. /\ s.turn_id = w.turn_id /\ s.tool_calls = w.tool_calls /\ s.results = w.results
      /\ s.lesson = w.lesson /\ s.quiz = w.quiz /\ s.halt_reason = "final_message"
      /\ s.node = "memory_writer"
  BY <1>1 DEF PlannerState
<1>3. /\ Commit(t, s) /\ UNCHANGED <<saved, running>>
      /\ Progress(t, inflight[t])
  BY SameProgress DEF FinalMessage
<1> HIDE DEF s, w
<1>4. LessonInv(s)
  BY <1>1, <1>2, SameLesson DEF Answered
<1> QED
  BY <1>2, <1>3, <1>4, NodeLesson

\* Reaching the step limit keeps the lesson of the turn.
LEMMA StepLimitLesson ==
    ASSUME IInv, LInv, NEW t \in Threads, NEW calls, StepLimit(t, calls)
    PROVE  LInv'
<1> DEFINE w == work[t]
           s == [w EXCEPT !.model_calls = @ + 1, !.last_ai = calls,
                          !.halt_reason = "max_steps", !.node = "fallback_lesson"]
<1>1. /\ w \in PlannerState /\ w.node = "planner_model" /\ LessonInv(w)
      /\ inflight[t] = <<>>
  BY ModelFacts DEF StepLimit
<1>2. /\ s.turn_id = w.turn_id /\ s.tool_calls = w.tool_calls /\ s.results = w.results
      /\ s.lesson = w.lesson /\ s.quiz = w.quiz /\ s.node = "fallback_lesson"
  BY <1>1 DEF PlannerState
<1>3. /\ Commit(t, s) /\ UNCHANGED <<saved, running>>
      /\ Progress(t, inflight[t])
  BY SameProgress DEF StepLimit, durable
<1> HIDE DEF s, w
<1>4. LessonInv(s)
  BY <1>1, <1>2, SameLesson DEF Answered
<1> QED
  BY <1>2, <1>3, <1>4, NodeLesson

\* A reply's calls, not answered yet, have taught nothing.
LEMMA AskToolsLesson ==
    ASSUME IInv, LInv, NEW t \in Threads, NEW calls \in Replies, AskTools(t, calls)
    PROVE  LInv'
<1> DEFINE w == work[t]
           s == [w EXCEPT !.model_calls = @ + 1, !.last_ai = calls,
                          !.tool_calls = @ \o calls, !.node = "planner_tools"]
<1>1. /\ w \in PlannerState /\ w.node = "planner_model" /\ LessonInv(w)
      /\ Len(w.tool_calls) = Len(w.results)
  BY ModelFacts DEF AskTools
<1>2. /\ s.turn_id = w.turn_id /\ s.tool_calls = w.tool_calls \o calls
      /\ s.results = w.results /\ s.lesson = w.lesson /\ s.quiz = w.quiz
      /\ s.node = "planner_tools"
  BY <1>1 DEF PlannerState
<1>3. Commit(t, s) /\ Progress(t, Launch(s)) /\ UNCHANGED <<saved, running>>
  BY DEF AskTools, durable
<1> HIDE DEF s
<1>4. Taught(s.tool_calls, s.results) = Taught(w.tool_calls, w.results)
  <2>1. w.tool_calls \in Seq(Call) /\ calls \in Seq(Call) /\ w.results \in Seq(Results)
    BY <1>1, ReplyAssumption DEF PlannerState
  <2> HIDE DEF w
  <2>2. \A i \in 1 .. Len(w.tool_calls) : (w.tool_calls \o calls)[i] = w.tool_calls[i]
    BY <2>1, ConcatProperties
  <2>3. DOMAIN w.results = 1 .. Len(w.tool_calls)
    BY <1>1, <2>1
  <2> QED
    BY <1>2, <2>2, <2>3 DEF Taught
<1> HIDE DEF w
<1>5. LessonInv(s)
  BY <1>1, <1>2, <1>4 DEF LessonInv, Answered
<1> QED
  BY <1>2, <1>3, <1>5, NodeLesson

\* A call in flight that goes on leaves the lesson alone.
LEMMA AdvanceLesson ==
    ASSUME IInv, LInv, NEW t \in Threads, NEW p, NEW was, Stage(t, p, was),
           NEW stage, Advance(t, p, stage), UNCHANGED <<work, saved, running>>
    PROVE  LInv'
<1> DEFINE s == work[t]
           flight == [inflight[t] EXCEPT ![p] = stage]
<1>1. s.node = "planner_tools"
  BY CallFacts
<1>2. Commit(t, s) /\ Progress(t, flight)
  BY SameState DEF Advance
<1>3. LessonInv(s)
  BY LessonFacts
<1> HIDE DEF s, flight
<1> QED
  BY <1>1, <1>2, <1>3, NodeLesson

\* Tracing, running and raising are such steps.
LEMMA CallLesson ==
    ASSUME IInv, LInv, NEW t \in Threads, NEW p,
           TraceCall(t, p) \/ RunCall(t, p) \/ CallRaises(t, p)
    PROVE  LInv'
<1>1. UNCHANGED <<work, saved, running>>
  BY DEF TraceCall, RunCall, CallRaises, durable
<1>2. PICK was \in {"waiting", "traced"} : Stage(t, p, was)
  BY DEF TraceCall, RunCall, CallRaises
<1>3. \E stage : Advance(t, p, stage)
  BY DEF TraceCall, RunCall, CallRaises
<1> QED
  BY <1>1, <1>2, <1>3, AdvanceLesson

\* The tool node returns with the lesson of its last call that taught.
LEMMA ToolsReturnLesson == ASSUME IInv, LInv, NEW t \in Threads, ToolsReturn(t) PROVE LInv'
<1> DEFINE w == work[t]
           s == AfterTools(w, inflight[t])
<1>1. /\ running[t] /\ w.node = "planner_tools" /\ w \in PlannerState
      /\ StateInv(trace[t], w) /\ FlightInv(trace[t], w, inflight[t])
      /\ inflight[t] \in Seq(Results \cup {"waiting", "traced"})
      /\ \A p \in DOMAIN inflight[t] : inflight[t][p] \in Results \ {"raised"}
      /\ trace[t] \in Seq(TraceStep)
  BY ThreadFacts DEF ToolsReturn, At, ThreadInv
<1>2. inflight[t] \in Seq(Results) /\ \A p \in DOMAIN inflight[t] : inflight[t][p] # "raised"
  BY <1>1
<1>3. /\ Len(w.tool_calls) = Len(w.results) + Len(w.last_ai)
      /\ \A p \in DOMAIN w.last_ai : w.tool_calls[Len(w.results) + p] = w.last_ai[p]
      /\ DOMAIN inflight[t] = DOMAIN w.last_ai
  BY <1>1 DEF StateInv, FlightInv
<1>4. LessonInv(w)
  BY <1>1, LessonFacts
<1>5. /\ Commit(t, s) /\ Progress(t, <<>>) /\ UNCHANGED <<saved, running>>
  BY DEF ToolsReturn, durable
<1> HIDE DEF s, w
<1>6. LessonInv(s)
  BY <1>1, <1>2, <1>3, <1>4, AfterToolsLesson DEF s
<1> QED
  BY <1>5, <1>6, NodeLesson

\* What the fallback teaches is not in the state before it replies.
LEMMA FallbackTeachLesson ==
    ASSUME IInv, LInv, NEW t \in Threads, FallbackTeach(t)
    PROVE  LInv'
<1> DEFINE s == work[t]
<1>1. PICK result \in {"ok", "empty"} : Progress(t, <<result>>)
  BY DEF FallbackTeach
<1>2. /\ s.node = "fallback_lesson" /\ Commit(t, s) /\ UNCHANGED <<saved, running>>
  BY SameState DEF FallbackTeach, At
<1>3. LessonInv(s)
  BY LessonFacts
<1> HIDE DEF s
<1> QED
  BY <1>1, <1>2, <1>3, NodeLesson

\* The fallback's reply puts its lesson, under its own step, in place of any other.
LEMMA FallbackReplyLesson ==
    ASSUME IInv, LInv, NEW t \in Threads, FallbackReply(t)
    PROVE  LInv'
<1> DEFINE w == work[t]
           new == [turn_id |-> w.turn_id, step_index |-> Len(w.tool_calls),
                   grounded |-> inflight[t][1] = "ok"]
           s == [w EXCEPT !.lesson = new, !.node = "memory_writer"]
<1>1. /\ running[t] /\ w.node = "fallback_lesson" /\ inflight[t] # <<>>
      /\ w \in PlannerState /\ StateInv(trace[t], w)
  BY ThreadFacts DEF FallbackReply, At, ThreadInv
<1>2. LessonInv(w)
  BY LessonFacts
<1>3. /\ s.node = "memory_writer" /\ s.turn_id = w.turn_id /\ s.tool_calls = w.tool_calls
      /\ s.quiz = w.quiz /\ s.halt_reason = w.halt_reason /\ s.lesson = new
  BY <1>1 DEF PlannerState
<1>4. /\ Commit(t, s) /\ Progress(t, <<>>) /\ UNCHANGED <<saved, running>>
  BY DEF FallbackReply
<1>5. /\ new.turn_id = w.turn_id /\ new.step_index = Len(w.tool_calls)
      /\ new.grounded = (inflight[t][1] = "ok")
  OBVIOUS
<1>6. new # None
  <2>1. w.turn_id \in Nat /\ w.tool_calls \in Seq(Call)
    BY <1>1 DEF PlannerState
  <2>2. Len(w.tool_calls) \in Nat
    BY <2>1
  <2>3. new \in Lesson
    BY <2>1, <2>2 DEF Lesson
  <2> QED
    BY <2>3, NoneAssumption
<1> HIDE DEF new, s, w
<1>7. w.halt_reason # "final_message"
  BY <1>1 DEF StateInv
<1>8. LessonInv(s)
  BY <1>1, <1>2, <1>3, <1>5, <1>6, <1>7 DEF LessonInv, Answered
<1> QED
  BY <1>3, <1>4, <1>8, NodeLesson

\* memory_writer keeps the lesson it recaps.
LEMMA MemoryWriterLesson == ASSUME IInv, LInv, NEW t \in Threads, MemoryWriter(t) PROVE LInv'
<1> DEFINE w == work[t]
           s == [w EXCEPT !.node = "done"]
<1>1. w \in PlannerState /\ w.node = "memory_writer" /\ LessonInv(w)
  BY ThreadFacts, LessonFacts DEF MemoryWriter, At
<1>2. /\ s.turn_id = w.turn_id /\ s.tool_calls = w.tool_calls /\ s.results = w.results
      /\ s.lesson = w.lesson /\ s.quiz = w.quiz /\ s.halt_reason = w.halt_reason
      /\ s.node = "done"
  BY <1>1 DEF PlannerState
<1>3. /\ Commit(t, s) /\ UNCHANGED <<saved, running>>
      /\ Progress(t, inflight[t])
  BY SameProgress DEF MemoryWriter
<1> HIDE DEF s, w
<1>4. LessonInv(s)
  BY <1>1, <1>2, SameLesson DEF Answered
<1> QED
  BY <1>2, <1>3, <1>4, NodeLesson

-----------------------------------------------------------------------------
(* Theorems *)

\* No thread starts with a lesson.
LEMMA InitLesson == Init => LInv
<1> SUFFICES ASSUME Init, NEW t \in Threads PROVE LessonThread(t)
  BY DEF LInv
<1>1. work[t] = Blank /\ saved[t] = Blank /\ ~running[t]
  BY DEF Init
<1>2. /\ Blank.node = "idle" /\ Blank.lesson = None /\ Blank.quiz = None
      /\ Blank.results = <<>>
  BY DEF Blank
<1> HIDE DEF Blank
<1>3. Taught(Blank.tool_calls, Blank.results) = {}
  BY <1>2 DEF Taught
<1>4. LessonInv(Blank)
  BY <1>2, <1>3 DEF LessonInv, Answered
<1> QED
  BY <1>1, <1>4 DEF LessonThread

\* Every step keeps what holds of the lessons.
LEMMA NextLesson == IInv /\ LInv /\ [Next]_vars => LInv'
<1> SUFFICES ASSUME IInv, LInv, [Next]_vars PROVE LInv'
  OBVIOUS
<1>1. ASSUME NEW t \in Threads, Submit(t) PROVE LInv'
  BY <1>1, SubmitLesson
<1>2. ASSUME NEW t \in Threads, Persist(t) PROVE LInv'
  BY <1>2, PersistLesson
<1>3. ASSUME NEW t \in Threads, TurnStep(t) PROVE LInv'
  <2>1. CASE StartTurn(t)
    BY <2>1, StartTurnLesson
  <2>2. CASE PlannerModel(t)
    BY <2>2, FinalMessageLesson, StepLimitLesson, AskToolsLesson DEF PlannerModel
  <2>3. CASE PlannerTools(t)
    BY <2>3, CallLesson, ToolsReturnLesson DEF PlannerTools
  <2>4. CASE FallbackTeach(t)
    BY <2>4, FallbackTeachLesson
  <2>5. CASE FallbackReply(t)
    BY <2>5, FallbackReplyLesson
  <2>6. CASE MemoryWriter(t)
    BY <2>6, MemoryWriterLesson
  <2>7. CASE Return(t)
    BY <2>7, LeaveLesson DEF Return
  <2> QED
    BY <1>3, <2>1, <2>2, <2>3, <2>4, <2>5, <2>6, <2>7 DEF TurnStep
<1>4. ASSUME NEW t \in Threads, Failure(t) PROVE LInv'
  <2>1. CASE Resume(t)
    BY <2>1, ResumeLesson
  <2>2. CASE Fail(t)
    BY <2>2, LeaveLesson DEF Fail
  <2>3. CASE \E p \in DOMAIN inflight[t] : CallRaises(t, p)
    BY <2>3, CallLesson
  <2> QED
    BY <1>4, <2>1, <2>2, <2>3 DEF Failure
<1>5. CASE Crash
  BY <1>5, CrashLesson
<1>6. CASE UNCHANGED vars
  BY <1>6 DEF vars, durable, LInv, LessonThread
<1> QED
  BY <1>1, <1>2, <1>3, <1>4, <1>5, <1>6 DEF Next

\* The lessons keep their invariant, whatever fails and crashes.
LEMMA LessonsInductive == Spec => []LInv
<1> QED
  BY InitLesson, NextLesson, Inductive, PTL DEF Spec

\* The lesson of an answered turn is of that turn: the fallback's when the turn
\* ended early, else that of the last call that taught, whichever of its reply's
\* calls ended last and however often the turn was resumed.
THEOREM LastTaught == Spec => []LessonIsTheLastTaught
<1>1. LInv => LessonIsTheLastTaught
  <2> SUFFICES ASSUME LInv, NEW t \in Threads, Answered(work[t])
               PROVE  LET s == work[t]
                          taught == Taught(s.tool_calls, s.results)
                      IN  /\ s.quiz # None => s.quiz.turn_id = s.turn_id
                          /\ s.lesson # None => s.lesson.turn_id = s.turn_id
                          /\ IF s.halt_reason = "final_message" /\ taught = {}
                               THEN s.lesson = None
                               ELSE /\ s.lesson # None
                                    /\ s.lesson.step_index =
                                          IF s.halt_reason = "final_message"
                                          THEN Last(taught) - 1 ELSE Len(s.tool_calls)
    BY DEF LessonIsTheLastTaught
  <2>1. LessonInv(work[t]) /\ work[t].node # "start_turn"
    BY LessonFacts DEF Answered
  <2> QED
    BY <2>1 DEF LessonInv
<1> QED
  BY <1>1, LessonsInductive, PTL

-----------------------------------------------------------------------------
(* Turns whose nodes all return: how their rows are numbered *)

\* Between its nodes, a turn has the rows of its calls, and its terminal row once
\* it is answered.
LEMMA NumberedNodes ==
    ASSUME NEW s, NEW flight, s.node # "planner_tools"
    PROVE  Numbered(s, flight) = IF Answered(s) THEN 0 .. Len(s.tool_calls)
                                 ELSE 0 .. Len(s.tool_calls) - 1
BY DEF Numbered

\* While its tools run, the rows of answered calls and of those no longer waiting.
LEMMA NumberedTools ==
    ASSUME NEW s \in PlannerState, NEW flight, s.node = "planner_tools",
           Len(s.tool_calls) = Len(s.results) + Len(s.last_ai),
           DOMAIN flight = DOMAIN s.last_ai
    PROVE  Numbered(s, flight) =
               (0 .. Len(s.results) - 1)
               \cup {Len(s.results) + p - 1 : p \in {q \in DOMAIN flight : flight[q] # "waiting"}}
<1> DEFINE n == Len(s.results)
           m == Len(s.last_ai)
           started == {q \in DOMAIN flight : flight[q] # "waiting"}
<1>1. n \in Nat /\ m \in Nat /\ DOMAIN flight = 1 .. m
  <2>1. s.results \in Seq(Results) /\ s.last_ai \in Seq(Call)
    BY DEF PlannerState
  <2> QED
    BY <2>1
<1>2. Numbered(s, flight) = {i \in 0 .. n + m - 1 : i < n \/ flight[i - n + 1] # "waiting"}
  BY DEF Numbered, Answered
<1> HIDE DEF n, m
<1>3. ASSUME NEW i \in 0 .. n + m - 1, i < n \/ flight[i - n + 1] # "waiting"
      PROVE  i \in (0 .. n - 1) \cup {n + p - 1 : p \in started}
  <2>1. CASE i < n
    BY <1>1, <2>1
  <2>2. CASE ~(i < n)
    <3>1. i - n + 1 \in 1 .. m /\ i = n + (i - n + 1) - 1
      BY <1>1, <2>2
    <3>2. i - n + 1 \in started
      BY <1>1, <1>3, <2>2, <3>1
    <3> QED
      BY <3>1, <3>2
  <2> QED
    BY <2>1, <2>2
<1>4. ASSUME NEW i \in 0 .. n - 1 PROVE i \in 0 .. n + m - 1 /\ i < n
  BY <1>1
<1>5. ASSUME NEW p \in started
      PROVE  n + p - 1 \in 0 .. n + m - 1 /\ flight[(n + p - 1) - n + 1] # "waiting"
  <2>1. p \in 1 .. m
    BY <1>1
  <2>2. n + p - 1 \in 0 .. n + m - 1 /\ (n + p - 1) - n + 1 = p
    BY <1>1, <2>1
  <2> QED
    BY <2>2
<1> HIDE DEF started
<1>6. Numbered(s, flight) = (0 .. n - 1) \cup {n + p - 1 : p \in started}
  BY <1>2, <1>3, <1>4, <1>5
<1> QED
  BY <1>6 DEF n, started

\* A step that writes no row and starts no call leaves the numbers.
LEMMA SameNumber ==
    ASSUME NEW rows, NEW s, NEW flight, NEW f, NEW next,
           NumberInv(rows, s, flight), s.node \notin {"idle", "start_turn"},
           f.turn_id = s.turn_id, Numbered(f, next) = Numbered(s, flight),
           Answered(f) =>
               Answered(s) /\ TerminalRow(f, f.halt_reason) = TerminalRow(s, s.halt_reason)
    PROVE  NumberInv(rows, f, next)
BY DEF NumberInv

\* A row of the turn with a new number joins the others, as their last.
LEMMA AppendNumber ==
    ASSUME NEW rows \in Seq(TraceStep), NEW row \in TraceStep,
           NEW s, NEW flight, NEW f, NEW next,
           NumberInv(rows, s, flight), s.node \notin {"idle", "start_turn"},
           f.turn_id = s.turn_id, row.turn_id = s.turn_id,
           row.step_index \notin Numbered(s, flight),
           Numbered(f, next) = Numbered(s, flight) \cup {row.step_index},
           Answered(f) => row = TerminalRow(f, f.halt_reason)
    PROVE  NumberInv(Append(rows, row), f, next)
<1> DEFINE more == Append(rows, row)
           n == Len(rows)
           mine == RowsOf(rows, s.turn_id)
           all == RowsOf(more, s.turn_id)
<1>1. /\ n \in Nat /\ DOMAIN rows = 1 .. n /\ DOMAIN more = 1 .. n + 1
      /\ \A k \in 1 .. n : more[k] = rows[k]
      /\ more[n + 1] = row
  OBVIOUS
<1> HIDE DEF more, n
<1>2. /\ mine \subseteq 1 .. n /\ n + 1 \notin mine /\ all = mine \cup {n + 1}
      /\ \A k \in mine : more[k] = rows[k]
  BY <1>1 DEF RowsOf
<1>3. /\ \A k \in DOMAIN rows : rows[k].turn_id <= s.turn_id
      /\ \A j, k \in mine : rows[j].step_index = rows[k].step_index => j = k
      /\ {rows[k].step_index : k \in mine} = Numbered(s, flight)
  BY DEF NumberInv
<1> HIDE DEF mine, all
<1>4. row.turn_id <= s.turn_id
  BY DEF TraceStep
<1>5. \A k \in DOMAIN more : more[k].turn_id <= s.turn_id
  BY <1>1, <1>3, <1>4
<1>6. \A k \in mine : more[k].step_index # row.step_index
  BY <1>2, <1>3
<1>7. \A j, k \in all : more[j].step_index = more[k].step_index => j = k
  BY <1>1, <1>2, <1>3, <1>6
<1>8. {more[k].step_index : k \in all} = Numbered(f, next)
  BY <1>1, <1>2, <1>3
<1>9. Last(all) = n + 1
  <2>1. n + 1 \in Nat /\ all \subseteq 1 .. n + 1 /\ n + 1 \in all /\ \A q \in all : q <= n + 1
    BY <1>1, <1>2
  <2> QED
    BY <2>1, LastIs
<1>10. Answered(f) => more[Last(all)] = TerminalRow(f, f.halt_reason)
  BY <1>1, <1>9
<1>11. NumberInv(more, f, next)
  BY <1>5, <1>7, <1>8, <1>10 DEF NumberInv, all
<1> QED
  BY <1>11 DEF more

\* The facts about the rows of thread t that the proofs below start from.
LEMMA NumberFacts ==
    ASSUME IInv, RInv, NEW t \in Threads
    PROVE  /\ NumberInv(trace[t], work[t], inflight[t])
           /\ work[t].tool_calls \in Seq(Call) /\ work[t].results \in Seq(Results)
           /\ Len(work[t].tool_calls) \in Nat /\ Len(work[t].results) \in Nat
           /\ \A reason \in HaltReason \cup {"none"} :
                 /\ TerminalRow(work[t], reason) \in TraceStep
                 /\ TerminalRow(work[t], reason).turn_id = work[t].turn_id
                 /\ TerminalRow(work[t], reason).step_index = Len(work[t].tool_calls)
<1>1. work[t].tool_calls \in Seq(Call) /\ work[t].results \in Seq(Results)
  BY ThreadFacts DEF PlannerState
<1> QED
  BY <1>1, ThreadFacts, RowTypes DEF RInv, TerminalRow

\* A turn starts after the rows of the turns before.
LEMMA StartTurnNumber ==
    ASSUME IInv, RInv, NEW t \in Threads, StartTurn(t)
    PROVE  NumberInv(trace'[t], work'[t], inflight'[t])
<1> DEFINE s == [Blank EXCEPT !.node = "planner_model", !.turn_id = invocations[t]]
<1>1. /\ s.node = "planner_model" /\ s.turn_id = invocations[t] /\ s.tool_calls = <<>>
      /\ ~Answered(s)
  BY DEF Blank, Answered
<1>2. work'[t] = s /\ trace' = trace
  BY DEF StartTurn, Commit, durable, IInv, TypeOK
<1> HIDE DEF s
<1>3. work[t].turn_id < invocations[t]
  BY ThreadFacts DEF StartTurn, At, ThreadInv, TurnInv
<1>4. \A k \in DOMAIN trace[t] : trace[t][k].turn_id \in Nat /\ trace[t][k].turn_id <= work[t].turn_id
  <2>1. \A row \in TraceStep : row.turn_id \in Nat
    BY DEF TraceStep
  <2>2. \A k \in DOMAIN trace[t] : trace[t][k] \in TraceStep
    BY ThreadFacts
  <2>3. \A k \in DOMAIN trace[t] : trace[t][k].turn_id <= work[t].turn_id
    BY NumberFacts DEF NumberInv
  <2> QED
    BY <2>1, <2>2, <2>3
<1>5. \A k \in DOMAIN trace[t] : trace[t][k].turn_id < invocations[t]
  BY <1>3, <1>4, ThreadFacts
<1>6. RowsOf(trace[t], s.turn_id) = {}
  BY <1>1, <1>4, <1>5, ThreadFacts DEF RowsOf
<1>7. Numbered(s, inflight'[t]) = {}
  <2>1. Len(s.tool_calls) = 0
    BY <1>1
  <2> QED
    BY <1>1, <2>1, NumberedNodes
<1>8. \A k \in DOMAIN trace[t] : trace[t][k].turn_id <= s.turn_id
  BY <1>1, <1>4, <1>5, ThreadFacts
<1> QED
  BY <1>1, <1>2, <1>6, <1>7, <1>8 DEF NumberInv

\* A final message ends the turn with the row after those of its calls.
LEMMA FinalMessageNumber ==
    ASSUME IInv, RInv, NEW t \in Threads, FinalMessage(t)
    PROVE  NumberInv(trace'[t], work'[t], inflight'[t])
<1> DEFINE w == work[t]
           s == [w EXCEPT !.model_calls = @ + 1, !.last_ai = <<>>,
                          !.halt_reason = "final_message", !.node = "memory_writer"]
           row == TerminalRow(w, "final_message")
<1>1. /\ s.node = "memory_writer" /\ s.turn_id = w.turn_id /\ s.tool_calls = w.tool_calls
      /\ s.halt_reason = "final_message" /\ w.node = "planner_model"
  BY ThreadFacts DEF PlannerState, FinalMessage, At
<1>2. work'[t] = s /\ trace'[t] = Append(trace[t], row) /\ inflight' = inflight
  BY DEF FinalMessage, Commit, RecordStep, IInv, TypeOK
<1>3. row = TerminalRow(s, s.halt_reason)
  BY <1>1 DEF TerminalRow
<1>4. row \in TraceStep /\ row.turn_id = w.turn_id /\ row.step_index = Len(w.tool_calls)
  BY NumberFacts DEF HaltReason
<1> HIDE DEF s, row
<1>5. Len(w.tool_calls) \in Nat /\ trace[t] \in Seq(TraceStep)
      /\ NumberInv(trace[t], w, inflight[t])
  BY NumberFacts, ThreadFacts
<1> HIDE DEF w
<1>6. Numbered(w, inflight[t]) = 0 .. Len(w.tool_calls) - 1
  BY <1>1, NumberedNodes DEF Answered
<1>7. Numbered(s, inflight[t]) = 0 .. Len(w.tool_calls)
  BY <1>1, NumberedNodes DEF Answered
<1> QED
  BY <1>1, <1>2, <1>3, <1>4, <1>5, <1>6, <1>7, AppendNumber

\* So does the fallback.
LEMMA FallbackReplyNumber ==
    ASSUME IInv, RInv, NEW t \in Threads, FallbackReply(t)
    PROVE  NumberInv(trace'[t], work'[t], inflight'[t])
<1> DEFINE w == work[t]
           s == [w EXCEPT !.lesson = [turn_id |-> w.turn_id, step_index |-> Len(w.tool_calls),
                                      grounded |-> inflight[t][1] = "ok"],
                          !.node = "memory_writer"]
           row == TerminalRow(w, w.halt_reason)
<1>1. /\ s.node = "memory_writer" /\ s.turn_id = w.turn_id /\ s.tool_calls = w.tool_calls
      /\ s.halt_reason = w.halt_reason /\ w.node = "fallback_lesson"
  BY ThreadFacts DEF PlannerState, FallbackReply, At
<1>2. work'[t] = s /\ trace'[t] = Append(trace[t], row) /\ inflight'[t] = <<>>
  BY DEF FallbackReply, Commit, Progress, RecordStep, IInv, TypeOK
<1>3. row = TerminalRow(s, s.halt_reason)
  BY <1>1 DEF TerminalRow
<1>4. row \in TraceStep /\ row.turn_id = w.turn_id /\ row.step_index = Len(w.tool_calls)
  <2>1. w.halt_reason \in HaltReason \cup {"none"}
    BY ThreadFacts DEF PlannerState
  <2> QED
    BY <2>1, NumberFacts
<1> HIDE DEF s, row
<1>5. Len(w.tool_calls) \in Nat /\ trace[t] \in Seq(TraceStep)
      /\ NumberInv(trace[t], w, inflight[t])
  BY NumberFacts, ThreadFacts
<1> HIDE DEF w
<1>6. Numbered(w, inflight[t]) = 0 .. Len(w.tool_calls) - 1
  BY <1>1, NumberedNodes DEF Answered
<1>7. Numbered(s, <<>>) = 0 .. Len(w.tool_calls)
  BY <1>1, NumberedNodes DEF Answered
<1> QED
  BY <1>1, <1>2, <1>3, <1>4, <1>5, <1>6, <1>7, AppendNumber

\* At the step limit the turn has the rows it had: its last reply's calls have none.
LEMMA StepLimitNumber ==
    ASSUME IInv, RInv, NEW t \in Threads, NEW calls, StepLimit(t, calls)
    PROVE  NumberInv(trace'[t], work'[t], inflight'[t])
<1> DEFINE w == work[t]
           s == [w EXCEPT !.model_calls = @ + 1, !.last_ai = calls,
                          !.halt_reason = "max_steps", !.node = "fallback_lesson"]
<1>1. /\ s.node = "fallback_lesson" /\ s.turn_id = w.turn_id /\ s.tool_calls = w.tool_calls
      /\ w.node = "planner_model"
  BY ThreadFacts DEF PlannerState, StepLimit, At
<1>2. work'[t] = s /\ trace' = trace /\ inflight' = inflight
  BY DEF StepLimit, Commit, durable, IInv, TypeOK
<1> HIDE DEF s
<1>3. Numbered(s, inflight[t]) = Numbered(w, inflight[t])
  BY <1>1, NumberedNodes DEF Answered
<1> QED
  BY <1>1, <1>2, <1>3, NumberFacts, SameNumber DEF Answered

\* The calls of a new reply wait, and have no row.
LEMMA AskToolsNumber ==
    ASSUME IInv, RInv, NEW t \in Threads, NEW calls \in Replies, AskTools(t, calls)
    PROVE  NumberInv(trace'[t], work'[t], inflight'[t])
<1> DEFINE w == work[t]
           s == [w EXCEPT !.model_calls = @ + 1, !.last_ai = calls,
                          !.tool_calls = @ \o calls, !.node = "planner_tools"]
<1>1. /\ s.node = "planner_tools" /\ s.turn_id = w.turn_id /\ s.results = w.results
      /\ s.tool_calls = w.tool_calls \o calls /\ s.last_ai = calls
      /\ w.node = "planner_model"
  BY ThreadFacts DEF PlannerState, AskTools, At
<1>2. work'[t] = s /\ trace' = trace /\ inflight'[t] = Launch(s)
  BY DEF AskTools, Commit, Progress, durable, IInv, TypeOK
<1> HIDE DEF s
<1>3. calls \in Seq(Call) /\ w.tool_calls \in Seq(Call) /\ Len(w.tool_calls) \in Nat
      /\ Len(w.tool_calls) = Len(w.results)
  BY ReplyAssumption, NumberFacts, ThreadFacts DEF AskTools, At, ThreadInv, StateInv
<1>4. s \in PlannerState
  BY <1>2, AskToolsStep DEF IInv, TypeOK
<1>5. /\ Len(s.tool_calls) = Len(s.results) + Len(s.last_ai)
      /\ DOMAIN Launch(s) = DOMAIN s.last_ai
      /\ \A p \in DOMAIN Launch(s) : Launch(s)[p] = "waiting"
  <2>1. Len(w.tool_calls \o calls) = Len(w.tool_calls) + Len(calls)
    BY <1>3
  <2>2. Launch(s) = [p \in DOMAIN s.last_ai |-> "waiting"]
    BY <1>1 DEF Launch
  <2>3. Len(s.tool_calls) = Len(s.results) + Len(s.last_ai)
    BY <1>1, <1>3, <2>1
  <2> QED
    BY <2>2, <2>3
<1>6. Numbered(s, Launch(s)) = 0 .. Len(w.tool_calls) - 1
  <2>1. Numbered(s, Launch(s)) =
            (0 .. Len(s.results) - 1)
            \cup {Len(s.results) + p - 1 :
                    p \in {q \in DOMAIN Launch(s) : Launch(s)[q] # "waiting"}}
    BY <1>1, <1>4, <1>5, NumberedTools
  <2> QED
    BY <1>1, <1>3, <1>5, <2>1
<1>7. Numbered(w, inflight[t]) = 0 .. Len(w.tool_calls) - 1
  BY <1>1, NumberedNodes DEF Answered
<1> QED
  BY <1>1, <1>2, <1>6, <1>7, NumberFacts, SameNumber DEF Answered

\* The facts about the calls in flight of thread t.
LEMMA FlightFacts ==
    ASSUME IInv, NEW t \in Threads, At(t, "planner_tools")
    PROVE  /\ work[t] \in PlannerState /\ work[t].node = "planner_tools"
           /\ DOMAIN inflight[t] = DOMAIN work[t].last_ai
           /\ DOMAIN inflight[t] = 1 .. Len(work[t].last_ai) /\ Len(work[t].last_ai) \in Nat
           /\ Len(work[t].tool_calls) = Len(work[t].results) + Len(work[t].last_ai)
<1>1. work[t].last_ai \in Seq(Call)
  BY ThreadFacts DEF PlannerState
<1>2. /\ work[t] \in PlannerState /\ work[t].node = "planner_tools" /\ running[t]
      /\ StateInv(trace[t], work[t])
      /\ FlightInv(trace[t], work[t], inflight[t])
  BY ThreadFacts DEF At, ThreadInv
<1>3. DOMAIN inflight[t] = DOMAIN work[t].last_ai
  BY <1>2 DEF FlightInv
<1>4. Len(work[t].tool_calls) = Len(work[t].results) + Len(work[t].last_ai)
  BY <1>2 DEF StateInv
<1>5. DOMAIN work[t].last_ai = 1 .. Len(work[t].last_ai) /\ Len(work[t].last_ai) \in Nat
  BY <1>1
<1> QED
  BY <1>2, <1>3, <1>4, <1>5

\* A call that is traced gets the row of its own step, which it had not.
LEMMA TraceCallNumber ==
    ASSUME IInv, RInv, NEW t \in Threads, NEW p, TraceCall(t, p)
    PROVE  NumberInv(trace'[t], work'[t], inflight'[t])
<1> DEFINE s == work[t]
           n == Len(s.results)
           flight == inflight[t]
           next == [flight EXCEPT ![p] = "traced"]
           row == StepRow(s, StepIndex(s, p), s.last_ai[p])
<1>1. Stage(t, p, "waiting") /\ At(t, "planner_tools") /\ flight[p] = "waiting"
  BY DEF TraceCall, Stage
<1>2. work' = work /\ trace'[t] = Append(trace[t], row) /\ inflight'[t] = next
  BY DEF TraceCall, Advance, Progress, RecordStep, IInv, TypeOK
<1>3. /\ s \in PlannerState /\ s.node = "planner_tools" /\ trace[t] \in Seq(TraceStep)
      /\ DOMAIN flight = 1 .. Len(s.last_ai) /\ DOMAIN flight = DOMAIN s.last_ai
      /\ p \in 1 .. Len(s.last_ai) /\ Len(s.last_ai) \in Nat
      /\ Len(s.tool_calls) = n + Len(s.last_ai)
      /\ s.last_ai[p] \in Call /\ n \in Nat
  BY <1>1, CallFacts, FlightFacts, NumberFacts
<1>4. StepIndex(s, p) = n + p - 1 /\ StepIndex(s, p) \in Nat
  BY <1>3, StepIndexValue
<1>5. row \in TraceStep /\ row.turn_id = s.turn_id /\ row.step_index = n + p - 1
  BY <1>3, <1>4, RowTypes DEF StepRow
<1>6. NumberInv(trace[t], s, flight)
  BY NumberFacts
<1>7. /\ DOMAIN next = DOMAIN flight
      /\ {q \in DOMAIN next : next[q] # "waiting"}
           = {q \in DOMAIN flight : flight[q] # "waiting"} \cup {p}
  BY <1>3
<1> HIDE DEF s, flight, next, row, n
<1> DEFINE started == {q \in DOMAIN flight : flight[q] # "waiting"}
<1>8. Numbered(s, flight) = (0 .. n - 1) \cup {n + q - 1 : q \in started}
  BY <1>3, NumberedTools DEF n
<1>9. Numbered(s, next) = (0 .. n - 1) \cup {n + q - 1 : q \in started \cup {p}}
  BY <1>3, <1>7, NumberedTools DEF n
<1>10. p \notin started /\ started \subseteq 1 .. Len(s.last_ai)
  BY <1>1, <1>3
<1> HIDE DEF started
<1>11. Numbered(s, next) = Numbered(s, flight) \cup {row.step_index}
  BY <1>5, <1>8, <1>9
<1>12. row.step_index \notin Numbered(s, flight)
  <2>1. n + p - 1 \notin 0 .. n - 1
    BY <1>3
  <2>2. \A q \in started : n + q - 1 # n + p - 1
    BY <1>3, <1>10
  <2> QED
    BY <1>5, <1>8, <2>1, <2>2
<1>13. ~Answered(s)
  BY <1>3 DEF Answered
<1>14. NumberInv(Append(trace[t], row), s, next)
  BY <1>3, <1>5, <1>6, <1>11, <1>12, <1>13, AppendNumber
<1> QED
  BY <1>2, <1>14 DEF s

\* A call that runs has its row already.
LEMMA RunCallNumber ==
    ASSUME IInv, RInv, NEW t \in Threads, NEW p, RunCall(t, p)
    PROVE  NumberInv(trace'[t], work'[t], inflight'[t])
<1> DEFINE s == work[t]
           flight == inflight[t]
<1>1. PICK result \in ResultsOf(s.last_ai[p]) : Advance(t, p, result)
  BY DEF RunCall
<1> DEFINE next == [flight EXCEPT ![p] = result]
<1>2. At(t, "planner_tools") /\ flight[p] = "traced" /\ p \in DOMAIN flight
  BY DEF RunCall, Stage
<1>3. work' = work /\ trace' = trace /\ inflight'[t] = next
  BY <1>1 DEF RunCall, Advance, Progress, IInv, TypeOK
<1>4. result # "waiting"
  BY DEF ResultsOf
<1>5. /\ DOMAIN next = DOMAIN flight
      /\ {q \in DOMAIN next : next[q] # "waiting"} = {q \in DOMAIN flight : flight[q] # "waiting"}
  BY <1>2, <1>4
<1>6. /\ s \in PlannerState /\ s.node = "planner_tools" /\ DOMAIN flight = DOMAIN s.last_ai
      /\ Len(s.tool_calls) = Len(s.results) + Len(s.last_ai)
  BY <1>2, FlightFacts
<1> HIDE DEF s, flight, next
<1>7. Numbered(s, next) = Numbered(s, flight)
  BY <1>5, <1>6, NumberedTools
<1>8. NumberInv(trace[t], s, next)
  BY <1>6, <1>7, NumberFacts, SameNumber DEF Answered, s, flight
<1> QED
  BY <1>3, <1>8 DEF s

\* When the tools return, each call of the turn has its row.
LEMMA ToolsReturnNumber ==
    ASSUME IInv, RInv, NEW t \in Threads, ToolsReturn(t)
    PROVE  NumberInv(trace'[t], work'[t], inflight'[t])
<1> DEFINE w == work[t]
           flight == inflight[t]
           s == AfterTools(w, flight)
           n == Len(w.results)
<1>1. At(t, "planner_tools") /\ \A p \in DOMAIN flight : flight[p] \in Results \ {"raised"}
  BY DEF ToolsReturn
<1>2. work'[t] = s /\ trace' = trace /\ inflight'[t] = <<>>
  BY DEF ToolsReturn, Commit, Progress, durable, IInv, TypeOK
<1>3. /\ w \in PlannerState /\ w.node = "planner_tools"
      /\ DOMAIN flight = DOMAIN w.last_ai
      /\ DOMAIN flight = 1 .. Len(w.last_ai) /\ Len(w.last_ai) \in Nat
      /\ Len(w.tool_calls) = n + Len(w.last_ai) /\ n \in Nat
  BY <1>1, FlightFacts, NumberFacts
<1>4. /\ s.turn_id = w.turn_id /\ s.tool_calls = w.tool_calls
      /\ s.node \in {"fallback_lesson", "planner_model"}
  BY <1>3 DEF AfterTools, PlannerState
<1>5. {q \in DOMAIN flight : flight[q] # "waiting"} = 1 .. Len(w.last_ai)
  BY <1>1, <1>3 DEF Results
<1>6. NumberInv(trace[t], w, flight)
  BY NumberFacts
<1> HIDE DEF w, s, flight, n
<1>7. Numbered(w, flight) = (0 .. n - 1) \cup {n + q - 1 : q \in 1 .. Len(w.last_ai)}
  BY <1>3, <1>5, NumberedTools DEF n
<1>8. Numbered(w, flight) = 0 .. Len(w.tool_calls) - 1
  <2>1. ASSUME NEW i \in 0 .. n + Len(w.last_ai) - 1, i \notin 0 .. n - 1
        PROVE  i - n + 1 \in 1 .. Len(w.last_ai) /\ i = n + (i - n + 1) - 1
    BY <1>3, <2>1
  <2>2. \A i \in 0 .. n + Len(w.last_ai) - 1 :
            i \in (0 .. n - 1) \cup {n + q - 1 : q \in 1 .. Len(w.last_ai)}
    BY <2>1
  <2>3. \A q \in 1 .. Len(w.last_ai) : n + q - 1 \in 0 .. n + Len(w.last_ai) - 1
    BY <1>3
  <2>4. 0 .. n - 1 \subseteq 0 .. n + Len(w.last_ai) - 1
    BY <1>3
  <2>5. (0 .. n - 1) \cup {n + q - 1 : q \in 1 .. Len(w.last_ai)}
          = 0 .. n + Len(w.last_ai) - 1
    BY <2>2, <2>3, <2>4, Zenon
  <2> QED
    BY <1>3, <1>7, <2>5
<1>9. Numbered(s, <<>>) = 0 .. Len(w.tool_calls) - 1
  BY <1>4, NumberedNodes DEF Answered
<1>10. NumberInv(trace[t], s, <<>>)
  BY <1>3, <1>4, <1>6, <1>8, <1>9, SameNumber DEF Answered
<1> QED
  BY <1>2, <1>10

\* memory_writer leaves the rows of the turn it ends.
LEMMA MemoryWriterNumber ==
    ASSUME IInv, RInv, NEW t \in Threads, MemoryWriter(t)
    PROVE  NumberInv(trace'[t], work'[t], inflight'[t])
<1> DEFINE w == work[t]
           s == [w EXCEPT !.node = "done"]
<1>1. /\ s.node = "done" /\ s.turn_id = w.turn_id /\ s.tool_calls = w.tool_calls
      /\ s.halt_reason = w.halt_reason /\ w.node = "memory_writer"
  BY ThreadFacts DEF PlannerState, MemoryWriter, At
<1>2. work'[t] = s /\ trace' = trace /\ inflight' = inflight
  BY DEF MemoryWriter, Commit, IInv, TypeOK
<1> HIDE DEF s
<1>3. Numbered(s, inflight[t]) = Numbered(w, inflight[t])
  BY <1>1, NumberedNodes DEF Answered
<1>4. TerminalRow(s, s.halt_reason) = TerminalRow(w, w.halt_reason)
  BY <1>1 DEF TerminalRow
<1> QED
  BY <1>1, <1>2, <1>3, <1>4, NumberFacts, SameNumber DEF Answered

\* Steps that leave the state and the rows of the thread, at a node other than
\* planner_tools, and messages, which only name the next node.
LEMMA OtherNumber ==
    ASSUME IInv, RInv, NEW t \in Threads,
           Submit(t) \/ FallbackTeach(t) \/ Return(t) \/ Persist(t)
    PROVE  NumberInv(trace'[t], work'[t], inflight'[t])
<1>1. NumberInv(trace[t], work[t], inflight[t]) /\ trace' = trace
  BY NumberFacts DEF Submit, Invoke, FallbackTeach, Return, Leave, Persist, durable
<1>2. CASE Submit(t)
  <2>1. work'[t] = [work[t] EXCEPT !.node = "start_turn"]
    BY <1>2 DEF Submit, Invoke, Commit, IInv, TypeOK
  <2>2. work'[t].node = "start_turn" /\ work'[t].turn_id = work[t].turn_id
    BY <2>1, ThreadFacts DEF PlannerState
  <2> QED
    BY <1>1, <2>2 DEF NumberInv, Answered
<1>3. CASE FallbackTeach(t) \/ Return(t)
  <2>1. work' = work /\ work[t].node \in {"fallback_lesson", "done"}
    BY <1>3 DEF FallbackTeach, Return, Leave, At, durable
  <2>2. Numbered(work[t], inflight'[t]) = Numbered(work[t], inflight[t])
    BY <2>1, NumberedNodes
  <2> QED
    BY <1>1, <2>1, <2>2, SameNumber
<1>4. CASE Persist(t)
  BY <1>1, <1>4 DEF Persist
<1> QED
  BY <1>2, <1>3, <1>4

\* Every step of a turn whose nodes all return keeps the numbers of its rows.
LEMMA NumberStep ==
    ASSUME IInv, RInv, NEW t \in Threads, Submit(t) \/ TurnStep(t) \/ Persist(t)
    PROVE  \A u \in Threads : NumberInv(trace'[u], work'[u], inflight'[u])
<1>1. NumberInv(trace'[t], work'[t], inflight'[t])
  BY StartTurnNumber, FinalMessageNumber, StepLimitNumber, AskToolsNumber, TraceCallNumber,
     RunCallNumber, ToolsReturnNumber, FallbackReplyNumber, MemoryWriterNumber, OtherNumber
     DEF TurnStep, PlannerModel, PlannerTools
<1>2. ASSUME NEW u \in Threads \ {t}
      PROVE  trace'[u] = trace[u] /\ work'[u] = work[u] /\ inflight'[u] = inflight[u]
  BY DEF TurnStep, PlannerModel, PlannerTools, Submit, Invoke, Persist, Return, Leave,
         StartTurn, FinalMessage, StepLimit, AskTools, TraceCall, RunCall, ToolsReturn,
         FallbackTeach, FallbackReply, MemoryWriter, Commit, Progress, Advance, RecordStep,
         durable, IInv, TypeOK
<1> QED
  BY <1>1, <1>2, NumberFacts

-----------------------------------------------------------------------------
(* Turns whose nodes all return: the session summary *)

\* A learner's turns and memory stay when no thread of the learner moves.
LEMMA SameSummary ==
    ASSUME NEW u \in Users, SummaryInv(u), memory'[u] = memory[u],
           \A t \in Threads : UserOf[t] = u => work'[t] = work[t]
    PROVE  SummaryInv(u)'
BY DEF SummaryInv

\* memory_writer's summary recaps the turn it ends.
LEMMA MemoryWriterSummary ==
    ASSUME IInv, NEW t \in Threads, MemoryWriter(t)
    PROVE  SummaryInv(UserOf[t])'
<1> DEFINE w == work[t]
           s == [w EXCEPT !.node = "done"]
<1>1. /\ s.node = "done" /\ s.turn_id = w.turn_id /\ s.tool_calls = w.tool_calls
      /\ s.lesson = w.lesson /\ s.quiz = w.quiz /\ s.halt_reason = w.halt_reason
  BY ThreadFacts DEF PlannerState
<1>2. work'[t] = s
  BY DEF MemoryWriter, Commit, IInv, TypeOK
<1> HIDE DEF s
<1>3. Recap(s) = Recap(w)
  BY <1>1 DEF Recap
<1>4. memory'[UserOf[t]][<<"session_summary", SUMMARY_KEY>>]
        = [thread |-> t, turn_id |-> w.turn_id,
           step_index |-> Len(w.tool_calls), recap |-> Recap(w)]
  BY UserAssumption, KeyAssumption DEF MemoryWriter, Put, IInv, TypeOK, MemoryKinds
<1>5. t \in {x \in Threads : UserOf[x] = UserOf[t]}
  OBVIOUS
<1> QED
  BY <1>1, <1>2, <1>3, <1>4, <1>5 DEF SummaryInv

\* Each step that writes memory or a state leaves its thread in a turn, but for
\* memory_writer's.
LEMMA SummaryStep ==
    ASSUME IInv, RInv, NEW t \in Threads, Submit(t) \/ TurnStep(t) \/ Persist(t),
           NEW u \in Users
    PROVE  SummaryInv(u)'
<1>1. SummaryInv(u)
  BY DEF RInv
<1>2. /\ \A x \in Threads \ {t} : work'[x] = work[x]
      /\ \A x \in Users \ {UserOf[t]} : memory'[x] = memory[x]
  BY UserAssumption
     DEF TurnStep, PlannerModel, PlannerTools, Submit, Invoke, Persist, Return, Leave,
         StartTurn, FinalMessage, StepLimit, AskTools, TraceCall, RunCall, ToolsReturn,
         FallbackTeach, FallbackReply, MemoryWriter, Commit, Put, durable, IInv, TypeOK
<1>3. CASE u # UserOf[t]
  BY <1>1, <1>2, <1>3, SameSummary
<1>4. CASE u = UserOf[t] /\ MemoryWriter(t)
  BY <1>4, MemoryWriterSummary
<1>5. CASE u = UserOf[t] /\ (Persist(t) \/ Return(t))
  BY <1>1, <1>5, SameSummary DEF Persist, Return, Leave, durable
<1>6. CASE u = UserOf[t] /\ ~(MemoryWriter(t) \/ Persist(t) \/ Return(t))
  <2>1. work'[t].node \notin {"idle", "done"}
    <3>1. work \in [Threads -> PlannerState] /\ work[t] \in PlannerState
      BY DEF IInv, TypeOK
    <3>2. CASE Submit(t)
      <4>1. work'[t] = [work[t] EXCEPT !.node = "start_turn"]
        BY <3>1, <3>2 DEF Submit, Invoke, Commit
      <4> QED
        BY <3>1, <4>1 DEF PlannerState
    <3>3. CASE StartTurn(t)
      <4>1. work'[t] = [Blank EXCEPT !.node = "planner_model", !.turn_id = invocations[t]]
        BY <3>1, <3>3 DEF StartTurn, Commit
      <4> QED
        BY <4>1 DEF Blank
    <3>4. CASE FinalMessage(t)
      <4>1. work'[t] = [work[t] EXCEPT !.model_calls = @ + 1, !.last_ai = <<>>,
                                       !.halt_reason = "final_message",
                                       !.node = "memory_writer"]
        BY <3>1, <3>4 DEF FinalMessage, Commit
      <4> QED
        BY <3>1, <4>1 DEF PlannerState
    <3>5. CASE FallbackReply(t)
      <4>1. PICK lesson : work'[t] = [work[t] EXCEPT !.lesson = lesson, !.node = "memory_writer"]
        BY <3>1, <3>5 DEF FallbackReply, Commit
      <4> QED
        BY <3>1, <4>1 DEF PlannerState
    <3>6. ASSUME NEW calls \in Replies, StepLimit(t, calls)
          PROVE  work'[t].node \notin {"idle", "done"}
      <4>1. work'[t] = [work[t] EXCEPT !.model_calls = @ + 1, !.last_ai = calls,
                                       !.halt_reason = "max_steps",
                                       !.node = "fallback_lesson"]
        BY <3>1, <3>6 DEF StepLimit, Commit
      <4> QED
        BY <3>1, <4>1 DEF PlannerState
    <3>7. ASSUME NEW calls \in Replies, AskTools(t, calls)
          PROVE  work'[t].node \notin {"idle", "done"}
      <4>1. work'[t] = [work[t] EXCEPT !.model_calls = @ + 1, !.last_ai = calls,
                                       !.tool_calls = @ \o calls,
                                       !.node = "planner_tools"]
        BY <3>1, <3>7 DEF AskTools, Commit
      <4> QED
        BY <3>1, <4>1 DEF PlannerState
    <3>8. CASE FallbackTeach(t) \/ \E p \in DOMAIN inflight[t] : TraceCall(t, p) \/ RunCall(t, p)
      BY <3>8 DEF FallbackTeach, TraceCall, RunCall, Stage, At
    <3>9. CASE ToolsReturn(t)
      <4>1. work'[t] = AfterTools(work[t], inflight[t])
        BY <3>9 DEF ToolsReturn, Commit, IInv, TypeOK
      <4> QED
        BY <4>1, ThreadFacts DEF AfterTools, PlannerState
    <3> QED
      BY <1>6, <3>2, <3>3, <3>8, <3>9, <3>4, <3>5, <3>6, <3>7
         DEF TurnStep, PlannerModel, PlannerTools
  <2> QED
    BY <1>6, <2>1 DEF SummaryInv
<1> QED
  BY <1>3, <1>4, <1>5, <1>6

-----------------------------------------------------------------------------
(* Turns whose nodes all return: what their calls wrote *)

\* Where the items of two sequences are in the sequence of both.
LEMMA ConcatFacts ==
    ASSUME NEW S, NEW a \in Seq(S), NEW b \in Seq(S), NEW c, c = a \o b
    PROVE  /\ Len(a) \in Nat /\ Len(b) \in Nat
           /\ DOMAIN a = 1 .. Len(a) /\ DOMAIN b = 1 .. Len(b)
           /\ DOMAIN c = 1 .. Len(a) + Len(b)
           /\ \A i \in 1 .. Len(a) : c[i] = a[i]
           /\ \A i \in 1 .. Len(b) : c[Len(a) + i] = b[i]
<1>1. a \o b \in Seq(S) /\ Len(a \o b) = Len(a) + Len(b)
  BY ConcatProperties
<1>2. DOMAIN (a \o b) = 1 .. Len(a \o b)
  BY <1>1
<1>3. /\ \A i \in 1 .. Len(a) : (a \o b)[i] = a[i]
      /\ \A i \in 1 .. Len(b) : (a \o b)[Len(a) + i] = b[i]
  BY ConcatProperties
<1> QED
  BY <1>1, <1>2, <1>3

\* A thread's slot with the same record keeps what holds of it if the turn and the
\* calls that wrote to it are the same, or if the turn is over.
LEMMA SameAnswers ==
    ASSUME NEW t, NEW slot, NEW r, NEW s, NEW flight, AnswerInv(t, s, flight, slot, r),
           NEW f, NEW next, f.turn_id = s.turn_id,
           f.node \notin {"idle", "start_turn"} =>
              /\ s.node \notin {"idle", "start_turn"}
              /\ WrittenSoFar(f, next, slot) = WrittenSoFar(s, flight, slot)
    PROVE  AnswerInv(t, f, next, slot, r)
BY DEF AnswerInv, WrittenBy

\* Away from the tool node, the calls that wrote are the answered ones.
LEMMA SameWritten ==
    ASSUME NEW slot, NEW s, NEW f, NEW flight, NEW next,
           f.tool_calls = s.tool_calls, f.results = s.results,
           s.node # "planner_tools", f.node # "planner_tools"
    PROVE  WrittenSoFar(f, next, slot) = WrittenSoFar(s, flight, slot)
BY DEF WrittenSoFar

\* A thread keeps what its turn's calls wrote when it moves on without writing.
LEMMA KeptAnswers ==
    ASSUME RInv, NEW t \in Threads, memory' = memory, work'[t].turn_id = work[t].turn_id,
           \A slot : work'[t].node \notin {"idle", "start_turn"} =>
              /\ work[t].node \notin {"idle", "start_turn"}
              /\ WrittenSoFar(work'[t], inflight'[t], slot)
                   = WrittenSoFar(work[t], inflight[t], slot)
    PROVE  ThreadAnswers(t)'
<1> SUFFICES ASSUME NEW slot \in MemoryKinds \X Keys
             PROVE  AnswerInv(t, work'[t], inflight'[t], slot, memory[UserOf[t]][slot])
  BY DEF ThreadAnswers
<1>1. AnswerInv(t, work[t], inflight[t], slot, memory[UserOf[t]][slot])
  BY DEF RInv, ThreadAnswers
<1> QED
  BY <1>1, SameAnswers

\* Messages, replies without calls to run, the fallback and the end of an invocation
\* answer no call and write nothing.
LEMMA NodeAnswers ==
    ASSUME IInv, RInv, NEW t \in Threads,
           \/ Submit(t) \/ FinalMessage(t) \/ FallbackTeach(t) \/ FallbackReply(t)
           \/ Return(t) \/ \E calls : StepLimit(t, calls)
    PROVE  ThreadAnswers(t)'
<1>1. work[t] \in PlannerState /\ work \in [Threads -> PlannerState]
  BY DEF IInv, TypeOK
<1>2. memory' = memory
  BY DEF Submit, Invoke, FinalMessage, FallbackTeach, FallbackReply, Return, Leave, StepLimit,
         durable
<1>3. CASE Submit(t)
  <2>1. work'[t] = [work[t] EXCEPT !.node = "start_turn"]
    BY <1>1, <1>3 DEF Submit, Invoke, Commit
  <2>2. work'[t].node = "start_turn" /\ work'[t].turn_id = work[t].turn_id
    BY <1>1, <2>1 DEF PlannerState
  <2> QED
    BY <1>2, <2>2, KeptAnswers
<1>4. CASE ~Submit(t)
  <2>1. /\ work[t].node \in {"planner_model", "fallback_lesson", "done"}
        /\ work'[t].node \in {"fallback_lesson", "memory_writer", "done"}
        /\ work'[t].turn_id = work[t].turn_id
        /\ work'[t].tool_calls = work[t].tool_calls
        /\ work'[t].results = work[t].results
    <3>1. CASE FinalMessage(t)
      <4>1. work'[t] = [work[t] EXCEPT !.model_calls = @ + 1, !.last_ai = <<>>,
                                       !.halt_reason = "final_message",
                                       !.node = "memory_writer"]
        BY <1>1, <3>1 DEF FinalMessage, Commit
      <4> QED
        BY <1>1, <3>1, <4>1 DEF PlannerState, FinalMessage, At
    <3>2. ASSUME NEW calls, StepLimit(t, calls)
          PROVE  /\ work[t].node = "planner_model" /\ work'[t].node = "fallback_lesson"
                 /\ work'[t].turn_id = work[t].turn_id
                 /\ work'[t].tool_calls = work[t].tool_calls
                 /\ work'[t].results = work[t].results
      <4>1. work'[t] = [work[t] EXCEPT !.model_calls = @ + 1, !.last_ai = calls,
                                       !.halt_reason = "max_steps",
                                       !.node = "fallback_lesson"]
        BY <1>1, <3>2 DEF StepLimit, Commit
      <4>2. work[t].node = "planner_model"
        BY <3>2 DEF StepLimit, At
      <4>3. work'[t].node = "fallback_lesson"
        BY <1>1, <4>1 DEF PlannerState
      <4>4. work'[t].turn_id = work[t].turn_id
        BY <1>1, <4>1 DEF PlannerState
      <4>5. work'[t].tool_calls = work[t].tool_calls
        BY <1>1, <4>1 DEF PlannerState
      <4>6. work'[t].results = work[t].results
        BY <1>1, <4>1 DEF PlannerState
      <4> QED
        BY <4>2, <4>3, <4>4, <4>5, <4>6
    <3>3. CASE FallbackReply(t)
      <4>1. PICK lesson : work'[t] = [work[t] EXCEPT !.lesson = lesson,
                                                     !.node = "memory_writer"]
        BY <1>1, <3>3 DEF FallbackReply, Commit
      <4> QED
        BY <1>1, <3>3, <4>1 DEF PlannerState, FallbackReply, At
    <3>4. CASE FallbackTeach(t) \/ Return(t)
      BY <3>4 DEF FallbackTeach, Return, Leave, At
    <3> QED
      BY <1>4, <3>1, <3>2, <3>3, <3>4
  <2>2. \A slot : WrittenSoFar(work'[t], inflight'[t], slot)
                    = WrittenSoFar(work[t], inflight[t], slot)
    BY <2>1, SameWritten
  <2> QED
    BY <1>2, <2>1, <2>2, KeptAnswers
<1> QED
  BY <1>3, <1>4

\* A new turn has written nothing, and what the thread wrote before is of older turns.
LEMMA StartTurnAnswers ==
    ASSUME IInv, RInv, NEW t \in Threads, StartTurn(t)
    PROVE  ThreadAnswers(t)'
<1> DEFINE s == [Blank EXCEPT !.node = "planner_model", !.turn_id = invocations[t]]
<1>1. s.turn_id = invocations[t] /\ s.tool_calls = <<>>
  BY DEF Blank
<1>2. work'[t] = s /\ memory' = memory
  BY DEF StartTurn, Commit, durable, IInv, TypeOK
<1> HIDE DEF s
<1>3. work[t].turn_id < invocations[t] /\ work[t].turn_id \in Nat /\ invocations[t] \in Nat
  BY ThreadFacts DEF StartTurn, At, ThreadInv, TurnInv
<1> SUFFICES ASSUME NEW slot \in MemoryKinds \X Keys
             PROVE  AnswerInv(t, s, inflight'[t], slot, memory[UserOf[t]][slot])
  BY <1>2 DEF ThreadAnswers
<1> DEFINE r == memory[UserOf[t]][slot]
<1>4. r \in MemoryRecord \cup {None}
  BY UserAssumption DEF IInv, TypeOK
<1>5. r # None /\ r.thread = t => r.turn_id <= work[t].turn_id /\ r.turn_id \in Nat
  BY <1>4 DEF RInv, ThreadAnswers, AnswerInv, MemoryRecord
<1>6. WrittenSoFar(s, inflight'[t], slot) = {}
  BY <1>1 DEF WrittenSoFar
<1> HIDE DEF r
<1>7. r # None /\ r.thread = t => r.turn_id < s.turn_id /\ r.turn_id # s.turn_id
  BY <1>1, <1>3, <1>5
<1>8. r # None /\ r.thread = t => r.turn_id <= s.turn_id
  BY <1>1, <1>3, <1>5
<1> QED
  BY <1>6, <1>7, <1>8 DEF AnswerInv, WrittenBy, r

\* A reply's calls have not run when the tool node starts.
LEMMA AskToolsAnswers ==
    ASSUME IInv, RInv, NEW t \in Threads, NEW calls \in Replies, AskTools(t, calls)
    PROVE  ThreadAnswers(t)'
<1> DEFINE w == work[t]
           s == [w EXCEPT !.model_calls = @ + 1, !.last_ai = calls,
                          !.tool_calls = @ \o calls, !.node = "planner_tools"]
<1>1. /\ s.node = "planner_tools" /\ s.turn_id = w.turn_id /\ s.results = w.results
      /\ s.tool_calls = w.tool_calls \o calls /\ s.last_ai = calls
      /\ w.node = "planner_model"
  BY ThreadFacts DEF PlannerState, AskTools, At
<1>2. work'[t] = s /\ memory' = memory /\ inflight'[t] = Launch(s)
  BY DEF AskTools, Commit, Progress, durable, IInv, TypeOK
<1> HIDE DEF s
<1>3. /\ calls \in Seq(Call) /\ w.tool_calls \in Seq(Call) /\ w.results \in Seq(Results)
      /\ Len(w.tool_calls) = Len(w.results)
  BY ReplyAssumption, ThreadFacts DEF AskTools, At, ThreadInv, StateInv, PlannerState
<1>4. Launch(s) = [p \in DOMAIN calls |-> "waiting"]
  BY <1>1 DEF Launch
<1> HIDE DEF w
<1>5. /\ DOMAIN s.tool_calls = 1 .. Len(w.results) + Len(calls)
      /\ \A i \in 1 .. Len(w.results) : s.tool_calls[i] = w.tool_calls[i]
      /\ DOMAIN w.tool_calls = 1 .. Len(w.results)
      /\ DOMAIN w.results = 1 .. Len(w.results)
      /\ DOMAIN calls = 1 .. Len(calls)
      /\ Len(w.results) \in Nat /\ Len(calls) \in Nat
  <2>0. w.tool_calls \in Seq(Call) /\ calls \in Seq(Call) /\ s.tool_calls = w.tool_calls \o calls
    BY <1>1, <1>3
  <2>1. /\ DOMAIN s.tool_calls = 1 .. Len(w.tool_calls) + Len(calls)
        /\ \A i \in 1 .. Len(w.tool_calls) : s.tool_calls[i] = w.tool_calls[i]
        /\ DOMAIN w.tool_calls = 1 .. Len(w.tool_calls)
        /\ DOMAIN calls = 1 .. Len(calls)
        /\ Len(w.tool_calls) \in Nat /\ Len(calls) \in Nat
    BY ONLY <2>0, ConcatFacts
  <2>2. DOMAIN w.results = 1 .. Len(w.results)
    BY <1>3
  <2> QED
    BY <1>3, <2>1, <2>2
<1>6. ASSUME NEW slot PROVE WrittenSoFar(s, Launch(s), slot) = WrittenSoFar(w, inflight[t], slot)
  <2>1. \A i \in 1 .. Len(w.results) + Len(calls) :
            i \notin 1 .. Len(w.results) => i - Len(w.results) \in 1 .. Len(calls)
    BY <1>5
  <2>2. \A i \in 1 .. Len(w.results) + Len(calls) :
            i \notin 1 .. Len(w.results) => Launch(s)[i - Len(w.results)] = "waiting"
    BY <1>4, <1>5, <2>1
  <2>3. \A i \in 1 .. Len(w.results) : i \in 1 .. Len(w.results) + Len(calls)
    BY <1>5
  <2> HIDE DEF Launch
  <2> QED
    BY <1>1, <1>5, <2>2, <2>3 DEF WrittenSoFar
<1> QED
  BY <1>1, <1>2, <1>6, KeptAnswers DEF w

\* The answers of the calls in flight say what these calls wrote.
LEMMA ToolsReturnAnswers ==
    ASSUME IInv, RInv, NEW t \in Threads, ToolsReturn(t)
    PROVE  ThreadAnswers(t)'
<1> DEFINE w == work[t]
           flight == inflight[t]
           s == AfterTools(w, flight)
           n == Len(w.results)
           m == Len(w.last_ai)
<1>1. At(t, "planner_tools") /\ \A p \in DOMAIN flight : flight[p] \in Results \ {"raised"}
  BY DEF ToolsReturn
<1>2. work'[t] = s /\ memory' = memory
  BY DEF ToolsReturn, Commit, durable, IInv, TypeOK
<1>3. /\ w \in PlannerState /\ w.node = "planner_tools"
      /\ DOMAIN flight = 1 .. m /\ m \in Nat /\ n \in Nat
      /\ Len(w.tool_calls) = n + m
  BY <1>1, FlightFacts, ThreadFacts
<1>4. flight \in Seq(Results) /\ Len(flight) = m
  <2>1. flight \in Seq(Results \cup {"waiting", "traced"})
    BY ThreadFacts
  <2>2. Len(flight) \in Nat /\ DOMAIN flight = 1 .. Len(flight)
    BY <2>1
  <2>3. Len(flight) = m
    BY <1>3, <2>2
  <2>4. flight = [p \in 1 .. Len(flight) |-> flight[p]]
    BY <2>1
  <2>5. flight \in Seq(Results)
    BY <1>1, <2>2, <2>4
  <2> QED
    BY <2>3, <2>5
<1>5. /\ s.turn_id = w.turn_id /\ s.tool_calls = w.tool_calls
      /\ s.results = w.results \o flight
      /\ s.node \in {"fallback_lesson", "planner_model"}
  BY <1>3 DEF AfterTools, PlannerState
<1>6. /\ DOMAIN s.results = 1 .. n + m
      /\ \A i \in 1 .. n : s.results[i] = w.results[i]
      /\ \A p \in 1 .. m : s.results[n + p] = flight[p]
      /\ DOMAIN w.results = 1 .. n /\ DOMAIN w.tool_calls = 1 .. n + m
  <2>1. w.results \in Seq(Results) /\ w.tool_calls \in Seq(Call)
    BY <1>3 DEF PlannerState
  <2> HIDE DEF s, w, flight, m
  <2>0. w.results \in Seq(Results) /\ flight \in Seq(Results) /\ s.results = w.results \o flight
    BY <1>4, <1>5, <2>1
  <2>2. /\ DOMAIN s.results = 1 .. Len(w.results) + Len(flight)
        /\ \A i \in 1 .. Len(w.results) : s.results[i] = w.results[i]
        /\ \A p \in 1 .. Len(flight) : s.results[Len(w.results) + p] = flight[p]
        /\ DOMAIN w.results = 1 .. Len(w.results)
    BY ONLY <2>0, ConcatFacts
  <2>3. DOMAIN w.tool_calls = 1 .. n + m
    BY <1>3, <2>1
  <2>4. /\ DOMAIN s.results = 1 .. n + m
        /\ \A i \in 1 .. n : s.results[i] = w.results[i]
        /\ \A p \in 1 .. m : s.results[n + p] = flight[p]
        /\ DOMAIN w.results = 1 .. n
    BY <1>4, <2>2 DEF n
  <2> QED
    BY <2>3, <2>4
<1> HIDE DEF s, w, flight, n, m
<1>7. ASSUME NEW slot
      PROVE  WrittenSoFar(s, inflight'[t], slot) = WrittenSoFar(w, flight, slot)
  <2>1. \A i \in 1 .. n + m : i \notin 1 .. n => s.results[i] = flight[i - n]
    <3> SUFFICES ASSUME NEW i \in 1 .. n + m, i \notin 1 .. n
                 PROVE  s.results[i] = flight[i - n]
      OBVIOUS
    <3>1. i - n \in 1 .. m /\ i = n + (i - n)
      BY <1>3
    <3> QED
      BY <1>6, <3>1
  <2> QED
    BY <1>3, <1>5, <1>6, <2>1 DEF WrittenSoFar, n
<1> QED
  BY <1>2, <1>3, <1>5, <1>7, KeptAnswers DEF w, flight

\* A position of the calls in flight, and the step of the turn it stands for.
LEMMA FlightStep ==
    ASSUME IInv, NEW t \in Threads, NEW p, NEW stage, Stage(t, p, stage)
    PROVE  /\ Len(work[t].results) \in Nat /\ p \in Nat
           /\ Len(work[t].results) + p \in DOMAIN work[t].tool_calls
           /\ Len(work[t].results) + p \notin DOMAIN work[t].results
           /\ work[t].tool_calls[Len(work[t].results) + p] = work[t].last_ai[p]
           /\ StepIndex(work[t], p) + 1 = Len(work[t].results) + p
           /\ DOMAIN work[t].tool_calls \subseteq Nat
<1> DEFINE w == work[t]
           n == Len(w.results)
<1>1. /\ At(t, "planner_tools") /\ p \in DOMAIN inflight[t] /\ w.node = "planner_tools"
      /\ StateInv(trace[t], w)
  BY CallFacts DEF Stage
<1>2. /\ w \in PlannerState /\ DOMAIN inflight[t] = DOMAIN w.last_ai
      /\ p \in 1 .. Len(w.last_ai) /\ Len(w.last_ai) \in Nat /\ n \in Nat
      /\ Len(w.tool_calls) = n + Len(w.last_ai)
  BY <1>1, FlightFacts, ThreadFacts
<1>3. w.tool_calls[n + p] = w.last_ai[p]
  BY <1>1, <1>2 DEF StateInv
<1>4. StepIndex(w, p) = n + p - 1
  BY <1>2, StepIndexValue
<1>5. w.results \in Seq(Results) /\ w.tool_calls \in Seq(Call)
  BY <1>2 DEF PlannerState
<1> HIDE DEF w
<1>6. DOMAIN w.results = 1 .. n /\ DOMAIN w.tool_calls = 1 .. n + Len(w.last_ai)
  <2>1. DOMAIN w.results = 1 .. n
    BY <1>5
  <2>2. DOMAIN w.tool_calls = 1 .. Len(w.tool_calls)
    BY <1>5
  <2> QED
    BY <1>2, <2>1, <2>2
<1> HIDE DEF n
<1>7. /\ n \in Nat /\ p \in Nat /\ n + p \in 1 .. n + Len(w.last_ai)
      /\ n + p \notin 1 .. n /\ StepIndex(w, p) + 1 = n + p
  BY <1>2, <1>4
<1>8. /\ n + p \in DOMAIN w.tool_calls /\ n + p \notin DOMAIN w.results
      /\ DOMAIN w.tool_calls \subseteq Nat
  BY <1>2, <1>6, <1>7
<1> QED
  BY <1>3, <1>7, <1>8, Zenon DEF n, w

\* A call that goes on has written to the slots that it writes to, once it is answered
\* with "ok", and to no other.
LEMMA AdvanceWritten ==
    ASSUME IInv, NEW t \in Threads, NEW p, NEW stage, NEW was, Stage(t, p, was), was # "ok",
           Advance(t, p, stage), NEW slot
    PROVE  /\ stage = "ok" /\ work[t].last_ai[p] = Outcome(slot) =>
                 Len(work[t].results) + p \in WrittenSoFar(work[t], inflight'[t], slot)
           /\ stage # "ok" \/ work[t].last_ai[p] # Outcome(slot) =>
                 WrittenSoFar(work[t], inflight'[t], slot)
                   = WrittenSoFar(work[t], inflight[t], slot)
<1> DEFINE w == work[t]
           flight == inflight[t]
           next == inflight'[t]
           n == Len(w.results)
           i == n + p
<1>1. /\ n \in Nat /\ p \in Nat /\ i \in DOMAIN w.tool_calls /\ i \notin DOMAIN w.results
      /\ w.tool_calls[i] = w.last_ai[p] /\ DOMAIN w.tool_calls \subseteq Nat
  BY FlightStep
<1>2. /\ w.node = "planner_tools" /\ p \in DOMAIN flight /\ flight[p] # "ok"
  BY CallFacts
<1>3. i - n = p /\ \A j \in DOMAIN w.tool_calls : j # i => j - n # p
  BY <1>1
<1>4. next[p] = stage /\ \A q : q # p => next[q] = flight[q]
  <2>1. next = [flight EXCEPT ![p] = stage]
    BY DEF Advance, Progress, IInv, TypeOK
  <2> HIDE DEF next, flight
  <2> QED
    BY <1>2, <2>1
<1> HIDE DEF w, flight, next, n, i
<1>5. \A j \in DOMAIN w.tool_calls : j # i => next[j - n] = flight[j - n]
  BY <1>3, <1>4
<1>6. next[i - n] = stage /\ flight[i - n] # "ok"
  BY <1>2, <1>3, <1>4
<1>7. CASE stage = "ok" /\ w.last_ai[p] = Outcome(slot)
  <2>1. i \in WrittenSoFar(w, next, slot)
    BY <1>1, <1>2, <1>6, <1>7 DEF WrittenSoFar, n
  <2> QED
    BY <1>7, <2>1 DEF w, next, n, i
<1>8. CASE ~(stage = "ok" /\ w.last_ai[p] = Outcome(slot))
  <2>1. \A j \in DOMAIN w.tool_calls :
            (w.tool_calls[j] = Outcome(slot) /\ next[j - n] = "ok")
               <=> (w.tool_calls[j] = Outcome(slot) /\ flight[j - n] = "ok")
    BY <1>1, <1>3, <1>5, <1>6, <1>8
  <2>2. WrittenSoFar(w, next, slot) = WrittenSoFar(w, flight, slot)
    BY <1>2, <2>1 DEF WrittenSoFar, n
  <2> QED
    BY <1>8, <2>2, Zenon DEF w, flight, next
<1> QED
  BY <1>7, <1>8

\* A call that is traced has not written yet.
LEMMA TraceCallAnswers ==
    ASSUME IInv, RInv, NEW t \in Threads, NEW p, TraceCall(t, p)
    PROVE  ThreadAnswers(t)'
<1>1. /\ Stage(t, p, "waiting") /\ Advance(t, p, "traced") /\ work' = work /\ memory' = memory
  BY DEF TraceCall
<1>2. work[t].node = "planner_tools" /\ inflight'[t] = [inflight[t] EXCEPT ![p] = "traced"]
  BY <1>1, CallFacts DEF Advance, Progress, IInv, TypeOK
<1>3. \A slot : WrittenSoFar(work[t], inflight'[t], slot)
                  = WrittenSoFar(work[t], inflight[t], slot)
  BY <1>1, AdvanceWritten
<1> QED
  BY <1>1, <1>2, <1>3, KeptAnswers

\* What a call that runs does to the memory: nothing, or a record of its step under
\* the slot it names.
LEMMA RunCallWrites ==
    ASSUME IInv, NEW t \in Threads, NEW p, RunCall(t, p)
    PROVE  LET w == work[t]
               call == w.last_ai[p]
               record == [thread |-> t, turn_id |-> w.turn_id,
                          step_index |-> StepIndex(w, p), recap |-> None]
           IN  \E result : /\ Advance(t, p, result)
                           /\ \/ /\ memory' = memory
                                 /\ ~(call.tool = "record_outcome" /\ result = "ok")
                              \/ /\ call.tool = "record_outcome" /\ result = "ok"
                                 /\ record \in MemoryRecord /\ record # None
                                 /\ call.kind \in MemoryKinds /\ call.key \in Keys
                                 /\ call = [tool |-> "record_outcome", kind |-> call.kind,
                                            key |-> call.key]
                                 /\ Put(t, call.kind, call.key, record)
<1> DEFINE w == work[t]
           call == w.last_ai[p]
           record == [thread |-> t, turn_id |-> w.turn_id,
                      step_index |-> StepIndex(w, p), recap |-> None]
<1>1. Stage(t, p, "traced")
  BY DEF RunCall
<1>2. call \in Call /\ StepIndex(w, p) \in Nat /\ w.turn_id \in Nat
  BY <1>1, CallFacts, ThreadFacts
<1>3. PICK result \in ResultsOf(call) :
          /\ Advance(t, p, result)
          /\ IF call.tool = "record_outcome" /\ result = "ok"
               THEN Put(t, call.kind, call.key, record)
               ELSE UNCHANGED memory
  BY DEF RunCall
<1>4. CASE call.tool = "record_outcome" /\ result = "ok"
  <2>1. call.kind \in PLANNER_WRITE_ALLOWLIST
    BY <1>3, <1>4 DEF ResultsOf
  <2>2. /\ call.kind \in MemoryKinds /\ call.key \in Keys
        /\ call = [tool |-> "record_outcome", kind |-> call.kind, key |-> call.key]
    BY <1>2, <1>4, <2>1 DEF Call, PLANNER_WRITE_ALLOWLIST, MemoryKinds
  <2>3. record \in MemoryRecord
    BY <1>2 DEF MemoryRecord
  <2>4. record # None
    BY <2>3, NoneAssumption
  <2> HIDE DEF call, record
  <2> QED
    BY <1>3, <1>4, <2>2, <2>3, <2>4 DEF call, record
<1>5. CASE ~(call.tool = "record_outcome" /\ result = "ok")
  BY <1>3, <1>5
<1> QED
  BY <1>4, <1>5

\* A call that runs leaves the record its answer tells of.
LEMMA RunCallAnswers ==
    ASSUME IInv, RInv, NEW t \in Threads, NEW p, RunCall(t, p)
    PROVE  ThreadAnswers(t)'
<1> DEFINE w == work[t]
           call == w.last_ai[p]
           record == [thread |-> t, turn_id |-> w.turn_id,
                      step_index |-> StepIndex(w, p), recap |-> None]
<1>1. PICK result : /\ Advance(t, p, result)
                    /\ \/ /\ memory' = memory
                          /\ ~(call.tool = "record_outcome" /\ result = "ok")
                       \/ /\ call.tool = "record_outcome" /\ result = "ok"
                          /\ record \in MemoryRecord /\ record # None
                          /\ call.kind \in MemoryKinds /\ call.key \in Keys
                          /\ call = [tool |-> "record_outcome", kind |-> call.kind,
                                     key |-> call.key]
                          /\ Put(t, call.kind, call.key, record)
  BY RunCallWrites
<1>2. Stage(t, p, "traced") /\ work' = work
  BY DEF RunCall
<1>3. /\ w.node = "planner_tools" /\ w.turn_id \in Nat
      /\ inflight'[t] = [inflight[t] EXCEPT ![p] = result]
  BY <1>1, <1>2, CallFacts, ThreadFacts DEF Advance, Progress, IInv, TypeOK
<1>4. StepIndex(w, p) + 1 = Len(w.results) + p
  BY <1>2, FlightStep
<1>5. CASE ~(call.tool = "record_outcome" /\ result = "ok")
  <2>1. ASSUME NEW slot
        PROVE  WrittenSoFar(w, inflight'[t], slot) = WrittenSoFar(w, inflight[t], slot)
    <3>1. result # "ok" \/ call # Outcome(slot)
      BY <1>5 DEF Outcome
    <3> QED
      BY <1>1, <1>2, <3>1, AdvanceWritten
  <2> QED
    BY <1>1, <1>2, <1>3, <1>5, <2>1, KeptAnswers
<1>6. CASE call.tool = "record_outcome" /\ result = "ok"
  <2>1. /\ record # None /\ call.kind \in MemoryKinds /\ call.key \in Keys
        /\ call = [tool |-> "record_outcome", kind |-> call.kind, key |-> call.key]
        /\ Put(t, call.kind, call.key, record)
    BY <1>1, <1>6
  <2> SUFFICES ASSUME NEW slot \in MemoryKinds \X Keys
               PROVE  AnswerInv(t, w, inflight'[t], slot, memory'[UserOf[t]][slot])
    BY <1>2 DEF ThreadAnswers
  <2>2. /\ slot = <<call.kind, call.key>> => memory'[UserOf[t]][slot] = record
        /\ slot # <<call.kind, call.key>> =>
              memory'[UserOf[t]][slot] = memory[UserOf[t]][slot]
    BY <2>1, UserAssumption DEF Put, IInv, TypeOK
  <2>3. record.thread = t /\ record.turn_id = w.turn_id /\ record.step_index = StepIndex(w, p)
    OBVIOUS
  <2> DEFINE new == WrittenSoFar(w, inflight'[t], slot)
  <2>4. CASE slot = <<call.kind, call.key>>
    <3>1. call = Outcome(slot)
      BY <2>1, <2>4 DEF Outcome
    <3>2. Len(w.results) + p \in new
      BY <1>1, <1>2, <1>6, <3>1, AdvanceWritten
    <3>3. w.turn_id <= w.turn_id
      BY <1>3
    <3> HIDE DEF new, record, w
    <3> QED
      BY <1>4, <2>1, <2>2, <2>3, <2>4, <3>2, <3>3 DEF AnswerInv, WrittenBy, new
  <2>5. CASE slot # <<call.kind, call.key>>
    <3>1. call # Outcome(slot)
      <4>1. slot = <<slot[1], slot[2]>>
        OBVIOUS
      <4>2. CASE call = Outcome(slot)
        <5>1. call.kind = slot[1] /\ call.key = slot[2]
          BY <4>2 DEF Outcome
        <5> QED
          BY <2>5, <4>1, <5>1
      <4> QED
        BY <4>2
    <3>2. new = WrittenSoFar(w, inflight[t], slot)
      BY <1>1, <1>2, <3>1, AdvanceWritten
    <3>3. AnswerInv(t, w, inflight[t], slot, memory[UserOf[t]][slot])
      BY DEF RInv, ThreadAnswers
    <3> QED
      BY <1>3, <2>2, <2>5, <3>2, <3>3, SameAnswers
  <2> QED
    BY <2>4, <2>5
<1> QED
  BY <1>5, <1>6

\* The record of memory_writer.
LEMMA RecapRecord ==
    ASSUME IInv, NEW t \in Threads
    PROVE  LET w == work[t] IN
           [thread |-> t, turn_id |-> w.turn_id, step_index |-> Len(w.tool_calls),
            recap |-> Recap(w)] # None /\ Recap(w) # None
<1> DEFINE w == work[t]
<1>1. /\ w.turn_id \in Nat /\ w.tool_calls \in Seq(Call)
      /\ w.halt_reason \in HaltReason \cup {"none"}
  BY ThreadFacts DEF PlannerState
<1>2. Recap(w) \in RecapText
  BY <1>1 DEF Recap, RecapText
<1>3. Len(w.tool_calls) \in Nat
  BY <1>1
<1> HIDE DEF w
<1>4. [thread |-> t, turn_id |-> w.turn_id, step_index |-> Len(w.tool_calls),
       recap |-> Recap(w)] \in MemoryRecord
  BY <1>1, <1>2, <1>3 DEF MemoryRecord
<1> QED
  BY <1>2, <1>4, NoneAssumption DEF w

\* memory_writer's summary replaces a record of the turn's planner by one of the turn.
LEMMA MemoryWriterAnswers ==
    ASSUME IInv, RInv, NEW t \in Threads, MemoryWriter(t)
    PROVE  ThreadAnswers(t)'
<1> DEFINE w == work[t]
           s == [w EXCEPT !.node = "done"]
           record == [thread |-> t, turn_id |-> w.turn_id,
                      step_index |-> Len(w.tool_calls), recap |-> Recap(w)]
<1>1. /\ s.node = "done" /\ s.turn_id = w.turn_id /\ s.tool_calls = w.tool_calls
      /\ s.results = w.results /\ w.node = "memory_writer" /\ w.turn_id \in Nat
  BY ThreadFacts DEF PlannerState, MemoryWriter, At
<1>2. /\ work'[t] = s /\ Put(t, "session_summary", SUMMARY_KEY, record)
  BY DEF MemoryWriter, Commit, IInv, TypeOK
<1>3. record # None /\ record.thread = t /\ record.turn_id = w.turn_id /\ record.recap # None
  BY RecapRecord
<1> HIDE DEF s, record
<1> SUFFICES ASSUME NEW slot \in MemoryKinds \X Keys
             PROVE  AnswerInv(t, s, inflight'[t], slot, memory'[UserOf[t]][slot])
  BY <1>2 DEF ThreadAnswers
<1>4. memory'[UserOf[t]][slot] \in {memory[UserOf[t]][slot], record}
  BY <1>2, UserAssumption DEF Put, IInv, TypeOK
<1>5. WrittenSoFar(s, inflight'[t], slot) = WrittenSoFar(w, inflight[t], slot)
  BY <1>1, SameWritten
<1>6. AnswerInv(t, w, inflight[t], slot, memory[UserOf[t]][slot])
  BY DEF RInv, ThreadAnswers
<1>7. CASE memory'[UserOf[t]][slot] = memory[UserOf[t]][slot]
  BY <1>1, <1>5, <1>6, <1>7, SameAnswers
<1>8. CASE memory'[UserOf[t]][slot] = record
  <2>1. w.turn_id <= w.turn_id
    BY <1>1
  <2> QED
    BY <1>1, <1>3, <1>8, <2>1 DEF AnswerInv, WrittenBy
<1> QED
  BY <1>4, <1>7, <1>8

\* The memory after a step of a thread holds what it held, or a record of the thread.
LEMMA MemoryAfter ==
    ASSUME IInv, NEW t \in Threads, Submit(t) \/ TurnStep(t) \/ Persist(t),
           NEW u \in Users, NEW slot \in MemoryKinds \X Keys
    PROVE  \/ memory'[u][slot] = memory[u][slot]
           \/ memory'[u][slot] # None /\ memory'[u][slot].thread = t
<1>1. ASSUME NEW kind, NEW key, NEW record, Put(t, kind, key, record)
      PROVE  memory'[u][slot] \in {memory[u][slot], record}
  BY <1>1 DEF Put, IInv, TypeOK
<1>2. ASSUME NEW p, RunCall(t, p)
      PROVE  \/ memory'[u][slot] = memory[u][slot]
             \/ memory'[u][slot] # None /\ memory'[u][slot].thread = t
  <2> DEFINE record == [thread |-> t, turn_id |-> work[t].turn_id,
                        step_index |-> StepIndex(work[t], p), recap |-> None]
  <2>1. \/ memory' = memory
        \/ /\ record # None
           /\ Put(t, work[t].last_ai[p].kind, work[t].last_ai[p].key, record)
    BY <1>2, RunCallWrites
  <2>2. record.thread = t
    OBVIOUS
  <2> HIDE DEF record
  <2> QED
    BY <1>1, <2>1, <2>2
<1>3. CASE MemoryWriter(t)
  <2> DEFINE record == [thread |-> t, turn_id |-> work[t].turn_id,
                        step_index |-> Len(work[t].tool_calls), recap |-> Recap(work[t])]
  <2>1. Put(t, "session_summary", SUMMARY_KEY, record)
    BY <1>3 DEF MemoryWriter
  <2>2. record.thread = t /\ record # None
    BY RecapRecord
  <2> HIDE DEF record
  <2> QED
    BY <1>1, <2>1, <2>2
<1>4. CASE ~MemoryWriter(t) /\ ~\E p \in DOMAIN inflight[t] : RunCall(t, p)
  BY <1>4 DEF TurnStep, PlannerModel, PlannerTools, Submit, Invoke, Persist, Return, Leave,
              StartTurn, FinalMessage, StepLimit, AskTools, TraceCall, ToolsReturn,
              FallbackTeach, FallbackReply, durable
<1> QED
  BY <1>2, <1>3, <1>4

\* What a thread's calls wrote is in its learner's memory until another write, of any
\* thread, replaces it.
LEMMA AnswerStep ==
    ASSUME IInv, RInv, NEW t \in Threads, Submit(t) \/ TurnStep(t) \/ Persist(t)
    PROVE  \A u \in Threads : ThreadAnswers(u)'
<1>1. ThreadAnswers(t)'
  <2>1. CASE Persist(t)
    BY <2>1 DEF Persist, durable, RInv, ThreadAnswers
  <2> QED
    BY <2>1, NodeAnswers, StartTurnAnswers, AskToolsAnswers, TraceCallAnswers, RunCallAnswers,
       ToolsReturnAnswers, MemoryWriterAnswers DEF TurnStep, PlannerModel, PlannerTools
<1>2. ASSUME NEW u \in Threads \ {t} PROVE ThreadAnswers(u)'
  <2>1. work'[u] = work[u] /\ inflight'[u] = inflight[u]
    BY DEF TurnStep, PlannerModel, PlannerTools, Submit, Invoke, Persist, Return, Leave,
           StartTurn, FinalMessage, StepLimit, AskTools, TraceCall, RunCall, ToolsReturn,
           FallbackTeach, FallbackReply, MemoryWriter, Commit, Progress, Advance, durable,
           IInv, TypeOK
  <2> SUFFICES ASSUME NEW slot \in MemoryKinds \X Keys
               PROVE  AnswerInv(u, work[u], inflight[u], slot, memory'[UserOf[u]][slot])
    BY <2>1 DEF ThreadAnswers
  <2>2. AnswerInv(u, work[u], inflight[u], slot, memory[UserOf[u]][slot])
    BY DEF RInv, ThreadAnswers
  <2>3. \/ memory'[UserOf[u]][slot] = memory[UserOf[u]][slot]
        \/ memory'[UserOf[u]][slot] # None /\ memory'[UserOf[u]][slot].thread = t
    BY MemoryAfter, UserAssumption
  <2> QED
    BY <2>2, <2>3 DEF AnswerInv, WrittenBy
<1> QED
  BY <1>1, <1>2

-----------------------------------------------------------------------------
(* Turns whose nodes all return: theorems *)

LEMMA InitReliable == Init => RInv
<1> SUFFICES ASSUME Init PROVE RInv
  OBVIOUS
<1>1. ASSUME NEW t \in Threads PROVE NumberInv(trace[t], work[t], inflight[t])
  <2>1. work[t].node = "idle" /\ trace[t] = <<>>
    BY DEF Init, Blank
  <2>2. DOMAIN trace[t] = {}
    BY <2>1
  <2> QED
    BY <2>1, <2>2 DEF NumberInv, Answered
<1>2. ASSUME NEW u \in Users PROVE SummaryInv(u)
  BY DEF Init, Blank, SummaryInv
<1>3. ASSUME NEW t \in Threads PROVE ThreadAnswers(t)
  <2>1. work[t].node = "idle"
    BY DEF Init, Blank
  <2>2. \A slot \in MemoryKinds \X Keys : memory[UserOf[t]][slot] = None
    BY UserAssumption DEF Init
  <2> QED
    BY <2>1, <2>2 DEF ThreadAnswers, AnswerInv
<1> QED
  BY <1>1, <1>2, <1>3 DEF RInv

LEMMA NextReliable == IInv /\ RInv /\ [ReliableNext]_vars => RInv'
<1> SUFFICES ASSUME IInv, RInv, [ReliableNext]_vars PROVE RInv'
  OBVIOUS
<1>1. CASE ReliableNext
  <2>1. PICK t \in Threads : Submit(t) \/ TurnStep(t) \/ Persist(t)
    BY <1>1 DEF ReliableNext
  <2> QED
    BY <2>1, NumberStep, SummaryStep, AnswerStep DEF RInv
<1>2. CASE UNCHANGED vars
  BY <1>2 DEF vars, durable, RInv, SummaryInv, ThreadAnswers
<1> QED
  BY <1>1, <1>2

\* Where every node returns, each call of a turn and its end have one row, numbered
\* in order, whatever order concurrent calls wrote them in, no summary is lost, and
\* the memory holds what the answered calls wrote.
THEOREM ReliableInductive == ReliableSpec => [](IInv /\ RInv)
<1>1. [ReliableNext]_vars => [Next]_vars
  BY DEF ReliableNext, Next
<1> QED
  BY <1>1, InitInv, NextInv, InitReliable, NextReliable, PTL DEF ReliableSpec

\* The rows of an answered turn are numbered from 0, one for each call, with the
\* terminal row last.
THEOREM TurnIsNumbered == ReliableSpec => []TraceNumbersTurn
<1>1. ASSUME IInv, RInv PROVE TraceNumbersTurn
  <2> SUFFICES ASSUME NEW t \in Threads, Answered(work[t])
               PROVE  LET s == work[t]
                          rows == RowsOf(trace[t], s.turn_id)
                      IN  /\ \A i \in 0 .. Len(s.tool_calls) :
                                \E k \in rows :
                                   /\ trace[t][k].step_index = i
                                   /\ \A j \in rows \ {k} : trace[t][j].step_index # i
                          /\ \A k \in rows :
                                trace[t][k].step_index \in 0 .. Len(s.tool_calls)
                          /\ trace[t][Last(rows)] = TerminalRow(s, s.halt_reason)
    BY DEF TraceNumbersTurn
  <2> DEFINE s == work[t]
             rows == RowsOf(trace[t], s.turn_id)
  <2>1. /\ \A j, k \in rows : trace[t][j].step_index = trace[t][k].step_index => j = k
        /\ {trace[t][k].step_index : k \in rows} = Numbered(s, inflight[t])
        /\ trace[t][Last(rows)] = TerminalRow(s, s.halt_reason)
    BY <1>1, NumberFacts DEF NumberInv, Answered
  <2>2. Numbered(s, inflight[t]) = 0 .. Len(s.tool_calls)
    BY NumberedNodes DEF Answered
  <2> HIDE DEF s, rows
  <2>3. \A k \in rows : trace[t][k].step_index \in 0 .. Len(s.tool_calls)
    BY <2>1, <2>2
  <2>4. ASSUME NEW i \in 0 .. Len(s.tool_calls)
        PROVE  \E k \in rows : /\ trace[t][k].step_index = i
                               /\ \A j \in rows \ {k} : trace[t][j].step_index # i
    BY <2>1, <2>2
  <2> QED
    BY <2>1, <2>3, <2>4 DEF s, rows
<1> QED
  BY <1>1, ReliableInductive, PTL

\* When no turn of a learner is open, the session summary recaps the turn that one
\* of the learner's threads ended with, although planners write under the same key.
THEOREM SummaryRecaps == ReliableSpec => []QuietSummaryRecapsATurn
<1>1. RInv => QuietSummaryRecapsATurn
  BY DEF RInv, SummaryInv, QuietSummaryRecapsATurn
<1> QED
  BY <1>1, ReliableInductive, PTL

\* What the calls of an answered turn wrote is what their answers say, whatever other
\* calls of their reply were refused, and the memory holds it until a later write.
THEOREM AnsweredWrites == ReliableSpec => []WritesAreAnswered
<1>1. ASSUME IInv, RInv PROVE WritesAreAnswered
  <2> SUFFICES ASSUME NEW t \in Threads, NEW slot \in MemoryKinds \X Keys, Answered(work[t])
               PROVE  LET s == work[t]
                          r == memory[UserOf[t]][slot]
                      IN  /\ WrittenBy(t, s, r) => r.step_index + 1 \in Written(s, slot)
                          /\ Written(s, slot) # {} =>
                                r # None /\ (r.thread = t => r.turn_id = s.turn_id)
    BY DEF WritesAreAnswered
  <2>1. AnswerInv(t, work[t], inflight[t], slot, memory[UserOf[t]][slot])
    BY <1>1 DEF RInv, ThreadAnswers
  <2>2. WrittenSoFar(work[t], inflight[t], slot) = Written(work[t], slot)
    <3>1. /\ work[t].tool_calls \in Seq(Call) /\ work[t].results \in Seq(Results)
          /\ Len(work[t].tool_calls) = Len(work[t].results)
      BY <1>1, ThreadFacts DEF PlannerState, ThreadInv, StateInv, Answered
    <3>2. DOMAIN work[t].tool_calls = DOMAIN work[t].results
      BY <3>1
    <3> QED
      BY <3>2 DEF WrittenSoFar, Written, Answered
  <2> QED
    BY <2>1, <2>2 DEF AnswerInv, Answered
<1> QED
  BY <1>1, ReliableInductive, PTL
=============================================================================
