---------------------------- MODULE LearnerGraph ----------------------------
(***************************************************************************)
(* The learner graph of civica: a turn enters through route_input, runs    *)
(* the planner loop (start_turn, planner_model, planner_tools,             *)
(* fallback_lesson) and ends in memory_writer (graph/graph.py,             *)
(* graph/nodes.py, graph/planner.py).                                      *)
(*                                                                         *)
(* A conversation is a thread.  A node's updates are applied when the node *)
(* returns (work) and reach the checkpointer later, in the background      *)
(* (saved).  What nodes and tools write elsewhere is durable at once: the  *)
(* audit rows (trace), the retrieval gaps (gaps) and the long-term memory  *)
(* (memory).  The calls of one model reply run concurrently (inflight).    *)
(***************************************************************************)
EXTENDS Integers, Sequences

CONSTANTS
    Threads,           \* conversations (thread_id)
    Users,             \* learners
    UserOf,            \* the learner who owns each thread
    Keys,              \* memory keys, SUMMARY_KEY among them
    Replies,           \* sequences of tool calls one model reply may carry
    MAX_PLANNER_STEPS, \* model calls of one turn
    MaxInvocations,    \* bound of the model: invocations of one thread
    None               \* Python's None

Tools == {"suggest_review_theme", "read_learner_state", "retrieve_corpus",
          "teach", "generate_quiz", "record_outcome"}

MemoryKinds == {"learner_profile", "topic_mastery", "mistake_episode", "session_summary"}

PLANNER_WRITE_ALLOWLIST == {"mistake_episode", "session_summary"}

SUMMARY_KEY == "current"

\* record_outcome names a kind and a key, which the model makes up: the kind may
\* be no MemoryKind at all.
Call ==
    [tool : Tools \ {"record_outcome"}, kind : {None}, key : {None}]
    \cup [tool : {"record_outcome"}, kind : MemoryKinds \cup {"unknown"}, key : Keys]

ASSUME UserAssumption == UserOf \in [Threads -> Users]
ASSUME KeyAssumption == SUMMARY_KEY \in Keys
ASSUME ReplyAssumption == Replies \subseteq Seq(Call)
ASSUME StepAssumption == MAX_PLANNER_STEPS \in Nat \ {0}
ASSUME BoundAssumption == MaxInvocations \in Nat

Nodes == {"idle", "start_turn", "planner_model", "planner_tools",
          "fallback_lesson", "memory_writer", "done"}

HaltReason == {"final_message", "max_steps", "forbidden_write"}

\* How a tool call ends: with its answer, with nothing retrieved, with an
\* error message for the model, refused by the allowlist, or by an exception
\* the tool node does not handle.
Results == {"ok", "empty", "error", "refused", "raised"}

VARIABLES
    work,        \* the state of each thread after the last node that returned
    saved,       \* the checkpoint a later invocation of the thread starts from
    running,     \* whether an invocation of the thread is executing
    invocations, \* invocations of the thread so far
    inflight,    \* progress of the node that is executing, lost in a crash
    trace,       \* planner_trace, the rows of each thread in insertion order
    gaps,        \* how often each thread appended to retrieval_gaps
    memory       \* the long-term store

vars == <<work, saved, running, invocations, inflight, trace, gaps, memory>>
durable == <<trace, gaps, memory>>

-----------------------------------------------------------------------------
(* Data *)

\* A lesson and a quiz are known by the step that produced them.
Lesson == [turn_id : Nat, step_index : Nat, grounded : BOOLEAN]
QuizOf == [turn_id : Nat, step_index : Nat]

\* last_ai holds the calls of the newest model reply, results the outcomes of
\* the tool messages that answered earlier ones.
PlannerState ==
    [node        : Nodes,
     turn_id     : Nat,
     model_calls : 0 .. MAX_PLANNER_STEPS,
     tool_calls  : Seq(Call),
     last_ai     : Seq(Call),
     results     : Seq(Results),
     halt_reason : HaltReason \cup {"none"},
     lesson      : Lesson \cup {None},
     quiz        : QuizOf \cup {None}]

Blank ==
    [node |-> "idle", turn_id |-> 0, model_calls |-> 0, tool_calls |-> <<>>,
     last_ai |-> <<>>, results |-> <<>>, halt_reason |-> "none",
     lesson |-> None, quiz |-> None]

TraceStep ==
    [turn_id     : Nat,
     step_index  : Nat,
     call        : Call \cup {None},
     halt_reason : HaltReason \cup {"none"}]

StepRow(s, i, call) ==
    [turn_id |-> s.turn_id, step_index |-> i, call |-> call, halt_reason |-> "none"]

TerminalRow(s, reason) ==
    [turn_id |-> s.turn_id, step_index |-> Len(s.tool_calls),
     call |-> None, halt_reason |-> reason]

\* The part of memory_writer's text that depends on the turn.
RecapText ==
    [lesson : {"none", "theme", "no_material"}, quiz : BOOLEAN,
     ended_early : HaltReason \cup {"none"}]

Recap(s) ==
    [lesson      |-> IF s.lesson = None THEN "none"
                     ELSE IF s.lesson.grounded THEN "theme" ELSE "no_material",
     quiz        |-> s.quiz # None,
     ended_early |-> IF s.halt_reason = "final_message" THEN "none" ELSE s.halt_reason]

\* A record of the store: who wrote it, and for a summary of memory_writer
\* what it recaps.
MemoryRecord ==
    [thread : Threads, turn_id : Nat, step_index : Nat, recap : RecapText \cup {None}]

ASSUME NoneAssumption ==
    /\ None \notin Call /\ None \notin RecapText /\ None \notin Lesson
    /\ None \notin QuizOf /\ None \notin MemoryRecord

\* The results a call may end with; any may be answered with an error, for
\* arguments or a value that do not validate.
ResultsOf(call) ==
    {"error"} \cup
    CASE call.tool = "record_outcome" ->
           IF call.kind \in PLANNER_WRITE_ALLOWLIST THEN {"ok"} ELSE {"refused"}
      [] call.tool \in {"retrieve_corpus", "teach", "generate_quiz"} -> {"ok", "empty"}
      [] OTHER -> {"ok"}

\* Mutant: the position counted from the first call of the reply.
StepIndexInReply(s, p) == p - 1

\* trace_and_guard: position of the call counted from the first call of the turn.
StepIndex(s, p) == Len(s.tool_calls) - Len(s.last_ai) + (p - 1)

\* Mutant: the tool node runs its calls without a row.
LaunchTraced(s) ==
    IF s.node = "planner_tools" THEN [p \in DOMAIN s.last_ai |-> "traced"] ELSE <<>>

\* A node that starts has made no progress; each call of planner_tools waits.
Launch(s) ==
    IF s.node = "planner_tools" THEN [p \in DOMAIN s.last_ai |-> "waiting"] ELSE <<>>

Commit(t, s) == work' = [work EXCEPT ![t] = s]
Progress(t, f) == inflight' = [inflight EXCEPT ![t] = f]
RecordStep(t, row) == trace' = [trace EXCEPT ![t] = Append(@, row)]

\* An append to retrieval_gaps, whose rows name a theme and a query and no turn.
RecordGap(t) == gaps' = [gaps EXCEPT ![t] = @ + 1]

\* Mutant: an insert that leaves a record that is there.
PutOnce(t, kind, key, record) ==
    memory' = [memory EXCEPT ![UserOf[t]] =
                 [@ EXCEPT ![<<kind, key>>] = IF @ = None THEN record ELSE @]]

Put(t, kind, key, record) ==
    memory' = [memory EXCEPT ![UserOf[t]] = [@ EXCEPT ![<<kind, key>>] = record]]

-----------------------------------------------------------------------------
(* Invocations *)

Init ==
    /\ work = [t \in Threads |-> Blank]
    /\ saved = [t \in Threads |-> Blank]
    /\ running = [t \in Threads |-> FALSE]
    /\ invocations = [t \in Threads |-> 0]
    /\ inflight = [t \in Threads |-> <<>>]
    /\ trace = [t \in Threads |-> <<>>]
    /\ gaps = [t \in Threads |-> 0]
    /\ memory = [u \in Users |-> [slot \in MemoryKinds \X Keys |-> None]]

Invoke(t, s) ==
    /\ ~running[t]
    /\ invocations[t] < MaxInvocations
    /\ running' = [running EXCEPT ![t] = TRUE]
    /\ invocations' = [invocations EXCEPT ![t] = @ + 1]
    /\ Commit(t, s)
    /\ Progress(t, Launch(s))
    /\ UNCHANGED <<saved, durable>>

\* A learner's message starts a turn; one that failed before it ended is abandoned.
Submit(t) == Invoke(t, [work[t] EXCEPT !.node = "start_turn"])

\* Mutant: the thread goes on with the calls of its last reply.
ResumeReplays(t) ==
    /\ saved[t].node \in {"planner_model", "planner_tools"}
    /\ Invoke(t, [saved[t] EXCEPT !.node = "planner_tools"])

\* invoke(None): the thread goes on at the node its checkpoint names.
Resume(t) ==
    /\ saved[t].node \notin {"idle", "done"}
    /\ Invoke(t, saved[t])

\* The background write of the newest checkpoint.
Persist(t) ==
    /\ running[t]
    /\ saved[t] # work[t]
    /\ saved' = [saved EXCEPT ![t] = work[t]]
    /\ UNCHANGED <<work, running, invocations, inflight, durable>>

\* An invocation that ends waits for its checkpoint.
Leave(t) ==
    /\ running' = [running EXCEPT ![t] = FALSE]
    /\ saved' = [saved EXCEPT ![t] = work[t]]
    /\ Progress(t, <<>>)
    /\ UNCHANGED <<work, invocations, durable>>

Return(t) ==
    /\ running[t]
    /\ work[t].node = "done"
    /\ Leave(t)

-----------------------------------------------------------------------------
(* Nodes *)

At(t, node) == running[t] /\ work[t].node = node

\* Mutant: the calls and the lesson of the last turn stay.
StartTurnKeepsState(t) ==
    /\ At(t, "start_turn")
    /\ Commit(t, [work[t] EXCEPT !.node = "planner_model", !.turn_id = invocations[t],
                                 !.model_calls = 0, !.halt_reason = "none"])
    /\ UNCHANGED <<saved, running, invocations, inflight, durable>>

\* The turn id is fresh; an invocation runs start_turn at most once.
StartTurn(t) ==
    /\ At(t, "start_turn")
    /\ Commit(t, [Blank EXCEPT !.node = "planner_model", !.turn_id = invocations[t]])
    /\ UNCHANGED <<saved, running, invocations, inflight, durable>>

\* planner_model, with a reply that carries no tool call.
FinalMessage(t) ==
    /\ At(t, "planner_model")
    /\ <<>> \in Replies
    /\ RecordStep(t, TerminalRow(work[t], "final_message"))
    /\ Commit(t, [work[t] EXCEPT !.model_calls = @ + 1, !.last_ai = <<>>,
                                 !.halt_reason = "final_message", !.node = "memory_writer"])
    /\ UNCHANGED <<saved, running, invocations, inflight, gaps, memory>>

\* Mutant: one model call too many.
OutOfStepsLate(s) == s.model_calls + 1 > MAX_PLANNER_STEPS

OutOfSteps(s) == s.model_calls + 1 >= MAX_PLANNER_STEPS

\* planner_model, with tool calls in the last reply the turn may ask for.
StepLimit(t, calls) ==
    /\ At(t, "planner_model")
    /\ calls # <<>>
    /\ OutOfSteps(work[t])
    /\ Commit(t, [work[t] EXCEPT !.model_calls = @ + 1, !.last_ai = calls,
                                 !.halt_reason = "max_steps", !.node = "fallback_lesson"])
    /\ UNCHANGED <<saved, running, invocations, inflight, durable>>

\* planner_model, with tool calls to run.
AskTools(t, calls) ==
    LET s == [work[t] EXCEPT !.model_calls = @ + 1, !.last_ai = calls,
                             !.tool_calls = @ \o calls, !.node = "planner_tools"]
    IN  /\ At(t, "planner_model")
        /\ calls # <<>>
        /\ ~OutOfSteps(work[t])
        /\ Commit(t, s)
        /\ Progress(t, Launch(s))
        /\ UNCHANGED <<saved, running, invocations, durable>>

Stage(t, p, stage) ==
    /\ At(t, "planner_tools")
    /\ p \in DOMAIN inflight[t]
    /\ inflight[t][p] = stage

Advance(t, p, stage) == Progress(t, [inflight[t] EXCEPT ![p] = stage])

\* trace_and_guard writes the row of a call before it runs the call.
TraceCall(t, p) ==
    /\ Stage(t, p, "waiting")
    /\ RecordStep(t, StepRow(work[t], StepIndex(work[t], p), work[t].last_ai[p]))
    /\ Advance(t, p, "traced")
    /\ UNCHANGED <<work, saved, running, invocations, gaps, memory>>

RunCall(t, p) ==
    LET call == work[t].last_ai[p]
        i == StepIndex(work[t], p)
    IN  /\ Stage(t, p, "traced")
        /\ \E result \in ResultsOf(call) :
              /\ Advance(t, p, result)
              /\ IF result = "empty" THEN RecordGap(t) ELSE UNCHANGED gaps
              /\ IF call.tool = "record_outcome" /\ result = "ok"
                   THEN Put(t, call.kind, call.key,
                            [thread |-> t, turn_id |-> work[t].turn_id,
                             step_index |-> i, recap |-> None])
                   ELSE UNCHANGED memory
        /\ UNCHANGED <<work, saved, running, invocations, trace>>

\* The positions whose call put a lesson, or a quiz, in the state.
Taught(calls, results) ==
    {p \in DOMAIN results : calls[p].tool = "teach" /\ results[p] \in {"ok", "empty"}}
Quizzed(calls, results) ==
    {p \in DOMAIN results : calls[p].tool = "generate_quiz" /\ results[p] = "ok"}

Last(positions) == CHOOSE p \in positions : \A q \in positions : q <= p

LessonAt(s, p, results) ==
    [turn_id |-> s.turn_id, step_index |-> StepIndex(s, p), grounded |-> results[p] = "ok"]

\* Mutant: the first lesson of the reply wins.
LessonOfFirst(s, results) ==
    LET taught == Taught(s.last_ai, results)
    IN  IF taught = {} THEN s.lesson
        ELSE LessonAt(s, CHOOSE p \in taught : \A q \in taught : p <= q, results)

\* _last_wins
LessonOf(s, results) ==
    LET taught == Taught(s.last_ai, results)
    IN  IF taught = {} THEN s.lesson ELSE LessonAt(s, Last(taught), results)

\* Mutant: a refusal before an allowed call is lost.
RefusesLast(results) == results # <<>> /\ results[Len(results)] = "refused"

Refuses(results) == \E p \in DOMAIN results : results[p] = "refused"

\* Mutant: a refusal answers every call of its reply.
AfterToolsRefused(s, results) ==
    [s EXCEPT
      !.results = @ \o [p \in DOMAIN results |-> IF Refuses(results) THEN "refused"
                                               ELSE results[p]],
      !.lesson  = LessonOf(s, results),
      !.halt_reason = IF Refuses(results) THEN "forbidden_write" ELSE @,
      !.node    = IF Refuses(results) THEN "fallback_lesson" ELSE "planner_model"]

\* The tool node applies the updates of its calls in the order the reply lists
\* them, whatever order they ended in, so the last one wins.
AfterTools(s, results) ==
    LET quizzed == Quizzed(s.last_ai, results)
    IN  [s EXCEPT
          !.results = @ \o results,
          !.lesson  = LessonOf(s, results),
          !.quiz    = IF quizzed = {} THEN @
                      ELSE [turn_id |-> s.turn_id, step_index |-> StepIndex(s, Last(quizzed))],
          !.halt_reason = IF Refuses(results) THEN "forbidden_write" ELSE @,
          !.node    = IF Refuses(results) THEN "fallback_lesson" ELSE "planner_model"]

Ended(t) == \A p \in DOMAIN inflight[t] : inflight[t][p] \in Results

ToolsReturn(t) ==
    /\ At(t, "planner_tools")
    /\ \A p \in DOMAIN inflight[t] : inflight[t][p] \in Results \ {"raised"}
    /\ Commit(t, AfterTools(work[t], inflight[t]))
    /\ Progress(t, <<>>)
    /\ UNCHANGED <<saved, running, invocations, durable>>

\* fallback_lesson teaches first; a lesson without passages is logged as a gap.
FallbackTeach(t) ==
    /\ At(t, "fallback_lesson")
    /\ inflight[t] = <<>>
    /\ \E result \in {"ok", "empty"} :
          /\ Progress(t, <<result>>)
          /\ IF result = "empty" THEN RecordGap(t) ELSE UNCHANGED gaps
    /\ UNCHANGED <<work, saved, running, invocations, trace, memory>>

FallbackReply(t) ==
    LET s == work[t]
    IN  /\ At(t, "fallback_lesson")
        /\ inflight[t] # <<>>
        /\ RecordStep(t, TerminalRow(s, s.halt_reason))
        /\ Commit(t, [s EXCEPT !.lesson = [turn_id |-> s.turn_id,
                                           step_index |-> Len(s.tool_calls),
                                           grounded |-> inflight[t][1] = "ok"],
                               !.node = "memory_writer"])
        /\ Progress(t, <<>>)
        /\ UNCHANGED <<saved, running, invocations, gaps, memory>>

MemoryWriter(t) ==
    LET s == work[t]
    IN  /\ At(t, "memory_writer")
        /\ Put(t, "session_summary", SUMMARY_KEY,
               [thread |-> t, turn_id |-> s.turn_id,
                step_index |-> Len(s.tool_calls), recap |-> Recap(s)])
        /\ Commit(t, [s EXCEPT !.node = "done"])
        /\ UNCHANGED <<saved, running, invocations, inflight, trace, gaps>>

-----------------------------------------------------------------------------
(* Failures *)

\* A trace insert or a tool raises something the tool node does not handle;
\* the reply's other calls still run to their end.
CallRaises(t, p) ==
    /\ Stage(t, p, "waiting") \/ Stage(t, p, "traced")
    /\ Advance(t, p, "raised")
    /\ UNCHANGED <<work, saved, running, invocations, durable>>

\* Mutant: the tool node fails only when every call raised.
FailOfEvery(t) ==
    /\ running[t]
    /\ \/ work[t].node \in {"planner_model", "fallback_lesson", "memory_writer"}
       \/ /\ work[t].node = "planner_tools"
          /\ \A p \in DOMAIN inflight[t] : inflight[t][p] = "raised"
    /\ Leave(t)

\* An exception leaves a node: none of its updates is applied, what it wrote stays.
Fail(t) ==
    /\ running[t]
    /\ \/ work[t].node \in {"planner_model", "fallback_lesson", "memory_writer"}
       \/ /\ work[t].node = "planner_tools"
          /\ Ended(t)
          /\ \E p \in DOMAIN inflight[t] : inflight[t][p] = "raised"
    /\ Leave(t)

\* The process dies, with every invocation in it; only checkpoints remain.
Crash ==
    /\ \E t \in Threads : running[t]
    /\ running' = [t \in Threads |-> FALSE]
    /\ work' = saved
    /\ inflight' = [t \in Threads |-> <<>>]
    /\ UNCHANGED <<saved, invocations, durable>>

-----------------------------------------------------------------------------
(* Specifications *)

PlannerModel(t) ==
    \/ FinalMessage(t)
    \/ \E calls \in Replies : StepLimit(t, calls) \/ AskTools(t, calls)

PlannerTools(t) ==
    \/ \E p \in DOMAIN inflight[t] : TraceCall(t, p) \/ RunCall(t, p)
    \/ ToolsReturn(t)

TurnStep(t) ==
    \/ StartTurn(t)
    \/ PlannerModel(t)
    \/ PlannerTools(t)
    \/ FallbackTeach(t)
    \/ FallbackReply(t)
    \/ MemoryWriter(t)
    \/ Return(t)

Failure(t) ==
    \/ Resume(t)
    \/ Fail(t)
    \/ \E p \in DOMAIN inflight[t] : CallRaises(t, p)

\* Turns whose nodes all return.
ReliableNext == \E t \in Threads : Submit(t) \/ TurnStep(t) \/ Persist(t)

Next ==
    \/ \E t \in Threads : Submit(t) \/ TurnStep(t) \/ Persist(t) \/ Failure(t)
    \/ Crash

ReliableSpec == Init /\ [][ReliableNext]_vars
Spec == Init /\ [][Next]_vars

\* A node that is executing ends: its model call, its retrievals and its
\* statements return or raise.
Fairness == \A t \in Threads : WF_vars(TurnStep(t) \/ Fail(t))

FairSpec == Spec /\ Fairness
-----------------------------------------------------------------------------
(* Properties *)

\* The shapes of the state; a turn never counts more than MAX_PLANNER_STEPS
\* model calls.
TypeOK ==
    /\ work \in [Threads -> PlannerState]
    /\ saved \in [Threads -> PlannerState]
    /\ running \in [Threads -> BOOLEAN]
    /\ invocations \in [Threads -> Nat]
    /\ inflight \in [Threads -> Seq(Results \cup {"waiting", "traced"})]
    /\ trace \in [Threads -> Seq(TraceStep)]
    /\ gaps \in [Threads -> Nat]
    /\ memory \in [Users -> [MemoryKinds \X Keys -> MemoryRecord \cup {None}]]

Traced(rows, row) == \E k \in DOMAIN rows : rows[k] = row
Answered(s) == s.node \in {"memory_writer", "done"}

\* The tools of a reply that reached the step limit never run: whenever tools
\* run, the turn may still call the model (nodes.py, MAX_PLANNER_STEPS).
ToolsLeaveAModelCall ==
    \A t \in Threads :
        work[t].node = "planner_tools" => work[t].model_calls < MAX_PLANNER_STEPS

CoversAnswers(rows, s) ==
    \A i \in DOMAIN s.results : Traced(rows, StepRow(s, i - 1, s.tool_calls[i]))

\* The audit log covers the turn, crashes and resumes included: each call whose
\* answer the turn holds has the row of its own index, and an answered turn has
\* its terminal row (trace_and_guard, _step).
TraceCoversTurn ==
    \A t \in Threads :
        /\ CoversAnswers(trace[t], work[t])
        /\ Answered(work[t]) => Traced(trace[t], TerminalRow(work[t], work[t].halt_reason))

RowsOf(rows, turn) == {k \in DOMAIN rows : rows[k].turn_id = turn}

\* The rows of an answered turn are numbered from 0, one for each call and the
\* terminal one last, whatever order concurrent calls wrote them in
\* (schema.sql, "Each turn ends in one row with a halt_reason and no tool").
TraceNumbersTurn ==
    \A t \in Threads : LET s == work[t]
                            rows == RowsOf(trace[t], s.turn_id) IN
        Answered(s) =>
            /\ \A i \in 0 .. Len(s.tool_calls) :
                  \E k \in rows : /\ trace[t][k].step_index = i
                                 /\ \A j \in rows \ {k} : trace[t][j].step_index # i
            /\ \A k \in rows : trace[t][k].step_index \in 0 .. Len(s.tool_calls)
            /\ trace[t][Last(rows)] = TerminalRow(s, s.halt_reason)

\* A turn has one terminal row at most (schema.sql, "Each turn ends in one row
\* with a halt_reason and no tool").
OneTerminalRow ==
    \A t \in Threads : \A j, k \in DOMAIN trace[t] :
        /\ trace[t][j].turn_id = trace[t][k].turn_id
        /\ trace[t][j].halt_reason # "none"
        /\ trace[t][k].halt_reason # "none"
        => j = k

\* The row of the call that wrote record r under slot, or the terminal row of
\* the turn that r recaps.
WriteTraced(rows, slot, r) ==
    \E k \in DOMAIN rows :
        /\ rows[k].turn_id = r.turn_id
        /\ rows[k].step_index = r.step_index
        /\ IF r.recap = None
             THEN rows[k].call # None /\ <<rows[k].call.kind, rows[k].call.key>> = slot
             ELSE rows[k].halt_reason # "none"

\* No memory write without its audit row: the call that wrote a record was traced
\* before, and a summary of memory_writer follows its turn's terminal row
\* (trace_and_guard writes the row before it executes the call).
WritesAreTraced ==
    \A u \in Users : \A slot \in MemoryKinds \X Keys :
        memory[u][slot] # None =>
            WriteTraced(trace[memory[u][slot].thread], slot, memory[u][slot])

Refused(s) == \E i \in DOMAIN s.results : s.results[i] = "refused"

HaltCause(s) ==
    CASE s.halt_reason = "forbidden_write" -> Refused(s)
      [] s.halt_reason = "max_steps" ->
            ~Refused(s) /\ s.model_calls = MAX_PLANNER_STEPS /\ s.last_ai # <<>>
      [] s.halt_reason = "final_message" -> ~Refused(s) /\ s.last_ai = <<>>
      [] OTHER -> FALSE

\* The reason a turn ended is what happened in it: forbidden_write exactly when
\* a call was refused, max_steps only with the last model call spent and asking
\* for tools, final_message only with a reply that asked for none (nodes.py).
HaltHasItsCause == \A t \in Threads : Answered(work[t]) => HaltCause(work[t])

\* The lesson of an answered turn belongs to that turn: of the last call that
\* taught, whichever of its reply's calls ended last, or the fallback's when the
\* turn ended early (ToolNode, _last_wins, fallback_lesson).
LessonIsTheLastTaught ==
    \A t \in Threads : LET s == work[t]
                            taught == Taught(s.tool_calls, s.results) IN
        Answered(s) =>
            /\ s.quiz # None => s.quiz.turn_id = s.turn_id
            /\ s.lesson # None => s.lesson.turn_id = s.turn_id
            /\ IF s.halt_reason = "final_message" /\ taught = {}
                 THEN s.lesson = None
                 ELSE /\ s.lesson # None
                      /\ s.lesson.step_index = IF s.halt_reason = "final_message"
                                               THEN Last(taught) - 1
                                               ELSE Len(s.tool_calls)

\* A call that asks to write under a slot of the memory.
Outcome(slot) == [tool |-> "record_outcome", kind |-> slot[1], key |-> slot[2]]

\* The calls that a turn holds as answered with a write to a slot of the memory.
Written(s, slot) ==
    {i \in DOMAIN s.results : s.results[i] = "ok" /\ s.tool_calls[i] = Outcome(slot)}

\* A record that a tool call of the turn wrote.
WrittenBy(t, s, r) == r # None /\ r.thread = t /\ r.turn_id = s.turn_id /\ r.recap = None

\* What the calls of a turn wrote is what their answers say, in both directions, also
\* of the calls that ran next to one that was refused and so ended the turn: a record
\* of the turn is of a call answered with "ok", and such a call has left a record that
\* only a later write replaced (trace_and_guard, handle_tool_errors, put_planner).
WritesAreAnswered ==
    \A t \in Threads : \A slot \in MemoryKinds \X Keys :
        LET s == work[t]
            r == memory[UserOf[t]][slot]
        IN  Answered(s) =>
              /\ WrittenBy(t, s, r) => r.step_index + 1 \in Written(s, slot)
              /\ Written(s, slot) # {} => r # None /\ (r.thread = t => r.turn_id = s.turn_id)

\* When no turn of a learner is open, the session summary recaps the turn that
\* one of the learner's threads ended with, although the planner of another
\* thread may write under the same key (memory_writer, SUMMARY_KEY).
QuietSummaryRecapsATurn ==
    \A u \in Users : LET mine == {t \in Threads : UserOf[t] = u} IN
        /\ \A t \in mine : ~running[t] /\ work[t].node \in {"idle", "done"}
        /\ \E t \in mine : work[t].node = "done"
        => LET r == memory[u][<<"session_summary", SUMMARY_KEY>>] IN
           \E t \in mine : /\ work[t].node = "done"
                           /\ r = [thread |-> t, turn_id |-> work[t].turn_id,
                                   step_index |-> Len(work[t].tool_calls),
                                   recap |-> Recap(work[t])]

\* Once the answers of a reply's calls are in a checkpoint, no invocation
\* traces, and so runs, these calls again (README, "Progress is checkpointed
\* after every tool step so that a crash can resume mid-turn").
CheckpointedCallsStayDone ==
    [][\A t \in Threads : trace'[t] # trace[t] =>
          LET row == trace'[t][Len(trace'[t])] IN
          row.turn_id = saved[t].turn_id => row.step_index >= Len(saved[t].results)]_trace

\* An invocation comes to its end: the planner loop is bounded and no step of
\* a turn waits for another turn.
TurnEnds == \A t \in Threads : running[t] ~> ~running[t]

-----------------------------------------------------------------------------
(* The inductive invariant *)

\* What holds of a state at a node boundary, in memory or in the checkpoint,
\* given the rows of its thread.
StateInv(rows, s) ==
    /\ s.node \in {"planner_model", "planner_tools"} =>
          s.model_calls < MAX_PLANNER_STEPS /\ s.halt_reason = "none" /\ ~Refused(s)
    /\ s.node = "planner_tools" =>
          /\ Len(s.tool_calls) = Len(s.results) + Len(s.last_ai)
          /\ \A p \in DOMAIN s.last_ai : s.tool_calls[Len(s.results) + p] = s.last_ai[p]
    /\ s.node \notin {"planner_tools", "start_turn"} => Len(s.tool_calls) = Len(s.results)
    /\ s.node = "fallback_lesson" => s.halt_reason # "final_message" /\ HaltCause(s)
    /\ Answered(s) => HaltCause(s) /\ Traced(rows, TerminalRow(s, s.halt_reason))
    /\ CoversAnswers(rows, s)

\* What holds of the calls that run: each has its row unless it waits or raised.
FlightInv(rows, s, flight) ==
    s.node = "planner_tools" =>
        /\ DOMAIN flight = DOMAIN s.last_ai
        /\ \A p \in DOMAIN flight : flight[p] \notin {"waiting", "raised"} =>
              Traced(rows, StepRow(s, StepIndex(s, p), s.last_ai[p]))

\* Turn ids are the invocations that started them; the checkpoint of the turn
\* in progress holds no more answers than the turn.
TurnInv(w, c, run, count) ==
    /\ c.turn_id <= count /\ w.turn_id <= count
    /\ run /\ w.node = "start_turn" => c.turn_id < count /\ w.turn_id < count
    /\ c.turn_id = w.turn_id => Len(c.results) <= Len(w.results)
    /\ ~run => w = c

ThreadInv(t) ==
    /\ StateInv(trace[t], work[t])
    /\ StateInv(trace[t], saved[t])
    /\ running[t] => FlightInv(trace[t], work[t], inflight[t])
    /\ TurnInv(work[t], saved[t], running[t], invocations[t])

\* The inductive invariant behind the theorems: the types, and what ties the
\* state of a thread to its audit rows, to its checkpoint and to the memory.
IInv == TypeOK /\ (\A t \in Threads : ThreadInv(t)) /\ WritesAreTraced

\* The lesson and the quiz of a state at a node boundary are of its turn, and the
\* lesson is the fallback's or that of the last answered call that taught.
LessonInv(s) ==
    s.node # "start_turn" =>
        /\ s.quiz # None => s.quiz.turn_id = s.turn_id
        /\ s.lesson # None => s.lesson.turn_id = s.turn_id
        /\ LET taught == Taught(s.tool_calls, s.results) IN
           IF Answered(s) /\ s.halt_reason # "final_message"
             THEN s.lesson # None /\ s.lesson.step_index = Len(s.tool_calls)
             ELSE IF taught = {} THEN s.lesson = None
             ELSE s.lesson # None /\ s.lesson.step_index = Last(taught) - 1

\* Before the tools run, no calls are in flight.
LessonThread(t) ==
    /\ LessonInv(work[t])
    /\ LessonInv(saved[t])
    /\ running[t] /\ work[t].node \in {"start_turn", "planner_model"} => inflight[t] = <<>>

\* What IInv is strengthened with for the lessons.
LInv == \A t \in Threads : LessonThread(t)

\* The steps of its turn that a state at a node, with this progress, has rows of.
Numbered(s, flight) ==
    CASE s.node = "planner_tools" ->
           {i \in 0 .. Len(s.tool_calls) - 1 :
               i < Len(s.results) \/ flight[i - Len(s.results) + 1] # "waiting"}
      [] Answered(s) -> 0 .. Len(s.tool_calls)
      [] OTHER -> 0 .. Len(s.tool_calls) - 1

\* While every node returns, these steps have one row each, the terminal row is the
\* turn's last, and no row is of a later turn.
NumberInv(rows, s, flight) ==
    LET mine == RowsOf(rows, s.turn_id) IN
    /\ \A k \in DOMAIN rows : rows[k].turn_id <= s.turn_id
    /\ s.node \notin {"idle", "start_turn"} =>
          /\ \A j, k \in mine : rows[j].step_index = rows[k].step_index => j = k
          /\ {rows[k].step_index : k \in mine} = Numbered(s, flight)
    /\ Answered(s) => rows[Last(mine)] = TerminalRow(s, s.halt_reason)

\* The summary recaps a turn that a thread ended with, unless some thread is in one.
SummaryInv(u) ==
    LET mine == {t \in Threads : UserOf[t] = u} IN
    /\ \A t \in mine : work[t].node \in {"idle", "done"}
    /\ \E t \in mine : work[t].node = "done"
    => \E t \in mine :
          /\ work[t].node = "done"
          /\ memory[u][<<"session_summary", SUMMARY_KEY>>]
               = [thread |-> t, turn_id |-> work[t].turn_id,
                  step_index |-> Len(work[t].tool_calls), recap |-> Recap(work[t])]

\* The calls of a turn that wrote to a slot, answered or still in flight.
WrittenSoFar(s, flight, slot) ==
    {i \in DOMAIN s.tool_calls :
        /\ s.tool_calls[i] = Outcome(slot)
        /\ IF i \in DOMAIN s.results THEN s.results[i] = "ok"
             ELSE s.node = "planner_tools" /\ flight[i - Len(s.results)] = "ok"}

\* What a slot of its learner's memory, with this record, owes to a thread at a node.
AnswerInv(t, s, flight, slot, r) ==
    LET written == WrittenSoFar(s, flight, slot) IN
    /\ r # None /\ r.thread = t => r.turn_id <= s.turn_id
    /\ s.node \notin {"idle", "start_turn"} =>
          /\ WrittenBy(t, s, r) => r.step_index + 1 \in written
          /\ written # {} => r # None /\ (r.thread = t => r.turn_id = s.turn_id)

ThreadAnswers(t) ==
    \A slot \in MemoryKinds \X Keys :
        AnswerInv(t, work[t], inflight[t], slot, memory[UserOf[t]][slot])

\* What IInv is strengthened with where every node returns.
RInv ==
    /\ \A t \in Threads : NumberInv(trace[t], work[t], inflight[t])
    /\ \A u \in Users : SummaryInv(u)
    /\ \A t \in Threads : ThreadAnswers(t)
=============================================================================
