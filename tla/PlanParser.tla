----------------------------- MODULE PlanParser -----------------------------
(***************************************************************************)
(* From the text of a plan to its tasks: _parse_v2 with                    *)
(* _parse_task_metadata (wave_server/engine/plan_parser.py).               *)
(*                                                                         *)
(* A document is a sequence of lines, a line is told apart by the regular  *)
(* expression that it matches first.  Of the fields of a task only those   *)
(* that validation looks at are kept, of the texts none.                   *)
(***************************************************************************)
EXTENDS Naturals, Sequences, FiniteSets

Nowhere == <<"nowhere", 0>>

\* What lines can be: headings of waves and of their sections, of tasks, the
\* heading "## Goal" and others; the fields of a task, its description, a field
\* without a value; "Files:" as it is written for a feature, which claims them;
\* blank lines and anything else.
SectionHeading == {"foundation", "feature", "integration"}
Heading == SectionHeading \cup {"wave", "task", "goal", "heading"}
Field == {"depends", "files"}

\* Where the parser is: goal_next_line, the number of waves, current_section
\* (for a feature its name and a number of its own), current_task, if any,
\* whether it is in the loop over the lines of a task ("fields",
\* "description"); the features and the tasks of the plan.
Beginning ==
  [goal |-> FALSE, waves |-> 0, section |-> Nowhere, task |-> <<>>,
   mode |-> "outer", features |-> {}, tasks |-> <<>>]

Part(at) == <<at.waves>> \o at.section

\* flush_task: a task that stands in no section of a wave is dropped.
Flush(at) ==
  [at EXCEPT !.task = <<>>,
             !.tasks = IF at.section # Nowhere /\ at.waves > 0 THEN @ \o at.task ELSE @]

NewTask(at, line) ==
  [id |-> line.of, part |-> Part(at), depends |-> {}, files |-> {}]

\* A section goes on under a second heading, but a feature is a new one with
\* every heading, of a name that was there before too.
NewSection(at, line) ==
  IF line.is = "feature"
    THEN LET new == [at EXCEPT !.section = <<line.of, Cardinality(at.features) + 1>>]
         IN [new EXCEPT !.features = IF at.waves > 0 THEN @ \cup {Part(new)} ELSE @]
    ELSE [at EXCEPT !.section = <<line.is, 0>>]

Outer(at, line) ==
  CASE line.is = "goal" -> [at EXCEPT !.goal = TRUE]
    [] line.is # "goal" /\ at.goal -> [at EXCEPT !.goal = (line.is = "blank")]
    [] line.is = "wave" /\ ~at.goal ->
         [Flush(at) EXCEPT !.waves = @ + 1, !.section = Nowhere]
    [] line.is \in SectionHeading /\ ~at.goal -> NewSection(Flush(at), line)
    [] line.is = "task" /\ ~at.goal ->
         [Flush(at) EXCEPT !.task = <<NewTask(at, line)>>, !.mode = "fields"]
    [] OTHER -> at

\* The lines of a task: its fields, also in the middle of the description,
\* and the description up to the next heading.  Any other line ends them, a
\* blank one between two fields too.
\* Fault: a field ends the description for good.
Continues_FieldsOnly(at, line) == line.is \in Field /\ at.mode = "fields"

Continues(at, line) == line.is \in Field

Step(at, line) ==
  CASE at.mode # "outer" /\ Continues(at, line) ->
         [at EXCEPT !.mode = "fields", !.task[1][line.is] = line.of]
    [] at.mode # "outer" /\ ~Continues(at, line) /\ line.is = "description" ->
         [at EXCEPT !.mode = "description"]
    [] at.mode = "description" /\ ~Continues(at, line)
         /\ line.is \notin Heading \cup {"description", "stub"} -> at
    [] OTHER -> Outer([at EXCEPT !.mode = "outer"], line)

\* Where the parser is after n lines.
Place(document, n) ==
  LET After[m \in 0 .. n] ==
        IF m = 0 THEN Beginning ELSE Step(After[m - 1], document[m])
  IN After[n]

\* What parse_plan makes of a document: the number of waves, the features and
\* the tasks.
Parse(document) == Flush(Place(document, Len(document)))

\* The files of a feature: the last "Files:" line that is met in its section
\* before a task has begun.
FilesLines(document, f) ==
  {n \in {m \in 1 .. Len(document) : document[m].is = "claims"} :
     LET at == Place(document, n - 1)
     IN ~at.goal /\ at.task = <<>> /\ Part(at) = f}

FilesOf(document, f) ==
  LET L == FilesLines(document, f)
  IN IF L = {} THEN {} ELSE document[CHOOSE n \in L : \A k \in L : k <= n].of

\* extract_plan_section, extract_data_schemas: a section that the prompts are
\* made of is there if its heading is anywhere, even where the parser takes it
\* for the goal.
Required == {"structure", "schemas"}

Given(document) ==
  {s \in Required : \E n \in 1 .. Len(document) :
                      document[n].is = "heading" /\ document[n].of = s}

----------------------------------------------------------------------------
(* What a person reads in the same document.                               *)

\* The last line before line n that is one of S, 0 if there is none.
LastBefore(document, n, S) ==
  LET L == {m \in 1 .. n - 1 : document[m].is \in S}
  IN IF L = {} THEN 0 ELSE CHOOSE m \in L : \A k \in L : k <= m

WaveAt(document, n) == Cardinality({m \in 1 .. n - 1 : document[m].is = "wave"})

\* The lines that belong to the task whose heading is line n.
Block(document, n) ==
  {m \in n + 1 .. Len(document) : LastBefore(document, m + 1, Heading) = n}

\* The value of a field is given by its last line.
Value(document, n, field) ==
  LET F == {m \in Block(document, n) : document[m].is = field}
  IN IF F = {} THEN {} ELSE document[CHOOSE m \in F : \A k \in F : k <= m].of

TaskLines(document) == {n \in 1 .. Len(document) : document[n].is = "task"}

\* The section heading under which line n stands, 0 without one in its wave.
SectionLine(document, n) ==
  LET s == LastBefore(document, n, SectionHeading \cup {"wave"})
  IN IF s = 0 \/ document[s].is = "wave" THEN 0 ELSE s

ReadPart(document, s) ==
  <<WaveAt(document, s)>> \o
    IF document[s].is = "feature"
      THEN <<document[s].of, Cardinality({m \in 1 .. s : document[m].is = "feature"
                                                         /\ WaveAt(document, m) > 0})>>
      ELSE <<document[s].is, 0>>

ReadTask(document, n) ==
  [id      |-> document[n].of,
   part    |-> ReadPart(document, SectionLine(document, n)),
   depends |-> Value(document, n, "depends"),
   files   |-> Value(document, n, "files")]

ReadFeatures(document) ==
  {ReadPart(document, s) :
     s \in {m \in 1 .. Len(document) : document[m].is = "feature" /\ WaveAt(document, m) > 0}}

\* The tasks of a document: those in a section of a wave.
ReadLines(document) ==
  {n \in TaskLines(document) : WaveAt(document, n) > 0 /\ SectionLine(document, n) # 0}

\* How the format wants to be written: the fields of a task follow its heading
\* or each other without a line between them, or are in its description; none
\* is left empty; what follows "## Goal" is the goal.
Filled(document) == \A n \in 1 .. Len(document) : document[n].is # "stub"

Compact(document) ==
  \A n \in 1 .. Len(document) : document[n].is \in Field \cup {"description"} =>
    LET before == LastBefore(document, n, Heading \cup Field \cup {"description"})
    IN before > 0 =>
         \/ before = n - 1
         \/ document[before].is \in (Heading \ {"task"}) \cup {"description"}

GoalGiven(document) ==
  \A n \in 1 .. Len(document) : document[n].is = "goal" =>
    \E m \in n + 1 .. Len(document) :
      document[m].is = "text" /\ \A k \in n + 1 .. m - 1 : document[k].is = "blank"

WellWritten(document) == Filled(document) /\ Compact(document) /\ GoalGiven(document)
=============================================================================
