--------------------------- MODULE PlanValidation ---------------------------
(***************************************************************************)
(* What makes a plan executable: wave_server/engine/dag.py, validate_plan  *)
(* with validate_dag (Kahn's algorithm), build_dag, by which               *)
(* execute_feature arranges the tasks of a feature in levels, and          *)
(* compute_dirty_closure, by which a rerun finds the tasks to repeat.      *)
(*                                                                         *)
(* The plan comes from a document by PlanParser, as in the preflight of an *)
(* execution.  Its entries are the tasks as they are written down, so that *)
(* two of them can have the same id.  A dependency is listed once.         *)
(***************************************************************************)
EXTENDS PlanParser, Integers

CONSTANTS
  Ids,       \* task ids, those of no task included
  Files,     \* the files that tasks, or their features, declare to write
  MaxWaves,  \* bound on the waves of a document
  Documents  \* the plans as they are written

\* What is written in the lines: the id of a task, the values of its fields,
\* of which a document has finitely many; and how many waves they make.
ASSUME DocumentsAssumption ==
  \A d \in Documents :
    /\ d \in Seq({d[n] : n \in DOMAIN d})
    /\ \A n \in DOMAIN d :
         /\ d[n].is = "task" => d[n].of \in Ids
         /\ d[n].is = "depends" => d[n].of \subseteq Ids /\ IsFiniteSet(d[n].of)
         /\ d[n].is \in {"files", "claims"} => d[n].of \subseteq Files
    /\ WaveAt(d, Len(d) + 1) <= MaxWaves
ASSUME WavesAssumption == MaxWaves \in Nat

VARIABLES
  document,  \* what was uploaded
  plan,      \* what was made of it: its waves, features and tasks, the files of
             \* the features, and which of the required sections it has
  stage,     \* how far the preflight, or a rerun after it, has come
  todo,      \* sections that are still to be looked at
  section,   \* the one that is being sorted
  inDegree,  \* in_degree, per id
  queue,     \* ids without a dependency that is not sorted; ids to walk from
  sorted,    \* sorted_count
  errors,    \* what was found wrong, as <<kind, section>>
  level,     \* of each entry, -1 while it has none
  rerun,     \* the tasks selected for a rerun
  dirty,     \* those that have to run again
  wave       \* the wave whose tasks are walked

kahn == <<section, inDegree, sorted>>
closure == <<rerun, dirty, wave>>
vars == <<document, plan, stage, todo, queue, kahn, errors, level, closure>>

\* The sections of the waves, and those of them that are features.
FeatureParts == plan.features
Parts == FeatureParts \cup ((1 .. plan.waves) \X {"foundation", "integration"} \X {0})

task == plan.tasks
Entries(s) == {x \in DOMAIN task : task[x].part = s}
EntriesOf(w) == {x \in DOMAIN task : task[x].part[1] = w}
IdsOf(X) == {task[x].id : x \in X}

NoPart == <<0>> \o Nowhere

Stages == {"parse", "wave", "section", "kahn", "levels", "accepted", "rejected",
           "walk", "closed"}

ErrorKinds ==
  {"duplicate", "files", "names", "elsewhere", "cycle", "waves"} \cup Required

TypeOK ==
  /\ plan.waves \in 0 .. MaxWaves
  /\ plan.files \in [plan.features -> SUBSET Files]
  /\ plan.given \subseteq Required
  /\ \A x \in DOMAIN task :
       task[x].id \in Ids /\ task[x].part \in Parts
         /\ task[x].depends \subseteq Ids /\ task[x].files \subseteq Files
  /\ stage \in Stages
  /\ todo \subseteq Parts
  /\ section \in Parts \cup {NoPart}
  /\ inDegree \in [Ids -> Int]
  /\ queue \subseteq Ids
  /\ sorted \in Nat
  /\ stage = "kahn" =>
       sorted + Cardinality(queue) <= Cardinality(IdsOf(Entries(section)))
  /\ errors \subseteq ErrorKinds \X (Parts \cup {NoPart})
  /\ level \in [DOMAIN task -> Nat \cup {-1}]
  /\ rerun \subseteq Ids /\ dirty \subseteq Ids
  /\ wave \in 0 .. MaxWaves + 1

Plan(at, d) ==
  [waves |-> at.waves, features |-> at.features, tasks |-> at.tasks,
   files |-> [f \in at.features |-> FilesOf(d, f)], given |-> Given(d)]

Init ==
  /\ document \in Documents
  /\ plan = Plan(Beginning, <<>>)
  /\ stage = "parse"
  /\ todo = {} /\ queue = {}
  /\ section = NoPart /\ inDegree = [i \in Ids |-> 0] /\ sorted = 0
  /\ errors = {}
  /\ level = <<>>
  /\ rerun = {} /\ dirty = {} /\ wave = 0

ParsePlan ==
  /\ stage = "parse"
  /\ stage' = "wave"
  /\ plan' = Plan(Parse(document), document)
  /\ level' = [x \in DOMAIN plan'.tasks |-> -1]
  /\ UNCHANGED <<document, todo, queue, kahn, errors, closure>>
-----------------------------------------------------------------------------
\* section_tasks is a dict by the names of the sections: of the features of a
\* wave that have one name the ids of the last are compared with the others'.
Compared ==
  {s \in Parts : ~\E r \in Parts : r[1] = s[1] /\ r[2] = s[2] /\ r[3] > s[3] /\ s[3] > 0}

\* Two sections of a wave have a task of the same id, two features write one
\* file.  Two entries of one section are not compared.
Duplicated ==
  {s \in Compared : \E r \in Compared \ {s} :
     s[1] = r[1] /\ IdsOf(Entries(s)) \cap IdsOf(Entries(r)) # {}}

Written(f) == (UNION {task[x].files : x \in Entries(f)}) \cup plan.files[f]
Shared ==
  {f \in FeatureParts : \E g \in FeatureParts \ {f} :
     f[1] = g[1] /\ Written(f) \cap Written(g) # {}}

\* The ids with which the dependencies of a section are compared are those of
\* the last feature of its name: one that is not among them, but in another
\* section, is an error, though it may be in the section itself.
SectionIds(s) ==
  IdsOf(UNION {Entries(r) : r \in {q \in Compared : q[1] = s[1] /\ q[2] = s[2]
                                                  /\ (q[3] > 0 <=> s[3] > 0)}})

Elsewhere ==
  {s \in Parts : \E x \in Entries(s) : \E r \in Compared :
     r[1] = s[1] /\ (task[x].depends \cap IdsOf(Entries(r))) \ SectionIds(s) # {}}

CheckWave ==
  /\ stage = "wave"
  /\ stage' = "section"
  /\ todo' = {s \in Parts : Entries(s) # {}}
  /\ errors' = ({"duplicate"} \X Duplicated) \cup ({"files"} \X Shared)
                 \cup ({"elsewhere"} \X Elsewhere)
  /\ UNCHANGED <<document, plan, queue, kahn, level, closure>>

\* A dependency is on a task of the same section, and not on the task itself.
\* Fault: it has to be listed before the task.
Known_Earlier(x) == IdsOf({y \in Entries(task[x].part) : y < x})

Known(x) == IdsOf(Entries(task[x].part))

BadNames(s) ==
  \E x \in Entries(s) :
    ~(task[x].depends \subseteq Known(x)) \/ task[x].id \in task[x].depends

RejectNames(s) ==
  /\ stage = "section" /\ s \in todo
  /\ BadNames(s)
  /\ errors' = errors \cup {<<"names", s>>}
  /\ todo' = todo \ {s}
  /\ UNCHANGED <<document, plan, stage, queue, kahn, level, closure>>

\* in_degree is a dict: of two entries with one id the later one counts.
LastEntry(s, i) ==
  CHOOSE x \in Entries(s) :
    task[x].id = i /\ \A y \in Entries(s) : task[y].id = i => y <= x

StartSort(s) ==
  /\ stage = "section" /\ s \in todo
  /\ ~BadNames(s)
  /\ stage' = "kahn" /\ section' = s
  /\ inDegree' = [i \in Ids |->
       IF i \in IdsOf(Entries(s)) THEN Cardinality(task[LastEntry(s, i)].depends) ELSE 0]
  /\ queue' = {i \in IdsOf(Entries(s)) : inDegree'[i] = 0}
  /\ sorted' = 0
  /\ UNCHANGED <<document, plan, todo, errors, level, closure>>

\* adjacency[i] names a dependent once for each of its entries; it is queued
\* by the decrement that makes its degree zero.
\* Fault: it is queued by any decrement that does not leave it positive.
Queued_Again(i, before) == before[i] > 0 \/ inDegree'[i] < before[i]

Queued(i, before) == before[i] > 0

Decrement(i, d) == Cardinality({x \in Entries(section) :
                                  task[x].id = i /\ d \in task[x].depends})

Pop(d) ==
  /\ stage = "kahn" /\ d \in queue
  /\ sorted' = sorted + 1
  /\ inDegree' = [i \in Ids |-> inDegree[i] - Decrement(i, d)]
  /\ queue' = (queue \ {d}) \cup
       {i \in Ids : Decrement(i, d) > 0 /\ inDegree'[i] <= 0 /\ Queued(i, inDegree)}
  /\ UNCHANGED <<document, plan, stage, todo, section, errors, level, closure>>

\* Fault: only an empty sort is an error.
Complete_Some == sorted > 0

Complete == sorted = Cardinality(Entries(section))

EndSort ==
  /\ stage = "kahn" /\ queue = {}
  /\ stage' = "section"
  /\ todo' = todo \ {section}
  /\ errors' = IF Complete THEN errors ELSE errors \cup {<<"cycle", section>>}
  /\ section' = NoPart
  /\ UNCHANGED <<document, plan, inDegree, queue, sorted, level, closure>>

\* What is wrong with the plan as a whole: a required section is missing, or it
\* has no wave.
Lacking == (Required \ plan.given) \cup {k \in {"waves"} : plan.waves = 0}

EndChecks ==
  /\ stage = "section" /\ todo = {}
  /\ errors' = errors \cup (Lacking \X {NoPart})
  /\ IF errors' = {}
       THEN stage' = "levels" /\ todo' = {f \in FeatureParts : Entries(f) # {}}
       ELSE stage' = "rejected" /\ UNCHANGED todo
  /\ UNCHANGED <<document, plan, queue, kahn, level, closure>>

\* build_dag: one round of the loop.  A round that places no task is the last.
\* Fault: one dependency in an earlier level is enough.
Placeable_Some(x, placed) ==
  task[x].depends # {} => task[x].depends \cap IdsOf(placed) # {}

Placeable(x, placed) == task[x].depends \subseteq IdsOf(placed)

LevelOf(f) == Cardinality({level[x] : x \in {y \in Entries(f) : level[y] >= 0}})

PlaceLevel(f) ==
  /\ stage = "levels" /\ f \in todo
  /\ LET placed    == {x \in Entries(f) : level[x] >= 0}
         thisLevel == {x \in Entries(f) \ placed : Placeable(x, placed)}
     IN  /\ level' = [x \in DOMAIN task |->
                        IF x \in thisLevel THEN LevelOf(f) ELSE level[x]]
         /\ todo' = IF thisLevel = {} \/ placed \cup thisLevel = Entries(f)
                      THEN todo \ {f} ELSE todo
  /\ UNCHANGED <<document, plan, stage, queue, kahn, errors, closure>>

EndLevels ==
  /\ stage = "levels" /\ todo = {}
  /\ stage' = "accepted"
  /\ UNCHANGED <<document, plan, todo, queue, kahn, errors, level, closure>>

\* compute_dirty_closure, for tasks of the plan that somebody selects.
Select(cascade) ==
  /\ stage = "accepted"
  /\ \E S \in (SUBSET IdsOf(DOMAIN task)) \ {{}} : rerun' = S
  /\ dirty' = rerun'
  /\ stage' = IF cascade THEN "walk" ELSE "closed"
  /\ wave' = IF cascade THEN 1 ELSE wave
  /\ queue' = IF cascade THEN rerun' \cap IdsOf(EntriesOf(1)) ELSE queue
  /\ UNCHANGED <<document, plan, todo, kahn, errors, level>>

\* One turn of the walk over the dependencies of a wave.  What is dirty in the
\* wave and not in the queue has been visited.
\* Fault: only what depends on the selected tasks themselves is found.
Found_Direct(i) == {}

Found(i) == IdsOf({x \in EntriesOf(wave) : i \in task[x].depends}) \ dirty

Walk(i) ==
  /\ stage = "walk" /\ i \in queue
  /\ dirty' = dirty \cup IdsOf({x \in EntriesOf(wave) : i \in task[x].depends})
  /\ queue' = (queue \ {i}) \cup Found(i)
  /\ UNCHANGED <<document, plan, stage, todo, kahn, errors, level, rerun, wave>>

\* What later sections of the wave have to repeat.
Implied ==
  LET foundation  == Entries(<<wave, "foundation", 0>>)
      integration == Entries(<<wave, "integration", 0>>)
      features    == EntriesOf(wave) \ (foundation \cup integration)
  IN IF dirty \cap IdsOf(foundation) # {} THEN IdsOf(features \cup integration)
     ELSE IF dirty \cap IdsOf(features) # {} THEN IdsOf(integration) ELSE {}

EndWalk ==
  /\ stage = "walk" /\ queue = {}
  /\ dirty' = dirty \cup Implied
  /\ wave' = wave + 1
  /\ IF wave < plan.waves
       THEN queue' = dirty' \cap IdsOf(EntriesOf(wave + 1)) /\ UNCHANGED stage
       ELSE stage' = "closed" /\ UNCHANGED queue
  /\ UNCHANGED <<document, plan, todo, kahn, errors, level, rerun>>

Next ==
  \/ ParsePlan \/ CheckWave \/ EndSort \/ EndChecks \/ EndLevels \/ EndWalk
  \/ \E cascade \in BOOLEAN : Select(cascade)
  \/ \E i \in Ids : Walk(i)
  \/ \E s \in Parts : RejectNames(s) \/ StartSort(s) \/ PlaceLevel(s)
  \/ \E d \in Ids : Pop(d)

Spec == Init /\ [][Next]_vars
-----------------------------------------------------------------------------
\* A document that is written as the format wants it is parsed as a person
\* reads it: each task is in the section under whose heading it stands, with
\* the fields that were given to it, wherever headings, blank lines and
\* descriptions come in between.
ParsedAsWritten ==
  stage = "wave" /\ WellWritten(document) =>
    /\ {task[x] : x \in DOMAIN task} = {ReadTask(document, n) : n \in ReadLines(document)}
    /\ Len(task) = Cardinality(ReadLines(document))
    /\ plan.features = ReadFeatures(document)

\* What the executors rely on.  In a wave every id is the id of one task ...
UniqueIds ==
  \A x, y \in DOMAIN task :
    task[x].id = task[y].id /\ task[x].part[1] = task[y].part[1] => x = y

\* ... the tasks of a section depend on each other only ...
Closed == \A s \in Parts : \A x \in Entries(s) : task[x].depends \subseteq IdsOf(Entries(s))

\* ... no file is written for two features, which run at the same time ...
Apart ==
  \A f, g \in FeatureParts : \A p \in Files :
    LET writes(h) == p \in plan.files[h] \/ \E x \in Entries(h) : p \in task[x].files
    IN f[1] = g[1] /\ writes(f) /\ writes(g) => f = g

\* ... and there is no set of tasks of which none can be the first.
Acyclic ==
  ~\E s \in Parts : \E X \in (SUBSET Entries(s)) \ {{}} :
     \A x \in X : task[x].depends \cap IdsOf(X) # {}

Executable ==
  UniqueIds /\ Closed /\ Apart /\ Acyclic /\ plan.waves > 0

\* The features of a wave have different names.
NamesDiffer ==
  \A f, g \in FeatureParts : f[1] = g[1] /\ f[2] = g[2] => f = g

\* What the agents rely on in their prompts is there, too.
Ready == Executable /\ plan.given = Required

\* A plan is accepted only if it is executable and has the sections that the
\* agents are given, and rejected only if it is not so.  That two tasks of one
\* section with the same id are rejected is owed to the count of Kahn's
\* algorithm alone.  Of features with the same name only the last is compared
\* with other sections.
AcceptedIffExecutable ==
  /\ stage \in {"levels", "accepted"} /\ NamesDiffer => Ready
  /\ stage = "rejected" => ~Ready

\* The levels contain every task, each in the first level that comes after
\* all its dependencies.
LevelsAreEarliest ==
  stage = "accepted" =>
    \A f \in FeatureParts : \A x \in Entries(f) :
      LET below == {level[y] : y \in {z \in Entries(f) : task[z].id \in task[x].depends}}
      IN  /\ level[x] >= 0
          /\ \A n \in below : n < level[x]
          /\ level[x] > 0 => level[x] - 1 \in below

\* What may not stay as it is when the tasks X of a wave run again.
Consequences(w, X) ==
  LET rank(x) == CASE task[x].part = <<w, "foundation", 0>> -> 1
                   [] task[x].part \in FeatureParts -> 2
                   [] OTHER -> 3
  IN IdsOf({x \in EntriesOf(w) :
       \E y \in EntriesOf(w) :
         task[y].id \in X /\ (task[y].id \in task[x].depends \/ rank(y) < rank(x))})

IsClosed(X) == \A w \in 1 .. plan.waves : Consequences(w, X) \subseteq X

\* A rerun with the cascade repeats everything whose input is repeated, and
\* nothing else: the least set that contains the selected tasks and, with a
\* task, what depends on it and the later sections of its wave.  This is so
\* for one pass over the waves only because no id is used in two waves.
ClosureIsLeast ==
  stage = "closed" /\ wave > 0
    /\ (\A x, y \in DOMAIN task : task[x].id = task[y].id => x = y) =>
    /\ IsClosed(dirty)
    /\ \A X \in SUBSET dirty : rerun \subseteq X /\ IsClosed(X) => X = dirty
=============================================================================
