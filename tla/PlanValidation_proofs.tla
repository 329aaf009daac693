------------------------ MODULE PlanValidation_proofs ------------------------
(***************************************************************************)
(* Theorems about PlanValidation, for every set of documents.              *)
(*                                                                         *)
(* The invariant has a part for each pass over the plan.  Typed says what  *)
(* the parser makes of a document.  Sorting is Kahn's algorithm: of an     *)
(* entry whose id is its own the degree counts the dependencies that are   *)
(* not done, and a set in which everybody waits for somebody keeps its     *)
(* degrees.  Verdict adds up what the sections that were looked at have    *)
(* shown.  Levelled is the state of build_dag between two rounds, Walked   *)
(* the closure up to the wave that is walked.  Read compares the parser    *)
(* after each line with what a person has read by then.                    *)
(*                                                                         *)
(* Documents are of any length.  What holds after each line is shown by    *)
(* looking at the first line after which it would not (Induction).         *)
(***************************************************************************)
EXTENDS PlanValidation, FiniteSetTheorems, SequenceTheorems, TLAPS

(* What the parser has read is in shape before and after every line.       *)

\* The sections of a plan, and the tasks that may stand in sections P.
PartsOf(p) == p.features \cup ((1 .. p.waves) \X {"foundation", "integration"} \X {0})

TaskType(P) == [id : Ids, part : P, depends : FiniteSubsetsOf(Ids), files : SUBSET Files]

\* The fields of the record in which the parser keeps its place.
Shape(at) ==
  at = [goal |-> at.goal, waves |-> at.waves, section |-> at.section, task |-> at.task,
        mode |-> at.mode, features |-> at.features, tasks |-> at.tasks]

\* What it has read when w waves have begun.
Reading(at, w) ==
  /\ at.waves \in Nat /\ at.waves <= w
  /\ IsFiniteSet(at.features)
  /\ \A f \in at.features : f = <<f[1], f[2], f[3]>> /\ f[1] \in 1 .. at.waves /\ f[3] \in Nat \ {0}
  /\ at.section = <<at.section[1], at.section[2]>>
  /\ at.section # Nowhere /\ at.waves > 0 => Part(at) \in PartsOf(at)
  /\ at.task = <<>> \/ \E t \in TaskType({Part(at)}) : at.task = <<t>>
  /\ at.tasks \in Seq(TaskType(PartsOf(at)))

\* The section of a task is its wave with the name and number of the section.
LEMMA PartIs ==
  ASSUME NEW at, at.section = <<at.section[1], at.section[2]>>
  PROVE  Part(at) = <<at.waves, at.section[1], at.section[2]>>
<1> DEFINE w == at.waves a == at.section[1] b == at.section[2]
           s == <<w>> \o <<a, b>>
           S == {w, a, b}
<1>0. <<w>> \in Seq(S) /\ <<a, b>> \in Seq(S) /\ <<w, a, b>> \in Seq(S)
  OBVIOUS
<1> HIDE DEF w, a, b
<1>1. s \in Seq(S) /\ Len(s) = 3 /\ s[1] = w /\ s[2] = a /\ s[3] = b
  <2>1. Len(<<w>>) = 1 /\ Len(<<a, b>>) = 2
    OBVIOUS
  <2>2. QED
    BY <1>0, <2>1
<1>2. Len(<<w, a, b>>) = 3
  OBVIOUS
<1>3. \A i \in 1 .. 3 : s[i] = <<w, a, b>>[i]
  <2>1. \A i \in 1 .. 3 : i = 1 \/ i = 2 \/ i = 3
    OBVIOUS
  <2> HIDE DEF s
  <2>2. QED
    BY <2>1, <1>1
<1>4. s = <<w, a, b>>
  <2> HIDE DEF s, S
  <2>1. QED
    BY <1>0, <1>1, <1>2, <1>3, SeqEqual
<1>5. Part(at) = s
  BY DEF Part, w, a, b
<1>6. QED
  BY <1>4, <1>5 DEF w, a, b

\* flush_task hands the task over to the plan, whose sections stay.
LEMMA FlushKeeps ==
  ASSUME NEW at, NEW w, Shape(at), Reading(at, w)
  PROVE  Shape(Flush(at)) /\ Reading(Flush(at), w) /\ Flush(at).task = <<>>
           /\ Flush(at).waves = at.waves /\ Flush(at).features = at.features
           /\ Flush(at).mode = at.mode /\ Flush(at).section = at.section
<1> DEFINE new == IF at.section # Nowhere /\ at.waves > 0 THEN at.tasks \o at.task ELSE at.tasks
           F == [goal |-> at.goal, waves |-> at.waves, section |-> at.section, task |-> <<>>,
        mode |-> at.mode, features |-> at.features, tasks |-> new]
<1>1. Flush(at) = F
  <2>1. Flush(at) = [at EXCEPT !.task = <<>>, !.tasks = new]
    BY DEF Flush
  <2> HIDE DEF new
  <2>2. QED
    BY <2>1 DEF Shape
<1>2. new \in Seq(TaskType(PartsOf(at)))
  <2>1. CASE at.section # Nowhere /\ at.waves > 0 /\ at.task # <<>>
    <3>1. PICK t \in TaskType({Part(at)}) : at.task = <<t>>
      BY <2>1 DEF Reading
    <3>2. t \in TaskType(PartsOf(at))
      BY <2>1 DEF Reading, TaskType
    <3>3. at.tasks \in Seq(TaskType(PartsOf(at))) /\ at.task \in Seq(TaskType(PartsOf(at)))
      BY <3>1, <3>2 DEF Reading
    <3>4. QED
      BY <3>3, ConcatProperties
  <2>2. CASE ~(at.section # Nowhere /\ at.waves > 0)
    BY <2>2 DEF Reading
  <2>3. CASE at.task = <<>>
    BY <2>3, ConcatEmptySeq DEF Reading
  <2>4. QED
    BY <2>1, <2>2, <2>3
<1> HIDE DEF new
<1>3. PartsOf(F) = PartsOf(at) /\ Part(F) = Part(at)
  BY DEF PartsOf, Part
<1>4. Reading(F, w)
  BY <1>2, <1>3 DEF Reading
<1>5. QED
  BY <1>1, <1>4 DEF Shape

\* In the lines of a task there is one.
Parsing(at, w) == Shape(at) /\ Reading(at, w) /\ (at.mode # "outer" => at.task # <<>>)

LineTyped(line) ==
  /\ line.is = "task" => line.of \in Ids
  /\ line.is = "depends" => line.of \in FiniteSubsetsOf(Ids)
  /\ line.is = "files" => line.of \subseteq Files

\* Tasks stay tasks when the plan gets more sections.
LEMMA MoreParts ==
  ASSUME NEW P, NEW Q, P \subseteq Q, NEW s \in Seq(TaskType(P))
  PROVE  s \in Seq(TaskType(Q))
<1>1. TaskType(P) \subseteq TaskType(Q)
  BY DEF TaskType
<1>2. QED
  BY <1>1, SeqMonotonic

\* A heading of a section, by which a feature may come to the plan.
LEMMA NewSectionKeeps ==
  ASSUME NEW at, NEW w, NEW line, Shape(at), Reading(at, w), at.task = <<>>,
         line.is \in SectionHeading
  PROVE  Shape(NewSection(at, line)) /\ Reading(NewSection(at, line), w)
           /\ NewSection(at, line).mode = at.mode
<1>1. CASE line.is = "feature"
  <2> DEFINE k == Cardinality(at.features) + 1
             new == [goal |-> at.goal, waves |-> at.waves, section |-> <<line.of, k>>,
                     task |-> at.task, mode |-> at.mode, features |-> at.features,
                     tasks |-> at.tasks]
             part == <<at.waves, line.of, k>>
             F == IF at.waves > 0 THEN at.features \cup {part} ELSE at.features
             full == [goal |-> at.goal, waves |-> at.waves, section |-> <<line.of, k>>,
                      task |-> at.task, mode |-> at.mode, features |-> F, tasks |-> at.tasks]
  <2>1. k \in Nat \ {0}
    BY FS_CardinalityType DEF Reading
  <2> HIDE DEF k
  <2>2. [at EXCEPT !.section = <<line.of, k>>] = new
    BY DEF Shape
  <2>3. Part(new) = part
    BY PartIs
  <2>4. NewSection(at, line) = [new EXCEPT !.features = F]
    BY <1>1, <2>2, <2>3 DEF NewSection, k
  <2>5. NewSection(at, line) = full
    <3> HIDE DEF F
    <3>1. QED
      BY <2>4
  <2>6. Part(full) = part
    BY PartIs
  <2>7. IsFiniteSet(F)
    BY FS_AddElement DEF Reading
  <2>8. PartsOf(full) = F \cup ((1 .. at.waves) \X {"foundation", "integration"} \X {0})
    BY DEF PartsOf
  <2>9. full.tasks \in Seq(TaskType(PartsOf(full)))
    <3>1. PartsOf(at) \subseteq PartsOf(full)
      BY <2>8 DEF PartsOf
    <3>2. at.tasks \in Seq(TaskType(PartsOf(at)))
      BY DEF Reading
    <3> HIDE DEF full
    <3>3. at.tasks \in Seq(TaskType(PartsOf(full)))
      BY <3>1, <3>2, MoreParts
    <3>4. QED
      BY <3>3 DEF full
  <2>10. \A f \in F : f = <<f[1], f[2], f[3]>> /\ f[1] \in 1 .. at.waves /\ f[3] \in Nat \ {0}
    BY <2>1 DEF Reading
  <2>11. at.waves > 0 => part \in F
    OBVIOUS
  <2>12. Reading(full, w)
    <3> HIDE DEF F, part
    <3>1. full.section = <<full.section[1], full.section[2]>>
      OBVIOUS
    <3>2. QED
      BY <2>6, <2>7, <2>8, <2>9, <2>10, <2>11, <3>1 DEF Reading
  <2>13. QED
    BY <2>5, <2>12 DEF Shape
<1>2. CASE line.is # "feature"
  <2> DEFINE new == [goal |-> at.goal, waves |-> at.waves, section |-> <<line.is, 0>>,
                     task |-> at.task, mode |-> at.mode, features |-> at.features,
                     tasks |-> at.tasks]
  <2>1. NewSection(at, line) = new
    BY <1>2 DEF NewSection, Shape
  <2>2. Part(new) = <<at.waves, line.is, 0>>
    BY PartIs
  <2>3. PartsOf(new) = PartsOf(at)
    BY DEF PartsOf
  <2>4. at.waves > 0 => Part(new) \in PartsOf(new)
    BY <1>2, <2>2 DEF PartsOf, SectionHeading, Reading
  <2>5. Reading(new, w)
    BY <2>3, <2>4 DEF Reading
  <2>6. QED
    BY <2>1, <2>5 DEF Shape
<1>3. QED
  BY <1>1, <1>2

\* More waves may have begun than have been read.
LEMMA Later ==
  ASSUME NEW at, NEW w \in Nat, NEW v \in Nat, w <= v, Reading(at, w)
  PROVE  Reading(at, v)
<1>1. at.waves \in Nat /\ at.waves <= v
  BY DEF Reading
<1>2. QED
  BY <1>1 DEF Reading

\* The records that the parser goes on with.
LEMMA WaveUpdate ==
  ASSUME NEW at, Shape(at)
  PROVE  [at EXCEPT !.waves = @ + 1, !.section = Nowhere] =
           [goal |-> at.goal, waves |-> at.waves + 1, section |-> Nowhere,
            task |-> at.task, mode |-> at.mode, features |-> at.features,
            tasks |-> at.tasks]
<1> DEFINE r == [at EXCEPT !.waves = at.waves + 1, !.section = Nowhere]
           q == [goal |-> at.goal, waves |-> at.waves + 1, section |-> Nowhere,
                 task |-> at.task, mode |-> at.mode, features |-> at.features,
                 tasks |-> at.tasks]
<1>1. DOMAIN at = {"goal", "waves", "section", "task", "mode", "features", "tasks"}
  BY DEF Shape
<1>2. DOMAIN r = DOMAIN q
  BY <1>1
<1>3. /\ r.goal = q.goal /\ r.waves = q.waves /\ r.section = q.section /\ r.task = q.task
      /\ r.mode = q.mode /\ r.features = q.features /\ r.tasks = q.tasks
  BY <1>1
<1>4. r = q
  BY <1>2, <1>3
<1>5. QED
  BY <1>4

\* The same for a task.
LEMMA TaskUpdate ==
  ASSUME NEW at, NEW t, NEW m, Shape(at)
  PROVE  [at EXCEPT !.task = t, !.mode = m] =
           [goal |-> at.goal, waves |-> at.waves, section |-> at.section,
            task |-> t, mode |-> m, features |-> at.features, tasks |-> at.tasks]
<1> DEFINE r == [at EXCEPT !.task = t, !.mode = m]
           q == [goal |-> at.goal, waves |-> at.waves, section |-> at.section,
                 task |-> t, mode |-> m, features |-> at.features, tasks |-> at.tasks]
<1>1. DOMAIN at = {"goal", "waves", "section", "task", "mode", "features", "tasks"}
  BY DEF Shape
<1>2. DOMAIN r = DOMAIN q
  BY <1>1
<1>3. /\ r.goal = q.goal /\ r.waves = q.waves /\ r.section = q.section /\ r.task = q.task
      /\ r.mode = q.mode /\ r.features = q.features /\ r.tasks = q.tasks
  BY <1>1
<1>4. r = q
  BY <1>2, <1>3
<1>5. QED
  BY <1>4

\* A line outside of the lines of a task.
LEMMA OuterKeeps ==
  ASSUME NEW at, NEW w \in Nat, NEW line, Parsing(at, w), at.mode = "outer", LineTyped(line)
  PROVE  Parsing(Outer(at, line), IF line.is = "wave" THEN w + 1 ELSE w)
<1> DEFINE G(g) == [goal |-> g, waves |-> at.waves, section |-> at.section,
                    task |-> at.task, mode |-> at.mode, features |-> at.features,
                    tasks |-> at.tasks]
           more == IF line.is = "wave" THEN w + 1 ELSE w
           fl == Flush(at)
<1>1. ASSUME NEW g PROVE [at EXCEPT !.goal = g] = G(g) /\ Parsing(G(g), more)
  <2>1. [at EXCEPT !.goal = g] = G(g)
    BY DEF Parsing, Shape
  <2>2. PartsOf(G(g)) = PartsOf(at) /\ Part(G(g)) = Part(at)
    BY DEF PartsOf, Part
  <2>3. Reading(G(g), w)
    BY <2>2 DEF Parsing, Reading
  <2>4. Reading(G(g), more)
    BY <2>3, Later
  <2>5. QED
    BY <2>1, <2>4 DEF Parsing, Shape
<1>2. Parsing(at, more)
  BY Later DEF Parsing
<1>3. /\ Shape(fl) /\ Reading(fl, w) /\ fl.task = <<>> /\ fl.waves = at.waves
      /\ fl.mode = "outer" /\ fl.section = at.section
  BY FlushKeeps DEF Parsing
<1> HIDE DEF fl
<1>4. ASSUME line.is = "wave"
      PROVE  Parsing([fl EXCEPT !.waves = @ + 1, !.section = Nowhere], w + 1)
  <2> DEFINE new == [goal |-> fl.goal, waves |-> fl.waves + 1, section |-> Nowhere,
                     task |-> fl.task, mode |-> fl.mode, features |-> fl.features,
                     tasks |-> fl.tasks]
  <2>1. [fl EXCEPT !.waves = @ + 1, !.section = Nowhere] = new
    BY <1>3, WaveUpdate
  <2>2. PartsOf(fl) \subseteq PartsOf(new)
    BY <1>3 DEF PartsOf, Reading
  <2>3. new.tasks \in Seq(TaskType(PartsOf(new)))
    BY <1>3, <2>2, MoreParts DEF Reading
  <2>4. Reading(new, w + 1)
    <3>1. new.section = <<new.section[1], new.section[2]>>
      BY DEF Nowhere
    <3>2. QED
      BY <1>3, <2>3, <3>1 DEF Reading
  <2>5. QED
    BY <1>3, <2>1, <2>4 DEF Parsing, Shape
<1>5. ASSUME line.is \in SectionHeading
      PROVE  Parsing(NewSection(fl, line), w)
  BY <1>3, <1>5, NewSectionKeeps DEF Parsing
<1>6. ASSUME line.is = "task"
      PROVE  Parsing([fl EXCEPT !.task = <<NewTask(at, line)>>, !.mode = "fields"], w)
  <2> DEFINE new == [goal |-> fl.goal, waves |-> fl.waves, section |-> fl.section,
                     task |-> <<NewTask(at, line)>>, mode |-> "fields",
                     features |-> fl.features, tasks |-> fl.tasks]
  <2>1. [fl EXCEPT !.task = <<NewTask(at, line)>>, !.mode = "fields"] = new
    BY <1>3, TaskUpdate
  <2>2. PartsOf(new) = PartsOf(fl) /\ Part(new) = Part(fl) /\ Part(fl) = Part(at)
    BY <1>3 DEF PartsOf, Part
  <2>3. NewTask(at, line) \in TaskType({Part(new)})
    <3>1. {} \in FiniteSubsetsOf(Ids)
      BY FS_EmptySet DEF FiniteSubsetsOf
    <3>2. QED
      BY <1>6, <2>2, <3>1 DEF NewTask, TaskType, LineTyped
  <2>4. Reading(new, w)
    BY <1>3, <2>2, <2>3 DEF Reading
  <2>5. QED
    BY <2>1, <2>4 DEF Parsing, Shape
<1>7. QED
  <2>1. CASE line.is = "goal" \/ at.goal
    <3>1. Outer(at, line) = [at EXCEPT !.goal = TRUE]
            \/ Outer(at, line) = [at EXCEPT !.goal = (line.is = "blank")]
      BY <2>1 DEF Outer, SectionHeading
    <3>2. QED
      BY <1>1, <3>1
  <2>2. CASE ~(line.is = "goal" \/ at.goal)
    <3>1. CASE line.is = "wave"
      <4>1. Outer(at, line) = [fl EXCEPT !.waves = @ + 1, !.section = Nowhere]
        BY <2>2, <3>1 DEF Outer, fl, SectionHeading
      <4>2. QED
        BY <1>4, <3>1, <4>1
    <3>2. CASE line.is \in SectionHeading
      BY <1>5, <2>2, <3>2 DEF Outer, fl, SectionHeading
    <3>3. CASE line.is = "task"
      BY <1>6, <2>2, <3>3 DEF Outer, fl, SectionHeading
    <3>4. CASE line.is \notin SectionHeading \cup {"task", "wave"}
      BY <1>2, <2>2, <3>4 DEF Outer
    <3>5. QED
      BY <3>1, <3>2, <3>3, <3>4
  <2>3. QED
    BY <2>1, <2>2

\* Any line.
LEMMA StepKeeps ==
  ASSUME NEW at, NEW w \in Nat, NEW line, Parsing(at, w), LineTyped(line)
  PROVE  Parsing(Step(at, line), IF line.is = "wave" THEN w + 1 ELSE w)
<1> DEFINE M(m) == [goal |-> at.goal, waves |-> at.waves, section |-> at.section,
                    task |-> at.task, mode |-> m, features |-> at.features,
                    tasks |-> at.tasks]
<1>1. ASSUME NEW m, m # "outer" => at.task # <<>>
      PROVE  [at EXCEPT !.mode = m] = M(m) /\ Parsing(M(m), w)
  <2>1. [at EXCEPT !.mode = m] = M(m)
    BY DEF Parsing, Shape
  <2>2. PartsOf(M(m)) = PartsOf(at) /\ Part(M(m)) = Part(at)
    BY DEF PartsOf, Part
  <2>3. Reading(M(m), w)
    BY <2>2 DEF Parsing, Reading
  <2>4. QED
    BY <1>1, <2>1, <2>3 DEF Parsing, Shape
<1>2. CASE at.mode # "outer" /\ Continues(at, line)
  <2>1. PICK t \in TaskType({Part(at)}) : at.task = <<t>>
    BY <1>2 DEF Parsing, Reading
  <2> DEFINE u == [t EXCEPT ![line.is] = line.of]
             new == [goal |-> at.goal, waves |-> at.waves, section |-> at.section,
                     task |-> <<u>>, mode |-> "fields", features |-> at.features,
                     tasks |-> at.tasks]
  <2>2. line.is = "depends" \/ line.is = "files"
    BY <1>2 DEF Continues, Field
  <2>3. u \in TaskType({Part(at)})
    BY <2>2 DEF TaskType, LineTyped
  <2>4. [at.task EXCEPT ![1] = [at.task[1] EXCEPT ![line.is] = line.of]] = <<u>>
    BY <2>1
  <2>5. Step(at, line) = [at EXCEPT !.task = <<u>>, !.mode = "fields"]
    <3>1. Step(at, line) = [at EXCEPT !.mode = "fields", !.task[1][line.is] = line.of]
      BY <1>2 DEF Step
    <3>2. QED
      BY <2>4, <3>1
  <2>6. Step(at, line) = new
    <3> HIDE DEF u
    <3>1. QED
      BY <2>5, TaskUpdate DEF Parsing
  <2>7. PartsOf(new) = PartsOf(at) /\ Part(new) = Part(at)
    BY DEF PartsOf, Part
  <2>8. Reading(new, w)
    BY <2>3, <2>7 DEF Parsing, Reading
  <2>9. line.is # "wave"
    BY <2>2
  <2>10. Parsing(new, w)
    BY <2>8 DEF Parsing, Shape
  <2>11. QED
    BY <2>6, <2>9, <2>10
<1>3. CASE at.mode # "outer" /\ ~Continues(at, line) /\ line.is = "description"
  BY <1>1, <1>3 DEF Step, Parsing
<1>4. CASE /\ at.mode = "description" /\ ~Continues(at, line)
           /\ line.is \notin Heading \cup {"description", "stub"}
  BY <1>4 DEF Step, Heading
<1>5. CASE ~(/\ at.mode # "outer"
             /\ \/ Continues(at, line) \/ line.is = "description"
                \/ at.mode = "description" /\ line.is \notin Heading \cup {"description", "stub"})
  <2>1. Step(at, line) = Outer([at EXCEPT !.mode = "outer"], line)
    BY <1>5 DEF Step
  <2>2. [at EXCEPT !.mode = "outer"] = M("outer") /\ Parsing(M("outer"), w)
    BY <1>1
  <2>3. M("outer").mode = "outer"
    OBVIOUS
  <2> HIDE DEF M
  <2>4. QED
    BY <2>1, <2>2, <2>3, OuterKeeps
<1>6. QED
  BY <1>2, <1>3, <1>4, <1>5

\* A set of numbers has a least one: the intervals up to its elements are
\* ordered by inclusion, which is well-founded on finite sets.
LEMMA Least ==
  ASSUME NEW T \in SUBSET Nat, T # {}
  PROVE  \E x \in T : \A y \in T : x <= y
<1> DEFINE U == {0 .. x : x \in T}
<1>1. \A x \in T : 0 .. x \in FiniteSubsetsOf(Nat)
  <2>1. \A x \in T : IsFiniteSet(0 .. x)
    BY FS_Interval
  <2>2. QED
    BY <2>1 DEF FiniteSubsetsOf
<1>2. U \subseteq FiniteSubsetsOf(Nat) /\ U # {}
  BY <1>1
<1>3. PICK I \in U : \A J \in U : ~(<<J, I>> \in StrictSubsetOrdering(Nat))
  <2> HIDE DEF U
  <2>1. QED
    BY <1>2, FS_StrictSubsetOrderingWellFounded, WFMin
<1>4. PICK x \in T : I = 0 .. x
  OBVIOUS
<1>5. ASSUME NEW y \in T, y < x
      PROVE  FALSE
  <2>1. 0 .. y \in U /\ 0 .. y \in SUBSET Nat /\ 0 .. x \in SUBSET Nat
    OBVIOUS
  <2>2. x \in 0 .. x /\ x \notin 0 .. y
    BY <1>5
  <2>3. 0 .. y \subseteq 0 .. x /\ 0 .. y # 0 .. x
    BY <1>5, <2>2
  <2>4. <<0 .. y, 0 .. x>> \in StrictSubsetOrdering(Nat)
    BY <2>1, <2>3 DEF StrictSubsetOrdering
  <2>5. QED
    BY <1>3, <1>4, <2>1, <2>4
<1>6. QED
  BY <1>5

\* A bounded set of numbers has a greatest one.
LEMMA Greatest ==
  ASSUME NEW N \in Nat, NEW T \in SUBSET (0 .. N), T # {}
  PROVE  \E x \in T : \A y \in T : y <= x
<1> DEFINE U == {N - x : x \in T}
<1>1. U \in SUBSET Nat /\ U # {}
  <2>1. \A x \in T : N - x \in Nat
    OBVIOUS
  <2>2. QED
    BY <2>1
<1>2. PICK u \in U : \A v \in U : u <= v
  <2> HIDE DEF U
  <2>1. QED
    BY <1>1, Least
<1>3. PICK x \in T : u = N - x
  OBVIOUS
<1>4. \A y \in T : N - x <= N - y
  BY <1>2, <1>3
<1>5. QED
  BY <1>4

\* What passes from each number to the next, a least exception shows.
LEMMA Induction ==
  ASSUME NEW N \in Nat, NEW S, 0 \in S, \A n \in 0 .. N - 1 : n \in S => n + 1 \in S
  PROVE  0 .. N \subseteq S
<1> DEFINE T == {n \in 0 .. N : n \notin S}
<1>1. SUFFICES ASSUME T # {}
               PROVE  FALSE
  OBVIOUS
<1>2. PICK x \in T : \A y \in T : x <= y
  <2>1. T \in SUBSET Nat
    OBVIOUS
  <2> HIDE DEF T
  <2>2. QED
    BY <1>1, <2>1, Least
<1>3. x # 0 /\ x - 1 \in 0 .. N - 1
  OBVIOUS
<1>4. x - 1 \in S
  BY <1>2, <1>3
<1>5. QED
  BY <1>3, <1>4

\* The parser after each of the first k lines.
Run(g, d, k) == g = [n \in 0 .. k |-> IF n = 0 THEN Beginning ELSE Step(g[n - 1], d[n])]

\* The recursion has a solution for any number of lines.
LEMMA RunExists ==
  ASSUME NEW d, NEW N \in Nat
  PROVE  \E g : Run(g, d, N)
<1> DEFINE S == {k \in 0 .. N : \E g : Run(g, d, k)}
<1>1. 0 \in S
  <2>1. Run([n \in 0 .. 0 |-> Beginning], d, 0)
    BY DEF Run
  <2>2. QED
    BY <2>1
<1>2. ASSUME NEW k \in 0 .. N - 1, k \in S
      PROVE  k + 1 \in S
  <2>1. PICK g : Run(g, d, k)
    BY <1>2
  <2> DEFINE h == [n \in 0 .. k + 1 |-> IF n <= k THEN g[n] ELSE Step(g[k], d[k + 1])]
  <2>2. \A n \in 0 .. k + 1 : h[n] = IF n = 0 THEN Beginning ELSE Step(h[n - 1], d[n])
    <3>1. ASSUME NEW n \in 0 .. k, n # 0
          PROVE  h[n] = Step(h[n - 1], d[n])
      <4>1. g[n] = Step(g[n - 1], d[n])
        BY <2>1, <3>1 DEF Run
      <4>2. h[n] = g[n] /\ h[n - 1] = g[n - 1]
        BY <3>1
      <4>3. QED
        BY <4>1, <4>2
    <3>2. h[0] = Beginning
      BY <2>1 DEF Run
    <3>3. h[k + 1] = Step(h[k], d[k + 1])
      OBVIOUS
    <3> HIDE DEF h
    <3>4. QED
      BY <3>1, <3>2, <3>3
  <2>3. Run(h, d, k + 1)
    <3>1. h = [n \in 0 .. k + 1 |-> h[n]]
      OBVIOUS
    <3> HIDE DEF h
    <3>2. QED
      BY <2>2, <3>1 DEF Run
  <2>4. QED
    BY <2>3
<1>3. N \in S
  <2> HIDE DEF S
  <2>1. 0 .. N \subseteq S
    BY <1>1, <1>2, Induction
  <2>2. QED
    BY <2>1
<1>4. QED
  BY <1>3

\* Parse is what is left after the last line.
LEMMA ParseIs ==
  ASSUME NEW d, Len(d) \in Nat
  PROVE  \E g : Run(g, d, Len(d)) /\ Parse(d) = Flush(g[Len(d)])
<1> DEFINE g == CHOOSE f : Run(f, d, Len(d))
<1>1. Run(g, d, Len(d))
  BY RunExists
<1>2. Parse(d) = Flush(g[Len(d)])
  BY DEF Parse, Place, Run
<1> HIDE DEF g
<1>3. QED
  BY <1>1, <1>2

\* Before the first line nothing has been read.
LEMMA BeginningParses == Parsing(Beginning, 0)
<1>1. Part(Beginning) = <<0, "nowhere", 0>>
  BY PartIs DEF Beginning, Nowhere
<1>2. Beginning.tasks \in Seq(TaskType(PartsOf(Beginning)))
  BY DEF Beginning
<1>3. IsFiniteSet({})
  BY FS_EmptySet
<1>4. QED
  BY <1>2, <1>3 DEF Parsing, Shape, Reading, Beginning, Nowhere

\* The waves that have begun are counted line by line.
LEMMA WaveAtGrows ==
  ASSUME NEW d, NEW n \in Nat
  PROVE  /\ WaveAt(d, n + 1) \in Nat
         /\ WaveAt(d, n + 2) = IF d[n + 1].is = "wave" THEN WaveAt(d, n + 1) + 1
                               ELSE WaveAt(d, n + 1)
<1> DEFINE W(k) == {m \in 1 .. k : d[m].is = "wave"}
<1>1. IsFiniteSet(W(n))
  <2>1. IsFiniteSet(1 .. n)
    BY FS_Interval
  <2>2. QED
    BY <2>1, FS_Subset
<1>2. W(n + 1) = IF d[n + 1].is = "wave" THEN W(n) \cup {n + 1} ELSE W(n)
  OBVIOUS
<1>3. n + 1 \notin W(n)
  OBVIOUS
<1>4. WaveAt(d, n + 1) = Cardinality(W(n)) /\ WaveAt(d, n + 2) = Cardinality(W(n + 1))
  <2>1. (n + 1) - 1 = n /\ (n + 2) - 1 = n + 1
    OBVIOUS
  <2>2. QED
    BY <2>1 DEF WaveAt
<1> HIDE DEF W
<1>5. QED
  BY <1>1, <1>2, <1>3, <1>4, FS_AddElement, FS_CardinalityType

\* The type of a plan.
PlanTyped(p) ==
  /\ p.waves \in 0 .. MaxWaves
  /\ \A f \in p.features : f = <<f[1], f[2], f[3]>> /\ f[1] \in 1 .. p.waves /\ f[3] \in Nat \ {0}
  /\ p.tasks \in Seq(TaskType(PartsOf(p)))
  /\ p.files \in [p.features -> SUBSET Files] /\ p.given \subseteq Required

\* The files of a feature are those of one of its lines.
LEMMA FilesTyped ==
  ASSUME NEW d \in Documents, NEW f
  PROVE  FilesOf(d, f) \subseteq Files
<1> DEFINE L == FilesLines(d, f)
<1>1. Len(d) \in Nat /\ DOMAIN d = 1 .. Len(d)
  BY DocumentsAssumption, LenProperties
<1>2. CASE L = {}
  BY <1>2 DEF FilesOf
<1>3. CASE L # {}
  <2>1. L \in SUBSET (0 .. Len(d)) /\ \A n \in L : n \in DOMAIN d /\ d[n].is = "claims"
    BY <1>1 DEF FilesLines
  <2>2. \E n \in L : \A k \in L : k <= n
    <3> HIDE DEF L
    <3>1. QED
      BY <1>1, <1>3, <2>1, Greatest
  <2>3. PICK n \in L : FilesOf(d, f) = d[n].of
    BY <1>3, <2>2 DEF FilesOf
  <2>4. QED
    BY <2>1, <2>3, DocumentsAssumption
<1>4. QED
  BY <1>2, <1>3

\* What the parser makes of a document is a plan.
LEMMA ParseTyped ==
  ASSUME NEW d \in Documents
  PROVE  PlanTyped(Plan(Parse(d), d))
<1>1. Len(d) \in Nat /\ DOMAIN d = 1 .. Len(d)
  BY DocumentsAssumption, LenProperties
<1>2. PICK g : Run(g, d, Len(d)) /\ Parse(d) = Flush(g[Len(d)])
  BY <1>1, ParseIs
<1>3. \A n \in DOMAIN d : LineTyped(d[n])
  BY DocumentsAssumption DEF LineTyped, FiniteSubsetsOf
<1> DEFINE S == {n \in 0 .. Len(d) : Parsing(g[n], WaveAt(d, n + 1))}
<1>4. 0 \in S
  <2>1. WaveAt(d, 1) = 0
    BY FS_EmptySet DEF WaveAt
  <2>2. g[0] = Beginning
    BY <1>1, <1>2 DEF Run
  <2>3. QED
    BY <1>1, <2>1, <2>2, BeginningParses
<1>5. ASSUME NEW n \in 0 .. Len(d) - 1, n \in S
      PROVE  n + 1 \in S
  <2>1. g[n + 1] = Step(g[n], d[n + 1])
    <3>1. n + 1 \in 0 .. Len(d) /\ n + 1 # 0 /\ (n + 1) - 1 = n
      BY <1>1
    <3>2. QED
      BY <1>2, <3>1 DEF Run
  <2>2. LineTyped(d[n + 1])
    BY <1>1, <1>3
  <2>3. Parsing(g[n], WaveAt(d, n + 1)) /\ n \in Nat
    BY <1>1, <1>5
  <2>4. Parsing(g[n + 1], WaveAt(d, n + 2))
    BY <2>1, <2>2, <2>3, WaveAtGrows, StepKeeps
  <2>5. (n + 1) + 1 = n + 2 /\ n + 1 \in 0 .. Len(d)
    BY <1>1
  <2>6. QED
    BY <2>4, <2>5
<1>6. Parsing(g[Len(d)], WaveAt(d, Len(d) + 1))
  <2>1. 0 .. Len(d) \subseteq S
    <3> HIDE DEF S
    <3>1. QED
      BY <1>1, <1>4, <1>5, Induction
  <2>2. QED
    BY <1>1, <2>1
<1>7. WaveAt(d, Len(d) + 1) \in 0 .. MaxWaves
  <2>1. WaveAt(d, Len(d) + 1) \in Nat
    BY <1>1, WaveAtGrows
  <2>2. WaveAt(d, Len(d) + 1) <= MaxWaves
    BY DocumentsAssumption, Zenon
  <2>3. QED
    BY <2>1, <2>2, WavesAssumption
<1>8. Reading(Parse(d), MaxWaves)
  <2>1. Reading(Parse(d), WaveAt(d, Len(d) + 1))
    BY <1>2, <1>6, FlushKeeps DEF Parsing
  <2>2. QED
    BY <1>7, <2>1, WavesAssumption, Later
<1>9. PartsOf(Plan(Parse(d), d)) = PartsOf(Parse(d))
  BY DEF PartsOf, Plan
<1>10. Plan(Parse(d), d).files \in [Plan(Parse(d), d).features -> SUBSET Files]
  BY FilesTyped DEF Plan
<1>11. Plan(Parse(d), d).given \subseteq Required
  BY DEF Plan, Given
<1>12. QED
  BY <1>8, <1>9, <1>10, <1>11, WavesAssumption DEF Reading, PlanTyped, Plan

-----------------------------------------------------------------------------
(* Entries, sections and ids of a plan that has been parsed.               *)

\* No two entries in X have one id.
OneEach(X) == \A x, y \in X : task[x].id = task[y].id => x = y

\* What the sort of a section is to find out.
Sound(s) ==
  /\ OneEach(Entries(s))
  /\ ~BadNames(s)
  /\ \A X \in SUBSET Entries(s) : (\A x \in X : task[x].depends \cap IdsOf(X) # {}) => X = {}

\* A section is its wave, name and number; the numbers of features begin at 1.
LEMMA PartsTyped ==
  ASSUME PlanTyped(plan)
  PROVE  /\ \A s \in Parts : s = <<s[1], s[2], s[3]>> /\ s[1] \in 1 .. plan.waves /\ s[3] \in Nat
         /\ \A s \in Parts : s \in FeatureParts <=> s[3] > 0
         /\ FeatureParts \subseteq Parts
         /\ plan.waves \in 0 .. MaxWaves
<1>1. plan.waves \in Nat
  BY WavesAssumption DEF PlanTyped
<1>2. \A s \in FeatureParts : s = <<s[1], s[2], s[3]>> /\ s[1] \in 1 .. plan.waves /\ s[3] \in Nat \ {0}
  BY DEF PlanTyped, FeatureParts
<1>3. \A s \in (1 .. plan.waves) \X {"foundation", "integration"} \X {0} :
        s = <<s[1], s[2], s[3]>> /\ s[1] \in 1 .. plan.waves /\ s[3] = 0
  OBVIOUS
<1>4. Parts = FeatureParts \cup ((1 .. plan.waves) \X {"foundation", "integration"} \X {0})
  BY DEF Parts
<1>5. QED
  BY <1>1, <1>2, <1>3, <1>4 DEF PlanTyped

\* The fields of the tasks of a plan.
LEMMA TasksTyped ==
  ASSUME PlanTyped(plan)
  PROVE  /\ IsFiniteSet(DOMAIN task)
         /\ DOMAIN task = 1 .. Len(task) /\ Len(task) \in Nat
         /\ \A x \in DOMAIN task :
              /\ task[x].id \in Ids /\ task[x].part \in Parts
              /\ task[x].depends \subseteq Ids /\ IsFiniteSet(task[x].depends)
              /\ task[x].files \subseteq Files
<1>1. task \in Seq(TaskType(Parts))
  BY DEF PlanTyped, task, PartsOf, Parts, FeatureParts
<1>2. DOMAIN task = 1 .. Len(task) /\ Len(task) \in Nat
  BY <1>1, LenProperties
<1>3. IsFiniteSet(DOMAIN task)
  BY <1>2, FS_Interval
<1>4. \A x \in DOMAIN task : task[x] \in TaskType(Parts)
  BY <1>1, <1>2, ElementOfSeq
<1>5. QED
  BY <1>2, <1>3, <1>4 DEF TaskType, FiniteSubsetsOf

\* There are as many ids as entries just if no two entries have one id.
LEMMA CountIds ==
  ASSUME PlanTyped(plan), NEW X \in SUBSET DOMAIN task
  PROVE  /\ IsFiniteSet(X) /\ IsFiniteSet(IdsOf(X))
         /\ Cardinality(X) \in Nat /\ Cardinality(IdsOf(X)) \in Nat
         /\ Cardinality(IdsOf(X)) <= Cardinality(X)
         /\ Cardinality(IdsOf(X)) = Cardinality(X) <=> OneEach(X)
<1> DEFINE f == [x \in X |-> task[x].id]
<1>1. IsFiniteSet(X)
  BY TasksTyped, FS_Subset
<1>2. f \in Surjection(X, IdsOf(X))
  BY DEF Surjection, IdsOf
<1>3. f \in Injection(X, IdsOf(X)) <=> OneEach(X)
  BY DEF Injection, IsInjective, IdsOf, OneEach
<1> HIDE DEF f
<1>4. QED
  BY <1>1, <1>2, <1>3, FS_Surjection, FS_CardinalityType

\* Entries stand in their section and wave.
LEMMA EntriesFacts ==
  /\ \A s : Entries(s) \subseteq DOMAIN task
  /\ \A s : \A x \in Entries(s) : task[x].part = s
  /\ \A w : EntriesOf(w) \subseteq DOMAIN task
  /\ \A w : \A x \in EntriesOf(w) : task[x].part[1] = w
  BY DEF Entries, EntriesOf

\* Membership in IdsOf.
LEMMA IdsOfFacts ==
  ASSUME NEW X
  PROVE  /\ \A x \in X : task[x].id \in IdsOf(X)
         /\ \A i \in IdsOf(X) : \E x \in X : task[x].id = i
         /\ \A Y \in SUBSET X : IdsOf(Y) \subseteq IdsOf(X)
  BY DEF IdsOf

\* No id is used twice in the plan.
GlobalIds == \A x, y \in DOMAIN task : task[x].id = task[y].id => x = y

\* What is read off the plan stays with the plan.
LEMMA SamePlan ==
  ASSUME plan' = plan
  PROVE  /\ task' = task /\ Parts' = Parts /\ FeatureParts' = FeatureParts
         /\ \A s : Entries(s)' = Entries(s)
         /\ \A w : EntriesOf(w)' = EntriesOf(w)
         /\ \A X : IdsOf(X)' = IdsOf(X)
         /\ \A s : BadNames(s)' <=> BadNames(s)
         /\ \A s : Sound(s)' <=> Sound(s)
         /\ \A X : OneEach(X)' <=> OneEach(X)
         /\ Duplicated' = Duplicated /\ Shared' = Shared
         /\ Executable' <=> Executable
         /\ Ready' <=> Ready
         /\ GlobalIds' <=> GlobalIds
         /\ PlanTyped(plan)' <=> PlanTyped(plan)
         /\ \A w, X : Consequences(w, X)' = Consequences(w, X)
         /\ \A X : IsClosed(X)' <=> IsClosed(X)
<1>1. task' = task /\ Parts' = Parts /\ FeatureParts' = FeatureParts
  BY DEF task, Parts, FeatureParts
<1>2. \A s : Entries(s)' = Entries(s)
  BY <1>1 DEF Entries
<1>3. \A w : EntriesOf(w)' = EntriesOf(w)
  BY <1>1 DEF EntriesOf
<1>4. \A X : IdsOf(X)' = IdsOf(X)
  BY <1>1 DEF IdsOf
<1>5. \A s : BadNames(s)' <=> BadNames(s)
  BY <1>1, <1>2, <1>4 DEF BadNames, Known
<1>6. \A X : OneEach(X)' <=> OneEach(X)
  BY <1>1 DEF OneEach
<1>7. \A s : Sound(s)' <=> Sound(s)
  BY <1>1, <1>2, <1>4, <1>5, <1>6 DEF Sound
<1>8. Duplicated' = Duplicated
  <2>1. Compared' = Compared
    BY <1>1 DEF Compared
  <2>2. QED
    BY <2>1, <1>2, <1>4 DEF Duplicated
<1>9. Shared' = Shared
  <2>1. \A f : Written(f)' = Written(f)
    BY <1>1, <1>2 DEF Written
  <2>2. QED
    BY <2>1, <1>1 DEF Shared
<1>10. Executable' <=> Executable
  <2>1. Apart' <=> Apart
    BY <1>1, <1>2 DEF Apart
  <2>2. QED
    BY <1>1, <1>2, <1>4, <2>1 DEF Executable, UniqueIds, Closed, Acyclic
<1>11. \A w, X : Consequences(w, X)' = Consequences(w, X)
  BY <1>1, <1>3, <1>4 DEF Consequences
<1>12. \A X : IsClosed(X)' <=> IsClosed(X)
  BY <1>11 DEF IsClosed
<1>13. GlobalIds' <=> GlobalIds
  BY <1>1 DEF GlobalIds
<1>14. Ready' <=> Ready
  BY <1>10 DEF Ready
<1>15. QED
  BY <1>1, <1>2, <1>3, <1>4, <1>5, <1>6, <1>7, <1>8, <1>9, <1>10, <1>11, <1>12, <1>13, <1>14

-----------------------------------------------------------------------------
(* What is an error, the inductive invariant, and what follows from it.    *)

\* Each error that validation reports keeps a plan from being executable ...
LEMMA DuplicateIsError ==
  ASSUME PlanTyped(plan), Duplicated # {}
  PROVE  ~Executable
<1>1. PICK s \in Compared, r \in Compared :
        r # s /\ s[1] = r[1] /\ IdsOf(Entries(s)) \cap IdsOf(Entries(r)) # {}
  BY DEF Duplicated
<1>2. PICK x \in Entries(s), y \in Entries(r) : task[x].id = task[y].id
  BY <1>1 DEF IdsOf
<1>3. x # y /\ task[x].part[1] = task[y].part[1] /\ x \in DOMAIN task /\ y \in DOMAIN task
  BY <1>1, <1>2, EntriesFacts
<1>4. QED
  BY <1>2, <1>3 DEF Executable, UniqueIds

\* ... an unknown name, or a task that waits for itself ...
LEMMA BadNameIsError ==
  ASSUME NEW s \in Parts, BadNames(s)
  PROVE  ~Executable
<1>1. PICK x \in Entries(s) : ~(task[x].depends \subseteq Known(x)) \/ task[x].id \in task[x].depends
  BY DEF BadNames
<1>2. Known(x) = IdsOf(Entries(s))
  BY EntriesFacts DEF Known
<1>3. CASE ~(task[x].depends \subseteq Known(x))
  BY <1>2, <1>3 DEF Executable, Closed
<1>4. CASE task[x].id \in task[x].depends
  <2>1. {x} \in (SUBSET Entries(s)) \ {{}} /\ IdsOf({x}) = {task[x].id}
    BY DEF IdsOf
  <2>2. \A y \in {x} : task[y].depends \cap IdsOf({x}) # {}
    BY <1>4, <2>1
  <2>3. ~Acyclic
    BY <2>1, <2>2 DEF Acyclic
  <2>4. QED
    BY <2>3 DEF Executable
<1>5. QED
  BY <1>1, <1>3, <1>4

\* ... a dependency in another section of the wave ...
LEMMA ElsewhereIsError ==
  ASSUME PlanTyped(plan), Elsewhere # {}
  PROVE  ~Executable
<1>1. SUFFICES ASSUME Executable
               PROVE  FALSE
  OBVIOUS
<1>2. PICK s \in Parts : \E x \in Entries(s) : \E r \in Compared :
        r[1] = s[1] /\ (task[x].depends \cap IdsOf(Entries(r))) \ SectionIds(s) # {}
  BY DEF Elsewhere
<1>3. PICK x \in Entries(s), r \in Compared :
        r[1] = s[1] /\ (task[x].depends \cap IdsOf(Entries(r))) \ SectionIds(s) # {}
  BY <1>2
<1>4. PICK i \in task[x].depends : i \in IdsOf(Entries(r)) /\ i \notin SectionIds(s)
  BY <1>3
<1>5. i \in IdsOf(Entries(s))
  BY <1>1, <1>4 DEF Executable, Closed
<1>6. PICK y \in Entries(s), z \in Entries(r) : task[y].id = i /\ task[z].id = i
  BY <1>4, <1>5 DEF IdsOf
<1>7. s = r
  BY <1>1, <1>3, <1>6, EntriesFacts DEF Executable, UniqueIds
<1>8. Entries(r) \subseteq UNION {Entries(q) : q \in {p \in Compared : p[1] = s[1] /\ p[2] = s[2]
                                                  /\ (p[3] > 0 <=> s[3] > 0)}}
  BY <1>7
<1>9. i \in SectionIds(s)
  BY <1>4, <1>6, <1>8 DEF SectionIds, IdsOf
<1>10. QED
  BY <1>4, <1>9

\* ... a file that is written for two features ...
LEMMA SharedIsError ==
  ASSUME PlanTyped(plan)
  PROVE  Shared = {} <=> Apart
<1>1. ASSUME NEW f \in FeatureParts, NEW p
      PROVE  p \in Written(f) <=> p \in plan.files[f] \/ \E x \in Entries(f) : p \in task[x].files
  BY DEF Written
<1>2. \A f \in FeatureParts : Written(f) \subseteq Files
  <2>1. \A f \in FeatureParts : plan.files[f] \subseteq Files
    BY DEF PlanTyped, FeatureParts
  <2>2. \A x \in DOMAIN task : task[x].files \subseteq Files
    BY TasksTyped
  <2>3. QED
    BY <1>1, <2>1, <2>2, EntriesFacts
<1>3. Apart <=> \A f, g \in FeatureParts : \A p \in Files :
                  f[1] = g[1] /\ p \in Written(f) /\ p \in Written(g) => f = g
  BY <1>1 DEF Apart
<1>4. Shared = {} <=> \A f, g \in FeatureParts :
                        f # g /\ f[1] = g[1] => Written(f) \cap Written(g) = {}
  BY DEF Shared
<1> HIDE DEF Written
<1>5. QED
  BY <1>2, <1>3, <1>4

\* ... and without any the plan is executable, if the features of a wave have
\* different names, so that all sections have been compared.
LEMMA SoundIsExecutable ==
  ASSUME PlanTyped(plan), NamesDiffer, Duplicated = {}, Shared = {}, plan.waves > 0,
         \A s \in Parts : Sound(s)
  PROVE  Executable
<1>1. Compared = Parts
  <2>1. ASSUME NEW s \in Parts, NEW r \in Parts,
               r[1] = s[1], r[2] = s[2], r[3] > s[3], s[3] > 0
        PROVE  FALSE
    <3>1. s[3] \in Nat /\ r[3] \in Nat
      BY PartsTyped
    <3>2. r[3] > 0
      BY <2>1, <3>1
    <3>3. s \in FeatureParts /\ r \in FeatureParts
      BY <2>1, <3>2, PartsTyped
    <3>4. r = s
      BY <2>1, <3>3 DEF NamesDiffer
    <3>5. QED
      BY <2>1, <3>1, <3>4
  <2>2. QED
    BY <2>1 DEF Compared
<1>2. UniqueIds
  <2>1. SUFFICES ASSUME NEW x \in DOMAIN task, NEW y \in DOMAIN task,
                        task[x].id = task[y].id, task[x].part[1] = task[y].part[1]
                 PROVE  x = y
    BY DEF UniqueIds
  <2> DEFINE s == task[x].part
             r == task[y].part
  <2>2. s \in Parts /\ r \in Parts /\ x \in Entries(s) /\ y \in Entries(r)
    BY TasksTyped DEF Entries
  <2>3. task[x].id \in IdsOf(Entries(s)) /\ task[x].id \in IdsOf(Entries(r))
    BY <2>1, <2>2 DEF IdsOf
  <2>4. s = r
    BY <1>1, <2>1, <2>2, <2>3 DEF Duplicated
  <2>5. QED
    BY <2>1, <2>2, <2>4 DEF Sound, OneEach
<1>3. Closed
  BY EntriesFacts DEF Closed, Sound, BadNames, Known
<1>4. Acyclic
  BY DEF Acyclic, Sound
<1>5. Apart
  BY SharedIsError
<1>6. QED
  BY <1>2, <1>3, <1>4, <1>5 DEF Executable

\* The ids that were popped.
Done == {i \in IdsOf(Entries(section)) : inDegree[i] <= 0 /\ i \notin queue}

\* No other entry of the section has the id of x.
Alone(x) == \A y \in Entries(section) : task[y].id = task[x].id => y = x

\* Between two pops.  An entry that is not alone may have any degree: its id
\* makes the count come out too small.
Sorting ==
  stage = "kahn" =>
    /\ section \in todo /\ ~BadNames(section)
    /\ queue \subseteq {i \in IdsOf(Entries(section)) : inDegree[i] <= 0}
    /\ sorted = Cardinality(Done)
    /\ \A x \in Entries(section) :
         Alone(x) => inDegree[task[x].id] = Cardinality(task[x].depends \ Done)
    /\ OneEach(Entries(section)) =>
         \A X \in SUBSET Entries(section) :
           (\A x \in X : task[x].depends \cap IdsOf(X) # {}) =>
             \A x \in X : inDegree[task[x].id] > 0

\* Validation is over without an error.
Accepted == stage \in {"levels", "accepted", "walk", "closed"}

\* What the errors found so far, or that there are none, say about the plan.
Verdict ==
  /\ stage \in {"parse", "wave"} => errors = {}
  /\ errors # {} => ~Ready
  /\ stage = "rejected" => errors # {}
  /\ Accepted => errors = {} /\ plan.waves > 0 /\ plan.given = Required
  /\ stage \notin {"parse", "wave"} /\ errors = {} =>
       /\ Duplicated = {} /\ Shared = {}
       /\ \A s \in Parts \ (IF Accepted THEN {} ELSE todo) : Sound(s)

\* The entries that have a level, and those below the last one.
Placed(f) == {x \in Entries(f) : level[x] >= 0}

BelowLast(f) == {y \in Placed(f) : level[y] < LevelOf(f) - 1}

\* Between two rounds: the levels are an interval, each placed entry is right
\* above one of its dependencies, and one that is not placed had a dependency
\* missing in the round before.
Placing(f) ==
  /\ {level[x] : x \in Placed(f)} = 0 .. LevelOf(f) - 1
  /\ \A x \in Placed(f), y \in Entries(f) :
       task[y].id \in task[x].depends => level[y] \in 0 .. level[x] - 1
  /\ \A x \in Placed(f) :
       level[x] > 0 => \E y \in Entries(f) :
                         task[y].id \in task[x].depends /\ level[y] = level[x] - 1
  /\ \A x \in Entries(f) \ Placed(f) :
       LevelOf(f) > 0 =>
         ~(task[x].depends \subseteq IdsOf(BelowLast(f)))

\* Features that the loop is through with have been placed completely.
Levelled ==
  /\ level \in [DOMAIN task -> Nat \cup {-1}]
  /\ ~Accepted => \A x \in DOMAIN task : level[x] = -1
  /\ stage \in {"levels", "accepted"} =>
       /\ stage = "levels" => todo \subseteq FeatureParts
       /\ \A f \in FeatureParts : Placing(f)
       /\ \A f \in FeatureParts \ (IF stage = "levels" THEN todo ELSE {}) :
            Entries(f) = Placed(f)

\* Between two turns of the walk.  The waves before are closed if no id occurs
\* twice in the plan; nothing is dirty that need not be.
Walked ==
  /\ stage \notin {"walk", "closed"} => wave = 0
  /\ stage = "walk" =>
       /\ wave \in 1 .. plan.waves
       /\ queue \subseteq dirty \cap IdsOf(EntriesOf(wave))
       /\ \A x \in EntriesOf(wave) :
            task[x].depends \cap (dirty \ queue) # {} => task[x].id \in dirty
  /\ stage = "closed" => wave = 0 \/ wave = plan.waves + 1
  /\ wave > 0 =>
       /\ rerun \subseteq dirty /\ dirty \subseteq IdsOf(DOMAIN task)
       /\ \A X \in SUBSET IdsOf(DOMAIN task) : rerun \subseteq X /\ IsClosed(X) => dirty \subseteq X
       /\ GlobalIds => \A w \in 1 .. wave - 1 : Consequences(w, dirty) \subseteq dirty

\* The types, of the plan more closely than in TypeOK.
Typed ==
  /\ PlanTyped(plan)
  /\ document \in Documents
  /\ stage \in Stages
  /\ stage = "parse" => Parts = {}
  /\ todo \subseteq Parts
  /\ section \in Parts \cup {NoPart}
  /\ inDegree \in [Ids -> Int]
  /\ queue \subseteq Ids
  /\ sorted \in Nat
  /\ errors \subseteq ErrorKinds \X (Parts \cup {NoPart})
  /\ rerun \subseteq Ids /\ dirty \subseteq Ids
  /\ wave \in 0 .. MaxWaves + 1

\* The inductive invariant.
IndInv == Typed /\ Sorting /\ Verdict /\ Levelled /\ Walked

\* No id is popped twice: the count stays within the ids of the section.
LEMMA DoneFacts ==
  ASSUME IndInv, stage = "kahn"
  PROVE  /\ IsFiniteSet(Done) /\ IsFiniteSet(queue)
         /\ Done \cap queue = {} /\ Done \cup queue \subseteq IdsOf(Entries(section))
         /\ sorted + Cardinality(queue) <= Cardinality(IdsOf(Entries(section)))
         /\ Cardinality(queue) \in Nat
<1>1. IsFiniteSet(IdsOf(Entries(section)))
  BY CountIds, EntriesFacts DEF IndInv, Typed
<1>2. Done \cap queue = {} /\ Done \cup queue \subseteq IdsOf(Entries(section))
  BY DEF Done, IndInv, Sorting
<1>3. IsFiniteSet(Done) /\ IsFiniteSet(queue)
  BY <1>1, <1>2, FS_Subset
<1>4. Cardinality(Done \cup queue) = Cardinality(Done) + Cardinality(queue) - Cardinality(Done \cap queue)
  BY <1>3, FS_Union
<1>5. Cardinality(Done \cap queue) = 0 /\ Cardinality(Done) \in Nat /\ Cardinality(queue) \in Nat
  BY <1>2, <1>3, FS_EmptySet, FS_CardinalityType
<1>6. Cardinality(Done \cup queue) <= Cardinality(IdsOf(Entries(section)))
  BY <1>1, <1>2, FS_Subset
<1>7. sorted = Cardinality(Done)
  BY DEF IndInv, Sorting
<1>8. QED
  BY <1>2, <1>3, <1>4, <1>5, <1>6, <1>7

\* The invariants of the run follow from IndInv.
LEMMA ImpliesTypeOK == IndInv => TypeOK
<1> SUFFICES ASSUME IndInv
             PROVE  TypeOK
  OBVIOUS
<1>1. /\ plan.waves \in 0 .. MaxWaves
      /\ plan.files \in [plan.features -> SUBSET Files] /\ plan.given \subseteq Required
  BY DEF IndInv, Typed, PlanTyped
<1>2. \A x \in DOMAIN task :
       task[x].id \in Ids /\ task[x].part \in Parts
         /\ task[x].depends \subseteq Ids /\ task[x].files \subseteq Files
  BY TasksTyped DEF IndInv, Typed
<1>3. stage = "kahn" => sorted + Cardinality(queue) <= Cardinality(IdsOf(Entries(section)))
  BY DoneFacts
<1>4. QED
  BY <1>1, <1>2, <1>3 DEF IndInv, Typed, Levelled, TypeOK

\* Verdict implies AcceptedIffExecutable.
LEMMA ImpliesAccepted == IndInv => AcceptedIffExecutable
<1> SUFFICES ASSUME IndInv
             PROVE  AcceptedIffExecutable
  OBVIOUS
<1>1. ASSUME stage \in {"levels", "accepted"}, NamesDiffer
      PROVE  Ready
  BY <1>1, SoundIsExecutable DEF IndInv, Typed, Verdict, Accepted, Ready
<1>2. ASSUME stage = "rejected"
      PROVE  ~Ready
  BY <1>2 DEF IndInv, Verdict
<1>3. QED
  BY <1>1, <1>2 DEF AcceptedIffExecutable

\* Placing implies LevelsAreEarliest.
LEMMA ImpliesLevels == IndInv => LevelsAreEarliest
<1> SUFFICES ASSUME IndInv, stage = "accepted", NEW f \in FeatureParts, NEW x \in Entries(f)
             PROVE  LET below == {level[y] : y \in {z \in Entries(f) : task[z].id \in task[x].depends}}
                    IN  /\ level[x] >= 0
                        /\ \A n \in below : n < level[x]
                        /\ level[x] > 0 => level[x] - 1 \in below
  BY DEF LevelsAreEarliest
<1>1. Placing(f) /\ Entries(f) = Placed(f)
  BY DEF IndInv, Levelled
<1>2. x \in Placed(f) /\ level[x] >= 0
  BY <1>1 DEF Placed
<1>3. level[x] \in Nat
  BY <1>2, EntriesFacts DEF IndInv, Levelled
<1>4. \A y \in Entries(f) : task[y].id \in task[x].depends => level[y] < level[x]
  BY <1>1, <1>2, <1>3 DEF Placing
<1>5. level[x] > 0 => \E y \in Entries(f) : task[y].id \in task[x].depends /\ level[y] = level[x] - 1
  BY <1>1, <1>2 DEF Placing
<1>6. QED
  BY <1>2, <1>4, <1>5

\* Walked implies ClosureIsLeast.
LEMMA ImpliesClosure == IndInv => ClosureIsLeast
<1> SUFFICES ASSUME IndInv, stage = "closed", wave > 0, GlobalIds
             PROVE  /\ IsClosed(dirty)
                    /\ \A X \in SUBSET dirty : rerun \subseteq X /\ IsClosed(X) => X = dirty
  BY DEF ClosureIsLeast, GlobalIds
<1>1. plan.waves \in Nat /\ wave = plan.waves + 1
  BY WavesAssumption DEF IndInv, Typed, PlanTyped, Walked
<1>2. IsClosed(dirty)
  BY <1>1 DEF IndInv, Walked, IsClosed
<1>3. ASSUME NEW X \in SUBSET dirty, rerun \subseteq X, IsClosed(X)
      PROVE  X = dirty
  <2>1. dirty \subseteq IdsOf(DOMAIN task)
    BY DEF IndInv, Walked
  <2>2. X \in SUBSET IdsOf(DOMAIN task)
    BY <2>1
  <2>3. dirty \subseteq X
    BY <1>3, <2>2 DEF IndInv, Walked
  <2>4. QED
    BY <2>3
<1>4. QED
  BY <1>2, <1>3

-----------------------------------------------------------------------------
(* The steps up to the checks of a section.                                *)

\* Before the document is parsed the plan is empty.
LEMMA InitEstablishes == Init => IndInv
<1> SUFFICES ASSUME Init
             PROVE  IndInv
  OBVIOUS
<1>1. /\ plan = [waves |-> 0, features |-> {}, tasks |-> <<>>,
                  files |-> [f \in {} |-> FilesOf(<<>>, f)], given |-> Given(<<>>)]
      /\ Given(<<>>) \subseteq Required
  BY DEF Init, Plan, Beginning, Given
<1>2. PlanTyped(plan)
  <2>1. plan.tasks \in Seq(TaskType(PartsOf(plan)))
    BY <1>1
  <2>2. QED
    BY <1>1, <2>1, WavesAssumption DEF PlanTyped
<1>3. DOMAIN task = {}
  BY <1>1 DEF task
<1>4. Typed
  <2>1. inDegree \in [Ids -> Int] /\ wave \in 0 .. MaxWaves + 1
    BY WavesAssumption DEF Init
  <2>2. Parts = {}
    BY <1>1 DEF Parts, FeatureParts
  <2>3. QED
    BY <1>2, <2>1, <2>2 DEF Init, Typed, Stages
<1>5. Sorting /\ Verdict /\ Walked
  BY DEF Init, Sorting, Verdict, Accepted, Walked
<1>6. Levelled
  <2>1. level \in [DOMAIN task -> Nat \cup {-1}]
    BY <1>3 DEF Init
  <2>2. QED
    BY <1>3, <2>1 DEF Init, Levelled, Accepted
<1>7. QED
  BY <1>4, <1>5, <1>6 DEF IndInv

\* _preflight parses the document.
LEMMA ParsePlanKeeps == IndInv /\ ParsePlan => IndInv'
<1> SUFFICES ASSUME IndInv, ParsePlan
             PROVE  IndInv'
  OBVIOUS
<1>1. PlanTyped(plan')
  BY ParseTyped DEF ParsePlan, IndInv, Typed
<1>2. /\ stage = "parse" /\ stage' = "wave" /\ document' = document
      /\ todo' = todo /\ section' = section /\ inDegree' = inDegree /\ sorted' = sorted
      /\ queue' = queue /\ errors' = errors /\ rerun' = rerun /\ dirty' = dirty /\ wave' = wave
  BY DEF ParsePlan, kahn, closure
<1>3. errors = {} /\ wave = 0 /\ todo = {} /\ section = NoPart
  BY <1>2 DEF IndInv, Typed, Verdict, Walked
<1>4. Typed'
  BY <1>1, <1>2, <1>3 DEF IndInv, Typed, Stages
<1>5. Sorting' /\ Walked'
  BY <1>2, <1>3 DEF Sorting, Walked
<1>6. Verdict'
  BY <1>2, <1>3 DEF Verdict, Accepted
<1>7. Levelled'
  <2>1. level' = [x \in DOMAIN task' |-> -1]
    BY DEF ParsePlan, task
  <2>2. level' \in [DOMAIN task' -> Nat \cup {-1}] /\ \A x \in DOMAIN task' : level'[x] = -1
    BY <2>1
  <2>3. QED
    BY <1>2, <2>2 DEF Levelled, Accepted
<1>8. QED
  BY <1>4, <1>5, <1>6, <1>7 DEF IndInv

\* A section with an unknown name.
LEMMA RejectNamesKeeps ==
  ASSUME IndInv, NEW s \in Parts, RejectNames(s)
  PROVE  IndInv'
<1>1. plan' = plan /\ ~Accepted /\ ~Accepted' /\ stage = "section" /\ stage' = stage
  BY DEF RejectNames, Accepted
<1>2. Typed'
  <2>1. errors' \subseteq ErrorKinds \X (Parts \cup {NoPart})
    BY DEF RejectNames, IndInv, Typed, ErrorKinds
  <2>2. QED
    BY <1>1, <2>1, SamePlan DEF RejectNames, IndInv, Typed, kahn, closure
<1>3. Sorting'
  BY <1>1 DEF Sorting
<1>4. Verdict'
  <2>1. ~Ready
    BY BadNameIsError DEF RejectNames, Ready
  <2>2. errors' # {}
    BY DEF RejectNames
  <2>3. QED
    BY <1>1, <2>1, <2>2, SamePlan DEF Verdict
<1>5. Levelled'
  BY <1>1, SamePlan DEF RejectNames, IndInv, Levelled
<1>6. Walked'
  BY <1>1 DEF RejectNames, IndInv, Walked, closure
<1>7. QED
  BY <1>2, <1>3, <1>4, <1>5, <1>6 DEF IndInv

\* The comparisons between sections.
LEMMA CheckWaveKeeps == IndInv /\ CheckWave => IndInv'
<1> SUFFICES ASSUME IndInv, CheckWave
             PROVE  IndInv'
  OBVIOUS
<1>1. plan' = plan /\ ~Accepted /\ ~Accepted' /\ stage = "wave" /\ stage' = "section"
  BY DEF CheckWave, Accepted
<1>2. Typed'
  <2>1. Duplicated \subseteq Parts /\ Shared \subseteq Parts /\ Elsewhere \subseteq Parts
    BY PartsTyped DEF Duplicated, Compared, Shared, Elsewhere, IndInv, Typed
  <2>2. errors' \subseteq ErrorKinds \X (Parts \cup {NoPart})
    BY <2>1 DEF CheckWave, ErrorKinds
  <2>3. todo' \subseteq Parts
    BY DEF CheckWave
  <2>4. QED
    BY <1>1, <2>2, <2>3, SamePlan DEF CheckWave, IndInv, Typed, Stages, kahn, closure
<1>3. Sorting'
  BY <1>1 DEF Sorting
<1>4. Verdict'
  <2>1. errors' # {} => ~Ready
    <3>1. CASE Duplicated # {}
      BY <3>1, DuplicateIsError DEF IndInv, Typed, Ready
    <3>2. CASE Shared # {}
      BY <3>2, SharedIsError DEF IndInv, Typed, Executable, Ready
    <3>3. CASE Elsewhere # {}
      BY <3>3, ElsewhereIsError DEF IndInv, Typed, Ready
    <3>4. QED
      BY <3>1, <3>2, <3>3 DEF CheckWave
  <2>2. ASSUME errors' = {}
        PROVE  Duplicated = {} /\ Shared = {}
    <3>1. Duplicated = {}
      <4>1. \A r \in Duplicated : <<"duplicate", r>> \in errors'
        BY DEF CheckWave
      <4>2. QED
        BY <2>2, <4>1
    <3>2. Shared = {}
      <4>1. \A r \in Shared : <<"files", r>> \in errors'
        BY DEF CheckWave
      <4>2. QED
        BY <2>2, <4>1
    <3>3. QED
      BY <3>1, <3>2
  <2>3. \A s \in Parts \ todo' : Sound(s)
    <3>1. \A s \in Parts \ todo' : Entries(s) = {}
      BY DEF CheckWave
    <3>2. QED
      BY <3>1 DEF Sound, OneEach, BadNames
  <2>4. QED
    BY <1>1, <2>1, <2>2, <2>3, SamePlan DEF Verdict
<1>5. Levelled'
  BY <1>1, SamePlan DEF CheckWave, IndInv, Levelled
<1>6. Walked'
  BY <1>1 DEF CheckWave, IndInv, Walked, closure
<1>7. QED
  BY <1>2, <1>3, <1>4, <1>5, <1>6 DEF IndInv

-----------------------------------------------------------------------------
(* Kahn's algorithm.                                                       *)

\* Of the entries with one id there is a last one.
LEMMA LastEntryIs ==
  ASSUME PlanTyped(plan), NEW s, NEW i \in IdsOf(Entries(s))
  PROVE  LastEntry(s, i) \in Entries(s) /\ task[LastEntry(s, i)].id = i
<1> DEFINE T == {x \in Entries(s) : task[x].id = i}
<1>1. T # {}
  BY DEF IdsOf
<1>2. T \in SUBSET (0 .. Len(task)) /\ Len(task) \in Nat
  BY TasksTyped, EntriesFacts
<1>3. \E x \in T : \A y \in T : y <= x
  <2> HIDE DEF T
  <2>1. QED
    BY <1>1, <1>2, Greatest
<1>4. \E x \in Entries(s) :
        task[x].id = i /\ \A y \in Entries(s) : task[y].id = i => y <= x
  BY <1>3
<1>5. QED
  BY <1>4 DEF LastEntry

\* in_degree is set up.
LEMMA StartSortKeeps ==
  ASSUME IndInv, NEW s \in Parts, StartSort(s)
  PROVE  IndInv'
<1> DEFINE E == Entries(s)
           V == IdsOf(Entries(s))
<1>1. /\ plan' = plan /\ ~Accepted /\ ~Accepted' /\ stage = "section" /\ stage' = "kahn"
      /\ section' = s /\ s \in todo /\ ~BadNames(s) /\ sorted' = 0
      /\ inDegree' = [i \in Ids |->
           IF i \in V THEN Cardinality(task[LastEntry(s, i)].depends) ELSE 0]
      /\ queue' = {i \in V : inDegree'[i] = 0}
  BY DEF StartSort, Accepted
<1>2. PlanTyped(plan)
  BY DEF IndInv, Typed
<1>3. V \subseteq Ids
  BY <1>2, TasksTyped, EntriesFacts DEF IdsOf
<1>4. \A i \in V : LastEntry(s, i) \in E /\ task[LastEntry(s, i)].id = i
  BY <1>2, LastEntryIs
<1>5. \A i \in V : inDegree'[i] \in Nat
  <2>1. SUFFICES ASSUME NEW i \in V
                 PROVE  inDegree'[i] \in Nat
    OBVIOUS
  <2>2. LastEntry(s, i) \in DOMAIN task
    BY <1>4, EntriesFacts
  <2>3. Cardinality(task[LastEntry(s, i)].depends) \in Nat
    BY <1>2, <2>2, TasksTyped, FS_CardinalityType
  <2>4. QED
    BY <1>1, <1>3, <2>3
<1>6. Typed'
  <2>1. inDegree' \in [Ids -> Int]
    <3>1. \A i \in Ids : (IF i \in V THEN Cardinality(task[LastEntry(s, i)].depends) ELSE 0) \in Int
      BY <1>1, <1>3, <1>5
    <3> HIDE DEF V
    <3>2. QED
      BY <1>1, <3>1
  <2>2. queue' \subseteq Ids
    BY <1>1, <1>3
  <2>3. QED
    BY <1>1, <2>1, <2>2, SamePlan DEF StartSort, IndInv, Typed, Stages, closure
<1>7. Done' = {}
  <2>1. Done' = {i \in V : inDegree'[i] <= 0 /\ i \notin queue'}
    BY <1>1, SamePlan DEF Done
  <2>2. QED
    BY <1>1, <1>5, <2>1
<1>8. \A x \in E : Alone(x)' => inDegree'[task[x].id] = Cardinality(task[x].depends)
  <2>1. SUFFICES ASSUME NEW x \in E, Alone(x)'
                 PROVE  inDegree'[task[x].id] = Cardinality(task[x].depends)
    OBVIOUS
  <2>2. task[x].id \in V
    BY IdsOfFacts
  <2>3. LastEntry(s, task[x].id) = x
    BY <1>1, <1>4, <2>1, <2>2, SamePlan DEF Alone
  <2>4. QED
    BY <1>1, <1>3, <2>2, <2>3
<1>9. Sorting'
  <2>1. OneEach(E) => \A x \in E : Alone(x)'
    BY <1>1, SamePlan DEF OneEach, Alone
  <2>2. ASSUME OneEach(E), NEW X \in SUBSET E, NEW x \in X, task[x].depends # {}
        PROVE  inDegree'[task[x].id] > 0
    <3>1. inDegree'[task[x].id] = Cardinality(task[x].depends) /\ x \in DOMAIN task
      BY <1>8, <2>1, <2>2, EntriesFacts
    <3>2. QED
      BY <1>2, <2>2, <3>1, TasksTyped, FS_EmptySet, FS_CardinalityType
  <2>3. queue' \subseteq {i \in V : inDegree'[i] <= 0} /\ sorted' = Cardinality(Done')
    BY <1>1, <1>7, FS_EmptySet
  <2>4. \A x \in E : task[x].depends \ Done' = task[x].depends
    BY <1>7
  <2>5. \A x \in E : Alone(x)' => inDegree'[task[x].id] = Cardinality(task[x].depends \ Done')
    BY <1>8, <2>4
  <2>6. ASSUME OneEach(E), NEW X \in SUBSET E, \A x \in X : task[x].depends \cap IdsOf(X) # {}
        PROVE  \A x \in X : inDegree'[task[x].id] > 0
    BY <2>2, <2>6
  <2>7. section' \in todo' /\ ~BadNames(section)'
    BY <1>1, SamePlan DEF StartSort
  <2>8. QED
    BY <1>1, <2>3, <2>5, <2>6, <2>7, SamePlan DEF Sorting
<1>10. Verdict'
  BY <1>1, SamePlan DEF StartSort, IndInv, Verdict
<1>11. Levelled'
  BY <1>1, SamePlan DEF StartSort, IndInv, Levelled
<1>12. Walked'
  BY <1>1 DEF StartSort, IndInv, Walked, closure
<1>13. QED
  BY <1>6, <1>9, <1>10, <1>11, <1>12 DEF IndInv

\* An entry that is alone with its id loses a dependency just if it has it.
LEMMA DecrementIs ==
  ASSUME PlanTyped(plan), NEW i, NEW d
  PROVE  /\ Decrement(i, d) \in Nat
         /\ Decrement(i, d) > 0 => i \in IdsOf(Entries(section))
         /\ \A x \in Entries(section) :
              Alone(x) /\ task[x].id = i =>
                Decrement(i, d) = IF d \in task[x].depends THEN 1 ELSE 0
<1> DEFINE D == {x \in Entries(section) : task[x].id = i /\ d \in task[x].depends}
<1>1. IsFiniteSet(D)
  <2>1. D \in SUBSET DOMAIN task
    BY EntriesFacts
  <2>2. QED
    BY <2>1, CountIds
<1>2. Decrement(i, d) = Cardinality(D)
  BY DEF Decrement
<1>3. Cardinality(D) \in Nat /\ (Cardinality(D) > 0 => D # {})
  <2> HIDE DEF D
  <2>1. QED
    BY <1>1, FS_CardinalityType, FS_EmptySet
<1>4. D # {} => i \in IdsOf(Entries(section))
  BY DEF IdsOf
<1>5. ASSUME NEW x \in Entries(section), Alone(x), task[x].id = i
      PROVE  Cardinality(D) = IF d \in task[x].depends THEN 1 ELSE 0
  <2>1. D = IF d \in task[x].depends THEN {x} ELSE {}
    BY <1>5 DEF Alone
  <2> HIDE DEF D
  <2>2. QED
    BY <2>1, FS_Singleton, FS_EmptySet
<1>6. QED
  BY <1>2, <1>3, <1>4, <1>5

\* One turn of the loop.
LEMMA PopKeeps ==
  ASSUME IndInv, NEW d \in Ids, Pop(d)
  PROVE  IndInv'
<1> DEFINE E == Entries(section)
           V == IdsOf(Entries(section))
<1>1. /\ plan' = plan /\ ~Accepted /\ ~Accepted' /\ stage = "kahn" /\ stage' = "kahn"
      /\ section' = section /\ todo' = todo /\ errors' = errors /\ level' = level
      /\ sorted' = sorted + 1 /\ d \in queue
      /\ inDegree' = [i \in Ids |-> inDegree[i] - Decrement(i, d)]
      /\ queue' = (queue \ {d}) \cup
           {i \in Ids : Decrement(i, d) > 0 /\ inDegree'[i] <= 0 /\ inDegree[i] > 0}
  BY DEF Pop, Accepted, Queued
<1>2. PlanTyped(plan) /\ inDegree \in [Ids -> Int] /\ sorted \in Nat /\ queue \subseteq Ids
  BY DEF IndInv, Typed
<1>3. V \subseteq Ids
  BY <1>2, TasksTyped, EntriesFacts DEF IdsOf
<1>4. \A i \in Ids : inDegree[i] \in Int /\ Decrement(i, d) \in Nat
                       /\ inDegree'[i] = inDegree[i] - Decrement(i, d)
  BY <1>1, <1>2, DecrementIs
<1>5. queue \subseteq {i \in V : inDegree[i] <= 0}
  BY <1>1 DEF IndInv, Sorting
<1>6. Typed'
  <2>1. inDegree' \in [Ids -> Int]
    <3>1. \A i \in Ids : inDegree[i] - Decrement(i, d) \in Int
      BY <1>4
    <3>2. QED
      BY <1>1, <3>1
  <2>2. queue' \subseteq Ids /\ sorted' \in Nat
    BY <1>1, <1>2
  <2>3. QED
    BY <1>1, <2>1, <2>2, SamePlan DEF Pop, IndInv, Typed, Stages, closure
<1>7. queue' \subseteq {i \in V : inDegree'[i] <= 0}
  <2>1. ASSUME NEW i \in queue \ {d}
        PROVE  i \in V /\ inDegree'[i] <= 0
    BY <1>3, <1>4, <1>5
  <2>2. ASSUME NEW i \in Ids, Decrement(i, d) > 0, inDegree'[i] <= 0
        PROVE  i \in V
    BY <1>2, <2>2, DecrementIs
  <2>3. QED
    BY <1>1, <2>1, <2>2
<1>8. Done' = {i \in V : inDegree'[i] <= 0 /\ i \notin queue'}
  BY <1>1, SamePlan DEF Done
<1>9. Done' = Done \cup {d} /\ d \notin Done
  <2>1. d \in V /\ inDegree[d] <= 0 /\ d \in Ids
    BY <1>1, <1>3, <1>5
  <2>2. d \notin queue' /\ inDegree'[d] <= 0
    BY <1>1, <1>4, <2>1
  <2>3. ASSUME NEW i \in Done
        PROVE  i \in Done'
    <3>1. i \in V /\ i \in Ids /\ inDegree[i] <= 0 /\ i \notin queue
      BY <1>3 DEF Done
    <3>2. inDegree'[i] <= 0 /\ ~(inDegree[i] > 0)
      BY <1>4, <3>1
    <3>3. i \notin queue'
      BY <1>1, <3>1, <3>2
    <3>4. QED
      BY <1>8, <3>1, <3>2, <3>3
  <2>4. ASSUME NEW i \in Done', i # d
        PROVE  i \in Done
    <3>1. i \in V /\ inDegree'[i] <= 0 /\ i \notin queue' /\ i \in Ids
      BY <1>3, <1>8
    <3>2. CASE inDegree[i] <= 0
      BY <1>1, <2>4, <3>1, <3>2 DEF Done
    <3>3. CASE inDegree[i] > 0
      BY <1>1, <1>4, <3>1, <3>3
    <3>4. QED
      BY <1>4, <3>1, <3>2, <3>3
  <2>5. QED
    BY <1>1, <1>8, <2>1, <2>2, <2>3, <2>4 DEF Done
<1>10. sorted' = Cardinality(Done')
  BY <1>1, <1>9, DoneFacts, FS_AddElement DEF IndInv, Sorting
<1>11. ASSUME NEW x \in E, Alone(x)
       PROVE  inDegree'[task[x].id] = Cardinality(task[x].depends \ Done')
  <2>1. task[x].id \in V /\ x \in DOMAIN task
    BY IdsOfFacts, EntriesFacts
  <2>2. inDegree[task[x].id] = Cardinality(task[x].depends \ Done)
    BY <1>1, <1>11 DEF IndInv, Sorting
  <2>3. Decrement(task[x].id, d) = IF d \in task[x].depends THEN 1 ELSE 0
    BY <1>2, <1>11, DecrementIs
  <2>4. IsFiniteSet(task[x].depends \ Done)
    BY <1>2, <2>1, TasksTyped, FS_Subset
  <2>5. task[x].depends \ Done' = (task[x].depends \ Done) \ {d}
    BY <1>9
  <2>6. Cardinality(task[x].depends \ Done') =
          IF d \in task[x].depends \ Done THEN Cardinality(task[x].depends \ Done) - 1
          ELSE Cardinality(task[x].depends \ Done)
    BY <2>4, <2>5, FS_RemoveElement
  <2>7. Cardinality(task[x].depends \ Done) \in Nat
    BY <2>4, FS_CardinalityType
  <2>8. QED
    BY <1>3, <1>4, <1>9, <2>1, <2>2, <2>3, <2>6, <2>7
<1>12. ASSUME OneEach(E), NEW X \in SUBSET E, \A x \in X : task[x].depends \cap IdsOf(X) # {}
       PROVE  \A x \in X : inDegree'[task[x].id] > 0
  <2>1. \A x \in X : inDegree[task[x].id] > 0
    BY <1>1, <1>12 DEF IndInv, Sorting
  <2>2. IdsOf(X) \cap Done' = {}
    <3>1. \A x \in X : task[x].id \in Ids /\ inDegree[task[x].id] \in Int
      BY <1>3, <1>4, IdsOfFacts
    <3>2. \A x \in X : task[x].id \notin Done /\ task[x].id # d
      BY <1>1, <1>5, <2>1, <3>1 DEF Done
    <3>3. QED
      BY <1>9, <3>2 DEF IdsOf
  <2>3. SUFFICES ASSUME NEW x \in X
                 PROVE  inDegree'[task[x].id] > 0
    OBVIOUS
  <2>4. Alone(x)
    BY <1>12 DEF OneEach, Alone
  <2>5. inDegree'[task[x].id] = Cardinality(task[x].depends \ Done')
    BY <1>11, <2>4
  <2>6. task[x].depends \ Done' # {}
    BY <1>12, <2>2
  <2>7. x \in DOMAIN task
    BY EntriesFacts
  <2>8. IsFiniteSet(task[x].depends \ Done')
    BY <1>2, <2>7, TasksTyped, FS_Subset
  <2>9. QED
    BY <2>5, <2>6, <2>8, FS_CardinalityType, FS_EmptySet
<1>13. Sorting'
  <2>1. section' \in todo' /\ ~BadNames(section)'
    BY <1>1, SamePlan DEF IndInv, Sorting
  <2>2. \A x \in E : Alone(x)' <=> Alone(x)
    BY <1>1, SamePlan DEF Alone
  <2>3. QED
    BY <1>1, <1>7, <1>10, <1>11, <1>12, <2>1, <2>2, SamePlan DEF Sorting
<1>14. Verdict'
  BY <1>1, SamePlan DEF IndInv, Verdict
<1>15. Levelled'
  BY <1>1, SamePlan DEF IndInv, Levelled
<1>16. Walked'
  BY <1>1 DEF Pop, IndInv, Walked, closure
<1>17. QED
  BY <1>6, <1>13, <1>14, <1>15, <1>16 DEF IndInv

\* If the count is complete all ids differ and none waits for itself, through
\* whichever others.
LEMMA SortedIsSound ==
  ASSUME IndInv, stage = "kahn", queue = {}, Complete
  PROVE  Sound(section)
<1> DEFINE E == Entries(section)
           V == IdsOf(Entries(section))
<1>1. PlanTyped(plan) /\ sorted = Cardinality(Done) /\ sorted = Cardinality(E)
  BY DEF IndInv, Typed, Sorting, Complete
<1>2. /\ IsFiniteSet(V) /\ Cardinality(V) \in Nat /\ Cardinality(E) \in Nat
      /\ Cardinality(V) <= Cardinality(E)
      /\ Cardinality(V) = Cardinality(E) => OneEach(E)
  BY <1>1, CountIds, EntriesFacts
<1>3. Done \subseteq V
  BY DEF Done
<1>4. Cardinality(Done) <= Cardinality(V) /\ (Cardinality(Done) = Cardinality(V) => Done = V)
  BY <1>2, <1>3, FS_Subset
<1>5. OneEach(E) /\ Done = V
  BY <1>1, <1>2, <1>4
<1>6. ASSUME NEW X \in SUBSET E, \A x \in X : task[x].depends \cap IdsOf(X) # {}
      PROVE  X = {}
  <2>1. \A x \in X : inDegree[task[x].id] > 0
    BY <1>5, <1>6 DEF IndInv, Sorting
  <2>2. \A x \in X : task[x].id \in Done
    BY <1>5, IdsOfFacts
  <2>3. \A x \in X : inDegree[task[x].id] \in Int
    <3>1. \A x \in X : task[x].id \in Ids
      BY <1>1, TasksTyped, EntriesFacts
    <3>2. QED
      BY <3>1 DEF IndInv, Typed
  <2>4. QED
    BY <2>1, <2>2, <2>3 DEF Done
<1>7. QED
  BY <1>5, <1>6 DEF Sound, IndInv, Sorting

\* If it is not, and the ids differ, those that were not popped wait for each
\* other.
LEMMA CycleIsError ==
  ASSUME IndInv, stage = "kahn", queue = {}, ~Complete
  PROVE  ~Executable
<1> DEFINE E == Entries(section)
           V == IdsOf(Entries(section))
           X == {x \in E : task[x].id \notin Done}
<1>1. SUFFICES ASSUME Executable
               PROVE  FALSE
  OBVIOUS
<1>2. PlanTyped(plan) /\ sorted = Cardinality(Done) /\ sorted # Cardinality(E)
  BY DEF IndInv, Typed, Sorting, Complete
<1>3. section \in Parts
  BY DEF IndInv, Typed, Sorting
<1>4. OneEach(E)
  BY <1>1, EntriesFacts DEF Executable, UniqueIds, OneEach
<1>5. Cardinality(V) = Cardinality(E)
  BY <1>2, <1>4, CountIds, EntriesFacts
<1>6. Done # V /\ Done \subseteq V
  BY <1>2, <1>5 DEF Done
<1>7. X \in (SUBSET E) \ {{}}
  BY <1>6 DEF IdsOf
<1>8. ASSUME NEW x \in X
      PROVE  task[x].depends \cap IdsOf(X) # {}
  <2>1. Alone(x) /\ task[x].id \in V /\ x \in DOMAIN task /\ x \in E
    BY <1>4, IdsOfFacts, EntriesFacts DEF OneEach, Alone
  <2>2. inDegree[task[x].id] = Cardinality(task[x].depends \ Done)
    BY <2>1 DEF IndInv, Sorting
  <2>3. ~(inDegree[task[x].id] <= 0)
    BY <2>1 DEF Done
  <2>4. task[x].depends \ Done # {}
    BY <2>2, <2>3, FS_EmptySet
  <2>5. PICK j \in task[x].depends : j \notin Done
    BY <2>4
  <2>6. j \in V
    BY <1>1, <1>3, <2>1 DEF Executable, Closed
  <2>7. PICK y \in E : task[y].id = j
    BY <2>6, IdsOfFacts
  <2>8. y \in X
    BY <2>5, <2>7
  <2>9. j \in IdsOf(X)
    BY <2>7, <2>8, IdsOfFacts
  <2>10. QED
    BY <2>5, <2>9
<1>9. ~Acyclic
  <2> HIDE DEF X
  <2>1. QED
    BY <1>3, <1>7, <1>8 DEF Acyclic
<1>10. QED
  BY <1>1, <1>9 DEF Executable

\* sorted_count is compared with the number of tasks.
LEMMA EndSortKeeps == IndInv /\ EndSort => IndInv'
<1> SUFFICES ASSUME IndInv, EndSort
             PROVE  IndInv'
  OBVIOUS
<1>1. /\ plan' = plan /\ ~Accepted /\ ~Accepted' /\ stage = "kahn" /\ stage' = "section"
      /\ queue = {} /\ todo' = todo \ {section} /\ section' = NoPart
      /\ errors' = IF Complete THEN errors ELSE errors \cup {<<"cycle", section>>}
  BY DEF EndSort, Accepted
<1>2. Typed'
  <2>1. errors' \subseteq ErrorKinds \X (Parts \cup {NoPart})
    BY <1>1 DEF IndInv, Typed, ErrorKinds
  <2>2. QED
    BY <1>1, <2>1, SamePlan DEF EndSort, IndInv, Typed, Stages, closure, NoPart
<1>3. Sorting'
  BY <1>1 DEF Sorting
<1>4. Verdict'
  <2>1. CASE Complete
    <3>1. errors' = errors /\ Sound(section)
      BY <1>1, <2>1, SortedIsSound
    <3>2. QED
      BY <1>1, <3>1, SamePlan DEF IndInv, Verdict
  <2>2. CASE ~Complete
    <3>1. errors' # {} /\ ~Ready
      BY <1>1, <2>2, CycleIsError DEF Ready
    <3>2. QED
      BY <1>1, <3>1, SamePlan DEF Verdict
  <2>3. QED
    BY <2>1, <2>2
<1>5. Levelled'
  BY <1>1, SamePlan DEF EndSort, IndInv, Levelled
<1>6. Walked'
  BY <1>1 DEF EndSort, IndInv, Walked, closure
<1>7. QED
  BY <1>2, <1>3, <1>4, <1>5, <1>6 DEF IndInv

\* Placing is about the levels of one feature.
LEMMA PlacingKept ==
  ASSUME plan' = plan, NEW f, \A x \in Entries(f) : level'[x] = level[x]
  PROVE  Placed(f)' = Placed(f) /\ LevelOf(f)' = LevelOf(f) /\ (Placing(f) => Placing(f)')
<1>1. Placed(f)' = Placed(f) /\ Placed(f) \subseteq Entries(f)
  BY SamePlan DEF Placed
<1>2. {level'[x] : x \in Placed(f)'} = {level[x] : x \in Placed(f)}
  BY <1>1
<1>3. LevelOf(f)' = LevelOf(f)
  <2>1. LevelOf(f) = Cardinality({level[x] : x \in Placed(f)})
    BY DEF LevelOf, Placed
  <2>2. LevelOf(f)' = Cardinality({level'[x] : x \in Placed(f)'})
    BY DEF LevelOf, Placed
  <2>3. QED
    BY <1>2, <2>1, <2>2
<1>4. ASSUME Placing(f)
      PROVE  Placing(f)'
  <2>1. {level'[x] : x \in Placed(f)'} = 0 .. LevelOf(f)' - 1
    BY <1>2, <1>3, <1>4 DEF Placing
  <2>2. \A x \in Placed(f)', y \in Entries(f)' :
          task'[y].id \in task'[x].depends => level'[y] \in 0 .. level'[x] - 1
    BY <1>1, <1>4, SamePlan DEF Placing
  <2>3. \A x \in Placed(f)' :
          level'[x] > 0 => \E y \in Entries(f)' :
                             task'[y].id \in task'[x].depends /\ level'[y] = level'[x] - 1
    BY <1>1, <1>4, SamePlan DEF Placing
  <2>4. IdsOf(BelowLast(f))' = IdsOf(BelowLast(f))
    <3>1. BelowLast(f)' = BelowLast(f)
      BY <1>1, <1>3 DEF BelowLast
    <3>2. QED
      BY <3>1, SamePlan DEF IdsOf
  <2>5. \A x \in Entries(f)' \ Placed(f)' :
          LevelOf(f)' > 0 =>
            ~(task'[x].depends \subseteq IdsOf(BelowLast(f))')
    BY <1>1, <1>3, <1>4, <2>4, SamePlan DEF Placing
  <2>6. QED
    BY <2>1, <2>2, <2>3, <2>5 DEF Placing
<1>5. QED
  BY <1>1, <1>3, <1>4

\* It holds before the first round.
LEMMA NothingPlaced ==
  ASSUME NEW f, \A x \in Entries(f) : level[x] = -1
  PROVE  Placing(f)
<1>1. Placed(f) = {}
  BY DEF Placed
<1>2. LevelOf(f) = 0
  <2>1. {level[x] : x \in Placed(f)} = {}
    BY <1>1
  <2>2. QED
    BY <2>1, FS_EmptySet DEF LevelOf, Placed
<1>3. QED
  BY <1>1, <1>2 DEF Placing

\* The verdict.
LEMMA EndChecksKeeps == IndInv /\ EndChecks => IndInv'
<1> SUFFICES ASSUME IndInv, EndChecks
             PROVE  IndInv'
  OBVIOUS
<1>1. /\ plan' = plan /\ ~Accepted /\ stage = "section" /\ todo = {}
      /\ errors' = errors \cup (Lacking \X {NoPart})
      /\ level' = level /\ wave' = wave
  BY DEF EndChecks, Accepted, closure
<1>2. \/ /\ errors' = {} /\ stage' = "levels" /\ Accepted'
         /\ todo' = {f \in FeatureParts : Entries(f) # {}}
      \/ errors' # {} /\ stage' = "rejected" /\ ~Accepted' /\ todo' = todo
  BY DEF EndChecks, Accepted
<1>3. Typed'
  <2>1. todo' \subseteq Parts
    BY <1>2, PartsTyped DEF IndInv, Typed
  <2>2. Lacking \subseteq ErrorKinds
    BY DEF Lacking, ErrorKinds
  <2>3. errors' \subseteq ErrorKinds \X (Parts \cup {NoPart})
    BY <1>1, <2>2 DEF IndInv, Typed
  <2>4. QED
    BY <1>1, <1>2, <2>1, <2>3, SamePlan DEF EndChecks, IndInv, Typed, Stages, kahn, closure
<1>4. Sorting'
  BY <1>2 DEF Sorting
<1>5. Verdict'
  <2>1. plan.waves \in Nat /\ plan.given \subseteq Required
    BY WavesAssumption DEF IndInv, Typed, PlanTyped
  <2>2. Lacking # {} => ~Ready
    BY DEF Lacking, Ready, Executable
  <2>3. errors' # {} => ~Ready
    BY <1>1, <2>2 DEF IndInv, Verdict
  <2>4. ASSUME errors' = {}
        PROVE  errors = {} /\ plan.waves > 0 /\ plan.given = Required
    <3>1. errors = {}
      BY <1>1, <2>4
    <3>2. \A k \in Lacking : <<k, NoPart>> \in errors'
      BY <1>1
    <3>3. Lacking = {}
      BY <2>4, <3>2
    <3>4. QED
      BY <2>1, <3>1, <3>3 DEF Lacking
  <2>5. QED
    BY <1>1, <1>2, <2>3, <2>4, SamePlan DEF IndInv, Verdict
<1>6. Levelled'
  <2>1. \A x \in DOMAIN task : level[x] = -1
    BY <1>1 DEF IndInv, Levelled
  <2>2. \A f : Placing(f) => Placing(f)'
    BY <1>1, PlacingKept
  <2>3. \A f : Placing(f)
    BY <2>1, NothingPlaced, EntriesFacts
  <2>4. \A f \in FeatureParts \ {g \in FeatureParts : Entries(g) # {}} : Entries(f) = Placed(f)'
    BY SamePlan, <1>1 DEF Placed
  <2>5. QED
    BY <1>1, <1>2, <2>1, <2>2, <2>3, <2>4, SamePlan DEF IndInv, Levelled
<1>7. Walked'
  BY <1>1, <1>2 DEF IndInv, Walked
<1>8. QED
  BY <1>3, <1>4, <1>5, <1>6, <1>7 DEF IndInv

\* All features have their levels.
LEMMA EndLevelsKeeps == IndInv /\ EndLevels => IndInv'
<1> SUFFICES ASSUME IndInv, EndLevels
             PROVE  IndInv'
  OBVIOUS
<1>1. /\ plan' = plan /\ Accepted /\ Accepted' /\ stage = "levels" /\ stage' = "accepted"
      /\ todo = {} /\ todo' = todo /\ errors' = errors /\ level' = level /\ wave' = wave
  BY DEF EndLevels, Accepted, closure
<1>2. Typed'
  BY <1>1, SamePlan DEF EndLevels, IndInv, Typed, Stages, kahn, closure
<1>3. Sorting'
  BY <1>1 DEF Sorting
<1>4. Verdict'
  BY <1>1, SamePlan DEF IndInv, Verdict
<1>5. Levelled'
  <2>1. \A f : Placing(f) => Placing(f)'
    BY <1>1, PlacingKept
  <2>2. \A f : Placed(f)' = Placed(f)
    BY <1>1, PlacingKept
  <2>3. QED
    BY <1>1, <2>1, <2>2, SamePlan DEF IndInv, Levelled
<1>6. Walked'
  BY <1>1 DEF IndInv, Walked
<1>7. QED
  BY <1>2, <1>3, <1>4, <1>5, <1>6 DEF IndInv

-----------------------------------------------------------------------------
(* The rounds of build_dag.                                                *)

\* The next level is the number of those there are.
LEMMA LevelOfFacts ==
  ASSUME PlanTyped(plan), NEW f
  PROVE  /\ IsFiniteSet({level[x] : x \in Placed(f)})
         /\ LevelOf(f) = Cardinality({level[x] : x \in Placed(f)})
         /\ LevelOf(f) \in Nat
<1> DEFINE S == {level[x] : x \in Placed(f)}
           g == [x \in Placed(f) |-> level[x]]
<1>1. Placed(f) \in SUBSET DOMAIN task
  BY EntriesFacts DEF Placed
<1>2. IsFiniteSet(Placed(f))
  BY <1>1, CountIds
<1>3. g \in Surjection(Placed(f), S)
  BY DEF Surjection
<1>4. IsFiniteSet(S)
  <2> HIDE DEF g, S
  <2>1. QED
    BY <1>2, <1>3, FS_Surjection
<1>5. LevelOf(f) = Cardinality(S)
  BY DEF LevelOf, Placed
<1>6. QED
  BY <1>4, <1>5, FS_CardinalityType

\* A round that places no task of a sound feature has none to place.
LEMMA AllPlaced ==
  ASSUME NEW f, Sound(f), \A x \in Entries(f) \ Placed(f) : ~Placeable(x, Placed(f))
  PROVE  Entries(f) = Placed(f)
<1> DEFINE X == Entries(f) \ Placed(f)
<1>1. ASSUME NEW x \in X
      PROVE  task[x].depends \cap IdsOf(X) # {}
  <2>1. PICK j \in task[x].depends : j \notin IdsOf(Placed(f))
    BY DEF Placeable
  <2>2. j \in IdsOf(Entries(f))
    BY EntriesFacts DEF Sound, BadNames, Known
  <2>3. PICK y \in Entries(f) : task[y].id = j
    BY <2>2, IdsOfFacts
  <2>4. y \in X
    BY <2>1, <2>3, IdsOfFacts
  <2>5. QED
    BY <2>1, <2>3, <2>4, IdsOfFacts
<1>2. X \in SUBSET Entries(f)
  OBVIOUS
<1>3. X = {}
  <2> HIDE DEF X
  <2>1. QED
    BY <1>1, <1>2 DEF Sound
<1>4. QED
  BY <1>3 DEF Placed

\* One round.
LEMMA PlaceLevelKeeps ==
  ASSUME IndInv, NEW f \in Parts, PlaceLevel(f)
  PROVE  IndInv'
<1> DEFINE E == Entries(f)
           placed == Placed(f)
           new == {x \in E \ placed : Placeable(x, placed)}
           L == LevelOf(f)
<1>1. /\ plan' = plan /\ Accepted /\ Accepted' /\ stage = "levels" /\ stage' = "levels"
      /\ f \in todo /\ errors' = errors /\ wave' = wave
      /\ level' = [x \in DOMAIN task |-> IF x \in new THEN L ELSE level[x]]
      /\ todo' = IF new = {} \/ placed \cup new = E THEN todo \ {f} ELSE todo
  BY DEF PlaceLevel, Accepted, closure, Placed
<1>2. PlanTyped(plan) /\ f \in FeatureParts /\ Placing(f) /\ Sound(f)
  BY <1>1 DEF IndInv, Typed, Levelled, Verdict
<1>3. /\ level \in [DOMAIN task -> Nat \cup {-1}] /\ L \in Nat
      /\ E \subseteq DOMAIN task /\ placed \subseteq E /\ new \subseteq E \ placed
  BY <1>2, LevelOfFacts, EntriesFacts DEF IndInv, Levelled, Placed
<1>4. Typed'
  <2>1. todo' \subseteq Parts
    BY <1>1 DEF IndInv, Typed
  <2>2. QED
    BY <1>1, <2>1, SamePlan DEF PlaceLevel, IndInv, Typed, Stages, kahn, closure
<1>5. Sorting'
  BY <1>1 DEF Sorting
<1>6. Verdict'
  BY <1>1, SamePlan DEF IndInv, Verdict
<1>7. level' \in [DOMAIN task' -> Nat \cup {-1}]
  BY <1>1, <1>3, SamePlan
<1> HIDE DEF new, L, placed
<1>8. /\ \A x \in E \ new : level'[x] = level[x]
      /\ \A x \in new : level'[x] = L
      /\ \A x \in E : level[x] \in Nat \cup {-1} /\ (x \in placed <=> level[x] >= 0)
  BY <1>1, <1>3 DEF placed, Placed
<1>9. Placed(f)' = placed \cup new
  <2>1. Placed(f)' = {x \in E : level'[x] >= 0}
    BY <1>1, SamePlan DEF Placed
  <2>2. QED
    BY <1>3, <1>8, <2>1
<1>10. {level[x] : x \in placed} = 0 .. L - 1
  BY <1>2 DEF Placing, L, placed
<1>11. Placing(f)'
  <2>1. CASE new = {}
    BY <1>1, <1>2, <1>8, <2>1, PlacingKept
  <2>2. CASE new # {}
    <3>1. {level'[x] : x \in placed \cup new} = 0 .. L
      <4>1. {level'[x] : x \in placed \cup new} = {level[x] : x \in placed} \cup {L}
        BY <1>3, <1>8, <2>2
      <4>2. (0 .. L - 1) \cup {L} = 0 .. L
        BY <1>3
      <4>3. QED
        BY <1>10, <4>1, <4>2
    <3>2. LevelOf(f)' = L + 1
      <4>1. LevelOf(f)' = Cardinality({level'[x] : x \in Placed(f)'})
        BY DEF LevelOf, Placed
      <4>2. Cardinality(0 .. L) = L + 1
        BY <1>3, FS_Interval
      <4>3. QED
        BY <1>9, <3>1, <4>1, <4>2
    <3>3. \A x \in placed : level[x] \in 0 .. L - 1
      BY <1>10
    <3>4. ASSUME NEW x \in placed \cup new, NEW y \in E, task[y].id \in task[x].depends
          PROVE  level'[y] \in 0 .. level'[x] - 1
      <4>1. CASE x \in placed
        <5>1. level[y] \in 0 .. level[x] - 1
          BY <1>2, <3>4, <4>1 DEF Placing, placed
        <5>2. y \in placed
          BY <1>8, <5>1
        <5>3. level'[y] = level[y] /\ level'[x] = level[x]
          BY <1>3, <1>8, <4>1, <5>2
        <5>4. QED
          BY <5>1, <5>3
      <4>2. CASE x \in new
        <5>1. task[y].id \in IdsOf(placed)
          BY <3>4, <4>2 DEF new, Placeable
        <5>2. PICK z \in placed : task[z].id = task[y].id
          BY <5>1, IdsOfFacts
        <5>3. z = y
          BY <1>2, <1>3, <5>2 DEF Sound, OneEach
        <5>4. level'[y] = level[y] /\ level[y] \in 0 .. L - 1 /\ level'[x] = L
          BY <1>3, <1>8, <3>3, <4>2, <5>2, <5>3
        <5>5. QED
          BY <5>4
      <4>3. QED
        BY <3>4, <4>1, <4>2
    <3>5. ASSUME NEW x \in placed \cup new, level'[x] > 0
          PROVE  \E y \in E : task[y].id \in task[x].depends /\ level'[y] = level'[x] - 1
      <4>1. CASE x \in placed
        <5>1. level'[x] = level[x]
          BY <1>3, <1>8, <4>1
        <5>2. PICK y \in E : task[y].id \in task[x].depends /\ level[y] = level[x] - 1
          BY <1>2, <3>5, <4>1, <5>1 DEF Placing, placed
        <5>3. level'[y] = level[y]
          BY <1>3, <1>8, <3>5, <5>1, <5>2
        <5>4. QED
          BY <5>1, <5>2, <5>3
      <4>2. CASE x \in new
        <5>1. level'[x] = L /\ L > 0 /\ x \in E \ placed
          BY <1>3, <1>8, <3>5, <4>2
        <5>2. ~(task[x].depends \subseteq IdsOf(BelowLast(f)))
          BY <1>2, <5>1 DEF Placing, placed, L
        <5>3. PICK j \in task[x].depends : j \notin IdsOf(BelowLast(f))
          BY <5>2
        <5>4. j \in IdsOf(placed)
          BY <4>2 DEF new, Placeable
        <5>5. PICK y \in placed : task[y].id = j
          BY <5>4, IdsOfFacts
        <5>6. y \notin BelowLast(f)
          BY <5>3, <5>5, IdsOfFacts
        <5>7. ~(level[y] < L - 1)
          BY <5>6 DEF BelowLast, placed, L
        <5>8. level[y] = L - 1 /\ level'[y] = level[y] /\ y \in E
          BY <1>3, <1>8, <3>3, <5>7
        <5>9. QED
          BY <5>1, <5>5, <5>8
      <4>3. QED
        BY <3>5, <4>1, <4>2
    <3>6. ASSUME NEW x \in E \ (placed \cup new)
          PROVE  ~(task[x].depends \subseteq IdsOf(BelowLast(f))')
      <4>1. BelowLast(f)' = {y \in Placed(f)' : level'[y] < L}
        BY <1>3, <3>2 DEF BelowLast
      <4>2. BelowLast(f)' = placed
        BY <1>3, <1>8, <1>9, <3>3, <4>1
      <4>3. IdsOf(BelowLast(f))' = IdsOf(placed)
        BY <1>1, <4>2, SamePlan DEF IdsOf
      <4>4. ~(task[x].depends \subseteq IdsOf(placed))
        BY <3>6 DEF new, Placeable
      <4>5. QED
        BY <4>3, <4>4
    <3>7. (L + 1) - 1 = L
      BY <1>3
    <3>8. QED
      BY <1>1, <1>9, <3>1, <3>2, <3>4, <3>5, <3>6, <3>7, SamePlan DEF Placing
  <2>3. QED
    BY <2>1, <2>2
<1>12. ASSUME NEW g \in FeatureParts, g # f
       PROVE  Placing(g)' /\ Placed(g)' = Placed(g)
  <2>1. \A x \in Entries(g) : x \notin E /\ x \in DOMAIN task
    BY <1>12, EntriesFacts
  <2>2. \A x \in Entries(g) : level'[x] = level[x]
    BY <1>1, <1>3, <2>1
  <2>3. Placing(g)
    BY <1>1 DEF IndInv, Levelled
  <2>4. QED
    BY <1>1, <2>2, <2>3, PlacingKept
<1>13. f \notin todo' => E = Placed(f)'
  <2>1. CASE placed \cup new = E
    BY <1>9, <2>1
  <2>2. CASE new = {}
    <3>1. E = placed
      BY <1>2, <2>2, AllPlaced DEF new, placed
    <3>2. QED
      BY <1>9, <2>2, <3>1
  <2>3. QED
    BY <1>1, <2>1, <2>2
<1>14. Levelled'
  <2>1. todo' \subseteq FeatureParts
    BY <1>1 DEF IndInv, Levelled
  <2>2. \A g \in FeatureParts : Placing(g)'
    BY <1>11, <1>12
  <2>3. \A g \in FeatureParts \ todo' : Entries(g) = Placed(g)'
    BY <1>1, <1>12, <1>13 DEF IndInv, Levelled
  <2>4. QED
    BY <1>1, <1>7, <2>1, <2>2, <2>3, SamePlan DEF Levelled
<1>15. Walked'
  BY <1>1 DEF IndInv, Walked
<1>16. QED
  BY <1>4, <1>5, <1>6, <1>14, <1>15 DEF IndInv

-----------------------------------------------------------------------------
(* The closure.                                                            *)

\* Somebody selects tasks.
LEMMA SelectKeeps ==
  ASSUME IndInv, NEW cascade \in BOOLEAN, Select(cascade)
  PROVE  IndInv'
<1> DEFINE All == IdsOf(DOMAIN task)
<1>1. /\ plan' = plan /\ Accepted /\ Accepted' /\ stage = "accepted" /\ wave = 0
      /\ errors' = errors /\ level' = level /\ todo' = todo
      /\ rerun' \subseteq All /\ dirty' = rerun'
      /\ stage' = IF cascade THEN "walk" ELSE "closed"
      /\ wave' = IF cascade THEN 1 ELSE wave
      /\ queue' = IF cascade THEN rerun' \cap IdsOf(EntriesOf(1)) ELSE queue
  BY DEF Select, Accepted, IndInv, Walked
<1>2. PlanTyped(plan) /\ plan.waves > 0 /\ \A s \in Parts : Sound(s)
  BY <1>1 DEF IndInv, Typed, Verdict
<1>3. plan.waves \in 0 .. MaxWaves /\ MaxWaves \in Nat
  BY <1>2, WavesAssumption DEF PlanTyped
<1>4. All \subseteq Ids
  BY <1>2, TasksTyped DEF IdsOf
<1>5. Typed'
  <2>1. wave' \in 0 .. MaxWaves + 1 /\ stage' \in Stages /\ stage' # "parse"
    BY <1>1, <1>3 DEF Stages
  <2>2. rerun' \subseteq Ids /\ dirty' \subseteq Ids /\ queue' \subseteq Ids
    BY <1>1, <1>4 DEF IndInv, Typed
  <2>3. QED
    BY <1>1, <2>1, <2>2, SamePlan DEF Select, IndInv, Typed, kahn
<1>6. Sorting'
  BY <1>1 DEF Sorting
<1>7. Verdict'
  BY <1>1, SamePlan DEF IndInv, Verdict
<1>8. Levelled'
  BY <1>1, SamePlan DEF IndInv, Levelled
<1>9. Walked'
  <2>1. CASE ~cascade
    BY <1>1, <2>1 DEF Walked
  <2>2. CASE cascade
    <3>1. /\ stage' = "walk" /\ wave' = 1 /\ queue' = dirty' \cap IdsOf(EntriesOf(1))
      BY <1>1, <2>2
    <3>2. wave' \in 1 .. plan.waves
      BY <1>2, <1>3, <3>1
    <3>3. ASSUME NEW x \in EntriesOf(1), task[x].depends \cap (dirty' \ queue') # {}
          PROVE  task[x].id \in dirty'
      <4>1. PICK j \in task[x].depends : j \notin IdsOf(EntriesOf(1))
        BY <3>1, <3>3
      <4>2. task[x].depends \subseteq IdsOf(Entries(task[x].part))
        <5>1. task[x].part \in Parts /\ x \in Entries(task[x].part)
          BY <1>2, TasksTyped, EntriesFacts DEF Entries
        <5>2. QED
          BY <1>2, <5>1 DEF Sound, BadNames, Known
      <4>3. Entries(task[x].part) \subseteq EntriesOf(1)
        BY EntriesFacts DEF Entries, EntriesOf
      <4>4. QED
        BY <4>1, <4>2, <4>3, IdsOfFacts
    <3>4. \A X \in SUBSET All : rerun' \subseteq X /\ IsClosed(X) => dirty' \subseteq X
      BY <1>1
    <3>5. 1 .. wave' - 1 = {}
      BY <3>1
    <3>6. QED
      BY <1>1, <3>1, <3>2, <3>3, <3>4, <3>5, SamePlan DEF Walked
  <2>3. QED
    BY <2>1, <2>2
<1>10. QED
  BY <1>5, <1>6, <1>7, <1>8, <1>9 DEF IndInv

\* Dependencies of a sound plan are in the section, so in the wave, of the task.
LEMMA SameWave ==
  ASSUME PlanTyped(plan), \A s \in Parts : Sound(s), NEW x \in DOMAIN task
  PROVE  /\ task[x].part \in Parts /\ x \in Entries(task[x].part)
         /\ Entries(task[x].part) \subseteq EntriesOf(task[x].part[1])
         /\ task[x].depends \subseteq IdsOf(Entries(task[x].part))
<1>1. task[x].part \in Parts /\ x \in Entries(task[x].part)
  BY TasksTyped DEF Entries
<1>2. task[x].depends \subseteq IdsOf(Entries(task[x].part))
  BY <1>1 DEF Sound, BadNames, Known
<1>3. QED
  BY <1>1, <1>2 DEF Entries, EntriesOf

\* Consequences in a wave are those of the tasks of that wave.
LEMMA SameConsequences ==
  ASSUME NEW w, NEW X, NEW Y,
         \A y \in EntriesOf(w) : task[y].id \in X <=> task[y].id \in Y
  PROVE  Consequences(w, X) = Consequences(w, Y)
BY DEF Consequences

\* Without repeated ids a task of one wave is not meant in another.
LEMMA OtherWaves ==
  ASSUME GlobalIds, NEW w, NEW v, w # v, NEW y \in EntriesOf(w)
  PROVE  task[y].id \notin IdsOf(EntriesOf(v))
BY IdsOfFacts, EntriesFacts DEF GlobalIds

\* One turn of the walk.
LEMMA WalkKeeps ==
  ASSUME IndInv, NEW i \in Ids, Walk(i)
  PROVE  IndInv'
<1> DEFINE D == IdsOf({x \in EntriesOf(wave) : i \in task[x].depends})
<1>1. /\ plan' = plan /\ Accepted /\ Accepted' /\ stage = "walk" /\ stage' = "walk"
      /\ errors' = errors /\ level' = level /\ todo' = todo /\ i \in queue
      /\ dirty' = dirty \cup D /\ queue' = (queue \ {i}) \cup (D \ dirty)
      /\ rerun' = rerun /\ wave' = wave
  BY DEF Walk, Accepted, Found
<1>2. PlanTyped(plan) /\ \A s \in Parts : Sound(s)
  BY <1>1 DEF IndInv, Typed, Verdict
<1>3. /\ D \subseteq IdsOf(EntriesOf(wave)) /\ IdsOf(EntriesOf(wave)) \subseteq IdsOf(DOMAIN task)
      /\ IdsOf(DOMAIN task) \subseteq Ids
  BY <1>2, TasksTyped, EntriesFacts DEF IdsOf
<1>4. Typed'
  <2>1. dirty' \subseteq Ids /\ queue' \subseteq Ids
    BY <1>1, <1>3 DEF IndInv, Typed
  <2>2. QED
    BY <1>1, <2>1, SamePlan DEF Walk, IndInv, Typed, kahn
<1>5. Sorting'
  BY <1>1 DEF Sorting
<1>6. Verdict'
  BY <1>1, SamePlan DEF IndInv, Verdict
<1>7. Levelled'
  BY <1>1, SamePlan DEF IndInv, Levelled
<1>8. /\ wave \in 1 .. plan.waves /\ queue \subseteq dirty \cap IdsOf(EntriesOf(wave))
      /\ \A x \in EntriesOf(wave) :
           task[x].depends \cap (dirty \ queue) # {} => task[x].id \in dirty
  BY <1>1 DEF IndInv, Walked
<1>9. /\ wave > 0 /\ rerun \subseteq dirty /\ dirty \subseteq IdsOf(DOMAIN task)
      /\ \A X \in SUBSET IdsOf(DOMAIN task) : rerun \subseteq X /\ IsClosed(X) => dirty \subseteq X
      /\ GlobalIds => \A w \in 1 .. wave - 1 : Consequences(w, dirty) \subseteq dirty
  BY <1>1, <1>8 DEF IndInv, Walked
<1>10. ASSUME NEW x \in EntriesOf(wave), task[x].depends \cap (dirty' \ queue') # {}
       PROVE  task[x].id \in dirty'
  <2>1. PICK j \in task[x].depends : j \in dirty' \ queue'
    BY <1>10
  <2>2. j = i \/ j \in dirty \ queue
    BY <1>1, <2>1
  <2>3. CASE j = i
    BY <1>1, <2>1, <2>3 DEF IdsOf
  <2>4. CASE j \in dirty \ queue
    BY <1>1, <1>8, <2>1, <2>4
  <2>5. QED
    BY <2>2, <2>3, <2>4
<1>11. ASSUME NEW X \in SUBSET IdsOf(DOMAIN task), rerun \subseteq X, IsClosed(X)
       PROVE  dirty' \subseteq X
  <2>1. dirty \subseteq X /\ Consequences(wave, X) \subseteq X
    BY <1>8, <1>9, <1>11 DEF IsClosed
  <2>2. PICK y \in EntriesOf(wave) : task[y].id = i
    BY <1>1, <1>8, IdsOfFacts
  <2>3. i \in X
    BY <1>1, <1>8, <2>1
  <2>4. \A x \in EntriesOf(wave) : i \in task[x].depends => task[x].id \in Consequences(wave, X)
    BY <2>2, <2>3 DEF Consequences, IdsOf
  <2>5. D \subseteq X
    BY <2>1, <2>4 DEF IdsOf
  <2>6. QED
    BY <1>1, <2>1, <2>5
<1>12. ASSUME GlobalIds, NEW w \in 1 .. wave - 1
       PROVE  Consequences(w, dirty') \subseteq dirty'
  <2>1. w # wave
    BY <1>12, <1>8
  <2>2. Consequences(w, dirty') = Consequences(w, dirty)
    <3>1. D \in SUBSET IdsOf(EntriesOf(wave)) /\ dirty' = dirty \cup D
      BY <1>1, <1>3
    <3> HIDE DEF D
    <3>2. \A y \in EntriesOf(w) : task[y].id \in dirty' <=> task[y].id \in dirty
      BY <1>12, <2>1, <3>1, OtherWaves
    <3>3. QED
      BY <3>2, SameConsequences
  <2>3. QED
    BY <1>1, <1>9, <1>12, <2>2
<1>13. Walked'
  <2>1. queue' \subseteq dirty' \cap IdsOf(EntriesOf(wave))
    BY <1>1, <1>3, <1>8
  <2>2. rerun' \subseteq dirty' /\ dirty' \subseteq IdsOf(DOMAIN task)
    BY <1>1, <1>3, <1>9
  <2> HIDE DEF D
  <2>3. /\ task' = task /\ (GlobalIds' <=> GlobalIds)
        /\ \A w : EntriesOf(w)' = EntriesOf(w)
        /\ \A X : IdsOf(X)' = IdsOf(X)
        /\ \A w, X : Consequences(w, X)' = Consequences(w, X)
        /\ \A X : IsClosed(X)' <=> IsClosed(X)
    BY <1>1, SamePlan
  <2>4. QED
    BY <1>1, <1>8, <1>10, <1>11, <1>12, <2>1, <2>2, <2>3 DEF Walked
<1>14. QED
  BY <1>4, <1>5, <1>6, <1>7, <1>13 DEF IndInv

\* The sections of a wave.
Foundation(w) == Entries(<<w, "foundation", 0>>)
Integration(w) == Entries(<<w, "integration", 0>>)
Features(w) == EntriesOf(w) \ (Foundation(w) \cup Integration(w))

\* Their order, as in Consequences.
Rank(w, x) == CASE task[x].part = <<w, "foundation", 0>> -> 1
                [] task[x].part \in FeatureParts -> 2
                [] OTHER -> 3

\* Earlier and later sections of a wave.
LEMMA Ranks ==
  ASSUME PlanTyped(plan), NEW w
  PROVE  /\ Foundation(w) \subseteq EntriesOf(w) /\ Integration(w) \subseteq EntriesOf(w)
         /\ \A x \in Foundation(w) : Rank(w, x) = 1 /\ x \notin Integration(w)
         /\ \A x \in Features(w) : Rank(w, x) = 2
         /\ \A x \in Integration(w) : Rank(w, x) = 3
         /\ \A x, y \in EntriesOf(w) :
              Rank(w, y) < Rank(w, x) <=>
                \/ y \in Foundation(w) /\ x \notin Foundation(w)
                \/ y \in Features(w) /\ x \in Integration(w)
<1>1. Foundation(w) \subseteq EntriesOf(w) /\ Integration(w) \subseteq EntriesOf(w)
  BY DEF Foundation, Integration, Entries, EntriesOf
<1>2. \A x \in Foundation(w) : task[x].part = <<w, "foundation", 0>>
  BY DEF Foundation, Entries
<1>3. \A x \in Integration(w) : task[x].part = <<w, "integration", 0>>
  BY DEF Integration, Entries
<1>4. <<w, "foundation", 0>> \notin FeatureParts /\ <<w, "integration", 0>> \notin FeatureParts
  BY PartsTyped
<1>5. \A x \in Features(w) :
        task[x].part \in FeatureParts /\ task[x].part # <<w, "foundation", 0>>
  <2>1. SUFFICES ASSUME NEW x \in Features(w)
                 PROVE  task[x].part \in FeatureParts /\ task[x].part # <<w, "foundation", 0>>
    OBVIOUS
  <2>2. x \in DOMAIN task /\ task[x].part[1] = w
    BY EntriesFacts DEF Features
  <2>3. task[x].part # <<w, "foundation", 0>> /\ task[x].part # <<w, "integration", 0>>
    BY <2>2 DEF Features, Foundation, Integration, Entries
  <2>4. task[x].part \in Parts
    BY <2>2, TasksTyped
  <2>5. CASE task[x].part \in (1 .. plan.waves) \X {"foundation", "integration"} \X {0}
    BY <2>2, <2>3, <2>5
  <2>6. QED
    BY <2>3, <2>4, <2>5 DEF Parts
<1>6. \A x \in Foundation(w) : Rank(w, x) = 1
  <2>1. SUFFICES ASSUME NEW x \in Foundation(w)
                 PROVE  Rank(w, x) = 1
    OBVIOUS
  <2>2. task[x].part = <<w, "foundation", 0>>
    BY <1>2
  <2>3. task[x].part \notin FeatureParts
    BY <1>4, <2>2
  <2>4. QED
    BY <2>2, <2>3 DEF Rank
<1>7. \A x \in Features(w) : Rank(w, x) = 2
  BY <1>5 DEF Rank
<1>8. \A x \in Integration(w) : Rank(w, x) = 3
  <2>1. <<w, "foundation", 0>> # <<w, "integration", 0>>
    OBVIOUS
  <2>2. QED
    BY <1>3, <1>4, <2>1 DEF Rank
<1>9. \A x \in EntriesOf(w) : x \in Foundation(w) \/ x \in Features(w) \/ x \in Integration(w)
  BY DEF Features
<1>10. QED
  BY <1>1, <1>6, <1>7, <1>8, <1>9

\* Consequences, Implied in these terms.
LEMMA ConsequencesAre ==
  ASSUME NEW w, NEW X
  PROVE  Consequences(w, X) =
           IdsOf({x \in EntriesOf(w) :
                    \E y \in EntriesOf(w) :
                      task[y].id \in X /\ (task[y].id \in task[x].depends \/ Rank(w, y) < Rank(w, x))})
  BY DEF Consequences, Rank

LEMMA ImpliedIs ==
  Implied = IF dirty \cap IdsOf(Foundation(wave)) # {}
              THEN IdsOf(Features(wave) \cup Integration(wave))
            ELSE IF dirty \cap IdsOf(Features(wave)) # {} THEN IdsOf(Integration(wave))
            ELSE {}
  BY DEF Implied, Foundation, Integration, Features

\* What EndWalk adds has to be in every closed set ...
LEMMA ImpliedNeeded ==
  ASSUME PlanTyped(plan), NEW X, dirty \subseteq X, Consequences(wave, X) \subseteq X
  PROVE  Implied \subseteq X
<1>1. ASSUME NEW y \in EntriesOf(wave), NEW x \in EntriesOf(wave), task[y].id \in X,
             Rank(wave, y) < Rank(wave, x)
      PROVE  task[x].id \in X
  BY <1>1, ConsequencesAre DEF IdsOf
<1>2. CASE dirty \cap IdsOf(Foundation(wave)) # {}
  <2>1. PICK y \in Foundation(wave) : task[y].id \in X
    BY <1>2 DEF IdsOf
  <2>2. \A x \in Features(wave) \cup Integration(wave) : Rank(wave, y) < Rank(wave, x)
    BY <2>1, Ranks
  <2>3. \A x \in Features(wave) \cup Integration(wave) : task[x].id \in X
    BY <1>1, <2>1, <2>2, Ranks DEF Features
  <2>4. QED
    BY <1>2, <2>3, ImpliedIs DEF IdsOf
<1>3. CASE dirty \cap IdsOf(Foundation(wave)) = {} /\ dirty \cap IdsOf(Features(wave)) # {}
  <2>1. PICK y \in Features(wave) : task[y].id \in X
    BY <1>3 DEF IdsOf
  <2>2. \A x \in Integration(wave) : Rank(wave, y) < Rank(wave, x)
    BY <2>1, Ranks
  <2>3. \A x \in Integration(wave) : task[x].id \in X
    BY <1>1, <2>1, <2>2, Ranks DEF Features
  <2>4. QED
    BY <1>3, <2>3, ImpliedIs DEF IdsOf
<1>4. CASE dirty \cap IdsOf(Foundation(wave)) = {} /\ dirty \cap IdsOf(Features(wave)) = {}
  BY <1>4, ImpliedIs
<1>5. QED
  BY <1>2, <1>3, <1>4

\* ... and closes the wave, once all that depends on dirty tasks is dirty.
LEMMA ImpliedSuffices ==
  ASSUME PlanTyped(plan), \A s \in Parts : Sound(s), GlobalIds,
         \A x \in EntriesOf(wave) : task[x].depends \cap dirty # {} => task[x].id \in dirty
  PROVE  Consequences(wave, dirty \cup Implied) \subseteq dirty \cup Implied
<1> DEFINE X == dirty \cup Implied
           Fd == Foundation(wave)
           Ft == Features(wave)
           In == Integration(wave)
<1>1. SUFFICES ASSUME NEW x \in EntriesOf(wave), NEW y \in EntriesOf(wave), task[y].id \in X,
                      task[y].id \in task[x].depends \/ Rank(wave, y) < Rank(wave, x)
               PROVE  task[x].id \in X
  BY ConsequencesAre DEF IdsOf
<1>2. /\ Fd \subseteq EntriesOf(wave) /\ In \subseteq EntriesOf(wave)
      /\ EntriesOf(wave) \subseteq DOMAIN task
      /\ x \in Fd \/ x \in Ft \/ x \in In
      /\ y \in Fd \/ y \in Ft \/ y \in In
  BY Ranks, EntriesFacts DEF Features
<1>3. Rank(wave, y) < Rank(wave, x) => (y \in Fd /\ x \notin Fd) \/ (y \in Ft /\ x \in In)
  BY Ranks
<1>4. ASSUME task[y].id \in task[x].depends
      PROVE  task[y].part = task[x].part
  <2>1. task[y].id \in IdsOf(Entries(task[x].part))
    BY <1>2, <1>4, SameWave
  <2>2. PICK z \in Entries(task[x].part) : task[z].id = task[y].id
    BY <2>1, IdsOfFacts
  <2>3. z = y
    BY <1>2, <2>2, EntriesFacts DEF GlobalIds
  <2>4. QED
    BY <2>2, <2>3, EntriesFacts
<1>5. ASSUME NEW S \in SUBSET EntriesOf(wave), task[y].id \in IdsOf(S)
      PROVE  y \in S
  BY <1>2, <1>5, IdsOfFacts DEF GlobalIds
<1>6. task[y].part = task[x].part => (x \in Fd <=> y \in Fd) /\ (x \in In <=> y \in In)
  BY <1>2 DEF Foundation, Integration, Entries
<1>7. CASE task[y].id \in dirty /\ task[y].id \in task[x].depends
  BY <1>7
<1>8. CASE task[y].id \in dirty /\ Rank(wave, y) < Rank(wave, x)
  <2>1. CASE y \in Fd /\ x \notin Fd
    <3>1. dirty \cap IdsOf(Fd) # {}
      BY <1>8, <2>1, IdsOfFacts
    <3>2. x \in Ft \cup In
      BY <1>2, <2>1
    <3>3. QED
      BY <3>1, <3>2, ImpliedIs, IdsOfFacts
  <2>2. CASE y \in Ft /\ x \in In
    <3>1. dirty \cap IdsOf(Ft) # {}
      BY <1>8, <2>2, IdsOfFacts
    <3>2. task[x].id \in IdsOf(Ft \cup In) /\ task[x].id \in IdsOf(In)
      BY <2>2, IdsOfFacts
    <3>3. QED
      BY <3>1, <3>2, ImpliedIs
  <2>3. QED
    BY <1>3, <1>8, <2>1, <2>2
<1>9. CASE task[y].id \in Implied
  <2>1. CASE dirty \cap IdsOf(Fd) # {}
    <3>1. Implied = IdsOf(Ft \cup In)
      BY <2>1, ImpliedIs
    <3>2. y \in Ft \cup In
      BY <1>2, <1>5, <1>9, <3>1 DEF Features
    <3>3. y \notin Fd
      BY <3>2, Ranks DEF Features
    <3>4. x \in Ft \cup In
      BY <1>1, <1>2, <1>3, <1>4, <1>6, <3>3
    <3>5. QED
      BY <3>1, <3>4, IdsOfFacts
  <2>2. CASE dirty \cap IdsOf(Fd) = {}
    <3>1. Implied = IdsOf(In)
      BY <1>9, <2>2, ImpliedIs
    <3>2. y \in In
      BY <1>2, <1>5, <1>9, <3>1
    <3>3. y \notin Fd /\ y \notin Ft
      BY <3>2, Ranks DEF Features
    <3>4. x \in In
      BY <1>1, <1>3, <1>4, <1>6, <3>2, <3>3
    <3>5. QED
      BY <3>1, <3>4, IdsOfFacts
  <2>3. QED
    BY <2>1, <2>2
<1>10. QED
  BY <1>1, <1>7, <1>8, <1>9

\* From one wave to the next.
LEMMA EndWalkKeeps == IndInv /\ EndWalk => IndInv'
<1> SUFFICES ASSUME IndInv, EndWalk
             PROVE  IndInv'
  OBVIOUS
<1>1. /\ plan' = plan /\ Accepted /\ Accepted' /\ stage = "walk" /\ queue = {}
      /\ errors' = errors /\ level' = level /\ todo' = todo /\ rerun' = rerun
      /\ dirty' = dirty \cup Implied /\ wave' = wave + 1
  BY DEF EndWalk, Accepted
<1>2. \/ /\ wave < plan.waves /\ stage' = "walk"
         /\ queue' = dirty' \cap IdsOf(EntriesOf(wave + 1))
      \/ ~(wave < plan.waves) /\ stage' = "closed" /\ queue' = queue
  BY <1>1 DEF EndWalk
<1>3. PlanTyped(plan) /\ \A s \in Parts : Sound(s)
  BY <1>1 DEF IndInv, Typed, Verdict
<1>4. plan.waves \in 0 .. MaxWaves /\ MaxWaves \in Nat /\ wave \in 1 .. plan.waves
  BY <1>1, <1>3, WavesAssumption DEF IndInv, Walked, PlanTyped
<1>5. /\ Implied \subseteq IdsOf(EntriesOf(wave))
      /\ \A w : IdsOf(EntriesOf(w)) \subseteq IdsOf(DOMAIN task)
      /\ IdsOf(DOMAIN task) \subseteq Ids
  <2>1. Features(wave) \cup Integration(wave) \subseteq EntriesOf(wave)
    BY <1>3, Ranks DEF Features
  <2>2. Implied \subseteq IdsOf(EntriesOf(wave))
    BY <2>1, ImpliedIs DEF IdsOf
  <2>3. QED
    BY <1>3, <2>2, TasksTyped, EntriesFacts DEF IdsOf
<1>6. Typed'
  <2>1. dirty' \subseteq Ids /\ queue' \subseteq Ids
    BY <1>1, <1>2, <1>5 DEF IndInv, Typed
  <2>2. wave' \in 0 .. MaxWaves + 1 /\ stage' \in Stages /\ stage' # "parse"
    BY <1>1, <1>2, <1>4 DEF Stages
  <2>3. QED
    BY <1>1, <2>1, <2>2, SamePlan DEF EndWalk, IndInv, Typed, kahn
<1>7. Sorting'
  BY <1>2 DEF Sorting
<1>8. Verdict'
  BY <1>1, <1>2, SamePlan DEF IndInv, Verdict
<1>9. Levelled'
  BY <1>1, <1>2, SamePlan DEF IndInv, Levelled
<1>10. /\ wave > 0 /\ rerun \subseteq dirty /\ dirty \subseteq IdsOf(DOMAIN task)
       /\ \A X \in SUBSET IdsOf(DOMAIN task) : rerun \subseteq X /\ IsClosed(X) => dirty \subseteq X
       /\ GlobalIds => \A w \in 1 .. wave - 1 : Consequences(w, dirty) \subseteq dirty
       /\ \A x \in EntriesOf(wave) : task[x].depends \cap dirty # {} => task[x].id \in dirty
  BY <1>1, <1>4 DEF IndInv, Walked
<1>11. ASSUME NEW X \in SUBSET IdsOf(DOMAIN task), rerun \subseteq X, IsClosed(X)
       PROVE  dirty' \subseteq X
  <2>1. dirty \subseteq X /\ Consequences(wave, X) \subseteq X
    BY <1>4, <1>10, <1>11 DEF IsClosed
  <2>2. QED
    BY <1>1, <1>3, <2>1, ImpliedNeeded
<1>12. ASSUME GlobalIds, NEW w \in 1 .. wave' - 1
       PROVE  Consequences(w, dirty') \subseteq dirty'
  <2>1. CASE w = wave
    BY <1>1, <1>3, <1>10, <1>12, <2>1, ImpliedSuffices
  <2>2. CASE w # wave
    <3>1. w \in 1 .. wave - 1
      BY <1>1, <1>4, <2>2
    <3>2. Consequences(w, dirty') = Consequences(w, dirty)
      <4>1. Implied \in SUBSET IdsOf(EntriesOf(wave)) /\ dirty' = dirty \cup Implied
        BY <1>1, <1>5
      <4>2. \A y \in EntriesOf(w) : task[y].id \in dirty' <=> task[y].id \in dirty
        BY <1>12, <2>2, <4>1, OtherWaves
      <4>3. QED
        BY <4>2, SameConsequences
    <3>3. QED
      BY <1>1, <1>10, <1>12, <3>1, <3>2
  <2>3. QED
    BY <2>1, <2>2
<1>13. Walked'
  <2>1. rerun' \subseteq dirty' /\ dirty' \subseteq IdsOf(DOMAIN task)
    BY <1>1, <1>5, <1>10
  <2>2. CASE stage' = "walk"
    <3>1. wave' \in 1 .. plan.waves
      BY <1>1, <1>2, <1>4, <2>2
    <3>2. queue' = dirty' \cap IdsOf(EntriesOf(wave'))
      BY <1>1, <1>2, <2>2
    <3>3. ASSUME NEW x \in EntriesOf(wave'), task[x].depends \cap (dirty' \ queue') # {}
          PROVE  task[x].id \in dirty'
      <4>1. PICK j \in task[x].depends : j \notin IdsOf(EntriesOf(wave'))
        BY <3>2, <3>3
      <4>2. x \in DOMAIN task /\ task[x].part[1] = wave'
        BY EntriesFacts
      <4>3. QED
        BY <1>3, <4>1, <4>2, SameWave, IdsOfFacts
    <3>4. QED
      BY <1>1, <1>11, <1>12, <2>1, <2>2, <3>1, <3>2, <3>3, SamePlan DEF Walked
  <2>3. CASE stage' = "closed"
    <3>1. wave' = plan.waves + 1
      BY <1>1, <1>2, <1>4, <2>3
    <3>2. QED
      BY <1>1, <1>11, <1>12, <2>1, <2>3, <3>1, SamePlan DEF Walked
  <2>4. QED
    BY <1>2, <2>2, <2>3
<1>14. QED
  BY <1>6, <1>7, <1>8, <1>9, <1>13 DEF IndInv

\* A step that changes nothing.
LEMMA StutterKeeps == IndInv /\ UNCHANGED vars => IndInv'
<1> SUFFICES ASSUME IndInv, UNCHANGED vars
             PROVE  IndInv'
  OBVIOUS
<1>1. /\ plan' = plan /\ stage' = stage /\ todo' = todo /\ section' = section
      /\ inDegree' = inDegree /\ queue' = queue /\ sorted' = sorted /\ errors' = errors
      /\ level' = level /\ rerun' = rerun /\ dirty' = dirty /\ wave' = wave
      /\ document' = document
  BY DEF vars, kahn, closure
<1>2. Typed'
  BY <1>1, SamePlan DEF IndInv, Typed
<1>3. Sorting'
  <2>1. Done' = Done /\ \A x : Alone(x)' <=> Alone(x)
    BY <1>1, SamePlan DEF Done, Alone
  <2>2. QED
    BY <1>1, <2>1, SamePlan DEF IndInv, Sorting
<1>4. Accepted' <=> Accepted
  BY <1>1 DEF Accepted
<1>5. Verdict'
  BY <1>1, <1>4, SamePlan DEF IndInv, Verdict
<1>6. Levelled'
  <2>1. \A f : Placing(f) => Placing(f)'
    BY <1>1, PlacingKept
  <2>2. \A f : Placed(f)' = Placed(f)
    BY <1>1, PlacingKept
  <2>3. QED
    BY <1>1, <1>4, <2>1, <2>2, SamePlan DEF IndInv, Levelled
<1>7. Walked'
  BY <1>1, SamePlan DEF IndInv, Walked
<1>8. QED
  BY <1>2, <1>3, <1>5, <1>6, <1>7 DEF IndInv

\* All steps.
LEMMA StepPreserves == IndInv /\ [Next]_vars => IndInv'
<1> SUFFICES ASSUME IndInv, [Next]_vars
             PROVE  IndInv'
  OBVIOUS
<1>1. CASE ParsePlan
  BY <1>1, ParsePlanKeeps
<1>2. CASE CheckWave
  BY <1>2, CheckWaveKeeps
<1>3. CASE EndSort
  BY <1>3, EndSortKeeps
<1>4. CASE EndChecks
  BY <1>4, EndChecksKeeps
<1>5. CASE EndLevels
  BY <1>5, EndLevelsKeeps
<1>6. CASE EndWalk
  BY <1>6, EndWalkKeeps
<1>7. CASE \E cascade \in BOOLEAN : Select(cascade)
  BY <1>7, SelectKeeps
<1>8. CASE \E i \in Ids : Walk(i)
  BY <1>8, WalkKeeps
<1>9. CASE \E s \in Parts : RejectNames(s) \/ StartSort(s) \/ PlaceLevel(s)
  BY <1>9, RejectNamesKeeps, StartSortKeeps, PlaceLevelKeeps
<1>10. CASE \E d \in Ids : Pop(d)
  BY <1>10, PopKeeps
<1>11. CASE UNCHANGED vars
  BY <1>11, StutterKeeps
<1>12. QED
  BY <1>1, <1>2, <1>3, <1>4, <1>5, <1>6, <1>7, <1>8, <1>9, <1>10, <1>11 DEF Next

\* IndInv is an invariant.
LEMMA Inductive == Spec => []IndInv
  BY InitEstablishes, StepPreserves, PTL DEF Spec

\* TypeOK: whatever is written in the documents, parse_plan makes plans of
\* them, and the passes of validate_plan, build_dag and compute_dirty_closure
\* keep their data in shape; no id is popped twice.
THEOREM TypeCorrect == Spec => []TypeOK
  BY Inductive, ImpliesTypeOK, PTL

\* AcceptedIffExecutable: validate_plan accepts only executable plans that have
\* the required sections, if the features of a wave have different names, and
\* rejects only others.
THEOREM VerdictIsRight == Spec => []AcceptedIffExecutable
  BY Inductive, ImpliesAccepted, PTL

\* LevelsAreEarliest: build_dag gives every task of a feature the first level
\* behind its dependencies.
THEOREM LevelsAreRight == Spec => []LevelsAreEarliest
  BY Inductive, ImpliesLevels, PTL

\* ClosureIsLeast: compute_dirty_closure finds the tasks that have to be
\* repeated and no others.
THEOREM ClosureIsRight == Spec => []ClosureIsLeast
  BY Inductive, ImpliesClosure, PTL

-----------------------------------------------------------------------------
(* The parser and a person, line by line.                                 *)

\* The last of the first n lines that is one of S.
Last(d, n, S) == LastBefore(d, n + 1, S)

\* What makes it the last.
LEMMA LastIs ==
  ASSUME NEW d, NEW n \in Nat, NEW S
  PROVE  /\ Last(d, n, S) \in 0 .. n
         /\ Last(d, n, S) > 0 => d[Last(d, n, S)].is \in S
         /\ \A k \in 1 .. n : d[k].is \in S => k <= Last(d, n, S) /\ Last(d, n, S) > 0
<1> DEFINE T == {m \in 1 .. n : d[m].is \in S}
<1>1. Last(d, n, S) = IF T = {} THEN 0 ELSE CHOOSE m \in T : \A k \in T : k <= m
  <2>1. 1 .. (n + 1) - 1 = 1 .. n
    OBVIOUS
  <2>2. QED
    BY <2>1 DEF Last, LastBefore
<1>2. T # {} => \E m \in T : \A k \in T : k <= m
  <2>1. T \in SUBSET (0 .. n)
    OBVIOUS
  <2> HIDE DEF T
  <2>2. QED
    BY <2>1, Greatest
<1>3. CASE T = {}
  <2>1. \A k \in 1 .. n : d[k].is \notin S
    BY <1>3
  <2>2. Last(d, n, S) = 0
    BY <1>1, <1>3
  <2>3. QED
    BY <2>1, <2>2
<1>4. CASE T # {}
  <2>1. Last(d, n, S) \in T /\ \A k \in T : k <= Last(d, n, S)
    <3> HIDE DEF T
    <3>1. QED
      BY <1>1, <1>2, <1>4
  <2>2. QED
    BY <2>1
<1>5. QED
  BY <1>3, <1>4

\* It changes with a line that is one of S, and only with such a line.
LEMMA LastGrows ==
  ASSUME NEW d, NEW n \in Nat, NEW S
  PROVE  Last(d, n + 1, S) = IF d[n + 1].is \in S THEN n + 1 ELSE Last(d, n, S)
<1> DEFINE a == Last(d, n, S)
           b == Last(d, n + 1, S)
<1>1. /\ a \in 0 .. n /\ (a > 0 => d[a].is \in S)
      /\ \A k \in 1 .. n : d[k].is \in S => k <= a /\ a > 0
  BY LastIs
<1>2. /\ b \in 0 .. n + 1 /\ (b > 0 => d[b].is \in S)
      /\ \A k \in 1 .. n + 1 : d[k].is \in S => k <= b /\ b > 0
  <2>1. n + 1 \in Nat
    OBVIOUS
  <2> HIDE DEF a
  <2>2. QED
    BY <2>1, LastIs
<1> HIDE DEF a, b
<1>3. CASE d[n + 1].is \in S
  <2>1. n + 1 <= b
    BY <1>2, <1>3
  <2>2. QED
    BY <1>2, <1>3, <2>1 DEF a, b
<1>4. CASE d[n + 1].is \notin S
  <2>1. b # n + 1
    BY <1>2, <1>4
  <2>2. b \in 0 .. n
    BY <1>2, <2>1
  <2>3. b > 0 => b <= a
    BY <1>1, <1>2, <2>2
  <2>4. a > 0 => a <= b
    BY <1>1, <1>2
  <2>5. a = b
    BY <1>1, <2>2, <2>3, <2>4
  <2>6. QED
    BY <1>4, <2>5 DEF a, b
<1>5. QED
  BY <1>3, <1>4

\* There is none before the first line.
LEMMA NothingBefore ==
  ASSUME NEW d, NEW S
  PROVE  Last(d, 0, S) = 0
  BY LastIs

\* The headings at which flush_task is called, and the lines that Compact
\* is about.
Openings == SectionHeading \cup {"wave", "task"}
Signs == Heading \cup Field \cup {"description"}

\* The headings of features in waves.
FeatureLines(d, n) == {m \in 1 .. n : d[m].is = "feature" /\ WaveAt(d, m) > 0}

\* The value that a field of the task at line p has got by line n, and the task
\* with these values.
ValueTo(d, p, n, field) ==
  LET F == {m \in p + 1 .. n : Last(d, m, Heading) = p /\ d[m].is = field}
  IN IF F = {} THEN {} ELSE d[CHOOSE m \in F : \A k \in F : k <= m].of

TaskTo(d, p, n, part) ==
  [id |-> d[p].of, part |-> part,
   depends |-> ValueTo(d, p, n, "depends"), files |-> ValueTo(d, p, n, "files")]

\* Nothing but blank lines since "## Goal".
GoalRead(d, n, at) ==
  at.goal => /\ at.mode = "outer"
             /\ \E m \in 1 .. n : d[m].is = "goal" /\ \A k \in m + 1 .. n : d[k].is = "blank"

\* The parser is in the section under whose heading the next line stands.
SectionRead(d, n, at) ==
  LET s == SectionLine(d, n + 1)
  IN IF s = 0 THEN at.section = Nowhere
     ELSE at.section # Nowhere /\ (at.waves > 0 => Part(at) = ReadPart(d, s))

\* The features up to line n.
FeaturesTo(d, n) == {ReadPart(d, k) : k \in FeatureLines(d, n)}

\* They have been read, and have been numbered one by one.
FeaturesRead(d, n, at) ==
  /\ at.features = FeaturesTo(d, n)
  /\ Cardinality(at.features) = Cardinality(FeatureLines(d, n))

\* A task has begun and no section or wave after it ...
TaskBegun(d, n) == Last(d, n, Openings) > 0 /\ d[Last(d, n, Openings)].is = "task"

\* ... then it is the one that is being read, with the values it has got.
TaskRead(d, n, at) ==
  at.task = IF TaskBegun(d, n) THEN <<TaskTo(d, Last(d, n, Openings), n, Part(at))>> ELSE <<>>

\* The last heading, of whatever kind, is that of a task.
InTask(d, n) == Last(d, n, Heading) > 0 /\ d[Last(d, n, Heading)].is = "task"

\* The parser looks for fields below the heading of a task only, and does so
\* after a field and from a description on.
ModeRead(d, n, at) ==
  /\ at.mode # "outer" => InTask(d, n)
  /\ InTask(d, n) =>
       /\ Last(d, n, Signs) = n => at.mode # "outer"
       /\ d[Last(d, n, Signs)].is = "description" => at.mode = "description"

\* In s are the tasks with their headings in lines R, one each.
TasksAre(s, d, R) ==
  /\ {s[x] : x \in DOMAIN s} = {ReadTask(d, q) : q \in R}
  /\ s \in Seq({ReadTask(d, q) : q \in R}) /\ IsFiniteSet(R) /\ Len(s) = Cardinality(R)

\* The tasks before the one being read are in the plan.
TasksRead(d, n, at) ==
  TasksAre(at.tasks, d, {q \in ReadLines(d) : q < Last(d, n, Openings)})

\* Where the parser is after n lines of a document that is written well.
Read(d, n, at) ==
  /\ Parsing(at, WaveAt(d, n + 1)) /\ at.waves = WaveAt(d, n + 1)
  /\ GoalRead(d, n, at) /\ SectionRead(d, n, at) /\ FeaturesRead(d, n, at)
  /\ TaskRead(d, n, at) /\ ModeRead(d, n, at) /\ TasksRead(d, n, at)

\* The tasks of the plan after a flush_task.
Flushed(at) ==
  IF at.section # Nowhere /\ at.waves > 0 THEN at.tasks \o at.task ELSE at.tasks

\* flush_task, field by field.
LEMMA FlushIs ==
  ASSUME NEW at, Shape(at), NEW m
  PROVE  Flush([at EXCEPT !.mode = m]) =
           [goal |-> at.goal, waves |-> at.waves, section |-> at.section, task |-> <<>>,
            mode |-> m, features |-> at.features, tasks |-> Flushed(at)]
<1> DEFINE b == [goal |-> at.goal, waves |-> at.waves, section |-> at.section, task |-> at.task,
                 mode |-> m, features |-> at.features, tasks |-> at.tasks]
           new == Flushed(at)
<1>1. [at EXCEPT !.mode = m] = b
  BY DEF Shape
<1>2. Flush(b) = [b EXCEPT !.task = <<>>, !.tasks = new]
  BY DEF Flush, Flushed
<1> HIDE DEF new
<1>3. [b EXCEPT !.task = <<>>, !.tasks = new] =
        [goal |-> at.goal, waves |-> at.waves, section |-> at.section, task |-> <<>>,
            mode |-> m, features |-> at.features, tasks |-> new]
  <2> DEFINE r == [b EXCEPT !.task = <<>>, !.tasks = new]
             q == [goal |-> at.goal, waves |-> at.waves, section |-> at.section, task |-> <<>>,
                   mode |-> m, features |-> at.features, tasks |-> new]
  <2>1. DOMAIN r = DOMAIN q
    OBVIOUS
  <2>2. /\ r.goal = q.goal /\ r.waves = q.waves /\ r.section = q.section /\ r.task = q.task
        /\ r.mode = q.mode /\ r.features = q.features /\ r.tasks = q.tasks
    OBVIOUS
  <2>3. r = q
    BY <2>1, <2>2
  <2>4. QED
    BY <2>3
<1>4. QED
  BY <1>1, <1>2, <1>3 DEF new

\* A line that is no heading of a wave or section.
Kept(at, new) ==
  new.waves = at.waves /\ new.section = at.section /\ new.features = at.features

\* A heading ends the lines of a task.
LEMMA StepOuter ==
  ASSUME NEW at, NEW line, line.is \in Heading
  PROVE  Step(at, line) = Outer([at EXCEPT !.mode = "outer"], line)
BY DEF Step, Heading, SectionHeading, Continues, Field

\* What the parser does at the heading of a wave ...
LEMMA StepWave ==
  ASSUME NEW at, NEW line, Shape(at), ~at.goal, line.is = "wave"
  PROVE  LET new == Step(at, line)
         IN  /\ new.waves = at.waves + 1 /\ new.section = Nowhere /\ new.task = <<>>
             /\ new.features = at.features /\ new.tasks = Flushed(at) /\ new.mode = "outer"
             /\ new.goal = at.goal
<1> DEFINE b == [at EXCEPT !.mode = "outer"]
           f == [goal |-> at.goal, waves |-> at.waves, section |-> at.section, task |-> <<>>,
                 mode |-> "outer", features |-> at.features, tasks |-> Flushed(at)]
<1>1. b.goal = at.goal
  BY DEF Shape
<1>2. Step(at, line) = Outer(b, line)
  BY StepOuter DEF Heading
<1>3. Outer(b, line) = [Flush(b) EXCEPT !.waves = @ + 1, !.section = Nowhere]
  <2> HIDE DEF b
  <2>1. QED
    BY <1>1 DEF Outer, SectionHeading
<1>4. Flush(b) = f
  BY FlushIs
<1>5. [f EXCEPT !.waves = @ + 1, !.section = Nowhere] =
        [goal |-> f.goal, waves |-> f.waves + 1, section |-> Nowhere, task |-> f.task,
         mode |-> f.mode, features |-> f.features, tasks |-> f.tasks]
  <2>1. Shape(f)
    BY DEF Shape
  <2> HIDE DEF f
  <2>2. QED
    BY <2>1, WaveUpdate
<1> HIDE DEF b
<1>6. QED
  BY <1>2, <1>3, <1>4, <1>5

\* ... of a section ...
LEMMA StepSection ==
  ASSUME NEW at, NEW line, Shape(at), ~at.goal, line.is \in SectionHeading
  PROVE  LET new == Step(at, line)
             k == Cardinality(at.features) + 1
             s == IF line.is = "feature" THEN <<line.of, k>> ELSE <<line.is, 0>>
         IN  /\ new.waves = at.waves /\ new.section = s /\ new.task = <<>>
             /\ new.features = IF line.is = "feature" /\ at.waves > 0
                                 THEN at.features \cup {<<at.waves, line.of, k>>}
                               ELSE at.features
             /\ new.tasks = Flushed(at) /\ new.mode = "outer" /\ new.goal = at.goal
<1> DEFINE b == [at EXCEPT !.mode = "outer"]
           f == [goal |-> at.goal, waves |-> at.waves, section |-> at.section, task |-> <<>>,
                 mode |-> "outer", features |-> at.features, tasks |-> Flushed(at)]
           k == Cardinality(at.features) + 1
<1>1. b.goal = at.goal
  BY DEF Shape
<1>2. Step(at, line) = Outer(b, line)
  BY StepOuter DEF Heading
<1>3. Outer(b, line) = NewSection(Flush(b), line)
  <2> HIDE DEF b
  <2>1. QED
    BY <1>1 DEF Outer, SectionHeading
<1>4. Flush(b) = f
  BY FlushIs
<1>5. CASE line.is = "feature"
  <2> DEFINE new == [goal |-> at.goal, waves |-> at.waves, section |-> <<line.of, k>>,
                     task |-> <<>>, mode |-> "outer", features |-> at.features,
                     tasks |-> Flushed(at)]
             F == IF at.waves > 0 THEN at.features \cup {Part(new)} ELSE at.features
  <2> HIDE DEF k
  <2>1. [f EXCEPT !.section = <<line.of, k>>] = new
    OBVIOUS
  <2>2. Part(new) = <<at.waves, line.of, k>>
    BY PartIs
  <2>3. NewSection(f, line) = [new EXCEPT !.features = F]
    BY <1>5, <2>1 DEF NewSection, k
  <2> HIDE DEF F
  <2>4. [new EXCEPT !.features = F] =
          [goal |-> at.goal, waves |-> at.waves, section |-> <<line.of, k>>,
           task |-> <<>>, mode |-> "outer", features |-> F, tasks |-> Flushed(at)]
    OBVIOUS
  <2>5. F = IF at.waves > 0 THEN at.features \cup {<<at.waves, line.of, k>>} ELSE at.features
    BY <2>2 DEF F
  <2>6. Step(at, line) =
          [goal |-> at.goal, waves |-> at.waves, section |-> <<line.of, k>>,
           task |-> <<>>, mode |-> "outer", features |-> F, tasks |-> Flushed(at)]
    BY <1>2, <1>3, <1>4, <2>3, <2>4
  <2>7. QED
    BY <1>5, <2>5, <2>6 DEF k
<1>6. CASE line.is # "feature"
  <2>1. NewSection(f, line) = [f EXCEPT !.section = <<line.is, 0>>]
    BY <1>6 DEF NewSection
  <2>2. QED
    BY <1>2, <1>3, <1>4, <1>6, <2>1
<1>7. QED
  BY <1>5, <1>6

\* ... of a task ...
LEMMA StepTask ==
  ASSUME NEW at, NEW line, Shape(at), ~at.goal, line.is = "task"
  PROVE  LET new == Step(at, line)
         IN  /\ Kept(at, new) /\ new.task = <<NewTask(at, line)>>
             /\ new.tasks = Flushed(at) /\ new.mode = "fields" /\ new.goal = at.goal
<1> DEFINE b == [at EXCEPT !.mode = "outer"]
           f == [goal |-> at.goal, waves |-> at.waves, section |-> at.section, task |-> <<>>,
                 mode |-> "outer", features |-> at.features, tasks |-> Flushed(at)]
<1>1. b.goal = at.goal /\ NewTask(b, line) = NewTask(at, line)
  BY DEF Shape, NewTask, Part
<1>2. Step(at, line) = Outer(b, line)
  BY StepOuter DEF Heading
<1>3. Outer(b, line) = [Flush(b) EXCEPT !.task = <<NewTask(b, line)>>, !.mode = "fields"]
  <2> HIDE DEF b
  <2>1. QED
    BY <1>1 DEF Outer, SectionHeading
<1>4. Flush(b) = f
  BY FlushIs
<1>5. [f EXCEPT !.task = <<NewTask(at, line)>>, !.mode = "fields"] =
        [goal |-> f.goal, waves |-> f.waves, section |-> f.section,
         task |-> <<NewTask(at, line)>>, mode |-> "fields", features |-> f.features,
         tasks |-> f.tasks]
  <2>1. Shape(f)
    BY DEF Shape
  <2> HIDE DEF f
  <2>2. QED
    BY <2>1, TaskUpdate
<1> HIDE DEF b
<1>6. QED
  BY <1>1, <1>2, <1>3, <1>4, <1>5 DEF Kept

\* ... of the goal ...
LEMMA StepGoal ==
  ASSUME NEW at, NEW line, Shape(at), line.is = "goal"
  PROVE  LET new == Step(at, line)
         IN  Kept(at, new) /\ new.task = at.task /\ new.tasks = at.tasks /\ new.mode = "outer"
<1> DEFINE b == [at EXCEPT !.mode = "outer"]
<1>1. Step(at, line) = Outer(b, line)
  BY StepOuter DEF Heading
<1>2. Outer(b, line) = [b EXCEPT !.goal = TRUE]
  BY DEF Outer, SectionHeading
<1>3. QED
  BY <1>1, <1>2 DEF Shape, Kept

\* ... at a field of a task ...
LEMMA StepField ==
  ASSUME NEW at, NEW line, Shape(at), at.mode # "outer", line.is \in Field, NEW t, at.task = <<t>>
  PROVE  LET new == Step(at, line)
         IN  /\ Kept(at, new) /\ new.task = <<[t EXCEPT ![line.is] = line.of]>>
             /\ new.tasks = at.tasks /\ new.mode = "fields" /\ new.goal = at.goal
<1> DEFINE u == [t EXCEPT ![line.is] = line.of]
<1>1. Step(at, line) = [at EXCEPT !.mode = "fields", !.task[1][line.is] = line.of]
  BY DEF Step, Continues
<1>2. [at.task EXCEPT ![1] = [at.task[1] EXCEPT ![line.is] = line.of]] = <<u>>
  OBVIOUS
<1>3. Step(at, line) = [at EXCEPT !.task = <<u>>, !.mode = "fields"]
  BY <1>1, <1>2
<1> HIDE DEF u
<1>4. QED
  BY <1>3, TaskUpdate DEF Kept, u

\* Any other line, outside of the lines of a task.
LEMMA OuterElse ==
  ASSUME NEW at, NEW line, line.is \notin Heading \ {"heading"}
  PROVE  /\ ~at.goal => Outer(at, line) = at
         /\ at.goal => Outer(at, line) = [at EXCEPT !.goal = (line.is = "blank")]
<1>1. line.is # "goal" /\ line.is # "wave" /\ line.is \notin SectionHeading /\ line.is # "task"
  BY DEF Heading, SectionHeading
<1>2. CASE at.goal
  BY <1>1, <1>2 DEF Outer
<1>3. CASE ~at.goal
  BY <1>1, <1>3 DEF Outer
<1>4. QED
  BY <1>2, <1>3

\* The record with another goal_next_line.
LEMMA GoalUpdate ==
  ASSUME NEW at, Shape(at), NEW g
  PROVE  [at EXCEPT !.goal = g] =
           [goal |-> g, waves |-> at.waves, section |-> at.section, task |-> at.task,
            mode |-> at.mode, features |-> at.features, tasks |-> at.tasks]
BY DEF Shape

\* ... and at any other line.
LEMMA StepElse ==
  ASSUME NEW at, NEW line, Shape(at), line.is \notin (Heading \ {"heading"}) \cup {"stub"},
         ~(at.mode # "outer" /\ line.is \in Field), at.goal => at.mode = "outer"
  PROVE  LET new == Step(at, line)
         IN  /\ Kept(at, new) /\ new.task = at.task /\ new.tasks = at.tasks
             /\ new.mode = IF \/ at.mode # "outer" /\ line.is = "description"
                              \/ at.mode = "description" /\ line.is # "heading"
                             THEN "description" ELSE "outer"
             /\ new.goal => at.goal /\ line.is = "blank"
<1> DEFINE b == [at EXCEPT !.mode = "outer"]
<1>1. CASE at.mode # "outer" /\ line.is = "description"
  <2>1. Step(at, line) = [at EXCEPT !.mode = "description"]
    BY <1>1 DEF Step, Continues, Field
  <2>2. QED
    BY <1>1, <2>1 DEF Shape, Kept
<1>2. CASE at.mode = "description" /\ line.is \notin {"heading", "description"}
  <2>1. Step(at, line) = at
    BY <1>2 DEF Step, Continues, Heading
  <2>2. QED
    BY <1>2, <2>1 DEF Kept
<1>3. CASE ~(\/ at.mode # "outer" /\ line.is = "description"
             \/ at.mode = "description" /\ line.is # "heading")
  <2>1. Step(at, line) = Outer(b, line)
    BY <1>3 DEF Step, Continues, Heading
  <2>2. b.goal = at.goal
    BY DEF Shape
  <2>3. \/ ~at.goal /\ Outer(b, line) = b
        \/ at.goal /\ Outer(b, line) = [b EXCEPT !.goal = (line.is = "blank")]
    <3> HIDE DEF b
    <3>1. line.is \notin Heading \ {"heading"}
      OBVIOUS
    <3>2. /\ ~b.goal => Outer(b, line) = b
          /\ b.goal => Outer(b, line) = [b EXCEPT !.goal = (line.is = "blank")]
      BY <3>1, OuterElse
    <3>3. CASE b.goal
      BY <2>2, <3>2, <3>3, Zenon
    <3>4. CASE ~b.goal
      BY <2>2, <3>2, <3>4, Zenon
    <3>5. QED
      BY <3>3, <3>4
  <2>4. b = [goal |-> at.goal, waves |-> at.waves, section |-> at.section, task |-> at.task,
             mode |-> "outer", features |-> at.features, tasks |-> at.tasks]
    BY DEF Shape
  <2>5. CASE ~at.goal /\ Outer(b, line) = b
    BY <1>3, <2>1, <2>4, <2>5 DEF Kept
  <2>6. CASE at.goal /\ Outer(b, line) = [b EXCEPT !.goal = (line.is = "blank")]
    <3> DEFINE x == line.is = "blank"
               new == [goal |-> x, waves |-> at.waves, section |-> at.section,
                       task |-> at.task, mode |-> "outer", features |-> at.features,
                       tasks |-> at.tasks]
    <3>1. [b EXCEPT !.goal = x] = new
      <4>1. Shape(b)
        BY <2>4 DEF Shape
      <4>2. /\ b.waves = at.waves /\ b.section = at.section /\ b.task = at.task
            /\ b.mode = "outer" /\ b.features = at.features /\ b.tasks = at.tasks
        BY <2>4
      <4> HIDE DEF b, x
      <4>3. [b EXCEPT !.goal = x] =
              [goal |-> x, waves |-> b.waves, section |-> b.section, task |-> b.task,
               mode |-> b.mode, features |-> b.features, tasks |-> b.tasks]
        BY <4>1, GoalUpdate
      <4>4. QED
        BY <4>2, <4>3
    <3>2. Step(at, line) = new
      BY <2>1, <2>6, <3>1
    <3> HIDE DEF x
    <3>3. new.goal => x
      OBVIOUS
    <3>4. new.waves = at.waves /\ new.section = at.section /\ new.features = at.features
            /\ new.task = at.task /\ new.tasks = at.tasks /\ new.mode = "outer"
      OBVIOUS
    <3> HIDE DEF new
    <3>5. Step(at, line).goal => at.goal /\ line.is = "blank"
      BY <2>6, <3>2, <3>3 DEF x
    <3>6. QED
      BY <1>3, <3>2, <3>4, <3>5 DEF Kept
  <2>7. QED
    BY <2>3, <2>5, <2>6
<1>4. QED
  BY <1>1, <1>2, <1>3

\* The last line of a kind stays that when no further one comes.
LEMMA LastSame ==
  ASSUME NEW d, NEW p \in Nat, NEW n \in Nat, p <= n, NEW S,
         \A k \in p + 1 .. n : d[k].is \notin S
  PROVE  Last(d, n, S) = Last(d, p, S)
<1> DEFINE a == Last(d, p, S)
           b == Last(d, n, S)
<1>1. /\ a \in 0 .. p /\ (a > 0 => d[a].is \in S)
      /\ \A k \in 1 .. p : d[k].is \in S => k <= a /\ a > 0
  BY LastIs
<1>2. /\ b \in 0 .. n /\ (b > 0 => d[b].is \in S)
      /\ \A k \in 1 .. n : d[k].is \in S => k <= b /\ b > 0
  BY LastIs
<1> HIDE DEF a, b
<1>3. b \notin p + 1 .. n
  BY <1>2
<1>4. b \in 0 .. p
  BY <1>2, <1>3
<1>5. b > 0 => b <= a
  BY <1>1, <1>2, <1>4
<1>6. a > 0 => a <= b
  BY <1>1, <1>2
<1>7. a = b
  BY <1>1, <1>4, <1>5, <1>6
<1>8. QED
  BY <1>7 DEF a, b

\* Without a heading of a wave the wave goes on.
LEMMA WaveSame ==
  ASSUME NEW d, NEW p \in Nat \ {0}, NEW n \in Nat, p <= n,
         \A k \in p .. n : d[k].is # "wave"
  PROVE  WaveAt(d, n + 1) = WaveAt(d, p)
<1>1. {m \in 1 .. (n + 1) - 1 : d[m].is = "wave"} = {m \in 1 .. p - 1 : d[m].is = "wave"}
  OBVIOUS
<1>2. QED
  BY <1>1 DEF WaveAt

\* A wave before the name and number of a section.
LEMMA TripleIs ==
  ASSUME NEW w, NEW a, NEW b
  PROVE  <<w>> \o <<a, b>> = <<w, a, b>>
<1> DEFINE at == [waves |-> w, section |-> <<a, b>>]
<1>1. Part(at) = <<at.waves, at.section[1], at.section[2]>>
  <2>1. at.section = <<at.section[1], at.section[2]>>
    OBVIOUS
  <2> HIDE DEF at
  <2>2. QED
    BY <2>1, PartIs
<1>2. Part(at) = <<w>> \o <<a, b>>
  BY DEF Part
<1>3. QED
  BY <1>1, <1>2

\* The parser waits for the goal only where it comes: no heading is lost.
LEMMA GoalNext ==
  ASSUME NEW d, Len(d) \in Nat, GoalGiven(d), NEW n \in 0 .. Len(d) - 1, NEW at,
         GoalRead(d, n, at), at.goal
  PROVE  d[n + 1].is \in {"blank", "text"}
<1>1. PICK m \in 1 .. n : d[m].is = "goal" /\ \A k \in m + 1 .. n : d[k].is = "blank"
  BY DEF GoalRead
<1>2. PICK e \in m + 1 .. Len(d) :
        d[e].is = "text" /\ \A k \in m + 1 .. e - 1 : d[k].is = "blank"
  <2>1. m \in 1 .. Len(d)
    OBVIOUS
  <2>2. QED
    BY <1>1, <2>1 DEF GoalGiven
<1>3. e \notin m + 1 .. n
  BY <1>1, <1>2
<1>4. e = n + 1 \/ n + 1 \in m + 1 .. e - 1
  BY <1>3
<1>5. QED
  BY <1>2, <1>4

\* No field and no description comes when the lines of its task are over.
LEMMA StaysInTask ==
  ASSUME NEW d, Len(d) \in Nat, Compact(d), NEW n \in 0 .. Len(d) - 1, NEW at,
         ModeRead(d, n, at), InTask(d, n), d[n + 1].is \in Field \cup {"description"}
  PROVE  at.mode # "outer"
<1> DEFINE h == Last(d, n, Heading)
           b == Last(d, n, Signs)
<1>1. n \in Nat /\ n + 1 \in 1 .. Len(d)
  OBVIOUS
<1>2. b > 0 => \/ b = (n + 1) - 1
               \/ d[b].is \in (Heading \ {"task"}) \cup {"description"}
  BY <1>1 DEF Compact, Last, Signs
<1>3. h \in 1 .. n /\ d[h].is = "task" /\ \A k \in 1 .. n : d[k].is \in Heading => k <= h
  BY <1>1, LastIs DEF InTask
<1>4. b \in 0 .. n /\ \A k \in 1 .. n : d[k].is \in Signs => k <= b /\ b > 0
  BY <1>1, LastIs
<1>5. b = n => at.mode # "outer"
  BY DEF ModeRead
<1>6. d[b].is = "description" => at.mode = "description"
  BY DEF ModeRead
<1> HIDE DEF h, b
<1>7. h <= b /\ b > 0
  BY <1>3, <1>4 DEF Signs, Heading
<1>8. d[b].is \in Heading => b = h
  BY <1>3, <1>4, <1>7
<1>9. b = n \/ d[b].is = "description"
  BY <1>1, <1>2, <1>3, <1>7, <1>8
<1>10. QED
  BY <1>5, <1>6, <1>9

\* Below the heading of a task it is the task that is being read.
LEMMA OpenIsHeading ==
  ASSUME NEW d, NEW n \in Nat, InTask(d, n)
  PROVE  Last(d, n, Openings) = Last(d, n, Heading) /\ TaskBegun(d, n)
<1> DEFINE h == Last(d, n, Heading)
           p == Last(d, n, Openings)
<1>1. h \in 1 .. n /\ d[h].is = "task" /\ \A k \in 1 .. n : d[k].is \in Heading => k <= h
  BY LastIs DEF InTask
<1>2. /\ p \in 0 .. n /\ (p > 0 => d[p].is \in Openings)
      /\ \A k \in 1 .. n : d[k].is \in Openings => k <= p /\ p > 0
  BY LastIs
<1> HIDE DEF h, p
<1>3. h <= p /\ p > 0
  BY <1>1, <1>2 DEF Openings
<1>4. p <= h
  BY <1>1, <1>2, <1>3 DEF Openings, Heading
<1>5. p = h
  BY <1>1, <1>2, <1>3, <1>4
<1>6. QED
  BY <1>1, <1>5 DEF h, p, TaskBegun

\* At the next heading, or at the end, all values have been given.
LEMMA ValueIs ==
  ASSUME NEW d, Len(d) \in Nat, NEW n \in 0 .. Len(d), NEW p \in 1 .. n, NEW field,
         n = Len(d) \/ d[n + 1].is \in Heading
  PROVE  ValueTo(d, p, n, field) = Value(d, p, field)
<1> DEFINE F == {m \in p + 1 .. n : Last(d, m, Heading) = p /\ d[m].is = field}
           G == {m \in Block(d, p) : d[m].is = field}
<1>1. ASSUME NEW m \in n + 1 .. Len(d)
      PROVE  Last(d, m, Heading) # p
  <2>1. d[n + 1].is \in Heading /\ n + 1 \in 1 .. m /\ m \in Nat
    BY <1>1
  <2>2. n + 1 <= Last(d, m, Heading)
    BY <2>1, LastIs
  <2>3. QED
    BY <2>2
<1>2. G = {m \in p + 1 .. Len(d) : Last(d, m, Heading) = p /\ d[m].is = field}
  BY DEF Block, Last
<1>3. F = G
  BY <1>1, <1>2
<1>4. ValueTo(d, p, n, field) = IF F = {} THEN {} ELSE d[CHOOSE m \in F : \A k \in F : k <= m].of
  BY DEF ValueTo
<1>5. Value(d, p, field) = IF G = {} THEN {} ELSE d[CHOOSE m \in G : \A k \in G : k <= m].of
  BY DEF Value
<1> HIDE DEF F, G
<1>6. QED
  BY <1>3, <1>4, <1>5

\* The last line that gives a value counts.
LEMMA ValueNext ==
  ASSUME NEW d, NEW n \in Nat, NEW p \in 1 .. n, NEW field
  PROVE  /\ d[n + 1].is = field /\ Last(d, n + 1, Heading) = p
              => ValueTo(d, p, n + 1, field) = d[n + 1].of
         /\ ~(d[n + 1].is = field /\ Last(d, n + 1, Heading) = p)
              => ValueTo(d, p, n + 1, field) = ValueTo(d, p, n, field)
<1> DEFINE F(k) == {m \in p + 1 .. k : Last(d, m, Heading) = p /\ d[m].is = field}
<1>1. \A k \in {n, n + 1} : ValueTo(d, p, k, field) =
        IF F(k) = {} THEN {} ELSE d[CHOOSE m \in F(k) : \A j \in F(k) : j <= m].of
  BY DEF ValueTo
<1>2. ASSUME d[n + 1].is = field, Last(d, n + 1, Heading) = p
      PROVE  ValueTo(d, p, n + 1, field) = d[n + 1].of
  <2>1. n + 1 \in F(n + 1) /\ \A j \in F(n + 1) : j <= n + 1 /\ j \in Nat
    BY <1>2
  <2> DEFINE H == F(n + 1)
  <2>2. ValueTo(d, p, n + 1, field) =
          IF H = {} THEN {} ELSE d[CHOOSE m \in H : \A j \in H : j <= m].of
    BY <1>1
  <2> HIDE DEF F, H
  <2>3. n + 1 \in H /\ \A j \in H : j <= n + 1 /\ j \in Nat
    BY <2>1 DEF H
  <2>4. (CHOOSE m \in H : \A j \in H : j <= m) = n + 1
    <3> DEFINE c == CHOOSE m \in H : \A j \in H : j <= m
    <3>1. c \in H /\ \A j \in H : j <= c
      BY <2>3
    <3> HIDE DEF c
    <3>2. n + 1 <= c /\ c <= n + 1 /\ c \in Nat
      BY <2>3, <3>1
    <3>3. c = n + 1
      BY <3>2
    <3>4. QED
      BY <3>3 DEF c
  <2>5. QED
    BY <2>2, <2>3, <2>4
<1>3. ASSUME ~(d[n + 1].is = field /\ Last(d, n + 1, Heading) = p)
      PROVE  ValueTo(d, p, n + 1, field) = ValueTo(d, p, n, field)
  <2>1. F(n + 1) = F(n)
    BY <1>3
  <2> HIDE DEF F
  <2>2. QED
    BY <1>1, <2>1
<1>4. QED
  BY <1>2, <1>3

\* One more task in the plan.
LEMMA AppendTask ==
  ASSUME NEW s, NEW d, NEW R, TasksAre(s, d, R), NEW p, p \notin R
  PROVE  TasksAre(s \o <<ReadTask(d, p)>>, d, R \cup {p})
<1> DEFINE S == {ReadTask(d, q) : q \in R}
           U == {ReadTask(d, q) : q \in R \cup {p}}
           e == ReadTask(d, p)
           t == s \o <<e>>
<1>1. S \subseteq U /\ e \in U /\ U = S \cup {e}
  OBVIOUS
<1>2. s \in Seq(S) /\ {s[x] : x \in DOMAIN s} = S /\ IsFiniteSet(R) /\ Len(s) = Cardinality(R)
  BY DEF TasksAre
<1>3. IsFiniteSet(R \cup {p}) /\ Cardinality(R \cup {p}) = Cardinality(R) + 1
  BY <1>2, FS_AddElement
<1> HIDE DEF S, U, e
<1>4. s \in Seq(U) /\ <<e>> \in Seq(U) /\ Len(<<e>>) = 1 /\ <<e>>[1] = e
  BY <1>1, <1>2, SeqMonotonic
<1> DEFINE one == <<e>>
<1> HIDE DEF one
<1>5. one \in Seq(U) /\ Len(one) = 1 /\ one[1] = e
  BY <1>4 DEF one
<1>6. /\ t \in Seq(U) /\ Len(t) = Len(s) + 1 /\ Len(s) \in Nat
      /\ DOMAIN s = 1 .. Len(s) /\ DOMAIN t = 1 .. Len(t)
      /\ \A x \in 1 .. Len(s) + 1 : t[x] = IF x <= Len(s) THEN s[x] ELSE one[x - Len(s)]
  <2>1. t = s \o one
    BY DEF one
  <2>2. s \o one \in Seq(U) /\ Len(s \o one) = Len(s) + Len(one)
        /\ \A x \in 1 .. Len(s) + Len(one) :
             (s \o one)[x] = IF x <= Len(s) THEN s[x] ELSE one[x - Len(s)]
    BY <1>4, <1>5, ConcatProperties
  <2>3. Len(s) \in Nat /\ DOMAIN s = 1 .. Len(s)
    BY <1>4, LenProperties
  <2>4. DOMAIN (s \o one) = 1 .. Len(s \o one)
    BY <2>2, LenProperties
  <2> HIDE DEF t
  <2>5. QED
    BY <1>5, <2>1, <2>2, <2>3, <2>4
<1> HIDE DEF t
<1>7. t[Len(s) + 1] = e /\ \A x \in DOMAIN s : t[x] = s[x]
  BY <1>5, <1>6
<1>8. {t[x] : x \in DOMAIN t} = {s[x] : x \in DOMAIN s} \cup {e}
  <2>1. DOMAIN t = DOMAIN s \cup {Len(s) + 1}
    BY <1>6
  <2>2. QED
    BY <1>7, <2>1
<1>9. QED
  BY <1>1, <1>2, <1>3, <1>6, <1>8 DEF TasksAre, S, U, e, t

\* flush_task at a heading, or at the end: the plan has all tasks so far.
LEMMA FlushRead ==
  ASSUME NEW d, Len(d) \in Nat, NEW n \in 0 .. Len(d), NEW at, Read(d, n, at),
         n = Len(d) \/ d[n + 1].is \in Heading
  PROVE  TasksAre(Flushed(at), d, {q \in ReadLines(d) : q <= n})
<1> DEFINE p == Last(d, n, Openings)
           R == {q \in ReadLines(d) : q < p}
           Q == {q \in ReadLines(d) : q <= n}
<1>1. n \in Nat
  OBVIOUS
<1>2. /\ p \in 0 .. n /\ (p > 0 => d[p].is \in Openings)
      /\ \A k \in 1 .. n : d[k].is \in Openings => k <= p /\ p > 0
  BY <1>1, LastIs
<1>3. TasksAre(at.tasks, d, R)
  BY DEF Read, TasksRead
<1>4. at.task = IF TaskBegun(d, n) THEN <<TaskTo(d, p, n, Part(at))>> ELSE <<>>
  BY DEF Read, TaskRead
<1>5. TaskBegun(d, n) <=> p > 0 /\ d[p].is = "task"
  BY DEF TaskBegun
<1> HIDE DEF p
<1>6. Q = IF p \in ReadLines(d) THEN R \cup {p} ELSE R
  <2>1. \A q \in ReadLines(d) : q \in 1 .. Len(d) /\ d[q].is \in Openings
    BY DEF ReadLines, TaskLines, Openings
  <2>2. \A q \in Q : q <= p
    BY <1>2, <2>1
  <2>3. QED
    BY <1>2, <2>1, <2>2
<1>7. CASE ~TaskBegun(d, n)
  <2>1. p \notin ReadLines(d)
    BY <1>5, <1>7 DEF ReadLines, TaskLines
  <2>2. Flushed(at) = at.tasks
    <3>1. at.tasks \in Seq({ReadTask(d, q) : q \in R})
      BY <1>3 DEF TasksAre
    <3>2. at.tasks \o <<>> = at.tasks
      BY <3>1, ConcatEmptySeq
    <3>3. QED
      BY <1>4, <1>7, <3>2 DEF Flushed
  <2>3. QED
    BY <1>3, <1>6, <2>1, <2>2
<1>8. CASE TaskBegun(d, n)
  <2>1. p \in 1 .. n /\ d[p].is = "task" /\ p \in TaskLines(d)
    BY <1>2, <1>5, <1>8 DEF TaskLines
  <2>2. at.waves = WaveAt(d, p)
    <3>1. \A k \in p .. n : d[k].is # "wave"
      <4>1. \A k \in p + 1 .. n : d[k].is \notin Openings
        BY <1>2
      <4>2. QED
        BY <2>1, <4>1 DEF Openings
    <3>2. p \in Nat \ {0} /\ p <= n
      BY <2>1
    <3>3. WaveAt(d, n + 1) = WaveAt(d, p)
      BY <1>1, <3>1, <3>2, WaveSame
    <3>4. QED
      BY <3>3 DEF Read
  <2>3. SectionLine(d, n + 1) = SectionLine(d, p)
    <3> DEFINE S == SectionHeading \cup {"wave"}
               m == p - 1
    <3>1. \A k \in m + 1 .. n : d[k].is \notin S
      <4>1. \A k \in p + 1 .. n : d[k].is \notin Openings
        BY <1>2
      <4>2. \A k \in p + 1 .. n : d[k].is \notin S
        BY <4>1 DEF Openings
      <4>3. d[p].is \notin S
        BY <2>1 DEF SectionHeading
      <4>4. QED
        BY <2>1, <4>2, <4>3
    <3>2. m \in Nat /\ m <= n /\ m + 1 = p
      BY <2>1
    <3> HIDE DEF m, S
    <3>3. Last(d, n, S) = Last(d, m, S)
      BY <1>1, <3>1, <3>2, LastSame
    <3>4. LastBefore(d, n + 1, S) = LastBefore(d, p, S)
      BY <3>2, <3>3 DEF Last
    <3>5. QED
      BY <3>4 DEF SectionLine, S
  <2>4. (at.section # Nowhere /\ at.waves > 0) <=> p \in ReadLines(d)
    BY <2>1, <2>2, <2>3 DEF ReadLines, Read, SectionRead
  <2>5. CASE p \notin ReadLines(d)
    <3>1. Flushed(at) = at.tasks
      BY <2>4, <2>5 DEF Flushed
    <3>2. QED
      BY <1>3, <1>6, <2>5, <3>1
  <2>6. CASE p \in ReadLines(d)
    <3>1. Part(at) = ReadPart(d, SectionLine(d, p))
      BY <2>3, <2>4, <2>6 DEF Read, SectionRead
    <3>2. \A f \in {"depends", "files"} : ValueTo(d, p, n, f) = Value(d, p, f)
      BY <2>1, ValueIs
    <3>3. TaskTo(d, p, n, Part(at)) = ReadTask(d, p)
      BY <3>1, <3>2 DEF TaskTo, ReadTask
    <3>4. Flushed(at) = at.tasks \o <<ReadTask(d, p)>>
      BY <1>4, <1>8, <2>4, <2>6, <3>3 DEF Flushed
    <3>5. p \notin R
      BY <2>1
    <3> HIDE DEF R
    <3>6. TasksAre(at.tasks \o <<ReadTask(d, p)>>, d, R \cup {p})
      BY <1>3, <3>5, AppendTask
    <3>7. QED
      BY <1>6, <2>6, <3>4, <3>6
  <2>7. QED
    BY <2>5, <2>6
<1>9. QED
  BY <1>7, <1>8

\* Lines at which nothing is flushed.
LEMMA KeptReads ==
  ASSUME NEW d, NEW n \in Nat, NEW at, NEW new, Read(d, n, at), Kept(at, new),
         new.tasks = at.tasks, d[n + 1].is \notin Openings
  PROVE  /\ new.waves = WaveAt(d, n + 2)
         /\ SectionRead(d, n + 1, new) /\ FeaturesRead(d, n + 1, new)
         /\ TasksRead(d, n + 1, new)
         /\ Last(d, n + 1, Openings) = Last(d, n, Openings) /\ Part(new) = Part(at)
<1>1. WaveAt(d, n + 2) = WaveAt(d, n + 1)
  BY WaveAtGrows DEF Openings
<1>2. Part(new) = Part(at)
  BY DEF Kept, Part
<1>3. SectionLine(d, n + 2) = SectionLine(d, n + 1)
  <2> DEFINE S == SectionHeading \cup {"wave"}
  <2>1. d[n + 1].is \notin S
    BY DEF Openings
  <2> HIDE DEF S
  <2>2. Last(d, n + 1, S) = Last(d, n, S)
    BY <2>1, LastGrows
  <2>3. LastBefore(d, n + 2, S) = LastBefore(d, n + 1, S)
    <3>1. (n + 1) + 1 = n + 2
      OBVIOUS
    <3>2. QED
      BY <2>2, <3>1 DEF Last
  <2>4. QED
    BY <2>3 DEF SectionLine, S
<1>4. (n + 1) + 1 = n + 2
  OBVIOUS
<1>5. FeatureLines(d, n + 1) = FeatureLines(d, n)
  BY DEF FeatureLines, Openings, SectionHeading
<1>6. Last(d, n + 1, Openings) = Last(d, n, Openings)
  BY LastGrows
<1>7. SectionRead(d, n + 1, new)
  BY <1>2, <1>3, <1>4 DEF Read, SectionRead, Kept
<1>8. FeaturesRead(d, n + 1, new)
  BY <1>5 DEF Read, FeaturesRead, FeaturesTo, Kept
<1>9. TasksRead(d, n + 1, new)
  BY <1>6 DEF Read, TasksRead
<1>10. new.waves = WaveAt(d, n + 2)
  BY <1>1 DEF Read, Kept
<1>11. QED
  BY <1>2, <1>6, <1>7, <1>8, <1>9, <1>10

\* Lines that give the task no value.
LEMMA TaskEnds ==
  ASSUME NEW d, NEW n \in Nat, NEW at, NEW new, Read(d, n, at), new.task = at.task,
         Part(new) = Part(at), d[n + 1].is \notin Openings,
         d[n + 1].is \in Field => ~InTask(d, n)
  PROVE  TaskRead(d, n + 1, new)
<1> DEFINE p == Last(d, n, Openings)
<1>1. Last(d, n + 1, Openings) = p
  BY LastGrows
<1>2. TaskBegun(d, n + 1) <=> TaskBegun(d, n)
  BY <1>1 DEF TaskBegun
<1>3. ASSUME TaskBegun(d, n)
      PROVE  TaskTo(d, p, n + 1, Part(new)) = TaskTo(d, p, n, Part(at))
  <2>1. p \in 1 .. n /\ d[p].is = "task"
    BY <1>3, LastIs DEF TaskBegun
  <2> HIDE DEF p
  <2>2. ASSUME NEW f \in {"depends", "files"}
        PROVE  ValueTo(d, p, n + 1, f) = ValueTo(d, p, n, f)
    <3>1. ~(d[n + 1].is = f /\ Last(d, n + 1, Heading) = p)
      <4>1. SUFFICES ASSUME d[n + 1].is = f, Last(d, n + 1, Heading) = p
                     PROVE  FALSE
        OBVIOUS
      <4>2. d[n + 1].is \in Field /\ d[n + 1].is \notin Heading
        BY <4>1 DEF Field, Heading, SectionHeading
      <4>3. Last(d, n, Heading) = p
        BY <4>1, <4>2, LastGrows
      <4>4. InTask(d, n)
        BY <2>1, <4>3 DEF InTask
      <4>5. QED
        BY <4>2, <4>4
    <3>2. QED
      BY <2>1, <3>1, ValueNext
  <2>3. QED
    BY <2>2 DEF TaskTo
<1>4. at.task = IF TaskBegun(d, n) THEN <<TaskTo(d, p, n, Part(at))>> ELSE <<>>
  BY DEF Read, TaskRead
<1> HIDE DEF p
<1>5. QED
  BY <1>1, <1>2, <1>3, <1>4 DEF TaskRead

\* A blank line before the goal.
LEMMA GoalStep ==
  ASSUME NEW d, NEW n \in Nat, NEW at, NEW new, GoalRead(d, n, at), d[n + 1].is = "blank",
         at.goal, new.mode = "outer"
  PROVE  GoalRead(d, n + 1, new)
<1>1. PICK m \in 1 .. n : d[m].is = "goal" /\ \A k \in m + 1 .. n : d[k].is = "blank"
  BY DEF GoalRead
<1>2. m \in 1 .. n + 1 /\ \A k \in m + 1 .. n + 1 : d[k].is = "blank"
  BY <1>1
<1>3. QED
  BY <1>1, <1>2 DEF GoalRead

\* Read after one more line, but for the types.
Advanced(d, n, new) ==
  /\ new.waves = WaveAt(d, n + 2)
  /\ GoalRead(d, n + 1, new) /\ SectionRead(d, n + 1, new) /\ FeaturesRead(d, n + 1, new)
  /\ TaskRead(d, n + 1, new) /\ ModeRead(d, n + 1, new) /\ TasksRead(d, n + 1, new)

\* The heading of the goal keeps Read ...
LEMMA ReadGoal ==
  ASSUME NEW d, NEW n \in Nat, NEW at, Read(d, n, at), d[n + 1].is = "goal",
         NEW new, new = Step(at, d[n + 1])
  PROVE  Advanced(d, n, new)
<1>1. Shape(at)
  BY DEF Read, Parsing
<1>2. Kept(at, new) /\ new.task = at.task /\ new.tasks = at.tasks /\ new.mode = "outer"
  BY <1>1, StepGoal
<1>3. d[n + 1].is \notin Openings /\ d[n + 1].is \notin Field /\ d[n + 1].is \in Heading
  BY DEF Openings, SectionHeading, Field, Heading
<1>4. /\ new.waves = WaveAt(d, n + 2)
      /\ SectionRead(d, n + 1, new) /\ FeaturesRead(d, n + 1, new)
      /\ TasksRead(d, n + 1, new) /\ Part(new) = Part(at)
  BY <1>2, <1>3, KeptReads
<1>5. TaskRead(d, n + 1, new)
  BY <1>2, <1>3, <1>4, TaskEnds
<1>6. GoalRead(d, n + 1, new)
  <2>1. n + 1 \in 1 .. n + 1 /\ \A k \in (n + 1) + 1 .. n + 1 : d[k].is = "blank"
    OBVIOUS
  <2>2. QED
    BY <1>2, <2>1 DEF GoalRead
<1>7. ModeRead(d, n + 1, new)
  <2>1. Last(d, n + 1, Heading) = n + 1
    BY <1>3, LastGrows
  <2>2. QED
    BY <1>2, <2>1 DEF ModeRead, InTask
<1>8. QED
  BY <1>4, <1>5, <1>6, <1>7 DEF Advanced

\* ... a field does ...
LEMMA ReadField ==
  ASSUME NEW d, NEW n \in Nat, NEW at, Read(d, n, at), d[n + 1].is \in Field,
         at.mode # "outer", NEW new, new = Step(at, d[n + 1])
  PROVE  Advanced(d, n, new)
<1> DEFINE p == Last(d, n, Openings)
           t == TaskTo(d, p, n, Part(at))
<1>1. Shape(at) /\ ~at.goal /\ InTask(d, n)
  BY DEF Read, Parsing, GoalRead, ModeRead
<1>2. p = Last(d, n, Heading) /\ TaskBegun(d, n) /\ p \in 1 .. n
  <2>1. p = Last(d, n, Heading) /\ TaskBegun(d, n)
    BY <1>1, OpenIsHeading
  <2>2. p \in 0 .. n
    BY LastIs
  <2>3. p > 0
    BY <2>1 DEF TaskBegun
  <2> HIDE DEF p
  <2>4. QED
    BY <2>1, <2>2, <2>3
<1>3. at.task = <<t>>
  BY <1>2 DEF Read, TaskRead
<1>4. /\ Kept(at, new) /\ new.task = <<[t EXCEPT ![d[n + 1].is] = d[n + 1].of]>>
      /\ new.tasks = at.tasks /\ new.mode = "fields" /\ new.goal = at.goal
  <2> HIDE DEF t
  <2>1. QED
    BY <1>1, <1>3, StepField
<1>5. d[n + 1].is \notin Openings /\ d[n + 1].is \notin Heading /\ d[n + 1].is \in Signs
        /\ d[n + 1].is # "description"
  BY DEF Openings, SectionHeading, Field, Heading, Signs
<1>6. /\ new.waves = WaveAt(d, n + 2)
      /\ SectionRead(d, n + 1, new) /\ FeaturesRead(d, n + 1, new)
      /\ TasksRead(d, n + 1, new)
      /\ Last(d, n + 1, Openings) = p /\ Part(new) = Part(at)
  BY <1>4, <1>5, KeptReads
<1>7. Last(d, n + 1, Heading) = p
  BY <1>2, <1>5, LastGrows
<1>8. TaskRead(d, n + 1, new)
  <2>1. TaskBegun(d, n + 1)
    BY <1>2, <1>6 DEF TaskBegun
  <2> DEFINE v(k, f) == ValueTo(d, p, k, f)
             is == d[n + 1].is
             of == d[n + 1].of
  <2>2. \A f \in Field : v(n + 1, f) = IF f = is THEN of ELSE v(n, f)
    <3> HIDE DEF p
    <3>1. QED
      BY <1>2, <1>7, ValueNext
  <2>3. t = [id |-> d[p].of, part |-> Part(at), depends |-> v(n, "depends"),
             files |-> v(n, "files")]
    BY DEF TaskTo
  <2>4. TaskTo(d, p, n + 1, Part(new)) =
          [id |-> d[p].of, part |-> Part(at), depends |-> v(n + 1, "depends"),
           files |-> v(n + 1, "files")]
    BY <1>6 DEF TaskTo
  <2>5. is = "depends" \/ is = "files"
    BY DEF Field
  <2> HIDE DEF v, is, of, t, p
  <2>6. v(n + 1, "depends") = IF is = "depends" THEN of ELSE v(n, "depends")
    BY <2>2, <2>5 DEF Field
  <2>7. v(n + 1, "files") = IF is = "files" THEN of ELSE v(n, "files")
    BY <2>2, <2>5 DEF Field
  <2>8. [t EXCEPT ![is] = of] = TaskTo(d, p, n + 1, Part(new))
    <3>1. CASE is = "depends"
      BY <2>3, <2>4, <2>6, <2>7, <3>1
    <3>2. CASE is = "files"
      BY <2>3, <2>4, <2>6, <2>7, <3>2
    <3>3. QED
      BY <2>5, <3>1, <3>2
  <2>9. QED
    BY <1>4, <1>6, <2>1, <2>8 DEF TaskRead, is, of, p
<1>9. ModeRead(d, n + 1, new)
  <2>1. InTask(d, n + 1)
    BY <1>1, <1>2, <1>7 DEF InTask
  <2>2. Last(d, n + 1, Signs) = n + 1
    BY <1>5, LastGrows
  <2>3. QED
    BY <1>4, <1>5, <2>1, <2>2 DEF ModeRead
<1>10. GoalRead(d, n + 1, new)
  BY <1>1, <1>4 DEF GoalRead
<1>11. QED
  BY <1>6, <1>8, <1>9, <1>10 DEF Advanced

\* ... and what is neither of these nor opens anything.
LEMMA ReadElse ==
  ASSUME NEW d, Len(d) \in Nat, WellWritten(d), NEW n \in 0 .. Len(d) - 1, NEW at,
         Read(d, n, at), d[n + 1].is \notin Openings \cup {"goal"},
         ~(at.mode # "outer" /\ d[n + 1].is \in Field), NEW new, new = Step(at, d[n + 1])
  PROVE  Advanced(d, n, new)
<1> DEFINE line == d[n + 1]
<1>1. Shape(at) /\ n \in Nat /\ n + 1 \in 1 .. Len(d)
  BY DEF Read, Parsing
<1>2. line.is \notin (Heading \ {"heading"}) \cup {"stub"}
  <2>1. line.is # "stub"
    BY <1>1 DEF WellWritten, Filled
  <2>2. QED
    BY <2>1 DEF Openings, Heading
<1>3. at.goal => at.mode = "outer"
  BY DEF Read, GoalRead
<1>4. /\ Kept(at, new) /\ new.task = at.task /\ new.tasks = at.tasks
      /\ new.mode = IF \/ at.mode # "outer" /\ line.is = "description"
                       \/ at.mode = "description" /\ line.is # "heading"
                      THEN "description" ELSE "outer"
      /\ new.goal => at.goal /\ line.is = "blank"
  <2> HIDE DEF line
  <2>1. new = Step(at, line)
    BY DEF line
  <2>2. ~(at.mode # "outer" /\ line.is \in Field)
    BY DEF line
  <2>3. QED
    BY <1>1, <1>2, <1>3, <2>1, <2>2, StepElse
<1>5. line.is \in Field \cup {"description"} /\ InTask(d, n) => at.mode # "outer"
  BY <1>1, StaysInTask DEF Read, WellWritten
<1>6. /\ new.waves = WaveAt(d, n + 2)
      /\ SectionRead(d, n + 1, new) /\ FeaturesRead(d, n + 1, new)
      /\ TasksRead(d, n + 1, new) /\ Part(new) = Part(at)
  BY <1>1, <1>4, KeptReads
<1>7. TaskRead(d, n + 1, new)
  <2>1. line.is \in Field => ~InTask(d, n)
    BY <1>5
  <2>2. QED
    BY <1>1, <1>4, <1>6, <2>1, TaskEnds
<1>8. GoalRead(d, n + 1, new)
  <2>1. CASE new.goal
    <3>1. at.goal /\ line.is = "blank" /\ at.mode = "outer"
      BY <1>3, <1>4, <2>1
    <3>2. new.mode = "outer"
      BY <1>4, <3>1
    <3>3. QED
      BY <1>1, <3>1, <3>2, GoalStep DEF Read
  <2>2. CASE ~new.goal
    BY <2>2 DEF GoalRead
  <2>3. QED
    BY <2>1, <2>2
<1>9. ModeRead(d, n + 1, new)
  <2>1. CASE line.is = "heading"
    <3>1. new.mode = "outer"
      BY <1>4, <2>1
    <3>2. line.is \in Heading
      BY <2>1 DEF Heading
    <3>3. Last(d, n + 1, Heading) = n + 1
      BY <1>1, <3>2, LastGrows
    <3>4. QED
      BY <2>1, <3>1, <3>3 DEF ModeRead, InTask
  <2>2. CASE line.is # "heading"
    <3>1. Last(d, n + 1, Heading) = Last(d, n, Heading)
      BY <1>1, <1>2, <2>2, LastGrows
    <3>2. InTask(d, n + 1) <=> InTask(d, n)
      BY <3>1 DEF InTask
    <3>3. new.mode # "outer" => InTask(d, n)
      <4>1. new.mode # "outer" => at.mode # "outer"
        BY <1>4
      <4>2. QED
        BY <4>1 DEF Read, ModeRead
    <3>4. ASSUME InTask(d, n)
          PROVE  /\ Last(d, n + 1, Signs) = n + 1 => new.mode # "outer"
                 /\ d[Last(d, n + 1, Signs)].is = "description" => new.mode = "description"
      <4>1. line.is \notin Field
        BY <1>5, <3>4
      <4>2. CASE line.is = "description"
        BY <1>4, <1>5, <3>4, <4>2
      <4>3. CASE line.is # "description"
        <5>1. line.is \notin Signs
          BY <1>2, <2>2, <4>1, <4>3 DEF Signs
        <5>2. Last(d, n + 1, Signs) = Last(d, n, Signs)
          BY <1>1, <5>1, LastGrows
        <5>3. Last(d, n, Signs) \in 0 .. n
          BY <1>1, LastIs
        <5>4. d[Last(d, n, Signs)].is = "description" => at.mode = "description"
          BY <3>4 DEF Read, ModeRead
        <5>5. at.mode = "description" => new.mode = "description"
          BY <1>4, <2>2
        <5>6. QED
          BY <1>1, <5>2, <5>3, <5>4, <5>5
      <4>4. QED
        BY <4>2, <4>3
    <3>5. QED
      BY <3>2, <3>3, <3>4 DEF ModeRead
  <2>3. QED
    BY <2>1, <2>2
<1>10. QED
  BY <1>6, <1>7, <1>8, <1>9 DEF Advanced

\* What the headings that flush have in common.
LEMMA OpeningReads ==
  ASSUME NEW d, Len(d) \in Nat, NEW n \in 0 .. Len(d) - 1, NEW at, Read(d, n, at),
         d[n + 1].is \in Openings, NEW new, new.tasks = Flushed(at), ~new.goal,
         new.mode # "outer" <=> d[n + 1].is = "task"
  PROVE  /\ Last(d, n + 1, Openings) = n + 1
         /\ GoalRead(d, n + 1, new) /\ ModeRead(d, n + 1, new) /\ TasksRead(d, n + 1, new)
<1>1. n \in Nat /\ n \in 0 .. Len(d) /\ d[n + 1].is \in Heading
  BY DEF Openings, Heading
<1>2. Last(d, n + 1, Openings) = n + 1 /\ Last(d, n + 1, Heading) = n + 1
        /\ Last(d, n + 1, Signs) = n + 1
  BY <1>1, LastGrows DEF Signs
<1>3. GoalRead(d, n + 1, new)
  BY DEF GoalRead
<1>4. ModeRead(d, n + 1, new)
  <2>1. InTask(d, n + 1) <=> d[n + 1].is = "task"
    BY <1>1, <1>2 DEF InTask
  <2>2. QED
    BY <1>2, <2>1 DEF ModeRead
<1>5. TasksRead(d, n + 1, new)
  <2>1. TasksAre(Flushed(at), d, {q \in ReadLines(d) : q <= n})
    BY <1>1, FlushRead
  <2>2. {q \in ReadLines(d) : q <= n} = {q \in ReadLines(d) : q < n + 1}
    BY DEF ReadLines, TaskLines
  <2>3. QED
    BY <1>2, <2>1, <2>2 DEF TasksRead
<1>6. QED
  BY <1>2, <1>3, <1>4, <1>5

\* The heading of a wave keeps Read ...
LEMMA ReadWave ==
  ASSUME NEW d, Len(d) \in Nat, WellWritten(d), NEW n \in 0 .. Len(d) - 1, NEW at,
         Read(d, n, at), d[n + 1].is = "wave", NEW new, new = Step(at, d[n + 1])
  PROVE  Advanced(d, n, new)
<1>1. Shape(at) /\ n \in Nat
  BY DEF Read, Parsing
<1>2. ~at.goal
  BY GoalNext DEF Read, WellWritten
<1>3. /\ new.waves = at.waves + 1 /\ new.section = Nowhere /\ new.task = <<>>
      /\ new.features = at.features /\ new.tasks = Flushed(at) /\ new.mode = "outer"
      /\ new.goal = at.goal
  BY <1>1, <1>2, StepWave
<1>4. /\ Last(d, n + 1, Openings) = n + 1
      /\ GoalRead(d, n + 1, new) /\ ModeRead(d, n + 1, new) /\ TasksRead(d, n + 1, new)
  BY <1>2, <1>3, OpeningReads DEF Openings
<1>5. new.waves = WaveAt(d, n + 2)
  BY <1>1, <1>3, WaveAtGrows DEF Read
<1>6. SectionRead(d, n + 1, new)
  <2>1. Last(d, n + 1, SectionHeading \cup {"wave"}) = n + 1
    BY <1>1, LastGrows
  <2>2. SectionLine(d, (n + 1) + 1) = 0
    BY <2>1 DEF SectionLine, Last
  <2>3. QED
    BY <1>3, <2>2 DEF SectionRead
<1>7. FeaturesRead(d, n + 1, new)
  <2>1. FeatureLines(d, n + 1) = FeatureLines(d, n)
    BY <1>1 DEF FeatureLines
  <2>2. QED
    BY <1>3, <2>1 DEF Read, FeaturesRead, FeaturesTo
<1>8. TaskRead(d, n + 1, new)
  BY <1>3, <1>4 DEF TaskRead, TaskBegun
<1>9. QED
  BY <1>4, <1>5, <1>6, <1>7, <1>8 DEF Advanced

\* ... that of a task does ...
LEMMA ReadTaskLine ==
  ASSUME NEW d, Len(d) \in Nat, WellWritten(d), NEW n \in 0 .. Len(d) - 1, NEW at,
         Read(d, n, at), d[n + 1].is = "task", NEW new, new = Step(at, d[n + 1])
  PROVE  Advanced(d, n, new)
<1>1. Shape(at) /\ n \in Nat
  BY DEF Read, Parsing
<1>2. ~at.goal
  BY GoalNext DEF Read, WellWritten
<1>3. /\ Kept(at, new) /\ new.task = <<NewTask(at, d[n + 1])>>
      /\ new.tasks = Flushed(at) /\ new.mode = "fields" /\ new.goal = at.goal
  BY <1>1, <1>2, StepTask
<1>4. /\ Last(d, n + 1, Openings) = n + 1
      /\ GoalRead(d, n + 1, new) /\ ModeRead(d, n + 1, new) /\ TasksRead(d, n + 1, new)
  BY <1>2, <1>3, OpeningReads DEF Openings
<1>5. new.waves = WaveAt(d, n + 2)
  BY <1>1, <1>3, WaveAtGrows DEF Read, Kept
<1>6. Part(new) = Part(at)
  BY <1>3 DEF Kept, Part
<1>7. SectionRead(d, n + 1, new)
  <2>1. Last(d, n + 1, SectionHeading \cup {"wave"}) = Last(d, n, SectionHeading \cup {"wave"})
    BY <1>1, LastGrows DEF SectionHeading
  <2>2. SectionLine(d, (n + 1) + 1) = SectionLine(d, n + 1)
    BY <2>1 DEF SectionLine, Last
  <2>3. QED
    BY <1>3, <1>6, <2>2 DEF Read, SectionRead, Kept
<1>8. FeaturesRead(d, n + 1, new)
  <2>1. FeatureLines(d, n + 1) = FeatureLines(d, n)
    BY <1>1 DEF FeatureLines
  <2>2. QED
    BY <1>3, <2>1 DEF Read, FeaturesRead, FeaturesTo, Kept
<1>9. TaskRead(d, n + 1, new)
  <2>1. TaskBegun(d, n + 1)
    BY <1>1, <1>4 DEF TaskBegun
  <2>2. \A f : ValueTo(d, n + 1, n + 1, f) = {}
    BY <1>1 DEF ValueTo
  <2>3. TaskTo(d, n + 1, n + 1, Part(new)) = NewTask(at, d[n + 1])
    BY <1>6, <2>2 DEF TaskTo, NewTask
  <2>4. QED
    BY <1>3, <1>4, <2>1, <2>3 DEF TaskRead
<1>10. QED
  BY <1>4, <1>5, <1>7, <1>8, <1>9 DEF Advanced

\* A feature that is added gets the next number.
WithFeature(F, w, name) == F \cup {<<w, name, Cardinality(F) + 1>>}

\* So it is none of those that are there, whatever its name.
LEMMA FeatureAdded ==
  ASSUME NEW d, NEW n \in Nat, d[n + 1].is = "feature", NEW F, IsFiniteSet(F),
         F = FeaturesTo(d, n),
         Cardinality(F) = Cardinality(FeatureLines(d, n)), WaveAt(d, n + 1) > 0,
         NEW more, more = WithFeature(F, WaveAt(d, n + 1), d[n + 1].of)
  PROVE  /\ more = FeaturesTo(d, n + 1)
         /\ Cardinality(more) = Cardinality(FeatureLines(d, n + 1))
         /\ Cardinality(FeatureLines(d, n + 1)) = Cardinality(F) + 1
<1> DEFINE L == FeatureLines(d, n)
           M == FeatureLines(d, n + 1)
           c == Cardinality(L) + 1
           part == <<WaveAt(d, n + 1), d[n + 1].of, c>>
<1>1. \A k \in Nat : IsFiniteSet(FeatureLines(d, k))
  <2>1. ASSUME NEW k \in Nat
        PROVE  IsFiniteSet(FeatureLines(d, k))
    <3>1. IsFiniteSet(1 .. k) /\ FeatureLines(d, k) \subseteq 1 .. k
      BY FS_Interval DEF FeatureLines
    <3>2. QED
      BY <3>1, FS_Subset
  <2>2. QED
    BY <2>1
<1>2. M = L \cup {n + 1} /\ n + 1 \notin L
  BY DEF FeatureLines
<1>3. \A j \in M : d[j].is = "feature" /\ j \in 1 .. n + 1
  BY DEF FeatureLines
<1>4. \A j \in L : FeatureLines(d, j) \subseteq L /\ j \in Nat
  BY DEF FeatureLines
<1>5. ASSUME NEW j \in M
      PROVE  ReadPart(d, j) = <<WaveAt(d, j), d[j].of, Cardinality(FeatureLines(d, j))>>
  <2>1. d[j].is = "feature"
    BY <1>3
  <2>2. ReadPart(d, j) = <<WaveAt(d, j)>> \o <<d[j].of, Cardinality(FeatureLines(d, j))>>
    BY <2>1 DEF ReadPart, FeatureLines
  <2>3. QED
    BY <2>2, TripleIs
<1> HIDE DEF L, M
<1>6. IsFiniteSet(L) /\ Cardinality(L) \in Nat /\ Cardinality(M) = Cardinality(L) + 1
  <2>1. IsFiniteSet(L)
    BY <1>1 DEF L
  <2>2. QED
    BY <1>2, <2>1, FS_AddElement, FS_CardinalityType
<1>7. ReadPart(d, n + 1) = part
  BY <1>2, <1>5, <1>6 DEF M
<1>8. part \notin F
  <2>1. SUFFICES ASSUME NEW j \in L, part = ReadPart(d, j)
                 PROVE  FALSE
    BY DEF L, FeaturesTo
  <2>2. c = Cardinality(FeatureLines(d, j))
    BY <1>2, <1>5, <2>1
  <2>3. Cardinality(FeatureLines(d, j)) <= Cardinality(L)
    BY <1>4, <1>6, FS_Subset
  <2>4. QED
    BY <1>6, <2>2, <2>3
<1>9. F \cup {part} = {ReadPart(d, j) : j \in M}
  BY <1>2, <1>7 DEF L, FeaturesTo
<1>10. Cardinality(F \cup {part}) = Cardinality(F) + 1
  <2> HIDE DEF part
  <2>1. QED
    BY <1>8, FS_AddElement
<1>11. Cardinality(F) = Cardinality(L)
  BY DEF L
<1>12. more = F \cup {part}
  BY <1>11 DEF WithFeature
<1>13. QED
  BY <1>6, <1>9, <1>10, <1>11, <1>12 DEF M, FeaturesTo

\* The heading of a section keeps Read.
LEMMA ReadSection ==
  ASSUME NEW d, Len(d) \in Nat, WellWritten(d), NEW n \in 0 .. Len(d) - 1, NEW at,
         Read(d, n, at), d[n + 1].is \in SectionHeading, NEW new, new = Step(at, d[n + 1])
  PROVE  Advanced(d, n, new)
<1> DEFINE line == d[n + 1]
           k == Cardinality(at.features) + 1
           s == IF line.is = "feature" THEN <<line.of, k>> ELSE <<line.is, 0>>
<1>1. Shape(at) /\ n \in Nat
  BY DEF Read, Parsing
<1>2. ~at.goal
  BY GoalNext DEF Read, WellWritten, SectionHeading
<1>3. /\ new.waves = at.waves /\ new.section = s /\ new.task = <<>>
      /\ new.features = IF line.is = "feature" /\ at.waves > 0
                          THEN at.features \cup {<<at.waves, line.of, k>>}
                        ELSE at.features
      /\ new.tasks = Flushed(at) /\ new.mode = "outer" /\ new.goal = at.goal
  <2>1. \A l : l.is \in SectionHeading =>
          LET r == Step(at, l)
          IN  /\ r.waves = at.waves
              /\ r.section = IF l.is = "feature" THEN <<l.of, k>> ELSE <<l.is, 0>>
              /\ r.task = <<>>
              /\ r.features = IF l.is = "feature" /\ at.waves > 0
                                THEN at.features \cup {<<at.waves, l.of, k>>}
                              ELSE at.features
              /\ r.tasks = Flushed(at) /\ r.mode = "outer" /\ r.goal = at.goal
    BY <1>1, <1>2, StepSection
  <2>2. QED
    BY <2>1
<1>4. line.is # "wave" /\ line.is # "task"
  BY DEF SectionHeading
<1>5. /\ Last(d, n + 1, Openings) = n + 1
      /\ GoalRead(d, n + 1, new) /\ ModeRead(d, n + 1, new) /\ TasksRead(d, n + 1, new)
  BY <1>2, <1>3, <1>4, OpeningReads DEF Openings
<1>6. at.waves = WaveAt(d, n + 1) /\ WaveAt(d, n + 1) \in Nat
  BY <1>1, WaveAtGrows DEF Read
<1>7. new.waves = WaveAt(d, n + 2)
  BY <1>1, <1>3, <1>4, <1>6, WaveAtGrows
<1>8. /\ FeaturesRead(d, n + 1, new)
      /\ line.is = "feature" /\ at.waves > 0 => k = Cardinality(FeatureLines(d, n + 1))
  <2>1. CASE line.is = "feature" /\ at.waves > 0
    <3>1. /\ IsFiniteSet(at.features)
          /\ at.features = FeaturesTo(d, n)
          /\ Cardinality(at.features) = Cardinality(FeatureLines(d, n))
      BY DEF Read, FeaturesRead, Parsing, Reading
    <3>2. new.features = WithFeature(at.features, WaveAt(d, n + 1), d[n + 1].of)
      BY <1>3, <1>6, <2>1 DEF WithFeature
    <3>3. d[n + 1].is = "feature" /\ WaveAt(d, n + 1) > 0
      BY <1>6, <2>1
    <3>4. /\ new.features = FeaturesTo(d, n + 1)
          /\ Cardinality(new.features) = Cardinality(FeatureLines(d, n + 1))
          /\ Cardinality(FeatureLines(d, n + 1)) = Cardinality(at.features) + 1
      BY <1>1, <3>1, <3>2, <3>3, FeatureAdded
    <3>5. QED
      BY <2>1, <3>4 DEF FeaturesRead
  <2>2. CASE ~(line.is = "feature" /\ at.waves > 0)
    <3>1. FeatureLines(d, n + 1) = FeatureLines(d, n)
      BY <1>1, <1>6, <2>2 DEF FeatureLines
    <3>2. new.features = at.features
      BY <1>3, <2>2
    <3>3. QED
      BY <2>2, <3>1, <3>2 DEF Read, FeaturesRead, FeaturesTo
  <2>3. QED
    BY <2>1, <2>2
<1>9. SectionRead(d, n + 1, new)
  <2>1. Last(d, n + 1, SectionHeading \cup {"wave"}) = n + 1
    BY <1>1, LastGrows
  <2>2. SectionLine(d, (n + 1) + 1) = n + 1
    BY <1>1, <1>4, <2>1 DEF SectionLine, Last
  <2>3. new.section # Nowhere
    <3>1. CASE line.is = "feature"
      <4>1. k # 0
        BY FS_CardinalityType DEF Read, Parsing, Reading
      <4>2. QED
        BY <1>3, <3>1, <4>1 DEF Nowhere
    <3>2. CASE line.is # "feature"
      BY <1>3, <3>2 DEF Nowhere, SectionHeading
    <3>3. QED
      BY <3>1, <3>2
  <2>4. ASSUME new.waves > 0
        PROVE  Part(new) = ReadPart(d, n + 1)
    <3>1. new.waves = WaveAt(d, n + 1) /\ at.waves > 0
      BY <1>3, <1>6, <2>4
    <3>2. Part(new) = <<WaveAt(d, n + 1)>> \o s
      BY <1>3, <3>1 DEF Part
    <3>3. ReadPart(d, n + 1) = <<WaveAt(d, n + 1)>> \o s
      <4>1. CASE line.is = "feature"
        <5>1. k = Cardinality(FeatureLines(d, n + 1))
          BY <1>8, <3>1, <4>1
        <5>2. ReadPart(d, n + 1) =
                <<WaveAt(d, n + 1)>> \o <<line.of, Cardinality(FeatureLines(d, n + 1))>>
          BY <4>1 DEF ReadPart, FeatureLines
        <5>3. QED
          BY <4>1, <5>1, <5>2
      <4>2. CASE line.is # "feature"
        BY <4>2 DEF ReadPart
      <4>3. QED
        BY <4>1, <4>2
    <3>4. QED
      BY <3>2, <3>3
  <2>5. QED
    BY <1>1, <2>2, <2>3, <2>4 DEF SectionRead
<1>10. TaskRead(d, n + 1, new)
  BY <1>3, <1>4, <1>5 DEF TaskRead, TaskBegun
<1>11. QED
  BY <1>5, <1>7, <1>8, <1>9, <1>10 DEF Advanced

\* All lines do.
LEMMA ReadStep ==
  ASSUME NEW d, Len(d) \in Nat, WellWritten(d), NEW n \in 0 .. Len(d) - 1, NEW at,
         Read(d, n, at), LineTyped(d[n + 1])
  PROVE  Read(d, n + 1, Step(at, d[n + 1]))
<1> DEFINE new == Step(at, d[n + 1])
<1>1. n \in Nat /\ (n + 1) + 1 = n + 2
  OBVIOUS
<1>2. Advanced(d, n, new)
  <2> HIDE DEF new
  <2>1. new = Step(at, d[n + 1])
    BY DEF new
  <2>2. CASE d[n + 1].is = "wave"
    BY <2>1, <2>2, ReadWave
  <2>3. CASE d[n + 1].is \in SectionHeading
    BY <2>1, <2>3, ReadSection
  <2>4. CASE d[n + 1].is = "task"
    BY <2>1, <2>4, ReadTaskLine
  <2>5. CASE d[n + 1].is = "goal"
    BY <1>1, <2>1, <2>5, ReadGoal
  <2>6. CASE at.mode # "outer" /\ d[n + 1].is \in Field
    BY <1>1, <2>1, <2>6, ReadField
  <2>7. CASE d[n + 1].is \notin Openings \cup {"goal"}
               /\ ~(at.mode # "outer" /\ d[n + 1].is \in Field)
    BY <2>1, <2>7, ReadElse
  <2>8. QED
    BY <2>2, <2>3, <2>4, <2>5, <2>6, <2>7 DEF Openings
<1>3. Parsing(new, WaveAt(d, n + 2))
  <2>1. Parsing(at, WaveAt(d, n + 1))
    BY DEF Read
  <2>2. QED
    BY <1>1, <2>1, WaveAtGrows, StepKeeps
<1> HIDE DEF new
<1>4. QED
  BY <1>1, <1>2, <1>3 DEF Read, Advanced, new

\* It holds before the first line.
LEMMA BeginningReads ==
  ASSUME NEW d
  PROVE  Read(d, 0, Beginning)
<1>1. WaveAt(d, 0 + 1) = 0
  BY FS_EmptySet DEF WaveAt
<1>2. \A S : Last(d, 0, S) = 0
  BY NothingBefore
<1>3. SectionLine(d, 0 + 1) = 0
  <2>1. LastBefore(d, 0 + 1, SectionHeading \cup {"wave"}) = 0
    BY <1>2 DEF Last
  <2>2. QED
    BY <2>1 DEF SectionLine
<1>4. FeatureLines(d, 0) = {} /\ Cardinality({}) = 0
  BY FS_EmptySet DEF FeatureLines
<1>5. TasksRead(d, 0, Beginning)
  <2>1. {q \in ReadLines(d) : q < Last(d, 0, Openings)} = {}
    BY <1>2 DEF ReadLines, TaskLines
  <2>2. TasksAre(<<>>, d, {})
    <3>1. <<>> \in Seq({ReadTask(d, q) : q \in {}}) /\ Len(<<>>) = 0 /\ DOMAIN <<>> = {}
      OBVIOUS
    <3>2. IsFiniteSet({})
      BY FS_EmptySet
    <3>3. QED
      BY <1>4, <3>1, <3>2 DEF TasksAre
  <2>3. QED
    BY <2>1, <2>2 DEF TasksRead, Beginning
<1>6. Parsing(Beginning, 0)
  BY BeginningParses
<1>7. FeaturesRead(d, 0, Beginning)
  BY <1>4 DEF FeaturesRead, FeaturesTo, Beginning
<1>8. QED
  BY <1>1, <1>2, <1>3, <1>5, <1>6, <1>7
     DEF Read, GoalRead, SectionRead, TaskRead, TaskBegun, ModeRead, InTask, Beginning

\* So the plan is what a person reads in the document.
LEMMA ParseReads ==
  ASSUME NEW d \in Documents, WellWritten(d)
  PROVE  LET p == Plan(Parse(d), d)
         IN  /\ {p.tasks[x] : x \in DOMAIN p.tasks} = {ReadTask(d, n) : n \in ReadLines(d)}
             /\ Len(p.tasks) = Cardinality(ReadLines(d))
             /\ p.features = ReadFeatures(d)
<1>1. Len(d) \in Nat /\ DOMAIN d = 1 .. Len(d)
  BY DocumentsAssumption, LenProperties
<1>2. PICK g : Run(g, d, Len(d)) /\ Parse(d) = Flush(g[Len(d)])
  BY <1>1, ParseIs
<1>3. \A n \in DOMAIN d : LineTyped(d[n])
  BY DocumentsAssumption DEF LineTyped, FiniteSubsetsOf
<1> DEFINE S == {n \in 0 .. Len(d) : Read(d, n, g[n])}
           at == g[Len(d)]
<1>4. 0 \in S
  <2>1. g[0] = Beginning
    BY <1>1, <1>2 DEF Run
  <2>2. QED
    BY <1>1, <2>1, BeginningReads
<1>5. ASSUME NEW n \in 0 .. Len(d) - 1, n \in S
      PROVE  n + 1 \in S
  <2>1. g[n + 1] = Step(g[n], d[n + 1])
    <3>1. n + 1 \in 0 .. Len(d) /\ n + 1 # 0 /\ (n + 1) - 1 = n
      BY <1>1
    <3>2. QED
      BY <1>2, <3>1 DEF Run
  <2>2. LineTyped(d[n + 1])
    BY <1>1, <1>3
  <2>3. Read(d, n, g[n])
    BY <1>5
  <2>4. Read(d, n + 1, g[n + 1])
    BY <1>1, <2>1, <2>2, <2>3, ReadStep
  <2>5. QED
    BY <1>1, <2>4
<1>6. Read(d, Len(d), at)
  <2>1. 0 .. Len(d) \subseteq S
    <3> HIDE DEF S
    <3>1. QED
      BY <1>1, <1>4, <1>5, Induction
  <2>2. QED
    BY <1>1, <2>1
<1> HIDE DEF at
<1>7. Plan(Parse(d), d).tasks = Flushed(at) /\ Plan(Parse(d), d).features = at.features
  <2>1. Shape(at)
    BY <1>6 DEF Read, Parsing
  <2>2. [at EXCEPT !.mode = at.mode] = at
    BY <2>1 DEF Shape
  <2>3. Flush([at EXCEPT !.mode = at.mode]) =
          [goal |-> at.goal, waves |-> at.waves, section |-> at.section, task |-> <<>>,
           mode |-> at.mode, features |-> at.features, tasks |-> Flushed(at)]
    BY <2>1, FlushIs
  <2>4. Flush(at).tasks = Flushed(at) /\ Flush(at).features = at.features
    BY <2>2, <2>3
  <2>5. QED
    BY <1>2, <2>4 DEF Plan, at
<1>8. TasksAre(Flushed(at), d, ReadLines(d))
  <2>1. TasksAre(Flushed(at), d, {q \in ReadLines(d) : q <= Len(d)})
    BY <1>1, <1>6, FlushRead
  <2>2. {q \in ReadLines(d) : q <= Len(d)} = ReadLines(d)
    BY <1>1 DEF ReadLines, TaskLines
  <2>3. QED
    BY <2>1, <2>2
<1>9. at.features = ReadFeatures(d)
  BY <1>6 DEF Read, FeaturesRead, FeaturesTo, ReadFeatures, FeatureLines
<1>10. QED
  BY <1>7, <1>8, <1>9 DEF TasksAre

-----------------------------------------------------------------------------
\* ParsedAsWritten, as long as the plan is there.
PlanRead ==
  stage # "parse" /\ WellWritten(document) =>
    /\ {task[x] : x \in DOMAIN task} = {ReadTask(document, n) : n \in ReadLines(document)}
    /\ Len(task) = Cardinality(ReadLines(document))
    /\ plan.features = ReadFeatures(document)

\* Only _preflight makes a plan of the document.
LEMMA PlanReadKept == IndInv /\ PlanRead /\ [Next]_vars => PlanRead'
<1> SUFFICES ASSUME IndInv, PlanRead, [Next]_vars
             PROVE  PlanRead'
  OBVIOUS
<1>1. CASE ParsePlan
  <2>1. document \in Documents /\ document' = document /\ plan' = Plan(Parse(document), document)
    BY <1>1 DEF IndInv, Typed, ParsePlan
  <2>2. SUFFICES ASSUME WellWritten(document)
                 PROVE  PlanRead'
    BY <2>1 DEF PlanRead
  <2>3. QED
    BY <2>1, <2>2, ParseReads DEF PlanRead, task
<1>2. ASSUME document' = document, plan' = plan, stage' # "parse" => stage # "parse"
      PROVE  PlanRead'
  BY <1>2 DEF PlanRead, task
<1>3. CASE CheckWave \/ EndSort \/ EndChecks \/ EndLevels \/ EndWalk
  BY <1>2, <1>3 DEF CheckWave, EndSort, EndChecks, EndLevels, EndWalk
<1>4. CASE \/ \E cascade \in BOOLEAN : Select(cascade)
           \/ \E i \in Ids : Walk(i)
  BY <1>2, <1>4 DEF Select, Walk
<1>5. CASE \/ \E s \in Parts : RejectNames(s) \/ StartSort(s) \/ PlaceLevel(s)
           \/ \E d \in Ids : Pop(d)
  BY <1>2, <1>5 DEF RejectNames, StartSort, PlaceLevel, Pop
<1>6. CASE UNCHANGED vars
  BY <1>2, <1>6 DEF vars
<1>7. QED
  BY <1>1, <1>3, <1>4, <1>5, <1>6 DEF Next

\* ParsedAsWritten: from a document that is written as the format wants it
\* parse_plan reads the tasks and features that a person reads there, however
\* many lines it has.
THEOREM ParsingIsRight == Spec => []ParsedAsWritten
<1>1. Init => PlanRead
  BY DEF Init, PlanRead
<1>2. PlanRead => ParsedAsWritten
  BY DEF PlanRead, ParsedAsWritten
<1>3. QED
  BY <1>1, <1>2, Inductive, PlanReadKept, PTL DEF Spec
=============================================================================
