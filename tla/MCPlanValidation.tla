-------------------------- MODULE MCPlanValidation --------------------------
(***************************************************************************)
(* Documents: three tasks of a feature with all dependencies, four with at *)
(* most one each, or with all on tasks that are listed before; all plans   *)
(* of three entries with two ids, or of two with a file, in the sections   *)
(* of a wave; three tasks in the sections of two waves; two features that  *)
(* have files of their own, with and without the required sections; two    *)
(* features of one name; and all continuations of a beginning by four      *)
(* lines.                                                                  *)
(***************************************************************************)
EXTENDS PlanValidation

MCIds == {"w", "x", "y", "z"}
MCFiles == {"p"}

Line(is, of) == [is |-> is, of |-> of]

\* The lines of a task, in one of the ways to write it.
TaskText(e, loose) ==
  <<Line("task", e.id)>>
  \o (IF loose THEN <<Line("description", {}), Line("blank", {}), Line("text", {})>> ELSE <<>>)
  \o <<Line("depends", e.depends), Line("files", e.files), Line("blank", {})>>

SectionText(s) == IF s \in SectionHeading THEN <<Line(s, {})>> ELSE <<Line("feature", s)>>

\* What comes before the waves, with the required sections S.
Front(S) ==
  <<Line("goal", {}), Line("blank", {}), Line("text", {})>>
  \o (IF "structure" \in S THEN <<Line("heading", "structure")>> ELSE <<>>)
  \o (IF "schemas" \in S THEN <<Line("heading", "schemas")>> ELSE <<>>)

\* A document with the entries p, which are in the order of their waves.  A
\* section is left and taken up again where p does.
Text(p) ==
  LET NewWave(n) == n = 1 \/ p[n].part[1] # p[n - 1].part[1]
      After[n \in 0 .. Len(p)] ==
        IF n = 0 THEN Front(Required)
        ELSE After[n - 1]
             \o (IF NewWave(n) THEN <<Line("wave", {})>> ELSE <<>>)
             \o (IF NewWave(n) \/ p[n].part # p[n - 1].part
                   THEN SectionText(p[n].part[2]) ELSE <<>>)
             \o TaskText(p[n], n = 2)
  IN After[Len(p)]

IdAt == <<"w", "x", "y", "z">>

InFeature(d) ==
  [n \in DOMAIN d |-> [id |-> IdAt[n], part |-> <<1, "F">>, depends |-> d[n], files |-> {}]]

OneFeature ==
  {InFeature(d) : d \in
     [1 .. 3 -> SUBSET {"w", "x", "y"}]
     \cup [1 .. 4 -> {{}} \cup {{i} : i \in MCIds}]
     \cup {f \in [1 .. 4 -> SUBSET {"w", "x", "y"}] :
             \A n \in 1 .. 4 : f[n] \subseteq {IdAt[m] : m \in 1 .. n - 1}}}

Entries3 ==
  [id : {"x", "y"}, part : {1} \X {"foundation", "F"}, depends : {{}, {"x"}, {"y"}}, files : {{}}]

Entries2 ==
  [id : {"x", "y"}, part : {1} \X {"foundation", "F", "G"}, depends : SUBSET {"x", "z"},
   files : SUBSET MCFiles]

InOrder == {q \in [1 .. 3 -> (1 .. 2) \X {"foundation", "F", "integration"}] :
              q[1][1] = 1 /\ \A n \in 1 .. 2 : q[n][1] <= q[n + 1][1]}

TwoWaves ==
  {[n \in 1 .. 3 |-> [id |-> IdAt[n], part |-> q[n], depends |-> d[n], files |-> {}]] :
     q \in InOrder, d \in {{}} \X {{}, {"w"}} \X {{}, {"w"}, {"x"}}}

\* A feature F with a task x, a task that depends on it, a task in the
\* foundation and another feature F, with tasks that may be called x as well.
Repeated ==
  {<<[id |-> "x", part |-> <<1, "F">>, depends |-> {}, files |-> {}],
     [id |-> "y", part |-> <<1, "F">>, depends |-> d, files |-> {}],
     [id |-> i, part |-> <<1, "foundation">>, depends |-> {}, files |-> {}],
     [id |-> j, part |-> <<1, "F">>, depends |-> {}, files |-> {}]>> :
   d \in SUBSET {"x"}, i \in {"w", "x"}, j \in {"x", "z"}}

\* Two features with files of their own, of the first before or after its task.
Owners ==
  {Front(S) \o <<Line("wave", {}), Line("feature", "F")>>
     \o (IF late THEN <<>> ELSE <<Line("claims", a)>>)
     \o <<Line("task", "x"), Line("files", c)>>
     \o (IF late THEN <<Line("claims", a)>> ELSE <<>>)
     \o <<Line("feature", g), Line("claims", b), Line("task", "y")>> :
   S \in SUBSET Required, g \in {"F", "G"}, late \in BOOLEAN,
   a \in SUBSET MCFiles, b \in SUBSET MCFiles, c \in SUBSET MCFiles}

Lines ==
  {Line(k, {}) : k \in {"wave", "foundation", "goal", "description", "text", "blank", "stub"}}
  \cup {Line("feature", "F"), Line("task", "x"), Line("task", "y"), Line("depends", {"y"}),
        Line("heading", "schemas")}

Beginnings ==
  LET Begun == <<Line("heading", "schemas"), Line("heading", "structure"), Line("wave", {})>>
  IN {<<Line("heading", "structure")>>,
      Begun,
      Begun \o <<Line("foundation", {}), Line("task", "y")>>,
      Begun \o <<Line("foundation", {}), Line("task", "x"), Line("description", {})>>}

MCDocuments ==
  {Text(p) : p \in OneFeature \cup [1 .. 3 -> Entries3] \cup [1 .. 2 -> Entries2] \cup TwoWaves
                     \cup Repeated}
  \cup Owners
  \cup {d \in {b \o c : b \in Beginnings, c \in [1 .. 4 -> Lines]} :
          Cardinality({n \in DOMAIN d : d[n].is = "wave"}) <= MaxWaves}
=============================================================================
