------------------------------ MODULE MCGrades ------------------------------
(***************************************************************************)
(* Model checking GradeBook: the courses, the texts and the options the    *)
(* program is started on.  A text is rendered from the data it means, or   *)
(* is a small text with one lexeme changed, whose meaning is not said.     *)
(***************************************************************************)
EXTENDS GradeBook

MCStudent == 1 .. 6
MCNumber ==
  ("0" :> 0) @@ ("tiny" :> 1) @@ ("1" :> 100) @@ ("2" :> 200) @@ ("3" :> 300)
    @@ ("50" :> 5000) @@ ("100" :> 10000) @@ ("-1" :> -100)

Words == <<NUL, NL, SP, Hash, "-1", "0", "1", "100", "2", "3", "50",
           "A", "ASSIGNMENT", "B", "BYCLASS", "BYSECTION", "COURSE", "FILE",
           "GENLINEAR", "LINEAR", "MAXIMUM", "NORMALIZE", "PROFESSOR",
           "ASSISTANT", "QUANTILE", "RAW", "SCALE", "SCORE", "SECTION",
           "STDLINEAR", "STUDENT", "USECLASSAVG", "USELIKEAVG", "USENORM",
           "USERAW", "WEIGHT", "a", "b", "exam", "hw", "s1", "s2", "s3", "s4",
           "s5", "sick", "tiny", "x", "y", "z">>
MCOrder == [w \in ToSet(Words) |-> CHOOSE i \in DOMAIN Words : Words[i] = w]

-----------------------------------------------------------------------------
(* Courses.                                                                *)
Num(v) == CHOOSE w \in DOMAIN MCNumber : MCNumber[w] = v
Row(words) ==
  FlattenSeq([i \in DOMAIN words |-> <<words[i], IF i = Len(words) THEN NL ELSE SP>>])
Optional(c, seq) == IF c THEN seq ELSE <<>>

Asgt(name, policy, group, weight) ==
  [name |-> <<name>>, atype |-> <<"hw">>,
   wpolicy |-> IF weight = Unset THEN "NOWEIGHT" ELSE "WEIGHT",
   weight |-> IF weight = Unset THEN 0 ELSE weight,
   npolicy |-> policy, ngroup |-> group,
   max |-> IF policy = "SCALE" THEN 200 ELSE 0,
   mean |-> IF policy = "LINEAR" THEN IF group = "BYCLASS" THEN 5000 ELSE 0
            ELSE Unset,
   stddev |-> IF policy = "LINEAR" THEN IF group = "BYCLASS" THEN 200 ELSE 100
              ELSE Unset,
   scale |-> IF policy = "SCALE" THEN 10000 ELSE Unset]

(* The options come in another order than writeassignment() gives them.    *)
AsgtText(a) ==
  Row(<<"ASSIGNMENT", a.name[1], a.atype[1]>>)
    \o Optional(a.max # 0, Row(<<"MAXIMUM", Num(a.max)>>))
    \o Row(<<"NORMALIZE">> \o Optional(a.ngroup = "BYSECTION", <<a.ngroup>>)
           \o (CASE a.npolicy = "LINEAR" ->
                      IF a.mean = 0 THEN <<"STDLINEAR">>
                      ELSE <<"GENLINEAR", Num(a.mean), Num(a.stddev)>>
                 [] a.npolicy = "SCALE" -> <<"SCALE", Num(a.scale)>>
                 [] OTHER -> <<a.npolicy>>))
    \o Optional(a.wpolicy = "WEIGHT", Row(<<"WEIGHT", Num(a.weight)>>))

(* A score of the n-th assignment: its substitution and its value.         *)
Given(a, subst, v) ==
  [asgt |-> a, subst |-> subst, grade |-> IF subst \in {"", "USERAW"} THEN v ELSE 0,
   snorm |-> IF subst = "USENORM" THEN v ELSE 0,
   code |-> IF subst = "" THEN <<>> ELSE <<"sick">>, group |-> 0]

ScoreText(as, sc) ==
  Row(<<"SCORE", as[sc.asgt].name[1]>> \o Optional(sc.subst # "", <<sc.subst>>)
      \o Optional(sc.subst \in {"", "USERAW"}, <<Num(sc.grade)>>)
      \o Optional(sc.subst = "USENORM", <<Num(sc.snorm)>>) \o sc.code)

Pupil(i, surname, section, raw) ==
  [id |-> <<<<"s5", "s4", "s3", "s2", "s1">>[i]>>, surname |-> <<surname>>,
   name |-> <<"x", SP, "y">>, section |-> section, raw |-> raw]

PupilText(as, p) ==
  <<SP>> \o Row(<<"STUDENT", p.id[1], p.surname[1]>> \o <<"x", "y">>)
    \o FlattenSeq([i \in DOMAIN p.raw |-> ScoreText(as, p.raw[i])])

Course1(as, nsections, prof) ==
  [number |-> <<"a">>, title |-> <<"b", SP, "b">>,
   professor |-> IF prof THEN << <<"x">>, <<"y">> >> ELSE Nobody,
   assignments |-> as,
   sections |-> [k \in 1 .. nsections |->
     [name |-> << <<"A", "B">>[k] >>,
      assistant |-> IF k = 1 THEN << <<"z">>, <<"y">> >> ELSE Nobody]]]

HeadText(c) ==
  Row(<<Hash, "a">>) \o Row(<<"COURSE", "a", "b", "b">>) \o <<NL, SP, NL>>
    \o Optional(c.professor # Nobody, Row(<<"PROFESSOR", "x", "y">>))
    \o FlattenSeq([i \in DOMAIN c.assignments |-> AsgtText(c.assignments[i])])

SectionText(c, ps, k) ==
  LET mine == SelectSeq(ps, LAMBDA p : p.section = k)
  IN  Row(<<"SECTION", c.sections[k].name[1]>>)
        \o Optional(k = 1, Row(<<"ASSISTANT", "z", "y">>))
        \o FlattenSeq([i \in DOMAIN mine |-> PupilText(c.assignments, mine[i])])

(* The sections are in the root file, or each is in a file of its own, or  *)
(* the first is in a file that includes the second.                        *)
Files(c, ps, layout) ==
  LET text(k) == SectionText(c, ps, k)
  IN  CASE layout = "one" ->
             "root" :> HeadText(c) \o
               FlattenSeq([k \in DOMAIN c.sections |-> <<NL>> \o text(k)])
        [] layout = "two" ->
             ("root" :> HeadText(c) \o Row(<<"FILE", "a">>) \o Row(<<"FILE", "b">>))
               @@ ("a" :> Row(<<Hash, "FILE">>) \o text(1)) @@ ("b" :> <<NL>> \o text(2))
        [] layout = "nested" ->
             ("root" :> HeadText(c) \o Row(<<"FILE", "a">>) \o text(2))
               @@ ("a" :> Row(<<"FILE", "b">>)) @@ ("b" :> text(1))

Start(as, ps, nsections, prof, layout, options) ==
  LET c == Course1(as, nsections, prof)
  IN  [args |-> options, files |-> Files(c, ps, layout),
       meant |-> [course |-> c, students |-> ps]]

Report1(key) == <<"report", "sortby", key, "all">>
Collate1 == <<"collate">>
Plain == <<Asgt("hw", "RAW", "BYCLASS", Unset), Asgt("exam", "RAW", "BYCLASS", 200)>>

-----------------------------------------------------------------------------
(* Four students in two sections, with all names and with all grades.      *)
Four(names, g1, g2) ==
  [i \in 1 .. 4 |-> Pupil(i, names[i], IF i <= 2 THEN 1 ELSE 2,
                          <<Given(1, "", g1[i]), Given(2, "", g2[i])>>)]

NameInputs ==
  {Start(Plain, Four(n, <<0, 100, 0, 200>>, <<0, 0, 100, 0>>), 2, TRUE, "one", o) :
     n \in [1 .. 4 -> {"x", "y", "z"}], o \in {Report1("id"), Collate1}}

Policies == {<<"RAW", "BYCLASS">>, <<"LINEAR", "BYCLASS">>, <<"LINEAR", "BYSECTION">>,
             <<"QUANTILE", "BYCLASS">>, <<"QUANTILE", "BYSECTION">>,
             <<"SCALE", "BYCLASS">>}
Normed(p, w1, w2) ==
  <<Asgt("hw", p[1], p[2], w1), Asgt("exam", "RAW", "BYCLASS", w2)>>

GradeInputs ==
  {Start(Normed(p, Unset, 200),
         Four(<<"y", "x", "z", "x">>, g, <<0, 100, 0, 100>>), 2, TRUE, "two",
         Report1("score")) :
     p \in Policies, g \in [1 .. 4 -> {0, 100, 200}]}

(* The score of the first student is substituted for.                      *)
Substituted(w) ==
  [Four(<<"y", "x", "z", "x">>, <<0, 100, 200, 200>>, <<200, 0, 100, 100>>)
     EXCEPT ![1].raw[1] = Given(1, w, 100)]

SubstitutionInputs ==
  {Start(Normed(p, w[1], w[2]), Substituted(u), 2, TRUE, "nested", o) :
     p \in Policies, u \in Substitutions,
     w \in {<<Unset, Unset>>, <<0, 200>>, <<200, Unset>>},
     o \in {Report1("name"), Collate1}}

(* Five students of one section in every order of two scores; a student    *)
(* with two scores for an assignment and one with none; negative scores;   *)
(* one assignment, none, no section, no professor.                         *)
FiveInputs ==
  {Start(Plain, [i \in 1 .. 5 |-> Pupil(i, "x", 1, <<Given(1, "", g[i])>>)],
         1, TRUE, "one", Report1("score")) : g \in [1 .. 5 -> {0, 100}]}

OddPupils == {
  <<>>,
  <<Pupil(1, "x", 1, <<Given(1, "", 100), Given(1, "", 200), Given(2, "USERAW", 0)>>),
    Pupil(2, "y", 1, <<>>)>>,
  <<Pupil(1, "x", 1, <<Given(1, "", -100), Given(2, "", 100)>>)>>,
  <<Pupil(1, "x", 1, <<Given(1, "", -100), Given(2, "", -100)>>),
    Pupil(2, "y", 1, <<Given(1, "", 100), Given(2, "", 100)>>)>>}
OddInputs ==
  {Start(Plain, ps, 1, prof, "one", o) :
     ps \in OddPupils, prof \in BOOLEAN, o \in {Report1("score"), Collate1}}
    \cup {Start(SubSeq(Plain, 1, n), <<Pupil(1, "x", 1, <<>>)>>, 1, TRUE, "one", o) :
            n \in 0 .. 1, o \in {Report1("score"), Collate1}}
    \cup {Start(Normed(<<"SCALE", "BYCLASS">>, Unset, Unset),
                <<Pupil(1, "x", 1, <<Given(1, "", 300), Given(2, "", 300)>>)>>,
                1, TRUE, "one", Report1("id"))}
    \cup {Start(Plain, <<>>, 0, TRUE, "one", o) : o \in {Report1("score"), Collate1}}

Small == Start(Plain, <<Pupil(1, "x", 1, <<Given(1, "", 100)>>)>>, 1, TRUE, "one",
               <<"report">>)
ArgumentInputs ==
  {[Small EXCEPT !.args = o] :
     o \in {<<>>, <<"report", "collate">>, <<"report", "report">>, <<"all", "report">>,
            <<"all">>, <<"histos", "report">>, <<"report", "histos", "tabsep">>,
            <<"sortby", "id", "report">>, <<"report", "sortby", "x">>,
            <<"collate", "sortby", "score", "freqs">>}}
    \cup {[args |-> <<"report">>, files |-> "a" :> <<NL>>, meant |-> <<>>]}

-----------------------------------------------------------------------------
(* A small text with a lexeme taken out, put in, or replaced; and the same *)
(* done to a file that it includes.                                        *)
SmallText ==
  Row(<<"COURSE", "a", "b">>) \o Row(<<"PROFESSOR", "x", "y">>)
    \o Row(<<"ASSIGNMENT", "hw", "hw">>) \o Row(<<"WEIGHT", "1">>)
    \o Row(<<"ASSIGNMENT", "exam", "exam">>)
    \o Row(<<"NORMALIZE", "SCALE", "2">>) \o Row(<<"MAXIMUM", "3">>)
SmallSection ==
  <<Hash, NL, NL>> \o Row(<<"SECTION", "A">>) \o Row(<<"ASSISTANT", "z", "y">>)
    \o Row(<<"STUDENT", "s1", "x", "y">>) \o Row(<<"SCORE", "hw", "1">>)
    \o Row(<<"SCORE", "exam", "USENORM", "2", "sick">>)
SmallFile == SmallText \o Row(<<"FILE", "a">>) \o Row(<<"SECTION", "B">>)

Other == {NL, SP, Hash, "FILE", "SECTION", "STUDENT", "SCORE", "a", "1"}
Touching(text) ==   \* digits that would make another number together
  \E i \in 1 .. Len(text) - 1 : {text[i], text[i + 1]} \subseteq DOMAIN MCNumber
Edited(text) ==
  {t \in {RemoveAt(text, i) : i \in DOMAIN text}
           \cup {InsertAt(text, i, w) : i \in 1 .. Len(text) + 1, w \in Other}
           \cup {ReplaceAt(text, i, w) : i \in DOMAIN text, w \in Other} :
     ~Touching(t)}

EditedInputs ==
  {[args |-> <<"report", "all">>, files |-> "root" :> t, meant |-> <<>>] :
     t \in Edited(SmallText \o SmallSection)}
    \cup {[args |-> <<"collate">>, files |-> ("root" :> SmallFile) @@ ("a" :> t),
           meant |-> <<>>] : t \in Edited(SmallSection)}

MCInputs == NameInputs \cup GradeInputs \cup SubstitutionInputs \cup FiveInputs
              \cup OddInputs \cup ArgumentInputs \cup EditedInputs
=============================================================================
