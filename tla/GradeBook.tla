------------------------------ MODULE GradeBook ------------------------------
(***************************************************************************)
(* The program of hw2: options, reading (GradeRead), statistics for each   *)
(* assignment, normalised and composite scores, sorting (GradeSort), and   *)
(* then either reports or the collated data.                               *)
(*                                                                         *)
(* Values are whole numbers of units, One to 1.0, and divisions round      *)
(* down; the floats of the code round differently.  Statistics are kept    *)
(* for each pair of an assignment and a group: 0 for the whole class       *)
(* (Classstats), k for section k (Sectionstats).                           *)
(***************************************************************************)
EXTENDS GradeRead

CONSTANTS Order,      \* the place of each lexeme in the order of strcmp()
          Garbage     \* what a value that was never set may be

VARIABLES
  args,      \* the options that have not been looked at
  opts,      \* mode, key to sort by, reports wanted
  stats,     \* statistics for each assignment and group
  cur,       \* where the loops over assignments, sections, students are
  dups,      \* students reported to be like the next in the roster
  printed,   \* what each report shows
  output,    \* the collated text
  freed,     \* the students whose memory was freed
  before,    \* what was read first, when collated data is read again
  meant      \* what the files were written from; only properties look at it

bookVars == <<args, opts, stats, cur, dups, printed, output, freed, before,
              meant>>
vars == <<sortVars, readVars, bookVars>>

sorter == <<todo, compare, stab, calls, part, at>>
input == <<files, reader, args, opts>>
results == <<dups, printed, output, freed, before, meant>>

AllReports == {"moments", "composites", "freqs", "quants", "summaries",
               "histos", "indivs", "tabsep"}
NotAgain == <<>>
Cursor == [a |-> 1, k |-> 1, s |-> NoStudent, i |-> 1, rp |-> NoStudent]

(* Quotient of whole numbers as C computes it.                             *)
Quotient(x, y) ==
  LET abs(z) == IF z < 0 THEN -z ELSE z
      q == abs(x) \div abs(y)
  IN  IF (x < 0) = (y < 0) THEN q ELSE -q

Root(x) == CHOOSE k \in 0 .. x : k * k <= x /\ x < (k + 1) * (k + 1)

-----------------------------------------------------------------------------
(* Options.  All require that report or collate came before.               *)
GoTo(p) == phase' = p
Usage == GoTo("failed")

ParseMode ==
  /\ phase = "arguments" /\ args # <<>>
  /\ Head(args) \in {"report", "collate"}
  /\ args' = Tail(args)
  /\ IF opts.mode # "" THEN Usage /\ opts' = opts
     ELSE opts' = [opts EXCEPT !.mode = Head(args)] /\ phase' = phase
  /\ UNCHANGED <<sortVars, files, reader, course, students, stats, cur, results>>

ParseSortBy ==
  /\ phase = "arguments" /\ args # <<>>
  /\ Head(args) = "sortby"
  /\ args' = Tail(Tail(args))
  /\ IF opts.mode = "" \/ args[2] \notin {"name", "id", "score"}
     THEN Usage /\ opts' = opts
     ELSE opts' = [opts EXCEPT !.key = args[2]] /\ phase' = phase
  /\ UNCHANGED <<sortVars, files, reader, course, students, stats, cur, results>>

ParseReport ==
  /\ phase = "arguments" /\ args # <<>>
  /\ Head(args) \in AllReports \cup {"all"}
  /\ args' = Tail(args)
  /\ IF opts.mode = "" THEN Usage /\ opts' = opts
     ELSE /\ opts' = [opts EXCEPT !.reports = @ \cup
                        IF Head(args) = "all" THEN AllReports ELSE {Head(args)}]
          /\ phase' = phase
  /\ UNCHANGED <<sortVars, files, reader, course, students, stats, cur, results>>

(* What is left is the name of the file.                                   *)
OpenRoot ==
  /\ phase = "arguments" /\ args = <<>>
  /\ IF opts.mode = "" \/ opts.root \notin DOMAIN files
     THEN Usage /\ reader' = reader
     ELSE /\ reader' = [tok |-> <<>>, texts |-> <<files[opts.root]>>,
                        complaints |-> 0, fatal |-> FALSE]
          /\ GoTo("course")
  /\ UNCHANGED <<sortVars, files, course, students, bookVars>>

-----------------------------------------------------------------------------
(* statistics().                                                           *)
Groups(c) == (1 .. Len(c.assignments)) \X (0 .. Len(c.sections))

NoStats == [valid |-> 0, tallied |-> 0, sum |-> 0, sumsq |-> 0, min |-> 0,
            max |-> 0, mean |-> 0, stddev |-> 0, freqs |-> <<>>]

(* buildstats() ends with freeing what is behind the last assignment's     *)
(* statistics, or, when there is one assignment only, those themselves.    *)
BuildStats ==
  /\ phase = "statistics" /\ before = NotAgain
  /\ stats' = [g \in Groups(course) |-> NoStats]
  /\ head' = [head EXCEPT ![Course] = NoStudent]
  /\ cur' = [Cursor EXCEPT !.s = IF LastSection = 0 THEN NoStudent ELSE head[1]]
  /\ GoTo(CASE LastAssignment = 0 -> "linked" [] LastAssignment = 1 -> "undefined"
            [] OTHER -> "links")
  /\ UNCHANGED <<link, sorter, input, course, students, results>>

(* rp is the student that was linked last, of this or of the assignment    *)
(* before.                                                                 *)
LinkBehind(links, rp, s) ==
  IF rp = NoStudent THEN [links EXCEPT ![s] = NoStudent]
  ELSE [links EXCEPT ![rp] = s, ![s] = NoStudent]

(* do_links(), for one assignment and one student.                         *)
LinkStudent ==
  /\ phase = "links" /\ cur.s # NoStudent
  /\ head' = [head EXCEPT ![Course] = IF cur.rp = NoStudent THEN cur.s ELSE @]
  /\ link' = [link EXCEPT ![Course] = LinkBehind(@, cur.rp, cur.s)]
  /\ students' = [students EXCEPT ![cur.s].raw =
       [i \in DOMAIN @ |-> IF @[i].asgt = cur.a
                           THEN [@[i] EXCEPT !.group = cur.k] ELSE @[i]]]
  /\ cur' = [cur EXCEPT !.rp = cur.s, !.s = link[cur.k][cur.s]]
  /\ UNCHANGED <<phase, sorter, input, course, stats, results>>

NextSection ==
  /\ phase = "links" /\ cur.s = NoStudent
  /\ LET more == cur.k < LastSection
         k == IF more THEN cur.k + 1 ELSE 1
     IN  /\ cur' = [cur EXCEPT !.k = k,
                               !.a = IF more THEN @ ELSE @ + 1,
                               !.s = IF LastSection = 0 THEN NoStudent
                                     ELSE head[k]]
         /\ phase' = IF ~more /\ cur.a = LastAssignment THEN "linked" ELSE phase
  /\ UNCHANGED <<sortVars, input, course, students, stats, results>>

-----------------------------------------------------------------------------
(* The loops over the roster of the course and the scores of each student. *)
(* after is the phase that begins at the end of the roster.                *)
AtScore == cur.s # NoStudent /\ cur.i <= Len(students[cur.s].raw)
TheScore == students[cur.s].raw[cur.i]
NextScore == cur' = [cur EXCEPT !.i = @ + 1]

NextPhase ==
  [tally |-> "quantiles", sums |-> "moments", normalize |-> "composites"]

StartRoster(p) ==
  /\ cur' = [Cursor EXCEPT !.s = head[Course]]
  /\ GoTo(p)

(* A score that counts is valid, or its raw value is used for it.          *)
Counts(score) == score.subst \in {"", "USERAW"}

SkipScore ==
  /\ phase \in {"tally", "sums"}
  /\ AtScore /\ ~Counts(TheScore)
  /\ NextScore
  /\ UNCHANGED <<sortVars, phase, input, course, students, stats, results>>

NextStudent ==
  /\ phase \in DOMAIN NextPhase
  /\ cur.s # NoStudent /\ ~AtScore
  /\ cur' = [cur EXCEPT !.s = link[Course][cur.s], !.i = 1]
  /\ UNCHANGED <<sortVars, phase, input, course, students, stats, results>>

EndOfRoster ==
  /\ phase \in DOMAIN NextPhase
  /\ cur.s = NoStudent
  /\ StartRoster(NextPhase[phase])
  /\ UNCHANGED <<sortVars, input, course, students, stats, results>>

(* do_links() comes to an end with cur at no student; the roster is then   *)
(* walked from its head.                                                   *)
StartTally ==
  /\ phase = "linked"
  /\ StartRoster("tally")
  /\ UNCHANGED <<sortVars, input, course, students, stats, results>>

(* Mutant: the search for the bucket stops at a greater score only.        *)
CountAlways(grade, freqs) ==
  LET k == CHOOSE j \in 1 .. Len(freqs) + 1 :
             /\ \A i \in 1 .. j - 1 : freqs[i].score <= grade
             /\ j <= Len(freqs) => freqs[j].score > grade
  IN  InsertAt(freqs, k, [score |-> grade, count |-> 1, numless |-> 0])

(* count_score(): the first bucket that is not less is the score's own, or *)
(* a new one is inserted before it.                                        *)
CountScore(grade, freqs) ==
  LET k == CHOOSE j \in 1 .. Len(freqs) + 1 :
             /\ \A i \in 1 .. j - 1 : freqs[i].score < grade
             /\ j <= Len(freqs) => freqs[j].score >= grade
  IN  IF k <= Len(freqs) /\ freqs[k].score = grade
      THEN [freqs EXCEPT ![k].count = @ + 1]
      ELSE InsertAt(freqs, k, [score |-> grade, count |-> 1, numless |-> 0])

(* scp->cstats and scp->sstats.                                            *)
GroupsOf(score) == {<<score.asgt, 0>>, <<score.asgt, score.group>>}

(* do_freqs(), for one score.                                              *)
TallyScore ==
  /\ phase = "tally" /\ AtScore /\ Counts(TheScore)
  /\ stats' = [g \in DOMAIN stats |->
       IF g \in GroupsOf(TheScore)
       THEN [stats[g] EXCEPT !.freqs = CountScore(TheScore.grade, @),
                             !.tallied = @ + 1]
       ELSE stats[g]]
  /\ NextScore
  /\ UNCHANGED <<sortVars, phase, input, course, students, results>>

NumLess(freqs, k) == MapThenSumSet(LAMBDA i : freqs[i].count, 1 .. k - 1)

(* do_quantiles().                                                         *)
DoQuantiles ==
  /\ phase = "quantiles"
  /\ stats' = [g \in DOMAIN stats |-> [stats[g] EXCEPT !.freqs =
       [k \in DOMAIN @ |-> [@[k] EXCEPT !.numless = NumLess(stats[g].freqs, k)]]]]
  /\ StartRoster("sums")
  /\ UNCHANGED <<sortVars, input, course, students, results>>

(* do_sums(), for one score.  The least and the greatest score are kept    *)
(* for the class; for a section they are those of its first score, because *)
(* the later ones go to the class again.                                   *)
AddScore(st, grade, isClass) ==
  [st EXCEPT
     !.valid = @ + 1, !.sum = @ + grade, !.sumsq = @ + grade * grade,
     !.min = IF st.valid = 0 \/ (isClass /\ grade < @) THEN grade ELSE @,
     !.max = IF st.valid = 0 \/ (isClass /\ grade > @) THEN grade ELSE @]

SumScore ==
  /\ phase = "sums" /\ AtScore /\ Counts(TheScore)
  /\ stats' = [g \in DOMAIN stats |->
       IF g \in GroupsOf(TheScore)
       THEN AddScore(stats[g], TheScore.grade, g[2] = 0) ELSE stats[g]]
  /\ NextScore
  /\ UNCHANGED <<sortVars, phase, input, course, students, results>>

Deviation(st) ==
  IF st.valid < 2 THEN 0
  ELSE Root((st.sumsq - (st.sum * st.sum) \div st.valid) \div (st.valid - 1))

(* do_moments().                                                           *)
DoMoments ==
  /\ phase = "moments"
  /\ stats' = [g \in DOMAIN stats |->
       [stats[g] EXCEPT !.mean = IF stats[g].valid = 0 THEN 0
                                 ELSE stats[g].sum \div stats[g].valid,
                        !.stddev = Deviation(stats[g])]]
  /\ StartRoster("normalize")
  /\ UNCHANGED <<sortVars, input, course, students, results>>

-----------------------------------------------------------------------------
(* normalize().  A value below EPSILON that is divided by becomes          *)
(* 2*EPSILON, which is one unit, and stays so.                             *)
Least == 1
AtLeast(x) == IF x < Least THEN Least ELSE x

Assignment(score) == course.assignments[score.asgt]
GroupFor(score) ==
  <<score.asgt, IF Assignment(score).ngroup = "BYCLASS" THEN 0 ELSE score.group>>

(* Mutant: the scores that are equal are counted in.                       *)
PercentileLessEq(st, k) ==
  ((st.freqs[k].numless + st.freqs[k].count) * 100 * One) \div st.tallied

(* numless*100.0/n of a bucket.                                            *)
Percentile(st, k) == (st.freqs[k].numless * 100 * One) \div st.tallied

(* Mutant: the mean of the scores is added instead of taken away.          *)
LinearBackwards(grade, st, a) ==
  (a.stddev * (st.mean - grade)) \div AtLeast(st.stddev) + a.mean

Linear(grade, st, a) ==
  (a.stddev * (grade - st.mean)) \div AtLeast(st.stddev) + a.mean

(* normal().  Every score that is looked up in a frequency table was       *)
(* counted there, so that it is found.                                     *)
Normal(score) ==
  LET a == Assignment(score)
      st == stats[GroupFor(score)]
  IN  CASE a.npolicy = "RAW"    -> score.grade
        [] a.npolicy = "LINEAR" -> Linear(score.grade, st, a)
        [] a.npolicy = "SCALE"  -> (score.grade * a.scale) \div AtLeast(a.max)
        [] a.npolicy = "QUANTILE" ->
             Percentile(st, CHOOSE k \in DOMAIN st.freqs :
                              st.freqs[k].score = score.grade)

(* The student's scores that studentavg() looks at.                        *)
Alike(s, atype) ==
  {i \in DOMAIN students[s].raw :
     /\ Assignment(students[s].raw[i]).atype = atype
     /\ Counts(students[s].raw[i])}

(* studentavg().  Scores without a weight count as if theirs were 1.0 in   *)
(* the sum and not at all in what the sum is divided by; with a weight of  *)
(* more than 0 in w, wp is set, so the sum is never divided by n.          *)
StudentAvg(s, atype) ==
  LET raw == students[s].raw
      like == Alike(s, atype)
      weighted == {i \in like : Assignment(raw[i]).wpolicy = "WEIGHT"}
      weight(i) == IF i \in weighted THEN Assignment(raw[i]).weight ELSE One
      w == MapThenSumSet(weight, weighted)
  IN  IF w = 0 THEN 0
      ELSE MapThenSumSet(LAMBDA i : Normal(raw[i]) * weight(i), like) \div w

(* What the normalised score may be.                                       *)
Grades(s, score) ==
  CASE Counts(score)                -> {Normal(score)}
    [] score.subst = "USENORM"      -> {score.snorm}
    [] score.subst = "USELIKEAVG"   -> {StudentAvg(s, Assignment(score).atype)}
    [] score.subst = "USECLASSAVG"  ->
         IF Assignment(score).npolicy = "QUANTILE" THEN {50 * One}
         ELSE IF Assignment(score).mean = Unset THEN Garbage
         ELSE {Assignment(score).mean}

(* The scores normal() is called for.                                      *)
Looked(s, score) ==
  IF Counts(score) THEN {score}
  ELSE IF score.subst = "USELIKEAVG"
       THEN {students[s].raw[i] : i \in Alike(s, Assignment(score).atype)}
  ELSE {}

NormalizeScore ==
  /\ phase = "normalize" /\ AtScore
  /\ LET looked == Looked(cur.s, TheScore)
         Divides(policy) == {sc \in looked : Assignment(sc).npolicy = policy}
     IN  /\ \E grade \in Grades(cur.s, TheScore) :
              students' = [students EXCEPT ![cur.s].norm =
                Append(@, [asgt |-> TheScore.asgt, grade |-> grade])]
         /\ stats' = [g \in DOMAIN stats |->
              IF \E sc \in Divides("LINEAR") : GroupFor(sc) = g
              THEN [stats[g] EXCEPT !.stddev = AtLeast(@)] ELSE stats[g]]
         /\ course' = [course EXCEPT !.assignments = [a \in DOMAIN @ |->
              IF \E sc \in Divides("SCALE") : sc.asgt = a
              THEN [@[a] EXCEPT !.max = AtLeast(@)] ELSE @[a]]]
  /\ NextScore
  /\ UNCHANGED <<sortVars, phase, input, results>>

WeightOf(a) == IF a.wpolicy = "WEIGHT" THEN a.weight ELSE One

CompositeOf(s) ==
  MapThenSumSet(LAMBDA i : students[s].norm[i].grade
                       * WeightOf(Assignment(students[s].norm[i])),
          DOMAIN students[s].norm) \div One

-----------------------------------------------------------------------------
(* Sorting.  strcmp() on what a name is made of; the rank of a student is  *)
(* how many come before.                                                   *)
Before(u, v) ==
  \E k \in 1 .. Len(v) :
    /\ \A i \in 1 .. k - 1 : i <= Len(u) /\ u[i] = v[i]
    /\ k > Len(u) \/ Order[u[k]] < Order[v[k]]

FullName(s) == students[s].surname \o <<NUL>> \o students[s].name

Ranks(less) ==
  [s \in Student |-> Cardinality({t \in DOMAIN students : <<t, s>> \in less})]
PairsOfStudents == (DOMAIN students) \X (DOMAIN students)
NameRanks == Ranks({p \in PairsOfStudents : Before(FullName(p[1]), FullName(p[2]))})
IdRanks == Ranks({p \in PairsOfStudents : Before(students[p[1]].id, students[p[2]].id)})
ScoreRanks ==
  Ranks({p \in PairsOfStudents : students[p[1]].composite > students[p[2]].composite})

(* composites(), and the call of sortrosters() by name that follows.       *)
Composites ==
  /\ phase = "composites"
  /\ students' = [s \in DOMAIN students |->
                    [students[s] EXCEPT !.composite = CompositeOf(s)]]
  /\ SortRosters(LastSection, NameRanks)
  /\ GoTo("by name")
  /\ UNCHANGED <<input, course, stats, cur, results>>

SortStep ==
  /\ phase \in {"by name", "by key"}
  /\ SortNext
  /\ UNCHANGED <<phase, input, course, students, stats, cur, results>>

(* checkfordups().                                                         *)
CheckForDups ==
  /\ phase = "by name" /\ ~Sorting
  /\ dups' = {s \in ToSet(Roster(Course)) :
                /\ link[Course][s] # NoStudent
                /\ Compare(s, link[Course][s]) = 0}
  /\ IF opts.mode = "collate"
     THEN /\ GoTo("collate")
          /\ UNCHANGED sortVars
     ELSE /\ GoTo("by key")
          /\ SortRosters(LastSection, CASE opts.key = "name"  -> NameRanks
                                        [] opts.key = "id"    -> IdRanks
                                        [] opts.key = "score" -> ScoreRanks)
  /\ UNCHANGED <<input, course, students, stats, cur, printed, output, freed,
                 before, meant>>

StartReports ==
  /\ phase = "by key" /\ ~Sorting
  /\ GoTo("reports")
  /\ UNCHANGED <<sortVars, input, course, students, stats, cur, results>>

-----------------------------------------------------------------------------
(* write.c: the text of the data, with ", " and ": " as white space.       *)
(* Values have as many digits as it takes to read them back.               *)
Line(parts) ==
  FlattenSeq([i \in DOMAIN parts |-> IF i = 1 THEN parts[i] ELSE <<SP>> \o parts[i]])
    \o <<NL>>
Indented(parts) == Line(<< <<>> >> \o parts)

Value(x) == <<CHOOSE w \in DOMAIN Number : Number[w] = x>>

(* Mutant: the name comes before the surname.                              *)
WriteNameFirst(key, p) == Indented(<< <<key>>, p[2], p[1] >>)

WritePerson(key, p) == Indented(<< <<key>>, p[1], p[2] >>)

WriteScore(score) ==
  LET a == Assignment(score)
      shown ==
        CASE score.subst = ""        -> << Value(score.grade) >>
          [] score.subst = "USERAW"  -> << <<"USERAW">>, Value(score.grade) >>
          [] score.subst = "USENORM" ->
               IF a.npolicy = "RAW" THEN <<>>
               ELSE << <<"USENORM">>, Value(score.snorm) >>
          [] OTHER                   -> << <<score.subst>> >>
  IN  Indented(<< <<"SCORE">>, a.name >> \o shown
                 \o IF score.subst = "" THEN <<>> ELSE << score.code >>)

WriteStudent(s) ==
  Indented(<< <<"STUDENT">>, students[s].id, students[s].surname,
              students[s].name >>)
    \o FlattenSeq([i \in DOMAIN students[s].raw |-> WriteScore(students[s].raw[i])])

WriteSection(k) ==
  LET sec == course.sections[k]
  IN  Indented(<< <<"SECTION">>, sec.name >>)
        \o (IF sec.assistant = Nobody THEN <<>>
            ELSE WritePerson("ASSISTANT", sec.assistant))
        \o FlattenSeq([i \in DOMAIN Roster(k) |-> WriteStudent(Roster(k)[i])])

(* readnorm() knows no LINEAR, and RAW data are written without a group.   *)
WriteNorm(a) ==
  LET policy ==
        CASE a.npolicy = "LINEAR" ->
               << <<"LINEAR">>, Value(a.mean), Value(a.stddev) >>
          [] a.npolicy = "SCALE"    -> << <<"SCALE">>, Value(a.scale) >>
          [] a.npolicy = "QUANTILE" -> << <<"QUANTILE">> >>
  IN  IF a.npolicy = "RAW" THEN <<>>
      ELSE Indented(<< <<"NORMALIZE">> >> \o policy \o << <<a.ngroup>> >>)

WriteAssignment(a) ==
  Indented(<< <<"ASSIGNMENT">>, a.name, a.atype >>)
    \o (IF a.wpolicy = "WEIGHT" THEN Indented(<< <<"WEIGHT">>, Value(a.weight) >>)
        ELSE <<>>)
    \o WriteNorm(a)
    \o (IF a.max # 0 THEN Indented(<< <<"MAXIMUM">>, Value(a.max) >>) ELSE <<>>)

CourseText ==
  Line(<< <<"COURSE">>, course.number, course.title >>)
    \o WritePerson("PROFESSOR", course.professor)
    \o FlattenSeq([a \in DOMAIN course.assignments |->
                     WriteAssignment(course.assignments[a])])
    \o FlattenSeq([k \in DOMAIN course.sections |-> WriteSection(k)])

(* writecourse() follows the pointer to the professor, who may be missing. *)
WriteCourse ==
  /\ phase = "collate"
  /\ IF course.professor = Nobody
     THEN GoTo("undefined") /\ output' = output
     ELSE GoTo("freeing") /\ output' = CourseText
  /\ UNCHANGED <<sortVars, input, course, students, stats, cur, dups, printed,
                 freed, before, meant>>

-----------------------------------------------------------------------------
(* report.c.  Sections are left out when there is only one.                *)
Shown ==
  IF LastSection = 1 THEN {g \in DOMAIN stats : g[2] = 0} ELSE DOMAIN stats

Moments == [g \in Shown |-> [valid |-> stats[g].valid, mean |-> stats[g].mean,
                             stddev |-> stats[g].stddev]]

Frequencies ==
  [g \in Shown |-> [k \in DOMAIN stats[g].freqs |->
                      <<stats[g].freqs[k].score, stats[g].freqs[k].count>>]]

Quantiles ==
  [g \in Shown |-> [k \in DOMAIN stats[g].freqs |->
                      <<stats[g].freqs[k].score, Percentile(stats[g], k)>>]]

(* interpolatequantile().  The loop never compares with the last bucket,   *)
(* so a quantile it does not find is the greatest score.                   *)
InterpolateQuantile(st, q) ==
  LET n == Len(st.freqs)
      found == {k \in 2 .. n - 1 : Percentile(st, k - 1) <= q /\ q < Percentile(st, k)}
  IN  IF n = 0 THEN 0
      ELSE IF found = {} THEN st.freqs[n].score
      ELSE LET k == CHOOSE k \in found : TRUE
               pq == Percentile(st, k - 1)
               sdiff == st.freqs[k].score - st.freqs[k - 1].score
           IN  st.freqs[k - 1].score + (sdiff * (q - pq)) \div (Percentile(st, k) - pq)

Summaries ==
  [g \in Shown |-> [q \in {10, 25, 50, 75, 90} |->
                      InterpolateQuantile(stats[g], q * One)]]

CompositeList ==
  [i \in DOMAIN Roster(Course) |->
     <<Roster(Course)[i], students[Roster(Course)[i]].composite>>]

(* The columns of the histogram, from 0 to 49, and how many are in each.   *)
Columns == 0 .. 49
Bins(column, count) ==
  [col \in {column[e] : e \in DOMAIN column} |->
     MapThenSumSet(LAMBDA e : count[e], {e \in DOMAIN column : column[e] = col})]

CompositeBins ==
  LET all == ToSet(Roster(Course))
      values == {students[s].composite : s \in all}
      min == Min(values \cup {150 * One})
      max == Max(values \cup {0})
      diff == IF max = min THEN One ELSE max - min
  IN  Bins([s \in all |-> Quotient(49 * (students[s].composite - min), diff)],
           [s \in all |-> 1])

(* Mutant: a score above the maximum is not put into the last column.      *)
ColumnUnchecked(score, max) == Quotient(49 * score, max)

ColumnOf(score, max) == IF score > max THEN 49 ELSE Quotient(49 * score, max)

AssignmentBins(a) ==
  LET st == stats[<<a, 0>>]
      max == IF course.assignments[a].max # 0 THEN course.assignments[a].max
             ELSE IF st.max = 0 THEN One ELSE st.max
      entries == ToSet(st.freqs)
  IN  Bins([f \in entries |-> ColumnOf(f.score, max)],
           [f \in entries |-> f.count])

Histograms ==
  [composites |-> CompositeBins,
   assignments |-> [a \in DOMAIN course.assignments |-> AssignmentBins(a)]]

(* Two lists of scores are walked at once.                                 *)
Individuals ==
  [s \in ToSet(Roster(Course)) |->
     [i \in DOMAIN students[s].raw |->
        LET score == students[s].raw[i]
        IN  [raw |-> IF Counts(score) THEN <<score.grade>> ELSE <<>>,
             norm |-> students[s].norm[i].grade,
             classmean |-> stats[<<score.asgt, 0>>].mean,
             sectionmean |-> stats[<<score.asgt, score.group>>].mean,
             note |-> IF score.subst = "" THEN <<>> ELSE score.code]]]

(* The first score of a student for each assignment.                       *)
Tabs ==
  [s \in ToSet(Roster(Course)) |->
     [a \in DOMAIN course.assignments |->
        LET raw == students[s].raw
            found == {i \in DOMAIN raw : raw[i].asgt = a}
        IN  IF found = {} \/ ~Counts(raw[Min(found)]) THEN <<>>
            ELSE <<raw[Min(found)].grade>>]]

(* The reports in the order of the calls, those that were asked for.       *)
ReportOrder == <<"moments", "composites", "freqs", "quants", "summaries",
                 "histos", "indivs", "tabsep">>
Wanted == {i \in DOMAIN ReportOrder :
             ReportOrder[i] \in opts.reports \ DOMAIN printed}

Report(kind, content) ==
  /\ phase = "reports"
  /\ Wanted # {} /\ ReportOrder[Min(Wanted)] = kind
  /\ printed' = printed @@ (kind :> content)
  /\ UNCHANGED <<sortVars, input, course, students, stats, cur, dups, output,
                 freed, before, meant>>

OneReport ==
  \/ /\ \/ Report("moments", Moments)
        \/ Report("composites", CompositeList)
        \/ Report("freqs", Frequencies)
        \/ Report("quants", Quantiles)
        \/ Report("summaries", Summaries)
        \/ Report("indivs", Individuals)
        \/ Report("tabsep", Tabs)
     /\ phase' = phase
  \/ /\ Report("histos", Histograms)
     /\ phase' = IF /\ DOMAIN Histograms.composites \subseteq Columns
                    /\ \A a \in DOMAIN course.assignments :
                         DOMAIN Histograms.assignments[a] \subseteq Columns
                 THEN phase ELSE "undefined"

EndReports ==
  /\ phase = "reports" /\ Wanted = {}
  /\ GoTo("freeing")
  /\ UNCHANGED <<sortVars, input, course, students, stats, cur, results>>

(* free_all() frees the students on the course's roster.                   *)
FreeAll ==
  /\ phase = "freeing"
  /\ freed' = Roster(Course)
  /\ GoTo("exit")
  /\ UNCHANGED <<sortVars, input, course, students, stats, cur, dups, printed,
                 output, before, meant>>

-----------------------------------------------------------------------------
(* What was read about the students, in the order given.                   *)
AsRead(order) ==
  [i \in DOMAIN order |->
     LET st == students[order[i]]
     IN  [id |-> st.id, surname |-> st.surname, name |-> st.name,
          section |-> st.section,
          raw |-> [j \in DOMAIN st.raw |->
                     [st.raw[j] EXCEPT !.group = 0]]]]
InOrder == [i \in DOMAIN students |-> i]
BySection == FlattenSeq([k \in 1 .. LastSection |-> Roster(k)])

(* The collated text is the input of another run of the program.           *)
ReadAgain ==
  /\ phase = "exit" /\ output # <<>> /\ before = NotAgain
  /\ before' = <<[course |-> course, students |-> AsRead(BySection),
                  complaints |-> reader.complaints]>>
  /\ reader' = [tok |-> <<>>, texts |-> <<output>>, complaints |-> 0,
                fatal |-> FALSE]
  /\ course' = NoCourse /\ students' = <<>>
  /\ head' = [x \in List |-> NoStudent] /\ link' = NoLinks
  /\ GoTo("course")
  /\ UNCHANGED <<sorter, files, args, opts, stats, cur, dups, printed, output,
                 freed, meant>>

Init ==
  /\ SortInit
  /\ head = [x \in List |-> NoStudent] /\ link = NoLinks
  /\ phase = "arguments"
  /\ \E in \in Inputs : files = in.files /\ args = in.args /\ meant = in.meant
  /\ opts = [mode |-> "", key |-> "name", reports |-> {}, root |-> "root"]
  /\ reader = [tok |-> <<>>, texts |-> <<>>, complaints |-> 0, fatal |-> FALSE]
  /\ course = NoCourse /\ students = <<>>
  /\ stats = <<>> /\ cur = Cursor /\ dups = {} /\ printed = <<>>
  /\ output = <<>> /\ freed = <<>> /\ before = NotAgain

Next ==
  \/ ParseMode \/ ParseSortBy \/ ParseReport \/ OpenRoot
  \/ ReadNext /\ UNCHANGED <<sorter, bookVars>>
  \/ BuildStats \/ LinkStudent \/ NextSection \/ StartTally
  \/ SkipScore \/ NextStudent \/ EndOfRoster
  \/ TallyScore \/ DoQuantiles \/ SumScore \/ DoMoments
  \/ NormalizeScore \/ Composites \/ SortStep \/ CheckForDups
  \/ WriteCourse \/ StartReports \/ OneReport \/ EndReports \/ FreeAll
  \/ ReadAgain

(* A run is over when the program has stopped, or has read its own output. *)
Over ==
  \/ phase \in {"failed", "undefined"}
  \/ phase = "exit" /\ output = <<>>
  \/ phase = "statistics" /\ before # NotAgain

Stay == Over /\ UNCHANGED vars

Spec == Init /\ [][Next \/ Stay]_vars

(* The program is sequential and goes on until it stops.  This is          *)
(* WF_vars(Next), because in every state that is not Over Next has a step  *)
(* that changes the state.  WF_vars(Next) itself would have TLC evaluate   *)
(* ENABLED of the whole reader in every state.                             *)
Fairness == []<>Over \/ []<><<TRUE>>_vars
FairSpec == Spec /\ Fairness
-----------------------------------------------------------------------------
(* Properties.                                                             *)
FirstTime == before = NotAgain
HasRead == phase = "statistics" /\ FirstTime
Everybody == DOMAIN students

(* A text that follows the syntax is read without a complaint, and what is *)
(* read is what it was written from: comments, empty lines, options in any *)
(* order and a division of the sections among files make no difference     *)
(* (the functions of read.c with one token of readahead).                  *)
ReadsWhatIsGiven ==
  meant # <<>> /\ FirstTime =>
    /\ ~reader.fatal /\ reader.complaints = 0
    /\ phase = "statistics" =>
         /\ course = meant.course
         /\ AsRead(InOrder) = meant.students

(* The lines of a text that begin with key.                                *)
LineStarts(text) ==
  {k \in DOMAIN text : k = 1 \/ text[k - 1] = NL}
FirstWord(text, k) == FirstNotIn(text, k, {SP})
LinesOf(text, key) ==
  {k \in LineStarts(text) :
     LET j == FirstWord(text, k)
     IN  j < Len(text) /\ text[j] = key /\ text[j + 1] \in {SP, NL}}

(* How many there are in a text and, up to depth, the files it includes.   *)
RECURSIVE HowMany(_, _, _)
HowMany(text, key, depth) ==
  LET included(k) == text[FirstNotIn(text, FirstWord(text, k) + 1, {SP})]
  IN  Cardinality(LinesOf(text, key)) +
        IF depth = 0 THEN 0
        ELSE MapThenSumSet(LAMBDA k : IF included(k) \in DOMAIN files
                                THEN HowMany(files[included(k)], key, depth - 1)
                                ELSE 0,
                     LinesOf(text, "FILE"))

(* The blank lines that gobbleblanklines() does not see.                   *)
HidesBlankLine(text) ==
  \E k \in LineStarts(text) :
    /\ text[k] = SP
    /\ LET j == FirstWord(text, k) IN j <= Len(text) /\ text[j] = NL
    /\ \/ k = 1
       \/ \E i \in LineStarts(text) : text[i] = Hash /\ FirstIn(text, i, {NL}) = k - 1

(* Whatever the text is: when reading ends without a complaint, there is a *)
(* student for each line that begins with STUDENT and a score for each     *)
(* that begins with SCORE, in all files.  Nothing is dropped in silence,   *)
(* but for a file in which a blank line with white space follows a comment *)
(* or comes first (read.c, gobbleblanklines() and readsections()).         *)
NothingIsLost ==
  HasRead /\ reader.complaints = 0
    /\ (\A f \in DOMAIN files : ~HidesBlankLine(files[f])) =>
      /\ Len(students) = HowMany(files["root"], "STUDENT", MaxOpen)
      /\ MapThenSumSet(LAMBDA s : Len(students[s].raw), Everybody)
           = HowMany(files["root"], "SCORE", MaxOpen)

(* The data that write.c can write so that read.c reads them again: there  *)
(* is a professor, and no assignment is LINEAR (written as a word that     *)
(* readnorm() does not know), RAW and BYSECTION (written without a group), *)
(* or RAW with a normalised substitute (written without its value).        *)
Writable(read) ==
  /\ read.complaints = 0
  /\ \A a \in DOMAIN read.course.assignments :
       LET asgt == read.course.assignments[a]
       IN  /\ asgt.npolicy # "LINEAR"
           /\ asgt.npolicy = "RAW" =>
                /\ asgt.ngroup = "BYCLASS"
                /\ \A i \in DOMAIN read.students :
                     \A j \in DOMAIN read.students[i].raw :
                       LET score == read.students[i].raw[j]
                       IN  score.asgt = a => score.subst # "USENORM"

(* Collated data are read back as they were: the output of one run is an   *)
(* input of another that means the same (write.c against read.c, after     *)
(* linking, normalising and sorting went over the data).                   *)
CollateReadsBack ==
  ~FirstTime /\ Writable(before[1]) =>
    /\ ~reader.fatal /\ reader.complaints = 0
    /\ phase = "statistics" =>
         /\ course = before[1].course
         /\ AsRead(InOrder) = before[1].students

(* The scores that count for an assignment, as student and place, in the   *)
(* whole class or in a section.                                            *)
Counted(a, k) ==
  {<<s, i>> \in Everybody \X (1 .. Max({0} \cup {Len(students[t].raw) : t \in Everybody})) :
     /\ k = 0 \/ students[s].section = k
     /\ i <= Len(students[s].raw)
     /\ students[s].raw[i].asgt = a /\ Counts(students[s].raw[i])}
GradeOf(si) == students[si[1]].raw[si[2]].grade

(* The statistics of each assignment, in the class and in each section,    *)
(* are those of the scores that were read: the frequency table is strictly *)
(* increasing, counts each score and how many are less, and the sums, the  *)
(* least and the greatest score of the class agree (stats.c, by way of the *)
(* roster that do_links() builds once for each assignment).                *)
StatisticsAreRight ==
  phase = "composites" =>
    \A g \in DOMAIN stats :
      LET st == stats[g]
          counted == Counted(g[1], g[2])
      IN  /\ \A k \in DOMAIN st.freqs :
               LET f == st.freqs[k]
               IN  /\ k > 1 => st.freqs[k - 1].score < f.score
                   /\ f.count = Cardinality({c \in counted : GradeOf(c) = f.score})
                   /\ f.numless = Cardinality({c \in counted : GradeOf(c) < f.score})
          /\ {st.freqs[k].score : k \in DOMAIN st.freqs} = {GradeOf(c) : c \in counted}
          /\ st.tallied = Cardinality(counted) /\ st.valid = st.tallied
          /\ st.sum = MapThenSumSet(GradeOf, counted)
          /\ g[2] = 0 /\ counted # {} =>
               /\ st.min = Min({GradeOf(c) : c \in counted})
               /\ st.max = Max({GradeOf(c) : c \in counted})

(* Students who have one valid score for each assignment.                  *)
Complete(s) ==
  /\ Len(students[s].raw) = LastAssignment
  /\ \A a \in 1 .. LastAssignment :
       \E i \in DOMAIN students[s].raw :
         students[s].raw[i].asgt = a /\ students[s].raw[i].subst = ""
ScoreFor(s, a) ==
  students[s].raw[CHOOSE i \in DOMAIN students[s].raw :
                    students[s].raw[i].asgt = a].grade

(* No normalisation turns better into worse: a student whose every score   *)
(* is at least another's has a composite score that is no less, and the    *)
(* roster sorted by score says so (normal.c and comparescore()).  Students *)
(* of different sections are compared when no assignment is normalised     *)
(* within sections.                                                        *)
BetterScoresRankHigher ==
  phase = "freeing" /\ LastAssignment > 0 =>
    \A s, t \in {u \in Everybody : Complete(u)} :
      /\ \A a \in 1 .. LastAssignment :
           /\ ScoreFor(s, a) >= ScoreFor(t, a)
           /\ \/ course.assignments[a].ngroup = "BYCLASS"
              \/ students[s].section = students[t].section
      => /\ students[s].composite >= students[t].composite
         /\ opts.mode = "report" /\ opts.key = "score"
              /\ students[s].composite # students[t].composite =>
              \E i, j \in DOMAIN Roster(Course) :
                i < j /\ Roster(Course)[i] = s /\ Roster(Course)[j] = t

Sorted(seq, LessThan(_, _)) ==
  \A i, j \in DOMAIN seq : i < j => ~LessThan(seq[j], seq[i])
ByKey(s, t) ==
  CASE opts.key = "name" \/ opts.mode = "collate" -> Before(FullName(s), FullName(t))
    [] opts.key = "id"    -> Before(students[s].id, students[t].id)
    [] opts.key = "score" -> students[s].composite > students[t].composite

(* When there is an assignment, linking and sorting keep everybody: the    *)
(* roster of the course and those of the sections hold each of their       *)
(* students once, in order; each student who has the name of another is    *)
(* reported, but for one; and all that was allocated for them is freed     *)
(* once (do_links(), sortroster(), checkfordups() and free_students()).    *)
RosterIsWhole ==
  LastAssignment > 0 =>
    /\ phase = "freeing" =>
         \A x \in 0 .. LastSection :
           LET seq == Roster(x)
           IN  /\ ToSet(seq) = {s \in Everybody : x = Course \/ students[s].section = x}
               /\ IsInjective(seq)
               /\ Sorted(seq, ByKey)
    /\ phase = "freeing" =>
         Cardinality(dups) = Len(students) - Cardinality({FullName(s) : s \in Everybody})
    /\ phase = "exit" => ToSet(freed) = Everybody /\ IsInjective(freed)

(* What the reports show is within bounds and complete: the columns of     *)
(* each histogram hold everybody, the quantiles of a summary increase and  *)
(* lie between the least and the greatest score, no percentile reaches     *)
(* 100, and a score in the table is one of those listed for the student.   *)
ReportsAreInBounds ==
  phase = "freeing" /\ opts.reports = AllReports /\ opts.mode = "report" =>
    /\ LET h == printed["histos"]
           total(bins) == MapThenSumSet(LAMBDA col : bins[col], DOMAIN bins)
       IN  /\ total(h.composites) = Len(printed["composites"])
           /\ \A a \in DOMAIN course.assignments :
                total(h.assignments[a]) = Cardinality(Counted(a, 0))
    /\ \A g \in DOMAIN printed["summaries"] :
         LET summary == printed["summaries"][g]
             grades == {GradeOf(c) : c \in Counted(g[1], g[2])}
         IN  grades # {} =>
               /\ \A q \in DOMAIN summary :
                    Min(grades) <= summary[q] /\ summary[q] <= Max(grades)
               /\ \A q, r \in DOMAIN summary : q < r => summary[q] <= summary[r]
    /\ \A g \in DOMAIN printed["quants"] : \A k \in DOMAIN printed["quants"][g] :
         printed["quants"][g][k][2] < 100 * One
    /\ \A s \in DOMAIN printed["tabsep"] : \A a \in DOMAIN course.assignments :
         printed["tabsep"][s][a] # <<>> =>
           \E i \in DOMAIN printed["indivs"][s] :
             printed["indivs"][s][i].raw = printed["tabsep"][s][a]

(* The program never does what C leaves undefined except for the causes    *)
(* that are known: an Ifile freed too early on a fatal error, statistics   *)
(* freed when there is a single assignment, collated data without a        *)
(* professor, and a histogram of negative scores.                          *)
UndefinedIsExplained ==
  phase = "undefined" =>
    \/ reader.fatal
    \/ LastAssignment = 1
    \/ opts.mode = "collate" /\ course.professor = Nobody
    \/ /\ "histos" \in opts.reports
       /\ \E a \in DOMAIN course.assignments :
            \E c \in Counted(a, 0) : GradeOf(c) < 0

(* Whatever it is started on, the program ends: reading always goes on     *)
(* and the quicksort halves what it is given, however many are equal       *)
(* (partition() puts those like the pivot on both sides in turns).         *)
ProgramEnds == <>Over
=============================================================================
