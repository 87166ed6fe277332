------------------------------ MODULE GradeRead ------------------------------
(***************************************************************************)
(* read.c of hw2: reading the description of a course, its assignments,    *)
(* sections, students and scores, from a file and the files it names.      *)
(*                                                                         *)
(* A file is a sequence of lexemes: words, SP for white space, NL for the  *)
(* end of a line.  "#" is the character that begins a comment when it      *)
(* begins a line, and part of a word elsewhere.  Words that touch are one  *)
(* token, as in the code.  What the readahead buffer holds is a sequence   *)
(* of lexemes that ends with NUL, and the buffer is empty when it is <<>>. *)
(*                                                                         *)
(* Reading is sequential; each action is one turn of a loop or one call in *)
(* the recursion of the code, up to the choice of the next one.            *)
(*                                                                         *)
(* read.c includes free.h, by way of which debug.h redefines error() as a  *)
(* macro that counts nothing (debug.h:78-86), so the variable errors stays *)
(* 0 whatever is read.  complaints counts the calls; nothing reads it but  *)
(* the properties.                                                         *)
(***************************************************************************)
EXTENDS GradeSort, SequencesExt

CONSTANTS Inputs,     \* what the program may be started on
          Number,     \* the value of each word that reads as a number
          One,        \* how many units a value of 1.0 is
          Unset,      \* stands for a value that was never set
          MaxOpen     \* how many files may be open

(* A value is a multiple of 2*EPSILON, the least the code divides by.      *)
ASSUME ReadAssumption ==
  /\ One \in Nat \ {0}
  /\ MaxOpen \in Nat \ {0}
  /\ Student = 1 .. Cardinality(Student)

SP == " "
NL == "\n"
Hash == "#"
NUL == "NUL"

VARIABLES
  phase,     \* what the program is doing
  files,     \* the files there are: a text for each name
  reader,    \* readahead buffer, texts of the open files, complaints
  course,    \* number, title, professor, assignments and sections
  students   \* who was read so far, with their raw scores

readVars == <<phase, files, reader, course, students>>

-----------------------------------------------------------------------------
(* The reader.  Operators whose names are functions of read.c return the   *)
(* state of the reader after the call.                                     *)
IsToken(r) == r.tok # <<>>
FlushToken(r) == [r EXCEPT !.tok = <<>>]
Error(r) == [r EXCEPT !.complaints = @ + 1]
Fatal(r) == [r EXCEPT !.fatal = TRUE]

Text(r) == Head(r.texts)
Rest(r, k) == [r EXCEPT !.texts = <<SubSeq(Text(r), k, Len(Text(r)))>>
                                    \o Tail(r.texts)]

(* Where the first lexeme is that is not, or is, one of S; behind the text *)
(* if there is none.                                                       *)
FirstNotIn(text, k, S) ==
  CHOOSE j \in k .. Len(text) + 1 :
    /\ \A i \in k .. j - 1 : text[i] \in S
    /\ j <= Len(text) => text[j] \notin S
FirstIn(text, k, S) ==
  CHOOSE j \in k .. Len(text) + 1 :
    /\ \A i \in k .. j - 1 : text[i] \notin S
    /\ j <= Len(text) => text[j] \in S

AtEnd(r) == Text(r) = <<>>
AtNewline(r) == ~AtEnd(r) /\ Head(Text(r)) = NL

GobbleWhitespace(r) ==
  IF IsToken(r) THEN r ELSE Rest(r, FirstNotIn(Text(r), 1, {SP}))

(* Comments and empty lines from k on.  White space at the beginning of a  *)
(* line is skipped after an empty line only, so behind a comment, or at    *)
(* the beginning of the file, it hides that the line is empty.  A comment  *)
(* without an end of line gives 0.                                         *)
RECURSIVE AfterBlankLines(_, _)
AfterBlankLines(text, k) ==
  IF k > Len(text) THEN k
  ELSE IF text[k] = Hash
       THEN LET j == FirstIn(text, k, {NL})
            IN  IF j > Len(text) THEN 0 ELSE AfterBlankLines(text, j + 1)
  ELSE IF text[k] = NL
       THEN AfterBlankLines(text, FirstNotIn(text, k + 1, {SP}))
  ELSE k

GobbleBlankLines(r) ==
  IF IsToken(r) THEN r
  ELSE LET k == AfterBlankLines(Text(r), 1)
       IN  IF k = 0 THEN Fatal(r) ELSE Rest(r, k)

(* The buffer becomes empty first, whatever it held.                       *)
Emptied(r) == FlushToken(IF IsToken(r) THEN Error(r) ELSE r)

AdvanceToken(r) ==
  LET s == GobbleWhitespace(Emptied(r))
      k == FirstIn(Text(s), 1, {SP, NL})
  IN  IF k = 1 THEN s
      ELSE [Rest(s, k) EXCEPT !.tok = SubSeq(Text(s), 1, k - 1) \o <<NUL>>]

AdvanceEol(r) ==
  LET s == GobbleWhitespace(Emptied(r))
      k == FirstIn(Text(s), 1, {NL})
      t == [Rest(s, k) EXCEPT !.tok = SubSeq(Text(s), 1, k - 1) \o <<NUL>>]
  IN  IF k > Len(Text(s)) THEN Fatal(t) ELSE t

Ahead(r) == IF IsToken(r) THEN r ELSE AdvanceToken(r)

Matches(r, key) == Ahead(r).tok = <<key, NUL>>

(* checktoken() is Matches together with this.                             *)
CheckToken(r, key) == IF Matches(r, key) THEN FlushToken(Ahead(r)) ELSE Ahead(r)

ExpectToken(r, key) ==
  IF Matches(r, key) THEN FlushToken(Ahead(r)) ELSE Error(Ahead(r))

(* nextchar() until the end of the line.                                   *)
ScanAhead(r) ==
  LET k == FirstIn(Text(r), 1, {NL})
  IN  IF k > Len(Text(r)) THEN Fatal(r) ELSE Rest(r, k + 1)

(* Mutant: comments and empty lines behind the line are not skipped.       *)
ExpectNewlineOnly(r) ==
  LET s == GobbleWhitespace(r)
  IN  IF IsToken(s) THEN ScanAhead(FlushToken(Error(s)))
      ELSE IF AtEnd(s) THEN Fatal(s)
      ELSE IF AtNewline(s) THEN Rest(s, 2)
      ELSE ScanAhead(Error(s))

ExpectNewline(r) ==
  LET s == GobbleWhitespace(r)
  IN  IF IsToken(s) THEN ScanAhead(FlushToken(Error(s)))
      ELSE IF AtEnd(s) THEN Fatal(s)
      ELSE IF AtNewline(s) THEN GobbleBlankLines(Rest(s, 2))
      ELSE ScanAhead(Error(s))

PreviousFile(r) == [r EXCEPT !.texts = Tail(@)]
NoPrevious(r) == Len(r.texts) = 1

(* Mutant: excess input is not complained of.                              *)
ExpectEofSilently(r) == [FlushToken(r) EXCEPT !.texts = <<Last(@)>>]

(* Excess input is only skipped in the included files.                     *)
ExpectEof(r) ==
  IF ~IsToken(r) /\ AtEnd(r) /\ NoPrevious(r) THEN r
  ELSE [FlushToken(Error(r)) EXCEPT !.texts = <<Last(@)>>]

(* The file's name is the rest of the line.  It is opened unless too many  *)
(* files are, and its name must be one word for it to exist here.          *)
PushFile(r) ==
  LET s == AdvanceEol(r)
      t == ExpectNewline(FlushToken(s))
      n == Front(s.tok)
  IN  IF t.fatal \/ Len(t.texts) >= MaxOpen \/ Len(n) # 1 THEN Fatal(t)
      ELSE IF n[1] \notin DOMAIN files THEN Fatal(t)
      ELSE GobbleBlankLines([t EXCEPT !.texts = <<files[n[1]]>> \o @])

-----------------------------------------------------------------------------
(* readid(), readsurname() and readatype(): a token, or an empty string.   *)
Word(r) == IF IsToken(Ahead(r)) THEN Front(Ahead(r).tok) ELSE <<>>
ReadWord(r) ==
  IF IsToken(Ahead(r)) THEN FlushToken(Ahead(r)) ELSE Error(Ahead(r))

(* readname(): the rest of the line, which may be empty.                   *)
NameAt(r) == Front(AdvanceEol(r).tok)
ReadName(r) == ExpectNewline(FlushToken(AdvanceEol(r)))

(* A number where one is expected: sscanf() takes the one that the token   *)
(* begins with, whatever follows it.  Another token stays in the buffer.   *)
IsNumber(r) ==
  /\ IsToken(Ahead(r))
  /\ Ahead(r).tok[1] \in DOMAIN Number
NumberAt(r, default) ==
  IF IsNumber(r) THEN Number[Ahead(r).tok[1]] ELSE default
ReadNumber(r) ==
  IF IsNumber(r) THEN FlushToken(Ahead(r)) ELSE Error(Ahead(r))

(* readprofessor() and readassistant().                                    *)
Nobody == <<>>
NoCourse == [number |-> <<>>, title |-> <<>>, professor |-> Nobody,
             assignments |-> <<>>, sections |-> <<>>]

PersonAt(r, key) ==
  IF ~Matches(r, key) THEN Nobody
  ELSE LET s == CheckToken(r, key) IN <<Word(s), NameAt(ReadWord(s))>>
ReadPerson(r, key) ==
  LET s == CheckToken(r, key)
  IN  IF Matches(r, key) THEN ReadName(ReadWord(s)) ELSE s

-----------------------------------------------------------------------------
(* The data that is read.  A score's flag is VALID when its subst is "".   *)
NewAssignment(name, atype) ==
  [name |-> name, atype |-> atype, wpolicy |-> "NOWEIGHT", weight |-> 0,
   npolicy |-> "RAW", ngroup |-> "BYCLASS", max |-> 0, mean |-> Unset,
   stddev |-> Unset, scale |-> Unset]

Substitutions == {"USERAW", "USENORM", "USELIKEAVG", "USECLASSAVG"}

LastAssignment == Len(course.assignments)
LastSection == Len(course.sections)
LastStudent == Len(students)

SetLast(field, value) ==
  course' = [course EXCEPT !.assignments[LastAssignment][field] = value]

(* After each call of the reader.  A fatal error ends the program with a   *)
(* failure, if the use of the Ifile it has just freed, or of the link of a *)
(* score that was never set, does not end it in another way.               *)
Continue(r, next) ==
  /\ reader' = r
  /\ IF r.fatal THEN phase' \in {"failed", "undefined"} ELSE phase' = next

(* readfile() and readcourse() up to the assignments.                      *)
ReadCourse ==
  /\ phase = "course"
  /\ LET r1 == ExpectToken(GobbleBlankLines(reader), "COURSE")
         r2 == ReadWord(r1)
         r3 == ReadName(r2)
     IN  /\ course' = [number |-> Word(r1), title |-> NameAt(r2),
                       professor |-> PersonAt(r3, "PROFESSOR"),
                       assignments |-> <<>>, sections |-> <<>>]
         /\ Continue(ReadPerson(r3, "PROFESSOR"), "assignments")
  /\ UNCHANGED <<files, students>>

ReadAssignment ==
  /\ phase = "assignments"
  /\ Matches(reader, "ASSIGNMENT")
  /\ LET r1 == CheckToken(reader, "ASSIGNMENT")
         r2 == ReadWord(r1)
     IN  /\ course' = [course EXCEPT !.assignments =
                         Append(@, NewAssignment(Word(r1), Word(r2)))]
         /\ Continue(ExpectNewline(ReadWord(r2)), "options")
  /\ UNCHANGED <<files, students>>

ReadWeight ==
  /\ phase = "options"
  /\ Matches(reader, "WEIGHT")
  /\ LET r == CheckToken(reader, "WEIGHT")
     IN  /\ course' = [course EXCEPT
              !.assignments[LastAssignment].wpolicy =
                 IF IsNumber(r) THEN "WEIGHT" ELSE "NOWEIGHT",
              !.assignments[LastAssignment].weight = NumberAt(r, @)]
         /\ Continue(ExpectNewline(ReadNumber(r)), "options")
  /\ UNCHANGED <<files, students>>

ReadMax ==
  /\ phase = "options"
  /\ Matches(reader, "MAXIMUM")
  /\ LET r == CheckToken(reader, "MAXIMUM")
     IN  /\ course' = [course EXCEPT
              !.assignments[LastAssignment].max = NumberAt(r, @)]
         /\ Continue(ExpectNewline(ReadNumber(r)), "options")
  /\ UNCHANGED <<files, students>>

(* readnorm() reads words until one is none of its own; phase tells        *)
(* whether there was one.                                                  *)
StartNorm ==
  /\ phase = "options"
  /\ Matches(reader, "NORMALIZE")
  /\ Continue(CheckToken(reader, "NORMALIZE"), "first norm")
  /\ UNCHANGED <<files, course, students>>

ReadingNorm == phase \in {"first norm", "norm"}

ReadPolicy ==
  /\ ReadingNorm
  /\ \E w \in {"RAW", "QUANTILE"} :
       /\ Matches(reader, w)
       /\ SetLast("npolicy", w)
       /\ Continue(CheckToken(reader, w), "norm")
  /\ UNCHANGED <<files, students>>

ReadGroup ==
  /\ ReadingNorm
  /\ \E w \in {"BYCLASS", "BYSECTION"} :
       /\ Matches(reader, w)
       /\ SetLast("ngroup", w)
       /\ Continue(CheckToken(reader, w), "norm")
  /\ UNCHANGED <<files, students>>

ReadScale ==
  /\ ReadingNorm
  /\ Matches(reader, "SCALE")
  /\ LET r == CheckToken(reader, "SCALE")
     IN  /\ course' = [course EXCEPT
              !.assignments[LastAssignment].npolicy = "SCALE",
              !.assignments[LastAssignment].scale = NumberAt(r, 0)]
         /\ Continue(ReadNumber(r), "norm")
  /\ UNCHANGED <<files, students>>

(* STDLINEAR stands for mean 0 and deviation 1, GENLINEAR for the two that *)
(* follow it.  advancetoken() drops a mean that is not a number before it  *)
(* reads the deviation.                                                    *)
ReadLinear ==
  /\ ReadingNorm
  /\ \E w \in {"STDLINEAR", "GENLINEAR"} :
       /\ Matches(reader, w)
       /\ LET r1 == CheckToken(reader, w)
              r2 == AdvanceToken(ReadNumber(r1))
              general == w = "GENLINEAR"
          IN  /\ course' = [course EXCEPT
                   !.assignments[LastAssignment].npolicy = "LINEAR",
                   !.assignments[LastAssignment].mean =
                      IF general THEN NumberAt(r1, 0) ELSE 0,
                   !.assignments[LastAssignment].stddev =
                      IF general THEN NumberAt(r2, One) ELSE One]
              /\ Continue(IF general THEN ReadNumber(r2) ELSE r1, "norm")
  /\ UNCHANGED <<files, students>>

NormWords == {"RAW", "STDLINEAR", "GENLINEAR", "QUANTILE", "SCALE",
              "BYCLASS", "BYSECTION"}

EndNorm ==
  /\ ReadingNorm
  /\ \A w \in NormWords : ~Matches(reader, w)
  /\ IF phase = "first norm"
     THEN /\ course' = [course EXCEPT
               !.assignments[LastAssignment].npolicy = "RAW",
               !.assignments[LastAssignment].ngroup = "BYCLASS"]
          /\ Continue(ExpectNewline(Error(Ahead(reader))), "options")
     ELSE /\ course' = course
          /\ Continue(ExpectNewline(Ahead(reader)), "options")
  /\ UNCHANGED <<files, students>>

EndOptions ==
  /\ phase = "options"
  /\ \A w \in {"WEIGHT", "NORMALIZE", "MAXIMUM"} : ~Matches(reader, w)
  /\ Continue(Ahead(reader), "assignments")
  /\ UNCHANGED <<files, course, students>>

EndAssignments ==
  /\ phase = "assignments"
  /\ ~Matches(reader, "ASSIGNMENT")
  /\ Continue(Ahead(reader), "sections")
  /\ UNCHANGED <<files, course, students>>

-----------------------------------------------------------------------------
(* readsections(): without a token the file has ended, and the previous    *)
(* one goes on.                                                            *)
LeaveFile ==
  /\ phase = "sections"
  /\ ~IsToken(Ahead(reader)) /\ ~NoPrevious(reader)
  /\ Continue(PreviousFile(Ahead(reader)), "sections")
  /\ UNCHANGED <<files, course, students>>

EndSections ==
  /\ phase = "sections"
  /\ IsToken(Ahead(reader)) \/ NoPrevious(reader)
  /\ ~Matches(reader, "FILE") /\ ~Matches(reader, "SECTION")
  /\ Continue(Ahead(reader), "end of file")
  /\ UNCHANGED <<files, course, students>>

IncludeFile ==
  /\ phase = "sections"
  /\ Matches(reader, "FILE")
  /\ Continue(PushFile(CheckToken(reader, "FILE")), "sections")
  /\ UNCHANGED <<files, course, students>>

ReadSection ==
  /\ phase = "sections"
  /\ Matches(reader, "SECTION")
  /\ LET r1 == CheckToken(reader, "SECTION")
         r2 == ReadName(r1)
     IN  /\ course' = [course EXCEPT !.sections = Append(@,
              [name |-> NameAt(r1), assistant |-> PersonAt(r2, "ASSISTANT")])]
         /\ Continue(ReadPerson(r2, "ASSISTANT"), "students")
  /\ UNCHANGED <<files, students>>

(* A student goes behind the last one of the section.                      *)
EnterInSection(s, k) ==
  IF students # <<>> /\ Last(students).section = k
  THEN /\ link' = [link EXCEPT ![k][s - 1] = s]
       /\ head' = head
  ELSE /\ head' = [head EXCEPT ![k] = s]
       /\ link' = link

ReadStudent ==
  /\ phase = "students"
  /\ Matches(reader, "STUDENT")
  /\ LET r1 == CheckToken(reader, "STUDENT")
         r2 == ReadWord(r1)
         r3 == ReadWord(r2)
     IN  /\ students' = Append(students,
              [id |-> Word(r1), surname |-> Word(r2), name |-> NameAt(r3),
               section |-> LastSection, raw |-> <<>>, norm |-> <<>>,
               composite |-> 0])
         /\ EnterInSection(LastStudent + 1, LastSection)
         /\ Continue(ReadName(r3), "scores")
  /\ UNCHANGED <<files, course>>

EndStudents ==
  /\ phase = "students"
  /\ ~Matches(reader, "STUDENT")
  /\ Continue(Ahead(reader), "sections")
  /\ UNCHANGED <<files, course, students>>

(* The first assignment of a name; 0 if none has it.                       *)
AssignmentNamed(name) ==
  IF \E a \in 1 .. LastAssignment : course.assignments[a].name = name
  THEN CHOOSE a \in 1 .. LastAssignment :
         /\ course.assignments[a].name = name
         /\ \A b \in 1 .. a - 1 : course.assignments[b].name # name
  ELSE 0

(* readgrade(): a number, unless the score is substituted for.  What is    *)
(* complained of in a value that is out of range has no other effect.      *)
SubstitutionAt(r) ==
  IF \E w \in Substitutions : Matches(r, w)
  THEN CHOOSE w \in Substitutions : Matches(r, w) ELSE ""

OutOfRange(w, a, v) ==
  /\ w = "USENORM"
  /\ \/ a.npolicy = "QUANTILE" /\ (v < 0 \/ v > 100 * One)
     \/ a.npolicy = "SCALE" /\ (v < 0 \/ v > a.scale)

ReadScore ==
  /\ phase = "scores"
  /\ Matches(reader, "SCORE")
  /\ LET r1 == CheckToken(reader, "SCORE")
         a == IF IsToken(Ahead(r1)) THEN AssignmentNamed(Word(r1)) ELSE 0
         r2 == FlushToken(Ahead(r1))
         w == SubstitutionAt(r2)
         r3 == IF w = "" THEN Ahead(r2) ELSE CheckToken(r2, w)
         v == NumberAt(r3, 0)
         hasValue == w \in {"", "USERAW", "USENORM"}
         r4 == IF hasValue THEN ReadNumber(r3) ELSE r3
         r5 == IF a # 0 /\ IsNumber(r3) /\ OutOfRange(w, course.assignments[a], v)
               THEN Error(r4) ELSE r4
         r6 == IF w = "" THEN r5 ELSE AdvanceEol(r5)
     IN  IF a = 0
         THEN /\ Continue(Fatal(Ahead(r1)), "failed")
              /\ UNCHANGED students
         ELSE /\ students' = [students EXCEPT ![LastStudent].raw = Append(@,
                   [asgt |-> a, subst |-> w,
                    grade |-> IF w \in {"", "USERAW"} THEN v ELSE 0,
                    snorm |-> IF w = "USENORM" THEN v ELSE 0,
                    code |-> IF w = "" THEN <<>> ELSE Front(r6.tok),
                    group |-> 0])]
              /\ Continue(ExpectNewline(IF w = "" THEN r6 ELSE FlushToken(r6)),
                          "scores")
  /\ UNCHANGED <<files, course>>

EndScores ==
  /\ phase = "scores"
  /\ ~Matches(reader, "SCORE")
  /\ Continue(Ahead(reader), "students")
  /\ UNCHANGED <<files, course, students>>

(* The rest of readfile().                                                 *)
EndOfFile ==
  /\ phase = "end of file"
  /\ LET r == GobbleBlankLines(reader)
     IN  Continue(IF r.fatal THEN r ELSE ExpectEof(r), "statistics")
  /\ UNCHANGED <<files, course, students>>

ReadNext ==
  \/ /\ \/ ReadCourse \/ ReadAssignment \/ ReadWeight \/ ReadMax \/ StartNorm
        \/ ReadPolicy \/ ReadGroup \/ ReadScale \/ ReadLinear \/ EndNorm
        \/ EndOptions \/ EndAssignments
        \/ LeaveFile \/ EndSections \/ IncludeFile \/ ReadSection
        \/ EndStudents \/ ReadScore \/ EndScores \/ EndOfFile
     /\ UNCHANGED <<head, link>>
  \/ ReadStudent
=============================================================================
