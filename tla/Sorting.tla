------------------------------ MODULE Sorting ------------------------------
(* How listfiles() puts a list of Files in order: qsort() calls one of the     *)
(* comparators of file.c, which asks the kernel about Files it has not asked   *)
(* about before, while the files change; then the rows are made from the same  *)
(* Files.                                                                      *)
EXTENDS Integers, Sequences, Functions

CONSTANTS
    N,              \* how many Files are listed
    NameRanks,      \* the orders strcoll(), or strverscmp(), may put names in
    Values,         \* sizes or times
    Unknown,        \* a File that cannot be stat'd; a birth time of 0
    Unasked,        \* a File that was not stat'd yet
    MaxChanges,     \* how often a file changes
    MaxShortages    \* how often malloc() fails

ASSUME SortingAssumption ==
    /\ N \in Nat \ {0} /\ MaxChanges \in Nat /\ MaxShortages \in Nat
    /\ NameRanks \subseteq [1..N -> Nat]
    /\ Values \subseteq Nat
    /\ Unknown \notin Nat /\ Unasked \notin Nat /\ Unknown # Unasked

Files == 1..N       \* in the order of the directory

VARIABLES
    compare,        \* options->compare: by the "name", a "stat" value, the
                    \* "btime", or not at all: "none"
    reverse,        \* options->reverse
    rank,           \* the names' order
    kernel,         \* what lstat(2), or statx(2), would tell of a File now
    pstat,          \* what each File remembers
    pc,             \* "sort", "compare" inside a comparator, "show", "done"
    files,          \* the list
    asked,          \* the Files compared ...
    first,          \* ... and what the comparator has read of the first
    answers,        \* what the comparator has told qsort()
    shown,          \* the value in each row
    changes,
    shortages

sorting == <<compare, reverse, rank>>
vars == <<compare, reverse, rank, kernel, pstat, pc, files, asked, first, answers,
          shown, changes, shortages>>

-----------------------------------------------------------------------------
(* The comparators.                                                            *)

Sign(before, after) == IF before THEN -1 ELSE IF after THEN 1 ELSE 0

\* strcoll() of the names.
CompareNames(a, b) == Sign(rank[a] < rank[b], rank[b] < rank[a])

\* Faulty: a File that is not known comes after any other, known or not.
CompareUnknownLast(ka, kb, a, b) ==
    IF ka = Unknown \/ kb = Unknown
    THEN IF ka = Unknown THEN 1 ELSE -1
    ELSE IF ka = kb THEN CompareNames(a, b) ELSE Sign(kb < ka, ka < kb)

\* comparebyatime() and its sisters, given what they read of two Files: the
\* newest or largest first, what is not known last.
Compare(ka, kb, a, b) ==
    IF ka = Unknown \/ kb = Unknown
    THEN Sign(kb = Unknown /\ ka # Unknown, ka = Unknown /\ kb # Unknown)
    ELSE IF ka = kb THEN CompareNames(a, b) ELSE Sign(kb < ka, ka < kb)

\* Faulty: nothing is remembered.
GetStatAfresh(f, got) ==
    got = kernel[f] /\ UNCHANGED <<pstat, shortages>>

\* getstat(), which remembers all but its own lack of memory.
GetStat(f, got) ==
    \/ /\ got = IF pstat[f] = Unasked THEN kernel[f] ELSE pstat[f]
       /\ pstat' = [pstat EXCEPT ![f] = got]
       /\ UNCHANGED shortages
    \/ /\ pstat[f] = Unasked /\ shortages < MaxShortages
       /\ got = Unknown
       /\ shortages' = shortages + 1
       /\ UNCHANGED pstat

\* getbtime() asks every time; 0 stands for a failed statx() as well.
GetBtime(f, got) == got = kernel[f] /\ UNCHANGED <<pstat, shortages>>

Read(f, got) == IF compare = "btime" THEN GetBtime(f, got) ELSE GetStat(f, got)

-----------------------------------------------------------------------------
(* qsort(), which may compare any two Files, and any once more the other way   *)
(* round, and in the end has compared each with the next.                      *)

Told(a, b, sign) == [a |-> a, b |-> b, sign |-> sign]

NotAfter(a, b) == \E t \in answers : \/ t.a = a /\ t.b = b /\ t.sign <= 0
                                     \/ t.a = b /\ t.b = a /\ t.sign >= 0
Before(a, b) == \E t \in answers : \/ t.a = a /\ t.b = b /\ t.sign < 0
                                   \/ t.a = b /\ t.b = a /\ t.sign > 0

\* qsort() picks two Files; the comparator reads the first ...
Ask ==
    /\ pc = "sort" /\ compare # "none"
    /\ \E a, b \in Files, got \in Values \cup {Unknown} :
        /\ a # b /\ \A t \in answers : <<t.a, t.b>> # <<a, b>>
        /\ asked' = <<a, b>>
        /\ IF compare = "name"
           THEN first' = Unknown /\ UNCHANGED <<pstat, shortages>>
           ELSE Read(a, got) /\ first' = got
    /\ pc' = "compare"
    /\ UNCHANGED <<sorting, kernel, files, answers, shown, changes>>

\* ... then the second, and tells.
Answer ==
    /\ pc = "compare"
    /\ LET a == asked[1]
           b == asked[2]
       IN  \E got \in Values \cup {Unknown} :
            IF compare = "name"
            THEN /\ answers' = answers \cup {Told(a, b, CompareNames(a, b))}
                 /\ UNCHANGED <<pstat, shortages>>
            ELSE /\ Read(b, got)
                 /\ answers' = answers \cup {Told(a, b, Compare(first, got, a, b))}
    /\ asked' = << >> /\ first' = Unknown
    /\ pc' = "sort"
    /\ UNCHANGED <<sorting, kernel, files, shown, changes>>

\* Faulty: an element is overwritten before it is moved.
ReversedInPlace(s) ==
    [i \in DOMAIN s |-> IF 2 * i <= Len(s) THEN s[Len(s) + 1 - i] ELSE s[i]]

\* reverselist()
Reversed(s) == [i \in DOMAIN s |-> s[Len(s) + 1 - i]]

\* qsort() returns, and listfiles() turns the list round for -r.
Return ==
    /\ pc = "sort" /\ compare # "none"
    /\ \E order \in {s \in [Files -> Files] : IsInjective(s)} :
        /\ \A i \in 1..(N - 1) : NotAfter(order[i], order[i + 1])
        /\ files' = IF reverse THEN Reversed(order) ELSE order
    /\ pc' = "show"
    /\ UNCHANGED <<sorting, kernel, pstat, asked, first, answers, shown, changes, shortages>>

\* sortfiles() without a comparator, for which setoptions() cleared reverse.
DoNotSort ==
    /\ pc = "sort" /\ compare = "none"
    /\ files' = IF reverse THEN Reversed(files) ELSE files
    /\ pc' = "show"
    /\ UNCHANGED <<sorting, kernel, pstat, asked, first, answers, shown, changes, shortages>>

\* getfilefields() of the next File.  What is shown of a time of birth is asked
\* for again.  Without -L, that is: with it a row has the values of the link's
\* target (filefields.c:77-86), which nothing was sorted by.
ShowRow ==
    /\ pc = "show"
    /\ \E got \in Values \cup {Unknown} :
        Read(files[Len(shown) + 1], got) /\ shown' = Append(shown, got)
    /\ pc' = IF Len(shown') = N THEN "done" ELSE "show"
    /\ UNCHANGED <<sorting, kernel, files, asked, first, answers, changes>>

\* A file is written to, removed or replaced.
Change ==
    /\ changes < MaxChanges
    /\ \E f \in Files, v \in Values \cup {Unknown} :
        kernel[f] # v /\ kernel' = [kernel EXCEPT ![f] = v]
    /\ changes' = changes + 1
    /\ UNCHANGED <<sorting, pstat, pc, files, asked, first, answers, shown, shortages>>

\* What setoptions() makes of the flags: what is not sorted is not reversed.
Options(by, r) ==
    /\ compare = by
    /\ reverse = (r /\ by # "none")

Init ==
    /\ \E by \in {"name", "stat", "btime", "none"}, r \in BOOLEAN : Options(by, r)
    /\ rank \in NameRanks
    /\ kernel \in [Files -> Values \cup {Unknown}]
    /\ pstat = [f \in Files |-> Unasked]
    /\ pc = "sort" /\ files = [i \in Files |-> i]
    /\ asked = << >> /\ first = Unknown /\ answers = {} /\ shown = << >>
    /\ changes = 0 /\ shortages = 0

Program == Ask \/ Answer \/ Return \/ DoNotSort \/ ShowRow

Terminated == pc = "done" /\ UNCHANGED vars

Next == Program \/ (pc # "done" /\ Change) \/ Terminated

Spec == Init /\ [][Next]_vars

-----------------------------------------------------------------------------
(* What must hold.                                                             *)

TypeOK ==
    /\ compare \in {"name", "stat", "btime", "none"} /\ reverse \in BOOLEAN
    /\ rank \in NameRanks
    /\ kernel \in [Files -> Values \cup {Unknown}]
    /\ pstat \in [Files -> Values \cup {Unknown, Unasked}]
    /\ pc \in {"sort", "compare", "show", "done"}
    /\ files \in [Files -> Files] /\ IsInjective(files)
    /\ asked \in IF pc = "compare" THEN Files \X Files ELSE {<< >>}
    /\ first \in Values \cup {Unknown}
    /\ answers \subseteq [a: Files, b: Files, sign: {-1, 0, 1}]
    /\ shown \in Seq(Values \cup {Unknown})
    /\ changes \in 0..MaxChanges /\ shortages \in 0..MaxShortages

\* What every answer rests on stays as it is: while memory lasts, and no birth
\* time changes, which is asked for at each comparison (file.c:432-447).
Steady == shortages = 0 /\ (compare = "btime" => changes = 0)

\* qsort() is undefined with a comparator that contradicts itself.  Whatever it
\* asks, although files change and disappear during the sort and some cannot be
\* stat'd, no two answers are contrary and no three go in a circle
\* (file.c:388-528, 229-253).
NoContradiction ==
    Steady =>
        \A a, b, c \in Files :
            NotAfter(a, b) =>
                /\ ~Before(b, a)
                /\ NotAfter(b, c) => ~Before(c, a)

\* The rows, whose values are asked for after the sort, are in the order asked
\* for: newest or largest first, then by name, what is unknown last; all of it
\* reversed with -r; as in the directory without a sort, -r or not
\* (SPEC.md:99-127).  It says nothing of rows that -L makes of links' targets:
\* those come in the order of the links' own values.
ShownInOrder ==
    pc = "done" /\ Steady =>
        \A i, j \in 1..N :
            LET p == IF reverse THEN j ELSE i
                q == IF reverse THEN i ELSE j
                byName == rank[files[p]] <= rank[files[q]]
            IN  i < j =>
                CASE compare = "none" -> files[i] < files[j]
                  [] compare = "name" -> byName
                  [] OTHER -> \/ shown[q] = Unknown
                              \/ /\ shown[p] # Unknown
                                 /\ \/ shown[p] > shown[q]
                                    \/ shown[p] = shown[q] /\ byName

\* "All time and size sorts fall back to alphabetical name comparison when
\* values are equal", SPEC.md:123.
TiesAreByName ==
    pc = "done" /\ compare \in {"stat", "btime"} /\ changes = 0 /\ shortages = 0 =>
        \A i, j \in 1..N :
            i < j /\ shown[i] = shown[j] =>
                IF reverse THEN rank[files[j]] <= rank[files[i]]
                           ELSE rank[files[i]] <= rank[files[j]]
=============================================================================
