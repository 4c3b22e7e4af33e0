------------------------------- MODULE Layout -------------------------------
(* How listfiles() lays out the Files it was given, once sorted: it makes one  *)
(* string of the fields of each File, padded to the widest (l.c:137-262), and  *)
(* has display.c put the strings on the screen (Columns).                      *)
EXTENDS Integers, Sequences, FiniteSetsExt

CONSTANTS
    Listings,       \* the widths of the fields of each File: << >> where the
                    \* fields could not be made, the last one NoName where only
                    \* the name could not
    NoName,
    ScreenWidths    \* widths of the screen

columnmargin == 1

ASSUME LayoutAssumption ==
    /\ NoName \notin Nat
    /\ Listings \subseteq Seq(Seq(Nat \cup {NoName})) \ {<< >>}
    /\ ScreenWidths \subseteq Nat \ {0}
    \* the options say how many fields there are
    /\ \A f \in Listings : \A i, k \in DOMAIN f :
         f[i] # << >> /\ f[k] # << >> => Len(f[i]) = Len(f[k])

VARIABLES filefields, displaymode, screenwidth, call, pc, col, line, x, printed

inputs == <<filefields, displaymode, screenwidth>>
vars == <<filefields, displaymode, screenwidth, call, pc, col, line, x, printed>>

\* What printdown() and printacross() are written for.
ProperCalls ==
    {c \in [mode: {"down", "across", "lines"}, list: Seq(Nat), stringwidth: Int,
            screenwidth: Nat] :
        /\ c.stringwidth >= -1
        /\ c.mode # "lines" => \A k \in 1..Len(c.list) : c.list[k] <= c.stringwidth}

Display == INSTANCE Columns WITH Calls <- ProperCalls

-----------------------------------------------------------------------------
\* fieldwidth(), which is 0 of a field that is NULL or missing.
FieldWidth(fields, j) ==
    IF j \notin DOMAIN fields \/ fields[j] = NoName THEN 0 ELSE fields[j]

\* getmaxfilefieldwidths(): NULL, here << >>, if the first File has no fields.
MaxFileFieldWidths ==
    [j \in DOMAIN filefields[1] |->
        Max({FieldWidth(filefields[i], j) : i \in DOMAIN filefields})]

\* Some widths and the margins between them.
Total(widths, n) ==
    IF n = 0 THEN -columnmargin
    ELSE MapThenSumSet(LAMBDA j : widths[j] + columnmargin, 1..n) - columnmargin

\* Faulty: the margins between the fields are forgotten.
FileWidthBare(widths) ==
    IF widths = << >> THEN 0 ELSE MapThenSumSet(LAMBDA j : widths[j], DOMAIN widths)

\* getfilewidth(): an array of widths ends with a 0, or at the first 0 in it.
FileWidth(widths) ==
    IF widths = << >> THEN 0
    ELSE Total(widths, Min({j \in 1..(Len(widths) + 1) :
                              j > Len(widths) \/ widths[j] = 0}) - 1)

\* Faulty: a name is never padded.
IsPaddedUnlessName(fields, j) == j < Len(fields)

\* Every field is aligned and so padded, but for the name on a line of its own.
IsPadded(fields, j) == j < Len(fields) \/ displaymode # "lines"

\* The width of the string made from the fields of one File.
StringWidth(fields, widths) ==
    Total([j \in DOMAIN fields |->
               IF IsPadded(fields, j) THEN Max({fields[j], widths[j]}) ELSE fields[j]],
          Len(fields))

\* makefilestrings(): NULL, here << >>, without widths or with a field that is
\* NULL; a File without fields has an empty string.
FileStrings(widths) ==
    IF \/ widths = << >>
       \/ \E i \in DOMAIN filefields, j \in DOMAIN widths :
            j \in DOMAIN filefields[i] /\ filefields[i][j] = NoName
    THEN << >>
    ELSE [i \in DOMAIN filefields |->
            IF filefields[i] = << >> THEN 0 ELSE StringWidth(filefields[i], widths)]

\* listfiles() makes the strings and calls the function for the display mode.
PrintStrings ==
    /\ pc = "call"
    /\ call' = [mode |-> displaymode,
                list |-> FileStrings(MaxFileFieldWidths),
                stringwidth |-> FileWidth(MaxFileFieldWidths),
                screenwidth |-> screenwidth]
    /\ pc' = IF call'.list = << >> THEN "done" ELSE displaymode
    /\ UNCHANGED <<inputs, col, line, x, printed>>

Init ==
    /\ filefields \in Listings
    /\ displaymode \in {"down", "across", "lines"}
    /\ screenwidth \in ScreenWidths
    /\ Display!Init

PrintPage == (Display!PrintDown \/ Display!PrintAcross \/ Display!PrintLines) /\ UNCHANGED inputs

Terminated == pc = "done" /\ UNCHANGED vars

Next == PrintStrings \/ PrintPage \/ Terminated

Spec == Init /\ [][Next]_vars

-----------------------------------------------------------------------------
(* What must hold.                                                             *)

\* The strings listfiles() makes are what display.c expects of them, whichever
\* fields could not be made: none wider than the width it is told, although
\* the strings and the width are worked out by different functions, one with
\* the padding of each field and one from the widths (l.c:137-262, display.c:30,
\* 74).  So what holds of Columns holds of every listing.
DisplayIsUsedProperly == Display!Spec

\* Where all fields could be made, the strings have one width, that of a
\* column, or the columns would not be straight (SPEC.md:236-239).
StringsAreEven ==
    pc # "call" /\ displaymode # "lines" /\ (\A i \in DOMAIN filefields : filefields[i] # << >>) =>
        \A k \in DOMAIN call.list : call.list[k] = call.stringwidth

\* "Column width: max_entry_width + 2 (outer margin)", SPEC.md:222.
ColumnIsAsWideAsTheWidest ==
    pc # "call" /\ displaymode # "lines" /\ call.list # << >> =>
        call.stringwidth = Max({call.list[k] : k \in DOMAIN call.list})
=============================================================================
