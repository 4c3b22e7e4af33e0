------------------------------ MODULE Columns ------------------------------
(* How a list of strings is laid out on the screen: printdown() and            *)
(* printacross() of display.c, and walklist(list, printwithnewline), which     *)
(* listfiles() calls for one string per line.  A string is its width on the    *)
(* screen; each step prints one string or ends a line.                         *)
EXTENDS Integers, Sequences, FiniteSets

CONSTANT Calls      \* the calls listfiles() may make

outermargin == 2

\* What a call is given: the function, the list (a NULL list, like an empty
\* one, prints nothing), the width of a string and that of the screen.
Call == [mode: {"down", "across", "lines"}, list: Seq(Nat), stringwidth: Int,
         screenwidth: Nat]

\* "Strings in stringlist should all move the cursor the same number of
\* characters"; those of the Files whose fields could not be made are shorter.
CallAssumption(c) ==
    /\ c \in Call
    /\ c.stringwidth >= -1      \* getfilewidth() of no fields
    /\ c.mode # "lines" => \A k \in 1..Len(c.list) : c.list[k] <= c.stringwidth

ASSUME ColumnsAssumption == \A c \in Calls : CallAssumption(c)

NoCall == [mode |-> "lines", list |-> << >>, stringwidth |-> 0, screenwidth |-> 0]

VARIABLES
    call,       \* the call being made, once there is one
    pc,         \* "call" before it, the function's mode during it, "done" after
    col,        \* the variable col of the function
    line,       \* the line the cursor is on ...
    x,          \* ... and the column of the screen
    printed     \* what was printed where, in the order of time

vars == <<call, pc, col, line, x, printed>>

len == Len(call.list)

\* Faulty: rounds up what divides evenly, too.
CeilDivPlusOne(num, mult) == num \div mult + 1

CeilDiv(num, mult) == (num + mult - 1) \div mult

\* Faulty: a column is started where none fits any more.
MaxColsPlusOne == 1 + call.screenwidth \div (call.stringwidth + outermargin)

\* How many columns fit on the screen; at least one is used.
MaxCols ==
    LET fit == call.screenwidth \div (call.stringwidth + outermargin)
    IN  IF fit = 0 THEN 1 ELSE fit

\* printdown()'s rows and cols.
Rows == CeilDiv(len, MaxCols)
Cols == CeilDiv(len, Rows)

PrintString(k) ==
    printed' = Append(printed, [item |-> k, line |-> line, x |-> x])

NewLine == line' = line + 1 /\ x' = 0 /\ col' = 0

\* The cursor is moved past the string and the margin.
NextColumn(k) ==
    /\ x' = x + call.list[k] + outermargin
    /\ col' = col + 1
    /\ UNCHANGED line

\* listfiles() calls a function, which returns at once if there is nothing to
\* print.
MakeCall ==
    /\ pc = "call"
    /\ call' \in Calls
    /\ pc' = IF call'.list = << >> THEN "done" ELSE call'.mode
    /\ UNCHANGED <<col, line, x, printed>>

\* Faulty: items are counted across the page.
IndexAcross == line * Cols + col + 1

\* Faulty: the columns are as far apart as there are columns.
IndexByCols == col * Cols + line + 1

\* The string at this row, which is this line, and column.
Index == col * Rows + line + 1

\* Faulty: the places the grid has left over are printed too.
PrintDownEveryPlace ==
    /\ pc = "down"
    /\ PrintString(Index)
    /\ IF col = Cols - 1 THEN NewLine ELSE NextColumn(Index)
    /\ pc' = IF line' = Rows THEN "done" ELSE "down"
    /\ UNCHANGED call

\* One turn of printdown()'s inner loop.
PrintDown ==
    /\ pc = "down"
    /\ IF Index > len
       THEN NewLine /\ UNCHANGED printed
       ELSE /\ PrintString(Index)
            /\ IF col = Cols - 1 THEN NewLine ELSE NextColumn(Index)
    /\ pc' = IF line' = Rows THEN "done" ELSE "down"
    /\ UNCHANGED call

\* One turn of printacross()'s loop, and the line it ends with.
PrintAcross ==
    /\ pc = "across"
    /\ LET i == Len(printed)
       IN  IF i < len
           THEN /\ PrintString(i + 1)
                /\ IF col + 1 = MaxCols THEN NewLine ELSE NextColumn(i + 1)
                /\ UNCHANGED pc
           ELSE /\ IF col # 0 THEN NewLine ELSE UNCHANGED <<line, x, col>>
                /\ pc' = "done"
                /\ UNCHANGED printed
    /\ UNCHANGED call

\* printwithnewline() of the next string.
PrintLines ==
    /\ pc = "lines"
    /\ PrintString(line + 1)
    /\ NewLine
    /\ pc' = IF line' = len THEN "done" ELSE "lines"
    /\ UNCHANGED call

Init ==
    /\ call = NoCall /\ pc = "call"
    /\ col = 0 /\ line = 0 /\ x = 0 /\ printed = << >>

Program == MakeCall \/ PrintDown \/ PrintAcross \/ PrintLines

Terminated == pc = "done" /\ UNCHANGED vars

Next == Program \/ Terminated

Spec == Init /\ [][Next]_vars

-----------------------------------------------------------------------------
(* What must hold.                                                             *)

TypeOK ==
    /\ call \in Calls \cup {NoCall}
    /\ pc \in {"call", "down", "across", "lines", "done"}
    /\ pc \in {"down", "across", "lines"} => pc = call.mode /\ call.list # << >>
    /\ col \in Nat /\ line \in Nat /\ x \in Nat
    /\ printed \in Seq([item: 1..len, line: Nat, x: Nat])

\* Rows and columns are worked out by two divisions, both rounded, and the
\* inner loop skips the places they leave over: still no string is printed
\* twice, and in the end none is left out (display.c:91-113, 48-65).
EachPrintedOnce ==
    /\ \A i, j \in DOMAIN printed : printed[i].item = printed[j].item => i = j
    /\ pc = "done" => \A k \in 1..len : \E i \in DOMAIN printed : printed[i].item = k

\* No line is longer than the screen, unless it is a single string that is
\* (SPEC.md:222-223, display.c:48, 91).
LinesFitTheScreen ==
    call.mode # "lines" =>
        \A i \in DOMAIN printed :
            LET p == printed[i]
            IN  p.x = 0 \/ p.x + call.list[p.item] <= call.screenwidth

\* Where all strings have the width they should, the page reads down one
\* column after the other, each straight, or across one line after the other
\* (SPEC.md:204-216).
PageReadsInOrder ==
    (\A k \in 1..len : call.list[k] = call.stringwidth) =>
        \A i, j \in DOMAIN printed :
            LET a == printed[i]
                b == printed[j]
            IN  a.item < b.item <=>
                    IF call.mode = "down"
                    THEN a.x < b.x \/ (a.x = b.x /\ a.line < b.line)
                    ELSE a.line < b.line \/ (a.line = b.line /\ a.x < b.x)

\* The page has no more lines than it takes: with one line less, some column
\* would not fit on the screen (SPEC.md:227-228, display.c:93-94).
NoLineIsWasted ==
    pc = "done" /\ call.mode # "lines" /\ len > 0 =>
        \A c \in 1..len :
            c = 1 \/ c * (call.stringwidth + outermargin) <= call.screenwidth =>
                (line - 1) * c < len
=============================================================================
