--------------------------- MODULE ColumnsProofs ---------------------------
(* What printdown() and printacross() do with every list, every width of its   *)
(* strings and every screen.                                                   *)
EXTENDS Columns, TLAPS

-----------------------------------------------------------------------------
(* The two rounded divisions.                                                  *)

ColWidth == call.stringwidth + outermargin

\* The column width is positive, so as many columns as fit is well defined.
LEMMA MaxColsFits ==
    ASSUME CallAssumption(call)
    PROVE  /\ ColWidth \in Nat \ {0} /\ MaxCols \in Nat \ {0}
           /\ MaxCols = 1 \/ MaxCols * ColWidth <= call.screenwidth
           /\ \A c \in Nat : c = 1 \/ c * ColWidth <= call.screenwidth => c <= MaxCols
<1> DEFINE fit == call.screenwidth \div ColWidth
<1>1. call.screenwidth \in Nat /\ call.stringwidth \in Int /\ call.stringwidth >= -1
  BY DEF CallAssumption, Call
<1>2. ColWidth \in Nat \ {0}
  BY <1>1 DEF ColWidth, outermargin
<1>3. fit \in Nat /\ fit * ColWidth <= call.screenwidth
      /\ call.screenwidth < (fit + 1) * ColWidth
  BY <1>1, <1>2
<1>4. MaxCols = IF fit = 0 THEN 1 ELSE fit
  BY DEF MaxCols, ColWidth
<1> HIDE DEF fit
<1>5. ASSUME NEW c \in Nat, c * ColWidth <= call.screenwidth PROVE c <= fit
  <2>1. c * ColWidth < (fit + 1) * ColWidth
    BY <1>1, <1>2, <1>3, <1>5
  <2>2. c < fit + 1
    BY <1>2, <1>3, <2>1
  <2> QED BY <1>3, <2>2
<1> QED BY <1>2, <1>3, <1>4, <1>5

\* ceildiv() rounds up.
LEMMA CeilDivRoundsUp ==
    ASSUME NEW num \in Nat \ {0}, NEW mult \in Nat \ {0}
    PROVE  /\ CeilDiv(num, mult) \in Nat \ {0}
           /\ num <= CeilDiv(num, mult) * mult
           /\ (CeilDiv(num, mult) - 1) * mult < num
           /\ \A c \in Nat : num <= c * mult => CeilDiv(num, mult) <= c
<1> DEFINE q == CeilDiv(num, mult)
<1>1. q \in Nat /\ num <= q * mult /\ q * mult < num + mult
  BY DEF CeilDiv
<1> HIDE DEF q
<1>2. q \in Nat \ {0}
  BY <1>1
<1>3. (q - 1) * mult < num
  BY <1>1, <1>2
<1>4. ASSUME NEW c \in Nat, num <= c * mult PROVE q <= c
  <2>1. (q - 1) * mult < c * mult
    BY <1>1, <1>2, <1>3, <1>4
  <2>2. q - 1 < c
    BY <1>1, <1>2, <2>1
  <2> QED BY <1>1, <2>2
<1> QED BY <1>1, <1>2, <1>3, <1>4 DEF q

\* printdown()'s grid holds all strings, has no row too many and fits.
LEMMA GridFits ==
    ASSUME CallAssumption(call), call.list # << >>
    PROVE  /\ len \in Nat \ {0} /\ Rows \in Nat \ {0} /\ Cols \in Nat \ {0}
           /\ len <= Cols * Rows
           /\ (Rows - 1) * MaxCols < len
           /\ Cols <= MaxCols
<1>1. len \in Nat \ {0} /\ MaxCols \in Nat \ {0}
  BY MaxColsFits DEF CallAssumption, Call, len
<1>2. /\ Rows \in Nat \ {0} /\ len <= Rows * MaxCols /\ (Rows - 1) * MaxCols < len
  BY <1>1, CeilDivRoundsUp DEF Rows
<1>3. Cols \in Nat \ {0} /\ len <= Cols * Rows
      /\ \A c \in Nat : len <= c * Rows => Cols <= c
  BY <1>1, <1>2, CeilDivRoundsUp DEF Cols
<1>4. len <= MaxCols * Rows
  BY <1>1, <1>2
<1> QED BY <1>1, <1>2, <1>3, <1>4

\* The same of a call about to be made.
LEMMA NextGridFits ==
    CallAssumption(call)' /\ call'.list # << >> =>
        /\ len' \in Nat \ {0} /\ Rows' \in Nat \ {0} /\ Cols' \in Nat \ {0}
        /\ MaxCols' \in Nat \ {0}
<1> DEFINE P == CallAssumption(call) /\ call.list # << >>
           Q == /\ len \in Nat \ {0} /\ Rows \in Nat \ {0} /\ Cols \in Nat \ {0}
                /\ MaxCols \in Nat \ {0}
<1>1. P => Q
  BY GridFits, MaxColsFits
<1> HIDE DEF P, Q
<1>2. P' => Q'
  BY <1>1, PTL
<1> QED BY <1>2 DEF P, Q

\* Each place of the grid is one string's: its row and its column.
LEMMA PlaceIsIndex ==
    ASSUME NEW rows \in Nat \ {0}, NEW c \in Nat, NEW r \in 0..(rows - 1)
    PROVE  (c * rows + r) % rows = r /\ (c * rows + r) \div rows = c
OBVIOUS

LEMMA IndexIsPlace ==
    ASSUME NEW rows \in Nat \ {0}, NEW i \in Nat
    PROVE  /\ i % rows \in 0..(rows - 1) /\ i \div rows \in Nat
           /\ i = (i \div rows) * rows + (i % rows)
OBVIOUS

-----------------------------------------------------------------------------
(* The inductive invariant.                                                    *)

RowOf(k) == (k - 1) % Rows
ColOf(k) == (k - 1) \div Rows

\* printdown() has printed the rows above this line, and this row up to col.
Passed(k) == RowOf(k) < line \/ (RowOf(k) = line /\ ColOf(k) < col)

IsPrinted(k) == \E i \in DOMAIN printed : printed[i].item = k

DownInv ==
    pc = "down" =>
        /\ line < Rows /\ col < Cols
        /\ \A k \in 1..len : IsPrinted(k) <=> Passed(k)

\* The other two print the strings as they come.
InOrder == Len(printed) <= len /\ \A i \in DOMAIN printed : printed[i].item = i

AcrossInv ==
    pc = "across" =>
        InOrder /\ col < MaxCols /\ line * MaxCols + col = Len(printed)

LinesInv == pc = "lines" => InOrder /\ line = Len(printed) /\ line < len

\* The cursor is where strings that fill their columns would have moved it.
CursorInv ==
    pc \in {"down", "across"} => x <= col * ColWidth /\ (col = 0 => x = 0)

DoneInv ==
    pc = "done" /\ call.list # << >> =>
        /\ \A k \in 1..len : IsPrinted(k)
        /\ line >= 1
        /\ call.mode # "lines" => (line - 1) * MaxCols < len

NothingTwice ==
    \A i, j \in DOMAIN printed : printed[i].item = printed[j].item => i = j

CallInv == IF pc = "call" THEN call = NoCall /\ printed = << >> /\ line = 0 /\ col = 0 /\ x = 0
                          ELSE call \in Calls

Inv == /\ TypeOK /\ CallInv /\ DownInv /\ AcrossInv /\ LinesInv /\ CursorInv
       /\ DoneInv /\ NothingTwice /\ LinesFitTheScreen

-----------------------------------------------------------------------------
(* The calls' steps.                                                           *)

\* During a call its parameters are proper, and nothing derived from them moves.
LEMMA CallIsProper ==
    ASSUME Inv, pc \in {"down", "across", "lines"}
    PROVE  /\ CallAssumption(call) /\ call.list # << >> /\ call.mode = pc
           /\ call.list \in Seq(Nat) /\ len \in Nat \ {0} /\ call.screenwidth \in Nat
           /\ \A k \in 1..len : call.list[k] \in Nat
           /\ pc # "lines" => \A k \in 1..len : call.list[k] <= call.stringwidth
<1>1. call \in Calls /\ call.list # << >> /\ call.mode = pc
  BY DEF Inv, CallInv, TypeOK
<1>2. CallAssumption(call)
  BY <1>1, ColumnsAssumption
<1>3. call.list \in Seq(Nat) /\ call.screenwidth \in Nat
  BY <1>2 DEF CallAssumption, Call
<1>4. len \in Nat \ {0} /\ \A k \in 1..len : call.list[k] \in Nat
  BY <1>1, <1>3 DEF len
<1> QED BY <1>1, <1>2, <1>3, <1>4 DEF CallAssumption, len

LEMMA SameCall ==
    ASSUME UNCHANGED call
    PROVE  /\ len' = len /\ MaxCols' = MaxCols /\ Rows' = Rows /\ Cols' = Cols
           /\ ColWidth' = ColWidth
           /\ \A k : RowOf(k)' = RowOf(k) /\ ColOf(k)' = ColOf(k)
BY DEF len, MaxCols, Rows, Cols, ColWidth, RowOf, ColOf, CeilDiv

\* One more string is printed, which was not printed yet and has its place.
LEMMA PrintEffect ==
    ASSUME TypeOK, NothingTwice, LinesFitTheScreen, UNCHANGED call,
           NEW k \in 1..len, PrintString(k), ~IsPrinted(k),
           call.mode # "lines" => x = 0 \/ x + call.list[k] <= call.screenwidth
    PROVE  /\ printed' \in Seq([item: 1..len, line: Nat, x: Nat])
           /\ Len(printed') = Len(printed) + 1 /\ Len(printed) \in Nat
           /\ \A i \in DOMAIN printed' :
                \/ i \in DOMAIN printed /\ printed'[i] = printed[i]
                \/ i = Len(printed) + 1 /\ printed'[i].item = k
           /\ \A q : IsPrinted(q)' <=> IsPrinted(q) \/ q = k
           /\ NothingTwice' /\ LinesFitTheScreen'
<1> DEFINE n == Len(printed) + 1
           new == [item |-> k, line |-> line, x |-> x]
<1>1. printed \in Seq([item: 1..len, line: Nat, x: Nat]) /\ n \in Nat \ {0}
      /\ Len(printed) \in Nat
  BY DEF TypeOK
<1>2. new \in [item: 1..len, line: Nat, x: Nat]
  BY DEF TypeOK
<1>3. printed' = Append(printed, new)
  BY DEF PrintString
<1> HIDE DEF new
<1>4. /\ printed' \in Seq([item: 1..len, line: Nat, x: Nat]) /\ Len(printed') = n
      /\ DOMAIN printed' = 1..n /\ DOMAIN printed = 1..(n - 1)
      /\ \A i \in 1..(n - 1) : printed'[i] = printed[i]
      /\ printed'[n] = new
  BY <1>1, <1>2, <1>3
<1>5. new.item = k /\ new.line = line /\ new.x = x
  BY DEF new
<1> HIDE DEF n
<1>6. ASSUME NEW i \in DOMAIN printed'
      PROVE  \/ i \in DOMAIN printed /\ printed'[i] = printed[i]
             \/ i = n /\ printed'[i] = new
  <2>1. i \in 1..n
    BY <1>4
  <2>2. i \in 1..(n - 1) \/ i = n
    BY <1>1, <2>1
  <2> QED BY <1>4, <2>2
<1>7. n \in DOMAIN printed' /\ \A i \in DOMAIN printed : i \in DOMAIN printed'
  BY <1>1, <1>4
<1>8. \A q : IsPrinted(q)' <=> IsPrinted(q) \/ q = k
  BY <1>4, <1>5, <1>6, <1>7 DEF IsPrinted
<1>9. NothingTwice'
  <2> SUFFICES ASSUME NEW i \in DOMAIN printed', NEW j \in DOMAIN printed',
                      printed'[i].item = printed'[j].item
               PROVE  i = j
    BY DEF NothingTwice
  <2>1. CASE i \in DOMAIN printed /\ j \in DOMAIN printed
    BY <1>4, <2>1 DEF NothingTwice
  <2>2. CASE i = n /\ j \in DOMAIN printed
    BY <1>4, <1>5, <2>2 DEF IsPrinted
  <2>3. CASE j = n /\ i \in DOMAIN printed
    BY <1>4, <1>5, <2>3 DEF IsPrinted
  <2> QED BY <1>6, <2>1, <2>2, <2>3
<1>10. LinesFitTheScreen'
  <2> SUFFICES ASSUME call.mode # "lines", NEW i \in DOMAIN printed'
               PROVE  \/ printed'[i].x = 0
                      \/ printed'[i].x + call.list[printed'[i].item] <= call.screenwidth
    BY DEF LinesFitTheScreen
  <2>1. CASE i \in DOMAIN printed /\ printed'[i] = printed[i]
    BY <2>1 DEF LinesFitTheScreen
  <2>2. CASE i = n /\ printed'[i] = new
    BY <1>5, <2>2
  <2> QED BY <1>6, <2>1, <2>2
<1> QED BY <1>1, <1>4, <1>5, <1>6, <1>8, <1>9, <1>10 DEF n

\* A string at a column that fits does not reach beyond the screen, and leaves
\* the cursor where the next column may start.
LEMMA StringFits ==
    ASSUME Inv, pc \in {"down", "across"}, NEW k \in 1..len, col < MaxCols
    PROVE  /\ x = 0 \/ x + call.list[k] <= call.screenwidth
           /\ x + call.list[k] + outermargin \in Nat
           /\ x + call.list[k] + outermargin <= (col + 1) * ColWidth
<1>1. /\ CallAssumption(call) /\ call.list[k] \in Nat /\ call.list[k] <= call.stringwidth
      /\ x \in Nat /\ col \in Nat /\ x <= col * ColWidth /\ (col = 0 => x = 0)
      /\ call.stringwidth \in Int /\ call.screenwidth \in Nat
  BY CallIsProper DEF Inv, TypeOK, CursorInv, CallAssumption, Call
<1>2. /\ ColWidth \in Nat \ {0} /\ MaxCols \in Nat \ {0}
      /\ MaxCols = 1 \/ MaxCols * ColWidth <= call.screenwidth
  BY <1>1, MaxColsFits
<1>3. call.list[k] + outermargin <= ColWidth /\ outermargin = 2
  BY <1>1 DEF ColWidth, outermargin
<1>4. (col + 1) * ColWidth = col * ColWidth + ColWidth
  BY <1>1, <1>2
<1>5. (col + 1) * ColWidth <= MaxCols * ColWidth
  BY <1>1, <1>2
<1>6. x + call.list[k] + outermargin <= (col + 1) * ColWidth
  BY <1>1, <1>2, <1>3, <1>4
<1>7. CASE MaxCols = 1
  BY <1>1, <1>3, <1>6, <1>7
<1>8. CASE MaxCols * ColWidth <= call.screenwidth
  <2>1. x + call.list[k] <= (col + 1) * ColWidth
    BY <1>1, <1>2, <1>3, <1>6
  <2> HIDE DEF ColWidth
  <2>2. (col + 1) * ColWidth <= call.screenwidth
    BY <1>1, <1>2, <1>5, <1>8
  <2> QED BY <1>1, <1>2, <1>3, <1>6, <2>1, <2>2
<1> QED BY <1>2, <1>7, <1>8

LEMMA InitInv == Init => Inv
BY DEF Init, Inv, TypeOK, CallInv, DownInv, AcrossInv, LinesInv, CursorInv, DoneInv,
       NothingTwice, LinesFitTheScreen, NoCall, len

\* A call starts with nothing printed, and is over at once if its list is empty.
LEMMA MakeCallInv == ASSUME Inv, MakeCall PROVE Inv'
<1>1. /\ call' \in Calls /\ UNCHANGED <<col, line, x, printed>>
      /\ printed = << >> /\ line = 0 /\ col = 0 /\ x = 0
      /\ pc' = IF call'.list = << >> THEN "done" ELSE call'.mode
  BY DEF Inv, CallInv, MakeCall
<1>2. PICK c \in Calls : c = call'
  BY <1>1
<1>3. CallAssumption(c)
  BY ColumnsAssumption
<1>4. call'.mode \in {"down", "across", "lines"} /\ call'.list \in Seq(Nat) /\ len' \in Nat
  BY <1>2, <1>3 DEF CallAssumption, Call, len
<1>5. printed' = << >> /\ Len(printed') = 0 /\ DOMAIN printed' = {}
  BY <1>1
<1>6. TypeOK' /\ CallInv'
  <2>1. printed' \in Seq([item: 1..len', line: Nat, x: Nat])
    BY <1>5
  <2> QED BY <1>1, <1>4, <2>1 DEF TypeOK, CallInv
<1>7. NothingTwice' /\ LinesFitTheScreen' /\ CursorInv' /\ DoneInv'
  <2>1. CursorInv'
    <3>1. ASSUME pc' \in {"down", "across"} PROVE ColWidth' \in Int
      BY <1>2, <1>3 DEF CallAssumption, Call, ColWidth, outermargin
    <3> QED BY <1>1, <3>1 DEF CursorInv
  <2> QED BY <1>1, <1>4, <1>5, <2>1 DEF NothingTwice, LinesFitTheScreen, DoneInv
<1>8. CASE call'.list = << >>
  BY <1>1, <1>6, <1>7, <1>8 DEF Inv, DownInv, AcrossInv, LinesInv
<1>9. CASE call'.list # << >>
  <2>1. /\ len' \in Nat \ {0} /\ Rows' \in Nat \ {0} /\ Cols' \in Nat \ {0}
        /\ MaxCols' \in Nat \ {0}
    <3>1. CallAssumption(call)'
      BY <1>2, <1>3 DEF CallAssumption, Call
    <3> QED BY <1>9, <3>1, NextGridFits
  <2>2. pc' = "down" => DownInv'
    <3> HIDE DEF IsPrinted
    <3>2. \A k : ~IsPrinted(k)'
      BY <1>5 DEF IsPrinted
    <3>3. \A k \in 1..len' : ~Passed(k)'
      <4>1. ASSUME NEW k \in 1..len' PROVE (k - 1) % Rows' \in Nat /\ (k - 1) \div Rows' \in Nat
        <5>1. PICK rows \in Nat \ {0} : rows = Rows'
          BY <2>1
        <5>2. PICK n \in Nat : n = len'
          BY <2>1
        <5>3. k \in 1..n
          BY <5>2
        <5>4. (k - 1) % rows \in Nat /\ (k - 1) \div rows \in Nat
          BY <5>3
        <5> QED BY <5>1, <5>4
      <4> QED BY <1>1, <4>1 DEF Passed, RowOf, ColOf
    <3> QED BY <1>1, <2>1, <3>2, <3>3 DEF DownInv
  <2>3. DownInv'
    BY <2>2 DEF DownInv
  <2>4. AcrossInv' /\ LinesInv'
    <3>1. InOrder'
      BY <1>5, <2>1 DEF InOrder
    <3>2. PICK n \in Nat \ {0} : n = MaxCols'
      BY <2>1
    <3>3. 0 < n /\ 0 * n + 0 = 0
      OBVIOUS
    <3>4. 0 < MaxCols' /\ 0 * MaxCols' + 0 = 0
      BY <3>2, <3>3, Zenon
    <3>5. line' = 0 /\ col' = 0 /\ Len(printed') = 0
      BY <1>1, <1>5
    <3>6. 0 < len'
      <4>1. PICK m \in Nat \ {0} : m = len'
        BY <2>1
      <4>2. 0 < m
        OBVIOUS
      <4> QED BY <4>1, <4>2, Zenon
    <3> QED BY <3>1, <3>4, <3>5, <3>6, Zenon DEF AcrossInv, LinesInv
  <2> QED BY <1>6, <1>7, <2>3, <2>4 DEF Inv
<1> QED BY <1>8, <1>9
\* Places and strings of printdown()'s grid.
LEMMA DownPlaces ==
    ASSUME Inv, pc = "down"
    PROVE  /\ line \in Nat /\ col \in Nat /\ line < Rows /\ col < Cols
           /\ Rows \in Nat \ {0} /\ Cols \in Nat \ {0} /\ Index \in Nat \ {0}
           /\ \A k \in 1..len :
                /\ RowOf(k) \in 0..(Rows - 1) /\ ColOf(k) \in 0..(Cols - 1)
                /\ k - 1 = ColOf(k) * Rows + RowOf(k)
           /\ RowOf(Index) = line /\ ColOf(Index) = col
<1>1. /\ line \in Nat /\ col \in Nat /\ line < Rows /\ col < Cols
  BY DEF Inv, TypeOK, DownInv
<1>2. len \in Nat \ {0} /\ Rows \in Nat \ {0} /\ Cols \in Nat \ {0} /\ len <= Cols * Rows
  BY GridFits, CallIsProper
<1>3. Index \in Nat \ {0} /\ Index - 1 = col * Rows + line
  BY <1>1, <1>2 DEF Index
<1>4. RowOf(Index) = line /\ ColOf(Index) = col
  BY <1>1, <1>2, <1>3, PlaceIsIndex DEF RowOf, ColOf
<1>5. ASSUME NEW k \in 1..len
      PROVE  /\ RowOf(k) \in 0..(Rows - 1) /\ ColOf(k) \in 0..(Cols - 1)
             /\ k - 1 = ColOf(k) * Rows + RowOf(k)
  <2>1. /\ RowOf(k) \in 0..(Rows - 1) /\ ColOf(k) \in Nat
        /\ k - 1 = ColOf(k) * Rows + RowOf(k)
    <3>1. k - 1 \in Nat
      BY <1>2, <1>5
    <3>2. /\ (k - 1) % Rows \in 0..(Rows - 1) /\ (k - 1) \div Rows \in Nat
          /\ k - 1 = ((k - 1) \div Rows) * Rows + ((k - 1) % Rows)
      BY <1>2, <3>1, IndexIsPlace
    <3> QED BY <3>2 DEF RowOf, ColOf
  <2>2. ColOf(k) * Rows < Cols * Rows
    BY <1>2, <1>5, <2>1
  <2>3. ColOf(k) < Cols
    BY <1>2, <2>1, <2>2
  <2> QED BY <1>2, <2>1, <2>3
<1> QED BY <1>1, <1>2, <1>3, <1>4, <1>5

\* At the end of a row every string of it is printed, and at the end of the
\* last row every string.
LEMMA EndOfRow ==
    ASSUME Inv, pc = "down", NewLine, UNCHANGED call,
           pc' = IF line' = Rows THEN "done" ELSE "down",
           \A k \in 1..len : IsPrinted(k)' <=> RowOf(k) <= line
    PROVE  DownInv' /\ DoneInv' /\ CursorInv'
<1>1. line' = line + 1 /\ x' = 0 /\ col' = 0
  BY DEF NewLine
<1>2. /\ line \in Nat /\ line < Rows /\ Rows \in Nat \ {0} /\ Cols \in Nat \ {0}
      /\ \A k \in 1..len : RowOf(k) \in 0..(Rows - 1) /\ ColOf(k) \in 0..(Cols - 1)
  BY DownPlaces
<1>3. /\ len' = len /\ MaxCols' = MaxCols /\ Rows' = Rows /\ Cols' = Cols
      /\ ColWidth' = ColWidth /\ \A k : RowOf(k)' = RowOf(k) /\ ColOf(k)' = ColOf(k)
  BY SameCall
<1>4. CursorInv'
  <2>1. ColWidth \in Nat
    BY MaxColsFits, CallIsProper
  <2>2. 0 * ColWidth = 0
    BY <2>1
  <2> QED BY <1>1, <1>3, <2>1, <2>2 DEF CursorInv
<1>5. CASE line + 1 = Rows
  <2>1. \A k \in 1..len : IsPrinted(k)'
    BY <1>2, <1>5
  <2>2. (line' - 1) * MaxCols < len /\ line' >= 1
    <3>1. line' - 1 = Rows - 1 /\ line' >= 1
      BY <1>1, <1>2, <1>5
    <3> QED BY <3>1, GridFits, CallIsProper
  <2>3. DoneInv'
    BY <1>3, <2>1, <2>2 DEF DoneInv
  <2> QED BY <1>1, <1>4, <1>5, <2>3 DEF DownInv
<1>6. CASE line + 1 # Rows
  <2>1. line' < Rows /\ col' < Cols
    BY <1>1, <1>2, <1>6
  <2>2. ASSUME NEW k \in 1..len PROVE IsPrinted(k)' <=> Passed(k)'
    BY <1>1, <1>2, <1>3 DEF Passed
  <2>3. DownInv'
    BY <1>3, <2>1, <2>2 DEF DownInv
  <2> QED BY <1>1, <1>4, <1>6, <2>3 DEF DoneInv
<1> QED BY <1>5, <1>6

LEMMA PrintDownInv == ASSUME Inv, PrintDown PROVE Inv'
<1>1. /\ pc = "down" /\ UNCHANGED call
      /\ pc' = IF line' = Rows THEN "done" ELSE "down"
  BY DEF PrintDown
<1>2. /\ line \in Nat /\ col \in Nat /\ line < Rows /\ col < Cols
      /\ Rows \in Nat \ {0} /\ Cols \in Nat \ {0} /\ Index \in Nat \ {0}
      /\ \A k \in 1..len :
           /\ RowOf(k) \in 0..(Rows - 1) /\ ColOf(k) \in 0..(Cols - 1)
           /\ k - 1 = ColOf(k) * Rows + RowOf(k)
      /\ RowOf(Index) = line /\ ColOf(Index) = col
  BY <1>1, DownPlaces
<1>3. /\ len' = len /\ MaxCols' = MaxCols /\ Rows' = Rows /\ Cols' = Cols
      /\ ColWidth' = ColWidth /\ \A k : RowOf(k)' = RowOf(k) /\ ColOf(k)' = ColOf(k)
  BY <1>1, SameCall
<1>4. len \in Nat \ {0} /\ call.list # << >> /\ call.mode = "down" /\ call \in Calls
  BY <1>1, CallIsProper DEF Inv, CallInv
<1>5. \A k \in 1..len : IsPrinted(k) <=> Passed(k)
  BY <1>1 DEF Inv, DownInv
<1>6. CallInv' /\ AcrossInv' /\ LinesInv'
  BY <1>1, <1>4 DEF CallInv, AcrossInv, LinesInv
<1>7. ASSUME NEW k \in 1..len, RowOf(k) = line PROVE ColOf(k) < col \/ k >= Index
  <2>1. CASE ColOf(k) >= col
    <3>1. ColOf(k) * Rows >= col * Rows
      BY <1>2, <2>1
    <3>2. k - 1 >= col * Rows + line
      BY <1>2, <1>7, <3>1
    <3> QED BY <1>2, <3>2 DEF Index
  <2> QED BY <1>2, <2>1
<1>8. CASE Index > len
  <2>1. NewLine /\ UNCHANGED printed
    BY <1>8 DEF PrintDown
  <2>2. ASSUME NEW k \in 1..len PROVE IsPrinted(k)' <=> RowOf(k) <= line
    <3>1. Passed(k) <=> RowOf(k) <= line
      <4>1. RowOf(k) \in Nat /\ ColOf(k) \in Nat /\ line \in Nat
        BY <1>2
      <4>2. RowOf(k) = line => ColOf(k) < col
        BY <1>2, <1>4, <1>7, <1>8
      <4> QED BY <4>1, <4>2 DEF Passed
    <3> QED BY <1>5, <2>1, <3>1 DEF IsPrinted
  <2>3. DownInv' /\ DoneInv' /\ CursorInv'
    BY <1>1, <2>1, <2>2, EndOfRow
  <2>4. TypeOK'
    BY <1>1, <1>2, <1>3, <1>4, <2>1 DEF Inv, TypeOK, NewLine
  <2>5. NothingTwice' /\ LinesFitTheScreen'
    BY <1>1, <2>1 DEF Inv, NothingTwice, LinesFitTheScreen
  <2> QED BY <1>6, <2>3, <2>4, <2>5 DEF Inv
<1>9. CASE ~(Index > len)
  <2>1. Index \in 1..len /\ PrintString(Index)
    BY <1>2, <1>4, <1>9 DEF PrintDown
  <2>2. PICK k \in 1..len : k = Index
    BY <2>1
  <2>3. PrintString(k) /\ RowOf(k) = line /\ ColOf(k) = col
    BY <1>2, <2>1, <2>2
  <2>4. ~IsPrinted(k)
    BY <1>2, <1>5, <2>3 DEF Passed
  <2>5. col < MaxCols
    <3>1. Cols <= MaxCols /\ MaxCols \in Nat
      BY <1>1, CallIsProper, GridFits, MaxColsFits
    <3> QED BY <1>2, <3>1
  <2>6. /\ x = 0 \/ x + call.list[k] <= call.screenwidth
        /\ x + call.list[k] + outermargin \in Nat
        /\ x + call.list[k] + outermargin <= (col + 1) * ColWidth
    BY <1>1, <2>5, StringFits
  <2>7. /\ printed' \in Seq([item: 1..len, line: Nat, x: Nat])
        /\ \A q : IsPrinted(q)' <=> IsPrinted(q) \/ q = k
        /\ NothingTwice' /\ LinesFitTheScreen'
    BY <1>1, <2>3, <2>4, <2>6, PrintEffect DEF Inv
  <2>8. ASSUME NEW q \in 1..len, RowOf(q) = line, ColOf(q) = col PROVE q = k
    BY <1>2, <2>3, <2>8
  <2>9. CASE col = Cols - 1
    <3>1. NewLine
      BY <1>9, <2>9 DEF PrintDown
    <3>2. ASSUME NEW q \in 1..len PROVE IsPrinted(q)' <=> RowOf(q) <= line
      <4>1. IsPrinted(q)' <=> Passed(q) \/ q = k
        BY <1>5, <2>7
      <4>2. RowOf(q) = line => ColOf(q) < col \/ ColOf(q) = col
        BY <1>2, <2>9
      <4> QED BY <1>2, <2>3, <2>8, <4>1, <4>2 DEF Passed
    <3>3. DownInv' /\ DoneInv' /\ CursorInv'
      BY <1>1, <3>1, <3>2, EndOfRow
    <3>4. TypeOK'
      BY <1>1, <1>2, <1>3, <1>4, <2>7, <3>1 DEF Inv, TypeOK, NewLine
    <3> QED BY <1>6, <2>7, <3>3, <3>4 DEF Inv
  <2>10. CASE col # Cols - 1
    <3>1. /\ x' = x + call.list[k] + outermargin /\ col' = col + 1 /\ line' = line
      BY <1>9, <2>2, <2>10 DEF PrintDown, NextColumn
    <3>2. pc' = "down"
      BY <1>1, <1>2, <3>1
    <3>3. ASSUME NEW q \in 1..len PROVE IsPrinted(q)' <=> Passed(q)'
      <4>1. IsPrinted(q)' <=> Passed(q) \/ q = k
        BY <1>5, <2>7
      <4>2. Passed(q)' <=> RowOf(q) < line \/ (RowOf(q) = line /\ ColOf(q) < col + 1)
        BY <1>3, <3>1 DEF Passed
      <4>3. ColOf(q) < col + 1 <=> ColOf(q) < col \/ ColOf(q) = col
        <5>1. ColOf(q) \in Nat /\ col \in Nat
          BY <1>2
        <5> QED BY <5>1
      <4> QED BY <2>3, <2>8, <4>1, <4>2, <4>3 DEF Passed
    <3>4. DownInv'
      <4>1. line' < Rows /\ col' < Cols
        BY <1>2, <2>10, <3>1
      <4> QED BY <1>3, <3>3, <4>1 DEF DownInv
    <3>5. CursorInv' /\ DoneInv'
      BY <1>2, <1>3, <2>6, <3>1, <3>2 DEF CursorInv, DoneInv
    <3>6. TypeOK'
      BY <1>1, <1>2, <1>3, <1>4, <2>6, <2>7, <3>1, <3>2 DEF Inv, TypeOK
    <3> QED BY <1>6, <2>7, <3>4, <3>5, <3>6 DEF Inv
  <2> QED BY <2>9, <2>10
<1> QED BY <1>8, <1>9
\* Strings printed in the order of the list.
LEMMA NextInOrder ==
    ASSUME Inv, InOrder, Len(printed) < len, UNCHANGED call,
           NEW k \in 1..len, k = Len(printed) + 1, PrintString(k),
           call.mode # "lines" => x = 0 \/ x + call.list[k] <= call.screenwidth
    PROVE  /\ printed' \in Seq([item: 1..len, line: Nat, x: Nat])
           /\ Len(printed') = Len(printed) + 1
           /\ InOrder' /\ NothingTwice' /\ LinesFitTheScreen'
<1>1. printed \in Seq([item: 1..len, line: Nat, x: Nat]) /\ Len(printed) \in Nat
  BY DEF Inv, TypeOK
<1>2. ~IsPrinted(k)
  BY <1>1 DEF IsPrinted, InOrder
<1>3. /\ printed' \in Seq([item: 1..len, line: Nat, x: Nat])
      /\ Len(printed') = Len(printed) + 1
      /\ \A i \in DOMAIN printed' :
           \/ i \in DOMAIN printed /\ printed'[i] = printed[i]
           \/ i = Len(printed) + 1 /\ printed'[i].item = k
      /\ NothingTwice' /\ LinesFitTheScreen'
  BY <1>2, PrintEffect DEF Inv
<1>4. len' = len /\ Len(printed') <= len
  BY <1>1, <1>3, SameCall
<1>5. InOrder'
  BY <1>3, <1>4 DEF InOrder
<1> QED BY <1>3, <1>5

\* Once as many are printed as there are, each is.
LEMMA AllInOrder ==
    ASSUME InOrder, printed \in Seq([item: 1..len, line: Nat, x: Nat]), Len(printed) = len,
           NEW k \in 1..len
    PROVE  IsPrinted(k)
<1>1. k \in DOMAIN printed
  <2>1. DOMAIN printed = 1..Len(printed)
    OBVIOUS
  <2> QED BY <2>1
<1>2. printed[k].item = k
  BY <1>1 DEF InOrder
<1> QED BY <1>1, <1>2 DEF IsPrinted

LEMMA PrintAcrossInv == ASSUME Inv, PrintAcross PROVE Inv'
<1> DEFINE i == Len(printed)
<1>1. /\ pc = "across" /\ UNCHANGED call
      /\ line \in Nat /\ col \in Nat /\ x \in Nat
      /\ printed \in Seq([item: 1..len, line: Nat, x: Nat]) /\ i \in Nat /\ i <= len
      /\ InOrder /\ col < MaxCols /\ line * MaxCols + col = i
  BY DEF PrintAcross, Inv, TypeOK, AcrossInv, InOrder
<1>2. /\ len \in Nat \ {0} /\ call.list # << >> /\ call.mode = "across" /\ call \in Calls
      /\ MaxCols \in Nat \ {0} /\ ColWidth \in Nat
  BY <1>1, CallIsProper, MaxColsFits DEF Inv, CallInv
<1>3. len' = len /\ MaxCols' = MaxCols /\ ColWidth' = ColWidth
  BY <1>1, SameCall
<1>4. CASE i < len
  <2>1. /\ PrintString(i + 1) /\ pc' = pc
        /\ IF col + 1 = MaxCols THEN NewLine ELSE NextColumn(i + 1)
    BY <1>4 DEF PrintAcross
  <2>2. PICK k \in 1..len : k = i + 1
    BY <1>1, <1>2, <1>4
  <2>3. /\ x = 0 \/ x + call.list[k] <= call.screenwidth
        /\ x + call.list[k] + outermargin \in Nat
        /\ x + call.list[k] + outermargin <= (col + 1) * ColWidth
    BY <1>1, StringFits
  <2>4. /\ printed' \in Seq([item: 1..len, line: Nat, x: Nat])
        /\ Len(printed') = i + 1 /\ InOrder' /\ NothingTwice' /\ LinesFitTheScreen'
    BY <1>1, <1>4, <2>1, <2>2, <2>3, NextInOrder
  <2>5. CASE col + 1 = MaxCols
    <3>1. line' = line + 1 /\ x' = 0 /\ col' = 0
      BY <2>1, <2>5 DEF NewLine
    <3>2. (line + 1) * MaxCols + 0 = i + 1 /\ 0 * ColWidth = 0
      BY <1>1, <1>2, <2>5
    <3>3. AcrossInv'
      BY <1>2, <1>3, <2>4, <3>1, <3>2 DEF AcrossInv
    <3> QED BY <1>1, <1>2, <1>3, <2>1, <2>4, <3>1, <3>2, <3>3
            DEF Inv, TypeOK, CallInv, DownInv, LinesInv, CursorInv, DoneInv
  <2>6. CASE col + 1 # MaxCols
    <3>1. /\ x' = x + call.list[k] + outermargin /\ col' = col + 1 /\ line' = line
      BY <2>1, <2>2, <2>6 DEF NextColumn
    <3>2. line * MaxCols + (col + 1) = i + 1 /\ col + 1 < MaxCols
      BY <1>1, <1>2, <2>6
    <3>3. AcrossInv'
      BY <1>3, <2>4, <3>1, <3>2 DEF AcrossInv
    <3>4. CursorInv'
      BY <1>1, <1>3, <2>3, <3>1 DEF CursorInv
    <3>5. TypeOK'
      <4>1. x' \in Nat /\ col' \in Nat /\ line' \in Nat
        BY <1>1, <2>3, <3>1
      <4>2. printed' \in Seq([item: 1..len', line: Nat, x: Nat])
        BY <1>3, <2>4
      <4> QED BY <1>1, <1>2, <2>1, <4>1, <4>2 DEF TypeOK
    <3> QED BY <1>1, <1>2, <2>1, <2>4, <3>3, <3>4, <3>5
            DEF Inv, CallInv, DownInv, LinesInv, DoneInv
  <2> QED BY <2>5, <2>6
<1>5. CASE ~(i < len)
  <2>1. /\ IF col # 0 THEN NewLine ELSE UNCHANGED <<line, x, col>>
        /\ pc' = "done" /\ UNCHANGED printed
    BY <1>5 DEF PrintAcross
  <2>2. Len(printed) = len
    BY <1>1, <1>2, <1>5
  <2>3. \A k \in 1..len : IsPrinted(k)'
    BY <1>1, <2>1, <2>2, AllInOrder DEF IsPrinted
  <2>4. /\ line' >= 1 /\ line' \in Nat /\ x' \in Nat /\ col' \in Nat
        /\ (line' - 1) * MaxCols < len
    <3>1. CASE col # 0
      <4>1. line' = line + 1 /\ x' = 0 /\ col' = 0
        BY <2>1, <3>1 DEF NewLine
      <4>2. (line' - 1) * MaxCols = line * MaxCols
        BY <1>1, <1>2, <4>1
      <4>3. line * MaxCols < len
        BY <1>1, <1>2, <2>2, <3>1
      <4> QED BY <1>1, <4>1, <4>2, <4>3
    <3>2. CASE col = 0
      <4>1. line' = line /\ x' = x /\ col' = col
        BY <2>1, <3>2
      <4>2. line * MaxCols = len
        BY <1>1, <1>2, <2>2, <3>2
      <4>3. line # 0
        BY <1>1, <1>2, <4>2
      <4>4. (line - 1) * MaxCols = len - MaxCols
        BY <1>1, <1>2, <4>2
      <4> QED BY <1>1, <1>2, <4>1, <4>3, <4>4
    <3> QED BY <3>1, <3>2
  <2>5. DoneInv'
    BY <1>3, <2>3, <2>4 DEF DoneInv
  <2>6. NothingTwice' /\ LinesFitTheScreen'
    BY <1>1, <2>1 DEF Inv, NothingTwice, LinesFitTheScreen
  <2>7. TypeOK'
    BY <1>1, <1>2, <1>3, <2>1, <2>4 DEF Inv, TypeOK
  <2> QED BY <1>1, <1>2, <2>1, <2>5, <2>6, <2>7
          DEF Inv, CallInv, DownInv, AcrossInv, LinesInv, CursorInv
<1> QED BY <1>4, <1>5

LEMMA PrintLinesInv == ASSUME Inv, PrintLines PROVE Inv'
<1>1. /\ pc = "lines" /\ UNCHANGED call /\ PrintString(line + 1)
      /\ line' = line + 1 /\ x' = 0 /\ col' = 0
      /\ pc' = IF line' = len THEN "done" ELSE "lines"
      /\ line \in Nat /\ Len(printed) \in Nat
      /\ InOrder /\ line = Len(printed) /\ line < len
  BY DEF PrintLines, NewLine, Inv, TypeOK, LinesInv
<1>2. len \in Nat \ {0} /\ call.list # << >> /\ call.mode = "lines" /\ call \in Calls
  BY <1>1, CallIsProper DEF Inv, CallInv
<1>3. PICK k \in 1..len : k = line + 1
  BY <1>1, <1>2
<1>4. /\ printed' \in Seq([item: 1..len, line: Nat, x: Nat])
      /\ Len(printed') = Len(printed) + 1
      /\ InOrder' /\ NothingTwice' /\ LinesFitTheScreen'
  BY <1>1, <1>2, <1>3, NextInOrder
<1>5. len' = len
  BY <1>1, SameCall
<1>6. TypeOK' /\ CallInv' /\ DownInv' /\ AcrossInv' /\ CursorInv'
  BY <1>1, <1>2, <1>4, <1>5 DEF Inv, TypeOK, CallInv, DownInv, AcrossInv, CursorInv
<1>7. LinesInv'
  BY <1>1, <1>2, <1>4, <1>5 DEF LinesInv
<1>8. DoneInv'
  <2>1. ASSUME pc' = "done", NEW q \in 1..len PROVE IsPrinted(q)'
    <3>1. q \in DOMAIN printed'
      BY <1>1, <1>4, <2>1
    <3> QED BY <1>4, <3>1 DEF IsPrinted, InOrder
  <2> QED BY <1>1, <1>2, <1>5, <2>1 DEF DoneInv
<1> QED BY <1>4, <1>6, <1>7, <1>8 DEF Inv

LEMMA StepInv == Inv /\ [Next]_vars => Inv'
<1>1. ASSUME Inv, UNCHANGED vars PROVE Inv'
  BY <1>1, SameCall DEF vars, Inv, TypeOK, CallInv, DownInv, AcrossInv, LinesInv, CursorInv,
     DoneInv, NothingTwice, LinesFitTheScreen, InOrder, IsPrinted, Passed
<1> QED BY <1>1, MakeCallInv, PrintDownInv, PrintAcrossInv, PrintLinesInv
        DEF Next, Program, Terminated
LEMMA InvHolds == Spec => []Inv
BY InitInv, StepInv, PTL DEF Spec

-----------------------------------------------------------------------------
(* What follows from it.                                                       *)

\* Every value keeps its type; in particular an Index beyond the end of the
\* list is never used, though the grid may have places for it (display.c:99).
THEOREM TypeCorrect == Spec => []TypeOK
<1>1. Inv => TypeOK
  BY DEF Inv
<1> QED BY <1>1, InvHolds, PTL

\* Every string of every list is printed once (display.c:91-113, 48-65).
THEOREM EachOnce == Spec => []EachPrintedOnce
<1>1. Inv => EachPrintedOnce
  <2> SUFFICES ASSUME Inv, pc = "done", NEW k \in 1..len PROVE IsPrinted(k)
    BY DEF Inv, NothingTwice, EachPrintedOnce, IsPrinted
  <2>1. call.list \in Seq(Nat)
    <3>1. call \in Calls
      BY DEF Inv, CallInv
    <3> QED BY <3>1, ColumnsAssumption DEF CallAssumption, Call
  <2>2. call.list # << >>
    BY <2>1 DEF len
  <2> QED BY <2>2 DEF Inv, DoneInv
<1> QED BY <1>1, InvHolds, PTL

\* Only a first column may reach beyond the screen (display.c:48, 91).
THEOREM LinesFit == Spec => []LinesFitTheScreen
<1>1. Inv => LinesFitTheScreen
  BY DEF Inv
<1> QED BY <1>1, InvHolds, PTL

\* No layout that fits has fewer lines (display.c:93-94).
THEOREM NoWaste == Spec => []NoLineIsWasted
<1>1. Inv => NoLineIsWasted
  <2> SUFFICES ASSUME Inv, pc = "done", call.mode # "lines", len > 0, NEW c \in 1..len,
                      c = 1 \/ c * ColWidth <= call.screenwidth
               PROVE  (line - 1) * c < len
    BY DEF NoLineIsWasted, ColWidth
  <2>1. call \in Calls /\ CallAssumption(call) /\ call.list \in Seq(Nat)
    <3>1. call \in Calls
      BY DEF Inv, CallInv
    <3> QED BY <3>1, ColumnsAssumption DEF CallAssumption, Call
  <2>2. len \in Nat \ {0} /\ call.list # << >>
    BY <2>1 DEF len
  <2>3. line \in Nat /\ line >= 1 /\ (line - 1) * MaxCols < len
    BY <2>2 DEF Inv, TypeOK, DoneInv
  <2>4. c \in Nat /\ c <= MaxCols /\ MaxCols \in Nat
    BY <2>1, <2>2, MaxColsFits
  <2>5. (line - 1) * c <= (line - 1) * MaxCols
    BY <2>3, <2>4
  <2>6. (line - 1) * c \in Nat /\ (line - 1) * MaxCols \in Nat
    BY <2>3, <2>4
  <2> QED BY <2>2, <2>3, <2>5, <2>6
<1> QED BY <1>1, InvHolds, PTL

-----------------------------------------------------------------------------
(* The order of the page.                                                      *)

\* The strings move the cursor as far as they should.
Even == \A k \in 1..len : call.list[k] = call.stringwidth

\* Where each function puts the k-th string: the line, and the column.
LineFor(k) ==
    CASE call.mode = "down"   -> RowOf(k)
      [] call.mode = "across" -> (k - 1) \div MaxCols
      [] OTHER                -> k - 1

ColumnFor(k) ==
    CASE call.mode = "down"   -> ColOf(k)
      [] call.mode = "across" -> (k - 1) % MaxCols
      [] OTHER                -> 0

\* p is in its place.
Placed(p) == p.line = LineFor(p.item) /\ p.x = ColumnFor(p.item) * ColWidth

AllPlaced == \A i \in DOMAIN printed : Placed(printed[i])

\* The strings printed are in their places, and so is the cursor.
OrderInv ==
    Even =>
        /\ AllPlaced
        /\ pc \in {"down", "across"} => x = col * ColWidth
        /\ pc = "lines" => x = 0

LEMMA SamePlaces ==
    ASSUME UNCHANGED call
    PROVE  /\ Even' <=> Even
           /\ AllPlaced' <=> \A i \in DOMAIN printed' : Placed(printed'[i])
<1>1. /\ len' = len /\ MaxCols' = MaxCols /\ ColWidth' = ColWidth
      /\ \A k : RowOf(k)' = RowOf(k) /\ ColOf(k)' = ColOf(k)
  BY SameCall
<1>2. AllPlaced' <=> \A i \in DOMAIN printed' : Placed(printed'[i])
  <2>1. call' = call
    OBVIOUS
  <2>2. /\ MaxCols' = MaxCols /\ ColWidth' = ColWidth /\ Rows' = Rows
    BY SameCall
  <2> HIDE DEF MaxCols, ColWidth, Rows
  <2> QED BY <2>1, <2>2, Zenon DEF AllPlaced, Placed, LineFor, ColumnFor, RowOf, ColOf
<1> QED BY <1>1, <1>2 DEF Even

\* A string printed where the cursor is, is in its place if the cursor is.
LEMMA PlaceEffect ==
    ASSUME Inv, OrderInv, Even, UNCHANGED call, NEW k \in 1..len, PrintString(k),
           line = LineFor(k), x = ColumnFor(k) * ColWidth
    PROVE  AllPlaced'
<1> DEFINE new == [item |-> k, line |-> line, x |-> x]
<1>1. Placed(new)
  BY DEF Placed
<1>2. printed' = Append(printed, new) /\ printed \in Seq([item: 1..len, line: Nat, x: Nat])
  BY DEF PrintString, Inv, TypeOK
<1> HIDE DEF new
<1>3. \A i \in DOMAIN printed' :
         (i \in DOMAIN printed /\ printed'[i] = printed[i]) \/ printed'[i] = new
  BY <1>2
<1>4. \A i \in DOMAIN printed' : Placed(printed'[i])
  BY <1>1, <1>3 DEF OrderInv, AllPlaced
<1> QED BY <1>4, SamePlaces, Zenon

\* The cursor moves to the next column's place.
LEMMA CursorMoves ==
    ASSUME Inv, pc \in {"down", "across"}, Even, NEW k \in 1..len, x = col * ColWidth
    PROVE  x + call.list[k] + outermargin = (col + 1) * ColWidth /\ 0 * ColWidth = 0
<1>1. /\ CallAssumption(call) /\ call.list[k] \in Nat /\ col \in Nat
      /\ call.list[k] = call.stringwidth
  BY CallIsProper DEF Inv, TypeOK, Even
<1>2. ColWidth \in Nat /\ ColWidth = call.list[k] + outermargin /\ outermargin = 2
  BY <1>1, MaxColsFits DEF ColWidth, outermargin
<1> QED BY <1>1, <1>2

LEMMA NoLineYet ==
    ASSUME Inv, MakeCall
    PROVE  OrderInv'
<1>1. printed' = << >> /\ x' = 0 /\ col' = 0
  BY DEF Inv, CallInv, MakeCall
<1>2. AllPlaced'
  BY <1>1 DEF AllPlaced
<1>3. 0 * ColWidth' = 0
  <2>1. call' \in Calls
    BY DEF MakeCall
  <2>2. PICK c \in Calls : c = call'
    BY <2>1
  <2>3. PICK w \in Int : w = c.stringwidth + outermargin
    BY <2>2, ColumnsAssumption DEF CallAssumption, Call, outermargin
  <2>4. 0 * w = 0
    OBVIOUS
  <2> QED BY <2>2, <2>3, <2>4 DEF ColWidth
<1> QED BY <1>1, <1>2, <1>3 DEF OrderInv

LEMMA DownKeepsOrder ==
    ASSUME Inv, OrderInv, PrintDown
    PROVE  OrderInv'
<1>1. pc = "down" /\ UNCHANGED call /\ pc' \in {"down", "done"} /\ call.mode = "down"
  BY CallIsProper DEF PrintDown
<1>2. /\ (Even' <=> Even) /\ (printed' = printed => (AllPlaced' <=> AllPlaced))
      /\ ColWidth' = ColWidth
  BY <1>1, SamePlaces, SameCall DEF AllPlaced
<1> SUFFICES ASSUME Even
             PROVE  /\ AllPlaced'
                    /\ x' = col' * ColWidth
  BY <1>1, <1>2 DEF OrderInv
<1>3. x = col * ColWidth /\ AllPlaced
  BY <1>1 DEF OrderInv
<1>4. ColWidth \in Nat /\ 0 * ColWidth = 0
  <2>1. ColWidth \in Nat
    BY <1>1, MaxColsFits, CallIsProper
  <2> QED BY <2>1
<1>5. CASE Index > len
  <2>1. printed' = printed /\ x' = 0 /\ col' = 0
    BY <1>5 DEF PrintDown, NewLine
  <2> QED BY <1>2, <1>3, <1>4, <2>1
<1>6. CASE ~(Index > len)
  <2>1. PrintString(Index) /\ IF col = Cols - 1 THEN NewLine ELSE NextColumn(Index)
    BY <1>6 DEF PrintDown
  <2>2. Index \in 1..len /\ RowOf(Index) = line /\ ColOf(Index) = col
    <3>1. Index \in Nat \ {0} /\ len \in Nat
      BY <1>1, DownPlaces, CallIsProper
    <3> QED BY <1>1, <1>6, <3>1, DownPlaces
  <2>3. line = LineFor(Index) /\ x = ColumnFor(Index) * ColWidth
    BY <1>1, <1>3, <2>2 DEF LineFor, ColumnFor
  <2>4. AllPlaced'
    BY <1>1, <2>1, <2>2, <2>3, PlaceEffect
  <2>5. x' = col' * ColWidth
    BY <1>1, <1>3, <1>4, <2>1, <2>2, CursorMoves DEF NewLine, NextColumn
  <2> QED BY <2>4, <2>5
<1> QED BY <1>5, <1>6

LEMMA AcrossKeepsOrder ==
    ASSUME Inv, OrderInv, PrintAcross
    PROVE  OrderInv'
<1> DEFINE i == Len(printed)
<1>1. /\ pc = "across" /\ UNCHANGED call /\ pc' \in {"across", "done"}
      /\ call.mode = "across"
  BY CallIsProper DEF PrintAcross
<1>2. /\ (Even' <=> Even) /\ (printed' = printed => (AllPlaced' <=> AllPlaced))
      /\ ColWidth' = ColWidth
  BY <1>1, SamePlaces, SameCall DEF AllPlaced
<1> SUFFICES ASSUME Even
             PROVE  /\ AllPlaced'
                    /\ x' = col' * ColWidth
  BY <1>1, <1>2 DEF OrderInv
<1>3. x = col * ColWidth /\ AllPlaced
  BY <1>1 DEF OrderInv
<1>4. ColWidth \in Nat /\ 0 * ColWidth = 0 /\ MaxCols \in Nat \ {0}
  <2>1. ColWidth \in Nat /\ MaxCols \in Nat \ {0}
    BY <1>1, MaxColsFits, CallIsProper
  <2> QED BY <2>1
<1>5. CASE i < len
  <2>1. PrintString(i + 1) /\ IF col + 1 = MaxCols THEN NewLine ELSE NextColumn(i + 1)
    BY <1>5 DEF PrintAcross
  <2>2. /\ line \in Nat /\ col \in Nat /\ col < MaxCols /\ line * MaxCols + col = i
        /\ i \in Nat /\ len \in Nat
    BY <1>1, CallIsProper DEF Inv, TypeOK, AcrossInv
  <2>3. i + 1 \in 1..len /\ (i + 1) - 1 = i
    BY <1>5, <2>2
  <2>4. i \div MaxCols = line /\ i % MaxCols = col
    <3>1. col \in 0..(MaxCols - 1)
      BY <1>4, <2>2
    <3> HIDE DEF i
    <3> QED BY <1>4, <2>2, <3>1, PlaceIsIndex
  <2>5. line = LineFor(i + 1) /\ x = ColumnFor(i + 1) * ColWidth
    BY <1>1, <1>3, <2>3, <2>4 DEF LineFor, ColumnFor
  <2>6. AllPlaced'
    BY <1>1, <2>1, <2>3, <2>5, PlaceEffect
  <2>7. x' = col' * ColWidth
    BY <1>1, <1>3, <1>4, <2>1, <2>3, CursorMoves DEF NewLine, NextColumn
  <2> QED BY <2>6, <2>7
<1>6. CASE ~(i < len)
  <2>1. printed' = printed /\ (col # 0 => NewLine) /\ (col = 0 => UNCHANGED <<x, col>>)
    BY <1>6 DEF PrintAcross
  <2> QED BY <1>2, <1>3, <1>4, <2>1 DEF NewLine
<1> QED BY <1>5, <1>6

LEMMA LinesKeepOrder ==
    ASSUME Inv, OrderInv, PrintLines
    PROVE  OrderInv'
<1>1. /\ pc = "lines" /\ UNCHANGED call /\ pc' \in {"lines", "done"}
      /\ call.mode = "lines" /\ PrintString(line + 1) /\ x' = 0
  BY CallIsProper DEF PrintLines, NewLine
<1>2. /\ (Even' <=> Even) /\ (printed' = printed => (AllPlaced' <=> AllPlaced))
  BY <1>1, SamePlaces DEF AllPlaced
<1> SUFFICES ASSUME Even PROVE AllPlaced'
  BY <1>1, <1>2 DEF OrderInv
<1>3. line \in Nat /\ line < len /\ len \in Nat /\ x = 0
  BY <1>1, CallIsProper DEF Inv, TypeOK, LinesInv, OrderInv
<1>4. line + 1 \in 1..len /\ (line + 1) - 1 = line
  BY <1>3
<1>5. 0 * ColWidth = 0
  <2>1. ColWidth \in Int
    BY <1>1, MaxColsFits, CallIsProper
  <2> QED BY <2>1
<1>6. line = LineFor(line + 1) /\ x = ColumnFor(line + 1) * ColWidth
  BY <1>1, <1>3, <1>4, <1>5 DEF LineFor, ColumnFor
<1> QED BY <1>1, <1>4, <1>6, PlaceEffect

LEMMA OrderStep ==
    ASSUME Inv, OrderInv, [Next]_vars
    PROVE  OrderInv'
<1>1. CASE UNCHANGED vars
  <2>1. UNCHANGED <<call, pc, col, x, printed>>
    BY <1>1 DEF vars
  <2>2. (Even' <=> Even) /\ (AllPlaced' <=> AllPlaced) /\ ColWidth' = ColWidth
    BY <2>1, SamePlaces, SameCall DEF AllPlaced
  <2> QED BY <2>1, <2>2 DEF OrderInv
<1> QED BY <1>1, NoLineYet, DownKeepsOrder, AcrossKeepsOrder, LinesKeepOrder
        DEF Next, Program, Terminated

\* Places of a grid are in the order of their columns, and in a column in that of
\* their rows.
LEMMA OrderOfPlaces ==
    ASSUME NEW rows \in Nat \ {0}, NEW c \in Nat, NEW d \in Nat,
           NEW r \in 0..(rows - 1), NEW s \in 0..(rows - 1)
    PROVE  c * rows + r < d * rows + s <=> c < d \/ (c = d /\ r < s)
<1>1. ASSUME NEW e \in Nat, NEW f \in Nat, e < f, NEW p \in 0..(rows - 1),
             NEW q \in 0..(rows - 1)
      PROVE  e * rows + p < f * rows + q
  <2>1. (e + 1) * rows <= f * rows
    BY <1>1
  <2>2. (e + 1) * rows = e * rows + rows
    OBVIOUS
  <2>3. e * rows \in Nat /\ f * rows \in Nat
    OBVIOUS
  <2> QED BY <2>1, <2>2, <2>3
<1>2. c * rows \in Nat /\ d * rows \in Nat
  OBVIOUS
<1>3. CASE c < d
  BY <1>1, <1>3
<1>4. CASE d < c
  <2>1. d * rows + s < c * rows + r
    BY <1>1, <1>4
  <2> QED BY <1>2, <1>4, <2>1
<1>5. CASE c = d
  BY <1>2, <1>5
<1> QED BY <1>3, <1>4, <1>5

LEMMA OrderOfColumns ==
    ASSUME NEW w \in Nat \ {0}, NEW c \in Nat, NEW d \in Nat
    PROVE  (c * w < d * w <=> c < d) /\ (c * w = d * w <=> c = d)
OBVIOUS

LEMMA ElementsOf == ASSUME NEW S, NEW s \in Seq(S), NEW k \in DOMAIN s PROVE s[k] \in S
  OBVIOUS

LEMMA OrderOfPage ==
    ASSUME Inv, OrderInv, Even, NEW i \in DOMAIN printed, NEW j \in DOMAIN printed,
           NEW a, NEW b, a = printed[i], b = printed[j]
    PROVE  a.item < b.item <=>
              IF call.mode = "down"
              THEN a.x < b.x \/ (a.x = b.x /\ a.line < b.line)
              ELSE a.line < b.line \/ (a.line = b.line /\ a.x < b.x)
<1>1. Placed(a) /\ Placed(b) /\ a.item \in 1..len /\ b.item \in 1..len
  <2>1. Placed(a) /\ Placed(b)
    BY DEF OrderInv, AllPlaced
  <2>2. printed \in Seq([item: 1..len, line: Nat, x: Nat])
    BY DEF Inv, TypeOK
  <2> DEFINE S == [item: 1..len, line: Nat, x: Nat]
  <2> HIDE DEF S
  <2>3. \A k \in DOMAIN printed : printed[k] \in S
    BY <2>2, ElementsOf, Zenon DEF S
  <2>4. \A k \in DOMAIN printed : printed[k].item \in 1..len
    BY <2>3 DEF S
  <2> QED BY <2>1, <2>4
<1>2. call \in Calls /\ printed # << >> /\ pc # "call"
  <2>1. printed # << >>
    OBVIOUS
  <2> QED BY <2>1 DEF Inv, CallInv
<1>3. CallAssumption(call) /\ call.list \in Seq(Nat) /\ call.mode \in {"down", "across", "lines"}
  BY <1>2, ColumnsAssumption DEF CallAssumption, Call
<1>4. call.list # << >>
  BY <1>1, <1>3 DEF len
<1>5. /\ Rows \in Nat \ {0} /\ MaxCols \in Nat \ {0} /\ ColWidth \in Nat \ {0} /\ len \in Nat
  BY <1>3, <1>4, GridFits, MaxColsFits
<1>6. PICK m, n \in Nat : m = a.item - 1 /\ n = b.item - 1
  BY <1>1, <1>5
<1>7. a.item < b.item <=> m < n
  BY <1>1, <1>5, <1>6
<1>8. CASE call.mode = "down"
  <2>1. /\ m % Rows \in 0..(Rows - 1) /\ m \div Rows \in Nat
        /\ n % Rows \in 0..(Rows - 1) /\ n \div Rows \in Nat
        /\ m = (m \div Rows) * Rows + (m % Rows) /\ n = (n \div Rows) * Rows + (n % Rows)
    BY <1>5, IndexIsPlace
  <2>2. m < n <=> m \div Rows < n \div Rows
                  \/ (m \div Rows = n \div Rows /\ m % Rows < n % Rows)
    BY <1>5, <2>1, OrderOfPlaces
  <2>3. /\ a.line = m % Rows /\ a.x = (m \div Rows) * ColWidth
        /\ b.line = n % Rows /\ b.x = (n \div Rows) * ColWidth
    BY <1>1, <1>6, <1>8 DEF Placed, LineFor, ColumnFor, RowOf, ColOf
  <2>4. (a.x < b.x <=> m \div Rows < n \div Rows) /\ (a.x = b.x <=> m \div Rows = n \div Rows)
    BY <1>5, <2>1, <2>3, OrderOfColumns
  <2> QED BY <1>7, <1>8, <2>2, <2>3, <2>4
<1>9. CASE call.mode = "across"
  <2>1. /\ m % MaxCols \in 0..(MaxCols - 1) /\ m \div MaxCols \in Nat
        /\ n % MaxCols \in 0..(MaxCols - 1) /\ n \div MaxCols \in Nat
        /\ m = (m \div MaxCols) * MaxCols + (m % MaxCols)
        /\ n = (n \div MaxCols) * MaxCols + (n % MaxCols)
    BY <1>5, IndexIsPlace
  <2>2. m < n <=> m \div MaxCols < n \div MaxCols
                  \/ (m \div MaxCols = n \div MaxCols /\ m % MaxCols < n % MaxCols)
    BY <1>5, <2>1, OrderOfPlaces
  <2>3. /\ a.line = m \div MaxCols /\ a.x = (m % MaxCols) * ColWidth
        /\ b.line = n \div MaxCols /\ b.x = (n % MaxCols) * ColWidth
    BY <1>1, <1>6, <1>9 DEF Placed, LineFor, ColumnFor
  <2>4. a.x < b.x <=> m % MaxCols < n % MaxCols
    <3>1. m % MaxCols \in Nat /\ n % MaxCols \in Nat
      BY <1>5, <2>1
    <3> QED BY <1>5, <2>3, <3>1, OrderOfColumns
  <2> QED BY <1>7, <1>9, <2>2, <2>3, <2>4
<1>10. CASE call.mode = "lines"
  <2>1. a.line = m /\ b.line = n /\ a.x = 0 * ColWidth /\ b.x = 0 * ColWidth
    BY <1>1, <1>6, <1>10 DEF Placed, LineFor, ColumnFor
  <2>2. a.x = 0 /\ b.x = 0
    BY <1>5, <2>1
  <2> QED BY <1>7, <1>10, <2>1, <2>2
<1> QED BY <1>3, <1>8, <1>9, <1>10

\* Of strings as wide as they should be the page reads down one column after the
\* other, or across one line after the other, whatever fits on the screen
\* (display.c:91-113, 48-65, SPEC.md:204-216).
THEOREM ReadsInOrder == Spec => []PageReadsInOrder
<1>1. Init => OrderInv
  BY DEF Init, OrderInv, AllPlaced
<1>2. Inv /\ OrderInv /\ [Next]_vars => OrderInv'
  BY OrderStep
<1>3. Inv /\ OrderInv => PageReadsInOrder
  BY OrderOfPage DEF PageReadsInOrder, Even
<1> QED BY <1>1, <1>2, <1>3, InvHolds, PTL DEF Spec

=============================================================================
