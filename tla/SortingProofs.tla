--------------------------- MODULE SortingProofs ----------------------------
(* What qsort() is told, for any number of Files, of any values and names.     *)
EXTENDS Sorting, TLAPS, WellFoundedInduction

-----------------------------------------------------------------------------
(* The comparators put any Files in one order.                                 *)

Key == Values \cup {Unknown}

\* Two Files' answers are opposite, whichever is first.
LEMMA CompareIsMirrored ==
    ASSUME NEW ka \in Key, NEW kb \in Key, NEW a \in Files, NEW b \in Files,
           rank \in [Files -> Nat]
    PROVE  /\ Compare(ka, kb, a, b) \in {-1, 0, 1} /\ CompareNames(a, b) \in {-1, 0, 1}
           /\ Compare(kb, ka, b, a) = -Compare(ka, kb, a, b)
           /\ CompareNames(b, a) = -CompareNames(a, b)
<1>1. /\ CompareNames(a, b) \in {-1, 0, 1} /\ CompareNames(b, a) = -CompareNames(a, b)
  BY DEF CompareNames, Sign
<1>2. CASE ka = Unknown \/ kb = Unknown
  BY <1>1, <1>2 DEF Compare, Sign
<1>3. CASE ka # Unknown /\ kb # Unknown
  <2>1. ka \in Nat /\ kb \in Nat
    BY <1>3, SortingAssumption DEF Key
  <2> QED BY <1>1, <1>3, <2>1 DEF Compare, Sign
<1> QED BY <1>2, <1>3

\* What is not after the second is not after what the second is not after.
LEMMA CompareIsTransitive ==
    ASSUME NEW ka \in Key, NEW kb \in Key, NEW kc \in Key,
           NEW a \in Files, NEW b \in Files, NEW c \in Files, rank \in [Files -> Nat]
    PROVE  /\ Compare(ka, kb, a, b) <= 0 /\ Compare(kb, kc, b, c) <= 0 =>
                Compare(ka, kc, a, c) <= 0
           /\ CompareNames(a, b) <= 0 /\ CompareNames(b, c) <= 0 => CompareNames(a, c) <= 0
<1>1. CompareNames(a, b) <= 0 /\ CompareNames(b, c) <= 0 => CompareNames(a, c) <= 0
  BY DEF CompareNames, Sign
<1>2. SUFFICES ASSUME Compare(ka, kb, a, b) <= 0, Compare(kb, kc, b, c) <= 0
               PROVE  Compare(ka, kc, a, c) <= 0
  BY <1>1
<1>3. CASE kc = Unknown
  BY <1>3 DEF Compare, Sign
<1>4. CASE kc # Unknown
  <2>1. ka # Unknown /\ kb # Unknown
    BY <1>2, <1>4 DEF Compare, Sign
  <2>2. ka \in Nat /\ kb \in Nat /\ kc \in Nat
    BY <1>4, <2>1, SortingAssumption DEF Key
  <2>3. /\ kb < ka \/ (ka = kb /\ CompareNames(a, b) <= 0)
        /\ kc < kb \/ (kb = kc /\ CompareNames(b, c) <= 0)
    BY <1>2, <1>4, <2>1, <2>2 DEF Compare, Sign
  <2>4. kc < ka \/ (ka = kc /\ CompareNames(a, c) <= 0)
    BY <1>1, <2>2, <2>3
  <2> QED BY <1>4, <2>1, <2>2, <2>4 DEF Compare, Sign
<1> QED BY <1>3, <1>4

-----------------------------------------------------------------------------
(* Types.                                                                      *)

LEMMA ReversedIsOneToOne ==
    ASSUME NEW s \in [Files -> Files], IsInjective(s)
    PROVE  Reversed(s) \in [Files -> Files] /\ IsInjective(Reversed(s))
<1>1. N \in Nat /\ DOMAIN s = 1..N /\ Len(s) = N
  BY SortingAssumption DEF Files
<1>2. ASSUME NEW i \in 1..N PROVE N + 1 - i \in 1..N
  BY <1>1
<1>3. Reversed(s) = [i \in 1..N |-> s[N + 1 - i]]
  BY <1>1 DEF Reversed
<1>4. Reversed(s) \in [Files -> Files]
  BY <1>2, <1>3 DEF Files
<1>5. ASSUME NEW i \in 1..N, NEW j \in 1..N, Reversed(s)[i] = Reversed(s)[j] PROVE i = j
  <2>1. s[N + 1 - i] = s[N + 1 - j]
    BY <1>3, <1>5
  <2>2. N + 1 - i = N + 1 - j
    BY <1>1, <1>2, <2>1 DEF IsInjective
  <2> QED BY <1>1, <2>2
<1> QED BY <1>3, <1>4, <1>5 DEF IsInjective

LEMMA TypeInit == Init => TypeOK
<1> SUFFICES ASSUME Init PROVE TypeOK
  OBVIOUS
<1>1. files \in [Files -> Files] /\ IsInjective(files)
  BY DEF Init, IsInjective
<1> QED BY <1>1, SortingAssumption DEF Init, Options, TypeOK

\* What a comparator or a row reads.
LEMMA ReadTypes ==
    ASSUME TypeOK, NEW f, NEW got \in Key, Read(f, got)
    PROVE  pstat' \in [Files -> Values \cup {Unknown, Unasked}] /\ shortages' \in 0..MaxShortages
<1>1. pstat \in [Files -> Values \cup {Unknown, Unasked}] /\ shortages \in 0..MaxShortages
  BY DEF TypeOK
<1>2. CASE UNCHANGED <<pstat, shortages>>
  BY <1>1, <1>2
<1>3. CASE pstat' = [pstat EXCEPT ![f] = got] /\ UNCHANGED shortages
  BY <1>1, <1>3 DEF Key
<1>4. CASE shortages < MaxShortages /\ shortages' = shortages + 1 /\ UNCHANGED pstat
  BY <1>1, <1>4, SortingAssumption
<1> QED BY <1>2, <1>3, <1>4 DEF Read, GetStat, GetBtime

LEMMA TypeStep == TypeOK /\ [Next]_vars => TypeOK'
<1> SUFFICES ASSUME TypeOK, [Next]_vars PROVE TypeOK'
  OBVIOUS
<1>1. CASE Ask
  BY <1>1, ReadTypes DEF Ask, TypeOK, sorting, Key
<1>2. CASE Answer
  <2>1. asked[1] \in Files /\ asked[2] \in Files /\ rank \in [Files -> Nat]
    BY <1>2, SortingAssumption DEF Answer, TypeOK, Files
  <2>2. PICK a \in Files, b \in Files : a = asked[1] /\ b = asked[2]
    BY <2>1
  <2>3. PICK got \in Key :
           IF compare = "name"
           THEN /\ answers' = answers \cup {Told(a, b, CompareNames(a, b))}
                /\ UNCHANGED <<pstat, shortages>>
           ELSE /\ Read(b, got)
                /\ answers' = answers \cup {Told(a, b, Compare(first, got, a, b))}
    BY <1>2, <2>2 DEF Answer, Key
  <2>4. CompareNames(a, b) \in {-1, 0, 1} /\ Compare(first, got, a, b) \in {-1, 0, 1}
    BY <2>1, CompareIsMirrored DEF TypeOK, Key
  <2>5. answers' \subseteq [a: Files, b: Files, sign: {-1, 0, 1}]
    BY <2>3, <2>4 DEF Told, TypeOK
  <2>6. pstat' \in [Files -> Values \cup {Unknown, Unasked}] /\ shortages' \in 0..MaxShortages
    BY <2>3, ReadTypes DEF TypeOK
  <2> QED BY <1>2, <2>5, <2>6 DEF Answer, TypeOK, sorting
<1>3. CASE Return
  <2>1. files' \in [Files -> Files] /\ IsInjective(files')
    BY <1>3, ReversedIsOneToOne DEF Return
  <2> QED BY <1>3, <2>1 DEF Return, TypeOK, sorting
<1>4. CASE DoNotSort
  <2>1. files' \in [Files -> Files] /\ IsInjective(files')
    BY <1>4, ReversedIsOneToOne DEF DoNotSort, TypeOK
  <2> QED BY <1>4, <2>1 DEF DoNotSort, TypeOK, sorting
<1>5. CASE ShowRow
  <2>1. PICK got \in Key : Read(files[Len(shown) + 1], got) /\ shown' = Append(shown, got)
    BY <1>5 DEF ShowRow, Key
  <2>2. shown' \in Seq(Values \cup {Unknown})
    BY <2>1 DEF TypeOK, Key
  <2>3. pstat' \in [Files -> Values \cup {Unknown, Unasked}] /\ shortages' \in 0..MaxShortages
    BY <2>1, ReadTypes
  <2> QED BY <1>5, <2>2, <2>3 DEF ShowRow, TypeOK, sorting
<1>6. CASE Change
  BY <1>6, SortingAssumption DEF Change, TypeOK, sorting
<1>7. CASE UNCHANGED vars
  BY <1>7 DEF vars, TypeOK
<1> QED BY <1>1, <1>2, <1>3, <1>4, <1>5, <1>6, <1>7 DEF Next, Program, Terminated

\* Every value keeps its type, and the list stays one of all Files
\* (l.c:293-304).
THEOREM TypeCorrect == Spec => []TypeOK
BY TypeInit, TypeStep, PTL DEF Spec
-----------------------------------------------------------------------------
(* The comparators do not contradict themselves.                               *)

\* What a comparator finds out about a File, once it has.
KeyOf(f) == IF compare = "btime" THEN kernel[f] ELSE pstat[f]

Asked(f) == compare = "stat" => pstat[f] # Unasked

\* The answer that what is remembered now would give.
AnswerOf(a, b) ==
    IF compare = "name" THEN CompareNames(a, b) ELSE Compare(KeyOf(a), KeyOf(b), a, b)

AnswersInv ==
    Steady => \A t \in answers : Asked(t.a) /\ Asked(t.b) /\ t.sign = AnswerOf(t.a, t.b)

FirstInv ==
    Steady /\ pc = "compare" /\ compare # "name" =>
        Asked(asked[1]) /\ first = KeyOf(asked[1])

\* Only with values to sort by is anything read during the sort.
ComparatorInv == pc = "compare" \/ answers # {} => compare # "none"

Inv == TypeOK /\ AnswersInv /\ FirstInv /\ ComparatorInv

\* Reading one File leaves what is known of the others, and of itself.
LEMMA ReadEffect ==
    ASSUME TypeOK, NEW f, NEW got \in Key, Read(f, got), Steady', compare # "name",
           compare # "none", UNCHANGED <<compare, kernel, changes>>
    PROVE  /\ Steady
           /\ f \in Files => Asked(f)' /\ got = KeyOf(f)'
           /\ \A g \in Files : Asked(g) => Asked(g)' /\ KeyOf(g)' = KeyOf(g)
<1>1. /\ pstat \in [Files -> Values \cup {Unknown, Unasked}] /\ shortages \in 0..MaxShortages
      /\ compare \in {"stat", "btime"}
  BY DEF TypeOK
<1>2. shortages' = 0 /\ shortages \in Nat
  BY <1>1, SortingAssumption DEF Steady
<1>3. got # Unasked
  BY SortingAssumption DEF Key
<1>4. CASE compare = "btime"
  BY <1>1, <1>2, <1>4 DEF Read, GetBtime, Steady, Asked, KeyOf
<1>5. CASE compare = "stat"
  <2>1. /\ got = IF pstat[f] = Unasked THEN kernel[f] ELSE pstat[f]
        /\ pstat' = [pstat EXCEPT ![f] = got]
        /\ UNCHANGED shortages
    BY <1>2, <1>5 DEF Read, GetStat
  <2> QED BY <1>1, <1>2, <1>3, <1>5, <2>1 DEF Steady, Asked, KeyOf
<1> QED BY <1>1, <1>4, <1>5

\* Answers given stay what they would be now.
LEMMA AnswersStay ==
    ASSUME Inv, Steady, UNCHANGED <<compare, rank>>,
           compare \notin {"name", "none"} =>
               \A g \in Files : Asked(g) => Asked(g)' /\ KeyOf(g)' = KeyOf(g)
    PROVE  \A t \in answers : Asked(t.a)' /\ Asked(t.b)' /\ t.sign = AnswerOf(t.a, t.b)'
<1> SUFFICES ASSUME NEW t \in answers
             PROVE  Asked(t.a)' /\ Asked(t.b)' /\ t.sign = AnswerOf(t.a, t.b)'
  OBVIOUS
<1>1. t.a \in Files /\ t.b \in Files
  BY DEF Inv, TypeOK
<1>2. Asked(t.a) /\ Asked(t.b) /\ t.sign = AnswerOf(t.a, t.b)
  BY DEF Inv, AnswersInv
<1>3. compare # "none"
  BY DEF Inv, ComparatorInv
<1>4. CASE compare = "name"
  BY <1>2, <1>4 DEF Asked, AnswerOf, CompareNames
<1>5. CASE compare # "name"
  <2>1. /\ Asked(t.a)' /\ Asked(t.b)'
        /\ KeyOf(t.a)' = KeyOf(t.a) /\ KeyOf(t.b)' = KeyOf(t.b)
    BY <1>1, <1>2, <1>3, <1>5
  <2>2. PICK a \in Files, b \in Files : a = t.a /\ b = t.b
    BY <1>1
  <2>3. AnswerOf(a, b)' = AnswerOf(a, b)
    BY <2>1, <2>2 DEF AnswerOf, Compare, CompareNames
  <2> QED BY <1>2, <2>1, <2>2, <2>3 DEF AnswerOf, Asked, KeyOf
<1> QED BY <1>4, <1>5
LEMMA InvInit == Init => Inv
BY TypeInit DEF Init, Inv, AnswersInv, FirstInv, ComparatorInv

LEMMA AskInv == ASSUME Inv, Ask PROVE AnswersInv' /\ FirstInv' /\ ComparatorInv'
<1>1. /\ compare # "none" /\ UNCHANGED <<compare, rank, kernel, answers, changes>>
      /\ TypeOK
  BY DEF Ask, sorting, Inv
<1>2. PICK a \in Files, b \in Files, got \in Key :
        /\ asked' = <<a, b>>
        /\ IF compare = "name"
           THEN first' = Unknown /\ UNCHANGED <<pstat, shortages>>
           ELSE Read(a, got) /\ first' = got
  BY DEF Ask, Key
<1>3. ComparatorInv'
  BY <1>1 DEF ComparatorInv
<1>4. CASE compare = "name"
  <2>1. Steady' => Steady
    BY <1>1, <1>2, <1>4 DEF Steady
  <2> QED BY <1>1, <1>3, <1>4, <2>1, AnswersStay DEF AnswersInv, FirstInv
<1>5. CASE compare # "name"
  <2> SUFFICES ASSUME Steady' PROVE AnswersInv' /\ FirstInv'
    BY <1>3 DEF AnswersInv, FirstInv
  <2>1. Read(a, got) /\ first' = got /\ asked'[1] = a
    BY <1>2, <1>5
  <2>2. /\ Steady
        /\ Asked(a)' /\ got = KeyOf(a)'
        /\ \A g \in Files : Asked(g) => Asked(g)' /\ KeyOf(g)' = KeyOf(g)
    BY <1>1, <1>5, <2>1, ReadEffect
  <2>3. AnswersInv'
    BY <1>1, <2>2, AnswersStay DEF AnswersInv
  <2>4. FirstInv'
    BY <2>1, <2>2 DEF FirstInv, Asked, KeyOf
  <2> QED BY <2>3, <2>4
<1> QED BY <1>3, <1>4, <1>5

LEMMA AnswerInv == ASSUME Inv, Answer PROVE AnswersInv' /\ FirstInv' /\ ComparatorInv'
<1>1. /\ pc = "compare" /\ pc' = "sort" /\ compare # "none"
      /\ UNCHANGED <<compare, rank, kernel, changes>> /\ TypeOK
      /\ asked[1] \in Files /\ asked[2] \in Files
  BY DEF Answer, sorting, Inv, ComparatorInv, TypeOK
<1>2. PICK a \in Files, b \in Files : a = asked[1] /\ b = asked[2]
  BY <1>1
<1>3. PICK got \in Key :
         IF compare = "name"
         THEN /\ answers' = answers \cup {Told(a, b, CompareNames(a, b))}
              /\ UNCHANGED <<pstat, shortages>>
         ELSE /\ Read(b, got)
              /\ answers' = answers \cup {Told(a, b, Compare(first, got, a, b))}
  BY <1>2 DEF Answer, Key
<1>4. FirstInv' /\ ComparatorInv'
  BY <1>1 DEF FirstInv, ComparatorInv
<1> SUFFICES ASSUME Steady' PROVE AnswersInv'
  BY <1>4 DEF AnswersInv
<1>5. CASE compare = "name"
  <2>1. Steady
    BY <1>1, <1>3, <1>5 DEF Steady
  <2>2. \A t \in answers : Asked(t.a)' /\ Asked(t.b)' /\ t.sign = AnswerOf(t.a, t.b)'
    BY <1>1, <1>5, <2>1, AnswersStay
  <2>3. PICK t \in {Told(a, b, CompareNames(a, b))} : TRUE
    OBVIOUS
  <2>4. t.a = a /\ t.b = b /\ t.sign = CompareNames(a, b)
    BY <2>3 DEF Told
  <2>5. Asked(t.a)' /\ Asked(t.b)' /\ t.sign = AnswerOf(t.a, t.b)'
    BY <1>1, <1>5, <2>4 DEF Asked, AnswerOf, CompareNames
  <2>6. answers' = answers \cup {t}
    BY <1>3, <1>5, <2>3
  <2> QED BY <2>2, <2>5, <2>6 DEF AnswersInv
<1>6. CASE compare # "name"
  <2>1. Read(b, got)
    BY <1>3, <1>6
  <2>2. /\ Steady
        /\ Asked(b)' /\ got = KeyOf(b)'
        /\ \A g \in Files : Asked(g) => Asked(g)' /\ KeyOf(g)' = KeyOf(g)
    BY <1>1, <1>6, <2>1, ReadEffect
  <2>3. Asked(a) /\ first = KeyOf(a)
    BY <1>1, <1>2, <1>6, <2>2 DEF Inv, FirstInv, Asked, KeyOf
  <2>4. \A t \in answers : Asked(t.a)' /\ Asked(t.b)' /\ t.sign = AnswerOf(t.a, t.b)'
    BY <1>1, <2>2, AnswersStay
  <2>5. PICK t \in {Told(a, b, Compare(first, got, a, b))} : TRUE
    OBVIOUS
  <2>6. t.a = a /\ t.b = b /\ t.sign = Compare(first, got, a, b)
    BY <2>5 DEF Told
  <2>7. Asked(a)' /\ first = KeyOf(a)'
    BY <2>2, <2>3
  <2>8. Compare(first, got, a, b) = AnswerOf(a, b)'
    BY <1>1, <1>6, <2>2, <2>7 DEF AnswerOf, Compare, CompareNames
  <2>9. Asked(t.a)' /\ Asked(t.b)' /\ t.sign = AnswerOf(t.a, t.b)'
    BY <2>2, <2>6, <2>7, <2>8 DEF Asked, AnswerOf, KeyOf
  <2>10. answers' = answers \cup {t}
    BY <1>3, <1>6, <2>5
  <2> QED BY <2>4, <2>9, <2>10 DEF AnswersInv
<1> QED BY <1>5, <1>6

LEMMA ShowInv == ASSUME Inv, ShowRow PROVE AnswersInv' /\ FirstInv' /\ ComparatorInv'
<1>1. /\ pc' # "compare" /\ UNCHANGED <<compare, rank, kernel, changes, answers>> /\ TypeOK
  BY DEF ShowRow, sorting, Inv
<1>2. FirstInv' /\ ComparatorInv'
  BY <1>1 DEF Inv, FirstInv, ComparatorInv
<1>3. PICK f \in {files[Len(shown) + 1]}, got \in Key : Read(f, got)
  BY DEF ShowRow, Key
<1> SUFFICES ASSUME Steady' PROVE AnswersInv'
  BY <1>2 DEF AnswersInv
<1>4. CASE compare \in {"name", "none"}
  <2>1. Steady
    BY <1>1, <1>3, <1>4, SortingAssumption DEF Read, GetStat, Steady, TypeOK
  <2> QED BY <1>1, <1>4, <2>1, AnswersStay DEF AnswersInv
<1>5. CASE compare \notin {"name", "none"}
  BY <1>1, <1>3, <1>5, ReadEffect, AnswersStay DEF AnswersInv
<1> QED BY <1>4, <1>5

LEMMA StepInv == Inv /\ [Next]_vars => Inv'
<1> SUFFICES ASSUME Inv, [Next]_vars PROVE Inv'
  OBVIOUS
<1>1. TypeOK'
  BY TypeStep DEF Inv
<1>2. ASSUME UNCHANGED <<compare, rank, kernel, pstat, answers, changes, shortages>>,
             pc' # "compare" \/ UNCHANGED <<pc, asked, first>>
      PROVE  AnswersInv' /\ FirstInv' /\ ComparatorInv'
  BY <1>2 DEF Inv, AnswersInv, FirstInv, ComparatorInv, Steady, Asked, KeyOf, AnswerOf,
              Compare, CompareNames
<1>3. ASSUME Change PROVE AnswersInv' /\ FirstInv' /\ ComparatorInv'
  <2>1. UNCHANGED <<compare, rank, pstat, answers, shortages, pc, asked, first>>
    BY <1>3 DEF Change, sorting
  <2>2. ASSUME Steady' PROVE Steady /\ compare # "btime"
    BY <1>3, <2>1, <2>2 DEF Change, Steady, Inv, TypeOK
  <2>3. compare # "btime" => \A g : KeyOf(g)' = KeyOf(g) /\ Asked(g)' = Asked(g)
    BY <2>1 DEF KeyOf, Asked
  <2>4. AnswersInv'
    BY <2>1, <2>2, <2>3, AnswersStay DEF AnswersInv
  <2>5. FirstInv' /\ ComparatorInv'
    BY <2>1, <2>2 DEF Inv, FirstInv, ComparatorInv, KeyOf, Asked
  <2> QED BY <2>4, <2>5
<1> QED BY <1>1, <1>2, <1>3, AskInv, AnswerInv, ShowInv
        DEF Inv, Next, Program, Return, DoNotSort, Terminated, vars, sorting

LEMMA InvHolds == Spec => []Inv
BY InvInit, StepInv, PTL DEF Spec

\* The answers follow the one order of what is remembered.
LEMMA AnswersFollow ==
    ASSUME Inv, Steady, NEW a \in Files, NEW b \in Files
    PROVE  /\ NotAfter(a, b) => Asked(a) /\ Asked(b) /\ AnswerOf(a, b) <= 0
           /\ Before(a, b) => Asked(a) /\ Asked(b) /\ AnswerOf(a, b) < 0
<1>1. ASSUME NEW t \in answers
      PROVE  /\ Asked(t.a) /\ Asked(t.b) /\ t.sign = AnswerOf(t.a, t.b)
             /\ t.sign \in {-1, 0, 1} /\ AnswerOf(t.b, t.a) = -t.sign
  <2>1. Asked(t.a) /\ Asked(t.b) /\ t.sign = AnswerOf(t.a, t.b) /\ compare # "none"
    BY <1>1 DEF Inv, AnswersInv, ComparatorInv
  <2>2. t.a \in Files /\ t.b \in Files /\ t.sign \in {-1, 0, 1} /\ rank \in [Files -> Nat]
    BY SortingAssumption DEF Inv, TypeOK, Files
  <2>3. (KeyOf(t.a) \in Key /\ KeyOf(t.b) \in Key) \/ compare = "name"
    BY <2>1, <2>2 DEF Inv, TypeOK, Asked, KeyOf, Key
  <2>4. AnswerOf(t.b, t.a) = -AnswerOf(t.a, t.b)
    BY <2>2, <2>3, CompareIsMirrored DEF AnswerOf, Key
  <2> QED BY <2>1, <2>2, <2>4
<1> QED BY <1>1 DEF NotAfter, Before

\* No answers a comparator gives are contrary or go in a circle, whatever
\* qsort() asks and however the files change meanwhile (file.c:388-528).
THEOREM Consistent == Spec => []NoContradiction
<1>1. Inv => NoContradiction
  <2> SUFFICES ASSUME Inv, Steady, NEW a \in Files, NEW b \in Files, NEW c \in Files,
                      NotAfter(a, b)
               PROVE  ~Before(b, a) /\ (NotAfter(b, c) => ~Before(c, a))
    BY DEF NoContradiction
  <2>1. rank \in [Files -> Nat] /\ compare # "none" /\ Asked(a) /\ Asked(b)
    BY SortingAssumption, AnswersFollow DEF Inv, TypeOK, Files, ComparatorInv, NotAfter
  <2>2. ASSUME NEW p \in Files, Asked(p) PROVE KeyOf(p) \in Key \/ compare = "name"
    BY <2>1, <2>2 DEF Inv, TypeOK, Asked, KeyOf, Key
  <2>3. ASSUME NEW p \in Files, NEW q \in Files, Asked(p), Asked(q)
        PROVE  AnswerOf(p, q) \in {-1, 0, 1} /\ AnswerOf(q, p) = -AnswerOf(p, q)
    <3>1. /\ KeyOf(p) \in Key \/ compare = "name"
          /\ KeyOf(q) \in Key \/ compare = "name"
      BY <2>2, <2>3
    <3>2. CompareNames(p, q) \in {-1, 0, 1} /\ CompareNames(q, p) = -CompareNames(p, q)
      BY <2>1, CompareIsMirrored DEF Key
    <3> QED BY <2>1, <3>1, <3>2, CompareIsMirrored DEF AnswerOf
  <2>4. ~Before(b, a)
    BY <2>1, <2>3, AnswersFollow
  <2>5. ASSUME NotAfter(b, c) PROVE ~Before(c, a)
    <3>1. Asked(c) /\ AnswerOf(a, b) <= 0 /\ AnswerOf(b, c) <= 0
      BY <2>5, AnswersFollow
    <3>2. AnswerOf(a, c) <= 0
      <4>1. CASE compare = "name"
        BY <2>1, <3>1, <4>1, CompareIsTransitive DEF AnswerOf, Key
      <4>2. CASE compare # "name"
        <5>1. KeyOf(a) \in Key /\ KeyOf(b) \in Key /\ KeyOf(c) \in Key
          BY <2>1, <2>2, <3>1, <4>2
        <5> QED BY <2>1, <3>1, <4>2, <5>1, CompareIsTransitive DEF AnswerOf
      <4> QED BY <4>1, <4>2
    <3>3. AnswerOf(c, a) = -AnswerOf(a, c) /\ AnswerOf(a, c) \in {-1, 0, 1}
      BY <2>1, <2>3, <3>1
    <3> QED BY <3>2, <3>3, AnswersFollow
  <2> QED BY <2>4, <2>5
<1> QED BY <1>1, InvHolds, PTL

-----------------------------------------------------------------------------
(* The rows are in order.                                                      *)

\* Induction: a set that has 0 and with every n also n + 1 has every number,
\* as the least one it lacked would be neither.
LEMMA InductionInSet ==
    ASSUME NEW S, 0 \in S, \A n \in Nat : n \in S => n + 1 \in S
    PROVE  Nat \subseteq S
<1> DEFINE Missing == Nat \ S
<1>1. SUFFICES ASSUME Missing # {} PROVE FALSE
  OBVIOUS
<1>2. PICK n \in Missing : \A m \in Missing : ~ (<<m, n>> \in OpToRel(<, Nat))
  <2>1. Missing \subseteq Nat
    OBVIOUS
  <2> HIDE DEF Missing
  <2> QED BY <1>1, <2>1, WFMin, NatLessThanWellFounded, Zenon
<1>3. n \in Nat /\ n # 0 /\ n - 1 \in Nat /\ n - 1 < n
  OBVIOUS
<1>4. n - 1 \notin Missing
  BY <1>2, <1>3 DEF OpToRel
<1> QED BY <1>3, <1>4

\* What is not sorted stays as it is read, and is not turned round.
PlainInv == compare = "none" => ~reverse /\ \A i \in Files : files[i] = i

\* The list as qsort() left it.
Sorted(i) == IF reverse THEN files[N + 1 - i] ELSE files[i]

SortedInv ==
    pc \in {"show", "done"} /\ compare # "none" =>
        \A i \in 1..(N - 1) : NotAfter(Sorted(i), Sorted(i + 1))

\* A row shows what the sort went by.
ShowsKey(k) == Asked(files[k]) /\ shown[k] = KeyOf(files[k])

RowsInv ==
    /\ pc \in {"sort", "compare"} => shown = << >>
    /\ pc = "show" => Len(shown) < N
    /\ pc = "done" => Len(shown) = N
    /\ Steady /\ compare \in {"stat", "btime"} => \A k \in 1..Len(shown) : ShowsKey(k)

OrderInv == PlainInv /\ SortedInv /\ RowsInv

LEMMA OrderInit == Init => OrderInv
<1> SUFFICES ASSUME Init PROVE OrderInv
  OBVIOUS
<1>1. pc = "sort" /\ shown = << >> /\ Len(shown) = 0 /\ files = [i \in Files |-> i]
  BY DEF Init
<1>2. compare = "none" => ~reverse
  BY DEF Init, Options
<1>3. 1..Len(shown) = {}
  BY <1>1
<1> QED BY <1>1, <1>2, <1>3, Zenon DEF OrderInv, PlainInv, SortedInv, RowsInv

\* Turned round twice a list is as it was.
LEMMA ReversedTwice ==
    ASSUME NEW s \in [Files -> Files], NEW i \in Files
    PROVE  Reversed(s)[N + 1 - i] = s[i]
<1>1. N \in Nat /\ DOMAIN s = 1..N /\ Len(s) = N /\ i \in 1..N
  BY SortingAssumption DEF Files
<1>2. N + 1 - i \in 1..N /\ N + 1 - (N + 1 - i) = i
  BY <1>1
<1> QED BY <1>1, <1>2 DEF Reversed

LEMMA ReturnSorts ==
    ASSUME Inv, OrderInv, Return
    PROVE  OrderInv'
<1>1. /\ pc' = "show" /\ compare # "none"
      /\ UNCHANGED <<compare, reverse, answers, shown>> /\ pc = "sort"
  BY DEF Return, sorting
<1>2. PICK order \in [Files -> Files] :
        /\ \A i \in 1..(N - 1) : NotAfter(order[i], order[i + 1])
        /\ files' = IF reverse THEN Reversed(order) ELSE order
  BY DEF Return
<1>3. \A i \in Files : Sorted(i)' = order[i]
  BY <1>1, <1>2, ReversedTwice DEF Sorted
<1>4. N \in Nat \ {0} /\ \A i \in 1..(N - 1) : i \in Files /\ i + 1 \in Files
  BY SortingAssumption DEF Files
<1>5. SortedInv'
  <2> SUFFICES ASSUME NEW i \in 1..(N - 1) PROVE NotAfter(Sorted(i), Sorted(i + 1))'
    BY DEF SortedInv
  <2>1. Sorted(i)' = order[i] /\ Sorted(i + 1)' = order[i + 1]
    BY <1>3, <1>4
  <2> QED BY <1>1, <1>2, <2>1 DEF NotAfter
<1>6. shown' = << >> /\ Len(shown') = 0
  BY <1>1 DEF OrderInv, RowsInv
<1> QED BY <1>1, <1>4, <1>5, <1>6 DEF OrderInv, PlainInv, RowsInv

LEMMA DoNotSortKeeps ==
    ASSUME Inv, OrderInv, DoNotSort
    PROVE  OrderInv'
<1>1. /\ pc' = "show" /\ compare = "none" /\ ~reverse /\ pc = "sort"
      /\ UNCHANGED <<compare, reverse, files, shown>>
  BY DEF DoNotSort, sorting, OrderInv, PlainInv
<1>2. shown' = << >> /\ Len(shown') = 0 /\ N \in Nat \ {0}
  BY <1>1, SortingAssumption DEF OrderInv, RowsInv
<1> QED BY <1>1, <1>2 DEF OrderInv, PlainInv, SortedInv, RowsInv

\* Every row is of one File, whose value stays as the sort found it.
LEMMA ShowRowKeeps ==
    ASSUME Inv, OrderInv, ShowRow
    PROVE  OrderInv'
<1>1. /\ pc = "show" /\ UNCHANGED <<compare, reverse, rank, kernel, files, answers, changes>>
      /\ pc' = IF Len(shown') = N THEN "done" ELSE "show"
      /\ TypeOK /\ N \in Nat \ {0}
  BY SortingAssumption DEF ShowRow, sorting, Inv
<1>2. PICK got \in Key : Read(files[Len(shown) + 1], got) /\ shown' = Append(shown, got)
  BY DEF ShowRow, Key
<1>3. shown \in Seq(Key) /\ Len(shown) < N /\ Len(shown) \in Nat
  BY <1>1 DEF TypeOK, Key, OrderInv, RowsInv
<1>4. PICK k \in Files : k = Len(shown) + 1
  BY <1>1, <1>3 DEF Files
<1>5. /\ Len(shown') = k /\ shown'[k] = got
      /\ \A j \in 1..Len(shown) : shown'[j] = shown[j]
  BY <1>2, <1>3, <1>4
<1>6. (pc' = "show" => Len(shown') < N) /\ (pc' = "done" => Len(shown') = N)
      /\ pc' \in {"show", "done"}
  BY <1>1, <1>3, <1>4, <1>5
<1>7. PlainInv' /\ SortedInv'
  BY <1>1 DEF OrderInv, PlainInv, SortedInv, Sorted, NotAfter
<1>8. ASSUME Steady', compare \in {"stat", "btime"}, NEW j \in 1..Len(shown')
      PROVE  ShowsKey(j)'
  <2>1. PICK f \in Files : f = files[k]
    BY <1>1 DEF TypeOK
  <2>2. /\ Steady /\ Asked(f)' /\ got = KeyOf(f)'
        /\ \A g \in Files : Asked(g) => Asked(g)' /\ KeyOf(g)' = KeyOf(g)
    BY <1>1, <1>2, <1>4, <1>8, <2>1, ReadEffect
  <2>3. PICK g \in Files : g = files[j]
    BY <1>1, <1>3, <1>4, <1>5, <1>8 DEF TypeOK, Files
  <2>4. Asked(g)' /\ shown'[j] = KeyOf(g)'
    <3>1. CASE j = k
      BY <1>5, <2>1, <2>2, <2>3, <3>1
    <3>2. CASE j # k
      <4>1. j \in 1..Len(shown)
        BY <1>3, <1>4, <1>5, <1>8, <3>2
      <4>2. Asked(g) /\ shown[j] = KeyOf(g)
        BY <1>8, <2>2, <2>3, <4>1 DEF OrderInv, RowsInv, ShowsKey
      <4> QED BY <1>5, <2>2, <4>1, <4>2
    <3> QED BY <3>1, <3>2
  <2> QED BY <1>1, <2>3, <2>4 DEF ShowsKey, Asked, KeyOf
<1>9. RowsInv'
  BY <1>1, <1>6, <1>8 DEF RowsInv
<1> QED BY <1>7, <1>9 DEF OrderInv

\* Before a row is made, and when none is, nothing of this changes.
LEMMA OthersKeepOrder ==
    ASSUME Inv, OrderInv, Ask \/ Answer \/ Change \/ UNCHANGED vars
    PROVE  OrderInv'
<1>1. CASE Ask \/ Answer
  <2>1. /\ pc' \in {"sort", "compare"} /\ pc \in {"sort", "compare"}
        /\ UNCHANGED <<compare, reverse, files, shown>>
    BY <1>1 DEF Ask, Answer, sorting
  <2>2. shown' = << >> /\ Len(shown') = 0
    BY <2>1 DEF OrderInv, RowsInv
  <2> QED BY <2>1, <2>2 DEF OrderInv, PlainInv, SortedInv, RowsInv
<1>2. CASE Change
  <2>1. UNCHANGED <<compare, reverse, pc, files, shown, answers, pstat, shortages>>
    BY <1>2 DEF Change, sorting
  <2>2. Steady' => Steady /\ compare # "btime"
    BY <1>2, <2>1 DEF Change, Steady, Inv, TypeOK
  <2>3. PlainInv' /\ SortedInv'
    BY <2>1 DEF OrderInv, PlainInv, SortedInv, Sorted, NotAfter
  <2>4. ASSUME Steady', compare \in {"stat", "btime"}, NEW k \in 1..Len(shown)
        PROVE  ShowsKey(k)'
    <3>1. ShowsKey(k) /\ compare # "btime"
      BY <2>2, <2>4 DEF OrderInv, RowsInv
    <3> QED BY <2>1, <3>1 DEF ShowsKey, Asked, KeyOf
  <2>5. RowsInv'
    BY <2>1, <2>2, <2>4 DEF OrderInv, RowsInv
  <2> QED BY <2>3, <2>5 DEF OrderInv
<1>3. CASE UNCHANGED vars
  BY <1>3 DEF vars, OrderInv, PlainInv, SortedInv, RowsInv, Sorted, NotAfter, ShowsKey,
             Steady, Asked, KeyOf
<1> QED BY <1>1, <1>2, <1>3

LEMMA OrderStep == Inv /\ OrderInv /\ [Next]_vars => OrderInv'
BY ReturnSorts, DoNotSortKeeps, ShowRowKeeps, OthersKeepOrder, Zenon
   DEF Next, Program, Terminated

\* q does not come before p in the order of what is remembered.
Follows(p, q) == Asked(p) /\ Asked(q) /\ AnswerOf(p, q) <= 0

LEMMA FollowsIsTransitive ==
    ASSUME Inv, compare # "none", NEW a \in Files, NEW b \in Files, NEW c \in Files,
           Follows(a, b), Follows(b, c)
    PROVE  Follows(a, c)
<1>1. rank \in [Files -> Nat]
  BY SortingAssumption DEF Inv, TypeOK, Files
<1>2. ASSUME NEW p \in Files, Asked(p) PROVE KeyOf(p) \in Key \/ compare = "name"
  BY <1>2 DEF Inv, TypeOK, Asked, KeyOf, Key
<1>3. Asked(a) /\ Asked(b) /\ Asked(c) /\ AnswerOf(a, b) <= 0 /\ AnswerOf(b, c) <= 0
  BY DEF Follows
<1>4. CASE compare = "name"
  BY <1>1, <1>3, <1>4, CompareIsTransitive DEF AnswerOf, Key, Follows
<1>5. CASE compare # "name"
  <2>1. KeyOf(a) \in Key /\ KeyOf(b) \in Key /\ KeyOf(c) \in Key
    BY <1>2, <1>3, <1>5
  <2> QED BY <1>1, <1>3, <1>5, <2>1, CompareIsTransitive DEF AnswerOf, Follows
<1> QED BY <1>4, <1>5

LEMMA SortedType == Inv => \A i \in Files : Sorted(i) \in Files
<1> SUFFICES ASSUME Inv, NEW i \in Files PROVE Sorted(i) \in Files
  OBVIOUS
<1>1. N \in Nat /\ files \in [Files -> Files]
  BY SortingAssumption DEF Inv, TypeOK
<1>2. N + 1 - i \in Files
  BY <1>1 DEF Files
<1> QED BY <1>1, <1>2 DEF Sorted

\* Each follows the one before it, so it follows all before it.
LEMMA AllFollow ==
    ASSUME Inv, OrderInv, Steady, pc = "done", compare # "none",
           NEW i \in Files, NEW j \in Files, i < j
    PROVE  Follows(Sorted(i), Sorted(j))
<1>0. N \in Nat \ {0}
  BY SortingAssumption
<1>1. ASSUME NEW k \in 1..(N - 1) PROVE Follows(Sorted(k), Sorted(k + 1))
  <2>1. k \in Files /\ k + 1 \in Files
    BY <1>0 DEF Files
  <2>2. NotAfter(Sorted(k), Sorted(k + 1)) /\ Sorted(k) \in Files /\ Sorted(k + 1) \in Files
    BY <2>1, SortedType DEF OrderInv, SortedInv
  <2> QED BY <2>2, AnswersFollow DEF Follows
<1> DEFINE D == {d \in Nat : \A k \in Files : k + d + 1 \in Files =>
                                Follows(Sorted(k), Sorted(k + d + 1))}
<1>2. 0 \in D
  <2>1. ASSUME NEW k \in Files, k + 0 + 1 \in Files PROVE Follows(Sorted(k), Sorted(k + 0 + 1))
    <3>1. k \in 1..(N - 1) /\ k + 0 + 1 = k + 1
      BY <1>0, <2>1 DEF Files
    <3> QED BY <1>1, <3>1
  <2> QED BY <2>1
<1>3. ASSUME NEW d \in Nat, d \in D PROVE d + 1 \in D
  <2>1. ASSUME NEW k \in Files, k + (d + 1) + 1 \in Files
        PROVE  Follows(Sorted(k), Sorted(k + (d + 1) + 1))
    <3>1. /\ k + d + 1 \in Files /\ k + d + 1 \in 1..(N - 1)
          /\ k + (d + 1) + 1 = (k + d + 1) + 1
      BY <1>0, <2>1 DEF Files
    <3>2. Follows(Sorted(k), Sorted(k + d + 1))
      BY <1>3, <3>1
    <3>3. Follows(Sorted(k + d + 1), Sorted(k + (d + 1) + 1))
      BY <1>1, <3>1
    <3>4. /\ Sorted(k) \in Files /\ Sorted(k + d + 1) \in Files
          /\ Sorted(k + (d + 1) + 1) \in Files
      BY <2>1, <3>1, SortedType
    <3> QED BY <3>2, <3>3, <3>4, FollowsIsTransitive
  <2> QED BY <2>1
<1> HIDE DEF D
<1>4. Nat \subseteq D
  BY <1>2, <1>3, InductionInSet
<1>5. j - i - 1 \in Nat /\ i + (j - i - 1) + 1 = j
  BY <1>0 DEF Files
<1>6. PICK d \in D : d = j - i - 1
  BY <1>4, <1>5
<1> QED BY <1>5, <1>6 DEF D

\* What the order says of two rows.
LEMMA FollowingRows ==
    ASSUME Inv, OrderInv, Steady, pc = "done", compare # "none",
           NEW p \in Files, NEW q \in Files, Follows(files[p], files[q])
    PROVE  CASE compare = "name" -> rank[files[p]] <= rank[files[q]]
             [] OTHER -> \/ shown[q] = Unknown
                         \/ /\ shown[p] # Unknown
                            /\ \/ shown[p] > shown[q]
                               \/ shown[p] = shown[q] /\ rank[files[p]] <= rank[files[q]]
<1>1. PICK f \in Files, g \in Files : f = files[p] /\ g = files[q]
  BY DEF Inv, TypeOK
<1>2. rank \in [Files -> Nat]
  BY SortingAssumption DEF Inv, TypeOK, Files
<1>3. CompareNames(f, g) <= 0 => rank[f] <= rank[g]
  BY <1>2 DEF CompareNames, Sign
<1>4. Asked(f) /\ Asked(g) /\ AnswerOf(f, g) <= 0
  BY <1>1 DEF Follows
<1>5. CASE compare = "name"
  BY <1>1, <1>3, <1>4, <1>5 DEF AnswerOf
<1>6. CASE compare # "name"
  <2>1. compare \in {"stat", "btime"}
    BY <1>6 DEF Inv, TypeOK
  <2>2. p \in 1..Len(shown) /\ q \in 1..Len(shown)
    BY DEF OrderInv, RowsInv, Files
  <2>3. shown[p] = KeyOf(f) /\ shown[q] = KeyOf(g)
    BY <1>1, <2>1, <2>2 DEF OrderInv, RowsInv, ShowsKey
  <2>4. KeyOf(f) \in Key /\ KeyOf(g) \in Key
    BY <1>4, <2>1 DEF Inv, TypeOK, Asked, KeyOf, Key
  <2>5. Compare(KeyOf(f), KeyOf(g), f, g) <= 0
    BY <1>4, <1>6 DEF AnswerOf
  <2>6. PICK kf \in Key, kg \in Key : kf = KeyOf(f) /\ kg = KeyOf(g)
    BY <2>4
  <2>7. \/ kg = Unknown
        \/ kf # Unknown /\ (kf > kg \/ (kf = kg /\ rank[f] <= rank[g]))
    <3>1. CASE kf = Unknown \/ kg = Unknown
      BY <2>5, <2>6, <3>1 DEF Compare, Sign
    <3>2. CASE kf # Unknown /\ kg # Unknown
      <4>1. kf \in Nat /\ kg \in Nat
        BY <3>2, SortingAssumption DEF Key
      <4> QED BY <1>3, <2>5, <2>6, <3>2, <4>1 DEF Compare, Sign
    <3> QED BY <3>1, <3>2
  <2> QED BY <1>1, <1>6, <2>3, <2>6, <2>7
<1> QED BY <1>5, <1>6

\* While memory lasts the rows come out in the order asked for, by the values
\* that they show, though these are asked for while the files change: largest
\* or newest first, then by name, what is unknown last, and all of it turned
\* round by -r (l.c:293-304, file.c:388-528, SPEC.md:99-127).  Rows that -L makes
\* of the links' targets are left out: the sort goes by the links' own values.
THEOREM RowsAreSorted == Spec => []ShownInOrder
<1>1. Inv /\ OrderInv => ShownInOrder
  <2> SUFFICES ASSUME Inv, OrderInv, pc = "done", Steady,
                      NEW i \in 1..N, NEW j \in 1..N, i < j,
                      NEW p, p = IF reverse THEN j ELSE i,
                      NEW q, q = IF reverse THEN i ELSE j
               PROVE  CASE compare = "none" -> files[i] < files[j]
                        [] compare = "name" -> rank[files[p]] <= rank[files[q]]
                        [] OTHER -> \/ shown[q] = Unknown
                                    \/ /\ shown[p] # Unknown
                                       /\ \/ shown[p] > shown[q]
                                          \/ /\ shown[p] = shown[q]
                                             /\ rank[files[p]] <= rank[files[q]]
    BY DEF ShownInOrder
  <2>1. CASE compare = "none"
    BY <2>1 DEF OrderInv, PlainInv, Files
  <2>2. CASE compare # "none"
    <3>1. p \in Files /\ q \in Files /\ N \in Nat
      BY SortingAssumption DEF Files
    <3>2. Follows(files[p], files[q])
      <4>1. CASE reverse
        <5>1. /\ N + 1 - p \in Files /\ N + 1 - q \in Files /\ N + 1 - p < N + 1 - q
              /\ N + 1 - (N + 1 - p) = p /\ N + 1 - (N + 1 - q) = q
          BY <3>1, <4>1 DEF Files
        <5>2. Sorted(N + 1 - p) = files[p] /\ Sorted(N + 1 - q) = files[q]
          BY <4>1, <5>1 DEF Sorted
        <5> QED BY <2>2, <5>1, <5>2, AllFollow
      <4>2. CASE ~reverse
        <5>1. Sorted(p) = files[p] /\ Sorted(q) = files[q] /\ p < q
          BY <4>2 DEF Sorted
        <5> QED BY <2>2, <3>1, <5>1, AllFollow
      <4> QED BY <4>1, <4>2
    <3> QED BY <2>2, <3>1, <3>2, FollowingRows
  <2> QED BY <2>1, <2>2
<1> QED BY <1>1, OrderInit, OrderStep, InvHolds, PTL DEF Spec

=============================================================================
