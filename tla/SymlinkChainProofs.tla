------------------------- MODULE SymlinkChainProofs -------------------------
(* What holds of SymlinkChain for every file system, every cap and every       *)
(* number of changes and failed allocations.                                   *)
EXTENDS SymlinkChain, SequenceTheorems, WellFoundedInduction, TLAPS

Walking == {"probe", "walk", "read"}
Arrowing == {"more", "arrow", "printtarget"}
\* Where getnamefield() has not begun: no arrow yet, no walk under way, and no
\* verdict on the chain.
Early == {"main", "islinktodir", "sort", "fields", "row", "targetrow", "name",
          "islink", "askloops"}

\* The walks: where they return to, that they start over a File whose final
\* target is not known, and how far they have come.
WalkInv ==
    /\ pc \in Walking => ret # "none" /\ ~didfinal
    /\ pc \in {"islinktodir", "targetrow", "judge"} => didfinal
    /\ pc \in Early => pos = 1 /\ arrows = 0 /\ ~loops
    /\ pc \in Walking /\ ret # "judge" => arrows = 0 /\ ~loops
    /\ pc \in {"more", "arrow"} => arrows = pos - 1
    /\ pc = "printtarget" => arrows = pos - 2 /\ pos <= MaxChain + 1
    /\ pc \in {"read", "arrow"} => IsLink(pos) /\ pos <= MaxChain

\* Only links have targets: every File of the chain but the last is one.
LinksInv == \A i \in 1..(Len(chain) - 1) : IsLink(i)

\* Unless memory ran out, a final target was stat'd and is not a link.
EndInv ==
    didfinal /\ final # 0 =>
        /\ final >= 2
        /\ shortages = 0 => chain[final].didstat /\ ~IsLink(final)

Inv == TypeOK /\ WalkInv /\ LinksInv /\ ChainBounded /\ EndInv

-----------------------------------------------------------------------------
(* The calls.                                                                  *)

\* What no call takes back: the Files stay, and what they have answered.
Kept ==
    /\ Len(chain) <= Len(chain')
    /\ \A i \in 1..Len(chain) :
         /\ chain'[i].path = chain[i].path
         /\ chain[i].didstat => chain'[i] = chain[i]

\* lstat() answers with one of the types getstat() knows.
LEMMA LstatType ==
    ASSUME TypeOK, NEW p \in Paths
    PROVE  LstatResult(p) \in Stat
<1>1. fs[p] \in Entry
  BY DEF TypeOK
<1>2. CASE fs[p].kind = "none"
  BY <1>2 DEF LstatResult, NoStat, Stat
<1>3. CASE fs[p].kind # "none"
  BY <1>1, <1>3 DEF LstatResult, Stat, Entry
<1> QED BY <1>2, <1>3

\* getstat() on the i-th File touches that File alone, and only if it was not
\* stat'd; a link it reports is a link the File remembers, and so is any other
\* answer while no malloc() fails.
LEMMA GetStatEffect ==
    ASSUME TypeOK, NEW i \in 1..Len(chain), NEW st, GetStat(i, st)
    PROVE  /\ st \in Stat
           /\ chain' \in Seq(File) /\ Len(chain') = Len(chain)
           /\ shortages' \in 0..MaxShortages /\ shortages <= shortages'
           /\ \A j \in 1..Len(chain) : j # i => chain'[j] = chain[j]
           /\ chain'[i].path = chain[i].path
           /\ chain[i].didstat => chain'[i] = chain[i]
           /\ st.kind = "link" \/ shortages' = 0 =>
                chain'[i].didstat /\ chain'[i].pstat = st
<1>1. /\ chain \in Seq(File) /\ chain[i] \in File
      /\ shortages \in 0..MaxShortages /\ MaxShortages \in Nat
  BY ChainAssumption DEF TypeOK
<1>2. NoStat \in Stat
  BY DEF NoStat, Stat
<1>3. CASE chain[i].didstat /\ st = chain[i].pstat /\ UNCHANGED <<chain, shortages>>
  BY <1>1, <1>3 DEF File
<1>4. CASE /\ ~chain[i].didstat /\ st = LstatResult(chain[i].path)
           /\ chain' = [chain EXCEPT ![i] = [path |-> chain[i].path,
                                             didstat |-> TRUE, pstat |-> st]]
           /\ UNCHANGED shortages
  <2>1. st \in Stat
    BY <1>1, <1>4, LstatType DEF File
  <2>2. [path |-> chain[i].path, didstat |-> TRUE, pstat |-> st] \in File
    BY <1>1, <2>1 DEF File
  <2>3. chain' \in Seq(File) /\ Len(chain') = Len(chain)
    BY <1>1, <1>4, <2>2
  <2> QED BY <1>1, <1>4, <2>1, <2>2, <2>3
<1>5. CASE /\ ~chain[i].didstat /\ shortages < MaxShortages /\ st = NoStat
           /\ shortages' = shortages + 1 /\ UNCHANGED chain
  BY <1>1, <1>2, <1>5 DEF NoStat
<1> QED BY <1>3, <1>4, <1>5 DEF GetStat

\* gettarget() adds at most one File, and only to the end of the chain.
LEMMA GetTargetEffect ==
    ASSUME TypeOK, NEW found \in BOOLEAN, GetTarget(found)
    PROVE  /\ chain' \in Seq(File)
           /\ shortages' \in 0..MaxShortages /\ shortages <= shortages'
           /\ Len(chain') \in {Len(chain), Len(chain) + 1}
           /\ \A j \in 1..Len(chain) : chain'[j] = chain[j]
           /\ found => pos + 1 <= Len(chain')
           /\ Len(chain') # Len(chain) => pos = Len(chain) /\ Len(chain') = pos + 1
<1>1. /\ chain \in Seq(File) /\ pos \in 1..Len(chain) /\ chain[pos] \in File
      /\ shortages \in 0..MaxShortages /\ MaxShortages \in Nat
  BY ChainAssumption DEF TypeOK
<1>2. CASE pos < Len(chain) /\ found /\ UNCHANGED <<chain, shortages>>
  BY <1>1, <1>2
<1>3. CASE /\ pos = Len(chain) /\ found /\ Readable(chain[pos].path)
           /\ chain' = Append(chain, NewFile(fs[chain[pos].path].to))
           /\ UNCHANGED shortages
  <2>1. fs[chain[pos].path] \in Entry
    BY <1>1 DEF TypeOK, File
  <2>2. NewFile(fs[chain[pos].path].to) \in File
    BY <2>1 DEF NewFile, File, Entry, NoStat, Stat
  <2> QED BY <1>1, <1>3, <2>2
<1>4. CASE pos = Len(chain) /\ ~found /\ UNCHANGED <<chain, shortages>>
  BY <1>1, <1>4
<1>5. CASE /\ pos = Len(chain) /\ ~found /\ shortages < MaxShortages
           /\ shortages' = shortages + 1 /\ UNCHANGED chain
  BY <1>1, <1>5
<1> QED BY <1>2, <1>3, <1>4, <1>5 DEF GetTarget

\* A step that stats at most one File, which many do, keeps what is known of
\* the chain.
StatsAtMost ==
    \/ \E i \in 1..Len(chain), st \in Stat : GetStat(i, st)
    \/ UNCHANGED <<chain, shortages>>

LEMMA StatKeepsChain ==
    ASSUME Inv, StatsAtMost
    PROVE  /\ Kept /\ LinksInv'
           /\ chain' \in Seq(File) /\ chain' # << >> /\ Len(chain') = Len(chain)
           /\ shortages' \in 0..MaxShortages
           /\ \A j \in 1..Len(chain) : IsLink(j) => IsLink(j)'
           /\ UNCHANGED <<didfinal, final>> => EndInv'
<1>1. /\ chain \in Seq(File) /\ chain # << >> /\ final \in 0..Len(chain)
      /\ shortages \in 0..MaxShortages /\ MaxShortages \in Nat
  BY ChainAssumption DEF Inv, TypeOK
<1>2. /\ chain' \in Seq(File) /\ Len(chain') = Len(chain)
      /\ shortages' \in 0..MaxShortages /\ shortages <= shortages'
      /\ Kept
  <2>1. CASE UNCHANGED <<chain, shortages>>
    BY <1>1, <2>1 DEF Kept
  <2>2. ASSUME NEW i \in 1..Len(chain), NEW st \in Stat, GetStat(i, st)
        PROVE  /\ chain' \in Seq(File) /\ Len(chain') = Len(chain)
               /\ shortages' \in 0..MaxShortages /\ shortages <= shortages'
               /\ Kept
    <3>1. TypeOK
      BY DEF Inv
    <3>2. /\ chain' \in Seq(File) /\ Len(chain') = Len(chain)
          /\ shortages' \in 0..MaxShortages /\ shortages <= shortages'
          /\ \A j \in 1..Len(chain) : j # i => chain'[j] = chain[j]
          /\ chain'[i].path = chain[i].path
          /\ chain[i].didstat => chain'[i] = chain[i]
      BY <2>2, <3>1, GetStatEffect
    <3> QED BY <1>1, <3>2 DEF Kept
  <2> QED BY <2>1, <2>2 DEF StatsAtMost
<1>3. \A j \in 1..Len(chain) : IsLink(j) => IsLink(j)'
  BY <1>1, <1>2 DEF IsLink, Kept
<1>4. LinksInv'
  BY <1>1, <1>2, <1>3 DEF Inv, LinksInv
<1>5. ASSUME UNCHANGED <<didfinal, final>> PROVE EndInv'
  BY <1>1, <1>2, <1>5 DEF Inv, EndInv, IsLink, Kept
<1>6. chain' # << >>
  BY <1>1, <1>2
<1> QED BY <1>2, <1>3, <1>4, <1>5, <1>6

\* A step that reads the target of the File at pos, a link no further than the
\* cap, keeps it too, and the chain stays within its bound.
LEMMA ReadKeepsChain ==
    ASSUME Inv, IsLink(pos), pos <= MaxChain, NEW found \in BOOLEAN, GetTarget(found)
    PROVE  /\ Kept /\ LinksInv' /\ Len(chain') <= MaxChain + 1
           /\ chain' \in Seq(File) /\ chain' # << >> /\ Len(chain) <= Len(chain')
           /\ shortages' \in 0..MaxShortages
           /\ found => pos + 1 <= Len(chain')
           /\ UNCHANGED <<didfinal, final>> => EndInv'
<1>1. /\ chain \in Seq(File) /\ chain # << >> /\ final \in 0..Len(chain)
      /\ pos \in 1..Len(chain) /\ Len(chain) <= MaxChain + 1 /\ MaxChain \in Nat
      /\ shortages \in 0..MaxShortages /\ MaxShortages \in Nat
  BY ChainAssumption DEF Inv, TypeOK, ChainBounded
<1>2. /\ chain' \in Seq(File)
      /\ shortages' \in 0..MaxShortages /\ shortages <= shortages'
      /\ Len(chain') \in {Len(chain), Len(chain) + 1}
      /\ \A j \in 1..Len(chain) : chain'[j] = chain[j]
      /\ found => pos + 1 <= Len(chain')
      /\ Len(chain') # Len(chain) => pos = Len(chain) /\ Len(chain') = pos + 1
  BY GetTargetEffect DEF Inv
<1>3. Kept
  BY <1>1, <1>2 DEF Kept
<1>4. LinksInv'
  <2>1. \A i \in 1..Len(chain) : IsLink(i) => IsLink(i)'
    BY <1>1, <1>2 DEF IsLink
  <2>2. ASSUME NEW i \in 1..(Len(chain') - 1)
        PROVE  i \in 1..Len(chain) /\ IsLink(i)
    <3>1. CASE Len(chain') = Len(chain)
      BY <1>1, <3>1 DEF Inv, LinksInv
    <3>2. CASE Len(chain') = Len(chain) + 1
      <4>1. pos = Len(chain) /\ i \in 1..pos
        BY <1>1, <1>2, <3>2
      <4>2. CASE i = pos
        BY <4>1, <4>2
      <4>3. CASE i # pos
        BY <1>1, <4>1, <4>3 DEF Inv, LinksInv
      <4> QED BY <4>2, <4>3
    <3> QED BY <1>2, <3>1, <3>2
  <2> QED BY <2>1, <2>2 DEF LinksInv
<1>5. ASSUME UNCHANGED <<didfinal, final>> PROVE EndInv'
  BY <1>1, <1>2, <1>5 DEF Inv, EndInv, IsLink
<1>6. Len(chain') <= MaxChain + 1 /\ chain' # << >>
  BY <1>1, <1>2
<1> QED BY <1>1, <1>2, <1>3, <1>4, <1>5, <1>6

-----------------------------------------------------------------------------
(* The actions, one lemma each.                                                *)

\* main() looks at an operand.
LEMMA OperandInv ==
    ASSUME Inv, Operand
    PROVE  Inv' /\ Kept
<1>1. 1 \in 1..Len(chain) /\ pos \in 1..Len(chain) /\ final \in 0..Len(chain)
  BY DEF Inv, TypeOK
<1>2. StatsAtMost
  BY <1>1 DEF Operand, StatsAtMost
<1>3. /\ Kept /\ LinksInv' /\ EndInv'
      /\ chain' \in Seq(File) /\ chain' # << >> /\ Len(chain') = Len(chain)
      /\ shortages' \in 0..MaxShortages
      /\ \A j \in 1..Len(chain) : IsLink(j) => IsLink(j)'
  BY <1>2, StatKeepsChain DEF Operand
<1>4. TypeOK'
  BY <1>1, <1>3 DEF Operand, Inv, TypeOK, environment, outcome, EnterFinalTarget
<1>5. WalkInv'
  BY <1>1, <1>3 DEF Operand, Inv, TypeOK, WalkInv, Walking, Early, environment,
                    outcome, EnterFinalTarget
<1>6. ChainBounded'
  BY <1>3 DEF Operand, Inv, ChainBounded, outcome
<1> QED BY <1>3, <1>4, <1>5, <1>6 DEF Inv

\* islinktodir().
LEMMA IsLinkToDirInv ==
    ASSUME Inv, IsLinkToDir
    PROVE  Inv' /\ Kept
<1>1. 1 \in 1..Len(chain) /\ pos \in 1..Len(chain) /\ final \in 0..Len(chain)
  BY DEF Inv, TypeOK
<1>2. StatsAtMost
  BY <1>1 DEF IsLinkToDir, StatsAtMost
<1>3. /\ Kept /\ LinksInv' /\ EndInv'
      /\ chain' \in Seq(File) /\ chain' # << >> /\ Len(chain') = Len(chain)
      /\ shortages' \in 0..MaxShortages
      /\ \A j \in 1..Len(chain) : IsLink(j) => IsLink(j)'
  BY <1>2, StatKeepsChain DEF IsLinkToDir
<1>4. TypeOK'
  BY <1>1, <1>3 DEF IsLinkToDir, Inv, TypeOK, environment, outcome
<1>5. WalkInv'
  BY <1>1, <1>3 DEF IsLinkToDir, Inv, TypeOK, WalkInv, Walking, Early, environment,
                    outcome
<1>6. ChainBounded'
  BY <1>3 DEF IsLinkToDir, Inv, ChainBounded, outcome
<1> QED BY <1>3, <1>4, <1>5, <1>6 DEF Inv

\* A comparison.
LEMMA SortInv ==
    ASSUME Inv, Sort
    PROVE  Inv' /\ Kept
<1>1. 1 \in 1..Len(chain) /\ pos \in 1..Len(chain) /\ final \in 0..Len(chain)
  BY DEF Inv, TypeOK
<1>2. StatsAtMost
  BY <1>1 DEF Sort, StatsAtMost
<1>3. /\ Kept /\ LinksInv' /\ EndInv'
      /\ chain' \in Seq(File) /\ chain' # << >> /\ Len(chain') = Len(chain)
      /\ shortages' \in 0..MaxShortages
      /\ \A j \in 1..Len(chain) : IsLink(j) => IsLink(j)'
  BY <1>2, StatKeepsChain DEF Sort
<1>4. TypeOK'
  BY <1>1, <1>3 DEF Sort, Inv, TypeOK, environment, outcome
<1>5. WalkInv'
  BY <1>1, <1>3 DEF Sort, Inv, TypeOK, WalkInv, Walking, Early, environment,
                    outcome
<1>6. ChainBounded'
  BY <1>3 DEF Sort, Inv, ChainBounded, outcome
<1> QED BY <1>3, <1>4, <1>5, <1>6 DEF Inv

\* getfilefields().
LEMMA FieldsInv ==
    ASSUME Inv, Fields
    PROVE  Inv' /\ Kept
<1>1. 1 \in 1..Len(chain) /\ pos \in 1..Len(chain) /\ final \in 0..Len(chain)
  BY DEF Inv, TypeOK
<1>2. StatsAtMost
  BY <1>1 DEF Fields, StatsAtMost
<1>3. /\ Kept /\ LinksInv' /\ EndInv'
      /\ chain' \in Seq(File) /\ chain' # << >> /\ Len(chain') = Len(chain)
      /\ shortages' \in 0..MaxShortages
      /\ \A j \in 1..Len(chain) : IsLink(j) => IsLink(j)'
  BY <1>2, StatKeepsChain DEF Fields
<1>4. TypeOK'
  BY <1>1, <1>3 DEF Fields, Inv, TypeOK, environment, outcome, EnterFinalTarget
<1>5. WalkInv'
  BY <1>1, <1>3 DEF Fields, Inv, TypeOK, WalkInv, Walking, Early, environment,
                    outcome, EnterFinalTarget
<1>6. ChainBounded'
  BY <1>3 DEF Fields, Inv, ChainBounded, outcome
<1> QED BY <1>3, <1>4, <1>5, <1>6 DEF Inv

\* The columns.
LEMMA RowInv ==
    ASSUME Inv, Row
    PROVE  Inv' /\ Kept
<1>1. 1 \in 1..Len(chain) /\ pos \in 1..Len(chain) /\ final \in 0..Len(chain)
  BY DEF Inv, TypeOK
<1>2. StatsAtMost
  BY <1>1 DEF Row, StatsAtMost, ShowColumn
<1>3. /\ Kept /\ LinksInv' /\ EndInv'
      /\ chain' \in Seq(File) /\ chain' # << >> /\ Len(chain') = Len(chain)
      /\ shortages' \in 0..MaxShortages
      /\ \A j \in 1..Len(chain) : IsLink(j) => IsLink(j)'
  BY <1>2, StatKeepsChain DEF Row
<1>4. TypeOK'
  BY <1>1, <1>3 DEF Row, Inv, TypeOK, environment, outcome, ShowColumn
<1>5. WalkInv'
  BY <1>1, <1>3 DEF Row, Inv, TypeOK, WalkInv, Walking, Early, environment,
                    outcome, ShowColumn
<1>6. ChainBounded'
  BY <1>3 DEF Row, Inv, ChainBounded, outcome
<1> QED BY <1>3, <1>4, <1>5, <1>6 DEF Inv

\* The File's name.
LEMMA NameInv ==
    ASSUME Inv, Name
    PROVE  Inv' /\ Kept
<1>1. 1 \in 1..Len(chain) /\ pos \in 1..Len(chain) /\ final \in 0..Len(chain)
  BY DEF Inv, TypeOK
<1>2. StatsAtMost
  BY <1>1 DEF Name, StatsAtMost, PrintName
<1>3. /\ Kept /\ LinksInv' /\ EndInv'
      /\ chain' \in Seq(File) /\ chain' # << >> /\ Len(chain') = Len(chain)
      /\ shortages' \in 0..MaxShortages
      /\ \A j \in 1..Len(chain) : IsLink(j) => IsLink(j)'
  BY <1>2, StatKeepsChain DEF Name
<1>4. TypeOK'
  BY <1>1, <1>3 DEF Name, Inv, TypeOK, environment, outcome
<1>5. WalkInv'
  BY <1>1, <1>3 DEF Name, Inv, TypeOK, WalkInv, Walking, Early, environment,
                    outcome
<1>6. ChainBounded'
  BY <1>3 DEF Name, Inv, ChainBounded, outcome
<1> QED BY <1>3, <1>4, <1>5, <1>6 DEF Inv

\* The exit status.
LEMMA StatusInv ==
    ASSUME Inv, Status
    PROVE  Inv' /\ Kept
<1>1. 1 \in 1..Len(chain) /\ pos \in 1..Len(chain) /\ final \in 0..Len(chain)
  BY DEF Inv, TypeOK
<1>2. StatsAtMost
  BY <1>1 DEF Status, StatsAtMost
<1>3. /\ Kept /\ LinksInv' /\ EndInv'
      /\ chain' \in Seq(File) /\ chain' # << >> /\ Len(chain') = Len(chain)
      /\ shortages' \in 0..MaxShortages
      /\ \A j \in 1..Len(chain) : IsLink(j) => IsLink(j)'
  BY <1>2, StatKeepsChain DEF Status
<1>4. TypeOK'
  BY <1>1, <1>3 DEF Status, Inv, TypeOK, environment, outcome, EnterFinalTarget
<1>5. WalkInv'
  BY <1>1, <1>3 DEF Status, Inv, TypeOK, WalkInv, Walking, Early, environment,
                    outcome, EnterFinalTarget
<1>6. ChainBounded'
  BY <1>3 DEF Status, Inv, ChainBounded, outcome
<1> QED BY <1>3, <1>4, <1>5, <1>6 DEF Inv

\* Whether an arrow follows.
LEMMA NameIsLinkInv ==
    ASSUME Inv, NameIsLink
    PROVE  Inv' /\ Kept
<1>1. 1 \in 1..Len(chain) /\ pos \in 1..Len(chain) /\ final \in 0..Len(chain)
  BY DEF Inv, TypeOK
<1>2. StatsAtMost
  BY <1>1 DEF NameIsLink, StatsAtMost
<1>3. /\ Kept /\ LinksInv' /\ EndInv'
      /\ chain' \in Seq(File) /\ chain' # << >> /\ Len(chain') = Len(chain)
      /\ shortages' \in 0..MaxShortages
      /\ \A j \in 1..Len(chain) : IsLink(j) => IsLink(j)'
  BY <1>2, StatKeepsChain DEF NameIsLink
<1>4. TypeOK'
  BY <1>1, <1>3 DEF NameIsLink, Inv, TypeOK, environment, outcome
<1>5. WalkInv'
  <2>1. PICK st \in Stat : /\ GetStat(1, st)
                           /\ pc' = IF opts.show = "all"
                                    THEN IF st.kind = "link" THEN "askloops" ELSE "more"
                                    ELSE IF st.kind = "link" THEN "arrow" ELSE "status"
    BY DEF NameIsLink
  <2>2. st.kind = "link" => IsLink(1)'
    BY <1>1, <2>1, GetStatEffect DEF Inv, IsLink
  <2>3. pos = 1 /\ pos' = 1 /\ arrows' = 0 /\ ~loops' /\ MaxChain >= 1
    BY ChainAssumption DEF NameIsLink, Inv, WalkInv, Early, outcome
  <2> QED BY <2>1, <2>2, <2>3 DEF WalkInv, Walking, Early
<1>6. ChainBounded'
  BY <1>3 DEF NameIsLink, Inv, ChainBounded, outcome
<1> QED BY <1>3, <1>4, <1>5, <1>6 DEF Inv

\* -V's loop.
LEMMA MoreInv ==
    ASSUME Inv, More
    PROVE  Inv' /\ Kept
<1>1. 1 \in 1..Len(chain) /\ pos \in 1..Len(chain) /\ final \in 0..Len(chain)
  BY DEF Inv, TypeOK
<1>2. StatsAtMost
  BY <1>1 DEF More, StatsAtMost
<1>3. /\ Kept /\ LinksInv' /\ EndInv'
      /\ chain' \in Seq(File) /\ chain' # << >> /\ Len(chain') = Len(chain)
      /\ shortages' \in 0..MaxShortages
      /\ \A j \in 1..Len(chain) : IsLink(j) => IsLink(j)'
  BY <1>2, StatKeepsChain DEF More
<1>4. TypeOK'
  BY <1>1, <1>3 DEF More, Inv, TypeOK, environment, outcome, Follow
<1>5. WalkInv'
  <2>1. PICK st \in Stat : /\ GetStat(pos, st)
                           /\ pc' = IF Follow(st) THEN "arrow" ELSE "status"
    BY DEF More
  <2>2. st.kind = "link" => IsLink(pos)'
    BY <1>1, <2>1, GetStatEffect DEF More, Inv, IsLink
  <2>3. /\ pos' = pos /\ arrows' = arrows /\ arrows = pos - 1
        /\ Follow(st) => pos - 1 < MaxChain /\ st.kind = "link"
    BY DEF More, Inv, WalkInv, outcome, Follow
  <2> QED BY <1>1, <2>1, <2>2, <2>3, ChainAssumption DEF WalkInv, Walking, Early
<1>6. ChainBounded'
  BY <1>3 DEF More, Inv, ChainBounded, outcome
<1> QED BY <1>3, <1>4, <1>5, <1>6 DEF Inv

\* One more arrow.
LEMMA PrintTargetInv ==
    ASSUME Inv, PrintTarget
    PROVE  Inv' /\ Kept
<1>1. 1 \in 1..Len(chain) /\ pos \in 1..Len(chain) /\ final \in 0..Len(chain)
  BY DEF Inv, TypeOK
<1>2. StatsAtMost
  BY <1>1 DEF PrintTarget, StatsAtMost, PrintName
<1>3. /\ Kept /\ LinksInv' /\ EndInv'
      /\ chain' \in Seq(File) /\ chain' # << >> /\ Len(chain') = Len(chain)
      /\ shortages' \in 0..MaxShortages
      /\ \A j \in 1..Len(chain) : IsLink(j) => IsLink(j)'
  BY <1>2, StatKeepsChain DEF PrintTarget
<1>4. TypeOK'
  BY <1>1, <1>3 DEF PrintTarget, Inv, TypeOK, environment, outcome
<1>5. WalkInv'
  BY <1>1, <1>3 DEF PrintTarget, Inv, TypeOK, WalkInv, Walking, Early, environment,
                    outcome
<1>6. ChainBounded'
  BY <1>1, <1>3, ChainAssumption DEF PrintTarget, Inv, TypeOK, WalkInv, ChainBounded
<1> QED BY <1>3, <1>4, <1>5, <1>6 DEF Inv

\* -V asks the kernel: the Files do not change.
LEMMA AskLoopsInv ==
    ASSUME Inv, AskLoops
    PROVE  Inv' /\ Kept
<1>1. StatsAtMost
  BY DEF AskLoops, StatsAtMost, files
<1>2. /\ Kept /\ LinksInv' /\ EndInv' /\ UNCHANGED <<chain, shortages>>
      /\ \A j \in 1..Len(chain) : IsLink(j) => IsLink(j)'
  BY <1>1, StatKeepsChain DEF AskLoops, files
<1>3. TypeOK' /\ ChainBounded'
  BY <1>2 DEF AskLoops, Inv, TypeOK, ChainBounded, environment, files, outcome, ChainLoops
<1>4. WalkInv'
  BY <1>2 DEF AskLoops, Inv, TypeOK, WalkInv, Walking, Early, environment, files, outcome
<1> QED BY <1>2, <1>3, <1>4 DEF Inv

\* -L's verdict.
LEMMA JudgeInv ==
    ASSUME Inv, Judge
    PROVE  Inv' /\ Kept
<1>1. StatsAtMost
  BY DEF Judge, StatsAtMost, files
<1>2. /\ Kept /\ LinksInv' /\ EndInv' /\ UNCHANGED <<chain, shortages>>
  BY <1>1, StatKeepsChain DEF Judge, files
<1>3. TypeOK' /\ ChainBounded'
  BY <1>2 DEF Judge, Inv, TypeOK, ChainBounded, environment, files
<1>4. WalkInv'
  BY <1>2 DEF Judge, Inv, TypeOK, WalkInv, Walking, Early, environment, files
<1> QED BY <1>2, <1>3, <1>4 DEF Inv

\* The file system changes: the program does not notice.
LEMMA ChangeInv ==
    ASSUME Inv, Change
    PROVE  Inv' /\ Kept
<1>1. UNCHANGED <<shortages, opts, chain, didfinal, final, pc, ret, pos, loops,
                  arrows, row, exit>>
  BY DEF Change, files, outcome
<1>2. fs' \in [Paths -> Entry] /\ changes' \in Nat
  BY ChainAssumption DEF Change, Inv, TypeOK
<1>3. Kept /\ LinksInv' /\ EndInv'
  BY <1>1, StatKeepsChain DEF StatsAtMost
<1>4. TypeOK' /\ ChainBounded' /\ WalkInv'
  BY <1>1, <1>2 DEF Inv, TypeOK, ChainBounded, WalkInv, IsLink
<1> QED BY <1>3, <1>4 DEF Inv

\* The probe that starts a walk, or ends it at once.
LEMMA ProbeInv ==
    ASSUME Inv, Probe
    PROVE  Inv' /\ Kept
<1>1. UNCHANGED <<chain, shortages>> /\ chain \in Seq(File) /\ chain # << >>
  BY DEF Probe, Inv, TypeOK
<1>2. Kept /\ LinksInv'
  BY <1>1, StatKeepsChain DEF StatsAtMost
<1>3. EndInv'
  BY DEF Probe, Remember, Inv, WalkInv, Walking, EndInv
<1>4. TypeOK'
  <2>1. 1 \in 1..Len(chain) /\ final \in 0..Len(chain)
    BY DEF Inv, TypeOK
  <2>2. /\ ret \in {"islinktodir", "targetrow", "judge"}
        /\ 0 \in 0..Len(chain) /\ didfinal \in BOOLEAN
    BY <2>1 DEF Probe, Inv, TypeOK, WalkInv, Walking
  <2>3. /\ final' \in 0..Len(chain) /\ didfinal' \in BOOLEAN /\ pos' = 1
        /\ pc' \in {"walk", "islinktodir", "targetrow", "judge"}
    BY <2>1, <2>2 DEF Probe, Remember
  <2> QED BY <1>1, <2>1, <2>3 DEF Probe, Inv, TypeOK, environment, outcome
<1>5. WalkInv'
  BY <1>1 DEF Probe, Remember, Inv, TypeOK, WalkInv, Walking, Early, outcome
<1>6. ChainBounded'
  BY <1>1 DEF Probe, Inv, ChainBounded, outcome
<1> QED BY <1>2, <1>3, <1>4, <1>5, <1>6 DEF Inv

\* One File of the walk is stat'd: a link is followed further unless the cap
\* is reached, and anything else is the final target.
LEMMA WalkStatInv ==
    ASSUME Inv, WalkStat
    PROVE  Inv' /\ Kept
<1>1. PICK st \in Stat :
        /\ GetStat(pos, st)
        /\ IF st.kind # "link" THEN Remember(IF pos = 1 THEN 0 ELSE pos)
           ELSE IF AtCap THEN Remember(0)
           ELSE pc' = "read" /\ UNCHANGED <<didfinal, final, pos>>
  BY DEF WalkStat
<1>2. pos \in 1..Len(chain) /\ final \in 0..Len(chain) /\ pc = "walk"
  BY DEF WalkStat, Inv, TypeOK
<1>3. /\ Kept /\ LinksInv'
      /\ chain' \in Seq(File) /\ chain' # << >> /\ Len(chain') = Len(chain)
      /\ shortages' \in 0..MaxShortages
      /\ UNCHANGED <<didfinal, final>> => EndInv'
  BY <1>1, <1>2, StatKeepsChain DEF StatsAtMost
<1>4. st.kind = "link" \/ shortages' = 0 => chain'[pos].didstat /\ chain'[pos].pstat = st
  BY <1>1, <1>2, GetStatEffect DEF Inv
<1>5. EndInv'
  <2>1. CASE st.kind # "link" /\ pos # 1
    <3>1. final' = pos /\ pos >= 2
      BY <1>1, <1>2, <2>1 DEF Remember
    <3>2. shortages' = 0 => chain'[pos].didstat /\ chain'[pos].pstat.kind # "link"
      BY <1>4, <2>1
    <3>3. EndInv' = (didfinal' /\ final' # 0 =>
                       /\ final' >= 2
                       /\ shortages' = 0 =>
                            /\ chain'[final'].didstat
                            /\ ~(chain'[final'].didstat /\ chain'[final'].pstat.kind = "link"))
      BY DEF EndInv, IsLink
    <3> QED BY <3>1, <3>2, <3>3
  <2>2. CASE (st.kind # "link" /\ pos = 1) \/ (st.kind = "link" /\ AtCap)
    <3>1. final' = 0
      BY <1>1, <2>2 DEF Remember
    <3> QED BY <3>1 DEF EndInv
  <2>3. CASE st.kind = "link" /\ ~AtCap
    <3>1. UNCHANGED <<didfinal, final>>
      BY <1>1, <2>3
    <3> QED BY <1>3, <3>1
  <2> QED BY <2>1, <2>2, <2>3
<1>6. TypeOK'
  <2>1. /\ ret \in {"islinktodir", "targetrow", "judge"} /\ 1 \in 1..Len(chain)
        /\ 0 \in 0..Len(chain) /\ pos \in 0..Len(chain) /\ didfinal \in BOOLEAN
    BY <1>2 DEF Inv, TypeOK, WalkInv, Walking
  <2>2. /\ final' \in 0..Len(chain) /\ didfinal' \in BOOLEAN /\ pos' \in 1..Len(chain)
        /\ pc' \in {"read", "islinktodir", "targetrow", "judge"}
    BY <1>1, <1>2, <2>1 DEF Remember
  <2> QED BY <1>3, <2>2 DEF WalkStat, Inv, TypeOK, environment, outcome
<1>7. WalkInv'
  <2>1. ~AtCap => pos <= MaxChain
    BY <1>2, ChainAssumption DEF AtCap, Inv, ChainBounded, TypeOK
  <2>2. st.kind = "link" /\ ~AtCap => IsLink(pos)'
    BY <1>1, <1>4 DEF IsLink
  <2> QED BY <1>1, <1>2, <1>3, <2>1, <2>2
          DEF WalkStat, Remember, Inv, TypeOK, WalkInv, Walking, Early, outcome
<1>8. ChainBounded'
  BY <1>3 DEF WalkStat, Inv, ChainBounded, outcome
<1> QED BY <1>3, <1>5, <1>6, <1>7, <1>8 DEF Inv

\* One readlink() of the walk, or none where the target is cached.
LEMMA WalkReadInv ==
    ASSUME Inv, WalkRead
    PROVE  Inv' /\ Kept
<1>1. PICK found \in BOOLEAN :
        /\ GetTarget(found)
        /\ IF found
           THEN pc' = "walk" /\ pos' = pos + 1 /\ UNCHANGED <<didfinal, final>>
           ELSE Remember(TargetIfUnreadable)
  BY DEF WalkRead
<1>2. /\ pos \in 1..Len(chain) /\ final \in 0..Len(chain) /\ pc = "read"
      /\ chain \in Seq(File) /\ IsLink(pos) /\ pos <= MaxChain /\ ~didfinal /\ ret # "none"
  BY DEF WalkRead, Inv, TypeOK, WalkInv, Walking
<1>3. /\ Kept /\ LinksInv' /\ Len(chain') <= MaxChain + 1
      /\ chain' \in Seq(File) /\ chain' # << >> /\ Len(chain) <= Len(chain')
      /\ shortages' \in 0..MaxShortages
      /\ found => pos + 1 <= Len(chain')
  BY <1>1, <1>2, ReadKeepsChain
<1>4. EndInv'
  BY <1>1, <1>2 DEF Remember, TargetIfUnreadable, EndInv
<1>5. TypeOK'
  <2>1. /\ ret \in {"islinktodir", "targetrow", "judge"}
        /\ 1 \in 1..Len(chain') /\ final \in 0..Len(chain') /\ 0 \in 0..Len(chain')
        /\ found => pos + 1 \in 1..Len(chain')
        /\ didfinal \in BOOLEAN
    BY <1>2, <1>3 DEF Inv, TypeOK
  <2>2. /\ final' \in 0..Len(chain') /\ didfinal' \in BOOLEAN /\ pos' \in 1..Len(chain')
        /\ pc' \in {"walk", "islinktodir", "targetrow", "judge"}
    BY <1>1, <1>2, <2>1 DEF Remember, TargetIfUnreadable
  <2> QED BY <1>3, <2>2 DEF WalkRead, Inv, TypeOK, environment, outcome
<1>6. WalkInv'
  BY <1>1, <1>2, <1>3 DEF WalkRead, Remember, Inv, TypeOK, WalkInv, Walking, Early,
                          outcome
<1>7. ChainBounded'
  BY <1>3 DEF WalkRead, outcome, Inv, ChainBounded
<1> QED BY <1>3, <1>4, <1>5, <1>6, <1>7 DEF Inv

\* One more arrow: the target is read and the walk of -V moves on to it.
LEMMA ArrowInv ==
    ASSUME Inv, Arrow
    PROVE  Inv' /\ Kept
<1>1. PICK found \in BOOLEAN :
        /\ GetTarget(found)
        /\ IF found THEN pc' = "printtarget" /\ pos' = pos + 1
                    ELSE pc' = "status" /\ UNCHANGED pos
  BY DEF Arrow
<1>2. /\ pos \in 1..Len(chain) /\ final \in 0..Len(chain) /\ pc = "arrow"
      /\ chain \in Seq(File) /\ IsLink(pos) /\ pos <= MaxChain /\ arrows = pos - 1
  BY DEF Arrow, Inv, TypeOK, WalkInv
<1>3. /\ Kept /\ LinksInv' /\ Len(chain') <= MaxChain + 1
      /\ chain' \in Seq(File) /\ chain' # << >> /\ Len(chain) <= Len(chain')
      /\ shortages' \in 0..MaxShortages
      /\ found => pos + 1 <= Len(chain')
      /\ UNCHANGED <<didfinal, final>> => EndInv'
  BY <1>1, <1>2, ReadKeepsChain
<1>4. EndInv'
  BY <1>3 DEF Arrow
<1>5. TypeOK'
  BY <1>1, <1>2, <1>3 DEF Arrow, Inv, TypeOK, environment, outcome
<1>6. WalkInv'
  BY <1>1, <1>2, <1>3, ChainAssumption
     DEF Arrow, Inv, TypeOK, WalkInv, Walking, Early, outcome
<1>7. ChainBounded'
  BY <1>3 DEF Arrow, outcome, Inv, ChainBounded
<1> QED BY <1>3, <1>4, <1>5, <1>6, <1>7 DEF Inv

-----------------------------------------------------------------------------
(* The theorems.                                                               *)

\* A listing starts with one File nothing is known of.
LEMMA InitInv == Init => Inv
<1> SUFFICES ASSUME Init PROVE Inv
  OBVIOUS
<1>1. NewFile(First) \in File
  BY ChainAssumption DEF NewFile, File, NoStat, Stat
<1>2. Len(chain) = 1 /\ chain \in Seq(File) /\ chain # << >>
  BY <1>1 DEF Init
<1>3. TypeOK
  <2>1. fs \in [Paths -> Entry] /\ 0 \in 0..MaxShortages
    BY ChainAssumption DEF Init
  <2>2. /\ pc \in {"main", "sort"} /\ ret = "none" /\ opts \in OptionSets
        /\ changes = 0 /\ shortages = 0 /\ arrows = 0
        /\ didfinal \in BOOLEAN /\ loops \in BOOLEAN
        /\ row = "none" /\ exit = 0
    BY DEF Init
  <2>3. final \in 0..Len(chain) /\ pos \in 1..Len(chain)
    BY <1>2 DEF Init
  <2> QED BY <1>2, <2>1, <2>2, <2>3 DEF TypeOK
<1>4. WalkInv /\ LinksInv /\ ChainBounded /\ EndInv
  BY <1>2, ChainAssumption
     DEF Init, WalkInv, Walking, Early, LinksInv, ChainBounded, EndInv
<1> QED BY <1>3, <1>4 DEF Inv

\* Every step keeps the invariant and all that has been answered.
LEMMA StepInv == Inv /\ [Next]_vars => Inv' /\ Kept
<1> SUFFICES ASSUME Inv, [Next]_vars PROVE Inv' /\ Kept
  OBVIOUS
<1>1. CASE Operand BY <1>1, OperandInv
<1>2. CASE IsLinkToDir BY <1>2, IsLinkToDirInv
<1>3. CASE Sort BY <1>3, SortInv
<1>4. CASE Fields BY <1>4, FieldsInv
<1>5. CASE Row BY <1>5, RowInv
<1>6. CASE Name BY <1>6, NameInv
<1>7. CASE NameIsLink BY <1>7, NameIsLinkInv
<1>8. CASE AskLoops BY <1>8, AskLoopsInv
<1>9. CASE More BY <1>9, MoreInv
<1>10. CASE Arrow BY <1>10, ArrowInv
<1>11. CASE PrintTarget BY <1>11, PrintTargetInv
<1>12. CASE Status BY <1>12, StatusInv
<1>13. CASE Judge BY <1>13, JudgeInv
<1>14. CASE Probe BY <1>14, ProbeInv
<1>15. CASE WalkStat BY <1>15, WalkStatInv
<1>16. CASE WalkRead BY <1>16, WalkReadInv
<1>17. CASE Change BY <1>17, ChangeInv
<1>18. CASE UNCHANGED vars
  <2>1. Inv'
    BY <1>18 DEF vars, Inv, TypeOK, WalkInv, LinksInv, ChainBounded, EndInv, IsLink
  <2>2. Kept
    BY <1>18 DEF vars, Kept, Inv, TypeOK
  <2> QED BY <2>1, <2>2
<1> QED
  BY <1>1, <1>2, <1>3, <1>4, <1>5, <1>6, <1>7, <1>8, <1>9, <1>10, <1>11, <1>12,
     <1>13, <1>14, <1>15, <1>16, <1>17, <1>18 DEF Next, Program, Terminated

\* Only a walk sets the final target, and only where it was not known.
LEMMA FinalIsKept == Inv /\ [Next]_vars => (didfinal => didfinal' /\ final' = final)
<1> SUFFICES ASSUME Inv, [Next]_vars, didfinal PROVE didfinal' /\ final' = final
  OBVIOUS
<1>1. pc \notin Walking
  BY DEF Inv, WalkInv
<1> QED
  BY <1>1 DEF Walking, Next, Program, Terminated, vars, files, Operand, IsLinkToDir,
     Sort, Fields, Row, Name, NameIsLink, AskLoops, More, Arrow, PrintTarget,
     Status, Judge, Probe, WalkStat, WalkRead, Change

\* The invariant is what the final target promises.
LEMMA InvIsTheEnd == Inv => FinalIsTheEnd
<1> SUFFICES ASSUME Inv, didfinal, final # 0 PROVE
      /\ final \in 2..Len(chain)
      /\ \A i \in 1..(final - 1) : IsLink(i)
      /\ shortages = 0 => chain[final].didstat /\ ~IsLink(final)
  BY DEF FinalIsTheEnd
<1>1. final \in 2..Len(chain) /\ chain \in Seq(File)
  BY DEF Inv, TypeOK, EndInv
<1>2. \A i \in 1..(final - 1) : IsLink(i)
  BY <1>1 DEF Inv, LinksInv
<1> QED BY <1>1, <1>2 DEF Inv, EndInv

LEMMA AlwaysInv == Spec => []Inv
BY InitInv, StepInv, PTL DEF Spec

\* The type invariant of a File, its chain and the listing of it (file.c:79,
\* file.c:229-253, file.c:812-904), for every cap and every file system.
THEOREM TypeCorrect == Spec => []TypeOK
<1>1. Inv => TypeOK
  BY DEF Inv
<1> QED BY <1>1, AlwaysInv, PTL

\* However often the links change between the calls, -L and -V together follow
\* and show no more than MAXCHAIN of them (file.c:890, filefields.c:363).
THEOREM ChainIsBounded == Spec => []ChainBounded
<1>1. Inv => ChainBounded
  BY DEF Inv
<1> QED BY <1>1, AlwaysInv, PTL

\* getfinaltarget() never answers with a link, and only with a File that links
\* lead to (file.c:873-914, file.h:137).
THEOREM FinalTargetIsTheEnd == Spec => []FinalIsTheEnd
BY InvIsTheEnd, AlwaysInv, PTL

\* A File never goes back on a lstat(), on a target or on a final target it
\* has answered with (file.c:236, file.c:819, file.c:909; SPEC.md:278).
THEOREM AnswersKept == Spec => AnswersAreKept
<1>1. Inv /\ [Next]_vars =>
        [ /\ Len(chain) <= Len(chain')
          /\ \A i \in 1..Len(chain) :
               /\ chain'[i].path = chain[i].path
               /\ chain[i].didstat => chain'[i] = chain[i]
          /\ didfinal => didfinal' /\ final' = final ]_vars
  BY StepInv, FinalIsKept DEF Kept
<1> QED BY <1>1, AlwaysInv, PTL DEF Spec, AnswersAreKept

-----------------------------------------------------------------------------
(* What the row, the arrows and the exit status have in common.  They are      *)
(* worked out one after the other, while the file system changes: what ties    *)
(* them together is who has asked for which answer by when.                    *)

ForTarget == {"targetrow", "judge"}
\* -L describes the final target in place of the File.
ToFinal == opts.targetinfo /\ IsLink(1)
\* getfilefields() has made up its mind what to describe, or never will.
Described == {"row", "targetrow", "name", "islink", "askloops", "more", "arrow",
              "printtarget", "status", "judge", "done"}

\* Who asks for the final target, and when it is known.
AskedInv ==
    /\ final # 0 => didfinal
    /\ pc = "main" => ~didfinal
    /\ pc \in Walking => IsLink(1)
    /\ pc \in ForTarget \/ (pc \in Walking /\ ret \in ForTarget) => ToFinal
    /\ shortages = 0 /\ opts.targetinfo =>
         /\ pc \in Described => chain[1].didstat /\ (IsLink(1) => didfinal)
         /\ pc = "row" => ~IsLink(1)
         /\ pc \in Walking => ret # "judge"

\* What every step carries over.
Carried ==
    /\ opts' = opts
    /\ shortages' = 0 => shortages = 0
    /\ 1 \in 1..Len(chain)
    /\ chain[1].didstat => chain'[1] = chain[1]

LEMMA StepCarries ==
    ASSUME Inv, [Next]_vars
    PROVE  Inv' /\ Kept /\ Carried
<1>1. Inv' /\ Kept
  BY StepInv
<1>2. 1 \in 1..Len(chain) /\ shortages \in Nat /\ MaxShortages \in Nat
  BY ChainAssumption DEF Inv, TypeOK
<1>3. chain[1].didstat => chain'[1] = chain[1]
  BY <1>1, <1>2 DEF Kept
<1>4. opts' = opts
  BY DEF Next, Program, Terminated, vars, Operand, IsLinkToDir, Sort, Fields, Row,
     Name, NameIsLink, AskLoops, More, Arrow, PrintTarget, Status, Judge, Probe,
     WalkStat, WalkRead, Change
<1>5. shortages' = 0 => shortages = 0
  <2>1. TypeOK /\ pos \in 1..Len(chain) /\ final \in 0..Len(chain)
    BY DEF Inv, TypeOK
  <2>2. ASSUME NEW i \in 1..Len(chain), NEW st, GetStat(i, st)
        PROVE  shortages <= shortages'
    BY <2>1, <2>2, GetStatEffect
  <2>3. ASSUME NEW found \in BOOLEAN, GetTarget(found)
        PROVE  shortages <= shortages'
    BY <2>1, <2>3, GetTargetEffect
  <2>4. CASE Operand \/ IsLinkToDir \/ Sort \/ Fields \/ Row \/ Name
    BY <1>2, <2>1, <2>2, <2>4
       DEF Operand, IsLinkToDir, Sort, Fields, Row, Name, ShowColumn, PrintName
  <2>5. CASE NameIsLink \/ More \/ PrintTarget \/ Status \/ WalkStat
    BY <1>2, <2>1, <2>2, <2>5
       DEF NameIsLink, More, PrintTarget, Status, WalkStat, PrintName
  <2>6. CASE Arrow \/ WalkRead
    BY <1>2, <2>3, <2>6 DEF Arrow, WalkRead
  <2>7. CASE AskLoops \/ Judge \/ Probe \/ Change \/ UNCHANGED vars
    BY <2>7 DEF AskLoops, Judge, Probe, Change, vars
  <2> QED BY <2>4, <2>5, <2>6, <2>7 DEF Next, Program, Terminated
<1> QED BY <1>1, <1>2, <1>3, <1>4, <1>5 DEF Carried

\* A lstat() of the File itself, as the callers see it.
LEMMA StatOfFirst ==
    ASSUME Inv, NEW st, GetStat(1, st)
    PROVE  /\ st.kind = "link" => IsLink(1)'
           /\ shortages' = 0 =>
                /\ chain'[1].didstat /\ chain'[1].pstat = st
                /\ IsLink(1)' <=> st.kind = "link"
                /\ StatFailed(1)' <=> st = NoStat
<1>1. 1 \in 1..Len(chain) /\ TypeOK
  BY DEF Inv, TypeOK
<1>2. st.kind = "link" \/ shortages' = 0 => chain'[1].didstat /\ chain'[1].pstat = st
  BY <1>1, GetStatEffect
<1> QED BY <1>2 DEF IsLink, StatFailed

LEMMA AskedStep ==
    ASSUME Inv, AskedInv, [Next]_vars
    PROVE  AskedInv'
<1>1. Inv' /\ Carried
  BY StepCarries
<1>2. ToFinal => ToFinal'
  BY <1>1 DEF Carried, ToFinal, IsLink
<1>3. CASE Operand
  <2>1. PICK st \in Stat :
          /\ GetStat(1, st)
          /\ \/ st = NoStat /\ pc' = "done"
             \/ st # NoStat /\ opts.arg = "named" /\ pc' = "sort"
             \/ pc' \in {"dir", "sort"}
             \/ st.kind = "link" /\ (IF didfinal THEN pc' = "islinktodir"
                                     ELSE pc' = "probe" /\ ret' = "islinktodir")
    BY <1>3 DEF Operand, EnterFinalTarget
  <2>2. pc = "main" /\ UNCHANGED <<didfinal, final>>
    BY <1>3 DEF Operand
  <2>3. NoStat.kind = "none"
    BY DEF NoStat
  <2> QED
    BY <1>1, <2>1, <2>2, <2>3, StatOfFirst
       DEF AskedInv, Carried, ToFinal, ForTarget, Walking, Described
<1>4. CASE IsLinkToDir
  BY <1>1, <1>4 DEF IsLinkToDir, AskedInv, Carried, ToFinal, ForTarget, Walking, Described
<1>5. CASE Sort
  BY <1>1, <1>5 DEF Sort, AskedInv, Carried, ToFinal, ForTarget, Walking, Described
<1>6. CASE Fields
  <2>1. CASE ~opts.targetinfo
    BY <1>1, <1>6, <2>1 DEF Fields, AskedInv, Carried, ToFinal, ForTarget, Walking, Described
  <2>2. CASE opts.targetinfo
    <3>1. PICK st \in Stat :
            /\ GetStat(1, st)
            /\ IF st.kind = "link"
               THEN IF didfinal THEN pc' = "targetrow"
                                ELSE pc' = "probe" /\ ret' = "targetrow"
               ELSE pc' = "row"
      BY <1>6, <2>2 DEF Fields, EnterFinalTarget
    <3>2. UNCHANGED <<didfinal, final>>
      BY <1>6 DEF Fields
    <3> QED
      BY <1>1, <2>2, <3>1, <3>2, StatOfFirst
         DEF AskedInv, Carried, ToFinal, ForTarget, Walking, Described
  <2> QED BY <2>1, <2>2
<1>7. CASE Name \/ NameIsLink \/ AskLoops \/ More \/ Arrow \/ PrintTarget \/ Judge
  <2>1. /\ UNCHANGED <<didfinal, final>>
        /\ pc \in Described
        /\ pc' \in Described \ {"row", "targetrow", "judge"}
    BY <1>7 DEF Name, NameIsLink, AskLoops, More, Arrow, PrintTarget, Judge,
                files, Described
  <2> QED
    BY <1>1, <2>1 DEF AskedInv, Carried, ToFinal, ForTarget, Walking, Described, IsLink
<1>8. CASE Status
  <2>1. pc = "status" /\ UNCHANGED <<didfinal, final>>
    BY <1>8 DEF Status
  <2>2. CASE pc' = "done"
    BY <1>1, <2>1, <2>2 DEF AskedInv, Carried, ToFinal, ForTarget, Walking, Described, IsLink
  <2>3. CASE pc' # "done"
    <3>1. opts.targetinfo
      BY <1>8, <2>3 DEF Status
    <3>2. PICK st \in Stat : GetStat(1, st) /\ st.kind = "link"
                             /\ (IF didfinal THEN pc' = "judge"
                                 ELSE pc' = "probe" /\ ret' = "judge")
      BY <1>8, <2>3 DEF Status, EnterFinalTarget
    <3> QED
      BY <1>1, <2>1, <3>1, <3>2, StatOfFirst
         DEF AskedInv, Carried, ToFinal, ForTarget, Walking, Described, IsLink
  <2> QED BY <2>2, <2>3
<1>9. CASE Probe \/ WalkStat \/ WalkRead
  <2>1. pc \in Walking /\ IsLink(1) /\ opts' = opts
    BY <1>1, <1>9 DEF Probe, WalkStat, WalkRead, Walking, AskedInv, Carried
  <2>2. \/ pc' \in Walking /\ UNCHANGED <<didfinal, final, ret>>
        \/ didfinal' /\ pc' = ret
    BY <1>9 DEF Probe, WalkStat, WalkRead, Remember, Walking
  <2>3. ret \in {"islinktodir", "targetrow", "judge"}
    BY <2>1 DEF Inv, TypeOK, WalkInv
  <2> QED
    BY <1>1, <1>2, <2>1, <2>2, <2>3
       DEF AskedInv, Carried, ToFinal, ForTarget, Walking, Described, IsLink
<1>10. CASE Change \/ UNCHANGED vars
  <2>1. UNCHANGED <<didfinal, final, pc, ret, chain>>
    BY <1>10 DEF Change, vars, files
  <2> QED
    BY <1>1, <2>1 DEF AskedInv, Carried, ToFinal, IsLink
<1>11. CASE Row
  <2>1. /\ UNCHANGED <<didfinal, final>>
        /\ pc \in {"row", "targetrow"} /\ pc' \in {pc, "name"}
    BY <1>11 DEF Row
  <2> QED
    BY <1>1, <1>2, <2>1 DEF AskedInv, Carried, ToFinal, ForTarget, Walking, Described, IsLink
<1> QED
  BY <1>3, <1>4, <1>5, <1>6, <1>7, <1>8, <1>9, <1>10, <1>11 DEF Next, Program, Terminated

\* What is described could be stat'd.
Shown == IF ToFinal THEN final # 0 /\ ~StatFailed(final) ELSE ~StatFailed(1)
\* The columns have not been begun.
Unfilled == {"main", "islinktodir", "sort", "fields"}
\* The columns are made.
Filled == {"name", "islink", "askloops", "more", "arrow", "printtarget", "status", "judge"}

\* The row says what the Files say, and the exit status is still to come.
VerdictInv ==
    /\ pc # "done" => exit = 0
    /\ pc \in Unfilled \/ (pc \in Walking /\ ret # "judge") => row = "none"
    /\ /\ shortages = 0 /\ opts.columns
       /\ pc \in Filled \/ (pc \in {"row", "targetrow"} /\ row # "none")
       => chain[1].didstat /\ row = IF Shown THEN "details" ELSE "?"
    /\ RowAndExitAgree

\* Once it is known what to describe, that does not change.
LEMMA ShownIsKept ==
    ASSUME Inv, AskedInv, [Next]_vars, shortages' = 0, chain[1].didstat, final' = final
    PROVE  /\ chain'[1] = chain[1] /\ ToFinal' = ToFinal
           /\ final # 0 => chain[final].didstat /\ chain'[final] = chain[final]
           /\ Shown' = Shown
<1>1. Kept /\ Carried
  BY StepCarries
<1>2. chain'[1] = chain[1] /\ opts' = opts /\ shortages = 0
  BY <1>1 DEF Carried
<1>3. final # 0 => chain[final].didstat /\ chain'[final] = chain[final]
  <2>1. final # 0 => final \in 1..Len(chain) /\ chain[final].didstat
    BY <1>2 DEF Inv, TypeOK, EndInv, AskedInv
  <2> QED BY <1>1, <2>1 DEF Kept
<1>4. ToFinal' = ToFinal
  BY <1>2 DEF ToFinal, IsLink
<1>5. StatFailed(1)' = StatFailed(1)
  BY <1>2 DEF StatFailed
<1>6. final # 0 => StatFailed(final)' = StatFailed(final)
  BY <1>3 DEF StatFailed
<1> QED BY <1>2, <1>3, <1>4, <1>5, <1>6 DEF Shown

LEMMA VerdictStep ==
    ASSUME Inv, AskedInv, VerdictInv, [Next]_vars
    PROVE  VerdictInv'
<1>1. Inv' /\ Carried /\ Kept
  BY StepCarries
<1>2. CASE Operand
  <2>1. PICK st \in Stat :
          /\ GetStat(1, st)
          /\ exit' = IF st = NoStat THEN 1 ELSE exit
          /\ \/ st = NoStat /\ pc' = "done"
             \/ pc' \in {"dir", "sort", "islinktodir", "probe"} /\ st # NoStat
    BY <1>2 DEF Operand, EnterFinalTarget, NoStat
  <2>2. pc = "main" /\ row' = row
    BY <1>2 DEF Operand
  <2> QED BY <2>1, <2>2 DEF VerdictInv, RowAndExitAgree, Filled, Unfilled
<1>3. CASE IsLinkToDir \/ Sort \/ Fields
  <2>1. exit' = exit /\ row' = row /\ pc \in Unfilled
        /\ pc' \notin Filled \cup {"done"}
    BY <1>3 DEF IsLinkToDir, Sort, Fields, EnterFinalTarget, outcome, Filled, Unfilled
  <2> QED BY <2>1 DEF VerdictInv, RowAndExitAgree, Unfilled
<1>4. CASE Row
  <2>1. exit' = exit /\ pc \in {"row", "targetrow"} /\ pc' \in {pc, "name"}
        /\ UNCHANGED <<didfinal, final>>
    BY <1>4 DEF Row
  <2>2. SUFFICES ASSUME shortages' = 0, opts.columns
                 PROVE  chain'[1].didstat /\ row' = IF Shown' THEN "details" ELSE "?"
    BY <1>1, <2>1 DEF VerdictInv, RowAndExitAgree, Carried, Unfilled, Walking
  <2>3. shortages = 0 /\ opts' = opts
    BY <1>1, <2>2 DEF Carried
  <2>4. row = "?" => chain[1].didstat /\ ~Shown
    BY <2>1, <2>2, <2>3 DEF VerdictInv
  <2>5. CASE pc = "row"
    <3>1. PICK st \in Stat :
            GetStat(1, st) /\ row' = IF st = NoStat \/ row = "?" THEN "?" ELSE "details"
      BY <1>4, <2>2, <2>5 DEF Row, ShowColumn
    <3>2. chain'[1].didstat /\ (StatFailed(1)' <=> st = NoStat)
      BY <2>2, <3>1, StatOfFirst
    <3>3. ~ToFinal /\ ~ToFinal'
      BY <1>1, <2>3, <2>5 DEF AskedInv, Described, Carried, ToFinal, IsLink
    <3>4. row = "?" => StatFailed(1)'
      BY <1>1, <2>4, <3>3 DEF Shown, Carried, StatFailed
    <3> QED BY <3>1, <3>2, <3>3, <3>4 DEF Shown
  <2>6. CASE pc = "targetrow"
    <3>1. ToFinal /\ chain[1].didstat
      BY <2>6 DEF AskedInv, ForTarget, ToFinal, IsLink
    <3>2. /\ chain'[1].didstat /\ Shown' = Shown
          /\ final # 0 => chain[final].didstat
      BY <2>1, <2>2, <3>1, ShownIsKept
    <3>3. CASE final = 0
      BY <1>4, <2>2, <2>6, <3>1, <3>2, <3>3 DEF Row, ShowColumn, Shown
    <3>4. CASE final # 0
      <4>1. PICK st \in Stat :
              GetStat(final, st) /\ row' = IF st = NoStat \/ row = "?" THEN "?" ELSE "details"
        BY <1>4, <2>2, <2>6, <3>4 DEF Row, ShowColumn
      <4>2. st = chain[final].pstat
        BY <3>2, <3>4, <4>1 DEF GetStat
      <4> QED BY <2>4, <3>1, <3>2, <3>4, <4>1, <4>2 DEF Shown, StatFailed
    <3> QED BY <3>3, <3>4
  <2> QED BY <2>1, <2>5, <2>6
<1>5. CASE Name \/ NameIsLink \/ AskLoops \/ More \/ Arrow \/ PrintTarget
  <2>1. /\ exit' = exit /\ row' = row /\ final' = final
        /\ pc \in Filled /\ pc' \in Filled
    BY <1>5 DEF Name, NameIsLink, AskLoops, More, Arrow, PrintTarget, outcome, files, Filled
  <2>2. pc # "done" /\ pc' \notin {"main", "done"}
    BY <2>1 DEF Filled
  <2>3. ASSUME shortages' = 0, opts.columns
        PROVE  chain'[1].didstat /\ row' = IF Shown' THEN "details" ELSE "?"
    <3>1. chain[1].didstat /\ row = IF Shown THEN "details" ELSE "?"
      BY <1>1, <2>1, <2>3 DEF VerdictInv, Carried
    <3> QED BY <2>1, <2>3, <3>1, ShownIsKept
  <2> QED
    BY <1>1, <2>1, <2>2, <2>3
       DEF VerdictInv, RowAndExitAgree, Carried, Filled, Unfilled, Walking
<1>6. CASE Status
  <2>1. /\ pc = "status" /\ final' = final /\ row' = row /\ opts' = opts
        /\ pc' \in {"judge", "done"} \/ (pc' = "probe" /\ ret' = "judge")
    BY <1>6 DEF Status, EnterFinalTarget
  <2>2. ASSUME shortages' = 0, opts.columns
        PROVE  /\ chain'[1].didstat /\ row' = IF Shown' THEN "details" ELSE "?"
               /\ shortages = 0 /\ chain[1].didstat /\ row = IF Shown THEN "details" ELSE "?"
    <3>1. shortages = 0 /\ chain[1].didstat /\ row = IF Shown THEN "details" ELSE "?"
      BY <1>1, <2>1, <2>2 DEF VerdictInv, Carried, Filled
    <3> QED BY <2>1, <2>2, <3>1, ShownIsKept
  <2>3. pc' # "done" => exit' = 0
    BY <1>6, <2>1 DEF Status, EnterFinalTarget, VerdictInv
  <2>4. RowAndExitAgree'
    <3> SUFFICES ASSUME pc' = "done", shortages' = 0, opts.columns
                 PROVE  exit' = 1 <=> row # "details"
      BY <2>1 DEF RowAndExitAgree
    <3>1. chain[1].didstat /\ row = IF Shown THEN "details" ELSE "?"
      BY <2>2
    <3>2. CASE StatFailed(1)
      <4>1. exit' = 1
        BY <1>6, <3>2 DEF Status
      <4>2. ~Shown
        BY <3>2 DEF Shown, ToFinal, IsLink, StatFailed, NoStat
      <4> QED BY <3>1, <4>1, <4>2
    <3>3. CASE ~StatFailed(1)
      <4>1. exit' = 0
        BY <1>6, <2>1, <3>3 DEF Status, VerdictInv
      <4>2. ~ToFinal
        <5>1. CASE ~opts.targetinfo
          BY <5>1 DEF ToFinal
        <5>2. CASE opts.targetinfo
          <6>1. PICK st \in Stat : GetStat(1, st)
                                   /\ (st.kind = "link" => pc' \in {"judge", "probe"})
            BY <1>6, <3>3, <5>2 DEF Status, EnterFinalTarget
          <6>2. st = chain[1].pstat
            BY <3>1, <6>1 DEF GetStat
          <6> QED BY <6>1, <6>2 DEF ToFinal, IsLink
        <5> QED BY <5>1, <5>2
      <4> QED BY <3>1, <3>3, <4>1, <4>2 DEF Shown
    <3> QED BY <3>2, <3>3
  <2> QED BY <2>1, <2>2, <2>3, <2>4 DEF VerdictInv, Unfilled, Walking
<1>7. CASE Judge
  <2>1. /\ pc = "judge" /\ final' = final /\ row' = row /\ pc' = "done" /\ opts' = opts
        /\ shortages' = shortages /\ chain' = chain
        /\ exit' = IF FinalUnknown THEN 1 ELSE exit
    BY <1>7 DEF Judge, files
  <2>2. ToFinal /\ exit = 0
    BY <2>1 DEF AskedInv, ForTarget, VerdictInv
  <2>3. shortages = 0 /\ opts.columns => row = IF Shown THEN "details" ELSE "?"
    BY <2>1 DEF VerdictInv, Filled
  <2> QED BY <2>1, <2>2, <2>3 DEF VerdictInv, RowAndExitAgree, Shown, FinalUnknown, Filled,
                                      Unfilled, Walking
<1>8. CASE Probe \/ WalkStat \/ WalkRead
  <2>1. /\ exit' = exit /\ row' = row /\ pc \in Walking
        /\ (pc' \in Walking /\ ret' = ret) \/ pc' = ret
    BY <1>8 DEF Probe, WalkStat, WalkRead, Remember, Walking, outcome
  <2>2. ret \in {"islinktodir", "targetrow", "judge"}
    BY <2>1 DEF Inv, TypeOK, WalkInv
  <2>3. pc' \in Filled => shortages # 0
    BY <2>1, <2>2 DEF AskedInv, ForTarget, ToFinal, Filled, Walking
  <2>4. pc' \in Unfilled \cup {"row", "targetrow"} => row' = "none"
    BY <2>1, <2>2 DEF VerdictInv, Walking, Unfilled
  <2> QED
    BY <1>1, <2>1, <2>2, <2>3, <2>4
       DEF VerdictInv, RowAndExitAgree, Walking, Carried, Unfilled, Filled
<1>9. CASE Change \/ UNCHANGED vars
  <2>1. UNCHANGED <<shortages, opts, chain, didfinal, final, pc, ret, row, exit>>
    BY <1>9 DEF Change, vars, files, outcome
  <2>2. Shown' = Shown
    BY <2>1 DEF Shown, ToFinal, IsLink, StatFailed
  <2> QED BY <2>1, <2>2 DEF VerdictInv, RowAndExitAgree
<1> QED
  BY <1>2, <1>3, <1>4, <1>5, <1>6, <1>7, <1>8, <1>9 DEF Next, Program, Terminated

\* Where -L's walk has been before, -V's goes as far and no further.
ReachInv ==
    shortages = 0 /\ opts.show = "all" /\ final # 0 /\ ~loops =>
      /\ pc \in Arrowing => pos <= final
      /\ pc \in {"status", "judge", "done"} => arrows = final - 1

LEMMA ReachStep ==
    ASSUME Inv, AskedInv, ReachInv, [Next]_vars
    PROVE  ReachInv'
<1>1. Inv' /\ Carried /\ Kept
  BY StepCarries
<1> SUFFICES ASSUME shortages' = 0, opts'.show = "all", final' # 0, ~loops'
             PROVE  /\ pc' \in Arrowing => pos' <= final'
                    /\ pc' \in {"status", "judge", "done"} => arrows' = final' - 1
  BY DEF ReachInv
<1>2. shortages = 0 /\ opts.show = "all"
  BY <1>1 DEF Carried
<1>3. ASSUME final # 0
      PROVE  /\ final \in 2..Len(chain) /\ chain \in Seq(File)
             /\ \A i \in 1..(final - 1) : IsLink(i)
             /\ chain[final].didstat /\ ~IsLink(final)
             /\ Len(chain) <= MaxChain + 1 /\ MaxChain \in Nat /\ pos \in 1..Len(chain)
  <2>1. didfinal /\ FinalIsTheEnd
    BY <1>3, InvIsTheEnd DEF AskedInv
  <2> QED BY <1>2, <1>3, <2>1, ChainAssumption DEF FinalIsTheEnd, Inv, TypeOK, ChainBounded
<1>4. CASE Operand
  BY <1>4 DEF Operand, AskedInv
<1>5. CASE IsLinkToDir \/ Sort \/ Fields \/ Row
  BY <1>5 DEF IsLinkToDir, Sort, Fields, Row, EnterFinalTarget, Arrowing
<1>6. CASE Name
  BY <1>2, <1>6 DEF Name, Arrowing
<1>7. CASE NameIsLink
  <2>1. final # 0 /\ IsLink(1)
    BY <1>3, <1>7 DEF NameIsLink
  <2>2. pc' = "askloops"
    BY <1>2, <1>7, <2>1 DEF NameIsLink, GetStat, IsLink
  <2> QED BY <2>2 DEF Arrowing
<1>8. CASE AskLoops
  <2>1. final' = final /\ pos' = 1 /\ pc' = "more"
    BY <1>8 DEF AskLoops, files, Inv, WalkInv, Early
  <2> QED BY <1>3, <2>1
<1>9. CASE More
  <2>1. /\ UNCHANGED <<didfinal, final, pos, loops, arrows>> /\ pc = "more"
        /\ pos <= final /\ arrows = pos - 1
    BY <1>2, <1>9 DEF More, outcome, ReachInv, Arrowing, Inv, WalkInv
  <2>2. PICK st \in Stat : /\ GetStat(pos, st)
                           /\ pc' = IF Follow(st) THEN "arrow" ELSE "status"
    BY <1>9 DEF More
  <2>3. CASE Follow(st)
    BY <2>1, <2>2, <2>3
  <2>4. CASE ~Follow(st)
    <3>1. CASE pos < final
      <4>1. st.kind = "link"
        BY <1>3, <2>1, <2>2, <3>1 DEF GetStat, IsLink
      <4>2. pos - 1 < MaxChain
        BY <1>3, <2>1, <3>1
      <4> QED BY <2>1, <2>4, <4>1, <4>2 DEF Follow
    <3>2. CASE pos = final
      BY <2>1, <2>2, <2>4, <3>2 DEF Arrowing
    <3> QED BY <1>3, <2>1, <3>1, <3>2
  <2> QED BY <2>3, <2>4
<1>10. CASE Arrow
  <2>1. /\ UNCHANGED <<didfinal, final, loops, arrows>> /\ pc = "arrow"
        /\ pos <= final /\ IsLink(pos)
    BY <1>2, <1>10 DEF Arrow, outcome, ReachInv, Arrowing, Inv, WalkInv
  <2>2. pos < final /\ pos < Len(chain)
    BY <1>3, <2>1
  <2>3. pc' = "printtarget" /\ pos' = pos + 1
    BY <1>10, <2>2 DEF Arrow, GetTarget
  <2> QED BY <1>3, <2>1, <2>2, <2>3
<1>11. CASE PrintTarget
  BY <1>2, <1>11 DEF PrintTarget, ReachInv, Arrowing
<1>12. CASE Status
  BY <1>2, <1>12 DEF Status, EnterFinalTarget, ReachInv, Arrowing
<1>13. CASE Judge
  BY <1>2, <1>13 DEF Judge, files, ReachInv, Arrowing
<1>14. CASE Probe \/ WalkStat \/ WalkRead
  <2>1. pc \in Walking /\ pc' \in Walking \cup {ret}
    BY <1>14 DEF Probe, WalkStat, WalkRead, Remember, Walking
  <2>2. ret \in {"islinktodir", "targetrow"}
    BY <1>2, <2>1 DEF Inv, TypeOK, WalkInv, AskedInv, ForTarget, ToFinal
  <2> QED BY <2>1, <2>2 DEF Walking, Arrowing
<1>15. CASE Change \/ UNCHANGED vars
  BY <1>2, <1>15 DEF Change, vars, files, outcome, ReachInv
<1> QED
  BY <1>4, <1>5, <1>6, <1>7, <1>8, <1>9, <1>10, <1>11, <1>12, <1>13, <1>14, <1>15
     DEF Next, Program, Terminated

\* All of it holds of every listing.
AgreeInv == Inv /\ AskedInv /\ VerdictInv /\ ReachInv

LEMMA AlwaysAgree == Spec => []AgreeInv
<1>1. Init => AgreeInv
  <2> SUFFICES ASSUME Init PROVE AgreeInv
    OBVIOUS
  <2>1. /\ ~didfinal /\ final = 0 /\ pc \in {"main", "sort"} /\ exit = 0 /\ row = "none"
    BY DEF Init
  <2> QED
    BY <2>1, InitInv DEF AgreeInv, AskedInv, VerdictInv, ReachInv, RowAndExitAgree,
                         Walking, ForTarget, Described, Filled
<1>2. AgreeInv /\ [Next]_vars => AgreeInv'
  BY StepCarries, AskedStep, VerdictStep, ReachStep DEF AgreeInv
<1> QED BY <1>1, <1>2, PTL DEF Spec

\* The row of an entry and its share of the exit status agree, although they
\* are worked out by different functions at different times: an entry is shown
\* with ? in the columns made from getstat(), or dropped, exactly when l exits
\* with 1, unless memory runs out; -p's ??? is access(2)'s and no part of it
\* (getfilefields(), filefields.c:78; listfiles(), l.c:312-326; SPEC.md:336).
THEOREM RowAgreesWithExit == Spec => []RowAndExitAgree
<1>1. AgreeInv => RowAndExitAgree
  BY DEF AgreeInv, VerdictInv
<1> QED BY <1>1, AlwaysAgree, PTL

\* -V's arrows end at the target -L describes, however often the links change
\* between the two walks, unless -V was told that the chain loops
\* (getnamefield(), filefields.c:353-394; findfinaltarget(), file.c:873-900).
THEOREM ArrowsReachTheFinal == Spec => []ArrowsReachFinal
<1>1. AgreeInv => ArrowsReachFinal
  BY DEF AgreeInv, ReachInv, ArrowsReachFinal
<1> QED BY <1>1, AlwaysAgree, PTL

-----------------------------------------------------------------------------
(* While nothing changes, the Files of the chain are what the kernel finds.    *)

\* Induction: a set that has 0 and with every n also n + 1 has every number,
\* as the least one it lacked would be neither.
LEMMA InductionInSet ==
    ASSUME NEW S, 0 \in S, \A n \in Nat : n \in S => n + 1 \in S
    PROVE  Nat \subseteq S
<1> DEFINE Missing == Nat \ S
<1>1. SUFFICES ASSUME Missing # {} PROVE FALSE
  OBVIOUS
<1>2. PICK n \in Missing : \A m \in Missing : ~ (<<m, n>> \in OpToRel(<, Nat))
  <2>1. Missing \subseteq Nat
    OBVIOUS
  <2> HIDE DEF Missing
  <2> QED BY <1>1, <2>1, WFMin, NatLessThanWellFounded, Zenon
<1>3. n \in Nat /\ n # 0 /\ n - 1 \in Nat /\ n - 1 < n
  OBVIOUS
<1>4. n - 1 \notin Missing
  BY <1>2, <1>3 DEF OpToRel
<1> QED BY <1>3, <1>4

\* The path the kernel reaches in one more link, if there is one.
Onward(q) == IF Readable(q) THEN fs[q].to ELSE q

\* The recursive function Hop(p) exists: it is defined as far as any k.
LEMMA HopExists ==
    ASSUME NEW p, NEW k \in Nat
    PROVE  \E h : h = [n \in 0..k |-> IF n = 0 THEN p ELSE Onward(h[n - 1])]
<1> DEFINE S == {j \in Nat :
                   \E h : h = [n \in 0..j |-> IF n = 0 THEN p ELSE Onward(h[n - 1])]}
<1>1. 0 \in S
  <2>1. [n \in 0..0 |-> p] =
          [n \in 0..0 |-> IF n = 0 THEN p ELSE Onward([m \in 0..0 |-> p][n - 1])]
    OBVIOUS
  <2> QED BY <2>1
<1>2. ASSUME NEW j \in Nat, j \in S
      PROVE  j + 1 \in S
  <2>1. PICK h : h = [n \in 0..j |-> IF n = 0 THEN p ELSE Onward(h[n - 1])]
    BY <1>2
  <2>2. PICK g : g = [n \in 0..(j + 1) |-> IF n = j + 1 THEN Onward(h[j]) ELSE h[n]]
    OBVIOUS
  <2>3. ASSUME NEW n \in 0..(j + 1)
        PROVE  g[n] = IF n = 0 THEN p ELSE Onward(g[n - 1])
    <3>1. CASE n = j + 1
      <4>1. g[n] = Onward(h[j]) /\ g[n - 1] = h[j] /\ n # 0
        BY <2>2, <3>1
      <4> QED BY <4>1
    <3>2. CASE n = 0
      BY <2>1, <2>2, <3>2
    <3>3. CASE n # j + 1 /\ n # 0
      <4>1. n \in 0..j /\ n - 1 \in 0..j /\ n - 1 \in 0..(j + 1) /\ n - 1 # j + 1
        BY <3>3
      <4>2. g[n] = h[n] /\ g[n - 1] = h[n - 1]
        BY <2>2, <3>3, <4>1
      <4>3. h[n] = Onward(h[n - 1])
        BY <2>1, <3>3, <4>1
      <4> QED BY <3>3, <4>2, <4>3
    <3> QED BY <3>1, <3>2, <3>3
  <2>4. g = [n \in 0..(j + 1) |-> IF n = 0 THEN p ELSE Onward(g[n - 1])]
    BY <2>2, <2>3, Zenon
  <2> QED BY <2>4
<1>3. Nat \subseteq S
  <2> HIDE DEF S
  <2> QED BY <1>1, <1>2, InductionInSet
<1> QED BY <1>3

LEMMA HopIs ==
    ASSUME NEW p
    PROVE  /\ Hop(p)[0] = p
           /\ \A n \in 1..MaxChain : Hop(p)[n] = Onward(Hop(p)[n - 1])
<1>1. MaxChain \in Nat
  BY ChainAssumption
<1>2. \E h : h = [n \in 0..MaxChain |-> IF n = 0 THEN p ELSE Onward(h[n - 1])]
  BY <1>1, HopExists
<1>3. Hop(p) = CHOOSE h : h = [n \in 0..MaxChain |-> IF n = 0 THEN p ELSE Onward(h[n - 1])]
  BY Zenon DEF Hop, Onward
<1>4. Hop(p) = [n \in 0..MaxChain |-> IF n = 0 THEN p ELSE Onward(Hop(p)[n - 1])]
  BY <1>2, <1>3, Zenon
<1> QED BY <1>1, <1>4

\* The path the kernel reaches from the File in n links.
Place(n) == Hop(First)[n]

LEMMA PlaceIs ==
    /\ Place(0) = First
    /\ \A n \in 1..MaxChain : Place(n) = Onward(Place(n - 1))
BY HopIs DEF Place

LEMMA SamePlaces ==
    ASSUME fs' = fs
    PROVE  /\ \A n : Place(n)' = Place(n)
           /\ \A q : Readable(q)' = Readable(q) /\ LstatResult(q)' = LstatResult(q)
           /\ \A q : ChainLoops(q)' = ChainLoops(q)
<1>1. \A q : Readable(q)' = Readable(q) /\ LstatResult(q)' = LstatResult(q)
  BY DEF Readable, LstatResult
<1>2. \A q : Hop(q)' = Hop(q)
  BY Zenon DEF Hop, Readable
<1> QED BY <1>1, <1>2 DEF Place, ChainLoops

\* Where there is no link to follow the kernel stays.
LEMMA KernelSettles ==
    ASSUME NEW n \in 0..MaxChain, ~Readable(Place(n))
    PROVE  Place(MaxChain) = Place(n)
<1>1. MaxChain \in Nat
  BY ChainAssumption
<1> DEFINE S == {k \in Nat : n + k <= MaxChain => Place(n + k) = Place(n)}
<1>2. 0 \in S
  BY <1>1
<1>3. ASSUME NEW k \in Nat, k \in S
      PROVE  k + 1 \in S
  <2>1. SUFFICES ASSUME n + (k + 1) <= MaxChain PROVE Place(n + (k + 1)) = Place(n)
    OBVIOUS
  <2>2. n + (k + 1) \in 1..MaxChain /\ n + (k + 1) - 1 = n + k /\ n + k <= MaxChain
    BY <1>1, <2>1
  <2>3. Place(n + (k + 1)) = Onward(Place(n + k))
    BY <2>2, PlaceIs
  <2>4. Place(n + k) = Place(n)
    BY <1>3, <2>2
  <2> QED BY <2>3, <2>4 DEF Onward
<1>4. Nat \subseteq S
  <2> HIDE DEF S
  <2> QED BY <1>2, <1>3, InductionInSet
<1>5. MaxChain - n \in Nat /\ n + (MaxChain - n) = MaxChain
  BY <1>1
<1> QED BY <1>1, <1>4, <1>5

\* The Files of the chain stand for the paths the kernel goes through, and
\* remember what it says of them.
Followed ==
    /\ \A i \in 1..Len(chain) :
         /\ chain[i].path = Place(i - 1)
         /\ chain[i].didstat => chain[i].pstat = LstatResult(chain[i].path)
    /\ \A i \in 1..(Len(chain) - 1) : Readable(Place(i - 1))

LEMMA StatKeepsFollowed ==
    ASSUME Inv, Followed, StatsAtMost, fs' = fs
    PROVE  Followed'
<1>1. Kept /\ Len(chain') = Len(chain) /\ chain \in Seq(File) /\ TypeOK
  BY StatKeepsChain DEF Inv, TypeOK
<1>2. ASSUME NEW i \in 1..Len(chain), chain'[i].didstat
      PROVE  chain'[i].pstat = LstatResult(chain'[i].path)
  <2>1. chain'[i].path = chain[i].path /\ (chain[i].didstat => chain'[i] = chain[i])
    BY <1>1 DEF Kept
  <2>2. CASE chain[i].didstat
    BY <2>1, <2>2 DEF Followed
  <2>3. CASE ~chain[i].didstat
    <3>1. PICK j \in 1..Len(chain), st \in Stat : GetStat(j, st)
      BY <1>2, <2>3 DEF StatsAtMost
    <3>2. j = i
      <4>1. \A k \in 1..Len(chain) : k # j => chain'[k] = chain[k]
        BY <1>1, <3>1, GetStatEffect
      <4> QED BY <1>2, <2>3, <4>1
    <3>3. chain' = [chain EXCEPT ![i] = [path |-> chain[i].path, didstat |-> TRUE, pstat |-> st]]
          /\ st = LstatResult(chain[i].path)
      BY <1>2, <2>3, <3>1, <3>2 DEF GetStat
    <3>4. chain'[i].pstat = st
      BY <1>1, <3>3
    <3> QED BY <2>1, <3>3, <3>4
  <2> QED BY <2>2, <2>3
<1>3. \A i \in 1..Len(chain) : chain'[i].path = Place(i - 1)
  BY <1>1 DEF Kept, Followed
<1>4. \A i \in 1..(Len(chain) - 1) : Readable(Place(i - 1))
  BY DEF Followed
<1>5. /\ \A n : Place(n)' = Place(n)
      /\ \A q : Readable(q)' = Readable(q) /\ LstatResult(q)' = LstatResult(q)
  BY SamePlaces
<1> QED BY <1>1, <1>2, <1>3, <1>4, <1>5 DEF Followed

\* So does the File that a readlink() adds.
LEMMA ReadKeepsFollowed ==
    ASSUME Inv, Followed, pos <= MaxChain, NEW found \in BOOLEAN, GetTarget(found),
           shortages' = 0, shortages = 0, fs' = fs
    PROVE  /\ Followed'
           /\ found <=> Readable(Place(pos - 1))
<1>1. /\ chain \in Seq(File) /\ pos \in 1..Len(chain) /\ shortages \in Nat
      /\ MaxChain \in Nat
  BY ChainAssumption DEF Inv, TypeOK
<1>2. /\ \A n : Place(n)' = Place(n)
      /\ \A q : Readable(q)' = Readable(q) /\ LstatResult(q)' = LstatResult(q)
  BY SamePlaces
<1>3. chain[pos].path = Place(pos - 1)
  BY <1>1 DEF Followed
<1>4. CASE pos < Len(chain) /\ found /\ UNCHANGED chain
  BY <1>1, <1>2, <1>4 DEF Followed
<1>5. CASE /\ pos = Len(chain) /\ found /\ Readable(chain[pos].path)
           /\ chain' = Append(chain, NewFile(fs[chain[pos].path].to))
  <2>1. PICK f : f = NewFile(fs[chain[pos].path].to)
    OBVIOUS
  <2>2. Len(chain') = pos + 1 /\ chain'[pos + 1] = f
        /\ \A i \in 1..pos : chain'[i] = chain[i]
    BY <1>1, <1>5, <2>1
  <2>3. f.path = Place(pos) /\ ~f.didstat
    <3>1. pos \in 1..MaxChain
      BY <1>1
    <3>2. Place(pos) = Onward(Place(pos - 1))
      BY <3>1, PlaceIs
    <3> QED BY <1>3, <1>5, <2>1, <3>2 DEF NewFile, Onward
  <2>4. \A i \in 1..Len(chain') : chain'[i].path = Place(i - 1)
                                  /\ (chain'[i].didstat => chain'[i].pstat = LstatResult(chain'[i].path))
    <3> TAKE i \in 1..Len(chain')
    <3>1. CASE i = pos + 1
      BY <1>1, <2>2, <2>3, <3>1
    <3>2. CASE i # pos + 1
      <4>1. i \in 1..pos /\ i \in 1..Len(chain)
        BY <1>1, <1>5, <2>2, <3>2
      <4> QED BY <2>2, <4>1 DEF Followed
    <3> QED BY <3>1, <3>2
  <2>5. \A i \in 1..(Len(chain') - 1) : Readable(Place(i - 1))
    BY <1>1, <1>3, <1>5, <2>2 DEF Followed
  <2> QED BY <1>2, <1>3, <1>5, <2>4, <2>5 DEF Followed
<1>6. CASE pos = Len(chain) /\ ~found /\ ~Readable(chain[pos].path) /\ UNCHANGED chain
  BY <1>1, <1>2, <1>3, <1>6 DEF Followed
<1>7. CASE ~found /\ shortages' = shortages + 1
  BY <1>1, <1>7
<1> QED BY <1>4, <1>5, <1>6, <1>7 DEF GetTarget

\* What the walk to the final target knows while nothing has changed.
KernelInv ==
    changes = 0 /\ shortages = 0 =>
      /\ Followed
      /\ pc \in {"walk", "read"} => ~ChainLoops(First)
      /\ FinalIsKernels

\* What lstat() says of a path, and what there is to follow from it.
LEMMA LstatIs ==
    ASSUME Inv, NEW p \in Paths
    PROVE  /\ LstatResult(p).kind = "link" <=> fs[p].kind \in {"link", "locked"}
           /\ LstatResult(p).kind = "link" => LstatResult(p).ino = fs[p].ino
           /\ Readable(p) <=> fs[p].kind = "link"
<1>1. fs[p] \in Entry
  BY DEF Inv, TypeOK
<1> QED BY <1>1 DEF LstatResult, Readable, Entry, NoStat

LEMMA PlaceType ==
    ASSUME Inv, Followed, NEW i \in 1..Len(chain)
    PROVE  chain[i].path = Place(i - 1) /\ Place(i - 1) \in Paths
<1>1. chain[i] \in File
  BY DEF Inv, TypeOK
<1> QED BY <1>1 DEF Followed, File

LEMMA KernelStep ==
    ASSUME Inv, AskedInv, KernelInv, [Next]_vars
    PROVE  KernelInv'
<1>1. Inv' /\ Kept /\ Carried
  BY StepCarries
<1>2. /\ 1 \in 1..Len(chain) /\ pos \in 1..Len(chain) /\ final \in 0..Len(chain)
      /\ changes \in Nat /\ shortages \in Nat /\ MaxChain \in Nat /\ KernelMax \in Nat
      /\ KernelMax < MaxChain /\ Len(chain) <= MaxChain + 1 /\ chain \in Seq(File)
  BY ChainAssumption DEF Inv, TypeOK, ChainBounded
<1>3. SUFFICES ASSUME changes' = 0, shortages' = 0, ~Change
               PROVE  KernelInv'
  BY <1>2 DEF KernelInv, Change
<1>4. fs' = fs /\ changes = 0 /\ shortages = 0
  <2>1. UNCHANGED environment
    BY <1>3 DEF Next, Program, Terminated, vars, environment, Operand, IsLinkToDir,
       Sort, Fields, Row, Name, NameIsLink, AskLoops, More, Arrow, PrintTarget,
       Status, Judge, Probe, WalkStat, WalkRead
  <2> QED BY <1>1, <1>3, <2>1 DEF environment, Carried
<1>5. /\ Followed
      /\ pc \in {"walk", "read"} => ~ChainLoops(First)
      /\ FinalIsKernels
  BY <1>4 DEF KernelInv
<1>6. /\ \A n : Place(n)' = Place(n)
      /\ \A q : Readable(q)' = Readable(q) /\ LstatResult(q)' = LstatResult(q)
      /\ \A q : ChainLoops(q)' = ChainLoops(q)
  BY <1>4, SamePlaces
<1>7. chain[1].path = First
  BY <1>2, <1>5, PlaceIs DEF Followed
\* A step that leaves the final target alone, and does not begin to walk.
<1>8. ASSUME Followed', UNCHANGED <<didfinal, final>>,
             pc' \in {"walk", "read"} => pc \in {"walk", "read"}
      PROVE  KernelInv'
  <2>1. didfinal /\ final # 0 => chain'[final].path = chain[final].path
    BY <1>1, <1>2 DEF Kept
  <2>2. FinalIsKernels'
    BY <1>4, <1>5, <1>6, <1>8, <2>1 DEF FinalIsKernels, Place
  <2> QED BY <1>5, <1>6, <1>8, <2>2 DEF KernelInv
<1>9. CASE Operand \/ IsLinkToDir \/ Sort \/ Fields \/ Row \/ Name
  <2>1. StatsAtMost
    BY <1>2, <1>9 DEF Operand, IsLinkToDir, Sort, Fields, Row, Name, StatsAtMost,
                      ShowColumn, PrintName
  <2>2. UNCHANGED <<didfinal, final>> /\ pc' \notin {"walk", "read"}
    BY <1>9 DEF Operand, IsLinkToDir, Sort, Fields, Row, Name, EnterFinalTarget
  <2> QED BY <1>4, <1>5, <1>8, <2>1, <2>2, StatKeepsFollowed
<1>10. CASE NameIsLink \/ AskLoops \/ More \/ PrintTarget \/ Status \/ Judge \/ UNCHANGED vars
  <2>1. StatsAtMost
    BY <1>2, <1>10 DEF NameIsLink, AskLoops, More, PrintTarget, Status, Judge, vars,
                       StatsAtMost, PrintName, files
  <2>2. UNCHANGED <<didfinal, final>>
        /\ (pc' \in {"walk", "read"} => pc \in {"walk", "read"})
    BY <1>10 DEF NameIsLink, AskLoops, More, PrintTarget, Status, Judge, vars, files,
                 EnterFinalTarget
  <2> QED BY <1>4, <1>5, <1>8, <2>1, <2>2, StatKeepsFollowed
<1>11. CASE Arrow
  <2>1. PICK found \in BOOLEAN : GetTarget(found)
    BY <1>11 DEF Arrow
  <2>2. UNCHANGED <<didfinal, final>> /\ pos <= MaxChain /\ pc' \notin {"walk", "read"}
    BY <1>11 DEF Arrow, Inv, WalkInv
  <2> QED BY <1>3, <1>4, <1>5, <1>8, <2>1, <2>2, ReadKeepsFollowed
<1>12. CASE Probe
  <2>1. StatsAtMost
    BY <1>12 DEF Probe, StatsAtMost
  <2>2. Followed'
    BY <1>4, <1>5, <2>1, StatKeepsFollowed
  <2>3. CASE ChainLoops(First)
    <3>1. didfinal' /\ final' = 0 /\ pc' = ret /\ ret \notin {"walk", "read"}
      BY <1>7, <1>12, <2>3 DEF Probe, Remember, Inv, TypeOK
    <3> QED BY <1>6, <2>2, <2>3, <3>1 DEF KernelInv, FinalIsKernels
  <2>4. CASE ~ChainLoops(First)
    <3>1. UNCHANGED <<didfinal, final>> /\ pc = "probe"
      BY <1>7, <1>12, <2>4 DEF Probe
    <3>2. ~didfinal'
      BY <3>1 DEF Inv, WalkInv, Walking
    <3> QED BY <1>6, <2>2, <2>4, <3>2 DEF KernelInv, FinalIsKernels
  <2> QED BY <2>3, <2>4
<1>13. CASE WalkStat
  <2>1. PICK st \in Stat :
          /\ GetStat(pos, st)
          /\ IF st.kind # "link" THEN Remember(IF pos = 1 THEN 0 ELSE pos)
             ELSE IF AtCap THEN Remember(0)
             ELSE pc' = "read" /\ UNCHANGED <<didfinal, final, pos>>
    BY <1>13 DEF WalkStat
  <2>2. StatsAtMost
    BY <1>2, <2>1 DEF StatsAtMost
  <2>3. Followed'
    BY <1>4, <1>5, <2>2, StatKeepsFollowed
  <2>4. pc = "walk" /\ ~ChainLoops(First) /\ IsLink(1) /\ ret \notin {"walk", "read"}
    BY <1>5, <1>13 DEF WalkStat, AskedInv, Walking, Inv, TypeOK
  <2>5. /\ chain'[pos].didstat /\ chain'[pos].pstat = st /\ Len(chain') = Len(chain)
        /\ chain'[pos].path = chain[pos].path
    BY <1>2, <1>3, <2>1, GetStatEffect DEF Inv
  <2>6. /\ st = LstatResult(Place(pos - 1)) /\ Place(pos - 1) \in Paths
        /\ chain'[pos].path = Place(pos - 1)
    <3>1. chain[pos].path = Place(pos - 1) /\ Place(pos - 1) \in Paths
      BY <1>2, <1>5, PlaceType
    <3> QED BY <1>2, <1>6, <2>3, <2>5, <3>1 DEF Followed
  <2>7. CASE st.kind # "link"
    <3>1. pos # 1
      BY <1>1, <2>4, <2>5, <2>7 DEF Carried, IsLink
    <3>2. didfinal' /\ final' = pos /\ pos # 0 /\ pc' = ret
      BY <1>2, <2>1, <2>7, <3>1 DEF Remember
    <3>3. ~Readable(Place(pos - 1)) /\ fs[Place(pos - 1)].kind # "locked"
      BY <2>6, <2>7, LstatIs
    <3>4. Place(MaxChain) = Place(pos - 1)
      <4>1. pos - 1 \in 0..MaxChain
        BY <1>2
      <4> QED BY <3>3, <4>1, KernelSettles
    <3>5. chain'[final'].path = Place(MaxChain)
      BY <2>6, <3>2, <3>4
    <3>6. FinalIsKernels'
      BY <1>4, <1>6, <2>4, <3>2, <3>3, <3>4, <3>5 DEF FinalIsKernels, Place
    <3> QED BY <2>3, <2>4, <3>2, <3>6 DEF KernelInv
  <2>8. CASE st.kind = "link" /\ AtCap
    <3>1. pos = MaxChain + 1 /\ Len(chain) = MaxChain + 1
      BY <1>2, <2>8 DEF AtCap
    <3>2. \A n \in 0..KernelMax : Readable(Place(n))
      <4>1. TAKE n \in 0..KernelMax
      <4>2. n + 1 \in 1..(Len(chain) - 1) /\ (n + 1) - 1 = n
        BY <1>2, <3>1
      <4> QED BY <1>5, <4>2 DEF Followed
    <3> QED BY <2>4, <3>2 DEF ChainLoops, Place
  <2>9. CASE st.kind = "link" /\ ~AtCap
    <3>1. pc' = "read" /\ UNCHANGED <<didfinal, final>>
      BY <2>1, <2>9
    <3> QED BY <1>8, <2>3, <2>4, <3>1
  <2> QED BY <2>7, <2>8, <2>9
<1>14. CASE WalkRead
  <2>1. PICK found \in BOOLEAN :
          /\ GetTarget(found)
          /\ IF found
             THEN pc' = "walk" /\ pos' = pos + 1 /\ UNCHANGED <<didfinal, final>>
             ELSE Remember(0)
    BY <1>14 DEF WalkRead, TargetIfUnreadable
  <2>2. /\ pc = "read" /\ ret \notin {"walk", "read"} /\ pos <= MaxChain /\ IsLink(pos)
    BY <1>14 DEF WalkRead, Inv, TypeOK, WalkInv
  <2>3. Followed' /\ (found <=> Readable(Place(pos - 1)))
    BY <1>3, <1>4, <1>5, <2>1, <2>2, ReadKeepsFollowed
  <2>4. CASE found
    BY <1>8, <2>1, <2>2, <2>3, <2>4
  <2>5. CASE ~found
    <3>1. didfinal' /\ final' = 0 /\ pc' = ret
      BY <2>1, <2>5 DEF Remember
    <3>2. chain[pos].path = Place(pos - 1) /\ Place(pos - 1) \in Paths
      BY <1>2, <1>5, PlaceType
    <3>3. fs[Place(pos - 1)].kind = "locked"
      <4>1. LstatResult(Place(pos - 1)).kind = "link"
        BY <1>2, <1>5, <2>2, <3>2 DEF Followed, IsLink
      <4> QED BY <2>3, <2>5, <3>2, <4>1, LstatIs
    <3>4. Place(MaxChain) = Place(pos - 1)
      <4>1. pos - 1 \in 0..MaxChain
        BY <1>2, <2>2
      <4> QED BY <2>3, <2>5, <4>1, KernelSettles
    <3>5. FinalIsKernels'
      BY <1>4, <1>6, <3>1, <3>3, <3>4 DEF FinalIsKernels, Place
    <3> QED BY <2>2, <2>3, <3>1, <3>5 DEF KernelInv
  <2> QED BY <2>4, <2>5
<1> QED
  BY <1>3, <1>9, <1>10, <1>11, <1>12, <1>13, <1>14 DEF Next, Program, Terminated

\* Where -V stops, as in ArrowsAreTheChain.
Repeats(n) == \E m \in 0..(n - 1) : fs[Place(m)].ino = fs[Place(n)].ino
Stops(n) == \/ ~Readable(Place(n)) \/ n = MaxChain
            \/ ChainLoops(First) /\ Repeats(n)
NoneBefore(k) == \A n \in 0..(k - 1) : ~Stops(n)

\* What -V's walk knows while nothing has changed.
ShownChainInv ==
    changes = 0 /\ shortages = 0 /\ opts.show = "all" =>
      /\ pc \in Arrowing => loops = ChainLoops(First) /\ NoneBefore(pos - 1)
      /\ pc = "arrow" => (Readable(Place(pos - 1)) => ~Stops(pos - 1))
      /\ pc \in {"status", "judge", "done"} => Stops(arrows) /\ NoneBefore(arrows)

LEMMA SameStops ==
    ASSUME fs' = fs
    PROVE  /\ \A n : Stops(n)' = Stops(n)
           /\ \A n : NoneBefore(n)' = NoneBefore(n)
<1>1. /\ \A n : Place(n)' = Place(n)
      /\ \A q : Readable(q)' = Readable(q)
      /\ \A q : ChainLoops(q)' = ChainLoops(q)
  BY SamePlaces
<1>2. \A n : Repeats(n)' = Repeats(n)
  BY <1>1 DEF Repeats
<1>3. \A n : Stops(n)' = Stops(n)
  BY <1>1, <1>2 DEF Stops
<1> QED BY <1>3 DEF NoneBefore

LEMMA ArrowsStep ==
    ASSUME Inv, AskedInv, KernelInv, ShownChainInv, [Next]_vars
    PROVE  ShownChainInv'
<1>1. Inv' /\ Kept /\ Carried /\ KernelInv'
  BY StepCarries, KernelStep
<1>2. /\ 1 \in 1..Len(chain) /\ pos \in 1..Len(chain) /\ Len(chain) <= MaxChain + 1
      /\ changes \in Nat /\ shortages \in Nat /\ MaxChain \in Nat /\ chain \in Seq(File)
  BY ChainAssumption DEF Inv, TypeOK, ChainBounded
<1>3. SUFFICES ASSUME changes' = 0, shortages' = 0, opts'.show = "all", ~Change
               PROVE  ShownChainInv'
  BY <1>2 DEF ShownChainInv, Change
<1>4. fs' = fs /\ changes = 0 /\ shortages = 0 /\ opts.show = "all"
  <2>1. UNCHANGED environment
    BY <1>3 DEF Next, Program, Terminated, vars, environment, Operand, IsLinkToDir,
       Sort, Fields, Row, Name, NameIsLink, AskLoops, More, Arrow, PrintTarget,
       Status, Judge, Probe, WalkStat, WalkRead
  <2> QED BY <1>1, <1>3, <2>1 DEF environment, Carried
<1>5. /\ \A n : Place(n)' = Place(n)
      /\ \A q : Readable(q)' = Readable(q) /\ LstatResult(q)' = LstatResult(q)
      /\ \A q : ChainLoops(q)' = ChainLoops(q)
      /\ \A n : Stops(n)' = Stops(n)
      /\ \A n : NoneBefore(n)' = NoneBefore(n)
  BY <1>4, SamePlaces, SameStops
<1>6. Followed /\ Followed'
  BY <1>1, <1>3, <1>4 DEF KernelInv
<1>7. SUFFICES
        /\ pc' \in Arrowing => loops' = ChainLoops(First) /\ NoneBefore(pos' - 1)
        /\ pc' = "arrow" => (Readable(Place(pos' - 1)) => ~Stops(pos' - 1))
        /\ pc' \in {"status", "judge", "done"} => Stops(arrows') /\ NoneBefore(arrows')
  <2>1. PICK p, a : p = pos' - 1 /\ a = arrows'
    OBVIOUS
  <2> QED BY <1>5, <2>1 DEF ShownChainInv
\* What a lstat() says of the File at pos.
<1>8. ASSUME NEW i \in 1..Len(chain), NEW st, GetStat(i, st)
      PROVE  /\ st.kind = "link" => fs[Place(i - 1)].kind \in {"link", "locked"}
             /\ st.kind # "link" => ~Readable(Place(i - 1))
             /\ st.kind = "link" => st.ino = fs[Place(i - 1)].ino
  <2>1. chain'[i].didstat /\ chain'[i].pstat = st /\ Len(chain') = Len(chain)
    BY <1>3, <1>8, GetStatEffect DEF Inv
  <2>2. st = LstatResult(chain'[i].path) /\ chain'[i].path = Place(i - 1)
    <3>1. PICK p : p = Place(i - 1)
      OBVIOUS
    <3>2. chain[i].path = p /\ chain'[i].path = chain[i].path
      BY <1>1, <1>6, <3>1 DEF Followed, Kept
    <3>3. st = LstatResult(chain'[i].path)
      BY <1>5, <1>6, <2>1 DEF Followed
    <3> QED BY <3>1, <3>2, <3>3
  <2>3. Place(i - 1) \in Paths
    BY <1>6, PlaceType
  <2> QED BY <2>2, <2>3, LstatIs
<1>9. Place(0) = First /\ NoneBefore(0)
  BY PlaceIs DEF NoneBefore
<1>10. CASE Operand
  <2>1. PICK st \in Stat : GetStat(1, st) /\ (pc' = "done" => st = NoStat)
                           /\ pc' \in {"done", "dir", "sort", "islinktodir", "probe"}
    BY <1>10 DEF Operand, EnterFinalTarget, NoStat
  <2>2. arrows' = 0
    BY <1>10 DEF Operand, Inv, WalkInv, Early
  <2>3. pc' = "done" => ~Readable(Place(0))
    BY <1>2, <1>8, <2>1 DEF NoStat
  <2> QED BY <1>9, <2>1, <2>2, <2>3 DEF Arrowing, Stops
<1>11. CASE IsLinkToDir \/ Sort \/ Fields \/ Row \/ Name
  BY <1>4, <1>11 DEF IsLinkToDir, Sort, Fields, Row, Name, EnterFinalTarget, Arrowing
<1>12. CASE NameIsLink
  <2>1. PICK st \in Stat : GetStat(1, st)
            /\ pc' = IF st.kind = "link" THEN "askloops" ELSE "more"
    BY <1>4, <1>12 DEF NameIsLink
  <2>2. pos' - 1 = 0 /\ loops' = FALSE
    BY <1>12 DEF NameIsLink, Inv, TypeOK, WalkInv, Early
  <2>3. pc' = "more" => ChainLoops(First) = FALSE
    <3>1. 0 \in 0..KernelMax
      BY ChainAssumption
    <3>2. pc' = "more" => ~Readable(Place(0))
      BY <1>2, <1>8, <2>1
    <3> QED BY <3>1, <3>2 DEF ChainLoops, Place
  <2> QED BY <1>9, <2>1, <2>2, <2>3 DEF Arrowing
<1>13. CASE AskLoops
  <2>1. chain[1].path = First
    BY <1>2, <1>6, <1>9 DEF Followed
  <2>2. pos' = 1 /\ pc' = "more" /\ loops' = ChainLoops(First)
    BY <1>13, <2>1 DEF AskLoops, Inv, WalkInv, Early
  <2> QED BY <1>9, <2>2
<1>14. CASE More
  <2>1. PICK st \in Stat : /\ GetStat(pos, st)
                           /\ pc' = IF Follow(st) THEN "arrow" ELSE "status"
    BY <1>14 DEF More
  <2>2. /\ UNCHANGED <<pos, loops, arrows>> /\ arrows = pos - 1
        /\ loops = ChainLoops(First) /\ NoneBefore(pos - 1)
    BY <1>4, <1>14 DEF More, outcome, Inv, WalkInv, ShownChainInv, Arrowing
  <2>3. st.kind = "link" => (IsRepeat(pos, st) <=> Repeats(pos - 1))
    <3> SUFFICES ASSUME st.kind = "link"
                 PROVE  IsRepeat(pos, st) <=> Repeats(pos - 1)
      OBVIOUS
    <3>1. st.ino = fs[Place(pos - 1)].ino
      BY <1>2, <1>8, <2>1
    <3>2. ASSUME NEW j \in 1..(pos - 1)
          PROVE  chain[j].pstat.ino = fs[Place(j - 1)].ino
      <4>1. j \in 1..Len(chain) /\ j \in 1..(Len(chain) - 1)
        BY <1>2
      <4>2. chain[j].path = Place(j - 1) /\ Place(j - 1) \in Paths
        BY <1>6, <4>1, PlaceType
      <4>3. chain[j].pstat = LstatResult(Place(j - 1)) /\ chain[j].pstat.kind = "link"
        BY <1>6, <4>1, <4>2 DEF Followed, Inv, LinksInv, IsLink
      <4> QED BY <4>2, <4>3, LstatIs
    <3>3. ASSUME IsRepeat(pos, st) PROVE Repeats(pos - 1)
      <4>1. PICK j \in 1..(pos - 1) : chain[j].pstat.ino = st.ino
        BY <3>3 DEF IsRepeat
      <4>2. j - 1 \in 0..((pos - 1) - 1)
        BY <1>2
      <4> QED BY <3>1, <3>2, <4>1, <4>2 DEF Repeats
    <3>4. ASSUME Repeats(pos - 1) PROVE IsRepeat(pos, st)
      <4>1. PICK m \in 0..((pos - 1) - 1) : fs[Place(m)].ino = fs[Place(pos - 1)].ino
        BY <3>4 DEF Repeats
      <4>2. m + 1 \in 1..(pos - 1) /\ (m + 1) - 1 = m
        BY <1>2
      <4>3. chain[m + 1].pstat.ino = fs[Place(m)].ino
        BY <3>2, <4>2
      <4> QED BY <3>1, <4>1, <4>2, <4>3 DEF IsRepeat
    <3> QED BY <3>3, <3>4
  <2>4. CASE Follow(st)
    <3>1. st.kind = "link" /\ pos - 1 # MaxChain /\ ~(loops /\ Repeats(pos - 1))
      BY <1>2, <2>3, <2>4 DEF Follow
    <3> QED BY <2>1, <2>2, <2>4, <3>1 DEF Stops
  <2>5. CASE ~Follow(st)
    <3>1. \/ st.kind # "link" \/ pos - 1 = MaxChain
          \/ st.kind = "link" /\ loops /\ Repeats(pos - 1)
      BY <1>2, <2>3, <2>5 DEF Follow
    <3>2. Stops(pos - 1)
      BY <1>2, <1>8, <2>1, <2>2, <3>1 DEF Stops
    <3> QED BY <2>1, <2>2, <2>5, <3>2 DEF Arrowing
  <2> QED BY <2>4, <2>5
<1>15. CASE Arrow
  <2>1. PICK found \in BOOLEAN :
          /\ GetTarget(found)
          /\ IF found THEN pc' = "printtarget" /\ pos' = pos + 1
                      ELSE pc' = "status" /\ UNCHANGED pos
    BY <1>15 DEF Arrow
  <2>2. /\ UNCHANGED <<loops, arrows>> /\ arrows = pos - 1 /\ pos <= MaxChain
        /\ loops = ChainLoops(First) /\ NoneBefore(pos - 1)
        /\ Readable(Place(pos - 1)) => ~Stops(pos - 1)
    BY <1>4, <1>15 DEF Arrow, outcome, Inv, WalkInv, ShownChainInv, Arrowing
  <2>3. found <=> Readable(Place(pos - 1))
    BY <1>3, <1>4, <1>6, <2>1, <2>2, ReadKeepsFollowed
  <2>4. CASE found
    <3>1. \A n \in 0..(pos - 1) : n = pos - 1 \/ n \in 0..((pos - 1) - 1)
      BY <1>2
    <3>2. NoneBefore(pos)
      BY <2>2, <2>3, <2>4, <3>1 DEF NoneBefore
    <3>3. (pos + 1) - 1 = pos
      BY <1>2
    <3> QED BY <2>1, <2>2, <2>4, <3>2, <3>3
  <2>5. CASE ~found
    BY <2>1, <2>2, <2>3, <2>5 DEF Stops, Arrowing
  <2> QED BY <2>4, <2>5
<1>16. CASE PrintTarget
  <2>1. pc' = "more" /\ UNCHANGED <<pos, loops>> /\ pc = "printtarget"
    BY <1>4, <1>16 DEF PrintTarget
  <2> QED BY <1>4, <2>1 DEF ShownChainInv, Arrowing
<1>17. CASE Status \/ Judge
  <2>1. pc \in {"status", "judge"} /\ arrows' = arrows /\ pc' \in {"judge", "probe", "done"}
    BY <1>17 DEF Status, Judge, files, EnterFinalTarget
  <2> QED BY <1>4, <2>1 DEF ShownChainInv, Arrowing
<1>18. CASE Probe \/ WalkStat \/ WalkRead
  <2>1. pc \in Walking /\ pc' \in Walking \cup {ret}
    BY <1>18 DEF Probe, WalkStat, WalkRead, Remember, Walking
  <2>2. ret \in {"islinktodir", "targetrow"}
    BY <1>4, <2>1 DEF Inv, TypeOK, WalkInv, AskedInv, ForTarget, ToFinal
  <2> QED BY <2>1, <2>2 DEF Walking, Arrowing
<1>19. CASE UNCHANGED vars
  BY <1>4, <1>19 DEF vars, ShownChainInv
<1> QED
  BY <1>3, <1>10, <1>11, <1>12, <1>13, <1>14, <1>15, <1>16, <1>17, <1>18, <1>19
     DEF Next, Program, Terminated

\* While nothing changes, this holds too.
QuietInv == KernelInv /\ ShownChainInv

LEMMA AlwaysQuiet == Spec => []QuietInv
<1>1. Init => QuietInv
  <2> SUFFICES ASSUME Init PROVE KernelInv /\ ShownChainInv
    BY DEF QuietInv
  <2>1. /\ ~didfinal /\ pc \in {"main", "sort"} /\ Len(chain) = 1
        /\ chain[1].path = First /\ ~chain[1].didstat
    BY DEF Init, NewFile
  <2>2. Followed
    BY <2>1, PlaceIs DEF Followed
  <2> QED BY <2>1, <2>2 DEF KernelInv, FinalIsKernels, ShownChainInv, Arrowing
<1>2. AgreeInv /\ QuietInv /\ [Next]_vars => QuietInv'
  BY KernelStep, ArrowsStep DEF QuietInv, AgreeInv
<1> QED BY <1>1, <1>2, AlwaysAgree, PTL DEF Spec

\* While nothing changes and memory lasts, getfinaltarget() answers what the
\* kernel would: none if stat() reports a loop or a link cannot be read, else
\* the File at the path the kernel reaches (findfinaltarget(),
\* file.c:873-900; SPEC.md:286), for every file system and every two limits.
THEOREM FinalIsTheKernels == Spec => []FinalIsKernels
<1>1. QuietInv => FinalIsKernels
  BY DEF QuietInv, KernelInv, FinalIsKernels
<1> QED BY <1>1, AlwaysQuiet, PTL

\* While nothing changes and memory lasts, -V shows the chain: to its end or
\* the link that cannot be read, or up to the first repeat of one that loops
\* (getnamefield(), filefields.c:353-394; SPEC.md:288).
THEOREM ArrowsAreChain == Spec => []ArrowsAreTheChain
<1>1. QuietInv => ArrowsAreTheChain
  <2> SUFFICES ASSUME QuietInv, pc = "done", changes = 0, shortages = 0, opts.show = "all"
               PROVE  Stops(arrows) /\ NoneBefore(arrows)
    BY Zenon DEF ArrowsAreTheChain, Stops, NoneBefore, Repeats, Place
  <2> QED BY DEF QuietInv, ShownChainInv
<1> QED BY <1>1, AlwaysQuiet, PTL

=============================================================================
