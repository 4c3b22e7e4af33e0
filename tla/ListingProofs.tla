--------------------------- MODULE ListingProofs ---------------------------
(* Theorems about Listing, for every file system, options, operands and        *)
(* trouble: who owns the Files, which streams are open, where recursion goes,  *)
(* what exit status 0 promises, that the sections of the output are kept       *)
(* apart, and that the total of a directory is that of its rows.               *)
EXTENDS Listing, TLAPS, FiniteSetTheorems, SequenceTheorems, WellFoundedInduction

\* The type of frames and of output where n Files have been made.
Frames(n) == [dir: 0..n, files: Seq(1..n), dirs: Seq(1..n), listed: Nat, first: BOOLEAN]

Rows == [path: Seq(AnyName), shows: {"name", "?", "file", "dir", "link"}]

Events(n) ==
    [event: {"blank"}] \cup [event: {"label"}, dir: 1..n]
    \cup [event: {"total"}, dir: 1..n, blocks: Nat]
    \cup [event: {"rows"}, dir: 0..n, rows: SUBSET Rows]

\* What pc says of the stack, and how a frame and the one that called it belong
\* together.
PcInv ==
    /\ pc \in {"operand", "islinktodir"} => Len(stack) = 1
    /\ pc \in {"open", "read", "entry", "return"} => Len(stack) >= 2
    /\ pc \in {"entry", "islinktodir"} => Len(heap) >= 1

CallsInv ==
    /\ stack # <<>> => stack[1].dir = 0
    /\ \A k \in 2..Len(stack) :
          /\ stack[k - 1].listed \in 1..Len(stack[k - 1].dirs)
          /\ stack[k].dir = stack[k - 1].dirs[stack[k - 1].listed]

StreamInv == streams = IF pc \in {"read", "entry"} THEN 1 ELSE 0

-----------------------------------------------------------------------------
(* Sequences.                                                                  *)

LEMMA SeqGrows ==
    ASSUME NEW m \in Nat, NEW n \in Nat, m <= n
    PROVE  Seq(1..m) \subseteq Seq(1..n)
<1> SUFFICES ASSUME NEW s \in Seq(1..m) PROVE s \in Seq(1..n)
  OBVIOUS
<1>1. \A i \in 1..Len(s) : s[i] \in 1..n
  OBVIOUS
<1> QED
  BY <1>1

LEMMA TypesGrow ==
    ASSUME NEW m \in Nat, NEW n \in Nat, m <= n
    PROVE  Frames(m) \subseteq Frames(n) /\ Events(m) \subseteq Events(n)
<1>1. Frames(m) \subseteq Frames(n)
  BY SeqGrows DEF Frames
<1>2. Events(m) \subseteq Events(n)
  BY DEF Events
<1> QED
  BY <1>1, <1>2

LEMMA FrontIs ==
    ASSUME NEW S, NEW s \in Seq(S), s # <<>>
    PROVE  /\ Front(s) \in Seq(S) /\ Len(Front(s)) = Len(s) - 1
           /\ \A i \in 1..Len(s) - 1 : Front(s)[i] = s[i]
<1> DEFINE n == Len(s) - 1
<1>1. n \in Nat /\ \A i \in 1..n : s[i] \in S
  OBVIOUS
<1> HIDE DEF n
<1>2. /\ SubSeq(s, 1, n) \in Seq(S)
      /\ Len(SubSeq(s, 1, n)) = IF 1 <= n THEN n - 1 + 1 ELSE 0
      /\ \A i \in 1..n - 1 + 1 : SubSeq(s, 1, n)[i] = s[1 + i - 1]
  <2>1. n \in Int /\ 1 \in Int
    BY <1>1
  <2> QED
    BY <1>1, <2>1, SubSeqProperties, Z3
<1>3. /\ Len(SubSeq(s, 1, n)) = n
      /\ \A i \in 1..n : SubSeq(s, 1, n)[i] = s[i]
  BY <1>1, <1>2
<1> QED
  BY <1>2, <1>3 DEF Front, n

\* The path of an entry is that of its directory and its name.
LEMMA FrontAndLastOfAppend ==
    ASSUME NEW S, NEW s \in Seq(S), NEW e
    PROVE  Front(Append(s, e)) = s /\ Last(Append(s, e)) = e
<1>1. Append(s, e) \in Seq(S \cup {e}) /\ Len(Append(s, e)) = Len(s) + 1
  OBVIOUS
<1>2. Last(Append(s, e)) = e
  BY <1>1 DEF Last
<1>3. /\ Front(Append(s, e)) \in Seq(S \cup {e}) /\ Len(Front(Append(s, e))) = Len(s)
      /\ \A i \in 1..Len(s) : Front(Append(s, e))[i] = Append(s, e)[i]
  <2>1. Append(s, e) # <<>> /\ Len(s) \in Nat
    OBVIOUS
  <2>2. /\ Front(Append(s, e)) \in Seq(S \cup {e})
        /\ Len(Front(Append(s, e))) = Len(Append(s, e)) - 1
        /\ \A i \in 1..Len(Append(s, e)) - 1 : Front(Append(s, e))[i] = Append(s, e)[i]
    BY <1>1, <2>1, FrontIs, Zenon
  <2> QED
    BY <1>1, <2>1, <2>2
<1>4. \A i \in 1..Len(s) : Front(Append(s, e))[i] = s[i]
  BY <1>3
<1> HIDE DEF Front
<1>5. Front(Append(s, e)) = s
  BY <1>3, <1>4
<1> QED
  BY <1>2, <1>5

LEMMA OneElement ==
    ASSUME NEW S, NEW x \in S
    PROVE  <<x>> \in Seq(S)
  OBVIOUS

LEMMA OneOrBelow == \A n \in Nat \ {0} : n = 1 \/ 1 \in 1..n - 1
  OBVIOUS

LEMMA OneOrMore == \A n \in Nat \ {0} : n = 1 \/ (n >= 2 /\ n # 1)
  OBVIOUS

LEMMA MoreThanSome == \A m, n \in Nat : m < n => n = 1 \/ n > 1
  OBVIOUS

LEMMA TwoIsNotOne == \A n \in Nat : n >= 2 => n # 1
  OBVIOUS

LEMMA BelowTop == \A n \in Nat : \A k \in 2..n : k # n => k \in 1..n - 1
  OBVIOUS

LEMMA AppendIs ==
    ASSUME NEW S, NEW s \in Seq(S), NEW x
    PROVE  /\ \A q \in DOMAIN s : q \in DOMAIN Append(s, x) /\ Append(s, x)[q] = s[q]
           /\ \E q \in DOMAIN Append(s, x) : Append(s, x)[q] = x
           /\ \A q \in DOMAIN Append(s, x) :
                 (q \in DOMAIN s /\ Append(s, x)[q] = s[q]) \/ Append(s, x)[q] = x
<1> DEFINE t == Append(s, x)
<1>1. /\ DOMAIN t = (DOMAIN s) \cup {Len(s) + 1}
      /\ t[Len(s) + 1] = x /\ \A p \in DOMAIN s : t[p] = s[p]
  OBVIOUS
<1> HIDE DEF t
<1>2. /\ \A q \in DOMAIN s : q \in DOMAIN t /\ t[q] = s[q]
      /\ \E q \in DOMAIN t : t[q] = x
      /\ \A q \in DOMAIN t : (q \in DOMAIN s /\ t[q] = s[q]) \/ t[q] = x
  BY <1>1
<1> QED
  BY <1>2 DEF t

LEMMA TwoOrMore == \A n \in Nat : \A k \in 2..n : n >= 2 /\ n # 1
  OBVIOUS

LEMMA WithTopIs ==
    ASSUME NEW S, stack \in Seq(S), stack # <<>>, NEW f \in S
    PROVE  /\ WithTop(f) \in Seq(S) /\ Len(WithTop(f)) = Len(stack)
           /\ WithTop(f)[Len(stack)] = f
           /\ \A i \in 1..Len(stack) - 1 : WithTop(f)[i] = stack[i]
  BY DEF WithTop

LEMMA PushIs ==
    ASSUME NEW S, stack \in Seq(S), stack # <<>>, NEW f \in S, NEW g \in S
    PROVE  /\ Append(WithTop(f), g) \in Seq(S)
           /\ Len(Append(WithTop(f), g)) = Len(stack) + 1
           /\ Append(WithTop(f), g)[Len(stack) + 1] = g
           /\ Append(WithTop(f), g)[Len(stack)] = f
           /\ \A i \in 1..Len(stack) - 1 : Append(WithTop(f), g)[i] = stack[i]
  BY DEF WithTop

-----------------------------------------------------------------------------
(* Types.                                                                      *)

LEMMA LstatType == \A path : Lstat(path) \in {"failed", "dir", "file", "link"}
  BY DEF Lstat

LEMMA TargetType == \A path : Target(path) \in {"dir", "file", "failed", "null"}
  BY DEF Target

LEMMA BlocksType == \A type : Blocks(type) \in Nat
  BY DEF Blocks

LEMMA FileTypes ==
    /\ \A path \in Seq(AnyName) \ {<<>>} : NewFile(path) \in FileType
    /\ \A f \in FileType :
          /\ \A st \in Stats : StatIs(f, st) \in FileType
          /\ \A t \in Targets : TargetIs(f, t) \in FileType
          /\ \A st \in Stats : [StatIs(f, st) EXCEPT !.freed = 1] \in FileType
          /\ \A n \in Nat : [f EXCEPT !.freed = n] \in FileType
<1>1. \A path \in Seq(AnyName) \ {<<>>} : NewFile(path) \in FileType
  BY DEF NewFile, FileType, Stats, Targets
<1>2. ASSUME NEW f \in FileType
      PROVE  /\ \A st \in Stats : StatIs(f, st) \in FileType
             /\ \A t \in Targets : TargetIs(f, t) \in FileType
  BY DEF FileType, StatIs, TargetIs
<1>3. ASSUME NEW f \in FileType, NEW n \in Nat
      PROVE  [f EXCEPT !.freed = n] \in FileType
  BY DEF FileType
<1>4. \A f \in FileType : \A st \in Stats : [StatIs(f, st) EXCEPT !.freed = 1] \in FileType
  <2> TAKE f \in FileType
  <2> TAKE st \in Stats
  <2>1. PICK g \in FileType : g = StatIs(f, st)
    BY <1>2
  <2> QED
    BY <1>3, <2>1
<1> QED
  BY <1>1, <1>2, <1>3, <1>4

\* What an answer leaves of a File, and what freeing it does.
LEMMA FileFields ==
    ASSUME NEW f \in FileType
    PROVE  /\ \A st : /\ StatIs(f, st).path = f.path /\ StatIs(f, st).stat = st
                      /\ StatIs(f, st).target = f.target
                      /\ StatIs(f, st).freed = f.freed
                      /\ StatIs(f, st).lacked = (f.lacked \/ st = "unknown")
           /\ \A t : /\ TargetIs(f, t).path = f.path /\ TargetIs(f, t).stat = f.stat
                     /\ TargetIs(f, t).target = t
                     /\ TargetIs(f, t).freed = f.freed
                     /\ TargetIs(f, t).lacked = (f.lacked \/ t \in {"unknown", "link"})
           /\ \A n : /\ [f EXCEPT !.freed = n].path = f.path
                     /\ [f EXCEPT !.freed = n].stat = f.stat
                     /\ [f EXCEPT !.freed = n].target = f.target
                     /\ [f EXCEPT !.freed = n].lacked = f.lacked
                     /\ [f EXCEPT !.freed = n].freed = n
           /\ \A st : /\ [StatIs(f, st) EXCEPT !.freed = 1].path = f.path
                      /\ [StatIs(f, st) EXCEPT !.freed = 1].stat = st
                      /\ [StatIs(f, st) EXCEPT !.freed = 1].target = f.target
                      /\ [StatIs(f, st) EXCEPT !.freed = 1].lacked = (f.lacked \/ st = "unknown")
                      /\ [StatIs(f, st) EXCEPT !.freed = 1].freed = 1
  BY DEF FileType, StatIs, TargetIs

LEMMA FrameFields ==
    ASSUME NEW n \in Nat, NEW f \in Frames(n)
    PROVE  /\ f.dir \in 0..n /\ f.files \in Seq(1..n) /\ f.dirs \in Seq(1..n)
           /\ f.listed \in Nat /\ f.first \in BOOLEAN
  BY DEF Frames

LEMMA NewFrame ==
    ASSUME NEW n \in Nat, NEW d \in 0..n, NEW b \in BOOLEAN,
           NEW g, g = Frame(d, b)
    PROVE  /\ g \in Frames(n) /\ g.dir = d /\ g.listed = 0
           /\ g.files = <<>> /\ g.dirs = <<>>
  BY DEF Frames, Frame

\* TypeOK in parts: the files, the frames and the output, and the rest.
HeapType == heap \in Seq(FileType) /\ stack \in Seq(Frames(Len(heap)))
OutType == out \in Seq(Events(Len(heap)))
ListedType == \A k \in DOMAIN stack : stack[k].listed <= Len(stack[k].dirs)
PlainType ==
    /\ fs \in FileSystems
    /\ changes \in Nat /\ faults \in Nat /\ shortages \in Nat
    /\ opts \in OptionSets /\ order \in Orders
    /\ operands \in OperandLists /\ looked \in 0..Len(operands)
    /\ (stack = << >>) <=> (pc = "done")
    /\ unread \subseteq AnyName /\ streams \in Nat /\ total \in Nat
    /\ pc \in {"operand", "islinktodir", "files", "dirs", "open", "read",
               "entry", "return", "done"}
    /\ exit \in {0, 1}

Parts == HeapType /\ OutType /\ ListedType /\ PlainType

LEMMA TypeInParts == TypeOK <=> Parts
  BY DEF TypeOK, Parts, HeapType, OutType, ListedType, PlainType, FrameType, Frames, Events, Rows

LEMMA TypesOfConstants ==
    ASSUME Parts
    PROVE  /\ \A n \in DOMAIN operands : operands[n] \in Seq(AnyName) \ {<<>>}
           /\ Len(operands) \in Nat
           /\ order \in Seq(AnyName)
  BY ListingAssumption DEF ListingAssumption, Parts, PlainType

\* The lists and the Files of the top frame.
LEMMA TopType ==
    ASSUME Parts, stack # <<>>
    PROVE  /\ Len(heap) \in Nat /\ Len(stack) \in Nat \ {0}
           /\ Top \in Frames(Len(heap))
           /\ \A f \in Frames(Len(heap)) : WithTop(f) \in Seq(Frames(Len(heap)))
  BY DEF Parts, HeapType, Top, WithTop

LEMMA Freed ==
    ASSUME Parts, NEW ids \in Seq(1..Len(heap))
    PROVE  /\ FreeAll(heap, ids) \in Seq(FileType) /\ Len(FreeAll(heap, ids)) = Len(heap)
<1>1. \A i \in 1..Len(heap) : Cardinality({k \in DOMAIN ids : ids[k] = i}) \in Nat
  <2> TAKE i \in 1..Len(heap)
  <2>1. IsFiniteSet(1..Len(ids))
    BY FS_Interval
  <2>2. {k \in DOMAIN ids : ids[k] = i} \subseteq 1..Len(ids)
    OBVIOUS
  <2> QED
    BY <2>1, <2>2, FS_Subset, FS_CardinalityType
<1>2. Len(heap) \in Nat /\ DOMAIN heap = 1..Len(heap) /\ \A i \in 1..Len(heap) : heap[i] \in FileType
  BY DEF Parts, HeapType
<1>3. ASSUME NEW f \in FileType, NEW c \in Nat
      PROVE  [f EXCEPT !.freed = f.freed + c] \in FileType
  BY DEF FileType
<1> DEFINE new(i) == [heap[i] EXCEPT !.freed = @ + Cardinality({k \in DOMAIN ids : ids[k] = i})]
<1>4. \A i \in 1..Len(heap) : new(i) \in FileType
  BY <1>1, <1>2, <1>3
<1> HIDE DEF new
<1>5. /\ [i \in 1..Len(heap) |-> new(i)] \in Seq(FileType)
      /\ Len([i \in 1..Len(heap) |-> new(i)]) = Len(heap)
  BY <1>2, <1>4
<1> QED
  BY <1>2, <1>5 DEF FreeAll, new

\* What has a type keeps it while more Files are made.
LEMMA TypesOfMore ==
    ASSUME Parts, NEW n \in Nat, Len(heap) <= n
    PROVE  stack \in Seq(Frames(n)) /\ out \in Seq(Events(n))
<1>1. Frames(Len(heap)) \subseteq Frames(n) /\ Events(Len(heap)) \subseteq Events(n)
  BY TypesGrow DEF Parts, HeapType
<1>2. stack \in Seq(Frames(Len(heap))) /\ out \in Seq(Events(Len(heap)))
  BY DEF Parts, HeapType, OutType
<1>3. stack \in Seq(Frames(n))
  BY <1>1, <1>2, SeqMonotonic, Zenon
<1>4. out \in Seq(Events(n))
  BY <1>1, <1>2, SeqMonotonic, Zenon
<1> QED
  BY <1>3, <1>4

\* What a step may do to the stack: change the top frame, which stays on the
\* directory it is on, ...
LEMMA TopChanges ==
    ASSUME Parts, CallsInv, stack # <<>>, NEW f \in Frames(Len(heap')),
           stack' = WithTop(f), f.dir = Top.dir,
           f.listed = Top.listed, f.listed <= Len(f.dirs),
           heap' \in Seq(FileType), Len(heap) <= Len(heap')
    PROVE  /\ HeapType' /\ ListedType' /\ CallsInv'
           /\ Len(stack') = Len(stack)
<1> DEFINE n == Len(heap')
<1>0. n \in Nat
  OBVIOUS
<1>1. stack \in Seq(Frames(n))
  BY <1>0, TypesOfMore, Zenon
<1> HIDE DEF n
<1>2. f \in Frames(n)
  BY DEF n
<1> HIDE DEF Frames
<1>3. /\ stack' \in Seq(Frames(n)) /\ Len(stack') = Len(stack)
      /\ stack'[Len(stack)] = f
      /\ \A i \in 1..Len(stack) - 1 : stack'[i] = stack[i]
  BY <1>1, <1>2, WithTopIs, Zenon
<1>4. Len(stack) \in Nat \ {0}
  BY <1>1
<1>5. ListedType'
  <2>1. ASSUME NEW k \in 1..Len(stack') PROVE stack'[k].listed <= Len(stack'[k].dirs)
    <3>1. k = Len(stack) \/ (k \in 1..Len(stack) - 1 /\ stack'[k] = stack[k])
      BY <1>3, <1>4, <2>1
    <3>2. \A i \in 1..Len(stack) : stack[i].listed <= Len(stack[i].dirs)
      BY <1>1 DEF Parts, ListedType
    <3> QED
      BY <1>3, <1>4, <3>1, <3>2
  <2> QED
    BY <1>3, <2>1 DEF ListedType
<1>6. CallsInv'
  <2>1. stack'[1].dir = 0
    BY <1>3, <1>4 DEF CallsInv, Top
  <2>2. ASSUME NEW k \in 2..Len(stack')
        PROVE  /\ stack'[k - 1].listed \in 1..Len(stack'[k - 1].dirs)
               /\ stack'[k].dir = stack'[k - 1].dirs[stack'[k - 1].listed]
    <3>1. stack'[k - 1] = stack[k - 1] /\ stack'[k].dir = stack[k].dir
      BY <1>3, <1>4, <2>2 DEF Top
    <3> QED
      BY <1>3, <1>4, <2>2, <3>1 DEF CallsInv
  <2> QED
    BY <2>1, <2>2 DEF CallsInv
<1> QED
  <2>1. stack' \in Seq(Frames(Len(heap')))
    BY <1>3 DEF n
  <2> QED
    BY <1>3, <1>5, <1>6, <2>1 DEF HeapType

\* ... return to the frame below, ...
LEMMA Popped ==
    ASSUME Parts, CallsInv, Len(stack) >= 2, stack' = Pop,
           heap' \in Seq(FileType), Len(heap') = Len(heap)
    PROVE  HeapType' /\ ListedType' /\ CallsInv' /\ Len(stack') = Len(stack) - 1
<1>1. stack \in Seq(Frames(Len(heap))) /\ stack # <<>>
  BY DEF Parts, HeapType
<1> HIDE DEF Frames
<1>2. /\ stack' \in Seq(Frames(Len(heap))) /\ Len(stack') = Len(stack) - 1
      /\ \A i \in 1..Len(stack) - 1 : stack'[i] = stack[i]
  <2>1. /\ Front(stack) \in Seq(Frames(Len(heap)))
        /\ Len(Front(stack)) = Len(stack) - 1
        /\ \A i \in 1..Len(stack) - 1 : Front(stack)[i] = stack[i]
    BY <1>1, FrontIs, Zenon
  <2> QED
    BY <2>1 DEF Pop
<1>3. ListedType'
  <2>1. \A i \in 1..Len(stack) : stack[i].listed <= Len(stack[i].dirs)
    BY <1>1 DEF Parts, ListedType
  <2>2. \A i \in 1..Len(stack') : stack'[i].listed <= Len(stack'[i].dirs)
    BY <1>1, <1>2, <2>1
  <2> QED
    BY <1>2, <2>2 DEF ListedType
<1>4. CallsInv'
  BY <1>1, <1>2 DEF CallsInv
<1> QED
  BY <1>2, <1>3, <1>4 DEF HeapType

\* ... or call listdir(), of the next directory of the top frame.
LEMMA Pushed ==
    ASSUME Parts, CallsInv, stack # <<>>,
           NEW f \in Frames(Len(heap)), NEW g \in Frames(Len(heap)),
           f.dir = Top.dir, f.dirs = Top.dirs, f.listed \in 1..Len(Top.dirs),
           g.dir = Top.dirs[f.listed], g.listed <= Len(g.dirs),
           stack' = Append(WithTop(f), g), heap' = heap
    PROVE  HeapType' /\ ListedType' /\ CallsInv' /\ Len(stack') = Len(stack) + 1
<1> DEFINE n == Len(heap)
<1>1. /\ stack \in Seq(Frames(n)) /\ Len(stack) \in Nat \ {0}
      /\ f \in Frames(n) /\ g \in Frames(n)
  <2>1. stack \in Seq(Frames(n))
    BY DEF Parts, HeapType
  <2>2. Len(stack) \in Nat \ {0}
    BY TopType, Zenon
  <2> QED
    BY <2>1, <2>2
<1> HIDE DEF Frames, n
<1>2. /\ Append(WithTop(f), g) \in Seq(Frames(n))
      /\ Len(Append(WithTop(f), g)) = Len(stack) + 1
      /\ Append(WithTop(f), g)[Len(stack) + 1] = g
      /\ Append(WithTop(f), g)[Len(stack)] = f
      /\ \A i \in 1..Len(stack) - 1 : Append(WithTop(f), g)[i] = stack[i]
  <2> HIDE DEF WithTop
  <2> QED
    BY <1>1, PushIs
<1>3. /\ stack' \in Seq(Frames(n)) /\ Len(stack') = Len(stack) + 1
      /\ stack'[Len(stack) + 1] = g /\ stack'[Len(stack)] = f
      /\ \A i \in 1..Len(stack) - 1 : stack'[i] = stack[i]
  BY <1>2
<1>4. ListedType'
  <2>1. \A i \in 1..Len(stack) : stack[i].listed <= Len(stack[i].dirs)
    BY <1>1 DEF Parts, ListedType
  <2>2. f.listed <= Len(f.dirs) /\ g.listed <= Len(g.dirs)
    OBVIOUS
  <2>3. ASSUME NEW k \in 1..Len(stack') PROVE stack'[k].listed <= Len(stack'[k].dirs)
    <3>1. \/ k = Len(stack) + 1 \/ k = Len(stack)
          \/ k \in 1..Len(stack) - 1 /\ k \in 1..Len(stack)
      BY <1>1, <1>3, <2>3
    <3> QED
      BY <1>3, <2>1, <2>2, <3>1
  <2> QED
    BY <1>3, <2>3 DEF ListedType
<1>5. CallsInv'
  <2>1. stack'[1].dir = 0
    <3>1. stack[1].dir = 0 /\ f.dir = stack[Len(stack)].dir
      <4>1. stack[1].dir = 0
        BY DEF CallsInv
      <4>2. f.dir = stack[Len(stack)].dir
        BY DEF Top
      <4> QED
        BY <4>1, <4>2
    <3>2. Len(stack) = 1 \/ 1 \in 1..Len(stack) - 1
      <4>1. Len(stack) \in Nat \ {0}
        BY <1>1
      <4> QED
        BY <4>1, OneOrBelow, Zenon
    <3>3. CASE Len(stack) = 1
      <4>1. stack'[1] = f
        BY <1>3, <3>3
      <4>2. f.dir = 0
        BY <3>1, <3>3
      <4> QED
        BY <4>1, <4>2
    <3>4. CASE 1 \in 1..Len(stack) - 1
      BY <1>3, <3>1, <3>4
    <3> QED
      BY <3>2, <3>3, <3>4
  <2>2. ASSUME NEW k \in 2..Len(stack')
        PROVE  /\ stack'[k - 1].listed \in 1..Len(stack'[k - 1].dirs)
               /\ stack'[k].dir = stack'[k - 1].dirs[stack'[k - 1].listed]
    <3>1. CASE k = Len(stack) + 1
      BY <1>1, <1>3, <3>1
    <3>2. CASE k <= Len(stack)
      <4>1. /\ k \in 2..Len(stack) /\ stack'[k - 1] = stack[k - 1]
            /\ stack'[k].dir = stack[k].dir
        <5>1. /\ k \in 2..Len(stack) /\ k - 1 \in 1..Len(stack) - 1
              /\ k = Len(stack) \/ k \in 1..Len(stack) - 1
          BY <1>1, <2>2, <3>2
        <5>2. f.dir = stack[Len(stack)].dir
          BY DEF Top
        <5> QED
          BY <1>3, <5>1, <5>2
      <4> QED
        BY <4>1 DEF CallsInv
    <3> QED
      BY <1>1, <1>3, <2>2, <3>1, <3>2
  <2> QED
    BY <2>1, <2>2 DEF CallsInv
<1> QED
  <2>1. stack' \in Seq(Frames(Len(heap'))) /\ heap' \in Seq(FileType)
    BY <1>3 DEF n, Parts, HeapType
  <2> QED
    BY <1>3, <1>4, <1>5, <2>1 DEF HeapType

\* What a step may do to the Files: make one, change one, or free some.
LEMMA FileAdded ==
    ASSUME Parts, NEW f \in FileType
    PROVE  /\ Append(heap, f) \in Seq(FileType) /\ Len(Append(heap, f)) = Len(heap) + 1
           /\ Append(heap, f)[Len(heap) + 1] = f
           /\ \A i \in 1..Len(heap) : Append(heap, f)[i] = heap[i]
<1>1. heap \in Seq(FileType)
  BY DEF Parts, HeapType
<1> HIDE DEF FileType
<1> QED
  BY <1>1

LEMMA FileChanged ==
    ASSUME Parts, NEW k \in 1..Len(heap), NEW f \in FileType
    PROVE  /\ [heap EXCEPT ![k] = f] \in Seq(FileType)
           /\ Len([heap EXCEPT ![k] = f]) = Len(heap)
           /\ [heap EXCEPT ![k] = f][k] = f
           /\ \A i \in 1..Len(heap) : i # k => [heap EXCEPT ![k] = f][i] = heap[i]
<1>1. heap \in Seq(FileType)
  BY DEF Parts, HeapType
<1> HIDE DEF FileType
<1> QED
  BY <1>1

\* ... and to the output: add an event, or nothing.
LEMMA OutputKept ==
    ASSUME Parts, heap' \in Seq(FileType), Len(heap) <= Len(heap'), out' = out
    PROVE  OutType'
<1>1. Len(heap') \in Nat
  OBVIOUS
<1>2. out \in Seq(Events(Len(heap')))
  BY <1>1, TypesOfMore, Zenon
<1> QED
  BY <1>2 DEF OutType

LEMMA OutputAdded ==
    ASSUME Parts, Len(heap') = Len(heap), NEW e \in Events(Len(heap)), out' = Append(out, e)
    PROVE  OutType'
<1>1. out \in Seq(Events(Len(heap)))
  BY DEF Parts, OutType
<1> HIDE DEF Events
<1>2. Append(out, e) \in Seq(Events(Len(heap)))
  BY <1>1
<1> QED
  BY <1>2 DEF OutType

\* The first part of the induction: what has which type, which frames there are,
\* and which streams are open.
TypeInv == Parts /\ PcInv /\ CallsInv /\ StreamInv

LEMMA TopFacts ==
    ASSUME TypeInv, pc # "done"
    PROVE  /\ stack # <<>> /\ Len(stack) \in Nat \ {0} /\ Len(heap) \in Nat
           /\ Top \in Frames(Len(heap))
           /\ Top.files \in Seq(1..Len(heap)) /\ Top.dirs \in Seq(1..Len(heap))
           /\ Top.dir \in 0..Len(heap) /\ Top.listed \in Nat
           /\ Top.listed <= Len(Top.dirs)
           /\ Len(stack) >= 2 => Top.dir \in 1..Len(heap)
<1>1. stack # <<>> /\ Parts
  BY DEF TypeInv, Parts, PlainType
<1>2. /\ Len(stack) \in Nat \ {0} /\ Len(heap) \in Nat
      /\ Top \in Frames(Len(heap))
  BY <1>1, TopType, Zenon
<1>3. /\ Top.files \in Seq(1..Len(heap)) /\ Top.dirs \in Seq(1..Len(heap))
      /\ Top.dir \in 0..Len(heap) /\ Top.listed \in Nat
  BY <1>2, FrameFields, Zenon
<1>4. stack \in Seq(Frames(Len(heap)))
  BY <1>1 DEF Parts, HeapType
<1>5. Top.listed <= Len(Top.dirs)
  <2>1. \A k \in DOMAIN stack : stack[k].listed <= Len(stack[k].dirs)
    BY <1>1 DEF Parts, ListedType
  <2>2. Len(stack) \in DOMAIN stack
    BY <1>2, <1>4
  <2> QED
    BY <2>1, <2>2 DEF Top
<1>6. ASSUME Len(stack) >= 2 PROVE Top.dir \in 1..Len(heap)
  <2> DEFINE k == Len(stack)
             f == stack[k - 1]
  <2>1. k \in 2..Len(stack) /\ k - 1 \in 1..Len(stack)
    BY <1>2, <1>6
  <2>2. f \in Frames(Len(heap))
    BY <1>4, <2>1
  <2>3. f.dirs \in Seq(1..Len(heap))
    BY <1>2, <2>2, FrameFields
  <2>4. f.listed \in 1..Len(f.dirs) /\ stack[k].dir = f.dirs[f.listed]
    BY <2>1 DEF TypeInv, CallsInv
  <2> HIDE DEF f
  <2> QED
    BY <2>3, <2>4 DEF Top
<1> QED
  BY <1>1, <1>2, <1>3, <1>5, <1>6

LEMMA StackKept ==
    ASSUME Parts, CallsInv, stack' = stack,
           heap' \in Seq(FileType), Len(heap) <= Len(heap')
    PROVE  HeapType' /\ ListedType' /\ CallsInv' /\ Len(stack') = Len(stack)
<1>1. Len(heap') \in Nat
  OBVIOUS
<1>2. stack \in Seq(Frames(Len(heap')))
  BY <1>1, TypesOfMore, Zenon
<1>3. HeapType'
  BY <1>2 DEF HeapType
<1>4. ListedType' /\ CallsInv'
  BY DEF Parts, ListedType, CallsInv
<1> QED
  BY <1>3, <1>4

\* A File goes on a list of the top frame.
LEMMA ListsGrow ==
    ASSUME TypeInv, pc # "done", NEW n \in Nat, Len(heap) <= n, NEW id \in 1..n
    PROVE  /\ Top \in Frames(n)
           /\ Top.files \in Seq(1..n) /\ Append(Top.files, id) \in Seq(1..n)
           /\ Top.dirs \in Seq(1..n) /\ Append(Top.dirs, id) \in Seq(1..n)
           /\ Top.listed <= Len(Top.dirs) /\ Top.listed <= Len(Append(Top.dirs, id))
<1>1. /\ Len(heap) \in Nat /\ Top \in Frames(Len(heap))
      /\ Top.listed \in Nat /\ Top.listed <= Len(Top.dirs)
  BY TopFacts, Zenon
<1>2. Top \in Frames(n)
  <2>1. Frames(Len(heap)) \subseteq Frames(n)
    BY <1>1, TypesGrow, Zenon
  <2> QED
    BY <1>1, <2>1
<1>3. Top.files \in Seq(1..n) /\ Top.dirs \in Seq(1..n)
  BY <1>2, FrameFields, Zenon
<1>4. Append(Top.files, id) \in Seq(1..n)
  BY <1>3
<1>5. Append(Top.dirs, id) \in Seq(1..n) /\ Len(Append(Top.dirs, id)) = Len(Top.dirs) + 1
  BY <1>3
<1> QED
  BY <1>1, <1>2, <1>3, <1>4, <1>5

LEMMA OneMoreFile ==
    ASSUME TypeInv, pc # "done", heap' \in Seq(FileType), Len(heap) <= Len(heap'),
           NEW id \in 1..Len(heap'),
           \/ stack' = stack
           \/ stack' = WithTop([Top EXCEPT !.files = Append(Top.files, id)])
           \/ stack' = WithTop([Top EXCEPT !.dirs = Append(Top.dirs, id)])
           \/ stack' = WithTop([Top EXCEPT !.files = Append(Top.files, id),
                                          !.dirs = Append(Top.dirs, id)])
    PROVE  HeapType' /\ ListedType' /\ CallsInv' /\ Len(stack') = Len(stack)
<1> DEFINE n == Len(heap')
<1>1. Parts /\ CallsInv /\ stack # <<>> /\ n \in Nat
  <2>1. n \in Nat
    OBVIOUS
  <2> QED
    BY <2>1, TopFacts, Zenon DEF TypeInv
<1> USE <1>1
<1>2. /\ Top \in Frames(n)
      /\ Top.files \in Seq(1..n) /\ Append(Top.files, id) \in Seq(1..n)
      /\ Top.dirs \in Seq(1..n) /\ Append(Top.dirs, id) \in Seq(1..n)
      /\ Top.listed <= Len(Top.dirs) /\ Top.listed <= Len(Append(Top.dirs, id))
  BY ListsGrow, Zenon
<1>3. CASE stack' = stack
  BY <1>3, StackKept, Zenon
<1>4. CASE stack' = WithTop([Top EXCEPT !.files = Append(Top.files, id)])
  <2>0. PICK f : f = [Top EXCEPT !.files = Append(Top.files, id)]
    OBVIOUS
  <2>1. /\ f \in Frames(n) /\ f.dir = Top.dir /\ f.listed = Top.listed
        /\ f.dirs = Top.dirs
    BY <1>2, <2>0 DEF Frames
  <2>2. stack' = WithTop(f)
    BY <1>4, <2>0
  <2>3. f.listed <= Len(f.dirs)
    BY <1>2, <2>1
  <2> QED
    BY <2>1, <2>2, <2>3, TopChanges, Zenon
<1>5. CASE stack' = WithTop([Top EXCEPT !.dirs = Append(Top.dirs, id)])
  <2>0. PICK f : f = [Top EXCEPT !.dirs = Append(Top.dirs, id)]
    OBVIOUS
  <2>1. /\ f \in Frames(n) /\ f.dir = Top.dir /\ f.listed = Top.listed
        /\ f.dirs = Append(Top.dirs, id)
    BY <1>2, <2>0 DEF Frames
  <2>2. stack' = WithTop(f)
    BY <1>5, <2>0
  <2>3. f.listed <= Len(f.dirs)
    BY <1>2, <2>1
  <2> QED
    BY <2>1, <2>2, <2>3, TopChanges, Zenon
<1>6. CASE stack' = WithTop([Top EXCEPT !.files = Append(Top.files, id),
                                       !.dirs = Append(Top.dirs, id)])
  <2>0. PICK f : f = [Top EXCEPT !.files = Append(Top.files, id),
                        !.dirs = Append(Top.dirs, id)]
    OBVIOUS
  <2>1. /\ f \in Frames(n) /\ f.dir = Top.dir /\ f.listed = Top.listed
        /\ f.dirs = Append(Top.dirs, id)
    BY <1>2, <2>0 DEF Frames
  <2>2. stack' = WithTop(f)
    BY <1>6, <2>0
  <2>3. f.listed <= Len(f.dirs)
    BY <1>2, <2>1
  <2> QED
    BY <2>1, <2>2, <2>3, TopChanges, Zenon
<1> QED
  BY <1>3, <1>4, <1>5, <1>6

-----------------------------------------------------------------------------
(* Each action keeps the types.                                                *)

LEMMA OperandKeepsTypes ==
    ASSUME TypeInv, Operand
    PROVE  TypeInv'
<1> DEFINE path == operands[looked + 1]
           id == Len(heap) + 1
<1>0. PICK st \in Stats : GetStat(path, st) /\ PlaceOperand(path, st)
  BY DEF Operand
<1> DEFINE file == StatIs(NewFile(path), st)
<1>1. Parts /\ CallsInv /\ pc = "operand" /\ pc # "done" /\ Len(stack) = 1
  BY DEF TypeInv, Operand, PcInv
<1>2. Len(heap) \in Nat /\ stack # <<>>
  BY <1>1, TopFacts, Zenon
<1>3. path \in Seq(AnyName) \ {<<>>}
  BY <1>1, TypesOfConstants DEF Operand, Parts, PlainType
<1>4. file \in FileType /\ [file EXCEPT !.freed = 1] \in FileType
  <2>1. NewFile(path) \in FileType
    BY <1>3, FileTypes, Zenon
  <2>2. file \in FileType
    BY <2>1, FileTypes, Zenon
  <2> HIDE DEF file
  <2> QED
    BY <2>2, FileTypes
<1>5. \E f \in FileType : heap' = Append(heap, f)
  BY <1>0, <1>4 DEF PlaceOperand
<1>6. /\ heap' \in Seq(FileType) /\ Len(heap') = Len(heap) + 1
      /\ Len(heap) <= Len(heap') /\ id \in 1..Len(heap')
  <2>1. /\ heap' \in Seq(FileType) /\ Len(heap') = Len(heap) + 1
    BY <1>1, <1>5, FileAdded, Zenon
  <2> QED
    BY <1>2, <2>1
<1>7. /\ \/ stack' = stack
         \/ stack' = WithTop([Top EXCEPT !.files = Append(Top.files, id)])
         \/ stack' = WithTop([Top EXCEPT !.dirs = Append(Top.dirs, id)])
      /\ pc' \in {"operand", "islinktodir"}
      /\ exit' \in {0, 1}
  BY <1>0, <1>1 DEF PlaceOperand, TypeInv, Parts, PlainType
<1>8. HeapType' /\ ListedType' /\ CallsInv' /\ Len(stack') = Len(stack)
  BY <1>1, <1>6, <1>7, OneMoreFile, Zenon
<1>9. OutType'
  BY <1>1, <1>6, OutputKept DEF Operand
<1>10. PlainType' /\ PcInv' /\ StreamInv'
  <2>1. stack' # <<>>
    BY <1>1, <1>8
  <2>2. PlainType'
    BY <1>0, <1>7, <2>1 DEF TypeInv, Parts, PlainType, Operand, GetStat, Shortage, world
  <2>3. PcInv' /\ StreamInv'
    BY <1>1, <1>2, <1>6, <1>7, <1>8 DEF TypeInv, PcInv, StreamInv, Operand
  <2> QED
    BY <2>2, <2>3
<1> QED
  BY <1>8, <1>9, <1>10 DEF TypeInv, Parts

LEMMA IsLinkToDirKeepsTypes ==
    ASSUME TypeInv, IsLinkToDir
    PROVE  TypeInv'
<1>1. /\ Parts /\ CallsInv /\ pc # "done" /\ Len(stack) = 1
      /\ Len(heap) >= 1
  BY DEF TypeInv, IsLinkToDir, PcInv
<1>0. PICK t \in Targets :
          /\ GetFinalTarget(heap[Cur].path, t)
          /\ heap' = [heap EXCEPT ![Cur] = TargetIs(heap[Cur], t)]
  BY DEF IsLinkToDir
<1>2. Len(heap) \in Nat /\ Cur \in 1..Len(heap)
  <2>1. Len(heap) \in Nat
    BY <1>1, TopFacts, Zenon
  <2> QED
    BY <1>1, <2>1 DEF Cur
<1>3. /\ heap' \in Seq(FileType) /\ Len(heap') = Len(heap)
      /\ Len(heap) <= Len(heap') /\ Cur \in 1..Len(heap')
  <2>1. heap[Cur] \in FileType
    BY <1>1, <1>2 DEF Parts, HeapType
  <2>2. TargetIs(heap[Cur], t) \in FileType
    BY <2>1, FileTypes, Zenon
  <2>3. heap' = [heap EXCEPT ![Cur] = TargetIs(heap[Cur], t)]
    BY <1>0
  <2>4. /\ heap' \in Seq(FileType) /\ Len(heap') = Len(heap)
    BY <1>1, <1>2, <2>2, <2>3, FileChanged, Zenon
  <2> QED
    BY <1>2, <2>4
<1>4. \/ stack' = WithTop([Top EXCEPT !.files = Append(Top.files, Cur)])
      \/ stack' = WithTop([Top EXCEPT !.dirs = Append(Top.dirs, Cur)])
  BY DEF IsLinkToDir
<1>5. HeapType' /\ ListedType' /\ CallsInv' /\ Len(stack') = Len(stack)
  BY <1>1, <1>3, <1>4, OneMoreFile, Zenon
<1>6. OutType'
  BY <1>1, <1>3, OutputKept DEF IsLinkToDir
<1>7. PlainType' /\ PcInv' /\ StreamInv'
  <2>1. stack' # <<>>
    BY <1>1, <1>5
  <2>2. PlainType'
    BY <1>0, <2>1 DEF TypeInv, Parts, PlainType, IsLinkToDir, GetFinalTarget, Shortage, world
  <2>3. PcInv' /\ StreamInv'
    BY <1>1, <1>2, <1>3, <1>5 DEF TypeInv, PcInv, StreamInv, IsLinkToDir
  <2> QED
    BY <2>2, <2>3
<1> QED
  BY <1>5, <1>6, <1>7 DEF TypeInv, Parts

LEMMA OperandsDoneKeepsTypes ==
    ASSUME TypeInv, OperandsDone
    PROVE  TypeInv'
<1>1. /\ Parts /\ CallsInv /\ pc # "done" /\ Len(stack) = 1
  BY DEF TypeInv, OperandsDone, PcInv
<1>2. /\ stack # <<>> /\ Top \in Frames(Len(heap)) /\ Len(heap) \in Nat
      /\ Top.listed <= Len(Top.dirs)
  BY <1>1, TopFacts, Zenon
<1>3. PICK f : f = [Top EXCEPT !.first = (Top.files = <<>>)]
  OBVIOUS
<1>4. /\ f \in Frames(Len(heap)) /\ f.dir = Top.dir /\ f.listed = Top.listed
      /\ f.dirs = Top.dirs
  BY <1>2, <1>3 DEF Frames
<1>5. /\ heap' \in Seq(FileType) /\ heap' = heap /\ Len(heap) <= Len(heap')
      /\ f \in Frames(Len(heap')) /\ f.listed <= Len(f.dirs)
  BY <1>1, <1>2, <1>4 DEF OperandsDone, Parts, HeapType
<1>6. HeapType' /\ ListedType' /\ CallsInv' /\ Len(stack') = Len(stack)
  BY <1>1, <1>2, <1>3, <1>4, <1>5, TopChanges, Zenon DEF OperandsDone
<1>7. OutType'
  BY <1>1, <1>5, OutputKept DEF OperandsDone
<1>8. PlainType' /\ PcInv' /\ StreamInv'
  <2>1. stack' # <<>>
    BY <1>1, <1>6
  <2>2. PlainType'
    BY <2>1 DEF TypeInv, Parts, PlainType, OperandsDone, world
  <2>3. PcInv' /\ StreamInv'
    BY <1>1, <1>5, <1>6 DEF TypeInv, PcInv, StreamInv, OperandsDone
  <2> QED
    BY <2>2, <2>3
<1> QED
  BY <1>6, <1>7, <1>8 DEF TypeInv, Parts

LEMMA StatFileKeepsTypes ==
    ASSUME TypeInv, StatFile
    PROVE  TypeInv'
<1>1. Parts /\ CallsInv /\ pc # "done"
  BY DEF TypeInv, StatFile
<1>2. stack # <<>> /\ Len(heap) \in Nat /\ Top.files \in Seq(1..Len(heap))
  BY <1>1, TopFacts, Zenon
<1>3. PICK i \in InTopFiles, st \in Stats :
          GetStat(heap[i].path, st) /\ heap' = [heap EXCEPT ![i] = StatIs(heap[i], st)]
  BY DEF StatFile
<1>4. i \in 1..Len(heap)
  BY <1>2, <1>3 DEF InTopFiles
<1>5. heap' \in Seq(FileType) /\ Len(heap') = Len(heap) /\ Len(heap) <= Len(heap')
  <2>1. heap[i] \in FileType
    BY <1>1, <1>4 DEF Parts, HeapType
  <2>2. StatIs(heap[i], st) \in FileType
    BY <2>1, FileTypes, Zenon
  <2>3. heap' = [heap EXCEPT ![i] = StatIs(heap[i], st)]
    BY <1>3
  <2>4. heap' \in Seq(FileType) /\ Len(heap') = Len(heap)
    BY <1>1, <1>4, <2>2, <2>3, FileChanged, Zenon
  <2> QED
    BY <1>2, <2>4
<1>6. stack' = stack /\ HeapType' /\ ListedType' /\ CallsInv'
  BY <1>1, <1>5, StackKept DEF StatFile
<1>7. OutType'
  BY <1>1, <1>5, OutputKept DEF StatFile
<1>8. PlainType' /\ PcInv' /\ StreamInv'
  <2>1. PlainType'
    BY <1>2, <1>3, <1>6 DEF TypeInv, Parts, PlainType, StatFile, GetStat, Shortage, world
  <2>2. PcInv' /\ StreamInv'
    BY <1>5, <1>6 DEF TypeInv, PcInv, StreamInv, StatFile
  <2> QED
    BY <2>1, <2>2
<1> QED
  BY <1>6, <1>7, <1>8 DEF TypeInv, Parts

LEMMA FollowFileKeepsTypes ==
    ASSUME TypeInv, FollowFile
    PROVE  TypeInv'
<1>1. Parts /\ CallsInv /\ pc # "done"
  BY DEF TypeInv, FollowFile
<1>2. stack # <<>> /\ Len(heap) \in Nat /\ Top.files \in Seq(1..Len(heap))
  BY <1>1, TopFacts, Zenon
<1>3. PICK i \in InTopFiles, t \in Targets :
          GetFinalTarget(heap[i].path, t) /\ heap' = [heap EXCEPT ![i] = TargetIs(heap[i], t)]
  BY DEF FollowFile
<1>4. i \in 1..Len(heap)
  BY <1>2, <1>3 DEF InTopFiles
<1>5. heap' \in Seq(FileType) /\ Len(heap') = Len(heap) /\ Len(heap) <= Len(heap')
  <2>1. heap[i] \in FileType
    BY <1>1, <1>4 DEF Parts, HeapType
  <2>2. TargetIs(heap[i], t) \in FileType
    BY <2>1, FileTypes, Zenon
  <2>3. heap' = [heap EXCEPT ![i] = TargetIs(heap[i], t)]
    BY <1>3
  <2>4. heap' \in Seq(FileType) /\ Len(heap') = Len(heap)
    BY <1>1, <1>4, <2>2, <2>3, FileChanged, Zenon
  <2> QED
    BY <1>2, <2>4
<1>6. stack' = stack /\ HeapType' /\ ListedType' /\ CallsInv'
  BY <1>1, <1>5, StackKept DEF FollowFile
<1>7. OutType'
  BY <1>1, <1>5, OutputKept DEF FollowFile
<1>8. PlainType' /\ PcInv' /\ StreamInv'
  <2>1. PlainType'
    BY <1>2, <1>3, <1>6 DEF TypeInv, Parts, PlainType, FollowFile, GetFinalTarget, Shortage,
                            world
  <2>2. PcInv' /\ StreamInv'
    BY <1>5, <1>6 DEF TypeInv, PcInv, StreamInv, FollowFile
  <2> QED
    BY <2>1, <2>2
<1> QED
  BY <1>6, <1>7, <1>8 DEF TypeInv, Parts

\* What is printed is what had been looked up.
LEMMA RowsAreRows ==
    ASSUME TypeInv, PrintFiles
    PROVE  \A rows \in RowSets : rows \in SUBSET Rows
<1>1. pc # "done"
  BY DEF PrintFiles
<1>2. Len(heap) \in Nat /\ Top.files \in Seq(1..Len(heap))
  BY <1>1, TopFacts, Zenon
<1>3. ASSUME NEW i \in InTopFiles PROVE heap[i] \in FileType
  BY <1>2, <1>3 DEF InTopFiles, TypeInv, Parts, HeapType
<1>4. ASSUME NEW i \in InTopFiles, ~heap[i].lacked PROVE RowOf(heap[i]) \in Rows
  <2>1. heap[i] \in FileType
    BY <1>3
  <2>2. ~StatNeeded(i) /\ ~TargetNeeded(i)
    BY <1>4 DEF PrintFiles
  <2>3. opts.columns => Shown(heap[i]) \in {"failed", "null", "file", "dir", "link"}
    BY <2>1, <2>2 DEF StatNeeded, TargetNeeded, Shown, FileType, Stats, Targets
  <2> QED
    BY <2>1, <2>3 DEF RowOf, Rows, FileType
<1>5. ASSUME NEW i \in InTopFiles, NEW s \in {"name", "?", "file", "dir", "link"}
      PROVE  [path |-> heap[i].path, shows |-> s] \in Rows
  BY <1>3 DEF Rows, FileType
<1> SUFFICES ASSUME NEW rows \in RowSets PROVE rows \in SUBSET Rows
  OBVIOUS
<1>6. PICK shown \in [Lacking -> {"name", "?", "file", "dir", "link"}] :
         rows = {IF heap[i].lacked THEN [path |-> heap[i].path, shows |-> shown[i]]
                 ELSE RowOf(heap[i]) : i \in InTopFiles}
  BY DEF RowSets
<1>7. \A i \in InTopFiles : heap[i].lacked => shown[i] \in {"name", "?", "file", "dir", "link"}
  BY DEF Lacking
<1> QED
  BY <1>4, <1>5, <1>6, <1>7

LEMMA PrintFilesKeepsTypes ==
    ASSUME TypeInv, PrintFiles
    PROVE  TypeInv'
<1>1. Parts /\ CallsInv /\ pc # "done"
  BY DEF TypeInv, PrintFiles
<1>2. /\ stack # <<>> /\ Len(heap) \in Nat /\ Len(stack) \in Nat \ {0}
      /\ Top \in Frames(Len(heap)) /\ Top.files \in Seq(1..Len(heap))
      /\ Top.dir \in 0..Len(heap) /\ Top.listed <= Len(Top.dirs)
  BY <1>1, TopFacts, Zenon
<1>3. heap' \in Seq(FileType) /\ Len(heap') = Len(heap) /\ Len(heap) <= Len(heap')
  <2>1. FreeAll(heap, Top.files) \in Seq(FileType) /\ Len(FreeAll(heap, Top.files)) = Len(heap)
    BY <1>1, <1>2, Freed, Zenon
  <2>2. heap' = heap \/ heap' = FreeAll(heap, Top.files)
    BY DEF PrintFiles
  <2> QED
    BY <1>1, <1>2, <2>1, <2>2 DEF Parts, HeapType
<1>4. HeapType' /\ ListedType' /\ CallsInv' /\ Len(stack') = Len(stack)
  <2>1. CASE InMain
    <3>1. PICK f : f = [Top EXCEPT !.files = <<>>]
      OBVIOUS
    <3>2. /\ f \in Frames(Len(heap)) /\ f.dir = Top.dir /\ f.listed = Top.listed
          /\ f.dirs = Top.dirs
      <4>0. <<>> \in Seq(1..Len(heap))
        OBVIOUS
      <4>1. PICK s \in Seq(1..Len(heap)) : s = <<>>
        BY <4>0, Zenon
      <4>2. f = [Top EXCEPT !.files = s]
        BY <3>1, <4>1
      <4> QED
        BY <1>2, <4>2 DEF Frames
    <3>3. f \in Frames(Len(heap')) /\ f.listed <= Len(f.dirs) /\ stack' = WithTop(f)
      BY <1>2, <1>3, <2>1, <3>1, <3>2 DEF PrintFiles
    <3> QED
      BY <1>1, <1>2, <1>3, <3>2, <3>3, TopChanges, Zenon
  <2>2. CASE ~InMain
    <3>1. stack' = stack
      BY <2>2 DEF PrintFiles
    <3> QED
      BY <1>1, <1>3, <3>1, StackKept, Zenon
  <2> QED
    BY <2>1, <2>2
<1>5. OutType'
  <2>1. CASE Top.files = <<>>
    BY <1>1, <1>3, <2>1, OutputKept DEF PrintFiles
  <2>2. CASE Top.files # <<>>
    <3>1. PICK r \in RowSets :
              out' = Append(out, [event |-> "rows", dir |-> Top.dir, rows |-> r])
      BY <2>2 DEF PrintFiles
    <3>2. [event |-> "rows", dir |-> Top.dir, rows |-> r] \in Events(Len(heap))
      <4>1. r \in SUBSET Rows
        BY <3>1, RowsAreRows, Zenon
      <4> QED
        BY <1>2, <4>1 DEF Events
    <3> QED
      BY <1>1, <1>3, <3>1, <3>2, OutputAdded, Zenon
  <2> QED
    BY <2>1, <2>2
<1>6. PlainType' /\ PcInv' /\ StreamInv'
  <2>1. stack' # <<>>
    BY <1>2, <1>4
  <2>2. PlainType'
    BY <2>1 DEF TypeInv, Parts, PlainType, PrintFiles, world
  <2>3. PcInv' /\ StreamInv'
    BY <1>2, <1>4 DEF TypeInv, PcInv, StreamInv, PrintFiles, InMain
  <2> QED
    BY <2>2, <2>3
<1> QED
  BY <1>4, <1>5, <1>6 DEF TypeInv, Parts

LEMMA NextDirKeepsTypes ==
    ASSUME TypeInv, NextDir
    PROVE  TypeInv'
<1> DEFINE n == Len(heap)
           id == Top.dirs[Top.listed + 1]
<1>1. Parts /\ CallsInv /\ pc # "done" /\ Top.listed < Len(Top.dirs)
  BY DEF TypeInv, NextDir
<1>2. /\ stack # <<>> /\ n \in Nat /\ Len(stack) \in Nat \ {0}
      /\ Top \in Frames(n) /\ Top.dirs \in Seq(1..n) /\ Top.listed \in Nat
  BY <1>1, TopFacts, Zenon
<1>3. Top.listed + 1 \in 1..Len(Top.dirs) /\ id \in 1..n
  BY <1>1, <1>2
<1>4. PICK f : f = [Top EXCEPT !.listed = Top.listed + 1]
  OBVIOUS
<1>5. PICK g : g = Frame(id, FALSE)
  OBVIOUS
<1>6. /\ f \in Frames(n) /\ f.dir = Top.dir /\ f.listed = Top.listed + 1
      /\ f.dirs = Top.dirs
  BY <1>2, <1>4 DEF Frames
<1>7. g \in Frames(n) /\ g.dir = id /\ g.listed = 0 /\ g.dirs = <<>>
  BY <1>2, <1>3, <1>5 DEF Frames, Frame
<1>8. stack' = Append(WithTop(f), g) /\ heap' = heap
  BY <1>4, <1>5 DEF NextDir
<1>9. HeapType' /\ ListedType' /\ CallsInv' /\ Len(stack') = Len(stack) + 1
  <2>1. f.listed \in 1..Len(Top.dirs) /\ g.dir = Top.dirs[f.listed] /\ g.listed <= Len(g.dirs)
    BY <1>3, <1>6, <1>7
  <2> QED
    BY <1>1, <1>2, <1>6, <1>7, <1>8, <2>1, Pushed, Zenon
<1>10. OutType'
  <2>1. out \in Seq(Events(n))
    BY <1>1 DEF Parts, OutType
  <2>2. [event |-> "blank"] \in Events(n) /\ [event |-> "label", dir |-> id] \in Events(n)
    BY <1>3 DEF Events
  <2>3. /\ <<>> \in Seq(Events(n)) /\ <<[event |-> "blank"]>> \in Seq(Events(n))
        /\ <<[event |-> "label", dir |-> id]>> \in Seq(Events(n))
    BY <2>2
  <2> HIDE DEF n
  <2>4. PICK blank \in Seq(Events(n)), label \in Seq(Events(n)) : out' = out \o blank \o label
    BY <2>3 DEF NextDir
  <2>5. out' \in Seq(Events(n))
    BY <2>1, <2>4
  <2> QED
    BY <1>8, <2>5 DEF OutType, n
<1>11. PlainType' /\ PcInv' /\ StreamInv'
  <2>1. stack' # <<>>
    BY <1>2, <1>9
  <2>2. PlainType'
    BY <2>1 DEF TypeInv, Parts, PlainType, NextDir, world
  <2>3. PcInv'
    <3>1. pc' = "open"
      BY DEF NextDir
    <3>2. Len(stack') >= 2
      BY <1>2, <1>9
    <3> QED
      BY <3>1, <3>2 DEF PcInv
  <2>4. StreamInv'
    BY DEF TypeInv, StreamInv, NextDir
  <2> QED
    BY <2>2, <2>3, <2>4
<1> QED
  BY <1>9, <1>10, <1>11 DEF TypeInv, Parts

LEMMA DirsDoneKeepsTypes ==
    ASSUME TypeInv, DirsDone
    PROVE  TypeInv'
<1>1. Parts /\ CallsInv /\ pc # "done"
  BY DEF TypeInv, DirsDone
<1>2. /\ stack # <<>> /\ Len(heap) \in Nat /\ Len(stack) \in Nat \ {0}
      /\ Top.dirs \in Seq(1..Len(heap))
  BY <1>1, TopFacts, Zenon
<1>3. CASE InMain
  <2>1. /\ heap' = FreeAll(heap, Top.dirs) /\ stack' = <<>> /\ pc' = "done"
        /\ out' = out
    BY <1>3 DEF DirsDone
  <2>2. heap' \in Seq(FileType) /\ Len(heap') = Len(heap)
    BY <1>1, <1>2, <2>1, Freed, Zenon
  <2>3. HeapType' /\ ListedType' /\ CallsInv'
    BY <2>1, <2>2 DEF HeapType, ListedType, CallsInv
  <2>4. OutType'
    BY <1>1, <1>2, <2>1, <2>2, OutputKept
  <2>5. PlainType'
    BY <2>1 DEF TypeInv, Parts, PlainType, DirsDone, world
  <2>6. PcInv' /\ StreamInv'
    BY <2>1 DEF TypeInv, PcInv, StreamInv, DirsDone
  <2> QED
    BY <2>3, <2>4, <2>5, <2>6 DEF TypeInv, Parts
<1>4. CASE ~InMain
  <2>1. heap' = heap /\ stack' = stack /\ pc' = "return" /\ out' = out
    BY <1>4 DEF DirsDone
  <2>2. HeapType' /\ ListedType' /\ CallsInv' /\ OutType'
    BY <1>1, <2>1 DEF Parts, HeapType, ListedType, CallsInv, OutType
  <2>3. PlainType'
    BY <1>2, <2>1 DEF TypeInv, Parts, PlainType, DirsDone, world
  <2>4. PcInv'
    <3>1. Len(stack) # 1 /\ Len(stack) \in Nat \ {0} /\ Len(stack') = Len(stack)
      BY <1>2, <1>4, <2>1 DEF InMain
    <3>2. Len(stack') >= 2
      BY <3>1
    <3> QED
      BY <2>1, <3>2 DEF PcInv
  <2>5. StreamInv'
    BY <2>1 DEF TypeInv, StreamInv, DirsDone
  <2> QED
    BY <2>2, <2>3, <2>4, <2>5 DEF TypeInv, Parts
<1> QED
  BY <1>3, <1>4

LEMMA OpenKeepsTypes ==
    ASSUME TypeInv, Open \/ OpenShortage
    PROVE  TypeInv'
<1>1. Parts /\ CallsInv /\ pc # "done" /\ pc = "open" /\ Len(stack) >= 2
  BY DEF TypeInv, Open, OpenShortage, PcInv
<1>2. stack # <<>> /\ Len(heap) \in Nat /\ Len(stack) \in Nat \ {0}
  BY <1>1, TopFacts, Zenon
<1>3. heap' = heap /\ heap' \in Seq(FileType) /\ out' = out
  BY <1>1 DEF Open, OpenShortage, Parts, HeapType
<1>4. OutType'
  BY <1>1, <1>3 DEF Parts, OutType
<1>5. CASE stack' = Pop /\ pc' = "dirs" /\ UNCHANGED <<unread, streams, total>>
  <2>1. HeapType' /\ ListedType' /\ CallsInv' /\ Len(stack') = Len(stack) - 1
    BY <1>1, <1>3, <1>5, Popped
  <2>2. stack' # <<>>
    BY <1>1, <1>2, <2>1
  <2>3. PlainType'
    BY <1>5, <2>2 DEF TypeInv, Parts, PlainType, Open, OpenShortage, Shortage, world
  <2>4. PcInv' /\ StreamInv'
    BY <1>1, <1>5 DEF TypeInv, PcInv, StreamInv
  <2> QED
    BY <1>4, <2>1, <2>3, <2>4 DEF TypeInv, Parts
<1>6. CASE /\ stack' = stack /\ pc' = "read" /\ streams' = streams + 1 /\ total' = 0
           /\ unread' \subseteq AnyName /\ UNCHANGED exit
  <2>1. HeapType' /\ ListedType' /\ CallsInv'
    BY <1>1, <1>3, <1>6 DEF Parts, HeapType, ListedType, CallsInv
  <2>2. PlainType'
    BY <1>2, <1>6 DEF TypeInv, Parts, PlainType, Open, OpenShortage, Shortage, world
  <2>3. PcInv' /\ StreamInv'
    BY <1>1, <1>6 DEF TypeInv, PcInv, StreamInv
  <2> QED
    BY <1>4, <2>1, <2>2, <2>3 DEF TypeInv, Parts
<1> QED
  BY <1>5, <1>6 DEF Open, OpenShortage, AnyName

LEMMA ReadEntryKeepsTypes ==
    ASSUME TypeInv, ReadEntry
    PROVE  TypeInv'
<1>1. Parts /\ CallsInv /\ pc # "done" /\ pc = "read" /\ Len(stack) >= 2
  BY DEF TypeInv, ReadEntry, PcInv
<1>2. /\ stack # <<>> /\ Len(heap) \in Nat /\ Len(stack) \in Nat \ {0}
      /\ Top.dir \in 1..Len(heap)
  BY <1>1, TopFacts, Zenon
<1>3. PICK name \in unread :
          /\ unread' = unread \ {name}
          /\ \/ heap' = heap /\ stack' = stack /\ pc' = "read"
             \/ /\ heap' = Append(heap, NewFile(Append(heap[Top.dir].path, name)))
                /\ \/ pc' = "entry" /\ stack' = stack
                   \/ /\ stack' = WithTop([Top EXCEPT !.files = Append(@, Cur + 1)])
                      /\ pc' = "read"
  BY <1>1 DEF ReadEntry
<1>4. CASE heap' = heap /\ stack' = stack /\ pc' = "read"
  <2>1. HeapType' /\ ListedType' /\ CallsInv' /\ OutType'
    BY <1>1, <1>4 DEF Parts, HeapType, ListedType, CallsInv, OutType, ReadEntry
  <2>2. PlainType'
    BY <1>2, <1>3, <1>4 DEF TypeInv, Parts, PlainType, ReadEntry, world
  <2>3. PcInv' /\ StreamInv'
    BY <1>1, <1>4 DEF TypeInv, PcInv, StreamInv, ReadEntry
  <2> QED
    BY <2>1, <2>2, <2>3 DEF TypeInv, Parts
<1>5. CASE /\ heap' = Append(heap, NewFile(Append(heap[Top.dir].path, name)))
           /\ \/ pc' = "entry" /\ stack' = stack
              \/ /\ stack' = WithTop([Top EXCEPT !.files = Append(@, Cur + 1)])
                 /\ pc' = "read"
  <2>1. NewFile(Append(heap[Top.dir].path, name)) \in FileType
    <3>1. heap[Top.dir] \in FileType
      BY <1>1, <1>2 DEF Parts, HeapType
    <3>2. heap[Top.dir].path \in Seq(AnyName) /\ name \in AnyName
      BY <1>1, <1>3, <3>1 DEF FileType, Parts, PlainType
    <3>3. Append(heap[Top.dir].path, name) \in Seq(AnyName) \ {<<>>}
      BY <3>2
    <3> QED
      BY <3>3, FileTypes, Zenon
  <2>2. heap' \in Seq(FileType) /\ Len(heap') = Len(heap) + 1
    BY <1>1, <1>5, <2>1, FileAdded, Zenon
  <2>3. Len(heap) <= Len(heap') /\ Cur + 1 \in 1..Len(heap')
    BY <1>2, <2>2 DEF Cur
  <2>4. \/ stack' = stack
        \/ stack' = WithTop([Top EXCEPT !.files = Append(Top.files, Cur + 1)])
    BY <1>5
  <2>5. HeapType' /\ ListedType' /\ CallsInv' /\ Len(stack') = Len(stack)
    BY <1>1, <2>2, <2>3, <2>4, OneMoreFile, Zenon
  <2>6. OutType'
    BY <1>1, <2>2, <2>3, OutputKept DEF ReadEntry
  <2>7. stack' # <<>>
    BY <1>2, <2>5
  <2>8. PlainType'
    BY <1>3, <1>5, <2>7 DEF TypeInv, Parts, PlainType, ReadEntry, world
  <2>9. PcInv'
    <3>1. pc' \in {"entry", "read"} /\ Len(heap') >= 1 /\ Len(stack') >= 2
      BY <1>1, <1>2, <1>5, <2>2, <2>5
    <3> QED
      BY <3>1 DEF PcInv
  <2>10. StreamInv'
    BY <1>1, <1>5 DEF TypeInv, StreamInv, ReadEntry
  <2> QED
    BY <2>5, <2>6, <2>8, <2>9, <2>10 DEF TypeInv, Parts
<1> QED
  BY <1>3, <1>4, <1>5

LEMMA StatEntryKeepsTypes ==
    ASSUME TypeInv, StatEntry
    PROVE  TypeInv'
<1>1. /\ Parts /\ CallsInv /\ pc # "done" /\ pc = "entry" /\ Len(stack) >= 2
      /\ Len(heap) >= 1
  BY DEF TypeInv, StatEntry, PcInv
<1>2. stack # <<>> /\ Len(heap) \in Nat /\ Len(stack) \in Nat \ {0}
  BY <1>1, TopFacts, Zenon
<1>3. Cur \in 1..Len(heap)
  BY <1>1, <1>2 DEF Cur
<1>0. PICK seen \in Stats, st \in Stats :
          GetStat(heap[Cur].path, seen) /\ PlaceEntry(seen, st)
  BY DEF StatEntry
<1>4. PICK f \in FileType : heap' = [heap EXCEPT ![Cur] = f]
  <2>1. heap[Cur] \in FileType
    BY <1>1, <1>3 DEF Parts, HeapType
  <2>2. StatIs(heap[Cur], st) \in FileType /\ [StatIs(heap[Cur], st) EXCEPT !.freed = 1] \in FileType
    BY <2>1, FileTypes, Zenon
  <2>3. \/ heap' = [heap EXCEPT ![Cur] = StatIs(heap[Cur], st)]
        \/ heap' = [heap EXCEPT ![Cur] = [StatIs(heap[Cur], st) EXCEPT !.freed = 1]]
    BY <1>0 DEF PlaceEntry
  <2> QED
    BY <2>2, <2>3
<1>5. /\ heap' \in Seq(FileType) /\ Len(heap') = Len(heap)
      /\ Len(heap) <= Len(heap') /\ Cur \in 1..Len(heap')
  <2>1. heap' \in Seq(FileType) /\ Len(heap') = Len(heap)
    BY <1>1, <1>3, <1>4, FileChanged, Zenon
  <2> QED
    BY <1>2, <1>3, <2>1
<1>6. /\ \/ stack' = stack
         \/ stack' = WithTop([Top EXCEPT !.files = Append(Top.files, Cur)])
         \/ stack' = WithTop([Top EXCEPT !.files = Append(Top.files, Cur),
                                        !.dirs = Append(Top.dirs, Cur)])
      /\ exit' \in {0, 1} /\ total' \in Nat
  <2>1. total \in Nat /\ exit \in {0, 1}
    BY <1>1 DEF Parts, PlainType
  <2>2. Blocks(st) \in Nat
    BY BlocksType
  <2>3. total + Blocks(st) \in Nat
    BY <2>1, <2>2
  <2>4. CASE opts.dirsonly /\ seen # "dir"
    BY <1>0, <2>1, <2>4 DEF PlaceEntry
  <2>5. CASE ~(opts.dirsonly /\ seen # "dir")
    <3> DEFINE down == opts.recursive /\ seen = "dir" /\ ~IsDotOrDotDot(heap[Cur].path)
    <3>1. /\ stack' = WithTop([Top EXCEPT !.files = Append(Top.files, Cur),
                              !.dirs = IF down THEN Append(Top.dirs, Cur) ELSE Top.dirs])
          /\ total' = IF opts.dirtotals THEN total + Blocks(st) ELSE total
          /\ exit' = exit
      BY <1>0, <2>5 DEF PlaceEntry
    <3>2. CASE down
      BY <2>1, <2>3, <3>1, <3>2
    <3>3. CASE ~down
      <4>1. [Top EXCEPT !.files = Append(Top.files, Cur), !.dirs = Top.dirs]
            = [Top EXCEPT !.files = Append(Top.files, Cur)]
        <5>1. Top \in Frames(Len(heap))
          BY <1>1, TopFacts, Zenon
        <5> QED
          BY <5>1 DEF Frames
      <4> QED
        BY <2>1, <2>3, <3>1, <3>3, <4>1
    <3> QED
      BY <3>2, <3>3
  <2> QED
    BY <2>4, <2>5
<1>7. HeapType' /\ ListedType' /\ CallsInv' /\ Len(stack') = Len(stack)
  BY <1>1, <1>5, <1>6, OneMoreFile, Zenon
<1>8. OutType'
  BY <1>1, <1>5, OutputKept DEF StatEntry
<1>9. PlainType' /\ PcInv' /\ StreamInv'
  <2>1. stack' # <<>>
    BY <1>2, <1>7
  <2>2. PlainType'
    BY <1>0, <1>6, <2>1 DEF TypeInv, Parts, PlainType, StatEntry, GetStat, Shortage, world
  <2>3. PcInv'
    BY <1>1, <1>7 DEF PcInv, StatEntry
  <2>4. StreamInv'
    BY <1>1 DEF TypeInv, StreamInv, StatEntry
  <2> QED
    BY <2>2, <2>3, <2>4
<1> QED
  BY <1>7, <1>8, <1>9 DEF TypeInv, Parts

LEMMA CloseStreamKeepsTypes ==
    ASSUME TypeInv, ReadEnd \/ ReadFault \/ ReadShortage
    PROVE  TypeInv'
<1>1. /\ Parts /\ CallsInv /\ pc # "done" /\ pc = "read" /\ Len(stack) >= 2
      /\ CloseStream /\ heap' = heap /\ stack' = stack
  BY DEF TypeInv, ReadEnd, ReadFault, ReadShortage, PcInv
<1>2. /\ stack # <<>> /\ Len(heap) \in Nat /\ Len(stack) \in Nat \ {0}
      /\ Top.dir \in 1..Len(heap)
  BY <1>1, TopFacts, Zenon
<1>3. HeapType' /\ ListedType' /\ CallsInv'
  BY <1>1 DEF Parts, HeapType, ListedType, CallsInv
<1>4. OutType'
  <2>1. [event |-> "total", dir |-> Top.dir, blocks |-> total] \in Events(Len(heap))
    BY <1>1, <1>2 DEF Parts, PlainType, Events
  <2>2. CASE opts.dirtotals
    <3>1. PICK e : e = [event |-> "total", dir |-> Top.dir, blocks |-> total]
      OBVIOUS
    <3>2. out' = Append(out, e) /\ e \in Events(Len(heap))
      BY <1>1, <2>1, <2>2, <3>1 DEF CloseStream
    <3> QED
      BY <1>1, <3>2, OutputAdded, Zenon
  <2>3. CASE ~opts.dirtotals
    BY <1>1, <2>3 DEF CloseStream, Parts, OutType
  <2> QED
    BY <2>2, <2>3
<1>5. PcInv' /\ StreamInv' /\ streams' = 0
  BY <1>1 DEF TypeInv, PcInv, StreamInv, CloseStream
<1>6. PlainType'
  <2>1. /\ unread' = {} /\ pc' = "files" /\ UNCHANGED <<world, looked, total>>
        /\ exit' \in {0, 1} /\ faults' \in Nat /\ shortages' \in Nat
    BY <1>1 DEF CloseStream, ReadEnd, ReadFault, ReadShortage, Shortage, Parts, PlainType
  <2> QED
    BY <1>1, <1>2, <1>5, <2>1 DEF Parts, PlainType, world
<1> QED
  BY <1>3, <1>4, <1>5, <1>6 DEF TypeInv, Parts

LEMMA ReturnKeepsTypes ==
    ASSUME TypeInv, Return
    PROVE  TypeInv'
<1>1. Parts /\ CallsInv /\ pc # "done" /\ Len(stack) >= 2
  BY DEF TypeInv, Return, PcInv
<1>2. /\ stack # <<>> /\ Len(heap) \in Nat /\ Len(stack) \in Nat \ {0}
      /\ Top.files \in Seq(1..Len(heap))
  BY <1>1, TopFacts, Zenon
<1>3. heap' \in Seq(FileType) /\ Len(heap') = Len(heap)
  <2>1. heap' = FreeAll(heap, Top.files)
    BY DEF Return, Owns
  <2> QED
    BY <1>1, <1>2, <2>1, Freed, Zenon
<1>4. HeapType' /\ ListedType' /\ CallsInv' /\ Len(stack') = Len(stack) - 1
  BY <1>1, <1>3, Popped DEF Return
<1>5. OutType'
  BY <1>1, <1>2, <1>3, OutputKept DEF Return
<1>6. PlainType' /\ PcInv' /\ StreamInv'
  <2>1. stack' # <<>>
    BY <1>1, <1>2, <1>4
  <2>2. PlainType'
    BY <2>1 DEF TypeInv, Parts, PlainType, Return, world
  <2>3. PcInv' /\ StreamInv'
    BY DEF TypeInv, PcInv, StreamInv, Return
  <2> QED
    BY <2>2, <2>3
<1> QED
  BY <1>4, <1>5, <1>6 DEF TypeInv, Parts

LEMMA TypeStep ==
    ASSUME TypeInv, [Next]_vars
    PROVE  TypeInv'
<1>1. CASE Program
  BY <1>1, OperandKeepsTypes, IsLinkToDirKeepsTypes, OperandsDoneKeepsTypes,
     StatFileKeepsTypes, FollowFileKeepsTypes, PrintFilesKeepsTypes,
     NextDirKeepsTypes, DirsDoneKeepsTypes, OpenKeepsTypes, ReadEntryKeepsTypes,
     StatEntryKeepsTypes, CloseStreamKeepsTypes, ReturnKeepsTypes, Zenon DEF Program
<1>2. CASE Change
  <2>1. /\ UNCHANGED <<faults, shortages, opts, order, operands, looked, heap, stack,
                       unread, streams, total, pc, out, exit>>
        /\ fs' \in FileSystems /\ changes' = changes + 1
    BY <1>2 DEF Change
  <2> QED
    BY <2>1 DEF TypeInv, Parts, HeapType, OutType, ListedType, PlainType, PcInv,
                CallsInv, StreamInv
<1>3. CASE UNCHANGED vars
  BY <1>3 DEF vars, TypeInv, Parts, HeapType, OutType, ListedType, PlainType, PcInv,
              CallsInv, StreamInv
<1> QED
  BY <1>1, <1>2, <1>3 DEF Next, Terminated

LEMMA TypeInit == Init => TypeInv
<1> SUFFICES ASSUME Init PROVE TypeInv
  OBVIOUS
<1>1. heap = <<>> /\ stack = <<Frame(0, TRUE)>> /\ out = <<>>
  BY DEF Init
<1>2. PICK f \in Frames(0) : f = Frame(0, TRUE)
  <2>1. 0 \in Nat /\ 0 \in 0..0 /\ TRUE \in BOOLEAN
    OBVIOUS
  <2>2. Frame(0, TRUE) \in Frames(0)
    BY <2>1, NewFrame, Zenon
  <2> QED
    BY <2>2, Zenon
<1>3. Len(heap) = 0 /\ stack = <<f>> /\ f.dir = 0 /\ f.listed = 0 /\ f.dirs = <<>>
  BY <1>1, <1>2 DEF Frame
<1>4. HeapType /\ OutType
  <2>1. <<f>> \in Seq(Frames(0))
    BY <1>2, OneElement, Zenon
  <2>2. heap \in Seq(FileType) /\ out \in Seq(Events(0))
    BY <1>1
  <2>3. Frames(Len(heap)) = Frames(0) /\ Events(Len(heap)) = Events(0)
    BY <1>3
  <2> QED
    BY <1>3, <2>1, <2>2, <2>3 DEF HeapType, OutType
<1>5. ListedType /\ CallsInv
  BY <1>3 DEF ListedType, CallsInv
<1>6. PlainType /\ PcInv /\ StreamInv
  BY <1>3, ListingAssumption DEF Init, PlainType, PcInv, StreamInv, ListingAssumption
<1> QED
  BY <1>4, <1>5, <1>6 DEF TypeInv, Parts

LEMMA TypeAlways == Spec => []TypeInv
  BY TypeInit, TypeStep, PTL DEF Spec

\* Every value of every variable has the type the declarations of l.c give it,
\* for any file system, options and operands.
THEOREM Types == Spec => []TypeOK
<1>1. TypeInv => TypeOK
  BY TypeInParts DEF TypeInv
<1> QED
  BY <1>1, TypeAlways, PTL

\* One directory stream is open at a time (l.c:423).
THEOREM StreamsAreClosed == Spec => []OneStream
<1>1. TypeInv => OneStream
  BY DEF TypeInv, StreamInv, OneStream
<1> QED
  BY <1>1, TypeAlways, PTL

-----------------------------------------------------------------------------
(* Who owns a File: the list that will free it.  Each frame has its files, and *)
(* main() its directories, here list 0; listdir()'s directories own nothing.   *)

Owners == IF stack = <<>> THEN {} ELSE 0..Len(stack)
Owned(k) == IF k = 0 THEN stack[1].dirs ELSE stack[k].files

Listed(i) == \E k \in Owners : \E p \in DOMAIN Owned(k) : Owned(k)[p] = i

\* The File that is on no list yet.
Pending == IF pc \in {"entry", "islinktodir"} THEN {Len(heap)} ELSE {}

OnceInv ==
    \A j, k \in Owners : \A p \in DOMAIN Owned(j), q \in DOMAIN Owned(k) :
        Owned(j)[p] = Owned(k)[q] => j = k /\ p = q

FreedInv ==
    \A i \in 1..Len(heap) :
        /\ heap[i].freed = IF Listed(i) \/ i \in Pending THEN 0 ELSE 1
        /\ ~(Listed(i) /\ i \in Pending)

\* A directory that listdir() recurses into is one of its files; main()'s files
\* are gone once they are printed, and listdir()'s lists start empty.
SubdirsInv ==
    /\ \A k \in 2..Len(stack) : \A p \in DOMAIN stack[k].dirs :
          \E q \in DOMAIN stack[k].files : stack[k].files[q] = stack[k].dirs[p]
    /\ \/ pc \in {"operand", "islinktodir"}
       \/ pc = "files" /\ Len(stack) = 1
       \/ stack # <<>> => stack[1].files = <<>>
    /\ pc = "open" => stack[Len(stack)].files = <<>>

OwnInv == OnceInv /\ FreedInv /\ SubdirsInv

LEMMA OwnedType ==
    ASSUME TypeInv, NEW k \in Owners
    PROVE  Owned(k) \in Seq(1..Len(heap))
<1>1. stack \in Seq(Frames(Len(heap))) /\ Len(heap) \in Nat
  BY DEF TypeInv, Parts, HeapType
<1>2. stack # <<>> /\ k \in 0..Len(stack)
  BY DEF Owners
<1>3. 1 \in 1..Len(stack) /\ (k # 0 => k \in 1..Len(stack))
  BY <1>1, <1>2
<1>4. \A j \in 1..Len(stack) : stack[j].files \in Seq(1..Len(heap)) /\ stack[j].dirs \in Seq(1..Len(heap))
  <2> TAKE j \in 1..Len(stack)
  <2>1. stack[j] \in Frames(Len(heap))
    BY <1>1
  <2> QED
    BY <1>1, <2>1, FrameFields, Zenon
<1> QED
  BY <1>3, <1>4 DEF Owned

\* FreeAll() of a list that holds nothing twice frees each File on it once.
LEMMA FreedByList ==
    ASSUME Parts, NEW ids \in Seq(1..Len(heap)),
           \A p, q \in DOMAIN ids : ids[p] = ids[q] => p = q
    PROVE  \A i \in 1..Len(heap) :
              /\ FreeAll(heap, ids)[i].freed =
                    IF \E p \in DOMAIN ids : ids[p] = i THEN heap[i].freed + 1 ELSE heap[i].freed
              /\ FreeAll(heap, ids)[i].path = heap[i].path
              /\ FreeAll(heap, ids)[i].stat = heap[i].stat
<1> TAKE i \in 1..Len(heap)
<1>1. heap \in Seq(FileType) /\ heap[i] \in FileType /\ i \in DOMAIN heap
  BY DEF Parts, HeapType
<1> DEFINE same == {k \in DOMAIN ids : ids[k] = i}
<1>2. FreeAll(heap, ids)[i] = [heap[i] EXCEPT !.freed = heap[i].freed + Cardinality(same)]
  BY <1>1 DEF FreeAll
<1>3. Cardinality(same) = IF \E p \in DOMAIN ids : ids[p] = i THEN 1 ELSE 0
  <2>1. CASE \E p \in DOMAIN ids : ids[p] = i
    <3>1. PICK p \in DOMAIN ids : ids[p] = i
      BY <2>1
    <3>2. same = {p}
      BY <3>1
    <3> QED
      BY <2>1, <3>2, FS_Singleton
  <2>2. CASE ~\E p \in DOMAIN ids : ids[p] = i
    <3>1. same = {}
      BY <2>2
    <3> QED
      BY <2>2, <3>1, FS_EmptySet
  <2> QED
    BY <2>1, <2>2
<1> HIDE DEF same
<1>4. heap[i].freed \in Nat
  BY <1>1 DEF FileType
<1> QED
  BY <1>1, <1>2, <1>3, <1>4 DEF FileType

\* Steps that change no list but for making or dropping an empty one.
LEMMA ListsKept ==
    ASSUME OnceInv, FreedInv,
           \A k \in Owners' : (k \in Owners /\ Owned(k)' = Owned(k)) \/ Owned(k)' = <<>>,
           \A k \in Owners : (k \in Owners' /\ Owned(k)' = Owned(k)) \/ Owned(k) = <<>>,
           Pending' = Pending, Len(heap') = Len(heap),
           \A i \in 1..Len(heap) : heap'[i].freed = heap[i].freed
    PROVE  OnceInv' /\ FreedInv'
<1>1. DOMAIN <<>> = {}
  OBVIOUS
<1>2. OnceInv'
  <2> SUFFICES ASSUME NEW j \in Owners', NEW k \in Owners',
                      NEW p \in DOMAIN Owned(j)', NEW q \in DOMAIN Owned(k)',
                      Owned(j)'[p] = Owned(k)'[q]
               PROVE  j = k /\ p = q
    BY DEF OnceInv
  <2>1. j \in Owners /\ Owned(j)' = Owned(j) /\ k \in Owners /\ Owned(k)' = Owned(k)
    BY <1>1
  <2> QED
    BY <2>1 DEF OnceInv
<1>3. \A i : Listed(i)' <=> Listed(i)
  BY <1>1 DEF Listed
<1>4. FreedInv'
  BY <1>3 DEF FreedInv
<1> QED
  BY <1>2, <1>4

\* A step that adds a File to one list.
LEMMA ListGrew ==
    ASSUME TypeInv, OnceInv, Owners' = Owners, NEW m \in Owners, NEW x, ~Listed(x),
           Owned(m)' = Append(Owned(m), x),
           \A k \in Owners : k # m => Owned(k)' = Owned(k)
    PROVE  OnceInv' /\ \A i : Listed(i)' <=> Listed(i) \/ i = x
<1>1. Owned(m) \in Seq(1..Len(heap))
  BY OwnedType
<1> DEFINE s == Owned(m)
           t == Append(s, x)
<1>2. /\ DOMAIN t = (DOMAIN s) \cup {Len(s) + 1} /\ Len(s) + 1 \notin DOMAIN s
      /\ t[Len(s) + 1] = x /\ \A p \in DOMAIN s : t[p] = s[p]
  BY <1>1
<1>3. Owned(m)' = t
  OBVIOUS
<1> HIDE DEF t
<1>4. \A i : Listed(i)' <=> Listed(i) \/ i = x
  BY <1>2, <1>3 DEF Listed
<1>5. OnceInv'
  <2> SUFFICES ASSUME NEW j \in Owners, NEW k \in Owners,
                      NEW p \in DOMAIN Owned(j)', NEW q \in DOMAIN Owned(k)',
                      Owned(j)'[p] = Owned(k)'[q]
               PROVE  j = k /\ p = q
    BY DEF OnceInv
  <2>1. \/ p \in DOMAIN Owned(j) /\ Owned(j)'[p] = Owned(j)[p]
        \/ j = m /\ p = Len(s) + 1 /\ Owned(j)'[p] = x
    BY <1>2, <1>3
  <2>2. \/ q \in DOMAIN Owned(k) /\ Owned(k)'[q] = Owned(k)[q]
        \/ k = m /\ q = Len(s) + 1 /\ Owned(k)'[q] = x
    BY <1>2, <1>3
  <2> QED
    BY <2>1, <2>2 DEF OnceInv, Listed
<1> QED
  BY <1>4, <1>5

\* A step that frees the Files of one list, and drops or empties it.
LEMMA ListFreed ==
    ASSUME TypeInv, OnceInv, FreedInv, NEW m \in Owners, Owners' \subseteq Owners,
           m \in Owners' => Owned(m)' = <<>>,
           \A k \in Owners \ {m} :
              \/ k \in Owners' /\ Owned(k)' = Owned(k)
              \/ k \notin Owners' /\ Owned(k) = <<>>,
           heap' = FreeAll(heap, Owned(m)), Pending = {}, Pending' = {}
    PROVE  OnceInv' /\ FreedInv'
<1>1. DOMAIN <<>> = {}
  OBVIOUS
<1>2. OnceInv'
  <2> SUFFICES ASSUME NEW j \in Owners', NEW k \in Owners',
                      NEW p \in DOMAIN Owned(j)', NEW q \in DOMAIN Owned(k)',
                      Owned(j)'[p] = Owned(k)'[q]
               PROVE  j = k /\ p = q
    BY DEF OnceInv
  <2>1. j \in Owners /\ Owned(j)' = Owned(j) /\ k \in Owners /\ Owned(k)' = Owned(k)
    BY <1>1
  <2> QED
    BY <2>1 DEF OnceInv
<1> DEFINE s == Owned(m)
           OnIt(i) == \E p \in DOMAIN s : s[p] = i
<1>3. \A i : Listed(i)' <=> Listed(i) /\ ~OnIt(i)
  <2> TAKE i
  <2>1. ASSUME Listed(i)' PROVE Listed(i) /\ ~OnIt(i)
    <3>1. PICK k \in Owners' : \E p \in DOMAIN Owned(k)' : Owned(k)'[p] = i
      BY <2>1 DEF Listed
    <3>2. k # m /\ k \in Owners /\ Owned(k)' = Owned(k)
      BY <1>1, <3>1
    <3> QED
      BY <3>1, <3>2 DEF Listed, OnceInv
  <2>2. ASSUME Listed(i), ~OnIt(i) PROVE Listed(i)'
    <3>1. PICK k \in Owners : \E p \in DOMAIN Owned(k) : Owned(k)[p] = i
      BY <2>2 DEF Listed
    <3>2. k \in Owners' /\ Owned(k)' = Owned(k)
      BY <1>1, <2>2, <3>1
    <3> QED
      BY <3>1, <3>2 DEF Listed
  <2> QED
    BY <2>1, <2>2
<1>4. \A i : OnIt(i) => Listed(i)
  BY DEF Listed
<1>5. /\ Len(heap') = Len(heap)
      /\ \A i \in 1..Len(heap) :
            heap'[i].freed = IF OnIt(i) THEN heap[i].freed + 1 ELSE heap[i].freed
  <2>1. Parts
    BY DEF TypeInv
  <2>2. s \in Seq(1..Len(heap))
    BY OwnedType
  <2>3. \A p, q \in DOMAIN s : s[p] = s[q] => p = q
    BY DEF OnceInv
  <2> QED
    BY <2>1, <2>2, <2>3, FreedByList, Freed, Zenon
<1> HIDE DEF OnIt
<1>6. ASSUME NEW i \in 1..Len(heap)
      PROVE  /\ heap'[i].freed = IF Listed(i)' \/ i \in Pending' THEN 0 ELSE 1
             /\ ~(Listed(i)' /\ i \in Pending')
  <2>1. heap[i].freed = IF Listed(i) THEN 0 ELSE 1
    BY DEF FreedInv
  <2>2. heap'[i].freed = IF OnIt(i) THEN heap[i].freed + 1 ELSE heap[i].freed
    BY <1>5
  <2> QED
    BY <1>3, <1>4, <2>1, <2>2
<1> QED
  BY <1>2, <1>5, <1>6 DEF FreedInv

\* The lists after the top frame has changed.
LEMMA TopChangesLists ==
    ASSUME TypeInv, pc # "done", NEW f, stack' = WithTop(f)
    PROVE  /\ stack' # <<>> /\ Len(stack') = Len(stack) /\ stack'[Len(stack)] = f
           /\ \A i \in 1..Len(stack) - 1 : stack'[i] = stack[i]
           /\ Owners' = Owners /\ 0 \in Owners /\ Len(stack) \in Owners
           /\ Len(stack) \in Nat \ {0}
           /\ Owned(Len(stack)) = Top.files /\ Owned(Len(stack))' = f.files
           /\ Owned(0)' = IF Len(stack) = 1 THEN f.dirs ELSE Owned(0)
           /\ Len(stack) = 1 => Owned(0) = Top.dirs
           /\ \A k \in Owners : k # 0 /\ k # Len(stack) => Owned(k)' = Owned(k)
<1>1. stack # <<>> /\ Len(stack) \in Nat \ {0}
  BY TopFacts, Zenon
<1>2. stack \in Seq(Frames(Len(heap)) \cup {f}) /\ f \in Frames(Len(heap)) \cup {f}
  <2>1. stack \in Seq(Frames(Len(heap)))
    BY DEF TypeInv, Parts, HeapType
  <2>2. Frames(Len(heap)) \subseteq Frames(Len(heap)) \cup {f} /\ f \in Frames(Len(heap)) \cup {f}
    BY Zenon
  <2> QED
    BY <2>1, <2>2, SeqMonotonic, Zenon
<1>3. /\ Len(stack') = Len(stack) /\ stack'[Len(stack)] = f
      /\ \A i \in 1..Len(stack) - 1 : stack'[i] = stack[i]
      /\ stack' \in Seq(Frames(Len(heap)) \cup {f})
  BY <1>1, <1>2, WithTopIs, Zenon
<1>4. stack' # <<>>
  BY <1>1, <1>3
<1>5. Owners' = Owners /\ Owners = 0..Len(stack) /\ 0 \in Owners /\ Len(stack) \in Owners
  BY <1>1, <1>3, <1>4 DEF Owners
<1>6. Owned(Len(stack)) = Top.files /\ Owned(Len(stack))' = f.files
  BY <1>1, <1>3 DEF Owned, Top
<1>7. /\ Owned(0)' = IF Len(stack) = 1 THEN f.dirs ELSE Owned(0)
      /\ Len(stack) = 1 => Owned(0) = Top.dirs
  <2>1. Len(stack) = 1 \/ 1 \in 1..Len(stack) - 1
    BY <1>1, OneOrBelow, Zenon
  <2> QED
    BY <1>1, <1>3, <2>1 DEF Owned, Top
<1>8. ASSUME NEW k \in Owners, k # 0, k # Len(stack) PROVE Owned(k)' = Owned(k)
  <2>1. k \in 1..Len(stack) - 1
    BY <1>1, <1>5, <1>8
  <2> QED
    BY <1>3, <1>8, <2>1 DEF Owned
<1> QED
  BY <1>1, <1>3, <1>4, <1>5, <1>6, <1>7, <1>8

\* What listing one more File does to the lists.
LEMMA TopListsGrow ==
    ASSUME TypeInv, OnceInv, SubdirsInv, pc # "done", NEW x \in Nat, ~Listed(x),
           NEW f, stack' = WithTop(f),
           \/ f.files = Append(Top.files, x) /\ f.dirs = Top.dirs
           \/ Len(stack) = 1 /\ f.files = Top.files /\ f.dirs = Append(Top.dirs, x)
           \/ /\ Len(stack) # 1 /\ f.files = Append(Top.files, x)
              /\ f.dirs = Append(Top.dirs, x),
           pc' # "open", pc \in {"operand", "islinktodir"} => pc' \in {"operand", "islinktodir"},
           \/ pc \in {"read", "entry"}
           \/ Len(stack) = 1 /\ pc \in {"operand", "islinktodir"}
    PROVE  OnceInv' /\ SubdirsInv' /\ \A i : Listed(i)' <=> Listed(i) \/ i = x
<1> DEFINE n == Len(heap)
<1>1. /\ Top \in Frames(n) /\ Top.files \in Seq(1..n) /\ Top.dirs \in Seq(1..n)
      /\ n \in Nat /\ Len(stack) \in Nat \ {0}
  BY TopFacts, Zenon
<1>2. /\ stack' # <<>> /\ Len(stack') = Len(stack) /\ stack'[Len(stack)] = f
      /\ \A i \in 1..Len(stack) - 1 : stack'[i] = stack[i]
      /\ Owners' = Owners /\ 0 \in Owners /\ Len(stack) \in Owners
      /\ Owned(Len(stack)) = Top.files /\ Owned(Len(stack))' = f.files
      /\ Owned(0)' = IF Len(stack) = 1 THEN f.dirs ELSE Owned(0)
      /\ Len(stack) = 1 => Owned(0) = Top.dirs
      /\ \A k \in Owners : k # 0 /\ k # Len(stack) => Owned(k)' = Owned(k)
  BY TopChangesLists, Zenon
<1>3. PICK m \in Owners : /\ Owned(m)' = Append(Owned(m), x)
                          /\ \A k \in Owners : k # m => Owned(k)' = Owned(k)
  <2>1. CASE f.files = Append(Top.files, x) /\ (Len(stack) = 1 => f.dirs = Top.dirs)
    BY <1>1, <1>2, <2>1
  <2>2. CASE Len(stack) = 1 /\ f.files = Top.files /\ f.dirs = Append(Top.dirs, x)
    <3>1. Owned(0)' = Append(Owned(0), x)
      BY <1>2, <2>2
    <3>2. \A k \in Owners : k # 0 => Owned(k)' = Owned(k)
      BY <1>2, <2>2
    <3> QED
      BY <1>2, <3>1, <3>2, Zenon
  <2> QED
    BY <2>1, <2>2, Zenon
<1>4. OnceInv' /\ \A i : Listed(i)' <=> Listed(i) \/ i = x
  BY <1>2, <1>3, ListGrew, Zenon
<1>5. ASSUME NEW k \in 2..Len(stack'), NEW p \in DOMAIN stack'[k].dirs
      PROVE  \E q \in DOMAIN stack'[k].files : stack'[k].files[q] = stack'[k].dirs[p]
  <2>1. CASE k # Len(stack)
    <3>1. k \in 2..Len(stack) /\ Len(stack) \in Nat
      BY <1>1, <1>2, <1>5
    <3>2. stack'[k] = stack[k]
      BY <1>2, <2>1, <3>1, BelowTop, Zenon
    <3> QED
      BY <1>5, <3>1, <3>2, Zenon DEF SubdirsInv
  <2>2. CASE k = Len(stack)
    <3>1. /\ stack'[k] = f /\ Len(stack) >= 2 /\ stack[k] = Top /\ k \in 2..Len(stack)
          /\ f.files = Append(Top.files, x)
          /\ f.dirs = Top.dirs \/ f.dirs = Append(Top.dirs, x)
      <4>1. k \in 2..Len(stack) /\ Len(stack) >= 2 /\ Len(stack) # 1
        <5>1. Len(stack) \in Nat /\ k \in 2..Len(stack)
          BY <1>1, <1>2, <1>5
        <5> QED
          BY <5>1, TwoOrMore, Zenon
      <4>2. stack'[k] = f /\ stack[k] = Top
        BY <1>2, <2>2 DEF Top
      <4> QED
        BY <4>1, <4>2, Zenon
    <3>2. /\ \A q \in DOMAIN Top.files : q \in DOMAIN f.files /\ f.files[q] = Top.files[q]
          /\ \E q \in DOMAIN f.files : f.files[q] = x
      <4> DEFINE s == Append(Top.files, x)
      <4>1. /\ \A q \in DOMAIN Top.files : q \in DOMAIN s /\ s[q] = Top.files[q]
            /\ \E q \in DOMAIN s : s[q] = x
        <5>1. Top.files \in Seq(1..n)
          BY <1>1
        <5> QED
          BY <5>1, AppendIs
      <4> QED
        BY <3>1, <4>1
    <3>3. (p \in DOMAIN Top.dirs /\ f.dirs[p] = Top.dirs[p]) \/ f.dirs[p] = x
      <4> DEFINE d == Append(Top.dirs, x)
      <4>1. \A q \in DOMAIN d : (q \in DOMAIN Top.dirs /\ d[q] = Top.dirs[q]) \/ d[q] = x
        <5>1. Top.dirs \in Seq(1..n)
          BY <1>1
        <5> QED
          BY <5>1, AppendIs
      <4>2. p \in DOMAIN f.dirs
        BY <1>5, <3>1
      <4> QED
        BY <3>1, <4>1, <4>2
    <3> QED
      <4>1. \A q \in DOMAIN Top.dirs :
               \E r \in DOMAIN Top.files : Top.files[r] = Top.dirs[q]
        BY <3>1 DEF SubdirsInv
      <4> QED
        BY <3>1, <3>2, <3>3, <4>1
  <2> QED
    BY <2>1, <2>2
<1>6. \/ pc' \in {"operand", "islinktodir"}
      \/ stack'[1].files = <<>>
  <2>1. CASE Len(stack) = 1
    BY <2>1 DEF TypeInv, PcInv
  <2>2. CASE Len(stack) # 1
    <3>1. 1 \in 1..Len(stack) - 1 /\ stack'[1] = stack[1]
      BY <1>1, <1>2, <2>2
    <3>2. stack[1].files = <<>>
      BY <1>1, <2>2 DEF SubdirsInv, TypeInv, PcInv
    <3> QED
      BY <3>1, <3>2
  <2> QED
    BY <2>1, <2>2
<1> QED
  BY <1>4, <1>5, <1>6 DEF SubdirsInv

LEMMA OneMoreListed ==
    ASSUME TypeInv, OnceInv, SubdirsInv, pc # "done", NEW x \in Nat, ~Listed(x),
           \/ stack' = WithTop([Top EXCEPT !.files = Append(Top.files, x)])
           \/ /\ Len(stack) = 1
              /\ stack' = WithTop([Top EXCEPT !.dirs = Append(Top.dirs, x)])
           \/ /\ Len(stack) # 1
              /\ stack' = WithTop([Top EXCEPT !.files = Append(Top.files, x),
                                             !.dirs = Append(Top.dirs, x)]),
           pc' # "open", pc \in {"operand", "islinktodir"} => pc' \in {"operand", "islinktodir"},
           \/ pc \in {"read", "entry"}
           \/ Len(stack) = 1 /\ pc \in {"operand", "islinktodir"}
    PROVE  OnceInv' /\ SubdirsInv' /\ \A i : Listed(i)' <=> Listed(i) \/ i = x
<1> DEFINE n == Len(heap)
<1>1. /\ Top \in Frames(n) /\ Top.files \in Seq(1..n) /\ Top.dirs \in Seq(1..n)
      /\ n \in Nat /\ Len(stack) \in Nat \ {0}
  BY TopFacts, Zenon
<1>2. PICK f : /\ stack' = WithTop(f)
               /\ \/ f.files = Append(Top.files, x) /\ f.dirs = Top.dirs
                  \/ Len(stack) = 1 /\ f.files = Top.files /\ f.dirs = Append(Top.dirs, x)
                  \/ /\ Len(stack) # 1 /\ f.files = Append(Top.files, x)
                     /\ f.dirs = Append(Top.dirs, x)
  <2>1. CASE stack' = WithTop([Top EXCEPT !.files = Append(Top.files, x)])
    <3>1. PICK f : f = [Top EXCEPT !.files = Append(Top.files, x)]
      OBVIOUS
    <3>2. f.files = Append(Top.files, x) /\ f.dirs = Top.dirs
      BY <1>1, <3>1 DEF Frames
    <3> QED
      BY <2>1, <3>1, <3>2, Zenon
  <2>2. CASE Len(stack) = 1 /\ stack' = WithTop([Top EXCEPT !.dirs = Append(Top.dirs, x)])
    <3>1. PICK f : f = [Top EXCEPT !.dirs = Append(Top.dirs, x)]
      OBVIOUS
    <3>2. f.files = Top.files /\ f.dirs = Append(Top.dirs, x)
      BY <1>1, <3>1 DEF Frames
    <3> QED
      BY <2>2, <3>1, <3>2, Zenon
  <2>3. CASE /\ Len(stack) # 1
             /\ stack' = WithTop([Top EXCEPT !.files = Append(Top.files, x),
                                            !.dirs = Append(Top.dirs, x)])
    <3>1. PICK f : f = [Top EXCEPT !.files = Append(Top.files, x),
                                   !.dirs = Append(Top.dirs, x)]
      OBVIOUS
    <3>2. f.files = Append(Top.files, x) /\ f.dirs = Append(Top.dirs, x)
      BY <1>1, <3>1 DEF Frames
    <3> QED
      BY <2>3, <3>1, <3>2, Zenon
  <2> QED
    BY <2>1, <2>2, <2>3
<1> QED
  BY <1>2, TopListsGrow, Zenon

LEMMA ListedAreMade ==
    ASSUME TypeInv
    PROVE  \A i : Listed(i) => i \in 1..Len(heap)
<1> SUFFICES ASSUME NEW i, Listed(i) PROVE i \in 1..Len(heap)
  OBVIOUS
<1>1. PICK k \in Owners : \E p \in DOMAIN Owned(k) : Owned(k)[p] = i
  BY DEF Listed
<1>2. Owned(k) \in Seq(1..Len(heap))
  BY OwnedType
<1> QED
  BY <1>1, <1>2

LEMMA SameStackSameLists ==
    ASSUME OnceInv, stack' = stack
    PROVE  OnceInv' /\ \A i : Listed(i)' <=> Listed(i)
<1>1. Owners' = Owners /\ \A k : Owned(k)' = Owned(k)
  BY DEF Owners, Owned
<1>2. OnceInv'
  BY <1>1 DEF OnceInv
<1>3. \A i : Listed(i)' <=> Listed(i)
  BY <1>1 DEF Listed
<1> QED
  BY <1>2, <1>3

\* A File that a step makes is owned by the list it goes on, or pending, or
\* freed at once.
LEMMA FreedGrows ==
    ASSUME Parts, FreedInv, Pending = {}, NEW f \in FileType, heap' = Append(heap, f),
           \A i \in 1..Len(heap) : (Listed(i)' <=> Listed(i)) /\ i \notin Pending',
           NEW id, id = Len(heap) + 1,
           f.freed = IF Listed(id)' \/ id \in Pending' THEN 0 ELSE 1,
           ~(Listed(id)' /\ id \in Pending')
    PROVE  FreedInv'
<1>1. /\ Len(heap') = Len(heap) + 1 /\ heap'[Len(heap) + 1] = f
      /\ \A i \in 1..Len(heap) : heap'[i] = heap[i]
  BY FileAdded, Zenon
<1>2. Len(heap) \in Nat
  BY DEF Parts, HeapType
<1>3. ASSUME NEW i \in 1..Len(heap')
      PROVE  /\ heap'[i].freed = IF Listed(i)' \/ i \in Pending' THEN 0 ELSE 1
             /\ ~(Listed(i)' /\ i \in Pending')
  <2>1. CASE i = id
    <3>1. heap'[id] = f
      BY <1>1
    <3> QED
      BY <2>1, <3>1, Zenon
  <2>2. CASE i # id
    <3>1. i \in 1..Len(heap)
      BY <1>1, <1>2, <1>3, <2>2
    <3> QED
      BY <1>1, <3>1 DEF FreedInv
  <2> QED
    BY <2>1, <2>2
<1> QED
  BY <1>3 DEF FreedInv

LEMMA OperandKeepsOwners ==
    ASSUME TypeInv, OwnInv, Operand
    PROVE  OwnInv'
<1> DEFINE path == operands[looked + 1]
<1>st. PICK st \in Stats : PlaceOperand(path, st)
  BY DEF Operand
<1> DEFINE file == StatIs(NewFile(path), st)
<1>0. PICK id : id = Len(heap) + 1
  OBVIOUS
<1>1. /\ Parts /\ pc = "operand" /\ pc # "done" /\ Len(stack) = 1
      /\ Pending = {} /\ OnceInv /\ FreedInv /\ SubdirsInv
  BY DEF TypeInv, Operand, PcInv, Pending, OwnInv
<1>2. Len(heap) \in Nat /\ ~Listed(id) /\ id \in Nat
  <2>1. Len(heap) \in Nat
    BY <1>1, TopFacts, Zenon
  <2>2. id \in Nat /\ id \notin 1..Len(heap)
    BY <1>0, <2>1
  <2> QED
    BY <2>1, <2>2, ListedAreMade
<1>3. path \in Seq(AnyName) \ {<<>>}
  BY <1>1, TypesOfConstants DEF Operand, Parts, PlainType
<1>4. /\ file \in FileType /\ file.freed = 0
      /\ [file EXCEPT !.freed = 1] \in FileType /\ [file EXCEPT !.freed = 1].freed = 1
  <2>1. NewFile(path) \in FileType
    BY <1>3, FileTypes, Zenon
  <2>2. file \in FileType
    BY <2>1, FileTypes, Zenon
  <2>3. file.freed = 0
    BY <2>1, FileFields DEF NewFile
  <2> HIDE DEF file
  <2>4. /\ [file EXCEPT !.freed = 1] \in FileType /\ [file EXCEPT !.freed = 1].freed = 1
    BY <2>2 DEF FileType
  <2> QED
    BY <2>2, <2>3, <2>4
<1>5. PICK f \in FileType :
         /\ heap' = Append(heap, f)
         /\ \/ f.freed = 1 /\ stack' = stack /\ pc' = "operand"
            \/ f.freed = 0 /\ stack' = stack /\ pc' = "islinktodir"
            \/ /\ f.freed = 0 /\ pc' = "operand"
               /\ \/ stack' = WithTop([Top EXCEPT !.files = Append(Top.files, id)])
                  \/ stack' = WithTop([Top EXCEPT !.dirs = Append(Top.dirs, id)])
  <2> HIDE DEF file, path
  <2>1. \/ heap' = Append(heap, [file EXCEPT !.freed = 1]) /\ stack' = stack /\ pc' = "operand"
        \/ heap' = Append(heap, file) /\ stack' = stack /\ pc' = "islinktodir"
        \/ /\ heap' = Append(heap, file) /\ pc' = "operand"
           /\ \/ stack' = WithTop([Top EXCEPT !.files = Append(Top.files, id)])
              \/ stack' = WithTop([Top EXCEPT !.dirs = Append(Top.dirs, id)])
    BY <1>st, <1>0, <1>1 DEF PlaceOperand, file, path
  <2> QED
    BY <1>4, <2>1
<1>6. Len(heap') = id
  BY <1>0, <1>1, <1>5, FileAdded, Zenon
<1>7. CASE /\ stack' = stack
           /\ \/ f.freed = 1 /\ pc' = "operand"
              \/ f.freed = 0 /\ pc' = "islinktodir"
  <2>1. OnceInv' /\ \A i : Listed(i)' <=> Listed(i)
    BY <1>1, <1>7, SameStackSameLists, Zenon
  <2>2. SubdirsInv'
    BY <1>1, <1>5, <1>7 DEF SubdirsInv, Operand
  <2>3. Pending' = IF pc' = "islinktodir" THEN {id} ELSE {}
    BY <1>5, <1>6 DEF Pending, Operand
  <2>4. \A i \in 1..Len(heap) : (Listed(i)' <=> Listed(i)) /\ i \notin Pending'
    BY <1>0, <1>2, <2>1, <2>3
  <2>5. f.freed = IF pc' = "islinktodir" THEN 0 ELSE 1
    BY <1>7
  <2> QED
    BY <1>0, <1>1, <1>2, <1>5, <2>1, <2>2, <2>3, <2>4, <2>5, FreedGrows DEF OwnInv
<1>8. CASE /\ f.freed = 0 /\ pc' = "operand"
           /\ \/ stack' = WithTop([Top EXCEPT !.files = Append(Top.files, id)])
              \/ stack' = WithTop([Top EXCEPT !.dirs = Append(Top.dirs, id)])
  <2>1. OnceInv' /\ SubdirsInv' /\ \A i : Listed(i)' <=> Listed(i) \/ i = id
    <3>1. pc' # "open" /\ pc' \in {"operand", "islinktodir"} /\ pc \in {"operand", "islinktodir"}
      BY <1>1, <1>8
    <3> QED
      BY <1>1, <1>2, <1>8, <3>1, OneMoreListed, Zenon
  <2>2. Pending' = {}
    BY <1>8 DEF Pending
  <2>3. id \notin 1..Len(heap)
    BY <1>0, <1>2
  <2>4. \A i \in 1..Len(heap) : (Listed(i)' <=> Listed(i)) /\ i \notin Pending'
    BY <2>1, <2>2, <2>3, Zenon
  <2>5. Listed(id)'
    BY <2>1, Zenon
  <2>6. id \notin Pending'
    BY <2>2, Zenon
  <2>7. f.freed = IF Listed(id)' \/ id \in Pending' THEN 0 ELSE 1
    BY <1>8, <2>5, Zenon
  <2>8. FreedInv'
    BY <1>0, <1>1, <1>5, <2>4, <2>6, <2>7, FreedGrows, Zenon
  <2> QED
    BY <2>1, <2>8 DEF OwnInv
<1> QED
  BY <1>5, <1>7, <1>8, Zenon

\* The pending File goes on a list, or is freed.
LEMMA PendingSettled ==
    ASSUME FreedInv, NEW x \in 1..Len(heap), Pending = {x}, Pending' = {},
           Len(heap') = Len(heap),
           \A i \in 1..Len(heap) : i # x => heap'[i].freed = heap[i].freed,
           \A i \in 1..Len(heap) : i # x => (Listed(i)' <=> Listed(i)),
           heap'[x].freed = IF Listed(x)' THEN 0 ELSE 1
    PROVE  FreedInv'
<1> SUFFICES ASSUME NEW i \in 1..Len(heap)
             PROVE  /\ heap'[i].freed = IF Listed(i)' \/ i \in Pending' THEN 0 ELSE 1
                    /\ ~(Listed(i)' /\ i \in Pending')
  BY DEF FreedInv
<1>1. CASE i = x
  BY <1>1
<1>2. CASE i # x
  <2>1. heap[i].freed = IF Listed(i) THEN 0 ELSE 1
    BY <1>2 DEF FreedInv
  <2> QED
    BY <1>2, <2>1
<1> QED
  BY <1>1, <1>2

LEMMA IsLinkToDirKeepsOwners ==
    ASSUME TypeInv, OwnInv, IsLinkToDir
    PROVE  OwnInv'
<1>0. PICK id : id = Len(heap)
  OBVIOUS
<1>1. /\ Parts /\ pc = "islinktodir" /\ pc # "done" /\ Len(stack) = 1 /\ Len(heap) >= 1
      /\ Pending = {id} /\ OnceInv /\ FreedInv /\ SubdirsInv /\ pc' = "operand"
  BY <1>0 DEF TypeInv, IsLinkToDir, PcInv, Pending, OwnInv
<1>2. id \in 1..Len(heap) /\ id \in Nat /\ Cur = id
  <2>1. Len(heap) \in Nat
    BY <1>1, TopFacts, Zenon
  <2> QED
    BY <1>0, <1>1, <2>1 DEF Cur
<1>3. ~Listed(id) /\ heap[id].freed = 0
  BY <1>1, <1>2 DEF FreedInv
<1>4. /\ Len(heap') = Len(heap)
      /\ \A i \in 1..Len(heap) : heap'[i].freed = heap[i].freed
  <2>1. heap \in Seq(FileType)
    BY <1>1 DEF Parts, HeapType
  <2>2. PICK t : heap' = [heap EXCEPT ![id] = TargetIs(heap[id], t)]
    BY <1>2 DEF IsLinkToDir
  <2>3. heap[id] \in FileType
    BY <1>2, <2>1
  <2>4. TargetIs(heap[id], t).freed = heap[id].freed
    BY <2>3, FileFields
  <2> QED
    BY <1>2, <2>1, <2>2, <2>4
<1>5. OnceInv' /\ SubdirsInv' /\ \A i : Listed(i)' <=> Listed(i) \/ i = id
  <2>1. \/ stack' = WithTop([Top EXCEPT !.files = Append(Top.files, id)])
        \/ stack' = WithTop([Top EXCEPT !.dirs = Append(Top.dirs, id)])
    BY <1>2 DEF IsLinkToDir
  <2>2. pc' # "open" /\ pc' \in {"operand", "islinktodir"} /\ pc \in {"operand", "islinktodir"}
    BY <1>1
  <2> QED
    BY <1>1, <1>2, <1>3, <2>1, <2>2, OneMoreListed, Zenon
<1>6. FreedInv'
  <2>1. Pending' = {}
    BY <1>1 DEF Pending
  <2>2. Listed(id)' /\ heap'[id].freed = 0
    BY <1>2, <1>3, <1>4, <1>5
  <2>3. \A i \in 1..Len(heap) : i # id => (Listed(i)' <=> Listed(i))
    BY <1>5
  <2> QED
    BY <1>1, <1>2, <1>4, <2>1, <2>2, <2>3, PendingSettled, Zenon
<1> QED
  BY <1>5, <1>6 DEF OwnInv

\* Steps that leave the stack alone and free nothing.
LEMMA SameStackKeepsOwners ==
    ASSUME OwnInv, stack' = stack, Pending' = Pending, Len(heap') = Len(heap),
           \A i \in 1..Len(heap) : heap'[i].freed = heap[i].freed,
           pc' # "open",
           \/ pc \notin {"operand", "islinktodir", "files"}
           \/ pc = "files" /\ (pc' = "files" \/ Len(stack) # 1)
    PROVE  OwnInv'
<1>1. Owners' = Owners /\ \A k : Owned(k)' = Owned(k)
  BY DEF Owners, Owned
<1>2. OnceInv' /\ FreedInv'
  BY <1>1, ListsKept DEF OwnInv
<1>3. SubdirsInv'
  BY DEF OwnInv, SubdirsInv
<1> QED
  BY <1>2, <1>3 DEF OwnInv

LEMMA OperandsDoneKeepsOwners ==
    ASSUME TypeInv, OwnInv, OperandsDone
    PROVE  OwnInv'
<1>1. /\ Parts /\ pc # "done" /\ Len(stack) = 1 /\ Pending = {} /\ Pending' = {}
      /\ OnceInv /\ FreedInv /\ pc' = "files" /\ heap' = heap
  BY DEF TypeInv, OperandsDone, PcInv, Pending, OwnInv
<1>2. Top \in Frames(Len(heap))
  BY <1>1, TopFacts, Zenon
<1>3. PICK f : f = [Top EXCEPT !.first = (Top.files = <<>>)]
  OBVIOUS
<1>4. stack' = WithTop(f) /\ f.files = Top.files /\ f.dirs = Top.dirs
  BY <1>2, <1>3 DEF Frames, OperandsDone
<1>5. /\ Len(stack') = Len(stack) /\ Owners' = Owners
      /\ Owned(Len(stack)) = Top.files /\ Owned(Len(stack))' = f.files
      /\ Owned(0)' = IF Len(stack) = 1 THEN f.dirs ELSE Owned(0)
      /\ Len(stack) = 1 => Owned(0) = Top.dirs
      /\ \A k \in Owners : k # 0 /\ k # Len(stack) => Owned(k)' = Owned(k)
  BY <1>1, <1>4, TopChangesLists, Zenon
<1>6. \A k \in Owners : Owned(k)' = Owned(k)
  BY <1>1, <1>4, <1>5
<1>7. OnceInv' /\ FreedInv'
  BY <1>1, <1>5, <1>6, ListsKept
<1>8. SubdirsInv'
  BY <1>1, <1>5 DEF SubdirsInv
<1> QED
  BY <1>7, <1>8 DEF OwnInv

LEMMA LooksKeepOwners ==
    ASSUME TypeInv, OwnInv, StatFile \/ FollowFile
    PROVE  OwnInv'
<1>1. /\ Parts /\ pc = "files" /\ pc' = "files" /\ stack' = stack
      /\ pc # "done" /\ Pending' = Pending
  BY DEF TypeInv, StatFile, FollowFile, Pending
<1>2. Len(heap) \in Nat /\ Top.files \in Seq(1..Len(heap))
  BY <1>1, TopFacts, Zenon
<1>3. PICK i, st :
         /\ i \in InTopFiles
         /\ \/ heap' = [heap EXCEPT ![i] = StatIs(heap[i], st)]
            \/ heap' = [heap EXCEPT ![i] = TargetIs(heap[i], st)]
  BY DEF StatFile, FollowFile
<1>4. i \in 1..Len(heap)
  BY <1>2, <1>3 DEF InTopFiles
<1>5. Len(heap') = Len(heap) /\ \A j \in 1..Len(heap) : heap'[j].freed = heap[j].freed
  <2>1. heap \in Seq(FileType) /\ heap[i] \in FileType
    BY <1>1, <1>4 DEF Parts, HeapType
  <2>2. PICK f : /\ heap' = [heap EXCEPT ![i] = f] /\ f.freed = heap[i].freed
    BY <1>3, <2>1, FileFields
  <2> QED
    BY <1>4, <2>1, <2>2
<1> QED
  BY <1>1, <1>5, SameStackKeepsOwners, Zenon

LEMMA PrintFilesKeepsOwners ==
    ASSUME TypeInv, OwnInv, PrintFiles
    PROVE  OwnInv'
<1>1. /\ Parts /\ pc = "files" /\ pc # "done" /\ pc' \in {"dirs", "return"}
      /\ Pending = {} /\ Pending' = {} /\ OnceInv /\ FreedInv
  BY DEF TypeInv, PrintFiles, Pending, OwnInv
<1>2. CASE ~InMain
  <2>1. heap' = heap /\ stack' = stack /\ Len(stack) # 1
    BY <1>2 DEF PrintFiles, InMain
  <2> QED
    BY <1>1, <2>1, SameStackKeepsOwners
<1>3. CASE InMain
  <2>1. /\ Len(stack) = 1 /\ heap' = FreeAll(heap, Top.files)
        /\ stack' = WithTop([Top EXCEPT !.files = <<>>])
    BY <1>3 DEF PrintFiles, InMain
  <2>2. Top \in Frames(Len(heap))
    BY <1>1, TopFacts, Zenon
  <2>3. PICK f : stack' = WithTop(f) /\ f.files = <<>> /\ f.dirs = Top.dirs
    <3>1. PICK f : f = [Top EXCEPT !.files = <<>>]
      OBVIOUS
    <3>2. f.files = <<>> /\ f.dirs = Top.dirs
      BY <2>2, <3>1 DEF Frames
    <3> QED
      BY <2>1, <3>1, <3>2, Zenon
  <2>4. /\ Len(stack') = Len(stack) /\ stack'[Len(stack)] = f
        /\ Owners' = Owners /\ Len(stack) \in Owners
        /\ Owned(Len(stack)) = Top.files /\ Owned(Len(stack))' = f.files
        /\ Owned(0)' = IF Len(stack) = 1 THEN f.dirs ELSE Owned(0)
        /\ Len(stack) = 1 => Owned(0) = Top.dirs
        /\ \A k \in Owners : k # 0 /\ k # Len(stack) => Owned(k)' = Owned(k)
    BY <1>1, <2>3, TopChangesLists, Zenon
  <2>5. 1 \in Owners /\ Owned(1) = Top.files
    BY <2>1, <2>4
  <2>6. Owned(1)' = <<>>
    <3>1. stack'[1].files = <<>>
      BY <2>1, <2>3, <2>4
    <3> QED
      BY <3>1 DEF Owned
  <2>7. \A k \in Owners \ {1} : k \in Owners' /\ Owned(k)' = Owned(k)
    BY <2>1, <2>3, <2>4
  <2>8. OnceInv' /\ FreedInv'
    BY <1>1, <2>1, <2>4, <2>5, <2>6, <2>7, ListFreed
  <2>9. SubdirsInv'
    <3>1. Len(stack') = 1 /\ stack'[1].files = <<>> /\ pc' # "open"
      BY <1>1, <2>1, <2>3, <2>4
    <3>2. 2..Len(stack') = {}
      BY <3>1
    <3> QED
      BY <3>1, <3>2 DEF SubdirsInv
  <2> QED
    BY <2>8, <2>9 DEF OwnInv
<1> QED
  BY <1>2, <1>3

\* The stack after a call.
LEMMA PushedIs ==
    ASSUME TypeInv, pc # "done", NEW f, NEW g, stack' = Append(WithTop(f), g)
    PROVE  /\ Len(stack') = Len(stack) + 1
           /\ stack'[Len(stack) + 1] = g /\ stack'[Len(stack)] = f
           /\ \A i \in 1..Len(stack) - 1 : stack'[i] = stack[i]
<1> DEFINE S == Frames(Len(heap)) \cup {f, g}
<1>1. stack # <<>> /\ stack \in Seq(Frames(Len(heap)))
  BY TopFacts DEF TypeInv, Parts, HeapType
<1>2. Frames(Len(heap)) \subseteq S /\ f \in S /\ g \in S
  BY Zenon
<1>3. stack \in Seq(S)
  BY <1>1, <1>2, SeqMonotonic, Zenon
<1> HIDE DEF S
<1>4. /\ Len(Append(WithTop(f), g)) = Len(stack) + 1
      /\ Append(WithTop(f), g)[Len(stack) + 1] = g
      /\ Append(WithTop(f), g)[Len(stack)] = f
      /\ \A i \in 1..Len(stack) - 1 : Append(WithTop(f), g)[i] = stack[i]
  BY <1>1, <1>2, <1>3, PushIs
<1> QED
  BY <1>4

\* The frames after a call of listdir().
LEMMA NextDirFrames ==
    ASSUME TypeInv, NextDir, NEW m, m = Len(stack)
    PROVE  /\ m \in Nat \ {0} /\ stack # <<>> /\ Len(stack') = m + 1
           /\ stack'[m + 1].files = <<>> /\ stack'[m + 1].dirs = <<>>
           /\ \A i \in 1..m : /\ stack'[i].files = stack[i].files
                             /\ stack'[i].dirs = stack[i].dirs
                             /\ stack'[i].dir = stack[i].dir
<1>1. Parts /\ pc # "done"
  BY DEF TypeInv, NextDir
<1>2. /\ stack # <<>> /\ m \in Nat \ {0} /\ Top \in Frames(Len(heap))
      /\ stack \in Seq(Frames(Len(heap)))
  <2>1. stack # <<>> /\ Len(stack) \in Nat \ {0} /\ Top \in Frames(Len(heap))
    BY <1>1, TopFacts, Zenon
  <2> QED
    BY <1>1, <2>1 DEF Parts, HeapType
<1>3. PICK f, g : /\ stack' = Append(WithTop(f), g)
                  /\ f.files = Top.files /\ f.dirs = Top.dirs /\ f.dir = Top.dir
                  /\ g.files = <<>> /\ g.dirs = <<>>
  <2>1. PICK f : f = [Top EXCEPT !.listed = Top.listed + 1]
    OBVIOUS
  <2>2. PICK g : g = Frame(Top.dirs[Top.listed + 1], FALSE)
    OBVIOUS
  <2>3. stack' = Append(WithTop(f), g)
    BY <2>1, <2>2 DEF NextDir
  <2>4. f.files = Top.files /\ f.dirs = Top.dirs /\ f.dir = Top.dir
    BY <1>2, <2>1 DEF Frames
  <2>5. g.files = <<>> /\ g.dirs = <<>>
    BY <2>2 DEF Frame
  <2> QED
    BY <2>3, <2>4, <2>5, Zenon
<1>4. /\ Len(stack') = m + 1 /\ stack'[m + 1] = g /\ stack'[m] = f
      /\ \A i \in 1..m - 1 : stack'[i] = stack[i]
  BY <1>1, <1>3, PushedIs, Zenon
<1>5. \A i \in 1..m : /\ stack'[i].files = stack[i].files
                     /\ stack'[i].dirs = stack[i].dirs
                     /\ stack'[i].dir = stack[i].dir
  <2> TAKE i \in 1..m
  <2>1. i = m \/ i \in 1..m - 1
    BY <1>2
  <2> QED
    BY <1>3, <1>4, <2>1 DEF Top
<1> QED
  BY <1>2, <1>3, <1>4, <1>5

LEMMA NextDirKeepsOwners ==
    ASSUME TypeInv, OwnInv, NextDir
    PROVE  OwnInv'
<1>0. PICK m : m = Len(stack)
  OBVIOUS
<1>1. /\ Parts /\ pc = "dirs" /\ pc # "done" /\ pc' = "open" /\ heap' = heap
      /\ Pending = {} /\ Pending' = {} /\ OnceInv /\ FreedInv /\ SubdirsInv
  BY DEF TypeInv, NextDir, Pending, OwnInv
<1>2. /\ m \in Nat \ {0} /\ stack # <<>> /\ Len(stack') = m + 1
      /\ stack'[m + 1].files = <<>> /\ stack'[m + 1].dirs = <<>>
      /\ \A i \in 1..m : stack'[i].files = stack[i].files /\ stack'[i].dirs = stack[i].dirs
  BY <1>0, NextDirFrames, Zenon
<1>3. Owners' = 0..m + 1 /\ Owners = 0..m
  <2>1. stack' # <<>>
    BY <1>2
  <2> QED
    BY <1>0, <1>2, <2>1 DEF Owners
<1>4. /\ \A k \in 0..m : Owned(k)' = Owned(k)
      /\ Owned(m + 1) ' = <<>>
  <2>1. 1 \in 1..m /\ m + 1 # 0 /\ \A k \in 0..m : k # 0 => k \in 1..m
    BY <1>2
  <2> QED
    BY <1>2, <2>1 DEF Owned
<1>5. \A k \in 0..m + 1 : k \in 0..m \/ k = m + 1
  BY <1>2
<1>6. OnceInv' /\ FreedInv'
  <2>1. \A k \in Owners' : (k \in Owners /\ Owned(k)' = Owned(k)) \/ Owned(k)' = <<>>
    BY <1>3, <1>4, <1>5
  <2>2. \A k \in Owners : (k \in Owners' /\ Owned(k)' = Owned(k)) \/ Owned(k) = <<>>
    BY <1>2, <1>3, <1>4
  <2> QED
    BY <1>1, <2>1, <2>2, ListsKept
<1>7. SubdirsInv'
  <2>1. ASSUME NEW k \in 2..Len(stack'), NEW p \in DOMAIN stack'[k].dirs
        PROVE  \E q \in DOMAIN stack'[k].files : stack'[k].files[q] = stack'[k].dirs[p]
    <3>1. k \in 2..m \/ k = m + 1
      BY <1>2, <2>1
    <3>2. CASE k \in 2..m
      <4>1. k \in 1..m
        BY <3>2
      <4> QED
        BY <1>0, <1>1, <1>2, <2>1, <3>2, <4>1 DEF SubdirsInv
    <3>3. CASE k = m + 1
      BY <1>2, <2>1, <3>3
    <3> QED
      BY <3>1, <3>2, <3>3
  <2>2. stack'[1].files = <<>>
    <3>1. 1 \in 1..m /\ stack[1].files = <<>>
      BY <1>1, <1>2 DEF SubdirsInv
    <3> QED
      BY <1>2, <3>1
  <2>3. stack'[Len(stack')].files = <<>>
    BY <1>2
  <2> QED
    BY <1>1, <2>1, <2>2, <2>3 DEF SubdirsInv
<1> QED
  BY <1>6, <1>7 DEF OwnInv

LEMMA DirsDoneKeepsOwners ==
    ASSUME TypeInv, OwnInv, DirsDone
    PROVE  OwnInv'
<1>1. /\ Parts /\ pc = "dirs" /\ pc # "done" /\ pc' \in {"done", "return"}
      /\ Pending = {} /\ Pending' = {} /\ OnceInv /\ FreedInv /\ SubdirsInv
  BY DEF TypeInv, DirsDone, Pending, OwnInv
<1>2. CASE ~InMain
  <2>1. heap' = heap /\ stack' = stack /\ Len(stack) # 1
    BY <1>2 DEF DirsDone, InMain
  <2> QED
    BY <1>1, <2>1, SameStackKeepsOwners
<1>3. CASE InMain
  <2>1. Len(stack) = 1 /\ heap' = FreeAll(heap, Top.dirs) /\ stack' = <<>>
    BY <1>3 DEF DirsDone, InMain
  <2>2. stack # <<>> /\ stack[1].files = <<>>
    BY <1>1, TopFacts DEF SubdirsInv
  <2>3. Owners = {0, 1} /\ Owners' = {}
    BY <2>1, <2>2 DEF Owners
  <2>4. Owned(0) = Top.dirs /\ Owned(1) = <<>>
    BY <2>1, <2>2 DEF Owned, Top
  <2>5. OnceInv' /\ FreedInv'
    <3>1. \A k \in Owners \ {0} : k \notin Owners' /\ Owned(k) = <<>>
      BY <2>3, <2>4
    <3>2. 0 \in Owners /\ 0 \notin Owners' /\ Owners' \subseteq Owners
      BY <2>3
    <3> QED
      BY <1>1, <2>1, <2>4, <3>1, <3>2, ListFreed
  <2>6. SubdirsInv'
    BY <1>1, <2>1 DEF SubdirsInv, DirsDone
  <2> QED
    BY <2>5, <2>6 DEF OwnInv
<1> QED
  BY <1>2, <1>3

\* The lists when the top frame, of listdir(), goes.
LEMMA PopLists ==
    ASSUME TypeInv, pc # "done", Len(stack) >= 2, stack' = Pop
    PROVE  /\ Len(stack) \in Owners /\ Owners' \subseteq Owners
           /\ Len(stack) \notin Owners'
           /\ \A k \in Owners : k # Len(stack) => k \in Owners' /\ Owned(k)' = Owned(k)
           /\ Owned(Len(stack)) = Top.files
           /\ Len(stack') = Len(stack) - 1
           /\ \A i \in 1..Len(stack) - 1 : stack'[i] = stack[i]
<1>1. /\ stack # <<>> /\ Len(stack) \in Nat
      /\ stack \in Seq(Frames(Len(heap)))
  BY TopFacts DEF TypeInv, Parts, HeapType
<1>2. /\ Len(stack') = Len(stack) - 1
      /\ \A i \in 1..Len(stack) - 1 : stack'[i] = stack[i]
  <2>1. /\ Len(Front(stack)) = Len(stack) - 1
        /\ \A i \in 1..Len(stack) - 1 : Front(stack)[i] = stack[i]
    BY <1>1, FrontIs, Zenon
  <2> QED
    BY <2>1 DEF Pop
<1>3. Owners = 0..Len(stack) /\ Owners' = 0..Len(stack) - 1
  <2>1. stack' # <<>>
    BY <1>1, <1>2
  <2> QED
    BY <1>1, <1>2, <2>1 DEF Owners
<1>4. ASSUME NEW k \in Owners, k # Len(stack)
      PROVE  k \in Owners' /\ Owned(k)' = Owned(k)
  <2>1. k \in 0..Len(stack) - 1 /\ 1 \in 1..Len(stack) - 1 /\ (k # 0 => k \in 1..Len(stack) - 1)
    BY <1>1, <1>3, <1>4
  <2> QED
    BY <1>2, <1>3, <2>1 DEF Owned
<1>5. Owned(Len(stack)) = Top.files
  BY <1>1 DEF Owned, Top
<1>6. Len(stack) \in Owners /\ Owners' \subseteq Owners /\ Len(stack) \notin Owners'
  BY <1>1, <1>3
<1> QED
  BY <1>2, <1>4, <1>5, <1>6

LEMMA PopKeepsSubdirs ==
    ASSUME TypeInv, SubdirsInv, pc # "done", Len(stack) >= 2, stack' = Pop, pc' = "dirs"
    PROVE  SubdirsInv'
<1>1. /\ Len(stack') = Len(stack) - 1
      /\ \A i \in 1..Len(stack) - 1 : stack'[i] = stack[i]
  BY PopLists, Zenon
<1>2. Len(stack) \in Nat
  BY TopFacts
<1>3. ASSUME NEW k \in 2..Len(stack'), NEW p \in DOMAIN stack'[k].dirs
      PROVE  \E q \in DOMAIN stack'[k].files : stack'[k].files[q] = stack'[k].dirs[p]
  <2>1. k \in 2..Len(stack) /\ stack'[k] = stack[k]
    BY <1>1, <1>2, <1>3
  <2> QED
    BY <1>3, <2>1 DEF SubdirsInv
<1>4. stack'[1].files = <<>>
  <2>1. stack[1].files = <<>>
    BY DEF SubdirsInv, TypeInv, PcInv
  <2> QED
    BY <1>1, <1>2, <2>1
<1> QED
  BY <1>3, <1>4 DEF SubdirsInv

LEMMA OpenKeepsOwners ==
    ASSUME TypeInv, OwnInv, Open \/ OpenShortage
    PROVE  OwnInv'
<1>1. /\ Parts /\ pc = "open" /\ pc # "done" /\ Len(stack) >= 2 /\ heap' = heap
      /\ Pending = {} /\ Pending' = {} /\ OnceInv /\ FreedInv /\ SubdirsInv
  BY DEF TypeInv, PcInv, Open, OpenShortage, Pending, OwnInv
<1>2. \/ stack' = stack /\ pc' = "read"
      \/ stack' = Pop /\ pc' = "dirs"
  BY DEF Open, OpenShortage
<1>3. CASE stack' = stack /\ pc' = "read"
  BY <1>1, <1>3, SameStackKeepsOwners
<1>4. CASE stack' = Pop /\ pc' = "dirs"
  <2>1. /\ Owners' \subseteq Owners /\ Len(stack) \notin Owners'
        /\ \A k \in Owners : k # Len(stack) => k \in Owners' /\ Owned(k)' = Owned(k)
        /\ Owned(Len(stack)) = Top.files
    BY <1>1, <1>4, PopLists, Zenon
  <2>2. Top.files = <<>>
    BY <1>1 DEF SubdirsInv, Top
  <2>3. OnceInv' /\ FreedInv'
    <3>1. \A k \in Owners' : k \in Owners /\ Owned(k)' = Owned(k)
      BY <2>1
    <3>2. \A k \in Owners : (k \in Owners' /\ Owned(k)' = Owned(k)) \/ Owned(k) = <<>>
      BY <2>1, <2>2
    <3> QED
      BY <1>1, <3>1, <3>2, ListsKept
  <2>4. SubdirsInv'
    BY <1>1, <1>4, PopKeepsSubdirs
  <2> QED
    BY <2>3, <2>4 DEF OwnInv
<1> QED
  BY <1>2, <1>3, <1>4

LEMMA ReturnKeepsOwners ==
    ASSUME TypeInv, OwnInv, Return
    PROVE  OwnInv'
<1>1. /\ Parts /\ pc # "done" /\ Len(stack) >= 2 /\ pc' = "dirs" /\ stack' = Pop
      /\ heap' = FreeAll(heap, Top.files)
      /\ Pending = {} /\ Pending' = {} /\ OnceInv /\ FreedInv /\ SubdirsInv
  BY DEF TypeInv, PcInv, Return, Owns, Pending, OwnInv
<1>2. /\ Len(stack) \in Owners /\ Owners' \subseteq Owners
      /\ Len(stack) \notin Owners'
      /\ \A k \in Owners : k # Len(stack) => k \in Owners' /\ Owned(k)' = Owned(k)
      /\ Owned(Len(stack)) = Top.files
  BY <1>1, PopLists, Zenon
<1>3. OnceInv' /\ FreedInv'
  <2>0. PICK m \in Owners : m = Len(stack)
    BY <1>2
  <2>1. heap' = FreeAll(heap, Owned(m)) /\ m \notin Owners'
    BY <1>1, <1>2, <2>0
  <2>2. \A k \in Owners \ {m} : k \in Owners' /\ Owned(k)' = Owned(k)
    BY <1>2, <2>0
  <2> QED
    BY <1>1, <1>2, <2>1, <2>2, ListFreed
<1>4. SubdirsInv'
  BY <1>1, PopKeepsSubdirs
<1> QED
  BY <1>3, <1>4 DEF OwnInv

LEMMA CloseStreamKeepsOwners ==
    ASSUME TypeInv, OwnInv, ReadEnd \/ ReadFault \/ ReadShortage
    PROVE  OwnInv'
<1>1. /\ pc = "read" /\ pc' = "files" /\ stack' = stack /\ heap' = heap
      /\ Pending' = Pending
  BY DEF ReadEnd, ReadFault, ReadShortage, CloseStream, Pending
<1> QED
  BY <1>1, SameStackKeepsOwners

\* What the steps that make and look at an entry do, of the Files and lists.
LEMMA ReadEntrySteps ==
    ASSUME TypeInv, ReadEntry, NEW id, id = Len(heap) + 1
    PROVE  \/ heap' = heap /\ stack' = stack /\ pc' = "read"
           \/ \E name \in AnyName :
                 /\ NewFile(Append(heap[Top.dir].path, name)) \in FileType
                 /\ heap' = Append(heap, NewFile(Append(heap[Top.dir].path, name)))
                 /\ \/ pc' = "entry" /\ stack' = stack
                    \/ /\ stack' = WithTop([Top EXCEPT !.files = Append(Top.files, id)])
                       /\ pc' = "read"
<1>1. Parts /\ pc = "read" /\ pc # "done" /\ Len(stack) >= 2 /\ unread \subseteq AnyName
  BY DEF TypeInv, ReadEntry, PcInv, Parts, PlainType
<1>2. Len(heap) \in Nat /\ Top.dir \in 1..Len(heap)
  BY <1>1, TopFacts, Zenon
<1>3. Cur + 1 = id
  BY DEF Cur
<1>4. \/ heap' = heap /\ stack' = stack /\ pc' = "read"
      \/ \E name \in unread :
            /\ heap' = Append(heap, NewFile(Append(heap[Top.dir].path, name)))
            /\ \/ pc' = "entry" /\ stack' = stack
               \/ /\ stack' = WithTop([Top EXCEPT !.files = Append(Top.files, id)])
                  /\ pc' = "read"
  BY <1>1, <1>3 DEF ReadEntry
<1>5. \A name \in unread : NewFile(Append(heap[Top.dir].path, name)) \in FileType
  <2> TAKE name \in unread
  <2>1. heap[Top.dir] \in FileType
    BY <1>1, <1>2 DEF Parts, HeapType
  <2>2. heap[Top.dir].path \in Seq(AnyName) /\ name \in AnyName
    BY <1>1, <2>1 DEF FileType
  <2>3. Append(heap[Top.dir].path, name) \in Seq(AnyName) \ {<<>>}
    BY <2>2
  <2> QED
    BY <2>3, FileTypes, Zenon
<1> QED
  BY <1>1, <1>4, <1>5, Zenon

LEMMA ReadEntryKeepsOwners ==
    ASSUME TypeInv, OwnInv, ReadEntry
    PROVE  OwnInv'
<1>0. PICK id : id = Len(heap) + 1
  OBVIOUS
<1>1. /\ Parts /\ pc = "read" /\ pc # "done" /\ Len(stack) >= 2
      /\ Pending = {} /\ OnceInv /\ FreedInv /\ SubdirsInv
  BY DEF TypeInv, ReadEntry, PcInv, Pending, OwnInv
<1>2. Len(heap) \in Nat /\ ~Listed(id) /\ id \in Nat /\ id \notin 1..Len(heap)
  <2>1. Len(heap) \in Nat
    BY <1>1, TopFacts, Zenon
  <2>2. id \in Nat /\ id \notin 1..Len(heap)
    BY <1>0, <2>1
  <2> QED
    BY <2>1, <2>2, ListedAreMade
<1>3. CASE heap' = heap /\ stack' = stack /\ pc' = "read"
  <2>1. Pending' = Pending
    BY <1>1, <1>3 DEF Pending
  <2> QED
    BY <1>1, <1>3, <2>1, SameStackKeepsOwners
<1>4. ASSUME NEW f \in FileType, f.freed = 0, heap' = Append(heap, f),
             \/ pc' = "entry" /\ stack' = stack
             \/ /\ stack' = WithTop([Top EXCEPT !.files = Append(Top.files, id)])
                /\ pc' = "read"
      PROVE  OwnInv'
  <2>0. Len(heap') = id
    BY <1>0, <1>1, <1>4, FileAdded, Zenon
  <2>1. CASE pc' = "entry" /\ stack' = stack
    <3>1. OnceInv' /\ \A i : Listed(i)' <=> Listed(i)
      BY <1>1, <2>1, SameStackSameLists, Zenon
    <3>2. SubdirsInv'
      BY <1>1, <2>1 DEF SubdirsInv
    <3>3. Pending' = {id}
      BY <2>0, <2>1 DEF Pending
    <3>4. \A i \in 1..Len(heap) : (Listed(i)' <=> Listed(i)) /\ i \notin Pending'
      BY <1>2, <3>1, <3>3
    <3>5. ~Listed(id)' /\ id \in Pending'
      BY <1>2, <3>1, <3>3
    <3>6. f.freed = IF Listed(id)' \/ id \in Pending' THEN 0 ELSE 1
      BY <1>4, <3>5, Zenon
    <3> QED
      BY <1>0, <1>1, <1>4, <3>1, <3>2, <3>4, <3>5, <3>6, FreedGrows, Zenon DEF OwnInv
  <2>2. CASE /\ stack' = WithTop([Top EXCEPT !.files = Append(Top.files, id)])
             /\ pc' = "read"
    <3>1. OnceInv' /\ SubdirsInv' /\ \A i : Listed(i)' <=> Listed(i) \/ i = id
      <4>1. /\ pc' # "open" /\ pc \in {"read", "entry"}
            /\ pc \notin {"operand", "islinktodir"}
        BY <1>1, <2>2
      <4> QED
        BY <1>1, <1>2, <2>2, <4>1, OneMoreListed, Zenon
    <3>2. Pending' = {}
      BY <2>2 DEF Pending
    <3>3. \A i \in 1..Len(heap) : (Listed(i)' <=> Listed(i)) /\ i \notin Pending'
      BY <1>2, <3>1, <3>2, Zenon
    <3>4. Listed(id)' /\ id \notin Pending'
      BY <3>1, <3>2, Zenon
    <3>5. f.freed = IF Listed(id)' \/ id \in Pending' THEN 0 ELSE 1
      BY <1>4, <3>4, Zenon
    <3> QED
      BY <1>0, <1>1, <1>4, <3>1, <3>3, <3>4, <3>5, FreedGrows, Zenon DEF OwnInv
  <2> QED
    BY <1>4, <2>1, <2>2, Zenon
<1>5. \A path : NewFile(path).freed = 0
  BY DEF NewFile
<1> QED
  BY <1>0, <1>3, <1>4, <1>5, ReadEntrySteps, Zenon

LEMMA StatEntryKeepsOwners ==
    ASSUME TypeInv, OwnInv, StatEntry
    PROVE  OwnInv'
<1>0. PICK id : id = Len(heap)
  OBVIOUS
<1>1. /\ Parts /\ pc = "entry" /\ pc # "done" /\ Len(stack) >= 2 /\ Len(heap) >= 1
      /\ Pending = {id} /\ OnceInv /\ FreedInv /\ SubdirsInv /\ pc' = "read"
  BY <1>0 DEF TypeInv, StatEntry, PcInv, Pending, OwnInv
<1>2. /\ id \in 1..Len(heap) /\ id \in Nat /\ Cur = id /\ Len(stack) # 1
      /\ Top \in Frames(Len(heap))
  <2>1. Len(heap) \in Nat /\ Len(stack) \in Nat /\ Top \in Frames(Len(heap))
    BY <1>1, TopFacts, Zenon
  <2>2. Len(stack) >= 2 /\ Len(heap) >= 1
    BY <1>1
  <2>3. id \in 1..Len(heap) /\ id \in Nat
    BY <1>0, <2>1, <2>2
  <2>4. Len(stack) # 1
    BY <2>1, <2>2, TwoIsNotOne, Zenon
  <2> QED
    BY <1>0, <2>1, <2>3, <2>4 DEF Cur
<1>3. ~Listed(id) /\ heap[id].freed = 0
  BY <1>1, <1>2 DEF FreedInv
<1>4. heap \in Seq(FileType) /\ heap[id] \in FileType
  BY <1>1, <1>2 DEF Parts, HeapType
<1>5. Pending' = {}
  BY <1>1 DEF Pending
<1>st. PICK seen, st : (st = seen \/ seen = "unknown") /\ PlaceEntry(seen, st)
  BY DEF StatEntry
<1>6. CASE opts.dirsonly /\ seen # "dir"
  <2>1. /\ heap' = [heap EXCEPT ![id] = [StatIs(heap[id], st) EXCEPT !.freed = 1]]
        /\ stack' = stack
    BY <1>st, <1>2, <1>6 DEF PlaceEntry
  <2>2. [StatIs(heap[id], st) EXCEPT !.freed = 1].freed = 1
    BY <1>4, FileFields
  <2>3. /\ Len(heap') = Len(heap) /\ heap'[id].freed = 1
        /\ \A i \in 1..Len(heap) : i # id => heap'[i].freed = heap[i].freed
    BY <1>2, <1>4, <2>1, <2>2
  <2>4. OnceInv' /\ \A i : Listed(i)' <=> Listed(i)
    BY <1>1, <2>1, SameStackSameLists, Zenon
  <2>5. SubdirsInv'
    <3>1. stack # <<>> => stack[1].files = <<>>
      BY <1>1 DEF SubdirsInv
    <3>2. pc' # "open"
      BY <1>1
    <3> QED
      BY <1>1, <2>1, <3>1, <3>2, Zenon DEF SubdirsInv
  <2>6. FreedInv'
    <3>1. ~Listed(id)'
      BY <1>3, <2>4, Zenon
    <3>2. heap'[id].freed = IF Listed(id)' THEN 0 ELSE 1
      BY <2>3, <3>1, Zenon
    <3> QED
      BY <1>1, <1>2, <1>5, <2>3, <2>4, <3>2, PendingSettled, Zenon
  <2> QED
    BY <2>4, <2>5, <2>6 DEF OwnInv
<1>7. CASE ~(opts.dirsonly /\ seen # "dir")
  <2> DEFINE down == opts.recursive /\ seen = "dir" /\ ~IsDotOrDotDot(heap[Cur].path)
  <2>1. /\ heap' = [heap EXCEPT ![id] = StatIs(heap[id], st)]
        /\ stack' = WithTop([Top EXCEPT !.files = Append(Top.files, id),
                            !.dirs = IF down THEN Append(Top.dirs, id) ELSE Top.dirs])
    BY <1>st, <1>2, <1>7 DEF PlaceEntry
  <2>2. StatIs(heap[id], st).freed = 0
    BY <1>3, <1>4, FileFields
  <2>3. /\ Len(heap') = Len(heap) /\ heap'[id].freed = 0
        /\ \A i \in 1..Len(heap) : i # id => heap'[i].freed = heap[i].freed
    BY <1>2, <1>4, <2>1, <2>2
  <2>4. \/ stack' = WithTop([Top EXCEPT !.files = Append(Top.files, id)])
        \/ stack' = WithTop([Top EXCEPT !.files = Append(Top.files, id),
                                       !.dirs = Append(Top.dirs, id)])
    <3>1. CASE down
      BY <2>1, <3>1
    <3>2. CASE ~down
      <4>1. [Top EXCEPT !.files = Append(Top.files, id), !.dirs = Top.dirs]
            = [Top EXCEPT !.files = Append(Top.files, id)]
        BY <1>2 DEF Frames
      <4> QED
        BY <2>1, <3>2, <4>1
    <3> QED
      BY <3>1, <3>2
  <2> HIDE DEF down
  <2>5. OnceInv' /\ SubdirsInv' /\ \A i : Listed(i)' <=> Listed(i) \/ i = id
    <3>1. /\ pc' # "open" /\ pc \in {"read", "entry"}
          /\ pc \notin {"operand", "islinktodir"}
      BY <1>1
    <3> QED
      BY <1>1, <1>2, <1>3, <2>4, <3>1, OneMoreListed, Zenon
  <2>6. FreedInv'
    <3>1. Listed(id)'
      BY <2>5, Zenon
    <3>2. heap'[id].freed = IF Listed(id)' THEN 0 ELSE 1
      BY <2>3, <3>1, Zenon
    <3>3. \A i \in 1..Len(heap) : i # id => (Listed(i)' <=> Listed(i))
      BY <2>5, Zenon
    <3> QED
      BY <1>1, <1>2, <1>5, <2>3, <3>2, <3>3, PendingSettled, Zenon
  <2> QED
    BY <2>5, <2>6 DEF OwnInv
<1> QED
  BY <1>6, <1>7

-----------------------------------------------------------------------------
(* Where listdir() goes: into entries of the directory it lists, that lstat()  *)
(* called directories.                                                         *)

GoesDown(files, i, d) ==
    /\ files[i].stat = "dir"
    /\ Front(files[i].path) = files[d].path
    /\ Last(files[i].path) \in Names

DirsGoDown ==
    \A k \in 2..Len(stack) : \A p \in DOMAIN stack[k].dirs :
        GoesDown(heap, stack[k].dirs[p], stack[k].dir)

EntryIsBelow ==
    pc = "entry" =>
        /\ heap[Len(heap)].stat = "unknown"
        /\ Front(heap[Len(heap)].path) = heap[stack[Len(stack)].dir].path
        /\ Last(heap[Len(heap)].path) \in AnyName

DownInv == DirsGoDown /\ EntryIsBelow

LEMMA FrameFacts ==
    ASSUME TypeInv, NEW k \in 2..Len(stack)
    PROVE  /\ stack[k].dirs \in Seq(1..Len(heap)) /\ stack[k].dir \in 1..Len(heap)
           /\ \A p \in DOMAIN stack[k].dirs : stack[k].dirs[p] \in 1..Len(heap)
<1>1. stack \in Seq(Frames(Len(heap))) /\ Len(heap) \in Nat
  BY DEF TypeInv, Parts, HeapType
<1>2. k \in 1..Len(stack) /\ k - 1 \in 1..Len(stack)
  BY <1>1
<1>3. stack[k].dirs \in Seq(1..Len(heap)) /\ stack[k - 1].dirs \in Seq(1..Len(heap))
  <2>1. stack[k] \in Frames(Len(heap)) /\ stack[k - 1] \in Frames(Len(heap))
    BY <1>1, <1>2
  <2> QED
    BY <1>1, <2>1, FrameFields, Zenon
<1>4. /\ stack[k - 1].listed \in 1..Len(stack[k - 1].dirs)
      /\ stack[k].dir = stack[k - 1].dirs[stack[k - 1].listed]
  BY DEF TypeInv, CallsInv
<1>5. \A s \in Seq(1..Len(heap)) : \A p \in DOMAIN s : s[p] \in 1..Len(heap)
  OBVIOUS
<1>6. stack[k].dir \in 1..Len(heap)
  BY <1>3, <1>4, <1>5
<1> QED
  BY <1>3, <1>5, <1>6

\* Paths stay, and so does what lstat() said of a directory.
HeapKept ==
    \A i \in 1..Len(heap) :
        /\ heap'[i].path = heap[i].path
        /\ heap[i].stat = "dir" => heap'[i].stat = "dir"

LEMMA DirsKept ==
    ASSUME TypeInv, DownInv, HeapKept,
           \A k \in 2..Len(stack') : \A p \in DOMAIN stack'[k].dirs :
              \/ /\ k \in 2..Len(stack) /\ p \in DOMAIN stack[k].dirs
                 /\ stack'[k].dirs[p] = stack[k].dirs[p] /\ stack'[k].dir = stack[k].dir
              \/ GoesDown(heap', stack'[k].dirs[p], stack'[k].dir)
    PROVE  DirsGoDown'
<1> SUFFICES ASSUME NEW k \in 2..Len(stack'), NEW p \in DOMAIN stack'[k].dirs,
                    k \in 2..Len(stack), p \in DOMAIN stack[k].dirs,
                    stack'[k].dirs[p] = stack[k].dirs[p], stack'[k].dir = stack[k].dir
             PROVE  GoesDown(heap', stack'[k].dirs[p], stack'[k].dir)
  BY DEF DirsGoDown
<1>1. /\ stack[k].dirs[p] \in 1..Len(heap) /\ stack[k].dir \in 1..Len(heap)
  BY FrameFacts
<1>2. GoesDown(heap, stack[k].dirs[p], stack[k].dir)
  BY DEF DownInv, DirsGoDown
<1>3. PICK i, d : i = stack[k].dirs[p] /\ d = stack[k].dir
  OBVIOUS
<1>4. GoesDown(heap', i, d)
  BY <1>1, <1>2, <1>3 DEF GoesDown, HeapKept
<1> QED
  BY <1>3, <1>4

LEMMA DownKept ==
    ASSUME TypeInv, DownInv, HeapKept, pc' # "entry",
           \A k \in 2..Len(stack') :
              \/ /\ k \in 2..Len(stack)
                 /\ stack'[k].dirs = stack[k].dirs /\ stack'[k].dir = stack[k].dir
              \/ stack'[k].dirs = <<>>
    PROVE  DownInv'
<1>1. DirsGoDown'
  BY DirsKept
<1> QED
  BY <1>1 DEF DownInv, EntryIsBelow

LEMMA SameHeapIsKept ==
    ASSUME heap' = heap
    PROVE  HeapKept
  BY DEF HeapKept

LEMMA SameStackKeepsDown ==
    ASSUME TypeInv, DownInv, HeapKept, pc' # "entry", stack' = stack
    PROVE  DownInv'
  BY DownKept

LEMMA MainGoesNowhere ==
    ASSUME pc' # "entry", Len(stack') \in Nat, Len(stack') < 2
    PROVE  DownInv'
<1>1. 2..Len(stack') = {}
  OBVIOUS
<1> QED
  BY <1>1 DEF DownInv, DirsGoDown, EntryIsBelow

LEMMA LooksKeepDown ==
    ASSUME TypeInv, DownInv, StatFile \/ FollowFile
    PROVE  DownInv'
<1>1. Parts /\ pc = "files" /\ pc' = "files" /\ stack' = stack /\ pc # "done"
  BY DEF TypeInv, StatFile, FollowFile
<1>2. Len(heap) \in Nat /\ Top.files \in Seq(1..Len(heap))
  BY <1>1, TopFacts, Zenon
<1>3. PICK i, st :
         /\ i \in InTopFiles
         /\ \/ /\ heap[i].stat = "unknown"
               /\ heap' = [heap EXCEPT ![i] = StatIs(heap[i], st)]
            \/ heap' = [heap EXCEPT ![i] = TargetIs(heap[i], st)]
  BY DEF StatFile, FollowFile, StatNeeded
<1>4. i \in 1..Len(heap)
  BY <1>2, <1>3 DEF InTopFiles
<1>5. HeapKept
  <2>1. heap \in Seq(FileType) /\ heap[i] \in FileType
    BY <1>1, <1>4 DEF Parts, HeapType
  <2>2. PICK f : /\ heap' = [heap EXCEPT ![i] = f] /\ f.path = heap[i].path
                 /\ heap[i].stat = "dir" => f.stat = "dir"
    BY <1>3, <2>1, FileFields
  <2> QED
    BY <1>4, <2>1, <2>2 DEF HeapKept
<1> QED
  BY <1>1, <1>5, SameStackKeepsDown, Zenon

LEMMA NextDirKeepsDown ==
    ASSUME TypeInv, DownInv, NextDir
    PROVE  DownInv'
<1>0. PICK m : m = Len(stack)
  OBVIOUS
<1>1. heap' = heap /\ pc' # "entry"
  BY DEF NextDir
<1>2. /\ m \in Nat \ {0} /\ Len(stack') = m + 1 /\ stack'[m + 1].dirs = <<>>
      /\ \A i \in 1..m : stack'[i].dirs = stack[i].dirs /\ stack'[i].dir = stack[i].dir
  BY <1>0, NextDirFrames, Zenon
<1>3. ASSUME NEW k \in 2..Len(stack')
      PROVE  \/ /\ k \in 2..Len(stack)
                /\ stack'[k].dirs = stack[k].dirs /\ stack'[k].dir = stack[k].dir
             \/ stack'[k].dirs = <<>>
  <2>1. (k \in 2..m /\ k \in 1..m) \/ k = m + 1
    BY <1>2, <1>3
  <2> QED
    BY <1>0, <1>2, <2>1
<1> QED
  BY <1>1, <1>3, SameHeapIsKept, DownKept, Zenon

LEMMA PopKeepsDown ==
    ASSUME TypeInv, DownInv, HeapKept, pc # "done", Len(stack) >= 2,
           stack' = Pop, pc' = "dirs"
    PROVE  DownInv'
<1>1. /\ Len(stack') = Len(stack) - 1
      /\ \A i \in 1..Len(stack) - 1 : stack'[i] = stack[i]
  BY PopLists, Zenon
<1>2. Len(stack) \in Nat
  BY TopFacts
<1>3. \A k \in 2..Len(stack') : k \in 2..Len(stack) /\ stack'[k] = stack[k]
  BY <1>1, <1>2
<1> QED
  BY <1>3, DownKept

LEMMA FreeingKeepsFiles ==
    ASSUME TypeInv, NEW ids, heap' = FreeAll(heap, ids)
    PROVE  /\ HeapKept /\ Len(heap') = Len(heap)
           /\ \A i \in 1..Len(heap) : /\ heap'[i].stat = heap[i].stat
                                      /\ heap'[i].lacked = heap[i].lacked
<1>1. heap \in Seq(FileType) /\ DOMAIN heap = 1..Len(heap)
  BY DEF TypeInv, Parts, HeapType
<1>2. Len(heap') = Len(heap)
  BY <1>1 DEF FreeAll
<1>3. ASSUME NEW i \in 1..Len(heap)
      PROVE  /\ heap'[i].path = heap[i].path /\ heap'[i].stat = heap[i].stat
             /\ heap'[i].lacked = heap[i].lacked
  <2>1. PICK c : c = Cardinality({k \in DOMAIN ids : ids[k] = i})
    OBVIOUS
  <2>2. heap'[i] = [heap[i] EXCEPT !.freed = @ + c]
    BY <1>1, <2>1 DEF FreeAll
  <2>3. heap[i] \in FileType
    BY <1>1
  <2> QED
    BY <2>2, <2>3 DEF FileType
<1> QED
  BY <1>2, <1>3 DEF HeapKept

LEMMA CallsKeepDown ==
    ASSUME TypeInv, DownInv, Open \/ OpenShortage \/ Return
    PROVE  DownInv'
<1>1. pc # "done" /\ Len(stack) >= 2 /\ pc' # "entry"
  BY DEF TypeInv, PcInv, Open, OpenShortage, Return
<1>2. HeapKept
  <2>1. heap' = heap \/ heap' = FreeAll(heap, Owns(Top))
    BY DEF Open, OpenShortage, Return
  <2> QED
    BY <2>1, SameHeapIsKept, FreeingKeepsFiles, Zenon
<1>3. stack' = stack \/ (stack' = Pop /\ pc' = "dirs")
  BY DEF Open, OpenShortage, Return
<1> QED
  BY <1>1, <1>2, <1>3, SameStackKeepsDown, PopKeepsDown, Zenon

LEMMA OtherStepsKeepDown ==
    ASSUME TypeInv, TypeInv', DownInv,
           \/ Operand \/ IsLinkToDir \/ OperandsDone \/ PrintFiles \/ DirsDone
           \/ ReadEnd \/ ReadFault \/ ReadShortage
    PROVE  DownInv'
<1>1. pc' # "entry"
  BY DEF Operand, PlaceOperand, IsLinkToDir, OperandsDone, PrintFiles, DirsDone, ReadEnd,
         ReadFault, ReadShortage, CloseStream
<1>2. CASE Operand \/ IsLinkToDir
  <2>1. Len(stack') = 1
    <3>1. pc' \in {"operand", "islinktodir"}
      BY <1>2 DEF Operand, PlaceOperand, IsLinkToDir
    <3> QED
      BY <3>1 DEF TypeInv, PcInv
  <2> QED
    BY <1>1, <2>1, MainGoesNowhere
<1>3. CASE OperandsDone
  <2>1. Len(stack) = 1 /\ Len(stack) \in Nat /\ pc # "done"
    BY <1>3 DEF TypeInv, PcInv, OperandsDone
  <2>2. \E f : stack' = WithTop(f)
    BY <1>3, Zenon DEF OperandsDone
  <2>3. Len(stack') = 1
    BY <2>1, <2>2, TopChangesLists
  <2> QED
    BY <1>1, <2>3, MainGoesNowhere
<1>4. CASE PrintFiles
  <2>1. CASE InMain
    <3>1. Len(stack) = 1 /\ pc # "done" /\ \E f : stack' = WithTop(f)
      BY <1>4, <2>1, Zenon DEF PrintFiles, InMain
    <3>2. Len(stack') = 1
      BY <3>1, TopChangesLists
    <3> QED
      BY <1>1, <3>2, MainGoesNowhere
  <2>2. CASE ~InMain
    BY <1>1, <1>4, <2>2, SameHeapIsKept, SameStackKeepsDown DEF PrintFiles
  <2> QED
    BY <2>1, <2>2
<1>5. CASE DirsDone
  <2>1. CASE InMain
    <3>1. Len(stack') = 0
      BY <1>5, <2>1 DEF DirsDone
    <3> QED
      BY <1>1, <3>1, MainGoesNowhere
  <2>2. CASE ~InMain
    BY <1>1, <1>5, <2>2, SameHeapIsKept, SameStackKeepsDown DEF DirsDone
  <2> QED
    BY <2>1, <2>2
<1>6. CASE ReadEnd \/ ReadFault \/ ReadShortage
  <2>1. heap' = heap /\ stack' = stack
    BY <1>6 DEF ReadEnd, ReadFault, ReadShortage
  <2> QED
    BY <1>1, <2>1, SameHeapIsKept, SameStackKeepsDown, Zenon
<1> QED
  BY <1>2, <1>3, <1>4, <1>5, <1>6

LEMMA ReadEntryKeepsDown ==
    ASSUME TypeInv, DownInv, ReadEntry
    PROVE  DownInv'
<1>0. PICK id : id = Len(heap) + 1
  OBVIOUS
<1>1. Parts /\ pc = "read" /\ pc # "done" /\ Len(stack) >= 2
  BY DEF TypeInv, ReadEntry, PcInv
<1>2. /\ Len(heap) \in Nat /\ Top.dir \in 1..Len(heap) /\ Len(stack) \in Nat
      /\ Top \in Frames(Len(heap))
  BY <1>1, TopFacts, Zenon
<1>3. CASE heap' = heap /\ stack' = stack /\ pc' = "read"
  BY <1>3, SameHeapIsKept, SameStackKeepsDown
<1>4. ASSUME NEW name \in AnyName, NEW path, path = Append(heap[Top.dir].path, name),
             NEW f \in FileType, f = NewFile(path), heap' = Append(heap, f),
             \/ pc' = "entry" /\ stack' = stack
             \/ /\ stack' = WithTop([Top EXCEPT !.files = Append(Top.files, id)])
                /\ pc' = "read"
      PROVE  DownInv'
  <2>1. /\ Len(heap') = id /\ heap'[id] = f
        /\ \A i \in 1..Len(heap) : heap'[i] = heap[i]
    BY <1>0, <1>1, <1>4, FileAdded, Zenon
  <2>2. HeapKept
    BY <2>1 DEF HeapKept
  <2>3. CASE pc' = "entry" /\ stack' = stack
    <3>1. DirsGoDown'
      BY <2>2, <2>3, DirsKept
    <3>2. Front(path) = heap[Top.dir].path /\ Last(path) = name
      <4>1. heap[Top.dir].path \in Seq(AnyName)
        <5>1. heap[Top.dir] \in FileType
          BY <1>1, <1>2 DEF Parts, HeapType
        <5> QED
          BY <5>1 DEF FileType
      <4>2. PICK s \in Seq(AnyName) : s = heap[Top.dir].path
        BY <4>1
      <4>3. Front(Append(s, name)) = s /\ Last(Append(s, name)) = name
        BY <4>2, FrontAndLastOfAppend, Zenon
      <4> QED
        BY <1>4, <4>2, <4>3
    <3>3. heap'[id].stat = "unknown" /\ heap'[id].path = path
      BY <1>4, <2>1 DEF NewFile
    <3>4. heap'[stack'[Len(stack')].dir].path = heap[Top.dir].path
      BY <1>2, <2>1, <2>3 DEF Top
    <3> QED
      BY <1>4, <2>1, <3>1, <3>2, <3>3, <3>4 DEF DownInv, EntryIsBelow
  <2>4. CASE /\ stack' = WithTop([Top EXCEPT !.files = Append(Top.files, id)])
             /\ pc' = "read"
    <3>1. PICK g : g = [Top EXCEPT !.files = Append(Top.files, id)]
      OBVIOUS
    <3>2. g.dirs = Top.dirs /\ g.dir = Top.dir
      BY <1>2, <3>1 DEF Frames
    <3>3. /\ Len(stack') = Len(stack) /\ stack'[Len(stack)] = g
          /\ \A i \in 1..Len(stack) - 1 : stack'[i] = stack[i]
      BY <1>1, <2>4, <3>1, TopChangesLists, Zenon
    <3>4. \A k \in 2..Len(stack') :
             /\ k \in 2..Len(stack)
             /\ stack'[k].dirs = stack[k].dirs /\ stack'[k].dir = stack[k].dir
      <4> TAKE k \in 2..Len(stack')
      <4>1. k \in 2..Len(stack) /\ (k = Len(stack) \/ k \in 1..Len(stack) - 1)
        BY <1>2, <3>3, BelowTop
      <4> QED
        BY <3>2, <3>3, <4>1 DEF Top
    <3> QED
      BY <2>2, <2>4, <3>4, DownKept
  <2> QED
    BY <1>4, <2>3, <2>4, Zenon
<1> QED
  BY <1>0, <1>3, <1>4, ReadEntrySteps, Zenon

LEMMA StatEntryKeepsDown ==
    ASSUME TypeInv, DownInv, StatEntry
    PROVE  DownInv'
<1>0. PICK id : id = Len(heap)
  OBVIOUS
<1>1. Parts /\ pc = "entry" /\ pc # "done" /\ Len(stack) >= 2 /\ Len(heap) >= 1 /\ pc' = "read"
  BY DEF TypeInv, StatEntry, PcInv
<1>2. /\ Len(heap) \in Nat /\ Len(stack) \in Nat /\ Top \in Frames(Len(heap))
      /\ Top.dirs \in Seq(1..Len(heap)) /\ Top.dir \in 1..Len(heap)
  BY <1>1, TopFacts, Zenon
<1>3. id \in 1..Len(heap) /\ Cur = id
  BY <1>0, <1>1, <1>2 DEF Cur
<1>4. /\ heap[id].stat = "unknown" /\ Front(heap[id].path) = heap[Top.dir].path
      /\ Last(heap[id].path) \in AnyName
  BY <1>0, <1>1 DEF DownInv, EntryIsBelow, Top
<1>5. heap \in Seq(FileType) /\ heap[id] \in FileType
  BY <1>1, <1>3 DEF Parts, HeapType
<1>st. PICK seen, st : (st = seen \/ seen = "unknown") /\ PlaceEntry(seen, st)
  BY DEF StatEntry
<1>6. CASE opts.dirsonly /\ seen # "dir"
  <2>1. /\ heap' = [heap EXCEPT ![id] = [StatIs(heap[id], st) EXCEPT !.freed = 1]]
        /\ stack' = stack
    BY <1>st, <1>3, <1>6 DEF PlaceEntry
  <2>2. [StatIs(heap[id], st) EXCEPT !.freed = 1].path = heap[id].path
    BY <1>5, FileFields
  <2>3. HeapKept
    BY <1>3, <1>4, <1>5, <2>1, <2>2 DEF HeapKept
  <2> QED
    BY <1>1, <2>1, <2>3, SameStackKeepsDown
<1>7. CASE ~(opts.dirsonly /\ seen # "dir")
  <2> DEFINE down == opts.recursive /\ seen = "dir" /\ ~IsDotOrDotDot(heap[Cur].path)
  <2>0. PICK f : f = StatIs(heap[id], st)
    OBVIOUS
  <2>1. PICK g : g = [Top EXCEPT !.files = Append(Top.files, id),
                      !.dirs = IF down THEN Append(Top.dirs, id) ELSE Top.dirs]
    OBVIOUS
  <2>2. heap' = [heap EXCEPT ![id] = f] /\ stack' = WithTop(g)
    BY <1>st, <1>3, <1>7, <2>0, <2>1 DEF PlaceEntry
  <2>3. f.path = heap[id].path /\ f.stat = st
    BY <1>5, <2>0, FileFields
  <2>4. heap'[id] = f /\ \A i \in 1..Len(heap) : i # id => heap'[i] = heap[i]
    BY <1>3, <1>5, <2>2
  <2>5. HeapKept
    BY <1>4, <2>3, <2>4 DEF HeapKept
  <2>6. g.dirs = (IF down THEN Append(Top.dirs, id) ELSE Top.dirs) /\ g.dir = Top.dir
    BY <1>2, <2>1 DEF Frames
  <2>7. down => GoesDown(heap', id, Top.dir)
    <3>1. heap'[Top.dir].path = heap[Top.dir].path
      BY <1>2, <2>5 DEF HeapKept
    <3>2. down => f.stat = "dir" /\ Last(f.path) \in Names
      BY <1>st, <1>3, <1>4, <2>3 DEF IsDotOrDotDot, AnyName
    <3> QED
      BY <1>4, <2>3, <2>4, <3>1, <3>2 DEF GoesDown
  <2> HIDE DEF down
  <2>8. \A p \in DOMAIN g.dirs : \/ p \in DOMAIN Top.dirs /\ g.dirs[p] = Top.dirs[p]
                                 \/ GoesDown(heap', g.dirs[p], g.dir)
    <3>1. CASE down
      <4>1. \A p \in DOMAIN Append(Top.dirs, id) :
               \/ p \in DOMAIN Top.dirs /\ Append(Top.dirs, id)[p] = Top.dirs[p]
               \/ Append(Top.dirs, id)[p] = id
        BY <1>2, AppendIs
      <4> QED
        BY <2>6, <2>7, <3>1, <4>1
    <3>2. CASE ~down
      BY <2>6, <3>2
    <3> QED
      BY <3>1, <3>2
  <2>9. /\ Len(stack') = Len(stack) /\ stack'[Len(stack)] = g
        /\ \A i \in 1..Len(stack) - 1 : stack'[i] = stack[i]
    BY <1>1, <2>2, TopChangesLists, Zenon
  <2>10. \A k \in 2..Len(stack') : \A p \in DOMAIN stack'[k].dirs :
           \/ /\ k \in 2..Len(stack) /\ p \in DOMAIN stack[k].dirs
              /\ stack'[k].dirs[p] = stack[k].dirs[p] /\ stack'[k].dir = stack[k].dir
           \/ GoesDown(heap', stack'[k].dirs[p], stack'[k].dir)
    <3> TAKE k \in 2..Len(stack')
    <3> TAKE p \in DOMAIN stack'[k].dirs
    <3>1. k \in 2..Len(stack) /\ (k = Len(stack) \/ k \in 1..Len(stack) - 1)
      BY <1>2, <2>9, BelowTop
    <3>2. CASE k = Len(stack)
      BY <2>6, <2>8, <2>9, <3>1, <3>2 DEF Top
    <3>3. CASE k \in 1..Len(stack) - 1
      BY <2>9, <3>1, <3>3
    <3> QED
      BY <3>1, <3>2, <3>3
  <2>11. DirsGoDown'
    BY <2>5, <2>10, DirsKept, Zenon
  <2> QED
    BY <1>1, <2>11 DEF DownInv, EntryIsBelow
<1> QED
  BY <1>6, <1>7

-----------------------------------------------------------------------------
(* The induction, and what follows from it.                                    *)

ListingInv == TypeInv /\ OwnInv /\ DownInv

LEMMA InvInit == Init => ListingInv
<1> SUFFICES ASSUME Init PROVE ListingInv
  OBVIOUS
<1>1. heap = <<>> /\ stack = <<Frame(0, TRUE)>> /\ pc = "operand"
  BY DEF Init
<1>2. PICK f : f = Frame(0, TRUE)
  OBVIOUS
<1>3. /\ Len(heap) = 0 /\ Len(stack) = 1 /\ stack[1].files = <<>> /\ stack[1].dirs = <<>>
      /\ stack # <<>>
  BY <1>1, <1>2 DEF Frame
<1>4. \A k \in Owners : Owned(k) = <<>>
  <2>1. Owners = 0..1 /\ 0..1 = {0, 1}
    BY <1>3 DEF Owners
  <2> QED
    BY <1>3, <2>1 DEF Owned
<1>5. OnceInv /\ FreedInv
  BY <1>3, <1>4 DEF OnceInv, FreedInv
<1>6. 2..Len(stack) = {}
  BY <1>3
<1>7. SubdirsInv /\ DownInv
  BY <1>1, <1>6 DEF SubdirsInv, DownInv, DirsGoDown, EntryIsBelow
<1> QED
  BY <1>5, <1>7, TypeInit DEF ListingInv, OwnInv

LEMMA InvStep ==
    ASSUME ListingInv, [Next]_vars
    PROVE  ListingInv'
<1>1. TypeInv /\ OwnInv /\ DownInv /\ TypeInv'
  BY TypeStep DEF ListingInv
<1>2. CASE Program
  <2>1. OwnInv'
    BY <1>1, <1>2, OperandKeepsOwners, IsLinkToDirKeepsOwners, OperandsDoneKeepsOwners,
       LooksKeepOwners, PrintFilesKeepsOwners, NextDirKeepsOwners, DirsDoneKeepsOwners,
       OpenKeepsOwners, ReadEntryKeepsOwners, StatEntryKeepsOwners,
       CloseStreamKeepsOwners, ReturnKeepsOwners, Zenon DEF Program
  <2>2. DownInv'
    BY <1>1, <1>2, LooksKeepDown, NextDirKeepsDown, CallsKeepDown, OtherStepsKeepDown,
       ReadEntryKeepsDown, StatEntryKeepsDown, Zenon DEF Program
  <2> QED
    BY <1>1, <2>1, <2>2 DEF ListingInv
<1>3. CASE UNCHANGED <<heap, stack, pc>>
  <2>1. Owners' = Owners /\ Pending' = Pending /\ \A k : Owned(k)' = Owned(k)
    BY <1>3 DEF Owners, Pending, Owned
  <2>2. \A i : Listed(i)' <=> Listed(i)
    BY <2>1 DEF Listed
  <2>3. OnceInv' /\ FreedInv' /\ SubdirsInv'
    BY <1>1, <1>3, <2>1, <2>2 DEF OwnInv, OnceInv, FreedInv, SubdirsInv
  <2>4. DownInv'
    BY <1>1, <1>3 DEF DownInv, DirsGoDown, EntryIsBelow
  <2> QED
    BY <1>1, <2>3, <2>4 DEF ListingInv, OwnInv
<1>4. Change => UNCHANGED <<heap, stack, pc>>
  BY DEF Change
<1>5. UNCHANGED vars => UNCHANGED <<heap, stack, pc>>
  BY DEF vars
<1> QED
  BY <1>2, <1>3, <1>4, <1>5 DEF Next, Terminated

LEMMA InvAlways == Spec => []ListingInv
  BY InvInit, InvStep, PTL DEF Spec

\* A directory being listed is one that its caller listed.
LEMMA CallerLists ==
    ASSUME TypeInv, NEW k \in 2..Len(stack)
    PROVE  \E p \in DOMAIN stack[k - 1].dirs : stack[k].dir = stack[k - 1].dirs[p]
<1>1. /\ stack[k - 1].listed \in 1..Len(stack[k - 1].dirs)
      /\ stack[k].dir = stack[k - 1].dirs[stack[k - 1].listed]
  BY DEF TypeInv, CallsInv
<1>2. stack[k - 1].dirs \in Seq(1..Len(heap))
  <2>1. stack \in Seq(Frames(Len(heap))) /\ Len(heap) \in Nat /\ k - 1 \in 1..Len(stack)
    BY DEF TypeInv, Parts, HeapType
  <2>2. stack[k - 1] \in Frames(Len(heap))
    BY <2>1
  <2> QED
    BY <2>1, <2>2, FrameFields, Zenon
<1> QED
  BY <1>1, <1>2

\* Recursion only ever goes down, into what lstat() called a directory and never
\* into "." or "..", however the files change and at any depth (l.c:408).
THEOREM GoesOnlyDown == Spec => []RecursionGoesDown
<1>1. ASSUME ListingInv PROVE RecursionGoesDown
  <2> SUFFICES ASSUME NEW k \in 3..Len(stack)
               PROVE  GoesDown(heap, stack[k].dir, stack[k - 1].dir)
    BY DEF RecursionGoesDown, GoesDown
  <2>1. k \in 2..Len(stack) /\ k - 1 \in 2..Len(stack)
    <3>1. Len(stack) \in Nat
      BY <1>1 DEF ListingInv, TypeInv, Parts, HeapType
    <3> QED
      BY <3>1
  <2>2. PICK p \in DOMAIN stack[k - 1].dirs : stack[k].dir = stack[k - 1].dirs[p]
    BY <1>1, <2>1, CallerLists DEF ListingInv
  <2> QED
    BY <1>1, <2>1, <2>2 DEF ListingInv, DownInv, DirsGoDown
<1> QED
  BY <1>1, InvAlways, PTL

LEMMA ReachedAreListed ==
    ASSUME TypeInv, OwnInv, NEW k \in 1..Len(stack)
    PROVE  /\ \A p \in DOMAIN stack[k].files : Listed(stack[k].files[p])
           /\ \A p \in DOMAIN stack[k].dirs : Listed(stack[k].dirs[p])
           /\ stack[k].dir # 0 => Listed(stack[k].dir)
<1>1. Len(stack) \in Nat /\ stack # <<>>
  BY DEF TypeInv, Parts, HeapType
<1>2. 0 \in Owners /\ \A j \in 1..Len(stack) : j \in Owners /\ Owned(j) = stack[j].files
  BY <1>1 DEF Owners, Owned
<1>3. Owned(0) = stack[1].dirs
  BY DEF Owned
<1>4. \A j \in 1..Len(stack) : \A p \in DOMAIN stack[j].files : Listed(stack[j].files[p])
  BY <1>2 DEF Listed
<1>5. ASSUME NEW j \in 1..Len(stack), NEW p \in DOMAIN stack[j].dirs
      PROVE  Listed(stack[j].dirs[p])
  <2>1. CASE j = 1
    BY <1>2, <1>3, <1>5, <2>1 DEF Listed
  <2>2. CASE j # 1
    <3>1. j \in 2..Len(stack)
      BY <1>1, <1>5, <2>2
    <3>2. PICK q \in DOMAIN stack[j].files : stack[j].files[q] = stack[j].dirs[p]
      BY <1>5, <3>1 DEF OwnInv, SubdirsInv
    <3> QED
      BY <1>4, <1>5, <3>2
  <2> QED
    BY <2>1, <2>2
<1>6. stack[k].dir # 0 => Listed(stack[k].dir)
  <2>1. CASE k = 1
    BY <1>1, <2>1 DEF TypeInv, CallsInv
  <2>2. CASE k # 1
    <3>1. k \in 2..Len(stack) /\ k - 1 \in 1..Len(stack)
      BY <1>1, <2>2
    <3>2. PICK p \in DOMAIN stack[k - 1].dirs : stack[k].dir = stack[k - 1].dirs[p]
      BY <3>1, CallerLists, Zenon
    <3> QED
      BY <1>5, <3>1, <3>2
  <2> QED
    BY <2>1, <2>2
<1> QED
  BY <1>4, <1>5, <1>6

LEMMA InToSetOfBoth ==
    ASSUME NEW S, NEW s \in Seq(S), NEW t \in Seq(S), NEW i \in ToSet(s \o t)
    PROVE  (\E p \in DOMAIN s : i = s[p]) \/ (\E p \in DOMAIN t : i = t[p])
<1>1. PICK p \in DOMAIN (s \o t) : i = (s \o t)[p]
  BY DEF ToSet
<1>2. p \in 1..Len(s) + Len(t) /\ Len(s) \in Nat /\ Len(t) \in Nat
  BY <1>1
<1>3. CASE p <= Len(s)
  BY <1>1, <1>2, <1>3
<1>4. CASE p > Len(s)
  <2>1. p - Len(s) \in DOMAIN t /\ (s \o t)[p] = t[p - Len(s)]
    BY <1>2, <1>4
  <2> QED
    BY <1>1, <2>1
<1> QED
  BY <1>2, <1>3, <1>4

\* However deep the recursion and whatever fails in it, each File is freed once
\* and only when nothing can reach it, and each directory stream is closed before
\* the next is opened (l.c:407-435, 110-116).
THEOREM NeverLeaks == Spec => []NothingLeaks
<1>1. ASSUME ListingInv PROVE NothingLeaks
  <2>1. /\ TypeInv /\ OwnInv /\ FreedInv /\ OneStream
        /\ heap \in Seq(FileType) /\ stack \in Seq(Frames(Len(heap)))
    BY <1>1 DEF ListingInv, OwnInv, TypeInv, StreamInv, OneStream, Parts, HeapType
  <2>2. \A i \in DOMAIN heap : heap[i].freed <= 1
    <3>1. \A i \in 1..Len(heap) : heap[i].freed \in {0, 1}
      BY <2>1 DEF FreedInv
    <3> QED
      BY <2>1, <3>1
  <2>3. \A i : Listed(i) => heap[i].freed = 0
    BY <2>1, ListedAreMade DEF FreedInv
  <2>4. ASSUME NEW k \in DOMAIN stack,
               NEW i \in ToSet(stack[k].files \o stack[k].dirs) \cup ({stack[k].dir} \ {0})
        PROVE  heap[i].freed = 0
    <3>1. k \in 1..Len(stack) /\ Len(heap) \in Nat /\ stack[k] \in Frames(Len(heap))
      BY <2>1, <2>4
    <3>2. /\ \A p \in DOMAIN stack[k].files : Listed(stack[k].files[p])
          /\ \A p \in DOMAIN stack[k].dirs : Listed(stack[k].dirs[p])
          /\ stack[k].dir # 0 => Listed(stack[k].dir)
      BY <2>1, <3>1, ReachedAreListed, Zenon
    <3>3. stack[k].files \in Seq(1..Len(heap)) /\ stack[k].dirs \in Seq(1..Len(heap))
      BY <3>1, FrameFields, Zenon
    <3>4. CASE i \in ToSet(stack[k].files \o stack[k].dirs)
      <4>1. \/ \E p \in DOMAIN stack[k].files : i = stack[k].files[p]
            \/ \E p \in DOMAIN stack[k].dirs : i = stack[k].dirs[p]
        <5>1. PICK s, u : s = stack[k].files /\ u = stack[k].dirs
          OBVIOUS
        <5>2. s \in Seq(1..Len(heap)) /\ u \in Seq(1..Len(heap)) /\ i \in ToSet(s \o u)
          BY <3>3, <3>4, <5>1
        <5>3. (\E p \in DOMAIN s : i = s[p]) \/ (\E p \in DOMAIN u : i = u[p])
          BY <5>2, InToSetOfBoth
        <5> QED
          BY <5>1, <5>3
      <4> QED
        BY <2>3, <3>2, <4>1, Zenon
    <3>5. CASE i \in {stack[k].dir} \ {0}
      BY <2>3, <3>2, <3>5, Zenon
    <3> QED
      BY <2>4, <3>4, <3>5
  <2>5. pc = "done" => \A i \in DOMAIN heap : heap[i].freed = 1
    <3> SUFFICES ASSUME pc = "done" PROVE \A i \in DOMAIN heap : heap[i].freed = 1
      OBVIOUS
    <3>1. stack = <<>>
      BY <2>1 DEF TypeInv, Parts, PlainType
    <3>2. Pending = {} /\ \A i : ~Listed(i)
      BY <3>1 DEF Pending, Listed, Owners
    <3> QED
      BY <2>1, <3>2 DEF FreedInv
  <2> QED
    BY <2>1, <2>2, <2>4, <2>5, Zenon DEF NothingLeaks, FilesFreedOnce
<1> QED
  BY <1>1, InvAlways, PTL

-----------------------------------------------------------------------------
(* Exit status 0.  A File that could not be stat'd is among the files that     *)
(* PrintFiles has yet to judge, or the exit status is 1.                       *)

Failed(i) == heap[i].stat = "failed"

\* No ? in the rows, but for those of Files that have lacked an answer.
Whole(files, e) ==
    e.event = "rows" =>
        \A r \in e.rows : r.shows = "?" =>
            \E i \in DOMAIN files : files[i].lacked /\ files[i].path = r.path

FaultsSeen == exit = 0 => faults = 0

FailuresSeen ==
    exit = 0 => \A i \in 1..Len(heap) :
        Failed(i) => pc \in {"read", "entry", "files"} /\ i \in InTopFiles

RowsWhole == exit = 0 => \A k \in DOMAIN out : Whole(heap, out[k])

ExitInv == FaultsSeen /\ FailuresSeen /\ RowsWhole

LEMMA ExitStays ==
    ASSUME TypeInv, [Next]_vars, exit' = 0
    PROVE  exit = 0
<1>1. exit' = exit \/ exit' = 1
  BY DEF Next, Program, Operand, PlaceOperand, IsLinkToDir, OperandsDone, StatFile, FollowFile,
         PrintFiles, NextDir, DirsDone, Open, OpenShortage, ReadEntry, StatEntry, PlaceEntry,
         ReadEnd, ReadFault, ReadShortage, CloseStream, Return, Change, Terminated, vars
<1> QED
  BY <1>1

LEMMA FaultsStep ==
    ASSUME TypeInv, FaultsSeen, [Next]_vars
    PROVE  FaultsSeen'
<1>1. faults' = faults \/ exit' = 1
  BY DEF Next, Program, Operand, PlaceOperand, IsLinkToDir, OperandsDone, StatFile, FollowFile,
         PrintFiles, NextDir, DirsDone, Open, OpenShortage, ReadEntry, StatEntry, PlaceEntry,
         ReadEnd, ReadFault, ReadShortage, CloseStream, Return, Change, Terminated, vars
<1> QED
  BY <1>1, ExitStays DEF FaultsSeen

\* Output.

LEMMA BothWhole ==
    ASSUME NEW h, NEW S, NEW s \in Seq(S), NEW t \in Seq(S),
           \A k \in DOMAIN s : Whole(h, s[k]), \A k \in DOMAIN t : Whole(h, t[k])
    PROVE  s \o t \in Seq(S) /\ \A k \in DOMAIN (s \o t) : Whole(h, (s \o t)[k])
<1>1. s \o t \in Seq(S) /\ Len(s) \in Nat /\ Len(t) \in Nat
  OBVIOUS
<1>2. ASSUME NEW k \in DOMAIN (s \o t) PROVE Whole(h, (s \o t)[k])
  <2>1. k \in 1..Len(s) + Len(t)
    BY <1>2
  <2>2. CASE k <= Len(s)
    BY <1>1, <2>1, <2>2
  <2>3. CASE k > Len(s)
    <3>1. k - Len(s) \in DOMAIN t /\ (s \o t)[k] = t[k - Len(s)]
      BY <1>1, <2>1, <2>3
    <3> QED
      BY <3>1
  <2> QED
    BY <1>1, <2>1, <2>2, <2>3
<1> QED
  BY <1>1, <1>2

LEMMA OneMoreWhole ==
    ASSUME NEW h, NEW S, NEW s \in Seq(S), \A k \in DOMAIN s : Whole(h, s[k]), NEW e, Whole(h, e)
    PROVE  \A k \in DOMAIN Append(s, e) : Whole(h, Append(s, e)[k])
<1>1. \A k \in DOMAIN Append(s, e) :
         (k \in DOMAIN s /\ Append(s, e)[k] = s[k]) \/ Append(s, e)[k] = e
  BY AppendIs
<1>2. ASSUME NEW k \in DOMAIN Append(s, e) PROVE Whole(h, Append(s, e)[k])
  BY <1>1, <1>2
<1> QED
  BY <1>2

LEMMA PrintedRowsWhole ==
    ASSUME TypeInv, PrintFiles, exit' = 0
    PROVE  \A i \in InTopFiles :
              /\ i \in DOMAIN heap /\ ~Failed(i)
              /\ heap[i].lacked \/ RowOf(heap[i]).shows # "?"
<1>1. Parts /\ pc # "done"
  BY DEF TypeInv, PrintFiles
<1>2. Len(heap) \in Nat /\ Top.files \in Seq(1..Len(heap))
  BY <1>1, TopFacts, Zenon
<1>a. ASSUME NEW i \in InTopFiles
      PROVE  i \in DOMAIN heap /\ ~Failed(i) /\ heap[i] \in FileType
  <2>1. i \in 1..Len(heap) /\ heap \in Seq(FileType)
    BY <1>1, <1>2 DEF InTopFiles, Parts, HeapType
  <2>2. ~Incomplete(heap[i])
    BY DEF PrintFiles
  <2> QED
    BY <2>1, <2>2 DEF Incomplete, Failed
<1> SUFFICES ASSUME NEW i \in InTopFiles, ~heap[i].lacked PROVE RowOf(heap[i]).shows # "?"
  BY <1>a
<1>3. heap[i] \in FileType
  BY <1>a
<1>4. ~Incomplete(heap[i])
  BY DEF PrintFiles
<1>5. ~StatNeeded(i)
  BY DEF PrintFiles
<1>7. opts.columns => Shown(heap[i]) \notin {"failed", "null"}
  BY <1>3, <1>4, <1>5 DEF Incomplete, Shown, StatNeeded, FileType, Stats, Targets
<1>8. Shown(heap[i]) # "?"
  BY <1>3 DEF Shown, FileType, Stats, Targets
<1> QED
  BY <1>7, <1>8 DEF RowOf

\* Files are only ever added, and one that has lacked an answer always has.
LackKept ==
    \A i \in DOMAIN heap :
        /\ i \in DOMAIN heap' /\ heap'[i].path = heap[i].path
        /\ heap[i].lacked => heap'[i].lacked

LEMMA LackStep ==
    ASSUME TypeInv, [Next]_vars
    PROVE  LackKept
<1>1. heap \in Seq(FileType) /\ DOMAIN heap = 1..Len(heap)
  BY DEF TypeInv, Parts, HeapType
<1>2. \/ heap' = heap
      \/ \E f : heap' = Append(heap, f)
      \/ \E i, st : \/ heap' = [heap EXCEPT ![i] = StatIs(heap[i], st)]
                    \/ heap' = [heap EXCEPT ![i] = TargetIs(heap[i], st)]
                    \/ heap' = [heap EXCEPT ![i] = [StatIs(heap[i], st) EXCEPT !.freed = 1]]
      \/ \E ids : heap' = FreeAll(heap, ids)
  <2>1. CASE Operand
    <3>1. \E st : PlaceOperand(operands[looked + 1], st)
      BY <2>1 DEF Operand
    <3> QED
      BY <3>1 DEF PlaceOperand
  <2>2. CASE IsLinkToDir \/ StatFile \/ FollowFile
    BY <2>2 DEF IsLinkToDir, StatFile, FollowFile
  <2>3. CASE StatEntry
    <3>1. PICK seen, st : PlaceEntry(seen, st)
      BY <2>3 DEF StatEntry
    <3> QED
      BY <3>1 DEF PlaceEntry
  <2>4. CASE PrintFiles \/ DirsDone \/ Return
    <3>1. \/ heap' = heap \/ heap' = FreeAll(heap, Top.files)
          \/ heap' = FreeAll(heap, Top.dirs) \/ heap' = FreeAll(heap, Owns(Top))
      BY <2>4 DEF PrintFiles, DirsDone, Return
    <3> QED
      BY <3>1, Zenon
  <2>5. CASE ReadEntry
    <3>1. heap' = heap \/ \E name : heap' = Append(heap, NewFile(Append(heap[Top.dir].path, name)))
      BY <2>5, ReadEntrySteps
    <3> QED
      BY <3>1, Zenon
  <2>6. CASE \/ OperandsDone \/ NextDir \/ Open \/ OpenShortage \/ ReadEnd \/ ReadFault
             \/ ReadShortage \/ Change \/ UNCHANGED vars
    BY <2>6 DEF OperandsDone, NextDir, Open, OpenShortage, ReadEnd, ReadFault, ReadShortage,
                Change, vars
  <2> QED
    BY <2>1, <2>2, <2>3, <2>4, <2>5, <2>6, Zenon DEF Next, Program, Terminated
<1>3. CASE heap' = heap
  BY <1>3 DEF LackKept
<1>4. ASSUME NEW f, heap' = Append(heap, f) PROVE LackKept
  <2>1. \A i \in DOMAIN heap : i \in DOMAIN heap' /\ heap'[i] = heap[i]
    BY <1>1, <1>4
  <2> QED
    BY <2>1 DEF LackKept
<1>5. ASSUME NEW i, NEW st,
             \/ heap' = [heap EXCEPT ![i] = StatIs(heap[i], st)]
             \/ heap' = [heap EXCEPT ![i] = TargetIs(heap[i], st)]
             \/ heap' = [heap EXCEPT ![i] = [StatIs(heap[i], st) EXCEPT !.freed = 1]]
      PROVE  LackKept
  <2>1. PICK f : /\ heap' = [heap EXCEPT ![i] = f]
                 /\ \/ f = StatIs(heap[i], st) \/ f = TargetIs(heap[i], st)
                    \/ f = [StatIs(heap[i], st) EXCEPT !.freed = 1]
    BY <1>5
  <2>2. ASSUME i \in DOMAIN heap
        PROVE  f.path = heap[i].path /\ (heap[i].lacked => f.lacked)
    <3>1. heap[i] \in FileType
      BY <1>1, <2>2
    <3>2. CASE f = StatIs(heap[i], st)
      BY <3>1, <3>2, FileFields, Zenon
    <3>3. CASE f = TargetIs(heap[i], st)
      BY <3>1, <3>3, FileFields, Zenon
    <3>4. CASE f = [StatIs(heap[i], st) EXCEPT !.freed = 1]
      BY <3>1, <3>4 DEF FileType, StatIs
    <3> QED
      BY <2>1, <3>2, <3>3, <3>4
  <2>3. \A j \in DOMAIN heap : /\ j \in DOMAIN heap'
                               /\ heap'[j] = IF j = i THEN f ELSE heap[j]
    BY <1>1, <2>1
  <2>4. \A j \in DOMAIN heap : /\ heap'[j].path = heap[j].path
                               /\ heap[j].lacked => heap'[j].lacked
    BY <2>2, <2>3
  <2> QED
    BY <2>3, <2>4 DEF LackKept
<1>6. ASSUME NEW ids, heap' = FreeAll(heap, ids) PROVE LackKept
  <2>1. DOMAIN heap' = DOMAIN heap
    BY <1>6 DEF FreeAll
  <2> QED
    BY <1>1, <1>6, <2>1, FreeingKeepsFiles DEF LackKept, HeapKept
<1> QED
  BY <1>2, <1>3, <1>4, <1>5, <1>6

LEMMA WholeStays ==
    ASSUME LackKept, NEW e, Whole(heap, e)
    PROVE  Whole(heap', e)
  BY DEF Whole, LackKept

LEMMA RowsStep ==
    ASSUME TypeInv, RowsWhole, [Next]_vars
    PROVE  RowsWhole'
<1> SUFFICES ASSUME exit' = 0 PROVE \A k \in DOMAIN out' : Whole(heap', out'[k])
  BY DEF RowsWhole
<1>0. LackKept
  BY LackStep
<1>1. \A k \in DOMAIN out : Whole(heap', out[k])
  <2>1. \A k \in DOMAIN out : Whole(heap, out[k])
    BY ExitStays DEF RowsWhole
  <2> QED
    BY <1>0, <2>1, WholeStays
<1>2. out \in Seq(Events(Len(heap)))
  BY DEF TypeInv, Parts, OutType
<1>3. PICK S : S = Events(Len(heap))
  OBVIOUS
<1>4. CASE PrintFiles
  <2>1. CASE Top.files = <<>>
    BY <1>1, <1>4, <2>1 DEF PrintFiles
  <2>2. CASE Top.files # <<>>
    <3>1. PICK rows, e :
             /\ rows \in RowSets
             /\ e = [event |-> "rows", dir |-> Top.dir, rows |-> rows]
             /\ out' = Append(out, e)
      BY <1>4, <2>2 DEF PrintFiles
    <3>2. \A r \in rows : \E i \in InTopFiles :
             (heap[i].lacked /\ r.path = heap[i].path) \/ (~heap[i].lacked /\ r = RowOf(heap[i]))
      <4>1. PICK shown : rows =
               {IF heap[i].lacked THEN [path |-> heap[i].path, shows |-> shown[i]]
                ELSE RowOf(heap[i]) : i \in InTopFiles}
        BY <3>1, Zenon DEF RowSets
      <4> QED
        BY <4>1
    <3>3. Whole(heap', e)
      <4>1. Whole(heap, e)
        BY <1>4, <3>1, <3>2, PrintedRowsWhole DEF Whole
      <4> QED
        BY <1>0, <4>1, WholeStays
    <3> QED
      BY <1>1, <1>2, <3>1, <3>3, OneMoreWhole
  <2> QED
    BY <2>1, <2>2
<1>5. CASE NextDir
  <2>1. PICK a, b : /\ a = [event |-> "blank"]
                    /\ b = [event |-> "label", dir |-> Top.dirs[Top.listed + 1]]
    OBVIOUS
  <2>2. Whole(heap', a) /\ Whole(heap', b)
    BY <2>1 DEF Whole
  <2>3. PICK blank, label : /\ out' = out \o blank \o label
                            /\ blank \in {<<>>, <<a>>} /\ label \in {<<>>, <<b>>}
    BY <1>5, <2>1 DEF NextDir
  <2> DEFINE U == S \cup {a, b}
  <2>4. out \in Seq(U)
    <3>1. S \subseteq U
      BY Zenon
    <3> QED
      BY <1>2, <1>3, <3>1, SeqMonotonic, Zenon
  <2>5. blank \in Seq(U) /\ label \in Seq(U)
    <3>1. a \in U /\ b \in U
      BY Zenon
    <3> HIDE DEF U
    <3>2. <<a>> \in Seq(U) /\ <<b>> \in Seq(U)
      BY <3>1, OneElement, Zenon
    <3>3. <<>> \in Seq(U)
      OBVIOUS
    <3> QED
      BY <2>3, <3>2, <3>3, Zenon
  <2> HIDE DEF U
  <2>6. (\A k \in DOMAIN blank : Whole(heap', blank[k])) /\ \A k \in DOMAIN label : Whole(heap', label[k])
    <3>1. ASSUME NEW e, Whole(heap', e), NEW s, s \in {<<>>, <<e>>}
          PROVE  \A k \in DOMAIN s : Whole(heap', s[k])
      <4>1. CASE s = <<>>
        BY <4>1
      <4>2. CASE s = <<e>>
        BY <3>1, <4>2
      <4> QED
        BY <3>1, <4>1, <4>2
    <3> QED
      BY <2>2, <2>3, <3>1, Zenon
  <2>7. out \o blank \in Seq(U) /\ \A k \in DOMAIN (out \o blank) : Whole(heap', (out \o blank)[k])
    BY <1>1, <2>4, <2>5, <2>6, BothWhole
  <2>8. PICK o : o = out \o blank
    OBVIOUS
  <2>9. o \in Seq(U) /\ \A k \in DOMAIN o : Whole(heap', o[k])
    BY <2>7, <2>8
  <2>10. \A k \in DOMAIN (o \o label) : Whole(heap', (o \o label)[k])
    BY <2>5, <2>6, <2>9, BothWhole
  <2> QED
    BY <2>3, <2>8, <2>10
<1>6. CASE ReadEnd \/ ReadFault \/ ReadShortage
  <2>1. PICK e : e = [event |-> "total", dir |-> Top.dir, blocks |-> total]
    OBVIOUS
  <2>2. Whole(heap', e)
    BY <2>1 DEF Whole
  <2>3. out' = out \/ out' = Append(out, e)
    BY <1>6, <2>1 DEF ReadEnd, ReadFault, ReadShortage, CloseStream
  <2> QED
    BY <1>1, <1>2, <2>2, <2>3, OneMoreWhole
<1>7. CASE ~(PrintFiles \/ NextDir \/ ReadEnd \/ ReadFault \/ ReadShortage)
  <2>1. out' = out
    BY <1>7 DEF Next, Program, Operand, IsLinkToDir, OperandsDone, StatFile, FollowFile,
         DirsDone, Open, OpenShortage, ReadEntry, StatEntry, Return, Change, Terminated, vars
  <2> QED
    BY <1>1, <2>1
<1> QED
  BY <1>4, <1>5, <1>6, <1>7

\* Files that could not be stat'd.

\* Away from the listing of a directory's entries nothing has failed unseen.
LEMMA NoneFailed ==
    ASSUME FailuresSeen, exit = 0, pc \notin {"read", "entry", "files"}
    PROVE  \A i \in 1..Len(heap) : ~Failed(i)
  BY DEF FailuresSeen

StatsKept ==
    Len(heap') = Len(heap) /\ \A i \in 1..Len(heap) : heap'[i].stat = heap[i].stat

LEMMA NoneFailedStays ==
    ASSUME StatsKept, \A i \in 1..Len(heap) : ~Failed(i)
    PROVE  FailuresSeen'
  BY DEF FailuresSeen, StatsKept, Failed

LEMMA FailuresKept ==
    ASSUME FailuresSeen, StatsKept, exit' = 0 => exit = 0, stack' = stack,
           pc' \in {"read", "entry", "files"}
    PROVE  FailuresSeen'
<1>1. InTopFiles' = InTopFiles
  BY DEF InTopFiles, Top
<1> QED
  BY <1>1 DEF FailuresSeen, StatsKept, Failed

LEMMA OperandFailures ==
    ASSUME TypeInv, FailuresSeen, Operand \/ IsLinkToDir, exit' = 0, exit = 0
    PROVE  FailuresSeen'
<1>1. /\ Parts /\ pc # "done" /\ pc \in {"operand", "islinktodir"}
      /\ pc = "islinktodir" => Len(heap) >= 1
  BY DEF TypeInv, PcInv, Operand, IsLinkToDir
<1>2. /\ Len(heap) \in Nat /\ heap \in Seq(FileType)
      /\ \A i \in 1..Len(heap) : ~Failed(i)
  <2>1. Len(heap) \in Nat
    BY <1>1, TopFacts, Zenon
  <2> QED
    BY <1>1, <2>1, NoneFailed DEF Parts, HeapType
<1>3. CASE Operand
  <2> DEFINE path == operands[looked + 1]
  <2>st. PICK st \in Stats : PlaceOperand(path, st)
    BY <1>3 DEF Operand
  <2>0. NewFile(path) \in FileType
    <3>1. path \in Seq(AnyName) \ {<<>>}
      BY <1>1, <1>3, TypesOfConstants DEF Operand, Parts, PlainType
    <3> QED
      BY <3>1, FileTypes, Zenon
  <2>1. PICK f : f = StatIs(NewFile(path), st)
    OBVIOUS
  <2>2. f.stat = st /\ st \notin {"failed", "unknown"}
    <3>1. f.stat = st
      BY <2>0, <2>1, FileFields
    <3>2. st \notin {"failed", "unknown"}
      BY <2>st DEF PlaceOperand
    <3> QED
      BY <3>1, <3>2
  <2>3. heap' = Append(heap, f)
    BY <2>st, <2>1, <2>2 DEF PlaceOperand
  <2>4. f \in FileType
    BY <2>0, <2>1, FileTypes, Zenon
  <2> HIDE DEF path
  <2>5. /\ Len(heap') = Len(heap) + 1 /\ heap'[Len(heap) + 1] = f
        /\ \A i \in 1..Len(heap) : heap'[i] = heap[i]
    BY <1>1, <2>3, <2>4, FileAdded, Zenon
  <2>6. \A i \in 1..Len(heap') : heap'[i].stat # "failed"
    <3> TAKE i \in 1..Len(heap')
    <3>1. i \in 1..Len(heap) \/ i = Len(heap) + 1
      BY <1>2, <2>5
    <3> QED
      BY <1>2, <2>2, <2>5, <3>1 DEF Failed
  <2> QED
    BY <2>6 DEF FailuresSeen, Failed
<1>4. CASE IsLinkToDir
  <2>1. PICK f : heap' = [heap EXCEPT ![Len(heap)] = f] /\ f.stat = heap[Len(heap)].stat
    <3>1. PICK f, t : f = TargetIs(heap[Len(heap)], t) /\ heap' = [heap EXCEPT ![Len(heap)] = f]
      BY <1>4 DEF IsLinkToDir, Cur
    <3>2. Len(heap) \in 1..Len(heap)
      BY <1>1, <1>2, <1>4 DEF IsLinkToDir
    <3>3. f.stat = heap[Len(heap)].stat
      BY <1>2, <3>1, <3>2, FileFields
    <3> QED
      BY <3>1, <3>3
  <2>2. StatsKept
    BY <1>2, <2>1 DEF StatsKept
  <2> QED
    BY <1>2, <2>2, NoneFailedStays
<1> QED
  BY <1>3, <1>4

LEMMA LooksFailures ==
    ASSUME TypeInv, FailuresSeen, StatFile \/ FollowFile, exit' = 0, exit = 0
    PROVE  FailuresSeen'
<1>1. Parts /\ pc = "files" /\ pc' = "files" /\ stack' = stack /\ pc # "done"
  BY DEF TypeInv, StatFile, FollowFile
<1>2. Len(heap) \in Nat /\ Top.files \in Seq(1..Len(heap)) /\ heap \in Seq(FileType)
  BY <1>1, TopFacts DEF Parts, HeapType
<1>3. PICK i, f : i \in InTopFiles /\ heap' = [heap EXCEPT ![i] = f]
  BY DEF StatFile, FollowFile
<1>4. i \in 1..Len(heap)
  BY <1>2, <1>3 DEF InTopFiles
<1>5. /\ Len(heap') = Len(heap)
      /\ \A j \in 1..Len(heap) : j # i => heap'[j] = heap[j]
  BY <1>2, <1>3, <1>4
<1>6. InTopFiles' = InTopFiles
  BY <1>1 DEF InTopFiles, Top
<1> QED
  BY <1>1, <1>3, <1>5, <1>6 DEF FailuresSeen, Failed

LEMMA PrintFilesFailures ==
    ASSUME TypeInv, FailuresSeen, PrintFiles, exit' = 0, exit = 0
    PROVE  FailuresSeen'
<1>1. \A i \in InTopFiles : ~Failed(i)
  BY PrintedRowsWhole
<1>2. \A i \in 1..Len(heap) : ~Failed(i)
  BY <1>1 DEF FailuresSeen
<1>3. StatsKept
  <2>1. heap' = heap \/ heap' = FreeAll(heap, Top.files)
    BY DEF PrintFiles
  <2> QED
    BY <2>1, FreeingKeepsFiles DEF StatsKept
<1> QED
  BY <1>2, <1>3, NoneFailedStays

LEMMA CallsFailures ==
    ASSUME TypeInv, FailuresSeen, exit' = 0, exit = 0,
           \/ OperandsDone \/ NextDir \/ DirsDone \/ Open \/ OpenShortage \/ Return
    PROVE  FailuresSeen'
<1>1. pc \notin {"read", "entry", "files"}
  BY DEF OperandsDone, NextDir, DirsDone, Open, OpenShortage, Return
<1>2. heap' = heap \/ \E ids : heap' = FreeAll(heap, ids)
  <2>1. heap' = heap \/ heap' = FreeAll(heap, Top.dirs) \/ heap' = FreeAll(heap, Owns(Top))
    BY DEF OperandsDone, NextDir, DirsDone, Open, OpenShortage, Return
  <2> QED
    BY <2>1, Zenon
<1>3. StatsKept
  BY <1>2, FreeingKeepsFiles DEF StatsKept
<1> QED
  BY <1>1, <1>3, NoneFailed, NoneFailedStays

\* A File that joins the files of the top frame.
LEMMA TopFilesGrow ==
    ASSUME TypeInv, pc # "done", NEW f, stack' = WithTop(f), NEW x,
           f.files = Append(Top.files, x)
    PROVE  (\A i \in InTopFiles : i \in InTopFiles') /\ x \in InTopFiles'
<1>1. Len(stack') = Len(stack) /\ stack'[Len(stack)] = f
  BY TopChangesLists, Zenon
<1>2. InTopFiles' = {f.files[k] : k \in DOMAIN f.files}
  BY <1>1 DEF InTopFiles, Top
<1>3. PICK s \in Seq(1..Len(heap)) : s = Top.files
  BY TopFacts, Zenon
<1>4. /\ \A q \in DOMAIN s : q \in DOMAIN Append(s, x) /\ Append(s, x)[q] = s[q]
      /\ \E q \in DOMAIN Append(s, x) : Append(s, x)[q] = x
  BY AppendIs
<1>5. f.files = Append(s, x) /\ InTopFiles = {s[k] : k \in DOMAIN s}
  BY <1>3 DEF InTopFiles
<1> QED
  BY <1>2, <1>4, <1>5

LEMMA ReadEntryFailures ==
    ASSUME TypeInv, FailuresSeen, ReadEntry, exit' = 0, exit = 0
    PROVE  FailuresSeen'
<1>0. PICK id : id = Len(heap) + 1
  OBVIOUS
<1>1. Parts /\ pc = "read" /\ pc # "done"
  BY DEF TypeInv, ReadEntry
<1>2. /\ Len(heap) \in Nat /\ Top \in Frames(Len(heap))
  BY <1>1, TopFacts, Zenon
<1>3. CASE heap' = heap /\ stack' = stack /\ pc' = "read"
  BY <1>3, FailuresKept DEF StatsKept
<1>4. ASSUME NEW f \in FileType, f.stat = "unknown", heap' = Append(heap, f),
             \/ pc' = "entry" /\ stack' = stack
             \/ /\ stack' = WithTop([Top EXCEPT !.files = Append(Top.files, id)])
                /\ pc' = "read"
      PROVE  FailuresSeen'
  <2>1. /\ Len(heap') = Len(heap) + 1 /\ heap'[Len(heap) + 1] = f
        /\ \A i \in 1..Len(heap) : heap'[i] = heap[i]
    BY <1>1, <1>4, FileAdded, Zenon
  <2>2. \A i \in InTopFiles : i \in InTopFiles'
    <3>1. CASE stack' = stack
      BY <3>1 DEF InTopFiles, Top
    <3>2. CASE stack' = WithTop([Top EXCEPT !.files = Append(Top.files, id)])
      <4>1. PICK g : g = [Top EXCEPT !.files = Append(Top.files, id)]
        OBVIOUS
      <4>2. g.files = Append(Top.files, id)
        BY <1>2, <4>1 DEF Frames
      <4> QED
        BY <1>1, <3>2, <4>1, <4>2, TopFilesGrow, Zenon
    <3> QED
      BY <1>4, <3>1, <3>2
  <2>3. ASSUME NEW i \in 1..Len(heap'), Failed(i)'
        PROVE  pc' \in {"read", "entry", "files"} /\ i \in InTopFiles'
    <3>1. i \in 1..Len(heap) /\ Failed(i)
      BY <1>2, <1>4, <2>1, <2>3 DEF Failed
    <3>2. i \in InTopFiles
      BY <3>1 DEF FailuresSeen
    <3> QED
      BY <1>4, <2>2, <3>2
  <2> QED
    BY <2>3 DEF FailuresSeen
<1>5. \A path : NewFile(path).stat = "unknown"
  BY DEF NewFile
<1> QED
  BY <1>0, <1>3, <1>4, <1>5, ReadEntrySteps, Zenon

LEMMA StatEntryFailures ==
    ASSUME TypeInv, FailuresSeen, StatEntry, exit' = 0, exit = 0
    PROVE  FailuresSeen'
<1>0. PICK id : id = Len(heap)
  OBVIOUS
<1>1. Parts /\ pc = "entry" /\ pc # "done" /\ pc' = "read" /\ Len(heap) >= 1
  BY DEF TypeInv, PcInv, StatEntry
<1>2. /\ Len(heap) \in Nat /\ Top \in Frames(Len(heap)) /\ heap \in Seq(FileType)
  BY <1>1, TopFacts DEF Parts, HeapType
<1>3. id \in 1..Len(heap) /\ Cur = id
  BY <1>0, <1>1, <1>2 DEF Cur
<1>st. PICK seen, st : (st = seen \/ seen = "unknown") /\ PlaceEntry(seen, st)
           /\ (opts.dirsonly => st = seen)
  BY DEF StatEntry
<1>4. PICK f : heap' = [heap EXCEPT ![id] = f] /\ f.stat = st
  <2>1. heap[id] \in FileType
    BY <1>2, <1>3
  <2>2. StatIs(heap[id], st).stat = st /\ [StatIs(heap[id], st) EXCEPT !.freed = 1].stat = st
    BY <2>1, FileFields
  <2>3. \/ heap' = [heap EXCEPT ![id] = StatIs(heap[id], st)]
        \/ heap' = [heap EXCEPT ![id] = [StatIs(heap[id], st) EXCEPT !.freed = 1]]
    BY <1>st, <1>3 DEF PlaceEntry
  <2> QED
    BY <2>2, <2>3, Zenon
<1>5. /\ Len(heap') = Len(heap) /\ heap'[id] = f
      /\ \A i \in 1..Len(heap) : i # id => heap'[i] = heap[i]
  BY <1>2, <1>3, <1>4
<1>6. (\A i \in InTopFiles : i \in InTopFiles') /\ (st = "failed" => id \in InTopFiles')
  <2>1. CASE opts.dirsonly /\ seen # "dir"
    <3>1. stack' = stack /\ st # "failed"
      BY <1>st, <2>1 DEF PlaceEntry
    <3> QED
      BY <3>1 DEF InTopFiles, Top
  <2>2. CASE ~(opts.dirsonly /\ seen # "dir")
    <3>1. PICK d : stack' = WithTop([Top EXCEPT !.files = Append(Top.files, id), !.dirs = d])
      BY <1>st, <1>3, <2>2 DEF PlaceEntry
    <3>2. PICK g : g = [Top EXCEPT !.files = Append(Top.files, id), !.dirs = d]
      OBVIOUS
    <3>3. g.files = Append(Top.files, id)
      BY <1>2, <3>2 DEF Frames
    <3> QED
      BY <1>1, <3>1, <3>2, <3>3, TopFilesGrow, Zenon
  <2> QED
    BY <2>1, <2>2
<1>7. ASSUME NEW i \in 1..Len(heap'), Failed(i)'
      PROVE  i \in InTopFiles'
  <2>1. CASE i = id
    BY <1>4, <1>5, <1>6, <1>7, <2>1 DEF Failed
  <2>2. CASE i # id
    <3>1. i \in 1..Len(heap) /\ Failed(i)
      BY <1>5, <1>7, <2>2 DEF Failed
    <3> QED
      BY <1>6, <3>1 DEF FailuresSeen
  <2> QED
    BY <2>1, <2>2
<1> QED
  BY <1>1, <1>7 DEF FailuresSeen

LEMMA ExitStep ==
    ASSUME TypeInv, ExitInv, [Next]_vars
    PROVE  ExitInv'
<1>1. FaultsSeen' /\ RowsWhole'
  BY FaultsStep, RowsStep DEF ExitInv
<1>2. CASE exit' = 0
  <2>1. exit = 0 /\ FailuresSeen
    BY <1>2, ExitStays DEF ExitInv
  <2>2. CASE \/ UNCHANGED <<heap, stack, pc>>
             \/ ReadEnd \/ ReadFault \/ ReadShortage
    <3>1. /\ heap' = heap /\ stack' = stack
          /\ pc' = pc \/ (pc = "read" /\ pc' = "files")
      BY <2>2 DEF ReadEnd, ReadFault, ReadShortage, CloseStream
    <3>2. InTopFiles' = InTopFiles
      BY <3>1 DEF InTopFiles, Top
    <3>3. FailuresSeen'
      BY <2>1, <3>1, <3>2 DEF FailuresSeen, Failed
    <3> QED
      BY <1>1, <3>3 DEF ExitInv
  <2>3. CASE \/ Operand \/ IsLinkToDir \/ OperandsDone \/ StatFile \/ FollowFile
             \/ PrintFiles \/ NextDir \/ DirsDone \/ Open \/ OpenShortage
             \/ ReadEntry \/ StatEntry \/ Return
    BY <1>1, <1>2, <2>1, <2>3, OperandFailures, LooksFailures, PrintFilesFailures,
       CallsFailures, ReadEntryFailures, StatEntryFailures, Zenon DEF ExitInv
  <2>4. Change \/ UNCHANGED vars => UNCHANGED <<heap, stack, pc>>
    BY DEF Change, vars
  <2> QED
    BY <2>2, <2>3, <2>4 DEF Next, Program, Terminated
<1>3. CASE exit' # 0
  BY <1>1, <1>3 DEF ExitInv, FailuresSeen
<1> QED
  BY <1>2, <1>3

\* However the files change while they are listed, exit status 0 is a promise
\* about what was printed: no ? in the columns made from getstat(), but of Files
\* that lacked an answer for want of memory, no entry dropped that could not be
\* stat'd, and no directory cut short by an error of readdir() (l.c:312-326, 398,
\* 419).
THEOREM ExitZeroPromises == Spec => []ExitZeroIsComplete
<1>1. ASSUME Init PROVE TypeInv /\ ExitInv
  <2>1. heap = <<>> /\ out = <<>> /\ faults = 0
    BY <1>1 DEF Init
  <2> QED
    BY <1>1, <2>1, TypeInit DEF ExitInv, FaultsSeen, FailuresSeen, RowsWhole
<1>2. ASSUME TypeInv /\ ExitInv, [Next]_vars PROVE (TypeInv /\ ExitInv)'
  BY <1>2, TypeStep, ExitStep
<1>3. ASSUME TypeInv /\ ExitInv PROVE ExitZeroIsComplete
  <2> SUFFICES ASSUME pc = "done", exit = 0
               PROVE  /\ faults = 0
                      /\ \A i \in DOMAIN heap : heap[i].stat # "failed"
                      /\ \A k \in DOMAIN out : Whole(heap, out[k])
    BY DEF ExitZeroIsComplete, Whole
  <2>1. DOMAIN heap = 1..Len(heap)
    BY <1>3 DEF TypeInv, Parts, HeapType
  <2> QED
    BY <1>3, <2>1 DEF ExitInv, FaultsSeen, FailuresSeen, RowsWhole, Failed
<1> QED
  BY <1>1, <1>2, <1>3, PTL DEF Spec

-----------------------------------------------------------------------------
(* The sections of the output.                                                 *)

LabelsOf(o) == {k \in DOMAIN o : o[k].event = "label"}

\* What SectionsAreSeparate says of the k-th event of an output.
InPlace(o, k) ==
    /\ o[k].event = "blank" =>
         /\ k > 1 /\ k < Len(o)
         /\ o[k + 1].event = "label" /\ o[k - 1].event # "blank"
    /\ o[k].event = "label" => k = 1 \/ o[k - 1].event = "blank"
    /\ o[k].event = "rows" /\ o[k].dir = 0 => k = 1
    /\ o[k].event \in {"rows", "total"} /\ o[k].dir # 0 =>
         IF LabelsOf(o) = {}
         THEN \A j \in DOMAIN o : o[j].dir = o[k].dir
         ELSE \E j \in LabelsOf(o) : /\ j < k /\ o[j].dir = o[k].dir
                                     /\ \A i \in LabelsOf(o) : i <= j \/ i > k

\* The output ends with what one can append to.
EndsWell(o) == \A k \in DOMAIN o : k = Len(o) => o[k].event # "blank"

Sections(o) == EndsWell(o) /\ \A k \in DOMAIN o : InPlace(o, k)

\* What is listed next belongs to the directory d: the last label is its own, or
\* there is no label and nothing else in the output.
Current(o, d) ==
    IF LabelsOf(o) = {} THEN \A j \in DOMAIN o : o[j].event # "blank" /\ o[j].dir = d
    ELSE \E j \in LabelsOf(o) : o[j].dir = d /\ \A i \in LabelsOf(o) : i <= j

\* At most the files that main() lists are in the output.
Fresh(o) == \A j \in DOMAIN o : o[j].event = "rows" /\ o[j].dir = 0

LEMMA SectionsSaysIt == Sections(out) => SectionsAreSeparate
<1> SUFFICES ASSUME Sections(out), NEW k \in DOMAIN out
             PROVE  LET is(i, e) == out[i].event = e
                        labels == {i \in DOMAIN out : is(i, "label")}
                    IN  /\ is(k, "blank") =>
                             k > 1 /\ k < Len(out) /\ is(k + 1, "label") /\ ~is(k - 1, "blank")
                        /\ is(k, "label") => k = 1 \/ is(k - 1, "blank")
                        /\ is(k, "rows") /\ out[k].dir = 0 => k = 1
                        /\ (is(k, "rows") \/ is(k, "total")) /\ out[k].dir # 0 =>
                             IF labels = {}
                             THEN \A j \in DOMAIN out : out[j].dir = out[k].dir
                             ELSE \E j \in labels : /\ j < k /\ out[j].dir = out[k].dir
                                                    /\ \A i \in labels : i <= j \/ i > k
  BY DEF SectionsAreSeparate
<1>1. InPlace(out, k)
  BY DEF Sections
<1> QED BY <1>1, Zenon DEF InPlace, LabelsOf

\* An output that is one event longer.
Longer(o, p, x) ==
    /\ Len(p) = Len(o) + 1 /\ p[Len(o) + 1] = x
    /\ \A k \in DOMAIN o : p[k] = o[k]

\* The rows and the total of a directory go to its section.
LEMMA RowsInPlace ==
    ASSUME NEW S, NEW o \in Seq(S), NEW p \in Seq(S), NEW x, Longer(o, p, x),
           Sections(o), NEW d, d # 0, Current(o, d), x.event \in {"rows", "total"}, x.dir = d
    PROVE  Sections(p) /\ Current(p, d) /\ LabelsOf(p) = LabelsOf(o)
<1>1. /\ DOMAIN o = 1..Len(o) /\ DOMAIN p = 1..(Len(o) + 1) /\ Len(o) \in Nat
      /\ Len(p) = Len(o) + 1 /\ p[Len(o) + 1] = x /\ \A k \in 1..Len(o) : p[k] = o[k]
  BY DEF Longer
<1>2. LabelsOf(p) = LabelsOf(o)
  BY <1>1 DEF LabelsOf
<1>3. Current(p, d)
  <2>1. CASE LabelsOf(o) = {}
    BY <1>1, <1>2, <2>1 DEF Current
  <2>2. CASE LabelsOf(o) # {}
    <3>1. PICK j \in LabelsOf(o) : o[j].dir = d /\ \A i \in LabelsOf(o) : i <= j
      BY <2>2 DEF Current
    <3>2. p[j] = o[j]
      BY <1>1, <3>1 DEF LabelsOf
    <3> QED BY <1>2, <2>2, <3>1, <3>2 DEF Current
  <2> QED BY <2>1, <2>2
<1>4. EndsWell(p)
  <2>1. p[Len(p)].event # "blank"
    BY <1>1
  <2> QED BY <2>1 DEF EndsWell
<1>5. ASSUME NEW k \in DOMAIN p PROVE InPlace(p, k)
  <2>1. CASE k = Len(o) + 1
    <3>1. p[k] = x
      BY <1>1, <2>1
    <3>2. \A i \in LabelsOf(o) : i < k
      BY <1>1, <2>1 DEF LabelsOf
    <3>3. CASE LabelsOf(o) = {}
      <4>1. \A j \in DOMAIN p : p[j].dir = d
        BY <1>2, <1>3, <3>3 DEF Current
      <4> QED BY <1>2, <3>1, <3>3, <4>1 DEF InPlace
    <3>4. CASE LabelsOf(o) # {}
      <4>1. PICK j \in LabelsOf(o) : p[j].dir = d /\ \A i \in LabelsOf(o) : i <= j
        BY <1>2, <1>3, <3>4 DEF Current
      <4> QED BY <1>2, <3>1, <3>2, <3>4, <4>1 DEF InPlace
    <3> QED BY <3>3, <3>4
  <2>2. CASE k # Len(o) + 1
    <3>1. k \in 1..Len(o) /\ p[k] = o[k]
      BY <1>1, <2>2
    <3>2. InPlace(o, k)
      BY <1>1, <3>1 DEF Sections
    <3>3. o[k].event = "blank" => k + 1 \in 1..Len(o) /\ k - 1 \in 1..Len(o)
      BY <1>1, <3>1, <3>2 DEF InPlace
    <3>4. o[k].event = "label" /\ k # 1 => k - 1 \in 1..Len(o)
      BY <1>1, <3>1
    <3>5. ASSUME o[k].event \in {"rows", "total"}, o[k].dir # 0
          PROVE  IF LabelsOf(p) = {}
                 THEN \A j \in DOMAIN p : p[j].dir = p[k].dir
                 ELSE \E j \in LabelsOf(p) : /\ j < k /\ p[j].dir = p[k].dir
                                             /\ \A i \in LabelsOf(p) : i <= j \/ i > k
      <4>1. CASE LabelsOf(o) = {}
        BY <1>1, <1>2, <1>3, <3>1, <4>1 DEF Current
      <4>2. CASE LabelsOf(o) # {}
        <5>1. PICK j \in LabelsOf(o) : /\ j < k /\ o[j].dir = o[k].dir
                                       /\ \A i \in LabelsOf(o) : i <= j \/ i > k
          BY <3>2, <3>5, <4>2 DEF InPlace
        <5>2. p[j] = o[j]
          BY <1>1, <5>1 DEF LabelsOf
        <5> QED BY <1>2, <3>1, <4>2, <5>1, <5>2
      <4> QED BY <4>1, <4>2
    <3>6. o[k].event = "blank" =>
             /\ k > 1 /\ k < Len(p)
             /\ p[k + 1].event = "label" /\ p[k - 1].event # "blank"
      BY <1>1, <3>1, <3>2, <3>3 DEF InPlace
    <3>7. o[k].event = "label" => k = 1 \/ p[k - 1].event = "blank"
      BY <1>1, <3>2, <3>4 DEF InPlace
    <3>8. o[k].event = "rows" /\ o[k].dir = 0 => k = 1
      BY <3>2 DEF InPlace
    <3> QED BY <3>1, <3>5, <3>6, <3>7, <3>8, Zenon DEF InPlace
  <2> QED BY <2>1, <2>2
<1> QED BY <1>2, <1>3, <1>4, <1>5 DEF Sections

\* A blank line and a label begin the section of the next directory, where there
\* is something to tell it from.
LEMMA LabelInPlace ==
    ASSUME NEW S, NEW o \in Seq(S), NEW p \in Seq(S), NEW d, Sections(o),
           LabelsOf(o) # {} \/ Fresh(o), o # << >>,
           Len(p) = Len(o) + 2, \A k \in DOMAIN o : p[k] = o[k],
           p[Len(o) + 1].event = "blank",
           p[Len(o) + 2].event = "label", p[Len(o) + 2].dir = d
    PROVE  Sections(p) /\ Current(p, d) /\ LabelsOf(p) # {}
<1>1. /\ DOMAIN o = 1..Len(o) /\ DOMAIN p = 1..(Len(o) + 2) /\ Len(o) \in Nat /\ Len(o) >= 1
      /\ \A k \in 1..Len(o) : p[k] = o[k]
  OBVIOUS
<1>2. LabelsOf(p) = LabelsOf(o) \cup {Len(o) + 2}
  <2>1. \A k \in DOMAIN p : k \in DOMAIN o \/ k = Len(o) + 1 \/ k = Len(o) + 2
    BY <1>1
  <2>2. Len(o) + 2 \in DOMAIN p /\ DOMAIN o \subseteq DOMAIN p
    BY <1>1
  <2>3. p[Len(o) + 1].event # "label"
    OBVIOUS
  <2> QED BY <2>1, <2>2, <2>3 DEF LabelsOf
<1>3. \A i \in LabelsOf(p) : i <= Len(o) + 2
  BY <1>1 DEF LabelsOf
<1>4. Current(p, d)
  BY <1>2, <1>3 DEF Current
<1>5. EndsWell(p)
  <2>1. p[Len(p)].event # "blank"
    BY <1>1
  <2> QED BY <2>1 DEF EndsWell
<1>6. ASSUME NEW k \in DOMAIN p PROVE InPlace(p, k)
  <2>1. CASE k = Len(o) + 2
    <3>1. p[k - 1].event = "blank" /\ p[k].event = "label"
      BY <1>1, <2>1
    <3> QED BY <3>1 DEF InPlace
  <2>2. CASE k = Len(o) + 1
    <3>1. /\ p[k].event = "blank" /\ p[k + 1].event = "label"
          /\ k > 1 /\ k < Len(p)
      BY <1>1, <2>2
    <3>2. p[k - 1].event # "blank"
      <4>1. k - 1 = Len(o) /\ Len(o) \in DOMAIN o
        BY <1>1, <2>2
      <4> QED BY <1>1, <4>1 DEF Sections, EndsWell
    <3> QED BY <3>1, <3>2 DEF InPlace
  <2>3. CASE k \in 1..Len(o)
    <3>1. p[k] = o[k] /\ InPlace(o, k)
      BY <1>1, <2>3 DEF Sections
    <3>2. o[k].event = "blank" =>
             /\ k > 1 /\ k < Len(p)
             /\ p[k + 1].event = "label" /\ p[k - 1].event # "blank"
      <4> SUFFICES ASSUME o[k].event = "blank"
                   PROVE  /\ k > 1 /\ k < Len(p)
                          /\ p[k + 1].event = "label" /\ p[k - 1].event # "blank"
        OBVIOUS
      <4>1. k + 1 \in 1..Len(o) /\ k - 1 \in 1..Len(o)
        BY <1>1, <2>3, <3>1 DEF InPlace
      <4> QED BY <1>1, <3>1, <4>1 DEF InPlace
    <3>3. o[k].event = "label" => k = 1 \/ p[k - 1].event = "blank"
      <4> SUFFICES ASSUME o[k].event = "label", k # 1 PROVE p[k - 1].event = "blank"
        OBVIOUS
      <4>1. k - 1 \in 1..Len(o)
        BY <1>1, <2>3
      <4> QED BY <1>1, <3>1, <4>1 DEF InPlace
    <3>4. o[k].event = "rows" /\ o[k].dir = 0 => k = 1
      BY <3>1 DEF InPlace
    <3>5. ASSUME o[k].event \in {"rows", "total"}, o[k].dir # 0
          PROVE  \E j \in LabelsOf(p) : /\ j < k /\ p[j].dir = p[k].dir
                                        /\ \A i \in LabelsOf(p) : i <= j \/ i > k
      <4>1. LabelsOf(o) # {}
        BY <1>1, <2>3, <3>5 DEF Fresh
      <4>2. PICK j \in LabelsOf(o) : /\ j < k /\ o[j].dir = o[k].dir
                                     /\ \A i \in LabelsOf(o) : i <= j \/ i > k
        BY <3>1, <3>5, <4>1 DEF InPlace
      <4>3. p[j] = o[j] /\ j \in LabelsOf(p) /\ Len(o) + 2 > k
        BY <1>1, <1>2, <2>3, <4>2 DEF LabelsOf
      <4> QED BY <1>2, <3>1, <4>2, <4>3
    <3> QED BY <1>2, <3>1, <3>2, <3>3, <3>4, <3>5, Zenon DEF InPlace
  <2>4. k \in 1..Len(o) \/ k = Len(o) + 1 \/ k = Len(o) + 2
    BY <1>1
  <2> QED BY <2>1, <2>2, <2>3, <2>4
<1> QED BY <1>2, <1>4, <1>5, <1>6 DEF Sections

\* The first event of the output needs no blank line before it.
LEMMA FirstInPlace ==
    ASSUME NEW p, DOMAIN p = {1}, Len(p) = 1,
           \/ p[1].event = "label"
           \/ p[1].event = "rows" /\ p[1].dir = 0
    PROVE  /\ Sections(p)
           /\ p[1].event = "label" => Current(p, p[1].dir) /\ LabelsOf(p) # {}
           /\ p[1].event = "rows" => Fresh(p)
<1>1. p[1].event = "label" => LabelsOf(p) = {1}
  BY DEF LabelsOf
<1>2. p[1].event = "label" => Current(p, p[1].dir) /\ LabelsOf(p) # {}
  BY <1>1 DEF Current
<1>3. InPlace(p, 1)
  BY DEF InPlace
<1>4. EndsWell(p)
  BY DEF EndsWell
<1> QED BY <1>2, <1>3, <1>4 DEF Sections, Fresh

\* Nothing is in its place, and belongs to whatever comes first.
LEMMA EmptyInPlace ==
    Sections(<< >>) /\ Fresh(<< >>) /\ \A d : Current(<< >>, d)
BY DEF Sections, EndsWell, Fresh, Current, LabelsOf

\* What main()'s frame says of the output.
MainInv ==
    /\ pc \in {"operand", "islinktodir"} \/ (pc = "files" /\ Len(stack) = 1) =>
         out = << >> /\ stack[1].listed = 0
    /\ pc = "files" /\ Len(stack) = 1 => (stack[1].first <=> stack[1].files = << >>)
    /\ pc = "dirs" /\ Len(stack) = 1 /\ stack[1].listed = 0 =>
         (stack[1].first <=> out = << >>) /\ Fresh(out)
    /\ stack # << >> /\ stack[1].listed # 0 =>
         \/ LabelsOf(out) # {}
         \/ Len(stack[1].dirs) = 1 /\ stack[1].first /\ ~opts.recursive

\* Only a recursive listing gets below the operands, and every listing there
\* comes after another.
NestedInv ==
    /\ Len(stack) >= 3 => opts.recursive
    /\ pc = "dirs" /\ Len(stack) >= 2 => opts.recursive
    /\ \A k \in 2..Len(stack) : ~stack[k].first

CurrentInv ==
    Len(stack) >= 2 /\ pc \in {"open", "read", "entry", "files"} =>
        Current(out, Top.dir)

SectionInv == Sections(out) /\ MainInv /\ NestedInv /\ CurrentInv

\* A step that changes at most the fields of the top frame that the sections do
\* not depend on.
TopAlike(f) == f.dir = Top.dir /\ f.listed = Top.listed /\ f.first = Top.first

LEMMA TopIs ==
    ASSUME TypeInv, pc # "done", NEW f, stack' = WithTop(f)
    PROVE  /\ Len(stack') = Len(stack) /\ stack'[Len(stack)] = f
           /\ \A i \in 1..Len(stack) - 1 : stack'[i] = stack[i]
<1> DEFINE S == Frames(Len(heap)) \cup {f}
<1>1. stack # <<>> /\ stack \in Seq(Frames(Len(heap)))
  BY TopFacts DEF TypeInv, Parts, HeapType
<1>2. Frames(Len(heap)) \subseteq S /\ f \in S
  BY Zenon
<1>3. stack \in Seq(S)
  BY <1>1, <1>2, SeqMonotonic, Zenon
<1> HIDE DEF S
<1> QED BY <1>1, <1>2, <1>3, WithTopIs

LEMMA AlikeKeepsNested ==
    ASSUME TypeInv, NestedInv, pc # "done", pc' # "dirs", opts' = opts,
           stack' = stack \/ \E f : stack' = WithTop(f) /\ TopAlike(f)
    PROVE  /\ NestedInv'
           /\ Len(stack') = Len(stack) /\ Top'.dir = Top.dir
           /\ stack'[1].listed = stack[1].listed
           /\ Len(stack) >= 2 => stack'[1] = stack[1]
<1>1. Len(stack) \in Nat \ {0}
  BY TopFacts, Zenon
<1>2. CASE stack' = stack
  BY <1>2 DEF NestedInv, Top
<1>3. ASSUME NEW f, stack' = WithTop(f), TopAlike(f)
      PROVE  /\ NestedInv'
             /\ Len(stack') = Len(stack) /\ Top'.dir = Top.dir
             /\ stack'[1].listed = stack[1].listed
             /\ Len(stack) >= 2 => stack'[1] = stack[1]
  <2>1. /\ Len(stack') = Len(stack) /\ stack'[Len(stack)] = f
        /\ \A i \in 1..Len(stack) - 1 : stack'[i] = stack[i]
    BY <1>3, TopIs, Zenon
  <2>2. \A k \in 1..Len(stack) : k = Len(stack) \/ k \in 1..Len(stack) - 1
    BY <1>1
  <2>3. \A k \in 1..Len(stack) : stack'[k].listed = stack[k].listed
                                 /\ stack'[k].first = stack[k].first
    BY <1>3, <2>1, <2>2 DEF TopAlike, Top
  <2>4. 1 \in 1..Len(stack) /\ (Len(stack) >= 2 => 1 \in 1..Len(stack) - 1)
    BY <1>1
  <2>5. NestedInv'
    <3>1. \A k \in 2..Len(stack) : k \in 1..Len(stack)
      BY <1>1
    <3> QED BY <2>1, <2>3, <3>1 DEF NestedInv
  <2>6. Top'.dir = Top.dir
    BY <1>3, <2>1 DEF Top, TopAlike
  <2> QED BY <2>1, <2>3, <2>4, <2>5, <2>6
<1> QED BY <1>2, <1>3

\* A step inside listdir() leaves main()'s frame alone.
LEMMA InsideKeepsMain ==
    ASSUME TypeInv, MainInv, Len(stack) >= 2, stack'[1] = stack[1], opts' = opts,
           LabelsOf(out) # {} => LabelsOf(out') # {},
           pc' \notin {"operand", "islinktodir"}, pc' = "files" => Len(stack') # 1
    PROVE  MainInv'
<1>1. stack # << >> /\ stack[1].listed # 0
  <2>1. stack \in Seq(Frames(Len(heap))) /\ Len(stack) \in Nat
    BY DEF TypeInv, Parts, HeapType
  <2>2. 2 \in 2..Len(stack)
    BY <2>1
  <2>3. stack[1].listed \in 1..Len(stack[1].dirs)
    BY <2>2 DEF TypeInv, CallsInv
  <2> QED BY <2>1, <2>3
<1> QED BY <1>1 DEF MainInv

\* The lists that an operand and an entry go on.
LEMMA OperandGoesOn ==
    ASSUME Operand
    PROVE  \/ stack' = stack
           \/ stack' = WithTop([Top EXCEPT !.dirs = Append(Top.dirs, Len(heap) + 1)])
           \/ stack' = WithTop([Top EXCEPT !.files = Append(Top.files, Len(heap) + 1)])
<1>1. PICK st : PlaceOperand(operands[looked + 1], st)
  BY DEF Operand
<1> QED BY <1>1 DEF PlaceOperand

LEMMA EntryGoesOn ==
    ASSUME StatEntry
    PROVE  \/ stack' = stack
           \/ stack' = WithTop([Top EXCEPT !.files = Append(Top.files, Len(heap)),
                                          !.dirs = Top.dirs])
           \/ stack' = WithTop([Top EXCEPT !.files = Append(Top.files, Len(heap)),
                                          !.dirs = Append(Top.dirs, Len(heap))])
<1>1. PICK seen, st : PlaceEntry(seen, st)
  BY DEF StatEntry
<1>2. CASE opts.dirsonly /\ seen # "dir"
  BY <1>1, <1>2 DEF PlaceEntry
<1>3. CASE ~(opts.dirsonly /\ seen # "dir")
  <2>1. PICK b \in BOOLEAN :
           stack' = WithTop([Top EXCEPT !.files = Append(Top.files, Len(heap)),
                                        !.dirs = IF b THEN Append(Top.dirs, Len(heap))
                                                 ELSE Top.dirs])
    BY <1>1, <1>3 DEF PlaceEntry, Cur
  <2> QED BY <2>1
<1> QED BY <1>2, <1>3

\* main() looks at its operands before it prints anything.
LEMMA OperandsKeepSections ==
    ASSUME TypeInv, SectionInv, Operand \/ IsLinkToDir
    PROVE  SectionInv'
<1>1. /\ pc \in {"operand", "islinktodir"} /\ pc' \in {"operand", "islinktodir"}
      /\ pc # "done" /\ pc' # "dirs" /\ opts' = opts /\ out' = out
  BY DEF Operand, PlaceOperand, IsLinkToDir, world
<1>2. Len(stack) = 1 /\ Top \in Frames(Len(heap))
  BY <1>1, TopFacts DEF TypeInv, PcInv
<1>3. /\ \A s : TopAlike([Top EXCEPT !.files = s])
      /\ \A s : TopAlike([Top EXCEPT !.dirs = s])
  BY <1>2 DEF TopAlike, Frames
<1>4. stack' = stack \/ \E f : stack' = WithTop(f) /\ TopAlike(f)
  <2>1. CASE Operand
    <3>1. \/ stack' = stack
          \/ stack' = WithTop([Top EXCEPT !.dirs = Append(Top.dirs, Len(heap) + 1)])
          \/ stack' = WithTop([Top EXCEPT !.files = Append(Top.files, Len(heap) + 1)])
      BY <2>1, OperandGoesOn
    <3> QED BY <1>3, <3>1, Zenon
  <2>2. CASE IsLinkToDir
    <3>1. \/ stack' = WithTop([Top EXCEPT !.dirs = Append(Top.dirs, Cur)])
          \/ stack' = WithTop([Top EXCEPT !.files = Append(Top.files, Cur)])
      BY <2>2 DEF IsLinkToDir
    <3> QED BY <1>3, <3>1, Zenon
  <2> QED BY <2>1, <2>2
<1>5. NestedInv' /\ Len(stack') = Len(stack) /\ stack'[1].listed = stack[1].listed
  BY <1>1, <1>4, AlikeKeepsNested DEF SectionInv
<1>6. out = << >> /\ stack[1].listed = 0
  BY <1>1 DEF SectionInv, MainInv
<1>7. Sections(out') /\ MainInv' /\ CurrentInv'
  BY <1>1, <1>2, <1>5, <1>6, EmptyInPlace DEF MainInv, CurrentInv
<1> QED BY <1>5, <1>7 DEF SectionInv

LEMMA OperandsDoneKeepsSections ==
    ASSUME TypeInv, SectionInv, OperandsDone
    PROVE  SectionInv'
<1>1. /\ pc = "operand" /\ pc # "done" /\ pc' = "files" /\ opts' = opts /\ out' = out
      /\ stack' = WithTop([Top EXCEPT !.first = (Top.files = << >>)])
  BY DEF OperandsDone, world
<1>2. Len(stack) = 1 /\ Top \in Frames(Len(heap)) /\ Top = stack[1]
  BY <1>1, TopFacts DEF TypeInv, PcInv, Top
<1>3. PICK f : f = [Top EXCEPT !.first = (Top.files = << >>)]
  OBVIOUS
<1>4. (f.first <=> f.files = << >>) /\ f.listed = Top.listed
  BY <1>2, <1>3 DEF Frames
<1>5. Len(stack') = 1 /\ stack'[1] = f
  <2>1. Len(stack') = Len(stack) /\ stack'[Len(stack)] = f
    BY <1>1, <1>3, TopIs, Zenon
  <2> QED BY <1>2, <2>1
<1>6. out = << >> /\ stack[1].listed = 0
  BY <1>1 DEF SectionInv, MainInv
<1>7. MainInv'
  BY <1>1, <1>2, <1>4, <1>5, <1>6, Zenon DEF MainInv
<1>8. NestedInv' /\ CurrentInv' /\ Sections(out')
  BY <1>1, <1>5, <1>6, EmptyInPlace DEF NestedInv, CurrentInv
<1> QED BY <1>7, <1>8 DEF SectionInv

\* Looking at a file prints nothing and calls nothing.
LEMMA LooksKeepSections ==
    ASSUME SectionInv, UNCHANGED <<stack, pc, out, opts>>
    PROVE  SectionInv'
BY DEF SectionInv, MainInv, NestedInv, CurrentInv, Top

\* The first rows of all are of main()'s files.
LEMMA MainPrintsFiles ==
    ASSUME TypeInv, SectionInv, PrintFiles, InMain
    PROVE  SectionInv'
<1>1. /\ pc = "files" /\ pc # "done" /\ pc' = "dirs" /\ opts' = opts /\ Len(stack) = 1
      /\ stack' = WithTop([Top EXCEPT !.files = << >>])
  BY DEF PrintFiles, world, InMain
<1>2. Top \in Frames(Len(heap)) /\ Top = stack[1]
  BY <1>1, TopFacts DEF Top
<1>3. PICK f : f = [Top EXCEPT !.files = << >>]
  OBVIOUS
<1>4. f.first = Top.first /\ f.listed = Top.listed
  BY <1>2, <1>3 DEF Frames
<1>5. Len(stack') = 1 /\ stack'[1] = f
  <2>1. Len(stack') = Len(stack) /\ stack'[Len(stack)] = f
    BY <1>1, <1>3, TopIs, Zenon
  <2> QED BY <1>1, <2>1
<1>6. out = << >> /\ stack[1].listed = 0 /\ (Top.first <=> Top.files = << >>)
  BY <1>1, <1>2 DEF SectionInv, MainInv
<1>7. Sections(out') /\ Fresh(out') /\ (Top.first <=> out' = << >>)
  <2>1. CASE Top.files = << >>
    <3>1. out' = << >>
      BY <1>6, <2>1 DEF PrintFiles
    <3> QED BY <1>6, <2>1, <3>1, EmptyInPlace, Zenon
  <2>2. CASE Top.files # << >>
    <3>1. PICK x : out' = Append(<< >>, x) /\ x.event = "rows" /\ x.dir = Top.dir
      <4>0. PICK rows : out' = Append(out, [event |-> "rows", dir |-> Top.dir,
                                            rows |-> rows])
        BY <2>2 DEF PrintFiles
      <4> DEFINE x == [event |-> "rows", dir |-> Top.dir, rows |-> rows]
      <4>1. out' = Append(<< >>, x)
        BY <1>6, <4>0
      <4>2. x.event = "rows" /\ x.dir = Top.dir
        OBVIOUS
      <4> QED BY <4>1, <4>2, Zenon
    <3>2. Top.dir = 0
      BY <1>1, <1>2 DEF TypeInv, CallsInv
    <3>3. DOMAIN out' = {1} /\ Len(out') = 1 /\ out'[1] = x
      <4>1. << >> \in Seq({x}) /\ Len(<< >>) = 0
        OBVIOUS
      <4> QED BY <3>1, <4>1, AppendProperties
    <3>4. out'[1].event = "rows" /\ out'[1].dir = 0 /\ out' # << >>
      BY <3>1, <3>2, <3>3
    <3>5. Sections(out') /\ Fresh(out')
      <4> DEFINE p == out'
      <4>1. DOMAIN p = {1} /\ Len(p) = 1 /\ p[1].event = "rows" /\ p[1].dir = 0
        BY <3>3, <3>4
      <4> HIDE DEF p
      <4>2. Sections(p) /\ Fresh(p)
        BY <4>1, FirstInPlace, Zenon
      <4> QED BY <4>2 DEF p
    <3> QED BY <1>6, <2>2, <3>4, <3>5, Zenon
  <2> QED BY <2>1, <2>2
<1>8. MainInv'
  <2>1. pc' = "dirs" /\ stack'[1].listed = 0 /\ stack'[1].first = Top.first
    BY <1>1, <1>2, <1>4, <1>5, <1>6
  <2> QED BY <1>7, <2>1, Zenon DEF MainInv
<1>9. CurrentInv'
  BY <1>1, <1>5 DEF CurrentInv
<1>10. NestedInv'
  <2>1. 2..Len(stack') = {} /\ ~(Len(stack') >= 2) /\ ~(Len(stack') >= 3)
    BY <1>5
  <2> QED BY <2>1, Zenon DEF NestedInv
<1> QED BY <1>7, <1>8, <1>9, <1>10 DEF SectionInv

\* One more event of the directory that is listed.
LEMMA SectionGrows ==
    ASSUME TypeInv, TypeInv', SectionInv, Len(stack) >= 2,
           pc \in {"open", "read", "entry", "files"}, NEW x, x.event \in {"rows", "total"},
           x.dir = Top.dir, out' = Append(out, x) \/ out' = out
    PROVE  /\ Sections(out') /\ Current(out', Top.dir)
           /\ LabelsOf(out) # {} => LabelsOf(out') # {}
<1>1. Sections(out) /\ Current(out, Top.dir)
  BY DEF SectionInv, CurrentInv
<1>2. CASE out' = out
  BY <1>1, <1>2
<1>3. CASE out' = Append(out, x)
  <2> DEFINE S == Events(Len(heap)) \cup Events(Len(heap'))
  <2>1. out \in Seq(Events(Len(heap))) /\ out' \in Seq(Events(Len(heap')))
    BY DEF TypeInv, Parts, OutType
  <2>2. Events(Len(heap)) \subseteq S /\ Events(Len(heap')) \subseteq S
    OBVIOUS
  <2> HIDE DEF S
  <2>3. out \in Seq(S) /\ out' \in Seq(S)
    BY <2>1, <2>2, SeqMonotonic, Zenon
  <2>4. Longer(out, out', x)
    BY <1>3, <2>3 DEF Longer
  <2>5. Top.dir # 0
    <3>1. stack # << >>
      BY DEF TypeInv, Parts, HeapType
    <3>2. Top.dir \in 1..Len(heap) /\ Len(heap) \in Nat
      BY <3>1, TopFacts
    <3> QED BY <3>2
  <2> QED BY <1>1, <2>3, <2>4, <2>5, RowsInPlace, Zenon
<1> QED BY <1>2, <1>3

LEMMA ListdirPrintsFiles ==
    ASSUME TypeInv, TypeInv', SectionInv, PrintFiles, ~InMain
    PROVE  SectionInv'
<1>1. /\ pc = "files" /\ pc # "done" /\ pc' \in {"dirs", "return"} /\ opts' = opts
      /\ stack' = stack /\ (pc' = "dirs" => opts.recursive)
  BY DEF PrintFiles, world
<1>2. Len(stack) \in Nat /\ Len(stack) >= 2
  <2>1. Len(stack) \in Nat \ {0} /\ Len(stack) # 1
    BY <1>1, TopFacts DEF InMain
  <2> QED BY <2>1
<1>3. PICK x : /\ x.event \in {"rows", "total"} /\ x.dir = Top.dir
               /\ out' = Append(out, x) \/ out' = out
  <2>0. PICK rows : \/ out' = out
                    \/ out' = Append(out, [event |-> "rows", dir |-> Top.dir, rows |-> rows])
    BY DEF PrintFiles
  <2> DEFINE x == [event |-> "rows", dir |-> Top.dir, rows |-> rows]
  <2>1. out' = Append(out, x) \/ out' = out
    BY <2>0
  <2>2. x.event \in {"rows", "total"} /\ x.dir = Top.dir
    OBVIOUS
  <2> QED BY <2>1, <2>2, Zenon
<1>4. Sections(out') /\ (LabelsOf(out) # {} => LabelsOf(out') # {})
  BY <1>1, <1>2, <1>3, SectionGrows
<1>5. MainInv'
  BY <1>1, <1>2, <1>4, InsideKeepsMain DEF SectionInv
<1>6. NestedInv' /\ CurrentInv'
  BY <1>1 DEF SectionInv, NestedInv, CurrentInv
<1> QED BY <1>4, <1>5, <1>6 DEF SectionInv

LEMMA CloseStreamKeepsSections ==
    ASSUME TypeInv, TypeInv', SectionInv, ReadEnd \/ ReadFault \/ ReadShortage
    PROVE  SectionInv'
<1>0. CloseStream /\ pc = "read" /\ UNCHANGED <<world, stack>>
  BY DEF ReadEnd, ReadFault, ReadShortage
<1>1. pc = "read" /\ pc' = "files" /\ opts' = opts /\ stack' = stack
  BY <1>0 DEF CloseStream, world
<1>2. Len(stack) >= 2 /\ Len(stack) \in Nat /\ Len(stack) # 1
  <2>1. Len(stack) >= 2 /\ Len(stack) \in Nat
    BY <1>1 DEF TypeInv, PcInv, Parts, HeapType
  <2> QED BY <2>1, TwoIsNotOne, Zenon
<1>3. PICK x : /\ x.event \in {"rows", "total"} /\ x.dir = Top.dir
               /\ out' = Append(out, x) \/ out' = out
  <2> DEFINE x == [event |-> "total", dir |-> Top.dir, blocks |-> total]
  <2>1. out' = Append(out, x) \/ out' = out
    BY <1>0 DEF CloseStream
  <2>2. x.event \in {"rows", "total"} /\ x.dir = Top.dir
    OBVIOUS
  <2> QED BY <2>1, <2>2, Zenon
<1>4. /\ Sections(out') /\ Current(out', Top.dir)
      /\ LabelsOf(out) # {} => LabelsOf(out') # {}
  BY <1>1, <1>2, <1>3, SectionGrows
<1>5. MainInv'
  BY <1>1, <1>2, <1>4, InsideKeepsMain DEF SectionInv
<1>6. NestedInv'
  BY <1>1 DEF SectionInv, NestedInv
<1>7. Top' = Top
  BY <1>1 DEF Top
<1>8. CurrentInv'
  BY <1>4, <1>7 DEF CurrentInv
<1> QED BY <1>4, <1>5, <1>6, <1>8 DEF SectionInv

\* An entry that is read goes on the lists of the directory.
LEMMA EntriesKeepSections ==
    ASSUME TypeInv, SectionInv, ReadEntry \/ StatEntry
    PROVE  SectionInv'
<1>1. /\ pc \in {"read", "entry"} /\ pc' \in {"read", "entry"}
      /\ pc # "done" /\ pc' # "dirs" /\ opts' = opts /\ out' = out
  BY DEF ReadEntry, StatEntry, world
<1>2. /\ Len(stack) >= 2 /\ Len(stack) \in Nat /\ Len(stack) # 1
      /\ Top \in Frames(Len(heap))
  <2>1. Len(stack) \in Nat /\ Len(stack) >= 2
    BY <1>1 DEF TypeInv, PcInv, Parts, HeapType
  <2>2. Top \in Frames(Len(heap))
    BY <1>1, TopFacts
  <2> QED BY <2>1, <2>2, TwoIsNotOne, Zenon
<1>3. /\ \A s : TopAlike([Top EXCEPT !.files = s])
      /\ \A s, d : TopAlike([Top EXCEPT !.files = s, !.dirs = d])
  BY <1>2 DEF TopAlike, Frames
<1>4. stack' = stack \/ \E f : stack' = WithTop(f) /\ TopAlike(f)
  <2>1. CASE ReadEntry
    <3>1. \/ stack' = stack
          \/ stack' = WithTop([Top EXCEPT !.files = Append(Top.files, Len(heap) + 1)])
      BY <2>1, ReadEntrySteps
    <3> QED BY <1>3, <3>1, Zenon
  <2>2. CASE StatEntry
    <3>1. \/ stack' = stack
          \/ \E s, d : stack' = WithTop([Top EXCEPT !.files = s, !.dirs = d])
      BY <2>2, EntryGoesOn, Zenon
    <3> QED BY <1>3, <3>1, Zenon
  <2> QED BY <2>1, <2>2
<1>5. /\ NestedInv' /\ Len(stack') = Len(stack) /\ Top'.dir = Top.dir
      /\ stack'[1] = stack[1]
  BY <1>1, <1>2, <1>4, AlikeKeepsNested DEF SectionInv
<1>6. MainInv'
  BY <1>1, <1>2, <1>5, InsideKeepsMain DEF SectionInv
<1>7. CurrentInv' /\ Sections(out')
  BY <1>1, <1>2, <1>5 DEF SectionInv, CurrentInv
<1> QED BY <1>5, <1>6, <1>7 DEF SectionInv

\* listdir() returns to a listdirs() that has listed one more directory.
LEMMA PopKeepsSections ==
    ASSUME TypeInv, SectionInv, Len(stack) >= 2, pc # "done", stack' = Pop,
           pc' = "dirs", UNCHANGED <<out, opts>>
    PROVE  SectionInv'
<1>1. Len(stack) \in Nat /\ Len(stack') = Len(stack) - 1
      /\ \A i \in 1..Len(stack) - 1 : stack'[i] = stack[i]
  BY PopLists, TopFacts
<1>2. stack'[1] = stack[1]
  BY <1>1
<1>3. MainInv'
  BY <1>2, InsideKeepsMain DEF SectionInv
<1>4. NestedInv'
  <2>1. Len(stack') >= 2 => Len(stack) >= 3
    BY <1>1
  <2>2. \A k \in 2..Len(stack') : k \in 2..Len(stack) /\ stack'[k] = stack[k]
    BY <1>1
  <2> QED BY <1>1, <2>1, <2>2 DEF SectionInv, NestedInv
<1>5. CurrentInv' /\ Sections(out')
  BY DEF SectionInv, CurrentInv
<1> QED BY <1>3, <1>4, <1>5 DEF SectionInv

\* What listdirs() prints before it calls listdir(): nothing, where a single
\* directory is all there is to list; a label, where nothing was printed; or else
\* a blank line and a label.
Announced(id) ==
    \/ Top.first /\ Top.listed = 0 /\ ~NeedLabel /\ out' = out
    \/ Top.first /\ Top.listed = 0 /\ NeedLabel
       /\ out' = Append(out, [event |-> "label", dir |-> id])
    \/ (~Top.first \/ Top.listed > 0) /\ NeedLabel
       /\ out' = Append(Append(out, [event |-> "blank"]), [event |-> "label", dir |-> id])

LEMMA NoEvents == ASSUME NEW S, NEW o \in Seq(S) PROVE o \o << >> = o
  OBVIOUS

LEMMA OneEvent == ASSUME NEW S, NEW o \in Seq(S), NEW x PROVE o \o << x >> = Append(o, x)
<1>1. o \in Seq(S \cup {x}) /\ << x >> \in Seq(S \cup {x})
  OBVIOUS
<1>2. \A i \in 1..Len(o) + 1 : (o \o << x >>)[i] = Append(o, x)[i]
  BY <1>1
<1>3. Len(o \o << x >>) = Len(o) + 1 /\ Len(Append(o, x)) = Len(o) + 1
  BY <1>1
<1>4. o \o << x >> \in Seq(S \cup {x}) /\ Append(o, x) \in Seq(S \cup {x})
  BY <1>1
<1> QED BY <1>2, <1>3, <1>4

LEMMA NextDirAnnounces ==
    ASSUME TypeInv, NextDir
    PROVE  Announced(Top.dirs[Top.listed + 1])
<1> DEFINE n == Top.listed + 1
           id == Top.dirs[n]
           blank == IF n > 1 \/ ~Top.first THEN <<[event |-> "blank"]>> ELSE << >>
           label == IF NeedLabel THEN <<[event |-> "label", dir |-> id]>> ELSE << >>
<1>1. pc # "done" /\ Top.listed < Len(Top.dirs) /\ out' = out \o blank \o label
  BY DEF NextDir
<1>2. out \in Seq(Events(Len(heap)))
  BY DEF TypeInv, Parts, OutType
<1>3. Top.listed \in Nat /\ Len(Top.dirs) \in Nat
  BY <1>1, TopFacts
<1>4. \A x : out \o << x >> = Append(out, x)
  BY <1>2, OneEvent
<1>5. \A x, y : out \o << x >> \o << y >> = Append(Append(out, x), y)
  <2> TAKE x, y
  <2> DEFINE S == Events(Len(heap)) \cup {x}
  <2>1. Append(out, x) \in Seq(S)
    <3>1. out \in Seq(S)
      BY <1>2, SeqMonotonic
    <3> HIDE DEF S
    <3>2. x \in S
      BY DEF S
    <3> QED BY <3>1, <3>2
  <2> HIDE DEF S
  <2>2. Append(out, x) \o << y >> = Append(Append(out, x), y)
    BY <2>1, OneEvent, Zenon
  <2> QED BY <1>4, <2>2
<1>6. out \o << >> = out
  BY <1>2, NoEvents
<1>7. CASE Top.first /\ Top.listed = 0
  <2>1. blank = << >>
    BY <1>7
  <2>2. CASE NeedLabel
    <3>1. label = <<[event |-> "label", dir |-> id]>>
      BY <2>2
    <3>2. out' = Append(out, [event |-> "label", dir |-> id])
      BY <1>1, <1>4, <1>6, <2>1, <3>1, Zenon
    <3> QED BY <1>7, <2>2, <3>2, Zenon DEF Announced
  <2>3. CASE ~NeedLabel
    <3>1. label = << >>
      BY <2>3
    <3>2. out' = out
      BY <1>1, <1>6, <2>1, <3>1, Zenon
    <3> QED BY <1>7, <2>3, <3>2, Zenon DEF Announced
  <2> QED BY <2>2, <2>3
<1>8. CASE ~Top.first \/ Top.listed > 0
  <2>1. NeedLabel
    BY <1>1, <1>3, <1>8 DEF NeedLabel
  <2>2. blank = <<[event |-> "blank"]>> /\ label = <<[event |-> "label", dir |-> id]>>
    BY <1>3, <1>8, <2>1
  <2>3. out' = Append(Append(out, [event |-> "blank"]), [event |-> "label", dir |-> id])
    BY <1>1, <1>5, <2>2, Zenon
  <2> QED BY <1>8, <2>1, <2>3, Zenon DEF Announced
<1> QED BY <1>3, <1>7, <1>8

\* Where there is something to tell the next directory from, there is output.
LEMMA AfterSomething ==
    ASSUME TypeInv, SectionInv, NextDir
    PROVE  /\ Top.first /\ Top.listed = 0 => Len(stack) = 1 /\ out = << >>
           /\ ~(Top.first /\ Top.listed = 0) =>
                out # << >> /\ (LabelsOf(out) # {} \/ Fresh(out))
           /\ Len(stack) >= 2 => NeedLabel
<1>1. pc = "dirs" /\ pc # "done" /\ Top.listed < Len(Top.dirs)
  BY DEF NextDir
<1>2. /\ stack # << >> /\ Len(stack) \in Nat \ {0} /\ Top.listed \in Nat
      /\ Len(Top.dirs) \in Nat
  BY <1>1, TopFacts
<1>3. ASSUME LabelsOf(out) # {} PROVE out # << >>
  BY <1>3 DEF LabelsOf
<1>4. CASE Len(stack) = 1
  <2>1. Top = stack[1]
    BY <1>4 DEF Top
  <2>2. CASE Top.listed = 0
    BY <1>1, <1>2, <1>4, <2>1, <2>2 DEF SectionInv, MainInv
  <2>3. CASE Top.listed # 0
    <3>1. Len(Top.dirs) # 1
      BY <1>1, <1>2, <2>3
    <3>2. LabelsOf(out) # {}
      BY <1>2, <2>1, <2>3, <3>1 DEF SectionInv, MainInv
    <3> QED BY <1>3, <1>4, <2>3, <3>2
  <2> QED BY <2>2, <2>3
<1>5. CASE Len(stack) >= 2
  <2>1. Len(stack) \in 2..Len(stack) /\ 2 \in 2..Len(stack)
    BY <1>2, <1>5
  <2>2. ~Top.first /\ opts.recursive
    BY <1>1, <1>5, <2>1 DEF SectionInv, NestedInv, Top
  <2>3. stack[1].listed # 0
    <3>1. stack[1].listed \in 1..Len(stack[1].dirs)
      BY <2>1 DEF TypeInv, CallsInv
    <3> QED BY <3>1
  <2>4. LabelsOf(out) # {}
    BY <1>2, <2>2, <2>3 DEF SectionInv, MainInv
  <2> QED BY <1>3, <2>2, <2>4 DEF NeedLabel
<1>6. Len(stack) = 1 \/ Len(stack) >= 2
  BY <1>2, OneOrMore, Zenon
<1> QED BY <1>4, <1>5, <1>6, Zenon

LEMMA AnnouncedInPlace ==
    ASSUME TypeInv, SectionInv, NextDir, NEW id, Announced(id)
    PROVE  /\ Sections(out') /\ Current(out', id)
           /\ NeedLabel => LabelsOf(out') # {}
<1> DEFINE lab == [event |-> "label", dir |-> id]
           bl  == [event |-> "blank"]
<1>1. lab.event = "label" /\ lab.dir = id /\ bl.event = "blank"
  OBVIOUS
<1>2. CASE Top.first /\ Top.listed = 0 /\ ~NeedLabel
  <2>1. out' = << >>
    BY <1>2, AfterSomething DEF Announced
  <2> QED BY <1>2, <2>1, EmptyInPlace
<1>3. CASE Top.first /\ Top.listed = 0 /\ NeedLabel
  <2>1. out' = Append(<< >>, lab)
    BY <1>3, AfterSomething DEF Announced
  <2> HIDE DEF lab
  <2> DEFINE p == out'
  <2>2. DOMAIN p = {1} /\ Len(p) = 1 /\ p[1] = lab
    <3>1. << >> \in Seq({lab}) /\ Len(<< >>) = 0
      OBVIOUS
    <3> QED BY <2>1, <3>1, AppendProperties
  <2> HIDE DEF p
  <2>3. p[1].event = "label" /\ p[1].dir = id
    BY <1>1, <2>2
  <2>4. Sections(p) /\ Current(p, id) /\ LabelsOf(p) # {}
    BY <2>2, <2>3, FirstInPlace
  <2> QED BY <2>4 DEF p
<1>4. CASE ~(Top.first /\ Top.listed = 0) /\ NeedLabel
  <2>1. out' = Append(Append(out, bl), lab)
    BY <1>4 DEF Announced
  <2>2. out # << >> /\ (LabelsOf(out) # {} \/ Fresh(out)) /\ Sections(out)
    BY <1>4, AfterSomething DEF SectionInv
  <2> HIDE DEF lab, bl
  <2> DEFINE S == Events(Len(heap)) \cup {bl, lab}
             p == out'
  <2>3. out \in Seq(S)
    <3>1. out \in Seq(Events(Len(heap)))
      BY DEF TypeInv, Parts, OutType
    <3> QED BY <3>1, SeqMonotonic
  <2>4. bl \in S /\ lab \in S
    OBVIOUS
  <2> HIDE DEF S
  <2>5. /\ p \in Seq(S) /\ Len(p) = Len(out) + 2 /\ \A k \in DOMAIN out : p[k] = out[k]
        /\ p[Len(out) + 1] = bl /\ p[Len(out) + 2] = lab
    BY <2>1, <2>3, <2>4
  <2> HIDE DEF p
  <2>6. p[Len(out) + 1].event = "blank" /\ p[Len(out) + 2].event = "label"
        /\ p[Len(out) + 2].dir = id
    BY <1>1, <2>5
  <2>7. Sections(p) /\ Current(p, id) /\ LabelsOf(p) # {}
    BY <2>2, <2>3, <2>5, <2>6, LabelInPlace
  <2> QED BY <2>7 DEF p
<1>5. ~(Top.first /\ Top.listed = 0) => NeedLabel
  BY DEF Announced, NeedLabel
<1> QED BY <1>2, <1>3, <1>4, <1>5

LEMMA NextDirKeepsSections ==
    ASSUME TypeInv, SectionInv, NextDir
    PROVE  SectionInv'
<1>1. PICK m, id, f, g : /\ m = Len(stack) /\ id = Top.dirs[Top.listed + 1]
                         /\ f = [Top EXCEPT !.listed = Top.listed + 1]
                         /\ g = Frame(id, FALSE)
  OBVIOUS
<1>2. /\ pc = "dirs" /\ pc # "done" /\ pc' = "open" /\ opts' = opts
      /\ stack' = Append(WithTop(f), g)
  BY <1>1 DEF NextDir, world
<1>3. /\ m \in Nat \ {0} /\ Top \in Frames(Len(heap)) /\ Top.listed \in Nat
  BY <1>1, <1>2, TopFacts
<1>4. /\ Len(stack') = m + 1 /\ stack'[m + 1] = g /\ stack'[m] = f
      /\ \A i \in 1..m - 1 : stack'[i] = stack[i]
  BY <1>1, <1>2, PushedIs, Zenon
<1>5. /\ f.listed = Top.listed + 1 /\ f.first = Top.first /\ f.dirs = Top.dirs
      /\ ~g.first /\ g.dir = id
  BY <1>1, <1>3 DEF Frames, Frame
<1>6. /\ Sections(out') /\ Current(out', id)
      /\ NeedLabel => LabelsOf(out') # {}
  BY <1>1, NextDirAnnounces, AnnouncedInPlace, Zenon
<1>7. MainInv'
  <2>1. Len(stack') # 1
    BY <1>3, <1>4
  <2>2. CASE m = 1
    <3>1. Top = stack[1]
      BY <1>1, <2>2 DEF Top
    <3>2. stack'[1] = f
      BY <1>4, <2>2
    <3>3. NeedLabel \/ (Len(f.dirs) = 1 /\ f.first /\ ~opts.recursive)
      <4>1. Len(Top.dirs) \in Nat /\ Top.listed < Len(Top.dirs)
        <5>1. Top.dirs \in Seq(1..Len(heap))
          BY <1>2, TopFacts
        <5> QED BY <5>1 DEF NextDir
      <4>2. Len(Top.dirs) = 1 \/ Len(Top.dirs) > 1
        BY <1>3, <4>1, MoreThanSome, Zenon
      <4> QED BY <1>5, <4>2 DEF NeedLabel
    <3> QED BY <1>2, <1>6, <2>1, <3>2, <3>3 DEF MainInv
  <2>3. CASE m >= 2
    <3>1. NeedLabel
      BY <1>1, <2>3, AfterSomething
    <3> QED BY <1>2, <1>6, <2>1, <3>1 DEF MainInv
  <2> QED BY <1>3, <2>2, <2>3
<1>8. NestedInv'
  <2>1. Len(stack') >= 3 => opts.recursive
    BY <1>1, <1>2, <1>3, <1>4 DEF SectionInv, NestedInv
  <2>2. ASSUME NEW k \in 2..Len(stack') PROVE ~stack'[k].first
    <3>1. k = m + 1 \/ k = m \/ k \in 1..m - 1
      BY <1>3, <1>4, <2>2
    <3>2. k # m + 1 => k \in 2..m
      BY <1>3, <1>4, <2>2
    <3>3. k # m + 1 => ~stack[k].first
      BY <1>1, <3>2 DEF SectionInv, NestedInv
    <3> QED BY <1>1, <1>4, <1>5, <3>1, <3>3 DEF Top
  <2> QED BY <1>2, <2>1, <2>2 DEF NestedInv
<1>9. CurrentInv'
  <2>1. Top'.dir = id
    BY <1>4, <1>5 DEF Top
  <2> QED BY <1>6, <2>1 DEF CurrentInv
<1> QED BY <1>6, <1>7, <1>8, <1>9 DEF SectionInv

\* listdirs() returns and says nothing.
LEMMA DirsDoneKeepsSections ==
    ASSUME TypeInv, SectionInv, DirsDone
    PROVE  SectionInv'
<1>1. pc = "dirs" /\ pc # "done" /\ opts' = opts /\ out' = out
  BY DEF DirsDone, world
<1>2. Len(stack) \in Nat \ {0}
  BY <1>1, TopFacts
<1>3. CASE InMain
  <2>1. stack' = << >> /\ pc' = "done"
    BY <1>3 DEF DirsDone
  <2>2. Len(stack') = 0
    BY <2>1
  <2> QED BY <1>1, <2>1, <2>2 DEF SectionInv, MainInv, NestedInv, CurrentInv
<1>4. CASE ~InMain
  <2>1. stack' = stack /\ pc' = "return"
    BY <1>4 DEF DirsDone
  <2>2. Len(stack) >= 2
    BY <1>2, <1>4, OneOrMore, Zenon DEF InMain
  <2>3. MainInv'
    BY <1>1, <2>1, <2>2, InsideKeepsMain DEF SectionInv
  <2> QED BY <1>1, <2>1, <2>3 DEF SectionInv, NestedInv, CurrentInv
<1> QED BY <1>3, <1>4

LEMMA OpenKeepsSections ==
    ASSUME TypeInv, SectionInv, Open \/ OpenShortage \/ Return
    PROVE  SectionInv'
<1>1. pc \in {"open", "return"} /\ pc # "done" /\ opts' = opts /\ out' = out
  BY DEF Open, OpenShortage, Return, world
<1>2. Len(stack) >= 2 /\ Len(stack) \in Nat
  BY <1>1 DEF TypeInv, PcInv, Parts, HeapType
<1>3. \/ stack' = Pop /\ pc' = "dirs"
      \/ stack' = stack /\ pc' = "read" /\ pc = "open"
  BY DEF Open, OpenShortage, Return
<1>4. CASE stack' = Pop /\ pc' = "dirs"
  BY <1>1, <1>2, <1>4, PopKeepsSections
<1>5. CASE stack' = stack /\ pc' = "read" /\ pc = "open"
  <2>1. MainInv'
    BY <1>1, <1>2, <1>5, InsideKeepsMain DEF SectionInv
  <2>2. Top' = Top
    BY <1>5 DEF Top
  <2> QED BY <1>1, <1>5, <2>1, <2>2 DEF SectionInv, NestedInv, CurrentInv
<1> QED BY <1>3, <1>4, <1>5

LEMMA SectionStep ==
    ASSUME TypeInv, SectionInv, [Next]_vars
    PROVE  SectionInv'
<1>1. TypeInv'
  BY TypeStep
<1>2. CASE Operand \/ IsLinkToDir
  BY <1>2, OperandsKeepSections
<1>3. CASE StatFile \/ FollowFile \/ Change \/ UNCHANGED vars
  <2>1. UNCHANGED <<stack, pc, out, opts>>
    BY <1>3 DEF StatFile, FollowFile, Change, vars, world
  <2> QED BY <2>1, LooksKeepSections
<1>4. CASE PrintFiles
  BY <1>1, <1>4, MainPrintsFiles, ListdirPrintsFiles, Zenon
<1>5. CASE ReadEntry \/ StatEntry
  BY <1>5, EntriesKeepSections
<1>6. CASE ReadEnd \/ ReadFault \/ ReadShortage
  BY <1>1, <1>6, CloseStreamKeepsSections
<1>7. CASE Open \/ OpenShortage \/ Return
  BY <1>7, OpenKeepsSections
<1> QED
  BY <1>2, <1>3, <1>4, <1>5, <1>6, <1>7, OperandsDoneKeepsSections,
     NextDirKeepsSections, DirsDoneKeepsSections, Zenon DEF Next, Program, Terminated

LEMMA SectionInit ==
    ASSUME Init
    PROVE  SectionInv
<1>1. stack = << Frame(0, TRUE) >> /\ out = << >> /\ pc = "operand"
  BY DEF Init
<1>2. Len(stack) = 1 /\ stack[1].listed = 0
  BY <1>1 DEF Frame
<1>3. MainInv /\ CurrentInv /\ NestedInv
  <2>1. 2..Len(stack) = {} /\ ~(Len(stack) >= 2) /\ ~(Len(stack) >= 3)
    BY <1>2
  <2> QED BY <1>1, <1>2, <2>1, Zenon DEF MainInv, CurrentInv, NestedInv
<1> QED BY <1>1, <1>3, TypeInit, EmptyInPlace DEF SectionInv

\* However deep the listing goes and whatever fails in it, the sections of the
\* output can be told apart: a blank line comes between any two of them and
\* nowhere else, and what a directory holds follows its own label (l.c:441-455,
\* SPEC.md:296-297).
THEOREM SectionsStaySeparate == Spec => []SectionsAreSeparate
<1>1. ASSUME Init PROVE TypeInv /\ SectionInv
  BY <1>1, TypeInit, SectionInit
<1>2. ASSUME TypeInv /\ SectionInv, [Next]_vars PROVE (TypeInv /\ SectionInv)'
  BY <1>2, TypeStep, SectionStep
<1>3. SectionInv => SectionsAreSeparate
  BY SectionsSaysIt DEF SectionInv
<1> QED
  BY <1>1, <1>2, <1>3, PTL DEF Spec

-----------------------------------------------------------------------------
(* Sums: the numbers of a set's elements are added up by a recursive function  *)
(* over its subsets.                                                           *)

\* Induction: a set that has 0 and with every n also n + 1 has every number,
\* as the least one it lacked would be neither.
LEMMA InductionInSet ==
    ASSUME NEW S, 0 \in S, \A n \in Nat : n \in S => n + 1 \in S
    PROVE  Nat \subseteq S
<1> DEFINE Missing == Nat \ S
<1>1. SUFFICES ASSUME Missing # {} PROVE FALSE
  OBVIOUS
<1>2. PICK n \in Missing : \A m \in Missing : ~ (<<m, n>> \in OpToRel(<, Nat))
  <2>1. Missing \subseteq Nat
    OBVIOUS
  <2> HIDE DEF Missing
  <2> QED BY <1>1, <2>1, WFMin, NatLessThanWellFounded, Zenon
<1>3. n \in Nat /\ n # 0 /\ n - 1 \in Nat /\ n - 1 < n
  OBVIOUS
<1>4. n - 1 \notin Missing
  BY <1>2, <1>3 DEF OpToRel
<1> QED BY <1>3, <1>4

\* The subsets of S with no more than m members.
Small(S, m) == {s \in SUBSET S : Cardinality(s) <= m}

LEMMA SmallHasAll ==
    ASSUME NEW S, IsFiniteSet(S), NEW Good, Nat \subseteq Good
    PROVE  \E m \in Good : m \in Nat /\ Small(S, m) = SUBSET S
<1>1. Cardinality(S) \in Nat /\ Small(S, Cardinality(S)) = SUBSET S
  BY FS_Subset, FS_CardinalityType DEF Small
<1> QED BY <1>1

LEMMA OneLessIsSmaller ==
    ASSUME NEW S, IsFiniteSet(S), NEW m \in Nat, NEW s \in Small(S, m), NEW e \in s
    PROVE  /\ e \in S /\ m # 0 /\ s \ {e} \in SUBSET S
           /\ \A n \in Nat : m = n + 1 => s \ {e} \in Small(S, n)
<1>1. s \subseteq S /\ IsFiniteSet(s) /\ Cardinality(s) <= m
  BY FS_Subset DEF Small
<1>2. IsFiniteSet(s \ {e}) /\ Cardinality(s \ {e}) = Cardinality(s) - 1
  BY <1>1, FS_RemoveElement
<1>3. Cardinality(s) \in Nat /\ Cardinality(s \ {e}) \in Nat
  BY <1>1, <1>2, FS_CardinalityType
<1> QED BY <1>1, <1>2, <1>3 DEF Small

LEMMA LessIsSmall ==
    ASSUME NEW S, IsFiniteSet(S), NEW m \in Nat, NEW t \in Small(S, m), NEW s, s \subseteq t
    PROVE  s \in Small(S, m)
<1>1. t \subseteq S /\ IsFiniteSet(t) /\ Cardinality(t) <= m
  BY FS_Subset DEF Small
<1>2. /\ Cardinality(s) \in Nat /\ Cardinality(t) \in Nat
      /\ Cardinality(s) <= Cardinality(t)
  BY <1>1, FS_Subset, FS_CardinalityType
<1> QED BY <1>1, <1>2 DEF Small

\* g[s] is the sum of w over the subset s of S.
OneOf(s) == CHOOSE e \in s : TRUE
IsSum(g, w, T) == g = [s \in T |-> IF s = {} THEN 0 ELSE w[OneOf(s)] + g[s \ {OneOf(s)}]]

IsSumOver(g, w, S) == IsSum(g, w, SUBSET S)

LEMMA AnyIsMember == \A s : s # {} => OneOf(s) \in s
  BY DEF OneOf

LEMMA SumExists ==
    ASSUME NEW S, IsFiniteSet(S), NEW w
    PROVE  \E g : IsSumOver(g, w, S)
<1> DEFINE Good == {m \in Nat : \E g : IsSum(g, w, Small(S, m))}
<1>1. 0 \in Good
  <2> DEFINE g == [s \in Small(S, 0) |-> 0]
  <2>1. ASSUME NEW s \in Small(S, 0) PROVE s = {}
    BY OneLessIsSmaller
  <2>2. IsSum(g, w, Small(S, 0))
    BY <2>1 DEF IsSum
  <2> QED BY <2>2
<1>2. ASSUME NEW m \in Nat, m \in Good PROVE m + 1 \in Good
  <2>1. PICK g : IsSum(g, w, Small(S, m))
    BY <1>2
  <2> DEFINE h == [s \in Small(S, m + 1) |-> IF s = {} THEN 0 ELSE w[OneOf(s)] + g[s \ {OneOf(s)}]]
  <2>2. Small(S, m) \subseteq Small(S, m + 1)
    <3>1. \A s \in SUBSET S : Cardinality(s) \in Nat
      BY FS_Subset, FS_CardinalityType
    <3> QED BY <3>1 DEF Small
  <2>3. ASSUME NEW s \in Small(S, m) PROVE h[s] = g[s]
    BY <2>1, <2>2 DEF IsSum
  <2>4. ASSUME NEW s \in Small(S, m + 1), s # {} PROVE h[s \ {OneOf(s)}] = g[s \ {OneOf(s)}]
    <3>1. OneOf(s) \in s
      BY <2>4, AnyIsMember
    <3>2. s \ {OneOf(s)} \in Small(S, m)
      BY <3>1, OneLessIsSmaller
    <3> HIDE DEF h
    <3> QED BY <2>3, <3>2
  <2>5. h = [s \in Small(S, m + 1) |-> IF s = {} THEN 0 ELSE w[OneOf(s)] + h[s \ {OneOf(s)}]]
    <3>1. \A s \in Small(S, m + 1) :
            (IF s = {} THEN 0 ELSE w[OneOf(s)] + g[s \ {OneOf(s)}])
            = IF s = {} THEN 0 ELSE w[OneOf(s)] + h[s \ {OneOf(s)}]
      <4> HIDE DEF h
      <4> QED BY <2>4
    <3> QED BY <3>1
  <2> HIDE DEF h
  <2>6. IsSum(h, w, Small(S, m + 1))
    BY <2>5 DEF IsSum
  <2> QED BY <2>6
<1> HIDE DEF Good
<1>3. Nat \subseteq Good
  BY <1>1, <1>2, InductionInSet
<1>4. PICK m \in Good : m \in Nat /\ Small(S, m) = SUBSET S
  BY <1>3, SmallHasAll
<1> QED BY <1>4 DEF Good, IsSumOver

\* Two functions that sum up the same numbers agree where both do.
LEMMA SumIsUnique ==
    ASSUME NEW S, IsFiniteSet(S), NEW T, S \subseteq T, NEW w, NEW v,
           \A e \in S : w[e] = v[e],
           NEW g, IsSumOver(g, w, S), NEW h, IsSumOver(h, v, T)
    PROVE  g[S] = h[S]
<1> DEFINE Good == {m \in Nat : \A s \in Small(S, m) : g[s] = h[s]}
<1>1. \A s \in SUBSET S : /\ s # {} => g[s] = w[OneOf(s)] + g[s \ {OneOf(s)}]
                                       /\ h[s] = v[OneOf(s)] + h[s \ {OneOf(s)}]
                          /\ s = {} => g[s] = 0 /\ h[s] = 0
  <2> TAKE s \in SUBSET S
  <2>1. s \in SUBSET T
    OBVIOUS
  <2>2. g[s] = IF s = {} THEN 0 ELSE w[OneOf(s)] + g[s \ {OneOf(s)}]
    BY DEF IsSum, IsSumOver
  <2>3. h[s] = IF s = {} THEN 0 ELSE v[OneOf(s)] + h[s \ {OneOf(s)}]
    BY <2>1 DEF IsSum, IsSumOver
  <2> QED BY <2>2, <2>3, Zenon
<1>2. 0 \in Good
  <2>1. ASSUME NEW s \in Small(S, 0) PROVE s = {} /\ s \in SUBSET S
    BY OneLessIsSmaller
  <2>2. \A s \in Small(S, 0) : g[s] = h[s]
    BY <1>1, <2>1, Zenon
  <2> QED BY <2>2
<1>3. ASSUME NEW m \in Nat, m \in Good PROVE m + 1 \in Good
  <2>1. ASSUME NEW s \in Small(S, m + 1), s # {} PROVE g[s] = h[s]
    <3>1. OneOf(s) \in s
      BY <2>1, AnyIsMember
    <3>2. s \ {OneOf(s)} \in Small(S, m) /\ OneOf(s) \in S
      BY <3>1, OneLessIsSmaller
    <3>3. g[s \ {OneOf(s)}] = h[s \ {OneOf(s)}] /\ w[OneOf(s)] = v[OneOf(s)]
      BY <1>3, <3>2
    <3>4. s \in SUBSET S
      BY DEF Small
    <3> QED BY <1>1, <2>1, <3>3, <3>4, Zenon
  <2>2. ASSUME NEW s \in Small(S, m + 1) PROVE g[s] = h[s]
    <3>1. s \in SUBSET S
      BY DEF Small
    <3>2. CASE s = {}
      BY <1>1, <3>1, <3>2, Zenon
    <3> QED BY <2>1, <3>2, Zenon
  <2> QED BY <2>2
<1> HIDE DEF Good
<1>4. Nat \subseteq Good
  BY <1>2, <1>3, InductionInSet
<1>5. PICK m \in Good : m \in Nat /\ Small(S, m) = SUBSET S
  BY <1>4, SmallHasAll
<1> QED BY <1>5 DEF Good

\* Whichever element is taken out first, the sum is the same.
LEMMA SumWithoutOne ==
    ASSUME NEW S, IsFiniteSet(S), NEW w, \A e \in S : w[e] \in Nat,
           NEW g, IsSumOver(g, w, S)
    PROVE  \A s \in SUBSET S : g[s] \in Nat /\ \A x \in s : g[s] = w[x] + g[s \ {x}]
<1> DEFINE Fine(s) == g[s] \in Nat /\ \A y \in s : g[s] = w[y] + g[s \ {y}]
           Good == {m \in Nat : \A s \in Small(S, m) : Fine(s)}
<1>1. \A s \in SUBSET S : /\ s # {} => g[s] = w[OneOf(s)] + g[s \ {OneOf(s)}]
                          /\ s = {} => g[s] = 0
  <2> TAKE s \in SUBSET S
  <2>1. g[s] = IF s = {} THEN 0 ELSE w[OneOf(s)] + g[s \ {OneOf(s)}]
    BY DEF IsSum, IsSumOver
  <2> QED BY <2>1, Zenon
<1>2. 0 \in Good
  <2>1. ASSUME NEW s \in Small(S, 0) PROVE s = {} /\ s \in SUBSET S
    BY OneLessIsSmaller
  <2>2. ASSUME NEW s \in Small(S, 0) PROVE Fine(s)
    <3>1. s = {} /\ g[s] = 0
      BY <1>1, <2>1, Zenon
    <3> QED BY <3>1
  <2> QED BY <2>2
<1>3. ASSUME NEW m \in Nat, m \in Good PROVE m + 1 \in Good
  <2>1. ASSUME NEW s \in Small(S, m + 1), s # {} PROVE Fine(s)
    <3>1. PICK a \in s : a = OneOf(s)
      BY <2>1, AnyIsMember
    <3>2. s \in SUBSET S /\ a \in S
      BY <3>1 DEF Small
    <3>3. PICK t \in Small(S, m) : t = s \ {a}
      <4>1. s \ {a} \in Small(S, m)
        BY OneLessIsSmaller
      <4> QED BY <4>1, Zenon
    <3>4. Fine(t)
      BY <1>3
    <3>5. g[s] = w[a] + g[t]
      BY <1>1, <2>1, <3>1, <3>2, <3>3
    <3>6. g[s] \in Nat
      BY <3>2, <3>4, <3>5
    <3>7. ASSUME NEW y \in s, y # a PROVE g[s] = w[y] + g[s \ {y}]
      <4>1. PICK r \in Small(S, m) : r = s \ {y}
        <5>1. s \ {y} \in Small(S, m)
          BY OneLessIsSmaller
        <5> QED BY <5>1, Zenon
      <4>2. PICK q : q = t \ {y} /\ q = r \ {a}
        BY <3>3, <4>1
      <4>3. Fine(r) /\ a \in r /\ y \in t
        BY <1>3, <3>1, <3>3, <3>7, <4>1
      <4>4. g[t] = w[y] + g[q] /\ g[r] = w[a] + g[q]
        BY <3>4, <4>2, <4>3
      <4>5. g[q] \in Nat
        <5>1. q \in Small(S, m)
          BY <4>2, LessIsSmall
        <5> QED BY <1>3, <5>1
      <4>6. w[a] \in Nat /\ w[y] \in Nat
        BY <3>2
      <4> HIDE DEF Fine
      <4> QED BY <3>5, <4>1, <4>4, <4>5, <4>6
    <3> QED BY <3>1, <3>3, <3>5, <3>6, <3>7
  <2>2. ASSUME NEW s \in Small(S, m + 1) PROVE Fine(s)
    <3>1. CASE s = {}
      <4>1. s \in SUBSET S
        BY DEF Small
      <4>2. g[s] = 0
        BY <1>1, <3>1, <4>1, Zenon
      <4> QED BY <3>1, <4>2
    <3> QED BY <2>1, <3>1, Zenon
  <2> QED BY <2>2
<1> HIDE DEF Good
<1>4. Nat \subseteq Good
  BY <1>2, <1>3, InductionInSet
<1>5. PICK m \in Good : m \in Nat /\ Small(S, m) = SUBSET S
  BY <1>4, SmallHasAll
<1> QED BY <1>5 DEF Good

\* The blocks of the rows in S, as TotalIsSumOfRows adds them up.
SumOfRows(S) == MapThenSumSet(LAMBDA r : Blocks(r.shows), S)

LEMMA SumOfRowsIs ==
    ASSUME NEW S, IsFiniteSet(S)
    PROVE  \E g : IsSumOver(g, [r \in S |-> Blocks(r.shows)], S) /\ SumOfRows(S) = g[S]
<1> DEFINE w == [r \in S |-> Blocks(r.shows)]
           Is(g) == g = [s \in SUBSET S |->
                           IF s = {} THEN 0
                           ELSE Blocks((CHOOSE e \in s : TRUE).shows)
                                + g[s \ {CHOOSE e \in s : TRUE}]]
<1>1. \A g : Is(g) <=> IsSumOver(g, w, S)
  <2> TAKE g
  <2>1. \A s \in SUBSET S : s # {} => w[OneOf(s)] = Blocks(OneOf(s).shows)
    BY DEF OneOf
  <2> QED BY <2>1 DEF IsSum, IsSumOver, OneOf
<1>2. SumOfRows(S) = (CHOOSE g : Is(g))[S]
  BY DEF SumOfRows, MapThenSumSet, MapThenFoldSet
<1> HIDE DEF w
<1>3. \E g : IsSumOver(g, w, S)
  BY SumExists
<1> HIDE DEF Is
<1>4. PICK g : g = (CHOOSE h : Is(h)) /\ Is(g)
  BY <1>1, <1>3, Zenon
<1>5. IsSumOver(g, w, S) /\ SumOfRows(S) = g[S]
  BY <1>1, <1>2, <1>4, Zenon
<1> QED BY <1>5 DEF w

LEMMA NoRows == SumOfRows({}) = 0
<1>1. PICK g : /\ IsSumOver(g, [r \in {} |-> Blocks(r.shows)], {})
               /\ SumOfRows({}) = g[{}]
  BY SumOfRowsIs, FS_EmptySet
<1>2. g[{}] = 0
  BY <1>1 DEF IsSum, IsSumOver
<1> QED BY <1>1, <1>2

LEMMA OneMoreRow ==
    ASSUME NEW S, IsFiniteSet(S), NEW x, x \notin S
    PROVE  SumOfRows(S \cup {x}) = SumOfRows(S) + Blocks(x.shows)
<1>0. PICK T, w, v : /\ T = S \cup {x} /\ w = [r \in S |-> Blocks(r.shows)]
                    /\ v = [r \in T |-> Blocks(r.shows)]
  OBVIOUS
<1>1. IsFiniteSet(T) /\ S \subseteq T /\ x \in T /\ T \ {x} = S
  BY <1>0, FS_AddElement
<1>2. (\A r \in S : w[r] = v[r]) /\ (\A r \in T : v[r] \in Nat) /\ v[x] = Blocks(x.shows)
  BY <1>0, BlocksType
<1>3. PICK g : IsSumOver(g, w, S) /\ SumOfRows(S) = g[S]
  BY <1>0, SumOfRowsIs, Zenon
<1>4. PICK h : IsSumOver(h, v, T) /\ SumOfRows(T) = h[T]
  BY <1>0, <1>1, SumOfRowsIs, Zenon
<1>5. g[S] = h[S]
  <2>1. S \subseteq T
    BY <1>1
  <2>2. \A r \in S : w[r] = v[r]
    BY <1>2
  <2>3. IsSumOver(g, w, S)
    BY <1>3
  <2>4. IsSumOver(h, v, T)
    BY <1>4
  <2> QED BY <2>1, <2>2, <2>3, <2>4, SumIsUnique
<1>6. \A s \in SUBSET T : h[s] \in Nat /\ \A y \in s : h[s] = v[y] + h[s \ {y}]
  <2>1. IsFiniteSet(T)
    BY <1>1
  <2>2. \A r \in T : v[r] \in Nat
    BY <1>2
  <2>3. IsSumOver(h, v, T)
    BY <1>4
  <2> QED BY <2>1, <2>2, <2>3, SumWithoutOne
<1>7. h[T] = v[x] + h[S] /\ h[S] \in Nat /\ v[x] \in Nat
  BY <1>1, <1>2, <1>6
<1>8. h[T] = g[S] + v[x]
  BY <1>5, <1>7
<1> QED BY <1>0, <1>2, <1>3, <1>4, <1>8

-----------------------------------------------------------------------------
(* The total of a directory.                                                   *)

\* What the output says of directory d: whether its total or its rows have been
\* printed, and which rows.
Counted(o) == {o[j] : j \in {j \in DOMAIN o : o[j].event \in {"rows", "total"}}}
Seen(o, d) == \E e \in Counted(o) : e.dir = d
RowsOf(o, d) ==
    UNION {e.rows : e \in {e \in Counted(o) : e.event = "rows" /\ e.dir = d}}

\* No directory is on the same list twice: OnceInv says so of main()'s.
DirsOnce ==
    \A k \in 2..Len(stack) : \A p, q \in DOMAIN stack[k].dirs :
        stack[k].dirs[p] = stack[k].dirs[q] => p = q

\* A directory that is yet to be listed, or is being read, has not been printed.
DirWaits(d) ==
    \E k \in DOMAIN stack : \E n \in DOMAIN stack[k].dirs :
        n > stack[k].listed /\ d = stack[k].dirs[n]

Waiting(d) ==
    DirWaits(d) \/ d \in Pending \/ (pc \in {"open", "read", "entry"} /\ d = Top.dir)

UnseenInv == \A d : Waiting(d) => ~Seen(out, d)

RowsLater == pc = "files" /\ Len(stack) >= 2 => RowsOf(out, Top.dir) = {}

\* readdir() returns no name twice, so that no two Files of a directory have the
\* same path.
NamesInv ==
    pc \in {"read", "entry"} =>
        /\ \A name \in unread : \A i \in InTopFiles \cup Pending :
              heap[i].path # Append(heap[Top.dir].path, name)
        /\ \A i \in InTopFiles : \A j \in Pending : heap[i].path # heap[j].path

\* The total is that of the rows which the files read so far will have.
TopRows == {RowOf(heap[i]) : i \in InTopFiles}
Unlacked == \A i \in DOMAIN heap : ~heap[i].lacked
Sums == Unlacked /\ opts.dirtotals /\ ~opts.targetinfo

TotalInv ==
    Sums /\ Len(stack) >= 2 /\ pc \in {"read", "entry", "files"} =>
        /\ \A i \in InTopFiles : heap[i].stat # "unknown"
        /\ total = SumOfRows(TopRows)

BlocksOf(d) ==
    IF pc = "files" /\ Len(stack) >= 2 /\ d = Top.dir THEN total
    ELSE SumOfRows(RowsOf(out, d))

TotalsInv ==
    Unlacked /\ ~opts.targetinfo =>
        \A e \in Counted(out) : e.event = "total" =>
            opts.dirtotals /\ e.blocks = BlocksOf(e.dir)

SumInv ==
    DirsOnce /\ UnseenInv /\ RowsLater /\ NamesInv /\ TotalInv /\ TotalsInv

\* What a step does to the directories of a frame: nothing but to list more of
\* them, or to put one more on the list; a new frame has none.
FrameKept(k) ==
    /\ k \in DOMAIN stack
    /\ stack'[k].dirs = stack[k].dirs /\ stack'[k].listed >= stack[k].listed

FrameGrew(k) ==
    /\ k \in DOMAIN stack /\ stack'[k].listed = stack[k].listed
    /\ \E x \in Pending \cup {Len(heap) + 1} :
          stack'[k].dirs = Append(stack[k].dirs, x)

FramesGrow ==
    \A k \in DOMAIN stack' : FrameKept(k) \/ FrameGrew(k) \/ stack'[k].dirs = << >>

LEMMA FrameTypes ==
    ASSUME TypeInv
    PROVE  /\ Len(stack) \in Nat /\ DOMAIN stack = 1..Len(stack) /\ Len(heap) \in Nat
           /\ \A k \in DOMAIN stack : /\ stack[k].listed \in Nat
                                      /\ stack[k].files \in Seq(1..Len(heap))
                                      /\ stack[k].dirs \in Seq(1..Len(heap))
<1>1. stack \in Seq(Frames(Len(heap))) /\ Len(heap) \in Nat
  BY DEF TypeInv, Parts, HeapType
<1>2. ASSUME NEW k \in DOMAIN stack
      PROVE  /\ stack[k].listed \in Nat /\ stack[k].files \in Seq(1..Len(heap))
             /\ stack[k].dirs \in Seq(1..Len(heap))
  <2>1. stack[k] \in Frames(Len(heap))
    BY <1>1
  <2> QED BY <1>1, <2>1, FrameFields, Zenon
<1> QED BY <1>1, <1>2

LEMMA SameFrames ==
    ASSUME TypeInv, stack' = stack
    PROVE  FramesGrow
  BY FrameTypes DEF FramesGrow, FrameKept

LEMMA TopFrameGrows ==
    ASSUME TypeInv, pc # "done", NEW f, stack' = WithTop(f), f.listed = Top.listed,
           \/ f.dirs = Top.dirs
           \/ \E x \in Pending \cup {Len(heap) + 1} : f.dirs = Append(Top.dirs, x)
    PROVE  FramesGrow
<1>1. /\ Len(stack') = Len(stack) /\ stack'[Len(stack)] = f
      /\ \A i \in 1..Len(stack) - 1 : stack'[i] = stack[i]
  BY TopIs, Zenon
<1>2. /\ Len(stack) \in Nat /\ DOMAIN stack = 1..Len(stack)
      /\ \A k \in DOMAIN stack : stack[k].listed \in Nat
  BY FrameTypes
<1>3. DOMAIN stack' = DOMAIN stack
  <2>1. stack' = [stack EXCEPT ![Len(stack)] = f]
    BY DEF WithTop
  <2> QED BY <2>1
<1>4. ASSUME NEW k \in DOMAIN stack, k # Len(stack) PROVE FrameKept(k)
  <2>1. stack'[k] = stack[k] /\ stack[k].listed \in Nat
    BY <1>1, <1>2, <1>4
  <2> QED BY <2>1 DEF FrameKept
<1>5. ASSUME NEW k \in DOMAIN stack, k = Len(stack) PROVE FrameKept(k) \/ FrameGrew(k)
  <2>1. /\ stack'[k] = f /\ stack[k] = Top /\ stack[k].listed \in Nat
        /\ f.listed = stack[k].listed
    BY <1>1, <1>2, <1>5 DEF Top
  <2>2. CASE f.dirs = Top.dirs
    BY <2>1, <2>2 DEF FrameKept
  <2>3. CASE \E x \in Pending \cup {Len(heap) + 1} : f.dirs = Append(Top.dirs, x)
    BY <2>1, <2>3 DEF FrameGrew
  <2> QED BY <2>2, <2>3
<1> QED BY <1>3, <1>4, <1>5 DEF FramesGrow

LEMMA PoppedFrames ==
    ASSUME TypeInv, pc # "done", Len(stack) >= 2, stack' = Pop
    PROVE  FramesGrow
<1>1. /\ Len(stack') = Len(stack) - 1
      /\ \A i \in 1..Len(stack) - 1 : stack'[i] = stack[i]
  BY PopLists, Zenon
<1>2. /\ Len(stack) \in Nat /\ DOMAIN stack = 1..Len(stack)
      /\ \A k \in DOMAIN stack : stack[k].listed \in Nat
  BY FrameTypes
<1>3. DOMAIN stack' = 1..Len(stack) - 1
  <2>1. stack' \in Seq(Frames(Len(heap)))
    <3>1. stack \in Seq(Frames(Len(heap))) /\ stack # << >>
      BY TopFacts DEF TypeInv, Parts, HeapType
    <3>2. Front(stack) \in Seq(Frames(Len(heap)))
      BY <3>1, FrontIs, Zenon
    <3> QED BY <3>2 DEF Pop
  <2> QED BY <1>1, <2>1
<1>4. ASSUME NEW k \in 1..Len(stack) - 1 PROVE FrameKept(k)
  <2>1. k \in DOMAIN stack /\ stack'[k] = stack[k]
    BY <1>1, <1>2
  <2> QED BY <1>2, <2>1 DEF FrameKept
<1> QED BY <1>3, <1>4 DEF FramesGrow

LEMMA NextDirGrowsFrames ==
    ASSUME TypeInv, TypeInv', NextDir
    PROVE  FramesGrow
<1>1. pc # "done"
  BY DEF NextDir
<1>2. /\ Top.listed \in Nat /\ Top \in Frames(Len(heap)) /\ Len(stack) \in Nat \ {0}
  BY <1>1, TopFacts
<1>3. PICK f, g : /\ stack' = Append(WithTop(f), g)
                  /\ f.dirs = Top.dirs /\ f.listed = Top.listed + 1 /\ g.dirs = << >>
  <2>1. PICK f : f = [Top EXCEPT !.listed = Top.listed + 1]
    OBVIOUS
  <2>2. PICK g : g = Frame(Top.dirs[Top.listed + 1], FALSE)
    OBVIOUS
  <2>3. stack' = Append(WithTop(f), g)
    BY <2>1, <2>2 DEF NextDir
  <2>4. f.dirs = Top.dirs /\ f.listed = Top.listed + 1
    BY <1>2, <2>1 DEF Frames
  <2>5. g.dirs = << >>
    BY <2>2 DEF Frame
  <2> QED BY <2>3, <2>4, <2>5, Zenon
<1>4. /\ Len(stack') = Len(stack) + 1
      /\ stack'[Len(stack) + 1] = g /\ stack'[Len(stack)] = f
      /\ \A i \in 1..Len(stack) - 1 : stack'[i] = stack[i]
  BY <1>1, <1>3, PushedIs, Zenon
<1>5. /\ DOMAIN stack = 1..Len(stack) /\ DOMAIN stack' = 1..Len(stack) + 1
      /\ \A k \in DOMAIN stack : stack[k].listed \in Nat
  BY <1>4, FrameTypes
<1>6. ASSUME NEW k \in 1..Len(stack) + 1 PROVE FrameKept(k) \/ stack'[k].dirs = << >>
  <2>1. CASE k = Len(stack) + 1
    BY <1>3, <1>4, <2>1
  <2>2. CASE k = Len(stack)
    <3>1. k \in DOMAIN stack /\ stack[k] = Top /\ stack'[k] = f
      BY <1>2, <1>4, <1>5, <2>2 DEF Top
    <3> QED BY <1>2, <1>3, <3>1 DEF FrameKept
  <2>3. CASE k \in 1..Len(stack) - 1
    <3>1. k \in DOMAIN stack /\ stack'[k] = stack[k]
      BY <1>2, <1>4, <1>5, <2>3
    <3> QED BY <1>5, <3>1 DEF FrameKept
  <2> QED BY <1>2, <2>1, <2>2, <2>3
<1> QED BY <1>5, <1>6 DEF FramesGrow

LEMMA EntriesGrowFrames ==
    ASSUME TypeInv, Operand \/ IsLinkToDir \/ ReadEntry \/ StatEntry
    PROVE  FramesGrow
<1>1. pc # "done" /\ Cur = Len(heap)
  BY DEF Operand, IsLinkToDir, ReadEntry, StatEntry, Cur
<1>2. Top \in Frames(Len(heap))
  BY <1>1, TopFacts
<1>3. (IsLinkToDir \/ StatEntry) => Len(heap) \in Pending
  BY DEF IsLinkToDir, StatEntry, Pending
<1>4. \/ stack' = stack
      \/ \E x \in Pending \cup {Len(heap) + 1} :
            \/ stack' = WithTop([Top EXCEPT !.files = Append(Top.files, x)])
            \/ stack' = WithTop([Top EXCEPT !.dirs = Append(Top.dirs, x)])
            \/ stack' = WithTop([Top EXCEPT !.files = Append(Top.files, x),
                                           !.dirs = Top.dirs])
            \/ stack' = WithTop([Top EXCEPT !.files = Append(Top.files, x),
                                           !.dirs = Append(Top.dirs, x)])
  <2>1. CASE Operand
    <3>1. \/ stack' = stack
          \/ stack' = WithTop([Top EXCEPT !.files = Append(Top.files, Len(heap) + 1)])
          \/ stack' = WithTop([Top EXCEPT !.dirs = Append(Top.dirs, Len(heap) + 1)])
      BY <2>1, OperandGoesOn
    <3> QED BY <3>1, Zenon
  <2>2. CASE IsLinkToDir
    <3>1. \/ stack' = WithTop([Top EXCEPT !.files = Append(Top.files, Len(heap))])
          \/ stack' = WithTop([Top EXCEPT !.dirs = Append(Top.dirs, Len(heap))])
      BY <1>1, <2>2 DEF IsLinkToDir
    <3> QED BY <1>3, <2>2, <3>1, Zenon
  <2>3. CASE ReadEntry
    <3>1. \/ stack' = stack
          \/ stack' = WithTop([Top EXCEPT !.files = Append(Top.files, Len(heap) + 1)])
      BY <2>3, ReadEntrySteps
    <3> QED BY <3>1, Zenon
  <2>4. CASE StatEntry
    <3>1. \/ stack' = stack
          \/ stack' = WithTop([Top EXCEPT !.files = Append(Top.files, Len(heap)),
                                         !.dirs = Top.dirs])
          \/ stack' = WithTop([Top EXCEPT !.files = Append(Top.files, Len(heap)),
                                         !.dirs = Append(Top.dirs, Len(heap))])
      BY <2>4, EntryGoesOn
    <3> QED BY <1>3, <2>4, <3>1, Zenon
  <2> QED BY <2>1, <2>2, <2>3, <2>4
<1>5. ASSUME NEW x \in Pending \cup {Len(heap) + 1}, NEW f,
             \/ f = [Top EXCEPT !.files = Append(Top.files, x)]
             \/ f = [Top EXCEPT !.dirs = Append(Top.dirs, x)]
             \/ f = [Top EXCEPT !.files = Append(Top.files, x), !.dirs = Top.dirs]
             \/ f = [Top EXCEPT !.files = Append(Top.files, x),
                               !.dirs = Append(Top.dirs, x)]
      PROVE  f.listed = Top.listed /\ (f.dirs = Top.dirs \/ f.dirs = Append(Top.dirs, x))
  BY <1>2, <1>5 DEF Frames
<1> QED BY <1>1, <1>4, <1>5, SameFrames, TopFrameGrows, Zenon

LEMMA FramesStep ==
    ASSUME TypeInv, TypeInv', [Next]_vars
    PROVE  FramesGrow
<1>1. CASE OperandsDone
  <2>1. pc # "done"
    BY <1>1 DEF OperandsDone
  <2>2. PICK f : f = [Top EXCEPT !.first = (Top.files = << >>)]
    OBVIOUS
  <2>3. stack' = WithTop(f) /\ f.dirs = Top.dirs /\ f.listed = Top.listed
    BY <1>1, <2>1, <2>2, TopFacts DEF OperandsDone, Frames
  <2> QED BY <2>1, <2>3, TopFrameGrows
<1>2. CASE PrintFiles
  <2>1. pc # "done"
    BY <1>2 DEF PrintFiles
  <2>2. PICK f : f = [Top EXCEPT !.files = << >>]
    OBVIOUS
  <2>3. f.dirs = Top.dirs /\ f.listed = Top.listed
    BY <2>1, <2>2, TopFacts DEF Frames
  <2>4. stack' = stack \/ stack' = WithTop(f)
    BY <1>2, <2>2 DEF PrintFiles
  <2> QED BY <2>1, <2>3, <2>4, SameFrames, TopFrameGrows
<1>3. CASE DirsDone
  <2>1. stack' = stack \/ stack' = << >>
    BY <1>3 DEF DirsDone
  <2>2. CASE stack' = << >>
    BY <2>2 DEF FramesGrow
  <2> QED BY <2>1, <2>2, SameFrames
<1>4. CASE Open \/ OpenShortage \/ Return
  <2>1. pc # "done" /\ Len(stack) >= 2 /\ (stack' = stack \/ stack' = Pop)
    BY <1>4 DEF Open, OpenShortage, Return, TypeInv, PcInv
  <2> QED BY <2>1, SameFrames, PoppedFrames
<1>5. CASE \/ StatFile \/ FollowFile \/ ReadEnd \/ ReadFault \/ ReadShortage
           \/ Change \/ UNCHANGED vars
  <2>1. stack' = stack
    BY <1>5 DEF StatFile, FollowFile, ReadEnd, ReadFault, ReadShortage, Change, vars
  <2> QED BY <2>1, SameFrames
<1> QED
  BY <1>1, <1>2, <1>3, <1>4, <1>5, EntriesGrowFrames, NextDirGrowsFrames, Zenon
  DEF Next, Program, Terminated

\* Where the directories of a frame are owned: main()'s on the list that has
\* them, those of listdir() among its files.
LEMMA DirIsOwned ==
    ASSUME TypeInv, OwnInv, NEW k \in DOMAIN stack, NEW p \in DOMAIN stack[k].dirs
    PROVE  \E o \in Owners : \E r \in DOMAIN Owned(o) :
              /\ Owned(o)[r] = stack[k].dirs[p]
              /\ o = IF k = 1 THEN 0 ELSE k
              /\ k = 1 => r = p
<1>1. Len(stack) \in Nat /\ k \in 1..Len(stack) /\ stack # << >>
  BY FrameTypes
<1>2. CASE k = 1
  <2>1. 0 \in Owners /\ Owned(0) = stack[k].dirs
    BY <1>1, <1>2 DEF Owners, Owned
  <2> QED BY <1>2, <2>1
<1>3. CASE k # 1
  <2>1. k \in 2..Len(stack) /\ k \in Owners /\ Owned(k) = stack[k].files
    BY <1>1, <1>3 DEF Owners, Owned
  <2>2. PICK r \in DOMAIN stack[k].files : stack[k].files[r] = stack[k].dirs[p]
    BY <2>1 DEF OwnInv, SubdirsInv
  <2> QED BY <1>3, <2>1, <2>2
<1> QED BY <1>2, <1>3

\* No directory is to be listed twice.
LEMMA DirsDiffer ==
    ASSUME TypeInv, OwnInv, DirsOnce,
           NEW j \in DOMAIN stack, NEW p \in DOMAIN stack[j].dirs,
           NEW k \in DOMAIN stack, NEW q \in DOMAIN stack[k].dirs,
           stack[j].dirs[p] = stack[k].dirs[q]
    PROVE  j = k /\ p = q
<1>1. PICK o \in Owners : \E r \in DOMAIN Owned(o) :
         /\ Owned(o)[r] = stack[j].dirs[p] /\ o = (IF j = 1 THEN 0 ELSE j)
         /\ j = 1 => r = p
  BY DirIsOwned
<1>2. PICK r \in DOMAIN Owned(o) :
         /\ Owned(o)[r] = stack[j].dirs[p] /\ o = (IF j = 1 THEN 0 ELSE j)
         /\ j = 1 => r = p
  BY <1>1
<1>3. PICK u \in Owners : \E s \in DOMAIN Owned(u) :
         /\ Owned(u)[s] = stack[k].dirs[q] /\ u = (IF k = 1 THEN 0 ELSE k)
         /\ k = 1 => s = q
  BY DirIsOwned
<1>4. PICK s \in DOMAIN Owned(u) :
         /\ Owned(u)[s] = stack[k].dirs[q] /\ u = (IF k = 1 THEN 0 ELSE k)
         /\ k = 1 => s = q
  BY <1>3
<1>5. o = u /\ r = s
  BY <1>2, <1>4 DEF OwnInv, OnceInv
<1>6. j \in Nat /\ k \in Nat /\ j # 0 /\ k # 0
  BY FrameTypes
<1>7. j = k /\ (j = 1 => p = q)
  BY <1>2, <1>4, <1>5, <1>6
<1>8. j # 1 => j \in 2..Len(stack)
  BY FrameTypes
<1> QED BY <1>7, <1>8 DEF DirsOnce

LEMMA AppendOnce ==
    ASSUME NEW S, NEW s \in Seq(S), NEW x, \A n \in DOMAIN s : s[n] # x,
           \A m, n \in DOMAIN s : s[m] = s[n] => m = n
    PROVE  \A m, n \in DOMAIN Append(s, x) : Append(s, x)[m] = Append(s, x)[n] => m = n
<1> DEFINE t == Append(s, x)
<1>1. /\ DOMAIN t = (DOMAIN s) \cup {Len(s) + 1}
      /\ t[Len(s) + 1] = x /\ \A p \in DOMAIN s : t[p] = s[p]
  OBVIOUS
<1> HIDE DEF t
<1>2. \A m, n \in DOMAIN t : t[m] = t[n] => m = n
  BY <1>1
<1> QED BY <1>2 DEF t

LEMMA DirsOnceStep ==
    ASSUME TypeInv, TypeInv', OwnInv, DirsOnce, FramesGrow
    PROVE  DirsOnce'
<1> SUFFICES ASSUME NEW k \in 2..Len(stack'),
                    NEW p \in DOMAIN stack'[k].dirs, NEW q \in DOMAIN stack'[k].dirs,
                    stack'[k].dirs[p] = stack'[k].dirs[q]
             PROVE  p = q
  BY DEF DirsOnce
<1>1. k \in DOMAIN stack' /\ k # 1
  BY FrameTypes
<1>2. FrameKept(k) \/ FrameGrew(k)
  BY <1>1 DEF FramesGrow
<1>3. CASE FrameKept(k)
  BY <1>3, DirsDiffer DEF FrameKept
<1>4. CASE FrameGrew(k)
  <2>1. k \in DOMAIN stack
    BY <1>4 DEF FrameGrew
  <2>2. PICK x \in Pending \cup {Len(heap) + 1} : stack'[k].dirs = Append(stack[k].dirs, x)
    BY <1>4 DEF FrameGrew
  <2>3. PICK s \in Seq(1..Len(heap)) : s = stack[k].dirs
    BY <2>1, FrameTypes
  <2>4. \A n \in DOMAIN s : Listed(s[n])
    <3>1. k \in 1..Len(stack)
      BY <2>1, FrameTypes
    <3> QED BY <2>3, <3>1, ReachedAreListed, Zenon
  <2>5. ~Listed(x)
    <3>1. Len(heap) \in Nat
      BY FrameTypes
    <3>2. x \in 1..Len(heap) => (x \in Pending)
      BY <3>1
    <3>3. (\A i \in 1..Len(heap) : ~(Listed(i) /\ i \in Pending))
          /\ (\A i : Listed(i) => i \in 1..Len(heap))
      BY ListedAreMade DEF OwnInv, FreedInv
    <3> QED BY <3>2, <3>3, Zenon
  <2>6. \A n \in DOMAIN s : s[n] # x
    BY <2>4, <2>5
  <2>7. \A m, n \in DOMAIN s : s[m] = s[n] => m = n
    BY <2>1, <2>3, DirsDiffer
  <2>8. \A m, n \in DOMAIN Append(s, x) : Append(s, x)[m] = Append(s, x)[n] => m = n
    BY <2>6, <2>7, AppendOnce, Zenon
  <2> QED BY <2>2, <2>3, <2>8, Zenon
<1> QED BY <1>2, <1>3, <1>4

\* The directory being listed is not one that is yet to be listed.
LEMMA TopDirWaitsNot ==
    ASSUME TypeInv, OwnInv, DirsOnce, stack # << >>
    PROVE  ~DirWaits(Top.dir)
<1> SUFFICES ASSUME NEW k \in DOMAIN stack, NEW n \in DOMAIN stack[k].dirs,
                    n > stack[k].listed, Top.dir = stack[k].dirs[n]
             PROVE  FALSE
  BY DEF DirWaits
<1>1. /\ Len(stack) \in Nat \ {0} /\ stack[k].listed \in Nat
      /\ stack[k].dirs \in Seq(1..Len(heap)) /\ Len(heap) \in Nat
      /\ DOMAIN stack = 1..Len(stack)
  BY FrameTypes
<1>2. CASE Len(stack) = 1
  <2>1. Top.dir = 0
    BY <1>2 DEF TypeInv, CallsInv, Top
  <2>2. stack[k].dirs[n] \in 1..Len(heap)
    <3>1. \A s \in Seq(1..Len(heap)) : \A i \in DOMAIN s : s[i] \in 1..Len(heap)
      OBVIOUS
    <3> QED BY <1>1, <3>1, Zenon
  <2> QED BY <1>1, <2>1, <2>2
<1>3. CASE Len(stack) # 1
  <2>1. PICK j \in DOMAIN stack : j = Len(stack) - 1
    <3>1. \A m \in Nat \ {0} : m # 1 => m - 1 \in 1..m
      OBVIOUS
    <3>2. Len(stack) - 1 \in DOMAIN stack
      BY <1>1, <1>3, <3>1, Zenon
    <3> QED BY <3>2
  <2>2. Len(stack) \in 2..Len(stack)
    BY <1>1, <1>3
  <2>3. stack[j].listed \in 1..Len(stack[j].dirs) /\ Top.dir = stack[j].dirs[stack[j].listed]
    <3>1. \A i \in 2..Len(stack) :
             /\ stack[i - 1].listed \in 1..Len(stack[i - 1].dirs)
             /\ stack[i].dir = stack[i - 1].dirs[stack[i - 1].listed]
      BY DEF TypeInv, CallsInv
    <3> QED BY <2>1, <2>2, <3>1, Zenon DEF Top
  <2>4. stack[j].dirs \in Seq(1..Len(heap))
    BY FrameTypes
  <2>5. PICK p \in DOMAIN stack[j].dirs : p = stack[j].listed
    BY <2>3, <2>4
  <2>6. stack[j].dirs[p] = stack[k].dirs[n]
    BY <2>3, <2>5
  <2>7. j = k /\ p = n
    BY <2>6, DirsDiffer, Zenon
  <2> QED BY <1>1, <2>5, <2>7
<1> QED BY <1>2, <1>3

\* What waits after a step waited before it or is a File that the step made.
LEMMA DirWaitsStep ==
    ASSUME TypeInv, TypeInv', FramesGrow, NEW d, DirWaits(d)'
    PROVE  DirWaits(d) \/ d \in Pending \/ d = Len(heap) + 1
<1>1. PICK k \in DOMAIN stack' : \E n \in DOMAIN stack'[k].dirs :
         n > stack'[k].listed /\ d = stack'[k].dirs[n]
  BY DEF DirWaits
<1>2. PICK n \in DOMAIN stack'[k].dirs : n > stack'[k].listed /\ d = stack'[k].dirs[n]
  BY <1>1
<1>3. n \in Nat /\ stack'[k].listed \in Nat
  <2>1. stack'[k].dirs \in Seq(1..Len(heap')) /\ stack'[k].listed \in Nat
    <3>1. stack' \in Seq(Frames(Len(heap'))) /\ Len(heap') \in Nat
      BY DEF TypeInv, Parts, HeapType
    <3>2. stack'[k] \in Frames(Len(heap'))
      BY <3>1
    <3> QED BY <3>1, <3>2, FrameFields, Zenon
  <2>2. \A s \in Seq(1..Len(heap')) : \A i \in DOMAIN s : i \in Nat
    OBVIOUS
  <2> QED BY <2>1, <2>2, Zenon
<1>4. CASE FrameKept(k)
  <2>1. /\ k \in DOMAIN stack /\ stack'[k].dirs = stack[k].dirs
        /\ stack'[k].listed >= stack[k].listed /\ stack[k].listed \in Nat
    BY <1>4, FrameTypes DEF FrameKept
  <2>2. n > stack[k].listed
    BY <1>2, <1>3, <2>1
  <2> QED BY <1>2, <2>1, <2>2 DEF DirWaits
<1>5. CASE FrameGrew(k)
  <2>1. PICK x \in Pending \cup {Len(heap) + 1} :
          /\ k \in DOMAIN stack /\ stack'[k].listed = stack[k].listed
          /\ stack'[k].dirs = Append(stack[k].dirs, x)
    BY <1>5 DEF FrameGrew
  <2>2. PICK s \in Seq(1..Len(heap)) : s = stack[k].dirs
    BY <2>1, FrameTypes
  <2>3. (n \in DOMAIN s /\ Append(s, x)[n] = s[n]) \/ Append(s, x)[n] = x
    BY <1>2, <2>1, <2>2, AppendIs
  <2> QED BY <1>2, <2>1, <2>2, <2>3 DEF DirWaits
<1> QED BY <1>1, <1>2, <1>4, <1>5 DEF FramesGrow

LEMMA TopDirStays ==
    ASSUME TypeInv, [Next]_vars, pc' \in {"open", "read", "entry"}
    PROVE  \/ NextDir
           \/ pc \in {"open", "read", "entry"} /\ Top'.dir = Top.dir
<1>1. CASE ReadEntry \/ StatEntry
  <2>1. pc # "done" /\ pc \in {"read", "entry"} /\ Cur = Len(heap)
    BY <1>1 DEF ReadEntry, StatEntry, Cur
  <2>2. Top \in Frames(Len(heap))
    BY <2>1, TopFacts
  <2>3. stack' = stack \/ \E f : stack' = WithTop(f) /\ f.dir = Top.dir
    <3>1. \/ stack' = stack
          \/ \E s : stack' = WithTop([Top EXCEPT !.files = s])
          \/ \E s, r : stack' = WithTop([Top EXCEPT !.files = s, !.dirs = r])
      <4>1. CASE ReadEntry
        BY <4>1, ReadEntrySteps, Zenon
      <4>2. CASE StatEntry
        <5>1. \/ stack' = stack
              \/ stack' = WithTop([Top EXCEPT !.files = Append(Top.files, Len(heap)),
                                             !.dirs = Top.dirs])
              \/ stack' = WithTop([Top EXCEPT !.files = Append(Top.files, Len(heap)),
                                             !.dirs = Append(Top.dirs, Len(heap))])
          BY <4>2, EntryGoesOn
        <5> QED BY <5>1, Zenon
      <4> QED BY <1>1, <4>1, <4>2
    <3>2. ASSUME NEW s, stack' = WithTop([Top EXCEPT !.files = s])
          PROVE  \E f : stack' = WithTop(f) /\ f.dir = Top.dir
      <4>1. PICK f : f = [Top EXCEPT !.files = s]
        OBVIOUS
      <4>2. f.dir = Top.dir
        BY <2>2, <4>1 DEF Frames
      <4> QED BY <3>2, <4>1, <4>2, Zenon
    <3>3. ASSUME NEW s, NEW r, stack' = WithTop([Top EXCEPT !.files = s, !.dirs = r])
          PROVE  \E f : stack' = WithTop(f) /\ f.dir = Top.dir
      <4>1. PICK f : f = [Top EXCEPT !.files = s, !.dirs = r]
        OBVIOUS
      <4>2. f.dir = Top.dir
        BY <2>2, <4>1 DEF Frames
      <4> QED BY <3>3, <4>1, <4>2, Zenon
    <3> QED BY <3>1, <3>2, <3>3, Zenon
  <2>4. CASE stack' = stack
    BY <2>1, <2>4 DEF Top
  <2>5. ASSUME NEW f, stack' = WithTop(f), f.dir = Top.dir PROVE Top'.dir = Top.dir
    BY <2>1, <2>5, TopIs DEF Top
  <2> QED BY <2>1, <2>3, <2>4, <2>5
<1>2. CASE Open \/ Change \/ UNCHANGED vars
  <2>1. stack' = stack /\ pc \in {"open", "read", "entry"}
    BY <1>2 DEF Open, Change, vars
  <2> QED BY <2>1 DEF Top
<1>3. CASE \/ Operand \/ IsLinkToDir \/ OperandsDone \/ StatFile \/ FollowFile
           \/ PrintFiles \/ DirsDone \/ OpenShortage \/ ReadEnd \/ ReadFault
           \/ ReadShortage \/ Return
  BY <1>3 DEF Operand, PlaceOperand, IsLinkToDir, OperandsDone, StatFile, FollowFile,
              PrintFiles, DirsDone, OpenShortage, ReadEnd, ReadFault, ReadShortage, CloseStream, Return
<1> QED BY <1>1, <1>2, <1>3 DEF Next, Program, Terminated

LEMMA NextDirWaited ==
    ASSUME TypeInv, TypeInv', NextDir
    PROVE  DirWaits(Top'.dir)
<1>1. pc # "done" /\ Top.listed < Len(Top.dirs)
  BY DEF NextDir
<1>2. /\ Len(stack) \in Nat \ {0} /\ Top.listed \in Nat /\ Top.dirs \in Seq(1..Len(heap))
  BY <1>1, TopFacts
<1>3. PICK n : n = Top.listed + 1
  OBVIOUS
<1>4. n \in DOMAIN Top.dirs /\ n > Top.listed
  BY <1>1, <1>2, <1>3
<1>5. PICK f, g : stack' = Append(WithTop(f), g) /\ g.dir = Top.dirs[n]
  <2>1. PICK g : g = Frame(Top.dirs[n], FALSE)
    OBVIOUS
  <2>2. g.dir = Top.dirs[n]
    BY <2>1 DEF Frame
  <2>3. \E f : stack' = Append(WithTop(f), g)
    BY <1>3, <2>1 DEF NextDir
  <2> QED BY <2>2, <2>3, Zenon
<1>6. Top'.dir = Top.dirs[n]
  <2>1. Len(stack') = Len(stack) + 1 /\ stack'[Len(stack) + 1] = g
    BY <1>1, <1>5, PushedIs, Zenon
  <2> QED BY <1>5, <2>1 DEF Top
<1>7. Len(stack) \in DOMAIN stack
  BY <1>2, FrameTypes
<1> QED BY <1>4, <1>6, <1>7 DEF DirWaits, Top

LEMMA PendingIsNew ==
    ASSUME TypeInv, [Next]_vars, NEW d \in Pending'
    PROVE  d \in Pending \/ d = Len(heap) + 1
<1>1. pc' \in {"entry", "islinktodir"} /\ d = Len(heap')
  BY DEF Pending
<1>2. CASE Change \/ UNCHANGED vars
  <2>1. pc' = pc /\ heap' = heap
    BY <1>2 DEF Change, vars
  <2> QED BY <1>1, <2>1 DEF Pending
<1>3. CASE Operand \/ ReadEntry
  <2>1. heap \in Seq(FileType)
    BY DEF TypeInv, Parts, HeapType
  <2>2. (heap' = heap /\ pc' = pc) \/ \E f : heap' = Append(heap, f)
    <3>1. CASE Operand
      <4>1. PICK st : PlaceOperand(operands[looked + 1], st)
        BY <3>1 DEF Operand
      <4> QED BY <4>1, Zenon DEF PlaceOperand
    <3>2. CASE ReadEntry
      BY <3>2, Zenon DEF ReadEntry
    <3> QED BY <1>3, <3>1, <3>2
  <2>3. \A f : Len(Append(heap, f)) = Len(heap) + 1
    BY <2>1
  <2> QED BY <1>1, <2>2, <2>3 DEF Pending
<1>4. CASE \/ IsLinkToDir \/ OperandsDone \/ StatFile \/ FollowFile
           \/ PrintFiles \/ NextDir \/ DirsDone \/ Open \/ OpenShortage \/ StatEntry
           \/ ReadEnd \/ ReadFault \/ ReadShortage \/ Return
  BY <1>1, <1>4 DEF IsLinkToDir, OperandsDone, StatFile, FollowFile, PrintFiles, NextDir,
     DirsDone, Open, OpenShortage, StatEntry, ReadEnd, ReadFault, ReadShortage,
     CloseStream, Return
<1> QED BY <1>2, <1>3, <1>4 DEF Next, Program, Terminated

LEMMA WaitingStep ==
    ASSUME TypeInv, TypeInv', [Next]_vars, NEW d, Waiting(d)'
    PROVE  Waiting(d) \/ d = Len(heap) + 1
<1>1. CASE DirWaits(d)'
  BY <1>1, FramesStep, DirWaitsStep DEF Waiting
<1>2. CASE d \in Pending'
  BY <1>2, PendingIsNew DEF Waiting
<1>3. CASE pc' \in {"open", "read", "entry"} /\ d = Top'.dir
  BY <1>3, TopDirStays, NextDirWaited DEF Waiting
<1> QED BY <1>1, <1>2, <1>3 DEF Waiting

\* What a step prints.
RowsEvent(rows) == [event |-> "rows", dir |-> Top.dir, rows |-> rows]
TotalEvent == [event |-> "total", dir |-> Top.dir, blocks |-> total]

LEMMA OneMoreCounted ==
    ASSUME NEW S, NEW o \in Seq(S), NEW x
    PROVE  Counted(Append(o, x)) = IF x.event \in {"rows", "total"}
                                   THEN Counted(o) \cup {x} ELSE Counted(o)
<1> DEFINE t == Append(o, x)
<1>1. /\ DOMAIN t = (DOMAIN o) \cup {Len(o) + 1}
      /\ t[Len(o) + 1] = x /\ \A p \in DOMAIN o : t[p] = o[p]
  OBVIOUS
<1> HIDE DEF t
<1>2. \A e : e \in Counted(t) <=>
               e \in Counted(o) \/ (e = x /\ x.event \in {"rows", "total"})
  BY <1>1 DEF Counted
<1>3. Counted(t) = IF x.event \in {"rows", "total"} THEN Counted(o) \cup {x} ELSE Counted(o)
  BY <1>2, Zenon
<1> QED BY <1>3 DEF t

LEMMA NextDirCounts ==
    ASSUME TypeInv, NextDir
    PROVE  Counted(out') = Counted(out)
<1>1. out \in Seq(Events(Len(heap)))
  BY DEF TypeInv, Parts, OutType
<1>2. PICK x, y : /\ out' = out \/ out' = Append(out, y) \/ out' = Append(Append(out, x), y)
                  /\ x.event = "blank" /\ y.event = "label"
  <2>1. PICK y : y = [event |-> "label", dir |-> Top.dirs[Top.listed + 1]]
    OBVIOUS
  <2>2. PICK x : x = [event |-> "blank"]
    OBVIOUS
  <2>3. out' = out \/ out' = Append(out, y) \/ out' = Append(Append(out, x), y)
    BY <2>1, <2>2, NextDirAnnounces DEF Announced
  <2>4. x.event = "blank" /\ y.event = "label"
    BY <2>1, <2>2
  <2> QED BY <2>3, <2>4, Zenon
<1>3. Counted(Append(out, x)) = Counted(out) /\ Counted(Append(out, y)) = Counted(out)
  BY <1>1, <1>2, OneMoreCounted
<1>4. Counted(Append(Append(out, x), y)) = Counted(Append(out, x))
  <2> DEFINE S == Events(Len(heap)) \cup {x}
  <2>1. Append(out, x) \in Seq(S)
    <3>1. out \in Seq(S)
      BY <1>1, SeqMonotonic
    <3> HIDE DEF S
    <3>2. x \in S
      BY DEF S
    <3> QED BY <3>1, <3>2
  <2> HIDE DEF S
  <2>2. y.event \notin {"rows", "total"}
    BY <1>2
  <2> QED BY <2>1, <2>2, OneMoreCounted, Zenon
<1> QED BY <1>2, <1>3, <1>4

LEMMA PrintFilesCounts ==
    ASSUME TypeInv, PrintFiles
    PROVE  \E rows \in RowSets :
              Counted(out') = IF Top.files = << >> THEN Counted(out)
                              ELSE Counted(out) \cup {RowsEvent(rows)}
<1>1. out \in Seq(Events(Len(heap)))
  BY DEF TypeInv, Parts, OutType
<1>2. PICK rows \in RowSets :
         out' = IF Top.files = << >> THEN out ELSE Append(out, RowsEvent(rows))
  BY Zenon DEF PrintFiles, RowsEvent
<1>3. RowsEvent(rows).event = "rows"
  BY DEF RowsEvent
<1>4. Counted(Append(out, RowsEvent(rows))) = Counted(out) \cup {RowsEvent(rows)}
  BY <1>1, <1>3, OneMoreCounted
<1> QED BY <1>2, <1>4, Zenon

\* Where no File has lacked an answer, the rows are those of the answers.
LEMMA RowsUnlacked ==
    ASSUME \A i \in InTopFiles : ~heap[i].lacked
    PROVE  \A rows \in RowSets : rows = TopRows
<1> SUFFICES ASSUME NEW rows \in RowSets PROVE rows = TopRows
  OBVIOUS
<1>1. PICK shown : rows = {IF heap[i].lacked THEN [path |-> heap[i].path, shows |-> shown[i]]
                           ELSE RowOf(heap[i]) : i \in InTopFiles}
  BY Zenon DEF RowSets
<1>2. \A r : r \in rows <=> r \in TopRows
  BY <1>1 DEF TopRows
<1> QED BY <1>2, Zenon

LEMMA CloseStreamCounts ==
    ASSUME TypeInv, CloseStream
    PROVE  Counted(out') = IF opts.dirtotals THEN Counted(out) \cup {TotalEvent}
                           ELSE Counted(out)
<1>1. out \in Seq(Events(Len(heap)))
  BY DEF TypeInv, Parts, OutType
<1>2. out' = IF opts.dirtotals THEN Append(out, TotalEvent) ELSE out
  BY DEF CloseStream, TotalEvent
<1>3. TotalEvent.event = "total"
  BY DEF TotalEvent
<1> QED BY <1>1, <1>2, <1>3, OneMoreCounted

LEMMA CountedStep ==
    ASSUME TypeInv, [Next]_vars
    PROVE  \/ Counted(out') = Counted(out)
           \/ /\ PrintFiles
              /\ \E rows : Counted(out') = Counted(out) \cup {RowsEvent(rows)}
           \/ CloseStream /\ pc = "read" /\ opts.dirtotals
              /\ Counted(out') = Counted(out) \cup {TotalEvent}
<1>1. CASE NextDir
  BY <1>1, NextDirCounts
<1>2. CASE PrintFiles
  BY <1>2, PrintFilesCounts, Zenon
<1>3. CASE ReadEnd \/ ReadFault \/ ReadShortage
  <2>1. CloseStream /\ pc = "read"
    BY <1>3 DEF ReadEnd, ReadFault, ReadShortage
  <2> QED BY <2>1, CloseStreamCounts
<1>4. CASE \/ Operand \/ IsLinkToDir \/ OperandsDone \/ StatFile \/ FollowFile
           \/ DirsDone \/ Open \/ OpenShortage \/ ReadEntry \/ StatEntry \/ Return
           \/ Change \/ UNCHANGED vars
  <2>1. out' = out
    BY <1>4 DEF Operand, IsLinkToDir, OperandsDone, StatFile, FollowFile, DirsDone, Open,
       OpenShortage, ReadEntry, StatEntry, Return, Change, vars
  <2> QED BY <2>1
<1> QED BY <1>1, <1>2, <1>3, <1>4 DEF Next, Program, Terminated

LEMMA SeenAreMade ==
    ASSUME TypeInv
    PROVE  /\ \A e \in Counted(out) : e.dir \in 0..Len(heap)
           /\ \A e \in Counted(out) : e.event = "total" => e.dir \in 1..Len(heap)
<1>1. out \in Seq(Events(Len(heap)))
  BY DEF TypeInv, Parts, OutType
<1>2. \A j \in DOMAIN out : out[j] \in Events(Len(heap))
  BY <1>1
<1>3. \A e \in Events(Len(heap)) :
         /\ e.event \in {"rows", "total"} => e.dir \in 0..Len(heap)
         /\ e.event = "total" => e.dir \in 1..Len(heap)
  BY DEF Events
<1> QED BY <1>2, <1>3, Zenon DEF Counted

LEMMA UnseenStep ==
    ASSUME TypeInv, TypeInv', OwnInv, DirsOnce, UnseenInv, [Next]_vars
    PROVE  UnseenInv'
<1> SUFFICES ASSUME NEW d, Waiting(d)', Seen(out', d) PROVE FALSE
  BY DEF UnseenInv
<1>1. Waiting(d) \/ d = Len(heap) + 1
  BY WaitingStep
<1>2. Len(heap) \in Nat
  BY FrameTypes
<1>3. ~Seen(out, d)
  <2>1. CASE Waiting(d)
    BY <2>1 DEF UnseenInv
  <2>2. CASE d = Len(heap) + 1
    <3>1. d \notin 0..Len(heap)
      BY <1>2, <2>2
    <3> QED BY <3>1, SeenAreMade DEF Seen
  <2> QED BY <1>1, <2>1, <2>2
<1>4. /\ PrintFiles \/ (CloseStream /\ pc = "read")
      /\ d = Top.dir
  <2>1. (\A rows : RowsEvent(rows).dir = Top.dir) /\ TotalEvent.dir = Top.dir
    BY DEF RowsEvent, TotalEvent
  <2> QED BY <1>3, <2>1, CountedStep, Zenon DEF Seen
<1>5. pc # "done" /\ pc' \in {"files", "dirs", "return"}
  BY <1>4 DEF PrintFiles, CloseStream
<1>6. DirWaits(d)'
  BY <1>5 DEF Waiting, Pending
<1>7. d \notin Pending
  BY <1>4 DEF PrintFiles, Pending
<1>8. d # Len(heap) + 1
  <2>1. Top.dir \in 0..Len(heap)
    BY <1>5, TopFacts
  <2> QED BY <1>2, <1>4, <2>1
<1>9. DirWaits(d)
  BY <1>6, <1>7, <1>8, FramesStep, DirWaitsStep
<1>10. stack # << >>
  BY <1>5, TopFacts
<1> QED BY <1>4, <1>9, <1>10, TopDirWaitsNot

LEMMA NoneSeen == \A o, d : ~Seen(o, d) => RowsOf(o, d) = {}
  BY DEF Seen, RowsOf

LEMMA RowsOfMore ==
    ASSUME NEW o, NEW p, NEW x, Counted(p) = Counted(o) \cup {x}, NEW d
    PROVE  RowsOf(p, d) = IF x.event = "rows" /\ x.dir = d
                          THEN RowsOf(o, d) \cup x.rows ELSE RowsOf(o, d)
<1>1. \A r : r \in RowsOf(p, d) <=>
               r \in RowsOf(o, d) \/ (x.event = "rows" /\ x.dir = d /\ r \in x.rows)
  BY DEF RowsOf
<1> QED BY <1>1, Zenon

LEMMA RowsLaterStep ==
    ASSUME TypeInv, UnseenInv, RowsLater, [Next]_vars
    PROVE  RowsLater'
<1> SUFFICES ASSUME pc' = "files", Len(stack') >= 2 PROVE RowsOf(out', Top'.dir) = {}
  BY DEF RowsLater
<1>1. CASE OperandsDone
  <2>1. pc # "done" /\ Len(stack) = 1
    BY <1>1 DEF OperandsDone, TypeInv, PcInv
  <2>2. \E f : stack' = WithTop(f)
    BY <1>1, Zenon DEF OperandsDone
  <2>3. Len(stack') = Len(stack)
    BY <2>1, <2>2, TopIs, Zenon
  <2> QED BY <2>1, <2>3
<1>2. CASE ReadEnd \/ ReadFault \/ ReadShortage
  <2>1. CloseStream /\ pc = "read" /\ stack' = stack
    BY <1>2 DEF ReadEnd, ReadFault, ReadShortage
  <2>2. ~Seen(out, Top.dir)
    BY <2>1 DEF UnseenInv, Waiting
  <2>3. RowsOf(out, Top.dir) = {}
    BY <2>2, NoneSeen
  <2>4. RowsOf(out', Top.dir) = {}
    <3>1. CASE opts.dirtotals
      <4>1. Counted(out') = Counted(out) \cup {TotalEvent} /\ TotalEvent.event # "rows"
        BY <2>1, <3>1, CloseStreamCounts DEF TotalEvent
      <4>2. RowsOf(out', Top.dir) = IF TotalEvent.event = "rows" /\ TotalEvent.dir = Top.dir
                                    THEN RowsOf(out, Top.dir) \cup TotalEvent.rows
                                    ELSE RowsOf(out, Top.dir)
        BY <4>1, RowsOfMore
      <4> QED BY <2>3, <4>1, <4>2
    <3>2. CASE ~opts.dirtotals
      <4>1. Counted(out') = Counted(out)
        BY <2>1, <3>2, CloseStreamCounts
      <4> QED BY <2>3, <4>1 DEF RowsOf
    <3> QED BY <3>1, <3>2
  <2> QED BY <2>1, <2>4 DEF Top
<1>3. CASE StatFile \/ FollowFile \/ Change \/ UNCHANGED vars
  <2>1. pc = "files" /\ stack' = stack /\ out' = out
    BY <1>3 DEF StatFile, FollowFile, Change, vars
  <2> QED BY <2>1 DEF RowsLater, Top
<1>4. CASE \/ Operand \/ IsLinkToDir \/ PrintFiles \/ NextDir
           \/ DirsDone \/ Open \/ OpenShortage \/ ReadEntry \/ StatEntry \/ Return
  BY <1>4 DEF Operand, PlaceOperand, IsLinkToDir, PrintFiles, NextDir, DirsDone, Open,
              OpenShortage, ReadEntry, StatEntry, Return
<1> QED BY <1>1, <1>2, <1>3, <1>4 DEF Next, Program, Terminated

\* What reading an entry and looking at it do to the Files of the directory.
LEMMA TopFilesAfter ==
    ASSUME TypeInv, pc # "done", NEW f, stack' = WithTop(f),
           NEW x, f.files = Append(Top.files, x), f.dir = Top.dir
    PROVE  /\ Len(stack') = Len(stack) /\ Top'.dir = Top.dir
           /\ InTopFiles' = InTopFiles \cup {x}
<1>1. /\ Len(stack') = Len(stack) /\ stack'[Len(stack)] = f
  BY TopIs, Zenon
<1>2. PICK s \in Seq(1..Len(heap)) : s = Top.files
  BY TopFacts
<1>3. Top'.files = Append(s, x) /\ Top'.dir = Top.dir
  BY <1>1, <1>2 DEF Top
<1>4. \A i : (\E k \in DOMAIN Append(s, x) : i = Append(s, x)[k])
             <=> (\E k \in DOMAIN s : i = s[k]) \/ i = x
  <2>1. /\ \A q \in DOMAIN s : q \in DOMAIN Append(s, x) /\ Append(s, x)[q] = s[q]
        /\ \E q \in DOMAIN Append(s, x) : Append(s, x)[q] = x
        /\ \A q \in DOMAIN Append(s, x) :
              (q \in DOMAIN s /\ Append(s, x)[q] = s[q]) \/ Append(s, x)[q] = x
    BY AppendIs, Zenon
  <2> QED BY <2>1, Zenon
<1>5. \A i : i \in InTopFiles' <=> i \in InTopFiles \cup {x}
  <2>1. InTopFiles' = {Append(s, x)[k] : k \in DOMAIN Append(s, x)}
    BY <1>3, Zenon DEF InTopFiles
  <2>2. InTopFiles = {s[k] : k \in DOMAIN s}
    BY <1>2, Zenon DEF InTopFiles
  <2> QED BY <1>4, <2>1, <2>2, Zenon
<1> QED BY <1>1, <1>3, <1>5, Zenon

LEMMA TopFilesAreMade ==
    ASSUME TypeInv, pc # "done"
    PROVE  /\ InTopFiles \subseteq 1..Len(heap)
           /\ \A i \in InTopFiles : Listed(i)
<1>1. /\ Len(stack) \in Nat \ {0} /\ Top.files \in Seq(1..Len(heap))
      /\ Len(stack) \in Owners /\ Owned(Len(stack)) = Top.files
  BY TopFacts DEF Owners, Owned, Top
<1>2. \A s \in Seq(1..Len(heap)) : \A k \in DOMAIN s : s[k] \in 1..Len(heap)
  OBVIOUS
<1>3. InTopFiles \subseteq 1..Len(heap)
  BY <1>1, <1>2, Zenon DEF InTopFiles
<1>4. \A i \in InTopFiles : Listed(i)
  BY <1>1, Zenon DEF InTopFiles, Listed
<1> QED BY <1>3, <1>4

LEMMA ReadEntryIs ==
    ASSUME TypeInv, ReadEntry
    PROVE  \E name \in unread :
              /\ unread' = unread \ {name} /\ UNCHANGED <<total, opts>>
              /\ \/ heap' = heap /\ stack' = stack /\ pc' = "read"
                 \/ /\ heap' = Append(heap, NewFile(Append(heap[Top.dir].path, name)))
                    /\ \/ pc' = "entry" /\ stack' = stack
                       \/ /\ ~opts.dirtotals /\ pc' = "read"
                          /\ stack' = WithTop([Top EXCEPT
                               !.files = Append(Top.files, Len(heap) + 1)])
  BY Zenon DEF ReadEntry, Cur, world

LEMMA StatEntryIs ==
    ASSUME TypeInv, StatEntry
    PROVE  /\ UNCHANGED <<unread, opts>> /\ pc = "entry" /\ pc' = "read"
           /\ Len(heap) \in 1..Len(heap)
           /\ Len(heap') = Len(heap)
           /\ \A i \in 1..Len(heap) : heap'[i].path = heap[i].path
           /\ \A i \in 1..Len(heap) : i # Len(heap) => heap'[i] = heap[i]
           /\ \/ stack' = stack /\ total' = total
              \/ \E st, f :
                    /\ heap'[Len(heap)] = StatIs(heap[Len(heap)], st)
                    /\ total' = IF opts.dirtotals THEN total + Blocks(st) ELSE total
                    /\ stack' = WithTop(f) /\ f.dir = Top.dir
                    /\ f.files = Append(Top.files, Len(heap))
<1>1. /\ pc = "entry" /\ pc' = "read" /\ UNCHANGED <<unread, opts>> /\ Cur = Len(heap)
      /\ pc # "done"
  BY DEF StatEntry, world, Cur
<1>2. heap \in Seq(FileType) /\ Len(heap) >= 1 /\ Len(heap) \in Nat
  BY <1>1 DEF TypeInv, PcInv, Parts, HeapType
<1>3. PICK n \in 1..Len(heap) : n = Len(heap)
  BY <1>2
<1>4. heap[n] \in FileType
  BY <1>2
<1>5. PICK seen, st : PlaceEntry(seen, st)
  BY DEF StatEntry
<1>6. PICK g : /\ heap' = [heap EXCEPT ![n] = g] /\ g.path = heap[n].path
               /\ \/ stack' = stack /\ total' = total
                  \/ /\ g = StatIs(heap[n], st)
                     /\ total' = IF opts.dirtotals THEN total + Blocks(st) ELSE total
                     /\ \E d : stack' = WithTop([Top EXCEPT
                                 !.files = Append(Top.files, n), !.dirs = d])
  <2>1. CASE opts.dirsonly /\ seen # "dir"
    <3>1. PICK g : g = [StatIs(heap[n], st) EXCEPT !.freed = 1]
      OBVIOUS
    <3>2. heap' = [heap EXCEPT ![n] = g] /\ stack' = stack /\ total' = total
      BY <1>1, <1>3, <1>5, <2>1, <3>1 DEF PlaceEntry
    <3>3. g.path = heap[n].path
      BY <1>4, <3>1, FileFields
    <3> QED BY <3>2, <3>3, Zenon
  <2>2. CASE ~(opts.dirsonly /\ seen # "dir")
    <3>1. PICK g : g = StatIs(heap[n], st)
      OBVIOUS
    <3>2. /\ heap' = [heap EXCEPT ![n] = g]
          /\ total' = IF opts.dirtotals THEN total + Blocks(st) ELSE total
      BY <1>1, <1>3, <1>5, <2>2, <3>1 DEF PlaceEntry
    <3>3. PICK d : stack' = WithTop([Top EXCEPT !.files = Append(Top.files, n), !.dirs = d])
      BY <1>1, <1>3, <1>5, <2>2 DEF PlaceEntry
    <3>4. g.path = heap[n].path
      BY <1>4, <3>1, FileFields
    <3> QED BY <3>1, <3>2, <3>3, <3>4, Zenon
  <2> QED BY <2>1, <2>2
<1>7. /\ Len(heap') = Len(heap) /\ heap'[n] = g
      /\ \A i \in 1..Len(heap) : i # n => heap'[i] = heap[i]
  <2>1. heap' = [heap EXCEPT ![n] = g]
    BY <1>6
  <2> QED BY <1>2, <2>1
<1>8. Top \in Frames(Len(heap))
  BY <1>1, TopFacts
<1>9. ASSUME NEW d, stack' = WithTop([Top EXCEPT !.files = Append(Top.files, n), !.dirs = d])
      PROVE  \E f : /\ stack' = WithTop(f) /\ f.dir = Top.dir
                    /\ f.files = Append(Top.files, n)
  <2>1. PICK f : f = [Top EXCEPT !.files = Append(Top.files, n), !.dirs = d]
    OBVIOUS
  <2>2. f.dir = Top.dir /\ f.files = Append(Top.files, n)
    BY <1>8, <2>1 DEF Frames
  <2> QED BY <1>9, <2>1, <2>2, Zenon
<1>10. \A i \in 1..Len(heap) : heap'[i].path = heap[i].path
  BY <1>6, <1>7
<1> QED BY <1>1, <1>3, <1>6, <1>7, <1>9, <1>10

LEMMA OpenIs ==
    ASSUME TypeInv, OwnInv, Open, pc' = "read"
    PROVE  /\ InTopFiles' = {} /\ Pending' = {} /\ total' = 0 /\ opts' = opts
           /\ stack' = stack /\ heap' = heap
<1>1. /\ pc = "open" /\ stack' = stack /\ heap' = heap /\ opts' = opts /\ total' = 0
  BY DEF Open, world
<1>2. Top'.files = << >>
  BY <1>1 DEF OwnInv, SubdirsInv, Top
<1> QED BY <1>1, <1>2 DEF InTopFiles, Pending

LEMMA ReadEntryNames ==
    ASSUME TypeInv, NamesInv, ReadEntry
    PROVE  NamesInv'
<1>1. Parts /\ pc = "read" /\ pc # "done" /\ Len(stack) >= 2
  BY DEF TypeInv, ReadEntry, PcInv
<1>2. /\ Len(heap) \in Nat /\ Top.dir \in 1..Len(heap) /\ Top \in Frames(Len(heap))
      /\ heap \in Seq(FileType) /\ heap[Top.dir] \in FileType
      /\ unread \subseteq AnyName
  <2>1. Len(heap) \in Nat /\ Top.dir \in 1..Len(heap) /\ Top \in Frames(Len(heap))
    BY <1>1, TopFacts
  <2> QED BY <1>1, <2>1 DEF Parts, HeapType, PlainType
<1>3. PICK path \in Seq(AnyName) : path = heap[Top.dir].path
  BY <1>2 DEF FileType
<1>4. PICK name \in unread :
         /\ unread' = unread \ {name}
         /\ \/ heap' = heap /\ stack' = stack /\ pc' = "read"
            \/ /\ heap' = Append(heap, NewFile(Append(path, name)))
               /\ \/ pc' = "entry" /\ stack' = stack
                  \/ /\ pc' = "read"
                     /\ stack' = WithTop([Top EXCEPT !.files = Append(Top.files, Len(heap) + 1)])
  BY <1>3, ReadEntryIs, Zenon
<1>5. \A m : Append(path, m) = Append(path, name) => m = name
  BY <1>3, FrontAndLastOfAppend
<1>6. Pending = {} /\ InTopFiles \subseteq 1..Len(heap)
  BY <1>1, TopFilesAreMade DEF Pending
<1>7. \A m \in unread : \A i \in InTopFiles : heap[i].path # Append(path, m)
  BY <1>1, <1>3 DEF NamesInv
<1>8. CASE heap' = heap /\ stack' = stack /\ pc' = "read"
  <2>1. Top' = Top /\ InTopFiles' = InTopFiles /\ Pending' = {}
    BY <1>8 DEF Top, InTopFiles, Pending
  <2> QED BY <1>3, <1>4, <1>7, <1>8, <2>1 DEF NamesInv
<1>9. CASE /\ heap' = Append(heap, NewFile(Append(path, name)))
           /\ \/ pc' = "entry" /\ stack' = stack
              \/ /\ pc' = "read"
                 /\ stack' = WithTop([Top EXCEPT !.files = Append(Top.files, Len(heap) + 1)])
  <2>1. PICK id : id = Len(heap) + 1
    OBVIOUS
  <2>2. PICK f : f = NewFile(Append(path, name))
    OBVIOUS
  <2>3. f.path = Append(path, name)
    BY <2>2 DEF NewFile
  <2>4. /\ heap'[id] = f /\ Len(heap') = id
        /\ \A i \in 1..Len(heap) : heap'[i] = heap[i]
    <3>1. heap' = Append(heap, f)
      BY <1>9, <2>2
    <3> QED BY <1>2, <2>1, <3>1
  <2>5. /\ Top'.dir = Top.dir
        /\ \/ pc' = "entry" /\ InTopFiles' = InTopFiles /\ Pending' = {id}
           \/ pc' = "read" /\ InTopFiles' = InTopFiles \cup {id} /\ Pending' = {}
    <3>1. CASE pc' = "entry" /\ stack' = stack
      BY <2>4, <3>1 DEF Top, InTopFiles, Pending
    <3>2. CASE /\ pc' = "read"
               /\ stack' = WithTop([Top EXCEPT !.files = Append(Top.files, Len(heap) + 1)])
      <4>1. PICK g : g = [Top EXCEPT !.files = Append(Top.files, id)]
        OBVIOUS
      <4>2. g.files = Append(Top.files, id) /\ g.dir = Top.dir
        BY <1>2, <4>1 DEF Frames
      <4>3. stack' = WithTop(g)
        BY <2>1, <3>2, <4>1
      <4>4. Top'.dir = Top.dir /\ InTopFiles' = InTopFiles \cup {id}
        BY <1>1, <4>2, <4>3, TopFilesAfter, Zenon
      <4> QED BY <3>2, <4>4 DEF Pending
    <3> QED BY <1>9, <3>1, <3>2
  <2>6. heap'[Top'.dir].path = path
    BY <1>2, <1>3, <2>4, <2>5
  <2>7. ASSUME NEW m \in unread', NEW i \in InTopFiles \cup {id}
        PROVE  heap'[i].path # Append(path, m)
    <3>1. m \in unread /\ m # name
      BY <1>4
    <3>2. CASE i = id
      BY <1>5, <2>3, <2>4, <3>1, <3>2
    <3>3. CASE i \in InTopFiles
      BY <1>6, <1>7, <2>4, <3>1, <3>3
    <3> QED BY <3>2, <3>3
  <2>8. ASSUME NEW i \in InTopFiles PROVE heap'[i].path # heap'[id].path
    BY <1>6, <1>7, <2>3, <2>4
  <2> QED BY <2>5, <2>6, <2>7, <2>8 DEF NamesInv
<1> QED BY <1>4, <1>8, <1>9

LEMMA StatEntryNames ==
    ASSUME TypeInv, NamesInv, StatEntry
    PROVE  NamesInv'
<1>1. /\ pc = "entry" /\ pc' = "read" /\ unread' = unread /\ Len(heap) \in 1..Len(heap)
      /\ \A i \in 1..Len(heap) : heap'[i].path = heap[i].path
      /\ \/ stack' = stack
         \/ \E f : /\ stack' = WithTop(f) /\ f.dir = Top.dir
                   /\ f.files = Append(Top.files, Len(heap))
  BY StatEntryIs
<1>2. pc # "done" /\ Len(stack) >= 2
  BY <1>1 DEF TypeInv, PcInv
<1>3. Top.dir \in 1..Len(heap) /\ InTopFiles \subseteq 1..Len(heap)
  BY <1>2, TopFacts, TopFilesAreMade
<1>4. Pending = {Len(heap)} /\ Pending' = {}
  BY <1>1 DEF Pending
<1>5. Top'.dir = Top.dir /\ InTopFiles' \subseteq InTopFiles \cup {Len(heap)}
  <2>1. CASE stack' = stack
    BY <2>1 DEF Top, InTopFiles
  <2>2. ASSUME NEW f, stack' = WithTop(f), f.dir = Top.dir,
               f.files = Append(Top.files, Len(heap))
        PROVE  Top'.dir = Top.dir /\ InTopFiles' = InTopFiles \cup {Len(heap)}
    BY <1>2, <2>2, TopFilesAfter, Zenon
  <2> QED BY <1>1, <2>1, <2>2
<1>6. \A name \in unread : \A i \in InTopFiles \cup {Len(heap)} :
         heap[i].path # Append(heap[Top.dir].path, name)
  BY <1>1, <1>4 DEF NamesInv
<1>7. \A i \in InTopFiles \cup {Len(heap)} : heap'[i].path = heap[i].path
  BY <1>1, <1>3
<1>8. heap'[Top'.dir].path = heap[Top.dir].path
  BY <1>1, <1>3, <1>5
<1>9. \A name \in unread' : \A i \in InTopFiles' :
         heap'[i].path # Append(heap'[Top'.dir].path, name)
  BY <1>1, <1>5, <1>6, <1>7, <1>8
<1> QED BY <1>4, <1>9 DEF NamesInv

LEMMA NamesStep ==
    ASSUME TypeInv, OwnInv, NamesInv, [Next]_vars
    PROVE  NamesInv'
<1>1. CASE Open /\ pc' = "read"
  BY <1>1, OpenIs DEF NamesInv
<1>2. CASE Change \/ UNCHANGED vars
  <2>1. UNCHANGED <<heap, stack, unread, pc>>
    BY <1>2 DEF Change, vars
  <2> QED BY <2>1 DEF NamesInv, InTopFiles, Pending, Top
<1>3. CASE pc' \notin {"read", "entry"}
  BY <1>3 DEF NamesInv
<1>4. CASE \/ Operand \/ IsLinkToDir \/ OperandsDone \/ StatFile \/ FollowFile
           \/ PrintFiles \/ NextDir \/ DirsDone \/ (Open /\ pc' # "read") \/ OpenShortage
           \/ ReadEnd \/ ReadFault \/ ReadShortage \/ Return
  <2>1. pc' \notin {"read", "entry"}
    BY <1>4 DEF Operand, PlaceOperand, IsLinkToDir, OperandsDone, StatFile, FollowFile,
       PrintFiles, NextDir, DirsDone, Open, OpenShortage, ReadEnd, ReadFault, ReadShortage, CloseStream, Return
  <2> QED BY <1>3, <2>1
<1> QED
  BY <1>1, <1>2, <1>4, ReadEntryNames, StatEntryNames, Zenon DEF Next, Program, Terminated

LEMMA TopRowsAreFinite ==
    ASSUME TypeInv, pc # "done"
    PROVE  IsFiniteSet(TopRows)
<1>1. PICK n \in Nat : DOMAIN Top.files = 1..n
  <2>1. Top.files \in Seq(1..Len(heap))
    BY TopFacts
  <2>2. \A s \in Seq(1..Len(heap)) : \E n \in Nat : DOMAIN s = 1..n
    OBVIOUS
  <2> QED BY <2>1, <2>2, Zenon
<1>2. PICK f : f = [k \in 1..n |-> RowOf(heap[Top.files[k]])]
  OBVIOUS
<1>3. TopRows = {f[k] : k \in 1..n}
  <2>1. \A r : r \in TopRows <=> \E k \in 1..n : r = RowOf(heap[Top.files[k]])
    BY <1>1, Zenon DEF TopRows, InTopFiles
  <2>2. \A k \in 1..n : f[k] = RowOf(heap[Top.files[k]])
    BY <1>2
  <2>3. \A r : r \in TopRows <=> \E k \in 1..n : r = f[k]
    BY <2>1, <2>2
  <2> QED BY <2>3, Zenon
<1>4. f \in Surjection(1..n, TopRows)
  <2>1. f \in [1..n -> TopRows]
    BY <1>2, <1>3
  <2>2. \A r \in TopRows : \E k \in 1..n : f[k] = r
    BY <1>3
  <2> QED BY <2>1, <2>2 DEF Surjection
<1>5. IsFiniteSet(1..n)
  BY <1>1, FS_Interval
<1> QED BY <1>4, <1>5, FS_Surjection

\* A row of a total's listing shows what lstat() said.
LEMMA BlocksOfRow ==
    ASSUME TypeInv, Sums, NEW f
    PROVE  RowOf(f).path = f.path /\ Blocks(RowOf(f).shows) = Blocks(f.stat)
<1>1. opts.columns /\ ~opts.targetinfo
  BY ListingAssumption DEF Sums, TypeInv, Parts, PlainType, ListingAssumption
<1>2. RowOf(f).path = f.path
  BY DEF RowOf
<1>3. RowOf(f).shows = IF f.stat \in {"failed", "null"} THEN "?" ELSE f.stat
  BY <1>1 DEF RowOf, Shown
<1> QED BY <1>2, <1>3 DEF Blocks

LEMMA RowsAreKept ==
    ASSUME opts' = opts, InTopFiles' = InTopFiles, \A i \in InTopFiles : heap'[i] = heap[i]
    PROVE  /\ TopRows' = TopRows
           /\ \A i \in InTopFiles' : heap'[i].stat = heap[i].stat
<1>1. \A i \in InTopFiles : RowOf(heap[i])' = RowOf(heap[i])
  BY DEF RowOf, Shown
<1>2. TopRows' = TopRows
  BY <1>1, Zenon DEF TopRows
<1> QED BY <1>2

LEMMA ReadEntryTotal ==
    ASSUME TypeInv, TotalInv, ReadEntry, Sums
    PROVE  TotalInv'
<1>1. Parts /\ pc = "read" /\ pc # "done" /\ Len(stack) >= 2
  BY DEF TypeInv, ReadEntry, PcInv
<1>2. heap \in Seq(FileType) /\ InTopFiles \subseteq 1..Len(heap)
  BY <1>1, TopFilesAreMade DEF Parts, HeapType
<1>3. /\ UNCHANGED <<stack, total, opts>>
      /\ heap' = heap \/ \E f : heap' = Append(heap, f)
  BY ReadEntryIs, Zenon DEF Sums
<1>4. \A f : \A i \in 1..Len(heap) : Append(heap, f)[i] = heap[i]
  BY <1>2
<1>5. InTopFiles' = InTopFiles /\ \A i \in InTopFiles : heap'[i] = heap[i]
  BY <1>2, <1>3, <1>4 DEF InTopFiles, Top
<1>6. TopRows' = TopRows /\ \A i \in InTopFiles' : heap'[i].stat = heap[i].stat
  BY <1>3, <1>5, RowsAreKept
<1> QED BY <1>1, <1>3, <1>5, <1>6 DEF TotalInv

LEMMA StatEntryTotal ==
    ASSUME TypeInv, OwnInv, NamesInv, TotalInv, StatEntry, Sums, Unlacked'
    PROVE  TotalInv'
<1>0. \A i \in 1..Len(heap) : i \in DOMAIN heap'
  BY LackStep DEF Next, Program, LackKept, TypeInv, Parts, HeapType
<1>1. PICK id \in 1..Len(heap) :
         /\ id = Len(heap) /\ opts' = opts /\ pc = "entry"
         /\ \A i \in 1..Len(heap) : heap'[i].path = heap[i].path
         /\ \A i \in 1..Len(heap) : i # id => heap'[i] = heap[i]
         /\ \/ stack' = stack /\ total' = total
            \/ \E st, f :
                  /\ heap'[id] = StatIs(heap[id], st)
                  /\ total' = IF opts.dirtotals THEN total + Blocks(st) ELSE total
                  /\ stack' = WithTop(f) /\ f.dir = Top.dir
                  /\ f.files = Append(Top.files, id)
  BY StatEntryIs, Zenon
<1>2. pc # "done" /\ Len(stack) >= 2
  BY <1>1 DEF TypeInv, PcInv
<1>3. /\ \A i \in InTopFiles : heap[i].stat # "unknown"
      /\ total = SumOfRows(TopRows)
  BY <1>1, <1>2 DEF TotalInv
<1>4. Pending = {id}
  BY <1>1 DEF Pending
<1>5. InTopFiles \subseteq 1..Len(heap) /\ id \notin InTopFiles
  <2>1. ~Listed(id)
    BY <1>4 DEF OwnInv, FreedInv
  <2> QED BY <1>2, <2>1, TopFilesAreMade
<1>6. \A i \in InTopFiles : heap'[i] = heap[i]
  BY <1>1, <1>5
<1>7. CASE stack' = stack /\ total' = total
  <2>1. InTopFiles' = InTopFiles
    BY <1>7 DEF InTopFiles, Top
  <2>2. TopRows' = TopRows /\ \A i \in InTopFiles' : heap'[i].stat = heap[i].stat
    BY <1>1, <1>6, <2>1, RowsAreKept
  <2> QED BY <1>3, <1>7, <2>1, <2>2 DEF TotalInv
<1>8. ASSUME NEW st, heap'[id] = StatIs(heap[id], st),
             total' = (IF opts.dirtotals THEN total + Blocks(st) ELSE total),
             NEW f, stack' = WithTop(f), f.dir = Top.dir, f.files = Append(Top.files, id)
      PROVE  TotalInv'
  <2>1. InTopFiles' = InTopFiles \cup {id}
    BY <1>2, <1>8, TopFilesAfter, Zenon
  <2>2. PICK g : g = heap'[id]
    OBVIOUS
  <2>3. /\ g.stat = st /\ g.path = heap[id].path
        /\ g.lacked = (heap[id].lacked \/ st = "unknown")
    <3>1. heap[id] \in FileType
      BY DEF TypeInv, Parts, HeapType
    <3> QED BY <1>8, <2>2, <3>1, FileFields
  <2>4. PICK r : r = RowOf(g)
    OBVIOUS
  <2>5. r.path = heap[id].path /\ Blocks(r.shows) = Blocks(st)
    BY <2>3, <2>4, BlocksOfRow
  <2>6. RowOf(g)' = r
    BY <1>1, <2>2, <2>4 DEF RowOf, Shown
  <2>7. \A i \in InTopFiles : RowOf(heap[i])' = RowOf(heap[i])
    BY <1>1, <1>6 DEF RowOf, Shown
  <2>8. TopRows' = TopRows \cup {r}
    BY <2>1, <2>2, <2>6, <2>7 DEF TopRows
  <2>9. r \notin TopRows
    <3>1. \A i \in InTopFiles : RowOf(heap[i]).path = heap[i].path
      BY BlocksOfRow
    <3>2. \A i \in InTopFiles : heap[i].path # heap[id].path
      BY <1>1, <1>4 DEF NamesInv
    <3> QED BY <2>5, <3>1, <3>2 DEF TopRows
  <2>10. SumOfRows(TopRows \cup {r}) = SumOfRows(TopRows) + Blocks(r.shows)
    BY <1>2, <2>9, TopRowsAreFinite, OneMoreRow, Zenon
  <2>11. total' = SumOfRows(TopRows')
    <3>1. total' = total + Blocks(st)
      BY <1>8 DEF Sums
    <3> QED BY <1>3, <2>5, <2>8, <2>10, <3>1
  <2>12. \A i \in InTopFiles' : heap'[i].stat # "unknown"
    <3>1. st # "unknown"
      <4>1. id \in DOMAIN heap'
        BY <1>0
      <4> QED BY <1>1, <2>2, <2>3, <4>1 DEF Unlacked
    <3> QED BY <1>3, <1>6, <2>1, <2>2, <2>3, <3>1
  <2> QED BY <2>11, <2>12 DEF TotalInv
<1> QED BY <1>1, <1>7, <1>8

LEMMA TotalStep ==
    ASSUME TypeInv, OwnInv, NamesInv, TotalInv, [Next]_vars
    PROVE  TotalInv'
<1>0. opts' = opts
  BY DEF Next, Program, Terminated, Operand, IsLinkToDir, OperandsDone, StatFile,
         FollowFile, PrintFiles, NextDir, DirsDone, Open, OpenShortage, ReadEntry,
         StatEntry, ReadEnd, ReadFault, ReadShortage, Return, Change, vars, world
<1> SUFFICES ASSUME Sums', Len(stack') >= 2, pc' \in {"read", "entry", "files"}
             PROVE  TotalInv'
  BY DEF TotalInv
<1>s. Sums /\ Unlacked'
  BY <1>0, LackStep DEF Sums, Unlacked, LackKept
<1>1. CASE Open
  <2>1. pc' = "read"
    BY <1>1 DEF Open
  <2>2. InTopFiles' = {} /\ total' = 0
    BY <1>1, <2>1, OpenIs
  <2>3. TopRows' = {}
    BY <2>2 DEF TopRows
  <2> QED BY <2>2, <2>3, NoRows DEF TotalInv
<1>2. CASE OperandsDone
  <2>1. pc # "done" /\ Len(stack) = 1
    BY <1>2 DEF OperandsDone, TypeInv, PcInv
  <2>2. \E f : stack' = WithTop(f)
    BY <1>2, Zenon DEF OperandsDone
  <2>3. Len(stack') = Len(stack)
    BY <2>1, <2>2, TopIs, Zenon
  <2> QED BY <2>1, <2>3
<1>3. CASE StatFile \/ FollowFile
  <2>1. pc = "files" /\ stack' = stack
    BY <1>3 DEF StatFile, FollowFile
  <2>2. \A i \in InTopFiles : heap[i].stat # "unknown"
    BY <1>s, <2>1 DEF TotalInv
  <2>3. \A i \in InTopFiles : ~StatNeeded(i) /\ ~TargetNeeded(i)
    BY <1>s, <2>2 DEF StatNeeded, TargetNeeded, Sums
  <2> QED BY <1>3, <2>3 DEF StatFile, FollowFile
<1>4. CASE ReadEnd \/ ReadFault \/ ReadShortage \/ Change \/ UNCHANGED vars
  <2>1. /\ UNCHANGED <<heap, stack, total>>
        /\ pc \in {"read", "entry", "files"}
    BY <1>4 DEF ReadEnd, ReadFault, ReadShortage, Change, vars
  <2>2. InTopFiles' = InTopFiles
    BY <2>1 DEF InTopFiles, Top
  <2>3. TopRows' = TopRows /\ \A i \in InTopFiles' : heap'[i].stat = heap[i].stat
    BY <1>0, <2>1, <2>2, RowsAreKept
  <2> QED BY <1>s, <2>1, <2>2, <2>3 DEF TotalInv
<1>5. CASE \/ Operand \/ IsLinkToDir \/ PrintFiles \/ NextDir \/ DirsDone
           \/ OpenShortage \/ Return
  BY <1>5 DEF Operand, PlaceOperand, IsLinkToDir, PrintFiles, NextDir, DirsDone,
              OpenShortage, Return, TypeInv, PcInv
<1> QED
  BY <1>s, <1>1, <1>2, <1>3, <1>4, <1>5, ReadEntryTotal, StatEntryTotal, Zenon
  DEF Next, Program, Terminated

LEMMA CloseStreamTotals ==
    ASSUME TypeInv, UnseenInv, TotalsInv, ReadEnd \/ ReadFault \/ ReadShortage
    PROVE  TotalsInv'
<1>1. /\ CloseStream /\ pc = "read" /\ pc' = "files"
      /\ UNCHANGED <<heap, stack, total, opts>>
  BY DEF ReadEnd, ReadFault, ReadShortage, CloseStream, world
<1>2. Len(stack) >= 2 /\ Top' = Top
  BY <1>1 DEF TypeInv, PcInv, Top
<1>3. Counted(out') = IF opts.dirtotals THEN Counted(out) \cup {TotalEvent} ELSE Counted(out)
  BY <1>1, CloseStreamCounts
<1>4. \A d : RowsOf(out', d) = RowsOf(out, d)
  <2>1. CASE opts.dirtotals
    <3>1. Counted(out') = Counted(out) \cup {TotalEvent} /\ TotalEvent.event # "rows"
      BY <1>3, <2>1 DEF TotalEvent
    <3> QED BY <3>1, RowsOfMore
  <2>2. CASE ~opts.dirtotals
    BY <1>3, <2>2 DEF RowsOf
  <2> QED BY <2>1, <2>2
<1>5. ASSUME Unlacked, ~opts.targetinfo, NEW e \in Counted(out), e.event = "total"
      PROVE  opts.dirtotals /\ e.blocks = BlocksOf(e.dir)'
  <2>1. e.dir # Top.dir
    BY <1>1 DEF UnseenInv, Waiting, Seen
  <2>2. opts.dirtotals /\ e.blocks = SumOfRows(RowsOf(out, e.dir))
    BY <1>1, <1>5 DEF TotalsInv, BlocksOf
  <2> QED BY <1>2, <1>4, <2>1, <2>2 DEF BlocksOf
<1>6. ASSUME NEW e, e.dir = Top.dir, e.blocks = total PROVE e.blocks = BlocksOf(e.dir)'
  BY <1>1, <1>2, <1>6 DEF BlocksOf
<1>7. ASSUME Unlacked, ~opts.targetinfo, NEW e \in Counted(out'), e.event = "total"
      PROVE  opts.dirtotals /\ e.blocks = BlocksOf(e.dir)'
  <2>1. e \in Counted(out) \/ (opts.dirtotals /\ e = TotalEvent)
    BY <1>3
  <2>2. CASE e \in Counted(out)
    BY <1>5, <1>7, <2>2
  <2>3. CASE opts.dirtotals /\ e = TotalEvent
    <3>1. e.dir = Top.dir /\ e.blocks = total
      BY <2>3 DEF TotalEvent
    <3> QED BY <1>6, <2>3, <3>1
  <2> QED BY <2>1, <2>2, <2>3
<1> QED BY <1>1, <1>7 DEF TotalsInv, Unlacked

LEMMA PrintFilesTotals ==
    ASSUME TypeInv, RowsLater, TotalInv, TotalsInv, PrintFiles
    PROVE  TotalsInv'
<1> SUFFICES ASSUME Unlacked' PROVE TotalsInv'
  BY DEF TotalsInv
<1>0. Unlacked
  BY LackStep DEF Next, Program, Unlacked, LackKept
<1>1. pc = "files" /\ pc # "done" /\ pc' # "files" /\ opts' = opts
  BY DEF PrintFiles, world
<1>2. PICK E : /\ E.event = "rows" /\ E.dir = Top.dir /\ E.rows = TopRows
               /\ Counted(out') = IF Top.files = << >> THEN Counted(out)
                                  ELSE Counted(out) \cup {E}
  <2>1. PICK rows \in RowSets :
           Counted(out') = IF Top.files = << >> THEN Counted(out)
                           ELSE Counted(out) \cup {RowsEvent(rows)}
    BY PrintFilesCounts, Zenon
  <2>2. rows = TopRows
    <3>1. \A i \in InTopFiles : ~heap[i].lacked
      BY <1>0, <1>1, TopFilesAreMade DEF Unlacked, TypeInv, Parts, HeapType
    <3> QED BY <3>1, RowsUnlacked, Zenon
  <2>3. /\ RowsEvent(rows).event = "rows" /\ RowsEvent(rows).dir = Top.dir
        /\ RowsEvent(rows).rows = rows
    BY DEF RowsEvent
  <2> QED BY <2>1, <2>2, <2>3, Zenon
<1>3. E.event = "rows" /\ E.dir = Top.dir /\ E.rows = TopRows
  BY <1>2
<1>4. \A d : RowsOf(out', d) = IF d = Top.dir THEN RowsOf(out, d) \cup TopRows
                               ELSE RowsOf(out, d)
  <2>1. CASE Top.files = << >>
    <3>1. TopRows = {}
      BY <2>1 DEF TopRows, InTopFiles
    <3>2. \A d : RowsOf(out', d) = RowsOf(out, d)
      BY <1>2, <2>1 DEF RowsOf
    <3> QED BY <3>1, <3>2
  <2>2. CASE Top.files # << >>
    <3>1. \A d : RowsOf(out', d) = IF E.event = "rows" /\ E.dir = d
                                   THEN RowsOf(out, d) \cup E.rows
                                   ELSE RowsOf(out, d)
      BY <1>2, <2>2, RowsOfMore
    <3> QED BY <1>3, <3>1
  <2> QED BY <2>1, <2>2
<1>5. ASSUME ~opts.targetinfo, NEW e \in Counted(out), e.event = "total"
      PROVE  opts.dirtotals /\ e.blocks = SumOfRows(RowsOf(out', e.dir))
  <2>1. opts.dirtotals /\ e.blocks = BlocksOf(e.dir)
    BY <1>0, <1>5 DEF TotalsInv
  <2>2. CASE Len(stack) >= 2 /\ e.dir = Top.dir
    <3>1. e.blocks = total /\ total = SumOfRows(TopRows) /\ RowsOf(out, Top.dir) = {}
      BY <1>0, <1>1, <1>5, <2>1, <2>2 DEF BlocksOf, TotalInv, Sums, RowsLater
    <3>2. RowsOf(out', e.dir) = TopRows
      BY <1>4, <2>2, <3>1
    <3> QED BY <2>1, <3>1, <3>2
  <2>3. CASE ~(Len(stack) >= 2 /\ e.dir = Top.dir)
    <3>1. e.blocks = SumOfRows(RowsOf(out, e.dir))
      BY <2>1, <2>3 DEF BlocksOf
    <3>2. e.dir # Top.dir
      <4>1. e.dir \in 1..Len(heap) /\ Len(heap) \in Nat
        BY <1>5, SeenAreMade, FrameTypes
      <4>2. CASE Len(stack) >= 2
        BY <2>3, <4>2
      <4>3. CASE ~(Len(stack) >= 2)
        <5>0. Len(stack) \in Nat \ {0}
          BY <1>1, TopFacts
        <5>1. Len(stack) = 1
          BY <4>3, <5>0, OneOrMore, Zenon
        <5>2. Top.dir = 0
          BY <1>1, <5>1, TopFacts DEF TypeInv, CallsInv, Top
        <5> QED BY <4>1, <5>2
      <4> QED BY <4>2, <4>3
    <3>3. RowsOf(out', e.dir) = RowsOf(out, e.dir)
      BY <1>4, <3>2
    <3> QED BY <2>1, <3>1, <3>3
  <2> QED BY <2>2, <2>3
<1>6. ASSUME NEW e \in Counted(out'), e.event = "total" PROVE e \in Counted(out)
  <2>1. e \in Counted(out) \/ e = E
    BY <1>2
  <2>2. e # E
    BY <1>3, <1>6
  <2> QED BY <2>1, <2>2
<1> QED BY <1>1, <1>5, <1>6 DEF TotalsInv, BlocksOf

LEMMA TotalsStep ==
    ASSUME TypeInv, UnseenInv, RowsLater, TotalInv, TotalsInv, [Next]_vars
    PROVE  TotalsInv'
<1> SUFFICES ASSUME Unlacked' PROVE TotalsInv'
  BY DEF TotalsInv
<1>0. Unlacked
  BY LackStep DEF Unlacked, LackKept
<1>1. CASE \/ StatFile \/ FollowFile \/ Change \/ UNCHANGED vars
  <2>1. UNCHANGED <<stack, total, out, pc, opts>>
    BY <1>1 DEF StatFile, FollowFile, Change, vars, world
  <2> QED BY <1>0, <2>1 DEF TotalsInv, BlocksOf, Top
<1>2. ASSUME pc # "files", opts' = opts, Counted(out') = Counted(out),
             pc' # "files" \/ ~(Len(stack') >= 2)
      PROVE  TotalsInv'
  <2>1. \A d : BlocksOf(d)' = BlocksOf(d)
    <3>1. \A d : RowsOf(out', d) = RowsOf(out, d)
      BY <1>2 DEF RowsOf
    <3> QED BY <1>2, <3>1 DEF BlocksOf
  <2> QED BY <1>0, <1>2, <2>1 DEF TotalsInv
<1>3. CASE NextDir
  <2>1. pc # "files" /\ pc' # "files" /\ opts' = opts
    BY <1>3 DEF NextDir, world
  <2> QED BY <1>2, <1>3, <2>1, NextDirCounts
<1>4. CASE OperandsDone
  <2>1. pc = "operand" /\ Len(stack) = 1 /\ opts' = opts /\ out' = out
    BY <1>4 DEF OperandsDone, TypeInv, PcInv, world
  <2>2. \E f : stack' = WithTop(f)
    BY <1>4, Zenon DEF OperandsDone
  <2>3. Len(stack') = Len(stack)
    BY <2>1, <2>2, TopIs
  <2> QED BY <1>2, <2>1, <2>3
<1>5. CASE \/ Operand \/ IsLinkToDir \/ DirsDone \/ Open \/ OpenShortage
           \/ ReadEntry \/ StatEntry \/ Return
  <2>1. pc # "files" /\ pc' # "files" /\ opts' = opts /\ out' = out
    BY <1>5 DEF Operand, PlaceOperand, IsLinkToDir, DirsDone, Open, OpenShortage,
                ReadEntry, StatEntry, Return, world
  <2> QED BY <1>2, <2>1
<1> QED
  BY <1>1, <1>3, <1>4, <1>5, CloseStreamTotals, PrintFilesTotals, Zenon
  DEF Next, Program, Terminated

\* The total of a directory is the sum of the blocks in its rows, though the files
\* change between the two and memory runs out, unless an lstat() itself has gone
\* without: both see the one lstat() of each entry (l.c:413).
THEOREM TotalsAreSums == Spec => []TotalIsSumOfRows
<1>1. ASSUME Init PROVE SumInv
  <2>1. /\ stack = << Frame(0, TRUE) >> /\ out = << >> /\ pc = "operand"
    BY <1>1 DEF Init
  <2>2. Len(stack) = 1 /\ 2..Len(stack) = {} /\ Counted(out) = {}
    BY <2>1 DEF Counted
  <2> QED BY <2>1, <2>2 DEF SumInv, DirsOnce, UnseenInv, Seen, RowsLater, NamesInv,
                            TotalInv, TotalsInv
<1>2. ASSUME ListingInv /\ SumInv, [Next]_vars PROVE (ListingInv /\ SumInv)'
  <2>1. TypeInv /\ OwnInv /\ ListingInv' /\ TypeInv'
    BY <1>2, InvStep DEF ListingInv
  <2>2. /\ DirsOnce /\ UnseenInv /\ RowsLater /\ NamesInv /\ TotalInv /\ TotalsInv
    BY <1>2 DEF SumInv
  <2>3. DirsOnce' /\ UnseenInv'
    BY <1>2, <2>1, <2>2, FramesStep, DirsOnceStep, UnseenStep
  <2>4. RowsLater' /\ NamesInv' /\ TotalInv' /\ TotalsInv'
    BY <1>2, <2>1, <2>2, RowsLaterStep, NamesStep, TotalStep, TotalsStep
  <2> QED BY <2>1, <2>3, <2>4 DEF SumInv
<1>3. ASSUME SumInv PROVE TotalIsSumOfRows
  <2> SUFFICES ASSUME NEW k \in DOMAIN out, out[k].event = "total", ~opts.targetinfo,
                      pc = "files" => out[k].dir # Top.dir,
                      \A i \in DOMAIN heap : ~heap[i].lacked
               PROVE  out[k].blocks = SumOfRows(UNION {out[j].rows : j \in
                         {j \in DOMAIN out : out[j].event = "rows" /\ out[j].dir = out[k].dir}})
    BY Zenon DEF TotalIsSumOfRows, SumOfRows
  <2>1. out[k] \in Counted(out)
    BY DEF Counted
  <2>2. out[k].blocks = SumOfRows(RowsOf(out, out[k].dir))
    BY <1>3, <2>1 DEF SumInv, TotalsInv, BlocksOf, Unlacked
  <2>3. RowsOf(out, out[k].dir) = UNION {out[j].rows : j \in
          {j \in DOMAIN out : out[j].event = "rows" /\ out[j].dir = out[k].dir}}
    BY DEF RowsOf, Counted
  <2> QED BY <2>2, <2>3
<1> QED BY <1>1, <1>2, <1>3, InvInit, PTL DEF Spec

=============================================================================
