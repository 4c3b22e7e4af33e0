---------------------------- MODULE QuietProofs ----------------------------
(* That a listing is complete where nothing disturbs it, for every file        *)
(* system, options and operands: the last theorem about Listing.               *)
EXTENDS ListingProofs

-----------------------------------------------------------------------------
(* A listing that nothing disturbs.  What it is due to print depends on the    *)
(* file system f, the options o and the operands q alone, which stay what they *)
(* are: the definitions of Listing, with these as parameters.                  *)

EntryIn(f, n, name) ==
    CASE name = "."  -> [kind |-> "dir", node |-> n]
      [] name = ".." -> [kind |-> "dir", node |-> Root]
      [] OTHER       -> f[n][name]

NodeIn(f, path) ==
    LET at[i \in 0..Len(path)] ==
          IF i = 0 THEN Root
          ELSE IF at[i - 1] = NoNode THEN NoNode
          ELSE LET e == EntryIn(f, at[i - 1], path[i])
               IN  IF e.kind \in {"dir", "link"} THEN e.node ELSE NoNode
    IN  at[Len(path)]

EntryAtIn(f, path) ==
    LET parent == NodeIn(f, Front(path))
    IN  IF parent = NoNode THEN [kind |-> "none", node |-> NoNode]
        ELSE EntryIn(f, parent, Last(path))

LstatIn(f, path) ==
    LET k == EntryAtIn(f, path).kind
    IN  CASE k \in {"none", "opaque"} -> "failed"
          [] k \in {"dir", "locked"}  -> "dir"
          [] k = "file"               -> "file"
          [] OTHER                    -> "link"

TargetIn(f, path) ==
    LET k == EntryAtIn(f, path).kind
    IN  CASE k = "link"     -> "dir"
          [] k = "linkfile" -> "file"
          [] k = "dangling" -> "failed"
          [] OTHER          -> "null"

VisibleOf(f, o, path) ==
    IF NodeIn(f, path) = NoNode THEN {}
    ELSE {Append(path, e) : e \in
            IF o.all THEN Dots \cup {e \in Names : f[NodeIn(f, path)][e].kind # "none"}
            ELSE {e \in Names \ Hidden : f[NodeIn(f, path)][e].kind # "none"}}

KeptOf(f, o, path) ==
    {p \in VisibleOf(f, o, path) : o.dirsonly => LstatIn(f, p) = "dir"}

SubdirsOf(f, o, path) ==
    {p \in VisibleOf(f, o, path) :
        o.recursive /\ LstatIn(f, p) = "dir" /\ Last(p) \in Names}

TopDirsOf(f, o, q) ==
    {p \in ToSet(q) : ~o.directory /\
        (\/ LstatIn(f, p) = "dir"
         \/ o.follow /\ LstatIn(f, p) = "link" /\ TargetIn(f, p) = "dir")}

TopFilesOf(f, o, q) ==
    {p \in ToSet(q) : LstatIn(f, p) # "failed"} \ TopDirsOf(f, o, q)

LEMMA EntriesAreIn ==
    /\ \A n, name : EntryOf(n, name) = EntryIn(fs, n, name)
    /\ \A path : NodeAt(path) = NodeIn(fs, path)
    /\ \A path : EntryAt(path) = EntryAtIn(fs, path)
BY DEF EntryOf, EntryIn, NodeAt, NodeIn, EntryAt, EntryAtIn

LEMMA StatsAreIn ==
    /\ \A path : Lstat(path) = LstatIn(fs, path)
    /\ \A path : Target(path) = TargetIn(fs, path)
BY EntriesAreIn, Zenon DEF Lstat, LstatIn, Target, TargetIn

LEMMA VisibleAreOf == \A path : VisibleIn(path) = VisibleOf(fs, opts, path)
<1> TAKE path
<1>1. NodeAt(path) = NodeIn(fs, path)
  BY EntriesAreIn, Zenon
<1> QED BY <1>1, Zenon DEF VisibleIn, VisibleOf

LEMMA ListingsAreOf ==
    /\ \A path : KeptIn(path) = KeptOf(fs, opts, path)
    /\ \A path : Subdirs(path) = SubdirsOf(fs, opts, path)
    /\ TopDirs = TopDirsOf(fs, opts, operands)
    /\ TopFiles = TopFilesOf(fs, opts, operands)
<1>1. \A path : Lstat(path) = LstatIn(fs, path) /\ Target(path) = TargetIn(fs, path)
  BY StatsAreIn, Zenon
<1>2. ASSUME NEW path
      PROVE  /\ KeptIn(path) = KeptOf(fs, opts, path)
             /\ Subdirs(path) = SubdirsOf(fs, opts, path)
  <2>1. VisibleIn(path) = VisibleOf(fs, opts, path)
    BY VisibleAreOf, Zenon
  <2>2. \A p : Lstat(p) = LstatIn(fs, p)
    BY <1>1, Zenon
  <2> HIDE DEF Lstat, LstatIn, VisibleIn, VisibleOf
  <2> QED BY <2>1, <2>2 DEF KeptIn, KeptOf, Subdirs, SubdirsOf
<1>3. TopDirs = TopDirsOf(fs, opts, operands)
  BY <1>1 DEF TopDirs, TopDirsOf
<1>4. TopFiles = TopFilesOf(fs, opts, operands)
  BY <1>1, <1>3 DEF TopFiles, TopFilesOf
<1> QED BY <1>2, <1>3, <1>4, Zenon

\* What the step makes of the Files: lstat() and its like are asked for the first
\* time, where an option wants to know, and at most one File is made.
WantsLstat(o) == o.columns \/ o.targetinfo \/ o.dirsonly \/ o.recursive
LooksAtOnce(o) == o.dirsonly \/ o.recursive \/ o.dirtotals

FileLooked(i) ==
    /\ heap'[i].path = heap[i].path /\ heap'[i].lacked = heap[i].lacked
    /\ \/ heap'[i].stat = heap[i].stat
       \/ heap'[i].stat = LstatIn(fs, heap[i].path) /\ WantsLstat(opts)
    /\ heap'[i].target \in {heap[i].target, TargetIn(fs, heap[i].path)}

FileMade(i) ==
    /\ i = Len(heap) + 1 /\ heap'[i].lacked = FALSE
    /\ heap'[i].stat \in {"unknown", LstatIn(fs, heap'[i].path)}
    /\ heap'[i].target = "unknown"
    /\ heap'[i].stat = "failed" => exit' = 1

FilesLooked ==
    /\ Len(heap) <= Len(heap')
    /\ \A i \in 1..Len(heap) : FileLooked(i)
    /\ \A i \in 1..Len(heap') : i \notin 1..Len(heap) => FileMade(i)

\* lstat() is called for an entry at once only where an option wants it.
EntryInv == pc = "entry" => LooksAtOnce(opts)

LEMMA EntryStep ==
    ASSUME TypeInv, EntryInv, [Next]_vars
    PROVE  EntryInv'
<1>1. opts' = opts
  BY DEF Next, Program, Operand, IsLinkToDir, OperandsDone, StatFile, FollowFile, PrintFiles,
         NextDir, DirsDone, Open, OpenShortage, ReadEntry, StatEntry, ReadEnd, ReadFault,
         ReadShortage, Return, Change, Terminated, vars, world
<1>2. CASE pc' = pc
  BY <1>1, <1>2 DEF EntryInv
<1>3. CASE ReadEntry
  BY <1>1, <1>3 DEF EntryInv, ReadEntry, LooksAtOnce
<1>4. CASE ~ReadEntry /\ pc' # pc
  <2>0. Operand => pc' \in {pc, "islinktodir"}
    <3>1. ASSUME Operand PROVE \E st : PlaceOperand(operands[looked + 1], st)
      BY <3>1 DEF Operand
    <3> QED BY <3>1, Zenon DEF PlaceOperand
  <2>1. pc' # "entry"
    BY <1>4, <2>0 DEF Next, Program, IsLinkToDir, OperandsDone, StatFile, FollowFile, PrintFiles,
         NextDir, DirsDone, Open, OpenShortage, StatEntry, ReadEnd, ReadFault,
         ReadShortage, Return, Change, Terminated, vars, CloseStream
  <2> QED BY <2>1 DEF EntryInv
<1> QED BY <1>2, <1>3, <1>4, ZenonT(60)

LEMMA EntryWantsLstat ==
    ASSUME TypeInv, EntryInv, pc = "entry"
    PROVE  WantsLstat(opts)
<1>1. opts \in OptionSets
  BY DEF TypeInv, Parts, PlainType
<1>2. opts.dirtotals => opts.columns
  BY <1>1, ListingAssumption DEF ListingAssumption
<1> QED BY <1>2 DEF EntryInv, LooksAtOnce, WantsLstat

\* Nothing has disturbed the listing, or does.
Quiet == changes = 0 /\ faults = 0 /\ shortages = 0
Steady == fs' = fs /\ opts' = opts /\ operands' = operands

\* What the actions that ask for an lstat() or a final target come to where there
\* is memory for the answer.
CurStat == Lstat(heap[Cur].path)

CalmOperand ==
    /\ pc = "operand" /\ looked < Len(operands)
    /\ looked' = looked + 1
    /\ LET path == operands[looked + 1]
           st   == Lstat(path)
           file == [NewFile(path) EXCEPT !.stat = st]
           id   == Len(heap) + 1
       IN  CASE st = "failed" ->
                  /\ heap' = Append(heap, [file EXCEPT !.freed = 1])
                  /\ exit' = 1
                  /\ UNCHANGED <<stack, pc>>
             [] st = "dir" /\ ~opts.directory ->
                  /\ heap' = Append(heap, file)
                  /\ stack' = WithTop([Top EXCEPT !.dirs = Append(@, id)])
                  /\ UNCHANGED <<pc, exit>>
             [] st = "link" /\ ~opts.directory /\ opts.follow ->
                  /\ heap' = Append(heap, file)
                  /\ pc' = "islinktodir"
                  /\ UNCHANGED <<stack, exit>>
             [] OTHER ->
                  /\ heap' = Append(heap, file)
                  /\ stack' = WithTop([Top EXCEPT !.files = Append(@, id)])
                  /\ UNCHANGED <<pc, exit>>
    /\ UNCHANGED <<world, faults, shortages, unread, streams, total, out>>

CalmIsLinkToDir ==
    /\ pc = "islinktodir"
    /\ LET t == Target(heap[Cur].path)
       IN  /\ heap' = [heap EXCEPT ![Cur].target = t]
           /\ stack' = WithTop(IF t = "dir"
                               THEN [Top EXCEPT !.dirs = Append(@, Cur)]
                               ELSE [Top EXCEPT !.files = Append(@, Cur)])
    /\ pc' = "operand"
    /\ UNCHANGED <<world, faults, shortages, looked, unread, streams, total, out, exit>>

CalmStatFile ==
    /\ pc = "files"
    /\ \E i \in InTopFiles :
         /\ StatNeeded(i)
         /\ heap' = [heap EXCEPT ![i].stat = Lstat(heap[i].path)]
    /\ UNCHANGED <<world, faults, shortages, looked, stack, unread, streams, total, pc,
                   out, exit>>

CalmFollowFile ==
    /\ pc = "files"
    /\ \E i \in InTopFiles :
         /\ TargetNeeded(i)
         /\ heap' = [heap EXCEPT ![i].target = Target(heap[i].path)]
    /\ UNCHANGED <<world, faults, shortages, looked, stack, unread, streams, total, pc,
                   out, exit>>

CalmStatEntry ==
    /\ pc = "entry"
    /\ LET st == CurStat
       IN  IF opts.dirsonly /\ st # "dir"
           THEN /\ heap' = [heap EXCEPT ![Cur].stat = st, ![Cur].freed = 1]
                /\ exit' = IF st = "failed" THEN 1 ELSE exit
                /\ UNCHANGED <<stack, total>>
           ELSE /\ heap' = [heap EXCEPT ![Cur].stat = st]
                /\ stack' = WithTop([Top EXCEPT
                     !.files = Append(@, Cur),
                     !.dirs = IF opts.recursive /\ st = "dir" /\ ~IsDotOrDotDot(heap[Cur].path)
                              THEN Append(@, Cur) ELSE @])
                /\ total' = IF opts.dirtotals THEN total + Blocks(st) ELSE total
                /\ UNCHANGED exit
    /\ pc' = "read"
    /\ UNCHANGED <<world, faults, shortages, looked, unread, streams, out>>

Works ==
    \/ CalmOperand \/ CalmIsLinkToDir \/ OperandsDone \/ CalmStatFile \/ CalmFollowFile
    \/ PrintFiles \/ NextDir \/ DirsDone \/ Open \/ ReadEntry \/ CalmStatEntry
    \/ ReadEnd \/ Return

\* What lstat() or the walk along the links has found is all that is new.
LEMMA KnownAnswers ==
    /\ \A path, st : GetStat(path, st) /\ shortages' = 0 /\ shortages \in Nat =>
          st = Lstat(path) /\ UNCHANGED shortages
    /\ \A path, t : GetFinalTarget(path, t) /\ shortages' = 0 /\ shortages \in Nat =>
          t = Target(path) /\ UNCHANGED shortages
    /\ \A f \in FileType : \A path :
          /\ StatIs(f, Lstat(path)) = [f EXCEPT !.stat = Lstat(path)]
          /\ TargetIs(f, Target(path)) = [f EXCEPT !.target = Target(path)]
<1>1. shortages' = 0 /\ shortages \in Nat => ~Shortage
  BY DEF Shortage
<1>2. ASSUME NEW f \in FileType, NEW st, st # "unknown"
      PROVE  StatIs(f, st) = [f EXCEPT !.stat = st]
  BY <1>2 DEF FileType, StatIs
<1>3. ASSUME NEW f \in FileType, NEW t, t \notin {"unknown", "link"}
      PROVE  TargetIs(f, t) = [f EXCEPT !.target = t]
  BY <1>3 DEF FileType, TargetIs
<1>4. \A path : Lstat(path) # "unknown" /\ Target(path) \notin {"unknown", "link"}
  BY LstatType, TargetType
<1>5. \A path, st : GetStat(path, st) /\ ~Shortage => st = Lstat(path) /\ UNCHANGED shortages
  BY Zenon DEF GetStat
<1>6. \A path, t : GetFinalTarget(path, t) /\ ~Shortage =>
                      t = Target(path) /\ UNCHANGED shortages
  BY Zenon DEF GetFinalTarget
<1> QED BY <1>1, <1>2, <1>3, <1>4, <1>5, <1>6, Zenon

LEMMA CalmSteps ==
    ASSUME TypeInv, shortages' = 0
    PROVE  /\ Operand => CalmOperand
           /\ IsLinkToDir => CalmIsLinkToDir
           /\ StatFile => CalmStatFile
           /\ FollowFile => CalmFollowFile
           /\ StatEntry => CalmStatEntry
<1>1. /\ shortages \in Nat /\ Len(heap) \in Nat
      /\ \A i \in 1..Len(heap) : heap[i] \in FileType
  BY DEF TypeInv, Parts, PlainType, HeapType
<1>2. ASSUME Operand PROVE CalmOperand
  <2>1. PICK p : p = operands[looked + 1]
    OBVIOUS
  <2>2. PlaceOperand(p, Lstat(p)) /\ UNCHANGED shortages
    BY <1>1, <1>2, <2>1, KnownAnswers, Zenon DEF Operand
  <2>3. p \in Seq(AnyName) \ {<< >>}
    <3>1. operands \in Seq(Seq(AnyName) \ {<< >>}) /\ looked \in 0..Len(operands)
      BY ListingAssumption DEF ListingAssumption, TypeInv, Parts, PlainType
    <3> QED BY <1>2, <2>1, <3>1 DEF Operand
  <2>4. StatIs(NewFile(p), Lstat(p)) = [NewFile(p) EXCEPT !.stat = Lstat(p)]
    BY <2>3, FileTypes, KnownAnswers, Zenon
  <2>5. Lstat(p) # "unknown"
    BY LstatType
  <2> QED BY <1>2, <2>1, <2>2, <2>4, <2>5 DEF Operand, CalmOperand, PlaceOperand
<1>3. ASSUME IsLinkToDir PROVE CalmIsLinkToDir
  <2>1. Cur \in 1..Len(heap)
    BY <1>1, <1>3 DEF IsLinkToDir, TypeInv, PcInv, Cur
  <2>2. TargetIs(heap[Cur], Target(heap[Cur].path))
           = [heap[Cur] EXCEPT !.target = Target(heap[Cur].path)]
    BY <1>1, <2>1, KnownAnswers, Zenon
  <2>3. PICK t : /\ GetFinalTarget(heap[Cur].path, t)
                 /\ heap' = [heap EXCEPT ![Cur] = TargetIs(heap[Cur], t)]
                 /\ stack' = WithTop(IF t = "dir"
                                     THEN [Top EXCEPT !.dirs = Append(Top.dirs, Cur)]
                                     ELSE [Top EXCEPT !.files = Append(Top.files, Cur)])
    BY <1>3 DEF IsLinkToDir
  <2>4. t = Target(heap[Cur].path) /\ UNCHANGED shortages
    BY <1>1, <2>3, KnownAnswers, Zenon
  <2> QED BY <1>3, <2>2, <2>3, <2>4 DEF IsLinkToDir, CalmIsLinkToDir
<1>4. ASSUME StatFile PROVE CalmStatFile
  <2>1. PICK i, st : /\ i \in InTopFiles /\ StatNeeded(i) /\ GetStat(heap[i].path, st)
                     /\ heap' = [heap EXCEPT ![i] = StatIs(heap[i], st)]
    BY <1>4 DEF StatFile
  <2>2. i \in 1..Len(heap)
    BY <1>4, <2>1, TopFacts DEF InTopFiles, StatFile
  <2>3. StatIs(heap[i], Lstat(heap[i].path)) = [heap[i] EXCEPT !.stat = Lstat(heap[i].path)]
    BY <1>1, <2>2, KnownAnswers, Zenon
  <2>4. st = Lstat(heap[i].path) /\ UNCHANGED shortages
    BY <1>1, <2>1, KnownAnswers, Zenon
  <2>5. heap' = [heap EXCEPT ![i].stat = Lstat(heap[i].path)]
    BY <2>1, <2>3, <2>4
  <2> QED BY <1>4, <2>1, <2>4, <2>5, Zenon DEF StatFile, CalmStatFile
<1>5. ASSUME FollowFile PROVE CalmFollowFile
  <2>1. PICK i, t : /\ i \in InTopFiles /\ TargetNeeded(i) /\ GetFinalTarget(heap[i].path, t)
                    /\ heap' = [heap EXCEPT ![i] = TargetIs(heap[i], t)]
    BY <1>5 DEF FollowFile
  <2>2. i \in 1..Len(heap)
    BY <1>5, <2>1, TopFacts DEF InTopFiles, FollowFile
  <2>3. TargetIs(heap[i], Target(heap[i].path))
           = [heap[i] EXCEPT !.target = Target(heap[i].path)]
    BY <1>1, <2>2, KnownAnswers, Zenon
  <2>4. t = Target(heap[i].path) /\ UNCHANGED shortages
    BY <1>1, <2>1, KnownAnswers, Zenon
  <2>5. heap' = [heap EXCEPT ![i].target = Target(heap[i].path)]
    BY <2>1, <2>3, <2>4
  <2> QED BY <1>5, <2>1, <2>4, <2>5, Zenon DEF FollowFile, CalmFollowFile
<1>6. ASSUME StatEntry PROVE CalmStatEntry
  <2>1. Cur \in 1..Len(heap)
    BY <1>1, <1>6 DEF StatEntry, TypeInv, PcInv, Cur
  <2>2. StatIs(heap[Cur], CurStat) = [heap[Cur] EXCEPT !.stat = CurStat]
    BY <1>1, <2>1, KnownAnswers, Zenon DEF CurStat
  <2>3. PICK seen, st : /\ GetStat(heap[Cur].path, seen)
                        /\ st = seen \/ (seen = "unknown" /\ st = Lstat(heap[Cur].path))
                        /\ PlaceEntry(seen, st)
    BY <1>6, Zenon DEF StatEntry
  <2>4. seen = CurStat /\ st = CurStat /\ UNCHANGED shortages
    BY <1>1, <2>3, KnownAnswers, LstatType, Zenon DEF CurStat
  <2>5. PlaceEntry(CurStat, CurStat)
    BY <2>3, <2>4
  <2> HIDE DEF CurStat
  <2> QED BY <1>6, <2>2, <2>4, <2>5 DEF StatEntry, CalmStatEntry, PlaceEntry
<1> QED BY <1>2, <1>3, <1>4, <1>5, <1>6

LEMMA QuietStep ==
    ASSUME TypeInv, [Next]_vars, Quiet'
    PROVE  Quiet /\ Steady /\ (Works \/ UNCHANGED vars)
<1>1. changes \in Nat /\ faults \in Nat /\ shortages \in Nat
  BY DEF TypeInv, Parts, PlainType
<1>2. CASE Works
  BY <1>2, Zenon DEF Works, Quiet, Steady, CalmOperand, CalmIsLinkToDir, OperandsDone,
              CalmStatFile, CalmFollowFile, PrintFiles, NextDir, DirsDone, Open, ReadEntry,
              CalmStatEntry, ReadEnd, Return, world
<1>3. CASE Terminated \/ UNCHANGED vars
  BY <1>3 DEF Terminated, vars, Quiet, Steady
<1>4. ~Change /\ ~OpenShortage /\ ~ReadFault /\ ~ReadShortage
  BY <1>1 DEF Change, OpenShortage, ReadFault, ReadShortage, Shortage, Quiet
<1>5. shortages' = 0
  BY DEF Quiet
<1> QED BY <1>2, <1>3, <1>4, <1>5, CalmSteps, Zenon DEF Next, Program, Works

LEMMA SameFilesLooked ==
    ASSUME TypeInv, heap' = heap
    PROVE  FilesLooked
<1>1. Len(heap) \in Nat
  BY DEF TypeInv, Parts, HeapType
<1> QED BY <1>1 DEF FilesLooked, FileLooked

LEMMA FreedFilesLooked ==
    ASSUME TypeInv, NEW ids, heap' = FreeAll(heap, ids)
    PROVE  FilesLooked
<1>1. Len(heap) \in Nat /\ DOMAIN heap = 1..Len(heap)
      /\ \A i \in 1..Len(heap) : heap[i] \in FileType
  BY DEF TypeInv, Parts, HeapType
<1>2. Len(heap') = Len(heap)
  BY FreeingKeepsFiles, Zenon
<1>3. ASSUME NEW i \in 1..Len(heap) PROVE FileLooked(i)
  <2>1. PICK c : heap'[i] = [heap[i] EXCEPT !.freed = c]
    BY <1>1, Zenon DEF FreeAll
  <2>2. /\ heap'[i].path = heap[i].path /\ heap'[i].stat = heap[i].stat
        /\ heap'[i].target = heap[i].target /\ heap'[i].lacked = heap[i].lacked
    BY <1>1, <2>1 DEF FileType
  <2> QED BY <2>2 DEF FileLooked
<1> QED BY <1>1, <1>2, <1>3 DEF FilesLooked

LEMMA OneFileLooked ==
    ASSUME TypeInv, NEW j \in 1..Len(heap), NEW f, heap' = [heap EXCEPT ![j] = f],
           f.path = heap[j].path, f.lacked = heap[j].lacked,
           f.stat = heap[j].stat \/ (f.stat = LstatIn(fs, heap[j].path) /\ WantsLstat(opts)),
           f.target \in {heap[j].target, TargetIn(fs, heap[j].path)}
    PROVE  FilesLooked
<1>1. Len(heap) \in Nat /\ DOMAIN heap = 1..Len(heap) /\ Len(heap') = Len(heap)
  BY DEF TypeInv, Parts, HeapType
<1>2. ASSUME NEW i \in 1..Len(heap) PROVE FileLooked(i)
  BY <1>1 DEF FileLooked
<1> QED BY <1>1, <1>2 DEF FilesLooked

LEMMA OneFileMade ==
    ASSUME TypeInv, NEW f, heap' = Append(heap, f), f.target = "unknown", f.lacked = FALSE,
           f.stat \in {"unknown", LstatIn(fs, f.path)}, f.stat = "failed" => exit' = 1
    PROVE  FilesLooked
<1>1. PICK n \in Nat : n = Len(heap)
  BY DEF TypeInv, Parts, HeapType
<1>2. /\ Len(heap') = n + 1 /\ heap'[n + 1] = f
      /\ \A i \in 1..n : heap'[i] = heap[i]
  BY <1>1 DEF TypeInv, Parts, HeapType
<1>3. \A i \in 1..n : FileLooked(i)
  BY <1>2 DEF FileLooked
<1>4. \A i \in 1..n + 1 : i \notin 1..n => i = n + 1
  BY <1>1
<1>5. FileMade(n + 1)
  BY <1>1, <1>2 DEF FileMade
<1>6. n <= n + 1
  BY <1>1
<1> QED BY <1>1, <1>2, <1>3, <1>4, <1>5, <1>6, Zenon DEF FilesLooked

LEMMA FilesStep ==
    ASSUME TypeInv, EntryInv, Works \/ UNCHANGED vars
    PROVE  FilesLooked
<1>1. \A p : Lstat(p) = LstatIn(fs, p) /\ Target(p) = TargetIn(fs, p)
  BY StatsAreIn, Zenon
<1>0. /\ Len(heap) \in Nat /\ DOMAIN heap = 1..Len(heap)
      /\ \A i \in 1..Len(heap) : heap[i] \in FileType
  BY DEF TypeInv, Parts, HeapType
<1>2. CASE heap' = heap
  BY <1>2, SameFilesLooked
<1>3. CASE CalmOperand
  <2>1. PICK p, st : p = operands[looked + 1] /\ st = LstatIn(fs, p)
    OBVIOUS
  <2>2. PICK x : x = [NewFile(p) EXCEPT !.stat = st]
    OBVIOUS
  <2>3. PICK y : y = [x EXCEPT !.freed = 1]
    OBVIOUS
  <2>4. /\ x.path = p /\ x.stat = st /\ x.target = "unknown"
        /\ y.path = p /\ y.stat = st /\ y.target = "unknown"
        /\ x.lacked = FALSE /\ y.lacked = FALSE
    BY <2>2, <2>3 DEF NewFile
  <2>5. heap' = Append(heap, x) \/ heap' = Append(heap, y)
    BY <1>1, <1>3, <2>1, <2>2, <2>3 DEF CalmOperand
  <2>6. st = "failed" => exit' = 1
    BY <1>1, <1>3, <2>1 DEF CalmOperand
  <2>7. CASE heap' = Append(heap, x)
    BY <2>1, <2>4, <2>6, <2>7, OneFileMade
  <2>8. CASE heap' = Append(heap, y)
    BY <2>1, <2>4, <2>6, <2>8, OneFileMade
  <2> QED BY <2>5, <2>7, <2>8
<1>4. CASE CalmIsLinkToDir
  <2>1. PICK f : f = [heap[Len(heap)] EXCEPT !.target = TargetIn(fs, heap[Len(heap)].path)]
    OBVIOUS
  <2>2. Len(heap) \in 1..Len(heap)
    BY <1>0, <1>4 DEF CalmIsLinkToDir, TypeInv, PcInv
  <2>3. heap' = [heap EXCEPT ![Len(heap)] = f]
    BY <1>1, <1>4, <2>1 DEF CalmIsLinkToDir, Cur
  <2>4. /\ f.path = heap[Len(heap)].path /\ f.stat = heap[Len(heap)].stat
        /\ f.target = TargetIn(fs, heap[Len(heap)].path) /\ f.lacked = heap[Len(heap)].lacked
    BY <1>0, <2>1, <2>2 DEF FileType
  <2> QED BY <2>2, <2>3, <2>4, OneFileLooked
<1>5. CASE CalmStatFile
  <2>1. PICK i \in InTopFiles : /\ StatNeeded(i)
                                /\ heap' = [heap EXCEPT ![i].stat = LstatIn(fs, heap[i].path)]
    BY <1>1, <1>5 DEF CalmStatFile
  <2>2. i \in 1..Len(heap)
    BY <1>5, TopFacts DEF InTopFiles, CalmStatFile
  <2>3. PICK f : f = [heap[i] EXCEPT !.stat = LstatIn(fs, heap[i].path)]
    OBVIOUS
  <2>4. heap' = [heap EXCEPT ![i] = f] /\ WantsLstat(opts)
    BY <2>1, <2>3 DEF StatNeeded, WantsLstat
  <2>5. /\ f.path = heap[i].path /\ f.stat = LstatIn(fs, heap[i].path)
        /\ f.target = heap[i].target /\ f.lacked = heap[i].lacked
    BY <1>0, <2>2, <2>3 DEF FileType
  <2> QED BY <2>2, <2>4, <2>5, OneFileLooked
<1>6. CASE CalmFollowFile
  <2>1. PICK i \in InTopFiles : heap' = [heap EXCEPT ![i].target = TargetIn(fs, heap[i].path)]
    BY <1>1, <1>6 DEF CalmFollowFile
  <2>2. i \in 1..Len(heap)
    BY <1>6, TopFacts DEF InTopFiles, CalmFollowFile
  <2>3. PICK f : f = [heap[i] EXCEPT !.target = TargetIn(fs, heap[i].path)]
    OBVIOUS
  <2>4. heap' = [heap EXCEPT ![i] = f]
    BY <2>1, <2>3
  <2>5. /\ f.path = heap[i].path /\ f.stat = heap[i].stat
        /\ f.target = TargetIn(fs, heap[i].path) /\ f.lacked = heap[i].lacked
    BY <1>0, <2>2, <2>3 DEF FileType
  <2> QED BY <2>2, <2>4, <2>5, OneFileLooked
<1>7. CASE CalmStatEntry
  <2>0. Len(heap) \in 1..Len(heap) /\ WantsLstat(opts)
    BY <1>0, <1>7, EntryWantsLstat DEF CalmStatEntry, TypeInv, PcInv
  <2>1. PICK f : /\ heap' = [heap EXCEPT ![Len(heap)] = f]
                 /\ f.path = heap[Len(heap)].path /\ f.stat = LstatIn(fs, heap[Len(heap)].path)
                 /\ f.target = heap[Len(heap)].target /\ f.lacked = heap[Len(heap)].lacked
    <3>1. CurStat = LstatIn(fs, heap[Len(heap)].path)
      BY <1>1 DEF CurStat, Cur
    <3>2. PICK f : f = [heap[Len(heap)] EXCEPT !.stat = CurStat]
      OBVIOUS
    <3>3. PICK g : g = [heap[Len(heap)] EXCEPT !.stat = CurStat, !.freed = 1]
      OBVIOUS
    <3>4. heap' = [heap EXCEPT ![Len(heap)] = f] \/ heap' = [heap EXCEPT ![Len(heap)] = g]
      BY <1>7, <3>2, <3>3 DEF CalmStatEntry, Cur
    <3>5. /\ f.path = heap[Len(heap)].path /\ f.stat = CurStat
          /\ f.target = heap[Len(heap)].target /\ f.lacked = heap[Len(heap)].lacked
          /\ g.path = heap[Len(heap)].path /\ g.stat = CurStat
          /\ g.target = heap[Len(heap)].target /\ g.lacked = heap[Len(heap)].lacked
      BY <1>0, <2>0, <3>2, <3>3 DEF FileType
    <3> QED BY <3>1, <3>4, <3>5
  <2> QED BY <2>0, <2>1, OneFileLooked
<1>8. CASE ReadEntry
  <2>1. PICK p : heap' = heap \/ heap' = Append(heap, NewFile(p))
    BY <1>8, Zenon DEF ReadEntry
  <2>2. NewFile(p).target = "unknown" /\ NewFile(p).stat = "unknown"
        /\ NewFile(p).lacked = FALSE
    BY DEF NewFile
  <2>3. "unknown" # "failed"
    OBVIOUS
  <2> QED BY <1>2, <2>1, <2>2, <2>3, OneFileMade, Zenon
<1>9. CASE PrintFiles \/ DirsDone \/ Return
  <2>1. PICK ids : heap' = heap \/ heap' = FreeAll(heap, ids)
    BY <1>9, Zenon DEF PrintFiles, DirsDone, Return
  <2> QED BY <1>2, <2>1, FreedFilesLooked, Zenon
<1>10. CASE OperandsDone \/ NextDir \/ Open \/ ReadEnd \/ UNCHANGED vars
  <2>1. heap' = heap
    BY <1>10, Zenon DEF OperandsDone, NextDir, Open, ReadEnd, vars
  <2> QED BY <1>2, <2>1
<1> QED BY <1>3, <1>4, <1>5, <1>6, <1>7, <1>8, <1>9, <1>10, Zenon DEF Works

\* What is remembered of a File is what still is so, and it has lacked no answer.
StatsTrue ==
    \A i \in 1..Len(heap) :
        /\ ~heap[i].lacked
        /\ heap[i].stat \in {"unknown", LstatIn(fs, heap[i].path)}
        /\ heap[i].target \in {"unknown", TargetIn(fs, heap[i].path)}
        /\ heap[i].stat = "failed" => WantsLstat(opts) \/ exit = 1

LEMMA StatsTrueStep ==
    ASSUME TypeInv, TypeInv', FilesLooked, StatsTrue, Steady, [Next]_vars
    PROVE  StatsTrue'
<1>1. Len(heap) \in Nat /\ exit \in {0, 1} /\ exit' = 0 => exit = 0
  BY ExitStays DEF TypeInv, Parts, HeapType, PlainType
<1>2. exit = 1 => exit' = 1
  <2>1. exit' \in {0, 1}
    BY DEF TypeInv, Parts, PlainType
  <2> QED BY <1>1, <2>1
<1>3. ASSUME NEW i \in 1..Len(heap')
      PROVE  /\ ~heap'[i].lacked
             /\ heap'[i].stat \in {"unknown", LstatIn(fs, heap'[i].path)}
             /\ heap'[i].target \in {"unknown", TargetIn(fs, heap'[i].path)}
             /\ heap'[i].stat = "failed" => WantsLstat(opts) \/ exit' = 1
  <2>1. CASE i \in 1..Len(heap)
    <3>1. FileLooked(i)
      BY <2>1 DEF FilesLooked
    <3> QED BY <1>2, <2>1, <3>1 DEF FileLooked, StatsTrue
  <2>2. CASE i \notin 1..Len(heap)
    <3>1. FileMade(i)
      BY <1>3, <2>2 DEF FilesLooked
    <3> QED BY <3>1 DEF FileMade
  <2> QED BY <2>1, <2>2
<1> QED BY <1>3 DEF StatsTrue, Steady

\* The paths of the Files on a list.
On(h, list) == {h[list[n]].path : n \in 1..Len(list)}

LEMMA OnKept ==
    ASSUME FilesLooked, NEW list \in Seq(1..Len(heap))
    PROVE  On(heap', list) = On(heap, list)
<1>1. \A n \in 1..Len(list) : list[n] \in 1..Len(heap)
  OBVIOUS
<1>2. \A n \in 1..Len(list) : heap'[list[n]].path = heap[list[n]].path
  BY <1>1 DEF FilesLooked, FileLooked
<1> QED BY <1>2, Zenon DEF On

LEMMA OnMore ==
    ASSUME FilesLooked, NEW list \in Seq(1..Len(heap)), NEW id \in Nat
    PROVE  On(heap', Append(list, id)) = On(heap, list) \cup {heap'[id].path}
<1>1. PICK n \in Nat : n = Len(list)
  OBVIOUS
<1>2. /\ Len(Append(list, id)) = n + 1 /\ Append(list, id)[n + 1] = id
      /\ \A k \in 1..n : Append(list, id)[k] = list[k]
  BY <1>1
<1>3. \A p : (\E k \in 1..n + 1 : p = heap'[Append(list, id)[k]].path)
             <=> (\E k \in 1..n : p = heap'[list[k]].path) \/ p = heap'[id].path
  BY <1>1, <1>2
<1>4. On(heap', Append(list, id)) = On(heap', list) \cup {heap'[id].path}
  <2>1. \A p : p \in On(heap', Append(list, id))
               <=> \E k \in 1..n + 1 : p = heap'[Append(list, id)[k]].path
    BY <1>2, Zenon DEF On
  <2>2. \A p : p \in On(heap', list) <=> \E k \in 1..n : p = heap'[list[k]].path
    BY <1>1, Zenon DEF On
  <2> QED BY <1>3, <2>1, <2>2, Zenon
<1> QED BY <1>4, OnKept

LEMMA OnNothing == \A h : On(h, << >>) = {}
BY DEF On

LEMMA NothingOn ==
    ASSUME NEW S, NEW list \in Seq(S), NEW h, On(h, list) = {}
    PROVE  list = << >>
<1>1. Len(list) \in Nat /\ (Len(list) # 0 => 1 \in 1..Len(list))
  OBVIOUS
<1>2. Len(list) = 0
  BY <1>1 DEF On
<1> QED BY <1>2

-----------------------------------------------------------------------------
(* What main() makes of the operands.                                          *)

Looking == pc \in {"operand", "islinktodir"}
MainWaits == Looking \/ (pc = "files" /\ Len(stack) = 1)

\* The operands that have been put on a list.
Sorted == IF pc = "islinktodir" THEN looked - 1 ELSE looked
SomeOf(q, n) == {q[k] : k \in 1..n}
AskedFor(q, n, S) == {k \in 1..n : q[k] \in S}

LinkInv ==
    pc = "islinktodir" =>
        /\ looked >= 1 /\ heap[Len(heap)].path = operands[looked]
        /\ LstatIn(fs, operands[looked]) = "link" /\ ~opts.directory /\ opts.follow

LEMMA LinkStep ==
    ASSUME TypeInv, LinkInv, Steady, Works \/ UNCHANGED vars
    PROVE  LinkInv'
<1>1. CASE CalmOperand
  <2> SUFFICES ASSUME pc' = "islinktodir" PROVE LinkInv'
    BY DEF LinkInv
  <2>1. pc = "operand"
    BY <1>1 DEF CalmOperand
  <2>2. PICK p : p = operands[looked + 1]
    OBVIOUS
  <2>3. PICK x : x = [NewFile(p) EXCEPT !.stat = Lstat(p)]
    OBVIOUS
  <2>4. heap' = Append(heap, x) /\ Lstat(p) = "link" /\ ~opts.directory /\ opts.follow
        /\ looked' = looked + 1
    BY <1>1, <2>1, <2>2, <2>3 DEF CalmOperand
  <2>5. x.path = p /\ LstatIn(fs, p) = "link"
    BY <2>3, <2>4, StatsAreIn DEF NewFile
  <2>6. heap'[Len(heap')].path = p
    BY <2>4, <2>5 DEF TypeInv, Parts, HeapType
  <2>7. looked \in Nat
    BY DEF TypeInv, Parts, PlainType
  <2> QED BY <2>2, <2>4, <2>5, <2>6, <2>7 DEF LinkInv, Steady
<1>2. CASE UNCHANGED vars
  BY <1>2 DEF vars, LinkInv
<1>3. CASE ~CalmOperand /\ Works
  <2>1. pc' # "islinktodir"
    BY <1>3, Zenon DEF Works, CalmIsLinkToDir, OperandsDone, CalmStatFile, CalmFollowFile, PrintFiles,
         NextDir, DirsDone, Open, ReadEntry, CalmStatEntry, ReadEnd, Return, CloseStream
  <2> QED BY <2>1, Zenon DEF LinkInv
<1> QED BY <1>1, <1>2, <1>3

MainLists ==
    /\ ~Looking => looked = Len(operands)
    /\ stack # << >> =>
          /\ On(heap, stack[1].dirs) =
                SomeOf(operands, Sorted) \cap TopDirsOf(fs, opts, operands)
          /\ Len(stack[1].dirs) =
                Cardinality(AskedFor(operands, Sorted, TopDirsOf(fs, opts, operands)))
          /\ MainWaits => On(heap, stack[1].files) =
                             SomeOf(operands, Sorted) \cap TopFilesOf(fs, opts, operands)
          /\ ~Looking => (stack[1].first <=> TopFilesOf(fs, opts, operands) = {})

\* One operand more is on a list, or is on none as it cannot be listed.
SortsOne(id) ==
    LET p == operands[Sorted + 1]
    IN  /\ Sorted' = Sorted + 1 /\ Sorted + 1 \in 1..Len(operands)
        /\ id \in 1..Len(heap') /\ heap'[id].path = p
        /\ \/ /\ p \in TopDirsOf(fs, opts, operands)
              /\ stack' = WithTop([Top EXCEPT !.dirs = Append(Top.dirs, id)])
           \/ /\ p \in TopFilesOf(fs, opts, operands)
              /\ stack' = WithTop([Top EXCEPT !.files = Append(Top.files, id)])
           \/ /\ p \notin TopDirsOf(fs, opts, operands)
              /\ p \notin TopFilesOf(fs, opts, operands)
              /\ stack' = stack

LEMMA InToSet ==
    ASSUME NEW S, NEW s \in Seq(S), NEW k \in 1..Len(s)
    PROVE  s[k] \in ToSet(s)
BY DEF ToSet

LEMMA OperandSorts ==
    ASSUME TypeInv, TypeInv', CalmOperand, Steady
    PROVE  \/ Sorted' = Sorted /\ stack' = stack
           \/ SortsOne(Len(heap'))
<1>1. /\ pc = "operand" /\ looked' = looked + 1 /\ looked \in Nat /\ looked < Len(operands)
      /\ looked + 1 \in 1..Len(operands) /\ Len(heap) \in Nat
      /\ operands \in Seq(Seq(AnyName) \ {<< >>})
  <2>1. /\ pc = "operand" /\ looked' = looked + 1 /\ looked < Len(operands)
    BY DEF CalmOperand
  <2>2. looked \in Nat /\ operands \in Seq(Seq(AnyName) \ {<< >>}) /\ Len(heap) \in Nat
    BY ListingAssumption, SMTT(30) DEF ListingAssumption, TypeInv, Parts, PlainType, HeapType
  <2>3. Len(operands) \in Nat
    BY <2>2
  <2>4. looked + 1 \in 1..Len(operands)
    BY <2>1, <2>2, <2>3
  <2> QED BY <2>1, <2>2, <2>4, Zenon
<1>2. PICK p : p = operands[looked + 1]
  OBVIOUS
<1>3. PICK st : st = LstatIn(fs, p) /\ st = Lstat(p)
  BY StatsAreIn
<1>4. PICK x : x = [NewFile(p) EXCEPT !.stat = st]
  OBVIOUS
<1>5. PICK y : y = [x EXCEPT !.freed = 1]
  OBVIOUS
<1>6. x.path = p /\ y.path = p
  BY <1>4, <1>5 DEF NewFile
<1>7. heap' = Append(heap, x) \/ heap' = Append(heap, y)
  BY <1>1, <1>2, <1>3, <1>4, <1>5 DEF CalmOperand
<1>8. /\ Len(heap') \in 1..Len(heap') /\ heap'[Len(heap')].path = p
      /\ Len(heap') = Len(heap) + 1
  BY <1>1, <1>6, <1>7 DEF TypeInv, Parts, HeapType
<1>9. p \in ToSet(operands)
  BY <1>1, <1>2, InToSet
<1>10. \/ st = "failed" /\ stack' = stack /\ pc' = pc
       \/ /\ st = "dir" /\ ~opts.directory /\ pc' = pc
          /\ stack' = WithTop([Top EXCEPT !.dirs = Append(Top.dirs, Len(heap) + 1)])
       \/ st = "link" /\ ~opts.directory /\ opts.follow /\ stack' = stack /\ pc' = "islinktodir"
       \/ /\ st # "failed" /\ ~(st = "dir" /\ ~opts.directory)
          /\ ~(st = "link" /\ ~opts.directory /\ opts.follow) /\ pc' = pc
          /\ stack' = WithTop([Top EXCEPT !.files = Append(Top.files, Len(heap) + 1)])
  BY <1>1, <1>2, <1>3 DEF CalmOperand
<1>11. Sorted = looked /\ (Sorted' = IF pc' = "islinktodir" THEN looked ELSE looked + 1)
  BY <1>1 DEF Sorted
<1>12. p \in TopDirsOf(fs, opts, operands) <=>
          ~opts.directory /\ (st = "dir" \/ (opts.follow /\ st = "link" /\ TargetIn(fs, p) = "dir"))
  BY <1>3, <1>9 DEF TopDirsOf
<1>13. p \in TopFilesOf(fs, opts, operands) <=>
          st # "failed" /\ p \notin TopDirsOf(fs, opts, operands)
  BY <1>3, <1>9 DEF TopFilesOf
<1>14. CASE st = "link" /\ ~opts.directory /\ opts.follow /\ stack' = stack /\ pc' = "islinktodir"
  BY <1>11, <1>14
<1>15. CASE pc' = pc
  <2>1. Sorted' = Sorted + 1 /\ Sorted + 1 \in 1..Len(operands)
    BY <1>1, <1>11, <1>15
  <2>2. p = operands[Sorted + 1]
    BY <1>1, <1>2, <1>11
  <2>3. \/ /\ p \in TopDirsOf(fs, opts, operands)
           /\ stack' = WithTop([Top EXCEPT !.dirs = Append(Top.dirs, Len(heap'))])
        \/ /\ p \in TopFilesOf(fs, opts, operands)
           /\ stack' = WithTop([Top EXCEPT !.files = Append(Top.files, Len(heap'))])
        \/ /\ p \notin TopDirsOf(fs, opts, operands)
           /\ p \notin TopFilesOf(fs, opts, operands)
           /\ stack' = stack
    <3>1. pc' # "islinktodir"
      BY <1>1, <1>15
    <3> HIDE DEF TopDirsOf, TopFilesOf, WithTop, Top
    <3> QED BY <1>8, <1>10, <1>12, <1>13, <3>1
  <2> QED BY <1>8, <2>1, <2>2, <2>3 DEF SortsOne
<1> QED BY <1>1, <1>10, <1>14, <1>15

LEMMA LinkSorts ==
    ASSUME TypeInv, LinkInv, CalmIsLinkToDir, Steady
    PROVE  SortsOne(Len(heap'))
<1>1. /\ pc = "islinktodir" /\ pc' = "operand" /\ looked' = looked /\ looked \in 1..Len(operands)
      /\ Len(heap) \in Nat /\ Len(heap) >= 1 /\ Len(heap') = Len(heap)
      /\ operands \in Seq(Seq(AnyName) \ {<< >>})
  <2>1. pc = "islinktodir" /\ pc' = "operand" /\ looked' = looked
    BY DEF CalmIsLinkToDir
  <2>2. looked \in 0..Len(operands) /\ operands \in Seq(Seq(AnyName) \ {<< >>}) /\ Len(heap) \in Nat
    BY ListingAssumption DEF ListingAssumption, TypeInv, Parts, PlainType, HeapType
  <2>3. looked >= 1 /\ Len(heap) >= 1
    BY <2>1 DEF LinkInv, TypeInv, PcInv
  <2>4. Len(heap') = Len(heap)
    BY DEF CalmIsLinkToDir, TypeInv, Parts, HeapType
  <2> QED BY <2>1, <2>2, <2>3, <2>4
<1>2. PICK p : p = operands[looked]
  OBVIOUS
<1>3. heap[Len(heap)].path = p /\ LstatIn(fs, p) = "link" /\ ~opts.directory /\ opts.follow
  BY <1>1, <1>2 DEF LinkInv
<1>4. heap'[Len(heap)].path = p
  BY <1>1, <1>3 DEF CalmIsLinkToDir, Cur, TypeInv, Parts, HeapType, FileType
<1>5. p \in ToSet(operands)
  BY <1>1, <1>2, InToSet
<1>6. Sorted = looked - 1 /\ Sorted' = looked
  BY <1>1 DEF Sorted
<1>7. p \in TopDirsOf(fs, opts, operands) <=> TargetIn(fs, p) = "dir"
  BY <1>3, <1>5 DEF TopDirsOf
<1>8. p \in TopFilesOf(fs, opts, operands) <=> p \notin TopDirsOf(fs, opts, operands)
  BY <1>3, <1>5 DEF TopFilesOf
<1>9. stack' = IF TargetIn(fs, p) = "dir"
               THEN WithTop([Top EXCEPT !.dirs = Append(Top.dirs, Len(heap'))])
               ELSE WithTop([Top EXCEPT !.files = Append(Top.files, Len(heap'))])
  <2>1. Target(p) = TargetIn(fs, p)
    BY StatsAreIn, Zenon
  <2> QED BY <1>1, <1>3, <2>1 DEF CalmIsLinkToDir, Cur
<1>10. /\ Sorted' = Sorted + 1 /\ Sorted + 1 \in 1..Len(operands) /\ p = operands[Sorted + 1]
       /\ Len(heap') \in 1..Len(heap')
  BY <1>1, <1>2, <1>6
<1> HIDE DEF TopDirsOf, TopFilesOf, WithTop, Top
<1> QED BY <1>1, <1>4, <1>7, <1>8, <1>9, <1>10 DEF SortsOne

LEMMA SortedMore ==
    ASSUME NEW q, NEW n \in Nat, NEW S, NEW p, p = q[n + 1]
    PROVE  /\ SomeOf(q, n + 1) = SomeOf(q, n) \cup {p}
           /\ Cardinality(AskedFor(q, n, S)) \in Nat
           /\ p \in S => Cardinality(AskedFor(q, n + 1, S)) = Cardinality(AskedFor(q, n, S)) + 1
           /\ p \notin S => AskedFor(q, n + 1, S) = AskedFor(q, n, S)
<1>1. \A k : k \in 1..n + 1 <=> k \in 1..n \/ k = n + 1
  OBVIOUS
<1>2. SomeOf(q, n + 1) = SomeOf(q, n) \cup {q[n + 1]}
  BY <1>1 DEF SomeOf
<1>3. AskedFor(q, n + 1, S) =
                 AskedFor(q, n, S) \cup (IF q[n + 1] \in S THEN {n + 1} ELSE {})
  BY <1>1 DEF AskedFor
<1>4. IsFiniteSet(AskedFor(q, n, S)) /\ n + 1 \notin AskedFor(q, n, S)
  <2>1. IsFiniteSet(1..n) /\ n + 1 \notin 1..n
    BY FS_Interval
  <2> QED BY <2>1, FS_Subset DEF AskedFor
<1>5. Cardinality(AskedFor(q, n, S)) \in Nat
  BY <1>4, FS_CardinalityType
<1>6. Cardinality(AskedFor(q, n, S) \cup {n + 1}) = Cardinality(AskedFor(q, n, S)) + 1
  BY <1>4, FS_AddElement
<1>7. p \in S => Cardinality(AskedFor(q, n + 1, S)) = Cardinality(AskedFor(q, n, S)) + 1
  BY <1>3, <1>6
<1>8. p \notin S => AskedFor(q, n + 1, S) = AskedFor(q, n, S)
  BY <1>3
<1> QED BY <1>2, <1>5, <1>7, <1>8, Zenon

\* The frame of main() while it is the only one.
LEMMA MainIsTop ==
    ASSUME TypeInv, Len(stack) = 1
    PROVE  /\ stack # << >> /\ pc # "done" /\ Top = stack[1] /\ Len(stack) \in Nat
           /\ stack[1].files \in Seq(1..Len(heap)) /\ stack[1].dirs \in Seq(1..Len(heap))
<1>1. stack # << >> /\ pc # "done"
  <2>1. Len(<< >>) # 1
    OBVIOUS
  <2> QED BY <2>1, Zenon DEF TypeInv, Parts, PlainType
<1>2. Top = stack[1]
  BY DEF Top
<1>3. Top.files \in Seq(1..Len(heap)) /\ Top.dirs \in Seq(1..Len(heap)) /\ Len(stack) \in Nat
  BY <1>1, TopFacts
<1> QED BY <1>1, <1>2, <1>3

LEMMA ChangedMain ==
    ASSUME TypeInv, Len(stack) = 1, NEW f, stack' = WithTop(f)
    PROVE  stack' # << >> /\ Len(stack') = 1 /\ stack'[1] = f
<1>1. Len(stack') = 1 /\ stack'[1] = f
  BY MainIsTop, TopIs
<1> QED BY <1>1

LEMMA MainFields ==
    ASSUME TypeInv, Len(stack) = 1, NEW list
    PROVE  LET f == [Top EXCEPT !.dirs = list]
               g == [Top EXCEPT !.files = list]
           IN  /\ f.dirs = list /\ f.files = Top.files /\ f.first = Top.first
               /\ f.listed = Top.listed /\ f.dir = Top.dir
               /\ g.files = list /\ g.dirs = Top.dirs /\ g.first = Top.first
               /\ g.listed = Top.listed /\ g.dir = Top.dir
  BY MainIsTop, TopFacts DEF Frames

LEMMA SortingKeepsLists ==
    ASSUME TypeInv, TypeInv', FilesLooked, MainLists, Steady, Len(stack) = 1,
           Looking, Looking', SortsOne(Len(heap'))
    PROVE  MainLists'
<1>1. PICK id : id = Len(heap') /\ id \in Nat
  BY DEF SortsOne
<1>2. PICK n : n = Sorted
  OBVIOUS
<1>3. PICK p : p = operands[n + 1]
  OBVIOUS
<1>4. PICK D : D = TopDirsOf(fs, opts, operands)
  OBVIOUS
<1>5. PICK F : F = TopFilesOf(fs, opts, operands)
  OBVIOUS
<1>6. n \in Nat /\ Sorted' = n + 1 /\ heap'[id].path = p
  <2>1. looked \in Nat /\ looked' \in Nat
    BY DEF TypeInv, Parts, PlainType
  <2>2. n \in Int
    BY <1>2, <2>1 DEF Sorted
  <2>3. n + 1 \in 1..Len(operands) /\ Sorted' = n + 1 /\ heap'[id].path = p
    BY <1>1, <1>2, <1>3 DEF SortsOne
  <2> QED BY <2>2, <2>3
<1>7. /\ stack # << >> /\ Top = stack[1]
      /\ Top.files \in Seq(1..Len(heap)) /\ Top.dirs \in Seq(1..Len(heap))
  BY MainIsTop
<1>8. /\ On(heap, Top.dirs) = SomeOf(operands, n) \cap D
      /\ On(heap, Top.files) = SomeOf(operands, n) \cap F
      /\ Len(Top.dirs) = Cardinality(AskedFor(operands, n, D))
  BY <1>2, <1>4, <1>5, <1>7 DEF MainLists, MainWaits
<1>9. /\ SomeOf(operands, n + 1) = SomeOf(operands, n) \cup {p}
      /\ Cardinality(AskedFor(operands, n, D)) \in Nat
      /\ p \in D => Cardinality(AskedFor(operands, n + 1, D)) =
                        Cardinality(AskedFor(operands, n, D)) + 1
      /\ p \notin D => AskedFor(operands, n + 1, D) = AskedFor(operands, n, D)
  BY <1>3, <1>6, SortedMore, Zenon
<1>10. D \cap F = {}
  BY <1>4, <1>5 DEF TopFilesOf
<1>11. /\ On(heap', Top.dirs) = On(heap, Top.dirs) /\ On(heap', Top.files) = On(heap, Top.files)
       /\ On(heap', Append(Top.dirs, id)) = On(heap, Top.dirs) \cup {p}
       /\ On(heap', Append(Top.files, id)) = On(heap, Top.files) \cup {p}
       /\ Len(Append(Top.dirs, id)) = Len(Top.dirs) + 1
  BY <1>1, <1>6, <1>7, OnKept, OnMore
<1>12. PICK d, g : /\ d = stack'[1].dirs /\ g = stack'[1].files
                   /\ \/ p \in D /\ d = Append(Top.dirs, id) /\ g = Top.files
                      \/ p \in F /\ d = Top.dirs /\ g = Append(Top.files, id)
                      \/ p \notin D /\ p \notin F /\ d = Top.dirs /\ g = Top.files
  <2>1. CASE /\ p \in D
             /\ stack' = WithTop([Top EXCEPT !.dirs = Append(Top.dirs, id)])
    <3>1. PICK f : f = [Top EXCEPT !.dirs = Append(Top.dirs, id)]
      OBVIOUS
    <3>2. f.dirs = Append(Top.dirs, id) /\ f.files = Top.files
      BY <3>1, MainFields
    <3>3. stack'[1] = f
      BY <2>1, <3>1, ChangedMain
    <3> QED BY <2>1, <3>2, <3>3
  <2>2. CASE /\ p \in F
             /\ stack' = WithTop([Top EXCEPT !.files = Append(Top.files, id)])
    <3>1. PICK f : f = [Top EXCEPT !.files = Append(Top.files, id)]
      OBVIOUS
    <3>2. f.files = Append(Top.files, id) /\ f.dirs = Top.dirs
      BY <3>1, MainFields
    <3>3. stack'[1] = f
      BY <2>2, <3>1, ChangedMain
    <3> QED BY <2>2, <3>2, <3>3
  <2>3. CASE p \notin D /\ p \notin F /\ stack' = stack
    BY <1>7, <2>3
  <2> QED BY <1>1, <1>2, <1>3, <1>4, <1>5, <2>1, <2>2, <2>3 DEF SortsOne
<1>13. /\ On(heap', d) = SomeOf(operands, n + 1) \cap D
       /\ On(heap', g) = SomeOf(operands, n + 1) \cap F
  <2>1. CASE p \in D /\ d = Append(Top.dirs, id) /\ g = Top.files
    BY <1>8, <1>9, <1>10, <1>11, <2>1
  <2>2. CASE p \in F /\ d = Top.dirs /\ g = Append(Top.files, id)
    BY <1>8, <1>9, <1>10, <1>11, <2>2
  <2>3. CASE p \notin D /\ p \notin F /\ d = Top.dirs /\ g = Top.files
    BY <1>8, <1>9, <1>11, <2>3
  <2> QED BY <1>12, <2>1, <2>2, <2>3
<1>14. Len(d) = Cardinality(AskedFor(operands, n + 1, D))
  BY <1>8, <1>9, <1>10, <1>11, <1>12
<1> HIDE DEF TopDirsOf, TopFilesOf, On, SomeOf, AskedFor
<1> QED BY <1>4, <1>5, <1>6, <1>12, <1>13, <1>14 DEF MainLists, Steady

\* Below main() only the frames above its own change.
LEMMA MainIsBelow ==
    ASSUME TypeInv, pc # "done", Len(stack) >= 2,
           \/ stack' = stack \/ stack' = Pop \/ \E f : stack' = WithTop(f)
           \/ \E f, g : stack' = Append(WithTop(f), g)
    PROVE  stack' # << >> /\ stack'[1] = stack[1]
<1>1. Len(stack) \in Nat /\ 1 \in 1..Len(stack) - 1 /\ Len(stack) - 1 # 0 /\ stack # << >>
      /\ Len(stack) # 0 /\ Len(stack) + 1 # 0
  <2>1. stack # << >> /\ Len(stack) \in Nat
    BY TopFacts, Zenon
  <2>2. PICK n \in Nat : n = Len(stack) /\ n >= 2
    BY <2>1
  <2> QED BY <2>1, <2>2
<1>2. Len(<< >>) = 0
  OBVIOUS
<1>3. CASE stack' = stack
  BY <1>1, <1>3
<1>4. CASE stack' = Pop
  BY <1>1, <1>2, <1>4, PopLists, Zenon
<1>5. ASSUME NEW f, stack' = WithTop(f) PROVE stack' # << >> /\ stack'[1] = stack[1]
  BY <1>1, <1>2, <1>5, TopIs, Zenon
<1>6. ASSUME NEW f, NEW g, stack' = Append(WithTop(f), g)
      PROVE  stack' # << >> /\ stack'[1] = stack[1]
  BY <1>1, <1>2, <1>6, PushedIs, Zenon
<1> QED BY <1>3, <1>4, <1>5, <1>6

\* What main() found out stays what it is: its frame changes only in what is
\* listed, and its files go when they are printed.
MainStays ==
    /\ looked' = looked /\ ~Looking /\ ~Looking'
    /\ stack' # << >> =>
          /\ stack # << >>
          /\ stack'[1].dirs = stack[1].dirs /\ stack'[1].first = stack[1].first
          /\ MainWaits' => MainWaits /\ stack'[1].files = stack[1].files

LEMMA InsideMainStays ==
    ASSUME TypeInv, Open \/ ReadEntry \/ CalmStatEntry \/ ReadEnd \/ Return
    PROVE  MainStays
<1>1. pc # "done" /\ Len(stack) >= 2 /\ ~Looking /\ stack # << >>
  <2>1. pc \in {"open", "read", "entry", "return"}
    BY DEF Open, ReadEntry, CalmStatEntry, ReadEnd, Return
  <2>2. pc # "done" /\ Len(stack) >= 2 /\ ~Looking
    BY <2>1 DEF TypeInv, PcInv, Looking
  <2> QED BY <2>2, TopFacts
<1>2. looked' = looked /\ ~Looking'
  BY <1>1 DEF Open, ReadEntry, CalmStatEntry, ReadEnd, Return, Looking, CloseStream
<1>3. \/ stack' = stack \/ stack' = Pop \/ \E f : stack' = WithTop(f)
  <2>1. CASE Open \/ ReadEnd \/ Return
    BY <2>1 DEF Open, ReadEnd, Return
  <2>2. CASE ReadEntry
    BY <2>2, Zenon DEF ReadEntry
  <2>3. CASE CalmStatEntry
    BY <2>3, Zenon DEF CalmStatEntry
  <2> QED BY <2>1, <2>2, <2>3
<1>4. stack'[1] = stack[1]
  BY <1>1, <1>3, MainIsBelow, Zenon
<1>5. ~MainWaits'
  <2>1. CASE pc' = "files"
    <3>1. stack' = stack
      BY <1>1, <2>1 DEF Open, ReadEntry, CalmStatEntry, ReadEnd, Return
    <3>2. Len(stack') # 1
      BY <1>1, <3>1, TwoIsNotOne, TopFacts, Zenon
    <3> QED BY <1>2, <3>2 DEF MainWaits
  <2>2. CASE pc' # "files"
    BY <1>2, <2>2 DEF MainWaits
  <2> QED BY <2>1, <2>2
<1> QED BY <1>1, <1>2, <1>4, <1>5 DEF MainStays

LEMMA NextDirMainStays ==
    ASSUME TypeInv, NextDir
    PROVE  /\ MainStays
           /\ stack' # << >> /\ Len(stack') = Len(stack) + 1
           /\ stack'[1].listed = IF Len(stack) = 1 THEN stack[1].listed + 1 ELSE stack[1].listed
<1>1. /\ pc = "dirs" /\ pc' = "open" /\ looked' = looked
      /\ stack' = Append(WithTop([Top EXCEPT !.listed = Top.listed + 1]),
                         Frame(Top.dirs[Top.listed + 1], FALSE))
  BY DEF NextDir
<1>2. /\ stack # << >> /\ Len(stack) \in Nat \ {0} /\ Top \in Frames(Len(heap))
      /\ pc # "done"
  BY <1>1, TopFacts
<1>3. PICK f : f = [Top EXCEPT !.listed = Top.listed + 1]
  OBVIOUS
<1>4. f.dirs = Top.dirs /\ f.first = Top.first /\ f.listed = Top.listed + 1
  BY <1>2, <1>3 DEF Frames
<1>5. PICK g : stack' = Append(WithTop(f), g)
  BY <1>1, <1>3
<1>6. /\ Len(stack') = Len(stack) + 1 /\ stack'[Len(stack)] = f
      /\ \A i \in 1..Len(stack) - 1 : stack'[i] = stack[i]
  BY <1>2, <1>5, PushedIs, Zenon
<1>7. /\ stack'[1].dirs = stack[1].dirs /\ stack'[1].first = stack[1].first
      /\ stack'[1].listed = IF Len(stack) = 1 THEN stack[1].listed + 1 ELSE stack[1].listed
  <2>1. CASE Len(stack) = 1
    BY <1>4, <1>6, <2>1 DEF Top
  <2>2. CASE Len(stack) # 1
    <3>1. 1 \in 1..Len(stack) - 1
      BY <1>2, <2>2, OneOrBelow, Zenon
    <3>2. stack'[1] = stack[1]
      BY <1>6, <3>1, Zenon
    <3> QED BY <2>2, <3>2, Zenon
  <2> QED BY <2>1, <2>2
<1>8. ~Looking /\ ~Looking' /\ ~MainWaits'
  BY <1>1 DEF Looking, MainWaits
<1>9. stack' # << >>
  <2>1. Len(stack') # Len(<< >>)
    BY <1>2, <1>6
  <2> QED BY <2>1, Zenon
<1> QED BY <1>1, <1>2, <1>6, <1>7, <1>8, <1>9 DEF MainStays

LEMMA OtherMainStays ==
    ASSUME TypeInv, CalmStatFile \/ CalmFollowFile \/ PrintFiles \/ DirsDone
    PROVE  /\ MainStays
           /\ stack' # << >> => stack'[1].listed = stack[1].listed
<1>1. pc \in {"files", "dirs"} /\ pc # "done" /\ stack # << >> /\ Len(stack) \in Nat \ {0}
  BY TopFacts DEF CalmStatFile, CalmFollowFile, PrintFiles, DirsDone
<1>2. looked' = looked /\ ~Looking /\ ~Looking'
  BY <1>1 DEF CalmStatFile, CalmFollowFile, PrintFiles, DirsDone, Looking
<1>3. CASE stack' = stack /\ (pc' = pc \/ pc' # "files")
  BY <1>1, <1>2, <1>3 DEF MainStays, MainWaits, Looking
<1>4. CASE stack' = << >>
  BY <1>1, <1>2, <1>4 DEF MainStays
<1>5. CASE PrintFiles /\ InMain
  <2>1. pc' = "dirs" /\ stack' = WithTop([Top EXCEPT !.files = << >>]) /\ Len(stack) = 1
    BY <1>5 DEF PrintFiles, InMain
  <2>2. PICK f : f = [Top EXCEPT !.files = << >>]
    OBVIOUS
  <2>3. f.dirs = Top.dirs /\ f.first = Top.first /\ f.listed = Top.listed
    BY <2>1, <2>2, MainFields
  <2>4. stack'[1] = f /\ Top = stack[1]
    BY <2>1, <2>2, ChangedMain, MainIsTop
  <2>5. ~MainWaits'
    BY <2>1 DEF MainWaits, Looking
  <2> QED BY <1>1, <1>2, <2>3, <2>4, <2>5 DEF MainStays
<1>6. CASE ~(PrintFiles /\ InMain)
  <2>1. (stack' = stack /\ (pc' = pc \/ pc' # "files")) \/ stack' = << >>
    BY <1>6 DEF CalmStatFile, CalmFollowFile, PrintFiles, DirsDone
  <2> QED BY <1>3, <1>4, <2>1
<1> QED BY <1>5, <1>6

LEMMA FirstFrame ==
    ASSUME TypeInv, stack # << >>
    PROVE  /\ stack[1].dirs \in Seq(1..Len(heap)) /\ stack[1].files \in Seq(1..Len(heap))
           /\ stack[1].listed \in 0..Len(stack[1].dirs) /\ 1 \in 1..Len(stack)
<1>1. 1 \in DOMAIN stack /\ 1 \in 1..Len(stack)
  BY DEF TypeInv, Parts, HeapType
<1> QED BY <1>1, FrameTypes DEF TypeInv, Parts, ListedType

LEMMA MainStaysLists ==
    ASSUME TypeInv, FilesLooked, MainLists, Steady, MainStays
    PROVE  MainLists'
<1>1. Sorted = looked /\ Sorted' = looked' /\ looked' = looked /\ ~Looking /\ ~Looking'
  BY DEF MainStays, Looking, Sorted
<1>2. CASE stack' = << >>
  BY <1>1, <1>2 DEF MainLists, Steady
<1>3. CASE stack' # << >>
  <2>1. /\ stack # << >>
        /\ stack'[1].dirs = stack[1].dirs /\ stack'[1].first = stack[1].first
        /\ MainWaits' => MainWaits /\ stack'[1].files = stack[1].files
    BY <1>3 DEF MainStays
  <2>2. stack[1].dirs \in Seq(1..Len(heap)) /\ stack[1].files \in Seq(1..Len(heap))
    BY <2>1, FirstFrame
  <2>3. /\ On(heap', stack[1].dirs) = On(heap, stack[1].dirs)
        /\ On(heap', stack[1].files) = On(heap, stack[1].files)
    BY <2>2, OnKept
  <2> HIDE DEF On, SomeOf, AskedFor, TopDirsOf, TopFilesOf
  <2> QED BY <1>1, <2>1, <2>3 DEF MainLists, Steady
<1> QED BY <1>2, <1>3

LEMMA AllOfThem ==
    ASSUME NEW S, NEW q \in Seq(S)
    PROVE  SomeOf(q, Len(q)) = ToSet(q)
BY DEF SomeOf, ToSet

LEMMA OperandsDoneLists ==
    ASSUME TypeInv, MainLists, Steady, OperandsDone
    PROVE  MainLists'
<1>1. /\ pc = "operand" /\ pc' = "files" /\ looked = Len(operands) /\ looked' = looked
      /\ heap' = heap /\ stack' = WithTop([Top EXCEPT !.first = (Top.files = << >>)])
      /\ Len(stack) = 1
  BY DEF OperandsDone, TypeInv, PcInv
<1>2. PICK f : f = [Top EXCEPT !.first = (Top.files = << >>)]
  OBVIOUS
<1>3. /\ f.files = Top.files /\ f.dirs = Top.dirs /\ (f.first <=> Top.files = << >>)
  BY <1>1, <1>2, MainIsTop, TopFacts DEF Frames
<1>4. stack' # << >> /\ stack'[1] = f /\ Len(stack') = 1 /\ Top = stack[1] /\ stack # << >>
      /\ Top.files \in Seq(1..Len(heap))
  BY <1>1, <1>2, ChangedMain, MainIsTop
<1>5. Sorted = looked /\ Sorted' = looked
  BY <1>1 DEF Sorted
<1>6. /\ On(heap, Top.dirs) = SomeOf(operands, looked) \cap TopDirsOf(fs, opts, operands)
      /\ Len(Top.dirs) = Cardinality(AskedFor(operands, looked, TopDirsOf(fs, opts, operands)))
      /\ On(heap, Top.files) = SomeOf(operands, looked) \cap TopFilesOf(fs, opts, operands)
  BY <1>1, <1>4, <1>5 DEF MainLists, MainWaits, Looking
<1>7. SomeOf(operands, looked) \cap TopFilesOf(fs, opts, operands) = TopFilesOf(fs, opts, operands)
  <2>1. operands \in Seq(Seq(AnyName) \ {<< >>})
    BY ListingAssumption DEF ListingAssumption, TypeInv, Parts, PlainType
  <2>2. SomeOf(operands, looked) = ToSet(operands)
    BY <1>1, <2>1, AllOfThem
  <2> QED BY <2>2 DEF TopFilesOf
<1>8. Top.files = << >> <=> TopFilesOf(fs, opts, operands) = {}
  <2>1. Top.files = << >> => On(heap, Top.files) = {}
    BY OnNothing
  <2>2. On(heap, Top.files) = {} => Top.files = << >>
    BY <1>4, NothingOn
  <2> QED BY <1>6, <1>7, <2>1, <2>2
<1> HIDE DEF On, SomeOf, AskedFor, TopDirsOf, TopFilesOf
<1> QED BY <1>1, <1>3, <1>4, <1>5, <1>6, <1>8 DEF MainLists, Steady, Looking

LEMMA MainListsStep ==
    ASSUME TypeInv, TypeInv', FilesLooked, LinkInv, MainLists, Steady, Works \/ UNCHANGED vars
    PROVE  MainLists'
<1>1. ASSUME Looking, Looking', Sorted' = Sorted, stack' = stack, Len(stack) = 1 PROVE MainLists'
  <2>1. stack[1].dirs \in Seq(1..Len(heap)) /\ stack[1].files \in Seq(1..Len(heap))
    BY <1>1, MainIsTop
  <2>2. /\ On(heap', stack[1].dirs) = On(heap, stack[1].dirs)
        /\ On(heap', stack[1].files) = On(heap, stack[1].files)
    BY <2>1, OnKept
  <2> HIDE DEF On, SomeOf, AskedFor, TopDirsOf, TopFilesOf
  <2> QED BY <1>1, <2>2 DEF MainLists, Steady, MainWaits
<1>2. CASE CalmOperand \/ CalmIsLinkToDir
  <2>1. Looking /\ Looking' /\ Len(stack) = 1
    BY <1>2 DEF CalmOperand, CalmIsLinkToDir, Looking, TypeInv, PcInv
  <2>2. SortsOne(Len(heap')) \/ (Sorted' = Sorted /\ stack' = stack)
    BY <1>2, OperandSorts, LinkSorts
  <2> QED BY <1>1, <2>1, <2>2, SortingKeepsLists
<1>3. CASE OperandsDone
  BY <1>3, OperandsDoneLists
<1>4. CASE \/ CalmStatFile \/ CalmFollowFile \/ PrintFiles \/ NextDir \/ DirsDone \/ Open \/ ReadEntry
           \/ CalmStatEntry \/ ReadEnd \/ Return
  <2>1. MainStays
    BY <1>4, InsideMainStays, NextDirMainStays, OtherMainStays
  <2> QED BY <2>1, MainStaysLists
<1>5. CASE UNCHANGED vars
  BY <1>5 DEF vars, MainLists, MainWaits, Looking, Sorted
<1> QED BY <1>2, <1>3, <1>4, <1>5 DEF Works

-----------------------------------------------------------------------------
(* What is on the lists of listdir().                                          *)

\* What is visible in a directory is called by the names in it.
ShownNames(f, o, path) ==
    IF o.all THEN Dots \cup {e \in Names : f[NodeIn(f, path)][e].kind # "none"}
    ELSE {e \in Names \ Hidden : f[NodeIn(f, path)][e].kind # "none"}

LEMMA VisibleFacts ==
    ASSUME NEW f, NEW o, NEW path \in Seq(AnyName), NEW p \in VisibleOf(f, o, path)
    PROVE  /\ p = Append(path, Last(p)) /\ Front(p) = path
           /\ Last(p) \in ShownNames(f, o, path) /\ Last(p) \in AnyName
           /\ p \in Seq(AnyName) \ {<< >>} /\ NodeIn(f, path) # NoNode
<1>1. PICK e \in ShownNames(f, o, path) : p = Append(path, e) /\ NodeIn(f, path) # NoNode
  BY DEF VisibleOf, ShownNames
<1>2. e \in AnyName
  BY <1>1 DEF ShownNames, AnyName, Dots
<1>3. Front(p) = path /\ Last(p) = e
  BY <1>1, FrontAndLastOfAppend, Zenon
<1>4. Append(path, e) \in Seq(AnyName) /\ Append(path, e) # << >>
  <2>1. Append(path, e) \in Seq(AnyName) /\ Len(Append(path, e)) # 0
    BY <1>2
  <2>2. Len(<< >>) = 0
    OBVIOUS
  <2> QED BY <2>1, <2>2, Zenon
<1> QED BY <1>1, <1>2, <1>3, <1>4, Zenon

LEMMA ShownIsVisible ==
    ASSUME NEW f, NEW o, NEW path, NodeIn(f, path) # NoNode,
           NEW e \in ShownNames(f, o, path)
    PROVE  Append(path, e) \in VisibleOf(f, o, path)
BY DEF VisibleOf, ShownNames

Within(S, f, o, path) == S \subseteq VisibleOf(f, o, path)

LEMMA KeptAreVisible ==
    ASSUME NEW f, NEW o, NEW path
    PROVE  /\ Within(KeptOf(f, o, path), f, o, path)
           /\ Within(SubdirsOf(f, o, path), f, o, path)
           /\ SubdirsOf(f, o, path) \subseteq KeptOf(f, o, path)
BY DEF Within, KeptOf, SubdirsOf

\* Those of the paths whose names have been read.
SeenOf(S, left) == {p \in S : Last(p) \notin left}

Reveals(S, left, e, more) == SeenOf(S, left \ {e}) = SeenOf(S, left) \cup more

LEMMA SeenOne ==
    ASSUME NEW f, NEW o, NEW path \in Seq(AnyName), NEW S, Within(S, f, o, path),
           NEW left, NEW e, e \in left
    PROVE  /\ Append(path, e) \in S => Reveals(S, left, e, {Append(path, e)})
           /\ Append(path, e) \notin S => Reveals(S, left, e, {})
<1>0. PICK p : p = Append(path, e)
  OBVIOUS
<1>1. ASSUME NEW r \in S, Last(r) = e PROVE r = p
  BY <1>0, <1>1, VisibleFacts DEF Within
<1>2. Last(p) = e
  BY <1>0, FrontAndLastOfAppend, Zenon
<1> HIDE DEF VisibleOf
<1> QED BY <1>0, <1>1, <1>2 DEF SeenOf, Reveals

ListsOk(f, o, h, path, files, dirs, left) ==
    /\ On(h, files) = SeenOf(KeptOf(f, o, path), left)
    /\ On(h, dirs) = SeenOf(SubdirsOf(f, o, path), left)
    /\ \A m, n \in 1..Len(dirs) : h[dirs[m]].path = h[dirs[n]].path => m = n
    /\ LooksAtOnce(o) => \A n \in 1..Len(files) : h[files[n]].stat # "unknown"

LEMMA ListsStay ==
    ASSUME FilesLooked, NEW files \in Seq(1..Len(heap)), NEW dirs \in Seq(1..Len(heap)),
           NEW path, NEW left, ListsOk(fs, opts, heap, path, files, dirs, left)
    PROVE  ListsOk(fs, opts, heap', path, files, dirs, left)
<1>1. On(heap', files) = On(heap, files) /\ On(heap', dirs) = On(heap, dirs)
  BY OnKept
<1>2. \A n \in 1..Len(dirs) : heap'[dirs[n]].path = heap[dirs[n]].path
  <2>1. \A n \in 1..Len(dirs) : dirs[n] \in 1..Len(heap)
    OBVIOUS
  <2> QED BY <2>1, Zenon DEF FilesLooked, FileLooked
<1>3. ASSUME NEW n \in 1..Len(files), heap[files[n]].stat # "unknown"
      PROVE  heap'[files[n]].stat # "unknown"
  <2>1. FileLooked(files[n])
    BY DEF FilesLooked
  <2>2. LstatIn(fs, heap[files[n]].path) # "unknown"
    BY DEF LstatIn
  <2> QED BY <1>3, <2>1, <2>2, Zenon DEF FileLooked
<1> HIDE DEF On, FilesLooked, SeenOf, KeptOf, SubdirsOf, LooksAtOnce
<1> QED BY <1>1, <1>2, <1>3, Zenon DEF ListsOk

HoldsRead(h, list, S, left, e) == On(h, list) = SeenOf(S, left \ {e})

LEMMA OnSeenOne ==
    ASSUME FilesLooked, NEW list \in Seq(1..Len(heap)), NEW id \in Nat,
           NEW path \in Seq(AnyName), NEW S, Within(S, fs, opts, path),
           NEW left, NEW e, e \in left, On(heap, list) = SeenOf(S, left)
    PROVE  /\ Append(path, e) \in S /\ heap'[id].path = Append(path, e) =>
                 HoldsRead(heap', Append(list, id), S, left, e)
           /\ Append(path, e) \notin S => HoldsRead(heap', list, S, left, e)
<1>1. On(heap', list) = On(heap, list)
  BY OnKept, Zenon
<1>2. On(heap', Append(list, id)) = On(heap, list) \cup {heap'[id].path}
  BY OnMore, Zenon
<1>3. /\ Append(path, e) \in S => Reveals(S, left, e, {Append(path, e)})
      /\ Append(path, e) \notin S => Reveals(S, left, e, {})
  BY SeenOne, Zenon
<1>4. SeenOf(S, left) \cup {} = SeenOf(S, left)
  OBVIOUS
<1> QED BY <1>1, <1>2, <1>3, <1>4, Zenon DEF Reveals, HoldsRead

\* The names that are yet to be read: all of them before opendir().
LeftAt(p, u, h) ==
    IF p = "open" THEN AnyName
    ELSE IF p = "entry" THEN u \cup {Last(h[Len(h)].path)}
    ELSE IF p = "read" THEN u ELSE {}

FrameLists ==
    \A k \in 2..Len(stack) :
        ListsOk(fs, opts, heap, heap[stack[k].dir].path, stack[k].files, stack[k].dirs,
                IF k = Len(stack) THEN LeftAt(pc, unread, heap) ELSE {})

\* The directory that is being listed.
Here == heap[Top.dir].path
Inside == Len(stack) >= 2 /\ pc \in {"open", "read", "entry", "files"}

ExistingIn(f, path) == Dots \cup {e \in Names : f[NodeIn(f, path)][e].kind # "none"}

ReadingInv ==
    /\ pc \in {"read", "entry"} \/ (pc = "files" /\ Len(stack) >= 2) =>
         NodeIn(fs, Here) # NoNode
    /\ pc \in {"read", "entry"} => unread \subseteq ExistingIn(fs, Here)
    /\ pc = "entry" =>
          /\ heap[Len(heap)].path \in VisibleOf(fs, opts, Here)
          /\ Last(heap[Len(heap)].path) \notin unread
    /\ Inside =>
          /\ Top.listed = 0
          /\ \A p \in SeenOf(VisibleOf(fs, opts, Here), LeftAt(pc, unread, heap)) :
                p \notin KeptOf(fs, opts, Here) /\ LstatIn(fs, p) = "failed" => exit = 1
    /\ pc = "return" => Top.listed = Len(Top.dirs)

LEMMA ShownExist ==
    ASSUME NEW f, NEW o, NEW path, NEW e
    PROVE  e \in ShownNames(f, o, path) <=>
              e \in ExistingIn(f, path) /\ (o.all \/ e \notin Hidden \cup Dots)
BY ListingAssumption DEF ListingAssumption, ShownNames, ExistingIn, Dots

LEMMA ExistingAreNames == \A f, path : ExistingIn(f, path) \subseteq AnyName
BY DEF ExistingIn, AnyName

LEMMA NothingSeen ==
    ASSUME NEW f, NEW o, NEW path \in Seq(AnyName), NEW S, Within(S, f, o, path),
           NEW left, ExistingIn(f, path) \subseteq left
    PROVE  SeenOf(S, left) = {}
<1>1. ASSUME NEW p \in S PROVE Last(p) \in left
  <2>1. Last(p) \in ShownNames(f, o, path)
    BY VisibleFacts DEF Within
  <2> QED BY <2>1, ShownExist
<1> QED BY <1>1 DEF SeenOf

LEMMA AllSeen == \A S : SeenOf(S, {}) = S
BY DEF SeenOf

\* The path of a directory that listdir() lists.
LEMMA HereIs ==
    ASSUME TypeInv, FilesLooked, Len(stack) >= 2
    PROVE  /\ pc # "done" /\ stack # << >> /\ Len(stack) \in Nat \ {0}
           /\ Top.dir \in 1..Len(heap) /\ Here \in Seq(AnyName) /\ Here # << >>
           /\ heap'[Top.dir].path = Here
<1>1. stack # << >> /\ pc # "done"
  <2>1. stack # << >>
    <3>1. ~(Len(<< >>) >= 2)
      OBVIOUS
    <3> QED BY <3>1, Zenon
  <2> QED BY <2>1 DEF TypeInv, Parts, PlainType
<1>2. Top.dir \in 1..Len(heap) /\ Len(stack) \in Nat \ {0} /\ Len(heap) \in Nat
  BY <1>1, TopFacts
<1>3. heap[Top.dir] \in FileType
  BY <1>2 DEF TypeInv, Parts, HeapType
<1>4. Here \in Seq(AnyName) /\ Here # << >>
  BY <1>3 DEF FileType, Here
<1>5. FileLooked(Top.dir)
  BY <1>2 DEF FilesLooked
<1>6. heap'[Top.dir].path = Here
  BY <1>5 DEF FileLooked, Here
<1> QED BY <1>1, <1>2, <1>4, <1>6, Zenon

LEMMA TopLists ==
    ASSUME TypeInv, FrameLists, Len(stack) >= 2
    PROVE  ListsOk(fs, opts, heap, Here, Top.files, Top.dirs, LeftAt(pc, unread, heap))
<1>1. Len(stack) \in 2..Len(stack)
  BY FrameTypes
<1> QED BY <1>1, Zenon DEF FrameLists, Top, Here

LEMMA FrameStays ==
    ASSUME TypeInv, FilesLooked, NEW k \in 2..Len(stack), NEW left,
           ListsOk(fs, opts, heap, heap[stack[k].dir].path, stack[k].files, stack[k].dirs, left)
    PROVE  ListsOk(fs, opts, heap', heap'[stack[k].dir].path, stack[k].files, stack[k].dirs, left)
<1>1. /\ stack[k].files \in Seq(1..Len(heap)) /\ stack[k].dirs \in Seq(1..Len(heap))
      /\ stack[k].dir \in 1..Len(heap)
  <2>1. k \in DOMAIN stack
    BY FrameTypes
  <2> QED BY <2>1, FrameTypes, FrameFacts
<1>2. heap'[stack[k].dir].path = heap[stack[k].dir].path
  BY <1>1, Zenon DEF FilesLooked, FileLooked
<1> QED BY <1>1, <1>2, ListsStay, Zenon

\* A step that leaves the frames below the top alone.
LEMMA TopStep ==
    ASSUME TypeInv, FilesLooked, Steady, FrameLists, Len(stack') = Len(stack),
           \A i \in 1..Len(stack) - 1 : stack'[i] = stack[i],
           Len(stack) >= 2 =>
              ListsOk(fs, opts, heap', heap'[Top'.dir].path, Top'.files, Top'.dirs,
                      LeftAt(pc', unread', heap'))
    PROVE  FrameLists'
<1>1. PICK n \in Nat : n = Len(stack)
  BY FrameTypes
<1>2. ASSUME NEW k \in 2..n
      PROVE  ListsOk(fs, opts, heap', heap'[stack'[k].dir].path, stack'[k].files, stack'[k].dirs,
                     IF k = n THEN LeftAt(pc', unread', heap') ELSE {})
  <2>1. CASE k = n
    <3>1. Top' = stack'[n] /\ n >= 2
      BY <1>1, <1>2, <2>1 DEF Top
    <3> QED BY <1>1, <2>1, <3>1, Zenon
  <2>2. CASE k # n
    <3>1. stack'[k] = stack[k]
      BY <1>1, <1>2, <2>2
    <3>2. k \in 2..Len(stack)
      BY <1>1, <1>2
    <3>3. ListsOk(fs, opts, heap, heap[stack[k].dir].path, stack[k].files, stack[k].dirs, {})
      BY <1>1, <2>2, <3>2, Zenon DEF FrameLists
    <3>4. ListsOk(fs, opts, heap', heap'[stack[k].dir].path, stack[k].files, stack[k].dirs, {})
      BY <3>2, <3>3, FrameStays, Zenon
    <3> QED BY <2>2, <3>1, <3>4, Zenon
  <2> QED BY <2>1, <2>2
<1> QED BY <1>1, <1>2, Zenon DEF FrameLists, Steady

LEMMA PopStep ==
    ASSUME TypeInv, FilesLooked, Steady, FrameLists, Len(stack) >= 2, stack' = Pop, pc' = "dirs"
    PROVE  FrameLists'
<1>1. PICK n \in Nat : n = Len(stack) /\ n >= 2
  BY FrameTypes
<1>2. Len(stack') = n - 1 /\ \A i \in 1..n - 1 : stack'[i] = stack[i]
  <2>1. pc # "done"
    BY HereIs, Zenon
  <2> QED BY <1>1, <2>1, PopLists
<1>3. LeftAt(pc', unread', heap') = {}
  BY DEF LeftAt
<1>4. ASSUME NEW k \in 2..n - 1
      PROVE  ListsOk(fs, opts, heap', heap'[stack'[k].dir].path, stack'[k].files, stack'[k].dirs, {})
  <2>1. stack'[k] = stack[k] /\ k \in 2..Len(stack) /\ k # Len(stack)
    BY <1>1, <1>2, <1>4
  <2>2. ListsOk(fs, opts, heap, heap[stack[k].dir].path, stack[k].files, stack[k].dirs, {})
    BY <2>1, Zenon DEF FrameLists
  <2> QED BY <2>1, <2>2, FrameStays, Zenon
<1> QED BY <1>2, <1>3, <1>4, ZenonT(60) DEF FrameLists, Steady

LEMMA NotReading ==
    ASSUME \/ pc' \notin {"open", "read", "entry", "files", "return"}
           \/ pc' = "files" /\ ~(Len(stack') >= 2)
    PROVE  ReadingInv'
BY DEF ReadingInv, Inside

\* The lists of the directory that is read, its stream and the exit status are all
\* that the invariant says something about.
ReadingAt(f, o, p, u, h, path, e) ==
    /\ p \in {"read", "entry", "files"} => NodeIn(f, path) # NoNode
    /\ p \in {"read", "entry"} => u \subseteq ExistingIn(f, path)
    /\ p = "entry" => /\ h[Len(h)].path \in VisibleOf(f, o, path)
                      /\ Last(h[Len(h)].path) \notin u
    /\ \A r \in SeenOf(VisibleOf(f, o, path), LeftAt(p, u, h)) :
          r \notin KeptOf(f, o, path) /\ LstatIn(f, r) = "failed" => e = 1

LEMMA ReadingIs ==
    ASSUME Inside
    PROVE  ReadingInv <=> ReadingAt(fs, opts, pc, unread, heap, Here, exit) /\ Top.listed = 0
BY DEF Inside, ReadingInv, ReadingAt

LEMMA ReadingIsNext ==
    ASSUME Len(stack') >= 2, pc' \in {"open", "read", "entry", "files"},
           ReadingAt(fs', opts', pc', unread', heap', Here', exit'), Top'.listed = 0
    PROVE  ReadingInv'
BY DEF Inside, ReadingInv, ReadingAt

LEMMA OpenReading ==
    ASSUME TypeInv, FilesLooked, FrameLists, ReadingInv, Steady, Open
    PROVE  FrameLists' /\ ReadingInv'
<1>1. /\ pc = "open" /\ Len(stack) >= 2 /\ heap' = heap
      /\ NodeAt(Here) = NodeIn(fs, Here)
  BY EntriesAreIn DEF Open, TypeInv, PcInv
<1>2. CASE NodeIn(fs, Here) = NoNode
  <2>1. stack' = Pop /\ pc' = "dirs"
    BY <1>1, <1>2 DEF Open, Here
  <2> QED BY <1>1, <2>1, PopStep, NotReading
<1>3. CASE NodeIn(fs, Here) # NoNode
  <2>1. /\ stack' = stack /\ pc' = "read" /\ exit' = exit
        /\ unread' = ExistingIn(fs, Here)
    BY <1>1, <1>3 DEF Open, Here, ExistingIn
  <2>2. /\ LeftAt(pc', unread', heap') = ExistingIn(fs, Here)
        /\ LeftAt(pc, unread, heap) = AnyName
    BY <1>1, <2>1 DEF LeftAt
  <2>3. /\ pc # "done" /\ Len(stack) \in Nat \ {0} /\ Here \in Seq(AnyName) /\ Top' = Top
        /\ Here' = Here
    BY <1>1, <2>1, HereIs DEF Top, Here
  <2>4. ASSUME NEW S, Within(S, fs, opts, Here)
        PROVE  SeenOf(S, AnyName) = {} /\ SeenOf(S, ExistingIn(fs, Here)) = {}
    BY <2>3, <2>4, NothingSeen, ExistingAreNames
  <2>5. ListsOk(fs, opts, heap, Here, Top.files, Top.dirs, AnyName)
    BY <1>1, <2>2, TopLists
  <2>6. ListsOk(fs, opts, heap', Here, Top.files, Top.dirs, ExistingIn(fs, Here))
    <3>1. /\ SeenOf(KeptOf(fs, opts, Here), AnyName) = {}
          /\ SeenOf(KeptOf(fs, opts, Here), ExistingIn(fs, Here)) = {}
          /\ SeenOf(SubdirsOf(fs, opts, Here), AnyName) = {}
          /\ SeenOf(SubdirsOf(fs, opts, Here), ExistingIn(fs, Here)) = {}
      BY <2>4, KeptAreVisible, Zenon
    <3> QED BY <1>1, <2>5, <3>1, Zenon DEF ListsOk
  <2>7. FrameLists'
    <3>1. ListsOk(fs, opts, heap', heap'[Top'.dir].path, Top'.files, Top'.dirs,
                  LeftAt(pc', unread', heap'))
      BY <1>1, <2>2, <2>3, <2>6, Zenon DEF Here
    <3>2. Len(stack') = Len(stack) /\ \A i \in 1..Len(stack) - 1 : stack'[i] = stack[i]
      BY <2>1
    <3> QED BY <3>1, <3>2, TopStep, Zenon
  <2>8. SeenOf(VisibleOf(fs, opts, Here), ExistingIn(fs, Here)) = {}
    <3>1. Within(VisibleOf(fs, opts, Here), fs, opts, Here)
      BY DEF Within
    <3> QED BY <2>4, <3>1, Zenon
  <2>9. ReadingAt(fs, opts, "read", ExistingIn(fs, Here), heap', Here, exit)
    BY <1>3, <2>1, <2>2, <2>8 DEF ReadingAt
  <2>10. Top.listed = 0
    BY <1>1, ReadingIs DEF Inside
  <2> QED BY <1>1, <2>1, <2>3, <2>7, <2>9, <2>10, ReadingIsNext DEF Steady
<1> QED BY <1>2, <1>3

LEMMA ReadEndReading ==
    ASSUME TypeInv, FilesLooked, FrameLists, ReadingInv, Steady, ReadEnd
    PROVE  FrameLists' /\ ReadingInv'
<1>1. /\ pc = "read" /\ Len(stack) >= 2 /\ heap' = heap /\ stack' = stack /\ unread = {}
      /\ pc' = "files" /\ exit' = exit
  BY DEF ReadEnd, CloseStream, TypeInv, PcInv
<1>2. /\ LeftAt(pc', unread', heap') = {} /\ LeftAt(pc, unread, heap) = {}
      /\ Top' = Top /\ Here' = Here
  BY <1>1 DEF LeftAt, Top, Here
<1>3. FrameLists'
  <2>1. ListsOk(fs, opts, heap, Here, Top.files, Top.dirs, {})
    BY <1>1, <1>2, TopLists
  <2>2. Len(stack') = Len(stack) /\ \A i \in 1..Len(stack) - 1 : stack'[i] = stack[i]
    BY <1>1
  <2>3. ListsOk(fs, opts, heap', heap'[Top'.dir].path, Top'.files, Top'.dirs,
                LeftAt(pc', unread', heap'))
    BY <1>1, <1>2, <2>1, Zenon DEF Here
  <2> QED BY <2>2, <2>3, TopStep, Zenon
<1>4. ReadingAt(fs, opts, pc, unread, heap, Here, exit) /\ Top.listed = 0
  BY <1>1, ReadingIs DEF Inside
<1>5. ReadingAt(fs, opts, "files", unread', heap, Here, exit)
  BY <1>1, <1>2, <1>4 DEF ReadingAt
<1> QED BY <1>1, <1>2, <1>3, <1>4, <1>5, ReadingIsNext DEF Steady

LEMMA AppendAt ==
    ASSUME NEW S, NEW s \in Seq(S), NEW x, NEW n \in 1..Len(Append(s, x))
    PROVE  \/ n \in 1..Len(s) /\ Append(s, x)[n] = s[n]
           \/ Append(s, x)[n] = x
<1>1. PICK m \in Nat : m = Len(s)
  OBVIOUS
<1>2. PICK t : t = Append(s, x)
  OBVIOUS
<1>3. Len(t) = m + 1 /\ t[m + 1] = x /\ \A k \in 1..m : t[k] = s[k]
  BY <1>1, <1>2
<1>4. n \in 1..m \/ n = m + 1
  BY <1>1, <1>2, <1>3
<1> QED BY <1>1, <1>2, <1>3, <1>4, Zenon

\* A name is read whose entry goes on no list, ...
LEMMA ReadNone ==
    ASSUME FilesLooked, NEW files \in Seq(1..Len(heap)), NEW dirs \in Seq(1..Len(heap)),
           NEW path \in Seq(AnyName), NEW left, NEW e, e \in left,
           ListsOk(fs, opts, heap, path, files, dirs, left),
           Append(path, e) \notin KeptOf(fs, opts, path)
    PROVE  ListsOk(fs, opts, heap', path, files, dirs, left \ {e})
<1>1. /\ Within(KeptOf(fs, opts, path), fs, opts, path)
      /\ Within(SubdirsOf(fs, opts, path), fs, opts, path)
      /\ Append(path, e) \notin SubdirsOf(fs, opts, path)
  BY KeptAreVisible
<1>2. On(heap, files) = SeenOf(KeptOf(fs, opts, path), left)
      /\ On(heap, dirs) = SeenOf(SubdirsOf(fs, opts, path), left)
  BY Zenon DEF ListsOk
<1>3. 0 \in Nat
  OBVIOUS
<1>4. /\ HoldsRead(heap', files, KeptOf(fs, opts, path), left, e)
      /\ HoldsRead(heap', dirs, SubdirsOf(fs, opts, path), left, e)
  BY <1>1, <1>2, <1>3, OnSeenOne, Zenon
<1>5. ListsOk(fs, opts, heap', path, files, dirs, left)
  BY ListsStay, Zenon
<1> QED BY <1>4, <1>5, Zenon DEF ListsOk, HoldsRead

\* ... on that of the files, ...
LEMMA ReadFile ==
    ASSUME FilesLooked, NEW files \in Seq(1..Len(heap)), NEW dirs \in Seq(1..Len(heap)),
           NEW path \in Seq(AnyName), NEW left, NEW e, e \in left,
           ListsOk(fs, opts, heap, path, files, dirs, left), NEW id \in Nat,
           Append(path, e) \in KeptOf(fs, opts, path),
           Append(path, e) \notin SubdirsOf(fs, opts, path),
           heap'[id].path = Append(path, e), LooksAtOnce(opts) => heap'[id].stat # "unknown"
    PROVE  ListsOk(fs, opts, heap', path, Append(files, id), dirs, left \ {e})
<1>1. /\ Within(KeptOf(fs, opts, path), fs, opts, path)
      /\ Within(SubdirsOf(fs, opts, path), fs, opts, path)
  BY KeptAreVisible
<1>2. On(heap, files) = SeenOf(KeptOf(fs, opts, path), left)
      /\ On(heap, dirs) = SeenOf(SubdirsOf(fs, opts, path), left)
  BY Zenon DEF ListsOk
<1>3. HoldsRead(heap', Append(files, id), KeptOf(fs, opts, path), left, e)
  BY <1>1, <1>2, OnSeenOne, Zenon
<1>4. HoldsRead(heap', dirs, SubdirsOf(fs, opts, path), left, e)
  BY <1>1, <1>2, OnSeenOne, Zenon
<1>5. ListsOk(fs, opts, heap', path, files, dirs, left)
  BY ListsStay, Zenon
<1>6. ASSUME LooksAtOnce(opts), NEW n \in 1..Len(Append(files, id))
      PROVE  heap'[Append(files, id)[n]].stat # "unknown"
  <2>1. \/ n \in 1..Len(files) /\ Append(files, id)[n] = files[n]
        \/ Append(files, id)[n] = id
    BY AppendAt, Zenon
  <2> QED BY <1>5, <1>6, <2>1, Zenon DEF ListsOk
<1> QED BY <1>3, <1>4, <1>5, <1>6, Zenon DEF ListsOk, HoldsRead

\* ... and on that of the directories as well.
LEMMA ReadDir ==
    ASSUME FilesLooked, NEW files \in Seq(1..Len(heap)), NEW dirs \in Seq(1..Len(heap)),
           NEW path \in Seq(AnyName), NEW left, NEW e, e \in left,
           ListsOk(fs, opts, heap, path, files, dirs, left), NEW id \in Nat,
           Append(path, e) \in SubdirsOf(fs, opts, path),
           heap'[id].path = Append(path, e), LooksAtOnce(opts) => heap'[id].stat # "unknown"
    PROVE  ListsOk(fs, opts, heap', path, Append(files, id), Append(dirs, id), left \ {e})
<1>1. /\ Within(KeptOf(fs, opts, path), fs, opts, path)
      /\ Within(SubdirsOf(fs, opts, path), fs, opts, path)
      /\ Append(path, e) \in KeptOf(fs, opts, path)
  BY KeptAreVisible
<1>2. On(heap, files) = SeenOf(KeptOf(fs, opts, path), left)
      /\ On(heap, dirs) = SeenOf(SubdirsOf(fs, opts, path), left)
  BY Zenon DEF ListsOk
<1>3. HoldsRead(heap', Append(files, id), KeptOf(fs, opts, path), left, e)
  BY <1>1, <1>2, OnSeenOne, Zenon
<1>4. HoldsRead(heap', Append(dirs, id), SubdirsOf(fs, opts, path), left, e)
  BY <1>1, <1>2, OnSeenOne, Zenon
<1>5. ListsOk(fs, opts, heap', path, files, dirs, left)
  BY ListsStay, Zenon
<1>6. ASSUME LooksAtOnce(opts), NEW n \in 1..Len(Append(files, id))
      PROVE  heap'[Append(files, id)[n]].stat # "unknown"
  <2>1. \/ n \in 1..Len(files) /\ Append(files, id)[n] = files[n]
        \/ Append(files, id)[n] = id
    BY AppendAt, Zenon
  <2> QED BY <1>5, <1>6, <2>1, Zenon DEF ListsOk
<1>7. Append(path, e) \notin On(heap', dirs)
  <2>1. Last(Append(path, e)) \in left
    BY FrontAndLastOfAppend, Zenon
  <2>2. Append(path, e) \notin SeenOf(SubdirsOf(fs, opts, path), left)
    BY <2>1, Zenon DEF SeenOf
  <2> QED BY <1>5, <2>2, Zenon DEF ListsOk
<1>8. ASSUME NEW m \in 1..Len(Append(dirs, id)), NEW n \in 1..Len(Append(dirs, id)),
             heap'[Append(dirs, id)[m]].path = heap'[Append(dirs, id)[n]].path
      PROVE  m = n
  <2>1. ASSUME NEW k \in 1..Len(Append(dirs, id))
        PROVE  \/ k \in 1..Len(dirs) /\ Append(dirs, id)[k] = dirs[k]
               \/ k = Len(dirs) + 1 /\ Append(dirs, id)[k] = id
    OBVIOUS
  <2>2. \A k \in 1..Len(dirs) : heap'[dirs[k]].path # Append(path, e)
    BY <1>7, Zenon DEF On
  <2>3. \A k, l \in 1..Len(dirs) : heap'[dirs[k]].path = heap'[dirs[l]].path => k = l
    BY <1>5, Zenon DEF ListsOk
  <2>4. /\ (m \in 1..Len(dirs) /\ Append(dirs, id)[m] = dirs[m])
           \/ (m = Len(dirs) + 1 /\ Append(dirs, id)[m] = id)
        /\ (n \in 1..Len(dirs) /\ Append(dirs, id)[n] = dirs[n])
           \/ (n = Len(dirs) + 1 /\ Append(dirs, id)[n] = id)
    BY <2>1
  <2> QED BY <1>8, <2>2, <2>3, <2>4, Zenon
<1> QED BY <1>3, <1>4, <1>6, <1>8, Zenon DEF ListsOk, HoldsRead

LEMMA ReadEntryCases ==
    ASSUME TypeInv, ReadEntry
    PROVE  \E name \in unread :
              /\ pc = "read" /\ unread' = unread \ {name} /\ exit' = exit
              /\ \/ /\ name \in Hidden \cup Dots /\ ~opts.all
                    /\ heap' = heap /\ stack' = stack /\ pc' = "read"
                 \/ /\ opts.all \/ name \notin Hidden \cup Dots
                    /\ heap' = Append(heap, NewFile(Append(Here, name)))
                    /\ \/ LooksAtOnce(opts) /\ pc' = "entry" /\ stack' = stack
                       \/ /\ ~LooksAtOnce(opts) /\ pc' = "read"
                          /\ stack' = WithTop([Top EXCEPT
                               !.files = Append(Top.files, Len(heap) + 1)])
<1>1. PICK name \in unread :
        /\ unread' = unread \ {name}
        /\ IF name \in Hidden \cup Dots /\ ~opts.all
             THEN UNCHANGED <<heap, stack, pc>>
             ELSE /\ heap' = Append(heap, NewFile(Append(heap[Top.dir].path, name)))
                  /\ IF opts.dirsonly \/ opts.recursive \/ opts.dirtotals
                     THEN pc' = "entry" /\ UNCHANGED stack
                     ELSE /\ stack' = WithTop([Top EXCEPT !.files = Append(@, Cur + 1)])
                          /\ UNCHANGED pc
  BY Zenon DEF ReadEntry
<1>2. pc = "read" /\ exit' = exit
  BY DEF ReadEntry
<1>3. CASE name \in Hidden \cup Dots /\ ~opts.all
  BY <1>1, <1>2, <1>3
<1>4. CASE ~(name \in Hidden \cup Dots /\ ~opts.all)
  <2>1. heap' = Append(heap, NewFile(Append(Here, name)))
    BY <1>1, <1>4 DEF Here
  <2>2. CASE LooksAtOnce(opts)
    BY <1>1, <1>2, <1>4, <2>1, <2>2 DEF LooksAtOnce
  <2>3. CASE ~LooksAtOnce(opts)
    <3>1. /\ stack' = WithTop([Top EXCEPT !.files = Append(Top.files, Len(heap) + 1)])
          /\ pc' = "read"
      BY <1>1, <1>2, <1>4, <2>3 DEF LooksAtOnce, Cur
    <3> QED BY <1>1, <1>2, <1>4, <2>1, <2>3, <3>1
  <2> QED BY <2>2, <2>3
<1> QED BY <1>3, <1>4

\* The invariant of the top frame while its directory is read.
LEMMA ReadingTop ==
    ASSUME TypeInv, FilesLooked, FrameLists, ReadingInv, pc \in {"read", "entry"}
    PROVE  /\ Len(stack) >= 2 /\ Len(stack) \in Nat \ {0} /\ pc # "done"
           /\ Here \in Seq(AnyName) /\ heap'[Top.dir].path = Here /\ Len(heap) \in Nat
           /\ Top.files \in Seq(1..Len(heap)) /\ Top.dirs \in Seq(1..Len(heap))
           /\ ListsOk(fs, opts, heap, Here, Top.files, Top.dirs, LeftAt(pc, unread, heap))
           /\ ReadingAt(fs, opts, pc, unread, heap, Here, exit) /\ Top.listed = 0
<1>1. Len(stack) >= 2 /\ pc # "done"
  BY DEF TypeInv, PcInv
<1>2. Inside
  BY <1>1 DEF Inside
<1> QED BY <1>1, <1>2, ReadingIs, TopLists, HereIs, TopFacts, Zenon

\* What a step on the top frame has to show.
LEMMA ReadingStep ==
    ASSUME TypeInv, FilesLooked, FrameLists, ReadingInv, Steady, pc \in {"read", "entry"},
           pc' \in {"read", "entry"}, Len(stack') = Len(stack),
           \A i \in 1..Len(stack) - 1 : stack'[i] = stack[i],
           Top'.dir = Top.dir, Top'.listed = 0,
           ListsOk(fs, opts, heap', Here, Top'.files, Top'.dirs, LeftAt(pc', unread', heap')),
           ReadingAt(fs, opts, pc', unread', heap', Here, exit')
    PROVE  FrameLists' /\ ReadingInv'
<1>1. Len(stack) >= 2 /\ heap'[Top'.dir].path = Here /\ Here' = Here
  <2>1. Len(stack) >= 2 /\ heap'[Top.dir].path = Here
    BY ReadingTop
  <2> QED BY <2>1, Zenon DEF Here
<1>2. FrameLists'
  BY <1>1, TopStep, Zenon
<1>3. Len(stack') >= 2 /\ pc' \in {"open", "read", "entry", "files"}
  BY <1>1
<1>4. ReadingAt(fs', opts', pc', unread', heap', Here', exit')
  BY <1>1, Zenon DEF Steady
<1>5. ReadingInv'
  BY <1>3, <1>4, ReadingIsNext, Zenon
<1> QED BY <1>2, <1>5

LEMMA NewEntry ==
    ASSUME TypeInv, NEW x, heap' = Append(heap, NewFile(x))
    PROVE  /\ Len(heap') = Len(heap) + 1 /\ heap'[Len(heap')].path = x
           /\ heap'[Len(heap) + 1].path = x
<1>1. PICK f : f = NewFile(x)
  OBVIOUS
<1>2. f.path = x
  BY <1>1 DEF NewFile
<1>3. Len(heap') = Len(heap) + 1 /\ heap'[Len(heap) + 1] = f
  BY <1>1 DEF TypeInv, Parts, HeapType
<1> QED BY <1>2, <1>3, Zenon

LEMMA ReadEntryReading ==
    ASSUME TypeInv, FilesLooked, FrameLists, ReadingInv, Steady, ReadEntry
    PROVE  FrameLists' /\ ReadingInv'
<1>1. PICK name \in unread :
          /\ pc = "read" /\ unread' = unread \ {name} /\ exit' = exit
          /\ \/ /\ name \in Hidden \cup Dots /\ ~opts.all
                /\ heap' = heap /\ stack' = stack /\ pc' = "read"
             \/ /\ opts.all \/ name \notin Hidden \cup Dots
                /\ heap' = Append(heap, NewFile(Append(Here, name)))
                /\ \/ LooksAtOnce(opts) /\ pc' = "entry" /\ stack' = stack
                   \/ /\ ~LooksAtOnce(opts) /\ pc' = "read"
                      /\ stack' = WithTop([Top EXCEPT
                           !.files = Append(Top.files, Len(heap) + 1)])
  BY ReadEntryCases, Zenon
<1>2. /\ Len(stack) >= 2 /\ Len(stack) \in Nat \ {0} /\ pc # "done"
      /\ Here \in Seq(AnyName) /\ heap'[Top.dir].path = Here /\ Len(heap) \in Nat
      /\ Top.files \in Seq(1..Len(heap)) /\ Top.dirs \in Seq(1..Len(heap))
      /\ ListsOk(fs, opts, heap, Here, Top.files, Top.dirs, unread)
      /\ ReadingAt(fs, opts, "read", unread, heap, Here, exit) /\ Top.listed = 0
  <2>1. LeftAt(pc, unread, heap) = unread
    BY <1>1 DEF LeftAt
  <2> QED BY <1>1, <2>1, ReadingTop, Zenon
<1>3. NodeIn(fs, Here) # NoNode /\ unread \subseteq ExistingIn(fs, Here)
  BY <1>2 DEF ReadingAt
<1>4. name \in ShownNames(fs, opts, Here) <=> (opts.all \/ name \notin Hidden \cup Dots)
  BY <1>1, <1>3, ShownExist
<1>5. PICK x : x = Append(Here, name)
  OBVIOUS
<1>6. Last(x) = name
  BY <1>2, <1>5, FrontAndLastOfAppend, Zenon
<1>7. \A p \in SeenOf(VisibleOf(fs, opts, Here), unread) :
         p \notin KeptOf(fs, opts, Here) /\ LstatIn(fs, p) = "failed" => exit = 1
  <2>1. LeftAt("read", unread, heap) = unread
    BY DEF LeftAt
  <2> QED BY <1>2, <2>1, Zenon DEF ReadingAt
<1>8. CASE /\ name \in Hidden \cup Dots /\ ~opts.all
           /\ heap' = heap /\ stack' = stack /\ pc' = "read"
  <2>1. x \notin VisibleOf(fs, opts, Here)
    <3>1. name \notin ShownNames(fs, opts, Here)
      BY <1>4, <1>8
    <3> QED BY <1>2, <1>6, <3>1, VisibleFacts, Zenon
  <2>2. x \notin KeptOf(fs, opts, Here)
    BY <2>1 DEF KeptOf
  <2>3. ListsOk(fs, opts, heap', Here, Top.files, Top.dirs, unread \ {name})
    BY <1>1, <1>2, <1>5, <2>2, ReadNone, Zenon
  <2>4. LeftAt("read", unread', heap') = unread \ {name}
    BY <1>1 DEF LeftAt
  <2>5. \A p \in SeenOf(VisibleOf(fs, opts, Here), unread \ {name}) :
           p \in SeenOf(VisibleOf(fs, opts, Here), unread)
    <3>1. ASSUME NEW p \in VisibleOf(fs, opts, Here), Last(p) = name PROVE p = x
      <4>1. p = Append(Here, Last(p))
        BY <1>2, VisibleFacts
      <4> QED BY <1>5, <3>1, <4>1, Zenon
    <3> QED BY <2>1, <3>1 DEF SeenOf
  <2>6. ReadingAt(fs, opts, "read", unread', heap', Here, exit')
    BY <1>1, <1>3, <1>7, <2>4, <2>5 DEF ReadingAt
  <2>7. Top' = Top /\ Len(stack') = Len(stack) /\ \A i \in 1..Len(stack) - 1 : stack'[i] = stack[i]
    BY <1>8 DEF Top
  <2>8. pc' \in {"read", "entry"} /\ pc \in {"read", "entry"}
    BY <1>1, <1>8
  <2>9. ListsOk(fs, opts, heap', Here, Top'.files, Top'.dirs, LeftAt(pc', unread', heap'))
    BY <1>8, <2>3, <2>4, <2>7
  <2>10. ReadingAt(fs, opts, pc', unread', heap', Here, exit') /\ Top'.dir = Top.dir
         /\ Top'.listed = 0
    BY <1>2, <1>8, <2>6, <2>7
  <2> QED BY <2>7, <2>8, <2>9, <2>10, ReadingStep, Zenon
<1>9. CASE /\ opts.all \/ name \notin Hidden \cup Dots
           /\ heap' = Append(heap, NewFile(Append(Here, name)))
           /\ LooksAtOnce(opts) /\ pc' = "entry" /\ stack' = stack
  <2>1. heap'[Len(heap')].path = x
    BY <1>5, <1>9, NewEntry, Zenon
  <2>2. x \in VisibleOf(fs, opts, Here)
    BY <1>3, <1>4, <1>5, <1>9, ShownIsVisible
  <2>3. LeftAt("entry", unread', heap') = unread
    BY <1>1, <1>6, <2>1 DEF LeftAt
  <2>4. ListsOk(fs, opts, heap', Here, Top.files, Top.dirs, unread)
    BY <1>2, ListsStay, Zenon
  <2>5. name \notin unread' /\ unread' \subseteq ExistingIn(fs, Here)
    BY <1>1, <1>3
  <2>6. ReadingAt(fs, opts, "entry", unread', heap', Here, exit')
    BY <1>1, <1>3, <1>6, <1>7, <2>1, <2>2, <2>3, <2>5 DEF ReadingAt
  <2>7. Top' = Top /\ Len(stack') = Len(stack) /\ \A i \in 1..Len(stack) - 1 : stack'[i] = stack[i]
    BY <1>9 DEF Top
  <2>8. pc' \in {"read", "entry"} /\ pc \in {"read", "entry"}
    BY <1>1, <1>9
  <2>9. ListsOk(fs, opts, heap', Here, Top'.files, Top'.dirs, LeftAt(pc', unread', heap'))
    BY <1>9, <2>3, <2>4, <2>7
  <2>10. ReadingAt(fs, opts, pc', unread', heap', Here, exit') /\ Top'.dir = Top.dir
         /\ Top'.listed = 0
    BY <1>2, <1>9, <2>6, <2>7
  <2> QED BY <2>7, <2>8, <2>9, <2>10, ReadingStep, Zenon
<1>10. CASE /\ opts.all \/ name \notin Hidden \cup Dots
            /\ heap' = Append(heap, NewFile(Append(Here, name)))
            /\ ~LooksAtOnce(opts) /\ pc' = "read"
            /\ stack' = WithTop([Top EXCEPT !.files = Append(Top.files, Len(heap) + 1)])
  <2>1. heap'[Len(heap) + 1].path = x
    BY <1>5, <1>10, NewEntry, Zenon
  <2>2. KeptOf(fs, opts, Here) = VisibleOf(fs, opts, Here) /\ SubdirsOf(fs, opts, Here) = {}
    BY <1>10 DEF KeptOf, SubdirsOf, LooksAtOnce
  <2>3. x \in KeptOf(fs, opts, Here) /\ x \notin SubdirsOf(fs, opts, Here)
    <3>1. x \in VisibleOf(fs, opts, Here)
      BY <1>3, <1>4, <1>5, <1>10, ShownIsVisible
    <3> QED BY <2>2, <3>1
  <2>4. PICK g : g = [Top EXCEPT !.files = Append(Top.files, Len(heap) + 1)]
    OBVIOUS
  <2>5. /\ g.files = Append(Top.files, Len(heap) + 1) /\ g.dirs = Top.dirs
        /\ g.dir = Top.dir /\ g.listed = Top.listed
    BY <1>2, <2>4, TopFacts DEF Frames
  <2>6. Len(stack') = Len(stack) /\ (\A i \in 1..Len(stack) - 1 : stack'[i] = stack[i]) /\ Top' = g
    BY <1>2, <1>10, <2>4, TopIs DEF Top
  <2>7. ListsOk(fs, opts, heap', Here, Append(Top.files, Len(heap) + 1), Top.dirs, unread \ {name})
    <3>1. PICK id \in Nat : id = Len(heap) + 1
      BY <1>2
    <3>2. /\ Here \in Seq(AnyName) /\ name \in unread
          /\ Top.files \in Seq(1..Len(heap)) /\ Top.dirs \in Seq(1..Len(heap))
          /\ ListsOk(fs, opts, heap, Here, Top.files, Top.dirs, unread)
          /\ Append(Here, name) \in KeptOf(fs, opts, Here)
          /\ Append(Here, name) \notin SubdirsOf(fs, opts, Here)
          /\ heap'[id].path = Append(Here, name)
      BY <1>1, <1>2, <1>5, <2>1, <2>3, <3>1
    <3>3. ListsOk(fs, opts, heap', Here, Append(Top.files, id), Top.dirs, unread \ {name})
      BY <1>10, <3>1, <3>2, ReadFile, Zenon
    <3> QED BY <3>1, <3>3
  <2>8. LeftAt("read", unread', heap') = unread \ {name}
    BY <1>1 DEF LeftAt
  <2>9. ReadingAt(fs, opts, "read", unread', heap', Here, exit')
    BY <1>1, <1>3, <2>2 DEF ReadingAt, SeenOf
  <2>10. pc' \in {"read", "entry"} /\ pc \in {"read", "entry"}
    BY <1>1, <1>10
  <2>11. ListsOk(fs, opts, heap', Here, Top'.files, Top'.dirs, LeftAt(pc', unread', heap'))
    BY <1>10, <2>5, <2>6, <2>7, <2>8
  <2>12. ReadingAt(fs, opts, pc', unread', heap', Here, exit') /\ Top'.dir = Top.dir
         /\ Top'.listed = 0
    BY <1>2, <1>10, <2>5, <2>6, <2>9
  <2> QED BY <2>6, <2>10, <2>11, <2>12, ReadingStep, Zenon
<1> QED BY <1>1, <1>8, <1>9, <1>10

LEMMA StatEntryCases ==
    ASSUME TypeInv, CalmStatEntry
    PROVE  LET x == heap[Len(heap)].path
               st == LstatIn(fs, x)
           IN  /\ pc = "entry" /\ pc' = "read" /\ unread' = unread /\ Len(heap) \in 1..Len(heap)
               /\ \/ /\ opts.dirsonly /\ st # "dir" /\ stack' = stack
                     /\ st = "failed" => exit' = 1
                     /\ exit' \in {exit, 1}
                  \/ /\ opts.dirsonly => st = "dir"
                     /\ exit' = exit /\ heap'[Len(heap)].stat = st
                     /\ \E g : /\ stack' = WithTop(g) /\ g.dir = Top.dir
                               /\ g.listed = Top.listed /\ g.first = Top.first
                               /\ g.files = Append(Top.files, Len(heap))
                               /\ \/ /\ opts.recursive /\ st = "dir" /\ Last(x) \notin Dots
                                     /\ g.dirs = Append(Top.dirs, Len(heap))
                                  \/ /\ ~(opts.recursive /\ st = "dir" /\ Last(x) \notin Dots)
                                     /\ g.dirs = Top.dirs
<1>1. PICK x : x = heap[Len(heap)].path
  OBVIOUS
<1>2. PICK st : st = LstatIn(fs, x) /\ st = CurStat
  BY <1>1, StatsAreIn DEF CurStat, Cur
<1>3. pc = "entry" /\ pc' = "read" /\ unread' = unread /\ Len(heap) \in 1..Len(heap)
  BY DEF CalmStatEntry, TypeInv, PcInv, Parts, HeapType
<1>4. CASE opts.dirsonly /\ st # "dir"
  <2>1. stack' = stack /\ exit' = IF st = "failed" THEN 1 ELSE exit
    BY <1>2, <1>4, Zenon DEF CalmStatEntry
  <2> QED BY <1>1, <1>2, <1>3, <1>4, <2>1
<1>5. CASE ~(opts.dirsonly /\ st # "dir")
  <2>1. PICK g : g = [Top EXCEPT !.files = Append(Top.files, Len(heap)),
                                 !.dirs = IF opts.recursive /\ st = "dir" /\ Last(x) \notin Dots
                                          THEN Append(Top.dirs, Len(heap)) ELSE Top.dirs]
    OBVIOUS
  <2>2. PICK y : y = [heap[Len(heap)] EXCEPT !.stat = st]
    OBVIOUS
  <2>3. /\ heap' = [heap EXCEPT ![Len(heap)] = y] /\ stack' = WithTop(g) /\ exit' = exit
    BY <1>1, <1>2, <1>5, <2>1, <2>2 DEF CalmStatEntry, Cur, IsDotOrDotDot
  <2>4. heap[Len(heap)] \in FileType /\ DOMAIN heap = 1..Len(heap)
    BY <1>3 DEF TypeInv, Parts, HeapType
  <2>5. y.stat = st
    BY <2>2, <2>4 DEF FileType
  <2>6. heap'[Len(heap)].stat = st
    BY <1>3, <2>3, <2>4, <2>5
  <2>7. Top \in Frames(Len(heap))
    BY <1>3, TopFacts
  <2>8. /\ g.dir = Top.dir /\ g.listed = Top.listed /\ g.first = Top.first
        /\ g.files = Append(Top.files, Len(heap))
        /\ g.dirs = IF opts.recursive /\ st = "dir" /\ Last(x) \notin Dots
                    THEN Append(Top.dirs, Len(heap)) ELSE Top.dirs
    BY <2>1, <2>7 DEF Frames
  <2> QED BY <1>1, <1>2, <1>3, <1>5, <2>3, <2>6, <2>8
<1> QED BY <1>4, <1>5

LEMMA StatEntryReading ==
    ASSUME TypeInv, FilesLooked, FrameLists, ReadingInv, Steady, CalmStatEntry
    PROVE  FrameLists' /\ ReadingInv'
<1>1. PICK x : x = heap[Len(heap)].path
  OBVIOUS
<1>2. PICK st : st = LstatIn(fs, x)
  OBVIOUS
<1>3. /\ pc = "entry" /\ pc' = "read" /\ unread' = unread /\ Len(heap) \in 1..Len(heap)
      /\ \/ /\ opts.dirsonly /\ st # "dir" /\ stack' = stack
            /\ st = "failed" => exit' = 1
            /\ exit' \in {exit, 1}
         \/ /\ opts.dirsonly => st = "dir"
            /\ exit' = exit /\ heap'[Len(heap)].stat = st
            /\ \E g : /\ stack' = WithTop(g) /\ g.dir = Top.dir
                      /\ g.listed = Top.listed /\ g.first = Top.first
                      /\ g.files = Append(Top.files, Len(heap))
                      /\ \/ /\ opts.recursive /\ st = "dir" /\ Last(x) \notin Dots
                            /\ g.dirs = Append(Top.dirs, Len(heap))
                         \/ /\ ~(opts.recursive /\ st = "dir" /\ Last(x) \notin Dots)
                            /\ g.dirs = Top.dirs
  BY <1>1, <1>2, StatEntryCases
<1>4. PICK e : e = Last(x)
  OBVIOUS
<1>5. PICK left : left = unread \cup {e}
  OBVIOUS
<1>6. LeftAt("entry", unread, heap) = left /\ LeftAt("read", unread', heap') = unread
  BY <1>1, <1>3, <1>4, <1>5 DEF LeftAt
<1>7. /\ Len(stack) >= 2 /\ Len(stack) \in Nat \ {0} /\ pc # "done"
      /\ Here \in Seq(AnyName) /\ heap'[Top.dir].path = Here /\ Len(heap) \in Nat
      /\ Top.files \in Seq(1..Len(heap)) /\ Top.dirs \in Seq(1..Len(heap))
      /\ ListsOk(fs, opts, heap, Here, Top.files, Top.dirs, left)
      /\ ReadingAt(fs, opts, "entry", unread, heap, Here, exit) /\ Top.listed = 0
  BY <1>3, <1>6, ReadingTop
<1>8. /\ NodeIn(fs, Here) # NoNode /\ unread \subseteq ExistingIn(fs, Here)
      /\ x \in VisibleOf(fs, opts, Here) /\ e \notin unread
      /\ \A r \in SeenOf(VisibleOf(fs, opts, Here), left) :
            r \notin KeptOf(fs, opts, Here) /\ LstatIn(fs, r) = "failed" => exit = 1
  BY <1>1, <1>4, <1>6, <1>7, Zenon DEF ReadingAt
<1>9. x = Append(Here, e) /\ e \in AnyName
  BY <1>4, <1>7, <1>8, VisibleFacts
<1>10. left \ {e} = unread /\ e \in left
  BY <1>5, <1>8
<1>11. /\ heap'[Len(heap)].path = x
       /\ x \in KeptOf(fs, opts, Here) <=> (opts.dirsonly => st = "dir")
       /\ x \in SubdirsOf(fs, opts, Here) <=> (opts.recursive /\ st = "dir" /\ Last(x) \notin Dots)
  <2>1. heap'[Len(heap)].path = x
    BY <1>1, <1>3, Zenon DEF FilesLooked, FileLooked
  <2>2. Last(x) \in Names <=> Last(x) \notin Dots
    BY <1>4, <1>9, ListingAssumption DEF ListingAssumption, AnyName
  <2> QED BY <1>2, <1>8, <2>1, <2>2 DEF KeptOf, SubdirsOf
<1>12. ASSUME exit' = exit \/ exit' = 1,
              x \in KeptOf(fs, opts, Here) \/ LstatIn(fs, x) # "failed" \/ exit' = 1
       PROVE  ReadingAt(fs, opts, "read", unread', heap', Here, exit')
  <2>1. ASSUME NEW r \in SeenOf(VisibleOf(fs, opts, Here), unread),
               r \notin KeptOf(fs, opts, Here), LstatIn(fs, r) = "failed"
        PROVE  exit' = 1
    <3>1. CASE Last(r) = e
      <4>1. r \in VisibleOf(fs, opts, Here)
        BY DEF SeenOf
      <4>2. r = Append(Here, Last(r))
        BY <1>7, <4>1, VisibleFacts
      <4> QED BY <1>9, <1>12, <2>1, <3>1, <4>2
    <3>2. CASE Last(r) # e
      <4>1. r \in SeenOf(VisibleOf(fs, opts, Here), left)
        BY <1>5, <3>2 DEF SeenOf
      <4> QED BY <1>8, <1>12, <2>1, <4>1
    <3> QED BY <3>1, <3>2
  <2> QED BY <1>3, <1>6, <1>8, <2>1 DEF ReadingAt
<1>13. CASE /\ opts.dirsonly /\ st # "dir" /\ stack' = stack
            /\ st = "failed" => exit' = 1
            /\ exit' \in {exit, 1}
  <2>1. x \notin KeptOf(fs, opts, Here)
    BY <1>11, <1>13
  <2>2. ListsOk(fs, opts, heap', Here, Top.files, Top.dirs, left \ {e})
    BY <1>7, <1>9, <1>10, <2>1, ReadNone, Zenon
  <2>3. ReadingAt(fs, opts, pc', unread', heap', Here, exit')
    BY <1>2, <1>3, <1>12, <1>13
  <2>4. Top' = Top /\ Len(stack') = Len(stack) /\ \A i \in 1..Len(stack) - 1 : stack'[i] = stack[i]
    BY <1>13 DEF Top
  <2>5. pc' \in {"read", "entry"} /\ pc \in {"read", "entry"} /\ Top'.dir = Top.dir
        /\ Top'.listed = 0
    BY <1>3, <1>7, <2>4
  <2>6. ListsOk(fs, opts, heap', Here, Top'.files, Top'.dirs, LeftAt(pc', unread', heap'))
    BY <1>3, <1>6, <1>10, <2>2, <2>4
  <2> QED BY <2>3, <2>4, <2>5, <2>6, ReadingStep, Zenon
<1>14. ASSUME opts.dirsonly => st = "dir", exit' = exit, heap'[Len(heap)].stat = st, NEW g,
              stack' = WithTop(g), g.dir = Top.dir, g.listed = Top.listed,
              g.files = Append(Top.files, Len(heap)),
              \/ /\ opts.recursive /\ st = "dir" /\ Last(x) \notin Dots
                 /\ g.dirs = Append(Top.dirs, Len(heap))
              \/ /\ ~(opts.recursive /\ st = "dir" /\ Last(x) \notin Dots)
                 /\ g.dirs = Top.dirs
       PROVE  FrameLists' /\ ReadingInv'
  <2>1. x \in KeptOf(fs, opts, Here)
    BY <1>11, <1>14
  <2>2. LooksAtOnce(opts) => heap'[Len(heap)].stat # "unknown"
    BY <1>2, <1>14 DEF LstatIn
  <2>3. ListsOk(fs, opts, heap', Here, g.files, g.dirs, left \ {e})
    <3>0. /\ Here \in Seq(AnyName) /\ Len(heap) \in Nat /\ e \in left
          /\ Top.files \in Seq(1..Len(heap)) /\ Top.dirs \in Seq(1..Len(heap))
          /\ ListsOk(fs, opts, heap, Here, Top.files, Top.dirs, left)
          /\ heap'[Len(heap)].path = Append(Here, e)
          /\ Append(Here, e) \in KeptOf(fs, opts, Here)
          /\ Append(Here, e) \in SubdirsOf(fs, opts, Here) <=>
                opts.recursive /\ st = "dir" /\ Last(x) \notin Dots
      BY <1>7, <1>9, <1>10, <1>11, <2>1
    <3>1. CASE opts.recursive /\ st = "dir" /\ Last(x) \notin Dots
      <4>1. ListsOk(fs, opts, heap', Here, Append(Top.files, Len(heap)),
                    Append(Top.dirs, Len(heap)), left \ {e})
        BY <2>2, <3>0, <3>1, ReadDir, Zenon
      <4> QED BY <1>14, <3>1, <4>1
    <3>2. CASE ~(opts.recursive /\ st = "dir" /\ Last(x) \notin Dots)
      <4>1. ListsOk(fs, opts, heap', Here, Append(Top.files, Len(heap)), Top.dirs, left \ {e})
        BY <2>2, <3>0, <3>2, ReadFile, Zenon
      <4> QED BY <1>14, <3>2, <4>1
    <3> QED BY <3>1, <3>2
  <2>4. ReadingAt(fs, opts, pc', unread', heap', Here, exit')
    BY <1>3, <1>12, <1>14, <2>1
  <2>5. Len(stack') = Len(stack) /\ (\A i \in 1..Len(stack) - 1 : stack'[i] = stack[i]) /\ Top' = g
    BY <1>7, <1>14, TopIs DEF Top
  <2>6. pc' \in {"read", "entry"} /\ pc \in {"read", "entry"} /\ Top'.dir = Top.dir
        /\ Top'.listed = 0
    BY <1>3, <1>7, <1>14, <2>5
  <2>7. ListsOk(fs, opts, heap', Here, Top'.files, Top'.dirs, LeftAt(pc', unread', heap'))
    BY <1>3, <1>6, <1>10, <2>3, <2>5
  <2> QED BY <2>4, <2>5, <2>6, <2>7, ReadingStep, Zenon
<1> QED BY <1>3, <1>13, <1>14, Zenon

\* The frame of the next directory, and the others.
LEMMA NextDirIs ==
    ASSUME TypeInv, NextDir
    PROVE  /\ pc = "dirs" /\ pc' = "open" /\ heap' = heap /\ exit' = exit /\ pc # "done"
           /\ Len(stack) \in Nat \ {0} /\ Len(stack') = Len(stack) + 1
           /\ Top.listed \in Nat /\ Top.listed + 1 \in 1..Len(Top.dirs)
           /\ Top'.dir = Top.dirs[Top.listed + 1] /\ Top'.dir \in 1..Len(heap)
           /\ Top'.files = << >> /\ Top'.dirs = << >> /\ Top'.listed = 0
           /\ \A i \in 1..Len(stack) :
                 /\ stack'[i].dir = stack[i].dir /\ stack'[i].files = stack[i].files
                 /\ stack'[i].dirs = stack[i].dirs
                 /\ stack'[i].listed = IF i = Len(stack) THEN stack[i].listed + 1
                                       ELSE stack[i].listed
<1>1. /\ pc = "dirs" /\ pc' = "open" /\ heap' = heap /\ exit' = exit /\ pc # "done"
      /\ Top.listed < Len(Top.dirs)
      /\ stack' = Append(WithTop([Top EXCEPT !.listed = Top.listed + 1]),
                         Frame(Top.dirs[Top.listed + 1], FALSE))
  BY DEF NextDir
<1>2. PICK f : f = [Top EXCEPT !.listed = Top.listed + 1]
  OBVIOUS
<1>3. PICK g : g = Frame(Top.dirs[Top.listed + 1], FALSE)
  OBVIOUS
<1>4. /\ Top \in Frames(Len(heap)) /\ Top.listed \in Nat /\ Len(stack) \in Nat \ {0}
      /\ Top.dirs \in Seq(1..Len(heap))
  BY <1>1, TopFacts
<1>5. /\ f.dir = Top.dir /\ f.files = Top.files /\ f.dirs = Top.dirs
      /\ f.listed = Top.listed + 1
  BY <1>2, <1>4 DEF Frames
<1>6. /\ g.dir = Top.dirs[Top.listed + 1] /\ g.files = << >> /\ g.dirs = << >> /\ g.listed = 0
  BY <1>3 DEF Frame
<1>7. Top.listed + 1 \in 1..Len(Top.dirs) /\ Top.dirs[Top.listed + 1] \in 1..Len(heap)
  BY <1>1, <1>4
<1>8. /\ Len(stack') = Len(stack) + 1
      /\ stack'[Len(stack) + 1] = g /\ stack'[Len(stack)] = f
      /\ \A i \in 1..Len(stack) - 1 : stack'[i] = stack[i]
  BY <1>1, <1>2, <1>3, PushedIs, Zenon
<1>9. Top' = g
  BY <1>8 DEF Top
<1>10. ASSUME NEW i \in 1..Len(stack)
       PROVE  /\ stack'[i].dir = stack[i].dir /\ stack'[i].files = stack[i].files
              /\ stack'[i].dirs = stack[i].dirs
              /\ stack'[i].listed = IF i = Len(stack) THEN stack[i].listed + 1
                                       ELSE stack[i].listed
  <2>1. CASE i = Len(stack)
    BY <1>5, <1>8, <2>1 DEF Top
  <2>2. CASE i # Len(stack)
    <3>1. i \in 1..Len(stack) - 1
      BY <1>4, <2>2
    <3>2. stack'[i] = stack[i]
      BY <1>8, <3>1, Zenon
    <3> QED BY <2>2, <3>2, Zenon
  <2> QED BY <2>1, <2>2
<1> QED BY <1>1, <1>4, <1>6, <1>7, <1>8, <1>9, <1>10, Zenon

LEMMA NextDirReading ==
    ASSUME TypeInv, FilesLooked, FrameLists, Steady, NextDir
    PROVE  FrameLists' /\ ReadingInv'
<1>1. PICK m \in Nat \ {0} : m = Len(stack)
  BY NextDirIs
<1>2. /\ pc = "dirs" /\ pc' = "open" /\ heap' = heap /\ exit' = exit /\ pc # "done"
      /\ Len(stack') = m + 1 /\ Top'.dir \in 1..Len(heap)
      /\ Top'.files = << >> /\ Top'.dirs = << >> /\ Top'.listed = 0
      /\ \A i \in 1..m : /\ stack'[i].dir = stack[i].dir /\ stack'[i].files = stack[i].files
                         /\ stack'[i].dirs = stack[i].dirs
  BY <1>1, NextDirIs
<1>3. PICK q \in Seq(AnyName) : q = heap[Top'.dir].path
  <2>1. heap[Top'.dir] \in FileType
    BY <1>2 DEF TypeInv, Parts, HeapType
  <2> QED BY <2>1 DEF FileType
<1>4. ASSUME NEW S, Within(S, fs, opts, q) PROVE SeenOf(S, AnyName) = {}
  BY <1>4, NothingSeen, ExistingAreNames
<1>5. ListsOk(fs, opts, heap', heap'[Top'.dir].path, Top'.files, Top'.dirs, AnyName)
  <2>1. /\ SeenOf(KeptOf(fs, opts, q), AnyName) = {}
        /\ SeenOf(SubdirsOf(fs, opts, q), AnyName) = {}
    BY <1>4, KeptAreVisible, Zenon
  <2>2. ListsOk(fs, opts, heap, q, << >>, << >>, AnyName)
    BY <2>1, OnNothing DEF ListsOk
  <2> QED BY <1>2, <1>3, <2>2, Zenon
<1>6. LeftAt(pc, unread, heap) = {} /\ LeftAt(pc', unread', heap') = AnyName
  BY <1>2 DEF LeftAt
<1>7. ASSUME NEW k \in 2..m + 1
      PROVE  ListsOk(fs, opts, heap', heap'[stack'[k].dir].path, stack'[k].files, stack'[k].dirs,
                     IF k = m + 1 THEN AnyName ELSE {})
  <2>1. CASE k = m + 1
    <3>1. stack'[k] = Top'
      BY <1>2, <2>1 DEF Top
    <3> QED BY <1>5, <2>1, <3>1, Zenon
  <2>2. CASE k # m + 1
    <3>1. k \in 1..m /\ k \in 2..Len(stack)
      BY <1>1, <1>7, <2>2
    <3>2. ListsOk(fs, opts, heap, heap[stack[k].dir].path, stack[k].files, stack[k].dirs, {})
      BY <1>6, <3>1, Zenon DEF FrameLists
    <3> QED BY <1>2, <2>2, <3>1, <3>2, Zenon
  <2> QED BY <2>1, <2>2
<1>8. FrameLists'
  BY <1>2, <1>6, <1>7, Zenon DEF FrameLists, Steady
<1>9. Here' = q
  BY <1>2, <1>3 DEF Here
<1>10. ReadingAt(fs, opts, "open", unread', heap', q, exit')
  <2>1. LeftAt("open", unread', heap') = AnyName
    BY DEF LeftAt
  <2>2. SeenOf(VisibleOf(fs, opts, q), AnyName) = {}
    BY <1>4 DEF Within
  <2> QED BY <2>1, <2>2 DEF ReadingAt
<1>11. Len(stack') >= 2 /\ pc' \in {"open", "read", "entry", "files"}
  BY <1>1, <1>2
<1> QED BY <1>2, <1>8, <1>9, <1>10, <1>11, ReadingIsNext DEF Steady

\* A step that leaves the stack alone.
LEMMA SameStackLists ==
    ASSUME TypeInv, FilesLooked, FrameLists, Steady, stack' = stack,
           LeftAt(pc, unread, heap) = {}, LeftAt(pc', unread', heap') = {}
    PROVE  FrameLists'
<1>1. ASSUME Len(stack) >= 2
      PROVE  ListsOk(fs, opts, heap', heap'[Top'.dir].path, Top'.files, Top'.dirs,
                     LeftAt(pc', unread', heap'))
  <2>1. ListsOk(fs, opts, heap, Here, Top.files, Top.dirs, {})
    BY <1>1, TopLists
  <2>2. /\ Top.files \in Seq(1..Len(heap)) /\ Top.dirs \in Seq(1..Len(heap))
        /\ heap'[Top.dir].path = Here
    BY <1>1, HereIs, TopFacts
  <2>3. ListsOk(fs, opts, heap', Here, Top.files, Top.dirs, {})
    BY <2>1, <2>2, ListsStay, Zenon
  <2>4. Top' = Top
    BY DEF Top
  <2> QED BY <2>2, <2>3, <2>4, Zenon
<1> QED BY <1>1, TopStep, Zenon

LEMMA StatFileReading ==
    ASSUME TypeInv, FilesLooked, FrameLists, ReadingInv, Steady, CalmStatFile \/ CalmFollowFile
    PROVE  FrameLists' /\ ReadingInv'
<1>1. /\ pc = "files" /\ pc' = "files" /\ stack' = stack /\ unread' = unread /\ exit' = exit
      /\ Top' = Top
  BY DEF CalmStatFile, CalmFollowFile, Top
<1>2. LeftAt(pc, unread, heap) = {} /\ LeftAt(pc', unread', heap') = {}
  BY <1>1 DEF LeftAt
<1>3. FrameLists'
  BY <1>1, <1>2, SameStackLists
<1>4. CASE Len(stack) >= 2
  <2>1. Here' = Here
    BY <1>1, <1>4, HereIs DEF Here
  <2>2. ReadingAt(fs, opts, "files", unread, heap, Here, exit) /\ Top.listed = 0
    BY <1>1, <1>4, ReadingIs DEF Inside
  <2>3. ReadingAt(fs, opts, "files", unread', heap', Here, exit)
    BY <1>1, <1>2, <2>2 DEF ReadingAt
  <2> QED BY <1>1, <1>3, <1>4, <2>1, <2>2, <2>3, ReadingIsNext DEF Steady
<1>5. CASE ~(Len(stack) >= 2)
  BY <1>1, <1>3, <1>5, NotReading
<1> QED BY <1>4, <1>5

LEMMA PrintFilesReading ==
    ASSUME TypeInv, FilesLooked, FrameLists, ReadingInv, Steady, PrintFiles
    PROVE  FrameLists' /\ ReadingInv'
<1>1. pc = "files" /\ pc # "done"
  BY DEF PrintFiles
<1>2. CASE Len(stack) = 1
  <2>1. pc' = "dirs" /\ stack' = WithTop([Top EXCEPT !.files = << >>])
    BY <1>2 DEF PrintFiles, InMain
  <2>2. Len(stack') = 1
    BY <1>1, <1>2, <2>1, TopIs, Zenon
  <2> QED BY <2>1, <2>2, NotReading DEF FrameLists
<1>3. CASE Len(stack) # 1
  <2>1. stack' = stack /\ heap' = heap /\ (pc' = "dirs" \/ (pc' = "return" /\ ~opts.recursive))
    BY <1>3 DEF PrintFiles, InMain
  <2>2. LeftAt(pc, unread, heap) = {} /\ LeftAt(pc', unread', heap') = {}
    BY <1>1, <2>1 DEF LeftAt
  <2>3. FrameLists'
    BY <2>1, <2>2, SameStackLists
  <2>4. CASE pc' = "dirs"
    BY <2>3, <2>4, NotReading
  <2>5. CASE pc' = "return" /\ ~opts.recursive
    <3>1. Len(stack) >= 2
      <4>1. stack # << >> /\ Len(stack) \in Nat \ {0}
        BY <1>1, TopFacts, Zenon
      <4> QED BY <1>3, <4>1, OneOrMore, Zenon
    <3>2. Top.listed = 0
      BY <1>1, <3>1, ReadingIs DEF Inside
    <3>3. SubdirsOf(fs, opts, Here) = {}
      BY <2>5 DEF SubdirsOf
    <3>4. On(heap, Top.dirs) = {}
      BY <2>2, <3>1, <3>3, TopLists, AllSeen DEF ListsOk
    <3>5. Top.dirs = << >>
      BY <1>1, <3>4, TopFacts, NothingOn
    <3>6. Top'.listed = Len(Top'.dirs)
      <4>1. Len(<< >>) = 0 /\ Top' = Top
        BY <2>1 DEF Top
      <4> QED BY <3>2, <3>5, <4>1
    <3> QED BY <2>3, <2>5, <3>6 DEF ReadingInv, Inside
  <2> QED BY <2>1, <2>4, <2>5
<1> QED BY <1>2, <1>3

LEMMA DirsDoneReading ==
    ASSUME TypeInv, FilesLooked, FrameLists, Steady, DirsDone
    PROVE  FrameLists' /\ ReadingInv'
<1>1. CASE Len(stack) = 1
  <2>1. stack' = << >> /\ pc' = "done"
    BY <1>1 DEF DirsDone, InMain
  <2>2. Len(stack') = 0
    BY <2>1
  <2> QED BY <2>1, <2>2, NotReading DEF FrameLists
<1>2. CASE Len(stack) # 1
  <2>1. /\ pc = "dirs" /\ pc' = "return" /\ stack' = stack /\ heap' = heap
        /\ Top.listed = Len(Top.dirs) /\ Top' = Top
    BY <1>2 DEF DirsDone, InMain, Top
  <2>2. LeftAt(pc, unread, heap) = {} /\ LeftAt(pc', unread', heap') = {}
    BY <2>1 DEF LeftAt
  <2>3. FrameLists'
    BY <2>1, <2>2, SameStackLists
  <2> QED BY <2>1, <2>3 DEF ReadingInv, Inside
<1> QED BY <1>1, <1>2

LEMMA ReadingStepAll ==
    ASSUME TypeInv, FilesLooked, FrameLists, ReadingInv, Steady, Works \/ UNCHANGED vars
    PROVE  FrameLists' /\ ReadingInv'
<1>1. CASE CalmOperand \/ CalmIsLinkToDir \/ OperandsDone
  <2>1. Len(stack) = 1 /\ pc # "done" /\ pc' \in {"operand", "islinktodir", "files"}
    BY <1>1 DEF CalmOperand, CalmIsLinkToDir, OperandsDone, TypeInv, PcInv
  <2>2. stack' = stack \/ \E f : stack' = WithTop(f)
    BY <1>1 DEF CalmOperand, CalmIsLinkToDir, OperandsDone
  <2>3. Len(stack') = 1
    BY <2>1, <2>2, TopIs
  <2> QED BY <2>1, <2>3, NotReading DEF FrameLists
<1>2. CASE Return
  <2>1. pc = "return" /\ stack' = Pop /\ pc' = "dirs" /\ Len(stack) >= 2
    BY <1>2 DEF Return, TypeInv, PcInv
  <2> QED BY <2>1, PopStep, NotReading
<1>3. CASE UNCHANGED vars
  BY <1>3 DEF vars, FrameLists, ReadingInv, Inside, Here, Top
<1>4. CASE \/ CalmStatFile \/ CalmFollowFile \/ PrintFiles \/ NextDir \/ DirsDone
  BY <1>4, StatFileReading, PrintFilesReading, NextDirReading, DirsDoneReading
<1>5. CASE Open \/ ReadEntry \/ CalmStatEntry \/ ReadEnd
  BY <1>5, OpenReading, ReadEntryReading, StatEntryReading, ReadEndReading
<1> QED BY <1>1, <1>2, <1>3, <1>4, <1>5 DEF Works

-----------------------------------------------------------------------------
(* What is printed.                                                            *)

PathIn(o, h, k) == IF o[k].dir = 0 THEN << >> ELSE h[o[k].dir].path
PrintedIn(o, h, e, p) == {k \in 1..Len(o) : o[k].event = e /\ PathIn(o, h, k) = p}
Times(o, h, e, p) == Cardinality(PrintedIn(o, h, e, p))
Adds(o, h, o2, h2, e, p, n) == Times(o2, h2, e, p) = Times(o, h, e, p) + n

LEMMA TimesType ==
    ASSUME NEW S, NEW o \in Seq(S), NEW h, NEW e, NEW p
    PROVE  Times(o, h, e, p) \in Nat /\ IsFiniteSet(PrintedIn(o, h, e, p))
<1>1. IsFiniteSet(1..Len(o))
  BY FS_Interval
<1>2. IsFiniteSet(PrintedIn(o, h, e, p))
  BY <1>1, FS_Subset DEF PrintedIn
<1> QED BY <1>2, FS_CardinalityType DEF Times

LEMMA OutIs ==
    ASSUME TypeInv, FilesLooked, NEW k \in 1..Len(out)
    PROVE  /\ out[k] \in Events(Len(heap)) /\ Len(out) \in Nat /\ Len(heap) \in Nat
           /\ out[k].event \in {"label", "rows", "total"} =>
                 /\ out[k].dir \in 0..Len(heap)
                 /\ PathIn(out, heap', k) = PathIn(out, heap, k)
<1>1. out[k] \in Events(Len(heap)) /\ Len(out) \in Nat /\ Len(heap) \in Nat
  BY DEF TypeInv, Parts, OutType, HeapType
<1>2. out[k].event \in {"label", "rows", "total"} => out[k].dir \in 0..Len(heap)
  BY <1>1 DEF Events
<1>3. ASSUME out[k].dir \in 0..Len(heap)
      PROVE  PathIn(out, heap', k) = PathIn(out, heap, k)
  <2>1. CASE out[k].dir = 0
    BY <2>1 DEF PathIn
  <2>2. CASE out[k].dir \in 1..Len(heap)
    BY <2>2 DEF PathIn, FilesLooked, FileLooked
  <2> QED BY <1>1, <1>3, <2>1, <2>2
<1> QED BY <1>1, <1>2, <1>3

LEMMA SamePrinted ==
    ASSUME TypeInv, FilesLooked, NEW e \in {"label", "rows"}, NEW p
    PROVE  Adds(out, heap, out, heap', e, p, 0)
<1>1. PrintedIn(out, heap', e, p) = PrintedIn(out, heap, e, p)
  BY OutIs DEF PrintedIn
<1>2. Times(out, heap, e, p) \in Nat
  BY TimesType DEF TypeInv, Parts, OutType
<1> QED BY <1>1, <1>2 DEF Adds, Times

LEMMA OneMorePrinted ==
    ASSUME NEW S, NEW o \in Seq(S), NEW h, NEW x, NEW e, NEW p
    PROVE  /\ x.event = e /\ (IF x.dir = 0 THEN << >> ELSE h[x.dir].path) = p =>
                 Adds(o, h, Append(o, x), h, e, p, 1)
           /\ ~(x.event = e /\ (IF x.dir = 0 THEN << >> ELSE h[x.dir].path) = p) =>
                 Adds(o, h, Append(o, x), h, e, p, 0)
<1>1. PICK n \in Nat : n = Len(o)
  OBVIOUS
<1>2. PICK q : q = Append(o, x)
  OBVIOUS
<1>3. Len(q) = n + 1 /\ q[n + 1] = x /\ \A k \in 1..n : q[k] = o[k]
  BY <1>1, <1>2
<1>4. Times(o, h, e, p) \in Nat /\ IsFiniteSet(PrintedIn(o, h, e, p))
  BY TimesType
<1>5. \A k : k \in 1..n + 1 <=> k \in 1..n \/ k = n + 1
  BY <1>1
<1>6. n + 1 \notin 1..n
  BY <1>1
<1>7. CASE x.event = e /\ (IF x.dir = 0 THEN << >> ELSE h[x.dir].path) = p
  <2>1. PrintedIn(q, h, e, p) = PrintedIn(o, h, e, p) \cup {n + 1}
    BY <1>1, <1>3, <1>5, <1>6, <1>7 DEF PrintedIn, PathIn
  <2>2. n + 1 \notin PrintedIn(o, h, e, p)
    BY <1>1, <1>6 DEF PrintedIn
  <2>3. Cardinality(PrintedIn(o, h, e, p) \cup {n + 1}) = Cardinality(PrintedIn(o, h, e, p)) + 1
    BY <1>4, <2>2, FS_AddElement
  <2> QED BY <1>2, <1>7, <2>1, <2>3 DEF Adds, Times
<1>8. CASE ~(x.event = e /\ (IF x.dir = 0 THEN << >> ELSE h[x.dir].path) = p)
  <2>1. PrintedIn(q, h, e, p) = PrintedIn(o, h, e, p)
    BY <1>1, <1>3, <1>5, <1>6, <1>8 DEF PrintedIn, PathIn
  <2> QED BY <1>2, <1>4, <1>8, <2>1 DEF Adds, Times
<1> QED BY <1>7, <1>8

\* An event that is printed adds to the count of its own kind and path.
LEMMA PrintsOne ==
    ASSUME TypeInv, FilesLooked, NEW x, out' = Append(out, x),
           NEW e \in {"label", "rows"}, NEW p
    PROVE  /\ x.event = e /\ (IF x.dir = 0 THEN << >> ELSE heap'[x.dir].path) = p =>
                 Adds(out, heap, out', heap', e, p, 1)
           /\ ~(x.event = e /\ (IF x.dir = 0 THEN << >> ELSE heap'[x.dir].path) = p) =>
                 Adds(out, heap, out', heap', e, p, 0)
<1>1. out \in Seq(Events(Len(heap)))
  BY DEF TypeInv, Parts, OutType
<1>2. Adds(out, heap, out, heap', e, p, 0) /\ Times(out, heap, e, p) \in Nat
  BY <1>1, SamePrinted, TimesType
<1>3. CASE x.event = e /\ (IF x.dir = 0 THEN << >> ELSE heap'[x.dir].path) = p
  <2>1. Adds(out, heap', Append(out, x), heap', e, p, 1)
    BY <1>1, <1>3, OneMorePrinted
  <2> QED BY <1>2, <1>3, <2>1 DEF Adds
<1>4. CASE ~(x.event = e /\ (IF x.dir = 0 THEN << >> ELSE heap'[x.dir].path) = p)
  <2>1. Adds(out, heap', Append(out, x), heap', e, p, 0)
    BY <1>1, <1>4, OneMorePrinted
  <2> QED BY <1>2, <1>4, <2>1 DEF Adds
<1> QED BY <1>3, <1>4

LEMMA PrintsNothing ==
    ASSUME TypeInv, FilesLooked, out' = out, NEW e \in {"label", "rows"}, NEW p
    PROVE  Adds(out, heap, out', heap', e, p, 0)
BY SamePrinted

LEMMA PrintsOther ==
    ASSUME TypeInv, FilesLooked, NEW x, out' = Append(out, x),
           NEW e \in {"label", "rows"}, x.event # e, NEW p
    PROVE  Adds(out, heap, out', heap', e, p, 0)
BY PrintsOne

\* What the rows of a listing should be.
RowIn(f, o, p) ==
    LET s == IF o.targetinfo /\ LstatIn(f, p) = "link" THEN TargetIn(f, p) ELSE LstatIn(f, p)
    IN  [path |-> p,
         shows |-> IF ~o.columns THEN "name" ELSE IF s \in {"failed", "null"} THEN "?" ELSE s]
RowsIn(f, o, S) == {RowIn(f, o, p) : p \in S}
ListedAt(f, o, q, h, d) ==
    IF d = 0 THEN TopFilesOf(f, o, q) ELSE KeptOf(f, o, h[d].path)

RowsTrue ==
    \A k \in 1..Len(out) : out[k].event = "rows" =>
        LET paths == ListedAt(fs, opts, operands, heap, out[k].dir)
        IN  out[k].rows = RowsIn(fs, opts, paths) /\ paths # {}

\* What is known of a File when it is printed.
KnownTo(o, f, x) ==
    /\ o.columns \/ o.targetinfo => x.stat = LstatIn(f, x.path)
    /\ o.targetinfo /\ LstatIn(f, x.path) = "link" => x.target = TargetIn(f, x.path)

LEMMA PrintedAreKnown ==
    ASSUME TypeInv, StatsTrue, PrintFiles, NEW i \in InTopFiles
    PROVE  KnownTo(opts, fs, heap[i])
<1>1. i \in 1..Len(heap)
  BY TopFacts DEF PrintFiles, InTopFiles
<1>2. ~StatNeeded(i) /\ ~TargetNeeded(i)
  BY <1>1, Zenon DEF PrintFiles, StatsTrue
<1> QED BY <1>1, <1>2, Zenon DEF StatsTrue, StatNeeded, TargetNeeded, KnownTo

LEMMA RowsAreTrue ==
    ASSUME TypeInv, StatsTrue, PrintFiles
    PROVE  {RowOf(heap[i]) : i \in InTopFiles} = RowsIn(fs, opts, On(heap, Top.files))
<1>1. ASSUME NEW i \in InTopFiles PROVE RowOf(heap[i]) = RowIn(fs, opts, heap[i].path)
  <2>1. KnownTo(opts, fs, heap[i])
    BY PrintedAreKnown
  <2>2. opts.targetinfo /\ LstatIn(fs, heap[i].path) = "link" => heap[i].stat = "link"
    BY <2>1, Zenon DEF KnownTo
  <2> QED BY <2>1, <2>2 DEF KnownTo, RowOf, Shown, RowIn
<1>2. DOMAIN Top.files = 1..Len(Top.files)
  BY TopFacts DEF PrintFiles
<1> QED BY <1>1, <1>2 DEF RowsIn, On, InTopFiles

LEMMA ListedHere ==
    ASSUME TypeInv, FrameLists, MainLists, PrintFiles
    PROVE  /\ On(heap, Top.files) = ListedAt(fs, opts, operands, heap, Top.dir)
           /\ Top.files = << >> <=> On(heap, Top.files) = {}
           /\ pc = "files" /\ pc # "done" /\ Top.dir \in 0..Len(heap)
           /\ Top.dir = 0 <=> Len(stack) = 1
<1>1. /\ pc = "files" /\ pc # "done" /\ stack # << >> /\ Len(stack) \in Nat \ {0}
      /\ Top.files \in Seq(1..Len(heap)) /\ Top.dir \in 0..Len(heap) /\ Len(heap) \in Nat
      /\ Len(stack) >= 2 => Top.dir \in 1..Len(heap)
  BY TopFacts DEF PrintFiles
<1>2. Top.files = << >> <=> On(heap, Top.files) = {}
  BY <1>1, NothingOn, OnNothing
<1>3. CASE Len(stack) = 1
  <2>1. Top = stack[1] /\ Top.dir = 0
    BY <1>1, <1>3 DEF Top, TypeInv, CallsInv
  <2>2. /\ looked = Len(operands) /\ Sorted = looked
        /\ On(heap, Top.files) = SomeOf(operands, looked) \cap TopFilesOf(fs, opts, operands)
    BY <1>1, <1>3, <2>1 DEF MainLists, Looking, MainWaits, Sorted
  <2>3. operands \in Seq(Seq(AnyName) \ {<< >>})
    BY ListingAssumption DEF ListingAssumption, TypeInv, Parts, PlainType
  <2>4. SomeOf(operands, looked) = ToSet(operands)
    BY <2>2, <2>3, AllOfThem
  <2>5. SomeOf(operands, looked) \cap TopFilesOf(fs, opts, operands) = TopFilesOf(fs, opts, operands)
    BY <2>4 DEF TopFilesOf
  <2> QED BY <1>1, <1>2, <1>3, <2>1, <2>2, <2>5 DEF ListedAt
<1>4. CASE Len(stack) # 1
  <2>1. Len(stack) >= 2 /\ Top.dir \in 1..Len(heap) /\ Top.dir # 0
    <3>1. Len(stack) >= 2
      BY <1>1, <1>4, OneOrMore, Zenon
    <3>2. 0 \notin 1..Len(heap)
      BY <1>1
    <3> QED BY <1>1, <3>1, <3>2, Zenon
  <2>2. LeftAt(pc, unread, heap) = {}
    BY <1>1 DEF LeftAt
  <2>3. On(heap, Top.files) = KeptOf(fs, opts, Here)
    BY <2>1, <2>2, TopLists, AllSeen DEF ListsOk
  <2> QED BY <1>1, <1>2, <1>4, <2>1, <2>3 DEF ListedAt, Here
<1> QED BY <1>3, <1>4

LEMMA OutUnlessPrinted ==
    ASSUME Works \/ UNCHANGED vars, ~PrintFiles, ~NextDir
    PROVE  \/ out' = out
           \/ \E x : out' = Append(out, x) /\ x.event = "total"
<1>1. CASE ReadEnd
  <2>1. PICK x : x = [event |-> "total", dir |-> Top.dir, blocks |-> total]
    OBVIOUS
  <2>2. x.event = "total" /\ (out' = out \/ out' = Append(out, x))
    BY <1>1, <2>1 DEF ReadEnd, CloseStream
  <2> QED BY <2>2
<1>2. CASE ~ReadEnd
  BY <1>2 DEF Works, CalmOperand, CalmIsLinkToDir, OperandsDone, CalmStatFile, CalmFollowFile, DirsDone,
              Open, ReadEntry, CalmStatEntry, Return, vars
<1> QED BY <1>1, <1>2

\* The labels and rows that a step adds.
\* The rows are one event; of Files that have lacked no answer they are RowOf's.
LEMMA PrintFilesPrints ==
    ASSUME PrintFiles
    PROVE  \E x : /\ x.event = "rows" /\ x.dir = Top.dir
                  /\ IF Top.files = << >> THEN out' = out ELSE out' = Append(out, x)
                  /\ (\A i \in InTopFiles : ~heap[i].lacked) =>
                        x.rows = {RowOf(heap[i]) : i \in InTopFiles}
<1>1. PICK rows \in RowSets :
         out' = IF Top.files = << >> THEN out ELSE Append(out, RowsEvent(rows))
  BY Zenon DEF PrintFiles, RowsEvent
<1>2. PICK x : x = RowsEvent(rows)
  OBVIOUS
<1>3. x.event = "rows" /\ x.dir = Top.dir /\ x.rows = rows
  BY <1>2 DEF RowsEvent
<1>4. (\A i \in InTopFiles : ~heap[i].lacked) => rows = {RowOf(heap[i]) : i \in InTopFiles}
  BY <1>1, RowsUnlacked, Zenon DEF TopRows
<1> QED BY <1>1, <1>2, <1>3, <1>4, Zenon

LEMMA NothingAdded ==
    ASSUME TypeInv, FilesLooked, Works \/ UNCHANGED vars, NEW e \in {"label", "rows"}, NEW p,
           e = "label" => ~NextDir, e = "rows" => ~PrintFiles
    PROVE  Adds(out, heap, out', heap', e, p, 0)
<1>1. CASE ~PrintFiles /\ ~NextDir
  <2>1. CASE out' = out
    BY <2>1, PrintsNothing
  <2>2. ASSUME NEW x, out' = Append(out, x), x.event = "total"
        PROVE  Adds(out, heap, out', heap', e, p, 0)
    BY <2>2, PrintsOther
  <2> QED BY <1>1, <2>1, <2>2, OutUnlessPrinted
<1>2. CASE PrintFiles /\ e = "label"
  <2>1. PICK x : x.event = "rows" /\ (out' = out \/ out' = Append(out, x))
    BY <1>2, PrintFilesPrints
  <2> QED BY <1>2, <2>1, PrintsNothing, PrintsOther
<1>3. CASE NextDir /\ e = "rows"
  <2>1. PICK b : b = [event |-> "blank"]
    OBVIOUS
  <2>2. PICK l : l = [event |-> "label", dir |-> Top.dirs[Top.listed + 1]]
    OBVIOUS
  <2>3. out' = out \/ out' = Append(out, l) \/ out' = Append(Append(out, b), l)
    BY <1>3, <2>1, <2>2, NextDirAnnounces DEF Announced
  <2>4. b.event # "rows" /\ l.event # "rows"
    BY <2>1, <2>2
  <2>5. CASE out' = Append(Append(out, b), l)
    <3>1. out \in Seq(Events(Len(heap))) /\ Append(out, b) \in Seq(Events(Len(heap)) \cup {b})
      BY DEF TypeInv, Parts, OutType
    <3>2. Adds(out, heap', Append(out, b), heap', "rows", p, 0)
      BY <2>4, <3>1, OneMorePrinted
    <3>3. Adds(Append(out, b), heap', Append(Append(out, b), l), heap', "rows", p, 0)
      BY <2>4, <3>1, OneMorePrinted
    <3>4. Adds(out, heap, out, heap', "rows", p, 0) /\ Times(out, heap, "rows", p) \in Nat
      BY <3>1, SamePrinted, TimesType
    <3> QED BY <1>3, <2>5, <3>2, <3>3, <3>4 DEF Adds
  <2> QED BY <1>3, <2>3, <2>4, <2>5, PrintsNothing, PrintsOther
<1> QED BY <1>1, <1>2, <1>3

LEMMA RowsAdded ==
    ASSUME TypeInv, FilesLooked, PrintFiles, NEW p
    PROVE  /\ Top.files # << >> /\ (IF Top.dir = 0 THEN << >> ELSE heap[Top.dir].path) = p =>
                 Adds(out, heap, out', heap', "rows", p, 1)
           /\ ~(Top.files # << >> /\ (IF Top.dir = 0 THEN << >> ELSE heap[Top.dir].path) = p) =>
                 Adds(out, heap, out', heap', "rows", p, 0)
<1>2. PICK x : /\ x.event = "rows" /\ x.dir = Top.dir
               /\ IF Top.files = << >> THEN out' = out ELSE out' = Append(out, x)
  BY PrintFilesPrints
<1>3. (IF Top.dir = 0 THEN << >> ELSE heap'[Top.dir].path)
         = (IF Top.dir = 0 THEN << >> ELSE heap[Top.dir].path)
  <2>1. Top.dir \in 0..Len(heap) /\ Len(heap) \in Nat
    BY TopFacts DEF PrintFiles
  <2>2. Top.dir = 0 \/ Top.dir \in 1..Len(heap)
    BY <2>1
  <2> QED BY <2>2 DEF FilesLooked, FileLooked
<1>4. CASE Top.files = << >>
  BY <1>2, <1>4, PrintsNothing
<1>5. CASE Top.files # << >>
  BY <1>2, <1>3, <1>5, PrintsOne
<1> QED BY <1>4, <1>5

LEMMA LabelsAdded ==
    ASSUME TypeInv, FilesLooked, NextDir, NEW p
    PROVE  /\ NeedLabel /\ heap[Top.dirs[Top.listed + 1]].path = p =>
                 Adds(out, heap, out', heap', "label", p, 1)
           /\ ~(NeedLabel /\ heap[Top.dirs[Top.listed + 1]].path = p) =>
                 Adds(out, heap, out', heap', "label", p, 0)
<1>1. PICK b : b = [event |-> "blank"]
  OBVIOUS
<1>2. PICK l : l = [event |-> "label", dir |-> Top.dirs[Top.listed + 1]]
  OBVIOUS
<1>3. \/ ~NeedLabel /\ out' = out
      \/ NeedLabel /\ (out' = Append(out, l) \/ out' = Append(Append(out, b), l))
  BY <1>1, <1>2, NextDirAnnounces DEF Announced
<1>4. /\ b.event # "label" /\ l.event = "label" /\ l.dir = Top.dirs[Top.listed + 1]
      /\ l.dir # 0 /\ heap'[l.dir].path = heap[l.dir].path
  <2>1. b.event # "label" /\ l.event = "label" /\ l.dir = Top.dirs[Top.listed + 1]
    BY <1>1, <1>2
  <2>2. l.dir \in 1..Len(heap) /\ heap' = heap
    BY <2>1, NextDirIs
  <2> QED BY <2>1, <2>2
<1>5. CASE ~NeedLabel /\ out' = out
  BY <1>5, PrintsNothing
<1>6. CASE NeedLabel /\ out' = Append(out, l)
  BY <1>4, <1>6, PrintsOne
<1>7. CASE NeedLabel /\ out' = Append(Append(out, b), l)
  <2>1. out \in Seq(Events(Len(heap))) /\ Append(out, b) \in Seq(Events(Len(heap)) \cup {b})
    BY DEF TypeInv, Parts, OutType
  <2>2. Adds(out, heap', Append(out, b), heap', "label", p, 0)
    BY <1>4, <2>1, OneMorePrinted
  <2>3. Adds(out, heap, out, heap', "label", p, 0) /\ Times(out, heap, "label", p) \in Nat
    BY <2>1, SamePrinted, TimesType
  <2>4. CASE heap[l.dir].path = p
    <3>1. Adds(Append(out, b), heap', Append(Append(out, b), l), heap', "label", p, 1)
      BY <1>4, <2>1, <2>4, OneMorePrinted
    <3> QED BY <1>4, <1>7, <2>2, <2>3, <2>4, <3>1 DEF Adds
  <2>5. CASE heap[l.dir].path # p
    <3>1. Adds(Append(out, b), heap', Append(Append(out, b), l), heap', "label", p, 0)
      BY <1>4, <2>1, <2>5, OneMorePrinted
    <3> QED BY <1>4, <1>7, <2>2, <2>3, <2>5, <3>1 DEF Adds
  <2> QED BY <2>4, <2>5
<1> QED BY <1>3, <1>5, <1>6, <1>7

LEMMA OldOrNew ==
    ASSUME NEW S, NEW o \in Seq(S), NEW x, NEW k \in 1..Len(Append(o, x))
    PROVE  (k \in 1..Len(o) /\ Append(o, x)[k] = o[k]) \/ Append(o, x)[k] = x
OBVIOUS

LEMMA OldRows ==
    ASSUME TypeInv, FilesLooked, StatsTrue, Works \/ UNCHANGED vars,
           NEW k \in 1..Len(out'), out'[k].event = "rows"
    PROVE  \/ k \in 1..Len(out) /\ out'[k] = out[k]
           \/ /\ PrintFiles /\ Top.files # << >> /\ out'[k].dir = Top.dir
              /\ out'[k].rows = {RowOf(heap[i]) : i \in InTopFiles}
<1>1. out \in Seq(Events(Len(heap)))
  BY DEF TypeInv, Parts, OutType
<1>2. CASE PrintFiles
  <2>1. \A i \in InTopFiles : ~heap[i].lacked
    BY <1>2, TopFacts DEF PrintFiles, InTopFiles, StatsTrue
  <2>2. PICK x : /\ x.dir = Top.dir /\ x.rows = {RowOf(heap[i]) : i \in InTopFiles}
                 /\ IF Top.files = << >> THEN out' = out ELSE out' = Append(out, x)
    BY <1>2, <2>1, PrintFilesPrints, Zenon
  <2>3. IF Top.files = << >> THEN out' = out ELSE out' = Append(out, x)
    BY <2>2
  <2>4. CASE Top.files = << >>
    BY <2>3, <2>4
  <2>5. CASE Top.files # << >>
    <3>1. out' = Append(out, x)
      BY <2>3, <2>5
    <3>2. (k \in 1..Len(out) /\ Append(out, x)[k] = out[k]) \/ Append(out, x)[k] = x
      BY <1>1, <3>1, OldOrNew
    <3> QED BY <1>2, <2>2, <2>5, <3>1, <3>2, Zenon
  <2> QED BY <2>4, <2>5
<1>3. CASE NextDir
  <2>1. PICK b : b = [event |-> "blank"]
    OBVIOUS
  <2>2. PICK l : l = [event |-> "label", dir |-> Top.dirs[Top.listed + 1]]
    OBVIOUS
  <2>3. out' = out \/ out' = Append(out, l) \/ out' = Append(Append(out, b), l)
    BY <1>3, <2>1, <2>2, NextDirAnnounces DEF Announced
  <2>4. b.event # "rows" /\ l.event # "rows"
    BY <2>1, <2>2
  <2>5. CASE out' = Append(out, l)
    <3>1. (k \in 1..Len(out) /\ Append(out, l)[k] = out[k]) \/ Append(out, l)[k] = l
      BY <1>1, <2>5, OldOrNew
    <3> QED BY <2>4, <2>5, <3>1, Zenon
  <2>6. CASE out' = Append(Append(out, b), l)
    <3>1. PICK o : o = Append(out, b)
      OBVIOUS
    <3>2. o \in Seq(Events(Len(heap)) \cup {b})
      BY <1>1, <3>1
    <3>3. (k \in 1..Len(o) /\ Append(o, l)[k] = o[k]) \/ Append(o, l)[k] = l
      BY <2>6, <3>1, <3>2, OldOrNew
    <3>4. k \in 1..Len(o) => (k \in 1..Len(out) /\ o[k] = out[k]) \/ o[k] = b
      BY <1>1, <3>1, OldOrNew
    <3> QED BY <2>4, <2>6, <3>1, <3>3, <3>4, Zenon
  <2> QED BY <2>3, <2>5, <2>6
<1>4. CASE ~PrintFiles /\ ~NextDir
  <2>1. CASE out' = out
    BY <2>1
  <2>2. ASSUME NEW x, out' = Append(out, x), x.event = "total"
        PROVE  k \in 1..Len(out) /\ out'[k] = out[k]
    <3>1. (k \in 1..Len(out) /\ Append(out, x)[k] = out[k]) \/ Append(out, x)[k] = x
      BY <1>1, <2>2, OldOrNew
    <3>2. "total" # "rows"
      OBVIOUS
    <3> QED BY <2>2, <3>1, <3>2, Zenon
  <2> QED BY <1>4, <2>1, <2>2, OutUnlessPrinted
<1> QED BY <1>2, <1>3, <1>4

LEMMA SameListed ==
    ASSUME FilesLooked, NEW d \in 0..Len(heap), Len(heap) \in Nat
    PROVE  ListedAt(fs, opts, operands, heap', d) = ListedAt(fs, opts, operands, heap, d)
<1>1. d = 0 \/ (d # 0 /\ d \in 1..Len(heap))
  OBVIOUS
<1>2. d \in 1..Len(heap) => heap'[d].path = heap[d].path
  BY DEF FilesLooked, FileLooked
<1> HIDE DEF KeptOf, TopFilesOf
<1> QED BY <1>1, <1>2, Zenon DEF ListedAt

LEMMA RowsTrueStep ==
    ASSUME TypeInv, FilesLooked, StatsTrue, FrameLists, MainLists, RowsTrue, Steady,
           Works \/ UNCHANGED vars
    PROVE  RowsTrue'
<1>1. ASSUME NEW k \in 1..Len(out'), out'[k].event = "rows"
      PROVE  LET paths == ListedAt(fs, opts, operands, heap', out'[k].dir)
             IN  out'[k].rows = RowsIn(fs, opts, paths) /\ paths # {}
  <2>1. CASE k \in 1..Len(out) /\ out'[k] = out[k]
    <3>1. out[k].dir \in 0..Len(heap) /\ Len(heap) \in Nat
      BY <1>1, <2>1, OutIs
    <3>2. ListedAt(fs, opts, operands, heap', out[k].dir)
             = ListedAt(fs, opts, operands, heap, out[k].dir)
      BY <3>1, SameListed
    <3> QED BY <1>1, <2>1, <3>2, Zenon DEF RowsTrue
  <2>2. CASE /\ PrintFiles /\ Top.files # << >> /\ out'[k].dir = Top.dir
             /\ out'[k].rows = {RowOf(heap[i]) : i \in InTopFiles}
    <3>1. {RowOf(heap[i]) : i \in InTopFiles} = RowsIn(fs, opts, On(heap, Top.files))
      BY <2>2, RowsAreTrue
    <3>2. /\ On(heap, Top.files) = ListedAt(fs, opts, operands, heap, Top.dir)
          /\ On(heap, Top.files) # {} /\ Top.dir \in 0..Len(heap) /\ Len(heap) \in Nat
      BY <2>2, ListedHere, TopFacts
    <3>3. ListedAt(fs, opts, operands, heap', Top.dir)
             = ListedAt(fs, opts, operands, heap, Top.dir)
      BY <3>2, SameListed
    <3> QED BY <2>2, <3>1, <3>2, <3>3, Zenon
  <2> QED BY <1>1, <2>1, <2>2, OldRows
<1> QED BY <1>1, Zenon DEF RowsTrue, Steady

RootRows ==
    Times(out, heap, "rows", << >>) =
        IF MainWaits \/ TopFilesOf(fs, opts, operands) = {} THEN 0 ELSE 1

LEMMA MainWaitsStep ==
    ASSUME TypeInv, ~PrintFiles, Works \/ UNCHANGED vars
    PROVE  MainWaits' <=> MainWaits
<1>1. CASE CalmOperand \/ CalmIsLinkToDir \/ OperandsDone
  <2>1. Len(stack) = 1 /\ pc # "done" /\ Looking /\ pc' \in {"operand", "islinktodir", "files"}
    BY <1>1 DEF CalmOperand, CalmIsLinkToDir, OperandsDone, TypeInv, PcInv, Looking
  <2>2. stack' = stack \/ \E f : stack' = WithTop(f)
    BY <1>1 DEF CalmOperand, CalmIsLinkToDir, OperandsDone
  <2>3. Len(stack') = 1
    BY <2>1, <2>2, TopIs
  <2> QED BY <2>1, <2>3 DEF MainWaits, Looking
<1>2. CASE CalmStatFile \/ CalmFollowFile \/ UNCHANGED vars
  BY <1>2 DEF CalmStatFile, CalmFollowFile, vars, MainWaits, Looking
<1>3. CASE Open \/ ReadEntry \/ CalmStatEntry \/ ReadEnd \/ Return \/ NextDir \/ DirsDone
  <2>1. MainStays
    BY <1>3, InsideMainStays, NextDirMainStays, OtherMainStays
  <2>2. ~MainWaits
    <3>1. pc \in {"open", "read", "entry", "return", "dirs"}
      BY <1>3 DEF Open, ReadEntry, CalmStatEntry, ReadEnd, Return, NextDir, DirsDone
    <3> QED BY <3>1 DEF MainWaits, Looking
  <2>3. CASE stack' # << >>
    BY <2>1, <2>2, <2>3 DEF MainStays
  <2>4. CASE stack' = << >>
    BY <2>1, <2>2, <2>4 DEF MainStays, MainWaits
  <2> QED BY <2>3, <2>4
<1> QED BY <1>1, <1>2, <1>3 DEF Works

LEMMA PrintFilesWaits ==
    ASSUME TypeInv, PrintFiles
    PROVE  /\ MainWaits <=> Len(stack) = 1
           /\ ~MainWaits'
BY DEF PrintFiles, MainWaits, Looking

LEMMA RootRowsStep ==
    ASSUME TypeInv, FilesLooked, FrameLists, MainLists, RootRows, Steady,
           Works \/ UNCHANGED vars
    PROVE  RootRows'
<1> HIDE DEF TopFilesOf
<1>1. CASE ~PrintFiles
  <2>1. Adds(out, heap, out', heap', "rows", << >>, 0)
    <3>1. "rows" \in {"label", "rows"} /\ "rows" # "label"
      OBVIOUS
    <3> QED BY <1>1, <3>1, NothingAdded, Zenon
  <2>2. MainWaits' <=> MainWaits
    BY <1>1, MainWaitsStep
  <2> HIDE DEF MainWaits
  <2> QED BY <2>1, <2>2 DEF Adds, RootRows, Steady
<1>2. CASE PrintFiles
  <2>1. /\ MainWaits <=> Len(stack) = 1
        /\ ~MainWaits'
    BY <1>2, PrintFilesWaits
  <2>2. /\ Top.files = << >> <=> ListedAt(fs, opts, operands, heap, Top.dir) = {}
        /\ Top.dir = 0 <=> Len(stack) = 1
        /\ Top.dir # 0 => heap[Top.dir].path # << >>
    <3>1. Top.dir \in 0..Len(heap) /\ Len(heap) \in Nat
      BY <1>2, ListedHere, TopFacts
    <3>2. ASSUME Top.dir # 0 PROVE heap[Top.dir].path # << >>
      <4>1. Top.dir \in 1..Len(heap)
        BY <3>1, <3>2
      <4>2. heap[Top.dir] \in FileType
        BY <4>1 DEF TypeInv, Parts, HeapType
      <4> QED BY <4>2 DEF FileType
    <3> QED BY <1>2, <3>2, ListedHere
  <2>3. CASE Len(stack) = 1
    <3>1. /\ Top.files # << >> => Adds(out, heap, out', heap', "rows", << >>, 1)
          /\ Top.files = << >> => Adds(out, heap, out', heap', "rows", << >>, 0)
      BY <1>2, <2>2, <2>3, RowsAdded
    <3>2. Top.files = << >> <=> TopFilesOf(fs, opts, operands) = {}
      BY <2>2, <2>3 DEF ListedAt
    <3> HIDE DEF MainWaits
    <3> QED BY <2>1, <2>3, <3>1, <3>2 DEF Adds, RootRows, Steady
  <2>4. CASE Len(stack) # 1
    <3>1. Adds(out, heap, out', heap', "rows", << >>, 0)
      BY <1>2, <2>2, <2>4, RowsAdded
    <3> HIDE DEF MainWaits
    <3> QED BY <2>1, <2>4, <3>1 DEF Adds, RootRows, Steady
  <2> QED BY <2>3, <2>4
<1> QED BY <1>1, <1>2

-----------------------------------------------------------------------------
(* How often each directory is listed.  Directories wait on the lists of main() *)
(* and of the active calls of listdir() that have been read.                   *)

WaitsAt(h, s, m, k, n, p) ==
    /\ k \in 1..m /\ s[k].listed < n /\ n <= Len(s[k].dirs)
    /\ h[s[k].dirs[n]].path = p
WaitSet(h, s, m, p) == {x \in Nat \X Nat : WaitsAt(h, s, m, x[1], x[2], p)}
Level(p, m) == IF p \in {"open", "read", "entry"} THEN m - 1 ELSE m

\* One set has d elements more than another.
Outnumbers(A, B, d) ==
    IsFiniteSet(A) => IsFiniteSet(B) /\ Cardinality(B) = Cardinality(A) + d

LEMMA SameWait ==
    ASSUME NEW h, NEW s, NEW m, NEW h2, NEW s2, NEW m2, NEW p,
           \A k, n \in Nat : WaitsAt(h2, s2, m2, k, n, p) <=> WaitsAt(h, s, m, k, n, p)
    PROVE  Outnumbers(WaitSet(h, s, m, p), WaitSet(h2, s2, m2, p), 0)
<1>1. WaitSet(h2, s2, m2, p) = WaitSet(h, s, m, p)
  <2> HIDE DEF WaitsAt
  <2>1. \A x \in Nat \X Nat : x[1] \in Nat /\ x[2] \in Nat
    OBVIOUS
  <2> QED BY <2>1 DEF WaitSet
<1>2. IsFiniteSet(WaitSet(h, s, m, p)) => Cardinality(WaitSet(h, s, m, p)) \in Nat
  BY FS_CardinalityType
<1> QED BY <1>1, <1>2 DEF Outnumbers

LEMMA OneMoreWaits ==
    ASSUME NEW h, NEW s, NEW m, NEW h2, NEW s2, NEW m2, NEW p, NEW j \in Nat, NEW l \in Nat,
           \A k, n \in Nat : WaitsAt(h2, s2, m2, k, n, p) <=>
                                WaitsAt(h, s, m, k, n, p) \/ (k = j /\ n = l),
           ~WaitsAt(h, s, m, j, l, p)
    PROVE  Outnumbers(WaitSet(h, s, m, p), WaitSet(h2, s2, m2, p), 1)
<1> HIDE DEF WaitsAt
<1>1. \A x \in Nat \X Nat : x[1] \in Nat /\ x[2] \in Nat /\ (x = <<j, l>> <=> x[1] = j /\ x[2] = l)
  OBVIOUS
<1>2. <<j, l>> \in Nat \X Nat /\ <<j, l>>[1] = j /\ <<j, l>>[2] = l
  OBVIOUS
<1>3. WaitSet(h2, s2, m2, p) = WaitSet(h, s, m, p) \cup {<<j, l>>}
  <2>1. ASSUME NEW x \in Nat \X Nat
        PROVE  WaitsAt(h2, s2, m2, x[1], x[2], p) <=>
                  WaitsAt(h, s, m, x[1], x[2], p) \/ x = <<j, l>>
    BY <1>1
  <2> QED BY <1>2, <2>1 DEF WaitSet
<1>4. <<j, l>> \notin WaitSet(h, s, m, p)
  BY <1>2 DEF WaitSet
<1>5. ASSUME IsFiniteSet(WaitSet(h, s, m, p))
      PROVE  /\ IsFiniteSet(WaitSet(h2, s2, m2, p))
             /\ Cardinality(WaitSet(h2, s2, m2, p)) = Cardinality(WaitSet(h, s, m, p)) + 1
  BY <1>3, <1>4, <1>5, FS_AddElement
<1> QED BY <1>5 DEF Outnumbers

LEMMA OneLessWaits ==
    ASSUME NEW h, NEW s, NEW m, NEW h2, NEW s2, NEW m2, NEW p, NEW j \in Nat, NEW l \in Nat,
           \A k, n \in Nat : WaitsAt(h2, s2, m2, k, n, p) <=>
                                WaitsAt(h, s, m, k, n, p) /\ ~(k = j /\ n = l),
           WaitsAt(h, s, m, j, l, p)
    PROVE  Outnumbers(WaitSet(h, s, m, p), WaitSet(h2, s2, m2, p), -1)
<1> HIDE DEF WaitsAt
<1>1. \A x \in Nat \X Nat : x[1] \in Nat /\ x[2] \in Nat /\ (x = <<j, l>> <=> x[1] = j /\ x[2] = l)
  OBVIOUS
<1>2. <<j, l>> \in Nat \X Nat /\ <<j, l>>[1] = j /\ <<j, l>>[2] = l
  OBVIOUS
<1>3. WaitSet(h2, s2, m2, p) = WaitSet(h, s, m, p) \ {<<j, l>>}
  <2>1. ASSUME NEW x \in Nat \X Nat
        PROVE  WaitsAt(h2, s2, m2, x[1], x[2], p) <=>
                  WaitsAt(h, s, m, x[1], x[2], p) /\ x # <<j, l>>
    BY <1>1
  <2> QED BY <1>2, <2>1 DEF WaitSet
<1>4. <<j, l>> \in WaitSet(h, s, m, p)
  BY <1>2 DEF WaitSet
<1>5. ASSUME IsFiniteSet(WaitSet(h, s, m, p))
      PROVE  /\ IsFiniteSet(WaitSet(h2, s2, m2, p))
             /\ Cardinality(WaitSet(h2, s2, m2, p)) = Cardinality(WaitSet(h, s, m, p)) + (-1)
  <2>1. /\ IsFiniteSet(WaitSet(h, s, m, p) \ {<<j, l>>})
        /\ Cardinality(WaitSet(h, s, m, p) \ {<<j, l>>}) = Cardinality(WaitSet(h, s, m, p)) - 1
        /\ Cardinality(WaitSet(h, s, m, p)) \in Nat
    BY <1>4, <1>5, FS_RemoveElement, FS_CardinalityType
  <2> QED BY <1>3, <2>1
<1> QED BY <1>5 DEF Outnumbers

\* What waits on a frame waits there still where its lists stay.
LEMMA FrameWaits ==
    ASSUME TypeInv, FilesLooked, NEW k \in 1..Len(stack),
           stack'[k].dirs = stack[k].dirs, stack'[k].listed = stack[k].listed,
           NEW m, NEW m2, k \in 1..m <=> k \in 1..m2, NEW n \in Nat, NEW p
    PROVE  WaitsAt(heap', stack', m2, k, n, p) <=> WaitsAt(heap, stack, m, k, n, p)
<1>1. stack[k].dirs \in Seq(1..Len(heap)) /\ stack[k].listed \in Nat
  BY FrameTypes
<1>2. ASSUME stack[k].listed < n, n <= Len(stack[k].dirs)
      PROVE  heap'[stack[k].dirs[n]].path = heap[stack[k].dirs[n]].path
  <2>1. stack[k].dirs[n] \in 1..Len(heap)
    BY <1>1, <1>2
  <2> QED BY <2>1 DEF FilesLooked, FileLooked
<1> QED BY <1>2 DEF WaitsAt

LEMMA FramesWait ==
    ASSUME TypeInv, FilesLooked, NEW m \in 0..Len(stack), NEW p,
           \A k \in 1..m : stack'[k].dirs = stack[k].dirs /\ stack'[k].listed = stack[k].listed
    PROVE  Outnumbers(WaitSet(heap, stack, m, p), WaitSet(heap', stack', m, p), 0)
<1>1. ASSUME NEW k \in Nat, NEW n \in Nat
      PROVE  WaitsAt(heap', stack', m, k, n, p) <=> WaitsAt(heap, stack, m, k, n, p)
  <2>1. CASE k \in 1..m
    <3>1. k \in 1..Len(stack)
      BY <2>1, FrameTypes
    <3> QED BY <2>1, <3>1, FrameWaits
  <2>2. CASE k \notin 1..m
    BY <2>2 DEF WaitsAt
  <2> QED BY <2>1, <2>2
<1> QED BY <1>1, SameWait

\* The step changes how often a path waits.
WaitsBy(p, d) ==
    Outnumbers(WaitSet(heap, stack, Level(pc, Len(stack)), p),
               WaitSet(heap', stack', Level(pc', Len(stack')), p), d)

LEMMA SortingWaits ==
    ASSUME TypeInv, TypeInv', FilesLooked, Len(stack) = 1, Looking, Looking', NEW id, SortsOne(id),
           NEW p
    PROVE  /\ p = operands[Sorted + 1] /\ p \in TopDirsOf(fs, opts, operands) => WaitsBy(p, 1)
           /\ ~(p = operands[Sorted + 1] /\ p \in TopDirsOf(fs, opts, operands)) => WaitsBy(p, 0)
<1>1. Level(pc, Len(stack)) = 1 /\ Level(pc', Len(stack)) = 1
  BY DEF Looking, Level
<1>2. Top = stack[1] /\ Len(stack) \in Nat /\ Top.dirs \in Seq(1..Len(heap)) /\ Len(heap) \in Nat
      /\ Top.listed \in Nat /\ Top.listed <= Len(Top.dirs) /\ pc # "done"
  BY MainIsTop, TopFacts
<1>3. PICK q : q = operands[Sorted + 1]
  OBVIOUS
<1>4. heap'[id].path = q /\ id \in 1..Len(heap')
  BY <1>3 DEF SortsOne
<1>5. q \in TopFilesOf(fs, opts, operands) => q \notin TopDirsOf(fs, opts, operands)
  BY DEF TopFilesOf
<1>6. PICK z \in Nat : z = Len(Top.dirs) + 1
  BY <1>2
<1>7. CASE q \in TopDirsOf(fs, opts, operands)
  <2>1. PICK f : f = [Top EXCEPT !.dirs = Append(Top.dirs, id)]
    OBVIOUS
  <2>2. stack' = WithTop(f)
    <3> HIDE DEF TopDirsOf, TopFilesOf
    <3> QED BY <1>3, <1>5, <1>7, <2>1 DEF SortsOne
  <2>3. f.dirs = Append(Top.dirs, id) /\ f.listed = Top.listed
    BY <2>1, MainFields
  <2>4. stack'[1] = f /\ Len(stack') = 1
    BY <2>2, ChangedMain
  <2>5. \A n \in 1..Len(Top.dirs) : heap'[Top.dirs[n]].path = heap[Top.dirs[n]].path
    BY <1>2 DEF FilesLooked, FileLooked
  <2>6. ASSUME NEW n \in Nat
        PROVE  WaitsAt(heap', stack', 1, 1, n, p) <=>
                  WaitsAt(heap, stack, 1, 1, n, p) \/ (n = z /\ p = q)
    <3>1. Len(f.dirs) = z /\ f.dirs[z] = id /\ \A l \in 1..Len(Top.dirs) : f.dirs[l] = Top.dirs[l]
      BY <1>2, <1>6, <2>3
    <3>2. CASE n \in 1..Len(Top.dirs)
      <4>1. n <= z /\ n <= Len(Top.dirs) /\ n # z
        BY <1>2, <1>6, <3>2
      <4> QED BY <1>2, <2>3, <2>4, <2>5, <3>1, <3>2, <4>1 DEF WaitsAt
    <3>3. CASE n = z
      <4>1. Top.listed < z /\ ~(z <= Len(Top.dirs)) /\ 1 \in 1..1 /\ z <= z
        BY <1>2, <1>6
      <4> QED BY <1>2, <1>4, <2>3, <2>4, <3>1, <3>3, <4>1 DEF WaitsAt
    <3>4. CASE n \notin 1..Len(Top.dirs) /\ n # z
      <4>1. ~(Top.listed < n /\ n <= Len(Top.dirs)) /\ ~(Top.listed < n /\ n <= z)
        BY <1>2, <1>6, <3>4
      <4> QED BY <1>2, <2>3, <2>4, <3>1, <3>4, <4>1 DEF WaitsAt
    <3> QED BY <3>2, <3>3, <3>4
  <2>7. ASSUME NEW k \in Nat, NEW n \in Nat, k # 1
        PROVE  ~WaitsAt(heap', stack', 1, k, n, p) /\ ~WaitsAt(heap, stack, 1, k, n, p)
    <3>1. k \notin 1..1
      BY <2>7
    <3> QED BY <3>1 DEF WaitsAt
  <2>8. CASE p = q
    <3>1. ~WaitsAt(heap, stack, 1, 1, z, p)
      <4>1. ~(z <= Len(Top.dirs))
        BY <1>2, <1>6
      <4> QED BY <1>2, <4>1 DEF WaitsAt
    <3>2. \A k, n \in Nat : WaitsAt(heap', stack', 1, k, n, p) <=>
                               WaitsAt(heap, stack, 1, k, n, p) \/ (k = 1 /\ n = z)
      BY <2>6, <2>7, <2>8, Zenon
    <3>3. Outnumbers(WaitSet(heap, stack, 1, p), WaitSet(heap', stack', 1, p), 1)
      <4>1. PICK j \in Nat : j = 1
        OBVIOUS
      <4>2. PICK m : m = 1
        OBVIOUS
      <4>3. /\ \A k, n \in Nat : WaitsAt(heap', stack', m, k, n, p) <=>
                                   WaitsAt(heap, stack, m, k, n, p) \/ (k = j /\ n = z)
            /\ ~WaitsAt(heap, stack, m, j, z, p)
        BY <3>1, <3>2, <4>1, <4>2
      <4>4. Outnumbers(WaitSet(heap, stack, m, p), WaitSet(heap', stack', m, p), 1)
        BY <4>3, OneMoreWaits, Zenon
      <4> QED BY <4>2, <4>4
    <3> QED BY <1>1, <1>3, <1>7, <2>4, <2>8, <3>3, Zenon DEF WaitsBy
  <2>9. CASE p # q
    <3>1. \A k, n \in Nat : WaitsAt(heap', stack', 1, k, n, p) <=> WaitsAt(heap, stack, 1, k, n, p)
      BY <2>6, <2>7, <2>9, Zenon
    <3>2. Outnumbers(WaitSet(heap, stack, 1, p), WaitSet(heap', stack', 1, p), 0)
      BY <3>1, SameWait, Zenon
    <3> QED BY <1>1, <1>3, <1>7, <2>4, <2>9, <3>2, Zenon DEF WaitsBy
  <2> QED BY <2>8, <2>9
<1>8. CASE q \notin TopDirsOf(fs, opts, operands)
  <2>1. stack' = stack \/ stack' = WithTop([Top EXCEPT !.files = Append(Top.files, id)])
    <3> HIDE DEF TopDirsOf, TopFilesOf
    <3> QED BY <1>3, <1>8 DEF SortsOne
  <2>2. stack'[1].dirs = stack[1].dirs /\ stack'[1].listed = stack[1].listed /\ Len(stack') = 1
    <3>1. CASE stack' = WithTop([Top EXCEPT !.files = Append(Top.files, id)])
      <4>1. PICK f : f = [Top EXCEPT !.files = Append(Top.files, id)]
        OBVIOUS
      <4>2. f.dirs = Top.dirs /\ f.listed = Top.listed
        BY <4>1, MainFields
      <4> QED BY <1>2, <3>1, <4>1, <4>2, ChangedMain
    <3> QED BY <2>1, <3>1
  <2>3. Outnumbers(WaitSet(heap, stack, 1, p), WaitSet(heap', stack', 1, p), 0)
    <3>1. 1 \in 0..Len(stack) /\ \A k \in 1..1 : k = 1
      OBVIOUS
    <3> QED BY <2>2, <3>1, FramesWait
  <2> QED BY <1>1, <1>3, <1>8, <2>2, <2>3, Zenon DEF WaitsBy
<1> QED BY <1>7, <1>8

\* A step that keeps what waits.
LEMMA WaitsStay ==
    ASSUME TypeInv, FilesLooked, NEW m \in 0..Len(stack),
           Level(pc, Len(stack)) = m, Level(pc', Len(stack')) = m,
           \A k \in 1..m : stack'[k].dirs = stack[k].dirs /\ stack'[k].listed = stack[k].listed,
           NEW p
    PROVE  WaitsBy(p, 0)
<1>1. Outnumbers(WaitSet(heap, stack, m, p), WaitSet(heap', stack', m, p), 0)
  BY FramesWait, Zenon
<1> QED BY <1>1, Zenon DEF WaitsBy

LEMMA OutnumbersStill ==
    ASSUME NEW A, NEW B, NEW C, NEW d \in Int, Outnumbers(A, B, d), Outnumbers(B, C, 0)
    PROVE  Outnumbers(A, C, d)
<1>1. IsFiniteSet(A) => Cardinality(A) \in Nat
  BY FS_CardinalityType
<1> QED BY <1>1 DEF Outnumbers

\* Nothing waits on a frame whose directories have all been listed.
LEMMA NothingWaits ==
    ASSUME TypeInv, FilesLooked, pc # "done", Top.listed = Len(Top.dirs),
           Level(pc, Len(stack)) = Len(stack), Level(pc', Len(stack')) = Len(stack) - 1,
           \A k \in 1..Len(stack) - 1 : stack'[k] = stack[k],
           NEW p
    PROVE  WaitsBy(p, 0)
<1>1. PICK m \in Nat : m = Len(stack) - 1 /\ Len(stack) = m + 1 /\ m \in 0..Len(stack)
  BY TopFacts
<1>2. ASSUME NEW k \in Nat, NEW n \in Nat
      PROVE  WaitsAt(heap, stack, m, k, n, p) <=> WaitsAt(heap, stack, m + 1, k, n, p)
  <2>1. CASE k = m + 1
    <3>1. stack[k] = Top /\ Top.listed \in Nat
      BY <1>1, <2>1, TopFacts DEF Top
    <3>2. ~(Top.listed < n /\ n <= Len(Top.dirs))
      BY <3>1
    <3>3. k \notin 1..m
      BY <2>1
    <3> QED BY <3>1, <3>2, <3>3 DEF WaitsAt
  <2>2. CASE k # m + 1
    <3>1. k \in 1..m <=> k \in 1..m + 1
      BY <2>2
    <3> QED BY <3>1 DEF WaitsAt
  <2> QED BY <2>1, <2>2
<1>3. Outnumbers(WaitSet(heap, stack, m + 1, p), WaitSet(heap, stack, m, p), 0)
  BY <1>2, SameWait, Zenon
<1>4. Outnumbers(WaitSet(heap, stack, m, p), WaitSet(heap', stack', m, p), 0)
  <2>1. \A k \in 1..m : stack'[k] = stack[k]
    BY <1>1
  <2> QED BY <1>1, <2>1, FramesWait
<1>5. Outnumbers(WaitSet(heap, stack, m + 1, p), WaitSet(heap', stack', m, p), 0)
  BY <1>3, <1>4, OutnumbersStill
<1> QED BY <1>1, <1>5, Zenon DEF WaitsBy

LEMMA NextDirWaits ==
    ASSUME TypeInv, FilesLooked, NextDir, NEW p
    PROVE  /\ p = heap[Top.dirs[Top.listed + 1]].path => WaitsBy(p, -1)
           /\ p # heap[Top.dirs[Top.listed + 1]].path => WaitsBy(p, 0)
<1>1. PICK m \in Nat \ {0} : m = Len(stack)
  BY NextDirIs
<1>2. PICK q : q = heap[Top.dirs[Top.listed + 1]].path
  OBVIOUS
<1>3. /\ pc = "dirs" /\ pc' = "open" /\ heap' = heap /\ Len(stack') = m + 1
      /\ Top.listed \in Nat /\ Top.listed + 1 \in 1..Len(Top.dirs)
      /\ \A i \in 1..m : /\ stack'[i].dirs = stack[i].dirs
                         /\ stack'[i].listed = IF i = m THEN stack[i].listed + 1
                                               ELSE stack[i].listed
  BY <1>1, NextDirIs
<1>4. Level(pc, Len(stack)) = m /\ Level(pc', Len(stack')) = m
  BY <1>1, <1>3 DEF Level
<1>5. PICK z \in Nat : z = Top.listed + 1
  BY <1>3
<1>6. Top = stack[m]
  BY <1>1 DEF Top
<1>7. ASSUME NEW k \in Nat, NEW n \in Nat
      PROVE  WaitsAt(heap', stack', m, k, n, p) <=>
                WaitsAt(heap, stack, m, k, n, p) /\ ~(k = m /\ n = z)
  <2>1. CASE k = m
    <3>1. k \in 1..m /\ Len(stack'[k].dirs) = Len(stack[k].dirs)
          /\ stack'[k].listed = stack[k].listed + 1
      BY <1>3, <2>1
    <3>2. stack[k].listed + 1 < n <=> stack[k].listed < n /\ n # z
      BY <1>3, <1>5, <1>6, <2>1
    <3> QED BY <1>3, <2>1, <3>1, <3>2 DEF WaitsAt
  <2>2. CASE k # m
    BY <1>3, <2>2 DEF WaitsAt
  <2> QED BY <2>1, <2>2
<1>8. CASE p = q
  <2>1. WaitsAt(heap, stack, m, m, z, p)
    <3>1. m \in 1..m /\ Top.listed < z /\ z <= Len(Top.dirs)
      BY <1>3, <1>5
    <3> QED BY <1>2, <1>5, <1>6, <1>8, <3>1 DEF WaitsAt
  <2>2. \A k, n \in Nat : WaitsAt(heap', stack', m, k, n, p) <=>
                             WaitsAt(heap, stack, m, k, n, p) /\ ~(k = m /\ n = z)
    BY <1>7, Zenon
  <2>3. m \in Nat /\ z \in Nat
    BY <1>1, <1>5
  <2>4. Outnumbers(WaitSet(heap, stack, m, p), WaitSet(heap', stack', m, p), -1)
    BY <2>1, <2>2, <2>3, OneLessWaits
  <2> QED BY <1>2, <1>4, <1>8, <2>4, Zenon DEF WaitsBy
<1>9. CASE p # q
  <2>1. ~WaitsAt(heap, stack, m, m, z, p)
    BY <1>2, <1>5, <1>6, <1>9 DEF WaitsAt
  <2>2. \A k, n \in Nat : WaitsAt(heap', stack', m, k, n, p) <=> WaitsAt(heap, stack, m, k, n, p)
    BY <1>7, <2>1, Zenon
  <2>3. Outnumbers(WaitSet(heap, stack, m, p), WaitSet(heap', stack', m, p), 0)
    BY <2>2, SameWait, Zenon
  <2> QED BY <1>2, <1>4, <1>9, <2>3, Zenon DEF WaitsBy
<1> QED BY <1>8, <1>9

LEMMA ReadEndWaits ==
    ASSUME TypeInv, FilesLooked, FrameLists, ReadingInv, ReadEnd, NEW p
    PROVE  /\ p \in SubdirsOf(fs, opts, Here) => WaitsBy(p, 1)
           /\ p \notin SubdirsOf(fs, opts, Here) => WaitsBy(p, 0)
<1>1. /\ pc = "read" /\ Len(stack) >= 2 /\ heap' = heap /\ stack' = stack /\ unread = {}
      /\ pc' = "files" /\ pc # "done"
  BY DEF ReadEnd, CloseStream, TypeInv, PcInv
<1>2. PICK m \in Nat : m = Len(stack) - 1 /\ Len(stack) = m + 1 /\ m + 1 \in Nat
  <2>1. Len(stack) \in Nat \ {0}
    BY <1>1, TopFacts, Zenon
  <2> QED BY <2>1
<1>3. /\ Level(pc, Len(stack)) = m /\ Level(pc', Len(stack')) = m + 1
      /\ LeftAt(pc, unread, heap) = {}
  BY <1>1, <1>2 DEF Level, LeftAt
<1>4. /\ On(heap, Top.dirs) = SubdirsOf(fs, opts, Here) /\ Top.listed = 0
      /\ \A k, n \in 1..Len(Top.dirs) : heap[Top.dirs[k]].path = heap[Top.dirs[n]].path => k = n
      /\ Top.dirs \in Seq(1..Len(heap))
  <2>1. ListsOk(fs, opts, heap, Here, Top.files, Top.dirs, {})
    BY <1>1, <1>3, TopLists
  <2>2. Top.listed = 0
    BY <1>1, ReadingIs DEF Inside
  <2> QED BY <1>1, <2>1, <2>2, AllSeen, TopFacts DEF ListsOk
<1>5. Top = stack[m + 1]
  BY <1>2 DEF Top
<1>6. ASSUME NEW k \in Nat, NEW n \in Nat
      PROVE  WaitsAt(heap', stack', m + 1, k, n, p) <=>
                \/ WaitsAt(heap, stack, m, k, n, p)
                \/ k = m + 1 /\ n \in 1..Len(Top.dirs) /\ heap[Top.dirs[n]].path = p
  <2>1. CASE k = m + 1
    <3>1. k \notin 1..m /\ k \in 1..m + 1 /\ (n \in 1..Len(Top.dirs) <=> 0 < n /\ n <= Len(Top.dirs))
      BY <1>4, <2>1
    <3> QED BY <1>1, <1>4, <1>5, <2>1, <3>1 DEF WaitsAt
  <2>2. CASE k # m + 1
    <3>1. k \in 1..m <=> k \in 1..m + 1
      BY <2>2
    <3> QED BY <1>1, <2>2, <3>1 DEF WaitsAt
  <2> QED BY <2>1, <2>2
<1>7. CASE p \in SubdirsOf(fs, opts, Here)
  <2> p \in On(heap, Top.dirs)
    BY <1>4, <1>7, Zenon
  <2>1. PICK z \in 1..Len(Top.dirs) : heap[Top.dirs[z]].path = p
    BY DEF On
  <2>2. z \in Nat
    BY <1>4, <2>1
  <2>3. \A n \in Nat : n \in 1..Len(Top.dirs) /\ heap[Top.dirs[n]].path = p <=> n = z
    BY <1>4, <2>1, <2>2, Zenon
  <2>4. ~WaitsAt(heap, stack, m, m + 1, z, p)
    BY <1>2 DEF WaitsAt
  <2>5. \A k, n \in Nat : WaitsAt(heap', stack', m + 1, k, n, p) <=>
                             WaitsAt(heap, stack, m, k, n, p) \/ (k = m + 1 /\ n = z)
    BY <1>6, <2>3, Zenon
  <2>6. Outnumbers(WaitSet(heap, stack, m, p), WaitSet(heap', stack', m + 1, p), 1)
    <3>1. PICK j \in Nat : j = m + 1
      BY <1>2
    <3>2. /\ \A k, n \in Nat : WaitsAt(heap', stack', j, k, n, p) <=>
                                 WaitsAt(heap, stack, m, k, n, p) \/ (k = j /\ n = z)
          /\ ~WaitsAt(heap, stack, m, j, z, p)
      BY <2>4, <2>5, <3>1
    <3>3. Outnumbers(WaitSet(heap, stack, m, p), WaitSet(heap', stack', j, p), 1)
      <4>1. j \in Nat
        BY <3>1
      <4> HIDE DEF WaitsAt, WaitSet, Outnumbers
      <4> QED BY <2>2, <3>2, <4>1, OneMoreWaits
    <3> QED BY <3>1, <3>3
  <2> QED BY <1>3, <1>7, <2>6, Zenon DEF WaitsBy
<1>8. CASE p \notin SubdirsOf(fs, opts, Here)
  <2>1. \A n \in 1..Len(Top.dirs) : heap[Top.dirs[n]].path # p
    <3>1. \A n \in 1..Len(Top.dirs) : heap[Top.dirs[n]].path \in On(heap, Top.dirs)
      BY Zenon DEF On
    <3>2. p \notin On(heap, Top.dirs)
      BY <1>4, <1>8, Zenon
    <3> QED BY <3>1, <3>2, Zenon
  <2>2. \A k, n \in Nat :
           WaitsAt(heap', stack', m + 1, k, n, p) <=> WaitsAt(heap, stack, m, k, n, p)
    BY <1>6, <2>1, Zenon
  <2>3. Outnumbers(WaitSet(heap, stack, m, p), WaitSet(heap', stack', m + 1, p), 0)
    <3>1. PICK j \in Nat : j = m + 1
      BY <1>2
    <3>2. \A k, n \in Nat : WaitsAt(heap', stack', j, k, n, p) <=> WaitsAt(heap, stack, m, k, n, p)
      BY <2>2, <3>1
    <3>3. Outnumbers(WaitSet(heap, stack, m, p), WaitSet(heap', stack', j, p), 0)
      BY <3>2, SameWait, Zenon
    <3> QED BY <3>1, <3>3
  <2> QED BY <1>3, <1>8, <2>3, Zenon DEF WaitsBy
<1> QED BY <1>7, <1>8

\* The other steps leave what waits as it is.
LEMMA OthersWait ==
    ASSUME TypeInv, FilesLooked, ReadingInv, Works \/ UNCHANGED vars, ~NextDir, ~ReadEnd,
           CalmOperand \/ CalmIsLinkToDir => stack' = stack /\ Looking' , NEW p
    PROVE  WaitsBy(p, 0)
<1>1. CASE UNCHANGED vars
  <2>1. PICK m : m = Level(pc, Len(stack))
    OBVIOUS
  <2>2. Outnumbers(WaitSet(heap, stack, m, p), WaitSet(heap, stack, m, p), 0)
    <3>1. \A k, n \in Nat : WaitsAt(heap, stack, m, k, n, p) <=> WaitsAt(heap, stack, m, k, n, p)
      BY Zenon
    <3> QED BY <3>1, SameWait, Zenon
  <2> QED BY <1>1, <2>1, <2>2 DEF vars, WaitsBy
<1>2. CASE Works
  <2>1. pc # "done" /\ Len(stack) \in Nat \ {0} /\ Len(stack) \in 0..Len(stack)
        /\ Len(stack) - 1 \in 0..Len(stack)
    <3>1. pc # "done"
      BY <1>2, Zenon DEF Works, CalmOperand, CalmIsLinkToDir, OperandsDone, CalmStatFile, CalmFollowFile, PrintFiles,
                  NextDir, DirsDone, Open, ReadEntry, CalmStatEntry, ReadEnd, Return
    <3>2. Len(stack) \in Nat \ {0}
      BY <3>1, TopFacts
    <3> QED BY <3>1, <3>2
  <2>2. CASE CalmOperand \/ CalmIsLinkToDir
    <3>1. Level(pc, Len(stack)) = Len(stack) /\ Level(pc', Len(stack')) = Len(stack) /\ stack' = stack
      BY <2>2 DEF Level, Looking, CalmOperand, CalmIsLinkToDir
    <3> QED BY <2>1, <3>1, WaitsStay
  <2>3. CASE OperandsDone \/ (PrintFiles /\ Len(stack) = 1)
    <3>1. PICK b, list : \/ stack' = WithTop([Top EXCEPT !.first = b])
                         \/ stack' = WithTop([Top EXCEPT !.files = list])
      BY <2>3 DEF OperandsDone, PrintFiles, InMain
    <3>2. Len(stack) = 1 /\ pc' \in {"files", "dirs"} /\ pc \in {"operand", "files"}
      BY <2>3 DEF OperandsDone, PrintFiles, TypeInv, PcInv, InMain
    <3>3. PICK f : stack' = WithTop(f) /\ f.dirs = Top.dirs /\ f.listed = Top.listed
      <4>1. Top \in Frames(Len(heap))
        BY <2>1, TopFacts
      <4>2. PICK f : f = [Top EXCEPT !.first = b]
        OBVIOUS
      <4>3. PICK g : g = [Top EXCEPT !.files = list]
        OBVIOUS
      <4>4. /\ f.dirs = Top.dirs /\ f.listed = Top.listed
            /\ g.dirs = Top.dirs /\ g.listed = Top.listed
        BY <4>1, <4>2, <4>3 DEF Frames
      <4> QED BY <3>1, <4>2, <4>3, <4>4
    <3>4. Len(stack') = 1 /\ stack'[1] = f /\ Top = stack[1]
      BY <3>2, <3>3, ChangedMain, MainIsTop
    <3>5. Level(pc, Len(stack)) = 1 /\ Level(pc', Len(stack')) = 1 /\ 1 \in 0..Len(stack)
      BY <3>2, <3>4 DEF Level
    <3>6. \A k \in 1..1 : stack'[k].dirs = stack[k].dirs /\ stack'[k].listed = stack[k].listed
      <4>1. \A k \in 1..1 : k = 1
        OBVIOUS
      <4> QED BY <3>3, <3>4, <4>1
    <3> QED BY <3>5, <3>6, WaitsStay
  <2>4. CASE stack' = stack /\ Level(pc', Len(stack)) = Level(pc, Len(stack))
    <3>1. Level(pc, Len(stack)) \in 0..Len(stack)
      BY <2>1 DEF Level
    <3> QED BY <2>4, <3>1, WaitsStay
  <2>5. CASE ReadEntry \/ CalmStatEntry
    <3>1. pc \in {"read", "entry"} /\ pc' \in {"read", "entry"}
      BY <2>5, ReadEntryCases, StatEntryCases
    <3>2. stack' = stack \/ \E f : stack' = WithTop(f)
      BY <2>5, ReadEntryCases, StatEntryCases, Zenon
    <3>3. Len(stack') = Len(stack) /\ \A k \in 1..Len(stack) - 1 : stack'[k] = stack[k]
      BY <2>1, <3>2, TopIs
    <3>4. Level(pc, Len(stack)) = Len(stack) - 1 /\ Level(pc', Len(stack')) = Len(stack) - 1
      BY <3>1, <3>3 DEF Level
    <3> QED BY <2>1, <3>3, <3>4, WaitsStay
  <2>6. CASE stack' = Pop /\ pc' = "dirs" /\ pc \in {"open", "return"}
    <3>1. Len(stack) >= 2
      BY <2>6 DEF TypeInv, PcInv
    <3>2. Len(stack') = Len(stack) - 1 /\ \A k \in 1..Len(stack) - 1 : stack'[k] = stack[k]
      BY <2>1, <2>6, <3>1, PopLists, Zenon
    <3>3. Level(pc', Len(stack')) = Len(stack) - 1
      BY <2>6, <3>2 DEF Level
    <3>4. CASE pc = "open"
      <4>1. Level(pc, Len(stack)) = Len(stack) - 1
        BY <3>4 DEF Level
      <4> QED BY <2>1, <3>2, <3>3, <4>1, WaitsStay
    <3>5. CASE pc = "return"
      <4>1. Level(pc, Len(stack)) = Len(stack) /\ Top.listed = Len(Top.dirs)
        BY <3>5 DEF Level, ReadingInv
      <4> QED BY <2>1, <3>2, <3>3, <4>1, NothingWaits
    <3> QED BY <2>6, <3>4, <3>5
  <2>7. CASE DirsDone /\ Len(stack) = 1
    <3>1. pc = "dirs" /\ Top.listed = Len(Top.dirs) /\ stack' = << >> /\ pc' = "done"
      BY <2>7 DEF DirsDone, InMain
    <3>2. Len(stack') = 0
      BY <3>1
    <3>3. Level(pc, Len(stack)) = Len(stack) /\ Level(pc', Len(stack')) = Len(stack) - 1
      BY <2>7, <3>1, <3>2 DEF Level
    <3>4. \A k \in 1..Len(stack) - 1 : stack'[k] = stack[k]
      BY <2>7
    <3> QED BY <2>1, <3>1, <3>3, <3>4, NothingWaits
  <2>8. CASE CalmStatFile \/ CalmFollowFile \/ (DirsDone /\ Len(stack) # 1)
    BY <2>4, <2>8 DEF CalmStatFile, CalmFollowFile, DirsDone, InMain, Level
  <2>9. CASE PrintFiles /\ Len(stack) # 1
    BY <2>4, <2>9 DEF PrintFiles, InMain, Level
  <2>10. CASE Open \/ Return
    BY <2>4, <2>6, <2>10 DEF Open, Return, Level
  <2> QED BY <1>2, <2>2, <2>3, <2>5, <2>7, <2>8, <2>9, <2>10 DEF Works
<1> QED BY <1>1, <1>2

-----------------------------------------------------------------------------
(* The balance of what a directory is due, what is printed of it, and what is  *)
(* still to come.                                                              *)

\* A directory that nothing has to be told from has no label.
Alone ==
    /\ ~opts.recursive /\ TopFilesOf(fs, opts, operands) = {}
    /\ Cardinality(AskedFor(operands, Len(operands), TopDirsOf(fs, opts, operands))) <= 1

Below(f, o, p) == p \in SubdirsOf(f, o, Front(p))

AskedNow(p) == Cardinality(AskedFor(operands, Sorted, {p} \cap TopDirsOf(fs, opts, operands)))
BelowNow(p) == IF Below(fs, opts, p) THEN Times(out, heap, "label", Front(p)) ELSE 0
WaitsNow(p) == WaitSet(heap, stack, Level(pc, Len(stack)), p)
ReadNow(p) ==
    IF Below(fs, opts, p) /\ pc \in {"open", "read", "entry"} /\ Here = Front(p) THEN 1 ELSE 0
ListedNow(p) == IF Inside /\ Here = p THEN 1 ELSE 0
LabelsNow(p) == Times(out, heap, "label", p)
RowsNow(p) == Times(out, heap, "rows", p)

CountFor(p) ==
    /\ IsFiniteSet(WaitsNow(p))
    /\ Alone => LabelsNow(p) = 0
    /\ ~Alone => LabelsNow(p) + Cardinality(WaitsNow(p)) + ReadNow(p) = AskedNow(p) + BelowNow(p)
    /\ p # << >> /\ KeptOf(fs, opts, p) # {} =>
          RowsNow(p) + ListedNow(p) + Cardinality(WaitsNow(p)) + ReadNow(p)
             = AskedNow(p) + BelowNow(p)

\* How the step changes the counts.
Changes(p, asked, below, waits, read, listed, labels, rows) ==
    /\ AskedNow(p)' = AskedNow(p) + asked
    /\ BelowNow(p)' = BelowNow(p) + below
    /\ WaitsBy(p, waits)
    /\ ReadNow(p)' = ReadNow(p) + read
    /\ ListedNow(p)' = ListedNow(p) + listed
    /\ LabelsNow(p)' = LabelsNow(p) + labels
    /\ RowsNow(p)' = RowsNow(p) + rows

LEMMA CountTypes ==
    ASSUME TypeInv, NEW p
    PROVE  /\ AskedNow(p) \in Nat /\ BelowNow(p) \in Nat /\ ReadNow(p) \in Nat
           /\ ListedNow(p) \in Nat /\ LabelsNow(p) \in Nat /\ RowsNow(p) \in Nat
           /\ IsFiniteSet(WaitsNow(p)) => Cardinality(WaitsNow(p)) \in Nat
<1>1. PICK n \in Int : n = Sorted
  BY DEF TypeInv, Parts, PlainType, Sorted
<1>2. AskedNow(p) \in Nat
  <2>1. IsFiniteSet(1..n)
    BY <1>1, FS_Interval
  <2>2. IsFiniteSet(AskedFor(operands, n, {p} \cap TopDirsOf(fs, opts, operands)))
    BY <2>1, FS_Subset DEF AskedFor
  <2>3. Cardinality(AskedFor(operands, n, {p} \cap TopDirsOf(fs, opts, operands))) \in Nat
    BY <2>2, FS_CardinalityType
  <2> QED BY <1>1, <2>3 DEF AskedNow
<1>3. \A e, q : Times(out, heap, e, q) \in Nat
  BY TimesType DEF TypeInv, Parts, OutType
<1>4. IsFiniteSet(WaitsNow(p)) => Cardinality(WaitsNow(p)) \in Nat
  BY FS_CardinalityType
<1> QED BY <1>2, <1>3, <1>4 DEF BelowNow, ReadNow, ListedNow, LabelsNow, RowsNow

LEMMA SumOfSums ==
    ASSUME NEW x \in Int, NEW y \in Int, NEW a \in Int, NEW b \in Int
    PROVE  (x + a) + (y + b) = (x + y) + (a + b) /\ x + y \in Int
OBVIOUS

LEMMA CountStep ==
    ASSUME TypeInv, TypeInv', Steady, NEW p, CountFor(p),
           NEW asked \in Int, NEW below \in Int, NEW waits \in Int, NEW read \in Int,
           NEW listed \in Int, NEW labels \in Int, NEW rows \in Int,
           Changes(p, asked, below, waits, read, listed, labels, rows),
           Alone => labels = 0,
           ~Alone => labels + waits + read = asked + below,
           p # << >> /\ KeptOf(fs, opts, p) # {} => rows + listed + waits + read = asked + below
    PROVE  CountFor(p)'
<1>1. Alone' <=> Alone
  BY DEF Alone, Steady
<1>2. KeptOf(fs', opts', p) = KeptOf(fs, opts, p)
  BY Zenon DEF Steady
<1>3. IsFiniteSet(WaitsNow(p)')
      /\ Cardinality(WaitsNow(p)') = Cardinality(WaitsNow(p)) + waits
  BY DEF CountFor, Changes, WaitsBy, Outnumbers, WaitsNow
<1>4. /\ AskedNow(p) \in Nat /\ BelowNow(p) \in Nat /\ ReadNow(p) \in Nat
      /\ ListedNow(p) \in Nat /\ LabelsNow(p) \in Nat /\ RowsNow(p) \in Nat
      /\ Cardinality(WaitsNow(p)) \in Nat
  BY CountTypes DEF CountFor
<1> HIDE DEF Alone, KeptOf, AskedNow, BelowNow, ReadNow, ListedNow, LabelsNow, RowsNow, WaitsNow
<1>5. PICK w2 : w2 = Cardinality(WaitsNow(p)')
  OBVIOUS
<1>6. ~Alone => LabelsNow(p)' + w2 + ReadNow(p)' = AskedNow(p)' + BelowNow(p)'
  <2>1. PICK A \in Int, B \in Int, W \in Int, C \in Int, L \in Int :
           A = AskedNow(p) /\ B = BelowNow(p) /\ W = Cardinality(WaitsNow(p))
           /\ C = ReadNow(p) /\ L = LabelsNow(p)
    BY <1>4
  <2>2. PICK A2, B2, C2, L2 :
           A2 = AskedNow(p)' /\ B2 = BelowNow(p)' /\ C2 = ReadNow(p)' /\ L2 = LabelsNow(p)'
    OBVIOUS
  <2>3. A2 = A + asked /\ B2 = B + below /\ C2 = C + read /\ L2 = L + labels /\ w2 = W + waits
    BY <1>3, <1>5, <2>1, <2>2, Zenon DEF Changes
  <2>4. ~Alone => L + W + C = A + B
    BY <2>1, Zenon DEF CountFor
  <2>5. ~Alone => L2 + w2 + C2 = A2 + B2
    BY <2>3, <2>4
  <2> QED BY <2>2, <2>5, Zenon
<1>7. p # << >> /\ KeptOf(fs, opts, p) # {} =>
         RowsNow(p)' + ListedNow(p)' + w2 + ReadNow(p)' = AskedNow(p)' + BelowNow(p)'
  <2> PICK I \in Int : I = ListedNow(p)
    BY <1>4
  <2>1. PICK A \in Int, B \in Int, W \in Int, C \in Int, R \in Int :
           A = AskedNow(p) /\ B = BelowNow(p) /\ W = Cardinality(WaitsNow(p))
           /\ C = ReadNow(p) /\ R = RowsNow(p)
    BY <1>4
  <2>2. PICK A2, B2, C2, R2, I2 :
           A2 = AskedNow(p)' /\ B2 = BelowNow(p)' /\ C2 = ReadNow(p)' /\ R2 = RowsNow(p)'
           /\ I2 = ListedNow(p)'
    OBVIOUS
  <2>3. A2 = A + asked /\ B2 = B + below /\ C2 = C + read /\ R2 = R + rows /\ w2 = W + waits
        /\ I2 = I + listed
    BY <1>3, <1>5, <2>1, <2>2, Zenon DEF Changes
  <2>4. p # << >> /\ KeptOf(fs, opts, p) # {} => R + I + W + C = A + B
    BY <2>1, Zenon DEF CountFor
  <2>5. p # << >> /\ KeptOf(fs, opts, p) # {} => R2 + I2 + w2 + C2 = A2 + B2
    <3>1. ASSUME R + I + W + C = A + B, rows + listed + waits + read = asked + below
          PROVE  R2 + I2 + w2 + C2 = A2 + B2
      <4>1. (R + rows) + (I + listed) + (W + waits) + (C + read) = (A + asked) + (B + below)
        <5>1. /\ (R + rows) + (I + listed) = (R + I) + (rows + listed)
              /\ (W + waits) + (C + read) = (W + C) + (waits + read)
              /\ (A + asked) + (B + below) = (A + B) + (asked + below)
          BY SumOfSums
        <5>2. PICK x \in Int, a \in Int : x = R + I /\ a = rows + listed
          OBVIOUS
        <5>3. PICK y \in Int, b \in Int : y = W + C /\ b = waits + read
          OBVIOUS
        <5>4. PICK z \in Int, c \in Int : z = A + B /\ c = asked + below
          OBVIOUS
        <5>5. x + y = z
          BY <3>1, <5>2, <5>3, <5>4
        <5>6. a + b = c
          BY <3>1, <5>2, <5>3, <5>4
        <5>7. (x + a) + (y + b) = z + c
          BY <5>5, <5>6
        <5>8. (R + rows) + (I + listed) = x + a /\ (W + waits) + (C + read) = y + b
              /\ (A + asked) + (B + below) = z + c
          BY <5>1, <5>2, <5>3, <5>4, Zenon
        <5>9. (R + rows) + (I + listed) + (W + waits) + (C + read)
                 = ((R + rows) + (I + listed)) + ((W + waits) + (C + read))
          OBVIOUS
        <5> QED BY <5>7, <5>8, <5>9, Zenon
      <4> QED BY <2>3, <4>1, Zenon
    <3> QED BY <2>4, <3>1, Zenon
  <2> QED BY <2>2, <2>5, Zenon
<1>8. Alone => LabelsNow(p)' = 0
  BY <1>4 DEF CountFor, Changes
<1>9. CountFor(p)' <=>
         /\ IsFiniteSet(WaitsNow(p)')
         /\ Alone' => LabelsNow(p)' = 0
         /\ ~Alone' => LabelsNow(p)' + Cardinality(WaitsNow(p)') + ReadNow(p)'
                          = AskedNow(p)' + BelowNow(p)'
         /\ p # << >> /\ KeptOf(fs', opts', p) # {} =>
               RowsNow(p)' + ListedNow(p)' + Cardinality(WaitsNow(p)') + ReadNow(p)'
                  = AskedNow(p)' + BelowNow(p)'
  BY Zenon DEF CountFor
<1> QED BY <1>1, <1>2, <1>3, <1>5, <1>6, <1>7, <1>8, <1>9, Zenon

LEMMA EntryHere ==
    ASSUME TypeInv, FilesLooked, ReadEntry \/ CalmStatEntry
    PROVE  /\ Here' = Here /\ Len(stack') = Len(stack) /\ Len(stack) >= 2
           /\ pc \in {"read", "entry"} /\ pc' \in {"read", "entry"}
           /\ \A k \in 1..Len(stack) - 1 : stack'[k] = stack[k]
<1>1. pc \in {"read", "entry"} /\ pc' \in {"read", "entry"} /\ Len(stack) >= 2
  BY ReadEntryCases, StatEntryCases DEF TypeInv, PcInv
<1>2. pc # "done" /\ heap'[Top.dir].path = Here
  BY <1>1, HereIs
<1>3. stack' = stack \/ \E g : stack' = WithTop(g) /\ g.dir = Top.dir
  <2>1. CASE ReadEntry
    <3>1. PICK g : g = [Top EXCEPT !.files = Append(Top.files, Len(heap) + 1)]
      OBVIOUS
    <3>2. g.dir = Top.dir
      BY <1>2, <3>1, TopFacts DEF Frames
    <3>3. stack' = stack \/ stack' = WithTop(g)
      BY <2>1, <3>1, ReadEntryCases
    <3> QED BY <3>2, <3>3
  <2>2. CASE CalmStatEntry
    BY <2>2, StatEntryCases, Zenon
  <2> QED BY <2>1, <2>2
<1>4. CASE stack' = stack
  BY <1>1, <1>2, <1>4 DEF Here, Top
<1>5. ASSUME NEW g, stack' = WithTop(g), g.dir = Top.dir
      PROVE  /\ Here' = Here /\ Len(stack') = Len(stack)
             /\ \A k \in 1..Len(stack) - 1 : stack'[k] = stack[k]
  <2>1. /\ Len(stack') = Len(stack) /\ stack'[Len(stack)] = g
        /\ \A k \in 1..Len(stack) - 1 : stack'[k] = stack[k]
    BY <1>2, <1>5, TopIs
  <2>2. Top'.dir = Top.dir
    BY <1>5, <2>1 DEF Top
  <2> QED BY <1>2, <2>1, <2>2, Zenon DEF Here
<1> QED BY <1>1, <1>3, <1>4, <1>5

\* Where the program is in the directories.
LEMMA PlaceStays ==
    ASSUME TypeInv, FilesLooked, Steady, Works \/ UNCHANGED vars,
           ~NextDir, ~ReadEnd, ~PrintFiles, Open => pc' # "dirs", NEW p
    PROVE  ReadNow(p)' = ReadNow(p) /\ ListedNow(p)' = ListedNow(p)
<1> HIDE DEF Here
<1>1. (Below(fs, opts, p))' <=> Below(fs, opts, p)
  BY Zenon DEF Steady, Below
<1>2. CASE CalmOperand \/ CalmIsLinkToDir \/ OperandsDone
  <2>1. Len(stack) = 1 /\ pc # "done" /\ pc' \in {"operand", "islinktodir", "files"}
        /\ pc \in {"operand", "islinktodir"}
    BY <1>2 DEF CalmOperand, CalmIsLinkToDir, OperandsDone, TypeInv, PcInv
  <2>2. stack' = stack \/ \E f : stack' = WithTop(f)
    BY <1>2 DEF CalmOperand, CalmIsLinkToDir, OperandsDone
  <2>3. Len(stack') = 1
    BY <2>1, <2>2, TopIs
  <2> QED BY <2>1, <2>3 DEF ReadNow, ListedNow, Inside
<1>3. CASE CalmStatFile \/ CalmFollowFile
  <2>1. pc = "files" /\ pc' = "files" /\ stack' = stack
    BY <1>3 DEF CalmStatFile, CalmFollowFile
  <2>2. Len(stack) >= 2 => Here' = Here
    BY <2>1, HereIs DEF Here, Top
  <2> QED BY <2>1, <2>2 DEF ReadNow, ListedNow, Inside
<1>4. CASE DirsDone \/ Return \/ (Open /\ pc' = "dirs")
  <2>1. pc \in {"dirs", "return"} /\ pc' \in {"dirs", "return", "done"}
    BY <1>4 DEF DirsDone, Return
  <2> QED BY <2>1 DEF ReadNow, ListedNow, Inside
<1>5. CASE ReadEntry \/ CalmStatEntry
  BY <1>1, <1>5, EntryHere DEF ReadNow, ListedNow, Inside
<1>6. CASE Open /\ pc' # "dirs"
  <2>1. /\ pc = "open" /\ pc' = "read" /\ stack' = stack /\ heap' = heap
    BY <1>6 DEF Open
  <2>2. Here' = Here
    BY <2>1 DEF Here, Top
  <2> QED BY <1>1, <2>1, <2>2 DEF ReadNow, ListedNow, Inside
<1>7. CASE UNCHANGED vars
  BY <1>7 DEF vars, ReadNow, ListedNow, Inside, Here, Top, Below
<1> QED BY <1>2, <1>3, <1>4, <1>5, <1>6, <1>7 DEF Works

LEMMA BelowAdds ==
    ASSUME TypeInv, NEW p, NEW b \in Int, Steady,
           Below(fs, opts, p) => Adds(out, heap, out', heap', "label", Front(p), b)
    PROVE  BelowNow(p)' = BelowNow(p) + (IF Below(fs, opts, p) THEN b ELSE 0)
<1>1. (Below(fs, opts, p))' <=> Below(fs, opts, p)
  BY Zenon DEF Steady, Below
<1> QED BY <1>1 DEF Adds, BelowNow

LEMMA SortedStays ==
    ASSUME TypeInv, Steady, Works \/ UNCHANGED vars,
           CalmOperand \/ CalmIsLinkToDir => Sorted' = Sorted, NEW p
    PROVE  AskedNow(p)' = AskedNow(p)
<1>1. Sorted' = Sorted
  <2>1. CASE CalmOperand \/ CalmIsLinkToDir
    BY <2>1
  <2>2. CASE UNCHANGED vars
    BY <2>2 DEF vars, Sorted
  <2>3. CASE Works /\ ~CalmOperand /\ ~CalmIsLinkToDir
    <3>1. looked' = looked /\ pc # "islinktodir" /\ pc' # "islinktodir"
      BY <2>3, Zenon DEF Works, OperandsDone, CalmStatFile, CalmFollowFile, PrintFiles, NextDir, DirsDone,
                  Open, ReadEntry, CalmStatEntry, ReadEnd, CloseStream, Return
    <3> QED BY <3>1, Zenon DEF Sorted
  <2> QED BY <2>1, <2>2, <2>3
<1> QED BY <1>1, Zenon DEF AskedNow, Steady

LEMMA NothingPrinted ==
    ASSUME TypeInv, FilesLooked, Steady, Works \/ UNCHANGED vars, ~NextDir, NEW p
    PROVE  /\ BelowNow(p)' = BelowNow(p) /\ LabelsNow(p)' = LabelsNow(p)
           /\ ~PrintFiles => RowsNow(p)' = RowsNow(p)
<1>1. PICK zero \in Int : zero = 0
  OBVIOUS
<1>2. "label" \in {"label", "rows"} /\ "rows" \in {"label", "rows"} /\ "rows" # "label"
  OBVIOUS
<1>3. \A q : Adds(out, heap, out', heap', "label", q, zero)
  BY <1>1, <1>2, NothingAdded
<1>4. ~PrintFiles => Adds(out, heap, out', heap', "rows", p, zero)
  BY <1>1, <1>2, NothingAdded
<1>5. BelowNow(p)' = BelowNow(p) + (IF Below(fs, opts, p) THEN zero ELSE 0)
  BY <1>3, BelowAdds
<1>6. LabelsNow(p)' = LabelsNow(p) + zero
  BY <1>3 DEF Adds, LabelsNow
<1>7. ~PrintFiles => RowsNow(p)' = RowsNow(p) + zero
  BY <1>4 DEF Adds, RowsNow
<1>8. BelowNow(p) \in Nat /\ LabelsNow(p) \in Nat /\ RowsNow(p) \in Nat
  BY CountTypes
<1> QED BY <1>1, <1>5, <1>6, <1>7, <1>8

LEMMA CountStays ==
    ASSUME TypeInv, TypeInv', FilesLooked, ReadingInv, Steady, Works \/ UNCHANGED vars,
           ~NextDir, ~ReadEnd, ~PrintFiles, Open => pc' # "dirs",
           CalmOperand \/ CalmIsLinkToDir => stack' = stack /\ Looking' /\ Sorted' = Sorted,
           NEW p, CountFor(p)
    PROVE  CountFor(p)'
<1>1. AskedNow(p)' = AskedNow(p)
  BY SortedStays
<1>2. BelowNow(p)' = BelowNow(p) /\ LabelsNow(p)' = LabelsNow(p) /\ RowsNow(p)' = RowsNow(p)
  BY NothingPrinted
<1>3. ReadNow(p)' = ReadNow(p) /\ ListedNow(p)' = ListedNow(p)
  BY PlaceStays
<1>4. WaitsBy(p, 0)
  BY OthersWait
<1>5. Changes(p, 0, 0, 0, 0, 0, 0, 0)
  BY <1>1, <1>2, <1>3, <1>4, CountTypes DEF Changes
<1> QED BY <1>5, CountStep

LEMMA CountSorted ==
    ASSUME TypeInv, TypeInv', FilesLooked, Steady, CalmOperand \/ CalmIsLinkToDir,
           NEW id, SortsOne(id), NEW p, CountFor(p)
    PROVE  CountFor(p)'
<1>1. Looking /\ Looking' /\ Len(stack) = 1
  BY DEF CalmOperand, CalmIsLinkToDir, Looking, TypeInv, PcInv
<1>2. /\ ~NextDir /\ ~ReadEnd /\ ~PrintFiles /\ ~Open /\ (Works \/ UNCHANGED vars)
  BY <1>1 DEF Looking, NextDir, ReadEnd, PrintFiles, Open, Works
<1>3. BelowNow(p)' = BelowNow(p) /\ LabelsNow(p)' = LabelsNow(p) /\ RowsNow(p)' = RowsNow(p)
  BY <1>2, NothingPrinted
<1>4. ReadNow(p)' = ReadNow(p) /\ ListedNow(p)' = ListedNow(p)
  BY <1>2, PlaceStays
<1>5. PICK n \in Nat : n = Sorted
  <2>1. PICK n \in Int : n = Sorted
    BY DEF TypeInv, Parts, PlainType, Sorted
  <2>2. n + 1 \in 1..Len(operands)
    BY <2>1 DEF SortsOne
  <2> QED BY <2>1, <2>2
<1>6. PICK D : D = TopDirsOf(fs, opts, operands)
  OBVIOUS
<1>7. PICK S : S = {p} \cap D
  OBVIOUS
<1>8. PICK q : q = operands[n + 1]
  OBVIOUS
<1>9. Sorted' = n + 1
  BY <1>5 DEF SortsOne
<1>10. /\ AskedNow(p) = Cardinality(AskedFor(operands, n, S))
       /\ AskedNow(p)' = Cardinality(AskedFor(operands, n + 1, S))
  BY <1>5, <1>6, <1>7, <1>9, Zenon DEF AskedNow, Steady
<1>11. /\ Cardinality(AskedFor(operands, n, S)) \in Nat
       /\ q \in S => Cardinality(AskedFor(operands, n + 1, S)) = Cardinality(AskedFor(operands, n, S)) + 1
       /\ q \notin S => AskedFor(operands, n + 1, S) = AskedFor(operands, n, S)
  BY <1>8, SortedMore, Zenon
<1>12. q \in S <=> p = q /\ p \in D
  BY <1>7
<1>13. CASE q \in S
  <2>1. AskedNow(p)' = AskedNow(p) + 1
    BY <1>10, <1>11, <1>13
  <2>2. WaitsBy(p, 1)
    BY <1>1, <1>5, <1>6, <1>8, <1>12, <1>13, SortingWaits
  <2>3. Changes(p, 1, 0, 1, 0, 0, 0, 0)
    BY <1>3, <1>4, <2>1, <2>2, CountTypes DEF Changes
  <2> QED BY <2>3, CountStep
<1>14. CASE q \notin S
  <2>1. AskedNow(p)' = AskedNow(p)
    BY <1>10, <1>11, <1>14
  <2>2. WaitsBy(p, 0)
    BY <1>1, <1>5, <1>6, <1>8, <1>12, <1>14, SortingWaits
  <2>3. Changes(p, 0, 0, 0, 0, 0, 0, 0)
    BY <1>3, <1>4, <2>1, <2>2, CountTypes DEF Changes
  <2> QED BY <2>3, CountStep
<1> QED BY <1>13, <1>14

LEMMA CountUnopened ==
    ASSUME TypeInv, TypeInv', FilesLooked, ReadingInv, Steady, Open, pc' = "dirs",
           NEW p, CountFor(p)
    PROVE  CountFor(p)'
<1>1. /\ pc = "open" /\ Len(stack) >= 2 /\ ~NextDir /\ ~ReadEnd /\ ~PrintFiles
      /\ ~CalmOperand /\ ~CalmIsLinkToDir /\ (Works \/ UNCHANGED vars)
  BY DEF Open, TypeInv, PcInv, NextDir, ReadEnd, PrintFiles, CalmOperand, CalmIsLinkToDir, Works
<1>2. AskedNow(p)' = AskedNow(p)
  BY <1>1, SortedStays
<1>3. BelowNow(p)' = BelowNow(p) /\ LabelsNow(p)' = LabelsNow(p) /\ RowsNow(p)' = RowsNow(p)
  BY <1>1, NothingPrinted
<1>4. WaitsBy(p, 0)
  BY <1>1, OthersWait
<1>5. NodeIn(fs, Here) = NoNode
  <2>1. NodeAt(Here) = NodeIn(fs, Here)
    BY EntriesAreIn, Zenon
  <2>2. NodeAt(Here) = NoNode
    BY DEF Open, Here
  <2> QED BY <2>1, <2>2
<1>6. VisibleOf(fs, opts, Here) = {}
  BY <1>5, Zenon DEF VisibleOf
<1>7. KeptOf(fs, opts, Here) = {} /\ SubdirsOf(fs, opts, Here) = {}
  BY <1>6 DEF KeptOf, SubdirsOf
<1>8. ReadNow(p) = 0
  BY <1>7, Zenon DEF ReadNow, Below
<1>9. ReadNow(p)' = 0 /\ ListedNow(p)' = 0
  BY DEF ReadNow, ListedNow, Inside
<1>10. KeptOf(fs, opts, p) # {} => ListedNow(p) = 0
  BY <1>7, Zenon DEF ListedNow
<1>11. PICK i \in Int : i = -ListedNow(p) /\ ListedNow(p) \in Nat
  BY CountTypes
<1>12. Changes(p, 0, 0, 0, 0, i, 0, 0)
  BY <1>2, <1>3, <1>4, <1>8, <1>9, <1>11, CountTypes DEF Changes
<1>13. p # << >> /\ KeptOf(fs, opts, p) # {} => 0 + i + 0 + 0 = 0 + 0
  BY <1>10, <1>11
<1> QED BY <1>12, <1>13, CountStep

LEMMA BelowHere ==
    ASSUME NEW f, NEW o, NEW path \in Seq(AnyName), NEW p
    PROVE  p \in SubdirsOf(f, o, path) <=> Below(f, o, p) /\ path = Front(p)
<1>1. SubdirsOf(f, o, path) \subseteq VisibleOf(f, o, path)
  BY DEF SubdirsOf
<1>2. p \in SubdirsOf(f, o, path) => Front(p) = path
  BY <1>1, VisibleFacts
<1> HIDE DEF SubdirsOf
<1> QED BY <1>2, Zenon DEF Below

LEMMA CountRead ==
    ASSUME TypeInv, TypeInv', FilesLooked, FrameLists, ReadingInv, Steady, ReadEnd,
           NEW p, CountFor(p)
    PROVE  CountFor(p)'
<1>1. /\ pc = "read" /\ Len(stack) >= 2 /\ ~NextDir /\ ~PrintFiles /\ pc' = "files"
      /\ ~CalmOperand /\ ~CalmIsLinkToDir /\ (Works \/ UNCHANGED vars) /\ stack' = stack /\ heap' = heap
  BY DEF ReadEnd, CloseStream, TypeInv, PcInv, NextDir, PrintFiles, CalmOperand, CalmIsLinkToDir, Works
<1>2. AskedNow(p)' = AskedNow(p)
  BY <1>1, SortedStays
<1>3. BelowNow(p)' = BelowNow(p) /\ LabelsNow(p)' = LabelsNow(p) /\ RowsNow(p)' = RowsNow(p)
  BY <1>1, NothingPrinted
<1>4. Here' = Here /\ Here \in Seq(AnyName)
  BY <1>1, HereIs DEF Here, Top
<1>5. ListedNow(p)' = ListedNow(p)
  BY <1>1, <1>4 DEF ListedNow, Inside
<1>6. ReadNow(p) = (IF p \in SubdirsOf(fs, opts, Here) THEN 1 ELSE 0) /\ ReadNow(p)' = 0
  BY <1>1, <1>4, BelowHere, Zenon DEF ReadNow
<1>7. CASE p \in SubdirsOf(fs, opts, Here)
  <2>1. WaitsBy(p, 1)
    BY <1>7, ReadEndWaits
  <2>2. Changes(p, 0, 0, 1, -1, 0, 0, 0)
    BY <1>2, <1>3, <1>5, <1>6, <1>7, <2>1, CountTypes DEF Changes
  <2> QED BY <2>2, CountStep
<1>8. CASE p \notin SubdirsOf(fs, opts, Here)
  <2>1. WaitsBy(p, 0)
    BY <1>8, ReadEndWaits
  <2>2. Changes(p, 0, 0, 0, 0, 0, 0, 0)
    BY <1>2, <1>3, <1>5, <1>6, <1>8, <2>1, CountTypes DEF Changes
  <2> QED BY <2>2, CountStep
<1> QED BY <1>7, <1>8

\* What there is to tell a directory from.
LEMMA LabelUnlessAlone ==
    ASSUME TypeInv, SectionInv, MainLists, NextDir
    PROVE  NeedLabel <=> ~Alone
<1>1. pc = "dirs" /\ pc # "done" /\ Len(stack) \in Nat \ {0} /\ ~Looking
  BY NextDirIs DEF Looking
<1>2. CASE Len(stack) >= 2
  BY <1>1, <1>2 DEF SectionInv, NestedInv, NeedLabel, Alone
<1>3. CASE Len(stack) = 1
  <2>1. Top = stack[1] /\ stack # << >>
    BY <1>3, MainIsTop
  <2>2. Sorted = Len(operands)
    BY <1>1 DEF MainLists, Sorted, Looking
  <2>3. /\ Len(Top.dirs) =
                Cardinality(AskedFor(operands, Len(operands), TopDirsOf(fs, opts, operands)))
        /\ Top.first <=> TopFilesOf(fs, opts, operands) = {}
    BY <1>1, <2>1, <2>2, Zenon DEF MainLists
  <2>4. Len(Top.dirs) \in Nat
    BY <1>1, TopFacts
  <2> HIDE DEF AskedFor, TopFilesOf, TopDirsOf
  <2> QED BY <2>3, <2>4 DEF NeedLabel, Alone
<1> QED BY <1>1, <1>2, <1>3, OneOrMore, Zenon

LEMMA CountListed ==
    ASSUME TypeInv, TypeInv', FilesLooked, SectionInv, MainLists, Steady, NextDir,
           NEW p, CountFor(p)
    PROVE  CountFor(p)'
<1>1. PICK q : q = heap[Top.dirs[Top.listed + 1]].path
  OBVIOUS
<1>2. /\ pc = "dirs" /\ pc' = "open" /\ ~PrintFiles /\ Len(stack') >= 2 /\ Here' = q
      /\ ~CalmOperand /\ ~CalmIsLinkToDir /\ (Works \/ UNCHANGED vars)
  BY <1>1, NextDirIs DEF Here, PrintFiles, CalmOperand, CalmIsLinkToDir, Works
<1>3. AskedNow(p)' = AskedNow(p)
  BY <1>2, SortedStays
<1>4. RowsNow(p)' = RowsNow(p)
  <2>1. "rows" \in {"label", "rows"} /\ "rows" # "label"
    OBVIOUS
  <2>2. Adds(out, heap, out', heap', "rows", p, 0)
    BY <1>2, <2>1, NothingAdded, Zenon
  <2> QED BY <2>2, CountTypes DEF Adds, RowsNow
<1>5. NeedLabel <=> ~Alone
  BY LabelUnlessAlone
<1>6. Below(fs, opts, p) => NeedLabel
  BY DEF Below, SubdirsOf, NeedLabel
<1>7. PICK b \in Int : b = IF q = Front(p) THEN 1 ELSE 0
  OBVIOUS
<1>8. PICK read \in Int : read = IF Below(fs, opts, p) THEN b ELSE 0
  BY <1>7
<1>9. BelowNow(p)' = BelowNow(p) + read
  <2>1. ASSUME Below(fs, opts, p) PROVE Adds(out, heap, out', heap', "label", Front(p), b)
    <3>1. CASE q = Front(p)
      BY <1>1, <1>6, <1>7, <2>1, <3>1, LabelsAdded
    <3>2. CASE q # Front(p)
      BY <1>1, <1>7, <3>2, LabelsAdded
    <3> QED BY <3>1, <3>2
  <2> QED BY <1>7, <1>8, <2>1, BelowAdds
<1>10. ReadNow(p) = 0 /\ ReadNow(p)' = read
  <2>1. Below(fs', opts', p) <=> Below(fs, opts, p)
    BY Zenon DEF Steady
  <2> QED BY <1>2, <1>7, <1>8, <2>1 DEF ReadNow
<1>11. ListedNow(p) = 0 /\ ListedNow(p)' = IF q = p THEN 1 ELSE 0
  BY <1>2 DEF ListedNow, Inside
<1>12. PICK labels \in Int : labels = IF NeedLabel /\ q = p THEN 1 ELSE 0
  OBVIOUS
<1>13. LabelsNow(p)' = LabelsNow(p) + labels
  <2>1. Adds(out, heap, out', heap', "label", p, labels)
    BY <1>1, <1>12, LabelsAdded
  <2> QED BY <2>1 DEF Adds, LabelsNow
<1>14. CASE q = p
  <2>1. WaitsBy(p, -1)
    BY <1>1, <1>14, NextDirWaits
  <2>2. Changes(p, 0, read, -1, read, 1, labels, 0)
    BY <1>3, <1>4, <1>9, <1>10, <1>11, <1>13, <1>14, <2>1, CountTypes DEF Changes
  <2>3. Alone => labels = 0
    BY <1>5, <1>12
  <2>4. ~Alone => labels + (-1) + read = 0 + read
    BY <1>5, <1>12, <1>14
  <2>5. 0 + 1 + (-1) + read = 0 + read
    OBVIOUS
  <2> QED BY <2>2, <2>3, <2>4, <2>5, CountStep
<1>15. CASE q # p
  <2>1. WaitsBy(p, 0)
    BY <1>1, <1>15, NextDirWaits
  <2>2. Changes(p, 0, read, 0, read, 0, 0, 0)
    BY <1>3, <1>4, <1>9, <1>10, <1>11, <1>12, <1>13, <1>15, <2>1, CountTypes DEF Changes
  <2> QED BY <2>2, CountStep
<1> QED BY <1>14, <1>15

LEMMA CountPrinted ==
    ASSUME TypeInv, TypeInv', FilesLooked, FrameLists, MainLists, ReadingInv, Steady, PrintFiles,
           NEW p, CountFor(p)
    PROVE  CountFor(p)'
<1>1. /\ pc = "files" /\ pc # "done" /\ ~NextDir /\ ~ReadEnd /\ ~CalmOperand /\ ~CalmIsLinkToDir
      /\ (Works \/ UNCHANGED vars) /\ pc' \in {"dirs", "return"}
      /\ Len(stack) \in Nat \ {0}
  BY TopFacts DEF PrintFiles, NextDir, ReadEnd, CalmOperand, CalmIsLinkToDir, Works
<1>2. AskedNow(p)' = AskedNow(p)
  BY <1>1, SortedStays
<1>3. BelowNow(p)' = BelowNow(p) /\ LabelsNow(p)' = LabelsNow(p)
  BY <1>1, NothingPrinted
<1>4. WaitsBy(p, 0)
  BY <1>1, OthersWait
<1>5. ReadNow(p) = 0 /\ ReadNow(p)' = 0 /\ ListedNow(p)' = 0
  BY <1>1 DEF ReadNow, ListedNow, Inside
<1>6. PICK q : q = IF Top.dir = 0 THEN << >> ELSE Here
  OBVIOUS
<1>7. /\ Top.files # << >> /\ q = p => Adds(out, heap, out', heap', "rows", p, 1)
      /\ ~(Top.files # << >> /\ q = p) => Adds(out, heap, out', heap', "rows", p, 0)
  BY <1>6, RowsAdded DEF Here
<1>8. PICK rows \in Int : rows = IF Top.files # << >> /\ q = p THEN 1 ELSE 0
  OBVIOUS
<1>9. RowsNow(p)' = RowsNow(p) + rows
  BY <1>7, <1>8 DEF Adds, RowsNow
<1>10. PICK i \in Int : i = -ListedNow(p) /\ ListedNow(p) \in Nat
  BY CountTypes
<1>11. Changes(p, 0, 0, 0, 0, i, 0, rows)
  BY <1>2, <1>3, <1>4, <1>5, <1>9, <1>10, CountTypes DEF Changes
<1>12. p # << >> /\ KeptOf(fs, opts, p) # {} => rows + i + 0 + 0 = 0 + 0
  <2>1. CASE Len(stack) = 1
    <3>1. q = << >> /\ ListedNow(p) = 0
      BY <1>6, <2>1, ListedHere DEF ListedNow, Inside
    <3> QED BY <1>8, <1>10, <3>1
  <2>2. CASE Len(stack) # 1
    <3>1. Len(stack) >= 2
      BY <1>1, <2>2, OneOrMore, Zenon
    <3>2. Top.dir # 0 /\ q = Here
      BY <1>6, <2>2, ListedHere
    <3>3. Top.files = << >> <=> KeptOf(fs, opts, Here) = {}
      BY <3>2, ListedHere DEF ListedAt, Here
    <3>4. ListedNow(p) = IF q = p THEN 1 ELSE 0
      BY <1>1, <3>1, <3>2 DEF ListedNow, Inside
    <3> QED BY <1>8, <1>10, <3>2, <3>3, <3>4
  <2> QED BY <2>1, <2>2
<1> QED BY <1>11, <1>12, CountStep

LEMMA CountForStep ==
    ASSUME TypeInv, TypeInv', FilesLooked, SectionInv, LinkInv, MainLists, FrameLists, ReadingInv,
           Steady, Works \/ UNCHANGED vars, NEW p, CountFor(p)
    PROVE  CountFor(p)'
<1>1. CASE CalmOperand \/ CalmIsLinkToDir
  <2>1. Looking'
    BY <1>1 DEF CalmOperand, CalmIsLinkToDir, Looking
  <2>2. ~NextDir /\ ~ReadEnd /\ ~PrintFiles /\ ~Open
    BY <1>1 DEF CalmOperand, CalmIsLinkToDir, NextDir, ReadEnd, PrintFiles, Open
  <2>3. SortsOne(Len(heap')) \/ (Sorted' = Sorted /\ stack' = stack)
    BY <1>1, OperandSorts, LinkSorts
  <2>4. ASSUME SortsOne(Len(heap')) PROVE CountFor(p)'
    BY <1>1, <2>4, CountSorted
  <2>5. ASSUME Sorted' = Sorted, stack' = stack PROVE CountFor(p)'
    BY <1>1, <2>1, <2>2, <2>5, CountStays
  <2> QED BY <2>3, <2>4, <2>5
<1>2. CASE NextDir
  BY <1>2, CountListed
<1>3. CASE ReadEnd
  BY <1>3, CountRead
<1>4. CASE PrintFiles
  BY <1>4, CountPrinted
<1>5. CASE Open /\ pc' = "dirs"
  BY <1>5, CountUnopened
<1>6. CASE ~CalmOperand /\ ~CalmIsLinkToDir /\ ~NextDir /\ ~ReadEnd /\ ~PrintFiles /\ ~(Open /\ pc' = "dirs")
  BY <1>6, CountStays
<1> QED BY <1>1, <1>2, <1>3, <1>4, <1>5, <1>6

-----------------------------------------------------------------------------
(* The exit status.                                                            *)

TargetBad(f, o, p) ==
    o.targetinfo /\ LstatIn(f, p) = "link" /\ TargetIn(f, p) \in {"failed", "null"}

\* What is wrong with what is listed: with the operands and the directories S.
Bad(f, o, q, S) ==
    \/ \E p \in ToSet(q) : LstatIn(f, p) = "failed"
    \/ \E p \in S : NodeIn(f, p) = NoNode
    \/ WantsLstat(o) /\ \E d \in S : \E p \in VisibleOf(f, o, d) : LstatIn(f, p) = "failed"
    \/ \E p \in TopFilesOf(f, o, q) : TargetBad(f, o, p)
    \/ \E d \in S : \E p \in KeptOf(f, o, d) : TargetBad(f, o, p)

LEMMA BadGrows ==
    ASSUME NEW f, NEW o, NEW q, NEW S, NEW T, S \subseteq T, Bad(f, o, q, S)
    PROVE  Bad(f, o, q, T)
<1> HIDE DEF VisibleOf, KeptOf, TopFilesOf, TargetBad
<1> QED BY DEF Bad

LabelledOf(o, h) == {PathIn(o, h, k) : k \in {n \in 1..Len(o) : o[n].event = "label"}}
ListedDirs == TopDirsOf(fs, opts, operands) \cup LabelledOf(out, heap)

LEMMA LabelledIs ==
    ASSUME TypeInv, NEW p
    PROVE  p \in LabelledOf(out, heap) <=> LabelsNow(p) # 0
<1>1. p \in LabelledOf(out, heap) <=> PrintedIn(out, heap, "label", p) # {}
  BY DEF LabelledOf, PrintedIn
<1>2. IsFiniteSet(PrintedIn(out, heap, "label", p))
  BY TimesType DEF TypeInv, Parts, OutType
<1>3. Cardinality(PrintedIn(out, heap, "label", p)) = 0 <=> PrintedIn(out, heap, "label", p) = {}
  BY <1>2, FS_EmptySet
<1> QED BY <1>1, <1>3 DEF LabelsNow, Times

LEMMA LabelsGrow ==
    ASSUME TypeInv, FilesLooked, Steady, Works \/ UNCHANGED vars, NEW p
    PROVE  /\ LabelsNow(p) # 0 => LabelsNow(p)' # 0
           /\ LabelsNow(p)' # 0 => \/ LabelsNow(p) # 0
                                   \/ NextDir /\ heap[Top.dirs[Top.listed + 1]].path = p
           /\ NextDir /\ NeedLabel /\ heap[Top.dirs[Top.listed + 1]].path = p => LabelsNow(p)' # 0
<1>1. LabelsNow(p) \in Nat
  BY CountTypes
<1>2. CASE NextDir
  <2>1. PICK n \in Nat :
           /\ n = IF NeedLabel /\ heap[Top.dirs[Top.listed + 1]].path = p THEN 1 ELSE 0
    OBVIOUS
  <2>2. Adds(out, heap, out', heap', "label", p, n)
    BY <1>2, <2>1, LabelsAdded
  <2>3. LabelsNow(p)' = LabelsNow(p) + n
    BY <2>2 DEF Adds, LabelsNow
  <2> QED BY <1>1, <1>2, <2>1, <2>3
<1>3. CASE ~NextDir
  BY <1>3, NothingPrinted
<1> QED BY <1>2, <1>3

LEMMA ListedDirsGrow ==
    ASSUME TypeInv, TypeInv', FilesLooked, Steady, Works \/ UNCHANGED vars
    PROVE  ListedDirs \subseteq ListedDirs'
<1>1. ASSUME NEW p, p \in LabelledOf(out, heap) PROVE p \in LabelledOf(out', heap')
  <2>1. LabelsNow(p) # 0
    BY <1>1, LabelledIs
  <2>2. LabelsNow(p)' # 0
    BY <2>1, LabelsGrow
  <2>3. Times(out', heap', "label", p) # 0
    BY <2>2 DEF LabelsNow
  <2>4. PrintedIn(out', heap', "label", p) # {}
    <3>1. Cardinality({}) = 0
      BY FS_EmptySet
    <3> QED BY <2>3, <3>1 DEF Times
  <2> QED BY <2>4 DEF LabelledOf, PrintedIn
<1> HIDE DEF TopDirsOf, LabelledOf
<1> QED BY <1>1 DEF ListedDirs, Steady

\* The paths of the active calls of listdir().
LEMMA CallsKept ==
    ASSUME TypeInv, FilesLooked, Works \/ UNCHANGED vars, ~NextDir
    PROVE  \A k \in 2..Len(stack') :
              k \in 2..Len(stack) /\ heap'[stack'[k].dir].path = heap[stack[k].dir].path
<1>1. ASSUME NEW k \in 2..Len(stack)
      PROVE  heap'[stack[k].dir].path = heap[stack[k].dir].path
  <2>1. k \in DOMAIN stack
    BY FrameTypes
  <2>2. stack[k].dir \in 1..Len(heap)
    BY <2>1, FrameTypes, FrameFacts
  <2> QED BY <2>2 DEF FilesLooked, FileLooked
<1>2. CASE stack' = stack
  BY <1>1, <1>2
<1>3. CASE Len(stack') <= 1
  BY <1>3
<1>4. CASE stack' = Pop /\ Len(stack) >= 2
  <2>1. pc # "done" /\ Len(stack) \in Nat
    BY <1>4, HereIs
  <2>2. Len(stack') = Len(stack) - 1 /\ \A i \in 1..Len(stack) - 1 : stack'[i] = stack[i]
    BY <1>4, <2>1, PopLists, Zenon
  <2>3. ASSUME NEW k \in 2..Len(stack')
        PROVE  k \in 2..Len(stack) /\ k \in 1..Len(stack) - 1
    BY <2>1, <2>2
  <2>4. ASSUME NEW k \in 2..Len(stack')
        PROVE  k \in 2..Len(stack) /\ heap'[stack'[k].dir].path = heap[stack[k].dir].path
    <3>1. stack'[k] = stack[k]
      BY <2>2, <2>3, Zenon
    <3> QED BY <1>1, <2>3, <3>1, Zenon
  <2> QED BY <2>4
<1>5. CASE ReadEntry \/ CalmStatEntry
  <2>1. /\ Here' = Here /\ Len(stack') = Len(stack) /\ Len(stack) >= 2
        /\ \A k \in 1..Len(stack) - 1 : stack'[k] = stack[k]
    BY <1>5, EntryHere
  <2>2. Len(stack) \in Nat
    BY <2>1, HereIs
  <2>3. ASSUME NEW k \in 2..Len(stack)
        PROVE  heap'[stack'[k].dir].path = heap[stack[k].dir].path
    <3>1. CASE k = Len(stack)
      BY <2>1, <3>1, Zenon DEF Here, Top
    <3>2. CASE k # Len(stack)
      <4>1. k \in 1..Len(stack) - 1
        BY <2>2, <3>2
      <4> QED BY <1>1, <2>1, <4>1, Zenon
    <3> QED BY <3>1, <3>2
  <2> QED BY <2>1, <2>3, Zenon
<1>6. CASE CalmOperand \/ CalmIsLinkToDir \/ OperandsDone \/ (PrintFiles /\ InMain)
  <2>1. Len(stack) = 1 /\ pc # "done"
    BY <1>6 DEF CalmOperand, CalmIsLinkToDir, OperandsDone, PrintFiles, InMain, TypeInv, PcInv
  <2>2. stack' = stack \/ \E f : stack' = WithTop(f)
    BY <1>6 DEF CalmOperand, CalmIsLinkToDir, OperandsDone, PrintFiles
  <2>3. Len(stack') = 1
    BY <2>1, <2>2, TopIs
  <2> QED BY <1>3, <2>3
<1>7. CASE DirsDone /\ InMain
  <2>1. Len(stack') = 0
    BY <1>7 DEF DirsDone
  <2> QED BY <1>3, <2>1
<1>8. CASE \/ CalmStatFile \/ CalmFollowFile \/ ReadEnd \/ UNCHANGED vars
           \/ PrintFiles /\ ~InMain
           \/ DirsDone /\ ~InMain
  BY <1>2, <1>8 DEF CalmStatFile, CalmFollowFile, ReadEnd, vars, PrintFiles, DirsDone
<1>9. CASE Open \/ Return
  <2>1. Len(stack) >= 2 /\ (stack' = stack \/ stack' = Pop)
    BY <1>9 DEF Open, Return, TypeInv, PcInv
  <2> QED BY <1>2, <1>4, <2>1
<1> QED BY <1>5, <1>6, <1>7, <1>8, <1>9 DEF Works

\* Only what is wrong with what is listed makes the exit status 1.
ExitOnlyIf ==
    /\ \A k \in 2..Len(stack) : heap[stack[k].dir].path \in ListedDirs
    /\ exit = 1 => Bad(fs, opts, operands, ListedDirs)

LEMMA CallsListed ==
    ASSUME TypeInv, TypeInv', FilesLooked, SectionInv, MainLists, ExitOnlyIf, Steady,
           Works \/ UNCHANGED vars
    PROVE  \A k \in 2..Len(stack') : heap'[stack'[k].dir].path \in ListedDirs'
<1>1. ListedDirs \subseteq ListedDirs'
  BY ListedDirsGrow
<1>2. CASE ~NextDir
  <2>1. \A k \in 2..Len(stack') :
           k \in 2..Len(stack) /\ heap'[stack'[k].dir].path = heap[stack[k].dir].path
    BY <1>2, CallsKept
  <2> HIDE DEF ListedDirs
  <2> QED BY <1>1, <2>1 DEF ExitOnlyIf
<1>3. CASE NextDir
  <2>1. PICK q : q = heap[Top.dirs[Top.listed + 1]].path
    OBVIOUS
  <2>2. /\ Len(stack') = Len(stack) + 1 /\ Len(stack) \in Nat \ {0} /\ heap' = heap
        /\ \A i \in 1..Len(stack) : stack'[i].dir = stack[i].dir
        /\ heap'[Top'.dir].path = q /\ Top.listed + 1 \in 1..Len(Top.dirs)
        /\ pc = "dirs" /\ pc # "done"
    BY <1>3, <2>1, NextDirIs
  <2>3. q \in ListedDirs'
    <3>1. CASE NeedLabel
      <4>1. LabelsNow(q)' # 0
        BY <1>3, <2>1, <3>1, LabelsGrow
      <4>2. Times(out', heap', "label", q) # 0
        BY <4>1 DEF LabelsNow
      <4>3. PrintedIn(out', heap', "label", q) # {}
        <5>1. Cardinality({}) = 0
          BY FS_EmptySet
        <5> QED BY <4>2, <5>1 DEF Times
      <4>4. q \in LabelledOf(out', heap')
        BY <4>3 DEF LabelledOf, PrintedIn
      <4> QED BY <4>4 DEF ListedDirs
    <3>2. CASE ~NeedLabel
      <4>1. Len(stack) = 1
        <5>1. Len(stack) >= 2 => NeedLabel
          BY <1>3, AfterSomething
        <5> QED BY <2>2, <3>2, <5>1, OneOrMore, Zenon
      <4>2. stack # << >> /\ Top = stack[1]
        BY <4>1, MainIsTop
      <4>3. On(heap, Top.dirs) \subseteq TopDirsOf(fs, opts, operands)
        BY <4>2 DEF MainLists
      <4>4. q \in On(heap, Top.dirs)
        BY <2>1, <2>2 DEF On
      <4>5. q \in ListedDirs
        BY <4>3, <4>4 DEF ListedDirs
      <4> QED BY <1>1, <4>5
    <3> QED BY <3>1, <3>2
  <2>4. ASSUME NEW k \in 2..Len(stack') PROVE heap'[stack'[k].dir].path \in ListedDirs'
    <3>1. CASE k = Len(stack')
      BY <2>2, <2>3, <3>1, Zenon DEF Top
    <3>2. CASE k # Len(stack')
      <4>1. k \in 1..Len(stack) /\ k \in 2..Len(stack)
        BY <2>2, <3>2
      <4>2. heap'[stack'[k].dir].path = heap[stack[k].dir].path
        BY <2>2, <4>1, Zenon
      <4>3. heap[stack[k].dir].path \in ListedDirs
        BY <4>1, Zenon DEF ExitOnlyIf
      <4> QED BY <1>1, <4>2, <4>3
    <3> QED BY <3>1, <3>2
  <2> QED BY <2>4
<1> QED BY <1>2, <1>3

\* What is wrong with a File that is printed.
LEMMA PrintedIsBad ==
    ASSUME TypeInv, FrameLists, MainLists, StatsTrue, ExitOnlyIf, PrintFiles,
           NEW i \in InTopFiles, Incomplete(heap[i]), exit # 1
    PROVE  Bad(fs, opts, operands, ListedDirs)
<1>1. PICK x : x = heap[i].path
  OBVIOUS
<1>2. i \in 1..Len(heap)
  BY TopFacts DEF PrintFiles, InTopFiles
<1>3. /\ heap[i].stat \in {"unknown", LstatIn(fs, x)}
      /\ heap[i].target \in {"unknown", TargetIn(fs, x)}
      /\ heap[i].stat = "failed" => WantsLstat(opts)
  BY <1>1, <1>2 DEF StatsTrue
<1>4. \/ LstatIn(fs, x) = "failed" /\ WantsLstat(opts)
      \/ TargetBad(fs, opts, x)
  BY <1>3 DEF Incomplete, TargetBad
<1>5. x \in ListedAt(fs, opts, operands, heap, Top.dir)
  <2>1. On(heap, Top.files) = ListedAt(fs, opts, operands, heap, Top.dir)
    BY ListedHere
  <2>2. x \in On(heap, Top.files)
    <3>1. DOMAIN Top.files = 1..Len(Top.files)
      BY TopFacts DEF PrintFiles
    <3> QED BY <1>1, <3>1 DEF On, InTopFiles
  <2> QED BY <2>1, <2>2
<1>6. CASE Top.dir = 0
  <2>1. x \in TopFilesOf(fs, opts, operands)
    BY <1>5, <1>6 DEF ListedAt
  <2>2. LstatIn(fs, x) # "failed"
    BY <2>1 DEF TopFilesOf
  <2> HIDE DEF TopFilesOf
  <2> QED BY <1>4, <2>1, <2>2 DEF Bad
<1>7. CASE Top.dir # 0
  <2>1. x \in KeptOf(fs, opts, Here)
    BY <1>5, <1>7 DEF ListedAt, Here
  <2>2. x \in VisibleOf(fs, opts, Here)
    BY <2>1 DEF KeptOf
  <2>3. Here \in ListedDirs
    <3>1. Len(stack) # 1 /\ Len(stack) \in Nat \ {0}
      BY <1>7, ListedHere, TopFacts DEF PrintFiles
    <3>2. Len(stack) >= 2
      BY <3>1, OneOrMore, Zenon
    <3>3. Len(stack) \in 2..Len(stack)
      BY <3>2, HereIs
    <3> QED BY <3>3, Zenon DEF ExitOnlyIf, Here, Top
  <2> HIDE DEF KeptOf, VisibleOf, ListedDirs
  <2> QED BY <1>4, <2>1, <2>2, <2>3 DEF Bad
<1> QED BY <1>6, <1>7

LEMMA ExitOnlyIfStep ==
    ASSUME TypeInv, TypeInv', FilesLooked, SectionInv, StatsTrue, MainLists, FrameLists, ReadingInv,
           EntryInv, ExitOnlyIf, Steady, Works \/ UNCHANGED vars
    PROVE  ExitOnlyIf'
<1>1. \A k \in 2..Len(stack') : heap'[stack'[k].dir].path \in ListedDirs'
  BY CallsListed
<1>2. ASSUME exit' = 1, exit # 1 PROVE Bad(fs, opts, operands, ListedDirs)
  <2>1. CASE CalmOperand
    <3>1. PICK p : p = operands[looked + 1]
      OBVIOUS
    <3>2. Lstat(p) = "failed"
      BY <1>2, <2>1, <3>1 DEF CalmOperand
    <3>3. LstatIn(fs, p) = "failed"
      BY <3>2, StatsAreIn
    <3>4. p \in ToSet(operands)
      <4>1. looked \in 0..Len(operands) /\ operands \in Seq(Seq(AnyName) \ {<< >>})
            /\ looked < Len(operands)
        BY <2>1, ListingAssumption DEF CalmOperand, ListingAssumption, TypeInv, Parts, PlainType
      <4>2. looked + 1 \in 1..Len(operands)
        BY <4>1
      <4> QED BY <3>1, <4>1, <4>2, InToSet
    <3> QED BY <3>3, <3>4 DEF Bad
  <2>2. CASE Open \/ CalmStatEntry
    <3>1. Len(stack) >= 2
      BY <2>2 DEF Open, CalmStatEntry, TypeInv, PcInv
    <3>2. Len(stack) \in 2..Len(stack)
      BY <3>1, HereIs
    <3>3. Here \in ListedDirs
      BY <3>2, Zenon DEF ExitOnlyIf, Here, Top
    <3>4. CASE Open
      <4>1. NodeAt(Here) = NodeIn(fs, Here)
        BY EntriesAreIn, Zenon
      <4>2. NodeAt(Here) = NoNode
        BY <1>2, <3>4 DEF Open, Here
      <4> HIDE DEF ListedDirs
      <4> QED BY <3>3, <4>1, <4>2 DEF Bad
    <3>5. CASE CalmStatEntry
      <4>1. PICK x : x = heap[Len(heap)].path
        OBVIOUS
      <4>2. LstatIn(fs, x) = "failed" /\ opts.dirsonly /\ pc = "entry"
        <5>1. CurStat = Lstat(x) /\ pc = "entry"
          BY <3>5, <4>1 DEF CalmStatEntry, CurStat, Cur
        <5>2. Lstat(x) = LstatIn(fs, x)
          BY StatsAreIn, Zenon
        <5> QED BY <1>2, <3>5, <5>1, <5>2 DEF CalmStatEntry
      <4>3. x \in VisibleOf(fs, opts, Here)
        BY <4>1, <4>2 DEF ReadingInv
      <4>4. WantsLstat(opts)
        BY <4>2 DEF WantsLstat
      <4> HIDE DEF ListedDirs, VisibleOf
      <4> QED BY <3>3, <4>2, <4>3, <4>4 DEF Bad
    <3> QED BY <2>2, <3>4, <3>5
  <2>3. CASE PrintFiles
    <3>1. PICK i \in InTopFiles : Incomplete(heap[i])
      BY <1>2, <2>3 DEF PrintFiles
    <3> QED BY <1>2, <2>3, <3>1, PrintedIsBad
  <2>4. ASSUME ~CalmOperand, ~Open, ~CalmStatEntry, ~PrintFiles PROVE exit' = exit
    BY <2>4 DEF Works, CalmIsLinkToDir, OperandsDone, CalmStatFile, CalmFollowFile, NextDir, DirsDone,
                ReadEntry, ReadEnd, CloseStream, Return, vars
  <2> QED BY <1>2, <2>1, <2>2, <2>3, <2>4
<1>3. exit' = 1 => Bad(fs, opts, operands, ListedDirs')
  <2>1. ListedDirs \subseteq ListedDirs'
    BY ListedDirsGrow
  <2>2. exit' = 1 => Bad(fs, opts, operands, ListedDirs)
    BY <1>2, ZenonT(60) DEF ExitOnlyIf
  <2> HIDE DEF ListedDirs
  <2> QED BY <2>1, <2>2, BadGrows
<1> HIDE DEF ListedDirs, Bad
<1> QED BY <1>1, <1>3 DEF ExitOnlyIf, Steady

\* Whatever is wrong with what has been listed has made the exit status 1.
Settled(f, o, e, p) ==
    \/ e = 1
    \/ /\ NodeIn(f, p) # NoNode
       /\ WantsLstat(o) => \A r \in VisibleOf(f, o, p) : LstatIn(f, r) # "failed"
       /\ \A r \in KeptOf(f, o, p) : ~TargetBad(f, o, r)

\* The directories that listdir() has been called for, at least.
Visited(p) ==
    \/ LabelsNow(p) # 0
    \/ stack = << >> /\ p \in TopDirsOf(fs, opts, operands)
    \/ stack # << >> /\ \E n \in 1..stack[1].listed : heap[stack[1].dirs[n]].path = p

ExitIf ==
    /\ \A k \in 1..looked : LstatIn(fs, operands[k]) = "failed" => exit = 1
    /\ ~MainWaits => \A p \in TopFilesOf(fs, opts, operands) : TargetBad(fs, opts, p) => exit = 1
    /\ \A p : Visited(p) => Settled(fs, opts, exit, p) \/ ListedNow(p) = 1

LEMMA ExitKept ==
    ASSUME Works \/ UNCHANGED vars, exit = 1
    PROVE  exit' = 1
BY DEF Works, CalmOperand, CalmIsLinkToDir, OperandsDone, CalmStatFile, CalmFollowFile, PrintFiles,
       NextDir, DirsDone, Open, ReadEntry, CalmStatEntry, ReadEnd, CloseStream, Return, vars

\* Every File of the top frame is known when it is printed.
LEMMA PrintedSettles ==
    ASSUME TypeInv, StatsTrue, FrameLists, MainLists, PrintFiles,
           NEW r \in ListedAt(fs, opts, operands, heap, Top.dir)
    PROVE  /\ TargetBad(fs, opts, r) => exit' = 1
           /\ WantsLstat(opts) /\ Len(stack) >= 2 /\ LstatIn(fs, r) = "failed" => exit' = 1
<1>1. /\ On(heap, Top.files) = ListedAt(fs, opts, operands, heap, Top.dir)
      /\ pc = "files" /\ pc # "done" /\ DOMAIN Top.files = 1..Len(Top.files)
  BY ListedHere, TopFacts
<1>2. PICK n \in 1..Len(Top.files) : heap[Top.files[n]].path = r
  BY <1>1, Zenon DEF On
<1>3. PICK i \in InTopFiles : i = Top.files[n] /\ heap[i].path = r
  BY <1>1, <1>2 DEF InTopFiles
<1>4. i \in 1..Len(heap)
  BY <1>1, TopFacts DEF InTopFiles
<1>5. KnownTo(opts, fs, heap[i])
  BY PrintedAreKnown
<1>6. Incomplete(heap[i]) => exit' = 1
  BY DEF PrintFiles
<1>7. ASSUME TargetBad(fs, opts, r) PROVE Incomplete(heap[i])
  <2>1. opts.targetinfo /\ LstatIn(fs, r) = "link" /\ TargetIn(fs, r) \in {"failed", "null"}
    BY <1>7 DEF TargetBad
  <2>2. heap[i].stat = LstatIn(fs, r) /\ heap[i].target = TargetIn(fs, r)
    BY <1>3, <1>5, <2>1, Zenon DEF KnownTo
  <2> QED BY <2>1, <2>2 DEF Incomplete
<1>8. ASSUME WantsLstat(opts), Len(stack) >= 2, LstatIn(fs, r) = "failed"
      PROVE  Incomplete(heap[i])
  <2>1. heap[i].stat \in {"unknown", LstatIn(fs, r)}
    BY <1>3, <1>4 DEF StatsTrue
  <2>2. CASE opts.columns \/ opts.targetinfo
    <3>1. heap[i].stat = LstatIn(fs, r)
      BY <1>3, <1>5, <2>2, Zenon DEF KnownTo
    <3> QED BY <1>8, <3>1 DEF Incomplete
  <2>3. CASE opts.dirsonly \/ opts.recursive
    <3>1. LooksAtOnce(opts) /\ LeftAt(pc, unread, heap) = {}
      BY <1>1, <2>3 DEF LooksAtOnce, LeftAt
    <3>2. ListsOk(fs, opts, heap, Here, Top.files, Top.dirs, {})
      BY <1>8, <3>1, TopLists
    <3>3. heap[i].stat # "unknown"
      BY <1>2, <1>3, <3>1, <3>2, Zenon DEF ListsOk
    <3> QED BY <1>8, <2>1, <3>3 DEF Incomplete
  <2> QED BY <1>8, <2>2, <2>3 DEF WantsLstat
<1> QED BY <1>6, <1>7, <1>8

LEMMA HereSettled ==
    ASSUME TypeInv, StatsTrue, FrameLists, MainLists, ReadingInv, PrintFiles, Len(stack) >= 2
    PROVE  Settled(fs, opts, exit', Here)
<1>1. pc = "files" /\ pc # "done" /\ Top.dir # 0 /\ LeftAt(pc, unread, heap) = {}
  <2>1. pc = "files" /\ pc # "done" /\ (Top.dir = 0 <=> Len(stack) = 1)
    BY ListedHere
  <2>2. Len(stack) # 1
    BY <2>1, TopFacts, TwoIsNotOne, Zenon
  <2>3. LeftAt(pc, unread, heap) = {}
    BY <2>1 DEF LeftAt
  <2> QED BY <2>1, <2>2, <2>3, Zenon
<1>2. NodeIn(fs, Here) # NoNode
  BY <1>1 DEF ReadingInv
<1>3. ListedAt(fs, opts, operands, heap, Top.dir) = KeptOf(fs, opts, Here)
  BY <1>1 DEF ListedAt, Here
<1>4. \A r \in KeptOf(fs, opts, Here) : TargetBad(fs, opts, r) => exit' = 1
  BY <1>3, PrintedSettles
<1>5. ASSUME WantsLstat(opts), NEW r \in VisibleOf(fs, opts, Here), LstatIn(fs, r) = "failed"
      PROVE  exit' = 1
  <2>1. CASE r \in KeptOf(fs, opts, Here)
    BY <1>3, <1>5, <2>1, PrintedSettles
  <2>2. CASE r \notin KeptOf(fs, opts, Here)
    <3>1. r \in SeenOf(VisibleOf(fs, opts, Here), LeftAt(pc, unread, heap))
      BY <1>1, <1>5, AllSeen, Zenon
    <3>2. Inside
      BY <1>1 DEF Inside
    <3>3. exit = 1
      BY <1>5, <2>2, <3>1, <3>2, Zenon DEF ReadingInv
    <3> QED BY <3>3, ExitKept DEF Works
  <2> QED BY <2>1, <2>2
<1> HIDE DEF KeptOf, VisibleOf, TargetBad
<1> QED BY <1>2, <1>4, <1>5 DEF Settled

LEMMA FirstKept ==
    ASSUME TypeInv, SectionInv', Works \/ UNCHANGED vars, stack' # << >>
    PROVE  /\ stack # << >>
           /\ \/ stack'[1].listed = 0
              \/ stack'[1].dirs = stack[1].dirs /\ stack'[1].listed = stack[1].listed
              \/ /\ NextDir /\ Top = stack[1] /\ stack'[1].dirs = stack[1].dirs
                 /\ stack'[1].listed = stack[1].listed + 1
<1>1. CASE stack' = stack
  BY <1>1
<1>2. CASE CalmOperand \/ CalmIsLinkToDir \/ OperandsDone
  <2>1. Len(stack) = 1 /\ pc # "done" /\ pc' \in {"operand", "islinktodir", "files"}
    BY <1>2 DEF CalmOperand, CalmIsLinkToDir, OperandsDone, TypeInv, PcInv
  <2>2. stack' = stack \/ \E f : stack' = WithTop(f)
    BY <1>2 DEF CalmOperand, CalmIsLinkToDir, OperandsDone
  <2>3. Len(stack') = 1 /\ stack # << >>
    BY <2>1, <2>2, TopIs, TopFacts
  <2> QED BY <2>1, <2>3 DEF SectionInv, MainInv
<1>3. CASE PrintFiles /\ InMain
  <2>1. PICK f : f = [Top EXCEPT !.files = << >>]
    OBVIOUS
  <2>2. stack' = WithTop(f) /\ Len(stack) = 1
    BY <1>3, <2>1 DEF PrintFiles, InMain
  <2>3. f.dirs = Top.dirs /\ f.listed = Top.listed
    BY <2>1, <2>2, MainFields
  <2> QED BY <2>2, <2>3, ChangedMain, MainIsTop
<1>4. CASE Open \/ ReadEntry \/ CalmStatEntry \/ Return
  <2>1. pc # "done" /\ Len(stack) >= 2
    BY <1>4 DEF Open, ReadEntry, CalmStatEntry, Return, TypeInv, PcInv
  <2>2. stack' = stack \/ stack' = Pop \/ \E f : stack' = WithTop(f)
    BY <1>4 DEF Open, ReadEntry, CalmStatEntry, Return
  <2>3. stack'[1] = stack[1]
    BY <2>1, <2>2, MainIsBelow
  <2> QED BY <2>1, <2>3, HereIs
<1>5. CASE NextDir
  <2>1. /\ Len(stack) \in Nat \ {0} /\ 1 \in 1..Len(stack) /\ pc # "done"
        /\ \A i \in 1..Len(stack) :
              /\ stack'[i].dirs = stack[i].dirs
              /\ stack'[i].listed = IF i = Len(stack) THEN stack[i].listed + 1
                                    ELSE stack[i].listed
    BY <1>5, NextDirIs
  <2>2. stack # << >>
    BY <2>1, TopFacts
  <2> QED BY <1>5, <2>1, <2>2 DEF Top
<1>6. CASE DirsDone /\ InMain
  BY <1>6 DEF DirsDone
<1>7. CASE \/ CalmStatFile \/ CalmFollowFile \/ ReadEnd \/ UNCHANGED vars
           \/ PrintFiles /\ ~InMain
           \/ DirsDone /\ ~InMain
  BY <1>1, <1>7 DEF CalmStatFile, CalmFollowFile, ReadEnd, vars, PrintFiles, DirsDone
<1> QED BY <1>2, <1>3, <1>4, <1>5, <1>6, <1>7 DEF Works

LEMMA NobodyDone ==
    ASSUME TypeInv, Works \/ UNCHANGED vars, stack' = << >>, stack # << >>
    PROVE  DirsDone /\ InMain
<1>1. Len(stack') = 0
  OBVIOUS
<1>2. CASE CalmOperand \/ CalmIsLinkToDir \/ OperandsDone \/ (PrintFiles /\ InMain)
  <2>1. Len(stack) = 1 /\ pc # "done"
    BY <1>2 DEF CalmOperand, CalmIsLinkToDir, OperandsDone, PrintFiles, InMain, TypeInv, PcInv
  <2>2. stack' = stack \/ \E f : stack' = WithTop(f)
    BY <1>2 DEF CalmOperand, CalmIsLinkToDir, OperandsDone, PrintFiles
  <2>3. Len(stack') = 1
    BY <2>1, <2>2, TopIs
  <2> QED BY <1>1, <2>3
<1>3. CASE Open \/ ReadEntry \/ CalmStatEntry \/ Return
  <2>1. pc # "done" /\ Len(stack) >= 2
    BY <1>3 DEF Open, ReadEntry, CalmStatEntry, Return, TypeInv, PcInv
  <2>2. stack' = stack \/ stack' = Pop \/ \E f : stack' = WithTop(f)
    BY <1>3 DEF Open, ReadEntry, CalmStatEntry, Return
  <2> QED BY <2>1, <2>2, MainIsBelow
<1>4. CASE NextDir
  <2>1. Len(stack') = Len(stack) + 1 /\ Len(stack) \in Nat
    BY <1>4, NextDirIs
  <2> QED BY <1>1, <2>1
<1>5. CASE \/ CalmStatFile \/ CalmFollowFile \/ ReadEnd \/ UNCHANGED vars
           \/ PrintFiles /\ ~InMain
           \/ DirsDone /\ ~InMain
  BY <1>5 DEF CalmStatFile, CalmFollowFile, ReadEnd, vars, PrintFiles, DirsDone
<1> QED BY <1>2, <1>3, <1>4, <1>5 DEF Works

LEMMA VisitedStep ==
    ASSUME TypeInv, FilesLooked, SectionInv', MainLists, Steady, Works \/ UNCHANGED vars,
           NEW p, Visited(p)'
    PROVE  Visited(p) \/ (NextDir /\ heap[Top.dirs[Top.listed + 1]].path = p)
<1>1. CASE LabelsNow(p)' # 0
  BY <1>1, LabelsGrow DEF Visited
<1>2. CASE stack' = << >> /\ p \in TopDirsOf(fs', opts', operands')
  <2>1. p \in TopDirsOf(fs, opts, operands)
    BY <1>2, Zenon DEF Steady
  <2>2. CASE stack = << >>
    BY <2>1, <2>2, Zenon DEF Visited
  <2>3. CASE stack # << >>
    <3>1. DirsDone /\ InMain
      BY <1>2, <2>3, NobodyDone
    <3>2. /\ pc = "dirs" /\ Len(stack) = 1 /\ Top = stack[1] /\ Top.listed = Len(Top.dirs)
          /\ ~Looking
      BY <3>1, MainIsTop DEF DirsDone, InMain, Looking
    <3>3. Sorted = Len(operands)
      BY <3>2 DEF MainLists, Sorted, Looking
    <3>4. operands \in Seq(Seq(AnyName) \ {<< >>})
      BY ListingAssumption DEF ListingAssumption, TypeInv, Parts, PlainType
    <3>5. SomeOf(operands, Sorted) = ToSet(operands)
      BY <3>3, <3>4, AllOfThem
    <3>6. p \in On(heap, stack[1].dirs)
      <4>1. p \in SomeOf(operands, Sorted)
        BY <2>1, <3>5 DEF TopDirsOf
      <4> HIDE DEF TopDirsOf, On, SomeOf
      <4> QED BY <2>1, <2>3, <4>1 DEF MainLists
    <3>7. \E n \in 1..stack[1].listed : heap[stack[1].dirs[n]].path = p
      BY <3>2, <3>6 DEF On
    <3> QED BY <2>3, <3>7, Zenon DEF Visited
  <2> QED BY <2>2, <2>3
<1>3. CASE stack' # << >> /\ \E n \in 1..stack'[1].listed : heap'[stack'[1].dirs[n]].path = p
  <2>1. PICK n \in 1..stack'[1].listed : heap'[stack'[1].dirs[n]].path = p
    BY <1>3
  <2>2. /\ stack # << >>
        /\ \/ stack'[1].dirs = stack[1].dirs /\ stack'[1].listed = stack[1].listed
           \/ /\ NextDir /\ Top = stack[1] /\ stack'[1].dirs = stack[1].dirs
              /\ stack'[1].listed = stack[1].listed + 1
    <3>1. stack'[1].listed # 0
      BY <2>1
    <3> QED BY <1>3, <3>1, FirstKept
  <2>3. /\ stack[1].dirs \in Seq(1..Len(heap)) /\ stack[1].listed \in Nat
        /\ stack[1].listed <= Len(stack[1].dirs)
    BY <2>2, FirstFrame
  <2>4. n \in 1..stack[1].listed => heap'[stack[1].dirs[n]].path = heap[stack[1].dirs[n]].path
    <3>1. n \in 1..stack[1].listed => stack[1].dirs[n] \in 1..Len(heap)
      BY <2>3
    <3> QED BY <3>1, Zenon DEF FilesLooked, FileLooked
  <2>5. CASE n \in 1..stack[1].listed
    BY <2>1, <2>2, <2>4, <2>5, Zenon DEF Visited
  <2>6. CASE n \notin 1..stack[1].listed
    <3>1. n = stack[1].listed + 1 /\ NextDir /\ Top = stack[1] /\ stack'[1].dirs = stack[1].dirs
      BY <2>1, <2>2, <2>3, <2>6
    <3>2. heap' = heap
      BY <3>1, NextDirIs
    <3> QED BY <2>1, <3>1, <3>2
  <2> QED BY <2>5, <2>6
<1> QED BY <1>1, <1>2, <1>3 DEF Visited

\* A directory that is being listed stays so until it is settled.
LEMMA ListedSettles ==
    ASSUME TypeInv, FilesLooked, StatsTrue, FrameLists, MainLists, ReadingInv, Steady,
           Works \/ UNCHANGED vars, NEW p, ListedNow(p) = 1
    PROVE  ListedNow(p)' = 1 \/ Settled(fs, opts, exit', p)
<1>1. Inside /\ Here = p
  BY DEF ListedNow
<1>2. CASE PrintFiles
  BY <1>1, <1>2, HereSettled DEF Inside
<1>3. CASE Open /\ pc' = "dirs"
  <2>1. exit' = 1
    BY <1>3 DEF Open
  <2> QED BY <2>1 DEF Settled
<1>4. CASE NextDir
  <2>1. pc = "dirs"
    BY <1>4, NextDirIs
  <2> QED BY <1>1, <2>1 DEF Inside
<1>5. CASE ReadEnd
  <2>1. /\ pc = "read" /\ Len(stack) >= 2 /\ pc' = "files" /\ stack' = stack /\ heap' = heap
    BY <1>5 DEF ReadEnd, CloseStream, TypeInv, PcInv
  <2>2. Here' = Here
    BY <2>1, HereIs DEF Here, Top
  <2> QED BY <1>1, <2>1, <2>2 DEF ListedNow, Inside
<1>6. CASE ~PrintFiles /\ ~NextDir /\ ~ReadEnd /\ ~(Open /\ pc' = "dirs")
  BY <1>6, PlaceStays
<1> QED BY <1>2, <1>3, <1>4, <1>5, <1>6

LEMMA SettledKept ==
    ASSUME Works \/ UNCHANGED vars, NEW p, Settled(fs, opts, exit, p)
    PROVE  Settled(fs, opts, exit', p)
<1> HIDE DEF VisibleOf, KeptOf, TargetBad
<1> QED BY ExitKept DEF Settled

LEMMA VisitedSettled ==
    ASSUME TypeInv, FilesLooked, SectionInv', StatsTrue, FrameLists, MainLists, ReadingInv,
           ExitIf, Steady, Works \/ UNCHANGED vars, NEW p, Visited(p)'
    PROVE  Settled(fs, opts, exit', p) \/ ListedNow(p)' = 1
<1>1. CASE Visited(p)
  <2>1. Settled(fs, opts, exit, p) \/ ListedNow(p) = 1
    BY <1>1, Zenon DEF ExitIf
  <2> QED BY <2>1, SettledKept, ListedSettles
<1>2. CASE NextDir /\ heap[Top.dirs[Top.listed + 1]].path = p
  <2>1. /\ pc' = "open" /\ Len(stack') >= 2 /\ Here' = p
    BY <1>2, NextDirIs DEF Here
  <2> QED BY <2>1 DEF ListedNow, Inside
<1> QED BY <1>1, <1>2, VisitedStep

LEMMA OperandSettles ==
    ASSUME TypeInv, ExitIf, Steady, Works \/ UNCHANGED vars
    PROVE  \A k \in 1..looked' : LstatIn(fs, operands[k]) = "failed" => exit' = 1
<1>1. \A k \in 1..looked : LstatIn(fs, operands[k]) = "failed" => exit' = 1
  BY ExitKept DEF ExitIf
<1>2. CASE CalmOperand
  <2>1. PICK p : p = operands[looked + 1]
    OBVIOUS
  <2>2. looked' = looked + 1 /\ (Lstat(p) = "failed" => exit' = 1)
    BY <1>2, <2>1 DEF CalmOperand
  <2>3. Lstat(p) = LstatIn(fs, p)
    BY StatsAreIn, Zenon
  <2>4. looked \in Nat
    BY DEF TypeInv, Parts, PlainType
  <2>5. \A k \in 1..looked + 1 : k \in 1..looked \/ k = looked + 1
    BY <2>4
  <2> QED BY <1>1, <2>1, <2>2, <2>3, <2>5
<1>3. CASE ~CalmOperand
  <2>1. looked' = looked
    BY <1>3 DEF Works, CalmIsLinkToDir, OperandsDone, CalmStatFile, CalmFollowFile, PrintFiles, NextDir,
                DirsDone, Open, ReadEntry, CalmStatEntry, ReadEnd, CloseStream, Return, vars
  <2> QED BY <1>1, <2>1, ZenonT(60)
<1> QED BY <1>2, <1>3

LEMMA FilesSettle ==
    ASSUME TypeInv, StatsTrue, FrameLists, MainLists, ExitIf, Steady, Works \/ UNCHANGED vars,
           ~MainWaits', NEW p \in TopFilesOf(fs, opts, operands), TargetBad(fs, opts, p)
    PROVE  exit' = 1
<1> HIDE DEF TopFilesOf, TargetBad
<1>1. CASE ~MainWaits
  <2>1. exit = 1
    BY <1>1 DEF ExitIf
  <2> QED BY <2>1, ExitKept
<1>2. CASE MainWaits
  <2>1. PrintFiles
    BY <1>2, MainWaitsStep
  <2>2. Top.dir = 0
    BY <1>2, <2>1, PrintFilesWaits, ListedHere
  <2>3. p \in ListedAt(fs, opts, operands, heap, Top.dir)
    BY <2>2 DEF ListedAt
  <2> QED BY <2>1, <2>3, PrintedSettles
<1> QED BY <1>1, <1>2

LEMMA ExitIfStep ==
    ASSUME TypeInv, FilesLooked, SectionInv', StatsTrue, FrameLists, MainLists, ReadingInv,
           ExitIf, Steady, Works \/ UNCHANGED vars
    PROVE  ExitIf'
<1>1. \A k \in 1..looked' : LstatIn(fs', operands'[k]) = "failed" => exit' = 1
  BY OperandSettles, Zenon DEF Steady
<1>2. ASSUME ~MainWaits', NEW p \in TopFilesOf(fs', opts', operands'), TargetBad(fs', opts', p)
      PROVE  exit' = 1
  BY <1>2, FilesSettle, Zenon DEF Steady
<1>3. ASSUME NEW p, Visited(p)' PROVE Settled(fs', opts', exit', p) \/ ListedNow(p)' = 1
  BY <1>3, VisitedSettled, Zenon DEF Steady
<1> QED BY <1>1, <1>2, <1>3, Zenon DEF ExitIf

-----------------------------------------------------------------------------
(* The invariant of a listing that nothing disturbs, and what it comes to.      *)

QuietInv ==
    Quiet =>
      /\ StatsTrue /\ LinkInv /\ MainLists /\ FrameLists /\ ReadingInv
      /\ RowsTrue /\ RootRows /\ (\A p : CountFor(p))
      /\ ExitOnlyIf /\ ExitIf

LEMMA QuietInit ==
    ASSUME Init
    PROVE  EntryInv /\ QuietInv
<1>1. /\ heap = << >> /\ stack = << Frame(0, TRUE) >> /\ out = << >> /\ pc = "operand"
      /\ looked = 0 /\ exit = 0 /\ unread = {}
  BY DEF Init
<1>2. /\ Len(heap) = 0 /\ Len(stack) = 1 /\ Len(out) = 0 /\ stack # << >>
      /\ stack[1].files = << >> /\ stack[1].dirs = << >> /\ stack[1].listed = 0
  BY <1>1 DEF Frame
<1>3. Looking /\ MainWaits /\ ~Inside /\ Sorted = 0
  BY <1>1, <1>2 DEF Looking, MainWaits, Inside, Sorted
<1>4. Cardinality({}) = 0 /\ IsFiniteSet({})
  BY FS_EmptySet
<1>5. \A S : AskedFor(operands, 0, S) = {} /\ SomeOf(operands, 0) = {}
  BY DEF AskedFor, SomeOf
<1>6. \A e, p : Times(out, heap, e, p) = 0
  <2>1. \A e, p : PrintedIn(out, heap, e, p) = {}
    BY <1>2 DEF PrintedIn
  <2> QED BY <1>4, <2>1 DEF Times
<1>7. EntryInv /\ StatsTrue /\ LinkInv /\ FrameLists /\ ReadingInv /\ RowsTrue
  BY <1>1, <1>2, <1>3 DEF EntryInv, StatsTrue, LinkInv, FrameLists, ReadingInv, RowsTrue
<1>8. MainLists
  BY <1>2, <1>3, <1>4, <1>5, OnNothing DEF MainLists
<1>9. RootRows
  BY <1>3, <1>6 DEF RootRows
<1>10. ASSUME NEW p PROVE CountFor(p)
  <2>1. WaitsNow(p) = {}
    <3>1. Level(pc, Len(stack)) = 1
      BY <1>1, <1>2 DEF Level
    <3>2. ASSUME NEW k, NEW n \in Nat PROVE ~WaitsAt(heap, stack, 1, k, n, p)
      <4>1. k \in 1..1 => k = 1
        OBVIOUS
      <4>2. ~(0 < n /\ n <= Len(<< >>))
        OBVIOUS
      <4> QED BY <1>2, <4>1, <4>2 DEF WaitsAt
    <3> QED BY <3>1, <3>2 DEF WaitsNow, WaitSet
  <2>2. AskedNow(p) = 0 /\ BelowNow(p) = 0 /\ LabelsNow(p) = 0 /\ RowsNow(p) = 0
    BY <1>3, <1>4, <1>5, <1>6 DEF AskedNow, BelowNow, LabelsNow, RowsNow
  <2>3. ReadNow(p) = 0 /\ ListedNow(p) = 0
    BY <1>1, <1>3 DEF ReadNow, ListedNow
  <2> QED BY <1>4, <2>1, <2>2, <2>3 DEF CountFor
<1>11. ExitOnlyIf
  BY <1>1, <1>2 DEF ExitOnlyIf
<1>12. ExitIf
  <2>1. ASSUME NEW p PROVE ~Visited(p)
    BY <1>2, <1>6 DEF Visited, LabelsNow
  <2> QED BY <1>1, <1>3, <2>1 DEF ExitIf
<1> QED BY <1>7, <1>8, <1>9, <1>10, <1>11, <1>12, Zenon DEF QuietInv

LEMMA QuietInvStep ==
    ASSUME TypeInv, TypeInv', SectionInv, SectionInv', EntryInv, QuietInv, [Next]_vars
    PROVE  QuietInv'
<1> SUFFICES ASSUME Quiet'
             PROVE  /\ (StatsTrue /\ LinkInv /\ MainLists /\ FrameLists /\ ReadingInv)'
                    /\ (RowsTrue /\ RootRows /\ (\A p : CountFor(p)))'
                    /\ (ExitOnlyIf /\ ExitIf)'
  BY Zenon DEF QuietInv
<1>1. Quiet /\ Steady /\ (Works \/ UNCHANGED vars)
  BY QuietStep
<1>2. /\ StatsTrue /\ LinkInv /\ MainLists /\ FrameLists /\ ReadingInv
      /\ RowsTrue /\ RootRows /\ (\A p : CountFor(p))
      /\ ExitOnlyIf /\ ExitIf
  BY <1>1, Zenon DEF QuietInv
<1>3. FilesLooked
  BY <1>1, FilesStep
<1>4. StatsTrue' /\ LinkInv' /\ MainLists'
  BY <1>1, <1>2, <1>3, StatsTrueStep, LinkStep, MainListsStep
<1>5. FrameLists' /\ ReadingInv'
  BY <1>1, <1>2, <1>3, ReadingStepAll
<1>6. RowsTrue' /\ RootRows'
  BY <1>1, <1>2, <1>3, RowsTrueStep, RootRowsStep
<1>7. (\A p : CountFor(p))'
  BY <1>1, <1>2, <1>3, CountForStep
<1>8. ExitOnlyIf' /\ ExitIf'
  BY <1>1, <1>2, <1>3, ExitOnlyIfStep, ExitIfStep
<1> QED BY <1>4, <1>5, <1>6, <1>7, <1>8

\* What is still to come when the listing is done: nothing.
LEMMA NothingToCome ==
    ASSUME TypeInv, MainLists, pc = "done"
    PROVE  /\ stack = << >> /\ ~MainWaits
           /\ looked = Len(operands) /\ Sorted = Len(operands)
           /\ \A p : WaitsNow(p) = {} /\ ReadNow(p) = 0 /\ ListedNow(p) = 0
<1>1. stack = << >> /\ Len(stack) = 0
  BY DEF TypeInv, Parts, PlainType
<1>2. ~Looking /\ ~MainWaits /\ ~Inside
  BY DEF Looking, MainWaits, Inside
<1>3. looked = Len(operands) /\ Sorted = Len(operands)
  BY <1>2 DEF MainLists, Sorted
<1>4. ASSUME NEW p PROVE WaitsNow(p) = {} /\ ReadNow(p) = 0 /\ ListedNow(p) = 0
  <2>1. Level(pc, Len(stack)) = 0
    BY <1>1 DEF Level
  <2>2. \A k, n : ~WaitsAt(heap, stack, 0, k, n, p)
    <3>1. 1..0 = {}
      OBVIOUS
    <3> QED BY <3>1 DEF WaitsAt
  <2>3. WaitsNow(p) = {}
    BY <2>1, <2>2 DEF WaitsNow, WaitSet
  <2> QED BY <1>2, <2>3 DEF ReadNow, ListedNow
<1> QED BY <1>1, <1>2, <1>3, <1>4

LEMMA PrintedIs ==
    ASSUME TypeInv
    PROVE  /\ DOMAIN out = 1..Len(out) /\ Len(out) \in Nat
           /\ \A k : PathOf(k) = PathIn(out, heap, k)
           /\ \A e, p : Printed(e, p) = PrintedIn(out, heap, e, p)
<1>1. DOMAIN out = 1..Len(out) /\ Len(out) \in Nat
  BY DEF TypeInv, Parts, OutType
<1> QED BY <1>1 DEF PathOf, PathIn, Printed, PrintedIn

LEMMA DueIs ==
    ASSUME TypeInv, MainLists, pc = "done", NEW p
    PROVE  Due(p) = AskedNow(p) + BelowNow(p)
<1>1. Sorted = Len(operands)
  BY NothingToCome
<1>2. DOMAIN operands = 1..Len(operands)
  <2>1. operands \in Seq(Seq(AnyName) \ {<< >>})
    BY ListingAssumption DEF ListingAssumption, TypeInv, Parts, PlainType
  <2> QED BY <2>1
<1>3. TopDirs = TopDirsOf(fs, opts, operands)
  BY ListingsAreOf, Zenon
<1>4. Asked(p) = AskedFor(operands, Sorted, {p} \cap TopDirsOf(fs, opts, operands))
  <2> HIDE DEF TopDirs, TopDirsOf
  <2> QED BY <1>1, <1>2, <1>3 DEF Asked, AskedFor
<1>5. p \in Subdirs(Front(p)) <=> Below(fs, opts, p)
  BY ListingsAreOf, Zenon DEF Below
<1>6. Printed("label", Front(p)) = PrintedIn(out, heap, "label", Front(p))
  BY PrintedIs, Zenon
<1> QED BY <1>4, <1>5, <1>6, Zenon DEF Due, AskedNow, BelowNow, Times

LEMMA LabelsAreDue ==
    ASSUME TypeInv, MainLists, pc = "done", ~Alone, NEW p, CountFor(p)
    PROVE  Cardinality(Printed("label", p)) = Due(p)
<1>1. WaitsNow(p) = {} /\ ReadNow(p) = 0
  BY NothingToCome
<1>2. LabelsNow(p) + Cardinality({}) + 0 = AskedNow(p) + BelowNow(p)
  BY <1>1, Zenon DEF CountFor
<1>3. Cardinality({}) = 0 /\ LabelsNow(p) \in Nat
  BY FS_EmptySet, CountTypes
<1>4. LabelsNow(p) = AskedNow(p) + BelowNow(p)
  BY <1>2, <1>3
<1>5. LabelsNow(p) = Cardinality(Printed("label", p))
  BY PrintedIs, Zenon DEF LabelsNow, Times
<1> QED BY <1>4, <1>5, DueIs

LEMMA RowsAreDue ==
    ASSUME TypeInv, MainLists, RowsTrue, pc = "done", NEW p, CountFor(p), p # << >>
    PROVE  Cardinality(Printed("rows", p)) = IF KeptIn(p) = {} THEN 0 ELSE Due(p)
<1>1. WaitsNow(p) = {} /\ ReadNow(p) = 0 /\ ListedNow(p) = 0
  BY NothingToCome
<1>2. KeptIn(p) = KeptOf(fs, opts, p)
  BY ListingsAreOf, Zenon
<1>3. Printed("rows", p) = PrintedIn(out, heap, "rows", p)
  BY PrintedIs, Zenon
<1>4. Cardinality({}) = 0 /\ RowsNow(p) \in Nat
  BY FS_EmptySet, CountTypes
<1>5. CASE KeptOf(fs, opts, p) = {}
  <2>1. ASSUME NEW k \in PrintedIn(out, heap, "rows", p) PROVE FALSE
    <3>1. k \in 1..Len(out) /\ out[k].event = "rows" /\ PathIn(out, heap, k) = p
      BY DEF PrintedIn
    <3>2. out[k].dir # 0 /\ heap[out[k].dir].path = p
      BY <3>1 DEF PathIn
    <3>3. ListedAt(fs, opts, operands, heap, out[k].dir) = {}
      BY <1>5, <3>2 DEF ListedAt
    <3> HIDE DEF ListedAt
    <3> QED BY <3>1, <3>3 DEF RowsTrue
  <2>2. PrintedIn(out, heap, "rows", p) = {}
    BY <2>1
  <2> QED BY <1>2, <1>3, <1>4, <1>5, <2>2
<1>6. CASE KeptOf(fs, opts, p) # {}
  <2>1. RowsNow(p) + 0 + Cardinality({}) + 0 = AskedNow(p) + BelowNow(p)
    BY <1>1, <1>6, Zenon DEF CountFor
  <2>2. RowsNow(p) = AskedNow(p) + BelowNow(p)
    BY <1>4, <2>1
  <2> QED BY <1>2, <1>3, <1>6, <2>2, DueIs DEF RowsNow, Times
<1> QED BY <1>5, <1>6

\* Where there is no label, there is one directory at most.
LEMMA AloneIsAlone ==
    ASSUME TypeInv, Alone, \A p : CountFor(p)
    PROVE  /\ ~opts.recursive /\ {k \in DOMAIN out : out[k].event = "label"} = {}
           /\ \A k, m \in DOMAIN operands :
                 operands[k] \in TopDirs /\ operands[m] \in TopDirs => k = m
<1>1. {k \in DOMAIN out : out[k].event = "label"} = {}
  <2>1. ASSUME NEW k \in DOMAIN out, out[k].event = "label" PROVE FALSE
    <3>1. PICK p : p = PathIn(out, heap, k)
      OBVIOUS
    <3>2. LabelsNow(p) = 0
      BY Zenon DEF CountFor
    <3>3. p \in LabelledOf(out, heap)
      BY <2>1, <3>1, PrintedIs DEF LabelledOf
    <3> QED BY <3>2, <3>3, LabelledIs
  <2> QED BY <2>1
<1>2. PICK n \in Nat : n = Len(operands) /\ DOMAIN operands = 1..n
  <2>1. operands \in Seq(Seq(AnyName) \ {<< >>})
    BY ListingAssumption DEF ListingAssumption, TypeInv, Parts, PlainType
  <2> QED BY <2>1
<1>3. PICK A : A = AskedFor(operands, n, TopDirsOf(fs, opts, operands))
  OBVIOUS
<1>4. IsFiniteSet(A) /\ Cardinality(A) <= 1
  <2>1. IsFiniteSet(1..n) /\ A \subseteq 1..n
    BY <1>3, FS_Interval DEF AskedFor
  <2>2. IsFiniteSet(A)
    BY <2>1, FS_Subset
  <2> QED BY <1>2, <1>3, <2>2 DEF Alone
<1>5. ASSUME NEW k \in 1..n, NEW m \in 1..n, operands[k] \in TopDirs, operands[m] \in TopDirs
      PROVE  k = m
  <2>1. k \in A /\ m \in A
    BY <1>3, <1>5, ListingsAreOf DEF AskedFor
  <2>2. IsFiniteSet({k, m}) /\ Cardinality({k, m}) <= Cardinality(A)
    BY <1>4, <2>1, FS_Subset
  <2>3. CASE k # m
    <3>1. IsFiniteSet({k}) /\ Cardinality({k}) = 1
      BY FS_Singleton
    <3>2. {k} \cup {m} = {k, m} /\ m \notin {k}
      BY <2>3
    <3>3. Cardinality({k, m}) = 2
      BY <3>1, <3>2, FS_AddElement
    <3>4. Cardinality(A) \in Nat
      BY <1>4, FS_CardinalityType
    <3> QED BY <1>4, <2>2, <3>3, <3>4
  <2> QED BY <2>3
<1> QED BY <1>1, <1>2, <1>5 DEF Alone

LEMMA RowsForAre ==
    ASSUME NEW S
    PROVE  RowsFor(S) = RowsIn(fs, opts, S)
<1>1. ASSUME NEW p
      PROVE  RowOf([NewFile(p) EXCEPT !.stat = Lstat(p), !.target = Target(p)])
                = RowIn(fs, opts, p)
  <2>1. PICK l : l = Lstat(p) /\ l = LstatIn(fs, p)
    BY StatsAreIn
  <2>2. PICK t : t = Target(p) /\ t = TargetIn(fs, p)
    BY StatsAreIn
  <2>3. PICK x : x = [NewFile(p) EXCEPT !.stat = l, !.target = t]
    OBVIOUS
  <2>4. x.path = p /\ x.stat = l /\ x.target = t
    BY <2>3 DEF NewFile
  <2>5. RowOf(x) = RowIn(fs, opts, p)
    BY <2>1, <2>2, <2>4, Zenon DEF RowOf, Shown, RowIn
  <2> QED BY <2>1, <2>2, <2>3, <2>5, Zenon
<1> QED BY <1>1, Zenon DEF RowsFor, RowsIn

LEMMA RowsAreFor ==
    ASSUME TypeInv, RowsTrue, NEW k \in DOMAIN out, out[k].event = "rows"
    PROVE  out[k].rows =
              RowsFor(IF out[k].dir = 0 THEN TopFiles ELSE KeptIn(PathOf(k)))
<1>1. k \in 1..Len(out)
  BY PrintedIs
<1>2. out[k].rows = RowsIn(fs, opts, ListedAt(fs, opts, operands, heap, out[k].dir))
  BY <1>1, Zenon DEF RowsTrue
<1>3. ListedAt(fs, opts, operands, heap, out[k].dir)
         = IF out[k].dir = 0 THEN TopFiles ELSE KeptIn(PathOf(k))
  BY ListingsAreOf, Zenon DEF ListedAt, PathOf
<1> QED BY <1>2, <1>3, RowsForAre, Zenon

LEMMA RootRowsAre ==
    ASSUME TypeInv, MainLists, RootRows, pc = "done"
    PROVE  Cardinality(Printed("rows", << >>)) = IF TopFiles = {} THEN 0 ELSE 1
<1>1. ~MainWaits
  BY NothingToCome
<1> QED BY <1>1, PrintedIs, ListingsAreOf, Zenon DEF RootRows, Times

\* The directories that QuietListingIsComplete counts have names.
LEMMA ListedAreNamed ==
    ASSUME TypeInv, NEW p \in ListedDirs
    PROVE  p \in Seq(AnyName) \ {<< >>}
<1>1. CASE p \in TopDirsOf(fs, opts, operands)
  <2>1. operands \in Seq(Seq(AnyName) \ {<< >>})
    BY ListingAssumption DEF ListingAssumption, TypeInv, Parts, PlainType
  <2> QED BY <1>1, <2>1 DEF TopDirsOf, ToSet
<1>2. CASE p \in LabelledOf(out, heap)
  <2>1. PICK k \in 1..Len(out) : out[k].event = "label" /\ p = PathIn(out, heap, k)
    BY <1>2 DEF LabelledOf
  <2>2. out[k] \in Events(Len(heap)) /\ heap \in Seq(FileType)
    BY DEF TypeInv, Parts, OutType, HeapType
  <2>3. out[k].dir \in 1..Len(heap)
    BY <2>1, <2>2 DEF Events
  <2>4. heap[out[k].dir] \in FileType /\ out[k].dir # 0
    BY <2>2, <2>3
  <2> QED BY <2>1, <2>4 DEF PathIn, FileType
<1> QED BY <1>1, <1>2 DEF ListedDirs

LEMMA NearAreNamed ==
    ASSUME TypeInv, NEW p,
           \/ p \in ListedDirs
           \/ \E q \in ListedDirs : p \in Subdirs(q)
           \/ \E k \in DOMAIN out :
                 out[k].event = "rows" /\ out[k].dir # 0 /\ p = PathOf(k)
    PROVE  p # << >>
<1>1. CASE p \in ListedDirs
  BY <1>1, ListedAreNamed
<1>2. CASE \E q \in ListedDirs : p \in Subdirs(q)
  <2>1. PICK q \in Seq(AnyName) \ {<< >>} : p \in Subdirs(q)
    BY <1>2, ListedAreNamed
  <2>2. p \in VisibleOf(fs, opts, q)
    BY <2>1, ListingsAreOf DEF SubdirsOf
  <2> HIDE DEF VisibleOf
  <2>3. p \in Seq(AnyName) \ {<< >>}
    BY <2>1, <2>2, VisibleFacts
  <2> QED BY <2>3
<1>3. CASE \E k \in DOMAIN out : out[k].event = "rows" /\ out[k].dir # 0 /\ p = PathOf(k)
  <2>1. PICK k \in 1..Len(out) : out[k].event = "rows" /\ out[k].dir # 0 /\ p = PathOf(k)
    BY <1>3, PrintedIs
  <2>2. out[k] \in Events(Len(heap)) /\ heap \in Seq(FileType)
    BY DEF TypeInv, Parts, OutType, HeapType
  <2>3. out[k].dir \in 1..Len(heap)
    BY <2>1, <2>2 DEF Events
  <2>4. heap[out[k].dir] \in FileType
    BY <2>2, <2>3
  <2> QED BY <2>1, <2>4 DEF PathOf, FileType
<1> QED BY <1>1, <1>2, <1>3

LEMMA ListedAre ==
    ASSUME TypeInv
    PROVE  TopDirs \cup {PathOf(k) : k \in {k \in DOMAIN out : out[k].event = "label"}}
              = ListedDirs
<1>1. {PathOf(k) : k \in {k \in DOMAIN out : out[k].event = "label"}} = LabelledOf(out, heap)
  BY PrintedIs, Zenon DEF LabelledOf
<1> QED BY <1>1, ListingsAreOf, Zenon DEF ListedDirs

LEMMA WrongIs ==
    ASSUME NEW S
    PROVE  (\/ \E p \in ToSet(operands) : Lstat(p) = "failed"
            \/ \E p \in S : NodeAt(p) = NoNode
            \/ UsesLstat /\ \E p \in UNION {VisibleIn(q) : q \in S} : Lstat(p) = "failed"
            \/ \E p \in TopFiles \cup UNION {KeptIn(q) : q \in S} :
                  UsesTarget(p) /\ Target(p) \in {"failed", "null"})
           <=> Bad(fs, opts, operands, S)
<1>1. \A p : Lstat(p) = LstatIn(fs, p) /\ Target(p) = TargetIn(fs, p) /\ NodeAt(p) = NodeIn(fs, p)
  BY StatsAreIn, EntriesAreIn, Zenon
<1>2. \A p : /\ VisibleIn(p) = VisibleOf(fs, opts, p) /\ KeptIn(p) = KeptOf(fs, opts, p)
             /\ TopFiles = TopFilesOf(fs, opts, operands)
  BY VisibleAreOf, ListingsAreOf, Zenon
<1>3. \A p : UsesTarget(p) /\ Target(p) \in {"failed", "null"} <=> TargetBad(fs, opts, p)
  BY <1>1, Zenon DEF UsesTarget, TargetBad
<1>4. UsesLstat <=> WantsLstat(opts)
  BY DEF UsesLstat, WantsLstat
<1>5. (UsesLstat /\ \E p \in UNION {VisibleIn(q) : q \in S} : Lstat(p) = "failed")
      <=> WantsLstat(opts) /\ \E d \in S : \E p \in VisibleOf(fs, opts, d) : LstatIn(fs, p) = "failed"
  <2> HIDE DEF VisibleOf, VisibleIn, Lstat, LstatIn, UsesLstat, WantsLstat
  <2> QED BY <1>1, <1>2, <1>4
<1>6. (\E p \in TopFiles \cup UNION {KeptIn(q) : q \in S} :
            UsesTarget(p) /\ Target(p) \in {"failed", "null"})
      <=> \/ \E p \in TopFilesOf(fs, opts, operands) : TargetBad(fs, opts, p)
          \/ \E d \in S : \E p \in KeptOf(fs, opts, d) : TargetBad(fs, opts, p)
  <2> HIDE DEF KeptIn, KeptOf, TopFiles, TopFilesOf, TargetBad, UsesTarget, Target
  <2> QED BY <1>2, <1>3
<1>7. (\E p \in ToSet(operands) : Lstat(p) = "failed")
      <=> \E p \in ToSet(operands) : LstatIn(fs, p) = "failed"
  BY <1>1, Zenon
<1>8. (\E p \in S : NodeAt(p) = NoNode) <=> \E p \in S : NodeIn(fs, p) = NoNode
  BY <1>1, Zenon
<1> QED BY <1>5, <1>6, <1>7, <1>8, Zenon DEF Bad

LEMMA ExitIsDue ==
    ASSUME TypeInv, MainLists, ExitOnlyIf, ExitIf, pc = "done"
    PROVE  exit = 1 <=> Bad(fs, opts, operands, ListedDirs)
<1>1. /\ stack = << >> /\ ~MainWaits /\ looked = Len(operands)
      /\ \A p : ListedNow(p) = 0
  BY NothingToCome
<1>2. exit = 1 => Bad(fs, opts, operands, ListedDirs)
  BY DEF ExitOnlyIf
<1>3. ASSUME NEW p \in ToSet(operands), LstatIn(fs, p) = "failed" PROVE exit = 1
  <2>1. operands \in Seq(Seq(AnyName) \ {<< >>})
    BY ListingAssumption DEF ListingAssumption, TypeInv, Parts, PlainType
  <2>2. PICK k \in 1..Len(operands) : operands[k] = p
    BY <2>1 DEF ToSet
  <2> QED BY <1>1, <1>3, <2>2, Zenon DEF ExitIf
<1>4. ASSUME NEW p \in ListedDirs PROVE Settled(fs, opts, exit, p)
  <2>1. Visited(p)
    <3>1. p \in TopDirsOf(fs, opts, operands) \/ LabelsNow(p) # 0
      BY LabelledIs, Zenon DEF ListedDirs
    <3> QED BY <1>1, <3>1, Zenon DEF Visited
  <2>2. ListedNow(p) # 1
    BY <1>1
  <2> QED BY <2>1, <2>2, Zenon DEF ExitIf
<1>5. ASSUME NEW p \in TopFilesOf(fs, opts, operands), TargetBad(fs, opts, p) PROVE exit = 1
  BY <1>1, <1>5, Zenon DEF ExitIf
<1>6. ASSUME NEW d \in ListedDirs,
             \/ NodeIn(fs, d) = NoNode
             \/ WantsLstat(opts) /\ \E p \in VisibleOf(fs, opts, d) : LstatIn(fs, p) = "failed"
             \/ \E p \in KeptOf(fs, opts, d) : TargetBad(fs, opts, p)
      PROVE  exit = 1
  BY <1>4, <1>6, Zenon DEF Settled
<1>7. Bad(fs, opts, operands, ListedDirs) => exit = 1
  BY <1>3, <1>5, <1>6, Zenon DEF Bad
<1> QED BY <1>2, <1>7

LEMMA QuietIsComplete ==
    ASSUME TypeInv, QuietInv
    PROVE  QuietListingIsComplete
<1> SUFFICES ASSUME pc = "done", Quiet
             PROVE  QuietListingIsComplete
  BY Zenon DEF QuietListingIsComplete, Quiet
<1> DEFINE events(e) == {k \in DOMAIN out : out[k].event = e}
           listed == TopDirs \cup {PathOf(k) : k \in events("label")}
           near   == listed \cup (UNION {Subdirs(p) : p \in listed})
                            \cup {PathOf(k) : k \in {k \in events("rows") : out[k].dir # 0}}
           seen   == TopFiles \cup UNION {KeptIn(p) : p \in listed}
<1>1. /\ MainLists /\ RowsTrue /\ RootRows /\ (\A p : CountFor(p)) /\ ExitOnlyIf /\ ExitIf
  BY Zenon DEF QuietInv
<1>2. listed = ListedDirs
  BY ListedAre, Zenon
<1>3. ASSUME NEW p \in near PROVE p # << >>
  <2>1. \/ p \in ListedDirs
        \/ \E q \in ListedDirs : p \in Subdirs(q)
        \/ \E k \in DOMAIN out : out[k].event = "rows" /\ out[k].dir # 0 /\ p = PathOf(k)
    <3> HIDE DEF Subdirs, ListedDirs, TopDirs, PathOf
    <3>1. CASE p \in listed
      <4> HIDE DEF listed
      <4> QED BY <1>2, <3>1
    <3>2. CASE p \in UNION {Subdirs(q) : q \in listed}
      <4> HIDE DEF listed
      <4> QED BY <1>2, <3>2
    <3>3. CASE p \in {PathOf(k) : k \in {k \in events("rows") : out[k].dir # 0}}
      BY <3>3
    <3>4. \/ p \in listed \/ p \in UNION {Subdirs(q) : q \in listed}
          \/ p \in {PathOf(k) : k \in {k \in events("rows") : out[k].dir # 0}}
      <4> HIDE DEF listed, events
      <4> QED BY <1>3
    <3> QED BY <3>1, <3>2, <3>3, <3>4, Zenon
  <2> QED BY <2>1, NearAreNamed
<1>4. \/ \A p \in near : Cardinality(Printed("label", p)) = Due(p)
      \/ /\ ~opts.recursive /\ events("label") = {}
         /\ \A k, m \in DOMAIN operands :
               operands[k] \in TopDirs /\ operands[m] \in TopDirs => k = m
  <2>1. CASE Alone
    BY <1>1, <2>1, AloneIsAlone, Zenon
  <2>2. CASE ~Alone
    BY <1>1, <2>2, LabelsAreDue
  <2> QED BY <2>1, <2>2, Zenon
<1>5. \A p \in near : Cardinality(Printed("rows", p)) = IF KeptIn(p) = {} THEN 0 ELSE Due(p)
  BY <1>1, <1>3, RowsAreDue
<1>6. Cardinality(Printed("rows", << >>)) = IF TopFiles = {} THEN 0 ELSE 1
  BY <1>1, RootRowsAre
<1>7. \A k \in events("rows") :
         out[k].rows = RowsFor(IF out[k].dir = 0 THEN TopFiles ELSE KeptIn(PathOf(k)))
  <2> HIDE DEF RowsFor, TopFiles, KeptIn, PathOf
  <2> QED BY <1>1, RowsAreFor
<1>8. exit = 1 <=>
        \/ \E p \in ToSet(operands) : Lstat(p) = "failed"
        \/ \E p \in listed : NodeAt(p) = NoNode
        \/ UsesLstat /\ \E p \in UNION {VisibleIn(q) : q \in listed} : Lstat(p) = "failed"
        \/ \E p \in seen : UsesTarget(p) /\ Target(p) \in {"failed", "null"}
  BY <1>1, <1>2, ExitIsDue, WrongIs, Zenon
<1> QED BY <1>4, <1>5, <1>6, <1>7, <1>8, Zenon DEF QuietListingIsComplete

\* A listing that nothing disturbs is complete, however many operands name a
\* directory and in whatever order it is met: each directory is listed as often
\* as it is due, with the rows it is due, and the exit status is 1 exactly when
\* something asked for could not be listed (l.c:297-478, SPEC.md:290-303, 336).
THEOREM QuietListingCompletes == Spec => []QuietListingIsComplete
<1>1. ASSUME Init PROVE TypeInv /\ SectionInv /\ EntryInv /\ QuietInv
  BY <1>1, TypeInit, SectionInit, QuietInit
<1>2. ASSUME TypeInv /\ SectionInv /\ EntryInv /\ QuietInv, [Next]_vars
      PROVE  (TypeInv /\ SectionInv /\ EntryInv /\ QuietInv)'
  BY <1>2, TypeStep, SectionStep, EntryStep, QuietInvStep
<1>3. TypeInv /\ QuietInv => QuietListingIsComplete
  BY QuietIsComplete
<1> QED BY <1>1, <1>2, <1>3, PTL DEF Spec
=============================================================================
