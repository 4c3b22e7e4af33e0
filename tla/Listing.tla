------------------------------ MODULE Listing ------------------------------
(* How l.c turns operands into output: main() sorts them into files and        *)
(* directories, listdirs() and listdir() call each other down the tree, and    *)
(* listfiles() prints what a directory holds and decides the exit status.      *)
(* Each step makes at most one system call, and the file system may change     *)
(* between any two.  What lies behind a symlink is one step here:              *)
(* SymlinkChain has its parts.                                                 *)
EXTENDS Naturals, Sequences, FiniteSets, SequencesExt

CONSTANTS
    Nodes,              \* directories
    Root,               \* the working directory
    NoNode,             \* no directory
    Names,              \* names an entry of a directory may have ...
    Hidden,             \* ... and those of them that start with a dot
    FileSystems,        \* the contents the file system may have
    InitialFileSystems, \* and those it may start with
    OptionSets,         \* the options a listing may be run with
    OperandLists,       \* the operands: "." when none was given
    Orders,             \* orders in which readdir() may return names
    MaxTroubles         \* bound: how often the file system changes, readdir()
                        \* fails or malloc() fails, taken together

Dots == {".", ".."}
AnyName == Names \cup Dots

\* What a directory holds under a name.  An "opaque" entry is read from the
\* directory but cannot be lstat'd; a "locked" directory cannot be opened.
\* Links lead to a directory ("link"), a file, nothing, or round in a loop.
Entry == [kind: {"none", "opaque", "file", "dir", "locked", "link",
                 "linkfile", "dangling", "loop"},
          node: Nodes \cup {NoNode}]

\* -a, -D, -R, -d, -s (the total and a column), any column or order that needs
\* an lstat(), -H, -L.
Options == [all: BOOLEAN, dirsonly: BOOLEAN, recursive: BOOLEAN,
            directory: BOOLEAN, dirtotals: BOOLEAN, columns: BOOLEAN,
            follow: BOOLEAN, targetinfo: BOOLEAN]

ASSUME ListingAssumption ==
    /\ Root \in Nodes /\ NoNode \notin Nodes
    /\ Hidden \subseteq Names /\ Names \cap Dots = {}
    /\ FileSystems \subseteq [Nodes -> [Names -> Entry]]
    /\ InitialFileSystems \subseteq FileSystems
    /\ OptionSets \subseteq
         {o \in Options : (o.targetinfo => o.follow) /\ (o.dirtotals => o.columns)}
    /\ OperandLists \subseteq Seq(Seq(AnyName) \ {<< >>})
    /\ \A o \in Orders : o \in Seq(AnyName) /\ ToSet(o) = AnyName
    /\ MaxTroubles \in Nat

VARIABLES
    fs,         \* the file system
    changes,    \* how often it has changed
    faults,     \* how often readdir() has failed
    shortages,  \* how often malloc() has failed, for one call or for several
    opts,       \* the options
    order,      \* the order of the names in every directory
    operands,   \* the operands, argv
    looked,     \* how many of them main() has looked at
    heap,       \* every File made so far; a position is its address
    stack,      \* main()'s lists below, those of each active listdir() above
    unread,     \* the names the open directory stream has yet to return
    streams,    \* how many directory streams are open
    total,      \* totalblocks
    pc,         \* what happens next
    out,        \* the lines printed, of which a listing's rows are one event
    exit        \* exitstatus

vars == <<fs, changes, faults, shortages, opts, order, operands, looked, heap,
          stack, unread, streams, total, pc, out, exit>>
world == <<fs, changes, opts, order, operands>>

-----------------------------------------------------------------------------
(* The file system.                                                            *)

EntryOf(n, name) ==
    CASE name = "."  -> [kind |-> "dir", node |-> n]
      [] name = ".." -> [kind |-> "dir", node |-> Root]
      [] OTHER       -> fs[n][name]

\* The directory that opendir() of a path reaches, through links too.
NodeAt(path) ==
    LET at[i \in 0..Len(path)] ==
          IF i = 0 THEN Root
          ELSE IF at[i - 1] = NoNode THEN NoNode
          ELSE LET e == EntryOf(at[i - 1], path[i])
               IN  IF e.kind \in {"dir", "link"} THEN e.node ELSE NoNode
    IN  at[Len(path)]

EntryAt(path) ==
    LET parent == NodeAt(Front(path))
    IN  IF parent = NoNode THEN [kind |-> "none", node |-> NoNode]
        ELSE EntryOf(parent, Last(path))

\* What lstat() says: the type, or "failed".
Lstat(path) ==
    LET k == EntryAt(path).kind
    IN  CASE k \in {"none", "opaque"} -> "failed"
          [] k \in {"dir", "locked"}  -> "dir"
          [] k = "file"               -> "file"
          [] OTHER                    -> "link"

\* What getfinaltarget() and an lstat() of its result find: the target's type,
\* "failed" for a target that cannot be stat'd, "null" where there is none.
Target(path) ==
    LET k == EntryAt(path).kind
    IN  CASE k = "link"     -> "dir"
          [] k = "linkfile" -> "file"
          [] k = "dangling" -> "failed"
          [] OTHER          -> "null"

\* getblocks(): 0 for what could not be stat'd, and for a short link.
Blocks(type) == CASE type = "file" -> 2 [] type = "dir" -> 1 [] OTHER -> 0

-----------------------------------------------------------------------------
(* Files and frames.                                                           *)

\* stat and target are remembered once asked for ("unknown" before).  A File has
\* lacked an answer when one it was asked for was not to be had for want of
\* memory; getstat() does not remember that, and may answer the next time.
NewFile(path) == [path |-> path, stat |-> "unknown", target |-> "unknown",
                  lacked |-> FALSE, freed |-> 0]

\* f once its lstat() has said st, and once its final target has turned out t.
StatIs(f, st) == [f EXCEPT !.stat = st, !.lacked = @ \/ st = "unknown"]
TargetIs(f, t) == [f EXCEPT !.target = t, !.lacked = @ \/ t \in {"unknown", "link"}]

\* One activation of main() or listdir(): the File it lists (0 in main()), its
\* files and directories, how many of those listdirs() has listed, and
\* listdirs()'s firstoutput.
Frame(dir, first) ==
    [dir |-> dir, files |-> << >>, dirs |-> << >>, listed |-> 0, first |-> first]

Top == stack[Len(stack)]
InMain == Len(stack) = 1
WithTop(f) == [stack EXCEPT ![Len(stack)] = f]
Pop == Front(stack)

Cur == Len(heap)

FreeAll(h, ids) == [i \in DOMAIN h |->
    [h[i] EXCEPT !.freed = @ + Cardinality({k \in DOMAIN ids : ids[k] = i})]]

Trouble == changes + faults + shortages < MaxTroubles

\* A failing malloc() is the alternative to a step.
Shortage == Trouble /\ shortages' = shortages + 1

Stats == {"unknown", "failed", "file", "dir", "link"}
Targets == {"unknown", "null", "failed", "file", "dir", "link"}

\* getstat() of a File not yet stat'd: what lstat() says, or no answer.
GetStat(path, st) ==
    \/ st = Lstat(path) /\ UNCHANGED shortages
    \/ st = "unknown" /\ Shortage

\* getfinaltarget() and getstat() of its result, not yet asked for.  Where
\* malloc() fails the walk may end without a target, or at a link, both of which
\* are remembered, or the target may lack an answer.
GetFinalTarget(path, t) ==
    \/ t = Target(path) /\ UNCHANGED shortages
    \/ t \in {"null", "link", "unknown"} /\ Target(path) # "null" /\ Shortage

-----------------------------------------------------------------------------
(* main(): the operands.                                                       *)

\* Where main() puts the File of an operand of which isstat() and isdir() say st.
PlaceOperand(path, st) ==
    LET file == StatIs(NewFile(path), st)
        id   == Len(heap) + 1
    IN  CASE st \in {"failed", "unknown"} ->
               /\ heap' = Append(heap, [file EXCEPT !.freed = 1])
               /\ exit' = 1
               /\ UNCHANGED <<stack, pc>>
          [] st = "dir" /\ ~opts.directory ->
               /\ heap' = Append(heap, file)
               /\ stack' = WithTop([Top EXCEPT !.dirs = Append(@, id)])
               /\ UNCHANGED <<pc, exit>>
          [] st = "link" /\ ~opts.directory /\ opts.follow ->
               /\ heap' = Append(heap, file)
               /\ pc' = "islinktodir"
               /\ UNCHANGED <<stack, exit>>
          [] OTHER ->
               /\ heap' = Append(heap, file)
               /\ stack' = WithTop([Top EXCEPT !.files = Append(@, id)])
               /\ UNCHANGED <<pc, exit>>

Operand ==
    /\ pc = "operand" /\ looked < Len(operands)
    /\ looked' = looked + 1
    /\ \E st \in Stats : /\ GetStat(operands[looked + 1], st)
                         /\ PlaceOperand(operands[looked + 1], st)
    /\ UNCHANGED <<world, faults, unread, streams, total, out>>

IsLinkToDir ==
    /\ pc = "islinktodir"
    /\ \E t \in Targets :
         /\ GetFinalTarget(heap[Cur].path, t)
         /\ heap' = [heap EXCEPT ![Cur] = TargetIs(@, t)]
         /\ stack' = WithTop(IF t = "dir"
                             THEN [Top EXCEPT !.dirs = Append(@, Cur)]
                             ELSE [Top EXCEPT !.files = Append(@, Cur)])
    /\ pc' = "operand"
    /\ UNCHANGED <<world, faults, looked, unread, streams, total, out, exit>>

OperandsDone ==
    /\ pc = "operand" /\ looked = Len(operands)
    /\ stack' = WithTop([Top EXCEPT !.first = (Top.files = << >>)])
    /\ pc' = "files"
    /\ UNCHANGED <<world, faults, shortages, looked, heap, unread, streams,
                   total, out, exit>>

-----------------------------------------------------------------------------
(* listfiles(), of the files of the top frame.                                 *)

InTopFiles == {Top.files[k] : k \in DOMAIN Top.files}

StatNeeded(i) == heap[i].stat = "unknown" /\ (opts.columns \/ opts.targetinfo)
TargetNeeded(i) ==
    opts.targetinfo /\ heap[i].stat = "link" /\ heap[i].target = "unknown"

\* Comparisons and fields lstat() what nothing has yet ...
StatFile ==
    /\ pc = "files"
    /\ \E i \in InTopFiles, st \in Stats :
         /\ StatNeeded(i)
         /\ GetStat(heap[i].path, st)
         /\ heap' = [heap EXCEPT ![i] = StatIs(@, st)]
    /\ UNCHANGED <<world, faults, looked, stack, unread, streams, total, pc, out, exit>>

\* ... and -L follows the links.
FollowFile ==
    /\ pc = "files"
    /\ \E i \in InTopFiles, t \in Targets :
         /\ TargetNeeded(i)
         /\ GetFinalTarget(heap[i].path, t)
         /\ heap' = [heap EXCEPT ![i] = TargetIs(@, t)]
    /\ UNCHANGED <<world, faults, looked, stack, unread, streams, total, pc, out, exit>>

\* Faulty: -L takes every File for a link.
ShownUnderL(f) == IF opts.targetinfo THEN f.target ELSE f.stat

\* Faulty: the row is made from another lstat(), not from the one remembered.
ShownAfresh(f) == IF opts.targetinfo /\ f.stat = "link" THEN f.target ELSE Lstat(f.path)

\* getfilefields() shows the File or, under -L, a link's final target.
Shown(f) == IF opts.targetinfo /\ f.stat = "link" THEN f.target ELSE f.stat

RowOf(f) ==
    [path |-> f.path,
     shows |-> IF ~opts.columns THEN "name"
               ELSE IF Shown(f) \in {"failed", "null"} THEN "?" ELSE Shown(f)]

\* What a File that has lacked an answer may show: ? where it still did, or what
\* the call after learnt, of the link itself if that was all -L knew of it.
MayShow(f) ==
    IF ~opts.columns THEN {"name"}
    ELSE {s \in {"?", "file", "dir", "link"} :
            s = "?" \/ s = f.stat \/ (opts.targetinfo /\ s = f.target)}

Lacking == {i \in InTopFiles : heap[i].lacked}

\* The rows that may be printed of the top frame's files: there is a choice only
\* where memory has run out.
RowSets ==
    {{IF heap[i].lacked THEN [path |-> heap[i].path, shows |-> shown[i]]
                        ELSE RowOf(heap[i]) : i \in InTopFiles} :
        shown \in {f \in [Lacking -> {"name", "?", "file", "dir", "link"}] :
                    \A i \in Lacking : f[i] \in MayShow(heap[i])}}

\* Faulty: the targets -L shows are not looked at.
IncompleteItself(f) == f.stat = "failed"

\* The exit status is decided after the fields are made: statfailed(), or under
\* -L a target that is missing or could not be stat'd.
Incomplete(f) ==
    \/ f.stat = "failed"
    \/ opts.targetinfo /\ f.stat = "link" /\ f.target \in {"failed", "null"}

PrintFiles ==
    /\ pc = "files"
    /\ \A i \in InTopFiles : heap[i].lacked \/ (~StatNeeded(i) /\ ~TargetNeeded(i))
    /\ \E rows \in RowSets :
         out' = IF Top.files = << >> THEN out
                ELSE Append(out, [event |-> "rows", dir |-> Top.dir, rows |-> rows])
    /\ exit' = IF \E i \in InTopFiles : Incomplete(heap[i]) THEN 1 ELSE exit
    \* main() is done with its files; listdir() keeps them while it recurses
    /\ IF InMain
       THEN /\ heap' = FreeAll(heap, Top.files)
            /\ stack' = WithTop([Top EXCEPT !.files = << >>])
       ELSE UNCHANGED <<heap, stack>>
    /\ pc' = IF InMain \/ opts.recursive THEN "dirs" ELSE "return"
    /\ UNCHANGED <<world, faults, shortages, looked, unread, streams, total>>

-----------------------------------------------------------------------------
(* listdirs(), of the directories of the top frame.                            *)

\* Faulty: a single directory goes without a label even after files.
NeedLabelIfMany == Len(Top.dirs) > 1 \/ opts.recursive

NeedLabel == Len(Top.dirs) > 1 \/ ~Top.first \/ opts.recursive

\* The blank line and the label of the next directory, and the call of
\* listdir(), which makes its list of files.
NextDir ==
    /\ pc = "dirs" /\ Top.listed < Len(Top.dirs)
    /\ LET n     == Top.listed + 1
           id    == Top.dirs[n]
           blank == IF n > 1 \/ ~Top.first THEN <<[event |-> "blank"]>> ELSE << >>
           label == IF NeedLabel THEN <<[event |-> "label", dir |-> id]>> ELSE << >>
       IN  /\ out' = out \o blank \o label
           /\ stack' = Append(WithTop([Top EXCEPT !.listed = n]), Frame(id, FALSE))
    /\ pc' = "open"
    /\ UNCHANGED <<world, faults, shortages, looked, heap, unread, streams,
                   total, exit>>

\* listdirs() returns: to main(), which frees its directories and exits, or to
\* listdir().
DirsDone ==
    /\ pc = "dirs" /\ Top.listed = Len(Top.dirs)
    /\ IF InMain
       THEN /\ heap' = FreeAll(heap, Top.dirs)
            /\ stack' = << >>
            /\ pc' = "done"
       ELSE /\ pc' = "return"
            /\ UNCHANGED <<heap, stack>>
    /\ UNCHANGED <<world, faults, shortages, looked, unread, streams, total,
                   out, exit>>

-----------------------------------------------------------------------------
(* listdir(), of the File of the top frame.                                    *)

\* Faulty: a directory that cannot be opened is tried again.
OpenRetries ==
    /\ pc = "open"
    /\ LET n == NodeAt(heap[Top.dir].path)
       IN  IF n = NoNode
           THEN exit' = 1 /\ UNCHANGED <<stack, pc, unread, streams, total>>
           ELSE /\ unread' = Dots \cup {e \in Names : fs[n][e].kind # "none"}
                /\ streams' = streams + 1
                /\ total' = 0
                /\ pc' = "read"
                /\ UNCHANGED <<stack, exit>>
    /\ UNCHANGED <<world, faults, shortages, looked, heap, out>>

\* opendir() follows links; the stream returns the names there are now.
Open ==
    /\ pc = "open"
    /\ LET n == NodeAt(heap[Top.dir].path)
       IN  IF n = NoNode
           THEN /\ exit' = 1 /\ stack' = Pop /\ pc' = "dirs"
                /\ UNCHANGED <<unread, streams, total>>
           ELSE /\ unread' = Dots \cup {e \in Names : fs[n][e].kind # "none"}
                /\ streams' = streams + 1
                /\ total' = 0
                /\ pc' = "read"
                /\ UNCHANGED <<stack, exit>>
    /\ UNCHANGED <<world, faults, shortages, looked, heap, out>>

\* newlist() fails, before opendir() or after it: listdir() gives up.
OpenShortage ==
    /\ pc = "open"
    /\ Shortage
    /\ stack' = Pop
    /\ pc' = "dirs"
    /\ UNCHANGED <<world, faults, looked, heap, unread, streams, total, out, exit>>

\* closedir(), and the total, at the end of the read loop.
CloseStream ==
    /\ streams' = streams - 1
    /\ unread' = {}
    /\ out' = IF opts.dirtotals
              THEN Append(out, [event |-> "total", dir |-> Top.dir, blocks |-> total])
              ELSE out
    /\ pc' = "files"

\* Of the names not yet returned, the first in the directory's order.
IsNext(name) ==
    \E k \in DOMAIN order : order[k] = name /\ \A j \in 1..k - 1 : order[j] \notin unread

\* readdir() returns a name: a hidden one is skipped, another gets a File.
\* -D, -R and the total each lstat() it at once.
ReadEntry ==
    /\ pc = "read" /\ unread # {}
    /\ \E name \in unread :
          /\ IsNext(name)
          /\ unread' = unread \ {name}
          /\ IF name \in Hidden \cup Dots /\ ~opts.all
             THEN UNCHANGED <<heap, stack, pc>>
             ELSE /\ heap' = Append(heap, NewFile(Append(heap[Top.dir].path, name)))
                  /\ IF opts.dirsonly \/ opts.recursive \/ opts.dirtotals
                     THEN pc' = "entry" /\ UNCHANGED stack
                     ELSE /\ stack' = WithTop([Top EXCEPT !.files = Append(@, Cur + 1)])
                          /\ UNCHANGED pc
    /\ UNCHANGED <<world, faults, shortages, looked, streams, total, out, exit>>

\* Faulty: only the directory itself is recognised.
IsDot(path) == Last(path) = "."

IsDotOrDotDot(path) == Last(path) \in Dots

\* want(), the lists the entry goes on, and the total: isdir() has seen one
\* thing, and st is what the File has to say in the end.
PlaceEntry(seen, st) ==
    IF opts.dirsonly /\ seen # "dir"
    THEN /\ heap' = [heap EXCEPT ![Cur] = [StatIs(@, st) EXCEPT !.freed = 1]]
         /\ exit' = IF st = "failed" THEN 1 ELSE exit
         /\ UNCHANGED <<stack, total>>
    ELSE /\ heap' = [heap EXCEPT ![Cur] = StatIs(@, st)]
         /\ stack' = WithTop([Top EXCEPT
              !.files = Append(@, Cur),
              !.dirs = IF /\ opts.recursive /\ seen = "dir"
                          /\ ~IsDotOrDotDot(heap[Cur].path)
                       THEN Append(@, Cur) ELSE @])
         /\ total' = IF opts.dirtotals THEN total + Blocks(st) ELSE total
         /\ UNCHANGED exit

\* Where isdir() of -R had no answer, getblocks() asks again, and may have one.
StatEntry ==
    /\ pc = "entry"
    /\ \E seen \in Stats, st \in Stats :
         /\ GetStat(heap[Cur].path, seen)
         /\ \/ st = seen
            \/ /\ seen = "unknown" /\ st = Lstat(heap[Cur].path)
               /\ ~opts.dirsonly /\ opts.recursive /\ opts.dirtotals
         /\ PlaceEntry(seen, st)
    /\ pc' = "read"
    /\ UNCHANGED <<world, faults, looked, unread, streams, out>>

ReadEnd ==
    /\ pc = "read" /\ unread = {}
    /\ CloseStream
    /\ UNCHANGED <<world, faults, shortages, looked, heap, stack, total, exit>>

\* Faulty: an error of readdir() is taken for the end.
ReadFaultUnseen ==
    /\ pc = "read"
    /\ Trouble /\ faults' = faults + 1
    /\ CloseStream
    /\ UNCHANGED <<world, shortages, looked, heap, stack, total, exit>>

\* readdir() fails: what was read so far is listed.
ReadFault ==
    /\ pc = "read"
    /\ Trouble /\ faults' = faults + 1
    /\ exit' = 1
    /\ CloseStream
    /\ UNCHANGED <<world, shortages, looked, heap, stack, total>>

\* newfile() fails: the loop ends without an error from readdir().
ReadShortage ==
    /\ pc = "read" /\ unread # {}
    /\ Shortage
    /\ CloseStream
    /\ UNCHANGED <<world, faults, looked, heap, stack, total, exit>>

\* Faulty: the list of subdirectories frees its Files too.
OwnsSubdirs(f) == f.files \o f.dirs

\* The Files that listdir() frees: subdirs owns none.
Owns(f) == f.files

Return ==
    /\ pc = "return"
    /\ heap' = FreeAll(heap, Owns(Top))
    /\ stack' = Pop
    /\ pc' = "dirs"
    /\ UNCHANGED <<world, faults, shortages, looked, unread, streams, total,
                   out, exit>>

-----------------------------------------------------------------------------
\* Another process replaces, removes or creates one entry.
Change ==
    /\ Trouble /\ changes' = changes + 1
    /\ pc # "done"
    /\ fs' \in FileSystems \ {fs}
    /\ \E n \in Nodes, e \in Names : fs' = [fs EXCEPT ![n][e] = fs'[n][e]]
    /\ UNCHANGED <<faults, shortages, opts, order, operands, looked, heap,
                   stack, unread, streams, total, pc, out, exit>>

Init ==
    /\ fs \in InitialFileSystems
    /\ changes = 0 /\ faults = 0 /\ shortages = 0
    /\ opts \in OptionSets /\ order \in Orders
    /\ operands \in OperandLists /\ looked = 0
    /\ heap = << >> /\ stack = <<Frame(0, TRUE)>>
    /\ unread = {} /\ streams = 0 /\ total = 0
    /\ pc = "operand" /\ out = << >> /\ exit = 0

Program ==
    \/ Operand \/ IsLinkToDir \/ OperandsDone
    \/ StatFile \/ FollowFile \/ PrintFiles
    \/ NextDir \/ DirsDone
    \/ Open \/ OpenShortage \/ ReadEntry \/ StatEntry
    \/ ReadEnd \/ ReadFault \/ ReadShortage \/ Return

Terminated == pc = "done" /\ UNCHANGED vars

Next == Program \/ Change \/ Terminated

Spec == Init /\ [][Next]_vars
FairSpec == Spec /\ WF_vars(Program)

-----------------------------------------------------------------------------
(* What must hold.                                                             *)

FileType == [path: Seq(AnyName) \ {<< >>}, stat: Stats, target: Targets,
             lacked: BOOLEAN, freed: Nat]
FrameType == [dir: 0..Len(heap), files: Seq(1..Len(heap)),
              dirs: Seq(1..Len(heap)), listed: Nat, first: BOOLEAN]

TypeOK ==
    /\ fs \in FileSystems
    /\ changes \in Nat /\ faults \in Nat /\ shortages \in Nat
    /\ opts \in OptionSets /\ order \in Orders
    /\ operands \in OperandLists /\ looked \in 0..Len(operands)
    /\ heap \in Seq(FileType) /\ stack \in Seq(FrameType)
    /\ (stack = << >>) <=> (pc = "done")
    /\ \A k \in DOMAIN stack : stack[k].listed <= Len(stack[k].dirs)
    /\ unread \subseteq AnyName /\ streams \in Nat /\ total \in Nat
    /\ pc \in {"operand", "islinktodir", "files", "dirs", "open", "read",
               "entry", "return", "done"}
    /\ out \in Seq([event: {"blank"}]
                   \cup [event: {"label"}, dir: 1..Len(heap)]
                   \cup [event: {"total"}, dir: 1..Len(heap), blocks: Nat]
                   \cup [event: {"rows"}, dir: 0..Len(heap),
                         rows: SUBSET [path: Seq(AnyName),
                                       shows: {"name", "?", "file", "dir", "link"}]])
    /\ exit \in {0, 1}

\* A File on two lists has one owner: none is freed twice, none is freed that
\* an active call still reaches, and none is left when main() returns.
FilesFreedOnce ==
    /\ \A i \in DOMAIN heap : heap[i].freed <= 1
    /\ \A k \in DOMAIN stack :
         \A i \in ToSet(stack[k].files \o stack[k].dirs) \cup ({stack[k].dir} \ {0}) :
            heap[i].freed = 0
    /\ pc = "done" => \A i \in DOMAIN heap : heap[i].freed = 1

\* One directory stream is open at a time: listdir() closes its own before it
\* recurses (l.c:423).
OneStream == streams = IF pc \in {"read", "entry"} THEN 1 ELSE 0

\* However deep the recursion and whatever fails in it, each File is freed once
\* and only when nothing can reach it, and each directory stream is closed before
\* the next is opened (l.c:407-435, 110-116).
NothingLeaks == FilesFreedOnce /\ OneStream

\* Recursion only ever goes down, into what lstat() called a directory and
\* never into "." or "..", which -a lists too, however the entries change
\* between that lstat() and opendir() (l.c:408, SPEC.md:303).
RecursionGoesDown ==
    \A k \in 3..Len(stack) :
        LET dir == heap[stack[k].dir]
            up  == heap[stack[k - 1].dir]
        IN  /\ Front(dir.path) = up.path
            /\ Last(dir.path) \in Names
            /\ dir.stat = "dir"

\* The sections of the output can be told apart: a blank line comes between
\* any two, never first and never without a label after it; what a directory
\* holds follows its own label, and a directory goes without one only where
\* nothing else is listed (SPEC.md:296-297; l.c:441-455).
SectionsAreSeparate ==
    LET is(k, e) == out[k].event = e
        labels == {k \in DOMAIN out : is(k, "label")}
    IN  \A k \in DOMAIN out :
          /\ is(k, "blank") =>
               k > 1 /\ k < Len(out) /\ is(k + 1, "label") /\ ~is(k - 1, "blank")
          /\ is(k, "label") => k = 1 \/ is(k - 1, "blank")
          /\ is(k, "rows") /\ out[k].dir = 0 => k = 1
          /\ (is(k, "rows") \/ is(k, "total")) /\ out[k].dir # 0 =>
               IF labels = {}
               THEN \A j \in DOMAIN out : out[j].dir = out[k].dir
               ELSE \E j \in labels : /\ j < k /\ out[j].dir = out[k].dir
                                      /\ \A i \in labels : i <= j \/ i > k

\* The total is added up while the directory is read and the rows are made
\* after it: they agree, because both see the one remembered lstat() of each
\* entry, though the files change in between, and though memory runs out, unless
\* an lstat() itself goes without.  Under -L the rows are of other files than the
\* total (l.c:413, SPEC.md:313).
TotalIsSumOfRows ==
    \A k \in DOMAIN out :
        /\ out[k].event = "total" /\ ~opts.targetinfo
        /\ \A i \in DOMAIN heap : ~heap[i].lacked
        /\ pc = "files" => out[k].dir # Top.dir
        => LET rows == UNION {out[j].rows : j \in {j \in DOMAIN out :
                            out[j].event = "rows" /\ out[j].dir = out[k].dir}}
           IN  out[k].blocks = MapThenSumSet(LAMBDA r : Blocks(r.shows), rows)

\* What a listing of an unchanging file system shows of a directory, and the
\* directories below it that -R goes on with.
VisibleIn(path) ==
    IF NodeAt(path) = NoNode THEN {}
    ELSE {Append(path, e) : e \in
            IF opts.all THEN Dots \cup {e \in Names : fs[NodeAt(path)][e].kind # "none"}
            ELSE {e \in Names \ Hidden : fs[NodeAt(path)][e].kind # "none"}}
KeptIn(path) == {p \in VisibleIn(path) : opts.dirsonly => Lstat(p) = "dir"}
Subdirs(path) ==
    {p \in VisibleIn(path) : opts.recursive /\ Lstat(p) = "dir" /\ Last(p) \in Names}
TopDirs == {p \in ToSet(operands) : ~opts.directory /\
              (\/ Lstat(p) = "dir"
               \/ opts.follow /\ Lstat(p) = "link" /\ Target(p) = "dir")}
TopFiles == {p \in ToSet(operands) : Lstat(p) # "failed"} \ TopDirs
RowsFor(paths) == {RowOf([NewFile(p) EXCEPT !.stat = Lstat(p), !.target = Target(p)]) :
                     p \in paths}
UsesLstat == opts.columns \/ opts.targetinfo \/ opts.dirsonly \/ opts.recursive
UsesTarget(p) == opts.targetinfo /\ Lstat(p) = "link"

\* How often a directory was printed, and how often it was due: for each operand
\* that names it, and each time the directory it is in was listed under -R.
\* (Paths grow, so what is due follows from the operands.)
PathOf(k) == IF out[k].dir = 0 THEN << >> ELSE heap[out[k].dir].path
Printed(e, path) == {k \in DOMAIN out : out[k].event = e /\ PathOf(k) = path}
Asked(path) == {k \in DOMAIN operands : operands[k] = path /\ path \in TopDirs}
Due(path) ==
    Cardinality(Asked(path))
    + IF path \in Subdirs(Front(path)) THEN Cardinality(Printed("label", Front(path))) ELSE 0

\* Where nothing changes and no call fails for want of memory, l lists each
\* directory as often as it should, also where operands overlap, each time with
\* the rows it should have, and exits 1 exactly when one of them could not be
\* opened or something it had to know could not be found out (SPEC.md:290-303, 336).
QuietListingIsComplete ==
    pc = "done" /\ changes = 0 /\ faults = 0 /\ shortages = 0 =>
        LET events(e) == {k \in DOMAIN out : out[k].event = e}
            listed == TopDirs \cup {PathOf(k) : k \in events("label")}
            near   == listed \cup (UNION {Subdirs(p) : p \in listed})
                             \cup {PathOf(k) : k \in {k \in events("rows") : out[k].dir # 0}}
            seen   == TopFiles \cup UNION {KeptIn(p) : p \in listed}
        IN  /\ \/ \A p \in near : Cardinality(Printed("label", p)) = Due(p)
               \/ /\ ~opts.recursive /\ events("label") = {}
                  /\ \A k, m \in DOMAIN operands :
                        operands[k] \in TopDirs /\ operands[m] \in TopDirs => k = m
            /\ \A p \in near : Cardinality(Printed("rows", p)) =
                                  IF KeptIn(p) = {} THEN 0 ELSE Due(p)
            /\ Cardinality(Printed("rows", << >>)) = IF TopFiles = {} THEN 0 ELSE 1
            /\ \A k \in events("rows") :
                  out[k].rows = RowsFor(IF out[k].dir = 0 THEN TopFiles ELSE KeptIn(PathOf(k)))
            /\ exit = 1 <=>
                 \/ \E p \in ToSet(operands) : Lstat(p) = "failed"
                 \/ \E p \in listed : NodeAt(p) = NoNode
                 \/ UsesLstat /\ \E p \in UNION {VisibleIn(q) : q \in listed} :
                                    Lstat(p) = "failed"
                 \/ \E p \in seen : UsesTarget(p) /\ Target(p) \in {"failed", "null"}

\* However the files change while they are listed, exit status 0 is a promise
\* about what was printed: no directory cut short by readdir(), no entry dropped
\* of which lstat() failed, and no ? in the columns made from getstat(), but of
\* Files that lacked an answer for want of memory (SPEC.md:336; l.c:312-326, 398,
\* 419).  It is none about what memory cut short, which leaves the status alone
\* although SPEC.md:336 says 1 (TODO.md:95), nor about -p, which shows ??? of a
\* file that access(2) does not find, with status 0 (file.c:756-794, TODO.md:120).
ExitZeroIsComplete ==
    pc = "done" /\ exit = 0 =>
        /\ faults = 0
        /\ \A i \in DOMAIN heap : heap[i].stat # "failed"
        /\ \A k \in DOMAIN out : out[k].event = "rows" =>
              \A r \in out[k].rows : r.shows = "?" =>
                 \E i \in DOMAIN heap : heap[i].lacked /\ heap[i].path = r.path

\* The listing ends, links and -a's dots notwithstanding.
ListingEnds == <>(pc = "done")
=============================================================================
