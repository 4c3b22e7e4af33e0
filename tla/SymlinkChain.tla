---------------------------- MODULE SymlinkChain ----------------------------
(* One File of a listing and the chain of symlinks behind it (file.c, and the  *)
(* calls main(), getfilefields(), getnamefield() and listfiles() make on it).  *)
(* A File remembers its lstat(), its immediate target (itself a File) and its  *)
(* final target.  Every step of the program makes at most one system call, and *)
(* the file system may change between any two of them.                         *)
EXTENDS Naturals, Sequences

CONSTANTS
    Paths,          \* what lstat(), stat() and readlink() can be asked about
    First,          \* the path of the listed File
    Inodes,         \* device and inode pairs
    NoInode,        \* stands in for the inode of what does not exist
    FileSystems,    \* the contents the file system may have
    OptionSets,     \* the options the listing may be run with
    MaxChain,       \* MAXCHAIN, the most links l follows from one symlink
    KernelMax,      \* the most links the kernel follows in one stat()
    MaxChanges,     \* bound: how often the file system changes ...
    Endless,        \* ... unless this is TRUE
    MaxShortages    \* bound: how often malloc() fails

\* A "locked" link is one that can be lstat'd but not read (or whose target
\* does not fit the buffer); "none" is whatever cannot be lstat'd.
Entry == [kind: {"none", "file", "dir", "link", "locked"},
          ino: Inodes \cup {NoInode}, to: Paths]

\* What getstat() returns; NoStat is its NULL.
Stat == [kind: {"none", "file", "dir", "link"}, ino: Inodes \cup {NoInode}]
NoStat == [kind |-> "none", ino |-> NoInode]

File == [path: Paths, didstat: BOOLEAN, pstat: Stat]

\* arg: how the File came to be listed: read from a directory ("entry"), or
\* named on the command line, with -d ("named"), with -H in effect ("follow"),
\* or with neither ("operand").  targetinfo is -L; show is the arrows printed:
\* none, -l's one or -V's all; columns says that fields made from getstat() are
\* shown (of the others, the name is modelled here, and -p is not: it asks
\* access(2), which no File remembers and no exit status counts); decorate says
\* that -F, -O or -G classify each printed name, and sort that sorting or the
\* total needs the File's lstat().
Options == [arg: {"entry", "operand", "follow", "named"}, targetinfo: BOOLEAN,
            show: {"none", "one", "all"}, columns: BOOLEAN,
            decorate: BOOLEAN, sort: BOOLEAN]

ASSUME ChainAssumption ==
    /\ First \in Paths
    /\ MaxChain \in Nat /\ KernelMax \in Nat /\ KernelMax < MaxChain
    /\ MaxChanges \in Nat /\ MaxShortages \in Nat /\ Endless \in BOOLEAN
    /\ FileSystems \subseteq [Paths -> Entry]
    \* setoptions(): -L turns -l's single arrow off and -H on
    /\ \A o \in OptionSets : /\ o \in Options
                             /\ o.targetinfo => o.show # "one" /\ o.arg # "operand"

VARIABLES
    fs,             \* the file system: what each path names
    changes,        \* how often it has changed
    shortages,      \* how often malloc() has failed
    opts,           \* the options of this listing
    chain,          \* the File, its target, the target of that, ...
    didfinal,       \* file->didfinaltarget
    final,          \* file->finaltarget: a position of chain, or 0 for NULL
    pc,             \* the next call
    ret,            \* where getfinaltarget() returns to
    pos,            \* the File of the chain a walk has reached
    loops,          \* getnamefield()'s verdict on the chain
    arrows,         \* how many targets getnamefield() has printed
    row,            \* what the columns made from getstat() show
    exit            \* the exit status

environment == <<fs, changes>>
files == <<chain, didfinal, final>>
outcome == <<arrows, row, exit>>
vars == <<fs, changes, shortages, opts, chain, didfinal, final, pc, ret, pos,
          loops, arrows, row, exit>>

-----------------------------------------------------------------------------
(* The system calls.                                                           *)

LstatResult(p) ==
    IF fs[p].kind = "none" THEN NoStat
    ELSE [kind |-> IF fs[p].kind = "locked" THEN "link" ELSE fs[p].kind,
          ino |-> fs[p].ino]

Readable(p) == fs[p].kind = "link"

\* The path the kernel is at after following n links from p, or fewer where
\* the chain ends sooner.
Hop(p) ==
    LET hop[n \in 0..MaxChain] ==
          IF n = 0 THEN p
          ELSE IF Readable(hop[n - 1]) THEN fs[hop[n - 1]].to ELSE hop[n - 1]
    IN  hop

\* stat(p) fails with ELOOP: there is a link left after the last one allowed.
ChainLoops(p) == \A n \in 0..KernelMax : Readable(Hop(p)[n])

-----------------------------------------------------------------------------
(* The functions of file.c.                                                    *)

NewFile(p) == [path |-> p, didstat |-> FALSE, pstat |-> NoStat]

StatFailed(i) == chain[i].didstat /\ chain[i].pstat = NoStat

\* Faulty: didstat is set only once lstat() has worked, so a failure is retried.
GetStatRetries(i, st) ==
    \/ chain[i].pstat # NoStat /\ st = chain[i].pstat /\ UNCHANGED <<chain, shortages>>
    \/ /\ chain[i].pstat = NoStat
       /\ st = LstatResult(chain[i].path)
       /\ chain' = [chain EXCEPT ![i].didstat = TRUE, ![i].pstat = st]
       /\ UNCHANGED shortages

\* getstat() of the i-th File of the chain returns st: from the first lstat(),
\* which is remembered whether it worked or not, or NULL for want of memory,
\* which is not remembered.
GetStat(i, st) ==
    \/ /\ chain[i].didstat
       /\ st = chain[i].pstat
       /\ UNCHANGED <<chain, shortages>>
    \/ /\ ~chain[i].didstat
       /\ st = LstatResult(chain[i].path)
       /\ chain' = [chain EXCEPT ![i] = [path |-> chain[i].path,
                                         didstat |-> TRUE, pstat |-> st]]
       /\ UNCHANGED shortages
    \/ /\ ~chain[i].didstat
       /\ shortages < MaxShortages
       /\ st = NoStat
       /\ shortages' = shortages + 1
       /\ UNCHANGED chain

\* gettarget() of the File at pos, a link: its cached target, or what one
\* readlink() says, which is cached if it works and asked again if it fails.
GetTarget(found) ==
    \/ /\ pos < Len(chain)
       /\ found
       /\ UNCHANGED <<chain, shortages>>
    \/ /\ pos = Len(chain)
       /\ found
       /\ Readable(chain[pos].path)
       /\ chain' = Append(chain, NewFile(fs[chain[pos].path].to))
       /\ UNCHANGED shortages
    \/ /\ pos = Len(chain)
       /\ ~found
       /\ ~Readable(chain[pos].path)
       /\ UNCHANGED <<chain, shortages>>
    \/ /\ pos = Len(chain)
       /\ ~found
       /\ shortages < MaxShortages
       /\ shortages' = shortages + 1
       /\ UNCHANGED chain

\* isrepeat(first, file) for the File at i, whose lstat() is st: a File before
\* it on the chain has the same inode.
IsRepeat(i, st) == \E j \in 1..(i - 1) : chain[j].pstat.ino = st.ino

\* Faulty: forgets who asked.
EnterForgetful(r) == pc' = (IF didfinal THEN r ELSE "probe") /\ UNCHANGED ret

\* getfinaltarget() answers from memory or starts to look.
EnterFinalTarget(r) ==
    IF didfinal THEN pc' = r /\ UNCHANGED ret ELSE pc' = "probe" /\ ret' = r

\* findfinaltarget() is done: remember the result and go back to the caller.
Remember(target) ==
    /\ didfinal' = TRUE
    /\ final' = target
    /\ pc' = ret
    /\ pos' = 1

Probe ==
    /\ pc = "probe"
    /\ IF ChainLoops(chain[1].path)
       THEN Remember(0)
       ELSE pc' = "walk" /\ pos' = 1 /\ UNCHANGED <<didfinal, final>>
    /\ UNCHANGED <<environment, shortages, opts, chain, ret, loops, outcome>>

\* Faulty: one link more than the cap is followed.
AtCapTooLate == pos - 1 > MaxChain

\* MAXCHAIN links have been followed: links = pos - 1.
AtCap == pos - 1 = MaxChain

\* Faulty: a repeated inode is taken for a loop, as before the kernel was asked.
WalkStatByInode ==
    /\ pc = "walk"
    /\ \E st \in Stat :
         /\ GetStat(pos, st)
         /\ IF st.kind # "link" THEN Remember(IF pos = 1 THEN 0 ELSE pos)
            ELSE IF AtCap \/ IsRepeat(pos, st) THEN Remember(0)
            ELSE pc' = "read" /\ UNCHANGED <<didfinal, final, pos>>
    /\ UNCHANGED <<environment, opts, ret, loops, outcome>>

\* The loop condition of findfinaltarget() and, where it holds, the test
\* against the cap.
WalkStat ==
    /\ pc = "walk"
    /\ \E st \in Stat :
         /\ GetStat(pos, st)
         /\ IF st.kind # "link" THEN Remember(IF pos = 1 THEN 0 ELSE pos)
            ELSE IF AtCap THEN Remember(0)
            ELSE pc' = "read" /\ UNCHANGED <<didfinal, final, pos>>
    /\ UNCHANGED <<environment, opts, ret, loops, outcome>>

\* Faulty: where a target cannot be read, the link itself is the answer.
TargetKeepsLink == pos

\* What findfinaltarget() answers when a target cannot be read.
TargetIfUnreadable == 0

WalkRead ==
    /\ pc = "read"
    /\ \E found \in BOOLEAN :
         /\ GetTarget(found)
         /\ IF found
            THEN pc' = "walk" /\ pos' = pos + 1 /\ UNCHANGED <<didfinal, final>>
            ELSE Remember(TargetIfUnreadable)
    /\ UNCHANGED <<environment, opts, ret, loops, outcome>>

-----------------------------------------------------------------------------
(* The callers, in the order a listing makes these calls.                      *)

\* main() looks at an operand: one that cannot be stat'd is dropped, and a
\* directory is listed as one ("dir" ends the part modelled here).
Operand ==
    /\ pc = "main"
    /\ \E st \in Stat :
         /\ GetStat(1, st)
         /\ exit' = IF st = NoStat THEN 1 ELSE exit
         /\ \/ st = NoStat /\ pc' = "done" /\ UNCHANGED ret
            \/ st # NoStat /\ opts.arg = "named" /\ pc' = "sort" /\ UNCHANGED ret
            \/ st.kind = "dir" /\ opts.arg # "named" /\ pc' = "dir" /\ UNCHANGED ret
            \/ st.kind = "file" /\ opts.arg # "named" /\ pc' = "sort" /\ UNCHANGED ret
            \/ st.kind = "link" /\ opts.arg = "operand" /\ pc' = "sort" /\ UNCHANGED ret
            \/ st.kind = "link" /\ opts.arg = "follow" /\ EnterFinalTarget("islinktodir")
    /\ UNCHANGED <<environment, opts, didfinal, final, pos, loops, arrows, row>>

\* islinktodir(): a link to a directory is listed as a directory.
IsLinkToDir ==
    /\ pc = "islinktodir"
    /\ IF final = 0
       THEN pc' = "sort" /\ UNCHANGED <<chain, shortages>>
       ELSE \E st \in Stat :
              /\ GetStat(final, st)
              /\ pc' = IF st.kind = "dir" THEN "dir" ELSE "sort"
    /\ UNCHANGED <<environment, opts, didfinal, final, ret, pos, loops, outcome>>

\* Comparisons, -D, -R or the total may need the File's lstat() first; each asks
\* for it, again where malloc() failed.
Sort ==
    /\ pc = "sort"
    /\ IF opts.sort THEN \E st \in Stat : GetStat(1, st)
                    ELSE UNCHANGED <<chain, shortages>>
    /\ pc' = "fields" \/ (opts.sort /\ pc' = pc)
    /\ UNCHANGED <<environment, opts, didfinal, final, ret, pos, loops, outcome>>

\* getfilefields(): -L shows a link's final target.
Fields ==
    /\ pc = "fields"
    /\ IF opts.targetinfo
       THEN \E st \in Stat :
              /\ GetStat(1, st)
              /\ IF st.kind = "link" THEN EnterFinalTarget("targetrow")
                                     ELSE pc' = "row" /\ UNCHANGED ret
       ELSE pc' = "row" /\ UNCHANGED <<chain, shortages, ret>>
    /\ UNCHANGED <<environment, opts, didfinal, final, pos, loops, outcome>>

\* A column of the i-th File that is made from getstat(): ? when there is no
\* such File (0) or no answer.
ShowColumn(i) ==
    IF i = 0
    THEN row' = "?" /\ UNCHANGED <<chain, shortages>>
    ELSE \E st \in Stat :
           /\ GetStat(i, st)
           /\ row' = IF st = NoStat \/ row = "?" THEN "?" ELSE "details"

\* Each of these columns asks, again where malloc() failed.
Row ==
    /\ pc \in {"row", "targetrow"}
    /\ IF opts.columns THEN ShowColumn(IF pc = "row" THEN 1 ELSE final)
                       ELSE UNCHANGED <<chain, shortages, row>>
    /\ pc' = "name" \/ (opts.columns /\ pc' = pc)
    /\ UNCHANGED <<environment, opts, didfinal, final, ret, pos, loops, arrows, exit>>

\* printnametobuf() of the File at i: -F, -O and -G classify it.
PrintName(i) ==
    IF opts.decorate THEN \E st \in Stat : GetStat(i, st)
                     ELSE UNCHANGED <<chain, shortages>>

\* getnamefield() prints the File's own name ...
Name ==
    /\ pc = "name"
    /\ PrintName(1)
    /\ pc' = IF opts.show = "none" THEN "status" ELSE "islink"
    /\ UNCHANGED <<environment, opts, didfinal, final, ret, pos, loops, outcome>>

\* ... and -l an arrow only if it is a link; -V asks whether it is before it
\* asks the kernel about its chain, and again in its loop.
NameIsLink ==
    /\ pc = "islink"
    /\ \E st \in Stat :
         /\ GetStat(1, st)
         /\ pc' = IF opts.show = "all"
                  THEN IF st.kind = "link" THEN "askloops" ELSE "more"
                  ELSE IF st.kind = "link" THEN "arrow" ELSE "status"
    /\ UNCHANGED <<environment, opts, didfinal, final, ret, pos, loops, outcome>>

AskLoops ==
    /\ pc = "askloops"
    /\ loops' = ChainLoops(chain[1].path)
    /\ pc' = "more"
    /\ UNCHANGED <<environment, shortages, opts, files, ret, pos, outcome>>

\* Faulty: stops at a repeated inode even on a chain that does not loop.
FollowUnlessRepeat(st) ==
    st.kind = "link" /\ pos - 1 < MaxChain /\ ~IsRepeat(pos, st)

\* Faulty: shows a loop as far as the cap.
FollowToCap(st) == st.kind = "link" /\ pos - 1 < MaxChain

\* -V goes on from a link, up to the cap, and on a chain that loops up to the
\* first repeat.
Follow(st) ==
    /\ st.kind = "link" /\ pos - 1 < MaxChain
    /\ ~(loops /\ IsRepeat(pos, st))

More ==
    /\ pc = "more"
    /\ \E st \in Stat :
         /\ GetStat(pos, st)
         /\ pc' = IF Follow(st) THEN "arrow" ELSE "status"
    /\ UNCHANGED <<environment, opts, didfinal, final, ret, pos, loops, outcome>>

\* Faulty: the loop goes on after an unreadable target.
ArrowGoesOn ==
    /\ pc = "arrow"
    /\ \E found \in BOOLEAN :
         /\ GetTarget(found)
         /\ IF found THEN pc' = "printtarget" /\ pos' = pos + 1
                     ELSE pc' = "more" /\ UNCHANGED pos
    /\ UNCHANGED <<environment, opts, didfinal, final, ret, loops, outcome>>

\* Read one more target; an unreadable one ends the chain.
Arrow ==
    /\ pc = "arrow"
    /\ \E found \in BOOLEAN :
         /\ GetTarget(found)
         /\ IF found THEN pc' = "printtarget" /\ pos' = pos + 1
                     ELSE pc' = "status" /\ UNCHANGED pos
    /\ UNCHANGED <<environment, opts, didfinal, final, ret, loops, outcome>>

PrintTarget ==
    /\ pc = "printtarget"
    /\ PrintName(pos)
    /\ arrows' = arrows + 1
    /\ pc' = IF opts.show = "all" THEN "more" ELSE "status"
    /\ UNCHANGED <<environment, opts, didfinal, final, ret, pos, loops, row, exit>>

\* listfiles() decides whether this File was listed in full.
Status ==
    /\ pc = "status"
    /\ IF StatFailed(1)
       THEN exit' = 1 /\ pc' = "done" /\ UNCHANGED <<chain, shortages, ret>>
       ELSE IF opts.targetinfo
       THEN \E st \in Stat :
              /\ GetStat(1, st)
              /\ IF st.kind = "link" THEN EnterFinalTarget("judge")
                                     ELSE pc' = "done" /\ UNCHANGED ret
              /\ UNCHANGED exit
       ELSE pc' = "done" /\ UNCHANGED <<chain, shortages, ret, exit>>
    /\ UNCHANGED <<environment, opts, didfinal, final, pos, loops, arrows, row>>

\* Faulty: a target that could not be found is not counted.
FinalUnknownIfFound == final # 0 /\ StatFailed(final)

FinalUnknown == final = 0 \/ StatFailed(final)

Judge ==
    /\ pc = "judge"
    /\ exit' = IF FinalUnknown THEN 1 ELSE exit
    /\ pc' = "done"
    /\ UNCHANGED <<environment, shortages, opts, files, ret, pos, loops, arrows, row>>

-----------------------------------------------------------------------------
\* Another process replaces, removes or creates whatever a path names.
Change ==
    /\ Endless \/ changes < MaxChanges
    /\ changes' = IF Endless THEN 1 ELSE changes + 1
    /\ fs' \in FileSystems
    /\ \E p \in Paths : \A q \in Paths \ {p} : fs'[q] = fs[q]
    /\ UNCHANGED <<shortages, opts, files, pc, ret, pos, loops, outcome>>

Init ==
    /\ fs \in FileSystems
    /\ opts \in OptionSets
    /\ changes = 0 /\ shortages = 0
    /\ chain = <<NewFile(First)>>
    /\ didfinal = FALSE /\ final = 0
    /\ pc = IF opts.arg = "entry" THEN "sort" ELSE "main"
    /\ ret = "none" /\ pos = 1 /\ loops = FALSE
    /\ arrows = 0 /\ row = "none" /\ exit = 0

Program ==
    \/ Operand \/ IsLinkToDir \/ Sort \/ Fields \/ Row \/ Name \/ NameIsLink
    \/ AskLoops \/ More \/ Arrow \/ PrintTarget \/ Status \/ Judge
    \/ Probe \/ WalkStat \/ WalkRead

Terminated == pc \in {"done", "dir"} /\ UNCHANGED vars

Next == Program \/ Change \/ Terminated

Spec == Init /\ [][Next]_vars

\* The program runs at its own pace; nothing obliges the file system to rest.
FairSpec == Spec /\ WF_vars(Program)

-----------------------------------------------------------------------------
(* What must hold.                                                             *)

TypeOK ==
    /\ fs \in [Paths -> Entry]
    /\ changes \in Nat /\ shortages \in 0..MaxShortages
    /\ opts \in OptionSets
    /\ chain \in Seq(File) /\ chain # << >>
    /\ didfinal \in BOOLEAN /\ final \in 0..Len(chain)
    /\ pc \in {"main", "islinktodir", "sort", "fields", "row", "targetrow",
               "name", "islink", "askloops", "more", "arrow", "printtarget",
               "status", "judge", "probe", "walk", "read", "done", "dir"}
    /\ ret \in {"none", "islinktodir", "targetrow", "judge"}
    /\ pos \in 1..Len(chain)
    /\ loops \in BOOLEAN /\ arrows \in Nat
    /\ row \in {"none", "?", "details"} /\ exit \in {0, 1}

IsLink(i) == chain[i].didstat /\ chain[i].pstat.kind = "link"

\* However the links change while -L's walk and -V's walk follow them, one
\* after the other over the same cached Files, no more than MAXCHAIN links are
\* followed and no more than MAXCHAIN arrows shown (file.c:890,
\* filefields.c:363).
ChainBounded == Len(chain) <= MaxChain + 1 /\ arrows <= MaxChain

\* getfinaltarget() never answers with a link: its result is a File of the
\* chain that freefile() frees, reached through links only, and one whose own
\* lstat() (already done, so what is shown is what ended the walk) says it is
\* not a link (file.h:137, "Resolves all symlinks until a non-symlink target
\* is found").  A walk cut short by a failed malloc() is the exception.
FinalIsTheEnd ==
    didfinal /\ final # 0 =>
        /\ final \in 2..Len(chain)
        /\ \A i \in 1..(final - 1) : IsLink(i)
        /\ shortages = 0 => chain[final].didstat /\ ~IsLink(final)

\* The columns made from getstat() and the exit status are worked out by
\* different functions at different times, each from what the Files remember:
\* unless memory ran out they agree, an entry has ? in these columns, or is
\* dropped, exactly when the exit status is 1 (SPEC.md:336; l.c:312-326,
\* filefields.c:78).  The column of -p is not among them: it shows ??? of a file
\* that access(2) does not find, and the status may be 0 (file.c:756-794).
RowAndExitAgree ==
    pc = "done" /\ shortages = 0 /\ opts.columns =>
        (exit = 1 <=> row # "details")

\* -L's walk and -V's agree on where a chain ends, although each asks the
\* kernel at its own time: unless -V's probe said the chain loops, its last
\* arrow leads to the target -L describes (file.c:822, the cached target).
ArrowsReachFinal ==
    pc = "done" /\ shortages = 0 /\ opts.show = "all" /\ final # 0 /\ ~loops =>
        arrows = final - 1

\* While nothing changes and memory lasts, getfinaltarget() is the kernel's
\* answer: no target if stat() reports a loop or a link on the way cannot be
\* read, else the File at the path the kernel reaches (SPEC.md:286).
FinalIsKernels ==
    changes = 0 /\ shortages = 0 /\ didfinal =>
        LET end == Hop(First)[MaxChain]
        IN  IF ChainLoops(First) \/ fs[end].kind = "locked"
            THEN final = 0
            ELSE final # 0 /\ chain[final].path = end

\* While nothing changes and memory lasts, -V shows a chain the kernel can
\* follow to its end or to the link that cannot be read, and one it cannot up
\* to the first File with the inode of an earlier one, or MAXCHAIN links
\* (SPEC.md:288; filefields.c:356).
ArrowsAreTheChain ==
    pc = "done" /\ changes = 0 /\ shortages = 0 /\ opts.show = "all" =>
        LET at(n) == Hop(First)[n]
            repeats(n) == \E m \in 0..(n - 1) : fs[at(m)].ino = fs[at(n)].ino
            stop(n) == \/ ~Readable(at(n)) \/ n = MaxChain
                       \/ ChainLoops(First) /\ repeats(n)
        IN  stop(arrows) /\ \A n \in 0..(arrows - 1) : ~stop(n)

\* What one File has answered it goes on answering, whatever happens to the
\* file system: a lstat(), failed or not, a target once read and the final
\* target never change again (SPEC.md:278 "Failed stat is remembered";
\* file.c:904).  The comparison, the columns and the exit status rely on it.
AnswersAreKept ==
    [][ /\ Len(chain) <= Len(chain')
        /\ \A i \in 1..Len(chain) :
             /\ chain'[i].path = chain[i].path
             /\ chain[i].didstat => chain'[i] = chain[i]
        /\ didfinal => didfinal' /\ final' = final ]_vars

\* Every listing ends, even if the links never stop changing: that is what the
\* cap is for (file.c:886 "capped in case the links change while it is
\* walked").
ListingEnds == <>(pc \in {"done", "dir"})

=============================================================================
