------------------------------ MODULE Options ------------------------------
(* How the command line and the environment become the options of a listing:   *)
(* setdefaults(), then setoptions(), which takes one option after the other    *)
(* from getopt_long(), settles what they leave open and allocates what the     *)
(* listing will need.                                                          *)
EXTENDS Integers, Sequences

CONSTANTS
    Invocations,    \* how the program may be called
    NoTerminal,
    IntMax          \* INT_MAX

\* Options with one meaning share a letter, as in longopts; the rest go by
\* their long names.  "?" is an option, or an argument to one, there is not.
Flag == {"1", "A", "a", "B", "C", "c", "D", "d", "E", "e", "F", "f", "G", "g",
         "H", "h", "I", "i", "k", "L", "l", "M", "N", "n", "O", "o", "P", "p",
         "q", "R", "r", "S", "s", "T", "t", "U", "u", "V", "v", "x", "btime",
         "mtime", "sort=name", "traditional", "relative"}
Unusable == "?"

UnsignedShort == 0..65535
MaxShort == 32767

\* A command line is what getopt_long() makes of it.  A terminal is its ws_col,
\* 0 where that cannot be found out; BLOCKSIZE is what strtol() reads, 0 where
\* it is not set; the clock is what time() returns.
ASSUME OptionsAssumption ==
    /\ NoTerminal \notin Nat
    /\ IntMax \in Nat /\ IntMax >= 1024
    /\ Invocations \subseteq [argv : Seq(Flag \cup {Unusable}), blocksize : Int,
                              terminal : UnsignedShort \cup {NoTerminal}, clock : Int]

VARIABLES
    argv,       \* the command line
    optind,     \* how many of its options have been taken
    terminal,   \* what stdout is
    env,        \* BLOCKSIZE
    clock,      \* the time
    on,         \* the members of Options that are true
    opts,       \* the members that are not of type bool
    heap,       \* what is allocated of them
    stage,      \* what happens next
    exitcode    \* the argument of exit(), -1 before

input == <<argv, terminal, env, clock>>
optvars == <<input, optind, on, opts, heap, stage, exitcode>>

Default == [blocksize |-> 1024, displaymode |-> "one per line",
            escape |-> "none", flags |-> "none", followdirlinkargs |-> "default",
            screenwidth |-> 80, sizestyle |-> "default", sorttype |-> "name",
            targetinfo |-> "default", timeformat |-> "none",
            timestyle |-> "traditional", timetype |-> "mtime",
            compare |-> "none", now |-> -1]

\* An int stored in a short.
Short(n) == ((n + 32768) % 65536) - 32768

\* Faulty: a block size of 0 is used, too.
BlockSizeIfNotNegative(b) == IF b >= 0 /\ b <= IntMax THEN b ELSE Default.blocksize

\* BLOCKSIZE counts if getblocks() can divide by it.
BlockSize(b) == IF b > 0 /\ b <= IntMax THEN b ELSE Default.blocksize

\* A terminal is listed in columns, as wide as it says, and without surprises.
SetDefaults ==
    [Default EXCEPT
        !.blocksize = BlockSize(env),
        !.escape = IF terminal = NoTerminal THEN "none" ELSE "question",
        !.displaymode = IF terminal \in {NoTerminal, 0} THEN "one per line" ELSE "columns",
        !.screenwidth = IF terminal \in {NoTerminal, 0} THEN 80 ELSE Short(terminal)]

-----------------------------------------------------------------------------
(* The switch in setoptions(): what an option turns on, what it chooses.       *)

LongFormat == {"longformat", "modes", "linkcount", "owner", "group", "bytes",
               "datetime", "showlink", "dirtotals"}

TurnsOn(f) ==
    CASE f = "a" -> {"all"}         [] f = "B" -> {"bytes"}
      [] f = "D" -> {"dirsonly"}    [] f = "d" -> {"directory"}
      [] f = "G" -> {"color"}       [] f = "g" -> {"group"}
      [] f = "i" -> {"inode"}       [] f = "l" -> LongFormat
      [] f = "M" -> {"modes"}       [] f = "N" -> {"linkcount"}
      [] f = "n" -> {"numeric"}     [] f = "o" -> {"owner"}
      [] f = "p" -> {"perms"}       [] f = "R" -> {"recursive"}
      [] f = "r" -> {"reverse"}     [] f = "s" -> {"size", "dirtotals"}
      [] f = "V" -> {"showlinks"}
      [] f \in {"T", "traditional", "relative"} -> {"datetime"}
      [] OTHER -> {}

Nothing == <<"none", "none">>

\* The member and its value.
Choice(f) ==
    CASE f \in {"1", "l"} -> <<"displaymode", "one per line">>
      [] f = "C" -> <<"displaymode", "columns">>
      [] f = "x" -> <<"displaymode", "rows">>
      [] f = "E" -> <<"escape", "none">>
      [] f = "e" -> <<"escape", "c">>
      [] f = "q" -> <<"escape", "question">>
      [] f = "F" -> <<"flags", "normal">>
      [] f = "O" -> <<"flags", "old">>
      [] f = "H" -> <<"followdirlinkargs", "on">>
      [] f = "L" -> <<"targetinfo", "on">>
      [] f = "P" -> <<"targetinfo", "off">>
      [] f = "h" -> <<"sizestyle", "human">>
      [] f = "k" -> <<"blocksize", 1024>>
      [] f = "I" -> <<"timeformat", "iso">>
      [] f = "S" -> <<"sorttype", "size">>
      [] f = "t" -> <<"sorttype", "time">>
      [] f = "v" -> <<"sorttype", "version">>
      [] f \in {"f", "U"} -> <<"sorttype", "unsorted">>
      [] f = "sort=name" -> <<"sorttype", "name">>
      [] f = "u" -> <<"timetype", "atime">>
      [] f = "c" -> <<"timetype", "ctime">>
      [] f \in {"btime", "mtime"} -> <<"timetype", f>>
      [] f \in {"traditional", "relative"} -> <<"timestyle", f>>
      [] OTHER -> Nothing

\* exit(): what is still allocated goes with the process.
ExitWith(status) == stage' = "exit" /\ exitcode' = status

\* newoptions() of main().
NewOptions ==
    /\ stage = "new"
    /\ \/ /\ heap' = {"options"} /\ opts' = SetDefaults
          /\ stage' = "parse" /\ UNCHANGED exitcode
       \/ ExitWith(1) /\ UNCHANGED <<heap, opts>>
    /\ UNCHANGED <<input, optind, on>>

TakeOption ==
    /\ stage = "parse" /\ optind < Len(argv) /\ argv[optind + 1] # Unusable
    /\ optind' = optind + 1
    /\ on' = on \cup TurnsOn(argv[optind + 1])
    /\ LET choice == Choice(argv[optind + 1])
       IN  opts' = [k \in DOMAIN opts |-> IF k = choice[1] THEN choice[2] ELSE opts[k]]
    /\ UNCHANGED <<input, heap, stage, exitcode>>

\* An option that is unknown, lacks its argument or does not support it.
UsageError ==
    /\ stage = "parse" /\ optind < Len(argv) /\ argv[optind + 1] = Unusable
    /\ ExitWith(2)
    /\ UNCHANGED <<input, optind, on, opts, heap>>

-----------------------------------------------------------------------------
(* The rest of setoptions(), when the options have been taken.                 *)

\* Faulty: -c and -u sort although -T or -l shows the time.
SortTypeIfNotMtime == IF opts.timetype # "mtime" THEN "time" ELSE opts.sorttype

\* "compatibility: -c = -ct, -u = -ut (unless -T or -l)": what is tested is
\* whether a time is shown and is not that of modification.
SortType ==
    IF "datetime" \notin on /\ opts.timetype # "mtime" THEN "time" ELSE opts.sorttype

\* The comparator: comparebyname(), comparebymtime() ...
Compare ==
    CASE SortType = "unsorted" -> "none"
      [] SortType = "time"     -> opts.timetype
      [] OTHER                 -> SortType

Follow ==
    IF opts.followdirlinkargs # "default" THEN opts.followdirlinkargs
    ELSE IF opts.targetinfo # "default" THEN opts.targetinfo
    ELSE IF opts.flags # "none" \/ "longformat" \in on THEN "off"
    ELSE "on"

\* What the end of the command line decides.
Settle ==
    /\ stage = "parse" /\ optind = Len(argv)
    /\ opts' = [opts EXCEPT !.sorttype = SortType, !.compare = Compare,
                            !.followdirlinkargs = Follow,
                            !.targetinfo = IF @ = "default" THEN "off" ELSE @]
    /\ on' = on \ ((IF SortType = "unsorted" THEN {"reverse"} ELSE {})
                   \cup (IF opts.targetinfo = "on" THEN {"showlink"} ELSE {}))
    /\ stage' = "colors"
    /\ UNCHANGED <<input, optind, heap, exitcode>>

\* error: freeoptions(), and main() exits.
Fail ==
    /\ heap' = {}
    /\ ExitWith(2)
    /\ UNCHANGED <<on, opts>>

\* setupcolors() may find that the terminal has none, or no memory; either way
\* there is a Colors, of which some strings may be NULL.
SetupColors ==
    /\ stage = "colors"
    /\ \/ /\ "color" \in on
          /\ \/ heap' = heap \cup {"colors", "color strings"} /\ UNCHANGED on
             \/ heap' = heap \cup {"colors"} /\ on' = on \ {"color"}
          /\ UNCHANGED <<opts, exitcode>> /\ stage' = "time"
       \/ "color" \in on /\ Fail
       \/ /\ "color" \notin on
          /\ UNCHANGED <<on, opts, heap, exitcode>> /\ stage' = "time"
    /\ UNCHANGED <<input, optind>>

\* Faulty: only -l asks for the time.
AskTimeForLongFormat ==
    /\ stage = "time"
    /\ IF "longformat" \in on
       THEN opts' = [opts EXCEPT !.now = clock]
       ELSE UNCHANGED opts
    /\ stage' = "names"
    /\ UNCHANGED <<input, optind, on, heap, exitcode>>

\* time(), whose failure "is non-fatal".
AskTime ==
    /\ stage = "time"
    /\ IF "datetime" \in on
       THEN opts' = [opts EXCEPT !.now = clock]
       ELSE UNCHANGED opts
    /\ stage' = "names"
    /\ UNCHANGED <<input, optind, on, heap, exitcode>>

\* The maps of names that the options ask for.
Maps ==
    (IF "group" \in on /\ "numeric" \notin on THEN {"groupnames"} ELSE {})
    \cup (IF "owner" \in on /\ "numeric" \notin on THEN {"usernames"} ELSE {})

NewMaps ==
    /\ stage = "names"
    /\ \/ /\ heap' = heap \cup Maps
          /\ stage' = "ready"
          /\ UNCHANGED <<on, opts, exitcode>>
       \/ Maps # {} /\ Fail
    /\ UNCHANGED <<input, optind>>

OptInit ==
    /\ \E i \in Invocations :
          argv = i.argv /\ terminal = i.terminal /\ env = i.blocksize /\ clock = i.clock
    /\ optind = 0
    /\ on = {} /\ opts = Default /\ heap = {}
    /\ stage = "new" /\ exitcode = -1

SetOptions ==
    \/ NewOptions \/ TakeOption \/ UsageError
    \/ Settle \/ SetupColors \/ AskTime \/ NewMaps

-----------------------------------------------------------------------------
(* Properties.                                                                 *)

Given(S) == \E i \in 1..Len(argv) : argv[i] \in S

\* f is the last option of S on the command line.
LastOf(S, f) ==
    \E i \in 1..Len(argv) :
        argv[i] = f /\ f \in S /\ \A j \in i + 1..Len(argv) : argv[j] \notin S

\* Member k has the value of the last option that gives it one.
LastWins(k) ==
    LET Deciding == {f \in Flag : Choice(f)[1] = k}
    IN  IF Given(Deciding)
        THEN \E f \in Deciding : LastOf(Deciding, f) /\ opts[k] = Choice(f)[2]
        ELSE opts[k] = SetDefaults[k]

\* "-H default logic" of the documents: -H, or else -L and -P, or else whether
\* one of these was given.
FollowsFrom(decorated) ==
    opts.followdirlinkargs =
        IF Given({"H"}) THEN "on"
        ELSE IF LastOf({"L", "P"}, "L") THEN "on"
        ELSE IF LastOf({"L", "P"}, "P") \/ Given(decorated) THEN "off"
        ELSE "on"

\* The code's tests: --time-style is taken for -T (options.c:203), and it is the
\* last of these options that counts, --btime like -c and -u (options.c:438).
ShowsTime == Given({"l", "T", "traditional", "relative"})
SortsByOtherTime == \E f \in {"c", "u", "btime"} : LastOf({"c", "u", "btime", "mtime"}, f)

\* Whatever the order of the options, a listing is what the rules of
\* setoptions() make of them (options.c:193-505): switches stay on, of options
\* that exclude each other the last wins, -r reverses what is sorted, -L shows
\* no arrow.  The rules differ from the documents in these: -c and -u sort by
\* time unless a time is shown, --time-style included, and so does --btime, but
\* not -c before --mtime (SPEC.md:119 has -c and -u imply -t unless -T or -l);
\* they do so whatever else was asked for, before or after, -S, -v, -f and -U
\* included (SPEC.md:108); and -O turns -H off as -F does (SPEC.md:84).
MeansWhatWasGiven ==
    stage = "ready" =>
        /\ \A k \in {"blocksize", "displaymode", "escape", "flags", "screenwidth",
                      "sizestyle", "timeformat", "timestyle", "timetype"} : LastWins(k)
        /\ IF SortsByOtherTime /\ ~ShowsTime THEN opts.sorttype = "time"
           ELSE LastWins("sorttype")
        /\ \A f \in Flag \ {"G", "r", "l"} : Given({f}) => TurnsOn(f) \subseteq on
        /\ Given({"l"}) => LongFormat \ {"showlink"} \subseteq on
        /\ \A m \in on : \E f \in Flag : Given({f}) /\ m \in TurnsOn(f)
        /\ "reverse" \in on <=> Given({"r"}) /\ opts.sorttype # "unsorted"
        /\ "showlink" \in on <=> Given({"l"}) /\ ~LastOf({"L", "P"}, "L")
        /\ FollowsFrom({"F", "O", "l"})

\* SPEC.md:84-85 on -H: "Else if -F or -l was given (compatible mode): -H is
\* OFF", "Otherwise: -H is ON"; the code takes -O for -F (options.c:490).
FollowsAsDocumented ==
    stage = "ready" => FollowsFrom({"F", "l"})

Needed ==
    {"options"} \cup Maps \cup (IF "color" \in on THEN {"color strings"} ELSE {})

\* What the rest of the program takes for granted of its Options: what they
\* ask to show can be shown, nothing is left open, -L implies -H and no arrow,
\* and a reversed list is sorted.  If they cannot be made, nothing is left.
ReadyToList ==
    /\ stage = "ready" =>
        /\ Needed \subseteq heap
        /\ opts.blocksize \in 1..IntMax
        /\ terminal \in 0..MaxShort \cup {NoTerminal} => opts.screenwidth \in 1..MaxShort
        /\ opts.followdirlinkargs \in {"on", "off"} /\ opts.targetinfo \in {"on", "off"}
        /\ opts.targetinfo = "on" => opts.followdirlinkargs = "on" /\ "showlink" \notin on
        /\ "reverse" \in on => opts.compare # "none"
        /\ opts.compare = "none" <=> opts.sorttype = "unsorted"
        /\ "showlink" \in on => "modes" \in on
        /\ "dirtotals" \in on => on \cap {"size", "modes"} # {}
    /\ stage = "exit" => exitcode \in {1, 2} /\ heap \subseteq {"options"}
=============================================================================
