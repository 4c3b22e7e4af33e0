------------------------------- MODULE Fields -------------------------------
(* A row under the options of a command line: getfilefields() for one File.    *)
EXTENDS Options, FieldTexts

CONSTANT Files      \* what is known of a File; nothing if stat is FALSE

Times == {"mtime", "atime", "ctime", "btime"}

ASSUME FilesAssumption ==
    \A f \in Files :
        /\ f.stat \in BOOLEAN /\ f.access \in [1..3 -> {"yes", "EACCES", "other"}]
        /\ f.stat => /\ f.kind \in Kinds /\ f.mode \subseteq Bits /\ f.acls \in BOOLEAN
                     /\ f.size \in Nat /\ f.blocks \in Nat /\ f.nlink \in Nat
                     /\ f.time \in [Times -> Int]
                     /\ f.ino \in Nat /\ f.uid \in Nat /\ f.gid \in Nat
                     /\ f.rdev \in Nat \X Nat

VARIABLES
    file,   \* the File whose row has been made, if any
    row     \* the text of each of its columns

rowvars == <<optvars, file, row>>
NoFile == [stat |-> FALSE]

Columns == {"size", "inode", "modes", "linkcount", "owner", "group", "perms",
            "bytes", "datetime"}

IsDevice(f) == f.kind \in {"blockdev", "chardev"}

\* getsizefield(): humanized, blocks are bytes again.
SizeText(f) ==
    LET blocks == Blocks(f.blocks, opts.blocksize)
    IN  IF IsDevice(f) THEN <<"device", f.rdev>>
        ELSE IF opts.sizestyle = "human" THEN HumanBytes(blocks * opts.blocksize)
        ELSE <<"blocks", blocks>>

BytesText(f) ==
    IF IsDevice(f) THEN <<"device", f.rdev>>
    ELSE IF opts.sizestyle = "human" THEN HumanBytes(f.size)
    ELSE <<"bytes", f.size>>

\* By name, or by number under -n.
IdText(id) == IF "numeric" \in on THEN <<"number", id>> ELSE <<"name", id>>

TimeText(f) == DateText(f.time[opts.timetype], opts.now, opts.timeformat, opts.timestyle)

\* A File whose stat failed has a "?" in each column but that of access().
Text(f, column) ==
    IF column = "perms" THEN Perms(f.access)
    ELSE IF ~f.stat THEN Unknown
    ELSE CASE column = "size"      -> SizeText(f)
           [] column = "inode"     -> <<"inode", f.ino>>
           [] column = "modes"     -> Modes(f.kind, f.mode, f.acls)
           [] column = "linkcount" -> <<"links", f.nlink>>
           [] column = "owner"     -> IdText(f.uid)
           [] column = "group"     -> IdText(f.gid)
           [] column = "bytes"     -> BytesText(f)
           [] column = "datetime"  -> TimeText(f)

\* assert(options->now > 0)
Asserts(f) ==
    /\ "datetime" \in on /\ f.stat
    /\ NeedsNow(f.time[opts.timetype], opts.timeformat)
    /\ opts.now <= 0

ShowFile ==
    /\ stage = "ready"
    /\ \E f \in Files :
          /\ file' = f
          /\ IF Asserts(f) THEN stage' = "aborted" /\ UNCHANGED row
             ELSE stage' = "shown" /\ row' = [c \in Columns \cap on |-> Text(f, c)]
    /\ UNCHANGED <<input, optind, on, opts, heap, exitcode>>

RowInit == OptInit /\ file = NoFile /\ row = [c \in {} |-> Unknown]

Program == (SetOptions /\ UNCHANGED <<file, row>>) \/ ShowFile

Ended == stage \in {"exit", "aborted", "shown"} /\ UNCHANGED rowvars

RowNext == Program \/ Ended

RowSpec == RowInit /\ [][RowNext]_rowvars

-----------------------------------------------------------------------------
(* Properties.                                                                 *)

Distance(a, b) == IF a < b THEN b - a ELSE a - b

\* How far apart two times can be that a text stands for.
Resolution(text) ==
    CASE text[1] \in {"weekday", "date", "minutes"} -> Minute
      [] text[1] \in {"year", "days"} -> Day
      [] text[1] = "hours"  -> Hour
      [] text[1] = "months" -> Month
      [] text[1] = "years"  -> Year
      [] OTHER              -> 1

\* A date that leaves out the year, or the date, can still be told: no File of
\* another time, further away than the last figure shown, has the same text; and
\* of two ages the smaller one is not shown as the greater.
DateTellsTheTime ==
    stage = "shown" /\ "datetime" \in on /\ file.stat =>
        LET t == file.time[opts.timetype]
            text == row["datetime"]
        IN  \A g \in {f \in Files : f.stat} :
                LET u == g.time[opts.timetype]
                    other == TimeText(g)
                IN  /\ other = text => Distance(t, u) < Resolution(text)
                    /\ (opts.timestyle = "relative" /\ opts.timeformat = "none"
                            /\ Converts(t) /\ Converts(u) /\ t <= opts.now /\ u <= t)
                          => text[2] * Resolution(text) <= other[2] * Resolution(other)

IsHalfOff(shown, true, unit) == 2 * Distance(shown, true) <= unit

\* A size is shown to the nearest unit: to half a block where blocks are whole
\* parts or multiples of the kernel's, within a factor of two where they are
\* not, and to half of whatever unit -h chooses, of which it shows at most 1000.
SizesAreClose ==
    stage = "shown" /\ file.stat /\ ~IsDevice(file) =>
        LET b == opts.blocksize
            true == DevBsize * file.blocks
            IsHuman(text, bytes) ==
                /\ IsHalfOff(text[2] * Unit(text[3]), bytes, Unit(text[3]))
                /\ text[2] <= 1000 /\ (text[2] = 0 => bytes = 0)
        IN  /\ "size" \in on =>
                 LET text == row["size"]
                     bytes == Blocks(file.blocks, b) * b
                 IN  /\ IF opts.sizestyle = "human" THEN IsHuman(text, bytes)
                        ELSE text[2] * b = bytes
                     /\ b % DevBsize = 0 \/ DevBsize % b = 0 => IsHalfOff(bytes, true, b)
                     /\ bytes <= 2 * true + b /\ true <= 2 * bytes + b
            /\ "bytes" \in on /\ opts.sizestyle = "human" => IsHuman(row["bytes"], file.size)

\* The program gives up on a row only where time() failed: whichever options
\* show a time have asked for the present.
EveryFileGetsARow == stage = "aborted" => clock <= 0
=============================================================================
