# A TLA+ model of unixtools' `l`

`l` lists files (`SPEC.md`, `README.md`).  It is one single-threaded C program:
what makes it hard is not threads but the file system, the user database and
the allocator, each of which may answer differently at every call, and the
options, which choose what is asked and when.  The modules here model its
logic with those three as the environment, check it with TLC on small
instances, and prove what matters most with TLAPS.  Line numbers are those of
the sources beside this directory.

## 1. Inventory

| Component (sources) | State it keeps | Operations | Talks to |
| --- | --- | --- | --- |
| Files and symlink chains (`file.c`, `file.h`) | per File: its path, its lstat (`pstat`, `didstat`), its immediate target (a File), its final target (`finaltarget`, `didfinaltarget`) | `newfile`, `getstat`, `gettarget`, `getfinaltarget`, `chainloops`, `isrepeat`, `statfailed`, the comparators, `getblocks`, `getmodes`, `getperms`, `getbtime`, `hasacls`, `freefile` | `lstat(2)`, `stat(2)`, `readlink(2)`, `statx(2)`, the ACL library |
| Listing driver (`l.c`) | the lists of files and directories of `main` and of each active `listdir`; the open directory stream; `exitstatus`, `firstoutput`, `totalblocks` | `main`, `listdirs`, `listdir`, `listfiles`, `sortfiles`, `islinktodir`, `want`, `makefilestrings`, `getmaxfilefieldwidths` | every other component; `opendir(3)`, `readdir(3)` |
| Fields (`filefields.c`, `field.c`) | the fields of one File (text, alignment, width) | `getfilefields`, `getnamefield`, `printnametobuf`, `getownerfield`, `getgroupfield`, `getdatetimefield`, `getsizefield`, `humanbytes` | Files, Maps, Buffers, `getpwuid(3)` |
| Options (`options.c`, `options.h`) | some forty flags, the terminal width and colours, `now`, the two name caches | `newoptions`, `setdefaults`, `setoptions`, `freeoptions` | `getopt(3)`, the environment, the terminal |
| Lists (`list.c`) | a growing array, and how to free an element | `append`, `walklist`, `sortlist`, `finditem`, `freelist` | the allocator |
| Maps (`map.c`, `pair.c`) | slots, each a list of Pairs | `newmap`, `get`, `set`, `freemap`, `setvalue` | Lists |
| User and group names (`user.c`, `group.c`) | none | `getusername`, `getgroupname` | the user database |
| Buffers and escaping (`buf.c`) | text, position, size, display width | `bufappend`, `bufappendchar`, `printtobuf`, `cescape` | the locale |
| Column layout (`display.c`) | none | `printacross`, `printdown`, `ceildiv`, `setupcolors` | stdout, terminfo |
| Diagnostics (`logging.c`) | none | `errorf` | stderr |
| Tests, build, CI (`ltest`, `*test.c`, `GNUmakefile`, ...) | - | - | read as statements of what the program should do |

How they interact.  `main` makes a File of each operand and calls `listfiles`
and `listdirs`; `listdirs` calls `listdir`, which makes Files of a directory's
entries, calls `listfiles` and, with `-R`, `listdirs` again.  `listfiles` sorts
(the comparators stat Files), makes fields (which stat Files, follow links and
look names up in the caches), prints them, and then decides the exit status by
asking the same Files again.  Nothing is shared but the Files, which are on
several lists at once, and the two Maps of the options.

The hard behaviours:

* one answer is used many times.  A File is stat'd when first needed; sorting,
  the total, the columns, the decorations and the exit status must all see that
  one answer although the file changes, disappears or turns into something else;
* two functions (`-L`'s `findfinaltarget` and `-V`'s loop in `getnamefield`)
  walk the same cached chain of links at different times, each with its own
  count of links and its own question to the kernel, while the links change;
* ownership: a subdirectory is on two lists while the recursion uses it;
* partial failure: `malloc`, `readdir`, `opendir`, `lstat` and `readlink` fail
  one at a time, and the rest of the listing must go on, say so and exit 1;
* the recursion must end although links and renamed directories lead upwards;
* the name caches: ids that share a slot, names that change meanwhile, and
  `set`, which fails silently;
* arithmetic at its edges: columns and rows, block sizes, humanised sizes,
  growing buffers.

The correctness of each component:

* Files: an answer is kept; a walk is bounded; a final target is no link and is
  the kernel's; the arrows shown agree with the target described.
* Driver: each File is freed once and not before its last use; one open stream;
  the recursion goes down and ends; sections are separated; the total is that
  of the rows; exit status 0 means nothing is missing.
* Maps and names: an id shows its own name and one name throughout.
* Layout: every field is printed exactly once, in order, inside the screen.
* Sorting: every comparator is a total preorder during one `qsort`.
* Options: the last flag of a group wins; the implications hold at the end; what
  the options ask to show has been prepared.
* Buffers: the text stays inside the allocation; what reaches the terminal is
  printable and as wide as its field says; `-e` can be read back.
* Sizes and times: they are as close as their last figure; a clock that cannot
  be read.

`PROJECT.json` lists under "hazards" each place where this could go wrong, with
the properties that would show it.

## 2. The modules

| Module | What it is |
| --- | --- |
| `SymlinkChain` | one File and the Files behind it; every caller of the chain in the order one listing makes the calls |
| `MCSymlinkChain` | its instances for TLC |
| `SymlinkChainProofs` | its theorems |
| `Listing` | operands, directories, recursion, rows, total and exit status |
| `MCListing` | its instances for TLC |
| `ListingProofs` | its theorems but one |
| `QuietProofs` | the last one: a listing that nothing disturbs is complete; builds on `ListingProofs` |
| `NameTable` | the abstract promise of a name cache |
| `NameCache` | the Map, its Pairs and the owner column, shown to implement `NameTable` |
| `MCNameCache` | its instance for TLC |
| `NameCacheProofs` | its theorems, the refinement included |
| `Columns` | `printdown`, `printacross` and `ceildiv`: strings of any width on a screen of any width |
| `MCColumns` | its instance for TLC |
| `ColumnsProofs` | its theorems |
| `Layout` | how `listfiles` makes a string of each File and calls display.c; composes `Columns` |
| `MCLayout` | its instances for TLC |
| `Sorting` | the comparators, `qsort`, `-r`, and the rows made after them |
| `MCSorting` | its instances for TLC |
| `SortingProofs` | its theorems |
| `Options` | from the command line, the terminal and the environment to the options |
| `FieldTexts` | sizes, times, modes and permissions as text |
| `Fields` | one row under the options of a command line; builds on both |
| `MCFields` | its instances for TLC |
| `FieldsProofs` | theorems about the three, and about `Layout`: the refinement and what follows from `ColumnsProofs` |
| `Escape` | buffers, escaped names and messages |
| `MCEscape` | its instance for TLC |
| `EscapeProofs` | its theorems |

### SymlinkChain

`chain` is the File listed, its target, the target of that and so on: the
pointers `target` of `struct file`.  Each element has what `getstat` remembers;
`didfinal` and `final` are the first File's `didfinaltarget` and `finaltarget`.
`pc` says which call comes next.  Each action is the code between two system
calls, so the environment's `Change` (which rewrites what one path names) may
fall between any two of them.  `Operand` and `IsLinkToDir` are `main`; `Sort`
is a comparator; `Fields`, `Row`, `Name`, `NameIsLink`, `AskLoops`, `More`,
`Arrow` and `PrintTarget` are `getfilefields` and `getnamefield`; `Status` and
`Judge` are the end of `listfiles`; `Probe`, `WalkStat` and `WalkRead` are
`findfinaltarget`, to which `ret` remembers the caller.  `getstat` and
`gettarget` are the operators `GetStat` and `GetTarget`; each has, beside what
it answers, the alternative that `malloc` fails, and exactly the memory of a
failure the code has (a failed lstat is remembered, a failed `malloc` or
`readlink` is not).  `ShowColumn` is the columns made from `getstat`; the one
of `-p` asks `access` instead, and is left out.

A path stands for a name the program may meet.  `locked` is a link that can be
lstat'd but not read.  The kernel's answer to `stat` is computed from the file
system of that instant with a cap of its own, `KernelMax`, lower than
`MAXCHAIN` as in Linux; the code relies on it (`file.c:852`).

### Listing

The stack has a frame for `main` and one for each active `listdir`; `heap`
has every File made, with how often it was freed.  `Operand`, `IsLinkToDir` and
`OperandsDone` are `main`; `StatFile`, `FollowFile` and `PrintFiles` are
`listfiles` with the fields it needs; `NextDir` and `DirsDone` are `listdirs`;
`Open`, `ReadEntry`, `StatEntry`, `ReadEnd`, `ReadFault`, `ReadShortage` and
`Return` are `listdir`.  `out` is what is printed, as events: blank lines,
labels, totals and, for one call of `listfiles`, the set of its rows.  What
lies behind a symlink is one step here, with the outcomes `SymlinkChain` shows
it to have.  `GetStat` and `GetFinalTarget` may each be refused the memory they
need; that is not remembered, so a later caller of the same File may learn what
an earlier one did not.  `PlaceOperand` and `PlaceEntry` say what the code makes
of a File without an answer: an operand is reported with exit status 1, an entry
is taken for no directory, and dropped under `-D`.  `lacked`, a history variable in each File, says that it has gone without
an answer; `RowSets` has the rows there may be then: the columns of one row ask
one after the other, and each may learn what the one before did not.  The order
of rows is left to `Sorting`, and text is left out.

### NameCache

`slots` is the Map `options->usernames`: a list of Pairs per hash.  `Field`,
`Get`, `Lookup`, `Remember`, `GetCopy` and `MakeField` are the calls
`getownerfield` makes for one File, in order: `get`, `getusername`, `set`,
`get` again (what is shown is the copy), and making the field.  `Set` has the
ways `set` can fail: the Pair cannot be made and NULL is appended in its place,
or the copy of the value fails and the key keeps NULL.  The environment's
`Change` rewrites the user database between any two calls.  `given` is a
history variable: what the database has answered for each id.
`getgroupfield` is the same code over a Map of its own.

`NameTable` is what the cache promises: ask for an id once, learn an answer
given for it, keep it; only after memory ran out may a name be lost.  The
refinement maps each id to what `get` would find, so it says that hashing,
collisions, NULL Pairs and the double `get` make no difference.

### Columns and Layout

A string is its width on the screen.  `call` is what a function of `display.c`
is given; `pc` is the function's loop; `PrintDown` and `PrintAcross` are one
turn of the (inner) loop, with `col` the variable of the code, and `line` and
`x` the cursor the output moves (`line` is also `printdown`'s `row`).
`printed` records which string was put where.  `Rows`, `Cols` and `MaxCols` are
the divisions at the head of the functions.  `CallAssumption` is the comment
over both functions, that the strings have the width they are told, weakened to
"at most": a File whose fields could not be made has an empty string.

`Layout` is the caller.  Its state is what the sorted Files' fields are wide;
`MaxFileFieldWidths`, `FileWidth` and `FileStrings` are
`getmaxfilefieldwidths`, `getfilewidth` and `makefilestrings`, with a File
without fields, a name that could not be made and a width of 0.  The number of
fields is taken from the first File (`l.c:217`), so a listing whose first File
has none has no widths, hence no strings, and nothing of it is printed, which is
a proper use of `display.c`: the properties say how what is printed is printed.
`Display == INSTANCE Columns WITH Calls <- ProperCalls` does the printing, and
`DisplayIsUsedProperly` (`Display!Spec`) says that `Layout` is one of the
programs `Columns` is about: each call it makes is proper.

### Sorting

`compare` stands for the comparator `setoptions` chose: the ones that read a
value of `stat` differ only in which (`"stat"`), `comparebybtime` asks `statx`
every time, and those of names (`strcoll`, `strverscmp`) use an order given by
`rank`.  `qsort` is external: it may compare any two Files, and the same two
again the other way round, and returns an order in which it has compared each
File with the next.  `Ask` is a comparator up to its first question to the
kernel, `Answer` the rest, so that a file may change between the two; `pstat` is
what `getstat` remembers.  `Return` and `DoNotSort` are `sortfiles` and the
reversal in `listfiles`, `ShowRow` the value a row then shows.  A birth time of
0 and a failed `statx` are one value, as in the code.  Under `-L` the rows show
the values of the links' targets, which are not what is sorted by; that is left
out.

### Options, FieldTexts and Fields

`argv` is the sequence of options `getopt_long` returns, `optind` how many have
been taken; options with one meaning are one member of `Flag`, and everything
that ends in a message and exit status 2 is `Unusable`.  `on` has the members of
`struct options` that are of type `bool` and true, `opts` the others.
`NewOptions` is `newoptions` with `setdefaults`, `TakeOption` one turn of the
loop over `getopt_long` (`TurnsOn` and `Choice` are its `switch`, as a table),
`UsageError` the ways out of it; `Settle`, `SetupColors`, `AskTime` and
`NewMaps` are the rest of `setoptions` in its order, and `Fail` its label
`error`.  `heap` says what has been allocated.  `compatible` is never false, and
is left out.

`Fields` goes on from there: `ShowFile` is `getfilefields` for one File, with
the text of each column as a kind and a number.  The operators of `FieldTexts`
are the functions of that name or, as `Traditional` and `Relative`, parts of
`getdatetimefield`.  A date in words stands for the numbers it is made of, in a
year of 365 days; what is kept is which figures are shown and which are not.
Which File is described under `-L`, and the owner's name, are the business of
`SymlinkChain` and `NameCache`.

### Escape

Bytes are numbers, and `Chars` is the locale: which sequences of bytes are
characters, their class and width.  A `job` is a field, as the calls
`getnamefield` and `printnametobuf` make of `bufappend` and `printtobuf`, or a
message for `errorf`.  `bufs` has `getnamefield`'s buffer and the one
`printtobuf` makes (`bytebuf`), `todo` the pieces about to be appended, `p` the
pointer of the code.  `ReadChar` is one turn of the loop in `printtobuf`,
`ReadByte` of the one after an incomplete character; `Decode` is `mbrtowc`,
`CharPieces`, `Escapes` and `CEscape` are `printwchartobuf`, `printwesctobuf`
and `cescape`.  `Grow`, `AppendPiece` and `DropPiece` are `bufappend`: one turn
of the loop that doubles the size, the copy, and the return where `realloc`
failed.  `bufappendchar` grows under the same condition and is the same
operation.  `FormatMessage`, `PutChar` and `MessageDone` are `errorf2` and
`fputsescaped`; the memory `newbuf` gets is counted in two calls in the code and
in one here, as either failure has the same effect.

## 3. The runs

Every run uses the specification as it stands; the constants are in the MC
modules and the `.cfg` files.

| Run | Question | Bounds |
| --- | --- | --- |
| `chain` | Do the walk of `-L`, the arrows of `-V`, the columns and the exit status agree, whatever changes? | three paths, `MAXCHAIN` 3, the kernel's limit 2; 2 changes, 1 failed `malloc`; 84 file systems, every way to be listed |
| `churn` | Does a listing end if the links never rest? | two paths, endless changes, no bound on them |
| `listing` | Ownership, streams, recursion, output structure, totals, completeness, exit status, termination | three directories, two names, one hidden; nine option sets; operands that overlap; 1 change, failed `readdir` or failed `malloc` anywhere, those of `getstat` included |
| `names` | Does the owner column show the right name, one per owner, from a Map that implements the table? | two slots for three ids (two collide), listings of four Files, 2 changes, 2 failed `malloc`s |
| `columns` | Is each string printed once, in order, within the screen, on as few lines as fit? | up to 8 strings 0 to 3 wide, screens of 1 to 20 columns, both directions; ragged lists; one per line |
| `layout` | Does `listfiles` use `display.c` as that is written? | 2 to 4 Files with one or two fields, missing fields and names, widths 0 to 3, four screens, three display modes |
| `sort` | Are the comparators consistent, and the rows in the order asked for? | three Files, two values, two orders of names (one with a tie); a change and a failed `malloc`; up to six comparisons |
| `row` | Do the options mean what the rules of `setoptions` make of them, can the rest rely on them, and do the texts tell the values? | every command line of up to two options, 1,000 longer ones; `BLOCKSIZE`s and widths of the terminal at their limits; four clocks; 28 times, 15 sizes, every kind of File |
| `escape` | Does text stay inside its buffer, nothing unprintable reach the terminal, and `-e` lose nothing? | eleven bytes in every order up to three, decorated names, messages shorter and longer than the fixed buffer; buffers of 2 bytes; 1 failed `malloc` |
| `old_flags` | a violation: `SPEC.md:84-85` | as `row` |
| `layout_blank` | a violation: `SPEC.md:222` | two Files, a number and a name that is 0 wide |
| `sort_ties` | a violation: `SPEC.md:123` | two Files without birth times |

Why these bounds are enough to be worth something.  Three paths make every
shape of chain the code tells apart: no link, one or two links to a file, a
directory or nothing, a link that cannot be read, a link to itself, a loop that
does and one that does not include the listed link, and a hard link to an
earlier link that leads elsewhere.  With `MAXCHAIN` 3 and `KernelMax` 2 a chain
can pass the kernel's limit, and, when it changes under the walk, reach the cap.
Two changes suffice to separate each of the three questions one listing asks
(lstat, `-L`'s walk, `-V`'s walk) from the others.  In `listing` the three
levels let a subdirectory be both on its parent's lists and a parent itself,
and a link lead to the top; one trouble is enough for each partial failure, as
nothing in the driver compares two of them.  Two names, of which one is hidden,
make each of the skips of `listdir`.  The operands `x`, `x/x` and `h` overlap:
under `-R` a directory is then due twice, and on another option set or file
system it is a file, a link or missing.  In `names` a collision needs two ids to a
slot and a third elsewhere shows they are not confused; the same id comes back
after another that shares its slot.

Screens of 1 to 20 columns give lists of up to eight strings every number of
columns, grids that are full, that lack the last place or most of the last
column, and strings wider than the screen.  In `layout` the File without fields
may be the first, another or every one.

In `row` no rule of `setoptions` depends on more than three options, so the
command lines of three are those of the rules (`-c`, `-u`, `-T`, `-l` and what
sorts; `-F`, `-O`, `-H`, `-L`, `-P`, `-l`), and the theorems speak of any
length.  Times are one second to each side of the places where another text is
chosen, sizes about the places where one rounds.  In `escape` a buffer of two
bytes and pieces of one to five make it double once, twice and not at all, and
three bytes are a whole character, one and a half, or none.

In `sort` three Files are as many as a comparator can be inconsistent about
without two of them being contrary, and two values and `Unknown` give all ties;
one change suffices to give a File another value between two questions.

What the runs show to hold:

* `ChainBounded`, `FinalIsTheEnd`, `FinalIsKernels`: `-L` follows at most
  `MAXCHAIN` links and answers with what is at their end, which is what the
  kernel would reach while nothing changes.
* `ArrowsAreTheChain`, `ArrowsReachFinal`: `-V` shows the kernel's chain, and
  where it differs in time from `-L`'s walk the cached targets make them agree.
* `RowAndExitAgree`, `AnswersAreKept`: the columns and the exit status are
  worked out separately and agree because nothing a File answered changes.  The
  columns are those made from `getstat`.
* `NothingLeaks`, `RecursionGoesDown`, `SectionsAreSeparate`,
  `TotalIsSumOfRows`, `QuietListingIsComplete`, `ExitZeroIsComplete`: the driver's.
  `QuietListingIsComplete` counts, path by path, how often a directory was
  printed and how often it was due: once for each operand that names it, and
  once for each time the directory above it was listed under `-R`.
  `TotalIsSumOfRows` and `ExitZeroIsComplete` also hold where something changes
  or fails, but not of a File whose lstat or target was refused memory: the total is
  then without its blocks, and its row may have a `?` or what the next call
  learnt, all with exit status 0.
* `SlotsAreSound`, `NamesAreGiven`, `OneNamePerId`, `TableIsKept`: the names'.
* `EachPrintedOnce`, `LinesFitTheScreen`, `PageReadsInOrder`,
  `NoLineIsWasted`: the page's.  `StringsAreEven`, `DisplayIsUsedProperly`: the
  strings'.  They hold of listings in which some
  name is seen; the other case is below.
* `NoContradiction`, `ShownInOrder`: the sort's, while memory lasts (`getstat`
  does not remember its own failed `malloc`) and, by time of birth, while no
  birth time changes: `getbtime` remembers nothing, so a file replaced during
  the sort does make `comparebybtime` contradict itself.
* `MeansWhatWasGiven`, `ReadyToList`: the options', in whatever order they
  are given and whatever cannot be allocated.  What the options mean is what
  `setoptions` has for rules, which differ from the documents in the places
  named below.
* `DateTellsTheTime`, `SizesAreClose`: the texts'.  A block size that is neither
  a part nor a multiple of 512 is off by up to a factor of two, as the division
  comes before the multiplication (`file.c:549-564`).
* `EveryFileGetsARow`: no option shows a time without having asked for the
  present.  The premise is needed: where `time` fails, which `options.c:524`
  calls non-fatal, the assertions in `filefields.c:207` and `227` end the program.
* `StaysInside`, `ShownSafely`, `EscapingCanBeUndone`: the names' and messages'.
* `ListingEnds`, twice: with links that never rest, and for the whole driver.

Fairness.  Only `WF_vars(Program)`: the program is one thread, and as long as
it has a next step the operating system gives it the processor in the end.
Nothing is assumed of the environment: `Change` may happen for ever or never.
The other runs are of safety and assume no
fairness.

Deadlock is checked in every run: a finished program stutters in `Terminated`
(`Ended` of `Fields`), so a deadlock would be a state in which the code has
nothing to do and is not done.

Each property of a passing run has a mutant in `PROJECT.json`: a definition
marked "Faulty" in the module, with a bug the code might have had, under which
TLC finds the property violated.

### Where code and documents differ

* `FollowsAsDocumented`: `SPEC.md:84-85` and the comments at `options.c:491` and
  `494` have only `-F` and `-l` turn `-H` off; the code asks whether there are
  flags at all (`options.c:490`), and `-O` is one.  `l linktodir` lists the
  directory, `l -O linktodir` prints `@linktodir@`.

* `ColumnIsAsWideAsTheWidest`: `SPEC.md:222` makes a column as wide as its
  widest entry; `getfilewidth` takes the first width of 0 for the end of the
  array (`l.c:258`), and the names' width is 0 when every name listed is made of
  combining characters.  Then the margin before the name is printed but not
  counted, and a line of many columns runs over the screen: thirty such Files
  under `l -s -x` give a line of 102 columns on a screen of 80.

* `TiesAreByName`: `SPEC.md:123` has all time and size sorts fall back to names;
  Files that have no birth time (`file.c:440`), or could not be stat'd
  (`file.c:396`), are equal to each other and come in any order.

Six more were met, to which no run is given.  The models do what the code does
in the first three:

* `SPEC.md:119` and `README.md:100` have `-c` and `-u` imply `-t` unless `-T` or
  `-l` is given; any time shown prevents it (`options.c:203`, `437`), so
  `l -c --time-style=relative` is sorted by name.  `MeansWhatWasGiven` has it as
  `ShowsTime`.
* `SPEC.md:108` has `-f` and `-U` not sort; `-c` and `-u` set the order whatever
  was asked for (`options.c:436-440`), so `l -c -U` is sorted by time, and
  reversed by `-r`.  The same rule overrides `-S` and `-v`, before or after the
  `-c`, and `--btime` has it too.  `MeansWhatWasGiven` has it as
  `SortsByOtherTime`.
* `SPEC.md:336` gives exit status 1 to running out of memory; when `newfile` or
  `newlist` fails inside `listdir` (`l.c:367-386`, `394-397`) or `malloc` does in
  `getstat` (`file.c:237-241`), that is reported and the exit status stays 0:
  in `Listing` a directory may then not be listed at all (`OpenShortage`).
  `TODO.md:95` has it as known.
* `-p` asks `access`, not `getstat` (`file.c:756-794`): a file that is gone when
  its row is made shows `???`, silently and with exit status 0, as `TODO.md:120`
  notes.
* `l.c:12` describes the total as the sum of the blocks calculated for each
  file; under `-L` the rows show the blocks of the links' targets and the total
  those of the links (`l.c:413`).
* A terminal wider than 32767 columns has a negative width in the options
  (`options.c:105`, `options.h:65`), and `ceildiv` asserts (`display.c:203`).
  `ReadyToList` is about terminals that fit.

## 4. The theorems

Proved for every value of the constants that meets the assumption each module
states (`ChainAssumption`, `CacheAssumption`, `ColumnsAssumption`, `LayoutAssumption`,
`SortingAssumption`, `OptionsAssumption`, `TimeAssumption`, `FilesAssumption`,
`ListingAssumption`, `EscapeAssumption`, which TLC evaluates on the instances):
any number of paths, ids, slots, changes and failures, any `MAXCHAIN`, any
directories at any depth, lists, strings and screens of any size, command lines
and texts of any length, any time and any clock.

Two theorems have a premise besides, stated with them: `NamesShow` for the
layout and `SizesFit` for the sizes.

Where something must be shown of every number, or of every finite set by way of
its size, the set of the numbers that have it is shown to be all of `Nat`:
`InductionInSet`, which follows from `WFMin` and `NatLessThanWellFounded`, is
about a set, not about an operator, so that it can be cited with any set the
proof defines.

`SymlinkChainProofs`:

* `TypeCorrect`: `Spec => []TypeOK`.
* `ChainIsBounded`: `Spec => []ChainBounded`.
* `FinalTargetIsTheEnd`: `Spec => []FinalIsTheEnd`.
* `AnswersKept`: `Spec => AnswersAreKept`.
* `RowAgreesWithExit`, `ArrowsReachTheFinal`: `RowAndExitAgree`, which is about
  the columns made from `getstat`, and `ArrowsReachFinal` always hold.
* `FinalIsTheKernels`, `ArrowsAreChain`: `FinalIsKernels` and
  `ArrowsAreTheChain` always hold.

The invariant of the first four is `Inv`: `TypeOK`, `ChainBounded` and three parts that make it
inductive.  `WalkInv` says what `pc` implies: in a walk the final target is not
known yet and the caller is; before the arrows `pos` is 1; while a target is
read the File at `pos` is known to be a link and the cap is not reached; the
arrows so far are `pos - 1`.  `LinksInv` says every File of the chain but the
last was stat'd and is a link: a File is appended only behind one found to be
a link, and by `AnswersKept` it stays one.  `EndInv` is `FinalIsTheEnd` without
the part `LinksInv` gives.  The bound needs all of them: each walk tests its
own count of links against the cap, and only because both walk the same chain
from the start does the length of the chain follow.

Of the rest, `AgreeInv` holds in all behaviours.  `AskedInv` says which
questions have been asked when, `VerdictInv` what the row says as soon as it is
filled, `ReachInv` where the arrows are once the final target is known: no
further than the final target, and there when the last is printed, because the
links in between cannot be taken back.  `QuietInv` is about behaviours in which
nothing has changed and memory lasted.  `Followed` says every File of the chain
is at the path the kernel comes to in that many links, and remembers what the
kernel says of it.  `Hop`, the kernel's way, is a recursive function; that it
exists for every `MAXCHAIN` (`HopExists`) and stays where there is no link to
follow (`KernelSettles`) are inductions (`InductionInSet`).  `ShownChainInv` says
the arrows so far passed no place at which they had to stop, and the last one
stopped at one.

`ListingProofs`:

* `Types`, `StreamsAreClosed`, `NeverLeaks`, `GoesOnlyDown`,
  `ExitZeroPromises`: `TypeOK`, `OneStream`, `NothingLeaks`,
  `RecursionGoesDown` and `ExitZeroIsComplete` always hold.
* `SectionsStaySeparate`, `TotalsAreSums`: `SectionsAreSeparate` and
  `TotalIsSumOfRows` always hold.

The invariant of the first five is in four parts, each of which rests on the
first.  `TypeInv` is
`TypeOK` with what `pc` says of the stack, and `CallsInv`: the directory a
`listdir` lists is the one its caller's `listed` points at.  `OwnInv` names the
owners: the files of each frame, and `main`'s directories (`Owned(0)`).
`OnceInv` has no File at two places of the owners' lists, `FreedInv` says a File
is freed exactly when no owner lists it and it is not the one just made
(`Pending`), and `SubdirsInv` that a directory recursed into is one of the
files of its frame, which is why freeing only the files frees everything once.
`ListGrew`, `ListFreed` and `ListsKept` are the three things a step does to the
lists; that nothing reachable is freed follows from `CallsInv`, as each
directory being listed is on its caller's list.  `DownInv` says of every
directory on a list of `listdir`'s what `RecursionGoesDown` says of those being
listed; it also needs `EntryIsBelow`, that the entry whose `lstat` is due was
made from the directory on top of the stack.  `ExitInv` says that while
the exit status is 0 the only Files that could not be stat'd are those
`PrintFiles` has yet to judge, and that no row has a `?` but of a File that has
lacked an answer for want of memory, which is never forgotten (`lacked`).

`SectionInv` says of the output so far what `SectionsAreSeparate` says, and what
the next event needs: which directory's section is open while one is listed
(`CurrentInv`); that `main`'s `first` tells whether anything has been printed,
and that without a label there is one directory and no recursion (`MainInv`);
that below the operands `first` is never set (`NestedInv`).

`SumInv` is what makes the total right, as long as no File has lacked an answer
(`Unlacked`).  `total` is that of the rows the Files
read so far will have (`TotalInv`), as the one `lstat` of each entry serves both;
a printed total is the sum of the rows printed with its directory, or, between
the two events, `total` itself (`TotalsInv`).  The rows are a set, so two Files
of a directory must not have the same path: `readdir` returns no name twice
(`NamesInv`).  And no other section may add rows to a directory's: one
that waits to be listed has printed nothing (`UnseenInv`), which needs that no
list has a File twice (`DirsOnce`).  Sums over sets are recursive functions on
their subsets; `SumExists`, `SumIsUnique` and `SumWithoutOne` prove by
`InductionInSet` on the size that such a function exists and does not depend on
the order.

`QuietProofs`:

* `QuietListingCompletes`: `Spec => []QuietListingIsComplete`.

`QuietInv` is about a listing that nothing has disturbed.  The `Calm` actions
(`CalmOperand`, `CalmStatEntry`, ...) are what those of `Listing` come to while
no `malloc` fails (`CalmSteps`); the rest of the proof is about these.  What it is due to
print depends on the file system, the options and the operands, which stay what
they are, so the definitions of `Listing` are repeated with these as parameters
(`LstatIn`, `KeptOf`, `TopDirsOf`, ...).  `StatsTrue` says that what a File
remembers is so, and that none has lacked an answer; `MainLists` that `main`'s lists hold the operands sorted so
far; `FrameLists` and `ReadingInv` that each `listdir`'s lists hold what has
been read of its directory: all but the names still in `unread` (`LeftAt`).
From these follow the rows (`RowsTrue`, `RootRows`).  How often a directory is
printed is a balance for each path (`CountFor`): the labels printed, the times
it waits on a list, and 1 if the directory above it is being read, are together
the times it was asked for as an operand and the times the directory above it
was labelled; for the rows, 1 more while it is itself being listed.  Each step
moves one unit from one side or place to another (`Changes`, `CountStep`), and
at the end nothing waits.  The exit status is in two halves: `ExitOnlyIf`, that
it is 1 only for what is wrong with something listed, and `ExitIf`, that
whatever has been listed has had its say (`Settled`), or is the directory being
listed.  The theorem needs `SectionInv` too, as it is `first` that decides
whether there are labels at all.

`NameCacheProofs`:

* `TypeCorrect`, `MapIsSound`, `NamesGiven`, `OneName`: `TypeOK`,
  `SlotsAreSound`, `NamesAreGiven` and `OneNamePerId` always hold.
* `MapIsATable`: `Spec => TableIsKept`, that is, `NameCache` implements
  `NameTable`.

First come lemmas about one slot: in a sound slot `finditem` finds the one Pair
of a key or none, `set` gives a key its value and leaves every other key of the
slot alone, and a NULL Pair changes nothing.  `SetEffect` lifts them to the Map,
where a Pair of another slot has another hash.  `Inv` adds to the properties
what `getownerfield` knows at each call (`AskInv`), that the cache holds only
answers given for the id (`ValuesInv`), and, while memory lasts, that an id
without a cached name was never asked about and no id was given two answers
(`FreshInv`), which is what makes names stable; `PlainInv` covers the rows that
need no name.  The refinement then needs no more: `Lookup` is the table's
`Ask`, `Remember` its `Learn`, a failed `malloc` its `RunOut`, and every other
step leaves the table alone.

`ColumnsProofs`:

* `TypeCorrect`, `EachOnce`, `LinesFit`, `NoWaste`: `TypeOK`,
  `EachPrintedOnce`, `LinesFitTheScreen` and `NoLineIsWasted` always hold.
* `ReadsInOrder`: `PageReadsInOrder` always holds.

`CeilDivRoundsUp` and `MaxColsFits` say what the divisions compute, `GridFits`
that the grid of `printdown` has a place for every string, no row too many and
no more columns than fit.  `PlaceIsIndex` and `IndexIsPlace` say that the
strings and the places of the grid correspond, one to one.  So `DownInv` can say
what has been printed by place: the rows above this line, and this row up to
`col`.  `EndOfRow` is the step the code takes in two ways, at the last column
and at a place that holds no string: all places further right hold none either.
`AcrossInv` counts: `line * MaxCols + col` strings are printed.  `CursorInv`
bounds the cursor by the columns passed, which is all that strings shorter than
the rest need.  Where the strings are even, `OrderInv` has each one printed at
the line and the column of its place in the grid, and the cursor at that of the
next; the order of the page is then arithmetic on places.

`FieldsProofs`, about `Layout`:

* `LayoutInvariant`: `Spec => []LayoutInv`, for every input.
* `StringsEven`: `NamesShow => (Spec => []StringsAreEven)`.
* `DisplayUsedProperly`: `NamesShow => (Spec => DisplayIsUsedProperly)`, that is,
  `Layout` implements `Columns` with the calls that module is written for.
* `FilesAreOnThePage`: under `NamesShow`, the page of a listing has what
  `ColumnsProofs` proves of every page: each File once, on lines that fit, in
  order, without waste.

`NamesShow` says that no column of the listing has fields of width 0 only.  It
is needed: `ColumnIsAsWideAsTheWidest` above is what happens otherwise, and
`layout_blank` has TLC find it.  It is weaker than that every name is visible;
one visible name in the listing is enough for the column of names.
`LayoutInv` ties the call of display.c to the Files the fields were made of.
`FileWidthIsTotal` is the heart: with `NamesShow` the width that ends at the
first 0 is the sum of all widths, which is positive (`SumIsPositive`); then
padding makes every string that wide (`PaddedAreEven`).  Sums and maxima are over
finite sets, by `InductionInSet`.  The composition instantiates `ColumnsProofs`
with `Calls <- ProperCalls`, whose assumption holds by the definition of
`ProperCalls`, and maps each step of the one instance to the other (`IsAPage`).

`SortingProofs`:

* `TypeCorrect`, `Consistent`: `TypeOK` and `NoContradiction` always hold.
* `RowsAreSorted`: `ShownInOrder` always holds.

`CompareIsMirrored` and `CompareIsTransitive` say the comparators are a total
preorder of names and values, unknown ones included.  `AnswersInv` is the
reason it helps: every answer given is the one today's memory would give,
because a File's answer is kept once it has one (`ReadEffect`); `FirstInv` says
the same of what a comparator holds between its two questions.  For the rows,
`OrderInv` adds that the list is as `qsort` left it or that turned round
(`SortedInv`, of each File and the next), that what is not sorted is as it was
read (`PlainInv`), and that a row shows the value the sort went by (`RowsInv`).
`AllFollow` goes from neighbours to every two rows: `NotAfter` is transitive,
and the distance is an induction (`InductionInSet`).

`FieldsProofs`, about `Options`, `FieldTexts` and `Fields`:

* `MeansWhatWasGivenHolds`, `ReadyToListHolds`, `EveryFileGetsARowHolds`,
  `DateTellsTheTimeHolds`: the properties always hold.
* `BlocksAreClose`: the part of `SizesAreClose` about `-s` without `-h`, for
  every number of blocks and every block size.
* `SizesAreCloseHolds`: `SizesFit => (RowSpec => []SizesAreClose)`.
* `RowInvariant`: a row is made of the texts of its File, with the options and
  the time it was asked for with.
* `ModesTellTheMode`: no two modes are shown alike, although the bits of suid,
  sgid and sticky share a letter with those of execution.

The invariant is `OptionsInv`.  `ParseInv` says of every moment of the parsing
what the properties say of its end, with "the options taken so far" for "the
command line": each member has the value the last of them gives it
(`LastOptionWins`), and a switch is on if and only if one of them turns it on;
`ParseOne` is the step.  `SettledInv` says what `Settle` made of that, `HeapInv`
what has been allocated when, `TimeInv` that the present is known where it is
asked for.  `TraditionalTells`, `RelativeTells` and `RelativeInOrder` are
arithmetic about the three dates and six units; `RowInv` ties the row to them.
For `-h`, `Unit(i)` is 1000 to the power `i`, a recursive function on 0..8, and
`UnitIsPower` its nine values; `UnitOfHumanBytes` says the code stops at the
first unit of which the size is less than a thousand, `NearestIsClose` that the
rounding errs by half of it.  `SizesFit` says that sizes are less than a
thousand of the last unit, 10^27; those of the code are `unsigned long`.

`EscapeProofs`:

* `StaysInsideHolds`: `StaysInside` always holds.
* `ShownSafelyHolds`: `ShownSafely` always holds.
* `EscapingUndoneHolds`: `EscapingCanBeUndone` always holds.

`BufInv` adds which buffer is there when.  `AppendedInside` and `GrownInside` are
the two steps; that a failed `realloc` leaves the size and the text alone is the
third.

What a terminal makes of bytes, and what a reader makes of the characters, are
recursive functions over places: what is at a place, then what follows it.
Lemmas about such a joining (`IsJoined`, by `InductionInSet` on the places) say
that it exists and that it may be extended at the end (`JoinsMore`): if every
place that is reached has the item it had, what is joined is what was joined
before and what is new.  They are used for the reading of characters and for
their undoing; the sum of the widths is a fold, and another induction.  That a place
keeps its item is the part about escapes: only one character begins where one
does, as no character of the locale is the beginning of another, and an escape
ends within what has been appended (`Settled`), for which the octal one of `-e`
must have all its digits.

`SafeInv` says that what has been appended is read as printable characters, as
many columns wide as the buffer's `screenpos`, and that each piece that waits to
be appended is a printable character or letters, digits, `\` and `?`.  A piece
that is dropped for want of memory changes neither side.  For a message the same
holds of what is on the terminal, but for the newline at its end.

`UndoInv` is about `-e` while memory lasts: what is appended can be read back as
the first bytes of the name (`ReadBack`), and with the pieces that wait it is all
up to the pointer of the code (`Waits`).  There the order matters: a piece may
stand for a byte each, or all for one character, or be two backslashes, of which
the first alone can be read as nothing.

Only model-checked:

* `ListingEnds`: liveness, and ENABLED behind it, are out of the prover's reach.
* What the violations' runs refute.

## 5. What is not modelled

* What `strftime` makes of a date, the layout of numbers, the wording of errors,
  the strings of colours: pure output.
* Which options `getopt_long` finds in the arguments, and what `newlist` and
  `newfile` failing in `main` do, which is to exit.
* `malloc` failing in a field other than the owner's: the row is lost as it is
  there (`NameCache`).  `Listing` has it fail in `newlist`, `newfile`, `getstat`
  and the search for a target.
* The column of `-p` in the agreement of the columns with the exit status: it is
  `access`'s answer, of its own time, see above.  Its text is in `Fields`.
* `main` and `Options` in one run: the option sets of the other modules are those
  with what `ReadyToList` promises (`-L` implies `-H` and no arrow, what is
  reversed is sorted), stated as their assumptions.
* `append` dropping an element when `realloc` fails, which takes a list of more
  than 1024, and the label of a
  directory not printed for want of a buffer.
* `hasacls`: the ACL library.
* `-L` with a sort by value: the order is that of the links' own values.
* Overflow of `int` in the widths and positions: it takes strings of the size of
  memory.
* Tests, build and CI: not part of the program's behaviour.

## 6. Plan

What exists was built in this order: `SymlinkChain`, the core, and the part with
most interleavings; `Listing`; `NameTable` and `NameCache`, the first
refinement; `Columns` and `Layout`; `Sorting`; `Options` and `Fields`; `Escape`.
What is left:

* `ListingPromise`: what a listing promises, as an abstract specification that
  `Listing` implements: directories in a work list, each printed or counted as
  failed.  `QuietInv` has the mapping it needs.
