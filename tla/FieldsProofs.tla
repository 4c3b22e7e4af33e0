---------------------------- MODULE FieldsProofs ----------------------------
(* What the rows of a listing say and where they go: theorems about the        *)
(* options and the texts of a row, for every command line, environment, File   *)
(* and time (Fields), and about the strings that listfiles() makes of any      *)
(* fields and has display.c put on the screen (Layout).                        *)
EXTENDS Fields, Layout, FiniteSetTheorems, WellFoundedInduction, TLAPS

Member == {"blocksize", "displaymode", "escape", "flags", "followdirlinkargs",
           "screenwidth", "sizestyle", "sorttype", "targetinfo", "timeformat",
           "timestyle", "timetype", "compare", "now"}

AnySort == {"name", "time", "size", "unsorted", "version"}
AnyTime == {"mtime", "atime", "ctime", "btime"}
Tristate == {"default", "on", "off"}

\* What the members are of, as far as it matters.
OptsType(o) ==
    /\ DOMAIN o = Member
    /\ o.blocksize \in 1..IntMax
    /\ o.followdirlinkargs \in Tristate /\ o.targetinfo \in Tristate
    /\ o.sorttype \in AnySort /\ o.timetype \in AnyTime
    /\ o.timeformat \in {"none", "iso"} /\ o.timestyle \in {"traditional", "relative"}
    /\ o.now \in Int

\* What the options turn on and choose, by member.
LEMMA TurnsOnTable ==
    ASSUME NEW f \in Flag
    PROVE  /\ "datetime" \in TurnsOn(f) <=> f \in {"l", "T", "traditional", "relative"}
           /\ "showlink" \in TurnsOn(f) <=> f = "l"
           /\ "longformat" \in TurnsOn(f) <=> f = "l"
           /\ "reverse" \in TurnsOn(f) <=> f = "r"
           /\ "color" \in TurnsOn(f) <=> f = "G"
           /\ "modes" \in TurnsOn(f) <=> f \in {"M", "l"}
           /\ "dirtotals" \in TurnsOn(f) <=> f \in {"s", "l"}
           /\ "size" \in TurnsOn(f) <=> f = "s"
           /\ f = "l" => TurnsOn(f) = LongFormat
  BY ZenonT(60) DEF Flag, TurnsOn, LongFormat

LEMMA ChoiceTable ==
    ASSUME NEW f \in Flag
    PROVE  /\ Choice(f)[1] = "timetype" <=> f \in {"c", "u", "btime", "mtime"}
           /\ f = "c" => Choice(f)[2] = "ctime"
           /\ f = "u" => Choice(f)[2] = "atime"
           /\ f \in {"btime", "mtime"} => Choice(f)[2] = f
           /\ Choice(f)[1] = "targetinfo" <=> f \in {"L", "P"}
           /\ f = "L" => Choice(f)[2] = "on"
           /\ f = "P" => Choice(f)[2] = "off"
           /\ Choice(f)[1] = "followdirlinkargs" <=> f = "H"
           /\ f = "H" => Choice(f)[2] = "on"
           /\ Choice(f)[1] = "flags" <=> f \in {"F", "O"}
           /\ f = "F" => Choice(f)[2] = "normal"
           /\ f = "O" => Choice(f)[2] = "old"
           /\ Choice(f)[1] \notin {"screenwidth", "compare", "now"}
           /\ Choice(f)[1] = "blocksize" => Choice(f)[2] = 1024
           /\ Choice(f)[1] = "sorttype" => Choice(f)[2] \in AnySort
           /\ Choice(f)[1] = "timeformat" => Choice(f)[2] = "iso"
           /\ Choice(f)[1] = "timestyle" => Choice(f)[2] \in {"traditional", "relative"}
<1>1. /\ Choice(f)[1] = "timetype" <=> f \in {"c", "u", "btime", "mtime"}
      /\ f = "c" => Choice(f)[2] = "ctime"
      /\ f = "u" => Choice(f)[2] = "atime"
      /\ f \in {"btime", "mtime"} => Choice(f)[2] = f
  BY ZenonT(60) DEF Flag, Choice, Nothing
<1>2. /\ Choice(f)[1] = "targetinfo" <=> f \in {"L", "P"}
      /\ f = "L" => Choice(f)[2] = "on"
      /\ f = "P" => Choice(f)[2] = "off"
      /\ Choice(f)[1] = "followdirlinkargs" <=> f = "H"
      /\ f = "H" => Choice(f)[2] = "on"
      /\ Choice(f)[1] = "flags" <=> f \in {"F", "O"}
      /\ f = "F" => Choice(f)[2] = "normal"
      /\ f = "O" => Choice(f)[2] = "old"
  BY ZenonT(60) DEF Flag, Choice, Nothing
<1>3. /\ Choice(f)[1] \notin {"screenwidth", "compare", "now"}
      /\ Choice(f)[1] = "blocksize" => Choice(f)[2] = 1024
      /\ Choice(f)[1] = "timeformat" => Choice(f)[2] = "iso"
  BY DEF Flag, Choice, Nothing
<1>4. /\ Choice(f)[1] = "sorttype" => Choice(f)[2] \in AnySort
      /\ Choice(f)[1] = "timestyle" => Choice(f)[2] \in {"traditional", "relative"}
  BY DEF Flag, Choice, Nothing, AnySort
<1> QED
  BY <1>1, <1>2, <1>3, <1>4

\* An option chooses a value its member may have.
LEMMA ChoiceType ==
    ASSUME NEW f \in Flag, NEW o, OptsType(o)
    PROVE  OptsType([k \in DOMAIN o |-> IF k = Choice(f)[1] THEN Choice(f)[2] ELSE o[k]])
<1> DEFINE member == Choice(f)[1]
           value == Choice(f)[2]
<1>1. /\ member # "now"
      /\ member = "blocksize" => value \in 1..IntMax
      /\ member \in {"followdirlinkargs", "targetinfo"} => value \in Tristate
      /\ member = "sorttype" => value \in AnySort
      /\ member = "timetype" => value \in AnyTime
      /\ member = "timeformat" => value \in {"none", "iso"}
      /\ member = "timestyle" => value \in {"traditional", "relative"}
  BY ChoiceTable, OptionsAssumption DEF OptionsAssumption, AnyTime, Tristate
<1> HIDE DEF member, value
<1> DEFINE new == [k \in DOMAIN o |-> IF k = member THEN value ELSE o[k]]
<1>2. OptsType(new)
  BY <1>1 DEF OptsType, Member
<1> QED
  BY <1>2 DEF member, value

LEMMA DefaultsType == OptsType(Default) /\ (env \in Int => OptsType(SetDefaults))
<1>1. OptsType(Default)
  BY OptionsAssumption DEF OptionsAssumption, OptsType, Default, Member, AnySort, AnyTime, Tristate
<1>2. env \in Int => BlockSize(env) \in 1..IntMax
  BY OptionsAssumption DEF OptionsAssumption, BlockSize, Default
<1>3. env \in Int => OptsType(SetDefaults)
  BY <1>1, <1>2 DEF SetDefaults, OptsType, Member
<1> QED
  BY <1>1, <1>3

-----------------------------------------------------------------------------
(* The inductive invariant: what the options taken so far have come to, what   *)
(* the rest of setoptions() makes of it, what is allocated, and the time.      *)

TurnedOn(m) == \E i \in 1..optind : m \in TurnsOn(argv[i])

\* v is what the first n options of a make of member k, d its default.
ParsedOf(a, n, d, k, v) ==
    \/ \E i \in 1..n :
          /\ Choice(a[i])[1] = k /\ v = Choice(a[i])[2]
          /\ \A j \in i + 1..n : Choice(a[j])[1] # k
    \/ (\A i \in 1..n : Choice(a[i])[1] # k) /\ v = d

Parsed(k, v) == ParsedOf(argv, optind, SetDefaults[k], k, v)

TypeInv ==
    /\ argv \in Seq(Flag \cup {Unusable}) /\ env \in Int /\ clock \in Int
    /\ terminal \in UnsignedShort \cup {NoTerminal}
    /\ optind \in 0..Len(argv)
    /\ \A i \in 1..optind : argv[i] \in Flag
    /\ OptsType(opts)

ParseInv ==
    /\ stage = "new" => optind = 0 /\ on = {}
    /\ stage = "parse" => /\ \A m : m \in on <=> TurnedOn(m)
                          /\ \A k \in Member : Parsed(k, opts[k])

Kept == {"blocksize", "displaymode", "escape", "flags", "screenwidth", "sizestyle",
         "timeformat", "timestyle", "timetype"}
Late == {"colors", "time", "names", "ready"}

\* s, f and t are the members that were settled, before.
SettledFrom(s, f, t) ==
    /\ Parsed("sorttype", s) /\ Parsed("followdirlinkargs", f) /\ Parsed("targetinfo", t)
    /\ s \in AnySort /\ f \in Tristate /\ t \in Tristate
    /\ opts.sorttype = IF ~TurnedOn("datetime") /\ opts.timetype # "mtime" THEN "time" ELSE s
    /\ opts.targetinfo = IF t = "default" THEN "off" ELSE t
    /\ opts.followdirlinkargs = IF f # "default" THEN f ELSE IF t # "default" THEN t
                                ELSE IF opts.flags # "none" \/ TurnedOn("longformat")
                                THEN "off" ELSE "on"

SettledInv ==
    stage \in Late =>
        /\ optind = Len(argv)
        /\ \A k \in Kept : Parsed(k, opts[k])
        /\ \E s, f, t : SettledFrom(s, f, t)
        /\ opts.compare = "none" <=> opts.sorttype = "unsorted"
        /\ \A m : m \in on => TurnedOn(m)
        /\ \A m : TurnedOn(m) /\ m \notin {"reverse", "showlink", "color"} => m \in on
        /\ "reverse" \in on <=> TurnedOn("reverse") /\ opts.sorttype # "unsorted"
        /\ "showlink" \in on <=> TurnedOn("showlink") /\ opts.targetinfo # "on"

HeapInv ==
    /\ stage = "new" => heap = {}
    /\ stage \in {"parse", "colors"} => heap = {"options"}
    /\ stage \in {"time", "names", "ready"} =>
          /\ "options" \in heap
          /\ "color" \in on => "color strings" \in heap
    /\ stage = "ready" => Maps \subseteq heap
    /\ stage = "exit" => exitcode \in {1, 2} /\ heap \subseteq {"options"}

TimeInv ==
    /\ stage \in {"names", "ready"} /\ "datetime" \in on => opts.now = clock
    /\ stage = "aborted" => clock <= 0

OptionsInv == TypeInv /\ ParseInv /\ SettledInv /\ HeapInv /\ TimeInv

LEMMA InvInit == RowInit => OptionsInv
<1> SUFFICES ASSUME RowInit PROVE OptionsInv
  OBVIOUS
<1>1. PICK i \in Invocations :
        argv = i.argv /\ terminal = i.terminal /\ env = i.blocksize /\ clock = i.clock
  BY DEF RowInit, OptInit
<1>2. i \in [argv : Seq(Flag \cup {Unusable}), blocksize : Int,
             terminal : UnsignedShort \cup {NoTerminal}, clock : Int]
  BY OptionsAssumption DEF OptionsAssumption
<1>3. optind = 0 /\ on = {} /\ opts = Default /\ heap = {} /\ stage = "new"
  BY DEF RowInit, OptInit
<1>4. TypeInv
  <2>1. argv \in Seq(Flag \cup {Unusable}) /\ env \in Int /\ clock \in Int
        /\ terminal \in UnsignedShort \cup {NoTerminal}
    BY <1>1, <1>2
  <2>2. OptsType(opts)
    BY <1>3, DefaultsType
  <2>3. 1..optind = {} /\ 0 \in 0..Len(argv)
    BY <1>3, <2>1
  <2> QED
    BY <1>3, <2>1, <2>2, <2>3 DEF TypeInv
<1>5. ParseInv /\ SettledInv /\ HeapInv /\ TimeInv
  BY <1>3 DEF ParseInv, SettledInv, HeapInv, TimeInv, Late
<1> QED
  BY <1>4, <1>5 DEF OptionsInv

\* Settle keeps the types.
LEMMA SettleType ==
    ASSUME TypeInv, Settle
    PROVE  OptsType(opts') /\ DOMAIN opts' = DOMAIN opts
<1>1. SortType \in AnySort /\ Follow \in Tristate
  BY DEF SortType, Follow, TypeInv, OptsType, AnySort, Tristate
<1> QED
  BY <1>1 DEF Settle, TypeInv, OptsType, Member, Tristate

LEMMA TypeStep == OptionsInv /\ [RowNext]_rowvars => TypeInv'
<1> SUFFICES ASSUME OptionsInv, [RowNext]_rowvars PROVE TypeInv'
  OBVIOUS
<1> USE DEF OptionsInv
<1>1. CASE TakeOption
  <2>1. argv[optind + 1] \in Flag /\ optind + 1 \in 0..Len(argv)
    BY <1>1 DEF TypeInv, TakeOption
  <2>2. OptsType(opts')
    BY <1>1, <2>1, ChoiceType DEF TypeInv, TakeOption
  <2> QED
    BY <1>1, <2>1, <2>2 DEF TypeInv, TakeOption, input
<1>2. CASE NewOptions
  BY <1>2, DefaultsType DEF TypeInv, NewOptions, input
<1>3. CASE Settle
  <2>1. OptsType(opts')
    BY <1>3, SettleType
  <2> QED
    BY <1>3, <2>1 DEF TypeInv, Settle, input
<1>4. CASE AskTime
  <2>1. OptsType(opts')
    BY <1>4 DEF TypeInv, AskTime, OptsType, Member
  <2> QED
    BY <1>4, <2>1 DEF TypeInv, AskTime, input
<1>5. CASE UsageError \/ SetupColors \/ NewMaps \/ ShowFile \/ Ended \/ UNCHANGED rowvars
  <2>1. UNCHANGED <<input, optind, opts>>
    BY <1>5 DEF UsageError, SetupColors, Fail, NewMaps, ShowFile, Ended, rowvars, optvars
  <2> QED
    BY <2>1 DEF TypeInv, input
<1> QED
  BY <1>1, <1>2, <1>3, <1>4, <1>5 DEF RowNext, Program, SetOptions

\* What has been parsed stays so while no option is taken.
LEMMA ParsedUnchanged ==
    ASSUME UNCHANGED <<input, optind>>
    PROVE  /\ \A k, v : Parsed(k, v)' <=> Parsed(k, v)
           /\ \A m : TurnedOn(m)' <=> TurnedOn(m)
<1>1. SetDefaults' = SetDefaults
  BY DEF SetDefaults, BlockSize, input
<1> QED
  BY <1>1 DEF Parsed, ParsedOf, TurnedOn, input

\* One option more.
LEMMA ParseOne ==
    ASSUME NEW a, NEW n \in Nat, NEW d, NEW k, NEW v, NEW f, a[n + 1] = f
    PROVE  /\ Choice(f)[1] = k => ParsedOf(a, n + 1, d, k, Choice(f)[2])
           /\ ParsedOf(a, n, d, k, v) /\ Choice(f)[1] # k => ParsedOf(a, n + 1, d, k, v)
           /\ \A m : (\E i \in 1..n + 1 : m \in TurnsOn(a[i]))
                     <=> (\E i \in 1..n : m \in TurnsOn(a[i])) \/ m \in TurnsOn(f)
<1>0. 1..n + 1 = 1..n \cup {n + 1}
  OBVIOUS
<1>1. ASSUME Choice(f)[1] = k PROVE ParsedOf(a, n + 1, d, k, Choice(f)[2])
  <2>1. n + 1 \in 1..n + 1 /\ n + 1 + 1..n + 1 = {}
    OBVIOUS
  <2> QED
    BY <1>1, <2>1 DEF ParsedOf
<1>2. ASSUME ParsedOf(a, n, d, k, v), Choice(f)[1] # k PROVE ParsedOf(a, n + 1, d, k, v)
  <2>1. ASSUME NEW i \in 1..n PROVE i + 1..n + 1 = (i + 1..n) \cup {n + 1}
    OBVIOUS
  <2>2. CASE (\A i \in 1..n : Choice(a[i])[1] # k) /\ v = d
    BY <1>0, <1>2, <2>2 DEF ParsedOf
  <2>3. CASE \E i \in 1..n : /\ Choice(a[i])[1] = k /\ v = Choice(a[i])[2]
                             /\ \A j \in i + 1..n : Choice(a[j])[1] # k
    <3>1. PICK i \in 1..n : /\ Choice(a[i])[1] = k /\ v = Choice(a[i])[2]
                            /\ \A j \in i + 1..n : Choice(a[j])[1] # k
      BY <2>3
    <3>2. \A j \in i + 1..n + 1 : Choice(a[j])[1] # k
      BY <3>1, <2>1, <1>2
    <3> QED
      BY <1>0, <3>1, <3>2 DEF ParsedOf
  <2> QED
    BY <1>2, <2>2, <2>3 DEF ParsedOf
<1>3. \A m : (\E i \in 1..n + 1 : m \in TurnsOn(a[i]))
             <=> (\E i \in 1..n : m \in TurnsOn(a[i])) \/ m \in TurnsOn(f)
  BY <1>0
<1> QED
  BY <1>1, <1>2, <1>3

LEMMA ParseStep == OptionsInv /\ [RowNext]_rowvars => ParseInv'
<1> SUFFICES ASSUME OptionsInv, [RowNext]_rowvars PROVE ParseInv'
  OBVIOUS
<1> USE DEF OptionsInv
<1>1. CASE TakeOption
  <2> optind \in Nat
    BY DEF TypeInv
  <2>0. PICK a, n, d, f :
          n \in Nat /\ a = argv /\ n = optind /\ d = SetDefaults /\ f = a[n + 1]
    OBVIOUS
  <2>1. argv' = a /\ optind' = n + 1 /\ stage = "parse" /\ stage' = "parse" /\ on' = on \cup TurnsOn(f)
    BY <1>1, <2>0 DEF TakeOption, input
  <2>2. SetDefaults' = d
    BY <1>1, <2>0 DEF TakeOption, SetDefaults, BlockSize, input
  <2>3. ASSUME NEW m PROVE m \in on' <=> TurnedOn(m)'
    BY <2>0, <2>1, ParseOne DEF ParseInv, TurnedOn
  <2>4. ASSUME NEW k \in Member PROVE Parsed(k, opts[k])'
    <3>1. opts'[k] = IF k = Choice(f)[1] THEN Choice(f)[2] ELSE opts[k]
      BY <1>1, <2>0 DEF TakeOption, TypeInv, OptsType
    <3>2. ParsedOf(a, n, d[k], k, opts[k])
      BY <2>0, <2>1 DEF ParseInv, Parsed
    <3>3. PICK v : v = opts[k]
      OBVIOUS
    <3>4. ParsedOf(a, n + 1, d[k], k, opts'[k])
      <4>1. CASE Choice(f)[1] = k
        BY <4>1, <2>0, <3>1, ParseOne, ZenonT(60)
      <4>2. CASE Choice(f)[1] # k
        <5>1. ParsedOf(a, n + 1, d[k], k, v)
          BY <4>2, <2>0, <3>2, <3>3, ParseOne
        <5> QED
          BY <5>1, <4>2, <3>1, <3>3
      <4> QED
        BY <4>1, <4>2
    <3> QED
      BY <3>4, <2>1, <2>2 DEF Parsed
  <2> QED
    BY <2>1, <2>3, <2>4 DEF ParseInv
<1>2. CASE NewOptions
  <2>1. optind' = 0 /\ on' = {} /\ stage' \in {"parse", "exit"}
    BY <1>2 DEF NewOptions, ParseInv, ExitWith
  <2>2. stage' = "parse" => opts' = SetDefaults'
    BY <1>2 DEF NewOptions, ExitWith, SetDefaults, BlockSize, input
  <2>3. 1..optind' = {}
    BY <2>1
  <2> QED
    BY <2>1, <2>2, <2>3 DEF ParseInv, Parsed, ParsedOf, TurnedOn
<1>3. CASE UNCHANGED rowvars \/ Ended
  <2>1. UNCHANGED <<input, optind, on, opts, stage>>
    BY <1>3 DEF Ended, rowvars, optvars
  <2> QED
    BY <2>1, ParsedUnchanged DEF ParseInv
<1>4. CASE UsageError \/ Settle \/ SetupColors \/ AskTime \/ NewMaps \/ ShowFile
  <2>1. stage' \notin {"new", "parse"}
    BY <1>4 DEF UsageError, Settle, SetupColors, AskTime, NewMaps, ShowFile, Fail, ExitWith
  <2> QED
    BY <2>1 DEF ParseInv
<1> QED
  BY <1>1, <1>2, <1>3, <1>4 DEF RowNext, Program, SetOptions

\* What Settle does to each member.
LEMMA SettleEffect ==
    ASSUME TypeInv, Settle
    PROVE  /\ UNCHANGED <<input, optind>> /\ stage' = "colors" /\ optind = Len(argv) /\ stage = "parse"
           /\ \A k \in Kept : opts'[k] = opts[k]
           /\ opts'.sorttype = SortType /\ opts'.compare = Compare
           /\ opts'.followdirlinkargs = Follow
           /\ opts'.targetinfo = IF opts.targetinfo = "default" THEN "off" ELSE opts.targetinfo
  BY DEF Settle, TypeInv, OptsType, Member, Kept

LEMMA SettledStep == OptionsInv /\ [RowNext]_rowvars => SettledInv'
<1> SUFFICES ASSUME OptionsInv, [RowNext]_rowvars PROVE SettledInv'
  OBVIOUS
<1> USE DEF OptionsInv
<1>1. CASE Settle
  <2>1. /\ UNCHANGED <<input, optind>> /\ stage' = "colors" /\ optind = Len(argv) /\ stage = "parse"
        /\ \A k \in Kept : opts'[k] = opts[k]
        /\ opts'.sorttype = SortType /\ opts'.compare = Compare
        /\ opts'.followdirlinkargs = Follow
        /\ opts'.targetinfo = IF opts.targetinfo = "default" THEN "off" ELSE opts.targetinfo
    BY <1>1, SettleEffect
  <2>2. (\A k \in Member : Parsed(k, opts[k])) /\ \A m : m \in on <=> TurnedOn(m)
    BY <2>1 DEF ParseInv
  <2>3. (\A k, v : Parsed(k, v)' <=> Parsed(k, v)) /\ \A m : TurnedOn(m)' <=> TurnedOn(m)
    BY <2>1, ParsedUnchanged
  <2>4. \A k \in Kept : Parsed(k, opts[k])'
    BY <2>1, <2>2, <2>3 DEF Kept, Member
  <2>5. (\E s, f, t : SettledFrom(s, f, t))'
    <3>1. PICK s, f, t : s = opts.sorttype /\ f = opts.followdirlinkargs /\ t = opts.targetinfo
      OBVIOUS
    <3>2. Parsed("sorttype", s)' /\ Parsed("followdirlinkargs", f)' /\ Parsed("targetinfo", t)'
      BY <3>1, <2>2, <2>3 DEF Member
    <3>3. s \in AnySort /\ f \in Tristate /\ t \in Tristate
      BY <3>1 DEF TypeInv, OptsType
    <3>4. opts'.timetype = opts.timetype /\ opts'.flags = opts.flags
      BY <2>1 DEF Kept
    <3>5. opts'.sorttype =
             IF ~TurnedOn("datetime")' /\ opts'.timetype # "mtime" THEN "time" ELSE s
      BY <3>1, <3>4, <2>1, <2>2, <2>3 DEF SortType
    <3>6. opts'.followdirlinkargs =
             IF f # "default" THEN f ELSE IF t # "default" THEN t
             ELSE IF opts'.flags # "none" \/ TurnedOn("longformat")' THEN "off" ELSE "on"
      BY <3>1, <3>4, <2>1, <2>2, <2>3 DEF Follow
    <3> QED
      BY <3>1, <3>2, <3>3, <3>5, <3>6, <2>1 DEF SettledFrom
  <2>6. opts'.compare = "none" <=> opts'.sorttype = "unsorted"
    <3>1. opts.timetype \in AnyTime /\ SortType \in AnySort
      BY DEF TypeInv, OptsType, SortType, AnySort
    <3> QED
      BY <3>1, <2>1 DEF Compare, AnyTime, AnySort
  <2>7. on' = on \ ((IF opts'.sorttype = "unsorted" THEN {"reverse"} ELSE {})
                    \cup (IF opts'.targetinfo = "on" THEN {"showlink"} ELSE {}))
    BY <1>1, <2>1 DEF Settle
  <2> HIDE DEF OptionsInv
  <2>8. /\ \A m : m \in on' => TurnedOn(m)
        /\ \A m : TurnedOn(m) /\ m \notin {"reverse", "showlink", "color"} => m \in on'
        /\ "reverse" \in on' <=> TurnedOn("reverse") /\ opts'.sorttype # "unsorted"
        /\ "showlink" \in on' <=> TurnedOn("showlink") /\ opts'.targetinfo # "on"
    BY <2>7, <2>2
  <2>9. optind' = Len(argv')
    BY <2>1 DEF input
  <2> QED
    BY <2>3, <2>4, <2>5, <2>6, <2>8, <2>9 DEF SettledInv
<1>2. CASE SetupColors \/ AskTime \/ NewMaps \/ Ended \/ UNCHANGED rowvars
  <2> SUFFICES ASSUME stage' \in Late PROVE SettledInv'
    BY DEF SettledInv
  <2>1. UNCHANGED <<input, optind>> /\ stage \in Late
    BY <1>2 DEF SetupColors, AskTime, NewMaps, Ended, rowvars, optvars, Fail, ExitWith, Late
  <2>2. \A k \in Member \ {"now"} : opts'[k] = opts[k]
    BY <1>2 DEF SetupColors, AskTime, NewMaps, Ended, rowvars, optvars, Fail, TypeInv, OptsType
  <2>3. on' = on \/ on' = on \ {"color"}
    BY <1>2 DEF SetupColors, AskTime, NewMaps, Ended, rowvars, optvars, Fail
  <2>4. (\A k, v : Parsed(k, v)' <=> Parsed(k, v)) /\ \A m : TurnedOn(m)' <=> TurnedOn(m)
    BY <2>1, ParsedUnchanged
  <2>5. optind' = Len(argv')
    BY <2>1 DEF SettledInv, input
  <2>6. \A k \in Kept : Parsed(k, opts[k])'
    BY <2>1, <2>2, <2>4 DEF SettledInv, Kept, Member
  <2>7. /\ opts'.sorttype = opts.sorttype /\ opts'.targetinfo = opts.targetinfo
        /\ opts'.followdirlinkargs = opts.followdirlinkargs /\ opts'.compare = opts.compare
        /\ opts'.timetype = opts.timetype /\ opts'.flags = opts.flags
    BY <2>2 DEF Member
  <2>8. (\E s, f, t : SettledFrom(s, f, t))'
    <3>1. PICK s, f, t : SettledFrom(s, f, t)
      BY <2>1 DEF SettledInv
    <3>2. SettledFrom(s, f, t)'
      BY <3>1, <2>4, <2>7 DEF SettledFrom
    <3> QED
      BY <3>2
  <2> QED
    BY <2>1, <2>3, <2>4, <2>5, <2>6, <2>7, <2>8 DEF SettledInv
<1>3. CASE NewOptions \/ TakeOption \/ UsageError \/ ShowFile
  <2>1. stage' \notin Late
    BY <1>3 DEF NewOptions, TakeOption, UsageError, ShowFile, ExitWith, Late
  <2> QED
    BY <2>1 DEF SettledInv
<1> QED
  BY <1>1, <1>2, <1>3 DEF RowNext, Program, SetOptions

LEMMA HeapStep == OptionsInv /\ [RowNext]_rowvars => HeapInv'
<1> SUFFICES ASSUME OptionsInv, [RowNext]_rowvars PROVE HeapInv'
  OBVIOUS
<1> USE DEF OptionsInv, HeapInv
<1>1. CASE NewOptions
  BY <1>1 DEF NewOptions, ExitWith
<1>2. CASE TakeOption \/ UsageError \/ Settle
  BY <1>2 DEF TakeOption, UsageError, Settle, ExitWith
<1>3. CASE SetupColors
  BY <1>3 DEF SetupColors, Fail, ExitWith
<1>4. CASE AskTime
  BY <1>4 DEF AskTime
<1>5. CASE NewMaps
  <2>1. on' = on => Maps' = Maps
    BY DEF Maps
  <2> QED
    BY <1>5, <2>1 DEF NewMaps, Fail, ExitWith
<1>6. CASE ShowFile
  BY <1>6 DEF ShowFile
<1>7. CASE Ended \/ UNCHANGED rowvars
  <2>1. UNCHANGED <<on, heap, stage, exitcode>>
    BY <1>7 DEF Ended, rowvars, optvars
  <2>2. Maps' = Maps
    BY <2>1 DEF Maps
  <2> QED
    BY <2>1, <2>2
<1> QED
  BY <1>1, <1>2, <1>3, <1>4, <1>5, <1>6, <1>7 DEF RowNext, Program, SetOptions

LEMMA TimeStep == OptionsInv /\ [RowNext]_rowvars => TimeInv'
<1> SUFFICES ASSUME OptionsInv, [RowNext]_rowvars PROVE TimeInv'
  OBVIOUS
<1> USE DEF OptionsInv, TimeInv
<1>1. CASE AskTime
  <2>1. "datetime" \in on => opts' = [opts EXCEPT !.now = clock]
    BY <1>1 DEF AskTime
  <2>2. DOMAIN opts = Member
    BY DEF TypeInv, OptsType
  <2>3. "datetime" \in on => opts'.now = clock
    BY <2>1, <2>2 DEF Member
  <2> QED
    BY <1>1, <2>3 DEF AskTime, input
<1>2. CASE ShowFile
  <2>1. stage' = "aborted" => clock <= 0
    BY <1>2 DEF ShowFile, Asserts
  <2> QED
    BY <1>2, <2>1 DEF ShowFile, input
<1>3. CASE NewMaps \/ Ended \/ UNCHANGED rowvars
  BY <1>3 DEF NewMaps, Fail, ExitWith, Ended, rowvars, optvars, input
<1>4. CASE NewOptions \/ TakeOption \/ UsageError \/ Settle \/ SetupColors
  <2>1. stage' \notin {"names", "ready", "aborted"}
    BY <1>4 DEF NewOptions, TakeOption, UsageError, Settle, SetupColors, Fail, ExitWith
  <2> QED
    BY <2>1
<1> QED
  BY <1>1, <1>2, <1>3, <1>4 DEF RowNext, Program, SetOptions

\* The options are always what the invariant says of them.
THEOREM OptionsInvariant == RowSpec => []OptionsInv
<1>1. OptionsInv /\ [RowNext]_rowvars => OptionsInv'
  BY TypeStep, ParseStep, SettledStep, HeapStep, TimeStep DEF OptionsInv
<1> QED
  BY InvInit, <1>1, PTL DEF RowSpec

\* The program gives up on a row only where time() failed, for every command
\* line, File and time: time() has been called before getdatetimefield() needs it.
THEOREM EveryFileGetsARowHolds == RowSpec => []EveryFileGetsARow
<1>1. OptionsInv => EveryFileGetsARow
  BY DEF OptionsInv, TimeInv, EveryFileGetsARow
<1> QED
  BY OptionsInvariant, <1>1, PTL

-----------------------------------------------------------------------------
(* What follows for a listing that begins.                                     *)

\* No option chooses the width of the screen; -H is only turned on.
LEMMA NeverChosen ==
    ASSUME TypeInv, NEW v
    PROVE  /\ Parsed("screenwidth", v) => v = SetDefaults.screenwidth
           /\ Parsed("followdirlinkargs", v) => v \in {"default", "on"}
<1>1. ASSUME NEW i \in 1..optind
      PROVE  Choice(argv[i])[1] # "screenwidth"
             /\ (Choice(argv[i])[1] = "followdirlinkargs" => Choice(argv[i])[2] = "on")
  <2>1. PICK f \in Flag : f = argv[i]
    BY DEF TypeInv
  <2> QED
    BY <2>1, ChoiceTable
<1>2. SetDefaults.followdirlinkargs = "default"
  BY DEF SetDefaults, Default
<1> QED
  BY <1>1, <1>2 DEF Parsed, ParsedOf

LEMMA ScreenWidth ==
    ASSUME terminal \in 0..MaxShort \cup {NoTerminal}
    PROVE  SetDefaults.screenwidth \in 1..MaxShort
<1> DEFINE w == IF terminal \in {NoTerminal, 0} THEN 80 ELSE Short(terminal)
<1>1. SetDefaults.screenwidth = w
  BY DEF SetDefaults, Default
<1>2. MaxShort = 32767
  BY DEF MaxShort
<1>3. ASSUME NEW n \in 0..MaxShort PROVE Short(n) = n
  <2>1. n \in Nat /\ n <= 32767
    BY <1>2
  <2> QED
    BY <2>1 DEF Short
<1>4. MaxShort \in Nat /\ MaxShort >= 80
  BY <1>2
<1>5. w \in 1..MaxShort
  BY <1>3, <1>4
<1> HIDE DEF w
<1> QED
  BY <1>1, <1>5

\* What the rest of the program takes for granted of its Options is so, whatever
\* the command line, BLOCKSIZE and terminal, and whichever allocation failed.
THEOREM ReadyToListHolds == RowSpec => []ReadyToList
<1>1. OptionsInv => ReadyToList
  <2> SUFFICES ASSUME OptionsInv PROVE ReadyToList
    OBVIOUS
  <2> USE DEF OptionsInv
  <2>1. ASSUME stage = "ready"
        PROVE  /\ Needed \subseteq heap
               /\ opts.blocksize \in 1..IntMax
               /\ opts.followdirlinkargs \in {"on", "off"} /\ opts.targetinfo \in {"on", "off"}
               /\ opts.targetinfo = "on" => opts.followdirlinkargs = "on" /\ "showlink" \notin on
               /\ "reverse" \in on => opts.compare # "none"
               /\ opts.compare = "none" <=> opts.sorttype = "unsorted"
               /\ "showlink" \in on => "modes" \in on
               /\ "dirtotals" \in on => on \cap {"size", "modes"} # {}
    <3> USE <2>1
    <3>1. PICK s, f, t : SettledFrom(s, f, t)
      BY DEF SettledInv, Late
    <3>2. f \in {"default", "on"}
      BY <3>1, NeverChosen DEF SettledFrom
    <3>3. opts.followdirlinkargs \in {"on", "off"} /\ opts.targetinfo \in {"on", "off"}
          /\ (opts.targetinfo = "on" => opts.followdirlinkargs = "on")
      BY <3>1, <3>2 DEF SettledFrom, Tristate
    <3>4. /\ opts.compare = "none" <=> opts.sorttype = "unsorted"
          /\ opts.targetinfo = "on" => "showlink" \notin on
          /\ "reverse" \in on => opts.compare # "none"
      BY DEF SettledInv, Late
    <3>5. \A m \in on : \E g \in Flag : m \in TurnsOn(g)
                                        /\ \A n : n \in TurnsOn(g) => TurnedOn(n)
      BY DEF SettledInv, Late, TurnedOn, TypeInv
    <3>6. \A m : TurnedOn(m) /\ m \notin {"reverse", "showlink", "color"} => m \in on
      BY DEF SettledInv, Late
    <3>7. "showlink" \in on => "modes" \in on
      BY <3>5, <3>6, TurnsOnTable
    <3>8. "dirtotals" \in on => on \cap {"size", "modes"} # {}
      BY <3>5, <3>6, TurnsOnTable
    <3>9. Needed \subseteq heap
      BY DEF HeapInv, Needed
    <3> QED
      BY <3>3, <3>4, <3>7, <3>8, <3>9 DEF TypeInv, OptsType
  <2>2. ASSUME stage = "ready", terminal \in 0..MaxShort \cup {NoTerminal}
        PROVE  opts.screenwidth \in 1..MaxShort
    <3>1. Parsed("screenwidth", opts.screenwidth)
      BY <2>2 DEF SettledInv, Late, Kept
    <3> QED
      BY <3>1, <2>2, NeverChosen, ScreenWidth
  <2>3. stage = "exit" => exitcode \in {1, 2} /\ heap \subseteq {"options"}
    BY DEF HeapInv
  <2> QED
    BY <2>1, <2>2, <2>3 DEF ReadyToList
<1> QED
  BY OptionsInvariant, <1>1, PTL

\* What has been parsed to the end is what the last option says.
LEMMA LastOptionWins ==
    ASSUME TypeInv, optind = Len(argv), NEW k, Parsed(k, opts[k])
    PROVE  LastWins(k)
<1> DEFINE Deciding == {f \in Flag : Choice(f)[1] = k}
<1>0. \A i \in 1..Len(argv) : argv[i] \in Deciding <=> Choice(argv[i])[1] = k
  BY DEF TypeInv
<1>1. CASE \E i \in 1..optind :
              /\ Choice(argv[i])[1] = k /\ opts[k] = Choice(argv[i])[2]
              /\ \A j \in i + 1..optind : Choice(argv[j])[1] # k
  <2>1. PICK i \in 1..optind :
              /\ Choice(argv[i])[1] = k /\ opts[k] = Choice(argv[i])[2]
              /\ \A j \in i + 1..optind : Choice(argv[j])[1] # k
    BY <1>1
  <2>2. argv[i] \in Deciding /\ \A j \in i + 1..Len(argv) : argv[j] \notin Deciding
    BY <1>0, <2>1
  <2>3. Given(Deciding) /\ LastOf(Deciding, argv[i])
    BY <2>2, <2>1 DEF Given, LastOf
  <2> HIDE DEF Deciding
  <2>4. \E f \in Deciding : LastOf(Deciding, f) /\ opts[k] = Choice(f)[2]
    BY <2>1, <2>2, <2>3
  <2> QED
    BY <2>3, <2>4 DEF LastWins, Deciding
<1>2. CASE (\A i \in 1..optind : Choice(argv[i])[1] # k) /\ opts[k] = SetDefaults[k]
  <2>1. ~Given(Deciding)
    BY <1>0, <1>2 DEF Given
  <2> QED
    BY <1>2, <2>1 DEF LastWins
<1> QED
  BY <1>1, <1>2 DEF Parsed, ParsedOf

\* An option of S is on the command line if one of them chose, or turned on.
LEMMA GivenTurnsOn ==
    ASSUME TypeInv, optind = Len(argv), NEW m, NEW S \in SUBSET Flag,
           \A f \in Flag : m \in TurnsOn(f) <=> f \in S
    PROVE  TurnedOn(m) <=> Given(S)
  BY DEF TypeInv, TurnedOn, Given

\* v is what the last of the options of S has chosen, or d if there is none.
LastChooses(S, v, d) ==
    \/ \E f \in S : LastOf(S, f) /\ v = Choice(f)[2] /\ \A g : LastOf(S, g) => g = f
    \/ v = d /\ ~Given(S) /\ \A g : ~LastOf(S, g)

\* Of the options that choose k the last one is what is parsed.
LEMMA ChosenLast ==
    ASSUME TypeInv, optind = Len(argv), NEW k, NEW v, Parsed(k, v), NEW S \in SUBSET Flag,
           \A f \in Flag : Choice(f)[1] = k <=> f \in S, NEW d, SetDefaults[k] = d
    PROVE  LastChooses(S, v, d)
<1>0. \A i \in 1..Len(argv) : argv[i] \in S <=> Choice(argv[i])[1] = k
  BY DEF TypeInv
<1>1. CASE \E i \in 1..optind :
              /\ Choice(argv[i])[1] = k /\ v = Choice(argv[i])[2]
              /\ \A j \in i + 1..optind : Choice(argv[j])[1] # k
  <2>1. PICK i \in 1..optind :
              /\ Choice(argv[i])[1] = k /\ v = Choice(argv[i])[2]
              /\ \A j \in i + 1..optind : Choice(argv[j])[1] # k
    BY <1>1
  <2>2. argv[i] \in S /\ \A j \in i + 1..Len(argv) : argv[j] \notin S
    BY <1>0, <2>1
  <2>3. LastOf(S, argv[i])
    BY <2>2, <2>1 DEF LastOf
  <2>4. ASSUME NEW g, LastOf(S, g) PROVE g = argv[i]
    <3>1. PICK j \in 1..Len(argv) :
             argv[j] = g /\ g \in S /\ \A l \in j + 1..Len(argv) : argv[l] \notin S
      BY <2>4 DEF LastOf
    <3>2. Len(argv) \in Nat /\ i \in Int /\ j \in Int
      BY DEF TypeInv
    <3>3. ~(i < j) /\ ~(j < i)
      BY <2>1, <2>2, <3>1, <3>2
    <3> QED
      BY <3>1, <3>2, <3>3
  <2> QED
    BY <2>1, <2>2, <2>3, <2>4 DEF LastChooses
<1>2. CASE (\A i \in 1..optind : Choice(argv[i])[1] # k) /\ v = SetDefaults[k]
  BY <1>0, <1>2 DEF Given, LastOf, LastChooses
<1> QED
  BY <1>1, <1>2 DEF Parsed, ParsedOf

\* What the options have come to is what the rules make of the command line.
LEMMA MeaningFollows ==
    ASSUME OptionsInv, stage = "ready"
    PROVE  MeansWhatWasGiven
<1> USE DEF OptionsInv
<1>0. TypeInv /\ optind = Len(argv) /\ stage \in Late /\ (\A k \in Kept : Parsed(k, opts[k]))
  BY DEF SettledInv, Late
<1>1. PICK s, f, t : SettledFrom(s, f, t)
  BY <1>0 DEF SettledInv
<1>2. \A k \in Kept : LastWins(k)
  BY <1>0, LastOptionWins
<1>3. /\ Given({"r"}) <=> TurnedOn("reverse")
      /\ Given({"l"}) <=> TurnedOn("showlink")
      /\ Given({"l"}) <=> TurnedOn("longformat")
      /\ ShowsTime <=> TurnedOn("datetime")
  <2>1. {"r"} \in SUBSET Flag /\ {"l"} \in SUBSET Flag
        /\ {"l", "T", "traditional", "relative"} \in SUBSET Flag
    BY DEF Flag
  <2>2. \A g \in Flag : /\ "reverse" \in TurnsOn(g) <=> g \in {"r"}
                        /\ "showlink" \in TurnsOn(g) <=> g \in {"l"}
                        /\ "longformat" \in TurnsOn(g) <=> g \in {"l"}
                        /\ "datetime" \in TurnsOn(g)
                              <=> g \in {"l", "T", "traditional", "relative"}
    BY TurnsOnTable
  <2>3. TurnedOn("reverse") <=> Given({"r"})
    BY <1>0, <2>1, <2>2, GivenTurnsOn
  <2>4. TurnedOn("showlink") <=> Given({"l"})
    BY <1>0, <2>1, <2>2, GivenTurnsOn
  <2>5. TurnedOn("longformat") <=> Given({"l"})
    BY <1>0, <2>1, <2>2, GivenTurnsOn
  <2>6. TurnedOn("datetime") <=> Given({"l", "T", "traditional", "relative"})
    BY <1>0, <2>1, <2>2, GivenTurnsOn
  <2> QED
    BY <2>3, <2>4, <2>5, <2>6 DEF ShowsTime
<1>4. SetDefaults["targetinfo"] = "default" /\ SetDefaults["followdirlinkargs"] = "default"
      /\ SetDefaults["flags"] = "none" /\ SetDefaults["timetype"] = "mtime"
  BY DEF SetDefaults, Default
<1>5. opts.timetype # "mtime" <=> SortsByOtherTime
  <2> DEFINE S == {"c", "u", "btime", "mtime"}
  <2>1. S \in SUBSET Flag /\ (\A g \in Flag : Choice(g)[1] = "timetype" <=> g \in S)
    BY ChoiceTable DEF Flag
  <2>2. Parsed("timetype", opts.timetype)
    BY <1>0 DEF Kept
  <2>3. LastChooses(S, opts.timetype, "mtime")
    <3> HIDE DEF S
    <3> QED
      BY <1>0, <1>4, <2>1, <2>2, ChosenLast
  <2>4. \A g \in S : Choice(g)[2] # "mtime" <=> g \in {"c", "u", "btime"}
    BY <2>1, ChoiceTable
  <2> QED
    BY <2>3, <2>4 DEF LastChooses, SortsByOtherTime
<1>6. /\ LastOf({"L", "P"}, "L") <=> t = "on"
      /\ LastOf({"L", "P"}, "P") <=> t = "off"
  <2> DEFINE S == {"L", "P"}
  <2>1. S \in SUBSET Flag
        /\ (\A g \in Flag : Choice(g)[1] = "targetinfo" <=> g \in S)
    BY ChoiceTable DEF Flag
  <2>2. Parsed("targetinfo", t)
    BY <1>1 DEF SettledFrom
  <2>3. LastChooses(S, t, "default")
    <3> HIDE DEF S
    <3> QED
      BY <1>0, <1>4, <2>1, <2>2, ChosenLast
  <2>4. Choice("L")[2] = "on" /\ Choice("P")[2] = "off"
    BY <2>1, ChoiceTable
  <2> QED
    BY <2>3, <2>4 DEF LastChooses
<1>7. Given({"H"}) <=> f # "default"
  <2> DEFINE S == {"H"}
  <2>1. S \in SUBSET Flag /\ \A g \in Flag : Choice(g)[1] = "followdirlinkargs" <=> g \in S
    BY ChoiceTable DEF Flag
  <2>2. Parsed("followdirlinkargs", f)
    BY <1>1 DEF SettledFrom
  <2>3. LastChooses(S, f, "default")
    <3> HIDE DEF S
    <3> QED
      BY <1>0, <1>4, <2>1, <2>2, ChosenLast
  <2>4. Choice("H")[2] = "on" /\ \A g : LastOf({"H"}, g) => Given({"H"})
    BY <2>1, ChoiceTable DEF LastOf, Given
  <2> QED
    BY <2>3, <2>4 DEF LastChooses
<1>8. opts.flags # "none" <=> Given({"F", "O"})
  <2> DEFINE S == {"F", "O"}
  <2>1. S \in SUBSET Flag
        /\ (\A g \in Flag : Choice(g)[1] = "flags" <=> g \in S)
    BY ChoiceTable DEF Flag
  <2>2. Parsed("flags", opts.flags)
    BY <1>0 DEF Kept
  <2>3. LastChooses(S, opts.flags, "none")
    <3> HIDE DEF S
    <3> QED
      BY <1>0, <1>4, <2>1, <2>2, ChosenLast
  <2>4. Choice("F")[2] # "none" /\ Choice("O")[2] # "none"
        /\ \A g : LastOf({"F", "O"}, g) => Given({"F", "O"})
    BY <2>1, ChoiceTable DEF LastOf, Given
  <2> QED
    BY <2>3, <2>4 DEF LastChooses
<1>9. FollowsFrom({"F", "O", "l"})
  <2>1. Given({"F", "O", "l"}) <=> Given({"F", "O"}) \/ Given({"l"})
    BY DEF Given
  <2>2. f \in {"default", "on"} /\ t \in Tristate
    BY <1>0, <1>1, NeverChosen DEF SettledFrom
  <2> QED
    BY <1>1, <1>3, <1>6, <1>7, <1>8, <2>1, <2>2 DEF FollowsFrom, SettledFrom, Tristate
<1>10. IF SortsByOtherTime /\ ~ShowsTime THEN opts.sorttype = "time" ELSE LastWins("sorttype")
  <2>1. opts.sorttype = IF SortsByOtherTime /\ ~ShowsTime THEN "time" ELSE s
    BY <1>1, <1>3, <1>5 DEF SettledFrom
  <2>2. Parsed("sorttype", s)
    BY <1>1 DEF SettledFrom
  <2> QED
    BY <1>0, <2>1, <2>2, LastOptionWins
<1>11. /\ "reverse" \in on <=> Given({"r"}) /\ opts.sorttype # "unsorted"
       /\ "showlink" \in on <=> Given({"l"}) /\ ~LastOf({"L", "P"}, "L")
  <2>1. opts.targetinfo = "on" <=> t = "on"
    BY <1>1 DEF SettledFrom
  <2> QED
    BY <1>0, <1>3, <1>6, <2>1 DEF SettledInv
<1>12. \A m \in on : \E g \in Flag : Given({g}) /\ m \in TurnsOn(g)
  BY <1>0 DEF SettledInv, TurnedOn, TypeInv, Given
<1>13. ASSUME NEW g \in Flag, Given({g}), NEW m \in TurnsOn(g),
              m \notin {"reverse", "showlink", "color"}
       PROVE  m \in on
  <2>1. TurnedOn(m)
    BY <1>0, <1>13 DEF TurnedOn, Given
  <2> QED
    BY <1>0, <1>13, <2>1 DEF SettledInv
<1>14. \A g \in Flag \ {"G", "r", "l"} : Given({g}) => TurnsOn(g) \subseteq on
  BY <1>13, TurnsOnTable
<1>15. Given({"l"}) => LongFormat \ {"showlink"} \subseteq on
  <2>1. "l" \in Flag
    BY DEF Flag
  <2>2. TurnsOn("l") = LongFormat /\ "reverse" \notin LongFormat /\ "color" \notin LongFormat
    BY <2>1, TurnsOnTable DEF LongFormat
  <2> QED
    BY <1>13, <2>1, <2>2
<1> HIDE DEF OptionsInv
<1> QED
  BY <1>2, <1>9, <1>10, <1>11, <1>12, <1>14, <1>15 DEF MeansWhatWasGiven, Kept

\* A listing is what the rules of setoptions() (options.c:193-505) make of its
\* command line, for any number of options in any order.
THEOREM MeansWhatWasGivenHolds == RowSpec => []MeansWhatWasGiven
<1>1. OptionsInv => MeansWhatWasGiven
  BY MeaningFollows DEF MeansWhatWasGiven
<1> QED
  BY OptionsInvariant, <1>1, PTL

-----------------------------------------------------------------------------
(* What the texts of a row tell.                                               *)

\* A text that two times share is no finer than their distance.
LEMMA TraditionalTells ==
    ASSUME NEW now \in Int, NEW t \in Int, NEW u \in Int, NEW text,
           text = Traditional(t, now), text = Traditional(u, now)
    PROVE  Distance(t, u) < Resolution(text)
<1> USE DEF Traditional, WeekdayAndTime, DateAndTime, DateAndYear, Minute, Hour, Day
<1>1. CASE t <= now /\ t > now - 6 * Day
  <2>1. text[1] = "weekday" /\ text[2] = (t % (7 * Day)) \div Minute
    BY <1>1
  <2>2. u <= now /\ u > now - 6 * Day
    BY <2>1
  <2>3. text[2] = (u % (7 * Day)) \div Minute
    BY <2>2
  <2>4. Distance(t, u) < Minute
    BY <1>1, <2>1, <2>2, <2>3 DEF Distance
  <2>5. Resolution(text) = Minute
    BY <2>1 DEF Resolution
  <2> QED
    BY <2>4, <2>5
<1>2. CASE t <= now - 6 * Day /\ t > now - 180 * Day
  <2>1. text[1] = "date" /\ text[2] = (t % (365 * Day)) \div Minute
    BY <1>2
  <2>2. u <= now - 6 * Day /\ u > now - 180 * Day
    BY <2>1
  <2>3. text[2] = (u % (365 * Day)) \div Minute
    BY <2>2
  <2>4. Distance(t, u) < Minute
    BY <1>2, <2>1, <2>2, <2>3 DEF Distance
  <2>5. Resolution(text) = Minute
    BY <2>1 DEF Resolution
  <2> QED
    BY <2>4, <2>5
<1>3. CASE t > now \/ t <= now - 180 * Day
  <2>1. text[1] = "year" /\ text[2] = t \div Day
    BY <1>3
  <2>2. text[2] = u \div Day
    BY <2>1
  <2>3. Distance(t, u) < Day
    BY <2>1, <2>2 DEF Distance
  <2>4. Resolution(text) = Day
    BY <2>1 DEF Resolution
  <2> QED
    BY <2>3, <2>4
<1> QED
  BY <1>1, <1>2, <1>3

\* The unit of an age, by its name.
LEMMA UnitOfAge ==
    ASSUME NEW age \in Nat
    PROVE  /\ UnitOf(age)[2] \in {1, Minute, Hour, Day, Month, Year}
           /\ UnitOf(age)[2] = CASE UnitOf(age)[1] = "years"   -> Year
                                 [] UnitOf(age)[1] = "months"  -> Month
                                 [] UnitOf(age)[1] = "days"    -> Day
                                 [] UnitOf(age)[1] = "hours"   -> Hour
                                 [] UnitOf(age)[1] = "minutes" -> Minute
                                 [] OTHER                      -> 1
           /\ UnitOf(age)[1] \in {"years", "months", "days", "hours", "minutes", "seconds"}
  BY DEF UnitOf, Minute, Hour, Day, Month, Year

LEMMA RelativeTells ==
    ASSUME NEW now \in Int, NEW t \in Int, NEW u \in Int, NEW text,
           text = Relative(t, now), text = Relative(u, now)
    PROVE  Distance(t, u) < Resolution(text)
<1>1. ASSUME NEW v \in Int, v <= now, text = Relative(v, now)
      PROVE  /\ text[2] = (now - v) \div Resolution(text)
             /\ Resolution(text) \in {1, Minute, Hour, Day, Month, Year}
             /\ text[1] # "year"
  <2>1. PICK age \in Nat : age = now - v
    BY <1>1
  <2>2. text[1] = UnitOf(age)[1] /\ text[2] = age \div UnitOf(age)[2]
    BY <1>1, <2>1 DEF Relative
  <2>3. PICK name, unit : name = UnitOf(age)[1] /\ unit = UnitOf(age)[2]
    OBVIOUS
  <2>4. Resolution(text) = unit
    BY <2>2, <2>3, UnitOfAge DEF Resolution
  <2> QED
    BY <2>1, <2>2, <2>3, <2>4, UnitOfAge
<1>2. ASSUME NEW v \in Int, v > now, text = Relative(v, now)
      PROVE  text[1] = "year" /\ text[2] = v \div Day
  BY <1>2 DEF Relative, DateAndYear, Minute, Hour, Day
<1>3. PICK res : res = Resolution(text)
  OBVIOUS
<1>4. CASE t > now
  <2>1. text[1] = "year" /\ res = Day
    BY <1>2, <1>3, <1>4 DEF Resolution
  <2>2. u > now
    BY <1>1, <2>1
  <2>3. text[2] = t \div Day /\ text[2] = u \div Day
    BY <1>2, <1>4, <2>2
  <2>4. Distance(t, u) < Day
    BY <2>3 DEF Distance, Day, Hour, Minute
  <2> QED
    BY <1>3, <2>1, <2>4
<1>5. CASE t <= now
  <2>1. /\ text[2] = (now - t) \div res
        /\ res \in {1, Minute, Hour, Day, Month, Year}
        /\ text[1] # "year"
    BY <1>1, <1>3, <1>5
  <2>2. u <= now
    BY <1>2, <2>1
  <2>3. text[2] = (now - u) \div res
    BY <1>1, <1>3, <2>2
  <2>4. Distance(t, u) < res
    BY <2>1, <2>3 DEF Distance, Minute, Hour, Day, Month, Year
  <2> QED
    BY <1>3, <2>4
<1> QED
  BY <1>4, <1>5

\* The smaller of two ages is not shown as the greater.
LEMMA AgesInOrder ==
    ASSUME NEW a \in Nat, NEW b \in Nat, a <= b
    PROVE  (a \div UnitOf(a)[2]) * UnitOf(a)[2] <= (b \div UnitOf(b)[2]) * UnitOf(b)[2]
<1>1. PICK m, n : m = UnitOf(a)[2] /\ n = UnitOf(b)[2]
  OBVIOUS
<1>2. /\ m = IF a > Year THEN Year ELSE IF a > Month THEN Month ELSE IF a > Day THEN Day
              ELSE IF a > Hour THEN Hour ELSE IF a > Minute THEN Minute ELSE 1
      /\ n = IF b > Year THEN Year ELSE IF b > Month THEN Month ELSE IF b > Day THEN Day
              ELSE IF b > Hour THEN Hour ELSE IF b > Minute THEN Minute ELSE 1
  BY <1>1 DEF UnitOf, Year, Month, Day, Hour, Minute
<1>3. (a \div m) * m <= (b \div n) * n
  BY <1>2 DEF Year, Month, Day, Hour, Minute
<1> QED
  BY <1>1, <1>3

\* What a text about a time begins with.
LEMMA FirstOfText ==
    ASSUME NEW now \in Int, NEW t \in Int
    PROVE  /\ Traditional(t, now)[1] \in {"weekday", "date", "year"}
           /\ Relative(t, now)[1] \in {"year", "years", "months", "days", "hours", "minutes",
                                       "seconds"}
<1>1. Traditional(t, now)[1] \in {"weekday", "date", "year"}
  BY DEF Traditional, WeekdayAndTime, DateAndTime, DateAndYear, Minute, Hour, Day
<1>2. CASE t > now
  BY <1>1, <1>2 DEF Relative, DateAndYear, Minute, Hour, Day
<1>3. CASE t <= now
  <2>1. PICK age \in Nat : age = now - t
    BY <1>3
  <2>2. Relative(t, now)[1] = UnitOf(age)[1]
    BY <1>3, <2>1 DEF Relative
  <2> QED
    BY <1>1, <2>2, UnitOfAge
<1> QED
  BY <1>2, <1>3

LEMMA DateTextTells ==
    ASSUME NEW now \in Int, NEW t \in Int, NEW u \in Int, NEW format, NEW style, NEW text,
           text = DateText(t, now, format, style), text = DateText(u, now, format, style)
    PROVE  Distance(t, u) < Resolution(text)
<1>1. ASSUME NEW v \in Int, text = DateText(v, now, format, style)
      PROVE  /\ ~Converts(v) => text[1] = "number" /\ text[2] = v
             /\ Converts(v) /\ format # "none" => text[1] = "iso" /\ text[2] = v
             /\ Converts(v) /\ format = "none" =>
                   /\ text[1] \notin {"number", "iso"}
                   /\ IF style = "relative" THEN text = Relative(v, now)
                      ELSE text = Traditional(v, now)
  BY <1>1, FirstOfText DEF DateText, Raw, Iso
<1>2. CASE text[1] \in {"number", "iso"}
  <2>1. text[2] = t /\ text[2] = u
    BY <1>1, <1>2
  <2>2. Resolution(text) = 1
    BY <1>2 DEF Resolution
  <2> QED
    BY <2>1, <2>2 DEF Distance
<1>3. CASE text[1] \notin {"number", "iso"}
  <2>1. CASE style = "relative"
    BY <1>1, <1>3, <2>1, RelativeTells
  <2>2. CASE style # "relative"
    BY <1>1, <1>3, <2>2, TraditionalTells
  <2> QED
    BY <2>1, <2>2
<1> QED
  BY <1>2, <1>3

\* The older of two Files is not shown as the younger.
LEMMA RelativeInOrder ==
    ASSUME NEW now \in Int, NEW t \in Int, NEW u \in Int, t <= now, u <= t,
           NEW text, text = Relative(t, now), NEW other, other = Relative(u, now)
    PROVE  text[2] * Resolution(text) <= other[2] * Resolution(other)
<1>1. PICK a \in Nat, b \in Nat : a = now - t /\ b = now - u /\ a <= b
  OBVIOUS
<1>2. text[1] = UnitOf(a)[1] /\ text[2] = a \div UnitOf(a)[2]
      /\ other[1] = UnitOf(b)[1] /\ other[2] = b \div UnitOf(b)[2]
  BY <1>1 DEF Relative
<1>3. PICK m, n : m = UnitOf(a)[2] /\ n = UnitOf(b)[2]
  OBVIOUS
<1>4. Resolution(text) = m /\ Resolution(other) = n
  BY <1>2, <1>3, UnitOfAge DEF Resolution
<1> QED
  BY <1>1, <1>2, <1>3, <1>4, AgesInOrder

\* A row that has been made shows what the texts of its File are.
RowInv ==
    stage = "shown" => file \in Files /\ row = [c \in Columns \cap on |-> Text(file, c)]

LEMMA RowStep == OptionsInv /\ RowInv /\ [RowNext]_rowvars => RowInv'
<1> SUFFICES ASSUME OptionsInv, RowInv, [RowNext]_rowvars PROVE RowInv'
  OBVIOUS
<1>1. CASE ShowFile
  <2> SUFFICES ASSUME stage' = "shown" PROVE RowInv'
    BY DEF RowInv
  <2>1. PICK f \in Files : file' = f /\ row' = [c \in Columns \cap on |-> Text(f, c)]
    BY <1>1 DEF ShowFile
  <2>2. on' = on /\ opts' = opts
    BY <1>1 DEF ShowFile
  <2>3. \A c : Text(file, c)' = Text(f, c)
    BY <2>1, <2>2 DEF Text, SizeText, BytesText, IdText, TimeText
  <2> QED
    BY <2>1, <2>2, <2>3 DEF RowInv
<1>2. CASE SetOptions
  <2>1. stage' # "shown"
    BY <1>2 DEF SetOptions, NewOptions, TakeOption, UsageError, Settle, SetupColors, AskTime,
                NewMaps, Fail, ExitWith
  <2> QED
    BY <2>1 DEF RowInv
<1>3. CASE Ended \/ UNCHANGED rowvars
  <2>1. UNCHANGED <<stage, file, row, on, opts>>
    BY <1>3 DEF Ended, rowvars, optvars
  <2>2. \A c : Text(file, c)' = Text(file, c)
    BY <2>1 DEF Text, SizeText, BytesText, IdText, TimeText
  <2> QED
    BY <2>1, <2>2 DEF RowInv
<1> QED
  BY <1>1, <1>2, <1>3 DEF RowNext, Program

\* A row that has been made is made of the texts of its File, with the options
\* and the time it was asked for with (getfilefields(), filefields.c:57-201).
THEOREM RowInvariant == RowSpec => []RowInv
<1>1. RowInit => RowInv
  BY DEF RowInit, OptInit, RowInv
<1>2. RowInv /\ OptionsInv /\ [RowNext]_rowvars => RowInv'
  BY RowStep
<1> QED
  BY <1>1, <1>2, OptionsInvariant, PTL DEF RowSpec

\* A date can be told, for any two Files, times and options: a text that two
\* times share leaves out no more than the figures after its last, and of two
\* ages the smaller is not shown as the greater.
THEOREM DateTellsTheTimeHolds == RowSpec => []DateTellsTheTime
<1>1. OptionsInv /\ RowInv => DateTellsTheTime
  <2> SUFFICES ASSUME OptionsInv, RowInv, stage = "shown", "datetime" \in on, file.stat,
                      NEW g \in Files, g.stat
               PROVE  LET t == file.time[opts.timetype]
                          text == row["datetime"]
                          u == g.time[opts.timetype]
                          other == TimeText(g)
                      IN  /\ other = text => Distance(t, u) < Resolution(text)
                          /\ (opts.timestyle = "relative" /\ opts.timeformat = "none"
                                 /\ Converts(t) /\ Converts(u) /\ t <= opts.now /\ u <= t)
                                => text[2] * Resolution(text) <= other[2] * Resolution(other)
    BY DEF DateTellsTheTime
  <2>1. opts.timetype \in Times /\ opts.now \in Int
    BY DEF OptionsInv, TypeInv, OptsType, AnyTime, Times
  <2>2. file \in Files /\ row["datetime"] = TimeText(file)
    BY DEF RowInv, Text, Columns
  <2>3. PICK t \in Int, u \in Int, now \in Int :
            t = file.time[opts.timetype] /\ u = g.time[opts.timetype] /\ now = opts.now
    BY <2>1, <2>2, FilesAssumption DEF FilesAssumption
  <2>4. PICK text, other, format, style :
            /\ text = row["datetime"] /\ other = TimeText(g)
            /\ format = opts.timeformat /\ style = opts.timestyle
    OBVIOUS
  <2>5. text = DateText(t, now, format, style) /\ other = DateText(u, now, format, style)
    BY <2>2, <2>3, <2>4 DEF TimeText
  <2>6. other = text => Distance(t, u) < Resolution(text)
    BY <2>5, DateTextTells
  <2>7. style = "relative" /\ format = "none" /\ Converts(t) /\ Converts(u)
           /\ t <= now /\ u <= t
           => text[2] * Resolution(text) <= other[2] * Resolution(other)
    <3>1. style = "relative" /\ format = "none" /\ Converts(t) /\ Converts(u)
             => text = Relative(t, now) /\ other = Relative(u, now)
      BY <2>5 DEF DateText
    <3> QED
      BY <3>1, RelativeInOrder
  <2> QED
    BY <2>3, <2>4, <2>6, <2>7
<1> QED
  BY <1>1, RowInvariant, OptionsInvariant, PTL

\* getblocks() answers with a number of blocks.
LEMMA BlocksAreNat == \A n \in Nat, b \in Nat \ {0} : Blocks(n, b) \in Nat
<1> SUFFICES ASSUME NEW n \in Nat, NEW b \in Nat \ {0} PROVE Blocks(n, b) \in Nat
  OBVIOUS
<1>1. CASE b > DevBsize
  <2>1. PICK k \in Nat \ {0} : k = b \div DevBsize
    BY <1>1 DEF DevBsize
  <2>2. (n + (k \div 2)) \div k \in Nat
    OBVIOUS
  <2> QED
    BY <1>1, <2>1, <2>2 DEF Blocks
<1>2. CASE ~(b > DevBsize)
  <2>1. DevBsize \div b \in Nat
    BY DEF DevBsize
  <2> QED
    BY <1>2, <2>1 DEF Blocks
<1> QED
  BY <1>1, <1>2

\* getblocks(): where blocks are whole parts or multiples of the kernel's, they
\* are shown to half a block; where they are not, within a factor of two.
THEOREM BlocksAreClose ==
    ASSUME NEW n \in Nat, NEW b \in Nat \ {0}
    PROVE  LET shown == Blocks(n, b) * b
               true == DevBsize * n
           IN  /\ b % DevBsize = 0 \/ DevBsize % b = 0 => 2 * Distance(shown, true) <= b
               /\ shown <= 2 * true + b /\ true <= 2 * shown + b
<1> USE DEF DevBsize
<1>1. CASE b > DevBsize
  <2>1. PICK k \in Nat : k = b \div DevBsize /\ k >= 1
    BY <1>1
  <2>2. b >= 512 * k /\ b < 512 * (k + 1) /\ (b % 512 = 0 => b = 512 * k)
    BY <2>1
  <2>3. PICK q \in Nat : q = (n + (k \div 2)) \div k
    BY <2>1
  <2>4. Blocks(n, b) = q
    BY <1>1, <2>1, <2>3 DEF Blocks
  <2>5. 2 * (q * k) <= 2 * n + k /\ 2 * n <= 2 * (q * k) + k
    <3>1. PICK h \in Nat, p \in Nat : h = k \div 2 /\ 2 * h <= k /\ k <= 2 * h + 1 /\ p = q * k
      BY <2>1
    <3>2. p <= n + h /\ n + h < p + k
      BY <2>1, <2>3, <3>1
    <3> QED
      BY <3>1, <3>2
  <2>6. b % 512 = 0 => q * b = 512 * (q * k)
    <3>1. q * (512 * k) = 512 * (q * k)
      OBVIOUS
    <3> QED
      BY <2>2, <3>1
  <2>7. 512 % b # 0
    BY <1>1
  <2>8. q * b >= 512 * (q * k) /\ q * b <= 512 * (q * k) + 512 * q
    BY <2>2
  <2>9. q <= q * k
    BY <2>1
  <2> QED
    BY <2>2, <2>4, <2>5, <2>6, <2>7, <2>8, <2>9 DEF Distance
<1>2. CASE b <= DevBsize
  <2>1. PICK k \in Nat : k = DevBsize \div b /\ k >= 1
    BY <1>2
  <2>2. k * b <= 512 /\ 512 < (k + 1) * b /\ (512 % b = 0 => k * b = 512)
    BY <1>2, <2>1
  <2>3. Blocks(n, b) = n * k
    BY <1>2, <2>1 DEF Blocks
  <2>4. (n * k) * b = n * (k * b)
    OBVIOUS
  <2>5. n * (k * b) <= 512 * n /\ 512 * n <= 2 * (n * (k * b))
    BY <2>1, <2>2
  <2>6. 512 % b = 0 => n * (k * b) = 512 * n
    BY <2>2
  <2>7. b % 512 = 0 => b = 512
    BY <1>2
  <2> QED
    BY <2>2, <2>3, <2>4, <2>5, <2>6, <2>7 DEF Distance
<1> QED
  BY <1>1, <1>2

\* A unit of humanbytes() is a thousand of the one before.
LEMMA UnitIsPower ==
    /\ Unit(0) = 1
    /\ \A i \in 1..8 : Unit(i) = 1000 * Unit(i - 1)
    /\ \A i \in 0..8 : Unit(i) \in Nat \ {0}
<1>1. \E u : u[0] = 1 /\ \A k \in 1..8 : u[k] = 1000 * u[k - 1]
  <2>1. PICK a \in Int, b \in Int, c \in Int, d \in Int :
            a = 1000 /\ b = 1000 * a /\ c = 1000 * b /\ d = 1000 * c
    OBVIOUS
  <2>2. PICK e \in Int, f \in Int, g \in Int, h \in Int :
            e = 1000 * d /\ f = 1000 * e /\ g = 1000 * f /\ h = 1000 * g
    OBVIOUS
  <2> DEFINE u == [k \in 0..8 |->
                     CASE k = 0 -> 1 [] k = 1 -> a [] k = 2 -> b [] k = 3 -> c [] k = 4 -> d
                       [] k = 5 -> e [] k = 6 -> f [] k = 7 -> g [] k = 8 -> h]
  <2>3. u[0] = 1 /\ u[1] = a /\ u[2] = b /\ u[3] = c /\ u[4] = d
    OBVIOUS
  <2>4. u[5] = e /\ u[6] = f /\ u[7] = g /\ u[8] = h
    OBVIOUS
  <2> HIDE DEF u
  <2>5. ASSUME NEW k \in 1..8 PROVE u[k] = 1000 * u[k - 1]
    <3>1. k \in {1, 2, 3, 4, 5, 6, 7, 8}
      OBVIOUS
    <3>2. k \in {1, 2, 3, 4} => u[k] = 1000 * u[k - 1]
      BY <2>1, <2>3
    <3>3. k \in {5, 6, 7, 8} => u[k] = 1000 * u[k - 1]
      BY <2>2, <2>3, <2>4
    <3> QED
      BY <3>1, <3>2, <3>3
  <2> QED
    BY <2>3, <2>5
<1>2. PICK u : u[0] = 1 /\ \A k \in 1..8 : u[k] = 1000 * u[k - 1]
  BY <1>1
<1>3. ASSUME NEW i \in 0..8 PROVE Unit(i) = u[i]
  <2> DEFINE Is(f) == f = [k \in 0..i |-> IF k = 0 THEN 1 ELSE 1000 * f[k - 1]]
             upto == [k \in 0..i |-> u[k]]
  <2>1. Is(upto)
    <3>1. ASSUME NEW k \in 0..i, k # 0 PROVE u[k] = 1000 * upto[k - 1]
      <4>1. k - 1 \in 0..i /\ k \in 1..8
        BY <3>1
      <4>2. upto[k - 1] = u[k - 1]
        BY <4>1
      <4> QED
        BY <1>2, <4>1, <4>2
    <3>2. u[0] = 1
      BY <1>2
    <3>3. \A k \in 0..i : u[k] = IF k = 0 THEN 1 ELSE 1000 * upto[k - 1]
      <4> HIDE DEF upto
      <4> QED
        BY <3>1, <3>2
    <3> QED
      BY <3>3
  <2>2. PICK f : f = CHOOSE g : Is(g)
    OBVIOUS
  <2>3. Is(f)
    <3> HIDE DEF upto, Is
    <3> QED
      BY <2>1, <2>2, Zenon
  <2>4. Unit(i) = f[i]
    BY <2>2 DEF Unit
  <2>5. f[0] = 1 /\ \A k \in 1..8 : k <= i => f[k] = 1000 * f[k - 1]
    BY <2>3
  <2>6. f[i] = u[i]
    BY <1>2, <2>5, SMT
  <2> QED
    BY <2>4, <2>6
<1>4. \A i \in 0..8 : u[i] \in Nat \ {0}
  BY <1>2, SMT
<1> QED
  BY <1>2, <1>3, <1>4

\* humanbytes() picks a unit: the first that leaves less than 1000, or the last.
LEMMA UnitOfHumanBytes ==
    ASSUME NEW bytes \in Nat
    PROVE  \E i \in 0..8 : /\ HumanBytes(bytes) = <<"human", Nearest(bytes, Unit(i)), i>>
                           /\ bytes \div Unit(i) < 1000 \/ i = 8
                           /\ \A j \in 0..i - 1 : bytes \div Unit(j) >= 1000
<1> DEFINE Fits(i) == /\ bytes \div Unit(i) < 1000 \/ i = 8
                      /\ \A j \in 0..i - 1 : bytes \div Unit(j) >= 1000
<1>1. \A i \in 0..8 : bytes \div Unit(i) \in Nat
  BY UnitIsPower
<1>2. \E i \in 0..8 : Fits(i)
  <2> DEFINE q == [i \in 0..8 |-> bytes \div Unit(i)]
  <2>1. \A i \in 0..8 : q[i] \in Nat /\ q[i] = bytes \div Unit(i)
    BY <1>1
  <2>2. \E i \in 0..8 : /\ q[i] < 1000 \/ i = 8
                        /\ \A j \in 0..i - 1 : q[j] >= 1000
    <3> HIDE DEF q
    <3>1. CASE \A j \in 0..7 : q[j] >= 1000
      BY <3>1
    <3>2. CASE \E j \in 0..7 : q[j] < 1000
      <4>1. PICK i \in 0..7 : q[i] < 1000 /\ \A j \in 0..i - 1 : q[j] >= 1000
        BY <2>1, <3>2
      <4> QED
        BY <4>1
    <3> QED
      BY <2>1, <3>1, <3>2
  <2> QED
    BY <2>1, <2>2
<1>3. PICK i : i = CHOOSE k \in 0..8 : Fits(k)
  OBVIOUS
<1>4. i \in 0..8 /\ Fits(i)
  BY <1>2, <1>3
<1>5. HumanBytes(bytes) = <<"human", Nearest(bytes, Unit(i)), i>>
  BY <1>3 DEF HumanBytes
<1> QED
  BY <1>4, <1>5

\* "%.0f" rounds down or up ...
LEMMA NearestIsNext ==
    ASSUME NEW n \in Nat, NEW unit \in Nat \ {0}
    PROVE  \E q \in Nat : q = n \div unit /\ Nearest(n, unit) \in {q, q + 1}
<1>1. n \div unit \in Nat
  OBVIOUS
<1> QED
  BY <1>1 DEF Nearest

\* ... and is off by no more than half a unit.
LEMMA NearestIsClose ==
    ASSUME NEW n \in Nat, NEW unit \in Nat \ {0}
    PROVE  IsHalfOff(Nearest(n, unit) * unit, n, unit)
<1>1. PICK q \in Nat, r \in Nat, p \in Nat :
          q = n \div unit /\ r = n % unit /\ p = q * unit /\ n = p + r /\ r < unit
  <2>1. n \div unit \in Nat /\ n % unit \in 0..unit - 1
    OBVIOUS
  <2>2. n = (n \div unit) * unit + (n % unit)
    OBVIOUS
  <2> QED
    BY <2>1, <2>2
<1>2. PICK c \in {0, 1} : c = IF (2 * r) - unit > 0 \/ ((2 * r) - unit = 0 /\ q % 2 = 1) THEN 1 ELSE 0
  OBVIOUS
<1>3. Nearest(n, unit) = q + c
  BY <1>1, <1>2 DEF Nearest
<1>4. (q + c) * unit = p + c * unit
  BY <1>1, <1>2
<1>5. c * unit = IF c = 1 THEN unit ELSE 0
  BY <1>2
<1>6. PICK s \in Nat : s = (q + c) * unit /\ s = p + (IF c = 1 THEN unit ELSE 0)
  BY <1>4, <1>5
<1>7. 2 * Distance(s, n) <= unit
  <2>1. CASE c = 1
    <3>1. 2 * r >= unit
      BY <1>2, <2>1
    <3> QED
      BY <1>1, <1>6, <2>1, <3>1 DEF Distance
  <2>2. CASE c = 0
    <3>1. 2 * r <= unit
      BY <1>2, <2>2
    <3> QED
      BY <1>1, <1>6, <2>2, <3>1 DEF Distance
  <2> QED
    BY <1>2, <2>1, <2>2
<1>8. IsHalfOff(s, n, unit)
  BY <1>7 DEF IsHalfOff
<1> QED
  BY <1>3, <1>6, <1>8

\* What fits into nine units is shown to half of the unit it is shown in, of which
\* there are at most 1000, and as 0 only if it is nothing.
LEMMA HumanBytesAreClose ==
    ASSUME NEW bytes \in Nat, bytes \div Unit(8) < 1000
    PROVE  LET text == HumanBytes(bytes)
           IN  /\ IsHalfOff(text[2] * Unit(text[3]), bytes, Unit(text[3]))
               /\ text[2] <= 1000 /\ (text[2] = 0 => bytes = 0)
<1>1. PICK i \in 0..8 : /\ HumanBytes(bytes) = <<"human", Nearest(bytes, Unit(i)), i>>
                        /\ bytes \div Unit(i) < 1000 \/ i = 8
                        /\ \A j \in 0..i - 1 : bytes \div Unit(j) >= 1000
  BY UnitOfHumanBytes
<1>0. PICK unit \in Nat \ {0} : unit = Unit(i)
  BY UnitIsPower
<1>2. PICK n : unit = Unit(i) /\ n = Nearest(bytes, unit)
  BY <1>0
<1>3. bytes \div unit < 1000
  BY <1>1, <1>2
<1>4. /\ n \in Nat /\ IsHalfOff(n * unit, bytes, unit)
      /\ n <= 1000 /\ n >= bytes \div unit
  <2>1. IsHalfOff(Nearest(bytes, unit) * unit, bytes, unit)
    BY NearestIsClose
  <2>2. PICK q \in Nat : q = bytes \div unit /\ Nearest(bytes, unit) \in {q, q + 1}
    BY NearestIsNext
  <2> QED
    BY <1>2, <1>3, <2>1, <2>2
<1>5. n = 0 => bytes = 0
  <2> SUFFICES ASSUME n = 0 PROVE bytes = 0
    OBVIOUS
  <2>1. bytes \div unit = 0 /\ bytes < unit
    <3>1. bytes = (bytes \div unit) * unit + (bytes % unit)
          /\ bytes \div unit \in Nat /\ bytes % unit \in 0..unit - 1
      OBVIOUS
    <3>2. bytes \div unit = 0
      BY <1>4, <3>1
    <3> QED
      BY <3>1, <3>2
  <2>2. CASE i = 0
    BY <1>2, <2>1, <2>2, UnitIsPower
  <2>3. CASE i # 0
    <3>1. PICK less \in Nat \ {0} : less = Unit(i - 1) /\ unit = 1000 * less
      BY <1>2, <2>3, UnitIsPower
    <3>2. bytes \div less >= 1000
      BY <1>1, <2>3, <3>1
    <3>3. bytes = (bytes \div less) * less + (bytes % less)
          /\ bytes \div less \in Nat /\ bytes % less \in 0..less - 1
      OBVIOUS
    <3>4. (bytes \div less) * less >= 1000 * less
      BY <3>2, <3>3
    <3> QED
      BY <2>1, <3>1, <3>3, <3>4
  <2> QED
    BY <2>2, <2>3
<1>6. HumanBytes(bytes)[2] = n /\ HumanBytes(bytes)[3] = i
  BY <1>1, <1>2
<1>7. PICK text : text = HumanBytes(bytes) /\ text[2] = n /\ text[3] = i
  BY <1>6
<1>8. IsHalfOff(text[2] * Unit(text[3]), bytes, Unit(text[3]))
  BY <1>2, <1>4, <1>7
<1>9. text[2] <= 1000 /\ (text[2] = 0 => bytes = 0)
  BY <1>4, <1>5, <1>7
<1> QED
  BY <1>7, <1>8, <1>9, ZenonT(60)

\* The sizes of the Files, and of their blocks, fit into nine units of a
\* thousand: in the code they are unsigned longs (filefields.c:565, file.c:544).
SizesFit ==
    \A f \in Files : f.stat =>
        /\ f.size \div Unit(8) < 1000
        /\ \A b \in 1..IntMax : (Blocks(f.blocks, b) * b) \div Unit(8) < 1000

\* Every size is shown to the nearest unit, for all sizes, block sizes and options:
\* to half a block where blocks are whole parts or multiples of the kernel's,
\* within a factor of two where they are not, and to half of the unit that -h
\* chooses, of which it shows at most 1000.
THEOREM SizesAreCloseHolds == SizesFit => (RowSpec => []SizesAreClose)
<1> SUFFICES ASSUME SizesFit PROVE RowSpec => []SizesAreClose
  OBVIOUS
<1>1. OptionsInv /\ RowInv => SizesAreClose
  <2> SUFFICES ASSUME OptionsInv, RowInv, stage = "shown", file.stat, ~IsDevice(file)
               PROVE  SizesAreClose
    BY DEF SizesAreClose
  <2>1. PICK b \in 1..IntMax : b = opts.blocksize
    BY DEF OptionsInv, TypeInv, OptsType
  <2>2. file \in Files /\ row = [c \in Columns \cap on |-> Text(file, c)]
    BY DEF RowInv
  <2>3. file.blocks \in Nat /\ file.size \in Nat
    BY <2>2, FilesAssumption DEF FilesAssumption
  <2>4. PICK bytes : bytes = Blocks(file.blocks, b) * b
    OBVIOUS
  <2>5. bytes \in Nat
    <3>1. Blocks(file.blocks, b) \in Nat
      BY <2>1, <2>3, BlocksAreNat
    <3> QED
      BY <2>1, <2>4, <3>1
  <2>6. /\ b % DevBsize = 0 \/ DevBsize % b = 0 =>
             IsHalfOff(bytes, DevBsize * file.blocks, b)
        /\ bytes <= 2 * (DevBsize * file.blocks) + b /\ DevBsize * file.blocks <= 2 * bytes + b
    <3>1. b \in Nat \ {0}
      BY <2>1, OptionsAssumption DEF OptionsAssumption
    <3> QED
      BY <2>3, <2>4, <3>1, BlocksAreClose DEF IsHalfOff
  <2>7. bytes \div Unit(8) < 1000 /\ file.size \div Unit(8) < 1000
    BY <2>1, <2>2, <2>4 DEF SizesFit
  <2> DEFINE IsHuman(text, n) ==
                 /\ IsHalfOff(text[2] * Unit(text[3]), n, Unit(text[3]))
                 /\ text[2] <= 1000 /\ (text[2] = 0 => n = 0)
  <2>8. IsHuman(HumanBytes(bytes), bytes) /\ IsHuman(HumanBytes(file.size), file.size)
    BY <2>3, <2>5, <2>7, HumanBytesAreClose
  <2>9. "size" \in on =>
            IF opts.sizestyle = "human" THEN IsHuman(row["size"], bytes)
            ELSE row["size"][2] * b = bytes
    <3> SUFFICES ASSUME "size" \in on
                 PROVE  IF opts.sizestyle = "human" THEN IsHuman(row["size"], bytes)
                        ELSE row["size"][2] * b = bytes
      OBVIOUS
    <3>1. row["size"] = SizeText(file)
      BY <2>2 DEF Text, Columns
    <3>2. row["size"] = IF opts.sizestyle = "human" THEN HumanBytes(bytes)
                        ELSE <<"blocks", Blocks(file.blocks, b)>>
      BY <2>1, <2>4, <3>1 DEF SizeText
    <3>3. opts.sizestyle = "human" => IsHuman(row["size"], bytes)
      BY <2>8, <3>2
    <3>4. opts.sizestyle # "human" => row["size"][2] * b = bytes
      BY <2>4, <3>2
    <3> QED
      BY <3>3, <3>4
  <2>10. "bytes" \in on /\ opts.sizestyle = "human" => IsHuman(row["bytes"], file.size)
    <3>1. "bytes" \in on /\ opts.sizestyle = "human" => row["bytes"] = HumanBytes(file.size)
      BY <2>2 DEF Text, BytesText, Columns
    <3> QED
      BY <2>8, <3>1
  <2> QED
    BY <2>1, <2>4, <2>6, <2>9, <2>10 DEF SizesAreClose
<1> QED
  BY <1>1, RowInvariant, OptionsInvariant, PTL

\* getmodes() loses nothing: two Files that show the same modes are of the same
\* kind and have the same permissions, setuid, setgid and sticky bits included.
THEOREM ModesTellTheMode ==
    ASSUME NEW kind1 \in Kinds, NEW kind2 \in Kinds, NEW mode1 \in SUBSET Bits,
           NEW mode2 \in SUBSET Bits, NEW acls1, NEW acls2,
           Modes(kind1, mode1, acls1) = Modes(kind2, mode2, acls2)
    PROVE  kind1 = kind2 /\ mode1 = mode2
<1>1. kind1 = kind2
  <2>1. KindLetter(kind1) = KindLetter(kind2)
    BY DEF Modes
  <2> QED
    BY <2>1 DEF KindLetter, Kinds
<1>2. ASSUME NEW bit, NEW letter, letter # "-",
             Letter(mode1, bit, letter) = Letter(mode2, bit, letter)
      PROVE  bit \in mode1 <=> bit \in mode2
  BY <1>2 DEF Letter
<1>3. ASSUME NEW bit, NEW special, NEW both, NEW only,
             both \notin {only, "x", "-"}, only \notin {"x", "-"},
             Execute(mode1, bit, special, both, only) = Execute(mode2, bit, special, both, only)
      PROVE  (bit \in mode1 <=> bit \in mode2) /\ (special \in mode1 <=> special \in mode2)
  BY <1>3 DEF Execute, Letter
<1>4. /\ Letter(mode1, "rusr", "r") = Letter(mode2, "rusr", "r")
      /\ Letter(mode1, "wusr", "w") = Letter(mode2, "wusr", "w")
      /\ Letter(mode1, "rgrp", "r") = Letter(mode2, "rgrp", "r")
      /\ Letter(mode1, "wgrp", "w") = Letter(mode2, "wgrp", "w")
      /\ Letter(mode1, "roth", "r") = Letter(mode2, "roth", "r")
      /\ Letter(mode1, "woth", "w") = Letter(mode2, "woth", "w")
      /\ Execute(mode1, "xusr", "suid", "s", "S") = Execute(mode2, "xusr", "suid", "s", "S")
      /\ Execute(mode1, "xgrp", "sgid", "s", "S") = Execute(mode2, "xgrp", "sgid", "s", "S")
      /\ Execute(mode1, "xoth", "svtx", "t", "T") = Execute(mode2, "xoth", "svtx", "t", "T")
  BY DEF Modes
<1>5. \A bit \in {"rusr", "wusr", "rgrp", "wgrp", "roth", "woth"} : bit \in mode1 <=> bit \in mode2
  BY <1>2, <1>4
<1>6. \A bit \in {"xusr", "suid", "xgrp", "sgid", "xoth", "svtx"} : bit \in mode1 <=> bit \in mode2
  BY <1>3, <1>4
<1>7. \A bit \in Bits : bit \in mode1 <=> bit \in mode2
  BY <1>5, <1>6 DEF Bits
<1>8. mode1 = mode2
  BY <1>7
<1> QED
  BY <1>1, <1>8

-----------------------------------------------------------------------------
(* The strings of a listing (Layout).  Sums first: a set of numbers is summed  *)
(* by a recursive function over its subsets.                                   *)

\* Induction: a set that has 0 and with every n also n + 1 has every number,
\* as the least one it lacked would be neither.
LEMMA InductionInSet ==
    ASSUME NEW S, 0 \in S, \A n \in Nat : n \in S => n + 1 \in S
    PROVE  Nat \subseteq S
<1> DEFINE Missing == Nat \ S
<1>1. SUFFICES ASSUME Missing # {} PROVE FALSE
  OBVIOUS
<1>2. PICK n \in Missing : \A m \in Missing : ~ (<<m, n>> \in OpToRel(<, Nat))
  <2>1. Missing \subseteq Nat
    OBVIOUS
  <2> HIDE DEF Missing
  <2> QED BY <1>1, <2>1, WFMin, NatLessThanWellFounded, Zenon
<1>3. n \in Nat /\ n # 0 /\ n - 1 \in Nat /\ n - 1 < n
  OBVIOUS
<1>4. n - 1 \notin Missing
  BY <1>2, <1>3 DEF OpToRel
<1> QED BY <1>3, <1>4

Any(s) == CHOOSE e \in s : TRUE
Rest(s) == s \ {Any(s)}

\* The subsets of S with no more than m members.
Small(S, m) == {s \in SUBSET S : Cardinality(s) <= m}

\* The sum of w over every set in D.
IsSumOn(g, w, D) == g = [s \in D |-> IF s = {} THEN 0 ELSE w[Any(s)] + g[Rest(s)]]

LEMMA RestIsSmaller ==
    ASSUME NEW S, IsFiniteSet(S), NEW m \in Nat, NEW s \in Small(S, m), s # {}
    PROVE  /\ Any(s) \in S /\ Any(s) \in s /\ m > 0
           /\ Rest(s) \in Small(S, m - 1)
<1>1. Any(s) \in s
  BY DEF Any
<1>2. s \subseteq S /\ IsFiniteSet(s) /\ Cardinality(s) <= m
  BY FS_Subset DEF Small
<1>3. IsFiniteSet(Rest(s)) /\ Cardinality(Rest(s)) = Cardinality(s) - 1
  BY <1>1, <1>2, FS_RemoveElement DEF Rest
<1>4. Cardinality(s) \in Nat /\ Cardinality(Rest(s)) \in Nat
  BY <1>2, <1>3, FS_CardinalityType
<1>5. Rest(s) \subseteq S
  BY <1>2 DEF Rest
<1> QED
  BY <1>1, <1>2, <1>3, <1>4, <1>5 DEF Small

LEMMA SumExists ==
    ASSUME NEW S, IsFiniteSet(S), NEW w
    PROVE  \E g : IsSumOn(g, w, SUBSET S)
<1> DEFINE Exists == {m \in Nat : \E g : IsSumOn(g, w, Small(S, m))}
<1>1. 0 \in Exists
  <2> DEFINE g == [s \in Small(S, 0) |-> 0]
  <2>1. ASSUME NEW s \in Small(S, 0) PROVE s = {}
    BY RestIsSmaller
  <2>2. IsSumOn(g, w, Small(S, 0))
    BY <2>1 DEF IsSumOn
  <2> QED
    BY <2>2
<1>2. ASSUME NEW m \in Nat, m \in Exists PROVE m + 1 \in Exists
  <2>1. PICK g : IsSumOn(g, w, Small(S, m))
    BY <1>2
  <2> DEFINE h == [s \in Small(S, m + 1) |-> IF s = {} THEN 0 ELSE w[Any(s)] + g[Rest(s)]]
  <2>2. Small(S, m) \subseteq Small(S, m + 1)
    <3>1. \A s \in SUBSET S : Cardinality(s) \in Nat
      BY FS_Subset, FS_CardinalityType
    <3> QED
      BY <3>1 DEF Small
  <2>3. ASSUME NEW s \in Small(S, m) PROVE h[s] = g[s]
    BY <2>1, <2>2 DEF IsSumOn
  <2>4. ASSUME NEW s \in Small(S, m + 1), s # {} PROVE h[Rest(s)] = g[Rest(s)]
    <3>1. Rest(s) \in Small(S, m + 1 - 1)
      BY <2>4, RestIsSmaller
    <3>2. Rest(s) \in Small(S, m)
      BY <3>1
    <3> HIDE DEF h
    <3> QED
      BY <2>3, <3>2
  <2>5. h = [s \in Small(S, m + 1) |-> IF s = {} THEN 0 ELSE w[Any(s)] + h[Rest(s)]]
    <3>1. \A s \in Small(S, m + 1) : (IF s = {} THEN 0 ELSE w[Any(s)] + g[Rest(s)])
                                     = IF s = {} THEN 0 ELSE w[Any(s)] + h[Rest(s)]
      <4> HIDE DEF h
      <4> QED
        BY <2>4
    <3> QED
      BY <3>1
  <2> HIDE DEF h
  <2>6. IsSumOn(h, w, Small(S, m + 1))
    BY <2>5 DEF IsSumOn
  <2> QED
    BY <2>6
<1> HIDE DEF Exists
<1>3. Nat \subseteq Exists
  BY <1>1, <1>2, InductionInSet
<1>4. Cardinality(S) \in Exists
  BY <1>3, FS_CardinalityType
<1>5. Small(S, Cardinality(S)) = SUBSET S
  BY FS_Subset DEF Small
<1> QED
  BY <1>4, <1>5 DEF Exists

\* The sum of numbers is a number, and positive if all of them are.
LEMMA SumIsPositive ==
    ASSUME NEW S, IsFiniteSet(S), NEW w, \A e \in S : w[e] \in Nat \ {0},
           NEW g, IsSumOn(g, w, SUBSET S)
    PROVE  \A s \in SUBSET S : g[s] \in Nat /\ (s # {} => g[s] > 0)
<1> DEFINE Good == {m \in Nat : \A s \in Small(S, m) : g[s] \in Nat /\ (s # {} => g[s] > 0)}
<1>1. 0 \in Good
  <2>1. ASSUME NEW s \in Small(S, 0) PROVE s = {}
    BY RestIsSmaller
  <2>2. g[{}] = 0
    BY DEF IsSumOn
  <2>3. ASSUME NEW s \in Small(S, 0) PROVE g[s] = 0 /\ s = {}
    BY <2>1, <2>2, Zenon
  <2> QED
    BY <2>3
<1>2. ASSUME NEW m \in Nat, m \in Good PROVE m + 1 \in Good
  <2>1. ASSUME NEW s \in Small(S, m + 1), s # {} PROVE g[s] \in Nat /\ g[s] > 0
    <3>1. Any(s) \in S /\ Rest(s) \in Small(S, m + 1 - 1)
      BY <2>1, RestIsSmaller
    <3>2. g[Rest(s)] \in Nat
      <4>1. Rest(s) \in Small(S, m)
        BY <3>1
      <4> QED
        BY <1>2, <4>1
    <3>3. g[s] = w[Any(s)] + g[Rest(s)]
      BY <2>1 DEF IsSumOn, Small
    <3>4. w[Any(s)] \in Nat \ {0}
      BY <3>1
    <3> QED
      BY <3>2, <3>3, <3>4
  <2>2. g[{}] = 0
    BY DEF IsSumOn
  <2>3. ASSUME NEW s \in Small(S, m + 1) PROVE g[s] \in Nat /\ (s # {} => g[s] > 0)
    <3>1. CASE s = {}
      <4>1. g[s] = 0
        BY <2>2, <3>1, Zenon
      <4> QED
        BY <3>1, <4>1
    <3> QED
      BY <2>1, <3>1, Zenon
  <2> QED
    BY <2>3
<1> HIDE DEF Good
<1>3. Nat \subseteq Good
  BY <1>1, <1>2, InductionInSet
<1>4. Cardinality(S) \in Good
  BY <1>3, FS_CardinalityType
<1>5. Small(S, Cardinality(S)) = SUBSET S
  BY FS_Subset DEF Small
<1> QED
  BY <1>4, <1>5 DEF Good

\* Some fields and the margins between them are a number of columns wide.
LEMMA TotalIsNat ==
    ASSUME NEW n \in Nat \ {0}, NEW widths, \A j \in 1..n : widths[j] \in Nat
    PROVE  Total(widths, n) \in Nat
<1> DEFINE w == [j \in 1..n |-> widths[j] + columnmargin]
           Is(g) == g = [s \in SUBSET (1..n) |->
                           IF s = {} THEN 0
                           ELSE (widths[CHOOSE e \in s : TRUE] + columnmargin)
                                + g[s \ {CHOOSE e \in s : TRUE}]]
<1>1. \A g : Is(g) <=> IsSumOn(g, w, SUBSET (1..n))
  <2> TAKE g
  <2>1. \A s \in SUBSET (1..n) : s # {} => w[Any(s)] = widths[Any(s)] + columnmargin
    BY DEF Any
  <2> QED
    BY <2>1 DEF IsSumOn, Any, Rest
<1>2. Total(widths, n) = (CHOOSE g : Is(g))[1..n] - columnmargin
  BY DEF Total, MapThenSumSet, MapThenFoldSet
<1>3. IsFiniteSet(1..n)
  BY FS_Interval
<1>4. \A j \in 1..n : w[j] \in Nat \ {0}
  BY DEF columnmargin
<1> HIDE DEF w
<1>5. \E g : IsSumOn(g, w, SUBSET (1..n))
  BY <1>3, SumExists
<1> HIDE DEF Is
<1>6. PICK g : g = (CHOOSE h : Is(h)) /\ Is(g)
  BY <1>1, <1>5, Zenon
<1>7. \A s \in SUBSET (1..n) : g[s] \in Nat /\ (s # {} => g[s] > 0)
  BY <1>1, <1>3, <1>4, <1>6, SumIsPositive, Zenon
<1>8. g[1..n] \in Nat /\ g[1..n] > 0
  BY <1>7
<1> QED
  BY <1>2, <1>6, <1>8 DEF columnmargin

-----------------------------------------------------------------------------
(* The widths of the fields, and of the strings made of them.                  *)

\* The names show: no column has fields of width 0 only.  The array of widths
\* ends at the first 0 (l.c:226-262).
NamesShow ==
    \A f \in Listings : f[1] # << >> =>
        \A j \in DOMAIN f[1] : \E i \in DOMAIN f : j \in DOMAIN f[i] /\ f[i][j] # 0

LEMMA MaxOfNumbers ==
    ASSUME NEW S, IsFiniteSet(S), S \subseteq Nat, S # {}
    PROVE  Max(S) \in S /\ \A e \in S : Max(S) >= e
<1> DEFINE Good == {m \in Nat : \A s \in Small(S, m) : s # {} => \E e \in s : \A y \in s : e >= y}
<1>1. 0 \in Good
  <2>1. ASSUME NEW s \in Small(S, 0) PROVE s = {}
    BY RestIsSmaller
  <2> QED
    BY <2>1
<1>2. ASSUME NEW m \in Nat, m \in Good PROVE m + 1 \in Good
  <2>1. ASSUME NEW s \in Small(S, m + 1), s # {} PROVE \E e \in s : \A y \in s : e >= y
    <3>0. Any(s) \in S /\ Any(s) \in s /\ Rest(s) \in Small(S, m + 1 - 1)
      BY <2>1, RestIsSmaller
    <3>1. Any(s) \in s /\ Any(s) \in Nat
      BY <3>0
    <3>2. Rest(s) \in Small(S, m) /\ s \subseteq Nat
      BY <3>0 DEF Small
    <3>3. s = Rest(s) \cup {Any(s)}
      BY <3>1 DEF Rest
    <3>4. CASE Rest(s) = {}
      BY <3>1, <3>3, <3>4
    <3>5. CASE Rest(s) # {}
      <4>1. PICK e \in Rest(s) : \A y \in Rest(s) : e >= y
        BY <1>2, <3>2, <3>5
      <4>2. e \in Nat /\ \A y \in Rest(s) : y \in Nat
        BY <3>2 DEF Rest
      <4>3. CASE e >= Any(s)
        BY <3>1, <3>3, <4>1, <4>2, <4>3
      <4>4. CASE Any(s) > e
        <5>1. ASSUME NEW y \in s PROVE Any(s) >= y
          <6>1. PICK a \in Nat : a = Any(s) /\ a > e
            BY <3>1, <4>4
          <6>2. y = a \/ (y \in Nat /\ e >= y)
            BY <3>3, <4>1, <4>2, <6>1
          <6> QED
            BY <4>2, <6>1, <6>2
        <5> QED
          BY <3>1, <5>1
      <4> QED
        BY <3>1, <4>2, <4>3, <4>4
    <3> QED
      BY <3>4, <3>5
  <2> QED
    BY <2>1
<1> HIDE DEF Good
<1>3. Nat \subseteq Good
  BY <1>1, <1>2, InductionInSet
<1>4. Cardinality(S) \in Good
  BY <1>3, FS_CardinalityType
<1>5. S \in Small(S, Cardinality(S))
  BY FS_CardinalityType DEF Small
<1>6. \E e \in S : \A y \in S : e >= y
  BY <1>4, <1>5 DEF Good
<1> QED
  BY <1>6 DEF Max

\* The widths are those of the fields of the first File, each as wide as the
\* widest, and there is one for each field of every File that has fields.
LEMMA WidthsAreWide ==
    ASSUME filefields \in Listings, filefields[1] # << >>
    PROVE  \E n \in Nat \ {0} :
             /\ DOMAIN MaxFileFieldWidths = 1..n /\ DOMAIN filefields[1] = 1..n
             /\ \A j \in 1..n : MaxFileFieldWidths[j] \in Nat
             /\ \A j \in 1..n : MaxFileFieldWidths[j] = 0 => \A i \in DOMAIN filefields :
                    j \in DOMAIN filefields[i] => filefields[i][j] \in {0, NoName}
             /\ \A i \in DOMAIN filefields, j \in 1..n :
                    FieldWidth(filefields[i], j) <= MaxFileFieldWidths[j]
             /\ \A i \in DOMAIN filefields : filefields[i] # << >> => DOMAIN filefields[i] = 1..n
             /\ \A i \in DOMAIN filefields : Len(filefields[i]) = n \/ filefields[i] = << >>
<1>1. /\ NoName \notin Nat
      /\ filefields \in Seq(Seq(Nat \cup {NoName})) /\ filefields # << >>
      /\ \A i, k \in DOMAIN filefields : filefields[i] # << >> /\ filefields[k] # << >>
            => Len(filefields[i]) = Len(filefields[k])
  BY LayoutAssumption DEF LayoutAssumption
<1>2. 1 \in DOMAIN filefields /\ \A i \in DOMAIN filefields : filefields[i] \in Seq(Nat \cup {NoName})
  BY <1>1
<1>3. PICK n \in Nat \ {0} : n = Len(filefields[1]) /\ DOMAIN filefields[1] = 1..n
  BY <1>2
<1>4. \A i \in DOMAIN filefields : filefields[i] # << >> =>
          DOMAIN filefields[i] = 1..n /\ Len(filefields[i]) = n
  BY <1>1, <1>2, <1>3
<1>5. ASSUME NEW i \in DOMAIN filefields, NEW j \in 1..n PROVE FieldWidth(filefields[i], j) \in Nat
  <2>1. CASE j \notin DOMAIN filefields[i] \/ filefields[i][j] = NoName
    BY <2>1 DEF FieldWidth
  <2>2. CASE j \in DOMAIN filefields[i] /\ filefields[i][j] # NoName
    <3>1. filefields[i][j] \in Nat
      BY <1>2, <2>2
    <3> QED
      BY <2>2, <3>1 DEF FieldWidth
  <2> QED
    BY <2>1, <2>2
<1>6. ASSUME NEW j \in 1..n
      PROVE  /\ MaxFileFieldWidths[j] \in Nat
             /\ \A i \in DOMAIN filefields : FieldWidth(filefields[i], j) <= MaxFileFieldWidths[j]
             /\ MaxFileFieldWidths[j] = 0 => \A i \in DOMAIN filefields :
                    j \in DOMAIN filefields[i] => filefields[i][j] \in {0, NoName}
  <2> DEFINE w == [i \in DOMAIN filefields |-> FieldWidth(filefields[i], j)]
             S == {FieldWidth(filefields[i], j) : i \in DOMAIN filefields}
  <2>1. MaxFileFieldWidths[j] = Max(S)
    BY <1>3 DEF MaxFileFieldWidths
  <2>2. S \subseteq Nat /\ S # {}
    BY <1>2, <1>5
  <2>3. IsFiniteSet(S)
    <3>1. IsFiniteSet(DOMAIN filefields)
      BY <1>1, FS_Interval
    <3>2. w \in Surjection(DOMAIN filefields, S)
      BY DEF Surjection
    <3> QED
      BY <3>1, <3>2, FS_Surjection
  <2> HIDE DEF w
  <2>4. Max(S) \in S /\ \A e \in S : Max(S) >= e
    <3> HIDE DEF S
    <3> QED
      BY <2>2, <2>3, MaxOfNumbers
  <2>5. Max(S) \in Nat /\ \A k \in DOMAIN filefields : FieldWidth(filefields[k], j) <= Max(S)
    BY <1>5, <2>2, <2>4
  <2>6. PICK m \in Nat : m = MaxFileFieldWidths[j]
    BY <2>1, <2>5
  <2>7. \A k \in DOMAIN filefields : FieldWidth(filefields[k], j) <= m
    BY <2>1, <2>5, <2>6
  <2>8. ASSUME m = 0, NEW i \in DOMAIN filefields, j \in DOMAIN filefields[i]
        PROVE  filefields[i][j] \in {0, NoName}
    <3>1. FieldWidth(filefields[i], j) = 0
      BY <1>5, <2>7, <2>8
    <3> QED
      BY <2>8, <3>1 DEF FieldWidth
  <2> QED
    BY <2>6, <2>7, <2>8
<1>7. DOMAIN MaxFileFieldWidths = 1..n
  BY <1>3 DEF MaxFileFieldWidths
<1> QED
  BY <1>3, <1>4, <1>6, <1>7

\* Whatever the widths, getfilewidth() is no less than no column and no margin.
LEMMA FileWidthIsInt ==
    ASSUME NEW n \in Nat, NEW widths \in Seq(Nat), Len(widths) = n
    PROVE  FileWidth(widths) \in Int /\ FileWidth(widths) >= -1
<1> DEFINE S == {j \in 1..(Len(widths) + 1) : j > Len(widths) \/ widths[j] = 0}
<1>1. S \subseteq 1..(n + 1) /\ n + 1 \in S
  OBVIOUS
<1>2. Min(S) \in 1..(n + 1)
  <2> HIDE DEF S
  <2>1. PICK m \in S : \A y \in S : ~ (<<y, m>> \in OpToRel(<, Nat))
    <3>1. S \subseteq Nat /\ S # {}
      BY <1>1
    <3> QED
      BY <3>1, WFMin, NatLessThanWellFounded, Zenon
  <2>2. ASSUME NEW y \in S PROVE m <= y
    <3>1. y \in Nat /\ m \in Nat
      BY <1>1
    <3>2. ~ (y < m)
      BY <2>1, <3>1 DEF OpToRel
    <3> QED
      BY <3>1, <3>2
  <2>3. Min(S) \in S
    BY <2>1, <2>2 DEF Min
  <2> QED
    BY <1>1, <2>3
<1>3. CASE widths = << >>
  <2>1. FileWidth(widths) = 0
    BY <1>3 DEF FileWidth
  <2> QED
    BY <2>1
<1>4. CASE widths # << >>
  <2>1. PICK k \in 0..n : k = Min(S) - 1
    <3>1. PICK m \in 1..(n + 1) : m = Min(S)
      BY <1>2
    <3>2. m - 1 \in 0..n
      BY <3>1
    <3> HIDE DEF S
    <3> QED
      BY <3>1, <3>2, Zenon
  <2>2. FileWidth(widths) = Total(widths, Min(S) - 1)
    BY <1>4 DEF FileWidth
  <2> HIDE DEF S
  <2>3. CASE k = 0
    <3>1. Total(widths, k) = -1
      BY <2>3 DEF Total, columnmargin
    <3> QED
      BY <2>1, <2>2, <3>1
  <2>4. CASE k # 0
    <3>1. Total(widths, k) \in Nat
      BY <2>4, TotalIsNat
    <3> QED
      BY <2>1, <2>2, <3>1
  <2> QED
    BY <2>3, <2>4
<1> QED
  BY <1>3, <1>4

\* getfilewidth() adds up all the widths, as none of them is 0.
LEMMA FileWidthIsTotal ==
    ASSUME NEW n \in Nat \ {0}, NEW widths \in Seq(Nat \ {0}), Len(widths) = n
    PROVE  FileWidth(widths) = Total(widths, n)
<1> DEFINE S == {j \in 1..(Len(widths) + 1) : j > Len(widths) \/ widths[j] = 0}
<1>1. ASSUME NEW j \in 1..n PROVE widths[j] # 0 /\ ~(j > n)
  BY <1>1
<1>2. S = {n + 1}
  BY <1>1
<1>3. Min(S) = n + 1
  <2>1. \E m \in S : \A y \in S : m <= y
    BY <1>2
  <2>2. Min(S) \in S
    <3> HIDE DEF S
    <3> QED
      BY <2>1 DEF Min
  <2> QED
    BY <1>2, <2>2
<1>4. widths # << >>
  OBVIOUS
<1>5. FileWidth(widths) = Total(widths, Min(S) - 1)
  BY <1>4 DEF FileWidth
<1>6. Min(S) - 1 = n
  BY <1>3
<1> QED
  BY <1>5, <1>6, Zenon

\* Padded to the widths, the fields of a File are as wide as the widths.
LEMMA PaddedAreEven ==
    ASSUME NEW n \in Nat \ {0}, NEW widths \in Seq(Nat \ {0}), Len(widths) = n,
           NEW fields \in Seq(Nat), Len(fields) = n, displaymode # "lines",
           \A j \in 1..n : fields[j] <= widths[j]
    PROVE  StringWidth(fields, widths) = Total(widths, n)
<1>1. ASSUME NEW j \in 1..n PROVE Max({fields[j], widths[j]}) = widths[j]
  <2>1. fields[j] \in Nat /\ widths[j] \in Nat /\ fields[j] <= widths[j]
    BY <1>1
  <2> DEFINE S == {fields[j], widths[j]}
  <2>2. \E e \in S : \A y \in S : e >= y
    BY <2>1
  <2>3. Max(S) \in S /\ \A y \in S : Max(S) >= y
    <3> HIDE DEF S
    <3> QED
      BY <2>2 DEF Max
  <2> QED
    BY <2>1, <2>3
<1>2. DOMAIN fields = 1..n /\ widths = [j \in 1..n |-> widths[j]]
  OBVIOUS
<1>3. [j \in DOMAIN fields |->
         IF IsPadded(fields, j) THEN Max({fields[j], widths[j]}) ELSE fields[j]] = widths
  BY <1>1, <1>2 DEF IsPadded
<1> QED
  BY <1>3 DEF StringWidth

\* On a line of its own, the name is not padded.
LEMMA StringIsNat ==
    ASSUME NEW n \in Nat \ {0}, NEW widths \in Seq(Nat \ {0}), Len(widths) = n,
           NEW fields \in Seq(Nat), Len(fields) = n
    PROVE  StringWidth(fields, widths) \in Nat
<1> DEFINE padded == [j \in DOMAIN fields |->
                        IF IsPadded(fields, j) THEN Max({fields[j], widths[j]}) ELSE fields[j]]
<1>1. ASSUME NEW j \in 1..n PROVE padded[j] \in Nat
  <2>1. fields[j] \in Nat /\ widths[j] \in Nat /\ j \in DOMAIN fields
    BY <1>1
  <2> DEFINE S == {fields[j], widths[j]}
  <2>2. \E e \in S : \A y \in S : e >= y
    BY <2>1
  <2>3. Max(S) \in S
    <3> HIDE DEF S
    <3> QED
      BY <2>2 DEF Max
  <2> QED
    BY <2>1, <2>3
<1>2. StringWidth(fields, widths) = Total(padded, n)
  BY DEF StringWidth
<1> HIDE DEF padded
<1> QED
  BY <1>1, <1>2, TotalIsNat

CallOf ==
    [mode |-> displaymode, list |-> FileStrings(MaxFileFieldWidths),
     stringwidth |-> FileWidth(MaxFileFieldWidths), screenwidth |-> screenwidth]

InputsInv ==
    /\ filefields \in Listings
    /\ displaymode \in {"down", "across", "lines"}
    /\ screenwidth \in ScreenWidths

\* The call of listfiles(): each string as wide as the widest, if there are
\* strings and the fields of the File could be made.
LEMMA StringsOfCall ==
    ASSUME NamesShow, InputsInv, FileStrings(MaxFileFieldWidths) # << >>
    PROVE  LET strings == FileStrings(MaxFileFieldWidths)
               width == FileWidth(MaxFileFieldWidths)
           IN  /\ strings \in Seq(Nat) /\ DOMAIN strings = DOMAIN filefields
               /\ width \in Nat
               /\ displaymode # "lines" => \A i \in DOMAIN filefields :
                    strings[i] = IF filefields[i] = << >> THEN 0 ELSE width
<1> DEFINE W == MaxFileFieldWidths
<1>1. /\ filefields \in Seq(Seq(Nat \cup {NoName})) /\ filefields # << >> /\ NoName \notin Nat
  BY LayoutAssumption DEF LayoutAssumption, InputsInv
<1>2. /\ W # << >>
      /\ \A i \in DOMAIN filefields, j \in DOMAIN W :
            j \in DOMAIN filefields[i] => filefields[i][j] # NoName
      /\ FileStrings(W) = [i \in DOMAIN filefields |->
            IF filefields[i] = << >> THEN 0 ELSE StringWidth(filefields[i], W)]
  BY DEF FileStrings
<1>3. filefields[1] # << >>
  BY <1>2 DEF MaxFileFieldWidths
<1>4. PICK n \in Nat \ {0} :
             /\ DOMAIN MaxFileFieldWidths = 1..n
             /\ \A j \in 1..n : MaxFileFieldWidths[j] \in Nat \ {0}
             /\ \A i \in DOMAIN filefields, j \in 1..n :
                    FieldWidth(filefields[i], j) <= MaxFileFieldWidths[j]
             /\ \A i \in DOMAIN filefields : filefields[i] # << >> => DOMAIN filefields[i] = 1..n
             /\ \A i \in DOMAIN filefields : Len(filefields[i]) = n \/ filefields[i] = << >>
  <2>1. PICK n \in Nat \ {0} :
             /\ DOMAIN MaxFileFieldWidths = 1..n /\ DOMAIN filefields[1] = 1..n
             /\ \A j \in 1..n : MaxFileFieldWidths[j] \in Nat
             /\ \A j \in 1..n : MaxFileFieldWidths[j] = 0 => \A i \in DOMAIN filefields :
                    j \in DOMAIN filefields[i] => filefields[i][j] \in {0, NoName}
             /\ \A i \in DOMAIN filefields, j \in 1..n :
                    FieldWidth(filefields[i], j) <= MaxFileFieldWidths[j]
             /\ \A i \in DOMAIN filefields : filefields[i] # << >> => DOMAIN filefields[i] = 1..n
             /\ \A i \in DOMAIN filefields : Len(filefields[i]) = n \/ filefields[i] = << >>
    BY <1>3, WidthsAreWide DEF InputsInv
  <2>2. ASSUME NEW j \in 1..n PROVE MaxFileFieldWidths[j] # 0
    <3>1. PICK i \in DOMAIN filefields : j \in DOMAIN filefields[i] /\ filefields[i][j] # 0
      BY <1>3, <2>1 DEF NamesShow, InputsInv
    <3>2. filefields[i][j] # NoName
      BY <1>2, <2>1, <3>1
    <3> QED
      BY <2>1, <3>1, <3>2
  <2> QED
    BY <2>1, <2>2
<1>5. W \in Seq(Nat \ {0}) /\ Len(W) = n
  <2>1. W = [j \in 1..n |-> W[j]]
    BY <1>4 DEF MaxFileFieldWidths
  <2> HIDE DEF W
  <2> QED
    BY <1>4, <2>1 DEF W
<1> HIDE DEF W
<1>6. FileWidth(W) = Total(W, n)
  BY <1>5, FileWidthIsTotal
<1>7. Total(W, n) \in Nat
  BY <1>5, TotalIsNat
<1>8. ASSUME NEW i \in DOMAIN filefields, filefields[i] # << >>
      PROVE  /\ filefields[i] \in Seq(Nat) /\ Len(filefields[i]) = n
             /\ \A j \in 1..n : filefields[i][j] <= W[j]
  <2>1. PICK f \in Seq(Nat \cup {NoName}) : f = filefields[i]
    BY <1>1
  <2>2. Len(f) = n /\ DOMAIN f = 1..n
    BY <1>4, <1>8, <2>1
  <2>3. ASSUME NEW j \in 1..n PROVE f[j] \in Nat /\ f[j] <= W[j]
    <3>1. f[j] # NoName /\ f[j] \in Nat \cup {NoName}
      <4>1. j \in DOMAIN W /\ j \in DOMAIN f
        BY <1>4, <2>2 DEF W
      <4>2. f[j] # NoName
        BY <1>2, <2>1, <4>1, Zenon
      <4> QED
        BY <4>1, <4>2
    <3>2. FieldWidth(f, j) = f[j]
      BY <2>2, <3>1 DEF FieldWidth
    <3> QED
      BY <1>4, <2>1, <3>1, <3>2 DEF W
  <2>4. f \in Seq(Nat)
    BY <2>2, <2>3
  <2> QED
    BY <2>1, <2>2, <2>3, <2>4
<1>9. ASSUME NEW i \in DOMAIN filefields
      PROVE  LET s == IF filefields[i] = << >> THEN 0 ELSE StringWidth(filefields[i], W)
             IN  /\ s \in Nat
                 /\ displaymode # "lines" => s = IF filefields[i] = << >> THEN 0 ELSE FileWidth(W)
  <2>1. CASE filefields[i] = << >>
    BY <2>1
  <2>2. CASE filefields[i] # << >>
    <3>1. StringWidth(filefields[i], W) \in Nat
      BY <1>5, <1>8, <2>2, StringIsNat
    <3>2. displaymode # "lines" => StringWidth(filefields[i], W) = FileWidth(W)
      BY <1>5, <1>6, <1>8, <2>2, PaddedAreEven
    <3> QED
      BY <2>2, <3>1, <3>2
  <2> QED
    BY <2>1, <2>2
<1>10. FileStrings(W) \in Seq(Nat) /\ DOMAIN FileStrings(W) = DOMAIN filefields
  <2>1. PICK m \in Nat : DOMAIN filefields = 1..m
    BY <1>1
  <2> QED
    BY <1>2, <1>9, <2>1 DEF W
<1>11. displaymode # "lines" => \A i \in DOMAIN filefields :
          FileStrings(W)[i] = IF filefields[i] = << >> THEN 0 ELSE FileWidth(W)
  BY <1>2, <1>9 DEF W
<1> QED
  BY <1>6, <1>7, <1>10, <1>11 DEF W

\* Whatever the fields, the call is one that display.c is written for.
LEMMA CallIsProper == ASSUME NamesShow, InputsInv PROVE CallOf \in ProperCalls
<1>1. screenwidth \in Nat
  BY LayoutAssumption DEF LayoutAssumption, InputsInv
<1>2. CASE FileStrings(MaxFileFieldWidths) # << >>
  <2>1. PICK strings \in Seq(Nat), width \in Nat :
            /\ strings = FileStrings(MaxFileFieldWidths) /\ width = FileWidth(MaxFileFieldWidths)
            /\ displaymode # "lines" => \A i \in DOMAIN strings : strings[i] \in {0, width}
    BY <1>2, StringsOfCall
  <2>2. displaymode # "lines" => \A k \in 1..Len(strings) : strings[k] <= width
    BY <2>1
  <2>3. CallOf = [mode |-> displaymode, list |-> strings, stringwidth |-> width,
                  screenwidth |-> screenwidth]
    BY <2>1 DEF CallOf
  <2> QED
    BY <1>1, <2>1, <2>2, <2>3 DEF ProperCalls, InputsInv
<1>3. CASE FileStrings(MaxFileFieldWidths) = << >>
  <2>1. PICK width \in Int : width = FileWidth(MaxFileFieldWidths) /\ width >= -1
    <3>1. CASE filefields[1] = << >>
      <4>1. MaxFileFieldWidths = << >>
        BY <3>1 DEF MaxFileFieldWidths
      <4> QED
        BY <4>1 DEF FileWidth
    <3>2. CASE filefields[1] # << >>
      <4>1. PICK n \in Nat \ {0} :
                   /\ DOMAIN MaxFileFieldWidths = 1..n
                   /\ \A j \in 1..n : MaxFileFieldWidths[j] \in Nat
        BY <3>2, WidthsAreWide DEF InputsInv
      <4>2. PICK w : w = MaxFileFieldWidths /\ w = [j \in 1..n |-> w[j]]
        BY <4>1 DEF MaxFileFieldWidths
      <4>3. w \in Seq(Nat) /\ Len(w) = n
        BY <4>1, <4>2
      <4>4. FileWidth(w) \in Int /\ FileWidth(w) >= -1
        BY <4>3, FileWidthIsInt
      <4> QED
        BY <4>2, <4>4
    <3> QED
      BY <3>1, <3>2
  <2>2. CallOf = [mode |-> displaymode, list |-> << >>, stringwidth |-> width,
                  screenwidth |-> screenwidth]
    BY <1>3, <2>1 DEF CallOf
  <2> QED
    BY <1>1, <2>1, <2>2 DEF ProperCalls, InputsInv
<1> QED
  BY <1>2, <1>3

-----------------------------------------------------------------------------
(* The theorems.                                                               *)

LayoutInv ==
    /\ InputsInv
    /\ pc # "call" => call = CallOf

LEMMA LayoutInvInit == Init => LayoutInv
  BY DEF Init, LayoutInv, InputsInv, Display!Init

LEMMA LayoutInvStep == LayoutInv /\ [Next]_vars => LayoutInv'
<1> SUFFICES ASSUME LayoutInv, [Next]_vars PROVE LayoutInv'
  OBVIOUS
<1>1. UNCHANGED inputs
  BY DEF Next, PrintStrings, PrintPage, Terminated, vars, inputs
<1>2. InputsInv'
  BY <1>1 DEF LayoutInv, InputsInv, inputs
<1>3. CallOf' = CallOf
  BY <1>1 DEF CallOf, FileStrings, MaxFileFieldWidths, StringWidth, IsPadded, inputs
<1>4. CASE PrintStrings
  BY <1>2, <1>3, <1>4 DEF PrintStrings, LayoutInv, CallOf
<1>5. CASE PrintPage
  BY <1>2, <1>3, <1>5 DEF PrintPage, LayoutInv, Display!PrintDown, Display!PrintAcross,
                          Display!PrintLines
<1>6. CASE Terminated \/ UNCHANGED vars
  BY <1>2, <1>3, <1>6 DEF Terminated, vars, LayoutInv
<1> QED
  BY <1>4, <1>5, <1>6 DEF Next

\* Whatever display.c has come to, its call is the one that listfiles() makes of
\* the fields and the screen it has (l.c:328-354).
THEOREM LayoutInvariant == Spec => []LayoutInv
  BY LayoutInvInit, LayoutInvStep, PTL DEF Spec

\* What listfiles() calls display.c with is what display.c expects, whatever
\* widths the fields of the Files have and whichever could not be made: every
\* step of a listing is one of Columns for a proper call, or none (l.c:137-262,
\* display.c:30, 74).
THEOREM DisplayUsedProperly == NamesShow => (Spec => DisplayIsUsedProperly)
<1> SUFFICES ASSUME NamesShow PROVE Spec => DisplayIsUsedProperly
  OBVIOUS
<1>1. Init => Display!Init
  BY DEF Init
<1>2. LayoutInv /\ [Next]_vars => [Display!Next]_Display!vars
  <2> SUFFICES ASSUME LayoutInv, [Next]_vars PROVE [Display!Next]_Display!vars
    OBVIOUS
  <2>1. CASE PrintStrings
    <3>1. CallOf \in ProperCalls
      BY CallIsProper DEF LayoutInv
    <3>2. call' = CallOf
      BY <2>1 DEF PrintStrings, CallOf
    <3>3. Display!MakeCall
      BY <2>1, <3>1, <3>2 DEF PrintStrings, Display!MakeCall, CallOf
    <3> QED
      BY <3>3 DEF Display!Next, Display!Program
  <2>2. CASE PrintPage
    BY <2>2 DEF PrintPage, Display!Next, Display!Program
  <2>3. CASE Terminated \/ UNCHANGED vars
    BY <2>3 DEF Terminated, vars, Display!vars
  <2> QED
    BY <2>1, <2>2, <2>3 DEF Next
<1> QED
  BY <1>1, <1>2, LayoutInvariant, PTL DEF Spec, DisplayIsUsedProperly, Display!Spec

\* Where all fields could be made, every string is as wide as the columns are
\* made (SPEC.md:236-239).
THEOREM StringsEven == NamesShow => (Spec => []StringsAreEven)
<1> SUFFICES ASSUME NamesShow PROVE Spec => []StringsAreEven
  OBVIOUS
<1>1. LayoutInv => StringsAreEven
  <2> SUFFICES ASSUME LayoutInv, pc # "call", displaymode # "lines",
                      \A i \in DOMAIN filefields : filefields[i] # << >>,
                      NEW k \in DOMAIN call.list
               PROVE  call.list[k] = call.stringwidth
    BY DEF StringsAreEven
  <2>1. call = CallOf /\ InputsInv
    BY DEF LayoutInv
  <2>2. /\ call.list = FileStrings(MaxFileFieldWidths)
        /\ call.stringwidth = FileWidth(MaxFileFieldWidths)
    BY <2>1 DEF CallOf
  <2>3. FileStrings(MaxFileFieldWidths) # << >>
    BY <2>2
  <2> QED
    BY <2>1, <2>2, <2>3, StringsOfCall
<1> QED
  BY <1>1, LayoutInvariant, PTL

-----------------------------------------------------------------------------
(* What the theorems of Columns say of listings.                               *)

Page == INSTANCE ColumnsProofs WITH Calls <- ProperCalls

LEMMA IsAPage == Display!Spec => Page!Spec
<1>1. Display!Init => Page!Init
  BY DEF Display!Init, Page!Init, Display!NoCall, Page!NoCall
<1>2. Display!MakeCall => Page!MakeCall
  BY DEF Display!MakeCall, Page!MakeCall
<1>3. \A k : Display!PrintString(k) => Page!PrintString(k)
  BY DEF Display!PrintString, Page!PrintString
<1>4. Display!NewLine => Page!NewLine
  BY DEF Display!NewLine, Page!NewLine
<1>5. \A k : Display!NextColumn(k) => Page!NextColumn(k)
  BY DEF Display!NextColumn, Page!NextColumn, Display!outermargin, Page!outermargin
<1>6. Display!MaxCols = Page!MaxCols /\ Display!len = Page!len
  BY DEF Display!MaxCols, Page!MaxCols, Display!outermargin, Page!outermargin,
         Display!len, Page!len
<1>7. Display!Rows = Page!Rows
  BY <1>6 DEF Display!Rows, Page!Rows, Display!CeilDiv, Page!CeilDiv
<1>8. Display!Cols = Page!Cols /\ Display!Index = Page!Index
  BY <1>6, <1>7 DEF Display!Cols, Page!Cols, Display!CeilDiv, Page!CeilDiv,
                    Display!Index, Page!Index
<1>9. Display!PrintDown => Page!PrintDown
  BY <1>3, <1>4, <1>5, <1>6, <1>7, <1>8 DEF Display!PrintDown, Page!PrintDown
<1>10. Display!PrintAcross => Page!PrintAcross
  BY <1>3, <1>4, <1>5, <1>6 DEF Display!PrintAcross, Page!PrintAcross
<1>11. Display!PrintLines => Page!PrintLines
  BY <1>3, <1>4, <1>6 DEF Display!PrintLines, Page!PrintLines
<1>12. Display!Terminated => Page!Terminated
  BY DEF Display!Terminated, Page!Terminated, Display!vars, Page!vars
<1>13. [Display!Next]_Display!vars => [Page!Next]_Page!vars
  BY <1>2, <1>9, <1>10, <1>11, <1>12
     DEF Display!Next, Page!Next, Display!Program, Page!Program, Display!vars, Page!vars
<1> QED
  BY <1>1, <1>13, PTL DEF Display!Spec, Page!Spec

\* However the fields turn out, each File is shown once, on lines that fit the
\* screen, and where all could be made, in the order of the page (display.c:30-113).
THEOREM FilesAreOnThePage ==
    NamesShow => (Spec => /\ []Display!EachPrintedOnce
                          /\ []Display!LinesFitTheScreen
                          /\ []Display!PageReadsInOrder
                          /\ []Display!NoLineIsWasted)
<1> SUFFICES ASSUME NamesShow
             PROVE  Spec => /\ []Display!EachPrintedOnce
                            /\ []Display!LinesFitTheScreen
                            /\ []Display!PageReadsInOrder
                            /\ []Display!NoLineIsWasted
  OBVIOUS
<1>1. \A c \in ProperCalls : Page!CallAssumption(c)
  BY DEF ProperCalls, Page!CallAssumption, Page!Call
<1>2. Page!Spec => []Page!EachPrintedOnce
  BY <1>1, Page!EachOnce
<1>3. Page!Spec => []Page!LinesFitTheScreen
  BY <1>1, Page!LinesFit
<1>4. Page!Spec => []Page!PageReadsInOrder
  BY <1>1, Page!ReadsInOrder
<1>5. Page!Spec => []Page!NoLineIsWasted
  BY <1>1, Page!NoWaste
<1>6. Page!EachPrintedOnce => Display!EachPrintedOnce
  BY DEF Page!EachPrintedOnce, Display!EachPrintedOnce, Page!len, Display!len
<1>7. Page!LinesFitTheScreen => Display!LinesFitTheScreen
  BY DEF Page!LinesFitTheScreen, Display!LinesFitTheScreen
<1>8. Page!PageReadsInOrder => Display!PageReadsInOrder
  BY DEF Page!PageReadsInOrder, Display!PageReadsInOrder, Page!len, Display!len
<1>9. Page!NoLineIsWasted => Display!NoLineIsWasted
  BY DEF Page!NoLineIsWasted, Display!NoLineIsWasted, Page!len, Display!len,
         Page!outermargin, Display!outermargin
<1> QED
  BY <1>2, <1>3, <1>4, <1>5, <1>6, <1>7, <1>8, <1>9, DisplayUsedProperly, IsAPage, PTL
     DEF DisplayIsUsedProperly

=============================================================================
