------------------------------ MODULE MCFields ------------------------------
(* Command lines of every two options, and longer ones of those that have to   *)
(* do with each other; Files whose times and sizes are at the edges.           *)
EXTENDS Fields

Now == 1700000000
MCIntMax == 100000
MCMaxTime == 2000000000

Lines(S, n) == UNION {[1..k -> S] : k \in 0..n}

Called(lines, blocksizes, terminals, clocks) ==
    [argv : lines, blocksize : blocksizes, terminal : terminals, clock : clocks]

Formats == {"relative", "traditional", "I"}

MCInvocations ==
    \* whatever two options are given
    Called(Lines(Flag \cup {Unusable}, 2), {0}, {NoTerminal}, {Now})
    \* what sorts, what follows links, and what shows the time
    \cup Called([1..3 -> {"c", "u", "mtime", "T", "l", "S", "U", "r"}], {0}, {80}, {Now})
    \cup Called([1..3 -> {"F", "O", "H", "L", "P", "l"}], {0}, {0}, {Now})
    \cup Called({<<a, b, c>> : a \in {"T", "l"}, b \in {"u", "btime", "k"}, c \in Formats},
                {0}, {32767}, {Now})
    \* sizes, and the rest of the environment
    \cup Called({<<>>, <<"s">>, <<"s", "h">>, <<"s", "B", "h">>, <<"k", "s">>},
                {-1, 1, 300, 512, 513, 1000, 1024, 1536, 4096, 100000, 100001},
                {NoTerminal}, {Now})
    \cup Called({<<>>, <<"1">>, <<"x">>, <<"T">>, <<"T", "I">>, <<"T", "relative">>, <<"l", "E">>},
                {0}, {NoTerminal, 0, 1, 80, 32767}, {-1, 0, 1, Now})

All(t) == [k \in Times |-> t]

Regular == [stat |-> TRUE, access |-> <<"yes", "EACCES", "other">>, kind |-> "regular",
            mode |-> {"rusr", "xusr", "suid", "xgrp", "svtx"}, acls |-> TRUE, size |-> 0,
            blocks |-> 0, nlink |-> 1, time |-> All(Now - 1), ino |-> 7, uid |-> 1,
            gid |-> 2, rdev |-> <<0, 0>>]

MCTimes ==
    {Now - age : age \in
        {0, 59, 60, 61, Hour, Hour + 1, Day, Day + 1, 6 * Day - 1, 6 * Day, 7 * Day - 30,
         13 * Day, 31 * Day, 31 * Day + 1, 180 * Day - 1, 180 * Day, 364 * Day, 365 * Day,
         Year, Year + 1, 3 * Year, -1, -60, -365 * Day}}
    \cup {0, -Day, MCMaxTime + 1, -MCMaxTime - 1}

\* Sizes and blocks about which rounding is in doubt.
Amounts == {1, 2, 3, 7, 8, 12, 499, 500, 999, 1000, 1500, 2500, 3072, 999499, 999500}

MCFiles ==
    {[Regular EXCEPT !.time = All(t)] : t \in MCTimes}
    \cup {[Regular EXCEPT !.size = n, !.blocks = n % 4000] : n \in Amounts}
    \cup {[Regular EXCEPT !.kind = k, !.rdev = <<1, 3>>] : k \in Kinds}
    \cup {[Regular EXCEPT !.time = [mtime |-> Now, atime |-> Now - Hour,
                                    ctime |-> Now - 9 * Day, btime |-> 0]],
          [stat |-> FALSE, access |-> <<"other", "other", "other">>]}
=============================================================================
