------------------------------ MODULE MCLayout ------------------------------
(* Files with a name, or a number and a name, on screens that hold one column  *)
(* or several.  A name is 0 wide if it is made of combining characters only.   *)
EXTENDS Layout

MCNoName == -1

named(widths) == {<<w>> : w \in widths}
numbered(widths) == {<<n, w>> : n \in 1..2, w \in widths}
lists(fields, n) == [1..n -> fields]

\* Some name is wider than 0.
Seen(f) == \E i \in DOMAIN f : f[i] # << >> /\ f[i][Len(f[i])] \in Nat \ {0}

MCListings ==
    {f \in lists(named(0..2) \cup {<< >>}, 4) \cup lists(named({1, 3, NoName}), 3)
           \cup lists(numbered({0, 2}) \cup {<< >>}, 3) \cup lists(numbered({1, 2}), 2) :
        Seen(f) \/ f[1] = << >>}

\* Two Files whose names show nothing, with numbers before them.
MCBlankListings == lists({<<1, 0>>}, 2)
=============================================================================
