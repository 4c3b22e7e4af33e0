----------------------------- MODULE MCListing -----------------------------
(* Small instances of Listing: the working directory R, which holds x and a    *)
(* hidden h, and the directories D and E that they may lead to.                *)
EXTENDS Listing

e(k) == [kind |-> k, node |-> NoNode]
to(k, n) == [kind |-> k, node |-> n]

MCNodes == {"R", "D", "E"}
MCNames == {"x", "h"}
MCHidden == {"h"}

tree(rx, rh, dx, dh, ex) ==
    [R |-> [x |-> rx, h |-> rh], D |-> [x |-> dx, h |-> dh],
     E |-> [x |-> ex, h |-> e("none")]]

MCInitialFileSystems ==
    {tree(to("dir", "D"), rh, dx, e("none"), e("file")) :
        rh \in {e("none"), e("file")},
        dx \in {to("dir", "E"), to("link", "R"), e("dangling")}}
    \cup {tree(rx, to("dir", "E"), e("file"), e("opaque"), e("linkfile")) :
        rx \in {to("link", "D"), e("locked"), e("loop"), to("dir", "D")}}

\* Entries come and go, and turn into links to a directory above.
MCFileSystems == MCInitialFileSystems \cup
    {tree(rx, rh, dx, dh, ex) :
        rx \in {e("none"), to("dir", "D"), to("link", "D"), e("locked")},
        rh \in {e("none"), e("file"), to("dir", "E")},
        dx \in {e("none"), e("file"), to("dir", "E"), to("link", "R"), e("dangling")},
        dh \in {e("none"), e("opaque")},
        ex \in {e("file"), e("linkfile"), to("link", "R")}}

plain == [all |-> FALSE, dirsonly |-> FALSE, recursive |-> FALSE,
          directory |-> FALSE, dirtotals |-> FALSE, columns |-> FALSE,
          follow |-> TRUE, targetinfo |-> FALSE]

MCOptionSets ==
    {plain,
     [plain EXCEPT !.columns = TRUE],
     [plain EXCEPT !.recursive = TRUE],
     [plain EXCEPT !.directory = TRUE, !.columns = TRUE],
     [plain EXCEPT !.all = TRUE, !.recursive = TRUE, !.dirtotals = TRUE,
                   !.columns = TRUE, !.follow = FALSE],
     [plain EXCEPT !.dirsonly = TRUE, !.recursive = TRUE, !.all = TRUE],
     [plain EXCEPT !.targetinfo = TRUE, !.recursive = TRUE, !.columns = TRUE],
     [plain EXCEPT !.targetinfo = TRUE, !.dirtotals = TRUE, !.columns = TRUE,
                   !.all = TRUE],
     [plain EXCEPT !.dirsonly = TRUE, !.dirtotals = TRUE, !.columns = TRUE]}

MCOrders == {<<".", "..", "h", "x">>, <<"x", "..", "h", ".">>}
MCOperandLists == {<< <<".">> >>, << <<"x">>, <<"h">> >>, << <<"x">>, <<"x", "x">>, <<"h">> >>}
=============================================================================
