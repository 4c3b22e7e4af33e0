--------------------------- MODULE MCSymlinkChain ---------------------------
(* Small instances of SymlinkChain: three paths, a the listed one.             *)
EXTENDS SymlinkChain

none == [kind |-> "none", ino |-> NoInode, to |-> "a"]
file(i) == [kind |-> "file", ino |-> i, to |-> "a"]
dir(i) == [kind |-> "dir", ino |-> i, to |-> "a"]
locked(i) == [kind |-> "locked", ino |-> i, to |-> "a"]
link(i, p) == [kind |-> "link", ino |-> i, to |-> p]

MCPaths == {"a", "b", "c"}
MCInodes == {1, 2, 3}

\* a loops on itself, starts a chain, cannot be read or is gone; b may be a
\* hard link to a that leads elsewhere; c ends the chain or closes a loop.
MCFileSystems ==
    {[a |-> x, b |-> y, c |-> z] :
        x \in {none, link(1, "a"), link(1, "b"), locked(1)},
        y \in {none, file(2), dir(2), locked(2), link(2, "c"), link(1, "c"),
               link(2, "a")},
        z \in {none, file(3), link(3, "b")}}

\* Every way to be named, every kind of following, every reason to stat.
MCOptionSets ==
    {o \in Options :
        /\ ~(o.targetinfo /\ o.show = "one")
        /\ o.arg \in {"entry", "follow"}
        /\ o.sort => o.arg = "entry"
        /\ ~o.columns => o.targetinfo
        /\ o.decorate => o.show = "one" \/ ~o.columns}
    \cup {[arg |-> k, targetinfo |-> k = "named", show |-> "none", columns |-> TRUE,
           decorate |-> FALSE, sort |-> FALSE] : k \in {"operand", "named"}}

\* Two paths that may change for ever, and a kernel that follows one link.
ChurnPaths == {"a", "b"}
ChurnFileSystems ==
    {[a |-> x, b |-> y] : x \in {none, link(1, "a"), link(1, "b")},
                          y \in {none, file(2), link(2, "a"), link(1, "b")}}
ChurnOptionSets ==
    {[arg |-> "entry", targetinfo |-> t, show |-> "all", columns |-> TRUE,
      decorate |-> FALSE, sort |-> FALSE] : t \in BOOLEAN}
=============================================================================
