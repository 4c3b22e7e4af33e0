----------------------------- MODULE NameTable -----------------------------
(* What the cache of user or group names promises (options.h: "cache of uid -> *)
(* username"): each id is asked about once, and its name stays.  Only once     *)
(* memory has run out may a name be forgotten, asked for again or replaced,    *)
(* and then still only by an answer that was given for that id.                *)

CONSTANTS
    Ids,        \* user or group ids
    Texts,      \* names, and the number shown for want of one
    Unknown     \* no name

VARIABLES
    names,      \* the name of each id, if it has one
    given,      \* the answers the user database has given for each id
    lossy       \* memory has run out

vars == <<names, given, lossy>>

Init ==
    /\ names = [k \in Ids |-> Unknown]
    /\ given = [k \in Ids |-> {}]
    /\ lossy = FALSE

\* The user database is asked about an id it was not asked about before.
Ask(k) ==
    /\ lossy \/ (names[k] = Unknown /\ given[k] = {})
    /\ \E t \in Texts : given' = [given EXCEPT ![k] = @ \cup {t}]
    /\ UNCHANGED <<names, lossy>>

\* An answer becomes the name of an id that had none.
Learn(k) ==
    /\ lossy \/ names[k] = Unknown
    /\ \E t \in given[k] : names' = [names EXCEPT ![k] = t]
    /\ UNCHANGED <<given, lossy>>

\* Memory runs out, and at most one name may be lost with it.
RunOut ==
    /\ lossy' = TRUE
    /\ \/ UNCHANGED names
       \/ \E k \in Ids : names' = [names EXCEPT ![k] = Unknown]
    /\ UNCHANGED given

Next == RunOut \/ \E k \in Ids : Ask(k) \/ Learn(k)

Spec == Init /\ [][Next]_vars
=============================================================================
