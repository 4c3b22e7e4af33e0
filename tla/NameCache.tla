----------------------------- MODULE NameCache -----------------------------
(* The cache of user names behind the owner column: getownerfield(), the Map   *)
(* of map.c with its Pairs (pair.c), and getusername().  getgroupfield() is    *)
(* the same code over a Map of its own.  The user database may change, and     *)
(* malloc() may fail, between any two calls.                                   *)
EXTENDS Naturals, Sequences

CONSTANTS
    Ids,            \* the owners' uids
    NoId,           \* the key of no Pair, and the owner of no File
    Names,          \* the names in the user database
    Null,           \* NULL
    MapSize,        \* the slots of a Map
    Listings,       \* the owners of the Files listed, in order; NoId for a
                    \* File that cannot be stat'd
    MaxChanges,     \* bound: how often the user database changes
    MaxShortages    \* bound: how often malloc() fails

\* What the owner column shows of an id: a name, or the id in digits.
Texts == Names \cup {"number"}

\* keysequal() never finds a NULL in a list of Pairs: here it is NullPair.
Pair == [key: Ids \cup {NoId}, value: Texts \cup {Null}]
NullPair == [key |-> NoId, value |-> Null]

ASSUME CacheAssumption ==
    /\ Ids \subseteq Nat /\ NoId \notin Ids
    /\ Null \notin Texts \cup {"?", "lost"}
    /\ Texts \cap {"?", "lost"} = {}
    /\ MapSize \in Nat \ {0}
    /\ Listings \subseteq Seq(Ids \cup {NoId})
    /\ MaxChanges \in Nat /\ MaxShortages \in Nat

VARIABLES
    db,         \* the user database: Null where it has no such user
    changes,    \* how often it has changed
    shortages,  \* how often malloc() has failed
    numeric,    \* the option -n
    files,      \* the owners of the Files listed
    slots,      \* the Map options->usernames
    pc,         \* what getownerfield() does next
    name,       \* its variable username, and the string made from it
    shown,      \* what the owner column shows, for each File done; "lost"
                \* where the whole row is, for want of memory
    given       \* for the properties: what the database has answered

vars == <<db, changes, shortages, numeric, files, slots, pc, name, shown, given>>
world == <<db, changes, numeric, files>>

uid == files[Len(shown) + 1]

Shortage == shortages < MaxShortages /\ shortages' = shortages + 1

-----------------------------------------------------------------------------
(* map.c and pair.c.                                                           *)

Hash(k) == k % MapSize

\* Faulty: slots count from 1.
EmptySlotsFromOne == [h \in 1..MapSize |-> << >>]

EmptySlots == [h \in 0..(MapSize - 1) |-> << >>]

\* Faulty: compares the hashes.
KeysEqualByHash(pair, k) == pair # NullPair /\ Hash(pair.key) = Hash(k)

KeysEqual(pair, k) == pair.key = k

Matches(pairs, k) == {j \in DOMAIN pairs : KeysEqual(pairs[j], k)}
FindItem(pairs, k) == CHOOSE j \in Matches(pairs, k) : \A i \in Matches(pairs, k) : j <= i
ValueIn(pairs, k) == IF Matches(pairs, k) = {} THEN Null ELSE pairs[FindItem(pairs, k)].value

\* get(map, k), if findpair() has the memory it needs.
Value(k) == ValueIn(slots[Hash(k)], k)

\* get() returns v: findpair() makes a Pair only to compare with, and the key
\* seems missing if it cannot.
GetValue(k, v) ==
    \/ v = Value(k) /\ UNCHANGED shortages
    \/ v = Null /\ Shortage

\* Faulty: set() adds a Pair without looking for one.
SetAppends(k, text) ==
    /\ slots' = [slots EXCEPT ![Hash(k)] = Append(@, [key |-> k, value |-> text])]
    /\ UNCHANGED shortages

\* One slot after it was given a value for k.
WithValue(pairs, k, value) ==
    IF Matches(pairs, k) # {}
    THEN [pairs EXCEPT ![FindItem(pairs, k)] = [key |-> k, value |-> value]]
    ELSE Append(pairs, [key |-> k, value |-> value])

\* set(map, k, text).  A Pair that cannot be made is still appended, as NULL;
\* a value is freed before its replacement is copied, so it may become NULL.
Set(k, text) ==
    \/ Shortage /\ slots' = [slots EXCEPT ![Hash(k)] = Append(@, NullPair)]
    \/ \E value \in {text, Null} :
         /\ IF value = text THEN UNCHANGED shortages ELSE Shortage
         /\ slots' = [slots EXCEPT ![Hash(k)] = WithValue(@, k, value)]

-----------------------------------------------------------------------------
(* getownerfield().                                                            *)

\* The row of the File is done: text is shown, or the row is lost because a
\* field could not be made.
Show(text) == shown' = Append(shown, text) /\ pc' = "field"
Lose == Shortage /\ Show("lost")

\* A File that cannot be stat'd has no owner, and -n wants no name.
Field ==
    /\ pc = "field" /\ Len(shown) < Len(files)
    /\ IF uid = NoId \/ numeric
       THEN name' = (IF uid = NoId THEN "?" ELSE "number") /\ pc' = "make"
       ELSE pc' = "get" /\ UNCHANGED name
    /\ UNCHANGED <<world, shortages, slots, shown, given>>

\* Faulty: the cache is not believed.
GetButAsk ==
    /\ pc = "get"
    /\ \E v \in Texts \cup {Null} : GetValue(uid, v) /\ name' = v
    /\ pc' = "lookup"
    /\ UNCHANGED <<world, slots, shown, given>>

Get ==
    /\ pc = "get"
    /\ \E v \in Texts \cup {Null} :
         /\ GetValue(uid, v)
         /\ name' = v
         /\ pc' = IF v = Null THEN "lookup" ELSE "make"
    /\ UNCHANGED <<world, slots, shown, given>>

Answer == IF db[uid] = Null THEN "number" ELSE db[uid]

\* Faulty: only a name that was found is remembered.
LookupForgetsNumbers ==
    /\ pc = "lookup"
    /\ name' = Answer
    /\ given' = [given EXCEPT ![uid] = @ \cup {Answer}]
    /\ pc' = IF db[uid] = Null THEN "make" ELSE "set"
    /\ UNCHANGED <<world, shortages, slots, shown>>

\* getusername(), and the digits where it knows none, which need memory.
Lookup ==
    /\ pc = "lookup"
    /\ \/ /\ name' = Answer
          /\ given' = [given EXCEPT ![uid] = @ \cup {Answer}]
          /\ pc' = "set"
          /\ UNCHANGED <<shortages, shown>>
       \/ /\ db[uid] = Null
          /\ Lose
          /\ UNCHANGED <<name, given>>
    /\ UNCHANGED <<world, slots>>

\* The cache gets a copy ...
Remember ==
    /\ pc = "set"
    /\ Set(uid, name)
    /\ pc' = "reget"
    /\ UNCHANGED <<world, name, shown, given>>

\* ... and what is shown is the copy, found once more.
GetCopy ==
    /\ pc = "reget"
    /\ \E v \in Texts \cup {Null} : GetValue(uid, v) /\ name' = v
    /\ pc' = "make"
    /\ UNCHANGED <<world, slots, shown, given>>

\* The field is made.  A NULL is printed as whatever the C library makes of it.
MakeField ==
    /\ pc = "make"
    /\ \/ Show(name) /\ UNCHANGED shortages
       \/ Lose
    /\ UNCHANGED <<world, slots, name, given>>

-----------------------------------------------------------------------------
\* An administrator adds, renames or removes a user.
Change ==
    /\ changes < MaxChanges /\ changes' = changes + 1
    /\ \E k \in Ids, n \in Names \cup {Null} : db' = [db EXCEPT ![k] = n]
    /\ UNCHANGED <<shortages, numeric, files, slots, pc, name, shown, given>>

Init ==
    /\ db \in [Ids -> Names \cup {Null}]
    /\ changes = 0 /\ shortages = 0
    /\ numeric \in BOOLEAN
    /\ files \in Listings
    /\ slots = EmptySlots
    /\ pc = "field" /\ name = Null
    /\ shown = << >>
    /\ given = [k \in Ids |-> {}]

Program == Field \/ Get \/ Lookup \/ Remember \/ GetCopy \/ MakeField

Terminated == pc = "field" /\ Len(shown) = Len(files) /\ UNCHANGED vars

Next == Program \/ Change \/ Terminated

Spec == Init /\ [][Next]_vars

-----------------------------------------------------------------------------
(* What must hold.                                                             *)

TypeOK ==
    /\ db \in [Ids -> Names \cup {Null}]
    /\ changes \in Nat /\ shortages \in Nat /\ numeric \in BOOLEAN
    /\ files \in Seq(Ids \cup {NoId})
    /\ slots \in [0..(MapSize - 1) -> Seq(Pair)]
    /\ pc \in {"field", "get", "lookup", "set", "reget", "make"}
    /\ pc # "field" => Len(shown) < Len(files)
    /\ name \in Texts \cup {"?", Null}
    /\ shown \in Seq(Texts \cup {"?", "lost", Null}) /\ Len(shown) <= Len(files)
    /\ given \in [Ids -> SUBSET Texts]

Sound(pairs, h) ==
    /\ \A j \in DOMAIN pairs : pairs[j].key # NoId => Hash(pairs[j].key) = h
    /\ \A i, j \in DOMAIN pairs :
         pairs[i].key = pairs[j].key /\ pairs[i].key # NoId => i = j

\* Whatever get() and set() could not do for want of memory, a Pair lies in
\* the slot of its key and no key has two: else set() would change one Pair
\* and get() find the other (map.c:98-118).
SlotsAreSound == \A h \in 0..(MapSize - 1) : Sound(slots[h], h)

\* Ids that share a slot never share a name: a File shows what the user
\* database said of its own owner, at some time of this listing, and a lost
\* row or a NULL only once memory has run out (filefields.c:402-432).
NamesAreGiven ==
    \A i \in DOMAIN shown :
        files[i] # NoId /\ ~numeric =>
            \/ shown[i] \in given[files[i]]
            \/ shortages > 0 /\ shown[i] \in {"lost", Null}

\* While memory lasts, Files with one owner show one name throughout a listing,
\* although users are added, renamed and removed meanwhile: a name that was not
\* found is remembered as well (filefields.c:410-421).
OneNamePerId ==
    shortages = 0 =>
        \A i, j \in DOMAIN shown : files[i] = files[j] => shown[i] = shown[j]

\* The Map implements a table of names that asks once for each id and keeps
\* the answer (options.h:67, map.c, pair.c).
Table == INSTANCE NameTable WITH
            names   <- [k \in Ids |-> Value(k)],
            lossy   <- shortages > 0,
            Unknown <- Null

TableIsKept == Table!Spec

=============================================================================
