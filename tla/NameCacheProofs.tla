-------------------------- MODULE NameCacheProofs --------------------------
(* What holds of NameCache for every user database, every number of slots and  *)
(* every number of changes and failed allocations, and that it implements      *)
(* NameTable.                                                                  *)
EXTENDS NameCache, SequenceTheorems, TLAPS

-----------------------------------------------------------------------------
(* One slot: a list of Pairs.                                                  *)

\* finditem() finds the one Pair that has the key.
LEMMA FindUnique ==
    ASSUME NEW pairs \in Seq(Pair), NEW k \in Ids, NEW j \in DOMAIN pairs,
           pairs[j].key = k, \A i \in DOMAIN pairs : pairs[i].key = k => i = j
    PROVE  /\ Matches(pairs, k) = {j}
           /\ FindItem(pairs, k) = j
           /\ ValueIn(pairs, k) = pairs[j].value
<1>1. Matches(pairs, k) = {j}
  BY DEF Matches, KeysEqual
<1>2. DOMAIN pairs \subseteq Int
  OBVIOUS
<1>3. FindItem(pairs, k) = j
  BY <1>1, <1>2 DEF FindItem
<1> QED BY <1>1, <1>3 DEF ValueIn

\* No Pair has the key: get() has no value.
LEMMA FindNone ==
    ASSUME NEW pairs, NEW k \in Ids, \A i \in DOMAIN pairs : pairs[i].key # k
    PROVE  Matches(pairs, k) = {} /\ ValueIn(pairs, k) = Null
BY DEF Matches, KeysEqual, ValueIn

\* In a sound slot a key has one Pair or none.
LEMMA OneOrNone ==
    ASSUME NEW pairs \in Seq(Pair), NEW h, Sound(pairs, h), NEW k \in Ids
    PROVE  \/ \A i \in DOMAIN pairs : pairs[i].key # k
           \/ \E j \in DOMAIN pairs :
                pairs[j].key = k /\ \A i \in DOMAIN pairs : pairs[i].key = k => i = j
BY CacheAssumption DEF Sound

\* A get() is a value of the Map.
LEMMA ValueType ==
    ASSUME NEW pairs \in Seq(Pair), NEW h, Sound(pairs, h), NEW k \in Ids
    PROVE  ValueIn(pairs, k) \in Texts \cup {Null}
<1>1. CASE \A i \in DOMAIN pairs : pairs[i].key # k
  BY <1>1, FindNone
<1>2. ASSUME NEW j \in DOMAIN pairs, pairs[j].key = k,
             \A i \in DOMAIN pairs : pairs[i].key = k => i = j
      PROVE  ValueIn(pairs, k) \in Texts \cup {Null}
  <2>1. ValueIn(pairs, k) = pairs[j].value
    BY <1>2, FindUnique
  <2>2. pairs[j] \in Pair
    OBVIOUS
  <2> QED BY <2>1, <2>2 DEF Pair
<1> QED BY <1>1, <1>2, OneOrNone

\* Two slots that have the same Pairs of a key have the same value for it.
LEMMA SameValue ==
    ASSUME NEW pairs \in Seq(Pair), NEW new \in Seq(Pair), NEW h,
           Sound(pairs, h), Sound(new, h), NEW k \in Ids,
           \A i \in DOMAIN pairs : i \in DOMAIN new,
           \A i \in DOMAIN pairs : pairs[i].key = k => new[i] = pairs[i],
           \A i \in DOMAIN new : new[i].key = k => i \in DOMAIN pairs /\ pairs[i].key = k
    PROVE  ValueIn(new, k) = ValueIn(pairs, k)
<1>1. CASE \A i \in DOMAIN pairs : pairs[i].key # k
  <2>1. \A i \in DOMAIN new : new[i].key # k
    BY <1>1
  <2> QED BY <1>1, <2>1, FindNone
<1>2. ASSUME NEW j \in DOMAIN pairs, pairs[j].key = k,
             \A i \in DOMAIN pairs : pairs[i].key = k => i = j
      PROVE  ValueIn(new, k) = ValueIn(pairs, k)
  <2>1. ValueIn(pairs, k) = pairs[j].value
    BY <1>2, FindUnique
  <2>2. /\ j \in DOMAIN new /\ new[j] = pairs[j] /\ new[j].key = k
        /\ \A i \in DOMAIN new : new[i].key = k => i = j
    BY <1>2
  <2>3. ValueIn(new, k) = new[j].value
    BY <2>2, FindUnique
  <2> QED BY <2>1, <2>2, <2>3
<1> QED BY <1>1, <1>2, OneOrNone

\* set() gives its key the value and leaves the other keys of the slot alone.
LEMMA WithValueEffect ==
    ASSUME NEW pairs \in Seq(Pair), NEW k \in Ids, Sound(pairs, Hash(k)),
           NEW v \in Texts \cup {Null}
    PROVE  /\ WithValue(pairs, k, v) \in Seq(Pair)
           /\ Sound(WithValue(pairs, k, v), Hash(k))
           /\ ValueIn(WithValue(pairs, k, v), k) = v
           /\ \A q \in Ids \ {k} :
                ValueIn(WithValue(pairs, k, v), q) = ValueIn(pairs, q)
<1> DEFINE pair == [key |-> k, value |-> v]
           new  == WithValue(pairs, k, v)
<1>1. pair \in Pair
  BY DEF Pair
<1>2. CASE \A i \in DOMAIN pairs : pairs[i].key # k
  <2>1. new = Append(pairs, pair)
    BY <1>2, FindNone DEF WithValue
  <2>2. /\ new \in Seq(Pair) /\ Len(new) = Len(pairs) + 1
        /\ \A i \in 1..Len(pairs) : new[i] = pairs[i]
        /\ new[Len(pairs) + 1] = pair
    BY <1>1, <2>1
  <2>3. DOMAIN pairs = 1..Len(pairs) /\ DOMAIN new = 1..(Len(pairs) + 1) /\ Len(pairs) \in Nat
    BY <2>2
  <2>4. Sound(new, Hash(k))
    <3>1. \A i \in DOMAIN new : i \in DOMAIN pairs \/ i = Len(pairs) + 1
      BY <2>3
    <3> QED BY <1>2, <2>2, <2>3, <3>1, CacheAssumption DEF Sound
  <2>5. ValueIn(new, k) = v
    <3>1. /\ Len(pairs) + 1 \in DOMAIN new /\ new[Len(pairs) + 1].key = k
          /\ \A i \in DOMAIN new : new[i].key = k => i = Len(pairs) + 1
      BY <1>2, <2>2, <2>3
    <3>2. ValueIn(new, k) = new[Len(pairs) + 1].value
      BY <2>2, <3>1, FindUnique
    <3> QED BY <2>2, <3>2
  <2>6. ASSUME NEW q \in Ids \ {k} PROVE ValueIn(new, q) = ValueIn(pairs, q)
    <3>1. /\ \A i \in DOMAIN pairs : i \in DOMAIN new /\ new[i] = pairs[i]
          /\ \A i \in DOMAIN new : new[i].key = q => i \in DOMAIN pairs /\ pairs[i].key = q
      BY <2>2, <2>3
    <3> HIDE DEF new
    <3> QED BY <2>2, <2>4, <3>1, SameValue
  <2> QED BY <2>2, <2>4, <2>5, <2>6
<1>3. ASSUME NEW j \in DOMAIN pairs, pairs[j].key = k,
             \A i \in DOMAIN pairs : pairs[i].key = k => i = j
      PROVE  /\ new \in Seq(Pair) /\ Sound(new, Hash(k)) /\ ValueIn(new, k) = v
             /\ \A q \in Ids \ {k} : ValueIn(new, q) = ValueIn(pairs, q)
  <2>1. new = [pairs EXCEPT ![j] = pair]
    <3>1. Matches(pairs, k) = {j} /\ FindItem(pairs, k) = j
      BY <1>3, FindUnique
    <3>2. Matches(pairs, k) # {}
      BY <3>1
    <3> QED BY <3>1, <3>2 DEF WithValue
  <2>2. /\ new \in Seq(Pair) /\ DOMAIN new = DOMAIN pairs
        /\ new[j] = pair /\ \A i \in DOMAIN pairs \ {j} : new[i] = pairs[i]
    <3>1. new \in Seq(Pair) /\ Len(new) = Len(pairs)
      BY <1>1, <2>1
    <3>2. DOMAIN new = DOMAIN pairs
      BY <2>1
    <3>3. new[j] = pair /\ \A i \in DOMAIN pairs \ {j} : new[i] = pairs[i]
      BY <2>1
    <3> QED BY <3>1, <3>2, <3>3
  <2>3. \A i \in DOMAIN pairs : new[i].key = pairs[i].key
    BY <1>3, <2>2
  <2>4. Sound(new, Hash(k))
    BY <2>2, <2>3 DEF Sound
  <2>5. ValueIn(new, k) = v
    <3>1. new[j].key = k /\ \A i \in DOMAIN new : new[i].key = k => i = j
      BY <1>3, <2>2, <2>3
    <3>2. ValueIn(new, k) = new[j].value
      BY <2>2, <3>1, FindUnique
    <3> QED BY <2>2, <3>2
  <2>6. ASSUME NEW q \in Ids \ {k} PROVE ValueIn(new, q) = ValueIn(pairs, q)
    <3>1. /\ \A i \in DOMAIN pairs : i \in DOMAIN new
          /\ \A i \in DOMAIN pairs : pairs[i].key = q => new[i] = pairs[i]
          /\ \A i \in DOMAIN new : new[i].key = q => i \in DOMAIN pairs /\ pairs[i].key = q
      BY <1>3, <2>2, <2>3
    <3> HIDE DEF new
    <3> QED BY <2>2, <2>4, <3>1, SameValue
  <2> QED BY <2>2, <2>4, <2>5, <2>6
<1> QED BY <1>2, <1>3, OneOrNone

\* A NULL on the list changes no value.
LEMMA NullPairEffect ==
    ASSUME NEW pairs \in Seq(Pair), NEW h, Sound(pairs, h)
    PROVE  /\ Append(pairs, NullPair) \in Seq(Pair)
           /\ Sound(Append(pairs, NullPair), h)
           /\ \A q \in Ids : ValueIn(Append(pairs, NullPair), q) = ValueIn(pairs, q)
<1> DEFINE new == Append(pairs, NullPair)
<1>1. NullPair \in Pair
  BY DEF NullPair, Pair
<1>2. /\ new \in Seq(Pair) /\ DOMAIN new = 1..(Len(pairs) + 1) /\ Len(pairs) \in Nat
      /\ DOMAIN pairs = 1..Len(pairs)
      /\ \A i \in 1..Len(pairs) : new[i] = pairs[i]
      /\ new[Len(pairs) + 1] = NullPair
  BY <1>1
<1>3. \A i \in DOMAIN new : i \in DOMAIN pairs \/ new[i].key = NoId
  BY <1>2 DEF NullPair
<1>4. Sound(new, h)
  BY <1>2, <1>3 DEF Sound
<1>5. ASSUME NEW q \in Ids PROVE ValueIn(new, q) = ValueIn(pairs, q)
  <2>1. /\ \A i \in DOMAIN pairs : i \in DOMAIN new /\ new[i] = pairs[i]
        /\ \A i \in DOMAIN new : new[i].key = q => i \in DOMAIN pairs /\ pairs[i].key = q
    BY <1>2, <1>3, CacheAssumption
  <2> HIDE DEF new
  <2> QED BY <1>2, <1>4, <2>1, SameValue
<1> QED BY <1>2, <1>4, <1>5

-----------------------------------------------------------------------------
(* The Map: every slot of it.                                                  *)

LEMMA HashType ==
    ASSUME NEW k \in Ids
    PROVE  Hash(k) \in 0..(MapSize - 1)
BY CacheAssumption DEF Hash

\* set() on one key, whatever fails in it.
LEMMA SetEffect ==
    ASSUME TypeOK, SlotsAreSound, NEW k \in Ids, NEW text \in Texts, Set(k, text)
    PROVE  /\ slots' \in [0..(MapSize - 1) -> Seq(Pair)] /\ SlotsAreSound'
           /\ \A q \in Ids \ {k} : Value(q)' = Value(q)
           /\ shortages' \in {shortages, shortages + 1}
           /\ shortages' = shortages => Value(k)' = text
           /\ shortages' # shortages => Value(k)' \in {Value(k), Null}
<1> DEFINE h == Hash(k)
           pairs == slots[h]
<1>1. /\ h \in 0..(MapSize - 1) /\ pairs \in Seq(Pair) /\ Sound(pairs, h)
      /\ slots \in [0..(MapSize - 1) -> Seq(Pair)] /\ shortages \in Nat
  BY HashType DEF TypeOK, SlotsAreSound
<1>2. ASSUME NEW new \in Seq(Pair), Sound(new, h), slots' = [slots EXCEPT ![h] = new],
             \A q \in Ids \ {k} : ValueIn(new, q) = ValueIn(pairs, q)
      PROVE  /\ slots' \in [0..(MapSize - 1) -> Seq(Pair)] /\ SlotsAreSound'
             /\ \A q \in Ids \ {k} : Value(q)' = Value(q)
             /\ Value(k)' = ValueIn(new, k)
  <2>1. /\ slots' \in [0..(MapSize - 1) -> Seq(Pair)] /\ slots'[h] = new
        /\ \A g \in 0..(MapSize - 1) : g # h => slots'[g] = slots[g]
    BY <1>1, <1>2
  <2>2. SlotsAreSound'
    BY <1>2, <2>1 DEF SlotsAreSound
  <2>3. ASSUME NEW q \in Ids \ {k} PROVE Value(q)' = Value(q)
    <3>1. CASE Hash(q) = h
      BY <1>2, <2>1, <3>1 DEF Value
    <3>2. CASE Hash(q) # h
      BY <2>1, <3>2, HashType DEF Value
    <3> QED BY <3>1, <3>2
  <2>4. Value(k)' = ValueIn(new, k)
    BY <2>1 DEF Value
  <2> QED BY <2>1, <2>2, <2>3, <2>4
<1>3. CASE Shortage /\ slots' = [slots EXCEPT ![h] = Append(@, NullPair)]
  <2>1. /\ Append(pairs, NullPair) \in Seq(Pair) /\ Sound(Append(pairs, NullPair), h)
        /\ \A q \in Ids : ValueIn(Append(pairs, NullPair), q) = ValueIn(pairs, q)
    BY <1>1, NullPairEffect
  <2>2. slots' = [slots EXCEPT ![h] = Append(pairs, NullPair)]
    BY <1>1, <1>3
  <2>3. shortages' = shortages + 1
    BY <1>3 DEF Shortage
  <2>4. Value(k) = ValueIn(pairs, k)
    BY DEF Value
  <2> DEFINE new == Append(pairs, NullPair)
  <2>5. new \in Seq(Pair) /\ Sound(new, h) /\ ValueIn(new, k) = Value(k)
    BY <2>1, <2>4
  <2>6. \A q \in Ids \ {k} : ValueIn(new, q) = ValueIn(pairs, q)
    BY <2>1
  <2>7. slots' = [slots EXCEPT ![h] = new]
    BY <2>2
  <2> HIDE DEF new
  <2>8. /\ slots' \in [0..(MapSize - 1) -> Seq(Pair)] /\ SlotsAreSound'
        /\ \A q \in Ids \ {k} : Value(q)' = Value(q)
        /\ Value(k)' = ValueIn(new, k)
    BY <1>2, <2>5, <2>6, <2>7
  <2> QED BY <1>1, <2>3, <2>5, <2>8
<1>4. ASSUME NEW value \in {text, Null},
             IF value = text THEN UNCHANGED shortages ELSE Shortage,
             slots' = [slots EXCEPT ![h] = WithValue(@, k, value)]
      PROVE  /\ slots' \in [0..(MapSize - 1) -> Seq(Pair)] /\ SlotsAreSound'
             /\ \A q \in Ids \ {k} : Value(q)' = Value(q)
             /\ shortages' \in {shortages, shortages + 1}
             /\ shortages' = shortages => Value(k)' = text
             /\ shortages' # shortages => Value(k)' \in {Value(k), Null}
  <2> DEFINE new == WithValue(pairs, k, value)
  <2>1. /\ new \in Seq(Pair) /\ Sound(new, h) /\ ValueIn(new, k) = value
        /\ \A q \in Ids \ {k} : ValueIn(new, q) = ValueIn(pairs, q)
    BY <1>1, WithValueEffect
  <2>2. slots' = [slots EXCEPT ![h] = new]
    BY <1>1, <1>4
  <2>3. /\ shortages' \in {shortages, shortages + 1}
        /\ shortages' = shortages => value = text
        /\ shortages' # shortages => value = Null
    BY <1>1, <1>4 DEF Shortage
  <2> HIDE DEF new
  <2>4. /\ slots' \in [0..(MapSize - 1) -> Seq(Pair)] /\ SlotsAreSound'
        /\ \A q \in Ids \ {k} : Value(q)' = Value(q)
        /\ Value(k)' = ValueIn(new, k)
    BY <1>2, <2>1, <2>2
  <2> QED BY <2>1, <2>3, <2>4
<1> QED BY <1>3, <1>4 DEF Set

-----------------------------------------------------------------------------
(* The inductive invariant.                                                    *)

\* What getownerfield() knows of its File at each call.
AskInv ==
    /\ pc \in {"get", "lookup", "set", "reget"} => uid \in Ids /\ ~numeric
    /\ pc = "set" => name \in given[uid]
    /\ pc = "make" =>
         IF uid = NoId \/ numeric
         THEN name = IF uid = NoId THEN "?" ELSE "number"
         ELSE name \in given[uid] \/ (shortages > 0 /\ name = Null)

\* The cache holds only answers for the id itself.
ValuesInv == \A k \in Ids : Value(k) # Null => Value(k) \in given[k]

\* While memory lasts an id is asked about once, and then cached.
FreshInv ==
    shortages = 0 =>
        /\ \A k \in Ids : Value(k) = Null => given[k] = {} \/ (pc = "set" /\ k = uid)
        /\ \A k \in Ids : \A a, b \in given[k] : a = b
        /\ pc \in {"lookup", "set"} => Value(uid) = Null
        /\ pc = "lookup" => given[uid] = {}
        /\ pc = "reget" => Value(uid) # Null

\* Where no name is wanted, what is shown does not depend on the cache.
PlainInv ==
    \A i \in DOMAIN shown :
        files[i] = NoId \/ numeric =>
            \/ shown[i] = IF files[i] = NoId THEN "?" ELSE "number"
            \/ shortages > 0

Inv == /\ TypeOK /\ SlotsAreSound /\ AskInv /\ ValuesInv /\ FreshInv
       /\ NamesAreGiven /\ PlainInv

-----------------------------------------------------------------------------
(* What every step of the program preserves, in parts.                         *)

\* The File that getownerfield() is at has an owner, or none.
LEMMA UidType ==
    ASSUME TypeOK, pc # "field" \/ Len(shown) < Len(files)
    PROVE  uid \in Ids \cup {NoId} /\ Len(shown) + 1 \in 1..Len(files)
<1>1. /\ files \in Seq(Ids \cup {NoId}) /\ Len(shown) \in Nat /\ Len(files) \in Nat
      /\ Len(shown) < Len(files)
  BY DEF TypeOK
<1>2. Len(shown) + 1 \in 1..Len(files)
  BY <1>1
<1>3. files[Len(shown) + 1] \in Ids \cup {NoId}
  BY <1>1, <1>2
<1> QED BY <1>2, <1>3 DEF uid

\* get() changes nothing, and finds nothing that is not there.
LEMMA GetEffect ==
    ASSUME TypeOK, NEW k \in Ids, NEW v, GetValue(k, v)
    PROVE  \/ v = Value(k) /\ shortages' = shortages
           \/ v = Null /\ shortages' = shortages + 1
BY DEF GetValue, Shortage

\* As long as the slots are left alone, the cache holds what it held.
LEMMA SlotsKept ==
    ASSUME TypeOK, SlotsAreSound, slots' = slots
    PROVE  /\ slots' \in [0..(MapSize - 1) -> Seq(Pair)] /\ SlotsAreSound'
           /\ \A k \in Ids : Value(k)' = Value(k)
BY DEF TypeOK, SlotsAreSound, Value

\* Rows that are done stay right: answers are never taken back, nor shortages.
LEMMA RowsKept ==
    ASSUME Inv, UNCHANGED <<files, numeric, shown>>,
           \A k \in Ids : given[k] \subseteq given'[k],
           shortages' = shortages \/ shortages' = shortages + 1
    PROVE  NamesAreGiven' /\ PlainInv'
<1>1. /\ shortages \in Nat /\ files \in Seq(Ids \cup {NoId})
      /\ shown \in Seq(Texts \cup {"?", "lost", Null}) /\ Len(shown) <= Len(files)
      /\ NamesAreGiven /\ PlainInv
  BY DEF Inv, TypeOK
<1>2. \A i \in DOMAIN shown : i \in 1..Len(files) /\ files[i] \in Ids \cup {NoId}
  BY <1>1
<1>3. shortages > 0 => shortages' > 0
  BY <1>1
<1>4. NamesAreGiven'
  BY <1>1, <1>2, <1>3 DEF NamesAreGiven
<1>5. PlainInv'
  BY <1>1, <1>3 DEF PlainInv
<1> QED BY <1>4, <1>5

\* A new row is right if its text is.
LEMMA RowAdded ==
    ASSUME Inv, pc # "field", UNCHANGED <<files, numeric, given>>,
           NEW text \in Texts \cup {"?", "lost", Null}, Show(text),
           shortages' = shortages \/ shortages' = shortages + 1,
           uid # NoId /\ ~numeric =>
             text \in given[uid] \/ (shortages' > 0 /\ text \in {"lost", Null}),
           uid = NoId \/ numeric =>
             (text = IF uid = NoId THEN "?" ELSE "number") \/ shortages' > 0
    PROVE  /\ NamesAreGiven' /\ PlainInv' /\ pc' = "field"
           /\ shown' \in Seq(Texts \cup {"?", "lost", Null}) /\ Len(shown') <= Len(files')
<1> DEFINE n == Len(shown) + 1
<1>1. /\ shortages \in Nat /\ files \in Seq(Ids \cup {NoId})
      /\ shown \in Seq(Texts \cup {"?", "lost", Null}) /\ Len(shown) < Len(files)
      /\ NamesAreGiven /\ PlainInv
  BY DEF Inv, TypeOK
<1>2. /\ shown' = Append(shown, text) /\ pc' = "field"
      /\ uid = files[n]
  BY DEF Show, uid
<1>3. /\ shown' \in Seq(Texts \cup {"?", "lost", Null}) /\ Len(shown') = n /\ n \in Nat
      /\ DOMAIN shown' = 1..n /\ DOMAIN shown = 1..(n - 1)
      /\ \A i \in 1..(n - 1) : shown'[i] = shown[i]
      /\ shown'[n] = text
  BY <1>1, <1>2
<1>4. shortages > 0 => shortages' > 0
  BY <1>1
<1>5. \A i \in DOMAIN shown' : i = n \/ i \in DOMAIN shown
  BY <1>3
<1>6. NamesAreGiven'
  <2> SUFFICES ASSUME NEW i \in DOMAIN shown', files[i] # NoId, ~numeric
               PROVE  \/ shown'[i] \in given[files[i]]
                      \/ shortages' > 0 /\ shown'[i] \in {"lost", Null}
    BY DEF NamesAreGiven
  <2>1. CASE i = n
    BY <1>2, <1>3, <2>1
  <2>2. CASE i \in DOMAIN shown
    BY <1>1, <1>3, <1>4, <2>2 DEF NamesAreGiven
  <2> QED BY <1>5, <2>1, <2>2
<1>7. PlainInv'
  <2> SUFFICES ASSUME NEW i \in DOMAIN shown', files[i] = NoId \/ numeric
               PROVE  (shown'[i] = IF files[i] = NoId THEN "?" ELSE "number") \/ shortages' > 0
    BY DEF PlainInv
  <2>1. CASE i = n
    BY <1>2, <1>3, <2>1
  <2>2. CASE i \in DOMAIN shown
    BY <1>1, <1>3, <1>4, <2>2 DEF PlainInv
  <2> QED BY <1>5, <2>1, <2>2
<1>8. Len(shown') <= Len(files')
  BY <1>1, <1>3
<1> QED BY <1>2, <1>3, <1>6, <1>7, <1>8

-----------------------------------------------------------------------------
(* The invariant is inductive: one lemma for each action.                      *)

LEMMA InitInv == Init => Inv
<1> SUFFICES ASSUME Init PROVE Inv
  OBVIOUS
<1>1. /\ 0 \in 0..(MapSize - 1) /\ files \in Seq(Ids \cup {NoId})
      /\ Len(files) \in Nat /\ Null \notin Texts
  BY CacheAssumption DEF Init
<1>2. /\ slots \in [0..(MapSize - 1) -> Seq(Pair)]
      /\ \A h \in 0..(MapSize - 1) : slots[h] = << >>
  BY DEF Init, EmptySlots
<1>3. TypeOK
  BY <1>1, <1>2 DEF Init, TypeOK
<1>4. SlotsAreSound
  BY <1>2 DEF SlotsAreSound, Sound
<1>5. ASSUME NEW k \in Ids PROVE Value(k) = Null
  BY <1>2, HashType, FindNone DEF Value
<1>6. AskInv
  BY DEF Init, AskInv
<1>7. ValuesInv
  BY <1>5 DEF ValuesInv
<1>8. FreshInv
  BY DEF Init, FreshInv
<1>9. NamesAreGiven /\ PlainInv
  BY DEF Init, NamesAreGiven, PlainInv
<1> QED BY <1>3, <1>4, <1>6, <1>7, <1>8, <1>9 DEF Inv

LEMMA FieldInv == ASSUME Inv, Field PROVE Inv'
<1>1. /\ TypeOK /\ SlotsAreSound /\ ValuesInv /\ FreshInv
      /\ uid \in Ids \cup {NoId} /\ shortages \in Nat /\ numeric \in BOOLEAN
  BY UidType DEF Inv, TypeOK, Field
<1>2. /\ UNCHANGED <<db, changes, numeric, files, shortages, slots, shown, given>>
      /\ pc = "field" /\ Len(shown) < Len(files)
      /\ pc' = (IF uid = NoId \/ numeric THEN "make" ELSE "get")
      /\ uid = NoId \/ numeric => name' = (IF uid = NoId THEN "?" ELSE "number")
      /\ ~(uid = NoId \/ numeric) => name' = name
  BY DEF Field, world
<1>3. uid' = uid
  BY <1>2 DEF uid
<1>4. /\ slots' \in [0..(MapSize - 1) -> Seq(Pair)] /\ SlotsAreSound'
      /\ \A k \in Ids : Value(k)' = Value(k)
  BY <1>1, <1>2, SlotsKept
<1>5. TypeOK'
  BY <1>1, <1>2, <1>4 DEF TypeOK, Texts
<1>6. AskInv'
  BY <1>1, <1>2, <1>3 DEF AskInv
<1>7. ValuesInv'
  BY <1>1, <1>2, <1>4 DEF ValuesInv
<1>8. FreshInv'
  BY <1>1, <1>2, <1>3, <1>4 DEF FreshInv
<1>9. NamesAreGiven' /\ PlainInv'
  BY <1>2, RowsKept
<1> QED BY <1>4, <1>5, <1>6, <1>7, <1>8, <1>9 DEF Inv

LEMMA GetInv == ASSUME Inv, Get PROVE Inv'
<1>1. /\ TypeOK /\ SlotsAreSound /\ AskInv /\ ValuesInv /\ FreshInv
      /\ shortages \in Nat /\ uid \in Ids /\ ~numeric /\ uid # NoId
  BY CacheAssumption DEF Inv, TypeOK, AskInv, Get
<1>2. PICK v \in Texts \cup {Null} : /\ GetValue(uid, v)
                                     /\ name' = v
                                     /\ pc' = IF v = Null THEN "lookup" ELSE "make"
  BY DEF Get
<1>3. UNCHANGED <<db, changes, numeric, files, slots, shown, given>> /\ pc = "get"
  BY DEF Get, world
<1>4. \/ v = Value(uid) /\ shortages' = shortages
      \/ v = Null /\ shortages' = shortages + 1
  BY <1>1, <1>2, GetEffect
<1>5. uid' = uid
  BY <1>3 DEF uid
<1>6. /\ slots' \in [0..(MapSize - 1) -> Seq(Pair)] /\ SlotsAreSound'
      /\ \A k \in Ids : Value(k)' = Value(k)
  BY <1>1, <1>3, SlotsKept
<1>7. TypeOK'
  BY <1>1, <1>2, <1>3, <1>4, <1>6 DEF TypeOK
<1>8. v # Null => v \in given[uid]
  BY <1>1, <1>4 DEF ValuesInv
<1>9. AskInv'
  BY <1>1, <1>2, <1>3, <1>5, <1>8 DEF AskInv
<1>10. ValuesInv'
  BY <1>1, <1>3, <1>6 DEF ValuesInv
<1>11. FreshInv'
  <2>1. CASE shortages' = shortages + 1
    BY <1>1, <2>1 DEF FreshInv
  <2>2. CASE v = Value(uid) /\ shortages' = shortages
    BY <1>1, <1>2, <1>3, <1>5, <1>6, <2>2 DEF FreshInv
  <2> QED BY <1>4, <2>1, <2>2
<1>12. NamesAreGiven' /\ PlainInv'
  BY <1>3, <1>4, RowsKept
<1> QED BY <1>6, <1>7, <1>9, <1>10, <1>11, <1>12 DEF Inv

\* A lost row.
LEMMA LoseInv ==
    ASSUME Inv, pc # "field", UNCHANGED <<world, slots, name, given>>, Lose PROVE Inv'
<1>1. /\ TypeOK /\ SlotsAreSound /\ ValuesInv /\ shortages \in Nat
  BY DEF Inv, TypeOK
<1>2. /\ UNCHANGED <<db, changes, numeric, files, slots, name, given>>
      /\ Show("lost") /\ shortages' = shortages + 1
  BY DEF world, Lose, Shortage
<1>3. /\ slots' \in [0..(MapSize - 1) -> Seq(Pair)] /\ SlotsAreSound'
      /\ \A k \in Ids : Value(k)' = Value(k)
  BY <1>1, <1>2, SlotsKept
<1>4. shortages' > 0
  BY <1>1, <1>2
<1>5. /\ NamesAreGiven' /\ PlainInv' /\ pc' = "field"
      /\ shown' \in Seq(Texts \cup {"?", "lost", Null}) /\ Len(shown') <= Len(files')
  BY <1>2, <1>4, RowAdded
<1>6. TypeOK'
  BY <1>1, <1>2, <1>3, <1>5 DEF TypeOK
<1>7. AskInv'
  BY <1>5 DEF AskInv
<1>8. ValuesInv'
  BY <1>1, <1>2, <1>3 DEF ValuesInv
<1>9. FreshInv'
  BY <1>4 DEF FreshInv
<1> QED BY <1>3, <1>5, <1>6, <1>7, <1>8, <1>9 DEF Inv

\* What the user database answers is a text to show.
LEMMA AnswerType ==
    ASSUME TypeOK, uid \in Ids PROVE Answer \in Texts
BY DEF TypeOK, Answer, Texts

LEMMA LookupInv == ASSUME Inv, Lookup PROVE Inv'
<1>1. /\ TypeOK /\ SlotsAreSound /\ AskInv /\ ValuesInv /\ FreshInv
      /\ shortages \in Nat /\ uid \in Ids /\ ~numeric /\ pc = "lookup"
      /\ given \in [Ids -> SUBSET Texts]
  BY DEF Inv, TypeOK, AskInv, Lookup
<1>2. CASE Lose /\ UNCHANGED <<name, given>>
  BY <1>1, <1>2, LoseInv DEF Lookup
<1>3. CASE /\ name' = Answer
           /\ given' = [given EXCEPT ![uid] = @ \cup {Answer}]
           /\ pc' = "set"
           /\ UNCHANGED <<shortages, shown>>
  <2>1. UNCHANGED <<db, changes, numeric, files, slots, shown, shortages>>
    BY <1>3 DEF Lookup, world
  <2>2. uid' = uid
    BY <2>1 DEF uid
  <2>3. /\ slots' \in [0..(MapSize - 1) -> Seq(Pair)] /\ SlotsAreSound'
        /\ \A k \in Ids : Value(k)' = Value(k)
    BY <1>1, <2>1, SlotsKept
  <2>4. /\ given' \in [Ids -> SUBSET Texts] /\ Answer \in Texts
        /\ given'[uid] = given[uid] \cup {Answer}
        /\ \A k \in Ids \ {uid} : given'[k] = given[k]
    BY <1>1, <1>3, AnswerType
  <2>5. \A k \in Ids : given[k] \subseteq given'[k]
    BY <2>4
  <2>6. TypeOK'
    BY <1>1, <1>3, <2>1, <2>3, <2>4 DEF TypeOK
  <2>7. AskInv'
    BY <1>1, <1>3, <2>1, <2>2, <2>4 DEF AskInv
  <2>8. ValuesInv'
    BY <1>1, <2>3, <2>5 DEF ValuesInv
  <2>9. FreshInv'
    <3> SUFFICES ASSUME shortages = 0 PROVE FreshInv'
      BY <2>1 DEF FreshInv
    <3>1. Value(uid) = Null /\ given[uid] = {}
      BY <1>1 DEF FreshInv
    <3>2. \A k \in Ids : \A a, b \in given'[k] : a = b
      BY <1>1, <2>4, <3>1 DEF FreshInv
    <3>3. \A k \in Ids : Value(k)' = Null => given'[k] = {} \/ k = uid
      BY <1>1, <2>3, <2>4 DEF FreshInv
    <3>4. Value(uid)' = Null
      <4>1. PICK k \in Ids : k = uid
        BY <1>1
      <4>2. Value(k)' = Value(k) /\ Value(k) = Null
        BY <2>3, <3>1, <4>1
      <4> QED BY <2>2, <4>1, <4>2 DEF Value
    <3>5. pc' = "set" /\ shortages' = 0
      BY <1>3, <2>1
    <3> QED BY <2>2, <3>2, <3>3, <3>4, <3>5 DEF FreshInv
  <2>10. NamesAreGiven' /\ PlainInv'
    BY <2>1, <2>5, RowsKept
  <2> QED BY <2>3, <2>6, <2>7, <2>8, <2>9, <2>10 DEF Inv
<1> QED BY <1>2, <1>3 DEF Lookup

LEMMA RememberInv == ASSUME Inv, Remember PROVE Inv'
<1>1. /\ TypeOK /\ SlotsAreSound /\ AskInv /\ ValuesInv /\ FreshInv
      /\ shortages \in Nat /\ uid \in Ids /\ ~numeric /\ pc = "set" /\ pc' = "reget"
      /\ name \in given[uid] /\ given[uid] \subseteq Texts /\ Set(uid, name)
  BY DEF Inv, TypeOK, AskInv, Remember
<1>2. UNCHANGED <<db, changes, numeric, files, name, shown, given>>
  BY DEF Remember, world
<1>3. PICK k \in Ids : k = uid
  BY <1>1
<1>4. uid' = k /\ name \in Texts /\ Set(k, name)
  BY <1>1, <1>2, <1>3 DEF uid
<1>5. /\ slots' \in [0..(MapSize - 1) -> Seq(Pair)] /\ SlotsAreSound'
      /\ \A q \in Ids \ {k} : Value(q)' = Value(q)
      /\ shortages' \in {shortages, shortages + 1}
      /\ shortages' = shortages => Value(k)' = name
      /\ shortages' # shortages => Value(k)' \in {Value(k), Null}
  <2>1. PICK text \in Texts : text = name
    BY <1>4
  <2>2. Set(k, text)
    BY <1>4, <2>1
  <2>3. /\ slots' \in [0..(MapSize - 1) -> Seq(Pair)] /\ SlotsAreSound'
        /\ \A q \in Ids \ {k} : Value(q)' = Value(q)
        /\ shortages' \in {shortages, shortages + 1}
        /\ shortages' = shortages => Value(k)' = text
        /\ shortages' # shortages => Value(k)' \in {Value(k), Null}
    BY <1>1, <2>2, SetEffect
  <2> QED BY <2>1, <2>3
<1>6. TypeOK'
  BY <1>1, <1>2, <1>5 DEF TypeOK
<1>7. AskInv'
  BY <1>1, <1>2, <1>3, <1>4 DEF AskInv
<1>8. Value(k)' # Null => Value(k)' \in given[k]
  BY <1>1, <1>3, <1>5 DEF ValuesInv
<1>9. ValuesInv'
  BY <1>1, <1>2, <1>5, <1>8 DEF ValuesInv
<1>10. FreshInv'
  <2> SUFFICES ASSUME shortages' = 0 PROVE FreshInv'
    BY DEF FreshInv
  <2>1. shortages = 0 /\ Value(k)' = name /\ name # Null
    BY <1>1, <1>4, <1>5, CacheAssumption
  <2>2. \A q \in Ids \ {k} : Value(q)' = Null => given[q] = {}
    BY <1>1, <1>3, <1>5, <2>1 DEF FreshInv
  <2>3. \A q \in Ids : Value(q)' = Null => given[q] = {}
    BY <2>1, <2>2
  <2>4. \A q \in Ids : \A a, b \in given'[q] : a = b
    BY <1>1, <1>2, <2>1 DEF FreshInv
  <2>5. Value(uid)' # Null
    BY <1>4, <2>1 DEF Value
  <2> QED BY <1>1, <1>2, <2>3, <2>4, <2>5 DEF FreshInv
<1>11. NamesAreGiven' /\ PlainInv'
  BY <1>2, <1>5, RowsKept
<1> QED BY <1>5, <1>6, <1>7, <1>9, <1>10, <1>11 DEF Inv

LEMMA GetCopyInv == ASSUME Inv, GetCopy PROVE Inv'
<1>1. /\ TypeOK /\ SlotsAreSound /\ AskInv /\ ValuesInv /\ FreshInv
      /\ shortages \in Nat /\ uid \in Ids /\ ~numeric /\ uid # NoId
      /\ pc = "reget" /\ pc' = "make"
  BY CacheAssumption DEF Inv, TypeOK, AskInv, GetCopy
<1>2. PICK v \in Texts \cup {Null} : GetValue(uid, v) /\ name' = v
  BY DEF GetCopy
<1>3. UNCHANGED <<db, changes, numeric, files, slots, shown, given>>
  BY DEF GetCopy, world
<1>4. \/ v = Value(uid) /\ shortages' = shortages
      \/ v = Null /\ shortages' = shortages + 1
  BY <1>1, <1>2, GetEffect
<1>5. uid' = uid
  BY <1>3 DEF uid
<1>6. /\ slots' \in [0..(MapSize - 1) -> Seq(Pair)] /\ SlotsAreSound'
      /\ \A k \in Ids : Value(k)' = Value(k)
  BY <1>1, <1>3, SlotsKept
<1>7. TypeOK'
  BY <1>1, <1>2, <1>3, <1>4, <1>6 DEF TypeOK
<1>8. v \in given[uid] \/ (shortages' > 0 /\ v = Null)
  <2>1. CASE shortages' = shortages + 1 /\ v = Null
    BY <1>1, <2>1
  <2>2. CASE v = Value(uid) /\ shortages' = shortages
    <3>1. CASE v = Null
      BY <1>1, <2>2, <3>1 DEF FreshInv
    <3>2. CASE v # Null
      BY <1>1, <2>2, <3>2 DEF ValuesInv
    <3> QED BY <3>1, <3>2
  <2> QED BY <1>4, <2>1, <2>2
<1>9. AskInv'
  BY <1>1, <1>2, <1>3, <1>5, <1>8 DEF AskInv
<1>10. ValuesInv'
  BY <1>1, <1>3, <1>6 DEF ValuesInv
<1>11. FreshInv'
  <2>1. CASE shortages' = shortages + 1
    BY <1>1, <2>1 DEF FreshInv
  <2>2. CASE shortages' = shortages
    BY <1>1, <1>3, <1>5, <1>6, <2>2 DEF FreshInv
  <2> QED BY <1>4, <2>1, <2>2
<1>12. NamesAreGiven' /\ PlainInv'
  BY <1>3, <1>4, RowsKept
<1> QED BY <1>6, <1>7, <1>9, <1>10, <1>11, <1>12 DEF Inv

LEMMA MakeFieldInv == ASSUME Inv, MakeField PROVE Inv'
<1>1. /\ TypeOK /\ SlotsAreSound /\ AskInv /\ ValuesInv /\ FreshInv
      /\ shortages \in Nat /\ pc = "make" /\ name \in Texts \cup {"?", Null}
  BY DEF Inv, TypeOK, MakeField
<1>2. UNCHANGED <<db, changes, numeric, files, slots, name, given>>
  BY DEF MakeField, world
<1>3. CASE Lose
  BY <1>1, <1>2, <1>3, LoseInv DEF world
<1>4. CASE Show(name) /\ UNCHANGED shortages
  <2>1. /\ uid # NoId /\ ~numeric =>
             name \in given[uid] \/ (shortages' > 0 /\ name \in {"lost", Null})
        /\ uid = NoId \/ numeric =>
             (name = IF uid = NoId THEN "?" ELSE "number") \/ shortages' > 0
    BY <1>1, <1>4 DEF AskInv
  <2>2. /\ NamesAreGiven' /\ PlainInv' /\ pc' = "field"
        /\ shown' \in Seq(Texts \cup {"?", "lost", Null}) /\ Len(shown') <= Len(files')
    BY <1>1, <1>2, <1>4, <2>1, RowAdded
  <2>3. /\ slots' \in [0..(MapSize - 1) -> Seq(Pair)] /\ SlotsAreSound'
        /\ \A k \in Ids : Value(k)' = Value(k)
    BY <1>1, <1>2, SlotsKept
  <2>4. TypeOK'
    BY <1>1, <1>2, <1>4, <2>2, <2>3 DEF TypeOK
  <2>5. AskInv'
    BY <2>2 DEF AskInv
  <2>6. ValuesInv'
    BY <1>1, <1>2, <2>3 DEF ValuesInv
  <2>7. FreshInv'
    BY <1>1, <1>2, <1>4, <2>2, <2>3 DEF FreshInv
  <2> QED BY <2>2, <2>3, <2>4, <2>5, <2>6, <2>7 DEF Inv
<1> QED BY <1>3, <1>4 DEF MakeField

\* The user database is asked, not remembered: a change disturbs nothing.
LEMMA ChangeInv == ASSUME Inv, Change \/ UNCHANGED vars PROVE Inv'
<1>1. /\ TypeOK /\ SlotsAreSound /\ AskInv /\ ValuesInv /\ FreshInv
      /\ changes \in Nat /\ db \in [Ids -> Names \cup {Null}]
  BY DEF Inv, TypeOK
<1>2. UNCHANGED <<shortages, numeric, files, slots, pc, name, shown, given>>
  BY DEF Change, vars
<1>3. db' \in [Ids -> Names \cup {Null}] /\ changes' \in Nat
  BY <1>1 DEF Change, vars
<1>4. uid' = uid
  BY <1>2 DEF uid
<1>5. /\ slots' \in [0..(MapSize - 1) -> Seq(Pair)] /\ SlotsAreSound'
      /\ \A k \in Ids : Value(k)' = Value(k)
  BY <1>1, <1>2, SlotsKept
<1>6. TypeOK'
  BY <1>1, <1>2, <1>3 DEF TypeOK
<1>7. AskInv'
  BY <1>1, <1>2, <1>4 DEF AskInv
<1>8. ValuesInv'
  BY <1>1, <1>2, <1>5 DEF ValuesInv
<1>9. Value(uid)' = Value(uid)
  BY <1>2, <1>4 DEF Value
<1>10. FreshInv'
  BY <1>1, <1>2, <1>4, <1>5, <1>9 DEF FreshInv
<1>11. NamesAreGiven' /\ PlainInv'
  BY <1>2, RowsKept
<1> QED BY <1>5, <1>6, <1>7, <1>8, <1>10, <1>11 DEF Inv

LEMMA StepInv == Inv /\ [Next]_vars => Inv'
<1> SUFFICES ASSUME Inv, [Next]_vars PROVE Inv'
  OBVIOUS
<1>1. CASE Field
  BY <1>1, FieldInv
<1>2. CASE Get
  BY <1>2, GetInv
<1>3. CASE Lookup
  BY <1>3, LookupInv
<1>4. CASE Remember
  BY <1>4, RememberInv
<1>5. CASE GetCopy
  BY <1>5, GetCopyInv
<1>6. CASE MakeField
  BY <1>6, MakeFieldInv
<1>7. CASE Change \/ UNCHANGED vars
  BY <1>7, ChangeInv
<1> QED BY <1>1, <1>2, <1>3, <1>4, <1>5, <1>6, <1>7 DEF Next, Program, Terminated

LEMMA InvHolds == Spec => []Inv
BY InitInv, StepInv, PTL DEF Spec

\* The variables of map.c and of getownerfield() hold what they are declared
\* to hold, and a row is only worked on while there is one left to do.
THEOREM TypeCorrect == Spec => []TypeOK
<1>1. Inv => TypeOK
  BY DEF Inv
<1> QED BY <1>1, InvHolds, PTL

\* Whatever set() could not allocate, each Pair lies in the slot of its key and
\* no key has two Pairs (map.c:98-118).
THEOREM MapIsSound == Spec => []SlotsAreSound
<1>1. Inv => SlotsAreSound
  BY DEF Inv
<1> QED BY <1>1, InvHolds, PTL

\* A File's owner column never shows the name of another id, however the ids
\* share slots (filefields.c:402-432).
THEOREM NamesGiven == Spec => []NamesAreGiven
<1>1. Inv => NamesAreGiven
  BY DEF Inv
<1> QED BY <1>1, InvHolds, PTL

\* While memory lasts, Files with one owner show one name, although the user
\* database changes between them (filefields.c:410-421).
THEOREM OneName == Spec => []OneNamePerId
<1>1. ASSUME Inv PROVE OneNamePerId
  <2> SUFFICES ASSUME shortages = 0, NEW i \in DOMAIN shown, NEW j \in DOMAIN shown,
                      files[i] = files[j]
               PROVE  shown[i] = shown[j]
    BY DEF OneNamePerId
  <2>1. /\ shown \in Seq(Texts \cup {"?", "lost", Null}) /\ Len(shown) <= Len(files)
        /\ files \in Seq(Ids \cup {NoId})
    BY <1>1 DEF Inv, TypeOK
  <2>2. files[i] \in Ids \cup {NoId}
    BY <2>1
  <2>3. CASE files[i] = NoId \/ numeric
    BY <1>1, <2>3 DEF Inv, PlainInv
  <2>4. CASE files[i] # NoId /\ ~numeric
    <3>1. shown[i] \in given[files[i]] /\ shown[j] \in given[files[i]]
      BY <1>1, <2>4 DEF Inv, NamesAreGiven
    <3> QED BY <1>1, <2>2, <2>4, <3>1 DEF Inv, FreshInv
  <2> QED BY <2>3, <2>4
<1> QED BY <1>1, InvHolds, PTL

-----------------------------------------------------------------------------
(* The refinement.                                                             *)

\* Where nothing is asked, learnt or lost, the table does not move.
LEMMA TableStutters ==
    ASSUME UNCHANGED <<given, shortages>>, \A k \in Ids : Value(k)' = Value(k)
    PROVE  UNCHANGED Table!vars
BY DEF Table!vars

\* A failed allocation is the table's, if one name is lost at most.
LEMMA TableRunsOut ==
    ASSUME TypeOK, UNCHANGED given, shortages' = shortages + 1, NEW k \in Ids,
           \A q \in Ids \ {k} : Value(q)' = Value(q), Value(k)' \in {Value(k), Null}
    PROVE  Table!RunOut
<1> DEFINE names == [q \in Ids |-> Value(q)]
<1>1. (shortages > 0)' = TRUE
  BY DEF TypeOK
<1>2. CASE Value(k)' = Value(k)
  <2>1. names' = names
    BY <1>2
  <2> QED BY <1>1, <2>1 DEF Table!RunOut
<1>3. CASE Value(k)' = Null
  <2>1. names' = [names EXCEPT ![k] = Null]
    BY <1>3
  <2> QED BY <1>1, <2>1 DEF Table!RunOut
<1> QED BY <1>2, <1>3

\* A failed allocation outside set() loses no name.
LEMMA TableKeepsAll ==
    ASSUME Inv, UNCHANGED <<given, slots>>, NEW k \in Ids,
           shortages' = shortages \/ shortages' = shortages + 1
    PROVE  Table!RunOut \/ UNCHANGED Table!vars
<1>1. TypeOK /\ SlotsAreSound
  BY DEF Inv
<1>2. \A q \in Ids : Value(q)' = Value(q)
  BY <1>1, SlotsKept
<1>3. CASE shortages' = shortages + 1
  BY <1>1, <1>2, <1>3, TableRunsOut
<1>4. CASE shortages' = shortages
  BY <1>2, <1>4, TableStutters
<1> QED BY <1>3, <1>4

\* getusername() is asked at the first miss of an id, or after a shortage.
LEMMA LookupAsks ==
    ASSUME Inv, Lookup PROVE Table!Next \/ UNCHANGED Table!vars
<1>1. /\ TypeOK /\ SlotsAreSound /\ uid \in Ids /\ pc = "lookup" /\ FreshInv
      /\ shortages \in Nat /\ given \in [Ids -> SUBSET Texts]
  BY DEF Inv, TypeOK, AskInv, Lookup
<1>2. PICK k \in Ids : k = uid
  BY <1>1
<1>3. UNCHANGED slots
  BY DEF Lookup
<1>4. CASE Lose /\ UNCHANGED <<name, given>>
  BY <1>2, <1>3, <1>4, TableKeepsAll DEF Lose, Shortage, Table!Next
<1>5. CASE /\ given' = [given EXCEPT ![uid] = @ \cup {Answer}]
           /\ UNCHANGED shortages
  <2> DEFINE names == [q \in Ids |-> Value(q)]
  <2>1. \A q \in Ids : Value(q)' = Value(q)
    BY <1>1, <1>3, SlotsKept
  <2>2. names' = names
    BY <2>1
  <2>3. shortages > 0 \/ (names[k] = Null /\ given[k] = {})
    BY <1>1, <1>2 DEF FreshInv
  <2>4. \E t \in Texts : given' = [given EXCEPT ![k] = @ \cup {t}]
    BY <1>1, <1>2, <1>5, AnswerType
  <2>5. Table!Ask(k)
    BY <1>5, <2>2, <2>3, <2>4 DEF Table!Ask
  <2> QED BY <2>5 DEF Table!Next
<1> QED BY <1>4, <1>5 DEF Lookup

\* set() makes the answer the name of an id that had none, or fails.
LEMMA RememberLearns ==
    ASSUME Inv, Remember PROVE Table!Next
<1>1. /\ TypeOK /\ SlotsAreSound /\ uid \in Ids /\ pc = "set" /\ FreshInv
      /\ shortages \in Nat /\ name \in given[uid] /\ given[uid] \subseteq Texts
      /\ Set(uid, name) /\ given' = given
  BY DEF Inv, TypeOK, AskInv, Remember
<1>2. PICK k \in Ids : k = uid
  BY <1>1
<1>3. PICK text \in Texts : text = name
  BY <1>1
<1>4. /\ \A q \in Ids \ {k} : Value(q)' = Value(q)
      /\ shortages' \in {shortages, shortages + 1}
      /\ shortages' = shortages => Value(k)' = text
      /\ shortages' # shortages => Value(k)' \in {Value(k), Null}
  <2>1. Set(k, text)
    BY <1>1, <1>2, <1>3
  <2> QED BY <1>1, <2>1, SetEffect
<1>5. CASE shortages' # shortages
  <2>1. shortages' = shortages + 1
    BY <1>4, <1>5
  <2>2. Table!RunOut
    BY <1>1, <1>4, <1>5, <2>1, TableRunsOut
  <2> QED BY <2>2 DEF Table!Next
<1>6. CASE shortages' = shortages
  <2> DEFINE names == [q \in Ids |-> Value(q)]
  <2>1. names' = [names EXCEPT ![k] = text]
    BY <1>4, <1>6
  <2>2. shortages > 0 \/ names[k] = Null
    BY <1>1, <1>2 DEF FreshInv
  <2>3. text \in given[k]
    BY <1>1, <1>2, <1>3
  <2>4. Table!Learn(k)
    BY <1>1, <1>6, <2>1, <2>2, <2>3 DEF Table!Learn
  <2> QED BY <2>4 DEF Table!Next
<1> QED BY <1>5, <1>6

LEMMA TableStep ==
    ASSUME Inv, [Next]_vars PROVE Table!Next \/ UNCHANGED Table!vars
<1>1. CASE Lookup
  BY <1>1, LookupAsks
<1>2. CASE Remember
  BY <1>2, RememberLearns
<1>3. CASE Field \/ Change \/ UNCHANGED vars
  <2>1. UNCHANGED <<given, slots, shortages>>
    BY <1>3 DEF Field, Change, vars
  <2>2. TypeOK /\ SlotsAreSound
    BY DEF Inv
  <2> QED BY <2>1, <2>2, SlotsKept, TableStutters
<1>4. CASE Get \/ GetCopy
  <2>1. TypeOK /\ uid \in Ids /\ UNCHANGED <<given, slots>>
    BY <1>4 DEF Inv, AskInv, Get, GetCopy
  <2>2. PICK v : GetValue(uid, v)
    BY <1>4 DEF Get, GetCopy
  <2>3. shortages' = shortages \/ shortages' = shortages + 1
    BY <2>1, <2>2, GetEffect
  <2>4. PICK k \in Ids : k = uid
    BY <2>1
  <2> QED BY <2>1, <2>3, <2>4, TableKeepsAll DEF Table!Next
<1>5. CASE MakeField
  <2>1. /\ UNCHANGED <<given, slots>> /\ TypeOK /\ SlotsAreSound
        /\ shortages' = shortages \/ shortages' = shortages + 1
    BY <1>5 DEF MakeField, Lose, Shortage, Inv
  <2>2. \A q \in Ids : Value(q)' = Value(q)
    BY <2>1, SlotsKept
  <2>3. CASE shortages' = shortages
    BY <2>1, <2>2, <2>3, TableStutters
  <2>4. CASE shortages' = shortages + 1
    <3>1. [p \in Ids |-> Value(p)]' = [p \in Ids |-> Value(p)]
      BY <2>2
    <3>2. (shortages > 0)' = TRUE
      BY <2>1, <2>4 DEF TypeOK
    <3> QED BY <2>1, <3>1, <3>2 DEF Table!RunOut, Table!Next
  <2> QED BY <2>1, <2>3, <2>4
<1> QED BY <1>1, <1>2, <1>3, <1>4, <1>5 DEF Next, Program, Terminated

\* The Map, with the calls that getownerfield() makes of it, is a table that
\* asks the user database once for each id and keeps the answer, as long as
\* memory lasts (filefields.c:402-432, map.c, pair.c).
THEOREM MapIsATable == Spec => TableIsKept
<1>1. Init => Table!Init
  <2> SUFFICES ASSUME Init PROVE Table!Init
    OBVIOUS
  <2>1. \A h \in 0..(MapSize - 1) : slots[h] = << >>
    BY DEF Init, EmptySlots
  <2>2. ASSUME NEW k \in Ids PROVE Value(k) = Null
    BY <2>1, HashType, FindNone DEF Value
  <2>3. (shortages > 0) = FALSE
    BY DEF Init
  <2> QED BY <2>2, <2>3 DEF Init, Table!Init
<1>2. Inv /\ [Next]_vars => [Table!Next]_(Table!vars)
  BY TableStep
<1> QED BY <1>1, <1>2, InvHolds, PTL DEF Spec, TableIsKept, Table!Spec

=============================================================================
