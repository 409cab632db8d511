--------------------------- MODULE HostMap_proofs ---------------------------
(***************************************************************************)
(* Facts about the hash table of host.hpp, for every hash function, keys   *)
(* and values: every operation keeps it sound, its entries are those of a  *)
(* map, in the order they were entered, and a lookup finds them.           *)
(***************************************************************************)
EXTENDS HostMap, FoldLemmas, FiniteSetTheorems, SequenceTheorems

EntryOf(V) == [key : MapKeys, val : V]
TableOf(V) == [idx : Seq(Nat), data : Seq(EntryOf(V))]

(* A probe comes by every place of a table of this capacity.                *)
Probed(cap) ==
    \A key \in MapKeys : \A p \in 0 .. cap - 1 :
        \E i \in 0 .. cap - 1 : Place(cap, key, i) = p

(* A table of a size that is asked for.                                     *)
Sized(map) == \E n \in Targets : Capacity(map) = n * Spread

(* The entries e are those of d with val under key.                         *)
Puts(d, key, val, e) ==
    \/ \E i \in 1 .. Len(d) :
          d[i].key = key /\ e = [d EXCEPT ![i] = [key |-> key, val |-> val]]
    \/ /\ \A i \in 1 .. Len(d) : d[i].key # key
       /\ e = Append(d, [key |-> key, val |-> val])

-----------------------------------------------------------------------------
(* Probing.                                                                *)

LEMMA TableFields ==
    ASSUME NEW V, NEW map \in TableOf(V)
    PROVE  /\ map = [idx |-> map.idx, data |-> map.data]
           /\ map.idx \in Seq(Nat) /\ map.data \in Seq(EntryOf(V))
           /\ Capacity(map) = Len(map.idx) /\ Capacity(map) \in Nat
           /\ Size(map) = Len(map.data) /\ Size(map) \in Nat
           /\ \A i \in 1 .. Capacity(map) : map.idx[i] \in Nat
           /\ \A i \in 1 .. Size(map) : map.data[i] \in EntryOf(V)
    BY DEF TableOf, Capacity, Size

LEMMA PlaceIn ==
    ASSUME NEW cap \in Nat \ {0}, NEW key \in MapKeys, NEW i \in Nat
    PROVE  Place(cap, key, i) \in 0 .. cap - 1
<1>1. MapHash[key] \in Nat /\ Step \in Nat
    BY MapAssumption
<1>2. i * Step \in Nat
    BY <1>1
<1>3. PICK x \in Nat : x = MapHash[key] + i * Step
    BY <1>1, <1>2
<1>4. x % cap \in 0 .. cap - 1
    OBVIOUS
<1> QED
    BY <1>3, <1>4 DEF Place

LEMMA StepIn ==
    ASSUME NEW V, NEW map \in TableOf(V), NEW key \in MapKeys, NEW i \in 0 .. Capacity(map) - 1
    PROVE  Place(Capacity(map), key, i) + 1 \in 1 .. Capacity(map)
<1>1. PICK cap \in Nat \ {0} : cap = Capacity(map)
    BY TableFields
<1>2. PICK p \in 0 .. cap - 1 : p = Place(cap, key, i)
    BY <1>1, PlaceIn
<1> QED
    BY <1>1, <1>2

(* Where the probe ends.                                                    *)
LEMMA SlotAt ==
    ASSUME NEW map, Capacity(map) \in Nat, NEW key, NEW m \in Stops(map, key),
           \A j \in Stops(map, key) : m <= j
    PROVE  Slot(map, key) = Place(Capacity(map), key, m) + 1
<1> DEFINE stops == Stops(map, key)
           least == CHOOSE i \in stops : \A j \in stops : i <= j
<1>1. Slot(map, key) = CHOOSE r \in {Place(Capacity(map), key, least) + 1} : TRUE
    BY DEF Slot, With
<1>2. stops \subseteq Nat
    BY DEF Stops
<1>3. \A i \in stops : (\A j \in stops : i <= j) => i = m
    BY <1>2
<1>4. least = m
    <2> HIDE DEF stops
    <2> QED BY <1>3
<1> QED
    BY <1>1, <1>4

LEMMA FirstStop ==
    ASSUME NEW map, Capacity(map) \in Nat, NEW key, Stops(map, key) # {}
    PROVE  \E m \in Stops(map, key) : \A j \in Stops(map, key) : m <= j
<1>1. Stops(map, key) \in SUBSET Nat
    BY DEF Stops
<1> QED
    BY <1>1, NatLeast

(* The place a probe ends at is free or the key's own, and it is the key's  *)
(* own when the key is in the table.                                        *)
LEMMA SlotFacts ==
    ASSUME NEW V, NEW map \in TableOf(V), Sound(map), Capacity(map) > 0, NEW key \in MapKeys
    PROVE  /\ Slot(map, key) \in 1 .. Capacity(map)
           /\ map.idx[Slot(map, key)] \in 0 .. Size(map)
           /\ map.idx[Slot(map, key)] = 0 => \A i \in 1 .. Size(map) : map.data[i].key # key
           /\ map.idx[Slot(map, key)] # 0 => map.data[map.idx[Slot(map, key)]].key = key
<1>1. Stops(map, key) # {} /\ \A i \in 1 .. Capacity(map) : map.idx[i] \in 0 .. Size(map)
    BY DEF Sound
<1>2. PICK m \in Stops(map, key) : \A j \in Stops(map, key) : m <= j
    BY <1>1, TableFields, FirstStop
<1>3. Slot(map, key) = Place(Capacity(map), key, m) + 1
    BY <1>2, TableFields, SlotAt
<1>4. m \in 0 .. Capacity(map) - 1 /\ LET at == map.idx[Place(Capacity(map), key, m) + 1]
                                       IN at = 0 \/ map.data[at].key = key
    BY DEF Stops
<1>5. Place(Capacity(map), key, m) \in 0 .. Capacity(map) - 1
    <2>1. Capacity(map) \in Nat \ {0} /\ m \in Nat
        BY <1>4, TableFields
    <2> QED BY <2>1, PlaceIn
<1>6. Slot(map, key) \in 1 .. Capacity(map)
    BY <1>3, <1>5, TableFields
<1>7. map.idx[Slot(map, key)] \in 0 .. Size(map)
    BY <1>1, <1>6
<1>8. ASSUME NEW i \in 1 .. Size(map), map.data[i].key = key
      PROVE  map.idx[Slot(map, key)] = i
    BY <1>8 DEF Sound
<1> QED
    BY <1>3, <1>4, <1>6, <1>7, <1>8
-----------------------------------------------------------------------------
(* Assigning.                                                              *)

(* A table with an entry added, or a value of one replaced.                 *)
LEMMA AssignStep ==
    ASSUME NEW map, NEW key, NEW val
    PROVE  LET at == Slot(map, key) IN
           Assign(map, key, val) =
               IF map.idx[at] > 0 THEN [map EXCEPT !.data[map.idx[at]].val = val]
               ELSE [idx  |-> [map.idx EXCEPT ![at] = Size(map) + 1],
                     data |-> Append(map.data, [key |-> key, val |-> val])]
<1> DEFINE at == Slot(map, key)
           body == IF map.idx[at] > 0 THEN [map EXCEPT !.data[map.idx[at]].val = val]
                   ELSE [idx  |-> [map.idx EXCEPT ![at] = Size(map) + 1],
                         data |-> Append(map.data, [key |-> key, val |-> val])]
<1>1. Assign(map, key, val) = CHOOSE r \in {body} : TRUE
    BY DEF Assign, With
<1> QED
    BY <1>1

(* A probe does not see the values.                                        *)
LEMMA SameProbe ==
    ASSUME NEW map, NEW new, NEW key, Capacity(map) \in Nat, Capacity(new) = Capacity(map),
           \A i \in Stops(map, key) : i \in Stops(new, key),
           \A i \in Stops(new, key) : i \in Stops(map, key),
           Stops(map, key) # {}
    PROVE  Stops(new, key) # {} /\ Slot(new, key) = Slot(map, key)
<1>1. PICK m \in Stops(map, key) : \A j \in Stops(map, key) : m <= j
    BY FirstStop
<1>2. Slot(map, key) = Place(Capacity(map), key, m) + 1
    BY <1>1, SlotAt
<1>3. Slot(new, key) = Place(Capacity(new), key, m) + 1
    BY <1>1, SlotAt
<1> QED
    BY <1>1, <1>2, <1>3

(* The key was there: its value changes.                                   *)
LEMMA AssignOld ==
    ASSUME NEW V, NEW map \in TableOf(V), Sound(map), Capacity(map) > 0,
           NEW key \in MapKeys, NEW val \in V, map.idx[Slot(map, key)] # 0
    PROVE  LET new == Assign(map, key, val) IN
           /\ new \in TableOf(V) /\ Sound(new) /\ Capacity(new) = Capacity(map)
           /\ Puts(map.data, key, val, new.data)
<1> DEFINE i == map.idx[Slot(map, key)]
           e == [key |-> key, val |-> val]
           data == [map.data EXCEPT ![i] = e]
           new == Assign(map, key, val)
<1>1. i \in 1 .. Size(map) /\ map.data[i].key = key
    BY SlotFacts, TableFields
<1>2. map.data[i] = [key |-> key, val |-> map.data[i].val]
    <2>1. map.data[i] \in EntryOf(V)
        BY <1>1, TableFields
    <2> QED BY <1>1, <2>1 DEF EntryOf
<1>3. [map.data EXCEPT ![i].val = val] = data
    <2>1. [map.data[i] EXCEPT !.val = val] = e
        <3> DEFINE old == map.data[i].val
        <3>1. map.data[i] = [key |-> key, val |-> old]
            BY <1>2
        <3> HIDE DEF old, i
        <3> QED BY <3>1
    <2> QED BY <2>1
<1>4. new = [idx |-> map.idx, data |-> data]
    <2>1. i > 0
        BY <1>1
    <2>2. new = [map EXCEPT !.data[i].val = val]
        BY <2>1, AssignStep
    <2>3. [map EXCEPT !.data[i].val = val] = [map EXCEPT !.data = data]
        BY <1>3
    <2>4. [map EXCEPT !.data = data] = [idx |-> map.idx, data |-> data]
        <3> HIDE DEF data
        <3> QED BY TableFields
    <2> QED BY <2>2, <2>3, <2>4
<1>5. e \in EntryOf(V)
    BY DEF EntryOf
<1>6. data \in Seq(EntryOf(V)) /\ Len(data) = Size(map)
    <2> HIDE DEF e, i
    <2> QED BY <1>1, <1>5, TableFields
<1>7. \A j \in 1 .. Size(map) : data[j].key = map.data[j].key
    <2> TAKE j \in 1 .. Size(map)
    <2>1. CASE j = i
        <3>1. data[j] = e
            <4> HIDE DEF e, i
            <4> QED BY <2>1, <1>1, TableFields
        <3> QED BY <2>1, <3>1, <1>1
    <2>2. CASE j # i
        <3>1. data[j] = map.data[j]
            <4> HIDE DEF e, i
            <4> QED BY <2>2, <1>1, TableFields
        <3> QED BY <3>1
    <2> QED BY <2>1, <2>2
<1>8. new \in TableOf(V) /\ Capacity(new) = Capacity(map) /\ Size(new) = Size(map)
    <2> HIDE DEF data, new
    <2> QED BY <1>4, <1>6, TableFields DEF TableOf, Capacity, Size
<1>9. ASSUME NEW k \in MapKeys
      PROVE  Stops(new, k) = Stops(map, k)
    <2>0. \A at \in 0 .. Size(map) :
             (at = 0 \/ data[at].key = k) <=> (at = 0 \/ map.data[at].key = k)
        <3> HIDE DEF data
        <3> QED BY <1>7, TableFields
    <2>1. ASSUME NEW s \in 0 .. Capacity(map) - 1
          PROVE  map.idx[Place(Capacity(map), k, s) + 1] \in 0 .. Size(map)
        BY StepIn DEF Sound
    <2> HIDE DEF data, new
    <2>2. new.idx = map.idx /\ new.data = data
        BY <1>4
    <2> QED BY <1>8, <2>0, <2>1, <2>2 DEF Stops
<1>10. ASSUME NEW k \in MapKeys
       PROVE  Stops(new, k) # {} /\ Slot(new, k) = Slot(map, k)
    <2>1. Stops(map, k) # {}
        BY DEF Sound
    <2> HIDE DEF new
    <2> QED BY <1>8, <1>9, <2>1, SameProbe, TableFields
<1>11. \A j \in 1 .. Size(map) : map.data[j].key \in MapKeys
    BY TableFields DEF EntryOf
<1>12. Sound(new)
    <2>1. new.idx = map.idx /\ new.data = data
        BY <1>4
    <2> HIDE DEF new, data
    <2> QED BY <1>7, <1>8, <1>10, <1>11, <2>1 DEF Sound
<1>13. Puts(map.data, key, val, new.data)
    <2>1. new.data = data
        <3> HIDE DEF new, data
        <3> QED BY <1>4
    <2> HIDE DEF new
    <2> QED BY <1>1, <2>1 DEF Puts, Size
<1> QED
    BY <1>8, <1>12, <1>13

(* The key is new: an entry for it comes last, and every other entry is     *)
(* found where it was, since the place was free.                            *)
LEMMA AssignNew ==
    ASSUME NEW V, NEW map \in TableOf(V), Sound(map), Capacity(map) > 0, Probed(Capacity(map)),
           (Size(map) + 1) * Load <= Capacity(map),
           NEW key \in MapKeys, NEW val \in V, map.idx[Slot(map, key)] = 0
    PROVE  LET new == Assign(map, key, val) IN
           /\ new \in TableOf(V) /\ Sound(new) /\ Capacity(new) = Capacity(map)
           /\ Puts(map.data, key, val, new.data)
<1> DEFINE at == Slot(map, key)
           e == [key |-> key, val |-> val]
           n == Size(map) + 1
           idx == [map.idx EXCEPT ![at] = n]
           data == Append(map.data, e)
           new == Assign(map, key, val)
<1>1. at \in 1 .. Capacity(map) /\ \A i \in 1 .. Size(map) : map.data[i].key # key
    BY SlotFacts
<1>2. Size(map) \in Nat /\ n \in Nat /\ Capacity(map) \in Nat
    BY TableFields
<1>3. e \in EntryOf(V)
    BY DEF EntryOf
<1>4. new = [idx |-> idx, data |-> data]
    <2>1. ~(map.idx[at] > 0)
        OBVIOUS
    <2> QED BY <2>1, AssignStep
<1>5. new.idx = idx /\ new.data = data
    <2> HIDE DEF idx, data, new
    <2> QED BY <1>4
<1>6. /\ idx \in Seq(Nat) /\ Len(idx) = Capacity(map) /\ idx[at] = n
      /\ \A i \in 1 .. Capacity(map) : i # at => idx[i] = map.idx[i]
    <2> HIDE DEF at, n
    <2> QED BY <1>1, <1>2, TableFields
<1>7. /\ data \in Seq(EntryOf(V)) /\ Len(data) = n /\ data[n] = e
      /\ \A i \in 1 .. Size(map) : data[i] = map.data[i]
    <2> HIDE DEF e
    <2> QED BY <1>3, TableFields
<1>8. new \in TableOf(V) /\ Capacity(new) = Capacity(map) /\ Size(new) = n
    <2> HIDE DEF idx, data, new, n
    <2> QED BY <1>4, <1>6, <1>7 DEF TableOf, Capacity, Size
<1>9. data[n].key = key /\ \A i \in 1 .. Size(map) : data[i].key = map.data[i].key
    <2> HIDE DEF data
    <2> QED BY <1>7
<1>10. \A i \in 1 .. Capacity(map) : map.idx[i] \in 0 .. Size(map)
    BY DEF Sound
<1> HIDE DEF idx, data, new, at, n
(* A step at which the probe for k stops.                                   *)
<1> DEFINE Held(k, s) == map.idx[Place(Capacity(map), k, s) + 1]
           Holds(k, s) == idx[Place(Capacity(map), k, s) + 1]
<1>11. ASSUME NEW k \in MapKeys
       PROVE  /\ Stops(map, k) = {s \in 0 .. Capacity(map) - 1 :
                                     Held(k, s) = 0 \/ map.data[Held(k, s)].key = k}
              /\ Stops(new, k) = {s \in 0 .. Capacity(map) - 1 :
                                     Holds(k, s) = 0 \/ data[Holds(k, s)].key = k}
    BY <1>5, <1>8 DEF Stops
<1>12. ASSUME NEW k \in MapKeys, NEW s \in 0 .. Capacity(map) - 1
       PROVE  /\ Held(k, s) \in 0 .. Size(map)
              /\ Place(Capacity(map), k, s) + 1 = at => Held(k, s) = 0 /\ Holds(k, s) = n
              /\ Place(Capacity(map), k, s) + 1 # at => Holds(k, s) = Held(k, s)
    BY StepIn, <1>6, <1>10 DEF at
<1> HIDE DEF Held, Holds
<1>13. ASSUME NEW k \in MapKeys, NEW s \in Stops(new, k)
       PROVE  s \in Stops(map, k)
    <2>1. s \in 0 .. Capacity(map) - 1
        BY <1>11
    <2>2. CASE Place(Capacity(map), k, s) + 1 = at
        BY <2>1, <2>2, <1>11, <1>12
    <2>3. CASE Place(Capacity(map), k, s) + 1 # at
        <3>1. Holds(k, s) = Held(k, s) /\ Held(k, s) \in 0 .. Size(map)
            BY <2>1, <2>3, <1>12
        <3>2. Holds(k, s) = 0 \/ data[Holds(k, s)].key = k
            BY <1>11
        <3>3. Held(k, s) = 0 \/ Held(k, s) \in 1 .. Size(map)
            BY <1>2, <3>1
        <3>4. Held(k, s) = 0 \/ map.data[Held(k, s)].key = k
            BY <1>9, <3>1, <3>2, <3>3
        <3> QED BY <2>1, <3>4, <1>11
    <2> QED BY <2>2, <2>3
<1>14. ASSUME NEW k \in MapKeys, NEW s \in Stops(map, k), k = key \/ Held(k, s) # 0
       PROVE  s \in Stops(new, k)
    <2>1. s \in 0 .. Capacity(map) - 1
        BY <1>11
    <2>2. CASE Place(Capacity(map), k, s) + 1 = at
        <3>1. Holds(k, s) = n /\ k = key
            BY <2>1, <2>2, <1>12, <1>14
        <3> QED BY <3>1, <1>9, <1>11, <2>1
    <2>3. CASE Place(Capacity(map), k, s) + 1 # at
        <3>1. Holds(k, s) = Held(k, s) /\ Held(k, s) \in 0 .. Size(map)
            BY <2>1, <2>3, <1>12
        <3>2. Held(k, s) = 0 \/ map.data[Held(k, s)].key = k
            BY <1>11
        <3>3. Held(k, s) = 0 \/ Held(k, s) \in 1 .. Size(map)
            BY <1>2, <3>1
        <3>4. Holds(k, s) = 0 \/ data[Holds(k, s)].key = k
            BY <1>9, <3>1, <3>2, <3>3
        <3> QED BY <2>1, <3>4, <1>11
    <2> QED BY <2>2, <2>3
<1>15. ASSUME NEW k \in MapKeys, k = key \/ map.idx[Slot(map, k)] # 0
       PROVE  Stops(new, k) # {} /\ Slot(new, k) = Slot(map, k)
    <2>1. PICK m \in Stops(map, k) : \A j \in Stops(map, k) : m <= j
        <3>1. Stops(map, k) # {}
            BY DEF Sound
        <3> QED BY <1>2, <3>1, FirstStop
    <2>2. Slot(map, k) = Place(Capacity(map), k, m) + 1
        BY <1>2, <2>1, SlotAt
    <2>3. m \in Stops(new, k)
        BY <1>14, <1>15, <2>2 DEF Held
    <2>4. \A j \in Stops(new, k) : m <= j
        BY <1>13, <2>1
    <2>5. Slot(new, k) = Place(Capacity(new), k, m) + 1
        BY <1>2, <1>8, <2>3, <2>4, SlotAt
    <2> QED BY <1>8, <2>2, <2>3, <2>5
<1>16. \A i \in 1 .. n : /\ Stops(new, data[i].key) # {}
                         /\ idx[Slot(new, data[i].key)] = i
    <2> TAKE i \in 1 .. n
    <2>1. CASE i = n
        BY <1>6, <1>9, <1>15, <2>1 DEF at
    <2>2. CASE i # n
        <3>1. i \in 1 .. Size(map)
            BY <1>2, <2>2 DEF n
        <3> DEFINE k == map.data[i].key
        <3>2. k \in MapKeys /\ data[i].key = k
            BY <1>9, <3>1, TableFields DEF EntryOf
        <3>3. map.idx[Slot(map, k)] = i
            BY <3>1 DEF Sound
        <3>4. Stops(new, k) # {} /\ Slot(new, k) = Slot(map, k)
            <4> HIDE DEF k
            <4> QED BY <1>15, <3>1, <3>2, <3>3
        <3>5. Slot(map, k) # at
            <4> HIDE DEF k
            <4> QED BY <3>1, <3>3 DEF at
        <3>6. Slot(map, k) \in 1 .. Capacity(map)
            <4> HIDE DEF k
            <4> QED BY <3>2, SlotFacts
        <3> HIDE DEF k
        <3> QED BY <1>6, <3>2, <3>3, <3>4, <3>5, <3>6
    <2> QED BY <2>1, <2>2
<1>17. \A i, j \in 1 .. n : data[i].key = data[j].key => i = j
    <2> TAKE i, j \in 1 .. n
    <2>1. CASE i = n
        BY <1>1, <1>2, <1>9, <2>1 DEF n
    <2>2. CASE j = n
        BY <1>1, <1>2, <1>9, <2>2 DEF n
    <2>3. CASE i # n /\ j # n
        <3>1. i \in 1 .. Size(map) /\ j \in 1 .. Size(map)
            BY <1>2, <2>3 DEF n
        <3> QED BY <1>9, <3>1 DEF Sound
    <2> QED BY <2>1, <2>2, <2>3
<1>18. \A i \in 1 .. Capacity(map) : idx[i] \in 0 .. n
    BY <1>2, <1>6, <1>10 DEF n
<1>19. Cardinality({i \in 1 .. Capacity(map) : idx[i] # 0}) = n
    <2> DEFINE old == {i \in 1 .. Capacity(map) : map.idx[i] # 0}
    <2>1. {i \in 1 .. Capacity(map) : idx[i] # 0} = old \cup {at}
        BY <1>1, <1>2, <1>6 DEF n
    <2>2. at \notin old
        BY DEF at
    <2>3. IsFiniteSet(old) /\ Cardinality(old) = Size(map)
        <3>1. IsFiniteSet(1 .. Capacity(map))
            BY <1>2, FS_Interval
        <3>2. IsFiniteSet(old)
            BY <3>1, FS_Subset
        <3> QED BY <3>2 DEF Sound
    <2>4. Cardinality(old \cup {at}) = Cardinality(old) + 1
        <3> HIDE DEF old
        <3> QED BY <2>2, <2>3, FS_AddElement
    <2> HIDE DEF old
    <2> QED BY <2>1, <2>3, <2>4 DEF n
(* A place is still free, and every probe comes by it.                      *)
<1>20. ASSUME NEW k \in MapKeys
       PROVE  Stops(new, k) # {}
    <2>1. n < Capacity(map)
        <3>1. n * Load >= 2 * n
            <4>1. PICK l \in Nat : l = Load /\ l >= 2
                BY MapAssumption
            <4> QED BY <1>2, <4>1
        <3>2. n * Load \in Nat /\ n >= 1
            BY <1>2, MapAssumption DEF n
        <3> QED BY <1>2, <3>1, <3>2 DEF n
    <2>2. \E i \in 1 .. Capacity(map) : idx[i] = 0
        <3> SUFFICES ASSUME \A i \in 1 .. Capacity(map) : idx[i] # 0
                     PROVE  FALSE
            OBVIOUS
        <3>1. {i \in 1 .. Capacity(map) : idx[i] # 0} = 1 .. Capacity(map)
            OBVIOUS
        <3>2. Cardinality(1 .. Capacity(map)) = Capacity(map)
            <4>1. PICK c \in Nat : c = Capacity(map)
                BY <1>2
            <4>2. Cardinality(1 .. c) = IF 1 > c THEN 0 ELSE c - 1 + 1
                BY FS_Interval
            <4>3. Cardinality(1 .. c) = c
                BY <4>2
            <4> QED BY <4>1, <4>3
        <3>3. n = Capacity(map)
            BY <1>19, <3>1, <3>2
        <3> QED BY <2>1, <3>3, <1>2
    <2>3. PICK i \in 1 .. Capacity(map) : idx[i] = 0
        BY <2>2
    <2>4. i - 1 \in 0 .. Capacity(map) - 1
        BY <1>2
    <2>5. PICK s \in 0 .. Capacity(map) - 1 : Place(Capacity(map), k, s) = i - 1
        BY <2>4 DEF Probed
    <2>6. Holds(k, s) = 0
        BY <2>3, <2>5 DEF Holds
    <2> QED BY <1>11, <2>6
<1>21. Sound(new)
    BY <1>5, <1>8, <1>16, <1>17, <1>18, <1>19, <1>20 DEF Sound, n
<1>22. Puts(map.data, key, val, new.data)
    BY <1>1, <1>5 DEF Puts, data, Size
<1> QED
    BY <1>8, <1>21, <1>22 DEF new

LEMMA AssignTyped ==
    ASSUME NEW V, NEW map \in TableOf(V), NEW key \in MapKeys, NEW val \in V
    PROVE  Assign(map, key, val) \in TableOf(V)
<1> DEFINE at == Slot(map, key)
           i == map.idx[at]
<1>1. map.idx \in Seq(Nat) /\ map.data \in Seq(EntryOf(V))
    BY DEF TableOf
<1>2. CASE i > 0
    <2> DEFINE new == [map.data[i] EXCEPT !.val = val]
               data == [map.data EXCEPT ![i] = new]
    <2>1. data \in Seq(EntryOf(V))
        <3>1. CASE i \in 1 .. Len(map.data)
            <4>1. map.data[i] \in EntryOf(V)
                BY <1>1, <3>1
            <4>2. new \in EntryOf(V)
                BY <4>1 DEF EntryOf
            <4> HIDE DEF new, i
            <4> QED
                BY <1>1, <3>1, <4>2
        <3>2. CASE i \notin 1 .. Len(map.data)
            <4> HIDE DEF new, i
            <4>1. data = map.data
                BY <1>1, <3>2
            <4> QED
                BY <1>1, <4>1
        <3> QED
            BY <3>1, <3>2
    <2>2. Assign(map, key, val) = [map EXCEPT !.data = data]
        BY <1>2, AssignStep
    <2> HIDE DEF data
    <2> QED
        BY <2>1, <2>2 DEF TableOf
<1>3. CASE ~(i > 0)
    <2>1. Size(map) + 1 \in Nat
        BY <1>1 DEF Size
    <2>2. [map.idx EXCEPT ![at] = Size(map) + 1] \in Seq(Nat)
        <3> HIDE DEF at
        <3>1. CASE at \in 1 .. Len(map.idx)
            BY <1>1, <2>1, <3>1
        <3>2. CASE at \notin 1 .. Len(map.idx)
            <4>1. [map.idx EXCEPT ![at] = Size(map) + 1] = map.idx
                BY <1>1, <3>2
            <4> QED
                BY <1>1, <4>1
        <3> QED
            BY <3>1, <3>2
    <2>3. Append(map.data, [key |-> key, val |-> val]) \in Seq(EntryOf(V))
        BY <1>1 DEF EntryOf
    <2> QED
        BY <1>3, <2>2, <2>3, AssignStep DEF TableOf
<1> QED
    BY <1>2, <1>3

-----------------------------------------------------------------------------
(* Growing.                                                                *)

Blank(cap) == [idx |-> [i \in 1 .. cap |-> 0], data |-> <<>>]

(* resize() enters one entry of the old table after the other.              *)
LEMMA ResizeFold ==
    ASSUME NEW V, NEW map \in TableOf(V), NEW n \in Nat, Capacity(map) < n * Spread
    PROVE  \E h : /\ h[0] = Blank(n * Spread) /\ h[Size(map)] = Resize(map, n)
                  /\ \A j \in 0 .. Size(map) - 1 :
                        h[j + 1] = Assign(h[j], map.data[j + 1].key, map.data[j + 1].val)
<1> DEFINE base == [idx |-> [i \in 1 .. n * Spread |-> 0], data |-> <<>>]
           seq == map.data
           A == TableOf(V)
           B == EntryOf(V)
           Op(t, e) == Assign(t, e.key, e.val)
           G == [x \in A \X B |-> Op(x[1], x[2])]
           L == Len(seq)
           Rec(f) == [s \in SUBSET DOMAIN seq |->
                         IF s = {} THEN base ELSE Op(f[s \ {Max(s)}], seq[Max(s)])]
           it == CHOOSE f : f = Rec(f)
           h == [j \in 0 .. L |-> it[1 .. j]]
<1>1. seq \in Seq(B) /\ DOMAIN seq = 1 .. L /\ L = Size(map) /\ L \in Nat
    BY TableFields
<1>2. base \in A
    <2>1. n * Spread \in Nat
        BY MapAssumption
    <2> QED BY <2>1 DEF TableOf
<1>3. \A t \in A, e \in B : Op(t, e) \in A
    BY AssignTyped DEF EntryOf
<1>4. Resize(map, n) = it[DOMAIN seq]
    <2>1. ~(Capacity(map) >= n * Spread)
        BY TableFields, MapAssumption
    <2> QED BY <2>1 DEF Resize, FoldLeft, MapThenFoldSet
<1> HIDE DEF Op, A, B, base, seq
<1>5. G \in [A \X B -> A]
    BY <1>3
<1>6. PICK f : Folds(f, A, G, base, seq)
    <2> HIDE DEF G
    <2> QED BY <1>1, <1>2, <1>5, FoldExists
<1>7. f = Rec(f)
    <2>1. f \in [SUBSET (1 .. L) -> A] /\ f[{}] = base
        BY <1>6 DEF Folds
    <2>2. ASSUME NEW s \in SUBSET (1 .. L), s # {}
          PROVE  f[s] = Op(f[s \ {Max(s)}], seq[Max(s)])
        <3>1. /\ f[s] = G[<<f[s \ {Max(s)}], seq[Max(s)]>>]
              /\ f[s \ {Max(s)}] \in A /\ seq[Max(s)] \in B
            <4> HIDE DEF G
            <4> QED BY <1>1, <1>6, <2>2, FoldStep
        <3> QED BY <3>1
    <2> HIDE DEF G
    <2> QED BY <1>1, <2>1, <2>2
<1>8. it = Rec(it)
    <2> HIDE DEF Rec
    <2> QED BY <1>7
<1> HIDE DEF it, L
<1>9. ASSUME NEW j \in 0 .. L - 1
      PROVE  h[j + 1] = Op(h[j], seq[j + 1])
    <2>1. /\ (1 .. j + 1) \in SUBSET DOMAIN seq /\ 1 .. j + 1 # {}
          /\ Max(1 .. j + 1) = j + 1 /\ (1 .. j + 1) \ {j + 1} = 1 .. j
        BY <1>1, PrefixStep
    <2>2. \A s \in SUBSET DOMAIN seq : s # {} => it[s] = Op(it[s \ {Max(s)}], seq[Max(s)])
        BY <1>8
    <2>3. j \in 0 .. L /\ j + 1 \in 0 .. L
        BY <1>1
    <2> QED BY <2>1, <2>2, <2>3
<1>10. h[0] = base /\ h[L] = it[DOMAIN seq]
    <2>1. 1 .. 0 = {} /\ 0 \in 0 .. L /\ L \in 0 .. L
        BY <1>1
    <2>2. it[{}] = base
        BY <1>8
    <2> QED BY <1>1, <2>1, <2>2
<1> HIDE DEF h
<1> QED
    BY <1>1, <1>4, <1>9, <1>10 DEF Op, seq, base, Blank

LEMMA BlankTable ==
    ASSUME NEW V, NEW cap \in Nat
    PROVE  LET new == Blank(cap) IN
           /\ new \in TableOf(V) /\ Sound(new) /\ Capacity(new) = cap /\ new.data = <<>>
<1> DEFINE new == Blank(cap)
<1>1. new.data = <<>> /\ new.idx = [i \in 1 .. cap |-> 0]
    BY DEF Blank
<1>2. new \in TableOf(V)
    BY DEF Blank, TableOf
<1>3. Capacity(new) = cap /\ Size(new) = 0
    BY <1>1 DEF Capacity, Size
<1>4. ASSUME NEW key \in MapKeys, cap > 0
      PROVE  0 \in Stops(new, key)
    <2>1. Place(cap, key, 0) + 1 \in 1 .. cap
        <3> HIDE DEF new
        <3> QED BY <1>2, <1>3, <1>4, StepIn
    <2>2. new.idx[Place(cap, key, 0) + 1] = 0
        <3> HIDE DEF new
        <3> QED BY <1>1, <2>1
    <2> HIDE DEF new
    <2> QED BY <1>3, <1>4, <2>2 DEF Stops
<1>5. {i \in 1 .. cap : new.idx[i] # 0} = {}
    <2> HIDE DEF new
    <2> QED BY <1>1
<1>6. 0 * Load <= cap /\ \A i \in 1 .. cap : new.idx[i] \in 0 .. 0
    <2>1. Load \in Nat
        BY MapAssumption
    <2> HIDE DEF new
    <2> QED BY <1>1, <2>1
<1>7. Cardinality({i \in 1 .. cap : new.idx[i] # 0}) = 0
    <2> HIDE DEF new
    <2> QED BY <1>5, FS_EmptySet
<1>8. Sound(new)
    <2> HIDE DEF new
    <2>1. \A key \in MapKeys : cap > 0 => Stops(new, key) # {}
        BY <1>4
    <2>2. 1 .. Size(new) = {}
        BY <1>3
    <2> QED BY <1>3, <1>6, <1>7, <2>1, <2>2 DEF Sound
<1> QED
    BY <1>1, <1>2, <1>3, <1>8

LEMMA EmptyTable ==
    ASSUME NEW V
    PROVE  EmptyMap \in TableOf(V) /\ Sound(EmptyMap) /\ Sized(EmptyMap) /\ EmptyMap.data = <<>>
<1>1. EmptyMap = Blank(0)
    <2>1. [i \in 1 .. 0 |-> 0] = <<>>
        OBVIOUS
    <2> QED BY <2>1 DEF EmptyMap, Blank
<1>2. Capacity(EmptyMap) = 0 * Spread
    <2>1. 0 * Spread = 0
        BY MapAssumption
    <2> QED BY <2>1, <1>1, BlankTable
<1> QED
    BY <1>1, <1>2, BlankTable, ProbeAssumption DEF Sized

(* An assignment to a table that has room.                                  *)
LEMMA AssignKeeps ==
    ASSUME NEW V, NEW map \in TableOf(V), Sound(map), Sized(map),
           (Size(map) + 1) * Load <= Capacity(map), NEW key \in MapKeys, NEW val \in V
    PROVE  LET new == Assign(map, key, val) IN
           /\ new \in TableOf(V) /\ Sound(new) /\ Sized(new) /\ Capacity(new) = Capacity(map)
           /\ Puts(map.data, key, val, new.data)
<1>1. Probed(Capacity(map))
    BY ProbeAssumption DEF Sized, Probed
<1>2. Capacity(map) > 0
    <2>1. PICK l \in Nat : l = Load /\ l > 0
        BY MapAssumption
    <2>2. PICK s \in Nat : s = Size(map)
        BY TableFields
    <2>3. (s + 1) * l > 0
        BY <2>1
    <2> QED BY <2>1, <2>2, <2>3, TableFields
<1>3. CASE map.idx[Slot(map, key)] # 0
    BY <1>2, <1>3, AssignOld DEF Sized
<1>4. CASE map.idx[Slot(map, key)] = 0
    BY <1>1, <1>2, <1>4, AssignNew DEF Sized
<1> QED
    BY <1>3, <1>4

(* The entries come over in their order.                                    *)
LEMMA ResizeKeeps ==
    ASSUME NEW V, NEW map \in TableOf(V), Sound(map), Sized(map), NEW n \in Targets,
           Size(map) * Load <= n * Spread
    PROVE  LET new == Resize(map, n) IN
           /\ new \in TableOf(V) /\ Sound(new) /\ Sized(new) /\ new.data = map.data
           /\ Capacity(new) >= n * Spread
<1>0. n \in Nat /\ Spread \in Nat /\ Load \in Nat /\ n * Spread \in Nat
    BY ProbeAssumption, MapAssumption
<1>1. CASE Capacity(map) >= n * Spread
    BY <1>1 DEF Resize
<1>2. CASE Capacity(map) < n * Spread
    <2>1. PICK h : /\ h[0] = Blank(n * Spread) /\ h[Size(map)] = Resize(map, n)
                   /\ \A j \in 0 .. Size(map) - 1 :
                         h[j + 1] = Assign(h[j], map.data[j + 1].key, map.data[j + 1].val)
        BY <1>0, <1>2, ResizeFold
    <2> DEFINE d == map.data
               Good(j) == /\ h[j] \in TableOf(V) /\ Sound(h[j]) /\ Capacity(h[j]) = n * Spread
                          /\ h[j].data = SubSeq(d, 1, j)
               Has == {j \in Nat : j <= Size(map) => Good(j)}
    <2>2. d \in Seq(EntryOf(V)) /\ Len(d) = Size(map) /\ Size(map) \in Nat
        BY TableFields
    <2>3. 0 \in Has
        <3>1. SubSeq(d, 1, 0) = <<>>
            BY <2>2
        <3> QED BY <1>0, <2>1, <3>1, BlankTable
    <2>4. ASSUME NEW j \in Has
          PROVE  j + 1 \in Has
        <3> SUFFICES ASSUME j + 1 <= Size(map)
                     PROVE  Good(j + 1)
            <4> HIDE DEF Good
            <4> QED OBVIOUS
        <3>1. j \in 0 .. Size(map) - 1 /\ j \in Nat
            BY <2>2
        <3>2. Good(j)
            <4> HIDE DEF Good
            <4> QED BY <2>2, <3>1
        <3> DEFINE e == d[j + 1]
        <3>3. e \in EntryOf(V) /\ e.key \in MapKeys /\ e.val \in V
            <4>1. e \in EntryOf(V)
                BY <2>2, <3>1
            <4> HIDE DEF e
            <4> QED BY <4>1 DEF EntryOf
        <3>4. h[j + 1] = Assign(h[j], e.key, e.val)
            BY <2>1, <3>1
        <3>5. Size(h[j]) = j
            BY <2>2, <3>1, <3>2 DEF Size
        <3>6. (Size(h[j]) + 1) * Load <= Capacity(h[j])
            <4>1. PICK s \in Nat, l \in Nat : s = Size(map) /\ l = Load
                BY <1>0, <2>2
            <4>0. PICK t \in Nat : s = j + 1 + t
                <5>1. s - (j + 1) \in Nat /\ s = j + 1 + (s - (j + 1))
                    BY <3>1, <4>1, <2>2
                <5> QED BY <5>1
            <4>2. (j + 1) * l <= s * l
                <5>1. s * l = (j + 1) * l + t * l /\ t * l \in Nat /\ (j + 1) * l \in Nat
                    BY <3>1, <4>0
                <5> QED BY <5>1
            <4>3. (j + 1) * l \in Nat /\ s * l \in Nat
                BY <3>1, <4>1
            <4> QED BY <1>0, <3>2, <3>5, <4>1, <4>2, <4>3
        <3>7. Sized(h[j])
            BY <3>2 DEF Sized
        <3>8. /\ h[j + 1] \in TableOf(V) /\ Sound(h[j + 1]) /\ Capacity(h[j + 1]) = n * Spread
              /\ Puts(h[j].data, e.key, e.val, h[j + 1].data)
            <4> DEFINE t == h[j]
            <4>1. t \in TableOf(V) /\ Sound(t) /\ Sized(t) /\ (Size(t) + 1) * Load <= Capacity(t)
                BY <3>2, <3>6, <3>7
            <4> HIDE DEF e, t
            <4>2. LET new == Assign(t, e.key, e.val) IN
                  /\ new \in TableOf(V) /\ Sound(new) /\ Sized(new) /\ Capacity(new) = Capacity(t)
                  /\ Puts(t.data, e.key, e.val, new.data)
                BY <3>3, <4>1, AssignKeeps
            <4> QED BY <3>2, <3>4, <4>2 DEF t
        <3>9. \A i \in 1 .. j : SubSeq(d, 1, j)[i].key # e.key
            <4> TAKE i \in 1 .. j
            <4>1. SubSeq(d, 1, j)[i] = d[i]
                BY <2>2, <3>1
            <4>2. i \in 1 .. Size(map) /\ j + 1 \in 1 .. Size(map) /\ i # j + 1
                BY <2>2, <3>1
            <4> QED BY <4>1, <4>2 DEF Sound
        <3>10. h[j + 1].data = Append(SubSeq(d, 1, j), [key |-> e.key, val |-> e.val])
            <4>1. Len(SubSeq(d, 1, j)) = j
                BY <2>2, <3>1
            <4> HIDE DEF e, d
            <4> QED BY <3>2, <3>8, <3>9, <4>1 DEF Puts
        <3>11. [key |-> e.key, val |-> e.val] = e
            <4> HIDE DEF e
            <4> QED BY <3>3 DEF EntryOf
        <3>12. Append(SubSeq(d, 1, j), e) = SubSeq(d, 1, j + 1)
            BY <2>2, <3>1
        <3> QED BY <3>8, <3>10, <3>11, <3>12
    <2>5. Has = Nat
        <3>1. Has \in SUBSET Nat
            OBVIOUS
        <3> HIDE DEF Has
        <3> QED BY <2>3, <2>4, <3>1, NatSetInduction
    <2>6. Good(Size(map))
        <3> HIDE DEF Good
        <3> QED BY <2>2, <2>5
    <2>7. SubSeq(d, 1, Size(map)) = d
        BY <2>2
    <2> QED BY <1>0, <2>1, <2>6, <2>7 DEF Sized
<1> QED
    BY <1>0, <1>1, <1>2, TableFields

LEMMA Division ==
    ASSUME NEW c \in Nat, NEW l \in Nat \ {0}
    PROVE  /\ c \div l \in Nat
           /\ (c \div l) * l <= c
           /\ c < (c \div l + 1) * l
    OBVIOUS

(* There are no more entries than keys.                                     *)
LEMMA FewEntries ==
    ASSUME NEW V, NEW map \in TableOf(V), Sound(map)
    PROVE  Size(map) <= Cardinality(MapKeys) /\ Cardinality(MapKeys) \in Nat
<1> DEFINE f == [i \in 1 .. Size(map) |-> map.data[i].key]
<1>1. f \in [1 .. Size(map) -> MapKeys]
    BY TableFields DEF EntryOf
<1>2. f \in Injection(1 .. Size(map), MapKeys)
    <2>1. \A i, j \in 1 .. Size(map) : f[i] = f[j] => i = j
        BY DEF Sound
    <2> HIDE DEF f
    <2> QED BY <1>1, <2>1 DEF Injection, IsInjective
<1>3. IsFiniteSet(MapKeys)
    BY MapAssumption
<1>4. Cardinality(1 .. Size(map)) <= Cardinality(MapKeys)
    <2> HIDE DEF f
    <2> QED BY <1>2, <1>3, FS_Injection
<1>5. PICK s \in Nat : s = Size(map)
    BY TableFields
<1>6. Cardinality(1 .. s) = s
    <2>1. Cardinality(1 .. s) = IF 1 > s THEN 0 ELSE s - 1 + 1
        BY FS_Interval
    <2> QED BY <2>1
<1> QED
    BY <1>3, <1>4, <1>5, <1>6, FS_CardinalityType

(* A table that grows has room for one more entry.                          *)
LEMMA GrownKeeps ==
    ASSUME NEW V, NEW map \in TableOf(V), Sound(map), Sized(map)
    PROVE  LET new == Grown(map) IN
           /\ new \in TableOf(V) /\ Sound(new) /\ Sized(new) /\ new.data = map.data
           /\ (Size(new) + 1) * Load <= Capacity(new) /\ Capacity(new) > 0
<1> DEFINE new == Grown(map)
<1>1. new = IF Size(map) + 1 > Capacity(map) \div Load THEN Resize(map, Size(map) + Spare) ELSE map
    BY DEF Grown, With
<1>2. PICK s \in Nat, c \in Nat, l \in Nat : s = Size(map) /\ c = Capacity(map) /\ l = Load /\ l > 1
    BY TableFields, MapAssumption
<1>3. c \div l \in Nat /\ (c \div l) * l <= c /\ c < (c \div l + 1) * l
    BY <1>2, Division
<1>4. s * l <= c
    BY <1>2 DEF Sound
<1> SUFFICES /\ new \in TableOf(V) /\ Sound(new) /\ Sized(new) /\ new.data = map.data
             /\ (Size(new) + 1) * Load <= Capacity(new) /\ Capacity(new) > 0
    OBVIOUS
<1> HIDE DEF new
<1>5. CASE s + 1 <= c \div l
    <2>1. new = map
        BY <1>1, <1>2, <1>3, <1>5
    <2>2. (s + 1) * l <= (c \div l) * l
        <3>1. PICK q \in Nat, t \in Nat : q = c \div l /\ q = s + 1 + t
            <4>1. c \div l - (s + 1) \in Nat
                BY <1>3, <1>5
            <4> QED BY <1>3, <4>1
        <3>2. q * l = (s + 1) * l + t * l /\ t * l \in Nat /\ (s + 1) * l \in Nat
            BY <1>2, <3>1
        <3> QED BY <3>1, <3>2
    <2>3. (s + 1) * l > 0 /\ (s + 1) * l \in Nat /\ (c \div l) * l \in Nat
        BY <1>2, <1>3
    <2>4. (s + 1) * l <= c /\ c > 0
        <3>1. PICK x \in Nat, y \in Nat : x = (s + 1) * l /\ y = (c \div l) * l
            BY <2>3
        <3>2. x <= y /\ y <= c /\ x > 0
            BY <1>3, <2>2, <2>3, <3>1
        <3> QED BY <1>2, <3>1, <3>2
    <2>5. (Size(new) + 1) * Load <= Capacity(new) /\ Capacity(new) > 0
        BY <1>2, <2>1, <2>4
    <2> QED BY <2>1, <2>5
<1>6. CASE s + 1 > c \div l
    <2>1. s = c \div l
        <3>1. PICK q \in Nat : q = c \div l
            BY <1>3
        <3>2. s * l < (q + 1) * l
            <4>1. s * l \in Nat /\ (q + 1) * l \in Nat
                BY <1>2, <3>1
            <4> QED BY <1>2, <1>3, <1>4, <3>1, <4>1
        <3>3. s < q + 1
            BY <1>2, <3>2
        <3> QED BY <1>2, <1>6, <3>1, <3>3
    <2>2. s + Spare \in Targets /\ s + Spare \in Nat
        <3>1. PICK n \in Targets : c = n * Spread
            BY <1>2 DEF Sized
        <3>2. s <= Cardinality(MapKeys)
            BY <1>2, FewEntries
        <3>3. s + Spare \in Targets
            BY <1>2, <2>1, <3>1, <3>2, ProbeAssumption
        <3> QED BY <3>3, ProbeAssumption
    <2>3. PICK r \in Nat, d \in Nat : r = Spread /\ d = Spare /\ r > l /\ d > 0
        BY <1>2, MapAssumption
    <2>4. /\ (s + 1) * l <= (s + d) * r /\ s * l <= (s + d) * r /\ (s + 1) * l > 0
          /\ (s + d) * r \in Nat /\ (s + 1) * l \in Nat
        <3>1. PICK x \in Nat, y \in Nat : d = 1 + x /\ r = l + y
            <4>1. d - 1 \in Nat /\ r - l \in Nat
                BY <1>2, <2>3
            <4> QED BY <4>1, <1>2, <2>3
        <3>2. (s + d) * r = (s + 1) * l + (s + d) * y + x * l
            BY <1>2, <3>1
        <3>3. (s + d) * y \in Nat /\ x * l \in Nat /\ (s + 1) * l = s * l + l /\ s * l \in Nat /\ (s + d) * r \in Nat
            BY <1>2, <2>3, <3>1
        <3>4. (s + 1) * l \in Nat /\ (s + 1) * l > 0
            BY <1>2, <3>3
        <3> QED BY <1>2, <3>2, <3>3, <3>4
    <2>5. new = Resize(map, s + d)
        BY <1>1, <1>2, <1>3, <1>6, <2>3
    <2>6. /\ new \in TableOf(V) /\ Sound(new) /\ Sized(new) /\ new.data = map.data
          /\ Capacity(new) >= (s + d) * r
        BY <1>2, <2>2, <2>3, <2>4, <2>5, ResizeKeeps
    <2>7. Size(new) = s /\ Capacity(new) \in Nat
        BY <1>2, <2>6, TableFields
    <2>8. (s + 1) * l <= Capacity(new) /\ Capacity(new) > 0
        <3>1. PICK x \in Nat, y \in Nat, z \in Nat : x = (s + 1) * l /\ y = (s + d) * r /\ z = Capacity(new)
            BY <2>4, <2>7
        <3>2. x <= y /\ y <= z /\ x > 0
            BY <2>4, <2>6, <3>1
        <3> QED BY <3>1, <3>2
    <2>9. (Size(new) + 1) * Load <= Capacity(new) /\ Capacity(new) > 0
        BY <1>2, <2>7, <2>8
    <2> QED BY <2>6, <2>9
<1> QED
    BY <1>2, <1>3, <1>5, <1>6

(* set() enters or replaces one entry, and keeps the table sound.           *)
THEOREM StoreKeepsTable ==
    ASSUME NEW V, NEW map \in TableOf(V), Sound(map), Sized(map), NEW key \in MapKeys, NEW val \in V
    PROVE  LET new == Store(map, key, val) IN
           /\ new \in TableOf(V) /\ Sound(new) /\ Sized(new)
           /\ Puts(map.data, key, val, new.data)
<1> DEFINE grown == Grown(map)
<1>1. /\ grown \in TableOf(V) /\ Sound(grown) /\ Sized(grown) /\ grown.data = map.data
      /\ (Size(grown) + 1) * Load <= Capacity(grown)
    BY GrownKeeps, Zenon
<1>2. Store(map, key, val) = Assign(grown, key, val)
    BY DEF Store
<1> HIDE DEF grown
<1> QED
    BY <1>1, <1>2, AssignKeeps

(* get() finds the value entered last for the key, if any.                  *)
THEOREM LookupFinds ==
    ASSUME NEW V, NEW map \in TableOf(V), Sound(map), Sized(map), NEW key \in MapKeys, NEW none
    PROVE  \/ \E i \in 1 .. Len(map.data) :
                 map.data[i].key = key /\ Lookup(map, key, none) = map.data[i].val
           \/ /\ \A i \in 1 .. Len(map.data) : map.data[i].key # key
              /\ Lookup(map, key, none) = none
<1> DEFINE grown == Grown(map)
           at == grown.idx[Slot(grown, key)]
<1>1. /\ grown \in TableOf(V) /\ Sound(grown) /\ Sized(grown) /\ grown.data = map.data
      /\ Capacity(grown) > 0
    BY GrownKeeps, Zenon
<1>2. Lookup(map, key, none) = IF Size(grown) = 0 \/ at = 0 THEN none ELSE grown.data[at].val
    BY DEF Lookup, With
<1> HIDE DEF grown
<1>3. /\ at \in 0 .. Size(grown)
      /\ at = 0 => \A i \in 1 .. Size(grown) : grown.data[i].key # key
      /\ at # 0 => grown.data[at].key = key
    BY <1>1, SlotFacts
<1>4. Size(grown) = Len(map.data) /\ Len(map.data) \in Nat
    BY <1>1, TableFields DEF Size
<1> HIDE DEF at
<1>5. CASE at = 0
    BY <1>1, <1>2, <1>3, <1>4, <1>5
<1>6. CASE at # 0
    <2>1. at \in 1 .. Len(map.data) /\ Size(grown) # 0
        BY <1>3, <1>4, <1>6
    <2> QED BY <1>1, <1>2, <1>3, <1>6, <2>1
<1> QED
    BY <1>5, <1>6
(* What get(key) finds is told by the entries alone.                        *)
LEMMA LookupSays ==
    ASSUME NEW V, NEW map \in TableOf(V), Sound(map), Sized(map), NEW key \in MapKeys, NEW none
    PROVE  /\ \A i \in 1 .. Len(map.data) :
                 map.data[i].key = key => Lookup(map, key, none) = map.data[i].val
           /\ (\A i \in 1 .. Len(map.data) : map.data[i].key # key) => Lookup(map, key, none) = none
<1>1. \A i, j \in 1 .. Len(map.data) : map.data[i].key = map.data[j].key => i = j
    BY DEF Sound, Size
<1>2. \/ \E i \in 1 .. Len(map.data) :
            map.data[i].key = key /\ Lookup(map, key, none) = map.data[i].val
      \/ /\ \A i \in 1 .. Len(map.data) : map.data[i].key # key
         /\ Lookup(map, key, none) = none
    BY LookupFinds
<1> QED
    BY <1>1, <1>2

(* set() changes what is found for its key only.                            *)
THEOREM StoreIsFound ==
    ASSUME NEW V, NEW map \in TableOf(V), Sound(map), Sized(map), NEW key \in MapKeys, NEW val \in V,
           NEW k \in MapKeys, NEW none
    PROVE  Lookup(Store(map, key, val), k, none) = IF k = key THEN val ELSE Lookup(map, k, none)
<1> DEFINE new == Store(map, key, val)
           d == map.data
           e == new.data
           put == [key |-> key, val |-> val]
<1>1. new \in TableOf(V) /\ Sound(new) /\ Sized(new) /\ Puts(d, key, val, e)
    BY StoreKeepsTable, Zenon
<1>2. /\ \A i \in 1 .. Len(e) : e[i].key = k => Lookup(new, k, none) = e[i].val
      /\ (\A i \in 1 .. Len(e) : e[i].key # k) => Lookup(new, k, none) = none
    <2> HIDE DEF new
    <2> QED BY <1>1, LookupSays
<1>3. /\ \A i \in 1 .. Len(d) : d[i].key = k => Lookup(map, k, none) = d[i].val
      /\ (\A i \in 1 .. Len(d) : d[i].key # k) => Lookup(map, k, none) = none
    BY LookupSays
<1>4. d \in Seq(EntryOf(V)) /\ Len(d) \in Nat
    BY TableFields
<1>5. put.key = key /\ put.val = val
    OBVIOUS
<1> HIDE DEF new, d, e, put
<1>6. CASE \E i \in 1 .. Len(d) : d[i].key = key /\ e = [d EXCEPT ![i] = put]
    <2>1. PICK i \in 1 .. Len(d) : d[i].key = key /\ e = [d EXCEPT ![i] = put]
        BY <1>6
    <2>2. Len(e) = Len(d) /\ \A j \in 1 .. Len(d) : e[j] = IF j = i THEN put ELSE d[j]
        BY <1>4, <2>1
    <2> QED
        BY <1>2, <1>3, <1>5, <2>1, <2>2 DEF new
<1>7. CASE (\A i \in 1 .. Len(d) : d[i].key # key) /\ e = Append(d, put)
    <2>1. /\ Len(e) = Len(d) + 1 /\ \A j \in 1 .. Len(d) : e[j] = d[j]
          /\ e[Len(d) + 1] = put
        BY <1>4, <1>7
    <2>2. Len(d) + 1 \in 1 .. Len(e) /\ \A j \in 1 .. Len(d) : j \in 1 .. Len(e)
        BY <1>4, <2>1
    <2>3. \A j \in 1 .. Len(e) : j \in 1 .. Len(d) \/ j = Len(d) + 1
        BY <1>4, <2>1
    <2>4. CASE k = key
        BY <1>2, <1>5, <2>1, <2>2, <2>4 DEF new
    <2>5. CASE k # key /\ \E j \in 1 .. Len(d) : d[j].key = k
        BY <1>2, <1>3, <2>1, <2>2, <2>5 DEF new
    <2>6. CASE k # key /\ \A j \in 1 .. Len(d) : d[j].key # k
        <3>1. \A j \in 1 .. Len(e) : e[j].key # k
            BY <1>5, <2>1, <2>3, <2>6
        <3> QED BY <1>2, <1>3, <2>6, <3>1 DEF new
    <2> QED BY <2>4, <2>5, <2>6
<1> QED
    BY <1>1, <1>6, <1>7 DEF Puts, put

(* get() finds the same before and after the table grows.                   *)
LEMMA GrownIsFound ==
    ASSUME NEW V, NEW map \in TableOf(V), Sound(map), Sized(map), NEW k \in MapKeys, NEW none
    PROVE  Lookup(Grown(map), k, none) = Lookup(map, k, none)
<1> DEFINE new == Grown(map)
<1>1. new \in TableOf(V) /\ Sound(new) /\ Sized(new) /\ new.data = map.data
    BY GrownKeeps, Zenon
<1> HIDE DEF new
<1>2. /\ \A i \in 1 .. Len(new.data) : new.data[i].key = k => Lookup(new, k, none) = new.data[i].val
      /\ (\A i \in 1 .. Len(new.data) : new.data[i].key # k) => Lookup(new, k, none) = none
    BY <1>1, LookupSays
<1>3. /\ \A i \in 1 .. Len(map.data) : map.data[i].key = k => Lookup(map, k, none) = map.data[i].val
      /\ (\A i \in 1 .. Len(map.data) : map.data[i].key # k) => Lookup(map, k, none) = none
    BY LookupSays
<1> QED
    BY <1>1, <1>2, <1>3 DEF new

(* Nothing is found in a table without entries, as one is after a reset.    *)
LEMMA NothingIsFound ==
    ASSUME NEW V, NEW map \in TableOf(V), Sound(map), Sized(map), map.data = <<>>,
           NEW k \in MapKeys, NEW none
    PROVE  Lookup(map, k, none) = none
    BY LookupSays

=============================================================================
