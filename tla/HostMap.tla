------------------------------ MODULE HostMap ------------------------------
(***************************************************************************)
(* The hash table `Map` of src/evm/host.hpp, which holds the storage caches *)
(* of the EVM process: open addressing over a table of 1-based indexes into *)
(* a vector of entries.  A table is the record [idx, data]: idx[i + 1] is   *)
(* m_indexes[i] (0 for a free place), data is m_data in insertion order.    *)
(*                                                                          *)
(* The sizes of the code are constants, so that a small table reaches its   *)
(* limits: Spare is the 100 of get(), Spread the 6 of resize(), Load the 4  *)
(* of get(), Step the probe distance 1051.                                  *)
(***************************************************************************)
EXTENDS Integers, FiniteSets, SequencesExt

CONSTANTS MapKeys, MapHash, Spare, Spread, Load, Step,
          Targets   \* the numbers of entries resize() is asked to make room for

ASSUME MapAssumption ==
    /\ IsFiniteSet(MapKeys) /\ MapHash \in [MapKeys -> Nat]
    /\ Spare \in Nat \ {0} /\ Spread \in Nat /\ Load \in Nat \ {0, 1} /\ Step \in Nat \ {0}
    /\ Spread > Load                    \* 6 * (n + 100) places hold n + 1 at a load of 1/4

\* The place the probe for key looks at in its i-th step.
Place(cap, key, i) == (MapHash[key] + i * Step) % cap

\* A table is asked to grow when its Load is reached, unless all keys are in it.
\* In a table of a size that is asked for, a probe comes by every place: 1051
\* divides none of the capacities 600, 1500, 2850, 4872 ... of a table that
\* starts empty.  Of the tables made for fewer than 100 entries only the one made
\* for 24 meets a multiple below two million entries, at 8308 of them.
ASSUME ProbeAssumption ==
    /\ 0 \in Targets /\ Targets \subseteq Nat
    /\ \A n \in Targets : (n * Spread) \div Load <= Cardinality(MapKeys) =>
          (n * Spread) \div Load + Spare \in Targets
    /\ \A n \in Targets, key \in MapKeys : \A p \in 0 .. n * Spread - 1 :
          \E i \in 0 .. n * Spread - 1 : Place(n * Spread, key, i) = p

EmptyMap == [idx |-> <<>>, data |-> <<>>]

Size(map) == Len(map.data)
Capacity(map) == Len(map.idx)

\* F of v, where TLC evaluates v once.
With(v, F(_)) == CHOOSE r \in {F(x) : x \in {v}} : TRUE

\* The steps at which the probe stops: a free place or the key's own entry.
Stops(map, key) ==
    {i \in 0 .. Capacity(map) - 1 :
        LET at == map.idx[Place(Capacity(map), key, i) + 1]
        IN at = 0 \/ map.data[at].key = key}

\* The place the `while` of get() ends at.
Slot(map, key) ==
    With(Stops(map, key), LAMBDA stops :
        Place(Capacity(map), key, CHOOSE i \in stops : \A j \in stops : i <= j) + 1)

\* get(key, true) in a table that is large enough, and the assignment to it:
\* push_back of an entry and the index that points at it, or a new value.
Assign(map, key, val) ==
    With(map, LAMBDA m : With(Slot(m, key), LAMBDA at :
        IF m.idx[at] > 0 THEN [m EXCEPT !.data[m.idx[at]].val = val]
        ELSE [idx  |-> [m.idx EXCEPT ![at] = Size(m) + 1],
              data |-> Append(m.data, [key |-> key, val |-> val])]))

\* resize(n): a table of Spread * n places, filled in the old order.
BadResize(map, n) ==
    IF Capacity(map) >= n * Spread THEN map
    ELSE [map EXCEPT !.idx = @ \o [i \in 1 .. n * Spread - Capacity(map) |-> 0]]
Resize(map, n) ==
    IF Capacity(map) >= n * Spread THEN map
    ELSE FoldLeft(LAMBDA table, entry : Assign(table, entry.key, entry.val),
                  [idx |-> [i \in 1 .. n * Spread |-> 0], data |-> <<>>],
                  map.data)

\* What get() does to the table before it probes.
Grown(map) ==
    With(map, LAMBDA m : IF Size(m) + 1 > Capacity(m) \div Load
                         THEN Resize(m, Size(m) + Spare) ELSE m)

\* get(key): the entry's value in the (possibly grown) table, none if absent.
Lookup(map, key, none) ==
    With(Grown(map), LAMBDA m : With(m.idx[Slot(m, key)], LAMBDA at :
        IF Size(m) = 0 \/ at = 0 THEN none ELSE m.data[at].val))

\* set(key, value), by way of ensure().
Store(map, key, val) == Assign(Grown(map), key, val)

\* list(): the entries in the order they were entered.
Entries(map) == map.data

----------------------------------------------------------------------------
\* A table is sound when every entry is reached from its key, no key is
\* entered twice, every index in use names one entry, and a place is free for
\* the next key: then a probe ends, and at the right entry.
Sound(map) ==
    /\ \A i \in 1 .. Size(map) :
          /\ Stops(map, map.data[i].key) # {}
          /\ map.idx[Slot(map, map.data[i].key)] = i
    /\ \A i, j \in 1 .. Size(map) : map.data[i].key = map.data[j].key => i = j
    /\ \A i \in 1 .. Capacity(map) : map.idx[i] \in 0 .. Size(map)
    /\ Cardinality({i \in 1 .. Capacity(map) : map.idx[i] # 0}) = Size(map)
    /\ \A key \in MapKeys : Capacity(map) > 0 => Stops(map, key) # {}
    /\ Size(map) * Load <= Capacity(map)
=============================================================================
