---------------------------- MODULE HashTableSpec ----------------------------
(***************************************************************************)
(* What the chained hash table of src/palacios/src/palacios/vmm_hashtable.c *)
(* promises its callers, with no buckets, sizes or allocation in sight: a  *)
(* finite map from keys to addr_t values. Every operation returns what    *)
(* the C function returns: -1 for success and 0 for failure, a value or 0 *)
(* (NULL) for search and remove, the number of keys for count. An insert  *)
(* may fail for lack of memory and then changes nothing.                  *)
(***************************************************************************)
EXTENDS Integers, FiniteSets

CONSTANTS
  Keys,       \* the keys callers use
  InValues,   \* values callers store
  Deltas,     \* amounts callers add or subtract
  ValueBits   \* width of addr_t

Absent == -1   \* no addr_t value is negative
Wrap(x) == x % 2^ValueBits

VARIABLES
  state,     \* "none" before create_hashtable succeeds, "live", "destroyed"
  contents,  \* key -> value, or Absent
  ret        \* the last value an operation returned

vars == <<state, contents, ret>>

Present == {k \in Keys : contents[k] /= Absent}

Init ==
  /\ state = "none"
  /\ contents = [k \in Keys |-> Absent]
  /\ ret = 0

Create ==
  /\ state = "none"
  /\ state' \in {"none", "live"}
  /\ UNCHANGED <<contents, ret>>

\* Callers insert only keys not yet present (the code allows duplicates but
\* says they "shouldn't be used").
Insert(k, v) ==
  /\ state = "live" /\ k \notin Present
  /\ \/ contents' = [contents EXCEPT ![k] = v] /\ ret' = -1
     \/ UNCHANGED contents /\ ret' = 0
  /\ UNCHANGED state

Update(k, f(_)) ==
  /\ state = "live"
  /\ IF k \in Present THEN contents' = [contents EXCEPT ![k] = f(contents[k])] /\ ret' = -1
                      ELSE UNCHANGED contents /\ ret' = 0
  /\ UNCHANGED state

Change(k, v) == Update(k, LAMBDA x : v)
Inc(k, d) == Update(k, LAMBDA x : Wrap(x + d))
Dec(k, d) == Update(k, LAMBDA x : Wrap(x + 2^ValueBits - d))

Search(k) ==
  /\ state = "live"
  /\ ret' = IF k \in Present THEN contents[k] ELSE 0
  /\ UNCHANGED <<state, contents>>

Remove(k) ==
  /\ state = "live"
  /\ ret' = IF k \in Present THEN contents[k] ELSE 0
  /\ contents' = [contents EXCEPT ![k] = Absent]
  /\ UNCHANGED state

\* Removal of the key an iterator stands on: the key leaves the map; what
\* the call returns is the iterator's business (more entries or not).
Delete(k) ==
  /\ state = "live" /\ k \in Present
  /\ contents' = [contents EXCEPT ![k] = Absent]
  /\ UNCHANGED <<state, ret>>

Count ==
  /\ state = "live"
  /\ ret' = Cardinality(Present)
  /\ UNCHANGED <<state, contents>>

Destroy ==
  /\ state = "live"
  /\ state' = "destroyed"
  /\ contents' = [k \in Keys |-> Absent]
  /\ UNCHANGED ret

Next ==
  \/ Create \/ Count \/ Destroy
  \/ \E k \in Keys :
       \/ Search(k) \/ Remove(k) \/ Delete(k)
       \/ \E v \in InValues : Insert(k, v) \/ Change(k, v)
       \/ \E d \in Deltas : Inc(k, d) \/ Dec(k, d)

Spec == Init /\ [][Next]_vars
=============================================================================
