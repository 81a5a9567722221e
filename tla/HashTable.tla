------------------------------ MODULE HashTable ------------------------------
(***************************************************************************)
(* The chained hash table of src/palacios/src/palacios/vmm_hashtable.c     *)
(* (Christopher Clark's, as modified for Palacios): an array of chains     *)
(* whose length runs through a table of primes, grown by hashtable_expand  *)
(* when an insert passes the load limit, either into a fresh array (Plan   *)
(* A) or, when that allocation fails, by reallocating the old one and      *)
(* rehashing in place (Plan B).                                            *)
(*                                                                         *)
(* A chain is a sequence of entries, head first. Every V3_Malloc may fail; *)
(* whether memory can be freed by another core between the two attempts    *)
(* of hashtable_expand is the constant ConcurrentFree. The bytes Plan B    *)
(* copies and the pointers a bucket takes are counted with the constant   *)
(* PtrBytes, the size of a struct hash_entry pointer.                     *)
(***************************************************************************)
EXTENDS Integers, Sequences, FiniteSets, Bitwise

CONSTANTS
  Keys, InValues, Deltas, ValueBits,  \* as in HashTableSpec
  HashOf,         \* do_hash of hash_fn(key), for each key (see the MC module)
  Primes,         \* primes[] (a sequence; entry 1 is primes[0])
  LoadFactors,    \* load_factors[]
  MinSizes,       \* min_size arguments callers pass to create_hashtable
  PtrBytes,       \* sizeof(struct hash_entry *)
  ConcurrentFree  \* may memory be freed between the two allocations of expand?

ASSUME /\ Len(Primes) = Len(LoadFactors) /\ Len(Primes) >= 2
       /\ ConcurrentFree \in BOOLEAN

VARIABLES
  status,        \* "none", "live", "crashed" (host fault), "destroyed"
  table,         \* htable->table: bucket index -> chain of [key, value, hash]
  table_length,
  entry_count,
  load_limit,
  prime_index,   \* 0-based, as in the code
  ret            \* the last value an operation returned

vars == <<status, table, table_length, entry_count, load_limit, prime_index, ret>>

WrapNone(x) == x   \* a defect: addr_t arithmetic taken as unbounded
\* addr_t arithmetic, as in "tmp_entry->value += value"
Wrap(x) == x % 2^ValueBits

\* The stored hash of a key: do_hash(htable, key).
DoHash(k) == HashOf[k]

\* indexFor
IndexFor(len, h) == h % len

Prime(i) == Primes[i + 1]
LoadFactor(i) == LoadFactors[i + 1]
EmptyTable(len) == [i \in 0..(len - 1) |-> <<>>]

Entries == UNION {{table[i][j] : j \in DOMAIN table[i]} : i \in DOMAIN table}
KeysIn == {e.key : e \in Entries}

TypeOK ==
  /\ status \in {"none", "live", "crashed", "destroyed"}
  /\ table_length \in {Prime(i) : i \in 0..(Len(Primes) - 1)}
  /\ table \in [0..(table_length - 1) ->
                 Seq([key : Keys, value : 0..(2^ValueBits - 1), hash : Nat])]
  /\ entry_count \in Nat /\ load_limit \in Nat
  /\ prime_index \in 0..(Len(Primes) - 1)

-----------------------------------------------------------------------------
(* create_hashtable and hashtable_destroy                                  *)

\* The first prime above min_size (primes[0] if there is none).
FirstPrimeAbove(m) ==
  IF \E i \in 0..(Len(Primes) - 1) : Prime(i) > m
  THEN CHOOSE i \in 0..(Len(Primes) - 1) :
         Prime(i) > m /\ \A j \in 0..(i - 1) : Prime(j) <= m
  ELSE 0

\* A failed V3_Malloc of the header or the array returns NULL and leaves
\* the caller without a table: the state "none" again.
CreateHashtable(min_size) ==
  LET pi == FirstPrimeAbove(min_size)
  IN  /\ status = "none"
      /\ status' = "live"
      /\ table' = EmptyTable(Prime(pi))
      /\ table_length' = Prime(pi)
      /\ prime_index' = pi
      /\ load_limit' = LoadFactor(pi)
      /\ entry_count' = 0
      /\ UNCHANGED ret

HashtableDestroy ==
  /\ status = "live"
  /\ status' = "destroyed"
  /\ table' = EmptyTable(table_length)
  /\ UNCHANGED <<table_length, entry_count, load_limit, prime_index, ret>>

-----------------------------------------------------------------------------
(* hashtable_expand                                                        *)

\* Push every entry of chain, head first, onto the head of its bucket of a
\* table of size len (the "reverses the list" transfer loop).
RECURSIVE MoveChain(_, _, _)
MoveChain(nt, chain, len) ==
  IF chain = <<>> THEN nt
  ELSE LET e == Head(chain)
           b == IndexFor(len, e.hash)
       IN  MoveChain([nt EXCEPT ![b] = <<e>> \o @], Tail(chain), len)

\* Plan A: every old bucket, in index order, moved into a zeroed new array.
RECURSIVE PlanATable(_, _, _, _)
PlanATable(nt, old, i, len) ==
  IF i \notin DOMAIN old THEN nt
  ELSE PlanATable(MoveChain(nt, old[i], len), old, i + 1, len)

StaysAlways(i, len, h) == TRUE        \* a defect: the in-place rehash skipped
\* "if (i == index)": Plan B leaves an entry already in its new bucket.
StaysInPlace(i, len, h) == IndexFor(len, h) = i

\* Plan B: bucket i keeps the entries that stay; the others move, in chain
\* order, to the head of their new bucket.
RECURSIVE PlanBTable(_, _, _, _)
PlanBTable(nt, i, oldLen, len) ==
  IF i >= oldLen THEN nt
  ELSE LET stay == SelectSeq(nt[i], LAMBDA e : StaysInPlace(i, len, e.hash))
           move == SelectSeq(nt[i], LAMBDA e : ~StaysInPlace(i, len, e.hash))
       IN  PlanBTable(MoveChain([nt EXCEPT ![i] = stay], move, len), i + 1, oldLen, len)

\* tmp_realloc(table, primes[prime_index - 1], new_size * PtrBytes) copies
\* old-length BYTES, so only the first old-length / PtrBytes buckets
\* survive; the rest of the new array is uninitialised. The behaviour is
\* undefined: the host faults (walking a garbage chain, or in the memset
\* through new_table[table_length]), or the uncopied slots happen to read
\* as NULL and their entries are lost.
PlanBCopy(len) ==
  [i \in 0..(len - 1) |->
     IF i < table_length \div PtrBytes THEN table[i] ELSE <<>>]

\* The outcomes of hashtable_expand, as [tbl, len, pi, crashed].
ExpandOutcomes ==
  LET len == Prime(prime_index + 1)
      grown(t) == [tbl |-> t, len |-> len, pi |-> prime_index + 1, crashed |-> FALSE]
      same == [tbl |-> table, len |-> table_length, pi |-> prime_index, crashed |-> FALSE]
  IN  IF prime_index = Len(Primes) - 1 THEN {same}
      ELSE {grown(PlanATable(EmptyTable(len), table, 0, len)), same}
           \cup (IF ConcurrentFree
                 THEN {grown(PlanBTable(PlanBCopy(len), 0, table_length, len)),
                       [same EXCEPT !.crashed = TRUE]}
                 ELSE {})

-----------------------------------------------------------------------------
(* The operations                                                          *)

\* Callers insert only keys not yet present (see HashTableSpec).
RollbackCountMissing(c) == c   \* a defect: the count not restored on oom
\* "(htable->entry_count)--" when the entry cannot be allocated
RollbackCount(c) == c - 1

HashtableInsert(k, v) ==
  LET c == entry_count + 1
  IN  /\ status = "live" /\ k \notin KeysIn
      /\ \E x \in (IF c > load_limit THEN ExpandOutcomes
                   ELSE {[tbl |-> table, len |-> table_length, pi |-> prime_index,
                          crashed |-> FALSE]}) :
           /\ table_length' = x.len
           /\ prime_index' = x.pi
           /\ load_limit' = IF x.pi /= prime_index THEN LoadFactor(x.pi) ELSE load_limit
           /\ IF x.crashed
                THEN /\ status' = "crashed" /\ table' = x.tbl
                     /\ UNCHANGED <<entry_count, ret>>
                ELSE /\ UNCHANGED status
                     /\ \/ /\ table' = [x.tbl EXCEPT ![IndexFor(x.len, DoHash(k))] =
                                         <<[key |-> k, value |-> v, hash |-> DoHash(k)]>> \o @]
                           /\ entry_count' = c /\ ret' = -1
                        \/ /\ table' = x.tbl   \* the entry's V3_Malloc failed
                           /\ entry_count' = RollbackCount(c) /\ ret' = 0

\* The chain a lookup of k walks, and the position of k's first entry in it.
Bucket(k) == IndexFor(table_length, DoHash(k))
Pos(k) ==
  LET ch == table[Bucket(k)]
      hits == {j \in DOMAIN ch : ch[j].hash = DoHash(k) /\ ch[j].key = k}
  IN  IF hits = {} THEN 0 ELSE CHOOSE j \in hits : \A m \in hits : j <= m

\* hashtable_change / _inc / _dec: rewrite the value of the first match.
UpdateValue(k, f(_)) ==
  /\ status = "live"
  /\ IF Pos(k) = 0
       THEN UNCHANGED table /\ ret' = 0
       ELSE /\ table' = [table EXCEPT ![Bucket(k)][Pos(k)].value = f(table[Bucket(k)][Pos(k)].value)]
            /\ ret' = -1
  /\ UNCHANGED <<status, table_length, entry_count, load_limit, prime_index>>

HashtableChange(k, v) == UpdateValue(k, LAMBDA x : v)
HashtableInc(k, d) == UpdateValue(k, LAMBDA x : Wrap(x + d))
HashtableDec(k, d) == UpdateValue(k, LAMBDA x : Wrap(x + 2^ValueBits - d))

HashtableSearch(k) ==
  /\ status = "live"
  /\ ret' = IF Pos(k) = 0 THEN 0 ELSE table[Bucket(k)][Pos(k)].value
  /\ UNCHANGED <<status, table, table_length, entry_count, load_limit, prime_index>>

\* "*entry_ptr = cursor->next": the chain without its j-th entry.
Unlink(ch, j) == SubSeq(ch, 1, j - 1) \o SubSeq(ch, j + 1, Len(ch))

HashtableRemove(k) ==
  /\ status = "live"
  /\ IF Pos(k) = 0
       THEN UNCHANGED <<table, entry_count>> /\ ret' = 0
       ELSE /\ ret' = table[Bucket(k)][Pos(k)].value
            /\ table' = [table EXCEPT ![Bucket(k)] = Unlink(@, Pos(k))]
            /\ entry_count' = entry_count - 1
  /\ UNCHANGED <<status, table_length, load_limit, prime_index>>

HashtableCount ==
  /\ status = "live"
  /\ ret' = entry_count
  /\ UNCHANGED <<status, table, table_length, entry_count, load_limit, prime_index>>

-----------------------------------------------------------------------------

Init ==
  /\ status = "none"
  /\ table = EmptyTable(Prime(0))
  /\ table_length = Prime(0)
  /\ entry_count = 0
  /\ load_limit = LoadFactor(0)
  /\ prime_index = 0
  /\ ret = 0

Stopped ==
  /\ status \in {"crashed", "destroyed"}
  /\ UNCHANGED vars

Next ==
  \/ \E m \in MinSizes : CreateHashtable(m)
  \/ HashtableCount \/ HashtableDestroy \/ Stopped
  \/ \E k \in Keys :
       \/ HashtableSearch(k) \/ HashtableRemove(k)
       \/ \E v \in InValues : HashtableInsert(k, v) \/ HashtableChange(k, v)
       \/ \E d \in Deltas : HashtableInc(k, d) \/ HashtableDec(k, d)

Spec == Init /\ [][Next]_vars

-----------------------------------------------------------------------------
(* Properties                                                              *)

\* The map the table stands for: a key's value is that of its entry.
AbsContents ==
  [k \in Keys |-> IF k \in KeysIn THEN (CHOOSE e \in Entries : e.key = k).value
                  ELSE -1]   \* HashTableSpec's Absent
AbsState == IF status = "crashed" THEN "none" ELSE status

Abs == INSTANCE HashTableSpec WITH state <- AbsState, contents <- AbsContents, ret <- ret

\* The table implements the finite map of HashTableSpec: every search,
\* remove, change, inc, dec and count returns what the map says, across
\* any number of expansions, failed allocations and removals. This fails
\* if an expansion loses, duplicates or misplaces an entry, if an insert
\* lands in a bucket a later lookup does not walk, or if entry_count drifts.
ImplementsMap == Abs!Spec

\* Every entry sits in the bucket its stored hash selects for the current
\* table length, so a lookup finds it: both ways of growing the table
\* (Plan A's transfer, Plan B's in-place rehash) re-place every entry.
EntriesInHomeBucket ==
  \A i \in DOMAIN table : \A j \in DOMAIN table[i] :
    IndexFor(table_length, table[i][j].hash) = i
=============================================================================
