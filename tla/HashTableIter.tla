---------------------------- MODULE HashTableIter ----------------------------
(***************************************************************************)
(* The iterators of src/palacios/src/palacios/vmm_hashtable.c              *)
(* (create_hashtable_iterator, hashtable_get_iter_key/_value,              *)
(* hashtable_iterator_advance, _remove and _search) over the table of      *)
(* HashTable, with one iterator of one caller.                             *)
(*                                                                         *)
(* An iterator holds a bucket index and two entry pointers, the current    *)
(* entry and its parent in the chain. Keys are unique (HashTable's insert *)
(* precondition), so an entry is named by its key. The callers' contract  *)
(* is that an insert or a hashtable_remove ends an iteration: when such a *)
(* step changes the table's keys or length, the caller drops the iterator.*)
(***************************************************************************)
EXTENDS HashTable, FiniteSetsExt

NoEntry == -1   \* NULL: no key is negative

VARIABLES
  iter,       \* [live, index, entry, parent]; live is FALSE with no iterator
  iret,       \* the last value an iterator function returned
  start,      \* the keys in the table when the iteration began
  visited,    \* the keys the iterator has stood on since then
  dup,        \* has it stood on one key twice?
  fromStart   \* has the iterator moved only by advance and remove?

itvars == <<iter, iret, start, visited, dup, fromStart>>
allvars == <<vars, itvars>>

NoIter == [live |-> FALSE, index |-> 0, entry |-> NoEntry, parent |-> NoEntry]

\* Where an entry is: <<bucket, position>>.
Loc(k) == CHOOSE l \in UNION {{<<i, j>> : j \in DOMAIN table[i]} : i \in DOMAIN table} :
            table[l[1]][l[2]].key = k

\* entry->next, as the chain from the entry's successor on, and its key.
Rest(k) == SubSeq(table[Loc(k)[1]], Loc(k)[2] + 1, Len(table[Loc(k)[1]]))
Succ(k) == IF Rest(k) = <<>> THEN NoEntry ELSE Head(Rest(k)).key

NonEmptyFrom(t, j) == {i \in DOMAIN t : i >= j /\ t[i] /= <<>>}

\* Standing on k: the ghost record of the keys visited.
Visit(k) ==
  /\ visited' = IF k = NoEntry THEN visited ELSE visited \cup {k}
  /\ dup' = (dup \/ k \in visited)

-----------------------------------------------------------------------------

CreateIterator ==
  LET first == NonEmptyFrom(table, 0)
      it == IF entry_count = 0 \/ first = {}
              THEN [live |-> TRUE, index |-> table_length, entry |-> NoEntry, parent |-> NoEntry]
              ELSE [live |-> TRUE, index |-> Min(first), entry |-> table[Min(first)][1].key,
                    parent |-> NoEntry]
  IN  /\ status = "live" /\ ~iter.live
      /\ \/ /\ iter' = it
            /\ start' = KeysIn /\ fromStart' = TRUE
            /\ visited' = IF it.entry = NoEntry THEN {} ELSE {it.entry}
            /\ dup' = FALSE
            /\ UNCHANGED iret
         \/ UNCHANGED itvars   \* V3_Malloc failed: NULL
      /\ UNCHANGED vars

\* The caller frees the iterator.
FreeIterator ==
  /\ iter.live
  /\ iter' = NoIter
  /\ UNCHANGED <<vars, iret, start, visited, dup, fromStart>>

HashtableGetIter ==
  /\ status = "live" /\ iter.live /\ iter.entry /= NoEntry
  /\ \/ iret' = iter.entry
     \/ iret' = table[Loc(iter.entry)[1]][Loc(iter.entry)[2]].value
  /\ UNCHANGED <<vars, iter, start, visited, dup, fromStart>>

AtEndEarly(j) == table_length - 1 <= j     \* a defect: the last bucket skipped
\* "if (table_length <= (j = ++(iter->index)))"
AtEnd(j) == table_length <= j

\* The rest of hashtable_iterator_advance once iter->entry is not NULL,
\* with next = iter->entry->next, over the bucket array t: the new
\* iterator and the result.
AdvanceFrom(t, it, next) ==
  LET j == it.index + 1
      ne == NonEmptyFrom(t, j)
  IN  IF next /= NoEntry
        THEN [it |-> [it EXCEPT !.parent = it.entry, !.entry = next], r |-> -1]
      ELSE IF AtEnd(j)
        THEN [it |-> [it EXCEPT !.parent = NoEntry, !.index = j, !.entry = NoEntry], r |-> 0]
      ELSE IF ne = {}
        THEN [it |-> [it EXCEPT !.parent = NoEntry, !.index = table_length, !.entry = NoEntry],
              r |-> 0]
      ELSE [it |-> [it EXCEPT !.parent = NoEntry, !.index = Min(ne), !.entry = t[Min(ne)][1].key],
            r |-> -1]

HashtableIteratorAdvance ==
  /\ status = "live" /\ iter.live
  /\ IF iter.entry = NoEntry
       THEN iret' = 0 /\ UNCHANGED <<iter, visited, dup>>     \* "stupidity check"
       ELSE LET x == AdvanceFrom(table, iter, Succ(iter.entry))
            IN  iter' = x.it /\ iret' = x.r /\ Visit(x.it.entry)
  /\ UNCHANGED <<vars, start, fromStart>>

ParentUncorrected(p, removed, remembered) == p   \* a defect: the correction dropped
\* "if (iter->parent == remember_entry) iter->parent = remember_parent"
ParentCorrected(p, removed, remembered) == IF p = removed THEN remembered ELSE p

\* Unlink the current entry (from the bucket head through iter->index, or
\* through parent->next; a parent no longer in the table is freed memory
\* and the write changes no chain), count it out, and advance from its
\* old next pointer over the new array.
HashtableIteratorRemove ==
  LET e == iter.entry
      p == iter.parent
      nt == IF p = NoEntry THEN [table EXCEPT ![iter.index] = Rest(e)]
            ELSE IF p \in KeysIn
              THEN [table EXCEPT ![Loc(p)[1]] = SubSeq(@, 1, Loc(p)[2]) \o Rest(e)]
            ELSE table
      x == AdvanceFrom(nt, iter, Succ(e))
  IN  /\ status = "live" /\ iter.live /\ e /= NoEntry
      /\ table' = nt
      /\ entry_count' = entry_count - 1
      /\ iter' = [x.it EXCEPT !.parent = ParentCorrected(@, e, p)]
      /\ iret' = x.r
      /\ Visit(x.it.entry)
      /\ UNCHANGED <<status, table_length, load_limit, prime_index, ret, start, fromStart>>

HashtableIteratorSearch(k) ==
  /\ status = "live" /\ iter.live
  /\ IF Pos(k) = 0
       THEN iret' = 0 /\ UNCHANGED <<iter, fromStart>>
       ELSE /\ iter' = [live |-> TRUE, index |-> Bucket(k), entry |-> k,
                        parent |-> IF Pos(k) = 1 THEN NoEntry
                                   ELSE table[Bucket(k)][Pos(k) - 1].key]
            /\ iret' = -1 /\ fromStart' = FALSE
  /\ UNCHANGED <<vars, start, visited, dup>>

\* Every operation of HashTable; one that changes the table's keys or
\* length (an insert, a hashtable_remove, a destroy) ends the iteration.
TableStep ==
  /\ Next
  /\ IF KeysIn' = KeysIn /\ table_length' = table_length /\ status' = status
       THEN UNCHANGED itvars
       ELSE iter' = NoIter /\ UNCHANGED <<iret, start, visited, dup, fromStart>>

IterInit ==
  /\ Init
  /\ iter = NoIter /\ iret = 0 /\ start = {} /\ visited = {} /\ dup = FALSE
  /\ fromStart = FALSE

IterNext ==
  \/ TableStep
  \/ CreateIterator \/ FreeIterator \/ HashtableGetIter
  \/ HashtableIteratorAdvance \/ HashtableIteratorRemove
  \/ \E k \in Keys : HashtableIteratorSearch(k)

IterSpec == IterInit /\ [][IterNext]_allvars

-----------------------------------------------------------------------------

\* An iteration begun by create_hashtable_iterator and moved only by
\* advance and remove stands on every key the table held, each once, by the
\* time it reaches the end: the scan from bucket index + 1, the end test and
\* the parent correction of remove together lose nothing and repeat nothing.
IterationComplete ==
  iter.live /\ fromStart /\ iter.entry = NoEntry => visited = start /\ ~dup
=============================================================================
