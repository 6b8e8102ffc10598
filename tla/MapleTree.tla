------------------------------ MODULE MapleTree ------------------------------
(* The interface of the kernel's maple tree that mt_tree.c exercises: a map   *)
(* from disjoint ranges of indexes to entries.  Nodes, heights above one and  *)
(* allocation are left out.  Nothing here is under src/.                      *)
EXTENDS Integers, FiniteSetsExt

CONSTANT ULONG_MAX

ASSUME ULongAssumption == ULONG_MAX \in Nat /\ ULONG_MAX % 2 = 1

NULL == 0
XA_ZERO_ENTRY == 1030
LONG_MAX == ULONG_MAX \div 2
EINVAL == -22
EEXIST == -17
EBUSY == -16

xa_mk_value(i) == 2 * i + 1

At(t, i) == {r \in t : r.first <= i /\ i <= r.last}
Overlapping(t, a, b) == {r \in t : r.first <= b /\ r.last >= a}

\* What is left of t when a..b is emptied: ranges across an end are cut.
Cleared(t, a, b) ==
  LET hit == Overlapping(t, a, b)
  IN  (t \ hit)
        \cup {[r EXCEPT !.last = a - 1] : r \in {o \in hit : o.first < a}}
        \cup {[r EXCEPT !.first = b + 1] : r \in {o \in hit : o.last > b}}

Stored(t, a, b, e) ==
  Cleared(t, a, b) \cup {r \in {[first |-> a, last |-> b, entry |-> e]} : e # NULL}

\* The calls that change a tree answer with the new tree and the return value.
mtree_store_range(t, a, b, e) ==
  IF a > b THEN [tree |-> t, ret |-> EINVAL] ELSE [tree |-> Stored(t, a, b, e), ret |-> 0]

mtree_insert_range(t, a, b, e) ==
  IF a > b THEN [tree |-> t, ret |-> EINVAL]
  ELSE IF Overlapping(t, a, b) # {} THEN [tree |-> t, ret |-> EEXIST]
  ELSE [tree |-> Stored(t, a, b, e), ret |-> 0]

\* The whole range that holds i goes, and its entry is the answer.
mtree_erase(t, i) ==
  [tree |-> t \ At(t, i),
   ret  |-> IF At(t, i) = {} THEN NULL ELSE (CHOOSE r \in At(t, i) : TRUE).entry]

mtree_load(t, i) ==
  LET e == mtree_erase(t, i).ret IN IF e = XA_ZERO_ENTRY THEN NULL ELSE e

\* A tree that is not just an entry at index 0 has nodes.
mt_height_positive(t) == \E r \in t : r.last > 0

\* The starts of the free areas of a given size in min..max: the lowest of
\* each gap, and the highest.
LowStarts(t, min, max, size) ==
  {i \in {min} \cup {r.last + 1 : r \in t} :
     min <= i /\ i + size - 1 <= max /\ Overlapping(t, i, i + size - 1) = {}}
HighStarts(t, min, max, size) ==
  {i \in {max - size + 1} \cup {r.first - size : r \in t} :
     min <= i /\ i + size - 1 <= max /\ Overlapping(t, i, i + size - 1) = {}}

\* The first, or the last, free area; only a tree with MT_FLAGS_ALLOC_RANGE has gaps.
mtree_alloc(t, alloc, starts, pick(_), size, e) ==
  IF ~alloc THEN [tree |-> t, ret |-> EINVAL, at |-> 0]
  ELSE IF starts = {} THEN [tree |-> t, ret |-> EBUSY, at |-> 0]
  ELSE [tree |-> Stored(t, pick(starts), pick(starts) + size - 1, e),
        ret |-> 0, at |-> pick(starts)]

\* mt_find from index: the first entry up to max that is not the zero entry,
\* and the index after it, which wraps at the end.
mt_find(t, index, max) ==
  LET next == {r \in t : r.last >= index /\ r.first <= max /\ r.entry # XA_ZERO_ENTRY}
  IN  IF next = {} THEN [entry |-> NULL, index |-> index]
      ELSE LET r == CHOOSE r \in next : \A s \in next : r.first <= s.first
           IN  [entry |-> r.entry,
                index |-> IF r.last = ULONG_MAX THEN 0 ELSE r.last + 1]

\* ---- the cursor, struct ma_state; "entry" is what the last call returned ----

mas_set_range(a, b) == [index |-> a, last |-> b, node |-> "start", entry |-> NULL]
mas_reset(c) == [c EXCEPT !.node = "start"]
mas_pause(c) == [c EXCEPT !.node = "pause"]

OnRange(r) == [index |-> r.first, last |-> r.last, node |-> "active", entry |-> r.entry]
OffTheEnd(i) == [index |-> i, last |-> i, node |-> "none", entry |-> NULL]

\* On the range that holds the index, or on the gap that does.
mas_walk(t, c) ==
  IF At(t, c.index) # {} THEN OnRange(CHOOSE r \in At(t, c.index) : TRUE)
  ELSE [index |-> Max({0} \cup {r.last + 1 : r \in {s \in t : s.last < c.index}}),
        last  |-> Min({ULONG_MAX} \cup {r.first - 1 : r \in {s \in t : s.first > c.index}}),
        node  |-> "active", entry |-> NULL]

Placed(t, c) == IF c.node = "active" THEN c ELSE mas_walk(t, c)

mas_next(t, c, max) ==
  LET after == {r \in t : r.first > Placed(t, c).last /\ r.first <= max}
  IN  IF after = {} THEN OffTheEnd(max)
      ELSE OnRange(CHOOSE r \in after : \A s \in after : r.first <= s.first)

mas_prev(t, c, min) ==
  LET before == {r \in t : r.last < Placed(t, c).index /\ r.last >= min}
  IN  IF before = {} THEN OffTheEnd(min)
      ELSE OnRange(CHOOSE r \in before : \A s \in before : r.first >= s.first)

\* From a fresh cursor the entry at the index counts, from a paused one the
\* search goes on behind the last range.
mas_find(t, c, max) ==
  LET from == IF c.node = "pause" /\ c.last < ULONG_MAX
              THEN mas_set_range(c.last + 1, c.last + 1) ELSE c
      here == mas_walk(t, from)
  IN  IF c.node = "active" THEN mas_next(t, c, max)
      ELSE IF from.index > max \/ (c.node = "pause" /\ c.last = ULONG_MAX) THEN OffTheEnd(max)
      ELSE IF here.entry # NULL THEN here
      ELSE mas_next(t, here, max)

mas_find_rev(t, c, min) ==
  IF c.node # "active" /\ c.index >= min /\ mas_walk(t, c).entry # NULL
  THEN mas_walk(t, c) ELSE mas_prev(t, c, min)
=============================================================================
