----------------------------- MODULE MapleProofs -----------------------------
(* The maple tree as the map from disjoint ranges that the test takes it     *)
(* for, and the copies that the test makes of it, for trees of any contents. *)
EXTENDS ProgramProofs

-----------------------------------------------------------------------------
(* Trees.                                                                  *)

Rng == [first : 0 .. ULONG_MAX, last : 0 .. ULONG_MAX, entry : Nat \ {0}]
Apart(r, q) == r.last < q.first \/ q.last < r.first

\* Ranges of indexes, each with an entry, that are disjoint.
Ranges(t) ==
  /\ t \subseteq Rng
  /\ \A r \in t : r.first <= r.last
  /\ \A r, q \in t : r = q \/ Apart(r, q)

LEMMA RngIs ==
  ASSUME NEW r \in Rng
  PROVE  /\ r.first \in Nat /\ r.last \in Nat /\ r.first <= ULONG_MAX /\ r.last <= ULONG_MAX
         /\ r.entry \in Nat /\ r.entry # NULL
         /\ r = [first |-> r.first, last |-> r.last, entry |-> r.entry]
BY ULongAssumption DEF Rng, NULL

\* What is left of a range r when a..b is emptied.
Left(r, q, a, b) ==
  \/ q = r /\ (r.first > b \/ r.last < a)
  \/ q = [first |-> r.first, last |-> a - 1, entry |-> r.entry] /\ r.first < a /\ r.last >= a
  \/ q = [first |-> b + 1, last |-> r.last, entry |-> r.entry] /\ r.first <= b /\ r.last > b

LEMMA ClearedIs ==
  ASSUME NEW t, Ranges(t), NEW a \in Nat, NEW b \in 0 .. ULONG_MAX, a <= b
  PROVE  \A q \in Cleared(t, a, b) : \E r \in t : Left(r, q, a, b)
<1>0. a \in Int /\ b \in Int /\ \A r \in t : r.first \in Int /\ r.last \in Int
  BY ULongAssumption, RngIs DEF Ranges
<1>1. \A r \in t : /\ [r EXCEPT !.last = a - 1] = [first |-> r.first, last |-> a - 1, entry |-> r.entry]
                   /\ [r EXCEPT !.first = b + 1] = [first |-> b + 1, last |-> r.last, entry |-> r.entry]
  BY DEF Ranges, Rng
<1>2. ASSUME NEW q \in Cleared(t, a, b) PROVE \E r \in t : Left(r, q, a, b)
  <2>1. CASE q \in t \ Overlapping(t, a, b)
    BY <1>0, <2>1 DEF Overlapping, Left
  <2>2. CASE \E r \in t : r.first <= b /\ r.last >= a /\ r.first < a /\ q = [r EXCEPT !.last = a - 1]
    BY <1>1, <2>2 DEF Left
  <2>3. CASE \E r \in t : r.first <= b /\ r.last >= a /\ r.last > b /\ q = [r EXCEPT !.first = b + 1]
    BY <1>1, <2>3 DEF Left
  <2>4. QED
    BY <2>1, <2>2, <2>3 DEF Cleared, Overlapping
<1>3. QED
  BY <1>2

LEMMA LeftIn ==
  ASSUME NEW r \in Rng, r.first <= r.last, NEW a \in Nat, NEW b \in 0 .. ULONG_MAX, a <= b, NEW q, Left(r, q, a, b)
  PROVE  /\ q \in Rng /\ q.first <= q.last /\ q.entry = r.entry
         /\ r.first <= q.first /\ q.last <= r.last /\ (q.last < a \/ q.first > b)
<1>1. r.first \in Nat /\ r.last \in Nat /\ r.entry \in Nat \ {0} /\ r.last <= ULONG_MAX /\ r.first <= ULONG_MAX
      /\ ULONG_MAX \in Nat
  BY ULongAssumption DEF Rng
<1>2. CASE q = r /\ (r.first > b \/ r.last < a)
  BY <1>1, <1>2
<1>3. CASE q = [first |-> r.first, last |-> a - 1, entry |-> r.entry] /\ r.first < a /\ r.last >= a
  BY <1>1, <1>3 DEF Rng
<1>4. CASE q = [first |-> b + 1, last |-> r.last, entry |-> r.entry] /\ r.first <= b /\ r.last > b
  BY <1>1, <1>4 DEF Rng
<1>5. QED
  BY <1>2, <1>3, <1>4 DEF Left

LEMMA ClearedRanges ==
  ASSUME NEW t, Ranges(t), NEW a \in Nat, NEW b \in 0 .. ULONG_MAX, a <= b
  PROVE  Ranges(Cleared(t, a, b)) /\ \A q \in Cleared(t, a, b) : q.last < a \/ q.first > b
<1>1. \A q \in Cleared(t, a, b) : \E r \in t : Left(r, q, a, b)
  BY ClearedIs
<1>2. \A r \in t : r \in Rng /\ r.first <= r.last
  BY DEF Ranges
<1>3. \A q \in Cleared(t, a, b) : q \in Rng /\ q.first <= q.last /\ (q.last < a \/ q.first > b)
  BY <1>1, <1>2, LeftIn
<1>4. ASSUME NEW p \in Cleared(t, a, b), NEW q \in Cleared(t, a, b) PROVE p = q \/ Apart(p, q)
  <2>1. PICK r \in t : Left(r, p, a, b)
    BY <1>1
  <2>2. PICK s \in t : Left(s, q, a, b)
    BY <1>1
  <2>3. /\ r.first <= p.first /\ p.last <= r.last /\ s.first <= q.first /\ q.last <= s.last
        /\ {p, q, r, s} \subseteq Rng
    BY <1>2, <1>3, <2>1, <2>2, LeftIn
  <2>4. r = s \/ Apart(r, s)
    BY DEF Ranges
  <2>5. CASE Apart(r, s)
    BY <2>3, <2>5, RngIs DEF Apart
  <2>6. CASE r = s
    <3>1. r.first \in Int /\ r.last \in Int /\ a \in Int /\ b \in Int
      BY <2>3, RngIs
    <3>2. QED
      BY <2>1, <2>2, <2>6, <3>1 DEF Left, Apart
  <2>7. QED
    BY <2>4, <2>5, <2>6
<1>5. QED
  BY <1>3, <1>4 DEF Ranges

LEMMA StoredRanges ==
  ASSUME NEW t, Ranges(t), NEW a \in Nat, NEW b \in 0 .. ULONG_MAX, a <= b, NEW e \in Nat
  PROVE  Ranges(Stored(t, a, b, e))
<1> DEFINE n0 == [first |-> a, last |-> b, entry |-> e]
<1>1. Ranges(Cleared(t, a, b)) /\ \A q \in Cleared(t, a, b) : q.last < a \/ q.first > b
  BY ClearedRanges
<1>2. Stored(t, a, b, e) = Cleared(t, a, b) \cup (IF e = NULL THEN {} ELSE {n0})
  BY DEF Stored
<1>3. e # NULL => n0 \in Rng /\ n0.first = a /\ n0.last = b
  BY ULongAssumption DEF Rng, NULL
<1> HIDE DEF n0
<1>4. CASE e = NULL
  BY <1>1, <1>2, <1>4
<1>5. CASE e # NULL
  <2>1. \A q \in Cleared(t, a, b) : Apart(q, n0) /\ Apart(n0, q)
    BY <1>1, <1>3, <1>5 DEF Apart
  <2>2. QED
    BY <1>1, <1>2, <1>3, <1>5, <2>1 DEF Ranges
<1>6. QED
  BY <1>4, <1>5

-----------------------------------------------------------------------------
(* Walking through a tree, and copying it.                                 *)

\* Some range of a set of them is the first.
LEMMA FirstOf ==
  ASSUME NEW t, Ranges(t), NEW X, X \subseteq t, X # {}
  PROVE  \E q \in X : \A p \in X : q.first <= p.first
<1> DEFINE Y == {q.first : q \in X}
<1>1. Y \subseteq Nat /\ Y # {}
  BY RngIs DEF Ranges
<1>2. PICK m \in Y : \A k \in Y : m <= k
  <2> HIDE DEF Y
  <2> QED BY <1>1, LeastOf
<1>3. QED
  BY <1>2

Fresh == mas_set_range(0, 0)

\* The next range behind r, or none.
LEMMA NextIs ==
  ASSUME NEW t, Ranges(t), NEW i \in Int, NEW c, Placed(t, c).last = i
  PROVE  LET f == mas_next(t, c, ULONG_MAX)
         IN  \/ f.entry = NULL /\ \A q \in t : q.first <= i
             \/ \E q \in t : f = OnRange(q) /\ q.first > i /\ \A p \in t : p.first > i => q.first <= p.first
<1> DEFINE after == {r \in t : r.first > Placed(t, c).last /\ r.first <= ULONG_MAX}
<1>1. \A r \in t : r \in Rng /\ r.first \in Int /\ r.first <= ULONG_MAX
  BY RngIs DEF Ranges
<1>2. mas_next(t, c, ULONG_MAX) = IF after = {} THEN OffTheEnd(ULONG_MAX)
                                  ELSE OnRange(CHOOSE r \in after : \A s \in after : r.first <= s.first)
  BY DEF mas_next
<1>3. \A r : r \in after <=> r \in t /\ r.first > i
  BY <1>1
<1> HIDE DEF after
<1>4. CASE after = {}
  <2>1. \A q \in t : q.first <= i
    BY <1>1, <1>3, <1>4
  <2>2. OffTheEnd(ULONG_MAX).entry = NULL
    BY DEF OffTheEnd
  <2>3. QED
    BY <1>2, <1>4, <2>1, <2>2
<1>5. CASE after # {}
  <2> DEFINE q == CHOOSE r \in after : \A s \in after : r.first <= s.first
  <2>1. q \in after /\ \A s \in after : q.first <= s.first
    <3>1. after \subseteq t
      BY <1>3
    <3>2. \E r \in after : \A s \in after : r.first <= s.first
      BY <1>5, <3>1, FirstOf
    <3>3. QED
      BY <3>2
  <2>2. mas_next(t, c, ULONG_MAX) = OnRange(q)
    BY <1>2, <1>5
  <2> HIDE DEF q
  <2>3. q \in t /\ q.first > i /\ \A p \in t : p.first > i => q.first <= p.first
    BY <1>3, <2>1
  <2>4. QED
    BY <2>2, <2>3
<1>6. QED
  BY <1>4, <1>5

LEMMA FindBehind ==
  ASSUME NEW t, Ranges(t), NEW r \in t
  PROVE  LET f == mas_find(t, OnRange(r), ULONG_MAX)
         IN  \/ f.entry = NULL /\ \A q \in t : q.first <= r.first
             \/ \E q \in t : f = OnRange(q) /\ q.first > r.first /\ \A p \in t : p.first > r.first => q.first <= p.first
<1>1. mas_find(t, OnRange(r), ULONG_MAX) = mas_next(t, OnRange(r), ULONG_MAX)
  BY DEF mas_find, OnRange
<1>2. Placed(t, OnRange(r)).last = r.last
  BY DEF Placed, OnRange
<1>3. r \in Rng /\ r.first <= r.last /\ r.first \in Int /\ r.last \in Int
  BY RngIs DEF Ranges
<1>4. \A q \in t : q.first \in Int /\ (q.first <= r.last <=> q.first <= r.first)
  <2> SUFFICES ASSUME NEW q \in t PROVE q.first \in Int /\ (q.first <= r.last <=> q.first <= r.first)
    OBVIOUS
  <2>1. q \in Rng /\ (q = r \/ Apart(q, r)) /\ q.first <= q.last
    BY DEF Ranges
  <2>2. QED
    BY <1>3, <2>1, RngIs DEF Apart
<1>5. QED
  BY <1>1, <1>2, <1>3, <1>4, NextIs

LEMMA FindFirst ==
  ASSUME NEW t, Ranges(t)
  PROVE  LET f == mas_find(t, Fresh, ULONG_MAX)
         IN  \/ f.entry = NULL /\ t = {}
             \/ \E q \in t : f = OnRange(q) /\ \A p \in t : q.first <= p.first
<1> DEFINE here == mas_walk(t, Fresh)
<1>1. /\ Fresh.index = 0 /\ Fresh.node = "start" /\ ~ (0 > ULONG_MAX)
      /\ mas_find(t, Fresh, ULONG_MAX) = IF here.entry # NULL THEN here ELSE mas_next(t, here, ULONG_MAX)
  BY ULongAssumption DEF Fresh, mas_set_range, mas_find
<1>2. \A r \in t : r \in Rng /\ r.first \in Nat /\ r.last \in Nat /\ r.first <= r.last /\ r.entry # NULL
  BY RngIs DEF Ranges
<1>3. CASE At(t, 0) # {}
  <2> DEFINE q == CHOOSE r \in At(t, 0) : TRUE
  <2>1. q \in t /\ q.first <= 0
    BY <1>3 DEF At
  <2>2. here = OnRange(q)
    BY <1>1, <1>3 DEF mas_walk
  <2> HIDE DEF q
  <2>3. here.entry # NULL
    BY <1>2, <2>1, <2>2 DEF OnRange
  <2>4. \A p \in t : q.first <= p.first
    BY <1>2, <2>1
  <2>5. QED
    BY <1>1, <2>1, <2>2, <2>3, <2>4
<1>4. CASE At(t, 0) = {}
  <2> DEFINE Y == {ULONG_MAX} \cup {r.first - 1 : r \in {s \in t : s.first > 0}}
  <2>1. \A r \in t : r.first > 0
    BY <1>2, <1>4 DEF At
  <2>2. here.entry = NULL /\ here.node = "active" /\ here.last = Min(Y)
    BY <1>1, <1>4 DEF mas_walk
  <2>3. Y \subseteq Nat /\ Y # {}
    BY <1>2, ULongAssumption
  <2>4. \A r \in t : r.first - 1 \in Y
    BY <2>1
  <2> HIDE DEF Y
  <2>5. Min(Y) \in Y /\ \A k \in Y : Min(Y) <= k
    <3>1. \E m \in Y : \A k \in Y : m <= k
      BY <2>3, LeastOf
    <3>2. QED
      BY <3>1 DEF Min
  <2>6. Min(Y) \in Int /\ \A r \in t : r.first > Min(Y)
    <3>1. Min(Y) \in Nat
      BY <2>3, <2>5
    <3>2. \A r \in t : Min(Y) <= r.first - 1 /\ r.first \in Nat
      BY <1>2, <2>4, <2>5
    <3>3. QED
      BY <3>1, <3>2
  <2>7. mas_find(t, Fresh, ULONG_MAX) = mas_next(t, here, ULONG_MAX) /\ Placed(t, here).last = Min(Y)
    BY <1>1, <2>2 DEF Placed
  <2> HIDE DEF here
  <2>8. \/ mas_next(t, here, ULONG_MAX).entry = NULL /\ \A q \in t : q.first <= Min(Y)
        \/ \E q \in t : /\ mas_next(t, here, ULONG_MAX) = OnRange(q)
                        /\ q.first > Min(Y) /\ \A p \in t : p.first > Min(Y) => q.first <= p.first
    BY <2>6, <2>7, NextIs
  <2>9. CASE mas_next(t, here, ULONG_MAX).entry = NULL /\ \A q \in t : q.first <= Min(Y)
    <3>1. \A q \in t : q.first \in Int /\ q.first > Min(Y) /\ q.first <= Min(Y)
      BY <1>2, <2>6, <2>9
    <3>2. t = {}
      BY <2>6, <3>1
    <3>3. QED
      BY <2>7, <2>9, <3>2
  <2>10. CASE \E q \in t : /\ mas_next(t, here, ULONG_MAX) = OnRange(q)
                           /\ q.first > Min(Y) /\ \A p \in t : p.first > Min(Y) => q.first <= p.first
    BY <2>6, <2>7, <2>10
  <2>11. QED
    BY <2>8, <2>9, <2>10
<1>5. QED
  BY <1>3, <1>4

\* The copy of a tree up to and with its range r.
UpTo(t, r) == {q \in t : q.first <= r.first}

\* A copying loop has not begun, or the cursor is on a range and all up to it is copied.
Copying(t, copy, c) == (c = Fresh /\ copy = {}) \/ \E r \in t : c = OnRange(r) /\ copy = UpTo(t, r)

\* A range that lies behind all of a copy is added to it as it is.
LEMMA StoredBehind ==
  ASSUME NEW t, Ranges(t), NEW copy \in SUBSET t, NEW q \in t, \A p \in copy : p.first < q.first
  PROVE  Stored(copy, q.first, q.last, q.entry) = copy \cup {q}
<1>1. Overlapping(copy, q.first, q.last) = {}
  <2> SUFFICES ASSUME NEW p \in copy, p.first <= q.last, p.last >= q.first PROVE FALSE
    BY DEF Overlapping
  <2>1. p \in Rng /\ q \in Rng /\ (p = q \/ Apart(p, q)) /\ q.first <= q.last
    BY DEF Ranges
  <2>2. QED
    BY <2>1, RngIs DEF Apart
<1>2. Cleared(copy, q.first, q.last) = copy
  BY <1>1 DEF Cleared
<1>3. q.entry # NULL /\ q = [first |-> q.first, last |-> q.last, entry |-> q.entry]
  BY RngIs DEF Ranges
<1>4. QED
  BY <1>2, <1>3 DEF Stored

\* A round of the loop: the next range is copied too, or the copy is the tree.
LEMMA CopyRound ==
  ASSUME NEW t, Ranges(t), NEW copy, NEW c, Copying(t, copy, c)
  PROVE  LET f == mas_find(t, c, ULONG_MAX)
         IN  \/ f.entry = NULL /\ copy = t
             \/ f.entry # NULL /\ Copying(t, Stored(copy, f.index, f.last, f.entry), f)
<1> DEFINE f == mas_find(t, c, ULONG_MAX)
<1>1. \A r \in t : r.first \in Int /\ r.entry # NULL
  BY RngIs DEF Ranges
<1>2. ASSUME NEW q \in t, f = OnRange(q), copy \subseteq t, \A p \in copy : p.first < q.first,
             \A p \in t : p.first < q.first => p \in copy
      PROVE  f.entry # NULL /\ Copying(t, Stored(copy, f.index, f.last, f.entry), f)
  <2>1. f.index = q.first /\ f.last = q.last /\ f.entry = q.entry
    BY <1>2 DEF OnRange
  <2>2. Stored(copy, f.index, f.last, f.entry) = copy \cup {q}
    BY <1>2, <2>1, StoredBehind
  <2>3. copy \cup {q} = UpTo(t, q)
    <3>1. \A p \in t : p.first <= q.first => p \in copy \/ p = q
      <4> SUFFICES ASSUME NEW p \in t, p.first = q.first, p # q PROVE FALSE
        BY <1>1, <1>2
      <4>1. p \in Rng /\ q \in Rng /\ Apart(p, q) /\ p.first <= p.last /\ q.first <= q.last
        BY DEF Ranges
      <4>2. QED
        BY <4>1, RngIs DEF Apart
    <3>2. QED
      BY <1>1, <1>2, <3>1 DEF UpTo
  <2>4. QED
    BY <1>1, <1>2, <2>1, <2>2, <2>3 DEF Copying
<1>3. CASE c = Fresh /\ copy = {}
  <2>1. \/ f.entry = NULL /\ t = {}
        \/ \E q \in t : f = OnRange(q) /\ \A p \in t : q.first <= p.first
    BY <1>3, FindFirst
  <2> HIDE DEF f
  <2>2. CASE f.entry = NULL /\ t = {}
    BY <1>3, <2>2 DEF f
  <2>3. CASE \E q \in t : f = OnRange(q) /\ \A p \in t : q.first <= p.first
    <3>1. PICK q \in t : f = OnRange(q) /\ \A p \in t : q.first <= p.first
      BY <2>3
    <3>2. \A p \in t : ~ (p.first < q.first)
      BY <1>1, <3>1
    <3>3. QED
      BY <1>2, <1>3, <3>1, <3>2 DEF f
  <2>4. QED
    BY <2>1, <2>2, <2>3
<1>4. CASE \E r \in t : c = OnRange(r) /\ copy = UpTo(t, r)
  <2>0. PICK r \in t : c = OnRange(r) /\ copy = UpTo(t, r)
    BY <1>4
  <2>1. \/ f.entry = NULL /\ \A q \in t : q.first <= r.first
        \/ \E q \in t : f = OnRange(q) /\ q.first > r.first /\ \A p \in t : p.first > r.first => q.first <= p.first
    BY <2>0, FindBehind
  <2> HIDE DEF f
  <2>2. CASE f.entry = NULL /\ \A q \in t : q.first <= r.first
    BY <2>0, <2>2 DEF f, UpTo
  <2>3. CASE \E q \in t : f = OnRange(q) /\ q.first > r.first /\ \A p \in t : p.first > r.first => q.first <= p.first
    <3>1. PICK q \in t : f = OnRange(q) /\ q.first > r.first /\ \A p \in t : p.first > r.first => q.first <= p.first
      BY <2>3
    <3>2. copy \subseteq t /\ \A p \in copy : p.first < q.first
      BY <1>1, <2>0, <3>1 DEF UpTo
    <3>3. \A p \in t : p.first < q.first => p \in copy
      BY <1>1, <2>0, <3>1 DEF UpTo
    <3>4. QED
      BY <1>2, <3>1, <3>2, <3>3 DEF f
  <2>4. QED
    BY <2>1, <2>2, <2>3
<1>5. QED
  BY <1>3, <1>4 DEF Copying

-----------------------------------------------------------------------------
(* The test.                                                               *)

\* What the script says, of its calls and of what follows it.
LEMMA CallFacts ==
  ASSUME NEW s \in Nat \ {0}
  PROVE  LET c == CallAt(s)
         IN  /\ c.op \in {"insert", "store", "mas_store"} => c.a \in Nat /\ c.e \in Nat /\ c.b \in 0 .. ULONG_MAX
             /\ c.op = "mas_store" => c.a <= c.b
             /\ c.op \in {"alloc", "alloc_rev"} => {c.a, c.b} \subseteq 0 .. ULONG_MAX /\ c.e \in Nat \ {0}
             /\ c.op = "init" => c.e \in BOOLEAN
             /\ c.op = "fork" =>
                  /\ s > 1 /\ CallAt(s - 1).op = "loop" /\ c.b = ULONG_MAX
                  /\ \E m \in 1 .. s - 2 : CallAt(m) = MA_STATE[1] /\ \A k \in m + 1 .. s - 1 : CallAt(k).op \in KeepsMas
                  /\ \E m \in 1 .. s - 2 : CallAt(m).op = "init_new" /\ \A k \in m + 1 .. s - 1 : CallAt(k).op \in KeepsNewmt
             /\ c.op = "destroy_new" => s > 2 /\ CallAt(s - 1).op = "rcu_read_unlock" /\ CallAt(s - 2).op = "fork"
<1>1. CASE s <= Len(Script)
  <2>1. Len(Script) \in Nat /\ s \in 1 .. Len(Script) /\ \A k \in 1 .. s : CallAt(k) = Script[k]
    BY <1>1, ScriptAssumption DEF CallAt
  <2>2. ASSUME Script[s].op = "fork"
        PROVE  /\ s > 1 /\ CallAt(s - 1).op = "loop" /\ Script[s].b = ULONG_MAX
               /\ \E m \in 1 .. s - 2 : CallAt(m) = MA_STATE[1] /\ \A k \in m + 1 .. s - 1 : CallAt(k).op \in KeepsMas
               /\ \E m \in 1 .. s - 2 : CallAt(m).op = "init_new" /\ \A k \in m + 1 .. s - 1 : CallAt(k).op \in KeepsNewmt
    <3>1. ReadyToFork(s)
      BY <2>1, <2>2, ScriptAssumption
    <3>2. s > 1 /\ CallAt(s - 1).op = "loop" /\ Script[s].b = ULONG_MAX
      <4>1. s > 1 /\ Script[s - 1].op = "loop" /\ Script[s].b = ULONG_MAX
        BY <3>1 DEF ReadyToFork
      <4>2. QED
        BY <2>1, <4>1
    <3>3. PICK m \in 1 .. s - 2 : Script[m] = MA_STATE[1] /\ \A k \in m + 1 .. s - 1 : Script[k].op \in KeepsMas
      BY <3>1 DEF ReadyToFork
    <3>4. PICK j \in 1 .. s - 2 : Script[j].op = "init_new" /\ \A k \in j + 1 .. s - 1 : Script[k].op \in KeepsNewmt
      BY <3>1 DEF ReadyToFork
    <3>5. CallAt(m) = MA_STATE[1] /\ \A k \in m + 1 .. s - 1 : CallAt(k).op \in KeepsMas
      BY <2>1, <3>3
    <3>6. CallAt(j).op = "init_new" /\ \A k \in j + 1 .. s - 1 : CallAt(k).op \in KeepsNewmt
      BY <2>1, <3>4
    <3>7. QED
      BY <3>2, <3>5, <3>6
  <2>3. ASSUME Script[s].op = "destroy_new"
        PROVE  s > 2 /\ CallAt(s - 1).op = "rcu_read_unlock" /\ CallAt(s - 2).op = "fork"
    <3>1. s > 2 /\ Script[s - 1].op = "rcu_read_unlock" /\ Script[s - 2].op = "fork"
      BY <2>1, <2>3, ScriptAssumption
    <3>2. QED
      BY <2>1, <3>1
  <2>4. CallAt(s) = Script[s]
    BY <2>1
  <2>5. QED
    BY <2>1, <2>2, <2>3, <2>4, ScriptAssumption
<1>2. CASE ~ (s <= Len(Script))
  <2>1. CallAt(s).op = "end"
    BY <1>2 DEF CallAt, Do
  <2>2. QED
    BY <2>1
<1>3. QED
  BY <1>1, <1>2

Again == step' = step + 1
Same(c) == tree' = tree /\ newmt' = newmt /\ mas' = c
LoopOps == {"for_each", "pausing_for_each", "mt_for_each"}
TreeOps == {"insert", "store", "erase", "alloc", "alloc_rev", "init", "destroy"}

\* What a step does to the tree, the copy and the cursor, by its call.
LEMMA Effects ==
  ASSUME TestStep
  PROVE  \/ Again /\ Same(mas) /\ todo.op \notin {"fork", "init_new", "destroy_new", "set", "rcu_read_unlock"}
         \/ /\ Again /\ Same(mas') /\ todo.op \notin {"fork", "init_new", "destroy_new"} \cup KeepsMas
            /\ todo.op = "set" => mas' = mas_set_range(todo.a, todo.b)
         \/ Again /\ newmt' = newmt /\ mas' = mas /\ todo.op \in TreeOps
         \/ Again /\ newmt' = newmt /\ todo.op \in {"mas_store", "mas_erase"}
         \/ Again /\ newmt' = {} /\ tree' = tree /\ mas' = mas /\ todo.op \in {"init_new", "destroy_new"}
         \/ (Again \/ step' = step) /\ Same(mas') /\ todo.op \in LoopOps
         \/ MasFork
<1> USE DEF Again, Same, Is, Advance
<1>1. CASE CheckLoad \/ CheckOwnLoad \/ CheckEmpty \/ CheckHeight \/ CheckOn \/ CheckOnEither \/ CheckTimes \/ CheckAtMost \/ MtFind
  BY <1>1 DEF CheckLoad, CheckOwnLoad, CheckEmpty, CheckHeight, CheckOn, CheckOnEither, CheckTimes, CheckAtMost, MtFind, Look
<1>2. CASE RcuReadLock \/ MasLock \/ StartLoop
  BY <1>2 DEF RcuReadLock, MasLock, StartLoop
<1>3. CASE MasSet \/ MasReset \/ MasWalk \/ MasNext \/ MasPrev \/ MasFind \/ MasFindRev
  BY <1>3 DEF MasSet, MasReset, MasWalk, MasNext, MasPrev, MasFind, MasFindRev, Move, KeepsMas
<1>4. CASE MasEmptyAreaUp \/ MasEmptyAreaDown
  BY <1>4 DEF MasEmptyAreaUp, MasEmptyAreaDown, MasEmptyArea, KeepsMas
<1>5. CASE RcuReadUnlock \/ MasUnlock
  BY <1>5 DEF RcuReadUnlock, MasUnlock, KeepsMas
<1>6. CASE MtreeInsert \/ MtreeStore \/ MtreeErase \/ MtreeAlloc \/ MtreeAllocRev
  BY <1>6 DEF MtreeInsert, MtreeStore, MtreeErase, MtreeAlloc, MtreeAllocRev, TreeCall, TreeOps
<1>7. CASE MtInitFlags \/ MtreeDestroy
  BY <1>7 DEF MtInitFlags, MtreeDestroy, TreeOps
<1>8. CASE MasStoreGfp \/ MasErase
  BY <1>8 DEF MasStoreGfp, MasErase
<1>9. CASE NewTree
  BY <1>9 DEF NewTree
<1>10. CASE MasForEach \/ MasForEachPausing \/ MtForEachRound
  BY <1>10 DEF MasForEach, MasForEachPausing, MtForEachRound, Round, LoopOps
<1>11. QED
  BY <1>1, <1>2, <1>3, <1>4, <1>5, <1>6, <1>7, <1>8, <1>9, <1>10 DEF TestStep

\* The tree stays a map of disjoint ranges, whatever is called.
LEMMA TreeStep ==
  ASSUME Ranges(tree), step \in Nat \ {0}, todo = CallAt(step), TestStep
  PROVE  Ranges(tree')
<1> DEFINE a == todo.a
           b == todo.b
           e == todo.e
<1>0. /\ todo.op \in {"insert", "store", "mas_store"} => a \in Nat /\ e \in Nat /\ b \in 0 .. ULONG_MAX
      /\ todo.op = "mas_store" => a <= b
      /\ todo.op \in {"alloc", "alloc_rev"} => {a, b} \subseteq 0 .. ULONG_MAX /\ e \in Nat \ {0}
  BY CallFacts
<1> HIDE DEF a, b, e
<1>1. CASE tree' = tree
  <2>1. Ranges(tree') <=> Ranges(tree)
    BY <1>1 DEF Ranges
  <2>2. QED
    BY <2>1
<1>2. CASE tree' \subseteq tree
  BY <1>2 DEF Ranges
<1>3. ASSUME todo.op \in {"insert", "store", "mas_store"}, tree' = Stored(tree, a, b, e), a <= b
      PROVE  Ranges(tree')
  <2>1. Ranges(Stored(tree, a, b, e))
    BY <1>0, <1>3, StoredRanges
  <2>2. QED
    BY <1>3, <2>1
<1>4. ASSUME NEW m, todo.op \in {"alloc", "alloc_rev"}, m \in Nat, m + e - 1 <= b,
             tree' = Stored(tree, m, m + e - 1, Val(a))
      PROVE  Ranges(tree')
  <2>1. e \in Nat \ {0} /\ b \in 0 .. ULONG_MAX /\ m + e - 1 \in 0 .. ULONG_MAX /\ m <= m + e - 1
    BY <1>0, <1>4, ULongAssumption
  <2>2. Val(a) \in Nat
    <3>1. a \in Nat /\ LONG_MAX \in Nat
      BY <1>0, <1>4, ULongAssumption DEF LONG_MAX
    <3> HIDE DEF LONG_MAX
    <3>2. a % (LONG_MAX + 1) \in Nat
      BY <3>1
    <3>3. QED
      BY <3>2 DEF Val, xa_mk_value
  <2>3. Ranges(Stored(tree, m, m + e - 1, Val(a)))
    BY <1>4, <2>1, <2>2, StoredRanges
  <2>4. QED
    BY <1>4, <2>3
<1>5. CASE MtreeInsert
  BY <1>0, <1>1, <1>3, <1>5 DEF MtreeInsert, TreeCall, Is, mtree_insert_range, a, b, e
<1>6. CASE MtreeStore
  BY <1>0, <1>1, <1>3, <1>6 DEF MtreeStore, TreeCall, Is, mtree_store_range, a, b, e
<1>7. CASE MtreeErase
  BY <1>2, <1>7 DEF MtreeErase, TreeCall, mtree_erase
<1>8. CASE MtreeAlloc
  <2> DEFINE X == LowStarts(tree, a, b, e)
  <2>1. todo.op = "alloc" /\ tree' = Answer(mtree_alloc(tree, alloc, X, Min, e, Val(a))).tree
    BY <1>8 DEF MtreeAlloc, TreeCall, Is, a, b, e
  <2>2. CASE ~ alloc \/ X = {}
    BY <1>1, <2>1, <2>2 DEF mtree_alloc, Answer
  <2>3. CASE alloc /\ X # {}
    <3>1. tree' = Stored(tree, Min(X), Min(X) + e - 1, Val(a))
      BY <2>1, <2>3 DEF mtree_alloc, Answer
    <3>2. \A i \in X : i \in Nat /\ i + e - 1 <= b
      <4>1. \A r \in tree : r.last + 1 \in Int
        BY RngIs DEF Ranges
      <4>2. QED
        BY <1>0, <2>1, <4>1 DEF LowStarts
    <3> HIDE DEF X
    <3>3. Min(X) \in X
      <4>1. \E n \in X : \A k \in X : n <= k
        BY <2>3, <3>2, LeastOf
      <4>2. QED
        BY <4>1 DEF Min
    <3>4. QED
      BY <1>4, <2>1, <3>1, <3>2, <3>3
  <2>4. QED
    BY <2>2, <2>3
<1>9. CASE MtreeAllocRev
  <2> DEFINE X == HighStarts(tree, a, b, e)
  <2>1. todo.op = "alloc_rev" /\ tree' = Answer(mtree_alloc(tree, alloc, X, Max, e, Val(a))).tree
    BY <1>9 DEF MtreeAllocRev, TreeCall, Is, a, b, e
  <2>2. CASE ~ alloc \/ X = {}
    BY <1>1, <2>1, <2>2 DEF mtree_alloc, Answer
  <2>3. CASE alloc /\ X # {}
    <3>1. tree' = Stored(tree, Max(X), Max(X) + e - 1, Val(a))
      BY <2>1, <2>3 DEF mtree_alloc, Answer
    <3>2. b \in Nat /\ \A i \in X : i \in 0 .. b /\ i + e - 1 <= b
      <4>1. \A r \in tree : r.first \in Int
        BY RngIs DEF Ranges
      <4>2. QED
        BY <1>0, <2>1, <4>1, ULongAssumption DEF HighStarts
    <3> HIDE DEF X
    <3>3. Max(X) \in X
      <4>1. \E n \in X : \A k \in X : k <= n
        BY <2>3, <3>2, GreatestOf
      <4>2. \E n \in X : \A k \in X : n >= k
        BY <3>2, <4>1
      <4>3. QED
        BY <4>2 DEF Max
    <3>4. QED
      BY <1>4, <2>1, <3>1, <3>2, <3>3
  <2>4. QED
    BY <2>2, <2>3
<1>10. CASE MtInitFlags \/ MtreeDestroy
  BY <1>10 DEF MtInitFlags, MtreeDestroy, Ranges
<1>11. CASE MasStoreGfp
  BY <1>0, <1>3, <1>11 DEF MasStoreGfp, Is, a, b, e
<1>12. CASE MasErase
  BY <1>2, <1>12 DEF MasErase
<1>13. CASE \/ CheckLoad \/ CheckOwnLoad \/ CheckEmpty \/ CheckHeight \/ CheckOn \/ CheckOnEither \/ CheckTimes \/ CheckAtMost
            \/ MtFind \/ RcuReadLock \/ MasLock \/ StartLoop \/ RcuReadUnlock \/ MasUnlock \/ NewTree
  BY <1>1, <1>13 DEF CheckLoad, CheckOwnLoad, CheckEmpty, CheckHeight, CheckOn, CheckOnEither, CheckTimes, CheckAtMost, MtFind,
                     Look, RcuReadLock, MasLock, StartLoop, RcuReadUnlock, MasUnlock, NewTree
<1>14. CASE \/ MasSet \/ MasReset \/ MasWalk \/ MasNext \/ MasPrev \/ MasFind \/ MasFindRev
            \/ MasEmptyAreaUp \/ MasEmptyAreaDown
  BY <1>1, <1>14 DEF MasSet, MasReset, MasWalk, MasNext, MasPrev, MasFind, MasFindRev, Move,
                     MasEmptyAreaUp, MasEmptyAreaDown, MasEmptyArea
<1>15. CASE MasForEach \/ MasForEachPausing \/ MtForEachRound \/ MasFork
  BY <1>1, <1>15 DEF MasForEach, MasForEachPausing, MtForEachRound, MasFork
<1>16. QED
  BY <1>5, <1>6, <1>7, <1>8, <1>9, <1>10, <1>11, <1>12, <1>13, <1>14, <1>15 DEF TestStep

\* Behind MA_STATE the cursor stays at 0, and a new copy stays empty, as long as no call touches them.
FreshUntilUsed ==
  /\ \A m \in 1 .. step - 1 :
       CallAt(m) = MA_STATE[1] /\ (\A k \in m + 1 .. step : CallAt(k).op \in KeepsMas) => mas = Fresh
  /\ \A m \in 1 .. step - 1 :
       CallAt(m).op = "init_new" /\ (\A k \in m + 1 .. step : CallAt(k).op \in KeepsNewmt) => newmt = {}

\* A copying loop is under way, or was the last call but for an unlock.
CopyInv ==
  /\ todo.op = "fork" => Copying(tree, newmt, mas)
  /\ step > 1 /\ CallAt(step - 1).op = "fork" => newmt = tree
  /\ step > 2 /\ CallAt(step - 2).op = "fork" /\ CallAt(step - 1).op = "rcu_read_unlock" => newmt = tree

MtInv ==
  /\ step \in Nat \ {0} /\ todo = CallAt(step)
  /\ Ranges(tree) /\ Ranges(newmt)
  /\ FreshUntilUsed /\ CopyInv

LEMMA MtStarts == MtInit => MtInv
<1> SUFFICES ASSUME MtInit PROVE MtInv
  OBVIOUS
<1>1. step = 1 /\ todo = CallAt(1) /\ tree = {} /\ newmt = {}
  BY DEF MtInit
<1>2. todo.op # "fork"
  BY <1>1, CallFacts
<1>3. QED
  BY <1>1, <1>2 DEF MtInv, Ranges, FreshUntilUsed, CopyInv

LEMMA StaysFresh ==
  ASSUME MtInv, TestStep
  PROVE  FreshUntilUsed'
<1>1. step \in Nat \ {0} /\ todo = CallAt(step) /\ FreshUntilUsed
  BY DEF MtInv
<1>2. CASE Again
  <2>1. step' = step + 1 /\ step' - 1 = step
    BY <1>1, <1>2 DEF Again
  <2>2. ASSUME NEW m \in 1 .. step, CallAt(m) = MA_STATE[1], \A k \in m + 1 .. step + 1 : CallAt(k).op \in KeepsMas
        PROVE  mas' = Fresh
    <3>1. CASE m = step
      <4>1. todo.op = "set" /\ todo.a = 0 /\ todo.b = 0
        BY <1>1, <2>2, <3>1 DEF MA_STATE, Set, Do
      <4>2. MA_STATE[1].op # "fork" => mas' = mas_set_range(todo.a, todo.b)
        BY <4>1, Effects DEF MasFork, Is, TreeOps, LoopOps
      <4>3. QED
        BY <4>1, <4>2, <2>2, <3>1, <1>1 DEF Fresh
    <3>2. CASE m < step
      <4>1. todo.op \in KeepsMas /\ \A k \in m + 1 .. step : CallAt(k).op \in KeepsMas
        BY <1>1, <2>2, <3>2
      <4>2. mas = Fresh
        BY <1>1, <2>2, <3>2, <4>1 DEF FreshUntilUsed
      <4>3. mas' = mas
        BY <4>1, Effects DEF MasFork, Is, TreeOps, LoopOps, KeepsMas, Same
      <4>4. QED
        BY <4>2, <4>3
    <3>3. QED
      BY <1>1, <2>2, <3>1, <3>2
  <2>3. ASSUME NEW m \in 1 .. step, CallAt(m).op = "init_new", \A k \in m + 1 .. step + 1 : CallAt(k).op \in KeepsNewmt
        PROVE  newmt' = {}
    <3>1. CASE m = step
      BY <1>1, <2>3, <3>1, Effects DEF MasFork, Is, TreeOps, LoopOps, KeepsMas
    <3>2. CASE m < step
      <4>1. todo.op \in KeepsNewmt /\ \A k \in m + 1 .. step : CallAt(k).op \in KeepsNewmt
        BY <1>1, <2>3, <3>2
      <4>2. newmt = {}
        BY <1>1, <2>3, <3>2, <4>1 DEF FreshUntilUsed
      <4>3. newmt' = newmt
        BY <4>1, Effects DEF MasFork, Is, KeepsNewmt, Same
      <4>4. QED
        BY <4>2, <4>3
    <3>3. QED
      BY <1>1, <2>3, <3>1, <3>2
  <2>4. QED
    BY <2>1, <2>2, <2>3 DEF FreshUntilUsed, CallAt
<1>3. CASE step' = step
  <2>1. todo.op \notin KeepsMas \cup KeepsNewmt
    <3>1. ~ Again
      BY <1>1, <1>3 DEF Again
    <3>2. QED
      BY <3>1, Effects DEF MasFork, Is, LoopOps, KeepsMas, KeepsNewmt
  <2>2. \A m \in 1 .. step - 1 : step \in m + 1 .. step
    BY <1>1
  <2>3. QED
    BY <1>1, <1>3, <2>1, <2>2 DEF FreshUntilUsed, CallAt
<1>4. QED
  BY <1>2, <1>3, Effects DEF MasFork, Round, Advance, Again

\* A round of the copying loop.
LEMMA ForkStep ==
  ASSUME MtInv, MasFork
  PROVE  /\ tree' = tree
         /\ \/ Again /\ newmt' = tree
            \/ step' = step /\ Copying(tree, newmt', mas')
<1> DEFINE f == mas_find(tree, mas, ULONG_MAX)
<1>1. todo.op = "fork" /\ Ranges(tree) /\ Copying(tree, newmt, mas) /\ todo.b = ULONG_MAX
  <2>1. todo.op = "fork"
    BY DEF MasFork, Is
  <2>2. QED
    BY <2>1, CallFacts DEF MtInv, CopyInv
<1>2. \/ f.entry = NULL /\ newmt = tree
      \/ f.entry # NULL /\ Copying(tree, Stored(newmt, f.index, f.last, f.entry), f)
  BY <1>1, CopyRound
<1>3. /\ mas' = f /\ tree' = tree
      /\ newmt' = IF f.entry = NULL THEN newmt ELSE Stored(newmt, f.index, f.last, f.entry)
      /\ IF f.entry = NULL THEN Again ELSE step' = step
  BY <1>1 DEF MasFork, Round, Advance, Again
<1>4. QED
  BY <1>2, <1>3

LEMMA CopyStep ==
  ASSUME MtInv, MtNext
  PROVE  CopyInv' /\ Ranges(newmt')
<1>1. TestStep /\ todo' = CallAt(step') /\ step \in Nat \ {0} /\ todo = CallAt(step) /\ CopyInv /\ Ranges(newmt)
      /\ Ranges(tree)
  BY DEF MtNext, MtInv, Fetch
<1>2. CASE MasFork
  <2>1. /\ todo.op = "fork" /\ tree' = tree
        /\ \/ Again /\ newmt' = tree
           \/ step' = step /\ Copying(tree, newmt', mas')
    BY <1>2, ForkStep DEF MasFork, Is
  <2>2. step > 1 /\ CallAt(step - 1).op = "loop"
    BY <1>1, <2>1, CallFacts
  <2>3. CASE Again /\ newmt' = tree
    <3>1. step' = step + 1 /\ step' - 1 = step /\ step' - 2 = step - 1
      BY <1>1, <2>3 DEF Again
    <3>2. todo'.op # "fork"
      <4>1. step + 1 \in Nat \ {0} /\ (step + 1) - 1 = step
        BY <1>1
      <4>2. CallAt(step + 1).op = "fork" => CallAt(step).op = "loop"
        BY <4>1, CallFacts
      <4>3. QED
        BY <1>1, <2>1, <3>1, <4>2
    <3>3. QED
      BY <1>1, <2>1, <2>2, <2>3, <3>1, <3>2 DEF CopyInv, CallAt
  <2>4. CASE step' = step /\ Copying(tree, newmt', mas')
    <3>1. newmt' \subseteq tree
      BY <2>4 DEF Copying, UpTo
    <3>2. Ranges(newmt')
      BY <1>1, <3>1 DEF Ranges
    <3>3. Copying(tree', newmt', mas')
      BY <2>1, <2>4
    <3>4. CallAt(step' - 1).op = "loop"
      BY <2>2, <2>4
    <3>5. QED
      BY <3>2, <3>3, <3>4 DEF CopyInv, CallAt
  <2>5. QED
    BY <2>1, <2>3, <2>4
<1>3. CASE ~ MasFork /\ step' = step
  <2>1. todo.op \in LoopOps /\ tree' = tree /\ newmt' = newmt
    <3>1. ~ Again
      BY <1>1, <1>3 DEF Again
    <3>2. QED
      BY <1>1, <1>3, <3>1, Effects DEF Same
  <2>2. todo'.op # "fork"
    BY <1>1, <1>3, <2>1 DEF LoopOps
  <2>3. QED
    BY <1>1, <1>3, <2>1, <2>2 DEF CopyInv, CallAt, Ranges
<1>4. CASE ~ MasFork /\ Again
  <2>1. step' = step + 1 /\ step' - 1 = step /\ step' - 2 = step - 1
    BY <1>1, <1>4 DEF Again
  <2>2. todo.op # "fork"
    BY <1>1, <1>4, Effects DEF LoopOps, TreeOps
  <2>3. todo'.op = "fork" => Copying(tree', newmt', mas')
    <3> SUFFICES ASSUME todo'.op = "fork" PROVE Copying(tree', newmt', mas')
      OBVIOUS
    <3>1. step + 1 \in Nat \ {0} /\ CallAt(step + 1).op = "fork" /\ (step + 1) - 1 = step /\ (step + 1) - 2 = step - 1
      BY <1>1, <2>1
    <3>2. /\ CallAt(step).op = "loop"
          /\ \E m \in 1 .. step - 1 : CallAt(m) = MA_STATE[1] /\ \A k \in m + 1 .. step : CallAt(k).op \in KeepsMas
          /\ \E m \in 1 .. step - 1 : CallAt(m).op = "init_new" /\ \A k \in m + 1 .. step : CallAt(k).op \in KeepsNewmt
      BY <3>1, CallFacts
    <3>3. mas = Fresh /\ newmt = {}
      BY <3>2 DEF MtInv, FreshUntilUsed
    <3>4. mas' = mas /\ newmt' = newmt
      BY <1>1, <3>2, Effects DEF Same, TreeOps, LoopOps, KeepsMas, MasFork, Is
    <3>5. QED
      BY <3>3, <3>4 DEF Copying
  <2>4. step > 1 /\ CallAt(step - 1).op = "fork" /\ todo.op = "rcu_read_unlock" => newmt' = tree'
    BY <1>1, Effects DEF Same, TreeOps, LoopOps, KeepsMas, MasFork, Is, CopyInv
  <2>5. CopyInv'
    BY <1>1, <2>1, <2>2, <2>3, <2>4 DEF CopyInv, CallAt
  <2>6. newmt' = newmt \/ newmt' = {}
    BY <1>1, <1>4, Effects DEF Same
  <2>7. QED
    BY <1>1, <2>5, <2>6 DEF Ranges
<1>5. QED
  BY <1>1, <1>2, <1>3, <1>4, Effects

LEMMA MtGoesOn ==
  ASSUME MtInv, MtNext
  PROVE  MtInv'
<1>1. TestStep /\ step \in Nat \ {0} /\ todo = CallAt(step) /\ Ranges(tree)
  BY DEF MtNext, MtInv
<1>2. step' \in Nat \ {0}
  <2>1. step' = step \/ step' = step + 1
    BY <1>1, Effects DEF Again, MasFork, Round, Advance
  <2>2. QED
    BY <1>1, <2>1
<1>3. todo' = CallAt(step')
  BY <1>1 DEF MtNext, Fetch
<1>4. Ranges(tree')
  BY <1>1, TreeStep
<1>5. FreshUntilUsed' /\ CopyInv' /\ Ranges(newmt')
  BY <1>1, StaysFresh, CopyStep
<1>6. QED
  BY <1>2, <1>3, <1>4, <1>5 DEF MtInv, CallAt, Ranges

LEMMA MtAlways == MCSpec => []MtInv
<1>1. MCInit => MtInv
  BY MtStarts DEF MCInit
<1>2. MtInv /\ [MCNext]_MCVars => MtInv'
  <2> SUFFICES ASSUME MtInv, [MCNext]_MCVars PROVE MtInv'
    OBVIOUS
  <2>1. CASE OnMaple
    BY <2>1, MtGoesOn DEF OnMaple
  <2>2. CASE UNCHANGED vars
    BY <2>2 DEF vars, MtInv, FreshUntilUsed, CopyInv, CallAt, Ranges, Copying
  <2>3. QED
    BY <2>1, <2>2 DEF MCNext, MCVars, OnGenl, OnNetlink, OnNetmon, OnRoute, OnPci, OnMyCharDev, OnRbTree
<1>3. QED
  BY <1>1, <1>2, PTL DEF MCSpec

\* What a test has copied, range by range through a cursor, is the whole tree
\* when it drops the copy (mt_tree.c's check_forking and check_mas_store_gfp).
THEOREM CopyIsComplete == MCSpec => []CopyIsTheTree
<1>1. MtInv => CopyIsTheTree
  <2> SUFFICES ASSUME MtInv, todo.op = "destroy_new" PROVE newmt = tree
    BY DEF CopyIsTheTree, Is
  <2>1. step \in Nat \ {0} /\ todo = CallAt(step) /\ CopyInv
    BY DEF MtInv
  <2>2. step > 2 /\ CallAt(step - 1).op = "rcu_read_unlock" /\ CallAt(step - 2).op = "fork"
    BY <2>1, CallFacts
  <2>3. QED
    BY <2>1, <2>2 DEF CopyInv
<1>2. QED
  BY <1>1, MtAlways, PTL
-----------------------------------------------------------------------------
(* The locks.                                                              *)

\* The script takes and drops the locks as its calls need.
LEMMA LockFacts ==
  ASSUME NEW s \in Nat \ {0}
  PROVE  LET op == CallAt(s).op
         IN  /\ op \in MovesMas => (RcuAt(s) \/ LockAt(s)) /\ ~ LetGoAt(s)
             /\ op \in {"mas_store", "mas_erase"} => LockAt(s)
             /\ op \in TakesLock => ~ LockAt(s)
<1>1. CASE s <= Len(Script)
  <2>1. s \in 1 .. Len(Script) /\ CallAt(s) = Script[s]
    BY <1>1, ScriptAssumption DEF CallAt
  <2>2. QED
    BY <2>1, ScriptAssumption
<1>2. CASE ~ (s <= Len(Script))
  <2>1. CallAt(s).op = "end"
    BY <1>2 DEF CallAt, Do
  <2>2. QED
    BY <2>1 DEF MovesMas, TakesLock
<1>3. QED
  BY <1>1, <1>2

\* A lock held at a call is held at the next unless the call drops it, or is taken by the call.
LEMMA HeldNext ==
  ASSUME NEW s \in Nat \ {0}, NEW take, NEW drop
  PROVE  HeldAt(s + 1, take, drop) <=> CallAt(s).op = take \/ (HeldAt(s, take, drop) /\ CallAt(s).op # drop)
<1>0. (s + 1) - 1 = s
  OBVIOUS
<1>1. ASSUME HeldAt(s + 1, take, drop), CallAt(s).op # take
      PROVE  HeldAt(s, take, drop) /\ CallAt(s).op # drop
  <2>1. PICK m \in 1 .. s : CallAt(m).op = take /\ \A k \in m + 1 .. s : CallAt(k).op # drop
    BY <1>0, <1>1 DEF HeldAt
  <2>2. m \in 1 .. s - 1 /\ s \in m + 1 .. s /\ \A k \in m + 1 .. s - 1 : k \in m + 1 .. s
    BY <1>1, <2>1
  <2>3. QED
    BY <2>1, <2>2 DEF HeldAt
<1>2. CASE CallAt(s).op = take
  <2>1. s \in 1 .. s /\ s + 1 .. s = {}
    OBVIOUS
  <2>2. QED
    BY <1>0, <1>2, <2>1 DEF HeldAt
<1>3. ASSUME HeldAt(s, take, drop), CallAt(s).op # drop
      PROVE  HeldAt(s + 1, take, drop)
  <2>1. PICK m \in 1 .. s - 1 : CallAt(m).op = take /\ \A k \in m + 1 .. s - 1 : CallAt(k).op # drop
    BY <1>3 DEF HeldAt
  <2>2. m \in 1 .. s /\ \A k \in m + 1 .. s : CallAt(k).op # drop
    BY <1>3, <2>1
  <2>3. QED
    BY <1>0, <2>1, <2>2 DEF HeldAt
<1>4. QED
  BY <1>1, <1>2, <1>3

LEMMA LetGoNext ==
  ASSUME NEW s \in Nat \ {0},
         CallAt(s).op \in Unlocks \/ (LetGoAt(s) /\ CallAt(s).op \notin SetsMas)
  PROVE  LetGoAt(s + 1)
<1>0. (s + 1) - 1 = s
  OBVIOUS
<1>1. CASE CallAt(s).op \in Unlocks
  <2>1. s \in 1 .. s /\ s + 1 .. s = {}
    OBVIOUS
  <2>2. QED
    BY <1>0, <1>1, <2>1 DEF LetGoAt
<1>2. CASE LetGoAt(s) /\ CallAt(s).op \notin SetsMas
  <2>1. PICK u \in 1 .. s - 1 : CallAt(u).op \in Unlocks /\ \A k \in u + 1 .. s - 1 : CallAt(k).op \notin SetsMas
    BY <1>2 DEF LetGoAt
  <2>2. u \in 1 .. s /\ \A k \in u + 1 .. s : CallAt(k).op \notin SetsMas
    BY <1>2, <2>1
  <2>3. QED
    BY <1>0, <2>1, <2>2 DEF LetGoAt
<1>3. QED
  BY <1>1, <1>2

\* A record with a cursor's fields, and one that does not rest on freed nodes.
MaState(c) == c = [index |-> c.index, last |-> c.last, node |-> c.node, entry |-> c.entry]
Sound(c) == MaState(c) /\ c.node # "stale"

\* Whatever moves a cursor leaves it on nodes of its tree, or off them.
LEMMA SoundMoves ==
  ASSUME NEW t, NEW c, NEW i
  PROVE  /\ Sound(mas_walk(t, c)) /\ Sound(mas_next(t, c, i)) /\ Sound(mas_prev(t, c, i))
         /\ Sound(mas_find(t, c, i)) /\ Sound(mas_find_rev(t, c, i))
<1>1. \A r : Sound(OnRange(r)) /\ Sound(OffTheEnd(r))
  BY DEF Sound, MaState, OnRange, OffTheEnd
<1>2. \A d : Sound(mas_walk(t, d))
  BY <1>1 DEF mas_walk, Sound, MaState
<1>3. \A d : Sound(mas_next(t, d, i)) /\ Sound(mas_prev(t, d, i))
  BY <1>1 DEF mas_next, mas_prev
<1>4. Sound(mas_find(t, c, i))
  <2> DEFINE from == IF c.node = "pause" /\ c.last < ULONG_MAX
                     THEN mas_set_range(c.last + 1, c.last + 1) ELSE c
             here == mas_walk(t, from)
  <2>1. Sound(here) /\ Sound(mas_next(t, here, i)) /\ Sound(mas_next(t, c, i)) /\ Sound(OffTheEnd(i))
    BY <1>1, <1>2, <1>3
  <2>2. mas_find(t, c, i) \in {here, mas_next(t, here, i), mas_next(t, c, i), OffTheEnd(i)}
    BY DEF mas_find
  <2> HIDE DEF here
  <2>3. QED
    BY <2>1, <2>2
<1>5. QED
  BY <1>2, <1>3, <1>4 DEF mas_find_rev

\* What a step does to the locks and to the cursor's place, by its call.
LEMMA LockEffects ==
  ASSUME TestStep, MaState(mas)
  PROVE  /\ MaState(mas')
         /\ lock' = (IF todo.op = "mas_lock" THEN TRUE ELSE IF todo.op = "mas_unlock" THEN FALSE ELSE lock)
         /\ rcu' = (IF todo.op = "rcu_read_lock" THEN TRUE ELSE IF todo.op = "rcu_read_unlock" THEN FALSE ELSE rcu)
         /\ mas'.node = "stale" => todo.op \in Unlocks \/ (mas.node = "stale" /\ todo.op \notin SetsMas)
         /\ Again \/ (step' = step /\ todo.op \in MovesMas \cup LoopOps)
<1> DEFINE locks == {"mas_lock", "mas_unlock", "rcu_read_lock", "rcu_read_unlock"}
           Rest == Again \/ (step' = step /\ todo.op \in MovesMas \cup LoopOps)
           Quiet == rcu' = rcu /\ lock' = lock /\ todo.op \notin locks /\ Rest
<1>1. ASSUME Quiet, Sound(mas') \/ (mas' = mas /\ todo.op \notin SetsMas)
      PROVE  /\ MaState(mas')
             /\ lock' = (IF todo.op = "mas_lock" THEN TRUE ELSE IF todo.op = "mas_unlock" THEN FALSE ELSE lock)
             /\ rcu' = (IF todo.op = "rcu_read_lock" THEN TRUE ELSE IF todo.op = "rcu_read_unlock" THEN FALSE ELSE rcu)
             /\ mas'.node = "stale" => todo.op \in Unlocks \/ (mas.node = "stale" /\ todo.op \notin SetsMas)
             /\ Rest
  BY <1>1 DEF Sound
<1> USE DEF Is, Advance, Again
<1>2. CASE CheckLoad \/ CheckOwnLoad \/ CheckEmpty \/ CheckHeight \/ CheckOn \/ CheckOnEither \/ CheckTimes \/ CheckAtMost \/ MtFind
  BY <1>1, <1>2 DEF CheckLoad, CheckOwnLoad, CheckEmpty, CheckHeight, CheckOn, CheckOnEither, CheckTimes, CheckAtMost, MtFind, Look,
                    SetsMas
<1>3. CASE MtreeInsert \/ MtreeStore \/ MtreeErase \/ MtreeAlloc \/ MtreeAllocRev
  BY <1>1, <1>3 DEF MtreeInsert, MtreeStore, MtreeErase, MtreeAlloc, MtreeAllocRev, TreeCall, SetsMas
<1>4. CASE MtInitFlags \/ MtreeDestroy \/ StartLoop \/ NewTree \/ MtForEachRound
  BY <1>1, <1>4 DEF MtInitFlags, MtreeDestroy, StartLoop, NewTree, MtForEachRound, Round, SetsMas, LoopOps
<1>5. CASE MasSet \/ MasReset
  <2>1. todo.op \in {"set", "reset"} /\ Again /\ rcu' = rcu /\ lock' = lock
    BY <1>5 DEF MasSet, MasReset, Move
  <2>2. mas' \in {mas_set_range(todo.a, todo.b), mas_reset(mas)}
    BY <1>5 DEF MasSet, MasReset, Move
  <2>3. Sound(mas_set_range(todo.a, todo.b)) /\ Sound(mas_reset(mas))
    BY DEF mas_set_range, mas_reset, MaState, Sound
  <2>4. QED
    BY <1>1, <2>1, <2>2, <2>3
<1>6. CASE MasWalk \/ MasNext \/ MasPrev \/ MasFind \/ MasFindRev
  BY <1>1, <1>6, SoundMoves DEF MasWalk, MasNext, MasPrev, MasFind, MasFindRev, Move
<1>7. CASE MasEmptyAreaUp \/ MasEmptyAreaDown
  BY <1>1, <1>7 DEF MasEmptyAreaUp, MasEmptyAreaDown, MasEmptyArea, MaState, Sound
<1>8. CASE MasStoreGfp
  BY <1>1, <1>8 DEF MasStoreGfp, MaState, Sound
<1>9. CASE MasErase
  BY <1>1, <1>9, SoundMoves DEF MasErase
<1>10. CASE MasForEach \/ MasFork
  BY <1>1, <1>10, SoundMoves DEF MasForEach, MasFork, Round, MovesMas
<1>11. CASE MasForEachPausing
  <2> DEFINE found == mas_find(tree, mas, todo.b)
  <2>1. Sound(found)
    BY SoundMoves
  <2>2. /\ rcu' = rcu /\ lock' = lock /\ todo.op = "pausing_for_each" /\ Rest
        /\ mas' \in {found, mas_pause(found), Released(mas_pause(found))}
    BY <1>11 DEF MasForEachPausing, Round, MovesMas
  <2> HIDE DEF found
  <2>3. mas_pause(found) = [index |-> found.index, last |-> found.last, node |-> "pause", entry |-> found.entry]
    BY <2>1 DEF mas_pause, Sound, MaState
  <2>4. Released(mas_pause(found)) = mas_pause(found)
    BY <2>3 DEF Released
  <2>5. Sound(mas')
    BY <2>1, <2>2, <2>3, <2>4 DEF Sound, MaState
  <2>6. QED
    BY <1>1, <2>2, <2>5
<1>12. CASE RcuReadLock \/ MasLock
  BY <1>12 DEF RcuReadLock, MasLock, SetsMas
<1>13. CASE RcuReadUnlock \/ MasUnlock
  BY <1>13 DEF RcuReadUnlock, MasUnlock, Released, MaState, Unlocks
<1>14. QED
  BY <1>2, <1>3, <1>4, <1>5, <1>6, <1>7, <1>8, <1>9, <1>10, <1>11, <1>12, <1>13 DEF TestStep

\* The locks are held where the script says so, and a cursor is stale only
\* behind an unlock that none has set it anew since.
LockInv ==
  /\ step \in Nat \ {0} /\ todo = CallAt(step) /\ MaState(mas)
  /\ rcu = RcuAt(step) /\ lock = LockAt(step)
  /\ mas.node = "stale" => LetGoAt(step)

LEMMA LockStarts == MtInit => LockInv
<1> SUFFICES ASSUME MtInit PROVE LockInv
  OBVIOUS
<1>1. RcuAt(1) = FALSE /\ LockAt(1) = FALSE
  BY DEF RcuAt, LockAt, HeldAt
<1>2. MaState(mas) /\ mas.node # "stale"
  BY DEF MtInit, mas_set_range, MaState
<1>3. step = 1 /\ todo = CallAt(step) /\ rcu = FALSE /\ lock = FALSE
  BY DEF MtInit
<1>4. rcu = RcuAt(step) /\ lock = LockAt(step)
  BY <1>1, <1>3, Zenon
<1>5. QED
  BY <1>2, <1>3, <1>4 DEF LockInv

LEMMA LockGoesOn ==
  ASSUME LockInv, MtNext
  PROVE  LockInv'
<1>1. TestStep /\ todo' = CallAt(step') /\ step \in Nat \ {0} /\ todo = CallAt(step) /\ MaState(mas)
  BY DEF MtNext, Fetch, LockInv
<1>2. /\ MaState(mas')
      /\ lock' = (IF todo.op = "mas_lock" THEN TRUE ELSE IF todo.op = "mas_unlock" THEN FALSE ELSE lock)
      /\ rcu' = (IF todo.op = "rcu_read_lock" THEN TRUE ELSE IF todo.op = "rcu_read_unlock" THEN FALSE ELSE rcu)
      /\ mas'.node = "stale" => todo.op \in Unlocks \/ (mas.node = "stale" /\ todo.op \notin SetsMas)
      /\ Again \/ (step' = step /\ todo.op \in MovesMas \cup LoopOps)
  BY <1>1, LockEffects
<1>3. CASE Again
  <2>1. step' = step + 1 /\ step' \in Nat \ {0}
    BY <1>1, <1>3 DEF Again
  <2>2. /\ RcuAt(step + 1) <=> todo.op = "rcu_read_lock" \/ (RcuAt(step) /\ todo.op # "rcu_read_unlock")
        /\ LockAt(step + 1) <=> todo.op = "mas_lock" \/ (LockAt(step) /\ todo.op # "mas_unlock")
    BY <1>1, HeldNext DEF RcuAt, LockAt
  <2>3. todo.op \in Unlocks \/ (LetGoAt(step) /\ todo.op \notin SetsMas) => LetGoAt(step + 1)
    BY <1>1, LetGoNext
  <2>4. RcuAt(step)' = RcuAt(step + 1) /\ LockAt(step)' = LockAt(step + 1) /\ LetGoAt(step)' = LetGoAt(step + 1)
    BY <2>1 DEF RcuAt, LockAt, LetGoAt, HeldAt, CallAt
  <2>5. rcu' = RcuAt(step + 1) /\ lock' = LockAt(step + 1)
    BY <1>2, <2>2 DEF LockInv, RcuAt, LockAt, HeldAt
  <2>6. mas'.node = "stale" => LetGoAt(step + 1)
    BY <1>2, <2>3 DEF LockInv
  <2>7. QED
    BY <1>1, <1>2, <2>1, <2>4, <2>5, <2>6 DEF LockInv, CallAt
<1>4. CASE step' = step /\ todo.op \in MovesMas \cup LoopOps
  <2>1. todo.op \notin {"mas_lock", "mas_unlock", "rcu_read_lock", "rcu_read_unlock"} \cup Unlocks
    BY <1>4 DEF MovesMas, LoopOps, Unlocks
  <2>2. RcuAt(step)' = RcuAt(step) /\ LockAt(step)' = LockAt(step) /\ LetGoAt(step)' = LetGoAt(step)
    BY <1>4 DEF RcuAt, LockAt, LetGoAt, HeldAt, CallAt
  <2>3. QED
    BY <1>1, <1>2, <1>4, <2>1, <2>2 DEF LockInv, CallAt
<1>5. QED
  BY <1>2, <1>3, <1>4

\* Wherever the test moves a cursor it is inside rcu_read_lock or holds the
\* tree's spinlock, and the cursor does not rest where it did before an unlock;
\* and nothing that takes the spinlock is called while it is held.
THEOREM CursorIsGuarded == MCSpec => []CursorNeverStale
<1>1. MCInit => LockInv
  BY LockStarts DEF MCInit
<1>2. LockInv /\ [MCNext]_MCVars => LockInv'
  <2> SUFFICES ASSUME LockInv, [MCNext]_MCVars PROVE LockInv'
    OBVIOUS
  <2>1. CASE OnMaple
    BY <2>1, LockGoesOn DEF OnMaple
  <2>2. CASE UNCHANGED vars
    BY <2>2 DEF vars, LockInv, RcuAt, LockAt, LetGoAt, HeldAt, CallAt, MaState
  <2>3. QED
    BY <2>1, <2>2 DEF MCNext, MCVars, OnGenl, OnNetlink, OnNetmon, OnRoute, OnPci, OnMyCharDev, OnRbTree
<1>3. LockInv => CursorNeverStale
  <2> SUFFICES ASSUME LockInv PROVE CursorNeverStale
    OBVIOUS
  <2>1. /\ todo.op \in MovesMas => (RcuAt(step) \/ LockAt(step)) /\ ~ LetGoAt(step)
        /\ todo.op \in {"mas_store", "mas_erase"} => LockAt(step)
        /\ todo.op \in TakesLock => ~ LockAt(step)
    BY LockFacts DEF LockInv
  <2>2. QED
    BY <2>1 DEF LockInv, CursorNeverStale
<1>4. QED
  BY <1>1, <1>2, <1>3, PTL DEF MCSpec
==============================================================================
