-------------------------------- MODULE MtTree --------------------------------
(* mt_tree.c: a module whose insertion walks a maple tree through a long test *)
(* and fails unless every MT_BUG_ON held.  Script is that test, in the order  *)
(* of maple_tree_seed; an action performs the next call.  Loops that fill a   *)
(* tree far from where the test then looks are cut to where it looks.         *)
(* Operators named Slip... are wrong variants of the operator they precede;   *)
(* they document which mistake each property is able to notice.               *)
EXTENDS MapleTree, SequencesExt

CONSTANTS
  HUGE,     \* 4000UL * 1000 * 1000, where the split tests begin
  SEQ,      \* the longest run of check_seq and check_rev_seq (1000), and of check_find_2 (256)
  POWERS,   \* check_find stores 4^0 .. 4^POWERS (20)
  DUPS,     \* how many sizes each loop of check_dup takes (10 .. 1500)
  BIG       \* the size of the large trees that are copied (134, 135, 100010)

ASSUME MtTreeAssumption ==
  /\ {HUGE, SEQ, POWERS, DUPS, BIG} \subseteq Nat \ {0}
  /\ 2 * HUGE < ULONG_MAX /\ 4^(POWERS + 1) < ULONG_MAX

VARIABLES
  step,     \* the position in Script
  todo,     \* the call there, performed next
  tree,     \* the tree under test
  alloc,    \* whether it has MT_FLAGS_ALLOC_RANGE
  newmt,    \* the copy made by the forking and duplication tests
  mas,      \* the cursor
  index,    \* the index mt_find moves
  loop,     \* iterations of the current mas_for_each or mt_for_each
  rcu, lock,\* inside rcu_read_lock; holding the tree's spinlock
  passed    \* no MT_BUG_ON fired: tests_run = tests_passed

vars == <<step, todo, tree, alloc, newmt, mas, index, loop, rcu, lock, passed>>

\* ---- the vocabulary of the script ----

ANY == -1
Do(op, a, b, e, want) == <<[op |-> op, a |-> a, b |-> b, e |-> e, want |-> want]>>

\* F(lo) \o ... \o F(hi), and the same downwards.
For(lo, hi, F(_)) == FlattenSeq([k \in 1 .. hi - lo + 1 |-> F(lo + k - 1)])
Down(hi, lo, F(_)) == FlattenSeq([k \in 1 .. hi - lo + 1 |-> F(hi - k + 1)])
All(s, F(_)) == FlattenSeq([k \in DOMAIN s |-> F(s[k])])

SlipVal(i) == xa_mk_value(i)

\* The value that stands for an index, xa_mk_value(index & LONG_MAX).
Val(i) == xa_mk_value(i % (LONG_MAX + 1))

I(i)   == Do("insert", i, i, Val(i), ANY)
S(i)   == Do("store", i, i, Val(i), ANY)
E(i)   == Do("erase", i, i, NULL, ANY)
IR(a, b) == Do("insert", a, b, Val(a), ANY)
SR(a, b) == Do("store", a, b, Val(a), ANY)
Put(a, b, e) == Do("store", a, b, e, ANY)

Load(i, e)      == Do("load", i, i, e, TRUE)
Loads(a, b, e)  == Do("load", a, b, e, TRUE)
OwnLoads(a, b)  == Do("own_load", a, b, NULL, TRUE)
Insert(i, e)    == Do("insert", i, i, e, 0)
EraseIndex(i)   == Do("erase", i, i, NULL, Val(i)) \o Load(i, NULL)
Init0(flag)     == Do("init", 0, 0, flag, ANY)
Destroy         == Do("destroy", 0, 0, NULL, ANY)
Empty           == Do("empty", 0, 0, NULL, TRUE)
Height          == Do("height", 0, 0, NULL, TRUE)

\* check_store_range and check_insert_range: when the call succeeds every index is read back.
ReadBack(a, b, e, want) == IF want = 0 THEN Loads(a, b, e) ELSE <<>>
CheckStore(a, b, e)  == Do("store", a, b, e, 0) \o ReadBack(a, b, e, 0)
CheckInsert(a, b, e, want) == Do("insert", a, b, e, want) \o ReadBack(a, b, e, want)

Set(i)     == Do("set", i, i, NULL, ANY)
MA_STATE   == Set(0)
Reset      == Do("reset", 0, 0, NULL, ANY)
Walk(e)    == Do("walk", 0, 0, NULL, e)
Next1(max, e)  == Do("next", 0, max, NULL, e)
Prev(min, e)    == Do("prev", min, 0, NULL, e)
Find(max, e)    == Do("find", 0, max, NULL, e)
FindRev(min, e) == Do("find_rev", min, 0, NULL, e)
On(a, b)   == Do("on", a, b, NULL, TRUE)
OnEither(a, b) == Do("on_either", a, b, NULL, TRUE)
MasStore(a, b, e) == Do("mas_store", a, b, e, ANY)
Rcu        == Do("rcu_read_lock", 0, 0, NULL, ANY)
Unrcu      == Do("rcu_read_unlock", 0, 0, NULL, ANY)
Lock       == Do("mas_lock", 0, 0, NULL, ANY)
Unlock     == Do("mas_unlock", 0, 0, NULL, ANY)

\* A loop up to max whose body asserts that the k-th entry is want[k], and so
\* that there is no other; the Bare ones assert nothing.  In a pausing loop the
\* body ends with mas_pause and may let go of the lock for a moment.
ASSERTS == 1
Loop       == Do("loop", 0, 0, NULL, ANY)
ForEach(max, want)  == Loop \o Do("for_each", ASSERTS, max, NULL, want)
BareForEach(max)    == Loop \o Do("for_each", 0, max, NULL, <<>>)
PausingForEach(max, want) == Loop \o Do("pausing_for_each", ASSERTS, max, TRUE, want)
BarePausingForEach(max)   == Loop \o Do("pausing_for_each", 0, max, FALSE, <<>>)
MtForEach(max, want) == Loop \o Do("mt_for_each", ASSERTS, max, NULL, want)
Times(n)   == Do("times", 0, 0, NULL, n)
AtMost(n)  == Do("at_most", n, 0, NULL, TRUE)
Area(min, max, size, at)    == Do("empty_area", min, max, size, at)
AreaRev(min, max, size, at) == Do("empty_area_rev", min, max, size, at)
Alloc(min, max, size, at)   == Do("alloc", min, max, size, at)
AllocRev(min, max, size, at) == Do("alloc_rev", min, max, size, at)
Fork       == Loop \o Do("fork", 0, ULONG_MAX, NULL, <<>>)
NewMt      == Do("init_new", 0, 0, NULL, ANY)
DestroyNew == Do("destroy_new", 0, 0, NULL, ANY)

\* ---- the tests ----

check_seq(from, max) ==
  LET one(i) == Insert(i, Val(i)) \o OwnLoads(from, i)
                  \o (IF i > 0 THEN Height ELSE <<>>) \o Load(i + 1, NULL)
  IN  Empty \o For(from, max, one)

check_rev_seq(max) ==
  LET one(i) == Insert(i, Val(i)) \o OwnLoads(i, max) \o Load(i - 1, NULL) \o Height
  IN  Empty \o Down(max, 1, one) \o Load(max + 1, NULL)

\* i, i/2, i/4 ... above 4096, after each all that went before.
check_lb_not_empty ==
  LET half(k) == HUGE \div 2^k
      around(k) == Load(half(k) - 1, NULL) \o Load(half(k), half(k)) \o Load(half(k) + 1, NULL)
      one(k) == Insert(half(k), half(k)) \o For(0, k, around)
  IN  For(0, Max({k \in 0 .. 30 : half(k) > 4096}), one) \o Destroy

check_lower_bound_split == Empty \o check_lb_not_empty

\* The loop that was to look at the neighbours, from i while it is at least
\* huge, never runs: i is below huge.
check_upper_bound_split ==
  LET double(k) == 4096 * 2^k
      one(k) == Insert(double(k), double(k))
  IN  Empty \o For(0, Max({k \in 0 .. 15 : double(k) < HUGE}), one) \o Destroy

check_mid_split ==
  Insert(2 * HUGE, 2 * HUGE) \o Insert(0, xa_mk_value(0)) \o check_lb_not_empty

\* i*10 .. i*10+5 for each i.
Tens(from, to) == For(from, to, LAMBDA i : Put(i * 10, i * 10 + 5, xa_mk_value(i)))

check_rev_find ==
  LET v(i) == xa_mk_value(i)
  IN  MA_STATE \o Tens(0, 200) \o Rcu
        \o Set(1000) \o FindRev(1000, v(100)) \o FindRev(1000, NULL)
        \o Set(999) \o FindRev(997, NULL)
        \o Set(1000) \o FindRev(900, v(100)) \o FindRev(900, v(99))
        \o Set(20) \o FindRev(0, v(2)) \o FindRev(0, v(1)) \o FindRev(0, v(0)) \o FindRev(0, NULL)
        \o Unrcu

\* 0, 1, 4, 16, ..., with XA_ZERO_ENTRY at 64; mt_find and mt_for_each skip that one.
PowerValue(i) == IF i = 64 THEN XA_ZERO_ENTRY ELSE Val(i)
Powers(skip) == <<Val(0)>> \o SelectSeq([k \in 1 .. POWERS + 1 |-> PowerValue(4^(k - 1))],
                                        LAMBDA e : ~ skip \/ e # XA_ZERO_ENTRY)

check_find_loops ==
  Insert(0, Val(0)) \o For(0, POWERS, LAMBDA k : Insert(4^k, PowerValue(4^k)))
    \o Set(0) \o Lock \o ForEach(4^(POWERS - 1), Powers(FALSE)) \o Unlock
    \o Set(0) \o Lock \o ForEach(ULONG_MAX, Powers(FALSE)) \o Unlock
    \o Set(0) \o Lock \o PausingForEach(ULONG_MAX, Powers(FALSE)) \o Unlock
    \o MtForEach(300, Powers(TRUE))
    \o Insert(ULONG_MAX, Val(ULONG_MAX))
    \o MtForEach(ULONG_MAX, Append(Powers(TRUE), xa_mk_value(LONG_MAX))) \o AtMost(POWERS + 5)

check_find_ends ==
  LET top == 4^POWERS
  IN  EraseIndex(ULONG_MAX)
        \o Reset \o Do("mt_find", 17, 512, NULL, Val(256)) \o Reset \o Do("mt_find", 17, 20, NULL, NULL)
        \o Insert(ULONG_MAX, Val(ULONG_MAX))
        \o Set(0) \o Lock
        \o PausingForEach(ULONG_MAX, Append(Powers(FALSE), xa_mk_value(LONG_MAX))) \o Unlock
        \o Set(4^(POWERS - 2)) \o Lock \o Find(4^(POWERS - 2), Val(4^(POWERS - 2))) \o Unlock
        \o Lock \o Set(ULONG_MAX) \o Find(ULONG_MAX, ANY) \o Prev(0, Val(top)) \o On(top, top)
        \o Set(ULONG_MAX) \o Do("mas_erase", 0, 0, NULL, ANY)
        \o Reset \o Prev(0, Val(top)) \o On(top, top)
        \o Set(ULONG_MAX) \o Prev(0, Val(top))
        \o Set(0) \o Prev(0, NULL) \o Unlock \o Destroy

check_find == check_find_loops \o check_find_ends

check_find_2 ==
  LET rest(i, n) == [k \in 1 .. n |-> xa_mk_value(i + k - 1)]
      all(i, n) == Set(0) \o Rcu \o ForEach(ULONG_MAX, rest(i, n)) \o Unrcu \o Times(n)
  IN  MA_STATE \o Rcu \o ForEach(ULONG_MAX, <<>>) \o Times(0) \o Unrcu
        \o For(0, SEQ - 1, LAMBDA i : I(i) \o all(0, i + 1))
        \o For(0, SEQ - 1, LAMBDA i : EraseIndex(i) \o all(i + 1, SEQ - i - 1))

\* check_alloc_range and check_alloc_rev_range fill a process's address space,
\* in pages: three clusters of mappings, whose inner distances are the code's,
\* with gaps in the order of the code's sizes; the last gap is the largest.
HoleML == 30000                        \* holes[]'s third size, 0x28E49EDED
HoleHM == 21000                        \* 210253414
Low  == 60000                          \* 0x565234af2
Mid  == Low + 4894 + HoleML            \* 0x7f36d4bfd
High == Mid + 1288 + HoleHM            \* 0x7fff5876b
MTREE_ALLOC_MAX == High + 40 + 80000   \* 0x2000000000000
PAGE_MAX == ULONG_MAX \div 4096        \* -1 >> 12

\* Adjacent mappings, from each bound up to the next.
Mappings(base, bounds) ==
  For(1, Len(bounds) - 1,
      LAMBDA k : CheckInsert(base + bounds[k], base + bounds[k + 1] - 1, Val(base + bounds[k]), 0))

AddressSpace ==
  Put(MTREE_ALLOC_MAX, ULONG_MAX, XA_ZERO_ENTRY)
    \o Mappings(Low, <<0, 2, 7, 9>>) \o Mappings(Low, <<10, 11, 12>>) \o Mappings(Low, <<4861, 4894>>)
    \o Mappings(Mid, <<0, 741, 775, 1103, 1179, 1180, 1184, 1186, 1192>>)
    \o Mappings(Mid, <<1212, 1246, 1247, 1277, 1285, 1286, 1287, 1288>>)
    \o Mappings(High, <<0, 34>>) \o Mappings(High, <<35, 38, 40>>)

check_alloc_range ==
  MA_STATE \o AddressSpace \o Lock
    \o Area(Low, Low + 10, 1, Low + 9) \o Reset
    \o Area(Low + 10, Low + 4861, 4849, Low + 12) \o Reset
    \o Area(Low + 4861, Mid, HoleML, Low + 4894) \o Reset \o Unlock
    \o Alloc(Low + 7, High + 38, 1, Low + 9)
    \o Alloc(0, High + 38, 1, 0)
    \o Alloc(Mid - 1, High + 68, 3, Mid + 1192)
    \o Alloc(Mid + 1186, Mid + 1246, 21, EBUSY)
    \o Alloc(Mid + 1186, High + 68, 16, Mid + 1195)
    \o Alloc(0, PAGE_MAX, PAGE_MAX, EBUSY)
    \o Alloc(0, PAGE_MAX, PAGE_MAX - Low, EBUSY) \o Destroy

check_alloc_rev_range ==
  MA_STATE \o AddressSpace \o Lock
    \o AreaRev(0, Low + 10, 1, Low + 9) \o On(Low + 9, Low + 9) \o Reset
    \o AreaRev(Low + 10, Low + 4861, 4849, Low + 12) \o On(Low + 12, Low + 4860) \o Reset
    \o AreaRev(Low + 4861, Mid, HoleML, Low + 4894) \o On(Mid - HoleML, Mid - 1) \o Reset \o Unlock
    \o AllocRev(Low + 7, High + 37, 1, High + 34)
    \o AllocRev(0, Low - 2, 3, Low - 4)
    \o AllocRev(0, PAGE_MAX - 1, 1, MTREE_ALLOC_MAX - 1)
    \o AllocRev(0, Mid + 1292, 4, Mid + 1289)
    \o AllocRev(0, Mid + 1191, 19, Mid - 19)
    \o AllocRev(0, PAGE_MAX - 1, MTREE_ALLOC_MAX - High - 39, EBUSY)
    \o E(Mid + 1290) \o AllocRev(0, High + 33, HoleHM, Mid + 1288) \o Destroy

\* check_store_range over i*n .. (i+1)*n for each i.
Steps(n, from, to) == For(from, to, LAMBDA i : CheckStore(i * n, (i + 1) * n, Val(i * n)))
Single(i) == CheckStore(i, i, Val(i))
Own(a, b) == CheckStore(a, b, Val(a))
Hole2(i) == CheckStore(i, i + 1, NULL)

check_ranges_small ==
  Empty \o CheckInsert(10, 15, Val(10), 0) \o CheckInsert(20, 25, Val(20), 0)
    \o CheckInsert(17, 22, Val(17), EEXIST) \o Height
    \o Own(17, 22) \o Own(9, 1000) \o Own(100, 200) \o Height
    \o Destroy \o Do("height", 0, 0, NULL, FALSE)
    \o check_seq(0, 50) \o CheckStore(5, 47, Val(47)) \o Height \o Destroy
    \o check_seq(40, 100) \o Own(45, 168) \o Height \o Destroy
    \o check_seq(40, 200) \o Own(45, 168) \o Height \o Destroy
    \o check_seq(0, 30) \o Own(6, 18) \o Height \o Destroy

\* The tree of 400 is built from the part that the stores below reach.
check_ranges_400 ==
  check_seq(110, 150) \o Own(118, 128)
    \o All(<<140, 141, 142, 143, 130, 131, 132, 133, 134, 135>>, E)
    \o Loads(118, 118, Val(118)) \o Loads(127, 128, Val(118)) \o Load(129, Val(129))
    \o Load(135, NULL) \o Load(140, NULL) \o Height \o Destroy
    \o check_seq(340, 400) \o Own(353, 361) \o Own(347, 352)
    \o Load(346, Val(346)) \o Loads(347, 352, Val(347)) \o Loads(353, 361, Val(353))
    \o Load(362, Val(362)) \o Height \o Destroy
    \o check_seq(340, 400) \o CheckStore(352, 364, NULL) \o CheckStore(351, 363, Val(352))
    \o Load(350, Val(350)) \o Loads(351, 363, Val(352)) \o Load(364, NULL) \o Load(365, Val(365))
    \o Height \o Destroy
    \o check_seq(340, 400) \o CheckStore(352, 364, NULL) \o CheckStore(351, 364, Val(352))
    \o Load(350, Val(350)) \o Loads(351, 364, Val(352)) \o Load(365, Val(365)) \o Height \o Destroy
    \o check_seq(340, 400) \o Own(362, 367) \o Own(353, 361) \o Height \o Destroy

\* The assertions that the tree is four levels high, or less, are left out.
check_ranges_steps ==
  Steps(5, 470, 500) \o All(<<2400, 2411, 2412>>, Single)
    \o CheckStore(2396, 2400, xa_mk_value(4052020)) \o Single(2402) \o Destroy
    \o Steps(5, 470, 500) \o Single(2422) \o Single(2424) \o CheckStore(2425, 2425, xa_mk_value(2))
    \o CheckStore(2460, 2470, NULL) \o Own(2435, 2460) \o Own(2461, 2470) \o Height \o Destroy
    \o Init0(TRUE) \o Steps(10, 0, 50) \o All(<<161, 162, 163>>, Single)
    \o CheckStore(240, 249, NULL) \o All(<<200, 210, 220, 230>>, E) \o Height \o Destroy
    \o Init0(TRUE) \o Steps(10, 450, 500) \o CheckStore(4600, 4959, xa_mk_value(1)) \o Height \o Destroy
    \o Init0(TRUE) \o Steps(10, 450, 500) \o All(<<4811, 4812, 4861, 4862>>, Single)
    \o CheckStore(4842, 4849, NULL) \o Height \o Destroy
    \o Init0(TRUE) \o Steps(10, 1140, 1190)
    \o For(0, 20, LAMBDA k : Hole2(11455 + 10 * k)) \o For(0, 5, LAMBDA k : Hole2(11775 + 10 * k))
    \o For(0, 3, LAMBDA k : Hole2(11705 + 10 * k)) \o Destroy
    \o Init0(TRUE) \o Steps(10, 775, 830)
    \o For(0, 44, LAMBDA k : Hole2(7805 + 10 * k))
    \o For(1, 15, LAMBDA i : Own(8185 + i, 8186 + i)) \o Single(8184)

check_ranges == check_ranges_small \o check_ranges_400 \o check_ranges_steps

check_next_entry ==
  MA_STATE \o check_seq(0, 30) \o Rcu \o Walk(Val(0))
    \o For(1, 31, LAMBDA i : Next1(30, IF i > 30 THEN NULL ELSE Val(i))) \o Unrcu \o Destroy

check_prev_entry ==
  LET store(i) == MasStore(i * 10, i * 10 + 5, xa_mk_value(i))
  IN  Set(16) \o check_seq(0, 30) \o Rcu \o Find(ULONG_MAX, Val(16)) \o Prev(0, Val(15)) \o Unrcu
        \o Destroy \o Init0(TRUE) \o Lock \o For(0, 16, store)
        \o Set(20) \o Walk(xa_mk_value(2)) \o Prev(19, NULL)
        \o Set(80) \o Walk(xa_mk_value(8)) \o Prev(76, NULL) \o Unlock

Fn == 2000                                   \* &check_prev_entry

check_root_expand ==
  LET tagged(tag) == Lock \o MasStore(0, 0, Fn + tag) \o Next1(ULONG_MAX, NULL)
                       \o OnEither(1, ULONG_MAX)
                       \o Set(1) \o Prev(0, Fn + tag) \o OnEither(0, 0) \o Unlock
  IN  MA_STATE \o Lock \o Set(3) \o Walk(NULL) \o On(0, ULONG_MAX) \o MasStore(1, 1, Fn)
        \o Set(0) \o Walk(NULL) \o Set(1) \o Walk(Fn) \o Set(2) \o Walk(NULL) \o Unlock \o Destroy
        \o Init0(FALSE) \o Lock \o MasStore(0, 0, Fn) \o Set(5) \o Walk(NULL) \o On(1, ULONG_MAX)
        \o Do("set", 0, 100, NULL, ANY) \o Walk(Fn) \o On(0, 0) \o Unlock \o Destroy
        \o Init0(FALSE) \o tagged(1) \o Destroy \o Init0(FALSE) \o tagged(2)

\* The assertions that two entries lie in different nodes are left out.
check_gap_combining_100 ==
  Set(74) \o check_seq(0, 100)
    \o E(76) \o Load(76, NULL) \o E(75) \o Load(75, NULL)
    \o Rcu \o Find(ULONG_MAX, Val(74)) \o Next1(ULONG_MAX, ANY) \o Next1(ULONG_MAX, Val(78))
    \o Reset \o AreaRev(50, 100, 2, 75) \o Unrcu
    \o E(44) \o Load(44, NULL) \o E(45) \o Load(45, NULL) \o E(46)
    \o Rcu \o Set(43) \o Find(ULONG_MAX, Val(43)) \o Next1(ULONG_MAX, Val(47)) \o Next1(ULONG_MAX, ANY)
    \o Reset \o AreaRev(20, 50, 3, 44) \o Unrcu
    \o Put(80, 80, NULL) \o Load(80, NULL) \o Load(81, Val(81))
    \o Put(81, 81, NULL) \o Load(80, NULL) \o Load(81, NULL)
    \o Reset \o Rcu \o AreaRev(76, 82, 2, 80) \o Unrcu
    \o Put(79, 81, NULL) \o E(82) \o Reset \o Rcu \o AreaRev(76, 85, 4, 79) \o Unrcu \o Destroy

check_gap_combining_levels ==
  Init0(TRUE) \o check_seq(1100, 1200) \o E(1152) \o E(1151)
    \o Reset \o Rcu \o AreaRev(1100, 1200, 2, 1151) \o Unrcu \o Destroy
    \o Init0(TRUE) \o check_seq(250, 400) \o Put(286, 318, NULL) \o Destroy
    \o Init0(TRUE) \o check_seq(250, 400)
    \o All(<<256, 260, 266, 270, 286, 275, 280, 290>>, LAMBDA i : SR(i, 398)) \o SR(286, 310) \o Destroy

check_gap_combining == check_gap_combining_100 \o check_gap_combining_levels

check_node_overwrite ==
  LET store(i) == SR(i * 100, i * 100 + 50)
  IN  For(3190, 3210, store) \o For(3670, 3690, store) \o Put(319951, 367950, NULL)

\* Both copy the tree entry by entry under rcu_read_lock.
check_forking == MA_STATE \o Tens(0, BIG) \o NewMt \o MA_STATE \o Rcu \o Fork \o Unrcu \o DestroyNew
check_mas_store_gfp == MA_STATE \o Tens(0, BIG) \o NewMt \o Rcu \o Set(0) \o Fork \o Unrcu \o DestroyNew

check_dup_gaps(n, zero_start, gap) ==
  MA_STATE \o For(IF zero_start THEN 0 ELSE 1, n,
                  LAMBDA i : Put(i * 10, (i + 1) * 10 - gap, xa_mk_value(i)))
    \o NewMt \o Rcu \o Fork \o Unrcu \o DestroyNew

check_dup ==
  LET dup(from, zero_start, gap, flag) ==
        For(from, from + DUPS - 1,
            LAMBDA i : Init0(flag) \o check_dup_gaps(i, zero_start, gap) \o Destroy)
  IN  dup(1, TRUE, 5, TRUE) \o dup(4, TRUE, 0, TRUE) \o dup(BIG, TRUE, 5, TRUE)
        \o dup(2, FALSE, 5, TRUE) \o dup(BIG, FALSE, 5, TRUE) \o dup(6, FALSE, 5, FALSE)
        \o dup(2, TRUE, 5, FALSE) \o dup(BIG, TRUE, 5, FALSE)

\* i stands for the range i .. i+5 that holds xa_mk_value(i / 10).
At10(i) == On(i, i + 5)
Val10(i) == xa_mk_value(i \div 10)

next_prev_inside ==
  MA_STATE \o Tens(0, 200) \o Lock \o For(0, 100, LAMBDA i : Next1(1000, ANY))
    \o Set(0) \o BareForEach(1000) \o Set(0) \o BarePausingForEach(1000)
    \o Set(686) \o Walk(NULL) \o Next1(1000, Val10(690)) \o At10(690) \o Prev(0, Val10(680)) \o At10(680)
    \o Next1(1000, Val10(690)) \o At10(690) \o Next1(1000, Val10(700)) \o At10(700)
    \o Set(70) \o Walk(Val10(70)) \o At10(70) \o Next1(1000, Val10(80)) \o At10(80)
    \o Prev(70, Val10(70)) \o At10(70)
    \o Set(707) \o Walk(NULL) \o Next1(1000, Val10(710)) \o At10(710)
    \o Next1(1000, Val10(720)) \o At10(720) \o Prev(0, Val10(710)) \o At10(710)

next_prev_ends ==
  Set(2000) \o Walk(Val10(2000)) \o At10(2000) \o Next1(ULONG_MAX, NULL) \o On(ULONG_MAX, ULONG_MAX)
    \o Prev(0, Val10(2000)) \o At10(2000)
    \o Set(10) \o Walk(Val10(10)) \o At10(10) \o Prev(0, Val10(0)) \o At10(0) \o Prev(0, NULL) \o On(0, 0)
    \o MasStore(0, 5, NULL) \o Set(10) \o Walk(ANY) \o Prev(0, NULL) \o On(0, 0) \o Unlock \o Destroy
    \o Init0(FALSE) \o Put(0, 0, xa_mk_value(0)) \o Put(5, 5, xa_mk_value(5))
    \o Rcu \o Set(5) \o Prev(4, NULL) \o Unrcu

next_prev_test == next_prev_inside \o next_prev_ends

check_spanning_relatives == Tens(925, 1000) \o Put(9365, 9955, NULL)

\* check_fuzzer's nine sequences of calls; their answers, and the loads, are not looked at.
check_fuzzer_1 ==
  All(<<88, 84, 2, 4, 14, 7, 12, 18>>, I) \o SR(8, 18)
check_fuzzer_2 ==
  S(87) \o S(0) \o I(4) \o All(<<8, 44, 68, 2>>, S) \o All(<<43, 24, 844>>, I) \o S(84)
    \o S(4) \o E(4) \o E(0)
check_fuzzer_3 ==
  SR(0, ULONG_MAX) \o S(4) \o All(<<5, 0, 4>>, E) \o S(5) \o E(5) \o S(5) \o E(5) \o E(4)
    \o All(<<4, 444, 0, 5>>, S) \o E(0)
check_fuzzer_4 ==
  I(261) \o S(516) \o S(6) \o I(5) \o I(1256) \o S(4) \o E(1) \o S(56) \o I(1) \o S(24)
    \o E(1) \o I(2263) \o I(446) \o SR(6, 45) \o SR(3, 446)
check_fuzzer_5 ==
  All(<<48, 3, 88, 81>>, S) \o All(<<0, 8, 4, 2480, ULONG_MAX>>, I) \o E(ULONG_MAX)
check_fuzzer_6 ==
  E(3) \o All(<<22, 15, 1, 1, 5>>, I) \o E(1) \o All(<<1, 4, 1>>, I) \o E(1) \o I(2) \o I(1)
    \o E(3) \o All(<<22, 15, 2, 1, 8, 1, 1>>, I) \o S(1) \o I(5) \o E(1) \o All(<<1, 4, 1>>, I)
    \o E(1) \o I(2) \o I(1) \o E(3) \o All(<<22, 15, 2, 1, 8, 12>>, I) \o E(1) \o SR(4, 62)
    \o E(62) \o SR(1, 0) \o All(<<11, 3, 3>>, I) \o S(62) \o E(62) \o SR(1, 15) \o E(1) \o I(22)
    \o I(12) \o E(1) \o I(3) \o S(62) \o E(62) \o I(122) \o S(3) \o I(0) \o SR(0, 1)
    \o All(<<85, 72, 81, 726, 0, 1>>, I) \o S(51) \o All(<<611, 485, 1>>, I) \o E(1) \o I(0)
    \o I(1) \o IR(26, 1) \o SR(1, 22) \o I(1) \o E(1) \o SR(1, 1) \o All(<<222, 485, 1>>, I)
    \o E(1) \o I(21) \o I(3) \o S(621) \o I(0) \o E(5) \o I(1) \o S(62) \o E(62) \o SR(1, 0)
    \o I(22) \o I(12) \o E(1) \o I(1) \o SR(4, 62) \o E(62) \o E(1) \o SR(1, 22) \o I(1) \o E(1)
    \o SR(1, 1) \o All(<<222, 485, 1>>, I) \o E(1) \o I(1)
check_fuzzer_7 ==
  I(102) \o E(2) \o E(0) \o All(<<4, 2, 110, 1>>, I) \o IR(5, 0) \o E(2) \o S(0) \o S(112)
    \o I(21) \o S(1) \o IR(110, 2) \o S(2) \o E(2) \o S(210) \o SR(0, 2) \o S(2)
    \o All(<<2, 22, 1, 2>>, E) \o S(0) \o I(2) \o E(2) \o S(1) \o IR(1, 2) \o E(0) \o E(2)
    \o S(2) \o E(0) \o E(2) \o S(0) \o S(0) \o E(2) \o S(2) \o E(2) \o I(2) \o IR(1, 2) \o E(0)
    \o E(2) \o S(0) \o SR(110, 12) \o S(2) \o IR(4, 71) \o S(2) \o IR(11, 22) \o E(12) \o S(2)
check_fuzzer_8 ==
  S(6) \o S(67) \o I(15) \o I(6716) \o S(61) \o I(13) \o S(8) \o I(1) \o E(67167)
    \o IR(6, 7167) \o I(6) \o E(67) \o I(1) \o E(667167) \o I(6) \o S(67) \o I(5) \o E(1)
    \o I(6) \o E(67) \o All(<<15, 67167, 1, 16, 36>>, I) \o S(67) \o S(6) \o I(367) \o I(115)
    \o S(0) \o SR(1, 3) \o S(1) \o E(67167) \o IR(6, 47) \o S(1) \o IR(1, 67) \o I(1)
    \o E(67167)
check_fuzzer_9 ==
  All(<<21, 12, 6, 8, 2, 91, 18, 81>>, I) \o SR(0, 128) \o S(1) \o E(8)
    \o All(<<11, 8, 21, 2, ULONG_MAX - 10>>, I) \o E(ULONG_MAX - 10) \o SR(0, 281) \o E(2)
    \o All(<<1211, 111, 13, 211, 11, 5, 1218, 61>>, I) \o S(1)
    \o All(<<121, 8, 21, 2, ULONG_MAX - 10>>, I) \o E(ULONG_MAX - 10)

check_fuzzer ==
  FlattenSeq(<<check_fuzzer_1, Destroy, Init0(FALSE), check_fuzzer_2, Destroy, Init0(FALSE),
               check_fuzzer_3, Destroy, Init0(FALSE), check_fuzzer_4, Destroy, Init0(FALSE),
               check_fuzzer_5, Destroy, Init0(FALSE), check_fuzzer_6, Destroy, Init0(FALSE),
               check_fuzzer_7, Destroy, Init0(FALSE), check_fuzzer_8, Destroy, Init0(FALSE),
               check_fuzzer_9>>)

\* maple_tree_seed's own checks, on single indexes with two pointers as entries.
Tree == 3000
Ptr == 4000

check_entries ==
  LET two(i) == IF i \in {5015, 5017, 1000} THEN Load(i, Ptr)
                ELSE IF i = 1002 THEN Load(i, Ptr) ELSE Load(i, Tree)
  IN  Init0(FALSE) \o Load(5015, NULL) \o Insert(0, Tree) \o Load(0, Tree) \o Load(5015, NULL)
        \o Insert(5003, Ptr) \o Load(0, Tree) \o Load(5002, NULL) \o Load(5003, Ptr) \o Destroy
        \o Init0(FALSE) \o Insert(5015, Tree) \o Do("insert", 5015, 5015, Tree, EEXIST) \o Load(5015, Tree)
        \o Load(5014, NULL) \o Insert(5014, Ptr) \o Load(5014, Ptr) \o Load(5015, Tree)
        \o Insert(1002, Ptr) \o Insert(1003, Tree) \o Load(5015, Tree) \o Load(5014, Ptr)
        \o Load(1002, Ptr) \o Load(1003, Tree) \o Destroy
        \o Init0(FALSE) \o Insert(1001, Ptr) \o Insert(1003, Tree) \o Insert(1002, Ptr)
        \o Load(1001, Ptr) \o Load(1002, Ptr) \o Load(1003, Tree) \o Destroy
        \o Init0(FALSE) \o Insert(5015, Ptr) \o Insert(5014, Tree) \o Insert(5017, Ptr) \o Insert(25, Tree)
        \o All(<<5015, 5014, 5017, 25>>, two) \o Insert(1000, Ptr)
        \o All(<<5015, 5014, 5017, 25, 1000>>, two) \o Insert(1001, Tree)
        \o All(<<5015, 5014, 5017, 25, 1000, 1001>>, two) \o Insert(1002, Ptr)
        \o All(<<5015, 5014, 5017, 25, 1000, 1001, 1002>>, two) \o Insert(1003, Tree) \o two(5015)
        \o Insert(1005, Ptr) \o Insert(0, Tree)
        \o All(<<5015, 5014, 5017, 25, 1000, 1001, 1002, 0>>, two) \o Destroy

Under(flag, test) == Init0(flag) \o test \o Destroy

Script ==
  FlattenSeq(<<Under(TRUE, check_root_expand), Under(TRUE, check_forking), Under(TRUE, check_mas_store_gfp),
               Under(FALSE, check_ranges), Under(TRUE, check_alloc_range), Under(TRUE, check_alloc_rev_range),
               check_entries, Under(FALSE, check_seq(0, 16)), Under(FALSE, check_seq(0, SEQ)),
               Under(TRUE, check_rev_seq(SEQ)),
               check_lower_bound_split, check_upper_bound_split, check_mid_split,
               Under(FALSE, check_next_entry \o check_find \o check_find_2),
               Under(TRUE, check_prev_entry), Under(TRUE, check_gap_combining),
               Under(TRUE, check_node_overwrite), Under(TRUE, next_prev_test),
               Under(TRUE, check_spanning_relatives), Under(TRUE, check_rev_find),
               Under(FALSE, check_fuzzer), Under(TRUE, check_dup)>>)

\* ---- what the script is ----

\* Calls that leave the cursor, and calls that leave the copy, as they are.
KeepsMas   == {"store", "init_new", "rcu_read_lock", "loop"}
KeepsNewmt == {"set", "store", "rcu_read_lock", "loop"}

\* Before a copying loop the cursor has been set to 0 and the copy is new.
ReadyToFork(s) ==
  /\ s > 1 /\ Script[s - 1].op = "loop" /\ Script[s].b = ULONG_MAX
  /\ \E m \in 1 .. s - 2 : Script[m] = MA_STATE[1] /\ \A k \in m + 1 .. s - 1 : Script[k].op \in KeepsMas
  /\ \E m \in 1 .. s - 2 : Script[m].op = "init_new" /\ \A k \in m + 1 .. s - 1 : Script[k].op \in KeepsNewmt

CallAt(s) == IF s <= Len(Script) THEN Script[s] ELSE Do("end", 0, 0, NULL, ANY)[1]

\* Calls that move the cursor, that set it by hand, that take the tree's
\* spinlock themselves, and that let go of what protects the nodes.
MovesMas  == {"walk", "next", "prev", "find", "find_rev", "empty_area", "empty_area_rev", "for_each",
              "pausing_for_each", "fork"}
SetsMas   == {"set", "reset", "mas_store"}
TakesLock == {"insert", "store", "erase", "alloc", "alloc_rev", "destroy"}
Unlocks   == {"rcu_read_unlock", "mas_unlock"}

\* At call s a lock is held: it was taken, and not dropped since.
HeldAt(s, take, drop) ==
  \E m \in 1 .. s - 1 : CallAt(m).op = take /\ \A k \in m + 1 .. s - 1 : CallAt(k).op # drop
RcuAt(s)  == HeldAt(s, "rcu_read_lock", "rcu_read_unlock")
LockAt(s) == HeldAt(s, "mas_lock", "mas_unlock")

\* Something was unlocked before call s, and the cursor not set since.
LetGoAt(s) == \E u \in 1 .. s - 1 : CallAt(u).op \in Unlocks /\ \A k \in u + 1 .. s - 1 : CallAt(k).op \notin SetsMas

\* The calls are made with indexes and entries; a copy is looked at, and dropped,
\* right behind the loop that makes it; and each call that moves the cursor is
\* written between a lock and its unlock, behind one that sets the cursor.
ASSUME ScriptAssumption ==
  /\ Len(Script) \in Nat
  /\ \A s \in 1 .. Len(Script) :
       LET c == Script[s]
       IN  /\ c.op \in {"insert", "store", "mas_store"} => {c.a, c.e} \subseteq Nat /\ c.b \in 0 .. ULONG_MAX
           /\ c.op = "mas_store" => c.a <= c.b
           /\ c.op \in {"alloc", "alloc_rev"} => {c.a, c.b} \subseteq 0 .. ULONG_MAX /\ c.e \in Nat \ {0}
           /\ c.op = "init" => c.e \in BOOLEAN
           /\ c.op = "fork" => ReadyToFork(s)
           /\ c.op = "destroy_new" => s > 2 /\ Script[s - 1].op = "rcu_read_unlock" /\ Script[s - 2].op = "fork"
           /\ c.op \in MovesMas => (RcuAt(s) \/ LockAt(s)) /\ ~ LetGoAt(s)
           /\ c.op \in {"mas_store", "mas_erase"} => LockAt(s)
           /\ c.op \in TakesLock => ~ LockAt(s)

\* ---- performing it ----

Is(kind) == todo.op = kind

\* MT_BUG_ON counts and goes on.
MT_BUG_ON(b) == passed' = (passed /\ ~ b)
Advance == step' = step + 1
Fetch == todo' = IF step' = step THEN todo ELSE CallAt(step')

MtInit ==
  /\ step = 1 /\ todo = CallAt(1) /\ tree = {} /\ alloc = FALSE /\ newmt = {}
  /\ mas = mas_set_range(0, 0) /\ index = 0 /\ loop = 0
  /\ rcu = FALSE /\ lock = FALSE /\ passed = TRUE

\* mtree_insert, mtree_store, mtree_erase, mtree_alloc: they take the tree's lock themselves.
TreeCall(kind, res) ==
  /\ Is(kind) /\ Advance
  /\ tree' = res.tree
  /\ MT_BUG_ON(todo.want \notin {ANY, res.ret})
  /\ UNCHANGED <<alloc, newmt, mas, index, loop, rcu, lock>>

\* Where mtree_alloc_range found room, or why it did not.
Answer(res) == [tree |-> res.tree, ret |-> IF res.ret = 0 THEN res.at ELSE res.ret]

MtreeInsert == TreeCall("insert", mtree_insert_range(tree, todo.a, todo.b, todo.e))
MtreeStore  == TreeCall("store", mtree_store_range(tree, todo.a, todo.b, todo.e))
MtreeErase  == TreeCall("erase", mtree_erase(tree, todo.a))
MtreeAlloc  == TreeCall("alloc", Answer(mtree_alloc(tree, alloc, LowStarts(tree, todo.a, todo.b, todo.e),
                                                    Min, todo.e, Val(todo.a))))
MtreeAllocRev == TreeCall("alloc_rev", Answer(mtree_alloc(tree, alloc, HighStarts(tree, todo.a, todo.b, todo.e),
                                                          Max, todo.e, Val(todo.a))))

MtInitFlags ==
  /\ Is("init") /\ Advance /\ tree' = {} /\ alloc' = todo.e
  /\ UNCHANGED <<newmt, mas, index, loop, rcu, lock, passed>>

MtreeDestroy ==
  /\ Is("destroy") /\ Advance /\ tree' = {}
  /\ UNCHANGED <<alloc, newmt, mas, index, loop, rcu, lock, passed>>

\* Assertions that change nothing.
Look(kind, seen) ==
  /\ Is(kind) /\ Advance
  /\ MT_BUG_ON(seen # todo.want)
  /\ UNCHANGED <<tree, alloc, newmt, mas, index, loop, rcu, lock>>

CheckLoad     == Look("load", \A i \in todo.a .. todo.b : mtree_load(tree, i) = todo.e)
CheckOwnLoad  == Look("own_load", \A i \in todo.a .. todo.b : mtree_load(tree, i) = Val(i))
CheckEmpty    == Look("empty", tree = {})
CheckHeight   == Look("height", mt_height_positive(tree))
CheckOn       == Look("on", mas.index = todo.a /\ mas.last = todo.b)
CheckOnEither == Look("on_either", mas.index = todo.a \/ mas.last = todo.b)
CheckTimes    == Look("times", loop)
CheckAtMost   == Look("at_most", loop <= todo.a)

\* The cursor moves to c, and answers with the entry there.
Move(kind, c) ==
  /\ Is(kind) /\ Advance
  /\ mas' = c
  /\ MT_BUG_ON(todo.want \notin {ANY, c.entry})
  /\ UNCHANGED <<tree, alloc, newmt, index, loop, rcu, lock>>

MasSet     == Move("set", mas_set_range(todo.a, todo.b))
MasReset   == Move("reset", mas_reset(mas))
MasWalk    == Move("walk", mas_walk(tree, mas))
MasNext    == Move("next", mas_next(tree, mas, todo.b))
MasPrev    == Move("prev", mas_prev(tree, mas, todo.a))
MasFind    == Move("find", mas_find(tree, mas, todo.b))
MasFindRev == Move("find_rev", mas_find_rev(tree, mas, todo.a))

\* mas_empty_area leaves the cursor on the area it found.
MasEmptyArea(kind, starts, pick(_)) ==
  /\ Is(kind) /\ Advance
  /\ MT_BUG_ON(starts = {} \/ todo.want # pick(starts))
  /\ mas' = [mas EXCEPT !.index = pick(starts), !.last = pick(starts) + todo.e - 1, !.node = "active"]
  /\ UNCHANGED <<tree, alloc, newmt, index, loop, rcu, lock>>
MasEmptyAreaUp   == MasEmptyArea("empty_area", LowStarts(tree, todo.a, todo.b, todo.e), Min)
MasEmptyAreaDown == MasEmptyArea("empty_area_rev", HighStarts(tree, todo.a, todo.b, todo.e), Max)

\* mas_set_range and mas_store_gfp, or mas_store where the cursor is set by hand.
MasStoreGfp ==
  /\ Is("mas_store") /\ Advance
  /\ tree' = Stored(tree, todo.a, todo.b, todo.e)
  /\ mas' = [index |-> todo.a, last |-> todo.b, node |-> "active", entry |-> todo.e]
  /\ UNCHANGED <<alloc, newmt, index, loop, rcu, lock, passed>>

MasErase ==
  /\ Is("mas_erase") /\ Advance
  /\ mas' = mas_walk(tree, mas)
  /\ tree' = tree \ At(tree, mas.index)
  /\ UNCHANGED <<alloc, newmt, index, loop, rcu, lock, passed>>

\* A cursor that rests in a node is no good once nothing protects the node.
Released(c) == [c EXCEPT !.node = IF @ = "active" THEN "stale" ELSE @]

RcuReadLock  == Is("rcu_read_lock") /\ rcu' = TRUE /\ Advance
                /\ UNCHANGED <<tree, alloc, newmt, mas, index, loop, lock, passed>>
RcuReadUnlock == Is("rcu_read_unlock") /\ rcu' = FALSE /\ mas' = Released(mas) /\ Advance
                 /\ UNCHANGED <<tree, alloc, newmt, index, loop, lock, passed>>
MasLock      == Is("mas_lock") /\ lock' = TRUE /\ Advance
                /\ UNCHANGED <<tree, alloc, newmt, mas, index, loop, rcu, passed>>
MasUnlock    == Is("mas_unlock") /\ lock' = FALSE /\ mas' = Released(mas) /\ Advance
                /\ UNCHANGED <<tree, alloc, newmt, index, loop, rcu, passed>>

\* A loop begins: nothing found yet, mt_for_each from index 0.
StartLoop ==
  /\ Is("loop") /\ Advance
  /\ loop' = 0 /\ index' = 0
  /\ UNCHANGED <<tree, alloc, newmt, mas, rcu, lock, passed>>

\* One round of a loop: the body looks at the entry, which may be one too many, or
\* there is none and the loop ends.
Round(entry) ==
  IF entry = NULL THEN Advance /\ UNCHANGED <<loop, passed>>
  ELSE /\ loop' = loop + 1 /\ UNCHANGED step
       /\ MT_BUG_ON(todo.a = ASSERTS /\ (loop + 1 \in DOMAIN todo.want => entry # todo.want[loop + 1]))

MasForEach ==
  /\ Is("for_each")
  /\ mas' = mas_find(tree, mas, todo.b)
  /\ Round(mas'.entry)
  /\ UNCHANGED <<tree, alloc, newmt, index, rcu, lock>>

SlipNoPause ==
  /\ Is("pausing_for_each")
  /\ LET found == mas_find(tree, mas, todo.b)
     IN  /\ mas' = IF found.entry # NULL /\ todo.e THEN Released(found) ELSE found
         /\ Round(found.entry)
  /\ UNCHANGED <<tree, alloc, newmt, index, rcu, lock>>

\* The body ends with mas_pause, and where todo.e says so with mas_unlock and mas_lock.
MasForEachPausing ==
  /\ Is("pausing_for_each")
  /\ LET found == mas_find(tree, mas, todo.b)
         paused == mas_pause(found)
     IN  /\ mas' = IF found.entry = NULL THEN found
                   ELSE IF todo.e THEN Released(paused) ELSE paused
         /\ Round(found.entry)
  /\ UNCHANGED <<tree, alloc, newmt, index, rcu, lock>>

\* mt_for_each goes by its own index, which is 0 again behind ULONG_MAX.
MtForEachRound ==
  /\ Is("mt_for_each")
  /\ LET found == IF loop > 0 /\ index = 0 THEN [entry |-> NULL, index |-> 0]
                  ELSE mt_find(tree, index, todo.b)
     IN  index' = found.index /\ Round(found.entry)
  /\ UNCHANGED <<tree, alloc, newmt, mas, rcu, lock>>

MtFind == Look("mt_find", mt_find(tree, todo.a, todo.b).entry)

\* struct maple_tree newmt on the stack, and its end.
NewTree ==
  /\ (Is("init_new") \/ Is("destroy_new")) /\ Advance
  /\ newmt' = {}
  /\ UNCHANGED <<tree, alloc, mas, index, loop, rcu, lock, passed>>

SlipForkIndex ==
  /\ Is("fork")
  /\ LET found == mas_find(tree, mas, todo.b)
     IN  /\ mas' = found
         /\ newmt' = IF found.entry = NULL THEN newmt
                     ELSE Stored(newmt, found.index, found.index, found.entry)
         /\ Round(found.entry)
  /\ UNCHANGED <<tree, alloc, index, rcu, lock>>

\* The copying loop: newmas takes the range the cursor is on, and stores the entry.
MasFork ==
  /\ Is("fork")
  /\ LET found == mas_find(tree, mas, todo.b)
     IN  /\ mas' = found
         /\ newmt' = IF found.entry = NULL THEN newmt
                     ELSE Stored(newmt, found.index, found.last, found.entry)
         /\ Round(found.entry)
  /\ UNCHANGED <<tree, alloc, index, rcu, lock>>

TestStep ==
  \/ MtreeInsert \/ MtreeStore \/ MtreeErase \/ MtreeAlloc \/ MtreeAllocRev \/ MtInitFlags \/ MtreeDestroy
  \/ CheckLoad \/ CheckOwnLoad \/ CheckEmpty \/ CheckHeight \/ CheckOn \/ CheckOnEither \/ CheckTimes
  \/ CheckAtMost
  \/ MasSet \/ MasReset \/ MasWalk \/ MasNext \/ MasPrev \/ MasFind \/ MasFindRev
  \/ MasEmptyAreaUp \/ MasEmptyAreaDown \/ MasStoreGfp \/ MasErase
  \/ RcuReadLock \/ RcuReadUnlock \/ MasLock \/ MasUnlock
  \/ StartLoop \/ MasForEach \/ MasForEachPausing \/ MtForEachRound \/ MtFind \/ NewTree \/ MasFork

MtNext == TestStep /\ Fetch

MtSpec == MtInit /\ [][MtNext]_vars

\* ---- properties ----

MtTypeOK ==
  /\ step \in Nat \ {0}
  /\ \A r \in tree \cup newmt : 0 <= r.first /\ r.first <= r.last /\ r.last <= ULONG_MAX /\ r.entry # NULL
  /\ mas.node \in {"start", "active", "pause", "none", "stale"}
  /\ {alloc, rcu, lock, passed} \subseteq BOOLEAN /\ index \in Nat /\ loop \in Nat

\* None of the test's MT_BUG_ONs in the script fires on a tree that is the map
\* from ranges it promises to be: each on the answer of a call, on an entry of a
\* loop or on how many there are, on where the cursor stands, on an empty tree and
\* on whether it has a height.  Not in the script, because no map has them: how
\* high the tree is (lines 1181, 1189, 1193, 1202, 1211 and 1215), which node an
\* entry lies in (1446, 1477, 1763), and whether mas_expected_entries finds memory
\* (2285).
AssertionsHold == passed

\* Where a test has copied a tree, through a cursor on each, the copy is the
\* tree: every range, with both its ends and its entry.
CopyIsTheTree == Is("destroy_new") => newmt = tree

\* The cursor is only moved where the nodes under it cannot be freed, and never
\* from a node it reached before the last unlock; and while the test holds the
\* tree's spinlock it calls nothing that takes it.
CursorNeverStale ==
  /\ todo.op \in MovesMas => (rcu \/ lock) /\ mas.node # "stale"
  /\ todo.op \in {"mas_store", "mas_erase"} => lock
  /\ todo.op \in TakesLock => ~ lock
=============================================================================
