-------------------------------- MODULE RbTree --------------------------------
(* rbtree.c: insmod fills a red-black tree, searches it, replaces and erases *)
(* a node and destroys the tree; a step is a round of a loop.  The kernel's  *)
(* rb_insert_color and rb_erase (not under src/) are spelled out, because    *)
(* destroy_tree walks the tree while they turn it.  The i-th node to be      *)
(* allocated is i; what is printed is left out.                              *)
(*                                                                           *)
(* SlipNext is a wrong variant of the operator it precedes, the mistake      *)
(* DestroyFreesAll notices.                                                  *)
EXTENDS Naturals, Sequences, FiniteSets

VARIABLES
  rb_pc,    \* what insmod is doing, or out, live or oops
  call,     \* the position in Calls
  rb,       \* the tree: root, and of each node its parent, its children and its colour
  cur,       \* the node the current loop is at
  under,    \* the node it came from, and the side it took there
  data,     \* what the last search found
  tmp,      \* the next node of the walk through the tree
  kfreed    \* how often each node was freed

vars == <<rb_pc, call, rb, cur, under, data, tmp, kfreed>>

NULL == 0
Nodes == 1 .. 12
Sides == {"left", "right"}
Other(s) == IF s = "left" THEN "right" ELSE "left"

\* nums0 and nums1; the last node takes the place of number 2.
key(n) == IF n = 12 THEN 2 ELSE n
val(n) == IF n = 12 THEN 100 ELSE n

\* mod_init, call by call.
Calls ==
  [i \in 1 .. 11 |-> [op |-> "insert", arg |-> i]]
    \o <<[op |-> "search", arg |-> 100], [op |-> "search", arg |-> 2], [op |-> "replace", arg |-> 12],
         [op |-> "search", arg |-> 2], [op |-> "erase", arg |-> 12], [op |-> "search", arg |-> 2],
         [op |-> "destroy", arg |-> 0]>>
Call == Calls[call]

\* ---- lib/rbtree.c ----

Nowhere == [n \in Nodes |-> NULL]
RB_ROOT == [root |-> NULL, up |-> Nowhere, kid |-> [s \in Sides |-> Nowhere], red |-> {}]

SideOf(t, n) == IF t.kid["left"][t.up[n]] = n THEN "left" ELSE "right"
Black(t, n) == n \notin t.red

\* The parent of old has new instead.
Put(t, old, new) ==
  [t EXCEPT !.root = IF @ = old THEN new ELSE @,
            !.up = [n \in Nodes |-> IF n = new THEN t.up[old] ELSE @[n]],
            !.kid = [s \in Sides |-> [n \in Nodes |-> IF n = t.up[old] /\ @[s][n] = old THEN new ELSE @[s][n]]]]

Hang(t, n, s, c) ==
  [t EXCEPT !.kid[s][n] = c, !.up = [m \in Nodes |-> IF m = c THEN n ELSE @[m]]]

\* x goes down on side s, and its child on the other side comes up.
Rotate(t, x, s) ==
  LET y == t.kid[Other(s)][x]
  IN  Hang(Hang(Put(t, x, y), x, Other(s), t.kid[s][y]), y, s, x)

rb_link_node(t, n, p, s) ==
  LET new == [t EXCEPT !.red = @ \cup {n}, !.up[n] = p, !.kid["left"][n] = NULL, !.kid["right"][n] = NULL]
  IN  IF p = NULL THEN [new EXCEPT !.root = n] ELSE Hang(new, p, s, n)

\* A round of the loop of rb_insert_color: the new tree, and the node the next
\* round is about.
InsertColor(t, n) ==
  LET p == t.up[n]
      g == t.up[p]
      s == SideOf(t, p)
      uncle == t.kid[Other(s)][g]
      inner == t.kid[Other(s)][p] = n
      turned == IF inner THEN Rotate(t, p, s) ELSE t
  IN  IF p = NULL THEN [tree |-> [t EXCEPT !.red = @ \ {n}], node |-> NULL]
      ELSE IF Black(t, p) THEN [tree |-> t, node |-> NULL]
      ELSE IF uncle \in t.red
           THEN [tree |-> [t EXCEPT !.red = (@ \ {p, uncle}) \cup {g}], node |-> g]
      ELSE [tree |-> [Rotate(turned, g, Other(s)) EXCEPT !.red = (@ \ {n, p}) \cup {g, IF inner THEN p ELSE n}],
            node |-> NULL]

\* A round of the loop of rb_erase: below p on side s a black node is missing.
EraseColor(t, p, s) ==
  LET sib0 == t.kid[Other(s)][p]
      t1 == IF Black(t, sib0) THEN t
            ELSE [Rotate(t, p, s) EXCEPT !.red = (@ \ {sib0}) \cup {p}]
      sib == t1.kid[Other(s)][p]
      near == t1.kid[s][sib]
      far == t1.kid[Other(s)][sib]
      t2 == IF Black(t1, far) THEN Rotate(t1, sib, Other(s)) ELSE t1
      top == t2.kid[Other(s)][p]
      outer == IF Black(t1, far) THEN sib ELSE far
      done == Rotate(t2, p, s)
  IN  IF Black(t1, near) /\ Black(t1, far)
      THEN [tree |-> [t1 EXCEPT !.red = (@ \ {p}) \cup {sib}],
            node |-> IF p \in t1.red THEN NULL ELSE p]
      ELSE [tree |-> [done EXCEPT !.red = (@ \ {p, top, outer}) \cup (IF p \in t1.red THEN {top} ELSE {})],
            node |-> NULL]

Leftmost(t, n) ==
  LET down[m \in Nodes] == IF t.kid["left"][m] = NULL THEN m ELSE down[t.kid["left"][m]]
  IN  down[n]

\* The first half of rb_erase: n is out, and where a black node is missing now.
Unlink(t, n) ==
  LET l == t.kid["left"][n]
      r == t.kid["right"][n]
      only == IF l = NULL THEN r ELSE l
      next == Leftmost(t, r)
      c == t.kid["right"][next]
      gap == Put(t, next, c)
      moved == Hang(Put(gap, n, next), next, "left", l)
      taken == Hang(moved, next, "right", IF next = r THEN c ELSE r)
      colour == IF n \in t.red THEN {next} ELSE {}
  IN  IF l = NULL \/ r = NULL
      THEN [tree |-> [Put(t, n, only) EXCEPT !.red = @ \ {n, only}],
            node |-> IF only = NULL /\ Black(t, n) THEN t.up[n] ELSE NULL,
            side |-> IF t.up[n] = NULL THEN "left" ELSE SideOf(t, n)]
      ELSE [tree |-> [taken EXCEPT !.red = (@ \ {n, next, c}) \cup colour],
            node |-> IF c = NULL /\ Black(t, next) THEN (IF next = r THEN next ELSE t.up[next]) ELSE NULL,
            side |-> IF next = r THEN "right" ELSE "left"]

\* rb_first_postorder below a node, and rb_next_postorder.
Deepest(t, n) ==
  LET down[m \in Nodes] ==
        IF t.kid["left"][m] # NULL THEN down[t.kid["left"][m]]
        ELSE IF t.kid["right"][m] # NULL THEN down[t.kid["right"][m]] ELSE m
  IN  down[n]
NextPostorder(t, n) ==
  LET p == t.up[n]
  IN  IF p # NULL /\ SideOf(t, n) = "left" /\ t.kid["right"][p] # NULL
      THEN Deepest(t, t.kid["right"][p]) ELSE p

\* ---- the module ----

Init ==
  /\ rb_pc = "out" /\ call = 1 /\ rb = RB_ROOT
  /\ cur = NULL /\ under = [node |-> NULL, side |-> "left"] /\ data = NULL /\ tmp = NULL
  /\ kfreed = [n \in Nodes |-> 0]

Is(pc, op) == rb_pc = pc /\ call <= Len(Calls) /\ Call.op = op
Return == rb_pc' = "next" /\ call' = call + 1

\* The module's data is new with each load.
ModInit ==
  /\ rb_pc = "out"
  /\ rb_pc' = "next" /\ call' = 1 /\ rb' = RB_ROOT
  /\ cur' = NULL /\ under' = [node |-> NULL, side |-> "left"] /\ data' = NULL /\ tmp' = NULL
  /\ kfreed' = [n \in Nodes |-> 0]

\* kzalloc's answer is used without a look at it.
Oops ==
  /\ Is("next", "insert") \/ Is("next", "replace")
  /\ rb_pc' = "oops"
  /\ UNCHANGED <<call, rb, cur, under, data, tmp, kfreed>>

Insert ==
  /\ Is("next", "insert")
  /\ rb_pc' = "descend"
  /\ cur' = rb.root /\ under' = [node |-> NULL, side |-> "left"]
  /\ UNCHANGED <<call, rb, data, tmp, kfreed>>

\* To the side of its key; a key that is there makes insert return.
Descend ==
  /\ rb_pc = "descend" /\ cur # NULL
  /\ IF key(Call.arg) = key(cur) THEN Return /\ UNCHANGED <<cur, under>>
     ELSE LET s == IF key(Call.arg) > key(cur) THEN "right" ELSE "left"
          IN  under' = [node |-> cur, side |-> s] /\ cur' = rb.kid[s][cur] /\ UNCHANGED <<rb_pc, call>>
  /\ UNCHANGED <<rb, data, tmp, kfreed>>

Link ==
  /\ rb_pc = "descend" /\ cur = NULL
  /\ rb' = rb_link_node(rb, Call.arg, under.node, under.side)
  /\ cur' = Call.arg /\ rb_pc' = "color"
  /\ UNCHANGED <<call, under, data, tmp, kfreed>>

Colour ==
  /\ rb_pc = "color"
  /\ LET round == InsertColor(rb, cur)
     IN  /\ rb' = round.tree /\ cur' = round.node
         /\ IF round.node = NULL THEN Return ELSE UNCHANGED <<rb_pc, call>>
  /\ UNCHANGED <<under, data, tmp, kfreed>>

Search ==
  /\ Is("next", "search")
  /\ rb_pc' = "search" /\ cur' = rb.root
  /\ UNCHANGED <<call, rb, under, data, tmp, kfreed>>

\* By the values, although the tree is ordered by the keys.
Look ==
  /\ rb_pc = "search"
  /\ IF cur = NULL \/ val(cur) = Call.arg
     THEN data' = cur /\ Return /\ UNCHANGED cur
     ELSE /\ cur' = rb.kid[IF Call.arg > val(cur) THEN "right" ELSE "left"][cur]
          /\ UNCHANGED <<rb_pc, call, data>>
  /\ UNCHANGED <<rb, under, tmp, kfreed>>

\* rb_replace_node: the new node takes over the old one's place and colour.
Replace ==
  /\ Is("next", "replace")
  /\ LET new == Call.arg
         placed == Put(rb, data, new)
     IN  rb' = [Hang(Hang(placed, new, "left", rb.kid["left"][data]), new, "right", rb.kid["right"][data])
                EXCEPT !.red = (@ \ {data}) \cup (IF data \in rb.red THEN {new} ELSE {})]
  /\ kfreed' = [kfreed EXCEPT ![data] = @ + 1]
  /\ Return
  /\ UNCHANGED <<cur, under, data, tmp>>

\* rb_erase of the new node, which stays allocated.
Erase ==
  /\ Is("next", "erase")
  /\ LET out == Unlink(rb, Call.arg)
     IN  rb' = out.tree /\ under' = [node |-> out.node, side |-> out.side]
  /\ rb_pc' = "erase"
  /\ UNCHANGED <<call, cur, data, tmp, kfreed>>

Rebalance ==
  /\ rb_pc = "erase"
  /\ IF under.node = NULL
     THEN /\ IF Call.op = "destroy" THEN rb_pc' = "free" /\ UNCHANGED call ELSE Return
          /\ UNCHANGED <<rb, under>>
     ELSE LET round == EraseColor(rb, under.node, under.side)
              n == round.node
              go == n # NULL /\ round.tree.up[n] # NULL
          IN  /\ rb' = round.tree
              /\ under' = IF go THEN [node |-> round.tree.up[n], side |-> SideOf(round.tree, n)]
                          ELSE [node |-> NULL, side |-> "left"]
              /\ UNCHANGED <<rb_pc, call>>
  /\ UNCHANGED <<cur, data, tmp, kfreed>>

SlipNext(t, n) == t.up[n]

\* The walk takes the next node before the current one goes.
Following(t, n) == NextPostorder(t, n)

\* destroy_tree: rbtree_postorder_for_each_entry_safe, with an rb_erase inside.
Destroy ==
  /\ Is("next", "destroy")
  /\ tmp' = Deepest(rb, rb.root) /\ rb_pc' = "walk"
  /\ UNCHANGED <<call, rb, cur, under, data, kfreed>>

Walk ==
  /\ rb_pc = "walk" /\ tmp # NULL
  /\ cur' = tmp /\ tmp' = Following(rb, tmp)
  /\ LET out == Unlink(rb, tmp)
     IN  rb' = out.tree /\ under' = [node |-> out.node, side |-> out.side]
  /\ rb_pc' = "erase"
  /\ UNCHANGED <<call, data, kfreed>>

Kfree ==
  /\ rb_pc = "free"
  /\ kfreed' = [kfreed EXCEPT ![cur] = @ + 1]
  /\ rb_pc' = "walk"
  /\ UNCHANGED <<call, rb, cur, under, data, tmp>>

Destroyed ==
  /\ rb_pc = "walk" /\ tmp = NULL
  /\ rb_pc' = "live"
  /\ UNCHANGED <<call, rb, cur, under, data, tmp, kfreed>>

ModExit ==
  /\ rb_pc = "live"
  /\ rb_pc' = "out"
  /\ UNCHANGED <<call, rb, cur, under, data, tmp, kfreed>>

Next ==
  \/ ModInit \/ Oops \/ ModExit
  \/ Insert \/ Descend \/ Link \/ Colour
  \/ Search \/ Look \/ Replace
  \/ Erase \/ Rebalance
  \/ Destroy \/ Walk \/ Kfree \/ Destroyed

Spec == Init /\ [][Next]_vars

---------------------------------------------------------------------------
InTree ==
  LET below[n \in Nodes \cup {NULL}] ==
        IF n = NULL THEN {} ELSE {n} \cup UNION {below[rb.kid[s][n]] : s \in Sides}
  IN  below[rb.root]

\* No two red nodes in a row, and as many black ones on every way down.
RedBlack ==
  LET height[n \in Nodes \cup {NULL}] ==
        IF n = NULL THEN 0
        ELSE LET l == height[rb.kid["left"][n]]
                 r == height[rb.kid["right"][n]]
             IN  IF l # r \/ l = 99 THEN 99 ELSE l + (IF n \in rb.red THEN 0 ELSE 1)
  IN  /\ rb.root # NULL => Black(rb, rb.root) /\ height[rb.root] # 99
      /\ \A n \in InTree : n \in rb.red => rb.up[n] \notin rb.red

\* Types; and between two calls the tree is a red-black tree.
TypeOK ==
  /\ rb_pc \in {"out", "next", "descend", "color", "search", "erase", "walk", "free", "live", "oops"}
  /\ call \in 1 .. Len(Calls) + 1
  /\ {rb.root, cur, under.node, data, tmp} \subseteq Nodes \cup {NULL} /\ under.side \in Sides
  /\ {rb.up[n] : n \in Nodes} \cup UNION {{rb.kid[s][n] : n \in Nodes} : s \in Sides} \subseteq Nodes \cup {NULL}
  /\ rb.red \subseteq Nodes
  /\ rb_pc \in {"next", "walk", "free"} => RedBlack

\* destroy_tree frees every node once and leaves an empty tree, although each
\* rb_erase may turn the tree under the walk; what is freed is neither linked
\* nor walked to.  Node 12, which only rb_erase takes out, is never freed.
DestroyFreesAll ==
  /\ \A n \in Nodes : kfreed[n] <= 1
  /\ \A n \in InTree \cup {tmp} : n # NULL => kfreed[n] = 0
  /\ rb_pc = "live" => rb.root = NULL /\ \A n \in Nodes : kfreed[n] = IF n = 12 THEN 0 ELSE 1
=============================================================================
