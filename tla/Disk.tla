-------------------------------- MODULE Disk --------------------------------
(***************************************************************************)
(* What a RAM disk promises the block layer, and no more: requests served  *)
(* side by side move their units between buffer and medium one by one, in  *)
(* any order, each of them once, and a request is complete when all of its *)
(* units have moved.  Overlapping requests in flight are not ordered.      *)
(***************************************************************************)
EXTENDS Integers

CONSTANTS Tags,       \* requests in flight
          Capacity,   \* units the medium holds
          Limit,      \* the longest request
          Values      \* contents of one unit

VARIABLES data,   \* the medium
          busy,   \* the requests in flight
          dir,    \* "READ" or "WRITE"
          start,  \* first unit of the request
          buf,    \* the request's own buffer
          left    \* its units still to be moved

vars == <<data, busy, dir, start, buf, left>>

Init ==
  /\ data \in [0 .. Capacity - 1 -> Values]
  /\ busy = {}
  /\ dir = [t \in Tags |-> "READ"]
  /\ start = [t \in Tags |-> 0]
  /\ buf = [t \in Tags |-> [i \in {} |-> 0]]
  /\ left = [t \in Tags |-> {}]

\* A request for n units arrives; its buffer holds what is to be written, or
\* what the reader left in it.
Submit(t) ==
  /\ t \notin busy
  /\ busy' = busy \cup {t}
  /\ \E d \in {"READ", "WRITE"}, s \in 0 .. Capacity - 1, n \in 1 .. Limit :
       /\ dir' = [dir EXCEPT ![t] = d]
       /\ start' = [start EXCEPT ![t] = s]
       /\ left' = [left EXCEPT ![t] = 0 .. n - 1]
       /\ \E b \in [0 .. n - 1 -> Values] : buf' = [buf EXCEPT ![t] = b]
  /\ UNCHANGED data

Transfer(t, i) ==
  /\ t \in busy /\ i \in left[t]
  /\ start[t] + i < Capacity
  /\ left' = [left EXCEPT ![t] = @ \ {i}]
  /\ IF dir[t] = "WRITE"
     THEN data' = [data EXCEPT ![start[t] + i] = buf[t][i]] /\ UNCHANGED buf
     ELSE buf' = [buf EXCEPT ![t][i] = data[start[t] + i]] /\ UNCHANGED data
  /\ UNCHANGED <<busy, dir, start>>

Complete(t) ==
  /\ t \in busy /\ left[t] = {}
  /\ busy' = busy \ {t}
  /\ dir' = [dir EXCEPT ![t] = "READ"]
  /\ start' = [start EXCEPT ![t] = 0]
  /\ buf' = [buf EXCEPT ![t] = [i \in {} |-> 0]]
  /\ UNCHANGED <<data, left>>

Next == \E t \in Tags : Submit(t) \/ Complete(t) \/ \E i \in left[t] : Transfer(t, i)

Spec == Init /\ [][Next]_vars
=============================================================================
