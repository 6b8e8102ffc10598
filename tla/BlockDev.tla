------------------------------ MODULE BlockDev ------------------------------
(***************************************************************************)
(* The RAM disk of test_blockdev/test_blockdev.c: module init and exit     *)
(* with the resources they take and give back, and queue_rq, which the     *)
(* block layer runs on as many CPUs at once as there are hardware queues   *)
(* and which copies without a lock.                                        *)
(*                                                                         *)
(* One unit stands for what one memcpy access moves.  The block layer is   *)
(* modelled from its use: it submits requests, hands out their segments,   *)
(* and del_gendisk stops new requests and waits for the ones in flight.    *)
(* Operators named Slip... are wrong variants of the operator they         *)
(* precede.  No action uses them; they document which mistake each         *)
(* property below is able to notice.                                       *)
(***************************************************************************)
EXTENDS Integers

CONSTANTS Tags,      \* requests that can be in flight together
          Capacity,  \* size of the data buffer
          Limit,     \* where the last request may end; the kernel lets none pass Capacity
          Values     \* contents of one unit

ASSUME BlockDevAssumption ==
  /\ Capacity \in Nat \ {0}
  /\ Limit \in Nat /\ Limit >= Capacity

VARIABLES
  mod,    \* how far init or exit has got
  held,   \* the resources the module has taken and not given back
  fault,  \* the first use of something that is not the module's, or not any more
  data,   \* block_device->data
  pc,     \* per request: "idle", "iter", "copy" or "bug"
  dir, start, total, buf,    \* the request: direction, first unit, length, buffer
  pos, nr_bytes,             \* locals of do_request
  seen, b_buf, b_len, k,     \* units iterated; the segment's offset and length; memcpy
  raced   \* history: units another request wrote after this one moved them

request == <<dir, start, total>>
segment == <<seen, b_buf, b_len>>
service == <<pc, request, buf, pos, nr_bytes, segment, k, raced>>
vars == <<mod, held, fault, data, service>>

Units == 0 .. Capacity - 1
NoBuf == [i \in {} |-> 0]
Zero == [t \in Tags |-> 0]

Init ==
  /\ mod = "out" /\ held = {} /\ fault = "none"
  /\ data \in [Units -> Values]         \* kmalloc does not clear it
  /\ pc = [t \in Tags |-> "idle"]
  /\ dir = [t \in Tags |-> "READ"] /\ start = Zero /\ total = Zero
  /\ buf = [t \in Tags |-> NoBuf]
  /\ pos = Zero /\ nr_bytes = Zero /\ seen = Zero /\ b_buf = Zero /\ b_len = Zero /\ k = Zero
  /\ raced = [t \in Tags |-> {}]

-----------------------------------------------------------------------------
(* myblock_driver_init.                                                    *)

Take(from, to, r) ==
  /\ mod = from /\ mod' = to
  /\ held' = held \cup r
  /\ UNCHANGED <<fault, data, service>>

\* What is given back.  unregister_blkdev warns of a number nobody registered.
GiveBack(released) ==
  /\ held' = held \ released
  /\ fault' = IF "major" \in released \ held /\ fault = "none" THEN "not_registered" ELSE fault

Fail(from, released) ==
  /\ mod = from /\ mod' = "failed"
  /\ GiveBack(released)
  /\ UNCHANGED <<data, service>>

\* Nobody looks whether register_blkdev succeeded, and the disk is added with
\* major 0 instead of the number it returned: init goes on without one.
InitRegister == Take("out", "major", {"major"}) \/ Take("out", "major", {})

InitDevice == Take("major", "dev", {"dev"}) \/ Fail("major", {"major"})

InitData == Take("dev", "data", {"data"}) \/ Fail("dev", {"major", "dev"})

\* A failed blk_mq_alloc_tag_set returns at once.
InitTagSet == Take("data", "tags", {"tag_set"}) \/ Fail("data", {})

\* The error pointer of a failed blk_mq_alloc_disk is dereferenced.
InitDisk ==
  \/ Take("tags", "disk", {"disk", "queue"})
  \/ /\ mod = "tags" /\ mod' = "oops" /\ fault' = "err_ptr"
     /\ UNCHANGED <<held, data, service>>

InitAddDisk == Take("disk", "live", {}) \/ Fail("disk", {"disk", "queue"})

-----------------------------------------------------------------------------
(* myblock_driver_exit.                                                    *)

\* del_gendisk: no request is accepted any more ...
ExitDelDisk ==
  /\ mod = "live" /\ mod' = "draining"
  /\ UNCHANGED <<held, fault, data, service>>

SlipNoDrain ==
  /\ mod = "draining" /\ mod' = "put"
  /\ held' = held \ {"disk", "queue"}
  /\ UNCHANGED <<fault, data, service>>

\* ... and it returns when none is in flight.  put_disk drops the last reference
\* to the disk, which owns the queue.
ExitPutDisk ==
  /\ mod = "draining" /\ mod' = "put"
  /\ \A t \in Tags : pc[t] = "idle"
  /\ held' = held \ {"disk", "queue"}
  /\ UNCHANGED <<fault, data, service>>

\* blk_mq_destroy_queue on the pointer kept in block_device.
ExitQueue ==
  /\ mod = "put" /\ mod' = "noqueue"
  /\ fault' = IF "queue" \in held THEN fault ELSE "released_queue"
  /\ UNCHANGED <<held, data, service>>

\* kfree(data), unregister_blkdev, kfree(block_device).
ExitFree ==
  /\ mod = "noqueue" /\ mod' = "gone"
  /\ GiveBack({"data", "major", "dev"})
  /\ UNCHANGED <<data, service>>

-----------------------------------------------------------------------------
(* queue_rq and do_request.                                                *)

Set(f, t, v) == [f EXCEPT ![t] = v]

Submit(t) ==
  /\ mod = "live" /\ pc[t] = "idle"
  /\ pc' = Set(pc, t, "iter")
  /\ \E d \in {"READ", "WRITE"}, s \in Units, n \in 1 .. Limit :
       /\ s + n <= Limit
       /\ dir' = Set(dir, t, d) /\ start' = Set(start, t, s) /\ total' = Set(total, t, n)
       /\ \E b \in [0 .. n - 1 -> Values] : buf' = Set(buf, t, b)
       /\ pos' = Set(pos, t, s)
  /\ UNCHANGED <<mod, held, fault, data, nr_bytes, segment, k, raced>>

\* b_len: what of n units from p on lies inside the device.
SlipClampSwapped(p, n) == IF p + n > Capacity THEN p - Capacity ELSE n

Clamp(p, n) == IF p + n > Capacity THEN Capacity - p ELSE n

\* rq_for_each_segment: the next segment has n units.
SlipNoClamp(t) ==
  /\ pc[t] = "iter" /\ seen[t] < total[t]
  /\ \E n \in 1 .. total[t] - seen[t] :
       /\ seen' = Set(seen, t, seen[t] + n)
       /\ b_buf' = Set(b_buf, t, seen[t])
       /\ b_len' = Set(b_len, t, n)
  /\ pc' = Set(pc, t, "copy")
  /\ k' = Set(k, t, 0)
  /\ UNCHANGED <<mod, held, fault, data, request, buf, pos, nr_bytes, raced>>

NextSegment(t) ==
  /\ pc[t] = "iter" /\ seen[t] < total[t]
  /\ \E n \in 1 .. total[t] - seen[t] :
       /\ seen' = Set(seen, t, seen[t] + n)
       /\ b_buf' = Set(b_buf, t, seen[t])
       /\ b_len' = Set(b_len, t, Clamp(pos[t], n))
  /\ pc' = Set(pc, t, "copy")
  /\ k' = Set(k, t, 0)
  /\ UNCHANGED <<mod, held, fault, data, request, buf, pos, nr_bytes, raced>>

\* The requests that moved unit p before t overwrites it.
RacedBy(t, p) ==
  [u \in Tags |->
     IF u # t /\ start[u] <= p /\ p < pos[u] + k[u] THEN raced[u] \cup {p} ELSE raced[u]]

\* One unit of memcpy, either way.
Copy(t) ==
  /\ pc[t] = "copy" /\ k[t] < b_len[t]
  /\ IF dir[t] = "WRITE"
     THEN /\ data' = [data EXCEPT ![pos[t] + k[t]] = buf[t][b_buf[t] + k[t]]]
          /\ raced' = RacedBy(t, pos[t] + k[t])
          /\ UNCHANGED buf
     ELSE /\ buf' = [buf EXCEPT ![t][b_buf[t] + k[t]] = data[pos[t] + k[t]]]
          /\ UNCHANGED <<data, raced>>
  /\ k' = Set(k, t, k[t] + 1)
  /\ UNCHANGED <<mod, held, fault, pc, request, pos, nr_bytes, segment>>

SlipKeepsPos(t) ==
  /\ pc[t] = "copy" /\ k[t] = b_len[t]
  /\ pc' = Set(pc, t, "iter")
  /\ nr_bytes' = Set(nr_bytes, t, nr_bytes[t] + b_len[t])
  /\ b_len' = Set(b_len, t, 0) /\ k' = Set(k, t, 0)
  /\ UNCHANGED <<mod, held, fault, data, request, buf, pos, seen, b_buf, raced>>

SlipKeepsCount(t) ==
  /\ pc[t] = "copy" /\ k[t] = b_len[t]
  /\ pc' = Set(pc, t, "iter")
  /\ pos' = Set(pos, t, pos[t] + b_len[t])
  /\ nr_bytes' = Set(nr_bytes, t, b_len[t])
  /\ b_len' = Set(b_len, t, 0) /\ k' = Set(k, t, 0)
  /\ UNCHANGED <<mod, held, fault, data, request, buf, seen, b_buf, raced>>

EndSegment(t) ==
  /\ pc[t] = "copy" /\ k[t] = b_len[t]
  /\ pc' = Set(pc, t, "iter")
  /\ pos' = Set(pos, t, pos[t] + b_len[t])
  /\ nr_bytes' = Set(nr_bytes, t, nr_bytes[t] + b_len[t])
  /\ b_len' = Set(b_len, t, 0) /\ k' = Set(k, t, 0)
  /\ UNCHANGED <<mod, held, fault, data, request, buf, seen, b_buf, raced>>

Forget(t) ==
  /\ pc' = Set(pc, t, "idle")
  /\ dir' = Set(dir, t, "READ") /\ start' = Set(start, t, 0) /\ total' = Set(total, t, 0)
  /\ buf' = Set(buf, t, NoBuf)
  /\ pos' = Set(pos, t, 0) /\ nr_bytes' = Set(nr_bytes, t, 0)
  /\ seen' = Set(seen, t, 0) /\ b_buf' = Set(b_buf, t, 0)
  /\ raced' = Set(raced, t, {})
  /\ UNCHANGED <<b_len, k>>

\* blk_update_request has nothing left to do after total units, and then
\* __blk_mq_end_request gives the tag back.
SlipEndsEarly(t) ==
  /\ pc[t] = "iter" /\ nr_bytes[t] > 0
  /\ Forget(t)
  /\ UNCHANGED <<mod, held, fault, data>>

Complete(t) ==
  /\ pc[t] = "iter" /\ seen[t] = total[t]
  /\ IF nr_bytes[t] < total[t]
     THEN /\ pc' = Set(pc, t, "bug")        \* BUG()
          /\ UNCHANGED <<request, buf, pos, nr_bytes, segment, k, raced>>
     ELSE Forget(t)
  /\ UNCHANGED <<mod, held, fault, data>>

Serve(t) == NextSegment(t) \/ Copy(t) \/ EndSegment(t) \/ Complete(t)

DriverInit == InitRegister \/ InitDevice \/ InitData \/ InitTagSet \/ InitDisk \/ InitAddDisk
DriverExit == ExitDelDisk \/ ExitPutDisk \/ ExitQueue \/ ExitFree

Next == DriverInit \/ DriverExit \/ \E t \in Tags : Submit(t) \/ Serve(t)

Spec == Init /\ [][Next]_vars

\* The CPUs run queue_rq to its end, and rmmod goes on once it has begun.
FairSpec ==
  /\ Spec
  /\ \A t \in Tags : WF_vars(Serve(t))
  /\ WF_vars(ExitPutDisk) /\ WF_vars(ExitQueue) /\ WF_vars(ExitFree)

-----------------------------------------------------------------------------
(* Properties.                                                             *)

Resources == {"major", "dev", "data", "tag_set", "disk", "queue"}
Counters == [Tags -> Nat]

TypeOK ==
  /\ mod \in {"out", "major", "dev", "data", "tags", "disk", "live", "draining", "put",
              "noqueue", "gone", "failed", "oops"}
  /\ held \subseteq Resources
  /\ fault \in {"none", "err_ptr", "released_queue", "not_registered"}
  /\ data \in [Units -> Values]
  /\ pc \in [Tags -> {"idle", "iter", "copy", "bug"}]
  /\ dir \in [Tags -> {"READ", "WRITE"}]
  /\ start \in [Tags -> Units]
  /\ total \in Counters /\ pos \in Counters /\ nr_bytes \in Counters
  /\ seen \in Counters /\ b_buf \in Counters /\ b_len \in Counters /\ k \in Counters
  /\ \A t \in Tags : buf[t] \in [0 .. total[t] - 1 -> Values]
  /\ raced \in [Tags -> SUBSET Units]

\* memcpy stays inside the data buffer and inside the request's segment even for
\* a request that reaches past the end of the device.
InBounds ==
  \A t \in Tags : pc[t] = "copy" /\ k[t] < b_len[t] =>
    pos[t] + k[t] < Capacity /\ b_buf[t] + k[t] < seen[t]

\* What a request has moved so far is what its buffer and the device agree on,
\* unit for unit and whatever the segments, apart from units another request
\* has written since.
TransferAgrees ==
  \A t \in Tags : \A p \in (start[t] .. pos[t] + k[t] - 1) \ raced[t] :
    buf[t][p - start[t]] = data[p]

\* BUG(), which "shouldn't" happen, strikes only a request past the end.
BugOnlyPastTheEnd == \A t \in Tags : pc[t] = "bug" => start[t] + total[t] > Capacity

\* While a request is in flight, everything it uses is there; the major number,
\* which init may never have got, is nothing it uses.
ResourcesOutliveRequests ==
  (\E t \in Tags : pc[t] # "idle") => {"dev", "data", "tag_set", "disk", "queue"} \subseteq held

\* The units of each request that have not moved.
left == [t \in Tags |-> nr_bytes[t] + k[t] .. total[t] - 1]
busy == {t \in Tags : pc[t] # "idle"}

Medium == INSTANCE Disk

\* Segment by segment copying, in any interleaving, is a disk: every unit moves
\* once, and no request completes before all of its units have.
ImplementsDisk == Medium!Spec

\* Every request that the kernel lets through is completed, so that del_gendisk,
\* which waits for it, returns: no segment leaves it short of bytes.
ServedInTheEnd ==
  \A t \in Tags : pc[t] = "iter" /\ start[t] + total[t] <= Capacity ~> pc[t] = "idle"

\* What exit promises: "Don't forget to cleanup everything".
CleansUpEverything == mod = "gone" => held = {}
=============================================================================
