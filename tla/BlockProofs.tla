----------------------------- MODULE BlockProofs -----------------------------
(***************************************************************************)
(* BlockDev for any number of requests in flight, any device size and any  *)
(* request the block layer may submit.                                     *)
(***************************************************************************)
EXTENDS BlockDev, TLAPS

Resting(t) ==
  /\ dir[t] = "READ" /\ start[t] = 0 /\ total[t] = 0 /\ pos[t] = 0 /\ nr_bytes[t] = 0
  /\ seen[t] = 0 /\ b_buf[t] = 0 /\ b_len[t] = 0 /\ k[t] = 0 /\ raced[t] = {}

\* pos and nr_bytes move together, and with the iterator until pos reaches the end
\* of the device; from then on every segment is clamped to nothing.
Moving(t) ==
  /\ pos[t] = start[t] + nr_bytes[t] /\ pos[t] <= Capacity
  /\ seen[t] <= total[t] /\ nr_bytes[t] <= seen[t]
  /\ pc[t] = "idle" => Resting(t)
  /\ pc[t] # "copy" => b_len[t] = 0 /\ k[t] = 0
                      /\ (nr_bytes[t] = seen[t] \/ pos[t] = Capacity)
  /\ pc[t] = "copy" =>
       /\ k[t] <= b_len[t] /\ pos[t] + b_len[t] <= Capacity
       /\ b_len[t] > 0 => b_buf[t] = nr_bytes[t]
       /\ nr_bytes[t] + b_len[t] <= seen[t]
       /\ nr_bytes[t] + b_len[t] = seen[t] \/ pos[t] + b_len[t] = Capacity
  /\ pc[t] = "bug" => start[t] + total[t] > Capacity

\* buf is a function on Tags, which its being indexed alone does not say.
Typed == TypeOK /\ buf = [t \in Tags |-> buf[t]]

AllMoving == \A t \in Tags : Moving(t)

\* What init has for certain when it reaches each of its steps: not the major number.
Owned ==
  /\ mod = "dev" => {"dev"} \subseteq held
  /\ mod = "data" => {"dev", "data"} \subseteq held
  /\ mod = "tags" => {"dev", "data", "tag_set"} \subseteq held
  /\ mod \in {"disk", "live", "draining"} => {"dev", "data", "tag_set", "disk", "queue"} \subseteq held
  /\ mod \notin {"live", "draining"} => \A t \in Tags : pc[t] = "idle"

\* What a step of request t leaves alone: every other request.
Others(t) == \A u \in Tags \ {t} :
  /\ pc'[u] = pc[u] /\ dir'[u] = dir[u] /\ start'[u] = start[u] /\ total'[u] = total[u]
  /\ pos'[u] = pos[u] /\ nr_bytes'[u] = nr_bytes[u] /\ seen'[u] = seen[u]
  /\ b_buf'[u] = b_buf[u] /\ b_len'[u] = b_len[u] /\ k'[u] = k[u]
  /\ buf'[u] = buf[u]

LEMMA InvInit == Init => Typed /\ AllMoving /\ Owned /\ TransferAgrees
BY BlockDevAssumption DEF Init, Typed, TypeOK, Counters, AllMoving, Moving, Resting, Owned, TransferAgrees, Units, Zero, NoBuf, Resources

(***************************************************************************)
(* What each step does to the request it serves.                           *)
(***************************************************************************)
LEMMA Points ==
  ASSUME Typed, NEW t \in Tags
  PROVE  /\ start[t] \in Nat /\ start[t] < Capacity /\ total[t] \in Nat /\ pos[t] \in Nat
         /\ nr_bytes[t] \in Nat /\ seen[t] \in Nat /\ b_buf[t] \in Nat /\ b_len[t] \in Nat
         /\ k[t] \in Nat /\ pc[t] \in {"idle", "iter", "copy", "bug"}
         /\ Capacity \in Nat \ {0}
BY BlockDevAssumption DEF Typed, TypeOK, Counters, Units

LEMMA LifecycleFrame == DriverInit \/ DriverExit => UNCHANGED <<data, service>>
BY DEF DriverInit, DriverExit, InitRegister, InitDevice, InitData, InitTagSet, InitDisk,
       InitAddDisk, ExitDelDisk, ExitPutDisk, ExitQueue, ExitFree, Take, Fail, GiveBack, service, request, segment

LEMMA SubmitAt ==
  ASSUME Typed, NEW t \in Tags, Submit(t)
  PROVE  /\ Others(t) /\ mod = "live" /\ pc[t] = "idle" /\ pc'[t] = "iter"
         /\ start'[t] \in Units /\ total'[t] \in Nat \ {0} /\ pos'[t] = start'[t]
         /\ dir'[t] \in {"READ", "WRITE"}
         /\ buf'[t] \in [0 .. total'[t] - 1 -> Values]
         /\ UNCHANGED <<mod, held, fault, data, nr_bytes, seen, b_buf, b_len, k, raced>>
BY BlockDevAssumption DEF Typed, TypeOK, Counters, Units, Submit, Set, Others, segment

LEMMA NextSegmentAt ==
  ASSUME Typed, AllMoving, NEW t \in Tags, NextSegment(t)
  PROVE  /\ Others(t) /\ pc[t] = "iter" /\ pc'[t] = "copy"
         /\ \E n \in 1 .. total[t] - seen[t] :
              /\ seen'[t] = seen[t] + n /\ b_buf'[t] = seen[t]
              /\ b_len'[t] = Clamp(pos[t], n) /\ b_len'[t] \in Nat
         /\ k'[t] = 0
         /\ UNCHANGED <<mod, held, fault, data, dir, start, total, buf, pos, nr_bytes, raced>>
<1>1. pos[t] <= Capacity /\ pos[t] \in Nat
  BY DEF Typed, TypeOK, Counters, AllMoving, Moving
<1>2. PICK n \in 1 .. total[t] - seen[t] :
        /\ seen' = Set(seen, t, seen[t] + n)
        /\ b_buf' = Set(b_buf, t, seen[t])
        /\ b_len' = Set(b_len, t, Clamp(pos[t], n))
  BY DEF NextSegment
<1>3. Clamp(pos[t], n) \in Nat
  BY <1>1, BlockDevAssumption DEF Clamp, Typed, TypeOK, Counters
<1>4. seen'[t] = seen[t] + n /\ b_buf'[t] = seen[t] /\ b_len'[t] = Clamp(pos[t], n)
  BY <1>2 DEF Typed, TypeOK, Counters, Set
<1>5. QED
  BY <1>2, <1>3, <1>4 DEF NextSegment, Typed, TypeOK, Counters, Set, Others, request

LEMMA CopyAt ==
  ASSUME Typed, AllMoving, NEW t \in Tags, Copy(t)
  PROVE  /\ Others(t) /\ pc[t] = "copy" /\ k[t] < b_len[t] /\ k'[t] = k[t] + 1
         /\ pos[t] + k[t] \in Units /\ pos[t] + k[t] = start[t] + nr_bytes[t] + k[t]
         /\ b_buf[t] = nr_bytes[t]
         /\ nr_bytes[t] + k[t] \in 0 .. total[t] - 1
         /\ \/ /\ dir[t] = "WRITE" /\ UNCHANGED buf
               /\ data' = [data EXCEPT ![pos[t] + k[t]] = buf[t][nr_bytes[t] + k[t]]]
               /\ raced' = RacedBy(t, pos[t] + k[t])
            \/ /\ dir[t] # "WRITE" /\ UNCHANGED <<data, raced>>
               /\ buf'[t] = [buf[t] EXCEPT ![nr_bytes[t] + k[t]] = data[pos[t] + k[t]]]
         /\ UNCHANGED <<mod, held, fault, pc, dir, start, total, pos, nr_bytes, seen, b_buf, b_len>>
<1>1. Moving(t) /\ pc[t] = "copy" /\ k[t] < b_len[t]
  BY DEF AllMoving, Copy
<1>2. /\ pos[t] + k[t] \in Units /\ b_buf[t] = nr_bytes[t]
      /\ pos[t] + k[t] = start[t] + nr_bytes[t] + k[t]
      /\ nr_bytes[t] + k[t] \in 0 .. total[t] - 1
  BY <1>1, Points DEF Moving, Units
<1>3. /\ k'[t] = k[t] + 1 /\ \A u \in Tags \ {t} : k'[u] = k[u]
  BY DEF Copy, Typed, TypeOK, Counters, Set
<1>4. UNCHANGED <<mod, held, fault, pc, dir, start, total, pos, nr_bytes, seen, b_buf, b_len>>
  BY DEF Copy, request, segment
<1>5. CASE dir[t] = "WRITE"
  BY <1>1, <1>2, <1>3, <1>4, <1>5 DEF Copy, Others
<1>6. CASE dir[t] # "WRITE"
  <2>1. /\ buf' = [buf EXCEPT ![t] = [buf[t] EXCEPT ![nr_bytes[t] + k[t]] = data[pos[t] + k[t]]]]
        /\ UNCHANGED <<data, raced>>
    BY <1>2, <1>6 DEF Copy
  <2>2. /\ buf'[t] = [buf[t] EXCEPT ![nr_bytes[t] + k[t]] = data[pos[t] + k[t]]]
        /\ \A u \in Tags \ {t} : buf'[u] = buf[u]
    BY <2>1 DEF Typed
  <2>3. QED
    BY <1>1, <1>2, <1>3, <1>4, <1>6, <2>1, <2>2 DEF Others
<1>7. QED
  BY <1>5, <1>6

LEMMA EndSegmentAt ==
  ASSUME Typed, NEW t \in Tags, EndSegment(t)
  PROVE  /\ Others(t) /\ pc[t] = "copy" /\ pc'[t] = "iter" /\ k[t] = b_len[t]
         /\ pos'[t] = pos[t] + b_len[t] /\ nr_bytes'[t] = nr_bytes[t] + b_len[t]
         /\ b_len'[t] = 0 /\ k'[t] = 0
         /\ UNCHANGED <<mod, held, fault, data, dir, start, total, buf, seen, b_buf, raced>>
BY DEF EndSegment, Typed, TypeOK, Counters, Set, Others, request

LEMMA CompleteAt ==
  ASSUME Typed, AllMoving, NEW t \in Tags, Complete(t)
  PROVE  /\ Others(t) /\ pc[t] = "iter" /\ seen[t] = total[t]
         /\ \/ /\ nr_bytes[t] < total[t] /\ pc'[t] = "bug"
               /\ UNCHANGED <<dir, start, total, buf, pos, nr_bytes, seen, b_buf, raced>>
            \/ /\ nr_bytes[t] = total[t] /\ pc'[t] = "idle"
               /\ dir'[t] = "READ" /\ start'[t] = 0 /\ total'[t] = 0
               /\ buf'[t] = NoBuf /\ pos'[t] = 0 /\ nr_bytes'[t] = 0
               /\ seen'[t] = 0 /\ b_buf'[t] = 0 /\ raced' = [raced EXCEPT ![t] = {}]
         /\ UNCHANGED <<mod, held, fault, data, b_len, k>>
<1>1. CASE nr_bytes[t] < total[t]
  BY <1>1 DEF Complete, Typed, TypeOK, Set, Others, request, segment
<1>2. CASE ~(nr_bytes[t] < total[t])
  <2>1. nr_bytes[t] = total[t]
    BY <1>2 DEF Complete, AllMoving, Moving, Typed, TypeOK, Counters
  <2>2. Forget(t) /\ UNCHANGED <<mod, held, fault, data>>
    BY <1>2 DEF Complete
  <2>3. /\ pc'[t] = "idle" /\ dir'[t] = "READ" /\ start'[t] = 0 /\ total'[t] = 0
        /\ buf'[t] = NoBuf /\ pos'[t] = 0 /\ nr_bytes'[t] = 0
        /\ seen'[t] = 0 /\ b_buf'[t] = 0 /\ raced' = [raced EXCEPT ![t] = {}]
        /\ UNCHANGED <<b_len, k>>
    BY <2>2 DEF Forget, Typed, TypeOK, Counters, Set
  <2>4. Others(t)
    BY <2>2 DEF Forget, Typed, TypeOK, Counters, Set, Others
  <2>5. QED
    BY <2>1, <2>2, <2>3, <2>4 DEF Complete
<1>3. QED
  BY <1>1, <1>2

LEMMA TypeStep == Typed /\ AllMoving /\ [Next]_vars => Typed'
<1> SUFFICES ASSUME Typed /\ AllMoving, [Next]_vars PROVE Typed'
  OBVIOUS
<1>1. ASSUME DriverInit \/ DriverExit PROVE Typed'
  <2>1. UNCHANGED <<data, service>>
    BY <1>1, LifecycleFrame
  <2>2. /\ mod' \in {"out", "major", "dev", "data", "tags", "disk", "live", "draining", "put",
                     "noqueue", "gone", "failed", "oops"}
        /\ held' \subseteq Resources
        /\ fault' \in {"none", "err_ptr", "released_queue", "not_registered"}
    BY <1>1 DEF Typed, TypeOK, Resources, DriverInit, DriverExit, InitRegister, InitDevice,
       InitData, InitTagSet, InitDisk, InitAddDisk, ExitDelDisk, ExitPutDisk, ExitQueue,
       ExitFree, Take, Fail, GiveBack
  <2>3. QED
    BY <2>1, <2>2 DEF Typed, TypeOK, service, request, segment
<1>2. ASSUME UNCHANGED vars PROVE Typed'
  BY <1>2 DEF Typed, TypeOK, vars, service, request, segment
<1>3. ASSUME NEW t \in Tags, Submit(t) PROVE Typed'
  <2>1. UNCHANGED <<mod, held, fault, data, nr_bytes, seen, b_buf, b_len, k, raced>>
    BY <1>3 DEF Submit, segment
  <2>2. PICK d \in {"READ", "WRITE"}, s \in Units, n \in 1 .. Limit :
          /\ dir' = Set(dir, t, d) /\ start' = Set(start, t, s) /\ total' = Set(total, t, n)
          /\ \E b \in [0 .. n - 1 -> Values] : buf' = Set(buf, t, b)
          /\ pos' = Set(pos, t, s)
    BY <1>3 DEF Submit
  <2>3. dir' \in [Tags -> {"READ", "WRITE"}] /\ start' \in [Tags -> Units]
    BY <2>2 DEF Typed, TypeOK, Set
  <2>4. total' \in Counters /\ pos' \in Counters
    BY <2>2, BlockDevAssumption DEF Typed, TypeOK, Counters, Set, Units
  <2>5. pc' \in [Tags -> {"idle", "iter", "copy", "bug"}]
    BY <1>3 DEF Submit, Typed, TypeOK, Set
  <2>6. \A u \in Tags : buf'[u] \in [0 .. total'[u] - 1 -> Values]
    BY <1>3, SubmitAt DEF Others, Typed, TypeOK
  <2>7. buf' = [u \in Tags |-> buf'[u]]
    BY <2>2 DEF Typed, Set
  <2>8. QED
    BY <2>1, <2>3, <2>4, <2>5, <2>6, <2>7 DEF Typed, TypeOK
<1>4. ASSUME NEW t \in Tags, NextSegment(t) PROVE Typed'
  <2>1. UNCHANGED <<mod, held, fault, data, dir, start, total, buf, pos, nr_bytes, raced>>
    BY <1>4 DEF NextSegment, request
  <2>2. PICK n \in 1 .. total[t] - seen[t] :
          /\ seen' = Set(seen, t, seen[t] + n)
          /\ b_buf' = Set(b_buf, t, seen[t])
          /\ b_len' = Set(b_len, t, Clamp(pos[t], n))
    BY <1>4 DEF NextSegment
  <2>3. b_len'[t] \in Nat
    BY <1>4, NextSegmentAt
  <2>4. b_len' \in Counters
    BY <2>2, <2>3 DEF Typed, TypeOK, Counters, Set
  <2>5. seen' \in Counters /\ b_buf' \in Counters
    BY <2>2 DEF Typed, TypeOK, Counters, Set
  <2>6. pc' \in [Tags -> {"idle", "iter", "copy", "bug"}] /\ k' \in Counters
    BY <1>4 DEF NextSegment, Typed, TypeOK, Counters, Set
  <2>7. QED
    BY <2>1, <2>4, <2>5, <2>6 DEF Typed, TypeOK
<1>5. ASSUME NEW t \in Tags, Copy(t) PROVE Typed'
  <2>1. UNCHANGED <<mod, held, fault, pc, dir, start, total, pos, nr_bytes, seen, b_buf, b_len>>
    BY <1>5, CopyAt
  <2>2. k' \in Counters
    BY <1>5 DEF Copy, Typed, TypeOK, Counters, Set
  <2>3. pos[t] + k[t] \in Units /\ nr_bytes[t] + k[t] \in 0 .. total[t] - 1
    BY <1>5, CopyAt
  <2>4. buf[t] \in [0 .. total[t] - 1 -> Values] /\ data \in [Units -> Values]
    BY DEF Typed, TypeOK
  <2>5. data' \in [Units -> Values]
    <3>1. \/ data' = data
          \/ data' = [data EXCEPT ![pos[t] + k[t]] = buf[t][nr_bytes[t] + k[t]]]
      BY <1>5, CopyAt
    <3>2. QED
      BY <2>3, <2>4, <3>1
  <2>6. raced' \in [Tags -> SUBSET Units]
    <3>1. \A u \in Tags : RacedBy(t, pos[t] + k[t])[u] \in SUBSET Units
      BY <2>3 DEF RacedBy, Typed, TypeOK
    <3>2. RacedBy(t, pos[t] + k[t]) \in [Tags -> SUBSET Units]
      BY <3>1 DEF RacedBy
    <3>3. QED
      BY <3>2, <1>5, CopyAt DEF Typed, TypeOK
  <2>7. buf'[t] \in [0 .. total[t] - 1 -> Values]
    <3>1. \/ buf' = buf
          \/ buf'[t] = [buf[t] EXCEPT ![nr_bytes[t] + k[t]] = data[pos[t] + k[t]]]
      BY <1>5, CopyAt
    <3>2. QED
      BY <2>3, <2>4, <3>1
  <2>8. \A u \in Tags : buf'[u] \in [0 .. total'[u] - 1 -> Values]
    <3>1. \A u \in Tags \ {t} : buf'[u] = buf[u]
      BY <1>5, CopyAt DEF Others
    <3>2. QED
      BY <2>1, <2>7, <3>1 DEF Typed, TypeOK
  <2>9. buf' = [u \in Tags |-> buf'[u]]
    BY <1>5 DEF Copy, Typed
  <2>10. QED
    BY <2>1, <2>2, <2>5, <2>6, <2>8, <2>9 DEF Typed, TypeOK
<1>6. ASSUME NEW t \in Tags, EndSegment(t) PROVE Typed'
  <2>1. UNCHANGED <<mod, held, fault, data, dir, start, total, buf, seen, b_buf, raced>>
    BY <1>6, EndSegmentAt
  <2>2. /\ pc' \in [Tags -> {"idle", "iter", "copy", "bug"}]
        /\ pos' \in Counters /\ nr_bytes' \in Counters /\ b_len' \in Counters /\ k' \in Counters
    BY <1>6 DEF EndSegment, Typed, TypeOK, Counters, Set
  <2>3. QED
    BY <2>1, <2>2 DEF Typed, TypeOK
<1>7. ASSUME NEW t \in Tags, Complete(t) PROVE Typed'
  <2>1. CASE nr_bytes[t] < total[t]
    BY <1>7, <2>1 DEF Complete, Typed, TypeOK, Set, request, segment
  <2>2. CASE ~(nr_bytes[t] < total[t])
    <3>1. Forget(t) /\ UNCHANGED <<mod, held, fault, data>>
      BY <1>7, <2>2 DEF Complete
    <3>2. /\ pc' \in [Tags -> {"idle", "iter", "copy", "bug"}]
          /\ dir' \in [Tags -> {"READ", "WRITE"}] /\ raced' \in [Tags -> SUBSET Units]
      BY <3>1 DEF Forget, Typed, TypeOK, Set
    <3>3. start' \in [Tags -> Units]
      BY <3>1, BlockDevAssumption DEF Forget, Typed, TypeOK, Set, Units
    <3>4. /\ total' \in Counters /\ pos' \in Counters /\ nr_bytes' \in Counters
          /\ seen' \in Counters /\ b_buf' \in Counters /\ b_len' \in Counters /\ k' \in Counters
      BY <3>1 DEF Forget, Typed, TypeOK, Set, Counters
    <3>5. buf'[t] \in [0 .. total'[t] - 1 -> Values]
      <4>1. buf'[t] = NoBuf /\ total'[t] = 0
        BY <3>1 DEF Forget, Typed, TypeOK, Counters, Set
      <4>2. NoBuf \in [0 .. 0 - 1 -> Values]
        BY DEF NoBuf
      <4>3. QED
        BY <4>1, <4>2
    <3>6. \A u \in Tags : buf'[u] \in [0 .. total'[u] - 1 -> Values]
      BY <3>5, <1>7, CompleteAt DEF Others, Typed, TypeOK
    <3>7. buf' = [u \in Tags |-> buf'[u]]
      BY <3>1 DEF Forget, Typed, Set
    <3>8. QED
      BY <3>1, <3>2, <3>3, <3>4, <3>6, <3>7 DEF Typed, TypeOK
  <2>3. QED
    BY <2>1, <2>2
<1>8. QED
  BY <1>1, <1>2, <1>3, <1>4, <1>5, <1>6, <1>7 DEF Next, Serve

LEMMA MovingStep == Typed /\ AllMoving /\ [Next]_vars => AllMoving'
<1> SUFFICES ASSUME Typed /\ AllMoving, [Next]_vars PROVE AllMoving'
  OBVIOUS
<1>1. ASSUME DriverInit \/ DriverExit PROVE AllMoving'
  BY <1>1, LifecycleFrame DEF AllMoving, Moving, Resting, service, request, segment
<1>2. ASSUME UNCHANGED vars PROVE AllMoving'
  BY <1>2 DEF AllMoving, Moving, Resting, vars, service, request, segment
<1>3. ASSUME NEW t \in Tags, Submit(t) PROVE AllMoving'
  <2>1. SUFFICES ASSUME NEW u \in Tags PROVE Moving(u)'
    BY DEF AllMoving
  <2>2. Moving(u) /\ Moving(t)
    BY DEF AllMoving
  <2>3. CASE u # t
    <3>1. raced'[u] = raced[u]
      BY <2>3, <1>3, SubmitAt DEF Typed, TypeOK
    <3>2. Others(t)
      BY <1>3, SubmitAt
    <3>3. QED
      BY <2>2, <2>3, <3>1, <3>2 DEF Others, Moving, Resting
  <2>4. CASE u = t
    BY <2>2, <2>4, <1>3, SubmitAt, Points DEF Moving, Resting, Clamp, Units
  <2>5. QED
    BY <2>3, <2>4
<1>4. ASSUME NEW t \in Tags, NextSegment(t) PROVE AllMoving'
  <2>1. SUFFICES ASSUME NEW u \in Tags PROVE Moving(u)'
    BY DEF AllMoving
  <2>2. Moving(u) /\ Moving(t)
    BY DEF AllMoving
  <2>3. CASE u # t
    <3>1. raced'[u] = raced[u]
      BY <2>3, <1>4, NextSegmentAt DEF Typed, TypeOK
    <3>2. Others(t)
      BY <1>4, NextSegmentAt
    <3>3. QED
      BY <2>2, <2>3, <3>1, <3>2 DEF Others, Moving, Resting
  <2>4. CASE u = t
    <3>1. PICK n \in 1 .. total[t] - seen[t] :
            seen'[t] = seen[t] + n /\ b_buf'[t] = seen[t] /\ b_len'[t] = Clamp(pos[t], n)
      BY <1>4, NextSegmentAt
    <3>2. /\ pc[t] = "iter" /\ pc'[t] = "copy" /\ k'[t] = 0
          /\ UNCHANGED <<start, total, pos, nr_bytes>>
      BY <1>4, NextSegmentAt
    <3>3. CASE pos[t] + n > Capacity
      BY <2>2, <2>4, <3>1, <3>2, <3>3, Points DEF Moving, Clamp
    <3>4. CASE ~(pos[t] + n > Capacity)
      BY <2>2, <2>4, <3>1, <3>2, <3>4, Points DEF Moving, Clamp
    <3>5. QED
      BY <3>3, <3>4
  <2>5. QED
    BY <2>3, <2>4
<1>5. ASSUME NEW t \in Tags, Copy(t) PROVE AllMoving'
  <2>1. SUFFICES ASSUME NEW u \in Tags PROVE Moving(u)'
    BY DEF AllMoving
  <2>2. Moving(u) /\ Moving(t)
    BY DEF AllMoving
  <2>3. CASE u # t
    <3>1. pc[u] = "idle" => raced'[u] = raced[u]
      <4>1. pc[u] = "idle" => start[u] = 0 /\ pos[u] = 0 /\ k[u] = 0
        BY <2>2 DEF Moving, Resting
      <4>2. QED
        <5>1. CASE raced' = raced
          BY <5>1
        <5>2. CASE raced' = RacedBy(t, pos[t] + k[t])
          BY <2>3, <4>1, <5>2, <1>5, CopyAt, Points DEF RacedBy, Units
        <5>3. QED
          BY <5>1, <5>2, <1>5, CopyAt
    <3>2. Others(t)
      BY <1>5, CopyAt
    <3>3. QED
      BY <2>2, <2>3, <3>1, <3>2 DEF Others, Moving, Resting
  <2>4. CASE u = t
    <3>1. /\ pc[t] = "copy" /\ k[t] < b_len[t] /\ k'[t] = k[t] + 1
          /\ UNCHANGED <<pc, start, total, pos, nr_bytes, seen, b_buf, b_len>>
      BY <1>5, CopyAt
    <3>2. QED
      BY <2>2, <2>4, <3>1, Points DEF Moving
  <2>5. QED
    BY <2>3, <2>4
<1>6. ASSUME NEW t \in Tags, EndSegment(t) PROVE AllMoving'
  <2>1. SUFFICES ASSUME NEW u \in Tags PROVE Moving(u)'
    BY DEF AllMoving
  <2>2. Moving(u) /\ Moving(t)
    BY DEF AllMoving
  <2>3. CASE u # t
    <3>1. raced'[u] = raced[u]
      BY <2>3, <1>6, EndSegmentAt DEF Typed, TypeOK
    <3>2. Others(t)
      BY <1>6, EndSegmentAt
    <3>3. QED
      BY <2>2, <2>3, <3>1, <3>2 DEF Others, Moving, Resting
  <2>4. CASE u = t
    BY <2>2, <2>4, <1>6, EndSegmentAt, Points DEF Moving, Resting, Clamp, Units
  <2>5. QED
    BY <2>3, <2>4
<1>7. ASSUME NEW t \in Tags, Complete(t) PROVE AllMoving'
  <2>1. SUFFICES ASSUME NEW u \in Tags PROVE Moving(u)'
    BY DEF AllMoving
  <2>2. Moving(u) /\ Moving(t)
    BY DEF AllMoving
  <2>3. CASE u # t
    <3>1. raced'[u] = raced[u]
      BY <2>3, <1>7, CompleteAt DEF Typed, TypeOK
    <3>2. Others(t)
      BY <1>7, CompleteAt
    <3>3. QED
      BY <2>2, <2>3, <3>1, <3>2 DEF Others, Moving, Resting
  <2>4. CASE u = t
    <3>1. /\ pc[t] = "iter" /\ seen[t] = total[t] /\ UNCHANGED <<b_len, k>>
      BY <1>7, CompleteAt
    <3>2. CASE /\ nr_bytes[t] < total[t] /\ pc'[t] = "bug"
               /\ UNCHANGED <<start, total, pos, nr_bytes, seen, b_buf>>
      BY <2>2, <2>4, <3>1, <3>2, Points DEF Moving
    <3>3. CASE /\ nr_bytes[t] = total[t] /\ pc'[t] = "idle"
               /\ dir'[t] = "READ" /\ start'[t] = 0 /\ total'[t] = 0
               /\ pos'[t] = 0 /\ nr_bytes'[t] = 0
               /\ seen'[t] = 0 /\ b_buf'[t] = 0 /\ raced' = [raced EXCEPT ![t] = {}]
      <4>1. raced'[t] = {}
        BY <3>3 DEF Typed, TypeOK
      <4>2. QED
        BY <2>2, <2>4, <3>1, <3>3, <4>1, Points DEF Moving, Resting
    <3>4. QED
      BY <3>2, <3>3, <1>7, CompleteAt
  <2>5. QED
    BY <2>3, <2>4
<1>8. QED
  BY <1>1, <1>2, <1>3, <1>4, <1>5, <1>6, <1>7 DEF Next, Serve

LEMMA OwnedStep == Typed /\ AllMoving /\ Owned /\ [Next]_vars => Owned'
<1> SUFFICES ASSUME Typed /\ AllMoving /\ Owned, [Next]_vars PROVE Owned'
  OBVIOUS
<1>1. ASSUME DriverInit \/ DriverExit PROVE Owned'
  BY <1>1 DEF Owned, Resources, Typed, TypeOK, DriverInit, DriverExit, InitRegister, InitDevice,
     InitData, InitTagSet, InitDisk, InitAddDisk, ExitDelDisk, ExitPutDisk, ExitQueue,
     ExitFree, Take, Fail, GiveBack, service
<1>2. ASSUME UNCHANGED vars PROVE Owned'
  BY <1>2 DEF Owned, vars, service
<1>3. ASSUME NEW t \in Tags, Submit(t) PROVE Owned'
  <2>1. mod = "live" /\ mod' = mod /\ held' = held
    BY <1>3, SubmitAt
  <2>2. QED
    BY <2>1 DEF Owned
<1>4. ASSUME NEW t \in Tags, NextSegment(t) PROVE Owned'
  <2>1. pc[t] = "iter" /\ mod' = mod /\ held' = held
    BY <1>4, NextSegmentAt
  <2>2. mod \in {"live", "draining"}
    BY <2>1 DEF Owned
  <2>3. QED
    BY <2>1, <2>2 DEF Owned
<1>5. ASSUME NEW t \in Tags, Copy(t) PROVE Owned'
  <2>1. pc[t] = "copy" /\ mod' = mod /\ held' = held
    BY <1>5, CopyAt
  <2>2. mod \in {"live", "draining"}
    BY <2>1 DEF Owned
  <2>3. QED
    BY <2>1, <2>2 DEF Owned
<1>6. ASSUME NEW t \in Tags, EndSegment(t) PROVE Owned'
  <2>1. pc[t] = "copy" /\ mod' = mod /\ held' = held
    BY <1>6, EndSegmentAt
  <2>2. mod \in {"live", "draining"}
    BY <2>1 DEF Owned
  <2>3. QED
    BY <2>1, <2>2 DEF Owned
<1>7. ASSUME NEW t \in Tags, Complete(t) PROVE Owned'
  <2>1. pc[t] = "iter" /\ mod' = mod /\ held' = held
    BY <1>7, CompleteAt
  <2>2. mod \in {"live", "draining"}
    BY <2>1 DEF Owned
  <2>3. QED
    BY <2>1, <2>2 DEF Owned
<1>8. QED
  BY <1>1, <1>2, <1>3, <1>4, <1>5, <1>6, <1>7 DEF Next, Serve

LEMMA AgreeStep == Typed /\ AllMoving /\ TransferAgrees /\ [Next]_vars => TransferAgrees'
<1> SUFFICES ASSUME Typed /\ AllMoving /\ TransferAgrees, [Next]_vars PROVE TransferAgrees'
  OBVIOUS
<1>1. ASSUME DriverInit \/ DriverExit PROVE TransferAgrees'
  <2>1. UNCHANGED <<data, start, pos, k, raced, buf>>
    BY <1>1, LifecycleFrame DEF service, request
  <2>2. QED
    BY <2>1 DEF TransferAgrees
<1>2. ASSUME UNCHANGED vars PROVE TransferAgrees'
  BY <1>2 DEF TransferAgrees, vars, service, request, segment
<1>3. ASSUME NEW t \in Tags, Submit(t) PROVE TransferAgrees'
  <2>1. SUFFICES ASSUME NEW u \in Tags, NEW p \in (start'[u] .. pos'[u] + k'[u] - 1) \ raced'[u]
                PROVE  buf'[u][p - start'[u]] = data'[p]
    BY DEF TransferAgrees
  <2>2. CASE u # t
    <3>1. /\ start'[u] = start[u] /\ pos'[u] = pos[u] /\ k'[u] = k[u] /\ buf'[u] = buf[u]
          /\ raced'[u] = raced[u] /\ data' = data
      BY <2>2, <1>3, SubmitAt DEF Others, Typed, TypeOK
    <3>2. QED
      BY <3>1 DEF TransferAgrees
  <2>3. CASE u = t
    <3>1. Moving(t)
      BY DEF AllMoving
    <3>2. QED
      BY <2>3, <3>1, <1>3, SubmitAt, Points DEF TransferAgrees, Moving, Resting, Units
  <2>4. QED
    BY <2>2, <2>3
<1>4. ASSUME NEW t \in Tags, NextSegment(t) PROVE TransferAgrees'
  <2>1. SUFFICES ASSUME NEW u \in Tags, NEW p \in (start'[u] .. pos'[u] + k'[u] - 1) \ raced'[u]
                PROVE  buf'[u][p - start'[u]] = data'[p]
    BY DEF TransferAgrees
  <2>2. CASE u # t
    <3>1. /\ start'[u] = start[u] /\ pos'[u] = pos[u] /\ k'[u] = k[u] /\ buf'[u] = buf[u]
          /\ raced'[u] = raced[u] /\ data' = data
      BY <2>2, <1>4, NextSegmentAt DEF Others, Typed, TypeOK
    <3>2. QED
      BY <3>1 DEF TransferAgrees
  <2>3. CASE u = t
    <3>1. Moving(t)
      BY DEF AllMoving
    <3>2. QED
      BY <2>3, <3>1, <1>4, NextSegmentAt, Points DEF TransferAgrees, Moving, Resting, Units
  <2>4. QED
    BY <2>2, <2>3
<1>5. ASSUME NEW t \in Tags, Copy(t) PROVE TransferAgrees'
  <2> DEFINE q == pos[t] + k[t]
  <2>1. SUFFICES ASSUME NEW u \in Tags, NEW p \in (start'[u] .. pos'[u] + k'[u] - 1) \ raced'[u]
                PROVE  buf'[u][p - start'[u]] = data'[p]
    BY DEF TransferAgrees
  <2>2. /\ start' = start /\ pos' = pos /\ q \in Units /\ q - start[t] = nr_bytes[t] + k[t]
        /\ k'[t] = k[t] + 1 /\ nr_bytes[t] + k[t] \in 0 .. total[t] - 1
    <3>1. start' = start /\ pos' = pos
      BY <1>5, CopyAt
    <3>2. /\ pos[t] + k[t] \in Units /\ k'[t] = k[t] + 1 /\ nr_bytes[t] + k[t] \in 0 .. total[t] - 1
          /\ pos[t] + k[t] = start[t] + nr_bytes[t] + k[t]
      BY <1>5, CopyAt
    <3>3. start[t] \in Nat /\ nr_bytes[t] \in Nat /\ k[t] \in Nat /\ pos[t] \in Nat
      BY Points
    <3>4. QED
      BY <3>1, <3>2, <3>3
  <2>3. start[u] \in Nat /\ pos[u] \in Nat /\ k[u] \in Nat /\ q \in Nat /\ p \in Int
    BY <2>2, BlockDevAssumption DEF Typed, TypeOK, Counters, Units
  <2>4. pos[u] + k[u] <= Capacity
    BY Points DEF AllMoving, Moving
  <2>5. data \in [Units -> Values] /\ buf[t] \in [0 .. total[t] - 1 -> Values]
    BY DEF Typed, TypeOK
  <2>6. CASE dir[t] = "WRITE"
    <3>1. /\ buf' = buf /\ data' = [data EXCEPT ![q] = buf[t][nr_bytes[t] + k[t]]]
          /\ raced' = RacedBy(t, q)
      BY <2>6, <1>5, CopyAt
    <3>2. CASE u = t /\ p = q
      BY <2>2, <2>5, <3>1, <3>2
    <3>3. CASE u = t /\ p # q
      <4>1. p \in (start[t] .. pos[t] + k[t] - 1) \ raced[t]
        BY <2>2, <2>3, <3>1, <3>3 DEF RacedBy
      <4>2. QED
        BY <2>2, <2>5, <3>1, <3>3, <4>1 DEF TransferAgrees
    <3>4. CASE u # t
      <4>1. k'[u] = k[u]
        BY <3>4, <1>5, CopyAt DEF Others
      <4>2. p # q /\ p \in (start[u] .. pos[u] + k[u] - 1) \ raced[u]
        BY <2>1, <2>2, <2>3, <3>1, <3>4, <4>1 DEF RacedBy
      <4>3. data'[p] = data[p]
        BY <2>5, <3>1, <4>2
      <4>4. QED
        BY <2>2, <3>1, <4>2, <4>3 DEF TransferAgrees
    <3>5. QED
      BY <3>2, <3>3, <3>4
  <2>7. CASE dir[t] # "WRITE"
    <3>1. /\ data' = data /\ raced' = raced
          /\ buf'[t] = [buf[t] EXCEPT ![nr_bytes[t] + k[t]] = data[q]]
      BY <2>7, <1>5, CopyAt
    <3>2. CASE u = t /\ p = q
      BY <2>2, <2>5, <3>1, <3>2
    <3>3. CASE u = t /\ p # q
      <4>1. p \in (start[t] .. pos[t] + k[t] - 1) \ raced[t]
        BY <2>2, <2>3, <3>1, <3>3
      <4>2. p - start[t] # nr_bytes[t] + k[t]
        BY <2>2, <2>3, <3>3
      <4>3. buf'[t][p - start[t]] = buf[t][p - start[t]]
        BY <2>5, <3>1, <4>2
      <4>4. QED
        BY <2>2, <3>1, <3>3, <4>1, <4>3 DEF TransferAgrees
    <3>4. CASE u # t
      <4> Others(t)
        BY <1>5, CopyAt
      <4>1. k'[u] = k[u] /\ buf'[u] = buf[u]
        BY <3>4 DEF Others
      <4>2. QED
        BY <2>2, <3>1, <4>1 DEF TransferAgrees
    <3>5. QED
      BY <3>2, <3>3, <3>4
  <2>8. QED
    BY <2>6, <2>7
<1>6. ASSUME NEW t \in Tags, EndSegment(t) PROVE TransferAgrees'
  <2>1. SUFFICES ASSUME NEW u \in Tags, NEW p \in (start'[u] .. pos'[u] + k'[u] - 1) \ raced'[u]
                PROVE  buf'[u][p - start'[u]] = data'[p]
    BY DEF TransferAgrees
  <2>2. CASE u # t
    <3>1. /\ start'[u] = start[u] /\ pos'[u] = pos[u] /\ k'[u] = k[u] /\ buf'[u] = buf[u]
          /\ raced'[u] = raced[u] /\ data' = data
      BY <2>2, <1>6, EndSegmentAt DEF Others, Typed, TypeOK
    <3>2. QED
      BY <3>1 DEF TransferAgrees
  <2>3. CASE u = t
    <3>1. Moving(t)
      BY DEF AllMoving
    <3>2. QED
      BY <2>3, <3>1, <1>6, EndSegmentAt, Points DEF TransferAgrees, Moving, Resting, Units
  <2>4. QED
    BY <2>2, <2>3
<1>7. ASSUME NEW t \in Tags, Complete(t) PROVE TransferAgrees'
  <2>1. SUFFICES ASSUME NEW u \in Tags, NEW p \in (start'[u] .. pos'[u] + k'[u] - 1) \ raced'[u]
                PROVE  buf'[u][p - start'[u]] = data'[p]
    BY DEF TransferAgrees
  <2>2. CASE u # t
    <3>1. /\ start'[u] = start[u] /\ pos'[u] = pos[u] /\ k'[u] = k[u] /\ buf'[u] = buf[u]
          /\ raced'[u] = raced[u] /\ data' = data
      BY <2>2, <1>7, CompleteAt DEF Others, Typed, TypeOK
    <3>2. QED
      BY <3>1 DEF TransferAgrees
  <2>3. CASE u = t
    <3>1. Moving(t)
      BY DEF AllMoving
    <3>2. QED
      BY <2>3, <3>1, <1>7, CompleteAt, Points DEF TransferAgrees, Moving, Resting, Units
  <2>4. QED
    BY <2>2, <2>3
<1>8. QED
  BY <1>1, <1>2, <1>3, <1>4, <1>5, <1>6, <1>7 DEF Next, Serve

(***************************************************************************)
(* The refinement of Disk.                                                 *)
(***************************************************************************)
LEMMA RefineInit == Init => Medium!Init
BY DEF Init, Medium!Init, Units, NoBuf, Zero, left, busy

\* A step that leaves requests and data alone, and one that moves no unit, stutter.
LEMMA Stutter ==
  ASSUME UNCHANGED <<data, dir, start, buf>>,
         \A u \in Tags : left'[u] = left[u] /\ (pc'[u] = "idle" <=> pc[u] = "idle")
  PROVE  UNCHANGED Medium!vars
<1>1. left' = left
  BY DEF left
<1>2. busy' = busy
  BY DEF busy
<1>3. QED
  BY <1>1, <1>2 DEF Medium!vars

LEMMA RefineStep == Typed /\ AllMoving /\ Typed' /\ [Next]_vars => [Medium!Next]_(Medium!vars)
<1> SUFFICES ASSUME Typed, AllMoving, Typed', [Next]_vars
             PROVE  Medium!Next \/ UNCHANGED Medium!vars
  OBVIOUS
<1>1. ASSUME DriverInit \/ DriverExit PROVE UNCHANGED Medium!vars
  <2>1. UNCHANGED <<data, pc, dir, start, total, buf, nr_bytes, k>>
    BY <1>1, LifecycleFrame DEF service, request
  <2>2. QED
    BY <2>1, Stutter DEF left
<1>2. ASSUME UNCHANGED vars PROVE UNCHANGED Medium!vars
  <2>1. UNCHANGED <<data, pc, dir, start, total, buf, nr_bytes, k>>
    BY <1>2 DEF vars, service, request
  <2>2. QED
    BY <2>1, Stutter DEF left
<1>3. ASSUME NEW t \in Tags, Submit(t) PROVE Medium!Submit(t)
  <2>1. Moving(t) /\ pc[t] = "idle" /\ nr_bytes[t] = 0 /\ k[t] = 0 /\ nr_bytes' = nr_bytes /\ k' = k
    BY <1>3, SubmitAt DEF AllMoving, Moving, Resting
  <2>2. t \notin busy /\ busy' = busy \cup {t}
    BY <1>3, SubmitAt DEF busy, Others
  <2>3. PICK d \in {"READ", "WRITE"}, s \in Units, n \in 1 .. Limit :
          /\ dir' = Set(dir, t, d) /\ start' = Set(start, t, s) /\ total' = Set(total, t, n)
          /\ \E b \in [0 .. n - 1 -> Values] : buf' = Set(buf, t, b)
    BY <1>3 DEF Submit
  <2>4. total'[t] = n /\ \A u \in Tags \ {t} : total'[u] = total[u]
    BY <2>3 DEF Set, Typed, TypeOK, Counters
  <2>5. left' = [left EXCEPT ![t] = 0 .. n - 1]
    <3>1. left'[t] = 0 .. n - 1
      BY <2>1, <2>4 DEF left
    <3>2. \A u \in Tags \ {t} : left'[u] = left[u]
      BY <2>1, <2>4 DEF left
    <3>3. QED
      BY <3>1, <3>2 DEF left
  <2>6. data' = data
    BY <1>3 DEF Submit
  <2>7. QED
    BY <2>2, <2>3, <2>5, <2>6 DEF Medium!Submit, Set, Units
<1>4. ASSUME NEW t \in Tags, NextSegment(t) PROVE UNCHANGED Medium!vars
  <2>1. /\ UNCHANGED <<data, dir, start, total, buf, nr_bytes>>
        /\ pc[t] = "iter" /\ pc'[t] = "copy" /\ k'[t] = 0 /\ Moving(t)
    BY <1>4, NextSegmentAt DEF AllMoving
  <2>2. \A u \in Tags \ {t} : k'[u] = k[u] /\ pc'[u] = pc[u]
    BY <1>4, NextSegmentAt DEF Others
  <2>3. k[t] = 0
    BY <2>1 DEF Moving
  <2>4. QED
    BY <2>1, <2>2, <2>3, Stutter DEF left
<1>5. ASSUME NEW t \in Tags, Copy(t)
      PROVE  \E i \in left[t] : Medium!Transfer(t, i)
  <2> DEFINE i == nr_bytes[t] + k[t]
  <2>1. /\ UNCHANGED <<pc, dir, start, total, nr_bytes>> /\ pc[t] = "copy" /\ k'[t] = k[t] + 1
        /\ pos[t] + k[t] = start[t] + nr_bytes[t] + k[t] /\ pos[t] + k[t] \in Units
        /\ i \in 0 .. total[t] - 1 /\ b_buf[t] = nr_bytes[t]
    BY <1>5, CopyAt
  <2>2. \A u \in Tags \ {t} : k'[u] = k[u]
    BY <1>5, CopyAt DEF Others
  <2>3. i \in Nat /\ start[t] \in Nat /\ start[t] + i = pos[t] + k[t] /\ start[t] + i < Capacity
    BY <2>1, Points DEF Units
  <2>4. i \in left[t]
    BY <2>1, Points DEF left
  <2>5. left' = [left EXCEPT ![t] = @ \ {i}]
    <3>1. left'[t] = left[t] \ {i}
      BY <2>1, Points DEF left
    <3>2. \A u \in Tags \ {t} : left'[u] = left[u]
      BY <2>1, <2>2 DEF left
    <3>3. QED
      BY <3>1, <3>2 DEF left
  <2>6. busy' = busy /\ t \in busy
    BY <2>1 DEF busy
  <2>7. CASE dir[t] = "WRITE"
    <3>1. data' = [data EXCEPT ![start[t] + i] = buf[t][i]] /\ buf' = buf
      BY <2>3, <2>7, <1>5, CopyAt
    <3>2. QED
      BY <2>1, <2>3, <2>4, <2>5, <2>6, <2>7, <3>1 DEF Medium!Transfer
  <2>8. CASE dir[t] # "WRITE"
    <3>1. /\ buf' = [buf EXCEPT ![t] = [buf[t] EXCEPT ![b_buf[t] + k[t]] = data[pos[t] + k[t]]]]
          /\ data' = data
      BY <2>8, <1>5 DEF Copy
    <3>2. buf' = [buf EXCEPT ![t] = [buf[t] EXCEPT ![i] = data[start[t] + i]]]
      BY <2>1, <2>3, <3>1
    <3>3. QED
      BY <2>1, <2>3, <2>4, <2>5, <2>6, <2>8, <3>1, <3>2 DEF Medium!Transfer
  <2>9. QED
    BY <2>7, <2>8
<1>6. ASSUME NEW t \in Tags, EndSegment(t) PROVE UNCHANGED Medium!vars
  <2>1. /\ UNCHANGED <<data, dir, start, total, buf>> /\ pc[t] = "copy" /\ pc'[t] = "iter"
        /\ nr_bytes'[t] = nr_bytes[t] + b_len[t] /\ k[t] = b_len[t] /\ k'[t] = 0
    BY <1>6, EndSegmentAt
  <2>2. \A u \in Tags \ {t} : k'[u] = k[u] /\ pc'[u] = pc[u] /\ nr_bytes'[u] = nr_bytes[u]
    BY <1>6, EndSegmentAt DEF Others
  <2>3. nr_bytes'[t] + k'[t] = nr_bytes[t] + k[t]
    BY <2>1, Points
  <2>4. QED
    BY <2>1, <2>2, <2>3, Stutter DEF left
<1>7. ASSUME NEW t \in Tags, Complete(t) PROVE Medium!Complete(t) \/ UNCHANGED Medium!vars
  <2>1. CASE nr_bytes[t] < total[t]
    <3>1. UNCHANGED <<data, dir, start, total, buf, nr_bytes, k>> /\ pc[t] = "iter" /\ pc'[t] = "bug"
      BY <1>7, <2>1 DEF Complete, request, segment, Set, Typed, TypeOK
    <3>2. \A u \in Tags \ {t} : pc'[u] = pc[u]
      BY <1>7, CompleteAt DEF Others
    <3>3. QED
      BY <3>1, <3>2, Stutter DEF left
  <2>2. CASE ~(nr_bytes[t] < total[t])
    <3>1. /\ Forget(t) /\ data' = data
      BY <1>7, <2>2 DEF Complete
    <3>2. nr_bytes[t] = total[t] /\ pc[t] = "iter" /\ k' = k /\ Moving(t)
      BY <1>7, <2>2, CompleteAt, Points DEF AllMoving
    <3>3. k[t] = 0
      BY <3>2 DEF Moving
    <3>4. total'[t] = 0 /\ nr_bytes'[t] = 0 /\ pc'[t] = "idle"
      BY <3>1 DEF Forget, Set, Typed, TypeOK, Counters
    <3>5. \A u \in Tags \ {t} : pc'[u] = pc[u] /\ total'[u] = total[u] /\ nr_bytes'[u] = nr_bytes[u]
      BY <1>7, CompleteAt DEF Others
    <3>6. left[t] = {} /\ left'[t] = {}
      BY <3>2, <3>3, <3>4, Points DEF left
    <3>7. left' = left
      BY <3>2, <3>5, <3>6 DEF left
    <3>8. t \in busy /\ busy' = busy \ {t}
      BY <3>2, <3>4, <3>5 DEF busy
    <3>9. QED
      BY <3>1, <3>6, <3>7, <3>8 DEF Medium!Complete, Forget, Set, NoBuf
  <2>3. QED
    BY <2>1, <2>2
<1>8. QED
  BY <1>1, <1>2, <1>3, <1>4, <1>5, <1>6, <1>7 DEF Next, Serve, Medium!Next

LEMMA Invariance == Spec => [](Typed /\ AllMoving /\ Owned /\ TransferAgrees)
BY InvInit, TypeStep, MovingStep, OwnedStep, AgreeStep, PTL DEF Spec

\* The types of all variables.
THEOREM TypeCorrect == Spec => []TypeOK
<1>1. Typed => TypeOK
  BY DEF Typed
<1>2. QED
  BY <1>1, Invariance, PTL

\* Buffers and device agree on everything moved so far.
THEOREM TransfersAgree == Spec => []TransferAgrees
BY Invariance, PTL

\* No copy leaves the data buffer or its segment.
THEOREM CopiesInBounds == Spec => []InBounds
<1>1. Typed /\ AllMoving => InBounds
  BY Points DEF AllMoving, Moving, InBounds
<1>2. QED
  BY <1>1, Invariance, PTL

\* Only a request past the end of the device reaches BUG().
THEOREM BugNeedsOverhang == Spec => []BugOnlyPastTheEnd
<1>1. AllMoving => BugOnlyPastTheEnd
  BY DEF AllMoving, Moving, BugOnlyPastTheEnd
<1>2. QED
  BY <1>1, Invariance, PTL

\* What a request in flight uses is never given back under it.
THEOREM ResourcesLast == Spec => []ResourcesOutliveRequests
<1>1. Owned => ResourcesOutliveRequests
  BY DEF Owned, ResourcesOutliveRequests, Resources
<1>2. QED
  BY <1>1, Invariance, PTL

\* The driver is a disk: its initial states and steps are the disk's.
THEOREM DriverIsDisk == Spec => ImplementsDisk
BY Invariance, RefineInit, RefineStep, PTL DEF Spec, ImplementsDisk, Medium!Spec

(***************************************************************************)
(* The safety half of ServedInTheEnd.                                      *)
(***************************************************************************)

\* An upper bound of the steps request t has before it: three for each unit the
\* iterator has not handed out, the rest of the segment, and its end.
Work(t) ==
  3 * (total[t] - seen[t]) + (IF pc[t] = "copy" THEN b_len[t] - k[t] + 1 ELSE 0)
    + (IF pc[t] \in {"iter", "copy"} THEN 1 ELSE 0)

\* A step of the driver can be taken for each request in flight, and one within
\* the device is not in BUG().
AllCanGoOn ==
  \A t \in Tags :
    /\ pc[t] = "iter" => seen[t] < total[t] \/ seen[t] = total[t]
    /\ pc[t] = "copy" => k[t] < b_len[t] \/ k[t] = b_len[t]
    /\ start[t] + total[t] <= Capacity => pc[t] \in {"idle", "iter", "copy"}

\* No request is ever without a next step, and one within the device ends by
\* being completed: it never gets to BUG().
THEOREM RequestsCanGoOn == Spec => [](AllCanGoOn /\ \A t \in Tags : Work(t) \in Nat)
<1>1. Typed /\ AllMoving => AllCanGoOn /\ \A t \in Tags : Work(t) \in Nat
  <2> SUFFICES ASSUME Typed, AllMoving PROVE AllCanGoOn /\ \A t \in Tags : Work(t) \in Nat
    OBVIOUS
  <2>1. \A t \in Tags : Moving(t)
    BY DEF AllMoving
  <2>2. AllCanGoOn
    <3> SUFFICES ASSUME NEW t \in Tags
                 PROVE  /\ pc[t] = "iter" => seen[t] < total[t] \/ seen[t] = total[t]
                        /\ pc[t] = "copy" => k[t] < b_len[t] \/ k[t] = b_len[t]
                        /\ start[t] + total[t] <= Capacity => pc[t] \in {"idle", "iter", "copy"}
      BY DEF AllCanGoOn
    <3>1. seen[t] <= total[t] /\ (pc[t] = "copy" => k[t] <= b_len[t]) /\ (pc[t] = "bug" => start[t] + total[t] > Capacity)
      BY <2>1 DEF Moving
    <3>2. QED
      BY <3>1, Points
  <2>3. ASSUME NEW t \in Tags PROVE Work(t) \in Nat
    <3>1. total[t] - seen[t] \in Nat /\ (pc[t] = "copy" => b_len[t] - k[t] + 1 \in Nat)
      BY <2>1, Points DEF Moving
    <3>2. QED
      BY <3>1 DEF Work
  <2>4. QED
    BY <2>2, <2>3
<1>2. QED
  BY <1>1, Invariance, PTL

LEMMA ServingWorks ==
  ASSUME Typed, AllMoving, NEW t \in Tags, Serve(t)
  PROVE  Work(t)' < Work(t)
<1>1. /\ total[t] \in Nat /\ seen[t] \in Nat /\ b_len[t] \in Nat /\ k[t] \in Nat /\ pos[t] \in Nat
      /\ nr_bytes[t] \in Nat /\ Capacity \in Nat /\ pos[t] <= Capacity /\ seen[t] <= total[t]
  BY Points DEF AllMoving, Moving
<1>2. CASE NextSegment(t)
  <2>1. PICK n \in 1 .. total[t] - seen[t] :
          seen'[t] = seen[t] + n /\ b_len'[t] = Clamp(pos[t], n) /\ b_len'[t] \in Nat
    BY <1>2, NextSegmentAt
  <2>2. b_len'[t] <= n /\ k'[t] = 0 /\ pc[t] = "iter" /\ pc'[t] = "copy" /\ total' = total
    BY <1>1, <1>2, <2>1, NextSegmentAt DEF Clamp
  <2>3. Work(t) = 3 * (total[t] - seen[t]) + 1 /\ Work(t)' = 3 * (total[t] - (seen[t] + n)) + (b_len'[t] + 1) + 1
    BY <1>1, <2>1, <2>2 DEF Work
  <2>4. QED
    BY <1>1, <2>1, <2>2, <2>3
<1>3. CASE Copy(t)
  <2>1. pc[t] = "copy" /\ k[t] < b_len[t] /\ k'[t] = k[t] + 1 /\ UNCHANGED <<pc, total, seen, b_len>>
    BY <1>3, CopyAt
  <2>2. QED
    BY <1>1, <2>1 DEF Work
<1>4. CASE EndSegment(t)
  <2>1. pc[t] = "copy" /\ pc'[t] = "iter" /\ k[t] = b_len[t] /\ UNCHANGED <<total, seen>>
    BY <1>4, EndSegmentAt
  <2>2. QED
    BY <1>1, <2>1 DEF Work
<1>5. CASE Complete(t)
  <2>1. /\ pc[t] = "iter" /\ pc'[t] \in {"idle", "bug"} /\ seen[t] = total[t]
        /\ total'[t] - seen'[t] = 0
    BY <1>1, <1>5, CompleteAt
  <2>2. QED
    BY <1>1, <2>1 DEF Work
<1>6. QED
  BY <1>2, <1>3, <1>4, <1>5 DEF Serve

\* Each step of the driver for a request lowers what the request has before it,
\* and nothing else that happens touches it; a new one begins with three steps
\* a unit and one, and none begins once exit has.
GetsServed ==
  \A t \in Tags :
    IF Serve(t) THEN Work(t)' < Work(t)
    ELSE Work(t)' = Work(t) \/ (mod = "live" /\ pc[t] = "idle" /\ Work(t)' = 3 * total'[t] + 1)

\* So a request is served in at most three steps a unit and one, whatever its
\* segments and whoever else is served, and del_gendisk waits for no more.
THEOREM RequestsGetServed == Spec => [][GetsServed]_vars
<1>1. Typed /\ AllMoving /\ [Next]_vars => [GetsServed]_vars
  <2> SUFFICES ASSUME Typed, AllMoving, Next, NEW t \in Tags, ~ Serve(t)
               PROVE  Work(t)' = Work(t) \/ (mod = "live" /\ pc[t] = "idle" /\ Work(t)' = 3 * total'[t] + 1)
    BY ServingWorks DEF GetsServed
  <2>1. CASE DriverInit \/ DriverExit
    BY <2>1, LifecycleFrame DEF service, request, segment, Work
  <2>2. CASE Submit(t)
    <3>1. mod = "live" /\ pc[t] = "idle" /\ pc'[t] = "iter" /\ seen'[t] = seen[t] /\ total'[t] \in Nat
      BY <2>2, SubmitAt
    <3>2. seen[t] = 0
      BY <3>1 DEF AllMoving, Moving, Resting
    <3>3. QED
      BY <3>1, <3>2 DEF Work
  <2>3. ASSUME NEW u \in Tags, u # t, Submit(u) \/ Serve(u) PROVE Work(t)' = Work(t)
    <3>1. Others(u)
      BY <2>3, SubmitAt, NextSegmentAt, CopyAt, EndSegmentAt, CompleteAt DEF Serve
    <3>2. pc'[t] = pc[t] /\ total'[t] = total[t] /\ seen'[t] = seen[t] /\ b_len'[t] = b_len[t] /\ k'[t] = k[t]
      BY <2>3, <3>1 DEF Others
    <3>3. QED
      BY <3>2 DEF Work
  <2>4. QED
    BY <2>1, <2>2, <2>3 DEF Next
<1>2. QED
  BY <1>1, Invariance, PTL DEF Spec
=============================================================================
