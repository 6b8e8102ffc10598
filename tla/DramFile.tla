------------------------------ MODULE DramFile ------------------------------
(***************************************************************************)
(* Reading physical memory through dram/dram.c: dev_read goes no further   *)
(* than the end of the page it starts in, dev_lseek moves the position.    *)
(* Threads share one open file.  The read system call loads the position   *)
(* before it calls dev_read and stores it afterwards, and takes no lock    *)
(* for a character device; dev_lseek reads and writes it at once.          *)
(*                                                                         *)
(* Operators named Slip... are wrong variants of the operator they         *)
(* precede.  No action uses them; they document which mistake each         *)
(* property below is able to notice.                                       *)
(***************************************************************************)
EXTENDS Integers

CONSTANTS Threads,
          PAGE_SIZE,
          Pages,      \* what get_num_physpages returns
          Counts,     \* byte counts the readers ask for
          Offsets     \* offsets lseek is called with

\* What is assumed of the constants.
DramFileAssumption ==
  /\ PAGE_SIZE \in Nat \ {0} /\ Pages \in Nat \ {0}
  /\ Counts \subseteq Nat \ {0} /\ Offsets \subseteq Int

SEEK_SET == 0
SEEK_CUR == 1
SEEK_END == 2

VARIABLES
  f_pos,       \* file->f_pos
  pc,          \* per thread: "idle", "read" or "copied"
  pos, count,  \* per thread: the loaded *pos and the count, later what was copied
  total        \* history: bytes the thread that reads alone has got, or -1

vars == <<f_pos, pc, pos, count, total>>

dram_size == Pages * PAGE_SIZE
Set(f, t, v) == [f EXCEPT ![t] = v]

Init ==
  /\ f_pos = 0
  /\ pc = [t \in Threads |-> "idle"]
  /\ pos = [t \in Threads |-> 0] /\ count = [t \in Threads |-> 0]
  /\ total = 0

-----------------------------------------------------------------------------
(* dev_read.                                                               *)

ReadBegin(t) ==
  /\ pc[t] = "idle"
  /\ pc' = Set(pc, t, "read")
  /\ pos' = Set(pos, t, f_pos)
  /\ \E c \in Counts : count' = Set(count, t, c)
  /\ total' = IF \E u \in Threads \ {t} : pc[u] # "idle" THEN -1 ELSE total
  /\ UNCHANGED f_pos

SlipWholePage(p, c) ==
  IF p >= dram_size THEN 0 ELSE IF (p % PAGE_SIZE) + c > PAGE_SIZE THEN PAGE_SIZE ELSE c
SlipEndOff(p, c) ==
  IF p >= dram_size THEN 0
  ELSE IF (p % PAGE_SIZE) + c >= PAGE_SIZE THEN PAGE_SIZE - (p % PAGE_SIZE) - 1 ELSE c

\* What is copied of c bytes at p: nothing past the end, else up to the page's end.
Copied(p, c) ==
  IF p >= dram_size THEN 0
  ELSE IF (p % PAGE_SIZE) + c > PAGE_SIZE THEN PAGE_SIZE - (p % PAGE_SIZE) ELSE c

ReadCopies(t) ==
  /\ pc[t] = "read"
  /\ pc' = Set(pc, t, "copied")
  /\ count' = Set(count, t, Copied(pos[t], count[t]))
  /\ UNCHANGED <<f_pos, pos, total>>

\* copy_to_user fails and *pos stays; there is nothing to fail at the end.
ReadFaults(t) ==
  /\ pc[t] = "read" /\ pos[t] < dram_size
  /\ pc' = Set(pc, t, "idle")
  /\ pos' = Set(pos, t, 0) /\ count' = Set(count, t, 0)
  /\ UNCHANGED <<f_pos, total>>

SlipKeepsPos(t) ==
  /\ pc[t] = "copied"
  /\ pc' = Set(pc, t, "idle")
  /\ f_pos' = pos[t]
  /\ total' = IF total = -1 THEN -1 ELSE total + count[t]
  /\ pos' = Set(pos, t, 0) /\ count' = Set(count, t, 0)

\* *pos += count, which the caller stores in the file.
ReadEnd(t) ==
  /\ pc[t] = "copied"
  /\ pc' = Set(pc, t, "idle")
  /\ f_pos' = pos[t] + count[t]
  /\ total' = IF total = -1 THEN -1 ELSE total + count[t]
  /\ pos' = Set(pos, t, 0) /\ count' = Set(count, t, 0)

-----------------------------------------------------------------------------
(* dev_lseek.                                                              *)

Newpos(offset, whence) ==
  CASE whence = SEEK_SET -> offset
    [] whence = SEEK_CUR -> f_pos + offset
    [] whence = SEEK_END -> dram_size + offset

SlipPastEnd(t) ==
  /\ pc[t] = "idle"
  /\ \E o \in Offsets, w \in {SEEK_SET, SEEK_CUR, SEEK_END} :
       LET newpos == Newpos(o, w)
       IN  ~(newpos < 0) /\ f_pos' = newpos
  /\ total' = -1
  /\ UNCHANGED <<pc, pos, count>>

\* A position outside the memory is refused; its end is a legal one.
Lseek(t) ==
  /\ pc[t] = "idle"
  /\ \E o \in Offsets, w \in {SEEK_SET, SEEK_CUR, SEEK_END} :
       LET newpos == Newpos(o, w)
       IN  ~(newpos < 0 \/ newpos > dram_size) /\ f_pos' = newpos
  /\ total' = -1
  /\ UNCHANGED <<pc, pos, count>>

DevRead(t) == ReadBegin(t) \/ ReadCopies(t) \/ ReadFaults(t) \/ ReadEnd(t)

Next == \E t \in Threads : DevRead(t) \/ Lseek(t)

Spec == Init /\ [][Next]_vars

-----------------------------------------------------------------------------
(* Properties.                                                             *)

TypeOK ==
  /\ f_pos \in 0 .. dram_size
  /\ pc \in [Threads -> {"idle", "read", "copied"}]
  /\ pos \in [Threads -> 0 .. dram_size] /\ count \in [Threads -> Nat]
  /\ total \in Int

\* Whatever other threads do to the shared position meanwhile, the bytes a read
\* copies lie in memory, and in the one page it has mapped.
CopyInOnePage ==
  \A t \in Threads : pc[t] = "copied" /\ count[t] > 0 =>
    /\ pos[t] + count[t] <= dram_size
    /\ pos[t] \div PAGE_SIZE = (pos[t] + count[t] - 1) \div PAGE_SIZE

\* A file read without seeks and by one read at a time yields each byte once: at
\* any position, exactly the bytes before it have been returned.
EachByteOnce == total # -1 => total = f_pos

\* A reader that goes on gets to the end of memory: a read returns 0 there and, at
\* no page boundary and for no count, anywhere else.
NothingOnlyAtEnd ==
  \A t \in Threads : pc[t] = "copied" => (count[t] = 0 <=> pos[t] = dram_size)
=============================================================================
