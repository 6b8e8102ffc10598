----------------------------- MODULE MsgDevice ------------------------------
(***************************************************************************)
(* The message device of mychar/mychar.c (ioctl/ioctl.c and dram/dram.c    *)
(* carry the same write and open): one static buffer message, its length   *)
(* size_of_message and the counter numberOpens, used by any number of      *)
(* processes at once and without a lock.  sprintf and copy_to_user go      *)
(* through the buffer one character at a time.                             *)
(*                                                                         *)
(* A text stands for what write puts into the buffer, the appended         *)
(* "(<len> letters)" included.  Nothing limits it: sprintf is not told the *)
(* size of message, and testmychar.c sends up to 255 characters before the *)
(* suffix.  A write or a strlen that leaves the buffer is the step Overrun;*)
(* what the driver does after it depends on what the build has put behind  *)
(* message, so a behaviour ends there.                                     *)
(* Operators named Slip... are wrong variants of the operator they         *)
(* precede.  No action uses them; they document which mistake each         *)
(* property below is able to notice.                                       *)
(***************************************************************************)
EXTENDS Integers, Sequences

CONSTANTS Clients,    \* processes, each with at most one file
          Texts,      \* sequences of characters
          BufferSize, \* cells of message, 256 in the source
          MaxOpens    \* bound of the history counter opens

NUL == "NUL"
EFAULT == 14

ASSUME MsgDeviceAssumption ==
  /\ BufferSize \in Nat \ {0} /\ MaxOpens \in Nat
  /\ \A x \in Texts : /\ x \in Seq({x[i] : i \in DOMAIN x}) /\ Len(x) >= 1
                      /\ \A i \in DOMAIN x : x[i] # NUL

VARIABLES
  message, size_of_message, numberOpens,    \* the statics of the driver
  pc,      \* per client: "closed", "opening", "open", "sprintf", "strlen", "store",
           \* "copy" or "return"
  text, n, \* the text being written, the length loaded for copying or counting
  out,     \* what copy_to_user has copied
  retval,  \* what the last call returned: a number, or -EFAULT
  alone,   \* history: no other call ran during the client's present call
  expect,  \* history: what one careful reader would get, if that is clear
  opens,   \* history: how often the device has been opened
  overrun  \* message has been written or read beyond its end

call == <<pc, text, n, out, retval>>
vars == <<message, size_of_message, numberOpens, call, alone, expect, opens, overrun>>

Cells == 1 .. BufferSize
Unclear == [clear |-> FALSE, text |-> <<>>]
Holds(x) == [clear |-> TRUE, text |-> x]
Busy(c) == pc[c] \in {"sprintf", "strlen", "store", "copy", "return"}

Init ==
  /\ message = [i \in Cells |-> NUL] /\ size_of_message = 0 /\ numberOpens = 0
  /\ pc = [c \in Clients |-> "closed"]
  /\ text = [c \in Clients |-> <<>>] /\ n = [c \in Clients |-> 0]
  /\ out = [c \in Clients |-> <<>>] /\ retval = [c \in Clients |-> 0]
  /\ alone = [c \in Clients |-> TRUE]
  /\ expect = Holds(<<>>)
  /\ opens = 0 /\ overrun = FALSE

Set(f, c, v) == [f EXCEPT ![c] = v]
Goto(c, from, to) == pc[c] = from /\ pc' = Set(pc, c, to)

\* A call begins: nobody who is in one is alone any more.
Begin(c) ==
  alone' = [d \in Clients |->
              IF d = c THEN ~\E e \in Clients \ {c} : Busy(e)
              ELSE alone[d] /\ ~Busy(d)]

\* What is known of the buffer when the call of c ends and would leave e.
Ends(c, e) == expect' = IF alone[c] THEN e ELSE Unclear

-----------------------------------------------------------------------------
(* dev_open and dev_release.                                               *)

\* numberOpens++ loads ...
Open(c) ==
  /\ opens < MaxOpens
  /\ Goto(c, "closed", "opening")
  /\ n' = Set(n, c, numberOpens)
  /\ opens' = opens + 1
  /\ UNCHANGED <<message, size_of_message, numberOpens, text, out, retval, alone, expect, overrun>>

\* ... and stores.
CountOpen(c) ==
  /\ Goto(c, "opening", "open")
  /\ numberOpens' = n[c] + 1
  /\ n' = Set(n, c, 0)
  /\ UNCHANGED <<message, size_of_message, text, out, retval, alone, expect, opens, overrun>>

Release(c) ==
  /\ Goto(c, "open", "closed")
  /\ retval' = Set(retval, c, 0)
  /\ UNCHANGED <<message, size_of_message, numberOpens, text, n, out, alone, expect, opens, overrun>>

-----------------------------------------------------------------------------
(* dev_write: sprintf, strlen, and the length is stored.                   *)

Write(c) ==
  /\ Goto(c, "open", "sprintf")
  /\ \E x \in Texts : text' = Set(text, c, x)
  /\ n' = Set(n, c, 1)
  /\ out' = Set(out, c, <<>>)
  /\ Begin(c)
  /\ UNCHANGED <<message, size_of_message, numberOpens, retval, expect, opens, overrun>>

\* A newline goes in behind the text.
SlipNewline(c) ==
  /\ pc[c] = "sprintf" /\ n[c] \in Cells
  /\ message' = [message EXCEPT ![n[c]] = IF n[c] <= Len(text[c]) THEN text[c][n[c]]
                                         ELSE IF n[c] = Len(text[c]) + 1 THEN "newline" ELSE NUL]
  /\ IF n[c] <= Len(text[c]) + 1
     THEN n' = Set(n, c, n[c] + 1) /\ UNCHANGED pc
     ELSE n' = Set(n, c, 0) /\ pc' = Set(pc, c, "strlen")
  /\ UNCHANGED <<size_of_message, numberOpens, text, out, retval, alone, expect, opens, overrun>>

\* One character, or the final NUL.
Sprintf(c) ==
  /\ pc[c] = "sprintf" /\ n[c] \in Cells
  /\ message' = [message EXCEPT ![n[c]] = IF n[c] <= Len(text[c]) THEN text[c][n[c]] ELSE NUL]
  /\ IF n[c] <= Len(text[c])
     THEN n' = Set(n, c, n[c] + 1) /\ UNCHANGED pc
     ELSE n' = Set(n, c, 0) /\ pc' = Set(pc, c, "strlen")
  /\ UNCHANGED <<size_of_message, numberOpens, text, out, retval, alone, expect, opens, overrun>>

Ended == \E i \in Cells : message[i] = NUL

Strlen == (CHOOSE i \in Cells : message[i] = NUL /\ \A j \in 1 .. i - 1 : message[j] # NUL) - 1

CountText(c) ==
  /\ Ended
  /\ Goto(c, "strlen", "store")
  /\ n' = Set(n, c, Strlen)
  /\ UNCHANGED <<message, size_of_message, numberOpens, text, out, retval, alone, expect, opens, overrun>>

\* sprintf puts a character behind the buffer, or strlen looks there for the NUL.
Overrun(c) ==
  /\ \/ pc[c] = "sprintf" /\ n[c] > BufferSize
     \/ pc[c] = "strlen" /\ ~Ended
  /\ overrun' = TRUE
  /\ UNCHANGED <<message, size_of_message, numberOpens, call, alone, expect, opens>>

StoreSize(c) ==
  /\ Goto(c, "store", "open")
  /\ size_of_message' = n[c]
  /\ n' = Set(n, c, 0)
  /\ retval' = Set(retval, c, Len(text[c]))
  /\ text' = Set(text, c, <<>>)
  /\ Ends(c, Holds(text[c]))
  /\ UNCHANGED <<message, numberOpens, out, alone, opens, overrun>>

-----------------------------------------------------------------------------
(* dev_read: size_of_message characters, whatever count and offset are.    *)

Read(c) ==
  /\ Goto(c, "open", "copy")
  /\ n' = Set(n, c, size_of_message)
  /\ out' = Set(out, c, <<>>)
  /\ Begin(c)
  /\ UNCHANGED <<message, size_of_message, numberOpens, text, retval, expect, opens, overrun>>

Copy(c) ==
  /\ pc[c] = "copy" /\ Len(out[c]) < n[c]
  /\ out' = Set(out, c, Append(out[c], message[Len(out[c]) + 1]))
  /\ UNCHANGED <<message, size_of_message, numberOpens, pc, text, n, retval, alone, expect, opens, overrun>>

\* The whole message is out.
Copied(c) ==
  /\ Len(out[c]) = n[c]
  /\ Goto(c, "copy", "return")
  /\ UNCHANGED <<message, size_of_message, numberOpens, text, n, out, retval, alone, expect, opens, overrun>>

\* The user's buffer is bad: the message stays.
CopyFaults(c) ==
  /\ n[c] > 0
  /\ Goto(c, "copy", "open")
  /\ retval' = Set(retval, c, -EFAULT)
  /\ out' = Set(out, c, <<>>) /\ n' = Set(n, c, 0)
  /\ Ends(c, expect)
  /\ UNCHANGED <<message, size_of_message, numberOpens, text, alone, opens, overrun>>

SlipKeepsSize(c) ==
  /\ Goto(c, "return", "open")
  /\ retval' = Set(retval, c, 0)
  /\ n' = Set(n, c, 0)
  /\ Ends(c, Holds(<<>>))
  /\ UNCHANGED <<message, size_of_message, numberOpens, text, out, alone, opens, overrun>>

\* return (size_of_message = 0)
ClearSize(c) ==
  /\ Goto(c, "return", "open")
  /\ size_of_message' = 0
  /\ retval' = Set(retval, c, 0)
  /\ n' = Set(n, c, 0)
  /\ Ends(c, Holds(<<>>))
  /\ UNCHANGED <<message, numberOpens, text, out, alone, opens, overrun>>

Call(c) ==
  \/ Open(c) \/ CountOpen(c) \/ Release(c)
  \/ Write(c) \/ Sprintf(c) \/ CountText(c) \/ Overrun(c) \/ StoreSize(c)
  \/ Read(c) \/ Copy(c) \/ Copied(c) \/ CopyFaults(c) \/ ClearSize(c)

Next == ~overrun /\ \E c \in Clients : Call(c)

Spec == Init /\ [][Next]_vars

-----------------------------------------------------------------------------
(* Properties.                                                             *)

Chars == (UNION {{x[i] : i \in DOMAIN x} : x \in Texts}) \cup {NUL}
Quiet == \A c \in Clients : ~Busy(c)

TypeOK ==
  /\ message \in [Cells -> Chars]
  /\ size_of_message \in 0 .. BufferSize - 1
  /\ numberOpens \in 0 .. MaxOpens /\ opens \in 0 .. MaxOpens
  /\ pc \in [Clients -> {"closed", "opening", "open", "sprintf", "strlen", "store",
                          "copy", "return"}]
  /\ text \in [Clients -> Texts \cup {<<>>}]
  /\ n \in [Clients -> (0 .. BufferSize + 1) \cup (0 .. MaxOpens)]
  /\ \A c \in Clients : Len(out[c]) < BufferSize /\ \A i \in DOMAIN out[c] : out[c][i] \in Chars
  /\ \A c \in Clients : retval[c] \in {-EFAULT} \cup (0 .. BufferSize)
  /\ alone \in [Clients -> BOOLEAN] /\ overrun \in BOOLEAN
  /\ expect.clear \in BOOLEAN /\ expect.text \in Texts \cup {<<>>}

\* A read that no call overlaps, of a buffer that no overlapping calls have left
\* in doubt, gets exactly the unread text: all of it once, then nothing.
QuietReadExact ==
  \A c \in Clients : pc[c] = "return" /\ alone[c] /\ expect.clear => out[c] = expect.text

\* The buffer is left, by sprintf or by strlen, only while a text is being written
\* that does not fit with its NUL: a text that just fits never does it, and neither
\* do writers of such texts that get into each other's way.
OverrunOnlyTooLong ==
  overrun => \E c \in Clients :
    pc[c] = "sprintf" /\ n[c] = BufferSize + 1 /\ Len(text[c]) >= BufferSize

\* "Used to remember the size of the string stored": when nobody is in a call, the
\* length is that of the text in the buffer, or 0 after a read.
SizeOfTheStringStored == Quiet => size_of_message \in {0, Strlen}
=============================================================================
