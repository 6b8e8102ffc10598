-------------------------------- MODULE NetMon --------------------------------
(* netmon.c: a program that watches links, addresses and routes.  Lengths are *)
(* in units of 4 bytes, to which netlink aligns, times Frac: what a message   *)
(* claims need not be aligned.  Names, flags and addresses are left out.      *)
(* Operators named Slip... are wrong variants of the operator they precede;   *)
(* they document which mistake each property is able to notice.               *)
EXTENDS Integers, Sequences

CONSTANTS
  Frac,          \* parts of an aligned unit (4 bytes)
  Hdr,           \* sizeof(struct nlmsghdr), in aligned units
  BufLen,        \* sizeof(buf), in aligned units
  Datagrams      \* what the kernel sends: sequences of messages [type, len], len in parts

\* What is assumed of them.
NetMonAssumption ==
  /\ {Frac, Hdr, BufLen} \subseteq Nat \ {0}
  /\ \A d \in Datagrams :
       /\ d \in Seq({d[i] : i \in DOMAIN d})
       /\ \A i \in DOMAIN d : d[i].len \in Nat /\ d[i].len >= Hdr * Frac

VARIABLES
  mon_pc,    \* "recvmsg", "parse", "sleep"
  sent,      \* the datagram that came
  status,    \* parts of it that are left in buf
  h,         \* where the next header is, in parts from the start of buf
  logged     \* the messages reported of it, each with the kind of report

vars == <<mon_pc, sent, status, h, logged>>

NLMSG_ALIGN(n) == ((n + Frac - 1) \div Frac) * Frac

\* Where the i-th message of a datagram begins, and behind the last one its end.
Offset(d) ==
  LET off[i \in 1 .. Len(d) + 1] == IF i = 1 THEN 0 ELSE off[i - 1] + NLMSG_ALIGN(d[i - 1].len)
  IN  off
End(d) == Offset(d)[Len(d) + 1]

\* What lies at an offset that is nobody's header is taken for a header without a length.
At(d, o) ==
  IF \E i \in DOMAIN d : Offset(d)[i] = o
  THEN d[CHOOSE i \in DOMAIN d : Offset(d)[i] = o] ELSE [type |-> "junk", len |-> 0]

Init == mon_pc = "recvmsg" /\ sent = <<>> /\ status = 0 /\ h = 0 /\ logged = <<>>

\* recvmsg with MSG_DONTWAIT: what buf does not hold of a datagram is cut off;
\* without a datagram, or on an error, the program tries again.
RecvMsg ==
  /\ mon_pc = "recvmsg"
  /\ sent' \in Datagrams
  /\ status' = IF End(sent') < BufLen * Frac THEN End(sent') ELSE BufLen * Frac
  /\ h' = 0 /\ logged' = <<>> /\ mon_pc' = "parse"

\* A message that claims less than a header, or more than is left: the loop
\* goes on without moving (netmon.c:87), so from there nothing changes any more.
BadLength == At(sent, h).len < Hdr * Frac \/ At(sent, h).len > status

\* Routes are reported as they are, everything else is taken apart as a link
\* and as an address, and only four types of it are reported.
Report(type) ==
  IF type \in {"newroute", "delroute"} THEN "route"
  ELSE IF type \in {"deladdr", "dellink", "newlink", "newaddr"} THEN type ELSE "nothing"

SlipAdvance(n) == n
Advance(n) == NLMSG_ALIGN(n)

ParseMessage ==
  /\ mon_pc = "parse" /\ status >= Hdr * Frac /\ ~ BadLength
  /\ logged' = Append(logged, Report(At(sent, h).type))
  /\ status' = status - Advance(At(sent, h).len)
  /\ h' = h + Advance(At(sent, h).len)
  /\ UNCHANGED <<mon_pc, sent>>

EndOfDatagram ==
  /\ mon_pc = "parse" /\ status < Hdr * Frac
  /\ mon_pc' = "sleep"
  /\ UNCHANGED <<sent, status, h, logged>>

Wake ==
  /\ mon_pc = "sleep"
  /\ mon_pc' = "recvmsg"
  /\ UNCHANGED <<sent, status, h, logged>>

Next == RecvMsg \/ ParseMessage \/ EndOfDatagram \/ Wake

Spec == Init /\ [][Next]_vars

---------------------------------------------------------------------------
TypeOK ==
  /\ mon_pc \in {"recvmsg", "parse", "sleep"}
  /\ sent \in Datagrams \cup {<<>>}
  /\ status \in Int /\ h \in Nat /\ Len(logged) <= Len(sent)

\* Every message that came whole is reported once, in order and as what it is,
\* whatever the lengths leave between them; and the program is stuck in a
\* datagram only if the buffer was too short for it (netmon.c:82-154).
Whole(i) == Offset(sent)[i] + sent[i].len <= BufLen * Frac

EachMessageOnce ==
  /\ mon_pc = "sleep" => logged = [i \in {j \in DOMAIN sent : Whole(j)} |-> Report(sent[i].type)]
  /\ (mon_pc = "parse" /\ status >= Hdr * Frac /\ BadLength) => End(sent) > BufLen * Frac
=============================================================================
