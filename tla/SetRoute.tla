------------------------------- MODULE SetRoute -------------------------------
(* set_route.c: a program that reads a route from its command line and asks  *)
(* the kernel for it in one netlink request.  Addresses are their families.  *)
(* Operators named Slip... are wrong variants of the operator they precede;  *)
(* they document which mistake each property is able to notice.              *)
EXTENDS Integers, Sequences, FiniteSetsExt

CONSTANT MaxArgs       \* bound: words of the command line, the program's name apart

\* What is assumed of it.
SetRouteAssumption == MaxArgs \in Nat

VARIABLES
  args,        \* the whole command line
  argv,        \* the position the parser is at
  nl_cmd,      \* "unset" until add or del is read: the variable is not initialized
  to_addr,     \* families of the two addresses, "none" while bitlen is 0
  gw_addr,
  default_gw,
  if_idx,      \* 0 for a device that does not exist
  route_pc,    \* "start", "parse", "exit", "sent", or "crashed" in the middle of a request
  request      \* what went to the kernel

vars == <<args, argv, nl_cmd, to_addr, gw_addr, default_gw, if_idx, route_pc, request>>
parsed == <<nl_cmd, to_addr, gw_addr, default_gw, if_idx>>

Families == {"inet", "inet6"}
Words == {"add", "del", "to", "via", "default", "dev", "eth"} \cup Families
Lines == UNION {[1 .. n -> Words] : n \in 0 .. MaxArgs}
NoRequest == [cmd |-> "none"]

Init ==
  /\ args = <<>> /\ argv = 1
  /\ nl_cmd = "unset" /\ to_addr = "none" /\ gw_addr = "none"
  /\ default_gw = FALSE /\ if_idx = 0
  /\ route_pc = "start" /\ request = NoRequest

Main ==
  /\ route_pc = "start"
  /\ args' \in Lines /\ route_pc' = "parse"
  /\ UNCHANGED <<argv, parsed, request>>

More == route_pc = "parse" /\ argv <= Len(args)
Word == args[argv]

\* NEXT_CMD_ARG: the k-th word behind a keyword, or the program ends.
Has(k) == argv + k <= Len(args)
Arg(k) == args[argv + k]

Exit == route_pc' = "exit" /\ UNCHANGED <<args, argv, parsed, request>>
Skip(n) == argv' = argv + n /\ UNCHANGED <<args, route_pc, request>>

ReadCommand ==
  /\ More /\ Word \in {"add", "del"}
  /\ nl_cmd' = Word /\ Skip(1)
  /\ UNCHANGED <<to_addr, gw_addr, default_gw, if_idx>>

\* read_addr: without a colon it is an IPv4 address, which inet_pton may refuse.
ReadTo ==
  /\ More /\ Word = "to"
  /\ IF Has(1) /\ Arg(1) \in Families
     THEN to_addr' = Arg(1) /\ Skip(2) /\ UNCHANGED <<nl_cmd, gw_addr, default_gw, if_idx>>
     ELSE Exit

SlipReadDev ==
  /\ More /\ Word = "dev"
  /\ IF Has(1)
     THEN /\ if_idx' = IF Arg(1) = "eth" THEN 1 ELSE 0
          /\ Skip(1) /\ UNCHANGED <<nl_cmd, to_addr, gw_addr, default_gw>>
     ELSE Exit

ReadDev ==
  /\ More /\ Word = "dev"
  /\ IF Has(1)
     THEN /\ if_idx' = IF Arg(1) = "eth" THEN 1 ELSE 0
          /\ Skip(2) /\ UNCHANGED <<nl_cmd, to_addr, gw_addr, default_gw>>
     ELSE Exit

\* "via default" takes a gateway too.
ReadVia ==
  /\ More /\ Word = "via"
  /\ LET k == IF Has(1) /\ Arg(1) = "default" THEN 2 ELSE 1
     IN  IF Has(k) /\ Arg(k) \in Families
         THEN /\ default_gw' = (default_gw \/ k = 2) /\ gw_addr' = Arg(k)
              /\ Skip(k + 1) /\ UNCHANGED <<nl_cmd, to_addr, if_idx>>
         ELSE Exit

\* Any other word is passed over.
ReadOther ==
  /\ More /\ Word \notin {"add", "del", "to", "dev", "via"}
  /\ Skip(1) /\ UNCHANGED parsed

\* do_route: the attributes that follow the header, and the family and scope
\* in it.  The command of a line without one is what the stack held.
Scope == IF gw_addr # "none" \/ to_addr = "inet6" THEN "universe" ELSE "link"
Attributes ==
  (IF gw_addr # "none" THEN {<<"RTA_GATEWAY", gw_addr>>} ELSE {})
    \cup (IF default_gw THEN {} ELSE {<<"RTA_DST", to_addr>>, <<"RTA_OIF", if_idx>>})

\* The length of an address is kept in a char.  Where the compiler's char is
\* signed the 128 bits of an IPv6 address are -128.
BitLen(family, char_signed) ==
  CASE family = "none"  -> 0
    [] family = "inet"  -> 32
    [] family = "inet6" -> IF char_signed THEN 128 - 256 ELSE 128

\* rtattr_add of the addresses: a negative length, taken as unsigned, passes the
\* test for room, and memcpy is asked for all of memory but that much.
Copied == (IF gw_addr # "none" THEN {gw_addr} ELSE {}) \cup (IF default_gw THEN {} ELSE {to_addr})
RunsWild(char_signed) == \E family \in Copied : BitLen(family, char_signed) < 0

Send ==
  /\ \E cmd \in IF nl_cmd = "unset" THEN {"add", "del", "other"} ELSE {nl_cmd} :
       request' = [cmd |-> cmd, family |-> IF gw_addr # "none" THEN gw_addr ELSE to_addr,
                   scope |-> Scope, attributes |-> Attributes]
  /\ route_pc' = "sent"

\* Without a socket nothing is asked.
OpenNetlinkFails == route_pc = "parse" /\ argv > Len(args) /\ Exit

\* The program calls do_route once, so it is here that the build is chosen.
DoRoute ==
  /\ route_pc = "parse" /\ argv > Len(args)
  /\ \E char_signed \in BOOLEAN :
       \/ RunsWild(char_signed) /\ route_pc' = "crashed" /\ UNCHANGED request
       \/ ~ RunsWild(char_signed) /\ Send
  /\ UNCHANGED <<args, argv, parsed>>

Next == Main \/ ReadCommand \/ ReadTo \/ ReadDev \/ ReadVia \/ ReadOther \/ OpenNetlinkFails \/ DoRoute

Spec == Init /\ [][Next]_vars

---------------------------------------------------------------------------
TypeOK ==
  /\ args \in Seq(Words) /\ argv \in 1 .. Len(args) + 1
  /\ nl_cmd \in {"unset", "add", "del"}
  /\ {to_addr, gw_addr} \subseteq Families \cup {"none"}
  /\ default_gw \in BOOLEAN /\ if_idx \in {0, 1}
  /\ route_pc \in {"start", "parse", "exit", "sent", "crashed"}

\* A word is a device's name, and no keyword, behind an odd number of "dev".
DeviceName(i) ==
  LET run == {k \in 0 .. i - 1 : \A j \in i - k .. i - 1 : args[j] = "dev"} IN Max(run) % 2 = 1
Keywords(words) == {i \in DOMAIN args : args[i] \in words /\ ~ DeviceName(i)}

\* A request that was sent says what its command line says: of each option the
\* last one given, and the command's word wherever it stood; and only a line
\* without a command leaves the command to chance (set_route.c:145).  A line
\* whose request is not sent has an IPv6 address in what would be its request,
\* last of its kind: no IPv4 line, and none that an option further on or a
\* default gateway has freed of the address, runs wild (set_route.c:126).
RequestIsTheLine ==
  LET last(words) == Max(Keywords(words))
      given(words) == Keywords(words) # {}
      destination == args[last({"to"}) + 1]
      via == last({"via"})
      gateway == args[via + (IF args[via + 1] = "default" THEN 2 ELSE 1)]
  IN  /\ route_pc = "sent" =>
           /\ given({"add", "del"}) => request.cmd = args[last({"add", "del"})]
           /\ given({"to"}) /\ ~ default_gw => <<"RTA_DST", destination>> \in request.attributes
           /\ given({"via"}) => <<"RTA_GATEWAY", gateway>> \in request.attributes
           /\ request.cmd \notin {"add", "del"} => ~ given({"add", "del"})
      /\ route_pc = "crashed" =>
           \/ given({"via"}) /\ gateway = "inet6"
           \/ given({"to"}) /\ ~ default_gw /\ destination = "inet6"
=============================================================================
