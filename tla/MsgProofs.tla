------------------------------ MODULE MsgProofs ------------------------------
(* The message device for any number of processes, any texts, whether they  *)
(* fit or not, and any size of the buffer.                                  *)
EXTENDS MsgDevice, WellFoundedInduction, TLAPS

LEMMA TextFacts ==
  ASSUME NEW x \in Texts
  PROVE  /\ x \in Seq(Chars) /\ Len(x) \in Nat \ {0}
         /\ DOMAIN x = 1 .. Len(x)
         /\ \A i \in 1 .. Len(x) : x[i] \in Chars /\ x[i] # NUL
<1>1. x \in Seq({x[i] : i \in DOMAIN x}) /\ Len(x) >= 1 /\ \A i \in DOMAIN x : x[i] # NUL
  BY MsgDeviceAssumption
<1>2. DOMAIN x = 1 .. Len(x)
  BY <1>1
<1>3. \A i \in DOMAIN x : x[i] \in Chars
  BY DEF Chars
<1>4. x \in Seq(Chars)
  BY <1>1, <1>2, <1>3
<1>5. QED
  BY <1>1, <1>2, <1>3, <1>4

\* Where a text in the buffer m ends: the first NUL.
IsEnd(m, k) == k \in Cells /\ m[k] = NUL /\ \A j \in 1 .. k - 1 : m[j] # NUL

\* A buffer with a NUL has an end: the natural numbers are well-founded.
LEMMA EndExists ==
  ASSUME NEW m, NEW b \in Cells, m[b] = NUL
  PROVE  \E k \in Cells : IsEnd(m, k)
<1> DEFINE S == {k \in Cells : m[k] = NUL}
<1> DEFINE R == OpToRel(<, Nat)
<1>1. S # {} /\ S \subseteq Nat
  BY MsgDeviceAssumption DEF Cells
<1>2. \E k \in S : \A j \in S : ~ (<<j, k>> \in R)
  <2> HIDE DEF S, R
  <2> QED BY <1>1, NatLessThanWellFounded, WFMin DEF R
<1>3. \A j, k \in Nat : j < k => <<j, k>> \in R
  BY DEF OpToRel
<1>4. PICK k \in S : \A j \in S : ~ (<<j, k>> \in R)
  BY <1>2
<1>5. ASSUME NEW j \in 1 .. k - 1, m[j] = NUL PROVE FALSE
  <2> HIDE DEF R
  <2>1. j \in Cells /\ j \in Nat /\ k \in Nat /\ j < k
    BY <1>4, MsgDeviceAssumption DEF Cells
  <2>2. j \in S
    BY <1>5, <2>1
  <2>3. <<j, k>> \in R
    BY <1>3, <2>1
  <2>4. QED
    BY <1>4, <2>2, <2>3
<1>6. QED
  BY <1>4, <1>5 DEF IsEnd

LEMMA EndIsUnique ==
  ASSUME NEW m, NEW k \in Cells, NEW j \in Cells, IsEnd(m, k), IsEnd(m, j)
  PROVE  k = j
BY MsgDeviceAssumption DEF IsEnd, Cells

\* strlen finds the end of a text that is followed by its NUL.
LEMMA StrlenIs ==
  ASSUME NEW k \in Cells, IsEnd(message, k)
  PROVE  Strlen = k - 1
<1> DEFINE e == CHOOSE i \in Cells : message[i] = NUL /\ \A j \in 1 .. i - 1 : message[j] # NUL
<1>1. e \in Cells /\ IsEnd(message, e)
  BY DEF IsEnd
<1>2. e = k
  <2> HIDE DEF e
  <2> QED BY <1>1, EndIsUnique
<1>3. QED
  BY <1>2 DEF Strlen

LEMMA StrlenInBuffer ==
  ASSUME Ended
  PROVE  Strlen \in 0 .. BufferSize - 1
<1>1. PICK k \in Cells : IsEnd(message, k)
  BY EndExists DEF Ended
<1>2. QED
  BY <1>1, StrlenIs, MsgDeviceAssumption DEF Cells

-----------------------------------------------------------------------------
(* Types.                                                                   *)

PCs == {"closed", "opening", "open", "sprintf", "strlen", "store", "copy", "return"}
Sizes == 0 .. BufferSize - 1

Frame ==
  /\ message \in [Cells -> Chars]
  /\ size_of_message \in Sizes /\ numberOpens \in Nat
  /\ pc \in [Clients -> PCs]
  /\ text \in [Clients -> Texts \cup {<<>>}]
  /\ n \in [Clients -> Nat]
  /\ out \in [Clients -> Seq(Chars)]
  /\ alone \in [Clients -> BOOLEAN]

\* What holds of the call of a process, by where it is in it.
CallTypes(c) ==
  /\ pc[c] = "sprintf" => text[c] \in Texts /\ n[c] \in 1 .. Len(text[c]) + 1 /\ n[c] <= BufferSize + 1
  /\ pc[c] = "strlen" \/ pc[c] = "store" => text[c] \in Texts /\ Len(text[c]) < BufferSize
  /\ pc[c] = "store" \/ pc[c] = "copy" \/ pc[c] = "return" => n[c] \in Sizes
  /\ pc[c] = "copy" => Len(out[c]) <= n[c]
  /\ pc[c] = "return" => Len(out[c]) = n[c]

MsgTypes == Frame /\ \A c \in Clients : CallTypes(c)

LEMMA CellFacts ==
  /\ BufferSize \in Nat /\ BufferSize \in Cells /\ 0 \in Sizes /\ NUL \in Chars
  /\ \A i \in Nat : i \in Sizes => i + 1 \in Cells
  /\ \A i \in Sizes : i \in Nat /\ i < BufferSize
BY MsgDeviceAssumption DEF Cells, Sizes, Chars

LEMMA SetType ==
  ASSUME NEW A, NEW B, NEW f \in [A -> B], NEW a \in A, NEW b \in B
  PROVE  Set(f, a, b) \in [A -> B]
BY DEF Set

LEMMA MsgTypesInit == Init => MsgTypes
<1>1. Init => \A c \in Clients : CallTypes(c)
  BY DEF Init, CallTypes
<1>2. QED
  BY <1>1, CellFacts DEF Init, Frame, MsgTypes, PCs

\* A step of c leaves the calls of the others where they are.
LEMMA OthersStay ==
  ASSUME MsgTypes, NEW c \in Clients, Call(c), NEW d \in Clients \ {c}
  PROVE  pc'[d] = pc[d] /\ text'[d] = text[d] /\ n'[d] = n[d] /\ out'[d] = out[d]
<1>1. CASE Open(c) \/ CountOpen(c) \/ Release(c)
  BY <1>1 DEF MsgTypes, Frame, Open, CountOpen, Release, Goto, Set
<1>2. CASE Write(c) \/ Sprintf(c) \/ CountText(c) \/ Overrun(c) \/ StoreSize(c)
  BY <1>2 DEF MsgTypes, Frame, Write, Sprintf, CountText, Overrun, StoreSize, Goto, Set, call
<1>3. CASE Read(c) \/ Copy(c) \/ Copied(c) \/ CopyFaults(c) \/ ClearSize(c)
  BY <1>3 DEF MsgTypes, Frame, Read, Copy, Copied, CopyFaults, ClearSize, Goto, Set
<1>4. QED
  BY <1>1, <1>2, <1>3 DEF Call

LEMMA MsgTypesStep ==
  ASSUME MsgTypes, NEW c \in Clients, Call(c)
  PROVE  MsgTypes'
<1> USE CellFacts
<1>0. Frame /\ CallTypes(c)
  BY DEF MsgTypes
<1>1. ASSUME Open(c) \/ CountOpen(c) \/ Release(c) PROVE Frame' /\ CallTypes(c)'
  <2>6. /\ message' \in [Cells -> Chars]
        /\ size_of_message' \in Sizes /\ numberOpens' \in Nat
    BY <1>1, <1>0 DEF Frame, Open, CountOpen, Release, Goto, Set, PCs
  <2>7. pc' \in [Clients -> PCs] /\ text' \in [Clients -> Texts \cup {<<>>}] /\ n' \in [Clients -> Nat]
    <3>1. pc' \in [Clients -> PCs]
      BY <1>1, <1>0 DEF Frame, Open, CountOpen, Release, Goto, Set, PCs
    <3>2. text' \in [Clients -> Texts \cup {<<>>}]
      BY <1>1, <1>0 DEF Frame, Open, CountOpen, Release
    <3>3. n' \in [Clients -> Nat]
      BY <1>1, <1>0 DEF Frame, Open, CountOpen, Release, Set
    <3>4. QED
      BY <3>1, <3>2, <3>3
  <2>8. out' \in [Clients -> Seq(Chars)]
    BY <1>1, <1>0 DEF Frame, Open, CountOpen, Release, Goto, Set, PCs
  <2>9. alone' \in [Clients -> BOOLEAN]
    BY <1>1, <1>0 DEF Frame, Open, CountOpen, Release, Goto, Set, PCs
  <2>10. CallTypes(c)'
    BY <1>1, <1>0 DEF Frame, Open, CountOpen, Release, CallTypes, Goto, Set
  <2>11. QED
    BY <2>6, <2>7, <2>8, <2>9, <2>10 DEF Frame
<1>2. ASSUME Write(c) PROVE Frame' /\ CallTypes(c)'
  <2>1. PICK x \in Texts : text' = Set(text, c, x)
    BY <1>2 DEF Write
  <2>2. 1 \in 1 .. Len(x) + 1 /\ 1 <= BufferSize + 1
    BY TextFacts, MsgDeviceAssumption
  <2>6. /\ message' \in [Cells -> Chars]
        /\ size_of_message' \in Sizes /\ numberOpens' \in Nat
    BY <1>2, <1>0, <2>1, <2>2 DEF Frame, Write, Begin, Goto, Set, PCs
  <2>7. pc' \in [Clients -> PCs] /\ text' \in [Clients -> Texts \cup {<<>>}] /\ n' \in [Clients -> Nat]
    BY <1>2, <1>0, <2>1, <2>2 DEF Frame, Write, Begin, Goto, Set, PCs
  <2>8. out' \in [Clients -> Seq(Chars)]
    BY <1>2, <1>0, <2>1, <2>2 DEF Frame, Write, Begin, Goto, Set, PCs
  <2>9. alone' \in [Clients -> BOOLEAN]
    BY <1>2, <1>0, <2>1, <2>2 DEF Frame, Write, Begin, Goto, Set, PCs
  <2>10. CallTypes(c)'
    BY <1>2, <1>0, <2>1, <2>2 DEF Frame, Write, Begin, CallTypes, Goto, Set
  <2>11. QED
    BY <2>6, <2>7, <2>8, <2>9, <2>10 DEF Frame
<1>3. ASSUME Sprintf(c) PROVE Frame' /\ CallTypes(c)'
  <2>1. text[c] \in Texts /\ n[c] \in 1 .. Len(text[c]) + 1
    BY <1>3, <1>0 DEF CallTypes, Sprintf
  <2>2. /\ Len(text[c]) \in Nat \ {0} /\ n[c] \in Cells
        /\ \A i \in 1 .. Len(text[c]) : text[c][i] \in Chars
    BY <1>3, <2>1, TextFacts DEF Sprintf
  <2>3. message' \in [Cells -> Chars]
    BY <1>0, <1>3, <2>1, <2>2 DEF Frame, Sprintf
  <2>6. /\ message' \in [Cells -> Chars]
        /\ size_of_message' \in Sizes /\ numberOpens' \in Nat
    BY <1>3, <1>0, <2>1, <2>2, <2>3 DEF Frame, Sprintf, Goto, Set, PCs
  <2>4. \/ n' = Set(n, c, n[c] + 1) /\ pc' = pc
        \/ n' = Set(n, c, 0) /\ pc' = Set(pc, c, "strlen")
    BY <1>3 DEF Sprintf
  <2>5. pc' \in [Clients -> PCs]
    BY <1>0, <2>4 DEF Frame, Set, PCs
  <2>7. text' \in [Clients -> Texts \cup {<<>>}] /\ n' \in [Clients -> Nat]
    <3>1. text' = text /\ n[c] + 1 \in Nat
      BY <1>3, <1>0 DEF Frame, Sprintf
    <3>2. n' \in [Clients -> Nat]
      <4>1. n \in [Clients -> Nat] /\ 0 \in Nat
        BY <1>0 DEF Frame
      <4>2. Set(n, c, n[c] + 1) \in [Clients -> Nat] /\ Set(n, c, 0) \in [Clients -> Nat]
        BY <3>1, <4>1, SetType
      <4>3. QED
        BY <2>4, <4>2
    <3>3. QED
      BY <1>0, <3>1, <3>2 DEF Frame
  <2>8. out' \in [Clients -> Seq(Chars)]
    BY <1>3, <1>0, <2>1, <2>2, <2>3 DEF Frame, Sprintf, Goto, Set, PCs
  <2>9. alone' \in [Clients -> BOOLEAN]
    BY <1>3, <1>0, <2>1, <2>2, <2>3 DEF Frame, Sprintf, Goto, Set, PCs
  <2>10. CallTypes(c)'
    <3>1. text'[c] = text[c]
      BY <1>3 DEF Sprintf
    <3>2. CASE n[c] <= Len(text[c])
      <4>1. pc'[c] = "sprintf" /\ n'[c] = n[c] + 1
        BY <1>0, <1>3, <3>2 DEF Frame, Sprintf, Set
      <4>2. QED
        BY <2>1, <2>2, <3>1, <3>2, <4>1 DEF CallTypes, Cells
    <3>3. CASE ~(n[c] <= Len(text[c]))
      <4>1. pc'[c] = "strlen" /\ Len(text[c]) < BufferSize
        BY <1>0, <1>3, <2>1, <2>2, <3>3 DEF Frame, Sprintf, Set, Cells
      <4>2. QED
        BY <2>1, <3>1, <4>1 DEF CallTypes
    <3>4. QED
      BY <3>2, <3>3
  <2>11. QED
    BY <2>5, <2>6, <2>7, <2>8, <2>9, <2>10 DEF Frame
<1>4. ASSUME CountText(c) PROVE Frame' /\ CallTypes(c)'
  <2>1. Strlen \in Sizes
    BY <1>4, StrlenInBuffer DEF CountText, Sizes
  <2>6. /\ message' \in [Cells -> Chars]
        /\ size_of_message' \in Sizes /\ numberOpens' \in Nat
    BY <1>4, <1>0, <2>1 DEF Frame, CountText, Goto, Set, PCs
  <2>7. pc' \in [Clients -> PCs] /\ text' \in [Clients -> Texts \cup {<<>>}] /\ n' \in [Clients -> Nat]
    BY <1>4, <1>0, <2>1 DEF Frame, CountText, Goto, Set, PCs
  <2>8. out' \in [Clients -> Seq(Chars)]
    BY <1>4, <1>0, <2>1 DEF Frame, CountText, Goto, Set, PCs
  <2>9. alone' \in [Clients -> BOOLEAN]
    BY <1>4, <1>0, <2>1 DEF Frame, CountText, Goto, Set, PCs
  <2>10. CallTypes(c)'
    BY <1>4, <1>0, <2>1 DEF Frame, CountText, CallTypes, Goto, Set
  <2>11. QED
    BY <2>6, <2>7, <2>8, <2>9, <2>10 DEF Frame
<1>5. ASSUME StoreSize(c) PROVE Frame' /\ CallTypes(c)'
  <2>6. /\ message' \in [Cells -> Chars]
        /\ size_of_message' \in Sizes /\ numberOpens' \in Nat
    BY <1>5, <1>0 DEF Frame, CallTypes, StoreSize, Goto, Set, PCs
  <2>7. pc' \in [Clients -> PCs] /\ text' \in [Clients -> Texts \cup {<<>>}] /\ n' \in [Clients -> Nat]
    BY <1>5, <1>0 DEF Frame, CallTypes, StoreSize, Goto, Set, PCs
  <2>8. out' \in [Clients -> Seq(Chars)]
    BY <1>5, <1>0 DEF Frame, CallTypes, StoreSize, Goto, Set, PCs
  <2>9. alone' \in [Clients -> BOOLEAN]
    BY <1>5, <1>0 DEF Frame, CallTypes, StoreSize, Goto, Set, PCs
  <2>10. CallTypes(c)'
    BY <1>5, <1>0 DEF Frame, StoreSize, CallTypes, Goto, Set
  <2>11. QED
    BY <2>6, <2>7, <2>8, <2>9, <2>10 DEF Frame
<1>6. ASSUME Read(c) PROVE Frame' /\ CallTypes(c)'
  <2>6. /\ message' \in [Cells -> Chars]
        /\ size_of_message' \in Sizes /\ numberOpens' \in Nat
    BY <1>6, <1>0 DEF Frame, Read, Begin, Goto, Set, PCs
  <2>7. pc' \in [Clients -> PCs] /\ text' \in [Clients -> Texts \cup {<<>>}] /\ n' \in [Clients -> Nat]
    BY <1>6, <1>0 DEF Frame, Read, Begin, Goto, Set, PCs
  <2>8. out' \in [Clients -> Seq(Chars)]
    BY <1>6, <1>0 DEF Frame, Read, Begin, Goto, Set, PCs
  <2>9. alone' \in [Clients -> BOOLEAN]
    BY <1>6, <1>0 DEF Frame, Read, Begin, Goto, Set, PCs
  <2>10. CallTypes(c)'
    BY <1>6, <1>0 DEF Frame, Read, Begin, CallTypes, Goto, Set
  <2>11. QED
    BY <2>6, <2>7, <2>8, <2>9, <2>10 DEF Frame
<1>7. ASSUME Copy(c) PROVE Frame' /\ CallTypes(c)'
  <2>1. n[c] \in Sizes /\ out[c] \in Seq(Chars) /\ Len(out[c]) + 1 \in Cells /\ Len(out[c]) + 1 <= n[c]
    BY <1>7, <1>0 DEF Frame, CallTypes, Copy, Sizes
  <2>2. message[Len(out[c]) + 1] \in Chars
    BY <1>0, <2>1 DEF Frame
  <2> DEFINE o == Append(out[c], message[Len(out[c]) + 1])
  <2>3. o \in Seq(Chars) /\ Len(o) = Len(out[c]) + 1
    BY <2>1, <2>2
  <2>4. out' = Set(out, c, o)
    BY <1>7 DEF Copy
  <2> HIDE DEF o
  <2>6. /\ message' \in [Cells -> Chars]
        /\ size_of_message' \in Sizes /\ numberOpens' \in Nat
    BY <1>7, <1>0, <2>3, <2>4 DEF Frame, Copy, Set
  <2>7. pc' \in [Clients -> PCs] /\ text' \in [Clients -> Texts \cup {<<>>}] /\ n' \in [Clients -> Nat]
    BY <1>7, <1>0, <2>3, <2>4 DEF Frame, Copy, Set
  <2>8. out' \in [Clients -> Seq(Chars)]
    <3>1. out \in [Clients -> Seq(Chars)] /\ o \in Seq(Chars)
      BY <1>0, <2>3 DEF Frame
    <3>2. Set(out, c, o) \in [Clients -> Seq(Chars)]
      BY <3>1, SetType
    <3>3. QED
      BY <3>2, <2>4
  <2>9. alone' \in [Clients -> BOOLEAN]
    BY <1>7, <1>0, <2>3, <2>4 DEF Frame, Copy, Set
  <2>10. CallTypes(c)'
    BY <1>7, <1>0, <2>1, <2>3, <2>4 DEF Frame, Copy, CallTypes, Set
  <2>11. QED
    BY <2>6, <2>7, <2>8, <2>9, <2>10 DEF Frame
<1>8. ASSUME Copied(c) \/ CopyFaults(c) \/ ClearSize(c) PROVE Frame' /\ CallTypes(c)'
  <2>6. /\ message' \in [Cells -> Chars]
        /\ size_of_message' \in Sizes /\ numberOpens' \in Nat
    BY <1>8, <1>0 DEF Frame, Copied, CopyFaults, ClearSize, Goto, Set, PCs
  <2>7. pc' \in [Clients -> PCs] /\ text' \in [Clients -> Texts \cup {<<>>}] /\ n' \in [Clients -> Nat]
    BY <1>8, <1>0 DEF Frame, Copied, CopyFaults, ClearSize, Goto, Set, PCs
  <2>8. out' \in [Clients -> Seq(Chars)]
    <3>1. out' = out \/ out' = Set(out, c, <<>>)
      BY <1>8 DEF Copied, CopyFaults, ClearSize
    <3>2. out \in [Clients -> Seq(Chars)] /\ <<>> \in Seq(Chars)
      BY <1>0 DEF Frame
    <3>3. Set(out, c, <<>>) \in [Clients -> Seq(Chars)]
      BY <3>2, SetType
    <3>4. QED
      BY <3>1, <3>2, <3>3
  <2>9. alone' \in [Clients -> BOOLEAN]
    BY <1>8, <1>0 DEF Frame, Copied, CopyFaults, ClearSize, Goto, Set, PCs
  <2>10. CallTypes(c)'
    BY <1>8, <1>0 DEF Frame, Copied, CopyFaults, ClearSize, CallTypes, Goto, Set
  <2>11. QED
    BY <2>6, <2>7, <2>8, <2>9, <2>10 DEF Frame
<1>12. ASSUME Overrun(c) PROVE Frame' /\ CallTypes(c)'
  BY <1>0, <1>12 DEF Frame, CallTypes, Overrun, call
<1>9. Frame' /\ CallTypes(c)'
  BY <1>1, <1>2, <1>3, <1>4, <1>5, <1>6, <1>7, <1>8, <1>12 DEF Call
<1>10. \A d \in Clients \ {c} : CallTypes(d)'
  <2> SUFFICES ASSUME NEW d \in Clients \ {c} PROVE CallTypes(d)'
    OBVIOUS
  <2>1. CallTypes(d)
    BY DEF MsgTypes
  <2>2. QED
    BY <2>1, OthersStay DEF CallTypes
<1>11. QED
  BY <1>9, <1>10 DEF MsgTypes

LEMMA MsgTypesStutter == MsgTypes /\ UNCHANGED vars => MsgTypes'
BY DEF MsgTypes, Frame, CallTypes, vars, call

-----------------------------------------------------------------------------
(* Leaving the buffer.                                                      *)

\* c has filled the buffer with a text that has characters left.
TooLong(c) == pc[c] = "sprintf" /\ n[c] = BufferSize + 1 /\ Len(text[c]) >= BufferSize

\* The last cell holds a NUL unless such a text has just overwritten it.
EndedInv == message[BufferSize] = NUL \/ \E c \in Clients : TooLong(c)

LEMMA EndedInit == Init => EndedInv
BY CellFacts DEF Init, EndedInv

LEMMA EndedStep ==
  ASSUME MsgTypes, EndedInv, NEW c \in Clients, Call(c)
  PROVE  EndedInv'
<1>1. ASSUME NEW d \in Clients, TooLong(d), d # c PROVE EndedInv'
  BY <1>1, OthersStay DEF TooLong, EndedInv
<1>2. ASSUME TooLong(c) PROVE EndedInv'
  <2>1. n[c] \notin Cells /\ pc[c] = "sprintf"
    BY <1>2, CellFacts DEF TooLong, Cells
  <2>2. Overrun(c)
    BY <2>1 DEF Call, Open, CountOpen, Release, Write, Sprintf, CountText, StoreSize, Read, Copy, Copied,
                CopyFaults, ClearSize, Goto
  <2>3. TooLong(c)'
    BY <1>2, <2>2 DEF TooLong, Overrun, call
  <2>4. QED
    BY <2>3 DEF EndedInv
<1>3. ASSUME message[BufferSize] = NUL PROVE EndedInv'
  <2>1. CASE ~Sprintf(c)
    <3>1. message' = message
      BY <2>1 DEF Call, Open, CountOpen, Release, Write, CountText, Overrun, StoreSize, Read, Copy, Copied,
                  CopyFaults, ClearSize
    <3>2. QED
      BY <1>3, <3>1 DEF EndedInv
  <2>2. CASE Sprintf(c) /\ n[c] <= Len(text[c]) /\ n[c] = BufferSize
    <3>1. /\ pc'[c] = "sprintf" /\ n'[c] = BufferSize + 1 /\ text'[c] = text[c]
          /\ Len(text[c]) >= BufferSize
      BY <2>2 DEF MsgTypes, Frame, Sprintf, Set
    <3>2. QED
      BY <3>1 DEF EndedInv, TooLong
  <2>3. CASE Sprintf(c) /\ ~(n[c] <= Len(text[c]) /\ n[c] = BufferSize)
    <3>1. message'[BufferSize] = NUL
      BY <1>3, <2>3, CellFacts DEF MsgTypes, Frame, Sprintf
    <3>2. QED
      BY <3>1 DEF EndedInv
  <2>4. QED
    BY <2>1, <2>2, <2>3
<1>4. QED
  BY <1>1, <1>2, <1>3 DEF EndedInv

LEMMA EndedStutter == EndedInv /\ UNCHANGED vars => EndedInv'
BY DEF EndedInv, TooLong, vars, call

\* A step that leaves the buffer is one of a text too long, or meets one.
LEMMA OverrunStep ==
  ASSUME MsgTypes, EndedInv, ~overrun, NEW c \in Clients, Call(c)
  PROVE  OverrunOnlyTooLong'
<1>1. CASE ~Overrun(c)
  <2>1. ~overrun'
    BY <1>1 DEF Call, Open, CountOpen, Release, Write, Sprintf, CountText, StoreSize, Read, Copy, Copied,
                CopyFaults, ClearSize
  <2>2. QED
    BY <2>1 DEF OverrunOnlyTooLong
<1>2. CASE Overrun(c)
  <2>1. \E d \in Clients : TooLong(d)
    <3>1. CASE pc[c] = "sprintf" /\ n[c] > BufferSize
      <4>1. /\ n[c] <= BufferSize + 1 /\ n[c] <= Len(text[c]) + 1
            /\ n[c] \in Nat /\ Len(text[c]) \in Nat
        BY <3>1, TextFacts DEF MsgTypes, Frame, CallTypes
      <4>2. QED
        BY <3>1, <4>1, CellFacts DEF TooLong
    <3>2. CASE ~Ended
      BY <3>2, CellFacts DEF Ended, EndedInv
    <3>3. QED
      BY <1>2, <3>1, <3>2 DEF Overrun
  <2>2. UNCHANGED <<pc, n, text>>
    BY <1>2 DEF Overrun, call
  <2>3. QED
    BY <2>1, <2>2 DEF TooLong, OverrunOnlyTooLong
<1>3. QED
  BY <1>1, <1>2

LEMMA OverrunStutter == OverrunOnlyTooLong /\ UNCHANGED vars => OverrunOnlyTooLong'
BY DEF OverrunOnlyTooLong, vars, call

\* For any texts, any number of writers and any buffer: sprintf and strlen leave
\* message only while a text is written that does not fit with its NUL.
THEOREM OverrunsAreTooLong == Spec => []OverrunOnlyTooLong
<1> DEFINE Inv == MsgTypes /\ EndedInv /\ OverrunOnlyTooLong
<1>1. Init => Inv
  BY MsgTypesInit, EndedInit DEF Init, OverrunOnlyTooLong
<1>2. Inv /\ [Next]_vars => Inv'
  BY MsgTypesStep, EndedStep, OverrunStep, MsgTypesStutter, EndedStutter, OverrunStutter DEF Next
<1>3. QED
  BY <1>1, <1>2, PTL DEF Spec

-----------------------------------------------------------------------------
(* The counter of the opens.                                                *)

\* A process between the load and the store has loaded less than there are opens.
OpensInv ==
  /\ numberOpens \in Nat /\ opens \in Nat
  /\ numberOpens <= opens
  /\ \A c \in Clients : pc[c] = "opening" => n[c] + 1 <= opens

LEMMA OpensInit == Init => OpensInv
<1>1. Init => numberOpens = 0 /\ opens = 0 /\ \A c \in Clients : pc[c] # "opening"
  BY DEF Init
<1>2. QED
  BY <1>1 DEF OpensInv

LEMMA OpensStep ==
  ASSUME MsgTypes, OpensInv, NEW c \in Clients, Call(c)
  PROVE  OpensInv'
<1>1. CASE Open(c)
  <2>1. /\ pc[c] = "closed" /\ pc'[c] = "opening" /\ n'[c] = numberOpens
        /\ \A d \in Clients \ {c} : pc'[d] = pc[d] /\ n'[d] = n[d]
        /\ opens' = opens + 1 /\ numberOpens' = numberOpens
    BY <1>1 DEF MsgTypes, Frame, Open, Goto, Set
  <2>2. n[c] \in Nat /\ \A d \in Clients : n[d] \in Nat
    BY DEF MsgTypes, Frame
  <2>3. QED
    BY <2>1, <2>2 DEF OpensInv
<1>2. CASE CountOpen(c)
  BY <1>2 DEF MsgTypes, Frame, OpensInv, CountOpen, Goto, Set
<1>3. CASE ~Open(c) /\ ~CountOpen(c)
  <2>1. UNCHANGED <<numberOpens, opens>>
    BY <1>3 DEF Call, Release, Write, Sprintf, CountText, Overrun, StoreSize, Read, Copy, Copied, CopyFaults, ClearSize
  <2>2. /\ pc[c] # "opening"
        /\ \A d \in Clients : pc'[d] = "opening" => pc[d] = "opening" /\ n'[d] = n[d]
    <3>1. pc[c] # "opening" /\ pc'[c] # "opening"
      BY <1>3 DEF MsgTypes, Frame, Call, Release, Write, Sprintf, CountText, Overrun, StoreSize, Read, Copy, Copied,
                  CopyFaults, ClearSize, Goto, Set, call
    <3>2. QED
      BY <3>1, OthersStay
  <2>3. QED
    BY <2>1, <2>2 DEF OpensInv
<1>4. QED
  BY <1>1, <1>2, <1>3

LEMMA OpensStutter == OpensInv /\ UNCHANGED vars => OpensInv'
BY DEF OpensInv, vars, call

-----------------------------------------------------------------------------
(* What else the type invariant says.                                       *)

\* The bounds of the counters and of what a call has copied, and the histories.
RestTypes ==
  /\ opens \in 0 .. MaxOpens /\ overrun \in BOOLEAN
  /\ \A c \in Clients : Len(out[c]) \in Sizes
  /\ \A c \in Clients : retval[c] \in {-EFAULT} \cup (0 .. BufferSize)
  /\ DOMAIN retval = Clients
  /\ \A c \in Clients : n[c] \in (0 .. BufferSize + 1) \cup (0 .. MaxOpens)
  /\ expect.clear \in BOOLEAN /\ expect.text \in Texts \cup {<<>>}

LEMMA RestInit == Init => RestTypes
<1> SUFFICES ASSUME Init PROVE RestTypes
  OBVIOUS
<1>1. Len(<<>>) \in Sizes /\ 0 \in 0 .. MaxOpens /\ 0 \in 0 .. BufferSize /\ 0 \in 0 .. BufferSize + 1
  BY MsgDeviceAssumption DEF Sizes
<1>2. expect.clear \in BOOLEAN /\ expect.text \in Texts \cup {<<>>}
  BY DEF Init, Holds
<1>3. QED
  BY <1>1, <1>2 DEF Init, RestTypes

LEMMA RestStep ==
  ASSUME MsgTypes, OpensInv, RestTypes, NEW c \in Clients, Call(c)
  PROVE  RestTypes'
<1>0. /\ BufferSize \in Nat \ {0} /\ MaxOpens \in Nat /\ Frame /\ CallTypes(c) /\ MsgTypes'
      /\ numberOpens \in 0 .. MaxOpens /\ opens \in 0 .. MaxOpens
  BY MsgDeviceAssumption, MsgTypesStep DEF MsgTypes, OpensInv, RestTypes
<1>1. opens' \in 0 .. MaxOpens
  BY <1>0 DEF Call, Open, CountOpen, Release, Write, Sprintf, CountText, Overrun, StoreSize, Read, Copy, Copied,
              CopyFaults, ClearSize
<1>2. overrun' \in BOOLEAN
  <2>1. CASE Overrun(c)
    BY <2>1 DEF Overrun
  <2>2. CASE ~ Overrun(c)
    BY <2>2 DEF Call, RestTypes, Open, CountOpen, Release, Write, Sprintf, CountText, Overrun, StoreSize, Read, Copy, Copied,
                CopyFaults, ClearSize
  <2>3. QED
    BY <2>1, <2>2
<1>3. Len(out'[c]) \in Sizes
  <2>1. CASE Copy(c)
    <3>1. /\ Len(out[c]) < n[c] /\ n[c] \in Sizes /\ out[c] \in Seq(Chars)
          /\ out'[c] = Append(out[c], message[Len(out[c]) + 1])
      BY <1>0, <2>1 DEF Copy, CallTypes, Frame, Set
    <3>2. Len(out'[c]) = Len(out[c]) + 1 /\ Len(out[c]) \in Nat
      BY <3>1
    <3>3. QED
      BY <1>0, <3>1, <3>2 DEF Sizes
  <2>2. CASE ~ Copy(c)
    <3>1. out'[c] = out[c] \/ out'[c] = <<>>
      BY <1>0, <2>2 DEF Call, Open, CountOpen, Release, Write, Sprintf, CountText, Overrun, StoreSize, Read, Copied,
                        CopyFaults, ClearSize, Frame, Set, call
    <3>2. QED
      BY <1>0, <3>1 DEF RestTypes, Sizes
  <2>3. QED
    BY <2>1, <2>2
<1>4. \A d \in Clients \ {c} : Len(out'[d]) \in Sizes /\ n'[d] \in (0 .. BufferSize + 1) \cup (0 .. MaxOpens)
  BY OthersStay DEF RestTypes
<1>5. n'[c] \in (0 .. BufferSize + 1) \cup (0 .. MaxOpens)
  <2>1. CASE Open(c) \/ CountOpen(c) \/ Release(c) \/ Copied(c) \/ CopyFaults(c) \/ ClearSize(c) \/ Copy(c)
             \/ StoreSize(c) \/ Write(c) \/ Overrun(c)
    BY <1>0, <2>1 DEF Open, Overrun, call, CountOpen, Release, Copied, CopyFaults, ClearSize, Copy, StoreSize, Write, Frame,
                      RestTypes, Set
  <2>2. CASE Sprintf(c)
    <3>1. n[c] \in Cells /\ n'[c] \in {0, n[c] + 1}
      BY <1>0, <2>2 DEF Sprintf, Frame, Set
    <3>2. QED
      BY <1>0, <3>1 DEF Cells
  <2>3. CASE CountText(c)
    BY <1>0, <2>3, StrlenInBuffer DEF CountText, Frame, Set
  <2>4. CASE Read(c)
    BY <1>0, <2>4 DEF Read, Frame, Sizes, Set
  <2>5. QED
    BY <2>1, <2>2, <2>3, <2>4 DEF Call
<1>6. DOMAIN retval' = Clients /\ \A d \in Clients : retval'[d] \in {-EFAULT} \cup (0 .. BufferSize)
  <2>1. StoreSize(c) => Len(text[c]) \in 0 .. BufferSize
    BY <1>0, TextFacts DEF StoreSize, Goto, CallTypes
  <2>2. retval' = retval \/ \E v \in {-EFAULT} \cup (0 .. BufferSize) : retval' = Set(retval, c, v)
    <3>1. 0 \in {-EFAULT} \cup (0 .. BufferSize)
      BY <1>0
    <3>2. QED
      BY <2>1, <3>1 DEF Call, Open, CountOpen, Release, Write, Sprintf, CountText, Overrun, StoreSize, Read, Copy,
                        Copied, CopyFaults, ClearSize, call
  <2>3. QED
    BY <2>2 DEF RestTypes, Set
<1>7. expect'.clear \in BOOLEAN /\ expect'.text \in Texts \cup {<<>>}
  <2>1. text[c] \in Texts \cup {<<>>}
    BY <1>0 DEF Frame
  <2>2. expect' \in {expect, Unclear, Holds(text[c]), Holds(<<>>)}
    BY DEF Call, Open, CountOpen, Release, Write, Sprintf, CountText, Overrun, StoreSize, Read, Copy, Copied,
           CopyFaults, ClearSize, Ends
  <2>3. Unclear.clear = FALSE /\ Unclear.text = <<>> /\ \A x : Holds(x).clear = TRUE /\ Holds(x).text = x
    BY DEF Unclear, Holds
  <2>4. expect'.clear \in BOOLEAN
    BY <2>2, <2>3, Zenon DEF RestTypes
  <2>5. expect'.text \in Texts \cup {<<>>}
    BY <2>1, <2>2, <2>3, Zenon DEF RestTypes
  <2>6. QED
    BY <2>4, <2>5
<1>8. QED
  BY <1>1, <1>2, <1>3, <1>4, <1>5, <1>6, <1>7 DEF RestTypes

LEMMA RestStutter == RestTypes /\ UNCHANGED vars => RestTypes'
BY DEF RestTypes, vars, call

MsgTypeInv == MsgTypes /\ OpensInv /\ RestTypes

LEMMA MsgTypeInvIsTypeOK == MsgTypeInv => TypeOK
<1> SUFFICES ASSUME MsgTypeInv PROVE TypeOK
  OBVIOUS
<1>1. BufferSize \in Nat \ {0} /\ MaxOpens \in Nat
  BY MsgDeviceAssumption
<1>2. numberOpens \in 0 .. MaxOpens /\ n \in [Clients -> (0 .. BufferSize + 1) \cup (0 .. MaxOpens)]
  BY <1>1 DEF MsgTypeInv, MsgTypes, Frame, OpensInv, RestTypes
<1>3. ASSUME NEW c \in Clients PROVE Len(out[c]) < BufferSize /\ \A i \in DOMAIN out[c] : out[c][i] \in Chars
  <2>1. out[c] \in Seq(Chars) /\ Len(out[c]) \in 0 .. BufferSize - 1
    BY DEF MsgTypeInv, MsgTypes, Frame, RestTypes, Sizes
  <2>2. QED
    BY <1>1, <2>1
<1>4. QED
  BY <1>2, <1>3 DEF MsgTypeInv, MsgTypes, Frame, RestTypes, TypeOK, PCs, Sizes

LEMMA MsgTypeInvInit == Init => MsgTypeInv
BY MsgTypesInit, OpensInit, RestInit DEF MsgTypeInv

LEMMA MsgTypeInvStep == MsgTypeInv /\ [Next]_vars => MsgTypeInv'
BY MsgTypesStep, OpensStep, RestStep, MsgTypesStutter, OpensStutter, RestStutter DEF MsgTypeInv, Next

-----------------------------------------------------------------------------
(* Reading what was written.                                                *)

\* The buffer and the length hold the text x.
Holding(x) == size_of_message = Len(x) /\ \A i \in 1 .. Len(x) : message[i] = x[i]

\* How far the call of c has come, if nobody else is in one.
LoneCall(c) ==
  /\ pc[c] = "sprintf" => \A i \in 1 .. n[c] - 1 : message[i] = text[c][i]
  /\ pc[c] = "strlen" => message[Len(text[c]) + 1] = NUL
  /\ pc[c] = "strlen" \/ pc[c] = "store" => \A i \in 1 .. Len(text[c]) : message[i] = text[c][i]
  /\ pc[c] = "store" => n[c] = Len(text[c])
  /\ (pc[c] = "copy" \/ pc[c] = "return") /\ expect.clear =>
       /\ Holding(expect.text) /\ n[c] = Len(expect.text)
       /\ \A i \in 1 .. Len(out[c]) : out[c][i] = expect.text[i]

QuietInv ==
  /\ expect.text \in Texts \cup {<<>>}
  /\ \A c, d \in Clients : c # d /\ Busy(c) /\ alone[c] => ~Busy(d)
  /\ \A c \in Clients : Busy(c) /\ alone[c] => LoneCall(c)
  /\ Quiet /\ expect.clear => Holding(expect.text)

LEMMA QuietInit == Init => QuietInv
<1>1. Init => expect.text = <<>> /\ size_of_message = 0 /\ \A c \in Clients : ~Busy(c)
  BY DEF Init, Holds, Busy
<1>2. QED
  BY <1>1 DEF QuietInv, Holding

Serving(c) ==
  \/ Write(c) \/ Sprintf(c) \/ CountText(c) \/ Overrun(c) \/ StoreSize(c)
  \/ Read(c) \/ Copy(c) \/ Copied(c) \/ CopyFaults(c) \/ ClearSize(c)

LEMMA BusyOthers ==
  ASSUME MsgTypes, NEW c \in Clients, Call(c), NEW d \in Clients \ {c}
  PROVE  Busy(d)' <=> Busy(d)
BY OthersStay DEF Busy

\* While c serves a call, no other call is a lone one.
LEMMA LoneStep ==
  ASSUME MsgTypes, QuietInv, NEW c \in Clients, Serving(c)
  PROVE  /\ \A d \in Clients \ {c} : ~(Busy(d)' /\ alone'[d])
         /\ \A d \in Clients \ {c} : Busy(c)' /\ alone'[c] => ~Busy(d)'
<1> SUFFICES ASSUME NEW d \in Clients \ {c}
             PROVE  ~(Busy(d)' /\ alone'[d]) /\ (Busy(c)' /\ alone'[c] => ~Busy(d)')
  OBVIOUS
<1>1. Busy(d)' <=> Busy(d)
  BY BusyOthers DEF Serving, Call
<1>2. CASE Write(c) \/ Read(c)
  <2>1. alone'[d] = (alone[d] /\ ~Busy(d)) /\ alone'[c] = (~\E e \in Clients \ {c} : Busy(e))
    BY <1>2, Zenon DEF Write, Read, Begin
  <2>2. QED
    BY <1>1, <2>1, Zenon
<1>3. CASE ~Write(c) /\ ~Read(c)
  <2>1. Busy(c) /\ alone' = alone
    BY <1>3 DEF Serving, Busy, Sprintf, CountText, Overrun, StoreSize, Copy, Copied, CopyFaults, ClearSize, Goto
  <2>2. QED
    BY <1>1, <2>1, Zenon DEF QuietInv
<1>4. QED
  BY <1>2, <1>3

\* The call of c itself, whatever it does next.
LEMMA LoneOwn ==
  ASSUME MsgTypes, QuietInv, NEW c \in Clients, Serving(c)
  PROVE  /\ expect'.text \in Texts \cup {<<>>}
         /\ Busy(c)' /\ alone'[c] => LoneCall(c)'
         /\ Quiet' /\ expect'.clear => Holding(expect.text)'
<1> DEFINE Goal ==
      /\ expect'.text \in Texts \cup {<<>>}
      /\ Busy(c)' /\ alone'[c] => LoneCall(c)'
      /\ Quiet' /\ expect'.clear => Holding(expect.text)'
<1>0. /\ expect.text \in Texts \cup {<<>>} /\ (Busy(c) /\ alone[c] => LoneCall(c))
      /\ CallTypes(c) /\ n[c] \in Nat /\ pc[c] \in PCs /\ out[c] \in Seq(Chars)
      /\ message \in [Cells -> Chars]
  BY DEF QuietInv, MsgTypes, Frame
<1>a. Busy(c)' => ~Quiet'
  BY DEF Quiet
<1>1. ASSUME Write(c) PROVE Goal
  <2>1. pc'[c] = "sprintf" /\ n'[c] = 1 /\ expect' = expect
    BY <1>1 DEF Write, Goto, Set, MsgTypes, Frame
  <2>2. Busy(c)' /\ LoneCall(c)'
    BY <2>1 DEF Busy, LoneCall
  <2>3. QED
    BY <1>0, <1>a, <2>1, <2>2
<1>2. ASSUME Sprintf(c) PROVE Goal
  <2>1. /\ pc[c] = "sprintf" /\ expect' = expect /\ alone' = alone /\ text' = text
        /\ text[c] \in Texts /\ n[c] \in 1 .. Len(text[c]) + 1
    BY <1>0, <1>2 DEF Sprintf, CallTypes
  <2>2. n[c] \in Cells /\ 1 .. n[c] \subseteq Cells
    BY <1>2, MsgDeviceAssumption DEF Sprintf, Cells
  <2>3. alone[c] => \A i \in 1 .. n[c] - 1 : message[i] = text[c][i]
    BY <1>0, <2>1 DEF Busy, LoneCall
  <2>4. CASE n[c] <= Len(text[c])
    <3>1. n'[c] = n[c] + 1 /\ pc'[c] = "sprintf" /\ message' = [message EXCEPT ![n[c]] = text[c][n[c]]]
      BY <1>2, <2>1, <2>4 DEF Sprintf, Set, MsgTypes, Frame
    <3>2. alone[c] => \A i \in 1 .. n[c] : message'[i] = text[c][i]
      BY <1>0, <2>1, <2>2, <2>3, <3>1
    <3>3. Busy(c)' /\ (alone'[c] => LoneCall(c)')
      BY <1>0, <2>1, <3>1, <3>2 DEF Busy, LoneCall
    <3>4. QED
      BY <1>0, <1>a, <2>1, <3>3
  <2>5. CASE ~(n[c] <= Len(text[c]))
    <3>1. n[c] = Len(text[c]) + 1
      BY <2>1, <2>5, TextFacts
    <3>2. pc'[c] = "strlen" /\ message' = [message EXCEPT ![n[c]] = NUL]
      BY <1>2, <2>1, <2>5 DEF Sprintf, Set, MsgTypes, Frame
    <3>3. alone[c] => \A i \in 1 .. Len(text[c]) : message'[i] = text[c][i]
      BY <1>0, <2>1, <2>2, <2>3, <3>1, <3>2, TextFacts
    <3>4. message'[Len(text[c]) + 1] = NUL
      BY <1>0, <2>2, <3>1, <3>2
    <3>5. Busy(c)' /\ (alone'[c] => LoneCall(c)')
      BY <2>1, <3>2, <3>3, <3>4 DEF Busy, LoneCall
    <3>6. QED
      BY <1>0, <1>a, <2>1, <3>5
  <2>6. QED
    BY <2>4, <2>5
<1>3. ASSUME CountText(c) PROVE Goal
  <2>1. /\ pc[c] = "strlen" /\ pc'[c] = "store" /\ n'[c] = Strlen /\ text[c] \in Texts
        /\ UNCHANGED <<message, expect, alone, text>> /\ Len(text[c]) < BufferSize
    BY <1>0, <1>3 DEF CountText, CallTypes, Goto, Set, MsgTypes, Frame
  <2>2. Len(text[c]) + 1 \in Cells /\ Len(text[c]) \in Nat
    BY <2>1, TextFacts, MsgDeviceAssumption DEF Cells
  <2>3. alone[c] => IsEnd(message, Len(text[c]) + 1) /\ \A i \in 1 .. Len(text[c]) : message[i] = text[c][i]
    <3>1. alone[c] => message[Len(text[c]) + 1] = NUL /\ \A i \in 1 .. Len(text[c]) : message[i] = text[c][i]
      BY <1>0, <2>1 DEF Busy, LoneCall
    <3>2. QED
      BY <2>1, <2>2, <3>1, TextFacts DEF IsEnd
  <2>4. alone[c] => Strlen = Len(text[c])
    BY <2>2, <2>3, StrlenIs
  <2>5. Busy(c)' /\ (alone'[c] => LoneCall(c)')
    BY <2>1, <2>3, <2>4 DEF Busy, LoneCall
  <2>6. QED
    BY <1>0, <1>a, <2>1, <2>5
<1>4. ASSUME StoreSize(c) PROVE Goal
  <2>1. /\ pc[c] = "store" /\ pc'[c] = "open" /\ size_of_message' = n[c] /\ message' = message
        /\ expect' = (IF alone[c] THEN Holds(text[c]) ELSE Unclear) /\ text[c] \in Texts
    BY <1>0, <1>4 DEF StoreSize, Ends, CallTypes, Goto, Set, MsgTypes, Frame
  <2>2. alone[c] => n[c] = Len(text[c]) /\ \A i \in 1 .. Len(text[c]) : message[i] = text[c][i]
    BY <1>0, <2>1 DEF Busy, LoneCall
  <2>3. CASE alone[c]
    <3>1. expect'.text = text[c] /\ expect'.clear = TRUE
      BY <2>1, <2>3 DEF Holds
    <3>2. Holding(expect.text)'
      BY <2>1, <2>2, <2>3, <3>1 DEF Holding
    <3>3. QED
      BY <2>1, <3>1, <3>2 DEF Busy
  <2>4. CASE ~alone[c]
    BY <2>1, <2>4 DEF Unclear, Busy
  <2>5. QED
    BY <2>3, <2>4
<1>5. ASSUME Read(c) PROVE Goal
  <2>1. /\ pc[c] = "open" /\ pc'[c] = "copy" /\ n'[c] = size_of_message /\ out'[c] = <<>>
        /\ UNCHANGED <<message, size_of_message, expect>>
    BY <1>5 DEF Read, Goto, Set, MsgTypes, Frame
  <2>2. alone'[c] => Quiet
    <3>1. alone'[c] = (~\E e \in Clients \ {c} : Busy(e))
      BY <1>5, Zenon DEF Read, Begin
    <3>2. ~Busy(c)
      BY <2>1 DEF Busy
    <3>3. QED
      BY <3>1, <3>2 DEF Quiet
  <2>3. alone'[c] /\ expect.clear => Holding(expect.text)
    BY <2>2 DEF QuietInv
  <2>4. Len(out'[c]) = 0
    BY <2>1
  <2>5. Busy(c)' /\ (alone'[c] => LoneCall(c)')
    BY <2>1, <2>3, <2>4 DEF Busy, LoneCall, Holding
  <2>6. QED
    BY <1>0, <1>a, <2>1, <2>5
<1>6. ASSUME Copy(c) PROVE Goal
  <2>1. /\ pc[c] = "copy" /\ pc'[c] = "copy" /\ n' = n /\ Len(out[c]) < n[c]
        /\ out'[c] = Append(out[c], message[Len(out[c]) + 1])
        /\ UNCHANGED <<message, size_of_message, expect, alone>>
    BY <1>6 DEF Copy, Goto, Set, MsgTypes, Frame
  <2> DEFINE o == Append(out[c], message[Len(out[c]) + 1])
  <2>2. Len(out[c]) + 1 \in Cells
    BY <1>0, <2>1, CellFacts DEF CallTypes, Sizes, Cells
  <2>3. message[Len(out[c]) + 1] \in Chars
    BY <1>0, <2>2
  <2>4. /\ Len(o) = Len(out[c]) + 1 /\ \A i \in 1 .. Len(out[c]) : o[i] = out[c][i]
        /\ o[Len(out[c]) + 1] = message[Len(out[c]) + 1]
    BY <1>0, <2>3
  <2>5. out'[c] = o
    BY <2>1
  <2> HIDE DEF o
  <2>6. alone[c] /\ expect.clear =>
          /\ Holding(expect.text) /\ n[c] = Len(expect.text)
          /\ \A i \in 1 .. Len(o) : o[i] = expect.text[i]
    <3>1. alone[c] /\ expect.clear =>
            /\ Holding(expect.text) /\ n[c] = Len(expect.text)
            /\ \A i \in 1 .. Len(out[c]) : out[c][i] = expect.text[i]
      BY <1>0, <2>1 DEF Busy, LoneCall
    <3>2. Len(out[c]) \in Nat /\ Len(out[c]) + 1 <= n[c]
      BY <1>0, <2>1
    <3>3. alone[c] /\ expect.clear => message[Len(out[c]) + 1] = expect.text[Len(out[c]) + 1]
      BY <3>1, <3>2 DEF Holding
    <3>4. QED
      BY <2>4, <3>1, <3>2, <3>3
  <2>7. Busy(c)' /\ (alone'[c] => LoneCall(c)')
    BY <2>1, <2>5, <2>6 DEF Busy, LoneCall, Holding
  <2>8. QED
    BY <1>0, <1>a, <2>1, <2>7
<1>7. ASSUME Copied(c) PROVE Goal
  <2>1. /\ pc[c] = "copy" /\ pc'[c] = "return"
        /\ UNCHANGED <<message, size_of_message, expect, alone, n, out>>
    BY <1>7 DEF Copied, Goto, Set, MsgTypes, Frame
  <2>2. Busy(c)' /\ (alone'[c] => LoneCall(c)')
    BY <1>0, <2>1 DEF Busy, LoneCall, Holding
  <2>3. QED
    BY <1>0, <1>a, <2>1, <2>2
<1>8. ASSUME CopyFaults(c) PROVE Goal
  <2>1. /\ pc[c] = "copy" /\ pc'[c] = "open" /\ UNCHANGED <<message, size_of_message>>
        /\ expect' = IF alone[c] THEN expect ELSE Unclear
    BY <1>8 DEF CopyFaults, Ends, Goto, Set, MsgTypes, Frame
  <2>2. alone[c] /\ expect.clear => Holding(expect.text)
    BY <1>0, <2>1 DEF Busy, LoneCall
  <2>3. CASE alone[c]
    BY <1>0, <2>1, <2>2, <2>3 DEF Busy, Holding
  <2>4. CASE ~alone[c]
    BY <2>1, <2>4 DEF Unclear, Busy
  <2>5. QED
    BY <2>3, <2>4
<1>9. ASSUME ClearSize(c) PROVE Goal
  <2>1. /\ pc'[c] = "open" /\ size_of_message' = 0
        /\ expect' = IF alone[c] THEN Holds(<<>>) ELSE Unclear
    BY <1>9 DEF ClearSize, Ends, Goto, Set, MsgTypes, Frame
  <2>2. expect'.text = <<>>
    BY <2>1 DEF Holds, Unclear
  <2>3. Holding(expect.text)'
    BY <2>1, <2>2 DEF Holding
  <2>4. QED
    BY <2>1, <2>2, <2>3 DEF Busy
<1>10. ASSUME Overrun(c) PROVE Goal
  <2>1. UNCHANGED <<message, size_of_message, call, alone, expect>> /\ Busy(c)
    BY <1>10 DEF Overrun, Busy
  <2>2. Busy(c)' /\ (alone'[c] => LoneCall(c)')
    BY <1>0, <2>1 DEF Busy, LoneCall, Holding, call
  <2>3. QED
    BY <1>0, <1>a, <2>1, <2>2
<1>11. QED
  BY <1>1, <1>2, <1>3, <1>4, <1>5, <1>6, <1>7, <1>8, <1>9, <1>10 DEF Serving

LEMMA QuietStep ==
  ASSUME MsgTypes, QuietInv, NEW c \in Clients, Call(c)
  PROVE  QuietInv'
<1>1. CASE Serving(c)
  <2>1. /\ \A d \in Clients \ {c} : ~(Busy(d)' /\ alone'[d])
        /\ \A d \in Clients \ {c} : Busy(c)' /\ alone'[c] => ~Busy(d)'
    BY <1>1, LoneStep
  <2>2. /\ expect'.text \in Texts \cup {<<>>}
        /\ Busy(c)' /\ alone'[c] => LoneCall(c)'
        /\ Quiet' /\ expect'.clear => Holding(expect.text)'
    BY <1>1, LoneOwn
  <2>3. \A d \in Clients : Busy(d)' /\ alone'[d] => LoneCall(d)'
    BY <2>1, <2>2
  <2>4. \A d, e \in Clients : d # e /\ Busy(d)' /\ alone'[d] => ~Busy(e)'
    BY <2>1
  <2>5. QED
    BY <2>2, <2>3, <2>4 DEF QuietInv
<1>2. CASE Open(c) \/ CountOpen(c) \/ Release(c)
  <2>1. ~Busy(c) /\ ~Busy(c)' /\ UNCHANGED <<message, size_of_message, alone, expect>>
    BY <1>2 DEF Open, CountOpen, Release, Goto, Set, Busy, MsgTypes, Frame
  <2>2. \A d \in Clients \ {c} : pc'[d] = pc[d] /\ text'[d] = text[d] /\ n'[d] = n[d] /\ out'[d] = out[d]
    BY OthersStay
  <2>3. \A d \in Clients : Busy(d)' <=> Busy(d)
    BY <2>1, BusyOthers
  <2>4. \A d \in Clients \ {c} : LoneCall(d) => LoneCall(d)'
    BY <2>1, <2>2 DEF LoneCall, Holding
  <2>5. \A d \in Clients : Busy(d)' /\ alone'[d] => LoneCall(d)'
    BY <2>1, <2>3, <2>4 DEF QuietInv
  <2>6. Quiet' /\ expect'.clear => Holding(expect.text)'
    BY <2>1, <2>3 DEF QuietInv, Quiet, Holding
  <2>7. QED
    BY <2>1, <2>3, <2>5, <2>6 DEF QuietInv
<1>3. QED
  BY <1>1, <1>2 DEF Call, Serving

LEMMA QuietStutter == QuietInv /\ UNCHANGED vars => QuietInv'
BY DEF QuietInv, Quiet, Busy, LoneCall, Holding, vars, call

\* A read that is not overlapped, of a buffer that is not in doubt, gets exactly
\* the unread text, for any texts, any number of processes and any buffer.
THEOREM ReadsAreExact == Spec => []QuietReadExact
<1>1. Init => MsgTypes /\ QuietInv
  BY MsgTypesInit, QuietInit
<1>2. MsgTypes /\ QuietInv /\ [Next]_vars => (MsgTypes /\ QuietInv)'
  BY MsgTypesStep, QuietStep, MsgTypesStutter, QuietStutter DEF Next
<1>3. MsgTypes /\ QuietInv => QuietReadExact
  <2> SUFFICES ASSUME MsgTypes, QuietInv, NEW c \in Clients, pc[c] = "return", alone[c], expect.clear
               PROVE  out[c] = expect.text
    BY DEF QuietReadExact
  <2>1. /\ n[c] = Len(expect.text) /\ Len(out[c]) = n[c] /\ out[c] \in Seq(Chars)
        /\ \A i \in 1 .. Len(out[c]) : out[c][i] = expect.text[i]
    BY DEF QuietInv, Busy, LoneCall, MsgTypes, Frame, CallTypes
  <2>2. expect.text \in Seq(Chars)
    <3>1. CASE expect.text \in Texts
      BY <3>1, TextFacts
    <3>2. CASE expect.text = <<>>
      BY <3>2
    <3>3. QED
      BY <3>1, <3>2 DEF QuietInv
  <2>3. QED
    BY <2>1, <2>2
<1>4. QED
  BY <1>1, <1>2, <1>3, PTL DEF Spec
=============================================================================
