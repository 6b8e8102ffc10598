---------------------------- MODULE ProgramProofs ----------------------------
(* netmon for datagrams and buffers of any length and any alignment, and     *)
(* set_route for command lines of any length.                                *)
EXTENDS MCModules, WellFoundedInduction, TLAPS

-----------------------------------------------------------------------------
(* Induction over numbers, said of sets.                                   *)

LEMMA LeastOf ==
  ASSUME NEW X, X \subseteq Nat, X # {}
  PROVE  \E n \in X : \A k \in X : n <= k
<1> DEFINE R == OpToRel(<, Nat)
<1>1. \A j, k \in Nat : j < k => <<j, k>> \in R
  BY DEF OpToRel
<1>2. \E n \in X : \A k \in X : ~ (<<k, n>> \in R)
  BY NatLessThanWellFounded, WFMin
<1> HIDE DEF R
<1>3. PICK n \in X : \A k \in X : ~ (<<k, n>> \in R)
  BY <1>2
<1>4. \A k \in X : n <= k
  <2>1. n \in Nat /\ \A k \in X : k \in Nat /\ ~ (k < n)
    BY <1>1, <1>3
  <2>2. QED
    BY <2>1
<1>5. QED
  BY <1>4

LEMMA GreatestOf ==
  ASSUME NEW b \in Nat, NEW X, X \subseteq 0 .. b, X # {}
  PROVE  \E n \in X : \A k \in X : k <= n
<1> DEFINE Y == {b - k : k \in X}
<1>1. Y \subseteq Nat /\ Y # {}
  <2>1. \A k \in X : b - k \in Nat
    OBVIOUS
  <2>2. PICK k \in X : TRUE
    OBVIOUS
  <2>3. QED
    BY <2>1, <2>2
<1>2. PICK m \in Y : \A k \in Y : m <= k
  <2> HIDE DEF Y
  <2> QED BY <1>1, LeastOf
<1>3. PICK n \in X : m = b - n
  BY <1>2
<1>4. \A k \in X : k \in 0 .. b /\ b - n <= b - k
  BY <1>2, <1>3
<1>5. QED
  BY <1>3, <1>4

\* What holds at 1 and from each number to the next holds up to the end.
LEMMA RangeInduction ==
  ASSUME NEW n \in Nat, NEW X, 1 \in X, \A k \in 1 .. n : k \in X => k + 1 \in X
  PROVE  1 .. n + 1 \subseteq X
<1> DEFINE Y == (1 .. n + 1) \ X
<1> SUFFICES ASSUME Y # {} PROVE FALSE
  OBVIOUS
<1>0. Y \subseteq Nat
  OBVIOUS
<1>1. PICK m \in Y : \A k \in Y : m <= k
  <2> HIDE DEF Y
  <2> QED BY <1>0, LeastOf
<1>2. m # 1 /\ m - 1 \in 1 .. n /\ m - 1 \in X
  BY <1>1
<1>3. QED
  BY <1>1, <1>2

-----------------------------------------------------------------------------
(* Where the messages of a datagram begin.                                 *)

\* The recursive function Offset exists: the sums of any sequence of numbers do.
LEMMA SumsExist ==
  ASSUME NEW n \in Nat, NEW a \in [1 .. n -> Nat]
  PROVE  \E f \in [1 .. n + 1 -> Nat] : f[1] = 0 /\ \A k \in 1 .. n : f[k + 1] = f[k] + a[k]
<1> DEFINE Sums(m) == {f \in [1 .. m -> Nat] : f[1] = 0 /\ \A k \in 1 .. m - 1 : f[k + 1] = f[k] + a[k]}
           X == {m \in 1 .. n + 1 : Sums(m) # {}}
<1>1. 1 \in X
  <2>1. [k \in 1 .. 1 |-> 0] \in Sums(1)
    OBVIOUS
  <2>2. 1 \in 1 .. n + 1
    OBVIOUS
  <2> HIDE DEF Sums
  <2>3. QED
    BY <2>1, <2>2
<1>2. ASSUME NEW m \in 1 .. n, m \in X PROVE m + 1 \in X
  <2>1. PICK f \in [1 .. m -> Nat] : f[1] = 0 /\ \A k \in 1 .. m - 1 : f[k + 1] = f[k] + a[k]
    BY <1>2
  <2> DEFINE g == [k \in 1 .. m + 1 |-> IF k = m + 1 THEN f[m] + a[m] ELSE f[k]]
  <2>2. f[m] + a[m] \in Nat
    OBVIOUS
  <2>3. g \in [1 .. m + 1 -> Nat]
    BY <2>2
  <2>4. g[m + 1] = f[m] + a[m] /\ \A k \in 1 .. m : g[k] = f[k]
    OBVIOUS
  <2> HIDE DEF g
  <2>5. g[1] = 0
    BY <2>1, <2>4
  <2>6. ASSUME NEW k \in 1 .. (m + 1) - 1 PROVE g[k + 1] = g[k] + a[k]
    <3>1. CASE k = m
      BY <3>1, <2>4
    <3>2. CASE k # m
      <4>1. k \in 1 .. m - 1 /\ k + 1 \in 1 .. m /\ k \in 1 .. m
        BY <3>2
      <4>2. QED
        BY <4>1, <2>1, <2>4
    <3>3. QED
      BY <3>1, <3>2
  <2>7. g \in Sums(m + 1)
    BY <2>3, <2>5, <2>6
  <2> HIDE DEF Sums
  <2>8. QED
    BY <2>7
<1>3. n + 1 \in X
  <2>1. 1 .. n + 1 \subseteq X
    <3> HIDE DEF X
    <3> QED BY <1>1, <1>2, RangeInduction
  <2>2. n + 1 \in 1 .. n + 1
    OBVIOUS
  <2> HIDE DEF X
  <2>3. QED
    BY <2>1, <2>2
<1>4. PICK f \in Sums(n + 1) : TRUE
  BY <1>3
<1>5. (n + 1) - 1 = n
  OBVIOUS
<1>6. QED
  BY <1>4, <1>5

Aligned(d) == [k \in 1 .. Len(d) |-> Mon!NLMSG_ALIGN(d[k].len)]

LEMMA AlignFacts ==
  ASSUME Mon!NetMonAssumption, NEW n \in Nat
  PROVE  /\ Mon!NLMSG_ALIGN(n) \in Nat /\ Mon!NLMSG_ALIGN(n) >= n
         /\ \E q \in Nat : Mon!NLMSG_ALIGN(n) = q * Frac
         /\ \A q \in Nat : q * Frac >= n => q * Frac >= Mon!NLMSG_ALIGN(n)
<1> DEFINE q == (n + Frac - 1) \div Frac
           r == (n + Frac - 1) % Frac
<1>1. Frac \in Nat \ {0}
  BY DEF Mon!NetMonAssumption
<1>2. q \in Nat /\ r \in 0 .. Frac - 1 /\ n + Frac - 1 = Frac * q + r
  BY <1>1
<1>3. Mon!NLMSG_ALIGN(n) = q * Frac
  BY DEF Mon!NLMSG_ALIGN
<1> HIDE DEF q, r
<1>4. q * Frac \in Nat /\ q * Frac = Frac * q /\ q * Frac >= n /\ q * Frac < n + Frac
  BY <1>1, <1>2
<1>5. ASSUME NEW p \in Nat, p * Frac >= n, p * Frac < q * Frac PROVE FALSE
  <2>1. p + 1 <= q
    BY <1>1, <1>2, <1>5, SMTT(30)
  <2>2. (p + 1) * Frac <= q * Frac
    BY <1>1, <1>2, <2>1, SMTT(30)
  <2>3. (p + 1) * Frac = p * Frac + Frac
    BY <1>1
  <2>4. QED
    BY <1>1, <1>4, <1>5, <2>2, <2>3
<1>6. QED
  BY <1>1, <1>2, <1>3, <1>4, <1>5

\* Offset is what its definition says.
LEMMA OffsetIs ==
  ASSUME Mon!NetMonAssumption, NEW d \in Datagrams \cup {<<>>}
  PROVE  /\ Len(d) \in Nat /\ DOMAIN d = 1 .. Len(d)
         /\ \A k \in 1 .. Len(d) : d[k].len \in Nat /\ d[k].len >= Hdr * Frac
         /\ Mon!Offset(d) \in [1 .. Len(d) + 1 -> Nat] /\ Mon!Offset(d)[1] = 0
         /\ \A k \in 1 .. Len(d) : Mon!Offset(d)[k + 1] = Mon!Offset(d)[k] + Mon!NLMSG_ALIGN(d[k].len)
<1>1. /\ Len(d) \in Nat /\ DOMAIN d = 1 .. Len(d)
      /\ \A k \in 1 .. Len(d) : d[k].len \in Nat /\ d[k].len >= Hdr * Frac
  <2>1. CASE d \in Datagrams
    <3>1. d \in Seq({d[k] : k \in DOMAIN d})
      BY <2>1 DEF Mon!NetMonAssumption
    <3>2. Len(d) \in Nat /\ DOMAIN d = 1 .. Len(d)
      BY <3>1
    <3>3. QED
      BY <2>1, <3>2 DEF Mon!NetMonAssumption
  <2>2. CASE d = <<>>
    BY <2>2
  <2>3. QED
    BY <2>1, <2>2
<1>2. Aligned(d) \in [1 .. Len(d) -> Nat]
  BY <1>1, AlignFacts DEF Aligned
<1>3. PICK f \in [1 .. Len(d) + 1 -> Nat] : f[1] = 0 /\ \A k \in 1 .. Len(d) : f[k + 1] = f[k] + Aligned(d)[k]
  BY <1>1, <1>2, SumsExist
<1> DEFINE Body(g) == [k \in 1 .. Len(d) + 1 |-> IF k = 1 THEN 0 ELSE g[k - 1] + Mon!NLMSG_ALIGN(d[k - 1].len)]
           o == CHOOSE g : g = Body(g)
<1>4. f = Body(f)
  <2>1. \A k \in 1 .. Len(d) + 1 : f[k] = Body(f)[k]
    BY <1>1, <1>3 DEF Aligned
  <2>2. QED
    BY <1>3, <2>1
<1>5. o = Body(o)
  <2> HIDE DEF Body
  <2> QED BY <1>4
<1>6. Mon!Offset(d) = o
  BY DEF Mon!Offset
<1> HIDE DEF o
<1>7. \A k \in 1 .. Len(d) + 1 : o[k] = IF k = 1 THEN 0 ELSE o[k - 1] + Mon!NLMSG_ALIGN(d[k - 1].len)
  BY <1>5
<1>8. \A k \in 1 .. Len(d) + 1 : o[k] = f[k]
  <2> DEFINE X == {k \in 1 .. Len(d) + 1 : o[k] = f[k]}
  <2>1. 1 \in X
    BY <1>1, <1>3, <1>7
  <2>2. ASSUME NEW k \in 1 .. Len(d), k \in X PROVE k + 1 \in X
    BY <1>1, <1>3, <1>7, <2>2 DEF Aligned
  <2>3. 1 .. Len(d) + 1 \subseteq X
    <3> HIDE DEF X
    <3> QED BY <1>1, <2>1, <2>2, RangeInduction
  <2>4. QED
    BY <2>3
<1>9. o = f
  <2>1. DOMAIN o = 1 .. Len(d) + 1 /\ o = [k \in 1 .. Len(d) + 1 |-> o[k]]
    BY <1>5
  <2>2. QED
    BY <1>3, <1>8, <2>1
<1>10. QED
  BY <1>1, <1>3, <1>6, <1>9 DEF Aligned

\* Offsets are aligned, and grow by the length of each message at least.
LEMMA OffsetsGrow ==
  ASSUME Mon!NetMonAssumption, NEW d \in Datagrams \cup {<<>>}
  PROVE  /\ \A k \in 1 .. Len(d) + 1 : \E q \in Nat : Mon!Offset(d)[k] = q * Frac
         /\ \A j, k \in 1 .. Len(d) + 1 : j < k => Mon!Offset(d)[j] + d[j].len <= Mon!Offset(d)[k]
<1> DEFINE o == Mon!Offset(d)
           n == Len(d)
<1>1. /\ n \in Nat /\ o \in [1 .. n + 1 -> Nat] /\ o[1] = 0 /\ Frac \in Nat
      /\ \A k \in 1 .. n : o[k + 1] = o[k] + Mon!NLMSG_ALIGN(d[k].len)
      /\ \A k \in 1 .. n : d[k].len \in Nat
  BY OffsetIs DEF Mon!NetMonAssumption
<1>2. \A k \in 1 .. n : /\ Mon!NLMSG_ALIGN(d[k].len) \in Nat /\ Mon!NLMSG_ALIGN(d[k].len) >= d[k].len
                        /\ \E q \in Nat : Mon!NLMSG_ALIGN(d[k].len) = q * Frac
  BY <1>1, AlignFacts
<1> HIDE DEF o, n
<1>3. ASSUME NEW k \in 1 .. n + 1 PROVE \E q \in Nat : o[k] = q * Frac
  <2> DEFINE X == {m \in 1 .. n + 1 : \E q \in Nat : o[m] = q * Frac}
  <2>1. 1 \in X
    <3>1. o[1] = 0 * Frac /\ 0 \in Nat /\ 1 \in 1 .. n + 1
      BY <1>1
    <3>2. QED
      BY <3>1
  <2>2. ASSUME NEW m \in 1 .. n, m \in X PROVE m + 1 \in X
    <3>1. PICK p \in Nat : o[m] = p * Frac
      BY <2>2
    <3>2. PICK q \in Nat : Mon!NLMSG_ALIGN(d[m].len) = q * Frac
      BY <1>2
    <3>3. o[m + 1] = (p + q) * Frac /\ p + q \in Nat
      BY <1>1, <3>1, <3>2
    <3>4. m + 1 \in 1 .. n + 1
      BY <1>1
    <3>5. QED
      BY <3>3, <3>4
  <2>3. 1 .. n + 1 \subseteq X
    <3> HIDE DEF X
    <3> QED BY <1>1, <2>1, <2>2, RangeInduction
  <2>4. QED
    BY <2>3
<1>4. ASSUME NEW j \in 1 .. n + 1, NEW k \in 1 .. n + 1, j < k PROVE o[j] + d[j].len <= o[k]
  <2> DEFINE X == {m \in 1 .. n + 1 : j < m => o[j] + d[j].len <= o[m]}
  <2>1. 1 \in X
    BY <1>1
  <2>2. ASSUME NEW m \in 1 .. n, m \in X PROVE m + 1 \in X
    <3>1. m \in 1 .. n + 1 /\ m + 1 \in 1 .. n + 1 /\ j \in Nat
      BY <1>1
    <3>2. o[m] \in Nat /\ o[m + 1] \in Nat /\ o[j] \in Nat /\ o[m + 1] >= o[m] + d[m].len /\ d[m].len \in Nat
      BY <1>1, <1>2, <3>1
    <3>3. CASE j = m
      BY <3>1, <3>2, <3>3
    <3>4. CASE j < m
      <4>1. d[j].len \in Nat /\ o[j] + d[j].len <= o[m]
        BY <1>1, <2>2, <3>1, <3>4
      <4>2. QED
        BY <3>1, <3>2, <4>1
    <3>5. CASE m < j
      BY <3>1, <3>5
    <3>6. QED
      BY <3>1, <3>3, <3>4, <3>5
  <2>3. 1 .. n + 1 \subseteq X
    <3> HIDE DEF X
    <3> QED BY <1>1, <2>1, <2>2, RangeInduction
  <2>4. QED
    BY <2>3, <1>4
<1>5. QED
  BY <1>3, <1>4 DEF o, n

\* What lies where a message begins is that message, behind the last one nothing.
LEMMA AtIs ==
  ASSUME Mon!NetMonAssumption, NEW d \in Datagrams \cup {<<>>}
  PROVE  /\ \A k \in 1 .. Len(d) : Mon!At(d, Mon!Offset(d)[k]) = d[k]
         /\ Mon!At(d, Mon!Offset(d)[Len(d) + 1]).len = 0
<1> DEFINE o == Mon!Offset(d)
<1>1. /\ Len(d) \in Nat /\ DOMAIN d = 1 .. Len(d) /\ o \in [1 .. Len(d) + 1 -> Nat]
      /\ \A k \in 1 .. Len(d) : d[k].len \in Nat /\ d[k].len > 0
  <2>1. Hdr * Frac \in Nat /\ Hdr * Frac > 0
    BY SMTT(30) DEF Mon!NetMonAssumption
  <2>2. QED
    BY <2>1, OffsetIs
<1>2. \A j, k \in 1 .. Len(d) + 1 : j < k => o[j] + d[j].len <= o[k]
  BY OffsetsGrow
<1> HIDE DEF o
<1>3. \A j, k \in 1 .. Len(d) + 1 : j < k => o[j] < o[k]
  BY <1>1, <1>2
<1>4. \A j, k \in 1 .. Len(d) + 1 : o[j] = o[k] => j = k
  BY <1>1, <1>3
<1>5. ASSUME NEW k \in 1 .. Len(d) PROVE Mon!At(d, o[k]) = d[k]
  <2>1. \A j \in DOMAIN d : o[j] = o[k] <=> j = k
    BY <1>1, <1>4
  <2>2. (CHOOSE j \in DOMAIN d : o[j] = o[k]) = k
    BY <1>1, <2>1
  <2>3. QED
    BY <1>1, <2>2 DEF Mon!At, o
<1>6. Mon!At(d, o[Len(d) + 1]).len = 0
  <2>1. \A j \in DOMAIN d : o[j] # o[Len(d) + 1]
    BY <1>1, <1>4
  <2>2. QED
    BY <2>1 DEF Mon!At, o
<1>7. QED
  BY <1>5, <1>6 DEF o

-----------------------------------------------------------------------------
(* netmon.                                                                 *)

BufParts == BufLen * Frac
Held == IF Mon!End(sent) < BufParts THEN Mon!End(sent) ELSE BufParts

\* The program is about to look at the k-th message, or behind the last one; all
\* before it came whole and were reported.
Parsed(k) ==
  /\ k \in 1 .. Len(sent) + 1
  /\ h = Mon!Offset(sent)[k] /\ h <= BufParts /\ status = Held - h
  /\ logged = [j \in 1 .. k - 1 |-> Mon!Report(sent[j].type)]
  /\ \A j \in 1 .. k - 1 : Mon!Whole(j)

MonInv ==
  /\ mon_pc \in {"recvmsg", "parse", "sleep"}
  /\ sent \in Datagrams \cup {<<>>} /\ status \in Int /\ h \in Nat
  /\ logged \in Seq({Mon!Report(sent[j].type) : j \in DOMAIN sent}) /\ Len(logged) <= Len(sent)
  /\ mon_pc = "parse" => \E k \in 1 .. Len(sent) + 1 : Parsed(k)
  /\ mon_pc = "sleep" =>
       logged = [j \in {k \in DOMAIN sent : Mon!Whole(k)} |-> Mon!Report(sent[j].type)]

LEMMA MonFacts ==
  ASSUME Mon!NetMonAssumption, sent \in Datagrams \cup {<<>>}
  PROVE  /\ BufParts \in Nat /\ Hdr * Frac \in Nat /\ Hdr * Frac > 0 /\ BufParts = BufLen * Frac
         /\ Mon!End(sent) = Mon!Offset(sent)[Len(sent) + 1] /\ Mon!End(sent) \in Nat /\ Held \in Nat
         /\ \A j \in 1 .. Len(sent) : Mon!Whole(j) <=> Mon!Offset(sent)[j] + sent[j].len <= BufParts
<1>1. BufParts \in Nat /\ Hdr * Frac \in Nat /\ Hdr * Frac > 0
  BY SMTT(30) DEF Mon!NetMonAssumption, BufParts
<1>2. Mon!End(sent) \in Nat
  BY OffsetIs DEF Mon!End
<1>3. QED
  BY <1>1, <1>2 DEF Held, BufParts, Mon!End, Mon!Whole

LEMMA MonInit == ASSUME Mon!NetMonAssumption, Mon!Init PROVE MonInv
BY DEF Mon!Init, MonInv

LEMMA MonRecv == ASSUME Mon!NetMonAssumption, MonInv, Mon!RecvMsg PROVE MonInv'
<1>1. sent' \in Datagrams /\ h' = 0 /\ logged' = <<>> /\ mon_pc' = "parse"
      /\ status' = IF Mon!End(sent') < BufParts THEN Mon!End(sent') ELSE BufParts
  BY DEF Mon!RecvMsg, BufParts
<1>2. /\ Len(sent') \in Nat /\ Mon!Offset(sent')[1] = 0 /\ Mon!End(sent') \in Nat /\ BufParts \in Nat
  <2>1. /\ Len(sent') \in Nat /\ Mon!Offset(sent') \in [1 .. Len(sent') + 1 -> Nat] /\ Mon!Offset(sent')[1] = 0
    BY <1>1, OffsetIs
  <2>2. BufParts \in Nat
    BY SMTT(30) DEF Mon!NetMonAssumption, BufParts
  <2>3. QED
    BY <2>1, <2>2 DEF Mon!End
<1>3. Held' = IF Mon!End(sent') < BufParts THEN Mon!End(sent') ELSE BufParts
  BY DEF Held, BufParts
<1>4. Parsed(1)'
  <2>1. logged' = [j \in 1 .. 0 |-> Mon!Report(sent'[j].type)]
    BY <1>1
  <2>2. 1 \in 1 .. Len(sent') + 1 /\ h' = Mon!Offset(sent')[1] /\ h' <= BufParts /\ status' = Held' - h'
    BY <1>1, <1>2, <1>3
  <2>3. \A j \in 1 .. 1 - 1 : FALSE
    OBVIOUS
  <2>4. BufParts' = BufParts /\ 1 - 1 = 0
    BY DEF BufParts
  <2>5. QED
    BY <2>1, <2>2, <2>3, <2>4 DEF Parsed
<1>5. 1 \in 1 .. Len(sent') + 1
  BY <1>2
<1>6. status' \in Int /\ h' \in Nat /\ Len(logged') <= Len(sent')
      /\ logged' \in Seq({Mon!Report(sent'[j].type) : j \in DOMAIN sent'})
  BY <1>1, <1>2
<1>7. QED
  BY <1>1, <1>4, <1>5, <1>6 DEF MonInv

LEMMA MonParse ==
  ASSUME Mon!NetMonAssumption, MonInv, Mon!ParseMessage
  PROVE  MonInv'
<1>1. /\ mon_pc = "parse" /\ mon_pc' = "parse" /\ sent' = sent /\ status >= Hdr * Frac /\ ~ Mon!BadLength
      /\ logged' = Append(logged, Mon!Report(Mon!At(sent, h).type))
      /\ status' = status - Mon!NLMSG_ALIGN(Mon!At(sent, h).len)
      /\ h' = h + Mon!NLMSG_ALIGN(Mon!At(sent, h).len)
  BY DEF Mon!ParseMessage, Mon!Advance
<1>2. sent \in Datagrams \cup {<<>>} /\ status \in Int /\ h \in Nat
  BY DEF MonInv
<1>3. PICK k \in 1 .. Len(sent) + 1 : Parsed(k)
  BY <1>1 DEF MonInv
<1>4. /\ k \in 1 .. Len(sent) + 1 /\ h = Mon!Offset(sent)[k] /\ h <= BufParts /\ status = Held - h
      /\ logged = [j \in 1 .. k - 1 |-> Mon!Report(sent[j].type)]
      /\ \A j \in 1 .. k - 1 : Mon!Whole(j)
  BY <1>3 DEF Parsed
<1>5. /\ Len(sent) \in Nat /\ DOMAIN sent = 1 .. Len(sent)
      /\ \A i \in 1 .. Len(sent) : sent[i].len \in Nat /\ sent[i].len >= Hdr * Frac
      /\ Mon!Offset(sent) \in [1 .. Len(sent) + 1 -> Nat]
      /\ \A i \in 1 .. Len(sent) : Mon!Offset(sent)[i + 1] = Mon!Offset(sent)[i] + Mon!NLMSG_ALIGN(sent[i].len)
  BY <1>2, OffsetIs
<1>6. k # Len(sent) + 1
  <2> SUFFICES ASSUME k = Len(sent) + 1 PROVE FALSE
    OBVIOUS
  <2>1. h = Mon!End(sent)
    BY <1>2, <1>4, MonFacts
  <2>2. Held <= h
    BY <1>2, <2>1, MonFacts DEF Held
  <2>3. QED
    BY <1>1, <1>2, <1>4, <2>2, MonFacts
<1>7. k \in 1 .. Len(sent) /\ k + 1 \in 1 .. Len(sent) + 1
  BY <1>4, <1>5, <1>6
<1>8. Mon!At(sent, h) = sent[k]
  BY <1>2, <1>4, <1>7, AtIs
<1> DEFINE a == Mon!NLMSG_ALIGN(sent[k].len)
<1>9. /\ sent[k].len \in Nat /\ sent[k].len <= status /\ a \in Nat
      /\ Mon!Offset(sent)[k + 1] = h + a /\ h' = h + a /\ status' = status - a
  <2>1. sent[k].len \in Nat /\ sent[k].len <= status
    BY <1>1, <1>2, <1>5, <1>7, <1>8 DEF Mon!BadLength
  <2>2. a \in Nat
    BY <2>1, AlignFacts
  <2>3. QED
    BY <1>1, <1>4, <1>5, <1>7, <1>8, <2>1, <2>2
<1> DEFINE l == sent[k].len
<1> HIDE DEF a, l
<1>10. /\ Held <= BufParts /\ Held \in Nat /\ BufParts \in Nat
       /\ h \in Nat /\ h <= BufParts /\ status = Held - h
       /\ l \in Nat /\ l <= status /\ a \in Nat
  <2>1. Held <= BufParts /\ Held \in Nat /\ BufParts \in Nat
    BY <1>2, MonFacts DEF Held
  <2>2. QED
    BY <1>2, <1>4, <1>9, <2>1 DEF l
<1>11. Mon!Whole(k)
  <2>1. Mon!Whole(k) <=> h + l <= BufParts
    BY <1>2, <1>4, <1>7, MonFacts DEF l
  <2>2. h + l <= BufParts
    BY <1>10
  <2>3. QED
    BY <2>1, <2>2
<1>12. h + a <= BufParts
  <2>1. PICK p \in Nat : h = p * Frac
    BY <1>2, <1>4, OffsetsGrow
  <2>2. BufLen \in Nat /\ Frac \in Nat /\ Frac > 0 /\ BufParts = BufLen * Frac
    BY DEF Mon!NetMonAssumption, BufParts
  <2>3. l <= BufParts - h
    BY <1>10
  <2>4. CASE p <= BufLen
    <3>1. BufLen - p \in Nat /\ (BufLen - p) * Frac = BufParts - h
      BY <2>1, <2>2, <2>4
    <3>2. (BufLen - p) * Frac >= a
      BY <1>10, <2>3, <3>1, AlignFacts DEF a, l
    <3>3. BufParts - h >= a
      BY <3>1, <3>2
    <3>4. QED
      BY <1>10, <3>3
  <2>5. CASE p > BufLen
    <3>1. (p - BufLen) * Frac > 0 /\ p - BufLen \in Nat
      BY <2>2, <2>5, SMTT(30)
    <3>2. (p - BufLen) * Frac = h - BufParts
      BY <2>1, <2>2, <2>5
    <3>3. QED
      BY <1>10, <3>1, <3>2
  <2>6. QED
    BY <2>1, <2>2, <2>4, <2>5
<1>13. Parsed(k + 1)'
  <2>1. logged' = [j \in 1 .. k |-> Mon!Report(sent[j].type)]
    <3>1. logged \in Seq({Mon!Report(sent[j].type) : j \in DOMAIN sent}) /\ Len(logged) = k - 1
      BY <1>4, <1>5, <1>7 DEF MonInv
    <3>2. logged' = [j \in 1 .. k |-> IF j = k THEN Mon!Report(sent[k].type) ELSE logged[j]]
      BY <1>1, <1>7, <1>8, <3>1
    <3>3. QED
      BY <1>4, <1>7, <3>2
  <2>2. \A j \in 1 .. k : Mon!Whole(j)
    BY <1>4, <1>7, <1>11
  <2>3. status' = Held - h' /\ h' = Mon!Offset(sent)[k + 1] /\ h' <= BufParts
    <3>1. h' = h + a /\ status' = status - a /\ Mon!Offset(sent)[k + 1] = h + a
      BY <1>9
    <3>2. Held - h - a = Held - (h + a)
      BY <1>10
    <3>3. QED
      BY <1>10, <1>12, <3>1, <3>2
  <2>4. (k + 1) - 1 = k /\ Held' = Held /\ BufParts' = BufParts /\ \A j \in 1 .. k : Mon!Whole(j)' <=> Mon!Whole(j)
    BY <1>1, <1>7 DEF Held, BufParts, Mon!Whole
  <2>5. QED
    BY <1>1, <1>7, <2>1, <2>2, <2>3, <2>4 DEF Parsed
<1>14. /\ logged' \in Seq({Mon!Report(sent[j].type) : j \in DOMAIN sent}) /\ Len(logged') <= Len(sent)
  <2>1. Mon!Report(sent[k].type) \in {Mon!Report(sent[j].type) : j \in DOMAIN sent}
    BY <1>5, <1>7
  <2>2. logged \in Seq({Mon!Report(sent[j].type) : j \in DOMAIN sent}) /\ Len(logged) = k - 1
    BY <1>4, <1>5, <1>7 DEF MonInv
  <2>3. QED
    BY <1>1, <1>5, <1>7, <1>8, <2>1, <2>2
<1>15. status' \in Int /\ h' \in Nat
  BY <1>2, <1>9
<1>16. QED
  BY <1>1, <1>2, <1>7, <1>13, <1>14, <1>15 DEF MonInv

\* The program stops parsing just where a message did not come whole.
LEMMA MonEnd ==
  ASSUME Mon!NetMonAssumption, MonInv, mon_pc = "parse", status < Hdr * Frac
  PROVE  logged = [j \in {k \in DOMAIN sent : Mon!Whole(k)} |-> Mon!Report(sent[j].type)]
<1>1. sent \in Datagrams \cup {<<>>} /\ status \in Int /\ h \in Nat
  BY DEF MonInv
<1>2. PICK k \in 1 .. Len(sent) + 1 : Parsed(k)
  BY DEF MonInv
<1>3. /\ h = Mon!Offset(sent)[k] /\ h <= BufParts /\ status = Held - h
      /\ logged = [j \in 1 .. k - 1 |-> Mon!Report(sent[j].type)]
      /\ \A j \in 1 .. k - 1 : Mon!Whole(j)
  BY <1>2 DEF Parsed
<1>4. /\ Len(sent) \in Nat /\ DOMAIN sent = 1 .. Len(sent)
      /\ \A i \in 1 .. Len(sent) : sent[i].len \in Nat /\ sent[i].len >= Hdr * Frac
      /\ Mon!Offset(sent) \in [1 .. Len(sent) + 1 -> Nat]
  BY <1>1, OffsetIs
<1>5. \A i, j \in 1 .. Len(sent) + 1 : i < j => Mon!Offset(sent)[i] + sent[i].len <= Mon!Offset(sent)[j]
  BY <1>1, OffsetsGrow
<1>6. ASSUME NEW j \in 1 .. Len(sent), j >= k PROVE ~ Mon!Whole(j)
  <2> DEFINE l == sent[k].len
             end == Mon!End(sent)
             ends == Mon!Offset(sent)[j] + sent[j].len
             least == Hdr * Frac
  <2>1. k \in 1 .. Len(sent) /\ k \in 1 .. Len(sent) + 1 /\ Len(sent) + 1 \in 1 .. Len(sent) + 1
        /\ k < Len(sent) + 1 /\ j \in 1 .. Len(sent) + 1
    BY <1>4, <1>6
  <2>2. h + l <= end /\ l \in Nat /\ l >= least /\ h \in Nat
    BY <1>1, <1>3, <1>4, <1>5, <2>1, MonFacts
  <2>3. end \in Nat /\ BufParts \in Nat /\ least \in Nat /\ status < least /\ status = Held - h
    BY <1>1, <1>3, MonFacts
  <2>4. (j = k => ends = h + l) /\ (k < j => h + l <= Mon!Offset(sent)[j])
        /\ Mon!Offset(sent)[j] \in Nat /\ sent[j].len \in Nat
    BY <1>3, <1>4, <1>5, <2>1
  <2>5. h + l <= Mon!Offset(sent)[j] => h + l <= ends
    <3> DEFINE x == Mon!Offset(sent)[j]
               y == sent[j].len
    <3>1. x \in Nat /\ y \in Nat /\ ends = x + y
      BY <2>4
    <3> HIDE DEF x, y, ends, l
    <3>2. h + l <= x => h + l <= ends
      BY <2>2, <3>1
    <3>3. QED
      BY <3>2 DEF x
  <2>6. Mon!Whole(j) <=> ends <= BufParts
    BY <1>1, MonFacts
  <2>7. ends \in Nat
    BY <2>4
  <2> HIDE DEF l, end, ends, least
  <2>8. h + l <= ends
    BY <1>6, <2>1, <2>2, <2>4, <2>5, <2>7
  <2>9. Held < h + l
    BY <2>2, <2>3 DEF Held, end
  <2>10. BufParts < h + l
    BY <2>2, <2>3, <2>9 DEF Held, end
  <2>11. ~ (ends <= BufParts)
    BY <2>2, <2>3, <2>7, <2>8, <2>10
  <2>12. QED
    BY <2>6, <2>11
<1>7. {j \in DOMAIN sent : Mon!Whole(j)} = 1 .. k - 1
  BY <1>2, <1>3, <1>4, <1>6
<1>8. QED
  BY <1>3, <1>7

LEMMA MonStep == ASSUME Mon!NetMonAssumption, MonInv, Mon!Next PROVE MonInv'
<1>1. CASE Mon!RecvMsg
  BY <1>1, MonRecv
<1>2. CASE Mon!ParseMessage
  BY <1>2, MonParse
<1>3. CASE Mon!EndOfDatagram
  <2>1. mon_pc = "parse" /\ status < Hdr * Frac /\ mon_pc' = "sleep" /\ UNCHANGED <<sent, status, h, logged>>
    BY <1>3 DEF Mon!EndOfDatagram
  <2>2. logged = [j \in {k \in DOMAIN sent : Mon!Whole(k)} |-> Mon!Report(sent[j].type)]
    BY <2>1, MonEnd
  <2>3. QED
    BY <2>1, <2>2 DEF MonInv, Mon!Whole
<1>4. CASE Mon!Wake
  BY <1>4 DEF Mon!Wake, MonInv
<1>5. QED
  BY <1>1, <1>2, <1>3, <1>4 DEF Mon!Next

LEMMA MonReports == ASSUME Mon!NetMonAssumption, MonInv PROVE EachMessageOnce
<1>1. mon_pc = "sleep" => logged = [i \in {j \in DOMAIN sent : Mon!Whole(j)} |-> Mon!Report(sent[i].type)]
  BY DEF MonInv
<1>2. ASSUME mon_pc = "parse", status >= Hdr * Frac, Mon!BadLength PROVE Mon!End(sent) > BufLen * Frac
  <2>1. sent \in Datagrams \cup {<<>>} /\ status \in Int /\ h \in Nat
    BY DEF MonInv
  <2>2. PICK k \in 1 .. Len(sent) + 1 : Parsed(k)
    BY <1>2 DEF MonInv
  <2>3. h = Mon!Offset(sent)[k] /\ h <= BufParts /\ status = Held - h
    BY <2>2 DEF Parsed
  <2>4. /\ Len(sent) \in Nat
        /\ \A i \in 1 .. Len(sent) : sent[i].len \in Nat /\ sent[i].len >= Hdr * Frac
        /\ Mon!Offset(sent) \in [1 .. Len(sent) + 1 -> Nat]
    BY <2>1, OffsetIs
  <2> SUFFICES ASSUME Mon!End(sent) <= BufParts PROVE FALSE
    BY <2>1, MonFacts
  <2>5. Held = Mon!End(sent)
    BY <2>1, MonFacts DEF Held
  <2>6. k # Len(sent) + 1
    BY <1>2, <2>1, <2>3, <2>5, MonFacts
  <2>7. k \in 1 .. Len(sent) /\ k < Len(sent) + 1 /\ Len(sent) + 1 \in 1 .. Len(sent) + 1
    BY <2>4, <2>6
  <2>8. Mon!At(sent, h) = sent[k] /\ h + sent[k].len <= Mon!End(sent)
    BY <2>1, <2>3, <2>7, AtIs, OffsetsGrow, MonFacts
  <2>9. sent[k].len \in Nat /\ sent[k].len >= Hdr * Frac /\ sent[k].len > status
    BY <1>2, <2>1, <2>4, <2>7, <2>8, MonFacts DEF Mon!BadLength
  <2>10. QED
    BY <2>1, <2>3, <2>5, <2>8, <2>9, MonFacts
<1>3. QED
  BY <1>1, <1>2 DEF EachMessageOnce, Mon!EachMessageOnce

LEMMA ForMon == ModulesAssumption => Mon!NetMonAssumption
BY DEF ModulesAssumption

LEMMA MonAlways == MCSpec => []MonInv
<1>1. MCInit => MonInv
  BY ModulesAssumption, ForMon, MonInit DEF MCInit
<1>2. MonInv /\ [MCNext]_MCVars => MonInv'
  <2> SUFFICES ASSUME MonInv, [MCNext]_MCVars PROVE MonInv'
    OBVIOUS
  <2>1. CASE OnNetmon
    BY <2>1, ModulesAssumption, ForMon, MonStep DEF OnNetmon
  <2>2. CASE UNCHANGED monVars
    BY <2>2 DEF monVars, MonInv, Parsed, Held, BufParts, Mon!Whole
  <2>3. QED
    BY <2>1, <2>2 DEF MCNext, MCVars, OnMaple, OnGenl, OnNetlink, OnRoute, OnPci, OnMyCharDev, OnRbTree
<1>3. QED
  BY <1>1, <1>2, PTL DEF MCSpec

\* Whatever the kernel sends and however long the buffer is, netmon reports each
\* message that came whole once, in order and as what it is, and is stuck only
\* in a datagram that the buffer was too short for (netmon.c:82-154).
THEOREM EachReportedOnce == MCSpec => []EachMessageOnce
<1>1. MonInv => EachMessageOnce
  BY ModulesAssumption, ForMon, MonReports
<1>2. QED
  BY <1>1, MonAlways, PTL

-----------------------------------------------------------------------------
(* set_route.                                                              *)

\* How many "dev" stand right before a word.
Devs0(i) == {k \in 0 .. i - 1 : \A j \in i - k .. i - 1 : args[j] = "dev"}

LEMMA MaxIs ==
  ASSUME NEW b \in Nat, NEW X, X \subseteq 0 .. b, X # {}
  PROVE  Route!Max(X) \in X /\ \A k \in X : k <= Route!Max(X)
<1>1. PICK n \in X : \A k \in X : n >= k
  BY GreatestOf
<1>2. QED
  BY <1>1 DEF Route!Max

LEMMA MaxUnique ==
  ASSUME NEW X, X \subseteq Nat, NEW n \in X, \A k \in X : k <= n
  PROVE  Route!Max(X) = n
<1>1. Route!Max(X) \in X /\ \A k \in X : Route!Max(X) >= k
  BY DEF Route!Max
<1>2. Route!Max(X) <= n /\ Route!Max(X) >= n /\ Route!Max(X) \in Nat /\ n \in Nat
  BY <1>1
<1>3. QED
  BY <1>2

\* A word behind another one than "dev" is no device's name, and one behind "dev"
\* is a name just if that "dev" is not.
LEMMA Names ==
  ASSUME NEW i \in Nat \ {0}
  PROVE  /\ ~ Route!DeviceName(1)
         /\ args[i] # "dev" => ~ Route!DeviceName(i + 1)
         /\ args[i] = "dev" => (Route!DeviceName(i + 1) <=> ~ Route!DeviceName(i))
<1>1. \A m \in Nat \ {0} : Route!DeviceName(m) <=> Route!Max(Devs0(m)) % 2 = 1
  BY DEF Route!DeviceName, Devs0
<1>2. \A m \in Nat \ {0} : 0 \in Devs0(m) /\ Devs0(m) \subseteq 0 .. m - 1
  BY DEF Devs0
<1>3. ~ Route!DeviceName(1)
  <2>1. Devs0(1) \subseteq Nat /\ 0 \in Devs0(1) /\ \A k \in Devs0(1) : k <= 0
    BY <1>2
  <2>2. Route!Max(Devs0(1)) = 0
    BY <2>1, MaxUnique
  <2>3. QED
    BY <1>1, <2>2
<1>4. ASSUME args[i] # "dev" PROVE ~ Route!DeviceName(i + 1)
  <2>1. \A k \in Devs0(i + 1) : k <= 0
    <3> SUFFICES ASSUME NEW k \in Devs0(i + 1), k > 0 PROVE FALSE
      BY <1>2
    <3>1. k \in 0 .. i /\ i \in (i + 1) - k .. (i + 1) - 1
      BY DEF Devs0
    <3>2. QED
      BY <1>4, <3>1 DEF Devs0
  <2>2. Devs0(i + 1) \subseteq Nat /\ 0 \in Devs0(i + 1)
    BY <1>2
  <2>3. Route!Max(Devs0(i + 1)) = 0
    BY <2>1, <2>2, MaxUnique
  <2>4. QED
    BY <1>1, <2>3
<1>5. ASSUME args[i] = "dev" PROVE Route!DeviceName(i + 1) <=> ~ Route!DeviceName(i)
  <2> DEFINE m == Route!Max(Devs0(i))
  <2>1. m \in Devs0(i) /\ \A k \in Devs0(i) : k <= m
    <3>1. Devs0(i) \subseteq 0 .. i - 1 /\ Devs0(i) # {} /\ i - 1 \in Nat
      BY <1>2
    <3>2. QED
      BY <3>1, MaxIs
  <2> HIDE DEF m
  <2>2. m \in 0 .. i - 1 /\ \A j \in i - m .. i - 1 : args[j] = "dev"
    BY <2>1 DEF Devs0
  <2>3. m + 1 \in Devs0(i + 1)
    <3>1. \A j \in (i + 1) - (m + 1) .. (i + 1) - 1 : j = i \/ j \in i - m .. i - 1
      BY <2>2
    <3>2. QED
      BY <1>5, <2>2, <3>1 DEF Devs0
  <2>4. ASSUME NEW k \in Devs0(i + 1) PROVE k <= m + 1
    <3>1. k \in 0 .. i /\ \A j \in (i + 1) - k .. (i + 1) - 1 : args[j] = "dev"
      BY DEF Devs0
    <3>2. CASE k > 0
      <4>1. k - 1 \in 0 .. i - 1 /\ \A j \in i - (k - 1) .. i - 1 : j \in (i + 1) - k .. (i + 1) - 1
        BY <3>1, <3>2
      <4>2. k - 1 \in Devs0(i)
        BY <3>1, <4>1 DEF Devs0
      <4>3. QED
        BY <2>1, <2>2, <3>1, <4>2
    <3>3. QED
      BY <2>2, <3>1, <3>2
  <2>5. Devs0(i + 1) \subseteq Nat
    BY <1>2
  <2>6. Route!Max(Devs0(i + 1)) = m + 1
    BY <2>3, <2>4, <2>5, MaxUnique
  <2>7. (m + 1) % 2 = 1 <=> ~ (m % 2 = 1)
    BY <2>2
  <2>8. Route!DeviceName(i + 1) <=> (m + 1) % 2 = 1
    BY <1>1, <2>6
  <2>9. Route!DeviceName(i) <=> m % 2 = 1
    BY <1>1 DEF m
  <2>10. QED
    BY <2>7, <2>8, <2>9
<1>6. QED
  BY <1>3, <1>4, <1>5

\* The last of some keywords that the parser has passed, or that it passed none.
LastRead(words, i) ==
  i \in Route!Keywords(words) /\ i < argv /\ \A j \in Route!Keywords(words) : j < argv => j <= i
NoneRead(words) == \A j \in Route!Keywords(words) : ~ (j < argv)

GatewayAt(i) == i + (IF args[i + 1] = "default" THEN 2 ELSE 1)

\* What the parser has kept of the line up to where it is, at the start of an option.
ReadSoFar ==
  /\ ~ Route!DeviceName(argv)
  /\ \/ NoneRead({"add", "del"}) /\ nl_cmd = "unset"
     \/ \E i \in DOMAIN args : LastRead({"add", "del"}, i) /\ nl_cmd = args[i] /\ nl_cmd \in {"add", "del"}
  /\ \/ NoneRead({"to"}) /\ to_addr = "none"
     \/ \E i \in DOMAIN args : LastRead({"to"}, i) /\ to_addr = args[i + 1] /\ to_addr \in Route!Families
  /\ \/ NoneRead({"via"}) /\ gw_addr = "none"
     \/ \E i \in DOMAIN args : LastRead({"via"}, i) /\ gw_addr = args[GatewayAt(i)] /\ gw_addr \in Route!Families

RouteInv ==
  /\ Route!TypeOK
  /\ route_pc = "start" => argv = 1 /\ nl_cmd = "unset" /\ to_addr = "none" /\ gw_addr = "none"
  /\ route_pc \in {"parse", "sent", "crashed"} => ReadSoFar
  /\ route_pc \in {"sent", "crashed"} => argv = Len(args) + 1
  /\ route_pc = "sent" =>
       /\ request.attributes = Route!Attributes
       /\ nl_cmd # "unset" => request.cmd = nl_cmd
  /\ route_pc = "crashed" => "inet6" \in Route!Copied

LEMMA RouteSays == ASSUME RouteInv PROVE RequestIsTheLine
<1> SUFFICES ASSUME route_pc \in {"sent", "crashed"} PROVE Route!RequestIsTheLine
  BY DEF RequestIsTheLine, Route!RequestIsTheLine
<1>1. /\ ReadSoFar /\ argv = Len(args) + 1
      /\ Len(args) \in Nat /\ DOMAIN args = 1 .. Len(args)
  BY DEF RouteInv, Route!TypeOK
<1>2. \A words : Route!Keywords(words) \subseteq 1 .. Len(args)
  BY <1>1 DEF Route!Keywords
<1>3. \A words : NoneRead(words) => Route!Keywords(words) = {}
  BY <1>1, <1>2 DEF NoneRead
<1>4. ASSUME NEW words, NEW i, LastRead(words, i)
      PROVE i \in Route!Keywords(words) /\ Route!Max(Route!Keywords(words)) = i
  <2>1. i \in Route!Keywords(words) /\ \A j \in Route!Keywords(words) : j <= i
    BY <1>1, <1>2, <1>4 DEF LastRead
  <2>2. Route!Keywords(words) \subseteq Nat
    BY <1>2
  <2>3. QED
    BY <2>1, <2>2, MaxUnique
<1>5. Route!Keywords({"add", "del"}) # {} =>
        nl_cmd = args[Route!Max(Route!Keywords({"add", "del"}))] /\ nl_cmd \in {"add", "del"}
  BY <1>1, <1>3, <1>4 DEF ReadSoFar
<1>6. IF Route!Keywords({"to"}) = {} THEN to_addr = "none"
      ELSE to_addr = args[Route!Max(Route!Keywords({"to"})) + 1]
  BY <1>1, <1>3, <1>4 DEF ReadSoFar
<1>7. IF Route!Keywords({"via"}) = {} THEN gw_addr = "none"
      ELSE gw_addr = args[GatewayAt(Route!Max(Route!Keywords({"via"})))] /\ gw_addr # "none"
  BY <1>1, <1>3, <1>4 DEF ReadSoFar, Route!Families
<1>8. CASE route_pc = "sent"
  <2>1. request.attributes = Route!Attributes /\ (nl_cmd # "unset" => request.cmd = nl_cmd)
    BY <1>8 DEF RouteInv
  <2>2. QED
    BY <1>5, <1>6, <1>7, <1>8, <2>1 DEF Route!RequestIsTheLine, Route!Attributes, GatewayAt
<1>9. CASE route_pc = "crashed"
  <2>1. gw_addr = "inet6" \/ (~ default_gw /\ to_addr = "inet6")
    BY <1>9 DEF RouteInv, Route!Copied
  <2>2. QED
    BY <1>6, <1>7, <1>9, <2>1 DEF Route!RequestIsTheLine, GatewayAt
<1>10. QED
  BY <1>8, <1>9

\* When the parser skips words that are no keywords.
LEMMA Skipping ==
  ASSUME RouteInv, route_pc = "parse", argv <= Len(args), ReadSoFar, args' = args,
         NEW n \in Nat, argv' = argv + n, n > 0, argv + n <= Len(args) + 1,
         \A j \in argv + 1 .. argv + n - 1 : args[j] \notin {"add", "del", "to", "via"} \/ Route!DeviceName(j)
  PROVE  \A words \in {{"add", "del"}, {"to"}, {"via"}} :
           /\ Route!Keywords(words)' = Route!Keywords(words)
           /\ \A i : i = argv /\ args[argv] \in words => LastRead(words, i)'
           /\ args[argv] \notin words => (NoneRead(words) => NoneRead(words)')
                                         /\ \A i : LastRead(words, i) => LastRead(words, i)'
<1> TAKE words \in {{"add", "del"}, {"to"}, {"via"}}
<1>1. Len(args) \in Nat /\ DOMAIN args = 1 .. Len(args) /\ argv \in 1 .. Len(args)
  BY DEF RouteInv, Route!TypeOK
<1>2. Route!Keywords(words)' = Route!Keywords(words)
  BY DEF Route!Keywords, Route!DeviceName
<1>3. \A j \in Route!Keywords(words) : j \in 1 .. Len(args) /\ args[j] \in words /\ ~ Route!DeviceName(j)
  BY <1>1 DEF Route!Keywords
<1>4. \A j \in Route!Keywords(words) : j < argv + n => j <= argv
  <2> SUFFICES ASSUME NEW j \in Route!Keywords(words), j < argv + n, j > argv PROVE FALSE
    BY <1>1, <1>3
  <2>1. j \in argv + 1 .. argv + n - 1
    BY <1>1, <1>3
  <2>2. QED
    BY <1>3, <2>1
<1>5. args[argv] \in words => argv \in Route!Keywords(words)
  BY <1>1 DEF Route!Keywords, ReadSoFar
<1>6. ASSUME args[argv] \notin words PROVE \A j \in Route!Keywords(words) : j < argv + n <=> j < argv
  <2>1. \A j \in Route!Keywords(words) : j # argv
    BY <1>3, <1>6
  <2>2. QED
    BY <1>1, <1>3, <1>4, <2>1
<1>7. \A i : i = argv /\ args[argv] \in words => LastRead(words, i)'
  BY <1>1, <1>2, <1>4, <1>5 DEF LastRead
<1>8. args[argv] \notin words => (NoneRead(words) => NoneRead(words)')
                                 /\ \A i : LastRead(words, i) => LastRead(words, i)'
  <2> SUFFICES ASSUME args[argv] \notin words
               PROVE (NoneRead(words) => NoneRead(words)') /\ \A i : LastRead(words, i) => LastRead(words, i)'
    OBVIOUS
  <2>1. \A j \in Route!Keywords(words) : j < argv' <=> j < argv
    BY <1>6
  <2>2. QED
    BY <1>2, <2>1 DEF NoneRead, LastRead
<1>9. QED
  BY <1>2, <1>7, <1>8

\* What an option that was read leaves behind.
LEMMA Reads ==
  ASSUME RouteInv, route_pc = "parse", argv <= Len(args), args' = args,
         NEW n \in Nat, argv' = argv + n, n > 0, argv + n <= Len(args) + 1,
         \A j \in argv + 1 .. argv + n - 1 : args[j] \notin {"add", "del", "to", "via"} \/ Route!DeviceName(j),
         ~ Route!DeviceName(argv + n),
         nl_cmd' = IF args[argv] \in {"add", "del"} THEN args[argv] ELSE nl_cmd,
         to_addr' = IF args[argv] = "to" THEN args[argv + 1] ELSE to_addr,
         gw_addr' = IF args[argv] = "via" THEN args[GatewayAt(argv)] ELSE gw_addr,
         args[argv] = "to" => to_addr' \in Route!Families,
         args[argv] = "via" => gw_addr' \in Route!Families
  PROVE  ReadSoFar'
<1>1. ReadSoFar /\ argv \in DOMAIN args /\ DOMAIN args = 1 .. Len(args)
  BY DEF RouteInv, Route!TypeOK
<1>2. \A words \in {{"add", "del"}, {"to"}, {"via"}} :
        /\ \A i : i = argv /\ args[argv] \in words => LastRead(words, i)'
        /\ args[argv] \notin words => (NoneRead(words) => NoneRead(words)')
                                      /\ \A i : LastRead(words, i) => LastRead(words, i)'
  BY <1>1, Skipping
<1>3. ~ Route!DeviceName(argv)'
  BY DEF Route!DeviceName
<1>4. (\/ NoneRead({"add", "del"}) /\ nl_cmd = "unset"
       \/ \E i \in DOMAIN args : LastRead({"add", "del"}, i) /\ nl_cmd = args[i] /\ nl_cmd \in {"add", "del"})'
  <2>1. CASE args[argv] \in {"add", "del"}
    <3>1. \A i : i = argv => LastRead({"add", "del"}, i)' /\ nl_cmd' = args'[i] /\ nl_cmd' \in {"add", "del"}
      BY <1>2, <2>1
    <3>2. QED
      BY <1>1, <3>1
  <2>2. CASE args[argv] \notin {"add", "del"}
    <3>1. /\ NoneRead({"add", "del"}) => NoneRead({"add", "del"})'
          /\ \A i : LastRead({"add", "del"}, i) => LastRead({"add", "del"}, i)'
      BY <1>2, <2>2
    <3>2. QED
      BY <1>1, <2>2, <3>1 DEF ReadSoFar
  <2>3. QED
    BY <2>1, <2>2
<1>5. (\/ NoneRead({"to"}) /\ to_addr = "none"
       \/ \E i \in DOMAIN args : LastRead({"to"}, i) /\ to_addr = args[i + 1] /\ to_addr \in Route!Families)'
  <2>1. CASE args[argv] = "to"
    <3>1. \A i : i = argv => LastRead({"to"}, i)' /\ to_addr' = args'[i + 1] /\ to_addr' \in Route!Families
      BY <1>2, <2>1
    <3>2. QED
      BY <1>1, <3>1 DEF Route!Families
  <2>2. CASE args[argv] # "to"
    <3>1. (NoneRead({"to"}) => NoneRead({"to"})') /\ \A i : LastRead({"to"}, i) => LastRead({"to"}, i)'
      BY <1>2, <2>2
    <3>2. QED
      BY <1>1, <2>2, <3>1 DEF ReadSoFar, Route!Families
  <2>3. QED
    BY <2>1, <2>2
<1>6. (\/ NoneRead({"via"}) /\ gw_addr = "none"
       \/ \E i \in DOMAIN args : LastRead({"via"}, i) /\ gw_addr = args[GatewayAt(i)] /\ gw_addr \in Route!Families)'
  <2>1. CASE args[argv] = "via"
    <3>1. \A i : i = argv => LastRead({"via"}, i)' /\ gw_addr' = args'[GatewayAt(i)'] /\ gw_addr' \in Route!Families
      BY <1>2, <2>1 DEF GatewayAt
    <3>2. QED
      BY <1>1, <3>1 DEF Route!Families, GatewayAt
  <2>2. CASE args[argv] # "via"
    <3>1. (NoneRead({"via"}) => NoneRead({"via"})') /\ \A i : LastRead({"via"}, i) => LastRead({"via"}, i)'
      BY <1>2, <2>2
    <3>2. QED
      BY <1>1, <2>2, <3>1 DEF ReadSoFar, Route!Families, GatewayAt
  <2>3. QED
    BY <2>1, <2>2
<1>7. QED
  BY <1>3, <1>4, <1>5, <1>6 DEF ReadSoFar

LEMMA RouteTypes ==
  ASSUME RouteInv
  PROVE  /\ args \in Seq(Route!Words) /\ Len(args) \in Nat /\ DOMAIN args = 1 .. Len(args)
         /\ \A i \in 1 .. Len(args) : args[i] \in Route!Words
         /\ argv \in 1 .. Len(args) + 1 /\ argv \in Nat
         /\ nl_cmd \in {"unset", "add", "del"} /\ to_addr \in Route!Families \cup {"none"}
         /\ gw_addr \in Route!Families \cup {"none"} /\ default_gw \in BOOLEAN /\ if_idx \in {0, 1}
         /\ route_pc \in {"start", "parse", "exit", "sent", "crashed"}
BY DEF RouteInv, Route!TypeOK

LEMMA RouteInit == ASSUME Route!Init PROVE RouteInv
<1>1. args = <<>> /\ argv = 1 /\ route_pc = "start"
  BY DEF Route!Init
<1>2. args \in Seq(Route!Words) /\ argv \in 1 .. Len(args) + 1
  BY <1>1
<1>3. Route!TypeOK
  BY <1>2 DEF Route!Init, Route!TypeOK
<1>4. QED
  BY <1>3 DEF Route!Init, RouteInv

LEMMA RouteMain == ASSUME Route!SetRouteAssumption, RouteInv, Route!Main PROVE RouteInv'
<1>1. /\ route_pc = "start" /\ route_pc' = "parse" /\ args' \in Route!Lines /\ argv' = argv
      /\ UNCHANGED <<nl_cmd, to_addr, gw_addr, default_gw, if_idx, request>>
  BY DEF Route!Main, Route!parsed
<1>2. PICK n \in 0 .. MaxArgs : args' \in [1 .. n -> Route!Words]
  BY <1>1 DEF Route!Lines
<1>3. args' \in Seq(Route!Words) /\ Len(args') = n /\ DOMAIN args' = 1 .. n /\ n \in Nat
  BY <1>2 DEF Route!SetRouteAssumption
<1>4. argv' = 1 /\ nl_cmd' = "unset" /\ to_addr' = "none" /\ gw_addr' = "none"
  BY <1>1 DEF RouteInv
<1>5. Route!TypeOK'
  BY <1>1, <1>3, <1>4, RouteTypes DEF Route!TypeOK, Route!Families
<1>6. ~ Route!DeviceName(1)'
  <2>1. Devs0(1)' = {0}
    BY DEF Devs0
  <2>2. Route!Max(Devs0(1)') = 0
    BY <2>1, MaxUnique
  <2>3. QED
    BY <2>2 DEF Devs0, Route!DeviceName, Route!Max
<1>7. ~ Route!DeviceName(argv)'
  BY <1>4, <1>6 DEF Route!DeviceName
<1>8. \A words : NoneRead(words)'
  BY <1>3, <1>4 DEF NoneRead, Route!Keywords
<1>9. ReadSoFar'
  BY <1>4, <1>7, <1>8 DEF ReadSoFar
<1>10. QED
  BY <1>1, <1>5, <1>9 DEF RouteInv

\* An option that was read, or a word that was passed over.
LEMMA RouteRead ==
  ASSUME RouteInv, route_pc = "parse", route_pc' = "parse", argv <= Len(args), args' = args,
         request' = request, NEW n \in Nat, argv' = argv + n, n > 0, argv + n <= Len(args) + 1,
         \A j \in argv + 1 .. argv + n - 1 : args[j] \notin {"add", "del", "to", "via"} \/ Route!DeviceName(j),
         ~ Route!DeviceName(argv + n),
         nl_cmd' = IF args[argv] \in {"add", "del"} THEN args[argv] ELSE nl_cmd,
         to_addr' = IF args[argv] = "to" THEN args[argv + 1] ELSE to_addr,
         gw_addr' = IF args[argv] = "via" THEN args[GatewayAt(argv)] ELSE gw_addr,
         args[argv] = "to" => to_addr' \in Route!Families,
         args[argv] = "via" => gw_addr' \in Route!Families,
         default_gw' \in BOOLEAN, if_idx' \in {0, 1}
  PROVE  RouteInv'
<1>1. ReadSoFar'
  BY Reads
<1>2. Route!TypeOK'
  <2>1. argv' \in 1 .. Len(args') + 1
    BY RouteTypes
  <2>2. nl_cmd' \in {"unset", "add", "del"}
    BY RouteTypes
  <2>3. to_addr' \in Route!Families \cup {"none"}
    BY RouteTypes
  <2>4. gw_addr' \in Route!Families \cup {"none"}
    BY RouteTypes
  <2>5. QED
    BY <2>1, <2>2, <2>3, <2>4, RouteTypes DEF Route!TypeOK, Route!Families, Route!Words
<1>3. QED
  BY <1>1, <1>2 DEF RouteInv

\* The program ends without a request.
LEMMA RouteExit == ASSUME RouteInv, Route!Exit PROVE RouteInv'
<1>1. route_pc' = "exit" /\ UNCHANGED <<args, argv, nl_cmd, to_addr, gw_addr, default_gw, if_idx>>
  BY DEF Route!Exit, Route!parsed
<1>2. Route!TypeOK'
  BY <1>1, RouteTypes DEF Route!TypeOK, Route!Families, Route!Words
<1>3. QED
  BY <1>1, <1>2 DEF RouteInv

LEMMA RouteStep == ASSUME Route!SetRouteAssumption, RouteInv, Route!Next PROVE RouteInv'
<1>1. CASE Route!Main
  BY <1>1, RouteMain
<1>a. Route!More => /\ route_pc = "parse" /\ argv <= Len(args) /\ argv \in 1 .. Len(args)
                    /\ ~ Route!DeviceName(argv) /\ argv \in Nat \ {0}
  BY RouteTypes DEF Route!More, RouteInv, ReadSoFar
<1>b. \A n \in Nat : Route!Skip(n) =>
        argv' = argv + n /\ args' = args /\ route_pc' = route_pc /\ request' = request
  BY DEF Route!Skip
<1>c. \A i \in Nat \ {0} : args[i] # "dev" => ~ Route!DeviceName(i + 1)
  BY Names
<1>2. CASE Route!ReadCommand
  <2>1. /\ Route!More /\ args[argv] \in {"add", "del"} /\ nl_cmd' = args[argv]
        /\ argv' = argv + 1 /\ args' = args /\ route_pc' = route_pc /\ request' = request
        /\ UNCHANGED <<to_addr, gw_addr, default_gw, if_idx>>
    BY <1>2, <1>b DEF Route!ReadCommand, Route!Word
  <2>2. ~ Route!DeviceName(argv + 1)
    BY <1>a, <1>c, <2>1
  <2>3. argv + 1 \in Nat /\ argv + 1 <= Len(args) + 1 /\ \A j \in argv + 1 .. argv + 1 - 1 : FALSE
    BY <1>a, <2>1, RouteTypes
  <2>4. default_gw' \in BOOLEAN /\ if_idx' \in {0, 1}
    BY <2>1, RouteTypes
  <2>5. QED
    BY <1>a, <2>1, <2>2, <2>3, <2>4, RouteRead
<1>3. CASE Route!ReadTo
  <2>1. Route!More /\ args[argv] = "to"
    BY <1>3 DEF Route!ReadTo, Route!Word
  <2>2. CASE Route!Has(1) /\ Route!Arg(1) \in Route!Families
    <3>1. /\ argv + 1 <= Len(args) /\ args[argv + 1] \in Route!Families /\ to_addr' = args[argv + 1]
          /\ argv' = argv + 2 /\ args' = args /\ route_pc' = route_pc /\ request' = request
          /\ UNCHANGED <<nl_cmd, gw_addr, default_gw, if_idx>>
      BY <1>3, <1>b, <2>2 DEF Route!ReadTo, Route!Has, Route!Arg
    <3>2. \A j \in argv + 1 .. argv + 2 - 1 : j = argv + 1
      BY <1>a, <2>1
    <3>3. args[argv + 1] \notin {"add", "del", "to", "via", "dev"}
      BY <3>1 DEF Route!Families
    <3>4. ~ Route!DeviceName(argv + 2)
      <4>1. argv + 1 \in Nat \ {0} /\ (argv + 1) + 1 = argv + 2
        BY <1>a, <2>1
      <4>2. QED
        BY <1>c, <3>3, <4>1
    <3>5. argv + 2 <= Len(args) + 1
      BY <1>a, <2>1, <3>1, RouteTypes
    <3>6. default_gw' \in BOOLEAN /\ if_idx' \in {0, 1}
      BY <3>1, RouteTypes
    <3>7. QED
      BY <1>a, <2>1, <3>1, <3>2, <3>3, <3>4, <3>5, <3>6, RouteRead
  <2>3. CASE ~ (Route!Has(1) /\ Route!Arg(1) \in Route!Families)
    BY <1>3, <2>3, RouteExit DEF Route!ReadTo
  <2>4. QED
    BY <2>2, <2>3
<1>4. CASE Route!ReadDev
  <2>1. Route!More /\ args[argv] = "dev"
    BY <1>4 DEF Route!ReadDev, Route!Word
  <2>2. CASE Route!Has(1)
    <3>1. /\ argv + 1 <= Len(args) /\ if_idx' \in {0, 1}
          /\ argv' = argv + 2 /\ args' = args /\ route_pc' = route_pc /\ request' = request
          /\ UNCHANGED <<nl_cmd, to_addr, gw_addr, default_gw>>
      BY <1>4, <1>b, <2>2 DEF Route!ReadDev, Route!Has
    <3>2. Route!DeviceName(argv + 1)
      BY <1>a, <2>1, Names
    <3>3. \A j \in argv + 1 .. argv + 2 - 1 : Route!DeviceName(j)
      <4>1. \A j \in argv + 1 .. argv + 2 - 1 : j = argv + 1
        BY <1>a, <2>1
      <4>2. QED
        BY <3>2, <4>1
    <3>4. ~ Route!DeviceName(argv + 2)
      <4>1. argv + 1 \in Nat \ {0} /\ (argv + 1) + 1 = argv + 2
        BY <1>a, <2>1
      <4>2. QED
        BY <3>2, <4>1, Names
    <3>5. argv + 2 <= Len(args) + 1
      BY <1>a, <2>1, <3>1, RouteTypes
    <3>6. default_gw' \in BOOLEAN
      BY <3>1, RouteTypes
    <3>7. QED
      BY <1>a, <2>1, <3>1, <3>3, <3>4, <3>5, <3>6, RouteRead
  <2>3. CASE ~ Route!Has(1)
    BY <1>4, <2>3, RouteExit DEF Route!ReadDev
  <2>4. QED
    BY <2>2, <2>3
<1>5. CASE Route!ReadVia
  <2> DEFINE k == IF Route!Has(1) /\ Route!Arg(1) = "default" THEN 2 ELSE 1
  <2>1. Route!More /\ args[argv] = "via"
    BY <1>5 DEF Route!ReadVia, Route!Word
  <2>2. CASE Route!Has(k) /\ Route!Arg(k) \in Route!Families
    <3>1. k \in {1, 2} /\ argv + k <= Len(args) /\ args[argv + k] \in Route!Families
      BY <2>2 DEF Route!Has, Route!Arg
    <3>2. /\ default_gw' = (default_gw \/ k = 2) /\ gw_addr' = args[argv + k]
          /\ argv' = argv + (k + 1) /\ args' = args /\ route_pc' = route_pc /\ request' = request
          /\ UNCHANGED <<nl_cmd, to_addr, if_idx>>
      BY <1>5, <1>b, <2>2 DEF Route!ReadVia, Route!Arg
    <3>3. k = IF args[argv + 1] = "default" THEN 2 ELSE 1
      BY <1>a, <2>1, <3>1, RouteTypes DEF Route!Has, Route!Arg
    <3> HIDE DEF k
    <3>4. argv + k = GatewayAt(argv)
      BY <3>3 DEF GatewayAt
    <3>5. args[argv + k] \notin {"add", "del", "to", "via", "dev", "default"}
      BY <3>1 DEF Route!Families
    <3>6. \A j \in argv + 1 .. argv + (k + 1) - 1 : args[j] \notin {"add", "del", "to", "via"}
      <4>1. \A j \in argv + 1 .. argv + (k + 1) - 1 : j = argv + k \/ (k = 2 /\ j = argv + 1)
        BY <1>a, <2>1, <3>1
      <4>2. k = 2 => args[argv + 1] = "default"
        BY <3>3
      <4>3. QED
        BY <3>5, <4>1, <4>2
    <3>7. ~ Route!DeviceName(argv + (k + 1))
      <4>1. argv + k \in Nat \ {0} /\ (argv + k) + 1 = argv + (k + 1)
        BY <1>a, <2>1, <3>1
      <4>2. QED
        BY <1>c, <3>5, <4>1
    <3>8. argv + (k + 1) <= Len(args) + 1 /\ k + 1 \in Nat /\ k + 1 > 0
      BY <1>a, <2>1, <3>1, RouteTypes
    <3>9. default_gw' \in BOOLEAN /\ if_idx' \in {0, 1}
      BY <3>2, RouteTypes
    <3>10. QED
      BY <1>a, <2>1, <3>1, <3>2, <3>4, <3>6, <3>7, <3>8, <3>9, RouteRead
  <2>3. CASE ~ (Route!Has(k) /\ Route!Arg(k) \in Route!Families)
    BY <1>5, <2>3, RouteExit DEF Route!ReadVia
  <2>4. QED
    BY <2>2, <2>3
<1>6. CASE Route!ReadOther
  <2>1. /\ Route!More /\ args[argv] \notin {"add", "del", "to", "dev", "via"}
        /\ argv' = argv + 1 /\ args' = args /\ route_pc' = route_pc /\ request' = request
        /\ UNCHANGED <<nl_cmd, to_addr, gw_addr, default_gw, if_idx>>
    BY <1>6, <1>b DEF Route!ReadOther, Route!Word, Route!parsed
  <2>2. ~ Route!DeviceName(argv + 1)
    BY <1>a, <1>c, <2>1
  <2>3. argv + 1 \in Nat /\ argv + 1 <= Len(args) + 1 /\ \A j \in argv + 1 .. argv + 1 - 1 : FALSE
    BY <1>a, <2>1, RouteTypes
  <2>4. default_gw' \in BOOLEAN /\ if_idx' \in {0, 1}
    BY <2>1, RouteTypes
  <2>5. QED
    BY <1>a, <2>1, <2>2, <2>3, <2>4, RouteRead
<1>7. CASE Route!DoRoute
  <2>1. /\ route_pc = "parse" /\ argv > Len(args)
        /\ UNCHANGED <<args, argv, nl_cmd, to_addr, gw_addr, default_gw, if_idx>>
    BY <1>7 DEF Route!DoRoute, Route!parsed
  <2>2. argv = Len(args) + 1 /\ Route!Attributes' = Route!Attributes /\ Route!Copied' = Route!Copied
    BY <2>1, RouteTypes DEF Route!Attributes, Route!Copied
  <2>3. ReadSoFar'
    <3>1. ReadSoFar
      BY <2>1 DEF RouteInv
    <3>2. ReadSoFar' <=> ReadSoFar
      BY <2>1 DEF ReadSoFar, NoneRead, LastRead, GatewayAt, Route!Keywords, Route!DeviceName, Route!Families
    <3>3. QED
      BY <3>1, <3>2
  <2>4. PICK char_signed \in BOOLEAN :
          \/ Route!RunsWild(char_signed) /\ route_pc' = "crashed" /\ UNCHANGED request
          \/ ~ Route!RunsWild(char_signed) /\ Route!Send
    BY <1>7 DEF Route!DoRoute
  <2>5. CASE Route!RunsWild(char_signed) /\ route_pc' = "crashed" /\ UNCHANGED request
    <3>1. PICK f \in Route!Copied : Route!BitLen(f, char_signed) < 0
      BY <2>5 DEF Route!RunsWild
    <3>2. f \in {"none", "inet", "inet6"}
      BY <3>1, RouteTypes DEF Route!Copied, Route!Families
    <3>3. f = "inet6"
      BY <3>1, <3>2 DEF Route!BitLen
    <3>4. Route!TypeOK'
      BY <2>1, <2>5, RouteTypes DEF Route!TypeOK, Route!Families, Route!Words
    <3>5. QED
      BY <2>1, <2>2, <2>3, <2>5, <3>1, <3>3, <3>4 DEF RouteInv
  <2>6. CASE Route!Send
    <3>1. route_pc' = "sent"
      BY <2>6 DEF Route!Send
    <3>2. request'.attributes = Route!Attributes /\ (nl_cmd # "unset" => request'.cmd = nl_cmd)
      BY <2>6 DEF Route!Send
    <3>3. Route!TypeOK'
      BY <2>1, <3>1, RouteTypes DEF Route!TypeOK, Route!Families, Route!Words
    <3>4. QED
      BY <2>1, <2>2, <2>3, <3>1, <3>2, <3>3 DEF RouteInv
  <2>7. QED
    BY <2>4, <2>5, <2>6
<1>8. CASE Route!OpenNetlinkFails
  BY <1>8, RouteExit DEF Route!OpenNetlinkFails
<1>9. QED
  BY <1>1, <1>2, <1>3, <1>4, <1>5, <1>6, <1>7, <1>8 DEF Route!Next

LEMMA RouteAlways == MCSpec => []RouteInv
<1>0. Route!SetRouteAssumption
  BY ModulesAssumption DEF ModulesAssumption
<1>1. MCInit => RouteInv
  BY RouteInit DEF MCInit
<1>2. RouteInv /\ [MCNext]_MCVars => RouteInv'
  <2> SUFFICES ASSUME RouteInv, [MCNext]_MCVars PROVE RouteInv'
    OBVIOUS
  <2>1. CASE OnRoute
    BY <1>0, <2>1, RouteStep DEF OnRoute
  <2>2. CASE UNCHANGED routeVars
    <3>1. UNCHANGED <<args, argv, nl_cmd, to_addr, gw_addr, default_gw, if_idx, route_pc, request>>
      BY <2>2 DEF routeVars
    <3>2. Route!TypeOK' /\ Route!Attributes' = Route!Attributes /\ Route!Copied' = Route!Copied
      BY <3>1 DEF RouteInv, Route!TypeOK, Route!Attributes, Route!Copied, Route!Families, Route!Words
    <3>3. ReadSoFar' <=> ReadSoFar
      BY <3>1 DEF ReadSoFar, NoneRead, LastRead, GatewayAt, Route!Keywords, Route!DeviceName, Route!Families
    <3>4. QED
      BY <3>1, <3>2, <3>3 DEF RouteInv
  <2>3. QED
    BY <2>1, <2>2 DEF MCNext, MCVars, OnMaple, OnGenl, OnNetlink, OnNetmon, OnPci, OnMyCharDev, OnRbTree
<1>3. QED
  BY <1>1, <1>2, PTL DEF MCSpec

\* However long a command line is, the request that set_route sends says what
\* the line says: of each option the last one given (set_route.c:145).  A line
\* ends in memcpy's running wild only if it asks for an IPv6 address
\* (set_route.c:126).
THEOREM TheLineIsAsked == MCSpec => []RequestIsTheLine
<1>1. RouteInv => RequestIsTheLine
  BY RouteSays
<1>2. QED
  BY <1>1, RouteAlways, PTL
=============================================================================
