------------------------------ MODULE NodeProofs ------------------------------
(***************************************************************************)
(* Proofs about three components of the node that stand on their own: the  *)
(* SCHC compressor, the receive path of the UART, and the duty cycle.      *)
(***************************************************************************)
EXTENDS Schc, Uart, DutyCycle, WellFoundedInduction, TLAPS

-----------------------------------------------------------------------------
(***************************************************************************)
(* SchcTransparent for all packets.                                        *)
(***************************************************************************)
(* The fields of a rule. *)
LEMMA FieldsAre ==
    Fields = {"version", "tclass", "flabel", "paylength", "nheader", "hlimit", "srcPrefix", "srcIID",
              "dstPrefix", "dstIID", "srcPort", "dstPort", "length", "checksum"}
  BY DEF Fields, rule1

(* The actions of rule 1, and the fields it compares. *)
LEMMA Rule1Is ==
    /\ \A f \in {"version", "tclass", "flabel", "nheader", "srcPrefix", "dstPrefix", "dstIID",
                 "srcPort", "dstPort"} :
          rule1[f].action = "NOTSENT" /\ rule1[f].matchingOperator = "equal"
    /\ rule1["hlimit"].action = "NOTSENT" /\ rule1["hlimit"].targetValue = 255
    /\ rule1["srcIID"].action = "BUILDIID"
    /\ rule1["paylength"].action = "COMPUTELENGTH" /\ rule1["length"].action = "COMPUTELENGTH"
    /\ rule1["nheader"].targetValue = 17
    /\ rule1["srcPrefix"].targetValue = "device"
  <1>1. /\ rule1["version"].action = "NOTSENT" /\ rule1["version"].matchingOperator = "equal"
        /\ rule1["tclass"].action = "NOTSENT" /\ rule1["tclass"].matchingOperator = "equal"
        /\ rule1["flabel"].action = "NOTSENT" /\ rule1["flabel"].matchingOperator = "equal"
        /\ rule1["nheader"].action = "NOTSENT" /\ rule1["nheader"].matchingOperator = "equal"
        /\ rule1["srcPrefix"].action = "NOTSENT" /\ rule1["srcPrefix"].matchingOperator = "equal"
        /\ rule1["dstPrefix"].action = "NOTSENT" /\ rule1["dstPrefix"].matchingOperator = "equal"
        /\ rule1["dstIID"].action = "NOTSENT" /\ rule1["dstIID"].matchingOperator = "equal"
        /\ rule1["srcPort"].action = "NOTSENT" /\ rule1["srcPort"].matchingOperator = "equal"
        /\ rule1["dstPort"].action = "NOTSENT" /\ rule1["dstPort"].matchingOperator = "equal"
    BY DEF rule1, F
  <1>2. rule1["hlimit"].action = "NOTSENT" /\ rule1["hlimit"].targetValue = 255
    BY SMTT(60) DEF rule1, F
  <1>3. rule1["srcIID"].action = "BUILDIID"
    BY ZenonT(60) DEF rule1, F
  <1>4. rule1["paylength"].action = "COMPUTELENGTH" /\ rule1["length"].action = "COMPUTELENGTH"
    BY SMTT(60) DEF rule1, F
  <1>5. rule1["nheader"].targetValue = 17
    BY SMTT(60) DEF rule1, F
  <1>6. rule1["srcPrefix"].targetValue = "device"
    BY DEF rule1, F
  <1>7. QED
    BY <1>1, <1>2, <1>3, <1>4, <1>5, <1>6, SMTT(60)

(* A well-formed packet that matches rule 1 is rebuilt from the rule, the  *)
(* size and the device's EUI alone: whatever header h is overwritten, only *)
(* the checksum is lost.                                                   *)
LEMMA Rule1Rebuilds ==
    ASSUME NEW p \in Uplinks, NEW h, Matches(rule1, p.header), NEW f \in Fields \ {"checksum"}
    PROVE  schc_decompression(h, 1, 1 + p.size)[f] = p.header[f]
  <1>1. rules[1] = rule1
    BY DEF rules
  <1>2. schc_decompression(h, 1, 1 + p.size)[f] =
           (CASE rule1[f].action = "NOTSENT"         -> rule1[f].targetValue
              [] rule1[f].action = "BUILDIID"        -> DevEui
              [] rule1[f].action = "COMPUTECHECKSUM" -> 0
              [] rule1[f].action = "COMPUTELENGTH"   -> ((1 + p.size) % 256) + UDP_HLEN - 1
              [] OTHER -> h[f])
    BY <1>1 DEF schc_decompression
  <1>3. p.size \in Nat /\ (1 + p.size) % 256 = 1 + p.size
    BY SchcAssumption DEF WellFormed
  <1>4. /\ p.header.nheader = 17 /\ p.header.srcPrefix = "device"
        /\ p.header.hlimit = 255 /\ p.header.srcIID = DevEui
        /\ p.header.paylength = UDP_HLEN + p.size /\ p.header.length = UDP_HLEN + p.size
    <2>1. p.header.nheader = 17 /\ p.header.srcPrefix = "device"
      BY Rule1Is, FieldsAre DEF Matches
    <2>2. QED
      BY <2>1, SchcAssumption DEF WellFormed
  <1>5. CASE f \in {"paylength", "length"}
    BY <1>2, <1>3, <1>4, <1>5, Rule1Is DEF UDP_HLEN
  <1>6. CASE f \in {"hlimit", "srcIID"}
    BY <1>2, <1>4, <1>6, Rule1Is
  <1>7. CASE f \in {"version", "tclass", "flabel", "nheader", "srcPrefix", "dstPrefix", "dstIID",
                    "srcPort", "dstPort"}
    BY <1>2, <1>7, FieldsAre, Rule1Is DEF Matches
  <1>8. QED
    BY <1>5, <1>6, <1>7, FieldsAre

(* The same for rule 2. *)
LEMMA Rule2Is ==
    /\ \A f \in {"version", "nheader", "srcPrefix", "srcIID", "dstPrefix", "srcPort", "dstPort"} :
          rule2[f].action = "NOTSENT" /\ rule2[f].matchingOperator = "equal"
    /\ rule2["dstIID"].action = "BUILDIID"
    /\ rule2["paylength"].action = "COMPUTELENGTH" /\ rule2["length"].action = "COMPUTELENGTH"
    /\ rule2["nheader"].targetValue = 17
    /\ rule2["dstPrefix"].targetValue = "device"
  <1>1. /\ rule2["version"].action = "NOTSENT" /\ rule2["version"].matchingOperator = "equal"
        /\ rule2["nheader"].action = "NOTSENT" /\ rule2["nheader"].matchingOperator = "equal"
        /\ rule2["srcPrefix"].action = "NOTSENT" /\ rule2["srcPrefix"].matchingOperator = "equal"
        /\ rule2["srcIID"].action = "NOTSENT" /\ rule2["srcIID"].matchingOperator = "equal"
        /\ rule2["dstPrefix"].action = "NOTSENT" /\ rule2["dstPrefix"].matchingOperator = "equal"
        /\ rule2["srcPort"].action = "NOTSENT" /\ rule2["srcPort"].matchingOperator = "equal"
        /\ rule2["dstPort"].action = "NOTSENT" /\ rule2["dstPort"].matchingOperator = "equal"
    BY DEF rule1, rule2, F
  <1>2. rule2["dstIID"].action = "BUILDIID"
    <2>1. rule2["dstIID"] = rule1["srcIID"]
      BY DEF rule1, rule2
    <2>2. QED
      BY <2>1, Rule1Is
  <1>3. rule2["paylength"].action = "COMPUTELENGTH" /\ rule2["length"].action = "COMPUTELENGTH"
    <2>1. rule2["paylength"] = rule1["paylength"] /\ rule2["length"] = rule1["length"]
      BY DEF rule1, rule2
    <2>2. QED
      BY <2>1, Rule1Is
  <1>4. rule2["nheader"].targetValue = 17
    BY DEF rule1, rule2, F
  <1>5. rule2["dstPrefix"].targetValue = "device"
    BY DEF rule1, rule2, F
  <1>6. QED
    BY <1>1, <1>2, <1>3, <1>4, <1>5

(* Decompression by rule 2 overwrites whatever header h holds, up to the   *)
(* fields the context gives up.                                            *)
LEMMA Rule2Rebuilds ==
    ASSUME NEW p \in Downlinks, NEW h, Matches(rule2, p.header),
           NEW f \in Fields \ {"checksum", "hlimit", "tclass", "flabel"}
    PROVE  schc_decompression(h, 2, 1 + p.size)[f] = p.header[f]
  <1>1. rules[2] = rule2
    BY DEF rules
  <1>2. schc_decompression(h, 2, 1 + p.size)[f] =
           (CASE rule2[f].action = "NOTSENT"         -> rule2[f].targetValue
              [] rule2[f].action = "BUILDIID"        -> DevEui
              [] rule2[f].action = "COMPUTECHECKSUM" -> 0
              [] rule2[f].action = "COMPUTELENGTH"   -> ((1 + p.size) % 256) + UDP_HLEN - 1
              [] OTHER -> h[f])
    BY <1>1 DEF schc_decompression
  <1>3. p.size \in Nat /\ (1 + p.size) % 256 = 1 + p.size
    BY SchcAssumption DEF WellFormed
  <1>4. /\ p.header.dstIID = DevEui
        /\ p.header.paylength = UDP_HLEN + p.size /\ p.header.length = UDP_HLEN + p.size
    <2>1. p.header.nheader = 17 /\ p.header.dstPrefix = "device"
      BY Rule2Is, FieldsAre DEF Matches
    <2>2. QED
      BY <2>1, SchcAssumption DEF WellFormed
  <1>5. CASE f \in {"paylength", "length"}
    BY <1>2, <1>3, <1>4, <1>5, Rule2Is DEF UDP_HLEN
  <1>6. CASE f = "dstIID"
    BY <1>2, <1>4, <1>6, Rule2Is
  <1>7. CASE f \in {"version", "nheader", "srcPrefix", "srcIID", "dstPrefix", "srcPort", "dstPort"}
    BY <1>2, <1>7, FieldsAre, Rule2Is DEF Matches
  <1>8. QED
    BY <1>5, <1>6, <1>7, FieldsAre

(* What ip6_input or the server gets is what was sent, for every packet    *)
(* and every history of the shared headers.                                *)
THEOREM SchcIsTransparent == SchcSpec => []SchcTransparent
  <1>1. SchcInit => SchcTransparent
    BY DEF SchcInit, SchcTransparent
  <1>2. SchcTransparent /\ [SchcNext]_schcVars => SchcTransparent'
    <2> SUFFICES ASSUME SchcTransparent, [SchcNext]_schcVars PROVE SchcTransparent'
      OBVIOUS
    <2>1. ASSUME NEW p \in Uplinks, schc_output(p) PROVE SchcTransparent'
      <3>1. CASE Matches(rule1, p.header)
        <4>1. /\ schcLast'.seen.size = p.size /\ schcLast'.sent = p
              /\ schcLast'.seen.header = schc_decompression(EmptyHeader, 1, 1 + p.size)
              /\ Lost(schcLast') = {"checksum"}
          BY <2>1, <3>1, SMTT(60) DEF schc_output, schc_compression, rules, Lost
        <4>2. QED
          BY <4>1, <3>1, Rule1Rebuilds DEF SchcTransparent
      <3>2. CASE ~Matches(rule1, p.header)
        BY <2>1, <3>2, SMTT(60) DEF schc_output, schc_compression, rules, SchcTransparent
      <3>3. QED
        BY <3>1, <3>2
    <2>2. ASSUME NEW p \in Downlinks, schc_input(p) PROVE SchcTransparent'
      <3>1. CASE Matches(rule2, p.header)
        <4>1. /\ schcLast'.seen.size = p.size /\ schcLast'.sent = p
              /\ schcLast'.seen.header = schc_decompression(schcHeader, 2, 1 + p.size)
              /\ Lost(schcLast') = {"checksum", "hlimit", "tclass", "flabel"}
          BY <2>2, <3>1, SMTT(60) DEF schc_input, rules, Lost
        <4>2. QED
          BY <4>1, <3>1, Rule2Rebuilds, SMTT(60) DEF SchcTransparent
      <3>2. CASE ~Matches(rule2, p.header)
        BY <2>2, <3>2 DEF schc_input, rules, SchcTransparent
      <3>3. QED
        BY <3>1, <3>2
    <2>3. CASE UNCHANGED schcVars
      BY <2>3 DEF SchcTransparent, schcVars, Lost, NoPacket
    <2>4. QED
      BY <2>1, <2>2, <2>3 DEF SchcNext
  <1>3. QED
    BY <1>1, <1>2, PTL DEF SchcSpec

-----------------------------------------------------------------------------
(***************************************************************************)
(* Proofs about the receive path of the UART: whatever the size of the     *)
(* ring and however often its indices have wrapped, it is a queue.  The    *)
(* invariant compares ring and queue byte by byte (Holds), and says that a *)
(* reader past its test finds a byte: only the interrupt runs in between,  *)
(* and it only adds bytes.                                                 *)
(***************************************************************************)
(* The ring and its indices. *)
Indices == 0..(FifoRxSize - 1)

Ring == [Begin : Indices, End : Indices, Data : [Indices -> Byte]]

(* How many bytes are between the indices. *)
Count(begin, end) == IF begin <= end THEN end - begin ELSE end + FifoRxSize - begin

(* Where the i-th of them is. *)
Place(begin, i) == IF begin + i < FifoRxSize THEN begin + i ELSE begin + i - FifoRxSize

(* The ring holds the bytes s. *)
Holds(begin, end, data, s) ==
    /\ s \in Seq(Byte) /\ Len(s) = Count(begin, end)
    /\ \A i \in 1..Len(s) : s[i] = data[Place(begin, i)]

-----------------------------------------------------------------------------
(***************************************************************************)
(* The ring.                                                               *)
(***************************************************************************)

(* An index inside the ring is its own remainder. *)
LEMMA ModBelow ==
    ASSUME NEW x \in Nat, x < FifoRxSize
    PROVE  x % FifoRxSize = x
  BY UartAssumption, SMT

(* An index that has wrapped once. *)
LEMMA ModAbove ==
    ASSUME NEW x \in Nat, FifoRxSize <= x, x < 2 * FifoRxSize
    PROVE  x % FifoRxSize = x - FifoRxSize
  BY UartAssumption, SMT

(* The ring has room for a byte. *)
LEMMA Size == FifoRxSize \in Nat /\ FifoRxSize > 1
  BY UartAssumption, SMT

(* FifoNext stays inside the ring. *)
LEMMA NextIndex ==
    ASSUME NEW i \in Indices
    PROVE  FifoNext(i) \in Indices /\ FifoNext(i) = IF i = FifoRxSize - 1 THEN 0 ELSE i + 1
  BY Size, ModBelow, ModAbove, SMT DEF FifoNext, Indices

(* Place is what the code computes with %. *)
LEMMA PlaceIsMod ==
    ASSUME NEW b \in Indices, NEW i \in 0..(FifoRxSize - 1)
    PROVE  (b + i) % FifoRxSize = Place(b, i) /\ Place(b, i) \in Indices
  BY Size, ModBelow, ModAbove, SMT DEF Place, Indices

(* So is Count. *)
LEMMA CountIsMod ==
    ASSUME NEW b \in Indices, NEW e \in Indices
    PROVE  /\ (e + FifoRxSize - b) % FifoRxSize = Count(b, e)
           /\ Count(b, e) \in 0..(FifoRxSize - 1)
<1>1. e + FifoRxSize - b \in Nat /\ e + FifoRxSize - b < 2 * FifoRxSize
  BY Size, SMT DEF Indices
<1>2. CASE b <= e
  BY <1>1, <1>2, Size, ModAbove, SMT DEF Count, Indices
<1>3. CASE ~(b <= e)
  BY <1>1, <1>3, Size, ModBelow, SMT DEF Count, Indices
<1> QED
  BY <1>2, <1>3

(* Queued, of the model, and Holds agree. *)
LEMMA QueuedIsHeld ==
    ASSUME NEW f \in Ring, NEW s \in Seq(Byte)
    PROVE  Queued(f) = s <=> Holds(f.Begin, f.End, f.Data, s)
<1> DEFINE n == Count(f.Begin, f.End)
           q == [i \in 1..n |-> f.Data[Place(f.Begin, i)]]
<1>1. f.Begin \in Indices /\ f.End \in Indices /\ f.Data \in [Indices -> Byte]
  BY Zenon DEF Ring
<1>2. n \in 0..(FifoRxSize - 1)
  BY <1>1, CountIsMod, Zenon
<1>3. \A i \in 1..n : (f.Begin + i) % FifoRxSize = Place(f.Begin, i)
  <2>1. \A i \in 1..n : i \in 0..(FifoRxSize - 1)
    BY <1>2, Size, SMT
  <2> QED
    BY <1>1, <2>1, PlaceIsMod, Zenon
<1>4. Queued(f) = q
  <2>1. (f.End + FifoRxSize - f.Begin) % FifoRxSize = n
    BY <1>1, CountIsMod, Zenon
  <2> HIDE DEF n
  <2> QED
    BY <1>3, <2>1, Zenon DEF Queued
<1>5. n \in Nat
  BY <1>2, Size, SMT
<1> HIDE DEF n
<1>6. ASSUME q = s
      PROVE  Holds(f.Begin, f.End, f.Data, s)
  <2>1. Len(s) = n
    <3>1. DOMAIN s = 1..Len(s) /\ Len(s) \in Nat
      BY SMT
    <3>2. DOMAIN s = 1..n
      BY <1>6, Zenon
    <3>3. \A k \in Nat : k \in 1..n <=> k \in 1..Len(s)
      BY <3>1, <3>2, Zenon
    <3>4. n <= Len(s)
      BY <1>5, <3>1, <3>3, SMT
    <3>5. Len(s) <= n
      BY <1>5, <3>1, <3>3, SMT
    <3>6. Len(s) \in Nat
      BY <3>1
    <3> QED
      BY <1>5, <3>4, <3>5, <3>6, SMT
  <2>2. \A i \in 1..Len(s) : s[i] = f.Data[Place(f.Begin, i)]
    BY <1>6, <2>1, Zenon
  <2> QED
    BY <2>1, <2>2, Zenon DEF Holds, n
<1>7. ASSUME Holds(f.Begin, f.End, f.Data, s)
      PROVE  q = s
  <2>1. Len(s) = n /\ \A i \in 1..n : s[i] = f.Data[Place(f.Begin, i)]
    BY <1>7, Zenon DEF Holds, n
  <2>2. s \in [1..n -> Byte]
    BY <2>1, SMT
  <2> QED
    BY <2>1, <2>2, Zenon
<1> QED
  BY <1>4, <1>6, <1>7, Zenon

(* FifoPush into a ring that is not full appends to the queue: no byte     *)
(* that waits is overwritten.                                              *)
LEMMA PushHeld ==
    ASSUME NEW b \in Indices, NEW e \in Indices, NEW d \in [Indices -> Byte], NEW s, Holds(b, e, d, s),
           NEW x \in Byte, FifoNext(e) # b
    PROVE  Holds(b, FifoNext(e), [d EXCEPT ![FifoNext(e)] = x], Append(s, x))
<1> DEFINE t == Append(s, x)
           k == FifoNext(e)
           c == [d EXCEPT ![k] = x]
<1>1. /\ s \in Seq(Byte) /\ Len(s) = Count(b, e) /\ Len(s) \in Nat
      /\ \A i \in 1..Len(s) : s[i] = d[Place(b, i)]
  BY SMT DEF Holds
<1>2. /\ t \in Seq(Byte) /\ Len(t) = Len(s) + 1
      /\ \A i \in 1..Len(s) : t[i] = s[i]
      /\ t[Len(s) + 1] = x
  BY <1>1, SMT
<1>3. k \in Indices /\ k = IF e = FifoRxSize - 1 THEN 0 ELSE e + 1
  BY NextIndex, Zenon
<1> HIDE DEF t, k
<1>4. FifoNext(e) = k /\ k # b
  BY Zenon DEF k
<1>5. Count(b, k) = Count(b, e) + 1
  BY <1>3, <1>4, Size, SMT DEF Count, Indices
<1>6. \A i \in 1..Len(s) : Place(b, i) \in Indices /\ Place(b, i) # k
  BY <1>1, <1>3, <1>4, Size, SMT DEF Count, Place, Indices
<1>7. Place(b, Len(s) + 1) = k
  BY <1>1, <1>3, <1>4, Size, SMT DEF Count, Place, Indices
<1>8. \A i \in 1..Len(s) : t[i] = c[Place(b, i)]
  BY <1>1, <1>2, <1>6, Zenon
<1>9. t[Len(s) + 1] = c[Place(b, Len(s) + 1)]
  BY <1>2, <1>3, <1>7, Zenon
<1>10. \A i \in 1..Len(t) : i \in 1..Len(s) \/ i = Len(s) + 1
  BY <1>1, <1>2, SMT
<1>11. \A i \in 1..Len(t) : t[i] = c[Place(b, i)]
  BY <1>8, <1>9, <1>10, Zenon
<1>12. Len(t) = Count(b, k)
  BY <1>1, <1>2, <1>5, Zenon
<1>13. Holds(b, k, c, t)
  BY <1>2, <1>11, <1>12, Zenon DEF Holds
<1> QED
  BY <1>13 DEF t, k

(* FifoPop from a ring that is not empty takes the head of the queue. *)
LEMMA PopHeld ==
    ASSUME NEW b \in Indices, NEW e \in Indices, NEW d \in [Indices -> Byte], NEW s, Holds(b, e, d, s),
           b # e
    PROVE  /\ Head(s) = d[FifoNext(b)]
           /\ Holds(FifoNext(b), e, d, Tail(s))
<1> DEFINE t == Tail(s)
           k == FifoNext(b)
<1>1. /\ s \in Seq(Byte) /\ Len(s) = Count(b, e) /\ Len(s) \in Nat
      /\ \A i \in 1..Len(s) : s[i] = d[Place(b, i)]
  BY SMT DEF Holds
<1>2. Len(s) > 0
  BY <1>1, Size, SMT DEF Count, Indices
<1>3. s # <<>>
  BY <1>1, <1>2, SMT
<1>4. /\ t \in Seq(Byte) /\ Len(t) = Len(s) - 1
      /\ \A i \in 1..Len(t) : t[i] = s[i + 1]
  BY <1>1, <1>3, SMT
<1>5. Head(s) = s[1]
  BY <1>1, <1>3, SMT
<1>6. k \in Indices /\ k = IF b = FifoRxSize - 1 THEN 0 ELSE b + 1
  BY NextIndex, Zenon
<1> HIDE DEF t, k
<1>7. Place(b, 1) = k /\ 1 \in 1..Len(s)
  BY <1>1, <1>2, <1>6, Size, SMT DEF Place, Indices
<1>8. Head(s) = d[k]
  BY <1>1, <1>5, <1>7, Zenon
<1>9. Len(t) = Count(k, e)
  BY <1>1, <1>4, <1>6, Size, SMT DEF Count, Indices
<1>10. \A i \in 1..Len(t) : i + 1 \in 1..Len(s) /\ Place(b, i + 1) = Place(k, i)
  BY <1>1, <1>4, <1>6, Size, SMTT(60) DEF Count, Place, Indices
<1>11. \A i \in 1..Len(t) : t[i] = d[Place(k, i)]
  BY <1>1, <1>4, <1>10, Zenon
<1>12. Holds(k, e, d, t)
  BY <1>4, <1>9, <1>11, Zenon DEF Holds
<1> QED
  BY <1>8, <1>12 DEF t, k

-----------------------------------------------------------------------------
(***************************************************************************)
(* The receive path.                                                       *)
(***************************************************************************)

(* The inductive invariant. *)
UartInv ==
    /\ fifoRx \in Ring
    /\ getChar.pc \in {"idle", "pop"} /\ (getChar.pc = "pop" => ~IsFifoEmpty(fifoRx))
    /\ Holds(fifoRx.Begin, fifoRx.End, fifoRx.Data, accepted.bytes)
    /\ accepted = [bytes |-> accepted.bytes, due |-> accepted.due]
    /\ getChar.data = accepted.due

(* The fields of a ring. *)
LEMMA RingFields ==
    ASSUME NEW f \in Ring
    PROVE  /\ f.Begin \in Indices /\ f.End \in Indices /\ f.Data \in [Indices -> Byte]
           /\ \A k \in Indices : [f EXCEPT !.Begin = k] \in Ring
  BY Zenon DEF Ring

(* FifoInit makes an empty queue. *)
LEMMA UartInvInit ==
    ASSUME UartInit
    PROVE  UartInv
<1> DEFINE d == [i \in Indices |-> CHOOSE b \in Byte : TRUE]
<1>1. fifoRx = [Begin |-> 0, End |-> 0, Data |-> d]
  BY Zenon DEF UartInit, Indices
<1>2. d \in [Indices -> Byte]
  <2>1. (CHOOSE b \in Byte : TRUE) \in Byte
    BY UartAssumption, Zenon
  <2> QED
    BY <2>1, Zenon
<1>3. 0 \in Indices
  BY Size, SMT DEF Indices
<1> HIDE DEF d
<1>4. fifoRx \in Ring /\ fifoRx.Begin = 0 /\ fifoRx.End = 0
  BY <1>1, <1>2, <1>3, Zenon DEF Ring
<1>5. getChar.pc = "idle" /\ getChar.data = <<>> /\ accepted = [bytes |-> <<>>, due |-> <<>>]
  BY Zenon DEF UartInit
<1>6. Holds(0, 0, fifoRx.Data, <<>>)
  <2>1. <<>> \in Seq(Byte) /\ Len(<<>>) = 0
    BY SMT
  <2>2. Count(0, 0) = 0
    BY SMT DEF Count
  <2>3. \A i \in 1..0 : FALSE
    BY SMT
  <2> QED
    BY <2>1, <2>2, <2>3, Zenon DEF Holds
<1> QED
  BY <1>4, <1>5, <1>6, Zenon DEF UartInv

(* The receive interrupt, whether the ring is full or not. *)
LEMMA RxCpltStep ==
    ASSUME UartInv, NEW b \in Byte, HAL_UART_RxCpltCallback(b)
    PROVE  UartInv'
<1>1. UNCHANGED getChar
  BY Zenon DEF HAL_UART_RxCpltCallback
<1>2. CASE IsFifoFull(fifoRx)
  <2>1. UNCHANGED <<fifoRx, accepted>>
    BY <1>2, Zenon DEF HAL_UART_RxCpltCallback
  <2> QED
    BY <1>1, <2>1, Zenon DEF UartInv
<1>3. CASE ~IsFifoFull(fifoRx)
  <2> DEFINE k == FifoNext(fifoRx.End)
             c == [fifoRx.Data EXCEPT ![k] = b]
  <2>1. /\ fifoRx' = [fifoRx EXCEPT !.End = k, !.Data[k] = b]
        /\ accepted' = [accepted EXCEPT !.bytes = Append(@, b)]
    BY <1>3, Zenon DEF HAL_UART_RxCpltCallback, FifoPush
  <2>2. fifoRx \in Ring /\ Holds(fifoRx.Begin, fifoRx.End, fifoRx.Data, accepted.bytes)
    BY Zenon DEF UartInv
  <2>3. fifoRx.Begin \in Indices /\ fifoRx.End \in Indices /\ fifoRx.Data \in [Indices -> Byte]
    BY <2>2, RingFields, Zenon
  <2>4. k \in Indices /\ k # fifoRx.Begin
    BY <1>3, <2>3, NextIndex, Zenon DEF IsFifoFull
  <2>5. Holds(fifoRx.Begin, k, c, Append(accepted.bytes, b))
    BY <2>2, <2>3, <2>4, PushHeld, Zenon
  <2> HIDE DEF k
  <2>6. c \in [Indices -> Byte]
    BY <2>3, <2>4, Zenon
  <2>7. fifoRx' \in Ring /\ fifoRx'.Begin = fifoRx.Begin /\ fifoRx'.End = k /\ fifoRx'.Data = c
    BY <2>1, <2>2, <2>4, <2>6, Zenon DEF Ring
  <2>8. /\ accepted'.bytes = Append(accepted.bytes, b) /\ accepted'.due = accepted.due
        /\ accepted' = [bytes |-> accepted'.bytes, due |-> accepted'.due]
    <3>1. accepted = [bytes |-> accepted.bytes, due |-> accepted.due]
      BY Zenon DEF UartInv
    <3> DEFINE v == Append(accepted.bytes, b)
    <3>2. accepted' = [accepted EXCEPT !.bytes = v]
      BY <2>1
    <3> HIDE DEF v
    <3>3. /\ accepted'.bytes = v /\ accepted'.due = accepted.due
          /\ accepted' = [bytes |-> accepted'.bytes, due |-> accepted'.due]
      BY <3>1, <3>2, SMT
    <3> QED
      BY <3>3 DEF v
  <2>9. getChar'.pc = "pop" => ~IsFifoEmpty(fifoRx')
    BY <2>4, <2>7, Zenon DEF IsFifoEmpty
  <2> HIDE DEF c
  <2> QED
    BY <1>1, <2>5, <2>7, <2>8, <2>9, Zenon DEF UartInv
<1> QED
  BY <1>2, <1>3

(* UartMcuGetChar tests the ring with interrupts enabled. *)
LEMMA GetCharStep ==
    ASSUME UartInv, UartMcuGetChar
    PROVE  UartInv'
<1>1. /\ getChar' = [pc |-> IF IsFifoEmpty(fifoRx) THEN "idle" ELSE "pop", data |-> <<>>]
      /\ accepted' = [accepted EXCEPT !.due = <<>>] /\ UNCHANGED fifoRx
  BY Zenon DEF UartMcuGetChar
<1>2. /\ getChar'.pc \in {"idle", "pop"} /\ (getChar'.pc = "pop" => ~IsFifoEmpty(fifoRx))
      /\ getChar'.data = <<>>
  BY <1>1, SMT
<1>3. /\ accepted'.bytes = accepted.bytes /\ accepted'.due = <<>>
      /\ accepted' = [bytes |-> accepted'.bytes, due |-> accepted'.due]
  <2>1. accepted = [bytes |-> accepted.bytes, due |-> accepted.due]
    BY Zenon DEF UartInv
  <2> QED
    BY <1>1, <2>1, SMT
<1> QED
  BY <1>1, <1>2, <1>3, Zenon DEF UartInv

(* UartMcuGetChar takes the byte: the ring it found filled still is. *)
LEMMA GetCharPopStep ==
    ASSUME UartInv, GetCharPop
    PROVE  UartInv'
<1>1. /\ getChar' = [pc |-> "idle", data |-> <<FifoPopped(fifoRx)>>]
      /\ fifoRx' = [fifoRx EXCEPT !.Begin = FifoNext(fifoRx.Begin)]
      /\ accepted' = [bytes |-> Tail(accepted.bytes), due |-> <<Head(accepted.bytes)>>]
  BY Zenon DEF GetCharPop, FifoPop
<1>2. fifoRx \in Ring /\ Holds(fifoRx.Begin, fifoRx.End, fifoRx.Data, accepted.bytes)
  BY Zenon DEF UartInv
<1>3. fifoRx.Begin \in Indices /\ fifoRx.End \in Indices /\ fifoRx.Data \in [Indices -> Byte]
  BY <1>2, RingFields, Zenon
<1>4. fifoRx.Begin # fifoRx.End
  BY Zenon DEF GetCharPop, UartInv, IsFifoEmpty
<1>5. /\ Head(accepted.bytes) = FifoPopped(fifoRx)
      /\ Holds(FifoNext(fifoRx.Begin), fifoRx.End, fifoRx.Data, Tail(accepted.bytes))
  BY <1>2, <1>3, <1>4, PopHeld, Zenon DEF FifoPopped
<1>6. FifoNext(fifoRx.Begin) \in Indices
  BY <1>3, NextIndex, Zenon
<1>7. /\ fifoRx' \in Ring /\ fifoRx'.Begin = FifoNext(fifoRx.Begin)
      /\ fifoRx'.End = fifoRx.End /\ fifoRx'.Data = fifoRx.Data
  BY <1>1, <1>2, <1>6, Zenon DEF Ring
<1>8. getChar'.pc = "idle" /\ getChar'.data = accepted'.due /\ accepted'.bytes = Tail(accepted.bytes)
  BY <1>1, <1>5, Zenon
<1>9. accepted' = [bytes |-> accepted'.bytes, due |-> accepted'.due]
  BY <1>1, Zenon
<1> QED
  BY <1>5, <1>7, <1>8, <1>9, Zenon DEF UartInv

(* The inductive invariant of the receive path. *)
THEOREM UartSafe == UartSpec => []UartInv
<1>1. UartInit => UartInv
  BY UartInvInit
<1>2. UartInv /\ [UartNext]_uartVars => UartInv'
  <2>1. UartInv /\ UNCHANGED uartVars => UartInv'
    BY Zenon DEF UartInv, uartVars
  <2> QED
    BY <2>1, RxCpltStep, GetCharStep, GetCharPopStep, Zenon DEF UartNext
<1> QED
  BY <1>1, <1>2, PTL DEF UartSpec

(* Both indices of the ring stay inside it, whatever its size (fifo.c). *)
THEOREM RingIsTyped == UartSpec => []UartTypeOK
<1>1. UartInv => UartTypeOK
  BY Zenon DEF UartInv, UartTypeOK, Ring, Indices
<1> QED
  BY <1>1, UartSafe, PTL

(* The ring of fifo.c is a queue for every size and every interleaving of  *)
(* HAL_UART_RxCpltCallback with UartMcuGetChar: it holds the accepted      *)
(* bytes in order, and a read returns the oldest.                          *)
THEOREM RingIsQueue == UartSpec => []RxFifoInOrder
<1>1. UartInv => RxFifoInOrder
  <2>1. UartInv => accepted.bytes \in Seq(Byte)
    BY Zenon DEF UartInv, Holds
  <2> QED
    BY <2>1, QueuedIsHeld, Zenon DEF UartInv, RxFifoInOrder
<1> QED
  BY <1>1, UartSafe, PTL

-----------------------------------------------------------------------------
(***************************************************************************)
(* The duty cycle: no transmission starts in a band that has not rested.   *)
(***************************************************************************)
(* A set of naturals that is not empty has a least element. *)
LEMMA LeastNat ==
    ASSUME NEW T, T \subseteq Nat, T # {}
    PROVE  Min(T) \in T /\ \A y \in T : Min(T) <= y
<1> DEFINE R == {ss \in Nat \X Nat : ss[1] < ss[2]}
<1>1. IsWellFoundedOn(R, Nat)
  BY NatLessThanWellFounded DEF OpToRel
<1>2. \E x \in T : \A y \in T : ~(<<y, x>> \in R)
  <2> HIDE DEF R
  <2> QED
    BY <1>1, WFMin, Zenon
<1>3. PICK x \in T : \A y \in T : ~(<<y, x>> \in R)
  BY <1>2, Zenon
<1>4. ASSUME NEW y \in T PROVE x <= y
  <2>1. x \in Nat /\ y \in Nat /\ ~(<<y, x>> \in R)
    BY <1>3, Zenon
  <2> QED
    BY <2>1, SMT
<1> QED
  BY <1>4, Zenon DEF Min

LEMMA LeastOfTwo ==
    ASSUME NEW a \in Int, NEW b \in Int
    PROVE  /\ Min({a, b}) \in {a, b} /\ Min({a, b}) <= a /\ Min({a, b}) <= b
           /\ Max({a, b}) \in {a, b} /\ Max({a, b}) >= a /\ Max({a, b}) >= b
<1>1. \E x \in {a, b} : \A y \in {a, b} : x <= y
  BY SMT
<1>2. \E x \in {a, b} : \A y \in {a, b} : x >= y
  BY SMT
<1>3. Min({a, b}) \in {a, b} /\ \A y \in {a, b} : Min({a, b}) <= y
  BY <1>1, Zenon DEF Min
<1>4. Max({a, b}) \in {a, b} /\ \A y \in {a, b} : Max({a, b}) >= y
  BY <1>2, Zenon DEF Max
<1> QED
  BY <1>3, <1>4, Zenon

LEMMA TimesMonotone ==
    ASSUME NEW x \in Nat, NEW a \in Nat, NEW b \in Nat, a <= b
    PROVE  x * a <= x * b /\ x * a \in Nat /\ x * b \in Nat
<1>1. PICK e \in Nat : b = a + e
  BY SMT
<1>2. x * b = x * a + x * e /\ x * a \in Nat /\ x * e \in Nat
  BY <1>1, SMT
<1> QED
  BY <1>2, SMT

LEMMA TimesPredecessor ==
    ASSUME NEW x \in Nat, NEW a \in Nat \ {0}
    PROVE  x * (a - 1) = x * a - x /\ x * a - x \in Nat
<1>1. x * (a - 1) = x * a - x
  BY SMT
<1>2. x * (a - 1) \in Nat
  <2>1. PICK e \in Nat : e = a - 1
    BY SMT
  <2> QED
    BY <2>1, SMT
<1> QED
  BY <1>1, <1>2

(***************************************************************************)
(* The inductive invariant.  Until a transmission times out or the duty    *)
(* cycle is switched off, the back-off of the last one is still to be      *)
(* charged to its own band, and every other band has rested, or has a time *)
(* off that makes it rest, for what its last transmission calls for.       *)
(* While a frame is on the air the time on air is already its own: then    *)
(* this must hold of every band.                                           *)
(***************************************************************************)
LastBand == BandOf[duty.LastTxChannel]

Rests(b) == bands[b].TimeOff >= owed.rest[b] \/ bands[b].elapsed >= owed.rest[b]

DutyInv ==
    /\ DutyTypeOK
    /\ duty.TxTimeOnAir \in {0} \cup {TimeOnAir[d] : d \in DOMAIN TimeOnAir}
    /\ owed \in [rest : [Band -> Nat], waived : BOOLEAN]
    /\ ~owed.waived =>
         /\ DutyCycleOn
         /\ tx.phase # "sending" => owed.rest[LastBand] = duty.TxTimeOnAir * (DCycle[LastBand] - 1)
         /\ \A b \in Band : Rests(b) \/ (tx.phase # "sending" /\ b = LastBand)

Params == [joined : BOOLEAN, datarate : DOMAIN TimeOnAir, mask : SUBSET Channel]

Bands == [Band -> [TimeOff : 0..MaxElapsed, elapsed : 0..MaxElapsed]]

LEMMA LastBandType ==
    ASSUME DutyInv
    PROVE  /\ LastBand \in Band /\ DCycle[LastBand] \in Nat \ {0}
           /\ duty.TxTimeOnAir \in Nat /\ bands \in Bands
<1>1. duty.LastTxChannel \in Channel /\ duty.TxTimeOnAir \in Nat /\ bands \in Bands
  BY SMT DEF DutyInv, DutyTypeOK, Bands
<1> QED
  BY <1>1, DutyCycleAssumption, SMT DEF LastBand

(* A time off is long enough for the band while there is a duty cycle, and *)
(* within what is counted.                                                 *)
LEMMA BackOffBounds ==
    ASSUME DutyInv, NEW p \in Params, NEW off \in BackOffTimes(p)
    PROVE  off \in 0..MaxElapsed /\ (DutyCycleOn => off >= duty.TxTimeOnAir * (DCycle[LastBand] - 1))
<1>1. PICK x \in Nat, D \in Nat \ {0} : x = duty.TxTimeOnAir /\ D = DCycle[LastBand]
  BY LastBandType, Zenon
<1>2. RndOffset \in Nat /\ MaxElapsed \in Nat
  BY DutyCycleAssumption, Zenon
<1>3. PICK M : M = IF p.joined THEN D ELSE Max({JoinDCycle, D})
  BY Zenon
<1>4. M \in {JoinDCycle, D} /\ M >= D /\ M \in Nat \ {0}
  <2>1. JoinDCycle \in Nat \ {0} /\ JoinDCycle \in Int /\ D \in Int /\ D >= D
    BY DutyCycleAssumption, SMT
  <2>2. Max({JoinDCycle, D}) \in {JoinDCycle, D} /\ Max({JoinDCycle, D}) >= D
    BY <2>1, LeastOfTwo, Zenon
  <2> QED
    BY <1>3, <2>1, <2>2, Zenon
<1>5. /\ x * (M - 1) = x * M - x /\ x * M - x \in Nat
      /\ x * (D - 1) = x * D - x /\ x * D - x \in Nat
  BY <1>4, TimesPredecessor
<1>6. x * D <= x * M /\ x * D \in Nat /\ x * M \in Nat
  BY <1>4, TimesMonotone, SMT
<1>7. x # 0 => x * (M - 1) + RndOffset <= MaxElapsed
  <2>1. M \in {JoinDCycle} \cup {DCycle[b] : b \in Band}
    BY <1>1, <1>4, LastBandType, Zenon
  <2>2. x = 0 \/ \E d \in DOMAIN TimeOnAir : x = TimeOnAir[d]
    BY <1>1, Zenon DEF DutyInv
  <2> QED
    BY <2>1, <2>2, DutyCycleAssumption, Zenon
<1>8. PICK o : o = IF DutyCycleOn THEN x * M - x ELSE 0
  BY Zenon
<1>9. /\ o \in Nat /\ (DutyCycleOn => o >= x * (D - 1))
      /\ x = 0 => o = 0
      /\ x # 0 => o + RndOffset <= MaxElapsed
  <2>1. CASE DutyCycleOn
    <3>1. o = x * M - x
      BY <1>8, <2>1, Zenon
    <3>2. /\ o \in Nat /\ o >= x * (D - 1)
          /\ x = 0 => o = 0
          /\ x # 0 => o + RndOffset <= MaxElapsed
      BY <1>2, <1>4, <1>5, <1>6, <1>7, <3>1, SMT
    <3> QED
      BY <3>2, Zenon
  <2>2. CASE ~DutyCycleOn
    <3>1. o = 0
      BY <1>8, <2>2, Zenon
    <3>2. /\ o \in Nat
          /\ x # 0 => o + RndOffset <= MaxElapsed
      BY <1>2, <1>5, <1>7, <3>1, SMT
    <3> QED
      BY <2>2, <3>1, <3>2, Zenon
  <2> QED
    BY <2>1, <2>2, Zenon
<1>10. off \in IF p.joined \/ x = 0 THEN {o} ELSE o..(o + RndOffset)
  BY <1>1, <1>3, <1>8, Zenon DEF BackOffTimes, LastBand
<1>11. (off = o \/ x # 0) /\ off \in o..(o + RndOffset)
  <2>1. o \in o..(o + RndOffset)
    BY <1>2, <1>9, SMT
  <2> QED
    BY <1>10, <2>1, Zenon
<1>12. off \in 0..MaxElapsed /\ off >= o
  <2>1. x # 0 \/ off = o
    BY <1>11, Zenon
  <2>2. CASE x = 0
    BY <1>2, <1>9, <2>1, <2>2, SMT
  <2>3. CASE x # 0
    BY <1>2, <1>9, <1>11, <2>3, SMT
  <2> QED
    BY <2>2, <2>3, Zenon
<1>13. o >= x * (D - 1) => off >= x * (D - 1)
  BY <1>5, <1>9, <1>12, SMT
<1> QED
  BY <1>1, <1>9, <1>12, <1>13, Zenon

(* The bands after CalculateBackOff. *)
LEMMA ChargedBands ==
    ASSUME DutyInv, NEW off \in 0..MaxElapsed, NEW bs, bs = CalculateBackOff(off)
    PROVE  /\ bs \in Bands /\ bs[LastBand].TimeOff = off
           /\ \A b \in Band : bs[b].elapsed = bands[b].elapsed
           /\ \A b \in Band \ {LastBand} : bs[b].TimeOff = bands[b].TimeOff
<1>1. LastBand \in Band /\ bands \in Bands
  BY LastBandType, Zenon
<1>2. bs = [bands EXCEPT ![LastBand].TimeOff = off]
  BY Zenon DEF CalculateBackOff, LastBand
<1> QED
  BY <1>1, <1>2, SMT DEF Bands

LEMMA UpdatedBands ==
    ASSUME NEW bs \in Bands
    PROVE  /\ UpdateBands(bs) \in Bands
           /\ \A b \in Band : /\ UpdateBands(bs)[b].elapsed = bs[b].elapsed
                              /\ UpdateBands(bs)[b].TimeOff =
                                    IF ~DutyCycleOn \/ bs[b].TimeOff <= bs[b].elapsed THEN 0
                                    ELSE bs[b].TimeOff
<1>1. MaxElapsed \in Nat
  BY DutyCycleAssumption, Zenon
<1>2. CASE DutyCycleOn
  <2>1. UpdateBands(bs) = [b \in Band |-> IF bs[b].TimeOff <= bs[b].elapsed
                                         THEN [bs[b] EXCEPT !.TimeOff = 0] ELSE bs[b]]
    BY <1>2, Zenon DEF UpdateBands
  <2>2. /\ UpdateBands(bs) \in Bands
        /\ \A b \in Band : /\ UpdateBands(bs)[b].elapsed = bs[b].elapsed
                           /\ UpdateBands(bs)[b].TimeOff = IF bs[b].TimeOff <= bs[b].elapsed THEN 0
                                                           ELSE bs[b].TimeOff
    BY <1>1, <2>1, SMT DEF Bands
  <2> QED
    BY <1>2, <2>2, Zenon
<1>3. CASE ~DutyCycleOn
  <2>1. UpdateBands(bs) = [b \in Band |-> [bs[b] EXCEPT !.TimeOff = 0]]
    BY <1>3, Zenon DEF UpdateBands
  <2>2. /\ UpdateBands(bs) \in Bands
        /\ \A b \in Band : UpdateBands(bs)[b].elapsed = bs[b].elapsed /\ UpdateBands(bs)[b].TimeOff = 0
    BY <1>1, <2>1, SMT DEF Bands
  <2> QED
    BY <1>3, <2>2, Zenon
<1> QED
  BY <1>2, <1>3, Zenon

LEMMA AggregatedTypes ==
    ASSUME DutyInv, NEW m \in MaxDCycles, m # DeviceOff
    PROVE  AggregatedElapsed \in Nat /\ AggregatedBackOff(m) \in Nat
<1>1. AggregatedElapsed \in Nat
  <2>1. \A b \in Band : bands[b].elapsed \in Nat
    BY LastBandType, DutyCycleAssumption, SMT DEF Bands
  <2>2. {bands[b].elapsed : b \in stamped} \subseteq Nat
    <3>1. \A b \in stamped : b \in Band
      BY Zenon DEF DutyInv, DutyTypeOK
    <3> QED
      BY <2>1, <3>1, Zenon
  <2>3. CASE stamped = {}
    <3>1. AggregatedElapsed = 0 /\ 0 \in Nat
      BY <2>3, SMT DEF AggregatedElapsed
    <3> QED
      BY <3>1, Zenon
  <2>4. CASE stamped # {}
    <3>1. {bands[b].elapsed : b \in stamped} # {}
      BY <2>4, Zenon
    <3> QED
      BY <2>2, <2>4, <3>1, LeastNat, Zenon DEF AggregatedElapsed
  <2> QED
    BY <2>3, <2>4, Zenon
<1>2. PICK x \in Nat, y \in Nat \ {0}, a \in Nat : x = duty.TxTimeOnAir /\ y = 2^m /\ a = duty.AggregatedTimeOff
  <2>1. duty.AggregatedTimeOff \in Nat
    BY SMT DEF DutyInv, DutyTypeOK
  <2> QED
    BY <2>1, LastBandType, DutyCycleAssumption, Zenon
<1>3. x * y - x \in Nat /\ x * y \in Nat
  <2>1. x * y - x \in Nat
    BY TimesPredecessor
  <2> QED
    BY <2>1, SMT
<1>4. AggregatedBackOff(m) = (IF m = 0 THEN 0 ELSE a) + x * y - x
  BY <1>2, Zenon DEF AggregatedBackOff
<1>5. (IF m = 0 THEN 0 ELSE a) + x * y - x \in Nat
  BY <1>3, SMT
<1> QED
  BY <1>1, <1>4, <1>5, Zenon

LEMMA ParamsExcept ==
    ASSUME NEW p \in Params
    PROVE  /\ \A d \in DOMAIN TimeOnAir :
                 /\ [p EXCEPT !.datarate = d] \in Params /\ [p EXCEPT !.datarate = d].datarate = d
                 /\ [p EXCEPT !.datarate = d].mask = p.mask
           /\ \A k \in SUBSET Channel :
                 /\ [p EXCEPT !.mask = k] \in Params /\ [p EXCEPT !.mask = k].datarate = p.datarate
                 /\ [p EXCEPT !.mask = k].mask = k
<1>1. PICK D, M : D = DOMAIN TimeOnAir /\ M = SUBSET Channel
  BY Zenon
<1>2. p \in [joined : BOOLEAN, datarate : D, mask : M]
  BY <1>1, Zenon DEF Params
<1>3. \A d \in D : /\ [p EXCEPT !.datarate = d] \in [joined : BOOLEAN, datarate : D, mask : M]
                   /\ [p EXCEPT !.datarate = d].datarate = d
                   /\ [p EXCEPT !.datarate = d].mask = p.mask
  BY <1>2, SMT
<1>4. \A k \in M : /\ [p EXCEPT !.mask = k] \in [joined : BOOLEAN, datarate : D, mask : M]
                   /\ [p EXCEPT !.mask = k].datarate = p.datarate
                   /\ [p EXCEPT !.mask = k].mask = k
  BY <1>2, SMT
<1> QED
  BY <1>1, <1>3, <1>4, Zenon DEF Params

LEMMA FallBackUsable ==
    ASSUME NEW p \in Params, NEW q, q = FallBack(p)
    PROVE  q \in Params /\ Usable(q) # {} /\ Usable(q) \subseteq Channel
<1>1. /\ DefaultChannels \subseteq Channel /\ DefaultChannels # {}
      /\ \A c \in DefaultChannels : DefaultDatarate \in DrRange[c] /\ DefaultDatarate \in DOMAIN TimeOnAir
  BY DutyCycleAssumption, Zenon
<1>2. DefaultDatarate \in DOMAIN TimeOnAir
  BY <1>1, Zenon
<1>3. PICK r : r = IF p.mask = {} THEN [p EXCEPT !.mask = DefaultChannels] ELSE p
  BY Zenon
<1>4. r \in Params
  BY <1>1, <1>3, SMT DEF Params
<1>5. q = IF Usable(r) # {} THEN r
          ELSE [r EXCEPT !.datarate = DefaultDatarate, !.mask = @ \cup DefaultChannels]
  BY <1>3, Zenon DEF FallBack
<1>6. CASE Usable(r) # {}
  <2>1. q = r
    BY <1>5, <1>6, Zenon
  <2>2. r.mask \subseteq Channel
    BY <1>4, SMT DEF Params
  <2> QED
    BY <1>4, <1>6, <2>1, <2>2, Zenon DEF Usable
<1>7. CASE Usable(r) = {}
  <2>1. q = [r EXCEPT !.datarate = DefaultDatarate, !.mask = @ \cup DefaultChannels]
    BY <1>5, <1>7, Zenon
  <2>2. PICK k \in SUBSET Channel : k = r.mask \cup DefaultChannels
    <3>1. r.mask \in SUBSET Channel
      BY <1>4, SMT DEF Params
    <3> QED
      BY <1>1, <3>1, Zenon
  <2>3. PICK s : s = [r EXCEPT !.datarate = DefaultDatarate]
    BY Zenon
  <2>5. q = [s EXCEPT !.mask = k]
    BY <2>1, <2>2, <2>3, Zenon
  <2>6. s \in Params /\ s.datarate = DefaultDatarate
    BY <1>2, <1>4, <2>3, ParamsExcept, Zenon
  <2>4. q \in Params /\ q.datarate = DefaultDatarate /\ q.mask = k
    <3>1. \A j \in SUBSET Channel : /\ [s EXCEPT !.mask = j] \in Params
                                    /\ [s EXCEPT !.mask = j].datarate = s.datarate
                                    /\ [s EXCEPT !.mask = j].mask = j
      BY <2>6, ParamsExcept, Zenon
    <3> QED
      BY <2>5, <2>6, <3>1, Zenon
  <2> QED
    BY <1>1, <2>2, <2>4, Zenon DEF Usable
<1> QED
  BY <1>6, <1>7, Zenon


(* A band that is free after UpdateBands has rested. *)
LEMMA FreeBandRested ==
    ASSUME DutyInv, tx.phase # "sending", ~owed.waived, NEW p \in Params, NEW off \in BackOffTimes(p),
           NEW bs, bs = CalculateBackOff(off), NEW b \in Band
    PROVE  /\ bs[b].TimeOff >= owed.rest[b] \/ bs[b].elapsed >= owed.rest[b]
           /\ UpdateBands(bs)[b].TimeOff >= owed.rest[b] \/ bs[b].elapsed >= owed.rest[b]
           /\ UpdateBands(bs)[b].TimeOff = 0 => bs[b].elapsed >= owed.rest[b]
<1>0. DutyCycleOn
  BY Zenon DEF DutyInv
<1>1. /\ off \in 0..MaxElapsed /\ off >= duty.TxTimeOnAir * (DCycle[LastBand] - 1)
  BY <1>0, BackOffBounds, Zenon
<1>2. /\ bs \in Bands /\ bs[LastBand].TimeOff = off
      /\ bs[b].elapsed = bands[b].elapsed
      /\ b # LastBand => bs[b].TimeOff = bands[b].TimeOff
  <2>1. \A a \in Band \ {LastBand} : bs[a].TimeOff = bands[a].TimeOff
    BY <1>1, ChargedBands
  <2>2. bs \in Bands /\ bs[LastBand].TimeOff = off /\ bs[b].elapsed = bands[b].elapsed
    BY <1>1, ChargedBands
  <2> QED
    BY <2>1, <2>2, Zenon
<1>3. UpdateBands(bs)[b].TimeOff = IF bs[b].TimeOff <= bs[b].elapsed THEN 0 ELSE bs[b].TimeOff
  BY <1>0, <1>2, UpdatedBands, Zenon
<1>4. PICK o \in Nat, e \in Nat, r \in Nat : o = bs[b].TimeOff /\ e = bs[b].elapsed /\ r = owed.rest[b]
  <2>1. bs[b].TimeOff \in Nat /\ bs[b].elapsed \in Nat
    BY <1>2, DutyCycleAssumption, SMT DEF Bands
  <2>2. owed.rest[b] \in Nat
    BY SMT DEF DutyInv
  <2> QED
    BY <2>1, <2>2, Zenon
<1>5. o >= r \/ e >= r
  <2>1. CASE b = LastBand
    BY <1>1, <1>2, <1>4, <2>1, Zenon DEF DutyInv
  <2>2. CASE b # LastBand
    BY <1>2, <1>4, <2>2, Zenon DEF DutyInv, Rests
  <2> QED
    BY <2>1, <2>2, Zenon
<1>6. (IF o <= e THEN 0 ELSE o) >= r \/ e >= r
  BY <1>5, SMT
<1>7. (IF o <= e THEN 0 ELSE o) = 0 => e >= r
  BY <1>5, SMT
<1> QED
  BY <1>3, <1>4, <1>5, <1>6, <1>7, Zenon

(* The delay until the first band is free. *)
LEMMA DelayType ==
    ASSUME NEW bs \in Bands, \A b \in Band : bs[b].TimeOff = 0 \/ bs[b].TimeOff > bs[b].elapsed,
           NEW q \in Params, Usable(q) # {}, Usable(q) \subseteq Channel, EnabledChannels(bs, q) = {}
    PROVE  NextTxDelay(bs) \in Nat
<1> DEFINE busy == {x \in Band : bs[x].TimeOff # 0}
           T == {bs[b].TimeOff - bs[b].elapsed : b \in busy}
<1>1. PICK c \in Usable(q) : bs[BandOf[c]].TimeOff # 0
  BY Zenon DEF EnabledChannels
<1>2. BandOf[c] \in busy
  BY <1>1, DutyCycleAssumption, Zenon
<1>3. T # {}
  BY <1>2, Zenon
<1>4. T \subseteq Nat
  <2>1. ASSUME NEW b \in busy PROVE bs[b].TimeOff - bs[b].elapsed \in Nat
    <3>1. PICK o \in Nat, e \in Nat : o = bs[b].TimeOff /\ e = bs[b].elapsed
      <4>1. bs[b].TimeOff \in Nat /\ bs[b].elapsed \in Nat
        BY DutyCycleAssumption, SMT DEF Bands
      <4> QED
        BY <4>1, Zenon
    <3>2. o > e
      BY <3>1, Zenon
    <3>3. o - e \in Nat
      BY <3>2, SMT
    <3> QED
      BY <3>1, <3>3, Zenon
  <2> QED
    BY <2>1, Zenon
<1>5. Min(T) \in T
  <2> HIDE DEF T
  <2> QED
    BY <1>3, <1>4, LeastNat, Zenon
<1> QED
  BY <1>4, <1>5, Zenon DEF NextTxDelay


(***************************************************************************)
(* The steps.                                                              *)
(***************************************************************************)
(* What a step may do to the regulation: start a transmission only in a    *)
(* band that has rested.                                                   *)
StartsRested ==
    tx.phase # "sending" /\ tx'.phase = "sending" /\ ~owed.waived
       => LET b == BandOf[tx'.channel] IN bands[b].elapsed >= Min({owed.rest[b], MaxElapsed})

Duties == [AggregatedTimeOff : Nat, MaxDCycle : MaxDCycles, TxTimeOnAir : Nat, LastTxChannel : Channel]

Txs == [phase : {"idle", "delayed", "sending"}, channel : Channel, delay : Nat]

LEMMA FirstChannelType == FirstChannel \in Channel
BY DutyCycleAssumption, Zenon DEF FirstChannel

LEMMA DutyTypes ==
    ASSUME DutyInv
    PROVE  /\ bands \in Bands /\ params \in Params /\ tx \in Txs /\ duty \in Duties
           /\ duty.AggregatedTimeOff \in Nat /\ duty.MaxDCycle \in MaxDCycles
           /\ duty.TxTimeOnAir \in Nat /\ duty.LastTxChannel \in Channel
<1>1. bands \in Bands /\ params \in Params /\ tx \in Txs /\ duty \in Duties
  BY Zenon DEF DutyInv, DutyTypeOK, Bands, Params, Txs, Duties
<1> QED
  BY <1>1, SMT DEF Duties

LEMMA TimeOnAirExcept ==
    ASSUME NEW d \in Duties, NEW x \in Nat, NEW e, e = [d EXCEPT !.TxTimeOnAir = x]
    PROVE  e \in Duties /\ e.TxTimeOnAir = x /\ e.LastTxChannel = d.LastTxChannel
BY SMT DEF Duties

LEMMA DutyExcept ==
    ASSUME NEW d \in Duties, NEW a \in Nat, NEW m \in MaxDCycles
    PROVE  LET e == [d EXCEPT !.AggregatedTimeOff = a, !.MaxDCycle = m]
           IN  e \in Duties /\ e.TxTimeOnAir = d.TxTimeOnAir /\ e.LastTxChannel = d.LastTxChannel
<1>0. PICK e : e = [d EXCEPT !.AggregatedTimeOff = a, !.MaxDCycle = m]
  BY Zenon
<1>1. PICK g : g = [d EXCEPT !.AggregatedTimeOff = a]
  BY Zenon
<1>2. g \in Duties /\ g.TxTimeOnAir = d.TxTimeOnAir /\ g.LastTxChannel = d.LastTxChannel
  BY <1>1, SMT DEF Duties
<1>3. e = [g EXCEPT !.MaxDCycle = m]
  BY <1>0, <1>1, Zenon
<1>4. e \in Duties /\ e.TxTimeOnAir = d.TxTimeOnAir /\ e.LastTxChannel = d.LastTxChannel
  BY <1>2, <1>3, SMT DEF Duties
<1> QED
  BY <1>0, <1>4, Zenon

(* The parts of the invariant a step of ScheduleTx has to keep. *)
LEMMA ScheduleKeeps ==
    ASSUME DutyInv, tx.phase # "sending", NEW p \in Params, NEW m \in MaxDCycles, ScheduleTx(p, m)
    PROVE  DutyInv' /\ StartsRested
<1>1. PICK off \in BackOffTimes(p) :
          IF AggregatedBackOff(m) <= AggregatedElapsed
          THEN /\ bands' = UpdateBands(CalculateBackOff(off))
               /\ params' = FallBack(p)
               /\ IF EnabledChannels(bands', params') # {}
                  THEN \E c \in EnabledChannels(bands', params') : SendFrameOnChannel(c, m)
                  ELSE /\ Delay(NextTxDelay(bands'))
                       /\ duty' = [duty EXCEPT !.AggregatedTimeOff = 0, !.MaxDCycle = m]
          ELSE /\ bands' = CalculateBackOff(off)
               /\ params' = IF p.mask = {} THEN [p EXCEPT !.mask = DefaultChannels] ELSE p
               /\ duty' = [duty EXCEPT !.AggregatedTimeOff = AggregatedBackOff(m), !.MaxDCycle = m]
               /\ Delay(AggregatedBackOff(m) - AggregatedElapsed)
  BY Zenon DEF ScheduleTx
<1>2. /\ owed' = owed /\ stamped' = stamped /\ DutyCycleOn' = DutyCycleOn /\ m # DeviceOff
      /\ stamped \subseteq Band /\ DutyCycleOn \in BOOLEAN
      /\ ~owed.waived => DutyCycleOn
  BY Zenon DEF ScheduleTx, DutyInv, DutyTypeOK
<1>3. PICK bs : bs = CalculateBackOff(off)
  BY Zenon
<1>4. bs \in Bands /\ \A b \in Band : bs[b].elapsed = bands[b].elapsed
  <2>1. off \in 0..MaxElapsed
    BY BackOffBounds, Zenon
  <2> QED
    BY <1>3, <2>1, ChargedBands
<1>5. PICK us : us = UpdateBands(bs)
  BY Zenon
<1>6. /\ us \in Bands
      /\ \A b \in Band : /\ us[b].elapsed = bs[b].elapsed
                         /\ us[b].TimeOff = IF ~DutyCycleOn \/ bs[b].TimeOff <= bs[b].elapsed THEN 0
                                            ELSE bs[b].TimeOff
  BY <1>4, <1>5, UpdatedBands, Zenon
<1>7. ~owed.waived => \A b \in Band :
         /\ bs[b].TimeOff >= owed.rest[b] \/ bs[b].elapsed >= owed.rest[b]
         /\ us[b].TimeOff >= owed.rest[b] \/ us[b].elapsed >= owed.rest[b]
         /\ us[b].TimeOff = 0 => bands[b].elapsed >= owed.rest[b]
  <2> SUFFICES ASSUME ~owed.waived, NEW b \in Band
               PROVE  /\ bs[b].TimeOff >= owed.rest[b] \/ bs[b].elapsed >= owed.rest[b]
                      /\ us[b].TimeOff >= owed.rest[b] \/ us[b].elapsed >= owed.rest[b]
                      /\ us[b].TimeOff = 0 => bands[b].elapsed >= owed.rest[b]
    BY Zenon
  <2>1. /\ bs[b].TimeOff >= owed.rest[b] \/ bs[b].elapsed >= owed.rest[b]
        /\ UpdateBands(bs)[b].TimeOff >= owed.rest[b] \/ bs[b].elapsed >= owed.rest[b]
        /\ UpdateBands(bs)[b].TimeOff = 0 => bs[b].elapsed >= owed.rest[b]
    BY <1>3, FreeBandRested
  <2> QED
    BY <1>4, <1>5, <1>6, <2>1, Zenon
<1>8. AggregatedElapsed \in Nat /\ AggregatedBackOff(m) \in Nat
  BY <1>2, AggregatedTypes, Zenon
<1>9. owed \in [rest : [Band -> Nat], waived : BOOLEAN]
  BY Zenon DEF DutyInv
<1>10. ASSUME NEW a \in Nat, duty' = [duty EXCEPT !.AggregatedTimeOff = a, !.MaxDCycle = m],
              tx'.phase = "delayed", tx' \in Txs, params' \in Params, bands' = bs \/ bands' = us
       PROVE  DutyInv' /\ StartsRested
  <2>1. /\ duty' \in Duties
        /\ duty'.TxTimeOnAir = duty.TxTimeOnAir /\ duty'.LastTxChannel = duty.LastTxChannel
    <3>1. duty \in Duties
      BY DutyTypes, Zenon
    <3>2. PICK d, e : d = duty /\ e = duty'
      BY Zenon
    <3>3. e = [d EXCEPT !.AggregatedTimeOff = a, !.MaxDCycle = m]
      BY <1>10, <3>2, Zenon
    <3>4. e \in Duties /\ e.TxTimeOnAir = d.TxTimeOnAir /\ e.LastTxChannel = d.LastTxChannel
      <4>1. d \in Duties
        BY <3>1, <3>2, Zenon
      <4> QED
        BY <3>3, <4>1, DutyExcept, Zenon
    <3> QED
      BY <3>2, <3>4, Zenon
  <2>2. DutyTypeOK'
    BY <1>2, <1>4, <1>6, <1>10, <2>1, Zenon DEF DutyTypeOK, Bands, Params, Txs, Duties
  <2>3. LastBand' = LastBand
    BY <2>1, Zenon DEF LastBand
  <2>4. ~owed.waived => \A b \in Band : Rests(b)'
    BY <1>2, <1>7, <1>10, Zenon DEF Rests
  <2>5. StartsRested
    BY <1>10, Zenon DEF StartsRested
  <2> QED
    BY <1>2, <1>9, <2>1, <2>2, <2>3, <2>4, <2>5, Zenon DEF DutyInv
<1>11. ASSUME NEW t \in Nat, Delay(t) PROVE tx' \in Txs /\ tx'.phase = "delayed"
  BY <1>11, FirstChannelType, SMT DEF Delay, Txs
<1>12. CASE ~(AggregatedBackOff(m) <= AggregatedElapsed)
  <2>1. AggregatedBackOff(m) - AggregatedElapsed \in Nat
    BY <1>8, <1>12, SMT
  <2>2. params' \in Params
    <3>1. DefaultChannels \in SUBSET Channel
      BY DutyCycleAssumption, Zenon
    <3>2. [p EXCEPT !.mask = DefaultChannels] \in Params
      BY <3>1, ParamsExcept, Zenon
    <3> QED
      BY <1>1, <1>12, <3>2, Zenon
  <2> QED
    BY <1>1, <1>3, <1>8, <1>10, <1>11, <1>12, <2>1, <2>2, Zenon
<1>13. CASE AggregatedBackOff(m) <= AggregatedElapsed
  <2>1. bands' = us /\ params' = FallBack(p)
    BY <1>1, <1>3, <1>5, <1>13, Zenon
  <2>2. params' \in Params /\ Usable(params') # {} /\ Usable(params') \subseteq Channel
    BY <2>1, FallBackUsable
  <2>3. CASE EnabledChannels(bands', params') = {}
    <3>1. NextTxDelay(bands') \in Nat
      <4>1. PICK q : q = params'
        BY Zenon
      <4>2. \A b \in Band : us[b].TimeOff = 0 \/ us[b].TimeOff > us[b].elapsed
        <5>1. ASSUME NEW b \in Band PROVE us[b].TimeOff = 0 \/ us[b].TimeOff > us[b].elapsed
          <6>1. PICK o \in Nat, e \in Nat : o = bs[b].TimeOff /\ e = bs[b].elapsed
            BY <1>4, DutyCycleAssumption, SMT DEF Bands
          <6>2. us[b].TimeOff \in {0, IF o <= e THEN 0 ELSE o} /\ us[b].elapsed = e
            BY <1>6, <6>1, Zenon
          <6> QED
            BY <6>2, SMT
        <5> QED
          BY <5>1, Zenon
      <4>3. NextTxDelay(us) \in Nat
        BY <1>6, <2>1, <2>2, <2>3, <4>1, <4>2, DelayType, Zenon
      <4> QED
        BY <2>1, <4>3, Zenon
    <3>2. 0 \in Nat
      BY SMT
    <3> QED
      BY <1>1, <1>10, <1>11, <1>13, <2>1, <2>2, <2>3, <3>1, <3>2, Zenon
  <2>4. CASE EnabledChannels(bands', params') # {}
    <3>1. PICK c \in EnabledChannels(bands', params') : SendFrameOnChannel(c, m)
      BY <1>1, <1>13, <2>4, Zenon
    <3>2. c \in Channel /\ us[BandOf[c]].TimeOff = 0 /\ BandOf[c] \in Band
      BY <2>1, <2>2, <3>1, DutyCycleAssumption, Zenon DEF EnabledChannels
    <3>3. tx' \in Txs /\ tx'.phase = "sending" /\ tx'.channel = c
      BY <3>1, <3>2, SMT DEF SendFrameOnChannel, Txs
    <3>4. PICK x \in Nat : x = TimeOnAir[params'.datarate] /\ \E d \in DOMAIN TimeOnAir : x = TimeOnAir[d]
      <4>1. params'.datarate \in DOMAIN TimeOnAir
        BY <2>2, SMT DEF Params
      <4> QED
        BY <4>1, DutyCycleAssumption, Zenon
    <3>5. PICK z \in Nat : z = 0
      BY SMT
    <3>6. PICK e : e = [duty EXCEPT !.AggregatedTimeOff = z, !.MaxDCycle = m] /\ duty' = [e EXCEPT !.TxTimeOnAir = x]
      BY <3>1, <3>4, <3>5, Zenon DEF SendFrameOnChannel
    <3>7. duty' \in Duties /\ duty'.TxTimeOnAir = x
      <4>1. duty \in Duties
        BY DutyTypes, Zenon
      <4>2. e \in Duties
        BY <3>6, <4>1, DutyExcept, Zenon
      <4>3. PICK f : f = duty' /\ f = [e EXCEPT !.TxTimeOnAir = x]
        BY <3>6, Zenon
      <4>4. f \in Duties /\ f.TxTimeOnAir = x
        BY <4>2, <4>3, TimeOnAirExcept
      <4> QED
        BY <4>3, <4>4, Zenon
    <3>8. DutyTypeOK'
      BY <1>2, <1>6, <2>1, <2>2, <3>3, <3>7, Zenon DEF DutyTypeOK, Bands, Params, Txs, Duties
    <3>9. ~owed.waived => \A b \in Band : Rests(b)'
      BY <1>2, <1>7, <2>1, Zenon DEF Rests
    <3>10. DutyInv'
      BY <1>2, <1>9, <3>3, <3>4, <3>7, <3>8, <3>9, Zenon DEF DutyInv
    <3>11. StartsRested
      <4> SUFFICES ASSUME ~owed.waived
                   PROVE  bands[BandOf[c]].elapsed >= Min({owed.rest[BandOf[c]], MaxElapsed})
        BY <3>3, Zenon DEF StartsRested
      <4>1. bands[BandOf[c]].elapsed >= owed.rest[BandOf[c]]
        BY <1>7, <3>2, Zenon
      <4>2. PICK y \in Nat, r \in Nat : y = bands[BandOf[c]].elapsed /\ r = owed.rest[BandOf[c]]
        BY <1>9, <3>2, LastBandType, DutyCycleAssumption, SMT DEF Bands
      <4>3. Min({r, MaxElapsed}) <= r /\ Min({r, MaxElapsed}) \in {r, MaxElapsed} /\ MaxElapsed \in Nat
        <5>1. r \in Int /\ MaxElapsed \in Int /\ MaxElapsed \in Nat
          BY DutyCycleAssumption, SMT
        <5> QED
          BY <5>1, LeastOfTwo, Zenon
      <4>4. PICK k : k = Min({r, MaxElapsed})
        BY Zenon
      <4>5. y >= k
        <5>1. k <= r /\ k \in Nat
          BY <4>3, <4>4, Zenon
        <5>2. y >= r
          BY <4>1, <4>2, Zenon
        <5> QED
          BY <5>1, <5>2, SMT
      <4> QED
        BY <4>2, <4>4, <4>5, Zenon
    <3> QED
      BY <3>10, <3>11, Zenon
  <2> QED
    BY <2>3, <2>4, Zenon
<1> QED
  BY <1>12, <1>13, Zenon


LEMMA AdrNextParams ==
    ASSUME NEW p \in Params, NEW q \in AdrNextDr(p)
    PROVE  q \in Params
<1>1. p.datarate \in DOMAIN TimeOnAir /\ p.mask \in SUBSET Channel
  BY Zenon DEF Params
<1>2. CASE q = p
  BY <1>2
<1>3. CASE q # p
  <2>1. PICK d, k : d = p.datarate - 1 /\ k = p.mask \cup (IF p.datarate = 1 THEN DefaultChannels ELSE {})
    BY Zenon
  <2>2. p.datarate # 0 /\ q = [p EXCEPT !.datarate = d, !.mask = k]
    BY <1>3, <2>1, Zenon DEF AdrNextDr
  <2>3. d \in DOMAIN TimeOnAir
    <3>1. PICK e \in Nat : e = p.datarate
      BY <1>1, DutyCycleAssumption, Zenon
    <3>2. e > 0
      BY <2>2, <3>1, SMT
    <3> QED
      BY <1>1, <2>1, <3>1, <3>2, DutyCycleAssumption, Zenon
  <2>4. k \in SUBSET Channel
    BY <1>1, <2>1, DutyCycleAssumption, Zenon
  <2>5. PICK r : r = [p EXCEPT !.datarate = d]
    BY Zenon
  <2>6. r \in Params
    BY <2>3, <2>5, ParamsExcept, Zenon
  <2>7. q = [r EXCEPT !.mask = k]
    BY <2>2, <2>5, Zenon
  <2> QED
    BY <2>4, <2>6, <2>7, ParamsExcept, Zenon
<1> QED
  BY <1>2, <1>3

(* A step that touches neither the bands, the account nor the last         *)
(* transmission, and starts none.                                          *)
LEMMA QuietKeeps ==
    ASSUME DutyInv, DutyTypeOK', bands' = bands, DutyCycleOn' = DutyCycleOn, owed' = owed, tx' = tx,
           duty'.TxTimeOnAir = duty.TxTimeOnAir, duty'.LastTxChannel = duty.LastTxChannel
    PROVE  DutyInv' /\ StartsRested
<1>1. LastBand' = LastBand
  BY Zenon DEF LastBand
<1>2. \A b \in Band : Rests(b)' <=> Rests(b)
  BY Zenon DEF Rests
<1>3. DutyInv'
  BY <1>1, <1>2, Zenon DEF DutyInv
<1> QED
  BY <1>3, Zenon DEF StartsRested

LEMMA DoneKeeps ==
    ASSUME DutyInv, TxDoneOnChannel
    PROVE  DutyInv' /\ StartsRested
<1>1. PICK c \in Channel, B \in Band : c = tx.channel /\ B = BandOf[c]
  <2>1. tx.channel \in Channel
    BY DutyTypes, SMT DEF Txs
  <2> QED
    BY <2>1, DutyCycleAssumption, Zenon
<1>2. PICK v : v = duty.TxTimeOnAir * (DCycle[B] - 1)
  BY Zenon
<1>3. v \in Nat
  <2>1. duty.TxTimeOnAir \in Nat /\ DCycle[B] \in Nat \ {0}
    BY DutyTypes, DutyCycleAssumption, Zenon
  <2>2. duty.TxTimeOnAir * (DCycle[B] - 1) \in Nat
    BY <2>1, TimesPredecessor
  <2> QED
    BY <1>2, <2>2, Zenon
<1>4. /\ duty' = [duty EXCEPT !.LastTxChannel = c]
      /\ bands' = [bands EXCEPT ![B] = [bands[B] EXCEPT !.elapsed = 0]]
      /\ owed' = [owed EXCEPT !.rest = [owed.rest EXCEPT ![B] = v]]
      /\ tx' = Idle /\ params' = params /\ tx.phase = "sending"
      /\ stamped' = stamped \cup {B} /\ DutyCycleOn' = DutyCycleOn
      /\ stamped \subseteq Band /\ DutyCycleOn \in BOOLEAN
  BY <1>1, <1>2, Zenon DEF TxDoneOnChannel, DutyInv, DutyTypeOK
<1>5. duty' \in Duties /\ duty'.TxTimeOnAir = duty.TxTimeOnAir /\ duty'.LastTxChannel = c
  BY <1>4, DutyTypes, SMT DEF Duties
<1>6. bands' \in Bands /\ \A b \in Band \ {B} : bands'[b] = bands[b]
  <2>1. bands \in Bands /\ MaxElapsed \in Nat
    BY DutyTypes, DutyCycleAssumption, Zenon
  <2>2. [bands[B] EXCEPT !.elapsed = 0] \in [TimeOff : 0..MaxElapsed, elapsed : 0..MaxElapsed]
    BY <2>1, SMT DEF Bands
  <2> QED
    BY <1>4, <2>1, <2>2, Zenon DEF Bands
<1>7. /\ owed' \in [rest : [Band -> Nat], waived : BOOLEAN]
      /\ owed'.waived = owed.waived /\ owed'.rest[B] = v
      /\ \A b \in Band \ {B} : owed'.rest[b] = owed.rest[b]
  <2>1. owed \in [rest : [Band -> Nat], waived : BOOLEAN]
    BY Zenon DEF DutyInv
  <2>2. PICK f : f = [owed.rest EXCEPT ![B] = v]
    BY Zenon
  <2>3. f \in [Band -> Nat] /\ f[B] = v /\ \A b \in Band \ {B} : f[b] = owed.rest[b]
    BY <1>3, <2>1, <2>2, SMT
  <2>4. owed' = [owed EXCEPT !.rest = f]
    BY <1>4, <2>2, Zenon
  <2>5. owed' \in [rest : [Band -> Nat], waived : BOOLEAN] /\ owed'.waived = owed.waived /\ owed'.rest = f
    BY <2>1, <2>3, <2>4, SMT
  <2> QED
    BY <2>3, <2>5, Zenon
<1>8. tx' \in Txs /\ tx'.phase = "idle"
  BY <1>4, FirstChannelType, SMT DEF Idle, Txs
<1>9. tx'.phase # "sending"
  BY <1>8, SMT
<1>10. DutyTypeOK'
  BY <1>4, <1>5, <1>6, <1>8, DutyTypes, Zenon DEF DutyTypeOK, Bands, Params, Txs, Duties
<1>11. LastBand' = B
  BY <1>1, <1>5, Zenon DEF LastBand
<1>12. ~owed.waived => \A b \in Band \ {B} : Rests(b)'
  BY <1>4, <1>6, <1>7, Zenon DEF DutyInv, Rests
<1>13. DutyInv'
  BY <1>2, <1>4, <1>5, <1>7, <1>9, <1>10, <1>11, <1>12, Zenon DEF DutyInv
<1> QED
  BY <1>9, <1>13, Zenon DEF StartsRested

LEMMA TimeoutKeeps ==
    ASSUME DutyInv, TxTimeoutOnChannel
    PROVE  DutyInv' /\ StartsRested
<1>1. tx' \in Txs /\ tx'.phase = "idle"
  BY FirstChannelType, SMT DEF Idle, Txs, TxTimeoutOnChannel
<1>2. tx'.phase # "sending"
  BY <1>1, SMT
<1>3. owed' \in [rest : [Band -> Nat], waived : BOOLEAN] /\ owed'.waived
  <2>1. owed \in [rest : [Band -> Nat], waived : BOOLEAN] /\ owed' = [owed EXCEPT !.waived = TRUE]
    BY Zenon DEF DutyInv, TxTimeoutOnChannel
  <2>2. owed' \in [rest : [Band -> Nat], waived : BOOLEAN]
    <3>1. PICK R, T, t : R = [Band -> Nat] /\ T = BOOLEAN /\ t = TRUE /\ t \in T
      BY Zenon
    <3>2. owed \in [rest : R, waived : T] /\ owed' = [owed EXCEPT !.waived = t] /\ t \in T
      BY <2>1, <3>1, Zenon
    <3>3. owed' \in [rest : R, waived : T]
      BY <3>2, SMT
    <3> QED
      BY <3>1, <3>3, Zenon
  <2>3. owed'.waived = TRUE
    BY <2>1, SMT
  <2> QED
    BY <2>2, <2>3, Zenon
<1>4. DutyTypeOK' /\ duty' = duty
  BY <1>1, Zenon DEF DutyInv, DutyTypeOK, Txs, TxTimeoutOnChannel
<1>5. DutyInv'
  BY <1>3, <1>4, Zenon DEF DutyInv
<1> QED
  BY <1>2, <1>5, Zenon DEF StartsRested


LEMMA SwitchKeeps ==
    ASSUME DutyInv, NEW enable \in BOOLEAN, LoRaMacTestSetDutyCycleOn(enable)
    PROVE  DutyInv' /\ StartsRested
<1>1. /\ DutyCycleOn' = enable /\ UNCHANGED <<bands, stamped, duty, params, tx>>
      /\ owed' = [owed EXCEPT !.waived = owed.waived \/ ~enable]
  BY Zenon DEF LoRaMacTestSetDutyCycleOn
<1>2. owed \in [rest : [Band -> Nat], waived : BOOLEAN]
  BY Zenon DEF DutyInv
<1>3. PICK w \in BOOLEAN : w = (owed.waived \/ ~enable)
  BY Zenon
<1>4. owed' \in [rest : [Band -> Nat], waived : BOOLEAN] /\ owed'.waived = w /\ owed'.rest = owed.rest
  <2>1. PICK R, T : R = [Band -> Nat] /\ T = BOOLEAN
    BY Zenon
  <2>2. owed \in [rest : R, waived : T] /\ owed' = [owed EXCEPT !.waived = w] /\ w \in T
    BY <1>1, <1>2, <1>3, <2>1, Zenon
  <2>3. owed' \in [rest : R, waived : T] /\ owed'.waived = w /\ owed'.rest = owed.rest
    BY <2>2, SMT
  <2> QED
    BY <2>1, <2>3, Zenon
<1>5. DutyTypeOK'
  BY <1>1, Zenon DEF DutyInv, DutyTypeOK
<1>6. LastBand' = LastBand /\ \A b \in Band : Rests(b)' <=> Rests(b)
  BY <1>1, <1>4, Zenon DEF LastBand, Rests
<1>7. DutyInv'
  BY <1>1, <1>3, <1>4, <1>5, <1>6, Zenon DEF DutyInv
<1> QED
  BY <1>1, <1>7, Zenon DEF StartsRested

LEMMA TickKeeps ==
    ASSUME DutyInv, DutyTick
    PROVE  DutyInv' /\ StartsRested
<1>1. MaxElapsed \in Nat /\ bands \in Bands /\ duty \in Duties /\ tx \in Txs
  BY DutyTypes, DutyCycleAssumption, Zenon
<1>2. PICK x : x = IF AggregatedElapsed = MaxElapsed /\ duty.AggregatedTimeOff > 0
                   THEN duty.AggregatedTimeOff - 1 ELSE duty.AggregatedTimeOff
  BY Zenon
<1>3. duty' = [duty EXCEPT !.AggregatedTimeOff = x]
  BY <1>2, Zenon DEF DutyTick
<1>4. x \in Nat
  <2>1. duty.AggregatedTimeOff \in Nat
    BY DutyTypes, Zenon
  <2> QED
    BY <1>2, <2>1, SMT
<1>5. duty' \in Duties /\ duty'.TxTimeOnAir = duty.TxTimeOnAir /\ duty'.LastTxChannel = duty.LastTxChannel
  BY <1>1, <1>3, <1>4, SMT DEF Duties
<1>6. PICK y : y = IF tx.phase = "delayed" THEN tx.delay - 1 ELSE tx.delay
  BY Zenon
<1>7. y \in Nat
  <2>1. tx.delay \in Nat /\ (tx.phase = "delayed" => tx.delay > 0)
    BY <1>1, SMT DEF Txs, DutyTick
  <2> QED
    BY <1>6, <2>1, SMT
<1>8. tx' \in Txs /\ tx'.phase = tx.phase
  <2>1. tx' = [tx EXCEPT !.delay = y]
    BY <1>6, Zenon DEF DutyTick
  <2> QED
    BY <1>1, <1>7, <2>1, SMT DEF Txs
<1>9. ASSUME NEW b \in Band
      PROVE  /\ bands'[b] \in [TimeOff : 0..MaxElapsed, elapsed : 0..MaxElapsed]
             /\ bands'[b].TimeOff = bands[b].TimeOff /\ bands'[b].elapsed >= bands[b].elapsed
  <2>1. PICK r \in [TimeOff : 0..MaxElapsed, elapsed : 0..MaxElapsed] : r = bands[b]
    BY <1>1, Zenon DEF Bands
  <2>2. PICK k : k = Min({r.elapsed + 1, MaxElapsed})
    BY Zenon
  <2>3. k \in 0..MaxElapsed /\ k >= r.elapsed
    <3>1. PICK e \in Int, M \in Int : e = r.elapsed + 1 /\ M = MaxElapsed
      BY <1>1, SMT
    <3>2. Min({e, M}) \in {e, M} /\ Min({e, M}) <= e /\ Min({e, M}) <= M
      BY LeastOfTwo, Zenon
    <3>3. k \in {e, M} /\ k <= e /\ k <= M
      BY <2>2, <3>1, <3>2, Zenon
    <3> QED
      BY <1>1, <3>1, <3>3, SMT
  <2>4. PICK s : s = [r EXCEPT !.elapsed = k]
    BY Zenon
  <2>5. bands'[b] = s \/ bands'[b] = r
    BY <2>1, <2>2, <2>4, Zenon DEF DutyTick
  <2>6. /\ s \in [TimeOff : 0..MaxElapsed, elapsed : 0..MaxElapsed]
        /\ s.TimeOff = r.TimeOff /\ s.elapsed >= r.elapsed /\ r.elapsed >= r.elapsed
    BY <1>1, <2>3, <2>4, SMT
  <2> QED
    BY <2>1, <2>5, <2>6, Zenon
<1>10. bands' \in Bands
  <2>1. DOMAIN bands' = Band /\ bands' = [b \in Band |-> bands'[b]]
    BY Zenon DEF DutyTick
  <2> QED
    BY <1>9, <2>1, Zenon DEF Bands
<1>11. DutyTypeOK'
  BY <1>5, <1>8, <1>10, DutyTypes, Zenon DEF DutyInv, DutyTypeOK, Bands, Params, Txs, Duties, DutyTick
<1>12. LastBand' = LastBand /\ owed' = owed /\ DutyCycleOn' = DutyCycleOn
  BY <1>5, Zenon DEF LastBand, DutyTick
<1>13. ASSUME NEW b \in Band, Rests(b) PROVE Rests(b)'
  <2>1. PICK e \in Nat, f \in Nat, r \in Nat : e = bands[b].elapsed /\ f = bands'[b].elapsed /\ r = owed.rest[b]
    <3>1. bands[b].elapsed \in Nat
      BY <1>1, SMT DEF Bands
    <3>2. bands'[b].elapsed \in Nat
      BY <1>1, <1>10, SMT DEF Bands
    <3>3. owed.rest[b] \in Nat
      BY SMT DEF DutyInv
    <3> QED
      BY <3>1, <3>2, <3>3, Zenon
  <2>2. e >= r => f >= r
    <3>1. f >= e
      BY <1>9, <2>1, Zenon
    <3> QED
      BY <3>1, SMT
  <2> QED
    BY <1>9, <1>12, <1>13, <2>1, <2>2, Zenon DEF Rests
<1>14. DutyInv'
  BY <1>5, <1>8, <1>11, <1>12, <1>13, Zenon DEF DutyInv
<1> QED
  BY <1>8, <1>14, Zenon DEF StartsRested

LEMMA CommandKeeps ==
    ASSUME DutyInv,
           \/ \E cfList \in SUBSET (Channel \ DefaultChannels) : JoinAccepted(cfList)
           \/ \E d \in DOMAIN TimeOnAir : \E mask \in (SUBSET Channel) \ {{}} : LinkAdrReq(d, mask)
           \/ \E m \in MaxDCycles : DutyCycleReq(m)
    PROVE  DutyInv' /\ StartsRested
<1>1. CASE \E cfList \in SUBSET (Channel \ DefaultChannels) : JoinAccepted(cfList)
  <2>1. PICK cfList \in SUBSET (Channel \ DefaultChannels) : JoinAccepted(cfList)
    BY <1>1
  <2>2. DefaultDatarate \in DOMAIN TimeOnAir
    BY DutyCycleAssumption, Zenon
  <2>3. PICK k : k = params.mask \cup cfList
    BY Zenon
  <2>4. k \in SUBSET Channel
    BY <2>3, DutyTypes, Zenon DEF Params
  <2>5. params' = [joined |-> TRUE, datarate |-> DefaultDatarate, mask |-> k]
    BY <2>1, <2>3, Zenon DEF JoinAccepted
  <2>6. params' \in Params
    BY <2>2, <2>4, <2>5, Zenon DEF Params
  <2>7. /\ bands' = bands /\ duty' = duty /\ tx' = tx /\ owed' = owed
        /\ stamped' = stamped /\ DutyCycleOn' = DutyCycleOn
    BY <2>1, Zenon DEF JoinAccepted
  <2>8. DutyTypeOK'
    BY <2>6, <2>7, Zenon DEF DutyInv, DutyTypeOK, Params
  <2> QED
    BY <2>7, <2>8, QuietKeeps, Zenon
<1>2. CASE \E d \in DOMAIN TimeOnAir : \E mask \in (SUBSET Channel) \ {{}} : LinkAdrReq(d, mask)
  <2>1. PICK d \in DOMAIN TimeOnAir : \E mask \in (SUBSET Channel) \ {{}} : LinkAdrReq(d, mask)
    BY <1>2
  <2>2. PICK mask \in (SUBSET Channel) \ {{}} : LinkAdrReq(d, mask)
    BY <2>1
  <2>3. PICK r : r = [params EXCEPT !.datarate = d]
    BY Zenon
  <2>4. r \in Params
    BY <2>3, DutyTypes, ParamsExcept, Zenon
  <2>5. params' = [r EXCEPT !.mask = mask]
    BY <2>2, <2>3, Zenon DEF LinkAdrReq
  <2>6. params' \in Params
    BY <2>4, <2>5, ParamsExcept, Zenon
  <2>7. /\ bands' = bands /\ duty' = duty /\ tx' = tx /\ owed' = owed
        /\ stamped' = stamped /\ DutyCycleOn' = DutyCycleOn
    BY <2>2, Zenon DEF LinkAdrReq
  <2>8. DutyTypeOK'
    BY <2>6, <2>7, Zenon DEF DutyInv, DutyTypeOK, Params
  <2> QED
    BY <2>7, <2>8, QuietKeeps, Zenon
<1>3. CASE \E m \in MaxDCycles : DutyCycleReq(m)
  <2>1. PICK m \in MaxDCycles : DutyCycleReq(m)
    BY <1>3
  <2>2. duty' = [duty EXCEPT !.MaxDCycle = m] /\ duty \in Duties
    BY <2>1, DutyTypes, Zenon DEF DutyCycleReq
  <2>3. duty' \in Duties /\ duty'.TxTimeOnAir = duty.TxTimeOnAir /\ duty'.LastTxChannel = duty.LastTxChannel
    BY <2>2, SMT DEF Duties
  <2>4. /\ bands' = bands /\ params' = params /\ tx' = tx /\ owed' = owed
        /\ stamped' = stamped /\ DutyCycleOn' = DutyCycleOn
    BY <2>1, Zenon DEF DutyCycleReq
  <2>5. DutyTypeOK'
    BY <2>3, <2>4, Zenon DEF DutyInv, DutyTypeOK, Duties
  <2> QED
    BY <2>3, <2>4, <2>5, QuietKeeps, Zenon
<1> QED
  BY <1>1, <1>2, <1>3


LEMMA DutyStep ==
    ASSUME DutyInv, [DutyNext]_dutyVars
    PROVE  DutyInv' /\ StartsRested
<1>1. CASE SendData
  <2>1. PICK p \in AdrNextDr(params) : ScheduleTx(p, duty.MaxDCycle)
    BY <1>1, Zenon DEF SendData
  <2>2. tx.phase # "sending" /\ p \in Params /\ duty.MaxDCycle \in MaxDCycles
    <3>1. tx.phase # "sending"
      BY <1>1, SMT DEF SendData
    <3> QED
      BY <3>1, DutyTypes, AdrNextParams, Zenon
  <2> QED
    BY <2>1, <2>2, ScheduleKeeps, Zenon
<1>2. CASE SendDelayed
  <2>1. tx.phase # "sending" /\ ScheduleTx(params, duty.MaxDCycle)
    BY <1>2, SMT DEF SendDelayed
  <2> QED
    BY <2>1, DutyTypes, ScheduleKeeps, Zenon
<1>3. CASE \E d \in DOMAIN TimeOnAir : SendJoinRequest(d)
  <2>1. PICK d \in DOMAIN TimeOnAir : SendJoinRequest(d)
    BY <1>3
  <2>2. PICK p : p = [joined |-> FALSE, datarate |-> d, mask |-> DefaultChannels]
    BY Zenon
  <2>3. p \in Params
    BY <2>2, DutyCycleAssumption, Zenon DEF Params
  <2>4. tx.phase # "sending"
    BY <2>1, SMT DEF SendJoinRequest
  <2>5. PICK m \in MaxDCycles : m = 0
    BY DutyCycleAssumption, Zenon
  <2>6. ScheduleTx(p, m)
    BY <2>1, <2>2, <2>5, Zenon DEF SendJoinRequest
  <2> QED
    BY <2>3, <2>4, <2>6, ScheduleKeeps, Zenon
<1>4. CASE UNCHANGED dutyVars
  <2>1. /\ bands' = bands /\ duty' = duty /\ params' = params /\ tx' = tx /\ owed' = owed
        /\ stamped' = stamped /\ DutyCycleOn' = DutyCycleOn
    BY <1>4, Zenon DEF dutyVars
  <2>2. DutyTypeOK'
    BY <2>1, Zenon DEF DutyInv, DutyTypeOK
  <2> QED
    BY <2>1, <2>2, QuietKeeps, Zenon
<1> QED
  BY <1>1, <1>2, <1>3, <1>4, DoneKeeps, TimeoutKeeps, SwitchKeeps, TickKeeps, CommandKeeps, Zenon
  DEF DutyNext

LEMMA DutyStart ==
    ASSUME DutyInit
    PROVE  DutyInv
<1>1. MaxElapsed \in Nat /\ FirstChannel \in Channel /\ 0 \in MaxDCycles /\ DefaultDatarate \in DOMAIN TimeOnAir
  BY FirstChannelType, DutyCycleAssumption, Zenon
<1>2. bands \in Bands /\ \A b \in Band : bands[b].TimeOff = 0
  BY <1>1, SMT DEF DutyInit, Bands
<1>3. duty \in Duties /\ duty.TxTimeOnAir = 0 /\ duty.LastTxChannel = FirstChannel
  BY <1>1, SMT DEF DutyInit, Duties
<1>4. params \in Params
  BY <1>1, DutyCycleAssumption, Zenon DEF DutyInit, Params
<1>5. tx \in Txs
  BY <1>1, SMT DEF DutyInit, Idle, Txs
<1>6. owed \in [rest : [Band -> Nat], waived : BOOLEAN] /\ \A b \in Band : owed.rest[b] = 0
  BY SMT DEF DutyInit
<1>10. stamped \subseteq Band /\ DutyCycleOn = TRUE /\ DutyCycleOn \in BOOLEAN
  BY Zenon DEF DutyInit
<1>7. DutyTypeOK
  BY <1>10, <1>2, <1>3, <1>4, <1>5, Zenon DEF DutyTypeOK, Bands, Params, Txs, Duties
<1>8. \A b \in Band : Rests(b)
  <2>1. 0 >= 0
    BY SMT
  <2> QED
    BY <1>2, <1>6, <2>1, Zenon DEF Rests
<1>9. LastBand \in Band /\ owed.rest[LastBand] = duty.TxTimeOnAir * (DCycle[LastBand] - 1)
  <2>1. LastBand \in Band
    BY <1>1, <1>3, DutyCycleAssumption, Zenon DEF LastBand
  <2>2. PICK D \in Nat : D = DCycle[LastBand]
    BY <2>1, DutyCycleAssumption, Zenon
  <2>3. 0 * (D - 1) = 0
    BY SMT
  <2> QED
    BY <1>3, <1>6, <2>1, <2>2, <2>3, Zenon
<1> QED
  BY <1>3, <1>6, <1>7, <1>8, <1>9, <1>10, Zenon DEF DutyInv

(* The account of the duty cycle keeps its types and stays in line with    *)
(* what every band owes.                                                   *)
THEOREM DutyInvariant == DutySpec => []DutyInv
<1>1. DutyInit => DutyInv
  BY DutyStart
<1>2. DutyInv /\ [DutyNext]_dutyVars => DutyInv'
  BY DutyStep
<1> QED
  BY <1>1, <1>2, PTL DEF DutySpec

(* The state of the duty cycle is well typed: in particular a time off and *)
(* a time since the last transmission stay within what is counted.         *)
THEOREM DutyIsTyped == DutySpec => []DutyTypeOK
<1>1. DutyInv => DutyTypeOK
  BY Zenon DEF DutyInv
<1> QED
  BY <1>1, DutyInvariant, PTL

(* No transmission starts in a band before the band has rested for the     *)
(* time its last one calls for, as long as no transmission has timed out   *)
(* and the duty cycle is not switched off: whichever channel was drawn,    *)
(* after joins, delays, commands of the network and the fall back to the   *)
(* default channels (ScheduleTx, CalculateBackOff, SetNextChannel).        *)
THEOREM BandsRest == DutySpec => BandRests
<1>1. DutyInv /\ [DutyNext]_dutyVars =>
         [tx.phase # "sending" /\ tx'.phase = "sending" /\ ~owed.waived
            => LET b == BandOf[tx'.channel] IN bands[b].elapsed >= Min({owed.rest[b], MaxElapsed})]_dutyVars
  BY DutyStep, Zenon DEF StartsRested
<1> QED
  BY <1>1, DutyInvariant, PTL DEF DutySpec, BandRests

===============================================================================
