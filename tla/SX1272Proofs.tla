----------------------------- MODULE SX1272Proofs -----------------------------
(***************************************************************************)
(* Proofs about the radio driver, for every size of the FIFO, threshold,   *)
(* chunk and packet.  The invariant follows the bytes of an FSK packet:    *)
(* what was read or sent, what is in the FIFO and what is still on the air *)
(* are pieces of the packet that lie one after the other, and together     *)
(* make it up (SendsInOrder, ReceivesInOrder).  It breaks only within      *)
(* SX1272OnTimeoutIrq, which ends with the radio asleep (DriverInv).       *)
(***************************************************************************)
EXTENDS SX1272, SequenceTheorems, TLAPS

-----------------------------------------------------------------------------
(***************************************************************************)
(* Pieces of a packet.                                                     *)
(***************************************************************************)
(* Nothing is a piece of any packet, anywhere in it. *)
LEMMA NoPiece ==
    ASSUME NEW n, NEW p
    PROVE  Piece(<<>>, n, p)
<1>1. <<>> \in Seq(Nat) /\ Len(<<>>) = 0
  BY EmptySeq, Zenon
<1>2. \A i \in 1..0 : FALSE
  BY SMT
<1> QED
  BY <1>1, <1>2, Zenon DEF Piece

(* A piece is a sequence of bytes, empty when it has none. *)
LEMMA PieceLen ==
    ASSUME NEW s, NEW n, NEW p, Piece(s, n, p)
    PROVE  s \in Seq(Nat) /\ Len(s) \in Nat /\ (s = <<>> <=> Len(s) = 0)
<1>1. s \in Seq(Nat)
  BY Zenon DEF Piece
<1>2. Len(s) \in Nat
  BY <1>1, LenProperties, Zenon
<1>3. s = <<>> <=> Len(s) = 0
  BY <1>1, EmptySeq, Zenon
<1> QED
  BY <1>1, <1>2, <1>3

(* The first byte of a piece, and the piece after it. *)
LEMMA PieceTail ==
    ASSUME NEW n \in Nat, NEW p \in Nat, NEW s, Piece(s, n, p), s # <<>>
    PROVE  /\ Head(s) \in Nat /\ Head(s) = IF p = 0 THEN n ELSE p
           /\ Piece(Tail(s), n, p + 1) /\ Len(Tail(s)) = Len(s) - 1
<1>1. s \in Seq(Nat) /\ Len(s) \in Nat /\ Len(s) # 0
  BY PieceLen, Zenon
<1>2. /\ Head(s) \in Nat /\ Tail(s) \in Seq(Nat) /\ Len(Tail(s)) = Len(s) - 1
      /\ \A i \in 1..Len(Tail(s)) : Tail(s)[i] = s[i + 1]
  BY <1>1, HeadTailProperties
<1>3. \A i \in 1..Len(s) : s[i] = IF p + i = 1 THEN n ELSE p + i - 1
  BY Zenon DEF Piece
<1>4. Head(s) = s[1]
  BY <1>1, SMT
<1>5. Head(s) = IF p = 0 THEN n ELSE p
  <2>1. 1 \in 1..Len(s)
    BY <1>1, SMT
  <2>2. s[1] = IF p + 1 = 1 THEN n ELSE p + 1 - 1
    BY <1>3, <2>1, Zenon
  <2> QED
    BY <1>4, <2>2, SMT
<1>6. \A i \in 1..Len(Tail(s)) : Tail(s)[i] = IF (p + 1) + i = 1 THEN n ELSE (p + 1) + i - 1
  <2> DEFINE m == Len(Tail(s))
  <2> SUFFICES ASSUME NEW i \in 1..m
               PROVE  s[i + 1] = IF (p + 1) + i = 1 THEN n ELSE (p + 1) + i - 1
    BY <1>2, Zenon
  <2>1. m = Len(s) - 1
    BY <1>2
  <2> HIDE DEF m
  <2>2. i + 1 \in 1..Len(s)
    BY <1>1, <2>1, SMT
  <2>3. s[i + 1] = IF p + (i + 1) = 1 THEN n ELSE p + (i + 1) - 1
    BY <1>3, <2>2, Zenon
  <2> QED
    BY <1>1, <2>1, <2>3, SMT
<1> QED
  BY <1>2, <1>5, <1>6, Zenon DEF Piece

(* A piece and the byte that follows it. *)
LEMMA PieceAppend ==
    ASSUME NEW n \in Nat, NEW p \in Nat, NEW s, Piece(s, n, p),
           NEW x \in Nat, x = IF p + Len(s) = 0 THEN n ELSE p + Len(s)
    PROVE  Piece(Append(s, x), n, p) /\ Len(Append(s, x)) = Len(s) + 1
<1> DEFINE t == Append(s, x)
<1>1. s \in Seq(Nat) /\ Len(s) \in Nat
  BY PieceLen, Zenon
<1>2. /\ t \in Seq(Nat) /\ Len(t) = Len(s) + 1
      /\ \A i \in 1..Len(s) : t[i] = s[i]
      /\ t[Len(s) + 1] = x
  BY <1>1, AppendProperties
<1>3. \A i \in 1..Len(s) : s[i] = IF p + i = 1 THEN n ELSE p + i - 1
  BY Zenon DEF Piece
<1> HIDE DEF t
<1>4. ASSUME NEW i \in 1..Len(t)
      PROVE  t[i] = IF p + i = 1 THEN n ELSE p + i - 1
  <2>1. CASE i \in 1..Len(s)
    BY <1>2, <1>3, <2>1, Zenon
  <2>2. CASE i = Len(s) + 1
    <3>1. t[i] = x
      BY <1>2, <2>2, Zenon
    <3>2. x = IF p + i = 1 THEN n ELSE p + i - 1
      BY <1>1, <2>2, SMTT(60)
    <3> QED
      BY <3>1, <3>2, Zenon
  <2>3. i \in 1..Len(s) \/ i = Len(s) + 1
    BY <1>1, <1>2, SMT
  <2> QED
    BY <2>1, <2>2, <2>3, Zenon
<1> QED
  BY <1>2, <1>4, Zenon DEF Piece, t

(* A piece and the piece that follows it. *)
LEMMA PieceConcat ==
    ASSUME NEW n \in Nat, NEW p \in Nat, NEW s, NEW t, Piece(s, n, p),
           NEW r \in Nat, r = p + Len(s), Piece(t, n, r)
    PROVE  Piece(s \o t, n, p) /\ Len(s \o t) = Len(s) + Len(t)
<1> DEFINE c == s \o t
<1>1. s \in Seq(Nat) /\ t \in Seq(Nat) /\ Len(s) \in Nat /\ Len(t) \in Nat
  BY PieceLen, Zenon
<1>2. /\ c \in Seq(Nat) /\ Len(c) = Len(s) + Len(t)
      /\ \A i \in 1..Len(s) + Len(t) : c[i] = IF i <= Len(s) THEN s[i] ELSE t[i - Len(s)]
  BY <1>1, ConcatProperties
<1>3. /\ \A i \in 1..Len(s) : s[i] = IF p + i = 1 THEN n ELSE p + i - 1
      /\ \A i \in 1..Len(t) : t[i] = IF p + Len(s) + i = 1 THEN n ELSE p + Len(s) + i - 1
  BY Zenon DEF Piece
<1> HIDE DEF c
<1>4. ASSUME NEW i \in 1..Len(c)
      PROVE  c[i] = IF p + i = 1 THEN n ELSE p + i - 1
  <2>1. c[i] = IF i <= Len(s) THEN s[i] ELSE t[i - Len(s)]
    BY <1>2, Zenon
  <2>2. CASE i <= Len(s)
    <3>1. i \in 1..Len(s)
      BY <1>1, <1>2, <2>2, SMT
    <3> QED
      BY <1>3, <2>1, <2>2, <3>1, Zenon
  <2>3. CASE ~(i <= Len(s))
    <3> DEFINE j == i - Len(s)
    <3>1. j \in 1..Len(t) /\ p + Len(s) + j = p + i
      BY <1>1, <1>2, <2>3, SMT
    <3>2. t[j] = IF p + Len(s) + j = 1 THEN n ELSE p + Len(s) + j - 1
      BY <1>3, <3>1, Zenon
    <3>3. c[i] = t[j]
      BY <2>1, <2>3, Zenon
    <3> HIDE DEF j
    <3> QED
      BY <1>1, <3>1, <3>2, <3>3, SMTT(180)
  <2> QED
    BY <2>2, <2>3, Zenon
<1> QED
  BY <1>2, <1>4, Zenon DEF Piece, c

(* A part of a piece is a piece. *)
LEMMA PieceSubSeq ==
    ASSUME NEW n \in Nat, NEW p \in Nat, NEW s, Piece(s, n, p), NEW a \in Nat, NEW b \in Nat,
           a <= b, b <= Len(s)
    PROVE  Piece(SubSeq(s, a + 1, b), n, p + a) /\ Len(SubSeq(s, a + 1, b)) = b - a
<1> DEFINE c == SubSeq(s, a + 1, b)
<1>1. s \in Seq(Nat) /\ Len(s) \in Nat
  BY PieceLen, Zenon
<1>2. /\ c \in Seq(Nat) /\ Len(c) = b - a
      /\ \A i \in 1..b - a : c[i] = s[a + i]
  <2>1. a + 1 \in 1..Len(s) + 1 /\ b \in (a + 1) - 1..Len(s)
    BY <1>1, SMT
  <2>2. /\ c \in Seq(Nat)
        /\ Len(c) = IF a + 1 <= b THEN b - (a + 1) + 1 ELSE 0
        /\ \A i \in 1..b - (a + 1) + 1 : c[i] = s[(a + 1) + i - 1]
    BY <1>1, <2>1, SubSeqProperties, SMTT(60)
  <2> HIDE DEF c
  <2> QED
    BY <2>2, SMT
<1>3. \A i \in 1..Len(s) : s[i] = IF p + i = 1 THEN n ELSE p + i - 1
  BY Zenon DEF Piece
<1> HIDE DEF c
<1>4. \A i \in 1..Len(c) : c[i] = IF p + a + i = 1 THEN n ELSE p + a + i - 1
  BY <1>1, <1>2, <1>3, SMTT(180)
<1> QED
  BY <1>2, <1>4, Zenon DEF Piece, c

(* The first m bytes of a packet, its size byte apart. *)
LEMMA ChunkIsPiece ==
    ASSUME NEW m \in Nat, NEW n
    PROVE  Piece(Packet(m), n, 1) /\ Len(Packet(m)) = m
<1> DEFINE q == Packet(m)
<1>1. q \in [1..m -> Nat] /\ \A i \in 1..m : q[i] = i
  BY SMT DEF Packet
<1>2. q \in Seq(Nat) /\ Len(q) = m
  <2> HIDE DEF q
  <2>1. q \in Seq(Nat)
    BY <1>1, SMT
  <2>2. Len(q) = m
    BY <1>1, <2>1, SMT
  <2> QED
    BY <2>1, <2>2
<1>3. \A i \in 1..m : q[i] = IF 1 + i = 1 THEN n ELSE 1 + i - 1
  <2> HIDE DEF q
  <2> QED
    BY <1>1, SMT
<1> QED
  BY <1>2, <1>3, Zenon DEF Piece

(* A packet is the piece of itself after the size byte. *)
LEMMA PacketIsPiece ==
    ASSUME NEW n \in Nat
    PROVE  Piece(Packet(n), n, 1) /\ Len(Packet(n)) = n
  BY ChunkIsPiece, Zenon

(* The size byte and the first m bytes, as SX1272Send writes them. *)
LEMMA FirstPiece ==
    ASSUME NEW n \in Nat, NEW m \in Nat
    PROVE  Piece(<<n>> \o Packet(m), n, 0) /\ Len(<<n>> \o Packet(m)) = m + 1
<1> DEFINE h == <<n>>
           q == Packet(m)
<1>1. Piece(h, n, 0) /\ Len(h) = 1
  BY SMT DEF Piece
<1>2. Piece(q, n, 1) /\ Len(q) = m /\ 0 \in Nat
  BY ChunkIsPiece
<1>3. <<n>> \o Packet(m) = h \o q
  OBVIOUS
<1> HIDE DEF h, q
<1>4. \E z, o \in Nat : z = 0 /\ o = 1 /\ o = z + Len(h)
  BY <1>1, SMT
<1>5. Piece(h \o q, n, 0) /\ Len(h \o q) = Len(h) + Len(q)
  <2>1. PICK z, o \in Nat : z = 0 /\ o = 1 /\ o = z + Len(h)
    BY <1>4, ZenonT(60)
  <2>2. Piece(h, n, z) /\ Piece(q, n, o)
    BY <1>1, <1>2, <2>1, Zenon
  <2>3. z \in Nat /\ o \in Nat /\ o = z + Len(h)
    BY <2>1, Zenon
  <2>4. Piece(h \o q, n, z) /\ Len(h \o q) = Len(h) + Len(q)
    BY <2>2, <2>3, PieceConcat, SMT
  <2> QED
    BY <2>1, <2>4, Zenon
<1>6. Len(h) + Len(q) = m + 1
  BY <1>1, <1>2, SMT
<1> QED
  BY <1>3, <1>5, <1>6, Zenon

(* What FSK sends for a packet. *)
LEMMA OnAirIsPiece ==
    ASSUME NEW n \in Nat
    PROVE  Piece(OnAir(n), n, 0) /\ Len(OnAir(n)) = n + 1
  BY FirstPiece, Zenon DEF OnAir

(* Two pieces of the same length and place are the same bytes. *)
LEMMA SamePiece ==
    ASSUME NEW n, NEW p, NEW s, NEW t, Piece(s, n, p), Piece(t, n, p), Len(s) = Len(t)
    PROVE  s = t
<1>1. s \in Seq(Nat) /\ t \in Seq(Nat)
  BY Zenon DEF Piece
<1>2. \A i \in 1..Len(s) : s[i] = t[i]
  BY Zenon DEF Piece
<1> QED
  BY <1>1, <1>2, SeqEqual, Zenon

(* Reading no more bytes than the FIFO holds yields a piece. *)
LEMMA PieceFromFifo ==
    ASSUME NEW n \in Nat, NEW p \in Nat, Piece(chip.fifo, n, p), NEW k \in Nat, k <= Len(chip.fifo)
    PROVE  Piece(FromFifo(k), n, p) /\ Len(FromFifo(k)) = k
<1> DEFINE q == FromFifo(k)
           f == chip.fifo
<1>1. f \in Seq(Nat) /\ Len(f) \in Nat
  BY PieceLen, Zenon
<1>2. \A i \in 1..Len(f) : f[i] = (IF p + i = 1 THEN n ELSE p + i - 1) /\ f[i] \in Nat
  BY <1>1, ElementOfSeq, Zenon DEF Piece
<1>3. q = [i \in 1..k |-> IF i <= Len(f) THEN f[i] ELSE 0]
  BY Zenon DEF FromFifo
<1> HIDE DEF f
<1>4. \A i \in 1..k : i \in 1..Len(f) /\ i <= Len(f)
  BY <1>1, SMT DEF f
<1> HIDE DEF q
<1>5. \A i \in 1..k : q[i] = f[i] /\ q[i] \in Nat
  BY <1>2, <1>3, <1>4, Zenon
<1>6. q \in [1..k -> Nat]
  BY <1>3, <1>5, Zenon
<1>7. q \in Seq(Nat) /\ Len(q) = k
  BY <1>6, SMT
<1>8. \A i \in 1..Len(q) : q[i] = IF p + i = 1 THEN n ELSE p + i - 1
  BY <1>2, <1>4, <1>5, <1>7, Zenon
<1> QED
  BY <1>7, <1>8, Zenon DEF Piece, q

-----------------------------------------------------------------------------
(***************************************************************************)
(* The state, and the handlers that end a request.                         *)
(***************************************************************************)
(* The types of the driver's and of the chip's state. *)
States    == {"RF_IDLE", "RF_RX_RUNNING", "RF_TX_RUNNING"}
Modems    == {"FSK", "LORA"}
AllTimers == {"TxTimeoutTimer", "RxTimeoutTimer", "RxTimeoutSyncWord"}

SettingsRecord ==
    [State : States, Modem : Modems, Timers : SUBSET AllTimers, Size : Nat, NbBytes : Nat,
     ChunkSize : Nat, PreambleDetected : BOOLEAN, SyncWordDetected : BOOLEAN, RxTxBuffer : Seq(Nat)]

Modes  == {"sleep", "standby", "transmitter", "receiver"}
Phases == {"silent", "preamble", "packet", "received"}

ChipRecord ==
    [mode : Modes, phase : Phases, fifo : Seq(Nat), air : Seq(Nat), packet : Seq(Nat), crc : BOOLEAN]

(* One report per request, and no timeout that outlives its request. *)
OneReport ==
    /\ outcome.reports = IF settings.State = "RF_IDLE" THEN 1 ELSE 0
    /\ settings.Timers \subseteq CASE settings.State = "RF_IDLE" -> {}
                                   [] settings.State = "RF_TX_RUNNING" -> {"TxTimeoutTimer"}
                                   [] settings.State = "RF_RX_RUNNING" -> {"RxTimeoutTimer", "RxTimeoutSyncWord"}

NoneWrong == outcome.whole

(* What every step keeps but those of SX1272OnTimeoutIrq after its test of *)
(* State.                                                                  *)
RadioInv ==
    /\ settings \in SettingsRecord /\ chip \in ChipRecord /\ dio \subseteq {0, 1, 2, 4}
    /\ outcome \in [reports : Nat, whole : BOOLEAN]
    /\ OneReport /\ NoneWrong
    /\ LoraHasOneTimeout /\ IdleSleeps /\ SendsInOrder /\ ReceivesInOrder /\ LoraIsWhole

(* The fields of the settings. *)
LEMMA SettingsFields ==
    ASSUME NEW s \in SettingsRecord
    PROVE  /\ s.State \in States /\ s.Modem \in Modems /\ s.Timers \in SUBSET AllTimers
           /\ s.Size \in Nat /\ s.NbBytes \in Nat /\ s.ChunkSize \in Nat
           /\ s.PreambleDetected \in BOOLEAN /\ s.SyncWordDetected \in BOOLEAN
           /\ s.RxTxBuffer \in Seq(Nat)
  BY Zenon DEF SettingsRecord

(* The fields of the chip. *)
LEMMA ChipFields ==
    ASSUME NEW c \in ChipRecord
    PROVE  /\ c.mode \in Modes /\ c.phase \in Phases /\ c.fifo \in Seq(Nat) /\ c.air \in Seq(Nat)
           /\ c.packet \in Seq(Nat) /\ c.crc \in BOOLEAN
  BY Zenon DEF ChipRecord

(* Back to RF_IDLE with other timers running. *)
LEMMA StateAndTimers ==
    ASSUME NEW s \in SettingsRecord, NEW T \in SUBSET AllTimers
    PROVE  /\ [s EXCEPT !.State = "RF_IDLE", !.Timers = T] \in SettingsRecord
           /\ [s EXCEPT !.State = "RF_IDLE", !.Timers = T].State = "RF_IDLE"
           /\ [s EXCEPT !.State = "RF_IDLE", !.Timers = T].Timers = T
<1>1. ASSUME NEW st \in States
      PROVE  /\ [s EXCEPT !.State = st, !.Timers = T] \in SettingsRecord
             /\ [s EXCEPT !.State = st, !.Timers = T].State = st
             /\ [s EXCEPT !.State = st, !.Timers = T].Timers = T
  <2>1. [s EXCEPT !.State = st, !.Timers = T] \in SettingsRecord
    BY ZenonT(60) DEF SettingsRecord
  <2>2. /\ [s EXCEPT !.State = st, !.Timers = T].State = st
        /\ [s EXCEPT !.State = st, !.Timers = T].Timers = T
    BY Zenon DEF SettingsRecord
  <2> QED
    BY <2>1, <2>2, Zenon
<1>2. PICK i : i = "RF_IDLE"
  OBVIOUS
<1>3. i \in States
  BY <1>2, Zenon DEF States
<1>4. /\ [s EXCEPT !.State = i, !.Timers = T] \in SettingsRecord
      /\ [s EXCEPT !.State = i, !.Timers = T].State = i
      /\ [s EXCEPT !.State = i, !.Timers = T].Timers = T
  BY <1>1, <1>3, Zenon
<1> QED
  BY <1>2, <1>4, Zenon

(* Stopping timers leaves timers. *)
LEMMA TimersLeft ==
    ASSUME NEW s \in SettingsRecord, NEW X
    PROVE  s.Timers \ X \in SUBSET AllTimers
  BY Zenon DEF SettingsRecord

(* SX1272SetSleep ends in RF_IDLE and stops two of the three timeouts. *)
LEMMA SleepType ==
    ASSUME NEW s \in SettingsRecord
    PROVE  /\ SX1272SetSleep(s) \in SettingsRecord
           /\ SX1272SetSleep(s).State = "RF_IDLE"
           /\ SX1272SetSleep(s).Timers = s.Timers \ {"RxTimeoutTimer", "TxTimeoutTimer"}
<1> DEFINE T == s.Timers \ {"RxTimeoutTimer", "TxTimeoutTimer"}
<1>1. SX1272SetSleep(s) = [s EXCEPT !.State = "RF_IDLE", !.Timers = T]
  BY Zenon DEF SX1272SetSleep
<1>2. T \in SUBSET AllTimers
  BY TimersLeft, Zenon
<1> HIDE DEF T
<1>4. /\ [s EXCEPT !.State = "RF_IDLE", !.Timers = T] \in SettingsRecord
      /\ [s EXCEPT !.State = "RF_IDLE", !.Timers = T].State = "RF_IDLE"
      /\ [s EXCEPT !.State = "RF_IDLE", !.Timers = T].Timers = T
  BY <1>2, StateAndTimers, Zenon
<1> QED
  BY <1>1, <1>4, Zenon DEF T

(* A handler that ends a request: RF_IDLE, and the timers X stopped. *)
LEMMA Stopped ==
    ASSUME NEW s \in SettingsRecord, NEW X
    PROVE  /\ [s EXCEPT !.State = "RF_IDLE", !.Timers = @ \ X] \in SettingsRecord
           /\ [s EXCEPT !.State = "RF_IDLE", !.Timers = @ \ X].Timers = s.Timers \ X
<1> DEFINE T == s.Timers \ X
<1>1. [s EXCEPT !.State = "RF_IDLE", !.Timers = @ \ X] = [s EXCEPT !.State = "RF_IDLE", !.Timers = T]
  BY Zenon
<1>2. T \in SUBSET AllTimers
  BY TimersLeft, Zenon
<1> HIDE DEF T
<1>4. /\ [s EXCEPT !.State = "RF_IDLE", !.Timers = T] \in SettingsRecord
      /\ [s EXCEPT !.State = "RF_IDLE", !.Timers = T].Timers = T
  BY <1>2, StateAndTimers, Zenon
<1> QED
  BY <1>1, <1>4, Zenon DEF T

(* ForgetPacket leaves the timers alone. *)
LEMMA ForgetPacketType ==
    ASSUME NEW s \in SettingsRecord
    PROVE  /\ ForgetPacket(s) \in SettingsRecord
           /\ ForgetPacket(s).Timers = s.Timers /\ ForgetPacket(s).Size = 0
           /\ ForgetPacket(s).NbBytes = 0
<1>1. 0 \in Nat
  BY SMT
<1>2. ASSUME NEW z \in Nat
      PROVE  /\ [s EXCEPT !.PreambleDetected = FALSE, !.SyncWordDetected = FALSE,
                          !.Size = z, !.NbBytes = z] \in SettingsRecord
             /\ [s EXCEPT !.PreambleDetected = FALSE, !.SyncWordDetected = FALSE,
                          !.Size = z, !.NbBytes = z].Timers = s.Timers
             /\ [s EXCEPT !.PreambleDetected = FALSE, !.SyncWordDetected = FALSE,
                          !.Size = z, !.NbBytes = z].Size = z
             /\ [s EXCEPT !.PreambleDetected = FALSE, !.SyncWordDetected = FALSE,
                          !.Size = z, !.NbBytes = z].NbBytes = z
  <2>1. [s EXCEPT !.PreambleDetected = FALSE, !.SyncWordDetected = FALSE,
                  !.Size = z, !.NbBytes = z] \in SettingsRecord
    BY ZenonT(60) DEF SettingsRecord
  <2> QED
    BY <2>1, ZenonT(60) DEF SettingsRecord
<1> QED
  BY <1>1, <1>2, Zenon DEF ForgetPacket

(* The driver is idle, no timeout runs and the chip sleeps. *)
Asleep ==
    /\ settings \in SettingsRecord /\ chip \in ChipRecord /\ dio \subseteq {0, 1, 2, 4}
    /\ outcome \in [reports : Nat, whole : BOOLEAN]
    /\ settings.State = "RF_IDLE" /\ settings.Timers = {}
    /\ chip.mode = "sleep" /\ chip.fifo = <<>>

(* A callback: it needs a handler that leaves no timeout running which     *)
(* SX1272SetSleep would not stop.                                          *)
LEMMA ReportEnds ==
    ASSUME NEW s \in SettingsRecord, s.Timers \subseteq {"RxTimeoutTimer", "TxTimeoutTimer"},
           chip \in ChipRecord, outcome \in [reports : Nat, whole : BOOLEAN], dio' \subseteq {0, 1, 2, 4},
           NEW right \in BOOLEAN, Report(s, right)
    PROVE  /\ Asleep' /\ outcome'.reports = outcome.reports + 1
           /\ outcome'.whole = (outcome.whole /\ right)
<1>1. /\ settings' = SX1272SetSleep(s)
      /\ chip' = [chip EXCEPT !.mode = "sleep", !.phase = "silent", !.fifo = <<>>, !.air = <<>>,
                              !.packet = <<>>, !.crc = TRUE]
      /\ outcome' = [reports |-> outcome.reports + 1, whole |-> outcome.whole /\ right]
  BY Zenon DEF Report
<1>2. /\ settings' \in SettingsRecord /\ settings'.State = "RF_IDLE" /\ settings'.Timers = {}
  <2>1. s.Timers \ {"RxTimeoutTimer", "TxTimeoutTimer"} = {}
    BY Zenon
  <2> QED
    BY <1>1, <2>1, SleepType, Zenon
<1>3. chip' \in ChipRecord /\ chip'.mode = "sleep" /\ chip'.fifo = <<>>
  <2>1. <<>> \in Seq(Nat)
    BY EmptySeq, Zenon
  <2>3. PICK m, h, e : m = "sleep" /\ h = "silent" /\ e = <<>>
    OBVIOUS
  <2>4. m \in Modes /\ h \in Phases /\ e \in Seq(Nat)
    BY <2>1, <2>3, Zenon DEF Modes, Phases
  <2>5. chip' = [chip EXCEPT !.mode = m, !.phase = h, !.fifo = e, !.air = e, !.packet = e, !.crc = TRUE]
    BY <1>1, <2>3, Zenon
  <2>6. /\ [chip EXCEPT !.mode = m, !.phase = h, !.fifo = e, !.air = e, !.packet = e,
                         !.crc = TRUE] \in ChipRecord
        /\ [chip EXCEPT !.mode = m, !.phase = h, !.fifo = e, !.air = e, !.packet = e, !.crc = TRUE].mode = m
        /\ [chip EXCEPT !.mode = m, !.phase = h, !.fifo = e, !.air = e, !.packet = e, !.crc = TRUE].fifo = e
    BY <2>4, ZenonT(60) DEF ChipRecord
  <2> QED
    BY <2>3, <2>5, <2>6, Zenon
<1>4. /\ outcome' \in [reports : Nat, whole : BOOLEAN] /\ outcome'.reports = outcome.reports + 1
      /\ outcome'.whole = (outcome.whole /\ right)
  <2> DEFINE rep == outcome.reports + 1
             wh  == outcome.whole /\ right
  <2>1. outcome.reports \in Nat
    BY Zenon
  <2>2. rep \in Nat
    BY <2>1, SMT
  <2>3. wh \in BOOLEAN
    BY Zenon
  <2>4. outcome' = [reports |-> rep, whole |-> wh]
    BY <1>1, Zenon
  <2> HIDE DEF rep, wh
  <2>5. outcome'.reports = rep /\ outcome'.whole = wh /\ outcome' \in [reports : Nat, whole : BOOLEAN]
    BY <2>2, <2>3, <2>4, Zenon
  <2> QED
    BY <2>5, Zenon DEF rep, wh
<1> QED
  BY <1>2, <1>3, <1>4, Zenon DEF Asleep

(* One report that is right, and the driver asleep. *)
LEMMA AsleepInv ==
    ASSUME Asleep', outcome'.reports = 1, outcome'.whole
    PROVE  RadioInv'
<1>1. /\ settings' \in SettingsRecord /\ chip' \in ChipRecord /\ dio' \subseteq {0, 1, 2, 4}
      /\ outcome' \in [reports : Nat, whole : BOOLEAN]
      /\ settings'.State = "RF_IDLE" /\ settings'.Timers = {} /\ chip'.mode = "sleep" /\ chip'.fifo = <<>>
  BY Zenon DEF Asleep
<1>2. OneReport' /\ NoneWrong'
  BY <1>1, Zenon DEF OneReport, NoneWrong
<1>3. LoraHasOneTimeout' /\ IdleSleeps' /\ SendsInOrder' /\ ReceivesInOrder' /\ LoraIsWhole'
  BY <1>1, SMT DEF LoraHasOneTimeout, IdleSleeps, SendsInOrder, ReceivesInOrder, LoraIsWhole
<1> QED
  BY <1>1, <1>2, <1>3, Zenon DEF RadioInv

(* A callback ends the request: it needs a busy driver and packets told as *)
(* they were.                                                              *)
LEMMA ReportStep ==
    ASSUME RadioInv, NEW s \in SettingsRecord, s.Timers \subseteq {"RxTimeoutTimer", "TxTimeoutTimer"},
           settings.State # "RF_IDLE", NEW right, right = TRUE, Report(s, right), dio' \subseteq dio
    PROVE  RadioInv'
<1>1. /\ chip \in ChipRecord /\ outcome \in [reports : Nat, whole : BOOLEAN]
      /\ dio' \subseteq {0, 1, 2, 4} /\ right \in BOOLEAN /\ outcome.whole
      /\ outcome.reports = IF settings.State = "RF_IDLE" THEN 1 ELSE 0
  BY Zenon DEF RadioInv, NoneWrong, OneReport
<1>2. /\ Asleep' /\ outcome'.reports = outcome.reports + 1
      /\ outcome'.whole = (outcome.whole /\ right)
  BY <1>1, ReportEnds, Zenon
<1>3. outcome.reports = 0
  BY <1>1, Zenon
<1>4. outcome'.reports = 1
  BY <1>2, <1>3, SMT
<1>5. outcome'.whole
  BY <1>1, <1>2, Zenon
<1> QED
  BY <1>2, <1>4, <1>5, AsleepInv, Zenon

-----------------------------------------------------------------------------
(***************************************************************************)
(* Steps that move no byte.                                                *)
(***************************************************************************)
(* A step that only stops timers or notes a preamble or a sync word, and   *)
(* serves no FifoLevel or FifoEmpty.                                       *)
LEMMA QuietStep ==
    ASSUME RadioInv, settings' \in SettingsRecord,
           settings'.State = settings.State, settings'.Modem = settings.Modem,
           settings'.Size = settings.Size, settings'.NbBytes = settings.NbBytes,
           settings'.ChunkSize = settings.ChunkSize, settings'.RxTxBuffer = settings.RxTxBuffer,
           settings'.Timers \subseteq settings.Timers, UNCHANGED <<chip, outcome>>, dio' \subseteq dio,
           settings.State = "RF_IDLE" \/ (1 \in dio => 1 \in dio')
    PROVE  RadioInv'
<1>1. chip' = chip /\ outcome' = outcome
  BY Zenon
<1>2. /\ chip' \in ChipRecord /\ dio' \subseteq {0, 1, 2, 4}
      /\ outcome' \in [reports : Nat, whole : BOOLEAN]
      /\ NoneWrong'
  BY <1>1, Zenon DEF RadioInv, NoneWrong
<1>3. OneReport'
  <2>1. OneReport /\ settings.State \in States
    BY SettingsFields, Zenon DEF RadioInv
  <2> QED
    BY <1>1, <2>1, SMT DEF OneReport, States
<1>4. LoraHasOneTimeout' /\ IdleSleeps'
  <2>1. LoraHasOneTimeout /\ IdleSleeps
    BY Zenon DEF RadioInv
  <2> QED
    BY <1>1, <2>1, Zenon DEF LoraHasOneTimeout, IdleSleeps
<1>5. SendsInOrder'
  <2>1. SendsInOrder
    BY Zenon DEF RadioInv
  <2> QED
    BY <1>1, <2>1, Zenon DEF SendsInOrder
<1>6. ReceivesInOrder'
  <2>1. ReceivesInOrder
    BY Zenon DEF RadioInv
  <2>2. CASE settings.State = "RF_IDLE"
    BY <2>2, SMT DEF ReceivesInOrder
  <2>3. CASE 1 \in dio => 1 \in dio'
    <3>1. 1 \in dio' <=> 1 \in dio
      BY <2>3, Zenon
    <3>2. 0 \in dio' => 0 \in dio
      BY Zenon
    <3> QED
      BY <1>1, <2>1, <3>1, <3>2, ZenonT(60) DEF ReceivesInOrder
  <2> QED
    BY <2>2, <2>3, Zenon
<1>7. LoraIsWhole'
  <2>1. LoraIsWhole
    BY Zenon DEF RadioInv
  <2>2. dio = {} => dio' = {}
    BY Zenon
  <2>3. 0 \in dio' => 0 \in dio
    BY Zenon
  <2> QED
    BY <1>1, <2>1, <2>2, <2>3, Zenon DEF LoraIsWhole
<1> QED
  BY <1>2, <1>3, <1>4, <1>5, <1>6, <1>7, Zenon DEF RadioInv

(* An edge that finds nothing to do. *)
LEMMA IgnoredStep ==
    ASSUME RadioInv, Ignored, dio' \subseteq dio, settings.State = "RF_IDLE" \/ (1 \in dio => 1 \in dio')
    PROVE  RadioInv'
<1>1. settings' = settings /\ UNCHANGED <<chip, outcome>> /\ settings \in SettingsRecord
  BY Zenon DEF Ignored, RadioInv
<1> QED
  BY <1>1, QuietStep, Zenon

(* SX1272OnDio2Irq: the sync word was found. *)
LEMMA Dio2Step ==
    ASSUME RadioInv, dio' = dio \ {2}, SX1272OnDio2Irq
    PROVE  RadioInv'
<1> DEFINE s == [settings EXCEPT !.Timers = @ \ {"RxTimeoutSyncWord"}, !.SyncWordDetected = TRUE]
<1>1. dio' \subseteq dio /\ (1 \in dio => 1 \in dio')
  <2>1. 1 # 2
    BY SMT
  <2> QED
    BY <2>1, Zenon
<1>2. CASE Ignored
  BY <1>1, <1>2, IgnoredStep, Zenon
<1>3. CASE settings' = s /\ UNCHANGED <<chip, outcome>>
  <2> DEFINE T == settings.Timers \ {"RxTimeoutSyncWord"}
  <2>1. settings \in SettingsRecord /\ T \in SUBSET AllTimers /\ T \subseteq settings.Timers
    BY TimersLeft, Zenon DEF RadioInv
  <2>2. settings' = [settings EXCEPT !.Timers = T, !.SyncWordDetected = TRUE]
    BY <1>3, Zenon
  <2> HIDE DEF T
  <2>3. [settings EXCEPT !.Timers = T, !.SyncWordDetected = TRUE] \in SettingsRecord
    BY <2>1, ZenonT(60) DEF SettingsRecord
  <2>4. /\ settings' \in SettingsRecord /\ settings'.State = settings.State
        /\ settings'.Modem = settings.Modem /\ settings'.Size = settings.Size
        /\ settings'.NbBytes = settings.NbBytes /\ settings'.ChunkSize = settings.ChunkSize
        /\ settings'.RxTxBuffer = settings.RxTxBuffer /\ settings'.Timers = T
    BY <2>1, <2>2, <2>3, ZenonT(60) DEF SettingsRecord
  <2>5. settings'.Timers \subseteq settings.Timers
    BY <2>1, <2>4, Zenon
  <2> QED
    BY <1>1, <1>3, <2>4, <2>5, QuietStep, Zenon
<1> QED
  BY <1>2, <1>3, Zenon DEF SX1272OnDio2Irq

(* SX1272OnDio4Irq: a preamble was found. *)
LEMMA Dio4Step ==
    ASSUME RadioInv, dio' = dio \ {4}, SX1272OnDio4Irq
    PROVE  RadioInv'
<1> DEFINE b == settings.PreambleDetected \/ settings.Modem = "FSK"
<1>1. dio' \subseteq dio /\ (1 \in dio => 1 \in dio')
  <2>1. 1 # 4
    BY SMT
  <2> QED
    BY <2>1, Zenon
<1>2. settings \in SettingsRecord /\ b \in BOOLEAN
  BY Zenon DEF RadioInv
<1>3. settings' = [settings EXCEPT !.PreambleDetected = b] /\ UNCHANGED <<chip, outcome>>
  BY Zenon DEF SX1272OnDio4Irq
<1> HIDE DEF b
<1>4. [settings EXCEPT !.PreambleDetected = b] \in SettingsRecord
  BY <1>2, ZenonT(60) DEF SettingsRecord
<1>5. /\ settings' \in SettingsRecord /\ settings'.State = settings.State
      /\ settings'.Modem = settings.Modem /\ settings'.Size = settings.Size
      /\ settings'.NbBytes = settings.NbBytes /\ settings'.ChunkSize = settings.ChunkSize
      /\ settings'.RxTxBuffer = settings.RxTxBuffer /\ settings'.Timers = settings.Timers
  BY <1>2, <1>3, <1>4, ZenonT(60) DEF SettingsRecord
<1>6. settings'.Timers \subseteq settings.Timers
  BY <1>5, Zenon
<1> QED
  BY <1>1, <1>3, <1>5, <1>6, QuietStep, Zenon

(* Which timeouts may be running, from OneReport and                *)
(* LoraHasOneTimeout.                                                      *)
LEMMA BusyTimers ==
    ASSUME RadioInv
    PROVE  /\ settings.State = "RF_IDLE" => settings.Timers = {}
           /\ settings.State = "RF_TX_RUNNING" => settings.Timers \subseteq {"TxTimeoutTimer"}
           /\ settings.State = "RF_RX_RUNNING" =>
                 settings.Timers \subseteq {"RxTimeoutTimer", "RxTimeoutSyncWord"}
           /\ settings.State = "RF_RX_RUNNING" /\ settings.Modem = "LORA" =>
                 settings.Timers \subseteq {"RxTimeoutTimer"}
<1>1. OneReport /\ LoraHasOneTimeout
  BY Zenon DEF RadioInv
<1>2. settings.State = "RF_IDLE" => settings.Timers = {}
  BY <1>1, SMT DEF OneReport
<1>3. settings.State = "RF_TX_RUNNING" => settings.Timers \subseteq {"TxTimeoutTimer"}
  BY <1>1, SMT DEF OneReport
<1>4. settings.State = "RF_RX_RUNNING" => settings.Timers \subseteq {"RxTimeoutTimer", "RxTimeoutSyncWord"}
  BY <1>1, SMT DEF OneReport
<1>5. settings.State = "RF_RX_RUNNING" /\ settings.Modem = "LORA" =>
          settings.Timers \subseteq {"RxTimeoutTimer"}
  BY <1>1, <1>4, Zenon DEF LoraHasOneTimeout
<1> QED
  BY <1>2, <1>3, <1>4, <1>5, Zenon

(* The timer of a timeout, expired. *)
LEMMA TimerExpired ==
    ASSUME settings \in SettingsRecord, NEW t, settings' = [settings EXCEPT !.Timers = @ \ {t}]
    PROVE  /\ settings' \in SettingsRecord /\ settings'.State = settings.State
           /\ settings'.Modem = settings.Modem /\ settings'.Size = settings.Size
           /\ settings'.NbBytes = settings.NbBytes /\ settings'.ChunkSize = settings.ChunkSize
           /\ settings'.RxTxBuffer = settings.RxTxBuffer /\ settings'.Timers \subseteq settings.Timers
<1> DEFINE T == settings.Timers \ {t}
<1>1. T \in SUBSET AllTimers /\ T \subseteq settings.Timers
  BY TimersLeft, Zenon
<1>2. settings' = [settings EXCEPT !.Timers = T]
  BY Zenon
<1> HIDE DEF T
<1>3. [settings EXCEPT !.Timers = T] \in SettingsRecord
  BY <1>1, ZenonT(60) DEF SettingsRecord
<1>4. /\ settings'.State = settings.State
      /\ settings'.Modem = settings.Modem /\ settings'.Size = settings.Size
      /\ settings'.NbBytes = settings.NbBytes /\ settings'.ChunkSize = settings.ChunkSize
      /\ settings'.RxTxBuffer = settings.RxTxBuffer /\ settings'.Timers = T
  BY <1>2, ZenonT(60) DEF SettingsRecord
<1> QED
  BY <1>1, <1>2, <1>3, <1>4, Zenon

(* SX1272OnTimeoutIrq, up to its test of State: only the timeouts of the   *)
(* request that is running expire.                                         *)
LEMMA TimeoutStep ==
    ASSUME RadioInv, NEW t \in settings.Timers, SX1272OnTimeoutIrq(t)
    PROVE  /\ RadioInv' /\ settings.State # "RF_IDLE" /\ settings'.State = settings.State
           /\ settings'.Modem = settings.Modem /\ raced' = raced
           /\ timeoutIrq' = IF settings.State = "RF_RX_RUNNING" /\ settings.Modem = "FSK"
                         THEN "forget" ELSE "report"
<1>1. settings \in SettingsRecord
  BY Zenon DEF RadioInv
<1>2. /\ settings' = [settings EXCEPT !.Timers = @ \ {t}] /\ UNCHANGED <<chip, outcome>>
      /\ dio' = dio /\ raced' = raced
      /\ timeoutIrq' = CASE settings.State = "RF_IDLE" -> "none"
                      [] settings.State = "RF_RX_RUNNING" /\ settings.Modem = "FSK" -> "forget"
                      [] OTHER -> "report"
  BY Zenon DEF SX1272OnTimeoutIrq
<1>3. settings.State # "RF_IDLE"
  BY BusyTimers, Zenon
<1>4. RadioInv' /\ settings'.State = settings.State /\ settings'.Modem = settings.Modem
  BY <1>1, <1>2, TimerExpired, QuietStep, Zenon
<1>5. timeoutIrq' = IF settings.State = "RF_RX_RUNNING" /\ settings.Modem = "FSK"
                 THEN "forget" ELSE "report"
  BY <1>2, <1>3, SMT
<1> QED
  BY <1>2, <1>3, <1>4, <1>5, Zenon

-----------------------------------------------------------------------------
(***************************************************************************)
(* Reading the FIFO.                                                       *)
(***************************************************************************)
(* An FSK packet is on its way, the size byte included. *)
Arriving ==
    /\ settings.State = "RF_RX_RUNNING" /\ settings.Modem = "FSK"
    /\ chip.phase \in {"packet", "received"}

(* The bytes of it, the size byte included, that s has been read. *)
Taken(s) == s.NbBytes + IF s.Size = 0 THEN 0 ELSE 1

(* What ReceivesInOrder says while a packet arrives. *)
LEMMA ArrivingFacts ==
    ASSUME RadioInv, Arriving
    PROVE  LET n == Len(chip.packet) IN
           /\ n \in Nat /\ n > 0 /\ chip.packet = Packet(n) /\ settings.Size \in {0, n}
           /\ chip.mode = "receiver" /\ (settings.Size = 0 => settings.NbBytes = 0)
           /\ settings.Size \in Nat /\ settings.NbBytes \in Nat /\ Taken(settings) \in Nat
           /\ Piece(settings.RxTxBuffer, n, 1) /\ Len(settings.RxTxBuffer) = settings.NbBytes
           /\ Piece(chip.fifo, n, Taken(settings))
           /\ Piece(chip.air, n, Taken(settings) + Len(chip.fifo))
           /\ Taken(settings) + Len(chip.fifo) + Len(chip.air) = n + 1
           /\ (chip.phase = "received" <=> chip.air = <<>>)
           /\ (0 \in dio => chip.phase = "received")
          
           /\ (1 \in dio => FifoThresh < Len(chip.fifo) /\ Len(chip.fifo) <= FifoThresh + DioLatency + 1)
           /\ (1 \notin dio => Len(chip.fifo) <= FifoThresh)
           /\ Len(chip.fifo) \in Nat /\ Len(chip.air) \in Nat
<1> DEFINE n == Len(chip.packet)
<1>1. /\ settings \in SettingsRecord /\ chip \in ChipRecord /\ ReceivesInOrder
  BY Zenon DEF RadioInv
<1>2. /\ n \in Nat /\ Len(chip.fifo) \in Nat /\ Len(chip.air) \in Nat
  BY <1>1, ChipFields, LenProperties, Zenon
<1>3. /\ settings.Size \in Nat /\ settings.NbBytes \in Nat
  BY <1>1, SettingsFields, Zenon
<1>4. Taken(settings) \in Nat
  BY <1>3, SMT DEF Taken
<1>5. /\ n > 0 /\ chip.packet = Packet(n) /\ settings.Size \in {0, n}
      /\ chip.mode = "receiver" /\ (settings.Size = 0 => settings.NbBytes = 0)
      /\ Piece(settings.RxTxBuffer, n, 1) /\ Len(settings.RxTxBuffer) = settings.NbBytes
      /\ Piece(chip.fifo, n, Taken(settings))
      /\ Piece(chip.air, n, Taken(settings) + Len(chip.fifo))
      /\ Taken(settings) + Len(chip.fifo) + Len(chip.air) = n + 1
      /\ (chip.phase = "received" <=> chip.air = <<>>)
      /\ (0 \in dio => chip.phase = "received")
      /\ (1 \in dio => FifoThresh < Len(chip.fifo) /\ Len(chip.fifo) <= FifoThresh + DioLatency + 1)
      /\ (1 \notin dio => Len(chip.fifo) <= FifoThresh)
  BY <1>1, Zenon DEF ReceivesInOrder, Arriving, Taken
<1> QED
  BY <1>2, <1>3, <1>4, <1>5, Zenon

(* The size that a handler works with is the one of the packet, whether it *)
(* reads the byte itself or an earlier FifoLevel has.                      *)
LEMMA SizeIsRead ==
    ASSUME RadioInv, Arriving, settings.Size = 0 => Len(chip.fifo) > 0
    PROVE  /\ SizeRead(settings).size = Len(chip.packet)
           /\ SizeRead(settings).from = IF settings.Size = 0 THEN 1 ELSE 0
<1> DEFINE n == Len(chip.packet)
<1>1. /\ n \in Nat /\ n > 0 /\ settings.Size \in {0, n} /\ (settings.Size = 0 => settings.NbBytes = 0)
      /\ Piece(chip.fifo, n, Taken(settings)) /\ Len(chip.fifo) \in Nat
  BY ArrivingFacts, Zenon
<1>2. CASE settings.Size = 0
  <2>1. Taken(settings) = 0
    BY <1>1, <1>2, SMT DEF Taken
  <2>2. PICK z, o \in Nat : z = 0 /\ o = 1
    BY SMT
  <2>3. Piece(chip.fifo, n, z) /\ o <= Len(chip.fifo)
    <3>1. o <= Len(chip.fifo)
      BY <1>1, <1>2, <2>2, SMT
    <3> QED
      BY <1>1, <2>1, <2>2, <3>1, Zenon
  <2>4. Piece(FromFifo(o), n, z) /\ Len(FromFifo(o)) = o
    BY <1>1, <2>2, <2>3, PieceFromFifo, Zenon
  <2>5. PICK g : g = FromFifo(o)
    OBVIOUS
  <2>6. Piece(g, n, z) /\ g # <<>> /\ z \in Nat
    <3>1. Len(g) # 0
      BY <2>2, <2>4, <2>5, SMT
    <3>2. Piece(g, n, z)
      BY <2>4, <2>5, Zenon
    <3> QED
      BY <2>2, <3>1, <3>2, PieceLen, Zenon
  <2>7. Head(g) = IF z = 0 THEN n ELSE z
    BY <1>1, <2>6, PieceTail, ZenonT(180)
  <2>8. Head(FromFifo(1)) = n
    BY <2>2, <2>5, <2>7, Zenon
  <2>9. SizeRead(settings) = [size |-> Head(FromFifo(1)), from |-> 1]
    BY <1>1, <1>2, Zenon DEF SizeRead
  <2>10. SizeRead(settings).size = Head(FromFifo(1)) /\ SizeRead(settings).from = 1
    BY <2>9, SMT
  <2> QED
    BY <1>2, <2>8, <2>10, Zenon
<1>3. CASE settings.Size # 0
  <2>1. settings.Size = n
    BY <1>1, <1>3, Zenon
  <2>2. SizeRead(settings) = [size |-> settings.Size, from |-> 0]
    BY <1>3, Zenon DEF SizeRead
  <2>3. SizeRead(settings).size = settings.Size /\ SizeRead(settings).from = 0
    BY <2>2, SMT
  <2> QED
    BY <1>3, <2>1, <2>3, Zenon
<1> QED
  BY <1>2, <1>3, Zenon

(* Reading bytes keeps the types. *)
LEMMA BytesReadType ==
    ASSUME NEW s \in SettingsRecord, NEW z \in Nat, NEW b \in Nat, NEW q \in Seq(Nat)
    PROVE  [s EXCEPT !.Size = z, !.NbBytes = b, !.RxTxBuffer = q] \in SettingsRecord
  BY ZenonT(60) DEF SettingsRecord

(* Reading k bytes that the FIFO holds: RxTxBuffer stays the beginning of  *)
(* the packet, and what is left in the FIFO follows it.                    *)
LEMMA BytesAreRead ==
    ASSUME RadioInv, Arriving, settings.Size = 0 => Len(chip.fifo) > 0,
           NEW k \in Nat, NEW f \in Nat, f = SizeRead(settings).from, f + k <= Len(chip.fifo),
           NEW s, s = BytesRead(settings, k)
    PROVE  LET n == Len(chip.packet) IN
           /\ s \in SettingsRecord /\ s.State = settings.State /\ s.Modem = settings.Modem
           /\ s.Timers = settings.Timers /\ s.Size = n /\ s.NbBytes = settings.NbBytes + k
           /\ Piece(s.RxTxBuffer, n, 1) /\ Len(s.RxTxBuffer) = settings.NbBytes + k
           /\ Piece(FifoAfter(f + k), n, settings.NbBytes + k + 1)
           /\ Len(FifoAfter(f + k)) = Len(chip.fifo) - (f + k)
<1> DEFINE n == Len(chip.packet)
           p == Taken(settings)
           B == settings.NbBytes
           old  == SubSeq(settings.RxTxBuffer, 1, B)
           new  == SubSeq(FromFifo(f + k), f + 1, f + k)
<1>1. /\ n \in Nat /\ n > 0 /\ settings.Size \in {0, n} /\ (settings.Size = 0 => B = 0)
      /\ B \in Nat /\ p \in Nat /\ Piece(settings.RxTxBuffer, n, 1) /\ Len(settings.RxTxBuffer) = B
      /\ Piece(chip.fifo, n, p) /\ Len(chip.fifo) \in Nat
  BY ArrivingFacts, Zenon
<1>2. SizeRead(settings).size = n /\ f = IF settings.Size = 0 THEN 1 ELSE 0
  BY SizeIsRead, Zenon
<1>3. p + f = B + 1 /\ f + k \in Nat /\ B + k \in Nat /\ f <= f + k
  BY <1>1, <1>2, SMTT(60) DEF Taken
<1>4. Piece(FromFifo(f + k), n, p) /\ Len(FromFifo(f + k)) = f + k
  BY <1>1, <1>3, PieceFromFifo, Zenon
<1>5. Piece(new, n, B + 1) /\ Len(new) = k
  <2>1. PICK a \in Nat : a = f + k /\ f <= a
    BY <1>3, Zenon
  <2>2. PICK g : g = FromFifo(f + k)
    OBVIOUS
  <2>3. Piece(g, n, p) /\ f <= a /\ a <= Len(g)
    <3>1. a <= a
      BY SMT
    <3> QED
      BY <1>4, <2>1, <2>2, <3>1, Zenon
  <2>4. Piece(SubSeq(g, f + 1, a), n, p + f) /\ Len(SubSeq(g, f + 1, a)) = a - f
    <3> HIDE DEF n, p, B
    <3>1. n \in Nat /\ p \in Nat /\ a \in Nat
      BY <1>1, <2>1, Zenon
    <3> QED
      BY <2>3, <3>1, PieceSubSeq, SMTT(60)
  <2>5. a - f = k
    BY <2>1, SMT
  <2> QED
    BY <1>3, <2>1, <2>2, <2>4, <2>5, ZenonT(60)
<1>6. old = settings.RxTxBuffer
  <2> DEFINE x == settings.RxTxBuffer
  <2>1. x \in Seq(Nat) /\ Len(x) = B
    BY <1>1, PieceLen, Zenon
  <2> HIDE DEF x, B
  <2>2. SubSeq(x, 1, B) = x
    BY <2>1, SMT
  <2> QED
    BY <2>2, Zenon DEF x, B
<1>7. Piece(old \o new, n, 1) /\ Len(old \o new) = B + k
  <2>1. PICK o, r \in Nat : o = 1 /\ r = B + 1 /\ r = o + Len(old)
    <3>1. Len(old) = B
      BY <1>1, <1>6, Zenon
    <3> HIDE DEF old, B
    <3> QED
      BY <1>1, <3>1, SMT
  <2>2. Piece(old, n, o) /\ Piece(new, n, r) /\ Len(old) = B
    BY <1>1, <1>5, <1>6, <2>1, Zenon
  <2> HIDE DEF old, new, n, B
  <2>3. Piece(old \o new, n, o) /\ Len(old \o new) = Len(old) + Len(new)
    BY <1>1, <2>1, <2>2, PieceConcat, SMTT(180)
  <2> QED
    BY <1>5, <2>1, <2>2, <2>3, Zenon
<1>8. Piece(FifoAfter(f + k), n, B + k + 1) /\ Len(FifoAfter(f + k)) = Len(chip.fifo) - (f + k)
  <2>1. PICK a, b \in Nat : a = f + k /\ b = Len(chip.fifo) /\ a <= b /\ b <= Len(chip.fifo)
    <3>1. Len(chip.fifo) <= Len(chip.fifo)
      BY <1>1, SMT
    <3> QED
      BY <1>1, <1>3, <3>1, Zenon
  <2>2. Piece(SubSeq(chip.fifo, a + 1, b), n, p + a) /\ Len(SubSeq(chip.fifo, a + 1, b)) = b - a
    <3> HIDE DEF n, p, B
    <3>1. n \in Nat /\ p \in Nat /\ a \in Nat /\ b \in Nat /\ Piece(chip.fifo, n, p)
      BY <1>1, <2>1, Zenon
    <3>2. a <= b /\ b <= Len(chip.fifo)
      BY <2>1, Zenon
    <3> QED
      BY <3>1, <3>2, PieceSubSeq, SMT
  <2>3. p + a = B + k + 1
    <3> HIDE DEF p, B, n
    <3>1. p \in Nat /\ B \in Nat /\ p + f = B + 1 /\ a = f + k
      BY <1>1, <1>3, <2>1, Zenon
    <3>2. PICK x, y \in Nat : x = p /\ y = B
      BY <3>1, Zenon
    <3>3. x + f = y + 1 /\ a = f + k
      BY <3>1, <3>2, Zenon
    <3>4. x + a = y + k + 1
      BY <3>3, SMTT(180)
    <3> QED
      BY <3>2, <3>4, Zenon
  <2> QED
    BY <2>1, <2>2, <2>3, Zenon DEF FifoAfter
<1>9. s = [settings EXCEPT !.Size = n, !.NbBytes = B + k, !.RxTxBuffer = old \o new]
  BY <1>2, Zenon DEF BytesRead
<1>10. settings \in SettingsRecord /\ old \o new \in Seq(Nat)
  BY <1>7, PieceLen, Zenon DEF RadioInv
<1> DEFINE q == old \o new
           c == B + k
<1>11. c \in Nat /\ q \in Seq(Nat) /\ s = [settings EXCEPT !.Size = n, !.NbBytes = c, !.RxTxBuffer = q]
  BY <1>3, <1>9, <1>10, Zenon
<1>12. Piece(q, n, 1) /\ Len(q) = c
  BY <1>7, Zenon
<1> HIDE DEF q, c, n
<1>13. /\ s \in SettingsRecord /\ s.State = settings.State /\ s.Modem = settings.Modem
       /\ s.Timers = settings.Timers /\ s.Size = n /\ s.NbBytes = c /\ s.RxTxBuffer = q
  <2>1. n \in Nat /\ settings \in SettingsRecord
    BY <1>1, <1>10, Zenon
  <2>2. [settings EXCEPT !.Size = n, !.NbBytes = c, !.RxTxBuffer = q] \in SettingsRecord
    BY <1>11, <2>1, BytesReadType, Zenon
  <2>3. /\ s.State = settings.State /\ s.Modem = settings.Modem /\ s.Timers = settings.Timers
        /\ s.Size = n /\ s.NbBytes = c /\ s.RxTxBuffer = q
    BY <1>11, <2>1, ZenonT(60) DEF SettingsRecord
  <2> QED
    BY <1>11, <2>2, <2>3, Zenon
<1>14. c = settings.NbBytes + k
  BY Zenon DEF c
<1> QED
  BY <1>8, <1>12, <1>13, <1>14, Zenon DEF n

-----------------------------------------------------------------------------
(***************************************************************************)
(* PayloadReady, PacketSent, RxDone and TxDone.                            *)
(***************************************************************************)
(* A step within a request, its timeouts left alone. *)
LEMMA BusyStep ==
    ASSUME RadioInv, settings.State # "RF_IDLE", settings' \in SettingsRecord, chip' \in ChipRecord,
           settings'.State = settings.State, settings'.Modem = settings.Modem,
           settings'.Timers = settings.Timers, outcome' = outcome, dio' \subseteq {0, 1, 2, 4},
           SendsInOrder', ReceivesInOrder', LoraIsWhole'
    PROVE  RadioInv'
<1>1. /\ outcome' \in [reports : Nat, whole : BOOLEAN] /\ NoneWrong'
  BY Zenon DEF RadioInv, NoneWrong
<1>2. OneReport'
  <2>1. OneReport
    BY Zenon DEF RadioInv
  <2> QED
    BY <2>1, Zenon DEF OneReport
<1>3. LoraHasOneTimeout' /\ IdleSleeps'
  <2>1. LoraHasOneTimeout
    BY Zenon DEF RadioInv
  <2> QED
    BY <2>1, Zenon DEF LoraHasOneTimeout, IdleSleeps
<1> QED
  BY <1>1, <1>2, <1>3, Zenon DEF RadioInv

(* The same while FSK receives: only ReceivesInOrder is at stake. *)
LEMMA FskReceiveStep ==
    ASSUME RadioInv, settings.State = "RF_RX_RUNNING", settings.Modem = "FSK",
           settings' \in SettingsRecord, chip' \in ChipRecord,
           settings'.State = settings.State, settings'.Modem = settings.Modem,
           settings'.Timers = settings.Timers, outcome' = outcome, dio' \subseteq {0, 1, 2, 4},
           ReceivesInOrder'
    PROVE  RadioInv'
<1>1. "RF_RX_RUNNING" # "RF_IDLE" /\ "RF_RX_RUNNING" # "RF_TX_RUNNING" /\ "FSK" # "LORA"
  BY SMT
<1>2. SendsInOrder' /\ LoraIsWhole'
  BY <1>1, Zenon DEF SendsInOrder, LoraIsWhole
<1> QED
  BY <1>1, <1>2, BusyStep, Zenon

(* The same while FSK sends: only SendsInOrder is at stake. *)
LEMMA FskSendStep ==
    ASSUME RadioInv, settings.State = "RF_TX_RUNNING", settings.Modem = "FSK",
           settings' \in SettingsRecord, chip' \in ChipRecord,
           settings'.State = settings.State, settings'.Modem = settings.Modem,
           settings'.Timers = settings.Timers, outcome' = outcome, dio' \subseteq {0, 1, 2, 4},
           SendsInOrder'
    PROVE  RadioInv'
<1>1. "RF_TX_RUNNING" # "RF_IDLE" /\ "RF_RX_RUNNING" # "RF_TX_RUNNING" /\ "FSK" # "LORA"
  BY SMT
<1>2. ReceivesInOrder' /\ LoraIsWhole'
  BY <1>1, Zenon DEF ReceivesInOrder, LoraIsWhole
<1> QED
  BY <1>1, <1>2, BusyStep, Zenon

(* ReceivesInOrder while a packet arrives, from its parts. *)
LEMMA InOrderAgain ==
    ASSUME NEW n, n = Len(chip'.packet), NEW p, p = Taken(settings)', NEW l, l = Len(chip'.fifo),
           chip'.mode = "receiver", settings'.Size = 0 => settings'.NbBytes = 0,
           chip'.phase \in {"packet", "received"},
           n > 0, chip'.packet = Packet(n), settings'.Size \in {0, n},
           Piece(settings'.RxTxBuffer, n, 1), Len(settings'.RxTxBuffer) = settings'.NbBytes,
           Piece(chip'.fifo, n, p), Piece(chip'.air, n, p + l), p + l + Len(chip'.air) = n + 1,
           chip'.phase = "received" <=> chip'.air = <<>>,
           0 \in dio' => chip'.phase = "received",
           1 \in dio' => FifoThresh < l /\ l <= FifoThresh + DioLatency + 1,
           1 \notin dio' => l <= FifoThresh
    PROVE  ReceivesInOrder'
<1>1. chip'.phase \notin {"silent", "preamble"}
  BY SMT
<1> QED
  BY <1>1, ZenonT(60) DEF ReceivesInOrder, Taken

(* PayloadReady: the rest of the packet is in the FIFO, so the MAC is      *)
(* handed the packet that was on the air.                                  *)
LEMMA RxDoneFskStep ==
    ASSUME RadioInv, settings.State = "RF_RX_RUNNING", settings.Modem = "FSK",
           0 \in dio, dio' \subseteq dio, RxDoneFsk
    PROVE  RadioInv'
<1> DEFINE n == Len(chip.packet)
           f == SizeRead(settings).from
           k == SizeRead(settings).size - settings.NbBytes
           s == BytesRead(settings, k)
<1>1. chip.phase = "received" /\ Arriving
  <2>1. ReceivesInOrder /\ chip.phase \in Phases
    BY ChipFields, Zenon DEF RadioInv
  <2>2. chip.phase \notin {"silent", "preamble"}
    BY <2>1, Zenon DEF ReceivesInOrder
  <2>3. chip.phase \in {"packet", "received"}
    BY <2>1, <2>2, Zenon DEF Phases
  <2>4. chip.phase = "received"
    BY <2>1, <2>3, Zenon DEF ReceivesInOrder
  <2> QED
    BY <2>3, <2>4, Zenon DEF Arriving
<1>2. /\ n \in Nat /\ n > 0 /\ chip.packet = Packet(n) /\ settings.Size \in {0, n}
      /\ (settings.Size = 0 => settings.NbBytes = 0) /\ settings.NbBytes \in Nat
      /\ Taken(settings) + Len(chip.fifo) + Len(chip.air) = n + 1 /\ chip.air = <<>>
      /\ Len(chip.fifo) \in Nat /\ Len(chip.air) \in Nat /\ Len(chip.air) = 0
  <2>1. /\ n \in Nat /\ n > 0 /\ chip.packet = Packet(n) /\ settings.Size \in {0, n}
        /\ (settings.Size = 0 => settings.NbBytes = 0) /\ settings.NbBytes \in Nat
        /\ Taken(settings) + Len(chip.fifo) + Len(chip.air) = n + 1 /\ chip.air = <<>>
        /\ Len(chip.fifo) \in Nat /\ Len(chip.air) \in Nat
    BY <1>1, ArrivingFacts, Zenon
  <2>2. Len(chip.air) = 0
    BY <2>1, EmptySeq, Zenon
  <2> QED
    BY <2>1, <2>2, Zenon
<1>3. settings.Size = 0 => Len(chip.fifo) > 0
  <2> HIDE DEF n
  <2>1. settings.Size = 0 => Taken(settings) = 0
    BY <1>2, SMT DEF Taken
  <2>2. /\ n \in Nat /\ Len(chip.fifo) \in Nat /\ Len(chip.air) = 0
        /\ Taken(settings) + Len(chip.fifo) + Len(chip.air) = n + 1
    BY <1>2, Zenon
  <2> QED
    BY <2>1, <2>2, SMT
<1>4. SizeRead(settings).size = n /\ f = IF settings.Size = 0 THEN 1 ELSE 0
  BY <1>1, <1>3, SizeIsRead, Zenon
<1>5. k \in Nat /\ f \in Nat /\ f + k <= Len(chip.fifo) /\ settings.NbBytes + k = n
  <2>1. k = n - settings.NbBytes
    BY <1>4, Zenon
  <2> HIDE DEF k, f, n
  <2>2. \/ f = 1 /\ settings.NbBytes = 0 /\ Taken(settings) = settings.NbBytes + 0
        \/ f = 0 /\ Taken(settings) = settings.NbBytes + 1
    BY <1>2, <1>4, Zenon DEF Taken
  <2>3. /\ n \in Nat /\ settings.NbBytes \in Nat /\ Len(chip.fifo) \in Nat /\ Len(chip.air) = 0
        /\ Taken(settings) + Len(chip.fifo) + Len(chip.air) = n + 1
    BY <1>2, Zenon
  <2> QED
    <3>1. PICK h \in Nat, b \in Nat : h = Len(chip.fifo) /\ b = settings.NbBytes
      BY <2>3, Zenon
    <3>7. PICK t : t = Taken(settings)
      BY Zenon
    <3>2. t + h + Len(chip.air) = n + 1
      BY <2>3, <3>1, <3>7, Zenon
    <3>3. t + h + 0 = n + 1
      BY <3>2, <2>3, Zenon
    <3>4. (f = 1 /\ b = 0 /\ t = b + 0) \/ (f = 0 /\ t = b + 1)
      BY <2>2, <3>1, <3>7, Zenon
    <3>5. k = n - b
      BY <2>1, <3>1, Zenon
    <3>6. k \in Nat /\ f \in Nat /\ f + k <= h /\ b + k = n
      <4>1. n \in Nat
        BY <2>3, Zenon
      <4>2. t \in Nat /\ f \in Nat
        BY <3>4, SMT
      <4> QED
        BY <3>3, <3>4, <3>5, <4>1, <4>2, SMT
    <3> QED
      BY <3>1, <3>6, Zenon
<1> HIDE DEF k, f
<1>6. /\ s \in SettingsRecord /\ s.Timers = settings.Timers
      /\ Piece(s.RxTxBuffer, n, 1) /\ Len(s.RxTxBuffer) = settings.NbBytes + k
  <2>1. f = SizeRead(settings).from
    BY Zenon DEF f
  <2> QED
    BY <1>1, <1>3, <1>5, <2>1, BytesAreRead, ZenonT(60)
<1>7. s.RxTxBuffer = chip.packet
  <2>1. Piece(Packet(n), n, 1) /\ Len(Packet(n)) = n
    BY <1>2, PacketIsPiece, Zenon
  <2> HIDE DEF s, n
  <2>2. Len(s.RxTxBuffer) = Len(Packet(n))
    BY <1>5, <1>6, <2>1, Zenon
  <2>3. s.RxTxBuffer = Packet(n)
    BY <1>6, <2>1, <2>2, SamePiece, Zenon
  <2> QED
    BY <1>2, <2>3, Zenon
<1>8. settings.Timers \ {"RxTimeoutTimer", "RxTimeoutSyncWord"} \subseteq {"RxTimeoutTimer", "TxTimeoutTimer"}
  BY BusyTimers, Zenon
<1>9. ASSUME NEW u \in SettingsRecord, u.Timers = settings.Timers
      PROVE  /\ ForgetPacket(EndOfRx(u)) \in SettingsRecord
             /\ ForgetPacket(EndOfRx(u)).Timers \subseteq {"RxTimeoutTimer", "TxTimeoutTimer"}
  <2>1. /\ EndOfRx(u) \in SettingsRecord
        /\ EndOfRx(u).Timers = u.Timers \ {"RxTimeoutTimer", "RxTimeoutSyncWord"}
    BY Stopped, Zenon DEF EndOfRx
  <2>2. /\ ForgetPacket(EndOfRx(u)) \in SettingsRecord
        /\ ForgetPacket(EndOfRx(u)).Timers = EndOfRx(u).Timers
    BY <2>1, ForgetPacketType, Zenon
  <2> QED
    BY <1>8, <1>9, <2>1, <2>2, Zenon
<1>10. settings \in SettingsRecord /\ settings.State # "RF_IDLE"
  BY SMT DEF RadioInv
<1>11. CASE chip.crc
  <2>1. Report(ForgetPacket(EndOfRx(s)), s.RxTxBuffer = chip.packet)
    BY <1>11, Zenon DEF RxDoneFsk, k
  <2> HIDE DEF s
  <2>2. (s.RxTxBuffer = chip.packet) = TRUE
    BY <1>7, Zenon
  <2> QED
    BY <1>6, <1>9, <1>10, <2>1, <2>2, ReportStep, ZenonT(60)
<1>12. CASE ~chip.crc
  <2>1. Report(ForgetPacket(EndOfRx(settings)), TRUE)
    BY <1>12, Zenon DEF RxDoneFsk
  <2> QED
    BY <1>9, <1>10, <2>1, ReportStep, Zenon
<1> QED
  BY <1>11, <1>12, Zenon

(* Writing RxTxBuffer keeps types and timers. *)
LEMMA BufferType ==
    ASSUME NEW s \in SettingsRecord, NEW q \in Seq(Nat)
    PROVE  [s EXCEPT !.RxTxBuffer = q] \in SettingsRecord /\ [s EXCEPT !.RxTxBuffer = q].Timers = s.Timers
<1>1. [s EXCEPT !.RxTxBuffer = q] \in SettingsRecord
  BY ZenonT(60) DEF SettingsRecord
<1>2. [s EXCEPT !.RxTxBuffer = q].Timers = s.Timers
  BY Zenon DEF SettingsRecord
<1> QED
  BY <1>1, <1>2, Zenon

(* A single LoRa reception ends with its only timeout. *)
LEMMA RxEndsLora ==
    ASSUME RadioInv, settings.State = "RF_RX_RUNNING", settings.Modem = "LORA", NEW s,
           s = [settings EXCEPT !.State = "RF_IDLE", !.Timers = @ \ {"RxTimeoutTimer"}]
    PROVE  s \in SettingsRecord /\ s.Timers \subseteq {"RxTimeoutTimer", "TxTimeoutTimer"}
<1>1. settings \in SettingsRecord
  BY Zenon DEF RadioInv
<1>2. s \in SettingsRecord /\ s.Timers = settings.Timers \ {"RxTimeoutTimer"}
  BY <1>1, Stopped, Zenon
<1>3. settings.Timers \ {"RxTimeoutTimer"} \subseteq {"RxTimeoutTimer", "TxTimeoutTimer"}
  BY BusyTimers, Zenon
<1> QED
  BY <1>2, <1>3, Zenon

(* RxDone in LoRa mode. *)
LEMMA RxDoneLoraStep ==
    ASSUME RadioInv, settings.State = "RF_RX_RUNNING", settings.Modem = "LORA",
           0 \in dio, dio' \subseteq dio, RxDoneLora
    PROVE  RadioInv'
<1> DEFINE s == [settings EXCEPT !.State = "RF_IDLE", !.Timers = @ \ {"RxTimeoutTimer"}]
           u == [s EXCEPT !.RxTxBuffer = chip.fifo]
<1>1. s \in SettingsRecord /\ s.Timers \subseteq {"RxTimeoutTimer", "TxTimeoutTimer"}
  BY RxEndsLora, Zenon
<1>2. IF chip.crc THEN Report(u, chip.fifo = chip.packet) ELSE Report(s, TRUE)
  BY Zenon DEF RxDoneLora
<1> HIDE DEF s
<1>3. chip.fifo \in Seq(Nat) /\ LoraIsWhole
  BY ChipFields, Zenon DEF RadioInv
<1>4. u \in SettingsRecord /\ u.Timers = s.Timers
  BY <1>1, <1>3, BufferType, Zenon
<1> HIDE DEF u
<1>5. settings.State # "RF_IDLE"
  BY SMT
<1>6. (chip.fifo = chip.packet) = TRUE
  BY <1>3, <1>5, Zenon DEF LoraIsWhole
<1>7. CASE chip.crc
  <2>1. Report(u, chip.fifo = chip.packet) /\ u.Timers \subseteq {"RxTimeoutTimer", "TxTimeoutTimer"}
    BY <1>1, <1>2, <1>4, <1>7, Zenon
  <2> QED
    BY <1>4, <1>5, <1>6, <2>1, ReportStep, ZenonT(60)
<1>8. CASE ~chip.crc
  <2>1. Report(s, TRUE)
    BY <1>2, <1>8, Zenon
  <2> QED
    BY <1>1, <1>5, <2>1, ReportStep, Zenon
<1> QED
  BY <1>7, <1>8, Zenon

(* PacketSent and TxDone: the whole packet was on the air. *)
LEMMA TxDoneStep ==
    ASSUME RadioInv, settings.State = "RF_TX_RUNNING", 0 \in dio, dio' \subseteq dio, TxDone
    PROVE  RadioInv'
<1> DEFINE s == [settings EXCEPT !.State = "RF_IDLE", !.Timers = @ \ {"TxTimeoutTimer"}]
           right == chip.air = IF settings.Modem = "FSK" THEN OnAir(Len(chip.packet)) ELSE chip.packet
<1>1. s \in SettingsRecord /\ s.Timers \subseteq {"RxTimeoutTimer", "TxTimeoutTimer"}
  <2>1. settings \in SettingsRecord
    BY Zenon DEF RadioInv
  <2>2. s \in SettingsRecord /\ s.Timers = settings.Timers \ {"TxTimeoutTimer"}
    BY <2>1, Stopped, Zenon
  <2>3. settings.Timers \ {"TxTimeoutTimer"} \subseteq {"RxTimeoutTimer", "TxTimeoutTimer"}
    BY BusyTimers, Zenon
  <2> QED
    BY <2>2, <2>3, Zenon
<1>2. Report(s, right)
  BY Zenon DEF TxDone
<1>3. settings.State # "RF_IDLE"
  BY SMT
<1>4. right = TRUE
  <2>1. CASE settings.Modem = "LORA"
    <3>1. LoraIsWhole /\ settings.Modem # "FSK"
      BY <2>1, SMT DEF RadioInv
    <3> QED
      BY <1>3, <2>1, <3>1, Zenon DEF LoraIsWhole
  <2>2. CASE settings.Modem = "FSK"
    <3> DEFINE n == settings.Size
    <3>1. SendsInOrder /\ n \in Nat
      BY SettingsFields, Zenon DEF RadioInv
    <3>2. Piece(chip.air, n, 0) /\ Len(chip.air) = n + 1 /\ chip.packet = Packet(n)
      BY <2>2, <3>1, Zenon DEF SendsInOrder
    <3>3. Piece(OnAir(n), n, 0) /\ Len(OnAir(n)) = n + 1 /\ Len(chip.packet) = n
      BY <3>1, <3>2, OnAirIsPiece, PacketIsPiece, ZenonT(60)
    <3>4. chip.air = OnAir(n)
      BY <3>2, <3>3, SamePiece, Zenon
    <3> QED
      BY <2>2, <3>3, <3>4, Zenon
  <2> QED
    BY <2>1, <2>2, SettingsFields, Zenon DEF RadioInv, Modems
<1> HIDE DEF s, right
<1> QED
  BY <1>1, <1>2, <1>3, <1>4, ReportStep, ZenonT(60)

(* SX1272OnDio0Irq. *)
LEMMA Dio0Step ==
    ASSUME RadioInv, 0 \in dio, dio' = dio \ {0}, SX1272OnDio0Irq
    PROVE  RadioInv'
<1>1. dio' \subseteq dio
  BY Zenon
<1> QED
  BY <1>1, RxDoneFskStep, RxDoneLoraStep, TxDoneStep, IgnoredStep, ZenonT(60) DEF SX1272OnDio0Irq

-----------------------------------------------------------------------------
(***************************************************************************)
(* FifoLevel and FifoEmpty.                                                *)
(***************************************************************************)
(* FifoLevel: the edge waits only while the FIFO holds more than the       *)
(* threshold, so no byte is read that has not arrived, and below the       *)
(* threshold afterwards, so the next edge will rise.                       *)
LEMMA FifoLevelStep ==
    ASSUME RadioInv, settings.State = "RF_RX_RUNNING", settings.Modem = "FSK",
           1 \in dio, dio' = dio \ {1}, FifoLevel
    PROVE  RadioInv'
<1> DEFINE n == Len(chip.packet)
           f == SizeRead(settings).from
           m == SizeRead(settings).size - settings.NbBytes
           k == IF m > FifoThresh THEN FifoThresh ELSE m
           q == FifoAfter(f + k)
<1>1. Arriving
  <2>1. ReceivesInOrder /\ chip.phase \in Phases
    BY ChipFields, Zenon DEF RadioInv
  <2>2. chip.phase \notin {"silent", "preamble"}
    BY <2>1, Zenon DEF ReceivesInOrder
  <2> QED
    BY <2>1, <2>2, Zenon DEF Phases, Arriving
<1>2. /\ n \in Nat /\ n > 0 /\ chip.packet = Packet(n) /\ settings.Size \in {0, n}
      /\ (settings.Size = 0 => settings.NbBytes = 0) /\ settings.NbBytes \in Nat
      /\ Taken(settings) + Len(chip.fifo) + Len(chip.air) = n + 1 /\ Taken(settings) \in Nat
      /\ Piece(chip.air, n, Taken(settings) + Len(chip.fifo))
      /\ chip.mode = "receiver" /\ (chip.phase = "received" <=> chip.air = <<>>)
      /\ (0 \in dio => chip.phase = "received")
      /\ FifoThresh < Len(chip.fifo) /\ Len(chip.fifo) <= FifoThresh + DioLatency + 1
      /\ Len(chip.fifo) \in Nat /\ Len(chip.air) \in Nat
  BY <1>1, ArrivingFacts, Zenon
<1>3. FifoThresh \in Nat /\ DioLatency \in Nat /\ DioLatency < FifoThresh
  BY SX1272Assumption, SMT
<1>4. Len(chip.fifo) > 0
  BY <1>2, <1>3, SMT
<1>5. SizeRead(settings).size = n /\ f = IF settings.Size = 0 THEN 1 ELSE 0
  BY <1>1, <1>4, SizeIsRead, Zenon
<1>6. m = n - settings.NbBytes
  BY <1>5, Zenon
<1>7. settings' = BytesRead(settings, k) /\ chip' = [chip EXCEPT !.fifo = q] /\ outcome' = outcome
  BY Zenon DEF FifoLevel
<1>8. /\ k \in Nat /\ f \in Nat /\ f + k <= Len(chip.fifo) /\ Len(chip.fifo) - (f + k) <= FifoThresh
      /\ Taken(settings) + f = settings.NbBytes + 1
  <2>1. k = IF m > FifoThresh THEN FifoThresh ELSE m
    BY Zenon
  <2>2. Taken(settings) = settings.NbBytes + IF settings.Size = 0 THEN 0 ELSE 1
    BY Zenon DEF Taken
  <2> HIDE DEF k, m, f, n
  <2>3. /\ n \in Nat /\ n > 0 /\ (settings.Size = 0 => settings.NbBytes = 0) /\ settings.NbBytes \in Nat
        /\ Taken(settings) + Len(chip.fifo) + Len(chip.air) = n + 1
        /\ FifoThresh < Len(chip.fifo) /\ Len(chip.fifo) <= FifoThresh + DioLatency + 1
        /\ Len(chip.fifo) \in Nat /\ Len(chip.air) \in Nat
    BY <1>2, Zenon
  <2>4. f = IF settings.Size = 0 THEN 1 ELSE 0
    BY <1>5, Zenon
  <2>5. PICK F, A, B \in Nat : F = Len(chip.fifo) /\ A = Len(chip.air) /\ B = settings.NbBytes
    BY <2>3, Zenon
  <2>6. CASE settings.Size = 0
    <3>1. B = 0 /\ f = 1 /\ B + F + A = n + 1 /\ m = n - B
      BY <1>6, <2>2, <2>3, <2>4, <2>5, <2>6, SMTT(60)
    <3>2. FifoThresh < F /\ F <= FifoThresh + DioLatency + 1 /\ n \in Nat
      BY <2>3, <2>5, Zenon
    <3>3. k \in Nat /\ f \in Nat /\ f + k <= F /\ F - (f + k) <= FifoThresh
      BY <1>3, <2>1, <3>1, <3>2, SMTT(60)
    <3> QED
      BY <2>2, <2>5, <2>6, <3>1, <3>3, SMTT(60)
  <2>7. CASE settings.Size # 0
    <3>1. f = 0 /\ B + 1 + F + A = n + 1 /\ m = n - B
      BY <1>6, <2>2, <2>3, <2>4, <2>5, <2>7, ZenonT(60)
    <3>2. FifoThresh < F /\ F <= FifoThresh + DioLatency + 1 /\ n \in Nat
      BY <2>3, <2>5, Zenon
    <3>3. k \in Nat /\ f \in Nat /\ f + k <= F /\ F - (f + k) <= FifoThresh
      BY <1>3, <2>1, <3>1, <3>2, SMTT(60)
    <3> QED
      BY <2>2, <2>5, <2>7, <3>1, <3>3, SMTT(60)
  <2> QED
    BY <2>6, <2>7, Zenon
<1> HIDE DEF k
<1>9. /\ settings' \in SettingsRecord /\ settings'.State = settings.State
      /\ settings'.Modem = settings.Modem /\ settings'.Timers = settings.Timers
      /\ settings'.Size = n /\ settings'.NbBytes = settings.NbBytes + k
      /\ Piece(settings'.RxTxBuffer, n, 1) /\ Len(settings'.RxTxBuffer) = settings.NbBytes + k
      /\ Piece(q, n, settings.NbBytes + k + 1) /\ Len(q) = Len(chip.fifo) - (f + k)
  BY <1>1, <1>4, <1>7, <1>8, BytesAreRead, ZenonT(180)
<1> HIDE DEF q, f, m
<1>10. /\ chip' \in ChipRecord /\ chip'.fifo = q /\ chip'.mode = chip.mode /\ chip'.phase = chip.phase
       /\ chip'.air = chip.air /\ chip'.packet = chip.packet
  <2>1. chip \in ChipRecord /\ q \in Seq(Nat)
    BY <1>9, PieceLen, Zenon DEF RadioInv
  <2>2. [chip EXCEPT !.fifo = q] \in ChipRecord
    BY <2>1, ZenonT(60) DEF ChipRecord
  <2> QED
    BY <1>7, <2>1, <2>2, ZenonT(60) DEF ChipRecord
<1>11. dio' \subseteq {0, 1, 2, 4} /\ 1 \notin dio' /\ (0 \in dio' => 0 \in dio)
  BY Zenon DEF RadioInv
<1>12. ReceivesInOrder'
  <2> DEFINE p == settings.NbBytes + k + 1
             l == Len(q)
  <2>1. Taken(settings)' = p
    <3>1. settings'.Size # 0
      BY <1>2, <1>9, SMT
    <3>2. Taken(settings)' = settings'.NbBytes + 1
      BY <3>1, Zenon DEF Taken
    <3> QED
      BY <1>9, <3>2, ZenonT(60)
  <2>2. p + l = Taken(settings) + Len(chip.fifo) /\ l <= FifoThresh
    <3> HIDE DEF p, l, n
    <3>1. PICK F, B, T \in Nat : F = Len(chip.fifo) /\ B = settings.NbBytes /\ T = Taken(settings)
      BY <1>2, Zenon
    <3>2. p = B + k + 1 /\ l = F - (f + k) /\ T + f = B + 1 /\ F - (f + k) <= FifoThresh
      BY <1>8, <1>9, <3>1, ZenonT(60) DEF p, l
    <3>3. p + l = T + F
      BY <1>8, <3>2, SMT
    <3> QED
      BY <3>1, <3>2, <3>3, Zenon
  <2>3. n = Len(chip'.packet) /\ l = Len(chip'.fifo)
    BY <1>10, Zenon
  <2> HIDE DEF p, l, n
  <2>4. /\ Piece(chip'.fifo, n, p) /\ Piece(chip'.air, n, p + l) /\ p + l + Len(chip'.air) = n + 1
    BY <1>2, <1>9, <1>10, <2>2, ZenonT(60) DEF p
  <2>5. /\ chip'.mode = "receiver" /\ chip'.phase \in {"packet", "received"}
        /\ (chip'.phase = "received" <=> chip'.air = <<>>) /\ chip'.packet = Packet(n)
        /\ (0 \in dio' => chip'.phase = "received")
    BY <1>1, <1>2, <1>10, <1>11, ZenonT(60) DEF Arriving
  <2>6. /\ settings'.Size = n /\ n > 0 /\ settings'.Size \in {0, n}
        /\ Piece(settings'.RxTxBuffer, n, 1) /\ Len(settings'.RxTxBuffer) = settings'.NbBytes
    BY <1>2, <1>9, ZenonT(60)
  <2>7. settings'.Size # 0
    BY <1>2, <2>6, SMT
  <2> QED
    BY <1>11, <2>1, <2>2, <2>3, <2>4, <2>5, <2>6, <2>7, InOrderAgain, ZenonT(60)
<1> QED
  BY <1>7, <1>9, <1>10, <1>11, <1>12, FskReceiveStep, ZenonT(60)

(* The size byte, unless a byte was dropped for it. *)
SizeByte(n) == IF n = FifoSize THEN 0 ELSE 1

(* What SendsInOrder says while FSK sends. *)
LEMMA SendFacts ==
    ASSUME RadioInv, settings.State = "RF_TX_RUNNING", settings.Modem = "FSK"
    PROVE  LET n == settings.Size IN
           /\ n \in Nat /\ settings.NbBytes \in Nat /\ settings.ChunkSize \in Nat
           /\ Len(chip.air) \in Nat /\ Len(chip.fifo) \in Nat
           /\ chip.mode = "transmitter" /\ chip.packet = Packet(n) /\ Len(chip.packet) = n
           /\ settings.NbBytes <= n /\ settings.ChunkSize <= FifoSize
           /\ (settings.NbBytes < n => settings.RxTxBuffer = Packet(n))
           /\ Piece(chip.air, n, 0) /\ Piece(chip.fifo, n, Len(chip.air))
           /\ Len(chip.air) + Len(chip.fifo) = settings.NbBytes + SizeByte(n)
           /\ (n = FifoSize => settings.NbBytes = n)
           /\ Len(chip.fifo) <= FifoSize
           /\ (1 \in dio => chip.fifo = <<>>)
           /\ (0 \in dio => Len(chip.air) = n + 1)
<1> DEFINE n == settings.Size
<1>1. settings \in SettingsRecord /\ chip \in ChipRecord /\ SendsInOrder
  BY Zenon DEF RadioInv
<1>2. n \in Nat /\ settings.NbBytes \in Nat /\ settings.ChunkSize \in Nat
  BY <1>1, SettingsFields, Zenon
<1>3. Len(chip.air) \in Nat /\ Len(chip.fifo) \in Nat
  BY <1>1, ChipFields, LenProperties, Zenon
<1>4. /\ chip.mode = "transmitter" /\ chip.packet = Packet(n)
      /\ settings.NbBytes <= n /\ settings.ChunkSize <= FifoSize
      /\ (settings.NbBytes < n => settings.RxTxBuffer = Packet(n))
      /\ Piece(chip.air, n, 0) /\ Piece(chip.fifo, n, Len(chip.air))
      /\ Len(chip.air) + Len(chip.fifo) = settings.NbBytes + SizeByte(n)
      /\ (n = FifoSize => settings.NbBytes = n)
      /\ Len(chip.fifo) <= FifoSize
      /\ (1 \in dio => chip.fifo = <<>>)
      /\ (0 \in dio => Len(chip.air) = n + 1)
  BY <1>1, Zenon DEF SendsInOrder, SizeByte
<1>5. Len(chip.packet) = n
  BY <1>2, <1>4, PacketIsPiece, Zenon
<1> QED
  BY <1>2, <1>3, <1>4, <1>5, Zenon

(* FifoEmpty: the FIFO is empty when it is refilled, and the chunk fits    *)
(* it.                                                                     *)
LEMMA FifoEmptyStep ==
    ASSUME RadioInv, settings.State = "RF_TX_RUNNING", settings.Modem = "FSK",
           1 \in dio, dio' = dio \ {1}, FifoEmpty
    PROVE  RadioInv'
<1> DEFINE n    == settings.Size
           B    == settings.NbBytes
           C    == settings.ChunkSize
           e    == SizeByte(n)
           rest == n - B
           k    == IF rest > C THEN C ELSE rest
           x    == SubSeq(settings.RxTxBuffer, B + 1, B + k)
<1>1. /\ n \in Nat /\ B \in Nat /\ C \in Nat /\ Len(chip.air) \in Nat /\ Len(chip.fifo) \in Nat
      /\ chip.mode = "transmitter" /\ chip.packet = Packet(n) /\ B <= n /\ C <= FifoSize
      /\ (B < n => settings.RxTxBuffer = Packet(n)) /\ Piece(chip.air, n, 0)
      /\ Len(chip.air) + Len(chip.fifo) = B + e /\ chip.fifo = <<>>
      /\ (n = FifoSize => B = n)
      /\ (0 \in dio => Len(chip.air) = n + 1)
  BY SendFacts, Zenon
<1>2. /\ settings' = [settings EXCEPT !.NbBytes = B + k]
      /\ chip' = [chip EXCEPT !.fifo = chip.fifo \o x]
      /\ outcome' = outcome
  BY Zenon DEF FifoEmpty
<1>3. FifoSize \in Nat
  BY SX1272Assumption, SMT
<1>4. /\ k \in Nat /\ B + k \in Nat /\ B + k <= n /\ k <= FifoSize /\ (k # 0 => B < n)
      /\ (B + k < n => B < n)
  <2>1. k = IF rest > C THEN C ELSE rest
    BY Zenon
  <2>2. rest = n - B
    BY Zenon
  <2>3. n \in Nat /\ B \in Nat /\ C \in Nat /\ B <= n /\ C <= FifoSize
    BY <1>1, Zenon
  <2> HIDE DEF n, B, C, rest, k
  <2>4. PICK N, b, c \in Nat : N = n /\ b = B /\ c = C
    BY <2>3, Zenon
  <2>5. k = (IF rest > c THEN c ELSE rest) /\ rest = N - b /\ b <= N /\ c <= FifoSize
    BY <2>1, <2>2, <2>3, <2>4, Zenon
  <2>6. /\ k \in Nat /\ b + k \in Nat /\ b + k <= N /\ k <= FifoSize /\ (k # 0 => b < N)
        /\ (b + k < N => b < N)
    <3>1. CASE rest > c
      <4>1. k = c
        BY <2>5, <3>1, Zenon
      <4> QED
        BY <1>3, <2>5, <3>1, <4>1, SMT
    <3>2. CASE ~(rest > c)
      <4>1. k = N - b
        BY <2>5, <3>2, Zenon
      <4> QED
        BY <1>3, <2>5, <3>2, <4>1, SMT
    <3> QED
      BY <3>1, <3>2, Zenon
  <2> QED
    BY <2>4, <2>6, Zenon
<1> HIDE DEF k, rest
<1>14. e \in Nat /\ (e = 1 \/ (e = 0 /\ k = 0))
  <2> HIDE DEF n, B
  <2>1. CASE n = FifoSize
    <3>1. e = 0 /\ B = n
      BY <1>1, <2>1, Zenon DEF SizeByte
    <3>2. k = 0
      BY <1>1, <1>4, <3>1, SMT
    <3> QED
      BY <3>1, <3>2, SMT
  <2>2. CASE n # FifoSize
    <3>1. e = 1
      BY <2>2, Zenon DEF SizeByte
    <3> QED
      BY <3>1, SMT
  <2> QED
    BY <2>1, <2>2, Zenon
<1> HIDE DEF e
<1>5. Piece(x, n, B + e) /\ Len(x) = k
  <2>1. CASE k = 0
    <3> HIDE DEF n, B
    <3>1. B + 1 \in Int /\ B + k \in Int /\ B + k < B + 1
      BY <1>1, <1>4, <2>1, SMT
    <3>2. x = <<>>
      BY <3>1, SubSeqEmpty, Zenon
    <3>3. Len(x) = 0
      BY <3>2, EmptySeq, Zenon
    <3> QED
      BY <2>1, <3>2, <3>3, NoPiece, ZenonT(60)
  <2>2. CASE k # 0
    <3> HIDE DEF B
    <3>1. settings.RxTxBuffer = Packet(n)
      BY <1>1, <1>4, <2>2, Zenon
    <3>2. Piece(Packet(n), n, 1) /\ Len(Packet(n)) = n
      BY <1>1, PacketIsPiece, Zenon
    <3>3. PICK o, a, b \in Nat : o = 1 /\ a = B /\ b = B + k
      BY <1>1, <1>4, SMT
    <3>4. PICK y, N : y = Packet(n) /\ N = n
      OBVIOUS
    <3>5. N \in Nat /\ Piece(y, N, o) /\ a <= b /\ b <= Len(y)
      <4>1. a <= b
        BY <1>4, <3>3, SMT
      <4> QED
        BY <1>1, <1>4, <3>2, <3>3, <3>4, <4>1, ZenonT(60)
    <3>6. Piece(SubSeq(y, a + 1, b), N, o + a) /\ Len(SubSeq(y, a + 1, b)) = b - a
      BY <3>3, <3>5, PieceSubSeq, SMT
    <3>7. o + a = B + e /\ b - a = k
      <4>1. o + a = a + 1 /\ b = a + k
        BY <3>3, SMT
      <4>2. b - a = k
        BY <1>4, <3>3, <4>1, SMT
      <4> QED
        BY <1>14, <2>2, <3>3, <4>1, <4>2, Zenon
    <3> HIDE DEF n
    <3> QED
      BY <3>1, <3>3, <3>4, <3>6, <3>7, ZenonT(60) DEF n
  <2> QED
    BY <2>1, <2>2, Zenon
<1>6. chip.fifo \o x = x /\ x \in Seq(Nat)
  <2>1. x \in Seq(Nat)
    BY <1>5, PieceLen, Zenon
  <2> HIDE DEF x
  <2> QED
    BY <1>1, <2>1, ConcatEmptySeq, Zenon
<1> HIDE DEF x
<1>7. /\ chip' \in ChipRecord /\ chip'.fifo = x /\ chip'.mode = chip.mode
      /\ chip'.air = chip.air /\ chip'.packet = chip.packet
  <2>1. chip \in ChipRecord /\ chip' = [chip EXCEPT !.fifo = x]
    BY <1>2, <1>6, Zenon DEF RadioInv
  <2>2. [chip EXCEPT !.fifo = x] \in ChipRecord
    BY <1>6, <2>1, ZenonT(60) DEF ChipRecord
  <2> QED
    BY <2>1, <2>2, ZenonT(60) DEF ChipRecord
<1> DEFINE c == B + k
<1>8. c \in Nat /\ settings' = [settings EXCEPT !.NbBytes = c] /\ settings \in SettingsRecord
  BY <1>2, <1>4, Zenon DEF RadioInv
<1> HIDE DEF c
<1>9. /\ settings' \in SettingsRecord /\ settings'.State = settings.State
      /\ settings'.Modem = settings.Modem /\ settings'.Timers = settings.Timers
      /\ settings'.Size = n /\ settings'.NbBytes = c /\ settings'.ChunkSize = C
      /\ settings'.RxTxBuffer = settings.RxTxBuffer
  <2>1. [settings EXCEPT !.NbBytes = c] \in SettingsRecord
    BY <1>8, ZenonT(60) DEF SettingsRecord
  <2> QED
    BY <1>8, <2>1, ZenonT(60) DEF SettingsRecord
<1>10. dio' \subseteq {0, 1, 2, 4} /\ 1 \notin dio' /\ (0 \in dio' => 0 \in dio)
  BY Zenon DEF RadioInv
<1>11. Len(chip.air) = B + e
  <2>1. Len(chip.fifo) = 0
    BY <1>1, EmptySeq, Zenon
  <2> HIDE DEF B, n
  <2> QED
    BY <1>1, <1>14, <2>1, SMT
<1>12. Len(chip.air) + k = c + e
  <2> HIDE DEF B, n
  <2>1. PICK b \in Nat : b = B
    BY <1>1, Zenon
  <2>2. Len(chip.air) = b + e /\ c = b + k
    BY <1>11, <2>1, Zenon DEF c
  <2> QED
    BY <1>4, <1>14, <2>2, SMT
<1>13. SendsInOrder'
  <2> HIDE DEF n, B, C
  <2>1. /\ c <= n /\ C <= FifoSize /\ (c < n => settings.RxTxBuffer = Packet(n)) /\ k <= FifoSize
    BY <1>1, <1>4, Zenon DEF c
  <2>2. Piece(chip.air, n, 0) /\ Piece(x, n, Len(chip.air)) /\ Len(x) = k
    BY <1>1, <1>5, <1>11, Zenon
  <2>3. n = FifoSize => c = n
    <3>1. n = FifoSize => c <= n /\ B = n /\ B <= c
      <4>1. B <= B + k
        BY <1>1, <1>4, SMT
      <4> QED
        BY <1>1, <2>1, <4>1, Zenon DEF c
    <3> QED
      BY <1>1, <1>8, <3>1, SMT
  <2>4. Len(chip.air) + k = c + IF n = FifoSize THEN 0 ELSE 1
    BY <1>12, Zenon DEF e, SizeByte
  <2> QED
    BY <1>1, <1>7, <1>9, <1>10, <2>1, <2>2, <2>3, <2>4, ZenonT(60) DEF SendsInOrder
<1> QED
  BY <1>2, <1>7, <1>9, <1>10, <1>13, FskSendStep, ZenonT(60)

(* SX1272OnDio1Irq. *)
LEMMA Dio1Step ==
    ASSUME RadioInv, 1 \in dio, dio' = dio \ {1}, SX1272OnDio1Irq
    PROVE  RadioInv'
<1>1. dio' \subseteq dio
  BY Zenon
<1>2. CASE settings.State = "RF_RX_RUNNING" /\ settings.Modem = "FSK" /\ FifoLevel
  BY <1>2, FifoLevelStep, Zenon
<1>3. CASE /\ settings.State = "RF_RX_RUNNING" /\ settings.Modem = "LORA"
           /\ Report([settings EXCEPT !.State = "RF_IDLE", !.Timers = @ \ {"RxTimeoutTimer"}], TRUE)
  <2> DEFINE s == [settings EXCEPT !.State = "RF_IDLE", !.Timers = @ \ {"RxTimeoutTimer"}]
  <2>1. s \in SettingsRecord /\ s.Timers \subseteq {"RxTimeoutTimer", "TxTimeoutTimer"}
    BY <1>3, RxEndsLora, Zenon
  <2>2. Report(s, TRUE) /\ settings.State # "RF_IDLE"
    BY <1>3, Zenon
  <2> HIDE DEF s
  <2> QED
    BY <1>1, <2>1, <2>2, ReportStep, Zenon
<1>4. CASE settings.State = "RF_TX_RUNNING" /\ settings.Modem = "FSK" /\ FifoEmpty
  BY <1>4, FifoEmptyStep, Zenon
<1>5. CASE settings.State = "RF_IDLE" /\ Ignored
  BY <1>1, <1>5, IgnoredStep, Zenon
<1> QED
  BY <1>2, <1>3, <1>4, <1>5, Zenon DEF SX1272OnDio1Irq

-----------------------------------------------------------------------------
(***************************************************************************)
(* The chip.                                                               *)
(***************************************************************************)
(* The mode of the chip tells which request is running. *)
LEMMA WhoIsBusy ==
    ASSUME RadioInv
    PROVE  /\ chip.mode = "transmitter" => settings.State = "RF_TX_RUNNING"
           /\ chip.mode = "receiver" => settings.State = "RF_RX_RUNNING"
<1>1. /\ settings.State \in States /\ settings.Modem \in Modems
      /\ IdleSleeps /\ SendsInOrder /\ ReceivesInOrder /\ LoraIsWhole
  BY SettingsFields, Zenon DEF RadioInv
<1>2. settings.State = "RF_IDLE" => chip.mode = "sleep"
  BY <1>1, Zenon DEF IdleSleeps
<1>3. settings.State = "RF_TX_RUNNING" => chip.mode \in {"transmitter", "standby"}
  <2>1. settings.State = "RF_TX_RUNNING" /\ settings.Modem = "FSK" => chip.mode = "transmitter"
    BY <1>1, Zenon DEF SendsInOrder
  <2>2. settings.State = "RF_TX_RUNNING" /\ settings.Modem = "LORA" => chip.mode \in {"transmitter", "standby"}
    BY <1>1, Zenon DEF LoraIsWhole
  <2> QED
    BY <1>1, <2>1, <2>2, Zenon DEF Modems
<1>4. settings.State = "RF_RX_RUNNING" => chip.mode \in {"receiver", "standby"}
  <2>1. settings.State = "RF_RX_RUNNING" /\ settings.Modem = "FSK" => chip.mode = "receiver"
    BY <1>1, Zenon DEF ReceivesInOrder
  <2>2. settings.State = "RF_RX_RUNNING" /\ settings.Modem = "LORA" => chip.mode \in {"receiver", "standby"}
    BY <1>1, Zenon DEF LoraIsWhole
  <2> QED
    BY <1>1, <2>1, <2>2, Zenon DEF Modems
<1> QED
  BY <1>1, <1>2, <1>3, <1>4, SMT DEF States

(* The chip sends a byte of the FIFO. *)
LEMMA FskByteSentStep ==
    ASSUME RadioInv, FskByteSent
    PROVE  RadioInv'
<1> DEFINE n == settings.Size
           B == settings.NbBytes
           p == Len(chip.air)
           h == Head(chip.fifo)
           t == Tail(chip.fifo)
           a == Append(chip.air, h)
<1>1. /\ chip.mode = "transmitter" /\ settings.Modem = "FSK" /\ chip.fifo # <<>>
      /\ chip' = [chip EXCEPT !.fifo = t, !.air = a] /\ settings' = settings /\ outcome' = outcome
  BY Zenon DEF FskByteSent
<1>2. dio' = dio \cup (IF Len(chip.fifo) = 1 THEN {1} ELSE {})
                  \cup (IF Len(chip.air) = Len(chip.packet) THEN {0} ELSE {})
  BY Zenon DEF FskByteSent
<1>3. settings.State = "RF_TX_RUNNING"
  BY <1>1, WhoIsBusy, Zenon
<1>4. /\ n \in Nat /\ B \in Nat /\ p \in Nat /\ Len(chip.fifo) \in Nat
      /\ chip.packet = Packet(n) /\ Len(chip.packet) = n /\ B <= n /\ settings.ChunkSize <= FifoSize
      /\ (B < n => settings.RxTxBuffer = Packet(n))
      /\ Piece(chip.air, n, 0) /\ Piece(chip.fifo, n, p) /\ p + Len(chip.fifo) = B + SizeByte(n)
      /\ (n = FifoSize => B = n)
      /\ Len(chip.fifo) <= FifoSize /\ (1 \in dio => chip.fifo = <<>>) /\ (0 \in dio => p = n + 1)
  BY <1>1, <1>3, SendFacts, Zenon
<1>5. /\ h \in Nat /\ h = (IF p = 0 THEN n ELSE p) /\ Piece(t, n, p + 1) /\ Len(t) = Len(chip.fifo) - 1
      /\ t \in Seq(Nat) /\ (t = <<>> <=> Len(t) = 0)
  <2>1. /\ h \in Nat /\ h = (IF p = 0 THEN n ELSE p) /\ Piece(t, n, p + 1)
        /\ Len(t) = Len(chip.fifo) - 1
    <3>1. PICK m, q \in Nat : m = n /\ q = p
      BY <1>4, Zenon
    <3>2. PICK g : g = chip.fifo
      OBVIOUS
    <3>3. Piece(g, m, q) /\ g # <<>>
      BY <1>1, <1>4, <3>1, <3>2, Zenon
    <3>4. /\ Head(g) \in Nat /\ Head(g) = (IF q = 0 THEN m ELSE q)
          /\ Piece(Tail(g), m, q + 1) /\ Len(Tail(g)) = Len(g) - 1
      BY <3>1, <3>3, PieceTail, SMT
    <3> QED
      BY <3>1, <3>2, <3>4, Zenon
  <2> HIDE DEF h, t
  <2> QED
    BY <2>1, PieceLen, Zenon
<1>6. Piece(a, n, 0) /\ Len(a) = p + 1 /\ a \in Seq(Nat)
  <2> HIDE DEF h
  <2>1. PICK z \in Nat : z = 0
    BY SMT
  <2>2. z + p = p
    BY <1>4, <2>1, SMT
  <2>3. h = IF z + Len(chip.air) = 0 THEN n ELSE z + Len(chip.air)
    BY <1>5, <2>2, Zenon
  <2>4. Piece(chip.air, n, z)
    BY <1>4, <2>1, Zenon
  <2>5. Piece(a, n, z) /\ Len(a) = Len(chip.air) + 1
    BY <1>4, <1>5, <2>1, <2>3, <2>4, PieceAppend, SMTT(60)
  <2>6. a \in Seq(Nat)
    BY <2>5, PieceLen, Zenon
  <2> QED
    BY <2>1, <2>5, <2>6, Zenon
<1> HIDE DEF h, t, a
<1>7. /\ chip' \in ChipRecord /\ chip'.mode = "transmitter" /\ chip'.packet = chip.packet
      /\ chip'.fifo = t /\ chip'.air = a
  <2>1. chip \in ChipRecord
    BY Zenon DEF RadioInv
  <2>2. [chip EXCEPT !.fifo = t, !.air = a] \in ChipRecord
    BY <1>5, <1>6, <2>1, ZenonT(60) DEF ChipRecord
  <2> QED
    BY <1>1, <2>1, <2>2, ZenonT(60) DEF ChipRecord
<1>8. 0 \notin dio /\ 1 \notin dio /\ dio' \subseteq {0, 1, 2, 4}
      /\ (1 \in dio' => Len(chip.fifo) = 1) /\ (0 \in dio' => p = n)
  <2>1. 1 \notin dio
    BY <1>1, <1>4, Zenon
  <2>2. p # n + 1
    <3> HIDE DEF n, B, p
    <3>1. Len(chip.fifo) # 0
      BY <1>1, <1>4, PieceLen, Zenon
    <3> QED
      BY <1>4, <3>1, SMT DEF SizeByte
  <2>3. 0 \notin dio /\ dio \subseteq {0, 1, 2, 4}
    BY <1>4, <2>2, Zenon DEF RadioInv
  <2>4. dio' \subseteq {0, 1, 2, 4}
    BY <1>2, <2>3, Zenon
  <2>5. 0 # 1
    BY SMT
  <2>6. 1 \in dio' => Len(chip.fifo) = 1
    BY <1>2, <2>1, <2>5, Zenon
  <2>7. 0 \in dio' => Len(chip.air) = Len(chip.packet)
    BY <1>2, <2>3, <2>5, Zenon
  <2> QED
    BY <1>4, <2>1, <2>3, <2>4, <2>6, <2>7, ZenonT(60)
<1>9. SendsInOrder'
  <2>1. Len(a) + Len(t) = B + SizeByte(n) /\ Len(t) <= FifoSize /\ (Len(chip.fifo) = 1 => t = <<>>) /\ (p = n => Len(a) = n + 1)
    <3> HIDE DEF n, B, p
    <3>1. FifoSize \in Nat
      BY SX1272Assumption, SMT
    <3>2. PICK b, l, q, m \in Nat : b = B /\ l = Len(chip.fifo) /\ q = p /\ m = n
      BY <1>4, Zenon
    <3>6. PICK e : e = SizeByte(n)
      OBVIOUS
    <3>7. e \in Nat
      BY <3>6, SMT DEF SizeByte
    <3>3. q + l = b + e /\ l <= FifoSize /\ Len(t) = l - 1 /\ Len(a) = q + 1 /\ (t = <<>> <=> Len(t) = 0)
      BY <1>4, <1>5, <1>6, <3>2, <3>6, Zenon
    <3>4. Len(a) + Len(t) = b + e /\ Len(t) <= FifoSize /\ (l = 1 => Len(t) = 0) /\ (q = m => Len(a) = m + 1)
      BY <3>1, <3>3, <3>7, SMT
    <3> QED
      BY <3>2, <3>3, <3>4, <3>6, Zenon
  <2>2. Piece(t, n, Len(a))
    BY <1>5, <1>6, Zenon
  <2>3. /\ settings'.Size = n /\ settings'.NbBytes = B /\ settings'.ChunkSize = settings.ChunkSize
        /\ settings'.RxTxBuffer = settings.RxTxBuffer
    BY <1>1, Zenon
  <2> HIDE DEF n, B, p
  <2> QED
    BY <1>4, <1>6, <1>7, <1>8, <2>1, <2>2, <2>3, ZenonT(60) DEF SendsInOrder, SizeByte
<1>10. settings \in SettingsRecord
  BY Zenon DEF RadioInv
<1> QED
  BY <1>1, <1>3, <1>7, <1>8, <1>9, <1>10, FskSendStep, ZenonT(60)

(* The chip finds a preamble. *)
LEMMA FskPreambleStep ==
    ASSUME RadioInv, FskPreamble
    PROVE  RadioInv'
<1>1. /\ chip.mode = "receiver" /\ settings.Modem = "FSK" /\ chip.phase = "silent"
      /\ settings' = settings /\ outcome' = outcome
      /\ chip' = [chip EXCEPT !.phase = "preamble"] /\ dio' = dio \cup {4}
  BY Zenon DEF FskPreamble, FskHears
<1>2. /\ settings.State = "RF_RX_RUNNING" /\ settings \in SettingsRecord /\ chip \in ChipRecord
      /\ ReceivesInOrder
  BY <1>1, WhoIsBusy, Zenon DEF RadioInv
<1>3. /\ chip' \in ChipRecord /\ chip'.mode = chip.mode /\ chip'.fifo = chip.fifo
      /\ chip'.phase = "preamble"
  <2>1. PICK h : h = "preamble"
    OBVIOUS
  <2>2. h \in Phases
    BY <2>1, Zenon DEF Phases
  <2>3. /\ [chip EXCEPT !.phase = h] \in ChipRecord /\ [chip EXCEPT !.phase = h].mode = chip.mode
        /\ [chip EXCEPT !.phase = h].fifo = chip.fifo /\ [chip EXCEPT !.phase = h].phase = h
    BY <1>2, <2>2, ZenonT(60) DEF ChipRecord
  <2> QED
    BY <1>1, <2>1, <2>3, Zenon
<1>4. dio' \subseteq {0, 1, 2, 4} /\ (0 \in dio' => 0 \in dio) /\ (1 \in dio' => 1 \in dio)
  <2>1. 4 # 0 /\ 4 # 1
    BY SMT
  <2>2. dio \subseteq {0, 1, 2, 4}
    BY Zenon DEF RadioInv
  <2> QED
    BY <1>1, <2>1, <2>2, Zenon
<1>5. /\ settings.Size = 0 /\ settings.NbBytes = 0 /\ chip.fifo = <<>> /\ settings.RxTxBuffer = <<>>
      /\ 0 \notin dio /\ 1 \notin dio
  BY <1>1, <1>2, Zenon DEF ReceivesInOrder
<1>6. ReceivesInOrder'
  <2>1. chip'.phase \notin {"packet", "received"}
    BY <1>3, Zenon
  <2>2. settings'.Size = 0 /\ settings'.NbBytes = 0 /\ settings'.RxTxBuffer = <<>>
    BY <1>1, <1>5, Zenon
  <2> QED
    BY <1>1, <1>3, <1>4, <1>5, <2>1, <2>2, ZenonT(60) DEF ReceivesInOrder
<1> QED
  BY <1>1, <1>2, <1>3, <1>4, <1>6, FskReceiveStep, ZenonT(60)

(* The chip finds the sync word of a packet of n bytes. *)
LEMMA FskSyncWordStep ==
    ASSUME RadioInv, NEW n \in PacketSizes, FskSyncWord(n)
    PROVE  RadioInv'
<1>1. /\ chip.mode = "receiver" /\ settings.Modem = "FSK" /\ chip.phase = "preamble"
      /\ settings' = settings /\ outcome' = outcome
      /\ chip' = [chip EXCEPT !.phase = "packet", !.air = OnAir(n), !.packet = Packet(n)]
      /\ dio' = dio \cup {2}
  BY Zenon DEF FskSyncWord, FskHears
<1>2. /\ settings.State = "RF_RX_RUNNING" /\ settings \in SettingsRecord /\ chip \in ChipRecord
      /\ ReceivesInOrder
  BY <1>1, WhoIsBusy, Zenon DEF RadioInv
<1>3. n \in Nat /\ n > 0 /\ FifoThresh \in Nat
  BY SX1272Assumption, SMT
<1>4. /\ Piece(OnAir(n), n, 0) /\ Len(OnAir(n)) = n + 1 /\ Piece(Packet(n), n, 1) /\ Len(Packet(n)) = n
  BY <1>3, OnAirIsPiece, PacketIsPiece, Zenon
<1>5. OnAir(n) \in Seq(Nat) /\ Packet(n) \in Seq(Nat) /\ OnAir(n) # <<>>
  <2>1. n + 1 # 0
    BY <1>3, SMT
  <2> QED
    BY <1>4, <2>1, PieceLen, Zenon
<1>6. /\ chip' \in ChipRecord /\ chip'.mode = chip.mode /\ chip'.fifo = chip.fifo
      /\ chip'.phase = "packet"
      /\ chip'.air = OnAir(n) /\ chip'.packet = Packet(n)
  <2>1. PICK h, a, b : h = "packet" /\ a = OnAir(n) /\ b = Packet(n)
    OBVIOUS
  <2>2. h \in Phases /\ a \in Seq(Nat) /\ b \in Seq(Nat)
    BY <1>5, <2>1, Zenon DEF Phases
  <2>3. [chip EXCEPT !.phase = h, !.air = a, !.packet = b] \in ChipRecord
    BY <1>2, <2>2, ZenonT(60) DEF ChipRecord
  <2>4. /\ [chip EXCEPT !.phase = h, !.air = a, !.packet = b].mode = chip.mode
        /\ [chip EXCEPT !.phase = h, !.air = a, !.packet = b].fifo = chip.fifo
        /\ [chip EXCEPT !.phase = h, !.air = a, !.packet = b].phase = h
        /\ [chip EXCEPT !.phase = h, !.air = a, !.packet = b].air = a
        /\ [chip EXCEPT !.phase = h, !.air = a, !.packet = b].packet = b
    BY <1>2, ZenonT(60) DEF ChipRecord
  <2> QED
    BY <1>1, <2>1, <2>3, <2>4, Zenon
<1>7. dio' \subseteq {0, 1, 2, 4} /\ (0 \in dio' => 0 \in dio) /\ (1 \in dio' => 1 \in dio)
  <2>1. 2 # 0 /\ 2 # 1
    BY SMT
  <2>2. dio \subseteq {0, 1, 2, 4}
    BY Zenon DEF RadioInv
  <2> QED
    BY <1>1, <2>1, <2>2, Zenon
<1>8. /\ settings.Size = 0 /\ settings.NbBytes = 0 /\ chip.fifo = <<>> /\ settings.RxTxBuffer = <<>>
      /\ 0 \notin dio /\ 1 \notin dio
  BY <1>1, <1>2, Zenon DEF ReceivesInOrder
<1>9. ReceivesInOrder'
  <2>1. PICK p, l : p = 0 /\ l = 0
    OBVIOUS
  <2>2. Taken(settings)' = p
    <3>1. settings'.NbBytes = 0 /\ settings'.Size = 0
      BY <1>1, <1>8, Zenon
    <3> QED
      BY <2>1, <3>1, SMT DEF Taken
  <2>3. l = Len(chip'.fifo) /\ n = Len(chip'.packet)
    BY <1>4, <1>6, <1>8, <2>1, EmptySeq, ZenonT(60)
  <2>4. p + l = 0 /\ p + l + (n + 1) = n + 1 /\ l <= FifoThresh
    BY <1>3, <2>1, SMT
  <2>5. /\ Piece(chip'.fifo, n, p) /\ Piece(chip'.air, n, p + l) /\ p + l + Len(chip'.air) = n + 1
    BY <1>4, <1>6, <1>8, <2>4, NoPiece, ZenonT(60)
  <2>6. Piece(settings'.RxTxBuffer, n, 1) /\ Len(settings'.RxTxBuffer) = settings'.NbBytes
    BY <1>1, <1>8, NoPiece, EmptySeq, Zenon
  <2>7. /\ settings'.NbBytes = 0 /\ settings'.Size \in {0, n}
        /\ chip'.mode = "receiver" /\ chip'.phase \in {"packet", "received"} /\ chip'.packet = Packet(n)
        /\ (chip'.phase = "received" <=> chip'.air = <<>>)
        /\ 0 \notin dio' /\ 1 \notin dio'
    BY <1>1, <1>5, <1>6, <1>7, <1>8, ZenonT(60)
  <2> QED
    BY <1>3, <2>2, <2>3, <2>4, <2>5, <2>6, <2>7, InOrderAgain, ZenonT(60)
<1> QED
  BY <1>1, <1>2, <1>6, <1>7, <1>9, FskReceiveStep, ZenonT(60)

(* A byte arrives: FifoLevel rises just above the threshold, PayloadReady  *)
(* with the last.                                                          *)
LEMMA FskByteReceivedStep ==
    ASSUME RadioInv, NEW crc \in BOOLEAN, FskByteReceived(crc)
    PROVE  RadioInv'
<1> DEFINE n == Len(chip.packet)
           p == Taken(settings)
           F == Len(chip.fifo)
           A == Len(chip.air)
           h == Head(chip.air)
           t == Tail(chip.air)
           a == Append(chip.fifo, h)
           ph == IF A = 1 THEN "received" ELSE chip.phase
<1>1. /\ chip.mode = "receiver" /\ settings.Modem = "FSK" /\ chip.phase = "packet"
      /\ settings' = settings /\ outcome' = outcome
      /\ (1 \in dio => F <= FifoThresh + DioLatency)
  BY Zenon DEF FskByteReceived, FskHears
<1>2. chip' = [chip EXCEPT !.fifo = a, !.air = t, !.crc = crc, !.phase = ph]
  BY Zenon DEF FskByteReceived
<1>3. dio' = dio \cup (IF F = FifoThresh THEN {1} ELSE {}) \cup (IF A = 1 THEN {0} ELSE {})
  BY Zenon DEF FskByteReceived
<1>4. settings.State = "RF_RX_RUNNING" /\ settings \in SettingsRecord /\ chip \in ChipRecord /\ Arriving
  BY <1>1, WhoIsBusy, Zenon DEF RadioInv, Arriving
<1>5. /\ n \in Nat /\ n > 0 /\ chip.packet = Packet(n) /\ settings.Size \in {0, n}
      /\ (settings.Size = 0 => settings.NbBytes = 0) /\ p \in Nat
      /\ Piece(settings.RxTxBuffer, n, 1) /\ Len(settings.RxTxBuffer) = settings.NbBytes
      /\ Piece(chip.fifo, n, p) /\ Piece(chip.air, n, p + F) /\ p + F + A = n + 1
      /\ (chip.phase = "received" <=> chip.air = <<>>) /\ (0 \in dio => chip.phase = "received")
      /\ (1 \in dio => FifoThresh < F) /\ (1 \notin dio => F <= FifoThresh)
      /\ F \in Nat /\ A \in Nat
  BY <1>4, ArrivingFacts, Zenon
<1>6. chip.air # <<>> /\ 0 \notin dio
  <2>1. "packet" # "received"
    BY SMT
  <2> QED
    BY <1>1, <1>5, <2>1, Zenon
<1>7. p + F \in Nat
  <2> HIDE DEF p, F
  <2> QED
    BY <1>5, SMT
<1>8. /\ h \in Nat /\ h = (IF p + F = 0 THEN n ELSE p + F) /\ Piece(t, n, p + F + 1) /\ Len(t) = A - 1
      /\ t \in Seq(Nat) /\ (t = <<>> <=> Len(t) = 0)
  <2>1. PICK m, q \in Nat : m = n /\ q = p + F
    BY <1>5, <1>7, Zenon
  <2>2. PICK g : g = chip.air
    OBVIOUS
  <2>3. Piece(g, m, q) /\ g # <<>>
    BY <1>5, <1>6, <2>1, <2>2, ZenonT(60)
  <2>4. /\ Head(g) \in Nat /\ Head(g) = (IF q = 0 THEN m ELSE q)
        /\ Piece(Tail(g), m, q + 1) /\ Len(Tail(g)) = Len(g) - 1
    BY <2>1, <2>3, PieceTail, SMTT(60)
  <2>5. Tail(g) \in Seq(Nat) /\ (Tail(g) = <<>> <=> Len(Tail(g)) = 0)
    BY <2>4, PieceLen, Zenon
  <2> QED
    BY <2>1, <2>2, <2>4, <2>5, Zenon
<1>9. Piece(a, n, p) /\ Len(a) = F + 1 /\ a \in Seq(Nat)
  <2> HIDE DEF h, t
  <2>1. PICK m, q \in Nat : m = n /\ q = p
    BY <1>5, Zenon
  <2>2. PICK g, x : g = chip.fifo /\ x = h
    OBVIOUS
  <2>3. Piece(g, m, q) /\ x \in Nat /\ x = IF q + Len(g) = 0 THEN m ELSE q + Len(g)
    BY <1>5, <1>8, <2>1, <2>2, ZenonT(60)
  <2>4. Piece(Append(g, x), m, q) /\ Len(Append(g, x)) = Len(g) + 1
    BY <2>1, <2>3, PieceAppend, SMTT(60)
  <2>5. Append(g, x) \in Seq(Nat)
    BY <2>4, PieceLen, Zenon
  <2> QED
    BY <2>1, <2>2, <2>4, <2>5, Zenon
<1>10. ph \in {"packet", "received"} /\ ph \in Phases /\ (ph = "received" <=> A = 1)
  <2>1. "packet" # "received"
    BY SMT
  <2> QED
    BY <1>1, <2>1, Zenon DEF Phases
<1> HIDE DEF h, t, a, ph
<1>11. /\ chip' \in ChipRecord /\ chip'.mode = "receiver" /\ chip'.packet = chip.packet
       /\ chip'.fifo = a /\ chip'.air = t /\ chip'.phase = ph
  <2>1. [chip EXCEPT !.fifo = a, !.air = t, !.crc = crc, !.phase = ph] \in ChipRecord
    BY <1>4, <1>8, <1>9, <1>10, ZenonT(60) DEF ChipRecord
  <2> QED
    BY <1>1, <1>2, <1>4, <2>1, ZenonT(60) DEF ChipRecord
<1>12. /\ dio' \subseteq {0, 1, 2, 4} /\ (0 \in dio' => A = 1)
       /\ (1 \in dio' <=> 1 \in dio \/ F = FifoThresh)
  <2>1. 0 # 1
    BY SMT
  <2>2. dio \subseteq {0, 1, 2, 4}
    BY Zenon DEF RadioInv
  <2>3. dio' \subseteq {0, 1, 2, 4}
    BY <1>3, <2>2, Zenon
  <2>4. 0 \in dio' => A = 1
    BY <1>3, <1>6, <2>1, Zenon
  <2>5. 1 \in dio' <=> 1 \in dio \/ F = FifoThresh
    BY <1>3, <2>1, Zenon
  <2> QED
    BY <2>3, <2>4, <2>5, ZenonT(60)
<1>13. /\ (1 \in dio' => FifoThresh < F + 1 /\ F + 1 <= FifoThresh + DioLatency + 1)
       /\ (1 \notin dio' => F + 1 <= FifoThresh)
       /\ p + (F + 1) = p + F + 1 /\ p + (F + 1) + Len(t) = n + 1 /\ (Len(t) = 0 <=> A = 1)
  <2> HIDE DEF n, p, F, A
  <2>1. FifoThresh \in Nat /\ DioLatency \in Nat
    BY SX1272Assumption, SMT
  <2>2. PICK m, q, f, r \in Nat : m = n /\ q = p /\ f = F /\ r = A
    BY <1>5, Zenon
  <2>3. /\ q + f + r = m + 1 /\ Len(t) = r - 1
        /\ (1 \in dio => FifoThresh < f /\ f <= FifoThresh + DioLatency)
        /\ (1 \notin dio => f <= FifoThresh)
        /\ (1 \in dio' <=> 1 \in dio \/ f = FifoThresh)
    BY <1>1, <1>5, <1>8, <1>12, <2>2, ZenonT(60)
  <2>4. /\ (1 \in dio' => FifoThresh < f + 1 /\ f + 1 <= FifoThresh + DioLatency + 1)
        /\ (1 \notin dio' => f + 1 <= FifoThresh)
    <3>1. CASE 1 \in dio
      BY <2>1, <2>3, <3>1, SMT
    <3>2. CASE 1 \notin dio
      BY <2>1, <2>3, <3>2, SMTT(60)
    <3> QED
      BY <3>1, <3>2, Zenon
  <2>5. q + (f + 1) = q + f + 1 /\ q + (f + 1) + Len(t) = m + 1 /\ (Len(t) = 0 <=> r = 1)
    BY <2>3, SMT
  <2> QED
    BY <2>2, <2>4, <2>5, ZenonT(60)
<1>14. ReceivesInOrder'
  <2>1. PICK l : l = F + 1
    OBVIOUS
  <2>2. Taken(settings)' = p /\ n = Len(chip'.packet) /\ l = Len(chip'.fifo)
    BY <1>1, <1>9, <1>11, <2>1, ZenonT(60) DEF Taken
  <2> HIDE DEF n, p, F, A
  <2>3. /\ Piece(chip'.fifo, n, p) /\ Piece(chip'.air, n, p + l) /\ p + l + Len(chip'.air) = n + 1
        /\ chip'.packet = Packet(n) /\ chip'.mode = "receiver" /\ chip'.phase \in {"packet", "received"}
    BY <1>5, <1>8, <1>9, <1>10, <1>11, <1>13, <2>1, ZenonT(60)
  <2>4. /\ (chip'.phase = "received" <=> chip'.air = <<>>) /\ (0 \in dio' => chip'.phase = "received")
    BY <1>8, <1>10, <1>11, <1>12, <1>13, ZenonT(60)
  <2>5. /\ (1 \in dio' => FifoThresh < l /\ l <= FifoThresh + DioLatency + 1)
        /\ (1 \notin dio' => l <= FifoThresh)
    BY <1>13, <2>1, Zenon
  <2>6. /\ (settings'.Size = 0 => settings'.NbBytes = 0) /\ settings'.Size \in {0, n} /\ n > 0
        /\ Piece(settings'.RxTxBuffer, n, 1) /\ Len(settings'.RxTxBuffer) = settings'.NbBytes
    BY <1>1, <1>5, Zenon
  <2> QED
    BY <2>2, <2>3, <2>4, <2>5, <2>6, InOrderAgain, ZenonT(60)
<1> QED
  BY <1>1, <1>4, <1>11, <1>12, <1>14, FskReceiveStep, ZenonT(60)

(* A LoRa chip step: it goes to standby and raises one edge. *)
LEMMA LoraStep ==
    ASSUME RadioInv, settings.Modem = "LORA", NEW edge \in {0, 1}, settings' = settings, outcome' = outcome,
           chip' \in ChipRecord, chip'.mode = "standby", dio' = dio \cup {edge},
           \/ /\ chip.mode = "transmitter"
              /\ chip.fifo = chip.packet => chip'.air = chip'.packet
           \/ /\ chip.mode = "receiver"
              /\ edge = 0 => chip'.fifo = chip'.packet
    PROVE  RadioInv'
<1>1. settings \in SettingsRecord /\ LoraIsWhole /\ dio \subseteq {0, 1, 2, 4} /\ settings.Modem # "FSK"
  BY SMT DEF RadioInv
<1>2. settings.State = "RF_TX_RUNNING" \/ settings.State = "RF_RX_RUNNING"
  BY WhoIsBusy, Zenon
<1>3. /\ settings.State # "RF_IDLE"
      /\ ~(settings.State = "RF_TX_RUNNING" /\ settings.State = "RF_RX_RUNNING")
  BY <1>2, SMT
<1>4. SendsInOrder' /\ ReceivesInOrder'
  BY <1>1, Zenon DEF SendsInOrder, ReceivesInOrder
<1>5. dio' \subseteq {0, 1, 2, 4}
  BY <1>1, Zenon
<1>6. chip'.mode \notin {"transmitter", "receiver"}
  BY SMT
<1>7. LoraIsWhole'
  <2>1. CASE chip.mode = "transmitter" /\ (chip.fifo = chip.packet => chip'.air = chip'.packet)
    <3>1. settings.State = "RF_TX_RUNNING"
      BY <2>1, WhoIsBusy, Zenon
    <3>2. chip.fifo = chip.packet
      BY <1>1, <1>3, <2>1, <3>1, ZenonT(60) DEF LoraIsWhole
    <3> QED
      BY <1>3, <1>6, <2>1, <3>1, <3>2, ZenonT(60) DEF LoraIsWhole
  <2>2. CASE chip.mode = "receiver" /\ (edge = 0 => chip'.fifo = chip'.packet)
    <3>1. settings.State = "RF_RX_RUNNING"
      BY <2>2, WhoIsBusy, Zenon
    <3>2. dio = {}
      BY <1>1, <1>3, <2>2, <3>1, ZenonT(60) DEF LoraIsWhole
    <3>3. 0 \in dio' => edge = 0
      BY <3>2, Zenon
    <3> QED
      BY <1>3, <1>6, <2>2, <3>1, <3>3, ZenonT(60) DEF LoraIsWhole
  <2> QED
    BY <2>1, <2>2, Zenon
<1> QED
  BY <1>1, <1>3, <1>4, <1>5, <1>7, BusyStep, ZenonT(60)

(* The three LoRa chip steps. *)
LEMMA LoraChipStep ==
    ASSUME RadioInv, NEW n \in Nat, NEW crc \in BOOLEAN,
           LoraTxDone \/ LoraRxDone(n, crc) \/ LoraRxTimeout
    PROVE  RadioInv'
<1> DEFINE P == Packet(n)
<1>1. chip \in ChipRecord /\ P \in Seq(Nat)
  <2>1. Piece(P, n, 1)
    BY PacketIsPiece, Zenon
  <2> QED
    BY <2>1, PieceLen, Zenon DEF RadioInv
<1>2. PICK sb : sb = "standby"
  OBVIOUS
<1>3. sb \in Modes
  BY <1>2, Zenon DEF Modes
<1>4. PICK z, o : z = 0 /\ o = 1
  OBVIOUS
<1>5. CASE LoraTxDone
  <2> DEFINE c == [chip EXCEPT !.air = chip.fifo]
             d == [c EXCEPT !.mode = sb]
  <2>1. /\ chip.mode = "transmitter" /\ settings.Modem = "LORA" /\ chip' = d /\ dio' = dio \cup {z}
        /\ settings' = settings /\ outcome' = outcome
    BY <1>2, <1>4, <1>5, Zenon DEF LoraTxDone, ChipLora
  <2>2. c \in ChipRecord /\ c.air = chip.fifo /\ c.packet = chip.packet
    BY <1>1, ZenonT(60) DEF ChipRecord
  <2> HIDE DEF c
  <2>3. d \in ChipRecord /\ d.mode = sb /\ d.air = c.air /\ d.packet = c.packet
    BY <1>3, <2>2, ZenonT(60) DEF ChipRecord
  <2> HIDE DEF d
  <2>4. z \in {0, 1} /\ chip' \in ChipRecord /\ chip'.mode = "standby"
        /\ (chip.fifo = chip.packet => chip'.air = chip'.packet)
    BY <1>2, <1>4, <2>1, <2>2, <2>3, ZenonT(60)
  <2> QED
    BY <2>1, <2>4, LoraStep, Zenon
<1>6. CASE LoraRxDone(n, crc)
  <2> DEFINE c == [chip EXCEPT !.fifo = P, !.packet = P, !.crc = crc]
             d == [c EXCEPT !.mode = sb]
  <2>1. /\ chip.mode = "receiver" /\ settings.Modem = "LORA" /\ chip' = d /\ dio' = dio \cup {z}
        /\ settings' = settings /\ outcome' = outcome
    BY <1>2, <1>4, <1>6, Zenon DEF LoraRxDone, ChipLora
  <2> HIDE DEF P
  <2>2. c \in ChipRecord /\ c.fifo = P /\ c.packet = P
    BY <1>1, ZenonT(60) DEF ChipRecord
  <2> HIDE DEF c
  <2>3. d \in ChipRecord /\ d.mode = sb /\ d.fifo = c.fifo /\ d.packet = c.packet
    BY <1>3, <2>2, ZenonT(60) DEF ChipRecord
  <2> HIDE DEF d
  <2>4. z \in {0, 1} /\ chip' \in ChipRecord /\ chip'.mode = "standby" /\ chip'.fifo = chip'.packet
    BY <1>2, <1>4, <2>1, <2>2, <2>3, Zenon
  <2> QED
    BY <2>1, <2>4, LoraStep, Zenon
<1>7. CASE LoraRxTimeout
  <2> DEFINE d == [chip EXCEPT !.mode = sb]
  <2>1. /\ chip.mode = "receiver" /\ settings.Modem = "LORA" /\ chip' = d /\ dio' = dio \cup {o}
        /\ settings' = settings /\ outcome' = outcome
    BY <1>2, <1>4, <1>7, Zenon DEF LoraRxTimeout, ChipLora
  <2>2. d \in ChipRecord /\ d.mode = sb
    BY <1>1, <1>3, ZenonT(60) DEF ChipRecord
  <2> HIDE DEF d
  <2>3. o \in {0, 1} /\ o # 0 /\ chip' \in ChipRecord /\ chip'.mode = "standby"
    <3>1. 1 # 0
      BY SMT
    <3> QED
      BY <1>2, <1>4, <2>1, <2>2, <3>1, ZenonT(60)
  <2> QED
    BY <2>1, <2>3, LoraStep, Zenon
<1> QED
  BY <1>5, <1>6, <1>7, Zenon

-----------------------------------------------------------------------------
(***************************************************************************)
(* Requests of the MAC.                                                    *)
(***************************************************************************)
(* A request of the MAC: no timeout is left from the one before. *)
LEMMA RequestStep ==
    ASSUME Requested, settings' \in SettingsRecord, chip' \in ChipRecord,
           \/ settings'.State = "RF_TX_RUNNING" /\ settings'.Timers \subseteq {"TxTimeoutTimer"}
           \/ /\ settings'.State = "RF_RX_RUNNING"
              /\ settings'.Timers \subseteq {"RxTimeoutTimer", "RxTimeoutSyncWord"}
              /\ settings'.Modem = "LORA" => "RxTimeoutSyncWord" \notin settings'.Timers,
           SendsInOrder', ReceivesInOrder', LoraIsWhole'
    PROVE  RadioInv'
<1>1. dio' = dio /\ outcome' = [reports |-> 0, whole |-> TRUE] /\ dio = {}
  BY Zenon DEF Requested
<1>2. dio' \subseteq {0, 1, 2, 4}
  BY <1>1, Zenon
<1>3. /\ outcome' \in [reports : Nat, whole : BOOLEAN] /\ outcome'.reports = 0
      /\ outcome'.whole
  <2>1. 0 \in Nat
    BY SMT
  <2> QED
    BY <1>1, <2>1, Zenon
<1>4. NoneWrong'
  BY <1>3, Zenon DEF NoneWrong
<1>5. OneReport' /\ LoraHasOneTimeout' /\ IdleSleeps'
  BY <1>3, SMT DEF OneReport, LoraHasOneTimeout, IdleSleeps
<1> QED
  BY <1>2, <1>3, <1>4, <1>5, Zenon DEF RadioInv

(* SX1272Send keeps the types. *)
LEMMA SendUpdate ==
    ASSUME NEW s \in SettingsRecord, NEW st \in States, NEW md \in Modems, NEW T \in SUBSET AllTimers,
           NEW z \in Nat, NEW b \in Nat, NEW c \in Nat, NEW q \in Seq(Nat)
    PROVE  [s EXCEPT !.State = st, !.Modem = md, !.Timers = T, !.Size = z, !.NbBytes = b,
                     !.ChunkSize = c, !.RxTxBuffer = q] \in SettingsRecord
  BY ZenonT(60) DEF SettingsRecord

(* SX1272Send: the first chunk leaves room in the FIFO for the size byte,  *)
(* except when the packet is as long as the FIFO.                          *)
LEMMA SX1272SendStep ==
    ASSUME Asleep, NEW modem \in {"FSK", "LORA"}, NEW n \in PacketSizes, SX1272Send(modem, n)
    PROVE  RadioInv'
<1> DEFINE T == settings.Timers \cup {"TxTimeoutTimer"}
           z == IF modem = "FSK" THEN n ELSE settings.Size
           b == IF modem = "FSK" THEN FirstChunk(n) ELSE settings.NbBytes
           c == IF modem = "FSK" THEN FirstChunk(n) ELSE settings.ChunkSize
           q == IF modem = "FSK" /\ n > FifoSize THEN Packet(n) ELSE settings.RxTxBuffer
           P == Packet(n)
           g == FitsFifo(FirstChunk(n))
           f == IF modem = "FSK" THEN <<n>> \o Packet(g) ELSE Packet(n)
<1>1. Requested /\ settings.State = "RF_IDLE" /\ dio = {} /\ dio' = dio
  BY Zenon DEF SX1272Send, Requested
<1>2. settings' = [settings EXCEPT !.State = "RF_TX_RUNNING", !.Modem = modem, !.Timers = T, !.Size = z,
                                   !.NbBytes = b, !.ChunkSize = c, !.RxTxBuffer = q]
  BY Zenon DEF SX1272Send
<1>3. chip' = [chip EXCEPT !.mode = "transmitter", !.air = <<>>, !.packet = P, !.fifo = f]
  BY Zenon DEF SX1272Send
<1>4. /\ n \in Nat /\ FirstChunk(n) \in Nat /\ FirstChunk(n) <= n /\ FirstChunk(n) <= FifoSize
      /\ (FirstChunk(n) < n => n > FifoSize) /\ g \in Nat /\ g + 1 <= FifoSize
      /\ 0 + (g + 1) = FirstChunk(n) + SizeByte(n) /\ (n = FifoSize => FirstChunk(n) = n)
  <2>1. /\ FifoSize \in Nat /\ FifoSize # 0 /\ Chunk \in Nat /\ Chunk < FifoSize /\ n \in Nat
    BY SX1272Assumption, SMT
  <2> QED
    BY <2>1, SMT DEF FirstChunk, FitsFifo, SizeByte
<1>5. P \in Seq(Nat) /\ Piece(P, n, 1)
  <2>1. Piece(P, n, 1)
    BY <1>4, PacketIsPiece, Zenon
  <2> QED
    BY <2>1, PieceLen, Zenon
<1> HIDE DEF g
<1>6. modem = "FSK" => Piece(f, n, 0) /\ Len(f) = g + 1
  BY <1>4, FirstPiece, Zenon
<1>7. f \in Seq(Nat)
  <2>1. CASE modem = "FSK"
    BY <1>6, <2>1, PieceLen, Zenon
  <2>2. CASE modem # "FSK"
    BY <1>5, <2>2, Zenon
  <2> QED
    BY <2>1, <2>2, Zenon
<1>8. settings \in SettingsRecord /\ settings.Timers = {} /\ chip \in ChipRecord
  BY Zenon DEF Asleep
<1>9. /\ z \in Nat /\ b \in Nat /\ c \in Nat /\ q \in Seq(Nat) /\ T = {"TxTimeoutTimer"}
      /\ T \in SUBSET AllTimers
      /\ modem \in Modems
  <2>1. /\ settings.Size \in Nat /\ settings.NbBytes \in Nat /\ settings.ChunkSize \in Nat
        /\ settings.RxTxBuffer \in Seq(Nat)
    BY <1>8, SettingsFields, Zenon
  <2>2. T = {"TxTimeoutTimer"} /\ T \in SUBSET AllTimers
    BY <1>8, Zenon DEF AllTimers
  <2>3. z \in Nat /\ b \in Nat /\ c \in Nat
    BY <1>4, <2>1, Zenon
  <2>4. q \in Seq(Nat)
    BY <1>5, <2>1, Zenon
  <2>5. modem \in Modems
    BY Zenon DEF Modems
  <2> QED
    BY <2>2, <2>3, <2>4, <2>5, ZenonT(60)
<1>10. modem = "FSK" =>
          /\ z = n /\ b = FirstChunk(n) /\ c = FirstChunk(n) /\ (n > FifoSize => q = Packet(n))
  BY Zenon
<1>11. modem # "FSK" => f = P
  BY Zenon
<1> HIDE DEF T, z, b, c, q, P, f
<1>12. /\ settings' \in SettingsRecord /\ settings'.State = "RF_TX_RUNNING" /\ settings'.Modem = modem
       /\ settings'.Timers = T /\ settings'.Size = z /\ settings'.NbBytes = b /\ settings'.ChunkSize = c
       /\ settings'.RxTxBuffer = q
  <2>1. PICK st : st = "RF_TX_RUNNING"
    OBVIOUS
  <2>2. st \in States
    BY <2>1, Zenon DEF States
  <2>3. settings' = [settings EXCEPT !.State = st, !.Modem = modem, !.Timers = T, !.Size = z,
                                     !.NbBytes = b, !.ChunkSize = c, !.RxTxBuffer = q]
    BY <1>2, <2>1, Zenon
  <2>4. [settings EXCEPT !.State = st, !.Modem = modem, !.Timers = T, !.Size = z,
                         !.NbBytes = b, !.ChunkSize = c, !.RxTxBuffer = q] \in SettingsRecord
    BY <1>8, <1>9, <2>2, SendUpdate, ZenonT(60)
  <2>5. settings'.State = st /\ settings'.Modem = modem /\ settings'.Timers = T /\ settings'.Size = z
    BY <1>8, <2>3, ZenonT(60) DEF SettingsRecord
  <2>6. settings'.NbBytes = b /\ settings'.ChunkSize = c /\ settings'.RxTxBuffer = q
    BY <1>8, <2>3, ZenonT(60) DEF SettingsRecord
  <2> QED
    BY <2>1, <2>3, <2>4, <2>5, <2>6, ZenonT(60)
<1>13. /\ chip' \in ChipRecord /\ chip'.mode = "transmitter" /\ chip'.air = <<>>
       /\ chip'.packet = P /\ chip'.fifo = f
  <2>1. PICK m, e : m = "transmitter" /\ e = <<>>
    OBVIOUS
  <2>2. m \in Modes /\ e \in Seq(Nat)
    BY <2>1, EmptySeq, Zenon DEF Modes
  <2>3. chip' = [chip EXCEPT !.mode = m, !.air = e, !.packet = P, !.fifo = f]
    BY <1>3, <2>1, Zenon
  <2>4. [chip EXCEPT !.mode = m, !.air = e, !.packet = P, !.fifo = f] \in ChipRecord
    BY <1>5, <1>7, <1>8, <2>2, ZenonT(60) DEF ChipRecord
  <2>5. chip'.mode = m /\ chip'.air = e /\ chip'.packet = P /\ chip'.fifo = f
    BY <1>8, <2>3, ZenonT(60) DEF ChipRecord
  <2> QED
    BY <2>1, <2>3, <2>4, <2>5, Zenon
<1>14. ReceivesInOrder'
  <2>1. settings'.State # "RF_RX_RUNNING"
    BY <1>12, Zenon
  <2> QED
    BY <2>1, Zenon DEF ReceivesInOrder
<1>15. SendsInOrder'
  <2>1. CASE modem = "FSK"
    <3>1. Len(chip'.air) = 0 /\ Piece(chip'.air, n, 0)
      BY <1>13, EmptySeq, NoPiece, ZenonT(60)
    <3>2. /\ Piece(chip'.fifo, n, Len(chip'.air)) /\ Len(chip'.fifo) = g + 1
          /\ Len(chip'.air) + Len(chip'.fifo) = b + SizeByte(n)
      BY <1>4, <1>6, <1>10, <1>13, <2>1, <3>1, ZenonT(60)
    <3>3. /\ b <= n /\ c <= FifoSize /\ (b < n => q = Packet(n)) /\ g + 1 <= FifoSize
          /\ (n = FifoSize => b = n)
      BY <1>4, <1>10, <2>1, ZenonT(60)
    <3>4. 0 \notin dio' /\ 1 \notin dio'
      BY <1>1, Zenon
    <3>5. settings'.Size = n /\ chip'.packet = Packet(n)
      BY <1>10, <1>12, <1>13, <2>1, ZenonT(60) DEF P
    <3>6. Len(chip'.air) + Len(chip'.fifo) = settings'.NbBytes + IF settings'.Size = FifoSize THEN 0 ELSE 1
      BY <1>12, <3>2, <3>5, Zenon DEF SizeByte
    <3>7. /\ settings'.NbBytes <= n /\ settings'.ChunkSize <= FifoSize
          /\ (settings'.NbBytes < n => settings'.RxTxBuffer = Packet(n))
          /\ Len(chip'.fifo) <= FifoSize /\ (n = FifoSize => settings'.NbBytes = n)
      BY <1>12, <3>2, <3>3, Zenon
    <3> HIDE DEF g
    <3> QED
      BY <1>13, <3>1, <3>2, <3>4, <3>5, <3>6, <3>7, ZenonT(60) DEF SendsInOrder
  <2>2. CASE modem # "FSK"
    BY <1>12, <2>2, ZenonT(60) DEF SendsInOrder
  <2> QED
    BY <2>1, <2>2, Zenon
<1>16. LoraIsWhole'
  <2>1. CASE modem = "FSK"
    <3>1. settings'.Modem # "LORA"
      BY <1>12, <2>1, ZenonT(60)
    <3> QED
      BY <3>1, Zenon DEF LoraIsWhole
  <2>2. CASE modem # "FSK"
    <3>1. settings'.State # "RF_RX_RUNNING" /\ dio' = {}
      BY <1>1, <1>12, Zenon
    <3> QED
      BY <1>11, <1>13, <2>2, <3>1, ZenonT(60) DEF LoraIsWhole
  <2> QED
    BY <2>1, <2>2, Zenon
<1>17. settings'.State = "RF_TX_RUNNING" /\ settings'.Timers \subseteq {"TxTimeoutTimer"}
  BY <1>9, <1>12, Zenon
<1> QED
  BY <1>1, <1>12, <1>13, <1>14, <1>15, <1>16, <1>17, RequestStep, ZenonT(60)

(* SX1272SetRx. *)
LEMMA SX1272SetRxStep ==
    ASSUME Asleep, NEW modem \in {"FSK", "LORA"}, SX1272SetRx(modem)
    PROVE  RadioInv'
<1> DEFINE s == IF modem = "FSK" THEN ForgetPacket(settings) ELSE settings
           T == s.Timers \cup RxTimeouts(modem)
<1>1. Requested /\ settings.State = "RF_IDLE" /\ dio = {} /\ dio' = dio
  BY Zenon DEF SX1272SetRx, Requested
<1>2. settings' = [s EXCEPT !.State = "RF_RX_RUNNING", !.Modem = modem, !.RxTxBuffer = <<>>, !.Timers = T]
  BY Zenon DEF SX1272SetRx
<1>3. chip' = [chip EXCEPT !.mode = "receiver", !.phase = "silent", !.fifo = <<>>, !.air = <<>>]
  BY Zenon DEF SX1272SetRx
<1>4. settings \in SettingsRecord /\ settings.Timers = {} /\ chip \in ChipRecord
  BY Zenon DEF Asleep
<1>5. s \in SettingsRecord /\ s.Timers = {} /\ (modem = "FSK" => s.Size = 0 /\ s.NbBytes = 0)
  <2>1. /\ ForgetPacket(settings) \in SettingsRecord /\ ForgetPacket(settings).Timers = settings.Timers
        /\ ForgetPacket(settings).Size = 0 /\ ForgetPacket(settings).NbBytes = 0
    BY <1>4, ForgetPacketType, Zenon
  <2> QED
    BY <1>4, <2>1, Zenon
<1>6. /\ T \in SUBSET AllTimers /\ T \subseteq {"RxTimeoutTimer", "RxTimeoutSyncWord"}
      /\ (modem = "LORA" => "RxTimeoutSyncWord" \notin T) /\ modem \in Modems
  <2>1. T = RxTimeouts(modem)
    BY <1>5, Zenon
  <2> HIDE DEF T
  <2>2. modem = "LORA" => RxTimeouts(modem) = {"RxTimeoutTimer"}
    BY Zenon DEF RxTimeouts
  <2>3. modem = "FSK" => RxTimeouts(modem) = {"RxTimeoutTimer", "RxTimeoutSyncWord"}
    BY Zenon DEF RxTimeouts
  <2> QED
    BY <2>1, <2>2, <2>3, ZenonT(60) DEF AllTimers, Modems
<1> HIDE DEF s, T
<1>7. /\ settings' \in SettingsRecord /\ settings'.State = "RF_RX_RUNNING" /\ settings'.Modem = modem
      /\ settings'.RxTxBuffer = <<>> /\ settings'.Timers = T /\ settings'.Size = s.Size
      /\ settings'.NbBytes = s.NbBytes
  <2>1. PICK st, e : st = "RF_RX_RUNNING" /\ e = <<>>
    OBVIOUS
  <2>2. st \in States /\ e \in Seq(Nat)
    BY <2>1, EmptySeq, Zenon DEF States
  <2>3. settings' = [s EXCEPT !.State = st, !.Modem = modem, !.RxTxBuffer = e, !.Timers = T]
    BY <1>2, <2>1, Zenon
  <2>4. [s EXCEPT !.State = st, !.Modem = modem, !.RxTxBuffer = e, !.Timers = T] \in SettingsRecord
    BY <1>5, <1>6, <2>2, ZenonT(60) DEF SettingsRecord
  <2>5. /\ settings'.State = st /\ settings'.Modem = modem /\ settings'.RxTxBuffer = e
    BY <1>5, <2>3, ZenonT(60) DEF SettingsRecord
  <2>6. settings'.Timers = T /\ settings'.Size = s.Size /\ settings'.NbBytes = s.NbBytes
    BY <1>5, <2>3, ZenonT(60) DEF SettingsRecord
  <2> QED
    BY <2>1, <2>3, <2>4, <2>5, <2>6, ZenonT(60)
<1>8. chip' \in ChipRecord /\ chip'.mode = "receiver" /\ chip'.phase = "silent" /\ chip'.fifo = <<>>
  <2>1. PICK m, h, e : m = "receiver" /\ h = "silent" /\ e = <<>>
    OBVIOUS
  <2>2. m \in Modes /\ h \in Phases /\ e \in Seq(Nat)
    BY <2>1, EmptySeq, Zenon DEF Modes, Phases
  <2>3. chip' = [chip EXCEPT !.mode = m, !.phase = h, !.fifo = e, !.air = e]
    BY <1>3, <2>1, Zenon
  <2>4. [chip EXCEPT !.mode = m, !.phase = h, !.fifo = e, !.air = e] \in ChipRecord
    BY <1>4, <2>2, ZenonT(60) DEF ChipRecord
  <2>5. chip'.mode = m /\ chip'.phase = h /\ chip'.fifo = e
    BY <1>4, <2>3, ZenonT(60) DEF ChipRecord
  <2> QED
    BY <2>1, <2>3, <2>4, <2>5, ZenonT(60)
<1>9. SendsInOrder'
  <2>1. settings'.State # "RF_TX_RUNNING"
    BY <1>7, Zenon
  <2> QED
    BY <2>1, Zenon DEF SendsInOrder
<1>10. ReceivesInOrder'
  <2>1. CASE modem = "FSK"
    <3>1. chip'.phase \notin {"packet", "received"} /\ 0 \notin dio' /\ 1 \notin dio'
      BY <1>1, <1>8, Zenon
    <3>2. settings'.Size = 0 /\ settings'.NbBytes = 0
      BY <1>5, <1>7, <2>1, ZenonT(60)
    <3> QED
      BY <1>7, <1>8, <3>1, <3>2, ZenonT(60) DEF ReceivesInOrder
  <2>2. CASE modem # "FSK"
    BY <1>7, <2>2, ZenonT(60) DEF ReceivesInOrder
  <2> QED
    BY <2>1, <2>2, ZenonT(60)
<1>11. LoraIsWhole'
  <2>1. settings'.State # "RF_TX_RUNNING" /\ dio' = {}
    BY <1>1, <1>7, Zenon
  <2> QED
    BY <1>8, <2>1, Zenon DEF LoraIsWhole
<1>12. /\ settings'.Timers \subseteq {"RxTimeoutTimer", "RxTimeoutSyncWord"}
       /\ (settings'.Modem = "LORA" => "RxTimeoutSyncWord" \notin settings'.Timers)
  BY <1>6, <1>7, Zenon
<1> QED
  BY <1>1, <1>7, <1>8, <1>9, <1>10, <1>11, <1>12, RequestStep, ZenonT(60)

-----------------------------------------------------------------------------
(***************************************************************************)
(* SX1272OnTimeoutIrq, and the DIO handlers within it.                     *)
(***************************************************************************)
(* The timeout of an FSK reception has forgotten the packet and has not    *)
(* ended the request yet: only the types are sure, but no byte is read     *)
(* beyond the size that was read.                                          *)
Searching ==
    /\ settings \in SettingsRecord /\ chip \in ChipRecord /\ dio \subseteq {0, 1, 2, 4}
    /\ outcome \in [reports : Nat, whole : BOOLEAN]
    /\ settings.State = "RF_RX_RUNNING" /\ settings.Modem = "FSK"
    /\ settings.Timers \subseteq {"RxTimeoutTimer", "RxTimeoutSyncWord"}
    /\ settings.NbBytes <= settings.Size /\ settings.NbBytes <= Len(settings.RxTxBuffer)
    /\ outcome.reports = 0 /\ outcome.whole
    /\ chip.mode = "receiver" /\ (chip.phase = "packet" => chip.air # <<>>)

(* SX1272OnTimeoutIrq has tested State: it was busy, and is so unless a    *)
(* DIO handler has ended the request meanwhile.                            *)
Tested ==
    /\ settings.State = "RF_IDLE" => raced
    /\ timeoutIrq = "forget" => settings.State # "RF_TX_RUNNING"
    /\ settings.State = "RF_RX_RUNNING" => (timeoutIrq = "forget" <=> settings.Modem = "FSK")

(* The inductive invariant. *)
DriverInv ==
    /\ raced \in BOOLEAN
    /\ \/ timeoutIrq = "none" /\ RadioInv
       \/ timeoutIrq \in {"forget", "report"} /\ RadioInv /\ Tested
       \/ timeoutIrq = "search" /\ Searching
       \/ timeoutIrq = "search" /\ Asleep /\ raced /\ outcome.reports = 1
       \/ timeoutIrq = "none" /\ Asleep /\ raced /\ outcome.reports \in {1, 2}

(* Reading bytes of the FIFO, whatever they are. *)
LEMMA FifoTypes ==
    ASSUME chip \in ChipRecord, NEW k \in Nat
    PROVE  /\ FromFifo(k) \in Seq(Nat) /\ Len(FromFifo(k)) = k
           /\ FifoAfter(k) \in Seq(Nat)
<1> DEFINE f == chip.fifo
           q == FromFifo(k)
<1>1. f \in Seq(Nat) /\ Len(f) \in Nat
  BY ChipFields, LenProperties, Zenon
<1>2. q = [i \in 1..k |-> IF i <= Len(f) THEN f[i] ELSE 0]
  BY Zenon DEF FromFifo
<1> HIDE DEF f
<1>3. \A i \in 1..k : (IF i <= Len(f) THEN f[i] ELSE 0) \in Nat
  <2> SUFFICES ASSUME NEW i \in 1..k PROVE (IF i <= Len(f) THEN f[i] ELSE 0) \in Nat
    OBVIOUS
  <2>1. CASE i <= Len(f)
    <3>1. i \in 1..Len(f)
      BY <1>1, <2>1, SMT
    <3>2. f[i] \in Nat
      BY <1>1, <3>1, ElementOfSeq, Zenon
    <3> QED
      BY <2>1, <3>2, Zenon
  <2>2. CASE ~(i <= Len(f))
    <3>1. 0 \in Nat
      BY SMT
    <3> QED
      BY <2>2, <3>1, Zenon
  <2> QED
    BY <2>1, <2>2, Zenon
<1> HIDE DEF q
<1>4. q \in [1..k -> Nat]
  BY <1>2, <1>3, Zenon
<1>5. q \in Seq(Nat) /\ Len(q) = k
  BY <1>4, SMT
<1>6. SubSeq(f, k + 1, Len(f)) \in Seq(Nat)
  <2>1. CASE k < Len(f)
    <3>1. k + 1 \in 1..Len(f) + 1 /\ Len(f) \in (k + 1) - 1..Len(f)
      BY <1>1, <2>1, SMT
    <3> QED
      BY <1>1, <3>1, SubSeqProperties, SMT
  <2>2. CASE ~(k < Len(f))
    <3>1. k + 1 \in Int /\ Len(f) \in Int /\ Len(f) < k + 1
      BY <1>1, <2>2, SMT
    <3>2. SubSeq(f, k + 1, Len(f)) = <<>>
      BY <3>1, SubSeqEmpty, Zenon
    <3> QED
      BY <3>2, EmptySeq, Zenon
  <2> QED
    BY <2>1, <2>2, Zenon
<1> QED
  BY <1>5, <1>6, Zenon DEF FifoAfter, f, q

(* The size byte is a byte, whatever it was. *)
LEMMA SizeReadType ==
    ASSUME Searching
    PROVE  /\ SizeRead(settings).size \in Nat /\ SizeRead(settings).from \in Nat
           /\ settings.NbBytes \in Nat /\ settings.NbBytes <= SizeRead(settings).size
<1>1. /\ settings.Size \in Nat /\ settings.NbBytes \in Nat /\ settings.NbBytes <= settings.Size
      /\ chip \in ChipRecord
  BY SettingsFields, Zenon DEF Searching
<1>2. 0 \in Nat /\ 1 \in Nat
  BY SMT
<1>3. CASE settings.Size = 0 /\ settings.NbBytes = 0
  <2> DEFINE g == FromFifo(1)
  <2>1. g \in Seq(Nat) /\ Len(g) = 1
    BY <1>1, <1>2, FifoTypes, Zenon
  <2>2. SizeRead(settings) = [size |-> Head(g), from |-> 1]
    BY <1>3, Zenon DEF SizeRead
  <2> HIDE DEF g
  <2>3. Head(g) \in Nat
    BY <2>1, SMT
  <2>4. SizeRead(settings).size = Head(g) /\ SizeRead(settings).from = 1
    BY <2>2, SMT
  <2>5. settings.NbBytes <= Head(g)
    BY <1>3, <2>3, SMT
  <2> QED
    BY <1>1, <1>2, <2>3, <2>4, <2>5, Zenon
<1>4. CASE ~(settings.Size = 0 /\ settings.NbBytes = 0)
  <2>1. SizeRead(settings) = [size |-> settings.Size, from |-> 0]
    BY <1>4, Zenon DEF SizeRead
  <2>2. SizeRead(settings).size = settings.Size /\ SizeRead(settings).from = 0
    BY <2>1, SMT
  <2> QED
    BY <1>1, <1>2, <2>2, Zenon
<1> QED
  BY <1>3, <1>4, Zenon

(* Reading k bytes while Searching: RxTxBuffer grows with NbBytes. *)
LEMMA SearchingReads ==
    ASSUME Searching, NEW k \in Nat, k <= SizeRead(settings).size - settings.NbBytes,
           NEW s, s = BytesRead(settings, k)
    PROVE  /\ s \in SettingsRecord /\ s.State = settings.State /\ s.Modem = settings.Modem
           /\ s.Timers = settings.Timers /\ s.NbBytes <= s.Size /\ s.NbBytes <= Len(s.RxTxBuffer)
           /\ SizeRead(settings).from + k \in Nat
<1> DEFINE z == SizeRead(settings).size
           f == SizeRead(settings).from
           B == settings.NbBytes
           x == settings.RxTxBuffer
           g == FromFifo(f + k)
           old == SubSeq(x, 1, B)
           new == SubSeq(g, f + 1, f + k)
<1>1. z \in Nat /\ f \in Nat /\ B \in Nat /\ B <= z
  BY SizeReadType, Zenon
<1>2. /\ settings \in SettingsRecord /\ x \in Seq(Nat) /\ B <= Len(x) /\ chip \in ChipRecord
      /\ Len(x) \in Nat
  BY SettingsFields, LenProperties, Zenon DEF Searching
<1>3. s = [settings EXCEPT !.Size = z, !.NbBytes = B + k, !.RxTxBuffer = old \o new]
  BY Zenon DEF BytesRead
<1>4. f + k \in Nat /\ B + k \in Nat /\ B + k <= z
  <2>1. k <= z - B
    BY Zenon
  <2> HIDE DEF z, f, B
  <2> QED
    BY <1>1, <2>1, SMT
<1>5. g \in Seq(Nat) /\ Len(g) = f + k
  BY <1>2, <1>4, FifoTypes, Zenon
<1> HIDE DEF z, f, B, x, g
<1>6. old \in Seq(Nat) /\ Len(old) = B
  <2>1. 1 \in 1..Len(x) + 1 /\ B \in 1 - 1..Len(x)
    BY <1>1, <1>2, SMT
  <2> QED
    BY <1>1, <1>2, <2>1, SubSeqProperties, SMT
<1>7. new \in Seq(Nat) /\ Len(new) = k
  <2>1. f + 1 \in 1..Len(g) + 1 /\ f + k \in (f + 1) - 1..Len(g)
    BY <1>1, <1>4, <1>5, SMT
  <2> QED
    BY <1>1, <1>5, <2>1, SubSeqProperties, SMT
<1> DEFINE q == old \o new
           c == B + k
<1> HIDE DEF old, new
<1>8. q \in Seq(Nat) /\ Len(q) = c
  BY <1>6, <1>7, ConcatProperties, Zenon
<1>9. c \in Nat /\ c <= z /\ s = [settings EXCEPT !.Size = z, !.NbBytes = c, !.RxTxBuffer = q]
  BY <1>3, <1>4, Zenon
<1> HIDE DEF q, c
<1>10. c <= Len(q)
  BY <1>8, <1>9, SMT
<1>11. [settings EXCEPT !.Size = z, !.NbBytes = c, !.RxTxBuffer = q] \in SettingsRecord
  BY <1>1, <1>2, <1>8, <1>9, BytesReadType, Zenon
<1>12. /\ s.State = settings.State /\ s.Modem = settings.Modem /\ s.Timers = settings.Timers
       /\ s.Size = z /\ s.NbBytes = c /\ s.RxTxBuffer = q
  BY <1>2, <1>9, ZenonT(60) DEF SettingsRecord
<1> QED
  BY <1>4, <1>9, <1>10, <1>11, <1>12, Zenon DEF f

(* PayloadReady while Searching: the MAC is told of a packet, or of an     *)
(* error, in the middle of the timeout.                                    *)
LEMMA SearchingDio0 ==
    ASSUME Searching, dio' \subseteq dio, SX1272OnDio0Irq
    PROVE  Asleep' /\ outcome'.reports = 1
<1> DEFINE k == SizeRead(settings).size - settings.NbBytes
           s == BytesRead(settings, k)
<1>1. /\ settings \in SettingsRecord /\ chip \in ChipRecord /\ dio' \subseteq {0, 1, 2, 4}
      /\ outcome \in [reports : Nat, whole : BOOLEAN] /\ outcome.reports = 0
      /\ settings.State = "RF_RX_RUNNING" /\ settings.Modem = "FSK"
      /\ settings.Timers \subseteq {"RxTimeoutTimer", "RxTimeoutSyncWord"}
  BY Zenon DEF Searching
<1>2. RxDoneFsk
  BY <1>1, SMT DEF SX1272OnDio0Irq
<1>3. s \in SettingsRecord /\ s.Timers = settings.Timers
  <2>1. k \in Nat /\ k <= SizeRead(settings).size - settings.NbBytes
    BY SizeReadType, SMT
  <2> HIDE DEF k
  <2> QED
    BY <2>1, SearchingReads, Zenon
<1>4. ASSUME NEW u \in SettingsRecord, u.Timers = settings.Timers
      PROVE  /\ ForgetPacket(EndOfRx(u)) \in SettingsRecord
             /\ ForgetPacket(EndOfRx(u)).Timers \subseteq {"RxTimeoutTimer", "TxTimeoutTimer"}
  <2>1. /\ EndOfRx(u) \in SettingsRecord
        /\ EndOfRx(u).Timers = u.Timers \ {"RxTimeoutTimer", "RxTimeoutSyncWord"}
    BY Stopped, Zenon DEF EndOfRx
  <2>2. /\ ForgetPacket(EndOfRx(u)) \in SettingsRecord
        /\ ForgetPacket(EndOfRx(u)).Timers = EndOfRx(u).Timers
    BY <2>1, ForgetPacketType, Zenon
  <2> QED
    BY <1>1, <1>4, <2>1, <2>2, Zenon
<1>5. ASSUME NEW u \in SettingsRecord, u.Timers = settings.Timers, NEW right \in BOOLEAN,
             Report(ForgetPacket(EndOfRx(u)), right)
      PROVE  Asleep' /\ outcome'.reports = 1
  <2>1. Asleep' /\ outcome'.reports = outcome.reports + 1
    BY <1>1, <1>4, <1>5, ReportEnds, ZenonT(60)
  <2>2. outcome'.reports = 1
    BY <1>1, <2>1, SMT
  <2> QED
    BY <2>1, <2>2, Zenon
<1>6. CASE chip.crc
  <2>1. Report(ForgetPacket(EndOfRx(s)), s.RxTxBuffer = chip.packet)
    BY <1>2, <1>6, Zenon DEF RxDoneFsk
  <2> HIDE DEF s
  <2>2. (s.RxTxBuffer = chip.packet) \in BOOLEAN
    BY Zenon
  <2> QED
    BY <1>3, <1>5, <2>1, <2>2, Zenon
<1>7. CASE ~chip.crc
  <2>1. Report(ForgetPacket(EndOfRx(settings)), TRUE)
    BY <1>2, <1>7, Zenon DEF RxDoneFsk
  <2> QED
    BY <1>1, <1>5, <2>1, Zenon
<1> QED
  BY <1>6, <1>7, Zenon

(* FifoLevel while Searching. *)
LEMMA SearchingDio1 ==
    ASSUME Searching, dio' \subseteq dio, SX1272OnDio1Irq
    PROVE  Searching'
<1> DEFINE d == SizeRead(settings).size - settings.NbBytes
           f == SizeRead(settings).from
           k == IF d > FifoThresh THEN FifoThresh ELSE d
           a == FifoAfter(f + k)
<1>1. /\ settings \in SettingsRecord /\ chip \in ChipRecord /\ dio' \subseteq {0, 1, 2, 4}
      /\ outcome \in [reports : Nat, whole : BOOLEAN] /\ outcome.reports = 0 /\ outcome.whole
      /\ settings.State = "RF_RX_RUNNING" /\ settings.Modem = "FSK"
      /\ settings.Timers \subseteq {"RxTimeoutTimer", "RxTimeoutSyncWord"}
      /\ chip.mode = "receiver" /\ (chip.phase = "packet" => chip.air # <<>>)
  BY Zenon DEF Searching
<1>2. FifoLevel
  BY <1>1, SMT DEF SX1272OnDio1Irq
<1>3. /\ settings' = BytesRead(settings, k) /\ chip' = [chip EXCEPT !.fifo = a] /\ outcome' = outcome
  BY <1>2, Zenon DEF FifoLevel
<1>4. k \in Nat /\ k <= d
  <2>1. d \in Nat
    BY SizeReadType, SMT
  <2>2. FifoThresh \in Nat
    BY SX1272Assumption, SMT
  <2> HIDE DEF d
  <2> QED
    BY <2>1, <2>2, SMT
<1> HIDE DEF k
<1>5. /\ settings' \in SettingsRecord /\ settings'.State = settings.State
      /\ settings'.Modem = settings.Modem /\ settings'.Timers = settings.Timers
      /\ settings'.NbBytes <= settings'.Size /\ settings'.NbBytes <= Len(settings'.RxTxBuffer)
      /\ f + k \in Nat
  BY <1>3, <1>4, SearchingReads, ZenonT(60)
<1>6. a \in Seq(Nat)
  BY <1>1, <1>5, FifoTypes, Zenon
<1> HIDE DEF a
<1>7. /\ chip' \in ChipRecord /\ chip'.mode = chip.mode /\ chip'.phase = chip.phase /\ chip'.air = chip.air
  BY <1>1, <1>3, <1>6, ZenonT(60) DEF ChipRecord
<1> QED
  BY <1>1, <1>3, <1>5, <1>7, ZenonT(60) DEF Searching

(* A step of the chip while Searching, or a handler that reads no byte. *)
LEMMA SearchingStep ==
    ASSUME Searching, settings' \in SettingsRecord, chip' \in ChipRecord,
           settings'.State = settings.State, settings'.Modem = settings.Modem,
           settings'.Size = settings.Size, settings'.NbBytes = settings.NbBytes,
           settings'.RxTxBuffer = settings.RxTxBuffer, settings'.Timers \subseteq settings.Timers,
           chip'.mode = chip.mode, chip'.phase = "packet" => chip'.air # <<>>,
           outcome' = outcome, dio' \subseteq {0, 1, 2, 4}
    PROVE  Searching'
  BY ZenonT(60) DEF Searching

(* SX1272OnDio2Irq stops the sync word timeout at most. *)
LEMMA Dio2Settings ==
    ASSUME settings \in SettingsRecord, SX1272OnDio2Irq
    PROVE  /\ settings' \in SettingsRecord /\ settings'.State = settings.State
           /\ settings'.Modem = settings.Modem /\ settings'.Size = settings.Size
           /\ settings'.NbBytes = settings.NbBytes /\ settings'.RxTxBuffer = settings.RxTxBuffer
           /\ settings'.Timers \subseteq settings.Timers /\ chip' = chip /\ outcome' = outcome
<1>1. CASE Ignored
  BY <1>1, Zenon DEF Ignored
<1>2. CASE /\ settings' = [settings EXCEPT !.Timers = @ \ {"RxTimeoutSyncWord"}, !.SyncWordDetected = TRUE]
           /\ UNCHANGED <<chip, outcome>>
  <2> DEFINE T == settings.Timers \ {"RxTimeoutSyncWord"}
  <2>1. T \in SUBSET AllTimers /\ T \subseteq settings.Timers
    BY TimersLeft, Zenon
  <2>2. settings' = [settings EXCEPT !.Timers = T, !.SyncWordDetected = TRUE]
    BY <1>2, Zenon
  <2> HIDE DEF T
  <2>3. [settings EXCEPT !.Timers = T, !.SyncWordDetected = TRUE] \in SettingsRecord
    BY <2>1, ZenonT(60) DEF SettingsRecord
  <2>4. /\ settings'.State = settings.State
        /\ settings'.Modem = settings.Modem /\ settings'.Size = settings.Size
        /\ settings'.NbBytes = settings.NbBytes /\ settings'.RxTxBuffer = settings.RxTxBuffer
        /\ settings'.Timers = T
    BY <2>2, ZenonT(60) DEF SettingsRecord
  <2> QED
    BY <1>2, <2>1, <2>2, <2>3, <2>4, ZenonT(60)
<1> QED
  BY <1>1, <1>2, Zenon DEF SX1272OnDio2Irq

(* SX1272OnDio4Irq notes a preamble, in whatever state. *)
LEMMA Dio4Settings ==
    ASSUME settings \in SettingsRecord, SX1272OnDio4Irq
    PROVE  /\ settings' \in SettingsRecord /\ settings'.State = settings.State
           /\ settings'.Modem = settings.Modem /\ settings'.Size = settings.Size
           /\ settings'.NbBytes = settings.NbBytes /\ settings'.RxTxBuffer = settings.RxTxBuffer
           /\ settings'.Timers = settings.Timers /\ chip' = chip /\ outcome' = outcome
<1> DEFINE b == settings.PreambleDetected \/ settings.Modem = "FSK"
<1>1. b \in BOOLEAN
  BY Zenon
<1>2. settings' = [settings EXCEPT !.PreambleDetected = b] /\ UNCHANGED <<chip, outcome>>
  BY Zenon DEF SX1272OnDio4Irq
<1> HIDE DEF b
<1>3. [settings EXCEPT !.PreambleDetected = b] \in SettingsRecord
  BY <1>1, ZenonT(60) DEF SettingsRecord
<1>4. /\ settings'.State = settings.State
      /\ settings'.Modem = settings.Modem /\ settings'.Size = settings.Size
      /\ settings'.NbBytes = settings.NbBytes /\ settings'.RxTxBuffer = settings.RxTxBuffer
      /\ settings'.Timers = settings.Timers
  BY <1>2, ZenonT(60) DEF SettingsRecord
<1> QED
  BY <1>2, <1>3, <1>4, Zenon

(* The DIO handlers while Searching: they end the request or leave it as   *)
(* it is.                                                                  *)
LEMMA SearchingDio ==
    ASSUME Searching, DioIrq
    PROVE  Searching' \/ (Asleep' /\ outcome'.reports = 1)
<1>1. dio' \subseteq dio /\ (SX1272OnDio0Irq \/ SX1272OnDio1Irq \/ SX1272OnDio2Irq \/ SX1272OnDio4Irq)
  BY ZenonT(60) DEF DioIrq
<1>2. settings \in SettingsRecord /\ chip \in ChipRecord /\ dio' \subseteq {0, 1, 2, 4}
      /\ (chip.phase = "packet" => chip.air # <<>>)
  BY <1>1, Zenon DEF Searching
<1>3. CASE SX1272OnDio0Irq
  BY <1>1, <1>3, SearchingDio0, Zenon
<1>4. CASE SX1272OnDio1Irq
  BY <1>1, <1>4, SearchingDio1, Zenon
<1>5. CASE SX1272OnDio2Irq
  BY <1>2, <1>5, Dio2Settings, SearchingStep, ZenonT(60)
<1>6. CASE SX1272OnDio4Irq
  BY <1>2, <1>6, Dio4Settings, SearchingStep, ZenonT(60)
<1> QED
  BY <1>1, <1>3, <1>4, <1>5, <1>6, Zenon

(* The chip while Searching. *)
LEMMA SearchingChip ==
    ASSUME Searching, ChipStep
    PROVE  Searching'
<1>1. /\ settings \in SettingsRecord /\ chip \in ChipRecord /\ dio \subseteq {0, 1, 2, 4}
      /\ settings.Modem = "FSK" /\ settings.Modem # "LORA"
      /\ chip.mode = "receiver" /\ chip.mode # "transmitter"
      /\ (chip.phase = "packet" => chip.air # <<>>)
  BY SMT DEF Searching
<1>2. ~LoraTxDone /\ ~LoraRxTimeout /\ \A n, crc : ~LoraRxDone(n, crc)
  BY <1>1, Zenon DEF LoraTxDone, LoraRxTimeout, LoraRxDone, ChipLora
<1>3. ~FskByteSent
  BY <1>1, Zenon DEF FskByteSent
<1>4. ASSUME NEW c, c \in ChipRecord, c.mode = chip.mode, c.phase = "packet" => c.air # <<>>,
             chip' = c, settings' = settings, outcome' = outcome, dio' \subseteq {0, 1, 2, 4}
      PROVE  Searching'
  <2>1. settings'.Timers \subseteq settings.Timers
    BY <1>4, Zenon
  <2> QED
    BY <1>1, <1>4, <2>1, SearchingStep, ZenonT(60)
<1>5. CASE FskPreamble
  <2>1. PICK h : h = "preamble"
    OBVIOUS
  <2> DEFINE c == [chip EXCEPT !.phase = h]
  <2>2. chip' = c /\ settings' = settings /\ outcome' = outcome /\ dio' = dio \cup {4}
    BY <1>5, <2>1, Zenon DEF FskPreamble, FskHears
  <2>3. h \in Phases /\ h # "packet"
    BY <2>1, Zenon DEF Phases
  <2>4. c \in ChipRecord /\ c.mode = chip.mode /\ c.phase = h
    BY <1>1, <2>3, ZenonT(60) DEF ChipRecord
  <2>5. dio' \subseteq {0, 1, 2, 4}
    BY <1>1, <2>2, Zenon
  <2> HIDE DEF c
  <2> QED
    BY <1>4, <2>2, <2>3, <2>4, <2>5, ZenonT(60)
<1>6. ASSUME NEW n \in PacketSizes, FskSyncWord(n)
      PROVE  Searching'
  <2>1. PICK h, P, A : h = "packet" /\ P = Packet(n) /\ A = OnAir(n)
    OBVIOUS
  <2> DEFINE c == [chip EXCEPT !.phase = h, !.air = A, !.packet = P]
  <2>2. chip' = c /\ settings' = settings /\ outcome' = outcome /\ dio' = dio \cup {2}
    BY <1>6, <2>1, Zenon DEF FskSyncWord, FskHears
  <2>3. n \in Nat
    BY SX1272Assumption, SMT
  <2>4. h \in Phases /\ P \in Seq(Nat) /\ A \in Seq(Nat) /\ A # <<>>
    <3>1. Piece(Packet(n), n, 1) /\ Piece(OnAir(n), n, 0) /\ Len(OnAir(n)) = n + 1
      BY <2>3, PacketIsPiece, OnAirIsPiece, Zenon
    <3>2. n + 1 # 0
      BY <2>3, SMT
    <3>3. OnAir(n) # <<>> /\ OnAir(n) \in Seq(Nat) /\ Packet(n) \in Seq(Nat)
      BY <3>1, <3>2, PieceLen, ZenonT(60)
    <3> QED
      BY <2>1, <3>3, Zenon DEF Phases
  <2>5. c \in ChipRecord /\ c.mode = chip.mode /\ c.air = A
    BY <1>1, <2>4, ZenonT(60) DEF ChipRecord
  <2>6. dio' \subseteq {0, 1, 2, 4}
    BY <1>1, <2>2, Zenon
  <2> HIDE DEF c
  <2> QED
    BY <1>4, <2>2, <2>4, <2>5, <2>6, ZenonT(60)
<1>7. ASSUME NEW crc \in BOOLEAN, FskByteReceived(crc)
      PROVE  Searching'
  <2> DEFINE g == Append(chip.fifo, Head(chip.air))
             t == Tail(chip.air)
             h == IF Len(chip.air) = 1 THEN "received" ELSE chip.phase
             c == [chip EXCEPT !.fifo = g, !.air = t, !.crc = crc, !.phase = h]
  <2>1. /\ chip' = c /\ settings' = settings /\ outcome' = outcome /\ chip.phase = "packet"
        /\ dio' = dio \cup (IF Len(chip.fifo) = FifoThresh THEN {1} ELSE {})
                      \cup (IF Len(chip.air) = 1 THEN {0} ELSE {})
    BY <1>7, Zenon DEF FskByteReceived, FskHears
  <2>2. PICK a, b : a = chip.air /\ b = chip.fifo
    OBVIOUS
  <2>3. a \in Seq(Nat) /\ b \in Seq(Nat) /\ a # <<>> /\ chip.phase \in Phases
    BY <1>1, <2>1, <2>2, ChipFields, Zenon
  <2>4. /\ Append(b, Head(a)) \in Seq(Nat) /\ Tail(a) \in Seq(Nat) /\ (Len(a) # 1 => Tail(a) # <<>>)
    <3>1. /\ Head(a) \in Nat /\ Tail(a) \in Seq(Nat) /\ Len(Tail(a)) = Len(a) - 1 /\ Len(a) \in Nat
      BY <2>3, HeadTailProperties, LenProperties, Zenon
    <3>2. Append(b, Head(a)) \in Seq(Nat)
      BY <2>3, <3>1, AppendProperties, Zenon
    <3>3. Len(a) # 1 => Len(Tail(a)) # 0
      BY <3>1, SMT
    <3>4. Len(a) # 1 => Tail(a) # <<>>
      BY <3>1, <3>3, EmptySeq, Zenon
    <3> QED
      BY <3>1, <3>2, <3>4, Zenon
  <2>5. g \in Seq(Nat) /\ t \in Seq(Nat) /\ (Len(chip.air) # 1 => t # <<>>)
    BY <2>2, <2>4, Zenon
  <2>6. h \in Phases /\ (h = "packet" => Len(chip.air) # 1)
    BY <2>3, Zenon DEF Phases
  <2>7. dio' \subseteq {0, 1, 2, 4}
    BY <1>1, <2>1, Zenon
  <2> HIDE DEF g, t, h
  <2>8. c \in ChipRecord /\ c.mode = chip.mode /\ c.air = t /\ c.phase = h
    BY <1>1, <2>5, <2>6, ZenonT(60) DEF ChipRecord
  <2> HIDE DEF c
  <2> QED
    BY <1>4, <2>1, <2>5, <2>6, <2>7, <2>8, ZenonT(60)
<1> QED
  BY <1>2, <1>3, <1>5, <1>6, <1>7, ZenonT(60) DEF ChipStep

(* An idle driver is asleep. *)
LEMMA IdleIsAsleep ==
    ASSUME RadioInv, settings.State = "RF_IDLE"
    PROVE  Asleep /\ outcome.reports = 1
<1>1. settings.Timers = {}
  BY BusyTimers, Zenon
<1>2. chip.mode = "sleep" /\ chip.fifo = <<>> /\ outcome.reports = 1
  BY Zenon DEF RadioInv, IdleSleeps, OneReport
<1> QED
  BY <1>1, <1>2, Zenon DEF Asleep, RadioInv

(* The chip of a driver that is asleep does nothing, and the edges that    *)
(* still wait are ignored.                                                 *)
LEMMA AsleepStep ==
    ASSUME Asleep, ChipStep \/ DioIrq
    PROVE  Asleep' /\ outcome' = outcome
<1>1. /\ settings \in SettingsRecord /\ settings.State = "RF_IDLE" /\ settings.Timers = {}
      /\ chip.mode = "sleep"
      /\ settings.State # "RF_RX_RUNNING" /\ settings.State # "RF_TX_RUNNING"
      /\ chip.mode # "transmitter" /\ chip.mode # "receiver"
  BY SMT DEF Asleep
<1>2. ~ChipStep
  <2>1. ~LoraTxDone /\ ~LoraRxTimeout /\ \A n, crc : ~LoraRxDone(n, crc)
    BY <1>1, Zenon DEF LoraTxDone, LoraRxTimeout, LoraRxDone, ChipLora
  <2>2. ~FskByteSent
    BY <1>1, Zenon DEF FskByteSent
  <2>3. ~FskPreamble /\ (\A n : ~FskSyncWord(n)) /\ (\A crc : ~FskByteReceived(crc))
    BY <1>1, Zenon DEF FskPreamble, FskSyncWord, FskByteReceived, FskHears
  <2> QED
    BY <2>1, <2>2, <2>3, Zenon DEF ChipStep
<1>3. dio' \subseteq dio /\ (SX1272OnDio0Irq \/ SX1272OnDio1Irq \/ SX1272OnDio2Irq \/ SX1272OnDio4Irq)
  BY <1>2, ZenonT(60) DEF DioIrq
<1>4. Ignored \/ SX1272OnDio4Irq
  BY <1>1, <1>3, ZenonT(60) DEF SX1272OnDio0Irq, SX1272OnDio1Irq, SX1272OnDio2Irq
<1>5. /\ settings' \in SettingsRecord /\ settings'.State = settings.State
      /\ settings'.Timers = settings.Timers /\ chip' = chip /\ outcome' = outcome
  <2>1. CASE Ignored
    BY <1>1, <2>1, Zenon DEF Ignored
  <2>2. CASE SX1272OnDio4Irq
    BY <1>1, <2>2, Dio4Settings, Zenon
  <2> QED
    BY <1>4, <2>1, <2>2, Zenon
<1>6. dio' \subseteq {0, 1, 2, 4}
  BY <1>3, Zenon DEF Asleep
<1> QED
  BY <1>1, <1>5, <1>6, ZenonT(60) DEF Asleep

(* A DIO handler or the chip leaves State and Modem alone, unless the      *)
(* request ends.                                                           *)
LEMMA SameRequest ==
    ASSUME RadioInv, RadioInv', ChipStep \/ DioIrq, settings'.State # "RF_IDLE"
    PROVE  settings'.State = settings.State /\ settings'.Modem = settings.Modem
<1>1. settings \in SettingsRecord /\ settings.State \in States
  BY SettingsFields, Zenon DEF RadioInv
<1>2. outcome.reports = (IF settings.State = "RF_IDLE" THEN 1 ELSE 0) /\ outcome'.reports = 0
  BY Zenon DEF RadioInv, OneReport
<1>3. settings.State # "RF_IDLE" /\ outcome.reports = 0
  <2>1. CASE settings.State = "RF_IDLE"
    <3>1. Asleep' /\ Asleep
      BY <2>1, IdleIsAsleep, AsleepStep, Zenon
    <3> QED
      BY <3>1, Zenon DEF Asleep
  <2> QED
    BY <1>2, <2>1, Zenon
<1>4. ASSUME NEW s, NEW right, Report(s, right)
      PROVE  FALSE
  <2>1. outcome'.reports = outcome.reports + 1
    BY <1>4, Zenon DEF Report
  <2> QED
    BY <1>2, <1>3, <2>1, SMT
<1>5. CASE settings' = settings
  BY <1>5, Zenon
<1>6. ChipStep => settings' = settings
  BY ZenonT(60) DEF ChipStep, LoraTxDone, LoraRxTimeout, LoraRxDone, ChipLora, FskByteSent,
     FskPreamble, FskSyncWord, FskByteReceived, FskHears
<1>7. Ignored => settings' = settings
  BY Zenon DEF Ignored
<1>8. ~SX1272OnDio0Irq
  BY <1>3, <1>4, ZenonT(60) DEF SX1272OnDio0Irq, RxDoneFsk, RxDoneLora, TxDone
<1>9. CASE SX1272OnDio1Irq
  <2>1. FifoLevel \/ FifoEmpty
    BY <1>3, <1>4, <1>9, ZenonT(60) DEF SX1272OnDio1Irq
  <2>2. CASE FifoLevel
    <3>1. \E z, b, q : settings' = [settings EXCEPT !.Size = z, !.NbBytes = b, !.RxTxBuffer = q]
      BY <2>2, ZenonT(60) DEF FifoLevel, BytesRead
    <3> QED
      BY <1>1, <3>1, ZenonT(60) DEF SettingsRecord
  <2>3. CASE FifoEmpty
    <3>1. \E b : settings' = [settings EXCEPT !.NbBytes = b]
      BY <2>3, ZenonT(60) DEF FifoEmpty
    <3> QED
      BY <1>1, <3>1, ZenonT(60) DEF SettingsRecord
  <2> QED
    BY <2>1, <2>2, <2>3, Zenon
<1>10. CASE SX1272OnDio2Irq \/ SX1272OnDio4Irq
  BY <1>1, <1>10, Dio2Settings, Dio4Settings, Zenon
<1>11. DioIrq => SX1272OnDio0Irq \/ SX1272OnDio1Irq \/ SX1272OnDio2Irq \/ SX1272OnDio4Irq
  BY ZenonT(60) DEF DioIrq
<1> QED
  BY <1>5, <1>6, <1>8, <1>9, <1>10, <1>11, Zenon

-----------------------------------------------------------------------------
(***************************************************************************)
(* The invariant and the theorems.                                         *)
(***************************************************************************)
(* Every step of the chip and of the DIO handlers keeps the bytes in       *)
(* order.                                                                  *)
LEMMA RadioInvStep ==
    ASSUME RadioInv, ChipStep \/ DioIrq
    PROVE  RadioInv'
<1>1. CASE ChipStep
  <2>1. PICK z, t : z = 0 /\ t = TRUE
    OBVIOUS
  <2>2. z \in Nat /\ t \in BOOLEAN
    BY <2>1, SMT
  <2>3. CASE LoraTxDone \/ LoraRxTimeout
    BY <2>2, <2>3, LoraChipStep, ZenonT(60)
  <2>4. ASSUME NEW n \in PacketSizes, NEW crc \in BOOLEAN, LoraRxDone(n, crc)
        PROVE  RadioInv'
    <3>1. n \in Nat
      BY SX1272Assumption, SMT
    <3> QED
      BY <2>4, <3>1, LoraChipStep, ZenonT(60)
  <2>5. CASE FskByteSent \/ FskPreamble
    BY <2>5, FskByteSentStep, FskPreambleStep, Zenon
  <2>6. ASSUME NEW n \in PacketSizes, FskSyncWord(n)
        PROVE  RadioInv'
    BY <2>6, FskSyncWordStep, Zenon
  <2>7. ASSUME NEW crc \in BOOLEAN, FskByteReceived(crc)
        PROVE  RadioInv'
    BY <2>7, FskByteReceivedStep, Zenon
  <2> QED
    BY <1>1, <2>3, <2>4, <2>5, <2>6, <2>7, ZenonT(60) DEF ChipStep
<1>2. CASE DioIrq
  BY <1>2, Dio0Step, Dio1Step, Dio2Step, Dio4Step, ZenonT(60) DEF DioIrq
<1> QED
  BY <1>1, <1>2, Zenon

(* The chip and the DIO handlers, within SX1272OnTimeoutIrq or not. *)
LEMMA InterruptStep ==
    ASSUME DriverInv, ChipStep \/ DioIrq
    PROVE  DriverInv'
<1>1. /\ timeoutIrq' = timeoutIrq /\ (raced => raced') /\ raced' \in BOOLEAN
      /\ (DioIrq /\ timeoutIrq # "none" => raced')
  <2>1. CASE ChipStep
    <3>1. timeoutIrq' = timeoutIrq /\ raced' = raced
      BY <2>1, ZenonT(60) DEF ChipStep, LoraTxDone, LoraRxTimeout, LoraRxDone, ChipLora, FskByteSent,
         FskPreamble, FskSyncWord, FskByteReceived, FskHears
    <3>2. raced \in BOOLEAN
      BY Zenon DEF DriverInv
    <3>3. DioIrq => raced' = (raced \/ timeoutIrq # "none")
      BY Zenon DEF DioIrq
    <3> QED
      BY <3>1, <3>2, <3>3, Zenon
  <2>2. CASE DioIrq
    BY <2>2, Zenon DEF DioIrq, DriverInv
  <2> QED
    BY <2>1, <2>2, Zenon
<1>2. CASE timeoutIrq = "none" /\ RadioInv
  BY <1>1, <1>2, RadioInvStep, Zenon DEF DriverInv
<1>3. CASE timeoutIrq \in {"forget", "report"} /\ RadioInv /\ Tested
  <2>1. RadioInv'
    BY <1>3, RadioInvStep, Zenon
  <2>2. CASE settings'.State = "RF_IDLE"
    <3>3. Tested'
      <4>1. CASE DioIrq
        <5>1. raced'
          BY <1>1, <1>3, <4>1, Zenon
        <5> QED
          BY <2>2, <5>1, Zenon DEF Tested
      <4>2. CASE ChipStep
        <5>1. settings' = settings
          BY <4>2, ZenonT(60) DEF ChipStep, LoraTxDone, LoraRxTimeout, LoraRxDone, ChipLora, FskByteSent,
             FskPreamble, FskSyncWord, FskByteReceived, FskHears
        <5> QED
          BY <1>1, <1>3, <5>1, ZenonT(60) DEF Tested
      <4> QED
        BY <4>1, <4>2, Zenon
    <3> QED
      BY <1>1, <1>3, <2>1, <3>3, ZenonT(60) DEF DriverInv
  <2>3. CASE settings'.State # "RF_IDLE"
    <3>1. settings'.State = settings.State /\ settings'.Modem = settings.Modem
      BY <1>3, <2>1, <2>3, SameRequest, Zenon
    <3>2. Tested'
      BY <1>1, <1>3, <2>3, <3>1, ZenonT(60) DEF Tested
    <3> QED
      BY <1>1, <1>3, <2>1, <3>2, ZenonT(60) DEF DriverInv
  <2> QED
    BY <2>2, <2>3, Zenon
<1>4. CASE timeoutIrq = "search" /\ Searching
  <2>1. CASE ChipStep
    BY <1>1, <1>4, <2>1, SearchingChip, Zenon DEF DriverInv
  <2>2. CASE DioIrq
    <3>1. Searching' \/ (Asleep' /\ outcome'.reports = 1)
      BY <1>4, <2>2, SearchingDio, Zenon
    <3>2. raced'
      BY <1>1, <1>4, <2>2, Zenon
    <3> QED
      BY <1>1, <1>4, <3>1, <3>2, Zenon DEF DriverInv
  <2> QED
    BY <2>1, <2>2, Zenon
<1>5. CASE timeoutIrq = "search" /\ Asleep /\ raced /\ outcome.reports = 1
  <2>1. Asleep' /\ outcome' = outcome
    BY <1>5, AsleepStep, Zenon
  <2> QED
    BY <1>1, <1>5, <2>1, Zenon DEF DriverInv
<1>6. CASE timeoutIrq = "none" /\ Asleep /\ raced /\ outcome.reports \in {1, 2}
  <2>1. Asleep' /\ outcome' = outcome
    BY <1>6, AsleepStep, Zenon
  <2> QED
    BY <1>1, <1>6, <2>1, Zenon DEF DriverInv
<1> QED
  BY <1>2, <1>3, <1>4, <1>5, <1>6, Zenon DEF DriverInv

(* SX1272OnTimeoutIrq forgets the packet. *)
LEMMA ForgetStep ==
    ASSUME DriverInv, TimeoutForgets
    PROVE  DriverInv'
<1>1. /\ timeoutIrq = "forget" /\ settings' = ForgetPacket(settings) /\ timeoutIrq' = "search"
      /\ chip' = chip /\ dio' = dio /\ outcome' = outcome /\ raced' = raced
  BY Zenon DEF TimeoutForgets
<1>2. RadioInv /\ Tested /\ raced \in BOOLEAN
  BY <1>1, ZenonT(60) DEF DriverInv
<1>3. /\ settings \in SettingsRecord /\ settings.State \in States /\ settings.Modem \in Modems
      /\ settings.RxTxBuffer \in Seq(Nat) /\ chip \in ChipRecord /\ chip.phase \in Phases
  BY <1>2, SettingsFields, ChipFields, Zenon DEF RadioInv
<1>4. /\ settings' \in SettingsRecord /\ settings'.Timers = settings.Timers
      /\ settings'.Size = 0 /\ settings'.NbBytes = 0
  BY <1>1, <1>3, ForgetPacketType, Zenon
<1>5. /\ settings'.State = settings.State /\ settings'.Modem = settings.Modem
      /\ settings'.RxTxBuffer = settings.RxTxBuffer
  BY <1>1, <1>3, ZenonT(60) DEF ForgetPacket, SettingsRecord
<1>6. CASE settings.State = "RF_IDLE"
  <2>1. Asleep /\ outcome.reports = 1 /\ raced
    BY <1>2, <1>6, IdleIsAsleep, Zenon DEF Tested
  <2>2. Asleep'
    BY <1>1, <1>4, <1>5, <2>1, ZenonT(60) DEF Asleep
  <2> QED
    BY <1>1, <1>2, <2>1, <2>2, ZenonT(60) DEF DriverInv
<1>7. CASE settings.State # "RF_IDLE"
  <2>1. settings.State = "RF_RX_RUNNING" /\ settings.Modem = "FSK"
    BY <1>1, <1>2, <1>3, <1>7, ZenonT(60) DEF Tested, States
  <2>2. settings.Timers \subseteq {"RxTimeoutTimer", "RxTimeoutSyncWord"}
    BY <1>2, <2>1, BusyTimers, Zenon
  <2>3. chip.mode = "receiver" /\ (chip.phase = "packet" => chip.air # <<>>)
    <3>1. chip.phase = "packet" => chip.phase \in {"packet", "received"} /\ chip.phase # "received"
      BY Zenon
    <3> QED
      BY <1>2, <2>1, <3>1, ZenonT(60) DEF RadioInv, ReceivesInOrder
  <2>4. outcome.reports = 0 /\ outcome.whole
    BY <1>2, <1>7, Zenon DEF RadioInv, OneReport, NoneWrong
  <2>5. 0 <= 0 /\ 0 <= Len(settings.RxTxBuffer)
    <3>1. Len(settings.RxTxBuffer) \in Nat
      BY <1>3, LenProperties, Zenon
    <3> QED
      BY <3>1, SMT
  <2>6. dio \subseteq {0, 1, 2, 4} /\ outcome \in [reports : Nat, whole : BOOLEAN]
    BY <1>2, Zenon DEF RadioInv
  <2>7. Searching'
    BY <1>1, <1>3, <1>4, <1>5, <2>1, <2>2, <2>3, <2>4, <2>5, <2>6, ZenonT(60) DEF Searching
  <2> QED
    BY <1>1, <1>2, <2>7, ZenonT(60) DEF DriverInv
<1> QED
  BY <1>6, <1>7, Zenon

(* SX1272OnTimeoutIrq ends the request, again if a DIO handler has ended   *)
(* it already.                                                             *)
LEMMA TimeoutReportStep ==
    ASSUME DriverInv, TimeoutReports
    PROVE  DriverInv'
<1> DEFINE s == IF timeoutIrq = "search" THEN EndOfSearch(settings) ELSE settings
<1>1. /\ timeoutIrq \in {"search", "report"} /\ Report(s, TRUE) /\ timeoutIrq' = "none"
      /\ dio' = dio /\ raced' = raced
  BY Zenon DEF TimeoutReports
<1>2. /\ settings \in SettingsRecord /\ chip \in ChipRecord /\ dio \subseteq {0, 1, 2, 4}
      /\ outcome \in [reports : Nat, whole : BOOLEAN] /\ raced \in BOOLEAN
  BY <1>1, ZenonT(60) DEF DriverInv, RadioInv, Searching, Asleep
<1>3. ASSUME s \in SettingsRecord, s.Timers \subseteq {"RxTimeoutTimer", "TxTimeoutTimer"},
             outcome.reports \in {0, 1}, outcome.reports = 1 => raced, outcome.whole \/ raced
      PROVE  DriverInv'
  <2>1. Asleep' /\ outcome'.reports = outcome.reports + 1 /\ outcome'.whole = (outcome.whole /\ TRUE)
    <3> HIDE DEF s
    <3>1. TRUE \in BOOLEAN /\ dio' \subseteq {0, 1, 2, 4}
      BY <1>1, <1>2, Zenon
    <3> QED
      BY <1>1, <1>2, <1>3, <3>1, ReportEnds, ZenonT(60)
  <2>2. /\ outcome'.reports \in {1, 2} /\ (outcome.reports = 0 => outcome'.reports = 1)
    BY <1>3, <2>1, SMT
  <2>3. CASE raced
    BY <1>1, <1>2, <2>1, <2>2, <2>3, ZenonT(60) DEF DriverInv
  <2>4. CASE ~raced
    <3>1. outcome.reports = 0 /\ outcome.whole
      BY <1>3, <2>4, Zenon
    <3>2. outcome'.reports = 1 /\ outcome'.whole
      BY <2>1, <2>2, <3>1, Zenon
    <3>3. RadioInv'
      BY <2>1, <3>2, AsleepInv, Zenon
    <3> QED
      BY <1>1, <1>2, <3>3, Zenon DEF DriverInv
  <2> QED
    BY <2>3, <2>4, Zenon
<1>4. CASE timeoutIrq = "report"
  <2>1. RadioInv /\ Tested
    BY <1>4, ZenonT(60) DEF DriverInv
  <2>2. /\ outcome.reports = (IF settings.State = "RF_IDLE" THEN 1 ELSE 0) /\ outcome.whole
        /\ settings.State \in States /\ settings.Modem \in Modems
    BY <2>1, SettingsFields, Zenon DEF RadioInv, OneReport, NoneWrong
  <2>3. outcome.reports \in {0, 1} /\ (outcome.reports = 1 => raced)
    <3>1. 0 # 1
      BY SMT
    <3> QED
      BY <2>1, <2>2, <3>1, Zenon DEF Tested
  <2>4. settings.Timers \subseteq {"RxTimeoutTimer", "TxTimeoutTimer"}
    <3>1. settings.State = "RF_RX_RUNNING" => settings.Modem = "LORA"
      <4>1. timeoutIrq # "forget"
        BY <1>4, Zenon
      <4> QED
        BY <2>1, <2>2, <4>1, Zenon DEF Tested, Modems
    <3>2. \/ settings.State = "RF_IDLE" \/ settings.State = "RF_TX_RUNNING"
          \/ settings.State = "RF_RX_RUNNING"
      BY <2>2, Zenon DEF States
    <3> QED
      BY <2>1, <3>1, <3>2, BusyTimers, ZenonT(60)
  <2>5. s = settings
    BY <1>4, Zenon
  <2> HIDE DEF s
  <2> QED
    BY <1>2, <1>3, <2>2, <2>3, <2>4, <2>5, Zenon
<1>5. CASE timeoutIrq = "search"
  <2>1. Searching \/ (Asleep /\ raced /\ outcome.reports = 1)
    BY <1>5, ZenonT(60) DEF DriverInv
  <2>2. s \in SettingsRecord /\ s.Timers = settings.Timers \ {"RxTimeoutSyncWord"}
    BY <1>2, <1>5, Stopped, Zenon DEF EndOfSearch
  <2> HIDE DEF s
  <2>3. s.Timers \subseteq {"RxTimeoutTimer", "TxTimeoutTimer"}
    BY <2>1, <2>2, ZenonT(60) DEF Searching, Asleep
  <2>4. outcome.reports \in {0, 1} /\ (outcome.reports = 1 => raced) /\ (outcome.whole \/ raced)
    <3>1. 0 # 1
      BY SMT
    <3> QED
      BY <2>1, <3>1, Zenon DEF Searching
  <2> QED
    BY <1>3, <2>2, <2>3, <2>4, Zenon
<1> QED
  BY <1>1, <1>4, <1>5, Zenon

(* Every step of driver, chip and timers keeps the invariant. *)
LEMMA DriverInvStep ==
    ASSUME DriverInv, [RadioNext]_radioVars
    PROVE  DriverInv'
<1>1. CASE \E modem \in {"FSK", "LORA"} : SX1272SetRx(modem) \/ \E n \in PacketSizes : SX1272Send(modem, n)
  <2>1. Requested
    BY <1>1, Zenon DEF SX1272SetRx, SX1272Send
  <2>2. settings.State = "RF_IDLE" /\ timeoutIrq = "none" /\ timeoutIrq' = timeoutIrq /\ raced' = FALSE
    BY <2>1, Zenon DEF Requested
  <2>3. RadioInv \/ Asleep
    BY <2>2, ZenonT(60) DEF DriverInv
  <2>4. Asleep
    BY <2>2, <2>3, IdleIsAsleep, Zenon
  <2>5. RadioInv'
    BY <1>1, <2>4, SX1272SetRxStep, SX1272SendStep, Zenon
  <2> QED
    BY <2>2, <2>5, Zenon DEF DriverInv
<1>2. CASE ChipStep \/ DioIrq
  BY <1>2, InterruptStep, Zenon
<1>3. CASE Timeout
  <2>1. ASSUME NEW t \in settings.Timers, SX1272OnTimeoutIrq(t)
        PROVE  DriverInv'
    <3>1. timeoutIrq = "none" /\ raced \in BOOLEAN
      BY <2>1, Zenon DEF SX1272OnTimeoutIrq, DriverInv
    <3>2. RadioInv
      <4>1. ~Asleep
        BY <2>1, Zenon DEF Asleep
      <4> QED
        BY <3>1, <4>1, ZenonT(60) DEF DriverInv
    <3>3. /\ RadioInv' /\ settings.State # "RF_IDLE" /\ settings'.State = settings.State
          /\ settings'.Modem = settings.Modem /\ raced' = raced
          /\ timeoutIrq' = IF settings.State = "RF_RX_RUNNING" /\ settings.Modem = "FSK"
                        THEN "forget" ELSE "report"
      BY <2>1, <3>2, TimeoutStep, Zenon
    <3>4. Tested' /\ timeoutIrq' \in {"forget", "report"}
      <4>1. CASE settings.State = "RF_RX_RUNNING" /\ settings.Modem = "FSK"
        <5>1. timeoutIrq' = "forget"
          BY <3>3, <4>1, Zenon
        <5> QED
          BY <3>3, <4>1, <5>1, SMT DEF Tested
      <4>2. CASE ~(settings.State = "RF_RX_RUNNING" /\ settings.Modem = "FSK")
        <5>1. timeoutIrq' = "report"
          BY <3>3, <4>2, Zenon
        <5> QED
          BY <3>3, <4>2, <5>1, SMT DEF Tested
      <4> QED
        BY <4>1, <4>2, Zenon
    <3> QED
      BY <3>1, <3>3, <3>4, Zenon DEF DriverInv
  <2> QED
    BY <1>3, <2>1, ForgetStep, TimeoutReportStep, Zenon DEF Timeout
<1>4. CASE UNCHANGED radioVars
  <2>1. /\ settings' = settings /\ chip' = chip /\ dio' = dio /\ timeoutIrq' = timeoutIrq
        /\ outcome' = outcome /\ raced' = raced
    BY <1>4, Zenon DEF radioVars
  <2>2. RadioInv => RadioInv'
    BY <2>1, IgnoredStep, Zenon DEF Ignored
  <2>3. (Searching => Searching') /\ (Asleep => Asleep') /\ (Tested => Tested')
    BY <2>1, ZenonT(60) DEF Searching, Asleep, Tested
  <2> QED
    BY <2>1, <2>2, <2>3, ZenonT(60) DEF DriverInv
<1> QED
  BY <1>1, <1>2, <1>3, <1>4, ZenonT(60) DEF RadioNext

(* The radio after its initialisation. *)
LEMMA RadioInvInit ==
    ASSUME RadioInit
    PROVE  RadioInv
<1>1. settings \in SettingsRecord /\ chip \in ChipRecord /\ outcome \in [reports : Nat, whole : BOOLEAN]
  <2>1. 0 \in Nat /\ 1 \in Nat /\ <<>> \in Seq(Nat)
    BY EmptySeq, SMT
  <2>2. settings \in SettingsRecord
    BY <2>1, Zenon DEF RadioInit, SettingsRecord, States, Modems
  <2>3. chip \in ChipRecord
    BY <2>1, Zenon DEF RadioInit, ChipRecord, Modes, Phases
  <2>4. outcome \in [reports : Nat, whole : BOOLEAN]
    BY <2>1, Zenon DEF RadioInit
  <2> QED
    BY <2>2, <2>3, <2>4, Zenon
<1>2. /\ settings.State = "RF_IDLE" /\ settings.Timers = {} /\ chip.mode = "sleep" /\ chip.fifo = <<>>
      /\ outcome.reports = 1 /\ outcome.whole /\ dio = {}
  BY Zenon DEF RadioInit
<1>3. /\ settings.State # "RF_TX_RUNNING" /\ settings.State # "RF_RX_RUNNING"
  BY <1>2, Zenon
<1>4. OneReport
  BY <1>2, SMT DEF OneReport
<1> QED
  BY <1>1, <1>2, <1>3, <1>4, ZenonT(60) DEF RadioInv, NoneWrong, LoraHasOneTimeout, IdleSleeps,
     SendsInOrder, ReceivesInOrder, LoraIsWhole

(* The invariant holds of every behaviour of the driver, for every FIFO,   *)
(* threshold and chunk size and every set of packet sizes.                 *)
THEOREM RadioSafe == RadioSpec => []DriverInv
<1>1. RadioInit => DriverInv
  BY RadioInvInit, Zenon DEF RadioInit, DriverInv
<1>2. DriverInv /\ [RadioNext]_radioVars => DriverInv'
  BY DriverInvStep
<1> QED
  BY <1>1, <1>2, PTL DEF RadioSpec

(* A request is ended by one callback (SX1272OnDio0Irq to SX1272OnDio4Irq  *)
(* against SX1272OnTimeoutIrq, whichever comes first), by two at most when *)
(* a DIO handler runs within SX1272OnTimeoutIrq; and none of the three     *)
(* timeouts outlives the request even then.                                *)
THEOREM ReportedOnce == RadioSpec => []RadioReportsOnce
<1>1. DriverInv => RadioReportsOnce
  <2> SUFFICES ASSUME DriverInv PROVE RadioReportsOnce
    OBVIOUS
  <2>1. CASE RadioInv
    <3>1. OneReport
      BY <2>1, Zenon DEF RadioInv
    <3> QED
      BY <3>1, Zenon DEF OneReport, RadioReportsOnce
  <2>2. CASE Searching
    <3>1. /\ settings.State = "RF_RX_RUNNING" /\ outcome.reports = 0
          /\ settings.Timers \subseteq {"RxTimeoutTimer", "RxTimeoutSyncWord"}
      BY <2>2, Zenon DEF Searching
    <3> QED
      BY <3>1, SMT DEF RadioReportsOnce
  <2>3. CASE Asleep /\ raced /\ outcome.reports \in {1, 2}
    <3>1. settings.State = "RF_IDLE" /\ settings.Timers = {}
      BY <2>3, Zenon DEF Asleep
    <3> QED
      BY <2>3, <3>1, SMT DEF RadioReportsOnce
  <2> QED
    BY <2>1, <2>2, <2>3, ZenonT(60) DEF DriverInv
<1> QED
  BY <1>1, RadioSafe, PTL

(* Every packet reported sent or received went through the FIFO byte by    *)
(* byte, in order and complete, whatever its size and whenever FifoLevel   *)
(* and FifoEmpty are served within DioLatency, unless a DIO handler ran    *)
(* within SX1272OnTimeoutIrq.                                              *)
THEOREM PacketsWhole == RadioSpec => []PacketsAreWhole
<1>1. DriverInv => PacketsAreWhole
  BY ZenonT(60) DEF DriverInv, RadioInv, NoneWrong, Searching, PacketsAreWhole
<1> QED
  BY <1>1, RadioSafe, PTL

(* In FSK mode the FIFO never holds more than FifoSize bytes. *)
LEMMA FifoHolds ==
    ASSUME RadioInv
    PROVE  Len(chip.fifo) <= FifoSize \/ settings.Modem = "LORA"
<1>1. /\ FifoSize \in Nat /\ FifoThresh \in Nat /\ DioLatency \in Nat
      /\ 2 * FifoThresh <= FifoSize /\ DioLatency < FifoThresh
  BY SX1272Assumption, SMT
<1>2. /\ settings.State \in States /\ settings.Modem \in Modems /\ chip.phase \in Phases
      /\ Len(chip.fifo) \in Nat
  <2>1. chip \in ChipRecord /\ settings \in SettingsRecord
    BY Zenon DEF RadioInv
  <2> QED
    BY <2>1, SettingsFields, ChipFields, LenProperties, ZenonT(60)
<1>3. chip.fifo = <<>> => Len(chip.fifo) <= FifoSize
  <2>1. chip.fifo = <<>> => Len(chip.fifo) = 0
    BY EmptySeq, Zenon
  <2> QED
    BY <1>1, <2>1, SMT
<1>4. CASE settings.State = "RF_IDLE"
  BY <1>3, <1>4, Zenon DEF RadioInv, IdleSleeps
<1>5. CASE settings.State = "RF_TX_RUNNING" /\ settings.Modem = "FSK"
  BY <1>5, SendFacts, Zenon
<1>6. CASE settings.State = "RF_RX_RUNNING" /\ settings.Modem = "FSK"
  <2>1. CASE chip.phase \in {"packet", "received"}
    <3>1. /\ (1 \in dio => Len(chip.fifo) <= FifoThresh + DioLatency + 1)
          /\ (1 \notin dio => Len(chip.fifo) <= FifoThresh)
      <4>1. Arriving
        BY <1>6, <2>1, ZenonT(60) DEF Arriving
      <4> QED
        BY <4>1, ArrivingFacts, Zenon
    <3>2. CASE 1 \in dio
      BY <1>1, <1>2, <3>1, <3>2, SMTT(60)
    <3>3. CASE 1 \notin dio
      BY <1>1, <1>2, <3>1, <3>3, SMTT(60)
    <3> QED
      BY <3>2, <3>3, Zenon
  <2>2. CASE chip.phase \in {"silent", "preamble"}
    BY <1>3, <1>6, <2>2, ZenonT(60) DEF RadioInv, ReceivesInOrder
  <2> QED
    BY <1>2, <2>1, <2>2, ZenonT(60) DEF Phases
<1> QED
  BY <1>2, <1>4, <1>5, <1>6, ZenonT(60) DEF States, Modems

(* The types of the driver's state; in FSK mode the FIFO of the chip is    *)
(* not overrun, neither by bytes the driver leaves in it nor by the chunks *)
(* it adds, except while a timeout has just forgotten the packet.          *)
THEOREM RadioTypeCorrect == RadioSpec => []RadioTypeOK
<1>1. DriverInv => RadioTypeOK
  <2> SUFFICES ASSUME DriverInv PROVE RadioTypeOK
    OBVIOUS
  <2>1. /\ settings \in SettingsRecord /\ chip \in ChipRecord /\ dio \subseteq {0, 1, 2, 4}
        /\ timeoutIrq \in {"none", "forget", "search", "report"} /\ raced \in BOOLEAN
    BY ZenonT(60) DEF DriverInv, RadioInv, Searching, Asleep
  <2>2. chip.mode \in Modes
    BY <2>1, ChipFields, Zenon
  <2>3. Len(chip.fifo) <= FifoSize \/ settings.Modem = "LORA" \/ timeoutIrq = "search"
    <3>1. CASE RadioInv
      BY <3>1, FifoHolds, Zenon
    <3>2. CASE Asleep
      <4>1. Len(chip.fifo) = 0
        BY <3>2, EmptySeq, Zenon DEF Asleep
      <4>2. FifoSize \in Nat
        BY SX1272Assumption, SMT
      <4>3. Len(chip.fifo) <= FifoSize
        BY <4>1, <4>2, SMT
      <4> QED
        BY <4>3, Zenon
    <3> QED
      BY <3>1, <3>2, ZenonT(60) DEF DriverInv
  <2> QED
    BY <2>1, <2>2, <2>3, Zenon DEF RadioTypeOK, SettingsRecord, States, Modems, AllTimers, Modes
<1> QED
  BY <1>1, RadioSafe, PTL

=============================================================================
