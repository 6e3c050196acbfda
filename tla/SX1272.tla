------------------------------- MODULE SX1272 --------------------------------
(***************************************************************************)
(* The radio driver (sx1272.c) as a class A MAC uses it: one transmission  *)
(* or one single reception at a time, each ended by a DIO interrupt of the *)
(* chip or by one of the driver's three timeouts, and FSK packets that are *)
(* larger than the chip's FIFO passed through it in pieces.                *)
(*                                                                         *)
(* Every MAC callback begins with Radio.Sleep (LoRaMac.c, class A), which  *)
(* is part of the handler that calls it.  The chip and the air are         *)
(* external: bytes arrive and leave one at a time, and the edges of the    *)
(* DIO lines wait until their handlers run.  DIO interrupts have a higher  *)
(* priority than the RTC interrupt, so an edge that rises while a timeout  *)
(* is handled is served in the middle of that.                             *)
(***************************************************************************)
EXTENDS Integers, Sequences

CONSTANTS FifoSize,     \* bytes the chip's FIFO holds (64)
          Chunk,        \* bytes the driver refills it with (32)
          FifoThresh,   \* FifoLevel rises above this fill (15)
          DioLatency,   \* bytes that may arrive before a FifoLevel edge is served
          PacketSizes   \* sizes of the packets on the air

ASSUME SX1272Assumption ==
    /\ {FifoSize, Chunk, FifoThresh, DioLatency} \subseteq Nat \ {0}
    /\ Chunk < FifoSize /\ 2 * FifoThresh <= FifoSize
    /\ DioLatency < FifoThresh  \* else FifoLevel stays high and rises no more
    /\ PacketSizes \subseteq Nat \ {0}

VARIABLES settings,    \* SX1272.Settings, RxTxBuffer and the running timeouts
          chip,        \* external: the chip's mode, FIFO and air side
          dio,         \* external: the edges of DIO lines not served yet
          timeoutIrq,  \* what SX1272OnTimeoutIrq does next, when it runs
          outcome,     \* history: what the MAC was told of its last request
          raced        \* history: a DIO handler ran within SX1272OnTimeoutIrq

radioVars == <<settings, chip, dio, timeoutIrq, outcome, raced>>

(* The bytes of a packet are numbered; FSK sends the size before them. *)
Packet(n) == [i \in 1..n |-> i]
OnAir(n)  == <<n>> \o Packet(n)

RadioInit ==
    /\ settings = [State |-> "RF_IDLE", Modem |-> "FSK", Timers |-> {}, Size |-> 0, NbBytes |-> 0,
                   ChunkSize |-> 0, PreambleDetected |-> FALSE, SyncWordDetected |-> FALSE,
                   RxTxBuffer |-> <<>>]
    /\ chip = [mode |-> "sleep", phase |-> "silent", fifo |-> <<>>, air |-> <<>>,
               packet |-> <<>>, crc |-> TRUE]
    /\ dio = {}
    /\ timeoutIrq = "none"
    /\ outcome = [reports |-> 1, whole |-> TRUE]
    /\ raced = FALSE
-----------------------------------------------------------------------------
(***************************************************************************)
(* Requests of the MAC.  DIO interrupts have a higher priority than the    *)
(* code that makes a request, so no edge is waiting when it is made; the   *)
(* requests of the MAC's timers wait for the end of SX1272OnTimeoutIrq.    *)
(***************************************************************************)
SX1272SetSleep(s) == [s EXCEPT !.State = "RF_IDLE", !.Timers = @ \ {"RxTimeoutTimer", "TxTimeoutTimer"}]

ForgetPacket(s) == [s EXCEPT !.PreambleDetected = FALSE, !.SyncWordDetected = FALSE,
                             !.Size = 0, !.NbBytes = 0]

Requested == /\ settings.State = "RF_IDLE" /\ dio = {} /\ timeoutIrq = "none"
             /\ outcome' = [reports |-> 0, whole |-> TRUE]
             /\ raced' = FALSE
             /\ UNCHANGED <<dio, timeoutIrq>>

(* Radio.SetTxConfig and SX1272Send: a packet that does not fit the FIFO   *)
(* is kept in RxTxBuffer and only its first chunk written.  The size byte  *)
(* is written before the chunk, so a packet of just FifoSize bytes does    *)
(* not fit although the driver takes it to: the chip drops the last byte.  *)
FirstChunk(n) == IF n <= FifoSize THEN n ELSE Chunk

FitsFifo(k) == IF k < FifoSize THEN k ELSE FifoSize - 1

SX1272Send(modem, n) ==
    /\ Requested
    /\ settings' = [settings EXCEPT
          !.State = "RF_TX_RUNNING", !.Modem = modem, !.Timers = @ \cup {"TxTimeoutTimer"},
          !.Size = IF modem = "FSK" THEN n ELSE @,
          !.NbBytes = IF modem = "FSK" THEN FirstChunk(n) ELSE @,
          !.ChunkSize = IF modem = "FSK" THEN FirstChunk(n) ELSE @,
          !.RxTxBuffer = IF modem = "FSK" /\ n > FifoSize THEN Packet(n) ELSE @]
    /\ chip' = [chip EXCEPT !.mode = "transmitter", !.air = <<>>, !.packet = Packet(n),
                            !.fifo = IF modem = "FSK" THEN <<n>> \o Packet(FitsFifo(FirstChunk(n)))
                                                      ELSE Packet(n)]

BugRxNotTimed(modem) == IF modem = "FSK" THEN {"RxTimeoutSyncWord"} ELSE {}

RxTimeouts(modem) ==
    IF modem = "FSK" THEN {"RxTimeoutTimer", "RxTimeoutSyncWord"} ELSE {"RxTimeoutTimer"}

(* RxWindowSetup and SX1272SetRx(MaxRxWindow), not continuous. *)
SX1272SetRx(modem) ==
    /\ Requested
    /\ LET s == IF modem = "FSK" THEN ForgetPacket(settings) ELSE settings
       IN settings' = [s EXCEPT !.State = "RF_RX_RUNNING", !.Modem = modem, !.RxTxBuffer = <<>>,
              !.Timers = @ \cup RxTimeouts(modem)]
    /\ chip' = [chip EXCEPT !.mode = "receiver", !.phase = "silent", !.fifo = <<>>, !.air = <<>>]
-----------------------------------------------------------------------------
(***************************************************************************)
(* The chip.  In LoRa mode it holds a whole packet and goes to standby by  *)
(* itself; in FSK mode it passes bytes, FifoLevel and FifoEmpty being DIO1.*)
(***************************************************************************)
ChipLora(mode, edge, c) ==
    /\ chip.mode = mode /\ settings.Modem = "LORA"
    /\ chip' = [c EXCEPT !.mode = "standby"]
    /\ dio' = dio \cup {edge}
    /\ UNCHANGED <<settings, timeoutIrq, outcome, raced>>

LoraTxDone         == ChipLora("transmitter", 0, [chip EXCEPT !.air = chip.fifo])
LoraRxDone(n, crc) == ChipLora("receiver", 0, [chip EXCEPT !.fifo = Packet(n), !.packet = Packet(n), !.crc = crc])
LoraRxTimeout      == ChipLora("receiver", 1, chip)

FskByteSent ==
    /\ chip.mode = "transmitter" /\ settings.Modem = "FSK" /\ chip.fifo # <<>>
    /\ chip' = [chip EXCEPT !.fifo = Tail(@), !.air = Append(@, Head(chip.fifo))]
    /\ dio' = dio \cup (IF Len(chip.fifo) = 1 THEN {1} ELSE {})
                  \cup (IF Len(chip.air) = Len(chip.packet) THEN {0} ELSE {})
    /\ UNCHANGED <<settings, timeoutIrq, outcome, raced>>

FskHears == /\ chip.mode = "receiver" /\ settings.Modem = "FSK"
            /\ UNCHANGED <<settings, timeoutIrq, outcome, raced>>

FskPreamble ==
    /\ FskHears /\ chip.phase = "silent"
    /\ chip' = [chip EXCEPT !.phase = "preamble"]
    /\ dio' = dio \cup {4}

FskSyncWord(n) ==
    /\ FskHears /\ chip.phase = "preamble"
    /\ chip' = [chip EXCEPT !.phase = "packet", !.air = OnAir(n), !.packet = Packet(n)]
    /\ dio' = dio \cup {2}

FskByteReceived(crc) ==
    /\ FskHears /\ chip.phase = "packet"
    /\ 1 \in dio => Len(chip.fifo) <= FifoThresh + DioLatency
    /\ Len(chip.air) > 1 => crc
    /\ chip' = [chip EXCEPT !.fifo = Append(@, Head(chip.air)), !.air = Tail(@), !.crc = crc,
                            !.phase = IF Len(chip.air) = 1 THEN "received" ELSE @]
    /\ dio' = dio \cup (IF Len(chip.fifo) = FifoThresh THEN {1} ELSE {})
                  \cup (IF Len(chip.air) = 1 THEN {0} ELSE {})
-----------------------------------------------------------------------------
(***************************************************************************)
(* The interrupt handlers.  A read of more bytes than the FIFO holds       *)
(* yields zeroes.                                                          *)
(***************************************************************************)
FromFifo(k)  == [i \in 1..k |-> IF i <= Len(chip.fifo) THEN chip.fifo[i] ELSE 0]
FifoAfter(k) == SubSeq(chip.fifo, k + 1, Len(chip.fifo))

(* A callback of the MAC, which puts the radio to sleep. *)
Report(s, right) ==
    /\ settings' = SX1272SetSleep(s)
    /\ chip' = [chip EXCEPT !.mode = "sleep", !.phase = "silent", !.fifo = <<>>, !.air = <<>>,
                            !.packet = <<>>, !.crc = TRUE]
    /\ outcome' = [reports |-> outcome.reports + 1, whole |-> outcome.whole /\ right]

Ignored == UNCHANGED <<settings, chip, outcome>>

(* The size byte is read first unless DIO1 has read it before. *)
SizeRead(s) ==
    IF s.Size = 0 /\ s.NbBytes = 0
    THEN [size |-> Head(FromFifo(1)), from |-> 1] ELSE [size |-> s.Size, from |-> 0]

(* s with the bytes of the packet up to NbBytes + k read into RxTxBuffer. *)
BytesRead(s, k) ==
    LET r == SizeRead(s) IN
    [s EXCEPT !.Size = r.size, !.NbBytes = @ + k,
              !.RxTxBuffer = SubSeq(@, 1, s.NbBytes) \o SubSeq(FromFifo(r.from + k), r.from + 1, r.from + k)]

(* A single reception ends with its timeouts; SX1272SetSleep would not     *)
(* stop the second.                                                        *)
BugSyncWordNotStopped(s) == [s EXCEPT !.State = "RF_IDLE", !.Timers = @ \ {"RxTimeoutTimer"}]

EndOfRx(s) == [s EXCEPT !.State = "RF_IDLE", !.Timers = @ \ {"RxTimeoutTimer", "RxTimeoutSyncWord"}]

RxDoneFsk ==
    LET r == SizeRead(settings)
        s == BytesRead(settings, r.size - settings.NbBytes)
    IN IF chip.crc THEN Report(ForgetPacket(EndOfRx(s)), s.RxTxBuffer = chip.packet)
                   ELSE Report(ForgetPacket(EndOfRx(settings)), TRUE)

RxDoneLora ==
    LET s == [settings EXCEPT !.State = "RF_IDLE", !.Timers = @ \ {"RxTimeoutTimer"}]
    IN IF chip.crc THEN Report([s EXCEPT !.RxTxBuffer = chip.fifo], chip.fifo = chip.packet)
                   ELSE Report(s, TRUE)

TxDone ==
    Report([settings EXCEPT !.State = "RF_IDLE", !.Timers = @ \ {"TxTimeoutTimer"}],
           chip.air = IF settings.Modem = "FSK" THEN OnAir(Len(chip.packet)) ELSE chip.packet)

SX1272OnDio0Irq ==
    \/ settings.State = "RF_RX_RUNNING" /\ settings.Modem = "FSK" /\ RxDoneFsk
    \/ settings.State = "RF_RX_RUNNING" /\ settings.Modem = "LORA" /\ RxDoneLora
    \/ settings.State = "RF_TX_RUNNING" /\ TxDone
    \/ settings.State = "RF_IDLE" /\ Ignored

BugReadsOneMore ==
    LET r == SizeRead(settings)
        k == IF r.size - settings.NbBytes >= FifoThresh THEN FifoThresh + 1 ELSE r.size - settings.NbBytes
    IN /\ settings' = BytesRead(settings, k)
       /\ chip' = [chip EXCEPT !.fifo = FifoAfter(r.from + k)]
       /\ UNCHANGED outcome

(* FifoLevel while an FSK packet arrives: FifoThresh bytes, or the rest. *)
FifoLevel ==
    LET r == SizeRead(settings)
        k == IF r.size - settings.NbBytes > FifoThresh THEN FifoThresh ELSE r.size - settings.NbBytes
    IN /\ settings' = BytesRead(settings, k)
       /\ chip' = [chip EXCEPT !.fifo = FifoAfter(r.from + k)]
       /\ UNCHANGED outcome

(* FifoEmpty while one is sent: the next chunk, or the rest. *)
FifoEmpty ==
    LET rest == settings.Size - settings.NbBytes
        k == IF rest > settings.ChunkSize THEN settings.ChunkSize ELSE rest
    IN /\ settings' = [settings EXCEPT !.NbBytes = @ + k]
       /\ chip' = [chip EXCEPT !.fifo = @ \o SubSeq(settings.RxTxBuffer, settings.NbBytes + 1,
                                                     settings.NbBytes + k)]
       /\ UNCHANGED outcome

SX1272OnDio1Irq ==
    \/ settings.State = "RF_RX_RUNNING" /\ settings.Modem = "FSK" /\ FifoLevel
    \/ /\ settings.State = "RF_RX_RUNNING" /\ settings.Modem = "LORA"
       /\ Report([settings EXCEPT !.State = "RF_IDLE", !.Timers = @ \ {"RxTimeoutTimer"}], TRUE)
    \/ settings.State = "RF_TX_RUNNING" /\ settings.Modem = "FSK" /\ FifoEmpty
    \/ settings.State = "RF_IDLE" /\ Ignored

SX1272OnDio2Irq ==
    IF /\ settings.State = "RF_RX_RUNNING" /\ settings.Modem = "FSK"
       /\ settings.PreambleDetected /\ ~settings.SyncWordDetected
    THEN /\ settings' = [settings EXCEPT !.Timers = @ \ {"RxTimeoutSyncWord"}, !.SyncWordDetected = TRUE]
         /\ UNCHANGED <<chip, outcome>>
    ELSE Ignored

SX1272OnDio4Irq ==
    /\ settings' = [settings EXCEPT !.PreambleDetected = @ \/ settings.Modem = "FSK"]
    /\ UNCHANGED <<chip, outcome>>

(***************************************************************************)
(* SX1272OnTimeoutIrq: it tests State, forgets the FSK packet that was     *)
(* arriving, and ends the request, a DIO handler coming between wherever   *)
(* an edge rises.  What it reads again after that it has tested before.    *)
(***************************************************************************)
SX1272OnTimeoutIrq(t) ==
    /\ t \in settings.Timers /\ timeoutIrq = "none" /\ dio = {}
    /\ settings' = [settings EXCEPT !.Timers = @ \ {t}]
    /\ timeoutIrq' = CASE settings.State = "RF_IDLE" -> "none"
                       [] settings.State = "RF_RX_RUNNING" /\ settings.Modem = "FSK" -> "forget"
                       [] OTHER -> "report"
    /\ UNCHANGED <<chip, dio, outcome, raced>>

TimeoutForgets ==
    /\ timeoutIrq = "forget" /\ dio = {}
    /\ settings' = ForgetPacket(settings)
    /\ timeoutIrq' = "search"
    /\ UNCHANGED <<chip, dio, outcome, raced>>

EndOfSearch(s) == [s EXCEPT !.State = "RF_IDLE", !.Timers = @ \ {"RxTimeoutSyncWord"}]

TimeoutReports ==
    /\ timeoutIrq \in {"search", "report"} /\ dio = {}
    /\ Report(IF timeoutIrq = "search" THEN EndOfSearch(settings) ELSE settings, TRUE)
    /\ timeoutIrq' = "none"
    /\ UNCHANGED <<dio, raced>>
-----------------------------------------------------------------------------
DioIrq ==
    /\ raced' = (raced \/ timeoutIrq # "none")
    /\ UNCHANGED timeoutIrq
    /\ \/ 0 \in dio /\ dio' = dio \ {0} /\ SX1272OnDio0Irq
       \/ 1 \in dio /\ dio' = dio \ {1} /\ SX1272OnDio1Irq
       \/ 2 \in dio /\ dio' = dio \ {2} /\ SX1272OnDio2Irq
       \/ 4 \in dio /\ dio' = dio \ {4} /\ SX1272OnDio4Irq

Timeout == (\E t \in settings.Timers : SX1272OnTimeoutIrq(t)) \/ TimeoutForgets \/ TimeoutReports

ChipStep ==
    \/ LoraTxDone \/ LoraRxTimeout \/ FskByteSent \/ FskPreamble
    \/ \E n \in PacketSizes : FskSyncWord(n) \/ \E crc \in BOOLEAN : LoraRxDone(n, crc)
    \/ \E crc \in BOOLEAN : FskByteReceived(crc)

RadioNext ==
    \/ \E modem \in {"FSK", "LORA"} : SX1272SetRx(modem) \/ \E n \in PacketSizes : SX1272Send(modem, n)
    \/ ChipStep \/ DioIrq \/ Timeout

(* Interrupts are served and timeouts expire; the chip promises nothing. *)
RadioFairness == WF_radioVars(DioIrq) /\ WF_radioVars(Timeout)

RadioSpec == RadioInit /\ [][RadioNext]_radioVars /\ RadioFairness
-----------------------------------------------------------------------------
(***************************************************************************)
(* Properties.                                                             *)
(***************************************************************************)
(* The types; and while FSK is used the FIFO of the chip overruns neither  *)
(* by what the driver leaves unread nor by what it adds to a packet, a     *)
(* timeout that has just forgotten the packet apart.                       *)
RadioTypeOK ==
    /\ settings \in [State : {"RF_IDLE", "RF_RX_RUNNING", "RF_TX_RUNNING"}, Modem : {"FSK", "LORA"},
                     Timers : SUBSET {"TxTimeoutTimer", "RxTimeoutTimer", "RxTimeoutSyncWord"},
                     Size : Nat, NbBytes : Nat, ChunkSize : Nat,
                     PreambleDetected : BOOLEAN, SyncWordDetected : BOOLEAN, RxTxBuffer : Seq(Nat)]
    /\ chip.mode \in {"sleep", "standby", "transmitter", "receiver"}
    /\ Len(chip.fifo) <= FifoSize \/ settings.Modem = "LORA" \/ timeoutIrq = "search"
    /\ dio \subseteq {0, 1, 2, 4}
    /\ timeoutIrq \in {"none", "forget", "search", "report"}
    /\ raced \in BOOLEAN

(* One callback ends a request: while the driver is busy it has told the   *)
(* MAC nothing, afterwards one thing, whichever of the DIO edges and of    *)
(* the three timeouts came first and whatever came late.  The exception is *)
(* an edge within SX1272OnTimeoutIrq, after its test of State: then the    *)
(* MAC may be told twice, never more.  In either case no timeout outlives  *)
(* its request, where it could end the next one.                           *)
RadioReportsOnce ==
    /\ settings.State # "RF_IDLE" => outcome.reports = 0
    /\ settings.State = "RF_IDLE" => outcome.reports = 1 \/ (outcome.reports = 2 /\ raced)
    /\ settings.Timers \subseteq CASE settings.State = "RF_IDLE" -> {}
                                   [] settings.State = "RF_TX_RUNNING" -> {"TxTimeoutTimer"}
                                   [] settings.State = "RF_RX_RUNNING" -> {"RxTimeoutTimer", "RxTimeoutSyncWord"}

(* A packet that was reported sent or received went through the FIFO       *)
(* whole: no byte lost, repeated or out of place, for every size (one of   *)
(* just FifoSize bytes is never reported sent) and every delay of the      *)
(* interrupts within DioLatency.  The exception is again an edge within    *)
(* SX1272OnTimeoutIrq, which has forgotten how much of the packet is read. *)
PacketsAreWhole == outcome.whole \/ raced

(* Every request is reported in the end, even when the chip stays silent   *)
(* or an edge is lost to a sleeping radio: the timeouts see to it.         *)
RadioAlwaysReports == []<>(settings.State = "RF_IDLE")
-----------------------------------------------------------------------------
(***************************************************************************)
(* What makes the safety properties inductive.                             *)
(***************************************************************************)

(* s is a piece of a packet of n bytes on the air, after its first p: the  *)
(* size byte, then the numbered bytes.                                     *)
Piece(s, n, p) ==
    /\ s \in Seq(Nat)
    /\ \A i \in 1..Len(s) : s[i] = IF p + i = 1 THEN n ELSE p + i - 1

(* A single LoRa reception has no sync word to wait for. *)
LoraHasOneTimeout ==
    settings.State = "RF_RX_RUNNING" /\ settings.Modem = "LORA" =>
        "RxTimeoutSyncWord" \notin settings.Timers

(* An idle driver has put the chip to sleep: the edges that still wait are *)
(* ignored.                                                                *)
IdleSleeps == settings.State = "RF_IDLE" => chip.mode = "sleep" /\ chip.fifo = <<>>

(* FSK, sending: what is on the air and what is in the FIFO are two pieces *)
(* of the packet, one after the other; the rest is in RxTxBuffer.  Of a    *)
(* packet of FifoSize bytes the last one is missing.                       *)
SendsInOrder ==
    settings.State = "RF_TX_RUNNING" /\ settings.Modem = "FSK" =>
        LET n == settings.Size IN
        /\ chip.mode = "transmitter" /\ chip.packet = Packet(n)
        /\ settings.NbBytes <= n /\ settings.ChunkSize <= FifoSize
        /\ settings.NbBytes < n => settings.RxTxBuffer = Packet(n)
        /\ Piece(chip.air, n, 0) /\ Piece(chip.fifo, n, Len(chip.air))
        /\ Len(chip.air) + Len(chip.fifo) = settings.NbBytes + IF n = FifoSize THEN 0 ELSE 1
        /\ n = FifoSize => settings.NbBytes = n
        /\ Len(chip.fifo) <= FifoSize
        /\ 1 \in dio => chip.fifo = <<>>
        /\ 0 \in dio => Len(chip.air) = n + 1

(* FSK, receiving: what was read, what is in the FIFO and what is still on *)
(* the air are three pieces of the packet, one after the other; FifoLevel  *)
(* waits just when the FIFO holds more than the threshold.                 *)
ReceivesInOrder ==
    settings.State = "RF_RX_RUNNING" /\ settings.Modem = "FSK" =>
        LET n == Len(chip.packet)
            p == settings.NbBytes + IF settings.Size = 0 THEN 0 ELSE 1
        IN
        /\ chip.mode = "receiver"
        /\ settings.Size = 0 => settings.NbBytes = 0
        /\ chip.phase \in {"silent", "preamble"} =>
              /\ chip.fifo = <<>> /\ settings.Size = 0 /\ settings.RxTxBuffer = <<>>
              /\ 0 \notin dio /\ 1 \notin dio
        /\ chip.phase \in {"packet", "received"} =>
              /\ n > 0 /\ chip.packet = Packet(n) /\ settings.Size \in {0, n}
              /\ Piece(settings.RxTxBuffer, n, 1) /\ Len(settings.RxTxBuffer) = settings.NbBytes
              /\ Piece(chip.fifo, n, p) /\ Piece(chip.air, n, p + Len(chip.fifo))
              /\ p + Len(chip.fifo) + Len(chip.air) = n + 1
              /\ chip.phase = "received" <=> chip.air = <<>>
              /\ 0 \in dio => chip.phase = "received"
              /\ IF 1 \in dio THEN FifoThresh < Len(chip.fifo) /\ Len(chip.fifo) <= FifoThresh + DioLatency + 1
                              ELSE Len(chip.fifo) <= FifoThresh

(* LoRa: DIO0 rises when the chip holds, or has sent, the whole packet. *)
LoraIsWhole ==
    settings.State # "RF_IDLE" /\ settings.Modem = "LORA" =>
        /\ settings.State = "RF_TX_RUNNING" =>
              /\ chip.mode = "transmitter" => chip.fifo = chip.packet /\ dio = {}
              /\ 0 \in dio => chip.air = chip.packet
              /\ chip.mode \in {"transmitter", "standby"}
        /\ settings.State = "RF_RX_RUNNING" =>
              /\ chip.mode = "receiver" => dio = {}
              /\ 0 \in dio => chip.fifo = chip.packet
              /\ chip.mode \in {"receiver", "standby"}
=============================================================================
