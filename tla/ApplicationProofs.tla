-------------------------- MODULE ApplicationProofs --------------------------
(***************************************************************************)
(* Proofs about the application: the handshake of flags, timer and MAC     *)
(* callbacks loses no wake-up, every frame is reported, and a personalised *)
(* device sends the frame it prepared.  They rest on one invariant,        *)
(* AppInv: beside the properties themselves, that a MAC at work has a      *)
(* request to confirm (BusyIsPending) and that one thing at a time brings  *)
(* the next transmission about (OneTurn).                                  *)
(*                                                                         *)
(* The lemmas go from the callbacks, as functions of the shared memory, to *)
(* the outcome of a state check, and from there to the actions.            *)
(***************************************************************************)
EXTENDS Application, TLAPS

(* The values of EventFlags within a callback. *)
Flags == SUBSET {"Tx", "Rx", "RxData", "JoinAccept", "LinkCheck"}

(* What a callback of the MAC is handed. *)
Received == [port : 0..255, cmd : States, enable : BOOLEAN, off : BOOLEAN]

(* The fields that only MacEvent and the main loop write. *)
SameFlags(a, b) ==
    /\ b.IsNetworkJoined = a.IsNetworkJoined /\ b.TxNextPacket = a.TxNextPacket
    /\ b.ScheduleNextTx = a.ScheduleNextTx
    /\ b.EventFlags = a.EventFlags /\ b.TxSeen = a.TxSeen

(* The fields only the compliance test and SendFrame look at. *)
SameTest(a, b) ==
    b.Running = a.Running /\ b.AppPort = a.AppPort /\ b.IsTxConfirmed = a.IsTxConfirmed

-----------------------------------------------------------------------------
(***************************************************************************)
(* The callbacks.                                                          *)
(***************************************************************************)

(* ComplianceTest, its start: the assignments keep every field in its      *)
(* type.                                                                   *)
LEMMA TestStarts ==
    ASSUME NEW F, NEW a \in AppRecord(F), NEW c \in BOOLEAN, NEW p \in {10, 224},
           NEW z \in Sizes, NEW l \in BOOLEAN, NEW r \in BOOLEAN, NEW s \in States
    PROVE  [a EXCEPT !.IsTxConfirmed = c, !.AppPort = p, !.AppDataSize = z, !.LinkCheck = l,
            !.Running = r, !.State = s] \in AppRecord(F)
  BY ZenonT(180) DEF AppRecord

(* ComplianceTest case 0, its end. *)
LEMMA TestEnds ==
    ASSUME NEW F, NEW a \in AppRecord(F), NEW c \in BOOLEAN, NEW p \in {10, 224},
           NEW s \in States, NEW z \in Sizes, NEW r \in BOOLEAN
    PROVE  [a EXCEPT !.IsTxConfirmed = c, !.AppPort = p, !.State = s, !.AppDataSize = z,
            !.Running = r] \in AppRecord(F)
  BY ZenonT(60) DEF AppRecord

(* ComplianceTest case 1. *)
LEMMA TestCounts ==
    ASSUME NEW F, NEW a \in AppRecord(F), NEW z \in Sizes, NEW s \in States
    PROVE  /\ [a EXCEPT !.AppDataSize = z, !.State = s] \in AppRecord(F)
           /\ SameFlags(a, [a EXCEPT !.AppDataSize = z, !.State = s])
<1>1. [a EXCEPT !.AppDataSize = z, !.State = s] \in AppRecord(F)
  BY ZenonT(60) DEF AppRecord
<1>2. SameFlags(a, [a EXCEPT !.AppDataSize = z, !.State = s])
  BY Zenon DEF AppRecord, SameFlags, SameTest
<1> QED
  BY <1>1, <1>2

(* ComplianceTest cases 2 and 3. *)
LEMMA TestConfirms ==
    ASSUME NEW F, NEW a \in AppRecord(F), NEW c \in BOOLEAN, NEW s \in States
    PROVE  /\ [a EXCEPT !.IsTxConfirmed = c, !.State = s] \in AppRecord(F)
           /\ SameFlags(a, [a EXCEPT !.IsTxConfirmed = c, !.State = s])
<1>1. [a EXCEPT !.IsTxConfirmed = c, !.State = s] \in AppRecord(F)
  BY ZenonT(180) DEF AppRecord
<1>2. SameFlags(a, [a EXCEPT !.IsTxConfirmed = c, !.State = s])
  BY Zenon DEF AppRecord, SameFlags, SameTest
<1> QED
  BY <1>1, <1>2

(* ComplianceTest case 4. *)
LEMMA TestEchoes ==
    ASSUME NEW F, NEW a \in AppRecord(F), NEW z \in Sizes, NEW x \in Content, NEW s \in States
    PROVE  /\ [a EXCEPT !.AppDataSize = z, !.AppData = x, !.State = s] \in AppRecord(F)
           /\ SameFlags(a, [a EXCEPT !.AppDataSize = z, !.AppData = x, !.State = s])
<1>1. [a EXCEPT !.AppDataSize = z, !.AppData = x, !.State = s] \in AppRecord(F)
  BY ZenonT(180) DEF AppRecord
<1>2. SameFlags(a, [a EXCEPT !.AppDataSize = z, !.AppData = x, !.State = s])
  BY Zenon DEF AppRecord, SameFlags, SameTest
<1> QED
  BY <1>1, <1>2

(* ComplianceTest, any other command. *)
LEMMA TestSets ==
    ASSUME NEW F, NEW a \in AppRecord(F), NEW s \in States
    PROVE  /\ [a EXCEPT !.State = s] \in AppRecord(F)
           /\ SameFlags(a, [a EXCEPT !.State = s])
<1>1. [a EXCEPT !.State = s] \in AppRecord(F)
  BY ZenonT(180) DEF AppRecord
<1>2. SameFlags(a, [a EXCEPT !.State = s])
  BY Zenon DEF AppRecord, SameFlags, SameTest
<1> QED
  BY <1>1, <1>2

(* A received packet is copied to AppData. *)
LEMMA PacketCopied ==
    ASSUME NEW F, NEW a \in AppRecord(F), NEW x \in Content, NEW z \in Sizes
    PROVE  /\ [a EXCEPT !.AppData = x, !.AppDataSize = z] \in AppRecord(F)
           /\ SameFlags(a, [a EXCEPT !.AppData = x, !.AppDataSize = z])
           /\ SameTest(a, [a EXCEPT !.AppData = x, !.AppDataSize = z])
<1>1. [a EXCEPT !.AppData = x, !.AppDataSize = z] \in AppRecord(F)
  BY ZenonT(60) DEF AppRecord
<1>2. SameFlags(a, [a EXCEPT !.AppData = x, !.AppDataSize = z])
  BY Zenon DEF AppRecord, SameFlags, SameTest
<1>3. SameTest(a, [a EXCEPT !.AppData = x, !.AppDataSize = z])
  BY Zenon DEF AppRecord, SameFlags, SameTest
<1> QED
  BY <1>1, <1>2, <1>3

(* The answer to a link check is noted. *)
LEMMA CheckNoted ==
    ASSUME NEW F, NEW a \in AppRecord(F), NEW l \in BOOLEAN
    PROVE  /\ [a EXCEPT !.LinkCheck = l] \in AppRecord(F)
           /\ SameFlags(a, [a EXCEPT !.LinkCheck = l])
           /\ SameTest(a, [a EXCEPT !.LinkCheck = l])
<1>1. [a EXCEPT !.LinkCheck = l] \in AppRecord(F)
  BY ZenonT(60) DEF AppRecord
<1>2. SameFlags(a, [a EXCEPT !.LinkCheck = l])
  BY Zenon DEF AppRecord, SameFlags, SameTest
<1>3. SameTest(a, [a EXCEPT !.LinkCheck = l])
  BY Zenon DEF AppRecord, SameFlags, SameTest
<1> QED
  BY <1>1, <1>2, <1>3

(* OnMacEvent, its last assignments. *)
LEMMA EventMade ==
    ASSUME NEW F, NEW a \in AppRecord(F), NEW j \in BOOLEAN, NEW n \in BOOLEAN, NEW t \in BOOLEAN
    PROVE  [a EXCEPT !.IsNetworkJoined = j, !.ScheduleNextTx = n, !.TxSeen = t] \in AppRecord(F)
  BY ZenonT(180) DEF AppRecord

(* The values the code assigns are of the types of their fields. *)
LEMMA Values ==
    /\ {"none", "received", "counter", "margin", "echo", "coap", "default"} \subseteq Sizes
    /\ {"none", "received", "counter", "margin", "echo", "coap"} \subseteq Content
    /\ 0 \in States /\ 1 \in States /\ 4 \in States
    /\ 10 \in {10, 224} /\ 224 \in {10, 224}
    /\ TRUE \in BOOLEAN /\ FALSE \in BOOLEAN
<1>1. /\ {"none", "received", "counter", "margin", "echo", "coap", "default"} \subseteq Sizes
      /\ {"none", "received", "counter", "margin", "echo", "coap"} \subseteq Content
  BY Zenon DEF Sizes, Content
<1>2. 0 \in States /\ 1 \in States /\ 4 \in States
  BY SMT DEF States
<1>3. 10 \in {10, 224} /\ 224 \in {10, 224} /\ TRUE \in BOOLEAN /\ FALSE \in BOOLEAN
  OBVIOUS
<1> QED
  BY <1>1, <1>2, <1>3, Zenon

(* A received packet disturbs neither the flags nor the test. *)
LEMMA ReceivePacketType ==
    ASSUME NEW F, NEW a \in AppRecord(F), NEW dl
    PROVE  /\ ReceivePacket(a, dl) \in AppRecord(F)
           /\ SameFlags(a, ReceivePacket(a, dl)) /\ SameTest(a, ReceivePacket(a, dl))
<1>1. "received" \in Content /\ "received" \in Sizes
  BY Zenon DEF Content, Sizes
<1>2. CASE dl.port = 10
  <2>1. ReceivePacket(a, dl) = [a EXCEPT !.AppData = "received", !.AppDataSize = "received"]
    BY <1>2, Zenon DEF ReceivePacket
  <2>2. /\ [a EXCEPT !.AppData = "received", !.AppDataSize = "received"] \in AppRecord(F)
        /\ SameFlags(a, [a EXCEPT !.AppData = "received", !.AppDataSize = "received"])
        /\ SameTest(a, [a EXCEPT !.AppData = "received", !.AppDataSize = "received"])
    BY <1>1, PacketCopied, Zenon
  <2> QED
    BY <2>1, <2>2, Zenon
<1>3. CASE dl.port # 10
  BY <1>3, Zenon DEF ReceivePacket, SameFlags, SameTest
<1> QED
  BY <1>2, <1>3, Zenon

(* A command of the compliance test leaves the flags of the handshake      *)
(* alone; outside the test it changes nothing unless it starts it.         *)
LEMMA ComplianceCommandType ==
    ASSUME NEW F, NEW a \in AppRecord(F), NEW dl \in Received
    PROVE  /\ ComplianceCommand(a, dl) \in AppRecord(F)
           /\ SameFlags(a, ComplianceCommand(a, dl))
           /\ ~a.Running /\ ~ComplianceCommand(a, dl).Running => ComplianceCommand(a, dl) = a
<1> DEFINE b == ComplianceCommand(a, dl)
<1> HIDE DEF b
<1>1. b = ComplianceCommand(a, dl)
  BY DEF b
<1>2. dl.cmd \in States /\ (dl.cmd = 2) \in BOOLEAN
  BY Zenon DEF Received
<1>3. a.Running \in BOOLEAN
  BY Zenon DEF AppRecord
<1>4. "counter" \in Sizes /\ "default" \in Sizes /\ "echo" \in Sizes /\ "echo" \in Content
  BY Zenon DEF Content, Sizes
<1>5. CASE ~a.Running /\ ~dl.enable
  <2>1. b = a
    BY <1>1, <1>5, Zenon DEF ComplianceCommand
  <2> QED
    BY <1>1, <2>1, Zenon DEF SameFlags
<1>6. CASE ~a.Running /\ dl.enable
  <2>1. b = [a EXCEPT !.IsTxConfirmed = FALSE, !.AppPort = 224, !.AppDataSize = "counter",
                      !.LinkCheck = FALSE, !.Running = TRUE, !.State = 1]
    BY <1>1, <1>6, Zenon DEF ComplianceCommand
  <2>2. [a EXCEPT !.IsTxConfirmed = FALSE, !.AppPort = 224, !.AppDataSize = "counter",
                  !.LinkCheck = FALSE, !.Running = TRUE, !.State = 1] \in AppRecord(F)
    BY <1>4, Values, TestStarts, ZenonT(180)
  <2>3. SameFlags(a, b) /\ b.Running = TRUE
    BY <2>1, ZenonT(60) DEF AppRecord, SameFlags
  <2> QED
    BY <1>1, <2>1, <2>2, <2>3, ZenonT(60)
<1>7. CASE a.Running
  <2>1. \/ b = [a EXCEPT !.IsTxConfirmed = FALSE, !.AppPort = 10, !.State = 0,
                         !.AppDataSize = "default", !.Running = FALSE]
        \/ b = [a EXCEPT !.AppDataSize = "counter", !.State = 1]
        \/ b = [a EXCEPT !.IsTxConfirmed = (dl.cmd = 2), !.State = 1]
        \/ b = [a EXCEPT !.AppDataSize = "echo", !.AppData = "echo", !.State = 4]
        \/ b = [a EXCEPT !.State = dl.cmd]
    BY <1>1, <1>7, SMT DEF ComplianceCommand
  <2>2. b \in AppRecord(F) /\ SameFlags(a, b)
    <3>1. CASE b = [a EXCEPT !.IsTxConfirmed = FALSE, !.AppPort = 10, !.State = 0,
                             !.AppDataSize = "default", !.Running = FALSE]
      <4>1. [a EXCEPT !.IsTxConfirmed = FALSE, !.AppPort = 10, !.State = 0,
                      !.AppDataSize = "default", !.Running = FALSE] \in AppRecord(F)
        BY <1>4, Values, TestEnds, ZenonT(60)
      <4>2. SameFlags(a, b)
        BY <3>1, Zenon DEF AppRecord, SameFlags
      <4> QED
        BY <3>1, <4>1, <4>2, Zenon
    <3>2. CASE b = [a EXCEPT !.AppDataSize = "counter", !.State = 1]
      BY <1>4, <3>2, Values, TestCounts, Zenon
    <3>3. CASE b = [a EXCEPT !.IsTxConfirmed = (dl.cmd = 2), !.State = 1]
      BY <1>2, <3>3, Values, TestConfirms, Zenon
    <3>4. CASE b = [a EXCEPT !.AppDataSize = "echo", !.AppData = "echo", !.State = 4]
      BY <1>4, <3>4, Values, TestEchoes, Zenon
    <3>5. CASE b = [a EXCEPT !.State = dl.cmd]
      BY <1>2, <3>5, TestSets, Zenon
    <3> QED
      BY <2>1, <3>1, <3>2, <3>3, <3>4, <3>5, Zenon
  <2> QED
    BY <1>1, <1>7, <2>2, Zenon
<1> QED
  BY <1>3, <1>5, <1>6, <1>7, Zenon

(* The same for ProcessRxFrame. *)
LEMMA ProcessRxFrameType ==
    ASSUME NEW F, NEW a \in AppRecord(F), NEW dl \in Received
    PROVE  /\ ProcessRxFrame(a, dl) \in AppRecord(F)
           /\ SameFlags(a, ProcessRxFrame(a, dl))
           /\ ~a.Running /\ ~ProcessRxFrame(a, dl).Running => SameTest(a, ProcessRxFrame(a, dl))
<1> DEFINE r == ReceivePacket(a, dl)
           c == ComplianceCommand(r, dl)
<1>1. r \in AppRecord(F) /\ SameFlags(a, r) /\ SameTest(a, r)
  BY ReceivePacketType, Zenon
<1> HIDE DEF r
<1>2. c \in AppRecord(F) /\ SameFlags(r, c) /\ (~r.Running /\ ~c.Running => c = r)
  BY <1>1, ComplianceCommandType, Zenon
<1>3. ProcessRxFrame(a, dl) = IF dl.port \in {10, 224} THEN c ELSE a
  BY Zenon DEF ProcessRxFrame, r
<1> HIDE DEF c
<1>4. SameFlags(a, c) /\ (~a.Running /\ ~c.Running => SameTest(a, c))
  BY <1>1, <1>2, Zenon DEF SameFlags, SameTest
<1>5. SameFlags(a, a) /\ SameTest(a, a)
  BY Zenon DEF SameFlags, SameTest
<1> QED
  BY <1>2, <1>3, <1>4, <1>5, ZenonT(60)

(* What an event of the MAC does to the shared memory. *)
Event(a, b) ==
    /\ b.ScheduleNextTx = TRUE /\ b.TxNextPacket = a.TxNextPacket
    /\ a.IsNetworkJoined => b.IsNetworkJoined
    /\ a.TxSeen \/ "Tx" \in a.EventFlags => b.TxSeen
    /\ ~a.Running /\ ~b.Running => SameTest(a, b)

(* Every event schedules the next transmission; it makes the transmission  *)
(* seen if its flag is set, and takes back neither the activation nor      *)
(* what was seen.                                                          *)
LEMMA OnMacEventType ==
    ASSUME NEW F, NEW a \in AppRecord(F), NEW dl \in Received
    PROVE  OnMacEvent(a, dl) \in AppRecord(F) /\ Event(a, OnMacEvent(a, dl))
<1> DEFINE joined   == "JoinAccept" \in a.EventFlags
           received == ~joined /\ "Rx" \in a.EventFlags
           checked  == IF received /\ a.Running /\ "LinkCheck" \in a.EventFlags
                       THEN [a EXCEPT !.LinkCheck = TRUE] ELSE a
           read     == IF received /\ "RxData" \in a.EventFlags
                       THEN ProcessRxFrame(checked, dl) ELSE checked
           j == read.IsNetworkJoined \/ joined
           t == read.TxSeen \/ "Tx" \in a.EventFlags
           b == [read EXCEPT !.IsNetworkJoined = j, !.ScheduleNextTx = TRUE, !.TxSeen = t]
<1>1. OnMacEvent(a, dl) = b
  BY Zenon DEF OnMacEvent
<1>2. SameFlags(a, a) /\ SameTest(a, a)
  BY Zenon DEF SameFlags, SameTest
<1>3. checked \in AppRecord(F) /\ SameFlags(a, checked) /\ SameTest(a, checked)
  BY <1>2, CheckNoted, Zenon
<1> HIDE DEF checked
<1>4. /\ read \in AppRecord(F) /\ SameFlags(a, read)
      /\ ~a.Running /\ ~read.Running => SameTest(a, read)
  <2>1. CASE received /\ "RxData" \in a.EventFlags
    <3>1. read = ProcessRxFrame(checked, dl)
      BY <2>1, Zenon
    <3>2. /\ read \in AppRecord(F) /\ SameFlags(checked, read)
          /\ ~checked.Running /\ ~read.Running => SameTest(checked, read)
      BY <1>3, <3>1, ProcessRxFrameType, Zenon
    <3> HIDE DEF read
    <3> QED
      BY <1>3, <3>2, Zenon DEF SameFlags, SameTest
  <2>2. CASE ~(received /\ "RxData" \in a.EventFlags)
    <3>1. read = checked
      BY <2>2, Zenon
    <3> QED
      BY <1>3, <3>1, Zenon
  <2> QED
    BY <2>1, <2>2, Zenon
<1> HIDE DEF read
<1>5. j \in BOOLEAN /\ t \in BOOLEAN /\ TRUE \in BOOLEAN
  BY Zenon
<1> HIDE DEF j, t
<1>6. /\ b \in AppRecord(F)
      /\ b.IsNetworkJoined = j /\ b.ScheduleNextTx = TRUE /\ b.TxSeen = t
      /\ b.TxNextPacket = read.TxNextPacket /\ SameTest(read, b)
  <2>1. read \in AppRecord(F)
    BY <1>4
  <2>2. b \in AppRecord(F)
    BY <1>5, <2>1, EventMade, Zenon
  <2>3. b.IsNetworkJoined = j /\ b.ScheduleNextTx = TRUE /\ b.TxSeen = t
    BY <2>1, Zenon DEF AppRecord
  <2>4. b.TxNextPacket = read.TxNextPacket /\ SameTest(read, b)
    BY <2>1, Zenon DEF AppRecord, SameTest
  <2> QED
    BY <2>2, <2>3, <2>4, Zenon
<1> HIDE DEF b
<1>7. b.TxNextPacket = a.TxNextPacket /\ (a.IsNetworkJoined => j)
      /\ (a.TxSeen \/ "Tx" \in a.EventFlags => t)
  BY <1>4, <1>6, Zenon DEF SameFlags, j, t
<1>8. ~a.Running /\ ~b.Running => SameTest(a, b)
  BY <1>4, <1>6, Zenon DEF SameTest
<1>9. Event(a, b)
  BY <1>6, <1>7, <1>8, Zenon DEF Event
<1> QED
  BY <1>1, <1>6, <1>9, Zenon

(* The flags of a callback are set as a whole. *)
LEMMA FlagsSet ==
    ASSUME NEW F, NEW G, NEW a \in AppRecord(F), NEW f \in G
    PROVE  [a EXCEPT !.EventFlags = f] \in AppRecord(G)
  BY ZenonT(60) DEF AppRecord

(* MacEvent is OnMacEvent with no flag left over. *)
LEMMA MacEventType ==
    ASSUME NEW F, NEW a \in AppRecord(F), NEW dl \in Received
    PROVE  MacEvent(a, dl) \in AppRecord({{}}) /\ Event(a, MacEvent(a, dl))
<1> DEFINE e == OnMacEvent(a, dl)
           b == [e EXCEPT !.EventFlags = {}]
<1>1. e \in AppRecord(F) /\ Event(a, e)
  BY OnMacEventType, Zenon
<1>2. MacEvent(a, dl) = b
  BY Zenon DEF MacEvent
<1> HIDE DEF e
<1>3. b \in AppRecord({{}})
  BY <1>1, FlagsSet, Zenon
<1>4. /\ b.ScheduleNextTx = e.ScheduleNextTx /\ b.TxNextPacket = e.TxNextPacket
      /\ b.IsNetworkJoined = e.IsNetworkJoined /\ b.TxSeen = e.TxSeen
  BY <1>1, Zenon DEF AppRecord
<1>5. SameTest(e, b)
  BY <1>1, Zenon DEF AppRecord, SameTest
<1> HIDE DEF b
<1>6. Event(a, b)
  BY <1>1, <1>4, <1>5, Zenon DEF Event, SameTest
<1> QED
  BY <1>2, <1>3, <1>6, Zenon

(* m is a with events noted in its flags. *)
Marked(a, m) ==
    /\ m \in AppRecord(Flags) /\ SameTest(a, m)
    /\ m.IsNetworkJoined = a.IsNetworkJoined /\ m.TxNextPacket = a.TxNextPacket
    /\ m.TxSeen = a.TxSeen

(* Before a state check no event is noted. *)
LEMMA NothingMarked ==
    ASSUME NEW a \in AppRecord({{}})
    PROVE  Marked(a, a)
<1>1. {} \in Flags
  BY Zenon DEF Flags
<1>2. a \in AppRecord(Flags)
  <2>1. a.EventFlags \in Flags
    BY <1>1, Zenon DEF AppRecord
  <2> DEFINE none == {{}}
  <2>2. a \in AppRecord(none)
    OBVIOUS
  <2> HIDE DEF none
  <2> QED
    BY <2>1, <2>2, ZenonT(60) DEF AppRecord
<1> QED
  BY <1>2, Zenon DEF Marked, SameTest

(* Mark adds flags and changes nothing else. *)
LEMMA MarkType ==
    ASSUME NEW a, NEW m, Marked(a, m), NEW f \in Flags
    PROVE  /\ Marked(a, Mark(m, f))
           /\ f \cup m.EventFlags \subseteq Mark(m, f).EventFlags
<1> DEFINE g == m.EventFlags \cup f
           b == [m EXCEPT !.EventFlags = g]
<1>1. m \in AppRecord(Flags)
  BY Zenon DEF Marked
<1>2. m.EventFlags \in Flags
  BY <1>1, Zenon DEF AppRecord
<1>3. g \in Flags
  <2>1. \A S : \A x, y \in SUBSET S : x \cup y \in SUBSET S
    BY Zenon
  <2> QED
    BY <1>2, <2>1, Zenon DEF Flags
<1>4. Mark(m, f) = b
  BY Zenon DEF Mark
<1> HIDE DEF g
<1>5. b \in AppRecord(Flags)
  BY <1>1, <1>3, FlagsSet, Zenon
<1>6. b.EventFlags = g
  BY <1>1, Zenon DEF AppRecord
<1>7. SameTest(m, b)
  BY <1>1, Zenon DEF AppRecord, SameTest
<1>8. b.IsNetworkJoined = m.IsNetworkJoined /\ b.TxNextPacket = m.TxNextPacket /\ b.TxSeen = m.TxSeen
  BY <1>1, Zenon DEF AppRecord
<1> HIDE DEF b
<1>9. Marked(a, b)
  BY <1>5, <1>7, <1>8, Zenon DEF Marked, SameTest
<1>10. f \cup m.EventFlags \subseteq b.EventFlags
  BY <1>6, SMT DEF g
<1> QED
  BY <1>4, <1>9, <1>10, Zenon

(* What the callbacks of one state check amount to: one event. *)
Outcome(a, b, tx) ==
    /\ b \in AppRecord({{}})
    /\ b.ScheduleNextTx = TRUE /\ b.TxNextPacket = a.TxNextPacket
    /\ a.IsNetworkJoined => b.IsNetworkJoined
    /\ a.TxSeen \/ tx => b.TxSeen
    /\ ~a.Running /\ ~b.Running => SameTest(a, b)

(* The event made of the flags noted so far is the outcome of the state    *)
(* check.                                                                  *)
LEMMA OneEvent ==
    ASSUME NEW a, NEW m, Marked(a, m), NEW tx, tx => "Tx" \in m.EventFlags, NEW dl \in Received
    PROVE  Outcome(a, MacEvent(m, dl), tx)
<1> DEFINE b == MacEvent(m, dl)
<1>1. m \in AppRecord(Flags)
  BY Zenon DEF Marked
<1>2. b \in AppRecord({{}}) /\ Event(m, b)
  BY <1>1, MacEventType, Zenon
<1> HIDE DEF b
<1>3. Outcome(a, b, tx)
  BY <1>2, Zenon DEF Outcome, Event, Marked, SameTest
<1> QED
  BY <1>3 DEF b

(* The three callbacks hand the flags on to the last of them, which makes  *)
(* the one event: no confirm of a state check is lost when an MLME         *)
(* confirm or an indication follows it.                                    *)
LEMMA ReportedOutcome ==
    ASSUME NEW over \in BOOLEAN, NEW ind \in BOOLEAN, NEW ok \in BOOLEAN, NEW dl \in Received,
           app \in AppRecord({{}}), mac.McpsReq \in BOOLEAN, mac.MlmeReq \in BOOLEAN,
           ind \/ (over /\ (mac.McpsReq \/ mac.MlmeReq))
    PROVE  Outcome(app, Reported(over, ind, ok, dl), over /\ mac.McpsReq)
<1> DEFINE a1 == IF over /\ mac.McpsReq THEN McpsConfirm(app, ind, mac.MlmeReq) ELSE app
           f2 == {"Tx", "Rx", IF mac.MlmeRequest = "join" THEN "JoinAccept" ELSE "LinkCheck"}
           m2 == IF ~ok THEN a1 ELSE Mark(a1, f2)
           a2 == IF over /\ mac.MlmeReq THEN MlmeConfirm(a1, ind, ok, mac.MlmeRequest) ELSE a1
           f3 == IF dl.port = 0 THEN {"Rx"} ELSE {"Rx", "RxData"}
           tx == over /\ mac.McpsReq
<1>1. Reported(over, ind, ok, dl) = IF ind THEN McpsIndication(a2, dl) ELSE a2
  BY Zenon DEF Reported
<1>2. {"Tx"} \in Flags /\ f2 \in Flags /\ f3 \in Flags
  BY Zenon DEF Flags
<1>3. NoDownlink \in Received
  BY SMT DEF NoDownlink, Received, States
<1>4. Marked(app, app)
  BY NothingMarked
<1>5. Marked(app, Mark(app, {"Tx"})) /\ "Tx" \in Mark(app, {"Tx"}).EventFlags
  BY <1>2, <1>4, MarkType, Zenon
<1>6. ind \/ mac.MlmeReq => Marked(app, a1) /\ (tx => "Tx" \in a1.EventFlags)
  BY <1>4, <1>5, Zenon DEF McpsConfirm
<1>7. CASE ~ind /\ ~mac.MlmeReq
  <2>1. a2 = MacEvent(Mark(app, {"Tx"}), NoDownlink)
    BY <1>7, Zenon DEF McpsConfirm
  <2>2. Outcome(app, MacEvent(Mark(app, {"Tx"}), NoDownlink), tx)
    BY <1>3, <1>5, OneEvent, Zenon
  <2> QED
    BY <1>1, <1>7, <2>1, <2>2, Zenon
<1> HIDE DEF a1, f2
<1>8. ind \/ mac.MlmeReq => Marked(app, m2) /\ (tx => "Tx" \in m2.EventFlags)
  BY <1>2, <1>6, MarkType, Zenon
<1> HIDE DEF m2
<1>9. CASE ~ind /\ mac.MlmeReq
  <2>1. a2 = MacEvent(m2, NoDownlink)
    BY <1>9, Zenon DEF MlmeConfirm, m2, f2
  <2>2. Outcome(app, MacEvent(m2, NoDownlink), tx)
    BY <1>3, <1>8, <1>9, OneEvent, Zenon
  <2> QED
    BY <1>1, <1>9, <2>1, <2>2, Zenon
<1>10. CASE ind
  <2>1. a2 = IF over /\ mac.MlmeReq THEN m2 ELSE a1
    BY <1>10, Zenon DEF MlmeConfirm, m2, f2
  <2>2. Marked(app, a2) /\ (tx => "Tx" \in a2.EventFlags)
    BY <1>6, <1>8, <1>10, <2>1, Zenon
  <2>3. McpsIndication(a2, dl) = MacEvent(Mark(a2, f3), dl)
    BY Zenon DEF McpsIndication
  <2> HIDE DEF a2, f3
  <2>4. Marked(app, Mark(a2, f3)) /\ (tx => "Tx" \in Mark(a2, f3).EventFlags)
    BY <1>2, <2>2, MarkType, Zenon
  <2>5. Outcome(app, MacEvent(Mark(a2, f3), dl), tx)
    BY <2>4, OneEvent, Zenon
  <2> QED
    BY <1>1, <1>10, <2>3, <2>5, Zenon
<1> QED
  BY <1>7, <1>9, <1>10, Zenon

-----------------------------------------------------------------------------
(***************************************************************************)
(* The invariant, and what an assignment of the main loop changes.         *)
(***************************************************************************)

(* What the theorems rest on. *)
AppInv ==
    /\ AppTypeOK /\ BusyIsPending /\ NoLostWakeUp /\ EveryFrameReported /\ OneTurn
    /\ FrameIsPrepared

(* The types of mac and main. *)
MacRecord ==
    [busy : BOOLEAN, confirmed : BOOLEAN, off : BOOLEAN, McpsReq : BOOLEAN,
     MlmeReq : BOOLEAN, MlmeRequest : {"none", "join", "link"}]

Labels ==
    {"top", "join", "join timer", "schedule?", "schedule", "next?", "prepare",
     "size", "send", "request", "flush"}

MainRecord == [pc : Labels, port : {0, 10, 224}, size : Sizes, ack : BOOLEAN]

(* The type invariant in terms of the named sets of records. *)
LEMMA Types ==
    /\ AppTypeOK <=>
          /\ app \in AppRecord({{}}) /\ mac \in MacRecord /\ main \in MainRecord
          /\ timers \subseteq {"JoinReq", "TxNextPacket"}
          /\ mixed \in BOOLEAN /\ exposed \in BOOLEAN
<1>1. {mixed, exposed} \subseteq BOOLEAN <=> mixed \in BOOLEAN /\ exposed \in BOOLEAN
  BY Zenon
<1> QED
  BY <1>1, ZenonT(60) DEF AppTypeOK, MacRecord, Labels, MainRecord

(* The same after a step. *)
LEMMA TypesNext ==
    /\ AppTypeOK' <=>
          /\ app' \in AppRecord({{}}) /\ mac' \in MacRecord /\ main' \in MainRecord
          /\ timers' \subseteq {"JoinReq", "TxNextPacket"}
          /\ mixed' \in BOOLEAN /\ exposed' \in BOOLEAN
<1>1. {mixed', exposed'} \subseteq BOOLEAN <=> mixed' \in BOOLEAN /\ exposed' \in BOOLEAN
  BY Zenon
<1> QED
  BY <1>1, ZenonT(60) DEF AppTypeOK, MacRecord, Labels, MainRecord

(* The types of the fields that the invariants read. *)
LEMMA Fields ==
    ASSUME AppTypeOK
    PROVE  /\ app.IsNetworkJoined \in BOOLEAN /\ app.TxNextPacket \in BOOLEAN
           /\ app.ScheduleNextTx \in BOOLEAN /\ app.IsTxConfirmed \in BOOLEAN
           /\ app.Running \in BOOLEAN /\ app.TxSeen \in BOOLEAN
           /\ app.AppPort \in {10, 224} /\ app.AppDataSize \in Sizes
           /\ mac.busy \in BOOLEAN /\ mac.confirmed \in BOOLEAN /\ mac.off \in BOOLEAN
           /\ mac.McpsReq \in BOOLEAN /\ mac.MlmeReq \in BOOLEAN
           /\ main.pc \in Labels /\ main.ack \in BOOLEAN
<1>1. app \in AppRecord({{}}) /\ mac \in MacRecord /\ main \in MainRecord
  BY Types, Zenon
<1>2. /\ app.IsNetworkJoined \in BOOLEAN /\ app.TxNextPacket \in BOOLEAN
      /\ app.ScheduleNextTx \in BOOLEAN /\ app.IsTxConfirmed \in BOOLEAN
      /\ app.Running \in BOOLEAN /\ app.TxSeen \in BOOLEAN
      /\ app.AppPort \in {10, 224} /\ app.AppDataSize \in Sizes
  BY <1>1, Zenon DEF AppRecord
<1>3. /\ mac.busy \in BOOLEAN /\ mac.confirmed \in BOOLEAN /\ mac.off \in BOOLEAN
      /\ mac.McpsReq \in BOOLEAN /\ mac.MlmeReq \in BOOLEAN
  BY <1>1, Zenon DEF MacRecord
<1>4. main.pc \in Labels /\ main.ack \in BOOLEAN
  BY <1>1, Zenon DEF MainRecord
<1> QED
  BY <1>2, <1>3, <1>4, Zenon

(* Goto moves the main loop and keeps the arguments of its call. *)
LEMMA GotoType ==
    ASSUME main \in MainRecord, NEW l \in Labels, Goto(l)
    PROVE  /\ main' \in MainRecord
           /\ main'.pc = l /\ main'.port = main.port /\ main'.size = main.size
           /\ main'.ack = main.ack
<1>1. main' = [main EXCEPT !.pc = l]
  BY Zenon DEF Goto
<1> QED
  BY <1>1, ZenonT(60) DEF MainRecord

(* An assignment to TxNextPacket. *)
LEMMA TxNextPacketSet ==
    ASSUME app \in AppRecord({{}}), NEW v \in BOOLEAN, app' = [app EXCEPT !.TxNextPacket = v]
    PROVE  /\ app' \in AppRecord({{}}) /\ SameTest(app, app')
           /\ app'.IsNetworkJoined = app.IsNetworkJoined /\ app'.ScheduleNextTx = app.ScheduleNextTx
           /\ app'.TxSeen = app.TxSeen /\ app'.AppData = app.AppData
           /\ app'.AppDataSize = app.AppDataSize /\ app'.TxNextPacket = v
<1>1. app' \in AppRecord({{}})
  BY ZenonT(60) DEF AppRecord
<1>2. SameTest(app, app')
  BY Zenon DEF AppRecord, SameTest
<1>3. /\ app'.IsNetworkJoined = app.IsNetworkJoined /\ app'.ScheduleNextTx = app.ScheduleNextTx
      /\ app'.TxSeen = app.TxSeen /\ app'.AppData = app.AppData
      /\ app'.AppDataSize = app.AppDataSize /\ app'.TxNextPacket = v
  BY Zenon DEF AppRecord
<1> QED
  BY <1>1, <1>2, <1>3, Zenon

(* An assignment to ScheduleNextTx. *)
LEMMA ScheduleNextTxSet ==
    ASSUME app \in AppRecord({{}}), NEW v \in BOOLEAN, app' = [app EXCEPT !.ScheduleNextTx = v]
    PROVE  /\ app' \in AppRecord({{}}) /\ SameTest(app, app')
           /\ app'.IsNetworkJoined = app.IsNetworkJoined /\ app'.TxNextPacket = app.TxNextPacket
           /\ app'.TxSeen = app.TxSeen /\ app'.AppData = app.AppData
           /\ app'.AppDataSize = app.AppDataSize /\ app'.ScheduleNextTx = v
<1>1. app' \in AppRecord({{}})
  BY ZenonT(60) DEF AppRecord
<1>2. SameTest(app, app')
  BY Zenon DEF AppRecord, SameTest
<1>3. /\ app'.IsNetworkJoined = app.IsNetworkJoined /\ app'.TxNextPacket = app.TxNextPacket
      /\ app'.TxSeen = app.TxSeen /\ app'.AppData = app.AppData
      /\ app'.AppDataSize = app.AppDataSize /\ app'.ScheduleNextTx = v
  BY Zenon DEF AppRecord
<1> QED
  BY <1>1, <1>2, <1>3, Zenon

(* An assignment to TxSeen. *)
LEMMA TxSeenSet ==
    ASSUME app \in AppRecord({{}}), NEW v \in BOOLEAN, app' = [app EXCEPT !.TxSeen = v]
    PROVE  /\ app' \in AppRecord({{}}) /\ SameTest(app, app')
           /\ app'.IsNetworkJoined = app.IsNetworkJoined /\ app'.TxNextPacket = app.TxNextPacket
           /\ app'.ScheduleNextTx = app.ScheduleNextTx /\ app'.AppData = app.AppData
           /\ app'.AppDataSize = app.AppDataSize /\ app'.TxSeen = v
<1>1. app' \in AppRecord({{}})
  BY ZenonT(180) DEF AppRecord
<1>2. SameTest(app, app')
  BY Zenon DEF AppRecord, SameTest
<1>3. /\ app'.IsNetworkJoined = app.IsNetworkJoined /\ app'.TxNextPacket = app.TxNextPacket
      /\ app'.ScheduleNextTx = app.ScheduleNextTx /\ app'.AppData = app.AppData
      /\ app'.AppDataSize = app.AppDataSize /\ app'.TxSeen = v
  BY Zenon DEF AppRecord
<1> QED
  BY <1>1, <1>2, <1>3, Zenon

(* An assignment to AppData. *)
LEMMA AppDataSet ==
    ASSUME app \in AppRecord({{}}), NEW v \in Content, app' = [app EXCEPT !.AppData = v]
    PROVE  /\ app' \in AppRecord({{}}) /\ SameTest(app, app')
           /\ app'.IsNetworkJoined = app.IsNetworkJoined /\ app'.TxNextPacket = app.TxNextPacket
           /\ app'.ScheduleNextTx = app.ScheduleNextTx /\ app'.TxSeen = app.TxSeen
           /\ app'.AppDataSize = app.AppDataSize /\ app'.AppData = v
<1>1. app' \in AppRecord({{}})
  BY ZenonT(60) DEF AppRecord
<1>2. SameTest(app, app')
  BY Zenon DEF AppRecord, SameTest
<1>3. /\ app'.IsNetworkJoined = app.IsNetworkJoined /\ app'.TxNextPacket = app.TxNextPacket
      /\ app'.ScheduleNextTx = app.ScheduleNextTx /\ app'.TxSeen = app.TxSeen
      /\ app'.AppDataSize = app.AppDataSize /\ app'.AppData = v
  BY Zenon DEF AppRecord
<1> QED
  BY <1>1, <1>2, <1>3, Zenon

(* An assignment to AppDataSize. *)
LEMMA AppDataSizeSet ==
    ASSUME app \in AppRecord({{}}), NEW v \in Sizes, app' = [app EXCEPT !.AppDataSize = v]
    PROVE  /\ app' \in AppRecord({{}}) /\ SameTest(app, app')
           /\ app'.IsNetworkJoined = app.IsNetworkJoined /\ app'.TxNextPacket = app.TxNextPacket
           /\ app'.ScheduleNextTx = app.ScheduleNextTx /\ app'.TxSeen = app.TxSeen
           /\ app'.AppData = app.AppData /\ app'.AppDataSize = v
<1>1. app' \in AppRecord({{}})
  BY ZenonT(60) DEF AppRecord
<1>2. SameTest(app, app')
  BY Zenon DEF AppRecord, SameTest
<1>3. /\ app'.IsNetworkJoined = app.IsNetworkJoined /\ app'.TxNextPacket = app.TxNextPacket
      /\ app'.ScheduleNextTx = app.ScheduleNextTx /\ app'.TxSeen = app.TxSeen
      /\ app'.AppData = app.AppData /\ app'.AppDataSize = v
  BY Zenon DEF AppRecord
<1> QED
  BY <1>1, <1>2, <1>3, Zenon

(* PrepareTxFrame answers a link check: the types. *)
LEMMA MarginNoted ==
    ASSUME NEW F, NEW a \in AppRecord(F), NEW l \in BOOLEAN, NEW z \in Sizes, NEW x \in Content,
           NEW s \in States
    PROVE  [a EXCEPT !.LinkCheck = l, !.AppDataSize = z, !.AppData = x,
            !.State = s] \in AppRecord(F)
  BY ZenonT(180) DEF AppRecord

(* PrepareTxFrame writes a frame of the test: the types. *)
LEMMA FrameWritten ==
    ASSUME NEW F, NEW a \in AppRecord(F), NEW z \in Sizes, NEW x \in Content
    PROVE  [a EXCEPT !.AppDataSize = z, !.AppData = x] \in AppRecord(F)
  BY ZenonT(60) DEF AppRecord

(* PrepareTxFrame answers a link check. *)
LEMMA MarginFrame ==
    ASSUME app \in AppRecord({{}}),
           app' = [app EXCEPT !.LinkCheck = FALSE, !.AppDataSize = "margin",
                   !.AppData = "margin", !.State = 1]
    PROVE  /\ app' \in AppRecord({{}}) /\ SameTest(app, app')
           /\ app'.IsNetworkJoined = app.IsNetworkJoined /\ app'.TxNextPacket = app.TxNextPacket
           /\ app'.ScheduleNextTx = app.ScheduleNextTx /\ app'.TxSeen = app.TxSeen
<1>1. app' \in AppRecord({{}})
  BY Values, MarginNoted, ZenonT(60)
<1>2. SameTest(app, app')
  BY Zenon DEF AppRecord, SameTest
<1>3. /\ app'.IsNetworkJoined = app.IsNetworkJoined /\ app'.TxNextPacket = app.TxNextPacket
      /\ app'.ScheduleNextTx = app.ScheduleNextTx /\ app'.TxSeen = app.TxSeen
  BY Zenon DEF AppRecord
<1> QED
  BY <1>1, <1>2, <1>3, Zenon

(* PrepareTxFrame echoes. *)
LEMMA EchoFrame ==
    ASSUME app \in AppRecord({{}}),
           app' = [app EXCEPT !.State = 1]
    PROVE  /\ app' \in AppRecord({{}}) /\ SameTest(app, app')
           /\ app'.IsNetworkJoined = app.IsNetworkJoined /\ app'.TxNextPacket = app.TxNextPacket
           /\ app'.ScheduleNextTx = app.ScheduleNextTx /\ app'.TxSeen = app.TxSeen
<1>1. app' \in AppRecord({{}})
  BY Values, TestSets, ZenonT(60)
<1>2. SameTest(app, app')
  BY ZenonT(60) DEF AppRecord, SameTest
<1>3. /\ app'.IsNetworkJoined = app.IsNetworkJoined /\ app'.TxNextPacket = app.TxNextPacket
      /\ app'.ScheduleNextTx = app.ScheduleNextTx /\ app'.TxSeen = app.TxSeen
  BY Zenon DEF AppRecord
<1> QED
  BY <1>1, <1>2, <1>3, Zenon

(* PrepareTxFrame sends the downlink counter. *)
LEMMA CounterFrame ==
    ASSUME app \in AppRecord({{}}),
           app' = [app EXCEPT !.AppDataSize = "counter", !.AppData = "counter"]
    PROVE  /\ app' \in AppRecord({{}}) /\ SameTest(app, app')
           /\ app'.IsNetworkJoined = app.IsNetworkJoined /\ app'.TxNextPacket = app.TxNextPacket
           /\ app'.ScheduleNextTx = app.ScheduleNextTx /\ app'.TxSeen = app.TxSeen
<1>1. app' \in AppRecord({{}})
  BY Values, FrameWritten, ZenonT(60)
<1>2. SameTest(app, app')
  BY Zenon DEF AppRecord, SameTest
<1>3. /\ app'.IsNetworkJoined = app.IsNetworkJoined /\ app'.TxNextPacket = app.TxNextPacket
      /\ app'.ScheduleNextTx = app.ScheduleNextTx /\ app'.TxSeen = app.TxSeen
  BY Zenon DEF AppRecord
<1> QED
  BY <1>1, <1>2, <1>3, Zenon

-----------------------------------------------------------------------------
(***************************************************************************)
(* One lemma for each action.                                              *)
(***************************************************************************)

(* TestTxNextPacket preserves the invariant. *)
LEMMA TestTxNextPacketStep ==
    ASSUME AppInv, TestTxNextPacket
    PROVE  AppInv'
<1> DEFINE l == IF app.TxNextPacket THEN "prepare" ELSE "top"
<1>1. /\ main.pc = "next?" /\ UNCHANGED <<mac, timers, mixed, exposed>>
  BY Zenon DEF TestTxNextPacket
<1>2. /\ Goto(l)
      /\ app' = [app EXCEPT !.TxNextPacket = FALSE]
  BY Zenon DEF TestTxNextPacket
<1>3. /\ app \in AppRecord({{}}) /\ mac \in MacRecord /\ main \in MainRecord
      /\ timers \subseteq {"JoinReq", "TxNextPacket"} /\ mixed \in BOOLEAN /\ exposed \in BOOLEAN
  BY Types, Zenon DEF AppInv
<1>4. /\ main' \in MainRecord /\ main'.pc = l
      /\ main'.port = main.port /\ main'.size = main.size /\ main'.ack = main.ack
  <2>1. l \in Labels
    BY Zenon DEF Labels
  <2> HIDE DEF l
  <2> QED
    BY <1>1, <1>2, <1>3, <2>1, GotoType, Zenon
<1>5. /\ app' \in AppRecord({{}}) /\ SameTest(app, app')
      /\ app'.IsNetworkJoined = app.IsNetworkJoined /\ app'.ScheduleNextTx = app.ScheduleNextTx
      /\ app'.TxSeen = app.TxSeen /\ app'.AppData = app.AppData
      /\ app'.AppDataSize = app.AppDataSize /\ app'.TxNextPacket = FALSE
  <2>1. FALSE \in BOOLEAN
    BY Zenon DEF Content, Sizes
  <2> QED
    BY <1>1, <1>2, <1>3, <2>1, TxNextPacketSet, Zenon
<1>6. AppTypeOK /\ AppTypeOK'
  BY <1>1, <1>2, <1>3, <1>4, <1>5, TypesNext, Zenon DEF AppInv
<1>7. BusyIsPending'
  BY <1>1, <1>2, Zenon DEF AppInv, BusyIsPending
<1>8. NoLostWakeUp'
  BY <1>1, <1>4, <1>5, <1>6, Fields, ZenonT(60) DEF AppInv, NoLostWakeUp, Labels
<1>9. EveryFrameReported'
  BY <1>1, <1>2, <1>5, Zenon DEF AppInv, EveryFrameReported
<1>10. OneTurn'
  BY <1>1, <1>4, <1>5, <1>6, Fields, SMT DEF AppInv, OneTurn, Sending, Labels, SameTest
<1>11. FrameIsPrepared'
  BY <1>1, Zenon DEF AppInv, FrameIsPrepared
<1> QED
  BY <1>6, <1>7, <1>8, <1>9, <1>10, <1>11, Zenon DEF AppInv

(* TestScheduleNextTx preserves the invariant. *)
LEMMA TestScheduleNextTxStep ==
    ASSUME AppInv, TestScheduleNextTx
    PROVE  AppInv'
<1> DEFINE l == IF app.ScheduleNextTx THEN "schedule" ELSE "next?"
<1>1. /\ main.pc = "schedule?" /\ UNCHANGED <<mac, timers, mixed, exposed>>
  BY Zenon DEF TestScheduleNextTx
<1>2. /\ Goto(l)
      /\ app' = [app EXCEPT !.ScheduleNextTx = FALSE]
  BY Zenon DEF TestScheduleNextTx
<1>3. /\ app \in AppRecord({{}}) /\ mac \in MacRecord /\ main \in MainRecord
      /\ timers \subseteq {"JoinReq", "TxNextPacket"} /\ mixed \in BOOLEAN /\ exposed \in BOOLEAN
  BY Types, Zenon DEF AppInv
<1>4. /\ main' \in MainRecord /\ main'.pc = l
      /\ main'.port = main.port /\ main'.size = main.size /\ main'.ack = main.ack
  <2>1. l \in Labels
    BY Zenon DEF Labels
  <2> HIDE DEF l
  <2> QED
    BY <1>1, <1>2, <1>3, <2>1, GotoType, Zenon
<1>5. /\ app' \in AppRecord({{}}) /\ SameTest(app, app')
      /\ app'.IsNetworkJoined = app.IsNetworkJoined /\ app'.TxNextPacket = app.TxNextPacket
      /\ app'.TxSeen = app.TxSeen /\ app'.AppData = app.AppData
      /\ app'.AppDataSize = app.AppDataSize /\ app'.ScheduleNextTx = FALSE
  <2>1. FALSE \in BOOLEAN
    BY Zenon DEF Content, Sizes
  <2> QED
    BY <1>1, <1>2, <1>3, <2>1, ScheduleNextTxSet, Zenon
<1>6. AppTypeOK /\ AppTypeOK'
  BY <1>1, <1>2, <1>3, <1>4, <1>5, TypesNext, Zenon DEF AppInv
<1>7. BusyIsPending'
  BY <1>1, <1>2, Zenon DEF AppInv, BusyIsPending
<1>8. NoLostWakeUp'
  BY <1>1, <1>4, <1>5, <1>6, Fields, ZenonT(60) DEF AppInv, NoLostWakeUp, Labels
<1>9. EveryFrameReported'
  BY <1>1, <1>2, <1>5, Zenon DEF AppInv, EveryFrameReported
<1>10. OneTurn'
  BY <1>1, <1>4, <1>5, <1>6, Fields, SMT DEF AppInv, OneTurn, Sending, Labels, SameTest
<1>11. FrameIsPrepared'
  BY <1>1, Zenon DEF AppInv, FrameIsPrepared
<1> QED
  BY <1>6, <1>7, <1>8, <1>9, <1>10, <1>11, Zenon DEF AppInv

(* SetAppDataSize preserves the invariant. *)
LEMMA SetAppDataSizeStep ==
    ASSUME AppInv, SetAppDataSize
    PROVE  AppInv'
<1>1. /\ main.pc = "size" /\ UNCHANGED <<mac, timers, mixed, exposed>>
  BY Zenon DEF SetAppDataSize
<1>2. /\ Goto("send")
      /\ app' = [app EXCEPT !.AppDataSize = "coap"]
  BY Zenon DEF SetAppDataSize
<1>3. /\ app \in AppRecord({{}}) /\ mac \in MacRecord /\ main \in MainRecord
      /\ timers \subseteq {"JoinReq", "TxNextPacket"} /\ mixed \in BOOLEAN /\ exposed \in BOOLEAN
  BY Types, Zenon DEF AppInv
<1>4. /\ main' \in MainRecord /\ main'.pc = "send"
      /\ main'.port = main.port /\ main'.size = main.size /\ main'.ack = main.ack
  <2>1. "send" \in Labels
    BY Zenon DEF Labels
  <2> QED
    BY <1>1, <1>2, <1>3, <2>1, GotoType, Zenon
<1>5. /\ app' \in AppRecord({{}}) /\ SameTest(app, app')
      /\ app'.IsNetworkJoined = app.IsNetworkJoined /\ app'.TxNextPacket = app.TxNextPacket
      /\ app'.ScheduleNextTx = app.ScheduleNextTx /\ app'.TxSeen = app.TxSeen
      /\ app'.AppData = app.AppData /\ app'.AppDataSize = "coap"
  <2>1. "coap" \in Sizes
    BY Zenon DEF Content, Sizes
  <2> QED
    BY <1>1, <1>2, <1>3, <2>1, AppDataSizeSet, Zenon
<1>6. AppTypeOK /\ AppTypeOK'
  BY <1>1, <1>2, <1>3, <1>4, <1>5, TypesNext, Zenon DEF AppInv
<1>7. BusyIsPending'
  BY <1>1, <1>2, Zenon DEF AppInv, BusyIsPending
<1>8. NoLostWakeUp'
  BY <1>1, <1>4, <1>5, <1>6, Fields, Zenon DEF AppInv, NoLostWakeUp, Labels
<1>9. EveryFrameReported'
  BY <1>1, <1>2, <1>5, Zenon DEF AppInv, EveryFrameReported
<1>10. OneTurn'
  BY <1>1, <1>4, <1>5, <1>6, Fields, ZenonT(180) DEF AppInv, OneTurn, Sending, Labels, SameTest
<1>11. FrameIsPrepared'
  BY <1>1, Zenon DEF AppInv, FrameIsPrepared
<1> QED
  BY <1>6, <1>7, <1>8, <1>9, <1>10, <1>11, Zenon DEF AppInv

(* StartJoinReqTimer preserves the invariant. *)
LEMMA StartJoinReqTimerStep ==
    ASSUME AppInv, StartJoinReqTimer
    PROVE  AppInv'
<1>1. /\ main.pc = "join timer" /\ Goto("top") /\ UNCHANGED <<app, mac, mixed, exposed>>
  BY Zenon DEF StartJoinReqTimer
<1>2. /\ timers' = timers \cup {"JoinReq"}
  BY Zenon DEF StartJoinReqTimer
<1>3. /\ app \in AppRecord({{}}) /\ mac \in MacRecord /\ main \in MainRecord
      /\ timers \subseteq {"JoinReq", "TxNextPacket"} /\ mixed \in BOOLEAN /\ exposed \in BOOLEAN
  BY Types, Zenon DEF AppInv
<1>4. /\ main' \in MainRecord /\ main'.pc = "top"
      /\ main'.port = main.port /\ main'.size = main.size /\ main'.ack = main.ack
  <2>1. "top" \in Labels
    BY Zenon DEF Labels
  <2> QED
    BY <1>1, <1>2, <1>3, <2>1, GotoType, Zenon
<1>5. /\ app' \in AppRecord({{}}) /\ SameTest(app, app')
      /\ app'.IsNetworkJoined = app.IsNetworkJoined /\ app'.TxNextPacket = app.TxNextPacket
      /\ app'.ScheduleNextTx = app.ScheduleNextTx /\ app'.TxSeen = app.TxSeen
      /\ app'.AppData = app.AppData /\ app'.AppDataSize = app.AppDataSize
  BY <1>1, <1>2, <1>3, Zenon DEF SameTest
<1>6. timers' \subseteq {"JoinReq",
             "TxNextPacket"} /\ ("TxNextPacket" \in timers => "TxNextPacket" \in timers')
  BY <1>1, <1>2, <1>3, Zenon
<1>7. AppTypeOK /\ AppTypeOK'
  BY <1>1, <1>2, <1>3, <1>4, <1>5, <1>6, TypesNext, Zenon DEF AppInv
<1>8. BusyIsPending'
  BY <1>1, <1>2, Zenon DEF AppInv, BusyIsPending
<1>9. NoLostWakeUp'
  BY <1>1, <1>4, <1>5, <1>6, <1>7, Fields, Zenon DEF AppInv, NoLostWakeUp, Labels
<1>10. EveryFrameReported'
  BY <1>1, <1>2, <1>5, Zenon DEF AppInv, EveryFrameReported
<1>11. OneTurn'
  BY <1>1, <1>4, <1>5, <1>6, <1>7, Fields, Zenon DEF AppInv, OneTurn, Sending, Labels, SameTest
<1>12. FrameIsPrepared'
  BY <1>1, Zenon DEF AppInv, FrameIsPrepared
<1> QED
  BY <1>7, <1>8, <1>9, <1>10, <1>11, <1>12, Zenon DEF AppInv

(* WhileNotJoined preserves the invariant. *)
LEMMA WhileNotJoinedStep ==
    ASSUME AppInv, WhileNotJoined
    PROVE  AppInv'
<1>1. CASE app.IsNetworkJoined
  <2>1. /\ main.pc = "top" /\ UNCHANGED <<mac, timers, mixed, exposed>>
    BY <1>1, Zenon DEF WhileNotJoined
  <2>2. /\ Goto("schedule?") /\ UNCHANGED app
    BY <1>1, Zenon DEF WhileNotJoined
  <2>3. /\ app \in AppRecord({{}}) /\ mac \in MacRecord /\ main \in MainRecord
        /\ timers \subseteq {"JoinReq", "TxNextPacket"} /\ mixed \in BOOLEAN /\ exposed \in BOOLEAN
    BY Types, Zenon DEF AppInv
  <2>4. /\ main' \in MainRecord /\ main'.pc = "schedule?"
        /\ main'.port = main.port /\ main'.size = main.size /\ main'.ack = main.ack
    <3>1. "schedule?" \in Labels
      BY Zenon DEF Labels
    <3> QED
      BY <2>1, <2>2, <2>3, <3>1, GotoType, Zenon
  <2>5. /\ app' \in AppRecord({{}}) /\ SameTest(app, app')
        /\ app'.IsNetworkJoined = app.IsNetworkJoined /\ app'.TxNextPacket = app.TxNextPacket
        /\ app'.ScheduleNextTx = app.ScheduleNextTx /\ app'.TxSeen = app.TxSeen
        /\ app'.AppData = app.AppData /\ app'.AppDataSize = app.AppDataSize
    BY <2>1, <2>2, <2>3, Zenon DEF SameTest
  <2>6. AppTypeOK /\ AppTypeOK'
    BY <2>1, <2>2, <2>3, <2>4, <2>5, TypesNext, Zenon DEF AppInv
  <2>7. BusyIsPending'
    BY <2>1, <2>2, Zenon DEF AppInv, BusyIsPending
  <2>8. NoLostWakeUp'
    BY <2>1, <2>4, <2>5, <2>6, Fields, ZenonT(60) DEF AppInv, NoLostWakeUp, Labels
  <2>9. EveryFrameReported'
    BY <2>1, <2>2, <2>5, Zenon DEF AppInv, EveryFrameReported
  <2>10. OneTurn'
    BY <2>1, <2>4, <2>5, <2>6, Fields, ZenonT(60) DEF AppInv, OneTurn, Sending, Labels, SameTest
  <2>11. FrameIsPrepared'
    BY <2>1, Zenon DEF AppInv, FrameIsPrepared
  <2> QED
    BY <2>6, <2>7, <2>8, <2>9, <2>10, <2>11, Zenon DEF AppInv
<1>2. CASE ~app.IsNetworkJoined /\ app.TxNextPacket
  <2>1. /\ main.pc = "top" /\ UNCHANGED <<mac, timers, mixed, exposed>> /\ ~app.IsNetworkJoined
    BY <1>2, Zenon DEF WhileNotJoined
  <2>2. /\ Goto("join") /\ app' = [app EXCEPT !.TxNextPacket = FALSE]
    BY <1>2, Zenon DEF WhileNotJoined
  <2>3. /\ app \in AppRecord({{}}) /\ mac \in MacRecord /\ main \in MainRecord
        /\ timers \subseteq {"JoinReq", "TxNextPacket"} /\ mixed \in BOOLEAN /\ exposed \in BOOLEAN
    BY Types, Zenon DEF AppInv
  <2>4. /\ main' \in MainRecord /\ main'.pc = "join"
        /\ main'.port = main.port /\ main'.size = main.size /\ main'.ack = main.ack
    <3>1. "join" \in Labels
      BY Zenon DEF Labels
    <3> QED
      BY <2>1, <2>2, <2>3, <3>1, GotoType, Zenon
  <2>5. /\ app' \in AppRecord({{}}) /\ SameTest(app, app')
        /\ app'.IsNetworkJoined = app.IsNetworkJoined /\ app'.ScheduleNextTx = app.ScheduleNextTx
        /\ app'.TxSeen = app.TxSeen /\ app'.AppData = app.AppData
        /\ app'.AppDataSize = app.AppDataSize /\ app'.TxNextPacket = FALSE
    <3>1. FALSE \in BOOLEAN
      BY Zenon DEF Content, Sizes
    <3> QED
      BY <2>1, <2>2, <2>3, <3>1, TxNextPacketSet, Zenon
  <2>6. AppTypeOK /\ AppTypeOK'
    BY <2>1, <2>2, <2>3, <2>4, <2>5, TypesNext, Zenon DEF AppInv
  <2>7. BusyIsPending'
    BY <2>1, <2>2, Zenon DEF AppInv, BusyIsPending
  <2>8. NoLostWakeUp'
    BY <2>1, <2>4, <2>5, <2>6, Fields, Zenon DEF AppInv, NoLostWakeUp, Labels
  <2>9. EveryFrameReported'
    BY <2>1, <2>2, <2>5, Zenon DEF AppInv, EveryFrameReported
  <2>10. OneTurn'
    BY <2>1, <2>4, <2>5, <2>6, Fields, Zenon DEF AppInv, OneTurn, Sending, Labels, SameTest
  <2>11. FrameIsPrepared'
    BY <2>1, Zenon DEF AppInv, FrameIsPrepared
  <2> QED
    BY <2>6, <2>7, <2>8, <2>9, <2>10, <2>11, Zenon DEF AppInv
<1>3. CASE ~app.IsNetworkJoined /\ ~app.TxNextPacket
  <2>1. /\ main.pc = "top" /\ UNCHANGED <<mac, timers, mixed, exposed>>
    BY <1>3, Zenon DEF WhileNotJoined
  <2>2. /\ UNCHANGED <<main, app>>
    BY <1>3, Zenon DEF WhileNotJoined
  <2>3. /\ app \in AppRecord({{}}) /\ mac \in MacRecord /\ main \in MainRecord
        /\ timers \subseteq {"JoinReq", "TxNextPacket"} /\ mixed \in BOOLEAN /\ exposed \in BOOLEAN
    BY Types, Zenon DEF AppInv
  <2>4. /\ main' \in MainRecord /\ main'.pc = main.pc
        /\ main'.port = main.port /\ main'.size = main.size /\ main'.ack = main.ack
    BY <2>1, <2>2, <2>3, Zenon
  <2>5. /\ app' \in AppRecord({{}}) /\ SameTest(app, app')
        /\ app'.IsNetworkJoined = app.IsNetworkJoined /\ app'.TxNextPacket = app.TxNextPacket
        /\ app'.ScheduleNextTx = app.ScheduleNextTx /\ app'.TxSeen = app.TxSeen
        /\ app'.AppData = app.AppData /\ app'.AppDataSize = app.AppDataSize
    BY <2>1, <2>2, <2>3, Zenon DEF SameTest
  <2>6. AppTypeOK /\ AppTypeOK'
    BY <2>1, <2>2, <2>3, <2>4, <2>5, TypesNext, Zenon DEF AppInv
  <2>7. BusyIsPending'
    BY <2>1, <2>2, Zenon DEF AppInv, BusyIsPending
  <2>8. NoLostWakeUp'
    BY <2>1, <2>4, <2>5, <2>6, Fields, ZenonT(60) DEF AppInv, NoLostWakeUp, Labels
  <2>9. EveryFrameReported'
    BY <2>1, <2>2, <2>5, Zenon DEF AppInv, EveryFrameReported
  <2>10. OneTurn'
    BY <2>1, <2>4, <2>5, <2>6, Fields, ZenonT(60) DEF AppInv, OneTurn, Sending, Labels, SameTest
  <2>11. FrameIsPrepared'
    BY <2>1, Zenon DEF AppInv, FrameIsPrepared
  <2> QED
    BY <2>6, <2>7, <2>8, <2>9, <2>10, <2>11, Zenon DEF AppInv
<1> QED
  BY <1>1, <1>2, <1>3, Zenon

(* ScheduleNextTx preserves the invariant. *)
LEMMA ScheduleNextTxStep ==
    ASSUME AppInv, ScheduleNextTx
    PROVE  AppInv'
<1>1. CASE app.Running
  <2>1. /\ main.pc = "schedule" /\ Goto("next?") /\ UNCHANGED <<mac, mixed, exposed>>
        /\ app.Running /\ UNCHANGED timers
    BY <1>1, Zenon DEF ScheduleNextTx
  <2>2. /\ app' = [app EXCEPT !.TxNextPacket = TRUE]
    BY <1>1, Zenon DEF ScheduleNextTx
  <2>3. /\ app \in AppRecord({{}}) /\ mac \in MacRecord /\ main \in MainRecord
        /\ timers \subseteq {"JoinReq", "TxNextPacket"} /\ mixed \in BOOLEAN /\ exposed \in BOOLEAN
    BY Types, Zenon DEF AppInv
  <2>4. /\ main' \in MainRecord /\ main'.pc = "next?"
        /\ main'.port = main.port /\ main'.size = main.size /\ main'.ack = main.ack
    <3>1. "next?" \in Labels
      BY Zenon DEF Labels
    <3> QED
      BY <2>1, <2>2, <2>3, <3>1, GotoType, Zenon
  <2>5. /\ app' \in AppRecord({{}}) /\ SameTest(app, app')
        /\ app'.IsNetworkJoined = app.IsNetworkJoined /\ app'.ScheduleNextTx = app.ScheduleNextTx
        /\ app'.TxSeen = app.TxSeen /\ app'.AppData = app.AppData
        /\ app'.AppDataSize = app.AppDataSize /\ app'.TxNextPacket = TRUE
    <3>1. TRUE \in BOOLEAN
      BY Zenon DEF Content, Sizes
    <3> QED
      BY <2>1, <2>2, <2>3, <3>1, TxNextPacketSet, Zenon
  <2>6. AppTypeOK /\ AppTypeOK'
    BY <2>1, <2>2, <2>3, <2>4, <2>5, TypesNext, Zenon DEF AppInv
  <2>7. BusyIsPending'
    BY <2>1, <2>2, Zenon DEF AppInv, BusyIsPending
  <2>8. NoLostWakeUp'
    BY <2>1, <2>4, <2>5, <2>6, Fields, Zenon DEF AppInv, NoLostWakeUp, Labels
  <2>9. EveryFrameReported'
    BY <2>1, <2>2, <2>5, Zenon DEF AppInv, EveryFrameReported
  <2>10. OneTurn'
    BY <2>1, <2>4, <2>5, <2>6, Fields, Zenon DEF AppInv, OneTurn, Sending, Labels, SameTest
  <2>11. FrameIsPrepared'
    BY <2>1, Zenon DEF AppInv, FrameIsPrepared
  <2> QED
    BY <2>6, <2>7, <2>8, <2>9, <2>10, <2>11, Zenon DEF AppInv
<1>2. CASE ~app.Running
  <2>1. /\ main.pc = "schedule" /\ Goto("next?") /\ UNCHANGED <<mac, mixed, exposed>>
    BY <1>2, Zenon DEF ScheduleNextTx
  <2>2. /\ timers' = timers \cup {"TxNextPacket"} /\ UNCHANGED app
    BY <1>2, Zenon DEF ScheduleNextTx
  <2>3. /\ app \in AppRecord({{}}) /\ mac \in MacRecord /\ main \in MainRecord
        /\ timers \subseteq {"JoinReq", "TxNextPacket"} /\ mixed \in BOOLEAN /\ exposed \in BOOLEAN
    BY Types, Zenon DEF AppInv
  <2>4. /\ main' \in MainRecord /\ main'.pc = "next?"
        /\ main'.port = main.port /\ main'.size = main.size /\ main'.ack = main.ack
    <3>1. "next?" \in Labels
      BY Zenon DEF Labels
    <3> QED
      BY <2>1, <2>2, <2>3, <3>1, GotoType, Zenon
  <2>5. /\ app' \in AppRecord({{}}) /\ SameTest(app, app')
        /\ app'.IsNetworkJoined = app.IsNetworkJoined /\ app'.TxNextPacket = app.TxNextPacket
        /\ app'.ScheduleNextTx = app.ScheduleNextTx /\ app'.TxSeen = app.TxSeen
        /\ app'.AppData = app.AppData /\ app'.AppDataSize = app.AppDataSize
    BY <2>1, <2>2, <2>3, Zenon DEF SameTest
  <2>6. timers' \subseteq {"JoinReq",
               "TxNextPacket"} /\ "TxNextPacket" \in timers' /\ ("JoinReq" \in timers' => "JoinReq" \in timers)
    BY <2>1, <2>2, <2>3, Zenon
  <2>7. AppTypeOK /\ AppTypeOK'
    BY <2>1, <2>2, <2>3, <2>4, <2>5, <2>6, TypesNext, Zenon DEF AppInv
  <2>8. BusyIsPending'
    BY <2>1, <2>2, Zenon DEF AppInv, BusyIsPending
  <2>9. NoLostWakeUp'
    BY <2>1, <2>4, <2>5, <2>6, <2>7, Fields, Zenon DEF AppInv, NoLostWakeUp, Labels
  <2>10. EveryFrameReported'
    BY <2>1, <2>2, <2>5, Zenon DEF AppInv, EveryFrameReported
  <2>11. OneTurn'
    BY <2>1, <2>4, <2>5, <2>6, <2>7, Fields, ZenonT(60) DEF AppInv, OneTurn, Sending, Labels, SameTest
  <2>12. FrameIsPrepared'
    BY <2>1, Zenon DEF AppInv, FrameIsPrepared
  <2> QED
    BY <2>7, <2>8, <2>9, <2>10, <2>11, <2>12, Zenon DEF AppInv
<1> QED
  BY <1>1, <1>2, Zenon

(* LoRaMacJoinReq preserves the invariant. *)
LEMMA LoRaMacJoinReqStep ==
    ASSUME AppInv, LoRaMacJoinReq
    PROVE  AppInv'
<1>1. CASE mac.busy
  <2>1. /\ main.pc = "join" /\ UNCHANGED <<app, timers, mixed, exposed>> /\ UNCHANGED mac
    BY <1>1, Zenon DEF LoRaMacJoinReq
  <2>2. /\ Goto("top")
    BY <1>1, Zenon DEF LoRaMacJoinReq
  <2>3. /\ app \in AppRecord({{}}) /\ mac \in MacRecord /\ main \in MainRecord
        /\ timers \subseteq {"JoinReq", "TxNextPacket"} /\ mixed \in BOOLEAN /\ exposed \in BOOLEAN
    BY Types, Zenon DEF AppInv
  <2>4. /\ main' \in MainRecord /\ main'.pc = "top"
        /\ main'.port = main.port /\ main'.size = main.size /\ main'.ack = main.ack
    <3>1. "top" \in Labels
      BY Zenon DEF Labels
    <3> QED
      BY <2>1, <2>2, <2>3, <3>1, GotoType, Zenon
  <2>5. /\ app' \in AppRecord({{}}) /\ SameTest(app, app')
        /\ app'.IsNetworkJoined = app.IsNetworkJoined /\ app'.TxNextPacket = app.TxNextPacket
        /\ app'.ScheduleNextTx = app.ScheduleNextTx /\ app'.TxSeen = app.TxSeen
        /\ app'.AppData = app.AppData /\ app'.AppDataSize = app.AppDataSize
    BY <2>1, <2>2, <2>3, Zenon DEF SameTest
  <2>6. AppTypeOK /\ AppTypeOK'
    BY <2>1, <2>2, <2>3, <2>4, <2>5, TypesNext, Zenon DEF AppInv
  <2>7. BusyIsPending'
    BY <2>1, <2>2, Zenon DEF AppInv, BusyIsPending
  <2>8. NoLostWakeUp'
    BY <2>1, <2>4, <2>5, <2>6, Fields, ZenonT(60) DEF AppInv, NoLostWakeUp, Labels
  <2>9. EveryFrameReported'
    BY <2>1, <2>2, <2>5, Zenon DEF AppInv, EveryFrameReported
  <2>10. OneTurn'
    BY <2>1, <2>4, <2>5, <2>6, Fields, Zenon DEF AppInv, OneTurn, Sending, Labels, SameTest
  <2>11. FrameIsPrepared'
    BY <2>1, Zenon DEF AppInv, FrameIsPrepared
  <2> QED
    BY <2>6, <2>7, <2>8, <2>9, <2>10, <2>11, Zenon DEF AppInv
<1>2. CASE ~mac.busy
  <2>1. /\ main.pc = "join" /\ UNCHANGED <<app, timers, mixed, exposed>> /\ ~mac.busy
    BY <1>2, Zenon DEF LoRaMacJoinReq
  <2>2. /\ Goto("join timer")
        /\ mac' = [mac EXCEPT !.busy = TRUE, !.MlmeReq = TRUE, !.MlmeRequest = "join"]
    BY <1>2, Zenon DEF LoRaMacJoinReq
  <2>3. /\ app \in AppRecord({{}}) /\ mac \in MacRecord /\ main \in MainRecord
        /\ timers \subseteq {"JoinReq", "TxNextPacket"} /\ mixed \in BOOLEAN /\ exposed \in BOOLEAN
    BY Types, Zenon DEF AppInv
  <2>4. /\ main' \in MainRecord /\ main'.pc = "join timer"
        /\ main'.port = main.port /\ main'.size = main.size /\ main'.ack = main.ack
    <3>1. "join timer" \in Labels
      BY Zenon DEF Labels
    <3> QED
      BY <2>1, <2>2, <2>3, <3>1, GotoType, Zenon
  <2>5. /\ app' \in AppRecord({{}}) /\ SameTest(app, app')
        /\ app'.IsNetworkJoined = app.IsNetworkJoined /\ app'.TxNextPacket = app.TxNextPacket
        /\ app'.ScheduleNextTx = app.ScheduleNextTx /\ app'.TxSeen = app.TxSeen
        /\ app'.AppData = app.AppData /\ app'.AppDataSize = app.AppDataSize
    BY <2>1, <2>2, <2>3, Zenon DEF SameTest
  <2>6. /\ mac' \in MacRecord /\ mac'.busy = TRUE /\ mac'.MlmeReq = TRUE
        /\ mac'.McpsReq = mac.McpsReq /\ mac'.confirmed = mac.confirmed /\ mac'.off = mac.off
    BY <2>1, <2>2, <2>3, Zenon DEF MacRecord
  <2>7. AppTypeOK /\ AppTypeOK'
    BY <2>1, <2>2, <2>3, <2>4, <2>5, <2>6, TypesNext, Zenon DEF AppInv
  <2>8. BusyIsPending'
    BY <2>1, <2>2, <2>6, <2>7, Fields, Zenon DEF AppInv, BusyIsPending
  <2>9. NoLostWakeUp'
    BY <2>1, <2>4, <2>5, <2>6, <2>7, Fields, Zenon DEF AppInv, NoLostWakeUp, Labels
  <2>10. EveryFrameReported'
    BY <2>1, <2>2, <2>5, <2>6, Zenon DEF AppInv, EveryFrameReported
  <2>11. OneTurn'
    BY <2>1, <2>4, <2>5, <2>6, <2>7, Fields, Zenon DEF AppInv, OneTurn, Sending, Labels, SameTest
  <2>12. FrameIsPrepared'
    BY <2>1, Zenon DEF AppInv, FrameIsPrepared
  <2> QED
    BY <2>7, <2>8, <2>9, <2>10, <2>11, <2>12, Zenon DEF AppInv
<1> QED
  BY <1>1, <1>2, Zenon

(* SendFrame preserves the invariant. *)
LEMMA SendFrameStep ==
    ASSUME AppInv, SendFrame
    PROVE  AppInv'
<1>1. /\ main.pc = "send" /\ UNCHANGED <<app, mac, timers, mixed, exposed>>
  BY Zenon DEF SendFrame
<1>2. /\ main' = [main EXCEPT !.pc = "request",
                      !.port = app.AppPort, !.size = app.AppDataSize, !.ack = app.IsTxConfirmed]
  BY Zenon DEF SendFrame
<1>3. /\ app \in AppRecord({{}}) /\ mac \in MacRecord /\ main \in MainRecord
      /\ timers \subseteq {"JoinReq", "TxNextPacket"} /\ mixed \in BOOLEAN /\ exposed \in BOOLEAN
  BY Types, Zenon DEF AppInv
<1>4. /\ main' \in MainRecord /\ main'.pc = "request"
      /\ main'.port = app.AppPort /\ main'.size = app.AppDataSize /\ main'.ack = app.IsTxConfirmed
  <2>1. /\ app.AppPort \in {0, 10, 224} /\ app.AppDataSize \in Sizes
        /\ app.IsTxConfirmed \in BOOLEAN
        /\ "request" \in Labels
    BY Fields, Zenon DEF AppInv, Labels
  <2> QED
    BY <1>1, <1>2, <1>3, <2>1, ZenonT(60) DEF MainRecord
<1>5. /\ app' \in AppRecord({{}}) /\ SameTest(app, app')
      /\ app'.IsNetworkJoined = app.IsNetworkJoined /\ app'.TxNextPacket = app.TxNextPacket
      /\ app'.ScheduleNextTx = app.ScheduleNextTx /\ app'.TxSeen = app.TxSeen
      /\ app'.AppData = app.AppData /\ app'.AppDataSize = app.AppDataSize
  BY <1>1, <1>2, <1>3, Zenon DEF SameTest
<1>6. AppTypeOK /\ AppTypeOK'
  BY <1>1, <1>2, <1>3, <1>4, <1>5, TypesNext, Zenon DEF AppInv
<1>7. BusyIsPending'
  BY <1>1, <1>2, Zenon DEF AppInv, BusyIsPending
<1>8. NoLostWakeUp'
  BY <1>1, <1>4, <1>5, <1>6, Fields, Zenon DEF AppInv, NoLostWakeUp, Labels
<1>9. EveryFrameReported'
  BY <1>1, <1>2, <1>5, Zenon DEF AppInv, EveryFrameReported
<1>10. OneTurn'
  BY <1>1, <1>4, <1>5, <1>6, Fields, ZenonT(60) DEF AppInv, OneTurn, Sending, Labels, SameTest
<1>11. FrameIsPrepared'
  BY <1>1, Zenon DEF AppInv, FrameIsPrepared
<1> QED
  BY <1>6, <1>7, <1>8, <1>9, <1>10, <1>11, Zenon DEF AppInv

(* A timer callback. *)
LEMMA OnTimerEventStep ==
    ASSUME AppInv, NEW t \in {"JoinReq", "TxNextPacket"}, OnTimerEvent(t)
    PROVE  AppInv'
<1>1. /\ t \in timers /\ UNCHANGED <<mac, main, mixed, exposed>>
  BY Zenon DEF OnTimerEvent
<1>2. /\ timers' = timers \ {t}
      /\ app' = [app EXCEPT !.TxNextPacket = TRUE]
  BY Zenon DEF OnTimerEvent
<1>3. /\ app \in AppRecord({{}}) /\ mac \in MacRecord /\ main \in MainRecord
      /\ timers \subseteq {"JoinReq", "TxNextPacket"} /\ mixed \in BOOLEAN /\ exposed \in BOOLEAN
  BY Types, Zenon DEF AppInv
<1>4. /\ main' \in MainRecord /\ main'.pc = main.pc
      /\ main'.port = main.port /\ main'.size = main.size /\ main'.ack = main.ack
  BY <1>1, <1>2, <1>3, Zenon
<1>5. /\ app' \in AppRecord({{}}) /\ SameTest(app, app')
      /\ app'.IsNetworkJoined = app.IsNetworkJoined /\ app'.ScheduleNextTx = app.ScheduleNextTx
      /\ app'.TxSeen = app.TxSeen /\ app'.AppData = app.AppData
      /\ app'.AppDataSize = app.AppDataSize /\ app'.TxNextPacket = TRUE
  <2>1. TRUE \in BOOLEAN
    BY Zenon DEF Content, Sizes
  <2> QED
    BY <1>1, <1>2, <1>3, <2>1, TxNextPacketSet, Zenon
<1>6. /\ timers' \subseteq timers /\ timers' \subseteq {"JoinReq", "TxNextPacket"}
      /\ "JoinReq" \notin timers => t = "TxNextPacket" /\ "TxNextPacket" \notin timers'
  BY <1>1, <1>2, <1>3, Zenon
<1>7. AppTypeOK /\ AppTypeOK'
  BY <1>1, <1>2, <1>3, <1>4, <1>5, <1>6, TypesNext, Zenon DEF AppInv
<1>8. BusyIsPending'
  BY <1>1, <1>2, Zenon DEF AppInv, BusyIsPending
<1>9. NoLostWakeUp'
  BY <1>1, <1>4, <1>5, <1>6, <1>7, Fields, Zenon DEF AppInv, NoLostWakeUp, Labels
<1>10. EveryFrameReported'
  BY <1>1, <1>2, <1>5, Zenon DEF AppInv, EveryFrameReported
<1>11. OneTurn'
  BY <1>1, <1>4, <1>5, <1>6, <1>7, Fields, ZenonT(180) DEF AppInv, OneTurn, Sending, Labels, SameTest
<1>12. FrameIsPrepared'
  BY <1>1, Zenon DEF AppInv, FrameIsPrepared
<1> QED
  BY <1>7, <1>8, <1>9, <1>10, <1>11, <1>12, Zenon DEF AppInv

(* PrepareTxFrame preserves the invariant. *)
LEMMA PrepareTxFrameStep ==
    ASSUME AppInv, PrepareTxFrame
    PROVE  AppInv'
<1>1. CASE app.AppPort = 10
  <2>1. /\ main.pc = "prepare" /\ UNCHANGED <<mac, timers, mixed, exposed>>
    BY <1>1, Zenon DEF PrepareTxFrame
  <2>2. /\ Goto("size")
        /\ app' = [app EXCEPT !.AppData = "coap"]
    BY <1>1, Zenon DEF PrepareTxFrame
  <2>3. /\ app \in AppRecord({{}}) /\ mac \in MacRecord /\ main \in MainRecord
        /\ timers \subseteq {"JoinReq", "TxNextPacket"} /\ mixed \in BOOLEAN /\ exposed \in BOOLEAN
    BY Types, Zenon DEF AppInv
  <2>4. /\ main' \in MainRecord /\ main'.pc = "size"
        /\ main'.port = main.port /\ main'.size = main.size /\ main'.ack = main.ack
    <3>1. "size" \in Labels
      BY Zenon DEF Labels
    <3> QED
      BY <2>1, <2>2, <2>3, <3>1, GotoType, Zenon
  <2>5. /\ app' \in AppRecord({{}}) /\ SameTest(app, app')
        /\ app'.IsNetworkJoined = app.IsNetworkJoined /\ app'.TxNextPacket = app.TxNextPacket
        /\ app'.ScheduleNextTx = app.ScheduleNextTx /\ app'.TxSeen = app.TxSeen
        /\ app'.AppDataSize = app.AppDataSize /\ app'.AppData = "coap"
    <3>1. "coap" \in Content
      BY Zenon DEF Content, Sizes
    <3> QED
      BY <2>1, <2>2, <2>3, <3>1, AppDataSet, Zenon
  <2>6. AppTypeOK /\ AppTypeOK'
    BY <2>1, <2>2, <2>3, <2>4, <2>5, TypesNext, Zenon DEF AppInv
  <2>7. BusyIsPending'
    BY <2>1, <2>2, Zenon DEF AppInv, BusyIsPending
  <2>8. NoLostWakeUp'
    BY <2>1, <2>4, <2>5, <2>6, Fields, Zenon DEF AppInv, NoLostWakeUp, Labels
  <2>9. EveryFrameReported'
    BY <2>1, <2>2, <2>5, Zenon DEF AppInv, EveryFrameReported
  <2>10. OneTurn'
    BY <2>1, <2>4, <2>5, <2>6, Fields, ZenonT(60) DEF AppInv, OneTurn, Sending, Labels, SameTest
  <2>11. FrameIsPrepared'
    BY <2>1, Zenon DEF AppInv, FrameIsPrepared
  <2> QED
    BY <2>6, <2>7, <2>8, <2>9, <2>10, <2>11, Zenon DEF AppInv
<1>2. CASE app.AppPort # 10
  <2>1. /\ main.pc = "prepare" /\ UNCHANGED <<mac, timers, mixed, exposed>> /\ exposed
    BY <1>2, Zenon DEF PrepareTxFrame, AppInv, OneTurn
  <2>2. /\ Goto("send")
       
        /\ \/ app' = [app EXCEPT !.LinkCheck = FALSE, !.AppDataSize = "margin", !.AppData = "margin", !.State = 1]
           \/ app' = [app EXCEPT !.State = 1]
           \/ app' = [app EXCEPT !.AppDataSize = "counter", !.AppData = "counter"]
           \/ app' = app
    BY <1>2, Zenon DEF PrepareTxFrame, AppInv, OneTurn
  <2>3. /\ app \in AppRecord({{}}) /\ mac \in MacRecord /\ main \in MainRecord
        /\ timers \subseteq {"JoinReq", "TxNextPacket"} /\ mixed \in BOOLEAN /\ exposed \in BOOLEAN
    BY Types, Zenon DEF AppInv
  <2>4. /\ main' \in MainRecord /\ main'.pc = "send"
        /\ main'.port = main.port /\ main'.size = main.size /\ main'.ack = main.ack
    <3>1. "send" \in Labels
      BY Zenon DEF Labels
    <3> QED
      BY <2>1, <2>2, <2>3, <3>1, GotoType, Zenon
  <2>5. /\ app' \in AppRecord({{}}) /\ SameTest(app, app')
        /\ app'.IsNetworkJoined = app.IsNetworkJoined /\ app'.TxNextPacket = app.TxNextPacket
        /\ app'.ScheduleNextTx = app.ScheduleNextTx /\ app'.TxSeen = app.TxSeen
    <3>1. CASE app' = [app EXCEPT !.LinkCheck = FALSE, !.AppDataSize = "margin",
                       !.AppData = "margin", !.State = 1]
      BY <2>1, <2>2, <2>3, <3>1, MarginFrame
    <3>2. CASE app' = [app EXCEPT !.State = 1]
      BY <2>1, <2>2, <2>3, <3>2, EchoFrame
    <3>3. CASE app' = [app EXCEPT !.AppDataSize = "counter", !.AppData = "counter"]
      BY <2>1, <2>2, <2>3, <3>3, CounterFrame
    <3>4. CASE app' = app
      BY <2>1, <2>2, <2>3, <3>4, Zenon DEF SameTest
    <3> QED
      BY <2>1, <2>2, <2>3, <3>1, <3>2, <3>3, <3>4, Zenon
  <2>6. AppTypeOK /\ AppTypeOK'
    BY <2>1, <2>2, <2>3, <2>4, <2>5, TypesNext, Zenon DEF AppInv
  <2>7. BusyIsPending'
    BY <2>1, <2>2, Zenon DEF AppInv, BusyIsPending
  <2>8. NoLostWakeUp'
    BY <2>1, <2>4, <2>5, <2>6, Fields, Zenon DEF AppInv, NoLostWakeUp, Labels
  <2>9. EveryFrameReported'
    BY <2>1, <2>2, <2>5, Zenon DEF AppInv, EveryFrameReported
  <2>10. OneTurn'
    BY <2>1, <2>4, <2>5, <2>6, Fields, Zenon DEF AppInv, OneTurn, Sending, Labels, SameTest
  <2>11. FrameIsPrepared'
    BY <2>1, Zenon DEF AppInv, FrameIsPrepared
  <2> QED
    BY <2>6, <2>7, <2>8, <2>9, <2>10, <2>11, Zenon DEF AppInv
<1> QED
  BY <1>1, <1>2, Zenon

(* A request that the MAC accepts while the main loop sends. *)
LEMMA AcceptedStep ==
    ASSUME AppInv, NEW ack \in BOOLEAN, Accepted(ack), main' \in MainRecord, main'.pc = "top",
           main'.ack => main.ack,
           UNCHANGED <<timers, exposed>>, mixed' \in BOOLEAN,
           main.pc \in {"request", "flush"}, ~exposed => ~ack
    PROVE  AppTypeOK' /\ BusyIsPending' /\ NoLostWakeUp' /\ EveryFrameReported' /\ OneTurn'
<1>1. /\ mac' = [mac EXCEPT !.busy = TRUE, !.confirmed = ack, !.McpsReq = TRUE]
      /\ app' = [app EXCEPT !.TxSeen = FALSE]
  BY Zenon DEF Accepted
<1>2. /\ app \in AppRecord({{}}) /\ mac \in MacRecord /\ main \in MainRecord
      /\ timers \subseteq {"JoinReq", "TxNextPacket"} /\ mixed \in BOOLEAN /\ exposed \in BOOLEAN
  BY Types, Zenon DEF AppInv
<1>3. /\ mac' \in MacRecord /\ mac'.busy = TRUE /\ mac'.McpsReq = TRUE
      /\ mac'.confirmed = ack /\ mac'.off = mac.off
  BY <1>1, <1>2, Zenon DEF MacRecord
<1>4. /\ app' \in AppRecord({{}}) /\ SameTest(app, app')
      /\ app'.IsNetworkJoined = app.IsNetworkJoined /\ app'.TxNextPacket = app.TxNextPacket
      /\ app'.ScheduleNextTx = app.ScheduleNextTx
  <2>1. FALSE \in BOOLEAN
    OBVIOUS
  <2> QED
    BY <1>1, <1>2, <2>1, TxSeenSet, Zenon
<1>5. AppTypeOK'
  BY <1>2, <1>3, <1>4, TypesNext, Zenon
<1>6. BusyIsPending' /\ NoLostWakeUp' /\ EveryFrameReported'
  BY <1>3, Zenon DEF BusyIsPending, NoLostWakeUp, EveryFrameReported
<1>7. OneTurn'
  <2>1. main.pc \in Sending /\ main.pc \notin {"join", "join timer"}
    BY Zenon DEF Sending
  <2>2. /\ main'.pc \notin {"schedule"} \cup Sending /\ main'.pc \notin {"join", "join timer"}
        /\ main'.pc \notin {"size", "send", "request"}
    BY SMT DEF Sending
  <2> QED
    BY <1>3, <1>4, <2>1, <2>2, Zenon DEF AppInv, OneTurn, SameTest
<1> QED
  BY <1>5, <1>6, <1>7, Zenon

(* FlushMacCommands preserves the invariant. *)
LEMMA FlushMacCommandsStep ==
    ASSUME AppInv, FlushMacCommands
    PROVE  AppInv'
<1>1. main.pc = "flush" /\ Goto("top") /\ UNCHANGED <<timers, mixed, exposed>>
  BY Zenon DEF FlushMacCommands
<1>2. /\ app \in AppRecord({{}}) /\ mac \in MacRecord /\ main \in MainRecord
      /\ timers \subseteq {"JoinReq", "TxNextPacket"} /\ mixed \in BOOLEAN /\ exposed \in BOOLEAN
  BY Types, Zenon DEF AppInv
<1>3. /\ main' \in MainRecord /\ main'.pc = "top"
      /\ main'.port = main.port /\ main'.size = main.size /\ main'.ack = main.ack
  <2>1. "top" \in Labels
    BY Zenon DEF Labels
  <2> QED
    BY <1>1, <1>2, <2>1, GotoType, Zenon
<1>4. CASE mac.busy \/ mac.off
  <2>1. UNCHANGED <<app, mac>>
    BY <1>4, Zenon DEF FlushMacCommands
  <2>2. AppTypeOK'
    BY <1>1, <1>2, <1>3, <2>1, TypesNext, Zenon
  <2>3. BusyIsPending' /\ NoLostWakeUp' /\ EveryFrameReported' /\ FrameIsPrepared'
    BY <1>1, <1>4, <2>1, Zenon DEF AppInv, BusyIsPending, NoLostWakeUp, EveryFrameReported,
       FrameIsPrepared
  <2>4. OneTurn'
    BY <1>1, <1>3, <2>1, Zenon DEF AppInv, OneTurn, Sending
  <2> QED
    BY <2>2, <2>3, <2>4, Zenon DEF AppInv
<1>5. CASE ~(mac.busy \/ mac.off)
  <2>1. Accepted(FALSE)
    BY <1>5, Zenon DEF FlushMacCommands
  <2>2. FrameIsPrepared'
    BY <1>1, Zenon DEF AppInv, FrameIsPrepared
  <2>3. AppTypeOK' /\ BusyIsPending' /\ NoLostWakeUp' /\ EveryFrameReported' /\ OneTurn'
    BY <1>1, <1>2, <1>3, <2>1, AcceptedStep, Zenon
  <2> QED
    BY <2>2, <2>3, Zenon DEF AppInv
<1> QED
  BY <1>4, <1>5, Zenon

(* LoRaMacSendFrame preserves the invariant. *)
LEMMA LoRaMacSendFrameStep ==
    ASSUME AppInv, LoRaMacSendFrame
    PROVE  AppInv'
<1>1. PICK status \in Statuses :
        /\ main' = [pc |-> IF status = 3 THEN "flush" ELSE "top",
                    port |-> 0, size |-> "none", ack |-> FALSE]
        /\ IF status = 0
           THEN /\ Accepted(main.ack)
                /\ mixed' = (mixed \/ (~exposed /\ CoapFrame #
                               [port |-> main.port, data |-> app.AppData, size |-> main.size]))
           ELSE UNCHANGED <<app, mac, mixed>>
  BY Zenon DEF LoRaMacSendFrame
<1>2. main.pc = "request" /\ UNCHANGED <<timers, exposed>>
  BY Zenon DEF LoRaMacSendFrame
<1>3. /\ app \in AppRecord({{}}) /\ mac \in MacRecord /\ main \in MainRecord
      /\ timers \subseteq {"JoinReq", "TxNextPacket"} /\ mixed \in BOOLEAN /\ exposed \in BOOLEAN
  BY Types, Zenon DEF AppInv
<1>4. /\ main' \in MainRecord /\ main'.pc = (IF status = 3 THEN "flush" ELSE "top")
      /\ main'.port = 0 /\ main'.size = "none" /\ main'.ack = FALSE
  <2>1. (IF status = 3 THEN "flush" ELSE "top") \in Labels
    BY Zenon DEF Labels
  <2>2. "none" \in Sizes /\ 0 \in {0, 10, 224} /\ FALSE \in BOOLEAN
    BY Zenon DEF Sizes, Content
  <2> QED
    BY <1>1, <2>1, <2>2, Zenon DEF MainRecord
<1>5. CASE status = 0
  <2>1. Accepted(main.ack) /\ main'.pc = "top"
    BY <1>1, <1>4, <1>5, SMT
  <2>2. FrameIsPrepared'
    <3>1. ~exposed => main.port = 10 /\ app.AppData = "coap" /\ main.size = "coap"
      BY <1>2, Zenon DEF AppInv, OneTurn
    <3> QED
      BY <1>1, <1>5, <3>1, Zenon DEF AppInv, FrameIsPrepared, CoapFrame
  <2>3. mixed' \in BOOLEAN /\ main.ack \in BOOLEAN /\ (~exposed => ~main.ack)
    BY <1>1, <1>3, <1>5, Fields, Zenon DEF AppInv, OneTurn
  <2>4. AppTypeOK' /\ BusyIsPending' /\ NoLostWakeUp' /\ EveryFrameReported' /\ OneTurn'
    BY <1>2, <1>4, <2>1, <2>3, AcceptedStep, Zenon
  <2> QED
    BY <2>2, <2>4, Zenon DEF AppInv
<1>6. CASE status # 0
  <2>1. UNCHANGED <<app, mac, mixed>>
    BY <1>1, <1>6, Zenon
  <2>2. AppTypeOK /\ AppTypeOK'
    BY <1>2, <1>3, <1>4, <2>1, TypesNext, Zenon DEF AppInv
  <2>3. BusyIsPending' /\ EveryFrameReported' /\ FrameIsPrepared'
    BY <2>1, Zenon DEF AppInv, BusyIsPending, EveryFrameReported, FrameIsPrepared
  <2>4. mac.busy \/ mac.off \/ status = 3
    BY <1>6, Zenon DEF Statuses
  <2>5. NoLostWakeUp'
    BY <1>4, <2>1, <2>4, Zenon DEF NoLostWakeUp
  <2>6. main'.pc \in {"top", "flush"}
    BY <1>4, Zenon
  <2>7. OneTurn'
    BY <1>2, <1>4, <2>1, <2>6, Zenon DEF AppInv, OneTurn, Sending
  <2> QED
    BY <2>2, <2>3, <2>5, <2>7, Zenon DEF AppInv
<1> QED
  BY <1>5, <1>6, Zenon

(* A state check, over or not, with or without an indication. *)
LEMMA OnMacStateCheckStep ==
    ASSUME AppInv, NEW over \in BOOLEAN, NEW ind \in BOOLEAN, NEW ok \in BOOLEAN,
           NEW dl \in Received,
           OnMacStateCheck(over, ind, ok, dl), over \/ ind, ~over => mac.confirmed
    PROVE  AppInv'
<1> DEFINE tx == over /\ mac.McpsReq
<1>1. /\ app \in AppRecord({{}}) /\ mac \in MacRecord /\ main \in MainRecord
      /\ timers \subseteq {"JoinReq", "TxNextPacket"} /\ mixed \in BOOLEAN /\ exposed \in BOOLEAN
  BY Types, Zenon DEF AppInv
<1>2. mac.McpsReq \in BOOLEAN /\ mac.MlmeReq \in BOOLEAN /\ mac.off \in BOOLEAN /\ mac.confirmed \in BOOLEAN
      /\ mac.MlmeRequest \in {"none", "join", "link"}
  BY <1>1, Zenon DEF MacRecord
<1>3. mac.busy /\ UNCHANGED <<main, mixed>> /\ app' = Reported(over, ind, ok, dl)
      /\ exposed' = (exposed \/ app'.Running)
  BY Zenon DEF OnMacStateCheck
<1>4. Outcome(app, app', tx)
  <2>1. ind \/ (over /\ (mac.McpsReq \/ mac.MlmeReq))
    BY <1>3, Zenon DEF AppInv, BusyIsPending
  <2>2. Outcome(app, Reported(over, ind, ok, dl), over /\ mac.McpsReq)
    BY <1>1, <1>2, <2>1, ReportedOutcome
  <2> QED
    BY <1>3, <2>2, Zenon
<1>5. timers' \subseteq timers
  <2>1. timers' = IF app'.IsNetworkJoined /\ ~app.IsNetworkJoined THEN timers \ {"JoinReq"} ELSE timers
    BY Zenon DEF OnMacStateCheck
  <2> QED
    BY <2>1, Zenon
<1>6. /\ mac' \in MacRecord /\ (mac'.busy <=> ~over) /\ (mac'.confirmed <=> mac.confirmed /\ ~over)
      /\ (mac'.McpsReq <=> mac.McpsReq /\ ~over)
      /\ ~over => (mac'.MlmeReq <=> mac.MlmeReq)
  <2>1. PICK asked \in {FALSE, over /\ LinkCheckAsked(ind, dl)} :
          mac' = [busy |-> ~over, confirmed |-> mac.confirmed /\ ~over, off |-> mac.off \/ dl.off,
                  McpsReq |-> mac.McpsReq /\ ~over, MlmeReq |-> (mac.MlmeReq /\ ~over) \/ asked,
                  MlmeRequest |-> IF asked THEN "link" ELSE IF over THEN "none" ELSE mac.MlmeRequest]
    BY Zenon DEF OnMacStateCheck
  <2>2. ~over => ~asked
    BY <2>1, Zenon
  <2>3. (IF asked THEN "link" ELSE IF over THEN "none" ELSE mac.MlmeRequest) \in {"none",
               "join", "link"}
    BY <1>2, Zenon
  <2>4. mac' \in MacRecord
    BY <2>1, <2>3, Zenon DEF MacRecord
  <2> QED
    BY <2>1, <2>2, <2>4, Zenon
<1>7. AppTypeOK'
  <2>1. app' \in AppRecord({{}})
    BY <1>4, Zenon DEF Outcome
  <2>2. exposed' \in BOOLEAN /\ mixed' \in BOOLEAN /\ main' \in MainRecord
    BY <1>1, <1>3, Zenon
  <2>3. timers' \subseteq {"JoinReq", "TxNextPacket"}
    BY <1>1, <1>5, Zenon
  <2> QED
    BY <1>6, <2>1, <2>2, <2>3, TypesNext, Zenon
<1>8. BusyIsPending'
  BY <1>3, <1>6, Zenon DEF AppInv, BusyIsPending
<1>9. NoLostWakeUp'
  BY <1>4, Zenon DEF NoLostWakeUp, Outcome
<1>10. EveryFrameReported'
  BY <1>2, <1>3, <1>4, <1>6, Zenon DEF AppInv, EveryFrameReported, Outcome
<1>11. OneTurn'
  <2>1. SUFFICES ASSUME ~exposed'
                 PROVE  OneTurn'
    BY Zenon DEF OneTurn
  <2>2. ~exposed /\ ~app'.Running
    BY <1>3, <2>1, Zenon
  <2>3. /\ app.IsNetworkJoined /\ ~app.Running /\ app.AppPort = 10 /\ ~app.IsTxConfirmed
        /\ ~mac.confirmed /\ ~main.ack
        /\ "JoinReq" \notin timers /\ main.pc \notin {"join", "join timer"}
        /\ main.pc \notin {"schedule"} \cup Sending
        /\ ~app.TxNextPacket /\ ~app.ScheduleNextTx /\ "TxNextPacket" \notin timers
    BY <1>3, <2>2, Zenon DEF AppInv, OneTurn
  <2>4. /\ app'.IsNetworkJoined /\ app'.AppPort = 10 /\ ~app'.IsTxConfirmed /\ ~app'.TxNextPacket
    BY <1>4, <2>2, <2>3, Zenon DEF Outcome, SameTest
  <2>5. ~mac'.busy /\ ~mac'.confirmed
    BY <1>6, <2>3, Zenon
  <2>6. "JoinReq" \notin timers' /\ "TxNextPacket" \notin timers'
    BY <1>5, <2>3, Zenon
  <2>7. main' = main /\ main.pc \notin {"size", "send", "request"}
    BY <1>3, <2>3, Zenon DEF Sending
  <2> QED
    BY <2>2, <2>3, <2>4, <2>5, <2>6, <2>7, Zenon DEF OneTurn
<1>12. FrameIsPrepared'
  BY <1>3, Zenon DEF AppInv, FrameIsPrepared
<1> QED
  BY <1>7, <1>8, <1>9, <1>10, <1>11, <1>12, Zenon DEF AppInv

(* The invariant holds after the initialisations of main, whatever the     *)
(* build.                                                                  *)
LEMMA AppInvInit ==
    ASSUME AppInit
    PROVE  AppInv
<1>1. PICK ota \in OverTheAir :
        app = [IsNetworkJoined |-> ~ota, TxNextPacket |-> TRUE, ScheduleNextTx |-> FALSE,
               AppPort |-> 10, IsTxConfirmed |-> FALSE, AppData |-> "none", AppDataSize |-> "max",
               Running |-> FALSE, State |-> 0, LinkCheck |-> FALSE, EventFlags |-> {},
               TxSeen |-> TRUE]
  BY Zenon DEF AppInit
<1>2. /\ mac = [busy |-> FALSE, confirmed |-> FALSE, off |-> FALSE,
                McpsReq |-> FALSE, MlmeReq |-> FALSE, MlmeRequest |-> "none"]
      /\ main = [pc |-> "top", port |-> 0, size |-> "none", ack |-> FALSE]
      /\ timers = {} /\ mixed = FALSE /\ exposed = ~app.IsNetworkJoined
  BY Zenon DEF AppInit
<1>3. app \in AppRecord({{}})
  <2>1. (~ota) \in BOOLEAN
    BY <1>1, ApplicationAssumption, Zenon
  <2>2. "none" \in Content /\ "max" \in Sizes
    BY Zenon DEF Content, Sizes
  <2> QED
    BY <1>1, <2>1, <2>2, Values, ZenonT(60) DEF AppRecord
<1>4. mac \in MacRecord /\ main \in MainRecord
  BY <1>2, Zenon DEF MacRecord, MainRecord, Labels, Sizes, Content
<1>5. AppTypeOK
  BY <1>2, <1>3, <1>4, Types, Zenon
<1>6. /\ app.TxNextPacket /\ ~app.ScheduleNextTx /\ app.AppPort = 10 /\ ~app.IsTxConfirmed
      /\ ~app.Running /\ app.TxSeen
  BY <1>1, Zenon
<1>7. BusyIsPending /\ NoLostWakeUp /\ EveryFrameReported /\ FrameIsPrepared
  BY <1>2, <1>6, Zenon DEF BusyIsPending, NoLostWakeUp, EveryFrameReported, FrameIsPrepared
<1>8. OneTurn
  BY <1>2, <1>6, Zenon DEF OneTurn, Sending
<1> QED
  BY <1>5, <1>7, <1>8, Zenon DEF AppInv

(* Every step of the main loop and every interrupt preserves the           *)
(* invariant.                                                              *)
LEMMA AppInvNext ==
    ASSUME AppInv, [AppNext]_appVars
    PROVE  AppInv'
<1>1. \A dl \in Downlink : dl \in Received
  BY ApplicationAssumption, Zenon DEF Received, States
<1>2. NoDownlink \in Received
  BY SMT DEF NoDownlink, Received, States
<1>3. mac.MlmeReq \in BOOLEAN /\ TRUE \in BOOLEAN /\ FALSE \in BOOLEAN
  BY Fields, ZenonT(60) DEF AppInv
<1>4. CASE MainLoop
  BY <1>4, WhileNotJoinedStep, LoRaMacJoinReqStep, StartJoinReqTimerStep, TestScheduleNextTxStep,
     ScheduleNextTxStep, TestTxNextPacketStep, PrepareTxFrameStep, SetAppDataSizeStep,
            SendFrameStep,
     LoRaMacSendFrameStep, FlushMacCommandsStep, Zenon DEF MainLoop
<1>5. CASE ExchangeEnds
  <2>1. PICK ok \in {FALSE, mac.MlmeReq} :
          \/ OnMacStateCheck(TRUE, FALSE, ok, NoDownlink)
          \/ \E dl \in Downlink : OnMacStateCheck(TRUE, TRUE, ok, dl)
    BY <1>5, Zenon DEF ExchangeEnds
  <2>2. ok \in BOOLEAN
    BY <1>3, Zenon
  <2>3. CASE OnMacStateCheck(TRUE, FALSE, ok, NoDownlink)
    BY <1>2, <1>3, <2>2, <2>3, OnMacStateCheckStep, Zenon
  <2>4. CASE \E dl \in Downlink : OnMacStateCheck(TRUE, TRUE, ok, dl)
    BY <1>1, <1>3, <2>2, <2>4, OnMacStateCheckStep, Zenon
  <2> QED
    BY <2>1, <2>3, <2>4, Zenon
<1>6. CASE IndicationWhileBusy
  <2>1. mac.confirmed /\ \E dl \in Downlink : OnMacStateCheck(FALSE, TRUE, FALSE, dl)
    BY <1>6, Zenon DEF IndicationWhileBusy
  <2> QED
    BY <1>1, <1>3, <2>1, OnMacStateCheckStep, Zenon
<1>7. CASE \E t \in {"JoinReq", "TxNextPacket"} : OnTimerEvent(t)
  BY <1>7, OnTimerEventStep, Zenon
<1>8. CASE UNCHANGED appVars
  <2>1. UNCHANGED <<app, mac, main, timers, mixed, exposed>>
    BY <1>8, Zenon DEF appVars
  <2>2. AppTypeOK'
    BY <2>1, Types, TypesNext, Zenon DEF AppInv
  <2>3. BusyIsPending' /\ NoLostWakeUp' /\ EveryFrameReported' /\ FrameIsPrepared'
    BY <2>1, Zenon DEF AppInv, BusyIsPending, NoLostWakeUp, EveryFrameReported, FrameIsPrepared
  <2>4. OneTurn'
    BY <2>1, Zenon DEF AppInv, OneTurn
  <2> QED
    BY <2>2, <2>3, <2>4, Zenon DEF AppInv
<1> QED
  BY <1>4, <1>5, <1>6, <1>7, <1>8, Zenon DEF AppNext

-----------------------------------------------------------------------------
(***************************************************************************)
(* Theorems.                                                               *)
(***************************************************************************)

(* The inductive invariant of the application. *)
THEOREM AppSafe == AppSpec => []AppInv
<1>1. AppInit => AppInv
  BY AppInvInit
<1>2. AppInv /\ [AppNext]_appVars => AppInv'
  BY AppInvNext
<1> QED
  BY <1>1, <1>2, PTL DEF AppSpec

(* Every field keeps its type, and no event flag is left over between two  *)
(* callbacks of the MAC, whatever the downlinks and the build.             *)
THEOREM AppTypeCorrect == AppSpec => []AppTypeOK
<1>1. AppInv => AppTypeOK
  BY Zenon DEF AppInv
<1> QED
  BY <1>1, AppSafe, PTL

(* The handshake of TxNextPacket, ScheduleNextTx, the timer and the MAC's  *)
(* callbacks (main-api-v3.c) loses no wake-up, wherever an interrupt       *)
(* falls between two steps of the main loop.                               *)
THEOREM WakeUpKept == AppSpec => []NoLostWakeUp
<1>1. AppInv => NoLostWakeUp
  BY Zenon DEF AppInv
<1> QED
  BY <1>1, AppSafe, PTL

(* Every frame LoRaMacSendFrame accepted is reported as transmitted by     *)
(* the time the MAC is idle again, whichever of McpsConfirm, MlmeConfirm   *)
(* and McpsIndication makes the event.                                     *)
THEOREM FrameReported == AppSpec => []EveryFrameReported
<1>1. AppInv => EveryFrameReported
  BY Zenon DEF AppInv
<1> QED
  BY <1>1, AppSafe, PTL

(* A device activated by personalisation that ran no compliance test       *)
(* hands the MAC the CoAP message it prepared, with its own size, though   *)
(* the callbacks write into the same AppData.                              *)
THEOREM OwnFrameSent == AppSpec => []FrameIsPrepared
<1>1. AppInv => FrameIsPrepared
  BY Zenon DEF AppInv
<1> QED
  BY <1>1, AppSafe, PTL
=============================================================================
