---------------------------- MODULE MacCommands ----------------------------
(***************************************************************************)
(* The MAC commands an end device sends: the answers to the requests of    *)
(* the network and the link check request are collected in                 *)
(* MacCommandsBuffer, leave with the next data frame, and the answers to   *)
(* RXParamSetupReq and RXTimingSetupReq are repeated in every frame until  *)
(* a downlink shows that the network has heard them.  The commands are     *)
(* modelled byte by byte, because ParseMacCommandsToRepeat is.             *)
(***************************************************************************)
EXTENDS Integers, Sequences, SequencesExt

CONSTANTS
    LORA_MAC_COMMAND_MAX_LENGTH,  \* size of both buffers
    Answers,       \* the answers ProcessMacCommands can give, as byte sequences
    MaxRequests    \* bound: requests of the network heard between two frames

MOTE_MAC_LINK_CHECK_REQ == 2
MOTE_MAC_RX_PARAM_SETUP_ANS == 5
MOTE_MAC_RX_TIMING_SETUP_ANS == 8

\* An answer is its identifier (3 to 8) and at most two bytes of status.
ASSUME MacCommandsAssumption ==
    /\ LORA_MAC_COMMAND_MAX_LENGTH \in Nat
    /\ MaxRequests \in Nat
    /\ \A a \in Answers :
         /\ a \in Seq(0..255)
         /\ Len(a) \in 1..3
         /\ a[1] \in 3..8

VARIABLES
    cmds,      \* MacCommandsBuffer, MacCommandsBufferToRepeat, their indices,
               \* and MacCommandsInNextTx
    newCmds,   \* history: the commands accepted since the last frame
    unheard,   \* history: the answers to repeat that no downlink followed
    frameCmds  \* the commands of the frame just prepared, in FOpts or on port 0

cmdVars == <<cmds, newCmds, unheard, frameCmds>>

\* The static arrays start zeroed.
CommandsInit ==
    /\ cmds = [buffer |-> [i \in 1..LORA_MAC_COMMAND_MAX_LENGTH |-> 0], index |-> 0,
               repeat |-> <<>>, inNextTx |-> FALSE]
    /\ newCmds = <<>> /\ unheard = <<>> /\ frameCmds = <<>>

\* The buffer b with the bytes s written from position i on (counted from 0).
Written(b, i, s) ==
    [j \in DOMAIN b |-> IF j - i \in DOMAIN s THEN s[j - i] ELSE b[j]]

\* AddMacCommand leaves room for the answers to repeat; a command that does not
\* fit is refused, and its answer is never given.
HasRoom(c, a) ==
    c.index + Len(a) <= LORA_MAC_COMMAND_MAX_LENGTH - Len(c.repeat)

\* The result of AddMacCommand, with the history of what it accepted.
AddMacCommand(q, a) ==
    IF HasRoom(q.c, a)
    THEN [c |-> [q.c EXCEPT !.buffer = Written(@, q.c.index, a), !.index = @ + Len(a),
                            !.inNextTx = TRUE],
          added |-> Append(q.added, a)]
    ELSE q

\* The commands the code keeps for repetition, out of the first len bytes of b.
\* Every byte is looked at as a command, the status bytes too, and three bytes
\* are taken for an RXParamSetupAns.  (MaxRequests keeps the instances away from
\* the end of the array, where the third byte would be read beyond it.)
ParseMacCommandsToRepeat(b, len) ==
    LET parse[i \in 1..len + 3] ==
            IF i > len THEN <<>>
            ELSE IF b[i] = MOTE_MAC_RX_PARAM_SETUP_ANS
            THEN <<b[i], b[i + 1], b[i + 2]>> \o parse[i + 3]
            ELSE IF b[i] = MOTE_MAC_RX_TIMING_SETUP_ANS
            THEN <<b[i]>> \o parse[i + 1]
            ELSE parse[i + 1]
    IN  parse[1]

\* Mutant: the answers stay to be repeated after a downlink.
BugRepeatKept(answers) ==
    /\ Len(newCmds) + Len(answers) <= MaxRequests
    /\ LET q == FoldLeft(AddMacCommand, [c |-> cmds, added |-> <<>>], answers)
       IN  /\ cmds' = q.c
           /\ newCmds' = newCmds \o q.added
    /\ unheard' = <<>>
    /\ frameCmds' = <<>>

\* A valid downlink arrives: OnRadioRxDone forgets the answers to repeat, and
\* ProcessMacCommands answers its requests one by one.
DownlinkRequests(answers) ==
    /\ Len(newCmds) + Len(answers) <= MaxRequests
    /\ LET q == FoldLeft(AddMacCommand, [c |-> [cmds EXCEPT !.repeat = <<>>], added |-> <<>>],
                         answers)
       IN  /\ cmds' = q.c
           /\ newCmds' = newCmds \o q.added
    /\ unheard' = <<>>
    /\ frameCmds' = <<>>

\* LoRaMacMlmeRequest(MLME_LINK_CHECK).
LinkCheckReq ==
    /\ Len(newCmds) < MaxRequests
    /\ LET q == AddMacCommand([c |-> cmds, added |-> <<>>], <<MOTE_MAC_LINK_CHECK_REQ>>)
       IN  /\ cmds' = q.c
           /\ newCmds' = newCmds \o q.added
    /\ frameCmds' = <<>>
    /\ UNCHANGED unheard

\* Whether an answer has to be repeated until a downlink is heard.
Sticky(a) == a[1] \in {MOTE_MAC_RX_PARAM_SETUP_ANS, MOTE_MAC_RX_TIMING_SETUP_ANS}

\* PrepareFrame for a data frame that ValidatePayloadLength lets pass (the early
\* return before it leaves this state alone): the answers to repeat are appended,
\* everything is sent in FOpts or, without a payload of the application, as the
\* payload of port 0, and what must be repeated is collected again.
PrepareFrame(withPayload) ==
    LET len == cmds.index + Len(cmds.repeat)
        buffer == Written(cmds.buffer, cmds.index, cmds.repeat)
        repeat == ParseMacCommandsToRepeat(buffer, len)
    IN  /\ frameCmds' = IF cmds.inNextTx /\ (withPayload => len <= LORA_MAC_COMMAND_MAX_LENGTH)
                        THEN SubSeq(buffer, 1, len) ELSE <<>>
        /\ cmds' = [buffer |-> buffer, index |-> 0, repeat |-> repeat,
                    inNextTx |-> repeat # <<>>]
        /\ unheard' = SelectSeq(newCmds \o unheard, Sticky)
        /\ newCmds' = <<>>

\* ResetMacParameters, called by a join request.
ResetCommands ==
    /\ cmds' = [cmds EXCEPT !.index = 0, !.repeat = <<>>, !.inNextTx = FALSE]
    /\ newCmds' = <<>> /\ unheard' = <<>>
    /\ frameCmds' = <<>>

CommandsNext ==
    \/ \E answers \in SeqOf(Answers, MaxRequests) : DownlinkRequests(answers)
    \/ LinkCheckReq
    \/ \E withPayload \in BOOLEAN : PrepareFrame(withPayload)
    \/ ResetCommands

CommandsSpec == CommandsInit /\ [][CommandsNext]_cmdVars
-----------------------------------------------------------------------------
(***************************************************************************)
(* Properties.                                                             *)
(***************************************************************************)

\* The indices stay within the two buffers of LoRaMac.c:181-201, and together
\* within the one that PrepareFrame copies both into.
CommandsTypeOK ==
    /\ cmds.index + Len(cmds.repeat) \in 0..LORA_MAC_COMMAND_MAX_LENGTH
    /\ cmds.buffer \in [1..LORA_MAC_COMMAND_MAX_LENGTH -> 0..255]
    /\ cmds.inNextTx \in BOOLEAN

\* A data frame carries the commands accepted since the frame before it, in the
\* order of the requests, then the answers to RXParamSetupReq and
\* RXTimingSetupReq that no downlink has followed yet, and no other byte
\* (AddMacCommand, PrepareFrame, ParseMacCommandsToRepeat).  It holds as long as
\* no answer is an RXParamSetupAns, or has a status byte that reads as one of the
\* commands to repeat.
AnswersAreSent ==
    [][\A withPayload \in BOOLEAN :
         PrepareFrame(withPayload) => frameCmds' = FlattenSeq(newCmds \o unheard)]_cmdVars
=============================================================================
