-------------------------------- MODULE Schc --------------------------------
(***************************************************************************)
(* The SCHC header compression between IPv6 and LoRaWAN                    *)
(* (schcCompressor.c).  Input and output unpack a header into the same     *)
(* global structures ipv6_header and udp_header, which keep the fields of  *)
(* the packet before until they are written.                               *)
(*                                                                         *)
(* A packet is its 48 header bytes, as fields, and its data, of which the  *)
(* size is kept.  Prefix1 and Prefix2, and IID1 and IID2, are one field    *)
(* each.  What the server does with a packet is external: it holds the     *)
(* same static context.  Calls do not overlap (FrameIsPrepared of module   *)
(* Application).                                                           *)
(***************************************************************************)
EXTENDS Naturals

CONSTANTS Uplinks,     \* the packets lwIP may send
          Downlinks    \* the packets that may be addressed to the device

VARIABLES schcHeader,  \* ipv6_header and udp_header
          schcLast     \* history: the last packet, as sent and as it arrived

schcVars == <<schcHeader, schcLast>>

UDP_HLEN == 8
DevEui   == "00AF008589A1001F"

F(target, matchingOperator, action) ==
    [targetValue |-> target, matchingOperator |-> matchingOperator, action |-> action]

(* initializeRules: rule 1 is for messages to the server, rule 2 for its   *)
(* answers.                                                                *)
rule1 ==
    [version   |-> F(6, "equal", "NOTSENT"),
     tclass    |-> F(0, "equal", "NOTSENT"),
     flabel    |-> F(0, "equal", "NOTSENT"),
     paylength |-> F(0, "ignore", "COMPUTELENGTH"),
     nheader   |-> F(17, "equal", "NOTSENT"),
     hlimit    |-> F(255, "ignore", "NOTSENT"),
     srcPrefix |-> F("device", "equal", "NOTSENT"),
     srcIID    |-> F("", "ignore", "BUILDIID"),
     dstPrefix |-> F("server", "equal", "NOTSENT"),
     dstIID    |-> F("server", "equal", "NOTSENT"),
     srcPort   |-> F(1086, "equal", "NOTSENT"),
     dstPort   |-> F(5683, "equal", "NOTSENT"),
     length    |-> F(0, "ignore", "COMPUTELENGTH"),
     checksum  |-> F(0, "ignore", "COMPUTECHECKSUM")]

rule2 ==
    [rule1 EXCEPT !.tclass    = F(0, "ignore", "NOTSENT"),
                  !.flabel    = F(0, "ignore", "NOTSENT"),
                  !.srcPrefix = rule1.dstPrefix, !.srcIID  = rule1.dstIID,
                  !.dstPrefix = rule1.srcPrefix, !.dstIID  = rule1.srcIID,
                  !.srcPort   = rule1.dstPort,   !.dstPort = rule1.srcPort]

rules  == <<rule1, rule2>>
Fields == DOMAIN rule1

Matches(rule, h) ==
    \A f \in Fields : rule[f].matchingOperator = "equal" => h[f] = rule[f].targetValue

(* Of the rules schc_compression tries only the first.  No field of it     *)
(* goes into the schc header, which is the rule id alone; with id 0 the    *)
(* packet follows as it is.                                                *)
schc_compression(h) == IF Matches(rules[1], h) THEN 1 ELSE 0

(* Mutant: the lengths are not computed, the old ones stay. *)
BugLengthKept(h, ruleId, tot_len) ==
    [f \in Fields |->
        CASE rules[ruleId][f].action = "NOTSENT"         -> rules[ruleId][f].targetValue
          [] rules[ruleId][f].action = "BUILDIID"        -> DevEui
          [] rules[ruleId][f].action = "COMPUTECHECKSUM" -> 0
          [] OTHER -> h[f]]

(* The fields are rebuilt in place; tot_len counts the rule id. *)
schc_decompression(h, ruleId, tot_len) ==
    [f \in Fields |->
        CASE rules[ruleId][f].action = "NOTSENT"         -> rules[ruleId][f].targetValue
          [] rules[ruleId][f].action = "BUILDIID"        -> DevEui
          [] rules[ruleId][f].action = "COMPUTECHECKSUM" -> 0
          [] rules[ruleId][f].action = "COMPUTELENGTH"   -> (tot_len % 256) + UDP_HLEN - 1
          [] OTHER -> h[f]]
-----------------------------------------------------------------------------
(* What IPv6 makes of packets: lengths that count the data (a LoRaWAN      *)
(* frame has less than 256 bytes), the default hop limit of lwIP and the   *)
(* address of the device behind its prefix.                                *)
WellFormed(p) ==
    /\ p = [header |-> p.header, size |-> p.size]
    /\ DOMAIN p.header = Fields
    /\ p.size \in Nat /\ p.size < 255
    /\ p.header.nheader = 17 => /\ p.header.paylength = UDP_HLEN + p.size
                               /\ p.header.length = UDP_HLEN + p.size

ASSUME SchcAssumption ==
    /\ \A p \in Uplinks : /\ WellFormed(p) /\ p.header.hlimit = 255
                          /\ p.header.srcPrefix = "device" => p.header.srcIID = DevEui
    /\ \A p \in Downlinks : /\ WellFormed(p)
                            /\ p.header.dstPrefix = "device" => p.header.dstIID = DevEui

EmptyHeader == [f \in Fields |-> IF f \in {"srcPrefix", "srcIID", "dstPrefix", "dstIID"} THEN "" ELSE 0]

NoPacket == [dir |-> "none", rule |-> 0]

SchcInit == schcHeader = EmptyHeader /\ schcLast = NoPacket

(* schc_output: unpack the header, compress, hand to the link.  The server *)
(* rebuilds the packet.                                                    *)
schc_output(p) ==
    LET id == schc_compression(p.header)
    IN  /\ schcHeader' = p.header
        /\ schcLast' = [dir |-> "up", rule |-> id, sent |-> p,
                        seen |-> IF id = 0 THEN p
                                 ELSE [header |-> schc_decompression(EmptyHeader, id, 1 + p.size),
                                       size |-> p.size]]

(* schc_input: a packet is taken as it is or decompressed, and given to    *)
(* ip6_input.  The server compresses with rule 2 or not at all: the code   *)
(* does not test the rule id it receives.                                  *)
schc_input(p) ==
    LET id == IF Matches(rules[2], p.header) THEN 2 ELSE 0
    IN  /\ schcHeader' = IF id = 0 THEN schcHeader
                         ELSE schc_decompression(schcHeader, id, 1 + p.size)
        /\ schcLast' = [dir |-> "down", rule |-> id, sent |-> p,
                        seen |-> IF id = 0 THEN p ELSE [header |-> schcHeader', size |-> p.size]]

SchcNext == (\E p \in Uplinks : schc_output(p)) \/ (\E p \in Downlinks : schc_input(p))

SchcSpec == SchcInit /\ [][SchcNext]_schcVars
-----------------------------------------------------------------------------
(***************************************************************************)
(* Properties.                                                             *)
(***************************************************************************)
(* The types of the header and of the last packet. *)
SchcTypeOK ==
    /\ DOMAIN schcHeader = Fields
    /\ schcLast.dir \in {"none", "up", "down"} /\ schcLast.rule \in 0..2

(* What the context gives up: the checksum, and downwards the hop limit,   *)
(* the traffic class and the flow label.                                   *)
Lost(last) ==
    IF last.rule = 0 THEN {}
    ELSE IF last.dir = "up" THEN {"checksum"} ELSE {"checksum", "hlimit", "tclass", "flabel"}

(* Compression is transparent: every packet arrives at the other side with *)
(* its data and all the fields the context does not give up, and with      *)
(* lengths that are its own, whatever packet the shared header structures  *)
(* held before.                                                            *)
SchcTransparent ==
    schcLast # NoPacket =>
        /\ schcLast.seen.size = schcLast.sent.size
        /\ \A f \in Fields \ Lost(schcLast) : schcLast.seen.header[f] = schcLast.sent.header[f]
=============================================================================
