-------------------------------- MODULE Coap --------------------------------
(***************************************************************************)
(* Building and reading a CoAP message in a buffer of fixed size           *)
(* (picocoap/coap.c), as coap_output of coapClient.c does.  A message is   *)
(* the sequence of its bytes; an offset counts from 0 as in the code.      *)
(*                                                                         *)
(* Options are added in the order of their numbers, as coap.h asks (also   *)
(* after the payload is set), and the payload is set once, as coap_output  *)
(* does: coap_set_payload would write a second one over the marker.        *)
(***************************************************************************)
EXTENDS Naturals, SequencesExt

CONSTANTS PduMax,        \* max: the size of the buffer
          OptionNums, OptionLens, PayloadLens, TokenLens,
          MaxOptions     \* bounds the message, not the code

ASSUME CoapAssumption == PduMax >= 4 /\ TokenLens \subseteq 0..8 /\ 0 \notin PayloadLens

VARIABLES pdu,       \* the bytes of the message
          message    \* history: what the calls that succeeded put into it

coapVars == <<pdu, message>>

PayloadMarker == 255

(* Every byte of content is one that could be taken for the marker. *)
Bytes(n) == [i \in 1..n |-> 255]
-----------------------------------------------------------------------------
(* Reading. *)
tkl(b) == b[1] % 16

(* The value of a nibble with its extended bytes at offset i, and how many *)
(* these are.                                                              *)
Extended(b, i, nibble) ==
    CASE nibble < 13 -> nibble
      [] nibble = 13 -> b[i + 1] + 13
      [] nibble = 14 -> b[i + 1] * 256 + b[i + 2] + 269

ExtendedLen(nibble) == IF nibble < 13 THEN 0 ELSE nibble - 12

(* On an error number, length and value stay what they were. *)
coap_decode_option(b, ptr, o) ==
    IF ptr = Len(b) THEN [o EXCEPT !.err = "END_OF_PACKET"]
    ELSE LET delta  == b[ptr + 1] \div 16
             length == b[ptr + 1] % 16
             lenPtr == ptr + 1 + ExtendedLen(delta)
         IN  IF b[ptr + 1] = PayloadMarker THEN [o EXCEPT !.err = "FOUND_PAYLOAD_MARKER"]
             ELSE IF delta = 15 \/ length = 15 THEN [o EXCEPT !.err = "INVALID_PACKET"]
             ELSE [err |-> "NONE", num |-> o.num + Extended(b, ptr + 1, delta),
                   len |-> Extended(b, lenPtr, length), val |-> lenPtr + ExtendedLen(length)]

ZerothOption(b) == [err |-> "NONE", num |-> 0, len |-> 0, val |-> 4 + tkl(b)]

(* The options as coap_get_option returns them one after the other, up to  *)
(* the last decoded, which carries the error that ended the search (not    *)
(* the place of the payload that coap_get_option then returns).            *)
RECURSIVE Options(_, _)
Options(b, o) ==
    LET next == coap_decode_option(b, o.val + o.len, o)
    IN  IF next.err = "NONE" THEN <<next>> \o Options(b, next) ELSE <<next>>

Decoded(b) == Options(b, ZerothOption(b))

ReadOptions(b) ==
    [k \in 1..(Len(Decoded(b)) - 1) |->
        LET o == Decoded(b)[k] IN [num |-> o.num, val |-> SubSeq(b, o.val + 1, o.val + o.len)]]

coap_get_payload(b) ==
    LET end == Last(Decoded(b))
    IN  IF end.err = "FOUND_PAYLOAD_MARKER" THEN SubSeq(b, end.val + end.len + 2, Len(b)) ELSE <<>>

coap_get_token(b) == SubSeq(b, 5, 4 + tkl(b))
-----------------------------------------------------------------------------
(* Writing. *)

(* Mutant: the ranges of the extended forms meet one too late. *)
BugRange(n) == IF n < 13 THEN 0 ELSE IF n <= 269 THEN 1 ELSE 2

(* How many extended bytes a delta or a length takes. *)
ExtendedBytes(n) == IF n < 13 THEN 0 ELSE IF n < 269 THEN 1 ELSE 2

Nibble(n) == IF ExtendedBytes(n) = 0 THEN n ELSE 12 + ExtendedBytes(n)

Extension(n) ==
    CASE ExtendedBytes(n) = 0 -> <<>>
      [] ExtendedBytes(n) = 1 -> <<(n - 13) % 256>>
      [] ExtendedBytes(n) = 2 -> <<(n - 269) \div 256, (n - 269) % 256>>

coap_build_option_header(delta, len) ==
    <<Nibble(delta) * 16 + Nibble(len)>> \o Extension(delta) \o Extension(len)

coap_compute_option_header_len(delta, len) == 1 + ExtendedBytes(delta) + ExtendedBytes(len)

NoMessage == [ready |-> FALSE, token |-> <<>>, options |-> <<>>, payload |-> <<>>]

CoapInit == pdu = <<>> /\ message = NoMessage

(* coap_init_pdu, then version, type NON, code PUT and a message id. *)
coap_init_pdu ==
    /\ pdu' = <<64 + 16, 3, 255, 255>>
    /\ message' = [NoMessage EXCEPT !.ready = TRUE]

(* What follows the token moves with its end. *)
coap_set_token(n) ==
    /\ message.ready
    /\ IF PduMax < 4 + n \/ PduMax < Len(pdu) + n - tkl(pdu)
       THEN UNCHANGED coapVars
       ELSE /\ pdu' = <<pdu[1] - tkl(pdu) + n>> \o SubSeq(pdu, 2, 4) \o Bytes(n)
                           \o SubSeq(pdu, 5 + tkl(pdu), Len(pdu))
            /\ message' = [message EXCEPT !.token = Bytes(n)]

(* The option goes behind the last one, before the payload if there is one. *)
coap_add_option(num, len) ==
    LET last == Last(Decoded(pdu))
        ptr  == last.val + last.len
        hdr  == coap_compute_option_header_len(num - last.num, len)
    IN  /\ message.ready /\ num >= last.num /\ Len(message.options) < MaxOptions
        /\ IF PduMax < Len(pdu) + hdr + len
           THEN UNCHANGED coapVars
           ELSE /\ pdu' = SubSeq(pdu, 1, ptr) \o coap_build_option_header(num - last.num, len)
                             \o Bytes(len) \o SubSeq(pdu, ptr + 1, Len(pdu))
                /\ message' = [message EXCEPT !.options = Append(@, [num |-> num, val |-> Bytes(len)])]

coap_set_payload(n) ==
    /\ message.ready /\ message.payload = <<>>
    /\ IF PduMax < Len(pdu) + n + 1
       THEN UNCHANGED coapVars
       ELSE /\ pdu' = Append(pdu, PayloadMarker) \o Bytes(n)
            /\ message' = [message EXCEPT !.payload = Bytes(n)]

CoapNext ==
    \/ coap_init_pdu
    \/ \E n \in TokenLens : coap_set_token(n)
    \/ \E num \in OptionNums, len \in OptionLens : coap_add_option(num, len)
    \/ \E n \in PayloadLens : coap_set_payload(n)

CoapSpec == CoapInit /\ [][CoapNext]_coapVars
-----------------------------------------------------------------------------
(***************************************************************************)
(* Properties.                                                             *)
(***************************************************************************)
(* The message is a sequence of bytes that fits its buffer. *)
CoapTypeOK == /\ \A i \in DOMAIN pdu : pdu[i] \in 0..255
              /\ Len(pdu) <= PduMax
              /\ message.ready \in BOOLEAN

(* A message reads as it was built: the getters return exactly the token,  *)
(* the options in order and the payload of the calls that succeeded, for   *)
(* every order of the calls, at the limits of the extended encodings and   *)
(* of the buffer, though every content byte looks like a payload marker.   *)
(* A call that is refused for want of room leaves the message as it was.   *)
CoapMessageIsRead ==
    message.ready =>
        /\ coap_get_token(pdu) = message.token
        /\ ReadOptions(pdu) = message.options
        /\ coap_get_payload(pdu) = message.payload
=============================================================================
