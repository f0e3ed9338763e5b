-------------------------------- MODULE Pacp --------------------------------
(***************************************************************************)
(* The EAPOL and EAP codecs: crates/pacp.                                  *)
(*                                                                         *)
(* Octets are numbers below Octets, so that a two-octet length is two      *)
(* digits.  The addresses and the EtherType of an Ethernet header, which   *)
(* no decoder looks into, are one cell each.  All decoding errors are one, *)
(* as they are to every caller.                                            *)
(***************************************************************************)
EXTENDS Naturals, Sequences

CONSTANT Octets   \* 256

ASSUME PacpAssumption == Octets \in Nat /\ Octets > 1

Decoded(v) == [ok |-> TRUE, val |-> v]
Rejected(v) == [ok |-> FALSE, val |-> v]

from_be_bytes(hi, lo) == hi * Octets + lo
to_be_bytes(n) == <<n \div Octets, n % Octets>>

-----------------------------------------------------------------------------
(* eap *)

EAP_HEADER_LEN == 4
MIN_REQUEST_RESPONSE_LEN == 5

EapCode(v) ==
  CASE v = 1 -> "Request" [] v = 2 -> "Response" [] v = 3 -> "Success"
    [] v = 4 -> "Failure" [] OTHER -> "Unknown"

\* Only Identity is told apart from the other methods.
EapType(v) == IF v = 1 THEN "Identity" ELSE "Other"

request_identity(identifier) == <<1, identifier>> \o to_be_bytes(5) \o <<1>>

\* Faulty variant: octets after the declared length are let pass.
EapPacket_decode_lenient(buf) ==
  LET declared == from_be_bytes(buf[3], buf[4])
      code == EapCode(buf[1])
      typed == code \in {"Request", "Response"}
  IN  IF /\ Len(buf) >= EAP_HEADER_LEN /\ declared <= Len(buf)
         /\ typed => declared >= MIN_REQUEST_RESPONSE_LEN
         /\ code \in {"Success", "Failure"} => declared = EAP_HEADER_LEN
      THEN Decoded([code |-> code, identifier |-> buf[2],
                    eap_type |-> IF typed THEN EapType(buf[5]) ELSE "None",
                    type_data |-> IF typed THEN SubSeq(buf, 6, declared) ELSE <<>>])
      ELSE Rejected(buf)

\* The declared length is the buffer's, and right for the code.
EapPacket_decode(buf) ==
  LET declared == from_be_bytes(buf[3], buf[4])
      code == EapCode(buf[1])
      typed == code \in {"Request", "Response"}
  IN  IF /\ Len(buf) >= EAP_HEADER_LEN /\ declared = Len(buf)
         /\ typed => declared >= MIN_REQUEST_RESPONSE_LEN
         /\ code \in {"Success", "Failure"} => declared = EAP_HEADER_LEN
      THEN Decoded([code |-> code, identifier |-> buf[2],
                    eap_type |-> IF typed THEN EapType(buf[5]) ELSE "None",
                    type_data |-> IF typed THEN SubSeq(buf, 6, declared) ELSE <<>>])
      ELSE Rejected(buf)

\* p.identity(): an EAP-Response/Identity has one.
has_identity(p) == p.code = "Response" /\ p.eap_type = "Identity"

-----------------------------------------------------------------------------
(* pdu *)

HEADER_LEN == 4
PROTOCOL_VERSION_2010 == 3

\* Key, MKA and announcement packets are all passed over.
PacketType(v) ==
  CASE v = 0 -> "Eap" [] v = 1 -> "Start" [] v = 2 -> "Logoff" [] OTHER -> "Other"

\* Faulty variant: padding is not expected.
EapolPdu_decode_exact(buf) ==
  LET declared == from_be_bytes(buf[3], buf[4])
  IN  IF Len(buf) >= HEADER_LEN /\ HEADER_LEN + declared = Len(buf)
      THEN Decoded([packet_type |-> PacketType(buf[2]),
                    body |-> SubSeq(buf, HEADER_LEN + 1, HEADER_LEN + declared)])
      ELSE Rejected(buf)

\* The declared length is what there is, or less.
EapolPdu_decode(buf) ==
  LET declared == from_be_bytes(buf[3], buf[4])
  IN  IF Len(buf) >= HEADER_LEN /\ HEADER_LEN + declared <= Len(buf)
      THEN Decoded([packet_type |-> PacketType(buf[2]),
                    body |-> SubSeq(buf, HEADER_LEN + 1, HEADER_LEN + declared)])
      ELSE Rejected(buf)

\* Faulty variant: the header is counted.
encode_into_counts_header(body) ==
  IF Len(body) >= Octets * Octets THEN Rejected(body)
  ELSE Decoded(<<PROTOCOL_VERSION_2010, 0>> \o to_be_bytes(HEADER_LEN + Len(body)) \o body)

\* An EAPOL-EAP packet; a body too long for the length field is refused.
encode_into(body) ==
  IF Len(body) >= Octets * Octets THEN Rejected(body)
  ELSE Decoded(<<PROTOCOL_VERSION_2010, 0>> \o to_be_bytes(Len(body)) \o body)

-----------------------------------------------------------------------------
(* ethernet *)

ETHERNET_HEADER_LEN == 3
ETHERTYPE_EAPOL == "888E"

encode_frame(body, dst, src) ==
  LET pdu == encode_into(body)
  IN  [pdu EXCEPT !.val = <<dst, src, ETHERTYPE_EAPOL>> \o @]

decode_eapol_frame(buf) ==
  IF Len(buf) >= ETHERNET_HEADER_LEN /\ buf[3] = ETHERTYPE_EAPOL
  THEN Decoded([dst |-> buf[1], src |-> buf[2],
                payload |-> SubSeq(buf, ETHERNET_HEADER_LEN + 1, Len(buf))])
  ELSE Rejected(buf)

decode_frame(buf) ==
  LET frame == decode_eapol_frame(buf)
      pdu == EapolPdu_decode(frame.val.payload)
  IN  IF frame.ok /\ pdu.ok
      THEN Decoded([src |-> frame.val.src, packet_type |-> pdu.val.packet_type,
                    body |-> pdu.val.body])
      ELSE Rejected(buf)
=============================================================================
