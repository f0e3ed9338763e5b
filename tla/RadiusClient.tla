---------------------------- MODULE RadiusClient ----------------------------
(***************************************************************************)
(* RADIUS packets as the authenticator builds and reads them:              *)
(* crates/radius-client (request, accounting, reply, eap_message, sanitize *)
(* and context).                                                           *)
(*                                                                         *)
(* A packet is its code, identifier, authenticator and attributes; an      *)
(* attribute is a pair of type and value.  Hashes are free constructors:   *)
(* two are equal exactly if what was hashed is.  Octets are numbers, of    *)
(* which Unprintable stands for those that make a string unfit for a       *)
(* User-Name.  Of the NAS attributes only the Calling-Station-Id is kept,  *)
(* the others being the same in every packet of a port.                    *)
(***************************************************************************)
EXTENDS Naturals, Sequences, SequencesExt

CONSTANTS
  MAX_ATTR_VALUE,   \* 253
  Unprintable,      \* octets of control characters or of no valid UTF-8
  None

ASSUME RadiusAssumption == MAX_ATTR_VALUE \in Nat \ {0}

Ok(v) == [ok |-> TRUE, val |-> v]
Err(e) == [ok |-> FALSE, val |-> e]

-----------------------------------------------------------------------------
(* radius_proto, as it is used *)

Packet(code, identifier, authenticator, attributes) ==
  [code |-> code, identifier |-> identifier, authenticator |-> authenticator,
   attributes |-> attributes]

Zero == <<"Zero">>

Hash(how, p, authenticator, secret) ==
  <<how, p.code, p.identifier, authenticator, p.attributes, secret>>

Has(p, t) == \E i \in DOMAIN p.attributes : p.attributes[i][1] = t

\* The value of the first attribute of type t, or None.
find_attribute(p, t) ==
  LET i == SelectInSeq(p.attributes, LAMBDA a : a[1] = t)
  IN  IF i = 0 THEN None ELSE p.attributes[i][2]

-----------------------------------------------------------------------------
(* Requests *)

\* Faulty variant: the last octet of a full chunk is left out.
fragment_into_short(eap) ==
  LET n == (Len(eap) + MAX_ATTR_VALUE - 1) \div MAX_ATTR_VALUE
  IN  [i \in 1..n |->
        <<"EAP-Message", SubSeq(eap, (i - 1) * MAX_ATTR_VALUE + 1,
                                IF i = n THEN Len(eap) ELSE i * MAX_ATTR_VALUE - 1)>>]

\* Chunks of MAX_ATTR_VALUE octets, the last one shorter.
fragment_into(eap) ==
  LET n == (Len(eap) + MAX_ATTR_VALUE - 1) \div MAX_ATTR_VALUE
  IN  [i \in 1..n |->
        <<"EAP-Message", SubSeq(eap, (i - 1) * MAX_ATTR_VALUE + 1,
                                IF i = n THEN Len(eap) ELSE i * MAX_ATTR_VALUE)>>]

\* The values of the EAP-Message attributes, one after the other.
reassemble(p) ==
  LET upto[i \in 0..Len(p.attributes)] ==
        IF i = 0 THEN <<>>
        ELSE IF p.attributes[i][1] = "EAP-Message" THEN upto[i - 1] \o p.attributes[i][2]
        ELSE upto[i - 1]
  IN  upto[Len(p.attributes)]

\* The reassembled EAP packet is empty: so is every chunk.
NoEap(p) ==
  \A i \in DOMAIN p.attributes :
    p.attributes[i][1] = "EAP-Message" => p.attributes[i][2] = <<>>

\* Faulty variant: control characters pass.
user_name_any(identity) ==
  IF identity = <<>> \/ Len(identity) > MAX_ATTR_VALUE
  THEN Err("InvalidUserName") ELSE Ok(identity)

user_name(identity) ==
  IF \/ identity = <<>> \/ Len(identity) > MAX_ATTR_VALUE
     \/ \E i \in DOMAIN identity : identity[i] \in Unprintable
  THEN Err("InvalidUserName") ELSE Ok(identity)

append_nas_attributes(mac) == <<<<"Calling-Station-Id", mac>>>>

\* Every Message-Authenticator of p set to v.
WithAuthenticator(p, v) ==
  [p EXCEPT !.attributes = [i \in DOMAIN @ |->
     IF @[i][1] = "Message-Authenticator" THEN <<@[i][1], v>> ELSE @[i]]]

seal_message_authenticator(p, secret) ==
  LET q == IF Has(p, "Message-Authenticator") THEN p
           ELSE [p EXCEPT !.attributes = Append(@, <<"Message-Authenticator", Zero>>)]
      blank == WithAuthenticator(q, Zero)
  IN  WithAuthenticator(q, Hash("HMAC", blank, blank.authenticator, secret))

Optional(t, v) == IF v = None THEN <<>> ELSE <<<<t, v>>>>

access_request_eap(mac, identifier, request_authenticator, identity, state, eap, secret) ==
  CASE eap = <<>> -> Err("EmptyEapRelay")
    [] eap # <<>> /\ identity # None /\ ~user_name(identity).ok -> Err("InvalidUserName")
    [] OTHER ->
         Ok(seal_message_authenticator(
              Packet("AccessRequest", identifier, request_authenticator,
                     Optional("User-Name", identity) \o <<<<"Service-Type", "Framed">>>>
                     \o Optional("State", state) \o append_nas_attributes(mac)
                     \o fragment_into(eap)), secret))

access_request_mab(mac, identifier, request_authenticator, secret) ==
  seal_message_authenticator(
    Packet("AccessRequest", identifier, request_authenticator,
           <<<<"User-Name", mac>>, <<"Service-Type", "Call-Check">>>>
           \o append_nas_attributes(mac)), secret)

\* The Acct-Terminate-Cause of a Stop is left out.
accounting_request(mac, identifier, trigger, session_id, class, secret) ==
  LET p == Packet("AccountingRequest", identifier, Zero,
                  <<<<"Acct-Status-Type", trigger>>, <<"Acct-Session-Id", session_id>>>>
                  \o append_nas_attributes(mac) \o Optional("Class", class))
  IN  [p EXCEPT !.authenticator = Hash("MD5", p, Zero, secret)]

-----------------------------------------------------------------------------
(* Replies *)

verify_response_authenticator(reply, request_authenticator, secret) ==
  reply.authenticator = Hash("MD5", reply, request_authenticator, secret)

\* Required with EAP, and verified whenever it is present.
verify_message_authenticator(reply, request_authenticator, secret) ==
  IF Has(reply, "Message-Authenticator")
  THEN find_attribute(reply, "Message-Authenticator") =
         Hash("HMAC", WithAuthenticator(reply, Zero), request_authenticator, secret)
  ELSE ~Has(reply, "EAP-Message")

\* Faulty variant: only the Message-Authenticator is looked at, if there is one.
verify_reply_if_signed(reply, request_authenticator, secret) ==
  verify_message_authenticator(reply, request_authenticator, secret)

verify_reply(reply, request_authenticator, secret) ==
  /\ verify_response_authenticator(reply, request_authenticator, secret)
  /\ verify_message_authenticator(reply, request_authenticator, secret)

extract_state(reply) == find_attribute(reply, "State")

\* A tagged integer is a tag and a value; one of another length reads as None.
read_tagged_u32(v) == IF v # None /\ Len(v) = 2 THEN v[2] ELSE None

\* A plain integer is one number; one of another length reads as None.
read_u32(v) == IF v # None /\ Len(v) = 1 THEN v[1] ELSE None

Tags == 1..31

\* Faulty variant: a group of one tag octet alone is taken for a VLAN.
parse_vlan_keeps_tag(reply, group) ==
  LET untagged == IF Len(group) > 1 /\ group[1] \in Tags THEN Tail(group) ELSE group
  IN  IF /\ read_tagged_u32(find_attribute(reply, "Tunnel-Type")) = 13
         /\ read_tagged_u32(find_attribute(reply, "Tunnel-Medium-Type")) = 6
         /\ untagged # <<>>
      THEN Ok(untagged) ELSE Err("MalformedVlanAssignment")

parse_vlan(reply, group) ==
  LET untagged == IF group # <<>> /\ group[1] \in Tags THEN Tail(group) ELSE group
  IN  IF /\ read_tagged_u32(find_attribute(reply, "Tunnel-Type")) = 13
         /\ read_tagged_u32(find_attribute(reply, "Tunnel-Medium-Type")) = 6
         /\ untagged # <<>>
      THEN Ok(untagged) ELSE Err("MalformedVlanAssignment")

\* Faulty variant: a malformed VLAN group is passed over.
parse_authorization_drops_vlan(reply) ==
  LET group == find_attribute(reply, "Tunnel-Private-Group-ID")
      vlan == IF group = None THEN Ok(None) ELSE parse_vlan(reply, group)
  IN  Ok([vlan |-> IF vlan.ok THEN vlan.val ELSE None,
          filter_id |-> find_attribute(reply, "Filter-Id"),
          session_timeout |-> read_u32(find_attribute(reply, "Session-Timeout")),
          class |-> find_attribute(reply, "Class")])

parse_authorization(reply) ==
  LET group == find_attribute(reply, "Tunnel-Private-Group-ID")
      vlan == IF group = None THEN Ok(None) ELSE parse_vlan(reply, group)
  IN  IF ~vlan.ok THEN vlan
      ELSE Ok([vlan |-> vlan.val,
               filter_id |-> find_attribute(reply, "Filter-Id"),
               session_timeout |-> read_u32(find_attribute(reply, "Session-Timeout")),
               class |-> find_attribute(reply, "Class")])

\* The event a reply becomes; eap is <<>> where the code has None.
parse_reply(reply) ==
  LET eap == reassemble(reply)
      grant == parse_authorization(reply)
      event(type, g) == Ok([type |-> type, eap |-> eap, authorization |-> g])
  IN  CASE reply.code = "AccessChallenge" /\ NoEap(reply) -> Err("MissingEapMessage")
        [] reply.code = "AccessChallenge" /\ ~NoEap(reply) -> event(reply.code, None)
        [] reply.code = "AccessAccept" /\ ~grant.ok -> grant
        [] reply.code = "AccessAccept" /\ grant.ok -> event(reply.code, grant.val)
        [] reply.code = "AccessReject" -> event(reply.code, None)
        [] OTHER -> Err("UnexpectedReplyCode")
=============================================================================
