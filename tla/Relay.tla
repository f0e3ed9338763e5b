------------------------------- MODULE Relay --------------------------------
(***************************************************************************)
(* The path of one EAP packet through the daemon and back: a frame of a    *)
(* supplicant is received (crates/eapol-io), decoded (crates/pacp) and     *)
(* dispatched (crates/authd/src/worker.rs), its EAP packet goes to the     *)
(* authentication server (crates/radius-client), and the server's answer   *)
(* returns as a grant and as a frame to the supplicant.  RadiusSession is  *)
(* what the worker remembers of a supplicant from one round to the next.   *)
(*                                                                         *)
(* The supplicant, the server and the kernel are external.  A supplicant   *)
(* may send a frame with one wrong length, and the server an answer with a *)
(* wrong attribute.  Late, repeated and unasked packets are RadSec's       *)
(* concern: here the server answers the request that is out.  What the     *)
(* state of a supplicant lets it do is PortPae's.  The worker takes one    *)
(* frame at a time: those behind it wait in the kernel.                    *)
(***************************************************************************)
EXTENDS Pacp, RadiusSession

CONSTANTS
  Mac,         \* supplicants
  PortMac,     \* EapolSupplicant.src
  FRAME_CAP,   \* length of the receive buffer: 1600
  Mtu,         \* longest payload the interface sends
  Contents,    \* what may follow the EAP header, from either side
  Paddings,    \* what may follow a packet in its frame
  Vlans        \* VLAN names the server may give

\* A VLAN name begins with a printable octet, which is no tag.
ASSUME RelayAssumption ==
  /\ FRAME_CAP \in Nat /\ Mtu \in Nat /\ FRAME_CAP >= ETHERNET_HEADER_LEN
  /\ Contents \cup Paddings \subseteq Seq(0..(Octets - 1))
  /\ Vlans \subseteq Seq(Nat) /\ \A v \in Vlans : v # <<>> /\ v[1] \notin Tags
  /\ None \notin Seq(Nat) \cup Nat

ASSUME MacAssumption == None \notin Mac

VARIABLES
  alive,     \* the worker runs
  frame,     \* a frame on its way to the port, or None
  sender,    \* the supplicant that sent the last frame, or None
  meant,     \* the EAP packet the last frame was made of, or <<>>
  buf,       \* what recv returned, or None
  fate,      \* what became of the last frame
  session,   \* RadiusSession of each supplicant
  called,    \* the identity each supplicant gave last to this worker, or None
  mac,       \* the supplicant whose session is being served, or None
  request,   \* the Access-Request that is out, or None
  reply,     \* the answer to it, or None
  out,       \* a frame on its way to the supplicant, or None
  told,      \* the EAP packet the supplicant is to have: of the last answer or prompt
  offer,     \* what the last Access-Accept is to grant, or None
  grant      \* the authorization that was taken from it, or None

inward == <<frame, sender, meant, buf, fate>>
outward == <<reply, out, told, offer, grant>>
memory == <<session, called>>
lvars == <<alive, inward, memory, mac, request, outward>>

\* Nothing is on its way, and what came of the last frame is settled.
Idle ==
  /\ alive /\ sender = None
  /\ <<frame, buf, request, reply, out>> = <<None, None, None, None, None>>

-----------------------------------------------------------------------------
(* The supplicant and the kernel: external *)

\* An EAP packet that declares a length.
Eap(code, length, content) == <<code, 0>> \o to_be_bytes(length) \o content

\* RFC 3748: which contents go with which code.
IsEap(code, content) ==
  CASE code \in {1, 2} -> content # <<>> [] code \in {3, 4} -> content = <<>> [] OTHER -> TRUE

\* An EAPOL frame that declares a length.
Eapol(dst, src, type, length, body, padding) ==
  <<dst, src, ETHERTYPE_EAPOL, PROTOCOL_VERSION_2010, type>> \o to_be_bytes(length)
    \o body \o padding

\* At most one of the two lengths is off, by one.
Errors == {<<0, 0>>, <<1, 0>>, <<0, 1>>}

Off(n, error) == IF error = 0 THEN {n} ELSE {n + 1} \cup (IF n > 0 THEN {n - 1} ELSE {})

Send(m, f, eap) ==
  /\ frame' = f /\ sender' = m /\ meant' = eap
  /\ UNCHANGED <<alive, buf, fate, memory, mac, request, outward>>

SupplicantSendsEap(m) ==
  /\ Idle
  /\ \E code \in 1..5, content \in Contents, e \in Errors, pad \in Paddings :
       LET n == EAP_HEADER_LEN + Len(content)
       IN  \E l \in Off(n, e[1]), k \in Off(n, e[2]) :
             Send(m, Eapol("PAE", m, 0, k, Eap(code, l, content), pad),
                  IF e = <<0, 0>> /\ IsEap(code, content) THEN Eap(code, l, content) ELSE <<>>)

\* Start, Logoff or Key; a Start may carry announcements.
SupplicantSendsOther(m) ==
  /\ Idle
  /\ \E type \in 1..3, content \in Contents, k \in {0, 1}, pad \in Paddings :
       Send(m, Eapol("PAE", m, type, Len(content) + k, content, pad), <<>>)

\* What the interface accepts for sending.
sendto(f) == Len(f) <= ETHERNET_HEADER_LEN + Mtu

-----------------------------------------------------------------------------
(* eapol-io *)

\* Faulty variant: the whole frame is returned.
recv_whole ==
  /\ alive /\ frame # None
  /\ buf' = frame /\ frame' = None
  /\ UNCHANGED <<alive, sender, meant, fate, memory, mac, request, outward>>

\* The buffer takes the first FRAME_CAP octets of a frame.
recv ==
  /\ alive /\ frame # None
  /\ buf' = SubSeq(frame, 1, IF Len(frame) > FRAME_CAP THEN FRAME_CAP ELSE Len(frame))
  /\ frame' = None
  /\ UNCHANGED <<alive, sender, meant, fate, memory, mac, request, outward>>

\* The frame to send, if it can be sent.
send(f) == f.ok /\ Len(f.val) >= ETHERNET_HEADER_LEN /\ sendto(f.val)

-----------------------------------------------------------------------------
(* The worker *)

\* What cannot be done ends the worker; another has new sessions.
End(why) ==
  /\ alive' = FALSE /\ fate' = why
  /\ session' = [m \in Mac |-> NewRadiusSession] /\ called' = [m \in Mac |-> None]
  /\ frame' = None /\ buf' = None /\ request' = None /\ reply' = None /\ out' = None
  /\ UNCHANGED <<sender, meant, mac, told, offer, grant>>

\* The EAP packet eap goes to m, who is to have `packet` and is granted g; s is
\* what the sessions remember.
send_eap(m, eap, packet, g, s) ==
  LET f == encode_frame(eap, m, PortMac)
  IN  IF send(f) THEN /\ out' = f.val /\ mac' = m /\ told' = packet /\ grant' = g
                      /\ buf' = None /\ request' = None /\ reply' = None /\ session' = s
                      /\ UNCHANGED <<alive, frame, sender, meant, fate, called, offer>>
      ELSE End("unsent")

eap_identity(eap) ==
  LET p == EapPacket_decode(eap)
  IN  IF p.ok /\ has_identity(p.val) THEN p.val.type_data ELSE None

\* Nothing more comes of the frame.
Done(why) ==
  /\ fate' = why /\ buf' = None
  /\ UNCHANGED <<alive, frame, sender, meant, memory, mac, request, outward>>

\* One value: that it is fresh is RadSec's concern.
generate_request_authenticator == Zero

\* The identity in an EAP packet, or None.
Given(eap) ==
  IF Len(eap) >= 5 /\ eap[1] = 2 /\ eap[5] = 1 THEN SubSeq(eap, 6, Len(eap)) ELSE None

\* dispatch of ToAuthServer, as far as the request.
ToAuthServer(m, eap) ==
  LET built == build_eap_request(session[m], m, eap_identity(eap), eap,
                                 generate_request_authenticator)
  IN  IF built.request.ok
      THEN /\ request' = built.request.val /\ mac' = m
           /\ session' = [session EXCEPT ![m] = built.session]
           /\ called' = [called EXCEPT ![sender] = IF Given(meant) = None THEN @ ELSE Given(meant)]
           /\ fate' = "relayed" /\ buf' = None
           /\ UNCHANGED <<alive, frame, sender, meant, outward>>
      ELSE End("identity")

\* Frames of the other types, and whatever does not decode, are passed over; so
\* is an EAP packet that is not a response (session.rs).
dispatch_frame ==
  /\ alive /\ buf # None
  /\ LET f == decode_frame(buf)
         type == f.val.packet_type
         eap == EapPacket_decode(f.val.body)
     IN  \/ ~f.ok /\ Done("dropped")
         \/ f.ok /\ type = "Start"
              /\ send_eap(f.val.src, request_identity(0), Eap(1, 5, <<1>>), None, session)
         \/ f.ok /\ type = "Logoff" /\ Done("logoff")
         \/ f.ok /\ type = "Other" /\ Done("ignored")
         \/ f.ok /\ type = "Eap" /\ ~eap.ok /\ Done("dropped")
         \/ f.ok /\ type = "Eap" /\ eap.ok /\ eap.val.code # "Response" /\ Done("ignored")
         \/ f.ok /\ type = "Eap" /\ eap.ok /\ eap.val.code = "Response"
              /\ ToAuthServer(f.val.src, f.val.body)

\* dispatch of ToAuthServer, from the reply on, and of what the event leads to: a
\* packet for the supplicant, if there is one, and after that what the supplicant is
\* granted (pae's session.rs sends before it authorizes).
ReplyArrives ==
  /\ alive /\ reply # None
  /\ LET r == handle_reply(session[mac], reply)
         kept == [session EXCEPT ![mac] = r.session]
     IN  IF ~r.ok THEN End("refused")
         ELSE IF r.event.eap # <<>>
         THEN send_eap(mac, r.event.eap, told, r.event.authorization, kept)
         ELSE /\ grant' = r.event.authorization /\ reply' = None /\ session' = kept
              /\ UNCHANGED <<alive, inward, called, mac, request, out, told, offer>>

-----------------------------------------------------------------------------
(* The server: external *)

\* An EAP packet in attributes of any length up to the longest.
Fragments(eap) ==
  {[i \in 1..((Len(eap) + k - 1) \div k) |->
      <<"EAP-Message", SubSeq(eap, (i - 1) * k + 1, IF i * k > Len(eap) THEN Len(eap) ELSE i * k)>>] :
    k \in 1..MAX_ATTR_VALUE}

\* What an Access-Accept is to grant, and how the server writes it down: the VLAN
\* with or without a tag, the two integers that must go with it, a lifetime.
Offers ==
  [vlan : Vlans \cup {None, <<>>}, tag : {<<>>, <<1>>},
   type : {None, <<1, 13>>, <<1, 9>>, <<13>>}, medium : {None, <<1, 6>>, <<1, 1>>},
   timeout : {None, <<7>>}]

Attributes(o) ==
  Optional("Tunnel-Type", o.type) \o Optional("Tunnel-Medium-Type", o.medium)
  \o (IF o.vlan = None THEN <<>> ELSE <<<<"Tunnel-Private-Group-ID", o.tag \o o.vlan>>>>)
  \o Optional("Session-Timeout", o.timeout)

\* RFC 3580: the integers say VLAN and 802, and with a name they are both there.
Sound(o) ==
  /\ o.type \in {None, <<1, 13>>} /\ o.medium \in {None, <<1, 6>>}
  /\ o.vlan # None => o.vlan # <<>> /\ o.type # None /\ o.medium # None

\* A packet that answers the request, signed and sealed for it.
SealedReply(code, attributes) ==
  LET p == seal_message_authenticator(
             Packet(code, request.identifier, request.authenticator, attributes), Secret)
  IN  [p EXCEPT !.authenticator = Hash("MD5", p, request.authenticator, Secret)]

Answer(code, eap, attributes, o) ==
  /\ request # None /\ reply = None
  /\ \E fragments \in Fragments(eap) : reply' = SealedReply(code, attributes \o fragments)
  /\ told' = eap /\ offer' = o
  /\ request' = None /\ meant' = <<>> /\ fate' = "answered"
  /\ UNCHANGED <<alive, frame, sender, buf, memory, mac, out, grant>>

\* With or without a State.
ServerChallenges ==
  \E c \in Contents, state \in {None, <<1>>} :
    Answer("AccessChallenge", Eap(1, EAP_HEADER_LEN + Len(c), c), Optional("State", state), None)

\* A challenge with no EAP packet in it.
ServerErrs == Answer("AccessChallenge", <<>>, <<>>, None)

ServerAccepts ==
  \E o \in Offers, eap \in {<<>>, Eap(3, EAP_HEADER_LEN, <<>>)} :
    Answer("AccessAccept", eap, Attributes(o), o)

ServerRejects ==
  \E eap \in {<<>>, Eap(4, EAP_HEADER_LEN, <<>>)} : Answer("AccessReject", eap, <<>>, None)

\* The supplicant has the frame that was sent, if one was, and what came of its own
\* is settled.
Settle ==
  /\ alive /\ sender # None
  /\ <<frame, buf, request, reply>> = <<None, None, None, None>>
  /\ sender' = None /\ meant' = <<>> /\ fate' = "none" /\ mac' = None
  /\ out' = None /\ told' = <<>> /\ offer' = None /\ grant' = None
  /\ UNCHANGED <<alive, frame, buf, memory, request, reply>>

\* Another worker takes over.
Restart ==
  /\ ~alive /\ alive' = TRUE
  /\ UNCHANGED <<inward, memory, mac, request, outward>>

-----------------------------------------------------------------------------

RelayInit ==
  /\ alive = TRUE /\ frame = None /\ sender = None /\ meant = <<>> /\ buf = None /\ fate = "none"
  /\ session = [m \in Mac |-> NewRadiusSession] /\ called = [m \in Mac |-> None]
  /\ mac = None /\ request = None
  /\ reply = None /\ out = None /\ told = <<>> /\ offer = None /\ grant = None

RelayNext ==
  \/ \E m \in Mac : SupplicantSendsEap(m) \/ SupplicantSendsOther(m)
  \/ recv \/ dispatch_frame \/ ReplyArrives
  \/ ServerChallenges \/ ServerErrs \/ ServerAccepts \/ ServerRejects
  \/ Settle \/ Restart

RelaySpec == RelayInit /\ [][RelayNext]_lvars

-----------------------------------------------------------------------------
(* Safety *)

\* Every variable has its type; recv never returns more than its buffer holds.
RelayTypeOK ==
  /\ alive \in BOOLEAN /\ {sender, mac} \subseteq Mac \cup {None}
  /\ fate \in {"none", "dropped", "ignored", "logoff", "relayed", "answered",
               "identity", "refused", "unsent"}
  /\ DOMAIN session = Mac /\ DOMAIN called = Mac
  /\ buf # None => Len(buf) <= FRAME_CAP

\* What the server reassembles is the EAP packet the supplicant made the frame of,
\* octet for octet, under the supplicant's own address: whatever padding, truncation
\* and fragmentation happened on the way.  A frame with a wrong length is never
\* relayed in part.
RelayedVerbatim ==
  request # None =>
    /\ meant # <<>> /\ reassemble(request) = meant
    /\ find_attribute(request, "Calling-Station-Id") = sender

\* A frame is dropped only if it is malformed or did not fit the receive buffer:
\* padding costs no supplicant its packet.
WholeFramesArrive ==
  fate = "dropped" /\ meant # <<>> =>
    ETHERNET_HEADER_LEN + HEADER_LEN + Len(meant) > FRAME_CAP

\* Every request names its supplicant by the identity that supplicant gave last, in
\* this round or an earlier one, whole and fit for a policy key: never by one it gave
\* before that, by another supplicant's, or by part of one.  One that is not fit ends
\* the worker rather than reach the server.
UserNameIsIdentity ==
  LET name == find_attribute(request, "User-Name")
  IN  request # None =>
        /\ name = called[sender]
        /\ name # None => /\ Len(name) \in 1..MAX_ATTR_VALUE
                          /\ \A i \in DOMAIN name : name[i] \notin Unprintable

\* A frame to the supplicant is addressed to it and carries exactly the EAP packet
\* the server put in its answer, or the authenticator's own identity prompt.
DeliveredVerbatim ==
  out # None =>
    /\ told # <<>>
    /\ out = Eapol(sender, PortMac, 0, Len(told), told, <<>>)

\* An authorization is taken from an Access-Accept with the VLAN and the lifetime
\* that were meant, and if it has a VLAN only if that is written down soundly: no VLAN
\* is lost, shortened or read out of half a group.
GrantAsMeant ==
  grant # None =>
    /\ offer \in Offers /\ grant.vlan = offer.vlan
    /\ offer.vlan # None => Sound(offer)
    /\ grant.session_timeout = IF offer.timeout = None THEN None ELSE offer.timeout[1]
=============================================================================
