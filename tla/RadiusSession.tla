--------------------------- MODULE RadiusSession ----------------------------
(***************************************************************************)
(* What a supplicant's session remembers from one exchange with the server *)
(* to the next: crates/authd/src/session.rs.  RadSec puts its operations   *)
(* on a connection; Relay has them carry the octets of EAP packets.        *)
(***************************************************************************)
EXTENDS RadiusClient

CONSTANT Ids   \* size of an identifier space: 256

ASSUME IdsAssumption == Ids \in Nat \ {0}

\* Pending: a Request Authenticator is known by its number.
Pending == [identifier : 0..(Ids - 1), request_authenticator : {"Nonce"} \X Nat]

Secret == "radsec"

NewRadiusSession ==
  [next_id |-> 0, next_acct_id |-> 0, last_state |-> None, user_name |-> None,
   pending |-> None, class |-> None]

-----------------------------------------------------------------------------
(* Requests *)

\* Faulty variant: the identifier is advanced before it is noted as pending.
Allocate_late(s, auth) ==
  [s EXCEPT !.next_id = (@ + 1) % Ids,
            !.pending = [identifier |-> (s.next_id + 1) % Ids,
                         request_authenticator |-> auth]]

\* Faulty variant: the identifier does not wrap.
Allocate_no_wrap(s, auth) ==
  [s EXCEPT !.next_id = @ + 1,
            !.pending = [identifier |-> s.next_id, request_authenticator |-> auth]]

\* next_identifier, and the request noted as pending.
Allocate(s, auth) ==
  [s EXCEPT !.next_id = (@ + 1) % Ids,
            !.pending = [identifier |-> s.next_id, request_authenticator |-> auth]]

\* Faulty variant: the first identity given is kept.
build_eap_request_keeps_name(s, mac, identity, eap, auth) ==
  LET named == IF s.user_name = None THEN [s EXCEPT !.user_name = identity] ELSE s
  IN  [session |-> Allocate(named, auth),
       request |-> access_request_eap(mac, s.next_id, auth, named.user_name,
                                      s.last_state, eap, Secret)]

\* Faulty variant: the identity is sent only in the round that gave it.
build_eap_request_forgets(s, mac, identity, eap, auth) ==
  [session |-> Allocate(s, auth),
   request |-> access_request_eap(mac, s.next_id, auth, identity, s.last_state, eap, Secret)]

\* An identity is remembered and sent again with every later round.
build_eap_request(s, mac, identity, eap, auth) ==
  LET named == IF identity # None THEN [s EXCEPT !.user_name = identity] ELSE s
  IN  [session |-> Allocate(named, auth),
       request |-> access_request_eap(mac, s.next_id, auth, named.user_name,
                                      s.last_state, eap, Secret)]

build_mab_request(s, mac, auth) ==
  [session |-> Allocate(s, auth),
   request |-> Ok(access_request_mab(mac, s.next_id, auth, Secret))]

-----------------------------------------------------------------------------
(* Replies *)

\* A reply is verified first, then parsed and remembered.
handle_reply(s, reply) ==
  LET event == parse_reply(reply)
      ok == /\ s.pending # None
            /\ reply.identifier = s.pending.identifier
            /\ verify_reply(reply, s.pending.request_authenticator, Secret)
            /\ event.ok
      accepted == event.ok /\ event.val.type = "AccessAccept"
  IN  [ok |-> ok, event |-> event.val,
       session |-> [s EXCEPT !.pending = None, !.last_state = extract_state(reply),
                     !.class = IF accepted THEN event.val.authorization.class ELSE @]]
=============================================================================
