------------------------------- MODULE RadSec -------------------------------
(***************************************************************************)
(* The exchanges of one port's worker with the authentication server: the  *)
(* two server calls of dispatch (crates/authd/src/dispatch.rs), on the     *)
(* state that RadiusSession keeps, and RadSecConnection with its framing   *)
(* (crates/radsec).                                                        *)
(*                                                                         *)
(* All supplicants of a port share one connection, and so do access and    *)
(* accounting requests, whose identifiers each start at 0 and wrap.  The   *)
(* stream is reliable and ordered, but the server may be slow or silent,   *)
(* repeat a reply, or send a packet nobody asked for.  Any error ends the  *)
(* worker; a new one has a new connection and new sessions.                *)
(*                                                                         *)
(* Which exchange a supplicant's next step calls for is PortPae's concern: *)
(* here any comes after any, except that a Stop closes a record a Start    *)
(* opened (PortPae's SessionAccountingOK).                                 *)
(***************************************************************************)
EXTENDS RadiusSession

CONSTANTS
  Mac,
  Names,         \* identities a supplicant may give, fit for User-Name or not
  MaxExchanges,  \* bound of the model on requests
  MaxStrays      \* bound of the model on stray packets per connection

ASSUME RadSecAssumption == {MaxExchanges, MaxStrays} \subseteq Nat

\* None is nothing else: no MAC, no pending request, no Acct-Session-Id and no
\* Acct-Status-Type.
ASSUME NoneAssumption ==
  None \notin Mac /\ None \notin Pending /\ None \notin Mac \X Nat /\ None # "Stop"

VARIABLES
  ended,     \* "up" while the worker runs, else why it does not
  session,   \* RadiusSession of each MAC
  acct_id,   \* SessionState.acct_id of each MAC, None or <<MAC, count>>
  acct_counter,
  job,       \* the request being awaited, and what was read of its reply
  uplink,    \* stream to the server: packets
  downlink,  \* stream from the server: headers and bodies of packets
  history    \* what was sent, decided, taken and claimed; see NewHistory

rvars == <<ended, session, acct_id, acct_counter, job, uplink, downlink, history>>

\* header is empty until the header of the reply is read.
NoJob == [mac |-> None, request |-> None, header |-> <<>>]

\* nonce counts the Request Authenticators ever generated, accounts the
\* accounting requests ever sent.  The rest starts anew with a worker: the replies,
\* verdicts and strays of its connection, the identity each MAC last gave (name),
\* the Acct-Session-Id of its last Start (record), the MACs with no Stop since (open).
NewHistory(h) ==
  [h EXCEPT !.replies = {}, !.decided = {}, !.taken = {},
            !.name = [m \in Mac |-> None], !.record = [m \in Mac |-> None], !.open = {}]

generate_request_authenticator == <<"Nonce", history.nonce + 1>>

up == ended = "up"

-----------------------------------------------------------------------------
(* The worker ends, and another starts *)

Exit(why, h) ==
  /\ ended' = why /\ history' = NewHistory(h)
  /\ session' = [m \in Mac |-> NewRadiusSession]
  /\ acct_id' = [m \in Mac |-> None] /\ acct_counter' = 0
  /\ job' = NoJob /\ uplink' = <<>> /\ downlink' = <<>>

connect ==
  /\ ~up /\ ended' = "up" /\ history' = [history EXCEPT !.strays = 0]
  /\ UNCHANGED <<session, acct_id, acct_counter, job, uplink, downlink>>

\* The worker ends for a reason of its own.
WorkerEnds == up /\ Exit("other", history)

-----------------------------------------------------------------------------
(* Requests *)

\* write_packet, after which the reply is awaited.
Write(m, request) ==
  /\ uplink' = Append(uplink, request)
  /\ job' = [mac |-> m, request |-> request, header |-> <<>>]
  /\ UNCHANGED <<ended, downlink>>

\* An Access-Request; one that cannot be built ends the worker unsent.
Access(m, built, h) ==
  /\ up /\ job = NoJob /\ history.nonce + history.accounts < MaxExchanges
  /\ IF built.request.ok
     THEN /\ session' = [session EXCEPT ![m] = built.session]
          /\ Write(m, built.request.val)
          /\ history' = h
          /\ UNCHANGED <<acct_id, acct_counter>>
     ELSE Exit("identity", h)

ToAuthServer(m, identity) ==
  Access(m,
         build_eap_request(session[m], m, identity, <<0>>, generate_request_authenticator),
         [history EXCEPT !.nonce = @ + 1,
                         !.name[m] = IF identity = None THEN @ ELSE identity])

StartMab(m) ==
  Access(m, build_mab_request(session[m], m, generate_request_authenticator),
         [history EXCEPT !.nonce = @ + 1])

\* Faulty variant: the id is not remembered.
acct_id_for_forgets(m) == [id |-> <<m, acct_counter + 1>>, kept |-> None,
                           counter |-> acct_counter + 1]

acct_id_for(m) ==
  IF acct_id[m] # None
  THEN [id |-> acct_id[m], kept |-> acct_id[m], counter |-> acct_counter]
  ELSE [id |-> <<m, acct_counter + 1>>, kept |-> <<m, acct_counter + 1>>,
        counter |-> acct_counter + 1]

\* send_accounting; the record is the server's to open and close.
Accounting(m, trigger) ==
  /\ up /\ job = NoJob /\ history.nonce + history.accounts < MaxExchanges
  /\ (trigger = "Start") <=> (m \notin history.open)
  /\ LET s == session[m]
         id == acct_id_for(m)
     IN  /\ Write(m, accounting_request(m, s.next_acct_id, trigger, id.id, s.class, Secret))
         /\ session' = [session EXCEPT ![m].next_acct_id = (@ + 1) % Ids]
         /\ acct_id' = [acct_id EXCEPT ![m] = id.kept]
         /\ acct_counter' = id.counter
         /\ history' = IF trigger = "Start"
              THEN [history EXCEPT !.accounts = @ + 1, !.record[m] = id.id,
                                   !.open = @ \cup {m}]
              ELSE [history EXCEPT !.accounts = @ + 1, !.open = @ \ {m}]

-----------------------------------------------------------------------------
(* Replies *)

\* The declared length is "valid" in MIN_RADIUS_LEN..MAX_RADIUS_LEN.
Header(p, length) == <<"Header", p, length>>
Body(p) == <<"Body", p>>
Framed(p) == <<Header(p, "valid"), Body(p)>>

\* read_packet reads a header and checks the declared length.
ReadHeader ==
  /\ job # NoJob /\ job.header = <<>> /\ downlink # <<>>
  /\ IF Head(downlink)[1] = "Header" /\ Head(downlink)[3] = "valid"
     THEN /\ job' = [job EXCEPT !.header = <<Head(downlink)[2]>>]
          /\ downlink' = Tail(downlink)
          /\ UNCHANGED <<ended, session, acct_id, acct_counter, uplink, history>>
     ELSE Exit("refused", history)

\* The reply is complete: RadSecConnection::request checks its identifier, then
\* an access reply is handed to the session and an accounting reply discarded.
Received(reply) ==
  LET m == job.mac
      r == handle_reply(session[m], reply)
      access == job.request.code = "AccessRequest"
  IN  IF reply.identifier = job.request.identifier /\ (access => r.ok)
      THEN /\ session' = IF access THEN [session EXCEPT ![m] = r.session] ELSE session
           /\ history' = IF access
                THEN [history EXCEPT !.taken = @ \cup {<<history.nonce, r.event.type>>}]
                ELSE history
           /\ job' = NoJob /\ downlink' = Tail(downlink)
           /\ UNCHANGED <<ended, acct_id, acct_counter, uplink>>
      ELSE Exit("refused", history)

\* The rest of the packet, which is what the header announced.
ReadBody ==
  /\ job # NoJob /\ job.header # <<>> /\ downlink # <<>>
  /\ IF Head(downlink) = Body(job.header[1]) THEN Received(job.header[1])
     ELSE Exit("refused", history)

\* Faulty variant: the connection is kept and the next exchange uses it.
Timeout_keeps_connection ==
  /\ job # NoJob /\ job' = NoJob
  /\ UNCHANGED <<ended, session, acct_id, acct_counter, uplink, downlink, history>>

\* io_timeout passes, or the connection closes, at any point of the read.
Timeout == job # NoJob /\ Exit("timeout", history)

-----------------------------------------------------------------------------
(* The server: external *)

Verdicts == {"AccessChallenge", "AccessAccept", "AccessReject"}

\* A reply sealed for its request.  EAP and a Message-Authenticator answer an
\* EAP request; a challenge carries a State and an Accept a Class of its own.
Reply(request, code) ==
  LET n == request.authenticator
      eap == IF Has(request, "EAP-Message")
             THEN <<<<"EAP-Message", <<0>>>>, <<"Message-Authenticator", Zero>>>> ELSE <<>>
      own == CASE code = "AccessChallenge" -> <<<<"State", n>>>>
               [] code = "AccessAccept" -> <<<<"Class", n>>>>
               [] OTHER -> <<>>
      p == Packet(code, request.identifier, Zero, own \o eap)
      signed == WithAuthenticator(p, Hash("HMAC", p, n, Secret))
  IN  [signed EXCEPT !.authenticator = Hash("MD5", signed, n, Secret)]

\* The nonce of an access request is the number of the request.
Serve(code) ==
  /\ up /\ uplink # <<>>
  /\ LET request == Head(uplink)
         reply == Reply(request, code)
         access == request.code = "AccessRequest"
     IN  /\ IF access THEN code \in Verdicts ELSE code = "AccountingResponse"
         /\ code = "AccessChallenge" => Has(request, "EAP-Message")
         /\ downlink' = downlink \o Framed(reply)
         /\ history' = [history EXCEPT !.replies = @ \cup {reply},
              !.decided = IF access THEN @ \cup {<<request.authenticator[2], code>>} ELSE @]
  /\ uplink' = Tail(uplink)
  /\ UNCHANGED <<ended, session, acct_id, acct_counter, job>>

\* A reply is repeated, or a packet comes that answers nothing, well-formed
\* (a CoA-Request) or not.
Stray ==
  /\ up /\ history.strays < MaxStrays
  /\ \E frame \in {Framed(p) : p \in history.replies}
                    \cup {Framed(Packet("CoA-Request", id, Zero, <<>>)) : id \in 0..(Ids - 1)}
                    \cup {<<Header(None, "invalid")>>} :
       downlink' = downlink \o frame
  /\ history' = [history EXCEPT !.strays = @ + 1]
  /\ UNCHANGED <<ended, session, acct_id, acct_counter, job, uplink>>

-----------------------------------------------------------------------------

RadSecInit ==
  /\ ended = "stopped"
  /\ session = [m \in Mac |-> NewRadiusSession]
  /\ acct_id = [m \in Mac |-> None] /\ acct_counter = 0
  /\ job = NoJob /\ uplink = <<>> /\ downlink = <<>>
  /\ history = [nonce |-> 0, replies |-> {}, strays |-> 0, accounts |-> 0,
                decided |-> {}, taken |-> {}, name |-> [m \in Mac |-> None],
                record |-> [m \in Mac |-> None], open |-> {}]

Send(m) ==
  \/ \E identity \in Names \cup {None} : ToAuthServer(m, identity)
  \/ StartMab(m)
  \/ \E trigger \in {"Start", "Stop"} : Accounting(m, trigger)

RadSecNext ==
  \/ connect \/ WorkerEnds \/ ReadHeader \/ ReadBody \/ Timeout \/ Stray
  \/ \E m \in Mac : Send(m)
  \/ \E code \in Verdicts \cup {"AccountingResponse"} : Serve(code)

RadSecSpec == RadSecInit /\ [][RadSecNext]_rvars

-----------------------------------------------------------------------------
(* Safety *)

IsAccess == job # NoJob /\ job.request.code = "AccessRequest"

\* Every variable has its type; an identifier is one of Ids.
RadSecTypeOK ==
  /\ ended \in {"up", "stopped", "other", "identity", "refused", "timeout"}
  /\ \A m \in Mac :
       /\ {session[m].next_id, session[m].next_acct_id} \subseteq 0..(Ids - 1)
       /\ session[m].pending # None => session[m].pending.identifier \in 0..(Ids - 1)
  /\ acct_counter \in Nat
  /\ job.mac \in Mac \cup {None}

\* The verdict a session is given is the one the server reached on the request
\* that session has out: no repeated, delayed or unasked packet, no other
\* supplicant's reply and no wrapped identifier gets in between.
Exchange == INSTANCE AuthExchange WITH
  serving <- up, asked <- history.nonce, decided <- history.decided,
  taken <- history.taken, waiting <- IF IsAccess THEN history.nonce ELSE None

ImplementsExchange == Exchange!Spec

\* Nothing but a packet that answers nothing makes the worker refuse a reply:
\* identifiers, authenticators and the framing agree on both sides however
\* often identifiers wrap and however exchanges alternate.
RefusesOnlyStrays == ended = "refused" => history.strays > 0

\* As long as the server sends nothing unasked, both directions of the stream
\* are empty between exchanges: no exchange leaves its request, its reply or half
\* of one to the next.  (A stray can: an accounting exchange is over with the first
\* packet that has its identifier.)
StreamInSync ==
  up /\ job = NoJob /\ history.strays = 0 => uplink = <<>> /\ downlink = <<>>

\* Every EAP request carries the identity its supplicant last gave, never one
\* given earlier or by another supplicant.
UserNameIsOwn ==
  IsAccess /\ Has(job.request, "EAP-Message") =>
    find_attribute(job.request, "User-Name") = history.name[job.mac]

\* A Stop names the record that the Start of its supplicant opened, whatever
\* other supplicants did on the connection meanwhile.
RecordsMatch ==
  job # NoJob /\ find_attribute(job.request, "Acct-Status-Type") = "Stop" =>
    find_attribute(job.request, "Acct-Session-Id") = history.record[job.mac]
=============================================================================
