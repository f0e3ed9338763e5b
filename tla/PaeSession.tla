----------------------------- MODULE PaeSession -----------------------------
(***************************************************************************)
(* One authenticator session of the 802.1X port access entity:             *)
(* crates/pae/src/session.rs.                                              *)
(*                                                                         *)
(* The machine is sans-I/O: `step` takes an event and returns effects.     *)
(* Here a handler maps a CONTEXT to a context: the PortSession record      *)
(* (st, kind, tx, authz, open), the effects emitted so far (fx), and what  *)
(* those effects amount to once performed: the timers armed for this MAC,  *)
(* the accounting balance (Starts minus Stops) and the posture of the      *)
(* session's enforcement target.  PortPae performs the effects at once and *)
(* uses the latter; Authd performs fx one effect at a time, any of which   *)
(* can fail.  No handler reads fx or what it amounts to.  The wrapping     *)
(* eap_id is left out, because nothing in the machine reads it.            *)
(*                                                                         *)
(* State::Fallback(reason) is represented by the reason itself.            *)
(***************************************************************************)
EXTENDS Integers, Sequences

CONSTANTS
  Grants,   \* the authorizations an Access-Accept or a CoA can carry
  Timed,    \* those that carry a Session-Timeout
  NoGrant   \* authz = None

ASSUME GrantsAssumption ==
  /\ Timed \subseteq Grants
  /\ NoGrant \notin Grants

-----------------------------------------------------------------------------
(* Types *)

AuthKind == {"Dot1x", "Mab"}

FallbackReason == {"Guest", "AuthFail", "Critical"}

State == {"New", "Connecting", "AuthServer", "Authenticating",
          "Authenticated", "Held"} \cup FallbackReason

TimerKind == {"TxPeriod", "Held", "Reauth", "ServerTimeout", "SuppTimeout",
              "SessionTimeout"}

HostMode == {"SingleHost", "MultiDomain", "MultiAuth", "MultiHost"}

\* A VLAN option is Some or None; which VLAN it names is the enforcer's concern.
PaeConfig ==
  [host_mode : HostMode, max_reauth_req : Nat, reauth_enabled : BOOLEAN,
   mab_enabled : BOOLEAN, guest_vlan : BOOLEAN, auth_fail_vlan : BOOLEAN,
   critical_vlan : BOOLEAN]

Unauthorized == [mode |-> "Unauthorized", via |-> NoGrant]
Authorized(g) == [mode |-> "Authorized", via |-> g]
Fallback(r) == [mode |-> "Fallback", via |-> r]

PortAuthorization ==
  {Unauthorized} \cup {Authorized(g) : g \in Grants}
                 \cup {Fallback(r) : r \in FallbackReason}

PortSession ==
  [st : State, kind : AuthKind, tx : Nat, authz : Grants \cup {NoGrant},
   open : BOOLEAN]

NewSession ==
  [st |-> "New", kind |-> "Dot1x", tx |-> 0, authz |-> NoGrant, open |-> FALSE]

\* What the machine and the daemon tell apart in an EAP packet: a Response
\* that carries the identity, any other Response, or a packet that is none.
EapPacket == {"Identity", "Method", "NotResponse"}

Effect ==
  [do : {"ArmTimer", "CancelTimer"}, arg : TimerKind]
    \cup [do : {"SetAuthorization"}, arg : PortAuthorization]
    \cup [do : {"ToAuthServer"}, arg : EapPacket]
    \cup [do : {"TxEapToSupplicant", "StartMab", "CancelAllTimers", "Start",
               "Stop"}, arg : {NoGrant}]

Context ==
  [st : State, kind : AuthKind, tx : Nat, authz : Grants \cup {NoGrant},
   open : BOOLEAN, fx : Seq(Effect), timers : SUBSET TimerKind, acct : Nat,
   posture : PortAuthorization]

\* An event and its argument: a grant, a timer kind, or an EAP packet.
Event(type) == [type |-> type, arg |-> NoGrant]
EapFromSupplicant(eap) == [type |-> "EapFromSupplicant", arg |-> eap]
AccessAccept(g) == [type |-> "AccessAccept", arg |-> g]
CoaAuthorize(g) == [type |-> "CoaAuthorize", arg |-> g]
Timer(k) == [type |-> "Timer", arg |-> k]

IsResponse(e) == e.type = "EapFromSupplicant" /\ e.arg # "NotResponse"

-----------------------------------------------------------------------------
(* Effects *)

Emit(c, do, arg) == [c EXCEPT !.fx = Append(@, [do |-> do, arg |-> arg])]

TxEapToSupplicant(c) == Emit(c, "TxEapToSupplicant", NoGrant)
ToAuthServer(c, eap) == Emit(c, "ToAuthServer", eap)
StartMab(c) == Emit(c, "StartMab", NoGrant)

ArmTimer(c, k) ==
  [Emit(c, "ArmTimer", k) EXCEPT !.timers = @ \cup {k}]
CancelTimer(c, k) ==
  [Emit(c, "CancelTimer", k) EXCEPT !.timers = @ \ {k}]
CancelAllTimers(c) ==
  [Emit(c, "CancelAllTimers", NoGrant) EXCEPT !.timers = {}]
SetAuthorization(c, p) ==
  [Emit(c, "SetAuthorization", p) EXCEPT !.posture = p]
AccountingStart(c) ==
  [Emit(c, "Start", NoGrant) EXCEPT !.acct = @ + 1, !.open = TRUE]
AccountingStop(c) ==
  [Emit(c, "Stop", NoGrant) EXCEPT !.acct = @ - 1, !.open = FALSE]

-----------------------------------------------------------------------------
(* Shared transitions *)

send_identity(c) == ArmTimer(TxEapToSupplicant(c), "TxPeriod")

\* The posture and the state take the same reason.
enter_fallback(c, r) ==
  SetAuthorization(CancelAllTimers([c EXCEPT !.st = r]), Fallback(r))

\* Faulty variant: the port is left in the posture it had.
hold_leaves_posture(c) ==
  ArmTimer(CancelAllTimers([c EXCEPT !.st = "Held"]), "Held")

\* Faulty variant: nothing ends the quiet period.
hold_forever(c) ==
  SetAuthorization(CancelAllTimers([c EXCEPT !.st = "Held"]), Unauthorized)

hold(c) ==
  ArmTimer(SetAuthorization(CancelAllTimers([c EXCEPT !.st = "Held"]),
                            Unauthorized),
           "Held")

\* Faulty variant: a Stop is sent also when no record is open.
teardown_always_stops(c) ==
  IF c.st = "New" THEN c ELSE
  [SetAuthorization(CancelAllTimers(AccountingStop(c)), Unauthorized)
     EXCEPT !.st = "New", !.authz = NoGrant, !.kind = "Dot1x", !.tx = 0]

\* Faulty variant: the prompt count and the grant survive the session.
teardown_keeps_grant(c) ==
  IF c.st = "New" THEN c ELSE
  LET stopped == IF c.open THEN AccountingStop(c) ELSE c
  IN  [SetAuthorization(CancelAllTimers(stopped), Unauthorized)
         EXCEPT !.st = "New", !.kind = "Dot1x"]

teardown(c) ==
  IF c.st = "New" THEN c ELSE
  LET stopped == IF c.open THEN AccountingStop(c) ELSE c
      closed == SetAuthorization(CancelAllTimers(stopped), Unauthorized)
  IN  [closed EXCEPT !.st = "New", !.authz = NoGrant, !.kind = "Dot1x",
                     !.tx = 0]

begin_reauth(c) ==
  send_identity(CancelTimer([c EXCEPT !.st = "Connecting", !.tx = 1], "Reauth"))

coa_authorize(c, g) ==
  IF c.st # "Authenticated" THEN c
  ELSE SetAuthorization([c EXCEPT !.authz = g], Authorized(g))

\* Faulty variant: the timer that guarded the prompt stays armed.
relay_response_keeps_timer(c, kind, awaited, eap) ==
  ArmTimer(ToAuthServer([c EXCEPT !.st = "AuthServer", !.kind = kind], eap),
           "ServerTimeout")

\* A Response to the prompt or challenge that timer `awaited` guarded.
relay_response(c, kind, awaited, eap) ==
  ArmTimer(ToAuthServer(
    CancelTimer([c EXCEPT !.st = "AuthServer", !.kind = kind], awaited), eap),
    "ServerTimeout")

start_mab(c) ==
  ArmTimer(StartMab(
    CancelTimer([c EXCEPT !.st = "AuthServer", !.kind = "Mab"], "TxPeriod")),
    "ServerTimeout")

\* An answer to an EAP exchange carries an EAP packet to relay; MAB has none.
relay_answer(c) == IF c.kind = "Dot1x" THEN TxEapToSupplicant(c) ELSE c

\* Faulty variant: a re-authentication that finds nobody is treated
\* as a first attempt.
no_supplicant_forgets_open(c, cfg) ==
  CASE cfg.mab_enabled -> start_mab(c)
    [] ~cfg.mab_enabled /\ cfg.guest_vlan -> enter_fallback(c, "Guest")
    [] OTHER -> hold(c)

no_supplicant(c, cfg) ==
  CASE c.open -> teardown(c)
    [] ~c.open /\ cfg.mab_enabled -> start_mab(c)
    [] ~c.open /\ ~cfg.mab_enabled /\ cfg.guest_vlan -> enter_fallback(c, "Guest")
    [] OTHER -> hold(c)

\* Faulty variant: a re-authentication opens a second record.
authorize_always_starts(c, g, cfg) ==
  LET opened == SetAuthorization(CancelAllTimers(relay_answer(c)), Authorized(g))
      started == AccountingStart(opened)
      timed == IF g \in Timed THEN ArmTimer(started, "SessionTimeout")
                              ELSE started
  IN  [timed EXCEPT !.authz = g, !.st = "Authenticated"]

\* Faulty variant: the port opens before the supplicant is answered.
authorize_opens_first(c, g, cfg) ==
  LET opened == relay_answer(CancelAllTimers(SetAuthorization(c, Authorized(g))))
      started == IF c.open THEN opened ELSE AccountingStart(opened)
      reauth == IF cfg.reauth_enabled THEN ArmTimer(started, "Reauth")
                                      ELSE started
      timed == IF g \in Timed THEN ArmTimer(reauth, "SessionTimeout")
                              ELSE reauth
  IN  [timed EXCEPT !.authz = g, !.st = "Authenticated"]

authorize(c, g, cfg) ==
  LET opened == SetAuthorization(CancelAllTimers(relay_answer(c)), Authorized(g))
      started == IF c.open THEN opened ELSE AccountingStart(opened)
      reauth == IF cfg.reauth_enabled THEN ArmTimer(started, "Reauth")
                                      ELSE started
      timed == IF g \in Timed THEN ArmTimer(reauth, "SessionTimeout")
                              ELSE reauth
  IN  [timed EXCEPT !.authz = g, !.st = "Authenticated"]

\* Faulty variant: an open session that fails is demoted in place.
reject_demotes(c, cfg) ==
  LET told == relay_answer(c)
  IN  IF cfg.auth_fail_vlan THEN enter_fallback(told, "AuthFail") ELSE hold(told)

reject(c, cfg) ==
  LET told == relay_answer(c)
  IN  CASE c.open -> teardown(told)
        [] ~c.open /\ cfg.auth_fail_vlan -> enter_fallback(told, "AuthFail")
        [] OTHER -> hold(told)

\* Faulty variant: the outage ends periodic re-authentication.
server_unreachable_forgets_reauth(c, cfg) ==
  CASE c.open -> CancelTimer([c EXCEPT !.st = "Authenticated"], "ServerTimeout")
    [] ~c.open /\ cfg.critical_vlan ->
         ArmTimer(enter_fallback(c, "Critical"), "ServerTimeout")
    [] OTHER -> hold(c)

\* An established session rides out the outage; it is not dropped.
server_unreachable(c, cfg) ==
  LET kept == CancelTimer([c EXCEPT !.st = "Authenticated"], "ServerTimeout")
  IN  CASE c.open /\ cfg.reauth_enabled -> ArmTimer(kept, "Reauth")
        [] c.open /\ ~cfg.reauth_enabled -> kept
        [] ~c.open /\ cfg.critical_vlan ->
             ArmTimer(enter_fallback(c, "Critical"), "ServerTimeout")
        [] OTHER -> hold(c)

-----------------------------------------------------------------------------
(* State handlers *)

\* Clears accounting_open without a Stop: right only for a session not open.
enable(c) ==
  send_identity(SetAuthorization(
    [c EXCEPT !.authz = NoGrant, !.open = FALSE, !.kind = "Dot1x", !.tx = 1,
              !.st = "Connecting"], Unauthorized))

\* The tail shared by in_held, in_fallback and a Session-Timeout expiry.
reconnect(c) == send_identity([c EXCEPT !.tx = 1, !.st = "Connecting"])

\* Faulty variant: one prompt too many.
in_connecting_off_by_one(c, e, cfg) ==
  CASE e.type \in {"EapolStart", "LinkUp"} -> send_identity(c)
    [] e = Timer("TxPeriod") ->
         IF c.tx <= cfg.max_reauth_req
         THEN send_identity([c EXCEPT !.tx = @ + 1])
         ELSE no_supplicant(c, cfg)
    [] IsResponse(e) -> relay_response(c, "Dot1x", "TxPeriod", e.arg)
    [] e.type = "EapolLogoff" -> teardown(c)
    [] OTHER -> c

\* Faulty variant: a late Accept opens a session that asks for nothing.
in_connecting_takes_accept(c, e, cfg) ==
  CASE e.type = "AccessAccept" -> authorize(c, e.arg, cfg)
    [] e.type \in {"EapolStart", "LinkUp"} -> send_identity(c)
    [] e = Timer("TxPeriod") -> no_supplicant(c, cfg)
    [] IsResponse(e) -> relay_response(c, "Dot1x", "TxPeriod", e.arg)
    [] e.type = "EapolLogoff" -> teardown(c)
    [] OTHER -> c

in_connecting(c, e, cfg) ==
  CASE e.type \in {"EapolStart", "LinkUp"} -> send_identity(c)
    [] e = Timer("TxPeriod") ->
         IF c.tx < cfg.max_reauth_req
         THEN send_identity([c EXCEPT !.tx = @ + 1])
         ELSE no_supplicant(c, cfg)
    [] IsResponse(e) -> relay_response(c, "Dot1x", "TxPeriod", e.arg)
    [] e.type = "EapolLogoff" -> teardown(c)
    [] OTHER -> c

in_auth_server(c, e, cfg) ==
  CASE e.type = "AccessChallenge" ->
         ArmTimer(TxEapToSupplicant(
           CancelTimer([c EXCEPT !.st = "Authenticating"], "ServerTimeout")),
           "SuppTimeout")
    [] e.type = "AccessAccept" -> authorize(c, e.arg, cfg)
    [] e.type = "AccessReject" -> reject(c, cfg)
    [] e.type = "ServerUnreachable" \/ e = Timer("ServerTimeout") ->
         server_unreachable(c, cfg)
    [] e.type = "EapolLogoff" -> teardown(c)
    [] OTHER -> c

in_authenticating(c, e) ==
  CASE IsResponse(e) -> relay_response(c, c.kind, "SuppTimeout", e.arg)
    [] e = Timer("SuppTimeout") -> IF c.open THEN teardown(c) ELSE hold(c)
    [] e.type = "EapolStart" ->
         send_identity(CancelTimer([c EXCEPT !.st = "Connecting"],
                                   "SuppTimeout"))
    [] e.type = "EapolLogoff" -> teardown(c)
    [] OTHER -> c

in_authenticated(c, e) ==
  CASE e = Timer("Reauth") \/ e.type = "EapolStart" -> begin_reauth(c)
    [] e.type = "EapolLogoff" -> teardown(c)
    [] e = Timer("SessionTimeout") -> reconnect(teardown(c))
    [] OTHER -> c

in_held(c, e) ==
  IF e = Timer("Held") \/ e.type = "EapolStart"
  THEN reconnect(CancelTimer(c, "Held"))
  ELSE c

\* Faulty variant: a supplicant that turns up later is ignored.
in_fallback_ignores_start(c, e) ==
  IF e = Timer("ServerTimeout") /\ c.st = "Critical" THEN reconnect(c) ELSE c

\* The fallback posture, and a critical session's timer, stay in place.
in_fallback(c, e) ==
  IF \/ e.type = "EapolStart"
     \/ e = Timer("ServerTimeout") /\ c.st = "Critical"
  THEN reconnect(c)
  ELSE c

\* Advance the machine by one event; the events any state takes come first.
step(c, e, cfg) ==
  CASE e.type \in {"LinkDown", "CoaDisconnect"} -> teardown(c)
    [] e.type = "CoaAuthorize" -> coa_authorize(c, e.arg)
    [] e.type = "CoaReauthenticate" ->
         IF c.st = "Authenticated" THEN begin_reauth(c) ELSE c
    [] e.type = "Enable" -> enable(c)
    [] OTHER ->
         CASE c.st = "Connecting" -> in_connecting(c, e, cfg)
           [] c.st = "AuthServer" -> in_auth_server(c, e, cfg)
           [] c.st = "Authenticating" -> in_authenticating(c, e)
           [] c.st = "Authenticated" -> in_authenticated(c, e)
           [] c.st = "Held" -> in_held(c, e)
           [] c.st \in FallbackReason -> in_fallback(c, e)
           [] OTHER -> c

=============================================================================
