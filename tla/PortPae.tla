------------------------------ MODULE PortPae ------------------------------
(***************************************************************************)
(* The authenticator of one physical port: crates/pae/src/port.rs over the *)
(* session machine of PaeSession.                                          *)
(*                                                                         *)
(* sess is PortPae.sessions.  A session in state New is one that prune has *)
(* dropped, or that admit has not created yet: teardown leaves a session   *)
(* exactly as PortSession::new makes it, so the two are one value          *)
(* (SessionForgottenOK).  timers, acct and plane are the world the         *)
(* directed effects act on: the timers armed per MAC, the accounting       *)
(* Starts minus Stops sent per MAC, and the posture the last               *)
(* SetAuthorization asked for on each enforcement target.                  *)
(*                                                                         *)
(* The events of different MACs, the server, the timers and CoA interleave *)
(* freely: the caller of `handle` may deliver them in any order, late      *)
(* answers included, and hand it the expiry of a timer that was cancelled  *)
(* after it fired.                                                         *)
(***************************************************************************)
EXTENDS PaeSession, FiniteSets

CONSTANTS
  Mac,      \* supplicant MAC addresses seen on the port
  Port,     \* the target `None`: the whole port
  Configs   \* the port configurations under study

ASSUME PortAssumption ==
  /\ Port \notin Mac
  /\ IsFiniteSet(Mac)
  /\ Configs \subseteq PaeConfig

VARIABLES
  cfg,      \* PortPae.cfg: chosen once
  sess,     \* PortPae.sessions
  timers,   \* timers armed, per MAC
  acct,     \* accounting Starts minus Stops, per MAC
  plane     \* posture per enforcement target

vars == <<cfg, sess, timers, acct, plane>>

Targets == Mac \cup {Port}

TypeOK ==
  /\ cfg \in PaeConfig
  /\ sess \in [Mac -> PortSession]
  /\ timers \in [Mac -> SUBSET TimerKind]
  /\ acct \in [Mac -> Nat]
  /\ plane \in [Targets -> PortAuthorization]

-----------------------------------------------------------------------------

\* Sessions that are not New.
active_sessions == {m \in Mac : sess[m].st # "New"}

\* Faulty variant: a third session on a multi-domain port.
can_admit_one_more ==
  CASE cfg.host_mode = "MultiAuth" -> TRUE
    [] cfg.host_mode \in {"SingleHost", "MultiHost"} -> active_sessions = {}
    [] cfg.host_mode = "MultiDomain" -> Cardinality(active_sessions) <= 2

can_admit ==
  CASE cfg.host_mode = "MultiAuth" -> TRUE
    [] cfg.host_mode \in {"SingleHost", "MultiHost"} -> active_sessions = {}
    [] cfg.host_mode = "MultiDomain" -> Cardinality(active_sessions) < 2

\* Where decorate directs the SetAuthorization effects of m's session.
decorate(m) == IF cfg.host_mode = "MultiHost" THEN Port ELSE m

\* The context m's session steps in, once the timers in `fired` have expired.
View(m, fired) ==
  [st |-> sess[m].st, kind |-> sess[m].kind, tx |-> sess[m].tx,
   authz |-> sess[m].authz, open |-> sess[m].open, fx |-> <<>>,
   timers |-> timers[m] \ fired, acct |-> acct[m],
   posture |-> plane[decorate(m)]]

SessionOf(c) ==
  [st |-> c.st, kind |-> c.kind, tx |-> c.tx, authz |-> c.authz,
   open |-> c.open]

Commit(m, c) ==
  /\ sess' = [sess EXCEPT ![m] = SessionOf(c)]
  /\ timers' = [timers EXCEPT ![m] = c.timers]
  /\ acct' = [acct EXCEPT ![m] = c.acct]
  /\ plane' = [plane EXCEPT ![decorate(m)] = c.posture]
  /\ UNCHANGED cfg

\* Enable has already solicited an identity: a Start needs no further step.
admit(c, e) ==
  LET enabled == step(c, Event("Enable"), cfg)
  IN  IF e.type \in {"Enable", "EapolStart"} THEN enabled
      ELSE step(enabled, e, cfg)

\* An event for a MAC the host mode will not admit is dropped.
Deliver(m, e, fired) ==
  LET c == View(m, fired)
  IN  \/ m \in active_sessions /\ Commit(m, step(c, e, cfg))
      \/ m \notin active_sessions /\ can_admit /\ Commit(m, admit(c, e))
      \/ m \notin active_sessions /\ ~can_admit /\ UNCHANGED vars

handle(m, e) == Deliver(m, e, {})

-----------------------------------------------------------------------------
(* Events *)

\* Only a MAC with no session is enabled: admit is the one sender of Enable.
Enable(m) == m \notin active_sessions /\ handle(m, Event("Enable"))
LinkUp(m) == handle(m, Event("LinkUp"))
LinkDown(m) == handle(m, Event("LinkDown"))

EapolStart(m) == handle(m, Event("EapolStart"))
EapolLogoff(m) == handle(m, Event("EapolLogoff"))
EapReceived(m) == \E eap \in EapPacket : handle(m, EapFromSupplicant(eap))

Challenge(m) == handle(m, Event("AccessChallenge"))
Accept(m, g) == handle(m, AccessAccept(g))
Reject(m) == handle(m, Event("AccessReject"))
ServerUnreachable(m) == handle(m, Event("ServerUnreachable"))

CoaDisconnect(m) == handle(m, Event("CoaDisconnect"))
CoaReauthenticate(m) == handle(m, Event("CoaReauthenticate"))
CoaChange(m, g) == handle(m, CoaAuthorize(g))

\* A one-shot timer is no longer armed when its expiry is handled.
Expire(m, k) == k \in timers[m] /\ Deliver(m, Timer(k), {k})

\* The caller's queue may still hold the expiry of a timer cancelled since.
LateExpire(m, k) == handle(m, Timer(k))

\* Faulty variant: the sessions close, the whole port does not.
link_down_keeps_port ==
  LET down(m) == step(View(m, {}), Event("LinkDown"), cfg)
  IN  /\ sess' = [m \in Mac |-> SessionOf(down(m))]
      /\ timers' = [m \in Mac |-> down(m).timers]
      /\ acct' = [m \in Mac |-> down(m).acct]
      /\ plane' = [t \in Targets |-> IF t \in active_sessions THEN Unauthorized
                                     ELSE plane[t]]
      /\ UNCHANGED cfg

\* Every session takes LinkDown, undecorated; then the whole port closes.
link_down ==
  LET down(m) == step(View(m, {}), Event("LinkDown"), cfg)
  IN  /\ sess' = [m \in Mac |-> SessionOf(down(m))]
      /\ timers' = [m \in Mac |-> down(m).timers]
      /\ acct' = [m \in Mac |-> down(m).acct]
      /\ plane' = [t \in Targets |->
                     IF t = Port \/ t \in active_sessions THEN Unauthorized
                     ELSE plane[t]]
      /\ UNCHANGED cfg

-----------------------------------------------------------------------------

\* PortPae::new, then PortPae::enable: no session, the whole port closed.
Init ==
  /\ cfg \in Configs
  /\ sess = [m \in Mac |-> NewSession]
  /\ timers = [m \in Mac |-> {}]
  /\ acct = [m \in Mac |-> 0]
  /\ plane = [t \in Targets |-> Unauthorized]

SupplicantStep(m) == EapolStart(m) \/ EapolLogoff(m) \/ EapReceived(m)

ServerStep(m) ==
  \/ Challenge(m) \/ Reject(m) \/ ServerUnreachable(m)
  \/ \E g \in Grants : Accept(m, g)

AdminStep(m) ==
  \/ CoaDisconnect(m) \/ CoaReauthenticate(m)
  \/ \E g \in Grants : CoaChange(m, g)

LinkStep(m) == Enable(m) \/ LinkUp(m) \/ LinkDown(m)

TimerStep(m) == \E k \in TimerKind : Expire(m, k)

LateTimerStep(m) == \E k \in TimerKind : LateExpire(m, k)

Next ==
  \/ \E m \in Mac : \/ SupplicantStep(m) \/ ServerStep(m) \/ AdminStep(m)
                    \/ LinkStep(m) \/ TimerStep(m) \/ LateTimerStep(m)
  \/ link_down

Spec == Init /\ [][Next]_vars

-----------------------------------------------------------------------------
(* Safety *)

\* The timer each state waits on is armed, so that a lost frame, a silent
\* supplicant or a dead server cannot leave a session stuck; and no other
\* timer is, except a Session-Timeout that outlives a re-authentication and
\* the retry timer a supplicant's Start leaves behind in the critical VLAN.
TimersOK(c) ==
  /\ "TxPeriod" \in c.timers <=> c.st = "Connecting"
  /\ "SuppTimeout" \in c.timers <=> c.st = "Authenticating"
  /\ "Held" \in c.timers <=> c.st = "Held"
  /\ c.st \in {"AuthServer", "Critical"} => "ServerTimeout" \in c.timers
  /\ "ServerTimeout" \in c.timers => c.st \in {"AuthServer", "Critical", "Connecting"}
  /\ "Reauth" \in c.timers => c.st = "Authenticated"
  /\ "SessionTimeout" \in c.timers => c.open

\* Fail closed: the port forwards under a grant exactly while accounting is
\* open for it; a new or held session is closed; a fallback state and the
\* posture name the same reason.
PostureOK(c) ==
  /\ c.open => c.authz \in Grants /\ c.posture = Authorized(c.authz)
  /\ ~c.open => c.posture.mode # "Authorized"
  /\ c.st = "Authenticated" => c.open
  /\ c.st \in {"New", "Held"} => ~c.open /\ c.posture = Unauthorized
  /\ c.st \in FallbackReason => ~c.open /\ c.posture = Fallback(c.st)

\* A Stop follows every Start, exactly once, before the next Start.
AccountingOK(c) == c.acct = IF c.open THEN 1 ELSE 0

\* The prompts counted in one attempt never exceed the budget, also when an
\* EAPOL-Start takes the attempt back from a challenge to Connecting.
PromptsOK(c, conf) ==
  c.st \in {"Connecting", "AuthServer", "Authenticating"} =>
    c.tx >= 1 /\ (c.tx = 1 \/ c.tx <= conf.max_reauth_req)

\* A session that ended left nothing behind: prune forgets only a new one.
ForgottenOK(c) == c.st = "New" => SessionOf(c) = NewSession /\ c.timers = {}

\* Each session on the port, in whatever interleaving of its events.
\* In multi-host a MAC without a session has no posture of its own: the
\* whole port's belongs to the session that opened it.
Owns(m) == cfg.host_mode = "MultiHost" => m \in active_sessions

SessionTimersOK == \A m \in Mac : TimersOK(View(m, {}))
SessionPostureOK == \A m \in Mac : Owns(m) => PostureOK(View(m, {}))
SessionAccountingOK == \A m \in Mac : AccountingOK(View(m, {}))
SessionPromptsOK == \A m \in Mac : PromptsOK(View(m, {}), cfg)
SessionForgottenOK == \A m \in Mac : ForgottenOK(View(m, {}))

\* The host mode's limit on concurrent sessions is never exceeded.
CapacityOK ==
  /\ cfg.host_mode \in {"SingleHost", "MultiHost"} =>
       \A m, n \in active_sessions : m = n
  /\ cfg.host_mode = "MultiDomain" => Cardinality(active_sessions) <= 2

\* A target forwards (under a grant or in a fallback VLAN) only while a live
\* session is answerable for it: when the opener of a multi-host port goes,
\* the whole port closes.
ForwardingHasOwner ==
  \A t \in Targets :
    plane[t] # Unauthorized => \E m \in active_sessions : decorate(m) = t

\* Access opens only on an Access-Accept taken while a request is
\* outstanding; while open, the grant changes only by another Accept or by a
\* CoA.
AccessOnlyByServer ==
  [][\A m \in Mac :
       /\ acct'[m] > acct[m] => \E g \in Grants :
            /\ sess[m].st = "AuthServer" /\ Accept(m, g)
            /\ plane'[decorate(m)] = Authorized(g)
       /\ acct[m] > 0 /\ acct'[m] > 0 /\ sess'[m].authz # sess[m].authz =>
            \E g \in Grants :
              \/ sess[m].st = "AuthServer" /\ Accept(m, g)
              \/ CoaChange(m, g)]_vars

\* An authorized target is closed before it is moved to a fallback VLAN: an
\* established session that fails is torn down, never quietly demoted.
NoSilentDemotion ==
  [][\A t \in Targets :
       plane[t].mode = "Authorized" => plane'[t].mode # "Fallback"]_vars

-----------------------------------------------------------------------------
(* Refinement *)

CP == INSTANCE ControlledPort
        WITH Client <- Mac, mode <- cfg.host_mode, access <- plane,
             billed <- acct

\* The port keeps the promise of ControlledPort: every handler's net effect
\* on the posture and the accounting is one of its steps, or none.
ImplementsControlledPort == CP!Spec

=============================================================================
