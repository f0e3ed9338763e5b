-------------------------- MODULE PaeSessionProofs --------------------------
(***************************************************************************)
(* Every step of the session machine preserves the session's part of the   *)
(* inductive invariant of PortPae.  The lemmas follow the structure of     *)
(* PaeSession: what each effect leaves of a context, what each shared      *)
(* transition establishes, what each state handler preserves.              *)
(***************************************************************************)
EXTENDS PortPae, TLAPS

\* The session's part of the inductive invariant.
CtxInv(c, conf) ==
  /\ c \in Context
  /\ TimersOK(c)
  /\ PostureOK(c)
  /\ AccountingOK(c)
  /\ PromptsOK(c, conf)
  /\ ForgottenOK(c)

\* The same when e is about to be handled: the timer whose expiry e reports is
\* no longer armed.
Ready(c, e, conf) ==
  /\ c \in Context
  /\ PostureOK(c)
  /\ AccountingOK(c)
  /\ PromptsOK(c, conf)
  /\ ForgottenOK(c)
  /\ "TxPeriod" \in c.timers => c.st = "Connecting"
  /\ "SuppTimeout" \in c.timers => c.st = "Authenticating"
  /\ "Held" \in c.timers => c.st = "Held"
  /\ "ServerTimeout" \in c.timers => c.st \in {"AuthServer", "Critical", "Connecting"}
  /\ "Reauth" \in c.timers => c.st = "Authenticated"
  /\ "SessionTimeout" \in c.timers => c.open
  /\ c.st = "Connecting" => "TxPeriod" \in c.timers \/ e = Timer("TxPeriod")
  /\ c.st = "Authenticating" => "SuppTimeout" \in c.timers \/ e = Timer("SuppTimeout")
  /\ c.st = "Held" => "Held" \in c.timers \/ e = Timer("Held")
  /\ c.st \in {"AuthServer", "Critical"} =>
       "ServerTimeout" \in c.timers \/ e = Timer("ServerTimeout")

\* The events the daemon can hand to a session.
EventOK(e) ==
  /\ e.type \in {"AccessAccept", "CoaAuthorize"} => e.arg \in Grants
  /\ e.type = "EapFromSupplicant" => e.arg \in EapPacket

SameSession(d, c) ==
  d.st = c.st /\ d.kind = c.kind /\ d.tx = c.tx /\ d.authz = c.authz

\* From c to d no access is given: record, grant and posture stay as they are,
\* or the port is closed, or there was no record and there is none.
NoneGiven(c, d) ==
  \/ d.open = c.open /\ d.authz = c.authz /\ d.posture = c.posture
  \/ ~d.open /\ (d.posture = Unauthorized \/ ~c.open)

\* d is open under the grant g.
Given(d, g) == d.open /\ d.authz = g /\ d.posture = Authorized(g)

-----------------------------------------------------------------------------
(* Effects *)

\* Each effect constructor builds an Effect.
LEMMA EffectTypes ==
  /\ \A k \in TimerKind : /\ [do |-> "ArmTimer", arg |-> k] \in Effect
                          /\ [do |-> "CancelTimer", arg |-> k] \in Effect
  /\ \A p \in PortAuthorization : [do |-> "SetAuthorization", arg |-> p] \in Effect
  /\ \A p \in EapPacket : [do |-> "ToAuthServer", arg |-> p] \in Effect
  /\ \A d \in {"TxEapToSupplicant", "StartMab", "CancelAllTimers", "Start", "Stop"} :
       [do |-> d, arg |-> NoGrant] \in Effect
  BY DEF Effect

\* Emitting an effect changes nothing but the list.
LEMMA EmitFields ==
  ASSUME NEW c \in Context, NEW do, NEW arg, [do |-> do, arg |-> arg] \in Effect
  PROVE  LET d == Emit(c, do, arg) IN
         /\ d \in Context /\ SameSession(d, c) /\ d.open = c.open
         /\ d.timers = c.timers /\ d.acct = c.acct /\ d.posture = c.posture
<1> DEFINE f == Append(c.fx, [do |-> do, arg |-> arg])
<1>1. f \in Seq(Effect)
  BY DEF Context
<1>2. Emit(c, do, arg) = [c EXCEPT !.fx = f]
  BY DEF Emit
<1> HIDE DEF f
<1> QED BY <1>1, <1>2 DEF Context, SameSession

\* Sending or relaying EAP changes nothing but the list.
LEMMA RelayFields ==
  ASSUME NEW c \in Context, NEW eap \in EapPacket,
         NEW d \in {TxEapToSupplicant(c), ToAuthServer(c, eap), StartMab(c)}
  PROVE  /\ d \in Context /\ SameSession(d, c) /\ d.open = c.open
         /\ d.timers = c.timers /\ d.acct = c.acct /\ d.posture = c.posture
<1>1. CASE d = TxEapToSupplicant(c)
  <2>1. [do |-> "TxEapToSupplicant", arg |-> NoGrant] \in Effect
    BY EffectTypes
  <2> QED BY <1>1, <2>1, EmitFields DEF TxEapToSupplicant
<1>2. CASE d = ToAuthServer(c, eap)
  <2>1. [do |-> "ToAuthServer", arg |-> eap] \in Effect
    BY EffectTypes
  <2> QED BY <1>2, <2>1, EmitFields DEF ToAuthServer
<1>3. CASE d = StartMab(c)
  <2>1. [do |-> "StartMab", arg |-> NoGrant] \in Effect
    BY EffectTypes
  <2> QED BY <1>3, <2>1, EmitFields DEF StartMab
<1> QED BY <1>1, <1>2, <1>3

\* Arming a timer adds it and changes nothing else.
LEMMA ArmFields ==
  ASSUME NEW c \in Context, NEW k \in TimerKind
  PROVE  LET d == ArmTimer(c, k) IN
         /\ d \in Context /\ SameSession(d, c) /\ d.open = c.open
         /\ d.timers = c.timers \cup {k} /\ d.acct = c.acct
         /\ d.posture = c.posture
<1> DEFINE b == Emit(c, "ArmTimer", k)
<1>1. /\ b \in Context /\ SameSession(b, c) /\ b.open = c.open
      /\ b.timers = c.timers /\ b.acct = c.acct /\ b.posture = c.posture
  BY EffectTypes, EmitFields
<1>2. ArmTimer(c, k) = [b EXCEPT !.timers = @ \cup {k}]
  BY DEF ArmTimer
<1> HIDE DEF b
<1> QED BY <1>1, <1>2 DEF Context, SameSession

\* Cancelling a timer removes it and changes nothing else.
LEMMA CancelFields ==
  ASSUME NEW c \in Context, NEW k \in TimerKind
  PROVE  LET d == CancelTimer(c, k) IN
         /\ d \in Context /\ SameSession(d, c) /\ d.open = c.open
         /\ d.timers = c.timers \ {k} /\ d.acct = c.acct
         /\ d.posture = c.posture
<1> DEFINE b == Emit(c, "CancelTimer", k)
<1>1. /\ b \in Context /\ SameSession(b, c) /\ b.open = c.open
      /\ b.timers = c.timers /\ b.acct = c.acct /\ b.posture = c.posture
  BY EffectTypes, EmitFields
<1>2. CancelTimer(c, k) = [b EXCEPT !.timers = @ \ {k}]
  BY DEF CancelTimer
<1> HIDE DEF b
<1> QED BY <1>1, <1>2 DEF Context, SameSession

\* SetAuthorization changes the posture and nothing else.
LEMMA SetFields ==
  ASSUME NEW c \in Context, NEW p \in PortAuthorization
  PROVE  LET d == SetAuthorization(c, p) IN
         /\ d \in Context /\ SameSession(d, c) /\ d.open = c.open
         /\ d.timers = c.timers /\ d.acct = c.acct /\ d.posture = p
<1> DEFINE f == Emit(c, "SetAuthorization", p)
<1>1. /\ f \in Context /\ SameSession(f, c) /\ f.open = c.open
      /\ f.timers = c.timers /\ f.acct = c.acct
  BY EffectTypes, EmitFields
<1>2. SetAuthorization(c, p) = [f EXCEPT !.posture = p]
  BY DEF SetAuthorization
<1> HIDE DEF f
<1> QED BY <1>1, <1>2 DEF Context, SameSession

\* CancelAllTimers disarms every timer and changes nothing else.
LEMMA CancelAllFields ==
  ASSUME NEW c \in Context
  PROVE  LET d == CancelAllTimers(c) IN
         /\ d \in Context /\ SameSession(d, c) /\ d.open = c.open
         /\ d.timers = {} /\ d.acct = c.acct /\ d.posture = c.posture
<1> DEFINE f == Emit(c, "CancelAllTimers", NoGrant)
<1>1. /\ f \in Context /\ SameSession(f, c) /\ f.open = c.open
      /\ f.acct = c.acct /\ f.posture = c.posture
  BY EffectTypes, EmitFields
<1>2. CancelAllTimers(c) = [f EXCEPT !.timers = {}]
  BY DEF CancelAllTimers
<1> HIDE DEF f
<1> QED BY <1>1, <1>2 DEF Context, SameSession

\* CancelAllTimers then SetAuthorization: the pair every close, fallback and
\* grant goes through.
LEMMA ResetFields ==
  ASSUME NEW c \in Context, NEW p \in PortAuthorization
  PROVE  LET d == SetAuthorization(CancelAllTimers(c), p) IN
         /\ d \in Context /\ SameSession(d, c) /\ d.open = c.open
         /\ d.timers = {} /\ d.acct = c.acct /\ d.posture = p
<1> DEFINE b == CancelAllTimers(c)
<1>1. /\ b \in Context /\ SameSession(b, c) /\ b.open = c.open
      /\ b.timers = {} /\ b.acct = c.acct
  BY CancelAllFields
<1> HIDE DEF b
<1>2. LET d == SetAuthorization(b, p) IN
      /\ d \in Context /\ SameSession(d, b) /\ d.open = b.open
      /\ d.timers = b.timers /\ d.acct = b.acct /\ d.posture = p
  BY <1>1, SetFields
<1> QED BY <1>1, <1>2 DEF b, SameSession

\* A Start opens the record.
LEMMA StartFields ==
  ASSUME NEW c \in Context
  PROVE  LET d == AccountingStart(c) IN
         /\ d \in Context /\ SameSession(d, c) /\ d.open = TRUE
         /\ d.timers = c.timers /\ d.acct = c.acct + 1
         /\ d.posture = c.posture
<1> DEFINE f == Emit(c, "Start", NoGrant)
<1>1. /\ f \in Context /\ SameSession(f, c) /\ f.timers = c.timers
      /\ f.acct = c.acct /\ f.posture = c.posture
  BY EffectTypes, EmitFields
<1>2. AccountingStart(c) = [f EXCEPT !.acct = c.acct + 1, !.open = TRUE]
  BY <1>1 DEF AccountingStart
<1>3. c.acct + 1 \in Nat
  BY DEF Context
<1> DEFINE n == c.acct + 1
<1> HIDE DEF f, n
<1> QED BY <1>1, <1>2, <1>3 DEF Context, SameSession, n

\* A Stop closes the record.
LEMMA StopFields ==
  ASSUME NEW c \in Context, c.acct = 1
  PROVE  LET d == AccountingStop(c) IN
         /\ d \in Context /\ SameSession(d, c) /\ d.open = FALSE
         /\ d.timers = c.timers /\ d.acct = 0 /\ d.posture = c.posture
<1> DEFINE f == Emit(c, "Stop", NoGrant)
<1>1. /\ f \in Context /\ SameSession(f, c) /\ f.timers = c.timers
      /\ f.acct = c.acct /\ f.posture = c.posture
  BY EffectTypes, EmitFields
<1> DEFINE n == f.acct - 1
<1>2. AccountingStop(c) = [f EXCEPT !.acct = n, !.open = FALSE]
  BY DEF AccountingStop
<1>3. n = 0 /\ n \in Nat
  <2> HIDE DEF f
  <2> QED BY <1>1
<1> HIDE DEF f, n
<1> QED BY <1>1, <1>2, <1>3 DEF Context, SameSession

-----------------------------------------------------------------------------
(* Shared transitions *)

\* The postures are PortAuthorization values, and only a grant is Authorized.
LEMMA Postures ==
  /\ Unauthorized \in PortAuthorization /\ Unauthorized.mode # "Authorized"
  /\ \A g \in Grants : Authorized(g) \in PortAuthorization
  /\ \A r \in FallbackReason : /\ Fallback(r) \in PortAuthorization
                               /\ Fallback(r).mode # "Authorized"
  BY DEF PortAuthorization, Unauthorized, Authorized, Fallback

\* A state change alters the state and nothing else.
LEMMA StateFields ==
  ASSUME NEW c \in Context, NEW s \in State
  PROVE  LET d == [c EXCEPT !.st = s] IN
         /\ d \in Context /\ d.st = s /\ d.kind = c.kind /\ d.tx = c.tx
         /\ d.authz = c.authz /\ d.open = c.open /\ d.timers = c.timers
         /\ d.acct = c.acct /\ d.posture = c.posture
  BY DEF Context

\* A prompt arms tx-period and changes nothing else.
LEMMA SendIdentityFields ==
  ASSUME NEW c \in Context
  PROVE  LET d == send_identity(c) IN
         /\ d \in Context /\ SameSession(d, c) /\ d.open = c.open
         /\ d.timers = c.timers \cup {"TxPeriod"} /\ d.acct = c.acct
         /\ d.posture = c.posture
<1> DEFINE b == TxEapToSupplicant(c)
<1>1. "Identity" \in EapPacket /\ "TxPeriod" \in TimerKind
  BY DEF EapPacket, TimerKind
<1>2. /\ b \in Context /\ SameSession(b, c) /\ b.open = c.open
      /\ b.timers = c.timers /\ b.acct = c.acct /\ b.posture = c.posture
  BY <1>1, RelayFields
<1>3. send_identity(c) = ArmTimer(b, "TxPeriod")
  BY DEF send_identity
<1> HIDE DEF b
<1> QED BY <1>1, <1>2, <1>3, ArmFields DEF SameSession

\* A prompt in state Connecting establishes the invariant, given that the
\* timers of the states left behind are disarmed.
LEMMA SolicitOK ==
  ASSUME NEW conf \in PaeConfig, NEW c \in Context, c.st = "Connecting",
         PostureOK(c), AccountingOK(c), PromptsOK(c, conf),
         c.timers \cap {"SuppTimeout", "Held", "Reauth"} = {},
         "SessionTimeout" \in c.timers => c.open
  PROVE  CtxInv(send_identity(c), conf) /\ NoneGiven(c, send_identity(c))
<1> DEFINE d == send_identity(c)
<1>1. /\ d \in Context /\ SameSession(d, c) /\ d.open = c.open
      /\ d.timers = c.timers \cup {"TxPeriod"} /\ d.acct = c.acct
      /\ d.posture = c.posture
  BY SendIdentityFields
<1> HIDE DEF d
<1>2. d.st = "Connecting" /\ d.tx = c.tx /\ d.authz = c.authz
  BY <1>1 DEF SameSession
<1>3. TimersOK(d)
  BY <1>1, <1>2 DEF TimersOK
<1>4. PostureOK(d)
  BY <1>1, <1>2 DEF PostureOK
<1>5. AccountingOK(d) /\ PromptsOK(d, conf) /\ ForgottenOK(d)
  BY <1>1, <1>2 DEF AccountingOK, PromptsOK, ForgottenOK
<1>6. NoneGiven(c, d)
  BY <1>1, <1>2 DEF NoneGiven
<1> QED BY <1>1, <1>3, <1>4, <1>5, <1>6 DEF CtxInv, d

\* hold closes the port and waits on the quiet period.
LEMMA HoldOK ==
  ASSUME NEW conf \in PaeConfig, NEW c \in Context, ~c.open, AccountingOK(c)
  PROVE  CtxInv(hold(c), conf) /\ NoneGiven(c, hold(c))
<1> DEFINE a == [c EXCEPT !.st = "Held"]
           b == SetAuthorization(CancelAllTimers(a), Unauthorized)
           d == ArmTimer(b, "Held")
<1>1. "Held" \in State /\ "Held" \in TimerKind
  BY DEF State, TimerKind
<1>2. /\ a \in Context /\ a.st = "Held" /\ a.tx = c.tx /\ a.authz = c.authz
      /\ a.open = c.open /\ a.acct = c.acct
  BY <1>1, StateFields
<1> HIDE DEF a
<1>3. /\ b \in Context /\ SameSession(b, a) /\ b.open = a.open
      /\ b.timers = {} /\ b.acct = a.acct /\ b.posture = Unauthorized
  BY <1>2, Postures, ResetFields
<1> HIDE DEF b
<1>4. /\ d \in Context /\ SameSession(d, b) /\ d.open = b.open
      /\ d.timers = b.timers \cup {"Held"} /\ d.acct = b.acct
      /\ d.posture = b.posture
  BY <1>1, <1>3, ArmFields
<1> HIDE DEF d
<1>5. /\ d.st = "Held" /\ ~d.open /\ d.timers = {"Held"}
      /\ d.acct = c.acct /\ d.posture = Unauthorized
  BY <1>2, <1>3, <1>4 DEF SameSession
<1>6. TimersOK(d)
  BY <1>5 DEF TimersOK
<1>7. PostureOK(d)
  BY <1>5, Postures DEF PostureOK, FallbackReason
<1>8. AccountingOK(d) /\ PromptsOK(d, conf) /\ ForgottenOK(d)
  BY <1>5 DEF AccountingOK, PromptsOK, ForgottenOK
<1>9. hold(c) = d
  BY DEF hold, a, b, d
<1>10. NoneGiven(c, d)
  BY <1>5 DEF NoneGiven
<1> QED BY <1>4, <1>6, <1>7, <1>8, <1>9, <1>10 DEF CtxInv

\* enter_fallback puts the state and the posture under one reason.
LEMMA FallbackFields ==
  ASSUME NEW c \in Context, ~c.open, AccountingOK(c), NEW r \in FallbackReason
  PROVE  LET d == enter_fallback(c, r) IN
         /\ d \in Context /\ d.st = r /\ ~d.open /\ d.timers = {}
         /\ d.acct = c.acct /\ d.posture = Fallback(r)
<1> DEFINE a == [c EXCEPT !.st = r]
<1>1. r \in State
  BY DEF State
<1>2. /\ a \in Context /\ a.st = r /\ a.open = c.open /\ a.acct = c.acct
  BY <1>1, StateFields
<1>3. enter_fallback(c, r) = SetAuthorization(CancelAllTimers(a), Fallback(r))
  BY DEF enter_fallback
<1> HIDE DEF a
<1> QED BY <1>2, <1>3, Postures, ResetFields DEF SameSession

\* A fallback context whose timers suit its reason satisfies the invariant.
LEMMA InFallbackOK ==
  ASSUME NEW conf \in PaeConfig, NEW d \in Context, d.st \in FallbackReason,
         ~d.open, d.acct = 0, d.posture = Fallback(d.st),
         d.timers = IF d.st = "Critical" THEN {"ServerTimeout"} ELSE {}
  PROVE  CtxInv(d, conf)
<1>1. TimersOK(d)
  BY DEF TimersOK, FallbackReason
<1>2. PostureOK(d)
  BY Postures DEF PostureOK, FallbackReason
<1>3. AccountingOK(d) /\ PromptsOK(d, conf) /\ ForgottenOK(d)
  BY DEF AccountingOK, PromptsOK, ForgottenOK, FallbackReason
<1> QED BY <1>1, <1>2, <1>3 DEF CtxInv

\* Teardown stops accounting, closes the port and leaves a new session.
LEMMA TeardownOK ==
  ASSUME NEW conf \in PaeConfig, NEW c \in Context, AccountingOK(c),
         c.st = "New" => CtxInv(c, conf)
  PROVE  /\ CtxInv(teardown(c), conf)
         /\ teardown(c).st = "New"
         /\ NoneGiven(c, teardown(c))
<1>1. CASE c.st = "New"
  BY <1>1 DEF teardown, NoneGiven
<1>2. CASE c.st # "New"
  <2> DEFINE a == IF c.open THEN AccountingStop(c) ELSE c
             b == SetAuthorization(CancelAllTimers(a), Unauthorized)
             d == [b EXCEPT !.st = "New", !.authz = NoGrant, !.kind = "Dot1x",
                            !.tx = 0]
  <2>1. a \in Context /\ a.open = FALSE /\ a.acct = 0
    <3>1. CASE c.open
      BY <3>1, StopFields DEF AccountingOK
    <3>2. CASE ~c.open
      BY <3>2 DEF AccountingOK, Context
    <3> QED BY <3>1, <3>2
  <2> HIDE DEF a
  <2>2. /\ b \in Context /\ b.open = FALSE /\ b.timers = {} /\ b.acct = 0
        /\ b.posture = Unauthorized
    BY <2>1, Postures, ResetFields
  <2> HIDE DEF b
  <2>3. "New" \in State /\ "Dot1x" \in AuthKind
    BY DEF State, AuthKind
  <2>4. /\ d \in Context /\ d.st = "New" /\ d.authz = NoGrant /\ d.kind = "Dot1x"
        /\ d.tx = 0 /\ d.open = FALSE /\ d.timers = {} /\ d.acct = 0
        /\ d.posture = Unauthorized
    BY <2>2, <2>3 DEF Context
  <2> HIDE DEF d
  <2>5. TimersOK(d)
    BY <2>4 DEF TimersOK
  <2>6. PostureOK(d)
    BY <2>4, Postures DEF PostureOK, FallbackReason
  <2>7. AccountingOK(d) /\ PromptsOK(d, conf)
    BY <2>4 DEF AccountingOK, PromptsOK
  <2>8. ForgottenOK(d)
    BY <2>4 DEF ForgottenOK, SessionOf, NewSession
  <2>9. teardown(c) = d
    BY <1>2 DEF teardown, a, b, d
  <2> QED BY <2>4, <2>5, <2>6, <2>7, <2>8, <2>9 DEF CtxInv, NoneGiven
<1> QED BY <1>1, <1>2

\* Both ways of asking the server wait on the server timeout.
LEMMA AskServerOK ==
  ASSUME NEW conf \in PaeConfig, NEW c \in Context, NEW kind \in AuthKind,
         NEW awaited \in {"TxPeriod", "SuppTimeout"}, NEW eap \in EapPacket,
         PostureOK(c), AccountingOK(c), PromptsOK(c, conf),
         c.st \in {"Connecting", "Authenticating"},
         c.timers \subseteq {awaited, "ServerTimeout", "SessionTimeout"},
         "SessionTimeout" \in c.timers => c.open
  PROVE  /\ CtxInv(relay_response(c, kind, awaited, eap), conf)
         /\ NoneGiven(c, relay_response(c, kind, awaited, eap))
         /\ awaited = "TxPeriod" =>
              CtxInv(start_mab(c), conf) /\ NoneGiven(c, start_mab(c))
<1>1. SUFFICES
        ASSUME NEW k \in AuthKind, NEW f, NEW b,
               b = CancelTimer([c EXCEPT !.st = "AuthServer", !.kind = k], awaited),
               f \in {ToAuthServer(b, eap), StartMab(b)}
        PROVE  /\ CtxInv(ArmTimer(f, "ServerTimeout"), conf)
               /\ NoneGiven(c, ArmTimer(f, "ServerTimeout"))
  BY DEF relay_response, start_mab, AuthKind
<1> DEFINE a == [c EXCEPT !.st = "AuthServer", !.kind = k]
           d == ArmTimer(f, "ServerTimeout")
<1>2. "AuthServer" \in State /\ awaited \in TimerKind /\ "ServerTimeout" \in TimerKind
  BY DEF State, TimerKind
<1>3. /\ a \in Context /\ a.st = "AuthServer" /\ a.tx = c.tx
      /\ a.authz = c.authz /\ a.open = c.open /\ a.timers = c.timers
      /\ a.acct = c.acct /\ a.posture = c.posture
  BY <1>2 DEF Context
<1> HIDE DEF a
<1>4. b = CancelTimer(a, awaited)
  BY <1>1 DEF a
<1>5. /\ b \in Context /\ SameSession(b, a) /\ b.open = a.open
      /\ b.timers = a.timers \ {awaited} /\ b.acct = a.acct
      /\ b.posture = a.posture
  BY <1>2, <1>3, <1>4, CancelFields
<1>6. /\ f \in Context /\ SameSession(f, b) /\ f.open = b.open
      /\ f.timers = b.timers /\ f.acct = b.acct /\ f.posture = b.posture
  BY <1>1, <1>5, RelayFields
<1>7. /\ d \in Context /\ SameSession(d, f) /\ d.open = f.open
      /\ d.timers = f.timers \cup {"ServerTimeout"} /\ d.acct = f.acct
      /\ d.posture = f.posture
  BY <1>2, <1>6, ArmFields
<1> HIDE DEF d
<1>8. /\ d.st = "AuthServer" /\ d.tx = c.tx /\ d.authz = c.authz
      /\ d.open = c.open /\ d.timers \subseteq {"ServerTimeout", "SessionTimeout"}
      /\ "ServerTimeout" \in d.timers
      /\ "SessionTimeout" \in d.timers => d.open
      /\ d.acct = c.acct /\ d.posture = c.posture
  BY <1>3, <1>5, <1>6, <1>7 DEF SameSession
<1>9. TimersOK(d)
  BY <1>8 DEF TimersOK
<1>10. PostureOK(d)
  BY <1>8 DEF PostureOK, FallbackReason
<1>11. AccountingOK(d) /\ PromptsOK(d, conf) /\ ForgottenOK(d)
  BY <1>8 DEF AccountingOK, PromptsOK, ForgottenOK
<1>12. NoneGiven(c, d)
  BY <1>8 DEF NoneGiven
<1> QED BY <1>7, <1>9, <1>10, <1>11, <1>12 DEF CtxInv, d

\* Relaying the server's answer changes nothing but the list of effects.
LEMMA RelayAnswerFields ==
  ASSUME NEW c \in Context
  PROVE  LET d == relay_answer(c) IN
         /\ d \in Context /\ SameSession(d, c) /\ d.open = c.open
         /\ d.timers = c.timers /\ d.acct = c.acct /\ d.posture = c.posture
<1>1. "Identity" \in EapPacket
  BY DEF EapPacket
<1>2. CASE c.kind = "Dot1x"
  <2>1. relay_answer(c) = TxEapToSupplicant(c)
    BY <1>2 DEF relay_answer
  <2> QED BY <1>1, <2>1, RelayFields
<1>3. CASE c.kind # "Dot1x"
  BY <1>3 DEF relay_answer, SameSession
<1> QED BY <1>2, <1>3

\* An Accept opens the port and, once, the accounting record.
LEMMA AuthorizeOK ==
  ASSUME NEW conf \in PaeConfig, NEW c \in Context, AccountingOK(c),
         NEW g \in Grants
  PROVE  CtxInv(authorize(c, g, conf), conf) /\ Given(authorize(c, g, conf), g)
<1> DEFINE q == relay_answer(c)
           o == SetAuthorization(CancelAllTimers(q), Authorized(g))
           t == IF c.open THEN o ELSE AccountingStart(o)
           u == IF conf.reauth_enabled THEN ArmTimer(t, "Reauth") ELSE t
           v == IF g \in Timed THEN ArmTimer(u, "SessionTimeout") ELSE u
           d == [v EXCEPT !.authz = g, !.st = "Authenticated"]
<1>1. q \in Context /\ q.open = c.open /\ q.acct = c.acct
  BY RelayAnswerFields
<1> HIDE DEF q
<1>2. /\ o \in Context /\ o.open = c.open /\ o.timers = {} /\ o.acct = c.acct
      /\ o.posture = Authorized(g)
  BY <1>1, Postures, ResetFields
<1> HIDE DEF o
<1>3. /\ t \in Context /\ t.open = TRUE /\ t.timers = {} /\ t.acct = 1
      /\ t.posture = Authorized(g)
  <2>1. CASE c.open
    BY <1>2, <2>1 DEF AccountingOK, Context
  <2>2. CASE ~c.open
    <3>1. t = AccountingStart(o)
      BY <2>2
    <3>2. o.acct = 0
      BY <1>2, <2>2 DEF AccountingOK
    <3> HIDE DEF t
    <3>3. t \in Context /\ t.open = TRUE /\ t.timers = {} /\ t.acct = o.acct + 1
          /\ t.posture = Authorized(g)
      BY <1>2, <3>1, StartFields
    <3> QED BY <3>2, <3>3
  <2> QED BY <2>1, <2>2
<1> HIDE DEF t
<1>4. "Reauth" \in TimerKind /\ "SessionTimeout" \in TimerKind
  BY DEF TimerKind
<1>5. /\ u \in Context /\ u.open = TRUE /\ u.timers \subseteq {"Reauth"}
      /\ u.acct = 1 /\ u.posture = Authorized(g)
  BY <1>3, <1>4, ArmFields
<1> HIDE DEF u
<1>6. /\ v \in Context /\ v.open = TRUE /\ v.acct = 1
      /\ v.timers \subseteq {"Reauth", "SessionTimeout"}
      /\ v.posture = Authorized(g)
  BY <1>4, <1>5, ArmFields
<1> HIDE DEF v
<1>7. "Authenticated" \in State
  BY DEF State
<1>8. /\ d \in Context /\ d.st = "Authenticated" /\ d.authz = g /\ d.open = TRUE
      /\ d.timers \subseteq {"Reauth", "SessionTimeout"} /\ d.acct = 1
      /\ d.posture = Authorized(g)
  BY <1>6, <1>7 DEF Context
<1> HIDE DEF d
<1>9. TimersOK(d)
  BY <1>8 DEF TimersOK
<1>10. PostureOK(d)
  BY <1>8 DEF PostureOK, FallbackReason
<1>11. AccountingOK(d) /\ PromptsOK(d, conf) /\ ForgottenOK(d)
  BY <1>8 DEF AccountingOK, PromptsOK, ForgottenOK
<1>12. authorize(c, g, conf) = d
  BY DEF authorize, q, o, t, u, v, d
<1> QED BY <1>8, <1>9, <1>10, <1>11, <1>12 DEF CtxInv, Given

\* A Reject tears an open session down, and otherwise quarantines or holds.
LEMMA RejectOK ==
  ASSUME NEW conf \in PaeConfig, NEW c \in Context, AccountingOK(c),
         c.st = "AuthServer"
  PROVE  CtxInv(reject(c, conf), conf) /\ NoneGiven(c, reject(c, conf))
<1> DEFINE q == relay_answer(c)
<1>1. /\ q \in Context /\ q.st = "AuthServer" /\ q.open = c.open
      /\ q.acct = c.acct
  BY RelayAnswerFields DEF SameSession
<1>3. CASE c.open
  <2>1. reject(c, conf) = teardown(q)
    BY <1>3 DEF reject
  <2> HIDE DEF q
  <2>2. CtxInv(teardown(q), conf) /\ teardown(q).st = "New"
    BY <1>1, TeardownOK DEF AccountingOK
  <2> HIDE DEF teardown
  <2>3. NoneGiven(c, teardown(q))
    BY <2>2 DEF CtxInv, PostureOK, NoneGiven
  <2> QED BY <2>1, <2>2, <2>3
<1>4. CASE ~c.open /\ conf.auth_fail_vlan
  <2>1. reject(c, conf) = enter_fallback(q, "AuthFail")
    BY <1>4 DEF reject
  <2> HIDE DEF q
  <2>2. "AuthFail" \in FallbackReason
    BY DEF FallbackReason
  <2>3. AccountingOK(q) /\ ~q.open /\ q.acct = 0
    BY <1>1, <1>4 DEF AccountingOK
  <2> DEFINE d == enter_fallback(q, "AuthFail")
  <2>4. /\ d \in Context /\ d.st = "AuthFail" /\ ~d.open /\ d.timers = {}
        /\ d.acct = 0 /\ d.posture = Fallback("AuthFail")
    BY <1>1, <2>2, <2>3, FallbackFields
  <2> HIDE DEF d
  <2>5. CtxInv(d, conf) /\ NoneGiven(c, d)
    BY <1>4, <2>2, <2>4, InFallbackOK DEF NoneGiven
  <2> QED BY <2>1, <2>5 DEF d
<1>5. CASE ~c.open /\ ~conf.auth_fail_vlan
  <2>1. reject(c, conf) = hold(q)
    BY <1>5 DEF reject
  <2> HIDE DEF q
  <2>2. CtxInv(hold(q), conf) /\ NoneGiven(q, hold(q))
    BY <1>1, <1>5, HoldOK DEF AccountingOK
  <2>3. NoneGiven(c, hold(q))
    BY <1>1, <1>5, <2>2 DEF NoneGiven
  <2> QED BY <2>1, <2>2, <2>3
<1> QED BY <1>3, <1>4, <1>5 DEF PaeConfig

\* When the server cannot be reached an open session is kept, and any other
\* one goes to the critical VLAN or is held.
LEMMA UnreachableOK ==
  ASSUME NEW conf \in PaeConfig, NEW c \in Context, AccountingOK(c),
         PostureOK(c), c.st = "AuthServer",
         c.timers \subseteq {"ServerTimeout", "SessionTimeout"}
  PROVE  /\ CtxInv(server_unreachable(c, conf), conf)
         /\ NoneGiven(c, server_unreachable(c, conf))
<1> DEFINE a == [c EXCEPT !.st = "Authenticated"]
           b == CancelTimer(a, "ServerTimeout")
           d == server_unreachable(c, conf)
<1>1. /\ "Authenticated" \in State /\ "ServerTimeout" \in TimerKind
      /\ "Reauth" \in TimerKind /\ "Critical" \in FallbackReason
  BY DEF State, TimerKind, FallbackReason
<1>2. CASE c.open
  <2>1. d = IF conf.reauth_enabled THEN ArmTimer(b, "Reauth") ELSE b
    BY <1>2 DEF server_unreachable, PaeConfig
  <2>2. /\ a \in Context /\ a.st = "Authenticated" /\ a.authz = c.authz
        /\ a.open = c.open /\ a.timers = c.timers /\ a.acct = c.acct
        /\ a.posture = c.posture
    BY <1>1, StateFields
  <2> HIDE DEF a
  <2>3. /\ b \in Context /\ SameSession(b, a) /\ b.open = a.open
        /\ b.timers = a.timers \ {"ServerTimeout"} /\ b.acct = a.acct
        /\ b.posture = a.posture
    BY <1>1, <2>2, CancelFields
  <2> HIDE DEF b
  <2>4. /\ d \in Context /\ SameSession(d, b) /\ d.open = b.open
        /\ d.timers \subseteq b.timers \cup {"Reauth"} /\ d.acct = b.acct
        /\ d.posture = b.posture
    <3> HIDE DEF d
    <3>1. CASE conf.reauth_enabled
      BY <1>1, <2>1, <2>3, <3>1, ArmFields
    <3>2. CASE ~conf.reauth_enabled
      BY <2>1, <2>3, <3>2 DEF SameSession
    <3> QED BY <3>1, <3>2
  <2> HIDE DEF d
  <2>5. /\ d.st = "Authenticated" /\ d.authz = c.authz /\ d.open
        /\ d.timers \subseteq {"SessionTimeout", "Reauth"} /\ d.acct = c.acct
        /\ d.posture = c.posture
    BY <1>2, <2>2, <2>3, <2>4 DEF SameSession
  <2>6. TimersOK(d)
    BY <2>5 DEF TimersOK
  <2>7. PostureOK(d)
    BY <1>2, <2>5 DEF PostureOK, FallbackReason
  <2>8. AccountingOK(d) /\ PromptsOK(d, conf) /\ ForgottenOK(d)
    BY <1>2, <2>5 DEF AccountingOK, PromptsOK, ForgottenOK
  <2>9. NoneGiven(c, d)
    BY <1>2, <2>2, <2>3, <2>4, <2>5 DEF NoneGiven
  <2> QED BY <2>4, <2>6, <2>7, <2>8, <2>9 DEF CtxInv, d
<1>3. CASE ~c.open /\ conf.critical_vlan
  <2> DEFINE f == enter_fallback(c, "Critical")
             h == ArmTimer(f, "ServerTimeout")
  <2>1. d = h
    BY <1>3 DEF server_unreachable
  <2>2. c.acct = 0
    BY <1>3 DEF AccountingOK
  <2>3. /\ f \in Context /\ f.st = "Critical" /\ ~f.open /\ f.timers = {}
        /\ f.acct = 0 /\ f.posture = Fallback("Critical")
    BY <1>1, <1>3, <2>2, FallbackFields
  <2> HIDE DEF f
  <2>4. /\ h \in Context /\ h.st = "Critical" /\ ~h.open
        /\ h.timers = {"ServerTimeout"} /\ h.acct = 0
        /\ h.posture = Fallback("Critical")
    BY <1>1, <2>3, ArmFields DEF SameSession
  <2> HIDE DEF h
  <2>5. CtxInv(h, conf) /\ NoneGiven(c, h)
    BY <1>1, <1>3, <2>4, InFallbackOK DEF NoneGiven
  <2> QED BY <2>1, <2>5
<1>4. CASE ~c.open /\ ~conf.critical_vlan
  <2>1. d = hold(c)
    BY <1>4 DEF server_unreachable
  <2> QED BY <1>4, <2>1, HoldOK
<1> QED BY <1>2, <1>3, <1>4 DEF PaeConfig

\* A re-authentication keeps the port as it is.
LEMMA BeginReauthOK ==
  ASSUME NEW conf \in PaeConfig, NEW c \in Context, AccountingOK(c),
         PostureOK(c), c.st = "Authenticated",
         c.timers \subseteq {"Reauth", "SessionTimeout"}
  PROVE  CtxInv(begin_reauth(c), conf) /\ NoneGiven(c, begin_reauth(c))
<1> DEFINE a == [c EXCEPT !.st = "Connecting", !.tx = 1]
           b == CancelTimer(a, "Reauth")
<1>1. "Connecting" \in State /\ "Reauth" \in TimerKind
  BY DEF State, TimerKind
<1>2. /\ a \in Context /\ a.st = "Connecting" /\ a.tx = 1 /\ a.authz = c.authz
      /\ a.open = c.open /\ a.timers = c.timers /\ a.acct = c.acct
      /\ a.posture = c.posture
  BY <1>1 DEF Context
<1> HIDE DEF a
<1>3. /\ b \in Context /\ SameSession(b, a) /\ b.open = a.open
      /\ b.timers = a.timers \ {"Reauth"} /\ b.acct = a.acct
      /\ b.posture = a.posture
  BY <1>1, <1>2, CancelFields
<1> HIDE DEF b
<1>4. /\ b.st = "Connecting" /\ b.tx = 1 /\ b.authz = c.authz /\ b.open = c.open
      /\ b.timers \subseteq {"SessionTimeout"} /\ b.acct = c.acct
      /\ b.posture = c.posture
  BY <1>2, <1>3 DEF SameSession
<1>5. PostureOK(b) /\ AccountingOK(b) /\ b.open
  BY <1>4 DEF PostureOK, AccountingOK, FallbackReason
<1>6. PromptsOK(b, conf)
  BY <1>4 DEF PromptsOK
<1>7. begin_reauth(c) = send_identity(b)
  BY DEF begin_reauth, a, b
<1>8. CtxInv(send_identity(b), conf) /\ NoneGiven(b, send_identity(b))
  BY <1>3, <1>4, <1>5, <1>6, SolicitOK
<1> HIDE DEF send_identity
<1>9. NoneGiven(c, send_identity(b))
  BY <1>4, <1>8 DEF NoneGiven
<1> QED BY <1>7, <1>8, <1>9

\* A CoA changes the grant of an authenticated session, and no other.
LEMMA CoaAuthorizeOK ==
  ASSUME NEW conf \in PaeConfig, NEW c \in Context, CtxInv(c, conf),
         NEW g \in Grants
  PROVE  /\ CtxInv(coa_authorize(c, g), conf)
         /\ \/ NoneGiven(c, coa_authorize(c, g))
            \/ c.st = "Authenticated" /\ c.open /\ Given(coa_authorize(c, g), g)
<1>1. CASE c.st # "Authenticated"
  BY <1>1 DEF coa_authorize, NoneGiven
<1>2. CASE c.st = "Authenticated"
  <2> DEFINE a == [c EXCEPT !.authz = g]
             d == SetAuthorization(a, Authorized(g))
  <2>1. /\ a \in Context /\ a.st = c.st /\ a.tx = c.tx /\ a.authz = g
        /\ a.open = c.open /\ a.timers = c.timers /\ a.acct = c.acct
    BY DEF Context
  <2> HIDE DEF a
  <2>2. /\ d \in Context /\ SameSession(d, a) /\ d.open = a.open
        /\ d.timers = a.timers /\ d.acct = a.acct
        /\ d.posture = Authorized(g)
    BY <2>1, Postures, SetFields
  <2> HIDE DEF d
  <2>3. /\ d.st = "Authenticated" /\ d.authz = g /\ d.open = c.open
        /\ d.timers = c.timers /\ d.acct = c.acct
    BY <1>2, <2>1, <2>2 DEF SameSession
  <2>4. TimersOK(d)
    BY <1>2, <2>3 DEF CtxInv, TimersOK
  <2>5. PostureOK(d)
    BY <1>2, <2>2, <2>3 DEF CtxInv, PostureOK, FallbackReason
  <2>6. AccountingOK(d) /\ PromptsOK(d, conf) /\ ForgottenOK(d)
    BY <2>3 DEF CtxInv, AccountingOK, PromptsOK, ForgottenOK
  <2>7. coa_authorize(c, g) = d
    BY <1>2 DEF coa_authorize, a, d
  <2>8. c.open /\ Given(d, g)
    BY <1>2, <2>2, <2>3 DEF CtxInv, PostureOK, Given
  <2> QED BY <1>2, <2>2, <2>4, <2>5, <2>6, <2>7, <2>8 DEF CtxInv
<1> QED BY <1>1, <1>2

\* A new attempt from a hold, a fallback or an ended session leaves the
\* posture as it is.
LEMMA ReconnectOK ==
  ASSUME NEW conf \in PaeConfig, NEW c \in Context, AccountingOK(c), ~c.open,
         c.posture.mode # "Authorized", c.timers \subseteq {"ServerTimeout"}
  PROVE  /\ CtxInv(reconnect(c), conf)
         /\ ~reconnect(c).open /\ reconnect(c).posture = c.posture
<1> DEFINE a == [c EXCEPT !.tx = 1, !.st = "Connecting"]
<1>1. "Connecting" \in State
  BY DEF State
<1>2. /\ a \in Context /\ a.st = "Connecting" /\ a.tx = 1
      /\ a.open = c.open /\ a.timers = c.timers /\ a.acct = c.acct
      /\ a.posture = c.posture
  BY <1>1 DEF Context
<1> HIDE DEF a
<1>3. PostureOK(a)
  BY <1>2 DEF PostureOK, FallbackReason
<1>4. AccountingOK(a) /\ PromptsOK(a, conf)
  BY <1>2 DEF AccountingOK, PromptsOK
<1>5. reconnect(c) = send_identity(a)
  BY DEF reconnect, a
<1>6. CtxInv(send_identity(a), conf)
  BY <1>2, <1>3, <1>4, SolicitOK
<1>7. send_identity(a).open = a.open /\ send_identity(a).posture = a.posture
  BY <1>2, SendIdentityFields
<1> QED BY <1>2, <1>5, <1>6, <1>7

\* A session not in service is enabled closed.
LEMMA EnableOK ==
  ASSUME NEW conf \in PaeConfig, NEW c \in Context, c.acct = 0, c.timers = {}
  PROVE  CtxInv(enable(c), conf) /\ ~enable(c).open /\ enable(c).st = "Connecting"
<1> DEFINE a == [c EXCEPT !.authz = NoGrant, !.open = FALSE, !.kind = "Dot1x",
                          !.tx = 1, !.st = "Connecting"]
           b == SetAuthorization(a, Unauthorized)
<1>1. "Connecting" \in State /\ "Dot1x" \in AuthKind
  BY DEF State, AuthKind
<1>2. /\ a \in Context /\ a.st = "Connecting" /\ a.tx = 1 /\ ~a.open
      /\ a.timers = {} /\ a.acct = 0
  BY <1>1 DEF Context
<1> HIDE DEF a
<1>3. /\ b \in Context /\ SameSession(b, a) /\ b.open = a.open
      /\ b.timers = a.timers /\ b.acct = a.acct /\ b.posture = Unauthorized
  BY <1>2, Postures, SetFields
<1> HIDE DEF b
<1>4. b.st = "Connecting" /\ b.tx = 1 /\ ~b.open /\ b.timers = {} /\ b.acct = 0
  BY <1>2, <1>3 DEF SameSession
<1>5. PostureOK(b)
  BY <1>3, <1>4, Postures DEF PostureOK, FallbackReason
<1>6. AccountingOK(b) /\ PromptsOK(b, conf)
  BY <1>4 DEF AccountingOK, PromptsOK
<1>7. enable(c) = send_identity(b)
  BY DEF enable, a, b
<1>8. CtxInv(send_identity(b), conf)
  BY <1>3, <1>4, <1>5, <1>6, SolicitOK
<1>9. send_identity(b).open = b.open /\ send_identity(b).st = b.st
  BY <1>3, SendIdentityFields DEF SameSession
<1> QED BY <1>4, <1>7, <1>8, <1>9

-----------------------------------------------------------------------------
(* State handlers *)

\* An event a handler ignores leaves the invariant as it was, unless it is
\* the expiry of the timer the state waits on.
LEMMA IgnoredOK ==
  ASSUME NEW conf \in PaeConfig, NEW c, NEW e, Ready(c, e, conf),
         c.st = "Connecting" => e # Timer("TxPeriod"),
         c.st = "Authenticating" => e # Timer("SuppTimeout"),
         c.st = "Held" => e # Timer("Held"),
         c.st \in {"AuthServer", "Critical"} => e # Timer("ServerTimeout")
  PROVE  CtxInv(c, conf) /\ NoneGiven(c, c)
<1>1. TimersOK(c)
  BY DEF Ready, TimersOK
<1> QED BY <1>1 DEF Ready, CtxInv, NoneGiven

\* With no supplicant an open session ends; any other is tried by MAC, given
\* the guest VLAN, or held.
LEMMA NoSupplicantOK ==
  ASSUME NEW conf \in PaeConfig, NEW c, NEW e, Ready(c, e, conf),
         c.st = "Connecting"
  PROVE  CtxInv(no_supplicant(c, conf), conf) /\ NoneGiven(c, no_supplicant(c, conf))
<1>1. c \in Context /\ AccountingOK(c) /\ PostureOK(c) /\ PromptsOK(c, conf)
  BY DEF Ready
<1>2. CASE c.open
  <2>1. no_supplicant(c, conf) = teardown(c)
    BY <1>2 DEF no_supplicant
  <2> QED BY <1>1, <2>1, TeardownOK
<1>3. CASE ~c.open /\ conf.mab_enabled
  <2>1. no_supplicant(c, conf) = start_mab(c)
    BY <1>3 DEF no_supplicant
  <2>2. c.timers \subseteq {"TxPeriod", "ServerTimeout", "SessionTimeout"}
    BY <1>1 DEF Ready, Context, TimerKind
  <2>3. "SessionTimeout" \in c.timers => c.open
    BY DEF Ready
  <2>4. "Mab" \in AuthKind /\ "Identity" \in EapPacket
    BY DEF AuthKind, EapPacket
  <2> QED BY <1>1, <2>1, <2>2, <2>3, <2>4, AskServerOK
<1>4. CASE ~c.open /\ ~conf.mab_enabled /\ conf.guest_vlan
  <2> DEFINE d == enter_fallback(c, "Guest")
  <2>1. no_supplicant(c, conf) = d
    BY <1>4 DEF no_supplicant
  <2>2. "Guest" \in FallbackReason /\ c.acct = 0
    BY <1>1, <1>4 DEF FallbackReason, AccountingOK
  <2>3. /\ d \in Context /\ d.st = "Guest" /\ ~d.open /\ d.timers = {}
        /\ d.acct = 0 /\ d.posture = Fallback("Guest")
    BY <1>1, <1>4, <2>2, FallbackFields
  <2> HIDE DEF d
  <2>4. CtxInv(d, conf) /\ NoneGiven(c, d)
    BY <1>4, <2>2, <2>3, InFallbackOK DEF NoneGiven
  <2> QED BY <2>1, <2>4
<1>5. CASE ~c.open /\ ~conf.mab_enabled /\ ~conf.guest_vlan
  <2>1. no_supplicant(c, conf) = hold(c)
    BY <1>5 DEF no_supplicant
  <2> QED BY <1>1, <1>5, <2>1, HoldOK
<1> QED BY <1>2, <1>3, <1>4, <1>5 DEF PaeConfig

\* Connecting.
LEMMA InConnectingOK ==
  ASSUME NEW conf \in PaeConfig, NEW c, NEW e, Ready(c, e, conf), EventOK(e),
         c.st = "Connecting"
  PROVE  CtxInv(in_connecting(c, e, conf), conf) /\ NoneGiven(c, in_connecting(c, e, conf))
<1>1. c \in Context /\ AccountingOK(c) /\ PostureOK(c) /\ PromptsOK(c, conf)
  BY DEF Ready
<1>2. /\ c.timers \subseteq {"TxPeriod", "ServerTimeout", "SessionTimeout"}
      /\ "SessionTimeout" \in c.timers => c.open
  BY <1>1 DEF Ready, Context, TimerKind
<1>3. CASE e.type \in {"EapolStart", "LinkUp"}
  <2>1. in_connecting(c, e, conf) = send_identity(c)
    BY <1>3 DEF in_connecting, Timer, IsResponse
  <2> QED BY <1>1, <1>2, <2>1, SolicitOK
<1>4. CASE e = Timer("TxPeriod") /\ c.tx < conf.max_reauth_req
  <2> DEFINE a == [c EXCEPT !.tx = @ + 1]
  <2>1. in_connecting(c, e, conf) = send_identity(a)
    BY <1>4 DEF in_connecting, Timer, IsResponse
  <2>2. /\ a \in Context /\ a.st = c.st /\ a.authz = c.authz /\ a.open = c.open
        /\ a.timers = c.timers /\ a.acct = c.acct /\ a.posture = c.posture
        /\ a.tx = c.tx + 1
    BY <1>1 DEF Context
  <2> HIDE DEF a
  <2>3. PostureOK(a) /\ AccountingOK(a)
    BY <1>1, <2>2 DEF PostureOK, AccountingOK
  <2>4. PromptsOK(a, conf)
    BY <1>1, <1>4, <2>2 DEF PromptsOK, PaeConfig, Context
  <2>5. CtxInv(send_identity(a), conf) /\ NoneGiven(a, send_identity(a))
    BY <1>2, <2>2, <2>3, <2>4, SolicitOK
  <2>6. NoneGiven(c, send_identity(a))
    BY <2>2, <2>5 DEF NoneGiven
  <2> QED BY <2>1, <2>5, <2>6
<1>5. CASE e = Timer("TxPeriod") /\ ~(c.tx < conf.max_reauth_req)
  <2>1. in_connecting(c, e, conf) = no_supplicant(c, conf)
    BY <1>5 DEF in_connecting, Timer, IsResponse
  <2> QED BY <2>1, NoSupplicantOK
<1>6. CASE IsResponse(e)
  <2>1. in_connecting(c, e, conf) = relay_response(c, "Dot1x", "TxPeriod", e.arg)
    BY <1>6 DEF in_connecting, Timer, IsResponse
  <2>2. "Dot1x" \in AuthKind /\ e.arg \in EapPacket
    BY <1>6 DEF AuthKind, EventOK, IsResponse
  <2> QED BY <1>1, <1>2, <2>1, <2>2, AskServerOK
<1>7. CASE e.type = "EapolLogoff"
  <2>1. in_connecting(c, e, conf) = teardown(c)
    BY <1>7 DEF in_connecting, Timer, IsResponse
  <2> QED BY <1>1, <2>1, TeardownOK
<1>8. CASE /\ e.type \notin {"EapolStart", "LinkUp", "EapolLogoff"}
           /\ e # Timer("TxPeriod") /\ ~IsResponse(e)
  <2>1. in_connecting(c, e, conf) = c
    BY <1>8 DEF in_connecting
  <2> QED BY <1>8, <2>1, IgnoredOK
<1> QED BY <1>3, <1>4, <1>5, <1>6, <1>7, <1>8

\* AuthServer.
LEMMA InAuthServerOK ==
  ASSUME NEW conf \in PaeConfig, NEW c, NEW e, Ready(c, e, conf), EventOK(e),
         c.st = "AuthServer"
  PROVE  LET d == in_auth_server(c, e, conf) IN
         /\ CtxInv(d, conf)
         /\ NoneGiven(c, d) \/ (e.type = "AccessAccept" /\ Given(d, e.arg))
<1>1. c \in Context /\ AccountingOK(c) /\ PostureOK(c) /\ PromptsOK(c, conf)
  BY DEF Ready
<1>2. /\ c.timers \subseteq {"ServerTimeout", "SessionTimeout"}
      /\ "SessionTimeout" \in c.timers => c.open
  BY <1>1 DEF Ready, Context, TimerKind
<1>3. CASE e.type = "AccessChallenge"
  <2> DEFINE a == [c EXCEPT !.st = "Authenticating"]
             b == CancelTimer(a, "ServerTimeout")
             f == TxEapToSupplicant(b)
             d == ArmTimer(f, "SuppTimeout")
  <2>1. in_auth_server(c, e, conf) = d
    BY <1>3 DEF in_auth_server, Timer
  <2>2. /\ "Authenticating" \in State /\ "ServerTimeout" \in TimerKind
        /\ "SuppTimeout" \in TimerKind /\ "Identity" \in EapPacket
    BY DEF State, TimerKind, EapPacket
  <2>3. /\ a \in Context /\ a.st = "Authenticating" /\ a.tx = c.tx
        /\ a.authz = c.authz /\ a.open = c.open /\ a.timers = c.timers /\ a.acct = c.acct
        /\ a.posture = c.posture
    BY <1>1, <2>2, StateFields
  <2> HIDE DEF a
  <2>4. /\ b \in Context /\ SameSession(b, a) /\ b.open = a.open
        /\ b.timers = a.timers \ {"ServerTimeout"} /\ b.acct = a.acct
        /\ b.posture = a.posture
    BY <2>2, <2>3, CancelFields
  <2> HIDE DEF b
  <2>5. /\ f \in Context /\ SameSession(f, b) /\ f.open = b.open
        /\ f.timers = b.timers /\ f.acct = b.acct /\ f.posture = b.posture
    BY <2>2, <2>4, RelayFields
  <2> HIDE DEF f
  <2>6. /\ d \in Context /\ SameSession(d, f) /\ d.open = f.open
        /\ d.timers = f.timers \cup {"SuppTimeout"} /\ d.acct = f.acct
        /\ d.posture = f.posture
    BY <2>2, <2>5, ArmFields
  <2> HIDE DEF d
  <2>7. /\ d.st = "Authenticating" /\ d.tx = c.tx /\ d.authz = c.authz
        /\ d.open = c.open /\ d.timers \subseteq {"SuppTimeout", "SessionTimeout"}
        /\ "SuppTimeout" \in d.timers
        /\ "SessionTimeout" \in d.timers => d.open
        /\ d.acct = c.acct /\ d.posture = c.posture
    BY <1>2, <2>3, <2>4, <2>5, <2>6 DEF SameSession
  <2>8. TimersOK(d)
    BY <2>7 DEF TimersOK
  <2>9. PostureOK(d)
    BY <1>1, <2>7 DEF PostureOK, FallbackReason
  <2>10. AccountingOK(d) /\ PromptsOK(d, conf) /\ ForgottenOK(d)
    BY <1>1, <2>7 DEF AccountingOK, PromptsOK, ForgottenOK
  <2>11. NoneGiven(c, d)
    BY <2>7 DEF NoneGiven
  <2> QED BY <2>1, <2>6, <2>8, <2>9, <2>10, <2>11 DEF CtxInv
<1>4. CASE e.type = "AccessAccept"
  <2>1. in_auth_server(c, e, conf) = authorize(c, e.arg, conf) /\ e.arg \in Grants
    BY <1>4 DEF in_auth_server, Timer, EventOK
  <2> QED BY <1>1, <1>4, <2>1, AuthorizeOK
<1>5. CASE e.type = "AccessReject"
  <2>1. in_auth_server(c, e, conf) = reject(c, conf)
    BY <1>5 DEF in_auth_server, Timer
  <2> QED BY <1>1, <2>1, RejectOK
<1>6. CASE e.type = "ServerUnreachable" \/ e = Timer("ServerTimeout")
  <2>1. in_auth_server(c, e, conf) = server_unreachable(c, conf)
    BY <1>6 DEF in_auth_server, Timer
  <2> QED BY <1>1, <1>2, <2>1, UnreachableOK
<1>7. CASE e.type = "EapolLogoff"
  <2>1. in_auth_server(c, e, conf) = teardown(c)
    BY <1>7 DEF in_auth_server, Timer
  <2> QED BY <1>1, <2>1, TeardownOK
<1>8. CASE /\ e.type \notin {"AccessChallenge", "AccessAccept", "AccessReject",
                             "ServerUnreachable", "EapolLogoff"}
           /\ e # Timer("ServerTimeout")
  <2>1. in_auth_server(c, e, conf) = c
    BY <1>8 DEF in_auth_server
  <2> QED BY <1>8, <2>1, IgnoredOK
<1> QED BY <1>3, <1>4, <1>5, <1>6, <1>7, <1>8

\* Authenticating.
LEMMA InAuthenticatingOK ==
  ASSUME NEW conf \in PaeConfig, NEW c, NEW e, Ready(c, e, conf), EventOK(e),
         c.st = "Authenticating"
  PROVE  CtxInv(in_authenticating(c, e), conf) /\ NoneGiven(c, in_authenticating(c, e))
<1>1. c \in Context /\ AccountingOK(c) /\ PostureOK(c) /\ PromptsOK(c, conf)
  BY DEF Ready
<1>2. /\ c.timers \subseteq {"SuppTimeout", "SessionTimeout"}
      /\ "SessionTimeout" \in c.timers => c.open
  BY <1>1 DEF Ready, Context, TimerKind
<1>3. CASE IsResponse(e)
  <2>1. in_authenticating(c, e) = relay_response(c, c.kind, "SuppTimeout", e.arg)
    BY <1>3 DEF in_authenticating, Timer, IsResponse
  <2>2. c.kind \in AuthKind /\ e.arg \in EapPacket
    BY <1>1, <1>3 DEF Context, EventOK, IsResponse
  <2> QED BY <1>1, <1>2, <2>1, <2>2, AskServerOK
<1>4. CASE e = Timer("SuppTimeout")
  <2>1. in_authenticating(c, e) = IF c.open THEN teardown(c) ELSE hold(c)
    BY <1>4 DEF in_authenticating, Timer, IsResponse
  <2>2. CASE c.open
    BY <1>1, <2>1, <2>2, TeardownOK
  <2>3. CASE ~c.open
    BY <1>1, <2>1, <2>3, HoldOK
  <2> QED BY <2>2, <2>3
<1>5. CASE e.type = "EapolStart"
  <2> DEFINE a == [c EXCEPT !.st = "Connecting"]
             b == CancelTimer(a, "SuppTimeout")
  <2>1. in_authenticating(c, e) = send_identity(b)
    BY <1>5 DEF in_authenticating, Timer, IsResponse
  <2>2. "Connecting" \in State /\ "SuppTimeout" \in TimerKind
    BY DEF State, TimerKind
  <2>3. /\ a \in Context /\ a.st = "Connecting" /\ a.tx = c.tx
        /\ a.authz = c.authz /\ a.open = c.open /\ a.timers = c.timers
        /\ a.acct = c.acct /\ a.posture = c.posture
    BY <1>1, <2>2, StateFields
  <2> HIDE DEF a
  <2>4. /\ b \in Context /\ SameSession(b, a) /\ b.open = a.open
        /\ b.timers = a.timers \ {"SuppTimeout"} /\ b.acct = a.acct
        /\ b.posture = a.posture
    BY <2>2, <2>3, CancelFields
  <2> HIDE DEF b
  <2>5. /\ b.st = "Connecting" /\ b.tx = c.tx /\ b.authz = c.authz
        /\ b.open = c.open /\ b.timers \subseteq {"SessionTimeout"}
        /\ b.acct = c.acct /\ b.posture = c.posture
    BY <1>2, <2>3, <2>4 DEF SameSession
  <2>6. PostureOK(b) /\ AccountingOK(b) /\ PromptsOK(b, conf)
    BY <1>1, <2>5 DEF PostureOK, AccountingOK, PromptsOK, FallbackReason
  <2>7. "SessionTimeout" \in b.timers => b.open
    BY <1>2, <2>3, <2>4 DEF SameSession
  <2>8. CtxInv(send_identity(b), conf) /\ NoneGiven(b, send_identity(b))
    BY <2>4, <2>5, <2>6, <2>7, SolicitOK
  <2>9. NoneGiven(c, send_identity(b))
    BY <2>5, <2>8 DEF NoneGiven
  <2> QED BY <2>1, <2>8, <2>9
<1>6. CASE e.type = "EapolLogoff"
  <2>1. in_authenticating(c, e) = teardown(c)
    BY <1>6 DEF in_authenticating, Timer, IsResponse
  <2> QED BY <1>1, <2>1, TeardownOK
<1>7. CASE /\ e.type \notin {"EapolStart", "EapolLogoff"}
           /\ e # Timer("SuppTimeout") /\ ~IsResponse(e)
  <2>1. in_authenticating(c, e) = c
    BY <1>7 DEF in_authenticating
  <2> QED BY <1>7, <2>1, IgnoredOK
<1> QED BY <1>3, <1>4, <1>5, <1>6, <1>7

\* Authenticated.
LEMMA InAuthenticatedOK ==
  ASSUME NEW conf \in PaeConfig, NEW c, NEW e, Ready(c, e, conf),
         c.st = "Authenticated"
  PROVE  CtxInv(in_authenticated(c, e), conf) /\ NoneGiven(c, in_authenticated(c, e))
<1>1. c \in Context /\ AccountingOK(c) /\ PostureOK(c)
  BY DEF Ready
<1>2. c.timers \subseteq {"Reauth", "SessionTimeout"}
  BY <1>1 DEF Ready, Context, TimerKind
<1>3. CASE e = Timer("Reauth") \/ e.type = "EapolStart"
  <2>1. in_authenticated(c, e) = begin_reauth(c)
    BY <1>3 DEF in_authenticated, Timer
  <2> QED BY <1>1, <1>2, <2>1, BeginReauthOK
<1>4. CASE e.type = "EapolLogoff"
  <2>1. in_authenticated(c, e) = teardown(c)
    BY <1>4 DEF in_authenticated, Timer
  <2> QED BY <1>1, <2>1, TeardownOK
<1>5. CASE e = Timer("SessionTimeout")
  <2> DEFINE d == teardown(c)
  <2>1. in_authenticated(c, e) = reconnect(d)
    BY <1>5 DEF in_authenticated, Timer
  <2>2. CtxInv(d, conf) /\ d.st = "New"
    BY <1>1, TeardownOK
  <2> HIDE DEF d
  <2>3. d \in Context /\ AccountingOK(d) /\ d.timers = {}
    BY <2>2 DEF CtxInv, ForgottenOK
  <2>4. ~d.open /\ d.posture = Unauthorized /\ d.posture.mode # "Authorized"
    BY <2>2 DEF CtxInv, PostureOK
  <2>5. /\ CtxInv(reconnect(d), conf)
        /\ ~reconnect(d).open /\ reconnect(d).posture = Unauthorized
    BY <2>3, <2>4, ReconnectOK
  <2>6. NoneGiven(c, reconnect(d))
    BY <2>5 DEF NoneGiven
  <2> QED BY <2>1, <2>5, <2>6
<1>6. CASE /\ e.type \notin {"EapolStart", "EapolLogoff"}
           /\ e # Timer("Reauth") /\ e # Timer("SessionTimeout")
  <2>1. in_authenticated(c, e) = c
    BY <1>6 DEF in_authenticated
  <2> QED BY <2>1, IgnoredOK
<1> QED BY <1>3, <1>4, <1>5, <1>6

\* Held.
LEMMA InHeldOK ==
  ASSUME NEW conf \in PaeConfig, NEW c, NEW e, Ready(c, e, conf), c.st = "Held"
  PROVE  CtxInv(in_held(c, e), conf) /\ NoneGiven(c, in_held(c, e))
<1>1. c \in Context /\ AccountingOK(c) /\ PostureOK(c)
  BY DEF Ready
<1>2. CASE e = Timer("Held") \/ e.type = "EapolStart"
  <2> DEFINE b == CancelTimer(c, "Held")
  <2>1. in_held(c, e) = reconnect(b)
    BY <1>2 DEF in_held
  <2>2. "Held" \in TimerKind
    BY DEF TimerKind
  <2>3. /\ b \in Context /\ SameSession(b, c) /\ b.open = c.open
        /\ b.timers = c.timers \ {"Held"} /\ b.acct = c.acct
        /\ b.posture = c.posture
    BY <1>1, <2>2, CancelFields
  <2> HIDE DEF b
  <2>4. ~c.open /\ c.posture.mode # "Authorized"
    BY <1>1 DEF PostureOK
  <2>5. c.timers \subseteq {"Held"}
    BY <1>1, <2>4 DEF Ready, Context, TimerKind
  <2>6. AccountingOK(b) /\ ~b.open /\ b.timers = {} /\ b.posture.mode # "Authorized"
    BY <1>1, <2>3, <2>4, <2>5 DEF AccountingOK
  <2>7. CtxInv(reconnect(b), conf) /\ ~reconnect(b).open
    BY <2>3, <2>6, ReconnectOK
  <2> QED BY <2>1, <2>4, <2>7 DEF NoneGiven
<1>3. CASE ~(e = Timer("Held") \/ e.type = "EapolStart")
  <2>1. in_held(c, e) = c
    BY <1>3 DEF in_held
  <2> QED BY <1>3, <2>1, IgnoredOK
<1> QED BY <1>2, <1>3

\* Fallback.
LEMMA InFallbackHandlerOK ==
  ASSUME NEW conf \in PaeConfig, NEW c, NEW e, Ready(c, e, conf),
         c.st \in FallbackReason
  PROVE  CtxInv(in_fallback(c, e), conf) /\ NoneGiven(c, in_fallback(c, e))
<1>1. c \in Context /\ AccountingOK(c) /\ PostureOK(c)
  BY DEF Ready
<1>2. CASE e.type = "EapolStart" \/ (e = Timer("ServerTimeout") /\ c.st = "Critical")
  <2>1. in_fallback(c, e) = reconnect(c)
    BY <1>2 DEF in_fallback
  <2>2. ~c.open /\ c.posture.mode # "Authorized"
    BY <1>1 DEF PostureOK
  <2>3. c.timers \subseteq {"ServerTimeout"}
    BY <1>1, <2>2 DEF Ready, Context, TimerKind, FallbackReason
  <2>4. CtxInv(reconnect(c), conf) /\ ~reconnect(c).open
    BY <1>1, <2>2, <2>3, ReconnectOK
  <2> QED BY <2>1, <2>2, <2>4 DEF NoneGiven
<1>3. CASE ~(e.type = "EapolStart" \/ (e = Timer("ServerTimeout") /\ c.st = "Critical"))
  <2>1. in_fallback(c, e) = c
    BY <1>3 DEF in_fallback
  <2> QED BY <1>3, <2>1, IgnoredOK DEF FallbackReason
<1> QED BY <1>2, <1>3

\* Every event, in every state, leaves the session's invariant true, and only
\* two give access: an Accept to a request that is out, and a CoA on an
\* authenticated session.  Enable is for a session that is not in service.
LEMMA StepOK ==
  ASSUME NEW conf \in PaeConfig, NEW c, NEW e, Ready(c, e, conf), EventOK(e),
         e.type = "Enable" => c.st = "New"
  PROVE  LET d == step(c, e, conf) IN
         /\ CtxInv(d, conf)
         /\ \/ NoneGiven(c, d)
            \/ c.st = "AuthServer" /\ e.type = "AccessAccept" /\ Given(d, e.arg)
            \/ /\ c.st = "Authenticated" /\ c.open /\ e.type = "CoaAuthorize"
               /\ Given(d, e.arg)
<1> DEFINE first == {"LinkDown", "CoaDisconnect", "CoaAuthorize",
                     "CoaReauthenticate", "Enable"}
<1>1. c \in Context /\ AccountingOK(c) /\ PostureOK(c) /\ ForgottenOK(c)
  BY DEF Ready
<1>2. c.st \in State
  BY <1>1 DEF Context
<1>3. e.type \in first => CtxInv(c, conf) /\ NoneGiven(c, c)
  <2>1. SUFFICES ASSUME e.type \in first PROVE CtxInv(c, conf) /\ NoneGiven(c, c)
    OBVIOUS
  <2>2. \A k \in TimerKind : e # Timer(k)
    BY <2>1 DEF Timer
  <2>3. \A k \in {"TxPeriod", "SuppTimeout", "Held", "ServerTimeout"} : e # Timer(k)
    BY <2>2 DEF TimerKind
  <2> QED BY <2>3, IgnoredOK
<1>4. CASE e.type \in {"LinkDown", "CoaDisconnect"}
  <2>1. step(c, e, conf) = teardown(c)
    BY <1>4 DEF step
  <2> QED BY <1>1, <1>3, <1>4, <2>1, TeardownOK
<1>5. CASE e.type = "CoaAuthorize"
  <2>1. step(c, e, conf) = coa_authorize(c, e.arg) /\ e.arg \in Grants
    BY <1>5 DEF step, EventOK
  <2> QED BY <1>1, <1>3, <1>5, <2>1, CoaAuthorizeOK
<1>6. CASE e.type = "CoaReauthenticate"
  <2>1. step(c, e, conf) = IF c.st = "Authenticated" THEN begin_reauth(c) ELSE c
    BY <1>6 DEF step
  <2>2. CASE c.st = "Authenticated"
    <3>1. c.timers \subseteq {"Reauth", "SessionTimeout"}
      BY <1>1, <2>2 DEF Ready, Context, TimerKind
    <3> QED BY <1>1, <2>1, <2>2, <3>1, BeginReauthOK
  <2>3. CASE c.st # "Authenticated"
    BY <1>3, <1>6, <2>1, <2>3
  <2> QED BY <2>2, <2>3
<1>7. CASE e.type = "Enable"
  <2>1. step(c, e, conf) = enable(c)
    BY <1>7 DEF step
  <2>2. c.timers = {} /\ ~c.open
    BY <1>1, <1>7 DEF ForgottenOK, PostureOK
  <2>3. c.acct = 0
    BY <1>1, <2>2 DEF AccountingOK
  <2>4. CtxInv(enable(c), conf) /\ ~enable(c).open
    BY <1>1, <2>2, <2>3, EnableOK
  <2> QED BY <2>1, <2>2, <2>4 DEF NoneGiven
<1>8. CASE e.type \notin first
  <2>1. CASE c.st = "Connecting"
    <3>1. step(c, e, conf) = in_connecting(c, e, conf)
      BY <1>8, <2>1 DEF step, FallbackReason
    <3> QED BY <2>1, <3>1, InConnectingOK
  <2>2. CASE c.st = "AuthServer"
    <3>1. step(c, e, conf) = in_auth_server(c, e, conf)
      BY <1>8, <2>2 DEF step, FallbackReason
    <3> QED BY <2>2, <3>1, InAuthServerOK
  <2>3. CASE c.st = "Authenticating"
    <3>1. step(c, e, conf) = in_authenticating(c, e)
      BY <1>8, <2>3 DEF step, FallbackReason
    <3> QED BY <2>3, <3>1, InAuthenticatingOK
  <2>4. CASE c.st = "Authenticated"
    <3>1. step(c, e, conf) = in_authenticated(c, e)
      BY <1>8, <2>4 DEF step, FallbackReason
    <3> QED BY <2>4, <3>1, InAuthenticatedOK
  <2>5. CASE c.st = "Held"
    <3>1. step(c, e, conf) = in_held(c, e)
      BY <1>8, <2>5 DEF step, FallbackReason
    <3> QED BY <2>5, <3>1, InHeldOK
  <2>6. CASE c.st \in FallbackReason
    <3>1. step(c, e, conf) = in_fallback(c, e)
      BY <1>8, <2>6 DEF step, FallbackReason
    <3> QED BY <2>6, <3>1, InFallbackHandlerOK
  <2>7. CASE c.st = "New"
    <3>1. step(c, e, conf) = c
      BY <1>8, <2>7 DEF step, FallbackReason
    <3> QED BY <2>7, <3>1, IgnoredOK
  <2> QED BY <1>2, <2>1, <2>2, <2>3, <2>4, <2>5, <2>6, <2>7 DEF State
<1> QED BY <1>4, <1>5, <1>6, <1>7, <1>8

=============================================================================
