--------------------------- MODULE PortPaeProofs ---------------------------
(***************************************************************************)
(* The invariants of PortPae, for any set of MACs, grants and port         *)
(* configurations.  IInv is inductive: the session's part is preserved by  *)
(* every step of the session machine (StepOK), and what an event of one    *)
(* MAC does to the others is settled by the host mode's capacity and by    *)
(* where decorate directs the posture.  What a step may never do, and that *)
(* PortPae implements ControlledPort, rest on DeliverOutcome: an event     *)
(* that is not an Accept or a CoA change gives no access, so that the      *)
(* posture and the accounting of one target move only as ControlledPort    *)
(* says.                                                                   *)
(***************************************************************************)
EXTENDS PaeSessionProofs, FiniteSetTheorems

\* The inductive invariant.
IInv ==
  /\ TypeOK
  /\ SessionTimersOK
  /\ SessionPostureOK
  /\ SessionAccountingOK
  /\ SessionPromptsOK
  /\ SessionForgottenOK
  /\ CapacityOK
  /\ ForwardingHasOwner

\* decorate directs postures at targets.
LEMMA DecorateType ==
  ASSUME NEW m \in Mac
  PROVE  decorate(m) \in Targets
  BY DEF decorate, Targets

\* The context of a session is well typed.
LEMMA ViewType ==
  ASSUME TypeOK, NEW m \in Mac, NEW fired
  PROVE  View(m, fired) \in Context
<1>1. /\ sess[m] \in PortSession /\ timers[m] \in SUBSET TimerKind
      /\ acct[m] \in Nat /\ plane[decorate(m)] \in PortAuthorization
  BY DecorateType DEF TypeOK
<1>2. <<>> \in Seq(Effect)
  OBVIOUS
<1>3. timers[m] \ fired \in SUBSET TimerKind
  BY <1>1
<1>4. /\ sess[m].st \in State /\ sess[m].kind \in AuthKind /\ sess[m].tx \in Nat
      /\ sess[m].authz \in Grants \cup {NoGrant} /\ sess[m].open \in BOOLEAN
  BY <1>1 DEF PortSession
<1> QED BY <1>1, <1>2, <1>3, <1>4 DEF View, Context

\* A session that the port serves, or can admit, satisfies the session's part
\* of the invariant together with the posture of its target.
LEMMA ViewInv ==
  ASSUME IInv, NEW m \in Mac, m \in active_sessions \/ can_admit
  PROVE  CtxInv(View(m, {}), cfg)
<1> DEFINE c == View(m, {})
<1>1. c \in Context
  BY ViewType DEF IInv
<1>2. /\ TimersOK(c) /\ AccountingOK(c) /\ PromptsOK(c, cfg) /\ ForgottenOK(c)
  BY DEF IInv, SessionTimersOK, SessionAccountingOK, SessionPromptsOK,
         SessionForgottenOK
<1>3. PostureOK(c)
  <2>1. CASE Owns(m)
    BY <2>1 DEF IInv, SessionPostureOK
  <2>2. CASE ~Owns(m)
    <3>1. cfg.host_mode = "MultiHost" /\ m \notin active_sessions
      BY <2>2 DEF Owns
    <3>2. active_sessions = {}
      BY <3>1 DEF can_admit
    <3>3. plane[decorate(m)] = Unauthorized
      BY <3>2, DecorateType DEF IInv, ForwardingHasOwner
    <3>4. sess[m].st = "New" /\ c.st = "New" /\ c.posture = Unauthorized
      BY <3>1, <3>3 DEF active_sessions, View
    <3>5. SessionOf(c) = NewSession
      BY <1>2, <3>4 DEF ForgottenOK
    <3>6. SessionOf(c).open = c.open /\ NewSession.open = FALSE
      BY DEF SessionOf, NewSession
    <3>7. ~c.open
      BY <3>5, <3>6
    <3> QED BY <3>4, <3>7, Postures DEF PostureOK, FallbackReason
  <2> QED BY <2>1, <2>2
<1> QED BY <1>1, <1>2, <1>3 DEF CtxInv

\* Removing the timer whose expiry is being handled makes a context ready.
LEMMA ViewReady ==
  ASSUME NEW m \in Mac, NEW e, NEW fired, NEW k, TypeOK,
         CtxInv(View(m, {}), cfg),
         fired = {} \/ (fired = {k} /\ e = Timer(k))
  PROVE  Ready(View(m, fired), e, cfg)
<1> DEFINE c == View(m, {})
           d == View(m, fired)
<1>1. d \in Context
  BY ViewType
<1>2. /\ d.st = c.st /\ d.kind = c.kind /\ d.tx = c.tx /\ d.authz = c.authz
      /\ d.open = c.open /\ d.timers = c.timers \ fired /\ d.acct = c.acct
      /\ d.posture = c.posture
  BY DEF View
<1>3. SessionOf(d) = SessionOf(c)
  BY <1>2 DEF SessionOf
<1> HIDE DEF c, d
<1>4. PostureOK(d)
  BY <1>2 DEF CtxInv, PostureOK, c
<1>5. AccountingOK(d) /\ PromptsOK(d, cfg)
  BY <1>2 DEF CtxInv, AccountingOK, PromptsOK, c
<1>6. ForgottenOK(d)
  BY <1>2, <1>3 DEF CtxInv, ForgottenOK, c
<1>7. /\ "TxPeriod" \in d.timers => d.st = "Connecting"
      /\ "SuppTimeout" \in d.timers => d.st = "Authenticating"
      /\ "Held" \in d.timers => d.st = "Held"
      /\ "ServerTimeout" \in d.timers => d.st \in {"AuthServer", "Critical", "Connecting"}
      /\ "Reauth" \in d.timers => d.st = "Authenticated"
      /\ "SessionTimeout" \in d.timers => d.open
  BY <1>2 DEF CtxInv, TimersOK, c
<1>8. \A t \in c.timers : t \in d.timers \/ e = Timer(t)
  BY <1>2
<1>9. /\ c.st = "Connecting" => "TxPeriod" \in c.timers
      /\ c.st = "Authenticating" => "SuppTimeout" \in c.timers
      /\ c.st = "Held" => "Held" \in c.timers
      /\ c.st \in {"AuthServer", "Critical"} => "ServerTimeout" \in c.timers
  BY DEF CtxInv, TimersOK, c
<1> QED BY <1>1, <1>2, <1>4, <1>5, <1>6, <1>7, <1>8, <1>9 DEF Ready, d

\* Carrying out the step of one session preserves the invariant of the port.
LEMMA CommitOK ==
  ASSUME IInv, NEW m \in Mac, m \in active_sessions \/ can_admit,
         NEW c, CtxInv(c, cfg), Commit(m, c)
  PROVE  IInv'
<1> DEFINE t == decorate(m)
<1>1. /\ cfg' = cfg
      /\ sess' = [sess EXCEPT ![m] = SessionOf(c)]
      /\ timers' = [timers EXCEPT ![m] = c.timers]
      /\ acct' = [acct EXCEPT ![m] = c.acct]
      /\ plane' = [plane EXCEPT ![t] = c.posture]
  BY DEF Commit
<1>2. TypeOK /\ t \in Targets /\ c \in Context
  BY DecorateType DEF IInv, CtxInv
<1>3. TypeOK'
  <2>1. SessionOf(c) \in PortSession
    BY <1>2 DEF SessionOf, PortSession, Context
  <2>2. c.timers \in SUBSET TimerKind /\ c.acct \in Nat /\ c.posture \in PortAuthorization
    BY <1>2 DEF Context
  <2> QED BY <1>1, <1>2, <2>1, <2>2 DEF TypeOK
<1>4. \A n \in Mac : decorate(n)' = decorate(n)
  BY <1>1 DEF decorate
<1>5. /\ sess'[m] = SessionOf(c) /\ timers'[m] = c.timers /\ acct'[m] = c.acct
      /\ plane'[t] = c.posture
  BY <1>1, <1>2 DEF TypeOK
<1>6. LET d == View(m, {})' IN
      /\ d.st = c.st /\ d.kind = c.kind /\ d.tx = c.tx /\ d.authz = c.authz
      /\ d.open = c.open /\ d.timers = c.timers /\ d.acct = c.acct
      /\ d.posture = c.posture
  BY <1>4, <1>5 DEF View, SessionOf
<1>7. \A n \in Mac \ {m} :
        sess'[n] = sess[n] /\ timers'[n] = timers[n] /\ acct'[n] = acct[n]
  BY <1>1, <1>2 DEF TypeOK
<1>8. \A n \in Mac \ {m} :
        LET d == View(n, {})'  b == View(n, {}) IN
        /\ d.st = b.st /\ d.kind = b.kind /\ d.tx = b.tx /\ d.authz = b.authz
        /\ d.open = b.open /\ d.timers = b.timers /\ d.acct = b.acct
        /\ decorate(n) # t => d.posture = b.posture
  <2>1. \A n \in Mac \ {m} : decorate(n) # t => plane'[decorate(n)] = plane[decorate(n)]
    BY <1>1, <1>2, DecorateType DEF TypeOK
  <2> QED BY <1>4, <1>7, <2>1 DEF View
<1>9. /\ active_sessions \ {m} = active_sessions' \ {m}
      /\ m \in active_sessions' <=> c.st # "New"
  BY <1>5, <1>7 DEF active_sessions, SessionOf
<1>10. SessionTimersOK'
  <2>1. ASSUME NEW n \in Mac PROVE TimersOK(View(n, {}))'
    <3>1. CASE n = m
      BY <1>6, <3>1 DEF CtxInv, TimersOK
    <3>2. CASE n # m
      BY <1>8, <3>2 DEF IInv, SessionTimersOK, TimersOK
    <3> QED BY <3>1, <3>2
  <2> QED BY <2>1 DEF SessionTimersOK
<1>11. SessionAccountingOK'
  <2>1. ASSUME NEW n \in Mac PROVE AccountingOK(View(n, {}))'
    <3>1. CASE n = m
      BY <1>6, <3>1 DEF CtxInv, AccountingOK
    <3>2. CASE n # m
      BY <1>8, <3>2 DEF IInv, SessionAccountingOK, AccountingOK
    <3> QED BY <3>1, <3>2
  <2> QED BY <2>1 DEF SessionAccountingOK
<1>12. SessionPromptsOK'
  <2>1. ASSUME NEW n \in Mac PROVE PromptsOK(View(n, {}), cfg)'
    <3>1. CASE n = m
      BY <1>1, <1>6, <3>1 DEF CtxInv, PromptsOK
    <3>2. CASE n # m
      BY <1>1, <1>8, <3>2 DEF IInv, SessionPromptsOK, PromptsOK
    <3> QED BY <3>1, <3>2
  <2> QED BY <2>1 DEF SessionPromptsOK
<1>13. SessionForgottenOK'
  <2>1. ASSUME NEW n \in Mac PROVE ForgottenOK(View(n, {}))'
    <3>1. CASE n = m
      <4>1. SessionOf(View(m, {})') = SessionOf(c)
        BY <1>6 DEF SessionOf
      <4> QED BY <1>6, <3>1, <4>1 DEF CtxInv, ForgottenOK
    <3>2. CASE n # m
      <4>1. SessionOf(View(n, {})') = SessionOf(View(n, {}))
        BY <1>8, <3>2 DEF SessionOf
      <4> QED BY <1>8, <3>2, <4>1 DEF IInv, SessionForgottenOK, ForgottenOK
    <3> QED BY <3>1, <3>2
  <2> QED BY <2>1 DEF SessionForgottenOK
<1>14. CASE cfg.host_mode = "MultiHost"
  <2>1. \A n \in Mac \ {m} : n \notin active_sessions
    BY <1>14 DEF IInv, CapacityOK, can_admit
  <2>2. \A n \in Mac \ {m} : n \notin active_sessions'
    BY <1>9, <2>1
  <2>3. SessionPostureOK'
    <3>1. ASSUME NEW n \in Mac, Owns(n)' PROVE PostureOK(View(n, {}))'
      <4>1. n = m
        BY <1>1, <1>14, <2>2, <3>1 DEF Owns
      <4> QED BY <1>6, <4>1 DEF CtxInv, PostureOK
    <3> QED BY <3>1 DEF SessionPostureOK
  <2>4. CapacityOK'
    <3>1. active_sessions' \subseteq {m}
      BY <2>2 DEF active_sessions
    <3> QED BY <1>1, <1>14, <3>1 DEF CapacityOK
  <2>5. ForwardingHasOwner'
    <3>1. ASSUME NEW u \in Targets, plane'[u] # Unauthorized
          PROVE  \E n \in active_sessions' : decorate(n)' = u
      <4>1. t = Port
        BY <1>14 DEF decorate
      <4>2. CASE u = t
        <5>1. c.st # "New"
          BY <1>5, <3>1, <4>2 DEF CtxInv, PostureOK
        <5> QED BY <1>4, <1>9, <4>2, <5>1
      <4>3. CASE u # t
        <5>1. plane[u] # Unauthorized
          BY <1>1, <1>2, <3>1, <4>3 DEF TypeOK
        <5>2. \E n \in active_sessions : decorate(n) = u
          BY <5>1 DEF IInv, ForwardingHasOwner
        <5> QED BY <1>14, <4>1, <4>3, <5>2 DEF decorate
      <4> QED BY <4>2, <4>3
    <3> QED BY <3>1 DEF ForwardingHasOwner, Targets
  <2> QED BY <1>3, <1>10, <1>11, <1>12, <1>13, <2>3, <2>4, <2>5 DEF IInv
<1>15. CASE cfg.host_mode # "MultiHost"
  <2>1. t = m /\ \A n \in Mac : decorate(n) = n
    BY <1>15 DEF decorate
  <2>2. SessionPostureOK'
    <3>1. ASSUME NEW n \in Mac PROVE PostureOK(View(n, {}))'
      <4>1. CASE n = m
        BY <1>6, <4>1 DEF CtxInv, PostureOK
      <4>2. CASE n # m
        <5>1. PostureOK(View(n, {}))
          BY <1>15 DEF IInv, SessionPostureOK, Owns
        <5> QED BY <1>8, <2>1, <4>2, <5>1 DEF PostureOK
      <4> QED BY <4>1, <4>2
    <3> QED BY <3>1 DEF SessionPostureOK
  <2>3. CapacityOK'
    <3>1. active_sessions \subseteq Mac /\ active_sessions' \subseteq active_sessions \cup {m}
      BY <1>9 DEF active_sessions
    <3>2. CASE cfg.host_mode = "SingleHost"
      <4>1. active_sessions' \subseteq {m}
        BY <3>1, <3>2 DEF IInv, CapacityOK, can_admit
      <4> QED BY <1>1, <3>2, <4>1 DEF CapacityOK
    <3>3. CASE cfg.host_mode = "MultiDomain"
      <4>1. IsFiniteSet(active_sessions)
        BY <3>1, PortAssumption, FS_Subset
      <4>2. Cardinality(active_sessions \cup {m}) <= 2
        <5>1. Cardinality(active_sessions) \in Nat
          BY <4>1, FS_CardinalityType
        <5>2. CASE m \in active_sessions
          <6>1. active_sessions \cup {m} = active_sessions
            BY <5>2
          <6> QED BY <3>3, <6>1 DEF IInv, CapacityOK
        <5>3. CASE m \notin active_sessions
          <6>1. Cardinality(active_sessions) < 2
            BY <3>3, <5>3 DEF can_admit
          <6>2. Cardinality(active_sessions \cup {m}) = Cardinality(active_sessions) + 1
            BY <4>1, <5>3, FS_AddElement
          <6> QED BY <5>1, <6>1, <6>2
        <5> QED BY <5>2, <5>3
      <4>3. /\ IsFiniteSet(active_sessions \cup {m})
            /\ Cardinality(active_sessions \cup {m}) \in Nat
        BY <4>1, FS_AddElement, FS_CardinalityType
      <4>4. /\ Cardinality(active_sessions') <= Cardinality(active_sessions \cup {m})
            /\ Cardinality(active_sessions') \in Nat
        BY <3>1, <4>3, FS_Subset, FS_CardinalityType
      <4>5. Cardinality(active_sessions') <= 2
        BY <4>2, <4>3, <4>4
      <4> QED BY <1>1, <3>3, <4>5 DEF CapacityOK
    <3>4. CASE cfg.host_mode \notin {"SingleHost", "MultiDomain"}
      BY <1>1, <1>15, <3>4 DEF CapacityOK
    <3> QED BY <3>2, <3>3, <3>4
  <2>4. ForwardingHasOwner'
    <3>1. ASSUME NEW u \in Targets, plane'[u] # Unauthorized
          PROVE  \E n \in active_sessions' : decorate(n)' = u
      <4>1. CASE u = m
        <5>1. c.st # "New"
          BY <1>5, <2>1, <3>1, <4>1 DEF CtxInv, PostureOK
        <5> QED BY <1>4, <1>9, <2>1, <4>1, <5>1
      <4>2. CASE u # m
        <5>1. plane[u] # Unauthorized
          BY <1>1, <1>2, <2>1, <3>1, <4>2 DEF TypeOK
        <5>2. PICK n \in active_sessions : decorate(n) = u
          BY <5>1 DEF IInv, ForwardingHasOwner
        <5>3. n \in Mac
          BY DEF active_sessions
        <5>4. n # m
          BY <2>1, <4>2, <5>2, <5>3
        <5> QED BY <1>4, <1>9, <5>2, <5>3, <5>4
      <4> QED BY <4>1, <4>2
    <3> QED BY <3>1 DEF ForwardingHasOwner, Targets
  <2> QED BY <1>3, <1>10, <1>11, <1>12, <1>13, <2>2, <2>3, <2>4 DEF IInv
<1> QED BY <1>14, <1>15

\* A step that changes nothing preserves the invariant.
LEMMA StutterOK ==
  ASSUME IInv, UNCHANGED vars
  PROVE  IInv'
<1>1. /\ cfg' = cfg /\ sess' = sess /\ timers' = timers /\ acct' = acct
      /\ plane' = plane
  BY DEF vars
<1>2. /\ active_sessions' = active_sessions
      /\ \A m \in Mac : decorate(m)' = decorate(m) /\ Owns(m)' = Owns(m)
      /\ \A m \in Mac : View(m, {})' = View(m, {})
  BY <1>1 DEF active_sessions, decorate, Owns, View
<1>3. TypeOK' /\ CapacityOK'
  BY <1>1, <1>2 DEF IInv, TypeOK, CapacityOK
<1>4. ForwardingHasOwner'
  BY <1>1, <1>2 DEF IInv, ForwardingHasOwner, active_sessions
<1>5. /\ SessionTimersOK' /\ SessionPostureOK' /\ SessionAccountingOK'
      /\ SessionPromptsOK' /\ SessionForgottenOK'
  BY <1>1, <1>2 DEF IInv, SessionTimersOK, SessionPostureOK,
     SessionAccountingOK, SessionPromptsOK, SessionForgottenOK, TimersOK,
     PostureOK, AccountingOK, PromptsOK, ForgottenOK, SessionOf
<1> QED BY <1>3, <1>4, <1>5 DEF IInv

\* Between two events a session satisfies what any event needs.
LEMMA InvReady ==
  ASSUME NEW c, NEW e, CtxInv(c, cfg)
  PROVE  Ready(c, e, cfg)
  BY DEF CtxInv, Ready, TimersOK

\* What the port is handed for m: the event e, after the timers in `fired` have
\* expired.  An Accept and a CoA change come from the actions of that name.
Delivered(m, e, fired) ==
  /\ EventOK(e) /\ Deliver(m, e, fired)
  /\ fired = {} \/ \E k \in timers[m] : fired = {k} /\ e = Timer(k)
  /\ e.type = "Enable" => m \notin active_sessions
  /\ e.type = "AccessAccept" => Accept(m, e.arg)
  /\ e.type = "CoaAuthorize" => CoaChange(m, e.arg)

\* What is carried out for m: a context that satisfies the session's invariant,
\* and that is given access only by an Accept or by a CoA change.
Outcome(m, e, d) ==
  /\ CtxInv(d, cfg) /\ Commit(m, d)
  /\ \/ NoneGiven(View(m, {}), d)
     \/ sess[m].st = "AuthServer" /\ e.type = "AccessAccept" /\ Given(d, e.arg)
     \/ /\ sess[m].st = "Authenticated" /\ sess[m].open
        /\ e.type = "CoaAuthorize" /\ Given(d, e.arg)

\* An event handed to the port is dropped, or it is a step of a session that the
\* port serves or can admit.
LEMMA DeliverOutcome ==
  ASSUME IInv, NEW m \in Mac, NEW e, NEW fired, Delivered(m, e, fired)
  PROVE  \/ UNCHANGED vars
         \/ (m \in active_sessions \/ can_admit) /\ \E d : Outcome(m, e, d)
<1> DEFINE c == View(m, fired)
<1>1. cfg \in PaeConfig /\ TypeOK
  BY DEF IInv, TypeOK
<1>2. CASE m \in active_sessions
  <2>1. Commit(m, step(c, e, cfg))
    BY <1>2 DEF Delivered, Deliver
  <2>2. Ready(c, e, cfg)
    BY <1>1, <1>2, ViewInv, ViewReady DEF Delivered
  <2>3. c.open = View(m, {}).open /\ c.authz = View(m, {}).authz
        /\ c.posture = View(m, {}).posture /\ c.st = sess[m].st /\ c.open = sess[m].open
    BY DEF View
  <2> HIDE DEF c
  <2> DEFINE d == step(c, e, cfg)
  <2>4. /\ CtxInv(d, cfg)
        /\ \/ NoneGiven(c, d)
           \/ c.st = "AuthServer" /\ e.type = "AccessAccept" /\ Given(d, e.arg)
           \/ /\ c.st = "Authenticated" /\ c.open /\ e.type = "CoaAuthorize"
              /\ Given(d, e.arg)
    BY <1>1, <1>2, <2>2, StepOK DEF Delivered
  <2> HIDE DEF d
  <2>5. NoneGiven(c, d) => NoneGiven(View(m, {}), d)
    BY <2>3 DEF NoneGiven
  <2>6. Outcome(m, e, d)
    BY <2>1, <2>3, <2>4, <2>5 DEF Outcome, d
  <2> QED BY <1>2, <2>6
<1>3. CASE m \notin active_sessions /\ can_admit
  <2> DEFINE enabled == step(c, Event("Enable"), cfg)
  <2>1. Commit(m, admit(c, e))
    BY <1>3 DEF Delivered, Deliver
  <2>2. CtxInv(View(m, {}), cfg) /\ View(m, {}).st = "New"
    BY <1>3, ViewInv DEF View, active_sessions
  <2>3. timers[m] = {}
    BY <2>2 DEF CtxInv, ForgottenOK, View
  <2>4. fired = {} /\ c = View(m, {})
    BY <2>3 DEF Delivered
  <2>5. CtxInv(c, cfg) /\ c.st = "New"
    BY <2>2, <2>4
  <2> HIDE DEF c
  <2>6. c \in Context /\ ~c.open /\ c.acct = 0 /\ c.timers = {}
    BY <2>5 DEF CtxInv, PostureOK, AccountingOK, ForgottenOK
  <2>7. CtxInv(enabled, cfg) /\ ~enabled.open /\ enabled.st = "Connecting"
    BY <1>1, <2>6, EnableOK DEF step, Event
  <2> HIDE DEF enabled
  <2>8. CASE e.type \in {"Enable", "EapolStart"}
    <3>1. admit(c, e) = enabled
      BY <2>8 DEF admit, enabled
    <3>2. NoneGiven(View(m, {}), enabled)
      BY <2>4, <2>6, <2>7 DEF NoneGiven
    <3> QED BY <1>3, <2>1, <2>7, <3>1, <3>2 DEF Outcome
  <2>9. CASE e.type \notin {"Enable", "EapolStart"}
    <3> DEFINE d == step(enabled, e, cfg)
    <3>1. admit(c, e) = d
      BY <2>9 DEF admit, enabled
    <3>2. CtxInv(d, cfg) /\ NoneGiven(enabled, d)
      BY <1>1, <2>7, <2>9, InvReady, StepOK DEF Delivered
    <3> HIDE DEF d
    <3>3. NoneGiven(View(m, {}), d)
      BY <2>4, <2>6, <2>7, <3>2 DEF NoneGiven
    <3> QED BY <1>3, <2>1, <3>1, <3>2, <3>3 DEF Outcome
  <2> QED BY <2>8, <2>9
<1>4. CASE m \notin active_sessions /\ ~can_admit
  BY <1>4 DEF Delivered, Deliver
<1> QED BY <1>2, <1>3, <1>4

\* An event handed to the port preserves the invariant of the port.
LEMMA DeliverOK ==
  ASSUME IInv, NEW m \in Mac, NEW e, NEW fired, Delivered(m, e, fired)
  PROVE  IInv'
<1>1. CASE UNCHANGED vars
  BY <1>1, StutterOK
<1>2. CASE (m \in active_sessions \/ can_admit) /\ \E d : Outcome(m, e, d)
  BY <1>2, CommitOK DEF Outcome
<1> QED BY <1>1, <1>2, DeliverOutcome

\* A port with no session, no timer, no open record, closed everywhere.
Fresh ==
  /\ cfg \in PaeConfig
  /\ sess = [m \in Mac |-> NewSession]
  /\ timers = [m \in Mac |-> {}]
  /\ acct = [m \in Mac |-> 0]
  /\ plane = [t \in Targets |-> Unauthorized]

\* A fresh port satisfies the invariant.
LEMMA FreshOK == Fresh => IInv
<1> SUFFICES ASSUME Fresh PROVE IInv
  OBVIOUS
<1>1. \A m \in Mac :
        LET d == View(m, {}) IN
        /\ d.st = "New" /\ d.kind = "Dot1x" /\ d.tx = 0 /\ d.authz = NoGrant
        /\ d.open = FALSE /\ d.timers = {} /\ d.acct = 0 /\ d.posture = Unauthorized
  BY DecorateType DEF Fresh, View, NewSession
<1>2. active_sessions = {}
  BY DEF Fresh, active_sessions, NewSession
<1>3. TypeOK
  BY DEF Fresh, TypeOK, NewSession, PortSession, State, AuthKind, PortAuthorization
<1>4. SessionTimersOK /\ SessionAccountingOK /\ SessionPromptsOK
  BY <1>1 DEF SessionTimersOK, TimersOK, SessionAccountingOK, AccountingOK,
     SessionPromptsOK, PromptsOK
<1>5. SessionPostureOK
  BY <1>1, Postures DEF SessionPostureOK, PostureOK, FallbackReason
<1>6. SessionForgottenOK
  BY <1>1 DEF SessionForgottenOK, ForgottenOK, SessionOf, NewSession
<1>7. CapacityOK
  BY <1>2, FS_EmptySet DEF CapacityOK
<1>8. ForwardingHasOwner
  BY DEF Fresh, ForwardingHasOwner
<1> QED BY <1>3, <1>4, <1>5, <1>6, <1>7, <1>8 DEF IInv

\* Losing the link leaves a fresh port: every session is torn down, and no
\* target is left forwarding, the whole port included.
LEMMA LinkDownOK ==
  ASSUME IInv, link_down
  PROVE  Fresh'
<1> DEFINE down(m) == step(View(m, {}), Event("LinkDown"), cfg)
<1>1. /\ cfg' = cfg /\ cfg \in PaeConfig
      /\ sess' = [m \in Mac |-> SessionOf(down(m))]
      /\ timers' = [m \in Mac |-> down(m).timers]
      /\ acct' = [m \in Mac |-> down(m).acct]
      /\ plane' = [t \in Targets |->
                     IF t = Port \/ t \in active_sessions THEN Unauthorized
                     ELSE plane[t]]
  BY DEF link_down, IInv, TypeOK
<1>2. ASSUME NEW m \in Mac
      PROVE  /\ SessionOf(down(m)) = NewSession /\ down(m).timers = {}
             /\ down(m).acct = 0
  <2> DEFINE c == View(m, {})
  <2>1. down(m) = teardown(c)
    BY DEF step, Event
  <2>2. c \in Context /\ AccountingOK(c) /\ ForgottenOK(c)
    BY ViewType DEF IInv, SessionAccountingOK, SessionForgottenOK
  <2>3. ForgottenOK(down(m)) /\ AccountingOK(down(m)) /\ down(m).st = "New"
    <3>1. CASE m \in active_sessions
      <4>1. c.st # "New"
        BY <3>1 DEF View, active_sessions
      <4> HIDE DEF c
      <4>2. CtxInv(teardown(c), cfg) /\ teardown(c).st = "New"
        BY <1>1, <2>2, <4>1, TeardownOK
      <4> QED BY <2>1, <4>2 DEF CtxInv
    <3>2. CASE m \notin active_sessions
      <4>1. c.st = "New"
        BY <3>2 DEF View, active_sessions
      <4>2. down(m) = c
        BY <2>1, <4>1 DEF teardown
      <4> QED BY <2>2, <4>1, <4>2
    <3> QED BY <3>1, <3>2
  <2> HIDE DEF down
  <2>4. SessionOf(down(m)) = NewSession /\ down(m).timers = {}
    BY <2>3 DEF ForgottenOK
  <2>5. SessionOf(down(m)).open = down(m).open /\ NewSession.open = FALSE
    BY DEF SessionOf, NewSession
  <2> QED BY <2>3, <2>4, <2>5 DEF AccountingOK
<1>3. \A t \in Targets : t = Port \/ t \in active_sessions \/ plane[t] = Unauthorized
  <2>1. ASSUME NEW t \in Targets, plane[t] # Unauthorized
        PROVE  t = Port \/ t \in active_sessions
    <3>1. PICK m \in active_sessions : decorate(m) = t
      BY <2>1 DEF IInv, ForwardingHasOwner
    <3> QED BY <3>1 DEF decorate
  <2> QED BY <2>1
<1> HIDE DEF down
<1>4. plane' = [t \in Targets |-> Unauthorized]
  BY <1>1, <1>3
<1>5. /\ sess' = [m \in Mac |-> NewSession] /\ timers' = [m \in Mac |-> {}]
      /\ acct' = [m \in Mac |-> 0]
  BY <1>1, <1>2
<1>6. Targets' = Targets /\ Unauthorized' = Unauthorized /\ NewSession' = NewSession
  BY DEF Targets
<1> QED BY <1>1, <1>4, <1>5, <1>6 DEF Fresh

-----------------------------------------------------------------------------
(* The port *)

\* Every action of one MAC hands an event to the port.
LEMMA EventsDelivered ==
  ASSUME NEW m \in Mac,
         \/ SupplicantStep(m) \/ ServerStep(m) \/ AdminStep(m)
         \/ LinkStep(m) \/ TimerStep(m) \/ LateTimerStep(m)
  PROVE  \E e, fired : Delivered(m, e, fired)
<1>1. ASSUME NEW e, EventOK(e), e.type \notin {"Enable", "AccessAccept", "CoaAuthorize"},
             handle(m, e)
      PROVE  Delivered(m, e, {})
  BY <1>1 DEF handle, Delivered
<1>2. \A ty \in {"Enable", "LinkUp", "LinkDown", "EapolStart", "EapolLogoff",
                  "AccessChallenge", "AccessReject", "ServerUnreachable",
                  "CoaDisconnect", "CoaReauthenticate"} :
        EventOK(Event(ty)) /\ Event(ty).type = ty
  BY DEF EventOK, Event
<1>3. CASE SupplicantStep(m)
  <2>1. CASE EapolStart(m) \/ EapolLogoff(m)
    BY <1>1, <1>2, <2>1 DEF EapolStart, EapolLogoff
  <2>2. CASE EapReceived(m)
    <3>1. PICK eap \in EapPacket : handle(m, EapFromSupplicant(eap))
      BY <2>2 DEF EapReceived
    <3>2. /\ EventOK(EapFromSupplicant(eap))
          /\ EapFromSupplicant(eap).type = "EapFromSupplicant"
      BY DEF EventOK, EapFromSupplicant
    <3> QED BY <1>1, <3>1, <3>2
  <2> QED BY <1>3, <2>1, <2>2 DEF SupplicantStep
<1>4. CASE ServerStep(m)
  <2>1. CASE Challenge(m) \/ Reject(m) \/ ServerUnreachable(m)
    BY <1>1, <1>2, <2>1 DEF Challenge, Reject, ServerUnreachable
  <2>2. CASE \E g \in Grants : Accept(m, g)
    <3>1. PICK g \in Grants : Accept(m, g)
      BY <2>2
    <3>2. /\ EventOK(AccessAccept(g)) /\ AccessAccept(g).type = "AccessAccept"
          /\ AccessAccept(g).arg = g
      BY DEF EventOK, AccessAccept
    <3>3. Deliver(m, AccessAccept(g), {})
      BY <3>1 DEF Accept, handle
    <3>4. Delivered(m, AccessAccept(g), {})
      BY <3>1, <3>2, <3>3 DEF Delivered
    <3> QED BY <3>4
  <2> QED BY <1>4, <2>1, <2>2 DEF ServerStep
<1>5. CASE AdminStep(m)
  <2>1. CASE CoaDisconnect(m) \/ CoaReauthenticate(m)
    BY <1>1, <1>2, <2>1 DEF CoaDisconnect, CoaReauthenticate
  <2>2. CASE \E g \in Grants : CoaChange(m, g)
    <3>1. PICK g \in Grants : CoaChange(m, g)
      BY <2>2
    <3>2. /\ EventOK(CoaAuthorize(g)) /\ CoaAuthorize(g).type = "CoaAuthorize"
          /\ CoaAuthorize(g).arg = g
      BY DEF EventOK, CoaAuthorize
    <3>3. Deliver(m, CoaAuthorize(g), {})
      BY <3>1 DEF CoaChange, handle
    <3>4. Delivered(m, CoaAuthorize(g), {})
      BY <3>1, <3>2, <3>3 DEF Delivered
    <3> QED BY <3>4
  <2> QED BY <1>5, <2>1, <2>2 DEF AdminStep
<1>6. CASE LinkStep(m)
  <2>1. CASE LinkUp(m) \/ LinkDown(m)
    BY <1>1, <1>2, <2>1 DEF LinkUp, LinkDown
  <2>2. CASE Enable(m)
    <3>1. Delivered(m, Event("Enable"), {})
      BY <1>2, <2>2 DEF Enable, handle, Delivered
    <3> QED BY <3>1
  <2> QED BY <1>6, <2>1, <2>2 DEF LinkStep
<1>7. CASE TimerStep(m)
  <2>1. PICK k \in TimerKind : k \in timers[m] /\ Deliver(m, Timer(k), {k})
    BY <1>7 DEF TimerStep, Expire
  <2>2. EventOK(Timer(k)) /\ Timer(k).type = "Timer"
    BY DEF EventOK, Timer
  <2>3. Delivered(m, Timer(k), {k})
    BY <2>1, <2>2 DEF Delivered
  <2> QED BY <2>3
<1>8. CASE LateTimerStep(m)
  <2>1. PICK k \in TimerKind : handle(m, Timer(k))
    BY <1>8 DEF LateTimerStep, LateExpire
  <2>2. EventOK(Timer(k)) /\ Timer(k).type = "Timer"
    BY DEF EventOK, Timer
  <2> QED BY <1>1, <2>1, <2>2
<1> QED BY <1>3, <1>4, <1>5, <1>6, <1>7, <1>8

\* IInv is inductive: it holds at the start and every step of any MAC, the
\* server, an administrator, a timer or the link preserves it.
THEOREM Inductive == Spec => []IInv
<1>1. Init => Fresh
  BY PortAssumption DEF Init, Fresh
<1>2. Init => IInv
  BY <1>1, FreshOK
<1>3. Fresh' => IInv'
  BY FreshOK, PTL
<1>4. IInv /\ [Next]_vars => IInv'
  <2> SUFFICES ASSUME IInv, [Next]_vars PROVE IInv'
    OBVIOUS
  <2>1. CASE \E m \in Mac : \/ SupplicantStep(m) \/ ServerStep(m) \/ AdminStep(m)
                             \/ LinkStep(m) \/ TimerStep(m) \/ LateTimerStep(m)
    BY <2>1, EventsDelivered, DeliverOK
  <2>2. CASE link_down
    BY <1>3, <2>2, LinkDownOK
  <2>3. CASE UNCHANGED vars
    BY <2>3, StutterOK
  <2> QED BY <2>1, <2>2, <2>3 DEF Next
<1> QED BY <1>2, <1>4, PTL DEF Spec

\* Every variable keeps its type; in particular the accounting balance of a
\* MAC never goes negative: no Stop is sent that no Start precedes.
THEOREM TypeCorrect == Spec => []TypeOK
<1>1. IInv => TypeOK
  BY DEF IInv
<1> QED BY <1>1, Inductive, PTL

\* Fail closed: on any port, a session's target forwards under a grant exactly
\* while its accounting is open, and is closed in every other settled state.
THEOREM FailClosed == Spec => []SessionPostureOK
<1>1. IInv => SessionPostureOK
  BY DEF IInv
<1> QED BY <1>1, Inductive, PTL

\* Every accounting Start is followed by exactly one Stop before the next.
THEOREM AccountingBalanced == Spec => []SessionAccountingOK
<1>1. IInv => SessionAccountingOK
  BY DEF IInv
<1> QED BY <1>1, Inductive, PTL

\* A session that waits has the timer armed that ends its wait, and no timer
\* of a state it has left.
THEOREM TimersMatchState == Spec => []SessionTimersOK
<1>1. IInv => SessionTimersOK
  BY DEF IInv
<1> QED BY <1>1, Inductive, PTL

\* The identity prompts counted in one attempt stay within the budget.
THEOREM PromptsBounded == Spec => []SessionPromptsOK
<1>1. IInv => SessionPromptsOK
  BY DEF IInv
<1> QED BY <1>1, Inductive, PTL

\* A session that ended is forgotten whole: dropping it from the map loses
\* nothing.
THEOREM NothingLeftBehind == Spec => []SessionForgottenOK
<1>1. IInv => SessionForgottenOK
  BY DEF IInv
<1> QED BY <1>1, Inductive, PTL

\* The host mode's limit on concurrent sessions holds for any number of MACs.
THEOREM CapacityRespected == Spec => []CapacityOK
<1>1. IInv => CapacityOK
  BY DEF IInv
<1> QED BY <1>1, Inductive, PTL

\* No target forwards without a live session answerable for it.
THEOREM NoOrphanAccess == Spec => []ForwardingHasOwner
<1>1. IInv => ForwardingHasOwner
  BY DEF IInv
<1> QED BY <1>1, Inductive, PTL

-----------------------------------------------------------------------------
(* One outcome of an event *)

\* What a committed context does to the posture and the records: those of m and
\* of its target become the context's, the others stay as they are.
LEMMA Committed ==
  ASSUME TypeOK, NEW m \in Mac, NEW d, Commit(m, d)
  PROVE  /\ cfg' = cfg
         /\ acct' = [acct EXCEPT ![m] = d.acct] /\ acct'[m] = d.acct
         /\ plane' = [plane EXCEPT ![decorate(m)] = d.posture]
         /\ plane'[decorate(m)] = d.posture
         /\ sess'[m].authz = d.authz
         /\ \A n \in Mac : n # m => acct'[n] = acct[n] /\ sess'[n] = sess[n]
         /\ \A t \in Targets : t # decorate(m) => plane'[t] = plane[t]
  BY DecorateType DEF Commit, TypeOK, SessionOf

\* What the session's invariant says of records and posture.
LEMMA OpenFields ==
  ASSUME NEW c, NEW conf, CtxInv(c, conf)
  PROVE  /\ c.open => /\ c.acct = 1 /\ c.authz \in Grants
                      /\ c.posture = Authorized(c.authz)
                      /\ c.posture.mode = "Authorized"
         /\ ~c.open => c.acct = 0 /\ c.posture.mode # "Authorized"
         /\ c.open \in BOOLEAN /\ c.posture \in PortAuthorization
  BY DEF CtxInv, AccountingOK, PostureOK, Authorized, Context

\* A posture that is no grant is closed or a fallback.
LEMMA NotAuthorized ==
  ASSUME NEW p \in PortAuthorization, p.mode # "Authorized"
  PROVE  p = Unauthorized \/ \E r \in FallbackReason : p = Fallback(r)
  BY DEF PortAuthorization, Authorized

\* The three kinds of posture are told apart by their mode.
LEMMA Modes ==
  /\ Unauthorized.mode = "Unauthorized"
  /\ \A g : Authorized(g).mode = "Authorized"
  /\ \A r : Fallback(r).mode = "Fallback"
  BY DEF Unauthorized, Authorized, Fallback

-----------------------------------------------------------------------------
(* What a step may never do *)

\* An open session that fails is closed before it is given a fallback VLAN, in
\* every host mode and however its events interleave.
THEOREM NeverDemoted == Spec => NoSilentDemotion
<1> DEFINE A == \A t \in Targets :
                  plane[t].mode = "Authorized" => plane'[t].mode # "Fallback"
<1>1. IInv /\ [Next]_vars => [A]_vars
  <2> SUFFICES ASSUME IInv, Next PROVE A
    OBVIOUS
  <2> SUFFICES ASSUME NEW t \in Targets, plane[t].mode = "Authorized"
               PROVE  plane'[t].mode # "Fallback"
    OBVIOUS
  <2>1. CASE link_down
    <3>1. plane' = [u \in Targets |-> Unauthorized]
      BY <2>1, LinkDownOK DEF Fresh
    <3> QED BY <3>1, Modes
  <2>2. ASSUME NEW m \in Mac,
               \/ SupplicantStep(m) \/ ServerStep(m) \/ AdminStep(m)
               \/ LinkStep(m) \/ TimerStep(m) \/ LateTimerStep(m)
        PROVE  plane'[t].mode # "Fallback"
    <3>1. PICK e, fired : Delivered(m, e, fired)
      BY <2>2, EventsDelivered
    <3>2. CASE UNCHANGED vars
      BY <3>2 DEF vars
    <3>3. CASE (m \in active_sessions \/ can_admit) /\ \E d : Outcome(m, e, d)
      <4> DEFINE c == View(m, {})
      <4>1. PICK d : Outcome(m, e, d)
        BY <3>3
      <4>2. CASE t # decorate(m)
        BY <4>1, <4>2, Committed DEF IInv, Outcome
      <4>3. CASE t = decorate(m)
        <5>1. CtxInv(c, cfg) /\ c.posture = plane[t]
          BY <3>3, <4>3, ViewInv DEF View
        <5> HIDE DEF c
        <5>2. c.open
          BY <5>1, OpenFields
        <5>3. d.posture = Unauthorized \/ d.posture.mode = "Authorized"
          BY <4>1, <5>1, <5>2, Modes DEF Outcome, NoneGiven, Given, c
        <5>4. plane'[t] = d.posture
          BY <4>1, <4>3, Committed DEF IInv, Outcome
        <5> QED BY <5>3, <5>4, Modes
      <4> QED BY <4>2, <4>3
    <3> QED BY <3>1, <3>2, <3>3, DeliverOutcome
  <2> QED BY <2>1, <2>2 DEF Next
<1> QED BY <1>1, Inductive, PTL DEF Spec, NoSilentDemotion

\* Access opens only on an Accept to a request that is out, and then under the
\* Accept's own grant; while it is open the grant changes only by another Accept
\* or by a CoA.
THEOREM OnlyByServer == Spec => AccessOnlyByServer
<1> DEFINE Opened(m) ==
             \E g \in Grants : /\ sess[m].st = "AuthServer" /\ Accept(m, g)
                               /\ plane'[decorate(m)] = Authorized(g)
           Changed(m) ==
             \E g \in Grants : \/ sess[m].st = "AuthServer" /\ Accept(m, g)
                               \/ CoaChange(m, g)
           A == \A m \in Mac :
                  /\ acct'[m] > acct[m] => Opened(m)
                  /\ acct[m] > 0 /\ acct'[m] > 0 /\ sess'[m].authz # sess[m].authz
                       => Changed(m)
<1>1. IInv /\ [Next]_vars => [A]_vars
  <2> SUFFICES ASSUME IInv, Next, NEW n \in Mac
               PROVE  /\ acct'[n] > acct[n] => Opened(n)
                      /\ acct[n] > 0 /\ acct'[n] > 0 /\ sess'[n].authz # sess[n].authz
                           => Changed(n)
    OBVIOUS
  <2>0. acct[n] \in Nat
    BY DEF IInv, TypeOK
  <2>1. CASE link_down
    <3>1. acct'[n] = 0
      BY <2>1, LinkDownOK DEF Fresh
    <3> QED BY <2>0, <3>1
  <2>2. ASSUME NEW m \in Mac,
               \/ SupplicantStep(m) \/ ServerStep(m) \/ AdminStep(m)
               \/ LinkStep(m) \/ TimerStep(m) \/ LateTimerStep(m)
        PROVE  /\ acct'[n] > acct[n] => Opened(n)
               /\ acct[n] > 0 /\ acct'[n] > 0 /\ sess'[n].authz # sess[n].authz
                    => Changed(n)
    <3>1. PICK e, fired : Delivered(m, e, fired)
      BY <2>2, EventsDelivered
    <3>2. CASE UNCHANGED vars
      BY <2>0, <3>2 DEF vars
    <3>3. CASE (m \in active_sessions \/ can_admit) /\ \E d : Outcome(m, e, d)
      <4> DEFINE c == View(m, {})
      <4>1. PICK d : Outcome(m, e, d)
        BY <3>3
      <4>2. CASE n # m
        BY <2>0, <4>1, <4>2, Committed DEF IInv, Outcome
      <4>3. CASE n = m
        <5>1. /\ CtxInv(c, cfg) /\ c.acct = acct[m] /\ c.authz = sess[m].authz
              /\ c.open = sess[m].open
          BY <3>3, ViewInv DEF View
        <5>2. /\ CtxInv(d, cfg) /\ acct'[m] = d.acct /\ sess'[m].authz = d.authz
              /\ plane'[decorate(m)] = d.posture
          BY <4>1, Committed DEF IInv, Outcome
        <5>3. CASE NoneGiven(c, d)
          <6> HIDE DEF c
          <6>1. d.open => c.open /\ d.authz = c.authz
            BY <5>3 DEF NoneGiven
          <6>2. /\ d.open => d.acct = 1
                /\ ~d.open => d.acct = 0
                /\ c.open => c.acct = 1
                /\ c.open \in BOOLEAN /\ d.open \in BOOLEAN
            BY <5>1, <5>2, OpenFields
          <6>3. ~(acct'[m] > acct[m])
            BY <2>0, <4>3, <5>1, <5>2, <6>1, <6>2
          <6>4. acct'[m] > 0 => sess'[m].authz = sess[m].authz
            BY <5>1, <5>2, <6>1, <6>2
          <6> QED BY <4>3, <6>3, <6>4
        <5>4. CASE sess[m].st = "AuthServer" /\ e.type = "AccessAccept" /\ Given(d, e.arg)
          <6>1. e.arg \in Grants /\ Accept(m, e.arg)
            BY <3>1, <5>4 DEF Delivered, EventOK
          <6>2. plane'[decorate(m)] = Authorized(e.arg)
            BY <5>2, <5>4 DEF Given
          <6> QED BY <4>3, <5>4, <6>1, <6>2
        <5>5. CASE /\ sess[m].st = "Authenticated" /\ sess[m].open
                   /\ e.type = "CoaAuthorize" /\ Given(d, e.arg)
          <6>1. e.arg \in Grants /\ CoaChange(m, e.arg)
            BY <3>1, <5>5 DEF Delivered, EventOK
          <6>2. Changed(n)
            BY <4>3, <5>5, <6>1
          <6> HIDE DEF c
          <6>3. d.acct = 1 /\ c.acct = 1
            BY <5>1, <5>2, <5>5, OpenFields DEF Given
          <6>4. ~(acct'[n] > acct[n])
            BY <2>0, <4>3, <5>1, <5>2, <6>3
          <6> QED BY <6>2, <6>4
        <5> QED BY <4>1, <5>3, <5>4, <5>5 DEF Outcome
      <4> QED BY <4>2, <4>3
    <3> QED BY <3>1, <3>2, <3>3, DeliverOutcome
  <2> QED BY <2>1, <2>2 DEF Next
<1> QED BY <1>1, Inductive, PTL DEF Spec, AccessOnlyByServer

-----------------------------------------------------------------------------
(* PortPae implements ControlledPort *)

\* An open accounting record belongs to a live session.
LEMMA BilledIsActive ==
  ASSUME IInv, NEW m \in Mac, acct[m] = 1
  PROVE  m \in active_sessions
<1> DEFINE c == View(m, {})
<1>1. c.acct = acct[m] /\ c.st = sess[m].st /\ c.open = SessionOf(c).open
  BY DEF View, SessionOf
<1>2. AccountingOK(c) /\ ForgottenOK(c)
  BY DEF IInv, SessionAccountingOK, SessionForgottenOK
<1> HIDE DEF c
<1>3. c.open
  BY <1>1, <1>2 DEF AccountingOK
<1>4. c.st # "New"
  <2>1. NewSession.open = FALSE
    BY DEF NewSession
  <2> QED BY <1>1, <1>2, <1>3, <2>1 DEF ForgottenOK
<1> QED BY <1>1, <1>4 DEF active_sessions

\* ControlledPort counts as PortPae does.
LEMMA SameCount == ASSUME NEW S PROVE CP!Cardinality(S) = Cardinality(S)
  BY DEF Cardinality, CP!Cardinality

\* The host mode has room for the record of a session that the port serves or
\* admits and that has none: every open record takes one of the other places.
LEMMA RoomForRecord ==
  ASSUME IInv, NEW m \in Mac, m \in active_sessions \/ can_admit, acct[m] = 0
  PROVE  CP!Room
<1> DEFINE B == {n \in Mac : acct[n] = 1}
           O == active_sessions \ {m}
<1>1. B \subseteq O
  BY BilledIsActive
<1>2. IsFiniteSet(active_sessions) /\ Cardinality(active_sessions) \in Nat
  BY PortAssumption, FS_Subset, FS_CardinalityType DEF active_sessions
<1>3. IsFiniteSet(O) /\ Cardinality(O) \in Nat
  BY <1>2, FS_Subset, FS_CardinalityType
<1>4. Cardinality(B) \in Nat /\ Cardinality(B) <= Cardinality(O)
  BY <1>1, <1>3, FS_Subset, FS_CardinalityType
<1>5. CASE cfg.host_mode \in {"SingleHost", "MultiHost"}
  <2>1. O = {}
    BY <1>5 DEF IInv, CapacityOK, can_admit
  <2>2. Cardinality(B) = 0
    BY <1>1, <2>1, FS_EmptySet
  <2> QED BY <1>5, <2>2, SameCount DEF CP!Room
<1>6. CASE cfg.host_mode = "MultiDomain"
  <2>1. Cardinality(O) < 2
    <3>1. CASE m \in active_sessions
      <4>1. Cardinality(O) = Cardinality(active_sessions) - 1
        BY <1>2, <3>1, FS_RemoveElement
      <4>2. Cardinality(active_sessions) <= 2
        BY <1>6 DEF IInv, CapacityOK
      <4> QED BY <1>2, <1>3, <4>1, <4>2
    <3>2. CASE m \notin active_sessions
      <4>1. O = active_sessions
        BY <3>2
      <4> QED BY <1>6, <3>2, <4>1 DEF can_admit
    <3> QED BY <3>1, <3>2
  <2>2. Cardinality(B) < 2
    BY <1>3, <1>4, <2>1
  <2> QED BY <1>6, <2>2, SameCount DEF CP!Room
<1>7. CASE cfg.host_mode = "MultiAuth"
  BY <1>7 DEF CP!Room
<1> QED BY <1>5, <1>6, <1>7 DEF IInv, TypeOK, PaeConfig, HostMode

\* What is carried out for one session is one step of ControlledPort.
LEMMA OutcomeRefines ==
  ASSUME IInv, NEW m \in Mac, m \in active_sessions \/ can_admit,
         NEW e, NEW d, Outcome(m, e, d)
  PROVE  CP!Next
<1> DEFINE c == View(m, {})
           t == decorate(m)
<1>1. /\ CtxInv(c, cfg) /\ c.acct = acct[m] /\ c.posture = plane[t]
      /\ c.open = sess[m].open
  BY ViewInv DEF View
<1>2. /\ CtxInv(d, cfg) /\ cfg' = cfg
      /\ acct' = [acct EXCEPT ![m] = d.acct]
      /\ plane' = [plane EXCEPT ![t] = d.posture]
  BY Committed DEF IInv, Outcome
<1>3. t = CP!Target(m) /\ acct \in [Mac -> Nat] /\ Unauthorized = CP!Closed
  BY DEF decorate, CP!Target, CP!Closed, Unauthorized, IInv, TypeOK
<1>4. /\ NoneGiven(c, d) \/ d.open
      /\ NoneGiven(c, d) => ~d.open \/ c.open
  BY DEF Outcome, NoneGiven, Given
<1> HIDE DEF c, t
<1>5. CASE ~d.open
  <2>1. d.acct = 0 /\ d.posture \in PortAuthorization /\ d.posture.mode # "Authorized"
    BY <1>2, <1>5, OpenFields
  <2>2. CASE d.posture = Unauthorized
    <3>1. plane[t].mode = "Authorized" => acct[m] = 1
      BY <1>1, OpenFields
    <3>2. CP!Close(m)
      BY <1>2, <1>3, <2>1, <2>2, <3>1 DEF CP!Close
    <3> QED BY <3>2 DEF CP!Next
  <2>3. CASE d.posture # Unauthorized
    <3>1. PICK r \in FallbackReason : d.posture = Fallback(r)
      BY <2>1, <2>3, NotAuthorized
    <3>2. ~c.open
      BY <1>1, <1>4, <1>5, <2>3, OpenFields DEF NoneGiven
    <3>3. acct[m] = 0 /\ plane[t].mode # "Authorized"
      BY <1>1, <3>2, OpenFields
    <3>4. acct' = acct
      BY <1>2, <1>3, <2>1, <3>3
    <3>5. CP!FallBack(m, r)
      BY <1>2, <1>3, <3>1, <3>3, <3>4 DEF CP!FallBack, Fallback
    <3> QED BY <3>5 DEF CP!Next, FallbackReason
  <2> QED BY <2>2, <2>3
<1>6. CASE d.open
  <2>1. d.acct = 1 /\ d.authz \in Grants /\ d.posture = Authorized(d.authz)
    BY <1>2, <1>6, OpenFields
  <2>2. CASE c.open
    <3>1. acct[m] = 1
      BY <1>1, <2>2, OpenFields
    <3>2. acct' = acct
      BY <1>2, <1>3, <2>1, <3>1
    <3>3. CP!Change(m, d.authz)
      BY <1>2, <1>3, <2>1, <3>1, <3>2 DEF CP!Change, Authorized
    <3> QED BY <2>1, <3>3 DEF CP!Next
  <2>3. CASE ~c.open
    <3>1. acct[m] = 0 /\ plane[t].mode # "Authorized"
      BY <1>1, <2>3, OpenFields
    <3>2. CP!Room
      BY <3>1, RoomForRecord
    <3>3. CP!Open(m, d.authz)
      BY <1>2, <1>3, <2>1, <3>1, <3>2 DEF CP!Open, Authorized
    <3> QED BY <2>1, <3>3 DEF CP!Next
  <2> QED BY <2>2, <2>3
<1> QED BY <1>5, <1>6

\* PortPae implements ControlledPort: access opens together with an accounting
\* record and within the host mode's limit, and ends together with it.
THEOREM Refinement == Spec => ImplementsControlledPort
<1>1. Init => CP!Init
  <2> SUFFICES ASSUME Init PROVE CP!Init
    OBVIOUS
  <2>1. cfg \in PaeConfig
    BY PortAssumption DEF Init
  <2>2. cfg.host_mode \in HostMode
    BY <2>1 DEF PaeConfig
  <2> QED BY <2>2 DEF Init, CP!Init, HostMode, Targets, Unauthorized, CP!Closed
<1>2. IInv /\ [Next]_vars => [CP!Next]_(CP!vars)
  <2> SUFFICES ASSUME IInv, [Next]_vars PROVE CP!Next \/ UNCHANGED CP!vars
    OBVIOUS
  <2>1. CASE UNCHANGED vars
    BY <2>1 DEF vars, CP!vars
  <2>2. CASE link_down
    <3>1. Fresh' /\ cfg' = cfg
      BY <2>2, LinkDownOK DEF link_down
    <3>2. CP!CloseAll
      BY <3>1 DEF Fresh, CP!CloseAll, CP!Closed, Unauthorized, Targets
    <3> QED BY <3>2 DEF CP!Next
  <2>3. ASSUME NEW m \in Mac,
               \/ SupplicantStep(m) \/ ServerStep(m) \/ AdminStep(m)
               \/ LinkStep(m) \/ TimerStep(m) \/ LateTimerStep(m)
        PROVE  CP!Next \/ UNCHANGED CP!vars
    <3>1. PICK e, fired : Delivered(m, e, fired)
      BY <2>3, EventsDelivered
    <3>2. \/ UNCHANGED vars
          \/ (m \in active_sessions \/ can_admit) /\ \E d : Outcome(m, e, d)
      BY <3>1, DeliverOutcome
    <3> QED BY <2>1, <3>2, OutcomeRefines
  <2> QED BY <2>1, <2>2, <2>3 DEF Next
<1> QED BY <1>1, <1>2, Inductive, PTL DEF Spec, ImplementsControlledPort, CP!Spec
=============================================================================
