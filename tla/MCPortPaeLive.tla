--------------------------- MODULE MCPortPaeLive ---------------------------
(***************************************************************************)
(* Liveness of PortPae.  At some moment the environment settles: the       *)
(* supplicant either falls silent for good or wants in and keeps trying.   *)
(* The only fairness on the code is that an armed timer expires, which     *)
(* TokioScheduler's sleeping task provides; no event that re-arms a timer  *)
(* without counting (EAPOL-Start, LinkUp) is left once it is silent.       *)
(***************************************************************************)
EXTENDS MCPortPae

VARIABLE phase   \* "any", then for ever "silent" or "willing"

LiveInit == Init /\ phase = "any"

Settle == /\ phase = "any"
          /\ phase' \in {"silent", "willing"}
          /\ UNCHANGED vars

\* A frame gets through in every phase but "silent".
Responds(m) == handle(m, EapFromSupplicant("Identity"))

LiveNext ==
  \/ Settle
  \/ /\ phase = "any" /\ Next /\ UNCHANGED phase
  \/ /\ phase = "silent"
     /\ \E m \in Mac : ServerStep(m) \/ AdminStep(m) \/ TimerStep(m)
     /\ UNCHANGED phase
  \/ /\ phase = "willing"
     /\ \E m \in Mac : \/ EapolStart(m) \/ Responds(m)
                       \/ ServerStep(m) \/ TimerStep(m)
     /\ UNCHANGED phase

lvars == <<vars, phase>>

\* Timers expire.  A willing supplicant sends its Start and answers when
\* asked often enough, and the server accepts if asked often enough.
LiveSpec ==
  /\ LiveInit /\ [][LiveNext]_lvars
  /\ \A m \in Mac, k \in TimerKind :
       WF_lvars(phase = "silent" /\ Expire(m, k) /\ UNCHANGED phase)
  /\ \A m \in Mac :
       /\ WF_lvars(phase = "willing" /\ EapolStart(m) /\ UNCHANGED phase)
       /\ SF_lvars(phase = "willing" /\ Responds(m) /\ UNCHANGED phase)
       /\ SF_lvars(phase = "willing" /\ UNCHANGED phase
                    /\ \E g \in Grants : Accept(m, g))
  /\ WF_lvars(Settle)

\* With periodic re-authentication on, a supplicant that falls silent loses
\* its access, whatever state the session was in and however often the
\* server is unreachable meanwhile.
SilentSessionEnds ==
  \A m \in Mac :
    (phase = "silent" /\ cfg.reauth_enabled /\ acct[m] = 1) ~> acct[m] = 0

\* No attempt hangs: a session waiting on a silent supplicant, on the server,
\* or on a hold or critical retry moves on.
NoAttemptHangs ==
  \A m \in Mac :
    \A s \in {"Connecting", "AuthServer", "Authenticating", "Held", "Critical"} :
      (phase = "silent" /\ sess[m].st = s) ~> sess[m].st # s

\* From every state the machine can have been driven into, a supplicant that
\* keeps trying, with a server that keeps accepting, gets in.
WillingSupplicantGetsIn ==
  \A m \in Mac : (phase = "willing") ~> sess[m].st = "Authenticated"
=============================================================================
