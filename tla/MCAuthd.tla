------------------------------ MODULE MCAuthd ------------------------------
(* Instances of Authd, and what the repository says of the daemon where the *)
(* code differs.                                                            *)
EXTENDS Authd, TLC

DaemonPolicy(mode, mab, guest, critical, reauth) ==
  [host_mode |-> mode, max_reauth_req |-> 1, reauth_enabled |-> reauth,
   mab_enabled |-> mab, guest_vlan |-> guest, auth_fail_vlan |-> FALSE,
   critical_vlan |-> critical]

\* One supplicant: 802.1X with re-authentication, and MAB without.
OneHost ==
  {DaemonPolicy("SingleHost", FALSE, FALSE, FALSE, TRUE),
   DaemonPolicy("MultiHost", TRUE, FALSE, FALSE, FALSE)}

\* Two supplicants that the port serves independently, or one at a time.
TwoHosts ==
  {DaemonPolicy(mode, FALSE, TRUE, FALSE, FALSE) : mode \in {"MultiAuth", "MultiHost"}}

CriticalPort == {DaemonPolicy("MultiAuth", FALSE, FALSE, TRUE, TRUE)}

DaemonSymmetry == Permutations(Mac)

-----------------------------------------------------------------------------

\* "any unhandled/malformed input, enforcement failure, or FIPS/RadSec failure
\* => port stays/returns unauthorized" (DESIGN.md:128): when one of these ends
\* the worker, it does not leave the port open.
FailureCloses ==
  status \in {"identity", "server", "accounting"} =>
    \A t \in Targets : dataplane[t].mode # "Authorized"

\* "all configured RADIUS servers unreachable => port placed in a critical-auth
\* VLAN" (DESIGN.md:146), on a port that is not open and has that VLAN.
OutageGetsCritical ==
  status = "server" /\ cfg.critical_vlan =>
    \E t \in Targets : dataplane[t].mode # "Unauthorized"

\* "`state` is the `State` attribute from the preceding `Access-Challenge`,
\* [...] `None` on the first request" (crates/radius-client/src/request.rs:16):
\* a Response to the identity prompt opens a conversation, so no State is kept
\* when its Access-Request is about to be built.
FirstRequestHasNoState ==
  /\ status = "up" /\ Len(job.fx) >= 2
  /\ job.fx[1] = [do |-> "CancelTimer", arg |-> "TxPeriod"]
  /\ job.fx[2].do = "ToAuthServer"
  => ~orch[job.mac].last_state
=============================================================================
