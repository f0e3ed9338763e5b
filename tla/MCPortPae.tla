----------------------------- MODULE MCPortPae -----------------------------
(* Instances of PortPae, and what the repository says of the session machine *)
(* where the code differs.                                                  *)
EXTENDS PortPae, TLC

\* Every port policy, with prompt budgets 0 (a configuration mistake the type
\* allows), 1 and 2, on a single-session port.
AllPolicies ==
  [host_mode : {"SingleHost", "MultiHost"}, max_reauth_req : {0, 1, 2},
   reauth_enabled : BOOLEAN, mab_enabled : BOOLEAN, guest_vlan : BOOLEAN,
   auth_fail_vlan : BOOLEAN, critical_vlan : BOOLEAN]

\* Every host mode with every way out of an attempt available.
AllHostModes ==
  [host_mode : HostMode, max_reauth_req : {1}, reauth_enabled : {TRUE},
   mab_enabled : {FALSE}, guest_vlan : {TRUE}, auth_fail_vlan : {FALSE},
   critical_vlan : {TRUE}]

AllPorts == AllPolicies \cup AllHostModes

\* Every policy of a single-host port, with a budget of two prompts.
LivePolicies ==
  {c \in AllPolicies : c.host_mode = "SingleHost" /\ c.max_reauth_req = 2}

\* 802.1X alone, with and without periodic re-authentication.
Dot1xOnly ==
  {c \in AllPolicies : /\ c.host_mode = "SingleHost" /\ c.max_reauth_req = 1
                       /\ ~c.mab_enabled /\ ~c.guest_vlan
                       /\ ~c.auth_fail_vlan /\ ~c.critical_vlan}

MacSymmetry == Permutations(Mac)

-----------------------------------------------------------------------------

\* "Session-Timeout means full de-auth" (crates/pae/src/session.rs:228): while
\* the port is open and settled under a grant with a Session-Timeout, the
\* timer that will end the session is armed.
SessionTimeoutPending ==
  \A m \in Mac : sess[m].st = "Authenticated" /\ sess[m].authz \in Timed
                   => "SessionTimeout" \in timers[m]
=============================================================================
