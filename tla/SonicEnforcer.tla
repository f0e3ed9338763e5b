--------------------------- MODULE SonicEnforcer ---------------------------
(***************************************************************************)
(* The SONiC backend of the Enforcer: crates/enforce-sonic (enforcer.rs,   *)
(* schema.rs, redis_conn.rs).                                              *)
(*                                                                         *)
(* The workers of all ports share one enforcer and one Redis.  A worker    *)
(* makes one call at a time; the database operations of a call are sent    *)
(* one after the other and interleave with those of other ports.  A list   *)
(* operation is a read followed by a write.  Any operation or confirmation *)
(* can fail; the error ends the worker, and the next thing a new worker    *)
(* does is bring the port into service again.                              *)
(*                                                                         *)
(* config is the set of CONFIG_DB keys the enforcer writes, acl_ports the  *)
(* `ports` list of each provisioned ACL table.                             *)
(***************************************************************************)
EXTENDS Naturals, Sequences, FiniteSets

CONSTANTS
  Ports,       \* front-panel ports in 802.1X service
  Vlans,       \* VLAN ids that is_valid_vlan accepts
  BadVlan,     \* a VLAN it does not accept: a name, 0, 4095
  Acls,        \* Filter-Ids with a provisioned ACL_TABLE
  MissingAcl,  \* a Filter-Id with none
  None

ASSUME EnforcerAssumption ==
  /\ BadVlan \notin Vlans /\ MissingAcl \notin Acls
  /\ None \notin Vlans \cup Acls \cup {BadVlan, MissingAcl}

VARIABLES
  serving,    \* ports whose worker runs
  applied,    \* SonicEnforcer.applied
  call,       \* the call each worker is in
  config,     \* CONFIG_DB keys that exist
  acl_ports   \* CONFIG_DB: ports bound to each ACL table

evars == <<serving, applied, call, config, acl_ports>>

-----------------------------------------------------------------------------
(* Schema *)

\* The posture a PortAuthorization distills to: authorized with the granted
\* VLAN and ACL, authorized on a fallback VLAN, or closed.
Closed == [authorized |-> FALSE, vlan |-> None, filter_id |-> None]

Desired ==
  {Closed} \cup [authorized : {TRUE}, vlan : Vlans \cup {None},
                 filter_id : Acls \cup {None}]

Request ==
  {Closed} \cup [authorized : {TRUE}, vlan : Vlans \cup {None, BadVlan},
                 filter_id : Acls \cup {None, MissingAcl}]

vlan_member_key(v, p) == <<"VLAN_MEMBER", p, v>>
deny_table(p) == <<"ACL_TABLE", p, None>>
deny_rule_key(p) == <<"DENY_ALL", p, None>>
eapol_permit_key(p) == <<"ALLOW_EAPOL", p, None>>
EAPOL_TRAP_KEY == <<"COPP_TRAP", None, None>>

HSet(key) == [op |-> "HSet", on |-> key]
Del(key) == [op |-> "Del", on |-> key]
ListAdd(f) == [op |-> "ListAdd", on |-> f]
ListRemove(f) == [op |-> "ListRemove", on |-> f]

plan_eapol_trap == <<HSet(EAPOL_TRAP_KEY)>>

\* Faulty variant: EAPOL is blocked before the port opens.
open_controlled_port_swapped(p) == <<Del(eapol_permit_key(p)), Del(deny_rule_key(p))>>

open_controlled_port(p) == <<Del(deny_rule_key(p)), Del(eapol_permit_key(p))>>

close_controlled_port(p) ==
  <<HSet(deny_table(p)), HSet(eapol_permit_key(p)), HSet(deny_rule_key(p))>>

Only(cond, ops) == IF cond THEN ops ELSE <<>>

\* Faulty variant: the port opens before it is in its VLAN.
transition_opens_first(p, old, new) ==
  Only(old.authorized # new.authorized,
       IF new.authorized THEN open_controlled_port(p) ELSE close_controlled_port(p))
  \o Only(old.vlan # new.vlan,
          Only(old.vlan # None, <<Del(vlan_member_key(old.vlan, p))>>)
          \o Only(new.vlan # None, <<HSet(vlan_member_key(new.vlan, p))>>))

\* The deltas, in this order: VLAN, ACL binding, controlled port.
transition(p, old, new) ==
  Only(old.vlan # new.vlan,
       Only(old.vlan # None, <<Del(vlan_member_key(old.vlan, p))>>)
       \o Only(new.vlan # None, <<HSet(vlan_member_key(new.vlan, p))>>))
  \o Only(old.filter_id # new.filter_id,
          Only(old.filter_id # None, <<ListRemove(old.filter_id)>>)
          \o Only(new.filter_id # None, <<ListAdd(new.filter_id)>>))
  \o Only(old.authorized # new.authorized,
          IF new.authorized THEN open_controlled_port(p)
                            ELSE close_controlled_port(p))

-----------------------------------------------------------------------------
(* Calls *)

\* read is the list a list operation has fetched and not yet written back.
NoCall == [new |-> Closed, ops |-> <<>>, read |-> None, busy |-> FALSE]

Begin(p, new, ops) ==
  call' = [call EXCEPT ![p] = [new |-> new, ops |-> ops, read |-> None, busy |-> TRUE]]

\* A worker starts: trap and closed port, whatever an earlier worker left.
ensure_eapol_trap(p) ==
  /\ p \notin serving /\ serving' = serving \cup {p}
  /\ Begin(p, Closed, plan_eapol_trap \o close_controlled_port(p))
  /\ UNCHANGED <<applied, config, acl_ports>>

\* Faulty variant: any VLAN is taken.
is_valid_vlan_any(v) == TRUE

is_valid_vlan(v) == v # BadVlan

Accepted(new) == is_valid_vlan(new.vlan) /\ new.filter_id # MissingAcl

apply(p, new) ==
  /\ p \in serving /\ ~call[p].busy /\ Accepted(new)
  /\ Begin(p, new, transition(p, applied[p], new))
  /\ UNCHANGED <<serving, applied, config, acl_ports>>

\* The worker ends with the error; what was written stays.
Exit(p) ==
  /\ serving' = serving \ {p}
  /\ call' = [call EXCEPT ![p] = NoCall]
  /\ UNCHANGED <<applied, config, acl_ports>>

\* A VLAN or ACL that cannot be programmed is refused before any write.
Refuse(p, new) == p \in serving /\ ~call[p].busy /\ ~Accepted(new) /\ Exit(p)

\* Redis fails, or the worker ends for a reason of its own.
Fail(p) == p \in serving /\ Exit(p)

Sending(p, op) == call[p].ops # <<>> /\ Head(call[p].ops).op = op

On(p) == Head(call[p].ops).on

Sent(p) == call' = [call EXCEPT ![p].ops = Tail(@), ![p].read = None]

SendKey(p) ==
  /\ \/ Sending(p, "HSet") /\ config' = config \cup {On(p)}
     \/ Sending(p, "Del") /\ config' = config \ {On(p)}
  /\ Sent(p)
  /\ UNCHANGED <<serving, applied, acl_ports>>

ReadList(p) ==
  /\ Sending(p, "ListAdd") \/ Sending(p, "ListRemove")
  /\ call[p].read = None
  /\ call' = [call EXCEPT ![p].read = [list |-> acl_ports[On(p)]]]
  /\ UNCHANGED <<serving, applied, config, acl_ports>>

\* The list is written back whole.
WriteList(p) ==
  /\ call[p].read # None
  /\ LET items == call[p].read.list
         written == IF Sending(p, "ListAdd") THEN items \cup {p} ELSE items \ {p}
     IN  acl_ports' = [acl_ports EXCEPT ![On(p)] = written]
  /\ Sent(p)
  /\ UNCHANGED <<serving, applied, config>>

\* What is read back: always from CONFIG_DB.
require_present(key) == key \in config
require_absent(key) == key \notin config

\* The trap, which ensure_eapol_trap reads back too, is one its own call wrote and
\* nobody deletes.
Confirmed(p, new) ==
  CASE ~new.authorized -> require_present(deny_rule_key(p))
    [] new.authorized /\ new.vlan # None ->
         require_present(vlan_member_key(new.vlan, p))
    [] OTHER -> require_absent(deny_rule_key(p))

remember(p, desired) == applied' = [applied EXCEPT ![p] = desired]

\* Faulty variant: success is remembered before the operations are sent.
Return_early(p) ==
  /\ call[p].busy
  /\ remember(p, call[p].new)
  /\ call' = [call EXCEPT ![p] = NoCall]
  /\ UNCHANGED <<serving, config, acl_ports>>

\* Success is remembered only once confirmed.
Return(p) ==
  /\ call[p].busy /\ call[p].ops = <<>> /\ Confirmed(p, call[p].new)
  /\ remember(p, call[p].new)
  /\ call' = [call EXCEPT ![p] = NoCall]
  /\ UNCHANGED <<serving, config, acl_ports>>

\* A switch that was never in 802.1X service.
EnforcerInit ==
  /\ serving = {} /\ applied = [p \in Ports |-> Closed]
  /\ call = [p \in Ports |-> NoCall]
  /\ config = {} /\ acl_ports = [f \in Acls |-> {}]

EnforcerNext ==
  \E p \in Ports :
    \/ ensure_eapol_trap(p) \/ Fail(p)
    \/ SendKey(p) \/ ReadList(p) \/ WriteList(p) \/ Return(p)
    \/ \E new \in Request : apply(p, new) \/ Refuse(p, new)

EnforcerSpec == EnforcerInit /\ [][EnforcerNext]_evars

-----------------------------------------------------------------------------
(* Safety *)

\* Every variable has its type; applied names only what can be programmed.
EnforcerTypeOK ==
  /\ serving \subseteq Ports
  /\ applied \in [Ports -> Desired]
  /\ \A p \in Ports : call[p].new \in Desired /\ call[p].busy \in BOOLEAN
  /\ acl_ports \in [Acls -> SUBSET Ports]

\* A port that drops traffic always lets EAPOL through, at every point of every
\* call and wherever a failure cut one short: it can authenticate again.
EapolNeverBlocked ==
  \A p \in Ports : deny_rule_key(p) \in config =>
    {deny_table(p), eapol_permit_key(p)} \subseteq config

\* While a closed port is being opened, it does not forward before it is in
\* the VLAN of its grant.
OpensIntoItsVlan ==
  \A p \in serving :
    /\ call[p].busy /\ ~applied[p].authorized
    /\ call[p].new.authorized /\ call[p].new.vlan # None
    /\ deny_rule_key(p) \notin config
    => vlan_member_key(call[p].new.vlan, p) \in config

\* After a call that succeeded the port forwards exactly if it was to, and is
\* in the VLAN it was to be in, whatever other ports did meanwhile.
SettledPosture ==
  \A p \in serving : ~call[p].busy =>
    /\ deny_rule_key(p) \in config <=> ~applied[p].authorized
    /\ applied[p].vlan # None => vlan_member_key(applied[p].vlan, p) \in config

=============================================================================
