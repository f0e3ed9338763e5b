--------------------------- MODULE ControlledPort ---------------------------
(***************************************************************************)
(* What a port under 802.1X promises to the network behind it, with no     *)
(* word about EAP, RADIUS, timers or retries: access opens together with   *)
(* an accounting record, changes only while that record is open, closes    *)
(* together with it, and a fallback VLAN is given only to a client that    *)
(* has no open record.  PortPae implements this specification.             *)
(***************************************************************************)
EXTENDS Integers, FiniteSets

CONSTANTS Client, Port, Grants, NoGrant

VARIABLES
  mode,     \* the host mode
  access,   \* posture of each client and of the whole port
  billed    \* open accounting records, per client

vars == <<mode, access, billed>>

Target(m) == IF mode = "MultiHost" THEN Port ELSE m

Room ==
  LET n == Cardinality({m \in Client : billed[m] = 1})
  IN  CASE mode \in {"SingleHost", "MultiHost"} -> n = 0
        [] mode = "MultiDomain" -> n < 2
        [] OTHER -> TRUE

Closed == [mode |-> "Unauthorized", via |-> NoGrant]

Init ==
  /\ mode \in {"SingleHost", "MultiDomain", "MultiAuth", "MultiHost"}
  /\ access = [t \in Client \cup {Port} |-> Closed]
  /\ billed = [m \in Client |-> 0]

Open(m, g) ==
  /\ billed[m] = 0 /\ Room
  /\ access[Target(m)].mode # "Authorized"
  /\ access' = [access EXCEPT ![Target(m)] = [mode |-> "Authorized", via |-> g]]
  /\ billed' = [billed EXCEPT ![m] = 1]
  /\ UNCHANGED mode

Change(m, g) ==
  /\ billed[m] = 1
  /\ access' = [access EXCEPT ![Target(m)] = [mode |-> "Authorized", via |-> g]]
  /\ UNCHANGED <<mode, billed>>

FallBack(m, r) ==
  /\ billed[m] = 0
  /\ access[Target(m)].mode # "Authorized"
  /\ access' = [access EXCEPT ![Target(m)] = [mode |-> "Fallback", via |-> r]]
  /\ UNCHANGED <<mode, billed>>

\* Access and record end in one step.
Close(m) ==
  /\ access[Target(m)].mode = "Authorized" => billed[m] = 1
  /\ access' = [access EXCEPT ![Target(m)] = Closed]
  /\ billed' = [billed EXCEPT ![m] = 0]
  /\ UNCHANGED mode

CloseAll ==
  /\ access' = [t \in Client \cup {Port} |-> Closed]
  /\ billed' = [m \in Client |-> 0]
  /\ UNCHANGED mode

Next ==
  \/ \E m \in Client :
       \/ \E g \in Grants : Open(m, g) \/ Change(m, g)
       \/ \E r \in {"Guest", "AuthFail", "Critical"} : FallBack(m, r)
       \/ Close(m)
  \/ CloseAll

Spec == Init /\ [][Next]_vars
=============================================================================
