------------------------ MODULE SonicEnforcerProofs ------------------------
(***************************************************************************)
(* The invariants of SonicEnforcer, for any number of ports, VLANs and     *)
(* ACLs.  None of them is inductive: what a port's keys will be depends on *)
(* the operations its call has still to send.  CallOK says which keys      *)
(* those operations leave, and in which order they reach them; ports do    *)
(* not disturb one another because every key a call writes names its port  *)
(* or is the trap they share.                                              *)
(***************************************************************************)
EXTENDS SonicEnforcer, TLAPS

-----------------------------------------------------------------------------
(* The inductive invariant *)

\* The keys and operations of the calls for p.
Member(p) == {vlan_member_key(v, p) : v \in Vlans}
Keys(p) == {EAPOL_TRAP_KEY, deny_table(p), deny_rule_key(p), eapol_permit_key(p)}
             \cup Member(p)
Ops(p) == [op : {"HSet", "Del"}, on : Keys(p)]
            \cup [op : {"ListAdd", "ListRemove"}, on : Acls]

Op == UNION {Ops(p) : p \in Ports}

Call == [new : Desired, ops : Seq(Op), read : {None} \cup [list : SUBSET Ports],
         busy : BOOLEAN]

TypeInv ==
  /\ serving \subseteq Ports
  /\ applied \in [Ports -> Desired]
  /\ call \in [Ports -> Call]
  /\ acl_ports \in [Acls -> SUBSET Ports]

\* Key k exists, or does not, once the operations before the i-th are sent.
PresentBy(ops, db, i, k) == k \in db \/ \E j \in 1..(i - 1) : ops[j] = HSet(k)
AbsentBy(ops, db, i, k) == k \notin db \/ \E j \in 1..(i - 1) : ops[j] = Del(k)

Lacks(ops, op) == \A i \in DOMAIN ops : ops[i] # op

\* EAPOL is let through before the port is closed and until it is open.
EapolOrder(p, ops, db) ==
  /\ Lacks(ops, Del(deny_table(p)))
  /\ \A i \in DOMAIN ops :
       /\ ops[i] = Del(eapol_permit_key(p)) => AbsentBy(ops, db, i, deny_rule_key(p))
       /\ ops[i] = HSet(deny_rule_key(p)) =>
            /\ PresentBy(ops, db, i, deny_table(p))
            /\ PresentBy(ops, db, i, eapol_permit_key(p))

\* What the call leaves behind when all of it is sent.
Reaches(p, new, ops, db) ==
  LET end == Len(ops) + 1
  IN  /\ new.authorized => /\ Lacks(ops, HSet(deny_rule_key(p)))
                           /\ AbsentBy(ops, db, end, deny_rule_key(p))
      /\ ~new.authorized => /\ Lacks(ops, Del(deny_rule_key(p)))
                            /\ Lacks(ops, Del(eapol_permit_key(p)))
                            /\ PresentBy(ops, db, end, deny_rule_key(p))
      /\ new.vlan # None => /\ Lacks(ops, Del(vlan_member_key(new.vlan, p)))
                            /\ PresentBy(ops, db, end, vlan_member_key(new.vlan, p))

\* The port joins its VLAN before it opens.
VlanOrder(p, new, ops, db) ==
  new.vlan # None =>
    \A i \in DOMAIN ops : ops[i] = Del(deny_rule_key(p)) =>
      PresentBy(ops, db, i, vlan_member_key(new.vlan, p))

\* The operations are those of p; a list that was read is about to be written.
Sane(p, c) ==
  /\ \A i \in DOMAIN c.ops : c.ops[i] \in Ops(p)
  /\ c.read # None => c.ops # <<>> /\ c.ops[1].op \in {"ListAdd", "ListRemove"}
  /\ ~c.busy => c.ops = <<>>

\* Port p among the serving ports srv, with the posture a, in the call c.
Good(p, srv, a, c, db) ==
  /\ Sane(p, c)
  /\ EapolOrder(p, c.ops, db)
  /\ c.busy => /\ Reaches(p, c.new, c.ops, db)
               /\ VlanOrder(p, c.new, c.ops, db)
  /\ deny_rule_key(p) \in db => deny_table(p) \in db /\ eapol_permit_key(p) \in db
  /\ (/\ p \in srv /\ c.busy /\ ~a.authorized
      /\ c.new.authorized /\ c.new.vlan # None /\ deny_rule_key(p) \notin db)
     => vlan_member_key(c.new.vlan, p) \in db
  /\ p \in srv /\ ~c.busy =>
       /\ deny_rule_key(p) \in db <=> ~a.authorized
       /\ a.vlan # None => vlan_member_key(a.vlan, p) \in db

EInv ==
  /\ TypeInv
  /\ \A p \in Ports : Good(p, serving, applied[p], call[p], config)

-----------------------------------------------------------------------------
(* Keys and operations *)

\* The keys that only the calls for p write.
Private(p) == {deny_table(p), deny_rule_key(p), eapol_permit_key(p)} \cup Member(p)

\* No call for another port writes them.
LEMMA PrivateKeys ==
  ASSUME NEW p, NEW q, p # q, NEW k \in Private(p)
  PROVE  k \notin Keys(q)
  BY DEF Private, Keys, Member, deny_table, deny_rule_key, eapol_permit_key,
         vlan_member_key, EAPOL_TRAP_KEY

\* The keys of one port differ.
LEMMA KeysDiffer ==
  ASSUME NEW p, NEW v, NEW w
  PROVE  /\ deny_table(p) # deny_rule_key(p) /\ deny_table(p) # eapol_permit_key(p)
         /\ deny_rule_key(p) # eapol_permit_key(p)
         /\ vlan_member_key(v, p) # deny_table(p)
         /\ vlan_member_key(v, p) # deny_rule_key(p)
         /\ vlan_member_key(v, p) # eapol_permit_key(p)
         /\ EAPOL_TRAP_KEY # deny_table(p) /\ EAPOL_TRAP_KEY # deny_rule_key(p)
         /\ EAPOL_TRAP_KEY # eapol_permit_key(p)
         /\ EAPOL_TRAP_KEY # vlan_member_key(v, p)
         /\ v # w => vlan_member_key(v, p) # vlan_member_key(w, p)
  BY DEF deny_table, deny_rule_key, eapol_permit_key, vlan_member_key,
         EAPOL_TRAP_KEY

\* The operations are told apart by what they do and what they do it to.
LEMMA OpsDiffer ==
  /\ \A k, l : HSet(k) # Del(l)
  /\ \A k, l : HSet(k) = HSet(l) => k = l
  /\ \A k, l : Del(k) = Del(l) => k = l
  /\ \A k, f : HSet(k) # ListAdd(f) /\ HSet(k) # ListRemove(f)
  /\ \A k, f : Del(k) # ListAdd(f) /\ Del(k) # ListRemove(f)
  /\ \A k : HSet(k).op = "HSet" /\ HSet(k).on = k
  /\ \A k : Del(k).op = "Del" /\ Del(k).on = k
<1>1. /\ \A k : HSet(k).op = "HSet" /\ HSet(k).on = k
      /\ \A k : Del(k).op = "Del" /\ Del(k).on = k
      /\ \A f : ListAdd(f).op = "ListAdd" /\ ListRemove(f).op = "ListRemove"
  BY DEF HSet, Del, ListAdd, ListRemove
<1>2. /\ \A k, l : HSet(k) = HSet(l) => k = l
      /\ \A k, l : Del(k) = Del(l) => k = l
  BY <1>1
<1>3. "HSet" # "Del" /\ "HSet" # "ListAdd" /\ "HSet" # "ListRemove"
      /\ "Del" # "ListAdd" /\ "Del" # "ListRemove"
  OBVIOUS
<1> QED BY <1>1, <1>2, <1>3

\* An operation on a key is HSet or Del of it.
LEMMA KeyOps ==
  ASSUME NEW p, NEW o \in Ops(p)
  PROVE  /\ o.op = "HSet" => o = HSet(o.on) /\ o.on \in Keys(p)
         /\ o.op = "Del" => o = Del(o.on) /\ o.on \in Keys(p)
         /\ o.op \in {"ListAdd", "ListRemove"} => o.on \in Acls
  BY DEF Ops, HSet, Del

\* What a posture that can be programmed consists of.
LEMMA DesiredFields ==
  ASSUME NEW d \in Desired
  PROVE  /\ d.vlan # None => d.vlan \in Vlans
         /\ d.filter_id # None => d.filter_id \in Acls
         /\ d.authorized \in BOOLEAN
         /\ ~d.authorized => d = Closed /\ d.vlan = None /\ d.filter_id = None
<1>1. CASE d = Closed
  BY <1>1 DEF Closed
<1>2. CASE d \in [authorized : {TRUE}, vlan : Vlans \cup {None},
                  filter_id : Acls \cup {None}]
  BY <1>2
<1> QED BY <1>1, <1>2 DEF Desired

\* What one operation makes of the key space.
Sends(o, db, db2) ==
  \/ \E k : o = HSet(k) /\ db2 = db \cup {k}
  \/ \E k : o = Del(k) /\ db2 = db \ {k}
  \/ o.op \in {"ListAdd", "ListRemove"} /\ db2 = db

\* Once its first operation is sent, a call still brings key k about, unless
\* that operation took k away.
LEMMA SentPresent ==
  ASSUME NEW S, NEW ops \in Seq(S), ops # <<>>, NEW db, NEW db2, NEW k,
         Sends(ops[1], db, db2), ops[1] # Del(k),
         NEW i \in 1..Len(ops), PresentBy(ops, db, i + 1, k)
  PROVE  PresentBy(Tail(ops), db2, i, k)
<1>1. CASE k \in db
  BY <1>1 DEF Sends, PresentBy
<1>2. ASSUME NEW j \in 1..i, ops[j] = HSet(k), ops[j] = ops[1] PROVE k \in db2
  BY <1>2, OpsDiffer DEF Sends
<1>3. ASSUME NEW j \in 1..i, ops[j] = HSet(k), j # 1
      PROVE  PresentBy(Tail(ops), db2, i, k)
  <2>1. j - 1 \in 1..(i - 1) /\ Tail(ops)[j - 1] = ops[j]
    BY <1>3
  <2> QED BY <1>3, <2>1 DEF PresentBy
<1> QED BY <1>1, <1>2, <1>3 DEF PresentBy

\* The same of a key that the call takes away.
LEMMA SentAbsent ==
  ASSUME NEW S, NEW ops \in Seq(S), ops # <<>>, NEW db, NEW db2, NEW k,
         Sends(ops[1], db, db2), ops[1] # HSet(k),
         NEW i \in 1..Len(ops), AbsentBy(ops, db, i + 1, k)
  PROVE  AbsentBy(Tail(ops), db2, i, k)
<1>1. CASE k \notin db
  BY <1>1 DEF Sends, AbsentBy
<1>2. ASSUME NEW j \in 1..i, ops[j] = Del(k), ops[j] = ops[1] PROVE k \notin db2
  BY <1>2, OpsDiffer DEF Sends
<1>3. ASSUME NEW j \in 1..i, ops[j] = Del(k), j # 1
      PROVE  AbsentBy(Tail(ops), db2, i, k)
  <2>1. j - 1 \in 1..(i - 1) /\ Tail(ops)[j - 1] = ops[j]
    BY <1>3
  <2> QED BY <1>3, <2>1 DEF AbsentBy
<1> QED BY <1>1, <1>2, <1>3 DEF AbsentBy

-----------------------------------------------------------------------------
(* Steps of one port *)

\* A port keeps its invariant when nothing of its own changes.
LEMMA GoodElsewhere ==
  ASSUME NEW p, NEW srv, NEW srv2, NEW a \in Desired, NEW c \in Call, NEW db, NEW db2,
         Good(p, srv, a, c, db), p \in srv2 <=> p \in srv,
         \A k \in Private(p) : k \in db2 <=> k \in db
  PROVE  Good(p, srv2, a, c, db2)
<1>1. /\ deny_table(p) \in db2 <=> deny_table(p) \in db
      /\ deny_rule_key(p) \in db2 <=> deny_rule_key(p) \in db
      /\ eapol_permit_key(p) \in db2 <=> eapol_permit_key(p) \in db
      /\ \A v \in Vlans : vlan_member_key(v, p) \in db2 <=> vlan_member_key(v, p) \in db
  BY DEF Private, Member
<1>2. /\ c.new.vlan # None => c.new.vlan \in Vlans
      /\ a.vlan # None => a.vlan \in Vlans
  BY DesiredFields DEF Call
<1>3. EapolOrder(p, c.ops, db2)
  BY <1>1 DEF Good, EapolOrder, PresentBy, AbsentBy
<1>4. c.busy => Reaches(p, c.new, c.ops, db2) /\ VlanOrder(p, c.new, c.ops, db2)
  BY <1>1, <1>2 DEF Good, Reaches, VlanOrder, PresentBy, AbsentBy
<1> QED BY <1>1, <1>2, <1>3, <1>4 DEF Good

\* A port keeps its invariant when the next operation of its call is sent.
LEMMA GoodSend ==
  ASSUME NEW p, NEW srv, NEW a, NEW c \in Call, NEW d \in Call, NEW db, NEW db2,
         Good(p, srv, a, c, db), c.ops # <<>>, Sends(c.ops[1], db, db2),
         d.new = c.new, d.busy = c.busy, d.ops = Tail(c.ops), d.read = None
  PROVE  Good(p, srv, a, d, db2)
<1> DEFINE ops == c.ops
           D == deny_rule_key(p)
           P == eapol_permit_key(p)
           T == deny_table(p)
           M == vlan_member_key(c.new.vlan, p)
<1>1. /\ ops \in Seq(Op) /\ Len(ops) \in Nat \ {0} /\ 1 \in DOMAIN ops
      /\ Len(Tail(ops)) = Len(ops) - 1
      /\ DOMAIN ops = 1..Len(ops) /\ DOMAIN Tail(ops) = 1..(Len(ops) - 1)
      /\ \A i \in DOMAIN Tail(ops) :
           /\ i \in 1..Len(ops) /\ i + 1 \in DOMAIN ops /\ Tail(ops)[i] = ops[i + 1]
  BY DEF Call
<1>2. c.busy
  BY DEF Good, Sane
<1>3. /\ Reaches(p, c.new, ops, db) /\ VlanOrder(p, c.new, ops, db)
      /\ EapolOrder(p, ops, db)
      /\ D \in db => T \in db /\ P \in db
  BY <1>2 DEF Good
<1>4. c.new.authorized \in BOOLEAN
  BY DesiredFields DEF Call
<1>5. Sane(p, d)
  BY <1>1, <1>2 DEF Good, Sane
<1> HIDE DEF ops, D, P, T, M
<1>6. \A i \in DOMAIN ops : /\ ops[i] = HSet(D) => ~c.new.authorized
                            /\ ops[i] = Del(D) => c.new.authorized
                            /\ ops[i] = Del(P) => c.new.authorized
                            /\ ops[i] # Del(T)
                            /\ c.new.vlan # None => ops[i] # Del(M)
  BY <1>3, <1>4 DEF Reaches, EapolOrder, Lacks, D, P, T, M
<1>7. \A i \in DOMAIN Tail(ops) :
        /\ Tail(ops)[i] = HSet(D) => ~c.new.authorized
        /\ Tail(ops)[i] = Del(D) => c.new.authorized
        /\ Tail(ops)[i] = Del(P) => c.new.authorized
        /\ Tail(ops)[i] # Del(T)
        /\ c.new.vlan # None => Tail(ops)[i] # Del(M)
  BY <1>1, <1>6
<1>8. EapolOrder(p, d.ops, db2)
  <2>1. ASSUME NEW i \in DOMAIN Tail(ops), Tail(ops)[i] = Del(P)
        PROVE  AbsentBy(Tail(ops), db2, i, D)
    <3>1. AbsentBy(ops, db, i + 1, D)
      BY <1>1, <1>3, <2>1 DEF EapolOrder, D, P
    <3>2. ops[1] # HSet(D)
      BY <1>1, <1>6, <1>7, <2>1
    <3> QED BY <1>1, <3>1, <3>2, SentAbsent DEF ops
  <2>2. ASSUME NEW i \in DOMAIN Tail(ops), Tail(ops)[i] = HSet(D)
        PROVE  PresentBy(Tail(ops), db2, i, T) /\ PresentBy(Tail(ops), db2, i, P)
    <3>1. PresentBy(ops, db, i + 1, T) /\ PresentBy(ops, db, i + 1, P)
      BY <1>1, <1>3, <2>2 DEF EapolOrder, D, P, T
    <3>2. ops[1] # Del(T) /\ ops[1] # Del(P)
      BY <1>1, <1>6, <1>7, <2>2
    <3> QED BY <1>1, <3>1, <3>2, SentPresent DEF ops
  <2> QED BY <1>7, <2>1, <2>2 DEF EapolOrder, Lacks, ops, D, P, T
<1>9. Reaches(p, d.new, d.ops, db2)
  <2> DEFINE n == Len(ops)
  <2>0. n \in 1..Len(ops) /\ Len(Tail(ops)) + 1 = n
    BY <1>1
  <2>1. ASSUME c.new.authorized PROVE AbsentBy(Tail(ops), db2, n, D)
    <3>1. AbsentBy(ops, db, n + 1, D) /\ ops[1] # HSet(D)
      BY <1>1, <1>3, <1>6, <2>1 DEF Reaches, D, ops
    <3> QED BY <1>1, <2>0, <3>1, SentAbsent DEF ops
  <2>2. ASSUME ~c.new.authorized PROVE PresentBy(Tail(ops), db2, n, D)
    <3>1. PresentBy(ops, db, n + 1, D) /\ ops[1] # Del(D)
      BY <1>1, <1>3, <1>6, <2>2 DEF Reaches, D, ops
    <3> QED BY <1>1, <2>0, <3>1, SentPresent DEF ops
  <2>3. ASSUME c.new.vlan # None PROVE PresentBy(Tail(ops), db2, n, M)
    <3>1. PresentBy(ops, db, n + 1, M) /\ ops[1] # Del(M)
      BY <1>1, <1>3, <1>6, <2>3 DEF Reaches, M, ops
    <3> QED BY <1>1, <2>0, <3>1, SentPresent DEF ops
  <2> QED BY <1>4, <1>7, <2>0, <2>1, <2>2, <2>3 DEF Reaches, Lacks, ops, D, P, M
<1>10. VlanOrder(p, d.new, d.ops, db2)
  <2>1. ASSUME NEW i \in DOMAIN Tail(ops), Tail(ops)[i] = Del(D), c.new.vlan # None
        PROVE  PresentBy(Tail(ops), db2, i, M)
    <3>1. PresentBy(ops, db, i + 1, M) /\ ops[1] # Del(M)
      BY <1>1, <1>3, <1>6, <2>1 DEF VlanOrder, D, M
    <3> QED BY <1>1, <3>1, SentPresent DEF ops
  <2> QED BY <2>1 DEF VlanOrder, ops, D, M
<1>11. D \in db2 => T \in db2 /\ P \in db2
  <2>1. CASE D \in db2 /\ D \notin db
    <3>1. ops[1] = HSet(D)
      BY <2>1 DEF Sends, ops
    <3>2. T \in db /\ P \in db
      BY <1>1, <1>3, <3>1 DEF EapolOrder, PresentBy, T, P, D
    <3> QED BY <3>1, <3>2, OpsDiffer DEF Sends, ops
  <2>2. CASE D \in db2 /\ D \in db
    <3>1. ops[1] # Del(T)
      BY <1>1, <1>6
    <3>2. ops[1] # Del(P)
      BY <1>1, <1>3, <2>2 DEF EapolOrder, AbsentBy, P, D
    <3> QED BY <1>3, <2>2, <3>1, <3>2 DEF Sends, ops
  <2> QED BY <2>1, <2>2
<1>12. ASSUME p \in srv, ~a.authorized, c.new.authorized, c.new.vlan # None, D \notin db2
       PROVE  M \in db2
  <2>1. ops[1] # Del(M)
    BY <1>1, <1>6, <1>12
  <2>2. M \in db
    <3>1. CASE D \notin db
      BY <1>2, <1>12, <3>1 DEF Good, D, M
    <3>2. CASE D \in db
      <4>1. ops[1] = Del(D)
        BY <1>12, <3>2 DEF Sends, ops
      <4> QED BY <1>1, <1>3, <1>12, <4>1 DEF VlanOrder, PresentBy, D, M
    <3> QED BY <3>1, <3>2
  <2> QED BY <2>1, <2>2 DEF Sends, ops
<1> QED BY <1>2, <1>5, <1>8, <1>9, <1>10, <1>11, <1>12 DEF Good, D, P, T, M

-----------------------------------------------------------------------------
(* The operations of a call *)

\* The three parts of a transition.
VlanOps(p, old, new) ==
  Only(old.vlan # new.vlan,
       Only(old.vlan # None, <<Del(vlan_member_key(old.vlan, p))>>)
       \o Only(new.vlan # None, <<HSet(vlan_member_key(new.vlan, p))>>))
AclOps(old, new) ==
  Only(old.filter_id # new.filter_id,
       Only(old.filter_id # None, <<ListRemove(old.filter_id)>>)
       \o Only(new.filter_id # None, <<ListAdd(new.filter_id)>>))
PortOps(p, old, new) ==
  Only(old.authorized # new.authorized,
       IF new.authorized THEN open_controlled_port(p) ELSE close_controlled_port(p))

\* Each constructor builds an operation of p.
LEMMA OpTypes ==
  ASSUME NEW p
  PROVE  /\ \A k \in Keys(p) : HSet(k) \in Ops(p) /\ Del(k) \in Ops(p)
         /\ \A f \in Acls : ListAdd(f) \in Ops(p) /\ ListRemove(f) \in Ops(p)
         /\ \A v \in Vlans : vlan_member_key(v, p) \in Keys(p)
         /\ {EAPOL_TRAP_KEY, deny_table(p), deny_rule_key(p), eapol_permit_key(p)}
              \subseteq Keys(p)
  BY DEF Ops, Keys, Member, HSet, Del, ListAdd, ListRemove

\* The elements of a concatenation.
Joined(S, s, t) ==
  /\ s \o t \in Seq(S) /\ Len(s \o t) = Len(s) + Len(t)
  /\ Len(s) \in Nat /\ Len(t) \in Nat
  /\ \A i \in 1..Len(s) : (s \o t)[i] = s[i]
  /\ \A i \in 1..Len(t) : (s \o t)[Len(s) + i] = t[i]

\* Sequences are joined end to end.
LEMMA Concat ==
  ASSUME NEW S, NEW s \in Seq(S), NEW t \in Seq(S)
  PROVE  Joined(S, s, t)
  BY DEF Joined

\* An index of a concatenation belongs to one of its two parts.
LEMMA Index ==
  ASSUME NEW m \in Nat, NEW n \in Nat, NEW i \in 1..(m + n)
  PROVE  i \in 1..m \/ \E j \in 1..n : i = m + j
<1>1. i \in 1..m \/ (i - m \in 1..n /\ i = m + (i - m))
  OBVIOUS
<1> QED BY <1>1

\* Two one-element sequences make a pair.
LEMMA Pair ==
  ASSUME NEW S, NEW x \in S, NEW y \in S
  PROVE  LET z == <<x>> \o <<y>>
         IN  z \in Seq(S) /\ Len(z) = 2 /\ z[1] = x /\ z[2] = y
<1> DEFINE u == <<x>>
           w == <<y>>
<1>0. u \in Seq(S) /\ w \in Seq(S)
  OBVIOUS
<1>1. Len(u) = 1 /\ Len(w) = 1 /\ u[1] = x /\ w[1] = y
  OBVIOUS
<1> HIDE DEF u, w
<1>2. Joined(S, u, w)
  BY <1>0, Concat
<1>3. u \o w \in Seq(S) /\ Len(u \o w) = 2 /\ (u \o w)[1] = x /\ (u \o w)[2] = y
  BY <1>1, <1>2 DEF Joined
<1> QED BY <1>3 DEF u, w

\* The VLAN part takes the port out of its old VLAN and into the new one.
LEMMA VlanOpsOK ==
  ASSUME NEW p, NEW old \in Desired, NEW new \in Desired
  PROVE  LET V == VlanOps(p, old, new)
             out == Del(vlan_member_key(old.vlan, p))
             in == HSet(vlan_member_key(new.vlan, p))
         IN  /\ V \in Seq(Ops(p))
             /\ \A i \in 1..Len(V) :
                  \/ V[i] = out /\ old.vlan # None /\ old.vlan # new.vlan
                  \/ V[i] = in /\ new.vlan # None
             /\ old.vlan # new.vlan /\ new.vlan # None =>
                  \E i \in 1..Len(V) : V[i] = in
<1> DEFINE V == VlanOps(p, old, new)
           out == Del(vlan_member_key(old.vlan, p))
           in == HSet(vlan_member_key(new.vlan, p))
<1>1. /\ old.vlan # None => out \in Ops(p)
      /\ new.vlan # None => in \in Ops(p)
  BY OpTypes, DesiredFields
<1>2. V = Only(old.vlan # new.vlan, Only(old.vlan # None, <<out>>)
                                    \o Only(new.vlan # None, <<in>>))
  BY DEF VlanOps
<1> HIDE DEF V, out, in
<1>3. CASE old.vlan = new.vlan
  <2>1. V = <<>>
    BY <1>2, <1>3 DEF Only
  <2> QED BY <1>3, <2>1 DEF V, out, in
<1>4. CASE old.vlan # new.vlan /\ old.vlan = None
  <2>1. V = <<in>>
    BY <1>2, <1>4 DEF Only
  <2> QED BY <1>1, <1>4, <2>1 DEF V, out, in
<1>5. CASE old.vlan # new.vlan /\ old.vlan # None /\ new.vlan = None
  <2>1. V = <<out>>
    BY <1>2, <1>5 DEF Only
  <2> QED BY <1>1, <1>5, <2>1 DEF V, out, in
<1>6. CASE old.vlan # new.vlan /\ old.vlan # None /\ new.vlan # None
  <2>1. V = <<out>> \o <<in>>
    BY <1>2, <1>6 DEF Only
  <2>2. V \in Seq(Ops(p)) /\ Len(V) = 2 /\ V[1] = out /\ V[2] = in
    BY <1>1, <1>6, <2>1, Pair
  <2> QED BY <1>6, <2>2 DEF V, out, in
<1> QED BY <1>3, <1>4, <1>5, <1>6

\* The ACL part touches lists only.
LEMMA AclOpsOK ==
  ASSUME NEW p, NEW old \in Desired, NEW new \in Desired
  PROVE  LET A == AclOps(old, new)
         IN  /\ A \in Seq(Ops(p))
             /\ \A i \in 1..Len(A) : A[i].op \in {"ListAdd", "ListRemove"}
<1> DEFINE A == AclOps(old, new)
           out == ListRemove(old.filter_id)
           in == ListAdd(new.filter_id)
<1>1. /\ old.filter_id # None => out \in Ops(p)
      /\ new.filter_id # None => in \in Ops(p)
      /\ out.op = "ListRemove" /\ in.op = "ListAdd"
  BY OpTypes, DesiredFields DEF ListAdd, ListRemove
<1>2. A = Only(old.filter_id # new.filter_id, Only(old.filter_id # None, <<out>>)
                                              \o Only(new.filter_id # None, <<in>>))
  BY DEF AclOps
<1> HIDE DEF A, out, in
<1>3. CASE old.filter_id = new.filter_id
  <2>1. A = <<>>
    BY <1>2, <1>3 DEF Only
  <2> QED BY <2>1 DEF A
<1>4. CASE old.filter_id # new.filter_id /\ old.filter_id = None
  <2>1. A = <<in>> /\ in \in Ops(p)
    BY <1>1, <1>2, <1>4 DEF Only
  <2> QED BY <1>1, <2>1 DEF A
<1>5. CASE old.filter_id # new.filter_id /\ old.filter_id # None /\ new.filter_id = None
  <2>1. A = <<out>> /\ out \in Ops(p)
    BY <1>1, <1>2, <1>5 DEF Only
  <2> QED BY <1>1, <2>1 DEF A
<1>6. CASE old.filter_id # new.filter_id /\ old.filter_id # None /\ new.filter_id # None
  <2>1. A = <<out>> \o <<in>> /\ in \in Ops(p) /\ out \in Ops(p)
    BY <1>1, <1>2, <1>6 DEF Only
  <2>2. A \in Seq(Ops(p)) /\ Len(A) = 2 /\ A[1] = out /\ A[2] = in
    BY <2>1, Pair
  <2> QED BY <1>1, <2>2 DEF A
<1> QED BY <1>3, <1>4, <1>5, <1>6

\* ops first moves VLANs and ACLs, in n operations, then the controlled port.
Shaped(p, old, new, ops, n) ==
  LET C == PortOps(p, old, new)
  IN  /\ ops \in Seq(Ops(p)) /\ Len(ops) = n + Len(C) /\ C \in Seq(Ops(p))
      /\ \A i \in 1..Len(ops) : i \in 1..n \/ \E j \in 1..Len(C) : i = n + j
      /\ \A j \in 1..Len(C) : ops[n + j] = C[j]
      /\ \A i \in 1..n :
           \/ /\ ops[i] = Del(vlan_member_key(old.vlan, p))
              /\ old.vlan # None /\ old.vlan # new.vlan
           \/ ops[i] = HSet(vlan_member_key(new.vlan, p)) /\ new.vlan # None
           \/ ops[i].op \in {"ListAdd", "ListRemove"}
      /\ old.vlan # new.vlan /\ new.vlan # None =>
           \E i \in 1..n : ops[i] = HSet(vlan_member_key(new.vlan, p))

\* A transition has this shape.
LEMMA TransitionShape ==
  ASSUME NEW p, NEW old \in Desired, NEW new \in Desired
  PROVE  \E n \in Nat : Shaped(p, old, new, transition(p, old, new), n)
<1> DEFINE V == VlanOps(p, old, new)
           A == AclOps(old, new)
           C == PortOps(p, old, new)
           s == V \o A
           ops == transition(p, old, new)
           n == Len(s)
           out == Del(vlan_member_key(old.vlan, p))
           in == HSet(vlan_member_key(new.vlan, p))
<1>1. ops = s \o C
  BY DEF transition, VlanOps, AclOps, PortOps
<1>2. /\ V \in Seq(Ops(p))
      /\ \A i \in 1..Len(V) : \/ V[i] = out /\ old.vlan # None /\ old.vlan # new.vlan
                              \/ V[i] = in /\ new.vlan # None
      /\ old.vlan # new.vlan /\ new.vlan # None => \E i \in 1..Len(V) : V[i] = in
  BY VlanOpsOK
<1>3. A \in Seq(Ops(p)) /\ \A i \in 1..Len(A) : A[i].op \in {"ListAdd", "ListRemove"}
  BY AclOpsOK
<1>4. C \in Seq(Ops(p))
  <2>1. /\ Del(deny_rule_key(p)) \in Ops(p) /\ Del(eapol_permit_key(p)) \in Ops(p)
        /\ HSet(deny_table(p)) \in Ops(p) /\ HSet(eapol_permit_key(p)) \in Ops(p)
        /\ HSet(deny_rule_key(p)) \in Ops(p)
    BY OpTypes
  <2> QED BY <2>1 DEF PortOps, Only, open_controlled_port, close_controlled_port
<1> HIDE DEF V, A, C, ops, out, in
<1>5. Joined(Ops(p), V, A)
  BY <1>2, <1>3, Concat
<1>6. /\ s \in Seq(Ops(p)) /\ n = Len(V) + Len(A) /\ Len(V) \in Nat /\ Len(A) \in Nat
      /\ \A i \in 1..Len(V) : s[i] = V[i]
      /\ \A i \in 1..Len(A) : s[Len(V) + i] = A[i]
  BY <1>5 DEF Joined
<1> HIDE DEF s
<1>7. Joined(Ops(p), s, C)
  BY <1>4, <1>6, Concat
<1>8. /\ ops \in Seq(Ops(p)) /\ Len(ops) = n + Len(C) /\ n \in Nat /\ Len(C) \in Nat
      /\ \A i \in 1..n : ops[i] = s[i]
      /\ \A j \in 1..Len(C) : ops[n + j] = C[j]
  BY <1>1, <1>7 DEF Joined
<1> HIDE DEF n
<1>9. ASSUME NEW i \in 1..n
      PROVE  \/ ops[i] = out /\ old.vlan # None /\ old.vlan # new.vlan
             \/ ops[i] = in /\ new.vlan # None
             \/ ops[i].op \in {"ListAdd", "ListRemove"}
  <2>1. CASE i \in 1..Len(V)
    BY <1>2, <1>6, <1>8, <2>1
  <2>2. ASSUME NEW j \in 1..Len(A), i = Len(V) + j
        PROVE  ops[i].op \in {"ListAdd", "ListRemove"}
    BY <1>3, <1>6, <1>8, <2>2
  <2> QED BY <1>6, <2>1, <2>2, Index
<1>10. old.vlan # new.vlan /\ new.vlan # None => \E i \in 1..n : ops[i] = in
  <2>1. \A i \in 1..Len(V) : i \in 1..n /\ ops[i] = V[i]
    BY <1>6, <1>8
  <2> QED BY <1>2, <2>1
<1>11. \A i \in 1..Len(ops) : i \in 1..n \/ \E j \in 1..Len(C) : i = n + j
  BY <1>8, Index
<1>12. Shaped(p, old, new, ops, n)
  BY <1>4, <1>8, <1>9, <1>10, <1>11 DEF Shaped, C, out, in
<1> QED BY <1>8, <1>12 DEF ops

-----------------------------------------------------------------------------
(* Calls begin and end *)

\* A transition begins on a port that is settled.
LEMMA GoodApply ==
  ASSUME NEW p, NEW srv, NEW a \in Desired, NEW new \in Desired,
         NEW c \in Call, NEW d \in Call, NEW db,
         Good(p, srv, a, c, db), p \in srv, ~c.busy,
         d.new = new, d.ops = transition(p, a, new), d.read = None, d.busy
  PROVE  Good(p, srv, a, d, db)
<1> DEFINE ops == d.ops
           C == PortOps(p, a, new)
           D == deny_rule_key(p)
           P == eapol_permit_key(p)
           T == deny_table(p)
           M == vlan_member_key(new.vlan, p)
           O == vlan_member_key(a.vlan, p)
<1>0. PICK n \in Nat : Shaped(p, a, new, ops, n)
  BY TransitionShape
<1>1. /\ ops \in Seq(Ops(p)) /\ Len(ops) = n + Len(C) /\ C \in Seq(Ops(p))
      /\ \A i \in 1..Len(ops) : i \in 1..n \/ \E j \in 1..Len(C) : i = n + j
      /\ \A j \in 1..Len(C) : ops[n + j] = C[j]
      /\ \A i \in 1..n : \/ ops[i] = Del(O) /\ a.vlan # None /\ a.vlan # new.vlan
                         \/ ops[i] = HSet(M) /\ new.vlan # None
                         \/ ops[i].op \in {"ListAdd", "ListRemove"}
      /\ a.vlan # new.vlan /\ new.vlan # None => \E i \in 1..n : ops[i] = HSet(M)
  BY <1>0 DEF Shaped
<1>2. /\ D \in db <=> ~a.authorized
      /\ a.vlan # None => O \in db
      /\ D \in db => T \in db /\ P \in db
  BY DEF Good
<1>3. a.authorized \in BOOLEAN /\ new.authorized \in BOOLEAN
  BY DesiredFields
<1>4. \/ /\ C = <<>> /\ a.authorized = new.authorized
      \/ /\ C = <<Del(D), Del(P)>> /\ new.authorized /\ ~a.authorized
      \/ /\ C = <<HSet(T), HSet(P), HSet(D)>> /\ ~new.authorized /\ a.authorized
  BY <1>3 DEF PortOps, Only, open_controlled_port, close_controlled_port
<1>5. /\ D # P /\ D # T /\ P # T /\ M # D /\ M # P /\ M # T /\ O # D /\ O # P /\ O # T
      /\ a.vlan # new.vlan => O # M
  BY KeysDiffer
<1> HIDE DEF ops, C, D, P, T, M, O
<1>6. ASSUME NEW i \in 1..n
      PROVE  /\ ops[i] # HSet(D) /\ ops[i] # HSet(P) /\ ops[i] # HSet(T)
             /\ ops[i] # Del(D) /\ ops[i] # Del(P) /\ ops[i] # Del(T)
             /\ new.vlan # None => ops[i] # Del(M)
  <2>1. CASE ops[i].op \in {"ListAdd", "ListRemove"}
    BY <2>1, OpsDiffer
  <2>2. CASE ops[i] = Del(O) /\ a.vlan # new.vlan
    BY <1>5, <2>2, OpsDiffer
  <2>3. CASE ops[i] = HSet(M)
    BY <1>5, <2>3, OpsDiffer
  <2> QED BY <1>1, <2>1, <2>2, <2>3
<1>7. new.vlan # None => M \in db \/ \E i \in 1..n : ops[i] = HSet(M)
  BY <1>1, <1>2 DEF M, O
<1>8. DOMAIN ops = 1..Len(ops) /\ Len(C) \in Nat /\ \A i \in DOMAIN ops : ops[i] \in Ops(p)
  BY <1>1
<1>9. Sane(p, d)
  BY <1>8 DEF Sane, ops
<1>10. \A i \in DOMAIN ops : i \in 1..n \/ \E j \in 1..Len(C) : i = n + j /\ ops[i] = C[j]
  BY <1>1, <1>8
<1>11. CASE C = <<>> /\ a.authorized = new.authorized
  <2>1. \A i \in DOMAIN ops : i \in 1..n
    BY <1>10, <1>11
  <2>2. /\ \A i \in DOMAIN ops : ops[i] # HSet(D) /\ ops[i] # Del(D) /\ ops[i] # Del(P)
                                 /\ ops[i] # Del(T)
        /\ new.vlan # None => \A i \in DOMAIN ops : ops[i] # Del(M)
    BY <1>6, <2>1
  <2>3. EapolOrder(p, ops, db) /\ VlanOrder(p, new, ops, db)
    BY <2>2 DEF EapolOrder, VlanOrder, Lacks, D, P, T
  <2>4. Reaches(p, new, ops, db)
    <3>1. Len(ops) = n
      BY <1>1, <1>11
    <3>2. new.vlan # None => PresentBy(ops, db, Len(ops) + 1, M)
      BY <1>7, <3>1 DEF PresentBy
    <3> QED BY <1>2, <1>11, <2>2, <3>2 DEF Reaches, Lacks, PresentBy, AbsentBy, D, P, M
  <2> QED BY <1>2, <1>9, <1>11, <2>3, <2>4 DEF Good, ops, D, P, T, M
<1>12. CASE C = <<Del(D), Del(P)>> /\ new.authorized /\ ~a.authorized
  <2>1. /\ Len(C) = 2 /\ C[1] = Del(D) /\ C[2] = Del(P)
        /\ n + 1 \in DOMAIN ops /\ ops[n + 1] = Del(D) /\ Len(ops) = n + 2
    BY <1>1, <1>8, <1>12
  <2>2. \A i \in DOMAIN ops : i \in 1..n \/ (i = n + 1 /\ ops[i] = Del(D))
                              \/ (i = n + 2 /\ ops[i] = Del(P))
    BY <1>10, <2>1
  <2>3. /\ \A i \in DOMAIN ops : ops[i] # HSet(D) /\ ops[i] # Del(T)
        /\ new.vlan # None => \A i \in DOMAIN ops : ops[i] # Del(M)
        /\ \A i \in DOMAIN ops : ops[i] = Del(P) => i = n + 2
        /\ \A i \in DOMAIN ops : ops[i] = Del(D) => i = n + 1
    BY <1>5, <1>6, <2>2, OpsDiffer
  <2>4. EapolOrder(p, ops, db)
    BY <2>1, <2>3 DEF EapolOrder, AbsentBy, Lacks, D, P, T
  <2>5. new.vlan # None => PresentBy(ops, db, n + 1, M) /\ PresentBy(ops, db, n + 3, M)
    BY <1>7 DEF PresentBy
  <2>6. VlanOrder(p, new, ops, db)
    BY <2>3, <2>5 DEF VlanOrder, D, M
  <2>7. AbsentBy(ops, db, n + 3, D)
    BY <2>1 DEF AbsentBy
  <2>8. Reaches(p, new, ops, db)
    BY <1>12, <2>1, <2>3, <2>5, <2>7 DEF Reaches, Lacks, D, P, M
  <2> QED BY <1>2, <1>9, <1>12, <2>4, <2>6, <2>8 DEF Good, ops, D, P, T, M
<1>13. CASE C = <<HSet(T), HSet(P), HSet(D)>> /\ ~new.authorized /\ a.authorized
  <2>0. new.vlan = None
    BY <1>13, DesiredFields
  <2>1. /\ Len(C) = 3 /\ C[1] = HSet(T) /\ C[2] = HSet(P) /\ C[3] = HSet(D)
        /\ ops[n + 1] = HSet(T) /\ ops[n + 2] = HSet(P) /\ ops[n + 3] = HSet(D)
        /\ Len(ops) = n + 3
    BY <1>1, <1>13
  <2>2. \A i \in DOMAIN ops : i \in 1..n \/ (i = n + 1 /\ ops[i] = HSet(T))
          \/ (i = n + 2 /\ ops[i] = HSet(P)) \/ (i = n + 3 /\ ops[i] = HSet(D))
    BY <1>10, <2>1
  <2>3. /\ \A i \in DOMAIN ops : ops[i] # Del(D) /\ ops[i] # Del(P) /\ ops[i] # Del(T)
        /\ \A i \in DOMAIN ops : ops[i] = HSet(D) => i = n + 3
    BY <1>5, <1>6, <2>2, OpsDiffer
  <2>4. PresentBy(ops, db, n + 3, T) /\ PresentBy(ops, db, n + 3, P)
    BY <2>1 DEF PresentBy
  <2>5. EapolOrder(p, ops, db) /\ VlanOrder(p, new, ops, db)
    BY <2>3, <2>4 DEF EapolOrder, VlanOrder, Lacks, D, P, T
  <2>6. PresentBy(ops, db, n + 4, D)
    BY <2>1 DEF PresentBy
  <2>7. Reaches(p, new, ops, db)
    BY <1>13, <2>0, <2>1, <2>3, <2>6 DEF Reaches, Lacks, D, P
  <2> QED BY <1>2, <1>9, <1>13, <2>5, <2>7 DEF Good, ops, D, P, T, M
<1> QED BY <1>4, <1>11, <1>12, <1>13

\* Closing a port as it comes into service needs no earlier invariant of it but
\* that EAPOL was let through.
LEMMA GoodEnsure ==
  ASSUME NEW p, NEW srv, NEW srv2, NEW a, NEW c, NEW d \in Call, NEW db,
         Good(p, srv, a, c, db), d.new = Closed, d.read = None, d.busy,
         d.ops = plan_eapol_trap \o close_controlled_port(p)
  PROVE  Good(p, srv2, a, d, db)
<1> DEFINE ops == d.ops
           D == deny_rule_key(p)
           P == eapol_permit_key(p)
           T == deny_table(p)
           trap == EAPOL_TRAP_KEY
           u == <<HSet(trap)>>
           w == <<HSet(T), HSet(P), HSet(D)>>
<1>1. /\ HSet(trap) \in Ops(p) /\ HSet(T) \in Ops(p) /\ HSet(P) \in Ops(p)
      /\ HSet(D) \in Ops(p)
  BY OpTypes
<1>2. u \in Seq(Ops(p)) /\ w \in Seq(Ops(p))
  BY <1>1
<1>3. /\ Len(u) = 1 /\ Len(w) = 3 /\ u[1] = HSet(trap)
      /\ w[1] = HSet(T) /\ w[2] = HSet(P) /\ w[3] = HSet(D)
  OBVIOUS
<1>4. ops = u \o w
  BY DEF plan_eapol_trap, close_controlled_port
<1>5. /\ D # P /\ D # T /\ P # T /\ D # trap /\ Closed.authorized = FALSE
      /\ Closed.vlan = None
  BY KeysDiffer DEF Closed
<1> HIDE DEF ops, D, P, T, trap, u, w
<1>6. Joined(Ops(p), u, w)
  BY <1>2, Concat
<1>7. /\ ops \in Seq(Ops(p)) /\ Len(ops) = 4 /\ ops[1] = HSet(trap)
      /\ ops[2] = HSet(T) /\ ops[3] = HSet(P) /\ ops[4] = HSet(D)
      /\ DOMAIN ops = 1..4
  BY <1>3, <1>4, <1>6 DEF Joined
<1>8. \A i \in DOMAIN ops : \/ ops[i] = HSet(trap) \/ ops[i] = HSet(T)
                            \/ ops[i] = HSet(P) \/ (ops[i] = HSet(D) /\ i = 4)
  BY <1>7
<1>9. /\ \A i \in DOMAIN ops : ops[i] = HSet(D) => i = 4
      /\ \A i \in DOMAIN ops : ops[i] # Del(D) /\ ops[i] # Del(P) /\ ops[i] # Del(T)
      /\ \A i \in DOMAIN ops : ops[i] \in Ops(p)
  <2>1. \A i \in DOMAIN ops : ops[i] = HSet(D) => i = 4
    BY <1>5, <1>8, OpsDiffer
  <2>2. \A i \in DOMAIN ops : ops[i] # Del(D) /\ ops[i] # Del(P) /\ ops[i] # Del(T)
    BY <1>8, OpsDiffer
  <2>3. \A i \in DOMAIN ops : ops[i] \in Ops(p)
    BY <1>1, <1>8 DEF D, P, T, trap
  <2> QED BY <2>1, <2>2, <2>3
<1>10. PresentBy(ops, db, 4, T) /\ PresentBy(ops, db, 4, P) /\ PresentBy(ops, db, 5, D)
  BY <1>7 DEF PresentBy
<1>11. EapolOrder(p, ops, db) /\ VlanOrder(p, Closed, ops, db)
  BY <1>9, <1>10 DEF EapolOrder, VlanOrder, Lacks, D, P, T
<1>12. Reaches(p, Closed, ops, db)
  BY <1>5, <1>7, <1>9, <1>10 DEF Reaches, Lacks, D, P
<1>13. Sane(p, d)
  BY <1>9 DEF Sane, ops
<1> QED BY <1>5, <1>11, <1>12, <1>13 DEF Good, ops

\* A call that has sent everything leaves the port settled.
LEMMA GoodReturn ==
  ASSUME NEW p, NEW srv, NEW a, NEW c \in Call, NEW db,
         Good(p, srv, a, c, db), c.busy, c.ops = <<>>
  PROVE  Good(p, srv, c.new, NoCall, db)
<1>1. /\ c.new.authorized \in BOOLEAN /\ c.ops = NoCall.ops /\ ~NoCall.busy
      /\ NoCall.read = None /\ Len(c.ops) = 0 /\ DOMAIN c.ops = {}
  BY DesiredFields DEF Call, NoCall
<1>2. Sane(p, NoCall) /\ EapolOrder(p, NoCall.ops, db)
  BY <1>1 DEF Good, Sane
<1>3. /\ c.new.authorized => deny_rule_key(p) \notin db
      /\ ~c.new.authorized => deny_rule_key(p) \in db
      /\ c.new.vlan # None => vlan_member_key(c.new.vlan, p) \in db
  BY <1>1 DEF Good, Reaches, PresentBy, AbsentBy
<1> QED BY <1>1, <1>2, <1>3 DEF Good

\* A worker that ends leaves the port as it is.
LEMMA GoodExit ==
  ASSUME NEW p, NEW srv, NEW srv2, NEW a, NEW c, NEW db,
         Good(p, srv, a, c, db), p \notin srv2
  PROVE  Good(p, srv2, a, NoCall, db)
<1>1. NoCall.ops = <<>> /\ ~NoCall.busy /\ NoCall.read = None /\ DOMAIN NoCall.ops = {}
  BY DEF NoCall
<1> QED BY <1>1 DEF Good, Sane, EapolOrder, Lacks

-----------------------------------------------------------------------------
(* Every step preserves the invariant *)

\* Operations of one port are operations.
LEMMA OpsSeq ==
  ASSUME NEW p \in Ports, NEW s \in Seq(Ops(p))
  PROVE  s \in Seq(Op)
<1>1. Ops(p) \subseteq Op
  BY DEF Op
<1> QED BY <1>1

\* The types of the calls.
LEMMA CallTypes ==
  /\ NoCall \in Call /\ Closed \in Desired
  /\ \A p \in Ports, new \in Desired : \A ops \in Seq(Ops(p)) :
       LET d == [new |-> new, ops |-> ops, read |-> None, busy |-> TRUE]
       IN  d \in Call /\ d.new = new /\ d.ops = ops /\ d.read = None /\ d.busy
<1>1. Closed \in Desired /\ <<>> \in Seq(Op)
  BY DEF Desired
<1>2. NoCall \in Call
  BY <1>1 DEF NoCall, Call
<1>3. ASSUME NEW p \in Ports, NEW new \in Desired, NEW ops \in Seq(Ops(p))
      PROVE  LET d == [new |-> new, ops |-> ops, read |-> None, busy |-> TRUE]
             IN  d \in Call /\ d.new = new /\ d.ops = ops /\ d.read = None /\ d.busy
  BY <1>3, OpsSeq DEF Call
<1> QED BY <1>1, <1>2, <1>3

\* A step of p that keeps p's part and writes no other port's keys.
LEMMA Frame ==
  ASSUME EInv, NEW p \in Ports, TypeInv',
         Good(p, serving', applied'[p], call'[p], config'),
         \A q \in Ports \ {p} :
           /\ applied'[q] = applied[q] /\ call'[q] = call[q]
           /\ q \in serving' <=> q \in serving
           /\ \A k \in Private(q) : k \in config' <=> k \in config
  PROVE  EInv'
<1>1. ASSUME NEW q \in Ports, q # p
      PROVE  Good(q, serving', applied'[q], call'[q], config')
  <2>1. Good(q, serving, applied[q], call[q], config)
    BY DEF EInv
  <2>2. applied[q] \in Desired /\ call[q] \in Call
    BY DEF EInv, TypeInv
  <2>3. /\ applied'[q] = applied[q] /\ call'[q] = call[q]
        /\ q \in serving' <=> q \in serving
        /\ \A k \in Private(q) : k \in config' <=> k \in config
    BY <1>1
  <2>4. Good(q, serving', applied[q], call[q], config')
    BY <2>1, <2>2, <2>3, GoodElsewhere
  <2> QED BY <2>3, <2>4
<1> QED BY <1>1 DEF EInv

\* A port's call begins: nothing is written yet.
LEMMA BeginOK ==
  ASSUME EInv, NEW p \in Ports, NEW new \in Desired, NEW ops \in Seq(Ops(p)),
         Begin(p, new, ops), UNCHANGED <<applied, config, acl_ports>>,
         serving' \subseteq Ports, \A q \in Ports \ {p} : q \in serving' <=> q \in serving,
         \A d \in Call : d.new = new /\ d.ops = ops /\ d.read = None /\ d.busy =>
           Good(p, serving', applied[p], d, config)
  PROVE  EInv'
<1> DEFINE d == [new |-> new, ops |-> ops, read |-> None, busy |-> TRUE]
<1>1. d \in Call /\ d.new = new /\ d.ops = ops /\ d.read = None /\ d.busy
  BY CallTypes
<1>2. call' = [call EXCEPT ![p] = d]
  BY DEF Begin
<1> HIDE DEF d
<1>3. /\ TypeInv /\ call \in [Ports -> Call]
  BY DEF EInv, TypeInv
<1>4. call'[p] = d /\ call' \in [Ports -> Call] /\ \A q \in Ports \ {p} : call'[q] = call[q]
  BY <1>1, <1>2, <1>3
<1>5. TypeInv'
  BY <1>3, <1>4 DEF TypeInv
<1>6. Good(p, serving', applied'[p], call'[p], config')
  BY <1>1, <1>4
<1> QED BY <1>4, <1>5, <1>6, Frame

\* A worker ends.
LEMMA ExitOK ==
  ASSUME EInv, NEW p \in Ports, Exit(p)
  PROVE  EInv'
<1>1. /\ serving' = serving \ {p} /\ call' = [call EXCEPT ![p] = NoCall]
      /\ applied' = applied /\ config' = config /\ acl_ports' = acl_ports
  BY DEF Exit
<1>2. TypeInv /\ call \in [Ports -> Call] /\ NoCall \in Call
  BY CallTypes DEF EInv, TypeInv
<1>3. /\ call'[p] = NoCall /\ call' \in [Ports -> Call]
      /\ \A q \in Ports \ {p} : call'[q] = call[q]
  BY <1>1, <1>2
<1>4. TypeInv'
  BY <1>1, <1>2, <1>3 DEF TypeInv
<1>5. Good(p, serving, applied[p], call[p], config)
  BY DEF EInv
<1>6. Good(p, serving', applied'[p], call'[p], config')
  BY <1>1, <1>3, <1>5, GoodExit
<1> QED BY <1>1, <1>3, <1>4, <1>6, Frame

\* An operation is sent.
LEMMA SentOK ==
  ASSUME EInv, NEW p \in Ports, call[p].ops # <<>>, Sent(p),
         Sends(call[p].ops[1], config, config'),
         UNCHANGED <<serving, applied>>, acl_ports' \in [Acls -> SUBSET Ports]
  PROVE  EInv'
<1> DEFINE c == call[p]
           d == call'[p]
<1>1. TypeInv /\ call \in [Ports -> Call] /\ c \in Call
  BY DEF EInv, TypeInv
<1>2. c.ops \in Seq(Op) /\ Tail(c.ops) \in Seq(Op)
  BY <1>1 DEF Call
<1>3. call' = [call EXCEPT ![p] = [c EXCEPT !.ops = Tail(c.ops), !.read = None]]
  BY <1>1 DEF Sent
<1>4. /\ d = [c EXCEPT !.ops = Tail(c.ops), !.read = None]
      /\ \A q \in Ports \ {p} : call'[q] = call[q]
  BY <1>1, <1>3
<1>5. /\ d \in Call /\ d.new = c.new /\ d.busy = c.busy /\ d.ops = Tail(c.ops)
      /\ d.read = None
  BY <1>1, <1>2, <1>4 DEF Call
<1>6. TypeInv'
  BY <1>1, <1>3, <1>4, <1>5 DEF TypeInv
<1>7. Good(p, serving, applied[p], c, config)
  BY DEF EInv
<1>8. Good(p, serving, applied[p], d, config')
  BY <1>1, <1>5, <1>7, GoodSend
<1>9. \A q \in Ports \ {p} : \A k \in Private(q) : k \in config' <=> k \in config
  <2> SUFFICES ASSUME NEW q \in Ports, q # p, NEW k \in Private(q)
               PROVE  k \in config' <=> k \in config
    OBVIOUS
  <2>1. k \notin Keys(p)
    BY PrivateKeys
  <2>2. c.ops[1] \in Ops(p)
    BY <1>2, <1>7 DEF Good, Sane
  <2>3. CASE c.ops[1].op \in {"ListAdd", "ListRemove"}
    BY <2>3, OpsDiffer DEF Sends
  <2>4. CASE c.ops[1].op = "HSet"
    BY <2>1, <2>2, <2>4, KeyOps, OpsDiffer DEF Sends
  <2>5. CASE c.ops[1].op = "Del"
    BY <2>1, <2>2, <2>5, KeyOps, OpsDiffer DEF Sends
  <2> QED BY <2>2, <2>3, <2>4, <2>5 DEF Ops
<1> QED BY <1>4, <1>6, <1>8, <1>9, Frame

\* A worker brings its port into service.
LEMMA EnsureOK ==
  ASSUME EInv, NEW p \in Ports, ensure_eapol_trap(p)
  PROVE  EInv'
<1> DEFINE ops == plan_eapol_trap \o close_controlled_port(p)
<1>1. /\ serving' = serving \cup {p} /\ Begin(p, Closed, ops)
      /\ UNCHANGED <<applied, config, acl_ports>>
  BY DEF ensure_eapol_trap
<1>2. Closed \in Desired
  BY CallTypes
<1>3. ops \in Seq(Ops(p))
  <2>1. /\ HSet(EAPOL_TRAP_KEY) \in Ops(p) /\ HSet(deny_table(p)) \in Ops(p)
        /\ HSet(eapol_permit_key(p)) \in Ops(p) /\ HSet(deny_rule_key(p)) \in Ops(p)
    BY OpTypes
  <2>2. plan_eapol_trap \in Seq(Ops(p)) /\ close_controlled_port(p) \in Seq(Ops(p))
    BY <2>1 DEF plan_eapol_trap, close_controlled_port
  <2> QED BY <2>2, Concat DEF Joined
<1>4. Good(p, serving, applied[p], call[p], config) /\ serving' \subseteq Ports
  BY <1>1 DEF EInv, TypeInv
<1>5. ASSUME NEW d \in Call, d.new = Closed, d.ops = ops, d.read = None, d.busy
      PROVE  Good(p, serving', applied[p], d, config)
  BY <1>4, <1>5, GoodEnsure
<1>6. \A q \in Ports \ {p} : q \in serving' <=> q \in serving
  BY <1>1
<1>7. serving' \subseteq Ports
  BY <1>4
<1>8. \A d \in Call : d.new = Closed /\ d.ops = ops /\ d.read = None /\ d.busy =>
        Good(p, serving', applied[p], d, config)
  BY <1>5
<1>9. Begin(p, Closed, ops) /\ UNCHANGED <<applied, config, acl_ports>>
  BY <1>1
<1> HIDE DEF ops
<1> QED BY <1>2, <1>3, <1>6, <1>7, <1>8, <1>9, BeginOK

\* An accepted posture is one that can be programmed.
LEMMA AcceptedDesired ==
  ASSUME NEW new \in Request, Accepted(new)
  PROVE  new \in Desired
  BY DEF Request, Desired, Accepted, is_valid_vlan, Closed

\* A transition begins.
LEMMA ApplyOK ==
  ASSUME EInv, NEW p \in Ports, NEW new \in Request, apply(p, new)
  PROVE  EInv'
<1> DEFINE ops == transition(p, applied[p], new)
<1>1. /\ p \in serving /\ ~call[p].busy /\ Begin(p, new, ops)
      /\ UNCHANGED <<serving, applied, config, acl_ports>>
  BY DEF apply
<1>2. new \in Desired /\ applied[p] \in Desired /\ call[p] \in Call
      /\ serving' \subseteq Ports
  BY <1>1, AcceptedDesired DEF apply, EInv, TypeInv
<1>3. ops \in Seq(Ops(p))
  BY <1>2, TransitionShape DEF Shaped
<1>4. Good(p, serving, applied[p], call[p], config)
  BY DEF EInv
<1>5. ASSUME NEW d \in Call, d.new = new, d.ops = ops, d.read = None, d.busy
      PROVE  Good(p, serving', applied[p], d, config)
  BY <1>1, <1>2, <1>4, <1>5, GoodApply
<1> HIDE DEF ops
<1> QED BY <1>1, <1>2, <1>3, <1>5, BeginOK

\* The operation at the head of a call.
LEMMA HeadOp ==
  ASSUME EInv, NEW p \in Ports, call[p].ops # <<>>
  PROVE  /\ Head(call[p].ops) = call[p].ops[1] /\ call[p].ops[1] \in Ops(p)
         /\ call[p].busy
<1>1. call[p].ops \in Seq(Op)
  BY DEF EInv, TypeInv, Call
<1>2. Sane(p, call[p])
  BY DEF EInv, Good
<1> QED BY <1>1, <1>2 DEF Sane

\* A key is written or deleted.
LEMMA SendKeyOK ==
  ASSUME EInv, NEW p \in Ports, SendKey(p)
  PROVE  EInv'
<1> DEFINE o == call[p].ops[1]
<1>1. call[p].ops # <<>>
  BY DEF SendKey, Sending
<1>2. Head(call[p].ops) = o /\ o \in Ops(p)
  BY <1>1, HeadOp
<1>3. Sends(o, config, config')
  <2>1. CASE Sending(p, "HSet") /\ config' = config \cup {On(p)}
    BY <1>2, <2>1, KeyOps DEF Sends, Sending, On
  <2>2. CASE Sending(p, "Del") /\ config' = config \ {On(p)}
    BY <1>2, <2>2, KeyOps DEF Sends, Sending, On
  <2> QED BY <2>1, <2>2 DEF SendKey
<1>4. UNCHANGED <<serving, applied>> /\ Sent(p) /\ acl_ports' \in [Acls -> SUBSET Ports]
  BY DEF SendKey, EInv, TypeInv
<1> QED BY <1>1, <1>3, <1>4, SentOK

\* A list is written back.
LEMMA WriteListOK ==
  ASSUME EInv, NEW p \in Ports, WriteList(p)
  PROVE  EInv'
<1> DEFINE o == call[p].ops[1]
<1>1. call[p].read # None /\ call[p] \in Call /\ Sane(p, call[p])
  BY DEF WriteList, EInv, TypeInv, Good
<1>2. /\ call[p].ops # <<>> /\ o.op \in {"ListAdd", "ListRemove"}
      /\ call[p].read.list \subseteq Ports
  BY <1>1 DEF Sane, Call
<1>3. Head(call[p].ops) = o /\ o \in Ops(p) /\ o.on \in Acls
  BY <1>2, HeadOp, KeyOps
<1>4. Sends(o, config, config')
  BY <1>2 DEF Sends, WriteList
<1>5. acl_ports' \in [Acls -> SUBSET Ports]
  BY <1>2, <1>3 DEF WriteList, On, EInv, TypeInv
<1>6. UNCHANGED <<serving, applied>> /\ Sent(p)
  BY DEF WriteList
<1> QED BY <1>2, <1>4, <1>5, <1>6, SentOK

\* A list is read.
LEMMA ReadListOK ==
  ASSUME EInv, NEW p \in Ports, ReadList(p)
  PROVE  EInv'
<1> DEFINE c == call[p]
           d == call'[p]
           list == acl_ports[On(p)]
<1>1. /\ c.ops # <<>> /\ Head(c.ops).op \in {"ListAdd", "ListRemove"}
      /\ call' = [call EXCEPT ![p].read = [list |-> list]]
      /\ UNCHANGED <<serving, applied, config, acl_ports>>
  BY DEF ReadList, Sending
<1>2. TypeInv /\ call \in [Ports -> Call] /\ c \in Call
  BY DEF EInv, TypeInv
<1>3. Head(c.ops) = c.ops[1] /\ c.ops[1] \in Ops(p)
  BY <1>1, HeadOp
<1>4. [list |-> list] \in [list : SUBSET Ports]
  BY <1>1, <1>2, <1>3, KeyOps DEF On, TypeInv
<1>5. d = [c EXCEPT !.read = [list |-> list]] /\ \A q \in Ports \ {p} : call'[q] = call[q]
  BY <1>1, <1>2
<1>6. d \in Call /\ d.new = c.new /\ d.ops = c.ops /\ d.busy = c.busy
  BY <1>2, <1>4, <1>5 DEF Call
<1>7. TypeInv'
  BY <1>1, <1>2, <1>5, <1>6 DEF TypeInv
<1>8. Good(p, serving, applied[p], c, config)
  BY DEF EInv
<1>9. Good(p, serving, applied[p], d, config)
  BY <1>1, <1>3, <1>6, <1>8 DEF Good, Sane
<1> QED BY <1>1, <1>5, <1>7, <1>9, Frame

\* A call returns.
LEMMA ReturnOK ==
  ASSUME EInv, NEW p \in Ports, Return(p)
  PROVE  EInv'
<1> DEFINE c == call[p]
<1>1. /\ c.busy /\ c.ops = <<>> /\ applied' = [applied EXCEPT ![p] = c.new]
      /\ call' = [call EXCEPT ![p] = NoCall]
      /\ UNCHANGED <<serving, config, acl_ports>>
  BY DEF Return, remember
<1>2. /\ TypeInv /\ call \in [Ports -> Call] /\ c \in Call /\ NoCall \in Call
      /\ applied \in [Ports -> Desired] /\ c.new \in Desired
  BY CallTypes DEF EInv, TypeInv, Call
<1>3. /\ call'[p] = NoCall /\ applied'[p] = c.new
      /\ \A q \in Ports \ {p} : call'[q] = call[q] /\ applied'[q] = applied[q]
  BY <1>1, <1>2
<1>4. TypeInv'
  BY <1>1, <1>2 DEF TypeInv
<1>5. Good(p, serving, applied[p], c, config)
  BY DEF EInv
<1>6. Good(p, serving, c.new, NoCall, config)
  BY <1>1, <1>2, <1>5, GoodReturn
<1> QED BY <1>1, <1>3, <1>4, <1>6, Frame

\* The invariant holds of every reachable state.
THEOREM EnforcerInductive == EnforcerSpec => []EInv
<1>1. EnforcerInit => EInv
  <2> SUFFICES ASSUME EnforcerInit PROVE EInv
    OBVIOUS
  <2>1. /\ serving = {} /\ applied = [p \in Ports |-> Closed]
        /\ call = [p \in Ports |-> NoCall] /\ config = {}
        /\ acl_ports = [f \in Acls |-> {}]
    BY DEF EnforcerInit
  <2>2. TypeInv
    BY <2>1, CallTypes DEF TypeInv
  <2>3. NoCall.ops = <<>> /\ ~NoCall.busy /\ NoCall.read = None /\ DOMAIN NoCall.ops = {}
    BY DEF NoCall
  <2>4. ASSUME NEW p \in Ports PROVE Good(p, serving, applied[p], call[p], config)
    BY <2>1, <2>3 DEF Good, Sane, EapolOrder, Lacks
  <2> QED BY <2>2, <2>4 DEF EInv
<1>2. EInv /\ [EnforcerNext]_evars => EInv'
  <2> SUFFICES ASSUME EInv, [EnforcerNext]_evars PROVE EInv'
    OBVIOUS
  <2>1. CASE UNCHANGED evars
    BY <2>1 DEF evars, EInv, TypeInv
  <2>2. ASSUME NEW p \in Ports,
               \/ ensure_eapol_trap(p) \/ Fail(p)
               \/ SendKey(p) \/ ReadList(p) \/ WriteList(p) \/ Return(p)
               \/ \E new \in Request : apply(p, new) \/ Refuse(p, new)
        PROVE  EInv'
    <3>1. CASE ensure_eapol_trap(p)
      BY <3>1, EnsureOK
    <3>2. CASE Fail(p)
      BY <3>2, ExitOK DEF Fail
    <3>3. CASE SendKey(p)
      BY <3>3, SendKeyOK
    <3>4. CASE ReadList(p)
      BY <3>4, ReadListOK
    <3>5. CASE WriteList(p)
      BY <3>5, WriteListOK
    <3>6. CASE Return(p)
      BY <3>6, ReturnOK
    <3>7. ASSUME NEW new \in Request, apply(p, new) PROVE EInv'
      BY <3>7, ApplyOK
    <3>8. ASSUME NEW new \in Request, Refuse(p, new) PROVE EInv'
      BY <3>8, ExitOK DEF Refuse
    <3> QED BY <2>2, <3>1, <3>2, <3>3, <3>4, <3>5, <3>6, <3>7, <3>8
  <2> QED BY <2>1, <2>2 DEF EnforcerNext
<1> QED BY <1>1, <1>2, PTL DEF EnforcerSpec

\* Only postures that can be programmed are ever requested of the switch or
\* remembered as applied.
THEOREM EnforcerTypeCorrect == EnforcerSpec => []EnforcerTypeOK
<1>1. EInv => EnforcerTypeOK
  BY DEF EInv, TypeInv, EnforcerTypeOK, Call
<1> QED BY <1>1, EnforcerInductive, PTL

\* A port that drops traffic lets EAPOL through, at every point of every call
\* and wherever a failure cut one short, however many ports share the database.
THEOREM EapolLetThrough == EnforcerSpec => []EapolNeverBlocked
<1>1. EInv => EapolNeverBlocked
  BY DEF EInv, Good, EapolNeverBlocked
<1> QED BY <1>1, EnforcerInductive, PTL

\* A closed port that is being opened joins the VLAN of its grant before it
\* forwards.
THEOREM JoinsBeforeOpening == EnforcerSpec => []OpensIntoItsVlan
<1>1. EInv => OpensIntoItsVlan
  BY DEF EInv, TypeInv, Good, OpensIntoItsVlan
<1> QED BY <1>1, EnforcerInductive, PTL

\* After a call that succeeded the switch holds what was asked for the port,
\* whatever the calls of other ports did meanwhile.
THEOREM SettledAsAsked == EnforcerSpec => []SettledPosture
<1>1. EInv => SettledPosture
  BY DEF EInv, TypeInv, Good, SettledPosture
<1> QED BY <1>1, EnforcerInductive, PTL

=============================================================================
