---------------------------- MODULE AuthdProofs ----------------------------
(***************************************************************************)
(* The invariants of Authd, for any set of MACs, grants and port           *)
(* configurations.  DInv is inductive: what is still to be performed leads *)
(* from the world as it is to the world the authenticator believes in, and *)
(* whatever is not in hand is in line already.                             *)
(***************************************************************************)
EXTENDS Authd, EffectProofs

-----------------------------------------------------------------------------
(* The timer channel *)

\* Pending, of a given channel.
PendingIn(box, m) ==
  {x.kind : x \in {box[i] : i \in {i \in DOMAIN box : box[i].mac = m /\ box[i].live}}}

\* No expiry that counts is in the channel twice.
Once(box) ==
  \A i, j \in DOMAIN box :
    (/\ box[i].live /\ box[j].live
     /\ box[i].mac = box[j].mac /\ box[i].kind = box[j].kind) => i = j

\* The expiry x counts as one of n, of kind h.
Counts(x, n, h) == x.mac = n /\ x.live /\ x.kind = h

\* What is in Pending.
LEMMA PendingMember ==
  ASSUME NEW box, NEW m, NEW k
  PROVE  k \in PendingIn(box, m) <=> \E i \in DOMAIN box : Counts(box[i], m, k)
  BY DEF PendingIn, Counts

\* No expiry counts twice.
LEMMA OnceCounts ==
  ASSUME NEW box
  PROVE  Once(box) <=>
           \A i, j \in DOMAIN box : \A n, h :
             Counts(box[i], n, h) /\ Counts(box[j], n, h) => i = j
<1>1. ASSUME Once(box), NEW i \in DOMAIN box, NEW j \in DOMAIN box, NEW n, NEW h,
             Counts(box[i], n, h), Counts(box[j], n, h)
      PROVE  i = j
  BY <1>1 DEF Once, Counts
<1>2. ASSUME \A i, j \in DOMAIN box : \A n, h :
               Counts(box[i], n, h) /\ Counts(box[j], n, h) => i = j
      PROVE  Once(box)
  BY <1>2 DEF Once, Counts
<1> QED BY <1>1, <1>2

\* The channel holds kinds of timers only.
LEMMA PendingType ==
  ASSUME NEW box \in Seq(Expiry), NEW m
  PROVE  PendingIn(box, m) \in SUBSET TimerKind
<1>1. \A x \in Expiry : x.kind \in TimerKind
  BY DEF Expiry
<1>2. \A i \in DOMAIN box : box[i] \in Expiry
  OBVIOUS
<1> QED BY <1>1, <1>2 DEF PendingIn

\* new is the channel box with an expiry sent, with one taken, or with those of
\* m and of the kinds ks cancelled.
SentTo(new, box, m, k) == new = Append(box, [mac |-> m, kind |-> k, live |-> TRUE])
TakenFrom(new, box, x) == box # <<>> /\ x = Head(box) /\ new = Tail(box)
CancelledIn(new, box, m, ks) ==
  new = [i \in DOMAIN box |->
           [box[i] EXCEPT !.live = @ /\ ~(/\ box[i].mac = m /\ box[i].kind \in ks)]]

\* An expiry sent.
LEMMA Sent ==
  ASSUME NEW box \in Seq(Expiry), NEW m \in Mac, NEW k \in TimerKind,
         Once(box), k \notin PendingIn(box, m), NEW new, SentTo(new, box, m, k)
  PROVE  /\ new \in Seq(Expiry) /\ Len(new) = Len(box) + 1 /\ Once(new)
         /\ PendingIn(new, m) = PendingIn(box, m) \cup {k}
         /\ \A n : n # m => PendingIn(new, n) = PendingIn(box, n)
<1> DEFINE x == [mac |-> m, kind |-> k, live |-> TRUE]
           l == Len(box)
<1>1. x \in Expiry /\ \A n, h : Counts(x, n, h) <=> n = m /\ h = k
  BY DEF Expiry, Counts
<1>0. new = Append(box, x)
  BY DEF SentTo
<1> HIDE DEF x
<1>2. /\ new \in Seq(Expiry) /\ Len(new) = l + 1 /\ l \in Nat
      /\ DOMAIN box = 1..l /\ DOMAIN new = 1..(l + 1) /\ new[l + 1] = x
      /\ \A i \in 1..l : new[i] = box[i]
  BY <1>0, <1>1
<1> HIDE DEF l
<1>3. /\ l + 1 \in DOMAIN new /\ \A i \in DOMAIN new : i = l + 1 \/ i \in DOMAIN box
      /\ \A i \in DOMAIN box : i \in DOMAIN new /\ new[i] = box[i]
  BY <1>2
<1>4. Once(new)
  <2> SUFFICES ASSUME NEW i \in DOMAIN new, NEW j \in DOMAIN new, NEW n, NEW h,
                      Counts(new[i], n, h), Counts(new[j], n, h)
               PROVE  i = j
    BY OnceCounts
  <2>1. \A a \in DOMAIN box : ~Counts(box[a], m, k)
    BY PendingMember
  <2>2. CASE i \in DOMAIN box /\ j \in DOMAIN box
    BY <1>3, <2>2, OnceCounts
  <2>3. CASE i = l + 1 /\ j \in DOMAIN box
    BY <1>1, <1>2, <1>3, <2>1, <2>3
  <2>4. CASE j = l + 1 /\ i \in DOMAIN box
    BY <1>1, <1>2, <1>3, <2>1, <2>4
  <2> QED BY <1>3, <2>2, <2>3, <2>4
<1>5. ASSUME NEW n, NEW h
      PROVE  h \in PendingIn(new, n) <=> h \in PendingIn(box, n) \/ (n = m /\ h = k)
  BY <1>1, <1>2, <1>3, PendingMember
<1>6. PendingIn(new, m) = PendingIn(box, m) \cup {k}
  BY <1>5
<1>7. ASSUME NEW n, n # m PROVE PendingIn(new, n) = PendingIn(box, n)
  <2>1. \A h : h \in PendingIn(new, n) <=> h \in PendingIn(box, n)
    BY <1>5, <1>7
  <2> QED BY <2>1
<1> QED BY <1>2, <1>4, <1>6, <1>7 DEF l

\* An expiry taken.
LEMMA Received ==
  ASSUME NEW box \in Seq(Expiry), Once(box), NEW x, NEW new, TakenFrom(new, box, x)
  PROVE  /\ x \in Expiry /\ new \in Seq(Expiry) /\ Len(new) <= Len(box) /\ Once(new)
         /\ x.live => /\ x.kind \in PendingIn(box, x.mac)
                      /\ PendingIn(new, x.mac) = PendingIn(box, x.mac) \ {x.kind}
         /\ ~x.live => PendingIn(new, x.mac) = PendingIn(box, x.mac)
         /\ \A n : n # x.mac => PendingIn(new, n) = PendingIn(box, n)
<1> DEFINE l == Len(box)
<1>1. /\ new \in Seq(Expiry) /\ Len(new) = l - 1 /\ l \in Nat /\ l > 0
      /\ DOMAIN box = 1..l /\ DOMAIN new = 1..(l - 1) /\ x = box[1] /\ x \in Expiry
      /\ \A i \in 1..(l - 1) : new[i] = box[i + 1]
  BY DEF TakenFrom
<1> HIDE DEF l
<1>2. /\ 1 \in DOMAIN box
      /\ \A i \in DOMAIN new : i + 1 \in DOMAIN box /\ new[i] = box[i + 1] /\ i + 1 # 1
      /\ \A i \in DOMAIN box : i = 1 \/ (i - 1 \in DOMAIN new /\ new[i - 1] = box[i])
      /\ \A i, j \in DOMAIN new : i + 1 = j + 1 => i = j
  BY <1>1
<1>3. Once(new)
  BY <1>2, OnceCounts
<1>4. ASSUME NEW n, NEW h
      PROVE  h \in PendingIn(box, n) <=> h \in PendingIn(new, n) \/ Counts(x, n, h)
  <2>1. ASSUME h \in PendingIn(box, n)
        PROVE  h \in PendingIn(new, n) \/ Counts(x, n, h)
    <3>1. PICK i \in DOMAIN box : Counts(box[i], n, h)
      BY <2>1, PendingMember
    <3> QED BY <1>1, <1>2, <3>1, PendingMember
  <2>2. ASSUME h \in PendingIn(new, n) PROVE h \in PendingIn(box, n)
    <3>1. PICK i \in DOMAIN new : Counts(new[i], n, h)
      BY <2>2, PendingMember
    <3> QED BY <1>2, <3>1, PendingMember
  <2>3. ASSUME Counts(x, n, h) PROVE h \in PendingIn(box, n)
    BY <1>1, <1>2, <2>3, PendingMember
  <2> QED BY <2>1, <2>2, <2>3
<1>5. ASSUME NEW n, NEW h, Counts(x, n, h) PROVE h \notin PendingIn(new, n)
  <2>1. SUFFICES ASSUME NEW i \in DOMAIN new, Counts(new[i], n, h)
                 PROVE  FALSE
    BY PendingMember
  <2>2. Counts(box[i + 1], n, h) /\ Counts(box[1], n, h) /\ i + 1 # 1
    BY <1>1, <1>2, <1>5, <2>1
  <2> QED BY <1>2, <2>2, OnceCounts
<1>6. ASSUME x.live
      PROVE  /\ x.kind \in PendingIn(box, x.mac)
             /\ PendingIn(new, x.mac) = PendingIn(box, x.mac) \ {x.kind}
  <2>1. \A h : Counts(x, x.mac, h) <=> h = x.kind
    BY <1>6 DEF Counts
  <2> QED BY <1>4, <1>5, <2>1
<1>7. ASSUME ~x.live PROVE PendingIn(new, x.mac) = PendingIn(box, x.mac)
  <2>1. \A h : ~Counts(x, x.mac, h)
    BY <1>7 DEF Counts
  <2> QED BY <1>4, <2>1
<1>8. ASSUME NEW n, n # x.mac PROVE PendingIn(new, n) = PendingIn(box, n)
  <2>1. \A h : ~Counts(x, n, h)
    BY <1>8 DEF Counts
  <2> QED BY <1>4, <2>1
<1>9. Len(new) <= Len(box)
  BY <1>1 DEF l
<1> QED BY <1>1, <1>3, <1>6, <1>7, <1>8, <1>9

\* Expiries that no longer count: those of m, of the kinds ks.
LEMMA Aborted ==
  ASSUME NEW box \in Seq(Expiry), Once(box), NEW m, NEW ks, NEW new,
         CancelledIn(new, box, m, ks)
  PROVE  /\ new \in Seq(Expiry) /\ Len(new) = Len(box) /\ Once(new)
         /\ PendingIn(new, m) = PendingIn(box, m) \ ks
         /\ \A n : n # m => PendingIn(new, n) = PendingIn(box, n)
<1> DEFINE gone(x) == x.mac = m /\ x.kind \in ks
           struck(x) == [x EXCEPT !.live = @ /\ ~gone(x)]
<1>1. Len(box) \in Nat /\ DOMAIN box = 1..Len(box) /\ \A i \in DOMAIN box : box[i] \in Expiry
  OBVIOUS
<1>2. DOMAIN new = DOMAIN box /\ \A i \in DOMAIN box : new[i] = struck(box[i])
  BY DEF CancelledIn
<1>3. ASSUME NEW x \in Expiry
      PROVE  /\ struck(x) \in Expiry
             /\ \A n, h : Counts(struck(x), n, h) <=>
                            Counts(x, n, h) /\ ~(n = m /\ h \in ks)
  <2> DEFINE b == x.live /\ ~gone(x)
             y == struck(x)
  <2>1. y = [x EXCEPT !.live = b]
    OBVIOUS
  <2>2. b \in BOOLEAN
    OBVIOUS
  <2> HIDE DEF b, y
  <2>3. y \in Expiry /\ y.mac = x.mac /\ y.kind = x.kind /\ y.live = b
    BY <2>1, <2>2 DEF Expiry
  <2>4. ASSUME NEW n, NEW h
        PROVE  Counts(y, n, h) <=> Counts(x, n, h) /\ ~(n = m /\ h \in ks)
    BY <2>3 DEF Counts, b
  <2> QED BY <2>3, <2>4 DEF y
<1> HIDE DEF struck
<1>4. \A i \in DOMAIN box : /\ new[i] \in Expiry
                            /\ \A n, h : Counts(new[i], n, h) <=>
                                           Counts(box[i], n, h) /\ ~(n = m /\ h \in ks)
  BY <1>1, <1>2, <1>3
<1>5. new = [i \in 1..Len(box) |-> struck(box[i])]
  BY <1>1 DEF struck, CancelledIn
<1>6. new \in Seq(Expiry) /\ Len(new) = Len(box)
  <2>1. \A i \in 1..Len(box) : struck(box[i]) \in Expiry
    BY <1>1, <1>3
  <2> QED BY <1>1, <1>5, <2>1
<1>7. Once(new)
  BY <1>2, <1>4, OnceCounts
<1>8. ASSUME NEW n, NEW h
      PROVE  h \in PendingIn(new, n) <=> h \in PendingIn(box, n) /\ ~(n = m /\ h \in ks)
  BY <1>2, <1>4, PendingMember
<1>9. PendingIn(new, m) = PendingIn(box, m) \ ks
  BY <1>8
<1>10. ASSUME NEW n, n # m PROVE PendingIn(new, n) = PendingIn(box, n)
  <2>1. \A h : h \in PendingIn(new, n) <=> h \in PendingIn(box, n)
    BY <1>8, <1>10
  <2> QED BY <2>1
<1> QED BY <1>6, <1>7, <1>9, <1>10

-----------------------------------------------------------------------------
(* The inductive invariant *)

\* A multi-host port never notes a Session-Timeout.
Excused == IF cfg.host_mode = "MultiHost" THEN {"SessionTimeout"} ELSE {}

\* Timers asleep, or expired and not yet handled.
Live(m) == armed[m] \cup PendingIn(inbox, m)

\* The world of m as it is, and as the authenticator believes it to be.
Actual(m) ==
  [timers |-> Live(m), acct |-> ledger[m], posture |-> dataplane[decorate(m)],
   noted |-> orch[m].session_timeout]
Believed(m, noted) == WorldOf(View(m, {}), noted, Excused)

JobType == [mac : Targets, fx : Seq(Effect), queue : Seq(Replies), steps : Nat]

WorldType ==
  /\ status \in {"up", "stopped"} \cup Boundary
  /\ orch \in [Mac -> SessionState]
  /\ armed \in [Mac -> SUBSET TimerKind]
  /\ inbox \in Seq(Expiry) /\ Len(inbox) <= MaxInbox
  /\ dataplane \in [Targets -> PortAuthorization]
  /\ ledger \in [Mac -> Nat]

TimersInv ==
  /\ Once(inbox)
  /\ \A m \in Mac : /\ armed[m] \cap PendingIn(inbox, m) = {}
                    /\ Live(m) \cap Excused = {}
                    /\ Excused # {} => ~orch[m].session_timeout

\* While no worker runs nothing is left of the last one.
Down ==
  status # "up" =>
    /\ Fresh /\ job = NoJob
    /\ \A m \in Mac : orch[m] = NewSessionState /\ armed[m] = {}
    /\ inbox = <<>>

InLine(m) == ledger[m] = acct[m] /\ Live(m) = timers[m] \ Excused

OthersInLine ==
  status = "up" =>
    /\ \A m \in Mac : m # job.mac => InLine(m)
    /\ \A t \in Targets : t # Target \/ job = NoJob => dataplane[t] = plane[t]

\* Where the exchange of the event in hand is: none, a request to send, or a
\* reply to be taken.
Stage ==
  LET m == job.mac
  IN  \/ /\ job.queue = <<>> /\ sess[m].st # "AuthServer"
         /\ Holds(job.fx, "records") /\ job.steps \in 1..2
      \/ /\ job.queue = <<>> /\ sess[m].st = "AuthServer"
         /\ Holds(job.fx, "request") /\ job.steps = 1
      \/ \E r \in Replies :
           /\ job.queue = <<r>> /\ sess[m].st = "AuthServer"
           /\ Holds(job.fx, "neither") /\ job.steps = 1
           /\ r.type = "AccessAccept" => orch[m].class = r.arg
           /\ r.type = "AccessChallenge" => orch[m].last_state

\* What is still to be performed leads to the world believed in.
JobLeads ==
  \E noted : Leads(job.fx, Actual(job.mac), Believed(job.mac, noted),
                   orch[job.mac].class, Excused)

JobInv ==
  job # NoJob => job.mac \in Mac /\ status = "up" /\ Stage /\ JobLeads

SessionInv(m) ==
  /\ sess[m].st = "AuthServer" => m = job.mac
  /\ sess[m].st = "Authenticating" => orch[m].last_state
  /\ sess[m].open => \/ orch[m].class = sess[m].authz
                     \/ m = job.mac /\ \E g \in Grants : job.queue = <<AccessAccept(g)>>

DInv ==
  /\ IInv /\ WorldType /\ job \in JobType
  /\ TimersInv /\ Down /\ OthersInLine /\ JobInv
  /\ \A m \in Mac : SessionInv(m)

-----------------------------------------------------------------------------
(* An event goes to the authenticator *)

\* The daemon hands e to the port for m, whose session keeps the Class `class`.
Handed(m, e, fired, class) ==
  /\ EventOK(e) /\ e.type \in DaemonTypes /\ Deliver(m, e, fired)
  /\ fired = {} \/ \E k \in timers[m] : fired = {k} /\ e = Timer(k)
  /\ sess[m].st = "AuthServer" <=> e.type \in ReplyTypes
  /\ sess[m].open /\ e.type # "AccessAccept" => class = sess[m].authz
  /\ e.type = "AccessAccept" => e = AccessAccept(class)

\* The port's own invariant survives.
LEMMA HandedOK ==
  ASSUME IInv, NEW m \in Mac, NEW e, NEW fired, NEW class, Handed(m, e, fired, class)
  PROVE  IInv'
<1>1. e.type = "AccessAccept" => Accept(m, e.arg)
  <2> SUFFICES ASSUME e.type = "AccessAccept" PROVE Accept(m, e.arg)
    OBVIOUS
  <2>1. e = AccessAccept(class) /\ e.arg = class
    BY DEF Handed, AccessAccept
  <2>2. fired = {}
    BY DEF Handed, Timer
  <2> QED BY <2>1, <2>2 DEF Handed, Accept, handle
<1>2. Delivered(m, e, fired)
  BY <1>1 DEF Handed, Delivered, DaemonTypes, ReplyTypes
<1> QED BY <1>2, DeliverOK

\* The event is dropped with no effect, or taken by m's session.
LEMMA HandedTaken ==
  ASSUME IInv, NEW m \in Mac, NEW e, NEW fired, NEW class, Handed(m, e, fired, class),
         NEW noted \in BOOLEAN, NEW x,
         x = [from |-> WorldOf(View(m, fired), noted, Excused), class |-> class,
              excused |-> Excused]
  PROVE  \/ /\ UNCHANGED vars /\ EffectsOf(m, e, fired) = <<>>
            /\ sess[m].st = "New" /\ e.type \notin ReplyTypes
         \/ \E d : /\ Commit(m, d) /\ EffectsOf(m, e, fired) = d.fx
                   /\ Taken(View(m, fired), e, d, cfg, x)
<1> DEFINE c == View(m, fired)
<1>1. cfg \in PaeConfig /\ TypeOK
  BY DEF IInv, TypeOK
<1>2. c \in Context /\ c.fx = <<>>
  BY <1>1, ViewType DEF View
<1>3. Tracked(c, x, "neither")
  <2> HIDE DEF c
  <2> QED BY <1>2, NothingYet DEF c
<1>4. x.class = class
  OBVIOUS
<1>5. EventOK(e) /\ e.type \in DaemonTypes /\ Deliver(m, e, fired)
  BY DEF Handed
<1>6. c.st = sess[m].st /\ c.open = sess[m].open /\ c.authz = sess[m].authz
  BY DEF View
<1>7. CASE m \in active_sessions
  <2>1. Commit(m, step(c, e, cfg)) /\ EffectsOf(m, e, fired) = step(c, e, cfg).fx
    BY <1>5, <1>7 DEF Deliver, EffectsOf
  <2>2. Ready(c, e, cfg)
    BY <1>1, <1>7, ViewInv, ViewReady DEF Handed
  <2> HIDE DEF c
  <2>3. /\ c.open /\ e.type # "AccessAccept" => x.class = c.authz
        /\ e.type = "AccessAccept" => x.class = e.arg
        /\ c.st = "AuthServer" <=> e.type \in ReplyTypes
    BY <1>4, <1>6 DEF Handed, AccessAccept
  <2>4. Takes(c, e, cfg, x)
    BY <1>3, <1>5, <2>2, <2>3 DEF Takes
  <2>5. c.st # "New"
    BY <1>6, <1>7 DEF active_sessions
  <2>6. Taken(c, e, step(c, e, cfg), cfg, x)
    BY <1>1, <1>5, <2>4, <2>5, StepTaken
  <2> QED BY <2>1, <2>6 DEF c
<1>8. CASE m \notin active_sessions
  <2>1. sess[m].st = "New" /\ e.type \notin ReplyTypes
    BY <1>8 DEF active_sessions, Handed
  <2>2. CASE can_admit
    <3>1. Commit(m, admit(c, e)) /\ EffectsOf(m, e, fired) = admit(c, e).fx
      BY <1>5, <1>8, <2>2 DEF Deliver, EffectsOf
    <3>2. CtxInv(View(m, {}), cfg) /\ View(m, {}).st = "New"
      BY <2>1, <2>2, ViewInv DEF View
    <3>3. timers[m] = {}
      BY <3>2 DEF CtxInv, ForgottenOK, View
    <3>4. CtxInv(c, cfg) /\ c.st = "New"
      BY <3>2, <3>3 DEF Handed
    <3> HIDE DEF c
    <3>5. Taken(c, e, admit(c, e), cfg, x)
      BY <1>1, <1>3, <1>5, <2>1, <3>4, AdmitTaken
    <3> QED BY <3>1, <3>5 DEF c
  <2>3. CASE ~can_admit
    BY <1>5, <1>8, <2>1, <2>3 DEF Deliver, EffectsOf
  <2> QED BY <2>2, <2>3
<1> QED BY <1>7, <1>8

\* The turn of m's session ends in d.
Lands(m, e, fired, d, x) ==
  /\ Commit(m, d) /\ EffectsOf(m, e, fired) = d.fx
  /\ d \in Context /\ Ends(d, x)
  /\ d.open => d.authz = x.class
  /\ e.type \in ReplyTypes => d.st # "AuthServer"
  /\ d.st = "Authenticating" => sess[m].st = "Authenticating" \/ e.type = "AccessChallenge"

\* Every event ends somewhere; one that is dropped, where it found the session.
LEMMA HandedLands ==
  ASSUME IInv, NEW m \in Mac, NEW e, NEW fired, NEW class, Handed(m, e, fired, class),
         NEW noted \in BOOLEAN, NEW x,
         x = [from |-> WorldOf(View(m, fired), noted, Excused), class |-> class,
              excused |-> Excused]
  PROVE  \E d : Lands(m, e, fired, d, x)
<1>1. CASE \E d : /\ Commit(m, d) /\ EffectsOf(m, e, fired) = d.fx
                  /\ Taken(View(m, fired), e, d, cfg, x)
  <2>1. PICK d : /\ Commit(m, d) /\ EffectsOf(m, e, fired) = d.fx
                 /\ Taken(View(m, fired), e, d, cfg, x)
    BY <1>1
  <2>2. View(m, fired).st = sess[m].st
    BY DEF View
  <2>3. Lands(m, e, fired, d, x)
    BY <2>1, <2>2 DEF Lands, Taken, CtxInv
  <2> QED BY <2>3
<1>2. CASE /\ UNCHANGED vars /\ EffectsOf(m, e, fired) = <<>>
           /\ sess[m].st = "New" /\ e.type \notin ReplyTypes
  <2> DEFINE d == View(m, {})
  <2>1. TypeOK /\ d \in Context /\ d.fx = <<>> /\ d.st = "New"
    BY <1>2, ViewType DEF IInv, View
  <2>2. ForgottenOK(d)
    BY DEF IInv, SessionForgottenOK
  <2>3. timers[m] = {} /\ SessionOf(d) = NewSession
    BY <2>1, <2>2 DEF ForgottenOK, View
  <2>4. fired = {}
    BY <2>3 DEF Handed
  <2>5. ~d.open
    BY <2>3 DEF SessionOf, NewSession
  <2>6. Commit(m, d)
    <3>1. d.timers = timers[m] /\ d.acct = acct[m] /\ d.posture = plane[decorate(m)]
      BY DEF View
    <3>2. SessionOf(d) = sess[m]
      <4>1. sess[m] \in PortSession
        BY <2>1 DEF TypeOK
      <4> QED BY <4>1 DEF SessionOf, View, PortSession
    <3> HIDE DEF d
    <3>3. UNCHANGED <<sess, timers, acct, plane, cfg>>
      BY <1>2 DEF vars
    <3> QED BY <2>1, <3>1, <3>2, <3>3, DecorateType DEF Commit, TypeOK
  <2>7. Tracked(d, x, "neither")
    <3>1. x = [from |-> WorldOf(d, noted, Excused), class |-> class, excused |-> Excused]
      BY <2>4
    <3> HIDE DEF d
    <3> QED BY <2>1, <3>1, NothingYet
  <2> HIDE DEF d
  <2>8. Ends(d, x)
    BY <2>1, <2>7, TrackedWeaker DEF Ends
  <2>9. Lands(m, e, fired, d, x)
    BY <1>2, <2>1, <2>5, <2>6, <2>8 DEF Lands
  <2> QED BY <2>9
<1> QED BY <1>1, <1>2, HandedTaken

\* What Commit makes of m, and of the others.
LEMMA CommitFields ==
  ASSUME TypeOK, NEW m \in Mac, NEW d \in Context, Commit(m, d)
  PROVE  /\ cfg' = cfg /\ Excused' = Excused /\ \A n \in Targets : decorate(n)' = decorate(n)
         /\ sess'[m].st = d.st /\ sess'[m].open = d.open /\ sess'[m].authz = d.authz
         /\ timers'[m] = d.timers /\ acct'[m] = d.acct /\ plane'[decorate(m)] = d.posture
         /\ \A noted : Believed(m, noted)' = WorldOf(d, noted, Excused)
         /\ \A n \in Mac \ {m} :
              sess'[n] = sess[n] /\ timers'[n] = timers[n] /\ acct'[n] = acct[n]
         /\ \A t \in Targets \ {decorate(m)} : plane'[t] = plane[t]
<1>1. /\ cfg' = cfg /\ sess' = [sess EXCEPT ![m] = SessionOf(d)]
      /\ timers' = [timers EXCEPT ![m] = d.timers]
      /\ acct' = [acct EXCEPT ![m] = d.acct]
      /\ plane' = [plane EXCEPT ![decorate(m)] = d.posture]
  BY DEF Commit
<1>2. Excused' = Excused /\ \A n \in Targets : decorate(n)' = decorate(n)
  BY <1>1 DEF Excused, decorate
<1>3. decorate(m) \in Targets /\ m \in Targets
  BY DecorateType DEF Targets
<1>4. /\ sess'[m] = SessionOf(d)
      /\ timers'[m] = d.timers /\ acct'[m] = d.acct /\ plane'[decorate(m)] = d.posture
  BY <1>1, <1>3 DEF TypeOK
<1>5. /\ SessionOf(d).st = d.st /\ SessionOf(d).open = d.open /\ SessionOf(d).authz = d.authz
  BY DEF SessionOf
<1>6. /\ \A n \in Mac \ {m} :
           sess'[n] = sess[n] /\ timers'[n] = timers[n] /\ acct'[n] = acct[n]
      /\ \A t \in Targets \ {decorate(m)} : plane'[t] = plane[t]
  BY <1>1, <1>3 DEF TypeOK
<1>7. ASSUME NEW noted PROVE Believed(m, noted)' = WorldOf(d, noted, Excused)
  <2>1. View(m, {})'.timers = timers'[m] /\ View(m, {})'.acct = acct'[m]
        /\ View(m, {})'.posture = plane'[decorate(m)']
    BY DEF View
  <2>2. Believed(m, noted)' = WorldOf(View(m, {})', noted, Excused')
    BY DEF Believed, WorldOf
  <2> QED BY <1>2, <1>3, <1>4, <2>1, <2>2 DEF WorldOf
<1> QED BY <1>1, <1>2, <1>4, <1>5, <1>6, <1>7

\* One turn of handle_event's loop: e is taken for m, and the world is the one
\* m's session believes in, the timer that has expired apart.
Turn(m, e, fired, steps) ==
  /\ status = "up" /\ (job = NoJob \/ job.mac = m)
  /\ Handed(m, e, fired, orch[m].class)
  /\ job' = Advance([mac |-> m, fx |-> EffectsOf(m, e, fired), queue |-> <<>>,
                     steps |-> steps])
  /\ UNCHANGED <<status, orch, armed, dataplane, ledger>>
  /\ inbox' \in Seq(Expiry) /\ Len(inbox') <= MaxInbox /\ Once(inbox')
  /\ \A n \in Mac : /\ PendingIn(inbox', n) \subseteq PendingIn(inbox, n)
                    /\ n # m => PendingIn(inbox', n) = PendingIn(inbox, n)
  /\ armed[m] \cup PendingIn(inbox', m) = (timers[m] \ fired) \ Excused
  /\ ledger[m] = acct[m] /\ dataplane[decorate(m)] = plane[decorate(m)]
  /\ steps \in 1..2 /\ (steps = 2 => e.type \in ReplyTypes)
  /\ e.type = "AccessChallenge" => orch[m].last_state

\* A turn preserves the invariant.
LEMMA TurnOK ==
  ASSUME DInv, NEW m \in Mac, NEW e, NEW fired, NEW steps, Turn(m, e, fired, steps)
  PROVE  DInv'
<1> DEFINE noted == orch[m].session_timeout
           x == [from |-> WorldOf(View(m, fired), noted, Excused),
                 class |-> orch[m].class, excused |-> Excused]
<1>1. /\ IInv /\ TypeOK /\ WorldType /\ job \in JobType /\ TimersInv /\ OthersInLine
      /\ \A n \in Mac : SessionInv(n)
  BY DEF DInv, IInv
<1>2. /\ status = "up" /\ status' = status /\ orch' = orch /\ armed' = armed
      /\ dataplane' = dataplane /\ ledger' = ledger
  BY DEF Turn
<1>3. noted \in BOOLEAN
  BY <1>1 DEF WorldType, SessionState
<1>4. IInv'
  BY <1>1, HandedOK DEF Turn
<1>5. PICK d : Lands(m, e, fired, d, x)
  <2> HIDE DEF noted
  <2> QED BY <1>1, <1>3, HandedLands DEF Turn
<1>6. d \in Context /\ Commit(m, d)
  BY <1>5 DEF Lands
<1>7. /\ cfg' = cfg /\ Excused' = Excused /\ \A n \in Targets : decorate(n)' = decorate(n)
      /\ sess'[m].st = d.st /\ sess'[m].open = d.open /\ sess'[m].authz = d.authz
      /\ timers'[m] = d.timers /\ acct'[m] = d.acct /\ plane'[decorate(m)] = d.posture
      /\ \A b : Believed(m, b)' = WorldOf(d, b, Excused)
      /\ \A n \in Mac \ {m} :
           sess'[n] = sess[n] /\ timers'[n] = timers[n] /\ acct'[n] = acct[n]
      /\ \A t \in Targets \ {decorate(m)} : plane'[t] = plane[t]
  BY <1>1, <1>6, CommitFields
<1>8. m \in Targets /\ decorate(m) \in Targets /\ m # Port /\ Port \in Targets
  BY DecorateType, PortAssumption DEF Targets
<1>9. x.from = Actual(m)' /\ x.class = orch[m].class /\ x.excused = Excused
  <2>1. Actual(m)' = [timers |-> armed'[m] \cup PendingIn(inbox', m), acct |-> ledger'[m],
                      posture |-> dataplane'[decorate(m)'],
                      noted |-> orch'[m].session_timeout]
    BY DEF Actual, Live
  <2>2. /\ View(m, fired).timers = timers[m] \ fired /\ View(m, fired).acct = acct[m]
        /\ View(m, fired).posture = plane[decorate(m)]
    BY DEF View
  <2>3. /\ armed[m] \cup PendingIn(inbox', m) = (timers[m] \ fired) \ Excused
        /\ ledger[m] = acct[m] /\ dataplane[decorate(m)] = plane[decorate(m)]
    BY DEF Turn
  <2>4. WorldOf(View(m, fired), noted, Excused) = Actual(m)'
    BY <1>2, <1>7, <1>8, <2>1, <2>2, <2>3 DEF WorldOf
  <2> QED BY <2>4
<1> DEFINE what == IF d.st = "AuthServer" THEN "request" ELSE "records"
           j == [mac |-> m, fx |-> d.fx, queue |-> <<>>, steps |-> steps]
<1>10. PICK b : Tracks(d, x.from, b, x.class, x.excused, what)
  BY <1>5 DEF Lands, Ends, Tracked
<1>11. /\ Leads(d.fx, Actual(m)', Believed(m, b)', orch[m].class, Excused)
       /\ Holds(d.fx, what)
  BY <1>7, <1>9, <1>10 DEF Tracks
<1> HIDE DEF x, noted
<1>12. job' = IF d.fx = <<>> THEN NoJob ELSE j
  BY <1>5 DEF Turn, Lands, Advance
<1>13. j \in JobType /\ NoJob \in JobType
  <2>1. d.fx \in Seq(Effect) /\ <<>> \in Seq(Effect) /\ <<>> \in Seq(Replies)
    BY <1>6 DEF Context
  <2>2. steps \in Nat
    BY DEF Turn
  <2> QED BY <1>8, <2>1, <2>2 DEF JobType, NoJob
<1>14. j.mac = m /\ j.fx = d.fx /\ j.queue = <<>> /\ j.steps = steps
       /\ NoJob.mac = Port /\ NoJob.fx = <<>>
  BY DEF NoJob
<1>15. job' \in JobType
  BY <1>12, <1>13
<1>16. d.fx # <<>> => job' = j /\ job'.mac = m
  BY <1>12, <1>14
<1>17. d.fx = <<>> => job' = NoJob /\ job'.mac = Port
  BY <1>12, <1>14
<1> HIDE DEF j
<1>18. \A n \in Mac : n # m => /\ n # job.mac /\ n # job'.mac
                               /\ PendingIn(inbox', n) = PendingIn(inbox, n)
  <2>1. job.mac \in {m, Port} /\ job'.mac \in {m, Port}
    BY <1>14, <1>16, <1>17 DEF Turn
  <2> QED BY <2>1, PortAssumption DEF Turn
<1>19. WorldType'
  BY <1>1, <1>2 DEF WorldType, Turn
<1>20. TimersInv'
  <2>1. Once(inbox)'
    BY DEF Turn, Once
  <2>2. ASSUME NEW n \in Mac
        PROVE  /\ armed'[n] \cap PendingIn(inbox', n) = {}
               /\ (armed'[n] \cup PendingIn(inbox', n)) \cap Excused = {}
               /\ Excused # {} => ~orch'[n].session_timeout
    <3>1. PendingIn(inbox', n) \subseteq PendingIn(inbox, n)
      BY DEF Turn
    <3> QED BY <1>1, <1>2, <3>1 DEF TimersInv, Live
  <2>3. \A n \in Mac : PendingIn(inbox, n)' = PendingIn(inbox', n)
    BY DEF PendingIn
  <2> QED BY <1>7, <2>1, <2>2, <2>3 DEF TimersInv, Live
<1>21. Down'
  BY <1>2 DEF Down
<1>22. d.fx = <<>> => /\ Actual(m)' = Believed(m, b)' /\ d.st # "AuthServer"
  <2> SUFFICES ASSUME d.fx = <<>>
               PROVE  Actual(m)' = Believed(m, b)' /\ d.st # "AuthServer"
    OBVIOUS
  <2>1. Leads(<<>>, Actual(m)', Believed(m, b)', orch[m].class, Excused)
    BY <1>11
  <2>2. Actual(m)' = Believed(m, b)'
    BY <2>1, LeadsDone
  <2>3. ~Holds(<<>>, "request")
    BY DEF Holds
  <2> QED BY <1>11, <2>2, <2>3
<1>23. OthersInLine'
  <2>1. \A n \in Mac : InLine(n)' <=>
          /\ ledger'[n] = acct'[n]
          /\ armed'[n] \cup PendingIn(inbox', n) = timers'[n] \ Excused
    BY <1>7 DEF InLine, Live, PendingIn
  <2>2. \A n \in Mac : n # m => InLine(n)'
    <3>1. \A n \in Mac : n # m => InLine(n)
      BY <1>1, <1>2, <1>18 DEF OthersInLine
    <3> QED BY <1>2, <1>7, <1>18, <2>1, <3>1 DEF InLine, Live
  <2>3. \A t \in Targets : t # decorate(m) => dataplane'[t] = plane'[t]
    <3>1. \A t \in Targets : t # decorate(m) => dataplane[t] = plane[t]
      BY <1>1, <1>2 DEF OthersInLine, Turn, Target
    <3> QED BY <1>2, <1>7, <3>1
  <2>4. CASE d.fx # <<>>
    <3>1. job'.mac = m /\ Target' = decorate(m)
      BY <1>7, <1>8, <1>16, <2>4 DEF Target
    <3>2. job' # NoJob
      BY <1>14, <1>16, <2>4
    <3> QED BY <2>2, <2>3, <3>1, <3>2 DEF OthersInLine
  <2>5. CASE d.fx = <<>>
    <3>1. Actual(m)' = WorldOf(d, b, Excused)
      BY <1>7, <1>22, <2>5
    <3>2. /\ Actual(m)'.timers = armed'[m] \cup PendingIn(inbox', m)
          /\ Actual(m)'.acct = ledger'[m] /\ Actual(m)'.posture = dataplane'[decorate(m)]
      BY <1>7, <1>8 DEF Actual, Live, PendingIn
    <3>3. /\ WorldOf(d, b, Excused).timers = d.timers \ Excused
          /\ WorldOf(d, b, Excused).acct = d.acct /\ WorldOf(d, b, Excused).posture = d.posture
      BY DEF WorldOf
    <3>4. InLine(m)' /\ dataplane'[decorate(m)] = plane'[decorate(m)]
      BY <1>7, <2>1, <3>1, <3>2, <3>3
    <3> QED BY <2>2, <2>3, <3>4 DEF OthersInLine
  <2> QED BY <2>4, <2>5
<1>24. JobInv'
  <2> SUFFICES ASSUME job' # NoJob
               PROVE  job'.mac \in Mac /\ status' = "up" /\ Stage' /\ JobLeads'
    BY DEF JobInv, NoJob
  <2>1. d.fx # <<>>
    BY <1>17
  <2>2. job' = j /\ job'.mac = m /\ job'.fx = d.fx /\ job'.queue = <<>> /\ job'.steps = steps
    BY <1>14, <1>16, <2>1
  <2>3. JobLeads'
    BY <1>2, <1>7, <1>11, <2>2 DEF JobLeads
  <2>4. Stage'
    <3>1. steps \in 1..2 /\ (steps = 2 => d.st # "AuthServer")
      BY <1>5 DEF Turn, Lands
    <3> QED BY <1>7, <1>11, <2>2, <3>1 DEF Stage
  <2> QED BY <1>2, <2>2, <2>3, <2>4
<1>25. ASSUME NEW n \in Mac PROVE SessionInv(n)'
  <2>1. CASE n = m
    <3>1. d.st = "AuthServer" => job'.mac = m
      BY <1>16, <1>22
    <3>2. d.st = "Authenticating" => orch[m].last_state
      BY <1>1, <1>5 DEF Lands, SessionInv, Turn
    <3>3. d.open => orch[m].class = d.authz
      BY <1>5, <1>9 DEF Lands
    <3> QED BY <1>2, <1>7, <2>1, <3>1, <3>2, <3>3 DEF SessionInv
  <2>2. CASE n # m
    <3>1. sess'[n] = sess[n] /\ n # job.mac
      BY <1>7, <1>18, <2>2
    <3> QED BY <1>1, <1>2, <3>1 DEF SessionInv
  <2> QED BY <2>1, <2>2
<1> QED BY <1>4, <1>15, <1>19, <1>20, <1>21, <1>23, <1>24, <1>25 DEF DInv

\* Between events nothing is left to be done.
LEMMA IdleInLine ==
  ASSUME DInv, idle, NEW m \in Mac
  PROVE  /\ InLine(m) /\ \A t \in Targets : dataplane[t] = plane[t]
         /\ sess[m].st # "AuthServer"
         /\ sess[m].open => orch[m].class = sess[m].authz
<1>1. /\ status = "up" /\ job = NoJob /\ job.mac = Port /\ m # job.mac
  BY PortAssumption DEF idle, NoJob
<1>2. OthersInLine /\ SessionInv(m)
  BY DEF DInv
<1> QED BY <1>1, <1>2 DEF OthersInLine, SessionInv

\* A frame.
LEMMA FrameOK ==
  ASSUME DInv, NEW m \in Mac, dispatch_frame(m)
  PROVE  DInv'
<1>1. PICK e : /\ e \in {Event("EapolStart"), Event("EapolLogoff")}
                       \cup {EapFromSupplicant(eap) : eap \in EapPacket}
               /\ handle_event(m, e, {})
  BY DEF dispatch_frame
<1>2. /\ EventOK(e) /\ e.type \in DaemonTypes /\ e.type \notin ReplyTypes
  BY <1>1 DEF EventOK, Event, EapFromSupplicant, DaemonTypes, ReplyTypes
<1>3. /\ idle /\ Deliver(m, e, {}) /\ UNCHANGED <<status, orch, world>>
      /\ job' = Advance([mac |-> m, fx |-> EffectsOf(m, e, {}), queue |-> <<>>, steps |-> 1])
  BY <1>1 DEF handle_event, Process, dispatch_frame
<1>4. /\ InLine(m) /\ \A t \in Targets : dataplane[t] = plane[t]
      /\ sess[m].st # "AuthServer" /\ (sess[m].open => orch[m].class = sess[m].authz)
  BY <1>3, IdleInLine
<1>5. Handed(m, e, {}, orch[m].class)
  BY <1>2, <1>3, <1>4 DEF Handed, ReplyTypes
<1>6. /\ UNCHANGED <<armed, inbox, dataplane, ledger>> /\ WorldType /\ TimersInv
  BY <1>3 DEF world, DInv
<1>7. decorate(m) \in Targets
  BY DecorateType
<1>8. Turn(m, e, {}, 1)
  BY <1>2, <1>3, <1>4, <1>5, <1>6, <1>7 DEF Turn, InLine, Live, WorldType, TimersInv,
     idle, ReplyTypes
<1> QED BY <1>8, TurnOK

\* An expiry.
LEMMA TimerEventOK ==
  ASSUME DInv, TimerEvent
  PROVE  DInv'
<1> DEFINE x == Head(inbox)
           m == x.mac
           e == Timer(x.kind)
           fired == IF x.live THEN {x.kind} ELSE {}
<1>1. /\ inbox # <<>> /\ inbox' = Tail(inbox) /\ idle /\ Deliver(m, e, fired)
      /\ job' = Advance([mac |-> m, fx |-> EffectsOf(m, e, fired), queue |-> <<>>,
                         steps |-> 1])
      /\ UNCHANGED <<status, orch, armed, dataplane, ledger>>
  BY DEF TimerEvent, handle_event, Process
<1>2. WorldType /\ TimersInv /\ inbox \in Seq(Expiry) /\ Once(inbox) /\ Len(inbox) <= MaxInbox
  BY DEF DInv, WorldType, TimersInv
<1>3. TakenFrom(inbox', inbox, x)
  BY <1>1 DEF TakenFrom
<1>4. e.type = "Timer" /\ EventOK(e) /\ e.type \in DaemonTypes /\ e.type \notin ReplyTypes
  BY DEF EventOK, Timer, DaemonTypes, ReplyTypes
<1> HIDE DEF x, m, e, fired
<1>5. /\ x \in Expiry /\ inbox' \in Seq(Expiry) /\ Len(inbox') <= Len(inbox) /\ Once(inbox')
      /\ x.live => /\ x.kind \in PendingIn(inbox, m)
                   /\ PendingIn(inbox', m) = PendingIn(inbox, m) \ {x.kind}
      /\ ~x.live => PendingIn(inbox', m) = PendingIn(inbox, m)
      /\ \A n : n # m => PendingIn(inbox', n) = PendingIn(inbox, n)
  BY <1>2, <1>3, Received DEF m
<1>6. m \in Mac /\ x.live \in BOOLEAN
  BY <1>5 DEF Expiry, m
<1>7. /\ InLine(m) /\ \A t \in Targets : dataplane[t] = plane[t]
      /\ sess[m].st # "AuthServer" /\ (sess[m].open => orch[m].class = sess[m].authz)
  BY <1>1, <1>6, IdleInLine
<1>8. fired = {} \/ \E k \in timers[m] : fired = {k} /\ e = Timer(k)
  <2>1. CASE x.live
    <3>1. x.kind \in timers[m]
      BY <1>5, <1>7, <2>1 DEF InLine, Live
    <3> QED BY <2>1, <3>1 DEF fired, e
  <2>2. CASE ~x.live
    BY <2>2 DEF fired
  <2> QED BY <2>1, <2>2
<1>9. Handed(m, e, fired, orch[m].class)
  BY <1>1, <1>4, <1>7, <1>8 DEF Handed
<1>10. armed[m] \cup PendingIn(inbox', m) = (timers[m] \ fired) \ Excused
  <2>1. armed[m] \cup PendingIn(inbox, m) = timers[m] \ Excused
    BY <1>7 DEF InLine, Live
  <2>2. armed[m] \cap PendingIn(inbox, m) = {}
    BY <1>2, <1>6 DEF TimersInv
  <2>3. CASE x.live
    <3>1. fired = {x.kind}
      BY <2>3 DEF fired
    <3>2. PendingIn(inbox', m) = PendingIn(inbox, m) \ {x.kind} /\ x.kind \notin armed[m]
      BY <1>5, <2>2, <2>3
    <3> QED BY <2>1, <3>1, <3>2
  <2>4. CASE ~x.live
    <3>1. fired = {} /\ PendingIn(inbox', m) = PendingIn(inbox, m)
      BY <1>5, <2>4 DEF fired
    <3> QED BY <2>1, <3>1
  <2> QED BY <2>3, <2>4
<1>11. \A n \in Mac : /\ PendingIn(inbox', n) \subseteq PendingIn(inbox, n)
                      /\ n # m => PendingIn(inbox', n) = PendingIn(inbox, n)
  <2>1. PendingIn(inbox', m) \subseteq PendingIn(inbox, m)
    BY <1>5, <1>6
  <2> QED BY <1>5, <2>1
<1>12. Len(inbox') <= MaxInbox
  <2>1. Len(inbox) \in Nat /\ Len(inbox') \in Nat /\ MaxInbox \in Nat
    BY <1>2, <1>5, AuthdAssumption
  <2> QED BY <1>2, <1>5, <2>1
<1>13. decorate(m) \in Targets
  BY <1>6, DecorateType
<1>14. status = "up" /\ job = NoJob
  BY <1>1 DEF idle
<1>15. Turn(m, e, fired, 1)
  BY <1>1, <1>4, <1>5, <1>7, <1>9, <1>10, <1>11, <1>12, <1>13, <1>14
     DEF Turn, InLine, ReplyTypes
<1> QED BY <1>6, <1>15, TurnOK

\* The follow-up of an event: its reply.
LEMMA FollowUpOK ==
  ASSUME DInv, FollowUp
  PROVE  DInv'
<1> DEFINE m == job.mac
<1>1. status = "up" /\ job.fx = <<>> /\ job.queue # <<>> /\ UNCHANGED <<status, orch, world>>
  BY DEF FollowUp
<1>2. job # NoJob
  BY <1>1 DEF NoJob
<1>3. m \in Mac /\ Stage /\ JobLeads /\ WorldType /\ TimersInv /\ job \in JobType
      /\ IInv /\ SessionInv(m)
  BY <1>2 DEF DInv, JobInv
<1>4. PICK e \in Replies :
           /\ job.queue = <<e>> /\ sess[m].st = "AuthServer" /\ job.steps = 1
           /\ e.type = "AccessAccept" => orch[m].class = e.arg
           /\ e.type = "AccessChallenge" => orch[m].last_state
  BY <1>1, <1>3 DEF Stage
<1>5. Head(job.queue) = e /\ Tail(job.queue) = <<>> /\ job.steps < MaxSteps /\ job.steps + 1 = 2
  BY <1>4, AuthdAssumption
<1>6. /\ Deliver(m, e, {})
      /\ job' = Advance([mac |-> m, fx |-> EffectsOf(m, e, {}), queue |-> <<>>, steps |-> 2])
  BY <1>5 DEF FollowUp, Process
<1>7. /\ EventOK(e) /\ e.type \in DaemonTypes /\ e.type \in ReplyTypes
      /\ e.type = "AccessAccept" => \E g \in Grants : e = AccessAccept(g)
  BY DEF Replies, EventOK, Event, AccessAccept, DaemonTypes, ReplyTypes
<1>8. e.type = "AccessAccept" => e = AccessAccept(orch[m].class)
  BY <1>4, <1>7 DEF AccessAccept
<1>9. sess[m].open /\ e.type # "AccessAccept" => orch[m].class = sess[m].authz
  <2>1. \A g \in Grants : job.queue = <<AccessAccept(g)>> => e.type = "AccessAccept"
    BY <1>4 DEF AccessAccept
  <2> QED BY <1>3, <2>1 DEF SessionInv
<1>10. Handed(m, e, {}, orch[m].class)
  BY <1>4, <1>6, <1>7, <1>8, <1>9 DEF Handed
<1>11. PICK b : Leads(<<>>, Actual(m), Believed(m, b), orch[m].class, Excused)
  BY <1>1, <1>3 DEF JobLeads
<1>12. Believed(m, b) = Actual(m)
  BY <1>11, LeadsDone
<1>13. /\ Live(m) = timers[m] \ Excused /\ ledger[m] = acct[m]
       /\ dataplane[decorate(m)] = plane[decorate(m)]
  <2>1. /\ Actual(m).timers = Live(m) /\ Actual(m).acct = ledger[m]
        /\ Actual(m).posture = dataplane[decorate(m)]
    BY DEF Actual
  <2>2. /\ Believed(m, b).timers = timers[m] \ Excused /\ Believed(m, b).acct = acct[m]
        /\ Believed(m, b).posture = plane[decorate(m)]
    BY DEF Believed, WorldOf, View
  <2> QED BY <1>12, <2>1, <2>2
<1>14. UNCHANGED <<armed, inbox, dataplane, ledger>>
  BY <1>1 DEF world
<1> HIDE DEF m
<1>15. Turn(m, e, {}, 2)
  BY <1>1, <1>3, <1>4, <1>6, <1>7, <1>10, <1>13, <1>14
     DEF Turn, Live, WorldType, TimersInv, m
<1> QED BY <1>3, <1>15, TurnOK

-----------------------------------------------------------------------------
(* An effect is performed *)

\* The first effect is performed, for the MAC of the event in hand.
Did(m) ==
  /\ status = "up" /\ job.fx # <<>> /\ m = job.mac /\ UNCHANGED <<vars, status>>
  /\ \A n \in Mac \ {m} :
       /\ armed'[n] = armed[n] /\ PendingIn(inbox', n) = PendingIn(inbox, n)
       /\ ledger'[n] = ledger[n] /\ orch'[n] = orch[n]
  /\ \A t \in Targets \ {Target} : dataplane'[t] = dataplane[t]
  /\ orch' \in [Mac -> SessionState] /\ armed' \in [Mac -> SUBSET TimerKind]
  /\ inbox' \in Seq(Expiry) /\ Len(inbox') = Len(inbox) /\ Once(inbox')
  /\ dataplane' \in [Targets -> PortAuthorization] /\ ledger' \in [Mac -> Nat]
  /\ armed'[m] \cap PendingIn(inbox', m) = {}
  /\ Excused # {} => ~orch'[m].session_timeout
  /\ Actual(m)' = Perform(Head(job.fx), Actual(m), Excused)

\* An event in hand.
LEMMA InHand ==
  ASSUME DInv, job.fx # <<>>
  PROVE  /\ job # NoJob /\ job.mac \in Mac /\ job.mac \in Targets /\ status = "up"
         /\ Stage /\ JobLeads /\ job.fx \in Seq(Effect) /\ job.queue \in Seq(Replies)
         /\ Head(job.fx) \in Effect
<1>1. job # NoJob
  BY DEF NoJob
<1>2. job \in JobType /\ job.mac \in Mac /\ status = "up" /\ Stage /\ JobLeads
  BY <1>1 DEF DInv, JobInv
<1>3. job.fx \in Seq(Effect) /\ job.queue \in Seq(Replies)
  BY <1>2 DEF JobType
<1> QED BY <1>1, <1>2, <1>3 DEF Targets

\* What it leaves alone, and where the effects left lead.
LEMMA DidFrame ==
  ASSUME DInv, NEW m, Did(m)
  PROVE  /\ IInv' /\ WorldType' /\ TimersInv' /\ Down'
         /\ \A n \in Mac \ {m} : InLine(n)'
         /\ \A t \in Targets \ {decorate(m)} : dataplane'[t] = plane'[t]
         /\ Excused' = Excused /\ sess' = sess
         /\ \A t \in Targets : decorate(t)' = decorate(t)
         /\ \A b : Believed(m, b)' = Believed(m, b)
         /\ Allowed(Head(job.fx), Actual(m), orch[m].class, Excused)
         /\ \E b : Leads(Tail(job.fx), Actual(m)', Believed(m, b)', orch[m].class, Excused)
<1>1. /\ job.mac = m /\ m \in Mac /\ status = "up" /\ JobLeads /\ job.fx \in Seq(Effect)
      /\ job.fx # <<>> /\ job # NoJob
  BY InHand DEF Did
<1>2. /\ status' = status /\ cfg' = cfg /\ sess' = sess /\ timers' = timers
      /\ acct' = acct /\ plane' = plane
  BY DEF Did, vars
<1>3. Excused' = Excused /\ \A t \in Targets : decorate(t)' = decorate(t)
  BY <1>2 DEF Excused, decorate
<1>4. IInv'
  BY StutterOK DEF DInv, Did
<1>5. WorldType'
  BY <1>2 DEF DInv, WorldType, Did
<1>6. PICK b : Leads(job.fx, Actual(m), Believed(m, b), orch[m].class, Excused)
  BY <1>1 DEF JobLeads
<1>7. /\ Allowed(Head(job.fx), Actual(m), orch[m].class, Excused)
      /\ Leads(Tail(job.fx), Actual(m)', Believed(m, b), orch[m].class, Excused)
  BY <1>1, <1>6, LeadsFirst DEF Did
<1>8. \A c : Believed(m, c)' = Believed(m, c)
  BY <1>1, <1>2, <1>3 DEF Believed, WorldOf, View, Targets
<1>9. TimersInv'
  <2>1. Once(inbox)'
    BY DEF Did, Once
  <2>2. \A n \in Mac : PendingIn(inbox, n)' = PendingIn(inbox', n)
    BY DEF PendingIn
  <2>3. (armed'[m] \cup PendingIn(inbox', m)) \cap Excused = {}
    <3>1. /\ Actual(m)'.timers = armed'[m] \cup PendingIn(inbox', m)
          /\ Actual(m).timers = Live(m)
      BY <2>2 DEF Actual, Live
    <3>2. Live(m) \cap Excused = {}
      BY <1>1 DEF DInv, TimersInv
    <3>3. Actual(m)'.timers \in {Live(m) \cup ({Head(job.fx).arg} \ Excused),
                                 Live(m) \ {Head(job.fx).arg}, {}, Live(m)}
      BY <3>1 DEF Did, Perform
    <3> QED BY <3>1, <3>2, <3>3
  <2>4. ASSUME NEW n \in Mac
        PROVE  /\ armed'[n] \cap PendingIn(inbox', n) = {}
               /\ (armed'[n] \cup PendingIn(inbox', n)) \cap Excused = {}
               /\ Excused # {} => ~orch'[n].session_timeout
    <3>1. CASE n = m
      BY <2>3, <3>1 DEF Did
    <3>2. CASE n # m
      BY <3>2 DEF DInv, TimersInv, Live, Did
    <3> QED BY <3>1, <3>2
  <2> QED BY <1>3, <2>1, <2>2, <2>4 DEF TimersInv, Live
<1>10. Down'
  BY <1>1, <1>2 DEF Down
<1>11. ASSUME NEW n \in Mac \ {m} PROVE InLine(n)'
  <2>1. InLine(n)
    BY <1>1 DEF DInv, OthersInLine
  <2>2. PendingIn(inbox, n)' = PendingIn(inbox, n)
    BY DEF Did, PendingIn
  <2>3. armed'[n] = armed[n] /\ ledger'[n] = ledger[n]
    BY DEF Did
  <2> QED BY <1>2, <1>3, <2>1, <2>2, <2>3 DEF InLine, Live
<1>12. ASSUME NEW t \in Targets \ {decorate(m)} PROVE dataplane'[t] = plane'[t]
  <2>1. dataplane[t] = plane[t] /\ Target = decorate(m)
    BY <1>1 DEF DInv, OthersInLine, Target
  <2> QED BY <1>2, <2>1 DEF Did
<1> QED BY <1>2, <1>3, <1>4, <1>5, <1>7, <1>8, <1>9, <1>10, <1>11, <1>12

\* An effect with no follow-up.
LEMMA DidOK ==
  ASSUME DInv, NEW m, Did(m), Done(<<>>), Head(job.fx).do \notin Requests,
         orch'[m].class = orch[m].class, orch'[m].last_state = orch[m].last_state
  PROVE  DInv'
<1> DEFINE fx == Tail(job.fx)
           j == [job EXCEPT !.fx = fx]
<1>1. /\ job.mac = m /\ m \in Mac /\ m \in Targets /\ status = "up" /\ Stage
      /\ job.fx \in Seq(Effect) /\ job.fx # <<>> /\ job.queue \in Seq(Replies)
  BY InHand DEF Did
<1>2. job \in JobType /\ fx \in Seq(Effect)
  BY <1>1 DEF DInv
<1>3. job' = Advance(j)
  <2>1. [job EXCEPT !.fx = Tail(@), !.queue = @ \o <<>>] = j
    <3>1. job.queue \o <<>> = job.queue
      BY <1>1
    <3>2. [job EXCEPT !.queue = job.queue] = job
      BY <1>2 DEF JobType
    <3> QED BY <1>2, <3>1, <3>2 DEF JobType
  <2> QED BY <2>1 DEF Done
<1> HIDE DEF fx
<1>4. /\ j \in JobType /\ j.mac = m /\ j.fx = fx /\ j.queue = job.queue
      /\ j.steps = job.steps
  BY <1>1, <1>2 DEF JobType
<1>5. NoJob \in JobType /\ NoJob.mac = Port /\ NoJob.fx = <<>> /\ NoJob.queue = <<>>
      /\ Port \notin Mac
  BY PortAssumption DEF NoJob, JobType, Targets
<1> HIDE DEF j
<1>6. job' = IF fx = <<>> /\ job.queue = <<>> THEN NoJob ELSE j
  BY <1>3, <1>4 DEF Advance
<1>7. /\ IInv' /\ WorldType' /\ TimersInv' /\ Down'
      /\ \A n \in Mac \ {m} : InLine(n)'
      /\ \A t \in Targets \ {decorate(m)} : dataplane'[t] = plane'[t]
      /\ Excused' = Excused /\ sess' = sess
      /\ \A t \in Targets : decorate(t)' = decorate(t)
  BY DidFrame
<1>8. PICK b : Leads(fx, Actual(m)', Believed(m, b)', orch[m].class, Excused)
  BY DidFrame DEF fx
<1>9. \A what \in {"neither", "records", "request"} :
        Holds(job.fx, what) => Holds(fx, what)
  BY <1>1, HoldsTail DEF fx
<1>10. fx = <<>> /\ job.queue = <<>> => sess[m].st # "AuthServer"
  <2>1. ~Holds(<<>>, "request")
    BY DEF Holds
  <2> QED BY <1>1, <1>9, <2>1 DEF Stage
<1>11. status' = "up"
  BY <1>1 DEF Did
<1>12. job' \in JobType /\ job'.mac \in {m, Port}
  BY <1>4, <1>5, <1>6
<1>13. CASE fx = <<>> /\ job.queue = <<>>
  <2>1. job' = NoJob
    BY <1>6, <1>13
  <2>2. Actual(m)' = Believed(m, b)'
    <3>1. Leads(<<>>, Actual(m)', Believed(m, b)', orch[m].class, Excused)
      BY <1>8, <1>13
    <3> QED BY <3>1, LeadsDone
  <2>3. InLine(m)' /\ dataplane'[decorate(m)'] = plane'[decorate(m)']
    <3>1. /\ Actual(m)'.timers = Live(m)' /\ Actual(m)'.acct = ledger'[m]
          /\ Actual(m)'.posture = dataplane'[decorate(m)']
      BY DEF Actual
    <3>2. /\ Believed(m, b)'.timers = timers'[m] \ Excused' /\ Believed(m, b)'.acct = acct'[m]
          /\ Believed(m, b)'.posture = plane'[decorate(m)']
      BY DEF Believed, WorldOf, View
    <3> QED BY <2>2, <3>1, <3>2 DEF InLine
  <2>4. OthersInLine'
    <3>1. \A n \in Mac : InLine(n)'
      BY <1>7, <2>3
    <3>2. \A t \in Targets : dataplane'[t] = plane'[t]
      BY <1>1, <1>7, <2>3
    <3> QED BY <3>1, <3>2 DEF OthersInLine
  <2>5. JobInv'
    BY <2>1 DEF JobInv, NoJob
  <2>6. ASSUME NEW n \in Mac PROVE SessionInv(n)'
    <3>1. SessionInv(n) /\ n # job'.mac /\ sess'[n] = sess[n]
      BY <1>5, <1>7, <2>1 DEF DInv
    <3>2. CASE n = m
      <4>1. \A g : job.queue # <<AccessAccept(g)>>
        BY <1>13
      <4> QED BY <1>1, <1>10, <1>13, <3>1, <3>2, <4>1 DEF SessionInv
    <3>3. CASE n # m
      <4>1. n # job.mac /\ orch'[n] = orch[n]
        BY <1>1, <3>3 DEF Did
      <4> QED BY <3>1, <4>1 DEF SessionInv
    <3> QED BY <3>2, <3>3
  <2> QED BY <1>7, <1>12, <2>4, <2>5, <2>6 DEF DInv
<1>14. CASE ~(fx = <<>> /\ job.queue = <<>>)
  <2>1. job' = j
    BY <1>6, <1>14
  <2>2. /\ job'.mac = m /\ job'.fx = fx /\ job'.queue = job.queue /\ job'.steps = job.steps
    BY <1>4, <2>1
  <2>3. OthersInLine'
    <3>1. Target' = decorate(m)
      BY <1>1, <1>7, <2>2 DEF Target
    <3>2. job' # NoJob
      BY <1>5, <1>14, <2>2
    <3> QED BY <1>7, <2>2, <3>1, <3>2 DEF OthersInLine
  <2>4. Stage'
    <3>1. sess'[m].st = sess[m].st
      BY <1>7
    <3> QED BY <1>1, <1>9, <2>2, <3>1 DEF Stage
  <2>5. JobLeads'
    BY <1>7, <1>8, <2>2 DEF JobLeads
  <2>6. JobInv'
    BY <1>1, <1>11, <2>2, <2>4, <2>5 DEF JobInv
  <2>7. ASSUME NEW n \in Mac PROVE SessionInv(n)'
    <3>1. SessionInv(n) /\ sess'[n] = sess[n]
      BY <1>7 DEF DInv
    <3>2. orch'[n].class = orch[n].class /\ orch'[n].last_state = orch[n].last_state
      BY DEF Did
    <3> QED BY <1>1, <2>2, <3>1, <3>2 DEF SessionInv
  <2> QED BY <1>7, <1>12, <2>3, <2>6, <2>7 DEF DInv
<1> QED BY <1>13, <1>14

\* What is known of the world when an effect of kind `do` is to be performed.
LEMMA EffectInHand ==
  ASSUME DInv, NEW do, Doing(do), NEW m, m = job.mac
  PROVE  /\ status = "up" /\ job.fx # <<>> /\ Head(job.fx).do = do /\ Head(job.fx).arg = Arg
         /\ m \in Mac /\ m \in Targets /\ Target = decorate(m) /\ Target \in Targets
         /\ Head(job.fx) \in Effect /\ WorldType /\ Once(inbox)
         /\ armed[m] \cap PendingIn(inbox, m) = {} /\ Live(m) \cap Excused = {}
         /\ Excused # {} => ~orch[m].session_timeout
         /\ Allowed(Head(job.fx), Actual(m), orch[m].class, Excused)
<1>1. status = "up" /\ job.fx # <<>> /\ Head(job.fx).do = do /\ Head(job.fx).arg = Arg
  BY DEF Doing, Arg
<1>2. /\ job.mac \in Mac /\ job.mac \in Targets /\ Head(job.fx) \in Effect /\ JobLeads
      /\ job.fx \in Seq(Effect)
  BY <1>1, InHand
<1>3. Target = decorate(job.mac) /\ Target \in Targets
  BY <1>2, DecorateType DEF Target
<1>4. WorldType /\ TimersInv
  BY DEF DInv
<1>5. Allowed(Head(job.fx), Actual(job.mac), orch[job.mac].class, Excused)
  BY <1>1, <1>2, LeadsFirst DEF JobLeads
<1> QED BY <1>1, <1>2, <1>3, <1>4, <1>5 DEF TimersInv

\* The world of m, once cfg and the world variables are what they will be.
LEMMA ActualThen ==
  ASSUME NEW m \in Targets, UNCHANGED cfg
  PROVE  Actual(m)' = [timers |-> armed'[m] \cup PendingIn(inbox', m), acct |-> ledger'[m],
                       posture |-> dataplane'[decorate(m)],
                       noted |-> orch'[m].session_timeout]
<1>1. decorate(m)' = decorate(m) /\ PendingIn(inbox, m)' = PendingIn(inbox', m)
  BY DEF decorate, PendingIn
<1> QED BY <1>1 DEF Actual, Live

\* A packet to the supplicant.
LEMMA TxEapOK ==
  ASSUME DInv, TxEap
  PROVE  DInv'
<1>0. PICK m : m = job.mac
  OBVIOUS
<1> DEFINE f == Head(job.fx)
<1>1. Doing("TxEapToSupplicant") /\ Done(<<>>) /\ UNCHANGED <<orch, armed, inbox, dataplane, ledger>>
  BY DEF TxEap, world
<1>2. UNCHANGED <<vars, status>> /\ UNCHANGED cfg
  BY <1>1 DEF Done, vars
<1>3. /\ status = "up" /\ job.fx # <<>> /\ f.do = "TxEapToSupplicant" /\ m \in Mac /\ m \in Targets
      /\ Target = decorate(m) /\ WorldType /\ Once(inbox)
      /\ armed[m] \cap PendingIn(inbox, m) = {} /\ (Excused # {} => ~orch[m].session_timeout)
  BY <1>0, <1>1, EffectInHand
<1> HIDE DEF f
<1>4. Actual(m)' = Perform(f, Actual(m), Excused)
  <2>1. Actual(m)' = Actual(m)
    BY <1>1, <1>2, <1>3, ActualThen DEF Actual, Live
  <2> QED BY <1>3, <2>1 DEF Perform, Actual
<1>5. Did(m)
  BY <1>0, <1>1, <1>2, <1>3, <1>4 DEF Did, WorldType, f
<1>6. f.do \notin Requests
  BY <1>3 DEF Requests
<1> QED BY <1>1, <1>5, <1>6, DidOK DEF f

\* A posture.
LEMMA SetAuthOK ==
  ASSUME DInv, SetAuth
  PROVE  DInv'
<1>0. PICK m : m = job.mac
  OBVIOUS
<1> DEFINE f == Head(job.fx)
<1>1. /\ Doing("SetAuthorization") /\ Done(<<>>) /\ UNCHANGED <<armed, inbox, ledger>>
      /\ orch' = [orch EXCEPT ![m] = NoteTimeout(orch[m])]
      /\ dataplane' = [dataplane EXCEPT ![Target] = Arg]
  BY <1>0 DEF SetAuth
<1>2. UNCHANGED <<vars, status>> /\ UNCHANGED cfg
  BY <1>1 DEF Done, vars
<1>3. /\ status = "up" /\ job.fx # <<>> /\ f.do = "SetAuthorization" /\ m \in Mac /\ m \in Targets
      /\ Target = decorate(m) /\ Target \in Targets /\ WorldType /\ Once(inbox)
      /\ armed[m] \cap PendingIn(inbox, m) = {} /\ (Excused # {} => ~orch[m].session_timeout)
      /\ f \in Effect /\ f.arg = Arg
  BY <1>0, <1>1, EffectInHand
<1> HIDE DEF f
<1>4. Arg \in PortAuthorization
  BY <1>3 DEF Effect
<1>5. /\ orch[m] \in SessionState
      /\ NoteTimeout(orch[m]) \in SessionState
      /\ NoteTimeout(orch[m]).class = orch[m].class
      /\ NoteTimeout(orch[m]).last_state = orch[m].last_state
      /\ NoteTimeout(orch[m]).session_timeout =
           IF Arg.mode = "Authorized" /\ Target # Port THEN Arg.via \in Timed
           ELSE orch[m].session_timeout
  <2>1. orch[m] \in SessionState
    BY <1>3 DEF WorldType
  <2> DEFINE t == Arg.via \in Timed
  <2>2. t \in BOOLEAN
    OBVIOUS
  <2>3. NoteTimeout(orch[m]) = IF Arg.mode = "Authorized" /\ Target # Port
                               THEN [orch[m] EXCEPT !.session_timeout = t] ELSE orch[m]
    BY DEF NoteTimeout
  <2> HIDE DEF t
  <2>4. LET s == [orch[m] EXCEPT !.session_timeout = t] IN
        /\ s \in SessionState /\ s.class = orch[m].class
        /\ s.last_state = orch[m].last_state /\ s.session_timeout = t
    BY <2>1, <2>2 DEF SessionState
  <2>5. CASE Arg.mode = "Authorized" /\ Target # Port
    BY <2>1, <2>3, <2>4, <2>5 DEF t
  <2>6. CASE ~(Arg.mode = "Authorized" /\ Target # Port)
    BY <2>1, <2>3, <2>6
  <2> QED BY <2>5, <2>6
<1>6. /\ orch' \in [Mac -> SessionState] /\ orch'[m] = NoteTimeout(orch[m])
      /\ \A n \in Mac \ {m} : orch'[n] = orch[n]
  BY <1>1, <1>3, <1>5 DEF WorldType
<1>7. /\ dataplane' \in [Targets -> PortAuthorization] /\ dataplane'[Target] = Arg
      /\ \A t \in Targets \ {Target} : dataplane'[t] = dataplane[t]
  BY <1>1, <1>3, <1>4 DEF WorldType
<1>8. Excused = {} <=> Target # Port
  BY <1>3, PortAssumption DEF Excused, decorate
<1>9. Actual(m)' = Perform(f, Actual(m), Excused)
  <2>1. Actual(m)' = [timers |-> armed'[m] \cup PendingIn(inbox', m), acct |-> ledger'[m],
                       posture |-> dataplane'[decorate(m)],
                       noted |-> orch'[m].session_timeout]
    BY <1>2, <1>3, ActualThen
  <2>2. /\ Actual(m).timers = armed[m] \cup PendingIn(inbox, m)
        /\ Actual(m).acct = ledger[m] /\ Actual(m).noted = orch[m].session_timeout
    BY DEF Actual, Live
  <2>3. Perform(f, Actual(m), Excused) =
          [timers |-> Actual(m).timers, acct |-> Actual(m).acct, posture |-> Arg,
           noted |-> IF Arg.mode = "Authorized" /\ Target # Port THEN Arg.via \in Timed
                     ELSE Actual(m).noted]
    BY <1>3, <1>8 DEF Perform
  <2>4. orch'[m].session_timeout =
          IF Arg.mode = "Authorized" /\ Target # Port THEN Arg.via \in Timed
          ELSE Actual(m).noted
    BY <1>5, <1>6, <2>2
  <2> QED BY <1>1, <1>3, <1>7, <2>1, <2>2, <2>3, <2>4
<1>10. Excused # {} => ~orch'[m].session_timeout
  BY <1>3, <1>5, <1>6, <1>8
<1>11. Did(m)
  BY <1>0, <1>1, <1>2, <1>3, <1>6, <1>7, <1>9, <1>10 DEF Did, WorldType, f
<1>12. f.do \notin Requests
  BY <1>3 DEF Requests
<1> QED BY <1>1, <1>5, <1>6, <1>11, <1>12, DidOK DEF f

\* An accounting record.
LEMMA AccountingDone ==
  ASSUME DInv, Accounting
  PROVE  DInv'
<1>0. PICK m : m = job.mac
  OBVIOUS
<1> DEFINE f == Head(job.fx)
<1>1. PICK do \in {"Start", "Stop"} :
           /\ Doing(do) /\ Done(<<>>) /\ ledger' = Recorded(do)
           /\ UNCHANGED <<orch, armed, inbox, dataplane>>
  BY DEF Accounting
<1>2. UNCHANGED <<vars, status>> /\ UNCHANGED cfg
  BY <1>1 DEF Done, vars
<1>3. /\ status = "up" /\ job.fx # <<>> /\ f.do = do /\ m \in Mac /\ m \in Targets
      /\ Target = decorate(m) /\ WorldType /\ Once(inbox)
      /\ armed[m] \cap PendingIn(inbox, m) = {} /\ (Excused # {} => ~orch[m].session_timeout)
      /\ Allowed(f, Actual(m), orch[m].class, Excused)
  BY <1>0, <1>1, EffectInHand
<1> HIDE DEF f
<1> DEFINE n == IF do = "Start" THEN ledger[m] + 1 ELSE ledger[m] - 1
<1>4. Actual(m).acct = ledger[m] /\ ledger[m] \in Nat
  BY <1>3 DEF Actual, WorldType
<1>5. n \in Nat
  BY <1>3, <1>4 DEF Allowed
<1>6. ledger' = [ledger EXCEPT ![m] = n]
  BY <1>0, <1>1 DEF Recorded
<1> HIDE DEF n
<1>7. /\ ledger' \in [Mac -> Nat] /\ ledger'[m] = n
      /\ \A o \in Mac \ {m} : ledger'[o] = ledger[o]
  BY <1>3, <1>5, <1>6 DEF WorldType
<1>8. Actual(m)' = Perform(f, Actual(m), Excused)
  <2>1. Actual(m)' = [timers |-> armed'[m] \cup PendingIn(inbox', m), acct |-> ledger'[m],
                       posture |-> dataplane'[decorate(m)],
                       noted |-> orch'[m].session_timeout]
    BY <1>2, <1>3, ActualThen
  <2>2. /\ Actual(m).timers = armed[m] \cup PendingIn(inbox, m)
        /\ Actual(m).posture = dataplane[decorate(m)] /\ Actual(m).noted = orch[m].session_timeout
    BY DEF Actual, Live
  <2>3. Perform(f, Actual(m), Excused) =
          [timers |-> Actual(m).timers, acct |-> n, posture |-> Actual(m).posture,
           noted |-> Actual(m).noted]
    BY <1>3, <1>4 DEF Perform, n
  <2> QED BY <1>1, <1>7, <2>1, <2>2, <2>3
<1>9. Did(m)
  BY <1>0, <1>1, <1>2, <1>3, <1>7, <1>8 DEF Did, WorldType, f
<1>10. f.do \notin Requests
  BY <1>3 DEF Requests
<1> QED BY <1>1, <1>9, <1>10, DidOK DEF f

TimerEffects == {"ArmTimer", "CancelTimer", "CancelAllTimers"}

\* Tasks of m are started and aborted, and expiries of it cancelled.
LEMMA TasksDone ==
  ASSUME DInv, NEW do \in TimerEffects, Doing(do), Done(<<>>), NEW m, m = job.mac,
         UNCHANGED <<orch, dataplane, ledger>>,
         NEW tasks \in SUBSET TimerKind, NEW ks, Abort(ks),
         armed' = [armed EXCEPT ![m] = tasks],
         tasks \cap (PendingIn(inbox, m) \ ks) = {},
         tasks \cup (PendingIn(inbox, m) \ ks) =
           Perform(Head(job.fx), Actual(m), Excused).timers
  PROVE  DInv'
<1> DEFINE f == Head(job.fx)
<1>1. UNCHANGED <<vars, status>> /\ UNCHANGED cfg
  BY DEF Done, vars
<1>2. /\ status = "up" /\ job.fx # <<>> /\ f.do = do /\ m \in Mac /\ m \in Targets
      /\ Target = decorate(m) /\ WorldType /\ Once(inbox)
      /\ (Excused # {} => ~orch[m].session_timeout)
  BY EffectInHand
<1> HIDE DEF f
<1>3. inbox \in Seq(Expiry) /\ CancelledIn(inbox', inbox, m, ks)
  BY <1>2 DEF WorldType, Abort, CancelledIn
<1>4. /\ inbox' \in Seq(Expiry) /\ Len(inbox') = Len(inbox) /\ Once(inbox')
      /\ PendingIn(inbox', m) = PendingIn(inbox, m) \ ks
      /\ \A n : n # m => PendingIn(inbox', n) = PendingIn(inbox, n)
  BY <1>2, <1>3, Aborted
<1>5. /\ armed' \in [Mac -> SUBSET TimerKind] /\ armed'[m] = tasks
      /\ \A n \in Mac \ {m} : armed'[n] = armed[n]
  BY <1>2 DEF WorldType
<1>6. Actual(m)' = Perform(f, Actual(m), Excused)
  <2>1. Actual(m)' = [timers |-> armed'[m] \cup PendingIn(inbox', m), acct |-> ledger'[m],
                       posture |-> dataplane'[decorate(m)],
                       noted |-> orch'[m].session_timeout]
    BY <1>1, <1>2, ActualThen
  <2>2. /\ Actual(m).acct = ledger[m]
        /\ Actual(m).posture = dataplane[decorate(m)] /\ Actual(m).noted = orch[m].session_timeout
    BY DEF Actual, Live
  <2>3. Perform(f, Actual(m), Excused) =
          [timers |-> Perform(f, Actual(m), Excused).timers, acct |-> Actual(m).acct,
           posture |-> Actual(m).posture, noted |-> Actual(m).noted]
    BY <1>2 DEF Perform, TimerEffects
  <2>4. armed'[m] \cup PendingIn(inbox', m) = Perform(f, Actual(m), Excused).timers
    BY <1>4, <1>5 DEF f
  <2> QED BY <2>1, <2>2, <2>3, <2>4
<1>7. Did(m)
  BY <1>1, <1>2, <1>4, <1>5, <1>6 DEF Did, WorldType, f
<1>8. f.do \notin Requests
  BY <1>2 DEF Requests, TimerEffects
<1> QED BY <1>7, <1>8, DidOK DEF f

\* A timer is armed; one with no duration is not.
LEMMA ArmOK ==
  ASSUME DInv, Arm
  PROVE  DInv'
<1>0. PICK m : m = job.mac
  OBVIOUS
<1> DEFINE f == Head(job.fx)
           k == Arg
<1>1. Doing("ArmTimer") /\ Done(<<>>) /\ UNCHANGED <<orch, dataplane, ledger>>
  BY DEF Arm
<1>2. UNCHANGED <<vars, status>> /\ UNCHANGED cfg
  BY <1>1 DEF Done, vars
<1>3. /\ status = "up" /\ job.fx # <<>> /\ f.do = "ArmTimer" /\ f.arg = k
      /\ m \in Mac /\ m \in Targets /\ Target = decorate(m) /\ WorldType /\ Once(inbox)
      /\ armed[m] \cap PendingIn(inbox, m) = {} /\ Live(m) \cap Excused = {}
      /\ (Excused # {} => ~orch[m].session_timeout)
      /\ f \in Effect /\ Allowed(f, Actual(m), orch[m].class, Excused)
  BY <1>0, <1>1, EffectInHand
<1> HIDE DEF f
<1>4. k \in TimerKind /\ armed[m] \in SUBSET TimerKind
  BY <1>3 DEF Effect, WorldType
<1>5. Actual(m).timers = Live(m) /\ Live(m) = armed[m] \cup PendingIn(inbox, m)
  BY DEF Actual, Live
<1>6. Perform(f, Actual(m), Excused).timers = Live(m) \cup ({k} \ Excused)
  BY <1>3, <1>5 DEF Perform
<1> HIDE DEF k
<1>7. CASE timer_duration(k)
  <2> DEFINE tasks == armed[m] \cup {k}
  <2>1. k \notin Excused
    BY <1>0, <1>3, <1>7 DEF timer_duration, Excused
  <2>2. armed' = [armed EXCEPT ![m] = tasks] /\ Abort({k})
    BY <1>0, <1>7 DEF Arm, k
  <2>3. tasks \cap (PendingIn(inbox, m) \ {k}) = {}
    BY <1>3
  <2>4. tasks \cup (PendingIn(inbox, m) \ {k}) = Live(m) \cup ({k} \ Excused)
    BY <1>5, <2>1
  <2>5. tasks \in SUBSET TimerKind
    BY <1>4
  <2> HIDE DEF tasks
  <2>6. "ArmTimer" \in TimerEffects
    BY DEF TimerEffects
  <2> QED BY <1>0, <1>1, <1>6, <2>2, <2>3, <2>4, <2>5, <2>6, TasksDone DEF f
<1>8. CASE ~timer_duration(k)
  <2>1. UNCHANGED <<armed, inbox>>
    BY <1>8 DEF Arm, k
  <2>2. k = "SessionTimeout" /\ ~orch[m].session_timeout
    BY <1>0, <1>8 DEF timer_duration
  <2>3. Excused # {}
    <3>1. Actual(m).noted = orch[m].session_timeout
      BY DEF Actual
    <3> QED BY <1>3, <2>2, <3>1 DEF Allowed
  <2>4. k \in Excused
    BY <2>2, <2>3 DEF Excused
  <2>5. Actual(m)' = Actual(m)
    BY <1>1, <1>2, <1>3, <2>1, ActualThen DEF Actual, Live
  <2>6. Actual(m) = [timers |-> Live(m), acct |-> ledger[m],
                     posture |-> dataplane[decorate(m)], noted |-> orch[m].session_timeout]
    BY DEF Actual
  <2>7. {k} \ Excused = {}
    BY <2>4
  <2>8. Perform(f, Actual(m), Excused) =
          [timers |-> Live(m), acct |-> Actual(m).acct, posture |-> Actual(m).posture,
           noted |-> Actual(m).noted]
    BY <1>3, <1>5, <2>7 DEF Perform
  <2>9. Actual(m)' = Perform(f, Actual(m), Excused)
    BY <2>5, <2>6, <2>8
  <2>10. Did(m)
    BY <1>0, <1>1, <1>2, <1>3, <2>1, <2>9 DEF Did, WorldType, f
  <2>11. f.do \notin Requests
    BY <1>3 DEF Requests
  <2> QED BY <1>1, <2>10, <2>11, DidOK DEF f
<1> QED BY <1>7, <1>8

\* A timer is cancelled.
LEMMA CancelOK ==
  ASSUME DInv, Cancel
  PROVE  DInv'
<1>0. PICK m : m = job.mac
  OBVIOUS
<1> DEFINE f == Head(job.fx)
           k == Arg
           tasks == armed[m] \ {k}
<1>1. /\ Doing("CancelTimer") /\ Done(<<>>) /\ UNCHANGED <<orch, dataplane, ledger>>
      /\ armed' = [armed EXCEPT ![m] = tasks] /\ Abort({k})
  BY <1>0 DEF Cancel
<1>2. /\ f.do = "CancelTimer" /\ f.arg = k /\ m \in Mac /\ WorldType
      /\ armed[m] \cap PendingIn(inbox, m) = {}
  BY <1>0, <1>1, EffectInHand
<1>3. armed[m] \in SUBSET TimerKind
  BY <1>2 DEF WorldType
<1>4. Actual(m).timers = armed[m] \cup PendingIn(inbox, m)
  BY DEF Actual, Live
<1> HIDE DEF f, k
<1>5. Perform(f, Actual(m), Excused).timers = (armed[m] \cup PendingIn(inbox, m)) \ {k}
  BY <1>2, <1>4 DEF Perform
<1>6. /\ tasks \in SUBSET TimerKind /\ tasks \cap (PendingIn(inbox, m) \ {k}) = {}
      /\ tasks \cup (PendingIn(inbox, m) \ {k}) = Perform(f, Actual(m), Excused).timers
  BY <1>2, <1>3, <1>5
<1> HIDE DEF tasks
<1>7. "CancelTimer" \in TimerEffects
  BY DEF TimerEffects
<1> QED BY <1>0, <1>1, <1>6, <1>7, TasksDone DEF f

\* All timers of the MAC are cancelled.
LEMMA CancelAllOK ==
  ASSUME DInv, CancelAll
  PROVE  DInv'
<1>0. PICK m : m = job.mac
  OBVIOUS
<1> DEFINE f == Head(job.fx)
<1>1. /\ Doing("CancelAllTimers") /\ Done(<<>>) /\ UNCHANGED <<orch, dataplane, ledger>>
      /\ armed' = [armed EXCEPT ![m] = {}] /\ Abort(TimerKind)
  BY <1>0 DEF CancelAll
<1>2. /\ f.do = "CancelAllTimers" /\ WorldType
  BY <1>0, <1>1, EffectInHand
<1>3. PendingIn(inbox, m) \ TimerKind = {}
  BY <1>2, PendingType DEF WorldType
<1> HIDE DEF f
<1>4. Perform(f, Actual(m), Excused).timers = {}
  BY <1>2 DEF Perform
<1>5. "CancelAllTimers" \in TimerEffects /\ {} \in SUBSET TimerKind
  BY DEF TimerEffects
<1>6. /\ {} \cap (PendingIn(inbox, m) \ TimerKind) = {}
      /\ {} \cup (PendingIn(inbox, m) \ TimerKind) = Perform(f, Actual(m), Excused).timers
  BY <1>3, <1>4
<1> QED BY <1>0, <1>1, <1>5, <1>6, TasksDone DEF f

\* A request and its reply, which becomes the follow-up.
LEMMA AccessRequestOK ==
  ASSUME DInv, AccessRequest
  PROVE  DInv'
<1>0. PICK m : m = job.mac
  OBVIOUS
<1> DEFINE f == Head(job.fx)
           fx == Tail(job.fx)
<1>1. PICK r \in Replies : /\ orch' = [orch EXCEPT ![m] = handle_reply(orch[m], r)]
                           /\ Done(<<r>>)
  BY <1>0 DEF AccessRequest
<1>2. PICK do \in Requests : Doing(do)
  BY DEF AccessRequest, Requests
<1>3. /\ status = "up" /\ job.fx # <<>> /\ f.do = do /\ m \in Mac /\ m \in Targets
      /\ Target = decorate(m) /\ WorldType /\ Once(inbox)
      /\ armed[m] \cap PendingIn(inbox, m) = {} /\ (Excused # {} => ~orch[m].session_timeout)
  BY <1>0, <1>2, EffectInHand
<1>4. /\ UNCHANGED <<armed, inbox, dataplane, ledger>>
      /\ UNCHANGED <<vars, status>> /\ UNCHANGED cfg
  BY <1>1 DEF AccessRequest, world, Done, vars
<1>5. /\ job \in JobType /\ Stage /\ job.fx \in Seq(Effect) /\ job # NoJob
      /\ fx \in Seq(Effect) /\ SessionInv(m)
  BY <1>3, InHand DEF DInv
<1> HIDE DEF f
<1>6. /\ job.queue = <<>> /\ sess[m].st = "AuthServer" /\ job.steps = 1
      /\ Holds(fx, "neither")
  <2>1. \A what \in {"neither", "records", "request"} :
          Holds(job.fx, what) => what = "request" /\ Holds(fx, "neither")
    BY <1>3, <1>5, HoldsTail DEF f
  <2> QED BY <1>0, <1>5, <2>1 DEF Stage
<1> DEFINE s == handle_reply(orch[m], r)
<1>7. /\ r.type \in ReplyTypes
      /\ r.type = "AccessAccept" => r.arg \in Grants /\ r = AccessAccept(r.arg)
  BY DEF Replies, Event, AccessAccept, ReplyTypes
<1>8. /\ s \in SessionState /\ s.session_timeout = orch[m].session_timeout
      /\ s.last_state = (r.type = "AccessChallenge")
      /\ s.class = IF r.type = "AccessAccept" THEN r.arg ELSE orch[m].class
  <2> DEFINE b == r.type = "AccessChallenge"
             g == IF r.type = "AccessAccept" THEN r.arg ELSE orch[m].class
  <2>1. orch[m] \in SessionState
    BY <1>3 DEF WorldType
  <2>2. b \in BOOLEAN /\ g \in Grants \cup {NoGrant}
    BY <1>7, <2>1 DEF SessionState
  <2>3. s = [orch[m] EXCEPT !.last_state = b, !.class = g]
    BY DEF handle_reply
  <2> HIDE DEF b, g, s
  <2>4. /\ s \in SessionState /\ s.session_timeout = orch[m].session_timeout
        /\ s.last_state = b /\ s.class = g
    BY <2>1, <2>2, <2>3 DEF SessionState
  <2> QED BY <2>4 DEF b, g
<1> HIDE DEF s
<1>9. /\ orch' \in [Mac -> SessionState] /\ orch'[m] = s
      /\ \A n \in Mac \ {m} : orch'[n] = orch[n]
  BY <1>1, <1>3, <1>8 DEF WorldType, s
<1>10. Actual(m)' = Perform(f, Actual(m), Excused)
  <2>1. Actual(m)' = [timers |-> armed'[m] \cup PendingIn(inbox', m), acct |-> ledger'[m],
                       posture |-> dataplane'[decorate(m)],
                       noted |-> orch'[m].session_timeout]
    BY <1>3, <1>4, ActualThen
  <2>2. Actual(m)' = Actual(m)
    BY <1>4, <1>8, <1>9, <2>1 DEF Actual, Live
  <2> QED BY <1>3, <2>2 DEF Perform, Actual, Requests
<1>11. Did(m)
  BY <1>0, <1>3, <1>4, <1>8, <1>9, <1>10 DEF Did, WorldType, f
<1>12. /\ IInv' /\ WorldType' /\ TimersInv' /\ Down'
       /\ \A n \in Mac \ {m} : InLine(n)'
       /\ \A t \in Targets \ {decorate(m)} : dataplane'[t] = plane'[t]
       /\ Excused' = Excused /\ sess' = sess
       /\ \A t \in Targets : decorate(t)' = decorate(t)
  BY <1>11, DidFrame
<1>13. PICK b : Leads(fx, Actual(m)', Believed(m, b)', orch[m].class, Excused)
  BY <1>11, DidFrame
<1> HIDE DEF fx
<1>14. Leads(fx, Actual(m)', Believed(m, b)', orch'[m].class, Excused)
  BY <1>5, <1>6, <1>13, LeadsAnyClass
<1> DEFINE j == [job EXCEPT !.fx = fx, !.queue = <<r>>]
<1>15. job' = Advance(j)
  <2>1. job.queue \o <<r>> = <<r>>
    BY <1>6
  <2> QED BY <1>1, <2>1 DEF Done, fx
<1>16. /\ j \in JobType /\ j.mac = m /\ j.fx = fx /\ j.queue = <<r>> /\ j.steps = 1
  <2>1. <<r>> \in Seq(Replies)
    OBVIOUS
  <2> QED BY <1>0, <1>5, <1>6, <2>1 DEF JobType
<1>17. j.queue # <<>> /\ NoJob.queue = <<>>
  BY <1>16 DEF NoJob
<1> HIDE DEF j
<1>18. job' = j /\ j # NoJob
  BY <1>15, <1>17 DEF Advance
<1>19. OthersInLine'
  <2>1. Target' = decorate(m)
    BY <1>3, <1>12, <1>16, <1>18 DEF Target
  <2> QED BY <1>12, <1>16, <1>18, <2>1 DEF OthersInLine
<1>20. Stage'
  <2>1. sess'[m].st = "AuthServer"
    BY <1>6, <1>12
  <2>2. /\ r.type = "AccessAccept" => orch'[m].class = r.arg
        /\ r.type = "AccessChallenge" => orch'[m].last_state
    BY <1>8, <1>9
  <2> QED BY <1>6, <1>16, <1>18, <2>1, <2>2 DEF Stage
<1>21. JobInv'
  <2>1. JobLeads'
    BY <1>12, <1>14, <1>16, <1>18 DEF JobLeads
  <2>2. status' = "up"
    BY <1>3, <1>4
  <2> QED BY <1>3, <1>16, <1>18, <1>20, <2>1, <2>2 DEF JobInv
<1>22. ASSUME NEW n \in Mac PROVE SessionInv(n)'
  <2>1. CASE n = m
    <3>1. sess'[m].open => \/ orch'[m].class = sess'[m].authz
                           \/ \E g \in Grants : job'.queue = <<AccessAccept(g)>>
      <4>1. CASE r.type = "AccessAccept"
        BY <1>7, <1>16, <1>18, <4>1
      <4>2. CASE r.type # "AccessAccept"
        <5>1. \A g : job.queue # <<AccessAccept(g)>>
          BY <1>6
        <5> QED BY <1>5, <1>8, <1>9, <1>12, <4>2, <5>1 DEF SessionInv
      <4> QED BY <4>1, <4>2
    <3>2. sess'[m].st = "AuthServer"
      BY <1>6, <1>12
    <3> QED BY <1>16, <1>18, <2>1, <3>1, <3>2 DEF SessionInv
  <2>2. CASE n # m
    <3>1. SessionInv(n) /\ sess'[n] = sess[n] /\ orch'[n] = orch[n] /\ n # job.mac
      BY <1>0, <1>9, <1>12, <2>2 DEF DInv
    <3> QED BY <3>1 DEF SessionInv
  <2> QED BY <2>1, <2>2
<1> QED BY <1>12, <1>16, <1>18, <1>19, <1>21, <1>22 DEF DInv

-----------------------------------------------------------------------------
(* Start, end, and time *)

\* A worker that has just started or has just ended.
Empty ==
  /\ Fresh /\ job = NoJob /\ inbox = <<>>
  /\ \A m \in Mac : orch[m] = NewSessionState /\ armed[m] = {}
  /\ WorldType
  /\ status = "up" => /\ \A t \in Targets : dataplane[t] = Unauthorized
                      /\ \A m \in Mac : ledger[m] = 0

\* It satisfies the invariant.
LEMMA EmptyOK == Empty => DInv
<1> SUFFICES ASSUME Empty PROVE DInv
  OBVIOUS
<1>1. IInv /\ WorldType
  BY FreshOK DEF Empty
<1>2. /\ job \in JobType /\ job.mac = Port /\ Port \notin Mac /\ job = NoJob
  BY PortAssumption DEF Empty, NoJob, JobType, Targets
<1>3. \A m \in Mac : /\ sess[m] = NewSession /\ timers[m] = {} /\ acct[m] = 0
                     /\ orch[m] = NewSessionState /\ armed[m] = {}
  BY DEF Empty, Fresh
<1>4. /\ NewSession.st = "New" /\ NewSession.open = FALSE
      /\ NewSessionState.session_timeout = FALSE
  BY DEF NewSession, NewSessionState
<1>5. inbox = <<>> /\ DOMAIN inbox = {}
  BY DEF Empty
<1>6. Once(inbox) /\ \A m : PendingIn(inbox, m) = {}
  BY <1>5 DEF Once, PendingIn
<1>7. TimersInv
  BY <1>3, <1>4, <1>6 DEF TimersInv, Live
<1>8. Down
  BY DEF Empty, Down
<1>9. OthersInLine
  <2>1. \A m \in Mac : status = "up" => InLine(m)
    BY <1>3, <1>6 DEF InLine, Live, Empty
  <2>2. \A t \in Targets : plane[t] = Unauthorized
    BY DEF Empty, Fresh
  <2> QED BY <2>1, <2>2 DEF OthersInLine, Empty
<1>10. JobInv
  BY <1>2 DEF JobInv
<1>11. \A m \in Mac : SessionInv(m)
  BY <1>3, <1>4 DEF SessionInv
<1> QED BY <1>1, <1>2, <1>7, <1>8, <1>9, <1>10, <1>11 DEF DInv

\* The worker ends.
LEMMA ExitOK ==
  ASSUME DInv, NEW why \in Boundary, Exit(why),
         dataplane' \in [Targets -> PortAuthorization], ledger' \in [Mac -> Nat]
  PROVE  Empty'
<1>1. /\ status' = why /\ why # "up" /\ job' = NoJob /\ inbox' = <<>> /\ cfg' = cfg
      /\ orch' = [m \in Mac |-> NewSessionState] /\ armed' = [m \in Mac |-> {}]
      /\ sess' = [m \in Mac |-> NewSession] /\ timers' = [m \in Mac |-> {}]
      /\ acct' = [m \in Mac |-> 0] /\ plane' = [t \in Targets |-> Unauthorized]
  BY DEF Exit, Boundary
<1>2. cfg \in PaeConfig
  BY DEF DInv, IInv, TypeOK
<1>3. Fresh'
  BY <1>1, <1>2 DEF Fresh
<1>4. NewSessionState \in SessionState
  BY DEF NewSessionState, SessionState
<1>5. WorldType'
  <2>1. <<>> \in Seq(Expiry) /\ Len(<<>>) <= MaxInbox
    BY AuthdAssumption
  <2> QED BY <1>1, <1>4, <2>1 DEF WorldType
<1> QED BY <1>1, <1>3, <1>5 DEF Empty, NoJob, NewSessionState

\* Every failure leaves nothing of the worker behind.
LEMMA FailureOK ==
  ASSUME DInv, Failure
  PROVE  Empty'
<1>1. dataplane \in [Targets -> PortAuthorization] /\ ledger \in [Mac -> Nat]
  BY DEF DInv, WorldType
<1>2. CASE SocketFails \/ IdentityRefused \/ ServerFails
  <2>1. PICK why \in Boundary : Exit(why) /\ UNCHANGED <<dataplane, ledger>>
    BY <1>2 DEF SocketFails, IdentityRefused, ServerFails, Boundary
  <2> QED BY <1>1, <2>1, ExitOK
<1>3. CASE EnforcerFails
  <2>1. /\ Doing("SetAuthorization") /\ Exit("enforcer") /\ ledger' = ledger
        /\ dataplane' \in {dataplane, [dataplane EXCEPT ![Target] = Arg]}
    BY <1>3 DEF EnforcerFails
  <2>2. /\ Head(job.fx) \in Effect /\ Head(job.fx).do = "SetAuthorization"
        /\ Head(job.fx).arg = Arg
    BY <2>1, EffectInHand
  <2>3. Arg \in PortAuthorization
    BY <2>2 DEF Effect
  <2>4. dataplane' \in [Targets -> PortAuthorization]
    BY <1>1, <2>1, <2>3
  <2>5. "enforcer" \in Boundary
    BY DEF Boundary
  <2> QED BY <1>1, <2>1, <2>4, <2>5, ExitOK
<1>4. CASE AccountingFails
  <2>1. PICK do \in {"Start", "Stop"} :
             /\ Doing(do) /\ Exit("accounting") /\ dataplane' = dataplane
             /\ ledger' \in {ledger, Recorded(do)}
    BY <1>4 DEF AccountingFails
  <2>2. PICK m : m = job.mac
    OBVIOUS
  <2>3. /\ m \in Mac /\ Head(job.fx).do = do
        /\ Allowed(Head(job.fx), Actual(m), orch[m].class, Excused)
    BY <2>1, <2>2, EffectInHand
  <2>4. do = "Stop" => ledger[m] > 0
    <3>1. Actual(m).acct = ledger[m]
      BY DEF Actual
    <3> QED BY <2>3, <3>1 DEF Allowed
  <2> DEFINE n == IF do = "Start" THEN ledger[m] + 1 ELSE ledger[m] - 1
  <2>5. n \in Nat
    BY <1>1, <2>1, <2>3, <2>4
  <2>6. Recorded(do) = [ledger EXCEPT ![m] = n]
    BY <2>2 DEF Recorded
  <2> HIDE DEF n
  <2>7. ledger' \in [Mac -> Nat]
    BY <1>1, <2>1, <2>5, <2>6
  <2>8. "accounting" \in Boundary
    BY DEF Boundary
  <2> QED BY <1>1, <2>1, <2>7, <2>8, ExitOK
<1> QED BY <1>2, <1>3, <1>4 DEF Failure

\* A worker starts.
LEMMA StartOK ==
  ASSUME DInv, Start
  PROVE  Empty'
<1>1. /\ status # "up" /\ status' = "up" /\ UNCHANGED <<vars, job, orch, armed, inbox>>
      /\ dataplane' = [t \in Targets |-> Unauthorized] /\ ledger' = [m \in Mac |-> 0]
  BY DEF Start
<1>2. /\ Fresh /\ job = NoJob /\ inbox = <<>>
      /\ \A m \in Mac : orch[m] = NewSessionState /\ armed[m] = {}
  BY <1>1 DEF DInv, Down
<1>3. Fresh'
  BY <1>1, <1>2 DEF Fresh, vars
<1>4. WorldType'
  BY <1>1, Postures DEF DInv, WorldType
<1> QED BY <1>1, <1>2, <1>3, <1>4 DEF Empty, NoJob, NewSessionState

\* Nothing changes but where the timers that count are.
LEMMA SameWorldOK ==
  ASSUME DInv, UNCHANGED <<vars, status, job, orch, dataplane, ledger>>,
         \A n \in Mac : armed'[n] \cup PendingIn(inbox', n) = Live(n),
         \A n \in Mac : armed'[n] \cap PendingIn(inbox', n) = {},
         armed' \in [Mac -> SUBSET TimerKind], Once(inbox'),
         inbox' \in Seq(Expiry), Len(inbox') <= MaxInbox,
         status # "up" => UNCHANGED <<armed, inbox>>
  PROVE  DInv'
<1>1. /\ cfg' = cfg /\ sess' = sess /\ timers' = timers /\ acct' = acct /\ plane' = plane
      /\ status' = status /\ job' = job /\ orch' = orch /\ dataplane' = dataplane
      /\ ledger' = ledger
  BY DEF vars
<1>2. /\ Excused' = Excused /\ Target' = Target
      /\ \A t \in Targets : decorate(t)' = decorate(t)
      /\ \A n \in Mac : Live(n)' = Live(n) /\ PendingIn(inbox, n)' = PendingIn(inbox', n)
  BY <1>1 DEF Excused, decorate, Target, Live, PendingIn
<1>3. IInv'
  BY StutterOK DEF DInv
<1>4. WorldType'
  BY <1>1 DEF DInv, WorldType
<1>5. job' \in JobType
  BY <1>1 DEF DInv
<1>6. TimersInv'
  <2>1. Once(inbox)'
    BY DEF Once
  <2> QED BY <1>1, <1>2, <2>1 DEF DInv, TimersInv
<1>7. Down'
  BY <1>1 DEF DInv, Down, Fresh, NoJob, NewSessionState
<1>8. OthersInLine'
  <2>1. \A n \in Mac : InLine(n)' = InLine(n)
    BY <1>1, <1>2 DEF InLine
  <2> QED BY <1>1, <1>2, <2>1 DEF DInv, OthersInLine
<1>9. JobInv'
  <2> SUFFICES ASSUME job # NoJob
               PROVE  job'.mac \in Mac /\ status' = "up" /\ Stage' /\ JobLeads'
    BY <1>1 DEF JobInv, NoJob
  <2>1. PICK m \in Mac : m = job.mac /\ m = job'.mac
    BY <1>1 DEF DInv, JobInv
  <2>2. status = "up" /\ Stage /\ JobLeads
    BY DEF DInv, JobInv
  <2>3. Stage'
    BY <1>1, <2>2 DEF Stage
  <2>4. Actual(m)' = Actual(m) /\ \A b : Believed(m, b)' = Believed(m, b)
    BY <1>1, <1>2, <2>1 DEF Actual, Believed, WorldOf, View, Targets
  <2>5. JobLeads'
    BY <1>1, <1>2, <2>1, <2>2, <2>4 DEF JobLeads
  <2> QED BY <1>1, <2>1, <2>2, <2>3, <2>5
<1>10. \A n \in Mac : SessionInv(n)'
  BY <1>1 DEF DInv, SessionInv
<1> QED BY <1>3, <1>4, <1>5, <1>6, <1>7, <1>8, <1>9, <1>10 DEF DInv

\* A timer task wakes up.
LEMMA FireOK ==
  ASSUME DInv, NEW m \in Mac, NEW k \in TimerKind, Fire(m, k)
  PROVE  DInv'
<1>1. /\ k \in armed[m] /\ Len(inbox) < MaxInbox
      /\ armed' = [armed EXCEPT ![m] = armed[m] \ {k}]
      /\ SentTo(inbox', inbox, m, k)
      /\ UNCHANGED <<vars, status, job, orch, dataplane, ledger>>
  BY DEF Fire, SentTo
<1>2. WorldType /\ TimersInv /\ inbox \in Seq(Expiry) /\ Once(inbox)
  BY DEF DInv, WorldType, TimersInv
<1>3. k \notin PendingIn(inbox, m)
  BY <1>1, <1>2 DEF TimersInv
<1>4. /\ inbox' \in Seq(Expiry) /\ Len(inbox') = Len(inbox) + 1 /\ Once(inbox')
      /\ PendingIn(inbox', m) = PendingIn(inbox, m) \cup {k}
      /\ \A n : n # m => PendingIn(inbox', n) = PendingIn(inbox, n)
  BY <1>1, <1>2, <1>3, Sent
<1>5. Len(inbox') <= MaxInbox
  BY <1>1, <1>2, <1>4, AuthdAssumption
<1>6. /\ armed' \in [Mac -> SUBSET TimerKind] /\ armed'[m] = armed[m] \ {k}
      /\ \A n \in Mac \ {m} : armed'[n] = armed[n]
  BY <1>1, <1>2 DEF WorldType
<1>7. ASSUME NEW n \in Mac
      PROVE  /\ armed'[n] \cup PendingIn(inbox', n) = Live(n)
             /\ armed'[n] \cap PendingIn(inbox', n) = {}
  <2>1. armed[n] \cap PendingIn(inbox, n) = {}
    BY <1>2 DEF TimersInv
  <2>2. CASE n = m
    BY <1>1, <1>4, <1>6, <2>1, <2>2 DEF Live
  <2>3. CASE n # m
    BY <1>4, <1>6, <2>1, <2>3 DEF Live
  <2> QED BY <2>2, <2>3
<1>8. status = "up"
  BY <1>1 DEF DInv, Down
<1> QED BY <1>1, <1>4, <1>5, <1>6, <1>7, <1>8, SameWorldOK

\* Nothing happens.
LEMMA DaemonStutters ==
  ASSUME DInv, UNCHANGED dvars
  PROVE  DInv'
<1>1. UNCHANGED <<vars, status, job, orch, dataplane, ledger>> /\ UNCHANGED <<armed, inbox>>
  BY DEF dvars, world
<1>2. WorldType /\ TimersInv
  BY DEF DInv
<1> QED BY <1>1, <1>2, SameWorldOK DEF WorldType, TimersInv, Live

-----------------------------------------------------------------------------
(* The daemon *)

\* DInv is inductive: it holds before the first start, and every event, effect,
\* follow-up, expiry, failure and restart preserves it.
THEOREM DaemonInductive == DaemonSpec => []DInv
<1>1. DaemonInit => Empty
  <2> SUFFICES ASSUME DaemonInit PROVE Empty
    OBVIOUS
  <2>1. Fresh
    BY PortAssumption DEF DaemonInit, Init, Fresh
  <2>2. NewSessionState \in SessionState /\ <<>> \in Seq(Expiry) /\ Len(<<>>) <= MaxInbox
    BY AuthdAssumption DEF NewSessionState, SessionState
  <2>3. WorldType
    BY <2>2, Postures DEF DaemonInit, WorldType
  <2> QED BY <2>1, <2>3 DEF DaemonInit, Empty
<1>2. DaemonInit => DInv
  BY <1>1, EmptyOK
<1>3. Empty' => DInv'
  BY EmptyOK, PTL
<1>4. DInv /\ [DaemonNext]_dvars => DInv'
  <2> SUFFICES ASSUME DInv, [DaemonNext]_dvars PROVE DInv'
    OBVIOUS
  <2>1. CASE Start
    BY <1>3, <2>1, StartOK
  <2>2. CASE Dispatch
    BY <2>2, TxEapOK, AccessRequestOK, SetAuthOK, ArmOK, CancelOK, CancelAllOK,
       AccountingDone DEF Dispatch
  <2>3. CASE FollowUp
    BY <2>3, FollowUpOK
  <2>4. CASE Failure
    BY <1>3, <2>4, FailureOK
  <2>5. CASE TimerEvent
    BY <2>5, TimerEventOK
  <2>6. CASE \E m \in Mac : dispatch_frame(m)
    BY <2>6, FrameOK
  <2>7. CASE \E m \in Mac : \E k \in TimerKind : Fire(m, k)
    BY <2>7, FireOK
  <2>8. CASE UNCHANGED dvars
    BY <2>8, DaemonStutters
  <2> QED BY <2>1, <2>2, <2>3, <2>4, <2>5, <2>6, <2>7, <2>8 DEF DaemonNext
<1> QED BY <1>2, <1>4, PTL DEF DaemonSpec

\* Every variable of the daemon keeps its type; in particular no accounting Stop
\* is sent for a record that is not open, and no expiry overruns the channel.
THEOREM DaemonTypeCorrect == DaemonSpec => []DaemonTypeOK
<1>1. DInv => DaemonTypeOK
  BY DEF DInv, IInv, WorldType, JobType, DaemonTypeOK
<1> QED BY <1>1, DaemonInductive, PTL

\* The port's own invariant holds under the daemon's scheduling.
THEOREM PortUnderDaemon == DaemonSpec => []IInv
<1>1. DInv => IInv
  BY DEF DInv
<1> QED BY <1>1, DaemonInductive, PTL

\* The dataplane lags the authenticator only for the target of the event in
\* hand, and only while the effect that brings it in line is to be performed.
THEOREM LagsOnlyInHand == DaemonSpec => []OnlyTheJobLags
<1>1. DInv => OnlyTheJobLags
  <2> SUFFICES ASSUME DInv, status = "up", NEW t \in Targets, dataplane[t] # plane[t]
               PROVE  /\ t = Target
                      /\ Set(plane[t]) \in {job.fx[i] : i \in DOMAIN job.fx}
    BY DEF OnlyTheJobLags, Set
  <2>1. t = Target /\ job # NoJob
    BY DEF DInv, OthersInLine
  <2>2. PICK m \in Mac : m = job.mac /\ JobLeads /\ job \in JobType
    BY <2>1 DEF DInv, JobInv
  <2>3. PICK b : Leads(job.fx, Actual(m), Believed(m, b), orch[m].class, Excused)
    BY <2>2 DEF JobLeads
  <2>4. Actual(m).posture = dataplane[t] /\ Believed(m, b).posture = plane[t]
    BY <2>1, <2>2 DEF Actual, Believed, WorldOf, View, Target
  <2>5. job.fx \in Seq(Effect)
    BY <2>2 DEF JobType
  <2>6. \E i \in DOMAIN job.fx : job.fx[i] = Set(plane[t])
    BY <2>3, <2>4, <2>5, LeadsPosture
  <2> QED BY <2>1, <2>6
<1> QED BY <1>1, DaemonInductive, PTL

\* Between events the records open at the server, and the timers asleep or
\* queued, are those the authenticator counts on.
THEOREM SettlesAsBelieved == DaemonSpec => []SettledWorld
<1>1. DInv => SettledWorld
  <2> SUFFICES ASSUME DInv, idle
               PROVE  /\ ledger = acct
                      /\ \A m \in Mac :
                           /\ (armed[m] \cup Pending(m)) \ Excused = timers[m] \ Excused
                           /\ armed[m] \cap Pending(m) = {}
    BY DEF SettledWorld, Excused
  <2>1. \A m \in Mac : InLine(m)
    BY IdleInLine
  <2>2. ledger = acct
    <3>1. ledger \in [Mac -> Nat] /\ acct \in [Mac -> Nat]
      BY DEF DInv, IInv, TypeOK, WorldType
    <3> QED BY <2>1, <3>1 DEF InLine
  <2>3. \A m \in Mac : Pending(m) = PendingIn(inbox, m)
    BY DEF Pending, PendingIn
  <2>4. \A m \in Mac : armed[m] \cap PendingIn(inbox, m) = {}
    BY DEF DInv, TimersInv
  <2>5. \A m \in Mac : (armed[m] \cup PendingIn(inbox, m)) \ Excused = timers[m] \ Excused
    BY <2>1 DEF InLine, Live
  <2> QED BY <2>2, <2>3, <2>4, <2>5
<1> QED BY <1>1, DaemonInductive, PTL

\* A reply goes to a session that waits for it, and no session is left waiting
\* when the next event is taken.
THEOREM RepliesAwaited == DaemonSpec => []ExchangesComplete
<1>1. DInv => ExchangesComplete
  <2> SUFFICES ASSUME DInv PROVE ExchangesComplete
    OBVIOUS
  <2>1. ASSUME job.queue # <<>> PROVE sess[job.mac].st = "AuthServer"
    <3>1. job # NoJob
      BY <2>1 DEF NoJob
    <3> QED BY <2>1, <3>1 DEF DInv, JobInv, Stage
  <2>2. ASSUME idle, NEW m \in Mac PROVE sess[m].st # "AuthServer"
    BY <2>2, IdleInLine
  <2> QED BY <2>1, <2>2 DEF ExchangesComplete
<1> QED BY <1>1, DaemonInductive, PTL

\* An event has at most one follow-up, so that no reply is dropped by the bound
\* on handle_event's loop.
THEOREM OneFollowUp == DaemonSpec => []FollowUpsBounded
<1>1. DInv => FollowUpsBounded
  <2> SUFFICES ASSUME DInv PROVE job.steps + Len(job.queue) <= 2
    BY DEF FollowUpsBounded
  <2>1. CASE job = NoJob
    BY <2>1 DEF NoJob
  <2>2. CASE job # NoJob
    <3>1. \/ job.queue = <<>> /\ job.steps \in 1..2
          \/ \E r : job.queue = <<r>> /\ job.steps = 1
      BY <2>2 DEF DInv, JobInv, Stage
    <3>2. Len(<<>>) = 0 /\ \A r : Len(<<r>>) = 1
      OBVIOUS
    <3>3. CASE job.queue = <<>> /\ job.steps \in 1..2
      BY <3>2, <3>3
    <3>4. CASE \E r : job.queue = <<r>> /\ job.steps = 1
      <4>1. Len(job.queue) = 1 /\ job.steps = 1
        BY <3>2, <3>4
      <4> QED BY <4>1
    <3> QED BY <3>1, <3>3, <3>4
  <2> QED BY <2>1, <2>2
<1> QED BY <1>1, DaemonInductive, PTL

\* A record opens and closes while the target forwards under the grant whose
\* Class the record carries.
THEOREM RecordsCarryGrant == DaemonSpec => []RecordCarriesGrant
<1>1. DInv => RecordCarriesGrant
  <2> SUFFICES ASSUME DInv, NEW do \in {"Start", "Stop"}, Doing(do)
               PROVE  dataplane[Target] = Authorized(orch[job.mac].class)
    BY DEF RecordCarriesGrant
  <2>1. PICK m : m = job.mac
    OBVIOUS
  <2>2. /\ Head(job.fx).do = do /\ Target = decorate(m)
        /\ Allowed(Head(job.fx), Actual(m), orch[m].class, Excused)
    BY <2>1, EffectInHand
  <2>3. Actual(m).posture = dataplane[decorate(m)]
    BY DEF Actual
  <2> QED BY <2>1, <2>2, <2>3 DEF Allowed
<1> QED BY <1>1, DaemonInductive, PTL

\* A packet goes out to a supplicant before the access it announces is given:
\* at a send the target is closed, or a session with an open record holds it.
THEOREM SendsBeforeOpening == DaemonSpec => []SentBeforeOpened
<1>1. DInv => SentBeforeOpened
  <2> SUFFICES ASSUME DInv, Doing("TxEapToSupplicant"),
                      dataplane[Target].mode = "Authorized"
               PROVE  \E m \in Mac : decorate(m) = Target /\ ledger[m] > 0
    BY DEF SentBeforeOpened
  <2>1. PICK m : m = job.mac
    OBVIOUS
  <2>2. /\ Head(job.fx).do = "TxEapToSupplicant" /\ m \in Mac /\ Target = decorate(m)
        /\ Allowed(Head(job.fx), Actual(m), orch[m].class, Excused)
    BY <2>1, EffectInHand
  <2>3. Actual(m).posture = dataplane[decorate(m)] /\ Actual(m).acct = ledger[m]
    BY DEF Actual
  <2>4. ledger[m] > 0
    BY <2>2, <2>3 DEF Allowed, Backed
  <2> QED BY <2>2, <2>4
<1> QED BY <1>1, DaemonInductive, PTL

\* The State of the challenge a supplicant is answering is there to echo.
THEOREM StateToEcho == DaemonSpec => []ChallengeStateKept
<1>1. DInv => ChallengeStateKept
  BY DEF DInv, SessionInv, ChallengeStateKept
<1> QED BY <1>1, DaemonInductive, PTL

=============================================================================
