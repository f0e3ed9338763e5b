---------------------------- MODULE EffectProofs ----------------------------
(***************************************************************************)
(* What the effects of a session amount to when they are performed one by  *)
(* one: from the world the event found they lead to the world the session  *)
(* believes in, and each may be performed when its turn comes.             *)
(***************************************************************************)
EXTENDS PortPaeProofs

\* The world of one session: the timers that run, the records open, the posture
\* of its target, and whether a Session-Timeout is noted for it.
World ==
  [timers : SUBSET TimerKind, acct : Nat, posture : PortAuthorization,
   noted : BOOLEAN]

\* The world w once effect f is performed; timers in `excused` are never armed,
\* and if there are any, no Session-Timeout is noted.
Perform(f, w, excused) ==
  [timers |-> CASE f.do = "ArmTimer" -> w.timers \cup ({f.arg} \ excused)
                [] f.do = "CancelTimer" -> w.timers \ {f.arg}
                [] f.do = "CancelAllTimers" -> {}
                [] OTHER -> w.timers,
   acct |-> CASE f.do = "Start" -> w.acct + 1
              [] f.do = "Stop" -> w.acct - 1
              [] OTHER -> w.acct,
   posture |-> IF f.do = "SetAuthorization" THEN f.arg ELSE w.posture,
   noted |-> IF /\ f.do = "SetAuthorization" /\ excused = {}
                /\ f.arg.mode = "Authorized"
             THEN f.arg.via \in Timed ELSE w.noted]

\* Where access is given, a record is open.
Backed(w) == w.posture.mode = "Authorized" => w.acct > 0

\* Records open and close under the grant whose Class they carry, a packet is
\* sent to the supplicant before the access it announces is given, and a
\* Session-Timeout is armed only when it is noted.
Allowed(f, w, class, excused) ==
  /\ f.do \in {"Start", "Stop"} => w.posture = Authorized(class)
  /\ f.do = "Stop" => w.acct > 0
  /\ f.do = "TxEapToSupplicant" => Backed(w)
  /\ f.do = "ArmTimer" /\ f.arg = "SessionTimeout" /\ excused = {} => w.noted

Set(p) == [do |-> "SetAuthorization", arg |-> p]

\* Effects fx lead from world a to world b, along the worlds of w.  A posture
\* other than the last is still to be replaced by the last.
Along(w, fx, a, b, class, excused) ==
  /\ w \in [0..Len(fx) -> World] /\ w[0] = a /\ w[Len(fx)] = b
  /\ \A i \in 1..Len(fx) : /\ Allowed(fx[i], w[i - 1], class, excused)
                           /\ w[i] = Perform(fx[i], w[i - 1], excused)
  /\ \A i \in 0..Len(fx) : w[i].posture # b.posture =>
       \E j \in (i + 1)..Len(fx) : fx[j] = Set(b.posture)

Leads(fx, a, b, class, excused) == \E w : Along(w, fx, a, b, class, excused)

\* No effects change nothing.
LEMMA LeadsNowhere ==
  ASSUME NEW a \in World, NEW class, NEW excused
  PROVE  Leads(<<>>, a, a, class, excused)
<1> DEFINE w == [i \in 0..0 |-> a]
<1>1. Len(<<>>) = 0
  OBVIOUS
<1>2. Along(w, <<>>, a, a, class, excused)
  BY <1>1 DEF Along
<1> QED BY <1>2 DEF Leads

\* With no effect left the world is the one they lead to.
LEMMA LeadsDone ==
  ASSUME NEW a, NEW b, NEW class, NEW excused, Leads(<<>>, a, b, class, excused)
  PROVE  b = a
<1>1. Len(<<>>) = 0
  OBVIOUS
<1> QED BY <1>1 DEF Leads, Along

\* One more effect, performed in the world the others lead to.
LEMMA LeadsOn ==
  ASSUME NEW fx \in Seq(Effect), NEW f \in Effect, NEW a, NEW b,
         NEW class, NEW excused, Leads(fx, a, b, class, excused),
         Allowed(f, b, class, excused), Perform(f, b, excused) \in World
  PROVE  Leads(Append(fx, f), a, Perform(f, b, excused), class, excused)
<1> DEFINE n == Len(fx)
           gx == Append(fx, f)
           d == Perform(f, b, excused)
<1>1. n \in Nat /\ Len(gx) = n + 1 /\ gx[n + 1] = f /\ \A i \in 1..n : gx[i] = fx[i]
  OBVIOUS
<1>2. PICK w : Along(w, fx, a, b, class, excused)
  BY DEF Leads
<1> DEFINE v == [i \in 0..(n + 1) |-> IF i = n + 1 THEN d ELSE w[i]]
<1>3. /\ w \in [0..n -> World] /\ w[0] = a /\ w[n] = b
      /\ \A i \in 1..n : /\ Allowed(fx[i], w[i - 1], class, excused)
                         /\ w[i] = Perform(fx[i], w[i - 1], excused)
      /\ \A i \in 0..n : w[i].posture # b.posture =>
           \E j \in (i + 1)..n : fx[j] = Set(b.posture)
  BY <1>2 DEF Along
<1>4. d.posture = b.posture \/ f = Set(d.posture)
  BY DEF Perform, Set, Effect
<1>5. d \in World
  OBVIOUS
<1> HIDE DEF n, gx, d
<1>6. v \in [0..(n + 1) -> World] /\ v[0] = a /\ v[n + 1] = d
  BY <1>1, <1>3, <1>5
<1>7. \A i \in 0..n : v[i] = w[i]
  BY <1>1
<1>8. ASSUME NEW i \in 1..(n + 1)
      PROVE  /\ Allowed(gx[i], v[i - 1], class, excused)
             /\ v[i] = Perform(gx[i], v[i - 1], excused)
  <2>1. i - 1 \in 0..n /\ v[i - 1] = w[i - 1]
    BY <1>1, <1>7
  <2>2. CASE i \in 1..n
    BY <1>1, <1>3, <1>7, <2>1, <2>2
  <2>3. CASE i = n + 1
    BY <1>1, <1>3, <1>6, <2>1, <2>3 DEF d
  <2> QED BY <1>1, <2>2, <2>3
<1>9. ASSUME NEW i \in 0..(n + 1), v[i].posture # d.posture
      PROVE  \E j \in (i + 1)..(n + 1) : gx[j] = Set(d.posture)
  <2>1. i \in 0..n /\ v[i] = w[i]
    BY <1>1, <1>6, <1>7, <1>9
  <2>2. CASE f = Set(d.posture)
    BY <1>1, <2>1, <2>2
  <2>3. CASE d.posture = b.posture
    <3>1. PICK j \in (i + 1)..n : fx[j] = Set(b.posture)
      BY <1>3, <1>9, <2>1, <2>3
    <3> QED BY <1>1, <2>1, <2>3, <3>1
  <2> QED BY <1>4, <2>2, <2>3
<1> HIDE DEF v
<1>10. Along(v, gx, a, d, class, excused)
  BY <1>1, <1>6, <1>8, <1>9 DEF Along
<1> QED BY <1>10 DEF Leads, d, gx

\* The first effect may be performed, and the others lead on from there.
LEMMA LeadsFirst ==
  ASSUME NEW fx \in Seq(Effect), fx # <<>>, NEW a, NEW b, NEW class, NEW excused,
         Leads(fx, a, b, class, excused)
  PROVE  /\ a \in World
         /\ Allowed(Head(fx), a, class, excused)
         /\ Perform(Head(fx), a, excused) \in World
         /\ Leads(Tail(fx), Perform(Head(fx), a, excused), b, class, excused)
<1> DEFINE n == Len(fx)
           gx == Tail(fx)
<1>1. /\ n \in Nat /\ n > 0 /\ Len(gx) = n - 1 /\ Head(fx) = fx[1]
      /\ \A i \in 1..(n - 1) : gx[i] = fx[i + 1]
  OBVIOUS
<1>2. PICK w : Along(w, fx, a, b, class, excused)
  BY DEF Leads
<1> DEFINE v == [i \in 0..(n - 1) |-> w[i + 1]]
<1>3. /\ w \in [0..n -> World] /\ w[0] = a /\ w[n] = b
      /\ \A i \in 1..n : /\ Allowed(fx[i], w[i - 1], class, excused)
                         /\ w[i] = Perform(fx[i], w[i - 1], excused)
      /\ \A i \in 0..n : w[i].posture # b.posture =>
           \E j \in (i + 1)..n : fx[j] = Set(b.posture)
  BY <1>2 DEF Along
<1> HIDE DEF n, gx
<1>4. /\ a \in World /\ w[1] \in World /\ Allowed(Head(fx), a, class, excused)
      /\ w[1] = Perform(Head(fx), a, excused)
  <2>1. 1 \in 1..n /\ 1 - 1 = 0 /\ 0 \in 0..n /\ 1 \in 0..n
    BY <1>1
  <2> QED BY <1>1, <1>3, <2>1
<1>5. v \in [0..(n - 1) -> World] /\ v[0] = w[1] /\ v[n - 1] = b
  BY <1>1, <1>3
<1>6. ASSUME NEW i \in 1..(n - 1)
      PROVE  /\ Allowed(gx[i], v[i - 1], class, excused)
             /\ v[i] = Perform(gx[i], v[i - 1], excused)
  <2>1. i + 1 \in 1..n /\ (i + 1) - 1 = i /\ v[i] = w[i + 1] /\ v[i - 1] = w[i]
        /\ gx[i] = fx[i + 1]
    BY <1>1
  <2> QED BY <1>3, <2>1
<1>7. ASSUME NEW i \in 0..(n - 1), v[i].posture # b.posture
      PROVE  \E j \in (i + 1)..(n - 1) : gx[j] = Set(b.posture)
  <2>1. i + 1 \in 0..n /\ v[i] = w[i + 1]
    BY <1>1
  <2>2. PICK j \in ((i + 1) + 1)..n : fx[j] = Set(b.posture)
    BY <1>3, <1>7, <2>1
  <2>3. j - 1 \in (i + 1)..(n - 1) /\ gx[j - 1] = fx[j]
    BY <1>1, <2>2
  <2> QED BY <2>2, <2>3
<1> HIDE DEF v
<1>8. Along(v, gx, w[1], b, class, excused)
  BY <1>1, <1>5, <1>6, <1>7 DEF Along
<1> QED BY <1>4, <1>8 DEF Leads, gx

\* A posture that is not the last is still to be replaced by the last.
LEMMA LeadsPosture ==
  ASSUME NEW fx \in Seq(Effect), NEW a, NEW b, NEW class, NEW excused,
         Leads(fx, a, b, class, excused), a.posture # b.posture
  PROVE  \E j \in DOMAIN fx : fx[j] = Set(b.posture)
<1>1. PICK w : Along(w, fx, a, b, class, excused)
  BY DEF Leads
<1>2. Len(fx) \in Nat /\ DOMAIN fx = 1..Len(fx)
  OBVIOUS
<1>3. 0 \in 0..Len(fx) /\ w[0] = a /\ 0 + 1 = 1
  BY <1>1, <1>2 DEF Along
<1> QED BY <1>1, <1>2, <1>3 DEF Along

-----------------------------------------------------------------------------
(* Requests and records among the effects *)

Requests == {"ToAuthServer", "StartMab"}
Records == {"Start", "Stop"}

\* What a list of effects holds: no request and no record, no request, or one
\* request and no record.
Holds(fx, what) ==
  CASE what = "neither" ->
         \A i \in DOMAIN fx : fx[i].do \notin Requests \cup Records
    [] what = "records" -> \A i \in DOMAIN fx : fx[i].do \notin Requests
    [] what = "request" ->
         \E i \in DOMAIN fx :
           /\ fx[i].do \in Requests
           /\ \A j \in DOMAIN fx :
                /\ fx[j].do \notin Records
                /\ fx[j].do \in Requests => j = i

\* What one more effect makes of it.
LEMMA HoldsOn ==
  ASSUME NEW fx \in Seq(Effect), NEW f \in Effect,
         NEW what \in {"neither", "records", "request"}, Holds(fx, what)
  PROVE  /\ f.do \notin Requests \cup Records => Holds(Append(fx, f), what)
         /\ what # "request" /\ f.do \notin Requests => Holds(Append(fx, f), "records")
         /\ what = "neither" /\ f.do \in Requests => Holds(Append(fx, f), "request")
<1> DEFINE n == Len(fx)
           gx == Append(fx, f)
<1>1. /\ n \in Nat /\ DOMAIN fx = 1..n /\ DOMAIN gx = 1..(n + 1) /\ gx[n + 1] = f
      /\ \A i \in 1..n : gx[i] = fx[i]
  OBVIOUS
<1> HIDE DEF n, gx
<1>2. n + 1 \in DOMAIN gx /\ \A i \in DOMAIN gx : i = n + 1 \/ i \in DOMAIN fx
  BY <1>1
<1>3. \A i \in DOMAIN fx : gx[i] = fx[i] /\ i \in DOMAIN gx /\ i # n + 1
  BY <1>1
<1>4. Requests \cap Records = {}
  BY DEF Requests, Records
<1>5. ASSUME f.do \notin Requests \cup Records PROVE Holds(gx, what)
  <2>1. CASE what = "neither"
    BY <1>1, <1>2, <1>3, <1>5, <2>1 DEF Holds
  <2>2. CASE what = "records"
    BY <1>1, <1>2, <1>3, <1>5, <2>2 DEF Holds
  <2>3. CASE what = "request"
    <3>1. PICK i \in DOMAIN fx :
             /\ fx[i].do \in Requests
             /\ \A j \in DOMAIN fx : /\ fx[j].do \notin Records
                                     /\ fx[j].do \in Requests => j = i
      BY <2>3 DEF Holds
    <3> QED BY <1>1, <1>2, <1>3, <1>5, <2>3, <3>1 DEF Holds
  <2> QED BY <2>1, <2>2, <2>3
<1>6. ASSUME what # "request", f.do \notin Requests PROVE Holds(gx, "records")
  BY <1>1, <1>2, <1>3, <1>6 DEF Holds
<1>7. ASSUME what = "neither", f.do \in Requests PROVE Holds(gx, "request")
  <2>1. \A j \in DOMAIN fx : fx[j].do \notin Requests \cup Records
    BY <1>7 DEF Holds
  <2>2. \A j \in DOMAIN gx : /\ gx[j].do \notin Records
                             /\ gx[j].do \in Requests => j = n + 1
    BY <1>1, <1>2, <1>3, <1>4, <1>7, <2>1
  <2> QED BY <1>1, <1>2, <1>7, <2>2 DEF Holds
<1> QED BY <1>5, <1>6, <1>7 DEF gx

\* What is left of it when the first effect is done.
LEMMA HoldsTail ==
  ASSUME NEW fx \in Seq(Effect), fx # <<>>,
         NEW what \in {"neither", "records", "request"}, Holds(fx, what)
  PROVE  /\ Head(fx).do \notin Requests => Holds(Tail(fx), what)
         /\ Head(fx).do \in Requests => what = "request" /\ Holds(Tail(fx), "neither")
         /\ Head(fx).do \in Records => what = "records"
<1> DEFINE n == Len(fx)
           gx == Tail(fx)
<1>1. /\ n \in Nat /\ n > 0 /\ DOMAIN fx = 1..n /\ DOMAIN gx = 1..(n - 1) /\ Head(fx) = fx[1]
      /\ \A i \in 1..(n - 1) : gx[i] = fx[i + 1]
  OBVIOUS
<1> HIDE DEF n, gx
<1>2. 1 \in DOMAIN fx /\ \A i \in DOMAIN gx : i + 1 \in DOMAIN fx /\ gx[i] = fx[i + 1] /\ i + 1 # 1
  BY <1>1
<1>3. Requests \cap Records = {}
  BY DEF Requests, Records
<1>4. CASE what = "neither"
  BY <1>1, <1>2, <1>4 DEF Holds
<1>5. CASE what = "records"
  BY <1>1, <1>2, <1>5 DEF Holds
<1>6. CASE what = "request"
  <2>1. PICK i \in DOMAIN fx :
           /\ fx[i].do \in Requests
           /\ \A j \in DOMAIN fx : /\ fx[j].do \notin Records
                                   /\ fx[j].do \in Requests => j = i
    BY <1>6 DEF Holds
  <2>2. CASE i = 1
    <3>1. Holds(gx, "neither")
      BY <1>2, <2>1, <2>2 DEF Holds
    <3> QED BY <1>1, <1>2, <1>6, <2>1, <2>2, <3>1 DEF gx
  <2>3. CASE i # 1
    <3>1. i - 1 \in DOMAIN gx /\ gx[i - 1] = fx[i]
      BY <1>1, <2>1, <2>3
    <3>2. \A j \in DOMAIN gx : j \in Int /\ (j + 1 = i => j = i - 1)
      BY <1>1, <2>1
    <3>3. Holds(gx, "request")
      BY <1>2, <2>1, <3>1, <3>2 DEF Holds
    <3> QED BY <1>1, <1>2, <1>6, <2>1, <2>3, <3>3 DEF gx
  <2> QED BY <2>2, <2>3
<1> QED BY <1>4, <1>5, <1>6 DEF gx

\* A list with no record leads the same way under any Class.
LEMMA LeadsAnyClass ==
  ASSUME NEW fx \in Seq(Effect), NEW a, NEW b, NEW class, NEW other, NEW excused,
         Leads(fx, a, b, class, excused), Holds(fx, "neither")
  PROVE  Leads(fx, a, b, other, excused)
<1>1. PICK w : Along(w, fx, a, b, class, excused)
  BY DEF Leads
<1>2. \A i \in 1..Len(fx) : fx[i].do \notin Records
  BY DEF Holds
<1>3. \A i \in 1..Len(fx) : Allowed(fx[i], w[i - 1], other, excused)
  BY <1>1, <1>2 DEF Along, Allowed, Records
<1>4. Along(w, fx, a, b, other, excused)
  BY <1>1, <1>3 DEF Along
<1> QED BY <1>4 DEF Leads

-----------------------------------------------------------------------------
(* Effects of a context *)

\* The world a context believes in.
WorldOf(c, noted, excused) ==
  [timers |-> c.timers \ excused, acct |-> c.acct, posture |-> c.posture,
   noted |-> noted]

\* The effects of c so far lead from world a to the one c believes in.
Tracks(c, a, noted, class, excused, what) ==
  /\ c \in Context /\ noted \in BOOLEAN
  /\ what \in {"neither", "records", "request"}
  /\ Leads(c.fx, a, WorldOf(c, noted, excused), class, excused)
  /\ Holds(c.fx, what)

\* Only the effects and what they amount to matter.
LEMMA TracksSame ==
  ASSUME NEW c, NEW d \in Context, NEW a, NEW noted, NEW class, NEW excused, NEW what,
         Tracks(c, a, noted, class, excused, what),
         d.fx = c.fx, d.timers = c.timers, d.acct = c.acct, d.posture = c.posture
  PROVE  Tracks(d, a, noted, class, excused, what)
  BY DEF Tracks, WorldOf

\* A context that holds neither may be said to hold records only.
LEMMA TracksWeaker ==
  ASSUME NEW c, NEW a, NEW noted, NEW class, NEW excused,
         Tracks(c, a, noted, class, excused, "neither")
  PROVE  Tracks(c, a, noted, class, excused, "records")
  BY DEF Tracks, Holds

\* The world of a context is a World.
LEMMA WorldOfType ==
  ASSUME NEW c \in Context, NEW noted \in BOOLEAN, NEW excused
  PROVE  WorldOf(c, noted, excused) \in World
  BY DEF WorldOf, World, Context

\* Emitting one effect that does in the world what it does in the context.
LEMMA TracksEmit ==
  ASSUME NEW c, NEW d \in Context, NEW f \in Effect, NEW a, NEW noted, NEW class,
         NEW excused, NEW what, NEW now \in BOOLEAN,
         Tracks(c, a, noted, class, excused, what),
         d.fx = Append(c.fx, f),
         Allowed(f, WorldOf(c, noted, excused), class, excused),
         WorldOf(d, now, excused) = Perform(f, WorldOf(c, noted, excused), excused)
  PROVE  /\ f.do \notin Requests \cup Records =>
              Tracks(d, a, now, class, excused, what)
         /\ what # "request" /\ f.do \notin Requests =>
              Tracks(d, a, now, class, excused, "records")
         /\ what = "neither" /\ f.do \in Requests =>
              Tracks(d, a, now, class, excused, "request")
<1>1. c.fx \in Seq(Effect)
  BY DEF Tracks, Context
<1>2. WorldOf(d, now, excused) \in World
  BY WorldOfType
<1>3. Leads(d.fx, a, WorldOf(d, now, excused), class, excused)
  BY <1>1, <1>2, LeadsOn DEF Tracks
<1>4. /\ f.do \notin Requests \cup Records => Holds(d.fx, what)
      /\ what # "request" /\ f.do \notin Requests => Holds(d.fx, "records")
      /\ what = "neither" /\ f.do \in Requests => Holds(d.fx, "request")
  BY <1>1, HoldsOn DEF Tracks
<1> QED BY <1>3, <1>4 DEF Tracks

\* Every constructor appends its effect.
LEMMA EffectLists ==
  ASSUME NEW c \in Context
  PROVE  /\ \A k : ArmTimer(c, k).fx = Append(c.fx, [do |-> "ArmTimer", arg |-> k])
         /\ \A k : CancelTimer(c, k).fx = Append(c.fx, [do |-> "CancelTimer", arg |-> k])
         /\ \A p : SetAuthorization(c, p).fx = Append(c.fx, Set(p))
         /\ \A p : ToAuthServer(c, p).fx = Append(c.fx, [do |-> "ToAuthServer", arg |-> p])
         /\ CancelAllTimers(c).fx = Append(c.fx, [do |-> "CancelAllTimers", arg |-> NoGrant])
         /\ TxEapToSupplicant(c).fx = Append(c.fx, [do |-> "TxEapToSupplicant", arg |-> NoGrant])
         /\ StartMab(c).fx = Append(c.fx, [do |-> "StartMab", arg |-> NoGrant])
         /\ AccountingStart(c).fx = Append(c.fx, [do |-> "Start", arg |-> NoGrant])
         /\ AccountingStop(c).fx = Append(c.fx, [do |-> "Stop", arg |-> NoGrant])
<1>1. \A do, arg : LET d == Emit(c, do, arg) IN
        /\ d.fx = Append(c.fx, [do |-> do, arg |-> arg])
        /\ \A s : [d EXCEPT !.timers = s].fx = d.fx
        /\ \A p : [d EXCEPT !.posture = p].fx = d.fx
        /\ \A n, b : [d EXCEPT !.acct = n, !.open = b].fx = d.fx
  BY DEF Emit, Context
<1>2. /\ \A k : ArmTimer(c, k).fx = Append(c.fx, [do |-> "ArmTimer", arg |-> k])
      /\ \A k : CancelTimer(c, k).fx = Append(c.fx, [do |-> "CancelTimer", arg |-> k])
      /\ CancelAllTimers(c).fx = Append(c.fx, [do |-> "CancelAllTimers", arg |-> NoGrant])
  BY <1>1 DEF ArmTimer, CancelTimer, CancelAllTimers
<1>3. \A p : SetAuthorization(c, p).fx = Append(c.fx, Set(p))
  BY <1>1 DEF SetAuthorization, Set
<1>4. /\ \A p : ToAuthServer(c, p).fx = Append(c.fx, [do |-> "ToAuthServer", arg |-> p])
      /\ TxEapToSupplicant(c).fx = Append(c.fx, [do |-> "TxEapToSupplicant", arg |-> NoGrant])
      /\ StartMab(c).fx = Append(c.fx, [do |-> "StartMab", arg |-> NoGrant])
  BY <1>1 DEF ToAuthServer, TxEapToSupplicant, StartMab
<1>5. /\ AccountingStart(c).fx = Append(c.fx, [do |-> "Start", arg |-> NoGrant])
      /\ AccountingStop(c).fx = Append(c.fx, [do |-> "Stop", arg |-> NoGrant])
  BY <1>1 DEF AccountingStart, AccountingStop
<1> QED BY <1>2, <1>3, <1>4, <1>5

\* Arming a timer; a Session-Timeout only where it is noted.
LEMMA TracksArm ==
  ASSUME NEW c, NEW k \in TimerKind, NEW a, NEW noted, NEW class, NEW excused, NEW what,
         Tracks(c, a, noted, class, excused, what),
         k = "SessionTimeout" /\ excused = {} => noted
  PROVE  Tracks(ArmTimer(c, k), a, noted, class, excused, what)
<1> DEFINE d == ArmTimer(c, k)
           f == [do |-> "ArmTimer", arg |-> k]
<1>1. c \in Context /\ noted \in BOOLEAN
  BY DEF Tracks
<1>2. /\ d \in Context /\ d.timers = c.timers \cup {k} /\ d.acct = c.acct
      /\ d.posture = c.posture /\ d.fx = Append(c.fx, f)
  BY <1>1, ArmFields, EffectLists
<1>3. f \in Effect /\ f.do = "ArmTimer" /\ f.arg = k
  BY EffectTypes
<1> HIDE DEF d, f
<1>4. Allowed(f, WorldOf(c, noted, excused), class, excused)
  BY <1>3 DEF Allowed, WorldOf
<1>5. WorldOf(d, noted, excused) = Perform(f, WorldOf(c, noted, excused), excused)
  <2>1. (c.timers \cup {k}) \ excused = (c.timers \ excused) \cup ({k} \ excused)
    OBVIOUS
  <2> QED BY <1>2, <1>3, <2>1 DEF Perform, WorldOf
<1>6. f.do \notin Requests \cup Records
  BY <1>3 DEF Requests, Records
<1> QED BY <1>1, <1>2, <1>3, <1>4, <1>5, <1>6, TracksEmit DEF d

\* Cancelling a timer.
LEMMA TracksCancel ==
  ASSUME NEW c, NEW k \in TimerKind, NEW a, NEW noted, NEW class, NEW excused, NEW what,
         Tracks(c, a, noted, class, excused, what)
  PROVE  Tracks(CancelTimer(c, k), a, noted, class, excused, what)
<1> DEFINE d == CancelTimer(c, k)
           f == [do |-> "CancelTimer", arg |-> k]
<1>1. c \in Context /\ noted \in BOOLEAN
  BY DEF Tracks
<1>2. /\ d \in Context /\ d.timers = c.timers \ {k} /\ d.acct = c.acct
      /\ d.posture = c.posture /\ d.fx = Append(c.fx, f)
  BY <1>1, CancelFields, EffectLists
<1>3. f \in Effect /\ f.do = "CancelTimer" /\ f.arg = k
  BY EffectTypes
<1> HIDE DEF d, f
<1>4. Allowed(f, WorldOf(c, noted, excused), class, excused)
  BY <1>3 DEF Allowed, WorldOf
<1>5. WorldOf(d, noted, excused) = Perform(f, WorldOf(c, noted, excused), excused)
  <2>1. (c.timers \ {k}) \ excused = (c.timers \ excused) \ {k}
    OBVIOUS
  <2> QED BY <1>2, <1>3, <2>1 DEF Perform, WorldOf
<1>6. f.do \notin Requests \cup Records
  BY <1>3 DEF Requests, Records
<1> QED BY <1>1, <1>2, <1>3, <1>4, <1>5, <1>6, TracksEmit DEF d

\* Cancelling all timers.
LEMMA TracksCancelAll ==
  ASSUME NEW c, NEW a, NEW noted, NEW class, NEW excused, NEW what,
         Tracks(c, a, noted, class, excused, what)
  PROVE  Tracks(CancelAllTimers(c), a, noted, class, excused, what)
<1> DEFINE d == CancelAllTimers(c)
           f == [do |-> "CancelAllTimers", arg |-> NoGrant]
<1>1. c \in Context /\ noted \in BOOLEAN
  BY DEF Tracks
<1>2. /\ d \in Context /\ d.timers = {} /\ d.acct = c.acct
      /\ d.posture = c.posture /\ d.fx = Append(c.fx, f)
  BY <1>1, CancelAllFields, EffectLists
<1>3. f \in Effect /\ f.do = "CancelAllTimers"
  BY EffectTypes
<1> HIDE DEF d, f
<1>4. Allowed(f, WorldOf(c, noted, excused), class, excused)
  BY <1>3 DEF Allowed, WorldOf
<1>5. WorldOf(d, noted, excused) = Perform(f, WorldOf(c, noted, excused), excused)
  BY <1>2, <1>3 DEF Perform, WorldOf
<1>6. f.do \notin Requests \cup Records
  BY <1>3 DEF Requests, Records
<1> QED BY <1>1, <1>2, <1>3, <1>4, <1>5, <1>6, TracksEmit DEF d

\* Whether a Session-Timeout is noted once posture p is set.
NotedBy(p, noted, excused) ==
  IF excused = {} /\ p.mode = "Authorized" THEN p.via \in Timed ELSE noted

\* Setting the posture.
LEMMA TracksSet ==
  ASSUME NEW c, NEW p \in PortAuthorization, NEW a, NEW noted, NEW class, NEW excused,
         NEW what, Tracks(c, a, noted, class, excused, what)
  PROVE  Tracks(SetAuthorization(c, p), a, NotedBy(p, noted, excused), class, excused, what)
<1> DEFINE d == SetAuthorization(c, p)
           f == Set(p)
           now == NotedBy(p, noted, excused)
<1>1. c \in Context /\ noted \in BOOLEAN
  BY DEF Tracks
<1>2. now \in BOOLEAN
  <2>1. CASE excused = {} /\ p.mode = "Authorized"
    <3>1. now = (p.via \in Timed)
      BY <2>1 DEF NotedBy
    <3> HIDE DEF now
    <3> QED BY <3>1
  <2>2. CASE ~(excused = {} /\ p.mode = "Authorized")
    <3>1. now = noted
      BY <2>2 DEF NotedBy
    <3> HIDE DEF now
    <3> QED BY <1>1, <3>1
  <2> QED BY <2>1, <2>2
<1>3. /\ d \in Context /\ d.timers = c.timers /\ d.acct = c.acct
      /\ d.posture = p /\ d.fx = Append(c.fx, f)
  BY <1>1, SetFields, EffectLists
<1>4. f \in Effect /\ f.do = "SetAuthorization" /\ f.arg = p
  BY EffectTypes DEF Set
<1> HIDE DEF d, f, now
<1>5. Allowed(f, WorldOf(c, noted, excused), class, excused)
  BY <1>4 DEF Allowed, WorldOf
<1>6. WorldOf(d, now, excused) = Perform(f, WorldOf(c, noted, excused), excused)
  BY <1>3, <1>4 DEF Perform, WorldOf, now, NotedBy
<1>7. f.do \notin Requests \cup Records
  BY <1>4 DEF Requests, Records
<1> QED BY <1>1, <1>2, <1>3, <1>4, <1>5, <1>6, <1>7, TracksEmit DEF d, now

\* Sending EAP to the supplicant, and asking the server.
LEMMA TracksRelay ==
  ASSUME NEW c, NEW a, NEW noted, NEW class, NEW excused, NEW what,
         Tracks(c, a, noted, class, excused, what)
  PROVE  /\ Backed(c) => Tracks(TxEapToSupplicant(c), a, noted, class, excused, what)
         /\ \A eap \in EapPacket : what = "neither" =>
              Tracks(ToAuthServer(c, eap), a, noted, class, excused, "request")
         /\ what = "neither" => Tracks(StartMab(c), a, noted, class, excused, "request")
<1>1. c \in Context /\ noted \in BOOLEAN
  BY DEF Tracks
<1>2. ASSUME NEW d, NEW f \in Effect, d.fx = Append(c.fx, f), d \in Context,
             f.do \in {"TxEapToSupplicant", "ToAuthServer", "StartMab"},
             d.timers = c.timers, d.acct = c.acct, d.posture = c.posture,
             f.do = "TxEapToSupplicant" => Backed(c)
      PROVE  /\ f.do = "TxEapToSupplicant" => Tracks(d, a, noted, class, excused, what)
             /\ f.do # "TxEapToSupplicant" /\ what = "neither" =>
                  Tracks(d, a, noted, class, excused, "request")
  <2>1. Allowed(f, WorldOf(c, noted, excused), class, excused)
    BY <1>2 DEF Allowed, Backed, WorldOf
  <2>2. WorldOf(d, noted, excused) = Perform(f, WorldOf(c, noted, excused), excused)
    BY <1>2 DEF Perform, WorldOf
  <2>3. /\ f.do = "TxEapToSupplicant" => f.do \notin Requests \cup Records
        /\ f.do # "TxEapToSupplicant" => f.do \in Requests
    BY <1>2 DEF Requests, Records
  <2> QED BY <1>1, <1>2, <2>1, <2>2, <2>3, TracksEmit
<1>3. "Identity" \in EapPacket
  BY DEF EapPacket
<1>4. ASSUME Backed(c)
      PROVE  Tracks(TxEapToSupplicant(c), a, noted, class, excused, what)
  <2> DEFINE f == [do |-> "TxEapToSupplicant", arg |-> NoGrant]
             d == TxEapToSupplicant(c)
  <2>1. f \in Effect /\ f.do = "TxEapToSupplicant"
    BY EffectTypes
  <2>2. /\ d.fx = Append(c.fx, f) /\ d \in Context /\ d.timers = c.timers
        /\ d.acct = c.acct /\ d.posture = c.posture
    BY <1>1, <1>3, EffectLists, RelayFields
  <2> HIDE DEF d, f
  <2> QED BY <1>2, <1>4, <2>1, <2>2 DEF d
<1>5. ASSUME NEW eap \in EapPacket, what = "neither"
      PROVE  Tracks(ToAuthServer(c, eap), a, noted, class, excused, "request")
  <2> DEFINE f == [do |-> "ToAuthServer", arg |-> eap]
             d == ToAuthServer(c, eap)
  <2>1. f \in Effect /\ f.do = "ToAuthServer"
    BY EffectTypes
  <2>2. /\ d.fx = Append(c.fx, f) /\ d \in Context /\ d.timers = c.timers
        /\ d.acct = c.acct /\ d.posture = c.posture
    BY <1>1, EffectLists, RelayFields
  <2> HIDE DEF d, f
  <2> QED BY <1>2, <1>5, <2>1, <2>2 DEF d
<1>6. ASSUME what = "neither"
      PROVE  Tracks(StartMab(c), a, noted, class, excused, "request")
  <2> DEFINE f == [do |-> "StartMab", arg |-> NoGrant]
             d == StartMab(c)
  <2>1. f \in Effect /\ f.do = "StartMab"
    BY EffectTypes
  <2>2. /\ d.fx = Append(c.fx, f) /\ d \in Context /\ d.timers = c.timers
        /\ d.acct = c.acct /\ d.posture = c.posture
    BY <1>1, <1>3, EffectLists, RelayFields
  <2> HIDE DEF d, f
  <2> QED BY <1>2, <1>6, <2>1, <2>2 DEF d
<1> QED BY <1>4, <1>5, <1>6

\* Opening and closing the record, under the grant of the Class.
LEMMA TracksRecord ==
  ASSUME NEW c, NEW a, NEW noted, NEW class, NEW excused, NEW what, what # "request",
         Tracks(c, a, noted, class, excused, what), c.posture = Authorized(class)
  PROVE  /\ Tracks(AccountingStart(c), a, noted, class, excused, "records")
         /\ c.acct = 1 => Tracks(AccountingStop(c), a, noted, class, excused, "records")
<1>1. c \in Context /\ noted \in BOOLEAN
  BY DEF Tracks
<1>2. Tracks(AccountingStart(c), a, noted, class, excused, "records")
  <2> DEFINE f == [do |-> "Start", arg |-> NoGrant]
             d == AccountingStart(c)
  <2>1. f \in Effect /\ f.do = "Start"
    BY EffectTypes
  <2>2. /\ d.fx = Append(c.fx, f) /\ d \in Context /\ d.timers = c.timers
        /\ d.acct = c.acct + 1 /\ d.posture = c.posture
    BY <1>1, EffectLists, StartFields
  <2> HIDE DEF d, f
  <2>3. Allowed(f, WorldOf(c, noted, excused), class, excused)
    BY <2>1 DEF Allowed, WorldOf
  <2>4. WorldOf(d, noted, excused) = Perform(f, WorldOf(c, noted, excused), excused)
    BY <2>1, <2>2 DEF Perform, WorldOf
  <2>5. f.do \notin Requests
    BY <2>1 DEF Requests
  <2> QED BY <1>1, <2>1, <2>2, <2>3, <2>4, <2>5, TracksEmit DEF d
<1>3. ASSUME c.acct = 1
      PROVE  Tracks(AccountingStop(c), a, noted, class, excused, "records")
  <2> DEFINE f == [do |-> "Stop", arg |-> NoGrant]
             d == AccountingStop(c)
  <2>1. f \in Effect /\ f.do = "Stop"
    BY EffectTypes
  <2>2. /\ d.fx = Append(c.fx, f) /\ d \in Context /\ d.timers = c.timers
        /\ d.acct = 0 /\ d.posture = c.posture
    BY <1>1, <1>3, EffectLists, StopFields
  <2> HIDE DEF d, f
  <2>3. Allowed(f, WorldOf(c, noted, excused), class, excused)
    BY <1>3, <2>1 DEF Allowed, WorldOf
  <2>4. WorldOf(d, noted, excused) = Perform(f, WorldOf(c, noted, excused), excused)
    BY <1>3, <2>1, <2>2 DEF Perform, WorldOf
  <2>5. f.do \notin Requests
    BY <2>1 DEF Requests
  <2> QED BY <1>1, <2>1, <2>2, <2>3, <2>4, <2>5, TracksEmit DEF d
<1> QED BY <1>2, <1>3

-----------------------------------------------------------------------------
(* Shared transitions *)

\* The effects of c lead on from world x.from, under the Class x.class.
Tracked(c, x, what) ==
  \E noted : Tracks(c, x.from, noted, x.class, x.excused, what)

\* The effects that may be performed whatever came before, and a packet to the
\* supplicant.
LEMMA TrackedEffects ==
  ASSUME NEW c, NEW x, NEW what, Tracked(c, x, what)
  PROVE  /\ c \in Context
         /\ \A k \in TimerKind : k # "SessionTimeout" => Tracked(ArmTimer(c, k), x, what)
         /\ \A k \in TimerKind : Tracked(CancelTimer(c, k), x, what)
         /\ Tracked(CancelAllTimers(c), x, what)
         /\ \A p \in PortAuthorization : Tracked(SetAuthorization(c, p), x, what)
         /\ Backed(c) => Tracked(TxEapToSupplicant(c), x, what)
         /\ \A eap \in EapPacket : what = "neither" =>
              Tracked(ToAuthServer(c, eap), x, "request")
         /\ what = "neither" => Tracked(StartMab(c), x, "request")
<1>1. PICK noted : Tracks(c, x.from, noted, x.class, x.excused, what)
  BY DEF Tracked
<1>2. c \in Context
  BY <1>1 DEF Tracks
<1>3. \A k \in TimerKind : k # "SessionTimeout" => Tracked(ArmTimer(c, k), x, what)
  BY <1>1, TracksArm DEF Tracked
<1>4. \A k \in TimerKind : Tracked(CancelTimer(c, k), x, what)
  BY <1>1, TracksCancel DEF Tracked
<1>5. Tracked(CancelAllTimers(c), x, what)
  BY <1>1, TracksCancelAll DEF Tracked
<1>6. \A p \in PortAuthorization : Tracked(SetAuthorization(c, p), x, what)
  BY <1>1, TracksSet DEF Tracked
<1>7. /\ Backed(c) => Tracked(TxEapToSupplicant(c), x, what)
      /\ \A eap \in EapPacket : what = "neither" =>
           Tracked(ToAuthServer(c, eap), x, "request")
      /\ what = "neither" => Tracked(StartMab(c), x, "request")
  BY <1>1, TracksRelay DEF Tracked
<1> QED BY <1>2, <1>3, <1>4, <1>5, <1>6, <1>7

\* Changes of the session record are no effects.
LEMMA TrackedSame ==
  ASSUME NEW c, NEW d \in Context, NEW x, NEW what, Tracked(c, x, what),
         d.fx = c.fx, d.timers = c.timers, d.acct = c.acct, d.posture = c.posture
  PROVE  Tracked(d, x, what)
  BY TracksSame DEF Tracked

\* A context that holds neither may be said to hold records only.
LEMMA TrackedWeaker ==
  ASSUME NEW c, NEW x, Tracked(c, x, "neither")
  PROVE  Tracked(c, x, "records")
  BY TracksWeaker DEF Tracked

\* A state change is no effect.
LEMMA TrackedState ==
  ASSUME NEW c, NEW s \in State, NEW x, NEW what, Tracked(c, x, what)
  PROVE  LET d == [c EXCEPT !.st = s] IN
         d \in Context /\ Tracked(d, x, what) /\ d.st = s /\ (Backed(c) => Backed(d))
<1> DEFINE d == [c EXCEPT !.st = s]
<1>1. c \in Context
  BY TrackedEffects
<1>2. /\ d \in Context /\ d.st = s /\ d.fx = c.fx /\ d.timers = c.timers
      /\ d.acct = c.acct /\ d.posture = c.posture
  BY <1>1 DEF Context
<1> HIDE DEF d
<1>3. Tracked(d, x, what) /\ (Backed(c) => Backed(d))
  BY <1>2, TrackedSame DEF Backed
<1> QED BY <1>2, <1>3 DEF d

\* A prompt.
LEMMA SolicitTracked ==
  ASSUME NEW c, NEW x, NEW what, Tracked(c, x, what), Backed(c)
  PROVE  Tracked(send_identity(c), x, what) /\ send_identity(c).st = c.st
<1> DEFINE b == TxEapToSupplicant(c)
<1>1. "TxPeriod" \in TimerKind /\ c \in Context
  BY TrackedEffects DEF TimerKind
<1>2. Tracked(b, x, what)
  BY TrackedEffects
<1>3. send_identity(c) = ArmTimer(b, "TxPeriod")
  BY DEF send_identity
<1> HIDE DEF b
<1>4. Tracked(send_identity(c), x, what)
  BY <1>1, <1>2, <1>3, TrackedEffects
<1>5. send_identity(c).st = c.st
  BY <1>1, SendIdentityFields DEF SameSession
<1> QED BY <1>4, <1>5

\* Cancelling all timers and setting the posture.
LEMMA ResetTracked ==
  ASSUME NEW c, NEW x, NEW what, Tracked(c, x, what), NEW p \in PortAuthorization
  PROVE  LET d == SetAuthorization(CancelAllTimers(c), p) IN
         d \in Context /\ Tracked(d, x, what) /\ d.st = c.st
<1> DEFINE b == CancelAllTimers(c)
<1>1. c \in Context /\ Tracked(b, x, what)
  BY TrackedEffects
<1>2. SetAuthorization(b, p) \in Context /\ SetAuthorization(b, p).st = c.st
  BY <1>1, ResetFields DEF SameSession
<1> HIDE DEF b
<1>3. Tracked(SetAuthorization(b, p), x, what)
  BY <1>1, TrackedEffects
<1> QED BY <1>2, <1>3 DEF b

\* The quiet period.
LEMMA HoldTracked ==
  ASSUME NEW c, NEW x, NEW what, Tracked(c, x, what)
  PROVE  Tracked(hold(c), x, what) /\ hold(c).st = "Held"
<1> DEFINE a == [c EXCEPT !.st = "Held"]
           b == SetAuthorization(CancelAllTimers(a), Unauthorized)
<1>1. "Held" \in State /\ "Held" \in TimerKind
  BY DEF State, TimerKind
<1>2. Tracked(a, x, what) /\ a.st = "Held"
  BY <1>1, TrackedState
<1> HIDE DEF a
<1>3. b \in Context /\ Tracked(b, x, what) /\ b.st = "Held"
  BY <1>2, ResetTracked, Postures
<1>4. hold(c) = ArmTimer(b, "Held")
  BY DEF hold, a, b
<1> HIDE DEF b
<1>5. Tracked(ArmTimer(b, "Held"), x, what)
  BY <1>1, <1>3, TrackedEffects
<1>6. ArmTimer(b, "Held").st = "Held"
  BY <1>1, <1>3, ArmFields DEF SameSession
<1> QED BY <1>4, <1>5, <1>6

\* A fallback VLAN.
LEMMA FallbackTracked ==
  ASSUME NEW c, NEW x, NEW what, Tracked(c, x, what), NEW r \in FallbackReason
  PROVE  Tracked(enter_fallback(c, r), x, what) /\ enter_fallback(c, r).st = r
<1> DEFINE a == [c EXCEPT !.st = r]
<1>1. r \in State
  BY DEF State
<1>2. Tracked(a, x, what) /\ a.st = r
  BY <1>1, TrackedState
<1>3. enter_fallback(c, r) = SetAuthorization(CancelAllTimers(a), Fallback(r))
  BY DEF enter_fallback
<1> HIDE DEF a
<1> QED BY <1>2, <1>3, ResetTracked, Postures

\* A teardown; a record is closed under the grant it was opened under.
LEMMA TeardownTracked ==
  ASSUME NEW c, NEW x, Tracked(c, x, "neither"), AccountingOK(c), c.open \in BOOLEAN,
         c.open => c.posture = Authorized(x.class)
  PROVE  /\ Tracked(teardown(c), x, "records") /\ teardown(c).st = "New"
         /\ ~c.open => Tracked(teardown(c), x, "neither")
         /\ c.st # "New" => Backed(teardown(c))
<1>1. CASE c.st = "New"
  <2>1. teardown(c) = c
    BY <1>1 DEF teardown
  <2> QED BY <1>1, <2>1, TrackedWeaker
<1>2. CASE c.st # "New"
  <2> DEFINE a == IF c.open THEN AccountingStop(c) ELSE c
             b == SetAuthorization(CancelAllTimers(a), Unauthorized)
             d == [b EXCEPT !.st = "New", !.authz = NoGrant, !.kind = "Dot1x",
                            !.tx = 0]
  <2>1. PICK what \in {"neither", "records"} :
          Tracked(a, x, what) /\ (~c.open => what = "neither")
    <3>1. CASE c.open
      <4>1. c.acct = 1
        BY <3>1 DEF AccountingOK
      <4>2. Tracked(AccountingStop(c), x, "records")
        BY <3>1, <4>1, TracksRecord DEF Tracked
      <4> QED BY <3>1, <4>2
    <3>2. CASE ~c.open
      BY <3>2
    <3> QED BY <3>1, <3>2
  <2>2. teardown(c) = d
    BY <1>2 DEF teardown
  <2> HIDE DEF a
  <2>3. b \in Context /\ Tracked(b, x, what) /\ b.posture = Unauthorized
    <3>1. a \in Context
      BY <2>1, TrackedEffects
    <3> QED BY <2>1, <3>1, ResetTracked, ResetFields, Postures
  <2> HIDE DEF b
  <2>4. "New" \in State /\ "Dot1x" \in AuthKind
    BY DEF State, AuthKind
  <2>5. /\ d \in Context /\ d.st = "New" /\ d.fx = b.fx /\ d.timers = b.timers
        /\ d.acct = b.acct /\ d.posture = b.posture
    BY <2>3, <2>4 DEF Context
  <2> HIDE DEF d
  <2>6. Tracked(d, x, what)
    BY <2>3, <2>5, TrackedSame
  <2>7. Backed(d)
    BY <2>3, <2>5, Postures DEF Backed
  <2> QED BY <2>1, <2>2, <2>5, <2>6, <2>7, TrackedWeaker
<1> QED BY <1>1, <1>2

\* Both ways of asking the server.
LEMMA AskTracked ==
  ASSUME NEW c, NEW x, Tracked(c, x, "neither"), NEW kind \in AuthKind,
         NEW awaited \in TimerKind, NEW eap \in EapPacket
  PROVE  /\ LET d == relay_response(c, kind, awaited, eap) IN
            Tracked(d, x, "request") /\ d.st = "AuthServer"
         /\ Tracked(start_mab(c), x, "request") /\ start_mab(c).st = "AuthServer"
<1>1. ASSUME NEW k \in AuthKind, NEW t \in TimerKind, NEW f, NEW b,
             b = CancelTimer([c EXCEPT !.st = "AuthServer", !.kind = k], t),
             f \in {ToAuthServer(b, eap), StartMab(b)}
      PROVE  LET d == ArmTimer(f, "ServerTimeout") IN
             Tracked(d, x, "request") /\ d.st = "AuthServer"
  <2> DEFINE a == [c EXCEPT !.st = "AuthServer", !.kind = k]
             d == ArmTimer(f, "ServerTimeout")
  <2>1. "AuthServer" \in State /\ "ServerTimeout" \in TimerKind /\ c \in Context
    BY TrackedEffects DEF State, TimerKind
  <2>2. /\ a \in Context /\ a.st = "AuthServer" /\ a.fx = c.fx /\ a.timers = c.timers
        /\ a.acct = c.acct /\ a.posture = c.posture
    BY <2>1, <1>1 DEF Context
  <2>3. b = CancelTimer(a, t)
    BY <1>1
  <2> HIDE DEF a
  <2>4. Tracked(a, x, "neither")
    BY <2>2, TrackedSame
  <2>5. Tracked(b, x, "neither")
    BY <1>1, <2>3, <2>4, TrackedEffects
  <2>6. b \in Context /\ b.st = "AuthServer"
    BY <1>1, <2>2, <2>3, CancelFields DEF SameSession
  <2>7. Tracked(f, x, "request")
    BY <1>1, <2>5, TrackedEffects
  <2>8. f \in Context /\ f.st = "AuthServer"
    BY <1>1, <2>6, RelayFields DEF SameSession
  <2>9. Tracked(d, x, "request")
    BY <2>1, <2>7, TrackedEffects
  <2>10. d.st = "AuthServer"
    BY <2>1, <2>8, ArmFields DEF SameSession
  <2> QED BY <2>9, <2>10
<1>2. "Mab" \in AuthKind /\ "TxPeriod" \in TimerKind
  BY DEF AuthKind, TimerKind
<1> DEFINE b1 == CancelTimer([c EXCEPT !.st = "AuthServer", !.kind = kind], awaited)
           b2 == CancelTimer([c EXCEPT !.st = "AuthServer", !.kind = "Mab"], "TxPeriod")
<1>3. /\ relay_response(c, kind, awaited, eap) = ArmTimer(ToAuthServer(b1, eap), "ServerTimeout")
      /\ start_mab(c) = ArmTimer(StartMab(b2), "ServerTimeout")
  BY DEF relay_response, start_mab
<1>4. \A k \in AuthKind, t \in TimerKind : \A f, b :
        /\ b = CancelTimer([c EXCEPT !.st = "AuthServer", !.kind = k], t)
        /\ f \in {ToAuthServer(b, eap), StartMab(b)}
        => /\ Tracked(ArmTimer(f, "ServerTimeout"), x, "request")
           /\ ArmTimer(f, "ServerTimeout").st = "AuthServer"
  BY <1>1
<1>5. LET d == ArmTimer(ToAuthServer(b1, eap), "ServerTimeout") IN
      Tracked(d, x, "request") /\ d.st = "AuthServer"
  BY <1>4
<1>6. LET d == ArmTimer(StartMab(b2), "ServerTimeout") IN
      Tracked(d, x, "request") /\ d.st = "AuthServer"
  BY <1>2, <1>4
<1> QED BY <1>3, <1>5, <1>6

\* The answer to an EAP exchange.
LEMMA AnswerTracked ==
  ASSUME NEW c, NEW x, NEW what, Tracked(c, x, what), Backed(c)
  PROVE  Tracked(relay_answer(c), x, what)
  BY TrackedEffects DEF relay_answer

\* An Accept of the grant whose Class is kept.
LEMMA AuthorizeTracked ==
  ASSUME NEW c, NEW x, NEW conf, Tracked(c, x, "neither"), Backed(c),
         NEW g \in Grants, x.class = g
  PROVE  LET d == authorize(c, g, conf) IN
         Tracked(d, x, "records") /\ d.st = "Authenticated"
<1> DEFINE q == relay_answer(c)
           r == CancelAllTimers(q)
           o == SetAuthorization(r, Authorized(g))
           t == IF c.open THEN o ELSE AccountingStart(o)
           u == IF conf.reauth_enabled THEN ArmTimer(t, "Reauth") ELSE t
           v == IF g \in Timed THEN ArmTimer(u, "SessionTimeout") ELSE u
           d == [v EXCEPT !.authz = g, !.st = "Authenticated"]
<1>1. authorize(c, g, conf) = d
  BY DEF authorize
<1>2. Tracked(q, x, "neither")
  BY AnswerTracked
<1> HIDE DEF q
<1>3. Tracked(r, x, "neither")
  BY <1>2, TrackedEffects
<1> HIDE DEF r
<1>4. PICK n0 : Tracks(r, x.from, n0, x.class, x.excused, "neither")
  BY <1>3 DEF Tracked
<1> DEFINE n == NotedBy(Authorized(g), n0, x.excused)
<1>5. Tracks(o, x.from, n, x.class, x.excused, "neither")
  BY <1>4, TracksSet, Postures
<1>6. x.excused = {} => n = (g \in Timed)
  BY DEF NotedBy, Authorized
<1>7. r \in Context
  BY <1>4 DEF Tracks
<1>8. o.posture = Authorized(g)
  BY <1>7, SetFields, Postures
<1> HIDE DEF o, n
<1>9. Tracks(t, x.from, n, x.class, x.excused, "records")
  <2>1. CASE c.open
    BY <1>5, <2>1, TracksWeaker
  <2>2. CASE ~c.open
    <3>1. Tracks(AccountingStart(o), x.from, n, x.class, x.excused, "records")
      BY <1>5, <1>8, TracksRecord
    <3> QED BY <2>2, <3>1
  <2> QED BY <2>1, <2>2
<1> HIDE DEF t
<1>10. "Reauth" \in TimerKind /\ "SessionTimeout" \in TimerKind
  BY DEF TimerKind
<1>11. Tracks(u, x.from, n, x.class, x.excused, "records")
  <2>1. Tracks(ArmTimer(t, "Reauth"), x.from, n, x.class, x.excused, "records")
    BY <1>9, <1>10, TracksArm
  <2> QED BY <1>9, <2>1
<1> HIDE DEF u
<1>12. Tracks(v, x.from, n, x.class, x.excused, "records")
  <2>1. ASSUME g \in Timed
        PROVE  Tracks(ArmTimer(u, "SessionTimeout"), x.from, n, x.class, x.excused, "records")
    BY <1>6, <1>10, <1>11, <2>1, TracksArm
  <2> QED BY <1>11, <2>1
<1> HIDE DEF v
<1>13. v \in Context /\ "Authenticated" \in State
  BY <1>12 DEF Tracks, State
<1>14. /\ d \in Context /\ d.st = "Authenticated" /\ d.fx = v.fx /\ d.timers = v.timers
       /\ d.acct = v.acct /\ d.posture = v.posture
  BY <1>13 DEF Context
<1> HIDE DEF d
<1>15. Tracks(d, x.from, n, x.class, x.excused, "records")
  BY <1>12, <1>14, TracksSame
<1> QED BY <1>1, <1>14, <1>15 DEF Tracked

\* A Reject.
LEMMA RejectTracked ==
  ASSUME NEW c, NEW x, NEW conf, Tracked(c, x, "neither"), Backed(c), AccountingOK(c),
         c.open \in BOOLEAN, c.open => c.posture = Authorized(x.class)
  PROVE  LET d == reject(c, conf) IN
         Tracked(d, x, "records") /\ d.st \notin {"AuthServer", "Authenticating"}
<1> DEFINE q == relay_answer(c)
<1>1. Tracked(q, x, "neither") /\ c \in Context
  BY AnswerTracked, TrackedEffects
<1>2. q.open = c.open /\ q.acct = c.acct /\ q.posture = c.posture
  BY <1>1, RelayAnswerFields
<1>3. CASE c.open
  <2>1. reject(c, conf) = teardown(q)
    BY <1>3 DEF reject
  <2> HIDE DEF q
  <2>2. AccountingOK(q)
    BY <1>2 DEF AccountingOK
  <2>3. Tracked(teardown(q), x, "records") /\ teardown(q).st = "New"
    BY <1>1, <1>2, <2>2, TeardownTracked
  <2> QED BY <2>1, <2>3
<1>4. CASE ~c.open /\ conf.auth_fail_vlan
  <2>1. reject(c, conf) = enter_fallback(q, "AuthFail")
    BY <1>4 DEF reject
  <2> HIDE DEF q
  <2>2. "AuthFail" \in FallbackReason
    BY DEF FallbackReason
  <2> QED BY <1>1, <2>1, <2>2, FallbackTracked, TrackedWeaker
<1>5. CASE ~c.open /\ ~conf.auth_fail_vlan
  <2>1. reject(c, conf) = hold(q)
    BY <1>5 DEF reject
  <2> HIDE DEF q
  <2> QED BY <1>1, <2>1, HoldTracked, TrackedWeaker
<1> QED BY <1>3, <1>4, <1>5

-----------------------------------------------------------------------------
(* State handlers *)

\* How a step ends: waiting for the server with one request to send, or not
\* waiting with none.
Ends(d, x) == Tracked(d, x, IF d.st = "AuthServer" THEN "request" ELSE "records")

ReplyTypes == {"AccessChallenge", "AccessAccept", "AccessReject"}

\* c is about to take e.  The Class kept is that of its grant, or of the Accept
\* that e is; replies are taken exactly while waiting for one.
Takes(c, e, conf, x) ==
  /\ Ready(c, e, conf) /\ EventOK(e) /\ Tracked(c, x, "neither")
  /\ c.open /\ e.type # "AccessAccept" => x.class = c.authz
  /\ e.type = "AccessAccept" => x.class = e.arg
  /\ c.st = "AuthServer" <=> e.type \in ReplyTypes

\* What Takes says of a context.
LEMMA TakesFields ==
  ASSUME NEW c, NEW e, NEW conf, NEW x, Takes(c, e, conf, x)
  PROVE  /\ c \in Context /\ c.open \in BOOLEAN /\ AccountingOK(c) /\ Backed(c)
         /\ c.kind \in AuthKind /\ c.tx \in Nat
         /\ e.type # "AccessAccept" /\ c.open => c.posture = Authorized(x.class)
         /\ Tracked(c, x, "neither") /\ Tracked(c, x, "records")
         /\ e.type = "EapFromSupplicant" => e.arg \in EapPacket
<1>1. c \in Context /\ AccountingOK(c)
  BY DEF Takes, Ready
<1>2. c.open \in BOOLEAN /\ c.kind \in AuthKind /\ c.tx \in Nat
  BY <1>1 DEF Context
<1>3. e.type # "AccessAccept" /\ c.open => c.posture = Authorized(x.class)
  BY DEF Takes, Ready, PostureOK
<1>4. e.type = "EapFromSupplicant" => e.arg \in EapPacket
  BY DEF Takes, EventOK
<1>5. Backed(c)
  <2>1. PostureOK(c) /\ AccountingOK(c)
    BY DEF Takes, Ready
  <2>2. c.posture.mode = "Authorized" => c.open
    BY <1>1, <2>1, Modes DEF PostureOK
  <2> QED BY <2>1, <2>2 DEF Backed, AccountingOK
<1> QED BY <1>1, <1>2, <1>3, <1>4, <1>5, TrackedWeaker DEF Takes

\* A fresh prompt in Connecting.
LEMMA PromptTracked ==
  ASSUME NEW c, NEW x, NEW what, Tracked(c, x, what), Backed(c), NEW n \in Nat
  PROVE  LET d == send_identity([c EXCEPT !.tx = n, !.st = "Connecting"]) IN
         Tracked(d, x, what) /\ d.st = "Connecting"
<1> DEFINE a == [c EXCEPT !.tx = n, !.st = "Connecting"]
<1>1. c \in Context /\ "Connecting" \in State
  BY TrackedEffects DEF State
<1>2. /\ a \in Context /\ a.st = "Connecting" /\ a.fx = c.fx /\ a.timers = c.timers
      /\ a.acct = c.acct /\ a.posture = c.posture
  BY <1>1 DEF Context
<1> HIDE DEF a
<1>3. Tracked(a, x, what) /\ Backed(a)
  BY <1>2, TrackedSame DEF Backed
<1>4. Tracked(send_identity(a), x, what) /\ send_identity(a).st = "Connecting"
  BY <1>2, <1>3, SolicitTracked
<1> QED BY <1>4 DEF a

\* Nobody answered the prompts.
LEMMA NoSupplicantTracked ==
  ASSUME NEW c, NEW e, NEW conf, NEW x, Takes(c, e, conf, x), e.type = "Timer"
  PROVE  LET d == no_supplicant(c, conf) IN Ends(d, x) /\ d.st # "Authenticating"
<1> DEFINE d == no_supplicant(c, conf)
<1>1. CASE c.open
  <2>1. d = teardown(c)
    BY <1>1 DEF no_supplicant
  <2>2. Tracked(teardown(c), x, "records") /\ teardown(c).st = "New"
    BY <1>1, TakesFields, TeardownTracked
  <2> QED BY <2>1, <2>2 DEF Ends
<1>2. CASE ~c.open /\ conf.mab_enabled
  <2>1. d = start_mab(c)
    BY <1>2 DEF no_supplicant
  <2>2. "Mab" \in AuthKind /\ "TxPeriod" \in TimerKind /\ "Identity" \in EapPacket
    BY DEF AuthKind, TimerKind, EapPacket
  <2>3. Tracked(start_mab(c), x, "request") /\ start_mab(c).st = "AuthServer"
    BY <2>2, TakesFields, AskTracked
  <2> QED BY <2>1, <2>3 DEF Ends
<1>3. CASE ~c.open /\ ~conf.mab_enabled /\ conf.guest_vlan
  <2>1. d = enter_fallback(c, "Guest")
    BY <1>3 DEF no_supplicant
  <2>2. "Guest" \in FallbackReason
    BY DEF FallbackReason
  <2>3. /\ Tracked(enter_fallback(c, "Guest"), x, "records")
        /\ enter_fallback(c, "Guest").st = "Guest"
    BY <2>2, TakesFields, FallbackTracked
  <2> QED BY <2>1, <2>3 DEF Ends
<1>4. CASE ~c.open /\ ~conf.mab_enabled /\ ~conf.guest_vlan
  <2>1. d = hold(c)
    BY <1>4 DEF no_supplicant
  <2>2. Tracked(hold(c), x, "records") /\ hold(c).st = "Held"
    BY TakesFields, HoldTracked
  <2> QED BY <2>1, <2>2 DEF Ends
<1> QED BY <1>1, <1>2, <1>3, <1>4

\* Connecting.
LEMMA InConnectingTracked ==
  ASSUME NEW c, NEW e, NEW conf, NEW x, Takes(c, e, conf, x), c.st = "Connecting"
  PROVE  LET d == in_connecting(c, e, conf) IN Ends(d, x) /\ d.st # "Authenticating"
<1> DEFINE d == in_connecting(c, e, conf)
<1>1. CASE e.type \in {"EapolStart", "LinkUp"}
  <2>1. d = send_identity(c)
    BY <1>1 DEF in_connecting, Timer, IsResponse
  <2>2. Tracked(send_identity(c), x, "records") /\ send_identity(c).st = "Connecting"
    BY TakesFields, SolicitTracked
  <2> QED BY <2>1, <2>2 DEF Ends
<1>2. CASE e = Timer("TxPeriod") /\ c.tx < conf.max_reauth_req
  <2>1. e.type = "Timer"
    BY <1>2 DEF Timer
  <2> DEFINE a == [c EXCEPT !.tx = @ + 1]
  <2>2. d = send_identity(a)
    BY <1>2, <2>1 DEF in_connecting, Timer, IsResponse
  <2>3. c.tx + 1 \in Nat /\ c \in Context
    BY TakesFields
  <2>4. /\ a \in Context /\ a.st = c.st /\ a.fx = c.fx /\ a.timers = c.timers
        /\ a.acct = c.acct /\ a.posture = c.posture
    <3> DEFINE n == c.tx + 1
    <3>1. a = [c EXCEPT !.tx = n] /\ n \in Nat
      BY <2>3
    <3> HIDE DEF a, n
    <3> QED BY <2>3, <3>1 DEF Context
  <2> HIDE DEF a
  <2>5. Tracked(a, x, "records") /\ Backed(a)
    BY <2>4, TakesFields, TrackedSame DEF Backed
  <2>6. Tracked(send_identity(a), x, "records") /\ send_identity(a).st = "Connecting"
    BY <2>4, <2>5, SolicitTracked
  <2> QED BY <2>2, <2>6 DEF Ends
<1>3. CASE e = Timer("TxPeriod") /\ ~(c.tx < conf.max_reauth_req)
  <2>1. e.type = "Timer"
    BY <1>3 DEF Timer
  <2>2. d = no_supplicant(c, conf)
    BY <1>3, <2>1 DEF in_connecting, Timer, IsResponse
  <2> QED BY <2>1, <2>2, NoSupplicantTracked
<1>4. CASE IsResponse(e)
  <2>1. e.type = "EapFromSupplicant" /\ e # Timer("TxPeriod")
    BY <1>4 DEF IsResponse, Timer
  <2>2. d = relay_response(c, "Dot1x", "TxPeriod", e.arg)
    BY <1>4, <2>1 DEF in_connecting, Timer, IsResponse
  <2>3. "Dot1x" \in AuthKind /\ "TxPeriod" \in TimerKind
    BY DEF AuthKind, TimerKind
  <2>4. Tracked(d, x, "request") /\ d.st = "AuthServer"
    BY <2>1, <2>2, <2>3, TakesFields, AskTracked
  <2> QED BY <2>4 DEF Ends
<1>5. CASE e.type = "EapolLogoff"
  <2>1. e # Timer("TxPeriod") /\ ~IsResponse(e)
    BY <1>5 DEF IsResponse, Timer
  <2>2. d = teardown(c)
    BY <1>5, <2>1 DEF in_connecting, Timer, IsResponse
  <2>3. Tracked(teardown(c), x, "records") /\ teardown(c).st = "New"
    BY <1>5, TakesFields, TeardownTracked
  <2> QED BY <2>2, <2>3 DEF Ends
<1>6. CASE /\ e.type \notin {"EapolStart", "LinkUp", "EapolLogoff"}
           /\ e # Timer("TxPeriod") /\ ~IsResponse(e)
  <2>1. d = c
    BY <1>6 DEF in_connecting, Timer, IsResponse
  <2> QED BY <2>1, TakesFields DEF Ends
<1> QED BY <1>1, <1>2, <1>3, <1>4, <1>5, <1>6

\* Waiting for the server: every reply ends the wait.
LEMMA InAuthServerTracked ==
  ASSUME NEW c, NEW e, NEW conf, NEW x, Takes(c, e, conf, x), c.st = "AuthServer"
  PROVE  LET d == in_auth_server(c, e, conf) IN
         /\ Ends(d, x) /\ d.st # "AuthServer"
         /\ d.st = "Authenticating" => e.type = "AccessChallenge"
<1> DEFINE d == in_auth_server(c, e, conf)
<1>1. e.type \in ReplyTypes
  BY DEF Takes
<1>2. CASE e.type = "AccessChallenge"
  <2> DEFINE a == [c EXCEPT !.st = "Authenticating"]
             b == CancelTimer(a, "ServerTimeout")
             f == TxEapToSupplicant(b)
  <2>1. d = ArmTimer(f, "SuppTimeout")
    BY <1>2 DEF in_auth_server, Timer
  <2>2. /\ "Authenticating" \in State /\ "ServerTimeout" \in TimerKind
        /\ "SuppTimeout" \in TimerKind /\ "Identity" \in EapPacket
    BY DEF State, TimerKind, EapPacket
  <2>3. Tracked(a, x, "records") /\ a.st = "Authenticating"
    BY <2>2, TakesFields, TrackedState
  <2>4. a \in Context /\ Backed(a)
    BY <2>2, TakesFields, TrackedState
  <2> HIDE DEF a
  <2>5. Tracked(b, x, "records")
    BY <2>2, <2>3, TrackedEffects
  <2>6. b \in Context /\ b.st = "Authenticating" /\ Backed(b)
    BY <2>2, <2>3, <2>4, CancelFields DEF SameSession, Backed
  <2> HIDE DEF b
  <2>7. Tracked(f, x, "records")
    BY <2>5, <2>6, TrackedEffects
  <2>8. f \in Context /\ f.st = "Authenticating"
    BY <2>2, <2>6, RelayFields DEF SameSession
  <2> HIDE DEF f
  <2>9. Tracked(d, x, "records")
    BY <2>1, <2>2, <2>7, TrackedEffects
  <2>10. d.st = "Authenticating"
    BY <2>1, <2>2, <2>8, ArmFields DEF SameSession
  <2> QED BY <1>2, <2>9, <2>10 DEF Ends
<1>3. CASE e.type = "AccessAccept"
  <2>1. d = authorize(c, e.arg, conf)
    BY <1>3 DEF in_auth_server, Timer
  <2>2. e.arg \in Grants /\ x.class = e.arg
    BY <1>3 DEF Takes, EventOK
  <2>3. Tracked(d, x, "records") /\ d.st = "Authenticated"
    BY <2>1, <2>2, TakesFields, AuthorizeTracked
  <2> QED BY <2>3 DEF Ends
<1>4. CASE e.type = "AccessReject"
  <2>1. d = reject(c, conf)
    BY <1>4 DEF in_auth_server, Timer
  <2>2. Tracked(d, x, "records") /\ d.st \notin {"AuthServer", "Authenticating"}
    BY <1>4, <2>1, TakesFields, RejectTracked
  <2> QED BY <2>2 DEF Ends
<1> QED BY <1>1, <1>2, <1>3, <1>4 DEF ReplyTypes

\* Waiting for the supplicant.
LEMMA InAuthenticatingTracked ==
  ASSUME NEW c, NEW e, NEW conf, NEW x, Takes(c, e, conf, x), c.st = "Authenticating"
  PROVE  Ends(in_authenticating(c, e), x)
<1> DEFINE d == in_authenticating(c, e)
<1>1. CASE IsResponse(e)
  <2>1. e.type = "EapFromSupplicant"
    BY <1>1 DEF IsResponse
  <2>2. d = relay_response(c, c.kind, "SuppTimeout", e.arg)
    BY <1>1 DEF in_authenticating, Timer, IsResponse
  <2>3. "SuppTimeout" \in TimerKind
    BY DEF TimerKind
  <2>4. Tracked(d, x, "request") /\ d.st = "AuthServer"
    BY <2>1, <2>2, <2>3, TakesFields, AskTracked
  <2> QED BY <2>4 DEF Ends
<1>2. CASE e = Timer("SuppTimeout")
  <2>1. ~IsResponse(e) /\ e.type = "Timer"
    BY <1>2 DEF IsResponse, Timer
  <2>2. d = IF c.open THEN teardown(c) ELSE hold(c)
    BY <1>2, <2>1 DEF in_authenticating, Timer, IsResponse
  <2>3. Tracked(teardown(c), x, "records") /\ teardown(c).st = "New"
    BY <2>1, TakesFields, TeardownTracked
  <2>4. Tracked(hold(c), x, "records") /\ hold(c).st = "Held"
    BY TakesFields, HoldTracked
  <2> QED BY <2>2, <2>3, <2>4 DEF Ends
<1>3. CASE e.type = "EapolStart"
  <2>1. ~IsResponse(e) /\ e # Timer("SuppTimeout")
    BY <1>3 DEF IsResponse, Timer
  <2> DEFINE a == [c EXCEPT !.st = "Connecting"]
             b == CancelTimer(a, "SuppTimeout")
  <2>2. d = send_identity(b)
    BY <1>3, <2>1 DEF in_authenticating, Timer, IsResponse
  <2>3. "Connecting" \in State /\ "SuppTimeout" \in TimerKind
    BY DEF State, TimerKind
  <2>4. Tracked(a, x, "records") /\ a.st = "Connecting"
    BY <2>3, TakesFields, TrackedState
  <2>5. a \in Context /\ Backed(a)
    BY <2>3, TakesFields, TrackedState
  <2> HIDE DEF a
  <2>6. Tracked(b, x, "records") /\ b.st = "Connecting" /\ Backed(b)
    BY <2>3, <2>4, <2>5, TrackedEffects, CancelFields DEF SameSession, Backed
  <2> HIDE DEF b
  <2>7. Tracked(d, x, "records") /\ d.st = "Connecting"
    BY <2>2, <2>6, SolicitTracked
  <2> QED BY <2>7 DEF Ends
<1>4. CASE e.type = "EapolLogoff"
  <2>1. ~IsResponse(e) /\ e # Timer("SuppTimeout")
    BY <1>4 DEF IsResponse, Timer
  <2>2. d = teardown(c)
    BY <1>4, <2>1 DEF in_authenticating, Timer, IsResponse
  <2>3. Tracked(teardown(c), x, "records") /\ teardown(c).st = "New"
    BY <1>4, TakesFields, TeardownTracked
  <2> QED BY <2>2, <2>3 DEF Ends
<1>5. CASE /\ ~IsResponse(e) /\ e # Timer("SuppTimeout")
           /\ e.type \notin {"EapolStart", "EapolLogoff"}
  <2>1. d = c
    BY <1>5 DEF in_authenticating, Timer, IsResponse
  <2> QED BY <2>1, TakesFields DEF Ends
<1> QED BY <1>1, <1>2, <1>3, <1>4, <1>5

\* In service.
LEMMA InAuthenticatedTracked ==
  ASSUME NEW c, NEW e, NEW conf, NEW x, Takes(c, e, conf, x), c.st = "Authenticated"
  PROVE  LET d == in_authenticated(c, e) IN Ends(d, x) /\ d.st # "Authenticating"
<1> DEFINE d == in_authenticated(c, e)
<1>0. e.type \notin ReplyTypes
  BY DEF Takes
<1>1. /\ Tracked(teardown(c), x, "records") /\ teardown(c).st = "New"
      /\ Backed(teardown(c))
  BY <1>0, TakesFields, TeardownTracked DEF ReplyTypes
<1>2. CASE e = Timer("Reauth") \/ e.type = "EapolStart"
  <2> DEFINE a == [c EXCEPT !.st = "Connecting", !.tx = 1]
             b == CancelTimer(a, "Reauth")
  <2>1. d = send_identity(b)
    BY <1>2 DEF in_authenticated, begin_reauth, Timer
  <2>2. c \in Context /\ "Connecting" \in State /\ "Reauth" \in TimerKind
    BY TakesFields DEF State, TimerKind
  <2>3. /\ a \in Context /\ a.st = "Connecting" /\ a.fx = c.fx /\ a.timers = c.timers
        /\ a.acct = c.acct /\ a.posture = c.posture
    BY <2>2 DEF Context
  <2> HIDE DEF a
  <2>4. Tracked(a, x, "records") /\ Backed(a)
    BY <2>3, TakesFields, TrackedSame DEF Backed
  <2>5. Tracked(b, x, "records") /\ b.st = "Connecting" /\ Backed(b)
    BY <2>2, <2>3, <2>4, TrackedEffects, CancelFields DEF SameSession, Backed
  <2> HIDE DEF b
  <2>6. Tracked(d, x, "records") /\ d.st = "Connecting"
    BY <2>1, <2>5, SolicitTracked
  <2> QED BY <2>6 DEF Ends
<1>3. CASE e.type = "EapolLogoff"
  <2>1. e # Timer("Reauth")
    BY <1>3 DEF Timer
  <2>2. d = teardown(c)
    BY <1>3, <2>1 DEF in_authenticated, Timer
  <2> QED BY <1>1, <2>2 DEF Ends
<1>4. CASE e = Timer("SessionTimeout")
  <2>1. e.type = "Timer" /\ e # Timer("Reauth")
    BY <1>4 DEF Timer
  <2>2. d = reconnect(teardown(c))
    BY <1>4, <2>1 DEF in_authenticated, Timer
  <2> DEFINE t == teardown(c)
  <2>3. Tracked(t, x, "records") /\ Backed(t)
    BY <1>1
  <2> HIDE DEF t
  <2>4. Tracked(reconnect(t), x, "records") /\ reconnect(t).st = "Connecting"
    BY <2>3, PromptTracked DEF reconnect
  <2> QED BY <2>2, <2>4 DEF Ends, t
<1>5. CASE /\ e # Timer("Reauth") /\ e # Timer("SessionTimeout")
           /\ e.type \notin {"EapolStart", "EapolLogoff"}
  <2>1. d = c
    BY <1>5 DEF in_authenticated, Timer
  <2> QED BY <2>1, TakesFields DEF Ends
<1> QED BY <1>2, <1>3, <1>4, <1>5

\* Held, or in a fallback VLAN.
LEMMA WaitingTracked ==
  ASSUME NEW c, NEW e, NEW conf, NEW x, Takes(c, e, conf, x),
         c.st \in {"Held"} \cup FallbackReason
  PROVE  \A d \in {in_held(c, e), in_fallback(c, e)} : Ends(d, x) /\ d.st # "Authenticating"
<1> DEFINE b == CancelTimer(c, "Held")
<1>1. Tracked(c, x, "records") /\ Backed(c) /\ c \in Context /\ "Held" \in TimerKind
  BY TakesFields DEF TimerKind
<1>2. Tracked(b, x, "records") /\ Backed(b)
  BY <1>1, TrackedEffects, CancelFields DEF Backed
<1> HIDE DEF b
<1>3. ASSUME NEW a, Tracked(a, x, "records"), Backed(a)
      PROVE  Tracked(reconnect(a), x, "records") /\ reconnect(a).st = "Connecting"
  BY <1>3, PromptTracked DEF reconnect
<1>4. in_held(c, e) \in {reconnect(b), c} /\ in_fallback(c, e) \in {reconnect(c), c}
  BY DEF in_held, in_fallback, b
<1>5. \A d \in {reconnect(b), reconnect(c), c} : Ends(d, x) /\ d.st # "Authenticating"
  BY <1>1, <1>2, <1>3 DEF Ends, FallbackReason
<1> QED BY <1>4, <1>5

\* Admission.
LEMMA EnableTracked ==
  ASSUME NEW c, NEW x, Tracked(c, x, "neither")
  PROVE  Tracked(enable(c), x, "neither")
<1> DEFINE a == [c EXCEPT !.authz = NoGrant, !.open = FALSE, !.kind = "Dot1x",
                          !.tx = 1, !.st = "Connecting"]
           b == SetAuthorization(a, Unauthorized)
<1>1. c \in Context /\ "Connecting" \in State /\ "Dot1x" \in AuthKind
  BY TrackedEffects DEF State, AuthKind
<1>2. /\ a \in Context /\ a.fx = c.fx /\ a.timers = c.timers
      /\ a.acct = c.acct /\ a.posture = c.posture
  BY <1>1 DEF Context
<1>3. enable(c) = send_identity(b)
  BY DEF enable
<1> HIDE DEF a
<1>4. Tracked(a, x, "neither")
  BY <1>2, TrackedSame
<1>5. Tracked(b, x, "neither") /\ Backed(b)
  BY <1>2, <1>4, TrackedEffects, SetFields, Postures, Modes DEF Backed
<1> HIDE DEF b
<1> QED BY <1>3, <1>5, SolicitTracked

\* Every step of a session on an event the daemon delivers.
LEMMA StepTracked ==
  ASSUME NEW c, NEW e, NEW conf, NEW x, Takes(c, e, conf, x), c.st # "New",
         e.type \notin {"LinkDown", "CoaDisconnect", "CoaAuthorize",
                        "CoaReauthenticate", "Enable"}
  PROVE  LET d == step(c, e, conf) IN
         /\ Ends(d, x)
         /\ e.type \in ReplyTypes => d.st # "AuthServer"
         /\ d.st = "Authenticating" => c.st = "Authenticating" \/ e.type = "AccessChallenge"
<1>1. c.st \in State
  BY TakesFields DEF Context
<1>2. c.st = "AuthServer" <=> e.type \in ReplyTypes
  BY DEF Takes
<1>3. CASE c.st = "Connecting"
  <2>1. step(c, e, conf) = in_connecting(c, e, conf)
    BY <1>3 DEF step, FallbackReason
  <2> QED BY <1>2, <1>3, <2>1, InConnectingTracked
<1>4. CASE c.st = "AuthServer"
  <2>1. step(c, e, conf) = in_auth_server(c, e, conf)
    BY <1>4 DEF step, FallbackReason
  <2> QED BY <1>4, <2>1, InAuthServerTracked
<1>5. CASE c.st = "Authenticating"
  <2>1. step(c, e, conf) = in_authenticating(c, e)
    BY <1>5 DEF step, FallbackReason
  <2> QED BY <1>2, <1>5, <2>1, InAuthenticatingTracked
<1>6. CASE c.st = "Authenticated"
  <2>1. step(c, e, conf) = in_authenticated(c, e)
    BY <1>6 DEF step, FallbackReason
  <2> QED BY <1>2, <1>6, <2>1, InAuthenticatedTracked
<1>7. CASE c.st = "Held"
  <2>1. step(c, e, conf) = in_held(c, e)
    BY <1>7 DEF step, FallbackReason
  <2> QED BY <1>2, <1>7, <2>1, WaitingTracked
<1>8. CASE c.st \in FallbackReason
  <2>1. step(c, e, conf) = in_fallback(c, e)
    BY <1>8 DEF step, FallbackReason
  <2> QED BY <1>2, <1>8, <2>1, WaitingTracked DEF FallbackReason
<1> QED BY <1>1, <1>3, <1>4, <1>5, <1>6, <1>7, <1>8 DEF State

\* How c takes e: d keeps the session's invariant, its effects are tracked, the
\* Class kept is that of the grant it is open under, a reply ends the wait, and
\* only a challenge makes it wait for the supplicant.
Taken(c, e, d, conf, x) ==
  /\ CtxInv(d, conf) /\ Ends(d, x)
  /\ d.open => d.authz = x.class
  /\ e.type \in ReplyTypes => d.st # "AuthServer"
  /\ d.st = "Authenticating" => c.st = "Authenticating" \/ e.type = "AccessChallenge"

\* The events the daemon has a source for.
DaemonTypes == {"EapolStart", "EapolLogoff", "EapFromSupplicant", "Timer"} \cup ReplyTypes

\* A session takes an event of the daemon.
LEMMA StepTaken ==
  ASSUME NEW conf \in PaeConfig, NEW c, NEW e, NEW x, Takes(c, e, conf, x),
         c.st # "New", e.type \in DaemonTypes
  PROVE  Taken(c, e, step(c, e, conf), conf, x)
<1> DEFINE d == step(c, e, conf)
<1>1. e.type \notin {"LinkDown", "CoaDisconnect", "CoaAuthorize", "CoaReauthenticate",
                     "Enable"}
  BY DEF DaemonTypes, ReplyTypes
<1>2. /\ Ends(d, x)
      /\ e.type \in ReplyTypes => d.st # "AuthServer"
      /\ d.st = "Authenticating" => c.st = "Authenticating" \/ e.type = "AccessChallenge"
  BY <1>1, StepTracked
<1>3. Ready(c, e, conf) /\ EventOK(e)
  BY DEF Takes
<1>4. /\ CtxInv(d, conf)
      /\ \/ NoneGiven(c, d)
         \/ e.type = "AccessAccept" /\ Given(d, e.arg)
  BY <1>1, <1>3, StepOK
<1>5. d.open => d.authz = x.class
  <2>1. CASE e.type = "AccessAccept"
    <3>1. c.st = "AuthServer" /\ e.arg \in Grants /\ x.class = e.arg
      BY <2>1 DEF Takes, EventOK, ReplyTypes
    <3>2. d = authorize(c, e.arg, conf)
      BY <2>1, <3>1 DEF step, in_auth_server, Timer, FallbackReason
    <3>3. Given(d, e.arg)
      BY <3>1, <3>2, TakesFields, AuthorizeOK
    <3> QED BY <3>1, <3>3 DEF Given
  <2>2. CASE e.type # "AccessAccept"
    <3>1. c.open => x.class = c.authz
      BY <2>2 DEF Takes
    <3> HIDE DEF d
    <3> QED BY <1>4, <2>2, <3>1 DEF NoneGiven
  <2> QED BY <2>1, <2>2
<1> HIDE DEF d
<1> QED BY <1>2, <1>4, <1>5 DEF Taken, d

\* A MAC with no session is admitted on an event that is no reply.
LEMMA AdmitTaken ==
  ASSUME cfg \in PaeConfig, NEW c, NEW e, NEW x, CtxInv(c, cfg), c.st = "New",
         Tracked(c, x, "neither"), EventOK(e),
         e.type \in DaemonTypes, e.type \notin ReplyTypes
  PROVE  Taken(c, e, admit(c, e), cfg, x)
<1> DEFINE enabled == step(c, Event("Enable"), cfg)
<1>1. c \in Context /\ ~c.open /\ c.acct = 0 /\ c.timers = {}
  BY DEF CtxInv, PostureOK, AccountingOK, ForgottenOK
<1>2. enabled = enable(c)
  BY DEF step, Event
<1>3. CtxInv(enabled, cfg) /\ ~enabled.open /\ enabled.st = "Connecting"
  BY <1>1, <1>2, EnableOK
<1>4. Tracked(enabled, x, "neither")
  BY <1>2, EnableTracked
<1>5. CASE e.type = "EapolStart"
  <2>1. admit(c, e) = enabled
    BY <1>5 DEF admit
  <2> HIDE DEF enabled
  <2>2. Tracked(enabled, x, "records")
    BY <1>4, TrackedWeaker
  <2> QED BY <1>3, <2>1, <2>2 DEF Taken, Ends
<1>6. CASE e.type # "EapolStart"
  <2>1. admit(c, e) = step(enabled, e, cfg)
    BY <1>6 DEF admit, DaemonTypes, ReplyTypes
  <2> HIDE DEF enabled
  <2>2. Takes(enabled, e, cfg, x)
    <3>1. Ready(enabled, e, cfg)
      BY <1>3, InvReady
    <3> QED BY <1>3, <1>4, <3>1 DEF Takes, ReplyTypes
  <2>3. Taken(enabled, e, step(enabled, e, cfg), cfg, x)
    BY <1>3, <2>2, StepTaken
  <2> QED BY <1>3, <2>1, <2>3 DEF Taken
<1> QED BY <1>5, <1>6

\* A context that has done nothing yet tracks the world it believes in.
LEMMA NothingYet ==
  ASSUME NEW c \in Context, c.fx = <<>>, NEW noted \in BOOLEAN, NEW class, NEW excused
  PROVE  Tracked(c, [from |-> WorldOf(c, noted, excused), class |-> class,
                     excused |-> excused], "neither")
<1> DEFINE a == WorldOf(c, noted, excused)
           x == [from |-> a, class |-> class, excused |-> excused]
<1>1. a \in World
  BY WorldOfType
<1>2. x.from = a /\ x.class = class /\ x.excused = excused
  OBVIOUS
<1>3. Leads(c.fx, a, a, class, excused) /\ Holds(c.fx, "neither")
  BY <1>1, LeadsNowhere DEF Holds
<1>4. Tracks(c, a, noted, class, excused, "neither")
  BY <1>3 DEF Tracks
<1> HIDE DEF x
<1> QED BY <1>2, <1>4 DEF Tracked, x

=============================================================================
