------------------------------- MODULE Authd -------------------------------
(***************************************************************************)
(* The daemon's worker for one port: run_port (crates/authd/src/worker.rs) *)
(* driving the Orchestrator (dispatch.rs), the RADIUS correlation state    *)
(* (session.rs) and the timer tasks.                                       *)
(*                                                                         *)
(* PortPae decides; this module performs.  The variables of PortPae are    *)
(* what the port authenticator believes it has asked for; armed, inbox,    *)
(* dataplane and ledger are the world the effects act on, one at a time,   *)
(* in the order of the list that `handle` returned.  Any effect that       *)
(* awaits a boundary can fail, and the first error ends run_port: its      *)
(* sessions, timers and queues are gone, the dataplane stays as it was.    *)
(*                                                                         *)
(* One event is handled at a time.  Timer tasks fire at any moment, also   *)
(* while an event is being handled; frames are taken only between events.  *)
(* Link events and CoA have no source in the daemon yet.                   *)
(***************************************************************************)
EXTENDS PortPae

CONSTANTS
  MaxSteps,  \* handle_event's bound on follow-up events: 64
  MaxInbox   \* bound of the model on expiries queued at once

ASSUME AuthdAssumption == MaxSteps \in Nat \ {0, 1} /\ MaxInbox \in Nat

VARIABLES
  status,     \* "up" while run_port serves the port, else why it does not
  job,        \* handle_event in progress
  orch,       \* Orchestrator.sessions: never forgets a MAC
  armed,      \* timer tasks asleep, per MAC
  inbox,      \* timer channel; live is FALSE once the timer is cancelled
  dataplane,  \* posture last programmed, per enforcement target
  ledger      \* accounting records open at the server, per MAC

world == <<armed, inbox, dataplane, ledger>>
dvars == <<vars, status, job, orch, world>>

Boundary == {"supplicant", "identity", "server", "enforcer", "accounting"}

NoJob == [mac |-> Port, fx |-> <<>>, queue |-> <<>>, steps |-> 0]

\* RadiusSession.last_state is Some or None; class is that of the last Accept.
SessionState ==
  [last_state : BOOLEAN, class : Grants \cup {NoGrant}, session_timeout : BOOLEAN]

NewSessionState ==
  [last_state |-> FALSE, class |-> NoGrant, session_timeout |-> FALSE]

Expiry == [mac : Mac, kind : TimerKind, live : BOOLEAN]

\* Every variable has its type.
DaemonTypeOK ==
  /\ TypeOK
  /\ status \in {"up", "stopped"} \cup Boundary
  /\ job.mac \in Targets /\ job.fx \in Seq(Effect) /\ job.steps \in Nat
  /\ orch \in [Mac -> SessionState]
  /\ armed \in [Mac -> SUBSET TimerKind]
  /\ inbox \in Seq(Expiry) /\ Len(inbox) <= MaxInbox
  /\ dataplane \in [Targets -> PortAuthorization]
  /\ ledger \in [Mac -> Nat]

idle == status = "up" /\ job = NoJob

-----------------------------------------------------------------------------
(* Orchestrator::handle_event *)

\* The effects PortPae::handle returns for an event.
EffectsOf(m, e, fired) ==
  LET c == View(m, fired)
  IN  CASE m \in active_sessions -> step(c, e, cfg).fx
        [] m \notin active_sessions /\ can_admit -> admit(c, e).fx
        [] OTHER -> <<>>

Advance(j) == IF j.fx = <<>> /\ j.queue = <<>> THEN NoJob ELSE j

\* One turn of the loop: the event goes to the authenticator.
Process(m, e, fired, rest, steps) ==
  /\ Deliver(m, e, fired)
  /\ job' = Advance([mac |-> m, fx |-> EffectsOf(m, e, fired), queue |-> rest,
                     steps |-> steps])

handle_event(m, e, fired) == idle /\ Process(m, e, fired, <<>>, 1)

\* Faulty variant: the event stays queued after it was taken.
FollowUp_keeps_event ==
  /\ status = "up" /\ job.fx = <<>> /\ job.queue # <<>>
  /\ IF job.steps < MaxSteps
     THEN Process(job.mac, Head(job.queue), {}, job.queue, job.steps + 1)
     ELSE job' = NoJob /\ UNCHANGED vars
  /\ UNCHANGED <<status, orch, world>>

\* A follow-up is taken when the effects of the event before it are done.
FollowUp ==
  /\ status = "up" /\ job.fx = <<>> /\ job.queue # <<>>
  /\ IF job.steps < MaxSteps
     THEN Process(job.mac, Head(job.queue), {}, Tail(job.queue), job.steps + 1)
     ELSE job' = NoJob /\ UNCHANGED vars
  /\ UNCHANGED <<status, orch, world>>

-----------------------------------------------------------------------------
(* Orchestrator::dispatch *)

Doing(do) == status = "up" /\ job.fx # <<>> /\ Head(job.fx).do = do

Arg == Head(job.fx).arg

Done(follow) ==
  /\ job' = Advance([job EXCEPT !.fx = Tail(@), !.queue = @ \o follow])
  /\ UNCHANGED <<vars, status>>

\* The target of a SetAuthorization; the other effects keep their MAC.
Target == decorate(job.mac)

TxEap ==
  /\ Doing("TxEapToSupplicant") /\ Done(<<>>)
  /\ UNCHANGED <<orch, world>>

Replies ==
  {Event("AccessChallenge"), Event("AccessReject")}
    \cup {AccessAccept(g) : g \in Grants}

\* Faulty variant: every reply replaces the Class.
handle_reply_clears_class(s, reply) ==
  [s EXCEPT !.last_state = (reply.type = "AccessChallenge"),
            !.class = IF reply.type = "AccessAccept" THEN reply.arg ELSE NoGrant]

\* Faulty variant: the State is not kept.
handle_reply_loses_state(s, reply) ==
  [s EXCEPT !.class = IF reply.type = "AccessAccept" THEN reply.arg ELSE @]

\* A verified reply: its State is kept or cleared, an Accept's Class is kept.
handle_reply(s, reply) ==
  [s EXCEPT !.last_state = (reply.type = "AccessChallenge"),
            !.class = IF reply.type = "AccessAccept" THEN reply.arg ELSE @]

\* Faulty variant: the reply is not fed back.
AccessRequest_drops_reply ==
  /\ Doing("ToAuthServer") \/ Doing("StartMab")
  /\ \E reply \in Replies :
       /\ orch' = [orch EXCEPT ![job.mac] = handle_reply(@, reply)]
       /\ Done(<<>>)
  /\ UNCHANGED world

\* The round trip is awaited in place; its reply is the follow-up event.
AccessRequest ==
  /\ Doing("ToAuthServer") \/ Doing("StartMab")
  /\ \E reply \in Replies :
       /\ orch' = [orch EXCEPT ![job.mac] = handle_reply(@, reply)]
       /\ Done(<<reply>>)
  /\ UNCHANGED world

\* The Session-Timeout is noted only for an effect directed at a MAC.
NoteTimeout(s) ==
  IF Arg.mode = "Authorized" /\ Target # Port
  THEN [s EXCEPT !.session_timeout = Arg.via \in Timed]
  ELSE s

\* Faulty variant: a port-wide posture is programmed for one MAC.
SetAuth_on_mac ==
  /\ Doing("SetAuthorization") /\ Done(<<>>)
  /\ orch' = [orch EXCEPT ![job.mac] = NoteTimeout(@)]
  /\ dataplane' = [dataplane EXCEPT ![job.mac] = Arg]
  /\ UNCHANGED <<armed, inbox, ledger>>

SetAuth ==
  /\ Doing("SetAuthorization") /\ Done(<<>>)
  /\ orch' = [orch EXCEPT ![job.mac] = NoteTimeout(@)]
  /\ dataplane' = [dataplane EXCEPT ![Target] = Arg]
  /\ UNCHANGED <<armed, inbox, ledger>>

\* The tasks of kinds ks are aborted; an expiry already sent stays in the
\* channel.
Abort(ks) ==
  inbox' = [i \in DOMAIN inbox |->
              [inbox[i] EXCEPT !.live = @ /\ ~(/\ inbox[i].mac = job.mac
                                               /\ inbox[i].kind \in ks)]]

\* Faulty variant: the periodic re-authentication has no duration.
timer_duration_no_reauth(k) ==
  k \notin {"Reauth", "SessionTimeout"} \/ (k = "SessionTimeout" /\ orch[job.mac].session_timeout)

timer_duration(k) == k # "SessionTimeout" \/ orch[job.mac].session_timeout

Arm ==
  /\ Doing("ArmTimer") /\ Done(<<>>)
  /\ IF timer_duration(Arg)
     THEN /\ armed' = [armed EXCEPT ![job.mac] = @ \cup {Arg}]
          /\ Abort({Arg})
     ELSE UNCHANGED <<armed, inbox>>
  /\ UNCHANGED <<orch, dataplane, ledger>>

Cancel ==
  /\ Doing("CancelTimer") /\ Done(<<>>)
  /\ armed' = [armed EXCEPT ![job.mac] = @ \ {Arg}] /\ Abort({Arg})
  /\ UNCHANGED <<orch, dataplane, ledger>>

\* Faulty variant: the handles are dropped, the tasks sleep on.
CancelAll_forgets ==
  /\ Doing("CancelAllTimers") /\ Done(<<>>)
  /\ UNCHANGED <<orch, world>>

\* Faulty variant: the timers of every MAC on the port are cancelled.
CancelAll_of_port ==
  /\ Doing("CancelAllTimers") /\ Done(<<>>)
  /\ armed' = [m \in Mac |-> {}] /\ inbox' = <<>>
  /\ UNCHANGED <<orch, dataplane, ledger>>

CancelAll ==
  /\ Doing("CancelAllTimers") /\ Done(<<>>)
  /\ armed' = [armed EXCEPT ![job.mac] = {}] /\ Abort(TimerKind)
  /\ UNCHANGED <<orch, dataplane, ledger>>

\* Faulty variant: Start and Stop are swapped.
Recorded_swapped(do) ==
  [ledger EXCEPT ![job.mac] = IF do = "Stop" THEN @ + 1 ELSE @ - 1]

Recorded(do) ==
  [ledger EXCEPT ![job.mac] = IF do = "Start" THEN @ + 1 ELSE @ - 1]

Accounting ==
  \E do \in {"Start", "Stop"} :
    /\ Doing(do) /\ Done(<<>>)
    /\ ledger' = Recorded(do)
    /\ UNCHANGED <<orch, armed, inbox, dataplane>>

-----------------------------------------------------------------------------
(* run_port *)

\* run_port has returned: nothing it kept is left.
Exit(why) ==
  /\ status' = why /\ job' = NoJob
  /\ orch' = [m \in Mac |-> NewSessionState]
  /\ armed' = [m \in Mac |-> {}] /\ inbox' = <<>>
  /\ sess' = [m \in Mac |-> NewSession] /\ timers' = [m \in Mac |-> {}]
  /\ acct' = [m \in Mac |-> 0] /\ plane' = [t \in Targets |-> Unauthorized]
  /\ UNCHANGED cfg

SocketFails ==
  /\ idle \/ Doing("TxEapToSupplicant")
  /\ Exit("supplicant") /\ UNCHANGED <<dataplane, ledger>>

\* An identity that sanitize::user_name refuses: no request is sent, and the
\* worker ends for every supplicant of the port.
IdentityRefused ==
  /\ Doing("ToAuthServer") /\ Arg = "Identity"
  /\ Exit("identity") /\ UNCHANGED <<dataplane, ledger>>

\* No answer within io_timeout, or one that does not verify or parse.
ServerFails ==
  /\ Doing("ToAuthServer") \/ Doing("StartMab")
  /\ Exit("server") /\ UNCHANGED <<dataplane, ledger>>

\* The change is not confirmed: it may or may not have been made.
EnforcerFails ==
  /\ Doing("SetAuthorization") /\ Exit("enforcer")
  /\ dataplane' \in {dataplane, [dataplane EXCEPT ![Target] = Arg]}
  /\ UNCHANGED ledger

AccountingFails ==
  \E do \in {"Start", "Stop"} :
    /\ Doing(do) /\ Exit("accounting")
    /\ ledger' \in {ledger, Recorded(do)}
    /\ UNCHANGED dataplane

\* The trap is installed and the port closed before the first frame is read.
\* The records of an earlier run belong to sessions that no longer exist.
Start ==
  /\ status # "up" /\ status' = "up"
  /\ dataplane' = [t \in Targets |-> Unauthorized]
  /\ ledger' = [m \in Mac |-> 0]
  /\ UNCHANGED <<vars, job, orch, armed, inbox>>

\* Start, Logoff and EAP frames; the others are ignored.
dispatch_frame(m) ==
  /\ \/ handle_event(m, Event("EapolStart"), {})
     \/ handle_event(m, Event("EapolLogoff"), {})
     \/ \E eap \in EapPacket : handle_event(m, EapFromSupplicant(eap), {})
  /\ UNCHANGED <<status, orch, world>>

TimerEvent ==
  /\ inbox # <<>>
  /\ LET x == Head(inbox)
     IN  handle_event(x.mac, Timer(x.kind), IF x.live THEN {x.kind} ELSE {})
  /\ inbox' = Tail(inbox)
  /\ UNCHANGED <<status, orch, armed, dataplane, ledger>>

\* A timer task wakes up and sends its event.
Fire(m, k) ==
  /\ k \in armed[m] /\ Len(inbox) < MaxInbox
  /\ armed' = [armed EXCEPT ![m] = @ \ {k}]
  /\ inbox' = Append(inbox, [mac |-> m, kind |-> k, live |-> TRUE])
  /\ UNCHANGED <<vars, status, job, orch, dataplane, ledger>>

DaemonInit ==
  /\ Init
  /\ status = "stopped" /\ job = NoJob
  /\ orch = [m \in Mac |-> NewSessionState]
  /\ armed = [m \in Mac |-> {}] /\ inbox = <<>>
  /\ dataplane = [t \in Targets |-> Unauthorized]
  /\ ledger = [m \in Mac |-> 0]

Dispatch ==
  TxEap \/ AccessRequest \/ SetAuth \/ Arm \/ Cancel \/ CancelAll \/ Accounting

Failure ==
  SocketFails \/ IdentityRefused \/ ServerFails \/ EnforcerFails \/ AccountingFails

DaemonNext ==
  \/ Start \/ Dispatch \/ FollowUp \/ Failure \/ TimerEvent
  \/ \E m \in Mac : dispatch_frame(m) \/ \E k \in TimerKind : Fire(m, k)

DaemonSpec == DaemonInit /\ [][DaemonNext]_dvars

\* The awaits of a handler return, with a result or an error (io_timeout bounds
\* those on the server); select! takes its ready branches at random, so an
\* expiry is not passed over for ever; a sleeping task wakes up.  Fairness of
\* Fire is strong only because MaxInbox may disable it.
Working == Dispatch \/ FollowUp \/ (job # NoJob /\ Failure)

FairDaemonSpec ==
  /\ DaemonSpec
  /\ WF_dvars(Working) /\ SF_dvars(TimerEvent)
  /\ \A m \in Mac, k \in TimerKind : SF_dvars(Fire(m, k))

-----------------------------------------------------------------------------
(* Safety *)

\* Whatever the interleaving with timers, the dataplane lags the decision only
\* for the target of the event being handled, and only while the effect that
\* will bring it in line is still to be performed.
OnlyTheJobLags ==
  status = "up" =>
    \A t \in Targets : dataplane[t] # plane[t] =>
      /\ t = Target
      /\ [do |-> "SetAuthorization", arg |-> plane[t]] \in
           {job.fx[i] : i \in DOMAIN job.fx}

\* Expiries of a MAC that were sent and not cancelled since.
Pending(m) == {x.kind : x \in {inbox[i] : i \in {i \in DOMAIN inbox :
                                 inbox[i].mac = m /\ inbox[i].live}}}

\* Between events the world is what the authenticator believes: one record
\* open per open session, and every timer it counts on asleep or queued,
\* once.  The Session-Timeout of a multi-host port is the exception: its effects
\* go to the port target, and no session carries the value (see README, section 4).
SettledWorld ==
  idle =>
    /\ ledger = acct
    /\ \A m \in Mac :
         LET excused == IF cfg.host_mode = "MultiHost" THEN {"SessionTimeout"} ELSE {}
         IN  /\ (armed[m] \cup Pending(m)) \ excused = timers[m] \ excused
             /\ armed[m] \cap Pending(m) = {}

\* A reply is handed to a session that is waiting for it, and no session is
\* left waiting: the exchange is over when the next event is taken.
ExchangesComplete ==
  /\ job.queue # <<>> /\ job.fx = <<>> => sess[job.mac].st = "AuthServer"
  /\ idle => \A m \in Mac : sess[m].st # "AuthServer"

\* An event has at most one follow-up: the bound on the loop drops nothing.
FollowUpsBounded == job.steps + Len(job.queue) <= 2

\* A frame that a supplicant is waiting for goes out before what it announces
\* is done: when a send fails and ends the worker, the target is closed, or was
\* open already under a session with a record at the server.
SentBeforeOpened ==
  Doing("TxEapToSupplicant") /\ dataplane[Target].mode = "Authorized" =>
    \E m \in Mac : decorate(m) = Target /\ ledger[m] > 0

\* A record opens and closes while the port forwards under the grant whose
\* Class it carries, also when a re-authentication changed the grant.
RecordCarriesGrant ==
  Doing("Start") \/ Doing("Stop") =>
    dataplane[Target] = Authorized(orch[job.mac].class)

\* The State of the challenge a supplicant is answering is there to echo.
ChallengeStateKept ==
  idle => \A m \in Mac : sess[m].st = "Authenticating" => orch[m].last_state

-----------------------------------------------------------------------------
(* Liveness *)

\* With re-authentication on, once no frame comes in any more the dataplane is
\* closed again and again: no access outlives its supplicant, unless the worker
\* has ended.
SilentPortCloses ==
  cfg.reauth_enabled /\ <>[][~\E m \in Mac : dispatch_frame(m)]_dvars =>
    []<>(status # "up" \/ \A t \in Targets : dataplane[t].mode # "Authorized")

=============================================================================
