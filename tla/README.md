# A TLA+ model of usg-authenticator

usg-authenticator is the switch side of IEEE 802.1X: it keeps a port closed until
the supplicant behind it has been accepted by a RADIUS server, relays EAP between
the two, programs the SONiC dataplane with the granted VLAN and ACL, and accounts
for the session. This directory models its decision logic, the daemon that acts on
it, the exchanges with the server and the path of a packet from one wire to the
other, checks small instances with TLC, and proves with TLAPS every safety property
that those checks show.

Paths are relative to the repository root.

## 1. The system

| Part | State | Operations | Interaction |
|---|---|---|---|
| Session machine, `crates/pae/src/session.rs` | state, credential kind, prompt count, grant, accounting open | `step(event)`: 14 events in 7 states, returns a list of effects | sans-I/O; called by the port |
| Port, `crates/pae/src/port.rs` | sessions by MAC | `handle`, `enable`, `link_down`; admission by host mode, pruning, direction of effects | called by the orchestrator |
| Orchestrator, `crates/authd/src/dispatch.rs` | per-MAC RADIUS state, Session-Timeout, accounting id | `handle_event`, `apply_effects`, `dispatch` | performs effects one at a time on four boundaries |
| Worker, `crates/authd/src/worker.rs` | socket, timer channel, timer tasks | `run_port`, `dispatch_frame`, `TokioScheduler` | one task per port, plus one per armed timer |
| RADIUS correlation, `crates/authd/src/session.rs` | identifiers, State, Class, User-Name, pending request | build requests, verify and take replies | called by the orchestrator |
| SONiC backend, `crates/enforce-sonic` | posture remembered per port; CONFIG_DB | `ensure_eapol_trap`, `apply`; planner; Redis operations | shared by every port's worker |
| RADIUS codec, `crates/radius-client` | none | build and parse packets | pure |
| RadSec transport, `crates/radsec` | one TLS stream | `request`, `send`, `recv`, framing, TLS and FIPS policy | awaited by the orchestrator, bounded by `io_timeout` |
| EAPOL codec and socket, `crates/pacp`, `crates/eapol-io` | none; a raw socket | decode, encode; `recv`, `send` | frames in and out of the worker |
| Configuration, `crates/authd/src/config.rs`, `main.rs` | none | validation; a skeleton entry point | start-up only |
| Test helpers, `crates/kat`, `crates/enforce/src/recording.rs` | none | | tests only |

What makes it hard:

* **Order.** Frames, RADIUS replies, CoA and six kinds of timer reach a session in
  any order. A cancelled timer's expiry may already be in the channel.
* **Partial failure.** An event yields several effects; each may fail after the ones
  before it were performed, and the machine has already moved on. The first error
  ends the worker.
* **Sharing.** Supplicants of one port share a worker and, in multi-host mode, a
  posture. Ports share a Redis whose list updates are a read and a write.
* **Waiting.** Every state that waits for a peer has to have a timer armed.
* **One stream.** Every exchange of a port, access and accounting, of all its
  supplicants, uses one connection with eight-bit identifiers that each session
  numbers from 0; the server may repeat a reply or send what nobody asked for.
* **Lengths.** Three lengths describe one EAP packet in a frame, and buffers, padding
  and fragments cut it up three more times on its way.
* **Re-authentication** runs with the port open through the handlers of a first
  attempt; only `accounting_open` tells the two apart.

What makes it correct, per component, is stated in sections 3 to 5. `PROJECT.json`
lists the hazards by line, with the property that would catch each.

## 2. Modules

| Module | Models | Notes |
|---|---|---|
| `PaeSession` | `pae/src/session.rs`, with `config.rs`, `effect.rs`, `event.rs` | operators only: a handler maps a context to a context |
| `PortPae` | `pae/src/port.rs` | state machine over `PaeSession`; effects take place at once |
| `ControlledPort` | nothing in the code: the promise of a port | `PortPae` implements it |
| `Authd` | `authd/src/dispatch.rs`, `worker.rs`, `session.rs` | `EXTENDS PortPae`; effects performed one by one |
| `RadiusClient` | `radius-client` | operators only: packets built, verified and parsed |
| `AuthExchange` | nothing in the code: the promise of an exchange | `RadSec` implements it, `Authd` assumes it |
| `RadiusSession` | `authd/src/session.rs` | operators only: what a session remembers between exchanges |
| `RadSec` | `radsec`, the server effects of `dispatch.rs` | `EXTENDS RadiusSession` |
| `Pacp` | `pacp` | operators only: the codecs |
| `Relay` | `eapol-io`, `dispatch_frame`, `send_eap`, and the way between | `EXTENDS Pacp, RadiusSession` |
| `SonicEnforcer` | `enforce-sonic` | workers of several ports over one CONFIG_DB |
| `MCPortPae`, `MCPortPaeLive`, `MCAuthd`, `MCRadSec`, `MCRelay`, `MCSonicEnforcer` | | instances, symmetry, liveness; statements of the repository that the code does not meet |
| `PaeSessionProofs`, `PortPaeProofs` | | theorems about the session machine and the port, and the refinement |
| `EffectProofs`, `AuthdProofs` | | what effects amount to one by one; theorems about the daemon |
| `SonicEnforcerProofs` | | theorems about the backend |
| `RadiusClientProofs`, `RadSecProofs` | | lemmas about packets; theorems about the exchange, and the refinement |
| `RelayProofs` | | theorems about the path of a packet |

The modules meet in three places. `Authd` performs what `PortPae` decides, by
extending it. `Authd` takes a round trip to the server as one step with any verdict;
`AuthExchange` is that assumption, and `RadSec` is shown to implement it. `Relay` and
`RadSec` build requests and take replies with the same operators of `RadiusSession`
and `RadiusClient`.

Operators named `X_something` next to an operator `X`, under a comment that begins
"Faulty variant", are not part of any specification. Each is `X` with a plausible
mistake in it. Putting it in the place of `X` makes a named property fail, which
shows that the property depends on that piece of code.

### PaeSession and PortPae

A *context* is the `PortSession` record together with the effects emitted so far and
what they amount to: timers armed, Starts minus Stops, posture of the target.
`step(c, e, cfg)` dispatches as the code does, first on events any state takes, then
on the state. Handlers keep their names and the order of their effects.

`PortPae` has `cfg` (chosen in `Init` and constant), `sess`, and the world the
effects act on: `timers`, `acct`, `plane`. `Deliver` is `handle`: step an active
session, admit a new one (`Enable`, then the event unless that is a Start), or drop
the event. A pruned session and one not created yet are both a session in state
`New`; that is sound because `teardown` leaves exactly what `PortSession::new` makes
(`SessionForgottenOK`). There is one action per event. `Expire` needs the timer
armed; `LateExpire` does not, since the caller's queue can hold the expiry of a timer
cancelled since.

Abstractions: a grant is a model value, with or without a Session-Timeout. A VLAN
option is present or absent. An EAP packet is a Response with an identity, another
Response, or something else. The EAP identifier is left out; nothing reads it. An
Accept or Reject to an EAP attempt carries an EAP packet to relay, one to MAB does
not (`Option<Vec<u8>>` in the code). Terminate causes are left out. `Enable` is
delivered only to a MAC without a session, as `admit` does.

### Authd

`PortPae`'s variables are what the authenticator believes it has asked for; `armed`,
`inbox`, `dataplane` and `ledger` are what has been done. `job` is the `handle_event`
in progress: the effects still to perform, the follow-up queue, the step count. Each
arm of `dispatch` is an action, and each boundary has a failure action that ends the
worker: sessions, timers and queues vanish, the dataplane and the server's records
stay. An identity unfit for a User-Name is one of these failures. A call that fails may or may not have had its effect. `Start` brings the port
up again, closed. `Fire` may happen at any time, frames and expiries are taken only
when the worker is idle. An expiry remembers whether its timer was cancelled after
it was sent (`live`); the code does not look at this, only the properties do.

A challenge carries a State and the other replies do not. Class is identified with
the grant. A reply that fails to verify or parse is `ServerFails`. Link events and
CoA have no source in the daemon at this commit, so `Authd` has none.

### RadiusClient, RadiusSession and RadSec

A packet is its code, identifier, authenticator and attributes. Hashes are free
constructors over what was hashed, so a reply verifies exactly if it was sealed for
that request with that secret. `RadiusSession` has the operations of the session: a
request takes the next identifier, is noted as pending, carries the State of the last
challenge and the identity given last, and a reply is checked against what is pending
before it is parsed and remembered. `RadSec` has this state per MAC, the accounting ids, the request that is awaited, and two streams: packets up, headers and
bodies down, so that a timeout can fall between the two parts of a reply. `ReadHeader`
and `ReadBody` are `read_packet`, `Received` is the identifier check of
`RadSecConnection::request` followed by `handle_reply`, or by nothing for accounting.
The server answers each request once, whenever it likes; a stray is a repeated reply,
a packet that answers nothing, or a header with an impossible length. Every error ends
the worker, and the next one has a new connection.

Under the refinement of `AuthExchange` an access request is numbered by its Request
Authenticator, `waiting` is the request that is out, `decided` and `taken` are the
verdicts the server reached and those the sessions acted on.

### Pacp and Relay

Octets are digits of a small base, so that a two-octet length carries; the Ethernet
header is three cells. `Relay` follows one frame: `recv` cuts it off at the buffer's
length, `dispatch_frame` decodes it, `ToAuthServer` builds the request, the server
answers, `ReplyArrives` verifies the answer, sends the frame back and takes the grant,
and `Settle` closes the account before the next frame. What is remembered between
frames is the `RadiusSession` of each MAC. The supplicant's frames and the server's
answers are built by operators of their own (`Eap`, `Eapol`,
`Attributes`), independent of the codecs under test: a supplicant may get one of its
two lengths wrong by one, a server may write down a VLAN group badly. `sender`, `meant`,
`told` and `offer` are what they had in mind, and `called` the identity each supplicant
gave last; no code reads them. `mac` is the supplicant the worker took the frame to be
from. `reassemble` is the loop of the code
as a recursive function over the attributes.

### SonicEnforcer

`config` is the set of CONFIG_DB keys, `acl_ports` the `ports` list of each ACL
table. A call plans its operations (`transition`) from the posture remembered and
sends them one by one; a list operation is `ReadList` then `WriteList`. `Return`
happens only once confirmed. `Fail` ends the worker at any point and keeps what was
written. The target is ignored, as in the code.

## 3. Runs that pass

| Run | Instance | Distinct states | Shows |
|---|---|---|---|
| `PortPaeSafety` | 3 MACs (symmetric), 2 grants, all 192 policies of a one-session port (prompt budgets 0 to 2), and the 4 host modes | 13,921 | safety of the session machine and the port; refinement |
| `PortPaeLive` | 1 MAC, 2 grants, 32 policies | 6,072 | liveness of the session machine |
| `AuthdOneHost` | 1 MAC, 2 grants, 2 queued expiries | 25,556 | daemon against authenticator; liveness |
| `AuthdTwoHosts` | 2 MACs (symmetric), 2 queued expiries | 622,675 | independence of supplicants |
| `RadSecLink` | 2 MACs (symmetric), 2 identifiers, 3 requests, 2 strays a connection | 994,720 | correlation; refinement |
| `RelayPaths` | 2 MACs (symmetric), EAP packets up to 10 octets, base 6, attributes of 3, 2 identifiers | 420,920 | the data path both ways, round after round |
| `SonicPorts` | 2 ports (symmetric), 2 VLANs, 1 ACL | 1,519,874 | the backend under failure and sharing |

**Bounds.** Sessions of different MACs touch only in `can_admit`, `decorate` and
`link_down`; three MACs exceed every limit there is (1 and 2). Entering Connecting
counts one prompt, so budgets 0, 1 and 2 are below that, equal to it and above it. Two
grants, one of them timed, let a re-authentication change both. `MaxInbox` bounds
expiries in the channel: two allow a cancelled and a live expiry of one kind.
`MaxSteps` is the code's 64, and the theorem `OneFollowUp` shows it is never approached. Two
identifiers and three requests wrap the identifier and meet an old one again; two
strays allow one to end an accounting exchange and another to meet the reply it left.
In `RelayPaths` the base of 6 makes lengths carry, attributes of 3 octets fragment
every packet into two to four and make an identity of 4 too long, and the receive
buffer and the MTU are one octet short of the longest frame; the number of rounds is
not bounded; a second MAC is a wrong
address a packet could go to. Two ports and one ACL
suffice for a lost update, two VLANs for a move. Nothing else is bounded. Deadlock is
checked in every run.

**Properties of the port.** `SessionPostureOK` is fail-closed: the port forwards under
a grant exactly while accounting is open, and held and new sessions are closed.
`SessionAccountingOK` pairs Starts and Stops. `SessionTimersOK` says which timer each
state has armed. `SessionPromptsOK` bounds the prompts, `SessionForgottenOK` says
that nothing outlives a session. `AccessOnlyByServer` and `NoSilentDemotion` are
action properties: access opens only on an Accept to an outstanding request and its
grant changes only by another Accept or a CoA, and an open session that fails is closed before it is given a fallback VLAN. `CapacityOK`
and `ForwardingHasOwner` are about host modes. `ImplementsControlledPort` is the
refinement, with `access <- plane`, `billed <- acct`.

**Properties of the daemon.** `OnlyTheJobLags`: the dataplane differs from the decision
only at the target of the event in hand, and only while the effect that corrects it is
still to come. `SettledWorld`: between events the ledger and the timers are what the
authenticator believes. `ExchangesComplete`: a reply finds its session waiting, and no
session is left waiting. `SentBeforeOpened`: a supplicant is answered before the port is
opened to it, so a send that fails leaves no port opened by the answer that was lost.
`RecordCarriesGrant` and `ChallengeStateKept` are about Class and State.

**Properties of the exchange.** `ImplementsExchange`: the verdict a session acts on is
the server's on the request that session has out. `RefusesOnlyStrays`: as long as the
server sends nothing unasked, no reply is ever refused; `StreamInSync`: and nothing
stays on the stream between exchanges. `UserNameIsOwn` and `RecordsMatch` are about
what is kept across rounds and records.

**Properties of the path.** `RelayedVerbatim` and `DeliveredVerbatim`: the EAP packet
at one end is the one at the other, under the right addresses, or nothing is.
`WholeFramesArrive`: only what is malformed or too long is dropped.
`UserNameIsIdentity` and `GrantAsMeant` are about the two values policy hangs on: every
request, also one whose EAP packet names nobody, carries the identity its supplicant
gave last; and the VLAN of a grant is the one the server wrote down, soundly.

**Properties of the backend.** `EapolNeverBlocked`, `OpensIntoItsVlan` and
`SettledPosture` hold at every operation and after every failure.

**Liveness and fairness.** At some moment the environment settles for good. If the
supplicant is *silent*, the only fairness is that an armed timer expires, which the
sleeping task of `TokioScheduler` provides. Frames are excluded in that phase, because
an EAPOL-Start re-arms `TxPeriod` without counting. If it is *willing*, it sends Start
(weak fairness), and it answers and the server accepts if asked often enough (strong
fairness). These are assumptions about the peers, without which nothing can be
promised. The server, CoA and timers go on interfering.

`SilentPortCloses` is the same promise kept by the daemon, effects and failures
included: with re-authentication on, once no frame comes in any more, the dataplane is
closed again and again. It assumes that an await returns or fails (weak fairness of
the handler; `io_timeout` bounds the server's part), that `select!`, which picks among
ready branches at random, does not pass over an expiry for ever, and that a sleeping
timer task wakes up. The last two are strong fairness: of `TimerEvent` because a frame
may be taken instead, of `Fire` only because `MaxInbox` may disable it.

## 4. Where the repository says otherwise

Each run below checks one sentence of the repository and TLC finds it violated by
what the code does. Sources and quotations are in `PROJECT.json`.

| Run | What happens |
|---|---|
| `FindingSessionTimeout` | a Session-Timeout that expires in a re-authentication is dropped; if the server is then unreachable, the session goes on with at most the re-authentication timer, and with re-authentication off with none |
| `FindingFailureOpen` | Accept, port opened, Accounting-Start fails (or a re-authentication brings an unfit identity): the worker ends, the port stays open |
| `FindingOutage` | the server is unreachable: the worker ends, the critical VLAN is not applied |
| `FindingStaleState` | an attempt is abandoned after a challenge; the first request of the next one carries its State |
| `FindingAclBinding` | two ports bind one ACL at once, a binding is lost, both calls succeed |

Seen while modelling and not kept as runs, because they can be read off a few lines:

* a declined MAB attempt goes to the auth-fail VLAN or to Held (`session.rs:341`),
  where `config.rs:85` and `DESIGN.md:144` give it the guest VLAN;
* a CoA authorization change is dropped unless the session is authenticated
  (`session.rs:394`), also when the port is open for a re-authentication, where
  `DESIGN.md:125` applies it in any state;
* on a multi-host port a Session-Timeout is never noted, because its effect names no
  MAC, so its timer is not armed (`dispatch.rs:239`), where `dispatch.rs:70` says it
  is kept for arming;
* `ensure_eapol_trap` forgets the VLAN an earlier worker left the port in
  (`enforcer.rs:93`), so after a restart the next grant adds a second one, where
  `schema.rs:8` says a port has one untagged VLAN; no property looks at the one left
  over;
* an accounting exchange is over with any packet that has its identifier
  (`worker.rs:49`), where `radsec/src/client.rs:67` says the caller must verify it;
* an Accept with a Tunnel-Type other than 13 or a Tunnel-Medium-Type other than 6, but
  without a Tunnel-Private-Group-ID, opens the port without a VLAN (`reply.rs:104`),
  where `SERVER-CONTRACT.md:80` says to reject it and stay unauthorized. `Relay` has
  such Accepts; `GrantAsMeant` asks for a sound group only where a VLAN is granted, and
  strengthened to every grant (`grant # None => Sound(offer)`) it is violated;
* tags of a VLAN group are not compared (`reply.rs:123`), where
  `SERVER-CONTRACT.md:80` takes the tag-1 group; that line also allows a VLAN name,
  which `is_valid_vlan` refuses (`schema.rs:223`), while it accepts `+5` and `005`,
  which name no VLAN in CONFIG_DB;
* `validate` accepts an interface name the socket refuses (`config.rs:109`,
  `socket.rs:63`), where `config.rs:76` fails on anything that would leave a port
  unserviceable;
* writing a request is not under `io_timeout` (`radsec/src/client.rs:75`), where
  `worker.rs:136` says that it caps the stall;
* the expiry of a cancelled timer that is already in the channel is handled
  (`worker.rs:90`) and may admit the MAC of a session that has ended; the invariants
  of the port hold with such expiries (`LateExpire`);
* a close unbinds the granted ACL before the deny rule is written (`schema.rs:120`),
  so one cut short leaves the port open without it;
* confirmations read CONFIG_DB (`enforcer.rs:137`), where `db.rs:4` and `DESIGN.md:88`
  say ASIC_DB.

## 5. Proofs

Each theorem holds for every value of the constants that the named assumptions of the
modules allow. Where an invariant a run checks is not inductive, the strengthening was
checked with TLC on the run's instance before it was proved (for the daemon with the
existential in `Leads`, which TLC cannot evaluate, computed effect by effect).

### The port: `PaeSessionProofs`, `PortPaeProofs`

| Theorem | Statement |
|---|---|
| `Inductive` | `Spec => []IInv` |
| `TypeCorrect` | `Spec => []TypeOK` |
| `FailClosed` | `Spec => []SessionPostureOK` |
| `AccountingBalanced` | `Spec => []SessionAccountingOK` |
| `TimersMatchState` | `Spec => []SessionTimersOK` |
| `PromptsBounded` | `Spec => []SessionPromptsOK` |
| `NothingLeftBehind` | `Spec => []SessionForgottenOK` |
| `CapacityRespected` | `Spec => []CapacityOK` |
| `NoOrphanAccess` | `Spec => []ForwardingHasOwner` |
| `NeverDemoted` | `Spec => NoSilentDemotion` |
| `OnlyByServer` | `Spec => AccessOnlyByServer` |
| `Refinement` | `Spec => ImplementsControlledPort` |

Assumed: the timed grants are grants, `NoGrant` is none of them, `Port` is not a MAC,
the MACs are finitely many, the configurations have their type.

None of these invariants is inductive alone. Accounting needs posture (a Stop is sent
only when a record is open), posture needs the session state, and a session that is
admitted steps from what an earlier one left, so it needs `SessionForgottenOK`. In
multi-host mode the posture of a session is the whole port's, so each session's
invariant also needs that there is at most one session and that a port with none is
closed. `IInv` is their conjunction.

The argument has two levels. `PaeSessionProofs` takes one context: if the invariants
hold of it, they hold of every handler's result, one lemma per handler, up to
`StepOK`. `PortPaeProofs` lifts it to the port: `ViewInv` gives the context's
invariant from `IInv`, `CommitOK` gives `IInv'` from the invariant of what is
committed, with `DeliverOK` (an active session, a fresh one, a dropped event) and
`LinkDownOK` on top.

The action properties and the refinement speak of a step, so the handlers are gone
through a second time for what they do to the posture: a grant is given only by an
Accept that meets a request (`Given`), every other handler gives none (`NoneGiven`)
and closes an open port before a fallback. `DeliverOutcome` says this of a delivered
event, and each action of `PortPae` is then a step of `ControlledPort` or a stutter.

### The daemon: `EffectProofs`, `AuthdProofs`

| Theorem | Statement |
|---|---|
| `DaemonInductive` | `DaemonSpec => []DInv` |
| `DaemonTypeCorrect` | `DaemonSpec => []DaemonTypeOK` |
| `PortUnderDaemon` | `DaemonSpec => []IInv` |
| `LagsOnlyInHand` | `DaemonSpec => []OnlyTheJobLags` |
| `SettlesAsBelieved` | `DaemonSpec => []SettledWorld` |
| `RepliesAwaited` | `DaemonSpec => []ExchangesComplete` |
| `OneFollowUp` | `DaemonSpec => []FollowUpsBounded` |
| `SendsBeforeOpening` | `DaemonSpec => []SentBeforeOpened` |
| `RecordsCarryGrant` | `DaemonSpec => []RecordCarriesGrant` |
| `StateToEcho` | `DaemonSpec => []ChallengeStateKept` |

For any number of supplicants and any bound on the channel. `MaxSteps`, 64 in the code
(`dispatch.rs:151`), is assumed to be at least 2: with 1 the server's reply would be
dropped.

The session machine moves at once, and its effects are performed one at a time, each
of which may end the worker. So an invariant has to say, in the middle of a list of
effects, what the rest will do. The heart of `DInv` is `Leads`: the effects still to be
performed lead from the world as it is (`Actual`: timers running or in the channel,
records open at the server, posture of the target, Session-Timeout noted) to the world
the authenticator believes in (`Believed`), each is `Allowed` when its turn comes (a
record only under the grant whose Class it carries, a Stop only with a record open, a
packet to the supplicant only where no access is given yet or a record is open, a
Session-Timeout only when noted), and a posture that is not the last is still to be
replaced by it. With it: whoever is not in hand is in line already (`OthersInLine`);
the exchange in hand is at one `Stage`, no request, one request still to send, or one
reply to take, which bounds the follow-ups; no expiry that counts is in the channel
twice (`Once`); nothing is left of a worker that has ended (`Down`).

`EffectProofs` goes through the handlers a third time, one lemma each, for the list of
effects they emit, up to `StepTaken` (an active session) and `AdmitTaken` (a new one).
`AuthdProofs` has the channel's lemmas, then one lemma per action: an event that is
taken (frame, expiry, follow-up) starts a list that leads where it should, an effect
that is performed leaves a shorter one that still does, and a start or a failure leaves
nothing in hand. What `Down` leaves out is what a failure really leaves behind: the
dataplane and the server's records (`FindingFailureOpen`).

### The backend: `SonicEnforcerProofs`

| Theorem | Statement |
|---|---|
| `EnforcerInductive` | `EnforcerSpec => []EInv` |
| `EnforcerTypeCorrect` | `EnforcerSpec => []EnforcerTypeOK` |
| `EapolLetThrough` | `EnforcerSpec => []EapolNeverBlocked` |
| `JoinsBeforeOpening` | `EnforcerSpec => []OpensIntoItsVlan` |
| `SettledAsAsked` | `EnforcerSpec => []SettledPosture` |

For any number of ports, VLANs and ACLs. `EInv` says, for a call in any stage, what
the operations still planned will leave: the permit for EAPOL is there or comes before
the deny (`EapolOrder`), the membership is there or comes before the deny goes
(`VlanOrder`), and once nothing is left each key is as asked (`Reaches`). Keys carry
their port, so the operations of one call leave the keys of another alone; only the
`ports` lists of ACL tables are shared, and no theorem claims them
(`FindingAclBinding` shows why).

### The exchange: `RadiusClientProofs`, `RadSecProofs`

| Theorem | Statement |
|---|---|
| `RadSecInductive` | `RadSecSpec => []RInv` |
| `RadSecTypeCorrect` | `RadSecSpec => []RadSecTypeOK` |
| `OnlyStraysRefused` | `RadSecSpec => []RefusesOnlyStrays` |
| `InSync` | `RadSecSpec => []StreamInSync` |
| `NamesAreOwn` | `RadSecSpec => []UserNameIsOwn` |
| `RecordsAreOwn` | `RadSecSpec => []RecordsMatch` |
| `ExchangeRefined` | `RadSecSpec => ImplementsExchange` |

For any number of supplicants, any identifier space and any number of requests and
strays. `RadiusClientProofs` has what requests and replies look like: which attributes
a sealed packet carries, that a Message-Authenticator is found where it was put, that
`find_attribute` finds the first, that fragments come back together. The heart of `RInv` is that every packet on its way
down is *vouched for*: it verifies as the reply to request n only if the server has
reached that verdict on n. So a repeated or unasked reply, whatever its identifier,
can end an accounting exchange or be refused, but cannot pass for a verdict on the
request that is out. With it: access requests not yet read are undecided and no two
are alike; while the server sends nothing unasked, the stream holds exactly the reply
that is awaited, whole, without its header, or not yet (`InStep`); a worker that has
ended left nothing behind (`Quiet`). Hashes are free constructors here, so these
theorems say nothing about the strength of HMAC-MD5 itself.

### The path: `RelayProofs`

| Theorem | Statement |
|---|---|
| `RelayInductive` | `RelaySpec => []RelayInv` |
| `RelayTypeCorrect` | `RelaySpec => []RelayTypeOK` |
| `RelaySafety` | `RelaySpec => []RelayedVerbatim` |
| `ArrivalSafety` | `RelaySpec => []WholeFramesArrive` |
| `UserNameSafety` | `RelaySpec => []UserNameIsIdentity` |
| `DeliverySafety` | `RelaySpec => []DeliveredVerbatim` |
| `GrantSafety` | `RelaySpec => []GrantAsMeant` |

For packets, paddings and VLAN names of any length, any base of at least 2, any length
of an attribute and any buffer that holds an Ethernet header. Assumed: contents and
paddings are octets, a VLAN name is not empty and begins with no tag octet (the names
are printable, tags are 1 to 31), `None` is no MAC, no number and no sequence of
numbers, and there is at least one identifier.

The properties relate one end of the path to the other, so `RelayInv` says of each
stage what is there: the frame was made of `meant` (`Sent`), what `recv` returned
decodes to `meant` or not at all (`ReadAs`), the request carries it (`Carrying`), the
answer carries `told` and `offer` and is sealed for the request (`Answered`), and only
one of them is on its way at a time (`OneAtATime`). From one frame to the next, each
session remembers as User-Name the identity its supplicant gave last (`Remembers`). Each stage then has one lemma about data:

* `FrameRead`: three lengths are declared or implied, at most one of them is wrong, and
  the buffer may cut the frame off anywhere. The packet decodes exactly if all of them
  agree, fit its code and lie within the buffer; padding never matters.
* `Relayed`: a request that can be built carries the whole packet, and names the
  identity in it or, if there is none, the one remembered.
* `AnswerRead`: an answer gives back its packet, cut into pieces of any size, and its
  authorization only if the VLAN group is sound.
* `Encoded`: a frame that can be sent is the one meant.

That what was cut up comes back together (`PiecesReassemble` in `RadiusClientProofs`)
is an induction over the attributes of a packet. It is done by least counterexample:
a set of natural numbers that is not empty has a least element (`Smallest`, from
`WFMin` of the library), so the first attribute after which `reassemble` does not hold
what it should would have to follow one after which it does. `Gathered` shows the same
way that the recursive function in `reassemble` is the only one of its form.

### Only model-checked

Liveness: `SilentSessionEnds`, `NoAttemptHangs`, `WillingSupplicantGetsIn` and
`SilentPortCloses`. TLAPS does not reason about fairness. Every other property of the
runs that pass is stated by a theorem.

## 6. Not modelled

TLS set-up and the FIPS policy check (library configuration), opening and binding the
raw socket (system calls), configuration validation (independent checks on one value),
`main` (a skeleton), the test helpers. Of what is modelled: the octets of UTF-8 and of
hashes, the NAS attributes that are the same in every packet of a port, terminate
causes, how a MAC is written. Durations: timers fire at any time, in any order, which
includes every duration. The ASIC: CONFIG_DB is the dataplane here.

## 7. Plan

`Authd` composed with `SonicEnforcer`: one posture per port against one per MAC.
