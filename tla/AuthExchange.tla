---------------------------- MODULE AuthExchange ----------------------------
(***************************************************************************)
(* What the port's worker relies on when it asks the authentication        *)
(* server: one request is out at a time, and the verdict it acts on is the *)
(* one the server reached on that very request.  Otherwise the service of  *)
(* the port ends.  Authd's AccessRequest assumes this; RadSec implements   *)
(* it.                                                                     *)
(***************************************************************************)
EXTENDS Naturals

CONSTANTS Verdicts, None

VARIABLES
  serving,   \* the worker runs
  asked,     \* number of requests ever sent
  waiting,   \* the request that is out, or None
  decided,   \* verdicts of the server since the worker started, by request
  taken      \* verdicts acted on since then, by request

xvars == <<serving, asked, waiting, decided, taken>>

Init ==
  /\ serving = FALSE /\ asked = 0 /\ waiting = None
  /\ decided = {} /\ taken = {}

Open ==
  /\ ~serving /\ serving' = TRUE
  /\ UNCHANGED <<asked, waiting, decided, taken>>

Ask ==
  /\ serving /\ waiting = None
  /\ asked' = asked + 1 /\ waiting' = asked'
  /\ UNCHANGED <<serving, decided, taken>>

\* The server reaches one verdict on a request.
Decide(n, v) ==
  /\ n \in 1..asked /\ \A d \in decided : d[1] # n
  /\ decided' = decided \cup {<<n, v>>}
  /\ UNCHANGED <<serving, asked, waiting, taken>>

Take(v) ==
  /\ serving /\ <<waiting, v>> \in decided
  /\ taken' = taken \cup {<<waiting, v>>} /\ waiting' = None
  /\ UNCHANGED <<serving, asked, decided>>

\* A request that cannot be built counts as asked.
Fail ==
  /\ serving /\ serving' = FALSE /\ waiting' = None
  /\ asked' \in {asked, asked + 1}
  /\ decided' = {} /\ taken' = {}

Next ==
  \/ Open \/ Ask \/ Fail
  \/ \E v \in Verdicts : Take(v) \/ \E n \in 1..asked : Decide(n, v)

Spec == Init /\ [][Next]_xvars
=============================================================================
