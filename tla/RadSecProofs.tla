---------------------------- MODULE RadSecProofs ----------------------------
(***************************************************************************)
(* Proofs about RadSec: for any set of supplicants, any identities, any    *)
(* size of the identifier space and any number of exchanges and strays,    *)
(* the verdict a session is given is the one the server reached on the     *)
(* request that session has out (ImplementsExchange), only strays make the *)
(* worker refuse a reply, and names and accounting records are their       *)
(* supplicant's own.                                                       *)
(***************************************************************************)
EXTENDS RadSec, RadiusClientProofs

-----------------------------------------------------------------------------
(* The inductive invariant *)

SessionFields ==
  {"next_id", "next_acct_id", "last_state", "user_name", "pending", "class"}

SessionOK(s) ==
  /\ DOMAIN s = SessionFields
  /\ s.next_id \in 0..(Ids - 1) /\ s.next_acct_id \in 0..(Ids - 1)
  /\ s.pending \in Pending \cup {None}

HistoryFields ==
  {"nonce", "replies", "strays", "accounts", "decided", "taken", "name", "record", "open"}

HistoryOK(h) ==
  /\ DOMAIN h = HistoryFields
  /\ h.nonce \in Nat /\ h.strays \in Nat /\ h.accounts \in Nat
  /\ DOMAIN h.name = Mac /\ DOMAIN h.record = Mac /\ h.open \subseteq Mac

Reasons == {"up", "stopped", "other", "identity", "refused", "timeout"}

\* Every variable has its type.
Types ==
  /\ ended \in Reasons
  /\ DOMAIN session = Mac /\ \A m \in Mac : SessionOK(session[m])
  /\ acct_id \in [Mac -> (Mac \X Nat) \cup {None}] /\ acct_counter \in Nat
  /\ HistoryOK(history)
  /\ DOMAIN job = {"mac", "request", "header"}
  /\ IsSeq(uplink) /\ IsSeq(downlink)

\* No request is out, and nothing on the way, while no worker runs.
Quiet == ~up => job = NoJob /\ uplink = <<>> /\ downlink = <<>>

\* Names and records of m are its own.
Own(m) ==
  /\ session[m].user_name = history.name[m]
  /\ m \in history.open => acct_id[m] # None /\ acct_id[m] = history.record[m]

\* The request that is out is the last one its session built, and carries the
\* session's name or the record's id.
JobOK ==
  job # NoJob =>
    /\ job.mac \in Mac
    /\ job.request.code \in {"AccessRequest", "AccountingRequest"}
    /\ job.request.code = "AccessRequest" =>
         /\ job.request.authenticator = <<"Nonce", history.nonce>>
         /\ session[job.mac].pending =
              [identifier |-> job.request.identifier,
               request_authenticator |-> <<"Nonce", history.nonce>>]
         /\ session[job.mac].pending # None
         /\ Has(job.request, "EAP-Message") =>
              find_attribute(job.request, "User-Name") = history.name[job.mac]
    /\ find_attribute(job.request, "Acct-Status-Type") = "Stop" =>
         find_attribute(job.request, "Acct-Session-Id") = history.record[job.mac]

\* A request the server has not read yet: an access request no verdict was
\* reached on, or an accounting request, whose authenticator is a hash.
Unread(r, nonce, decided) ==
  \/ /\ r.code = "AccessRequest"
     /\ \E n \in 1..nonce :
          r.authenticator = <<"Nonce", n>> /\ \A d \in decided : d[1] # n
  \/ r.code = "AccountingRequest" /\ r.authenticator[1] = "MD5"

\* No two access requests on the way have the same authenticator.
UplinkOK ==
  /\ \A i \in DOMAIN uplink : Unread(uplink[i], history.nonce, history.decided)
  /\ \A i, j \in DOMAIN uplink :
       i # j /\ uplink[i].code = "AccessRequest" /\ uplink[j].code = "AccessRequest"
         => uplink[i].authenticator # uplink[j].authenticator

\* A packet that passes for the reply to access request n has the verdict that
\* was reached on request n.
Vouched(p, decided) ==
  \A n \in Nat : verify_response_authenticator(p, <<"Nonce", n>>, Secret) =>
    <<n, p.code>> \in decided

\* f announces a packet that is vouched for, if it announces one at all.
Announces(f, decided) ==
  f[1] = "Header" /\ f[3] = "valid" => Vouched(f[2], decided)

\* Whatever was, is being or will be read is vouched for.
RepliesOK ==
  /\ history.decided \subseteq (1..history.nonce) \X Verdicts
  /\ \A p \in history.replies : Vouched(p, history.decided)
  /\ job.header # <<>> => Vouched(job.header[1], history.decided)
  /\ \A i \in DOMAIN downlink : Announces(downlink[i], history.decided)

\* The codes with which the server answers a request.
Answers(request) ==
  IF request.code = "AccessRequest"
  THEN {c \in Verdicts : c = "AccessChallenge" => Has(request, "EAP-Message")}
  ELSE {"AccountingResponse"}

\* Where the exchange is: the request on the way, or its reply, whole or but
\* for the header.
Exchanging ==
  \/ job.header = <<>> /\ uplink = <<job.request>> /\ downlink = <<>>
  \/ /\ uplink = <<>>
     /\ \E c \in Answers(job.request) :
          LET reply == Reply(job.request, c)
          IN  \/ job.header = <<>> /\ downlink = Framed(reply)
              \/ job.header = <<reply>> /\ downlink = <<Body(reply)>>

InStep ==
  up /\ history.strays = 0 =>
    IF job = NoJob THEN uplink = <<>> /\ downlink = <<>> ELSE Exchanging

RInv ==
  /\ Types /\ Quiet /\ (\A m \in Mac : Own(m)) /\ JobOK /\ UplinkOK /\ RepliesOK
  /\ InStep /\ RefusesOnlyStrays

-----------------------------------------------------------------------------
(* The server's replies *)

\* The attributes of a reply before it is signed.
OwnAttributes(request, code) ==
  CASE code = "AccessChallenge" -> <<<<"State", request.authenticator>>>>
    [] code = "AccessAccept" -> <<<<"Class", request.authenticator>>>>
    [] OTHER -> <<>>

EapAttributes(request) ==
  IF Has(request, "EAP-Message")
  THEN <<<<"EAP-Message", <<0>>>>, <<"Message-Authenticator", Zero>>>> ELSE <<>>

Unsigned(request, code) ==
  Packet(code, request.identifier, Zero,
         OwnAttributes(request, code) \o EapAttributes(request))

Signature(request, code) ==
  Hash("HMAC", Unsigned(request, code), request.authenticator, Secret)

SignedAttributes(request, code) ==
  WithAuthenticator(Unsigned(request, code), Signature(request, code)).attributes

\* What Reply is made of.
LEMMA ReplyIs ==
  ASSUME NEW request, NEW code
  PROVE  /\ Carries(OwnAttributes(request, code), {"State", "Class"})
         /\ Carries(EapAttributes(request), {"EAP-Message", "Message-Authenticator"})
         /\ IsSeq(Unsigned(request, code).attributes)
         /\ Reply(request, code) =
              Packet(code, request.identifier,
                     Hash("MD5", Reply(request, code), request.authenticator, Secret),
                     SignedAttributes(request, code))
<1> DEFINE O == OwnAttributes(request, code)
           E == EapAttributes(request)
           p == Unsigned(request, code)
           h == Signature(request, code)
           s == WithAuthenticator(p, h)
           B == SignedAttributes(request, code)
           r == Reply(request, code)
           n == request.authenticator
           T == {"State", "Class", "EAP-Message", "Message-Authenticator"}
<1>1. Carries(O, {"State", "Class"})
  <2> DEFINE S == {"State", "Class"}
  <2>1. "State" \in S /\ "Class" \in S
    OBVIOUS
  <2> HIDE DEF S
  <2>2. Carries(<<<<"State", n>>>>, S) /\ Carries(<<<<"Class", n>>>>, S)
    BY <2>1, One
  <2>3. Carries(<<>>, S)
    BY Singles DEF Carries
  <2> QED BY <2>2, <2>3 DEF OwnAttributes, S
<1>2. Carries(E, {"EAP-Message", "Message-Authenticator"})
  <2> DEFINE a == <<"EAP-Message", <<0>>>>
             b == <<"Message-Authenticator", Zero>>
             S == {"EAP-Message", "Message-Authenticator"}
  <2>1. a[1] \in S /\ b[1] \in S
    OBVIOUS
  <2>2. E = IF Has(request, "EAP-Message") THEN <<a, b>> ELSE <<>>
    BY DEF EapAttributes
  <2> HIDE DEF a, b, S, E
  <2>3. Carries(<<a, b>>, S) /\ Carries(<<>>, S)
    BY <2>1, Few
  <2>4. Carries(E, S)
    BY <2>2, <2>3
  <2> QED BY <2>4 DEF S, E
<1>3. Carries(O, T) /\ Carries(E, T)
  BY <1>1, <1>2 DEF Carries
<1>4. Carries(O \o E, T)
  BY <1>3, Joins
<1>5. p.attributes = O \o E
  <2> DEFINE A == O \o E
  <2>1. p = Packet(code, request.identifier, Zero, A)
    BY DEF Unsigned
  <2> HIDE DEF p, A
  <2>2. p.attributes = A
    BY <2>1, PacketFields
  <2> QED BY <2>2 DEF A
<1>6. IsSeq(p.attributes)
  BY <1>4, <1>5 DEF Carries
<1>7. s = Packet(code, request.identifier, Zero, B)
  <2>1. IsSeq(O \o E)
    BY <1>5, <1>6
  <2> QED BY <2>1, Signed DEF SignedAttributes, Unsigned
<1>8. r = [s EXCEPT !.authenticator = Hash("MD5", s, n, Secret)]
  BY DEF Reply, Unsigned, OwnAttributes, EapAttributes, Signature
<1> HIDE DEF s, B, r
<1>9. /\ r = Packet(code, request.identifier, Hash("MD5", s, n, Secret), B)
      /\ Hash("MD5", s, n, Secret) = Hash("MD5", r, n, Secret)
  BY <1>7, <1>8 DEF Packet, Hash
<1> QED BY <1>1, <1>2, <1>6, <1>9 DEF r, B

\* A reply has the code it was made with, its request's identifier, and passes
\* for the reply to its request.
LEMMA ReplyFields ==
  ASSUME NEW request, NEW code
  PROVE  LET r == Reply(request, code)
         IN  /\ r.code = code /\ r.identifier = request.identifier
             /\ verify_response_authenticator(r, request.authenticator, Secret)
  BY ReplyIs, PacketFields DEF verify_response_authenticator

\* A reply is accepted by the session whose request it answers: it verifies
\* and it parses.
LEMMA ReplyAccepted ==
  ASSUME NEW request, NEW code \in Verdicts,
         code = "AccessChallenge" => Has(request, "EAP-Message")
  PROVE  LET r == Reply(request, code)
         IN  verify_reply(r, request.authenticator, Secret) /\ parse_reply(r).ok
<1> DEFINE n == request.authenticator
           i == request.identifier
           O == OwnAttributes(request, code)
           E == EapAttributes(request)
           A == O \o E
           p == Unsigned(request, code)
           h == Signature(request, code)
           B == SignedAttributes(request, code)
           r == Reply(request, code)
           x == Hash("MD5", r, n, Secret)
           mine == {"State", "Class"}
           theirs == {"EAP-Message", "Message-Authenticator"}
           eap == Has(request, "EAP-Message")
<1>1. /\ Carries(O, mine) /\ Carries(E, theirs) /\ IsSeq(p.attributes)
      /\ r = Packet(code, i, x, B)
  BY ReplyIs
<1>2. p = Packet(code, i, Zero, A) /\ p.attributes = A
  <2>1. p = Packet(code, i, Zero, A)
    BY DEF Unsigned
  <2> HIDE DEF p, A
  <2> QED BY <2>1, PacketFields
<1>3. IsSeq(A) /\ Joined(O, E, A)
  <2>1. IsSeq(O) /\ IsSeq(E)
    BY <1>1 DEF Carries
  <2> QED BY <1>1, <1>2, <2>1, Concat
<1>4. /\ DOMAIN B = DOMAIN A /\ IsSeq(B) /\ Len(B) = Len(A)
      /\ \A j \in DOMAIN A : B[j] = IF A[j][1] = "Message-Authenticator"
                                    THEN <<A[j][1], h>> ELSE A[j]
  <2>1. B = WithAuthenticator(Packet(code, i, Zero, A), h).attributes
    BY <1>2 DEF SignedAttributes
  <2> HIDE DEF A, h, B
  <2> QED BY <1>3, <2>1, Signed
<1>5. r.attributes = B /\ r.code = code /\ r.identifier = i
  BY <1>1, PacketFields
<1>6. eap => E = <<<<"EAP-Message", <<0>>>>, <<"Message-Authenticator", Zero>>>>
  BY DEF EapAttributes
<1>7. ~eap => E = <<>>
  BY DEF EapAttributes
<1>8. /\ Len(O) \in Nat /\ DOMAIN O = 1..Len(O)
      /\ \A j \in DOMAIN O : j \in DOMAIN A /\ A[j] = O[j] /\ A[j][1] \in mine
      /\ \A j \in DOMAIN E : Len(O) + j \in DOMAIN A /\ A[Len(O) + j] = E[j]
      /\ \A j \in DOMAIN A : j \in DOMAIN O \/ (j - Len(O) \in DOMAIN E /\ A[j] = E[j - Len(O)])
  <2>1. IsSeq(O)
    BY <1>1 DEF Carries
  <2>2. Len(O) \in Nat /\ DOMAIN O = 1..Len(O)
    BY <2>1, IsSeqDef
  <2> HIDE DEF A, O, E
  <2> QED BY <1>1, <1>3, <2>2 DEF Joined, Carries
<1> HIDE DEF A, O, E, p, h, B, r, x
<1>9. ASSUME eap
      PROVE  LET k == Len(O) + 2
             IN  /\ k \in DOMAIN A /\ k - 1 \in DOMAIN A
                 /\ A[k] = <<"Message-Authenticator", Zero>>
                 /\ A[k - 1] = <<"EAP-Message", <<0>>>>
                 /\ \A j \in DOMAIN A : j \in DOMAIN O \/ j = k - 1 \/ j = k
  <2>1. DOMAIN E = 1..2 /\ E[1] = <<"EAP-Message", <<0>>>>
        /\ E[2] = <<"Message-Authenticator", Zero>>
    BY <1>6, <1>9
  <2>2. 1 \in DOMAIN E /\ 2 \in DOMAIN E /\ Len(O) + 1 = (Len(O) + 2) - 1
    BY <1>8, <2>1
  <2>3. ASSUME NEW j \in DOMAIN A, j \notin DOMAIN O
        PROVE  j = Len(O) + 1 \/ j = Len(O) + 2
    <3>1. j - Len(O) \in 1..2
      BY <1>8, <2>1, <2>3
    <3>2. Len(A) \in Nat /\ j \in 1..Len(A)
      BY <1>3, IsSeqDef
    <3> QED BY <1>8, <3>1, <3>2
  <2> QED BY <1>8, <2>1, <2>2, <2>3
<1>10. ASSUME ~eap
       PROVE  \A j \in DOMAIN A : A[j][1] \in mine
  <2>1. DOMAIN E = {}
    BY <1>7, <1>10
  <2> QED BY <1>8, <2>1
<1>11. Blank(A)
  <2> SUFFICES ASSUME NEW j \in DOMAIN A, A[j][1] = "Message-Authenticator"
               PROVE  A[j] = <<"Message-Authenticator", Zero>>
    BY <1>3 DEF Blank
  <2>1. A[j][1] \notin mine
    OBVIOUS
  <2>2. eap /\ j \notin DOMAIN O
    BY <1>8, <1>10, <2>1
  <2>3. A[Len(O) + 1] = <<"EAP-Message", <<0>>>> /\ (j = Len(O) + 1 \/ j = Len(O) + 2)
    <3>1. (Len(O) + 2) - 1 = Len(O) + 1
      BY <1>8
    <3> QED BY <1>9, <2>2, <3>1
  <2>4. A[Len(O) + 1][1] = "EAP-Message"
    BY <2>3
  <2>5. j = Len(O) + 2
    BY <2>3, <2>4
  <2> QED BY <1>9, <2>2, <2>5
<1>12. verify_message_authenticator(r, n, Secret)
  <2>1. CASE eap
    <3> DEFINE k == Len(O) + 2
    <3>1. A[k][1] = "Message-Authenticator" /\ k \in DOMAIN A
      BY <1>9, <2>1
    <3>2. \A j \in 1..(k - 1) : A[j][1] # "Message-Authenticator"
      <4> SUFFICES ASSUME NEW j \in 1..(k - 1)
                   PROVE  A[j][1] # "Message-Authenticator"
        OBVIOUS
      <4>1. j \in DOMAIN O \/ j = Len(O) + 1
        BY <1>8
      <4>2. CASE j \in DOMAIN O
        BY <1>8, <4>2
      <4>3. CASE j = Len(O) + 1
        <5>1. A[j] = <<"EAP-Message", <<0>>>>
          <6>1. (Len(O) + 2) - 1 = Len(O) + 1
            BY <1>8
          <6> QED BY <1>9, <2>1, <4>3, <6>1
        <5> QED BY <5>1
      <4> QED BY <4>1, <4>2, <4>3
    <3> HIDE DEF k
    <3>3. B = WithAuthenticator(Packet(code, i, Zero, A), h).attributes
      BY <1>2 DEF B, SignedAttributes, p, h
    <3>4. /\ Has(r, "Message-Authenticator")
          /\ find_attribute(r, "Message-Authenticator") = h
      <4> DEFINE q == Packet(code, i, x, WithAuthenticator(Packet(code, i, Zero, A), h).attributes)
      <4>1. /\ Has(q, "Message-Authenticator")
            /\ find_attribute(q, "Message-Authenticator") = h
        <5>1. SignatureAt(A, k)
          BY <1>3, <3>1, <3>2 DEF SignatureAt
        <5> QED BY <5>1, SignatureFound
      <4> QED BY <1>1, <3>3, <4>1
    <3>5. WithAuthenticator(r, Zero) = Packet(code, i, x, A)
      BY <1>1, <1>11, <3>3, Resigned
    <3>6. Hash("HMAC", Packet(code, i, x, A), n, Secret) = Hash("HMAC", p, n, Secret)
      BY <1>2, PacketFields DEF Hash
    <3>7. h = Hash("HMAC", p, n, Secret)
      BY DEF h, p, Signature
    <3> QED BY <3>4, <3>5, <3>6, <3>7 DEF verify_message_authenticator
  <2>2. CASE ~eap
    <3>1. \A j \in DOMAIN A : A[j][1] # "Message-Authenticator" /\ A[j][1] # "EAP-Message"
      BY <1>10, <2>2
    <3>2. \A j \in DOMAIN B : B[j] = A[j]
      BY <1>4, <3>1
    <3> QED BY <1>4, <1>5, <3>1, <3>2 DEF verify_message_authenticator, Has
  <2> QED BY <2>1, <2>2
<1>13. parse_reply(r).ok
  <2>1. CASE code = "AccessChallenge"
    <3>1. /\ Len(O) + 1 \in DOMAIN A /\ A[Len(O) + 1] = <<"EAP-Message", <<0>>>>
      <4>1. (Len(O) + 2) - 1 = Len(O) + 1
        BY <1>8
      <4> QED BY <1>9, <2>1, <4>1
    <3>2. A[Len(O) + 1][1] = "EAP-Message" /\ A[Len(O) + 1][2] # <<>>
      BY <3>1
    <3>3. Len(O) + 1 \in DOMAIN B /\ B[Len(O) + 1] = A[Len(O) + 1]
      BY <1>4, <3>1, <3>2
    <3>4. ~NoEap(r)
      BY <1>5, <3>2, <3>3 DEF NoEap
    <3> QED BY <1>5, <2>1, <3>4 DEF parse_reply, Ok
  <2>2. CASE code = "AccessAccept"
    <3> DEFINE all == mine \cup theirs
    <3>1. \A j \in DOMAIN A : A[j][1] \in all
      BY <1>1, <1>8 DEF Carries
    <3>2. \A j \in DOMAIN B : B[j][1] \in all
      <4> SUFFICES ASSUME NEW j \in DOMAIN B
                   PROVE  B[j][1] = A[j][1]
        BY <1>4, <3>1
      <4>1. CASE A[j][1] = "Message-Authenticator"
        <5>1. B[j] = <<A[j][1], h>>
          BY <1>4, <4>1
        <5> QED BY <5>1
      <4>2. CASE A[j][1] # "Message-Authenticator"
        BY <1>4, <4>2
      <4> QED BY <4>1, <4>2
    <3>3. "Tunnel-Private-Group-ID" \notin all
      OBVIOUS
    <3>4. Carries(r.attributes, all)
      BY <1>4, <1>5, <3>2 DEF Carries
    <3> HIDE DEF all
    <3>5. find_attribute(r, "Tunnel-Private-Group-ID") = None
      BY <3>3, <3>4, Lacks
    <3>6. parse_authorization(r).ok
      BY <3>5 DEF parse_authorization, Ok
    <3> QED BY <1>5, <2>2, <3>6 DEF parse_reply, Ok
  <2>3. CASE code = "AccessReject"
    BY <1>5, <2>3 DEF parse_reply, Ok
  <2> QED BY <2>1, <2>2, <2>3 DEF Verdicts
<1>14. verify_response_authenticator(r, n, Secret)
  BY ReplyFields DEF r
<1> QED BY <1>12, <1>13, <1>14 DEF verify_reply, r

-----------------------------------------------------------------------------
(* Sequences that grow at one end and shrink at the other *)

\* t is s with x at its end.
Grown(s, x, t) ==
  /\ IsSeq(t) /\ \A i \in DOMAIN s : i \in DOMAIN t /\ t[i] = s[i]
  /\ \A i \in DOMAIN t : i \in DOMAIN s \/ (i = Len(s) + 1 /\ t[i] = x)

\* Append adds one element.
LEMMA Appended ==
  ASSUME NEW s, NEW x, IsSeq(s)
  PROVE  Grown(s, x, Append(s, x))
<1> DEFINE S == {s[i] : i \in DOMAIN s} \cup {x}
<1>1. s \in Seq(S) /\ x \in S
  BY DEF IsSeq
<1> HIDE DEF S
<1>2. /\ Append(s, x) \in Seq(S) /\ Len(s) \in Nat /\ DOMAIN s = 1..Len(s)
      /\ DOMAIN Append(s, x) = 1..(Len(s) + 1)
      /\ \A i \in 1..Len(s) : Append(s, x)[i] = s[i]
      /\ Append(s, x)[Len(s) + 1] = x
  BY <1>1
<1>3. IsSeq(Append(s, x))
  BY <1>2, SeqIs
<1>4. /\ \A i \in 1..Len(s) : i \in 1..(Len(s) + 1)
      /\ \A i \in 1..(Len(s) + 1) : i \in 1..Len(s) \/ i = Len(s) + 1
  BY <1>2
<1> QED BY <1>2, <1>3, <1>4 DEF Grown

\* t is s without its first element.
Shrunk(s, t) ==
  /\ IsSeq(t) /\ 1 \in DOMAIN s /\ Head(s) = s[1]
  /\ \A i \in DOMAIN t : i + 1 \in DOMAIN s /\ i + 1 # 1 /\ t[i] = s[i + 1]
  /\ \A i, j \in DOMAIN t : i # j => i + 1 # j + 1

\* Tail drops the first element.
LEMMA Tailed ==
  ASSUME NEW s, IsSeq(s), s # <<>>
  PROVE  Shrunk(s, Tail(s))
<1> DEFINE S == {s[i] : i \in DOMAIN s}
<1>1. s \in Seq(S)
  BY DEF IsSeq
<1> HIDE DEF S
<1>2. /\ Tail(s) \in Seq(S) /\ Len(s) \in Nat \ {0} /\ DOMAIN s = 1..Len(s)
      /\ Head(s) = s[1] /\ DOMAIN Tail(s) = 1..(Len(s) - 1)
      /\ \A i \in 1..(Len(s) - 1) : Tail(s)[i] = s[i + 1]
  BY <1>1
<1>3. IsSeq(Tail(s))
  BY <1>2, SeqIs
<1>4. /\ \A i \in 1..(Len(s) - 1) : i + 1 \in 1..Len(s) /\ i + 1 # 1
      /\ \A i, j \in 1..(Len(s) - 1) : i # j => i + 1 # j + 1
      /\ 1 \in 1..Len(s)
  BY <1>2
<1> QED BY <1>2, <1>3, <1>4 DEF Shrunk

-----------------------------------------------------------------------------
(* The invariant holds at first and after the worker has ended *)

\* A new session is one.
LEMMA NewSession ==
  /\ SessionOK(NewRadiusSession) /\ NewRadiusSession.user_name = None
<1>1. 0 \in 0..(Ids - 1)
  BY IdsAssumption
<1> QED BY <1>1 DEF SessionOK, NewRadiusSession, SessionFields

\* No worker has asked anything yet.
Fresh ==
  /\ ended \in Reasons /\ RefusesOnlyStrays
  /\ session = [m \in Mac |-> NewRadiusSession]
  /\ acct_id = [m \in Mac |-> None] /\ acct_counter = 0
  /\ job = NoJob /\ uplink = <<>> /\ downlink = <<>>
  /\ HistoryOK(history) /\ history.decided = {} /\ history.replies = {}
  /\ history.open = {} /\ history.name = [m \in Mac |-> None]

\* With no request out and empty streams the invariant holds.
LEMMA Restarted ==
  Fresh => RInv
<1> SUFFICES ASSUME Fresh
             PROVE  RInv
  OBVIOUS
<1> USE DEF Fresh
<1>1. Types
  <2>1. IsSeq(uplink) /\ IsSeq(downlink)
    BY Singles
  <2>2. DOMAIN job = {"mac", "request", "header"}
    BY DEF NoJob
  <2>3. DOMAIN session = Mac /\ \A m \in Mac : SessionOK(session[m])
    BY NewSession
  <2> QED BY <2>1, <2>2, <2>3 DEF Types
<1>2. Quiet /\ JobOK /\ InStep /\ RefusesOnlyStrays
  BY DEF Quiet, JobOK, InStep, RefusesOnlyStrays
<1>3. \A m \in Mac : Own(m)
  BY NewSession DEF Own
<1>4. UplinkOK
  BY DEF UplinkOK
<1>5. RepliesOK
  <2>1. job.header = <<>> /\ DOMAIN downlink = {}
    BY DEF NoJob
  <2> QED BY <2>1 DEF RepliesOK
<1> QED BY <1>1, <1>2, <1>3, <1>4, <1>5 DEF RInv

\* The invariant holds initially.
LEMMA InitRInv ==
  RadSecInit => RInv
<1> SUFFICES ASSUME RadSecInit
             PROVE  RInv
  OBVIOUS
<1>1. HistoryOK(history)
  BY DEF RadSecInit, HistoryOK, HistoryFields
<1> QED BY <1>1, Restarted DEF RadSecInit, Reasons, Fresh, RefusesOnlyStrays

\* A worker that ends leaves nothing behind.
LEMMA Exited ==
  ASSUME NEW why \in Reasons, NEW h, HistoryOK(h), Exit(why, h),
         why = "refused" => h.strays > 0
  PROVE  RInv'
<1>1. /\ DOMAIN NewHistory(h) = HistoryFields
      /\ NewHistory(h).nonce = h.nonce /\ NewHistory(h).strays = h.strays
      /\ NewHistory(h).accounts = h.accounts
      /\ NewHistory(h).name = [m \in Mac |-> None]
      /\ NewHistory(h).record = [m \in Mac |-> None]
      /\ NewHistory(h).open = {} /\ NewHistory(h).decided = {}
      /\ NewHistory(h).replies = {} /\ NewHistory(h).taken = {}
  BY DEF HistoryOK, HistoryFields, NewHistory
<1> DEFINE H == NewHistory(h)
<1> HIDE DEF H
<1>2. HistoryOK(H)
  BY <1>1 DEF HistoryOK, H
<1>3. history' = H
  BY DEF Exit, H
<1>4. RefusesOnlyStrays'
  BY <1>1, <1>3 DEF Exit, RefusesOnlyStrays, H
<1>5. Fresh'
  BY <1>1, <1>2, <1>3, <1>4 DEF Exit, H, Fresh
<1> QED BY <1>5, Restarted, PTL

-----------------------------------------------------------------------------
(* connect *)

\* More verdicts vouch for no less.
LEMMA StillVouched ==
  ASSUME NEW p, NEW d, NEW e, d \subseteq e
  PROVE  /\ Vouched(p, d) => Vouched(p, e)
         /\ Announces(p, d) => Announces(p, e)
  BY DEF Vouched, Announces

\* A new worker finds nothing on the way.
LEMMA ConnectStep ==
  ASSUME RInv, connect
  PROVE  RInv'
<1> USE DEF RInv
<1>1. /\ HistoryOK(history') /\ history'.nonce = history.nonce
      /\ history'.replies = history.replies /\ history'.decided = history.decided
      /\ history'.name = history.name /\ history'.record = history.record
      /\ history'.open = history.open /\ history'.strays = 0
  BY DEF connect, Types, HistoryOK, HistoryFields
<1>2. /\ ended' = "up" /\ job = NoJob /\ uplink = <<>> /\ downlink = <<>>
      /\ UNCHANGED <<session, acct_id, acct_counter, job, uplink, downlink>>
  BY DEF connect, Quiet
<1>3. Types'
  BY <1>1, <1>2 DEF Types, Reasons
<1>4. Quiet' /\ RefusesOnlyStrays' /\ InStep' /\ JobOK'
  BY <1>2 DEF Quiet, RefusesOnlyStrays, InStep, JobOK, up
<1>5. (\A m \in Mac : Own(m))'
  BY <1>1, <1>2 DEF Own
<1>6. UplinkOK'
  BY <1>2 DEF UplinkOK
<1>7. RepliesOK'
  BY <1>1, <1>2 DEF RepliesOK
<1> QED BY <1>3, <1>4, <1>5, <1>6, <1>7

-----------------------------------------------------------------------------
(* Access requests *)

\* h is the history once an access request of m was counted.
Counted(h, m) ==
  /\ HistoryOK(h) /\ h.nonce = history.nonce + 1
  /\ h.replies = history.replies /\ h.decided = history.decided
  /\ h.taken = history.taken /\ h.record = history.record
  /\ h.open = history.open /\ h.strays = history.strays
  /\ \A k \in Mac : k # m => h.name[k] = history.name[k]

\* s is the session of m that has built r.
Built(s, r, m, h) ==
  /\ r.code = "AccessRequest" /\ r.authenticator = <<"Nonce", h.nonce>>
  /\ find_attribute(r, "Acct-Status-Type") = None
  /\ Has(r, "EAP-Message") => find_attribute(r, "User-Name") = h.name[m]
  /\ SessionOK(s) /\ s.user_name = h.name[m]
  /\ s.pending = [identifier |-> r.identifier,
                  request_authenticator |-> <<"Nonce", h.nonce>>]
  /\ s.pending # None

\* Allocating an identifier keeps it in its space and notes the request.
LEMMA Allocated ==
  ASSUME NEW s, SessionOK(s), NEW n \in Nat
  PROVE  LET t == Allocate(s, <<"Nonce", n>>)
         IN  /\ SessionOK(t) /\ t.user_name = s.user_name
             /\ t.pending = [identifier |-> s.next_id,
                             request_authenticator |-> <<"Nonce", n>>]
             /\ t.pending # None
<1> DEFINE a == <<"Nonce", n>>
           t == Allocate(s, a)
<1>1. (s.next_id + 1) % Ids \in 0..(Ids - 1)
  BY IdsAssumption DEF SessionOK
<1>2. [identifier |-> s.next_id, request_authenticator |-> a] \in Pending
  BY DEF SessionOK, Pending
<1> HIDE DEF a
<1>3. /\ DOMAIN t = SessionFields /\ t.next_id = (s.next_id + 1) % Ids
      /\ t.pending = [identifier |-> s.next_id, request_authenticator |-> a]
      /\ t.user_name = s.user_name /\ t.next_acct_id = s.next_acct_id
  BY DEF SessionOK, SessionFields, Allocate
<1> HIDE DEF t
<1>4. SessionOK(t)
  BY <1>1, <1>2, <1>3 DEF SessionOK
<1>5. t.pending # None
  BY <1>2, <1>3, NoneAssumption
<1> QED BY <1>3, <1>4, <1>5 DEF t, a

\* An EAP request names the identity given last.
LEMMA EapBuilt ==
  ASSUME RInv, NEW m \in Mac, NEW identity
  PROVE  LET b == build_eap_request(session[m], m, identity, <<0>>,
                                    generate_request_authenticator)
             h == [history EXCEPT !.nonce = @ + 1,
                                  !.name[m] = IF identity = None THEN @ ELSE identity]
         IN  Counted(h, m) /\ (b.request.ok => Built(b.session, b.request.val, m, h))
<1> DEFINE a == <<"Nonce", history.nonce + 1>>
           s == session[m]
           named == IF identity # None THEN [s EXCEPT !.user_name = identity] ELSE s
           q == access_request_eap(m, s.next_id, a, named.user_name, s.last_state, <<0>>, Secret)
           b == build_eap_request(s, m, identity, <<0>>, generate_request_authenticator)
           h == [history EXCEPT !.nonce = @ + 1,
                                !.name[m] = IF identity = None THEN @ ELSE identity]
<1>1. SessionOK(s) /\ HistoryOK(history) /\ s.user_name = history.name[m]
  BY DEF RInv, Types, Own
<1>2. /\ DOMAIN h = HistoryFields /\ h.nonce = history.nonce + 1
      /\ h.replies = history.replies /\ h.decided = history.decided
      /\ h.taken = history.taken /\ h.record = history.record
      /\ h.open = history.open /\ h.strays = history.strays
      /\ h.accounts = history.accounts /\ DOMAIN h.name = Mac
      /\ h.name[m] = (IF identity = None THEN history.name[m] ELSE identity)
      /\ \A k \in Mac : k # m => h.name[k] = history.name[k]
  BY <1>1 DEF HistoryOK, HistoryFields
<1> HIDE DEF h
<1>3. Counted(h, m) /\ h.nonce \in Nat
  BY <1>1, <1>2 DEF Counted, HistoryOK
<1>4. b.session = Allocate(named, a) /\ b.request = q
  BY DEF build_eap_request, generate_request_authenticator
<1>5. /\ SessionOK(named) /\ named.user_name = h.name[m] /\ named.next_id = s.next_id
  <2>1. CASE identity = None
    BY <1>1, <1>2, <2>1
  <2>2. CASE identity # None
    BY <1>1, <1>2, <2>2 DEF SessionOK, SessionFields
  <2> QED BY <2>1, <2>2
<1> HIDE DEF named, b
<1>6. ASSUME b.request.ok
      PROVE  Built(b.session, b.request.val, m, h)
  <2> DEFINE r == q.val
             t == b.session
  <2>1. /\ r.code = "AccessRequest" /\ r.identifier = s.next_id /\ r.authenticator = a
        /\ find_attribute(r, "User-Name") = named.user_name
        /\ find_attribute(r, "Acct-Status-Type") = None
    <3> DEFINE eap == <<0>>
    <3>1. /\ eap \in Seq(Nat)
          /\ q = access_request_eap(m, s.next_id, a, named.user_name, s.last_state, eap, Secret)
      OBVIOUS
    <3>2. q.ok
      BY <1>4, <1>6
    <3> HIDE DEF eap, q
    <3> QED BY <3>1, <3>2, EapRequest
  <2>2. /\ SessionOK(t) /\ t.user_name = named.user_name
        /\ t.pending = [identifier |-> named.next_id, request_authenticator |-> a]
        /\ t.pending # None
    BY <1>2, <1>3, <1>4, <1>5, Allocated
  <2> HIDE DEF r, t
  <2>3. Built(t, r, m, h)
    BY <1>2, <1>5, <2>1, <2>2 DEF Built
  <2> QED BY <1>4, <2>3 DEF r, t
<1> QED BY <1>3, <1>6 DEF b, h

\* A MAC request carries no EAP.
LEMMA MabBuilt ==
  ASSUME RInv, NEW m \in Mac
  PROVE  LET b == build_mab_request(session[m], m, generate_request_authenticator)
             h == [history EXCEPT !.nonce = @ + 1]
         IN  Counted(h, m) /\ (b.request.ok => Built(b.session, b.request.val, m, h))
<1> DEFINE a == <<"Nonce", history.nonce + 1>>
           s == session[m]
           r == access_request_mab(m, s.next_id, a, Secret)
           b == build_mab_request(s, m, generate_request_authenticator)
           h == [history EXCEPT !.nonce = @ + 1]
<1>1. SessionOK(s) /\ HistoryOK(history) /\ s.user_name = history.name[m]
  BY DEF RInv, Types, Own
<1>2. /\ DOMAIN h = HistoryFields /\ h.nonce = history.nonce + 1
      /\ h.replies = history.replies /\ h.decided = history.decided
      /\ h.taken = history.taken /\ h.record = history.record
      /\ h.open = history.open /\ h.strays = history.strays
      /\ h.accounts = history.accounts /\ h.name = history.name
  BY <1>1 DEF HistoryOK, HistoryFields
<1> HIDE DEF h
<1>3. Counted(h, m) /\ h.nonce \in Nat
  BY <1>1, <1>2 DEF Counted, HistoryOK
<1>4. b.session = Allocate(s, a) /\ b.request.val = r
  BY DEF build_mab_request, generate_request_authenticator, Ok
<1> DEFINE t == b.session
<1>5. /\ r.code = "AccessRequest" /\ r.identifier = s.next_id /\ r.authenticator = a
      /\ ~Has(r, "EAP-Message") /\ find_attribute(r, "Acct-Status-Type") = None
  BY MabRequest
<1>6. /\ SessionOK(t) /\ t.user_name = s.user_name
      /\ t.pending = [identifier |-> s.next_id, request_authenticator |-> a]
      /\ t.pending # None
  BY <1>1, <1>2, <1>3, <1>4, Allocated
<1> HIDE DEF r, t
<1>7. Built(t, r, m, h)
  BY <1>1, <1>2, <1>5, <1>6 DEF Built
<1> QED BY <1>3, <1>4, <1>7 DEF t, h

\* An access request that is sent is the one its session awaits a reply to,
\* and the server has not read it.
LEMMA AccessSent ==
  ASSUME RInv, NEW m \in Mac, NEW s, NEW r, NEW h, Counted(h, m), Built(s, r, m, h),
         up, job = NoJob, session' = [session EXCEPT ![m] = s], Write(m, r),
         history' = h, UNCHANGED <<acct_id, acct_counter>>
  PROVE  RInv' /\ job' # NoJob /\ job'.request = r
<1> USE DEF RInv
<1>1. /\ HistoryOK(h) /\ h.nonce = history.nonce + 1 /\ history.nonce \in Nat
      /\ h.replies = history.replies /\ h.decided = history.decided
      /\ h.record = history.record /\ h.open = history.open
      /\ h.strays = history.strays
      /\ \A k \in Mac : k # m => h.name[k] = history.name[k]
  BY DEF Counted, Types, HistoryOK
<1>2. /\ job' = [mac |-> m, request |-> r, header |-> <<>>]
      /\ uplink' = Append(uplink, r) /\ ended' = ended /\ downlink' = downlink
  BY DEF Write
<1>3. /\ job'.mac = m /\ job'.request = r /\ job'.header = <<>>
      /\ DOMAIN job' = {"mac", "request", "header"} /\ job' # NoJob
  <2>1. job'.mac # NoJob.mac
    BY <1>2, NoneAssumption DEF NoJob
  <2> QED BY <1>2, <2>1
<1>4. DOMAIN session' = Mac /\ session'[m] = s /\ \A k \in Mac : k # m => session'[k] = session[k]
  BY DEF Types
<1>5. Grown(uplink, r, uplink')
  BY <1>2, Appended DEF Types
<1>6. Types'
  BY <1>1, <1>2, <1>3, <1>4, <1>5 DEF Types, Built, Grown
<1>7. Quiet' /\ RefusesOnlyStrays'
  BY <1>1, <1>2 DEF Quiet, RefusesOnlyStrays, up
<1>8. (\A k \in Mac : Own(k))'
  <2> SUFFICES ASSUME NEW k \in Mac
               PROVE  Own(k)'
    OBVIOUS
  <2>1. session'[k].user_name = h.name[k]
    BY <1>1, <1>4 DEF Own, Built
  <2> QED BY <1>1, <2>1 DEF Own
<1>9. JobOK'
  BY <1>3, <1>4, NoneAssumption DEF JobOK, Built
<1>10. ASSUME NEW i \in DOMAIN uplink
       PROVE  /\ Unread(uplink[i], h.nonce, h.decided)
              /\ uplink[i].code = "AccessRequest" => uplink[i].authenticator # r.authenticator
  <2>1. Unread(uplink[i], history.nonce, history.decided)
    BY DEF UplinkOK
  <2>2. CASE uplink[i].code = "AccessRequest"
    <3>1. PICK n \in 1..history.nonce :
            uplink[i].authenticator = <<"Nonce", n>> /\ \A d \in history.decided : d[1] # n
      BY <2>1, <2>2 DEF Unread
    <3>2. n \in 1..h.nonce /\ n # h.nonce
      BY <1>1
    <3>3. r.authenticator = <<"Nonce", h.nonce>>
      BY DEF Built
    <3> QED BY <1>1, <2>2, <3>1, <3>2, <3>3 DEF Unread
  <2>3. CASE uplink[i].code # "AccessRequest"
    BY <2>1, <2>3 DEF Unread
  <2> QED BY <2>2, <2>3
<1>11. Unread(r, h.nonce, h.decided)
  <2>1. h.nonce \in 1..h.nonce
    BY <1>1
  <2>2. \A d \in history.decided : d[1] # h.nonce
    BY <1>1 DEF RepliesOK
  <2> QED BY <1>1, <2>1, <2>2 DEF Unread, Built
<1>12. UplinkOK'
  <2>1. \A i \in DOMAIN uplink' : Unread(uplink'[i], h.nonce, h.decided)
    BY <1>5, <1>10, <1>11 DEF Grown
  <2>2. ASSUME NEW i \in DOMAIN uplink', NEW j \in DOMAIN uplink', i # j,
               uplink'[i].code = "AccessRequest", uplink'[j].code = "AccessRequest"
        PROVE  uplink'[i].authenticator # uplink'[j].authenticator
    <3>1. CASE i \in DOMAIN uplink /\ j \in DOMAIN uplink
      BY <1>5, <2>2, <3>1 DEF Grown, UplinkOK
    <3>2. CASE i \in DOMAIN uplink /\ uplink'[j] = r
      BY <1>5, <1>10, <2>2, <3>2 DEF Grown
    <3>3. CASE uplink'[i] = r /\ j \in DOMAIN uplink
      BY <1>5, <1>10, <2>2, <3>3 DEF Grown
    <3> QED BY <1>5, <2>2, <3>1, <3>2, <3>3 DEF Grown
  <2> QED BY <2>1, <2>2 DEF UplinkOK
<1>13. RepliesOK'
  <2>1. 1..history.nonce \subseteq 1..h.nonce
    BY <1>1
  <2>2. h.decided \subseteq (1..h.nonce) \X Verdicts
    BY <1>1, <2>1 DEF RepliesOK
  <2> QED BY <1>1, <1>2, <1>3, <2>2 DEF RepliesOK
<1>14. InStep'
  <2>1. CASE history.strays = 0
    <3>1. uplink = <<>> /\ downlink = <<>>
      BY <2>1 DEF InStep
    <3>2. uplink' = <<r>> /\ downlink' = <<>>
      BY <1>2, <3>1
    <3> QED BY <1>3, <3>2 DEF InStep, Exchanging
  <2>2. CASE history.strays # 0
    BY <1>1, <2>2 DEF InStep
  <2> QED BY <2>1, <2>2
<1> QED BY <1>3, <1>6, <1>7, <1>8, <1>9, <1>12, <1>13, <1>14

-----------------------------------------------------------------------------
(* Accounting requests *)

\* The Acct-Session-Id of m: kept once it is made.
LEMMA AcctId ==
  ASSUME RInv, NEW m \in Mac
  PROVE  LET id == acct_id_for(m)
         IN  /\ id.id = id.kept /\ id.id \in Mac \X Nat /\ id.id # None
             /\ id.counter \in Nat
             /\ m \in history.open => id.id = history.record[m]
<1>1. /\ acct_id[m] \in (Mac \X Nat) \cup {None} /\ acct_counter \in Nat
      /\ m \in history.open => acct_id[m] # None /\ acct_id[m] = history.record[m]
  BY DEF RInv, Types, Own
<1>2. <<m, acct_counter + 1>> \in Mac \X Nat
  BY <1>1
<1>3. CASE acct_id[m] = None
  BY <1>1, <1>2, <1>3, NoneAssumption DEF acct_id_for
<1>4. CASE acct_id[m] # None
  BY <1>1, <1>4, NoneAssumption DEF acct_id_for
<1> QED BY <1>3, <1>4

\* A Stop that is sent names the record that is open.
LEMMA AccountingStep ==
  ASSUME RInv, NEW m \in Mac, NEW trigger \in {"Start", "Stop"}, Accounting(m, trigger)
  PROVE  /\ RInv'
         /\ job = NoJob /\ job'.request.code = "AccountingRequest"
         /\ ended' = ended /\ history'.nonce = history.nonce
         /\ history'.decided = history.decided /\ history'.taken = history.taken
<1> USE DEF RInv
<1> DEFINE s == session[m]
           id == acct_id_for(m)
           r == accounting_request(m, s.next_acct_id, trigger, id.id, s.class, Secret)
           h == IF trigger = "Start"
                THEN [history EXCEPT !.accounts = @ + 1, !.record[m] = id.id,
                                     !.open = @ \cup {m}]
                ELSE [history EXCEPT !.accounts = @ + 1, !.open = @ \ {m}]
<1>1. /\ up /\ job = NoJob /\ ((trigger = "Start") <=> (m \notin history.open))
      /\ Write(m, r) /\ history' = h
      /\ session' = [session EXCEPT ![m].next_acct_id = (@ + 1) % Ids]
      /\ acct_id' = [acct_id EXCEPT ![m] = id.kept] /\ acct_counter' = id.counter
  BY DEF Accounting
<1>2. /\ r.code = "AccountingRequest" /\ r.authenticator[1] = "MD5"
      /\ find_attribute(r, "Acct-Status-Type") = trigger
      /\ find_attribute(r, "Acct-Session-Id") = id.id
  BY AccountingRequest
<1>3. /\ id.id = id.kept /\ id.id \in Mac \X Nat /\ id.id # None /\ id.counter \in Nat
      /\ m \in history.open => id.id = history.record[m]
  BY AcctId
<1> HIDE DEF r, id
<1>4. /\ DOMAIN h = HistoryFields /\ h.nonce = history.nonce
      /\ h.replies = history.replies /\ h.decided = history.decided
      /\ h.taken = history.taken /\ h.strays = history.strays
      /\ h.accounts = history.accounts + 1 /\ h.name = history.name
      /\ DOMAIN h.record = Mac
      /\ \A k \in Mac : k # m => h.record[k] = history.record[k]
      /\ h.record[m] = (IF trigger = "Start" THEN id.id ELSE history.record[m])
      /\ h.open = (IF trigger = "Start" THEN history.open \cup {m} ELSE history.open \ {m})
  BY DEF Types, HistoryOK, HistoryFields
<1> HIDE DEF h
<1>5. HistoryOK(h)
  BY <1>4 DEF Types, HistoryOK
<1>6. h.record[m] = id.id
  BY <1>1, <1>3, <1>4
<1>7. /\ job' = [mac |-> m, request |-> r, header |-> <<>>]
      /\ uplink' = Append(uplink, r) /\ ended' = ended /\ downlink' = downlink
  BY <1>1 DEF Write
<1>8. /\ job'.mac = m /\ job'.request = r /\ job'.header = <<>>
      /\ DOMAIN job' = {"mac", "request", "header"} /\ job' # NoJob
  <2>1. job'.mac # NoJob.mac
    BY <1>7, NoneAssumption DEF NoJob
  <2> QED BY <1>7, <2>1
<1>9. Grown(uplink, r, uplink')
  BY <1>7, Appended DEF Types
<1>10. /\ DOMAIN session' = Mac
       /\ \A k \in Mac : SessionOK(session'[k])
       /\ \A k \in Mac : session'[k].user_name = session[k].user_name
  <2>1. (s.next_acct_id + 1) % Ids \in 0..(Ids - 1)
    BY IdsAssumption DEF Types, SessionOK
  <2>2. /\ DOMAIN session' = Mac /\ \A k \in Mac : k # m => session'[k] = session[k]
        /\ session'[m] = [s EXCEPT !.next_acct_id = (@ + 1) % Ids]
    BY <1>1 DEF Types
  <2>3. SessionOK(session'[m]) /\ session'[m].user_name = s.user_name
    BY <2>1, <2>2 DEF Types, SessionOK, SessionFields
  <2> QED BY <2>2, <2>3 DEF Types
<1>11. Types'
  BY <1>1, <1>3, <1>5, <1>7, <1>8, <1>9, <1>10 DEF Types, Grown
<1>12. Quiet' /\ RefusesOnlyStrays'
  BY <1>1, <1>4, <1>7 DEF Quiet, RefusesOnlyStrays, up
<1>13. (\A k \in Mac : Own(k))'
  <2> SUFFICES ASSUME NEW k \in Mac
               PROVE  Own(k)'
    OBVIOUS
  <2>1. session'[k].user_name = h.name[k]
    BY <1>4, <1>10 DEF Own
  <2>2. k \in h.open => acct_id'[k] # None /\ acct_id'[k] = h.record[k]
    <3>1. CASE k = m
      BY <1>1, <1>3, <1>6, <3>1 DEF Types
    <3>2. CASE k # m
      BY <1>1, <1>4, <3>2 DEF Types, Own
    <3> QED BY <3>1, <3>2
  <2> QED BY <1>1, <2>1, <2>2 DEF Own
<1>14. JobOK'
  BY <1>1, <1>2, <1>6, <1>8 DEF JobOK
<1>15. UplinkOK'
  <2>1. \A i \in DOMAIN uplink' : Unread(uplink'[i], h.nonce, h.decided)
    BY <1>2, <1>4, <1>9 DEF Grown, Unread, UplinkOK
  <2>2. ASSUME NEW i \in DOMAIN uplink', NEW j \in DOMAIN uplink', i # j,
               uplink'[i].code = "AccessRequest", uplink'[j].code = "AccessRequest"
        PROVE  uplink'[i].authenticator # uplink'[j].authenticator
    <3>1. i \in DOMAIN uplink /\ j \in DOMAIN uplink
      BY <1>2, <1>9, <2>2 DEF Grown
    <3> QED BY <1>9, <2>2, <3>1 DEF Grown, UplinkOK
  <2> QED BY <1>1, <2>1, <2>2 DEF UplinkOK
<1>16. RepliesOK'
  BY <1>1, <1>4, <1>7, <1>8 DEF RepliesOK
<1>17. InStep'
  <2>1. CASE history.strays = 0
    <3>1. uplink = <<>> /\ downlink = <<>>
      BY <1>1, <2>1 DEF InStep
    <3>2. uplink' = <<r>> /\ downlink' = <<>>
      BY <1>7, <3>1
    <3> QED BY <1>8, <3>2 DEF InStep, Exchanging
  <2>2. CASE history.strays # 0
    BY <1>1, <1>4, <2>2 DEF InStep
  <2> QED BY <2>1, <2>2
<1> QED BY <1>1, <1>2, <1>4, <1>7, <1>8, <1>11, <1>12, <1>13, <1>14, <1>15, <1>16, <1>17

-----------------------------------------------------------------------------
(* Reading *)

\* Fields of the frames.
LEMMA Frames ==
  ASSUME NEW p, NEW l
  PROVE  /\ Header(p, l)[1] = "Header" /\ Header(p, l)[2] = p /\ Header(p, l)[3] = l
         /\ Body(p)[1] = "Body"
         /\ IsSeq(Framed(p)) /\ DOMAIN Framed(p) = 1..2
         /\ Framed(p)[1] = Header(p, "valid") /\ Framed(p)[2] = Body(p)
         /\ Framed(p) # <<>> /\ <<Body(p)>> # <<>>
         /\ Head(Framed(p)) = Header(p, "valid") /\ Tail(Framed(p)) = <<Body(p)>>
         /\ Head(<<Body(p)>>) = Body(p) /\ Tail(<<Body(p)>>) = <<>>
<1>1. Header(p, l)[1] = "Header" /\ Header(p, l)[2] = p /\ Header(p, l)[3] = l
  BY DEF Header
<1>2. Body(p)[1] = "Body"
  BY DEF Body
<1> DEFINE a == Header(p, "valid")
           b == Body(p)
<1> HIDE DEF a, b
<1>3. Framed(p) = <<a, b>>
  BY DEF Framed, a, b
<1>4. IsSeq(<<a, b>>)
  BY Singles
<1>5. /\ DOMAIN <<a, b>> = 1..2 /\ <<a, b>>[1] = a /\ <<a, b>>[2] = b /\ <<a, b>> # <<>>
      /\ <<b>> # <<>> /\ Head(<<a, b>>) = a /\ Tail(<<a, b>>) = <<b>>
      /\ Head(<<b>>) = b /\ Tail(<<b>>) = <<>>
  OBVIOUS
<1> QED BY <1>1, <1>2, <1>3, <1>4, <1>5 DEF a, b

\* Reading a header that is in order.
HeaderRead ==
  /\ job # NoJob /\ job.header = <<>> /\ downlink # <<>>
  /\ Head(downlink)[1] = "Header" /\ Head(downlink)[3] = "valid"
  /\ job' = [job EXCEPT !.header = <<Head(downlink)[2]>>]
  /\ downlink' = Tail(downlink)
  /\ UNCHANGED <<ended, session, acct_id, acct_counter, uplink, history>>

\* What a header announces is vouched for.
LEMMA HeaderStep ==
  ASSUME RInv, HeaderRead
  PROVE  RInv' /\ job' # NoJob /\ job'.request = job.request
<1> USE DEF RInv
<1> DEFINE p == Head(downlink)[2]
<1>1. Shrunk(downlink, downlink')
  BY Tailed DEF HeaderRead, Types
<1>2. /\ DOMAIN job' = {"mac", "request", "header"} /\ job'.mac = job.mac
      /\ job'.request = job.request /\ job'.header = <<p>>
  BY DEF HeaderRead, Types
<1>3. job' # NoJob
  <2>1. job.mac \in Mac
    BY DEF JobOK, HeaderRead
  <2>2. job'.mac # NoJob.mac
    BY <1>2, <2>1, NoneAssumption DEF NoJob
  <2> QED BY <2>2
<1>4. Vouched(p, history.decided)
  BY <1>1 DEF HeaderRead, Shrunk, RepliesOK, Announces
<1> HIDE DEF p
<1>5. Types' /\ Quiet' /\ RefusesOnlyStrays'
  BY <1>1, <1>2 DEF HeaderRead, Types, Quiet, RefusesOnlyStrays, Shrunk, up
<1>6. (\A m \in Mac : Own(m))'
  BY DEF HeaderRead, Own
<1>7. JobOK'
  BY <1>2, <1>3 DEF HeaderRead, JobOK
<1>8. UplinkOK'
  BY DEF HeaderRead, UplinkOK
<1>9. RepliesOK'
  <2>1. <<p>>[1] = p
    OBVIOUS
  <2>2. \A i \in DOMAIN downlink' : Announces(downlink'[i], history.decided)
    BY <1>1 DEF Shrunk, RepliesOK
  <2>3. job'.header # <<>> => Vouched(job'.header[1], history.decided)
    BY <1>2, <1>4, <2>1
  <2> QED BY <2>2, <2>3 DEF HeaderRead, RepliesOK
<1>10. InStep'
  <2>1. CASE up /\ history.strays = 0
    <3>1. Exchanging
      BY <2>1 DEF HeaderRead, InStep
    <3>2. PICK c \in Answers(job.request) : downlink = Framed(Reply(job.request, c))
      BY <3>1 DEF HeaderRead, Exchanging
    <3>3. uplink = <<>>
      BY <3>1 DEF HeaderRead, Exchanging
    <3> DEFINE reply == Reply(job.request, c)
    <3> HIDE DEF reply
    <3>4. p = reply /\ downlink' = <<Body(reply)>>
      <4>1. Head(downlink) = Header(reply, "valid") /\ Tail(downlink) = <<Body(reply)>>
        BY <3>2, Frames DEF reply
      <4>2. Header(reply, "valid")[2] = reply
        BY Frames
      <4> QED BY <4>1, <4>2 DEF HeaderRead, p
    <3>5. Exchanging'
      BY <1>2, <3>3, <3>4 DEF HeaderRead, Exchanging, reply
    <3> QED BY <1>3, <3>5 DEF InStep
  <2>2. CASE ~(up /\ history.strays = 0)
    BY <2>2 DEF HeaderRead, InStep, up
  <2> QED BY <2>1, <2>2
<1> QED BY <1>2, <1>3, <1>5, <1>6, <1>7, <1>8, <1>9, <1>10

\* A header is refused only after a stray.
LEMMA HeaderRefused ==
  ASSUME RInv, job # NoJob, job.header = <<>>, downlink # <<>>,
         ~(Head(downlink)[1] = "Header" /\ Head(downlink)[3] = "valid")
  PROVE  history.strays > 0
<1> SUFFICES ASSUME history.strays = 0
             PROVE  FALSE
  BY DEF RInv, Types, HistoryOK
<1>1. up
  BY DEF RInv, Quiet
<1>2. Exchanging
  BY <1>1 DEF RInv, InStep
<1>3. PICK c \in Answers(job.request) : downlink = Framed(Reply(job.request, c))
  BY <1>2 DEF Exchanging
<1> DEFINE reply == Reply(job.request, c)
<1> HIDE DEF reply
<1>4. Head(downlink) = Header(reply, "valid")
  BY <1>3, Frames DEF reply
<1>5. Header(reply, "valid")[1] = "Header" /\ Header(reply, "valid")[3] = "valid"
  BY Frames
<1> QED BY <1>4, <1>5

\* Reading a body that completes a reply the exchange accepts.
BodyRead(reply) ==
  LET r == handle_reply(session[job.mac], reply)
      access == job.request.code = "AccessRequest"
  IN  /\ job # NoJob /\ job.header # <<>> /\ downlink # <<>>
      /\ reply = job.header[1] /\ reply.identifier = job.request.identifier
      /\ access => r.ok
      /\ session' = IF access THEN [session EXCEPT ![job.mac] = r.session] ELSE session
      /\ history' = IF access
           THEN [history EXCEPT !.taken = @ \cup {<<history.nonce, r.event.type>>}]
           ELSE history
      /\ job' = NoJob /\ downlink' = Tail(downlink)
      /\ UNCHANGED <<ended, acct_id, acct_counter, uplink>>

\* handle_reply keeps the session's shape, identifiers and name.
LEMMA Handled ==
  ASSUME NEW s, SessionOK(s), NEW reply
  PROVE  LET t == handle_reply(s, reply).session
         IN  SessionOK(t) /\ t.user_name = s.user_name
<1> DEFINE event == parse_reply(reply)
           c == IF event.ok /\ event.val.type = "AccessAccept"
                THEN event.val.authorization.class ELSE s.class
           t == handle_reply(s, reply).session
           state == extract_state(reply)
<1>1. t = [s EXCEPT !.pending = None, !.last_state = state, !.class = c]
  BY DEF handle_reply
<1> HIDE DEF t, c, state
<1>2. /\ DOMAIN t = SessionFields /\ t.next_id = s.next_id /\ t.pending = None
      /\ t.user_name = s.user_name /\ t.next_acct_id = s.next_acct_id
  BY <1>1 DEF SessionOK, SessionFields
<1>3. SessionOK(t)
  BY <1>2 DEF SessionOK
<1> QED BY <1>2, <1>3 DEF t

\* The verdict taken is the one the server reached on the request that is out.
LEMMA VerdictTaken ==
  ASSUME RInv, NEW reply, BodyRead(reply), job.request.code = "AccessRequest"
  PROVE  LET v == handle_reply(session[job.mac], reply).event.type
         IN  v \in Verdicts /\ <<history.nonce, v>> \in history.decided
<1> DEFINE s == session[job.mac]
           a == <<"Nonce", history.nonce>>
           event == parse_reply(reply)
<1>1. handle_reply(s, reply).ok /\ reply = job.header[1] /\ job # NoJob /\ job.header # <<>>
  BY DEF BodyRead
<1>2. s.pending.request_authenticator = a /\ history.nonce \in Nat
  BY <1>1 DEF RInv, JobOK, Types, HistoryOK
<1> HIDE DEF s
<1>3. /\ verify_response_authenticator(reply, s.pending.request_authenticator, Secret)
      /\ event.ok /\ handle_reply(s, reply).event = event.val
  BY <1>1 DEF handle_reply, verify_reply
<1>4. Vouched(reply, history.decided)
  BY <1>1 DEF RInv, RepliesOK
<1>5. <<history.nonce, reply.code>> \in history.decided
  BY <1>2, <1>3, <1>4 DEF Vouched
<1>6. event.val.type = reply.code /\ reply.code \in Verdicts
  BY <1>3, ParseType DEF Verdicts
<1> QED BY <1>3, <1>5, <1>6 DEF s

\* A reply that is accepted ends the exchange.
LEMMA BodyStep ==
  ASSUME RInv, NEW reply, BodyRead(reply)
  PROVE  /\ RInv' /\ job' = NoJob /\ ended' = ended
         /\ history'.nonce = history.nonce /\ history'.decided = history.decided
         /\ history'.taken = IF job.request.code = "AccessRequest"
              THEN history.taken \cup
                   {<<history.nonce, handle_reply(session[job.mac], reply).event.type>>}
              ELSE history.taken
<1> USE DEF RInv
<1> DEFINE m == job.mac
           r == handle_reply(session[m], reply)
           access == job.request.code = "AccessRequest"
           x == {<<history.nonce, r.event.type>>}
<1>1. /\ job # NoJob /\ job.header # <<>> /\ downlink # <<>>
      /\ session' = IF access THEN [session EXCEPT ![m] = r.session] ELSE session
      /\ history' = IF access THEN [history EXCEPT !.taken = @ \cup x] ELSE history
      /\ job' = NoJob /\ downlink' = Tail(downlink)
      /\ UNCHANGED <<ended, acct_id, acct_counter, uplink>>
  BY DEF BodyRead
<1>2. m \in Mac
  BY <1>1 DEF JobOK
<1>3. SessionOK(r.session) /\ r.session.user_name = session[m].user_name
  BY <1>2, Handled DEF Types
<1> HIDE DEF r, x
<1>4. /\ HistoryOK(history') /\ history'.nonce = history.nonce
      /\ history'.replies = history.replies /\ history'.decided = history.decided
      /\ history'.name = history.name /\ history'.record = history.record
      /\ history'.open = history.open /\ history'.strays = history.strays
      /\ history'.taken = IF access THEN history.taken \cup x ELSE history.taken
  <2>1. CASE access
    BY <1>1, <2>1 DEF Types, HistoryOK, HistoryFields
  <2>2. CASE ~access
    BY <1>1, <2>2 DEF Types
  <2> QED BY <2>1, <2>2
<1>5. /\ DOMAIN session' = Mac /\ \A k \in Mac : SessionOK(session'[k])
      /\ \A k \in Mac : session'[k].user_name = session[k].user_name
  <2>1. CASE access
    <3>1. /\ DOMAIN session' = Mac /\ session'[m] = r.session
          /\ \A k \in Mac : k # m => session'[k] = session[k]
      BY <1>1, <1>2, <2>1 DEF Types
    <3> QED BY <1>3, <3>1 DEF Types
  <2>2. CASE ~access
    BY <1>1, <2>2 DEF Types
  <2> QED BY <2>1, <2>2
<1>6. Shrunk(downlink, downlink')
  BY <1>1, Tailed DEF Types
<1>7. job'.header = <<>> /\ DOMAIN job' = {"mac", "request", "header"}
  BY <1>1 DEF NoJob
<1>8. Types'
  BY <1>1, <1>4, <1>5, <1>6, <1>7 DEF Types, Shrunk
<1>9. up
  BY <1>1 DEF Quiet
<1>10. Quiet' /\ RefusesOnlyStrays' /\ JobOK'
  BY <1>1, <1>4, <1>9 DEF Quiet, RefusesOnlyStrays, JobOK, up
<1>11. (\A k \in Mac : Own(k))'
  BY <1>1, <1>4, <1>5 DEF Own
<1>12. UplinkOK'
  BY <1>1, <1>4 DEF UplinkOK
<1>13. RepliesOK'
  <2>1. \A i \in DOMAIN downlink' : Announces(downlink'[i], history.decided)
    BY <1>6 DEF Shrunk, RepliesOK
  <2> QED BY <1>4, <1>7, <2>1 DEF RepliesOK
<1>14. InStep'
  <2>1. CASE history.strays = 0
    <3>1. Exchanging
      BY <1>1, <1>9, <2>1 DEF InStep
    <3>2. uplink = <<>> /\ \E c \in Answers(job.request) :
            downlink = <<Body(Reply(job.request, c))>>
      BY <1>1, <3>1 DEF Exchanging
    <3>3. downlink' = <<>>
      BY <1>1, <3>2, Frames
    <3> QED BY <1>1, <3>2, <3>3 DEF InStep
  <2>2. CASE history.strays # 0
    BY <1>4, <2>2 DEF InStep
  <2> QED BY <2>1, <2>2
<1> QED BY <1>1, <1>4, <1>8, <1>10, <1>11, <1>12, <1>13, <1>14 DEF r, x

\* A body, or the reply it completes, is refused only after a stray.
LEMMA BodyRefused ==
  ASSUME RInv, job # NoJob, job.header # <<>>, downlink # <<>>, history.strays = 0
  PROVE  LET reply == job.header[1]
         IN  /\ Head(downlink) = Body(reply)
             /\ reply.identifier = job.request.identifier
             /\ job.request.code = "AccessRequest" =>
                  handle_reply(session[job.mac], reply).ok
<1>1. up
  BY DEF RInv, Quiet
<1>2. Exchanging
  BY <1>1 DEF RInv, InStep
<1>3. PICK c \in Answers(job.request) :
        /\ job.header = <<Reply(job.request, c)>>
        /\ downlink = <<Body(Reply(job.request, c))>>
  BY <1>2 DEF Exchanging
<1> DEFINE q == job.request
           reply == Reply(q, c)
           s == session[job.mac]
<1> HIDE DEF reply, s
<1>4. job.header[1] = reply /\ Head(downlink) = Body(reply)
  BY <1>3, Frames DEF reply
<1>5. reply.identifier = q.identifier
  BY ReplyFields DEF reply
<1>6. ASSUME q.code = "AccessRequest"
      PROVE  handle_reply(s, reply).ok
  <2>1. s.pending = [identifier |-> q.identifier, request_authenticator |-> q.authenticator]
    BY <1>6 DEF RInv, JobOK, s
  <2>2. s.pending # None
    BY <1>6 DEF RInv, JobOK, s
  <2>3. c \in Verdicts /\ (c = "AccessChallenge" => Has(q, "EAP-Message"))
    BY <1>6 DEF Answers
  <2>4. verify_reply(reply, q.authenticator, Secret) /\ parse_reply(reply).ok
    BY <2>3, ReplyAccepted DEF reply
  <2>5. s.pending.identifier = q.identifier /\ s.pending.request_authenticator = q.authenticator
    BY <2>1
  <2> QED BY <1>5, <2>2, <2>4, <2>5 DEF handle_reply
<1> QED BY <1>4, <1>5, <1>6 DEF s

-----------------------------------------------------------------------------
(* The server *)

\* What is sent after what is on the way keeps its announcements.
LEMMA Sent ==
  ASSUME NEW s, NEW t, NEW d, IsSeq(s), IsSeq(t),
         \A i \in DOMAIN s : Announces(s[i], d),
         \A i \in DOMAIN t : Announces(t[i], d)
  PROVE  IsSeq(s \o t) /\ \A i \in DOMAIN (s \o t) : Announces((s \o t)[i], d)
<1> DEFINE u == s \o t
<1>1. Joined(s, t, u)
  BY Concat
<1> HIDE DEF u
<1>2. \A i \in DOMAIN u : Announces(u[i], d)
  BY <1>1 DEF Joined
<1> QED BY <1>1, <1>2 DEF Joined, u

\* A frame announces its packet.
LEMMA FrameAnnounces ==
  ASSUME NEW p, NEW d, Vouched(p, d)
  PROVE  \A i \in DOMAIN Framed(p) : Announces(Framed(p)[i], d)
<1>1. Announces(Header(p, "valid"), d)
  BY Frames DEF Announces
<1>2. Announces(Body(p), d)
  BY Frames DEF Announces
<1>3. /\ DOMAIN Framed(p) = 1..2
      /\ Framed(p)[1] = Header(p, "valid") /\ Framed(p)[2] = Body(p)
  BY Frames
<1>4. \A i \in 1..2 : i = 1 \/ i = 2
  OBVIOUS
<1> QED BY <1>1, <1>2, <1>3, <1>4

\* A verdict is reached on a request that is undecided, and is what vouches for
\* the reply.
LEMMA ServeStep ==
  ASSUME RInv, NEW code, Serve(code)
  PROVE  /\ RInv' /\ UNCHANGED <<ended, job>>
         /\ history'.nonce = history.nonce /\ history'.taken = history.taken
         /\ \/ history'.decided = history.decided
            \/ \E n \in 1..history.nonce :
                 /\ code \in Verdicts /\ \A d \in history.decided : d[1] # n
                 /\ history'.decided = history.decided \cup {<<n, code>>}
<1> USE DEF RInv
<1> DEFINE request == Head(uplink)
           reply == Reply(request, code)
           access == request.code = "AccessRequest"
           k == request.authenticator[2]
           D == history'.decided
<1>1. /\ up /\ uplink # <<>> /\ (IF access THEN code \in Verdicts ELSE code = "AccountingResponse")
      /\ code = "AccessChallenge" => Has(request, "EAP-Message")
      /\ downlink' = downlink \o Framed(reply)
      /\ history' = [history EXCEPT !.replies = @ \cup {reply},
           !.decided = IF access THEN @ \cup {<<k, code>>} ELSE @]
      /\ uplink' = Tail(uplink)
      /\ UNCHANGED <<ended, session, acct_id, acct_counter, job>>
  BY DEF Serve
<1>2. Shrunk(uplink, uplink')
  BY <1>1, Tailed DEF Types
<1>3. Unread(request, history.nonce, history.decided) /\ request = uplink[1]
  BY <1>2 DEF Shrunk, UplinkOK
<1>4. /\ reply.code = code
      /\ verify_response_authenticator(reply, request.authenticator, Secret)
  BY ReplyFields
<1> HIDE DEF request, reply
<1>5. /\ HistoryOK(history') /\ history'.nonce = history.nonce
      /\ history'.taken = history.taken
      /\ history'.name = history.name /\ history'.record = history.record
      /\ history'.open = history.open /\ history'.strays = history.strays
      /\ history'.replies = history.replies \cup {reply}
      /\ D = IF access THEN history.decided \cup {<<k, code>>} ELSE history.decided
  BY <1>1 DEF Types, HistoryOK, HistoryFields
<1> HIDE DEF D
<1>6. access => /\ k \in 1..history.nonce /\ request.authenticator = <<"Nonce", k>>
                /\ \A d \in history.decided : d[1] # k
  <2> SUFFICES ASSUME access
               PROVE  /\ k \in 1..history.nonce /\ request.authenticator = <<"Nonce", k>>
                      /\ \A d \in history.decided : d[1] # k
    OBVIOUS
  <2>1. PICK n \in 1..history.nonce :
          request.authenticator = <<"Nonce", n>> /\ \A d \in history.decided : d[1] # n
    BY <1>3 DEF Unread
  <2>2. k = n
    BY <2>1
  <2> QED BY <2>1, <2>2
<1>7. ~access => request.authenticator[1] = "MD5"
  BY <1>3 DEF Unread
<1> HIDE DEF k
<1>8. D \subseteq (1..history.nonce) \X Verdicts /\ history.decided \subseteq D
  <2>1. history.decided \subseteq (1..history.nonce) \X Verdicts
    BY DEF RepliesOK
  <2> QED BY <1>1, <1>5, <1>6, <2>1
<1>9. Vouched(reply, D)
  <2> SUFFICES ASSUME NEW n \in Nat,
                      verify_response_authenticator(reply, <<"Nonce", n>>, Secret)
               PROVE  <<n, reply.code>> \in D
    BY DEF Vouched
  <2>1. request.authenticator = <<"Nonce", n>>
    BY <1>4, SealedForOne
  <2>2. access
    BY <1>7, <2>1
  <2>3. n = k
    BY <1>6, <2>1, <2>2
  <2> QED BY <1>4, <1>5, <2>2, <2>3
<1>10. \A i \in DOMAIN downlink : Announces(downlink[i], D)
  BY <1>8, StillVouched DEF RepliesOK
<1>11. IsSeq(downlink') /\ \A i \in DOMAIN downlink' : Announces(downlink'[i], D)
  <2>1. \A i \in DOMAIN Framed(reply) : Announces(Framed(reply)[i], D)
    BY <1>9, FrameAnnounces
  <2>2. IsSeq(Framed(reply)) /\ IsSeq(downlink)
    BY Frames DEF Types
  <2> DEFINE t == Framed(reply)
  <2> HIDE DEF t
  <2>3. IsSeq(downlink \o t) /\ \A i \in DOMAIN (downlink \o t) : Announces((downlink \o t)[i], D)
    BY <1>10, <2>1, <2>2, Sent DEF t
  <2> QED BY <1>1, <2>3 DEF t
<1>12. Types'
  BY <1>1, <1>2, <1>5, <1>11 DEF Types, Shrunk
<1>13. Quiet' /\ RefusesOnlyStrays'
  BY <1>1, <1>5 DEF Quiet, RefusesOnlyStrays, up
<1>14. (\A m \in Mac : Own(m))'
  BY <1>1, <1>5 DEF Own
<1>15. JobOK'
  BY <1>1, <1>5 DEF JobOK
<1>16. UplinkOK'
  <2>1. ASSUME NEW i \in DOMAIN uplink'
        PROVE  Unread(uplink'[i], history.nonce, D)
    <3>1. /\ i + 1 \in DOMAIN uplink /\ i + 1 # 1 /\ uplink'[i] = uplink[i + 1]
          /\ 1 \in DOMAIN uplink
      BY <1>2 DEF Shrunk
    <3> DEFINE r == uplink[i + 1]
    <3>2. Unread(r, history.nonce, history.decided)
      BY <3>1 DEF UplinkOK
    <3>3. access /\ r.code = "AccessRequest" => r.authenticator # request.authenticator
      BY <1>3, <3>1 DEF UplinkOK
    <3> HIDE DEF r
    <3>4. CASE r.code = "AccessRequest"
      <4>1. PICK n \in 1..history.nonce :
              r.authenticator = <<"Nonce", n>> /\ \A d \in history.decided : d[1] # n
        BY <3>2, <3>4 DEF Unread
      <4>2. access => n # k
        BY <1>6, <3>3, <3>4, <4>1
      <4>3. <<k, code>>[1] = k
        OBVIOUS
      <4>4. \A d \in D : d[1] # n
        BY <1>5, <4>1, <4>2, <4>3
      <4> QED BY <3>1, <3>4, <4>1, <4>4 DEF Unread, r
    <3>5. CASE r.code # "AccessRequest"
      BY <3>1, <3>2, <3>5 DEF Unread, r
    <3> QED BY <3>4, <3>5
  <2>2. ASSUME NEW i \in DOMAIN uplink', NEW j \in DOMAIN uplink', i # j,
               uplink'[i].code = "AccessRequest", uplink'[j].code = "AccessRequest"
        PROVE  uplink'[i].authenticator # uplink'[j].authenticator
    <3>1. /\ i + 1 \in DOMAIN uplink /\ uplink'[i] = uplink[i + 1]
          /\ j + 1 \in DOMAIN uplink /\ uplink'[j] = uplink[j + 1] /\ i + 1 # j + 1
      BY <1>2, <2>2 DEF Shrunk
    <3> QED BY <2>2, <3>1 DEF UplinkOK
  <2> QED BY <1>5, <2>1, <2>2 DEF UplinkOK, D
<1>17. RepliesOK'
  <2>1. \A p \in history'.replies : Vouched(p, D)
    BY <1>5, <1>8, <1>9, StillVouched DEF RepliesOK
  <2>2. job.header # <<>> => Vouched(job.header[1], D)
    BY <1>8, StillVouched DEF RepliesOK
  <2> QED BY <1>1, <1>5, <1>8, <1>11, <2>1, <2>2 DEF RepliesOK, D
<1>18. InStep'
  <2>1. CASE history.strays = 0
    <3>1. job # NoJob /\ Exchanging
      BY <1>1, <2>1 DEF InStep
    <3>2. job.header = <<>> /\ uplink = <<job.request>> /\ downlink = <<>>
      BY <1>1, <3>1 DEF Exchanging
    <3>3. request = job.request /\ uplink' = <<>>
      BY <1>1, <3>2 DEF request
    <3>4. downlink' = Framed(reply)
      <4> DEFINE t == Framed(reply)
      <4>1. IsSeq(t)
        BY Frames
      <4> HIDE DEF t
      <4>2. t \in Seq({t[i] : i \in DOMAIN t})
        BY <4>1 DEF IsSeq
      <4>3. <<>> \o t = t
        BY <4>2
      <4> QED BY <1>1, <3>2, <4>3 DEF t
    <3>5. code \in Answers(job.request)
      BY <1>1, <3>3 DEF Answers
    <3>6. Exchanging'
      BY <1>1, <3>2, <3>3, <3>4, <3>5 DEF Exchanging, reply
    <3> QED BY <1>1, <3>1, <3>6 DEF InStep
  <2>2. CASE history.strays # 0
    BY <1>5, <2>2 DEF InStep
  <2> QED BY <2>1, <2>2
<1>19. \/ D = history.decided
       \/ \E n \in 1..history.nonce :
            /\ code \in Verdicts /\ \A d \in history.decided : d[1] # n
            /\ D = history.decided \cup {<<n, code>>}
  BY <1>1, <1>5, <1>6
<1> QED BY <1>1, <1>5, <1>12, <1>13, <1>14, <1>15, <1>16, <1>17, <1>18, <1>19 DEF D

\* A stray packet passes for no reply it is not.
LEMMA StrayStep ==
  ASSUME RInv, Stray
  PROVE  /\ RInv' /\ UNCHANGED <<ended, job>>
         /\ history'.nonce = history.nonce /\ history'.decided = history.decided
         /\ history'.taken = history.taken
<1> USE DEF RInv
<1>1. /\ HistoryOK(history') /\ history'.nonce = history.nonce
      /\ history'.taken = history.taken /\ history'.decided = history.decided
      /\ history'.name = history.name /\ history'.record = history.record
      /\ history'.open = history.open /\ history'.strays > 0
      /\ history'.replies = history.replies
  BY DEF Stray, Types, HistoryOK, HistoryFields
<1>2. up /\ UNCHANGED <<ended, session, acct_id, acct_counter, job, uplink>>
  BY DEF Stray
<1>3. PICK frame \in {Framed(p) : p \in history.replies}
                       \cup {Framed(Packet("CoA-Request", id, Zero, <<>>)) : id \in 0..(Ids - 1)}
                       \cup {<<Header(None, "invalid")>>} : downlink' = downlink \o frame
  BY DEF Stray
<1>4. IsSeq(frame) /\ \A i \in DOMAIN frame : Announces(frame[i], history.decided)
  <2>1. CASE frame \in {Framed(p) : p \in history.replies}
    <3>1. PICK p \in history.replies : frame = Framed(p)
      BY <2>1
    <3>2. Vouched(p, history.decided)
      BY DEF RepliesOK
    <3> QED BY <3>1, <3>2, Frames, FrameAnnounces
  <2>2. CASE frame \in {Framed(Packet("CoA-Request", id, Zero, <<>>)) : id \in 0..(Ids - 1)}
    <3>1. PICK id \in 0..(Ids - 1) : frame = Framed(Packet("CoA-Request", id, Zero, <<>>))
      BY <2>2
    <3> DEFINE p == Packet("CoA-Request", id, Zero, <<>>)
    <3>2. p.authenticator[1] = "Zero"
      BY PacketFields DEF Zero
    <3> HIDE DEF p
    <3>3. \A n \in Nat : ~verify_response_authenticator(p, <<"Nonce", n>>, Secret)
      <4> SUFFICES ASSUME NEW n \in Nat, p.authenticator = Hash("MD5", p, <<"Nonce", n>>, Secret)
                   PROVE  FALSE
        BY DEF verify_response_authenticator
      <4>1. Hash("MD5", p, <<"Nonce", n>>, Secret)[1] = "MD5"
        BY DEF Hash
      <4> QED BY <3>2, <4>1
    <3>4. Vouched(p, history.decided)
      BY <3>3 DEF Vouched
    <3> QED BY <3>1, <3>4, Frames, FrameAnnounces DEF p
  <2>3. CASE frame = <<Header(None, "invalid")>>
    <3> DEFINE x == Header(None, "invalid")
    <3>1. x[3] = "invalid"
      BY Frames
    <3> HIDE DEF x
    <3>2. IsSeq(<<x>>) /\ \A i \in DOMAIN <<x>> : <<x>>[i] = x
      <4>1. IsSeq(<<x>>)
        BY Singles
      <4>2. \A i \in DOMAIN <<x>> : <<x>>[i] = x
        OBVIOUS
      <4> QED BY <4>1, <4>2
    <3>3. Announces(x, history.decided)
      BY <3>1 DEF Announces
    <3> QED BY <2>3, <3>2, <3>3 DEF x
  <2> QED BY <1>3, <2>1, <2>2, <2>3
<1>5. IsSeq(downlink') /\ \A i \in DOMAIN downlink' : Announces(downlink'[i], history.decided)
  BY <1>3, <1>4, Sent DEF Types, RepliesOK
<1>6. Types'
  BY <1>1, <1>2, <1>5 DEF Types
<1>7. Quiet' /\ RefusesOnlyStrays' /\ InStep'
  BY <1>1, <1>2 DEF Quiet, RefusesOnlyStrays, InStep, up
<1>8. (\A m \in Mac : Own(m))' /\ JobOK' /\ UplinkOK'
  <2>1. (\A m \in Mac : Own(m))'
    BY <1>1, <1>2 DEF Own
  <2>2. JobOK'
    BY <1>1, <1>2 DEF JobOK
  <2>3. UplinkOK'
    BY <1>1, <1>2 DEF UplinkOK
  <2> QED BY <2>1, <2>2, <2>3
<1>9. RepliesOK'
  BY <1>1, <1>2, <1>5 DEF RepliesOK
<1> QED BY <1>1, <1>2, <1>6, <1>7, <1>8, <1>9

-----------------------------------------------------------------------------
(* Every step keeps the invariant and is a step of AuthExchange, or none *)

\* A step of AuthExchange, or one that leaves its variables alone.
ExchangeStep == [Exchange!Next]_(Exchange!xvars)

\* The request out, as AuthExchange sees it.
Waiting == IF IsAccess THEN history.nonce ELSE None

\* A step AuthExchange does not see.
LEMMA Unseen ==
  ASSUME ended' = ended, history'.nonce = history.nonce, Waiting' = Waiting,
         history'.decided = history.decided, history'.taken = history.taken
  PROVE  ExchangeStep
  BY DEF ExchangeStep, Exchange!xvars, Waiting, up

\* A worker that ends is AuthExchange's failure.
LEMMA ExitStep ==
  ASSUME RInv, up, NEW why \in Reasons \ {"up"}, NEW h, HistoryOK(h), Exit(why, h),
         h.nonce \in {history.nonce, history.nonce + 1},
         why = "refused" => h.strays > 0
  PROVE  RInv' /\ ExchangeStep
<1>1. RInv'
  BY Exited
<1>2. /\ history'.nonce = h.nonce /\ history'.decided = {} /\ history'.taken = {}
  BY DEF Exit, NewHistory, HistoryOK, HistoryFields
<1>3. ~up' /\ ~IsAccess'
  BY DEF Exit, up, IsAccess
<1>4. Exchange!Fail
  BY <1>2, <1>3 DEF Exchange!Fail
<1> QED BY <1>1, <1>4 DEF ExchangeStep, Exchange!Next

\* The access requests of AccessSent are AuthExchange's.
LEMMA AccessStep ==
  ASSUME RInv, NEW m \in Mac, NEW b, NEW h, Access(m, b, h), Counted(h, m),
         b.request.ok => Built(b.session, b.request.val, m, h)
  PROVE  RInv' /\ ExchangeStep
<1>1. up /\ job = NoJob
  BY DEF Access
<1>2. HistoryOK(h) /\ h.nonce = history.nonce + 1
  BY DEF Counted
<1>3. CASE b.request.ok
  <2> DEFINE s == b.session
             r == b.request.val
  <2>1. /\ session' = [session EXCEPT ![m] = s] /\ Write(m, r)
        /\ history' = h /\ UNCHANGED <<acct_id, acct_counter>> /\ Built(s, r, m, h)
    BY <1>3 DEF Access
  <2> HIDE DEF s, r
  <2>2. RInv' /\ job' # NoJob /\ job'.request = r
    BY <1>1, <2>1, AccessSent
  <2>3. IsAccess' /\ ~IsAccess
    BY <1>1, <2>1, <2>2 DEF IsAccess, Built
  <2>4. up' <=> up
    BY <2>1 DEF Write, up
  <2>5. history'.decided = history.decided /\ history'.taken = history.taken
    BY <2>1 DEF Counted
  <2>6. Exchange!Ask
    BY <1>1, <1>2, <2>1, <2>3, <2>4, <2>5 DEF Exchange!Ask
  <2> QED BY <2>2, <2>6 DEF ExchangeStep, Exchange!Next
<1>4. CASE ~b.request.ok
  <2>1. Exit("identity", h)
    BY <1>4 DEF Access
  <2> QED BY <1>1, <1>2, <2>1, ExitStep DEF Reasons
<1> QED BY <1>3, <1>4

\* Reading, a header or a body.
LEMMA ReadStep ==
  ASSUME RInv, ReadHeader \/ ReadBody
  PROVE  RInv' /\ ExchangeStep
<1>0. /\ up /\ job # NoJob /\ downlink # <<>> /\ HistoryOK(history)
      /\ history.strays \in Nat /\ history.nonce \in Nat
  BY DEF RInv, Quiet, ReadHeader, ReadBody, Types, HistoryOK
<1>1. CASE ReadHeader
  <2>1. CASE Head(downlink)[1] = "Header" /\ Head(downlink)[3] = "valid"
    <3>1. HeaderRead
      BY <1>1, <2>1 DEF ReadHeader, HeaderRead
    <3>2. RInv' /\ job' # NoJob /\ job'.request = job.request
      BY <3>1, HeaderStep
    <3>3. Waiting' = Waiting
      BY <3>1, <3>2 DEF HeaderRead, Waiting, IsAccess
    <3> QED BY <3>1, <3>2, <3>3, Unseen DEF HeaderRead
  <2>2. CASE ~(Head(downlink)[1] = "Header" /\ Head(downlink)[3] = "valid")
    <3>1. Exit("refused", history) /\ job.header = <<>>
      BY <1>1, <2>2 DEF ReadHeader
    <3>2. history.strays > 0
      BY <1>0, <2>2, <3>1, HeaderRefused
    <3> QED BY <1>0, <3>1, <3>2, ExitStep DEF Reasons
  <2> QED BY <2>1, <2>2
<1>2. CASE ReadBody
  <2> DEFINE reply == job.header[1]
             r == handle_reply(session[job.mac], reply)
             access == job.request.code = "AccessRequest"
             good == /\ Head(downlink) = Body(reply)
                     /\ reply.identifier = job.request.identifier
                     /\ access => r.ok
  <2>1. job.header # <<>>
    BY <1>2 DEF ReadBody
  <2>2. CASE good
    <3>1. BodyRead(reply)
      BY <1>2, <2>2 DEF ReadBody, Received, BodyRead
    <3>2. /\ RInv' /\ job' = NoJob /\ ended' = ended
          /\ history'.nonce = history.nonce /\ history'.decided = history.decided
          /\ history'.taken = IF access
               THEN history.taken \cup {<<history.nonce, r.event.type>>} ELSE history.taken
      BY <3>1, BodyStep
    <3>3. access => r.event.type \in Verdicts /\ <<history.nonce, r.event.type>> \in history.decided
      BY <3>1, VerdictTaken
    <3> DEFINE v == r.event.type
    <3> HIDE DEF v
    <3>4. CASE access
      <4>1. IsAccess /\ ~IsAccess'
        BY <1>0, <3>2, <3>4 DEF IsAccess
      <4>2. Exchange!Take(v)
        BY <1>0, <3>2, <3>3, <3>4, <4>1 DEF Exchange!Take, up, v
      <4> QED BY <3>2, <3>3, <3>4, <4>2 DEF ExchangeStep, Exchange!Next, v
    <3>5. CASE ~access
      <4>1. Waiting' = Waiting
        BY <3>2, <3>5 DEF Waiting, IsAccess
      <4> QED BY <3>2, <3>5, <4>1, Unseen
    <3> QED BY <3>4, <3>5
  <2>3. CASE ~good
    <3>1. Exit("refused", history)
      BY <1>2, <2>3 DEF ReadBody, Received
    <3>2. history.strays # 0
      BY <1>0, <2>1, <2>3, BodyRefused
    <3>3. history.strays > 0
      BY <1>0, <3>2
    <3> QED BY <1>0, <3>1, <3>3, ExitStep DEF Reasons
  <2> QED BY <2>2, <2>3
<1> QED BY <1>1, <1>2

\* The same of every step.
LEMMA RadSecStep ==
  ASSUME RInv, [RadSecNext]_rvars
  PROVE  RInv' /\ ExchangeStep
<1>0. HistoryOK(history)
  BY DEF RInv, Types
<1>1. CASE connect
  <2>1. RInv' /\ up' /\ ~up
    BY <1>1, ConnectStep DEF connect, up
  <2>2. /\ history'.nonce = history.nonce /\ history'.decided = history.decided
        /\ history'.taken = history.taken
    BY <1>0, <1>1 DEF connect, HistoryOK, HistoryFields
  <2>3. job' = job
    BY <1>1 DEF connect
  <2>4. Exchange!Open
    BY <2>1, <2>2, <2>3 DEF Exchange!Open, IsAccess
  <2> QED BY <2>1, <2>4 DEF ExchangeStep, Exchange!Next
<1>2. CASE WorkerEnds
  BY <1>0, <1>2, ExitStep DEF WorkerEnds, Reasons
<1>3. CASE ReadHeader \/ ReadBody
  BY <1>3, ReadStep
<1>4. CASE Timeout
  <2>1. up
    BY <1>4 DEF Timeout, RInv, Quiet
  <2> QED BY <1>0, <1>4, <2>1, ExitStep DEF Timeout, Reasons
<1>5. CASE Stray
  <2>1. /\ RInv' /\ UNCHANGED <<ended, job>>
        /\ history'.nonce = history.nonce /\ history'.decided = history.decided
        /\ history'.taken = history.taken
    BY <1>5, StrayStep
  <2>2. Waiting' = Waiting
    BY <2>1 DEF Waiting, IsAccess
  <2> QED BY <2>1, <2>2, Unseen
<1>6. ASSUME NEW m \in Mac, NEW identity, ToAuthServer(m, identity)
      PROVE  RInv' /\ ExchangeStep
  <2> DEFINE b == build_eap_request(session[m], m, identity, <<0>>,
                                    generate_request_authenticator)
             h == [history EXCEPT !.nonce = @ + 1,
                                  !.name[m] = IF identity = None THEN @ ELSE identity]
  <2>1. Access(m, b, h)
    BY <1>6 DEF ToAuthServer
  <2>2. Counted(h, m) /\ (b.request.ok => Built(b.session, b.request.val, m, h))
    BY EapBuilt
  <2> HIDE DEF b, h
  <2> QED BY <2>1, <2>2, AccessStep
<1>7. ASSUME NEW m \in Mac, StartMab(m)
      PROVE  RInv' /\ ExchangeStep
  <2> DEFINE b == build_mab_request(session[m], m, generate_request_authenticator)
             h == [history EXCEPT !.nonce = @ + 1]
  <2>1. Access(m, b, h)
    BY <1>7 DEF StartMab
  <2>2. Counted(h, m) /\ (b.request.ok => Built(b.session, b.request.val, m, h))
    BY MabBuilt
  <2> HIDE DEF b, h
  <2> QED BY <2>1, <2>2, AccessStep
<1>8. ASSUME NEW m \in Mac, NEW trigger \in {"Start", "Stop"}, Accounting(m, trigger)
      PROVE  RInv' /\ ExchangeStep
  <2>1. /\ RInv'
        /\ job = NoJob /\ job'.request.code = "AccountingRequest"
        /\ ended' = ended /\ history'.nonce = history.nonce
        /\ history'.decided = history.decided /\ history'.taken = history.taken
    BY <1>8, AccountingStep
  <2>2. Waiting' = Waiting
    BY <2>1 DEF Waiting, IsAccess
  <2> QED BY <2>1, <2>2, Unseen
<1>9. ASSUME NEW code, Serve(code)
      PROVE  RInv' /\ ExchangeStep
  <2>1. /\ RInv' /\ UNCHANGED <<ended, job>>
        /\ history'.nonce = history.nonce /\ history'.taken = history.taken
        /\ \/ history'.decided = history.decided
           \/ \E n \in 1..history.nonce :
                /\ code \in Verdicts /\ \A d \in history.decided : d[1] # n
                /\ history'.decided = history.decided \cup {<<n, code>>}
    BY <1>9, ServeStep
  <2>2. IsAccess' <=> IsAccess
    BY <2>1 DEF IsAccess
  <2>3. CASE history'.decided = history.decided
    <3>1. Waiting' = Waiting
      BY <2>1, <2>2 DEF Waiting
    <3> QED BY <2>1, <2>3, <3>1, Unseen
  <2>4. CASE history'.decided # history.decided
    <3>1. PICK n \in 1..history.nonce :
            /\ code \in Verdicts /\ \A d \in history.decided : d[1] # n
            /\ history'.decided = history.decided \cup {<<n, code>>}
      BY <2>1, <2>4
    <3>2. Exchange!Decide(n, code)
      BY <2>1, <2>2, <3>1 DEF Exchange!Decide, up
    <3> QED BY <2>1, <3>1, <3>2 DEF ExchangeStep, Exchange!Next
  <2> QED BY <2>3, <2>4
<1>10. CASE UNCHANGED rvars
  <2>1. /\ ended' = ended /\ history' = history /\ job' = job /\ session' = session
        /\ acct_id' = acct_id /\ acct_counter' = acct_counter
        /\ uplink' = uplink /\ downlink' = downlink
    BY <1>10 DEF rvars
  <2>2. RInv'
    <3>1. Types' /\ Quiet' /\ RefusesOnlyStrays' /\ JobOK' /\ UplinkOK'
      BY <2>1 DEF RInv, Types, Quiet, RefusesOnlyStrays, JobOK, UplinkOK, up
    <3>2. RepliesOK' /\ InStep'
      BY <2>1 DEF RInv, RepliesOK, InStep, Exchanging, up
    <3>3. (\A m \in Mac : Own(m))'
      BY <2>1 DEF RInv, Own
    <3> QED BY <3>1, <3>2, <3>3 DEF RInv
  <2>3. Waiting' = Waiting
    BY <2>1 DEF Waiting, IsAccess
  <2> QED BY <2>1, <2>2, <2>3, Unseen
<1> QED BY <1>1, <1>2, <1>3, <1>4, <1>5, <1>6, <1>7, <1>8, <1>9, <1>10 DEF RadSecNext, Send

-----------------------------------------------------------------------------
(* Theorems *)

\* The invariant holds of every reachable state, for any supplicants and
\* identities and any size of the identifier space.
THEOREM RadSecInductive == RadSecSpec => []RInv
<1>1. RadSecInit => RInv
  BY InitRInv
<1>2. RInv /\ [RadSecNext]_rvars => RInv'
  BY RadSecStep
<1> QED BY <1>1, <1>2, PTL DEF RadSecSpec

\* RadSecTypeOK: identifiers stay in their space however often they wrap.
THEOREM RadSecTypeCorrect == RadSecSpec => []RadSecTypeOK
<1>1. RInv => RadSecTypeOK
  <2> SUFFICES ASSUME RInv
               PROVE  RadSecTypeOK
    OBVIOUS
  <2>1. ASSUME NEW m \in Mac
        PROVE  /\ {session[m].next_id, session[m].next_acct_id} \subseteq 0..(Ids - 1)
               /\ session[m].pending # None => session[m].pending.identifier \in 0..(Ids - 1)
    BY DEF RInv, Types, SessionOK, Pending
  <2>2. job.mac \in Mac \cup {None}
    BY DEF RInv, JobOK, NoJob
  <2> QED BY <2>1, <2>2 DEF RInv, Types, RadSecTypeOK, Reasons
<1> QED BY <1>1, RadSecInductive, PTL

\* RefusesOnlyStrays: both ends agree on identifiers, authenticators and frames
\* as long as nothing is sent unasked.
THEOREM OnlyStraysRefused == RadSecSpec => []RefusesOnlyStrays
<1>1. RInv => RefusesOnlyStrays
  BY DEF RInv
<1> QED BY <1>1, RadSecInductive, PTL

\* StreamInSync: no exchange leaves half of itself to the next.
THEOREM InSync == RadSecSpec => []StreamInSync
<1>1. RInv => StreamInSync
  BY DEF RInv, InStep, StreamInSync
<1> QED BY <1>1, RadSecInductive, PTL

\* UserNameIsOwn: no supplicant is sent under another's name or an old one.
THEOREM NamesAreOwn == RadSecSpec => []UserNameIsOwn
<1>1. RInv => UserNameIsOwn
  BY DEF RInv, JobOK, UserNameIsOwn, IsAccess
<1> QED BY <1>1, RadSecInductive, PTL

\* RecordsMatch: a Stop closes the record its supplicant's Start opened.
THEOREM RecordsAreOwn == RadSecSpec => []RecordsMatch
<1>1. RInv => RecordsMatch
  BY DEF RInv, JobOK, RecordsMatch
<1> QED BY <1>1, RadSecInductive, PTL

\* ImplementsExchange: the verdict acted on is the one the server reached on the
\* request that is out, whatever is repeated, late or unasked.
THEOREM ExchangeRefined == RadSecSpec => ImplementsExchange
<1>1. RadSecInit => Exchange!Init
  BY DEF RadSecInit, Exchange!Init, IsAccess, up
<1>2. RInv /\ [RadSecNext]_rvars => [Exchange!Next]_(Exchange!xvars)
  BY RadSecStep DEF ExchangeStep
<1> QED BY <1>1, <1>2, RadSecInductive, PTL
     DEF RadSecSpec, ImplementsExchange, Exchange!Spec

=============================================================================
