------------------------- MODULE RadiusClientProofs -------------------------
(***************************************************************************)
(* What RadiusClient's operators return, for attributes of any number and  *)
(* value: which attributes a request carries once it is sealed, which one  *)
(* find_attribute finds, and what a reply that is accepted was sealed for. *)
(***************************************************************************)
EXTENDS RadiusSession, WellFoundedInduction, TLAPS

-----------------------------------------------------------------------------
(* Sequences of attributes, whose values have no set of their own *)

IsSeq(s) == s \in Seq({s[i] : i \in DOMAIN s})

\* Any sequence is one of its own elements.
LEMMA SeqIs ==
  ASSUME NEW S, NEW s \in Seq(S)
  PROVE  IsSeq(s)
  BY DEF IsSeq

\* What makes a sequence.
LEMMA IsSeqDef ==
  ASSUME NEW s, IsSeq(s)
  PROVE  Len(s) \in Nat /\ DOMAIN s = 1..Len(s)
  BY DEF IsSeq

\* A sequence of one or two elements.
LEMMA Singles ==
  ASSUME NEW x, NEW y
  PROVE  /\ IsSeq(<<>>) /\ DOMAIN <<>> = {} /\ Len(<<>>) = 0
         /\ IsSeq(<<x>>) /\ DOMAIN <<x>> = 1..1 /\ <<x>>[1] = x /\ Len(<<x>>) = 1
         /\ IsSeq(<<x, y>>) /\ DOMAIN <<x, y>> = 1..2 /\ Len(<<x, y>>) = 2
         /\ <<x, y>>[1] = x /\ <<x, y>>[2] = y
<1>1. <<>> \in Seq({x}) /\ <<x>> \in Seq({x}) /\ <<x, y>> \in Seq({x, y})
  OBVIOUS
<1>2. IsSeq(<<>>) /\ IsSeq(<<x>>) /\ IsSeq(<<x, y>>)
  BY <1>1, SeqIs
<1> QED BY <1>2

\* The elements of s, then those of t.
Joined(s, t, u) ==
  /\ IsSeq(u) /\ Len(u) = Len(s) + Len(t)
  /\ \A i \in DOMAIN s : i \in DOMAIN u /\ u[i] = s[i]
  /\ \A i \in DOMAIN t : Len(s) + i \in DOMAIN u /\ u[Len(s) + i] = t[i]
  /\ \A i \in DOMAIN u : \/ i \in DOMAIN s
                         \/ i - Len(s) \in DOMAIN t /\ u[i] = t[i - Len(s)]

\* Sequences are joined end to end.
LEMMA Concat ==
  ASSUME NEW s, NEW t, IsSeq(s), IsSeq(t)
  PROVE  Joined(s, t, s \o t)
<1> DEFINE S == {s[i] : i \in DOMAIN s} \cup {t[i] : i \in DOMAIN t}
<1>1. s \in Seq(S) /\ t \in Seq(S)
  BY DEF IsSeq
<1> HIDE DEF S
<1>2. /\ s \o t \in Seq(S) /\ Len(s \o t) = Len(s) + Len(t)
      /\ Len(s) \in Nat /\ Len(t) \in Nat
      /\ DOMAIN s = 1..Len(s) /\ DOMAIN t = 1..Len(t)
      /\ DOMAIN (s \o t) = 1..(Len(s) + Len(t))
      /\ \A i \in 1..Len(s) : (s \o t)[i] = s[i]
      /\ \A i \in 1..Len(t) : (s \o t)[Len(s) + i] = t[i]
  BY <1>1
<1>3. IsSeq(s \o t)
  BY <1>2, SeqIs
<1>4. \A i \in 1..(Len(s) + Len(t)) :
        i \in 1..Len(s) \/ (i - Len(s) \in 1..Len(t) /\ i = Len(s) + (i - Len(s)))
  BY <1>2
<1> QED BY <1>2, <1>3, <1>4 DEF Joined

\* A set of naturals has a least element.
LEMMA Smallest ==
  ASSUME NEW T, T \subseteq Nat, T # {}
  PROVE  \E m \in T : \A k \in T : ~(k < m)
<1>1. \E x \in T : \A y \in T : ~(<<y, x>> \in OpToRel(<, Nat))
  BY WFMin, NatLessThanWellFounded
<1>2. \A a, b \in Nat : <<a, b>> \in OpToRel(<, Nat) <=> a < b
  BY DEF OpToRel
<1> QED BY <1>1, <1>2

-----------------------------------------------------------------------------
(* Finding attributes *)

\* find_attribute returns the first attribute of its type.
LEMMA FindFirst ==
  ASSUME NEW p, NEW t, IsSeq(p.attributes), NEW k \in DOMAIN p.attributes,
         p.attributes[k][1] = t, \A j \in 1..(k - 1) : p.attributes[j][1] # t
  PROVE  find_attribute(p, t) = p.attributes[k][2]
<1> DEFINE A == p.attributes
           I == {i \in 1..Len(A) : A[i][1] = t}
<1>1. Len(A) \in Nat /\ DOMAIN A = 1..Len(A) /\ k \in I
  BY IsSeqDef
<1>2. \A i \in I : k <= i
  BY <1>1
<1>3. Min(I) = k
  BY <1>1, <1>2 DEF Min
<1>4. find_attribute(p, t) = LET i == IF I # {} THEN Min(I) ELSE 0
                             IN  IF i = 0 THEN None ELSE A[i][2]
  BY DEF find_attribute, SelectInSeq
<1> HIDE DEF I
<1> QED BY <1>1, <1>3, <1>4

\* find_attribute returns None when there is none of the type.
LEMMA FindNone ==
  ASSUME NEW p, NEW t, IsSeq(p.attributes), ~Has(p, t)
  PROVE  find_attribute(p, t) = None
  BY IsSeqDef DEF find_attribute, SelectInSeq, Has

\* What is found in a list of attributes and one that follows it is what is found
\* in the first, or else in the second.
LEMMA FindJoined ==
  ASSUME NEW A, NEW B, IsSeq(A), IsSeq(B), NEW p, NEW q, NEW r, NEW t,
         p.attributes = A, q.attributes = B, r.attributes = A \o B
  PROVE  /\ find_attribute(r, t) = IF Has(p, t) THEN find_attribute(p, t)
                                   ELSE find_attribute(q, t)
         /\ Has(r, t) <=> Has(p, t) \/ Has(q, t)
<1> DEFINE C == A \o B
           l == Len(A)
<1>1. Joined(A, B, C) /\ l \in Nat /\ DOMAIN A = 1..l /\ Len(B) \in Nat /\ DOMAIN B = 1..Len(B)
  BY Concat, IsSeqDef
<1>0. r.attributes = C
  OBVIOUS
<1> HIDE DEF C
<1>2. /\ IsSeq(C) /\ \A i \in DOMAIN A : i \in DOMAIN C /\ C[i] = A[i]
      /\ \A i \in DOMAIN B : l + i \in DOMAIN C /\ C[l + i] = B[i]
      /\ \A i \in DOMAIN C : i \in DOMAIN A \/ (i - l \in DOMAIN B /\ C[i] = B[i - l])
  BY <1>1 DEF Joined
<1> HIDE DEF l
<1>3. Has(r, t) <=> Has(p, t) \/ Has(q, t)
  <2>1. Has(r, t) => Has(p, t) \/ Has(q, t)
    BY <1>0, <1>2 DEF Has
  <2>2. Has(p, t) \/ Has(q, t) => Has(r, t)
    BY <1>0, <1>2 DEF Has
  <2> QED BY <2>1, <2>2
<1>4. CASE Has(p, t)
  <2> DEFINE I == {i \in DOMAIN A : A[i][1] = t}
  <2>1. I # {} /\ I \subseteq Nat
    BY <1>1, <1>4 DEF Has
  <2>2. PICK m \in I : \A k \in I : ~(k < m)
    BY <2>1, Smallest
  <2>3. m \in 1..l /\ A[m][1] = t /\ \A j \in 1..(m - 1) : A[j][1] # t
    BY <1>1, <2>2
  <2>4. find_attribute(p, t) = A[m][2]
    BY <1>1, <2>3, FindFirst
  <2>5. m \in DOMAIN C /\ C[m] = A[m] /\ \A j \in 1..(m - 1) : C[j] = A[j]
    <3>1. m \in DOMAIN A /\ \A j \in 1..(m - 1) : j \in DOMAIN A
      BY <1>1, <2>3
    <3> QED BY <1>2, <3>1
  <2>6. find_attribute(r, t) = C[m][2]
    BY <1>0, <1>2, <2>3, <2>5, FindFirst
  <2> QED BY <1>3, <1>4, <2>4, <2>5, <2>6
<1>5. CASE ~Has(p, t) /\ Has(q, t)
  <2> DEFINE I == {i \in DOMAIN B : B[i][1] = t}
  <2>1. I # {} /\ I \subseteq Nat
    BY <1>1, <1>5 DEF Has
  <2>2. PICK m \in I : \A k \in I : ~(k < m)
    BY <2>1, Smallest
  <2>3. m \in 1..Len(B) /\ B[m][1] = t /\ \A j \in 1..(m - 1) : B[j][1] # t
    BY <1>1, <2>2
  <2>4. find_attribute(q, t) = B[m][2]
    BY <1>1, <2>3, FindFirst
  <2>5. l + m \in DOMAIN C /\ C[l + m] = B[m]
    BY <1>1, <1>2, <2>3
  <2>6. ASSUME NEW j \in 1..((l + m) - 1) PROVE C[j][1] # t
    <3>1. CASE j \in DOMAIN A
      BY <1>2, <1>5, <3>1 DEF Has
    <3>2. CASE j \notin DOMAIN A
      <4>1. j - l \in 1..(m - 1) /\ j - l \in DOMAIN B /\ l + (j - l) = j
        BY <1>1, <2>3, <3>2
      <4>2. C[j] = B[j - l]
        BY <1>2, <4>1
      <4> QED BY <2>3, <4>1, <4>2
    <3> QED BY <3>1, <3>2
  <2>7. find_attribute(r, t) = C[l + m][2]
    <3> DEFINE k == l + m
    <3>1. k \in DOMAIN r.attributes /\ r.attributes[k][1] = t
      BY <1>0, <2>3, <2>5
    <3>2. \A j \in 1..(k - 1) : r.attributes[j][1] # t
      <4>1. \A j \in 1..((l + m) - 1) : C[j][1] # t
        BY <2>6
      <4> QED BY <1>0, <4>1
    <3> HIDE DEF k
    <3>3. find_attribute(r, t) = r.attributes[k][2]
      BY <1>0, <1>2, <3>1, <3>2, FindFirst
    <3> QED BY <1>0, <3>3 DEF k
  <2> QED BY <1>3, <1>5, <2>4, <2>5, <2>7
<1>6. CASE ~Has(p, t) /\ ~Has(q, t)
  BY <1>0, <1>2, <1>3, <1>6, FindNone
<1> QED BY <1>4, <1>5, <1>6

-----------------------------------------------------------------------------
(* Packets *)

\* The fields of a packet.
LEMMA PacketFields ==
  ASSUME NEW c, NEW i, NEW a, NEW A
  PROVE  LET p == Packet(c, i, a, A)
         IN  /\ p.code = c /\ p.identifier = i /\ p.authenticator = a
             /\ p.attributes = A
             /\ DOMAIN p = {"code", "identifier", "authenticator", "attributes"}
  BY DEF Packet

\* p with the value of every Message-Authenticator set to v.
LEMMA Signed ==
  ASSUME NEW c, NEW i, NEW a, NEW A, NEW v, IsSeq(A)
  PROVE  LET p == Packet(c, i, a, A)
             B == WithAuthenticator(p, v).attributes
         IN  /\ WithAuthenticator(p, v) = Packet(c, i, a, B)
             /\ IsSeq(B) /\ DOMAIN B = DOMAIN A /\ Len(B) = Len(A)
             /\ \A j \in DOMAIN A : B[j] = IF A[j][1] = "Message-Authenticator"
                                           THEN <<A[j][1], v>> ELSE A[j]
<1> DEFINE p == Packet(c, i, a, A)
           B == [j \in DOMAIN A |->
                  IF A[j][1] = "Message-Authenticator" THEN <<A[j][1], v>> ELSE A[j]]
<1>1. WithAuthenticator(p, v) = [p EXCEPT !.attributes = B]
  BY DEF WithAuthenticator, Packet
<1>2. [p EXCEPT !.attributes = B] = Packet(c, i, a, B)
  BY DEF Packet
<1>3. Len(A) \in Nat /\ DOMAIN A = 1..Len(A)
  BY IsSeqDef
<1>4. B \in Seq({B[j] : j \in 1..Len(A)}) /\ Len(B) = Len(A)
  BY <1>3
<1>5. IsSeq(B)
  BY <1>4, SeqIs
<1>6. WithAuthenticator(p, v).attributes = B
  BY <1>1, <1>2, PacketFields
<1> QED BY <1>1, <1>2, <1>4, <1>5, <1>6

\* A sealed request is the request with a Message-Authenticator: its other
\* attributes stay where they are.
LEMMA Sealed ==
  ASSUME NEW c, NEW i, NEW a, NEW A, NEW secret, IsSeq(A)
  PROVE  LET r == seal_message_authenticator(Packet(c, i, a, A), secret)
         IN  /\ r.code = c /\ r.identifier = i /\ r.authenticator = a
             /\ IsSeq(r.attributes)
             /\ \A j \in DOMAIN A : j \in DOMAIN r.attributes
             /\ \A j \in DOMAIN A : A[j][1] # "Message-Authenticator" =>
                  r.attributes[j] = A[j]
             /\ \A j \in DOMAIN r.attributes :
                  \/ r.attributes[j][1] = "Message-Authenticator"
                  \/ j \in DOMAIN A /\ r.attributes[j] = A[j]
<1> DEFINE p == Packet(c, i, a, A)
           sealed == <<"Message-Authenticator", Zero>>
           Q == IF Has(p, "Message-Authenticator") THEN A ELSE Append(A, sealed)
           q == Packet(c, i, a, Q)
           h == LET blank == WithAuthenticator(q, Zero)
                IN  Hash("HMAC", blank, blank.authenticator, secret)
           r == WithAuthenticator(q, h)
<1>1. q = IF Has(p, "Message-Authenticator") THEN p
          ELSE [p EXCEPT !.attributes = Append(@, sealed)]
  BY DEF Packet
<1>2. seal_message_authenticator(p, secret) = r
  BY <1>1 DEF seal_message_authenticator
<1>3. /\ Len(A) \in Nat /\ DOMAIN A = 1..Len(A)
  BY IsSeqDef
<1>4. /\ IsSeq(Q) /\ \A j \in DOMAIN A : j \in DOMAIN Q /\ Q[j] = A[j]
      /\ \A j \in DOMAIN Q : j \in DOMAIN A \/ Q[j] = sealed
  <2>1. CASE Has(p, "Message-Authenticator")
    BY <2>1
  <2>2. CASE ~Has(p, "Message-Authenticator")
    <3> DEFINE S == {A[j] : j \in DOMAIN A} \cup {sealed}
    <3>1. A \in Seq(S) /\ sealed \in S
      BY DEF IsSeq
    <3> HIDE DEF S
    <3>2. /\ Append(A, sealed) \in Seq(S) /\ Len(Append(A, sealed)) = Len(A) + 1
          /\ DOMAIN Append(A, sealed) = 1..(Len(A) + 1)
          /\ \A j \in 1..Len(A) : Append(A, sealed)[j] = A[j]
          /\ Append(A, sealed)[Len(A) + 1] = sealed
      BY <3>1
    <3>3. IsSeq(Append(A, sealed))
      BY <3>2, SeqIs
    <3>4. \A j \in 1..(Len(A) + 1) : j \in 1..Len(A) \/ j = Len(A) + 1
      BY <1>3
    <3> QED BY <1>3, <2>2, <3>2, <3>3, <3>4
  <2> QED BY <2>1, <2>2
<1> HIDE DEF Q, h
<1>5. LET B == r.attributes
      IN  /\ r = Packet(c, i, a, B) /\ IsSeq(B) /\ DOMAIN B = DOMAIN Q
          /\ \A j \in DOMAIN Q : B[j] = IF Q[j][1] = "Message-Authenticator"
                                        THEN <<Q[j][1], h>> ELSE Q[j]
  BY <1>4, Signed
<1>6. r.code = c /\ r.identifier = i /\ r.authenticator = a
  BY <1>5, PacketFields
<1> HIDE DEF r
<1>7. \A j \in DOMAIN Q : j \in DOMAIN A \/ Q[j][1] = "Message-Authenticator"
  BY <1>4
<1>8. DOMAIN r.attributes = DOMAIN Q /\ IsSeq(r.attributes)
  BY <1>5
<1>9. ASSUME NEW j \in DOMAIN Q, Q[j][1] # "Message-Authenticator"
      PROVE  r.attributes[j] = Q[j]
  BY <1>5, <1>9
<1>10. ASSUME NEW j \in DOMAIN Q, Q[j][1] = "Message-Authenticator"
       PROVE  r.attributes[j][1] = "Message-Authenticator"
  <2>1. r.attributes[j] = <<Q[j][1], h>>
    BY <1>5, <1>10
  <2> QED BY <1>10, <2>1
<1>11. ASSUME NEW j \in DOMAIN A, A[j][1] # "Message-Authenticator"
       PROVE  r.attributes[j] = A[j]
  BY <1>4, <1>9, <1>11
<1>12. ASSUME NEW j \in DOMAIN Q
       PROVE  \/ r.attributes[j][1] = "Message-Authenticator"
              \/ j \in DOMAIN A /\ r.attributes[j] = A[j]
  <2>1. CASE Q[j][1] = "Message-Authenticator"
    BY <1>10, <2>1
  <2>2. CASE Q[j][1] # "Message-Authenticator"
    BY <1>4, <1>7, <1>9, <2>2
  <2> QED BY <2>1, <2>2
<1> QED BY <1>2, <1>4, <1>6, <1>8, <1>11, <1>12

-----------------------------------------------------------------------------
(* Types of attributes *)

\* A is a list of attributes with types in T.
Carries(A, T) == IsSeq(A) /\ \A i \in DOMAIN A : A[i][1] \in T

\* Lists of attributes are joined; the first keeps its places.
LEMMA Joins ==
  ASSUME NEW T, NEW A, NEW B, Carries(A, T), Carries(B, T)
  PROVE  /\ Carries(A \o B, T)
         /\ \A i \in DOMAIN A : i \in DOMAIN (A \o B) /\ (A \o B)[i] = A[i]
<1>1. Joined(A, B, A \o B)
  BY Concat DEF Carries
<1> DEFINE C == A \o B
<1> HIDE DEF C
<1>2. /\ IsSeq(C) /\ \A i \in DOMAIN A : i \in DOMAIN C /\ C[i] = A[i]
      /\ \A i \in DOMAIN C : i \in DOMAIN A \/ (i - Len(A) \in DOMAIN B /\ C[i] = B[i - Len(A)])
  BY <1>1 DEF C, Joined
<1>3. \A i \in DOMAIN C : C[i][1] \in T
  BY <1>2 DEF Carries
<1> QED BY <1>2, <1>3 DEF C, Carries

\* What is not carried is not found.
LEMMA Lacks ==
  ASSUME NEW p, NEW T, NEW t, Carries(p.attributes, T), t \notin T
  PROVE  ~Has(p, t) /\ find_attribute(p, t) = None
<1>1. ~Has(p, t)
  BY DEF Has, Carries
<1> QED BY <1>1, FindNone DEF Carries

\* Lists of up to two attributes.
LEMMA Few ==
  ASSUME NEW T, NEW a, NEW b, a[1] \in T, b[1] \in T
  PROVE  Carries(<<>>, T) /\ Carries(<<a>>, T) /\ Carries(<<a, b>>, T)
<1>1. IsSeq(<<>>) /\ IsSeq(<<a>>) /\ IsSeq(<<a, b>>)
  BY Singles
<1>2. \A i \in DOMAIN <<a>> : <<a>>[i][1] \in T
  OBVIOUS
<1>3. \A i \in DOMAIN <<a, b>> : <<a, b>>[i][1] \in T
  OBVIOUS
<1> QED BY <1>1, <1>2, <1>3 DEF Carries

\* One attribute, or none if it has no value.
LEMMA One ==
  ASSUME NEW t, NEW v, NEW T, t \in T
  PROVE  /\ Carries(<<<<t, v>>>>, T)
         /\ Carries(Optional(t, v), T)
         /\ Carries(Optional(t, None), {})
         /\ Carries(<<>>, {})
<1> DEFINE a == <<t, v>>
<1>1. a[1] = t
  OBVIOUS
<1> HIDE DEF a
<1>2. Carries(<<a>>, T) /\ Carries(<<>>, T)
  BY <1>1, Few
<1>3. Carries(<<>>, {})
  BY Singles DEF Carries
<1> QED BY <1>2, <1>3 DEF Optional, a

\* r is a packet with the attributes A in their places, and with others only of
\* a Message-Authenticator.
SealedFrom(r, c, i, a, A, T) ==
  /\ r.code = c /\ r.identifier = i /\ r.authenticator = a
  /\ Carries(r.attributes, T \cup {"Message-Authenticator"})
  /\ \A j \in DOMAIN A : j \in DOMAIN r.attributes
  /\ \A j \in DOMAIN A : A[j][1] # "Message-Authenticator" => r.attributes[j] = A[j]

\* Sealing adds a Message-Authenticator at most, and leaves the other
\* attributes in their places.
LEMMA SealedCarries ==
  ASSUME NEW c, NEW i, NEW a, NEW A, NEW secret, NEW T, Carries(A, T)
  PROVE  SealedFrom(seal_message_authenticator(Packet(c, i, a, A), secret), c, i, a, A, T)
<1> DEFINE r == seal_message_authenticator(Packet(c, i, a, A), secret)
<1>1. IsSeq(A)
  BY DEF Carries
<1>2. /\ r.code = c /\ r.identifier = i /\ r.authenticator = a
      /\ IsSeq(r.attributes)
      /\ \A j \in DOMAIN A : j \in DOMAIN r.attributes
      /\ \A j \in DOMAIN A : A[j][1] # "Message-Authenticator" =>
           r.attributes[j] = A[j]
      /\ \A j \in DOMAIN r.attributes :
           \/ r.attributes[j][1] = "Message-Authenticator"
           \/ j \in DOMAIN A /\ r.attributes[j] = A[j]
  BY <1>1, Sealed
<1> HIDE DEF r
<1>3. \A j \in DOMAIN r.attributes :
        r.attributes[j][1] \in T \cup {"Message-Authenticator"}
  BY <1>2 DEF Carries
<1> QED BY <1>2, <1>3 DEF r, Carries, SealedFrom

\* One attribute, or one that may be missing.
LEMMA FindSingle ==
  ASSUME NEW t, NEW v, NEW u, NEW p, NEW q,
         p.attributes = <<<<t, v>>>>, q.attributes = Optional(t, v)
  PROVE  /\ IsSeq(p.attributes) /\ IsSeq(q.attributes)
         /\ Has(p, u) <=> u = t
         /\ find_attribute(p, u) = IF u = t THEN v ELSE None
         /\ Has(q, u) <=> u = t /\ v # None
         /\ find_attribute(q, u) = IF u = t THEN v ELSE None
<1> DEFINE a == <<t, v>>
<1>1. a[1] = t /\ a[2] = v
  OBVIOUS
<1> HIDE DEF a
<1>2. ASSUME NEW r, r.attributes = <<a>>
      PROVE  /\ IsSeq(r.attributes) /\ (Has(r, u) <=> u = t)
             /\ find_attribute(r, u) = IF u = t THEN v ELSE None
  <2>1. IsSeq(<<a>>) /\ DOMAIN <<a>> = 1..1 /\ <<a>>[1] = a
    BY Singles
  <2>2. Has(r, u) <=> u = t
    BY <1>1, <1>2, <2>1 DEF Has
  <2>3. CASE u = t
    <3>1. 1 \in DOMAIN r.attributes /\ r.attributes[1][1] = u /\ r.attributes[1][2] = v
      BY <1>1, <1>2, <2>1, <2>3
    <3>2. \A j \in 1..(1 - 1) : r.attributes[j][1] # u
      OBVIOUS
    <3>3. IsSeq(r.attributes)
      BY <1>2, <2>1
    <3>4. find_attribute(r, u) = r.attributes[1][2]
      BY <3>1, <3>2, <3>3, FindFirst
    <3> QED BY <2>2, <2>3, <3>1, <3>3, <3>4
  <2>4. CASE u # t
    <3>1. IsSeq(r.attributes) /\ ~Has(r, u)
      BY <1>2, <2>1, <2>2, <2>4
    <3> QED BY <2>2, <2>4, <3>1, FindNone
  <2> QED BY <2>3, <2>4
<1>3. ASSUME NEW r, r.attributes = <<>>
      PROVE  IsSeq(r.attributes) /\ ~Has(r, u) /\ find_attribute(r, u) = None
  <2>1. IsSeq(r.attributes) /\ ~Has(r, u)
    BY <1>3, Singles DEF Has
  <2> QED BY <2>1, FindNone
<1>4. p.attributes = <<a>> /\ q.attributes = IF v = None THEN <<>> ELSE <<a>>
  BY DEF a, Optional
<1>5. CASE v = None
  BY <1>2, <1>3, <1>4, <1>5
<1>6. CASE v # None
  BY <1>2, <1>4, <1>6
<1> QED BY <1>5, <1>6

\* Sealing changes nothing that is found, except the Message-Authenticator.
LEMMA FindSealed ==
  ASSUME NEW c, NEW i, NEW a, NEW A, NEW secret, NEW t, IsSeq(A),
         t # "Message-Authenticator"
  PROVE  find_attribute(seal_message_authenticator(Packet(c, i, a, A), secret), t) =
           find_attribute(Packet(c, i, a, A), t)
<1> DEFINE p == Packet(c, i, a, A)
           r == seal_message_authenticator(p, secret)
           R == r.attributes
<1>1. /\ IsSeq(R) /\ \A j \in DOMAIN A : j \in DOMAIN R
      /\ \A j \in DOMAIN A : A[j][1] # "Message-Authenticator" => R[j] = A[j]
      /\ \A j \in DOMAIN R : \/ R[j][1] = "Message-Authenticator"
                             \/ j \in DOMAIN A /\ R[j] = A[j]
  BY Sealed
<1>2. p.attributes = A
  BY PacketFields
<1>3. r.attributes = R
  OBVIOUS
<1> HIDE DEF p, r, R
<1>4. DOMAIN A = 1..Len(A) /\ Len(A) \in Nat
  BY IsSeqDef
<1>5. CASE Has(p, t)
  <2> DEFINE I == {j \in DOMAIN A : A[j][1] = t}
  <2>1. I # {} /\ I \subseteq Nat
    BY <1>2, <1>4, <1>5 DEF Has
  <2>2. PICK m \in I : \A k \in I : ~(k < m)
    BY <2>1, Smallest
  <2>3. m \in DOMAIN A /\ A[m][1] = t /\ \A j \in 1..(m - 1) : j \in DOMAIN A /\ A[j][1] # t
    BY <1>4, <2>2
  <2>4. find_attribute(p, t) = A[m][2]
    BY <1>2, <2>3, FindFirst
  <2>5. m \in DOMAIN R /\ R[m] = A[m]
    BY <1>1, <2>3
  <2>6. \A j \in 1..(m - 1) : R[j][1] # t
    BY <1>1, <2>3
  <2>7. find_attribute(r, t) = R[m][2]
    BY <1>1, <1>3, <2>3, <2>5, <2>6, FindFirst
  <2> QED BY <2>4, <2>5, <2>7 DEF p, r
<1>6. CASE ~Has(p, t)
  <2>1. ~Has(r, t)
    BY <1>1, <1>2, <1>3, <1>6 DEF Has
  <2>2. find_attribute(p, t) = None /\ find_attribute(r, t) = None
    BY <1>1, <1>2, <1>3, <1>6, <2>1, FindNone
  <2> QED BY <2>2 DEF p, r
<1> QED BY <1>5, <1>6

-----------------------------------------------------------------------------
(* Reassembly *)

\* w is what reassemble has gathered after each attribute of p.
Gathers(w, p) ==
  w = [i \in 0..Len(p.attributes) |->
        IF i = 0 THEN <<>>
        ELSE IF p.attributes[i][1] = "EAP-Message" THEN w[i - 1] \o p.attributes[i][2]
        ELSE w[i - 1]]

\* What has the form of what reassemble gathers is what it gathers: an induction
\* over the attributes.
LEMMA Gathered ==
  ASSUME NEW p, Len(p.attributes) \in Nat, NEW w, Gathers(w, p)
  PROVE  reassemble(p) = w[Len(p.attributes)]
<1> DEFINE n == Len(p.attributes)
           u == CHOOSE f : Gathers(f, p)
<1>1. reassemble(p) = u[n]
  BY DEF reassemble, Gathers
<1>2. Gathers(u, p)
  BY DEF u
<1> HIDE DEF u
<1>3. ASSUME NEW f, Gathers(f, p), NEW i \in 0..n
      PROVE  f[i] = IF i = 0 THEN <<>>
                    ELSE IF p.attributes[i][1] = "EAP-Message"
                         THEN f[i - 1] \o p.attributes[i][2] ELSE f[i - 1]
  <2> DEFINE g == [j \in 0..n |->
                     IF j = 0 THEN <<>>
                     ELSE IF p.attributes[j][1] = "EAP-Message"
                          THEN f[j - 1] \o p.attributes[j][2] ELSE f[j - 1]]
  <2>1. f = g
    BY <1>3, Zenon DEF Gathers
  <2>2. g[i] = IF i = 0 THEN <<>>
               ELSE IF p.attributes[i][1] = "EAP-Message"
                    THEN f[i - 1] \o p.attributes[i][2] ELSE f[i - 1]
    BY Zenon
  <2> QED BY <2>1, <2>2, Zenon
<1> DEFINE T == {i \in 0..n : u[i] # w[i]}
<1>4. CASE T # {}
  <2>1. T \subseteq Nat
    OBVIOUS
  <2> HIDE DEF T
  <2>2. PICK m \in T : \A k \in T : ~(k < m)
    BY <1>4, <2>1, Smallest
  <2>3. m \in 0..n /\ u[m] # w[m] /\ \A k \in 0..n : u[k] # w[k] => ~(k < m)
    BY <2>2 DEF T
  <2>4. m # 0
    BY <1>2, <1>3, <2>3
  <2>5. m - 1 \in 0..n /\ m - 1 < m
    BY <2>3, <2>4
  <2>6. u[m - 1] = w[m - 1]
    BY <2>3, <2>5
  <2> HIDE DEF n
  <2>7. u[m] = w[m]
    <3>1. u[m] = IF p.attributes[m][1] = "EAP-Message"
                 THEN u[m - 1] \o p.attributes[m][2] ELSE u[m - 1]
      BY <1>2, <1>3, <2>3, <2>4, Zenon
    <3>2. w[m] = IF p.attributes[m][1] = "EAP-Message"
                 THEN w[m - 1] \o p.attributes[m][2] ELSE w[m - 1]
      BY <1>3, <2>3, <2>4, Zenon
    <3> QED BY <2>6, <3>1, <3>2, Zenon
  <2> QED BY <2>3, <2>7
<1> QED BY <1>1, <1>4

\* A sequence cut in two.
LEMMA Adjacent ==
  ASSUME NEW S, NEW s \in Seq(S), NEW x \in 0..Len(s), NEW y \in x..Len(s)
  PROVE  SubSeq(s, 1, x) \o SubSeq(s, x + 1, y) = SubSeq(s, 1, y)
  OBVIOUS

\* The attributes F are pieces of eap, cut at c.
CutUp(F, eap, c) ==
  /\ IsSeq(F) /\ c \in [0..Len(F) -> 0..Len(eap)] /\ c[0] = 0 /\ c[Len(F)] = Len(eap)
  /\ \A i \in 1..Len(F) : c[i - 1] <= c[i]
  /\ \A i \in 1..Len(F) : /\ F[i][1] = "EAP-Message"
                          /\ F[i][2] = SubSeq(eap, c[i - 1] + 1, c[i])

\* How many pieces of k it takes, and where they are.
LEMMA Division ==
  ASSUME NEW l \in Nat, NEW k \in Nat \ {0}
  PROVE  LET n == (l + k - 1) \div k
         IN  /\ n \in Nat /\ n * k >= l /\ (l = 0 => n = 0)
             /\ \A i \in 0..n : i * k \in Nat /\ (i < n => i * k <= l)
             /\ \A i \in 1..n : (i - 1) * k <= i * k
<1> DEFINE n == (l + k - 1) \div k
           d == (l + k - 1) % k
<1>1. n \in Nat /\ d \in Nat /\ d < k /\ l + k - 1 = n * k + d
  OBVIOUS
<1> HIDE DEF n, d
<1>2. \A i \in 0..n : i * k \in Nat
  BY <1>1
<1>3. n * k >= l
  BY <1>1, <1>2
<1>4. ASSUME NEW i \in 0..n, i < n PROVE i * k <= l
  <2>1. n - 1 - i \in Nat
    BY <1>1, <1>4
  <2>2. (n - 1 - i) * k \in Nat
    BY <2>1
  <2>3. (n - 1 - i) * k = n * k - k - i * k
    BY <1>1
  <2> QED BY <1>1, <1>2, <2>2, <2>3
<1>5. ASSUME NEW i \in 1..n PROVE (i - 1) * k <= i * k
  <2>1. (i - 1) * k = i * k - k
    BY <1>1
  <2>2. i * k \in Nat
    BY <1>2
  <2> QED BY <2>1, <2>2
<1>6. l = 0 => n = 0
  <2>1. SUFFICES ASSUME l = 0, n # 0 PROVE FALSE
    OBVIOUS
  <2>2. n * k = k + (n - 1) * k /\ (n - 1) * k \in Nat
    <3>1. n - 1 \in Nat
      BY <1>1, <2>1
    <3>2. n * k = k + (n - 1) * k
      BY <1>1
    <3> QED BY <3>1, <3>2
  <2> QED BY <1>1, <2>1, <2>2
<1> QED BY <1>1, <1>2, <1>3, <1>4, <1>5, <1>6 DEF n

\* fragment_into cuts the packet up.
LEMMA FragmentCuts ==
  ASSUME NEW S, NEW eap \in Seq(S)
  PROVE  \E c : CutUp(fragment_into(eap), eap, c)
<1> DEFINE k == MAX_ATTR_VALUE
           l == Len(eap)
           n == (l + k - 1) \div k
           chunk(i) == SubSeq(eap, (i - 1) * k + 1, IF i = n THEN l ELSE i * k)
           F == [i \in 1..n |-> <<"EAP-Message", chunk(i)>>]
           c == [i \in 0..n |-> IF i = n THEN l ELSE i * k]
<1>1. fragment_into(eap) = F
  BY DEF fragment_into
<1>2. k \in Nat \ {0} /\ l \in Nat
  BY RadiusAssumption
<1>3. /\ n \in Nat /\ (l = 0 => n = 0) /\ n * k >= l
      /\ \A i \in 0..n : i * k \in Nat /\ (i < n => i * k <= l)
      /\ \A i \in 1..n : (i - 1) * k <= i * k
  BY <1>2, Division
<1> HIDE DEF n, k, l
<1>4. IsSeq(F) /\ Len(F) = n
  <2> HIDE DEF chunk
  <2>0. n \in Nat
    BY <1>3
  <2>1. F \in Seq({F[i] : i \in 1..n})
    BY <2>0
  <2>2. Len(F) = n
    BY <2>0
  <2> HIDE DEF F
  <2> QED BY <2>1, <2>2, SeqIs
<1>5. c \in [0..n -> 0..l] /\ c[n] = l
  BY <1>2, <1>3
<1>6. c[0] = 0
  <2>1. n = 0 => l = 0
    BY <1>2, <1>3
  <2>2. 0 * k = 0
    BY <1>2
  <2> QED BY <1>3, <2>1, <2>2
<1>7. ASSUME NEW i \in 1..n
      PROVE  /\ c[i - 1] = (i - 1) * k /\ c[i - 1] <= c[i]
             /\ F[i][1] = "EAP-Message" /\ F[i][2] = SubSeq(eap, c[i - 1] + 1, c[i])
  <2>1. i - 1 \in 0..n /\ i - 1 # n /\ i - 1 < n /\ i \in 0..n
    BY <1>3
  <2>2. c[i - 1] = (i - 1) * k /\ c[i] = IF i = n THEN l ELSE i * k
    BY <2>1
  <2>3. c[i - 1] <= c[i]
    BY <1>3, <2>1, <2>2
  <2>4. chunk(i) = SubSeq(eap, c[i - 1] + 1, c[i])
    BY <2>2
  <2> HIDE DEF c, chunk
  <2>5. F[i][1] = "EAP-Message" /\ F[i][2] = chunk(i)
    OBVIOUS
  <2> HIDE DEF F
  <2> QED BY <2>2, <2>3, <2>4, <2>5
<1>8. CutUp(F, eap, c)
  <2> HIDE DEF F, c
  <2> QED BY <1>4, <1>5, <1>6, <1>7 DEF CutUp, l
<1> HIDE DEF F, c
<1> QED BY <1>1, <1>8

\* The attributes of p after the first b are k pieces of eap, cut at c; no other
\* is an EAP-Message.
Pieces(p, eap, b, k, c) ==
  /\ b \in Nat /\ k \in Nat /\ Len(p.attributes) \in Nat /\ b + k <= Len(p.attributes)
  /\ c \in [0..k -> 0..Len(eap)] /\ c[0] = 0 /\ c[k] = Len(eap)
  /\ \A i \in 1..k : c[i - 1] <= c[i]
  /\ \A i \in 1..k : /\ p.attributes[b + i][1] = "EAP-Message"
                     /\ p.attributes[b + i][2] = SubSeq(eap, c[i - 1] + 1, c[i])
  /\ \A j \in 1..Len(p.attributes) :
       j <= b \/ j > b + k => p.attributes[j][1] # "EAP-Message"

\* Pieces in order come back together, whatever is before and after them.
LEMMA PiecesReassemble ==
  ASSUME NEW S, NEW eap \in Seq(S), NEW p, NEW b, NEW k, NEW c,
         Pieces(p, eap, b, k, c)
  PROVE  reassemble(p) = eap
<1> DEFINE n == Len(p.attributes)
           cut(i) == IF i <= b THEN 0 ELSE IF i <= b + k THEN c[i - b] ELSE Len(eap)
           w == [i \in 0..n |-> SubSeq(eap, 1, cut(i))]
           v == [i \in 0..n |->
                  IF i = 0 THEN <<>>
                  ELSE IF p.attributes[i][1] = "EAP-Message" THEN w[i - 1] \o p.attributes[i][2]
                  ELSE w[i - 1]]
<1>0. n \in Nat /\ b \in Nat /\ k \in Nat /\ b + k <= n /\ Len(eap) \in Nat
  BY DEF Pieces
<1>1. SubSeq(eap, 1, 0) = <<>> /\ SubSeq(eap, 1, Len(eap)) = eap
  OBVIOUS
<1>2. cut(0) = 0 /\ cut(n) = Len(eap)
  <2>1. n <= b => k = 0 /\ Len(eap) = 0
    BY <1>0 DEF Pieces
  <2>2. n > b /\ n <= b + k => c[n - b] = Len(eap)
    <3>1. n <= b + k => n - b = k
      BY <1>0
    <3> HIDE DEF n
    <3> QED BY <3>1 DEF Pieces
  <2> HIDE DEF n
  <2> QED BY <1>0, <2>1, <2>2
<1>3. ASSUME NEW i \in 1..n
      PROVE  SubSeq(eap, 1, cut(i)) =
               IF p.attributes[i][1] = "EAP-Message"
               THEN SubSeq(eap, 1, cut(i - 1)) \o p.attributes[i][2]
               ELSE SubSeq(eap, 1, cut(i - 1))
  <2>1. CASE i <= b
    <3>1. p.attributes[i][1] # "EAP-Message"
      BY <2>1 DEF Pieces
    <3>2. cut(i) = 0 /\ cut(i - 1) = 0
      BY <1>0, <2>1
    <3> HIDE DEF cut
    <3> QED BY <3>1, <3>2
  <2>2. CASE i > b /\ i <= b + k
    <3> DEFINE j == i - b
    <3>1. j \in 1..k /\ b + j = i /\ j - 1 \in 0..k /\ j \in 0..k
      BY <1>0, <2>2
    <3>2. /\ p.attributes[i][1] = "EAP-Message"
          /\ p.attributes[i][2] = SubSeq(eap, c[j - 1] + 1, c[j])
      BY <3>1 DEF Pieces
    <3>3. /\ c[j - 1] \in 0..Len(eap) /\ c[j] \in 0..Len(eap) /\ c[j - 1] <= c[j]
          /\ c[0] = 0
      BY <3>1 DEF Pieces
    <3>4. cut(i) = c[j] /\ cut(i - 1) = c[j - 1]
      BY <1>0, <2>2, <3>3
    <3>5. SubSeq(eap, 1, c[j - 1]) \o SubSeq(eap, c[j - 1] + 1, c[j]) = SubSeq(eap, 1, c[j])
      <4>1. c[j] \in c[j - 1]..Len(eap)
        BY <3>3
      <4> HIDE DEF j
      <4> QED BY <3>3, <4>1, Adjacent
    <3> HIDE DEF cut, j
    <3> QED BY <3>2, <3>4, <3>5
  <2>3. CASE i > b + k
    <3>1. p.attributes[i][1] # "EAP-Message"
      BY <2>3 DEF Pieces
    <3>2. cut(i) = Len(eap)
      BY <1>0, <2>3
    <3>3. cut(i - 1) = Len(eap)
      <4>1. CASE i - 1 > b + k
        BY <1>0, <4>1
      <4>2. CASE i - 1 = b + k /\ k > 0
        BY <1>0, <4>2 DEF Pieces
      <4>3. CASE i - 1 = b + k /\ k = 0
        BY <1>0, <4>3 DEF Pieces
      <4> QED BY <1>0, <2>3, <4>1, <4>2, <4>3
    <3> HIDE DEF cut
    <3> QED BY <3>1, <3>2, <3>3
  <2>4. i <= b \/ (i > b /\ i <= b + k) \/ i > b + k
    BY <1>0
  <2> HIDE DEF cut
  <2> QED BY <2>1, <2>2, <2>3, <2>4
<1> HIDE DEF cut
<1>4. ASSUME NEW i \in 0..n PROVE w[i] = v[i]
  <2>1. CASE i = 0
    BY <1>1, <1>2, <2>1
  <2>2. CASE i # 0
    <3>1. i \in 1..n /\ i - 1 \in 0..n
      BY <1>0, <2>2
    <3>2. w[i] = SubSeq(eap, 1, cut(i)) /\ w[i - 1] = SubSeq(eap, 1, cut(i - 1))
      BY <3>1
    <3>3. v[i] = IF p.attributes[i][1] = "EAP-Message" THEN w[i - 1] \o p.attributes[i][2]
                 ELSE w[i - 1]
      BY <2>2, Zenon
    <3> HIDE DEF w, v
    <3> QED BY <1>3, <3>1, <3>2, <3>3
  <2> QED BY <2>1, <2>2
<1>5. w = v
  <2> HIDE DEF n
  <2>1. \A i \in 0..n : SubSeq(eap, 1, cut(i)) = v[i]
    BY <1>4
  <2>2. w = [i \in 0..n |-> v[i]]
    BY <2>1
  <2>3. v = [i \in 0..n |-> v[i]]
    OBVIOUS
  <2> HIDE DEF w, v
  <2> QED BY <2>2, <2>3
<1>6. Gathers(w, p)
  BY <1>5, Zenon DEF Gathers
<1>7. w[n] = SubSeq(eap, 1, cut(n))
  <2>1. n \in 0..n
    BY <1>0
  <2> HIDE DEF n
  <2> QED BY <2>1
<1> HIDE DEF w
<1> QED BY <1>0, <1>1, <1>2, <1>6, <1>7, Gathered

\* A packet cut up after other attributes comes back together, also if further
\* attributes were added at the end.
LEMMA JoinedReassembles ==
  ASSUME NEW S, NEW eap \in Seq(S), NEW A, NEW F, NEW c, NEW p,
         IsSeq(A), \A i \in DOMAIN A : A[i][1] # "EAP-Message",
         CutUp(F, eap, c), IsSeq(p.attributes),
         \A j \in DOMAIN (A \o F) : j \in DOMAIN p.attributes /\ p.attributes[j] = (A \o F)[j],
         \A j \in DOMAIN p.attributes :
           j \in DOMAIN (A \o F) \/ p.attributes[j][1] # "EAP-Message"
  PROVE  reassemble(p) = eap
<1> DEFINE C == A \o F
           b == Len(A)
           k == Len(F)
           D == p.attributes
           n == Len(D)
<1>1. Joined(A, F, C) /\ IsSeq(F)
  BY Concat DEF CutUp
<1>2. /\ b \in Nat /\ k \in Nat /\ n \in Nat
      /\ DOMAIN A = 1..b /\ DOMAIN F = 1..k /\ DOMAIN D = 1..n
  BY <1>1, IsSeqDef
<1>3. IsSeq(C) /\ Len(C) = b + k /\ DOMAIN C = 1..(b + k)
  BY <1>1, IsSeqDef DEF Joined
<1>4. /\ \A i \in 1..b : C[i] = A[i]
      /\ \A i \in 1..k : b + i \in 1..(b + k) /\ C[b + i] = F[i]
  BY <1>1, <1>2, <1>3 DEF Joined
<1>5. /\ \A j \in 1..(b + k) : j \in 1..n /\ D[j] = C[j]
      /\ \A j \in 1..n : j \in 1..(b + k) \/ D[j][1] # "EAP-Message"
  BY <1>2, <1>3
<1> HIDE DEF C, D, b, k, n
<1>6. b + k <= n
  <2>1. CASE b + k = 0
    BY <1>2, <2>1
  <2>2. CASE b + k # 0
    <3>1. b + k \in 1..(b + k)
      BY <1>2, <2>2
    <3> QED BY <1>2, <1>5, <3>1
  <2> QED BY <2>1, <2>2
<1>7. ASSUME NEW i \in 1..k
      PROVE  D[b + i][1] = "EAP-Message" /\ D[b + i][2] = SubSeq(eap, c[i - 1] + 1, c[i])
  <2>1. D[b + i] = F[i]
    BY <1>4, <1>5
  <2> QED BY <2>1 DEF CutUp, k
<1>8. ASSUME NEW j \in 1..n, j <= b \/ j > b + k PROVE D[j][1] # "EAP-Message"
  <2>1. CASE j <= b
    <3>1. j \in 1..b /\ j \in 1..(b + k)
      BY <1>2, <2>1
    <3>2. D[j] = A[j]
      BY <1>4, <1>5, <3>1
    <3> QED BY <1>2, <3>1, <3>2
  <2>2. CASE j > b + k
    BY <1>2, <1>5, <2>2
  <2> QED BY <1>8, <2>1, <2>2
<1>9. /\ c \in [0..k -> 0..Len(eap)] /\ c[0] = 0 /\ c[k] = Len(eap)
      /\ \A i \in 1..k : c[i - 1] <= c[i]
  BY DEF CutUp, k
<1>10. Pieces(p, eap, b, k, c)
  BY <1>2, <1>6, <1>7, <1>8, <1>9 DEF Pieces, D, n
<1> QED BY <1>10, PiecesReassemble

-----------------------------------------------------------------------------
(* Requests *)

\* An EAP request that can be built names the identity it was given, or nobody,
\* and the supplicant's address; it is no accounting request, and the EAP packet
\* comes back from it octet for octet, however long it is.
LEMMA EapRequest ==
  ASSUME NEW mac, NEW i, NEW a, NEW identity, NEW state, NEW secret,
         NEW S, NEW eap \in Seq(S),
         access_request_eap(mac, i, a, identity, state, eap, secret).ok
  PROVE  LET r == access_request_eap(mac, i, a, identity, state, eap, secret).val
         IN  /\ r.code = "AccessRequest" /\ r.identifier = i /\ r.authenticator = a
             /\ find_attribute(r, "User-Name") = identity
             /\ find_attribute(r, "Acct-Status-Type") = None
             /\ find_attribute(r, "Calling-Station-Id") = mac
             /\ reassemble(r) = eap
<1> DEFINE P(X) == Packet("AccessRequest", i, a, X)
           N == Optional("User-Name", identity)
           Y == <<<<"Service-Type", "Framed">>>>
           O == Optional("State", state)
           M == append_nas_attributes(mac)
           F == fragment_into(eap)
           H == N \o Y \o O \o M
           A == H \o F
           r == seal_message_authenticator(P(A), secret)
<1>1. access_request_eap(mac, i, a, identity, state, eap, secret).val = r
  BY DEF access_request_eap, Ok, Err
<1>2. PICK c : CutUp(F, eap, c)
  BY FragmentCuts
<1>3. IsSeq(F) /\ DOMAIN F = 1..Len(F) /\ \A j \in DOMAIN F : F[j][1] = "EAP-Message"
  <2>1. IsSeq(F)
    BY <1>2 DEF CutUp
  <2> QED BY <1>2, <2>1, IsSeqDef DEF CutUp
<1>4. \A X : P(X).attributes = X
  BY PacketFields
<1>5. ASSUME NEW u
      PROVE  /\ IsSeq(N) /\ IsSeq(Y) /\ IsSeq(O) /\ IsSeq(M)
             /\ Has(P(N), u) <=> u = "User-Name" /\ identity # None
             /\ find_attribute(P(N), u) = IF u = "User-Name" THEN identity ELSE None
             /\ Has(P(Y), u) <=> u = "Service-Type"
             /\ Has(P(O), u) <=> u = "State" /\ state # None
             /\ Has(P(M), u) <=> u = "Calling-Station-Id"
             /\ find_attribute(P(M), u) = IF u = "Calling-Station-Id" THEN mac ELSE None
  <2>1. \A t, v : P(<<<<t, v>>>>).attributes = <<<<t, v>>>> /\ P(Optional(t, v)).attributes = Optional(t, v)
    BY <1>4
  <2>2. M = <<<<"Calling-Station-Id", mac>>>>
    BY DEF append_nas_attributes
  <2> HIDE DEF P
  <2>3. ASSUME NEW t, NEW v
        PROVE  /\ IsSeq(<<<<t, v>>>>) /\ IsSeq(Optional(t, v))
               /\ Has(P(<<<<t, v>>>>), u) <=> u = t
               /\ find_attribute(P(<<<<t, v>>>>), u) = IF u = t THEN v ELSE None
               /\ Has(P(Optional(t, v)), u) <=> u = t /\ v # None
               /\ find_attribute(P(Optional(t, v)), u) = IF u = t THEN v ELSE None
    BY <2>1, FindSingle
  <2>4. /\ IsSeq(N) /\ (Has(P(N), u) <=> u = "User-Name" /\ identity # None)
        /\ find_attribute(P(N), u) = IF u = "User-Name" THEN identity ELSE None
    BY <2>3
  <2>5. IsSeq(Y) /\ (Has(P(Y), u) <=> u = "Service-Type")
    BY <2>3
  <2>6. IsSeq(O) /\ (Has(P(O), u) <=> u = "State" /\ state # None)
    BY <2>3
  <2>7. /\ IsSeq(M) /\ (Has(P(M), u) <=> u = "Calling-Station-Id")
        /\ find_attribute(P(M), u) = IF u = "Calling-Station-Id" THEN mac ELSE None
    BY <2>2, <2>3
  <2> QED BY <2>4, <2>5, <2>6, <2>7
<1>6. ASSUME NEW u, u # "EAP-Message"
      PROVE  ~Has(P(F), u) /\ find_attribute(P(F), u) = None
  <2>1. ~Has(P(F), u)
    BY <1>3, <1>4, <1>6 DEF Has
  <2> HIDE DEF P, F
  <2> QED BY <1>3, <1>4, <2>1, FindNone
<1>7. \A B, C : IsSeq(B) /\ IsSeq(C) => IsSeq(B \o C)
  BY Concat DEF Joined
<1> HIDE DEF P, N, Y, O, M, F
<1>8. ASSUME NEW B, NEW C, IsSeq(B), IsSeq(C), NEW u
      PROVE  /\ find_attribute(P(B \o C), u) = IF Has(P(B), u) THEN find_attribute(P(B), u)
                                               ELSE find_attribute(P(C), u)
             /\ Has(P(B \o C), u) <=> Has(P(B), u) \/ Has(P(C), u)
  <2>1. P(B).attributes = B /\ P(C).attributes = C /\ P(B \o C).attributes = B \o C
    BY <1>4
  <2> DEFINE p == P(B)
             q == P(C)
             v == P(B \o C)
  <2> HIDE DEF p, q, v
  <2>2. p.attributes = B /\ q.attributes = C /\ v.attributes = B \o C
    BY <2>1 DEF p, q, v
  <2>3. /\ find_attribute(v, u) = IF Has(p, u) THEN find_attribute(p, u)
                                  ELSE find_attribute(q, u)
        /\ Has(v, u) <=> Has(p, u) \/ Has(q, u)
    BY <1>8, <2>2, FindJoined
  <2> QED BY <2>3 DEF p, q, v
<1>9. IsSeq(N) /\ IsSeq(Y) /\ IsSeq(O) /\ IsSeq(M)
  BY <1>5
<1>10. IsSeq(N \o Y) /\ IsSeq(N \o Y \o O) /\ IsSeq(H) /\ IsSeq(A)
  BY <1>3, <1>7, <1>9
<1>11. ASSUME NEW u, u \in {"User-Name", "Calling-Station-Id", "Acct-Status-Type", "EAP-Message"}
       PROVE  /\ Has(P(H), u) <=> \/ u = "User-Name" /\ identity # None
                                  \/ u = "Calling-Station-Id"
              /\ find_attribute(P(H), u) = IF u = "User-Name" THEN identity
                                           ELSE IF u = "Calling-Station-Id" THEN mac ELSE None
  <2>1. /\ Has(P(N), u) <=> u = "User-Name" /\ identity # None
        /\ find_attribute(P(N), u) = IF u = "User-Name" THEN identity ELSE None
        /\ ~Has(P(Y), u) /\ ~Has(P(O), u)
        /\ Has(P(M), u) <=> u = "Calling-Station-Id"
        /\ find_attribute(P(M), u) = IF u = "Calling-Station-Id" THEN mac ELSE None
    BY <1>5, <1>11
  <2>2. /\ Has(P(N \o Y), u) <=> Has(P(N), u)
        /\ Has(P(N), u) => find_attribute(P(N \o Y), u) = find_attribute(P(N), u)
    BY <1>8, <1>9, <2>1
  <2>3. /\ Has(P(N \o Y \o O), u) <=> Has(P(N), u)
        /\ Has(P(N), u) => find_attribute(P(N \o Y \o O), u) = find_attribute(P(N), u)
    BY <1>8, <1>9, <1>10, <2>1, <2>2
  <2>4. /\ Has(P(H), u) <=> Has(P(N), u) \/ Has(P(M), u)
        /\ find_attribute(P(H), u) = IF Has(P(N), u) THEN find_attribute(P(N), u)
                                     ELSE find_attribute(P(M), u)
    BY <1>8, <1>9, <1>10, <2>3
  <2> HIDE DEF H
  <2> QED BY <2>1, <2>4
<1> HIDE DEF H
<1>12. ASSUME NEW u, u \in {"User-Name", "Calling-Station-Id", "Acct-Status-Type"}
       PROVE  find_attribute(r, u) = IF u = "User-Name" THEN identity
                                     ELSE IF u = "Calling-Station-Id" THEN mac ELSE None
  <2>1. find_attribute(r, u) = find_attribute(P(A), u)
    <3>1. u # "Message-Authenticator"
      BY <1>12
    <3> QED BY <1>10, <3>1, FindSealed DEF P
  <2>2. find_attribute(P(A), u) = IF Has(P(H), u) THEN find_attribute(P(H), u)
                                  ELSE find_attribute(P(F), u)
    BY <1>3, <1>8, <1>10
  <2>3. find_attribute(P(F), u) = None
    BY <1>6, <1>12
  <2> HIDE DEF A, r
  <2> QED BY <1>11, <1>12, <2>1, <2>2, <2>3
<1>13. reassemble(r) = eap
  <2>1. \A j \in DOMAIN H : H[j][1] # "EAP-Message"
    BY <1>4, <1>11 DEF Has
  <2>2. \A j \in DOMAIN A : j \in DOMAIN H \/ (j - Len(H) \in DOMAIN F /\ A[j] = F[j - Len(H)])
    BY <1>3, <1>10, Concat DEF Joined
  <2>3. \A j \in DOMAIN H : A[j] = H[j]
    BY <1>3, <1>10, Concat DEF Joined
  <2>4. ASSUME NEW j \in DOMAIN A PROVE A[j][1] # "Message-Authenticator"
    <3>1. CASE j \in DOMAIN H
      <4>1. ~Has(P(H), "Message-Authenticator")
        <5> DEFINE u == "Message-Authenticator"
        <5>1. ~Has(P(N), u) /\ ~Has(P(Y), u) /\ ~Has(P(O), u) /\ ~Has(P(M), u)
          BY <1>5
        <5>2. ~Has(P(N \o Y), u)
          BY <1>8, <1>9, <5>1
        <5>3. ~Has(P(N \o Y \o O), u)
          BY <1>8, <1>9, <1>10, <5>1, <5>2
        <5> QED BY <1>8, <1>9, <1>10, <5>1, <5>3 DEF H
      <4> HIDE DEF A
      <4> QED BY <1>4, <2>3, <3>1, <4>1 DEF Has
    <3>2. CASE j \notin DOMAIN H
      <4> HIDE DEF A
      <4> QED BY <1>3, <2>2, <3>2
    <3> QED BY <3>1, <3>2
  <2> DEFINE R == r.attributes
  <2>5. /\ IsSeq(R) /\ \A j \in DOMAIN A : j \in DOMAIN R
        /\ \A j \in DOMAIN A : A[j][1] # "Message-Authenticator" => R[j] = A[j]
        /\ \A j \in DOMAIN R : \/ R[j][1] = "Message-Authenticator"
                               \/ j \in DOMAIN A /\ R[j] = A[j]
    <3> HIDE DEF A
    <3> QED BY <1>10, Sealed DEF P
  <2>6. r.attributes = R
    OBVIOUS
  <2> HIDE DEF R, r
  <2>7. \A j \in DOMAIN A : j \in DOMAIN R /\ R[j] = A[j]
    <3> HIDE DEF A
    <3> QED BY <2>4, <2>5
  <2>8. \A j \in DOMAIN R : j \in DOMAIN A \/ R[j][1] # "EAP-Message"
    <3> HIDE DEF A
    <3> QED BY <2>5
  <2> QED BY <1>2, <1>10, <2>1, <2>5, <2>6, <2>7, <2>8, JoinedReassembles
<1>14. r.code = "AccessRequest" /\ r.identifier = i /\ r.authenticator = a
  <2> HIDE DEF A
  <2> QED BY <1>10, Sealed DEF P
<1> HIDE DEF r
<1> QED BY <1>1, <1>12, <1>13, <1>14

\* A MAC request carries no EAP and is no accounting request.
LEMMA MabRequest ==
  ASSUME NEW mac, NEW i, NEW a, NEW secret
  PROVE  LET r == access_request_mab(mac, i, a, secret)
         IN  /\ r.code = "AccessRequest" /\ r.identifier = i /\ r.authenticator = a
             /\ ~Has(r, "EAP-Message")
             /\ find_attribute(r, "Acct-Status-Type") = None
<1> DEFINE T == {"User-Name", "Service-Type", "Calling-Station-Id"}
           n == <<"User-Name", mac>>
           s == <<"Service-Type", "Call-Check">>
           A == <<n, s>> \o append_nas_attributes(mac)
           r == access_request_mab(mac, i, a, secret)
<1>1. n[1] \in T /\ s[1] \in T
  OBVIOUS
<1>2. Carries(append_nas_attributes(mac), T)
  BY One DEF append_nas_attributes
<1> HIDE DEF n, s, T
<1>3. Carries(<<n, s>>, T)
  BY <1>1, Few
<1>4. Carries(A, T)
  BY <1>2, <1>3, Joins
<1>5. r = seal_message_authenticator(Packet("AccessRequest", i, a, A), secret)
  BY DEF access_request_mab, n, s
<1> HIDE DEF A, r
<1>6. /\ r.code = "AccessRequest" /\ r.identifier = i /\ r.authenticator = a
      /\ Carries(r.attributes, T \cup {"Message-Authenticator"})
  <2>1. SealedFrom(r, "AccessRequest", i, a, A, T)
    BY <1>4, <1>5, SealedCarries
  <2> QED BY <2>1 DEF SealedFrom
<1>7. /\ "EAP-Message" \notin T \cup {"Message-Authenticator"}
      /\ "Acct-Status-Type" \notin T \cup {"Message-Authenticator"}
  BY DEF T
<1>8. ~Has(r, "EAP-Message") /\ find_attribute(r, "Acct-Status-Type") = None
  BY <1>6, <1>7, Lacks
<1> QED BY <1>6, <1>8 DEF r

\* An accounting request carries its trigger and the Acct-Session-Id it was
\* given, and its authenticator is a hash, never one of an access request.
LEMMA AccountingRequest ==
  ASSUME NEW mac, NEW i, NEW trigger, NEW id, NEW class, NEW secret
  PROVE  LET r == accounting_request(mac, i, trigger, id, class, secret)
         IN  /\ r.code = "AccountingRequest" /\ r.identifier = i
             /\ r.authenticator[1] = "MD5"
             /\ find_attribute(r, "Acct-Status-Type") = trigger
             /\ find_attribute(r, "Acct-Session-Id") = id
<1> DEFINE T == {"Acct-Status-Type", "Acct-Session-Id", "Calling-Station-Id", "Class"}
           t == <<"Acct-Status-Type", trigger>>
           s == <<"Acct-Session-Id", id>>
           B == <<t, s>>
           M == append_nas_attributes(mac)
           C == Optional("Class", class)
           A == B \o M \o C
           p == Packet("AccountingRequest", i, Zero, A)
           h == Hash("MD5", p, Zero, secret)
           r == accounting_request(mac, i, trigger, id, class, secret)
<1>1. /\ t[1] = "Acct-Status-Type" /\ t[2] = trigger
      /\ s[1] = "Acct-Session-Id" /\ s[2] = id
  OBVIOUS
<1>2. Carries(M, T) /\ Carries(C, T)
  BY One DEF append_nas_attributes
<1>3. r = [p EXCEPT !.authenticator = h]
  BY DEF accounting_request
<1>4. h[1] = "MD5"
  BY DEF Hash
<1> HIDE DEF t, s, M, C, h
<1>5. Carries(B, T) /\ DOMAIN B = 1..2 /\ B[1] = t /\ B[2] = s
  <2>1. t[1] \in T /\ s[1] \in T
    BY <1>1
  <2> HIDE DEF T
  <2>2. Carries(B, T)
    BY <2>1, Few
  <2> QED BY <2>2
<1> HIDE DEF B, T
<1>6. Carries(B \o M, T) /\ \A j \in DOMAIN B : j \in DOMAIN (B \o M) /\ (B \o M)[j] = B[j]
  BY <1>2, <1>5, Joins
<1> DEFINE D == B \o M
<1> HIDE DEF D
<1>7. Carries(D \o C, T) /\ \A j \in DOMAIN D : j \in DOMAIN (D \o C) /\ (D \o C)[j] = D[j]
  BY <1>2, <1>6, Joins DEF D
<1>8. A = D \o C
  BY DEF D
<1> HIDE DEF A
<1>9. /\ Carries(A, T) /\ 1 \in DOMAIN A /\ 2 \in DOMAIN A /\ A[1] = t /\ A[2] = s
  <2>1. 1 \in DOMAIN D /\ 2 \in DOMAIN D /\ D[1] = t /\ D[2] = s
    BY <1>5, <1>6 DEF D
  <2> QED BY <1>7, <1>8, <2>1
<1>10. /\ r.code = "AccountingRequest" /\ r.identifier = i /\ r.attributes = A
       /\ r.authenticator = h
  BY <1>3 DEF Packet
<1> HIDE DEF r
<1>11. IsSeq(r.attributes)
  BY <1>9, <1>10 DEF Carries
<1>12. find_attribute(r, "Acct-Status-Type") = r.attributes[1][2]
  <2>1. 1..(1 - 1) = {}
    OBVIOUS
  <2> QED BY <1>1, <1>9, <1>10, <1>11, <2>1, FindFirst
<1>13. find_attribute(r, "Acct-Session-Id") = r.attributes[2][2]
  <2>1. 1..(2 - 1) = {1}
    OBVIOUS
  <2>2. r.attributes[1][1] # "Acct-Session-Id"
    BY <1>1, <1>9, <1>10
  <2> QED BY <1>1, <1>9, <1>10, <1>11, <2>1, <2>2, FindFirst
<1> QED BY <1>1, <1>4, <1>9, <1>10, <1>12, <1>13 DEF r

-----------------------------------------------------------------------------
(* Replies *)

\* The event of a reply that parses is named for the reply's code, one of the
\* three verdicts.
LEMMA ParseType ==
  ASSUME NEW p, parse_reply(p).ok
  PROVE  /\ parse_reply(p).val.type = p.code
         /\ p.code \in {"AccessChallenge", "AccessAccept", "AccessReject"}
  BY DEF parse_reply, Ok, Err

\* A reply is sealed for one Request Authenticator only.
LEMMA SealedForOne ==
  ASSUME NEW p, NEW a, NEW b, NEW secret,
         verify_response_authenticator(p, a, secret),
         verify_response_authenticator(p, b, secret)
  PROVE  a = b
  BY DEF verify_response_authenticator, Hash

\* A is a list of attributes, every Message-Authenticator of which is blank.
Blank(A) ==
  /\ IsSeq(A)
  /\ \A j \in DOMAIN A : A[j][1] = "Message-Authenticator" =>
       A[j] = <<"Message-Authenticator", Zero>>

\* Blanking what was signed gives back what was signed.
LEMMA Resigned ==
  ASSUME NEW c, NEW i, NEW x, NEW y, NEW h, NEW A, Blank(A)
  PROVE  LET B == WithAuthenticator(Packet(c, i, x, A), h).attributes
         IN  WithAuthenticator(Packet(c, i, y, B), Zero) = Packet(c, i, y, A)
<1> DEFINE B == WithAuthenticator(Packet(c, i, x, A), h).attributes
           C == WithAuthenticator(Packet(c, i, y, B), Zero).attributes
<1>1. IsSeq(A)
  BY DEF Blank
<1>2. /\ IsSeq(B) /\ DOMAIN B = DOMAIN A /\ Len(B) = Len(A)
      /\ \A j \in DOMAIN A : B[j] = IF A[j][1] = "Message-Authenticator"
                                    THEN <<A[j][1], h>> ELSE A[j]
  BY <1>1, Signed
<1> HIDE DEF B
<1>3. /\ WithAuthenticator(Packet(c, i, y, B), Zero) = Packet(c, i, y, C)
      /\ IsSeq(C) /\ DOMAIN C = DOMAIN B /\ Len(C) = Len(B)
      /\ \A j \in DOMAIN B : C[j] = IF B[j][1] = "Message-Authenticator"
                                    THEN <<B[j][1], Zero>> ELSE B[j]
  BY <1>2, Signed
<1> HIDE DEF C
<1>4. ASSUME NEW j \in DOMAIN A
      PROVE  C[j] = A[j]
  <2>1. CASE A[j][1] = "Message-Authenticator"
    <3>1. B[j] = <<"Message-Authenticator", h>>
      BY <1>2, <2>1
    <3>2. B[j][1] = "Message-Authenticator"
      BY <3>1
    <3>3. C[j] = <<"Message-Authenticator", Zero>>
      BY <1>2, <1>3, <3>2
    <3> QED BY <2>1, <3>3 DEF Blank
  <2>2. CASE A[j][1] # "Message-Authenticator"
    BY <1>2, <1>3, <2>2
  <2> QED BY <2>1, <2>2
<1>5. C = A
  <2> DEFINE S == {A[j] : j \in DOMAIN A} \cup {C[j] : j \in DOMAIN C}
  <2>1. A \in Seq(S) /\ C \in Seq(S)
    BY <1>1, <1>3 DEF IsSeq
  <2> HIDE DEF S
  <2>2. /\ A = [j \in DOMAIN A |-> A[j]]
        /\ C = [j \in DOMAIN C |-> C[j]]
    BY <2>1
  <2>3. DOMAIN C = DOMAIN A
    BY <1>2, <1>3
  <2> QED BY <1>4, <2>2, <2>3
<1> QED BY <1>3, <1>5 DEF B

\* The first Message-Authenticator of A is at k.
SignatureAt(A, k) ==
  /\ IsSeq(A) /\ k \in DOMAIN A /\ A[k][1] = "Message-Authenticator"
  /\ \A j \in 1..(k - 1) : A[j][1] # "Message-Authenticator"

\* The signature found is the one signed with.
LEMMA SignatureFound ==
  ASSUME NEW c, NEW i, NEW x, NEW y, NEW h, NEW A, NEW k, SignatureAt(A, k)
  PROVE  LET B == WithAuthenticator(Packet(c, i, x, A), h).attributes
             p == Packet(c, i, y, B)
         IN  /\ Has(p, "Message-Authenticator")
             /\ find_attribute(p, "Message-Authenticator") = h
<1> DEFINE B == WithAuthenticator(Packet(c, i, x, A), h).attributes
           p == Packet(c, i, y, B)
<1>0. /\ IsSeq(A) /\ k \in DOMAIN A /\ A[k][1] = "Message-Authenticator"
      /\ \A j \in 1..(k - 1) : A[j][1] # "Message-Authenticator"
  BY DEF SignatureAt
<1>1. /\ IsSeq(B) /\ DOMAIN B = DOMAIN A /\ Len(B) = Len(A)
      /\ \A j \in DOMAIN A : B[j] = IF A[j][1] = "Message-Authenticator"
                                    THEN <<A[j][1], h>> ELSE A[j]
  BY <1>0, Signed
<1>2. p.attributes = B
  BY PacketFields
<1> HIDE DEF B, p
<1>3. B[k] = <<"Message-Authenticator", h>>
  BY <1>0, <1>1
<1>4. B[k][1] = "Message-Authenticator" /\ B[k][2] = h
  BY <1>3
<1>5. \A j \in 1..(k - 1) : B[j][1] # "Message-Authenticator"
  <2>1. Len(A) \in Nat /\ DOMAIN A = 1..Len(A)
    BY <1>0, IsSeqDef
  <2>2. \A j \in 1..(k - 1) : j \in DOMAIN A
    BY <1>0, <2>1
  <2> QED BY <1>0, <1>1, <2>2
<1>6. find_attribute(p, "Message-Authenticator") = B[k][2]
  BY <1>0, <1>1, <1>2, <1>4, <1>5, FindFirst
<1>7. Has(p, "Message-Authenticator")
  BY <1>0, <1>1, <1>2, <1>4 DEF Has
<1> QED BY <1>4, <1>6, <1>7 DEF p, B
=============================================================================
