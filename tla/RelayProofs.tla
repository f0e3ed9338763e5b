---------------------------- MODULE RelayProofs ----------------------------
(***************************************************************************)
(* The invariants of Relay, for EAP packets of any length, any padding,    *)
(* any length of the buffer and of an attribute: what arrives is what was  *)
(* sent, octet for octet, or nothing does.                                 *)
(***************************************************************************)
EXTENDS Relay, RadiusClientProofs, SequenceTheorems

-----------------------------------------------------------------------------
(* Octets *)

\* Sequences with the same elements in the same places are the same.
LEMMA SameSeq ==
  ASSUME NEW s, NEW t, IsSeq(s), IsSeq(t), Len(s) = Len(t),
         \A i \in 1..Len(s) : s[i] = t[i]
  PROVE  s = t
<1> DEFINE S == {s[i] : i \in DOMAIN s} \cup {t[i] : i \in DOMAIN t}
<1>1. s \in Seq(S) /\ t \in Seq(S)
  BY DEF IsSeq
<1> HIDE DEF S
<1> QED BY <1>1

\* What SubSeq cuts out.
LEMMA CutOut ==
  ASSUME NEW s, IsSeq(s), NEW m \in Nat \ {0}, NEW n \in Nat, n <= Len(s), m <= n + 1
  PROVE  /\ IsSeq(SubSeq(s, m, n)) /\ Len(SubSeq(s, m, n)) = n - m + 1
         /\ \A i \in 1..(n - m + 1) : SubSeq(s, m, n)[i] = s[m + i - 1]
<1> DEFINE S == {s[i] : i \in DOMAIN s}
<1>1. s \in Seq(S)
  BY DEF IsSeq
<1> HIDE DEF S
<1>2. /\ SubSeq(s, m, n) \in Seq(S) /\ Len(SubSeq(s, m, n)) = n - m + 1
      /\ \A i \in 1..(n - m + 1) : SubSeq(s, m, n)[i] = s[m + i - 1]
  BY <1>1
<1> QED BY <1>2, SeqIs

\* Two digits are read as the number they were written for.
LEMMA Digits ==
  ASSUME NEW n \in Nat
  PROVE  /\ to_be_bytes(n) = <<n \div Octets, n % Octets>>
         /\ from_be_bytes(n \div Octets, n % Octets) = n
         /\ n \div Octets \in Nat /\ n % Octets \in Nat
  BY PacpAssumption DEF to_be_bytes, from_be_bytes

\* f is a list h of elements, the number n in two digits, a body and what follows it.
LaidOut(f, h, n, body, pad) ==
  /\ IsSeq(f) /\ Len(f) = Len(h) + 2 + Len(body) + Len(pad)
  /\ Len(h) \in Nat /\ Len(body) \in Nat /\ Len(pad) \in Nat
  /\ \A i \in 1..Len(h) : f[i] = h[i]
  /\ f[Len(h) + 1] = n \div Octets /\ f[Len(h) + 2] = n % Octets
  /\ \A i \in 1..Len(body) : f[Len(h) + 2 + i] = body[i]
  /\ \A i \in 1..Len(pad) : f[Len(h) + 2 + Len(body) + i] = pad[i]

\* The parts of a packet are where they were put.
LEMMA Layout ==
  ASSUME NEW h, IsSeq(h), NEW n \in Nat, NEW body, IsSeq(body), NEW pad, IsSeq(pad)
  PROVE  LaidOut(h \o to_be_bytes(n) \o body \o pad, h, n, body, pad)
<1> DEFINE l == Len(h)
           d == to_be_bytes(n)
           f1 == h \o d
           f2 == f1 \o body
           f == f2 \o pad
<1>1. IsSeq(d) /\ Len(d) = 2 /\ d[1] = n \div Octets /\ d[2] = n % Octets /\ DOMAIN d = 1..2
  <2> DEFINE x == n \div Octets
             y == n % Octets
  <2>1. d = <<x, y>>
    BY Digits
  <2> HIDE DEF x, y, d
  <2>2. IsSeq(d) /\ Len(d) = 2 /\ d[1] = x /\ d[2] = y /\ DOMAIN d = 1..2
    BY <2>1, Singles, Zenon
  <2> QED BY <2>2 DEF x, y
<1>2. /\ l \in Nat /\ DOMAIN h = 1..l
      /\ Len(body) \in Nat /\ DOMAIN body = 1..Len(body)
      /\ Len(pad) \in Nat /\ DOMAIN pad = 1..Len(pad)
  BY IsSeqDef
<1> HIDE DEF d
<1>3. Joined(h, d, f1)
  BY <1>1, Concat
<1> HIDE DEF f1
<1>4. Joined(f1, body, f2)
  <2>1. IsSeq(f1)
    BY <1>3 DEF Joined
  <2> QED BY <2>1, Concat
<1> HIDE DEF f2
<1>5. Joined(f2, pad, f)
  <2>1. IsSeq(f2)
    BY <1>4 DEF Joined
  <2> QED BY <2>1, Concat
<1> HIDE DEF f
<1>6. /\ IsSeq(f1) /\ Len(f1) = l + 2 /\ DOMAIN f1 = 1..(l + 2)
      /\ \A i \in 1..l : f1[i] = h[i]
      /\ f1[l + 1] = n \div Octets /\ f1[l + 2] = n % Octets
  BY <1>1, <1>2, <1>3, IsSeqDef DEF Joined
<1>7. /\ IsSeq(f2) /\ Len(f2) = l + 2 + Len(body) /\ DOMAIN f2 = 1..(l + 2 + Len(body))
      /\ \A i \in 1..(l + 2) : f2[i] = f1[i]
      /\ \A i \in 1..Len(body) : f2[l + 2 + i] = body[i]
  BY <1>2, <1>4, <1>6, IsSeqDef DEF Joined
<1>8. /\ IsSeq(f) /\ Len(f) = l + 2 + Len(body) + Len(pad)
      /\ \A i \in 1..(l + 2 + Len(body)) : f[i] = f2[i]
      /\ \A i \in 1..Len(pad) : f[l + 2 + Len(body) + i] = pad[i]
  BY <1>2, <1>5, <1>7 DEF Joined
<1> HIDE DEF l
<1>9. ASSUME NEW i \in 1..(l + 2) PROVE f[i] = f1[i]
  BY <1>2, <1>7, <1>8
<1>10. ASSUME NEW i \in 1..Len(body) PROVE f[l + 2 + i] = body[i]
  <2>1. l + 2 + i \in 1..(l + 2 + Len(body))
    BY <1>2
  <2> QED BY <1>7, <1>8, <2>1
<1>11. /\ \A i \in 1..l : f[i] = h[i]
       /\ f[l + 1] = n \div Octets /\ f[l + 2] = n % Octets
  BY <1>2, <1>6, <1>9
<1>12. LaidOut(f, h, n, body, pad)
  BY <1>2, <1>8, <1>10, <1>11 DEF LaidOut, l
<1> QED BY <1>12 DEF f, f2, f1, d

-----------------------------------------------------------------------------
(* Frames *)

\* What an EAPOL frame looks like.
LEMMA FrameLayout ==
  ASSUME NEW dst, NEW src, NEW type, NEW n \in Nat, NEW body, IsSeq(body),
         NEW pad, IsSeq(pad)
  PROVE  LET f == Eapol(dst, src, type, n, body, pad)
         IN  /\ IsSeq(f) /\ Len(f) = 7 + Len(body) + Len(pad)
             /\ Len(body) \in Nat /\ Len(pad) \in Nat
             /\ f[1] = dst /\ f[2] = src /\ f[3] = ETHERTYPE_EAPOL
             /\ f[4] = PROTOCOL_VERSION_2010 /\ f[5] = type
             /\ f[6] = n \div Octets /\ f[7] = n % Octets
             /\ \A i \in 1..Len(body) : f[7 + i] = body[i]
<1> DEFINE h == <<dst, src, ETHERTYPE_EAPOL, PROTOCOL_VERSION_2010, type>>
           f == Eapol(dst, src, type, n, body, pad)
<1>1. /\ Len(h) = 5 /\ h[1] = dst /\ h[2] = src /\ h[3] = ETHERTYPE_EAPOL
      /\ h[4] = PROTOCOL_VERSION_2010 /\ h[5] = type
  OBVIOUS
<1>2. h \in Seq({dst, src, ETHERTYPE_EAPOL, PROTOCOL_VERSION_2010, type})
  OBVIOUS
<1>3. IsSeq(h)
  BY <1>2, SeqIs
<1>4. f = h \o to_be_bytes(n) \o body \o pad
  BY DEF Eapol
<1> HIDE DEF h, f
<1>5. /\ IsSeq(f) /\ Len(f) = 5 + 2 + Len(body) + Len(pad)
      /\ Len(body) \in Nat /\ Len(pad) \in Nat
      /\ \A i \in 1..5 : f[i] = h[i]
      /\ f[5 + 1] = n \div Octets /\ f[5 + 2] = n % Octets
      /\ \A i \in 1..Len(body) : f[5 + 2 + i] = body[i]
  <2> DEFINE l == Len(h)
  <2>1. /\ IsSeq(f) /\ Len(f) = l + 2 + Len(body) + Len(pad)
        /\ Len(body) \in Nat /\ Len(pad) \in Nat
        /\ \A i \in 1..l : f[i] = h[i]
        /\ f[l + 1] = n \div Octets /\ f[l + 2] = n % Octets
        /\ \A i \in 1..Len(body) : f[l + 2 + i] = body[i]
    <3>1. LaidOut(h \o to_be_bytes(n) \o body \o pad, h, n, body, pad)
      BY <1>3, Layout
    <3>2. LaidOut(f, h, n, body, pad)
      BY <1>4, <3>1
    <3> QED BY <3>2 DEF LaidOut
  <2>2. l = 5
    BY <1>1
  <2> HIDE DEF l
  <2> QED BY <2>1, <2>2
<1>6. /\ f[1] = dst /\ f[2] = src /\ f[3] = ETHERTYPE_EAPOL
      /\ f[4] = PROTOCOL_VERSION_2010 /\ f[5] = type
  BY <1>1, <1>5
<1> QED BY <1>5, <1>6 DEF f

\* The part of a frame that fits the buffer.
Cut(f) == SubSeq(f, 1, IF Len(f) > FRAME_CAP THEN FRAME_CAP ELSE Len(f))

\* What was received, b, decodes exactly if it holds the length n that the frame
\* declares, and to that much of the frame.
Decodes(b, src, type, n, body, pad) ==
  LET d == decode_frame(b)
  IN  /\ Len(b) <= FRAME_CAP
      /\ d.ok <=> 7 + n <= FRAME_CAP /\ n <= Len(body) + Len(pad)
      /\ d.ok => /\ d.val.src = src /\ d.val.packet_type = PacketType(type)
                 /\ IsSeq(d.val.body) /\ Len(d.val.body) = n
                 /\ \A i \in 1..n : i <= Len(body) => d.val.body[i] = body[i]

\* A frame decodes exactly if the length it declares is in the part received.
LEMMA DecodeCut ==
  ASSUME NEW dst, NEW src, NEW type, NEW n \in Nat, NEW body, IsSeq(body),
         NEW pad, IsSeq(pad)
  PROVE  Decodes(Cut(Eapol(dst, src, type, n, body, pad)), src, type, n, body, pad)
<1> DEFINE f == Eapol(dst, src, type, n, body, pad)
           b == Cut(f)
           c == IF Len(f) > FRAME_CAP THEN FRAME_CAP ELSE Len(f)
           e == decode_eapol_frame(b)
           p == e.val.payload
           u == EapolPdu_decode(p)
           d == decode_frame(b)
<1>1. /\ IsSeq(f) /\ Len(f) = 7 + Len(body) + Len(pad)
      /\ Len(body) \in Nat /\ Len(pad) \in Nat
      /\ f[1] = dst /\ f[2] = src /\ f[3] = ETHERTYPE_EAPOL
      /\ f[4] = PROTOCOL_VERSION_2010 /\ f[5] = type
      /\ f[6] = n \div Octets /\ f[7] = n % Octets
      /\ \A i \in 1..Len(body) : f[7 + i] = body[i]
  BY FrameLayout
<1> HIDE DEF f
<1>2. c \in Nat /\ c >= 3 /\ c <= Len(f) /\ c <= FRAME_CAP /\ FRAME_CAP \in Nat
  BY <1>1, RelayAssumption DEF ETHERNET_HEADER_LEN
<1>3. IsSeq(b) /\ Len(b) = c /\ \A i \in 1..c : b[i] = f[i]
  <2>1. b = SubSeq(f, 1, c)
    BY DEF Cut
  <2> HIDE DEF b, c
  <2>2. /\ IsSeq(SubSeq(f, 1, c)) /\ Len(SubSeq(f, 1, c)) = c - 1 + 1
        /\ \A i \in 1..(c - 1 + 1) : SubSeq(f, 1, c)[i] = f[1 + i - 1]
    BY <1>1, <1>2, CutOut
  <2> QED BY <1>2, <2>1, <2>2
<1>4. c >= 7 + n <=> 7 + n <= FRAME_CAP /\ n <= Len(body) + Len(pad)
  BY <1>1, RelayAssumption
<1> HIDE DEF b, c
<1>5. e.ok /\ e.val.src = src /\ p = SubSeq(b, 4, c)
  <2>1. Len(b) >= 3 /\ b[3] = ETHERTYPE_EAPOL /\ b[2] = src
    BY <1>1, <1>2, <1>3
  <2> QED BY <1>3, <2>1 DEF decode_eapol_frame, ETHERNET_HEADER_LEN, Decoded
<1>6. IsSeq(p) /\ Len(p) = c - 3 /\ \A i \in 1..(c - 3) : p[i] = f[3 + i]
  <2>1. /\ IsSeq(SubSeq(b, 4, c)) /\ Len(SubSeq(b, 4, c)) = c - 4 + 1
        /\ \A i \in 1..(c - 4 + 1) : SubSeq(b, 4, c)[i] = b[4 + i - 1]
    BY <1>2, <1>3, CutOut
  <2> HIDE DEF p
  <2>2. ASSUME NEW i \in 1..(c - 3) PROVE p[i] = f[3 + i]
    BY <1>2, <1>3, <1>5, <2>1
  <2> QED BY <1>2, <1>5, <2>1, <2>2
<1>7. d.ok <=> u.ok
  BY <1>5 DEF decode_frame, Decoded, Rejected
<1>8. d.ok => /\ d.val.src = src /\ d.val.packet_type = u.val.packet_type
              /\ d.val.body = u.val.body
  BY <1>5 DEF decode_frame, Decoded, Rejected
<1> HIDE DEF p, d, e
<1>9. CASE c < 7
  <2>1. ~u.ok
    BY <1>2, <1>6, <1>9 DEF EapolPdu_decode, HEADER_LEN, Rejected, Decoded
  <2> QED BY <1>2, <1>3, <1>4, <1>7, <1>9, <2>1 DEF Decodes, d, b, f
<1>10. CASE c >= 7
  <2>1. p[2] = type /\ p[3] = n \div Octets /\ p[4] = n % Octets
    BY <1>1, <1>2, <1>6, <1>10
  <2>2. from_be_bytes(p[3], p[4]) = n
    BY <2>1, Digits
  <2>3. /\ u.ok <=> 4 + n <= c - 3
        /\ u.ok => /\ u.val.packet_type = PacketType(type)
                   /\ u.val.body = SubSeq(p, 5, 4 + n)
    BY <1>2, <1>6, <1>10, <2>1, <2>2 DEF EapolPdu_decode, HEADER_LEN, Rejected, Decoded
  <2> HIDE DEF u
  <2>4. ASSUME u.ok
        PROVE  /\ IsSeq(u.val.body) /\ Len(u.val.body) = n
               /\ \A i \in 1..n : i <= Len(body) => u.val.body[i] = body[i]
    <3>1. /\ IsSeq(SubSeq(p, 5, 4 + n)) /\ Len(SubSeq(p, 5, 4 + n)) = (4 + n) - 5 + 1
          /\ \A i \in 1..((4 + n) - 5 + 1) : SubSeq(p, 5, 4 + n)[i] = p[5 + i - 1]
      BY <1>2, <1>6, <2>3, <2>4, CutOut
    <3> DEFINE v == u.val.body
    <3>3. v = SubSeq(p, 5, 4 + n)
      BY <2>3, <2>4
    <3> HIDE DEF v
    <3>4. (4 + n) - 5 + 1 = n /\ \A i \in 1..n : 5 + i - 1 = 4 + i
      OBVIOUS
    <3>5. IsSeq(v) /\ Len(v) = n /\ \A i \in 1..n : v[i] = p[4 + i]
      BY <3>1, <3>3, <3>4
    <3>2. ASSUME NEW i \in 1..n, i <= Len(body) PROVE v[i] = body[i]
      <4>1. v[i] = p[4 + i]
        BY <3>5
      <4>2. p[4 + i] = f[7 + i]
        BY <1>2, <1>6, <2>3, <2>4
      <4> QED BY <1>1, <3>2, <4>1, <4>2
    <3> QED BY <3>2, <3>5 DEF v
  <2>5. u.ok <=> c >= 7 + n
    BY <1>2, <2>3
  <2> QED BY <1>2, <1>3, <1>4, <1>7, <1>8, <2>3, <2>4, <2>5 DEF Decodes, d, b, f
<1> QED BY <1>2, <1>9, <1>10

\* Contents and paddings are sequences of octets.
LEMMA OctetSeqs ==
  ASSUME NEW c, c \in Contents \/ c \in Paddings
  PROVE  c \in Seq(Nat) /\ IsSeq(c) /\ Len(c) \in Nat
<1>1. c \in Seq(0..(Octets - 1))
  BY RelayAssumption
<1>2. c \in Seq(Nat)
  BY <1>1, PacpAssumption
<1> QED BY <1>2, SeqIs

\* x looks like an EAP packet that declares the length l.
LooksLike(x, code, l, content) ==
  /\ x \in Seq(Nat) /\ IsSeq(x) /\ Len(x) = 4 + Len(content) /\ x # <<>>
  /\ x[1] = code /\ from_be_bytes(x[3], x[4]) = l

\* What an EAP packet looks like.
LEMMA EapLayout ==
  ASSUME NEW code \in Nat, NEW l \in Nat, NEW content \in Seq(Nat)
  PROVE  LooksLike(Eap(code, l, content), code, l, content)
<1> DEFINE x == Eap(code, l, content)
           a == l \div Octets
           b == l % Octets
           h == <<code, 0>> \o <<a, b>>
<1>1. x = h \o content
  BY Digits DEF Eap
<1>2. a \in Nat /\ b \in Nat /\ from_be_bytes(a, b) = l
  BY Digits
<1> HIDE DEF a, b, x
<1>3. /\ h \in Seq(Nat) /\ Len(h) = 4
      /\ h[1] = code /\ h[2] = 0 /\ h[3] = a /\ h[4] = b
  BY <1>2
<1> HIDE DEF h
<1>4. /\ x \in Seq(Nat) /\ Len(x) = 4 + Len(content)
      /\ \A i \in 1..4 : x[i] = h[i]
      /\ \A i \in 1..Len(content) : x[4 + i] = content[i]
  <2>1. x \in Seq(Nat)
    BY <1>1, <1>3
  <2>2. IsSeq(h) /\ IsSeq(content)
    BY <1>3, SeqIs
  <2>3. Joined(h, content, x)
    BY <1>1, <2>2, Concat
  <2>4. DOMAIN h = 1..4 /\ DOMAIN content = 1..Len(content)
    BY <1>3
  <2> QED BY <1>3, <2>1, <2>3, <2>4 DEF Joined
<1>5. x[1] = code /\ x[2] = 0 /\ x[3] = a /\ x[4] = b
  BY <1>3, <1>4
<1>6. x # <<>>
  BY <1>4
<1>7. IsSeq(x)
  BY <1>4, SeqIs
<1> QED BY <1>2, <1>4, <1>5, <1>6, <1>7 DEF LooksLike, x

\* The frame f is one that m sends, and eap the EAP packet it is made of, or <<>>.
SentEap(m, f, eap) ==
  \E code \in 1..5, content \in Contents, e \in Errors, pad \in Paddings :
    LET n == EAP_HEADER_LEN + Len(content)
    IN  \E l \in Off(n, e[1]), k \in Off(n, e[2]) :
          /\ f = Eapol("PAE", m, 0, k, Eap(code, l, content), pad)
          /\ eap = IF e = <<0, 0>> /\ IsEap(code, content) THEN Eap(code, l, content) ELSE <<>>

SentOther(m, f, eap) ==
  \E type \in 1..3, content \in Contents, k \in {0, 1}, pad \in Paddings :
    f = Eapol("PAE", m, type, Len(content) + k, content, pad) /\ eap = <<>>

Sent(m, f, eap) == SentEap(m, f, eap) \/ SentOther(m, f, eap)

\* What the worker makes of the frame b it received, made of eap: a packet it relays
\* is eap and none other, and only what does not fit the buffer is lost.
ReadAs(b, m, eap) ==
  LET d == decode_frame(b)
      e == EapPacket_decode(d.val.body)
      taken == d.ok /\ d.val.packet_type = "Eap"
  IN  /\ Len(b) <= FRAME_CAP
      /\ d.ok => d.val.src = m
      /\ taken /\ e.ok =>
           /\ eap \in Seq(Nat) /\ eap # <<>> /\ d.val.body = eap
           /\ e.val.code = "Response" => Len(eap) >= 5 /\ eap[1] = 2
      /\ eap # <<>> => /\ eap \in Seq(Nat)
                       /\ ~d.ok \/ (taken /\ ~e.ok) => 7 + Len(eap) > FRAME_CAP

\* A frame that is no EAP packet is never taken for one.
LEMMA OtherRead ==
  ASSUME NEW m, NEW f, NEW eap, SentOther(m, f, eap)
  PROVE  ReadAs(Cut(f), m, eap)
<1>1. PICK type \in 1..3, content \in Contents, k \in {0, 1}, pad \in Paddings :
        f = Eapol("PAE", m, type, Len(content) + k, content, pad) /\ eap = <<>>
  BY DEF SentOther
<1> DEFINE n == Len(content) + k
           d == decode_frame(Cut(f))
<1>2. IsSeq(content) /\ IsSeq(pad) /\ n \in Nat
  BY OctetSeqs
<1> HIDE DEF n
<1>3. /\ Len(Cut(f)) <= FRAME_CAP
      /\ d.ok => d.val.src = m /\ d.val.packet_type = PacketType(type)
  <2>1. Decodes(Cut(f), m, type, n, content, pad)
    BY <1>1, <1>2, DecodeCut DEF n
  <2> QED BY <2>1 DEF Decodes
<1>4. PacketType(type) # "Eap"
  BY DEF PacketType
<1> QED BY <1>1, <1>3, <1>4 DEF ReadAs

\* An EAP packet is taken exactly if all three lengths agree and fit its code.
LEMMA EapRead ==
  ASSUME NEW m, NEW f, NEW eap, SentEap(m, f, eap)
  PROVE  ReadAs(Cut(f), m, eap)
<1>1. PICK code \in 1..5, content \in Contents, e \in Errors, pad \in Paddings :
        LET n == EAP_HEADER_LEN + Len(content)
        IN  \E l \in Off(n, e[1]), k \in Off(n, e[2]) :
              /\ f = Eapol("PAE", m, 0, k, Eap(code, l, content), pad)
              /\ eap = IF e = <<0, 0>> /\ IsEap(code, content) THEN Eap(code, l, content)
                       ELSE <<>>
  BY DEF SentEap
<1> DEFINE n == 4 + Len(content)
           good == e = <<0, 0>> /\ IsEap(code, content)
<1>2. PICK l \in Off(n, e[1]), k \in Off(n, e[2]) :
        /\ f = Eapol("PAE", m, 0, k, Eap(code, l, content), pad)
        /\ eap = IF good THEN Eap(code, l, content) ELSE <<>>
  BY <1>1 DEF EAP_HEADER_LEN
<1>3. content \in Seq(Nat) /\ Len(content) \in Nat /\ IsSeq(pad) /\ Len(pad) \in Nat
  BY OctetSeqs
<1>4. l \in Nat /\ k \in Nat /\ (l = k <=> e = <<0, 0>>) /\ (e = <<0, 0>> => l = n /\ k = n)
  <2>1. e = <<0, 0>> \/ e = <<1, 0>> \/ e = <<0, 1>>
    BY DEF Errors
  <2>2. n \in Nat /\ n > 0
    BY <1>3
  <2> HIDE DEF n
  <2>3. CASE e = <<0, 0>>
    <3>1. e[1] = 0 /\ e[2] = 0
      BY <2>3
    <3> QED BY <2>2, <2>3, <3>1 DEF Off
  <2>4. CASE e = <<1, 0>>
    <3>1. e[1] = 1 /\ e[2] = 0 /\ e # <<0, 0>>
      BY <2>4
    <3> QED BY <2>2, <3>1 DEF Off
  <2>5. CASE e = <<0, 1>>
    <3>1. e[1] = 0 /\ e[2] = 1 /\ e # <<0, 0>>
      BY <2>5
    <3> QED BY <2>2, <3>1 DEF Off
  <2> QED BY <2>1, <2>3, <2>4, <2>5
<1> DEFINE x == Eap(code, l, content)
           d == decode_frame(Cut(f))
           y == d.val.body
           r == EapPacket_decode(y)
<1>5. /\ x \in Seq(Nat) /\ IsSeq(x) /\ Len(x) = n /\ x # <<>> /\ x[1] = code
      /\ from_be_bytes(x[3], x[4]) = l
  <2>1. code \in Nat
    OBVIOUS
  <2>2. LooksLike(x, code, l, content)
    BY <1>3, <1>4, <2>1, EapLayout
  <2> QED BY <2>2 DEF LooksLike
<1> HIDE DEF x
<1>6. /\ Len(Cut(f)) <= FRAME_CAP
      /\ d.ok <=> 7 + k <= FRAME_CAP /\ k <= n + Len(pad)
      /\ d.ok => /\ d.val.src = m /\ d.val.packet_type = PacketType(0)
                 /\ IsSeq(y) /\ Len(y) = k
                 /\ \A i \in 1..k : i <= n => y[i] = x[i]
  <2>1. f = Eapol("PAE", m, 0, k, x, pad)
    BY <1>2 DEF x
  <2>2. Decodes(Cut(f), m, 0, k, x, pad)
    BY <1>3, <1>4, <1>5, <2>1, DecodeCut
  <2> QED BY <1>5, <2>2 DEF Decodes
<1>7. PacketType(0) = "Eap"
  BY DEF PacketType
<1> HIDE DEF d
<1>8. ASSUME d.ok, Len(y) >= 4
      PROVE  y[1] = code /\ from_be_bytes(y[3], y[4]) = l
  <2>1. y[1] = x[1] /\ y[3] = x[3] /\ y[4] = x[4]
    BY <1>3, <1>4, <1>6, <1>8
  <2> QED BY <1>5, <2>1
<1>9. ASSUME d.ok, e = <<0, 0>> PROVE y = x /\ Len(y) = n /\ n >= 4
  <2>1. k = n /\ Len(y) = Len(x)
    BY <1>4, <1>5, <1>6, <1>9
  <2>2. \A i \in 1..Len(y) : y[i] = x[i]
    BY <1>3, <1>6, <1>9, <2>1
  <2>3. y = x
    BY <1>5, <1>6, <1>9, <2>1, <2>2, SameSeq
  <2>4. Len(y) = n /\ n >= 4
    BY <1>3, <1>5, <2>1
  <2> QED BY <2>3, <2>4
<1>10. /\ EapCode(code) \in {"Request", "Response"} <=> code \in {1, 2}
       /\ EapCode(code) \in {"Success", "Failure"} <=> code \in {3, 4}
       /\ EapCode(code) = "Response" <=> code = 2
  BY DEF EapCode
<1>11. IsEap(code, content) <=> /\ code \in {1, 2} => n >= 5
                                /\ code \in {3, 4} => n = 4
  <2>1. content = <<>> <=> n = 4
    BY <1>3
  <2>2. n >= 4
    BY <1>3
  <2> HIDE DEF n
  <2>3. content # <<>> <=> n >= 5
    BY <1>3, <2>1, <2>2 DEF n
  <2> QED BY <2>1, <2>3 DEF IsEap
<1> HIDE DEF n
<1>12. ASSUME d.ok, r.ok
       PROVE  good /\ (r.val.code = "Response" => n >= 5 /\ code = 2)
  <2>1. Len(y) >= 4 /\ from_be_bytes(y[3], y[4]) = Len(y)
    BY <1>12 DEF EapPacket_decode, Rejected, EAP_HEADER_LEN
  <2>2. y[1] = code /\ l = Len(y)
    BY <1>8, <1>12, <2>1
  <2>3. e = <<0, 0>> /\ Len(y) = n
    BY <1>4, <1>6, <1>9, <1>12, <2>2
  <2>4. /\ code \in {1, 2} => n >= 5
        /\ code \in {3, 4} => n = 4
        /\ r.val.code = EapCode(code)
    BY <1>10, <1>12, <2>1, <2>2, <2>3
       DEF EapPacket_decode, Rejected, Decoded, EAP_HEADER_LEN, MIN_REQUEST_RESPONSE_LEN
  <2> QED BY <1>10, <1>11, <2>3, <2>4
<1>13. ASSUME d.ok, good PROVE r.ok
  <2>1. y = x /\ Len(y) = n /\ n >= 4 /\ y[1] = code /\ from_be_bytes(y[3], y[4]) = n
    BY <1>4, <1>8, <1>9, <1>13
  <2> HIDE DEF y
  <2> QED BY <1>10, <1>11, <1>13, <2>1
       DEF EapPacket_decode, Decoded, EAP_HEADER_LEN, MIN_REQUEST_RESPONSE_LEN
<1>14. ASSUME d.ok, r.ok
       PROVE  /\ eap = x /\ y = eap
              /\ r.val.code = "Response" => Len(eap) >= 5 /\ eap[1] = 2
  BY <1>2, <1>5, <1>9, <1>12, <1>14 DEF x
<1>15. ASSUME eap # <<>>, ~d.ok \/ ~r.ok
       PROVE  7 + Len(eap) > FRAME_CAP
  <2>1. good /\ eap = x /\ Len(eap) = n /\ k = n
    BY <1>2, <1>4, <1>5, <1>15 DEF x
  <2>2. ~d.ok
    BY <1>13, <1>15, <2>1
  <2>3. n \in Nat /\ FRAME_CAP \in Nat
    BY <1>3, RelayAssumption DEF n
  <2> QED BY <1>3, <1>6, <2>1, <2>2, <2>3
<1>16. eap # <<>> => eap \in Seq(Nat)
  BY <1>2, <1>5 DEF x
<1> HIDE DEF r
<1> QED BY <1>5, <1>6, <1>7, <1>14, <1>15, <1>16 DEF ReadAs, d, r

\* Whatever a supplicant sends, the worker reads it as it was meant or not at all.
LEMMA FrameRead ==
  ASSUME NEW m, NEW f, NEW eap, Sent(m, f, eap)
  PROVE  ReadAs(Cut(f), m, eap)
  BY EapRead, OtherRead DEF Sent

-----------------------------------------------------------------------------
(* Requests *)

\* The Access-Request r carries the response eap of m, and calls m by name.
Carrying(r, m, eap, name) ==
  /\ reassemble(r) = eap /\ find_attribute(r, "Calling-Station-Id") = m
  /\ find_attribute(r, "User-Name") = name
  /\ name # None => /\ Len(name) \in 1..MAX_ATTR_VALUE
                    /\ \A i \in DOMAIN name : name[i] \notin Unprintable

SessionFields ==
  {"next_id", "next_acct_id", "last_state", "user_name", "pending", "class"}

\* s is what is remembered of a supplicant that calls itself name.
Remembers(s, name) ==
  /\ DOMAIN s = SessionFields /\ s.user_name = name
  /\ name \in Seq(Nat) \cup {None}

\* What a supplicant is called once it has sent the response eap.
CalledNow(eap, name) == IF Given(eap) = None THEN name ELSE Given(eap)

\* The identity found in a response is the one it was made of.
LEMMA IdentityGiven ==
  ASSUME NEW eap \in Seq(Nat), Len(eap) >= 5, eap[1] = 2, EapPacket_decode(eap).ok
  PROVE  eap_identity(eap) = Given(eap) /\ Given(eap) \in Seq(Nat) \cup {None}
<1> DEFINE p == EapPacket_decode(eap)
           given == SubSeq(eap, 6, Len(eap))
<1>1. EapCode(eap[1]) = "Response"
  BY DEF EapCode
<1>2. /\ p.val.code = "Response" /\ p.val.eap_type = EapType(eap[5])
      /\ p.val.type_data = given
  BY <1>1 DEF EapPacket_decode, Decoded, Rejected
<1>3. Given(eap) = IF eap[5] = 1 THEN given ELSE None
  BY DEF Given
<1>4. given \in Seq(Nat)
  <2>1. Len(eap) \in Nat
    OBVIOUS
  <2> QED BY <2>1
<1>5. EapType(eap[5]) = "Identity" <=> eap[5] = 1
  BY DEF EapType
<1> HIDE DEF p, given
<1>6. eap_identity(eap) = IF eap[5] = 1 THEN given ELSE None
  BY <1>2, <1>5 DEF eap_identity, has_identity, p
<1> QED BY <1>3, <1>4, <1>6

\* A request that can be built for a response carries it and the name that is
\* remembered from then on.
LEMMA Relayed ==
  ASSUME NEW s, NEW name, Remembers(s, name), NEW m, NEW a,
         NEW eap \in Seq(Nat), Len(eap) >= 5, eap[1] = 2, EapPacket_decode(eap).ok,
         build_eap_request(s, m, eap_identity(eap), eap, a).request.ok
  PROVE  LET b == build_eap_request(s, m, eap_identity(eap), eap, a)
         IN  /\ Carrying(b.request.val, m, eap, CalledNow(eap, name))
             /\ Remembers(b.session, CalledNow(eap, name))
<1> DEFINE id == eap_identity(eap)
           now == CalledNow(eap, name)
           named == IF id # None THEN [s EXCEPT !.user_name = id] ELSE s
           q == access_request_eap(m, s.next_id, a, named.user_name, s.last_state, eap, Secret)
           b == build_eap_request(s, m, id, eap, a)
<1>1. id = Given(eap) /\ Given(eap) \in Seq(Nat) \cup {None}
  BY IdentityGiven
<1>2. now \in Seq(Nat) \cup {None}
  BY <1>1 DEF CalledNow, Remembers
<1>3. b.session = Allocate(named, a) /\ b.request = q
  BY DEF build_eap_request
<1>4. DOMAIN named = SessionFields /\ named.user_name = now
  <2>1. CASE id = None
    BY <1>1, <2>1 DEF CalledNow, Remembers
  <2>2. CASE id # None
    BY <1>1, <2>2 DEF CalledNow, Remembers, SessionFields
  <2> QED BY <2>1, <2>2
<1>5. q.ok
  BY <1>3
<1> HIDE DEF named, now, id, b
<1>6. Remembers(b.session, now)
  <2>1. DOMAIN b.session = SessionFields /\ b.session.user_name = named.user_name
    BY <1>3, <1>4 DEF Allocate, SessionFields
  <2> QED BY <1>2, <1>4, <2>1 DEF Remembers
<1>7. /\ find_attribute(q.val, "User-Name") = now
      /\ find_attribute(q.val, "Calling-Station-Id") = m /\ reassemble(q.val) = eap
  <2> DEFINE n == named.user_name
  <2> HIDE DEF n
  <2>1. /\ find_attribute(q.val, "User-Name") = n
        /\ find_attribute(q.val, "Calling-Station-Id") = m /\ reassemble(q.val) = eap
    BY <1>5, EapRequest DEF n
  <2> QED BY <1>4, <2>1 DEF n
<1>8. now # None => user_name(now).ok
  <2> SUFFICES ASSUME now # None, ~user_name(now).ok PROVE FALSE
    OBVIOUS
  <2>1. q = Err("InvalidUserName")
    BY <1>4 DEF access_request_eap
  <2> HIDE DEF q
  <2> QED BY <1>5, <2>1 DEF Err
<1>9. ASSUME now # None
      PROVE  Len(now) \in 1..MAX_ATTR_VALUE /\ \A i \in DOMAIN now : now[i] \notin Unprintable
  <2>1. now # <<>> /\ ~(Len(now) > MAX_ATTR_VALUE)
    BY <1>8, <1>9 DEF user_name, Err
  <2>2. \A i \in DOMAIN now : now[i] \notin Unprintable
    BY <1>8, <1>9 DEF user_name, Err
  <2>3. now \in Seq(Nat)
    BY <1>2, <1>9
  <2>4. Len(now) \in Nat /\ Len(now) # 0
    BY <2>1, <2>3
  <2>5. Len(now) \in 1..MAX_ATTR_VALUE
    BY <2>1, <2>4, RadiusAssumption
  <2> QED BY <2>2, <2>5
<1> HIDE DEF q
<1>10. Carrying(q.val, m, eap, now)
  BY <1>7, <1>9 DEF Carrying
<1> QED BY <1>3, <1>6, <1>10 DEF b, id, now

-----------------------------------------------------------------------------
(* Frames to the supplicant *)

\* It does not matter which of three sequences are joined first.
Shifts(a, b, c) == (a \o b) \o c = a \o (b \o c)

\* Joining is associative.
LEMMA Associative ==
  ASSUME NEW S, NEW a \in Seq(S), NEW b \in Seq(S), NEW c \in Seq(S)
  PROVE  Shifts(a, b, c)
<1>1. (a \o b) \o c = a \o (b \o c)
  BY ConcatAssociative
<1> QED BY <1>1 DEF Shifts

\* A packet may be put behind its headers one by one or behind both at once.
LEMMA Headers ==
  ASSUME NEW S, NEW a \in Seq(S), NEW b \in Seq(S), NEW c \in Seq(S), NEW d \in Seq(S)
  PROVE  Shifts(a, b \o c, d) /\ Shifts(a, b, c)
<1>1. Shifts(a, b, c)
  BY Associative
<1> DEFINE e == b \o c
<1>2. e \in Seq(S)
  OBVIOUS
<1> HIDE DEF e
<1>3. Shifts(a, e, d)
  BY <1>2, Associative
<1> QED BY <1>1, <1>3 DEF e

\* A frame that can be sent is the one it should be.
LEMMA Encoded ==
  ASSUME NEW eap, IsSeq(eap), NEW dst, NEW src, encode_frame(eap, dst, src).ok
  PROVE  encode_frame(eap, dst, src).val = Eapol(dst, src, 0, Len(eap), eap, <<>>)
<1> DEFINE a == <<dst, src, ETHERTYPE_EAPOL>>
           b == <<PROTOCOL_VERSION_2010, 0>>
           h == <<dst, src, ETHERTYPE_EAPOL, PROTOCOL_VERSION_2010, 0>>
           d == to_be_bytes(Len(eap))
           S == {dst, src, ETHERTYPE_EAPOL, PROTOCOL_VERSION_2010, 0}
                \cup {Len(eap) \div Octets, Len(eap) % Octets} \cup {eap[i] : i \in DOMAIN eap}
<1>1. encode_frame(eap, dst, src).val = a \o (b \o d \o eap)
  <2>1. encode_into(eap).ok
    BY DEF encode_frame, encode_into, Decoded, Rejected
  <2>2. encode_into(eap) = Decoded(b \o d \o eap)
    BY <2>1 DEF encode_into, Rejected
  <2> HIDE DEF a, b, d
  <2>3. encode_frame(eap, dst, src).val = a \o encode_into(eap).val
    BY <2>2 DEF encode_frame, Decoded, a
  <2> QED BY <2>2, <2>3 DEF Decoded
<1>2. eap \in Seq(S)
  BY DEF IsSeq
<1>3. a \in Seq(S) /\ b \in Seq(S) /\ h \in Seq(S)
  OBVIOUS
<1>4. d \in Seq(S)
  BY DEF to_be_bytes
<1>7. a \o b = h
  <2>1. /\ Len(a) = 3 /\ a[1] = dst /\ a[2] = src /\ a[3] = ETHERTYPE_EAPOL
        /\ Len(b) = 2 /\ b[1] = PROTOCOL_VERSION_2010 /\ b[2] = 0
        /\ Len(h) = 5 /\ h[1] = dst /\ h[2] = src /\ h[3] = ETHERTYPE_EAPOL
        /\ h[4] = PROTOCOL_VERSION_2010 /\ h[5] = 0
    OBVIOUS
  <2> HIDE DEF a, b, h, S
  <2>2. /\ a \o b \in Seq(S) /\ Len(a \o b) = 5
        /\ \A i \in 1..3 : (a \o b)[i] = a[i]
        /\ (a \o b)[4] = b[1] /\ (a \o b)[5] = b[2]
    <3>1. Joined(a, b, a \o b) /\ a \o b \in Seq(S)
      BY <1>3, SeqIs, Concat
    <3>2. DOMAIN a = 1..3 /\ DOMAIN b = 1..2
      BY <1>3, <2>1
    <3>3. (a \o b)[3 + 1] = b[1] /\ (a \o b)[3 + 2] = b[2]
      BY <2>1, <3>1, <3>2 DEF Joined
    <3> QED BY <2>1, <3>1, <3>2, <3>3 DEF Joined
  <2>3. \A i \in 1..5 : (a \o b)[i] = h[i]
    BY <2>1, <2>2
  <2> QED BY <1>3, <2>1, <2>2, <2>3, SameSeq, SeqIs
<1> HIDE DEF S, a, b, h, d
<1>5. a \o (b \o d \o eap) = (a \o b) \o d \o eap
  <2>1. Shifts(a, b \o d, eap) /\ Shifts(a, b, d)
    BY <1>2, <1>3, <1>4, Headers
  <2> QED BY <2>1 DEF Shifts
<1>6. h \o d \o eap = h \o d \o eap \o <<>>
  BY <1>2, <1>3, <1>4
<1> QED BY <1>1, <1>5, <1>6, <1>7 DEF Eapol, h, d

-----------------------------------------------------------------------------
(* Answers *)

\* However the server fragments a packet, it is cut up.
LEMMA AnswerCuts ==
  ASSUME NEW eap \in Seq(Nat), NEW F \in Fragments(eap)
  PROVE  \E c : CutUp(F, eap, c)
<1> DEFINE l == Len(eap)
           n(k) == (l + k - 1) \div k
           stop(i, k) == IF i * k > l THEN l ELSE i * k
           chunk(i, k) == SubSeq(eap, (i - 1) * k + 1, stop(i, k))
<1>1. PICK k \in 1..MAX_ATTR_VALUE : F = [i \in 1..n(k) |-> <<"EAP-Message", chunk(i, k)>>]
  BY DEF Fragments
<1> DEFINE N == n(k)
           c == [i \in 0..N |-> stop(i, k)]
<1>2. k \in Nat \ {0} /\ l \in Nat
  BY RadiusAssumption
<1>3. /\ N \in Nat /\ N * k >= l
      /\ \A i \in 0..N : i * k \in Nat /\ (i < N => i * k <= l)
      /\ \A i \in 1..N : (i - 1) * k <= i * k
  BY <1>2, Division
<1>4. F = [i \in 1..N |-> <<"EAP-Message", chunk(i, k)>>]
  BY <1>1
<1> HIDE DEF N, n, l, chunk
<1>5. IsSeq(F) /\ Len(F) = N
  <2>0. N \in Nat
    BY <1>3
  <2>1. F \in Seq({F[i] : i \in 1..N})
    BY <1>4, <2>0, SMTT(30)
  <2>2. Len(F) = N
    BY <1>4, <2>0
  <2> QED BY <2>1, <2>2, SeqIs
<1>6. c \in [0..N -> 0..l] /\ c[N] = l
  BY <1>2, <1>3
<1>7. c[0] = 0
  <2>1. 0 * k = 0
    BY <1>2
  <2> QED BY <1>2, <1>3, <2>1
<1>8. ASSUME NEW i \in 1..N
      PROVE  /\ c[i - 1] <= c[i]
             /\ F[i][1] = "EAP-Message" /\ F[i][2] = SubSeq(eap, c[i - 1] + 1, c[i])
  <2>1. i - 1 \in 0..N /\ i - 1 < N /\ i \in 0..N
    BY <1>3
  <2>2. (i - 1) * k \in Nat /\ i * k \in Nat /\ (i - 1) * k <= l /\ (i - 1) * k <= i * k
    BY <1>3, <2>1
  <2>3. c[i - 1] = (i - 1) * k /\ c[i] = stop(i, k)
    BY <1>2, <2>1, <2>2
  <2>4. c[i - 1] <= c[i]
    BY <1>2, <2>2, <2>3
  <2>5. chunk(i, k) = SubSeq(eap, c[i - 1] + 1, c[i])
    BY <2>3 DEF chunk
  <2> HIDE DEF c
  <2>6. F[i][1] = "EAP-Message" /\ F[i][2] = chunk(i, k)
    BY <1>4
  <2> QED BY <2>4, <2>5, <2>6
<1>9. CutUp(F, eap, c)
  <2> HIDE DEF c
  <2> QED BY <1>5, <1>6, <1>7, <1>8 DEF CutUp, l
<1> HIDE DEF c
<1> QED BY <1>9

\* Looking for an attribute in two lists, one after the other.
LEMMA FindIn ==
  ASSUME NEW code, NEW A, NEW B, IsSeq(A), IsSeq(B), NEW t
  PROVE  LET P(C) == Packet(code, 0, Zero, C)
         IN  /\ IsSeq(A \o B)
             /\ Has(P(A \o B), t) <=> Has(P(A), t) \/ Has(P(B), t)
             /\ find_attribute(P(A \o B), t) = IF Has(P(A), t) THEN find_attribute(P(A), t)
                                               ELSE find_attribute(P(B), t)
<1> DEFINE P(C) == Packet(code, 0, Zero, C)
<1>1. P(A).attributes = A /\ P(B).attributes = B /\ P(A \o B).attributes = A \o B
  BY DEF Packet
<1> HIDE DEF P
<1>2. IsSeq(A \o B)
  BY Concat DEF Joined
<1> DEFINE p == P(A)
           q == P(B)
           r == P(A \o B)
<1> HIDE DEF p, q, r
<1>3. /\ find_attribute(r, t) = IF Has(p, t) THEN find_attribute(p, t) ELSE find_attribute(q, t)
      /\ Has(r, t) <=> Has(p, t) \/ Has(q, t)
  <2>1. p.attributes = A /\ q.attributes = B /\ r.attributes = A \o B
    BY <1>1 DEF p, q, r
  <2> QED BY <2>1, FindJoined
<1> QED BY <1>2, <1>3 DEF p, q, r, P

\* Looking for an attribute in one that may be there.
LEMMA FindOptional ==
  ASSUME NEW code, NEW t, NEW v, NEW u
  PROVE  LET p == Packet(code, 0, Zero, Optional(t, v))
         IN  /\ IsSeq(Optional(t, v)) /\ (Has(p, u) <=> u = t /\ v # None)
             /\ find_attribute(p, u) = IF u = t THEN v ELSE None
<1> DEFINE p == Packet(code, 0, Zero, Optional(t, v))
           q == Packet(code, 0, Zero, <<<<t, v>>>>)
<1>1. p.attributes = Optional(t, v) /\ q.attributes = <<<<t, v>>>>
  BY PacketFields
<1> HIDE DEF p, q
<1>2. /\ IsSeq(p.attributes) /\ (Has(p, u) <=> u = t /\ v # None)
      /\ find_attribute(p, u) = IF u = t THEN v ELSE None
  BY <1>1, FindSingle
<1> QED BY <1>1, <1>2 DEF p

\* The parts of an offer.
LEMMA OfferParts ==
  ASSUME NEW o \in Offers
  PROVE  /\ o.vlan \in Vlans \cup {None, <<>>} /\ o.tag \in {<<>>, <<1>>}
         /\ o.vlan # None => o.vlan \in Seq(Nat)
         /\ o.tag \in Seq(Nat)
<1>1. o.vlan \in Vlans \cup {None, <<>>} /\ o.tag \in {<<>>, <<1>>}
  BY DEF Offers
<1>2. <<>> \in Seq(Nat) /\ <<1>> \in Seq(Nat)
  OBVIOUS
<1>3. Vlans \subseteq Seq(Nat)
  BY RelayAssumption
<1> HIDE DEF Offers
<1>4. o.vlan # None => o.vlan \in Seq(Nat)
  BY <1>1, <1>2, <1>3, Zenon
<1>5. o.tag \in Seq(Nat)
  BY <1>1, <1>2, Zenon
<1> QED BY <1>1, <1>4, <1>5

\* None of the attributes A is of EAP or a signature.
NoEapIn(A) ==
  IsSeq(A) /\ \A i \in DOMAIN A : A[i][1] \notin {"EAP-Message", "Message-Authenticator"}

\* What find_attribute makes of an answer with the attributes of the offer o.
LEMMA Offered ==
  ASSUME NEW o \in Offers, NEW F, Carries(F, {"EAP-Message"})
  PROVE  LET r == Packet("AccessAccept", 0, Zero, Attributes(o) \o F)
         IN  /\ find_attribute(r, "Tunnel-Type") = o.type
             /\ find_attribute(r, "Tunnel-Medium-Type") = o.medium
             /\ find_attribute(r, "Tunnel-Private-Group-ID") =
                  IF o.vlan = None THEN None ELSE o.tag \o o.vlan
             /\ find_attribute(r, "Session-Timeout") = o.timeout
             /\ IsSeq(Attributes(o)) /\ IsSeq(Attributes(o) \o F)
             /\ NoEapIn(Attributes(o))
<1> DEFINE g == IF o.vlan = None THEN None ELSE o.tag \o o.vlan
           A1 == Optional("Tunnel-Type", o.type)
           A2 == Optional("Tunnel-Medium-Type", o.medium)
           A3 == Optional("Tunnel-Private-Group-ID", g)
           A4 == Optional("Session-Timeout", o.timeout)
           P(C) == Packet("AccessAccept", 0, Zero, C)
           r == P(Attributes(o) \o F)
<1>1. Attributes(o) = A1 \o A2 \o A3 \o A4
  <2>1. o.vlan # None => g # None
    <3>1. ASSUME o.vlan # None PROVE o.vlan \in Seq(Nat)
      BY <3>1, OfferParts
    <3>2. o.tag \in Seq(Nat)
      BY OfferParts
    <3>3. o.vlan # None => o.tag \o o.vlan \in Seq(Nat)
      BY <3>1, <3>2
    <3> QED BY <3>3, RelayAssumption
  <2>2. A3 = IF o.vlan = None THEN <<>> ELSE <<<<"Tunnel-Private-Group-ID", o.tag \o o.vlan>>>>
    <3> QED BY <2>1 DEF Optional
  <2> HIDE DEF A1, A2, A3, A4, g
  <2> QED BY <2>2 DEF Attributes, A1, A2, A4
<1>2. IsSeq(F) /\ P(F).attributes = F
  BY PacketFields DEF Carries
<1>3. ASSUME NEW t, t # "EAP-Message" PROVE ~Has(P(F), t) /\ find_attribute(P(F), t) = None
  <2> HIDE DEF P
  <2> QED BY <1>2, <1>3, Lacks
<1>4. ASSUME NEW t
      PROVE  /\ IsSeq(A1) /\ (Has(P(A1), t) <=> t = "Tunnel-Type" /\ o.type # None)
             /\ find_attribute(P(A1), t) = IF t = "Tunnel-Type" THEN o.type ELSE None
             /\ IsSeq(A2) /\ (Has(P(A2), t) <=> t = "Tunnel-Medium-Type" /\ o.medium # None)
             /\ find_attribute(P(A2), t) = IF t = "Tunnel-Medium-Type" THEN o.medium ELSE None
             /\ IsSeq(A3) /\ (Has(P(A3), t) <=> t = "Tunnel-Private-Group-ID" /\ g # None)
             /\ find_attribute(P(A3), t) = IF t = "Tunnel-Private-Group-ID" THEN g ELSE None
             /\ IsSeq(A4) /\ (Has(P(A4), t) <=> t = "Session-Timeout" /\ o.timeout # None)
             /\ find_attribute(P(A4), t) = IF t = "Session-Timeout" THEN o.timeout ELSE None
  <2>1. /\ IsSeq(A1) /\ (Has(P(A1), t) <=> t = "Tunnel-Type" /\ o.type # None)
        /\ find_attribute(P(A1), t) = IF t = "Tunnel-Type" THEN o.type ELSE None
    BY FindOptional
  <2>2. /\ IsSeq(A2) /\ (Has(P(A2), t) <=> t = "Tunnel-Medium-Type" /\ o.medium # None)
        /\ find_attribute(P(A2), t) = IF t = "Tunnel-Medium-Type" THEN o.medium ELSE None
    BY FindOptional
  <2>3. /\ IsSeq(A3) /\ (Has(P(A3), t) <=> t = "Tunnel-Private-Group-ID" /\ g # None)
        /\ find_attribute(P(A3), t) = IF t = "Tunnel-Private-Group-ID" THEN g ELSE None
    <3> HIDE DEF g
    <3> QED BY FindOptional
  <2>4. /\ IsSeq(A4) /\ (Has(P(A4), t) <=> t = "Session-Timeout" /\ o.timeout # None)
        /\ find_attribute(P(A4), t) = IF t = "Session-Timeout" THEN o.timeout ELSE None
    BY FindOptional
  <2> HIDE DEF g, A1, A2, A3, A4, P
  <2> QED BY <2>1, <2>2, <2>3, <2>4
<1> HIDE DEF g, A1, A2, A3, A4
<1>5. ASSUME NEW t
      PROVE  /\ IsSeq(A1 \o A2)
             /\ Has(P(A1 \o A2), t) <=> Has(P(A1), t) \/ Has(P(A2), t)
             /\ find_attribute(P(A1 \o A2), t) =
                  IF Has(P(A1), t) THEN find_attribute(P(A1), t) ELSE find_attribute(P(A2), t)
  BY <1>4, FindIn
<1> DEFINE B == A1 \o A2
<1> HIDE DEF B
<1>6. ASSUME NEW t
      PROVE  /\ IsSeq(B \o A3)
             /\ Has(P(B \o A3), t) <=> Has(P(B), t) \/ Has(P(A3), t)
             /\ find_attribute(P(B \o A3), t) =
                  IF Has(P(B), t) THEN find_attribute(P(B), t) ELSE find_attribute(P(A3), t)
  BY <1>4, <1>5, FindIn DEF B
<1> DEFINE C == B \o A3
<1> HIDE DEF C
<1>7. ASSUME NEW t
      PROVE  /\ IsSeq(C \o A4)
             /\ Has(P(C \o A4), t) <=> Has(P(C), t) \/ Has(P(A4), t)
             /\ find_attribute(P(C \o A4), t) =
                  IF Has(P(C), t) THEN find_attribute(P(C), t) ELSE find_attribute(P(A4), t)
  BY <1>4, <1>6, FindIn DEF C
<1> DEFINE D == C \o A4
<1>8. Attributes(o) = D
  BY <1>1 DEF B, C
<1> HIDE DEF D
<1>9. ASSUME NEW t
      PROVE  /\ IsSeq(D \o F)
             /\ find_attribute(P(D \o F), t) =
                  IF Has(P(D), t) THEN find_attribute(P(D), t) ELSE find_attribute(P(F), t)
  BY <1>2, <1>7, FindIn DEF D
<1>10. P(D).attributes = D
  BY PacketFields
<1> HIDE DEF P
<1>11. ASSUME NEW t, t # "EAP-Message"
       PROVE  find_attribute(P(D \o F), t) =
                CASE t = "Tunnel-Type" -> o.type
                  [] t = "Tunnel-Medium-Type" -> o.medium
                  [] t = "Tunnel-Private-Group-ID" -> g
                  [] t = "Session-Timeout" -> o.timeout
                  [] OTHER -> None
  <2>1. CASE t = "Tunnel-Type"
    BY <1>3, <1>4, <1>5, <1>6, <1>7, <1>9, <2>1 DEF B, C, D
  <2>2. CASE t = "Tunnel-Medium-Type"
    BY <1>3, <1>4, <1>5, <1>6, <1>7, <1>9, <2>2 DEF B, C, D
  <2>3. CASE t = "Tunnel-Private-Group-ID"
    BY <1>3, <1>4, <1>5, <1>6, <1>7, <1>9, <2>3 DEF B, C, D
  <2>4. CASE t = "Session-Timeout"
    BY <1>3, <1>4, <1>5, <1>6, <1>7, <1>9, <2>4 DEF B, C, D
  <2>5. CASE t \notin {"Tunnel-Type", "Tunnel-Medium-Type", "Tunnel-Private-Group-ID",
                       "Session-Timeout"}
    BY <1>3, <1>4, <1>5, <1>6, <1>7, <1>9, <1>11, <2>5 DEF B, C, D
  <2> QED BY <2>1, <2>2, <2>3, <2>4, <2>5
<1>12. ~Has(P(D), "EAP-Message") /\ ~Has(P(D), "Message-Authenticator")
  BY <1>4, <1>5, <1>6, <1>7 DEF B, C, D
<1>13. \A i \in DOMAIN D : D[i][1] \notin {"EAP-Message", "Message-Authenticator"}
  BY <1>10, <1>12 DEF Has
<1>14. IsSeq(D) /\ IsSeq(D \o F)
  BY <1>7, <1>9 DEF D
<1>15. /\ find_attribute(P(D \o F), "Tunnel-Type") = o.type
       /\ find_attribute(P(D \o F), "Tunnel-Medium-Type") = o.medium
       /\ find_attribute(P(D \o F), "Tunnel-Private-Group-ID") = g
       /\ find_attribute(P(D \o F), "Session-Timeout") = o.timeout
  BY <1>11
<1> QED BY <1>8, <1>13, <1>14, <1>15 DEF P, g, NoEapIn

\* A tag is taken off a group, and nothing else.
LEMMA Untagged ==
  ASSUME NEW o \in Offers, o.vlan # None
  PROVE  LET group == o.tag \o o.vlan
         IN  (IF group # <<>> /\ group[1] \in Tags THEN Tail(group) ELSE group) = o.vlan
<1> DEFINE v == o.vlan
           tag == o.tag
<1>0. v \in Vlans \cup {<<>>} /\ tag \in {<<>>, <<1>>}
  BY OfferParts
<1> HIDE DEF v, tag
<1>1. v \in Seq(Nat) /\ (v # <<>> => v[1] \notin Tags)
  <2>1. <<>> \in Seq(Nat)
    OBVIOUS
  <2>2. Vlans \subseteq Seq(Nat) /\ \A x \in Vlans : x[1] \notin Tags
    BY RelayAssumption
  <2> QED BY <1>0, <2>1, <2>2, Zenon
<1>2. CASE tag = <<>>
  BY <1>1, <1>2 DEF v, tag
<1>3. CASE tag = <<1>>
  <2> DEFINE group == tag \o v
  <2>1. group \in Seq(Nat) /\ group # <<>> /\ group[1] = 1 /\ Tail(group) = v
    BY <1>1, <1>3
  <2>2. 1 \in Tags
    BY DEF Tags
  <2> HIDE DEF group
  <2>3. (IF group # <<>> /\ group[1] \in Tags THEN Tail(group) ELSE group) = v
    BY <2>1, <2>2
  <2> QED BY <2>3 DEF group, v, tag
<1> QED BY <1>0, <1>2, <1>3

\* What the authorization g says is what the offer o means.
Means(g, o) ==
  /\ g.vlan = o.vlan /\ (o.vlan # None => Sound(o))
  /\ g.session_timeout = IF o.timeout = None THEN None ELSE o.timeout[1]

\* The attributes of the offer o are found in r.
Found(r, o) ==
  /\ find_attribute(r, "Tunnel-Type") = o.type
  /\ find_attribute(r, "Tunnel-Medium-Type") = o.medium
  /\ find_attribute(r, "Tunnel-Private-Group-ID") = IF o.vlan = None THEN None ELSE o.tag \o o.vlan
  /\ find_attribute(r, "Session-Timeout") = o.timeout

\* An authorization that can be read says what was meant.
LEMMA Granted ==
  ASSUME NEW o \in Offers, NEW r, Found(r, o), parse_authorization(r).ok
  PROVE  Means(parse_authorization(r).val, o)
<1> DEFINE group == find_attribute(r, "Tunnel-Private-Group-ID")
           vlan == IF group = None THEN Ok(None) ELSE parse_vlan(r, group)
           g == parse_authorization(r)
<1>1. /\ find_attribute(r, "Tunnel-Type") = o.type
      /\ find_attribute(r, "Tunnel-Medium-Type") = o.medium
      /\ group = IF o.vlan = None THEN None ELSE o.tag \o o.vlan
      /\ find_attribute(r, "Session-Timeout") = o.timeout
  BY DEF Found
<1>2. g.ok
  OBVIOUS
<1>3. /\ vlan.ok /\ g.val.vlan = vlan.val
      /\ g.val.session_timeout = read_u32(o.timeout)
  BY <1>1, <1>2 DEF parse_authorization, Ok
<1>4. read_u32(o.timeout) = IF o.timeout = None THEN None ELSE o.timeout[1]
  <2>1. o.timeout = None \/ o.timeout = <<7>>
    BY DEF Offers
  <2>2. Len(<<7>>) = 1
    OBVIOUS
  <2> QED BY <2>1, <2>2 DEF read_u32
<1>5. CASE o.vlan = None
  BY <1>1, <1>3, <1>4, <1>5 DEF Means, Ok
<1>6. CASE o.vlan # None
  <2>2. group = o.tag \o o.vlan /\ group # None
    <3>1. o.vlan \in Seq(Nat) /\ o.tag \in Seq(Nat)
      BY <1>6, OfferParts
    <3>2. o.tag \o o.vlan \in Seq(Nat)
      BY <3>1
    <3> QED BY <1>1, <1>6, <3>2, RelayAssumption
  <2> DEFINE untagged == IF group # <<>> /\ group[1] \in Tags THEN Tail(group) ELSE group
  <2>3. untagged = o.vlan
    BY <1>6, <2>2, Untagged
  <2>4. parse_vlan(r, group) = vlan
    BY <2>2
  <2> HIDE DEF group, vlan
  <2>5. /\ read_tagged_u32(o.type) = 13 /\ read_tagged_u32(o.medium) = 6
        /\ untagged # <<>> /\ vlan.val = untagged
    <3> HIDE DEF untagged
    <3> QED BY <1>1, <1>3, <2>4 DEF parse_vlan, Ok, Err, untagged
  <2>6. o.type = <<1, 13>>
    <3>1. None # 13 /\ o.type \in {None, <<1, 13>>, <<1, 9>>, <<13>>}
      BY RelayAssumption DEF Offers
    <3>2. Len(<<13>>) # 2 /\ <<1, 9>>[2] # 13
      OBVIOUS
    <3> QED BY <2>5, <3>1, <3>2 DEF read_tagged_u32
  <2>7. o.medium = <<1, 6>>
    <3>1. None # 6 /\ o.medium \in {None, <<1, 6>>, <<1, 1>>}
      BY RelayAssumption DEF Offers
    <3>2. <<1, 1>>[2] # 6
      OBVIOUS
    <3> QED BY <2>5, <3>1, <3>2 DEF read_tagged_u32
  <2> HIDE DEF untagged
  <2>8. Sound(o)
    <3>1. <<1, 13>> # None /\ <<1, 6>> # None
      <4>1. <<1, 13>> \in Seq(Nat) /\ <<1, 6>> \in Seq(Nat)
        OBVIOUS
      <4> QED BY <4>1, RelayAssumption
    <3> HIDE DEF untagged
    <3> QED BY <2>3, <2>5, <2>6, <2>7, <3>1 DEF Sound
  <2> HIDE DEF untagged
  <2> QED BY <1>3, <1>4, <2>3, <2>5, <2>8 DEF Means
<1> QED BY <1>5, <1>6

\* The attributes with which the server goes along with its EAP packet.
With(code, o, A) ==
  IF code = "AccessAccept" THEN o \in Offers /\ A = Attributes(o)
  ELSE o = None /\ \E state : A = Optional("State", state)

\* The answer p carries the EAP packet eap in fragments and, if it is an
\* Access-Accept, the attributes of the offer o.
Answered(p, eap, o) ==
  \E code \in {"AccessChallenge", "AccessAccept", "AccessReject"}, F \in Fragments(eap) :
    \E A, i, a :
      /\ With(code, o, A) /\ p.code = code
      /\ p.attributes = seal_message_authenticator(Packet(code, i, a, A \o F), Secret).attributes

\* A sealed answer carries what was sealed.
LEMMA SealedAnswer ==
  ASSUME NEW code, NEW i, NEW a, NEW A, NoEapIn(A), NEW eap \in Seq(Nat), NEW F, NEW c,
         CutUp(F, eap, c), NEW p,
         p.attributes = seal_message_authenticator(Packet(code, i, a, A \o F), Secret).attributes
  PROVE  /\ reassemble(p) = eap
         /\ \A t : t # "Message-Authenticator" =>
              find_attribute(p, t) = find_attribute(Packet(code, 0, Zero, A \o F), t)
<1> DEFINE C == A \o F
           r == seal_message_authenticator(Packet(code, i, a, C), Secret)
           R == r.attributes
<1>1. IsSeq(A) /\ \A j \in DOMAIN A : A[j][1] \notin {"EAP-Message", "Message-Authenticator"}
  BY DEF NoEapIn
<1>2. IsSeq(F) /\ \A j \in DOMAIN F : F[j][1] = "EAP-Message"
  <2>1. IsSeq(F)
    BY DEF CutUp
  <2> QED BY <2>1, IsSeqDef DEF CutUp
<1>3. Joined(A, F, C)
  BY <1>1, <1>2, Concat
<1>4. p.attributes = R
  OBVIOUS
<1> HIDE DEF C
<1>5. IsSeq(C) /\ \A j \in DOMAIN C : C[j][1] # "Message-Authenticator"
  <2>1. /\ IsSeq(C) /\ \A j \in DOMAIN A : C[j] = A[j]
        /\ \A j \in DOMAIN C : j \in DOMAIN A \/ (j - Len(A) \in DOMAIN F /\ C[j] = F[j - Len(A)])
    BY <1>3 DEF Joined
  <2> QED BY <1>1, <1>2, <2>1
<1>6. /\ IsSeq(R) /\ \A j \in DOMAIN C : j \in DOMAIN R
      /\ \A j \in DOMAIN C : C[j][1] # "Message-Authenticator" => R[j] = C[j]
      /\ \A j \in DOMAIN R : \/ R[j][1] = "Message-Authenticator"
                             \/ j \in DOMAIN C /\ R[j] = C[j]
  BY <1>5, Sealed
<1>7. ASSUME NEW t, t # "Message-Authenticator"
      PROVE  find_attribute(p, t) = find_attribute(Packet(code, 0, Zero, C), t)
  <2>1. find_attribute(r, t) = find_attribute(Packet(code, i, a, C), t)
    BY <1>5, <1>7, FindSealed
  <2>2. Packet(code, i, a, C).attributes = C /\ Packet(code, 0, Zero, C).attributes = C
    BY PacketFields
  <2> DEFINE x == Packet(code, i, a, C)
             y == Packet(code, 0, Zero, C)
  <2> HIDE DEF x, y, r
  <2>3. find_attribute(x, t) = find_attribute(y, t)
    BY <2>2 DEF find_attribute, x, y
  <2>4. find_attribute(p, t) = find_attribute(r, t)
    BY <1>4 DEF find_attribute
  <2> QED BY <2>1, <2>3, <2>4 DEF x, y
<1> HIDE DEF R
<1>8. reassemble(p) = eap
  <2>1. \A j \in DOMAIN C : j \in DOMAIN p.attributes /\ p.attributes[j] = C[j]
    BY <1>4, <1>5, <1>6
  <2>2. \A j \in DOMAIN p.attributes : j \in DOMAIN C \/ p.attributes[j][1] # "EAP-Message"
    BY <1>4, <1>6
  <2>3. IsSeq(p.attributes) /\ \A j \in DOMAIN A : A[j][1] # "EAP-Message"
    BY <1>1, <1>4, <1>6
  <2> QED BY <1>1, <2>1, <2>2, <2>3, JoinedReassembles DEF C
<1> QED BY <1>7, <1>8 DEF C

\* An answer is read as it was meant: the EAP packet octet for octet, however it was
\* cut up, and the authorization only with a VLAN that is sound.
LEMMA AnswerRead ==
  ASSUME NEW p, NEW eap \in Seq(Nat), NEW o, Answered(p, eap, o), parse_reply(p).ok
  PROVE  LET event == parse_reply(p).val
         IN  /\ event.eap = eap
             /\ event.authorization # None => o \in Offers /\ Means(event.authorization, o)
<1>0. PICK code \in {"AccessChallenge", "AccessAccept", "AccessReject"}, F \in Fragments(eap) :
        \E A, i, a :
          /\ With(code, o, A) /\ p.code = code
          /\ p.attributes =
               seal_message_authenticator(Packet(code, i, a, A \o F), Secret).attributes
  BY DEF Answered
<1>1. PICK A, i, a :
        /\ With(code, o, A) /\ p.code = code
        /\ p.attributes = seal_message_authenticator(Packet(code, i, a, A \o F), Secret).attributes
  BY <1>0
<1>2. PICK c : CutUp(F, eap, c)
  BY AnswerCuts
<1>3. IsSeq(F) /\ DOMAIN F = 1..Len(F)
  BY <1>2, IsSeqDef DEF CutUp
<1>4. Carries(F, {"EAP-Message"})
  BY <1>2, <1>3 DEF CutUp, Carries
<1>5. NoEapIn(A)
  <2>1. CASE code = "AccessAccept"
    BY <1>1, <1>4, <2>1, Offered DEF With
  <2>2. CASE code # "AccessAccept"
    <3>1. PICK state : A = Optional("State", state)
      BY <1>1, <2>2 DEF With
    <3>2. Carries(A, {"State"})
      BY <3>1, One
    <3> QED BY <3>2 DEF Carries, NoEapIn
  <2> QED BY <2>1, <2>2
<1>6. /\ reassemble(p) = eap
      /\ \A t : t # "Message-Authenticator" =>
           find_attribute(p, t) = find_attribute(Packet(code, 0, Zero, A \o F), t)
  BY <1>1, <1>2, <1>5, SealedAnswer
<1>9. parse_reply(p).val.eap = eap
  BY <1>6 DEF parse_reply, Ok, Err
<1>10. ASSUME parse_reply(p).val.authorization # None
       PROVE  /\ code = "AccessAccept" /\ parse_authorization(p).ok
              /\ parse_reply(p).val.authorization = parse_authorization(p).val
  BY <1>1, <1>10 DEF parse_reply, Ok, Err
<1>11. ASSUME parse_reply(p).val.authorization # None
       PROVE  o \in Offers /\ Means(parse_reply(p).val.authorization, o)
  <2>1. o \in Offers /\ A = Attributes(o) /\ code = "AccessAccept"
    BY <1>1, <1>10, <1>11 DEF With
  <2> DEFINE q == Packet("AccessAccept", 0, Zero, Attributes(o) \o F)
  <2>2. Found(q, o)
    BY <1>4, <2>1, Offered DEF Found
  <2> HIDE DEF q
  <2>3. \A t : t # "Message-Authenticator" => find_attribute(p, t) = find_attribute(q, t)
    BY <1>6, <2>1 DEF q
  <2>4. Found(p, o)
    BY <2>2, <2>3 DEF Found
  <2>5. Means(parse_authorization(p).val, o)
    BY <1>10, <1>11, <2>1, <2>4, Granted
  <2> QED BY <1>10, <1>11, <2>1, <2>5
<1> QED BY <1>9, <1>11

-----------------------------------------------------------------------------
(* The invariant *)

\* At most one thing is on its way, and nothing while no worker runs.
OneAtATime ==
  /\ ~alive => frame = None /\ buf = None /\ request = None /\ reply = None /\ out = None
  /\ frame # None => buf = None /\ request = None /\ reply = None /\ out = None
  /\ buf # None => request = None /\ reply = None /\ out = None
  /\ request # None => reply = None /\ out = None
  /\ reply # None => out = None

\* What is on its way is what the last frame or the last answer makes it: the frame
\* was made of `meant`, what recv returned decodes to it, the request carries it,
\* and the answer carries `told` and `offer`.  A session's User-Name is the name its
\* supplicant goes by.
AsMeant ==
  /\ \A m \in Mac : Remembers(session[m], called[m])
  /\ sender = None => meant = <<>> /\ fate = "none" /\ grant = None
  /\ frame # None => sender \in Mac /\ Sent(sender, frame, meant)
  /\ buf # None => sender \in Mac /\ ReadAs(buf, sender, meant)
  /\ request # None => /\ sender \in Mac /\ mac = sender
                       /\ meant # <<>>
                       /\ Carrying(request, sender, meant, called[sender])
  /\ reply # None => sender \in Mac /\ mac = sender /\ Answered(reply, told, offer)
  /\ told \in Seq(Nat)
  /\ frame # None \/ buf # None \/ request # None \/ reply # None => grant = None

RelayInv ==
  /\ RelayTypeOK /\ OneAtATime /\ AsMeant
  /\ WholeFramesArrive /\ DeliveredVerbatim /\ GrantAsMeant

\* At first nothing is on its way.
LEMMA RelayInit_Inv == RelayInit => RelayInv
<1>1. <<>> \in Seq(Nat)
  OBVIOUS
<1>2. Remembers(NewRadiusSession, None)
  BY DEF Remembers, SessionFields, NewRadiusSession
<1> QED BY <1>1, <1>2 DEF RelayInit, RelayInv, RelayTypeOK, OneAtATime, AsMeant,
              WholeFramesArrive, DeliveredVerbatim, GrantAsMeant

\* A supplicant sends a frame while nothing is on its way.
LEMMA Send_Inv ==
  ASSUME RelayInv, Idle, NEW m \in Mac, NEW f, NEW eap, Sent(m, f, eap), Send(m, f, eap)
  PROVE  RelayInv'
<1>0. /\ alive /\ frame = None /\ buf = None /\ request = None /\ reply = None /\ out = None
      /\ sender = None /\ meant = <<>> /\ fate = "none" /\ grant = None
  BY DEF Idle, RelayInv, AsMeant
<1>5. /\ frame' = f /\ sender' = m /\ meant' = eap
      /\ alive' = alive /\ buf' = buf /\ fate' = fate /\ session' = session
      /\ called' = called /\ mac' = mac /\ request' = request /\ reply' = reply
      /\ out' = out /\ told' = told /\ offer' = offer /\ grant' = grant
  BY DEF Send, memory, outward
<1>6. m # None
  BY MacAssumption
<1>1. RelayTypeOK'
  BY <1>0, <1>5 DEF RelayInv, RelayTypeOK
<1>2. OneAtATime'
  BY <1>0, <1>5 DEF OneAtATime
<1>3. AsMeant'
  BY <1>0, <1>5, <1>6 DEF RelayInv, AsMeant
<1>4. (WholeFramesArrive /\ DeliveredVerbatim /\ GrantAsMeant)'
  BY <1>0, <1>5 DEF WholeFramesArrive, DeliveredVerbatim, GrantAsMeant
<1> QED BY <1>1, <1>2, <1>3, <1>4 DEF RelayInv

\* The part of a frame that fits the buffer is received.
LEMMA Recv_Inv ==
  ASSUME RelayInv, recv
  PROVE  RelayInv'
<1>0. /\ alive /\ frame # None /\ buf' = Cut(frame) /\ frame' = None
      /\ UNCHANGED <<alive, sender, meant, fate, memory, mac, request, outward>>
  BY DEF recv, Cut
<1>1. ReadAs(buf', sender, meant) /\ Len(buf') <= FRAME_CAP /\ sender \in Mac /\ grant = None
  <2>1. ReadAs(Cut(frame), sender, meant)
    BY <1>0, FrameRead DEF RelayInv, AsMeant
  <2>2. Len(Cut(frame)) <= FRAME_CAP
    BY <2>1 DEF ReadAs
  <2> QED BY <1>0, <2>1, <2>2 DEF RelayInv, AsMeant
<1>2. RelayTypeOK'
  BY <1>0, <1>1 DEF RelayInv, RelayTypeOK, memory
<1>3. request = None /\ reply = None /\ out = None
  BY <1>0 DEF RelayInv, OneAtATime
<1>4. OneAtATime'
  BY <1>0, <1>3 DEF OneAtATime, outward
<1>5. AsMeant'
  BY <1>0, <1>1, <1>3 DEF RelayInv, AsMeant, memory, outward
<1>6. (WholeFramesArrive /\ DeliveredVerbatim /\ GrantAsMeant)'
  BY <1>0 DEF RelayInv, WholeFramesArrive, DeliveredVerbatim, GrantAsMeant, outward
<1> QED BY <1>2, <1>4, <1>5, <1>6 DEF RelayInv

\* The worker may end whenever nothing was granted that was not meant.
LEMMA End_Inv ==
  ASSUME RelayInv, sender # None, NEW why \in {"identity", "refused", "unsent"}, End(why)
  PROVE  RelayInv'
<1>1. RelayTypeOK'
  BY DEF RelayInv, RelayTypeOK, End
<1>2. OneAtATime'
  BY DEF OneAtATime, End
<1>4. AsMeant'
  <2>1. Remembers(NewRadiusSession, None)
    BY DEF Remembers, SessionFields, NewRadiusSession
  <2> QED BY <2>1 DEF RelayInv, AsMeant, End
<1>3. (WholeFramesArrive /\ DeliveredVerbatim /\ GrantAsMeant)'
  BY DEF RelayInv, End, WholeFramesArrive, DeliveredVerbatim, GrantAsMeant
<1> QED BY <1>1, <1>2, <1>3, <1>4 DEF RelayInv

\* A packet goes to the supplicant that sent the last frame: it arrives as it is.
LEMMA SendEap_Inv ==
  ASSUME RelayInv, NEW m \in Mac, m = sender, NEW eap \in Seq(Nat), eap # <<>>, NEW g,
         NEW s, DOMAIN s = Mac, \A k \in Mac : Remembers(s[k], called[k]),
         send_eap(m, eap, eap, g, s), alive, frame = None, out = None,
         g # None => offer \in Offers /\ Means(g, offer)
  PROVE  RelayInv'
<1> DEFINE f == encode_frame(eap, m, PortMac)
<1>0. sender # None
  BY MacAssumption
<1>1. CASE ~send(f)
  <2>1. End("unsent")
    BY <1>1 DEF send_eap
  <2> QED BY <1>0, <2>1, End_Inv
<1>2. CASE send(f)
  <2>1. /\ out' = f.val /\ mac' = m /\ told' = eap /\ grant' = g
        /\ buf' = None /\ request' = None /\ reply' = None /\ session' = s
        /\ UNCHANGED <<alive, frame, sender, meant, fate, called, offer>>
    BY <1>2 DEF send_eap
  <2>2. f.val = Eapol(m, PortMac, 0, Len(eap), eap, <<>>)
    BY <1>2, Encoded, SeqIs DEF send
  <2> HIDE DEF f
  <2>3. RelayTypeOK'
    BY <2>1 DEF RelayInv, RelayTypeOK
  <2>4. OneAtATime' /\ AsMeant'
    BY <1>0, <2>1 DEF RelayInv, OneAtATime, AsMeant
  <2>5. WholeFramesArrive'
    BY <2>1 DEF RelayInv, WholeFramesArrive
  <2>6. DeliveredVerbatim'
    BY <2>1, <2>2 DEF DeliveredVerbatim
  <2>7. GrantAsMeant'
    BY <2>1 DEF GrantAsMeant, Means
  <2> QED BY <2>3, <2>4, <2>5, <2>6, <2>7 DEF RelayInv
<1> QED BY <1>1, <1>2

\* A frame is passed over: dropped only if it had to be.
LEMMA Done_Inv ==
  ASSUME RelayInv, alive, sender # None, NEW why \in {"dropped", "ignored", "logoff"}, Done(why),
         why = "dropped" /\ meant # <<>> => 7 + Len(meant) > FRAME_CAP
  PROVE  RelayInv'
<1>1. RelayTypeOK'
  BY DEF RelayInv, RelayTypeOK, Done, memory
<1>2. OneAtATime' /\ AsMeant'
  BY DEF RelayInv, OneAtATime, AsMeant, Done, memory, outward
<1>3. WholeFramesArrive'
  BY DEF Done, WholeFramesArrive, ETHERNET_HEADER_LEN, HEADER_LEN
<1>4. DeliveredVerbatim' /\ GrantAsMeant'
  BY DEF RelayInv, Done, DeliveredVerbatim, GrantAsMeant, outward
<1> QED BY <1>1, <1>2, <1>3, <1>4 DEF RelayInv

\* A response is relayed, whole, or ends the worker.
LEMMA ToAuthServer_Inv ==
  ASSUME RelayInv, alive, buf # None, meant \in Seq(Nat), Len(meant) >= 5, meant[1] = 2,
         EapPacket_decode(meant).ok, ToAuthServer(sender, meant)
  PROVE  RelayInv'
<1> DEFINE a == generate_request_authenticator
           b == build_eap_request(session[sender], sender, eap_identity(meant), meant, a)
<1>0. /\ frame = None /\ reply = None /\ out = None /\ grant = None /\ sender \in Mac
      /\ sender # None
  BY MacAssumption DEF RelayInv, OneAtATime, AsMeant
<1>1. CASE ~b.request.ok
  <2>1. End("identity")
    BY <1>1 DEF ToAuthServer
  <2> QED BY <1>0, <2>1, End_Inv
<1>2. CASE b.request.ok
  <2> DEFINE name == CalledNow(meant, called[sender])
  <2>1. /\ request' = b.request.val /\ mac' = sender /\ fate' = "relayed" /\ buf' = None
        /\ session' = [session EXCEPT ![sender] = b.session]
        /\ called' = [called EXCEPT ![sender] = name]
        /\ UNCHANGED <<alive, frame, sender, meant, outward>>
    BY <1>2 DEF ToAuthServer, CalledNow
  <2>2. Carrying(b.request.val, sender, meant, name) /\ Remembers(b.session, name)
    <3>1. Remembers(session[sender], called[sender])
      BY <1>0 DEF RelayInv, AsMeant
    <3> QED BY <1>2, <3>1, Relayed
  <2> HIDE DEF b, name
  <2>3. /\ DOMAIN session = Mac /\ DOMAIN called = Mac
        /\ session'[sender] = b.session /\ called'[sender] = name
        /\ \A m \in Mac : m # sender => session'[m] = session[m] /\ called'[m] = called[m]
    BY <1>0, <2>1 DEF RelayInv, RelayTypeOK
  <2>4. RelayTypeOK'
    BY <1>0, <2>1 DEF RelayInv, RelayTypeOK
  <2>5. OneAtATime'
    BY <1>0, <2>1 DEF OneAtATime, outward
  <2>6. meant # <<>>
    OBVIOUS
  <2>9. \A m \in Mac : Remembers(session'[m], called'[m])
    BY <2>2, <2>3 DEF RelayInv, AsMeant
  <2>7. AsMeant'
    BY <1>0, <2>1, <2>2, <2>3, <2>6, <2>9 DEF RelayInv, AsMeant, outward
  <2>8. (WholeFramesArrive /\ DeliveredVerbatim /\ GrantAsMeant)'
    BY <2>1 DEF RelayInv, WholeFramesArrive, DeliveredVerbatim, GrantAsMeant, outward
  <2> QED BY <2>4, <2>5, <2>7, <2>8 DEF RelayInv
<1> QED BY <1>1, <1>2

\* The frame received is dispatched.
LEMMA DispatchFrame_Inv ==
  ASSUME RelayInv, dispatch_frame
  PROVE  RelayInv'
<1> DEFINE f == decode_frame(buf)
           type == f.val.packet_type
           eap == EapPacket_decode(f.val.body)
<1>1. alive /\ buf # None
  BY DEF dispatch_frame
<1>2. /\ sender \in Mac /\ sender # None /\ ReadAs(buf, sender, meant)
      /\ frame = None /\ out = None
      /\ DOMAIN session = Mac /\ \A m \in Mac : Remembers(session[m], called[m])
  BY <1>1, MacAssumption DEF RelayInv, RelayTypeOK, OneAtATime, AsMeant
<1>3. /\ f.ok => f.val.src = sender
      /\ f.ok /\ type = "Eap" /\ eap.ok =>
           /\ meant \in Seq(Nat) /\ f.val.body = meant
           /\ eap.val.code = "Response" => Len(meant) >= 5 /\ meant[1] = 2
      /\ meant # <<>> /\ (~f.ok \/ (f.ok /\ type = "Eap" /\ ~eap.ok)) =>
           7 + Len(meant) > FRAME_CAP
  BY <1>2 DEF ReadAs
<1>4. \/ ~f.ok /\ Done("dropped")
      \/ f.ok /\ type = "Start"
           /\ send_eap(f.val.src, request_identity(0), Eap(1, 5, <<1>>), None, session)
      \/ f.ok /\ type = "Logoff" /\ Done("logoff")
      \/ f.ok /\ type = "Other" /\ Done("ignored")
      \/ f.ok /\ type = "Eap" /\ ~eap.ok /\ Done("dropped")
      \/ f.ok /\ type = "Eap" /\ eap.ok /\ eap.val.code # "Response" /\ Done("ignored")
      \/ f.ok /\ type = "Eap" /\ eap.ok /\ eap.val.code = "Response"
           /\ ToAuthServer(f.val.src, f.val.body)
  BY DEF dispatch_frame
<1> HIDE DEF f
<1>5. CASE ~f.ok /\ Done("dropped")
  BY <1>1, <1>2, <1>3, <1>5, Done_Inv
<1>6. CASE f.ok /\ send_eap(f.val.src, request_identity(0), Eap(1, 5, <<1>>), None, session)
  <2>1. request_identity(0) = Eap(1, 5, <<1>>)
    BY DEF request_identity, Eap
  <2>2. Eap(1, 5, <<1>>) \in Seq(Nat) /\ Eap(1, 5, <<1>>) # <<>>
    <3>1. 1 \in Nat /\ 5 \in Nat /\ <<1>> \in Seq(Nat)
      OBVIOUS
    <3>2. LooksLike(Eap(1, 5, <<1>>), 1, 5, <<1>>)
      BY <3>1, EapLayout
    <3> QED BY <3>2 DEF LooksLike
  <2>3. send_eap(sender, Eap(1, 5, <<1>>), Eap(1, 5, <<1>>), None, session)
    BY <1>3, <1>6, <2>1
  <2> QED BY <1>1, <1>2, <2>2, <2>3, SendEap_Inv
<1>7. CASE Done("logoff") \/ Done("ignored")
  BY <1>1, <1>2, <1>7, Done_Inv
<1>8. CASE f.ok /\ type = "Eap" /\ ~eap.ok /\ Done("dropped")
  BY <1>1, <1>2, <1>3, <1>8, Done_Inv
<1>9. CASE /\ f.ok /\ type = "Eap" /\ eap.ok /\ eap.val.code = "Response"
           /\ ToAuthServer(f.val.src, f.val.body)
  BY <1>1, <1>3, <1>9, ToAuthServer_Inv
<1> QED BY <1>4, <1>5, <1>6, <1>7, <1>8, <1>9

\* What is remembered of a reply leaves the name alone.
LEMMA ReplyRemembered ==
  ASSUME NEW s, NEW name, Remembers(s, name), NEW p, handle_reply(s, p).ok
  PROVE  LET r == handle_reply(s, p)
         IN  /\ parse_reply(p).ok /\ r.event = parse_reply(p).val
             /\ Remembers(r.session, name)
<1> DEFINE r == handle_reply(s, p)
           event == parse_reply(p)
           accepted == event.ok /\ event.val.type = "AccessAccept"
           kept == IF accepted THEN event.val.authorization.class ELSE s.class
<1>1. event.ok /\ r.event = event.val
  BY DEF handle_reply
<1>2. r.session = [s EXCEPT !.pending = None, !.last_state = extract_state(p), !.class = kept]
  BY DEF handle_reply
<1> HIDE DEF r, event, kept
<1>3. DOMAIN r.session = SessionFields /\ r.session.user_name = s.user_name
  BY <1>2 DEF Remembers, SessionFields
<1>4. Remembers(r.session, name)
  BY <1>3 DEF Remembers
<1> QED BY <1>1, <1>4 DEF r, event

\* The answer is served.
LEMMA ReplyArrives_Inv ==
  ASSUME RelayInv, ReplyArrives
  PROVE  RelayInv'
<1> DEFINE r == handle_reply(session[mac], reply)
           kept == [session EXCEPT ![mac] = r.session]
<1>1. /\ alive /\ reply # None
      /\ IF ~r.ok THEN End("refused")
         ELSE IF r.event.eap # <<>>
         THEN send_eap(mac, r.event.eap, told, r.event.authorization, kept)
         ELSE /\ grant' = r.event.authorization /\ reply' = None /\ session' = kept
              /\ UNCHANGED <<alive, inward, called, mac, request, out, told, offer>>
  BY DEF ReplyArrives
<1>2. /\ mac = sender /\ Answered(reply, told, offer) /\ told \in Seq(Nat)
      /\ frame = None /\ buf = None /\ request = None /\ out = None
      /\ sender \in Mac /\ sender # None
      /\ DOMAIN session = Mac /\ \A m \in Mac : Remembers(session[m], called[m])
  BY <1>1, MacAssumption DEF RelayInv, RelayTypeOK, AsMeant, OneAtATime
<1>3. ASSUME r.ok
      PROVE  /\ Remembers(r.session, called[mac]) /\ r.event.eap = told
             /\ r.event.authorization # None =>
                  offer \in Offers /\ Means(r.event.authorization, offer)
  <2>1. /\ parse_reply(reply).ok /\ r.event = parse_reply(reply).val
        /\ Remembers(r.session, called[mac])
    BY <1>2, <1>3, ReplyRemembered
  <2> HIDE DEF r
  <2> QED BY <1>2, <2>1, AnswerRead
<1> HIDE DEF r
<1>7. ASSUME r.ok
      PROVE  DOMAIN kept = Mac /\ \A m \in Mac : Remembers(kept[m], called[m])
  BY <1>2, <1>3, <1>7
<1> HIDE DEF kept
<1>4. CASE ~r.ok
  <2>1. End("refused")
    BY <1>1, <1>4
  <2> QED BY <1>2, <2>1, End_Inv
<1>5. CASE r.ok /\ r.event.eap # <<>>
  <2>1. send_eap(mac, told, told, r.event.authorization, kept) /\ told # <<>>
    BY <1>1, <1>3, <1>5
  <2> QED BY <1>1, <1>2, <1>3, <1>5, <1>7, <2>1, SendEap_Inv
<1>6. CASE r.ok /\ r.event.eap = <<>>
  <2>1. /\ grant' = r.event.authorization /\ reply' = None /\ session' = kept
        /\ UNCHANGED <<alive, inward, called, mac, request, out, told, offer>>
    BY <1>1, <1>6
  <2>2. RelayTypeOK'
    BY <1>6, <1>7, <2>1 DEF RelayInv, RelayTypeOK, inward
  <2>3. OneAtATime'
    BY <1>1, <1>2, <2>1 DEF OneAtATime, inward
  <2>4. AsMeant'
    BY <1>2, <1>6, <1>7, <2>1 DEF AsMeant, inward
  <2>5. (WholeFramesArrive /\ DeliveredVerbatim)'
    BY <2>1 DEF RelayInv, WholeFramesArrive, DeliveredVerbatim, inward
  <2>6. GrantAsMeant'
    BY <1>3, <1>6, <2>1 DEF GrantAsMeant, Means
  <2> QED BY <2>2, <2>3, <2>4, <2>5, <2>6 DEF RelayInv
<1> QED BY <1>4, <1>5, <1>6

\* The server answers the request.
LEMMA Answer_Inv ==
  ASSUME RelayInv, NEW code \in {"AccessChallenge", "AccessAccept", "AccessReject"},
         NEW eap \in Seq(Nat), NEW o, NEW A, With(code, o, A), Answer(code, eap, A, o)
  PROVE  RelayInv'
<1>0. Answered(reply', eap, o)
  <2>1. PICK F \in Fragments(eap) : reply' = SealedReply(code, A \o F)
    BY DEF Answer
  <2> DEFINE i == request.identifier
             a == request.authenticator
             P == Packet(code, i, a, A \o F)
             p == seal_message_authenticator(P, Secret)
             h == Hash("MD5", p, a, Secret)
  <2>2. reply' = [p EXCEPT !.authenticator = h]
    BY <2>1 DEF SealedReply
  <2>3. p.code = code
    <3>1. \E c : CutUp(F, eap, c)
      BY AnswerCuts
    <3>2. IsSeq(F)
      BY <3>1 DEF CutUp
    <3>3. IsSeq(A)
      <4>1. CASE code = "AccessAccept"
        <5>1. Carries(<<>>, {"EAP-Message"})
          BY Singles DEF Carries
        <5> QED BY <4>1, <5>1, Offered DEF With
      <4>2. CASE code # "AccessAccept"
        BY <4>2, One DEF With, Carries
      <4> QED BY <4>1, <4>2
    <3>4. IsSeq(A \o F)
      BY <3>2, <3>3, Concat DEF Joined
    <3> QED BY <3>4, Sealed
  <2> HIDE DEF p, h
  <2>4. reply'.code = code /\ reply'.attributes = p.attributes
    BY <2>2, <2>3
  <2> HIDE DEF i, a
  <2> QED BY <2>4 DEF Answered, p, P
<1>1. /\ request # None /\ told' = eap /\ offer' = o
      /\ request' = None /\ meant' = <<>> /\ fate' = "answered"
      /\ UNCHANGED <<alive, frame, sender, buf, memory, mac, out, grant>>
  BY DEF Answer
<1>2. /\ alive /\ frame = None /\ buf = None /\ out = None /\ grant = None
      /\ mac = sender /\ sender \in Mac /\ sender # None
      /\ \A m \in Mac : Remembers(session[m], called[m])
  BY <1>1, MacAssumption DEF RelayInv, OneAtATime, AsMeant
<1>3. RelayTypeOK'
  BY <1>1, <1>2 DEF RelayInv, RelayTypeOK, memory
<1>4. OneAtATime'
  BY <1>1, <1>2 DEF OneAtATime
<1>5. AsMeant'
  BY <1>0, <1>1, <1>2 DEF AsMeant, memory
<1>6. (WholeFramesArrive /\ DeliveredVerbatim /\ GrantAsMeant)'
  BY <1>1, <1>2 DEF WholeFramesArrive, DeliveredVerbatim, GrantAsMeant
<1> QED BY <1>3, <1>4, <1>5, <1>6 DEF RelayInv

\* What the server sends are packets.
LEMMA ServerPackets ==
  ASSUME NEW code \in Nat, NEW l \in Nat, NEW c \in Seq(Nat)
  PROVE  Eap(code, l, c) \in Seq(Nat)
  BY EapLayout DEF LooksLike

\* Every answer of the server.
LEMMA Server_Inv ==
  ASSUME RelayInv, ServerChallenges \/ ServerErrs \/ ServerAccepts \/ ServerRejects
  PROVE  RelayInv'
<1>0. <<>> \in Seq(Nat)
  OBVIOUS
<1>5. ASSUME NEW code, code # "AccessAccept", NEW state
      PROVE  With(code, None, Optional("State", state)) /\ With(code, None, <<>>)
  <2>1. Optional("State", None) = <<>>
    BY DEF Optional
  <2>2. \E s : <<>> = Optional("State", s)
    BY <2>1
  <2>3. \E s : Optional("State", state) = Optional("State", s)
    OBVIOUS
  <2> QED BY <1>5, <2>2, <2>3 DEF With
<1>1. CASE ServerChallenges
  <2>1. PICK c \in Contents, state \in {None, <<1>>} :
          Answer("AccessChallenge", Eap(1, EAP_HEADER_LEN + Len(c), c),
                 Optional("State", state), None)
    BY <1>1 DEF ServerChallenges
  <2>2. c \in Seq(Nat) /\ EAP_HEADER_LEN + Len(c) \in Nat
    BY OctetSeqs DEF EAP_HEADER_LEN
  <2>3. Eap(1, EAP_HEADER_LEN + Len(c), c) \in Seq(Nat)
    BY <2>2, ServerPackets
  <2> QED BY <1>5, <2>1, <2>3, Answer_Inv
<1>2. CASE ServerErrs
  BY <1>0, <1>2, <1>5, Answer_Inv DEF ServerErrs
<1>3. CASE ServerAccepts
  <2>1. PICK o \in Offers, eap \in {<<>>, Eap(3, EAP_HEADER_LEN, <<>>)} :
          Answer("AccessAccept", eap, Attributes(o), o)
    BY <1>3 DEF ServerAccepts
  <2>2. Eap(3, EAP_HEADER_LEN, <<>>) \in Seq(Nat)
    BY <1>0, ServerPackets DEF EAP_HEADER_LEN
  <2>3. eap \in Seq(Nat)
    BY <1>0, <2>2, Zenon
  <2>4. With("AccessAccept", o, Attributes(o))
    BY DEF With
  <2> QED BY <2>1, <2>3, <2>4, Answer_Inv
<1>4. CASE ServerRejects
  <2>1. PICK eap \in {<<>>, Eap(4, EAP_HEADER_LEN, <<>>)} :
          Answer("AccessReject", eap, <<>>, None)
    BY <1>4 DEF ServerRejects
  <2>2. Eap(4, EAP_HEADER_LEN, <<>>) \in Seq(Nat)
    BY <1>0, ServerPackets DEF EAP_HEADER_LEN
  <2>3. eap \in Seq(Nat)
    BY <1>0, <2>2, Zenon
  <2> QED BY <1>5, <2>1, <2>3, Answer_Inv
<1> QED BY <1>1, <1>2, <1>3, <1>4

\* What came of a frame is settled, or another worker starts.
LEMMA Rest_Inv ==
  ASSUME RelayInv, Settle \/ Restart
  PROVE  RelayInv'
<1>1. CASE Settle
  <2>0. <<>> \in Seq(Nat)
    OBVIOUS
  <2>1. /\ alive /\ frame = None /\ buf = None /\ request = None /\ reply = None
        /\ sender' = None /\ meant' = <<>> /\ fate' = "none" /\ mac' = None
        /\ out' = None /\ told' = <<>> /\ offer' = None /\ grant' = None
        /\ UNCHANGED <<alive, frame, buf, memory, request, reply>>
    BY <1>1 DEF Settle
  <2>2. RelayTypeOK' /\ OneAtATime' /\ AsMeant'
    BY <2>0, <2>1 DEF RelayInv, RelayTypeOK, OneAtATime, AsMeant, memory
  <2>3. (WholeFramesArrive /\ DeliveredVerbatim /\ GrantAsMeant)'
    BY <2>1 DEF WholeFramesArrive, DeliveredVerbatim, GrantAsMeant
  <2> QED BY <2>2, <2>3 DEF RelayInv
<1>2. CASE Restart
  <2>1. alive' = TRUE /\ UNCHANGED <<inward, memory, mac, request, outward>>
    BY <1>2 DEF Restart
  <2>2. RelayTypeOK' /\ OneAtATime' /\ AsMeant'
    BY <2>1 DEF RelayInv, RelayTypeOK, OneAtATime, AsMeant, inward, memory, outward
  <2>3. (WholeFramesArrive /\ DeliveredVerbatim /\ GrantAsMeant)'
    BY <2>1 DEF RelayInv, WholeFramesArrive, DeliveredVerbatim, GrantAsMeant, inward, outward
  <2> QED BY <2>2, <2>3 DEF RelayInv
<1> QED BY <1>1, <1>2

\* Every step of the path keeps the invariant.
LEMMA RelayNext_Inv == RelayInv /\ [RelayNext]_lvars => RelayInv'
<1> SUFFICES ASSUME RelayInv, [RelayNext]_lvars PROVE RelayInv'
  OBVIOUS
<1>1. ASSUME NEW m \in Mac, SupplicantSendsEap(m) PROVE RelayInv'
  <2>1. Idle /\ \E f, eap : SentEap(m, f, eap) /\ Send(m, f, eap)
    BY <1>1 DEF SupplicantSendsEap, SentEap
  <2> QED BY <2>1, Send_Inv DEF Sent
<1>2. ASSUME NEW m \in Mac, SupplicantSendsOther(m) PROVE RelayInv'
  <2>1. Idle /\ \E f, eap : SentOther(m, f, eap) /\ Send(m, f, eap)
    BY <1>2 DEF SupplicantSendsOther, SentOther
  <2> QED BY <2>1, Send_Inv DEF Sent
<1>3. CASE UNCHANGED lvars
  <2>1. /\ alive' = alive /\ frame' = frame /\ sender' = sender /\ meant' = meant
        /\ buf' = buf /\ fate' = fate /\ session' = session /\ called' = called
        /\ mac' = mac /\ request' = request
        /\ reply' = reply /\ out' = out /\ told' = told /\ offer' = offer /\ grant' = grant
    BY <1>3 DEF lvars, inward, memory, outward
  <2> QED BY <2>1 DEF RelayInv, RelayTypeOK, OneAtATime, AsMeant, WholeFramesArrive,
                      DeliveredVerbatim, GrantAsMeant
<1> QED BY <1>1, <1>2, <1>3, Recv_Inv, DispatchFrame_Inv, ReplyArrives_Inv, Server_Inv, Rest_Inv
        DEF RelayNext

-----------------------------------------------------------------------------
(* The theorems *)

\* What is on its way is at every step what the supplicant or the server made of it.
THEOREM RelayInductive == RelaySpec => []RelayInv
  BY RelayInit_Inv, RelayNext_Inv, PTL DEF RelaySpec

\* recv never returns more than its buffer holds, and every variable has its type.
THEOREM RelayTypeCorrect == RelaySpec => []RelayTypeOK
<1>1. RelayInv => RelayTypeOK
  BY DEF RelayInv
<1> QED BY <1>1, RelayInductive, PTL

\* The server reassembles from an Access-Request exactly the EAP packet the
\* supplicant made its frame of, under the supplicant's own address, for packets,
\* paddings, buffers and attributes of any length.
THEOREM RelaySafety == RelaySpec => []RelayedVerbatim
<1>1. RelayInv => RelayedVerbatim
  BY DEF RelayInv, AsMeant, Carrying, RelayedVerbatim
<1> QED BY <1>1, RelayInductive, PTL

\* Only a frame that is malformed or longer than the receive buffer is dropped.
THEOREM ArrivalSafety == RelaySpec => []WholeFramesArrive
<1>1. RelayInv => WholeFramesArrive
  BY DEF RelayInv
<1> QED BY <1>1, RelayInductive, PTL

\* The User-Name of every request is the identity its supplicant gave last, in that
\* round or an earlier one, whole and printable, and there is none in a request of a
\* supplicant that gave none: for identities and attributes of any length and any
\* number of supplicants, rounds and workers.
THEOREM UserNameSafety == RelaySpec => []UserNameIsIdentity
<1>1. RelayInv => UserNameIsIdentity
  BY DEF RelayInv, AsMeant, Carrying, UserNameIsIdentity
<1> QED BY <1>1, RelayInductive, PTL

\* A frame to the supplicant is addressed to it and carries exactly the EAP packet
\* the server sent, however it was fragmented, or the identity prompt.
THEOREM DeliverySafety == RelaySpec => []DeliveredVerbatim
<1>1. RelayInv => DeliveredVerbatim
  BY DEF RelayInv
<1> QED BY <1>1, RelayInductive, PTL

\* A VLAN and a lifetime are taken from an Access-Accept only as they were meant.
THEOREM GrantSafety == RelaySpec => []GrantAsMeant
<1>1. RelayInv => GrantAsMeant
  BY DEF RelayInv
<1> QED BY <1>1, RelayInductive, PTL
=============================================================================
