-------------------------- MODULE DiscoverGateProofs --------------------------
(****************************************************************************)
(* Theorems about DiscoverGate, for any number of messages in any order.     *)
(****************************************************************************)
EXTENDS DiscoverGate, TLAPS

USE MessagesAssumption

-----------------------------------------------------------------------------
(* The inductive invariant *)

\* The wire holds the last messages sent, in order, and nothing else has come
\* from it that is not older than they are.
WireInv ==
    /\ sent >= Len(wire)
    /\ \A i \in 1 .. Len(wire) : wire[i].id = sent - Len(wire) + i
    /\ \A i \in 1 .. Len(delivered) : delivered[i].id <= sent - Len(wire)

\* The gate and rmcp agree on when the session opens; until then no request but
\* a ping has passed, and from then on the gate holds nothing back that the
\* session could drop.
OpenInv ==
    /\ opened <=> handshakeDone
    /\ ~opened => \A i \in 1 .. Len(delivered) :
                     delivered[i].kind \in {"ping", "notification"}
    /\ ~opened => ~needsMeta
    /\ probe # Nothing => ~handshakeDone

IndInv == TypeOK /\ WireInv /\ OpenInv /\ NoMessageLost /\ FallbackWorks

-----------------------------------------------------------------------------
(* Sequences of messages *)

\* Messages have numbers.
LEMMA MessageIds ==
    ASSUME NEW s \in Seq(Messages)
    PROVE  /\ Len(s) \in Nat
           /\ \A i \in 1 .. Len(s) : s[i] \in Messages /\ s[i].id \in Nat
<1>1. \A i \in 1 .. Len(s) : s[i] \in Messages
  OBVIOUS
<1>2. \A m \in Messages : m.id \in Nat
  BY DEF Messages
<1> QED
  BY <1>1, <1>2

\* What is appended to a sequence is its last element, and its only new one.
LEMMA AppendedMessage ==
    ASSUME NEW s \in Seq(Messages), NEW m \in Messages
    PROVE  /\ Append(s, m) \in Seq(Messages)
           /\ Len(Append(s, m)) = Len(s) + 1
           /\ DOMAIN Append(s, m) = 1 .. Len(s) + 1
           /\ \A i \in 1 .. Len(s) : Append(s, m)[i] = s[i]
           /\ Append(s, m)[Len(s) + 1] = m
           /\ Elements(Append(s, m)) = Elements(s) \cup {m}
<1> DEFINE t == Append(s, m)
<1>1. /\ t \in Seq(Messages) /\ Len(t) = Len(s) + 1 /\ Len(s) \in Nat
      /\ DOMAIN t = 1 .. Len(s) + 1 /\ DOMAIN s = 1 .. Len(s)
      /\ \A i \in 1 .. Len(s) : t[i] = s[i]
      /\ t[Len(s) + 1] = m
  OBVIOUS
<1> HIDE DEF t
<1>2. Elements(t) = Elements(s) \cup {m}
  BY <1>1 DEF Elements
<1> QED
  BY <1>1, <1>2 DEF t

\* What is received is the first element, and the rest stays.
LEMMA ReceivedMessage ==
    ASSUME NEW s \in Seq(Messages), s # <<>>
    PROVE  /\ Head(s) \in Messages /\ Head(s) = s[1]
           /\ Tail(s) \in Seq(Messages)
           /\ Len(Tail(s)) = Len(s) - 1 /\ Len(s) > 0
           /\ \A i \in 1 .. Len(s) - 1 : Tail(s)[i] = s[i + 1]
           /\ Elements(s) = Elements(Tail(s)) \cup {Head(s)}
<1> DEFINE t == Tail(s)
           h == Head(s)
<1>1. /\ h \in Messages /\ h = s[1] /\ Len(s) > 0 /\ Len(s) \in Nat
      /\ t \in Seq(Messages) /\ Len(t) = Len(s) - 1
      /\ DOMAIN t = 1 .. Len(s) - 1 /\ DOMAIN s = 1 .. Len(s)
      /\ \A i \in 1 .. Len(s) - 1 : t[i] = s[i + 1]
  OBVIOUS
<1> HIDE DEF t, h
<1>2. ASSUME NEW e \in Elements(s) PROVE e \in Elements(t) \cup {h}
  <2>1. PICK i \in 1 .. Len(s) : e = s[i]
    BY <1>1 DEF Elements
  <2>2. CASE i = 1
    BY <1>1, <2>1, <2>2
  <2>3. CASE i # 1
    <3>1. i - 1 \in 1 .. Len(s) - 1 /\ (i - 1) + 1 = i
      BY <1>1, <2>3
    <3>2. t[i - 1] = e
      BY <1>1, <2>1, <3>1
    <3> QED
      BY <1>1, <3>1, <3>2 DEF Elements
  <2> QED
    BY <2>2, <2>3
<1>3. Elements(t) \cup {h} \subseteq Elements(s)
  <2>1. h \in Elements(s)
    BY <1>1 DEF Elements
  <2>2. ASSUME NEW i \in 1 .. Len(s) - 1 PROVE t[i] \in Elements(s)
    <3>1. i + 1 \in 1 .. Len(s) /\ t[i] = s[i + 1]
      BY <1>1
    <3> QED
      BY <1>1, <3>1 DEF Elements
  <2> QED
    BY <1>1, <2>1, <2>2 DEF Elements
<1>4. Elements(s) = Elements(t) \cup {h}
  BY <1>2, <1>3
<1> QED
  BY <1>1, <1>4 DEF t, h

-----------------------------------------------------------------------------
(* Every step preserves the invariant *)

\* Initially there are no messages.
LEMMA InitIndInv == Init => IndInv
<1> SUFFICES ASSUME Init PROVE IndInv
  OBVIOUS
<1>1. /\ wire \in Seq(Messages) /\ delivered \in Seq(Messages)
      /\ wire = <<>> /\ delivered = <<>> /\ Len(wire) = 0 /\ Len(delivered) = 0
      /\ DOMAIN wire = {} /\ DOMAIN delivered = {}
  BY DEF Init
<1>2. TypeOK
  <2>1. sent \in 0 .. MaxMessages
    BY DEF Init
  <2>2. /\ refusesProbe \in BOOLEAN /\ handshakeDone \in BOOLEAN /\ opened \in BOOLEAN
        /\ needsMeta \in BOOLEAN /\ closed \in BOOLEAN /\ probe = Nothing /\ refused = {}
    BY Zenon DEF Init
  <2> QED
    BY <1>1, <2>1, <2>2 DEF TypeOK
<1>3. WireInv /\ OpenInv
  BY <1>1 DEF Init, WireInv, OpenInv
<1>4. NoMessageLost
  BY <1>1 DEF Init, NoMessageLost, Ids, Elements
<1>5. FallbackWorks
  BY DEF Init, FallbackWorks
<1> QED
  BY <1>2, <1>3, <1>4, <1>5 DEF IndInv

\* A message that is sent is the last on the wire.
LEMMA ClientSendsInv ==
    ASSUME IndInv, NEW kind \in Kinds, ClientSends(kind)
    PROVE  IndInv'
<1> DEFINE m == [id |-> sent + 1, kind |-> kind]
<1>1. /\ sent < MaxMessages /\ sent' = sent + 1 /\ sent \in Nat
      /\ wire' = Append(wire, m)
      /\ UNCHANGED <<refusesProbe, handshakeDone, probe, refused, delivered, opened, needsMeta, closed>>
  BY DEF ClientSends, gateVars, rmcpVars, IndInv, TypeOK
<1>2. m \in Messages /\ m.id = sent + 1
  BY <1>1 DEF Messages
<1> HIDE DEF m
<1>3. wire \in Seq(Messages) /\ delivered \in Seq(Messages)
  BY DEF IndInv, TypeOK
<1>4. TypeOK'
  BY <1>1, <1>2, <1>3, AppendedMessage DEF IndInv, TypeOK
<1>5. WireInv'
  <2>1. /\ Len(wire') = Len(wire) + 1 /\ wire'[Len(wire) + 1] = m
        /\ \A i \in 1 .. Len(wire) : wire'[i] = wire[i]
    BY <1>1, <1>2, <1>3, AppendedMessage
  <2>2. Len(wire) \in Nat /\ \A i \in 1 .. Len(wire) : wire[i].id \in Nat
    BY <1>3, MessageIds
  <2> QED
    BY <1>1, <1>2, <2>1, <2>2 DEF IndInv, WireInv
<1>6. NoMessageLost'
  <2>1. Elements(wire') = Elements(wire) \cup {m}
    BY <1>1, <1>2, <1>3, AppendedMessage
  <2>2. 1 .. sent' = (1 .. sent) \cup {m.id}
    BY <1>1, <1>2
  <2> QED
    BY <1>1, <2>1, <2>2 DEF IndInv, NoMessageLost, Ids
<1>7. OpenInv' /\ FallbackWorks'
  BY <1>1 DEF IndInv, OpenInv, FallbackWorks
<1> QED
  BY <1>4, <1>5, <1>6, <1>7 DEF IndInv

\* A probe that is read is the oldest message on the wire.
LEMMA ReceiveProbeInv ==
    ASSUME IndInv, NEW m \in Messages, ReceiveProbe(m)
    PROVE  IndInv'
<1>1. /\ ~closed /\ probe = Nothing /\ wire # <<>> /\ m = Head(wire) /\ wire' = Tail(wire)
      /\ probe' = m /\ m.kind = "discover" /\ ~handshakeDone
      /\ UNCHANGED <<refusesProbe, handshakeDone, sent, refused, delivered, opened, needsMeta, closed>>
  BY DEF ReceiveProbe, NextMessage, IsProbe, rmcpVars
<1>2. wire \in Seq(Messages) /\ delivered \in Seq(Messages) /\ sent \in Nat
  BY DEF IndInv, TypeOK
<1>3. m \in [id : 1 .. MaxMessages, kind : {"discover"}]
  BY <1>1 DEF Messages
<1>4. TypeOK'
  BY <1>1, <1>2, <1>3, ReceivedMessage DEF IndInv, TypeOK
<1>5. WireInv'
  <2>1. /\ Len(wire') = Len(wire) - 1 /\ Len(wire) > 0
        /\ \A i \in 1 .. Len(wire) - 1 : wire'[i] = wire[i + 1]
    BY <1>1, <1>2, ReceivedMessage
  <2>2. /\ Len(wire) \in Nat /\ Len(delivered) \in Nat
        /\ \A i \in 1 .. Len(delivered) : delivered[i].id \in Nat
    BY <1>2, MessageIds
  <2> QED
    BY <1>1, <1>2, <2>1, <2>2 DEF IndInv, WireInv
<1>6. NoMessageLost'
  <2>1. Elements(wire) = Elements(wire') \cup {m}
    BY <1>1, <1>2, ReceivedMessage
  <2>2. {probe'} \ {Nothing} = {m} /\ {probe} \ {Nothing} = {}
    BY <1>1
  <2>3. Elements(wire') \cup Elements(delivered) \cup refused \cup {m}
        = Elements(wire) \cup Elements(delivered) \cup refused \cup {}
    BY <2>1
  <2> QED
    BY <1>1, <2>2, <2>3 DEF IndInv, NoMessageLost
<1>7. OpenInv' /\ FallbackWorks'
  BY <1>1 DEF IndInv, OpenInv, FallbackWorks
<1> QED
  BY <1>4, <1>5, <1>6, <1>7 DEF IndInv

\* Any other message is delivered behind what was delivered before it; the one
\* that opens the session disarms the gate.
LEMMA ReceiveOtherInv ==
    ASSUME IndInv, NEW m \in Messages, ReceiveOther(m)
    PROVE  IndInv'
<1>1. /\ ~closed /\ probe = Nothing /\ wire # <<>> /\ m = Head(wire) /\ wire' = Tail(wire)
      /\ delivered' = Append(delivered, m)
      /\ UNCHANGED <<refusesProbe, probe, sent, refused, closed>>
  BY DEF ReceiveOther, NextMessage, Delivers
<1>2. /\ handshakeDone' = (handshakeDone \/ m.kind \in Requests \ {"ping"})
      /\ opened' = (opened \/ m.kind \in Requests \ {"ping"})
      /\ needsMeta' = IF opened THEN needsMeta
                      ELSE m.kind \in Requests \ {"ping", "initialize"}
      /\ ~ (refusesProbe /\ ~handshakeDone /\ m.kind = "discover")
  BY DEF ReceiveOther, Opens, Delivers, IsProbe
<1>3. wire \in Seq(Messages) /\ delivered \in Seq(Messages) /\ sent \in Nat
  BY DEF IndInv, TypeOK
<1>4. /\ opened' \in BOOLEAN /\ handshakeDone' \in BOOLEAN /\ needsMeta' \in BOOLEAN
  <2>1. opened' \in BOOLEAN /\ handshakeDone' \in BOOLEAN
    BY <1>2, Zenon
  <2>2. CASE opened
    BY <1>2, <2>1, <2>2 DEF IndInv, TypeOK
  <2>3. CASE ~opened
    <3>1. CASE m.kind \in Requests \ {"ping", "initialize"}
      BY <1>2, <2>1, <2>3, <3>1
    <3>2. CASE m.kind \notin Requests \ {"ping", "initialize"}
      BY <1>2, <2>1, <2>3, <3>2
    <3> QED
      BY <3>1, <3>2
  <2> QED
    BY <2>2, <2>3
<1>5. TypeOK'
  BY <1>1, <1>3, <1>4, ReceivedMessage, AppendedMessage DEF IndInv, TypeOK
<1>6. /\ Len(wire') = Len(wire) - 1 /\ Len(wire) \in Nat /\ Len(delivered) \in Nat
      /\ Len(delivered') = Len(delivered) + 1
      /\ DOMAIN delivered = 1 .. Len(delivered) /\ DOMAIN delivered' = 1 .. Len(delivered) + 1
      /\ \A i \in 1 .. Len(delivered) : delivered'[i] = delivered[i]
      /\ delivered'[Len(delivered) + 1] = m
      /\ m = wire[1] /\ m.id = sent - Len(wire) + 1 /\ Len(wire) > 0
  <2>1. /\ Len(wire') = Len(wire) - 1 /\ Len(wire) > 0 /\ m = wire[1]
    BY <1>1, <1>3, ReceivedMessage
  <2>2. Len(wire) \in Nat /\ Len(delivered) \in Nat /\ DOMAIN delivered = 1 .. Len(delivered)
    BY <1>3
  <2>3. m.id = sent - Len(wire) + 1
    BY <2>1, <2>2 DEF IndInv, WireInv
  <2> QED
    BY <1>1, <1>3, <2>1, <2>2, <2>3, AppendedMessage
<1>7. WireInv'
  <2>1. \A i \in 1 .. Len(wire) - 1 : wire'[i] = wire[i + 1]
    BY <1>1, <1>3, ReceivedMessage
  <2>2. \A i \in 1 .. Len(delivered) : delivered[i].id \in Nat
    BY <1>3, MessageIds
  <2> QED
    BY <1>1, <1>3, <1>6, <2>1, <2>2 DEF IndInv, WireInv
<1>8. NoMessageLost'
  <2>1. Elements(wire) = Elements(wire') \cup {m}
    BY <1>1, <1>3, ReceivedMessage
  <2>2. Elements(delivered') = Elements(delivered) \cup {m}
    BY <1>1, <1>3, AppendedMessage
  <2>3. Elements(wire') \cup Elements(delivered') \cup refused \cup ({probe} \ {Nothing})
        = Elements(wire) \cup Elements(delivered) \cup refused \cup ({probe} \ {Nothing})
    BY <2>1, <2>2
  <2>4. \A i, j \in 1 .. Len(delivered) + 1 : i < j => delivered'[i].id < delivered'[j].id
    <3> SUFFICES ASSUME NEW i \in 1 .. Len(delivered), NEW j \in 1 .. Len(delivered) + 1, i < j
                 PROVE  delivered[i].id < delivered'[j].id
      BY <1>6
    <3>1. CASE j \in 1 .. Len(delivered)
      BY <1>6, <3>1 DEF IndInv, NoMessageLost
    <3>2. CASE j = Len(delivered) + 1
      <4>1. delivered[i].id \in Nat
        BY <1>3, MessageIds
      <4> QED
        BY <1>3, <1>6, <3>2, <4>1 DEF IndInv, WireInv
    <3> QED
      BY <3>1, <3>2
  <2> QED
    BY <1>1, <1>6, <2>3, <2>4 DEF IndInv, NoMessageLost
<1>9. OpenInv'
  <2>1. m.kind \in Kinds
    BY DEF Messages
  <2>2. opened' <=> handshakeDone'
    BY <1>2, Zenon DEF IndInv, OpenInv
  <2>3. ~opened' => ~opened /\ m.kind \notin Requests \ {"ping"} /\ ~needsMeta'
    BY <1>2, <2>1 DEF Requests, Kinds
  <2>4. ~opened' => \A i \in 1 .. Len(delivered') : delivered'[i].kind \in {"ping", "notification"}
    <3> SUFFICES ASSUME ~opened', NEW i \in 1 .. Len(delivered')
                 PROVE  delivered'[i].kind \in {"ping", "notification"}
      OBVIOUS
    <3>1. CASE i \in 1 .. Len(delivered)
      BY <1>6, <2>3, <3>1 DEF IndInv, OpenInv
    <3>2. CASE i = Len(delivered) + 1
      BY <1>6, <2>1, <2>3, <3>2 DEF Requests, Kinds
    <3> QED
      BY <1>6, <3>1, <3>2
  <2> QED
    BY <1>1, <2>2, <2>3, <2>4 DEF OpenInv
<1>10. FallbackWorks'
  <2> SUFFICES ASSUME refusesProbe, needsMeta'
               PROVE  \E i \in DOMAIN delivered' :
                         /\ delivered'[i].kind = "opener"
                         /\ \A j \in 1 .. i - 1 : delivered'[j].kind # "initialize"
    BY <1>1 DEF FallbackWorks
  <2>1. CASE opened
    <3>1. PICK i \in DOMAIN delivered :
             /\ delivered[i].kind = "opener"
             /\ \A j \in 1 .. i - 1 : delivered[j].kind # "initialize"
      BY <1>2, <2>1 DEF IndInv, FallbackWorks
    <3> QED
      BY <1>6, <3>1
  <2>2. CASE ~opened
    <3>1. m.kind = "opener"
      BY <1>2, <2>2 DEF IndInv, TypeOK, OpenInv, Requests, Kinds
    <3>2. \A j \in 1 .. Len(delivered) : delivered'[j].kind # "initialize"
      BY <1>6, <2>2 DEF IndInv, OpenInv
    <3>3. Len(delivered) + 1 \in DOMAIN delivered' /\ (Len(delivered) + 1) - 1 = Len(delivered)
      BY <1>6
    <3> QED
      BY <1>6, <3>1, <3>2, <3>3
  <2> QED
    BY <2>1, <2>2
<1> QED
  BY <1>5, <1>7, <1>8, <1>9, <1>10 DEF IndInv

\* A refusal that is written takes the probe along.
LEMMA RefuseProbeInv ==
    ASSUME IndInv, RefuseProbe
    PROVE  IndInv'
<1>1. /\ probe # Nothing /\ probe' = Nothing /\ refused' = refused \cup {probe}
      /\ UNCHANGED <<refusesProbe, handshakeDone, wire, sent, delivered, opened, needsMeta, closed>>
  BY DEF RefuseProbe, wireVars, rmcpVars
<1>2. TypeOK'
  BY <1>1 DEF IndInv, TypeOK
<1>3. NoMessageLost'
  <2>1. refused' \cup ({probe'} \ {Nothing}) = refused \cup ({probe} \ {Nothing})
    BY <1>1
  <2>2. Elements(wire) \cup Elements(delivered) \cup refused' \cup ({probe'} \ {Nothing})
        = Elements(wire) \cup Elements(delivered) \cup refused \cup ({probe} \ {Nothing})
    BY <2>1
  <2> QED
    BY <1>1, <2>2 DEF IndInv, NoMessageLost
<1>4. WireInv' /\ OpenInv' /\ FallbackWorks'
  BY <1>1 DEF IndInv, WireInv, OpenInv, FallbackWorks
<1> QED
  BY <1>2, <1>3, <1>4 DEF IndInv

\* As long as nothing happens the invariant stays.
LEMMA UnchangedInv ==
    ASSUME IndInv, UNCHANGED <<refusesProbe, handshakeDone, probe, wire, sent, refused,
                               delivered, opened, needsMeta, closed>>
    PROVE  IndInv'
<1>1. TypeOK'
  BY DEF IndInv, TypeOK
<1>2. WireInv' /\ OpenInv'
  BY DEF IndInv, WireInv, OpenInv
<1>3. NoMessageLost'
  BY DEF IndInv, NoMessageLost
<1>4. FallbackWorks'
  BY DEF IndInv, FallbackWorks
<1> QED
  BY <1>1, <1>2, <1>3, <1>4 DEF IndInv

\* The session can drop `receive` only when there is no probe to lose.
LEMMA DropReceiveInv ==
    ASSUME IndInv, DropReceive
    PROVE  IndInv'
<1>1. probe = Nothing /\ probe' = Nothing
  BY DEF DropReceive, IndInv, TypeOK, OpenInv
<1>2. UNCHANGED <<refusesProbe, handshakeDone, probe, wire, sent, refused, delivered, opened,
                  needsMeta, closed>>
  BY <1>1 DEF DropReceive, wireVars, rmcpVars
<1> QED
  BY <1>2, UnchangedInv

\* A session that ends has nothing more to lose.
LEMMA ClosedInv ==
    ASSUME IndInv, RefusalFails \/ EndOfInput
    PROVE  IndInv'
<1>1. /\ closed' = TRUE /\ (probe' = Nothing \/ probe' = probe)
      /\ UNCHANGED <<refusesProbe, handshakeDone, wire, sent, refused, delivered, opened, needsMeta>>
  BY DEF RefusalFails, EndOfInput, gateVars, wireVars, rmcpVars
<1>2. TypeOK'
  BY <1>1 DEF IndInv, TypeOK
<1>3. NoMessageLost'
  BY <1>1 DEF IndInv, NoMessageLost
<1>4. WireInv' /\ OpenInv' /\ FallbackWorks'
  BY <1>1 DEF IndInv, WireInv, OpenInv, FallbackWorks
<1> QED
  BY <1>2, <1>3, <1>4 DEF IndInv

\* Every step preserves the invariant.
LEMMA NextIndInv == IndInv /\ [Next]_vars => IndInv'
<1> SUFFICES ASSUME IndInv, [Next]_vars PROVE IndInv'
  OBVIOUS
<1>1. CASE UNCHANGED vars
  BY <1>1, UnchangedInv DEF vars, gateVars, wireVars, rmcpVars
<1> QED
  BY <1>1, ClientSendsInv, ReceiveProbeInv, ReceiveOtherInv, RefuseProbeInv, DropReceiveInv,
     ClosedInv DEF Next

-----------------------------------------------------------------------------
(* Theorems *)

\* IndInv is an invariant of the transport.
THEOREM Invariance == Spec => []IndInv
BY InitIndInv, NextIndInv, PTL DEF Spec

\* Every variable keeps its type.
THEOREM TypeCorrectness == Spec => []TypeOK
<1>1. IndInv => TypeOK
  BY DEF IndInv
<1> QED
  BY <1>1, Invariance, PTL

\* DiscoverGate, handshake_done: no message the client has sent is lost to a
\* `receive` that is dropped, and none is delivered out of order.
THEOREM EveryMessageArrives == Spec => []NoMessageLost
<1>1. IndInv => NoMessageLost
  BY DEF IndInv
<1> QED
  BY <1>1, Invariance, PTL

\* "Why this exists": however often a client probes, it can fall back to
\* `initialize` without its session demanding `_meta`.
THEOREM ProbingIsHarmless == Spec => []FallbackWorks
<1>1. IndInv => FallbackWorks
  BY DEF IndInv
<1> QED
  BY <1>1, Invariance, PTL
=============================================================================
