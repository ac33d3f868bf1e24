----------------------------- MODULE DiscoverGate -----------------------------
(****************************************************************************)
(* The transport of src/src/discover_gate.rs between a client and rmcp: it   *)
(* refuses server/discover itself until a request has opened the session,    *)
(* and is inert from then on.                                                *)
(*                                                                           *)
(* The client is external: it sends any messages.  rmcp is external, and     *)
(* modelled from what the comments and tests of src/src/discover_gate.rs and *)
(* src/src/discover_gate_tests.rs rely on: its handshake awaits `receive` to *)
(* the end, its session polls it under select! and may drop it; the first    *)
(* request other than a ping opens the session, and one that is not          *)
(* `initialize` makes the session demand `_meta` on every request.           *)
(****************************************************************************)
EXTENDS Naturals, Sequences

CONSTANTS
    Nothing,        \* no message
    MaxMessages     \* bound: how many messages the client sends

\* An "opener" is any other request: an inline-lifecycle one with `_meta`, or a
\* tools/list; a "notification" is anything that is not a request.
Kinds == {"discover", "initialize", "ping", "opener", "notification"}
Requests == Kinds \ {"notification"}

Messages == [id : 1 .. MaxMessages, kind : Kinds]

ASSUME MessagesAssumption == MaxMessages \in Nat /\ Nothing \notin Messages

VARIABLES
    refusesProbe,   \* refuses_probe: no revision offered is modern
    handshakeDone,  \* handshake_done
    probe,          \* the probe `receive` is refusing, or Nothing
    wire,           \* sent by the client, not yet received
    sent,           \* how many messages the client has sent
    refused,        \* the probes refused
    delivered,      \* what `receive` has returned, in order
    opened,         \* rmcp: the session is open
    needsMeta,      \* rmcp: requests without `_meta` are refused
    closed          \* `receive` has returned None

gateVars == <<refusesProbe, handshakeDone, probe>>
wireVars == <<wire, sent>>
rmcpVars == <<delivered, opened, needsMeta>>
vars == <<gateVars, wireVars, refused, rmcpVars, closed>>

TypeOK ==
    /\ refusesProbe \in BOOLEAN /\ handshakeDone \in BOOLEAN
    /\ probe \in [id : 1 .. MaxMessages, kind : {"discover"}] \cup {Nothing}
    /\ wire \in Seq(Messages) /\ delivered \in Seq(Messages)
    /\ sent \in 0 .. MaxMessages
    /\ refused \subseteq [id : 1 .. MaxMessages, kind : {"discover"}]
    /\ opened \in BOOLEAN /\ needsMeta \in BOOLEAN /\ closed \in BOOLEAN

Init ==
    /\ refusesProbe \in BOOLEAN
    /\ handshakeDone = FALSE
    /\ probe = Nothing
    /\ wire = <<>>
    /\ sent = 0
    /\ refused = {}
    /\ delivered = <<>>
    /\ opened = FALSE
    /\ needsMeta = FALSE
    /\ closed = FALSE

-----------------------------------------------------------------------------
(* rmcp and the client *)

\* rmcp is given a message.
Delivers(m) ==
    /\ delivered' = Append(delivered, m)
    /\ opened' = (opened \/ m.kind \in Requests \ {"ping"})
    /\ needsMeta' = IF opened THEN needsMeta
                    ELSE m.kind \in Requests \ {"ping", "initialize"}

ClientSends(kind) ==
    /\ sent < MaxMessages
    /\ sent' = sent + 1
    /\ wire' = Append(wire, [id |-> sent + 1, kind |-> kind])
    /\ UNCHANGED <<gateVars, refused, rmcpVars, closed>>

\* The session's select! drops a `receive` that is not at its end, and with it
\* the probe it may have read.
DropReceive ==
    /\ opened
    /\ probe' = Nothing
    /\ UNCHANGED <<refusesProbe, handshakeDone, wireVars, refused, rmcpVars, closed>>

\* The client closes its end.
EndOfInput ==
    /\ ~closed
    /\ probe = Nothing
    /\ wire = <<>>
    /\ closed' = TRUE
    /\ UNCHANGED <<gateVars, wireVars, refused, rmcpVars>>

-----------------------------------------------------------------------------
(* DiscoverGate::receive *)

\* inner.receive() yields the next message.
NextMessage(m) ==
    /\ ~closed
    /\ probe = Nothing
    /\ wire # <<>>
    /\ m = Head(wire)
    /\ wire' = Tail(wire)

\* A message the gate refuses itself.
IsProbe(m) == refusesProbe /\ ~handshakeDone /\ m.kind = "discover"

\* A probe is read, and its refusal is about to be written.
ReceiveProbe(m) ==
    /\ NextMessage(m)
    /\ IsProbe(m)
    /\ probe' = m
    /\ UNCHANGED <<refusesProbe, handshakeDone, sent, refused, rmcpVars, closed>>

\* Mutant: only `initialize` opens the session.
BugInitializeOnly(m) == m.kind = "initialize"

\* Mutant: a ping opens it too.
BugPingOpens(m) == m.kind \in Requests

\* What disarms the gate: the first request other than ping.
Opens(m) == m.kind \in Requests \ {"ping"}

\* Any other message is returned.
ReceiveOther(m) ==
    /\ NextMessage(m)
    /\ ~IsProbe(m)
    /\ handshakeDone' = (handshakeDone \/ Opens(m))
    /\ Delivers(m)
    /\ UNCHANGED <<refusesProbe, probe, sent, refused, closed>>

\* The refusal is written, and `receive` goes on to the next message.
RefuseProbe ==
    /\ probe # Nothing
    /\ refused' = refused \cup {probe}
    /\ probe' = Nothing
    /\ UNCHANGED <<refusesProbe, handshakeDone, wireVars, rmcpVars, closed>>

\* It cannot be written: `receive` returns None.
RefusalFails ==
    /\ probe # Nothing
    /\ probe' = Nothing
    /\ closed' = TRUE
    /\ UNCHANGED <<refusesProbe, handshakeDone, wireVars, refused, rmcpVars>>

-----------------------------------------------------------------------------
Next ==
    \/ \E kind \in Kinds : ClientSends(kind)
    \/ \E m \in Messages : ReceiveProbe(m) \/ ReceiveOther(m)
    \/ RefuseProbe
    \/ RefusalFails
    \/ DropReceive
    \/ EndOfInput

Spec == Init /\ [][Next]_vars

-----------------------------------------------------------------------------
(* Properties *)

Ids(messages) == {m.id : m \in messages}
Elements(seq) == {seq[i] : i \in DOMAIN seq}

\* discover_gate.rs DiscoverGate, handshake_done: as long as the session lives,
\* each message the client sent is on the wire, about to be refused, refused or
\* delivered, and what is delivered is delivered in order; in particular no
\* probe is lost to a `receive` that the session drops.
NoMessageLost ==
    /\ ~closed => 1 .. sent = Ids(Elements(wire) \cup Elements(delivered) \cup refused
                                  \cup ({probe} \ {Nothing}))
    /\ \A i, j \in DOMAIN delivered : i < j => delivered[i].id < delivered[j].id

\* discover_gate.rs "Why this exists": if no revision the server offers is modern,
\* however often a client probes, its session only demands `_meta` if the client
\* opened it with another request than `initialize`.
FallbackWorks ==
    refusesProbe /\ needsMeta => \E i \in DOMAIN delivered :
                                    /\ delivered[i].kind = "opener"
                                    /\ \A j \in 1 .. i - 1 : delivered[j].kind # "initialize"

=============================================================================
