------------------------------- MODULE Probe --------------------------------
(***************************************************************************)
(* One probe of one address: which ports are worth a handshake, in which   *)
(* order and from which source ports they are tried, and what a failure is *)
(* reported as (lib/probe.py).  Pure operators over what an address does:  *)
(*   seen[p]   the datagram to p was not refused                           *)
(*   dtls[p]   what the stateless hello learns: "yes", "no" or "unknown"   *)
(*   serves[p] what is there: "nothing", "mute" (the handshake completes   *)
(*             and no usable answer follows) or "appliance"                *)
(*   stale     the source bases the appliance holds an old session for     *)
(***************************************************************************)
EXTENDS Integers, Sequences, FiniteSets

CONSTANTS
  Ports,      \* PROBE_PORT_RANGE
  Preferred,  \* PREFERRED_PROBE_PORTS
  Sources     \* len(DTLS_LOCAL_PORT_BASES)

ASSUME PortsAssumption ==
  IsFiniteSet(Ports) /\ Ports \subseteq Nat /\ Preferred \in Seq(Ports)
ASSUME SourcesAssumption == Sources \in Nat \ {0}

IsPreferred(p) == \E i \in DOMAIN Preferred : Preferred[i] = p

-----------------------------------------------------------------------------
(* Which ports, in which order. *)

\* sorted() of a set of ports, or of positions among the preferred ones.
Ascending(S) ==
  CHOOSE s \in [1..Cardinality(S) -> S] : \A i, k \in DOMAIN s : i < k => s[i] < s[k]

\* The preferred ports in S, in the order of preference.
PreferredIn(S) ==
  LET kept == Ascending({i \in DOMAIN Preferred : Preferred[i] \in S})
  IN  [n \in 1..Len(kept) |-> Preferred[kept[n]]]

OrderCandidates(S) == PreferredIn(S) \o Ascending({p \in S : ~IsPreferred(p)})

Nominated(h) == {p \in Ports : h.seen[p]}

\* A verdict of the sweep does not overrule what is known of the preferred
\* ports.
Rescued(h) == PreferredIn(Ports \ Nominated(h))

Candidates(h) == OrderCandidates(Nominated(h)) \o Rescued(h)

-----------------------------------------------------------------------------
(* One port: another source only while the refusal is of an old session.   *)

\* The mutant escalates only once.
SourcesTriedTwo == 0..1
SourcesTried == 0..Sources - 1

\* A session that completes no handshake, is mute, or is the appliance.
Session(h, p, s) ==
  IF h.serves[p] # "nothing" /\ s \in h.stale THEN "stale" ELSE h.serves[p]

Attempt(h, p) ==
  LET settled == {s \in SourcesTried : Session(h, p, s) # "stale"}
  IN  IF settled = {} THEN "stale"
      ELSE Session(h, p, CHOOSE s \in settled : \A t \in settled : s <= t)

\* A nominated port whose hello went unanswered is passed over, a rescued one
\* never: a second verdict must not replace the first.
PassedOver(h, p) == h.seen[p] /\ h.dtls[p] = "no"

-----------------------------------------------------------------------------
(* The walk over the candidates, from the n-th on; the first appliance     *)
(* that answers ends it.                                                   *)

Blank == [found |-> FALSE, port |-> 0, tried |-> FALSE, passed |-> FALSE, answered |-> FALSE]

Step(h, walk, p) ==
  IF walk.found THEN walk
  ELSE IF PassedOver(h, p) THEN [walk EXCEPT !.passed = TRUE]
  ELSE LET outcome == Attempt(h, p)
       IN  IF outcome = "appliance" THEN [walk EXCEPT !.found = TRUE, !.port = p]
           ELSE [walk EXCEPT !.tried = TRUE,
                             !.answered = walk.answered \/ outcome = "mute"]

Walk(h) ==
  LET ports == Candidates(h)
      walk[n \in 0..Len(ports)] ==
        IF n = 0 THEN Blank ELSE Step(h, walk[n - 1], ports[n])
  IN  walk[Len(ports)]

Found(h) == Walk(h).found
FoundPort(h) == Walk(h).port

\* Why not.
Failure(h) ==
  LET walk == Walk(h)
  IN  IF Candidates(h) = <<>> THEN "no_response"
      ELSE IF ~walk.tried /\ walk.passed THEN "no_dtls_server"
      ELSE IF walk.answered THEN "certificate_refused"
      ELSE "handshake_refused"

\* What probe returns or raises.
Verdict(h) ==
  [host |-> h, found |-> Found(h), port |-> FoundPort(h),
   failure |-> IF Found(h) THEN "none" ELSE Failure(h)]

-----------------------------------------------------------------------------
(* The addresses there may be. *)

Hosts ==
  [seen: [Ports -> BOOLEAN], dtls: [Ports -> {"yes", "no", "unknown"}],
   serves: [Ports -> {"nothing", "mute", "appliance"}], stale: SUBSET (0..Sources - 1)]

\* Without the loops: a port is tried unless the hello was not answered, and a
\* preferred one also when the sweep has given it up.
WorthTrying(h, p) ==
  IF h.seen[p] THEN h.dtls[p] # "no" ELSE IsPreferred(p)
=============================================================================
