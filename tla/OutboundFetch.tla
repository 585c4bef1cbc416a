---------------------------- MODULE OutboundFetch ----------------------------
(* Fetching from a service outside (config/outbound-security.mjs, secureFetch   *)
(* and readResponseBodyLimited): each hop of a redirected request is validated  *)
(* anew, its name is resolved twice, and the connection is pinned to what the   *)
(* resolver said, while the name's records may change at any moment.            *)
(*                                                                              *)
(* A URL is its host; protocol, credentials and port are one more reason to     *)
(* refuse (Unsuitable). A host that is an address stands for itself.            *)
EXTENDS Integers, FiniteSets

CONSTANTS
  Hosts, Addresses,
  Literal,      \* the hosts that are addresses themselves, as a subset of Addresses
  Public,       \* the addresses isBlockedIp lets pass
  AllowedHosts, PrivateHosts,   \* options.allowedHosts and allowPrivateHosts
  Unsuitable,   \* hosts whose URLs fail another check of validateOutboundUrl
  Sandboxed,    \* DSH_SANDBOX = 1; the egress proxy then resolves for itself
  MaxRedirects, MaxBytes, NoHost

ASSUME FetchAssumption ==
  /\ Literal \subseteq Hosts \cap Addresses /\ Public \subseteq Addresses
  /\ MaxRedirects \in Nat /\ MaxBytes \in Nat /\ NoHost \notin Hosts

\* url: the host asked for; hop: redirects so far; preflight, pinned: the resolver's
\* two answers; phase: how far; contact: the latest connection made here, a pair of host
\* and address, or nothing; total: bytes read.
VARIABLES url, hop, preflight, pinned, phase, contact, total
fetchVars == <<url, hop, preflight, pinned, phase, contact, total>>

Phases == {"idle", "validate", "again", "connect", "answered", "reading", "done", "refused"}
FetchTypeOK ==
  /\ url \in Hosts \cup {NoHost}
  /\ hop \in 0..MaxRedirects /\ preflight \subseteq Addresses /\ pinned \subseteq Addresses
  /\ phase \in Phases /\ contact \in {<<>>} \cup (Hosts \X Addresses)
  /\ total \in 0..(MaxBytes + 1)

FetchInit ==
  /\ url = NoHost /\ hop = 0 /\ preflight = {} /\ pinned = {} /\ phase = "idle"
  /\ contact = <<>> /\ total = 0

\* What the resolver may answer: anything, each time anew, as whoever serves the zone may
\* change it in between.
Answers(h) == IF h \in Literal THEN {{h}} ELSE SUBSET Addresses
Blocked(h, as) == h \notin PrivateHosts /\ ~(as \subseteq Public)
Turn(p) == phase' = p

secureFetch(h) ==
  /\ phase = "idle" /\ url' = h /\ Turn("validate")
  /\ UNCHANGED <<hop, preflight, pinned, contact, total>>

\* validateOutboundUrl; secureFetch stops with its error.
Valid(h, as) == h \in AllowedHosts \ Unsuitable /\ as # {} /\ ~Blocked(h, as)
validateOutboundUrl ==
  /\ phase = "validate"
  /\ \E as \in Answers(url) :
       IF Valid(url, as) THEN preflight' = as /\ Turn("again")
                         ELSE preflight' = preflight /\ Turn("refused")
  /\ UNCHANGED <<url, hop, pinned, contact, total>>

\* The second lookup has to agree with the first; an address needs none.
AnythingConsistent(as) == as # {}
Consistent(as) == as # {} /\ as = preflight /\ ~Blocked(url, as)
ResolveAgain ==
  /\ phase = "again"
  /\ \E as \in Answers(url) :
       IF url \in Literal \/ Consistent(as) THEN pinned' = as /\ Turn("connect")
                                            ELSE pinned' = pinned /\ Turn("refused")
  /\ UNCHANGED <<url, hop, preflight, contact, total>>

\* fetchPinned connects to such an address; in the sandbox the proxy does, elsewhere.
Connect ==
  /\ phase = "connect"
  /\ IF Sandboxed /\ url \notin PrivateHosts
       THEN contact' = contact
       ELSE \E a \in pinned : contact' = <<url, a>>
  /\ phase' \in {"answered", "refused"}
  /\ UNCHANGED <<url, hop, preflight, pinned, total>>

\* Any host may redirect to any; the target is validated like the first.
Redirected(h) ==
  /\ phase = "answered"
  /\ IF hop = MaxRedirects THEN /\ Turn("refused") /\ UNCHANGED <<url, hop>>
                           ELSE /\ Turn("validate") /\ url' = h /\ hop' = hop + 1
  /\ UNCHANGED <<preflight, pinned, contact, total>>

\* readResponseBodyLimited: a declared length over the limit is refused at once.
Read(declaredTooLong) ==
  /\ phase = "answered" /\ Turn(IF declaredTooLong THEN "refused" ELSE "reading")
  /\ UNCHANGED <<url, hop, preflight, pinned, contact, total>>
Chunk ==
  /\ phase = "reading"
  /\ total' = total + 1
  /\ Turn(IF total' > MaxBytes THEN "refused" ELSE "reading")
  /\ UNCHANGED <<url, hop, preflight, pinned, contact>>
EndOfBody ==
  /\ phase = "reading" /\ Turn("done")
  /\ UNCHANGED <<url, hop, preflight, pinned, contact, total>>
TimeOutFetch ==
  /\ phase \in {"answered", "reading"} /\ Turn("refused")
  /\ UNCHANGED <<url, hop, preflight, pinned, contact, total>>

FetchNext ==
  \/ \E h \in Hosts : secureFetch(h) \/ Redirected(h)
  \/ validateOutboundUrl \/ ResolveAgain \/ Connect
  \/ \E long \in BOOLEAN : Read(long)
  \/ Chunk \/ EndOfBody \/ TimeOutFetch
FetchSpec == FetchInit /\ [][FetchNext]_fetchVars

-----------------------------------------------------------------------------
\* However the resolver's answers change and wherever an answer redirects to: every
\* connection goes to an allow-listed host, at a public address unless the host is one
\* of the private ones; and a body that is handed over is within its limit.
ConnectionsApproved ==
  /\ contact # <<>> => /\ contact[1] \in AllowedHosts \ Unsuitable
                       /\ contact[2] \in Public \/ contact[1] \in PrivateHosts
  /\ phase = "done" => total <= MaxBytes
=============================================================================
