---------------------------- MODULE ModelGateway ----------------------------
(* Calls to language models: the failover cascade (config/failover-gateway.mjs)  *)
(* tries one provider after the other, each in an await of its own; the semantic *)
(* gateway (packages/dsh-dds-core/llm-gateway.js) keeps the signatures of tool   *)
(* calls in a map of limited size, shared by all streams of the process.         *)
EXTENDS Naturals, SequencesExt
CONSTANTS
  Targets,        \* the cascade: a sequence of providers
  CallIds, Signatures,
  MaxKept,        \* maxThoughtSignatures
  MaxCaptures     \* bound: tool calls that arrive with a signature

ASSUME GatewayAssumption ==
  Targets \in Seq(ToSet(Targets)) /\ MaxKept \in Nat \ {0} /\ MaxCaptures \in Nat

VARIABLES
  apiKeys,        \* providers there is a key for
  attempts,       \* how each target tried so far came out
  reply,          \* the cascade's outcome, "" while it runs
  thoughtSignatures,           \* thoughtSignatures in insertion order, as <<id, signature>>
  captured        \* every signature that arrived, and if its id was new (history)

gatewayVars == <<apiKeys, attempts, reply, thoughtSignatures, captured>>
KeptIds(map) == {p[1] : p \in ToSet(map)}

GatewayTypeOK ==
  /\ apiKeys \subseteq ToSet(Targets) /\ Len(attempts) <= Len(Targets)
  /\ reply \in {"", "answered", "refused", "exhausted"}
  /\ thoughtSignatures \in Seq(CallIds \X Signatures) /\ Len(captured) <= MaxCaptures

GatewayInit ==
  /\ apiKeys \in SUBSET ToSet(Targets) /\ attempts = <<>> /\ reply = ""
  /\ thoughtSignatures = <<>> /\ captured = <<>>

\* What a provider answers: a reply (an empty one counts), 401, another HTTP status, or
\* no status at all: a time-out, a broken connection, a body that does not parse.
Answers == {"ok", "unauthorized", "status", "broken"}
Ends(answer) == answer \in {"ok", "unauthorized"}

\* One round of executeWithFailover's loop.
Attempt ==
  /\ reply = "" /\ Len(attempts) < Len(Targets)
  /\ IF Targets[Len(attempts) + 1] \notin apiKeys
     THEN attempts' = Append(attempts, "skipped") /\ UNCHANGED reply
     ELSE \E answer \in Answers :
            /\ attempts' = Append(attempts, answer)
            /\ reply' = IF ~Ends(answer) THEN "" ELSE IF answer = "ok" THEN "answered" ELSE "refused"
  /\ UNCHANGED <<apiKeys, thoughtSignatures, captured>>

\* The error names the last failure, or "no response" when no target had a key.
GiveUp ==
  /\ reply = "" /\ Len(attempts) = Len(Targets) /\ reply' = "exhausted"
  /\ UNCHANGED <<apiKeys, attempts, thoughtSignatures, captured>>

\* At the limit the oldest goes, even when the identifier to be set is there already.
Room(map) == IF Len(map) >= MaxKept THEN Tail(map) ELSE map
\* Map.set: a value that is replaced keeps its place.
Put(map, id, signature) ==
  IF id \in KeptIds(map)
  THEN [i \in DOMAIN map |-> IF map[i][1] = id THEN <<id, signature>> ELSE map[i]]
  ELSE Append(map, <<id, signature>>)

\* captureThoughtSignatures, for one tool call of one stream's chunk; a chunk with
\* several is as many captures.
Capture(id, signature) ==
  /\ Len(captured) < MaxCaptures
  /\ thoughtSignatures' = Put(Room(thoughtSignatures), id, signature)
  /\ captured' = Append(captured, [id |-> id, signature |-> signature, new |-> id \notin KeptIds(Room(thoughtSignatures))])
  /\ UNCHANGED <<apiKeys, attempts, reply>>

\* normalizeRequestOptions: what is added to a call of an earlier turn that came back
\* without its signature.
Reinjected(id) == {p[2] : p \in {q \in ToSet(thoughtSignatures) : q[1] = id}}

\* The two share no state; a run takes them one at a time.
FailoverNext == Attempt \/ GiveUp
SignatureNext == \E id \in CallIds, s \in Signatures : Capture(id, s)

-----------------------------------------------------------------------------
\* Nobody is told that all is lost while a provider with a key is untried, and nothing
\* is tried after an answer or after a provider has refused the key.
CascadeHonest ==
  /\ reply = "exhausted" => \A i \in DOMAIN Targets :
       IF Targets[i] \in apiKeys THEN attempts[i] \in {"status", "broken"} ELSE attempts[i] = "skipped"
  /\ \A i \in DOMAIN attempts : attempts[i] \in {"ok", "unauthorized"} => i = Len(attempts) /\ reply # ""
  /\ reply \in {"answered", "refused"} => Last(attempts) \in {"ok", "unauthorized"}

\* The map stays within its limit; a call is given the signature that came last under its
\* identifier, and loses it no sooner than MaxKept captures after it entered the map.
SignaturesKept ==
  /\ Len(thoughtSignatures) <= MaxKept
  /\ \A id \in KeptIds(thoughtSignatures) :
       LET last == CHOOSE i \in DOMAIN captured : captured[i].id = id /\ \A j \in DOMAIN captured : captured[j].id = id => j <= i
       IN  Reinjected(id) = {captured[last].signature}
  /\ \A i \in DOMAIN captured : captured[i].new /\ Len(captured) < i + MaxKept => captured[i].id \in KeptIds(thoughtSignatures)
=============================================================================
