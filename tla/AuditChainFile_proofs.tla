----------------------- MODULE AuditChainFile_proofs -----------------------
(***************************************************************************)
(* TLAPS proofs about AuditChainFile, for any processes, events, failures  *)
(* and crashes.                                                            *)
(***************************************************************************)
EXTENDS AuditChainFile, SequenceTheorems, NaturalsInduction, WellFoundedInduction, TLAPS

-----------------------------------------------------------------------------
(* The invariant                                                           *)

\* Whoever is in a call has an event of its own to log.
EventsGiven == \A p \in Procs : pc[p] # "idle" => event[p] \in Events

Inside(p) == pc[p] \in {"reading", "appending", "remembering", "unlocking"}
\* The event is in the file, and the chain up to it verifies.
Recorded(e, s) ==
  \E n \in DOMAIN file[s].lines :
    Verifies(SubSeq(file[s].lines, 1, n)) /\ file[s].lines[n].event = e

\* Who works on a file has made its lock file.
HoldersHold == \A p \in Procs : Inside(p) => lock[sink[p]] = p
\* A head that is remembered for the file's size is the head of a file that verifies.
CachesTrue ==
  \A p \in Procs, s \in Sinks :
    /\ cache[p][s].size <= file[s].size
    /\ cache[p][s].size = file[s].size =>
         Verifies(file[s].lines) /\ cache[p][s].head = HeadOf(file[s])
\* The head a call has read is still the head until it appends, and then its entry is.
HeadTrue(p) ==
  /\ pc[p] = "appending" => Verifies(file[sink[p]].lines) /\ head[p] = HeadOf(file[sink[p]])
  /\ pc[p] = "remembering" =>
       /\ Verifies(file[sink[p]].lines) /\ file[sink[p]].lines # <<>>
       /\ HeadOf(file[sink[p]]) = [sequence |-> head[p].sequence + 1, hash |-> event[p]]
  /\ pc[p] = "unlocking" /\ outcome[p] = "recorded" => Recorded(event[p], sink[p])
HeadsTrue == \A p \in Procs : HeadTrue(p)
Chained == HoldersHold /\ CachesTrue /\ HeadsTrue
\* A file without a size has no line.
Started == \A s \in Sinks : file[s].size = 0 => file[s].lines = <<>>
Granted == \A e \in Events : answer[e] = "granted" => \E s \in Sinks : Recorded(e, s)
ChainInv == TypeOK /\ EventsGiven /\ Started /\ (Undisturbed => Chained /\ Granted)

-----------------------------------------------------------------------------
(* Chains                                                                  *)

Line == Entry \cup {Garbage}
Files == [lines : Seq(Line), ended : BOOLEAN, size : Nat]
Linked(lines, n) ==
  /\ lines[n] # Garbage /\ lines[n].sequence = n
  /\ lines[n].previous = IF n = 1 THEN NoEvent ELSE lines[n-1].event

\* What a prefix of the file verifies to is decided in the file.
LEMMA PrefixVerifies ==
  ASSUME NEW lines \in Seq(Line), NEW n \in 1..Len(lines)
  PROVE  Verifies(SubSeq(lines, 1, n)) <=> \A k \in 1..n : Linked(lines, k)
<1>1. /\ SubSeq(lines, 1, n) \in Seq(Line) /\ Len(SubSeq(lines, 1, n)) = n /\ n \in Nat
      /\ \A k \in 1..n : SubSeq(lines, 1, n)[k] = lines[k]
  <2>1. Len(lines) \in Nat /\ n \in Nat /\ 1 <= n
    BY LenProperties
  <2>2. \A k \in 1..n : lines[k] \in Line
    BY <2>1, ElementOfSeq
  <2>3. QED
    BY <2>1, <2>2, SubSeqProperties
<1> DEFINE prefix == SubSeq(lines, 1, n)
<1>2. DOMAIN prefix = 1..n
  BY <1>1
<1> HIDE DEF prefix
<1>3. ASSUME NEW k \in 1..n PROVE Linked(prefix, k) <=> Linked(lines, k)
  <2>1. prefix[k] = lines[k]
    BY <1>1 DEF prefix
  <2>2. k # 1 => k - 1 \in 1..n
    BY <1>1
  <2>3. k # 1 => prefix[k-1] = lines[k-1]
    BY <1>1, <2>2 DEF prefix
  <2>4. QED
    BY <2>1, <2>3 DEF Linked
<1>4. Verifies(prefix) <=> \A k \in 1..n : Linked(prefix, k)
  BY <1>2 DEF Verifies, Linked
<1>5. QED
  BY <1>3, <1>4 DEF prefix

\* The last event of a file that verifies is recorded in it.
LEMMA LastRecorded ==
  ASSUME NEW s \in Sinks, file[s] \in Files, Verifies(file[s].lines), file[s].lines # <<>>
  PROVE  Recorded(HeadOf(file[s]).hash, s)
<1> DEFINE lines == file[s].lines
<1>1. lines \in Seq(Line) /\ Len(lines) \in 1..Len(lines) /\ DOMAIN lines = 1..Len(lines)
  BY LenProperties DEF Files
<1>2. \A k \in 1..Len(lines) : Linked(lines, k)
  BY <1>1 DEF Verifies, Linked
<1>3. Verifies(SubSeq(lines, 1, Len(lines)))
  BY <1>1, <1>2, PrefixVerifies
<1>4. HeadOf(file[s]).hash = lines[Len(lines)].event
  BY DEF HeadOf, Last
<1>5. QED
  BY <1>1, <1>3, <1>4 DEF Recorded

\* What is recorded stays recorded when a line is added.
LEMMA RecordedStays ==
  ASSUME NEW s \in Sinks, file[s] \in Files, NEW line \in Line, NEW e,
         file'[s].lines = Append(file[s].lines, line), Recorded(e, s)
  PROVE  Recorded(e, s)'
<1> DEFINE lines == file[s].lines
           longer == Append(lines, line)
<1>1. lines \in Seq(Line) /\ Len(lines) \in Nat /\ DOMAIN lines = 1..Len(lines)
  BY LenProperties DEF Files
<1>2. /\ longer \in Seq(Line) /\ Len(longer) = Len(lines) + 1 /\ DOMAIN longer = 1..Len(longer)
      /\ \A k \in 1..Len(lines) : longer[k] = lines[k]
  BY <1>1, AppendProperties, LenProperties
<1>3. PICK n \in DOMAIN lines : Verifies(SubSeq(lines, 1, n)) /\ lines[n].event = e
  BY DEF Recorded
<1> HIDE DEF lines, longer
<1>4. n \in 1..Len(lines) /\ n \in Nat /\ n \in 1..Len(longer)
  BY <1>1, <1>2, <1>3
<1>5. ASSUME NEW k \in 1..n PROVE Linked(longer, k)
  <2>1. Linked(lines, k)
    BY <1>1, <1>3, <1>4, PrefixVerifies
  <2>2. k \in 1..Len(lines) /\ (k # 1 => k - 1 \in 1..Len(lines))
    BY <1>1, <1>4
  <2>3. longer[k] = lines[k] /\ (k # 1 => longer[k-1] = lines[k-1])
    BY <1>2, <2>2
  <2>4. QED
    BY <2>1, <2>3 DEF Linked
<1>6. Verifies(SubSeq(longer, 1, n))
  BY <1>2, <1>4, <1>5, PrefixVerifies
<1>7. longer[n].event = e
  BY <1>2, <1>3, <1>4
<1>8. file'[s].lines = longer
  BY DEF longer, lines
<1>9. QED
  BY <1>2, <1>4, <1>6, <1>7, <1>8 DEF Recorded

\* An entry made from the head of a file that verifies goes on with its chain.
LEMMA ChainGoesOn ==
  ASSUME NEW f \in Files, NEW g, NEW e \in Events, Verifies(f.lines),
         g.lines = Append(f.lines, [event |-> e, sequence |-> HeadOf(f).sequence + 1,
                                    previous |-> HeadOf(f).hash])
  PROVE  /\ Verifies(g.lines) /\ g.lines # <<>>
         /\ HeadOf(g) = [sequence |-> HeadOf(f).sequence + 1, hash |-> e]
<1> DEFINE lines == f.lines
           entry == [event |-> e, sequence |-> HeadOf(f).sequence + 1, previous |-> HeadOf(f).hash]
           longer == Append(lines, entry)
<1>1. lines \in Seq(Line) /\ Len(lines) \in Nat /\ DOMAIN lines = 1..Len(lines)
  BY LenProperties DEF Files
<1>2. \A k \in 1..Len(lines) : Linked(lines, k)
  BY <1>1 DEF Verifies, Linked
<1>3. /\ HeadOf(f).sequence = Len(lines)
      /\ HeadOf(f).hash = IF lines = <<>> THEN NoEvent ELSE lines[Len(lines)].event
  <2>1. CASE lines = <<>>
    BY <2>1 DEF HeadOf, Genesis
  <2>2. CASE lines # <<>>
    <3>1. Len(lines) \in 1..Len(lines)
      BY <1>1, <2>2
    <3>2. Linked(lines, Len(lines))
      BY <1>2, <3>1
    <3>3. QED
      BY <2>2, <3>2 DEF HeadOf, Last, Linked
  <2>3. QED
    BY <2>1, <2>2
<1>4. entry # Garbage /\ entry.sequence = Len(lines) + 1
      /\ entry.previous = (IF lines = <<>> THEN NoEvent ELSE lines[Len(lines)].event)
      /\ entry.event = e
  <2>1. entry.event # Garbage.event
    BY ChainFileAssumption DEF Garbage
  <2>2. QED
    BY <1>3, <2>1
<1> HIDE DEF entry
<1>5. /\ Len(longer) = Len(lines) + 1 /\ DOMAIN longer = 1..Len(longer)
      /\ \A k \in 1..Len(lines) : longer[k] = lines[k]
      /\ longer[Len(lines) + 1] = entry
  <2>1. lines \in Seq(Line \cup {entry})
    BY <1>1
  <2>2. QED
    BY <1>1, <2>1, AppendProperties, LenProperties
<1> HIDE DEF lines, longer
<1>6. ASSUME NEW k \in 1..Len(longer) PROVE Linked(longer, k)
  <2>1. CASE k = Len(lines) + 1
    <3>1. CASE lines = <<>>
      <4>1. k = 1
        BY <2>1, <3>1
      <4>2. QED
        BY <1>4, <1>5, <2>1, <3>1, <4>1 DEF Linked
    <3>2. CASE lines # <<>>
      <4>1. k # 1 /\ k - 1 = Len(lines) /\ Len(lines) \in 1..Len(lines)
        BY <1>1, <2>1, <3>2
      <4>2. longer[k-1] = lines[Len(lines)]
        BY <1>5, <4>1
      <4>3. QED
        BY <1>4, <1>5, <2>1, <3>2, <4>1, <4>2 DEF Linked
    <3>3. QED
      BY <3>1, <3>2
  <2>2. CASE k # Len(lines) + 1
    <3>1. k \in 1..Len(lines) /\ (k # 1 => k - 1 \in 1..Len(lines))
      BY <1>1, <1>5, <2>2
    <3>2. longer[k] = lines[k] /\ (k # 1 => longer[k-1] = lines[k-1])
      BY <1>5, <3>1
    <3>3. QED
      BY <1>2, <3>1, <3>2 DEF Linked
  <2>3. QED
    BY <2>1, <2>2
<1>7. g.lines = longer
  BY DEF longer, lines, entry
<1>8. Verifies(g.lines)
  BY <1>5, <1>6, <1>7 DEF Verifies, Linked
<1>9. g.lines # <<>>
  <2>1. Len(longer) # 0
    BY <1>1, <1>5
  <2>2. QED
    BY <1>7, <2>1
<1>10. HeadOf(g) = [sequence |-> HeadOf(f).sequence + 1, hash |-> e]
  <2>1. Last(longer) = entry
    BY <1>5 DEF Last
  <2>2. HeadOf(g) = [sequence |-> entry.sequence, hash |-> entry.event]
    BY <1>7, <1>9, <2>1 DEF HeadOf
  <2>3. entry.sequence = HeadOf(f).sequence + 1 /\ entry.event = e
    BY DEF entry
  <2>4. QED
    BY <2>2, <2>3
<1>11. QED
  BY <1>8, <1>9, <1>10

-----------------------------------------------------------------------------
(* Types                                                                   *)

Places == {"idle", "locking", "unlinking", "reading", "appending", "remembering", "unlocking"}
CallTypes ==
  /\ pc \in [Procs -> Places] /\ sink \in [Procs -> Sinks]
  /\ event \in [Procs -> Events \cup {NoEvent}]
  /\ outcome \in [Procs -> {"none", "recorded", "io", "integrity"}]
  /\ answer \in [Events -> {"none", "pending", "granted", "refused"}]
StoreTypes ==
  /\ file \in [Sinks -> Files] /\ lock \in [Sinks -> Procs \cup {NoProc, Dead}]
  /\ old \in [Sinks -> BOOLEAN]
HeadTypes ==
  /\ cache \in [Procs -> [Sinks -> [head : ChainHead, size : Nat]]] /\ head \in [Procs -> ChainHead]
BoundTypes ==
  /\ faults \in 0..MaxFaults /\ crashes \in 0..MaxCrashes /\ stolen \in BOOLEAN /\ joined \in BOOLEAN

LEMMA TypeParts == TypeOK <=> CallTypes /\ StoreTypes /\ HeadTypes /\ BoundTypes
BY DEF TypeOK, CallTypes, StoreTypes, HeadTypes, BoundTypes, Places, Files, Line

LEMMA TypePartsNext == TypeOK' <=> CallTypes' /\ StoreTypes' /\ HeadTypes' /\ BoundTypes'
BY DEF TypeOK, CallTypes, StoreTypes, HeadTypes, BoundTypes, Places, Files, Line

\* A call that ends, or goes on to the fallback.
LEMMA Ending ==
  ASSUME CallTypes, EventsGiven, NEW p \in Procs, pc[p] # "idle",
         Return(p, "granted") \/ \E o \in {"none", "recorded", "io", "integrity"} : Failed(p, o)
  PROVE  /\ CallTypes' /\ EventsGiven' /\ pc'[p] \in {"idle", "locking"}
         /\ \A q \in Procs \ {p} :
              /\ pc'[q] = pc[q] /\ sink'[q] = sink[q] /\ event'[q] = event[q]
              /\ outcome'[q] = outcome[q]
         /\ \A e \in Events : e # event[p] => answer'[e] = answer[e]
         /\ ~Return(p, "granted") => \A e \in Events : answer'[e] = "granted" => answer[e] = "granted"
<1>1. ASSUME NEW a \in {"granted", "refused"}, Return(p, a)
      PROVE  /\ CallTypes' /\ EventsGiven' /\ pc'[p] \in {"idle", "locking"}
             /\ \A q \in Procs \ {p} :
                  /\ pc'[q] = pc[q] /\ sink'[q] = sink[q] /\ event'[q] = event[q]
                  /\ outcome'[q] = outcome[q]
             /\ \A e \in Events : e # event[p] => answer'[e] = answer[e]
             /\ a = "refused" => \A e \in Events : answer'[e] = "granted" => answer[e] = "granted"
  <2>1. /\ pc' = [pc EXCEPT ![p] = "idle"] /\ sink' = [sink EXCEPT ![p] = "primary"]
        /\ event' = [event EXCEPT ![p] = NoEvent] /\ outcome' = [outcome EXCEPT ![p] = "none"]
        /\ answer' = [answer EXCEPT ![event[p]] = a]
    BY <1>1 DEF Return, Leave, Goto
  <2>2. CallTypes' /\ EventsGiven'
    BY <2>1 DEF CallTypes, EventsGiven, Places, Sinks
  <2>3. QED
    BY <2>1, <2>2 DEF CallTypes
<1>2. CASE Return(p, "granted")
  BY <1>1, <1>2
<1>3. ASSUME NEW o \in {"none", "recorded", "io", "integrity"}, Failed(p, o),
             ~Return(p, "refused")
      PROVE  /\ CallTypes' /\ EventsGiven' /\ pc'[p] \in {"idle", "locking"} /\ answer' = answer
             /\ \A q \in Procs \ {p} :
                  /\ pc'[q] = pc[q] /\ sink'[q] = sink[q] /\ event'[q] = event[q]
                  /\ outcome'[q] = outcome[q]
  <2>1. /\ pc' = [pc EXCEPT ![p] = "locking"] /\ sink' = [sink EXCEPT ![p] = "fallback"]
        /\ outcome' = [outcome EXCEPT ![p] = "none"] /\ UNCHANGED <<event, answer>>
    BY <1>3 DEF Failed, Goto
  <2>2. QED
    BY <2>1 DEF CallTypes, EventsGiven, Places, Sinks
<1>4. QED
  BY <1>1, <1>2, <1>3

LEMMA BoundFault == ASSUME BoundTypes, Fault, UNCHANGED <<stolen, joined>> PROVE BoundTypes'
BY ChainFileAssumption DEF BoundTypes, Fault

LEMMA HeadTyped == ASSUME NEW f \in Files PROVE HeadOf(f) \in ChainHead
<1>1. CASE f.lines = <<>>
  BY <1>1 DEF HeadOf, Genesis, ChainHead
<1>2. CASE f.lines # <<>>
  <2>1. f.lines \in Seq(Line) /\ Len(f.lines) \in 1..Len(f.lines)
    BY <1>2, LenProperties, EmptySeq DEF Files
  <2>2. Last(f.lines) \in Line
    BY <2>1, ElementOfSeq DEF Last
  <2>3. /\ Last(f.lines).event \in Events \cup {NoEvent} /\ Last(f.lines).sequence \in Nat
    BY <2>2 DEF Line, Entry, Garbage
  <2>4. QED
    BY <1>2, <2>3 DEF HeadOf, ChainHead
<1>3. QED
  BY <1>1, <1>2

LEMMA CacheTyped ==
  ASSUME NEW R, cache \in [Procs -> [Sinks -> R]], NEW p \in Procs, NEW s \in Sinks, NEW rec \in R,
         cache' = cache \/ cache' = [cache EXCEPT ![p][s] = rec]
  PROVE  cache' \in [Procs -> [Sinks -> R]]
<1>1. CASE cache' = cache
  BY <1>1
<1>2. CASE cache' = [cache EXCEPT ![p][s] = rec]
  <2>1. cache[p] \in [Sinks -> R]
    OBVIOUS
  <2>2. [cache[p] EXCEPT ![s] = rec] \in [Sinks -> R]
    BY <2>1
  <2>3. cache' = [cache EXCEPT ![p] = [cache[p] EXCEPT ![s] = rec]]
    BY <1>2
  <2>4. QED
    BY <2>2, <2>3
<1>3. QED
  BY <1>1, <1>2

LEMMA AddedTyped ==
  ASSUME NEW f \in Files, NEW line \in Line, NEW ended \in BOOLEAN
  PROVE  /\ Added(f, line, ended) \in Files /\ Added(f, line, ended).size = f.size + 1
         /\ f.ended => Added(f, line, ended).lines = Append(f.lines, line)
<1>1. f.lines \in Seq(Line) /\ Len(f.lines) \in Nat /\ f.size \in Nat /\ Garbage \in Line
  BY LenProperties DEF Files, Line
<1>2. Front(f.lines) \in Seq(Line)
  <2>1. \A k \in 1..(Len(f.lines) - 1) : f.lines[k] \in Line
    BY <1>1, ElementOfSeq
  <2>2. QED
    BY <1>1, <2>1, SubSeqProperties DEF Front
<1>3. Append(f.lines, line) \in Seq(Line) /\ Append(Front(f.lines), Garbage) \in Seq(Line)
  BY <1>1, <1>2, AppendProperties
<1>4. QED
  BY <1>1, <1>3 DEF Added, Files

LEMMA EntryTyped ==
  ASSUME TypeOK, EventsGiven, NEW p \in Procs, pc[p] # "idle" PROVE EntryOf(p) \in Line
<1>1. head[p].sequence + 1 \in Nat /\ head[p].hash \in Events \cup {NoEvent} /\ event[p] \in Events
  BY DEF TypeOK, ChainHead, EventsGiven
<1>2. QED
  BY <1>1 DEF EntryOf, Line, Entry

\* What an append does to the file.
LEMMA Appending ==
  ASSUME TypeOK, EventsGiven, NEW p \in Procs, AppendEntry(p)
  PROVE  /\ pc[p] = "appending" /\ UNCHANGED <<locks, cache, sink, event, head, answer, stolen>>
         /\ file' \in [Sinks -> Files]
         /\ \A s \in Sinks \ {sink[p]} : file'[s] = file[s]
         /\ \/ file'[sink[p]] = file[sink[p]]
            \/ /\ file'[sink[p]].size = file[sink[p]].size + 1
               /\ ~joined' => \E line \in Line :
                                /\ line = Garbage \/ line = EntryOf(p)
                                /\ file'[sink[p]].lines = Append(file[sink[p]].lines, line)
         /\ \/ /\ pc' = [pc EXCEPT ![p] = "remembering"] /\ UNCHANGED <<outcome, bounds>>
               /\ file'[sink[p]].size = file[sink[p]].size + 1
               /\ ~joined' => file'[sink[p]].lines = Append(file[sink[p]].lines, EntryOf(p))
            \/ /\ pc' = [pc EXCEPT ![p] = "unlocking"] /\ outcome' = [outcome EXCEPT ![p] = "io"]
               /\ Fault
         /\ joined' \in BOOLEAN /\ (joined => joined')
<1> DEFINE s == sink[p]
           f == file[s]
<1>1. /\ pc[p] = "appending" /\ UNCHANGED <<locks, cache, sink, event, head, answer, stolen>>
      /\ joined' = (joined \/ (~f.ended /\ file' # file))
  BY DEF AppendEntry
<1>2. s \in Sinks /\ f \in Files /\ file \in [Sinks -> Files] /\ joined \in BOOLEAN
  BY TypeParts DEF CallTypes, StoreTypes, BoundTypes
<1>3. EntryOf(p) \in Line /\ Garbage \in Line
  BY <1>1, EntryTyped DEF Line
<1> HIDE DEF s, f
<1> DEFINE changed(g) ==
             /\ g \in Files /\ g.size = f.size + 1
             /\ f.ended => \E line \in Line :
                               /\ line = Garbage \/ line = EntryOf(p)
                               /\ g.lines = Append(f.lines, line)
<1>4. /\ changed(Added(f, EntryOf(p), TRUE)) /\ changed(Added(f, EntryOf(p), FALSE))
      /\ changed(Added(f, Garbage, FALSE))
      /\ f.ended => Added(f, EntryOf(p), TRUE).lines = Append(f.lines, EntryOf(p))
  BY <1>2, <1>3, AddedTyped
<1>5. PICK g \in {f, Added(f, Garbage, FALSE), Added(f, EntryOf(p), FALSE), Added(f, EntryOf(p), TRUE)} :
        /\ file' = [file EXCEPT ![s] = g]
        /\ \/ /\ g = Added(f, EntryOf(p), TRUE)
              /\ pc' = [pc EXCEPT ![p] = "remembering"] /\ UNCHANGED <<outcome, bounds>>
           \/ /\ pc' = [pc EXCEPT ![p] = "unlocking"] /\ outcome' = [outcome EXCEPT ![p] = "io"]
              /\ Fault
  BY DEF AppendEntry, Goto, Conclude, s, f
<1>6. g = f \/ changed(g)
  BY <1>4, <1>5
<1>7. file'[s] = g /\ file' \in [Sinks -> Files] /\ \A t \in Sinks \ {s} : file'[t] = file[t]
  BY <1>2, <1>5, <1>6
<1>8. changed(g) /\ ~joined' => f.ended
  <2>1. SUFFICES ASSUME changed(g), ~joined' PROVE f.ended
    OBVIOUS
  <2>2. g # f
    <3>1. f.size \in Nat /\ g.size = f.size + 1
      BY <1>2, <2>1 DEF Files
    <3>2. g.size # f.size
      BY <3>1
    <3>3. QED
      BY <3>2
  <2>3. file' # file
    BY <1>7, <2>2 DEF f
  <2>4. QED
    BY <1>1, <2>1, <2>3
<1>9. joined' \in BOOLEAN /\ (joined => joined')
  BY <1>1, <1>2
<1>10. g = Added(f, EntryOf(p), TRUE) /\ ~joined' => g.lines = Append(f.lines, EntryOf(p))
  BY <1>4, <1>8
<1>11. g = Added(f, EntryOf(p), TRUE) => g.size = f.size + 1
  BY <1>4
<1> HIDE DEF changed
<1>12. \/ g = f
       \/ /\ g.size = f.size + 1
          /\ ~joined' => \E line \in Line : /\ line = Garbage \/ line = EntryOf(p)
                                            /\ g.lines = Append(f.lines, line)
  BY <1>6, <1>8 DEF changed
<1>13. QED
  BY <1>1, <1>5, <1>7, <1>9, <1>10, <1>11, <1>12 DEF s, f

-----------------------------------------------------------------------------
(* What each action does                                                   *)

\* An action that touches no file, no head and no remembered head, and keeps whoever is
\* inside where it is, or ends a call.
LEMMA Waiting ==
  ASSUME TypeOK, EventsGiven, NEW p \in Procs, NEW e \in Events,
         Call(p, e) \/ Acquire(p) \/ GiveUp(p) \/ SeeOld(p) \/ Unlink(p)
  PROVE  /\ CallTypes' /\ EventsGiven' /\ StoreTypes' /\ BoundTypes'
         /\ UNCHANGED <<file, cache, head, joined>> /\ ~Inside(p) /\ (stolen => stolen')
         /\ pc'[p] \in {"idle", "locking", "unlinking", "reading"}
         /\ \A q \in Procs \ {p} :
              /\ pc'[q] = pc[q] /\ sink'[q] = sink[q] /\ event'[q] = event[q]
              /\ outcome'[q] = outcome[q]
         /\ \A d \in Events : answer'[d] = "granted" => answer[d] = "granted"
         /\ Inside(p)' => lock[sink'[p]] = NoProc /\ lock'[sink'[p]] = p
         /\ \A s \in Sinks : lock'[s] # lock[s] /\ lock[s] \in Procs => stolen'
<1>0. CallTypes /\ StoreTypes /\ BoundTypes /\ HeadTypes
  BY TypeParts
<1>1. CASE Call(p, e)
  <2>1. /\ pc[p] = "idle" /\ answer[e] = "none" /\ pc' = [pc EXCEPT ![p] = "locking"]
        /\ event' = [event EXCEPT ![p] = e] /\ answer' = [answer EXCEPT ![e] = "pending"]
        /\ UNCHANGED <<file, lock, old, cache, sink, head, outcome, faults, crashes, stolen, joined>>
    BY <1>1 DEF Call, Goto, locks, bounds
  <2>2. CallTypes' /\ EventsGiven' /\ StoreTypes' /\ BoundTypes'
    BY <1>0, <2>1 DEF CallTypes, EventsGiven, StoreTypes, BoundTypes, Places
  <2>3. ~Inside(p) /\ ~Inside(p)'
    BY <1>0, <2>1 DEF Inside, CallTypes
  <2>4. QED
    BY <1>0, <2>1, <2>2, <2>3 DEF CallTypes
<1>2. CASE Acquire(p)
  <2>1. /\ pc[p] = "locking" /\ lock[sink[p]] = NoProc /\ UNCHANGED <<file, cache, head, stolen, joined>>
        /\ old' = [old EXCEPT ![sink[p]] = FALSE] /\ sink[p] \in Sinks
    BY <1>0, <1>2 DEF Acquire, CallTypes
  <2>2. ~Inside(p)
    BY <2>1 DEF Inside
  <2>3. \A s \in Sinks : lock'[s] # lock[s] => lock[s] = NoProc
    BY <1>0, <1>2, <2>1 DEF Acquire, StoreTypes
  <2>4. CASE /\ lock' = [lock EXCEPT ![sink[p]] = p] /\ pc' = [pc EXCEPT ![p] = "reading"]
             /\ UNCHANGED <<sink, event, outcome, answer, bounds>>
    <3>1. CallTypes' /\ EventsGiven' /\ StoreTypes' /\ BoundTypes'
      BY <1>0, <2>1, <2>4 DEF CallTypes, EventsGiven, StoreTypes, BoundTypes, Places, bounds
    <3>2. QED
      BY <1>0, <2>1, <2>2, <2>3, <2>4, <3>1, ChainFileAssumption DEF CallTypes, StoreTypes
  <2>5. CASE /\ Fault /\ \E l \in {NoProc, Dead} : lock' = [lock EXCEPT ![sink[p]] = l]
             /\ Failed(p, "io")
    <3>1. /\ CallTypes' /\ EventsGiven' /\ pc'[p] \in {"idle", "locking"} /\ ~Return(p, "granted")
      <4>1. pc[p] # "idle" /\ event[p] \in Events
        BY <2>1 DEF EventsGiven
      <4>2. ~Return(p, "granted")
        BY <1>0, <2>5, <4>1 DEF Failed, Return, Leave, Goto, CallTypes
      <4>3. QED
        BY <1>0, <2>5, <4>1, <4>2, Ending
    <3>2. StoreTypes' /\ BoundTypes'
      BY <1>0, <2>1, <2>5, BoundFault DEF StoreTypes
    <3>3. ~Inside(p)'
      BY <3>1 DEF Inside
    <3>4. /\ \A q \in Procs \ {p} :
               /\ pc'[q] = pc[q] /\ sink'[q] = sink[q] /\ event'[q] = event[q]
               /\ outcome'[q] = outcome[q]
          /\ \A d \in Events : answer'[d] = "granted" => answer[d] = "granted"
      BY <1>0, <2>1, <2>5, <3>1, Ending
    <3>5. QED
      BY <2>1, <2>2, <2>3, <3>1, <3>2, <3>3, <3>4, ChainFileAssumption
  <2>6. QED
    BY <1>2, <2>4, <2>5 DEF Acquire, Goto
<1>3. CASE GiveUp(p)
  <2>1. /\ pc[p] = "locking" /\ Failed(p, "io")
        /\ UNCHANGED <<file, lock, old, cache, head, faults, crashes, stolen, joined>>
    BY <1>3 DEF GiveUp, locks, bounds
  <2>2. ~Return(p, "granted")
    <3>1. pc[p] # "idle" /\ event[p] \in Events
      BY <2>1 DEF EventsGiven
    <3>2. QED
      BY <1>0, <2>1, <3>1 DEF Failed, Return, Leave, Goto, CallTypes
  <2>3. /\ CallTypes' /\ EventsGiven' /\ pc'[p] \in {"idle", "locking"}
        /\ \A q \in Procs \ {p} :
             /\ pc'[q] = pc[q] /\ sink'[q] = sink[q] /\ event'[q] = event[q]
             /\ outcome'[q] = outcome[q]
        /\ \A d \in Events : answer'[d] = "granted" => answer[d] = "granted"
    BY <1>0, <2>1, <2>2, Ending
  <2>4. StoreTypes' /\ BoundTypes'
    BY <1>0, <2>1 DEF StoreTypes, BoundTypes
  <2>5. ~Inside(p) /\ ~Inside(p)'
    BY <2>1, <2>3 DEF Inside
  <2>6. QED
    BY <2>1, <2>3, <2>4, <2>5
<1>4. CASE SeeOld(p)
  <2>1. /\ pc[p] = "locking" /\ pc' = [pc EXCEPT ![p] = "unlinking"]
        /\ UNCHANGED <<file, lock, old, cache, sink, event, head, outcome, answer, faults, crashes,
                       stolen, joined>>
    BY <1>4 DEF SeeOld, Goto, locks, call, bounds
  <2>2. CallTypes' /\ EventsGiven' /\ StoreTypes' /\ BoundTypes'
    BY <1>0, <2>1 DEF CallTypes, EventsGiven, StoreTypes, BoundTypes, Places
  <2>3. ~Inside(p) /\ ~Inside(p)'
    BY <1>0, <2>1 DEF Inside, CallTypes
  <2>4. QED
    BY <1>0, <2>1, <2>2, <2>3 DEF CallTypes
<1>5. CASE Unlink(p)
  <2>1. /\ pc[p] = "unlinking" /\ pc' = [pc EXCEPT ![p] = "locking"] /\ sink[p] \in Sinks
        /\ lock' = [lock EXCEPT ![sink[p]] = NoProc] /\ old' = [old EXCEPT ![sink[p]] = FALSE]
        /\ UNCHANGED <<file, cache, sink, event, head, outcome, answer, faults, crashes, joined>>
    BY <1>0, <1>5 DEF Unlink, Goto, call, bounds, CallTypes
  <2>2. stolen' = (stolen \/ lock[sink[p]] \in Procs)
    BY <1>5 DEF Unlink
  <2>3. stolen' \in BOOLEAN /\ (stolen => stolen') /\ (lock[sink[p]] \in Procs => stolen')
    BY <1>0, <2>2 DEF BoundTypes
  <2>4. CallTypes' /\ EventsGiven' /\ StoreTypes' /\ BoundTypes'
    BY <1>0, <2>1, <2>3 DEF CallTypes, EventsGiven, StoreTypes, BoundTypes, Places
  <2>5. ~Inside(p) /\ ~Inside(p)'
    BY <1>0, <2>1 DEF Inside, CallTypes
  <2>6. \A s \in Sinks : lock'[s] # lock[s] => s = sink[p]
    BY <1>0, <2>1 DEF StoreTypes
  <2>7. QED
    BY <1>0, <2>1, <2>3, <2>4, <2>5, <2>6 DEF CallTypes
<1>6. QED
  BY <1>1, <1>2, <1>3, <1>4, <1>5

\* Nobody else's place inside is disturbed, and no head that is remembered: what is kept
\* of the files is kept.
LEMMA Outside ==
  ASSUME TypeOK, Started, Chained, NEW p \in Procs, UNCHANGED file,
         cache' = cache \/ cache' = [cache EXCEPT ![p] = NoCache],
         \A q \in Procs \ {p} :
           /\ pc'[q] = pc[q] /\ sink'[q] = sink[q] /\ event'[q] = event[q]
           /\ outcome'[q] = outcome[q] /\ head'[q] = head[q]
           /\ Inside(q) => lock'[sink[q]] = q,
         pc'[p] \in {"idle", "locking", "unlinking", "reading"},
         Inside(p)' => lock'[sink'[p]] = p
  PROVE  Chained'
<1>1. HoldersHold'
  BY DEF Chained, HoldersHold, Inside
<1>2. CachesTrue'
  <2>1. ASSUME NEW q \in Procs, NEW s \in Sinks
        PROVE  /\ cache'[q][s].size <= file[s].size
               /\ cache'[q][s].size = file[s].size =>
                    Verifies(file[s].lines) /\ cache'[q][s].head = HeadOf(file[s])
    <3>1. CASE cache'[q] = cache[q]
      BY <3>1 DEF Chained, CachesTrue
    <3>2. CASE cache'[q] = NoCache
      <4>1. cache'[q][s].size = 0 /\ cache'[q][s].head = Genesis
        BY <3>2 DEF NoCache
      <4>2. file[s].size \in Nat
        BY DEF TypeOK
      <4>3. ASSUME file[s].size = 0 PROVE Verifies(file[s].lines) /\ HeadOf(file[s]) = Genesis
        <5>1. file[s].lines = <<>>
          BY <4>3 DEF Started
        <5>2. QED
          BY <5>1 DEF Verifies, HeadOf
      <4>4. QED
        BY <4>1, <4>2, <4>3
    <3>3. QED
      BY <3>1, <3>2 DEF TypeOK
  <2>2. QED
    BY <2>1 DEF CachesTrue, Verifies, HeadOf
<1>3. HeadsTrue'
  <2>1. ASSUME NEW q \in Procs \ {p}
        PROVE  /\ pc'[q] = "appending" =>
                    Verifies(file'[sink'[q]].lines) /\ head'[q] = HeadOf(file'[sink'[q]])
               /\ pc'[q] = "remembering" =>
                    /\ Verifies(file'[sink'[q]].lines) /\ file'[sink'[q]].lines # <<>>
                    /\ HeadOf(file'[sink'[q]]) = [sequence |-> head'[q].sequence + 1, hash |-> event'[q]]
               /\ pc'[q] = "unlocking" /\ outcome'[q] = "recorded" => Recorded(event'[q], sink'[q])
    BY DEF Chained, HeadsTrue, HeadTrue
  <2>2. \A q \in Procs : Recorded(event[q], sink[q])' <=> Recorded(event'[q], sink'[q])
    BY DEF Recorded, Verifies
  <2>3. QED
    BY <2>1, <2>2 DEF HeadsTrue, HeadTrue, Verifies, HeadOf
<1>4. QED
  BY <1>1, <1>2, <1>3 DEF Chained

\* Who holds the lock of its file works on it alone: nothing the others have read changes.
LEMMA Holding ==
  ASSUME TypeOK, Chained, NEW p \in Procs, Inside(p), Inside(p)', CachesTrue', HeadTrue(p)',
         UNCHANGED <<lock, sink, event>>,
         \A s \in Sinks \ {sink[p]} : file'[s] = file[s],
         \A q \in Procs \ {p} : pc'[q] = pc[q] /\ outcome'[q] = outcome[q] /\ head'[q] = head[q]
  PROVE  Chained'
<1>1. HoldersHold'
  BY DEF Chained, HoldersHold, Inside
<1>2. ASSUME NEW q \in Procs \ {p} PROVE HeadTrue(q)'
  <2>1. CASE Inside(q)
    <3>1. sink[q] \in Sinks /\ sink[q] # sink[p]
      BY <2>1 DEF Chained, HoldersHold, TypeOK
    <3>2. file'[sink[q]] = file[sink[q]] /\ HeadTrue(q)
      BY <3>1 DEF Chained, HeadsTrue
    <3>3. Recorded(event[q], sink[q])' <=> Recorded(event[q], sink[q])
      BY <3>2 DEF Recorded, Verifies
    <3>4. /\ UNCHANGED <<pc[q], sink[q], event[q], head[q], outcome[q]>>
          /\ Verifies(file[sink[q]].lines)' <=> Verifies(file[sink[q]].lines)
          /\ UNCHANGED HeadOf(file[sink[q]]) /\ UNCHANGED file[sink[q]].lines
      BY <3>2 DEF Verifies, HeadOf
    <3>5. QED
      BY <3>2, <3>3, <3>4 DEF HeadTrue
  <2>2. CASE ~Inside(q)
    BY <2>2 DEF Inside, HeadTrue
  <2>3. QED
    BY <2>1, <2>2
<1>3. QED
  BY <1>1, <1>2 DEF Chained, HeadsTrue

\* What has been granted is recorded for good.
LEMMA GrantedStays ==
  ASSUME Granted, UNCHANGED file,
         \A e \in Events : answer'[e] = "granted" =>
           answer[e] = "granted" \/ \E s \in Sinks : Recorded(e, s)
  PROVE  Granted'
<1>1. \A e \in Events, s \in Sinks : Recorded(e, s)' <=> Recorded(e, s)
  BY DEF Recorded, Verifies
<1>2. QED
  BY <1>1 DEF Granted

LEMMA WaitingStep ==
  ASSUME ChainInv, NEW p \in Procs, NEW e \in Events,
         Call(p, e) \/ Acquire(p) \/ GiveUp(p) \/ SeeOld(p) \/ Unlink(p)
  PROVE  ChainInv'
<1>1. TypeOK /\ EventsGiven /\ Started /\ HeadTypes
  BY TypeParts DEF ChainInv
<1>2. /\ CallTypes' /\ EventsGiven' /\ StoreTypes' /\ BoundTypes'
      /\ UNCHANGED <<file, cache, head, joined>> /\ ~Inside(p) /\ (stolen => stolen')
      /\ pc'[p] \in {"idle", "locking", "unlinking", "reading"}
      /\ \A q \in Procs \ {p} :
           /\ pc'[q] = pc[q] /\ sink'[q] = sink[q] /\ event'[q] = event[q]
           /\ outcome'[q] = outcome[q]
      /\ \A d \in Events : answer'[d] = "granted" => answer[d] = "granted"
      /\ Inside(p)' => lock[sink'[p]] = NoProc /\ lock'[sink'[p]] = p
      /\ \A s \in Sinks : lock'[s] # lock[s] /\ lock[s] \in Procs => stolen'
  BY <1>1, Waiting
<1>3. HeadTypes'
  BY <1>1, <1>2 DEF HeadTypes
<1>4. TypeOK'
  BY <1>2, <1>3, TypePartsNext
<1>5. Started'
  BY <1>1, <1>2 DEF Started
<1>6. ASSUME Undisturbed' PROVE Chained' /\ Granted'
  <2>1. ~stolen' /\ Chained /\ Granted
    BY <1>2, <1>6 DEF Undisturbed, ChainInv
  <2>2. ASSUME NEW q \in Procs \ {p}, Inside(q) PROVE lock'[sink[q]] = q
    <3>1. lock[sink[q]] = q /\ sink[q] \in Sinks
      BY <1>1, <2>1, <2>2 DEF Chained, HoldersHold, TypeOK
    <3>2. QED
      BY <1>2, <2>1, <3>1
  <2>3. Chained'
    BY <1>1, <1>2, <2>1, <2>2, Outside
  <2>4. Granted'
    BY <1>2, <2>1, GrantedStays
  <2>5. QED
    BY <2>3, <2>4
<1>7. QED
  BY <1>2, <1>4, <1>5, <1>6 DEF ChainInv

LEMMA ReadStep == ASSUME ChainInv, NEW p \in Procs, ReadHead(p) PROVE ChainInv'
<1> DEFINE s == sink[p]
           f == file[s]
<1>1. TypeOK /\ EventsGiven /\ Started /\ CallTypes /\ StoreTypes /\ HeadTypes /\ BoundTypes
  BY TypeParts DEF ChainInv
<1>2. /\ pc[p] = "reading" /\ UNCHANGED <<file, lock, old, sink, event, answer, stolen, joined>>
      /\ s \in Sinks /\ f \in Files
  BY <1>1 DEF ReadHead, locks, CallTypes, StoreTypes
<1>3. \/ /\ cache[p][s].size = f.size /\ head' = [head EXCEPT ![p] = cache[p][s].head]
         /\ pc' = [pc EXCEPT ![p] = "appending"] /\ UNCHANGED <<cache, outcome, faults, crashes>>
      \/ /\ Verifies(f.lines) /\ head' = [head EXCEPT ![p] = HeadOf(f)]
         /\ cache' = [cache EXCEPT ![p][s] = [head |-> HeadOf(f), size |-> f.size]]
         /\ pc' = [pc EXCEPT ![p] = "appending"] /\ UNCHANGED <<outcome, faults, crashes>>
      \/ /\ \E o \in {"io", "integrity"} : outcome' = [outcome EXCEPT ![p] = o]
         /\ pc' = [pc EXCEPT ![p] = "unlocking"] /\ UNCHANGED <<cache, head>>
         /\ Fault \/ UNCHANGED <<faults, crashes>>
  BY DEF ReadHead, Remembered, Accepted, Goto, Conclude, bounds
<1>4. HeadOf(f) \in ChainHead /\ f.size \in Nat /\ cache[p][s] \in [head : ChainHead, size : Nat]
  BY <1>1, <1>2, HeadTyped DEF Files, HeadTypes
<1> HIDE DEF f, s
<1>5. CallTypes' /\ EventsGiven' /\ StoreTypes'
  BY <1>1, <1>2, <1>3 DEF CallTypes, EventsGiven, StoreTypes, Places
<1>6. BoundTypes'
  <2>1. CASE UNCHANGED <<faults, crashes>>
    BY <1>1, <1>2, <2>1 DEF BoundTypes
  <2>2. CASE Fault
    BY <1>1, <1>2, <2>2, BoundFault
  <2>3. QED
    BY <1>3, <2>1, <2>2
<1>7. HeadTypes'
  <2>1. cache' \in [Procs -> [Sinks -> [head : ChainHead, size : Nat]]]
    <3>1. [head |-> HeadOf(f), size |-> f.size] \in [head : ChainHead, size : Nat]
      BY <1>4
    <3>2. cache' = cache \/ cache' = [cache EXCEPT ![p][s] = [head |-> HeadOf(f), size |-> f.size]]
      BY <1>3
    <3>3. cache \in [Procs -> [Sinks -> [head : ChainHead, size : Nat]]]
      BY <1>1 DEF HeadTypes
    <3>4. QED
      BY <1>2, <3>1, <3>2, <3>3, CacheTyped
  <2>2. head' \in [Procs -> ChainHead]
    BY <1>1, <1>3, <1>4 DEF HeadTypes
  <2>3. QED
    BY <2>1, <2>2 DEF HeadTypes
<1>8. TypeOK' /\ Started'
  BY <1>1, <1>2, <1>5, <1>6, <1>7, TypePartsNext DEF Started
<1>9. ASSUME Undisturbed' PROVE Chained' /\ Granted'
  <2>1. Chained /\ Granted
    BY <1>2, <1>9 DEF Undisturbed, ChainInv
  <2>2. \/ Verifies(f.lines) /\ head'[p] = HeadOf(f) /\ pc'[p] = "appending"
        \/ pc'[p] = "unlocking" /\ outcome'[p] # "recorded"
    <3>1. cache[p][s].size = f.size => Verifies(f.lines) /\ cache[p][s].head = HeadOf(f)
      BY <1>2, <2>1 DEF Chained, CachesTrue, f
    <3>2. CASE \/ cache[p][s].size = f.size /\ head' = [head EXCEPT ![p] = cache[p][s].head]
                  /\ pc' = [pc EXCEPT ![p] = "appending"]
               \/ Verifies(f.lines) /\ head' = [head EXCEPT ![p] = HeadOf(f)]
                  /\ pc' = [pc EXCEPT ![p] = "appending"]
      BY <1>1, <3>1, <3>2 DEF CallTypes, HeadTypes
    <3>3. CASE /\ \E o \in {"io", "integrity"} : outcome' = [outcome EXCEPT ![p] = o]
               /\ pc' = [pc EXCEPT ![p] = "unlocking"]
      BY <1>1, <3>3 DEF CallTypes
    <3>4. QED
      BY <1>3, <3>2, <3>3
  <2>3. HeadTrue(p)' /\ Inside(p) /\ Inside(p)'
    BY <1>2, <2>2 DEF HeadTrue, Inside, Verifies, HeadOf, f, s
  <2>4. CachesTrue'
    <3>1. CASE cache' = cache
      BY <1>2, <2>1, <3>1 DEF Chained, CachesTrue, Verifies, HeadOf
    <3>2. CASE /\ Verifies(f.lines)
               /\ cache' = [cache EXCEPT ![p][s] = [head |-> HeadOf(f), size |-> f.size]]
      <4>1. ASSUME NEW q \in Procs, NEW t \in Sinks
            PROVE  /\ cache'[q][t].size <= file[t].size
                   /\ cache'[q][t].size = file[t].size =>
                        Verifies(file[t].lines) /\ cache'[q][t].head = HeadOf(file[t])
        <5>1. CASE q = p /\ t = s
          <6>1. cache'[q][t] = [head |-> HeadOf(f), size |-> f.size]
            BY <1>1, <1>2, <3>2, <5>1 DEF HeadTypes
          <6>2. QED
            BY <1>4, <3>2, <5>1, <6>1 DEF f
        <5>2. CASE ~(q = p /\ t = s)
          <6>1. cache'[q][t] = cache[q][t]
            BY <1>1, <1>2, <3>2, <5>2 DEF HeadTypes
          <6>2. QED
            BY <2>1, <6>1 DEF Chained, CachesTrue
        <5>3. QED
          BY <5>1, <5>2
      <4>2. QED
        BY <1>2, <4>1 DEF CachesTrue, Verifies, HeadOf
    <3>3. QED
      BY <1>3, <3>1, <3>2
  <2>5. \A q \in Procs \ {p} : pc'[q] = pc[q] /\ outcome'[q] = outcome[q] /\ head'[q] = head[q]
    BY <1>1, <1>3 DEF CallTypes, HeadTypes
  <2>6. Chained'
    BY <1>1, <1>2, <2>1, <2>3, <2>4, <2>5, Holding
  <2>7. Granted'
    BY <1>2, <2>1, GrantedStays
  <2>8. QED
    BY <2>6, <2>7
<1>10. QED
  BY <1>5, <1>8, <1>9 DEF ChainInv

LEMMA AppendStep == ASSUME ChainInv, NEW p \in Procs, AppendEntry(p) PROVE ChainInv'
<1> DEFINE s == sink[p]
<1>1. TypeOK /\ EventsGiven /\ Started /\ CallTypes /\ StoreTypes /\ HeadTypes /\ BoundTypes
  BY TypeParts DEF ChainInv
<1>2. /\ pc[p] = "appending" /\ UNCHANGED <<lock, old, cache, sink, event, head, answer, stolen>>
      /\ file' \in [Sinks -> Files] /\ joined' \in BOOLEAN /\ (joined => joined')
      /\ \A t \in Sinks \ {s} : file'[t] = file[t]
      /\ s \in Sinks /\ file[s] \in Files
  BY <1>1, Appending DEF locks, CallTypes, StoreTypes
<1>3. \/ file'[s] = file[s]
      \/ /\ file'[s].size = file[s].size + 1
         /\ ~joined' => \E line \in Line : file'[s].lines = Append(file[s].lines, line)
  BY <1>1, Appending
<1>4. \/ /\ pc' = [pc EXCEPT ![p] = "remembering"] /\ UNCHANGED <<outcome, faults, crashes>>
         /\ file'[s].size = file[s].size + 1
         /\ ~joined' => file'[s].lines = Append(file[s].lines, EntryOf(p))
      \/ /\ pc' = [pc EXCEPT ![p] = "unlocking"] /\ outcome' = [outcome EXCEPT ![p] = "io"]
         /\ Fault
  BY <1>1, Appending DEF bounds
<1> HIDE DEF s
<1>5. CallTypes' /\ EventsGiven' /\ StoreTypes' /\ HeadTypes'
  <2>1. CallTypes' /\ EventsGiven'
    BY <1>1, <1>2, <1>4 DEF CallTypes, EventsGiven, Places
  <2>2. StoreTypes' /\ HeadTypes'
    BY <1>1, <1>2 DEF StoreTypes, HeadTypes
  <2>3. QED
    BY <2>1, <2>2
<1>6. BoundTypes'
  <2>1. faults' \in 0..MaxFaults /\ crashes' \in 0..MaxCrashes
    BY <1>1, <1>4, ChainFileAssumption DEF BoundTypes, Fault
  <2>2. QED
    BY <1>1, <1>2, <2>1 DEF BoundTypes
<1>7. file[s].size \in Nat
  BY <1>2 DEF Files
<1>8. TypeOK' /\ Started'
  <2>1. ASSUME NEW t \in Sinks, file'[t].size = 0 PROVE file'[t].lines = <<>>
    <3>1. CASE t = s
      <4>1. file'[s] = file[s]
        BY <1>3, <1>7, <2>1, <3>1
      <4>2. QED
        BY <1>1, <2>1, <3>1, <4>1 DEF Started
    <3>2. CASE t # s
      BY <1>1, <1>2, <2>1, <3>2 DEF Started
    <3>3. QED
      BY <3>1, <3>2
  <2>2. QED
    BY <1>5, <1>6, <2>1, TypePartsNext DEF Started
<1>9. ASSUME Undisturbed' PROVE Chained' /\ Granted'
  <2>1. Chained /\ Granted /\ ~joined'
    BY <1>2, <1>9 DEF Undisturbed, ChainInv
  <2>2. \/ file'[s] = file[s]
        \/ \E line \in Line : file'[s].lines = Append(file[s].lines, line)
    BY <1>3, <2>1
  <2>3. Verifies(file[s].lines) /\ head[p] = HeadOf(file[s]) /\ event[p] \in Events
    BY <1>1, <1>2, <2>1 DEF Chained, HeadsTrue, HeadTrue, EventsGiven, s
  <2>4. HeadTrue(p)' /\ Inside(p) /\ Inside(p)'
    <3>1. CASE /\ pc' = [pc EXCEPT ![p] = "remembering"]
               /\ file'[s].lines = Append(file[s].lines, EntryOf(p))
      <4>1. file'[s].lines = Append(file[s].lines, [event |-> event[p], sequence |-> HeadOf(file[s]).sequence + 1,
                                                    previous |-> HeadOf(file[s]).hash])
        BY <2>3, <3>1 DEF EntryOf
      <4>2. /\ Verifies(file'[s].lines) /\ file'[s].lines # <<>>
            /\ HeadOf(file'[s]) = [sequence |-> HeadOf(file[s]).sequence + 1, hash |-> event[p]]
        <5> DEFINE before == file[s]
                   after == file'[s]
        <5>1. before \in Files /\ Verifies(before.lines) /\ event[p] \in Events
          BY <1>2, <2>3
        <5>2. after.lines = Append(before.lines, [event |-> event[p], sequence |-> HeadOf(before).sequence + 1,
                                                  previous |-> HeadOf(before).hash])
          BY <4>1
        <5> HIDE DEF before, after
        <5>3. /\ Verifies(after.lines) /\ after.lines # <<>>
              /\ HeadOf(after) = [sequence |-> HeadOf(before).sequence + 1, hash |-> event[p]]
          BY <5>1, <5>2, ChainGoesOn
        <5>4. QED
          BY <5>3 DEF before, after
      <4>3. /\ pc'[p] = "remembering" /\ sink'[p] = s /\ event'[p] = event[p]
            /\ head'[p] = HeadOf(file[s])
        BY <1>1, <1>2, <2>3, <3>1 DEF CallTypes, s
      <4>4. QED
        BY <1>2, <4>2, <4>3 DEF HeadTrue, Inside, Verifies, HeadOf
    <3>2. CASE pc' = [pc EXCEPT ![p] = "unlocking"] /\ outcome' = [outcome EXCEPT ![p] = "io"]
      <4>1. pc'[p] = "unlocking" /\ outcome'[p] = "io"
        BY <1>1, <3>2 DEF CallTypes
      <4>2. QED
        BY <1>2, <4>1 DEF HeadTrue, Inside
    <3>3. QED
      BY <1>4, <2>1, <3>1, <3>2
  <2>5. CachesTrue'
    <3>1. ASSUME NEW q \in Procs, NEW t \in Sinks
          PROVE  /\ cache[q][t].size <= file'[t].size
                 /\ cache[q][t].size = file'[t].size =>
                      Verifies(file'[t].lines) /\ cache[q][t].head = HeadOf(file'[t])
      <4>1. CASE file'[t] = file[t]
        BY <2>1, <4>1 DEF Chained, CachesTrue
      <4>2. CASE file'[t] # file[t]
        <5>1. t = s /\ file'[t].size = file[t].size + 1
          BY <1>2, <1>3, <4>2
        <5>2. cache[q][t].size <= file[t].size /\ cache[q][t].size \in Nat
          BY <1>1, <2>1 DEF Chained, CachesTrue, HeadTypes
        <5>3. QED
          BY <1>7, <5>1, <5>2
      <4>3. QED
        BY <4>1, <4>2
    <3>2. QED
      BY <1>2, <3>1 DEF CachesTrue, Verifies, HeadOf
  <2>6. \A q \in Procs \ {p} : pc'[q] = pc[q] /\ outcome'[q] = outcome[q] /\ head'[q] = head[q]
    BY <1>1, <1>2, <1>4 DEF CallTypes
  <2>7. Chained'
    BY <1>1, <1>2, <2>1, <2>4, <2>5, <2>6, Holding DEF s
  <2>8. ASSUME NEW e \in Events, NEW t \in Sinks, Recorded(e, t) PROVE Recorded(e, t)'
    <3>1. CASE file'[t] = file[t]
      BY <2>8, <3>1 DEF Recorded
    <3>2. CASE file'[t] # file[t]
      <4>1. t = s
        BY <1>2, <3>2
      <4>2. PICK line \in Line : file'[s].lines = Append(file[s].lines, line)
        BY <2>2, <3>2, <4>1
      <4>3. QED
        BY <1>2, <2>8, <4>1, <4>2, RecordedStays
    <3>3. QED
      BY <3>1, <3>2
  <2>9. Granted'
    BY <1>2, <2>1, <2>8 DEF Granted
  <2>10. QED
    BY <2>7, <2>9
<1>10. QED
  BY <1>5, <1>8, <1>9 DEF ChainInv

LEMMA RememberStep == ASSUME ChainInv, NEW p \in Procs, Remember(p) PROVE ChainInv'
<1> DEFINE s == sink[p]
           entry == [sequence |-> head[p].sequence + 1, hash |-> event[p]]
           kept == [head |-> entry, size |-> file[s].size]
<1>1. TypeOK /\ EventsGiven /\ Started /\ CallTypes /\ StoreTypes /\ HeadTypes /\ BoundTypes
  BY TypeParts DEF ChainInv
<1>2. /\ pc[p] = "remembering" /\ pc' = [pc EXCEPT ![p] = "unlocking"]
      /\ UNCHANGED <<file, lock, old, sink, event, head, answer, stolen, joined>>
      /\ s \in Sinks /\ file[s] \in Files
  BY <1>1 DEF Remember, locks, Goto, CallTypes, StoreTypes
<1>3. \/ /\ cache' = [cache EXCEPT ![p][s] = kept] /\ outcome' = [outcome EXCEPT ![p] = "recorded"]
         /\ UNCHANGED <<faults, crashes>>
      \/ Fault /\ outcome' = [outcome EXCEPT ![p] = "io"] /\ UNCHANGED cache
  BY DEF Remember, Conclude, bounds
<1>4. kept \in [head : ChainHead, size : Nat] /\ kept.head = entry /\ kept.size = file[s].size
  <2>1. head[p].sequence + 1 \in Nat /\ event[p] \in Events \cup {NoEvent} /\ file[s].size \in Nat
    BY <1>1, <1>2 DEF HeadTypes, CallTypes, ChainHead, Files
  <2>2. QED
    BY <2>1 DEF ChainHead
<1> HIDE DEF s, kept
<1>5. CallTypes' /\ EventsGiven' /\ StoreTypes'
  BY <1>1, <1>2, <1>3 DEF CallTypes, EventsGiven, StoreTypes, Places
<1>6. BoundTypes'
  <2>1. CASE UNCHANGED <<faults, crashes>>
    BY <1>1, <1>2, <2>1 DEF BoundTypes
  <2>2. CASE Fault
    BY <1>1, <1>2, <2>2, BoundFault
  <2>3. QED
    BY <1>3, <2>1, <2>2
<1>7. HeadTypes'
  <2>1. cache' = cache \/ cache' = [cache EXCEPT ![p][s] = kept]
    BY <1>3
  <2>2. cache \in [Procs -> [Sinks -> [head : ChainHead, size : Nat]]]
    BY <1>1 DEF HeadTypes
  <2>3. cache' \in [Procs -> [Sinks -> [head : ChainHead, size : Nat]]]
    BY <1>2, <1>4, <2>1, <2>2, CacheTyped
  <2>4. QED
    BY <1>1, <1>2, <2>3 DEF HeadTypes
<1>8. TypeOK' /\ Started'
  BY <1>1, <1>2, <1>5, <1>6, <1>7, TypePartsNext DEF Started
<1>9. ASSUME Undisturbed' PROVE Chained' /\ Granted'
  <2>1. Chained /\ Granted
    BY <1>2, <1>9 DEF Undisturbed, ChainInv
  <2>2. Verifies(file[s].lines) /\ file[s].lines # <<>> /\ HeadOf(file[s]) = entry
    BY <1>2, <2>1 DEF Chained, HeadsTrue, HeadTrue, s
  <2>3. Recorded(event[p], s)
    <3>1. HeadOf(file[s]).hash = event[p]
      BY <2>2
    <3>2. QED
      BY <1>2, <2>2, <3>1, LastRecorded
  <2>4. HeadTrue(p)' /\ Inside(p) /\ Inside(p)'
    <3>1. pc'[p] = "unlocking"
      BY <1>1, <1>2 DEF CallTypes
    <3>2. Recorded(event[p], sink[p])'
      <4>1. file' = file /\ event'[p] = event[p] /\ sink'[p] = s
        BY <1>2 DEF s
      <4>2. QED
        BY <2>3, <4>1 DEF Recorded
    <3>3. QED
      BY <1>2, <3>1, <3>2 DEF HeadTrue, Inside
  <2>5. CachesTrue'
    <3>1. ASSUME NEW q \in Procs, NEW t \in Sinks
          PROVE  /\ cache'[q][t].size <= file[t].size
                 /\ cache'[q][t].size = file[t].size =>
                      Verifies(file[t].lines) /\ cache'[q][t].head = HeadOf(file[t])
      <4>1. CASE cache'[q][t] = cache[q][t]
        BY <2>1, <4>1 DEF Chained, CachesTrue
      <4>2. CASE cache'[q][t] # cache[q][t]
        <5>1. t = s /\ cache'[q][t] = kept
          BY <1>1, <1>2, <1>3, <4>2 DEF HeadTypes
        <5>2. file[s].size <= file[s].size
          BY <1>2 DEF Files
        <5>3. QED
          BY <1>4, <2>2, <5>1, <5>2
      <4>3. QED
        BY <4>1, <4>2
    <3>2. QED
      BY <1>2, <3>1 DEF CachesTrue, Verifies, HeadOf
  <2>6. \A q \in Procs \ {p} : pc'[q] = pc[q] /\ outcome'[q] = outcome[q] /\ head'[q] = head[q]
    BY <1>1, <1>2, <1>3 DEF CallTypes
  <2>7. Chained'
    BY <1>1, <1>2, <2>1, <2>4, <2>5, <2>6, Holding
  <2>8. Granted'
    BY <1>2, <2>1, GrantedStays
  <2>9. QED
    BY <2>7, <2>8
<1>10. QED
  BY <1>5, <1>8, <1>9 DEF ChainInv

LEMMA UnlockStep == ASSUME ChainInv, NEW p \in Procs, Unlock(p) PROVE ChainInv'
<1> DEFINE s == sink[p]
<1>1. TypeOK /\ EventsGiven /\ Started /\ CallTypes /\ StoreTypes /\ HeadTypes /\ BoundTypes
  BY TypeParts DEF ChainInv
<1>2. /\ pc[p] = "unlocking" /\ UNCHANGED <<file, cache, joined>> /\ s \in Sinks
      /\ head' = [head EXCEPT ![p] = Genesis]
      /\ IF outcome[p] = "recorded" THEN Return(p, "granted") ELSE Failed(p, outcome[p])
  BY <1>1 DEF Unlock, CallTypes
<1>3. \/ /\ lock' = [lock EXCEPT ![s] = NoProc] /\ old' = [old EXCEPT ![s] = FALSE]
         /\ stolen' = (stolen \/ lock[s] \in Procs \ {p}) /\ UNCHANGED <<faults, crashes>>
      \/ /\ Fault /\ lock' = [lock EXCEPT ![s] = IF @ = p THEN Dead ELSE @]
         /\ UNCHANGED <<old, stolen>>
  BY DEF Unlock, bounds
<1> HIDE DEF s
<1>4. /\ CallTypes' /\ EventsGiven' /\ pc'[p] \in {"idle", "locking"}
      /\ \A q \in Procs \ {p} :
           /\ pc'[q] = pc[q] /\ sink'[q] = sink[q] /\ event'[q] = event[q]
           /\ outcome'[q] = outcome[q]
      /\ \A e \in Events : e # event[p] => answer'[e] = answer[e]
  <2>1. outcome[p] \in {"none", "recorded", "io", "integrity"} /\ pc[p] # "idle"
    BY <1>1, <1>2 DEF CallTypes
  <2>2. Return(p, "granted") \/ \E o \in {"none", "recorded", "io", "integrity"} : Failed(p, o)
    BY <1>2, <2>1
  <2>3. QED
    BY <1>1, <2>1, <2>2, Ending
<1>5. StoreTypes'
  <2>1. \E l \in Procs \cup {NoProc, Dead} : lock' = [lock EXCEPT ![s] = l]
    BY <1>1, <1>2, <1>3 DEF StoreTypes
  <2>2. lock' \in [Sinks -> Procs \cup {NoProc, Dead}]
    BY <1>1, <2>1 DEF StoreTypes
  <2>3. old' \in [Sinks -> BOOLEAN]
    BY <1>1, <1>3 DEF StoreTypes
  <2>4. QED
    BY <1>1, <1>2, <2>2, <2>3 DEF StoreTypes
<1>6. BoundTypes' /\ (stolen => stolen')
  <2>1. stolen' \in BOOLEAN /\ (stolen => stolen')
    BY <1>1, <1>3 DEF BoundTypes
  <2>2. faults' \in 0..MaxFaults /\ crashes' \in 0..MaxCrashes
    BY <1>1, <1>3, ChainFileAssumption DEF BoundTypes, Fault
  <2>3. QED
    BY <1>1, <1>2, <2>1, <2>2 DEF BoundTypes
<1>7. HeadTypes'
  BY <1>1, <1>2 DEF HeadTypes, Genesis, ChainHead
<1>8. TypeOK' /\ Started'
  BY <1>1, <1>2, <1>4, <1>5, <1>6, <1>7, TypePartsNext DEF Started
<1>9. ASSUME Undisturbed' PROVE Chained' /\ Granted'
  <2>1. Chained /\ Granted
    BY <1>2, <1>6, <1>9 DEF Undisturbed, ChainInv
  <2>2. lock[s] = p
    BY <1>2, <2>1 DEF Chained, HoldersHold, Inside, s
  <2>3. ASSUME NEW q \in Procs \ {p}, Inside(q) PROVE lock'[sink[q]] = q
    <3>1. lock[sink[q]] = q /\ sink[q] \in Sinks
      BY <1>1, <2>1, <2>3 DEF Chained, HoldersHold, CallTypes
    <3>2. sink[q] # s
      BY <2>2, <3>1
    <3>3. QED
      BY <1>1, <1>3, <3>1, <3>2 DEF StoreTypes
  <2>4. \A q \in Procs \ {p} : head'[q] = head[q]
    BY <1>1, <1>2 DEF HeadTypes
  <2>5. Chained'
    <3>1. ~Inside(p)'
      BY <1>4 DEF Inside
    <3>2. QED
      BY <1>1, <1>2, <1>4, <2>1, <2>3, <2>4, <3>1, Outside
  <2>6. ASSUME NEW e \in Events, answer'[e] = "granted"
        PROVE  answer[e] = "granted" \/ \E t \in Sinks : Recorded(e, t)
    <3>1. CASE outcome[p] = "recorded"
      <4>1. Recorded(event[p], s)
        BY <1>2, <2>1, <3>1 DEF Chained, HeadsTrue, HeadTrue, s
      <4>2. QED
        BY <1>2, <1>4, <2>6, <4>1
    <3>2. CASE outcome[p] # "recorded"
      <4>1. pc[p] # "idle" /\ Failed(p, outcome[p])
        BY <1>2, <3>2
      <4>2. outcome[p] \in {"none", "recorded", "io", "integrity"}
        BY <1>1 DEF CallTypes
      <4>3. event[p] \in Events
        BY <1>1, <4>1 DEF EventsGiven
      <4>4. ~Return(p, "granted")
        BY <1>1, <4>1, <4>3 DEF Failed, Return, Leave, Goto, CallTypes
      <4>5. QED
        BY <1>1, <2>6, <4>1, <4>2, <4>4, Ending
    <3>3. QED
      BY <3>1, <3>2
  <2>7. Granted'
    BY <1>2, <2>1, <2>6, GrantedStays
  <2>8. QED
    BY <2>5, <2>7
<1>10. QED
  BY <1>4, <1>8, <1>9 DEF ChainInv

LEMMA CrashStep == ASSUME ChainInv, NEW p \in Procs, Crash(p) PROVE ChainInv'
<1>1. TypeOK /\ EventsGiven /\ Started /\ CallTypes /\ StoreTypes /\ HeadTypes /\ BoundTypes
  BY TypeParts DEF ChainInv
<1>2. /\ lock' = [s \in Sinks |-> IF lock[s] = p THEN Dead ELSE lock[s]]
      /\ cache' = [cache EXCEPT ![p] = NoCache] /\ head' = [head EXCEPT ![p] = Genesis]
      /\ pc' = [pc EXCEPT ![p] = "idle"] /\ sink' = [sink EXCEPT ![p] = "primary"]
      /\ event' = [event EXCEPT ![p] = NoEvent] /\ outcome' = [outcome EXCEPT ![p] = "none"]
      /\ crashes < MaxCrashes /\ crashes' = crashes + 1
      /\ UNCHANGED <<file, old, answer, faults, stolen, joined>>
  BY DEF Crash, Leave, Goto
<1>3. CallTypes' /\ EventsGiven' /\ StoreTypes' /\ BoundTypes'
  <2>1. CallTypes' /\ EventsGiven'
    BY <1>1, <1>2 DEF CallTypes, EventsGiven, Places, Sinks
  <2>2. StoreTypes'
    BY <1>1, <1>2 DEF StoreTypes
  <2>3. BoundTypes'
    BY <1>1, <1>2, ChainFileAssumption DEF BoundTypes
  <2>4. QED
    BY <2>1, <2>2, <2>3
<1>4. HeadTypes'
  <2>1. NoCache \in [Sinks -> [head : ChainHead, size : Nat]] /\ Genesis \in ChainHead
    BY DEF NoCache, Genesis, ChainHead
  <2>2. QED
    BY <1>1, <1>2, <2>1 DEF HeadTypes
<1>5. TypeOK' /\ Started'
  BY <1>1, <1>2, <1>3, <1>4, TypePartsNext DEF Started
<1>6. ASSUME Undisturbed' PROVE Chained' /\ Granted'
  <2>1. Chained /\ Granted
    BY <1>2, <1>6 DEF Undisturbed, ChainInv
  <2>2. \A q \in Procs \ {p} :
          /\ pc'[q] = pc[q] /\ sink'[q] = sink[q] /\ event'[q] = event[q]
          /\ outcome'[q] = outcome[q] /\ head'[q] = head[q]
    BY <1>1, <1>2 DEF CallTypes, HeadTypes
  <2>3. ASSUME NEW q \in Procs \ {p}, Inside(q) PROVE lock'[sink[q]] = q
    BY <1>1, <1>2, <2>1, <2>3 DEF Chained, HoldersHold, CallTypes
  <2>4. pc'[p] = "idle" /\ ~Inside(p)'
    BY <1>1, <1>2 DEF CallTypes, Inside
  <2>5. Chained'
    <3>1. cache' = [cache EXCEPT ![p] = NoCache] /\ UNCHANGED file
      BY <1>2
    <3>2. pc'[p] \in {"idle", "locking", "unlinking", "reading"} /\ (Inside(p)' => lock'[sink'[p]] = p)
      BY <2>4
    <3>3. \A q \in Procs \ {p} :
            /\ pc'[q] = pc[q] /\ sink'[q] = sink[q] /\ event'[q] = event[q]
            /\ outcome'[q] = outcome[q] /\ head'[q] = head[q]
            /\ Inside(q) => lock'[sink[q]] = q
      BY <2>2, <2>3
    <3>4. QED
      BY <1>1, <2>1, <3>1, <3>2, <3>3, Outside
  <2>6. Granted'
    BY <1>2, <2>1, GrantedStays
  <2>7. QED
    BY <2>5, <2>6
<1>7. QED
  BY <1>3, <1>5, <1>6 DEF ChainInv

\* A step that only makes a lock older, or none.
LEMMA AgeStep ==
  ASSUME ChainInv, old' \in [Sinks -> BOOLEAN],
         UNCHANGED <<file, lock, cache, pc, sink, event, head, outcome, answer, faults, crashes, stolen,
                     joined>>
  PROVE  ChainInv'
<1>1. TypeOK' /\ EventsGiven' /\ Started'
  BY DEF ChainInv, TypeOK, EventsGiven, Started
<1>2. Undisturbed' <=> Undisturbed
  BY DEF Undisturbed
<1>3. ASSUME Chained, Granted PROVE Chained' /\ Granted'
  <2>1. HoldersHold' /\ CachesTrue'
    BY <1>3 DEF Chained, HoldersHold, CachesTrue, Inside, Verifies, HeadOf
  <2>2. \A e, s : Recorded(e, s)' <=> Recorded(e, s)
    BY DEF Recorded, Verifies
  <2>3. HeadsTrue'
    <3>1. ASSUME NEW p \in Procs PROVE HeadTrue(p)'
      <4>1. HeadTrue(p) /\ (Recorded(event[p], sink[p])' <=> Recorded(event[p], sink[p]))
        BY <1>3 DEF Chained, HeadsTrue, Recorded, Verifies
      <4>2. QED
        BY <4>1 DEF HeadTrue, Verifies, HeadOf
    <3>2. QED
      BY <3>1 DEF HeadsTrue
  <2>4. Granted'
    BY <1>3, GrantedStays
  <2>5. QED
    BY <2>1, <2>3, <2>4 DEF Chained
<1>4. QED
  BY <1>1, <1>2, <1>3 DEF ChainInv

LEMMA ChainStart == Init => ChainInv
<1> SUFFICES ASSUME Init PROVE ChainInv
  OBVIOUS
<1>1. /\ file = [s \in Sinks |-> [lines |-> <<>>, ended |-> TRUE, size |-> 0]]
      /\ lock = [s \in Sinks |-> NoProc] /\ old = [s \in Sinks |-> FALSE]
      /\ cache = [p \in Procs |-> NoCache] /\ pc = [p \in Procs |-> "idle"]
      /\ sink = [p \in Procs |-> "primary"] /\ event = [p \in Procs |-> NoEvent]
      /\ head = [p \in Procs |-> Genesis] /\ outcome = [p \in Procs |-> "none"]
      /\ answer = [e \in Events |-> "none"] /\ faults = 0 /\ crashes = 0
  BY DEF Init
<1>2. stolen = FALSE /\ joined = FALSE
  BY DEF Init
<1>3. CallTypes /\ StoreTypes
  BY <1>1 DEF CallTypes, StoreTypes, Places, Sinks, Files
<1>4. HeadTypes
  <2>1. NoCache \in [Sinks -> [head : ChainHead, size : Nat]] /\ Genesis \in ChainHead
    BY DEF NoCache, Genesis, ChainHead
  <2>2. QED
    BY <1>1, <2>1 DEF HeadTypes
<1>5. BoundTypes
  <2>1. stolen \in BOOLEAN /\ joined \in BOOLEAN
    BY <1>2
  <2>2. QED
    BY <1>1, <2>1, ChainFileAssumption DEF BoundTypes
<1>6. TypeOK /\ EventsGiven /\ Started
  BY <1>1, <1>3, <1>4, <1>5, TypeParts DEF EventsGiven, Started
<1>7. HoldersHold /\ HeadsTrue /\ Granted
  BY <1>1 DEF HoldersHold, HeadsTrue, HeadTrue, Granted, Inside
<1>8. CachesTrue
  BY <1>1 DEF CachesTrue, NoCache, HeadOf, Verifies
<1>9. QED
  BY <1>6, <1>7, <1>8 DEF ChainInv, Chained

LEMMA ChainStep == ASSUME ChainInv, [Next]_vars PROVE ChainInv'
<1>1. ASSUME NEW p \in Procs, NEW e \in Events, Call(p, e) PROVE ChainInv'
  BY <1>1, WaitingStep
<1>2. ASSUME NEW p \in Procs, Step(p) PROVE ChainInv'
  <2>1. CASE \E e \in Events : TRUE
    BY <1>2, <2>1, WaitingStep, ReadStep, AppendStep, RememberStep, UnlockStep DEF Step
  <2>2. CASE ~\E e \in Events : TRUE
    <3>1. pc[p] = "idle"
      BY <2>2 DEF ChainInv, EventsGiven
    <3>2. QED
      BY <1>2, <3>1 DEF Step, Acquire, GiveUp, SeeOld, Unlink, ReadHead, AppendEntry, Remember, Unlock
  <2>3. QED
    BY <2>1, <2>2
<1>3. ASSUME NEW p \in Procs, Crash(p) PROVE ChainInv'
  BY <1>3, CrashStep
<1>4. ASSUME NEW s \in Sinks, Age(s) PROVE ChainInv'
  <2>1. old' \in [Sinks -> BOOLEAN]
    BY <1>4 DEF Age, ChainInv, TypeOK
  <2>2. QED
    BY <1>4, <2>1, AgeStep DEF Age, call, bounds
<1>5. CASE UNCHANGED vars
  <2>1. old' \in [Sinks -> BOOLEAN]
    BY <1>5 DEF vars, locks, ChainInv, TypeOK
  <2>2. QED
    BY <1>5, <2>1, AgeStep DEF vars, locks, call, bounds
<1>6. QED
  BY <1>1, <1>2, <1>3, <1>4, <1>5 DEF Next

LEMMA ChainAlways == Spec => []ChainInv
<1>1. ChainInv /\ [Next]_vars => ChainInv'
  BY ChainStep
<1>2. QED
  BY <1>1, ChainStart, PTL DEF Spec

-----------------------------------------------------------------------------
(* The theorems                                                            *)

\* A caller that is told its decision is recorded finds it in a chain that verifies, for any
\* number of processes, failures and crashes, until a live holder loses its lock or an entry
\* is put behind a line without newline (logGrcAuditEvent of rbac-policy.mjs).
THEOREM GrantsStayVerifiable == Spec => []GrantsVerifiable
<1>1. ChainInv => GrantsVerifiable
  BY DEF ChainInv, Granted, Recorded, GrantsVerifiable
<1>2. QED
  BY <1>1, ChainAlways, PTL

\* Nothing is added to a file that does not verify, also not by a process that remembers a
\* head for it (readAuditChainHead).
THEOREM EvidenceStays == Spec => EvidenceUntouched
<1>1. ASSUME ChainInv, [Next]_vars
      PROVE  [\A s \in Sinks : ~Verifies(file[s].lines) /\ Undisturbed => file'[s] = file[s]]_vars
  <2>1. SUFFICES ASSUME NEW s \in Sinks, ~Verifies(file[s].lines), Undisturbed PROVE file'[s] = file[s]
    OBVIOUS
  <2>0. TypeOK /\ EventsGiven /\ Chained
    BY <1>1, <2>1 DEF ChainInv
  <2>2. ASSUME NEW p \in Procs, AppendEntry(p) PROVE file'[s] = file[s]
    <3>1. pc[p] = "appending" /\ \A t \in Sinks \ {sink[p]} : file'[t] = file[t]
      BY <2>0, <2>2, Appending
    <3>2. Verifies(file[sink[p]].lines)
      BY <2>0, <3>1 DEF Chained, HeadsTrue, HeadTrue
    <3>3. QED
      BY <2>1, <3>1, <3>2
  <2>3. ASSUME ~\E p \in Procs : AppendEntry(p) PROVE UNCHANGED file
    <3>1. ASSUME NEW p \in Procs, Step(p) PROVE UNCHANGED file
      BY <2>3, <3>1 DEF Step, Acquire, GiveUp, SeeOld, Unlink, ReadHead, Remember, Unlock
    <3>2. QED
      BY <1>1, <2>3, <3>1 DEF Next, Call, Crash, Age, vars
  <2>4. QED
    BY <2>2, <2>3
<1>2. ChainInv /\ [Next]_vars =>
        [\A s \in Sinks : ~Verifies(file[s].lines) /\ Undisturbed => file'[s] = file[s]]_vars
  BY <1>1
<1>3. QED
  BY <1>2, ChainAlways, PTL DEF Spec, EvidenceUntouched


-----------------------------------------------------------------------------
(* Each file is a trail                                                    *)

\* Some line of the file is the event's.
NamedIn(e, s) == \E n \in DOMAIN file[s].lines : file[s].lines[n].event = e

\* A call logs an event of its own, which is in no file to which the call has not appended.
EventsOwn ==
  /\ \A p, q \in Procs : p # q /\ pc[p] # "idle" /\ pc[q] # "idle" => event[p] # event[q]
  /\ \A p \in Procs : pc[p] # "idle" => answer[event[p]] = "pending"
Before == {"locking", "unlinking", "reading", "appending"}
Unwritten(p) ==
  /\ pc[p] \in Before => ~NamedIn(event[p], sink[p])
  /\ pc[p] # "idle" /\ sink[p] = "primary" => ~NamedIn(event[p], "fallback")
EventsFresh ==
  /\ \A e \in Events : answer[e] = "none" => \A s \in Sinks : ~NamedIn(e, s)
  /\ \A p \in Procs : Unwritten(p)
TrailInv == EventsOwn /\ EventsFresh

\* What the steps that append nothing do with calls.
Begins(p, e) ==
  /\ pc[p] = "idle" /\ pc'[p] = "locking" /\ answer[e] = "none" /\ event'[p] = e
  /\ sink'[p] = sink[p] /\ answer' = [answer EXCEPT ![e] = "pending"]
Stays(p) ==
  /\ event'[p] = event[p] /\ sink'[p] = sink[p] /\ answer' = answer
  /\ pc[p] = "idle" <=> pc'[p] = "idle"
  /\ pc'[p] \in Before => pc[p] \in Before
FallsBack(p) ==
  /\ pc[p] # "idle" /\ pc'[p] = "locking" /\ sink[p] = "primary" /\ sink'[p] = "fallback"
  /\ event'[p] = event[p] /\ answer' = answer
Ends(p) ==
  /\ pc'[p] = "idle"
  /\ \/ answer' = answer
     \/ /\ pc[p] # "idle"
        /\ \E a \in {"granted", "refused"} : answer' = [answer EXCEPT ![event[p]] = a]
Moves(p) ==
  /\ UNCHANGED file
  /\ \A q \in Procs \ {p} : pc'[q] = pc[q] /\ sink'[q] = sink[q] /\ event'[q] = event[q]
  /\ Stays(p) \/ FallsBack(p) \/ Ends(p) \/ \E e \in Events : Begins(p, e)

LEMMA FailedMoves ==
  ASSUME CallTypes, UNCHANGED file, NEW p \in Procs, pc[p] # "idle",
         Return(p, "granted") \/ \E o : Failed(p, o)
  PROVE  Moves(p)
<1>1. ASSUME NEW a \in {"granted", "refused"}, Return(p, a) PROVE Moves(p)
  <2>1. /\ pc' = [pc EXCEPT ![p] = "idle"] /\ sink' = [sink EXCEPT ![p] = "primary"]
        /\ event' = [event EXCEPT ![p] = NoEvent] /\ answer' = [answer EXCEPT ![event[p]] = a]
    BY <1>1 DEF Return, Leave, Goto
  <2>2. Ends(p)
    BY <2>1 DEF Ends, CallTypes
  <2>3. QED
    BY <2>1, <2>2 DEF Moves, CallTypes
<1>2. ASSUME NEW o, Failed(p, o), ~Return(p, "refused") PROVE Moves(p)
  <2>1. /\ sink[p] = "primary" /\ pc' = [pc EXCEPT ![p] = "locking"]
        /\ sink' = [sink EXCEPT ![p] = "fallback"] /\ UNCHANGED <<event, answer>>
    BY <1>2 DEF Failed, Goto
  <2>2. FallsBack(p)
    BY <2>1 DEF FallsBack, CallTypes
  <2>3. QED
    BY <2>1, <2>2 DEF Moves, CallTypes
<1>3. QED
  BY <1>1, <1>2

LEMMA StepMoves ==
  ASSUME TypeOK, [Next]_vars
  PROVE  \/ \E p \in Procs : Moves(p) \/ AppendEntry(p)
         \/ UNCHANGED <<file, pc, sink, event, answer>>
<1>1. CallTypes
  BY TypeParts
<1>2. ASSUME NEW p \in Procs, NEW e \in Events, Call(p, e) PROVE Moves(p)
  <2>1. /\ pc[p] = "idle" /\ answer[e] = "none" /\ pc' = [pc EXCEPT ![p] = "locking"]
        /\ event' = [event EXCEPT ![p] = e] /\ answer' = [answer EXCEPT ![e] = "pending"]
        /\ UNCHANGED <<file, sink>>
    BY <1>2 DEF Call, Goto
  <2>2. Begins(p, e)
    BY <1>1, <2>1 DEF Begins, CallTypes
  <2>3. QED
    BY <1>1, <2>1, <2>2 DEF Moves, CallTypes
<1>3. ASSUME NEW p \in Procs, Acquire(p) PROVE Moves(p)
  <2>1. pc[p] = "locking" /\ UNCHANGED file
    BY <1>3 DEF Acquire
  <2>2. CASE Failed(p, "io")
    BY <1>1, <2>1, <2>2, FailedMoves
  <2>3. CASE pc' = [pc EXCEPT ![p] = "reading"] /\ UNCHANGED <<sink, event, answer>>
    <3>1. Stays(p)
      BY <1>1, <2>1, <2>3 DEF Stays, Before, CallTypes
    <3>2. QED
      BY <1>1, <2>1, <2>3, <3>1 DEF Moves, CallTypes
  <2>4. QED
    BY <1>3, <2>2, <2>3 DEF Acquire, Goto
<1>4. ASSUME NEW p \in Procs, GiveUp(p) PROVE Moves(p)
  <2>1. pc[p] = "locking" /\ UNCHANGED file /\ Failed(p, "io")
    BY <1>4 DEF GiveUp
  <2>2. QED
    BY <1>1, <2>1, FailedMoves
<1>5. ASSUME NEW p \in Procs, SeeOld(p) \/ Unlink(p) \/ ReadHead(p) \/ Remember(p) PROVE Moves(p)
  <2>1. /\ UNCHANGED <<file, sink, event, answer>>
        /\ \/ pc[p] = "locking" /\ pc' = [pc EXCEPT ![p] = "unlinking"]
           \/ pc[p] = "unlinking" /\ pc' = [pc EXCEPT ![p] = "locking"]
           \/ pc[p] = "reading" /\ pc' = [pc EXCEPT ![p] = "appending"]
           \/ pc[p] \in {"reading", "remembering"} /\ pc' = [pc EXCEPT ![p] = "unlocking"]
    BY <1>5 DEF SeeOld, Unlink, ReadHead, Remember, Goto, call
  <2>2. Stays(p)
    BY <1>1, <2>1 DEF Stays, Before, CallTypes
  <2>3. QED
    BY <1>1, <2>1, <2>2 DEF Moves, CallTypes
<1>6. ASSUME NEW p \in Procs, Unlock(p) PROVE Moves(p)
  <2>1. pc[p] = "unlocking" /\ UNCHANGED file
    BY <1>6 DEF Unlock
  <2>2. Return(p, "granted") \/ Failed(p, outcome[p])
    BY <1>6 DEF Unlock
  <2>3. QED
    BY <1>1, <2>1, <2>2, FailedMoves
<1>7. ASSUME NEW p \in Procs, Crash(p) PROVE Moves(p)
  <2>1. /\ pc' = [pc EXCEPT ![p] = "idle"] /\ sink' = [sink EXCEPT ![p] = "primary"]
        /\ event' = [event EXCEPT ![p] = NoEvent] /\ UNCHANGED <<file, answer>>
    BY <1>7 DEF Crash, Leave, Goto
  <2>2. Ends(p)
    BY <1>1, <2>1 DEF Ends, CallTypes
  <2>3. QED
    BY <1>1, <2>1, <2>2 DEF Moves, CallTypes
<1>8. ASSUME NEW s \in Sinks, Age(s) PROVE UNCHANGED <<file, pc, sink, event, answer>>
  BY <1>8 DEF Age, call
<1>9. CASE UNCHANGED vars
  BY <1>9 DEF vars, call
<1>10. QED
  BY <1>2, <1>3, <1>4, <1>5, <1>6, <1>7, <1>8, <1>9 DEF Next, Step

LEMMA MovesFresh ==
  ASSUME TypeOK, EventsGiven, TrailInv, NEW p \in Procs, Moves(p) PROVE TrailInv'
<1>1. CallTypes
  BY TypeParts
<1>2. \A e, s : NamedIn(e, s)' <=> NamedIn(e, s)
  BY DEF Moves, NamedIn
<1>3. \A q \in Procs \ {p} : pc'[q] = pc[q] /\ sink'[q] = sink[q] /\ event'[q] = event[q]
  BY DEF Moves
<1>4. \A q \in Procs : pc[q] # "idle" => event[q] \in Events /\ answer[event[q]] = "pending"
  BY DEF EventsGiven, TrailInv, EventsOwn
<1>5. /\ \A q, r \in Procs : q # r /\ pc[q] # "idle" /\ pc[r] # "idle" => event[q] # event[r]
      /\ \A e \in Events : answer[e] = "none" => \A s \in Sinks : ~NamedIn(e, s)
      /\ \A q \in Procs : Unwritten(q)
  BY DEF TrailInv, EventsOwn, EventsFresh
<1>6. \A q \in Procs \ {p} : Unwritten(q)'
  <2>1. ASSUME NEW q \in Procs \ {p} PROVE Unwritten(q)'
    <3>1. /\ NamedIn(event[q], sink[q])' <=> NamedIn(event'[q], sink'[q])
          /\ NamedIn(event[q], "fallback")' <=> NamedIn(event'[q], "fallback")
      BY DEF Moves, NamedIn
    <3>2. QED
      BY <1>3, <1>5, <3>1 DEF Unwritten
  <2>2. QED
    BY <2>1
<1> DEFINE busy == pc'[p] # "idle"
<1>7. ASSUME busy => event'[p] \in Events /\ answer'[event'[p]] = "pending",
             busy => \A q \in Procs \ {p} : pc[q] # "idle" => event'[p] # event[q],
             \A q \in Procs \ {p} : pc[q] # "idle" => answer'[event[q]] = "pending",
             \A e \in Events : answer'[e] = "none" => answer[e] = "none",
             pc'[p] \in Before => ~NamedIn(event'[p], sink'[p]),
             busy /\ sink'[p] = "primary" => ~NamedIn(event'[p], "fallback")
      PROVE  TrailInv'
  <2>1. EventsOwn'
    BY <1>3, <1>5, <1>7 DEF EventsOwn
  <2>2. \A e \in Events : answer'[e] = "none" => \A s \in Sinks : ~NamedIn(e, s)'
    BY <1>2, <1>5, <1>7
  <2>3. Unwritten(p)'
    <3>1. /\ NamedIn(event[p], sink[p])' <=> NamedIn(event'[p], sink'[p])
          /\ NamedIn(event[p], "fallback")' <=> NamedIn(event'[p], "fallback")
      BY DEF Moves, NamedIn
    <3>2. QED
      BY <1>7, <3>1 DEF Unwritten
  <2>4. EventsFresh'
    BY <1>6, <2>2, <2>3 DEF EventsFresh
  <2>5. QED
    BY <2>1, <2>4 DEF TrailInv
<1>8. CASE Stays(p)
  <2>1. /\ event'[p] = event[p] /\ sink'[p] = sink[p] /\ answer' = answer
        /\ pc[p] = "idle" <=> pc'[p] = "idle"
        /\ pc'[p] \in Before => pc[p] \in Before
    BY <1>8 DEF Stays
  <2>2. Unwritten(p)
    BY <1>5
  <2>3. QED
    BY <1>4, <1>5, <1>7, <2>1, <2>2 DEF Unwritten
<1>9. CASE FallsBack(p)
  <2>1. /\ pc[p] # "idle" /\ pc'[p] = "locking" /\ sink[p] = "primary" /\ sink'[p] = "fallback"
        /\ event'[p] = event[p] /\ answer' = answer
    BY <1>9 DEF FallsBack
  <2>2. ~NamedIn(event[p], "fallback")
    BY <1>5, <2>1 DEF Unwritten
  <2>3. QED
    BY <1>4, <1>5, <1>7, <2>1, <2>2
<1>10. CASE Ends(p)
  <2>1. pc'[p] = "idle" /\ ~busy /\ pc'[p] \notin Before
    BY <1>10 DEF Ends, Before
  <2>2. CASE answer' = answer
    BY <1>4, <1>7, <2>1, <2>2
  <2>3. CASE /\ pc[p] # "idle"
             /\ \E a \in {"granted", "refused"} : answer' = [answer EXCEPT ![event[p]] = a]
    <3>1. event[p] \in Events /\ \A q \in Procs \ {p} : pc[q] # "idle" => event[q] # event[p]
      BY <1>4, <1>5, <2>3
    <3>2. PICK a \in {"granted", "refused"} : answer' = [answer EXCEPT ![event[p]] = a]
      BY <2>3
    <3>3. \A e \in Events : e # event[p] => answer'[e] = answer[e]
      BY <1>1, <3>2 DEF CallTypes
    <3>4. answer'[event[p]] = a
      BY <1>1, <3>1, <3>2 DEF CallTypes
    <3>5. QED
      BY <1>4, <1>7, <2>1, <3>1, <3>3, <3>4
  <2>4. QED
    BY <1>10, <2>2, <2>3 DEF Ends
<1>11. ASSUME NEW e \in Events, Begins(p, e) PROVE TrailInv'
  <2>1. /\ pc[p] = "idle" /\ pc'[p] = "locking" /\ answer[e] = "none" /\ event'[p] = e
        /\ sink'[p] = sink[p] /\ answer' = [answer EXCEPT ![e] = "pending"]
    BY <1>11 DEF Begins
  <2>2. answer'[e] = "pending" /\ \A d \in Events : d # e => answer'[d] = answer[d]
    BY <1>1, <2>1 DEF CallTypes
  <2>3. \A s \in Sinks : ~NamedIn(e, s)
    BY <1>5, <2>1
  <2>4. sink[p] \in Sinks /\ "fallback" \in Sinks
    BY <1>1 DEF CallTypes, Sinks
  <2>5. \A q \in Procs : pc[q] # "idle" => event[q] # e
    BY <1>4, <2>1
  <2>6. QED
    BY <1>4, <1>7, <2>1, <2>2, <2>3, <2>4, <2>5
<1>12. QED
  BY <1>8, <1>9, <1>10, <1>11 DEF Moves

\* An append names no event but that of its call.
LEMMA AppendNames ==
  ASSUME TypeOK, EventsGiven, NEW p \in Procs, AppendEntry(p), NEW e \in Events, NEW s \in Sinks,
         NamedIn(e, s)'
  PROVE  NamedIn(e, s) \/ (s = sink[p] /\ e = event[p])
<1> DEFINE f == file[sink[p]]
           g == file'[sink[p]]
<1>1. pc[p] = "appending" /\ \A t \in Sinks \ {sink[p]} : file'[t] = file[t]
  BY Appending
<1>2. sink[p] \in Sinks /\ f \in Files /\ file \in [Sinks -> Files]
  BY TypeParts DEF CallTypes, StoreTypes
<1>3. CASE s # sink[p]
  BY <1>1, <1>3 DEF NamedIn
<1>4. CASE s = sink[p]
  <2>1. PICK n \in DOMAIN g.lines : g.lines[n].event = e
    BY <1>4 DEF NamedIn
  <2> HIDE DEF f, g
  <2>2. \/ g = f
        \/ \E line \in {Garbage, EntryOf(p)}, ended \in BOOLEAN : g = Added(f, line, ended)
    BY <1>2 DEF AppendEntry, f, g
  <2>3. CASE g = f
    BY <1>4, <2>1, <2>3 DEF NamedIn, f
  <2>4. ASSUME NEW line \in {Garbage, EntryOf(p)}, NEW ended \in BOOLEAN, g = Added(f, line, ended)
        PROVE  (\E k \in DOMAIN f.lines : f.lines[k].event = e) \/ e = event[p]
    <3>1. line \in Line /\ Garbage \in Line /\ line.event \in {NoEvent, event[p]}
      BY <1>1, EntryTyped DEF Line, EntryOf, Garbage
    <3>2. e # NoEvent
      BY ChainFileAssumption
    <3>3. f.lines \in Seq(Line) /\ Len(f.lines) \in Nat /\ DOMAIN f.lines = 1..Len(f.lines)
      BY <1>2, LenProperties DEF Files
    <3>4. CASE g.lines = Append(f.lines, line)
      <4>1. /\ DOMAIN g.lines = 1..(Len(f.lines) + 1) /\ g.lines[Len(f.lines) + 1] = line
            /\ \A k \in 1..Len(f.lines) : g.lines[k] = f.lines[k]
        BY <3>1, <3>3, <3>4, AppendProperties, LenProperties
      <4>2. n \in 1..Len(f.lines) \/ n = Len(f.lines) + 1
        BY <2>1, <3>3, <4>1
      <4>3. QED
        BY <2>1, <3>1, <3>2, <3>3, <4>1, <4>2
    <3>5. CASE g.lines = Append(Front(f.lines), Garbage)
      <4> DEFINE front == Front(f.lines)
      <4>1. /\ front \in Seq(Line) /\ Len(front) \in Nat
            /\ \A k \in 1..Len(front) : k \in 1..Len(f.lines) /\ front[k] = f.lines[k]
        <5>1. CASE f.lines = <<>>
          <6>1. front = <<>>
            BY <5>1 DEF Front
          <6>2. QED
            BY <6>1
        <5>2. CASE f.lines # <<>>
          <6>1. \A k \in 1..(Len(f.lines) - 1) : f.lines[k] \in Line
            BY <3>3, ElementOfSeq
          <6>2. Len(f.lines) - 1 \in Nat
            BY <3>3, <5>2, EmptySeq
          <6>3. /\ front \in Seq(Line) /\ Len(front) = Len(f.lines) - 1
                /\ \A k \in 1..(Len(f.lines) - 1) : front[k] = f.lines[k]
            BY <3>3, <6>1, <6>2, SubSeqProperties DEF Front
          <6>4. QED
            BY <3>3, <6>2, <6>3
        <5>3. QED
          BY <5>1, <5>2
      <4> HIDE DEF front
      <4>2. /\ DOMAIN g.lines = 1..(Len(front) + 1) /\ g.lines[Len(front) + 1] = Garbage
            /\ \A k \in 1..Len(front) : g.lines[k] = front[k]
        BY <3>1, <3>5, <4>1, AppendProperties, LenProperties DEF front
      <4>3. n \in 1..Len(front) \/ n = Len(front) + 1
        BY <2>1, <4>1, <4>2
      <4>4. Garbage.event = NoEvent
        BY DEF Garbage
      <4>5. QED
        BY <2>1, <3>2, <3>3, <4>1, <4>2, <4>3, <4>4
    <3>6. QED
      BY <2>4, <3>4, <3>5 DEF Added
  <2>5. QED
    BY <1>4, <2>2, <2>3, <2>4 DEF NamedIn, f
<1>5. QED
  BY <1>3, <1>4

LEMMA AppendFresh ==
  ASSUME TypeOK, EventsGiven, TrailInv, NEW p \in Procs, AppendEntry(p) PROVE TrailInv'
<1>1. /\ pc[p] = "appending" /\ UNCHANGED <<sink, event, answer>>
      /\ \E place \in {"remembering", "unlocking"} : pc' = [pc EXCEPT ![p] = place]
  BY Appending
<1>2. CallTypes
  BY TypeParts
<1>3. /\ pc'[p] \in {"remembering", "unlocking"}
      /\ \A q \in Procs \ {p} : pc'[q] = pc[q]
  BY <1>1, <1>2 DEF CallTypes
<1>4. /\ \A q, r \in Procs : q # r /\ pc[q] # "idle" /\ pc[r] # "idle" => event[q] # event[r]
      /\ \A q \in Procs : pc[q] # "idle" => event[q] \in Events /\ answer[event[q]] = "pending"
      /\ \A e \in Events : answer[e] = "none" => \A s \in Sinks : ~NamedIn(e, s)
      /\ \A q \in Procs : Unwritten(q)
  BY DEF TrailInv, EventsOwn, EventsFresh, EventsGiven
<1>5. EventsOwn'
  BY <1>1, <1>3, <1>4 DEF EventsOwn
<1>6. \A e \in Events : answer'[e] = "none" => \A s \in Sinks : ~NamedIn(e, s)'
  BY <1>1, <1>4, AppendNames
<1>7. ASSUME NEW q \in Procs PROVE Unwritten(q)'
  <2>1. /\ NamedIn(event[q], sink[q])' <=> \E n \in DOMAIN file'[sink[q]].lines :
                                              file'[sink[q]].lines[n].event = event[q]
        /\ NamedIn(event[q], "fallback")' <=> \E n \in DOMAIN file'["fallback"].lines :
                                              file'["fallback"].lines[n].event = event[q]
    BY <1>1 DEF NamedIn
  <2>2. \A e, s : NamedIn(e, s)' <=> \E n \in DOMAIN file'[s].lines : file'[s].lines[n].event = e
    BY DEF NamedIn
  <2>3. sink[q] \in Sinks /\ "fallback" \in Sinks /\ Unwritten(q)
    BY <1>2, <1>4 DEF CallTypes, Sinks
  <2>4. CASE q # p
    <3>1. pc[q] # "idle" => event[q] \in Events /\ event[q] # event[p]
      BY <1>1, <1>4, <2>4
    <3>2. pc[q] # "idle" => /\ NamedIn(event[q], sink[q])' => NamedIn(event[q], sink[q])
                            /\ NamedIn(event[q], "fallback")' => NamedIn(event[q], "fallback")
      <4>1. \A e \in Events, s \in Sinks :
              (\E n \in DOMAIN file'[s].lines : file'[s].lines[n].event = e) =>
                NamedIn(e, s) \/ e = event[p]
        BY <2>2, AppendNames
      <4>2. QED
        BY <2>1, <2>3, <3>1, <4>1
    <3>3. pc'[q] = pc[q] /\ sink'[q] = sink[q] /\ event'[q] = event[q]
      BY <1>1, <1>3, <2>4
    <3>4. QED
      BY <2>3, <3>2, <3>3 DEF Unwritten, Before
  <2>5. CASE q = p
    <3>1. pc'[p] \notin Before /\ sink'[p] = sink[p] /\ event'[p] = event[p] /\ event[p] \in Events
      BY <1>1, <1>3, <1>4 DEF Before
    <3>2. sink[p] = "primary" => ~NamedIn(event[p], "fallback")
      BY <1>1, <2>3, <2>5 DEF Unwritten
    <3>3. sink[p] = "primary" => ~NamedIn(event[p], "fallback")'
      <4>1. \A e \in Events, s \in Sinks :
              (\E n \in DOMAIN file'[s].lines : file'[s].lines[n].event = e) =>
                NamedIn(e, s) \/ s = sink[p]
        BY <2>2, AppendNames
      <4>2. QED
        BY <2>1, <2>3, <2>5, <3>1, <3>2, <4>1
    <3>4. QED
      BY <2>5, <3>1, <3>3 DEF Unwritten
  <2>6. QED
    BY <2>4, <2>5
<1>8. QED
  BY <1>5, <1>6, <1>7 DEF TrailInv, EventsFresh

LEMMA TrailStart == Init => TrailInv
<1> SUFFICES ASSUME Init PROVE TrailInv
  OBVIOUS
<1>1. (\A s \in Sinks : file[s].lines = <<>>) /\ (\A p \in Procs : pc[p] = "idle")
  BY DEF Init
<1>2. \A e \in Events, s \in Sinks : ~NamedIn(e, s)
  BY <1>1 DEF NamedIn
<1>3. EventsOwn
  BY <1>1 DEF EventsOwn
<1>4. \A p \in Procs : Unwritten(p)
  BY <1>1 DEF Unwritten, Before
<1>5. QED
  BY <1>2, <1>3, <1>4 DEF TrailInv, EventsFresh

LEMMA TrailStep == ASSUME ChainInv, TrailInv, [Next]_vars PROVE TrailInv'
<1>1. TypeOK /\ EventsGiven
  BY DEF ChainInv
<1>2. CASE UNCHANGED <<file, pc, sink, event, answer>>
  BY <1>2 DEF TrailInv, EventsOwn, EventsFresh, Unwritten, NamedIn
<1>3. QED
  BY <1>1, <1>2, StepMoves, MovesFresh, AppendFresh

LEMMA TrailAlways == Spec => [](ChainInv /\ TrailInv)
<1>1. ChainInv /\ TrailInv /\ [Next]_vars => ChainInv' /\ TrailInv'
  BY ChainStep, TrailStep
<1>2. QED
  BY <1>1, ChainStart, TrailStart, PTL DEF Spec

\* The log of a file with these lines.
LogOf(lines) ==
  [n \in {k \in DOMAIN lines : Verifies(SubSeq(lines, 1, k))} |-> lines[n].event]

LEMMA LogIs == \A s : LogIn(s) = LogOf(file[s].lines) /\ LogIn(s)' = LogOf(file'[s].lines)
BY DEF LogIn, LogOf, Verifies

LEMMA LogWhole ==
  ASSUME NEW lines \in Seq(Line), Verifies(lines)
  PROVE  /\ LogOf(lines) \in Seq(Events) /\ Len(LogOf(lines)) = Len(lines)
         /\ \A n \in 1..Len(lines) : LogOf(lines)[n] = lines[n].event
<1>1. Len(lines) \in Nat /\ DOMAIN lines = 1..Len(lines)
  BY LenProperties
<1>2. \A k \in 1..Len(lines) : Linked(lines, k)
  BY <1>1 DEF Verifies, Linked
<1>3. \A n \in 1..Len(lines) : Verifies(SubSeq(lines, 1, n))
  <2>1. ASSUME NEW n \in 1..Len(lines) PROVE \A k \in 1..n : Linked(lines, k)
    BY <1>1, <1>2
  <2>2. QED
    BY <2>1, PrefixVerifies
<1>4. {k \in DOMAIN lines : Verifies(SubSeq(lines, 1, k))} = 1..Len(lines)
  BY <1>1, <1>3
<1>5. LogOf(lines) = [n \in 1..Len(lines) |-> lines[n].event]
  BY <1>4 DEF LogOf
<1>6. \A n \in 1..Len(lines) : lines[n].event \in Events
  <2>1. ASSUME NEW n \in 1..Len(lines) PROVE lines[n].event \in Events
    <3>1. lines[n] \in Line /\ lines[n] # Garbage
      BY <1>2, ElementOfSeq DEF Linked
    <3>2. QED
      BY <3>1 DEF Line, Entry
  <2>2. QED
    BY <2>1
<1>7. [n \in 1..Len(lines) |-> lines[n].event] \in Seq(Events)
  BY <1>1, <1>6, IsASeq
<1>8. QED
  BY <1>1, <1>5, <1>7, LenProperties

LEMMA LogGrows ==
  ASSUME NEW lines \in Seq(Line), NEW line \in Line, Verifies(lines),
         line = Garbage \/ Verifies(Append(lines, line))
  PROVE  LogOf(Append(lines, line)) = IF line = Garbage THEN LogOf(lines)
                                      ELSE Append(LogOf(lines), line.event)
<1> DEFINE longer == Append(lines, line)
           log == LogOf(lines)
<1>1. /\ Len(lines) \in Nat /\ longer \in Seq(Line) /\ Len(longer) = Len(lines) + 1
      /\ longer[Len(lines) + 1] = line /\ \A k \in 1..Len(lines) : longer[k] = lines[k]
  BY AppendProperties, LenProperties
<1>2. /\ log \in Seq(Events) /\ Len(log) = Len(lines)
      /\ \A n \in 1..Len(lines) : log[n] = lines[n].event
  BY LogWhole
<1>3. \A k \in 1..Len(lines) : Linked(lines, k)
  <2>1. DOMAIN lines = 1..Len(lines)
    BY LenProperties
  <2>2. QED
    BY <2>1 DEF Verifies, Linked
<1> HIDE DEF log, longer
<1>4. CASE line = Garbage
  <2>1. DOMAIN longer = 1..(Len(lines) + 1)
    BY <1>1, LenProperties
  <2>2. ASSUME NEW k \in 1..Len(lines) PROVE Verifies(SubSeq(longer, 1, k))
    <3>1. ASSUME NEW j \in 1..k PROVE Linked(longer, j)
      <4>1. j \in 1..Len(lines) /\ (j # 1 => j - 1 \in 1..Len(lines))
        BY <1>1
      <4>2. longer[j] = lines[j] /\ (j # 1 => longer[j-1] = lines[j-1]) /\ Linked(lines, j)
        BY <1>1, <1>3, <4>1
      <4>3. QED
        BY <4>2 DEF Linked
    <3>2. k \in 1..Len(longer)
      BY <1>1
    <3>3. QED
      BY <1>1, <3>1, <3>2, PrefixVerifies
  <2>3. ~Verifies(SubSeq(longer, 1, Len(lines) + 1))
    <3>1. Len(lines) + 1 \in 1..Len(longer) /\ Len(lines) + 1 \in 1..(Len(lines) + 1)
      BY <1>1
    <3>2. ~Linked(longer, Len(lines) + 1)
      BY <1>1, <1>4 DEF Linked
    <3>3. QED
      BY <1>1, <3>1, <3>2, PrefixVerifies
  <2>4. \A k \in 1..(Len(lines) + 1) : k \in 1..Len(lines) \/ k = Len(lines) + 1
    BY <1>1
  <2>5. {k \in DOMAIN longer : Verifies(SubSeq(longer, 1, k))} = 1..Len(lines)
    <3>1. 1..Len(lines) \subseteq DOMAIN longer
      BY <1>1, <2>1
    <3>2. QED
      BY <2>1, <2>2, <2>3, <2>4, <3>1
  <2>6. LogOf(longer) = [n \in 1..Len(lines) |-> longer[n].event]
    BY <2>5 DEF LogOf
  <2>7. LogOf(longer) = [n \in 1..Len(lines) |-> log[n]]
    BY <1>1, <1>2, <2>6
  <2>8. log = [n \in 1..Len(lines) |-> log[n]]
    BY <1>2, LenProperties
  <2>9. QED
    BY <1>4, <2>7, <2>8 DEF log, longer
<1>5. CASE line # Garbage
  <2>1. Verifies(longer)
    BY <1>5 DEF longer
  <2>2. /\ LogOf(longer) \in Seq(Events) /\ Len(LogOf(longer)) = Len(lines) + 1
        /\ \A n \in 1..(Len(lines) + 1) : LogOf(longer)[n] = longer[n].event
    BY <1>1, <2>1, LogWhole
  <2>3. line.event \in Events
    BY <1>5 DEF Line, Entry
  <2> DEFINE logged == Append(log, line.event)
  <2>4. /\ logged \in Seq(Events) /\ Len(logged) = Len(lines) + 1
        /\ logged[Len(lines) + 1] = line.event
        /\ \A n \in 1..Len(lines) : logged[n] = log[n]
    BY <1>2, <2>3, AppendProperties
  <2> HIDE DEF logged
  <2>5. \A n \in 1..(Len(lines) + 1) : LogOf(longer)[n] = logged[n]
    <3>1. \A n \in 1..(Len(lines) + 1) : n \in 1..Len(lines) \/ n = Len(lines) + 1
      BY <1>1
    <3>2. QED
      BY <1>1, <1>2, <2>2, <2>4, <3>1
  <2>6. LogOf(longer) = logged
    BY <2>2, <2>4, <2>5, SeqEqual
  <2>7. QED
    BY <1>5, <2>6 DEF logged, log, longer
<1>6. QED
  BY <1>4, <1>5

Less == {ss \in Nat \X Nat : ss[1] < ss[2]}

LEMMA LeastNumber ==
  ASSUME NEW T, T \subseteq Nat, T # {} PROVE \E n \in T : \A m \in T : n <= m
<1>1. Less = OpToRel(<, Nat)
  BY Zenon DEF Less, OpToRel
<1>2. IsWellFoundedOn(Less, Nat)
  BY <1>1, NatLessThanWellFounded, Zenon
<1>3. PICK n \in T : \A m \in T : <<m, n>> \notin Less
  BY <1>2, WFMin
<1>4. ASSUME NEW m \in T PROVE n <= m
  <2>1. m \in Nat /\ n \in Nat
    OBVIOUS
  <2>2. ~(m < n)
    BY <1>3, <2>1 DEF Less
  <2>3. QED
    BY <2>1, <2>2
<1>5. QED
  BY <1>4

\* The log ends before the first line that breaks the chain.
LEMMA LogShape ==
  ASSUME NEW lines \in Seq(Line)
  PROVE  \E m \in 0..Len(lines) :
           /\ Len(LogOf(lines)) = m /\ \A n \in 1..m : LogOf(lines)[n] = lines[n].event
           /\ \A n \in 1..Len(lines) : n <= m <=> Verifies(SubSeq(lines, 1, n))
<1> DEFINE ends(n) == n = Len(lines) + 1 \/ ~Verifies(SubSeq(lines, 1, n))
           T == {n \in 1..(Len(lines) + 1) : ends(n)}
<1>1. Len(lines) \in Nat /\ DOMAIN lines = 1..Len(lines)
  BY LenProperties
<1>2. T \subseteq Nat /\ T # {}
  <2>1. Len(lines) + 1 \in T
    BY <1>1
  <2>2. QED
    BY <1>1, <2>1
<1>3. PICK first \in T : \A n \in T : first <= n
  <2> HIDE DEF T
  <2>1. QED
    BY <1>2, LeastNumber
<1>4. first \in Nat /\ first \in 1..(Len(lines) + 1) /\ first - 1 \in 0..Len(lines)
  BY <1>1, <1>3
<1>5. ASSUME NEW n \in 1..Len(lines), n <= first - 1 PROVE Verifies(SubSeq(lines, 1, n))
  <2>1. n \in 1..(Len(lines) + 1) /\ ~(first <= n)
    BY <1>1, <1>4, <1>5
  <2>2. QED
    BY <1>3, <2>1
<1>6. ASSUME NEW n \in 1..Len(lines), ~(n <= first - 1) PROVE ~Verifies(SubSeq(lines, 1, n))
  <2>1. first \in 1..Len(lines) /\ first # Len(lines) + 1 /\ \A k \in 1..first : k \in 1..n
    BY <1>1, <1>4, <1>6
  <2>2. ~Verifies(SubSeq(lines, 1, first))
    BY <1>3, <2>1
  <2>3. PICK k \in 1..first : ~Linked(lines, k)
    BY <2>1, <2>2, PrefixVerifies
  <2>4. k \in 1..n
    BY <2>1
  <2>5. QED
    BY <2>3, <2>4, PrefixVerifies
<1> HIDE DEF T
<1>7. {n \in DOMAIN lines : Verifies(SubSeq(lines, 1, n))} = 1..(first - 1)
  <2>1. \A n \in 1..(first - 1) : n \in 1..Len(lines) /\ n <= first - 1
    BY <1>1, <1>4
  <2>2. \A n \in 1..Len(lines) : n <= first - 1 => n \in 1..(first - 1)
    BY <1>1, <1>4
  <2>3. QED
    BY <1>1, <1>5, <1>6, <2>1, <2>2
<1>8. LogOf(lines) = [n \in 1..(first - 1) |-> lines[n].event]
  BY <1>7 DEF LogOf
<1>9. LogOf(lines) \in Seq({lines[n].event : n \in 1..(first - 1)})
  BY <1>4, <1>8, IsASeq
<1>10. Len(LogOf(lines)) = first - 1
  <2>1. DOMAIN LogOf(lines) = 1..(first - 1) /\ first - 1 \in Nat
    BY <1>4, <1>8
  <2>2. QED
    BY <1>9, <2>1, LenProperties
<1>11. QED
  BY <1>4, <1>5, <1>6, <1>8, <1>10

LEMMA LogHolds ==
  ASSUME NEW s \in Sinks, file[s] \in Files, NEW e
  PROVE  Contains(LogIn(s), e) <=> Recorded(e, s)
<1> DEFINE lines == file[s].lines
<1>1. lines \in Seq(Line) /\ Len(lines) \in Nat /\ DOMAIN lines = 1..Len(lines)
  BY LenProperties DEF Files
<1>2. PICK m \in 0..Len(lines) :
        /\ Len(LogOf(lines)) = m /\ \A n \in 1..m : LogOf(lines)[n] = lines[n].event
        /\ \A n \in 1..Len(lines) : n <= m <=> Verifies(SubSeq(lines, 1, n))
  BY <1>1, LogShape
<1>3. LogIn(s) = LogOf(lines)
  BY LogIs
<1>4. \A n \in 1..m : n \in 1..Len(lines) /\ n <= m
  BY <1>1
<1>5. \A n \in 1..Len(lines) : n <= m => n \in 1..m
  BY <1>1
<1> HIDE DEF lines
<1>6. Contains(LogIn(s), e) <=> \E n \in 1..m : lines[n].event = e
  BY <1>2, <1>3 DEF Contains
<1>7. Recorded(e, s) <=> \E n \in 1..Len(lines) : Verifies(SubSeq(lines, 1, n)) /\ lines[n].event = e
  BY <1>1 DEF Recorded, lines
<1>8. QED
  BY <1>2, <1>4, <1>5, <1>6, <1>7

\* A step of a trail.
Trails(s) ==
  \/ UNCHANGED <<LogIn(s), GrantedIn(s)>>
  \/ \E e \in Events : /\ ~Contains(LogIn(s), e) /\ LogIn(s)' = Append(LogIn(s), e)
                       /\ UNCHANGED GrantedIn(s)
  \/ \E e \in Events : /\ Contains(LogIn(s), e) /\ GrantedIn(s)' = GrantedIn(s) \cup {e}
                       /\ UNCHANGED LogIn(s)

LEMMA MoveTrails ==
  ASSUME TypeOK, EventsGiven, EventsOwn, NEW p \in Procs, Moves(p), Granted', NEW s \in Sinks
  PROVE  Trails(s)
<1> DEFINE elsewhere(e) == \E t \in Sinks \ {s} : Contains(LogIn(t), e)
<1>1. /\ CallTypes /\ StoreTypes /\ UNCHANGED file /\ \A t \in Sinks : UNCHANGED LogIn(t)
  BY TypeParts, LogIs DEF Moves
<1>2. /\ GrantedIn(s)' = {e \in Events : answer'[e] = "granted" /\ ~elsewhere(e)}
      /\ GrantedIn(s) = {e \in Events : answer[e] = "granted" /\ ~elsewhere(e)}
  BY <1>1 DEF GrantedIn, Contains
<1> HIDE DEF elsewhere
<1>3. ASSUME \A e \in Events : answer'[e] = "granted" <=> answer[e] = "granted" PROVE Trails(s)
  <2>1. GrantedIn(s)' = GrantedIn(s)
    BY <1>2, <1>3
  <2>2. QED
    BY <1>1, <2>1 DEF Trails
<1>4. CASE answer' = answer
  BY <1>3, <1>4
<1>5. ASSUME NEW e \in Events, Begins(p, e) PROVE Trails(s)
  <2>1. answer[e] = "none" /\ answer' = [answer EXCEPT ![e] = "pending"]
    BY <1>5 DEF Begins
  <2>2. QED
    BY <1>1, <1>3, <2>1 DEF CallTypes
<1>6. ASSUME pc[p] # "idle", NEW a \in {"granted", "refused"}, answer' = [answer EXCEPT ![event[p]] = a]
      PROVE  Trails(s)
  <2> DEFINE e == event[p]
  <2>1. e \in Events /\ answer[e] = "pending"
    BY <1>6 DEF EventsGiven, EventsOwn
  <2>2. answer'[e] = a /\ \A d \in Events : d # e => answer'[d] = answer[d]
    BY <1>1, <1>6, <2>1 DEF CallTypes
  <2> HIDE DEF e
  <2>3. CASE a = "refused"
    BY <1>3, <2>1, <2>2, <2>3
  <2>4. CASE a = "granted" /\ ~elsewhere(e)
    <3>1. \E t \in Sinks : Contains(LogIn(t), e)
      <4>1. \A d \in Events, t \in Sinks : Recorded(d, t)' <=> Recorded(d, t)
        BY <1>1 DEF Recorded, Verifies
      <4>2. PICK t \in Sinks : Recorded(e, t)
        BY <2>1, <2>2, <2>4, <4>1 DEF Granted
      <4>3. QED
        BY <1>1, <4>2, LogHolds DEF StoreTypes
    <3>2. Contains(LogIn(s), e)
      BY <2>4, <3>1 DEF elsewhere
    <3>3. GrantedIn(s)' = GrantedIn(s) \cup {e}
      BY <1>2, <2>1, <2>2, <2>4
    <3>4. QED
      BY <1>1, <2>1, <3>2, <3>3 DEF Trails
  <2>5. CASE a = "granted" /\ elsewhere(e)
    <3>1. GrantedIn(s)' = GrantedIn(s)
      BY <1>2, <2>2, <2>5
    <3>2. QED
      BY <1>1, <3>1 DEF Trails
  <2>6. QED
    BY <2>3, <2>4, <2>5
<1>7. QED
  BY <1>4, <1>5, <1>6 DEF Moves, Stays, FallsBack, Ends

\* What an append does to the logs.
LEMMA LogsGrow ==
  ASSUME ChainInv, TrailInv, NEW p \in Procs, AppendEntry(p), NEW s \in Sinks, Undisturbed'
  PROVE  \/ UNCHANGED LogIn(s)
         \/ /\ ~Contains(LogIn(s), event[p]) /\ LogIn(s)' = Append(LogIn(s), event[p])
            /\ LogIn(s) \in Seq(Events)
<1> DEFINE lines == file[s].lines
           e == event[p]
<1>1. TypeOK /\ EventsGiven /\ CallTypes /\ StoreTypes /\ pc[p] = "appending"
  BY Appending, TypeParts DEF ChainInv
<1>2. UNCHANGED stolen /\ (joined => joined')
  BY <1>1, Appending
<1>3. Chained /\ ~joined'
  BY <1>2 DEF Undisturbed, ChainInv
<1>4. CASE file'[s] = file[s]
  BY <1>4, LogIs
<1>5. CASE file'[s] # file[s]
  <2>1. /\ s = sink[p] /\ sink[p] \in Sinks
        /\ \E line \in Line : /\ line = Garbage \/ line = EntryOf(p)
                              /\ file'[sink[p]].lines = Append(file[sink[p]].lines, line)
    BY <1>1, <1>3, <1>5, Appending DEF CallTypes
  <2>2. PICK line \in Line : /\ line = Garbage \/ line = EntryOf(p)
                             /\ file'[s].lines = Append(lines, line)
    BY <2>1
  <2>3. Verifies(lines) /\ head[p] = HeadOf(file[s])
    BY <1>1, <1>3, <2>1 DEF Chained, HeadsTrue, HeadTrue
  <2>4. file[s] \in Files /\ lines \in Seq(Line) /\ e \in Events
    BY <1>1 DEF StoreTypes, Files, EventsGiven
  <2>5. CASE line = Garbage
    <3>1. LogOf(Append(lines, line)) = LogOf(lines)
      BY <2>3, <2>4, <2>5, LogGrows
    <3>2. QED
      BY <2>2, <3>1, LogIs
  <2>6. CASE line # Garbage
    <3>1. /\ line = [event |-> e, sequence |-> HeadOf(file[s]).sequence + 1,
                     previous |-> HeadOf(file[s]).hash]
          /\ line.event = e
      BY <2>2, <2>3, <2>6 DEF EntryOf
    <3>2. ~Contains(LogIn(s), e)
      <4>1. ~NamedIn(e, s)
        BY <1>1, <2>1 DEF TrailInv, EventsFresh, Unwritten, Before
      <4>2. ~Recorded(e, s)
        BY <4>1 DEF NamedIn, Recorded
      <4>3. QED
        BY <2>4, <4>2, LogHolds
    <3> HIDE DEF lines, e
    <3>3. Verifies(file'[s].lines)
      BY <2>2, <2>3, <2>4, <3>1, ChainGoesOn DEF lines
    <3>4. LogOf(Append(lines, line)) = Append(LogOf(lines), e)
      BY <2>2, <2>3, <2>4, <2>6, <3>1, <3>3, LogGrows
    <3>5. LogIn(s)' = Append(LogIn(s), e)
      BY <2>2, <3>4, LogIs DEF lines
    <3>6. LogIn(s) \in Seq(Events)
      BY <2>3, <2>4, LogWhole, LogIs DEF lines
    <3>7. QED
      BY <3>2, <3>5, <3>6 DEF e
  <2>7. QED
    BY <2>5, <2>6
<1>6. QED
  BY <1>4, <1>5

\* An entry that is appended to a file that verifies has a decision that is not in it; and
\* none is granted by that.
LEMMA AppendTrails ==
  ASSUME ChainInv, TrailInv, NEW p \in Procs, AppendEntry(p), NEW s \in Sinks, Undisturbed'
  PROVE  Trails(s)
<1> DEFINE e == event[p]
<1>1. /\ e \in Events /\ answer[e] # "granted" /\ UNCHANGED answer
  <2>1. TypeOK /\ EventsGiven
    BY DEF ChainInv
  <2>2. pc[p] = "appending" /\ UNCHANGED answer
    BY <2>1, Appending
  <2>3. QED
    BY <2>1, <2>2 DEF EventsGiven, TrailInv, EventsOwn
<1>2. ASSUME NEW t \in Sinks, NEW d \in Events, d # e
      PROVE  Contains(LogIn(t)', d) <=> Contains(LogIn(t), d)
  <2>1. CASE UNCHANGED LogIn(t)
    BY <2>1
  <2>2. CASE LogIn(t)' = Append(LogIn(t), e) /\ LogIn(t) \in Seq(Events)
    <3> DEFINE log == LogIn(t)
               longer == Append(log, e)
    <3>1. /\ Len(longer) = Len(log) + 1 /\ Len(log) \in Nat
          /\ longer[Len(log) + 1] = e /\ \A n \in 1..Len(log) : longer[n] = log[n]
      BY <1>1, <2>2, AppendProperties, LenProperties
    <3> HIDE DEF log, longer
    <3>2. /\ \A n \in 1..(Len(log) + 1) : n \in 1..Len(log) \/ n = Len(log) + 1
          /\ \A n \in 1..Len(log) : n \in 1..(Len(log) + 1)
      BY <3>1
    <3>3. Contains(longer, d) <=> Contains(log, d)
      BY <1>2, <3>1, <3>2 DEF Contains
    <3>4. QED
      BY <2>2, <3>3 DEF log, longer
  <2>3. QED
    BY <2>1, <2>2, LogsGrow
<1> DEFINE apart(d) == \A t \in Sinks \ {s} : ~Contains(LogIn(t), d)
           apart2(d) == \A t \in Sinks \ {s} : ~Contains(LogIn(t)', d)
<1>3. GrantedIn(s)' = GrantedIn(s)
  <2>1. /\ GrantedIn(s) = {d \in Events : answer[d] = "granted" /\ apart(d)}
        /\ GrantedIn(s)' = {d \in Events : answer[d] = "granted" /\ apart2(d)}
    BY <1>1 DEF GrantedIn, Contains
  <2>2. \A d \in Events : answer[d] = "granted" => (apart(d) <=> apart2(d))
    BY <1>1, <1>2
  <2> HIDE DEF apart, apart2
  <2>3. QED
    BY <2>1, <2>2
<1>4. QED
  BY <1>1, <1>3, LogsGrow DEF Trails

LEMMA TrailsOn ==
  ASSUME ChainInv, TrailInv, [Next]_vars, NEW s \in Sinks, Undisturbed' PROVE Trails(s)
<1>1. TypeOK /\ EventsGiven /\ EventsOwn /\ Granted'
  BY ChainStep DEF ChainInv, TrailInv
<1>2. CASE UNCHANGED <<file, pc, sink, event, answer>>
  <2>1. \A t \in Sinks : UNCHANGED LogIn(t)
    BY <1>2, LogIs
  <2>2. UNCHANGED GrantedIn(s)
    BY <1>2, <2>1 DEF GrantedIn, Contains
  <2>3. QED
    BY <2>1, <2>2 DEF Trails
<1>3. QED
  BY <1>1, <1>2, StepMoves, MoveTrails, AppendTrails

LEMMA TrailsStart == ASSUME Init, NEW s \in Sinks PROVE LogIn(s) = <<>> /\ GrantedIn(s) = {}
<1>1. file[s].lines = <<>> /\ \A e \in Events : answer[e] = "none"
  BY DEF Init
<1>2. <<>> \in Seq(Line) /\ Len(<<>>) = 0 /\ Verifies(<<>>)
  BY EmptySeq DEF Verifies
<1>3. LogIn(s) \in Seq(Events) /\ Len(LogIn(s)) = 0
  BY <1>1, <1>2, LogWhole, LogIs
<1>4. QED
  BY <1>1, <1>3, EmptySeq DEF GrantedIn

\* Either file implements what the writer promises: as long as no live holder loses its lock and
\* nothing is put behind a line without newline, what verifies of it only grows, by one decision
\* at a time and never twice by the same, and what is granted and not in the other file is in it
\* (logGrcAuditEvent, readAuditChainHead).
THEOREM TrailsImplemented == Spec => ImplementsTrails
<1>1. Init => Primary!Init /\ Fallback!Init
  BY TrailsStart DEF Primary!Init, Fallback!Init, Sinks
<1>2. ChainInv /\ TrailInv /\ [Next]_vars =>
        [Undisturbed' => [Primary!Next]_(Primary!vars)]_vars
  <2> SUFFICES ASSUME ChainInv, TrailInv, [Next]_vars, Undisturbed' PROVE Trails("primary")
    BY DEF Trails, Primary!Next, Primary!vars, Primary!Record, Primary!Grant, Primary!Contains, Contains
  <2>1. QED
    BY TrailsOn DEF Sinks
<1>3. ChainInv /\ TrailInv /\ [Next]_vars =>
        [Undisturbed' => [Fallback!Next]_(Fallback!vars)]_vars
  <2> SUFFICES ASSUME ChainInv, TrailInv, [Next]_vars, Undisturbed' PROVE Trails("fallback")
    BY DEF Trails, Fallback!Next, Fallback!vars, Fallback!Record, Fallback!Grant, Fallback!Contains,
           Contains
  <2>1. QED
    BY TrailsOn DEF Sinks
<1>4. QED
  BY <1>1, <1>2, <1>3, TrailAlways, PTL DEF Spec, ImplementsTrails
=============================================================================
