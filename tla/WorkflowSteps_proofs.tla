------------------------ MODULE WorkflowSteps_proofs ------------------------
(***************************************************************************)
(* TLAPS proofs about what a workflow step goes through (MCWorkflowSteps), *)
(* each for any values of its constants: the fetches, the handlers, the    *)
(* engine with its gates, and the decision about file targets.             *)
(***************************************************************************)
EXTENDS MCWorkflowSteps, SequenceTheorems, WellFoundedInduction, TLAPS

-----------------------------------------------------------------------------
(* Fetches                                                                 *)

\* The url of a hop was validated on the way to its connection, a name's two answers agree,
\* and nothing goes on with more than the limit.
HopsValidated ==
  /\ phase # "idle" => url \in Hosts
  /\ phase = "again" => Valid(url, preflight) /\ preflight \in Answers(url)
  /\ phase = "connect" => url \in AllowedHosts \ Unsuitable /\ ~Blocked(url, pinned)
LimitKept == total > MaxBytes => phase = "refused"
FetchInv == FetchTypeOK /\ HopsValidated /\ LimitKept /\ ConnectionsApproved

LEMMA FetchStart == FetchInit => FetchInv
BY FetchAssumption
DEF FetchInit, FetchInv, FetchTypeOK, Phases, HopsValidated, LimitKept, ConnectionsApproved

LEMMA FetchStep == ASSUME FetchInv, [FetchNext]_fetchVars PROVE FetchInv'
<1> USE FetchAssumption
    DEF FetchInv, FetchTypeOK, Phases, HopsValidated, LimitKept, ConnectionsApproved, Turn
<1>1. CASE UNCHANGED fetchVars
  BY <1>1 DEF fetchVars, Valid, Blocked, Answers
<1>2. ASSUME NEW h \in Hosts, secureFetch(h) PROVE FetchInv'
  BY <1>2 DEF secureFetch
<1>3. ASSUME NEW h \in Hosts, Redirected(h) PROVE FetchInv'
  BY <1>3 DEF Redirected
<1>4. CASE validateOutboundUrl
  <2>1. /\ phase = "validate" /\ phase' \in {"again", "refused"}
        /\ UNCHANGED <<url, hop, pinned, contact, total>>
    BY <1>4 DEF validateOutboundUrl
  <2>2. preflight' = preflight \/ preflight' \in Answers(url)
    BY <1>4 DEF validateOutboundUrl
  <2>3. phase' = "again" => Valid(url, preflight') /\ preflight' \in Answers(url)
    BY <1>4 DEF validateOutboundUrl
  <2>4. preflight' \subseteq Addresses /\ Answers(url)' = Answers(url)
    BY <2>1, <2>2 DEF Answers
  <2>5. HopsValidated'
    BY <2>1, <2>3, <2>4 DEF Valid, Blocked
  <2>6. QED
    BY <2>1, <2>4, <2>5
<1>5. CASE ResolveAgain
  BY <1>5 DEF ResolveAgain, Valid, Blocked, Consistent, Answers
<1>6. CASE Connect
  BY <1>6 DEF Connect, Blocked
<1>7. ASSUME NEW long \in BOOLEAN, Read(long) PROVE FetchInv'
  BY <1>7 DEF Read
<1>8. CASE Chunk
  BY <1>8 DEF Chunk
<1>9. CASE EndOfBody
  BY <1>9 DEF EndOfBody
<1>10. CASE TimeOutFetch
  BY <1>10 DEF TimeOutFetch
<1>11. QED
  BY <1>1, <1>2, <1>3, <1>4, <1>5, <1>6, <1>7, <1>8, <1>9, <1>10 DEF FetchNext

\* secureFetch only connects where it was allowed to, however names are resolved and answers
\* redirect, and hands over no body beyond its limit (config/outbound-security.mjs).
THEOREM ConnectionsStayApproved == FetchSpec => []ConnectionsApproved
<1>1. FetchInv => ConnectionsApproved
  BY DEF FetchInv
<1>2. FetchInv /\ [FetchNext]_fetchVars => FetchInv'
  BY FetchStep
<1>3. QED
  BY <1>1, <1>2, FetchStart, PTL DEF FetchSpec

-----------------------------------------------------------------------------
(* Handlers                                                                *)

\* What a patch is about to put in place parses, from its check until its rename.
CandidatesKept ==
  \A e \in Engines :
    /\ stage[e] \in {"verify", "open", "fill"} => candidate[e] \in Contents
    /\ stage[e] \in {"inspect", "write", "rename"} => candidate[e] \in Parses
    /\ stage[e] = "rename" => temp[e] = candidate[e]
\* Which handler is at which stage, and that none has answered before its last file call.
StagesOfJobs ==
  \A e \in Engines :
    /\ stage[e] \in {"verify", "inspect", "write", "rename"} => job[e] = "patch"
    /\ stage[e] \in {"open", "fill"} => job[e] \in Jobs \ {"idle", "patch"}
    /\ stage[e] \in {"verify", "inspect", "write", "rename", "open", "fill"} => answer[e] = "none"
    /\ stage[e] = "idle" /\ answer[e] = "none" => job[e] = "idle"
    /\ stage[e] = "clean" => answer[e] \in {"failed", "success"}
    /\ stage[e] = "littered" => answer[e] = "failed"
\* A temporary file is there only while its patch writes, renames or cleans up, or has failed
\* to, or has died; one that was renamed is gone before the cleaning.
TempsGo ==
  \A e \in Engines :
    /\ stage[e] \notin {"rename", "clean", "littered", "dead"} => temp[e] = Missing
    /\ stage[e] = "clean" /\ answer[e] = "success" => temp[e] = Missing
\* In place is exactly what was reported as such.
PutMeansTold ==
  \A e \in Engines : e \in put <=> (answer[e] = "success" /\ job[e] = "patch")
SourceParses == source \in Parses \cup {Missing}
HandlersInv ==
  HandlersTypeOK /\ CandidatesKept /\ StagesOfJobs /\ TempsGo /\ PutMeansTold /\ SourceParses
    /\ RecordsWhole

LEMMA HandlersStart == HandlersInit => HandlersInv
<1> SUFFICES ASSUME HandlersInit PROVE HandlersInv
  OBVIOUS
<1>1. /\ source \in Parses \cup {Missing} /\ record = Missing
      /\ job = [e \in Engines |-> "idle"] /\ stage = [e \in Engines |-> "idle"]
      /\ temp = [e \in Engines |-> Missing] /\ answer = [e \in Engines |-> "none"]
      /\ candidate = [e \in Engines |-> Missing] /\ put = {} /\ spoilt = FALSE /\ mishaps = 0
  BY DEF HandlersInit
<1>2. HandlersTypeOK
  <2>1. /\ source \in Contents \cup {Missing} /\ record \in Contents \cup {Missing, Ragged}
        /\ mishaps \in 0..MaxMishaps /\ put \subseteq Engines
    BY <1>1, HandlersAssumption
  <2>2. spoilt \in BOOLEAN
    BY <1>1
  <2>3. /\ job \in [Engines -> Jobs] /\ stage \in [Engines -> Stages]
        /\ temp \in [Engines -> Contents \cup {Missing, Ragged}]
        /\ answer \in [Engines -> {"none", "success", "failed", "thrown"}]
        /\ candidate \in [Engines -> Contents \cup {Missing}]
    BY <1>1 DEF Stages, Jobs
  <2>4. QED
    BY <2>1, <2>2, <2>3 DEF HandlersTypeOK
<1>3. CandidatesKept /\ StagesOfJobs /\ TempsGo /\ PutMeansTold
  BY <1>1 DEF CandidatesKept, StagesOfJobs, TempsGo, PutMeansTold
<1>4. SourceParses /\ RecordsWhole
  BY <1>1, HandlersAssumption DEF SourceParses, RecordsWhole
<1>5. QED
  BY <1>2, <1>3, <1>4 DEF HandlersInv

\* A step of one engine's handler keeps what is kept of every engine if it keeps it of this
\* one, nobody else's part changes, and the two files are as they have to be.
LEMMA OneEngine ==
  ASSUME HandlersInv, NEW e \in Engines,
         HandlersTypeOK', SourceParses', RecordsWhole',
         put' \ {e} = put \ {e},
         \A d \in Engines \ {e} :
           /\ stage'[d] = stage[d] /\ candidate'[d] = candidate[d] /\ temp'[d] = temp[d]
           /\ job'[d] = job[d] /\ answer'[d] = answer[d],
         stage'[e] \in {"verify", "open", "fill"} => candidate'[e] \in Contents,
         stage'[e] \in {"inspect", "write", "rename"} => candidate'[e] \in Parses,
         stage'[e] = "rename" => temp'[e] = candidate'[e],
         stage'[e] \in {"verify", "inspect", "write", "rename"} => job'[e] = "patch",
         stage'[e] \in {"open", "fill"} => job'[e] \in Jobs \ {"idle", "patch"},
         stage'[e] \in {"verify", "inspect", "write", "rename", "open", "fill"} => answer'[e] = "none",
         stage'[e] = "idle" /\ answer'[e] = "none" => job'[e] = "idle",
         stage'[e] = "clean" => answer'[e] \in {"failed", "success"},
         stage'[e] = "littered" => answer'[e] = "failed",
         stage'[e] \notin {"rename", "clean", "littered", "dead"} => temp'[e] = Missing,
         stage'[e] = "clean" /\ answer'[e] = "success" => temp'[e] = Missing,
         e \in put' <=> (answer'[e] = "success" /\ job'[e] = "patch")
  PROVE  HandlersInv'
<1>1. ASSUME NEW d \in Engines
      PROVE  /\ stage'[d] \in {"verify", "open", "fill"} => candidate'[d] \in Contents
             /\ stage'[d] \in {"inspect", "write", "rename"} => candidate'[d] \in Parses
             /\ stage'[d] = "rename" => temp'[d] = candidate'[d]
  BY DEF HandlersInv, CandidatesKept
<1>2. ASSUME NEW d \in Engines
      PROVE  /\ stage'[d] \in {"verify", "inspect", "write", "rename"} => job'[d] = "patch"
             /\ stage'[d] \in {"open", "fill"} => job'[d] \in Jobs \ {"idle", "patch"}
             /\ stage'[d] \in {"verify", "inspect", "write", "rename", "open", "fill"}
                  => answer'[d] = "none"
             /\ stage'[d] = "idle" /\ answer'[d] = "none" => job'[d] = "idle"
             /\ stage'[d] = "clean" => answer'[d] \in {"failed", "success"}
             /\ stage'[d] = "littered" => answer'[d] = "failed"
  BY DEF HandlersInv, StagesOfJobs
<1>3. ASSUME NEW d \in Engines
      PROVE  /\ stage'[d] \notin {"rename", "clean", "littered", "dead"} => temp'[d] = Missing
             /\ stage'[d] = "clean" /\ answer'[d] = "success" => temp'[d] = Missing
  BY DEF HandlersInv, TempsGo
<1>4. ASSUME NEW d \in Engines PROVE d \in put' <=> (answer'[d] = "success" /\ job'[d] = "patch")
  BY DEF HandlersInv, PutMeansTold
<1>5. QED
  BY <1>1, <1>2, <1>3, <1>4 DEF HandlersInv, CandidatesKept, StagesOfJobs, TempsGo, PutMeansTold

\* Nobody starts or ends filling the record, and the record and its history stay.
LEMMA RecordUntouched ==
  ASSUME HandlersInv, UNCHANGED <<record, spoilt>>, Filling' = Filling PROVE RecordsWhole'
BY DEF HandlersInv, RecordsWhole

LEMMA HandlersStep == ASSUME HandlersInv, [HandlersNext]_handlerVars PROVE HandlersInv'
<1> USE HandlersAssumption
<1>1. CASE UNCHANGED handlerVars
  BY <1>1 DEF handlerVars, HandlersInv, HandlersTypeOK, CandidatesKept, StagesOfJobs, TempsGo,
     PutMeansTold, SourceParses, RecordsWhole, Filling
<1> USE DEF HandlersTypeOK, Stages, Jobs, Enter, Return, Mishap, files
<1>2. ASSUME NEW e \in Engines, NEW patch_ \in Patches, apply_fix_or_patch(e, patch_) PROVE HandlersInv'
  <2>0. HandlersTypeOK
    BY DEF HandlersInv
  <2>1. Yields(patch_, source) \subseteq Contents
    <3>1. patch_ \in Diffs => patch_.to \in Contents
      OBVIOUS
    <3>2. patch_ \notin Diffs /\ patch_ # <<>> => patch_.content \in Contents
      BY DEF Patches
    <3>3. QED
      BY <3>1, <3>2 DEF Yields
  <2>2. /\ stage[e] = "idle" /\ answer[e] = "none"
        /\ job' = [job EXCEPT ![e] = "patch"]
        /\ UNCHANGED <<source, record, temp, put, spoilt, mishaps>>
    BY <1>2 DEF apply_fix_or_patch
  <2>3. \/ /\ answer' = [answer EXCEPT ![e] = "failed"] /\ stage' = [stage EXCEPT ![e] = "idle"]
           /\ candidate' = candidate
        \/ /\ \E c_ \in Contents : candidate' = [candidate EXCEPT ![e] = c_]
           /\ stage' = [stage EXCEPT ![e] = "verify"] /\ answer' = answer
    BY <1>2, <2>1 DEF apply_fix_or_patch
  <2>4. HandlersTypeOK'
    BY <2>0, <2>2, <2>3
  <2>5. Filling' = Filling
    BY <2>0, <2>2, <2>3 DEF Filling
  <2>6. SourceParses' /\ RecordsWhole' /\ temp[e] = Missing /\ e \notin put
    BY <2>2, <2>5, RecordUntouched DEF HandlersInv, SourceParses, TempsGo, PutMeansTold
  <2>7. QED
    BY <2>0, <2>2, <2>3, <2>4, <2>6, OneEngine
<1>3. ASSUME NEW e \in Engines, VerifySyntax(e) PROVE HandlersInv'
  <2>0. HandlersTypeOK
    BY DEF HandlersInv
  <2>1. /\ stage[e] = "verify"
        /\ UNCHANGED <<source, record, job, candidate, temp, put, spoilt, mishaps>>
    BY <1>3 DEF VerifySyntax
  <2>2. \/ /\ candidate[e] \in Parses /\ stage' = [stage EXCEPT ![e] = "inspect"] /\ answer' = answer
        \/ answer' = [answer EXCEPT ![e] = "failed"] /\ stage' = [stage EXCEPT ![e] = "idle"]
    BY <1>3 DEF VerifySyntax, Accepted
  <2>3. HandlersTypeOK' /\ Filling' = Filling
    BY <2>0, <2>1, <2>2 DEF Filling
  <2>4. SourceParses' /\ RecordsWhole' /\ temp[e] = Missing /\ e \notin put /\ answer[e] = "none"
        /\ job[e] = "patch"
    BY <2>1, <2>3, RecordUntouched DEF HandlersInv, SourceParses, TempsGo, PutMeansTold, StagesOfJobs
  <2>5. QED
    BY <2>0, <2>1, <2>2, <2>3, <2>4, OneEngine
<1>4. ASSUME NEW e \in Engines, InspectTarget(e) PROVE HandlersInv'
  <2>0. HandlersTypeOK
    BY DEF HandlersInv
  <2>1. /\ stage[e] = "inspect"
        /\ UNCHANGED <<source, record, job, candidate, temp, put, spoilt, mishaps>>
    BY <1>4 DEF InspectTarget
  <2>2. \/ stage' = [stage EXCEPT ![e] = "write"] /\ answer' = answer
        \/ answer' = [answer EXCEPT ![e] = "failed"] /\ stage' = [stage EXCEPT ![e] = "idle"]
    BY <1>4 DEF InspectTarget
  <2>3. HandlersTypeOK' /\ Filling' = Filling
    BY <2>0, <2>1, <2>2 DEF Filling
  <2>4. SourceParses' /\ RecordsWhole' /\ temp[e] = Missing /\ e \notin put /\ answer[e] = "none"
        /\ job[e] = "patch" /\ candidate[e] \in Parses
    BY <2>1, <2>3, RecordUntouched
    DEF HandlersInv, SourceParses, TempsGo, PutMeansTold, StagesOfJobs, CandidatesKept
  <2>5. QED
    BY <2>0, <2>1, <2>2, <2>3, <2>4, OneEngine
<1>5. ASSUME NEW e \in Engines, WriteTemp(e) PROVE HandlersInv'
  <2>0. HandlersTypeOK
    BY DEF HandlersInv
  <2>1. /\ stage[e] = "write" /\ UNCHANGED <<source, record, job, candidate, put, spoilt>>
    BY <1>5 DEF WriteTemp
  <2>2. \/ /\ temp' = [temp EXCEPT ![e] = candidate[e]] /\ stage' = [stage EXCEPT ![e] = "rename"]
           /\ answer' = answer /\ mishaps' = mishaps
        \/ /\ temp' = [temp EXCEPT ![e] = Ragged] \/ temp' = temp
           /\ answer' = [answer EXCEPT ![e] = "failed"] /\ stage' = [stage EXCEPT ![e] = "clean"]
           /\ mishaps < MaxMishaps /\ mishaps' = mishaps + 1
    BY <1>5 DEF WriteTemp
  <2>3. SourceParses' /\ e \notin put /\ answer[e] = "none"
        /\ job[e] = "patch" /\ candidate[e] \in Parses
    BY <2>1 DEF HandlersInv, SourceParses, PutMeansTold, StagesOfJobs, CandidatesKept
  <2>4. HandlersTypeOK' /\ Filling' = Filling
    BY <2>0, <2>1, <2>2, <2>3 DEF Filling
  <2>5. RecordsWhole'
    BY <2>1, <2>4, RecordUntouched
  <2>6. QED
    BY <2>0, <2>1, <2>2, <2>3, <2>4, <2>5, OneEngine
<1>6. ASSUME NEW e \in Engines, RenameTemp(e) PROVE HandlersInv'
  <2>0. HandlersTypeOK
    BY DEF HandlersInv
  <2>1. /\ stage[e] = "rename" /\ stage' = [stage EXCEPT ![e] = "clean"]
        /\ UNCHANGED <<record, job, candidate, spoilt>>
    BY <1>6 DEF RenameTemp
  <2>2. e \notin put /\ job[e] = "patch" /\ temp[e] \in Parses
    BY <2>1 DEF HandlersInv, PutMeansTold, StagesOfJobs, CandidatesKept
  <2>3. \/ /\ source' = temp[e] /\ temp' = [temp EXCEPT ![e] = Missing] /\ put' = put \cup {e}
           /\ answer' = [answer EXCEPT ![e] = "success"] /\ mishaps' = mishaps
        \/ /\ mishaps < MaxMishaps /\ mishaps' = mishaps + 1
           /\ answer' = [answer EXCEPT ![e] = "failed"] /\ UNCHANGED <<source, temp, put>>
    BY <1>6 DEF RenameTemp
  <2>4. HandlersTypeOK' /\ Filling' = Filling
    BY <2>0, <2>1, <2>2, <2>3 DEF Filling
  <2>5. RecordsWhole' /\ SourceParses'
    BY <2>1, <2>2, <2>3, <2>4, RecordUntouched DEF HandlersInv, SourceParses
  <2>6. QED
    BY <2>0, <2>1, <2>2, <2>3, <2>4, <2>5, OneEngine
<1>7. ASSUME NEW e \in Engines, DropTemp(e) PROVE HandlersInv'
  <2>0. HandlersTypeOK
    BY DEF HandlersInv
  <2>1. /\ stage[e] = "clean"
        /\ UNCHANGED <<source, record, job, candidate, answer, put, spoilt>>
    BY <1>7 DEF DropTemp
  <2>2. \/ /\ stage' = [stage EXCEPT ![e] = "idle"] /\ mishaps' = mishaps
           /\ temp' = [temp EXCEPT ![e] = Missing]
        \/ /\ stage' = [stage EXCEPT ![e] = "littered"] /\ temp[e] # Missing /\ temp' = temp
           /\ mishaps < MaxMishaps /\ mishaps' = mishaps + 1
    BY <1>7 DEF DropTemp, Cleaned
  <2>3. HandlersTypeOK' /\ Filling' = Filling
    BY <2>0, <2>1, <2>2 DEF Filling
  <2>4. /\ SourceParses' /\ RecordsWhole' /\ answer[e] \in {"failed", "success"}
        /\ answer[e] = "success" => temp[e] = Missing
        /\ e \in put <=> (answer[e] = "success" /\ job[e] = "patch")
    BY <2>1, <2>3, RecordUntouched DEF HandlersInv, SourceParses, StagesOfJobs, TempsGo, PutMeansTold
  <2>5. QED
    BY <2>0, <2>1, <2>2, <2>3, <2>4, OneEngine
<1>8. ASSUME NEW e \in Engines, NEW kind_ \in Jobs \ {"idle", "patch"}, BeginRecord(e, kind_)
      PROVE  HandlersInv'
  <2>0. HandlersTypeOK
    BY DEF HandlersInv
  <2>1. /\ stage[e] = "idle" /\ answer[e] = "none" /\ stage' = [stage EXCEPT ![e] = "open"]
        /\ job' = [job EXCEPT ![e] = kind_]
        /\ \E c_ \in Contents : candidate' = [candidate EXCEPT ![e] = c_]
        /\ UNCHANGED <<source, record, temp, answer, put, spoilt, mishaps>>
    BY <1>8 DEF BeginRecord
  <2>2. HandlersTypeOK' /\ Filling' = Filling
    BY <2>0, <2>1 DEF Filling
  <2>3. SourceParses' /\ RecordsWhole' /\ temp[e] = Missing /\ e \notin put
    BY <2>1, <2>2, RecordUntouched DEF HandlersInv, SourceParses, TempsGo, PutMeansTold
  <2>4. QED
    BY <2>0, <2>1, <2>2, <2>3, OneEngine
<1>9. ASSUME NEW e \in Engines, OpenRecord(e) PROVE HandlersInv'
  <2>0. HandlersTypeOK
    BY DEF HandlersInv
  <2>1. stage[e] = "open" /\ UNCHANGED <<source, job, candidate, temp, put>>
    BY <1>9 DEF OpenRecord
  <2>2. \/ /\ record' = Ragged /\ stage' = [stage EXCEPT ![e] = "fill"] /\ spoilt' = (Filling # {})
           /\ answer' = answer /\ mishaps' = mishaps
        \/ /\ mishaps < MaxMishaps /\ mishaps' = mishaps + 1 /\ UNCHANGED <<record, spoilt>>
           /\ \E a \in {"failed", "thrown"} : answer' = [answer EXCEPT ![e] = a]
           /\ stage' = [stage EXCEPT ![e] = "idle"]
    BY <1>9 DEF OpenRecord, FailsWith
  <2>3. HandlersTypeOK'
    <3>1. spoilt' \in BOOLEAN
      BY <2>0, <2>2
    <3>2. /\ record' \in Contents \cup {Missing, Ragged} /\ mishaps' \in 0..MaxMishaps
          /\ stage' \in [Engines -> Stages]
          /\ answer' \in [Engines -> {"none", "success", "failed", "thrown"}]
      BY <2>0, <2>2
    <3>3. QED
      BY <2>0, <2>1, <3>1, <3>2
  <2>4. /\ SourceParses' /\ temp[e] = Missing /\ e \notin put /\ answer[e] = "none"
        /\ candidate[e] \in Contents /\ job[e] \in Jobs \ {"idle", "patch"}
    BY <2>1 DEF HandlersInv, SourceParses, TempsGo, PutMeansTold, StagesOfJobs, CandidatesKept
  <2>5. RecordsWhole'
    <3>1. CASE stage' = [stage EXCEPT ![e] = "fill"]
      <4>1. e \in Filling'
        BY <2>0, <3>1 DEF Filling
      <4>2. QED
        BY <4>1 DEF RecordsWhole
    <3>2. CASE UNCHANGED <<record, spoilt>> /\ stage' = [stage EXCEPT ![e] = "idle"]
      <4>1. Filling' = Filling
        BY <2>0, <2>1, <3>2 DEF Filling
      <4>2. QED
        BY <3>2, <4>1, RecordUntouched
    <3>3. QED
      BY <2>2, <3>1, <3>2
  <2>6. QED
    BY <2>0, <2>1, <2>2, <2>3, <2>4, <2>5, OneEngine
<1>10. ASSUME NEW e \in Engines, FillRecord(e) PROVE HandlersInv'
  <2>0. HandlersTypeOK
    BY DEF HandlersInv
  <2>1. /\ stage[e] = "fill" /\ stage' = [stage EXCEPT ![e] = "idle"]
        /\ UNCHANGED <<source, job, candidate, temp, put>>
    BY <1>10 DEF FillRecord
  <2>2. /\ SourceParses' /\ temp[e] = Missing /\ e \notin put /\ answer[e] = "none"
        /\ candidate[e] \in Contents /\ job[e] \in Jobs \ {"idle", "patch"}
    BY <2>1 DEF HandlersInv, SourceParses, TempsGo, PutMeansTold, StagesOfJobs, CandidatesKept
  <2>3. \/ /\ record' = (IF spoilt THEN Ragged ELSE candidate[e]) /\ spoilt' = spoilt
           /\ answer' = [answer EXCEPT ![e] = "success"] /\ mishaps' = mishaps
        \/ /\ mishaps < MaxMishaps /\ mishaps' = mishaps + 1 /\ spoilt' = TRUE /\ record' = record
           /\ \E a \in {"failed", "thrown"} : answer' = [answer EXCEPT ![e] = a]
    BY <1>10 DEF FillRecord, FailsWith
  <2>4. HandlersTypeOK'
    <3>1. spoilt' \in BOOLEAN
      BY <2>0, <2>3
    <3>2. /\ record' \in Contents \cup {Missing, Ragged} /\ mishaps' \in 0..MaxMishaps
          /\ stage' \in [Engines -> Stages]
          /\ answer' \in [Engines -> {"none", "success", "failed", "thrown"}]
      BY <2>0, <2>1, <2>2, <2>3
    <3>3. QED
      BY <2>0, <2>1, <3>1, <3>2
  <2>5. RecordsWhole'
    BY <2>2, <2>3 DEF RecordsWhole
  <2>6. QED
    BY <2>0, <2>1, <2>2, <2>3, <2>4, <2>5, OneEngine
<1>11. ASSUME NEW e \in Engines, NEW a \in {"success", "failed", "thrown"}, Looks(e, a)
       PROVE  HandlersInv'
  <2>0. HandlersTypeOK
    BY DEF HandlersInv
  <2>1. /\ stage[e] = "idle" /\ answer[e] = "none" /\ stage' = [stage EXCEPT ![e] = "idle"]
        /\ answer' = [answer EXCEPT ![e] = a]
        /\ UNCHANGED <<source, record, job, candidate, temp, put, spoilt, mishaps>>
    BY <1>11 DEF Looks
  <2>2. HandlersTypeOK' /\ Filling' = Filling
    BY <2>0, <2>1 DEF Filling
  <2>3. SourceParses' /\ RecordsWhole' /\ temp[e] = Missing /\ e \notin put /\ job[e] = "idle"
    BY <2>1, <2>2, RecordUntouched DEF HandlersInv, SourceParses, TempsGo, PutMeansTold, StagesOfJobs
  <2>4. QED
    BY <2>0, <2>1, <2>2, <2>3, OneEngine
<1>12. ASSUME NEW e \in Engines, NextStep(e) PROVE HandlersInv'
  <2>0. HandlersTypeOK
    BY DEF HandlersInv
  <2>1. /\ stage[e] \in {"idle", "littered"} /\ stage' = [stage EXCEPT ![e] = "idle"]
        /\ answer' = [answer EXCEPT ![e] = "none"] /\ temp' = [temp EXCEPT ![e] = Missing]
        /\ job' = [job EXCEPT ![e] = "idle"] /\ candidate' = [candidate EXCEPT ![e] = Missing]
        /\ put' = put \ {e} /\ UNCHANGED <<source, record, spoilt, mishaps>>
    BY <1>12 DEF NextStep
  <2>2. HandlersTypeOK' /\ Filling' = Filling
    BY <2>0, <2>1 DEF Filling
  <2>3. SourceParses' /\ RecordsWhole'
    BY <2>1, <2>2, RecordUntouched DEF HandlersInv, SourceParses
  <2>4. QED
    BY <2>0, <2>1, <2>2, <2>3, OneEngine
<1>13. ASSUME NEW e \in Engines, Die(e) PROVE HandlersInv'
  <2>0. HandlersTypeOK
    BY DEF HandlersInv
  <2>1. /\ stage[e] # "dead" /\ stage' = [stage EXCEPT ![e] = "dead"]
        /\ mishaps < MaxMishaps /\ mishaps' = mishaps + 1
        /\ spoilt' = (spoilt \/ stage[e] = "fill")
        /\ temp' = temp \/ temp' = [temp EXCEPT ![e] = Ragged]
        /\ UNCHANGED <<source, record, job, candidate, answer, put>>
    BY <1>13 DEF Die
  <2>2. HandlersTypeOK'
    BY <2>0, <2>1
  <2>3. /\ SourceParses'
        /\ e \in put <=> (answer[e] = "success" /\ job[e] = "patch")
    BY <2>1 DEF HandlersInv, SourceParses, PutMeansTold
  <2>4. RecordsWhole'
    <3>1. CASE stage[e] = "fill"
      BY <2>1, <3>1 DEF RecordsWhole
    <3>2. CASE stage[e] # "fill"
      <4>1. spoilt' = spoilt
        BY <2>0, <2>1, <3>2
      <4>2. Filling' = Filling
        BY <2>0, <2>1, <3>2 DEF Filling
      <4>3. QED
        BY <2>1, <4>1, <4>2, RecordUntouched
    <3>3. QED
      BY <3>1, <3>2
  <2>5. QED
    BY <2>0, <2>1, <2>2, <2>3, <2>4, OneEngine
<1>14. ASSUME NEW e \in Engines,
              write_report(e) \/ contain_threat(e) \/ escalate_to_soc(e)
       PROVE  HandlersInv'
  BY <1>8, <1>14 DEF write_report, contain_threat, escalate_to_soc
<1>15. ASSUME NEW e \in Engines,
              \/ fetch_sources(e) \/ read_catalog(e) \/ inspect_sqlite(e) \/ validate_sdmx_schema(e)
              \/ forensic_investigation(e) \/ inspect_tabular(e) \/ run_llm_query(e)
              \/ probe_services(e) \/ verify_endpoint(e) \/ fetch_sdmx_dataflows(e)
              \/ parse_intent(e) \/ evaluate_incident(e)
       PROVE  HandlersInv'
  <2>1. \E a \in {"success", "failed", "thrown"} : Looks(e, a)
    BY <1>15
    DEF fetch_sources, read_catalog, inspect_sqlite, validate_sdmx_schema, forensic_investigation,
        inspect_tabular, run_llm_query, probe_services, verify_endpoint, fetch_sdmx_dataflows,
        parse_intent, evaluate_incident
  <2>2. QED
    BY <1>11, <2>1
<1>16. QED
  BY <1>1, <1>2, <1>3, <1>4, <1>5, <1>6, <1>7, <1>9, <1>10, <1>12, <1>13, <1>14, <1>15
  DEF HandlersNext

\* What the workflow's handlers leave on disk: a patch is in place whole or not at all, as
\* it was reported, and a ledger that nobody is writing is whole unless a write of it was
\* cut off (declarative-orchestrator.mjs, registerCanonicalAdapters).
THEOREM HandlersStayDurable == HandlersSpec => []HandlersDurable
<1>1. HandlersInv => HandlersDurable
  BY DEF HandlersInv, HandlersDurable, PatchTransactional, SourceParses, StagesOfJobs,
     TempsGo, PutMeansTold
<1>2. HandlersInv /\ [HandlersNext]_handlerVars => HandlersInv'
  BY HandlersStep
<1>3. QED
  BY <1>1, <1>2, HandlersStart, PTL DEF HandlersSpec

-----------------------------------------------------------------------------
(* The engine                                                              *)

Checkpoint ==
  [idx : 0..Len(wf), ring : Seq(Signature), facts : SUBSET Cond, results : Seq(LogEntry)]
\* The types, with the shape of the checkpoint: an index past 0 is of a step that was gated.
EngineTypes ==
  /\ TypeOK /\ wf \in Workflows /\ ckpt \in Checkpoint /\ Len(ckpt.ring) <= Cap

Seen(r, s) == \E i \in 1..Len(r) : i > Len(r) - Window /\ r[i] = SignatureOf(s)

\* A fallback runs where there is one; the condition was met, and was not touched since;
\* and the step's own call is among the last remembered ones.
FramesTrue ==
  mode = "running" =>
    /\ frame = "fallback" => HasFallback(wf[idx])
    /\ frame = "fallback" \/ place # "authorize" => ConditionMet(wf[idx])
    /\ frame = "fallback" /\ place = "authorize" => Seen(ring, wf[idx])
    /\ frame = "primary" /\ place = "handle" => Seen(ring, wf[idx])

\* Every approval is still there, or was spent on a call that is about to be made, or on one
\* that was made, or is lost.
Pending == IF mode = "running" /\ place = "trap" /\ Gated(Current) THEN 1 ELSE 0
Credit == gatedRuns + Pending + (IF approved THEN 1 ELSE 0) <= resumes

\* The ring is the end of what was executed, all of it until the ring is full.
RingTrue ==
  /\ Len(ring) <= Len(executed) /\ (Len(ring) < Cap => Len(ring) = Len(executed))
  /\ \A i \in 1..Len(ring) : ring[i] = executed[i + (Len(executed) - Len(ring))]

\* Between two steps the log has an entry for each step before; a suspended workflow is what
\* its checkpoint says, with the gated step's entry the last.
LogTrue ==
  /\ LogMatchesSteps
  /\ mode = "running" => Len(results) = idx - 1
  /\ mode = "suspended" =>
       /\ ckpt.idx = idx /\ ckpt.ring = ring /\ ckpt.results = results
       /\ Len(results) = idx /\ results[idx][2] = "GATED"

\* What stopped at the checkpoint: the step's gate, or that of its fallback, and then the
\* step itself would be trapped if it were tried again.
GateKnown ==
  ckpt.idx > 0 =>
    \/ Gated(wf[ckpt.idx])
    \/ Gated(FallbackStep(wf[ckpt.idx])) /\ Seen(ckpt.ring, wf[ckpt.idx])

\* An approval that is still there is for the step of the checkpoint, which has not called
\* anything yet, or that step was skipped.
ApprovalPlaced ==
  approved /\ mode = "running" =>
    /\ ckpt.idx > 0 /\ ckpt.idx <= idx
    /\ ckpt.idx = idx =>
         /\ ring = ckpt.ring
         /\ frame = "primary" =>
              place = "authorize" \/ (place = "trap" /\ ~Gated(wf[idx]))
         /\ frame = "fallback" => place = "authorize" /\ ~Gated(wf[idx])
    /\ ckpt.idx < idx => results[ckpt.idx][2] = "SKIPPED"
SpentPlaced ==
  \A use \in spent :
    \/ use[2] = use[1]
    \/ use[2] > use[1] /\ use[1] \in 1..Len(results) /\ results[use[1]][2] = "SKIPPED"

\* A resumed execution owns its checkpoint until it stops, and is past the gate or has its
\* approval.
Resumed ==
  /\ mode = "running" => accepted \in {"none", "IN_PROGRESS"}
  /\ mode = "running" /\ accepted = "IN_PROGRESS" =>
       /\ ckpt.idx <= idx
       /\ ckpt.idx = idx /\ frame = "primary" /\ place = "authorize" => approved
  /\ StatusTruthful

EngineInv ==
  EngineTypes /\ FramesTrue /\ Credit /\ RingTrue /\ LoopTrapHolds /\ LogTrue /\ GateKnown
    /\ ApprovalPlaced /\ SpentPlaced /\ Resumed

-----------------------------------------------------------------------------
(* The ring of signatures                                                  *)

LEMMA StepTyped ==
  ASSUME EngineTypes, FramesTrue, mode = "running"
  PROVE  /\ wf \in Seq(Step) /\ idx \in 1..Len(wf) /\ Len(wf) \in Nat /\ wf[idx] \in Step
         /\ SignatureOf(Current) \in Signature /\ SignatureOf(wf[idx]) \in Signature
         /\ Current.action \in Action /\ Current.cond = wf[idx].cond
<1>1. wf \in Seq(Step) /\ idx \in 1..Len(wf)
  BY EngineAssumption DEF EngineTypes, TypeOK
<1>2. wf[idx] \in Step /\ Len(wf) \in Nat
  BY <1>1, ElementOfSeq, LenProperties
<1>3. SignatureOf(wf[idx]) \in Signature
  BY <1>2 DEF SignatureOf, Signature, Step
<1>4. CASE frame = "primary"
  BY <1>1, <1>2, <1>3, <1>4 DEF Current, Step
<1>5. CASE frame = "fallback"
  <2>1. wf[idx].fallback \in Action
    BY <1>2, <1>5 DEF FramesTrue, HasFallback, Step
  <2>2. /\ Current = FallbackStep(wf[idx])
        /\ FallbackStep(wf[idx]).action = wf[idx].fallback
        /\ FallbackStep(wf[idx]).arg = wf[idx].arg /\ FallbackStep(wf[idx]).cond = wf[idx].cond
    BY <1>2, <1>5 DEF Current, FallbackStep, Step
  <2>3. wf[idx].arg \in Arg
    BY <1>2 DEF Step
  <2>4. SignatureOf(Current) \in Signature
    BY <2>1, <2>2, <2>3 DEF SignatureOf, Signature
  <2>5. QED
    BY <1>1, <1>2, <1>3, <2>1, <2>2, <2>4
<1>6. QED
  BY <1>4, <1>5 DEF EngineTypes, TypeOK

\* The trap looks at the last Window signatures.
LEMMA LoopedSeen ==
  ASSUME ring \in Seq(Signature), NEW s PROVE Looped(s) <=> Seen(ring, s)
<1> DEFINE from == IF Len(ring) > Window THEN Len(ring) - Window + 1 ELSE 1
           last == SubSeq(ring, from, Len(ring))
<1>1. Len(ring) \in Nat /\ Window \in Nat \ {0}
  BY EngineAssumption, LenProperties
<1>2. /\ from \in 1..(Len(ring) + 1) /\ from \in Nat
      /\ \A i \in 1..Len(ring) : i > Len(ring) - Window <=> i >= from
  BY <1>1
<1>3. /\ last \in Seq(Signature) /\ Len(last) = Len(ring) - from + 1
      /\ \A i \in 1..Len(last) : last[i] = ring[from + i - 1]
  <2>1. Len(ring) \in (from - 1)..Len(ring)
    BY <1>1, <1>2
  <2> HIDE DEF from
  <2>2. QED
    BY <1>1, <1>2, <2>1, SubSeqProperties
<1> HIDE DEF from
<1>4. Recent = last
  BY DEF Recent, from
<1> HIDE DEF last
<1>5. ASSUME NEW i \in 1..Len(last), last[i] = SignatureOf(s) PROVE Seen(ring, s)
  <2>1. from + i - 1 \in 1..Len(ring) /\ from + i - 1 >= from
    BY <1>1, <1>2, <1>3
  <2>2. QED
    BY <1>2, <1>3, <1>5, <2>1 DEF Seen
<1>6. ASSUME NEW i \in 1..Len(ring), i > Len(ring) - Window, ring[i] = SignatureOf(s)
      PROVE  \E k \in 1..Len(last) : last[k] = SignatureOf(s)
  <2>1. i - from + 1 \in 1..Len(last) /\ from + (i - from + 1) - 1 = i
    BY <1>1, <1>2, <1>3, <1>6
  <2>2. last[i - from + 1] = ring[i]
    BY <1>3, <2>1
  <2>3. QED
    BY <1>6, <2>1, <2>2
<1>7. QED
  BY <1>4, <1>5, <1>6 DEF Looped, Contains, Seen

\* Pushing remembers the step, keeps the bound, and keeps the ring the end of what was executed.
LEMMA Pushing ==
  ASSUME EngineTypes, RingTrue, NEW s, SignatureOf(s) \in Signature,
         ring' = PushToRing(s), executed' = Append(executed, SignatureOf(s))
  PROVE  ring' \in Seq(Signature) /\ Len(ring') <= Cap /\ Seen(ring', s) /\ RingTrue'
<1> DEFINE sig == SignatureOf(s)
           longer == Append(ring, sig)
<1>1. /\ ring \in Seq(Signature) /\ executed \in Seq(Signature) /\ Len(ring) <= Cap
      /\ Len(ring) \in Nat /\ Len(executed) \in Nat
      /\ Window \in Nat \ {0} /\ Cap \in Nat /\ Window <= Cap
  BY EngineAssumption, LenProperties DEF EngineTypes, TypeOK
<1>2. /\ longer \in Seq(Signature) /\ Len(longer) = Len(ring) + 1
      /\ \A i \in 1..Len(ring) : longer[i] = ring[i]
      /\ longer[Len(ring) + 1] = sig
  BY <1>1
<1>3. /\ executed' \in Seq(Signature) /\ Len(executed') = Len(executed) + 1
      /\ \A i \in 1..Len(executed) : executed'[i] = executed[i]
      /\ executed'[Len(executed) + 1] = sig
  BY <1>1
<1>4. /\ Len(ring) <= Len(executed) /\ (Len(ring) < Cap => Len(ring) = Len(executed))
      /\ \A i \in 1..Len(ring) : ring[i] = executed[i + (Len(executed) - Len(ring))]
  BY DEF RingTrue
<1>5. ring' = IF Len(longer) > Cap THEN Tail(longer) ELSE longer
  BY DEF PushToRing
<1> HIDE DEF sig, longer
<1>6. CASE Len(longer) > Cap
  <2>1. Len(ring) = Cap
    BY <1>1, <1>2, <1>6
  <2>2. /\ ring' = Tail(longer) /\ ring' \in Seq(Signature) /\ Len(ring') = Len(ring)
        /\ \A i \in 1..Len(ring) : ring'[i] = longer[i + 1]
    BY <1>1, <1>2, <1>5, <1>6, <2>1
  <2>3. ring'[Len(ring)] = sig /\ Len(ring) \in 1..Len(ring)
    BY <1>1, <1>2, <2>1, <2>2
  <2>4. Seen(ring', s)
    BY <1>1, <2>2, <2>3 DEF Seen, sig
  <2>5. ASSUME NEW i \in 1..Len(ring')
        PROVE  ring'[i] = executed'[i + (Len(executed') - Len(ring'))]
    <3>1. CASE i = Len(ring)
      <4>1. i + (Len(executed') - Len(ring')) = Len(executed) + 1
        <5>1. Len(executed') = Len(executed) + 1 /\ Len(ring') = Len(ring)
          BY <1>3, <2>2
        <5>2. QED
          BY <1>1, <3>1, <5>1
      <4>2. QED
        BY <1>3, <2>3, <3>1, <4>1
    <3>2. CASE i # Len(ring)
      <4>1. /\ i + 1 \in 1..Len(ring)
            /\ i + (Len(executed') - Len(ring')) = (i + 1) + (Len(executed) - Len(ring))
            /\ (i + 1) + (Len(executed) - Len(ring)) \in 1..Len(executed)
        <5>1. Len(executed') = Len(executed) + 1 /\ Len(ring') = Len(ring)
          BY <1>3, <2>2
        <5>2. i \in 1..Len(ring) /\ Len(ring) <= Len(executed)
          BY <1>4, <5>1
        <5>3. QED
          BY <1>1, <3>2, <5>1, <5>2
      <4>2. ring'[i] = ring[i + 1]
        BY <1>2, <2>2, <4>1
      <4>3. QED
        BY <1>3, <1>4, <4>1, <4>2
    <3>3. QED
      BY <3>1, <3>2
  <2>6. Len(ring') <= Len(executed') /\ ~(Len(ring') < Cap)
    BY <1>1, <1>3, <1>4, <2>1, <2>2
  <2>7. RingTrue'
    BY <2>5, <2>6 DEF RingTrue
  <2>8. QED
    BY <1>1, <2>1, <2>2, <2>4, <2>7
<1>7. CASE ~(Len(longer) > Cap)
  <2>1. ring' = longer /\ Len(ring) = Len(executed) /\ Len(longer) <= Cap
    BY <1>1, <1>2, <1>4, <1>5, <1>7
  <2>2. Seen(ring', s)
    <3>1. Len(ring') \in 1..Len(ring') /\ Len(ring') > Len(ring') - Window
      BY <1>1, <1>2, <2>1
    <3>2. ring'[Len(ring')] = SignatureOf(s)
      BY <1>2, <2>1 DEF sig
    <3>3. QED
      BY <3>1, <3>2 DEF Seen
  <2>3. ASSUME NEW i \in 1..Len(ring')
        PROVE  ring'[i] = executed'[i + (Len(executed') - Len(ring'))]
    <3>1. i + (Len(executed') - Len(ring')) = i
      <4>1. Len(executed') = Len(ring') /\ Len(ring') \in Nat
        BY <1>1, <1>2, <1>3, <2>1
      <4>2. QED
        BY <4>1
    <3>2. CASE i = Len(ring) + 1
      BY <1>2, <1>3, <2>1, <3>1, <3>2
    <3>3. CASE i # Len(ring) + 1
      <4>1. i \in 1..Len(ring) /\ i \in 1..Len(executed) /\ i + (Len(executed) - Len(ring)) = i
        BY <1>1, <1>2, <2>1, <3>3
      <4>2. ring[i] = executed[i]
        BY <1>4, <4>1
      <4>3. ring'[i] = ring[i]
        BY <1>2, <2>1, <4>1
      <4>4. executed'[i] = executed[i]
        BY <1>3, <4>1
      <4>5. QED
        BY <3>1, <4>2, <4>3, <4>4
    <3>4. QED
      BY <3>2, <3>3
  <2>4. Len(ring') = Len(executed')
    BY <1>2, <1>3, <2>1
  <2>5. Len(ring') <= Len(executed')
    BY <1>1, <1>2, <2>1, <2>4
  <2>6. RingTrue'
    BY <2>3, <2>4, <2>5 DEF RingTrue
  <2>7. QED
    BY <1>2, <2>1, <2>2, <2>6
<1>8. QED
  BY <1>6, <1>7

\* What the trap lets through has not been executed among the last Window calls.
LEMMA LetThrough ==
  ASSUME EngineTypes, RingTrue, NEW s, ~Looped(s), NEW j \in 1..Len(executed),
         executed[j] = SignatureOf(s)
  PROVE  (Len(executed) + 1) - j > Window
<1>1. /\ ring \in Seq(Signature) /\ executed \in Seq(Signature) /\ Len(ring) <= Cap
      /\ Len(ring) \in Nat /\ Len(executed) \in Nat
      /\ Window \in Nat \ {0} /\ Cap \in Nat /\ Window <= Cap
  BY EngineAssumption, LenProperties DEF EngineTypes, TypeOK
<1>2. /\ Len(ring) <= Len(executed) /\ (Len(ring) < Cap => Len(ring) = Len(executed))
      /\ \A i \in 1..Len(ring) : ring[i] = executed[i + (Len(executed) - Len(ring))]
  BY DEF RingTrue
<1>3. ~Seen(ring, s)
  BY <1>1, LoopedSeen
<1>4. SUFFICES ASSUME ~((Len(executed) + 1) - j > Window) PROVE FALSE
  OBVIOUS
<1> DEFINE i == j - (Len(executed) - Len(ring))
<1>5. i \in 1..Len(ring) /\ i > Len(ring) - Window /\ i + (Len(executed) - Len(ring)) = j
  BY <1>1, <1>2, <1>4
<1> HIDE DEF i
<1>6. ring[i] = SignatureOf(s)
  BY <1>2, <1>5
<1>7. QED
  BY <1>3, <1>5, <1>6 DEF Seen

-----------------------------------------------------------------------------
(* The kinds of steps an execution takes                                   *)

Kept == UNCHANGED <<wf, approved, ring, resumes, gatedRuns, spent, executed>>

\* It fails, by an exception or a failed step.
Fails ==
  /\ mode' = "failed" /\ Kept /\ UNCHANGED <<idx, frame, place, why, facts, ckpt>>
  /\ results' = results \/ \E k \in {"FAILED", "GATED"} : results' = Append(results, <<idx, k>>)
  /\ fbGated' \in BOOLEAN
  /\ IF accepted = "IN_PROGRESS" THEN accepted' = "FAILED" \/ (accepted' = "CONSUMED" /\ fbGated')
                                 ELSE accepted' = accepted
\* It suspends at a gate.
SuspendsAt ==
  /\ place = "authorize" /\ ~approved /\ Gated(Current)
  /\ mode' = "suspended" /\ Kept /\ UNCHANGED <<idx, frame, place, why, facts>>
  /\ results' = Append(results, <<idx, "GATED">>)
  /\ ckpt' = [idx |-> idx, ring |-> ring, facts |-> facts, results |-> results']
  /\ fbGated' \in BOOLEAN /\ (frame = "fallback" => fbGated')
  /\ accepted' = IF accepted = "IN_PROGRESS" THEN "CONSUMED" ELSE accepted
\* A step is done: on to the next one, or the workflow is over.
Advances(status) ==
  /\ approved /\ ckpt.idx = idx => status = "SKIPPED"
  /\ Kept /\ UNCHANGED <<ckpt, fbGated>> /\ facts' \subseteq Cond
  /\ results' = Append(results, <<idx, status>>)
  /\ \/ /\ idx = Len(wf) /\ mode' = "completed" /\ UNCHANGED <<idx, frame, place, why>>
        /\ accepted' = IF accepted = "IN_PROGRESS" THEN "CONSUMED" ELSE accepted
     \/ /\ idx # Len(wf) /\ mode' = mode /\ idx' = idx + 1 /\ accepted' = accepted
        /\ frame' = "primary" /\ place' = "authorize" /\ why' = "none"
\* The step failed and its fallback is next.
FallsBack ==
  /\ frame = "primary" /\ place # "authorize" /\ HasFallback(wf[idx]) /\ Seen(ring, wf[idx])
  /\ frame' = "fallback" /\ place' = "authorize" /\ why' \in {"trapped", "returned", "threw"}
  /\ Kept /\ UNCHANGED <<mode, idx, facts, results, ckpt, accepted, fbGated>>

LEMMA EngineTyped ==
  ASSUME EngineTypes
  PROVE  /\ wf \in Seq(Step) /\ Len(wf) \in Nat /\ idx \in 1..Len(wf) /\ idx \in Nat
         /\ ring \in Seq(Signature) /\ executed \in Seq(Signature) /\ results \in Seq(LogEntry)
         /\ Len(results) \in Nat /\ Len(ring) \in Nat /\ Len(executed) \in Nat
         /\ ckpt \in Checkpoint /\ ckpt.idx \in 0..Len(wf) /\ ckpt.idx \in Nat
         /\ ckpt.ring \in Seq(Signature) /\ Len(ckpt.ring) \in Nat
         /\ ckpt.results \in Seq(LogEntry) /\ Len(ckpt.results) \in Nat
         /\ approved \in BOOLEAN /\ resumes \in Nat /\ gatedRuns \in Nat /\ fbGated \in BOOLEAN
BY EngineAssumption, LenProperties DEF EngineTypes, TypeOK, Checkpoint

\* An entry is added to the log.
LEMMA Logged ==
  ASSUME EngineInv, mode = "running", wf' = wf,
         NEW status \in {"SUCCESS", "SKIPPED", "FAILED", "GATED"},
         results' = Append(results, <<idx, status>>),
         status \in {"FAILED", "GATED"} => mode' # "running",
         mode' = "completed" => idx = Len(wf)
  PROVE  /\ results' \in Seq(LogEntry)' /\ results' \in Seq(LogEntry) /\ Len(results') = idx
         /\ results'[idx] = <<idx, status>>
         /\ \A k \in 1..Len(results) : k \in 1..Len(results') /\ results'[k] = results[k]
         /\ LogMatchesSteps'
<1>1. /\ results \in Seq(LogEntry) /\ Len(wf) \in Nat /\ idx \in 1..Len(wf) /\ idx \in Nat
      /\ Len(results) \in Nat
  BY EngineTyped DEF EngineInv
<1>2. /\ LogMatchesSteps /\ Len(results) = idx - 1
  BY DEF EngineInv, LogTrue
<1>3. <<idx, status>> \in LogEntry
  BY <1>1 DEF LogEntry
<1>4. /\ results' \in Seq(LogEntry) /\ Len(results') = Len(results) + 1
      /\ \A k \in 1..Len(results) : results'[k] = results[k]
      /\ results'[Len(results) + 1] = <<idx, status>>
  BY <1>1, <1>3, AppendProperties
<1>5. LogEntry' = LogEntry
  BY DEF LogEntry
<1>6. Len(results') = idx /\ results'[idx] = <<idx, status>>
  <2>1. Len(results) + 1 = idx
    BY <1>1, <1>2
  <2>2. QED
    BY <1>4, <2>1
<1>7. \A k \in 1..Len(results) : k \in 1..Len(results') /\ results'[k] = results[k]
  BY <1>1, <1>4
<1>8. LogMatchesSteps'
  <2>1. ASSUME NEW k \in 1..Len(results')
        PROVE  /\ results'[k][1] = k
               /\ results'[k][2] \in {"GATED", "FAILED"} => k = Len(results') /\ mode' # "running"
    <3>1. CASE k = idx
      BY <1>6, <3>1
    <3>2. CASE k # idx
      <4>1. k \in 1..Len(results) /\ k # Len(results) + 1
        BY <1>1, <1>2, <1>6, <3>2
      <4>2. results'[k] = results[k]
        BY <1>4, <4>1
      <4>3. results[k][1] = k /\ results[k][2] \notin {"GATED", "FAILED"}
        BY <1>2, <4>1 DEF LogMatchesSteps
      <4>4. QED
        BY <4>2, <4>3
    <3>3. QED
      BY <3>1, <3>2
  <2>2. mode' = "completed" => Len(results') = Len(wf')
    BY <1>6
  <2>3. QED
    BY <2>1, <2>2 DEF LogMatchesSteps
<1>9. QED
  BY <1>4, <1>5, <1>6, <1>7, <1>8

\* What was spent stays where it was spent while the log only grows.
LEMMA SpentKept ==
  ASSUME SpentPlaced, spent' = spent,
         \A k \in 1..Len(results) : k \in 1..Len(results') /\ results'[k] = results[k]
  PROVE  SpentPlaced'
BY DEF SpentPlaced

LEMMA FailsKeeps == ASSUME EngineInv, mode = "running", Fails PROVE EngineInv'
<1>1. /\ mode' = "failed"
      /\ UNCHANGED <<wf, approved, ring, resumes, gatedRuns, spent, executed, idx, frame, place,
                     why, facts, ckpt>>
      /\ fbGated' \in BOOLEAN
  BY DEF Fails, Kept
<1>2. \/ results' = results
      \/ \E k \in {"FAILED", "GATED"} : results' = Append(results, <<idx, k>>)
  BY DEF Fails
<1>3. accepted \in {"none", "IN_PROGRESS"}
  BY DEF EngineInv, Resumed
<1>4. /\ results' \in Seq(LogEntry)' /\ LogMatchesSteps'
      /\ \A k \in 1..Len(results) : k \in 1..Len(results') /\ results'[k] = results[k]
  <2>1. CASE results' = results
    <3>1. LogEntry' = LogEntry /\ LogMatchesSteps
      BY <1>1 DEF LogEntry, EngineInv, LogTrue
    <3>2. LogMatchesSteps'
      BY <1>1, <2>1, <3>1 DEF LogMatchesSteps
    <3>3. QED
      BY <2>1, <3>1, <3>2 DEF EngineInv, EngineTypes, TypeOK
  <2>2. CASE \E k \in {"FAILED", "GATED"} : results' = Append(results, <<idx, k>>)
    BY <1>1, <2>2, Logged
  <2>3. QED
    BY <1>2, <2>1, <2>2
<1>5. /\ accepted' \in {"none", "CONSUMED", "FAILED"}
      /\ accepted' = "none" \/ accepted' = "FAILED" \/ fbGated'
  BY <1>3 DEF Fails
<1>6. EngineTypes'
  BY <1>1, <1>4, <1>5 DEF EngineInv, EngineTypes, TypeOK, Checkpoint, LogEntry
<1>7. Credit'
  <2>1. Pending \in {0, 1} /\ Pending' = 0
    BY <1>1 DEF Pending
  <2>2. gatedRuns \in Nat /\ resumes \in Nat
    BY EngineTyped DEF EngineInv
  <2>3. QED
    BY <1>1, <2>1, <2>2 DEF EngineInv, Credit
<1>8. SpentPlaced'
  BY <1>1, <1>4, SpentKept DEF EngineInv
<1>9. Resumed'
  BY <1>1, <1>5 DEF Resumed, StatusTruthful
<1>10. GateKnown' /\ RingTrue' /\ LoopTrapHolds'
  BY <1>1 DEF EngineInv, GateKnown, RingTrue, LoopTrapHolds, Gated, FallbackStep, Seen, SignatureOf
<1>11. FramesTrue' /\ LogTrue' /\ ApprovalPlaced'
  BY <1>1, <1>4 DEF FramesTrue, LogTrue, ApprovalPlaced
<1>12. QED
  BY <1>6, <1>7, <1>8, <1>9, <1>10, <1>11 DEF EngineInv

LEMMA SuspendsKeeps == ASSUME EngineInv, mode = "running", SuspendsAt PROVE EngineInv'
<1>1. /\ place = "authorize" /\ ~approved /\ mode' = "suspended"
      /\ UNCHANGED <<wf, approved, ring, resumes, gatedRuns, spent, executed, idx, frame, place,
                     why, facts>>
      /\ fbGated' \in BOOLEAN
  BY DEF SuspendsAt, Kept
<1>2. /\ results' = Append(results, <<idx, "GATED">>)
      /\ ckpt' = [idx |-> idx, ring |-> ring, facts |-> facts, results |-> results']
  BY DEF SuspendsAt
<1>3. accepted' \in {"none", "CONSUMED"}
  BY DEF SuspendsAt, EngineInv, Resumed
<1>4. /\ results' \in Seq(LogEntry)' /\ results' \in Seq(LogEntry) /\ LogMatchesSteps'
      /\ Len(results') = idx /\ results'[idx] = <<idx, "GATED">>
      /\ \A k \in 1..Len(results) : k \in 1..Len(results') /\ results'[k] = results[k]
  BY <1>1, <1>2, Logged
<1>5. /\ ckpt'.idx = idx /\ ckpt'.ring = ring /\ ckpt'.facts = facts /\ ckpt'.results = results'
  BY <1>2
<1>6. EngineTypes'
  <2>1. /\ EngineTypes /\ TypeOK
    BY DEF EngineInv, EngineTypes
  <2>2. LogEntry' = LogEntry /\ idx \in 0..Len(wf)
    BY <1>1, <2>1, EngineTyped DEF LogEntry
  <2>3. ckpt' \in Checkpoint'
    BY <1>1, <1>2, <1>4, <2>1, <2>2 DEF TypeOK, Checkpoint
  <2>4. TypeOK'
    BY <1>1, <1>3, <1>4, <1>5, <2>1, <2>2 DEF TypeOK
  <2>5. QED
    BY <1>1, <1>5, <2>1, <2>3, <2>4 DEF EngineTypes, TypeOK
<1>7. Credit'
  <2>1. Pending \in {0, 1} /\ Pending' = 0
    BY <1>1 DEF Pending
  <2>2. gatedRuns \in Nat /\ resumes \in Nat
    BY EngineTyped DEF EngineInv
  <2>3. QED
    BY <1>1, <2>1, <2>2 DEF EngineInv, Credit
<1>8. SpentPlaced'
  BY <1>1, <1>4, SpentKept DEF EngineInv
<1>9. Resumed'
  BY <1>1, <1>3 DEF Resumed, StatusTruthful
<1>10. GateKnown'
  <2>1. CASE frame = "primary"
    <3>1. Gated(wf[idx])
      BY <2>1 DEF SuspendsAt, Current
    <3>2. QED
      BY <1>1, <1>5, <3>1 DEF GateKnown, Gated
  <2>2. CASE frame = "fallback"
    <3>1. Gated(FallbackStep(wf[idx])) /\ Seen(ring, wf[idx])
      BY <1>1, <2>2 DEF SuspendsAt, Current, EngineInv, FramesTrue
    <3>2. QED
      BY <1>1, <1>5, <3>1 DEF GateKnown, Gated, FallbackStep, Seen, SignatureOf
  <2>3. QED
    BY <2>1, <2>2 DEF EngineInv, EngineTypes, TypeOK
<1>11. RingTrue' /\ LoopTrapHolds'
  BY <1>1 DEF EngineInv, RingTrue, LoopTrapHolds
<1>12. LogTrue'
  BY <1>1, <1>4, <1>5 DEF LogTrue
<1>13. FramesTrue' /\ ApprovalPlaced'
  BY <1>1 DEF FramesTrue, ApprovalPlaced
<1>14. QED
  BY <1>6, <1>7, <1>8, <1>9, <1>10, <1>11, <1>12, <1>13 DEF EngineInv

LEMMA AdvancesKeeps ==
  ASSUME EngineInv, mode = "running", NEW status \in {"SUCCESS", "SKIPPED"}, Advances(status)
  PROVE  EngineInv'
<1>1. /\ UNCHANGED <<wf, approved, ring, resumes, gatedRuns, spent, executed, ckpt, fbGated>>
      /\ facts' \subseteq Cond /\ mode' \in {"running", "completed"}
      /\ results' = Append(results, <<idx, status>>)
  BY DEF Advances, Kept
<1>2. /\ mode' = "completed" => idx = Len(wf) /\ idx' = idx /\ UNCHANGED <<frame, place, why>>
      /\ mode' = "running" =>
           /\ idx # Len(wf) /\ idx' = idx + 1 /\ accepted' = accepted
           /\ frame' = "primary" /\ place' = "authorize" /\ why' = "none"
  BY DEF Advances
<1>3. /\ accepted \in {"none", "IN_PROGRESS"} /\ accepted' \in {"none", "IN_PROGRESS", "CONSUMED"}
      /\ mode' = "completed" => accepted' \in {"none", "CONSUMED"}
  BY DEF Advances, EngineInv, Resumed
<1>4. /\ results' \in Seq(LogEntry)' /\ LogMatchesSteps'
      /\ Len(results') = idx /\ results'[idx] = <<idx, status>>
      /\ \A k \in 1..Len(results) : k \in 1..Len(results') /\ results'[k] = results[k]
  BY <1>1, <1>2, Logged
<1>5. /\ idx \in 1..Len(wf) /\ Len(wf) \in Nat /\ idx \in Nat /\ ckpt.idx \in Nat
      /\ Len(results) = idx - 1
  BY EngineTyped DEF EngineInv, LogTrue
<1>6. idx' \in 1..Len(wf) /\ idx' \in Nat
  BY <1>1, <1>2, <1>5
<1>7. EngineTypes'
  <2>1. EngineTypes /\ TypeOK
    BY DEF EngineInv, EngineTypes
  <2>2. /\ frame' \in {"primary", "fallback"} /\ place' \in {"authorize", "trap", "handle"}
        /\ why' \in {"none", "trapped", "returned", "threw"}
    BY <1>1, <1>2, <2>1 DEF TypeOK
  <2>3. TypeOK'
    BY <1>1, <1>3, <1>4, <1>6, <2>1, <2>2 DEF TypeOK, LogEntry
  <2>4. QED
    BY <1>1, <2>1, <2>3 DEF EngineTypes, Checkpoint, LogEntry
<1>8. Credit'
  <2>1. Pending \in {0, 1} /\ Pending' = 0
    BY <1>1, <1>2 DEF Pending
  <2>2. gatedRuns \in Nat /\ resumes \in Nat
    BY EngineTyped DEF EngineInv
  <2>3. QED
    BY <1>1, <2>1, <2>2 DEF EngineInv, Credit
<1>9. SpentPlaced'
  BY <1>1, <1>4, SpentKept DEF EngineInv
<1>10. Resumed'
  <2>1. ASSUME mode' = "running", accepted' = "IN_PROGRESS"
        PROVE  ckpt'.idx <= idx' /\ ckpt'.idx # idx'
    <3>1. ckpt.idx <= idx
      BY <1>2, <2>1 DEF EngineInv, Resumed
    <3>2. QED
      BY <1>1, <1>2, <1>5, <2>1, <3>1
  <2>2. QED
    BY <1>1, <1>2, <1>3, <2>1 DEF Resumed, StatusTruthful
<1>11. GateKnown' /\ RingTrue' /\ LoopTrapHolds'
  BY <1>1 DEF EngineInv, GateKnown, RingTrue, LoopTrapHolds, Gated, FallbackStep, Seen, SignatureOf
<1>12. LogTrue'
  <2>1. mode' = "running" => Len(results') = idx' - 1
    BY <1>2, <1>4, <1>5
  <2>2. QED
    BY <1>1, <1>4, <2>1 DEF LogTrue
<1>13. FramesTrue'
  BY <1>1, <1>2 DEF FramesTrue
<1>14. ApprovalPlaced'
  <2>1. SUFFICES ASSUME approved, mode' = "running" PROVE
          /\ ckpt.idx > 0 /\ ckpt.idx < idx' /\ results'[ckpt.idx][2] = "SKIPPED"
    <3>1. ASSUME ckpt.idx < idx' PROVE ckpt.idx <= idx' /\ ckpt.idx # idx'
      BY <1>5, <1>6, <3>1
    <3>2. ckpt' = ckpt /\ approved' = approved
      BY <1>1
    <3>3. QED
      BY <3>1, <3>2 DEF ApprovalPlaced
  <2>2. ckpt.idx > 0 /\ ckpt.idx <= idx /\ (ckpt.idx < idx => results[ckpt.idx][2] = "SKIPPED")
    BY <2>1 DEF EngineInv, ApprovalPlaced
  <2>3. CASE ckpt.idx = idx
    <3>1. status = "SKIPPED"
      BY <2>1, <2>3 DEF Advances
    <3>2. QED
      BY <1>2, <1>4, <1>5, <2>1, <2>2, <2>3, <3>1
  <2>4. CASE ckpt.idx # idx
    <3>1. ckpt.idx \in 1..Len(results) /\ ckpt.idx < idx
      BY <1>5, <2>2, <2>4
    <3>2. results'[ckpt.idx][2] = "SKIPPED"
      BY <1>4, <2>2, <3>1
    <3>3. QED
      BY <1>2, <1>5, <2>1, <2>2, <3>1, <3>2
  <2>5. QED
    BY <2>3, <2>4
<1>15. QED
  BY <1>7, <1>8, <1>9, <1>10, <1>11, <1>12, <1>13, <1>14 DEF EngineInv

LEMMA FallsBackKeeps == ASSUME EngineInv, mode = "running", FallsBack PROVE EngineInv'
<1>1. /\ UNCHANGED <<wf, approved, ring, resumes, gatedRuns, spent, executed, mode, idx, facts,
                     results, ckpt, accepted, fbGated>>
      /\ frame = "primary" /\ place # "authorize" /\ HasFallback(wf[idx]) /\ Seen(ring, wf[idx])
      /\ frame' = "fallback" /\ place' = "authorize" /\ why' \in {"trapped", "returned", "threw"}
  BY DEF FallsBack, Kept
<1>2. EngineTypes'
  BY <1>1 DEF EngineInv, EngineTypes, TypeOK, Checkpoint, LogEntry
<1>3. FramesTrue'
  BY <1>1 DEF EngineInv, FramesTrue, HasFallback, ConditionMet, Seen, SignatureOf
<1>4. Credit'
  <2>1. Pending \in {0, 1} /\ Pending' = 0
    BY <1>1 DEF Pending
  <2>2. gatedRuns \in Nat /\ resumes \in Nat
    BY EngineTyped DEF EngineInv
  <2>3. QED
    BY <1>1, <2>1, <2>2 DEF EngineInv, Credit
<1>5. SpentPlaced'
  BY <1>1 DEF EngineInv, SpentPlaced
<1>6. Resumed'
  BY <1>1 DEF EngineInv, Resumed, StatusTruthful
<1>7. GateKnown' /\ RingTrue' /\ LoopTrapHolds'
  BY <1>1 DEF EngineInv, GateKnown, RingTrue, LoopTrapHolds, Gated, FallbackStep, Seen, SignatureOf
<1>8. LogTrue'
  BY <1>1 DEF EngineInv, LogTrue, LogMatchesSteps
<1>9. ApprovalPlaced'
  BY <1>1 DEF EngineInv, ApprovalPlaced, Gated
<1>10. QED
  BY <1>2, <1>3, <1>4, <1>5, <1>6, <1>7, <1>8, <1>9 DEF EngineInv

LEMMA AuthorizeKeeps == ASSUME EngineInv, Authorize PROVE EngineInv'
<1>1. /\ mode = "running" /\ place = "authorize" /\ ConditionMet(Current) /\ place' = "trap"
      /\ UNCHANGED <<wf, mode, idx, frame, why, ring, facts, results, ckpt, accepted, resumes,
                     gatedRuns, executed, fbGated>>
  BY DEF Authorize, AtAuthorize
<1>2. /\ approved' = (approved /\ ~Gated(Current))
      /\ Gated(Current) => approved
      /\ spent' = IF Gated(Current) THEN spent \cup {<<ckpt.idx, idx>>} ELSE spent
  BY DEF Authorize
<1>3. EngineTypes /\ TypeOK /\ FramesTrue
  BY DEF EngineInv, EngineTypes
<1>4. /\ idx \in 1..Len(wf) /\ Len(wf) \in Nat /\ idx \in Nat /\ ckpt.idx \in 0..Len(wf)
      /\ ckpt.idx \in Nat /\ Len(results) = idx - 1 /\ gatedRuns \in Nat /\ resumes \in Nat
  BY <1>1, <1>3, EngineTyped DEF EngineInv, LogTrue
<1>5. Current' = Current /\ (Gated(Current)' <=> Gated(Current))
  BY <1>1 DEF Current, FallbackStep, Gated
<1>6. EngineTypes'
  <2>1. approved' \in BOOLEAN /\ spent' \subseteq (0..Len(wf)) \X (1..Len(wf))
    <3>1. approved' \in BOOLEAN
      BY <1>2
    <3>2. spent' \subseteq spent \cup {<<ckpt.idx, idx>>}
      BY <1>2
    <3>3. QED
      BY <1>3, <1>4, <3>1, <3>2 DEF TypeOK
  <2>2. QED
    BY <1>1, <1>3, <2>1 DEF EngineTypes, TypeOK, Checkpoint, LogEntry
<1>7. FramesTrue'
  <2>1. ConditionMet(wf[idx])
    BY <1>1, <1>3, StepTyped DEF ConditionMet
  <2>2. QED
    BY <1>1, <1>3, <2>1 DEF FramesTrue, HasFallback, ConditionMet
<1>8. Credit'
  <2>1. Pending = 0 /\ Pending' = IF Gated(Current) THEN 1 ELSE 0
    BY <1>1, <1>5 DEF Pending
  <2>2. CASE Gated(Current)
    <3>1. approved /\ ~approved'
      BY <1>2, <2>2
    <3>2. QED
      BY <1>1, <1>4, <2>1, <2>2, <3>1 DEF EngineInv, Credit
  <2>3. CASE ~Gated(Current)
    <3>1. approved' <=> approved
      BY <1>2, <2>3
    <3>2. QED
      BY <1>1, <1>4, <2>1, <2>3, <3>1 DEF EngineInv, Credit
  <2>4. QED
    BY <2>2, <2>3
<1>9. SpentPlaced'
  <2>1. SpentPlaced
    BY DEF EngineInv
  <2>2. CASE Gated(Current)
    <3>1. approved
      BY <1>2, <2>2
    <3>2. ckpt.idx > 0 /\ ckpt.idx <= idx /\ (ckpt.idx < idx => results[ckpt.idx][2] = "SKIPPED")
      BY <1>1, <3>1 DEF EngineInv, ApprovalPlaced
    <3>3. \/ idx = ckpt.idx
          \/ idx > ckpt.idx /\ ckpt.idx \in 1..Len(results) /\ results[ckpt.idx][2] = "SKIPPED"
      BY <1>4, <3>2
    <3>4. spent' = spent \cup {<<ckpt.idx, idx>>} /\ results' = results
      BY <1>1, <1>2, <2>2
    <3>5. QED
      BY <2>1, <3>3, <3>4 DEF SpentPlaced
  <2>3. CASE ~Gated(Current)
    BY <1>1, <1>2, <2>1, <2>3 DEF SpentPlaced
  <2>4. QED
    BY <2>2, <2>3
<1>10. Resumed'
  BY <1>1 DEF EngineInv, Resumed, StatusTruthful
<1>11. GateKnown' /\ RingTrue' /\ LoopTrapHolds'
  BY <1>1 DEF EngineInv, GateKnown, RingTrue, LoopTrapHolds, Gated, FallbackStep, Seen, SignatureOf
<1>12. LogTrue'
  BY <1>1 DEF EngineInv, LogTrue, LogMatchesSteps
<1>13. ApprovalPlaced'
  <2>1. SUFFICES ASSUME approved, ~Gated(Current) PROVE ApprovalPlaced'
    BY <1>2 DEF ApprovalPlaced
  <2>2. /\ ckpt.idx > 0 /\ ckpt.idx <= idx
        /\ ckpt.idx = idx =>
             ring = ckpt.ring /\ (frame = "fallback" => ~Gated(wf[idx]))
        /\ ckpt.idx < idx => results[ckpt.idx][2] = "SKIPPED"
    BY <1>1, <2>1 DEF EngineInv, ApprovalPlaced
  <2>3. frame = "primary" => ~Gated(wf[idx])
    BY <2>1 DEF Current
  <2>4. ckpt.idx = idx => frame # "fallback"
    <3>1. SUFFICES ASSUME ckpt.idx = idx, frame = "fallback" PROVE FALSE
      OBVIOUS
    <3>2. ~Gated(wf[idx]) /\ ~Gated(FallbackStep(wf[idx]))
      BY <2>1, <2>2, <3>1 DEF Current
    <3>3. QED
      BY <2>2, <3>1, <3>2 DEF EngineInv, GateKnown
  <2>5. Gated(wf[idx])' <=> Gated(wf[idx])
    BY <1>1 DEF Gated
  <2>6. QED
    BY <1>1, <2>2, <2>3, <2>4, <2>5 DEF ApprovalPlaced
<1>14. QED
  BY <1>6, <1>7, <1>8, <1>9, <1>10, <1>11, <1>12, <1>13 DEF EngineInv

LEMMA CallKeeps == ASSUME EngineInv, Call PROVE EngineInv'
<1>1. /\ mode = "running" /\ place = "trap" /\ ~Looped(Current) /\ place' = "handle"
      /\ ring' = PushToRing(Current) /\ executed' = Append(executed, SignatureOf(Current))
      /\ UNCHANGED <<wf, mode, idx, frame, why, approved, facts, results, ckpt, accepted, resumes,
                     spent, fbGated>>
  BY DEF Call
<1>2. gatedRuns' = IF Gated(Current) THEN gatedRuns + 1 ELSE gatedRuns
  BY DEF Call
<1>3. EngineTypes /\ TypeOK /\ FramesTrue /\ RingTrue
  BY DEF EngineInv, EngineTypes
<1>4. /\ gatedRuns \in Nat /\ resumes \in Nat /\ ckpt.idx \in Nat /\ idx \in Nat
      /\ executed \in Seq(Signature) /\ Len(executed) \in Nat /\ ring \in Seq(Signature)
      /\ SignatureOf(Current) \in Signature /\ Window \in Nat \ {0}
  BY <1>1, <1>3, EngineTyped, StepTyped, EngineAssumption
<1>5. ring' \in Seq(Signature) /\ Len(ring') <= Cap /\ Seen(ring', Current) /\ RingTrue'
  BY <1>1, <1>3, <1>4, Pushing
<1>6. /\ executed' \in Seq(Signature) /\ Len(executed') = Len(executed) + 1
      /\ \A i \in 1..Len(executed) : executed'[i] = executed[i]
      /\ executed'[Len(executed) + 1] = SignatureOf(Current)
  BY <1>1, <1>4, AppendProperties
<1>7. EngineTypes'
  BY <1>1, <1>2, <1>3, <1>4, <1>5, <1>6 DEF EngineTypes, TypeOK, Checkpoint, LogEntry
<1>8. FramesTrue'
  <2>1. frame = "primary" => Seen(ring', wf[idx])
    BY <1>5 DEF Current
  <2>2. QED
    BY <1>1, <1>3, <2>1 DEF FramesTrue, HasFallback, ConditionMet, Seen, SignatureOf
<1>9. Credit'
  <2>1. Pending = (IF Gated(Current) THEN 1 ELSE 0) /\ Pending' = 0
    BY <1>1 DEF Pending
  <2>2. gatedRuns' + Pending' = gatedRuns + Pending
    BY <1>2, <1>4, <2>1
  <2>3. QED
    BY <1>1, <2>2 DEF EngineInv, Credit
<1>10. SpentPlaced' /\ LogTrue' /\ GateKnown'
  <2>1. SpentPlaced' /\ GateKnown'
    BY <1>1 DEF EngineInv, SpentPlaced, GateKnown, Gated, FallbackStep, Seen, SignatureOf
  <2>2. LogTrue'
    BY <1>1 DEF EngineInv, LogTrue, LogMatchesSteps
  <2>3. QED
    BY <2>1, <2>2
<1>11. Resumed'
  BY <1>1 DEF EngineInv, Resumed, StatusTruthful
<1>12. LoopTrapHolds'
  <2>1. ASSUME NEW j \in 1..Len(executed'), NEW k \in 1..Len(executed'),
               j < k, executed'[j] = executed'[k]
        PROVE  k - j > Window
    <3>1. j \in 1..Len(executed)
      BY <1>4, <1>6, <2>1
    <3>2. CASE k = Len(executed) + 1
      <4>1. executed[j] = SignatureOf(Current)
        BY <1>6, <2>1, <3>1, <3>2
      <4>2. QED
        BY <1>1, <1>3, <3>1, <3>2, <4>1, LetThrough
    <3>3. CASE k # Len(executed) + 1
      <4>1. k \in 1..Len(executed)
        BY <1>4, <1>6, <3>3
      <4>2. QED
        BY <1>6, <2>1, <3>1, <4>1 DEF EngineInv, LoopTrapHolds
    <3>4. QED
      BY <3>2, <3>3
  <2>2. QED
    BY <2>1 DEF LoopTrapHolds
<1>13. ApprovalPlaced'
  <2>1. SUFFICES ASSUME approved PROVE ApprovalPlaced'
    BY <1>1 DEF ApprovalPlaced
  <2>2. /\ ckpt.idx > 0 /\ ckpt.idx <= idx
        /\ ckpt.idx < idx => results[ckpt.idx][2] = "SKIPPED"
    BY <1>1, <2>1 DEF EngineInv, ApprovalPlaced
  <2>3. ckpt.idx # idx
    <3>1. SUFFICES ASSUME ckpt.idx = idx PROVE FALSE
      OBVIOUS
    <3>2. ring = ckpt.ring /\ frame = "primary" /\ ~Gated(wf[idx])
      BY <1>1, <1>3, <2>1, <3>1 DEF EngineInv, ApprovalPlaced, TypeOK
    <3>3. Seen(ring, wf[idx])
      BY <2>2, <3>1, <3>2 DEF EngineInv, GateKnown
    <3>4. QED
      BY <1>1, <1>4, <3>2, <3>3, LoopedSeen DEF Current
  <2>4. QED
    BY <1>1, <2>2, <2>3 DEF ApprovalPlaced
<1>14. QED
  BY <1>5, <1>7, <1>8, <1>9, <1>10, <1>11, <1>12, <1>13 DEF EngineInv

LEMMA ResumeKeeps == ASSUME EngineInv, Resume PROVE EngineInv'
<1>1. /\ mode = "suspended" /\ resumes < MaxResumes /\ mode' = "running" /\ idx' = ckpt.idx
      /\ frame' = "primary" /\ place' = "authorize" /\ why' = "none" /\ ring' = ckpt.ring
      /\ facts' \subseteq Cond /\ results' = Front(ckpt.results)
      /\ accepted' = "IN_PROGRESS" /\ resumes' = resumes + 1
      /\ UNCHANGED <<wf, ckpt, gatedRuns, spent, executed>>
  BY DEF Resume, ResumeWith
<1>2. approved' = TRUE /\ fbGated' = FALSE
  BY DEF Resume, ResumeWith
<1>3. EngineTypes /\ TypeOK
  BY DEF EngineInv, EngineTypes
<1>4. /\ ckpt.idx = idx /\ ckpt.ring = ring /\ ckpt.results = results
      /\ Len(results) = idx /\ results[idx][2] = "GATED" /\ LogMatchesSteps
  BY <1>1 DEF EngineInv, LogTrue
<1>5. /\ idx \in 1..Len(wf) /\ idx \in Nat /\ results \in Seq(LogEntry)
      /\ gatedRuns \in Nat /\ resumes \in Nat /\ MaxResumes \in Nat
  BY <1>3, EngineTyped, EngineAssumption
<1>6. /\ results' \in Seq(LogEntry) /\ Len(results') = idx - 1
      /\ \A k \in 1..(idx - 1) : results'[k] = results[k]
  <2>1. \A k \in 1..(idx - 1) : results[k] \in LogEntry
    BY <1>4, <1>5, ElementOfSeq
  <2>2. results' = SubSeq(results, 1, idx - 1)
    BY <1>1, <1>4 DEF Front
  <2>3. QED
    BY <1>5, <2>1, <2>2, SubSeqProperties
<1>7. EngineTypes'
  <2>1. approved' \in BOOLEAN /\ fbGated' \in BOOLEAN
    BY <1>2
  <2>2. resumes' \in 0..MaxResumes
    BY <1>1, <1>5
  <2>3. QED
    BY <1>1, <1>3, <1>4, <1>5, <1>6, <2>1, <2>2 DEF EngineTypes, TypeOK, Checkpoint, LogEntry
<1>8. FramesTrue'
  BY <1>1 DEF FramesTrue
<1>9. Credit'
  <2>1. Pending = 0 /\ Pending' = 0
    BY <1>1 DEF Pending
  <2>2. gatedRuns + 1 <= resumes + 1
    <3>1. gatedRuns <= resumes
      BY <1>5, <2>1 DEF EngineInv, Credit
    <3>2. QED
      BY <1>5, <3>1
  <2>3. gatedRuns' + Pending' + (IF approved' THEN 1 ELSE 0) = gatedRuns + 1
    BY <1>1, <1>2, <1>5, <2>1
  <2>4. QED
    BY <1>1, <2>2, <2>3 DEF Credit
<1>10. RingTrue' /\ GateKnown' /\ LoopTrapHolds'
  <2>1. ring' = ring
    BY <1>1, <1>4
  <2>2. QED
    BY <1>1, <2>1 DEF EngineInv, GateKnown, RingTrue, LoopTrapHolds, Gated, FallbackStep, Seen, SignatureOf
<1>11. LogTrue'
  <2>1. ASSUME NEW k \in 1..Len(results')
        PROVE  results'[k][1] = k /\ results'[k][2] \notin {"GATED", "FAILED"}
    <3>1. k \in 1..(idx - 1) /\ k \in 1..Len(results) /\ k # Len(results)
      BY <1>4, <1>5, <1>6
    <3>2. results[k][1] = k /\ results[k][2] \notin {"GATED", "FAILED"}
      BY <1>4, <3>1 DEF LogMatchesSteps
    <3>3. QED
      BY <1>6, <3>1, <3>2
  <2>2. LogMatchesSteps'
    BY <1>1, <2>1 DEF LogMatchesSteps
  <2>3. QED
    BY <1>1, <1>4, <1>6, <2>2 DEF LogTrue
<1>12. SpentPlaced'
  <2>1. ASSUME NEW use \in spent, use[2] # use[1]
        PROVE  use[2] > use[1] /\ use[1] \in 1..Len(results') /\ results'[use[1]][2] = "SKIPPED"
    <3>1. use[2] > use[1] /\ use[1] \in 1..Len(results) /\ results[use[1]][2] = "SKIPPED"
      BY <2>1 DEF EngineInv, SpentPlaced
    <3>2. use[1] # idx
      BY <1>4, <3>1
    <3>3. use[1] \in 1..(idx - 1)
      BY <1>4, <1>5, <3>1, <3>2
    <3>4. QED
      BY <1>6, <3>1, <3>3
  <2>2. QED
    BY <1>1, <2>1 DEF SpentPlaced
<1>13. ApprovalPlaced' /\ Resumed'
  <2>1. ckpt'.idx = idx' /\ ckpt'.idx > 0 /\ ckpt'.idx <= idx' /\ ~(ckpt'.idx < idx')
    BY <1>1, <1>4, <1>5
  <2>2. ApprovalPlaced'
    BY <1>1, <2>1 DEF ApprovalPlaced
  <2>3. Resumed'
    BY <1>1, <1>2, <2>1 DEF Resumed, StatusTruthful
  <2>4. QED
    BY <2>2, <2>3
<1>14. QED
  BY <1>7, <1>8, <1>9, <1>10, <1>11, <1>12, <1>13 DEF EngineInv

-----------------------------------------------------------------------------
(* The actions                                                             *)

LEMMA ThrowFails ==
  ASSUME EngineInv, NEW message \in {"message", "empty"}, Throw(message),
         UNCHANGED <<approved, ring, facts, resumes, gatedRuns, spent, executed>>,
         fbGated' \in BOOLEAN, message = "empty" => fbGated'
  PROVE  Fails
<1>1. mode' = "failed" /\ UNCHANGED <<wf, idx, frame, place, why, results, ckpt>>
  BY DEF Throw, Stop
<1>2. IF accepted = "IN_PROGRESS" THEN accepted' = "FAILED" \/ (accepted' = "CONSUMED" /\ fbGated')
                                  ELSE accepted' = accepted
  BY DEF Throw, Settle
<1>3. QED
  BY <1>1, <1>2 DEF Fails, Kept

LEMMA FailStepFails ==
  ASSUME EngineInv, FailStep,
         UNCHANGED <<approved, ring, facts, resumes, gatedRuns, spent, executed>>,
         fbGated' \in BOOLEAN
  PROVE  Fails
<1>1. /\ mode' = "failed" /\ UNCHANGED <<wf, idx, frame, place, why, ckpt>>
      /\ results' = Append(results, <<idx, "FAILED">>)
  BY DEF FailStep, Stop
<1>2. accepted' = IF accepted = "IN_PROGRESS" THEN "FAILED" ELSE accepted
  BY DEF FailStep, Settle
<1>3. QED
  BY <1>1, <1>2 DEF Fails, Kept

LEMMA StepFails ==
  ASSUME EngineInv, mode = "running", place # "authorize",
         NEW reason \in {"trapped", "returned", "threw"}, StepFailed(reason),
         frame = "primary" => Seen(ring, wf[idx]),
         UNCHANGED <<context, history>>
  PROVE  Fails \/ FallsBack
<1>1. UNCHANGED <<approved, ring, facts, resumes, gatedRuns, spent, executed, fbGated>>
  BY DEF context, history
<1>2. fbGated' \in BOOLEAN
  BY <1>1, EngineTyped DEF EngineInv
<1>3. CASE FailStep
  BY <1>1, <1>2, <1>3, FailStepFails
<1>4. CASE Throw("message")
  BY <1>1, <1>2, <1>4, ThrowFails
<1>5. CASE /\ frame # "fallback" /\ HasFallback(Current) /\ EntersFallback(reason)
           /\ UNCHANGED <<results, ckpt, accepted>>
  <2>1. frame = "primary"
    BY <1>5 DEF EngineInv, EngineTypes, TypeOK
  <2>2. HasFallback(wf[idx])
    BY <1>5, <2>1 DEF Current
  <2>3. QED
    BY <1>1, <1>5, <2>1, <2>2 DEF FallsBack, EntersFallback, Kept
<1>6. QED
  BY <1>3, <1>4, <1>5 DEF StepFailed, FallbackFailed

LEMMA EngineStep == ASSUME EngineInv, [Next]_vars PROVE EngineInv'
<1>1. CASE UNCHANGED vars
  <2>1. UNCHANGED <<wf, mode, idx, frame, place, why, approved, ring, facts, results, ckpt, accepted,
                    resumes, gatedRuns, spent, executed, fbGated>>
    BY <1>1 DEF vars
  <2>2. EngineTypes' /\ FramesTrue'
    <3>1. EngineTypes'
      BY <2>1 DEF EngineInv, EngineTypes, TypeOK, Checkpoint, LogEntry
    <3>2. FramesTrue'
      BY <2>1 DEF EngineInv, FramesTrue, Seen, SignatureOf, HasFallback, ConditionMet
    <3>3. QED
      BY <3>1, <3>2
  <2>3. Credit'
    BY <2>1 DEF EngineInv, Credit, Pending, Current, FallbackStep, Gated
  <2>4. RingTrue' /\ LoopTrapHolds' /\ LogTrue'
    BY <2>1 DEF EngineInv, RingTrue, LoopTrapHolds, LogTrue, LogMatchesSteps
  <2>5. GateKnown' /\ SpentPlaced'
    BY <2>1 DEF EngineInv, GateKnown, SpentPlaced, Gated, FallbackStep, Seen, SignatureOf
  <2>6. ApprovalPlaced' /\ Resumed'
    BY <2>1 DEF EngineInv, ApprovalPlaced, Resumed, StatusTruthful, Gated
  <2>7. QED
    BY <2>2, <2>3, <2>4, <2>5, <2>6 DEF EngineInv
<1>2. CASE Deny
  <2>1. /\ mode = "running"
        /\ FailStep \/ Throw("message")
        /\ UNCHANGED <<approved, ring, facts, resumes, gatedRuns, spent, executed, fbGated>>
    BY <1>2 DEF Deny, AtAuthorize, FallbackFailed, context, history
  <2>2. fbGated' \in BOOLEAN
    BY <2>1, EngineTyped DEF EngineInv
  <2>3. Fails
    BY <2>1, <2>2, FailStepFails, ThrowFails
  <2>4. QED
    BY <2>1, <2>3, FailsKeeps
<1>3. CASE Skip
  <2>1. /\ mode = "running" /\ place = "authorize" /\ ~ConditionMet(Current)
        /\ StepDone(IF frame = "primary" THEN "SKIPPED" ELSE "SUCCESS")
        /\ UNCHANGED <<approved, ring, facts, resumes, gatedRuns, spent, executed, fbGated>>
    BY <1>3 DEF Skip, AtAuthorize, context, history
  <2>2. EngineTypes /\ FramesTrue /\ TypeOK
    BY DEF EngineInv, EngineTypes
  <2>3. frame = "primary"
    <3>1. ~ConditionMet(wf[idx])
      BY <2>1, <2>2, StepTyped DEF ConditionMet
    <3>2. QED
      BY <2>1, <2>2, <3>1 DEF FramesTrue, TypeOK
  <2>4. Advances("SKIPPED")
    BY <2>1, <2>2, <2>3 DEF StepDone, Stop, Settle, Advances, Kept, TypeOK
  <2>5. QED
    BY <2>1, <2>4, AdvancesKeeps
<1>4. CASE Gate
  <2>1. /\ mode = "running" /\ place = "authorize" /\ Gated(Current) /\ ~approved
        /\ fbGated' = (frame = "fallback")
        /\ UNCHANGED <<approved, ring, facts, resumes, gatedRuns, spent, executed>>
    BY <1>4 DEF Gate, AtAuthorize, context
  <2>2. fbGated' \in BOOLEAN /\ (frame = "fallback" => fbGated')
    BY <2>1
  <2>3. CASE frame = "fallback" /\ Throw("empty")
    <3>1. Fails
      BY <2>1, <2>2, <2>3, ThrowFails
    <3>2. QED
      BY <2>1, <3>1, FailsKeeps
  <2>4. CASE Suspend
    <3>1. CASE Stop("suspended") /\ Settle("none")
               /\ results' = Append(results, <<idx, "GATED">>)
               /\ ckpt' = [idx |-> idx, ring |-> ring, facts |-> facts, results |-> results']
      <4>1. SuspendsAt
        BY <2>1, <2>2, <3>1 DEF SuspendsAt, Stop, Settle, Kept
      <4>2. QED
        BY <2>1, <4>1, SuspendsKeeps
    <3>2. CASE Stop("failed") /\ Settle("message") /\ UNCHANGED ckpt
               /\ results' = Append(results, <<idx, "GATED">>)
      <4>1. Fails
        BY <2>1, <2>2, <3>2 DEF Fails, Stop, Settle, Kept
      <4>2. QED
        BY <2>1, <4>1, FailsKeeps
    <3>3. QED
      BY <2>4, <3>1, <3>2 DEF Suspend
  <2>5. QED
    BY <1>4, <2>3, <2>4 DEF Gate
<1>5. CASE Authorize
  BY <1>5, AuthorizeKeeps
<1>6. CASE Trap
  <2>1. mode = "running" /\ place = "trap" /\ Looped(Current) /\ StepFailed("trapped")
        /\ UNCHANGED <<context, history>>
    BY <1>6 DEF Trap
  <2>2. Seen(ring, Current)
    BY <2>1, LoopedSeen, EngineTyped DEF EngineInv
  <2>3. Fails \/ FallsBack
    BY <2>1, <2>2, StepFails DEF Current
  <2>4. QED
    BY <2>1, <2>3, FailsKeeps, FallsBackKeeps
<1>7. CASE Call
  BY <1>7, CallKeeps
<1>8. CASE Succeed
  <2>1. /\ mode = "running" /\ place = "handle" /\ StepDone("SUCCESS") /\ facts' \subseteq Cond
        /\ UNCHANGED <<approved, ring, resumes, gatedRuns, spent, executed, fbGated>>
    BY <1>8 DEF Succeed, history
  <2>2. ~(approved /\ ckpt.idx = idx)
    BY <2>1 DEF EngineInv, ApprovalPlaced, EngineTypes, TypeOK
  <2>3. Advances("SUCCESS")
    BY <2>1, <2>2 DEF StepDone, Stop, Settle, Advances, Kept
  <2>4. QED
    BY <2>1, <2>3, AdvancesKeeps
<1>9. CASE Fail
  <2>1. mode = "running" /\ place = "handle" /\ UNCHANGED <<context, history>>
    BY <1>9 DEF Fail
  <2>2. PICK reason \in {"returned", "threw"} : StepFailed(reason)
    BY <1>9 DEF Fail
  <2>3. frame = "primary" => Seen(ring, wf[idx])
    BY <2>1 DEF EngineInv, FramesTrue
  <2>4. Fails \/ FallsBack
    BY <2>1, <2>2, <2>3, StepFails
  <2>5. QED
    BY <2>1, <2>4, FailsKeeps, FallsBackKeeps
<1>10. CASE Resume
  BY <1>10, ResumeKeeps
<1>11. QED
  BY <1>1, <1>2, <1>3, <1>4, <1>5, <1>6, <1>7, <1>8, <1>9, <1>10 DEF Next

LEMMA EngineStart == Init => EngineInv
<1> SUFFICES ASSUME Init PROVE EngineInv
  OBVIOUS
<1>1. /\ wf \in Workflows /\ mode = "running" /\ idx = 1 /\ frame = "primary"
      /\ place = "authorize" /\ why = "none" /\ ring = <<>> /\ facts \subseteq Cond
      /\ results = <<>> /\ ckpt = NoCheckpoint /\ accepted = "none" /\ resumes = 0
      /\ gatedRuns = 0 /\ spent = {} /\ executed = <<>>
  BY DEF Init
<1>2. approved = FALSE /\ fbGated = FALSE
  BY DEF Init
<1>3. wf \in Seq(Step) /\ wf # <<>> /\ Len(wf) \in Nat /\ 1 \in 1..Len(wf)
  BY <1>1, EngineAssumption, LenProperties
<1>4. /\ ckpt.idx = 0 /\ ckpt.ring = <<>> /\ ckpt.facts = {} /\ ckpt.results = <<>>
      /\ ckpt \in Checkpoint
  BY <1>1, <1>3 DEF NoCheckpoint, Checkpoint
<1>5. TypeOK
  <2>1. approved \in BOOLEAN /\ fbGated \in BOOLEAN
    BY <1>2
  <2>2. QED
    BY <1>1, <1>3, <1>4, <2>1, EngineAssumption DEF TypeOK
<1>6. EngineTypes
  BY <1>1, <1>4, <1>5, EngineAssumption DEF EngineTypes
<1>7. FramesTrue /\ GateKnown /\ SpentPlaced
  BY <1>1, <1>4 DEF FramesTrue, GateKnown, SpentPlaced
<1>8. Credit
  <2>1. Pending = 0
    BY <1>1 DEF Pending
  <2>2. QED
    BY <1>1, <1>2, <2>1 DEF Credit
<1>9. RingTrue /\ LoopTrapHolds
  BY <1>1 DEF RingTrue, LoopTrapHolds
<1>10. LogTrue
  BY <1>1 DEF LogTrue, LogMatchesSteps
<1>11. ApprovalPlaced /\ Resumed
  BY <1>1, <1>2 DEF ApprovalPlaced, Resumed, StatusTruthful
<1>12. QED
  BY <1>6, <1>7, <1>8, <1>9, <1>10, <1>11 DEF EngineInv

LEMMA EngineSafe == EngineInv => ApprovalSpentOnce
<1> SUFFICES ASSUME EngineInv PROVE ApprovalSpentOnce
  OBVIOUS
<1>1. OneApprovalPerGate
  <2>1. gatedRuns \in Nat /\ resumes \in Nat /\ Pending \in {0, 1}
    BY EngineTyped DEF EngineInv, Pending
  <2>2. QED
    BY <2>1 DEF EngineInv, Credit, OneApprovalPerGate
<1>2. ApprovalSpentOnItsStep
  <2>1. ASSUME NEW use \in spent, use[2] # use[1]
        PROVE  use[2] > use[1] /\ use[1] > 0 /\ results[use[1]][2] = "SKIPPED"
    BY <2>1 DEF EngineInv, SpentPlaced
  <2>2. QED
    BY <2>1 DEF ApprovalSpentOnItsStep
<1>3. QED
  BY <1>1, <1>2 DEF ApprovalSpentOnce

\* What suspends is a gate, and nothing else.
LEMMA OnlyGatesSuspend ==
  ASSUME EngineInv, mode = "running", mode' = "suspended", [Next]_vars PROVE SuspendsAt
<1>1. CASE UNCHANGED vars
  BY <1>1 DEF vars
<1>2. CASE Deny
  BY <1>2 DEF Deny, FallbackFailed, FailStep, Throw, Stop
<1>3. CASE Skip \/ Succeed
  BY <1>3 DEF Skip, Succeed, StepDone, Stop
<1>4. CASE Gate
  <2>1. /\ place = "authorize" /\ Gated(Current) /\ ~approved /\ fbGated' = (frame = "fallback")
        /\ UNCHANGED <<approved, ring, facts, resumes, gatedRuns, spent, executed>>
    BY <1>4 DEF Gate, AtAuthorize, context
  <2>2. fbGated' \in BOOLEAN /\ (frame = "fallback" => fbGated')
    BY <2>1
  <2>3. /\ Stop("suspended") /\ Settle("none") /\ results' = Append(results, <<idx, "GATED">>)
        /\ ckpt' = [idx |-> idx, ring |-> ring, facts |-> facts, results |-> results']
    BY <1>4 DEF Gate, Suspend, Throw, Stop
  <2>4. QED
    BY <2>1, <2>2, <2>3 DEF SuspendsAt, Stop, Settle, Kept
<1>5. CASE Authorize \/ Call
  BY <1>5 DEF Authorize, Call
<1>6. CASE Trap \/ Fail
  BY <1>6 DEF Trap, Fail, StepFailed, FallbackFailed, FailStep, Throw, Stop, EntersFallback
<1>7. CASE Resume
  BY <1>7 DEF Resume, ResumeWith
<1>8. QED
  BY <1>1, <1>2, <1>3, <1>4, <1>5, <1>6, <1>7 DEF Next

LEMMA GateAdvances ==
  ASSUME EngineInv, [Next]_vars, mode' = "suspended", accepted = "IN_PROGRESS"
  PROVE  ckpt'.idx > ckpt.idx \/ fbGated'
<1>1. mode = "running"
  BY DEF EngineInv, Resumed, StatusTruthful
<1>2. SuspendsAt
  BY <1>1, OnlyGatesSuspend
<1>3. ckpt'.idx = idx /\ ~approved /\ place = "authorize" /\ (frame = "fallback" => fbGated')
  BY <1>2 DEF SuspendsAt
<1>4. ckpt.idx \in Nat /\ idx \in Nat /\ ckpt.idx <= idx
  BY <1>1, EngineTyped DEF EngineInv, Resumed
<1>5. CASE frame = "primary"
  <2>1. ckpt.idx # idx
    BY <1>1, <1>3, <1>5 DEF EngineInv, Resumed
  <2>2. QED
    BY <1>3, <1>4, <2>1
<1>6. QED
  BY <1>3, <1>5 DEF EngineInv, EngineTypes, TypeOK

LEMMA EngineAlways == Spec => []EngineInv
<1>1. EngineInv /\ [Next]_vars => EngineInv'
  BY EngineStep
<1>2. QED
  BY <1>1, EngineStart, PTL DEF Spec

\* One approval opens one gate, and that is its own unless the approved step is skipped
\* (authorizeStep), for any manifest, any ring and any number of resumes.
THEOREM GatesKept == Spec => []ApprovalSpentOnce
BY EngineAlways, EngineSafe, PTL

\* No call is repeated within the trap's window, also not when a suspension and a resume lie
\* between the two (executeStep).
THEOREM LoopsTrapped == Spec => []LoopTrapHolds
<1>1. EngineInv => LoopTrapHolds
  BY DEF EngineInv
<1>2. QED
  BY <1>1, EngineAlways, PTL

\* The log has one entry per step, in order, over suspensions, resumes and fallbacks
\* (executeWorkflow, resumeWorkflow).
THEOREM LogKept == Spec => []LogMatchesSteps
<1>1. EngineInv => LogMatchesSteps
  BY DEF EngineInv, LogTrue
<1>2. QED
  BY <1>1, EngineAlways, PTL

\* The status a resume leaves in its checkpoint says whether it failed (resumeWorkflow).
THEOREM StatusKept == Spec => []StatusTruthful
<1>1. EngineInv => StatusTruthful
  BY DEF EngineInv, Resumed
<1>2. QED
  BY <1>1, EngineAlways, PTL

\* A resumed workflow suspends again only further on, or at the gate of a fallback.
THEOREM ResumesAdvance == Spec => ApprovalAdvances
<1>1. EngineInv /\ [Next]_vars => EngineInv'
  BY EngineStep
<1>2. EngineInv /\ [Next]_vars =>
        [mode' = "suspended" /\ accepted = "IN_PROGRESS" => ckpt'.idx > ckpt.idx \/ fbGated']_vars
  BY GateAdvances
<1>3. QED
  BY <1>1, <1>2, EngineStart, PTL DEF Spec, ApprovalAdvances

-----------------------------------------------------------------------------
(* The decision. Paths: a prefix agrees with the path as far as it goes.   *)

LEMMA CutPath ==
  ASSUME NEW S, NEW p \in Seq(S), NEW i \in 0..Len(p)
  PROVE  /\ SubSeq(p, 1, i) \in Seq(S) /\ Len(SubSeq(p, 1, i)) = i
         /\ \A j \in 1..i : SubSeq(p, 1, i)[j] = p[j]
<1>1. Len(p) \in Nat /\ i \in Nat /\ i <= Len(p)
  BY LenProperties
<1>2. \A j \in 1..i : p[j] \in S
  BY <1>1, ElementOfSeq
<1>3. /\ SubSeq(p, 1, i) \in Seq(S) /\ Len(SubSeq(p, 1, i)) = IF 1 <= i THEN i - 1 + 1 ELSE 0
      /\ \A j \in 1..(i - 1 + 1) : SubSeq(p, 1, i)[j] = p[1 + j - 1]
  BY <1>1, <1>2, SubSeqProperties
<1>4. Len(SubSeq(p, 1, i)) = i
  BY <1>1, <1>3
<1>5. ASSUME NEW j \in 1..i PROVE SubSeq(p, 1, i)[j] = p[j]
  <2>1. j \in 1..(i - 1 + 1) /\ 1 + j - 1 = j
    BY <1>1
  <2>2. QED
    BY <1>3, <2>1
<1>6. QED
  BY <1>3, <1>4, <1>5

LEMMA RestPath ==
  ASSUME NEW S, NEW p \in Seq(S), NEW i \in 0..Len(p)
  PROVE  /\ SubSeq(p, i + 1, Len(p)) \in Seq(S) /\ Len(SubSeq(p, i + 1, Len(p))) = Len(p) - i
         /\ \A j \in 1..(Len(p) - i) : SubSeq(p, i + 1, Len(p))[j] = p[i + j]
<1>1. Len(p) \in Nat /\ i \in Nat /\ i <= Len(p)
  BY LenProperties
<1>2. ASSUME NEW j \in (i + 1)..Len(p) PROVE p[j] \in S
  <2>1. j \in 1..Len(p)
    BY <1>1
  <2>2. QED
    BY <2>1, ElementOfSeq
<1>3. /\ SubSeq(p, i + 1, Len(p)) \in Seq(S)
      /\ Len(SubSeq(p, i + 1, Len(p))) = IF i + 1 <= Len(p) THEN Len(p) - (i + 1) + 1 ELSE 0
      /\ \A j \in 1..(Len(p) - (i + 1) + 1) : SubSeq(p, i + 1, Len(p))[j] = p[(i + 1) + j - 1]
  BY <1>1, <1>2, SubSeqProperties
<1>4. Len(SubSeq(p, i + 1, Len(p))) = Len(p) - i
  BY <1>1, <1>3
<1>5. ASSUME NEW j \in 1..(Len(p) - i) PROVE SubSeq(p, i + 1, Len(p))[j] = p[i + j]
  <2>1. j \in 1..(Len(p) - (i + 1) + 1) /\ (i + 1) + j - 1 = i + j
    BY <1>1
  <2>2. QED
    BY <1>3, <2>1
<1>6. QED
  BY <1>3, <1>4, <1>5

LEMMA JoinAssociative == \A a, e, f \in Seq(Names) : (a \o e) \o f = a \o (e \o f)
BY ConcatAssociative

LEMMA JoinCancels == \A a, e, f \in Seq(Names) : a \o e = a \o f => e = f
<1>1. \A S : \A a, e, f \in Seq(S) : a \o e = a \o f => e = f
  BY ConcatSimplifications, Zenon
<1>2. QED
  BY <1>1

\* IsPrefix, name by name.
LEMMA PrefixByName ==
  ASSUME NEW S, NEW a \in Seq(S), NEW p \in Seq(S)
  PROVE  IsPrefix(a, p) <=> Len(a) <= Len(p) /\ \A j \in 1..Len(a) : a[j] = p[j]
<1>1. Len(a) \in Nat /\ Len(p) \in Nat /\ SubSeq(a, 1, Len(a)) = a
  BY LenProperties, SubSeqFull
<1>2. CASE ~(Len(a) <= Len(p))
  BY <1>2 DEF IsPrefix
<1>3. CASE Len(a) <= Len(p)
  <2>1. Len(a) \in 0..Len(p)
    BY <1>1, <1>3
  <2>2. /\ SubSeq(p, 1, Len(a)) \in Seq(S) /\ Len(SubSeq(p, 1, Len(a))) = Len(a)
        /\ \A j \in 1..Len(a) : SubSeq(p, 1, Len(a))[j] = p[j]
    BY <2>1, CutPath
  <2>3. a = SubSeq(p, 1, Len(a)) <=> \A j \in 1..Len(a) : a[j] = p[j]
    <3>1. ASSUME \A j \in 1..Len(a) : a[j] = p[j] PROVE a = SubSeq(p, 1, Len(a))
      BY <2>2, <3>1, SeqEqual
    <3>2. ASSUME a = SubSeq(p, 1, Len(a)) PROVE \A j \in 1..Len(a) : a[j] = p[j]
      BY <2>2, <3>2
    <3>3. QED
      BY <3>1, <3>2
  <2>4. QED
    BY <1>1, <1>3, <2>3 DEF IsPrefix
<1>4. QED
  BY <1>2, <1>3

LEMMA PrefixesAre ==
  ASSUME NEW S, NEW p \in Seq(S)
  PROVE  \A a : a \in Prefixes(p) <=> a \in Seq(S) /\ IsPrefix(a, p)
<1>1. Len(p) \in Nat
  BY LenProperties
<1>2. ASSUME NEW a \in Prefixes(p) PROVE a \in Seq(S) /\ IsPrefix(a, p)
  <2>1. PICK i \in 0..Len(p) : a = SubSeq(p, 1, i)
    BY <1>2 DEF Prefixes
  <2>2. a \in Seq(S) /\ Len(a) = i /\ \A j \in 1..i : a[j] = p[j]
    BY <2>1, CutPath
  <2>3. Len(a) <= Len(p)
    BY <1>1, <2>1, <2>2
  <2>4. QED
    BY <2>2, <2>3, PrefixByName
<1>3. ASSUME NEW a \in Seq(S), IsPrefix(a, p) PROVE a \in Prefixes(p)
  <2>1. Len(a) \in Nat /\ Len(a) <= Len(p) /\ a = SubSeq(p, 1, Len(a))
    BY <1>3, LenProperties, SubSeqFull DEF IsPrefix
  <2>2. Len(a) \in 0..Len(p)
    BY <1>1, <2>1
  <2>3. QED
    BY <2>1, <2>2 DEF Prefixes
<1>4. QED
  BY <1>2, <1>3

LEMMA PrefixSplits ==
  ASSUME NEW S, NEW p \in Seq(S), NEW a \in Seq(S), IsPrefix(a, p)
  PROVE  /\ SubSeq(p, Len(a) + 1, Len(p)) \in Seq(S)
         /\ Len(SubSeq(p, Len(a) + 1, Len(p))) = Len(p) - Len(a)
         /\ p = a \o SubSeq(p, Len(a) + 1, Len(p))
<1>1. Len(a) \in Nat /\ Len(p) \in Nat /\ Len(a) <= Len(p) /\ \A j \in 1..Len(a) : a[j] = p[j]
  BY LenProperties, PrefixByName
<1>2. Len(a) \in 0..Len(p)
  BY <1>1
<1> DEFINE b == SubSeq(p, Len(a) + 1, Len(p))
<1>3. b \in Seq(S) /\ Len(b) = Len(p) - Len(a) /\ \A j \in 1..(Len(p) - Len(a)) : b[j] = p[Len(a) + j]
  BY <1>2, RestPath
<1> HIDE DEF b
<1>4. a \o b \in Seq(S) /\ Len(a \o b) = Len(a) + Len(b)
      /\ \A j \in 1..(Len(a) + Len(b)) : (a \o b)[j] = IF j <= Len(a) THEN a[j] ELSE b[j - Len(a)]
  BY <1>3, ConcatProperties
<1>5. Len(a \o b) = Len(p)
  BY <1>1, <1>3, <1>4
<1>6. ASSUME NEW j \in 1..Len(p) PROVE p[j] = (a \o b)[j]
  <2>1. j \in Nat /\ j \in 1..(Len(a) + Len(b))
    BY <1>1, <1>3
  <2>2. CASE j <= Len(a)
    BY <1>1, <1>4, <2>1, <2>2
  <2>3. CASE ~(j <= Len(a))
    <3>1. j - Len(a) \in 1..(Len(p) - Len(a)) /\ Len(a) + (j - Len(a)) = j
      BY <1>1, <2>1, <2>3
    <3>2. b[j - Len(a)] = p[j]
      BY <1>3, <3>1
    <3>3. QED
      BY <1>4, <2>1, <2>3, <3>2
  <2>4. QED
    BY <2>2, <2>3
<1>7. p = a \o b
  BY <1>4, <1>5, <1>6, SeqEqual
<1>8. QED
  BY <1>3, <1>7 DEF b

LEMMA PrefixOfJoin ==
  ASSUME NEW S, NEW a \in Seq(S), NEW b \in Seq(S)
  PROVE  IsPrefix(a, a \o b)
<1>1. Len(a) \in Nat /\ Len(b) \in Nat
  BY LenProperties
<1>2. a \o b \in Seq(S) /\ Len(a \o b) = Len(a) + Len(b)
      /\ \A j \in 1..(Len(a) + Len(b)) : (a \o b)[j] = IF j <= Len(a) THEN a[j] ELSE b[j - Len(a)]
  BY ConcatProperties
<1>3. ASSUME NEW j \in 1..Len(a) PROVE a[j] = (a \o b)[j]
  <2>1. j \in 1..(Len(a) + Len(b)) /\ j <= Len(a)
    BY <1>1
  <2>2. QED
    BY <1>2, <2>1
<1>4. Len(a) <= Len(a \o b)
  BY <1>1, <1>2
<1>5. QED
  BY <1>2, <1>3, <1>4, PrefixByName

LEMMA PrefixTransitive ==
  ASSUME NEW S, NEW a \in Seq(S), NEW b \in Seq(S), NEW p \in Seq(S),
         IsPrefix(a, b), IsPrefix(b, p)
  PROVE  IsPrefix(a, p)
<1>1. Len(a) \in Nat /\ Len(b) \in Nat /\ Len(p) \in Nat
  BY LenProperties
<1>2. Len(a) <= Len(b) /\ Len(b) <= Len(p)
      /\ (\A j \in 1..Len(a) : a[j] = b[j]) /\ (\A j \in 1..Len(b) : b[j] = p[j])
  BY PrefixByName
<1>3. Len(a) <= Len(p) /\ \A j \in 1..Len(a) : a[j] = p[j]
  BY <1>1, <1>2
<1>4. QED
  BY <1>3, PrefixByName

\* Of two prefixes of one path the shorter is a prefix of the longer.
LEMMA PrefixesNest ==
  ASSUME NEW S, NEW a \in Seq(S), NEW b \in Seq(S), NEW p \in Seq(S),
         IsPrefix(a, p), IsPrefix(b, p), Len(a) <= Len(b)
  PROVE  IsPrefix(a, b)
<1>1. Len(a) \in Nat /\ Len(b) \in Nat /\ Len(p) \in Nat
  BY LenProperties
<1>2. (\A j \in 1..Len(a) : a[j] = p[j]) /\ (\A j \in 1..Len(b) : b[j] = p[j])
  BY PrefixByName
<1>3. \A j \in 1..Len(a) : a[j] = b[j]
  BY <1>1, <1>2
<1>4. QED
  BY <1>3, PrefixByName

LEMMA PrefixSameLength ==
  ASSUME NEW S, NEW a \in Seq(S), NEW b \in Seq(S), IsPrefix(a, b), Len(a) = Len(b)
  PROVE  a = b
<1>1. \A j \in 1..Len(a) : a[j] = b[j]
  BY PrefixByName
<1>2. QED
  BY <1>1, SeqEqual

-----------------------------------------------------------------------------
(* Following links.                                                        *)

Less == {ss \in Nat \X Nat : ss[1] < ss[2]}

LEMMA LeastNumber ==
  ASSUME NEW T, T \subseteq Nat, T # {} PROVE \E n \in T : \A m \in T : n <= m
<1>1. Less = OpToRel(<, Nat)
  BY Zenon DEF Less, OpToRel
<1>2. IsWellFoundedOn(Less, Nat)
  BY <1>1, NatLessThanWellFounded, Zenon
<1>3. PICK n \in T : \A m \in T : <<m, n>> \notin Less
  BY <1>2, WFMin
<1>4. ASSUME NEW m \in T PROVE n <= m
  <2>1. m \in Nat /\ n \in Nat
    OBVIOUS
  <2>2. ~(m < n)
    BY <1>3, <2>1 DEF Less
  <2>3. QED
    BY <2>1, <2>2
<1>5. QED
  BY <1>4

\* Induction up to a bound, over a set of numbers.
LEMMA CountUp ==
  ASSUME NEW N \in Nat, NEW S, 0 \in S, \A n \in 0..N : n \in S /\ n < N => n + 1 \in S
  PROVE  \A n \in 0..N : n \in S
<1> DEFINE T == {n \in 0..N : n \notin S}
<1>1. SUFFICES ASSUME T # {} PROVE FALSE
  OBVIOUS
<1>2. T \subseteq Nat
  OBVIOUS
<1> HIDE DEF T
<1>3. PICK n \in T : \A m \in T : n <= m
  BY <1>1, <1>2, LeastNumber
<1>4. n \in 0..N /\ n \notin S /\ n \in Nat
  BY <1>3 DEF T
<1>5. n # 0
  BY <1>4
<1>6. n - 1 \in 0..N /\ n - 1 < N /\ (n - 1) + 1 = n
  BY <1>4, <1>5
<1>7. n - 1 \notin S
  BY <1>4, <1>6
<1>8. n - 1 \in T /\ n <= n - 1
  BY <1>3, <1>6, <1>7 DEF T
<1>9. QED
  BY <1>4, <1>8

Paths == Seq(Names)
TreeOK ==
  /\ kind \in [Nodes -> Kinds] /\ link \in [Nodes -> Nodes \cup {<<>>}]
  /\ \A p \in Nodes : (kind[p] = "link") = (link[p] # <<>>)

LEMMA LinkFacts ==
  ASSUME TreeOK
  PROVE  \A p \in Links : p \in Nodes /\ p \in Paths /\ link[p] \in Nodes /\ link[p] \in Paths
BY DecisionAssumption DEF TreeOK, Links, Paths

LEMMA UnresolvedIs ==
  ASSUME NEW p \in Paths, TreeOK
  PROVE  Resolved(p) <=> \A l \in Links : ~IsPrefix(l, p)
<1>1. \A a : a \in Prefixes(p) <=> a \in Paths /\ IsPrefix(a, p)
  BY PrefixesAre DEF Paths
<1>2. QED
  BY <1>1, LinkFacts DEF Resolved

\* The first link on the way is unique.
First(q, p) == q \in Links /\ IsPrefix(q, p) /\ \A l \in Links : IsPrefix(l, p) => Len(q) <= Len(l)

LEMMA FirstExists ==
  ASSUME NEW p \in Paths, TreeOK, ~Resolved(p)
  PROVE  \E q : First(q, p)
<1> DEFINE T == {Len(l) : l \in {k \in Links : IsPrefix(k, p)}}
<1>1. T \subseteq Nat
  BY LinkFacts, LenProperties DEF Paths
<1>2. T # {}
  BY UnresolvedIs
<1> HIDE DEF T
<1>3. PICK n \in T : \A m \in T : n <= m
  BY <1>1, <1>2, LeastNumber
<1>4. PICK q \in Links : IsPrefix(q, p) /\ n = Len(q)
  BY <1>3 DEF T
<1>5. ASSUME NEW l \in Links, IsPrefix(l, p) PROVE Len(q) <= Len(l)
  <2>1. Len(l) \in T
    BY <1>5 DEF T
  <2>2. QED
    BY <1>3, <1>4, <2>1
<1>6. QED
  BY <1>4, <1>5 DEF First

LEMMA FirstUnique ==
  ASSUME NEW p \in Paths, TreeOK, NEW q, NEW l, First(q, p), First(l, p)
  PROVE  q = l
<1>1. q \in Paths /\ l \in Paths /\ IsPrefix(q, p) /\ IsPrefix(l, p)
      /\ Len(q) <= Len(l) /\ Len(l) <= Len(q)
  BY LinkFacts DEF First
<1>2. Len(q) \in Nat /\ Len(l) \in Nat
  BY <1>1, LenProperties DEF Paths
<1>3. Len(q) = Len(l)
  BY <1>1, <1>2
<1>4. IsPrefix(q, l)
  BY <1>1, <1>3, <1>2, PrefixesNest DEF Paths
<1>5. QED
  BY <1>1, <1>3, <1>4, PrefixSameLength DEF Paths

LEMMA HopIs ==
  ASSUME NEW p \in Paths, TreeOK, NEW q, First(q, p)
  PROVE  /\ Hop(p) = link[q] \o SubSeq(p, Len(q) + 1, Len(p))
         /\ Hop(p) \in Paths
<1>1. \A a : a \in Prefixes(p) <=> a \in Paths /\ IsPrefix(a, p)
  BY PrefixesAre DEF Paths
<1> DEFINE onTheWay == Prefixes(p) \cap Links
<1> DEFINE l == CHOOSE a \in onTheWay : \A m \in onTheWay : Len(a) <= Len(m)
<1>2. \A a : a \in onTheWay <=> a \in Links /\ IsPrefix(a, p)
  BY <1>1, LinkFacts
<1>3. q \in onTheWay /\ \A m \in onTheWay : Len(q) <= Len(m)
  BY <1>2 DEF First
<1>4. l \in onTheWay /\ \A m \in onTheWay : Len(l) <= Len(m)
  BY <1>3
<1>5. First(l, p)
  BY <1>2, <1>4 DEF First
<1>6. l = q
  BY <1>5, FirstUnique
<1>7. Hop(p) = link[q] \o SubSeq(p, Len(q) + 1, Len(p))
  BY <1>3, <1>6 DEF Hop
<1>8. link[q] \in Paths /\ q \in Paths /\ IsPrefix(q, p)
  BY LinkFacts DEF First
<1>9. SubSeq(p, Len(q) + 1, Len(p)) \in Paths
  BY <1>8, PrefixSplits DEF Paths
<1>10. link[q] \o SubSeq(p, Len(q) + 1, Len(p)) \in Paths
  BY <1>8, <1>9, ConcatProperties DEF Paths
<1>11. QED
  BY <1>7, <1>10

LEMMA HopResolved ==
  ASSUME NEW p \in Paths, TreeOK
  PROVE  /\ Resolved(p) => Hop(p) = p
         /\ Hop(p) \in Paths
<1>1. Resolved(p) => Hop(p) = p
  BY DEF Resolved, Hop
<1>2. ASSUME ~Resolved(p) PROVE Hop(p) \in Paths
  <2>1. PICK q : First(q, p)
    BY <1>2, FirstExists
  <2>2. QED
    BY <2>1, HopIs
<1>3. QED
  BY <1>1, <1>2

\* What follows the first link is carried along.
LEMMA HopExtends ==
  ASSUME NEW p \in Paths, NEW s \in Paths, TreeOK, ~Resolved(p)
  PROVE  /\ p \o s \in Paths /\ ~Resolved(p \o s)
         /\ Hop(p \o s) = Hop(p) \o s
<1>1. p \o s \in Paths /\ Len(p \o s) = Len(p) + Len(s) /\ IsPrefix(p, p \o s)
  BY ConcatProperties, PrefixOfJoin DEF Paths
<1>2. PICK q : First(q, p)
  BY FirstExists
<1>3. q \in Links /\ q \in Paths /\ link[q] \in Paths /\ IsPrefix(q, p)
  BY <1>2, LinkFacts DEF First
<1>4. IsPrefix(q, p \o s)
  BY <1>1, <1>3, PrefixTransitive DEF Paths
<1>5. ~Resolved(p \o s)
  BY <1>1, <1>3, <1>4, UnresolvedIs
<1>6. Len(q) \in Nat /\ Len(p) \in Nat /\ Len(s) \in Nat /\ Len(q) <= Len(p)
  BY <1>3, LenProperties, PrefixByName DEF Paths
<1>7. ASSUME NEW l \in Links, IsPrefix(l, p \o s) PROVE Len(q) <= Len(l)
  <2>1. l \in Paths /\ Len(l) \in Nat
    BY LinkFacts, LenProperties DEF Paths
  <2>2. CASE Len(l) <= Len(p)
    <3>1. IsPrefix(l, p)
      BY <1>1, <1>7, <2>1, <2>2, PrefixesNest DEF Paths
    <3>2. QED
      BY <1>2, <3>1 DEF First
  <2>3. CASE ~(Len(l) <= Len(p))
    BY <1>6, <2>1, <2>3
  <2>4. QED
    BY <2>2, <2>3
<1>8. First(q, p \o s)
  BY <1>3, <1>4, <1>7 DEF First
<1> DEFINE b == SubSeq(p, Len(q) + 1, Len(p))
           d == SubSeq(p \o s, Len(q) + 1, Len(p \o s))
<1>9. Hop(p) = link[q] \o b /\ Hop(p \o s) = link[q] \o d
  BY <1>1, <1>2, <1>8, HopIs
<1>10. b \in Paths /\ p = q \o b
  BY <1>3, PrefixSplits DEF Paths
<1>11. d \in Paths /\ p \o s = q \o d
  BY <1>1, <1>3, <1>4, PrefixSplits DEF Paths
<1> HIDE DEF b, d
<1>12. p \o s = q \o (b \o s) /\ b \o s \in Paths
  BY <1>3, <1>10, ConcatAssociative, ConcatProperties DEF Paths
<1>13. d = b \o s
  <2>1. q \o d = q \o (b \o s)
    BY <1>11, <1>12
  <2>2. QED
    BY <1>3, <1>11, <1>12, <2>1, JoinCancels DEF Paths
<1>14. link[q] \o (b \o s) = (link[q] \o b) \o s
  <2>1. link[q] \in Seq(Names) /\ b \in Seq(Names) /\ s \in Seq(Names)
    BY <1>3, <1>10 DEF Paths
  <2>2. QED
    BY <2>1, JoinAssociative, Zenon
<1>15. QED
  BY <1>1, <1>5, <1>9, <1>13, <1>14

LEMMA HopsBound == MaxHops \in Nat /\ 0 \in 0..MaxHops
BY DecisionAssumption DEF MaxHops

\* The way is defined: one hop after another.
LEMMA WayIs ==
  ASSUME NEW p \in Paths, TreeOK
  PROVE  /\ Way(p) \in [0..MaxHops -> Paths] /\ Way(p)[0] = p
         /\ \A n \in 0..MaxHops : n < MaxHops => Way(p)[n + 1] = Hop(Way(p)[n])
<1> DEFINE Run(n, f) == f[0] = p /\ \A i \in 0..n : i < n => f[i + 1] = Hop(f[i])
           R == {n \in Nat : \E f \in [0..n -> Paths] : Run(n, f)}
<1>1. 0 \in R
  <2>1. Run(0, [i \in 0..0 |-> p]) /\ [i \in 0..0 |-> p] \in [0..0 -> Paths]
    OBVIOUS
  <2>2. QED
    BY <2>1
<1>2. ASSUME NEW n \in Nat, n \in R PROVE n + 1 \in R
  <2>1. PICK f \in [0..n -> Paths] : Run(n, f)
    BY <1>2
  <2> DEFINE g == [i \in 0..(n + 1) |-> IF i <= n THEN f[i] ELSE Hop(f[n])]
  <2>2. Hop(f[n]) \in Paths
    BY <2>1, HopResolved
  <2>3. ASSUME NEW i \in 0..(n + 1) PROVE g[i] \in Paths
    <3>1. CASE i <= n
      <4>1. i \in 0..n
        BY <3>1
      <4>2. QED
        BY <3>1, <4>1
    <3>2. CASE ~(i <= n)
      BY <2>2, <3>2
    <3>3. QED
      BY <3>1, <3>2
  <2>4. g \in [0..(n + 1) -> Paths]
    BY <2>3
  <2>5. g[0] = p
    BY <2>1
  <2>6. ASSUME NEW i \in 0..(n + 1), i < n + 1 PROVE g[i + 1] = Hop(g[i])
    <3>1. i \in 0..n /\ i + 1 \in 0..(n + 1) /\ g[i] = f[i]
      BY <2>6
    <3>2. CASE i < n
      <4>1. g[i + 1] = f[i + 1]
        BY <3>1, <3>2
      <4>2. f[i + 1] = Hop(f[i])
        BY <2>1, <3>1, <3>2
      <4>3. QED
        BY <3>1, <4>1, <4>2
    <3>3. CASE ~(i < n)
      <4>1. i = n /\ ~(i + 1 <= n)
        BY <3>1, <3>3
      <4>2. g[i + 1] = Hop(f[n])
        BY <3>1, <4>1
      <4>3. QED
        BY <3>1, <4>1, <4>2
    <3>4. QED
      BY <3>2, <3>3
  <2>7. Run(n + 1, g)
    BY <2>5, <2>6
  <2>8. QED
    BY <2>4, <2>7
<1> HIDE DEF R
<1>3. MaxHops \in R
  <2>1. \A n \in 0..MaxHops : n \in R /\ n < MaxHops => n + 1 \in R
    BY <1>2
  <2>2. \A n \in 0..MaxHops : n \in R
    BY <1>1, <2>1, HopsBound, CountUp
  <2>3. QED
    BY <2>2, HopsBound
<1>4. PICK f \in [0..MaxHops -> Paths] : Run(MaxHops, f)
  BY <1>3 DEF R
<1>5. f = [n \in 0..MaxHops |-> IF n = 0 THEN p ELSE Hop(f[n - 1])]
  <2>1. ASSUME NEW n \in 0..MaxHops PROVE f[n] = IF n = 0 THEN p ELSE Hop(f[n - 1])
    <3>1. CASE n = 0
      BY <1>4, <3>1
    <3>2. CASE n # 0
      <4>1. n - 1 \in 0..MaxHops /\ n - 1 < MaxHops /\ (n - 1) + 1 = n
        BY <3>2, HopsBound
      <4>2. f[(n - 1) + 1] = Hop(f[n - 1])
        BY <1>4, <4>1
      <4>3. QED
        BY <3>2, <4>1, <4>2
    <3>3. QED
      BY <3>1, <3>2
  <2>2. QED
    BY <2>1
<1>6. Way(p) = [n \in 0..MaxHops |-> IF n = 0 THEN p ELSE Hop(Way(p)[n - 1])]
  <2> DEFINE Eq(g) == g = [n \in 0..MaxHops |-> IF n = 0 THEN p ELSE Hop(g[n - 1])]
  <2>1. Way(p) = CHOOSE g : Eq(g)
    BY Zenon DEF Way
  <2>2. Eq(f)
    BY <1>5
  <2> HIDE DEF Eq
  <2>3. Eq(Way(p))
    BY <2>1, <2>2
  <2>4. QED
    BY <2>3 DEF Eq
<1> DEFINE w == Way(p)
<1>7. w[0] = p
  <2>1. [n \in 0..MaxHops |-> IF n = 0 THEN p ELSE Hop(Way(p)[n - 1])][0] = p
    BY HopsBound
  <2>2. QED
    BY <1>6, <2>1, Zenon
<1>8. ASSUME NEW n \in 0..MaxHops, n < MaxHops PROVE w[n + 1] = Hop(w[n])
  <2>1. n + 1 \in 0..MaxHops /\ n + 1 # 0 /\ (n + 1) - 1 = n
    BY <1>8, HopsBound
  <2>2. [i \in 0..MaxHops |-> IF i = 0 THEN p ELSE Hop(Way(p)[i - 1])][n + 1] = Hop(Way(p)[n])
    BY <2>1
  <2>3. QED
    BY <1>6, <2>2, Zenon
<1>9. DOMAIN w = 0..MaxHops /\ w = [n \in 0..MaxHops |-> w[n]]
  <2>1. DOMAIN w = 0..MaxHops
    BY <1>6, Zenon
  <2>2. ASSUME NEW g, NEW D, NEW e, g = [n \in D |-> e[n]] PROVE g = [n \in D |-> g[n]]
    BY <2>2
  <2> DEFINE e == [n \in 0..MaxHops |-> IF n = 0 THEN p ELSE Hop(Way(p)[n - 1])]
  <2>3. w = e /\ e = [n \in 0..MaxHops |-> e[n]]
    BY <1>6
  <2>4. QED
    BY <2>1, <2>3
<1>10. \A n \in 0..MaxHops : w[n] \in Paths
  <2> DEFINE G == {n \in 0..MaxHops : w[n] \in Paths}
  <2>1. 0 \in G
    BY <1>7, HopsBound
  <2>2. ASSUME NEW n \in 0..MaxHops, n \in G, n < MaxHops PROVE n + 1 \in G
    <3>1. n + 1 \in 0..MaxHops /\ w[n] \in Paths
      BY <2>2, HopsBound
    <3>2. w[n + 1] \in Paths
      BY <1>8, <2>2, <3>1, HopResolved
    <3>3. QED
      BY <3>1, <3>2
  <2> HIDE DEF G
  <2>3. \A n \in 0..MaxHops : n \in G
    BY <2>1, <2>2, HopsBound, CountUp
  <2>4. QED
    BY <2>3 DEF G
<1>11. w \in [0..MaxHops -> Paths]
  BY <1>9, <1>10
<1>12. QED
  BY <1>7, <1>8, <1>11

-----------------------------------------------------------------------------
(* Where a path leads.                                                     *)

LEMMA WayEnds ==
  ASSUME NEW p \in Paths, TreeOK, NEW k \in 0..MaxHops, Resolved(Way(p)[k])
  PROVE  \A n \in 0..MaxHops : n >= k => Way(p)[n] = Way(p)[k]
<1> DEFINE w == Way(p)
           G == {n \in 0..MaxHops : n >= k => w[n] = w[k]}
<1>1. /\ w \in [0..MaxHops -> Paths]
      /\ \A n \in 0..MaxHops : n < MaxHops => w[n + 1] = Hop(w[n])
  BY WayIs
<1>2. 0 \in G
  BY HopsBound
<1>3. ASSUME NEW n \in 0..MaxHops, n \in G, n < MaxHops PROVE n + 1 \in G
  <2>1. n + 1 \in 0..MaxHops
    BY <1>3, HopsBound
  <2>2. CASE n + 1 = k
    BY <2>1, <2>2
  <2>3. CASE n >= k
    <3>1. w[n] = w[k] /\ w[k] \in Paths
      BY <1>1, <1>3, <2>3
    <3>2. w[n + 1] = w[k]
      BY <1>1, <1>3, <3>1, HopResolved
    <3>3. QED
      BY <2>1, <3>2
  <2>4. CASE n + 1 # k /\ ~(n >= k)
    BY <2>1, <2>4
  <2>5. QED
    BY <2>2, <2>3, <2>4
<1> HIDE DEF G
<1>4. \A n \in 0..MaxHops : n \in G
  BY <1>2, <1>3, HopsBound, CountUp
<1>5. QED
  BY <1>4 DEF G

LEMMA EndsThere ==
  ASSUME NEW p \in Paths, TreeOK, NEW k \in 0..MaxHops, Resolved(Way(p)[k])
  PROVE  realpath(p) = Way(p)[k] /\ Resolved(realpath(p))
<1>1. MaxHops \in 0..MaxHops /\ MaxHops >= k
  BY HopsBound
<1>2. Way(p)[MaxHops] = Way(p)[k]
  BY <1>1, WayEnds
<1>3. QED
  BY <1>2 DEF realpath

LEMMA RealPaths ==
  ASSUME NEW p \in Paths, TreeOK
  PROVE  /\ realpath(p) \in Paths
         /\ Resolved(p) => realpath(p) = p
<1>1. /\ Way(p) \in [0..MaxHops -> Paths] /\ Way(p)[0] = p
  BY WayIs
<1>2. MaxHops \in 0..MaxHops
  BY HopsBound
<1>3. realpath(p) \in Paths
  BY <1>1, <1>2 DEF realpath
<1>4. ASSUME Resolved(p) PROVE realpath(p) = p
  BY <1>1, <1>4, EndsThere, HopsBound
<1>5. QED
  BY <1>3, <1>4

\* Up to where p is resolved, p \o s goes the way of p.
LEMMA WayExtends ==
  ASSUME NEW p \in Paths, NEW s \in Paths, TreeOK, NEW k \in 0..MaxHops,
         \A n \in 0..MaxHops : n < k => ~Resolved(Way(p)[n])
  PROVE  \A n \in 0..MaxHops : n <= k => Way(p \o s)[n] = Way(p)[n] \o s
<1> DEFINE w == Way(p)
           v == Way(p \o s)
           G == {n \in 0..MaxHops : n <= k => v[n] = w[n] \o s}
<1>1. p \o s \in Paths
  BY ConcatProperties DEF Paths
<1>2. /\ w \in [0..MaxHops -> Paths] /\ w[0] = p
      /\ \A n \in 0..MaxHops : n < MaxHops => w[n + 1] = Hop(w[n])
  BY WayIs
<1>3. /\ v[0] = p \o s
      /\ \A n \in 0..MaxHops : n < MaxHops => v[n + 1] = Hop(v[n])
  BY <1>1, WayIs
<1>4. 0 \in G
  BY <1>2, <1>3, HopsBound
<1>5. ASSUME NEW n \in 0..MaxHops, n \in G, n < MaxHops PROVE n + 1 \in G
  <2>1. n + 1 \in 0..MaxHops
    BY <1>5, HopsBound
  <2>2. CASE n + 1 <= k
    <3>1. n < k /\ n <= k
      BY <2>2
    <3>2. v[n] = w[n] \o s /\ ~Resolved(w[n]) /\ w[n] \in Paths
      BY <1>2, <1>5, <3>1
    <3>3. Hop(w[n] \o s) = Hop(w[n]) \o s
      BY <3>2, HopExtends
    <3>4. v[n + 1] = Hop(v[n]) /\ w[n + 1] = Hop(w[n])
      BY <1>2, <1>3, <1>5
    <3>5. v[n + 1] = w[n + 1] \o s
      BY <3>2, <3>3, <3>4
    <3>6. QED
      BY <2>1, <3>5
  <2>3. CASE ~(n + 1 <= k)
    BY <2>1, <2>3
  <2>4. QED
    BY <2>2, <2>3
<1> HIDE DEF G
<1>6. \A n \in 0..MaxHops : n \in G
  BY <1>4, <1>5, HopsBound, CountUp
<1>7. QED
  BY <1>6 DEF G

\* A path below one that is not resolved in time is not either.
LEMMA LostBelow ==
  ASSUME NEW p \in Paths, NEW s \in Paths, TreeOK, Resolved(realpath(p \o s))
  PROVE  Resolved(realpath(p))
<1> SUFFICES ASSUME ~Resolved(realpath(p)) PROVE FALSE
  OBVIOUS
<1>1. \A n \in 0..MaxHops : ~Resolved(Way(p)[n])
  BY EndsThere
<1>2. MaxHops \in 0..MaxHops /\ MaxHops <= MaxHops
  BY HopsBound
<1>3. Way(p \o s)[MaxHops] = Way(p)[MaxHops] \o s
  BY <1>1, <1>2, WayExtends
<1>4. Way(p)[MaxHops] \in Paths
  BY <1>2, WayIs
<1>5. ~Resolved(Way(p)[MaxHops] \o s)
  BY <1>1, <1>2, <1>4, HopExtends
<1>6. QED
  BY <1>3, <1>5 DEF realpath

\* The least number of hops after which p is resolved.
LEMMA FirstResolved ==
  ASSUME NEW p \in Paths, TreeOK, Resolved(realpath(p))
  PROVE  \E k \in 0..MaxHops :
           Resolved(Way(p)[k]) /\ \A n \in 0..MaxHops : n < k => ~Resolved(Way(p)[n])
<1> DEFINE T == {n \in 0..MaxHops : Resolved(Way(p)[n])}
<1>1. MaxHops \in T /\ T \subseteq Nat
  BY HopsBound DEF realpath
<1>2. PICK k \in T : \A n \in T : k <= n
  <2> HIDE DEF T
  <2>1. T # {}
    BY <1>1
  <2>2. QED
    BY <1>1, <2>1, LeastNumber
<1>3. ASSUME NEW n \in 0..MaxHops, n < k PROVE ~Resolved(Way(p)[n])
  <2>1. k \in Nat /\ n \in Nat /\ ~(k <= n)
    BY <1>1, <1>2, <1>3
  <2>2. QED
    BY <1>2, <2>1
<1>4. QED
  BY <1>2, <1>3

\* After k hops along p, the way of p \o s is the way of what p \o s is then.
LEMMA WayAfter ==
  ASSUME NEW p \in Paths, NEW t \in Paths, TreeOK, NEW k \in 0..MaxHops, Way(p)[k] = t
  PROVE  \A n \in 0..MaxHops : k + n <= MaxHops => Way(p)[k + n] = Way(t)[n]
<1> DEFINE w == Way(p)
           v == Way(t)
           G == {n \in 0..MaxHops : k + n <= MaxHops => w[k + n] = v[n]}
<1>1. \A n \in 0..MaxHops : n < MaxHops => w[n + 1] = Hop(w[n])
  BY WayIs
<1>2. v[0] = t /\ \A n \in 0..MaxHops : n < MaxHops => v[n + 1] = Hop(v[n])
  BY WayIs
<1>3. 0 \in G
  <2>1. k + 0 = k
    OBVIOUS
  <2>2. QED
    BY <1>2, <2>1, HopsBound
<1>4. ASSUME NEW n \in 0..MaxHops, n \in G, n < MaxHops PROVE n + 1 \in G
  <2>1. n + 1 \in 0..MaxHops
    BY <1>4, HopsBound
  <2>2. ASSUME k + (n + 1) <= MaxHops PROVE w[k + (n + 1)] = v[n + 1]
    <3>1. k + n <= MaxHops /\ k + n \in 0..MaxHops /\ k + n < MaxHops /\ k + (n + 1) = (k + n) + 1
      BY <2>2, HopsBound
    <3>2. w[k + n] = v[n]
      BY <1>4, <3>1
    <3>3. w[(k + n) + 1] = Hop(w[k + n])
      BY <1>1, <3>1
    <3>4. v[n + 1] = Hop(v[n])
      BY <1>2, <1>4
    <3>5. QED
      BY <3>1, <3>2, <3>3, <3>4
  <2>3. QED
    BY <2>1, <2>2
<1> HIDE DEF G
<1>5. \A n \in 0..MaxHops : n \in G
  BY <1>3, <1>4, HopsBound, CountUp
<1>6. QED
  BY <1>5 DEF G

\* A resolved beginning may be replaced by where it leads.
LEMMA RealBeginning ==
  ASSUME NEW p \in Paths, NEW s \in Paths, TreeOK, Resolved(realpath(p))
  PROVE  /\ realpath(p) \o s \in Paths
         /\ Resolved(realpath(p) \o s) => realpath(p \o s) = realpath(p) \o s
         /\ Resolved(realpath(p \o s)) => realpath(realpath(p) \o s) = realpath(p \o s)
<1>1. PICK k \in 0..MaxHops :
        Resolved(Way(p)[k]) /\ \A n \in 0..MaxHops : n < k => ~Resolved(Way(p)[n])
  BY FirstResolved
<1>2. realpath(p) = Way(p)[k] /\ realpath(p) \in Paths /\ p \o s \in Paths
  BY <1>1, EndsThere, RealPaths, ConcatProperties DEF Paths
<1> DEFINE t == realpath(p) \o s
<1>3. t \in Paths
  BY <1>2, ConcatProperties DEF Paths
<1>4. \A n \in 0..MaxHops : n <= k => Way(p \o s)[n] = Way(p)[n] \o s
  BY <1>1, WayExtends
<1>5. Way(p \o s)[k] = t
  <2>1. k <= k
    OBVIOUS
  <2>2. QED
    BY <1>2, <1>4, <2>1
<1> HIDE DEF t
<1>6. ASSUME Resolved(t) PROVE realpath(p \o s) = t
  BY <1>2, <1>5, <1>6, EndsThere
<1>7. ASSUME Resolved(realpath(p \o s)) PROVE realpath(t) = realpath(p \o s)
  <2>1. PICK m \in 0..MaxHops :
          Resolved(Way(p \o s)[m]) /\ \A n \in 0..MaxHops : n < m => ~Resolved(Way(p \o s)[n])
    BY <1>2, <1>7, FirstResolved
  <2>2. ~(m < k)
    <3>1. ASSUME m < k PROVE FALSE
      <4>1. m <= k /\ ~Resolved(Way(p)[m])
        BY <1>1, <3>1
      <4>2. Way(p)[m] \in Paths /\ Way(p \o s)[m] = Way(p)[m] \o s
        BY <1>4, <4>1, WayIs
      <4>3. ~Resolved(Way(p)[m] \o s)
        BY <4>1, <4>2, HopExtends
      <4>4. QED
        BY <2>1, <4>2, <4>3
    <3>2. QED
      BY <3>1
  <2>3. m - k \in 0..MaxHops /\ k + (m - k) = m /\ m <= MaxHops
    BY <2>2, HopsBound
  <2>4. Way(p \o s)[m] = Way(t)[m - k]
    <3>1. \A n \in 0..MaxHops : k + n <= MaxHops => Way(p \o s)[k + n] = Way(t)[n]
      BY <1>2, <1>3, <1>5, WayAfter
    <3>2. Way(p \o s)[k + (m - k)] = Way(t)[m - k]
      BY <2>3, <3>1
    <3>3. QED
      BY <2>3, <3>2
  <2>5. realpath(p \o s) = Way(p \o s)[m]
    BY <1>2, <2>1, EndsThere
  <2>6. realpath(t) = Way(t)[m - k]
    BY <1>3, <2>1, <2>3, <2>4, EndsThere
  <2>7. QED
    BY <2>4, <2>5, <2>6
<1>8. QED
  BY <1>3, <1>6, <1>7 DEF t

-----------------------------------------------------------------------------
(* The decision's canonical paths are where paths lead.                    *)

\* Above whatever exists there are directories.
Rooted == \A p, q \in Nodes : kind[p] # "none" /\ IsStrictPrefix(q, p) => kind[q] = "dir"

LEMMA PlaceResolved ==
  ASSUME NEW p \in Nodes, kind[p] \in {"dir", "file"}, TreeOK, Rooted
  PROVE  Resolved(p)
<1>1. p \in Paths
  BY DecisionAssumption DEF Paths
<1>2. ASSUME NEW l \in Links, IsPrefix(l, p) PROVE FALSE
  <2>1. l \in Nodes /\ kind[l] = "link"
    BY DEF Links
  <2>2. CASE l = p
    BY <2>1, <2>2
  <2>3. CASE l # p
    BY <1>2, <2>1, <2>3 DEF Rooted, IsStrictPrefix
  <2>4. QED
    BY <2>2, <2>3
<1>3. QED
  BY <1>1, <1>2, UnresolvedIs

LEMMA ExistsResolved ==
  ASSUME NEW p \in Paths, Exists(p), TreeOK, Rooted
  PROVE  Resolved(realpath(p))
BY PlaceResolved DEF Exists

\* Either nothing on the way exists, or the longest part that does is resolved.
LEMMA CanonicalIs ==
  ASSUME NEW p \in Paths, TreeOK
  PROVE  \/ /\ \A a \in Prefixes(p) : ~Exists(a)
            /\ Canonical(p) = p
         \/ \E q, s \in Paths :
              /\ Exists(q) /\ p = q \o s /\ Canonical(p) = realpath(q) \o s
              /\ \A a \in Prefixes(p) : Exists(a) => Len(a) <= Len(q)
<1> DEFINE known == {a \in Prefixes(p) : Exists(a)}
<1>1. CASE known = {}
  BY <1>1 DEF Canonical
<1>2. CASE known # {}
  <2>1. \A a \in known : a \in Paths /\ IsPrefix(a, p) /\ Len(a) \in 0..Len(p)
    <3>1. ASSUME NEW a \in known PROVE a \in Paths /\ IsPrefix(a, p) /\ Len(a) \in 0..Len(p)
      <4>1. a \in Paths /\ IsPrefix(a, p)
        BY PrefixesAre DEF Paths
      <4>2. Len(a) \in Nat /\ Len(p) \in Nat /\ Len(a) <= Len(p)
        BY <4>1, LenProperties, PrefixByName DEF Paths
      <4>3. QED
        BY <4>1, <4>2
    <3>2. QED
      BY <3>1
  <2> DEFINE T == {Len(p) - Len(a) : a \in known}
  <2>2. Len(p) \in Nat
    BY LenProperties DEF Paths
  <2>3. T \subseteq Nat
    BY <2>1, <2>2
  <2>4. T # {}
    BY <1>2
  <2>5. PICK n \in T : \A m \in T : n <= m
    <3> HIDE DEF T
    <3>1. QED
      BY <2>3, <2>4, LeastNumber
  <2>6. PICK b \in known : n = Len(p) - Len(b)
    BY <2>5
  <2>7. ASSUME NEW a \in known PROVE Len(a) <= Len(b)
    <3>1. Len(p) - Len(a) \in T /\ Len(p) - Len(a) \in Nat /\ n \in Nat
      BY <2>3, <2>5
    <3>2. n <= Len(p) - Len(a)
      BY <2>5, <3>1
    <3>3. Len(a) \in Nat /\ Len(b) \in Nat
      BY <2>1
    <3>4. QED
      BY <2>2, <2>6, <3>2, <3>3
  <2> DEFINE q == CHOOSE a \in known : \A m \in known : Len(m) <= Len(a)
  <2>8. q \in known /\ \A m \in known : Len(m) <= Len(q)
    BY <2>7
  <2>9. Canonical(p) = realpath(q) \o SubSeq(p, Len(q) + 1, Len(p))
    BY <1>2 DEF Canonical
  <2> HIDE DEF q
  <2>10. q \in Paths /\ IsPrefix(q, p) /\ Exists(q)
    BY <2>1, <2>8
  <2>11. SubSeq(p, Len(q) + 1, Len(p)) \in Paths /\ p = q \o SubSeq(p, Len(q) + 1, Len(p))
    BY <2>10, PrefixSplits DEF Paths
  <2>12. \A a \in Prefixes(p) : Exists(a) => Len(a) <= Len(q)
    BY <2>8
  <2>13. QED
    BY <2>9, <2>10, <2>11, <2>12
<1>3. QED
  BY <1>1, <1>2

LEMMA CanonicalPath == ASSUME NEW p \in Paths, TreeOK PROVE Canonical(p) \in Paths
<1>1. CASE Canonical(p) = p
  BY <1>1
<1>2. ASSUME NEW q \in Paths, NEW s \in Paths, Canonical(p) = realpath(q) \o s
      PROVE  Canonical(p) \in Paths
  <2>1. realpath(q) \in Paths
    BY RealPaths
  <2>2. QED
    BY <1>2, <2>1, ConcatProperties DEF Paths
<1>3. QED
  BY <1>1, <1>2, CanonicalIs

\* A canonical path without a link is where the path leads.
LEMMA CanonicalResolved ==
  ASSUME NEW p \in Paths, TreeOK, Rooted, Resolved(Canonical(p))
  PROVE  realpath(p) = Canonical(p)
<1>1. CASE Canonical(p) = p
  BY <1>1, RealPaths
<1>2. ASSUME NEW q \in Paths, NEW s \in Paths,
             Exists(q), p = q \o s, Canonical(p) = realpath(q) \o s
      PROVE  realpath(p) = Canonical(p)
  <2>1. Resolved(realpath(q))
    BY <1>2, ExistsResolved
  <2>2. QED
    BY <1>2, <2>1, RealBeginning
<1>3. QED
  BY <1>1, <1>2, CanonicalIs

\* Where no link dangles, the canonical path is where the path leads, if that is anywhere.
LEMMA CanonicalIsReal ==
  ASSUME NEW p \in Paths, TreeOK, Rooted, Dangling = {}, Resolved(realpath(p))
  PROVE  Canonical(p) = realpath(p)
<1>1. CASE (\A a \in Prefixes(p) : ~Exists(a)) /\ Canonical(p) = p
  <2>1. Resolved(p)
    BY <1>1 DEF Resolved, Dangling
  <2>2. QED
    BY <1>1, <2>1, RealPaths
<1>2. ASSUME NEW q \in Paths, NEW s \in Paths,
             Exists(q), p = q \o s, Canonical(p) = realpath(q) \o s,
             \A a \in Prefixes(p) : Exists(a) => Len(a) <= Len(q)
      PROVE  Canonical(p) = realpath(p)
  <2>1. Resolved(realpath(q)) /\ realpath(q) \in Paths
    BY <1>2, ExistsResolved, RealPaths
  <2>2. ASSUME ~Resolved(realpath(q) \o s) PROVE FALSE
    <3> DEFINE b == realpath(q)
    <3>1. b \o s \in Paths /\ IsPrefix(b, b \o s)
      BY <2>1, ConcatProperties, PrefixOfJoin DEF Paths
    <3>2. PICK l \in Links : IsPrefix(l, b \o s)
      BY <2>2, <3>1, UnresolvedIs
    <3>3. l \in Paths /\ Exists(l)
      BY LinkFacts DEF Dangling
    <3>4. Len(b) \in Nat /\ Len(l) \in Nat /\ Len(s) \in Nat /\ Len(b \o s) = Len(b) + Len(s)
      BY <2>1, <3>3, LenProperties, ConcatProperties DEF Paths
    <3>5. ~IsPrefix(l, b)
      BY <2>1, UnresolvedIs
    <3>6. Len(b) < Len(l)
      <4>1. ASSUME Len(l) <= Len(b) PROVE FALSE
        <5>1. IsPrefix(l, b)
          BY <2>1, <3>1, <3>2, <3>3, <4>1, PrefixesNest DEF Paths
        <5>2. QED
          BY <3>5, <5>1
      <4>2. QED
        BY <3>4, <4>1
    <3>7. IsPrefix(b, l) /\ Len(l) <= Len(b \o s)
      <4>1. Len(b) <= Len(l)
        BY <3>4, <3>6
      <4>2. IsPrefix(b, l)
        BY <2>1, <3>1, <3>2, <3>3, <4>1, PrefixesNest DEF Paths
      <4>3. Len(l) <= Len(b \o s)
        BY <3>2 DEF IsPrefix
      <4>4. QED
        BY <4>2, <4>3
    <3> DEFINE s1 == SubSeq(l, Len(b) + 1, Len(l))
               s2 == SubSeq(b \o s, Len(l) + 1, Len(b \o s))
    <3>8. s1 \in Paths /\ l = b \o s1 /\ Len(s1) = Len(l) - Len(b)
      BY <2>1, <3>3, <3>7, PrefixSplits DEF Paths
    <3>9. s2 \in Paths /\ b \o s = l \o s2
      BY <3>1, <3>2, <3>3, PrefixSplits DEF Paths
    <3> HIDE DEF s1, s2, b
    <3>10. s = s1 \o s2 /\ s1 \o s2 \in Paths
      <4>1. s1 \o s2 \in Seq(Names) /\ b \in Seq(Names)
        BY <2>1, <3>8, <3>9, ConcatProperties DEF Paths, b
      <4>2. b \o s = b \o (s1 \o s2)
        <5>1. s1 \in Seq(Names) /\ s2 \in Seq(Names)
          BY <3>8, <3>9 DEF Paths
        <5>2. (b \o s1) \o s2 = b \o (s1 \o s2)
          BY JoinAssociative, <4>1, <5>1, Zenon
        <5>3. b \o s = (b \o s1) \o s2
          BY <3>8, <3>9, Zenon
        <5>4. QED
          BY <5>2, <5>3, Zenon
      <4>3. QED
        BY JoinCancels, <4>1, <4>2 DEF Paths
    <3> DEFINE a == q \o s1
    <3>11. a \in Paths /\ Len(a) = Len(q) + Len(s1)
      BY <3>8, ConcatProperties DEF Paths
    <3>12. p = a \o s2
      <4>1. q \in Seq(Names) /\ s1 \in Seq(Names) /\ s2 \in Seq(Names)
        BY <3>8, <3>9 DEF Paths
      <4>2. (q \o s1) \o s2 = q \o (s1 \o s2)
        BY JoinAssociative, <4>1, Zenon
      <4>3. p = q \o (s1 \o s2)
        BY <1>2, <3>10, Zenon
      <4>4. QED
        BY <4>2, <4>3, Zenon
    <3>13. a \in Prefixes(p)
      <4>1. IsPrefix(a, p)
        BY <3>9, <3>11, <3>12, PrefixOfJoin DEF Paths
      <4>2. QED
        BY <3>11, <4>1, PrefixesAre DEF Paths
    <3> HIDE DEF a
    <3>14. Resolved(realpath(a))
      BY <3>9, <3>11, <3>12, LostBelow
    <3>15. realpath(l) = realpath(a)
      BY <2>1, <3>8, <3>14, RealBeginning DEF a, b
    <3>16. Exists(a)
      BY <3>3, <3>15 DEF Exists
    <3>17. Len(a) <= Len(q)
      BY <1>2, <3>13, <3>16
    <3>18. Len(q) \in Nat
      BY LenProperties DEF Paths
    <3>19. QED
      BY <3>4, <3>6, <3>8, <3>11, <3>17, <3>18
  <2>3. QED
    BY <1>2, <2>1, <2>2, RealBeginning
<1>3. QED
  BY <1>1, <1>2, CanonicalIs

-----------------------------------------------------------------------------
(* What the decision grants.                                               *)

\* A root that a resolved place is found below, by either of its names.
LEMMA BelowRoot ==
  ASSUME NEW r \in Paths, NEW spot \in Paths, TreeOK, Rooted, Dangling = {},
         Resolved(spot), Resolved(realpath(r)),
         Within(spot, r) \/ Within(spot, Canonical(r))
  PROVE  IsPrefix(realpath(r), spot)
<1>1. ASSUME NEW a \in Paths, IsPrefix(a, spot) PROVE Resolved(a)
  <2>1. ASSUME NEW l \in Links, IsPrefix(l, a) PROVE FALSE
    <3>1. IsPrefix(l, spot)
      BY <1>1, <2>1, LinkFacts, PrefixTransitive DEF Paths
    <3>2. QED
      BY <3>1, UnresolvedIs
  <2>2. QED
    BY <2>1, UnresolvedIs
<1>2. realpath(spot) = spot
  BY RealPaths
<1>3. Canonical(spot) = spot
  BY <1>2, CanonicalIsReal
<1>4. Canonical(r) = realpath(r) /\ realpath(r) \in Paths
  BY CanonicalIsReal, RealPaths
<1>5. realpath(realpath(r)) = realpath(r)
  BY <1>4, RealPaths
<1>6. Canonical(realpath(r)) = realpath(r)
  BY <1>4, <1>5, CanonicalIsReal
<1>7. CASE IsPrefix(r, spot)
  <2>1. realpath(r) = r
    BY <1>1, <1>7, RealPaths
  <2>2. QED
    BY <1>7, <2>1
<1>8. QED
  BY <1>3, <1>4, <1>6, <1>7 DEF Within

\* The request's places, as long as the tree is the one that was decided about.
LEMMA CompliantPlaces ==
  ASSUME TreeOK, Rooted, Dangling = {}, NEW r \in Requests, Compliant(r),
         NEW t \in r.targets \ r.web, Resolved(realpath(t)),
         NEW roots, roots = IF r.action = "read" THEN ReadRoots ELSE WriteRoots,
         \A d \in roots : Resolved(realpath(d))
  PROVE  /\ \A d \in DeniedPaths : ~IsPrefix(realpath(d), realpath(t))
         /\ r.action \in {"read", "write", "shell"} =>
              \E d \in roots : IsPrefix(realpath(d), realpath(t)) \/ Bridged(d, realpath(t))
<1>1. t \in Paths /\ DeniedPaths \subseteq Paths /\ roots \subseteq Paths
  BY DecisionAssumption DEF Paths
<1> DEFINE spot == realpath(t)
<1>2. spot \in Paths /\ Canonical(t) = spot
  BY <1>1, RealPaths, CanonicalIsReal
<1>3. ~Denied(t)
  BY DEF Compliant
<1>4. ASSUME NEW d \in DeniedPaths, IsPrefix(realpath(d), spot) PROVE FALSE
  <2>1. d \in Paths /\ realpath(d) \in Paths
    BY <1>1, RealPaths
  <2>2. ASSUME NEW l \in Links, IsPrefix(l, realpath(d)) PROVE FALSE
    <3>1. IsPrefix(l, spot)
      BY <1>2, <1>4, <2>1, <2>2, LinkFacts, PrefixTransitive DEF Paths
    <3>2. QED
      BY <1>2, <3>1, UnresolvedIs
  <2>3. Resolved(realpath(d))
    BY <2>1, <2>2, UnresolvedIs
  <2>4. Canonical(d) = realpath(d)
    BY <2>1, <2>3, CanonicalIsReal
  <2>5. Within(t, d)
    BY <1>2, <1>4, <2>4 DEF Within
  <2>6. QED
    BY <1>3, <2>5 DEF Denied
<1>5. ASSUME r.action \in {"read", "write", "shell"}
      PROVE  \E d \in roots : IsPrefix(realpath(d), spot) \/ Bridged(d, spot)
  <2>1. InsideRoots(t, roots)
    BY <1>5 DEF Compliant
  <2>2. PICK d \in roots : Within(spot, d) \/ Within(spot, Canonical(d)) \/ Bridged(d, spot)
    BY <1>2, <2>1 DEF InsideRoots
  <2>3. d \in Paths
    BY <1>1
  <2>4. CASE Bridged(d, spot)
    BY <2>4
  <2>5. CASE Within(spot, d) \/ Within(spot, Canonical(d))
    <3>1. IsPrefix(realpath(d), spot)
      BY <1>2, <2>3, <2>5, BelowRoot
    <3>2. QED
      BY <3>1
  <2>6. QED
    BY <2>2, <2>4, <2>5
<1>6. QED
  BY <1>4, <1>5

\* Where a request's handler goes: by one of its targets, to paths.
LEMMA SpotsArePlaces ==
  ASSUME TreeOK, NEW r \in Requests, NEW u \in Spots(r)
  PROVE  u.by \in r.targets /\ u.by \in Paths /\ u.at \in Paths
         /\ u \in [by : Paths, at : Paths]
<1>1. PICK t \in r.targets : u \in {[by |-> t, at |-> realpath(p)] : p \in GoesTo(r, t)}
  BY DEF Spots
<1>2. PICK p \in GoesTo(r, t) : u = [by |-> t, at |-> realpath(p)]
  BY <1>1
<1>3. t \in Paths
  BY DecisionAssumption DEF Paths
<1>4. \A n \in Names : Append(t, n) \in Paths
  BY <1>3 DEF Paths
<1>5. p \in Paths
  BY <1>2, <1>3, <1>4 DEF GoesTo, Below
<1>6. realpath(p) \in Paths
  BY <1>5, RealPaths
<1>7. QED
  BY <1>1, <1>2, <1>3, <1>6

\* What lies in a place, or is the place itself: no link leads to it that does not lead to
\* the place, and it is at most one name longer.
LEMMA BelowIs ==
  ASSUME NEW a \in Paths, NEW b \in Below(a)
  PROVE  b \in Paths /\ IsPrefix(a, b) /\ Len(b) \in {Len(a), Len(a) + 1}
<1>1. CASE b = a
  BY <1>1, PrefixByName, LenProperties DEF Paths
<1>2. CASE b # a
  <2>1. PICK n \in Names : b = Append(a, n)
    BY <1>2 DEF Below
  <2>2. b \in Paths /\ Len(b) = Len(a) + 1 /\ \A j \in 1..Len(a) : b[j] = a[j]
    BY <2>1 DEF Paths
  <2>3. Len(a) <= Len(b)
    BY <2>2, LenProperties DEF Paths
  <2>4. QED
    BY <2>2, <2>3, PrefixByName DEF Paths
<1>3. QED
  BY <1>1, <1>2

\* The same of what a target's directory holds: it is where the directory is, and denied
\* only if it is the denied place.
LEMMA CompliantBelow ==
  ASSUME TreeOK, Rooted, Dangling = {}, NEW r \in Requests, Compliant(r),
         NEW t \in r.targets \ r.web, NEW spot \in Below(realpath(t)), Resolved(spot),
         NEW roots, roots = IF r.action = "read" THEN ReadRoots ELSE WriteRoots,
         \A d \in roots : Resolved(realpath(d))
  PROVE  /\ \A d \in DeniedPaths : IsPrefix(realpath(d), spot) =>
              spot # realpath(t) /\ spot = realpath(d)
         /\ r.action \in {"read", "write", "shell"} =>
              \E d \in roots : IsPrefix(realpath(d), spot) \/ Bridged(d, spot)
<1>1. t \in Paths /\ DeniedPaths \subseteq Paths /\ roots \subseteq Paths
  BY DecisionAssumption DEF Paths
<1> DEFINE own == realpath(t)
<1>2. own \in Paths
  BY <1>1, RealPaths
<1> HIDE DEF own
<1>3. spot \in Paths /\ IsPrefix(own, spot) /\ Len(spot) \in {Len(own), Len(own) + 1}
  BY <1>2, BelowIs DEF own
<1>4. Resolved(own)
  <2>1. ASSUME NEW l \in Links, IsPrefix(l, own) PROVE FALSE
    <3>1. IsPrefix(l, spot)
      BY <1>2, <1>3, <2>1, LinkFacts, PrefixTransitive DEF Paths
    <3>2. QED
      BY <1>3, <3>1, UnresolvedIs
  <2>2. QED
    BY <1>2, <2>1, UnresolvedIs
<1>5. /\ \A d \in DeniedPaths : ~IsPrefix(realpath(d), own)
      /\ r.action \in {"read", "write", "shell"} =>
           \E d \in roots : IsPrefix(realpath(d), own) \/ Bridged(d, own)
  BY <1>4, CompliantPlaces DEF own
<1>6. ASSUME NEW d \in DeniedPaths, IsPrefix(realpath(d), spot)
      PROVE  spot # own /\ spot = realpath(d)
  <2>1. realpath(d) \in Paths /\ ~IsPrefix(realpath(d), own)
    BY <1>1, <1>5, RealPaths
  <2>2. Len(realpath(d)) \in Nat /\ Len(own) \in Nat /\ Len(spot) \in Nat
    BY <1>2, <1>3, <2>1, LenProperties DEF Paths
  <2>3. Len(realpath(d)) <= Len(spot)
    BY <1>3, <1>6, <2>1, PrefixByName DEF Paths
  <2>4. ~(Len(realpath(d)) <= Len(own))
    BY <1>2, <1>3, <1>6, <2>1, PrefixesNest DEF Paths
  <2>5. Len(realpath(d)) = Len(spot)
    BY <1>3, <2>2, <2>3, <2>4
  <2>6. realpath(d) = spot
    BY <1>3, <1>6, <2>1, <2>5, PrefixSameLength DEF Paths
  <2>7. QED
    BY <1>6, <2>1, <2>6
<1>7. ASSUME NEW d \in roots, IsPrefix(realpath(d), own) PROVE IsPrefix(realpath(d), spot)
  BY <1>1, <1>2, <1>3, <1>7, RealPaths, PrefixTransitive DEF Paths
<1>8. ASSUME NEW d \in roots, Bridged(d, own) PROVE Bridged(d, spot)
  <2>1. realpath(own) = own /\ realpath(spot) = spot
    BY <1>2, <1>3, <1>4, RealPaths
  <2>2. Canonical(own) = own /\ Canonical(spot) = spot
    BY <1>2, <1>3, <1>4, <2>1, CanonicalIsReal
  <2>3. Within(own, StateDir)
    BY <1>8 DEF Bridged
  <2>4. ASSUME IsPrefix(StateDir, own) PROVE IsPrefix(StateDir, spot)
    BY <1>2, <1>3, <2>4, DecisionAssumption, PrefixTransitive DEF Paths
  <2>5. ASSUME IsPrefix(Canonical(StateDir), own) PROVE IsPrefix(Canonical(StateDir), spot)
    <3>1. Canonical(StateDir) \in Paths
      <4>1. StateDir \in Paths
        BY DecisionAssumption DEF Paths
      <4>2. \A a_, b_ \in Paths : a_ \o b_ \in Paths
        BY ConcatProperties DEF Paths
      <4>3. \A a_ \in Paths : realpath(a_) \in Paths
        BY RealPaths
      <4>4. ASSUME NEW q \in Paths, NEW s \in Paths, Canonical(StateDir) = realpath(q) \o s
            PROVE  Canonical(StateDir) \in Paths
        BY <4>2, <4>3, <4>4
      <4>5. Canonical(StateDir) = StateDir \/ \E q, s \in Paths : Canonical(StateDir) = realpath(q) \o s
        BY <4>1, CanonicalIs
      <4>6. QED
        BY <4>1, <4>4, <4>5
    <3>2. QED
      BY <1>2, <1>3, <2>5, <3>1, PrefixTransitive DEF Paths
  <2>6. Within(spot, StateDir)
    BY <2>2, <2>3, <2>4, <2>5 DEF Within
  <2>7. QED
    BY <1>8, <2>6 DEF Bridged
<1>9. QED
  BY <1>5, <1>6, <1>7, <1>8 DEF own

-----------------------------------------------------------------------------
(* The tree and the request.                                               *)

\* What was granted complies with the policy until the tree changes, and what was reached
\* is where the granted names led.
Granted ==
  /\ asked # NoRequest /\ ~disturbed => Compliant(asked)
  /\ asked = NoRequest => ~disturbed /\ reached = {}
  /\ \A u \in reached : u \in Spots(asked) /\ Resolved(u.at)
DecisionInv == DecisionTypeOK /\ Rooted /\ Granted

LEMMA DecisionStart == DecisionInit => DecisionInv
<1> SUFFICES ASSUME DecisionInit PROVE DecisionInv
  OBVIOUS
<1>1. DecisionTypeOK
  BY DecisionAssumption DEF DecisionInit, DecisionTypeOK, Kinds
<1>2. ASSUME NEW p \in Nodes, NEW q \in Nodes, kind[p] # "none", IsStrictPrefix(q, p)
      PROVE  kind[q] = "dir"
  <2>1. p \in Paths /\ q \in Paths /\ q # <<>>
    BY DecisionAssumption DEF Paths
  <2>2. Len(p) = 1
    BY <1>2 DEF DecisionInit
  <2>3. Len(q) \in Nat /\ Len(q) <= 1 /\ Len(q) # 0
    BY <1>2, <2>1, <2>2, LenProperties, EmptySeq DEF Paths, IsStrictPrefix, IsPrefix
  <2>4. Len(q) = 1
    <3>1. \A n \in Nat : n <= 1 /\ n # 0 => n = 1
      OBVIOUS
    <3>2. QED
      BY <2>3, <3>1, Zenon
  <2>5. QED
    BY <2>4 DEF DecisionInit
<1>3. Granted
  BY DEF DecisionInit, Granted
<1>4. QED
  BY <1>1, <1>2, <1>3 DEF DecisionInv, Rooted

\* What the decision sees of a tree that has not changed.
LEMMA TreeStays ==
  ASSUME UNCHANGED <<kind, link>>
  PROVE  /\ \A p : (Resolved(p)' <=> Resolved(p)) /\ realpath(p)' = realpath(p)
         /\ \A r : Compliant(r)' <=> Compliant(r)
         /\ \A r : Spots(r)' = Spots(r)
<1>1. Links' = Links
  BY DEF Links
<1>2. \A p : Resolved(p)' <=> Resolved(p)
  BY <1>1 DEF Resolved
<1>3. ASSUME NEW p PROVE Way(p)' = Way(p)
  BY DEF Way, Hop, Links
<1>4. \A p : realpath(p)' = realpath(p)
  BY <1>3 DEF realpath
<1>5. \A p : Exists(p)' <=> Exists(p)
  BY <1>4 DEF Exists
<1>6. ASSUME NEW p PROVE Canonical(p)' = Canonical(p)
  <2> DEFINE known == {q \in Prefixes(p) : Exists(q)}
             longest == CHOOSE l \in known : \A m \in known : Len(m) <= Len(l)
  <2>1. known' = known
    BY <1>5
  <2>2. longest' = longest
    BY <2>1
  <2>3. realpath(longest)' = realpath(longest)
    <3> HIDE DEF longest
    <3>1. QED
      BY <1>4, <2>2
  <2>4. Canonical(p) = IF known = {} THEN p
                       ELSE realpath(longest) \o SubSeq(p, Len(longest) + 1, Len(p))
    BY Zenon DEF Canonical
  <2>5. Canonical(p)' = IF known' = {} THEN p
                        ELSE realpath(longest)' \o SubSeq(p, Len(longest') + 1, Len(p))
    BY Zenon DEF Canonical
  <2> HIDE DEF known, longest
  <2>6. QED
    BY <2>1, <2>2, <2>3, <2>4, <2>5
<1>7. \A t, root : Within(t, root)' <=> Within(t, root)
  BY <1>6 DEF Within
<1>8. \A t, root : Bridged(root, t)' <=> Bridged(root, t)
  BY <1>7 DEF Bridged
<1>9. ASSUME NEW t, NEW root PROVE Escapes(t, root)' <=> Escapes(t, root)
  BY <1>1, <1>4, <1>5, <1>6, <1>7, <1>8 DEF Escapes
<1>10. ASSUME NEW t PROVE Denied(t)' <=> Denied(t)
  BY <1>6, <1>7 DEF Denied
<1>11. ASSUME NEW t, NEW roots PROVE InsideRoots(t, roots)' <=> InsideRoots(t, roots)
  BY <1>6, <1>7, <1>8, <1>9 DEF InsideRoots
<1>12. ASSUME NEW r PROVE Compliant(r)' <=> Compliant(r)
  BY <1>10, <1>11 DEF Compliant
<1>13. \A r, t : GoesTo(r, t)' = GoesTo(r, t)
  BY <1>4 DEF GoesTo, IsFile, Below
<1>14. ASSUME NEW r PROVE Spots(r)' = Spots(r)
  BY <1>4, <1>13 DEF Spots
<1>15. QED
  BY <1>2, <1>4, <1>12, <1>14

LEMMA DecisionStep ==
  ASSUME DecisionInv, [DecisionNext]_decisionVars
  PROVE  DecisionInv'
<1>1. CASE UNCHANGED decisionVars
  <2>1. UNCHANGED <<kind, link, asked, disturbed, reached>>
    BY <1>1 DEF decisionVars
  <2>2. Granted'
    BY <2>1, TreeStays DEF DecisionInv, Granted
  <2>3. QED
    BY <2>1, <2>2 DEF DecisionInv, DecisionTypeOK, Rooted
<1>2. ASSUME NEW p \in Nodes, NEW k \in Kinds, NEW to \in Nodes \cup {<<>>}, Change(p, k, to)
      PROVE  DecisionInv'
  <2>1. reached = {} /\ reached' = {} /\ asked' = asked /\ disturbed' = (asked # NoRequest)
    BY <1>2 DEF Change
  <2>2. /\ kind' = [q \in Nodes |-> IF q = p THEN k ELSE IF IsPrefix(p, q) THEN "none" ELSE kind[q]]
        /\ link' = [q \in Nodes |-> IF q = p THEN to ELSE IF IsPrefix(p, q) THEN <<>> ELSE link[q]]
        /\ (k = "link") = (to # <<>>) /\ (Len(p) > 1 => kind[Front(p)] = "dir")
    BY <1>2 DEF Change
  <2>3. DecisionTypeOK'
    <3>1. kind' \in [Nodes -> Kinds] /\ link' \in [Nodes -> Nodes \cup {<<>>}]
      BY <2>2 DEF DecisionInv, DecisionTypeOK, Kinds
    <3>2. \A q \in Nodes : (kind'[q] = "link") = (link'[q] # <<>>)
      BY <2>2 DEF DecisionInv, DecisionTypeOK
    <3>3. QED
      BY <2>1, <3>1, <3>2 DEF DecisionInv, DecisionTypeOK
  <2>4. Rooted'
    <3> SUFFICES ASSUME NEW a \in Nodes, NEW b \in Nodes, kind'[a] # "none", IsStrictPrefix(b, a)
                 PROVE  kind'[b] = "dir"
      BY DEF Rooted
    <3>1. a \in Paths /\ b \in Paths /\ p \in Paths /\ b # <<>> /\ p # <<>>
      BY DecisionAssumption DEF Paths
    <3>2. IsPrefix(b, a) /\ b # a
      BY DEF IsStrictPrefix
    <3>3. CASE a = p
      <4>1. ~IsPrefix(p, b)
        BY <3>1, <3>2, <3>3, PrefixByName, PrefixSameLength, LenProperties DEF Paths
      <4>2. kind'[b] = kind[b]
        BY <2>2, <3>2, <3>3, <4>1
      <4>3. Len(b) \in Nat /\ Len(p) \in Nat /\ Len(b) < Len(p) /\ Len(b) # 0
        <5>1. Len(b) <= Len(p) /\ Len(b) \in Nat /\ Len(p) \in Nat
          BY <3>1, <3>2, <3>3, LenProperties DEF Paths, IsPrefix
        <5>2. Len(b) # Len(p)
          BY <3>1, <3>2, <3>3, PrefixSameLength DEF Paths
        <5>3. Len(b) # 0
          BY <3>1, EmptySeq DEF Paths
        <5>4. QED
          BY <5>1, <5>2, <5>3
      <4>4. Front(p) = SubSeq(p, 1, Len(p) - 1) /\ Len(p) - 1 \in 0..Len(p)
        BY <4>3 DEF Front
      <4>5. Front(p) \in Paths /\ Len(Front(p)) = Len(p) - 1 /\ IsPrefix(Front(p), p)
        <5>1. /\ Front(p) \in Paths /\ Len(Front(p)) = Len(p) - 1
              /\ \A j \in 1..(Len(p) - 1) : Front(p)[j] = p[j]
          BY <3>1, <4>4, CutPath DEF Paths
        <5>2. Len(Front(p)) <= Len(p)
          BY <4>3, <5>1
        <5>3. IsPrefix(Front(p), p)
          BY <3>1, <5>1, <5>2, PrefixByName DEF Paths
        <5>4. QED
          BY <5>1, <5>3
      <4>6. Front(p) \in Nodes
        <5>1. Front(p) \in Prefixes(p) /\ Front(p) # <<>>
          BY <3>1, <4>3, <4>5, PrefixesAre, EmptySeq DEF Paths
        <5>2. QED
          BY <5>1, DecisionAssumption
      <4>7. kind[Front(p)] = "dir"
        BY <2>2, <4>3
      <4>8. IsPrefix(b, Front(p))
        <5>1. Len(b) <= Len(Front(p))
          BY <4>3, <4>5
        <5>2. QED
          BY <3>1, <3>2, <3>3, <4>5, <5>1, PrefixesNest DEF Paths
      <4>9. kind[b] = "dir"
        BY <4>6, <4>7, <4>8 DEF DecisionInv, Rooted, IsStrictPrefix
      <4>10. QED
        BY <4>2, <4>9
    <3>4. CASE a # p
      <4>1. ~IsPrefix(p, a) /\ kind'[a] = kind[a]
        BY <2>2, <3>4
      <4>2. ~IsPrefix(p, b)
        BY <3>1, <3>2, <4>1, PrefixTransitive DEF Paths
      <4>3. b # p
        BY <3>2, <4>1
      <4>4. kind'[b] = kind[b]
        BY <2>2, <4>2, <4>3
      <4>5. QED
        BY <4>1, <4>4 DEF DecisionInv, Rooted
    <3>5. QED
      BY <3>3, <3>4
  <2>5. Granted'
    BY <2>1 DEF DecisionInv, Granted
  <2>6. QED
    BY <2>3, <2>4, <2>5 DEF DecisionInv
<1>3. ASSUME NEW r \in Requests, Decide(r) PROVE DecisionInv'
  <2>1. /\ asked = NoRequest /\ Compliant(r) /\ asked' = r
        /\ UNCHANGED <<kind, link, disturbed, reached>>
    BY <1>3 DEF Decide
  <2>2. Compliant(r)' /\ r # NoRequest
    BY <2>1, TreeStays, DecisionAssumption
  <2>3. Granted'
    BY <2>1, <2>2 DEF DecisionInv, Granted
  <2>4. QED
    BY <2>1, <2>3 DEF DecisionInv, DecisionTypeOK, Rooted
<1>4. CASE Use
  <2>1. /\ asked # NoRequest /\ reached = {} /\ UNCHANGED <<kind, link, asked, disturbed>>
        /\ reached' = {u \in Spots(asked) : Resolved(u.at)}
    BY <1>4 DEF Use
  <2>2. TreeOK /\ asked \in Requests
    BY <2>1 DEF DecisionInv, DecisionTypeOK, TreeOK
  <2>3. reached' \subseteq [by : Seq(Names), at : Seq(Names)]
    BY <2>1, <2>2, SpotsArePlaces DEF Paths
  <2>4. Granted'
    BY <2>1, TreeStays DEF DecisionInv, Granted
  <2>5. QED
    BY <2>1, <2>3, <2>4 DEF DecisionInv, DecisionTypeOK, Rooted
<1>5. QED
  BY <1>1, <1>2, <1>3, <1>4 DEF DecisionNext

LEMMA DecisionGrants == DecisionInv => GrantedPlacesOnly
<1> SUFFICES ASSUME DecisionInv PROVE GrantedPlacesOnly
  OBVIOUS
<1> DEFINE roots == IF asked.action = "read" THEN ReadRoots ELSE WriteRoots
<1>1. SUFFICES ASSUME NEW u \in reached, Settled(roots), u.by \notin asked.web,
                      u.at \in Below(realpath(u.by))
               PROVE  /\ \A d \in DeniedPaths : IsPrefix(realpath(d), u.at) =>
                           u.at # realpath(u.by) /\ u.at = realpath(d)
                      /\ asked.action \in {"read", "write", "shell"} =>
                           \E r \in roots : IsPrefix(realpath(r), u.at) \/ Bridged(r, u.at)
  BY DEF GrantedPlacesOnly
<1>2. ~disturbed /\ Dangling = {} /\ \A r \in roots : Resolved(realpath(r))
  BY <1>1 DEF Settled
<1>3. TreeOK /\ Rooted /\ asked \in Requests /\ Compliant(asked)
  BY <1>1, <1>2 DEF DecisionInv, DecisionTypeOK, TreeOK, Granted
<1>4. u \in Spots(asked) /\ Resolved(u.at)
  BY <1>1 DEF DecisionInv, Granted
<1>5. u.by \in asked.targets \ asked.web
  BY <1>1, <1>3, <1>4, SpotsArePlaces
<1> HIDE DEF roots
<1>6. QED
  BY <1>1, <1>2, <1>3, <1>4, <1>5, CompliantBelow DEF roots

\* The tree stays a tree of links and files, and what is reached are paths.
THEOREM DecisionTypeCorrect == DecisionSpec => []DecisionTypeOK
<1>1. DecisionInv => DecisionTypeOK
  BY DEF DecisionInv
<1>2. QED
  BY <1>1, DecisionStart, DecisionStep, PTL DEF DecisionSpec

\* What a granted step reaches at a target the decision looks at, or in its directory, lies
\* inside its roots and outside of what is denied, for any tree, links, roots and requests.
THEOREM GrantedPlacesOnlyHolds == DecisionSpec => []GrantedPlacesOnly
BY DecisionStart, DecisionStep, DecisionGrants, PTL DEF DecisionSpec

-----------------------------------------------------------------------------
(* The steps' parts together                                               *)

stepsVars == <<scene, vars, decisionVars, fetchVars, handlerVars>>

LEMMA StepsSafety == StepsSpec => StepsInit /\ [][StepsNext]_stepsVars
BY PTL DEF StepsSpec, stepsVars

LEMMA StepsStart == StepsInit => Init /\ DecisionInit /\ FetchInit /\ HandlersInit
BY DEF StepsInit

\* A step of the composition is a step of one part, and leaves the others alone.
LEMMA StepsStep ==
  ASSUME [StepsNext]_stepsVars
  PROVE  /\ [Next]_vars /\ [DecisionNext]_decisionVars
         /\ [FetchNext]_fetchVars /\ [HandlersNext]_handlerVars
BY DEF StepsNext, stepsVars

\* All of it holds in the composition of engine, decision, fetches and handlers.
THEOREM StepsKept ==
  StepsSpec => /\ [](ApprovalSpentOnce /\ LoopTrapHolds /\ LogMatchesSteps /\ StatusTruthful)
               /\ [](GrantedPlacesOnly /\ ConnectionsApproved /\ HandlersDurable)
               /\ ApprovalAdvances
<1>1. Init /\ [][Next]_vars =>
        [](ApprovalSpentOnce /\ LoopTrapHolds /\ LogMatchesSteps /\ StatusTruthful)
  BY GatesKept, LoopsTrapped, LogKept, StatusKept, PTL DEF Spec
<1>2. Init /\ [][Next]_vars => ApprovalAdvances
  BY ResumesAdvance DEF Spec
<1>3. FetchInit /\ [][FetchNext]_fetchVars => []ConnectionsApproved
  BY ConnectionsStayApproved DEF FetchSpec
<1>4. HandlersInit /\ [][HandlersNext]_handlerVars => []HandlersDurable
  BY HandlersStayDurable DEF HandlersSpec
<1>5. DecisionInit /\ [][DecisionNext]_decisionVars => []GrantedPlacesOnly
  BY GrantedPlacesOnlyHolds DEF DecisionSpec
<1>6. QED
  BY <1>1, <1>2, <1>3, <1>4, <1>5, StepsStart, StepsStep, StepsSafety, PTL
=============================================================================
