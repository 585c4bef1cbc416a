--------------------------- MODULE ActionHandlers ---------------------------
(* The workflow engine's own action handlers (config/declarative-orchestrator   *)
(* .mjs, registerCanonicalAdapters), started by several engines that share a     *)
(* workspace. A handler is synchronous in its process, but its file calls        *)
(* interleave with those of the others, fail and are cut off by a crash.         *)
(*                                                                               *)
(* The workspace is a source file, which patches change, and a record, which the *)
(* reports and ledgers overwrite. A unified diff is made from one content and    *)
(* yields another; its context lines tell whether the file has that content.     *)
EXTENDS Integers, FiniteSets

CONSTANTS
  Engines, Contents,
  Parses,        \* the contents that pass the syntax check of the file's type
  Diffs,         \* [from, to]: the diffs that may be submitted
  Missing,       \* no file
  Ragged,        \* a file cut short, or two writes mixed
  MaxMishaps     \* failing file calls and crashes

ASSUME HandlersAssumption ==
  /\ Parses \subseteq Contents /\ Diffs \subseteq [from : Contents, to : Contents]
  /\ Missing \notin Contents /\ Ragged \notin Contents \cup {Missing}
  /\ MaxMishaps \in Nat

\* source, record: the two files; job: the handler under way; candidate: what it is to
\* write; stage: how far; temp: the sibling file of a patch; answer: what the step got from
\* its handler; put: the engines whose patch was renamed into place; spoilt: a write of
\* the record was cut off or overlapped another.
VARIABLES source, record, job, candidate, stage, temp, answer, put, spoilt, mishaps
handlerVars == <<source, record, job, candidate, stage, temp, answer, put, spoilt, mishaps>>

Patches == [content : Contents] \cup Diffs \cup {<<>>}
Jobs == {"idle", "patch", "write_report", "contain_threat", "escalate_to_soc"}
Stages == {"idle", "verify", "inspect", "write", "rename", "clean", "littered", "open", "fill",
           "dead"}

HandlersTypeOK ==
  /\ source \in Contents \cup {Missing} /\ record \in Contents \cup {Missing, Ragged}
  /\ job \in [Engines -> Jobs] /\ stage \in [Engines -> Stages]
  /\ temp \in [Engines -> Contents \cup {Missing, Ragged}]
  /\ answer \in [Engines -> {"none", "success", "failed", "thrown"}]
  /\ candidate \in [Engines -> Contents \cup {Missing}] /\ put \subseteq Engines
  /\ spoilt \in BOOLEAN /\ mishaps \in 0..MaxMishaps

HandlersInit ==
  /\ source \in Parses \cup {Missing} /\ record = Missing
  /\ job = [e \in Engines |-> "idle"] /\ stage = [e \in Engines |-> "idle"]
  /\ temp = [e \in Engines |-> Missing] /\ answer = [e \in Engines |-> "none"]
  /\ candidate = [e \in Engines |-> Missing] /\ put = {} /\ spoilt = FALSE /\ mishaps = 0

Enter(e, p) == stage' = [stage EXCEPT ![e] = p]
Return(e, a) == answer' = [answer EXCEPT ![e] = a] /\ Enter(e, "idle")
Mishap == mishaps < MaxMishaps /\ mishaps' = mishaps + 1
files == <<source, record>>

-----------------------------------------------------------------------------
(* Patches.                                                                      *)

\* What applying the patch to this content gives, if it applies; <<>> is neither patch nor
\* content.
Yields(patch, content) ==
  CASE patch \in Diffs -> IF content = patch.from THEN {patch.to} ELSE {}
    [] patch = <<>> -> {}
    [] OTHER -> {patch.content}

apply_fix_or_patch(e, patch) ==
  /\ stage[e] = "idle" /\ answer[e] = "none"
  /\ job' = [job EXCEPT ![e] = "patch"]
  /\ IF Yields(patch, source) = {}
       THEN Return(e, "failed") /\ UNCHANGED candidate
       ELSE /\ \E c \in Yields(patch, source) : candidate' = [candidate EXCEPT ![e] = c]
            /\ Enter(e, "verify") /\ UNCHANGED answer
  /\ UNCHANGED <<files, temp, put, spoilt, mishaps>>

\* The candidate's syntax is checked before anything is written.
AcceptedUnparsed(c) == c \in Contents
Accepted(c) == c \in Parses
VerifySyntax(e) ==
  /\ stage[e] = "verify"
  /\ IF Accepted(candidate[e]) THEN Enter(e, "inspect") /\ UNCHANGED answer
                               ELSE Return(e, "failed")
  /\ UNCHANGED <<files, job, candidate, temp, put, spoilt, mishaps>>

\* A symbolic link or anything but a regular file is refused; an absent one is not.
InspectTarget(e) ==
  /\ stage[e] = "inspect"
  /\ \/ Enter(e, "write") /\ UNCHANGED answer
     \/ source # Missing /\ Return(e, "failed")
  /\ UNCHANGED <<files, job, candidate, temp, put, spoilt, mishaps>>

WriteTemp(e) ==
  /\ stage[e] = "write"
  /\ \/ /\ temp' = [temp EXCEPT ![e] = candidate[e]] /\ Enter(e, "rename")
        /\ UNCHANGED <<answer, mishaps>>
     \/ /\ Mishap /\ temp' \in {[temp EXCEPT ![e] = Ragged], temp}
        /\ answer' = [answer EXCEPT ![e] = "failed"] /\ Enter(e, "clean")
  /\ UNCHANGED <<files, job, candidate, put, spoilt>>

RenameTemp(e) ==
  /\ stage[e] = "rename"
  /\ \/ /\ source' = temp[e] /\ temp' = [temp EXCEPT ![e] = Missing]
        /\ put' = put \cup {e}
        /\ answer' = [answer EXCEPT ![e] = "success"] /\ UNCHANGED mishaps
     \/ /\ Mishap /\ answer' = [answer EXCEPT ![e] = "failed"]
        /\ UNCHANGED <<source, temp, put>>
  /\ Enter(e, "clean")
  /\ UNCHANGED <<record, job, candidate, spoilt>>

\* finally: what is left of the temporary file goes, unless its removal fails, which
\* nobody hears of.
LeftBehind(e) == temp
Cleaned(e) == [temp EXCEPT ![e] = Missing]
DropTemp(e) ==
  /\ stage[e] = "clean"
  /\ \/ temp' = Cleaned(e) /\ Enter(e, "idle") /\ UNCHANGED mishaps
     \/ temp[e] # Missing /\ Mishap /\ Enter(e, "littered") /\ UNCHANGED temp
  /\ UNCHANGED <<files, job, candidate, answer, put, spoilt>>

-----------------------------------------------------------------------------
(* Reports and ledgers: written in place, whoever else writes them.              *)

BeginRecord(e, kind) ==
  /\ stage[e] = "idle" /\ answer[e] = "none" /\ Enter(e, "open")
  /\ job' = [job EXCEPT ![e] = kind]
  /\ \E c \in Contents : candidate' = [candidate EXCEPT ![e] = c]
  /\ UNCHANGED <<files, temp, answer, put, spoilt, mishaps>>
write_report(e) == BeginRecord(e, "write_report")
contain_threat(e) == BeginRecord(e, "contain_threat")
escalate_to_soc(e) == BeginRecord(e, "escalate_to_soc")

\* writeFileSync empties the file, then fills it. Only escalate_to_soc catches.
Filling == {x \in Engines : stage[x] = "fill"}
FailsWith(e) == IF job[e] = "escalate_to_soc" THEN "failed" ELSE "thrown"
OpenRecord(e) ==
  /\ stage[e] = "open"
  /\ \/ /\ record' = Ragged /\ Enter(e, "fill") /\ spoilt' = (Filling # {})
        /\ UNCHANGED <<answer, mishaps>>
     \/ Mishap /\ Return(e, FailsWith(e)) /\ UNCHANGED <<record, spoilt>>
  /\ UNCHANGED <<source, job, candidate, temp, put>>
FillRecord(e) ==
  /\ stage[e] = "fill"
  /\ \/ /\ record' = (IF spoilt THEN Ragged ELSE candidate[e]) /\ Return(e, "success")
        /\ UNCHANGED <<spoilt, mishaps>>
     \/ Mishap /\ spoilt' = TRUE /\ Return(e, FailsWith(e)) /\ UNCHANGED record
  /\ UNCHANGED <<source, job, candidate, temp, put>>

-----------------------------------------------------------------------------
(* Handlers that only look: none of them changes a file.                         *)

Looks(e, a) ==
  /\ stage[e] = "idle" /\ answer[e] = "none" /\ Return(e, a)
  /\ UNCHANGED <<files, job, candidate, temp, put, spoilt, mishaps>>

fetch_sources(e) == Looks(e, IF source = Missing THEN "thrown" ELSE "success")
read_catalog(e) == Looks(e, IF source = Missing THEN "thrown" ELSE "success")
inspect_sqlite(e) == \E valid \in BOOLEAN :
  Looks(e, IF source # Missing /\ valid THEN "success" ELSE "failed")
validate_sdmx_schema(e) ==
  Looks(e, IF source \in Parses THEN "success" ELSE "failed")
forensic_investigation(e) == Looks(e, "success")
inspect_tabular(e) == Looks(e, "success")
run_llm_query(e) == \E a \in {"success", "failed"} : Looks(e, a)
probe_services(e) == \E a \in {"success", "failed"} : Looks(e, a)
verify_endpoint(e) == \E a \in {"success", "failed"} : Looks(e, a)
fetch_sdmx_dataflows(e) == \E a \in {"success", "failed"} : Looks(e, a)
parse_intent(e) == Looks(e, "success")
evaluate_incident(e) == Looks(e, "success")

\* The engine takes the answer and goes on to its next step, whose temporary file will
\* have a name of its own; nothing looks at one that was left behind.
NextStep(e) ==
  /\ stage[e] \in {"idle", "littered"} /\ answer[e] # "none"
  /\ Enter(e, "idle") /\ temp' = [temp EXCEPT ![e] = Missing]
  /\ answer' = [answer EXCEPT ![e] = "none"] /\ job' = [job EXCEPT ![e] = "idle"]
  /\ candidate' = [candidate EXCEPT ![e] = Missing] /\ put' = put \ {e}
  /\ UNCHANGED <<files, spoilt, mishaps>>

Die(e) ==
  /\ stage[e] # "dead" /\ Mishap /\ Enter(e, "dead")
  /\ spoilt' = (spoilt \/ stage[e] = "fill")
  /\ temp' \in {temp, IF stage[e] = "write" THEN [temp EXCEPT ![e] = Ragged] ELSE temp}
  /\ UNCHANGED <<files, job, candidate, answer, put>>

HandlersNext ==
  \/ \E e \in Engines :
       \/ \E patch \in Patches : apply_fix_or_patch(e, patch)
       \/ VerifySyntax(e) \/ InspectTarget(e) \/ WriteTemp(e) \/ RenameTemp(e) \/ DropTemp(e)
       \/ write_report(e) \/ contain_threat(e) \/ escalate_to_soc(e)
       \/ OpenRecord(e) \/ FillRecord(e)
       \/ fetch_sources(e) \/ read_catalog(e) \/ inspect_sqlite(e) \/ validate_sdmx_schema(e)
       \/ forensic_investigation(e) \/ inspect_tabular(e) \/ run_llm_query(e)
       \/ probe_services(e) \/ verify_endpoint(e) \/ fetch_sdmx_dataflows(e)
       \/ parse_intent(e) \/ evaluate_incident(e)
       \/ NextStep(e) \/ Die(e)
HandlersSpec == HandlersInit /\ [][HandlersNext]_handlerVars

-----------------------------------------------------------------------------
\* A patch is all or nothing, whatever fails, dies or overlaps: the source is always one
\* whole content that parses, a patch that failed has put nothing there and one that
\* succeeded did, and an answered patch leaves no temporary file behind, but a failed one
\* whose file could not be removed.
PatchTransactional ==
  /\ source \in Parses \cup {Missing}
  /\ \A e \in Engines :
       /\ stage[e] = "idle" => temp[e] = Missing
       /\ stage[e] = "littered" => answer[e] = "failed"
       /\ answer[e] = "failed" => e \notin put
       /\ answer[e] = "success" /\ job[e] = "patch" => e \in put

\* A ledger or report that nobody is writing is whole, unless a write was cut off or two
\* overlapped; the next write that meets no other repairs it.
RecordsWhole == record = Ragged => spoilt \/ Filling # {}

\* What the handlers leave on disk, taken together.
HandlersDurable == PatchTransactional /\ RecordsWhole

=============================================================================
