# Formal models of DSH-DDS

DSH-DDS runs AI agents under governance: every step of a workflow passes a
policy decision that is recorded before anything happens, dangerous steps wait
for a human's signature, and commands run in a confined executor. This
directory holds TLA+ models of the parts whose correctness depends on the order
of steps of several processes, on crashes and on failing writes, the TLC
configurations that check them, and TLAPS proofs of nearly all of their safety
properties for any values of the constants.

## Running

    tlc -config ResumeChain.cfg MCApprovalResume     # and the other .cfg files
    tlapm ApprovalResume_proofs.tla                  # and the other *_proofs.tla

Each `.cfg` belongs to the `MC...` module of its component (table below).

## The system

| Component | Where | State | Operations | What is hard | What makes it correct |
| --- | --- | --- | --- | --- | --- |
| Approval checkpoints and resume | `config/declarative-orchestrator.mjs` (`resumeWorkflow`, `writeCheckpointAtomically`), `dsh.sh approve` | `<id>.json` and `<id>.resuming.lock` per instance, signed tokens | suspend, approve, resume (lock, validate, claim, release, run, settle) | several processes share the files, stale locks, crashes, late write errors | an approval is consumed once, by the instance it was signed for; a status never goes back; a successor is never lost |
| Workflow engine | same file (`executeWorkflow`, `executeStep`, `authorizeStep`) | step index, context (approval flag, signature ring, data), log | authorize, gate, run, fall back, trap loops, suspend, resume | one approval flag shared by step, fallback and later steps; failures inside failures | one approval opens one gate, its own; loops stay trapped over suspensions; the log and the terminal status tell the truth |
| External audit writer | `config/audit-writer-core.mjs`, `audit-writer.mjs`, `audit-client.mjs` | ledger file, checkpoint file, fields in memory, request queue | append, checkpoint, verify, recover | crash between two appends, failing and partial appends, caller timeouts | a granted decision is durable and checkpointed; chains never fork; crashes are recoverable; the queue never wedges |
| RBAC policy, local audit chain | `config/rbac-policy.mjs` | `audit_grc.jsonl`, its lock, head cache | decide, append, verify | lock expiry, cache staleness, fallback sink | chain intact under concurrent writers |
| Isolated executor | `services/isolated-executor/server.mjs`, `packages/dsh-dds-core/execution-capability.js`, `isolated-shell-executor.js` | nonces, active count, child process | verify capability, execute, abort, time out | races between exit, timeout and abort; restart | a capability is used once in a life of the service; every execution settles once; the count returns |
| Tenant migration | `scripts/lib/tenant_partition_migration.mjs` | partitions, locks, journal | inventory, plan, apply, verify, roll back | crash between renames | applied or rolled back, never half-way without a journal that says so |
| Policy enforcement plugin, executor client | `packages/dsh-dds-core/rbac-interceptor.js`, `isolated-shell-executor.js`, `index.js` | tool calls in flight, their capabilities | decide, audit, issue, post, give up | awaits between decision and use, lost answers, concurrent calls | nothing executes without a recorded grant, and a capability serves its own call |
| BYOK vault | `packages/dsh-dds-core/byok-vault.js` | key file, inherited older file | load, set, delete | failing reads, torn writes | what was set is read, until a write tears or follows a failed read |
| Model catalogue | `packages/dsh-dds-core/model-catalog.js`, `config/sync_models.mjs` | catalogue in memory, cache file, status file | refresh, read, boot script | overlapping refreshes, two writers of one file | nothing older replaces anything newer, reports are true, refreshes end |
| Failover and LLM gateways | `config/failover-gateway.mjs`, `packages/dsh-dds-core/llm-gateway.js`, `gateway.js` | outcomes of a cascade, signature map | call, fail over; capture, evict, reinject | failing providers, a map at its limit | an answer from the first provider that works, a refusal only for a reason; the newest signatures are kept |
| Dynamic governance | `config/dynamic-governance.mjs` | attached servers and tools, registry file | register, unregister, reload, call | swallowed saves, names used again | what was unregistered stays so |
| Quarantine, worktree staging | `config/context-quarantine.mjs`, `config/worktree-staging.mjs` | incident file, git worktrees and branches | record; begin, test, merge, roll back | lost updates, a base branch that moves | no incident lost to the session that recorded it, nothing untested merged |
| Identity, partitions, trust | `packages/dsh-dds-core/iam.js`, `user-partition.js`, `net-trust.js` | operator's map, request context | identify, open | sources that contradict, names folded together | users' directories are apart |
| Outbound security, web search | `config/outbound-security.mjs`, `web-search.js` | a fetch under way | validate, resolve, connect, read | names that change between two lookups, redirects | connections go to approved addresses only |
| Archify: update check | `.agents/skills/archify/scripts/check-update.mjs` | directories of operations, leases | check, acknowledge | no lock, only renames; slow and dying processes | acknowledgements are for good, one holder |
| Archify: delivery, comparison, migration | `.agents/skills/archify/bin/archify.mjs` | staging directories, target files, backups | validate, render, check, publish, restore | edits meanwhile, overlapping runs, failing renames | a file is what its receipt says; a pair is never mixed |
| Archify: live preview | `.agents/skills/archify/bin/preview.mjs` | watched file, child process, timers | observe, build, publish, stop | edits during a build, a child that does not end | what is published fits its source; it settles; it stops |
| Archify: architecture delta | `.agents/skills/archify/delta/architecture-delta.mjs` | receipt, drawing; the page's playback | compare, draw, validate; step, play, pause | one account of a change per phase; a timer pending over a pause | what is compared is what is shown |
| Archify: workflow compiler, shared geometry | `renderers/workflow/workflow-compiler.mjs`, `renderers/shared/geometry.mjs` | layout, routes, feedback | canonicalise, check, lay out, route, ask for room | passes that undo each other, degenerate routes | boxes apart, routes pass the gates, the loop ends |
| Archify: other renderers, brand marks | `renderers/` | | one pass over one document | little | |
| Personas, telemetry, loader, provisioning, doctor | `config/persona.mjs`, `config/telemetry-gateway.mjs`, `config/phoenix-evals.mjs`, `loader*.mjs`, `scripts/`, `config/doctor.mjs` | files they write | one operator's commands, requests handled once | little | |
| Installer | `install_dsh.sh` | staging directory, backup, installed files | collect, check, promote, roll back | a copy fails half-way, a signal removes the staging directory under the script, the run is killed | the new files or the old ones |

How they interact: a step of the workflow engine calls the policy function,
whose decision goes synchronously to the audit writer (or, in development, to
the local chain); a grant that cannot be recorded is an exception. A gate makes
the engine write a checkpoint and stop. `dsh.sh approve`, on the host, signs the
checkpoint's digest; a later process resumes it. Interactive tool calls take the
same policy and audit path through the plugin and carry a capability to the
isolated executor. The archify skill shares nothing with these but the
workspace: its commands are child processes that read a document and publish a
drawing.

## Modules

| Module | Models | Role |
| --- | --- | --- |
| `ApprovalGrant` | what an approval gate promises | abstract specification |
| `ApprovalResume` | `resumeWorkflow` by several processes, file call by file call | implements `ApprovalGrant` |
| `ApprovalResume_proofs` | | TLAPS proofs about `ApprovalResume` |
| `WorkflowEngine` | `executeWorkflow`, `executeStep`, `authorizeStep`, the resume loop | one process, one workflow, all outcomes |
| `WorkflowSteps_proofs` | | TLAPS proofs about `WorkflowEngine`, `PolicyDecision`, `OutboundFetch`, `ActionHandlers` |
| `AuditTrail` | what the audit writer promises | abstract specification |
| `AuditLedger` | the audit writer, its queue and its callers | implements `AuditTrail` |
| `AuditLedger_proofs` | | TLAPS proofs about `AuditLedger` |
| `AuditChainFile` | the local audit chain: lock file, head cache, fallback | several processes, one log and its fallback; each file implements `AuditTrail` |
| `AuditChainFile_proofs` | | TLAPS proofs about `AuditChainFile` |
| `ExecutorService` | the isolated executor's request handler and the supervision of commands | one service, many requests, restarts |
| `ExecutorService_proofs` | | TLAPS proofs about `ExecutorService` |
| `TenantMigration` | apply and rollback of the partition migration | overlapping, failing and dying invocations |
| `ActionHandlers` | the engine's own handlers: patches, records, fetches of other files | several engines in one workspace |
| `PolicyDecision` | `enforceRbacPolicy` on the targets of a step | one decision in a tree whose links change |
| `OutboundFetch` | `secureFetch` | one fetch against names that change |
| `PolicyEnforcement` | the plugin's hook and the executor's client | concurrent tool calls |
| `ByokVault`, `QuarantineLedger`, `McpRegistry`, `ModelCatalog` | stores of the core package and `config/` | files read whole and written whole |
| `WorktreeStaging`, `Installer` | staged work and staged files | what is promoted, what is put back |
| `ModelGateway`, `UserIdentity` | cascade and signature map; identities and directories | |
| `UpdateRegister` | what the update check promises | abstract specification |
| `UpdateClaim` | the update check, rename by rename | implements `UpdateRegister` |
| `Archify_proofs`, `WorkflowCompiler_proofs` | | TLAPS proofs about `UpdateClaim`, `ArtifactDelivery` and `ArchitectureDelta`; about `RouteGeometry`, `WorkflowLayout` and `WorkflowCompiler` |
| `ArtifactDelivery`, `PreviewServer` | `archify deliver`, `compare`, `migrate`; the live preview | commands, files and their author |
| `ArchitectureDelta`, `DeltaReview` | `archify compare` as computation; the review on its page | pure functions; a page with a timer |
| `RouteGeometry`, `WorkflowLayout`, `WorkflowCompiler` | the gates over routes; the compiler's layout; the whole compiler | pure functions and a feedback loop |
| `MCApprovalResume`, `MCWorkflowEngine`, `MCAuditLedger`, `MCAuditChainFile`, `MCExecutorService`, `MCTenantMigration` | | symmetry and small instances for TLC |
| `MCWorkflowSteps`, `MCArchify`, `MCSideParts` | | several parts in one run, as scenes |
| `SideParts_proofs` | | TLAPS proofs about the parts of `MCSideParts` and their composition |

A run of several parts is a disjoint union. A variable `scene`, chosen in the
initial states, says which part runs, and the others stay in one initial state;
parts that a scene combines share no state, so that TLC checks each as a run of
its own would. Where several parts have a promise of the same sort, the run
checks a conjunction whose conjuncts are named in the module they belong to:
`PartitionsSafe`, `StoresTruthful`, `DrawingsSound` and so on.

### ApprovalResume

`ckpt[i]` is the checkpoint file of an instance, reduced to its status and
`successorInstanceId`; `lock[i]` its lock file (who created it, whether the pid
has been written, whether 30 s have passed); `tokens` the instances the operator
has signed for. Each process has a place in `resumeWorkflow` (`pc`), an instance,
a token, and `mem`, the checkpoint it has read. The actions follow the code:

| Action | Code |
| --- | --- |
| `Suspend`, `Approve` | a gate in `executeWorkflow`; `dsh.sh approve` |
| `Start`, `WritePid` | the first `openSync(lockPath, 'wx')` and the write of the pid, which may fail |
| `Judge`, `UnlinkStale`, `Recreate` | the `EEXIST` branch: is the lock stale, unlink it, create it again |
| `Load`, `Refuse`, `Expire`, `Claim` | read and validate; throw; EXPIRED; IN_PROGRESS |
| `Release` | the `finally` block that unlinks the lock |
| `Act`, `Finish`, `Gate`, `Settle` | the approved step, the rest, a later gate, the final write |
| `Crash`, `Age` | a process dies; a lock passes 30 s |

`writeCheckpointAtomically` has three outcomes: replaced, unchanged with an
error, replaced with an error (the directory fsync fails last). A write of the pid
that fails leaves the lock file, empty, to its age. When the successor's checkpoint
cannot be written its identifier is already set, and `finally` records it with the
status FAILED: `SuccessorDurable` says that this is the only way in which a
checkpoint names one that is not there. A process in
`Host` is one that `--force-host-unsafe` runs outside the container's pid
namespace: what `process.kill(pid, 0)` tells it about the others, and them about
it, is arbitrary. Judging a lock (stat, read, kill) is one step: no process
changes a lock file's contents after its creator's single write. Process ids are
not reused. The digest, version, persona and manifest checks can only refuse;
they are one nondeterministic `Refuse`.

`runs` and `stolen` are history: how often the approved step was started, and
whether the lock of a live holder has ever been unlinked as stale. That can
happen in three ways, all reachable in the model: the holder is slower than
30 s, its pid looks dead from another namespace, or two recoveries of one dead
process's lock overlap. Safety is claimed until then; `ResumeTheft.cfg` shows
what happens after the third, without any slowness.

### WorkflowEngine

`wf` is the workflow, chosen initially from `Workflows`; `idx`, `frame`, `place`
and `why` say where the engine is: in which step, whether in the step itself or
in its fallback, before authorization, before the loop trap or in the handler,
and how the step itself failed. The context is the approval flag, the ring of
signatures and the conditions that hold. A step has an action, a gate setting
(`approval_required`/`approval` set, cleared or unset), a condition, a fallback
and the fallback's gate setting. `Deny` covers unknown actions, policy
violations, missing handlers and a grant the audit writer did not take: all are
exceptions from `authorizeStep` or right behind it. Handlers succeed with an
arbitrary effect on the conditions, return a failure, or throw. The policy is a
set of permitted actions; `options.context` of a resume may change which
conditions hold. Crashes are left to `ApprovalResume`.

### AuditLedger

`audit` and `chk` are the two files, sequences of lines and a flag for a torn
last line; `mem` the writer's fields; `queue` the promise chain of the handler;
`status` what each caller was told. `append` takes three steps (`Check` or
`Reverify`, `AppendEntry`, `AppendCheckpoint`), between which the container may
go down. An append to a file may fail before it writes, in the middle of the
line, or after it (fsync). A caller may time out at any time, its operation
stays queued. Only process crashes are modelled: what a completed `write` has
put in the file survives.

### AuditChainFile

What `logGrcAuditEvent` does without an external writer. `file[s]` is a sink: its
lines, whether the last one has its newline, and its size, which stands for the
size and times that `auditChainHeadCache` compares. `lock[s]`, `old[s]` are its
lock file and whether that is older than 30 s; `cache[p]` what a process
remembers; `pc`, `sink`, `event`, `head`, `outcome` the call it is in. `Acquire`,
`GiveUp`, `SeeOld`, `Unlink` and `Unlock` are `withAuditFileLock` (stat and unlink
of an old lock are two steps); `ReadHead` is `readAuditChainHead`; `AppendEntry`
and `Remember` are the rest of `appendChainedAuditEntry`; `Failed` decides
between the fallback and a refusal. Every file operation may fail, an append at
four places: before, in the middle of, one byte before the end of and after the
line. Entries from before the chain existed and changes of key are left out.

`stolen` and `joined` are history: whether a live holder's lock was unlinked, and
whether an entry was put behind a line that lacks only its newline. The lock is
not asked whose it is, so that the chain may fork after the first; after the
second a whole entry and the next are one line that is not JSON. The properties
are claimed until then.

`ImplementsTrails` is the refinement of `AuditTrail`, for either file: the log is
what verifies of the file (`LogIn`), the granted decisions those that are not in the
other file's log (`GrantedIn`). An entry may be in both, when it was written to the
first before its append failed, so that there is no one log in which each decision
appears once. No run lists the refinement, which takes the state space of
`AuditChain.cfg` (831,410 states) without error when it is added there as a
`PROPERTY`, and fails on it when a head is remembered for a file that has changed
(`RememberedBlindly`); it is proved.

### ExecutorService

An action is what one event of the service's Node loop does up to the next
`await`. `stage[r]` says where the handler of a request is (new, awaiting the
body, awaiting the command, done), `active` is the counter of slots, `used` the
nonces. `child[r]` is the command with all processes that hold its pipes,
`sent[r]` the strongest signal it got, `timer[r]` the time-out or the SIGKILL
that follows it, `notes[r]` the flags `timedOut`, `aborted` and
`outputLimitHit`.

| Action | Code |
| --- | --- |
| `Arrive` | 429, or take a slot |
| `BodyFails`, `Refused`, `Spawn` | `readJson` rejects; `authorizeExecutionRequest` or a later check refuses; the command is spawned |
| `Timeout`, `KillLate` | SIGTERM at the time-out, SIGKILL a second later |
| `OutputLimit`, `Abort` | SIGKILL at twice the output cap; when the client's socket ends or closes |
| `Close` | the child's `close` or `error` event, the answer, `finally` |
| `Exit`, `Tick`, `Restart` | the command, the clock, the container |

A capability is its nonce and expiry; signature, identity and workspace checks
can only refuse. Its token may be presented by any number of requests. The clock
does not run backwards; process ids are not reused, so that a SIGKILL that comes
after the answer finds nobody. A restart forgets the nonces, as the code does:
`SingleUse` is a promise between restarts. The compose file allows one command
at a time; `createExecutorServer` takes the limit as a parameter, and so does the
model.

### TenantMigration

`source` and `destination` are the resources (partitions of either root) that
exist under the old and new name, `backup` their copies (none, partial, whole),
`journal` the journal's status, `lock` the lock files, which are taken in one
fixed order and therefore act as one. `pc[p]` is where an invocation is, `todo`
and `moved` its lists. `CheckApply` and `CheckRollback` are everything that is
validated before `acquireLocks`; then there is one action per file operation:
`OpenJournal`, `Copy`, `Rename`, `Note`, `Complete`, `Verify`, `Undo`, `Fail` for
apply and `Reopen`, `Restore`, `NoteRestored`, `End`, `VerifyRestored`,
`FailRollback` for rollback, and `ReleaseLocks`. Any of them may fail
(`Fault`) or be the last (`Crash`). The first write of the journal stands outside
the `try` block: if it throws, the locks stay. `Dead` owns lock files whose
invocation is gone; only the operator removes them (`ClearLocks`).

DSH is stopped meanwhile, as the guide demands, so that partitions are moved but
not changed; all the checks of one invocation happen at one instant. `fresh` and
`stale` are history: whether an apply has run although somebody else held the
locks during or after its checks. `JournalTruthful` and `RollbackCompletes` are
claimed until then; `NothingLost` always.

### ActionHandlers

What the adapters that `registerCanonicalAdapters` installs do to files. The
workspace is a source file, which patches change, and a record, which reports and
ledgers overwrite. A patch goes through `VerifySyntax`, `InspectTarget`,
`WriteTemp`, `RenameTemp` and the `finally` that removes the temporary file
(`DropTemp`), or fails to and says nothing: the stage `littered`. A record is emptied and filled in place (`OpenRecord`,
`FillRecord`); the other handlers only look, and have an action each because
their answers differ. Two engines that patch one file at once may lose one of
the patches, as the code does not compare before the rename; `PatchTransactional`
is about each patch being whole, not about both surviving; a temporary file may stay
only of a patch that failed.

### PolicyDecision

A tree of directories, files and links that others change, and one request
against it. `Compliant` is `enforceRbacPolicy` with its refusals in their order,
`Canonical` the ancestor `realpath`, `Escapes` the walk over the links below a
root, `Bridged` the two names of the state directory. `Way` follows the links of a
path one by one and gives up after `MaxHops` of them, as the system does (ELOOP);
`realpath` is where it ends. A request has its targets, and says which of them are
spelled as web addresses (`web`): the decision passes those over, whatever the action,
and a file handler makes a path of them. `Use` goes by the names that were granted;
at a target that is a directory, or nothing yet, the handlers go on to what is in it
(`GoesTo`), links included, as `forensic_investigation` and the handlers that put a
ledger there do. `reached` has each place with the target it was reached by.

`GrantedPlacesOnly` is claimed unless the tree changed between decision and use, which
the code cannot exclude, a link led nowhere, which `existsSync` takes for a missing
file, or a root of the policy did; and it is not claimed of what the decision does not
look at: targets spelled as web addresses, the ends of links inside a granted
directory, and denials of single entries in it.

### OutboundFetch

`secureFetch` hop by hop: allow-list, both lookups, the pinned connection, the
answer or the redirect, and the body in pieces with its limit. The records of a
name may give any addresses at any lookup. A URL is its host; what else may be
wrong with one (protocol, credentials, port) is in `Unsuitable`.

### PolicyEnforcement

`call[c]` is how far a tool call is in the plugin's hook: new, allowed, sent,
running, answered, denied. `Grant` and `AuditFails` stand behind the awaited audit
entry, `Post` and `ClientRefuses` are the executor's client, `ExecutorAccepts`,
`ExecutorRefuses`, `Result` and `ConnectionLost` what the service does as the
client sees it; `nonces` is all that is kept of `ExecutorService`. A call may be
aborted and a capability may expire at any time, and a client may post again. A restart
of the executor (`RestartExecutor`) cuts the commands that run and forgets the nonces.
`forgotten` is history: how often a call's nonce was forgotten while its capability was
good. A second command under one grant takes such a restart, and `EveryRunGranted`
allows one more for each.

### ByokVault, QuarantineLedger, McpRegistry, ModelCatalog

Four stores that are read whole and written whole. `ByokVault` has the file of
the user's partition, an older one that is read until the first save, and writes
that tear. What `loadVault` returns may be what is stored, the older vault when
`existsSync` fails, or an empty one when the read or the parse does; `blind` is
history, namely that a change was saved on less than what was stored. `QuarantineLedger` has sessions that each remember the list they read
when they started and write all of it back: the lost update is in the code, and
`IncidentsKept` says that it is the only way, beside a swallowed error, in which
an incident leaves the file. `McpRegistry` has the maps of servers, tools and
handlers, a registry file whose saves may be swallowed, and restarts. The maps have one
key per action name, which is put together from server and tool, so that two pairs
may share it (`ActionOf`); the improper server of the configuration is one whose name
has a colon, which `registerServer` refuses and `registerTool` does not.
`ModelCatalog` numbers refreshes: `flight[f]` is a call of `syncModels` under way,
`script` the boot script, which writes the same file; the service never reads it.

### WorktreeStaging, Installer

A tree is the sequence of the tasks whose work is in it, `head` the base branch.
A task goes through `begin`, `Work`, `Test`, `CommitStage`, `Merge` and
`cleanup`, any of which may fail, while other tasks merge and the user commits by
hand. A run without a test command counts as tested, as in the code, and what the
tests write is committed with the rest.

`Installer` is `install_dsh.sh` from the staging directory on: a run collects
files (`fetch_or_copy_file`), checks the required ones (`verify_staged`), copies the
installation aside (`Put_aside`), changes into the staging directory (`Enter_stage`),
copies its files over the installation one by one, and copies back when that fails. A
signal runs the trap, which removes the staging directory, and the script goes on
(`Interrupted`), at any of these points before the copying; during it, the signal
reaches a subshell without the trap and is a copy that fails. `dir` says what has
become of the directory: there, removed during the fetch, which makes it anew, or cut
off behind the check. In that last case nothing is promoted, or, since the failing `cd` is
an operand of `||` and ends nothing, the files of the directory in which the script was
called. `asideWhole` is history: the copy aside tolerates errors (`|| true`), so does
the copy back, and what they lost cannot come back.

### ModelGateway, UserIdentity

`ModelGateway` is the cascade of `executeWithFailover`, one await per provider
(`Attempt`, `GiveUp`), and the map of tool-call signatures, in insertion order
(`Capture`, `Reinjected`). To capture a known identifier again does not refresh
its place, and at the limit the oldest entry goes even if the identifier is in the
map; `SignaturesKept` therefore counts from the moment an identifier entered it.

`UserIdentity` is `extractUserFromHeaders` in its three modes (tokens, a trusted
proxy, no authentication), the request's context, the constructor that accepts or
refuses an operator's map of older directory names, and `validatePathAccess` on
every place that a request may name. Digests tell apart what they digest. With
authentication off, headers of an untrusted peer fall back to the default
operator, as the tests say. Paths of administrators are not looked at, so that
`TenantsApart` is about all others.

### UpdateClaim and UpdateRegister

Processes share a directory and no lock. An operation has a generation `g`; `op[g]`
is what its directory is named (reserved, pending, committed, fenced, cancelled; a
pending one whose owner file is 30 s old is `stale`), `saved[g]` its state file,
`active` the generation the claim names. The actions are the renames, reads and
checks in the code's order, from `Acquire` and `Reserve` over `Contend`, `Promote`,
`Confirm` and `Fence` to `Store`. Between any two of them a process may be slower
than its lease (`Expire`), the validity of a check may pass (`Elapse`), and a
process may lose its operation to another (`Lose`), give up on an error (`GiveUp`)
or die (`Crash`). `readState` passes over a state file that it cannot read and takes
that of an earlier generation, or none (`Readings`); `missed` are the processes that are
working from such a base, and `lapsed` is history: that one of them has committed.
Otherwise the layer of guarded file operations below (lines 260 to 652) is "the call
ends with an error". `ImplementsRegister` maps the newest committed state to the
register: all of this behaves as one register that a check or an acknowledgement
changes at once, from its latest value or, when that could not be read, from one it
had before. `AnswersKept` is claimed until then.

### ArtifactDelivery, PreviewServer

`target` is what each published file holds, by whom and of which version of the
specification; `phase[c]` where a command is. `Take` reads the specification,
`Frozen` and `ConfirmSource` are the checks that it is still what was read;
`Rename`, `BackUp`, `PutInPlace`, `TakeBack`, `PutBack` are single renames that may
fail. After a failed restore the `finally` still removes the staging directory with
the backups in it; `broken` remembers such a command, which has reported it.
A comparison freezes the two inputs when it has read them and validates the
author's files after that.

`PreviewServer` is one Node process: `observeSource`, the debounce timer,
`beginBuild` and `launch`, the child's end, `stop` and `forceStop` with the timers
that escalate. `stuck` is a child that nobody has told to end and that does not.

### ArchitectureDelta, DeltaReview

`archify compare` is a computation: a receipt of what changed (identities,
canonical forms, field groups, proof level), a drawing built from both documents
(annotated items, phantoms of removed ones, symbols), and the validation of the
page, which derives from the receipt once more what every change must look like.
A diagram's items are functions from the fields they have; a drawing is a set of
tags. `Compare`, `Build` and `Validate` are the stages; `ComparedIsShown` says that
the second account never refuses the first. A component's `brand` and the
document's `locale` are in the digest but in no reported group; `elementById` finds
the phantom first, so that the symbol of a changed relationship or boundary stands
where the older document had it.

`DeltaReview` is the script of that page: rows, the selection and what it marks,
playback with its token and timer, tabs, keys, focus, visibility and reduced motion.
Something else may alter the page at any time (`Disturb`). To press Pause while the
focus is elsewhere fires `focusin` first, which stops the playback; the click then
starts it again from the first change.

### RouteGeometry, WorkflowLayout, WorkflowCompiler

`RouteGeometry` has the gates over finished routes (through a node, crossing,
corridor, frame, rhythm, label) and two helpers that place automatic ones. Each is
compared with a definition of another kind: distances and overlaps counted pixel
by pixel, crossings of the normalised routes. Without merging, a waypoint that is
repeated hides a proper crossing at it.

`WorkflowLayout` is `createReadableLayout`: the distances that nodes, labels,
groups and phases ask for, the pass that solves them, the shifts for headings, the
first rank and the contents, lanes and boxes. `WorkflowCompiler` puts around it the
canonical order, the contract on the graph, the candidate routes with their costs
and feasibility, the search for an outer channel, and the loop that asks for room
and lays out again. `LayOut` lets any edge be stuck, which exercises every request
that the loop can make; `Compile` routes for real. In the code a request is never
repeated, so that its "no progress" error is unreachable, but more than three
requests fail as "solver-budget-exhausted" though each makes progress. Coordinates
are whole pixels (half pixels are rounded down, the channel is searched to the
pixel and not to a thousandth). Sorting is stated by rank: the item at place `k` is
the one with `k - 1` before it, by the keys that `canonicalReadableWorkflow` compares.
Documents have edges whose role is return or error, lanes for exceptions with their
inner frame, and edges pinned to a column or to a row, as far as the layout asks.
The search of the contract keeps a set of pending nodes where the code has a list:
which of them is next has no bearing on what has been visited when none is left.

## Runs

| Run | Config | Shows |
| --- | --- | --- |
| `resume_chain` | `ResumeChain.cfg`: 2 processes, a gate and its successor, 1 failing write | `ApprovedOnly`; `SuccessorDurable`; refinement `ImplementsGrant` |
| `resume_live` | `ResumeLive.cfg`: 2 processes, fair | `SingleConsumptionUnlessStolen`, `SoleOwner`, `AcceptedSettles`, `CrashedLockRecovered` |
| `resume_theft` | `ResumeTheft.cfg`: 3 processes, no write fails, no lock ages | **violated**: `SingleConsumption` |
| `workflow_run` | `WorkflowRun.cfg`: all workflows of 2 or 3 out of 10 kinds of steps, ring 3, window 2, 3 resumes; 14 requests in a tree of 5 paths with 2 links; 4 hosts, 2 redirects; 2 engines' handlers, 2 mishaps | `ApprovalSpentOnce`, `LoopTrapHolds`, `LogMatchesSteps`, `StatusTruthful`, `ApprovalAdvances` of the engine; `GrantedPlacesOnly`, `ConnectionsApproved`, `HandlersDurable` |
| `workflow_thrown_fallback` | `WorkflowThrownFallback.cfg` | **violated**: `FallbackGateSuspends` |
| `audit_writer` | `AuditWriter.cfg`: 4 events, verification every 2 appends, 2 failing appends, 2 crashes | `GrantsCheckpointed`, `ChainsIntact`, `CrashesRecoverable`, refinement `ImplementsTrail`, `QueueDrains` |
| `audit_two_ahead` | `AuditTwoAhead.cfg`: 3 events, 1 failing append, 1 crash | **violated**: `ExactlyOneAhead` |
| `audit_chain` | `AuditChain.cfg`: 2 processes, 3 events, 2 faults, 1 crash | `GrantsVerifiable`, `EvidenceUntouched` |
| `executor_run` | `ExecutorRun.cfg`: 3 requests with 3 capabilities or with 2, 2 slots, 1 tick, 1 restart, fair | `CommandsBounded`, `SingleUse`, `CleanMeansUntouched`, `SlotsReturn` |
| `migration_reapply` | `MigrationReapply.cfg`: 2 invocations, 2 resources, no fault, no crash | **violated**: `AppliedOnce` |
| `archify_run` | `Archify.cfg`: 2 updaters, 2 releases, 3 generations; 2 commands, 3 versions, 2 failing renames; the diagrams, routes and workflows of `MCArchify` | `AnswersKept`, `OneHolder`, refinement `ImplementsRegister`; `DeliverySound`; `DrawingsSound` |
| `parts_run` | `Parts.cfg`: thirteen scenes, fair | `PartitionsSafe`, `RollbackCompletes` (migration, identities); `ShellCallsGoverned`; `StoresTruthful`; `StagingIsolated`; `InstallOrRestore`; `PreviewSettles`; `RefreshesOrdered`; `ReviewSettles` |

What the conjunctions consist of:

| Property | Conjuncts |
| --- | --- |
| `ApprovalSpentOnce` | `OneApprovalPerGate`, `ApprovalSpentOnItsStep` |
| `HandlersDurable` | `PatchTransactional`, `RecordsWhole` |
| `AnswersKept` | `AcknowledgedForGood`, `NotifiedCanBeAcknowledged` |
| `DeliverySound` | `DeliveryTruthful`, `PairConsistent` |
| `DrawingsSound` | `DeltaFaithful` (`ComparedIsShown`, `DigestAgrees`, `ReceiptReversible`, `RepositoryStable`), `GeometrySound` (`FlowExact`, `NormalizedAlike`, `CrossingsFound`, `RunsMeasured`, `LabelsMeasured`, `BridgesFound`, `PortsSpread`), `CompilerSound` (`OrderIrrelevant`, `ContractExact`, `RoundsProgress`, `LayoutSound`, `RoutesPass`, `ChannelTight`) |
| `PartitionsSafe` | `MigrationSafe` (`NothingLost`, `JournalTruthful`), `TenantsApart` |
| `ShellCallsGoverned` | `EveryRunGranted`, `CapabilityServesItsCall` |
| `StoresTruthful` | `VaultTruthful`, `IncidentsKept`, `UnregisteredStaysGone`, `SignaturesKept`, `CascadeHonest` |
| `StagingIsolated` | `BaseOnlyTested`, `BranchKept` |
| `PreviewSettles` | `PublishedFromSource`, `SettlesOnSource`, `StopEnds` |
| `RefreshesOrdered` | `NeverOlder`, `RefreshEnds`, always `ReportTruthful` |
| `ReviewSettles` | `ReviewTruthful` after every step, `PlaysInOrder`, playing leads to not playing |

Every passing run disables deadlock checking: workflows end, processes die,
events run out.

Bounds. Three processes are what the lock race takes: one to leave a lock
behind, two to recover it. Two instances are a gate and its successor. One
failing write meets every other step, since TLC places it anywhere. A ring of
three with a window of two lets signatures leave both within three steps, since
fallbacks push too; `Cap` and `Window` only matter through their order. Four
events with two faults and two crashes let each fault hit the ledger and the
checkpoint, before and after a full verification and a restart. In `AuditChain.cfg` two processes take turns over three events, so that a
remembered head can be stale, and two faults are what it takes to fail in both
sinks or to leave a line and meet it again. Three requests
for two slots are the least with a refusal while others run; they have a
capability each, so that the limit could be exceeded, or two of them share one,
before and after the tick at which it expires. Three resources give a
migration a first, a middle and a last one; two invocations overlap, and each may
be followed by others, since an invocation that has ended may start again.

Two updaters are the holder and the one that takes over; three generations let a
slow one be overtaken twice, and leave two older states to fall back to. Two commands with two failing renames are a commit
whose restore fails as well while another commits. Of a diagram one item of one
kind varies, in every pair of its forms, beside items that stay; of routes, seven
shapes with repeated points, turns back and points on straight runs meet every
orthogonal route of at most three points on a grid of four by four; of workflows,
three nodes with two edges are routed, up to five are laid out with every
combination of widths, labels, phases and groups that a distance depends on, and
every graph of three nodes meets every contract of one clause. A tree of three
directories with two links is the least in which a link leads to a link. Two
redirects are one that is followed and one too many. Two mishaps are a patch that fails
and a temporary file that cannot be removed. One restart of the executor, with a client
that posts twice, is what a second command under one grant takes. Two installed files
are the settings template and what is made of it, one missing or cut short while the
other is not. Three server names, two of whose tools share a key, are the least in
which registering one rebinds another's. Three changes on a page have a
first, a middle and a last; three targets of two providers put one provider twice
in the cascade; a map of two entries with four captures is full and evicts twice;
three users are one subject of two issuers and two subjects that the older naming
folds. Three edits of a previewed file come before, during and after a build.

Fairness. `ApprovalResume`: a process that runs is scheduled and its file calls
and handlers return (weak fairness of its steps; handlers have their own
timeouts); operators may always try again, however often they were refused
(strong fairness of `Start`, as it is disabled while all processes are busy);
time passes. Nothing forces anyone to suspend, approve, crash or fail. A crash
or failing write after the claim leaves the checkpoint IN_PROGRESS for good;
`AcceptedSettles` says so. `AuditLedger`: Node's event loop runs queued
operations; `restart: unless-stopped` in `docker-compose.yml` starts the writer
again. `ExecutorService`: a body arrives or Node's `requestTimeout` ends the wait,
timers fire, a killed command ends and its events are delivered; neither
disconnections nor a command that heeds SIGTERM are assumed. `TenantMigration`:
file operations return, the operator repeats an interrupted rollback however
often it was refused (strong fairness, as other invocations come between), and
removes the lock files of dead invocations. `PreviewServer`: timers fire, a child
that does not hang ends, a killed one too, and a closing server closes; the author
need not stop editing, but edits are bounded. `ModelCatalog`: a fetch gives up
after its own time-out, so that a refresh moves on; nothing makes anyone refresh or
the script run. `DeltaReview`: a timeout that is due fires, the reader need do
nothing. In `parts_run` each of these is stated on the part's own variables, so that
it asks nothing of a scene in which the part does not run. All other modules are
used for safety only.

## Findings

1. `resume_theft`. The stale-lock recovery unlinks whatever the path names. Two
   overlapping recoveries both enter, and the approved step runs twice, against
   README.md's "single-consumption checkpoints".
2. `workflow_thrown_fallback`. When a handler throws and the fallback needs
   approval, the gate is lost: the workflow ends with an exception whose message
   is empty, and a resumed checkpoint ends as CONSUMED. `tests/step_gate.test.mjs`
   covers only handlers that return a failure. The shipped `incident_triage`
   workflow has such a step.
3. `audit_two_ahead`. After one failed checkpoint write the audit writer goes
   on, and a crash can then leave two entries beyond the last checkpoint, not
   "exactly one" as the comment says; the writer refuses to start from that.

4. `migration_reapply`. Apply looks at the journal before it takes the locks and
   not again. If another apply completes in between, the second overwrites
   `applied` with `applying`, fails on the missing source, and leaves `failed`
   over partitions that are all migrated; rollback refuses that journal. The
   guide calls re-running a completed apply idempotent.

More observations, not violations of anything the repository says: a gated
step whose gated fallback is needed after a returned failure asks for approval
over and over without the fallback ever running (each approval is spent on the
step itself, which the loop trap then refuses); and a resumed step whose
condition has ceased to hold is skipped with the approval left for the next
gate (`ApprovalSpentOnItsStep` states the exception). A migration that dies
leaves its lock files, and nothing in the code or the guide says who removes
them: `RollbackCompletes` has to assume that somebody does. A journal that
says `applying` is accepted by neither command. A second failure, during the undo
of a first one, is swallowed and leaves `failed` over a partition that is still
migrated; hence the condition of `JournalTruthful`.
The local audit chain accepts a last line that lacks its newline and puts the
next entry right behind it (`joined`); the process that does so goes on from its
remembered head, while every other refuses the file.
An installation whose promotion failed may leave a file cut short, which the next
run passes over without `--force`; a partial copy aside may be copied back; the
extraction of an archive overwrites customised files; and the handler of INT and
TERM only removes the staging directory, after which the script goes on.
Further ones are with the modules above that show them.

## Proofs

`ApprovalResume_proofs` proves, for any sets of processes and instances and any
number of failing writes, from `ConstAssumption` alone:

- `TypeCorrect`: `Spec => []TypeOK`;
- `InductiveInvariant`: `Spec => []ResumeInv`;
- `LockExcludes`, `ConsumedOnce`, `OneOwner`: `MutualExclusion`,
  `SingleConsumptionUnlessStolen` and `SoleOwner` from it.

Mutual exclusion is not inductive by itself: that a second process cannot enter
follows from the holder owning the lock file (`LockHeld`), which every step
keeps because a file is created only where there is none and `UnlinkStale` of a
live holder's file ends the claim (`stolen`). Single consumption needs three
facts more: what a holder has read as suspended is still so (`LoadedCurrent`),
the process between claim and settle is the only one and the file says
IN_PROGRESS (`OwnersUnique`), and approvals that nobody has claimed, or that
their owner has not used yet, have no run (`UnusedApprovals`). The step lemma
`StepInv` has one step per action.

Two more theorems hold after a theft as well. `RunsApproved`
(`ApprovedOnly`) rests on every held or claimed token having been signed;
`SuccessorsKept` (`SuccessorDurable`) on no checkpoint returning to absent, on
the order of the two writes, the successor before the settlement that names it, and on
the failing write that is counted whenever the first of them did not happen.
`GrantImplemented` (`ImplementsGrant`) is the refinement, up to a theft: `ResumeInv` says that
a claim starts from a suspended checkpoint and a settlement from one that is in
progress, so that each write moves the phase as `ApprovalGrant` allows
(`WriteMoves`), and every other step leaves it alone (`StepGrant`).

`ExecutorService_proofs` proves, for any finite set of requests, any capabilities
and any limit, from `ExecutorAssumption`:

- `TypeCorrect`, `ExecutorInvariant`, `CleanResults`: `TypeOK`, `ExecutorInv` and
  `CleanMeansUntouched` are invariants, proved together by one induction (with
  `NotesExplain`: whoever signals a command has left a note);
- `CommandsAreBounded`, `CapabilityUsedOnce`: `CommandsBounded`, `SingleUse`.

That the counter never exceeds the limit is not inductive by itself, and says
nothing of commands: it has to be known that it is exactly the number of handlers
between increment and `finally` (`SlotsCounted`, with three lemmas about the
cardinality of that set) and that a live command has such a handler. Single use
needs `NoncesKept`: a capability that has started a command is remembered or has
expired, and time does not return.

`Archify_proofs` proves of `UpdateClaim`, for any processes, digests, generations,
attempts and room in a state file, from `UpdateAssumption`:

- `InductiveInvariant`: `TypeOK` and `ClaimInv`;
- `HolderUnique` (`OneHolder`), `AnswersStand` (`AnswersKept`);
- `RegisterImplemented` (`ImplementsRegister`): every action changes the register
  at once or leaves it alone (`StepRegister`).

There is no lock, so that the argument is about generations. Each belongs to one
process (`GensOwned`), and a process that was promoted is named by the claim while
its operation is pending (`ClaimNamesLive`). What makes commits serial is
`HigherFences`: as long as a claiming process's operation is pending, no process of
a higher generation has committed or got past its fencing, and whoever is fencing
has the lower one on its list. From this follows that what a process is about to
replace is still the newest state, unless it is one that `missed` it (`BaseCurrent`),
which the refinement needs, and that the candidate in it is offered or acknowledged
(`CandidatesAccounted`), in whatever older state a reading falls back to.

Of `ArtifactDelivery` it proves `DeliveryInvariant` and `PublishedSound`
(`DeliverySound`), for any commands, versions and failing renames, from
`DeliveryAssumption`. That a failed commit restores the pair is not inductive: it
has to be known what a command has put aside, has yet to treat and has placed in
each phase (`PhasesKept`), from which reading each file comes (`FilesMade`), that
one commits at a time unless commits overlapped (`CommitsApart`), and where the
previous pair is meanwhile (`PreviousKept`).

Of `ArchitectureDelta` it proves `DeltaStaysFaithful` (`DeltaFaithful`, the part of
`DrawingsSound` that is about comparisons) for any pairs of diagrams, from
`DeltaAssumption`, which says what the schema leaves of a diagram. The state is small
(`DeltaInv`: the receipt is that of the pair, the drawing the one made of it); the
work is in what the operators return:

- `ReceiptShown`: of every receipt, `PageFailures(BuildDelta(changes), changes) = {}`.
  Every change is one of the rows that `Row` lists (`RowsFit`: which status goes with
  which classifications); what the drawing shows of a row of each kind is, tag for tag,
  what the page's own account expects (`ComponentShown`, `ConnectionShown`,
  `BoundaryShown`), and the tags of one change never carry another's identity
  (`OwnTags`, `PageAccepted`).
- `OneFormNoChange`, `KeysAccounted`: one canonical form means no change, since in a
  comparable pair a key belongs to one item (`KeysUnique`); and the keys that went and
  came account for the later diagram's.
- `RefusedUnlessComparable`, `ChangeBack`, `ChangesBack`: the list of refusals is empty
  for exactly the pairs that are `Comparable`, which does not depend on the order, and
  the change of a key in the other order is the change reversed.
- `SummaryCounts`: the counts of a summary add up to the number of changes. The sum is
  a fold in an order nobody knows; `FoldCounts` goes through the subsets of the
  statuses by their size.
- `IdentityStays`: normalising an address twice is normalising it once (`UrlStays`).

`WorkflowCompiler_proofs` proves parts of `DrawingsSound` for any drawings and any
documents. Two assumptions say what they may be. `GeometryAssumption`: coordinates are
integers and boxes are not inside out. `DocumentsAssumption`: a document is what is left
by the schema and by the compiler's own checks of its references (`IsDocument`, `Linked`),
a channel is sought within `MaxReach` pixels, which 53 halvings tell apart, and nodes are
an even number of pixels wide where distances between boxes matter, since half pixels do
not exist in the model (`Even`).

- `FlowsStayExact` (`FlowExact`): `segmentIntersectsRect`, which looks at the ends and at
  the four sides, misses a box exactly if a line parts the two (`Apart`). A segment that
  meets a side is on neither side of a parting line (`HitsNotApart`); one that is not
  parted and has no end in the box comes in through a side, whose ends are then on
  different sides of it (`Entering`, `SideMet`, `MissesApart`).
- `OrdersNeverMatter`: `OrderIrrelevant`, and more than the runs look at, namely any order
  of a document's lists and not only the reverse (`AnyOrder`). The keys order the places of
  a list strictly (`BeforeOrder`), hence every rank is held by exactly one place
  (`RanksFill`, by counting), and with the same keys in another order the same key is at
  each rank (`RanksAlike`); equal keys are keys of equal items, which needs the ids.
- `ContractsAreExact` (`ContractExact`): what the search has visited when nothing is pending
  is the least closed set with the node it started from (`ReachedLeast`), and as many
  rounds as there are nodes are enough, because each takes another one off.
- `RoundsAlwaysProgress` (`RoundsProgress`): the columns keep every distance that was asked
  for (`ColumnsAre`), hence a request, which is made where there is less room than it asks
  for, always asks for more than was granted before (`RequestIs`).
- `LayoutsAreSound` (`LayoutSound`): the pass over the columns keeps every distance, and a
  column that is further right than by default is held there by one (`ColumnsAreLeast`);
  the later shifts move all columns alike. From this follow the boxes (`BoxesAll`): nodes
  are apart, inside their lanes and the frames of their groups, which `FrameRoom`
  reserves, and straight edges have room for their labels.
- `ChannelsAreTight` (`ChannelTight`): halving keeps a feasible place on one side and an
  infeasible one, or the start, on the other (`HalveKeeps`), and after 53 halvings of
  at most `MaxReach` pixels they are neighbours (`HalvedIs`).

`AuditLedger_proofs` proves, for any decisions, failing appends and crashes and any
verification interval, from `LedgerAssumption`: `LedgerInvariant`, `GrantsCovered`
(`GrantsCheckpointed`), `ChainsKept` (`ChainsIntact`), `RestartsRecover`
(`CrashesRecoverable`) and the refinement `TrailImplemented` (`ImplementsTrail`).
`LedgerInv` says of the files that they are chained (`Linked`); of the writer's
fields that they describe a prefix of the files, and in the middle of an append the
files as they are (`MemoryTrue`), which is why a stale head is never appended to; of
decisions that each is queued and recorded once (`DecisionsOnce`); and, until the
first append fails, how far the ledger may be ahead of its checkpoints (`Level`).

`AuditChainFile_proofs` proves, for any processes, events, failures and crashes,
from `ChainFileAssumption`: `GrantsStayVerifiable` (`GrantsVerifiable`) and
`EvidenceStays` (`EvidenceUntouched`). Until a live holder loses its lock or an
entry is put behind an unended line, whoever works on a file has made its lock file
(`HoldersHold`); hence the head that a call has read is still the head when it
appends, and its entry is the head until the lock is released (`HeadsTrue`); and a
head remembered for the file's present size is the head of a file that verifies,
because sizes only grow (`CachesTrue`). The lemma `ChainGoesOn` is about the chain
that gets one entry more.

The same module proves `TrailsImplemented` (`ImplementsTrails`), that each of the two
files is the trail the writer promises. This needs that a call's event is its own
and named in no file to which the call has not appended (`EventsOwn`, `EventsFresh`),
also after a crash, where the event stays pending; that a log ends before the first
line that breaks the chain and holds exactly what `GrantsVerifiable` looks for
(`LogShape`, `LogHolds`); and that an append to a file that verifies makes its log
one entry longer or, with a line that is not JSON, leaves it as it is (`LogGrows`).
`StepMoves` sorts all other steps by what they do with the call they are in: it
begins, stays, falls back or ends.

`WorkflowSteps_proofs` proves, for any manifest, actions, conditions, ring, window
and number of resumes, from `EngineAssumption`: `GatesKept` (`ApprovalSpentOnce`),
`LoopsTrapped` (`LoopTrapHolds`), `LogKept` (`LogMatchesSteps`), `StatusKept`
(`StatusTruthful`) and `ResumesAdvance` (`ApprovalAdvances`). One flag carries the
approval through the step, its fallback and later steps. That it opens the right
gate is by elimination: an approval that is still there is for the step of the
checkpoint, which has not called anything yet, or that step was skipped
(`ApprovalPlaced`). If the gate was the fallback's, the step's own call had entered
the ring before, and the checkpoint restores the ring (`GateKnown`, `FramesTrue`);
so the resumed step is trapped once more, and its approval reaches the fallback. `Credit`
counts approvals (present, about to be used, used) against resumes, `RingTrue` says
that the ring is the end of what was executed, `LogTrue` and `Resumed` what the
checkpoint of a suspended workflow holds. From `FetchAssumption`:
`ConnectionsStayApproved` (`ConnectionsApproved`), any hosts, addresses, records and limits. From
`HandlersAssumption`: `HandlersStayDurable` (`HandlersDurable`), any engines,
contents and mishaps; `HandlersInv` says which handler is at which stage, that a
candidate parses, that temporary files go unless a failed patch could not remove its
own, and that exactly what was put in place was reported. From `DecisionAssumption`: `GrantedPlacesOnlyHolds`
(`GrantedPlacesOnly`), any names, trees, policies and requests. Its invariant says of
the tree that whatever exists lies in directories (`Rooted`), and that a request granted
in a tree that has not changed since is compliant in it (`Granted`); the argument is
about paths. The decision resolves the longest part that exists and leaves the rest,
the system follows every link: where no link dangles both arrive at the same place
(`CanonicalIsReal`), and what is inside a root by its canonical name, or below the root
with no link that escapes, is inside where it leads. That following `n` links from a
path goes on like following them from where it is after a first one is an induction
over `n`. The library's induction theorem cannot be instantiated, so that it is done
with the set of the numbers for which it fails: were there one, there would be a least
(`LeastNumber`, from the library's theorem that `<` on the naturals is well-founded).

`StepsKept` is all of it for the composition that `workflow_run`
checks: a step of `StepsSpec` is a step of one part and a stutter of the others.

`SideParts_proofs` is about the parts of `MCSideParts`, each from the assumption of
its module:

| Theorem | Shows | Assumption | Inductive because of |
| --- | --- | --- | --- |
| `CallsGoverned` | `ShellCallsGoverned` | `EnforcementAssumption` | `CapabilitiesOwn`, `StagesKept`, `StartedOnce`: a started command's nonce is known, has expired, or was forgotten by a counted restart |
| `WorkIsolated` | `StagingIsolated` | `WorktreeAssumption` | `StagesTested`: what is about to be committed or merged was tested as it stands |
| `InstalledOrRestored` | `InstallOrRestore` | `InstallerAssumption` | `InstallInv`: what is staged, and where the old files are, in each phase |
| `VaultKeepsKeys` | `VaultTruthful` | `VaultAssumption` | `VaultInv`: `VaultTruthful` itself, and that a torn file means that a write tore |
| `IncidentsStayFiled` | `IncidentsKept` | `QuarantineAssumption` | itself |
| `UnregisteredGone` | `UnregisteredStaysGone` | `RegistryAssumption` | `RegistryInv`: the file lags only after a failed save |
| `CascadeIsKept` | `CascadeHonest` | `GatewayAssumption` | `CascadeInv`: the outcomes so far, provider by provider |
| `SignaturesAreKept` | `SignaturesKept` | `GatewayAssumption` | `SignaturesInv`: one entry per identifier, in the order in which they entered, each with its last signature |
| `UsersApart` | `TenantsApart` | `IdentityAssumption` | `IdentityInv`: who asks is known and the map of older names unambiguous before a directory is opened |
| `NothingIsLost` | `MigrationSafe` | `MigrationAssumption` | `MigrationInv`, below |
| `CatalogueNeverOlder` | `NeverOlder`, `ReportTruthful` | `CatalogAssumption` | `OneRefresh`: the one refresh under way is newer than what is given out; `ReportedOnce`: a reported success is of a run that has ended |
| `ReviewStaysTruthful` | `ReviewTruthful`, `PlaysInOrder` | `ReviewAssumption` | `TimerOwn`: the one timeout ahead is that of the present token |
| `PreviewStaysTrue` | `PublishedFromSource`, `Served`, `StoppedClean` | `PreviewAssumption` | `PreviewInv`: those two and the types |
| `PartitionsKept`, `StoresKept`, `PromisesKept` | all of these but `Served` and `StoppedClean`, in `PartsSpec` | the above | a step of the composition is a step or a stutter of each part |

`NothingLost` needs only that what is about to be renamed has its verified backup
(`RenameReady`). What the journal says needs more, and only holds unless an apply
runs on outdated checks: until somebody takes the locks, what an apply has checked
is so (`ChecksFresh`); then it knows what it has moved and what is left, and a
rollback has yet to restore whatever is at its destination (`InOrder`); and the
journal is true whenever nobody is between two writes of it (`ToldWhenDone`). The
least and the largest resource of a set (`MinIn`, `MaxIn`) exist since `<` on the
naturals is well-founded.

The larger inductive invariants were first checked by TLC on small instances
(`MigrationInv` with three invocations and two resources, `EngineInv` with the
manifests of `WorkflowRun.cfg`, `ChainInv` with `AuditChain.cfg`). Invariants that
exist for a proof only are not in the runs: they are proved. TLC
checks of the same modules the properties, which the proofs then extend to all
values of the constants.

Only model-checked:

- liveness (`AcceptedSettles`, `CrashedLockRecovered`, `QueueDrains`, `SlotsReturn`,
  `RollbackCompletes`, and the liveness conjuncts of `PreviewSettles`,
  `RefreshesOrdered` and `ReviewSettles`);
- of `DrawingsSound`: `NormalizedAlike`, `CrossingsFound`, `RunsMeasured`, `LabelsMeasured`,
  `BridgesFound`, `PortsSpread` and `RoutesPass`. They fold over the points of a route, or
  over the ports of a node, and are compared with definitions that count points, so that
  each is an induction over data; `LabelsMeasured` has squares besides, which no installed
  prover multiplies out;
- the properties of the runs that expect a violation.

## Not modelled

- Data behind the decisions: signatures and digests (a token is the instance it
  was signed for), the policy's patterns, schemas of events.
- Power loss that undoes completed writes; tampering with files from outside;
  telemetry spans.
- Of the archify skill: labels, phases, groups, legends and pinned routes in
  automatic routing (they are in the layout), the older contract of the compiler,
  the renderers of the other diagram types and the table of brand marks, which
  turn one document into markup in one pass; the command line's argument parsing
  and guides; the guarded file operations below the update check.
- `persona.mjs`: create, distill and apply write several files without atomicity,
  one operator at a time. Reading it showed that a package left half-made blocks
  its creation, that `apply` reports success when its pattern matches nothing, and
  that the roles of `a-b` and `a_b` coincide.
- `gateway.js` (headers, health and restart routes), `telemetry-gateway.mjs`,
  `phoenix-evals.mjs`, `web-search.js`: each request is handled once, with nothing
  kept. The relabelling of false overflow errors in `llm-gateway.js` is the same.
- Loader and localisation; provisioning scripts and the doctor; what
  `install_dsh.sh` appends to secrets (218-242) and generates (729-1446).
- Of the tenant migration, inventory and plan, which only read partitions and
  write one signed document.
- A name that begins with two dots is refused by `validatePathAccess` though it
  lies inside; links are not resolved by it.

## Plan

Labels in the compiler's routing; a module for persona packages.
