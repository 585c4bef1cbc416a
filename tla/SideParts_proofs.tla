--------------------------- MODULE SideParts_proofs ---------------------------
(***************************************************************************)
(* TLAPS proofs about the parts that MCSideParts runs side by side, each   *)
(* for any values of its constants.                                        *)
(***************************************************************************)
EXTENDS MCSideParts, SequenceTheorems, FiniteSetTheorems, WellFoundedInduction, TLAPS

-----------------------------------------------------------------------------
(* Tool calls                                                              *)

\* A call has the capability it was given, or none.
CapabilitiesOwn == \A c \in Calls : cap[c] \in {c, NoCap}
\* What may not have started has left nothing, and what went on has its grant.
StagesKept ==
  \A c \in Calls :
    /\ call[c] \in {"new", "denied"} => ran[c] = 0 /\ c \notin nonces
    /\ call[c] = "new" => cap[c] = NoCap /\ c \notin workdir
    /\ call[c] \notin {"new", "denied"} => <<c, "GRANTED">> \in recorded
    /\ call[c] = "sent" => isolated /\ c \in Shells /\ cap[c] = c /\ posts[c] > 0
\* An isolated command is remembered by its nonce until its capability has expired, or a
\* restart that is counted; any other tool is started once, by leaving "allowed" for good.
StartedOnce ==
  \A c \in Calls :
    IF isolated /\ c \in Shells
    THEN c \notin nonces \cup expired => ran[c] <= forgotten[c]
    ELSE /\ call[c] = "allowed" => ran[c] = 0
         /\ c \notin nonces
EnforcementInv == CapabilitiesOwn /\ StagesKept /\ StartedOnce /\ ShellCallsGoverned

LEMMA EnforcementInit == EInit => ETypeOK /\ EnforcementInv
BY EnforcementAssumption
DEF EInit, ETypeOK, EnforcementInv, CapabilitiesOwn, StagesKept, StartedOnce,
    ShellCallsGoverned, EveryRunGranted, CapabilityServesItsCall

\* A restart of the executor that forgets a nonce is counted for its call.
LEMMA RestartCounted ==
  ASSUME ETypeOK, EnforcementInv, RestartExecutor
  PROVE  ETypeOK' /\ EnforcementInv'
<1>1. /\ nonces' = {} /\ restarts' \in 0..MaxRestarts
      /\ UNCHANGED <<engine, isolated, cap, recorded, workdir, expired, aborted, posts, ran>>
  BY EnforcementAssumption DEF RestartExecutor, ETypeOK
<1>2. forgotten' \in [Calls -> Nat]
  BY DEF RestartExecutor, ETypeOK
<1>3. ASSUME NEW c \in Calls
      PROVE  /\ forgotten'[c] >= forgotten[c]
             /\ c \in nonces \ expired => forgotten'[c] = forgotten[c] + 1
  BY DEF RestartExecutor, ETypeOK
<1>4. call' \in [Calls -> {"new", "denied", "allowed", "sent", "running", "answered"}]
  BY DEF RestartExecutor, ETypeOK
<1>5. ASSUME NEW c \in Calls
      PROVE  \/ call'[c] = call[c]
             \/ /\ isolated /\ c \in Shells /\ call[c] \in {"sent", "running"}
                /\ call'[c] \in {"allowed", "answered"}
  BY DEF RestartExecutor, ETypeOK
<1>6. ETypeOK'
  BY <1>1, <1>2, <1>4 DEF ETypeOK
<1>7. CapabilitiesOwn'
  BY <1>1 DEF EnforcementInv, CapabilitiesOwn
<1>8. StagesKept'
  <2>1. ASSUME NEW c \in Calls
        PROVE  /\ call'[c] \in {"new", "denied"} => ran[c] = 0
               /\ call'[c] = "new" => cap[c] = NoCap /\ c \notin workdir
               /\ call'[c] \notin {"new", "denied"} => <<c, "GRANTED">> \in recorded
               /\ call'[c] = "sent" => isolated /\ c \in Shells /\ cap[c] = c /\ posts[c] > 0
    <3>1. /\ call[c] \in {"new", "denied"} => ran[c] = 0
          /\ call[c] = "new" => cap[c] = NoCap /\ c \notin workdir
          /\ call[c] \notin {"new", "denied"} => <<c, "GRANTED">> \in recorded
          /\ call[c] = "sent" => isolated /\ c \in Shells /\ cap[c] = c /\ posts[c] > 0
      BY DEF EnforcementInv, StagesKept
    <3>2. CASE call'[c] = call[c]
      BY <3>1, <3>2
    <3>3. CASE call[c] \in {"sent", "running"} /\ call'[c] \in {"allowed", "answered"}
      BY <3>1, <3>3
    <3>4. QED
      BY <1>5, <3>2, <3>3
  <2>2. /\ ran' = ran /\ nonces' = {} /\ cap' = cap /\ workdir' = workdir
        /\ recorded' = recorded /\ isolated' = isolated /\ posts' = posts
    BY <1>1
  <2>3. ASSUME NEW c \in Calls
        PROVE  /\ call'[c] \in {"new", "denied"} => ran'[c] = 0 /\ c \notin nonces'
               /\ call'[c] = "new" => cap'[c] = NoCap /\ c \notin workdir'
               /\ call'[c] \notin {"new", "denied"} => <<c, "GRANTED">> \in recorded'
               /\ call'[c] = "sent" => isolated' /\ c \in Shells /\ cap'[c] = c /\ posts'[c] > 0
    <3>1. c \notin nonces' /\ ran'[c] = ran[c] /\ cap'[c] = cap[c] /\ posts'[c] = posts[c]
      BY <2>2
    <3>2. /\ call'[c] = "sent" => isolated' /\ c \in Shells
          /\ call'[c] = "new" => c \notin workdir'
          /\ call'[c] \notin {"new", "denied"} => <<c, "GRANTED">> \in recorded'
      BY <2>1, <2>2, Zenon
    <3>3. QED
      BY <2>1, <3>1, <3>2
  <2>4. QED
    BY <2>3, Zenon DEF StagesKept
<1>9. ASSUME NEW c \in Calls
      PROVE  /\ ran[c] \in Nat /\ forgotten[c] \in Nat /\ forgotten'[c] \in Nat /\ ran'[c] = ran[c]
             /\ ran[c] <= 1 + forgotten[c]
  BY <1>1, <1>2 DEF ETypeOK, EnforcementInv, ShellCallsGoverned, EveryRunGranted
<1>10. StartedOnce'
  <2>1. ASSUME NEW c \in Calls, isolated, c \in Shells, c \notin expired
        PROVE  ran'[c] <= forgotten'[c]
    <3>1. CASE c \in nonces
      BY <1>3, <1>9, <2>1, <3>1
    <3>2. CASE c \notin nonces
      <4>1. ran[c] <= forgotten[c]
        BY <2>1, <3>2 DEF EnforcementInv, StartedOnce
      <4>2. QED
        BY <1>3, <1>9, <4>1
    <3>3. QED
      BY <3>1, <3>2
  <2>2. ASSUME NEW c \in Calls, ~(isolated /\ c \in Shells)
        PROVE  call'[c] = "allowed" => ran'[c] = 0
    BY <1>1, <1>5, <2>2 DEF EnforcementInv, StartedOnce
  <2>3. QED
    BY <1>1, <2>1, <2>2 DEF StartedOnce
<1>11. EveryRunGranted'
  <2>1. \A c \in Calls : ran'[c] <= 1 + forgotten'[c]
    BY <1>3, <1>9
  <2>2. QED
    BY <1>1, <2>1 DEF EnforcementInv, ShellCallsGoverned, EveryRunGranted
<1>12. CapabilityServesItsCall'
  BY <1>1 DEF CapabilityServesItsCall
<1>13. QED
  BY <1>6, <1>7, <1>8, <1>10, <1>11, <1>12 DEF EnforcementInv, ShellCallsGoverned

LEMMA EnforcementStep ==
  ASSUME ETypeOK, EnforcementInv, [ENext]_evars
  PROVE  ETypeOK' /\ EnforcementInv'
<1> USE EnforcementAssumption
    DEF ETypeOK, EnforcementInv, CapabilitiesOwn, StagesKept, StartedOnce,
        ShellCallsGoverned, EveryRunGranted, CapabilityServesItsCall, effects, lives, Move, Context
<1>1. CASE UNCHANGED evars
  BY <1>1 DEF evars
<1>2. CASE bootstrapRbac
  BY <1>2 DEF bootstrapRbac
<1>3. ASSUME NEW c \in Calls, Refuse(c) \/ Deny(c) \/ AuditFails(c)
      PROVE  ETypeOK' /\ EnforcementInv'
  <2>1. /\ call[c] = "new" /\ call' = [call EXCEPT ![c] = "denied"]
        /\ recorded \subseteq recorded' /\ recorded' \subseteq Calls \X {"GRANTED", "DENIED"}
        /\ UNCHANGED <<engine, isolated, cap, workdir, expired, aborted, posts, nonces, ran, lives>>
    BY <1>3 DEF Refuse, Deny, AuditFails
  <2>2. QED
    BY <2>1
<1>4. ASSUME NEW c \in Calls, Grant(c) PROVE ETypeOK' /\ EnforcementInv'
  <2>1. /\ call[c] = "new" /\ recorded' = recorded \cup {<<c, "GRANTED">>}
        /\ workdir' \in {workdir, workdir \cup {c}}
        /\ UNCHANGED <<engine, isolated, expired, aborted, posts, nonces, ran, lives>>
    BY <1>4 DEF Grant, AuditGrant
  <2>2. /\ \E s \in {"allowed", "denied"} : call' = [call EXCEPT ![c] = s]
        /\ cap' \in {cap, [cap EXCEPT ![c] = c]}
    BY <1>4 DEF Grant
  <2>3. ETypeOK'
    BY <2>1, <2>2
  <2>4. /\ call'[c] \in {"allowed", "denied"} /\ cap'[c] \in {c, NoCap}
        /\ ran'[c] = 0 /\ c \notin nonces' /\ <<c, "GRANTED">> \in recorded'
    <3>1. ran[c] = 0 /\ c \notin nonces /\ cap[c] = NoCap
      BY <2>1
    <3>2. QED
      BY <2>1, <2>2, <3>1
  <2>5. ASSUME NEW d \in Calls, d # c
        PROVE  /\ call'[d] = call[d] /\ cap'[d] = cap[d]
               /\ d \in workdir' <=> d \in workdir
               /\ <<d, "GRANTED">> \in recorded' <=> <<d, "GRANTED">> \in recorded
    BY <2>1, <2>2, <2>5
  <2>6. CapabilitiesOwn'
    BY <2>4, <2>5
  <2> DEFINE Kept(d) ==
        /\ call[d] \in {"new", "denied"} => ran[d] = 0 /\ d \notin nonces
        /\ call[d] = "new" => cap[d] = NoCap /\ d \notin workdir
        /\ call[d] \notin {"new", "denied"} => <<d, "GRANTED">> \in recorded
        /\ call[d] = "sent" => isolated /\ d \in Shells /\ cap[d] = d /\ posts[d] > 0
      Once(d) == IF isolated /\ d \in Shells
                 THEN d \notin nonces \cup expired => ran[d] <= forgotten[d]
                 ELSE (call[d] = "allowed" => ran[d] = 0) /\ d \notin nonces
  <2>7. StagesKept'
    <3>1. Kept(c)'
      BY <2>4
    <3>2. ASSUME NEW d \in Calls, d # c PROVE Kept(d)'
      <4>1. Kept(d)
        OBVIOUS
      <4>2. QED
        BY <2>1, <2>5, <3>2, <4>1
    <3>3. QED
      BY <3>1, <3>2, Zenon
  <2>8. StartedOnce'
    <3>1. Once(c)'
      BY <2>3, <2>4
    <3>2. ASSUME NEW d \in Calls, d # c PROVE Once(d)'
      <4>1. Once(d)
        OBVIOUS
      <4>2. QED
        BY <2>1, <2>5, <3>2, <4>1
    <3>3. QED
      BY <3>1, <3>2
  <2>9. ShellCallsGoverned'
    BY <2>1, <2>4, <2>5
  <2>10. QED
    BY <2>3, <2>6, <2>7, <2>8, <2>9
<1>5. ASSUME NEW c \in Calls, ExecuteHere(c) PROVE ETypeOK' /\ EnforcementInv'
  BY <1>5 DEF ExecuteHere
<1>6. ASSUME NEW c \in Calls, Post(c) PROVE ETypeOK' /\ EnforcementInv'
  BY <1>6 DEF Post
<1>7. ASSUME NEW c \in Calls, ClientRefuses(c) \/ Result(c)
      PROVE  ETypeOK' /\ EnforcementInv'
  BY <1>7 DEF ClientRefuses, Result
<1>8. ASSUME NEW c \in Calls, ExecutorAccepts(c) PROVE ETypeOK' /\ EnforcementInv'
  <2>1. isolated /\ c \in Shells /\ cap[c] = c /\ call[c] = "sent"
    BY <1>8 DEF ExecutorAccepts
  <2>2. c \notin nonces \cup expired /\ ran[c] <= forgotten[c]
    BY <1>8, <2>1 DEF ExecutorAccepts
  <2>3. /\ nonces' = nonces \cup {c} /\ ran' = [ran EXCEPT ![c] = @ + 1]
        /\ call' = [call EXCEPT ![c] = "running"]
        /\ UNCHANGED <<engine, isolated, cap, recorded, workdir, expired, aborted, posts, lives>>
    BY <1>8, <2>1, <2>2 DEF ExecutorAccepts
  <2>4. ETypeOK'
    BY <2>1, <2>3
  <2>5. CapabilitiesOwn' /\ StagesKept'
    BY <2>1, <2>3
  <2>6. StartedOnce'
    BY <2>1, <2>3
  <2>7. CapabilityServesItsCall'
    BY <2>1, <2>3
  <2>8. EveryRunGranted'
    <3>1. ran'[c] <= 1 + forgotten'[c] /\ <<c, "GRANTED">> \in recorded'
      BY <2>1, <2>2, <2>3
    <3>2. ASSUME NEW d \in Calls, d # c
          PROVE  /\ ran'[d] > 0 \/ d \in workdir' => <<d, "GRANTED">> \in recorded'
                 /\ ran'[d] <= 1 + forgotten'[d]
      <4>1. ran'[d] = ran[d] /\ forgotten'[d] = forgotten[d] /\ UNCHANGED <<workdir, recorded>>
        BY <2>3, <3>2
      <4>2. QED
        BY <4>1
    <3>3. QED
      BY <3>1, <3>2
  <2>9. QED
    BY <2>4, <2>5, <2>6, <2>7, <2>8
<1>9. ASSUME NEW c \in Calls, ExecutorRefuses(c) PROVE ETypeOK' /\ EnforcementInv'
  <2>1. isolated /\ c \in Shells /\ cap[c] = c /\ call[c] = "sent"
    BY <1>9 DEF ExecutorRefuses
  <2>2. /\ nonces' \in {nonces, nonces \cup ({c} \ expired)}
        /\ call' = [call EXCEPT ![c] = "answered"]
        /\ UNCHANGED <<engine, isolated, cap, recorded, workdir, expired, aborted, posts, ran, lives>>
    BY <1>9, <2>1 DEF ExecutorRefuses
  <2>3. QED
    BY <2>1, <2>2
<1>10. CASE RestartExecutor
  BY <1>10, RestartCounted
<1>11. ASSUME NEW c \in Calls, ConnectionLost(c) PROVE ETypeOK' /\ EnforcementInv'
  BY <1>11 DEF ConnectionLost
<1>12. ASSUME NEW c \in Calls, Abort(c) \/ ExpireCapability(c)
       PROVE  ETypeOK' /\ EnforcementInv'
  BY <1>12 DEF Abort, ExpireCapability
<1>13. QED
  BY <1>1, <1>2, <1>3, <1>4, <1>5, <1>6, <1>7, <1>8, <1>9, <1>10, <1>11, <1>12 DEF ENext

(* A tool call starts something only under its own recorded grant, and in  *)
(* the executor under its own capability; once, but for one more for every *)
(* restart of the executor that forgot a nonce whose capability was good:  *)
(* for any number of calls, requests and restarts (rbac-interceptor.js,    *)
(* server.mjs).                                                            *)
THEOREM CallsGoverned == ESpec => []ShellCallsGoverned
<1>1. ESpec => [](ETypeOK /\ EnforcementInv)
  BY EnforcementInit, EnforcementStep, PTL DEF ESpec
<1>2. EnforcementInv => ShellCallsGoverned
  BY DEF EnforcementInv
<1>3. QED
  BY <1>1, <1>2, PTL

-----------------------------------------------------------------------------
(* Staged work                                                             *)

\* What is committed, or about to be merged, was tested as it stands; the work of a task
\* is in the base, or in what another starts from, only once the task was merged.
StagesTested ==
  /\ \A t \in Tasks : at[t] \in {"commit", "merge"} => stage[t] \in tested
  /\ \A t \in Tasks : Includes(head, t) => result[t] = "merged"
  /\ \A t, u \in Tasks : t # u /\ Includes(stage[u], t) => result[t] = "merged"
StagingInv == StagesTested /\ StagingIsolated

LEMMA TreeGrows ==
  ASSUME NEW tree \in Trees, NEW x \in Tasks \cup {User}
  PROVE  /\ Append(tree, x) \in Trees
         /\ \A t : Includes(Append(tree, x), t) => Includes(tree, t) \/ t = x
<1>1. /\ Append(tree, x) \in Trees /\ Len(Append(tree, x)) = Len(tree) + 1
      /\ \A i \in 1..Len(tree) : Append(tree, x)[i] = tree[i]
      /\ Append(tree, x)[Len(tree) + 1] = x
  BY AppendProperties DEF Trees
<1>2. DOMAIN tree = 1..Len(tree) /\ DOMAIN Append(tree, x) = 1..(Len(tree) + 1) /\ Len(tree) \in Nat
  BY <1>1, LenProperties DEF Trees
<1>3. QED
  BY <1>1, <1>2 DEF Includes

LEMMA PrefixOfItself == ASSUME NEW tree \in Trees PROVE Ancestor(tree, tree)
<1>1. /\ SubSeq(tree, 1, Len(tree)) \in Trees /\ Len(SubSeq(tree, 1, Len(tree))) = Len(tree)
      /\ \A i \in 1..Len(tree) : SubSeq(tree, 1, Len(tree))[i] = tree[i]
  BY LenProperties, ElementOfSeq, SubSeqProperties DEF Trees
<1>2. QED
  BY <1>1, LenProperties, SeqEqual DEF Ancestor, Trees

LEMMA StagingInit == WorktreeInit => WorktreeTypeOK /\ StagingInv
BY DEF WorktreeInit, WorktreeTypeOK, Trees, Steps, StagingInv, StagesTested, StagingIsolated,
       BaseOnlyTested, BranchKept, Includes

LEMMA NothingInEmpty == <<>> \in Trees /\ \A t : ~Includes(<<>>, t)
BY DEF Includes, Trees

LEMMA StagingStep ==
  ASSUME WorktreeTypeOK, StagingInv, [WorktreeNext]_worktreeVars
  PROVE  WorktreeTypeOK' /\ StagingInv'
<1> USE WorktreeAssumption
    DEF WorktreeTypeOK, Steps, StagingInv, StagesTested, StagingIsolated, BaseOnlyTested,
        BranchKept, Holds
<1>1. CASE UNCHANGED worktreeVars
  BY <1>1 DEF worktreeVars
<1>2. ASSUME NEW t \in Tasks, begin(t) PROVE WorktreeTypeOK' /\ StagingInv'
  <2>1. PICK n \in Tasks :
          /\ at[t] = "new" /\ name' = [name EXCEPT ![t] = n]
          /\ UNCHANGED <<head, result, tested>>
          /\ \/ at' = [at EXCEPT ![t] = "failed"] /\ UNCHANGED <<stage, branches>>
             \/ /\ at' = [at EXCEPT ![t] = "work"] /\ stage' = [stage EXCEPT ![t] = head]
                /\ branches' = branches \cup {<<n, t>>}
    BY <1>2 DEF begin, Reach
  <2>2. CASE at' = [at EXCEPT ![t] = "failed"] /\ UNCHANGED <<stage, branches>>
    <3>1. WorktreeTypeOK'
      BY <2>1, <2>2
    <3>2. StagesTested' /\ BaseOnlyTested'
      BY <2>1, <2>2
    <3>3. BranchKept'
      BY <2>1, <2>2
    <3>4. QED
      BY <3>1, <3>2, <3>3
  <2>3. CASE /\ at' = [at EXCEPT ![t] = "work"] /\ stage' = [stage EXCEPT ![t] = head]
             /\ branches' = branches \cup {<<n, t>>}
    <3>1. branches' \subseteq Tasks \X (Tasks \cup {NoTask})
      <4>1. <<n, t>> \in Tasks \X (Tasks \cup {NoTask})
        OBVIOUS
      <4>2. QED
        BY <2>3, <4>1
    <3>2. WorktreeTypeOK'
      BY <2>1, <2>3, <3>1
    <3>3. StagesTested' /\ BaseOnlyTested'
      BY <2>1, <2>3
    <3>4. BranchKept'
      BY <2>1, <2>3
    <3>5. QED
      BY <3>2, <3>3, <3>4
  <2>4. QED
    BY <2>1, <2>2, <2>3
<1>3. ASSUME NEW t \in Tasks, Work(t) PROVE WorktreeTypeOK' /\ StagingInv'
  <2>1. at[t] = "work" /\ UNCHANGED <<head, result, tested, name, branches>>
    BY <1>3 DEF Work
  <2>2. CASE stage' = [stage EXCEPT ![t] = Append(@, t)] /\ at' = [at EXCEPT ![t] = "test"]
    <3>1. stage[t] \in Trees /\ stage'[t] = Append(stage[t], t) /\ t \in Tasks \cup {User}
      BY <2>2
    <3>2. Append(stage[t], t) \in Trees
      BY <3>1, TreeGrows
    <3>3. ASSUME NEW u \in Tasks, Includes(stage'[t], u) PROVE Includes(stage[t], u) \/ u = t
      <4>1. Includes(Append(stage[t], t), u)
        BY <3>1, <3>3
      <4>2. QED
        BY <3>1, <4>1, TreeGrows
    <3>4. \A u \in Tasks : u # t => stage'[u] = stage[u]
      BY <2>2
    <3>5. stage' \in [Tasks -> Trees]
      BY <2>2, <3>2
    <3>6. WorktreeTypeOK'
      BY <2>1, <2>2, <3>5
    <3>7. StagesTested' /\ BaseOnlyTested'
      BY <2>1, <2>2, <3>3, <3>4
    <3>8. BranchKept'
      BY <2>1, <2>2
    <3>9. QED
      BY <3>6, <3>7, <3>8
  <2>3. CASE UNCHANGED stage /\ \E s \in {"test", "cleanup"} : at' = [at EXCEPT ![t] = s]
    BY <2>1, <2>3
  <2>4. QED
    BY <1>3, <2>2, <2>3 DEF Work, Reach
<1>4. ASSUME NEW t \in Tasks, Test(t) PROVE WorktreeTypeOK' /\ StagingInv'
  <2>1. /\ at[t] = "test" /\ UNCHANGED <<head, stage, result, name, branches>>
        /\ \/ tested' = tested \cup {stage[t]} /\ at' = [at EXCEPT ![t] = "commit"]
           \/ UNCHANGED tested /\ at' = [at EXCEPT ![t] = "cleanup"]
    BY <1>4 DEF Test, Reach
  <2>2. stage[t] \in Trees
    OBVIOUS
  <2>3. WorktreeTypeOK'
    BY <2>1, <2>2
  <2>4. BranchKept'
    BY <2>1
  <2>5. StagesTested' /\ BaseOnlyTested'
    BY <2>1
  <2>6. QED
    BY <2>3, <2>4, <2>5
<1>5. ASSUME NEW t \in Tasks, CommitStage(t) PROVE WorktreeTypeOK' /\ StagingInv'
  <2>1. PICK s \in {"merge", "cleanup"} : at' = [at EXCEPT ![t] = s]
    BY <1>5 DEF CommitStage
  <2>2. at[t] = "commit" /\ UNCHANGED <<head, stage, result, tested, name, branches>>
    BY <1>5 DEF CommitStage
  <2>3. QED
    BY <2>1, <2>2
<1>6. ASSUME NEW t \in Tasks, Merge(t) PROVE WorktreeTypeOK' /\ StagingInv'
  <2>1. /\ at[t] = "merge" /\ at' = [at EXCEPT ![t] = "cleanup"]
        /\ UNCHANGED <<stage, tested, name, branches>>
    BY <1>6 DEF Merge, Reach
  <2>2. BranchKept'
    BY <2>1
  <2>3. CASE head' = stage[t] /\ result' = [result EXCEPT ![t] = "merged"]
    <3>1. WorktreeTypeOK'
      BY <2>1, <2>3
    <3>2. StagesTested'
      BY <2>1, <2>3
    <3>3. QED
      BY <2>1, <2>2, <2>3, <3>1, <3>2
  <2>4. CASE head' = head /\ result' \in {result, [result EXCEPT ![t] = "merged"]}
    <3>1. WorktreeTypeOK'
      BY <2>1, <2>4
    <3>2. StagesTested'
      BY <2>1, <2>4
    <3>3. QED
      BY <2>1, <2>2, <2>4, <3>1, <3>2
  <2>5. stage[t] \in Trees /\ Ancestor(stage[t], stage[t])
    BY PrefixOfItself
  <2>6. QED
    BY <1>6, <2>3, <2>4, <2>5 DEF Merge, Merged
<1>7. ASSUME NEW t \in Tasks, cleanup(t) PROVE WorktreeTypeOK' /\ StagingInv'
  <2>1. /\ at[t] \in {"cleanup", "failed"} /\ at' = [at EXCEPT ![t] = "end"]
        /\ stage' = [stage EXCEPT ![t] = <<>>] /\ UNCHANGED <<head, tested, name>>
        /\ result' = IF result[t] = "none" THEN [result EXCEPT ![t] = "rolled back"] ELSE result
    BY <1>7 DEF cleanup, Reach
  <2>2. /\ branches' \subseteq Tasks \X (Tasks \cup {NoTask})
        /\ \A u \in Tasks : u # t /\ Holds(u) => <<name[u], u>> \in branches'
    <3>1. CASE branches' = DeleteBranch(t)
      BY <3>1 DEF DeleteBranch
    <3>2. CASE branches' = {IF b[2] = t THEN <<b[1], NoTask>> ELSE b : b \in branches}
      <4>1. \A b \in branches : b[1] \in Tasks /\ b \in Tasks \X (Tasks \cup {NoTask})
        OBVIOUS
      <4>2. \A b \in branches : <<b[1], NoTask>> \in Tasks \X (Tasks \cup {NoTask})
        BY <4>1
      <4>3. ASSUME NEW x \in branches' PROVE x \in Tasks \X (Tasks \cup {NoTask})
        <5>1. PICK b \in branches : x = IF b[2] = t THEN <<b[1], NoTask>> ELSE b
          BY <3>2, <4>3
        <5>2. QED
          BY <4>1, <4>2, <5>1
      <4>4. ASSUME NEW u \in Tasks, u # t, Holds(u) PROVE <<name[u], u>> \in branches'
        <5>1. <<name[u], u>> \in branches /\ <<name[u], u>>[2] # t
          BY <4>4
        <5>2. QED
          BY <3>2, <5>1
      <4>5. QED
        BY <4>3, <4>4
    <3>3. CASE UNCHANGED branches
      BY <3>3
    <3>4. QED
      BY <1>7, <3>1, <3>2, <3>3 DEF cleanup
  <2>3. stage'[t] = <<>> /\ \A u \in Tasks : u # t => stage'[u] = stage[u]
    BY <2>1
  <2>4. WorktreeTypeOK'
    BY <2>1, <2>2, NothingInEmpty
  <2>5. BaseOnlyTested' /\ StagesTested'
    BY <2>1, <2>3, NothingInEmpty
  <2>6. BranchKept'
    BY <2>1, <2>2
  <2>7. QED
    BY <2>4, <2>5, <2>6
<1>8. CASE CommitByHand
  <2>1. head \in Trees /\ head' = Append(head, User) /\ User \in Tasks \cup {User}
    BY <1>8 DEF CommitByHand
  <2>2. head' \in Trees /\ \A t : Includes(head', t) => Includes(head, t) \/ t = User
    BY <2>1, TreeGrows
  <2>3. /\ tested' = tested \cup {head'}
        /\ UNCHANGED <<stage, at, result, name, branches>>
    BY <1>8 DEF CommitByHand
  <2>4. WorktreeTypeOK' /\ BranchKept'
    BY <2>2, <2>3
  <2>5. StagesTested' /\ BaseOnlyTested'
    BY <2>2, <2>3
  <2>6. QED
    BY <2>4, <2>5
<1>9. QED
  BY <1>1, <1>2, <1>3, <1>4, <1>5, <1>6, <1>7, <1>8 DEF WorktreeNext

(* The base repository receives tested trees only, contains no work that   *)
(* was rolled back, and no task loses its branch to the cleanup of         *)
(* another, for any number of tasks (worktree-staging.mjs).                *)
THEOREM WorkIsolated == WorktreeSpec => []StagingIsolated
<1>1. WorktreeSpec => [](WorktreeTypeOK /\ StagingInv)
  BY StagingInit, StagingStep, PTL DEF WorktreeSpec
<1>2. StagingInv => StagingIsolated
  BY DEF StagingInv
<1>3. QED
  BY <1>1, <1>2, PTL

-----------------------------------------------------------------------------
(* Installing                                                              *)

CutShortBefore == \E g \in Files : before[g] = "part"
\* What is staged is whole, unless the installed template was cut short already.
StagedWhole == \A f \in Files : staged[f] = "part" => CutShortBefore
\* A required file that may end up empty or missing was there before.
PromotionChecked ==
  \A f \in Required :
    /\ installed[f] = "none" => f \in unpromoted /\ staged[f] \notin {"none", "empty"}
    /\ staged[f] = "empty" => before[f] # "none"
    /\ installed[f] = "empty" => before[f] # "none"
    /\ installed[f] = "part" => CutShortBefore
InstallInv ==
  /\ progress # "idle" => outcome = "none"
  /\ progress = "idle" => staged = Empty
  /\ progress \in {"fetch", "checked", "aside"} => StagedWhole /\ installed = before
  /\ progress = "fetch" => dir # "cut"
  /\ progress \in {"fetch", "checked"} /\ dir # "there" => staged = Empty
  /\ progress = "checked" /\ dir # "cut" => \A f \in Required : Checked(f)
  /\ progress = "aside" /\ dir # "cut" => dir = "there" /\ \A f \in Required : Checked(f)
  /\ progress = "promote" =>
       IF dir = "cut" THEN /\ \A f \in Files : staged[f] \in {"none", "stray"}
                   /\ \A f \in Files : installed[f] \in {before[f], "stray"}
              ELSE PromotionChecked /\ StagedWhole
  /\ progress = "promote" => \A f \in unpromoted : staged[f] # "none"
  /\ progress \in {"aside", "promote", "restore"} /\ asideWhole => aside = before
  /\ InstallOrRestore

LEMMA InstallInit == InstallerInit => InstallerTypeOK /\ InstallInv
<1> SUFFICES ASSUME InstallerInit PROVE InstallerTypeOK /\ InstallInv
  OBVIOUS
<1> USE InstallerAssumption DEF InstallerInit, Contents
<1>1. Empty \in [Files -> Contents] /\ [f \in Files |-> "old"] \in [Files -> Contents]
  BY DEF Empty
<1>2. InstallerTypeOK
  <2>1. {installed, before, staged, aside} \subseteq [Files -> Contents]
    BY <1>1
  <2>2. force \in BOOLEAN /\ asideWhole \in BOOLEAN
    OBVIOUS
  <2>3. runs \in 0..MaxRuns
    <3>1. runs = 0 /\ MaxRuns \in Nat
      OBVIOUS
    <3>2. QED
      BY ONLY <3>1
  <2>4. /\ handled \subseteq Files /\ unpromoted \subseteq Files
        /\ progress \in {"idle", "fetch", "checked", "aside", "promote", "restore"}
        /\ outcome \in {"none", "done", "rolled back", "aborted"}
    OBVIOUS
  <2>5. QED
    BY <2>1, <2>2, <2>3, <2>4 DEF InstallerTypeOK
<1>3. InstallInv
  BY DEF InstallInv, InstallOrRestore
<1>4. QED
  BY <1>2, <1>3

InstallData ==
  /\ {installed, staged, aside, before} \subseteq [Files -> Contents]
  /\ dir \in {"there", "removed", "cut"}
  /\ progress \in {"idle", "fetch", "checked", "aside", "promote", "restore"}
  /\ handled \subseteq Files /\ unpromoted \subseteq Files
  /\ outcome \in {"none", "done", "rolled back", "aborted"} /\ runs \in 0..MaxRuns

LEMMA InstallTypes ==
  ASSUME InstallerTypeOK, [InstallerNext]_installerVars
  PROVE  InstallerTypeOK'
<1>a. InstallData /\ force \in BOOLEAN /\ asideWhole \in BOOLEAN
  BY DEF InstallerTypeOK, InstallData
<1>b. {"none", "old", "new", "empty", "part", "stray"} \subseteq Contents
  BY DEF Contents
<1>c. Empty \in [Files -> Contents]
  BY <1>b DEF Empty
<1>d. ASSUME InstallData', force' \in BOOLEAN, asideWhole' \in BOOLEAN PROVE InstallerTypeOK'
  BY <1>d, Zenon DEF InstallerTypeOK, InstallData
<1>1. CASE UNCHANGED installerVars
  BY <1>a, <1>1, <1>d DEF installerVars, InstallData
<1>2. CASE RunInstaller
  <2>1. runs' \in 0..MaxRuns
    <3>1. runs \in 0..MaxRuns /\ runs < MaxRuns /\ runs' = runs + 1 /\ MaxRuns \in Nat
      BY <1>2, <1>a, InstallerAssumption, Zenon DEF RunInstaller, InstallData
    <3>2. QED
      BY ONLY <3>1
  <2>2. InstallData'
    BY <1>2, <1>a, <2>1 DEF RunInstaller, InstallData
  <2>3. force' \in BOOLEAN /\ asideWhole' \in BOOLEAN
    BY <1>2, Zenon DEF RunInstaller
  <2>4. QED
    BY <1>d, <2>2, <2>3
<1>3. ASSUME NEW f \in Files, fetch_or_copy_file(f) PROVE InstallerTypeOK'
  <2>1. staged' \in {staged, [staged EXCEPT ![f] = "empty"], [staged EXCEPT ![f] = "new"]}
    BY <1>3 DEF fetch_or_copy_file
  <2>2. staged' \in [Files -> Contents]
    BY <1>a, <1>b, <2>1 DEF InstallData
  <2>3. InstallData'
    BY <1>3, <1>a, <2>2 DEF fetch_or_copy_file, InstallData
  <2>4. QED
    BY <1>3, <1>a, <1>d, <2>3 DEF fetch_or_copy_file
<1>4. CASE extract_archive
  <2>1. staged' \in [Files -> Contents]
    BY <1>4, <1>a, <1>b DEF extract_archive, InstallData
  <2>2. InstallData'
    BY <1>4, <1>a, <2>1 DEF extract_archive, InstallData
  <2>3. QED
    BY <1>4, <1>a, <1>d, <2>2 DEF extract_archive
<1>5. CASE stage_settings
  <2>1. staged' \in [Files -> Contents]
    <3>1. staged[Template] \in Contents /\ installed[Template] \in Contents
      BY <1>a, InstallerAssumption DEF InstallData
    <3>2. staged' = staged \/ \E c \in Contents : staged' = [staged EXCEPT ![Settings] = c]
      BY <1>5, <3>1 DEF stage_settings
    <3>3. QED
      BY <1>a, <3>2 DEF InstallData
  <2>2. InstallData'
    BY <1>5, <1>a, <2>1, InstallerAssumption DEF stage_settings, InstallData
  <2>3. QED
    BY <1>5, <1>a, <1>d, <2>2 DEF stage_settings
<1>6. CASE Interrupted
  <2>1. InstallData'
    BY <1>6, <1>a, <1>c DEF Interrupted, InstallData
  <2>2. QED
    BY <1>6, <1>a, <1>d, <2>1 DEF Interrupted
<1>7. ASSUME progress' = "idle", outcome' \in {"none", "done", "rolled back", "aborted"},
             staged' = Empty, aside' = Empty, handled' = {}, unpromoted' = {}, dir' = dir,
             UNCHANGED <<force, runs, before>>,
             asideWhole' \in BOOLEAN, installed' \in [Files -> Contents]
      PROVE  InstallerTypeOK'
  <2>1. InstallData'
    BY <1>7, <1>a, <1>c DEF InstallData
  <2>2. force' \in BOOLEAN
    BY <1>7, <1>a
  <2>3. QED
    BY <1>7, <1>d, <2>1, <2>2
<1>8. CASE Abort_installation \/ Nothing_staged \/ Promoted
  <2>1. /\ \E how \in {"done", "aborted"} : Quit(how)
        /\ UNCHANGED <<installed, force, runs, before, asideWhole>>
    BY <1>8 DEF Abort_installation, Nothing_staged, Promoted
  <2>2. installed' \in [Files -> Contents]
    BY <1>a, <2>1 DEF InstallData
  <2>3. QED
    BY <1>7, <1>a, <2>1, <2>2 DEF Quit
<1>9. CASE verify_staged
  <2>1. InstallData'
    BY <1>9, <1>a DEF verify_staged, InstallData
  <2>2. QED
    BY <1>9, <1>a, <1>d, <2>1 DEF verify_staged
<1>10. CASE Put_aside
  <2>1. PICK missed \in SUBSET Files, c \in {"none", "part"} :
          aside' = [f \in Files |-> IF f \in missed /\ installed[f] # "none" THEN c ELSE installed[f]]
    BY <1>10 DEF Put_aside
  <2>2. aside' \in [Files -> Contents]
    BY <1>a, <1>b, <2>1 DEF InstallData
  <2>3. InstallData'
    BY <1>10, <1>a, <2>2 DEF Put_aside, InstallData
  <2>4. asideWhole' \in BOOLEAN /\ force' = force
    BY <1>10, Zenon DEF Put_aside
  <2>5. QED
    BY <1>a, <1>d, <2>3, <2>4
<1>11. CASE Enter_stage
  <2>1. staged' \in [Files -> Contents]
    <3>1. CASE staged' = staged
      BY <1>a, <3>1 DEF InstallData
    <3>2. CASE \E strays \in SUBSET Files :
                 staged' = [f \in Files |-> IF f \in strays THEN "stray" ELSE "none"]
      BY <1>b, <3>2
    <3>3. QED
      BY <1>11, <3>1, <3>2 DEF Enter_stage
  <2>2. InstallData'
    BY <1>11, <1>a, <2>1 DEF Enter_stage, InstallData
  <2>3. QED
    BY <1>11, <1>a, <1>d, <2>2 DEF Enter_stage
<1>12. ASSUME NEW f \in Files, Promote_file(f) PROVE InstallerTypeOK'
  <2>1. installed' \in {installed, [installed EXCEPT ![f] = staged[f]]}
    BY <1>12 DEF Promote_file
  <2>2. installed' \in [Files -> Contents]
    BY <1>a, <2>1 DEF InstallData
  <2>3. InstallData'
    BY <1>12, <1>a, <2>2 DEF Promote_file, InstallData
  <2>4. QED
    BY <1>12, <1>a, <1>d, <2>3 DEF Promote_file
<1>13. ASSUME NEW f \in Files, CopyFails(f) PROVE InstallerTypeOK'
  <2>1. installed' \in {[installed EXCEPT ![f] = installed[f]], [installed EXCEPT ![f] = "part"]}
    BY <1>13 DEF CopyFails
  <2>2. installed' \in [Files -> Contents]
    BY <1>a, <1>b, <2>1 DEF InstallData
  <2>3. InstallData'
    BY <1>13, <1>a, <2>2 DEF CopyFails, InstallData
  <2>4. QED
    BY <1>13, <1>a, <1>d, <2>3 DEF CopyFails
<1>14. CASE Roll_back
  <2>1. PICK missed \in SUBSET {f \in Files : aside[f] # "none"} :
          /\ asideWhole' = (asideWhole /\ missed = {})
          /\ \/ installed' = [f \in Files |-> IF f \in missed THEN installed[f] ELSE Restored[f]]
             \/ installed' = [f \in Files |-> IF f \in missed THEN "part" ELSE Restored[f]]
    BY <1>14 DEF Roll_back
  <2>2. \A f \in Files : Restored[f] \in Contents /\ installed[f] \in Contents
    BY <1>a DEF Restored, InstallData
  <2>3. installed' \in [Files -> Contents]
    BY <1>b, <2>1, <2>2
  <2>4. asideWhole' \in BOOLEAN
    BY <2>1, Zenon
  <2>5. QED
    BY <1>7, <1>14, <2>3, <2>4 DEF Roll_back, Quit
<1>15. CASE KillInstaller
  <2>1. installed' = installed \/ \E f \in Files : installed' = [installed EXCEPT ![f] = "part"]
    BY <1>15 DEF KillInstaller
  <2>2. installed' \in [Files -> Contents]
    BY <1>a, <1>b, <2>1 DEF InstallData
  <2>3. QED
    BY <1>7, <1>15, <1>a, <2>2 DEF KillInstaller, Quit
<1>16. QED
  BY <1>1, <1>2, <1>3, <1>4, <1>5, <1>6, <1>8, <1>9, <1>10, <1>11, <1>12, <1>13, <1>14, <1>15
  DEF InstallerNext

\* In the middle of a run nothing is promised, so that its invariants are all there is to it.
LEMMA InstallGoesOn ==
  ASSUME outcome' = "none"
  PROVE  InstallOrRestore'
BY DEF InstallOrRestore

LEMMA InstallStep ==
  ASSUME InstallerTypeOK, InstallInv, [InstallerNext]_installerVars
  PROVE  InstallerTypeOK' /\ InstallInv'
<1> SUFFICES InstallInv'
  BY InstallTypes
<1>b. /\ \A f \in Files : {staged[f], installed[f], aside[f], before[f]} \subseteq Contents
      /\ {staged, installed, aside, before} \subseteq [Files -> Contents] /\ unpromoted \subseteq Files
      /\ dir \in {"there", "removed", "cut"}
  BY DEF InstallerTypeOK
<1>c. Required \subseteq Files /\ Template \in Files /\ Settings \in Files
  BY InstallerAssumption
<1>1. CASE UNCHANGED installerVars
  BY <1>1 DEF installerVars, InstallInv, StagedWhole, CutShortBefore, Checked,
                    PromotionChecked, InstallOrRestore
<1>2. CASE RunInstaller
  <2>1. /\ progress' = "fetch" /\ outcome' = "none" /\ installed' = installed /\ before' = installed
        /\ staged' = Empty /\ dir' = "there"
    BY <1>2 DEF RunInstaller, InstallInv
  <2>2. StagedWhole'
    BY <2>1 DEF StagedWhole, Empty
  <2>3. QED
    BY <2>1, <2>2, InstallGoesOn DEF InstallInv
\* In the fetch, what is staged is whole and the installation untouched.
<1>3. ASSUME progress = "fetch", progress' = "fetch",
             UNCHANGED <<installed, before, outcome>>,
             dir' # "cut", dir' # "there" => staged' = Empty,
             \A f \in Files : staged'[f] = "part" => staged[f] = "part" \/ installed[f] = "part"
      PROVE  InstallInv'
  <2>1. StagedWhole'
    BY <1>3 DEF InstallInv, StagedWhole, CutShortBefore
  <2>2. outcome' = "none" /\ installed' = before'
    BY <1>3 DEF InstallInv
  <2>3. QED
    BY <1>3, <2>1, <2>2, InstallGoesOn DEF InstallInv
<1>4. ASSUME NEW f \in Files, fetch_or_copy_file(f) PROVE InstallInv'
  <2>1. \/ staged' = staged
        \/ staged' = [staged EXCEPT ![f] = "empty"] \/ staged' = [staged EXCEPT ![f] = "new"]
    BY <1>4 DEF fetch_or_copy_file
  <2>2. \A g \in Files : staged'[g] = "part" => staged[g] = "part"
    BY <1>b, <2>1
  <2>3. dir' # "cut" /\ (dir' # "there" => staged' = Empty)
    BY <1>4 DEF fetch_or_copy_file, InstallInv
  <2>4. QED
    BY <1>3, <1>4, <2>2, <2>3 DEF fetch_or_copy_file
<1>5. CASE extract_archive
  <2>1. \A g \in Files : staged'[g] = "part" => staged[g] = "part"
    BY <1>5 DEF extract_archive
  <2>2. QED
    BY <1>3, <1>5, <2>1 DEF extract_archive
<1>6. CASE stage_settings
  <2>1. \A g \in Files : staged'[g] = staged[g] \/ staged'[g] \in {staged[Template], installed[Template]}
    BY <1>6, <1>b, <1>c DEF stage_settings
  <2>2. \A g \in Files : staged'[g] = "part" => \E h \in Files : staged[h] = "part" \/ installed[h] = "part"
    BY <2>1, <1>c
  <2>3. /\ progress = "fetch" /\ progress' = "fetch"
        /\ UNCHANGED <<installed, before, outcome, dir>>
    BY <1>6 DEF stage_settings
  <2>4. StagedWhole'
    BY <2>2, <2>3 DEF InstallInv, StagedWhole, CutShortBefore
  <2>5. dir # "there" => staged' = Empty
    <3>1. ASSUME dir # "there" PROVE staged' = Empty
      <4>1. staged = Empty /\ staged[Template] = "none" /\ staged[Settings] = "none"
        BY <1>c, <2>3, <3>1 DEF InstallInv, Empty
      <4>2. staged' = staged \/ staged' = [staged EXCEPT ![Settings] = "none"]
        BY <1>6, <3>1, <4>1 DEF stage_settings
      <4>3. QED
        BY <1>b, <4>1, <4>2
    <3>2. QED
      BY <3>1
  <2>6. QED
    BY <2>3, <2>4, <2>5, InstallGoesOn DEF InstallInv
<1>7. CASE Interrupted
  <2>1. /\ progress \in {"fetch", "checked", "aside"} /\ staged' = Empty
        /\ dir' = IF progress = "fetch" THEN "removed" ELSE "cut"
        /\ UNCHANGED <<installed, aside, progress, outcome, before, asideWhole>>
    BY <1>7 DEF Interrupted
  <2>2. StagedWhole'
    BY <2>1 DEF StagedWhole, Empty
  <2>3. QED
    BY <2>1, <2>2, InstallGoesOn DEF InstallInv
<1>8. ASSUME progress' = "idle", staged' = Empty, InstallOrRestore' PROVE InstallInv'
  BY <1>8 DEF InstallInv
<1>9. CASE Abort_installation
  BY <1>8, <1>9 DEF Abort_installation, Quit, InstallOrRestore
<1>10. CASE verify_staged
  <2>1. /\ progress = "fetch" /\ progress' = "checked"
        /\ UNCHANGED <<installed, staged, aside, dir, outcome, before, asideWhole>>
        /\ \A f \in Required : Checked(f)
    BY <1>10 DEF verify_staged
  <2>2. StagedWhole' /\ \A f \in Required : Checked(f)'
    BY <2>1 DEF InstallInv, StagedWhole, CutShortBefore, Checked
  <2>3. QED
    BY <2>1, <2>2, InstallGoesOn DEF InstallInv
<1>11. CASE Nothing_staged
  <2>1. /\ progress = "checked" /\ dir # "there" /\ dir' = dir /\ outcome' = "done"
        /\ progress' = "idle" /\ staged' = Empty /\ installed' = installed /\ before' = before
    BY <1>11 DEF Nothing_staged, Quit
  <2>2. installed = before
    BY <2>1 DEF InstallInv
  <2>3. dir # "cut" => \A f \in Required : installed[f] # "none"
    <3>1. dir # "cut" => \A f \in Required : Checked(f) /\ staged[f] = "none"
      BY <1>c, <2>1 DEF InstallInv, Empty
    <3>2. QED
      BY <3>1 DEF Checked
  <2>4. InstallOrRestore'
    BY <1>c, <2>1, <2>2, <2>3 DEF InstallOrRestore
  <2>5. QED
    BY <1>8, <2>1, <2>4
<1>12. CASE Put_aside
  <2>1. /\ progress = "checked" /\ dir = "there" /\ progress' = "aside"
        /\ asideWhole' = (aside' = installed)
        /\ UNCHANGED <<installed, staged, dir, outcome, before>>
    BY <1>12 DEF Put_aside
  <2>2. StagedWhole' /\ \A f \in Required : Checked(f)'
    BY <2>1 DEF InstallInv, StagedWhole, CutShortBefore, Checked
  <2>3. QED
    BY <2>1, <2>2, InstallGoesOn DEF InstallInv
<1>13. CASE Enter_stage
  <2>1. /\ progress = "aside" /\ progress' = "promote"
        /\ unpromoted' = {f \in Files : staged'[f] # "none"}
        /\ UNCHANGED <<installed, aside, dir, outcome, before, asideWhole>>
    BY <1>13 DEF Enter_stage
  <2>2. installed = before /\ StagedWhole
    BY <2>1 DEF InstallInv
  <2>3. CASE dir # "cut"
    <3>1. staged' = staged /\ \A f \in Required : Checked(f)
      BY <1>13, <2>1, <2>3 DEF Enter_stage, InstallInv
    <3>2. PromotionChecked' /\ StagedWhole'
      BY <1>c, <2>1, <2>2, <3>1 DEF Checked, PromotionChecked, StagedWhole, CutShortBefore
    <3>3. QED
      BY <2>1, <2>3, <3>2, InstallGoesOn DEF InstallInv
  <2>4. CASE dir = "cut"
    <3>1. \A f \in Files : staged'[f] \in {"none", "stray"}
      BY <1>13, <2>4 DEF Enter_stage
    <3>2. QED
      BY <2>1, <2>2, <2>4, <3>1, InstallGoesOn DEF InstallInv
  <2>5. QED
    BY <2>3, <2>4
<1>14. ASSUME NEW f \in Files, Promote_file(f) PROVE InstallInv'
  <2>1. /\ progress = "promote" /\ f \in unpromoted /\ unpromoted' = unpromoted \ {f}
        /\ UNCHANGED <<staged, aside, dir, progress, outcome, before, asideWhole>>
    BY <1>14 DEF Promote_file
  <2>2. \/ installed' = [installed EXCEPT ![f] = staged[f]]
        \/ installed' = installed /\ installed[f] # "none"
    BY <1>14 DEF Promote_file, Wanted
  <2>3. /\ \A g \in Files : g # f => installed'[g] = installed[g]
        /\ installed'[f] = staged[f] \/ (installed'[f] = installed[f] /\ installed[f] # "none")
    BY <1>b, <2>2
  <2>4. staged[f] # "none" /\ \A g \in unpromoted' : staged'[g] # "none"
    BY <2>1 DEF InstallInv
  <2>5. CASE dir = "cut"
    <3>1. \A g \in Files : installed'[g] \in {before[g], "stray"} /\ staged[g] \in {"none", "stray"}
      BY <2>1, <2>3, <2>4, <2>5 DEF InstallInv
    <3>2. QED
      BY <2>1, <2>4, <2>5, <3>1, InstallGoesOn DEF InstallInv
  <2>6. CASE dir # "cut"
    <3>1. PromotionChecked /\ StagedWhole
      BY <2>1, <2>6 DEF InstallInv
    <3>2. PromotionChecked' /\ StagedWhole'
      BY <1>c, <2>1, <2>3, <2>4, <3>1 DEF PromotionChecked, StagedWhole, CutShortBefore
    <3>3. QED
      BY <2>1, <2>4, <2>6, <3>2, InstallGoesOn DEF InstallInv
  <2>7. QED
    BY <2>5, <2>6
<1>15. ASSUME NEW f \in Files, CopyFails(f) PROVE InstallInv'
  <2>1. /\ progress = "promote" /\ progress' = "restore"
        /\ UNCHANGED <<staged, aside, outcome, before, asideWhole>>
    BY <1>15 DEF CopyFails
  <2>2. QED
    BY <2>1, InstallGoesOn DEF InstallInv
<1>16. CASE Promoted
  <2>1. /\ progress = "promote" /\ unpromoted = {} /\ outcome' = "done" /\ dir' = dir
        /\ progress' = "idle" /\ staged' = Empty /\ installed' = installed /\ before' = before
    BY <1>16 DEF Promoted, Quit
  <2>2. CASE dir = "cut"
    <3>1. \A f \in Files : installed[f] \in {before[f], "stray"}
      BY <2>1, <2>2 DEF InstallInv
    <3>2. InstallOrRestore'
      BY <2>1, <2>2, <3>1 DEF InstallOrRestore
    <3>3. QED
      BY <1>8, <2>1, <3>2
  <2>3. CASE dir # "cut"
    <3>1. PromotionChecked
      BY <2>1, <2>3 DEF InstallInv
    <3>2. InstallOrRestore'
      BY <2>1, <2>3, <3>1 DEF PromotionChecked, CutShortBefore, InstallOrRestore
    <3>3. QED
      BY <1>8, <2>1, <3>2
  <2>4. QED
    BY <2>2, <2>3
<1>17. CASE Roll_back
  <2>1. /\ progress = "restore" /\ outcome' = "rolled back" /\ before' = before
        /\ progress' = "idle" /\ staged' = Empty
    BY <1>17 DEF Roll_back, Quit
  <2>2. ASSUME asideWhole', NEW f \in Files, before[f] # "none" PROVE installed'[f] = before[f]
    <3>1. asideWhole /\ installed'[f] = Restored[f]
      BY <1>17, <2>2 DEF Roll_back
    <3>2. aside = before
      BY <2>1, <3>1 DEF InstallInv
    <3>3. QED
      BY <2>2, <3>1, <3>2 DEF Restored
  <2>3. InstallOrRestore'
    BY <2>1, <2>2 DEF InstallOrRestore
  <2>4. QED
    BY <1>8, <2>1, <2>3
<1>18. CASE KillInstaller
  BY <1>8, <1>18, InstallGoesOn DEF KillInstaller, Quit
<1>19. QED
  BY <1>1, <1>2, <1>4, <1>5, <1>6, <1>7, <1>9, <1>10, <1>11, <1>12, <1>13, <1>14, <1>15,
     <1>16, <1>17, <1>18
  DEF InstallerNext

(* A run that reaches its end leaves every required file, unless the       *)
(* staging directory went after the check, when nothing was promoted; and  *)
(* a failed promotion leaves the files there were, if the copy aside and   *)
(* its restoring were whole: for any files, any number of runs and an      *)
(* interrupt at any point of them (install_dsh.sh).                        *)
THEOREM InstalledOrRestored == InstallerSpec => []InstallOrRestore
<1>1. InstallerSpec => [](InstallerTypeOK /\ InstallInv)
  BY InstallInit, InstallStep, PTL DEF InstallerSpec
<1>2. InstallInv => InstallOrRestore
  BY DEF InstallInv
<1>3. QED
  BY <1>1, <1>2, PTL

-----------------------------------------------------------------------------
(* Stores                                                                  *)

\* A file that does not parse was left by a write that failed half-way.
VaultInv == VaultTruthful /\ (primary = Torn => torn > 0)

LEMMA VaultStart == VaultInit => VaultTypeOK /\ VaultInv
<1> SUFFICES ASSUME VaultInit PROVE VaultTypeOK /\ VaultInv
  OBVIOUS
<1> USE VaultAssumption DEF VaultInit
<1>1. emptyVault \in Vaults
  BY DEF emptyVault, Vaults
<1>2. VaultTypeOK
  <2>1. blind \in BOOLEAN
    BY DEF VaultInit
  <2>2. /\ primary \in Vaults \cup {Absent, Torn} /\ legacy \in Vaults \cup {Absent}
        /\ torn \in 0..MaxTorn /\ known \in Vaults
    BY <1>1
  <2>3. QED
    BY ONLY <2>1, <2>2 DEF VaultTypeOK
<1>3. Stored = known
  BY DEF Stored, Inherited
<1>4. VaultInv
  BY <1>3 DEF VaultInv, VaultTruthful
<1>5. QED
  BY <1>2, <1>4

\* What is read is what is stored, or else holds no key but those of the v1 vault.
LEMMA ReadVault ==
  ASSUME VaultTypeOK, NEW read \in loadVault
  PROVE  /\ {read, Stored, Inherited, emptyVault} \subseteq Vaults
         /\ \A q \in Providers : emptyVault[q] = NoKey
         /\ read # Stored => \A q \in Providers : read[q] \in {NoKey, Inherited[q]}
<1>1. emptyVault \in Vaults /\ \A q \in Providers : emptyVault[q] = NoKey
  BY DEF emptyVault, Vaults
<1>2. Inherited \in Vaults
  BY <1>1 DEF VaultTypeOK, Inherited
<1>3. Stored \in Vaults
  BY <1>1, <1>2, VaultAssumption DEF VaultTypeOK, Stored
<1>4. QED
  BY <1>1, <1>2, <1>3 DEF loadVault

LEMMA VaultStep ==
  ASSUME VaultTypeOK, VaultInv, [VaultNext]_vaultVars
  PROVE  VaultTypeOK' /\ VaultInv'
<1>1. CASE UNCHANGED vaultVars
  BY <1>1 DEF vaultVars, VaultTypeOK, VaultInv, VaultTruthful, Stored, Inherited
<1>2. ASSUME NEW p \in Providers, NEW k \in Keys \cup {NoKey}, NEW read \in loadVault,
             Change(p, k, read)
      PROVE  VaultTypeOK' /\ VaultInv'
  <2>1. /\ known \in Vaults /\ [known EXCEPT ![p] = k] \in Vaults
        /\ read \in Vaults /\ [read EXCEPT ![p] = k] \in Vaults
    BY ReadVault DEF VaultTypeOK, Vaults
  <2>2. /\ legacy' = legacy /\ Inherited' = Inherited
        /\ blind' = (blind \/ read # Stored)
    BY <1>2 DEF Change, Inherited
  <2>3. blind' \in BOOLEAN
    BY <2>2 DEF VaultTypeOK
  <2>4. CASE /\ primary' = [read EXCEPT ![p] = k] /\ known' = [known EXCEPT ![p] = k]
             /\ UNCHANGED torn
    <3>1. VaultTypeOK'
      BY <2>1, <2>2, <2>3, <2>4 DEF VaultTypeOK
    <3>2. Stored' = primary' /\ primary' # Torn
      BY <2>1, <2>4, VaultAssumption DEF Stored
    <3>3. ASSUME NEW q \in Providers
          PROVE  \/ Stored'[q] = known'[q]
                 \/ torn' > 0 /\ Stored'[q] = NoKey
                 \/ blind' /\ Stored'[q] \in {NoKey, Inherited'[q]}
      <4>1. /\ Stored'[q] = IF q = p THEN k ELSE read[q]
            /\ known'[q] = IF q = p THEN k ELSE known[q]
        BY <2>1, <2>4, <3>2 DEF Vaults
      <4>2. CASE q = p
        BY <4>1, <4>2
      <4>3. CASE q # p /\ read = Stored
        <5>1. \/ Stored[q] = known[q]
              \/ torn > 0 /\ Stored[q] = NoKey
              \/ blind /\ Stored[q] \in {NoKey, Inherited[q]}
          BY DEF VaultInv, VaultTruthful
        <5>2. QED
          BY <2>2, <2>4, <4>1, <4>3, <5>1
      <4>4. CASE q # p /\ read # Stored
        <5>1. read[q] \in {NoKey, Inherited[q]}
          BY <4>4, ReadVault
        <5>2. QED
          BY <2>2, <4>1, <4>4, <5>1
      <4>5. QED
        BY <4>2, <4>3, <4>4
    <3>4. QED
      BY <3>1, <3>2, <3>3 DEF VaultInv, VaultTruthful
  <2>5. CASE UNCHANGED <<primary, known, torn>>
    <3>1. Stored' = Stored
      BY <2>2, <2>5 DEF Stored
    <3>2. VaultTypeOK'
      BY <2>2, <2>3, <2>5 DEF VaultTypeOK
    <3>3. QED
      BY <2>2, <2>5, <3>1, <3>2 DEF VaultInv, VaultTruthful
  <2>6. CASE torn < MaxTorn /\ torn' = torn + 1 /\ primary' = Torn /\ UNCHANGED known
    <3>1. torn' \in 0..MaxTorn /\ torn' > 0
      BY <2>6, VaultAssumption DEF VaultTypeOK
    <3>2. VaultTypeOK'
      BY <2>2, <2>3, <2>6, <3>1 DEF VaultTypeOK
    <3>3. Stored' = emptyVault
      BY <2>6, VaultAssumption DEF Stored, emptyVault
    <3>4. \A q \in Providers : Stored'[q] = NoKey
      BY <3>3, ReadVault
    <3>5. QED
      BY <2>6, <3>1, <3>2, <3>4 DEF VaultInv, VaultTruthful
  <2>7. QED
    BY <1>2, <2>4, <2>5, <2>6 DEF Change, saveVault
<1>3. QED
  BY <1>1, <1>2 DEF VaultNext, setApiKey, deleteApiKey

(* A stored key is as it was last set, or gone after a torn write, or, once *)
(* a change was made on a failed read, gone or as in the v1 vault: for any  *)
(* providers, keys and number of torn writes (byok-vault.js).               *)
THEOREM VaultKeepsKeys == VaultSpec => []VaultTruthful
<1>1. VaultSpec => [](VaultTypeOK /\ VaultInv)
  BY VaultStart, VaultStep, PTL DEF VaultSpec
<1>2. VaultInv => VaultTruthful
  BY DEF VaultInv
<1>3. QED
  BY <1>1, <1>2, PTL

LEMMA IncidentsStart == LedgerInit => LedgerTypeOK /\ IncidentsKept
BY DEF LedgerInit, LedgerTypeOK, IncidentsKept

LEMMA IncidentsStep ==
  ASSUME LedgerTypeOK, IncidentsKept, [LedgerNext]_ledgerVars
  PROVE  LedgerTypeOK' /\ IncidentsKept'
<1>1. CASE UNCHANGED ledgerVars
  BY <1>1 DEF ledgerVars, LedgerTypeOK, IncidentsKept, Readable
<1>2. Readable(onDisk) \subseteq Incidents
  BY DEF LedgerTypeOK, Readable
<1>3. ASSUME NEW s \in Sessions, StartSession(s) \/ EndSession(s)
      PROVE  LedgerTypeOK' /\ IncidentsKept'
  <2>1. UNCHANGED <<onDisk, blocked, overwrote>> /\ up' \subseteq Sessions
        /\ kept' \in {kept, [kept EXCEPT ![s] = Readable(onDisk)]}
    BY <1>3 DEF StartSession, EndSession, LedgerTypeOK
  <2>2. QED
    BY <1>2, <2>1 DEF LedgerTypeOK, IncidentsKept, Readable
<1>4. ASSUME NEW s \in Sessions, NEW i \in Incidents, Quarantine(s, i)
      PROVE  LedgerTypeOK' /\ IncidentsKept'
  <2>1. kept[s] \subseteq Incidents /\ onDisk' = kept[s] \cup {i}
    BY <1>4 DEF LedgerTypeOK, Quarantine, saveLedger
  <2>2. Readable(onDisk') = kept[s] \cup {i}
    BY <2>1, QuarantineAssumption DEF Readable, Unreadable
  <2>3. IncidentsKept'
    BY <1>4, <2>2 DEF IncidentsKept, Quarantine
  <2>4. LedgerTypeOK'
    BY <1>2, <1>4, <2>1 DEF LedgerTypeOK, Quarantine
  <2>5. QED
    BY <2>3, <2>4
<1>5. ASSUME NEW s \in Sessions, NEW i \in Incidents, QuarantineUnsaved(s, i)
      PROVE  LedgerTypeOK' /\ IncidentsKept'
  <2>1. LedgerTypeOK'
    <3>1. /\ kept' = [kept EXCEPT ![s] = @ \cup {i}] /\ up' = up
          /\ blocked' = blocked \cup {<<s, i>>} /\ onDisk' \in {onDisk, Unreadable}
      BY <1>5 DEF QuarantineUnsaved
    <3>2. overwrote' \subseteq Incidents
      BY <1>2, <1>5 DEF LedgerTypeOK, QuarantineUnsaved
    <3>3. QED
      BY <3>1, <3>2 DEF LedgerTypeOK
  <2>2. IncidentsKept'
    BY <1>5 DEF IncidentsKept, QuarantineUnsaved
  <2>3. QED
    BY <2>1, <2>2
<1>6. QED
  BY <1>1, <1>3, <1>4, <1>5 DEF LedgerNext

(* An incident leaves the ledger only with a failed save, or when a        *)
(* session that is older than it writes its own list: for any sessions and *)
(* incidents (context-quarantine.mjs).                                     *)
THEOREM IncidentsStayFiled == LedgerSpec => []IncidentsKept
BY IncidentsStart, IncidentsStep, PTL DEF LedgerSpec

\* What was saved last is what is in memory, but for servers without tools.
RegistryInv == UnregisteredStaysGone /\ (~lagging => saved.tools = tools)

LEMMA RegistryStart == RegistryInit => RegistryTypeOK /\ RegistryInv
<1>1. NoEntry \in Entries /\ \A a \in Actions : NoEntry[a] = NoServer
  BY DEF NoEntry, Entries
<1>2. RegistryInit => RegistryTypeOK
  <2>1. RegistryInit => lagging \in BOOLEAN
    BY Zenon DEF RegistryInit
  <2>2. RegistryInit => /\ servers \subseteq Servers /\ tools \in Entries /\ handlers \in Entries
                        /\ saved \in [servers : SUBSET Servers, tools : Entries]
                        /\ dropped \subseteq Servers
    BY <1>1 DEF RegistryInit
  <2>3. QED
    BY <2>1, <2>2, Zenon DEF RegistryTypeOK
<1>3. RegistryInit => RegistryInv
  BY <1>1 DEF RegistryInit, RegistryInv, UnregisteredStaysGone, Callable
<1>4. QED
  BY <1>2, <1>3

LEMMA BoundEntries ==
  ASSUME NEW map \in Entries, NEW keys, NEW s \in Servers \cup {NoServer}
  PROVE  /\ Bound(map, keys, s) \in Entries
         /\ \A a \in Actions : Bound(map, keys, s)[a] = IF a \in keys THEN s ELSE map[a]
BY DEF Entries, Bound

LEMMA Saving ==
  ASSUME RegistryTypeOK, NEW ss \in SUBSET Servers, NEW ts \in Entries, saveRegistry(ss, ts)
  PROVE  /\ saved' \in [servers : SUBSET Servers, tools : Entries] /\ lagging' \in BOOLEAN
         /\ ~lagging' => saved'.tools = ts
<1>1. CASE saved' = [servers |-> ss, tools |-> ts] /\ lagging' = FALSE
  BY <1>1
<1>2. CASE UNCHANGED saved /\ lagging' = TRUE
  BY <1>2 DEF RegistryTypeOK
<1>3. QED
  BY <1>1, <1>2 DEF saveRegistry

LEMMA RegistryStep ==
  ASSUME RegistryTypeOK, RegistryInv, [RegistryNext]_registryVars
  PROVE  RegistryTypeOK' /\ RegistryInv'
<1>a. /\ servers \subseteq Servers /\ tools \in Entries /\ handlers \in Entries
      /\ dropped \subseteq Servers
      /\ saved \in [servers : SUBSET Servers, tools : Entries] /\ lagging \in BOOLEAN
  BY DEF RegistryTypeOK
<1>b. /\ \A a \in Actions : tools[a] \notin dropped
      /\ \A a \in Actions : handlers[a] # NoServer => tools[a] # NoServer
      /\ ~lagging => saved.tools = tools
  BY DEF RegistryInv, UnregisteredStaysGone, Callable
<1>c. NoServer \notin Servers
  BY RegistryAssumption
<1>1. CASE UNCHANGED registryVars
  BY <1>1 DEF registryVars, RegistryTypeOK, RegistryInv, UnregisteredStaysGone, Callable
<1>2. ASSUME servers' \in SUBSET Servers, tools' \in Entries, handlers' \in Entries,
             dropped' \in SUBSET Servers,
             saved' \in [servers : SUBSET Servers, tools : Entries], lagging' \in BOOLEAN,
             ~lagging' => saved'.tools = tools',
             \A a \in Actions : tools'[a] \notin dropped' /\ (handlers'[a] # NoServer => tools'[a] # NoServer)
      PROVE  RegistryTypeOK' /\ RegistryInv'
  <2>1. RegistryTypeOK'
    BY <1>2, Zenon DEF RegistryTypeOK
  <2>2. UnregisteredStaysGone'
    BY <1>2 DEF UnregisteredStaysGone, Callable
  <2>3. RegistryInv'
    BY <1>2, <2>2, Zenon DEF RegistryInv
  <2>4. QED
    BY <2>1, <2>3
<1>3. ASSUME NEW s \in Servers, registerServer(s) PROVE RegistryTypeOK' /\ RegistryInv'
  <2>1. PICK new \in SUBSET ToolNames, bound \in SUBSET ToolNames :
          /\ bound \subseteq new
          /\ tools' = Bound(tools, Named(s, new), s)
          /\ handlers' = Bound(handlers, Named(s, bound), s)
          /\ saveRegistry(servers', tools') \/ (new = {} /\ UNCHANGED <<saved, lagging>>)
    BY <1>3 DEF registerServer
  <2>2. servers' \in SUBSET Servers /\ dropped' = dropped \ {s}
    BY <1>a, <1>3 DEF registerServer
  <2>3. /\ tools' \in Entries /\ handlers' \in Entries
        /\ \A a \in Actions : tools'[a] = IF a \in Named(s, new) THEN s ELSE tools[a]
        /\ \A a \in Actions : handlers'[a] = IF a \in Named(s, bound) THEN s ELSE handlers[a]
    BY <1>a, <2>1, BoundEntries
  <2>4. Named(s, bound) \subseteq Named(s, new)
    BY <2>1 DEF Named
  <2>5. new = {} => tools' = tools
    <3>1. new = {} => Named(s, new) = {}
      BY DEF Named
    <3>2. QED
      BY <1>a, <2>1, <3>1 DEF Bound, Entries
  <2>6. /\ saved' \in [servers : SUBSET Servers, tools : Entries] /\ lagging' \in BOOLEAN
        /\ ~lagging' => saved'.tools = tools'
    <3>1. CASE saveRegistry(servers', tools')
      BY <2>2, <2>3, <3>1, Saving
    <3>2. CASE new = {} /\ UNCHANGED <<saved, lagging>>
      BY <1>a, <1>b, <2>5, <3>2
    <3>3. QED
      BY <2>1, <3>1, <3>2
  <2>7. \A a \in Actions : tools'[a] \notin dropped' /\ (handlers'[a] # NoServer => tools'[a] # NoServer)
    BY <1>b, <1>c, <2>2, <2>3, <2>4
  <2>8. dropped' \in SUBSET Servers
    BY <1>a, <2>2
  <2>9. QED
    BY <1>2, <2>2, <2>3, <2>6, <2>7, <2>8
<1>4. ASSUME NEW s \in Servers, unregisterServer(s) PROVE RegistryTypeOK' /\ RegistryInv'
  <2>1. /\ servers' \in SUBSET Servers /\ dropped' = dropped \cup {s}
        /\ tools' = Bound(tools, EntriesOf(s), NoServer)
        /\ handlers' = Bound(handlers, EntriesOf(s), NoServer)
        /\ saveRegistry(servers', tools')
    BY <1>a, <1>4 DEF unregisterServer
  <2>2. /\ tools' \in Entries /\ handlers' \in Entries
        /\ \A a \in Actions : tools'[a] = IF a \in EntriesOf(s) THEN NoServer ELSE tools[a]
        /\ \A a \in Actions : handlers'[a] = IF a \in EntriesOf(s) THEN NoServer ELSE handlers[a]
    BY <1>a, <2>1, BoundEntries
  <2>3. /\ saved' \in [servers : SUBSET Servers, tools : Entries] /\ lagging' \in BOOLEAN
        /\ ~lagging' => saved'.tools = tools'
    BY <2>1, <2>2, Saving
  <2>4. \A a \in Actions : tools[a] = s => a \in EntriesOf(s)
    BY DEF EntriesOf
  <2>5. \A a \in Actions : tools'[a] \notin dropped' /\ (handlers'[a] # NoServer => tools'[a] # NoServer)
    BY <1>a, <1>b, <1>c, <2>1, <2>2, <2>4
  <2>6. dropped' \in SUBSET Servers
    BY <1>a, <2>1
  <2>7. QED
    BY <1>2, <2>1, <2>2, <2>3, <2>5, <2>6
<1>5. ASSUME NEW s \in Servers, NEW tool \in ToolNames, NEW withHandler \in BOOLEAN,
             registerTool(s, tool, withHandler)
      PROVE  RegistryTypeOK' /\ RegistryInv'
  <2>1. /\ servers' = servers /\ dropped' = dropped \ {s}
        /\ tools' = Bound(tools, Named(s, {tool}), s)
        /\ handlers' \in {handlers, Bound(handlers, Named(s, {tool}), s)}
        /\ saveRegistry(servers, tools')
    BY <1>5 DEF registerTool
  <2>2. /\ tools' \in Entries /\ handlers' \in Entries
        /\ \A a \in Actions : tools'[a] = IF a \in Named(s, {tool}) THEN s ELSE tools[a]
        /\ \A a \in Actions : handlers'[a] = handlers[a] \/ a \in Named(s, {tool})
    <3>1. /\ Bound(handlers, Named(s, {tool}), s) \in Entries
          /\ \A a \in Actions : a \notin Named(s, {tool})
                               => Bound(handlers, Named(s, {tool}), s)[a] = handlers[a]
      BY <1>a, BoundEntries
    <3>2. /\ Bound(tools, Named(s, {tool}), s) \in Entries
          /\ \A a \in Actions : Bound(tools, Named(s, {tool}), s)[a]
                               = IF a \in Named(s, {tool}) THEN s ELSE tools[a]
      BY <1>a, BoundEntries
    <3>3. QED
      BY <1>a, <2>1, <3>1, <3>2
  <2>3. /\ saved' \in [servers : SUBSET Servers, tools : Entries] /\ lagging' \in BOOLEAN
        /\ ~lagging' => saved'.tools = tools'
    BY <1>a, <2>1, <2>2, Saving
  <2>4. \A a \in Actions : tools'[a] \notin dropped' /\ (handlers'[a] # NoServer => tools'[a] # NoServer)
    BY <1>b, <1>c, <2>1, <2>2
  <2>5. servers' \in SUBSET Servers /\ dropped' \in SUBSET Servers
    BY <1>a, <2>1
  <2>6. QED
    BY <1>2, <2>2, <2>3, <2>4, <2>5
<1>6. CASE Reload
  <2>1. /\ servers' = saved.servers /\ tools' = saved.tools /\ handlers' = NoEntry
        /\ lagging' = FALSE /\ saved' = saved
        /\ dropped' = IF lagging THEN dropped \ {saved.tools[a] : a \in Actions} ELSE dropped
    BY <1>6 DEF Reload
  <2>2. NoEntry \in Entries /\ \A a \in Actions : NoEntry[a] = NoServer
    BY DEF NoEntry, Entries
  <2>3. \A a \in Actions : tools'[a] \notin dropped'
    <3>1. CASE lagging
      BY <2>1, <3>1
    <3>2. CASE ~lagging
      BY <1>b, <2>1, <3>2
    <3>3. QED
      BY <3>1, <3>2
  <2>4. dropped' \in SUBSET Servers
    BY <1>a, <2>1
  <2>5. servers' \in SUBSET Servers /\ tools' \in Entries /\ handlers' \in Entries
    BY <1>a, <2>1, <2>2
  <2>6. \A a \in Actions : handlers'[a] # NoServer => tools'[a] # NoServer
    BY <2>1, <2>2
  <2>7. QED
    BY <1>2, <1>a, <2>1, <2>3, <2>4, <2>5, <2>6
<1>7. QED
  BY <1>1, <1>3, <1>4, <1>5, <1>6 DEF RegistryNext

(* No tool of an unregistered server can be called, in this process or     *)
(* after a restart from a file that was saved, and no handler outlives the *)
(* entry it belongs to: for any servers and tools, and whichever of them   *)
(* share a key (dynamic-governance.mjs).                                   *)
THEOREM UnregisteredGone == RegistrySpec => []UnregisteredStaysGone
<1>1. RegistrySpec => [](RegistryTypeOK /\ RegistryInv)
  BY RegistryStart, RegistryStep, PTL DEF RegistrySpec
<1>2. RegistryInv => UnregisteredStaysGone
  BY DEF RegistryInv
<1>3. QED
  BY <1>1, <1>2, PTL

-----------------------------------------------------------------------------
(* Calls to models                                                         *)

GatewaySpec == GatewayInit /\ [][FailoverNext \/ SignatureNext]_gatewayVars
Outcomes == Answers \cup {"skipped"}

\* Targets are tried in order, those with a key and no others; the first reply or refused
\* key is the end of it.
CascadeInv ==
  /\ attempts \in Seq(Outcomes) /\ Len(attempts) <= Len(Targets)
  /\ reply \in {"", "answered", "refused", "exhausted"}
  /\ \A i \in 1..Len(attempts) :
       IF Targets[i] \in apiKeys THEN attempts[i] \in Answers ELSE attempts[i] = "skipped"
  /\ \A i \in 1..Len(attempts) :
       attempts[i] \in {"ok", "unauthorized"} => i = Len(attempts) /\ reply \in {"answered", "refused"}
  /\ reply \in {"answered", "refused"} =>
       attempts # <<>> /\ attempts[Len(attempts)] \in {"ok", "unauthorized"}
  /\ reply = "exhausted" => Len(attempts) = Len(Targets)

LEMMA CascadeStart == GatewayInit => CascadeInv
<1>1. <<>> \in Seq(Outcomes) /\ Len(<<>>) = 0 /\ Len(Targets) \in Nat
  BY GatewayAssumption
<1>2. ASSUME GatewayInit PROVE CascadeInv
  <2>1. attempts = <<>> /\ reply = ""
    BY <1>2 DEF GatewayInit
  <2>2. Len(attempts) = 0 /\ attempts \in Seq(Outcomes)
    BY <1>1, <2>1
  <2>3. \A i \in 1..0 : FALSE
    OBVIOUS
  <2>4. Len(attempts) <= Len(Targets)
    BY <1>1, <2>2
  <2>5. QED
    BY <2>1, <2>2, <2>3, <2>4 DEF CascadeInv
<1>3. QED
  BY <1>2

LEMMA CascadeStep ==
  ASSUME CascadeInv, [FailoverNext \/ SignatureNext]_gatewayVars PROVE CascadeInv'
<1> DEFINE n == Len(attempts)
<1>1. n \in Nat /\ Len(Targets) \in Nat /\ attempts \in Seq(Outcomes)
  <2>1. attempts \in Seq(Outcomes)
    BY DEF CascadeInv
  <2>2. QED
    BY <2>1, GatewayAssumption, LenProperties
<1>2. CASE UNCHANGED <<apiKeys, attempts, reply>>
  BY <1>2 DEF CascadeInv
<1>3. CASE Attempt
  <2>1. PICK a \in Outcomes :
          /\ attempts' = Append(attempts, a)
          /\ IF Targets[n + 1] \in apiKeys THEN a \in Answers ELSE a = "skipped"
          /\ reply' \in {"", "answered", "refused"}
          /\ reply' # "" <=> a \in {"ok", "unauthorized"}
    <3>1. CASE Targets[n + 1] \notin apiKeys
      <4>1. attempts' = Append(attempts, "skipped") /\ reply' = ""
        BY <1>3, <3>1 DEF Attempt
      <4>2. "skipped" \in Outcomes
        BY DEF Outcomes
      <4>3. QED
        BY <3>1, <4>1, <4>2
    <3>2. CASE Targets[n + 1] \in apiKeys
      <4>1. PICK a \in Answers :
              /\ attempts' = Append(attempts, a)
              /\ reply' = IF ~Ends(a) THEN "" ELSE IF a = "ok" THEN "answered" ELSE "refused"
        BY <1>3, <3>2 DEF Attempt
      <4>2. a \in Outcomes
        BY DEF Outcomes
      <4>3. QED
        BY <3>2, <4>1, <4>2 DEF Ends
    <3>3. QED
      BY <3>1, <3>2
  <2>2. reply = "" /\ n < Len(Targets) /\ apiKeys' = apiKeys
    BY <1>3 DEF Attempt
  <2>3. /\ attempts' \in Seq(Outcomes) /\ Len(attempts') = n + 1 /\ attempts'[n + 1] = a
        /\ \A i \in 1..n : attempts'[i] = attempts[i]
    <3>1. attempts \in Seq(Outcomes) /\ a \in Outcomes /\ attempts' = Append(attempts, a)
      BY <1>1, <2>1
    <3>2. QED
      BY <3>1, AppendProperties
  <2>4. attempts' # <<>>
    BY <1>1, <2>3
  <2>5. \A i \in 1..(n + 1) : i \in 1..n \/ i = n + 1
    BY <1>1
  <2>6. \A i \in 1..n : attempts[i] \notin {"ok", "unauthorized"}
    BY <2>2 DEF CascadeInv
  <2>7. \A i \in 1..Len(attempts') :
          IF Targets[i] \in apiKeys THEN attempts'[i] \in Answers ELSE attempts'[i] = "skipped"
    BY <2>1, <2>3, <2>5 DEF CascadeInv
  <2>8. \A i \in 1..Len(attempts') : attempts'[i] \in {"ok", "unauthorized"} =>
          i = Len(attempts') /\ reply' \in {"answered", "refused"}
    BY <2>1, <2>3, <2>5, <2>6
  <2>9. reply' \in {"answered", "refused"} => attempts'[Len(attempts')] \in {"ok", "unauthorized"}
    BY <2>1, <2>3
  <2>10. Len(attempts') <= Len(Targets)
    <3>1. n \in Nat /\ Len(Targets) \in Nat /\ n < Len(Targets) /\ Len(attempts') = n + 1
      BY <1>1, <2>2, <2>3
    <3>2. QED
      BY <3>1
  <2>11. QED
    BY <2>1, <2>2, <2>3, <2>4, <2>7, <2>8, <2>9, <2>10 DEF CascadeInv
<1>4. CASE GiveUp
  BY <1>1, <1>4 DEF GiveUp, CascadeInv
<1>5. QED
  BY <1>2, <1>3, <1>4 DEF FailoverNext, SignatureNext, Capture, gatewayVars

LEMMA CascadeIsHonest == CascadeInv => CascadeHonest
<1> SUFFICES ASSUME CascadeInv PROVE CascadeHonest
  OBVIOUS
<1>1. /\ DOMAIN attempts = 1..Len(attempts) /\ DOMAIN Targets = 1..Len(Targets)
      /\ Len(attempts) \in Nat
  BY GatewayAssumption, LenProperties DEF CascadeInv
<1>2. ASSUME reply = "exhausted", NEW i \in DOMAIN Targets
      PROVE  IF Targets[i] \in apiKeys THEN attempts[i] \in {"status", "broken"}
                                      ELSE attempts[i] = "skipped"
  BY <1>1, <1>2 DEF CascadeInv, Answers
<1>3. reply \in {"answered", "refused"} => Last(attempts) \in {"ok", "unauthorized"}
  BY DEF CascadeInv, Last
<1>4. QED
  BY <1>1, <1>2, <1>3 DEF CascadeHonest, CascadeInv

Pairs == CallIds \X Signatures
Captures == [id : CallIds, signature : Signatures, new : BOOLEAN]

\* An identifier is in the map once, with the signature that came last; and behind one
\* that came into it there are no more entries than there were captures since.
SignaturesInv ==
  /\ thoughtSignatures \in Seq(Pairs) /\ captured \in Seq(Captures)
  /\ Len(thoughtSignatures) <= MaxKept
  /\ \A i, j \in 1..Len(thoughtSignatures) :
       thoughtSignatures[i][1] = thoughtSignatures[j][1] => i = j
  /\ \A j \in 1..Len(thoughtSignatures) : \E k \in 1..Len(captured) :
       /\ captured[k].id = thoughtSignatures[j][1]
       /\ captured[k].signature = thoughtSignatures[j][2]
       /\ \A l \in 1..Len(captured) : captured[l].id = captured[k].id => l <= k
  /\ \A k \in 1..Len(captured) : captured[k].new /\ Len(captured) < k + MaxKept =>
       \E j \in 1..Len(thoughtSignatures) :
         /\ thoughtSignatures[j][1] = captured[k].id
         /\ Len(thoughtSignatures) - j <= Len(captured) - k

\* What the map has room for: all of it, or all but the oldest entry.
LEMMA Roomy ==
  ASSUME NEW map \in Seq(Pairs), Len(map) <= MaxKept
  PROVE  \E d \in {0, 1} :
           /\ Room(map) \in Seq(Pairs) /\ Len(Room(map)) = Len(map) - d
           /\ Len(Room(map)) < MaxKept
           /\ \A j \in 1..Len(Room(map)) : Room(map)[j] = map[j + d]
           /\ d = 1 => Len(map) = MaxKept
<1>1. Len(map) \in Nat /\ MaxKept \in Nat \ {0}
  BY GatewayAssumption
<1>2. CASE Len(map) >= MaxKept
  <2>1. map # <<>> /\ Len(map) = MaxKept /\ Room(map) = Tail(map)
    BY <1>1, <1>2, EmptySeq DEF Room
  <2>2. /\ Tail(map) \in Seq(Pairs) /\ Len(Tail(map)) = Len(map) - 1
        /\ \A j \in 1..Len(Tail(map)) : Tail(map)[j] = map[j + 1]
    BY <2>1, HeadTailProperties
  <2>3. QED
    BY <1>1, <2>1, <2>2
<1>3. CASE ~(Len(map) >= MaxKept)
  <2>1. Room(map) = map
    BY <1>3 DEF Room
  <2>2. \A j \in 1..Len(map) : map[j] = map[j + 0]
    BY <1>1
  <2>3. QED
    BY <1>1, <1>3, <2>1, <2>2
<1>4. QED
  BY <1>2, <1>3

LEMMA Putting ==
  ASSUME NEW map \in Seq(Pairs), NEW id \in CallIds, NEW signature \in Signatures
  PROVE  /\ Put(map, id, signature) \in Seq(Pairs)
         /\ \A j \in 1..Len(map) :
              Put(map, id, signature)[j] = IF map[j][1] = id THEN <<id, signature>> ELSE map[j]
         /\ id \in KeptIds(map) => /\ Len(Put(map, id, signature)) = Len(map)
                                   /\ \E j \in 1..Len(map) : map[j][1] = id
         /\ id \notin KeptIds(map) => /\ Len(Put(map, id, signature)) = Len(map) + 1
                                      /\ Put(map, id, signature)[Len(map) + 1] = <<id, signature>>
                                      /\ \A j \in 1..Len(map) : map[j][1] # id
<1>1. Len(map) \in Nat /\ DOMAIN map = 1..Len(map) /\ \A j \in 1..Len(map) : map[j] \in Pairs
  BY LenProperties, ElementOfSeq
<1>2. id \in KeptIds(map) <=> \E j \in 1..Len(map) : map[j][1] = id
  BY <1>1 DEF KeptIds, ToSet
<1>3. <<id, signature>> \in Pairs
  BY DEF Pairs
<1>4. CASE id \in KeptIds(map)
  <2> DEFINE new == [i \in 1..Len(map) |-> IF map[i][1] = id THEN <<id, signature>> ELSE map[i]]
  <2>1. Put(map, id, signature) = new
    BY <1>1, <1>4 DEF Put
  <2>2. new \in [1..Len(map) -> Pairs]
    BY <1>1, <1>3
  <2>3. new \in Seq(Pairs) /\ Len(new) = Len(map)
    BY <1>1, <2>2, SeqDef, LenProperties
  <2>4. \A j \in 1..Len(map) : new[j] = IF map[j][1] = id THEN <<id, signature>> ELSE map[j]
    OBVIOUS
  <2>5. QED
    BY <1>2, <1>4, <2>1, <2>3, <2>4
<1>5. CASE id \notin KeptIds(map)
  <2>1. Put(map, id, signature) = Append(map, <<id, signature>>)
    BY <1>5 DEF Put
  <2>2. /\ Append(map, <<id, signature>>) \in Seq(Pairs)
        /\ Len(Append(map, <<id, signature>>)) = Len(map) + 1
        /\ \A j \in 1..Len(map) : Append(map, <<id, signature>>)[j] = map[j]
        /\ Append(map, <<id, signature>>)[Len(map) + 1] = <<id, signature>>
    BY <1>3, AppendProperties
  <2>3. QED
    BY <1>2, <1>5, <2>1, <2>2
<1>6. QED
  BY <1>4, <1>5

LEMMA SignaturesStart == GatewayInit => SignaturesInv
<1> SUFFICES ASSUME GatewayInit PROVE SignaturesInv
  OBVIOUS
<1>1. thoughtSignatures = <<>> /\ captured = <<>>
  BY DEF GatewayInit
<1>2. /\ thoughtSignatures \in Seq(Pairs) /\ captured \in Seq(Captures)
      /\ Len(thoughtSignatures) = 0 /\ Len(captured) = 0
  BY <1>1
<1>3. 0 <= MaxKept /\ \A i \in 1..0 : FALSE
  BY GatewayAssumption
<1>4. QED
  BY <1>2, <1>3 DEF SignaturesInv

LEMMA CaptureKeeps ==
  ASSUME SignaturesInv, NEW id \in CallIds, NEW signature \in Signatures, Capture(id, signature)
  PROVE  SignaturesInv'
<1> DEFINE map == thoughtSignatures
           room == Room(map)
           n == Len(captured)
           c == [id |-> id, signature |-> signature, new |-> id \notin KeptIds(room)]
<1>1. /\ map \in Seq(Pairs) /\ captured \in Seq(Captures) /\ Len(map) <= MaxKept
      /\ Len(map) \in Nat /\ n \in Nat /\ MaxKept \in Nat \ {0}
  BY GatewayAssumption, LenProperties DEF SignaturesInv
<1>2. PICK d \in {0, 1} :
        /\ room \in Seq(Pairs) /\ Len(room) = Len(map) - d /\ Len(room) < MaxKept
        /\ \A j \in 1..Len(room) : room[j] = map[j + d]
        /\ d = 1 => Len(map) = MaxKept
  BY <1>1, Roomy
<1>3. map' = Put(room, id, signature) /\ captured' = Append(captured, c)
  BY DEF Capture
<1>4. Len(room) \in Nat
  BY <1>2
<1>5. /\ map' \in Seq(Pairs)
      /\ \A j \in 1..Len(room) : map'[j] = IF room[j][1] = id THEN <<id, signature>> ELSE room[j]
      /\ id \in KeptIds(room) => Len(map') = Len(room) /\ \E j \in 1..Len(room) : room[j][1] = id
      /\ id \notin KeptIds(room) => /\ Len(map') = Len(room) + 1
                                    /\ map'[Len(room) + 1] = <<id, signature>>
                                    /\ \A j \in 1..Len(room) : room[j][1] # id
  <2> DEFINE put == Put(room, id, signature)
  <2> HIDE DEF room
  <2>1. room \in Seq(Pairs)
    BY <1>2
  <2>2. /\ put \in Seq(Pairs)
        /\ \A j \in 1..Len(room) : put[j] = IF room[j][1] = id THEN <<id, signature>> ELSE room[j]
        /\ id \in KeptIds(room) => Len(put) = Len(room) /\ \E j \in 1..Len(room) : room[j][1] = id
        /\ id \notin KeptIds(room) => /\ Len(put) = Len(room) + 1
                                      /\ put[Len(room) + 1] = <<id, signature>>
                                      /\ \A j \in 1..Len(room) : room[j][1] # id
    BY <2>1, Putting
  <2> HIDE DEF put, map
  <2>3. map' = put
    BY <1>3 DEF put
  <2>4. QED
    BY <2>2, <2>3
<1>6. /\ captured' \in Seq(Captures) /\ Len(captured') = n + 1
      /\ \A k \in 1..n : captured'[k] = captured[k]
      /\ captured'[n + 1] = c
  <2>1. c \in Captures
    BY DEF Captures
  <2>2. QED
    BY <1>1, <1>3, <2>1, AppendProperties
<1>7. \A k \in 1..(n + 1) : k \in 1..n \/ k = n + 1
  BY <1>1
<1>8. \A j \in 1..Len(map') : j \in 1..Len(room) \/ (id \notin KeptIds(room) /\ j = Len(room) + 1)
  BY <1>4, <1>5
<1>9. \A j \in 1..Len(room) : j + d \in 1..Len(map) /\ room[j] = map[j + d]
  BY <1>1, <1>2, <1>4
<1> HIDE DEF map, room, n, c
<1>10. Len(map') <= MaxKept
  BY <1>1, <1>2, <1>4, <1>5
<1>11. ASSUME NEW i \in 1..Len(map'), NEW j \in 1..Len(map'), map'[i][1] = map'[j][1]
       PROVE  i = j
  <2>1. \A k, l \in 1..Len(map) : map[k][1] = map[l][1] => k = l
    BY DEF SignaturesInv, map
  <2>2. ASSUME NEW k \in 1..Len(room) PROVE map'[k][1] = map[k + d][1]
    <3>1. map'[k] = IF room[k][1] = id THEN <<id, signature>> ELSE room[k]
      BY <1>5
    <3>2. map'[k][1] = room[k][1]
      BY <3>1
    <3>3. QED
      BY <1>9, <3>2
  <2>3. CASE i \in 1..Len(room) /\ j \in 1..Len(room)
    BY <1>4, <1>9, <1>11, <2>1, <2>2, <2>3
  <2>4. CASE ~(i \in 1..Len(room) /\ j \in 1..Len(room))
    BY <1>5, <1>8, <1>9, <1>11, <2>2, <2>4
  <2>5. QED
    BY <2>3, <2>4
<1>12. ASSUME NEW j \in 1..Len(map')
       PROVE  \E k \in 1..(n + 1) :
                /\ captured'[k].id = map'[j][1] /\ captured'[k].signature = map'[j][2]
                /\ \A l \in 1..(n + 1) : captured'[l].id = captured'[k].id => l <= k
  <2>1. CASE map'[j] = <<id, signature>>
    <3>1. n + 1 \in 1..(n + 1) /\ \A l \in 1..(n + 1) : l <= n + 1
      BY <1>1
    <3>2. captured'[n + 1].id = id /\ captured'[n + 1].signature = signature
      BY <1>6 DEF c
    <3>3. QED
      BY <2>1, <3>1, <3>2
  <2>2. CASE map'[j] # <<id, signature>>
    <3>1. j \in 1..Len(room) /\ map'[j] = map[j + d] /\ map[j + d][1] # id /\ j + d \in 1..Len(map)
      BY <1>5, <1>8, <1>9, <2>2
    <3>2. PICK k \in 1..n : /\ captured[k].id = map[j + d][1] /\ captured[k].signature = map[j + d][2]
                            /\ \A l \in 1..n : captured[l].id = captured[k].id => l <= k
      BY <3>1 DEF SignaturesInv, map, n
    <3>3. captured'[n + 1].id = id
      BY <1>6 DEF c
    <3>4. k \in 1..(n + 1) /\ captured'[k] = captured[k]
      BY <1>1, <1>6
    <3>5. \A l \in 1..(n + 1) : captured'[l].id = captured'[k].id => l <= k
      BY <1>6, <1>7, <3>1, <3>2, <3>3, <3>4
    <3>6. QED
      BY <3>1, <3>2, <3>4, <3>5
  <2>3. QED
    BY <2>1, <2>2
<1>13. ASSUME NEW k \in 1..(n + 1), captured'[k].new, n + 1 < k + MaxKept
       PROVE  \E j \in 1..Len(map') : map'[j][1] = captured'[k].id /\ Len(map') - j <= n + 1 - k
  <2>1. CASE k = n + 1
    <3>1. captured'[k].id = id /\ id \notin KeptIds(room)
      <4>1. captured'[k] = c
        BY <1>6, <2>1
      <4>2. c.id = id /\ (c.new = (id \notin KeptIds(room)))
        BY DEF c
      <4>3. c.new
        BY <1>13, <4>1
      <4>4. QED
        BY <4>1, <4>2, <4>3
    <3>2. Len(map') = Len(room) + 1 /\ map'[Len(room) + 1][1] = id
      BY <1>5, <3>1
    <3>3. Len(map') \in 1..Len(map') /\ Len(map') - Len(map') <= n + 1 - k
      BY <1>1, <1>4, <2>1, <3>2
    <3>4. QED
      BY <3>1, <3>2, <3>3
  <2>2. CASE k \in 1..n
    <3>1. captured'[k] = captured[k] /\ captured[k].new /\ n < k + MaxKept
      BY <1>1, <1>6, <1>13, <2>2
    <3>2. PICK j \in 1..Len(map) : map[j][1] = captured[k].id /\ Len(map) - j <= n - k
      BY <2>2, <3>1 DEF SignaturesInv, map, n
    <3>3. j - d \in 1..Len(room) /\ (j - d) + d = j
      <4>1. CASE d = 0
        BY <1>2, <3>2, <4>1
      <4>2. CASE d = 1
        <5>1. j # 1
          BY <1>1, <1>2, <1>13, <2>2, <3>2, <4>2
        <5>2. QED
          BY <1>1, <1>2, <3>2, <4>2, <5>1
      <4>3. QED
        BY <4>1, <4>2
    <3>4. map'[j - d][1] = map[j][1]
      <4> DEFINE i == j - d
      <4>1. i \in 1..Len(room) /\ i + d = j
        BY <3>3
      <4> HIDE DEF i
      <4>2. map'[i] = IF room[i][1] = id THEN <<id, signature>> ELSE room[i]
        BY <1>5, <4>1
      <4>3. map'[i][1] = room[i][1]
        BY <4>2
      <4>4. room[i] = map[j]
        BY <1>9, <4>1
      <4>5. QED
        BY <4>3, <4>4 DEF i
    <3>5. j - d \in 1..Len(map') /\ Len(map') - (j - d) <= n + 1 - k
      <4>1. Len(map') \in {Len(room), Len(room) + 1} /\ Len(room) = Len(map) - d
        BY <1>2, <1>5
      <4>2. QED
        BY <1>1, <1>4, <2>2, <3>2, <3>3, <4>1
    <3>6. QED
      BY <3>1, <3>2, <3>4, <3>5
  <2>3. QED
    BY <1>7, <2>1, <2>2
<1>14. thoughtSignatures' \in Seq(Pairs) /\ Len(thoughtSignatures') <= MaxKept
  BY <1>5, <1>10 DEF map
<1>15. \A i, j \in 1..Len(thoughtSignatures') :
         thoughtSignatures'[i][1] = thoughtSignatures'[j][1] => i = j
  BY <1>11 DEF map
<1>16. \A j \in 1..Len(thoughtSignatures') : \E k \in 1..Len(captured') :
         /\ captured'[k].id = thoughtSignatures'[j][1]
         /\ captured'[k].signature = thoughtSignatures'[j][2]
         /\ \A l \in 1..Len(captured') : captured'[l].id = captured'[k].id => l <= k
  BY <1>6, <1>12 DEF map
<1>17. ASSUME NEW k \in 1..Len(captured'), captured'[k].new, Len(captured') < k + MaxKept
       PROVE  \E j \in 1..Len(thoughtSignatures') :
                /\ thoughtSignatures'[j][1] = captured'[k].id
                /\ Len(thoughtSignatures') - j <= Len(captured') - k
  <2>1. Len(captured') = n + 1 /\ k \in 1..(n + 1) /\ n + 1 < k + MaxKept
    BY <1>6, <1>17
  <2>2. PICK j \in 1..Len(map') : map'[j][1] = captured'[k].id /\ Len(map') - j <= n + 1 - k
    BY <1>13, <1>17, <2>1
  <2>3. thoughtSignatures' = map'
    BY DEF map
  <2>4. Len(map') - j <= Len(captured') - k
    <3>1. n \in Nat /\ Len(map') \in Nat /\ j \in Nat /\ k \in Nat
      BY <1>1, <1>4, <1>5, <2>1, <2>2
    <3>2. QED
      BY <2>1, <2>2, <3>1
  <2>5. QED
    BY <2>2, <2>3, <2>4
<1>18. QED
  BY <1>6, <1>14, <1>15, <1>16, <1>17 DEF SignaturesInv

LEMMA SignaturesStep ==
  ASSUME SignaturesInv, [FailoverNext \/ SignatureNext]_gatewayVars PROVE SignaturesInv'
<1>1. CASE UNCHANGED <<thoughtSignatures, captured>>
  BY <1>1 DEF SignaturesInv
<1>2. CASE SignatureNext
  BY <1>2, CaptureKeeps DEF SignatureNext
<1>3. QED
  BY <1>1, <1>2 DEF FailoverNext, Attempt, GiveUp, gatewayVars

LEMMA SignaturesHold == SignaturesInv => SignaturesKept
<1> SUFFICES ASSUME SignaturesInv PROVE SignaturesKept
  OBVIOUS
<1> DEFINE map == thoughtSignatures
           n == Len(captured)
<1>1. /\ DOMAIN map = 1..Len(map) /\ DOMAIN captured = 1..n /\ n \in Nat /\ Len(map) \in Nat
  BY LenProperties DEF SignaturesInv
<1>2. ToSet(map) = {map[j] : j \in 1..Len(map)}
  BY <1>1 DEF ToSet
<1>3. \A j \in 1..Len(map) : map[j][1] \in KeptIds(map)
  BY <1>2 DEF KeptIds
<1>4. ASSUME NEW id \in KeptIds(map)
      PROVE  LET last == CHOOSE i \in DOMAIN captured :
                           captured[i].id = id /\ \A j \in DOMAIN captured : captured[j].id = id => j <= i
             IN  Reinjected(id) = {captured[last].signature}
  <2>1. PICK j \in 1..Len(map) : map[j][1] = id
    BY <1>2 DEF KeptIds
  <2>2. \A q \in ToSet(map) : q[1] = id <=> q = map[j]
    BY <1>2, <2>1 DEF SignaturesInv
  <2>3. Reinjected(id) = {map[j][2]}
    BY <1>2, <2>2 DEF Reinjected
  <2>4. PICK k \in 1..n : /\ captured[k].id = id /\ captured[k].signature = map[j][2]
                          /\ \A l \in 1..n : captured[l].id = id => l <= k
    BY <2>1 DEF SignaturesInv
  <2> DEFINE IsLast(i) == captured[i].id = id /\ \A l \in 1..n : captured[l].id = id => l <= i
             last == CHOOSE i \in 1..n : IsLast(i)
  <2>5. last \in 1..n /\ IsLast(last)
    BY <2>4
  <2>6. last = k
    BY <1>1, <2>4, <2>5
  <2>7. QED
    BY <1>1, <2>3, <2>4, <2>6
<1>5. \A i \in DOMAIN captured : captured[i].new /\ Len(captured) < i + MaxKept =>
        captured[i].id \in KeptIds(map)
  BY <1>1, <1>3 DEF SignaturesInv
<1>6. Len(map) <= MaxKept
  BY DEF SignaturesInv
<1>7. QED
  BY <1>4, <1>5, <1>6 DEF SignaturesKept

\* Nobody is told that all is lost while a provider with a key is untried, and nothing is
\* tried after an answer (executeWithFailover), whatever cascade is configured.
THEOREM CascadeIsKept == GatewaySpec => []CascadeHonest
<1>1. GatewayInit => CascadeInv
  BY CascadeStart
<1>2. CascadeInv /\ [FailoverNext \/ SignatureNext]_gatewayVars => CascadeInv'
  BY CascadeStep
<1>3. CascadeInv => CascadeHonest
  BY CascadeIsHonest
<1>4. QED
  BY <1>1, <1>2, <1>3, PTL DEF GatewaySpec

\* The map of signatures stays within its limit, gives a call the signature that came last
\* under its identifier, and drops a new one no sooner than MaxKept captures later
\* (captureThoughtSignatures), whatever the limit.
THEOREM SignaturesAreKept == GatewaySpec => []SignaturesKept
<1>1. GatewayInit => SignaturesInv
  BY SignaturesStart
<1>2. SignaturesInv /\ [FailoverNext \/ SignatureNext]_gatewayVars => SignaturesInv'
  BY SignaturesStep
<1>3. SignaturesInv => SignaturesKept
  BY SignaturesHold
<1>4. QED
  BY <1>1, <1>2, <1>3, PTL DEF GatewaySpec

-----------------------------------------------------------------------------
(* Identities                                                              *)

IdentitySpec == IdentityInit /\ [][IdentityNext]_identityVars

\* Those who may be served, and what they were let into.
Identities == {Identity(Operator, TRUE)} \cup {Identity(u, admin) : u \in Users, admin \in BOOLEAN}
LetInto(identity, place) ==
  ~identity.admin /\ \E root \in Roots(identity.user) : Within(root, place)
\* Requests are served once the map was found unambiguous, and a request keeps the identity
\* under which it was let into a directory.
IdentityInv ==
  /\ who \in [Requests -> Identities \cup {Nobody}] /\ DOMAIN opened = Requests
  /\ \A r \in Requests : who[r] # Nobody => Unambiguous(oldName)
  /\ manager = "up" => Unambiguous(oldName)
  /\ \A r \in Requests : opened[r] # <<>> => who[r] # Nobody /\ LetInto(who[r], opened[r])

LEMMA IdentityStart == IdentityInit => IdentityInv
BY DEF IdentityInit, IdentityInv

\* Whatever a request shows, it is served as the operator or as the user it names.
LEMMA OnlyIdentities ==
  ASSUME NEW request \in Shown PROVE extractUserFromHeaders(request) \subseteq Identities
<1>1. request.user \in Users /\ request.admin \in BOOLEAN
  BY DEF Shown
<1>2. Identity(request.user, request.admin) \in Identities /\ Identity(Operator, TRUE) \in Identities
  <2>1. Identity(Operator, TRUE) \in Identities
    BY DEF Identities
  <2> DEFINE named == {Identity(u, admin) : u \in Users, admin \in BOOLEAN}
  <2>2. Identity(request.user, request.admin) \in named
    BY <1>1
  <2>3. Identities = {Identity(Operator, TRUE)} \cup named
    BY ONLY DEF Identities
  <2> HIDE DEF named
  <2>4. QED
    BY <2>1, <2>2, <2>3
<1> HIDE DEF Identities
<1>3. QED
  BY <1>2 DEF extractUserFromHeaders

LEMMA IdentityStep == IdentityInv /\ [IdentityNext]_identityVars => IdentityInv'
<1> SUFFICES ASSUME IdentityInv, [IdentityNext]_identityVars PROVE IdentityInv'
  OBVIOUS
<1>1. CASE Construct
  BY <1>1 DEF Construct, IdentityInv, Unambiguous, LetInto, Roots
<1>2. ASSUME NEW r \in Requests, Authenticate(r) PROVE IdentityInv'
  <2>1. PICK identity \in UNION {extractUserFromHeaders(request) : request \in Shown} :
          who' = [who EXCEPT ![r] = identity]
    BY <1>2 DEF Authenticate
  <2>2. identity \in Identities
    BY OnlyIdentities
  <2>3. who' \in [Requests -> Identities \cup {Nobody}]
    BY <2>1, <2>2 DEF IdentityInv
  <2>4. manager = "up" /\ manager' = manager /\ oldName' = oldName /\ opened' = opened /\ who[r] = Nobody
    BY <1>2 DEF Authenticate
  <2>5. Unambiguous(oldName) /\ Unambiguous(oldName)'
    BY <2>4 DEF IdentityInv, Unambiguous
  <2>6. \A s \in Requests : opened[s] # <<>> => s # r /\ who'[s] = who[s]
    BY <2>1, <2>4 DEF IdentityInv
  <2>7. \A s \in Requests : opened'[s] # <<>> => who'[s] # Nobody /\ LetInto(who[s], opened[s])
    BY <2>4, <2>6 DEF IdentityInv
  <2>8. \A s \in Requests : opened'[s] # <<>> => LetInto(who[s], opened[s])'
    BY <2>4, <2>6, <2>7 DEF LetInto, Roots
  <2>9. QED
    BY <2>3, <2>4, <2>5, <2>7, <2>8 DEF IdentityInv
<1>3. ASSUME NEW r \in Requests, NEW place \in Places, Open(r, place) PROVE IdentityInv'
  <2>1. opened' = [opened EXCEPT ![r] = place] /\ UNCHANGED <<mode, oldName, manager, who>>
    BY <1>3 DEF Open
  <2>2. who[r] # Nobody /\ LetInto(who[r], place)
    BY <1>3 DEF Open, validatePathAccess, LetInto
  <2>3. \A s \in Requests : opened'[s] # <<>> => who[s] # Nobody /\ LetInto(who[s], opened'[s])
    BY <2>1, <2>2 DEF IdentityInv
  <2>4. \A s \in Requests : opened'[s] # <<>> => LetInto(who[s], opened[s])'
    BY <2>1, <2>3 DEF LetInto, Roots
  <2>5. QED
    BY <2>1, <2>3, <2>4 DEF IdentityInv, Unambiguous
<1>4. CASE UNCHANGED identityVars
  BY <1>4 DEF IdentityInv, identityVars, Unambiguous, LetInto, Roots
<1>5. QED
  BY <1>1, <1>2, <1>3, <1>4 DEF IdentityNext

\* Under a directory of a user's own, the path says whose it is.
Owned(u, place) ==
  \/ /\ {1, 2} \subseteq DOMAIN place /\ place[1] = Dir("state")
     /\ place[2] = Part(u) \/ (u \in DOMAIN oldName /\ place[2] = Old(oldName[u]))
  \/ /\ {1, 2, 3} \subseteq DOMAIN place /\ place[1] = Dir("workspaces") /\ place[2] = Dir("users")
     /\ place[3] = Part(u) \/ (u \in DOMAIN oldName /\ place[3] = Old(oldName[u]))
  \/ Within(Shared, place)

LEMMA OwnOrShared ==
  ASSUME NEW u, NEW place, NEW root \in Roots(u), Within(root, place) PROVE Owned(u, place)
<1> DEFINE InState(x) == <<Dir("state"), x>>
           InWork(x) == <<Dir("workspaces"), Dir("users"), x>>
<1>1. \A x : StateBase \o <<x>> = InState(x) /\ WorkUsers \o <<x>> = InWork(x)
  <2> SUFFICES ASSUME NEW x PROVE StateBase \o <<x>> = InState(x) /\ WorkUsers \o <<x>> = InWork(x)
    OBVIOUS
  <2>1. StateBase \o <<x>> = InState(x)
    <3> DEFINE S == {Dir("state"), x}
    <3>1. StateBase \in Seq(S) /\ <<x>> \in Seq(S)
      BY DEF StateBase
    <3>2. /\ Len(StateBase \o <<x>>) = 2 /\ StateBase \o <<x>> \in Seq(S)
          /\ (StateBase \o <<x>>)[1] = Dir("state") /\ (StateBase \o <<x>>)[2] = x
      BY <3>1, ConcatProperties DEF StateBase
    <3>3. /\ Len(InState(x)) = 2 /\ InState(x) \in Seq(S)
          /\ InState(x)[1] = Dir("state") /\ InState(x)[2] = x
      OBVIOUS
    <3> HIDE DEF S, InState
    <3>4. QED
      BY <3>2, <3>3, SeqEqual
  <2>3. WorkUsers \o <<x>> = InWork(x)
    <3> DEFINE S == {Dir("workspaces"), Dir("users"), x}
    <3>1. WorkUsers \in Seq(S) /\ <<x>> \in Seq(S)
      BY DEF WorkUsers
    <3>2. /\ Len(WorkUsers \o <<x>>) = 3 /\ WorkUsers \o <<x>> \in Seq(S)
          /\ (WorkUsers \o <<x>>)[1] = Dir("workspaces") /\ (WorkUsers \o <<x>>)[2] = Dir("users")
          /\ (WorkUsers \o <<x>>)[3] = x
      BY <3>1, ConcatProperties DEF WorkUsers
    <3>3. /\ Len(InWork(x)) = 3 /\ InWork(x) \in Seq(S)
          /\ InWork(x)[1] = Dir("workspaces") /\ InWork(x)[2] = Dir("users") /\ InWork(x)[3] = x
      OBVIOUS
    <3> HIDE DEF S, InWork
    <3>4. QED
      BY <3>2, <3>3, SeqEqual
  <2>4. QED
    BY <2>1, <2>3
<1>2. \/ root = InState(Part(u)) \/ root = InWork(Part(u)) \/ root = Shared
      \/ u \in DOMAIN oldName /\ (root = InState(Old(oldName[u])) \/ root = InWork(Old(oldName[u])))
  BY <1>1 DEF Roots
<1>3. ASSUME NEW x, root = InState(x)
      PROVE  {1, 2} \subseteq DOMAIN place /\ place[1] = Dir("state") /\ place[2] = x
  <2>1. DOMAIN root = {1, 2} /\ root[1] = Dir("state") /\ root[2] = x
    BY <1>3
  <2>2. QED
    BY <2>1 DEF Within
<1>4. ASSUME NEW x, root = InWork(x)
      PROVE  {1, 2, 3} \subseteq DOMAIN place /\ place[1] = Dir("workspaces") /\ place[2] = Dir("users") /\ place[3] = x
  <2>1. DOMAIN root = {1, 2, 3} /\ root[1] = Dir("workspaces") /\ root[2] = Dir("users") /\ root[3] = x
    BY <1>4
  <2>2. QED
    BY <2>1 DEF Within
<1> HIDE DEF InState, InWork
<1>5. QED
  BY <1>2, <1>3, <1>4 DEF Owned

LEMMA ApartByInvariant == IdentityInv => TenantsApart
<1> SUFFICES ASSUME IdentityInv, NEW r \in Requests, NEW s \in Requests
             PROVE  /\ opened[r] \notin Homes
                    /\ opened[r] # <<>> /\ opened[r] = opened[s] /\ who[r] # who[s] => Within(Shared, opened[r])
  BY DEF TenantsApart
<1>1. opened[r] \notin Homes
  <2>1. <<>> \notin Homes
    BY DEF Homes, StateBase, WorkUsers
  <2>2. ASSUME opened[r] \in Homes, NEW u, Owned(u, opened[r]) PROVE FALSE
    <3>1. CASE opened[r] = StateBase
      BY <2>2, <3>1 DEF StateBase, Owned, Within, Shared
    <3>2. CASE opened[r] = WorkUsers
      <4>1. DOMAIN opened[r] = {1, 2} /\ opened[r][1] = Dir("workspaces") /\ opened[r][2] = Dir("users")
        BY <3>2 DEF WorkUsers
      <4>2. ~Within(Shared, opened[r])
        BY <4>1 DEF Within, Shared, Dir
      <4>3. Dir("workspaces") # Dir("state")
        BY DEF Dir
      <4>4. QED
        BY <2>2, <4>1, <4>2, <4>3 DEF Owned
    <3>3. QED
      BY <2>2, <3>1, <3>2 DEF Homes
  <2>3. opened[r] # <<>> => Owned(who[r].user, opened[r])
    BY OwnOrShared DEF IdentityInv, LetInto
  <2>4. QED
    BY <2>1, <2>2, <2>3
<1>2. ASSUME opened[r] # <<>>, opened[r] = opened[s], who[r] # who[s]
      PROVE  Within(Shared, opened[r])
  <2>1. /\ who[r] \in Identities /\ ~who[r].admin /\ Owned(who[r].user, opened[r])
        /\ who[s] \in Identities /\ ~who[s].admin /\ Owned(who[s].user, opened[r])
        /\ Unambiguous(oldName)
    BY <1>2, OwnOrShared DEF IdentityInv, LetInto
  <2>2. ASSUME NEW i \in Identities, ~i.admin
        PROVE  \E u \in Users : i = Identity(u, FALSE)
    BY <2>2 DEF Identities, Identity
  <2>3. PICK u \in Users : who[r] = Identity(u, FALSE)
    BY <2>1, <2>2
  <2>4. PICK v \in Users : who[s] = Identity(v, FALSE)
    BY <2>1, <2>2
  <2>5. u # v /\ who[r].user = u /\ who[s].user = v
    <3>1. u # v
      BY <1>2, <2>3, <2>4
    <3>2. who[r].user = u /\ who[s].user = v
      BY <2>3, <2>4 DEF Identity
    <3>3. QED
      BY <3>1, <3>2
  <2>6. Part(u) # Part(v)
    BY <2>5, IdentityAssumption DEF Part
  <2>7. \A w, x : Part(w) # Old(x)
    BY DEF Part, Old
  <2>8. ASSUME u \in DOMAIN oldName, v \in DOMAIN oldName PROVE Old(oldName[u]) # Old(oldName[v])
    BY <2>1, <2>5, <2>8 DEF Unambiguous, Old
  <2>9. Dir("workspaces") # Dir("state")
    BY DEF Dir
  <2>10. QED
    BY <2>1, <2>5, <2>6, <2>7, <2>8, <2>9 DEF Owned
<1>3. QED
  BY <1>1, <1>2

\* Two users' requests are never let into one directory that is not shared, and none into
\* one that holds others' (user-partition.js), for any users and any unambiguous map.
THEOREM UsersApart == IdentitySpec => []TenantsApart
<1>1. IdentityInit => IdentityInv
  BY IdentityStart
<1>2. IdentityInv /\ [IdentityNext]_identityVars => IdentityInv'
  BY IdentityStep
<1>3. IdentityInv => TenantsApart
  BY ApartByInvariant
<1>4. QED
  BY <1>1, <1>2, <1>3, PTL DEF IdentitySpec

-----------------------------------------------------------------------------
(* Migrations                                                              *)

Less == {ss \in Nat \X Nat : ss[1] < ss[2]}

LEMMA NumbersWellFounded == IsWellFoundedOn(Less, Nat)
<1>1. Less = OpToRel(<, Nat)
  BY Zenon DEF Less, OpToRel
<1>2. QED
  BY <1>1, NatLessThanWellFounded, Zenon

LEMMA MinIn == ASSUME NEW S \in SUBSET Nat, S # {} PROVE Min(S) \in S
<1>1. PICK x \in S : \A y \in S : <<y, x>> \notin Less
  BY WFMin, NumbersWellFounded
<1>2. ASSUME NEW y \in S PROVE x <= y
  <2>1. x \in Nat /\ y \in Nat
    OBVIOUS
  <2>2. ~(y < x)
    BY <1>1, <2>1 DEF Less
  <2>3. QED
    BY <2>1, <2>2
<1>3. QED
  BY <1>2 DEF Min

LEMMA MaxIn ==
  ASSUME NEW n \in Nat, NEW S \in SUBSET (1..n), S # {} PROVE Max(S) \in S
<1> DEFINE T == {n - x : x \in S}
<1>1. T \in SUBSET Nat /\ T # {}
  <2>1. \A x \in S : x \in 1..n
    OBVIOUS
  <2>2. \A x \in S : n - x \in Nat
    BY <2>1
  <2>3. QED
    BY <2>2
<1> HIDE DEF T
<1>2. PICK m \in T : \A y \in T : <<y, m>> \notin Less
  BY <1>1, WFMin, NumbersWellFounded
<1>3. PICK x \in S : m = n - x
  BY DEF T
<1>4. ASSUME NEW y \in S PROVE x >= y
  <2>1. n - y \in T /\ n - y \in Nat /\ m \in Nat
    BY <1>1 DEF T
  <2>2. ~(n - y < m)
    BY <1>2, <2>1 DEF Less
  <2>3. x \in Nat /\ y \in Nat
    OBVIOUS
  <2>4. QED
    BY <1>3, <2>1, <2>2, <2>3
<1>5. QED
  BY <1>4 DEF Max

Clean ==
  /\ source = Resources /\ destination = {} /\ journal = "none"
  /\ \A r \in Resources : backup[r] = "none"
Held == lock \in Procs
Few == faults + crashes <= 1
Told == /\ journal = "applied" => destination = Resources
        /\ journal \in {"none", "failed", "rolled_back"} => source = Resources

\* What is about to be renamed has its verified backup, and is still under its old name.
RenameReady ==
  \A p \in Procs : pc[p] = "renaming" => Min(todo[p]) \in source /\ backup[Min(todo[p])] = "whole"
\* An apply starts with everything to be moved.
StartsWhole == \A p \in Procs : pc[p] \in {"checked", "opening"} => todo[p] = Resources
\* Until somebody takes the locks, what an apply has checked is so.
ChecksFresh ==
  \A p \in Procs : /\ pc[p] \in {"idle", "checked"} => moved[p] = {}
                   /\ pc[p] = "checked" /\ fresh[p] => ~Held /\ Clean
\* An apply on checks that held knows what it has moved and what is left, and takes all of
\* it back if nothing else goes wrong.
ApplyInOrder(p) ==
  /\ pc[p] = "opening" => Clean /\ todo[p] = Resources /\ moved[p] = {}
  /\ pc[p] \in {"copying", "renaming", "noting"} =>
       /\ journal = "applying" /\ moved[p] = destination /\ todo[p] = source
       /\ \A r \in todo[p] : backup[r] = "none" \/ (pc[p] = "renaming" /\ r = Min(todo[p]))
  /\ pc[p] = "completing" =>
       journal = "applying" /\ moved[p] = destination /\ destination = Resources
  /\ pc[p] = "verifying" =>
       journal = "applied" /\ moved[p] = destination /\ destination = Resources
  /\ pc[p] \in {"undoing", "failing"} =>
       /\ journal \in {"applying", "applied"} /\ faults + crashes >= 1
       /\ Few => destination = moved[p]
  /\ pc[p] = "failing" => moved[p] = {}
\* A rollback has yet to restore whatever is at its destination, even if others have
\* restored some of it since the checks.
RollbackInOrder(p) ==
  /\ pc[p] \in {"read", "planned"} \cup RollingBack => journal \notin {"none", "applying"}
  /\ pc[p] \in {"planned"} \cup RollingBack => destination \subseteq todo[p]
  /\ pc[p] \in {"restoring", "renoting", "ending"} => journal = "rolling_back"
  /\ pc[p] = "ending" => todo[p] = {}
  /\ pc[p] = "reverifying" => journal = "rolled_back" /\ destination = {}
  /\ pc[p] = "refailing" =>
       journal = "rolling_back" \/ (journal = "rolled_back" /\ destination = {})
\* The journal tells the truth whenever nobody is between two writes of it.
ToldWhenDone ==
  Few /\ (~Held \/ \E p \in Procs : pc[p] \in {"releasing", "reopening"}) => Told
InOrder == \A p \in Procs : ApplyInOrder(p) /\ RollbackInOrder(p)
MigrationInv ==
  /\ TypeOK /\ StartsWhole /\ NothingLost /\ RenameReady /\ ChecksFresh
  /\ ~stale => InOrder /\ ToldWhenDone

LEMMA MigrationStart == Init => MigrationInv
<1> SUFFICES ASSUME Init PROVE MigrationInv
  OBVIOUS
<1>1. TypeOK
  <2>1. /\ faults \in 0..MaxFaults /\ crashes \in 0..MaxCrashes
        /\ \A p \in Procs : pc[p] = "idle" /\ lock # p
    BY MigrationAssumption DEF Init
  <2>2. QED
    BY <2>1 DEF Init, TypeOK, Place, Applying, RollingBack, Status
<1>2. StartsWhole /\ NothingLost /\ RenameReady /\ ChecksFresh /\ ToldWhenDone
  BY DEF Init, StartsWhole, NothingLost, RenameReady, ChecksFresh, ToldWhenDone, Told
<1>3. InOrder
  BY DEF Init, InOrder, ApplyInOrder, RollbackInOrder, RollingBack
<1>4. QED
  BY <1>1, <1>2, <1>3 DEF MigrationInv

Working == {"releasing"} \cup Applying \cup RollingBack

\* Where the first resource of a list is one of the manifest's.
LEMMA MinMax ==
  ASSUME TypeOK, NEW p \in Procs
  PROVE  /\ todo[p] # {} => Min(todo[p]) \in todo[p] /\ Max(todo[p]) \in todo[p]
         /\ moved[p] # {} => Max(moved[p]) \in moved[p]
         /\ todo[p] \subseteq Resources /\ moved[p] \subseteq Resources
<1>1. todo[p] \in SUBSET Resources /\ moved[p] \in SUBSET Resources
  BY DEF TypeOK
<1>2. Resources = 1..N /\ N \in Nat /\ 1..N \subseteq Nat
  BY MigrationAssumption DEF Resources
<1>3. todo[p] # {} => Min(todo[p]) \in todo[p] /\ Max(todo[p]) \in todo[p]
  <2>1. todo[p] \in SUBSET Nat /\ todo[p] \in SUBSET (1..N)
    BY <1>1, <1>2
  <2>2. QED
    BY <1>2, <2>1, MinIn, MaxIn
<1>4. moved[p] # {} => Max(moved[p]) \in moved[p]
  <2>1. moved[p] \in SUBSET (1..N)
    BY <1>1, <1>2
  <2>2. QED
    BY <1>2, <2>1, MaxIn
<1>5. QED
  BY <1>1, <1>3, <1>4

LEMMA TypeStep == TypeOK /\ StartsWhole /\ [Next]_vars => TypeOK'
<1> SUFFICES ASSUME TypeOK, StartsWhole, [Next]_vars PROVE TypeOK'
  OBVIOUS
<1> USE MigrationAssumption DEF Place, Applying, RollingBack, Status, Goto, Leave, Fault,
        partitions, checks, TypeOK
<1>1. ASSUME NEW p \in Procs, CheckApply(p) PROVE TypeOK'
  BY <1>1 DEF CheckApply
<1>2. ASSUME NEW p \in Procs, LockApply(p) PROVE TypeOK'
  <2>1. CASE /\ lock = NoProc /\ lock' = p /\ pc' = [pc EXCEPT ![p] = "opening"]
             /\ fresh' = [q \in Procs |-> q = p /\ fresh[p]] /\ UNCHANGED <<todo, moved, faults>>
    BY <1>2, <2>1 DEF LockApply
  <2>2. CASE Leave(p) /\ UNCHANGED <<lock, faults>>
    BY <1>2, <2>2 DEF LockApply
  <2>3. CASE lock = NoProc /\ Fault /\ lock' = Dead /\ Leave(p)
    BY <1>2, <2>3 DEF LockApply
  <2>4. QED
    BY <1>2, <2>1, <2>2, <2>3 DEF LockApply, acquireLocks
<1>3. ASSUME NEW p \in Procs, OpenJournal(p) PROVE TypeOK'
  <2>1. CASE journal' = "applying" /\ Goto(p, "copying") /\ UNCHANGED <<lock, todo, moved, faults, checks>>
    <3>1. todo[p] # {}
      BY <1>3 DEF OpenJournal, StartsWhole, Resources
    <3>2. QED
      BY <1>3, <2>1, <3>1 DEF OpenJournal
  <2>2. CASE Fault /\ lock' = Dead /\ Leave(p) /\ UNCHANGED <<journal, stale>>
    BY <1>3, <2>2 DEF OpenJournal
  <2>3. QED
    BY <1>3, <2>1, <2>2 DEF OpenJournal, FirstWrite
<1>4. ASSUME NEW p \in Procs, Copy(p) PROVE TypeOK'
  BY <1>4, MinMax DEF Copy
<1>5. ASSUME NEW p \in Procs, Rename(p) PROVE TypeOK'
  BY <1>5, MinMax DEF Rename
<1>6. ASSUME NEW p \in Procs, Note(p) PROVE TypeOK'
  BY <1>6 DEF Note, atomicWriteJson
<1>7. ASSUME NEW p \in Procs, Complete(p) PROVE TypeOK'
  BY <1>7 DEF Complete, atomicWriteJson
<1>8. ASSUME NEW p \in Procs, Verify(p) PROVE TypeOK'
  BY <1>8 DEF Verify
<1>9. ASSUME NEW p \in Procs, Undo(p) PROVE TypeOK'
  BY <1>9, MinMax DEF Undo
<1>10. ASSUME NEW p \in Procs, Fail(p) PROVE TypeOK'
  BY <1>10 DEF Fail, atomicWriteJson
<1>11. ASSUME NEW p \in Procs, ReadJournal(p) PROVE TypeOK'
  BY <1>11 DEF ReadJournal
<1>12. ASSUME NEW p \in Procs, CheckRollback(p) PROVE TypeOK'
  <2>1. CASE todo' = [todo EXCEPT ![p] = destination] /\ Goto(p, "planned") /\ UNCHANGED <<moved, fresh>>
    BY <1>12, <2>1 DEF CheckRollback
  <2>2. CASE Leave(p)
    BY <1>12, <2>2 DEF CheckRollback
  <2>3. QED
    BY <1>12, <2>1, <2>2 DEF CheckRollback
<1>13. ASSUME NEW p \in Procs, LockRollback(p) PROVE TypeOK'
  <2>1. CASE /\ lock = NoProc /\ lock' = p /\ pc' = [pc EXCEPT ![p] = "reopening"]
             /\ fresh' = [q \in Procs |-> q = p /\ fresh[p]] /\ UNCHANGED <<todo, moved, faults>>
    BY <1>13, <2>1 DEF LockRollback
  <2>2. CASE Leave(p) /\ UNCHANGED <<lock, faults>>
    BY <1>13, <2>2 DEF LockRollback
  <2>3. CASE lock = NoProc /\ Fault /\ lock' = Dead /\ Leave(p)
    BY <1>13, <2>3 DEF LockRollback
  <2>4. QED
    BY <1>13, <2>1, <2>2, <2>3 DEF LockRollback, acquireLocks
<1>14. ASSUME NEW p \in Procs, Reopen(p) PROVE TypeOK'
  <2> DEFINE next == IF todo[p] = {} THEN "ending" ELSE "restoring"
  <2>1. CASE journal' = "rolling_back" /\ Goto(p, next) /\ UNCHANGED <<lock, todo, moved, faults, checks>>
    <3>1. CASE todo[p] = {}
      BY <1>14, <2>1, <3>1 DEF Reopen
    <3>2. CASE todo[p] # {}
      BY <1>14, <2>1, <3>2 DEF Reopen
    <3>3. QED
      BY <3>1, <3>2
  <2>2. CASE Fault /\ lock' = Dead /\ Leave(p) /\ UNCHANGED <<journal, stale>>
    BY <1>14, <2>2 DEF Reopen
  <2>3. QED
    BY <1>14, <2>1, <2>2 DEF Reopen, FirstWrite
<1>15. ASSUME NEW p \in Procs, Restore(p) PROVE TypeOK'
  BY <1>15, MinMax DEF Restore
<1>16. ASSUME NEW p \in Procs, NoteRestored(p) PROVE TypeOK'
  BY <1>16 DEF NoteRestored, atomicWriteJson
<1>17. ASSUME NEW p \in Procs, End(p) PROVE TypeOK'
  BY <1>17 DEF End, atomicWriteJson
<1>18. ASSUME NEW p \in Procs, VerifyRestored(p) PROVE TypeOK'
  BY <1>18 DEF VerifyRestored
<1>19. ASSUME NEW p \in Procs, FailRollback(p) PROVE TypeOK'
  BY <1>19 DEF FailRollback, atomicWriteJson
<1>20. ASSUME NEW p \in Procs, ReleaseLocks(p) PROVE TypeOK'
  BY <1>20 DEF ReleaseLocks
<1>21. ASSUME NEW p \in Procs, Crash(p) PROVE TypeOK'
  BY <1>21 DEF Crash
<1>22. CASE ClearLocks
  BY <1>22 DEF ClearLocks
<1>23. CASE UNCHANGED vars
  BY <1>23 DEF vars
<1>24. QED
  BY <1>1, <1>2, <1>3, <1>4, <1>5, <1>6, <1>7, <1>8, <1>9, <1>10, <1>11, <1>12, <1>13,
     <1>14, <1>15, <1>16, <1>17, <1>18, <1>19, <1>20, <1>21, <1>22, <1>23 DEF Next, Step

Act(p) == CheckApply(p) \/ ReadJournal(p) \/ Step(p) \/ Crash(p)

LEMMA Alone ==
  ASSUME TypeOK, NEW p \in Procs, NEW q \in Procs, p # q, pc[p] \in Working PROVE pc[q] \notin Working
BY DEF TypeOK, Working

\* An invocation leaves what the others know alone; their checks may become outdated.
LEMMA OthersAlone ==
  ASSUME TypeOK, NEW p \in Procs, Act(p), NEW q \in Procs, q # p
  PROVE  /\ pc'[q] = pc[q] /\ todo'[q] = todo[q] /\ moved'[q] = moved[q]
         /\ fresh'[q] => fresh[q]
<1> USE DEF TypeOK, Goto, Leave, checks
<1>1. CASE CheckApply(p) \/ ReadJournal(p) \/ Crash(p)
  BY <1>1 DEF CheckApply, ReadJournal, Crash
<1>2. CASE LockApply(p) \/ LockRollback(p)
  BY <1>2 DEF LockApply, LockRollback, acquireLocks
<1>3. CASE OpenJournal(p) \/ Copy(p) \/ Rename(p)
  BY <1>3 DEF OpenJournal, Copy, Rename, FirstWrite
<1>4. CASE Note(p) \/ Complete(p) \/ Verify(p) \/ Fail(p)
  BY <1>4 DEF Note, Complete, Verify, Fail, atomicWriteJson
<1>5. CASE Undo(p)
  BY <1>5 DEF Undo
<1>6. CASE CheckRollback(p) \/ Reopen(p) \/ Restore(p)
  BY <1>6 DEF CheckRollback, Reopen, FirstWrite, Restore
<1>7. CASE NoteRestored(p) \/ End(p) \/ VerifyRestored(p) \/ FailRollback(p) \/ ReleaseLocks(p)
  BY <1>7 DEF NoteRestored, End, VerifyRestored, FailRollback, ReleaseLocks, atomicWriteJson
<1>8. QED
  BY <1>1, <1>2, <1>3, <1>4, <1>5, <1>6, <1>7 DEF Act, Step

\* Who does not have the locks changes nothing on disk.
LEMMA OnlyHolderChanges ==
  ASSUME TypeOK, NEW p \in Procs, Act(p), pc[p] \notin Working
  PROVE  UNCHANGED partitions /\ journal' = journal
<1> USE DEF Working, Applying, RollingBack, partitions
<1>1. CASE CheckApply(p) \/ ReadJournal(p) \/ CheckRollback(p) \/ LockApply(p) \/ LockRollback(p)
  BY <1>1 DEF CheckApply, ReadJournal, CheckRollback, LockApply, LockRollback
<1>2. CASE Crash(p)
  BY <1>2 DEF Crash
<1>3. CASE \/ OpenJournal(p) \/ Copy(p) \/ Rename(p) \/ Note(p) \/ Complete(p) \/ Verify(p)
           \/ Undo(p) \/ Fail(p)
  BY <1>3 DEF OpenJournal, Copy, Rename, Note, Complete, Verify, Undo, Fail
<1>4. CASE \/ Reopen(p) \/ Restore(p) \/ NoteRestored(p) \/ End(p) \/ VerifyRestored(p)
           \/ FailRollback(p) \/ ReleaseLocks(p)
  BY <1>4 DEF Reopen, Restore, NoteRestored, End, VerifyRestored, FailRollback, ReleaseLocks
<1>5. QED
  BY <1>1, <1>2, <1>3, <1>4 DEF Act, Step

\* Failures are only counted up, and an outdated apply is never forgotten.
LEMMA Worse ==
  ASSUME TypeOK, [Next]_vars
  PROVE  /\ faults \in Nat /\ crashes \in Nat /\ faults' \in Nat /\ crashes' \in Nat
         /\ faults' + crashes' >= faults + crashes
         /\ stale => stale'
<1>1. faults \in Nat /\ crashes \in Nat
  BY MigrationAssumption DEF TypeOK
<1> DEFINE Counted == /\ faults' = faults \/ faults' = faults + 1
                      /\ crashes' = crashes \/ crashes' = crashes + 1
                      /\ stale => stale'
<1>2. Counted
  <2> USE DEF Fault, checks, Leave, vars
  <2>1. ASSUME NEW p \in Procs, CheckApply(p) \/ ReadJournal(p) \/ Crash(p) PROVE Counted
    BY <2>1 DEF CheckApply, ReadJournal, Crash
  <2>2. ASSUME NEW p \in Procs, LockApply(p) \/ LockRollback(p) PROVE Counted
    <3>1. crashes' = crashes /\ (faults' = faults \/ faults' = faults + 1)
      BY <2>2 DEF LockApply, LockRollback, acquireLocks
    <3>2. CASE LockApply(p)
      <4>1. stale' = (stale \/ (lock' = p /\ ~fresh[p]))
        BY <3>2 DEF LockApply
      <4>2. QED
        BY <3>1, <4>1
    <3>3. CASE LockRollback(p)
      BY <3>1, <3>3 DEF LockRollback
    <3>4. QED
      BY <2>2, <3>2, <3>3
  <2>3. ASSUME NEW p \in Procs, OpenJournal(p) \/ Copy(p) \/ Rename(p) PROVE Counted
    BY <2>3 DEF OpenJournal, Copy, Rename, FirstWrite
  <2>4. ASSUME NEW p \in Procs, Note(p) \/ Complete(p) \/ Verify(p) \/ Undo(p) \/ Fail(p) PROVE Counted
    BY <2>4 DEF Note, Complete, Verify, Undo, Fail, atomicWriteJson
  <2>5. ASSUME NEW p \in Procs, CheckRollback(p) \/ Reopen(p) \/ Restore(p) PROVE Counted
    BY <2>5 DEF CheckRollback, Reopen, FirstWrite, Restore
  <2>6. ASSUME NEW p \in Procs, NoteRestored(p) \/ End(p) \/ VerifyRestored(p) \/ FailRollback(p) \/ ReleaseLocks(p)
        PROVE Counted
    BY <2>6 DEF NoteRestored, End, VerifyRestored, FailRollback, ReleaseLocks, atomicWriteJson
  <2>7. CASE ClearLocks \/ UNCHANGED vars
    BY <2>7 DEF ClearLocks
  <2>8. QED
    BY <2>1, <2>2, <2>3, <2>4, <2>5, <2>6, <2>7 DEF Next, Step
<1>3. QED
  BY <1>1, <1>2

LEMMA Sums ==
  \A a, b, c, d \in Nat : c + d >= a + b => /\ c + d <= 1 => a + b <= 1
                                            /\ a + b >= 1 => c + d >= 1
OBVIOUS

\* A failure after a failure is one too many.
LEMMA TwoFailures == \A a, b \in Nat : a + b >= 1 => /\ ~((a + 1) + b <= 1)
                                                     /\ ~(a + (b + 1) <= 1)
OBVIOUS

LEMMA StartStep ==
  ASSUME TypeOK, StartsWhole, NEW p \in Procs, Act(p) PROVE StartsWhole'
<1>1. ASSUME NEW q \in Procs, q # p, pc'[q] \in {"checked", "opening"} PROVE todo'[q] = Resources
  BY <1>1, OthersAlone DEF StartsWhole
<1>2. ASSUME pc'[p] \in {"checked", "opening"} PROVE todo'[p] = Resources
  <2> USE DEF TypeOK, Goto, Leave, checks
  <2>1. CASE CheckApply(p)
    BY <2>1 DEF CheckApply
  <2>2. CASE LockApply(p)
    BY <1>2, <2>2 DEF LockApply, acquireLocks, StartsWhole
  <2>3. CASE OpenJournal(p) \/ Copy(p) \/ Rename(p)
    BY <1>2, <2>3 DEF OpenJournal, Copy, Rename, FirstWrite
  <2>4. CASE Note(p) \/ Complete(p) \/ Verify(p) \/ Fail(p)
    BY <1>2, <2>4 DEF Note, Complete, Verify, Fail, atomicWriteJson
  <2>5. CASE Undo(p)
    BY <1>2, <2>5 DEF Undo
  <2>6. CASE CheckRollback(p) \/ Reopen(p) \/ Restore(p) \/ LockRollback(p) \/ ReadJournal(p) \/ Crash(p)
    BY <1>2, <2>6 DEF CheckRollback, Reopen, FirstWrite, Restore, LockRollback, acquireLocks, ReadJournal, Crash
  <2>7. CASE NoteRestored(p) \/ End(p) \/ VerifyRestored(p) \/ FailRollback(p) \/ ReleaseLocks(p)
    BY <1>2, <2>7 DEF NoteRestored, End, VerifyRestored, FailRollback, ReleaseLocks, atomicWriteJson
  <2>8. QED
    BY <2>1, <2>2, <2>3, <2>4, <2>5, <2>6, <2>7 DEF Act, Step
<1>3. QED
  BY <1>1, <1>2 DEF StartsWhole

LEMMA FreshStep ==
  ASSUME TypeOK, ChecksFresh, NEW p \in Procs, Act(p) PROVE ChecksFresh'
<1>1. ASSUME NEW q \in Procs, pc'[q] \in {"idle", "checked"} PROVE moved'[q] = {}
  <2> USE DEF TypeOK, Goto, Leave, checks
  <2>1. CASE q # p
    BY <1>1, <2>1, OthersAlone DEF ChecksFresh
  <2>2. CASE q = p /\ (CheckApply(p) \/ ReadJournal(p) \/ Crash(p))
    BY <1>1, <2>2 DEF CheckApply, ReadJournal, Crash, ChecksFresh
  <2>3. CASE q = p /\ (LockApply(p) \/ LockRollback(p) \/ OpenJournal(p) \/ Reopen(p))
    BY <1>1, <2>3 DEF LockApply, LockRollback, acquireLocks, OpenJournal, Reopen, FirstWrite
  <2>4. CASE q = p /\ (Copy(p) \/ Rename(p) \/ Verify(p) \/ Undo(p))
    BY <1>1, <2>4 DEF Copy, Rename, Verify, Undo
  <2>5. CASE q = p /\ (Note(p) \/ Complete(p) \/ Fail(p))
    BY <1>1, <2>5 DEF Note, Complete, Fail, atomicWriteJson
  <2>6. CASE q = p /\ (CheckRollback(p) \/ Restore(p) \/ VerifyRestored(p) \/ ReleaseLocks(p))
    BY <1>1, <2>6 DEF CheckRollback, Restore, VerifyRestored, ReleaseLocks
  <2>7. CASE q = p /\ (NoteRestored(p) \/ End(p) \/ FailRollback(p))
    BY <1>1, <2>7 DEF NoteRestored, End, FailRollback, atomicWriteJson
  <2>8. QED
    BY <2>1, <2>2, <2>3, <2>4, <2>5, <2>6, <2>7 DEF Act, Step
<1>2. ASSUME NEW q \in Procs, q # p, pc'[q] = "checked", fresh'[q] PROVE (~Held /\ Clean)'
  <2>1. ~Held /\ Clean /\ pc[p] \notin Working
    BY <1>2, OthersAlone DEF ChecksFresh, Held, TypeOK, Working
  <2>2. UNCHANGED partitions /\ journal' = journal
    BY <2>1, OnlyHolderChanges
  <2>3. lock' \notin Procs
    <3> USE DEF Working, Applying, RollingBack, Held
    <3>1. CASE CheckApply(p) \/ ReadJournal(p) \/ Crash(p) \/ CheckRollback(p)
      BY <2>1, <3>1 DEF CheckApply, ReadJournal, Crash, CheckRollback
    <3>2. CASE LockApply(p) \/ LockRollback(p)
      BY <1>2, <2>1, <3>2, MigrationAssumption DEF LockApply, LockRollback, acquireLocks
    <3>3. CASE \/ OpenJournal(p) \/ Copy(p) \/ Rename(p) \/ Note(p) \/ Complete(p) \/ Verify(p)
               \/ Undo(p) \/ Fail(p)
      BY <2>1, <3>3 DEF OpenJournal, Copy, Rename, Note, Complete, Verify, Undo, Fail
    <3>4. CASE \/ Reopen(p) \/ Restore(p) \/ NoteRestored(p) \/ End(p) \/ VerifyRestored(p)
               \/ FailRollback(p) \/ ReleaseLocks(p)
      BY <2>1, <3>4 DEF Reopen, Restore, NoteRestored, End, VerifyRestored, FailRollback, ReleaseLocks
    <3>5. QED
      BY <3>1, <3>2, <3>3, <3>4 DEF Act, Step
  <2>4. QED
    BY <2>1, <2>2, <2>3 DEF Held, Clean, partitions
<1>3. ASSUME pc'[p] = "checked", fresh'[p] PROVE (~Held /\ Clean)'
  <2> USE DEF TypeOK, Goto, Leave, checks
  <2>1. CASE CheckApply(p)
    BY <1>3, <2>1, MigrationAssumption DEF CheckApply, Held, Clean, partitions
  <2>2. CASE LockApply(p) \/ LockRollback(p) \/ OpenJournal(p) \/ Reopen(p)
    BY <1>3, <2>2 DEF LockApply, LockRollback, acquireLocks, OpenJournal, Reopen, FirstWrite
  <2>3. CASE Copy(p) \/ Rename(p) \/ Verify(p) \/ Undo(p) \/ ReadJournal(p) \/ Crash(p)
    BY <1>3, <2>3 DEF Copy, Rename, Verify, Undo, ReadJournal, Crash
  <2>4. CASE Note(p) \/ Complete(p) \/ Fail(p)
    BY <1>3, <2>4 DEF Note, Complete, Fail, atomicWriteJson
  <2>5. CASE CheckRollback(p) \/ Restore(p) \/ VerifyRestored(p) \/ ReleaseLocks(p)
    BY <1>3, <2>5 DEF CheckRollback, Restore, VerifyRestored, ReleaseLocks
  <2>6. CASE NoteRestored(p) \/ End(p) \/ FailRollback(p)
    BY <1>3, <2>6 DEF NoteRestored, End, FailRollback, atomicWriteJson
  <2>7. QED
    BY <2>1, <2>2, <2>3, <2>4, <2>5, <2>6 DEF Act, Step
<1>4. QED
  BY <1>1, <1>2, <1>3 DEF ChecksFresh

LEMMA LostStep ==
  ASSUME TypeOK, NothingLost, RenameReady, NEW p \in Procs, Act(p)
  PROVE  NothingLost' /\ RenameReady'
<1>1. CASE pc[p] \notin Working
  <2>1. UNCHANGED partitions /\ pc'[p] # "renaming"
    <3> USE DEF TypeOK, Goto, Leave, Working, Applying, RollingBack
    <3>1. CASE CheckApply(p) \/ ReadJournal(p) \/ CheckRollback(p) \/ Crash(p)
      BY <1>1, <3>1, OnlyHolderChanges DEF CheckApply, ReadJournal, CheckRollback, Crash
    <3>2. CASE LockApply(p) \/ LockRollback(p)
      BY <1>1, <3>2, OnlyHolderChanges DEF LockApply, LockRollback, acquireLocks
    <3>3. CASE \/ OpenJournal(p) \/ Copy(p) \/ Rename(p) \/ Note(p) \/ Complete(p) \/ Verify(p)
               \/ Undo(p) \/ Fail(p)
      BY <1>1, <3>3 DEF OpenJournal, Copy, Rename, Note, Complete, Verify, Undo, Fail
    <3>4. CASE \/ Reopen(p) \/ Restore(p) \/ NoteRestored(p) \/ End(p) \/ VerifyRestored(p)
               \/ FailRollback(p) \/ ReleaseLocks(p)
      BY <1>1, <3>4 DEF Reopen, Restore, NoteRestored, End, VerifyRestored, FailRollback, ReleaseLocks
    <3>5. QED
      BY <3>1, <3>2, <3>3, <3>4 DEF Act, Step
  <2>2. NothingLost'
    BY <2>1 DEF NothingLost, partitions
  <2>3. ASSUME NEW q \in Procs, pc'[q] = "renaming"
        PROVE  Min(todo'[q]) \in source' /\ backup'[Min(todo'[q])] = "whole"
    BY <2>1, <2>3, OthersAlone DEF RenameReady, partitions
  <2>4. QED
    BY <2>2, <2>3 DEF RenameReady
<1>2. CASE pc[p] \in Working
  <2>1. \A q \in Procs : q # p => pc'[q] # "renaming"
    BY <1>2, Alone, OthersAlone DEF Working, Applying
  <2>2. NothingLost' /\ (pc'[p] = "renaming" => Min(todo'[p]) \in source' /\ backup'[Min(todo'[p])] = "whole")
    <3> USE DEF TypeOK, Goto, Leave, NothingLost, partitions
    <3>1. CASE Copy(p)
      BY <3>1 DEF Copy
    <3>2. CASE Rename(p)
      BY <3>2 DEF Rename, RenameReady
    <3>3. CASE Undo(p)
      <4>1. CASE moved[p] = {}
        BY <3>3, <4>1 DEF Undo
      <4>2. CASE moved[p] # {}
        <5>1. Max(moved[p]) \in Resources
          BY <4>2, MinMax
        <5>2. QED
          BY <3>3, <4>2, <5>1 DEF Undo
      <4>3. QED
        BY <4>1, <4>2
    <3>4. CASE Restore(p)
      BY <3>4 DEF Restore
    <3>5. CASE Crash(p)
      BY <3>5 DEF Crash
    <3>6. CASE OpenJournal(p) \/ Note(p) \/ Complete(p) \/ Verify(p) \/ Fail(p)
      BY <3>6 DEF OpenJournal, FirstWrite, Note, Complete, Verify, Fail, atomicWriteJson
    <3>7. CASE \/ Reopen(p) \/ NoteRestored(p) \/ End(p) \/ VerifyRestored(p) \/ FailRollback(p)
               \/ ReleaseLocks(p)
      BY <3>7 DEF Reopen, FirstWrite, NoteRestored, End, VerifyRestored, FailRollback, ReleaseLocks, atomicWriteJson
    <3>8. CASE CheckApply(p) \/ ReadJournal(p) \/ LockApply(p) \/ CheckRollback(p) \/ LockRollback(p)
      BY <1>2, <3>8 DEF CheckApply, ReadJournal, LockApply, CheckRollback, LockRollback, Working, Applying, RollingBack
    <3>9. QED
      BY <3>1, <3>2, <3>3, <3>4, <3>5, <3>6, <3>7, <3>8 DEF Act, Step
  <2>3. QED
    BY <2>1, <2>2 DEF RenameReady
<1>3. QED
  BY <1>1, <1>2

LEMMA ApplyOwn ==
  ASSUME MigrationInv, ~stale', NEW p \in Procs, Act(p) PROVE ApplyInOrder(p)'
<1>1. TypeOK /\ NothingLost /\ ChecksFresh /\ ~stale /\ ApplyInOrder(p) /\ StartsWhole
  BY Worse DEF MigrationInv, InOrder, Next, Act
<1>2. faults \in Nat /\ crashes \in Nat
  BY <1>1, MigrationAssumption DEF TypeOK
<1> USE DEF TypeOK, Goto, Leave, ApplyInOrder, Fault, partitions, checks, Few
<1>3. CASE CheckApply(p) \/ ReadJournal(p) \/ Crash(p)
  BY <1>1, <1>3 DEF CheckApply, ReadJournal, Crash
<1>4. CASE LockApply(p)
  <2>1. CASE lock' = p /\ pc' = [pc EXCEPT ![p] = "opening"] /\ UNCHANGED <<todo, moved, faults>>
    <3>1. fresh[p] /\ pc[p] = "checked" /\ UNCHANGED <<source, destination, backup, journal>>
      BY <1>4, <2>1 DEF LockApply
    <3>2. Clean' /\ todo'[p] = Resources /\ moved'[p] = {} /\ pc'[p] = "opening"
      BY <1>1, <2>1, <3>1 DEF ChecksFresh, Clean, StartsWhole
    <3>3. QED
      BY <3>2
  <2>2. CASE Leave(p)
    BY <1>1, <2>2
  <2>3. QED
    BY <1>4, <2>1, <2>2 DEF LockApply, acquireLocks
<1>5. CASE OpenJournal(p)
  BY <1>1, <1>5 DEF OpenJournal, FirstWrite, Clean
<1>6. CASE Copy(p)
  <2>1. Min(todo[p]) \in todo[p] /\ pc[p] = "copying"
    BY <1>1, <1>6, MinMax DEF Copy
  <2>2. Min(todo[p]) \in source /\ backup[Min(todo[p])] = "none"
    BY <1>1, <2>1
  <2>3. CASE Goto(p, "renaming") /\ UNCHANGED faults /\ backup' = [backup EXCEPT ![Min(todo[p])] = "whole"]
    BY <1>1, <1>6, <2>1, <2>3 DEF Copy
  <2>4. CASE Fault /\ Goto(p, "undoing")
    BY <1>1, <1>2, <1>6, <2>1, <2>4 DEF Copy
  <2>5. QED
    BY <1>6, <2>2, <2>3, <2>4 DEF Copy
<1>7. CASE Rename(p)
  <2>1. pc[p] = "renaming" /\ UNCHANGED <<backup, journal, lock, crashes, fresh, stale>>
    BY <1>7 DEF Rename
  <2>2. CASE UNCHANGED faults
    <3> DEFINE r == Min(todo[p])
    <3>1. /\ source' = source \ {r} /\ destination' = destination \cup {r}
          /\ moved' = [moved EXCEPT ![p] = @ \cup {r}] /\ todo' = [todo EXCEPT ![p] = @ \ {r}]
          /\ pc' = [pc EXCEPT ![p] = "noting"]
      BY <1>1, <1>2, <1>7, <2>2 DEF Rename
    <3> HIDE DEF r
    <3>2. /\ pc'[p] = "noting" /\ moved'[p] = moved[p] \cup {r} /\ todo'[p] = todo[p] \ {r}
      BY <1>1, <3>1
    <3>3. /\ journal = "applying" /\ moved[p] = destination /\ todo[p] = source
          /\ \A q \in todo[p] \ {r} : backup[q] = "none"
      BY <1>1, <2>1 DEF r
    <3>4. QED
      BY <2>1, <3>1, <3>2, <3>3
  <2>3. CASE faults' = faults + 1
    BY <1>1, <1>2, <1>7, <2>1, <2>3 DEF Rename
  <2>4. QED
    BY <1>7, <2>2, <2>3 DEF Rename
<1>8. CASE Note(p)
  BY <1>1, <1>2, <1>8 DEF Note, atomicWriteJson, NothingLost
<1>9. CASE Complete(p) \/ Verify(p)
  BY <1>1, <1>2, <1>9 DEF Complete, Verify, atomicWriteJson
<1>10. CASE Undo(p)
  BY <1>1, <1>2, <1>10 DEF Undo
<1>11. CASE Fail(p)
  BY <1>1, <1>11 DEF Fail, atomicWriteJson
<1>12. CASE CheckRollback(p) \/ LockRollback(p) \/ Reopen(p) \/ Restore(p)
  BY <1>1, <1>12 DEF CheckRollback, LockRollback, acquireLocks, Reopen, FirstWrite, Restore
<1>13. CASE NoteRestored(p) \/ End(p) \/ VerifyRestored(p) \/ FailRollback(p) \/ ReleaseLocks(p)
  BY <1>1, <1>13 DEF NoteRestored, End, VerifyRestored, FailRollback, ReleaseLocks, atomicWriteJson
<1>14. QED
  BY <1>3, <1>4, <1>5, <1>6, <1>7, <1>8, <1>9, <1>10, <1>11, <1>12, <1>13 DEF Act, Step

LEMMA RollbackOwn ==
  ASSUME MigrationInv, ~stale', NEW p \in Procs, Act(p) PROVE RollbackInOrder(p)'
<1>1. TypeOK /\ ~stale /\ RollbackInOrder(p)
  BY Worse DEF MigrationInv, InOrder, Next, Act
<1> USE DEF TypeOK, Goto, Leave, RollbackInOrder, RollingBack, partitions, checks
<1>2. CASE CheckApply(p) \/ ReadJournal(p) \/ Crash(p)
  BY <1>1, <1>2 DEF CheckApply, ReadJournal, Crash
<1>3. CASE LockApply(p) \/ OpenJournal(p)
  BY <1>1, <1>3 DEF LockApply, acquireLocks, OpenJournal, FirstWrite
<1>4. CASE Copy(p) \/ Rename(p) \/ Note(p) \/ Complete(p)
  BY <1>1, <1>4 DEF Copy, Rename, Note, Complete, atomicWriteJson
<1>5. CASE Verify(p) \/ Undo(p) \/ Fail(p)
  BY <1>1, <1>5 DEF Verify, Undo, Fail, atomicWriteJson
<1>6. CASE CheckRollback(p)
  BY <1>1, <1>6 DEF CheckRollback
<1>7. CASE LockRollback(p)
  BY <1>1, <1>7 DEF LockRollback, acquireLocks
<1>8. CASE Reopen(p)
  BY <1>1, <1>8 DEF Reopen, FirstWrite
<1>9. CASE Restore(p)
  BY <1>1, <1>9 DEF Restore
<1>10. CASE NoteRestored(p)
  BY <1>1, <1>10 DEF NoteRestored, atomicWriteJson
<1>11. CASE End(p) \/ VerifyRestored(p)
  BY <1>1, <1>11 DEF End, VerifyRestored, atomicWriteJson
<1>12. CASE FailRollback(p) \/ ReleaseLocks(p)
  BY <1>1, <1>12 DEF FailRollback, ReleaseLocks, atomicWriteJson
<1>13. QED
  BY <1>2, <1>3, <1>4, <1>5, <1>6, <1>7, <1>8, <1>9, <1>10, <1>11, <1>12 DEF Act, Step

\* Once an apply has come to an end nothing is moved to a destination any more.
LEMMA OnlyBack ==
  ASSUME MigrationInv, ~stale, NEW p \in Procs, Act(p), journal \notin {"none", "applying"}
  PROVE  journal' \notin {"none", "applying"} /\ destination' \subseteq destination
<1>1. ApplyInOrder(p)
  BY DEF MigrationInv, InOrder
<1> USE DEF partitions, ApplyInOrder, Clean
<1>2. CASE CheckApply(p) \/ ReadJournal(p) \/ Crash(p) \/ LockApply(p) \/ LockRollback(p) \/ CheckRollback(p)
  BY <1>2 DEF CheckApply, ReadJournal, Crash, LockApply, LockRollback, CheckRollback
<1>3. CASE OpenJournal(p) \/ Copy(p) \/ Rename(p)
  BY <1>1, <1>3 DEF OpenJournal, Copy, Rename
<1>4. CASE Note(p) \/ Complete(p) \/ Verify(p) \/ Undo(p) \/ Fail(p)
  BY <1>1, <1>4 DEF Note, Complete, Verify, Undo, Fail, atomicWriteJson
<1>5. CASE Reopen(p) \/ Restore(p) \/ NoteRestored(p) \/ End(p)
  BY <1>5 DEF Reopen, FirstWrite, Restore, NoteRestored, End, atomicWriteJson
<1>6. CASE VerifyRestored(p) \/ FailRollback(p) \/ ReleaseLocks(p)
  BY <1>6 DEF VerifyRestored, FailRollback, ReleaseLocks, atomicWriteJson
<1>7. QED
  BY <1>2, <1>3, <1>4, <1>5, <1>6 DEF Act, Step

LEMMA OrderOthers ==
  ASSUME MigrationInv, ~stale', NEW p \in Procs, Act(p), NEW q \in Procs, q # p
  PROVE  ApplyInOrder(q)' /\ RollbackInOrder(q)'
<1>1. /\ TypeOK /\ ~stale /\ ApplyInOrder(q) /\ RollbackInOrder(q)
      /\ faults \in Nat /\ crashes \in Nat /\ faults' \in Nat /\ crashes' \in Nat
      /\ faults' + crashes' >= faults + crashes
  BY Worse DEF MigrationInv, InOrder, Next, Act
<1>2. pc'[q] = pc[q] /\ todo'[q] = todo[q] /\ moved'[q] = moved[q]
  BY <1>1, OthersAlone
<1>3. CASE pc[p] \notin Working
  <2>1. UNCHANGED <<source, destination, backup, journal>>
    BY <1>1, <1>3, OnlyHolderChanges DEF partitions
  <2>2. (Few' => Few) /\ (faults + crashes >= 1 => faults' + crashes' >= 1)
    <3>1. /\ faults \in Nat /\ crashes \in Nat /\ faults' \in Nat /\ crashes' \in Nat
          /\ faults' + crashes' >= faults + crashes
      BY <1>1
    <3>2. QED
      BY <3>1, Sums DEF Few
  <2>4. ApplyInOrder(q)'
    BY <1>1, <1>2, <2>1, <2>2 DEF ApplyInOrder, Clean
  <2>5. RollbackInOrder(q)'
    BY <1>1, <1>2, <2>1 DEF RollbackInOrder
  <2>6. QED
    BY <2>4, <2>5
<1>4. CASE pc[p] \in Working
  <2>1. pc[q] \notin Working
    BY <1>1, <1>4, Alone
  <2>2. ApplyInOrder(q)'
    BY <1>2, <2>1 DEF ApplyInOrder, Working, Applying
  <2>3. RollbackInOrder(q)'
    <3>1. pc[q] \notin RollingBack
      BY <2>1 DEF Working
    <3>2. journal \notin {"none", "applying"} =>
            journal' \notin {"none", "applying"} /\ destination' \subseteq destination
      BY <1>1, OnlyBack
    <3>3. QED
      BY <1>1, <1>2, <3>1, <3>2 DEF RollbackInOrder, RollingBack
  <2>4. QED
    BY <2>2, <2>3
<1>5. QED
  BY <1>3, <1>4

LEMMA ToldStep ==
  ASSUME MigrationInv, ~stale', NEW p \in Procs, Act(p) PROVE ToldWhenDone'
<1>1. /\ TypeOK /\ NothingLost /\ ~stale /\ ApplyInOrder(p) /\ RollbackInOrder(p) /\ ToldWhenDone
      /\ (Held <=> lock \in Procs)
  BY Worse DEF MigrationInv, InOrder, Next, Act, Held
<1>2. /\ faults \in Nat /\ crashes \in Nat /\ faults' \in Nat /\ crashes' \in Nat
      /\ faults' + crashes' >= faults + crashes
  BY <1>1, Worse DEF Next, Act
<1>3. SUFFICES ASSUME Few', ~Held' \/ \E q \in Procs : pc'[q] \in {"releasing", "reopening"}
               PROVE  Told'
  BY DEF ToldWhenDone
<1>4. Few
  BY <1>2, <1>3, Sums DEF Few
<1>5. CASE pc[p] \notin Working
  <2>1. UNCHANGED <<source, destination, journal>>
    BY <1>1, <1>5, OnlyHolderChanges DEF partitions
  <2>2. CASE lock \notin Procs
    BY <1>1, <1>4, <2>1, <2>2 DEF ToldWhenDone, Told
  <2>3. CASE lock \in Procs
    <3>1. lock' = lock /\ pc'[p] \notin {"releasing", "reopening"}
      <4> USE DEF TypeOK, Goto, Leave, Working, Applying, RollingBack
      <4>1. CASE CheckApply(p) \/ ReadJournal(p) \/ CheckRollback(p) \/ Crash(p)
        BY <1>1, <1>5, <4>1 DEF CheckApply, ReadJournal, CheckRollback, Crash
      <4>2. CASE LockApply(p) \/ LockRollback(p)
        BY <1>1, <2>3, <4>2, MigrationAssumption DEF LockApply, LockRollback, acquireLocks
      <4>3. CASE \/ OpenJournal(p) \/ Copy(p) \/ Rename(p) \/ Note(p) \/ Complete(p) \/ Verify(p)
                 \/ Undo(p) \/ Fail(p)
        BY <1>5, <4>3 DEF OpenJournal, Copy, Rename, Note, Complete, Verify, Undo, Fail
      <4>4. CASE \/ Reopen(p) \/ Restore(p) \/ NoteRestored(p) \/ End(p) \/ VerifyRestored(p)
                 \/ FailRollback(p) \/ ReleaseLocks(p)
        BY <1>5, <4>4 DEF Reopen, Restore, NoteRestored, End, VerifyRestored, FailRollback, ReleaseLocks
      <4>5. QED
        BY <4>1, <4>2, <4>3, <4>4 DEF Act, Step
    <3>2. PICK q \in Procs : pc'[q] \in {"releasing", "reopening"}
      BY <1>3, <2>3, <3>1 DEF Held
    <3>3. pc[q] \in {"releasing", "reopening"}
      BY <1>1, <3>1, <3>2, OthersAlone
    <3>4. QED
      BY <1>1, <1>4, <2>1, <3>3 DEF ToldWhenDone, Told
  <2>4. QED
    BY <2>2, <2>3
<1>6. CASE pc[p] \in Working
  <2>1. lock = p
    BY <1>1, <1>6 DEF TypeOK, Working
  <2>2. ~Held' \/ pc'[p] \in {"releasing", "reopening"}
    BY <1>1, <1>3, <1>6, Alone, OthersAlone DEF Working, RollingBack
  <2>3. pc[p] \in {"releasing", "reopening"} => Told
    BY <1>1, <1>4 DEF ToldWhenDone
  <2> USE DEF TypeOK, Goto, Leave, Fault, partitions, checks
  <2>4. CASE OpenJournal(p)
    BY <1>1, <2>1, <2>2, <2>4 DEF OpenJournal, FirstWrite, ApplyInOrder, Clean, Told, Held
  <2>5. CASE Copy(p) \/ Rename(p) \/ Undo(p)
    BY <1>1, <2>1, <2>2, <2>5 DEF Copy, Rename, Undo, Held
  <2>6. CASE Note(p) \/ Complete(p)
    BY <1>1, <2>1, <2>2, <2>6 DEF Note, Complete, atomicWriteJson, Held
  <2>7. CASE Verify(p)
    BY <1>1, <2>1, <2>2, <2>7 DEF Verify, ApplyInOrder, Told, Held
  <2>8. CASE Fail(p)
    <3>1. destination = {} /\ source = Resources
      BY <1>1, <1>4, <2>8 DEF Fail, ApplyInOrder, NothingLost
    <3>2. faults' = faults
      <4>1. faults + crashes >= 1 /\ crashes' = crashes
        BY <1>1, <2>8 DEF Fail, ApplyInOrder
      <4>2. faults' # faults + 1
        BY <1>2, <1>3, <4>1, TwoFailures DEF Few
      <4>3. QED
        BY <2>8, <4>2 DEF Fail, atomicWriteJson
    <3>3. journal' = "failed" /\ source' = source
      BY <1>2, <2>8, <3>2 DEF Fail, atomicWriteJson
    <3>4. QED
      BY <3>1, <3>3 DEF Told
  <2>9. CASE Reopen(p)
    BY <1>1, <2>1, <2>2, <2>3, <2>9 DEF Reopen, FirstWrite, Told, Held
  <2>10. CASE Restore(p) \/ NoteRestored(p) \/ End(p)
    BY <1>1, <2>1, <2>2, <2>10 DEF Restore, NoteRestored, End, atomicWriteJson, Held
  <2>11. CASE VerifyRestored(p)
    BY <1>1, <2>1, <2>2, <2>11 DEF VerifyRestored, RollbackInOrder, RollingBack, Told, Held
  <2>12. CASE FailRollback(p)
    BY <1>1, <2>12 DEF FailRollback, atomicWriteJson, RollbackInOrder, RollingBack, Told, NothingLost
  <2>13. CASE ReleaseLocks(p)
    BY <2>3, <2>13 DEF ReleaseLocks, Told
  <2>14. CASE Crash(p)
    <3>1. UNCHANGED <<source, destination, journal>>
      BY <2>14 DEF Crash
    <3>2. faults + crashes = 0
      <4>1. crashes' = crashes + 1 /\ faults' = faults
        BY <2>14 DEF Crash
      <4>2. QED
        BY <1>2, <1>3, <4>1 DEF Few
    <3>3. Told
      <4>1. ASSUME destination = {} PROVE source = Resources
        <5>1. source \in SUBSET Resources
          BY <1>1 DEF TypeOK
        <5>2. \A r \in Resources : r \in source
          BY <1>1, <4>1 DEF NothingLost
        <5>3. QED
          BY <5>1, <5>2
      <4>2. pc[p] \notin {"undoing", "failing"}
        <5>1. ~(faults + crashes >= 1)
          BY <3>2
        <5>2. QED
          BY <1>1, <5>1 DEF ApplyInOrder
      <4>3. CASE pc[p] \in {"opening", "copying", "renaming", "noting", "completing", "verifying"}
        BY <1>1, <4>3 DEF ApplyInOrder, Clean, Told
      <4>4. CASE pc[p] \in {"restoring", "renoting", "ending", "reverifying", "refailing"}
        BY <1>1, <4>1, <4>4 DEF RollbackInOrder, Told
      <4>5. QED
        BY <1>6, <2>3, <4>2, <4>3, <4>4 DEF Working, Applying, RollingBack
    <3>4. QED
      BY <3>1, <3>3 DEF Told
  <2>15. CASE CheckApply(p) \/ ReadJournal(p) \/ LockApply(p) \/ CheckRollback(p) \/ LockRollback(p)
    BY <1>6, <2>15 DEF CheckApply, ReadJournal, LockApply, CheckRollback, LockRollback, Working, Applying, RollingBack
  <2>16. QED
    BY <2>4, <2>5, <2>6, <2>7, <2>8, <2>9, <2>10, <2>11, <2>12, <2>13, <2>14, <2>15 DEF Act, Step
<1>7. QED
  BY <1>5, <1>6

LEMMA MigrationStep == MigrationInv /\ [Next]_vars => MigrationInv'
<1> SUFFICES ASSUME MigrationInv, [Next]_vars PROVE MigrationInv'
  OBVIOUS
<1>1. TypeOK'
  BY TypeStep DEF MigrationInv
<1>2. ASSUME NEW p \in Procs, Act(p) PROVE MigrationInv'
  <2>1. StartsWhole' /\ ChecksFresh' /\ NothingLost' /\ RenameReady'
    BY <1>2, StartStep, FreshStep, LostStep DEF MigrationInv
  <2>2. ASSUME ~stale' PROVE InOrder'
    BY <1>2, <2>2, ApplyOwn, RollbackOwn, OrderOthers DEF InOrder
  <2>3. ASSUME ~stale' PROVE ToldWhenDone'
    BY <1>2, <2>3, ToldStep
  <2>4. QED
    BY <1>1, <2>1, <2>2, <2>3 DEF MigrationInv
<1>3. CASE ClearLocks
  <2>1. UNCHANGED <<source, destination, backup, journal, pc, todo, moved, faults, crashes, fresh, stale>>
    BY <1>3 DEF ClearLocks, partitions, checks
  <2>2. ~Held /\ ~Held'
    BY <1>3, MigrationAssumption DEF ClearLocks, Held
  <2>3. StartsWhole' /\ ChecksFresh' /\ NothingLost' /\ RenameReady'
    BY <2>1, <2>2 DEF MigrationInv, StartsWhole, ChecksFresh, NothingLost, RenameReady, Clean
  <2>4. ~stale' => InOrder'
    BY <2>1 DEF MigrationInv, InOrder, ApplyInOrder, RollbackInOrder, Clean, Few
  <2>5. ~stale' => ToldWhenDone'
    BY <2>1, <2>2 DEF MigrationInv, ToldWhenDone, Told, Few
  <2>6. QED
    BY <1>1, <2>3, <2>4, <2>5 DEF MigrationInv
<1>4. CASE UNCHANGED vars
  BY <1>1, <1>4 DEF vars, MigrationInv, StartsWhole, ChecksFresh, NothingLost, RenameReady, Clean, Held,
     InOrder, ApplyInOrder, RollbackInOrder, ToldWhenDone, Told, Few
<1>5. QED
  BY <1>2, <1>3, <1>4 DEF Next, Act

\* A migration loses no partition, and unless two failures happen or an apply runs on
\* outdated checks, its journal says what has become of them
\* (tenant_partition_migration.mjs), for any number of resources and invocations.
THEOREM NothingIsLost == Spec => []MigrationSafe
<1>1. MigrationInv => MigrationSafe
  <2> SUFFICES ASSUME MigrationInv PROVE MigrationSafe
    OBVIOUS
  <2>1. NothingLost
    BY DEF MigrationInv
  <2>2. ASSUME lock = NoProc, ~stale, faults + crashes <= 1 PROVE Told
    BY <2>2, MigrationAssumption DEF MigrationInv, ToldWhenDone, Held, Few
  <2>3. QED
    BY <2>1, <2>2 DEF MigrationSafe, JournalTruthful, Told
<1>2. QED
  BY <1>1, MigrationStart, MigrationStep, PTL DEF Spec

-----------------------------------------------------------------------------
(* The model catalogue                                                     *)

\* One refresh is under way at a time, while the flag is up, and it is newer than what is
\* given out.
OneRefresh ==
  /\ lastSyncResult <= refreshes
  /\ \A f \in Flights : flight[f].at # "off" =>
       /\ syncInProgress /\ lastSyncResult < flight[f].gen /\ flight[f].gen <= refreshes
       /\ \A g \in Flights : flight[g].at # "off" => g = f
\* A success that is reported is of the script's last run, which has ended, or of an
\* earlier one.
ReportedOnce ==
  /\ script.gen <= refreshes /\ syncStatus.gen <= refreshes
  /\ syncStatus.status = "success" =>
       /\ syncStatus.gen <= script.gen
       /\ syncStatus.gen = script.gen => script.at = "ended"
CatalogInv == CatalogTypeOK /\ OneRefresh /\ ReportedOnce /\ ReportTruthful

LEMMA CatalogStart == CatalogInit => CatalogInv
<1> SUFFICES ASSUME CatalogInit PROVE CatalogInv
  OBVIOUS
<1>1. 0 \in Gens /\ refreshes = 0 /\ lastSyncResult = 0
  BY CatalogAssumption DEF CatalogInit, Gens
<1>2. CatalogTypeOK
  BY <1>1 DEF CatalogInit, CatalogTypeOK, Statuses
<1>3. OneRefresh
  BY <1>1 DEF CatalogInit, OneRefresh
<1>4. ReportedOnce /\ ReportTruthful
  BY DEF CatalogInit, ReportedOnce, ReportTruthful
<1>5. QED
  BY <1>2, <1>3, <1>4 DEF CatalogInv

LEMMA CatalogStep == ASSUME CatalogInv, [CatalogNext]_catalogVars PROVE CatalogInv'
<1>0. CatalogTypeOK /\ OneRefresh /\ ReportedOnce /\ ReportTruthful /\ MaxRefreshes \in Nat
  BY CatalogAssumption DEF CatalogInv
<1>1. ASSUME UNCHANGED catalogVars PROVE CatalogInv'
  BY <1>0, <1>1 DEF catalogVars, CatalogInv, CatalogTypeOK, OneRefresh, ReportedOnce, ReportTruthful
<1>2. ASSUME UNCHANGED scriptVars, CatalogTypeOK', refreshes' \in Nat, refreshes' >= refreshes,
             UNCHANGED <<cacheFile, replaced>> \/ replaced'
      PROVE  ReportedOnce' /\ ReportTruthful'
  <2>1. script.gen \in Nat /\ syncStatus.gen \in Nat /\ refreshes \in Nat
    BY <1>0 DEF CatalogTypeOK, Gens
  <2>2. QED
    BY <1>0, <1>2, <2>1 DEF scriptVars, ReportedOnce, ReportTruthful
<1>3. ASSUME NEW f \in Flights, syncModels(f) PROVE CatalogInv'
  <2>1. CatalogTypeOK'
    BY <1>0, <1>3 DEF syncModels, scriptVars, CatalogTypeOK, Gens
  <2>2. OneRefresh'
    <3>1. \A g \in Flights : flight[g].at = "off"
      BY <1>0, <1>3 DEF syncModels, Busy, OneRefresh
    <3>2. /\ flight'[f] = [at |-> "fetching", gen |-> refreshes + 1]
          /\ \A g \in Flights \ {f} : flight'[g] = flight[g]
      BY <1>0, <1>3 DEF syncModels, CatalogTypeOK
    <3>3. refreshes' = refreshes + 1 /\ syncInProgress' /\ lastSyncResult' = lastSyncResult
      BY <1>3 DEF syncModels
    <3>4. refreshes \in Nat /\ lastSyncResult \in Nat
      BY <1>0 DEF CatalogTypeOK, Gens
    <3>5. QED
      BY <1>0, <3>1, <3>2, <3>3, <3>4 DEF OneRefresh
  <2>3. refreshes \in Nat /\ refreshes' = refreshes + 1 /\ UNCHANGED scriptVars
        /\ UNCHANGED <<cacheFile, replaced>>
    BY <1>0, <1>3 DEF syncModels, CatalogTypeOK, Gens
  <2>4. QED
    BY <1>2, <2>1, <2>2, <2>3 DEF CatalogInv
<1>4. ASSUME NEW f \in Flights, Fetched(f) \/ Store(f) \/ StoreFails(f) PROVE CatalogInv'
  <2>1. /\ flight[f].at # "off" /\ UNCHANGED refreshes /\ UNCHANGED scriptVars
        /\ \/ /\ flight' = [flight EXCEPT ![f].at = "phoenix"]
              /\ UNCHANGED <<syncInProgress, lastSyncResult, cacheFile, replaced>>
           \/ /\ flight' = [flight EXCEPT ![f].at = "off"]
              /\ syncInProgress' = FALSE
              /\ \/ UNCHANGED <<lastSyncResult, cacheFile, replaced>>
                 \/ /\ cacheFile' = flight[f].gen /\ lastSyncResult' = flight[f].gen
                    /\ replaced' = TRUE
    BY <1>4 DEF Fetched, Store, StoreFails, Landed
  <2>2. flight[f].gen \in Gens /\ refreshes \in Nat
    BY <1>0 DEF CatalogTypeOK, Gens
  <2>3. flight' \in [Flights -> [at : {"off", "fetching", "phoenix"}, gen : Gens]]
    BY <1>0, <2>1 DEF CatalogTypeOK
  <2>4. CatalogTypeOK'
    <3>1. /\ cacheFile' \in Gens /\ lastSyncResult' \in Gens
          /\ replaced' \in BOOLEAN /\ syncInProgress' \in BOOLEAN
      BY <1>0, <2>1, <2>2 DEF CatalogTypeOK
    <3>2. QED
      BY <1>0, <2>1, <2>3, <3>1 DEF scriptVars, CatalogTypeOK
  <2>5. /\ \A g \in Flights \ {f} : flight'[g] = flight[g] /\ flight[g].at = "off"
        /\ flight'[f].gen = flight[f].gen
    BY <1>0, <2>1 DEF CatalogTypeOK, OneRefresh
  <2>6. OneRefresh'
    <3>1. lastSyncResult \in Nat /\ lastSyncResult < flight[f].gen /\ flight[f].gen <= refreshes
          /\ syncInProgress /\ lastSyncResult <= refreshes
      BY <1>0, <2>1 DEF CatalogTypeOK, Gens, OneRefresh
    <3>2. CASE flight' = [flight EXCEPT ![f].at = "phoenix"]
               /\ UNCHANGED <<syncInProgress, lastSyncResult, cacheFile, replaced>>
      BY <2>1, <2>5, <3>1, <3>2 DEF OneRefresh
    <3>3. CASE flight' = [flight EXCEPT ![f].at = "off"]
      <4>1. \A g \in Flights : flight'[g].at = "off"
        BY <1>0, <2>5, <3>3 DEF CatalogTypeOK
      <4>2. lastSyncResult' <= refreshes'
        BY <2>1, <3>1
      <4>3. QED
        BY <4>1, <4>2 DEF OneRefresh
    <3>4. QED
      BY <2>1, <3>2, <3>3
  <2>7. ReportedOnce' /\ ReportTruthful'
    BY <1>2, <2>1, <2>2, <2>4
  <2>8. QED
    BY <2>4, <2>6, <2>7 DEF CatalogInv
<1>5. ASSUME UNCHANGED serviceVars, refreshes' \in Nat, refreshes' >= refreshes PROVE OneRefresh'
  <2>1. refreshes \in Nat /\ lastSyncResult \in Nat /\ \A f \in Flights : flight[f].gen \in Nat
    BY <1>0 DEF CatalogTypeOK, Gens
  <2>2. QED
    BY <1>0, <1>5, <2>1 DEF serviceVars, OneRefresh
<1>6. /\ refreshes \in Nat /\ script.gen \in Nat /\ syncStatus.gen \in Nat
      /\ script = [at |-> script.at, gen |-> script.gen, errors |-> script.errors, empty |-> script.empty]
      /\ script.errors \in BOOLEAN /\ script.empty \in BOOLEAN /\ script.gen \in Gens
      /\ syncStatus \in [status : Statuses, gen : Gens]
  BY <1>0 DEF CatalogTypeOK, Gens
<1>7. ASSUME Boot PROVE CatalogInv'
  <2>1. refreshes < MaxRefreshes /\ refreshes' = refreshes + 1 /\ refreshes + 1 \in Gens
        /\ UNCHANGED serviceVars /\ UNCHANGED <<cacheFile, replaced>>
    BY <1>0, <1>6, <1>7 DEF Boot, Gens
  <2>2. \/ /\ script' = [at |-> "waiting", gen |-> refreshes + 1, errors |-> FALSE, empty |-> FALSE]
           /\ syncStatus' = [status |-> "running", gen |-> refreshes + 1] \/ syncStatus' = syncStatus
        \/ /\ script' = [script EXCEPT !.at = "ended"]
           /\ syncStatus' = [status |-> "disabled", gen |-> refreshes + 1] \/ syncStatus' = syncStatus
    BY <1>7 DEF Boot, updateSyncStatus
  <2>3. CatalogTypeOK'
    <3>1. script' \in [at : {"off", "waiting", "fetching", "saving", "ended"}, gen : Gens,
                       errors : BOOLEAN, empty : BOOLEAN]
      <4>1. CASE script' = [at |-> "waiting", gen |-> refreshes + 1, errors |-> FALSE, empty |-> FALSE]
        BY <2>1, <4>1
      <4>2. CASE script' = [script EXCEPT !.at = "ended"]
        BY <1>0, <4>2 DEF CatalogTypeOK
      <4>3. QED
        BY <2>2, <4>1, <4>2
    <3>2. syncStatus' \in [status : Statuses, gen : Gens]
      BY <1>6, <2>1, <2>2 DEF Statuses
    <3>3. cacheFile' \in Gens /\ replaced' \in BOOLEAN
      BY <1>0, <1>6, <2>1 DEF CatalogTypeOK
    <3>4. QED
      BY <1>0, <2>1, <3>1, <3>2, <3>3 DEF CatalogTypeOK, serviceVars
  <2>4. ReportedOnce' /\ ReportTruthful'
    BY <1>0, <1>6, <2>1, <2>2 DEF ReportedOnce, ReportTruthful
  <2>5. QED
    BY <1>5, <1>6, <2>1, <2>3, <2>4 DEF CatalogInv
<1>8. ASSUME waitForPhoenix \/ FetchAll \/ KillScript PROVE CatalogInv'
  <2>1. /\ script.at # "ended" /\ UNCHANGED serviceVars
        /\ UNCHANGED <<refreshes, cacheFile, syncStatus, replaced>>
        /\ script' \in [at : {"fetching", "saving", "ended"}, gen : {script.gen},
                        errors : BOOLEAN, empty : BOOLEAN]
    BY <1>6, <1>8 DEF waitForPhoenix, FetchAll, KillScript
  <2>2. CatalogTypeOK'
    BY <1>0, <1>6, <2>1 DEF CatalogTypeOK, serviceVars
  <2>3. ReportedOnce' /\ ReportTruthful'
    BY <1>0, <1>6, <2>1 DEF ReportedOnce, ReportTruthful
  <2>4. QED
    BY <1>5, <1>6, <2>1, <2>2, <2>3 DEF CatalogInv
<1>9. ASSUME Persist PROVE CatalogInv'
  <2>1. /\ script.at = "saving" /\ script' = [script EXCEPT !.at = "ended"]
        /\ UNCHANGED serviceVars /\ UNCHANGED refreshes
        /\ \/ /\ cacheFile' = script.gen /\ replaced' = FALSE
              /\ \/ syncStatus' = [status |-> Outcome, gen |-> script.gen] \/ syncStatus' = syncStatus
           \/ /\ UNCHANGED <<cacheFile, replaced>>
              /\ \/ syncStatus' = [status |-> "failed", gen |-> script.gen] \/ syncStatus' = syncStatus
    BY <1>9 DEF Persist, updateSyncStatus
  <2>2. Outcome \in {"success", "failed", "partial"} /\ (Outcome = "success" => ~script.errors)
    BY DEF Outcome
  <2>3. CatalogTypeOK'
    <3>1. script' \in [at : {"off", "waiting", "fetching", "saving", "ended"}, gen : Gens,
                       errors : BOOLEAN, empty : BOOLEAN]
      BY <1>0, <1>6, <2>1, <2>2 DEF CatalogTypeOK
    <3>2. syncStatus' \in [status : Statuses, gen : Gens]
      BY <1>6, <2>1, <2>2 DEF Statuses
    <3>3. cacheFile' \in Gens /\ replaced' \in BOOLEAN
      BY <1>0, <1>6, <2>1 DEF CatalogTypeOK
    <3>4. QED
      BY <1>0, <2>1, <3>1, <3>2, <3>3 DEF CatalogTypeOK, serviceVars
  <2>4. ReportedOnce' /\ ReportTruthful'
    BY <1>0, <1>6, <2>1, <2>2 DEF ReportedOnce, ReportTruthful
  <2>5. QED
    BY <1>5, <1>6, <2>1, <2>3, <2>4 DEF CatalogInv
<1>10. QED
  BY <1>1, <1>3, <1>4, <1>7, <1>8, <1>9 DEF CatalogNext

LEMMA CatalogueOrdered ==
  CatalogInit /\ [][CatalogNext]_catalogVars => NeverOlder /\ []ReportTruthful
<1>1. CatalogInv /\ [CatalogNext]_catalogVars => [lastSyncResult' >= lastSyncResult]_catalogVars
  <2> SUFFICES ASSUME CatalogInv, CatalogNext PROVE lastSyncResult' >= lastSyncResult
    OBVIOUS
  <2>1. lastSyncResult \in Nat /\ \A f \in Flights : flight[f].gen \in Nat
    BY DEF CatalogInv, CatalogTypeOK, Gens
  <2>2. ASSUME NEW f \in Flights, Store(f) PROVE lastSyncResult' >= lastSyncResult
    BY <2>1, <2>2 DEF Store, CatalogInv, OneRefresh
  <2>3. ASSUME ~\E f \in Flights : Store(f) PROVE lastSyncResult' = lastSyncResult
    BY <2>3 DEF CatalogNext, syncModels, Fetched, StoreFails, Boot, waitForPhoenix, FetchAll,
                Persist, KillScript, serviceVars
  <2>4. QED
    BY <2>1, <2>2, <2>3
<1>2. CatalogInv => ReportTruthful
  BY DEF CatalogInv
<1>3. QED
  BY <1>1, <1>2, CatalogStart, CatalogStep, PTL DEF NeverOlder

\* However requests, timer, event and boot script overlap, a caller is never given an older
\* catalogue than before, and what the script reports as a success was one
\* (model-catalog.js, sync_models.mjs).
THEOREM CatalogueNeverOlder == CatalogSpec => NeverOlder /\ []ReportTruthful
BY CatalogueOrdered, PTL DEF CatalogSpec

-----------------------------------------------------------------------------
(* The review of a comparison page                                         *)

ReviewTypes ==
  /\ rows \in Nat /\ intact \in SUBSET (1..rows)
  /\ available \in BOOLEAN /\ playing \in BOOLEAN /\ calm \in BOOLEAN
  /\ active \in Nat /\ token \in Nat /\ playTimer \in Nat
\* The timeout that is pending is the one the playback has set.
TimerOwn == /\ playing => playTimer = token /\ token > 0
            /\ ~playing => playTimer = None
ReviewInv == ReviewTypes /\ TimerOwn /\ ReviewTruthful

LEMMA ReviewStart == ReviewInit => ReviewInv
<1> SUFFICES ASSUME ReviewInit PROVE ReviewInv
  OBVIOUS
<1>1. available \in BOOLEAN /\ rows \in Nat /\ active = 0 /\ playing = FALSE
  BY ReviewAssumption DEF ReviewInit, None
<1>2. ReviewTypes
  <2>1. intact \in SUBSET (1..rows) /\ calm \in BOOLEAN /\ token = 0 /\ playTimer = 0
    BY DEF ReviewInit, None
  <2>2. QED
    BY <1>1, <2>1 DEF ReviewTypes
<1>3. TimerOwn
  BY <1>1 DEF ReviewInit, TimerOwn
<1>4. ReviewTruthful
  BY <1>1 DEF ReviewInit, ReviewTruthful, None
<1>5. QED
  BY <1>2, <1>3, <1>4 DEF ReviewInv

LEMMA Halted ==
  ASSUME ReviewInv, NEW n \in Nat, Halt(n)
  PROVE  playing' = FALSE /\ due' = {} /\ playTimer' = None /\ token' \in Nat
BY DEF ReviewInv, ReviewTypes, TimerOwn, ReviewTruthful, Halt, None

LEMMA ReviewStep == ASSUME ReviewInv, [ReviewNext]_reviewVars PROVE ReviewInv'
<1>0. ReviewTypes /\ TimerOwn /\ ReviewTruthful
  BY DEF ReviewInv
<1> USE DEF None
<1>1. ASSUME UNCHANGED <<rows, active, lit, available, playback>>, intact' \in SUBSET (1..rows),
             calm' \in BOOLEAN, UNCHANGED view
      PROVE  ReviewInv'
  BY <1>0, <1>1 DEF ReviewInv, ReviewTypes, TimerOwn, ReviewTruthful, playback
<1>2. ASSUME NEW n \in Nat, Halt(n), UNCHANGED rows, intact' \in SUBSET (1..rows), calm' \in BOOLEAN,
             available' \in BOOLEAN, active' \in Nat,
             lit' = (IF active' = None THEN {} ELSE {active'}), ~available' => active' = None
      PROVE  ReviewInv'
  <2>1. playing' = FALSE /\ due' = {} /\ playTimer' = None /\ token' \in Nat
    BY <1>2, Halted
  <2>2. QED
    BY <1>0, <1>2, <2>1 DEF ReviewInv, ReviewTypes, TimerOwn, ReviewTruthful
<1>3. ASSUME stopPlayback, UNCHANGED <<rows, intact, marking>>, calm' \in BOOLEAN PROVE ReviewInv'
  BY <1>0, <1>2, <1>3 DEF stopPlayback, marking, ReviewTypes, ReviewTruthful
<1>4. ASSUME NEW i \in Nat, i > 0, available, Selected(i), UNCHANGED <<rows, intact, calm>>
      PROVE  ReviewInv'
  <2>1. CASE i \in intact
    BY <1>0, <1>2, <1>4, <2>1 DEF Selected, stopPlayback, ReviewTypes
  <2>2. CASE i \notin intact
    <3>1. Halt(2) /\ available' = FALSE /\ active' = 0 /\ lit' = {} /\ UNCHANGED <<rows, intact, calm>>
      BY <1>4, <2>2 DEF Selected, Failed
    <3>2. available' \in BOOLEAN /\ intact' \in SUBSET (1..rows) /\ calm' \in BOOLEAN
      BY <1>0, <3>1 DEF ReviewTypes
    <3>3. QED
      BY <1>2, <3>1, <3>2
  <2>3. QED
    BY <2>1, <2>2
<1>5. ASSUME overview, UNCHANGED <<rows, intact, calm>> PROVE ReviewInv'
  <2>1. Halt(1) /\ active' = None /\ lit' = {} /\ available' \in {available, FALSE}
    BY <1>5 DEF overview, stopPlayback, Failed
  <2>2. QED
    BY <1>0, <1>2, <1>5, <2>1 DEF ReviewTypes
<1>6. ASSUME Play PROVE ReviewInv'
  <2>1. /\ available /\ rows > 0 /\ UNCHANGED <<rows, intact, calm>>
        /\ IF playing THEN stopPlayback /\ UNCHANGED <<marking, view>>
           ELSE IF 1 \notin intact \/ calm \/ rows < 2 THEN Selected(1)
           ELSE /\ active' = 1 /\ lit' = {1} /\ view' = "delta" /\ UNCHANGED available
                /\ playing' = TRUE /\ token' = token + 2
                /\ playTimer' = token + 2 /\ due' = (due \ {playTimer}) \cup {token + 2}
    BY <1>6 DEF Play, Acting
  <2>2. CASE playing
    BY <1>0, <1>3, <2>1, <2>2 DEF ReviewTypes
  <2>3. CASE ~playing /\ (1 \notin intact \/ calm \/ rows < 2)
    <3>1. Selected(1)
      BY <2>1, <2>3
    <3>2. QED
      BY <1>4, <2>1, <3>1
  <2>4. CASE ~playing /\ ~(1 \notin intact \/ calm \/ rows < 2)
    <3>1. due = {} /\ token \in Nat /\ rows \in Nat /\ rows >= 2
      BY <1>0, <2>4 DEF ReviewTypes, ReviewTruthful
    <3>2. due' = {token + 2} /\ 1 \in 1..(rows - 1)
      BY <2>1, <2>4, <3>1
    <3>3. QED
      BY <1>0, <2>1, <2>4, <3>1, <3>2 DEF ReviewInv, ReviewTypes, TimerOwn, ReviewTruthful
  <2>5. QED
    BY <2>2, <2>3, <2>4
<1>7. ASSUME NEW of \in due, Timeout(of) PROVE ReviewInv'
  <2>1. playing /\ of = token /\ due = {token} /\ playTimer = token /\ token > 0
        /\ active \in 1..(rows - 1) /\ available /\ view = "delta"
    BY <1>0, <1>7 DEF ReviewTruthful, TimerOwn
  <2>2. UNCHANGED <<rows, intact, calm>>
    BY <1>7 DEF Timeout
  <2>3. CASE active + 1 \in intact
    <3>1. /\ active' = active + 1 /\ lit' = {active + 1} /\ view' = "delta" /\ available' = available
          /\ IF active' < rows THEN UNCHANGED playback
             ELSE token' = token + 1 /\ playing' = FALSE /\ playTimer' = None /\ due' = due \ {of}
      BY <1>7, <2>1, <2>3 DEF Timeout, Schedule
    <3>2. active + 1 \in 1..rows /\ rows \in Nat /\ token \in Nat
      BY <1>0, <2>1, <2>3 DEF ReviewTypes
    <3>3. CASE active' < rows
      <4>1. active + 1 \in 1..(rows - 1)
        BY <3>1, <3>2, <3>3
      <4>2. QED
        BY <1>0, <2>1, <2>2, <3>1, <3>2, <3>3, <4>1
        DEF ReviewInv, ReviewTypes, TimerOwn, ReviewTruthful, playback
    <3>4. CASE ~(active' < rows)
      <4>1. /\ due' = {} /\ token' = token + 1 /\ playing' = FALSE /\ playTimer' = 0
            /\ active' = active + 1 /\ lit' = {active'} /\ available' = TRUE
        BY <2>1, <3>1, <3>4
      <4>2. ReviewTypes'
        <5>1. token' \in Nat /\ active' \in Nat
          BY <3>2, <4>1
        <5>2. rows' \in Nat /\ intact' \in SUBSET (1..rows') /\ calm' \in BOOLEAN
          BY <1>0, <2>2 DEF ReviewTypes
        <5>3. QED
          BY <4>1, <5>1, <5>2 DEF ReviewTypes
      <4>3. TimerOwn' /\ ReviewTruthful'
        BY <3>2, <4>1 DEF TimerOwn, ReviewTruthful
      <4>4. QED
        BY <4>2, <4>3 DEF ReviewInv
    <3>5. QED
      BY <3>3, <3>4
  <2>4. CASE active + 1 \notin intact
    <3>1. /\ token' = token + 1 /\ playing' = FALSE /\ playTimer' = None /\ due' = due \ {of, playTimer}
          /\ available' = FALSE /\ active' = None /\ lit' = {}
      BY <1>7, <2>1, <2>4 DEF Timeout, Failed
    <3>2. due' = {} /\ token' \in Nat
      BY <1>0, <2>1, <3>1 DEF ReviewTypes
    <3>3. ReviewTypes'
      BY <1>0, <2>2, <3>1, <3>2 DEF ReviewTypes
    <3>4. TimerOwn' /\ ReviewTruthful'
      BY <3>1, <3>2 DEF TimerOwn, ReviewTruthful
    <3>5. QED
      BY <3>3, <3>4 DEF ReviewInv
  <2>5. QED
    BY <2>3, <2>4
<1>8. CASE UNCHANGED reviewVars
  BY <1>0, <1>1, <1>8 DEF reviewVars, marking, playback, ReviewTypes
<1>9. ASSUME NEW on, Focus(on) PROVE ReviewInv'
  <2>1. UNCHANGED <<rows, intact, calm, marking, view>> /\ (stopPlayback \/ UNCHANGED playback)
    BY <1>9 DEF Focus, Acting
  <2>2. QED
    BY <1>0, <1>1, <1>3, <2>1 DEF marking, ReviewTypes
<1>10. ASSUME (\E v \in {"base", "delta", "head"} : Tab(v)) \/ RowKey \/ Hide PROVE ReviewInv'
  <2>1. stopPlayback /\ UNCHANGED <<rows, intact, calm, marking>>
    BY <1>10 DEF Tab, RowKey, Hide, Acting
  <2>2. QED
    BY <1>0, <1>3, <2>1 DEF ReviewTypes
<1>11. ASSUME (\E i \in 1..rows : Row(i)) \/ Previous \/ NextRow PROVE ReviewInv'
  <2>1. PICK i \in Nat : i > 0 /\ available /\ Selected(i)
    <3>1. rows \in Nat /\ active \in Nat
      BY <1>0 DEF ReviewTypes
    <3>2. CASE \E i \in 1..rows : Row(i)
      BY <3>1, <3>2 DEF Row
    <3>3. CASE Previous
      BY <3>1, <3>3 DEF Previous
    <3>4. CASE NextRow
      BY <3>1, <3>4 DEF NextRow
    <3>5. QED
      BY <1>11, <3>2, <3>3, <3>4
  <2>2. UNCHANGED <<rows, intact, calm>>
    BY <1>11 DEF Row, Previous, NextRow, Acting
  <2>3. QED
    BY <1>4, <2>1, <2>2
<1>12. ASSUME Overview \/ Escape \/ PrintStart PROVE ReviewInv'
  BY <1>5, <1>12 DEF Overview, Escape, PrintStart, Acting
<1>13. ASSUME Calm PROVE ReviewInv'
  <2>1. calm' \in BOOLEAN /\ UNCHANGED <<rows, intact, marking, view>>
        /\ (stopPlayback \/ UNCHANGED playback)
    BY <1>0, <1>13 DEF Calm, ReviewTypes
  <2>2. QED
    BY <1>0, <1>1, <1>3, <2>1 DEF marking, ReviewTypes
<1>14. ASSUME NEW i \in 1..rows, Disturb(i) PROVE ReviewInv'
  BY <1>0, <1>1, <1>14 DEF Disturb, marking, ReviewTypes
<1>15. QED
  BY <1>6, <1>7, <1>8, <1>9, <1>10, <1>11, <1>12, <1>13, <1>14 DEF ReviewNext

LEMMA ReviewOrdered ==
  ReviewInit /\ [][ReviewNext]_reviewVars => []ReviewTruthful /\ PlaysInOrder
<1>1. ReviewInv => ReviewTruthful
  BY DEF ReviewInv
<1>2. ReviewInv /\ [ReviewNext]_reviewVars =>
        [playing /\ playing' => active' \in {active, active + 1}]_reviewVars
  <2> SUFFICES ASSUME ReviewInv, ReviewNext, playing, playing' PROVE active' \in {active, active + 1}
    OBVIOUS
  <2>1. ASSUME NEW of \in due, Timeout(of) PROVE active' \in {active, active + 1}
    BY <2>1 DEF Timeout, Schedule, marking
  <2>2. ~stopPlayback /\ ~overview /\ \A i : ~Selected(i)
    BY DEF stopPlayback, Halt, overview, Selected
  <2>3. ASSUME ~\E of \in due : Timeout(of) PROVE UNCHANGED marking
    BY <2>2, <2>3 DEF ReviewNext, Focus, Tab, Row, Disturb, RowKey, Previous, NextRow, Overview,
                      Escape, PrintStart, Play, Hide, Calm
  <2>4. QED
    BY <2>1, <2>3 DEF marking
<1>3. QED
  BY <1>1, <1>2, ReviewStart, ReviewStep, PTL DEF PlaysInOrder

\* Whatever the reader, the timer and other scripts do, in any order: what is marked is the
\* selected change, nothing is left to move it once playback stops, and a review that plays
\* goes on row by row (architecture-delta.mjs, the page's script).
THEOREM ReviewStaysTruthful == ReviewSpec => []ReviewTruthful /\ PlaysInOrder
BY ReviewOrdered, PTL DEF ReviewSpec

-----------------------------------------------------------------------------
(* The live preview                                                        *)

\* What is served is what is in the output file, made from a source that can be drawn.
Served == /\ output = lastGood /\ lastGood \in Good \cup {NoSource}
          /\ status = "verified" => lastGood # NoSource
\* A preview that has stopped leaves no child and no open server behind.
StoppedClean == life = "stopped" => building = NoSource /\ ~listening
PreviewInv == PTypeOK /\ Served /\ StoppedClean

LEMMA PreviewStart == PInit => PreviewInv
<1> SUFFICES ASSUME PInit PROVE PreviewInv
  OBVIOUS
<1>1. edits \in 0..MaxEdits /\ queued = file /\ file \in Sources
  BY PreviewAssumption DEF PInit
<1>2. {timer, changed, pending, listening, stuck} \subseteq BOOLEAN
  BY DEF PInit
<1>3. PTypeOK
  BY <1>1, <1>2 DEF PInit, PTypeOK
<1>4. QED
  BY <1>3 DEF PInit, PreviewInv, Served, StoppedClean

LEMMA PreviewStep == ASSUME PreviewInv, [PNext]_pvars PROVE PreviewInv'
<1>0. /\ PTypeOK /\ Served /\ StoppedClean
      /\ Good \subseteq Sources /\ NoSource \notin Sources /\ MaxEdits \in Nat
      /\ timer \in BOOLEAN /\ changed \in BOOLEAN /\ pending \in BOOLEAN /\ listening \in BOOLEAN
      /\ stuck \in BOOLEAN
  BY PreviewAssumption DEF PreviewInv, PTypeOK
<1>1. CASE UNCHANGED pvars
  BY <1>0, <1>1 DEF pvars, build, ending, PreviewInv, PTypeOK, Served, StoppedClean
<1>2. CASE Edit \/ observeSource
  <2>1. edits' \in 0..MaxEdits /\ file' \in Sources /\ queued' \in Sources
    BY <1>0, <1>2 DEF Edit, observeSource, build, PTypeOK
  <2>2. {timer', changed'} \subseteq BOOLEAN
    BY <1>0, <1>2 DEF Edit, observeSource, build
  <2>3. UNCHANGED <<building, pending, lastGood, output, status, failed, life, listening, drain, stuck>>
    BY <1>2 DEF Edit, observeSource, build, ending
  <2>4. QED
    BY <1>0, <2>1, <2>2, <2>3 DEF PreviewInv, PTypeOK, Served, StoppedClean
<1>3. CASE launch
  <2>1. /\ life = "running" /\ UNCHANGED <<file, edits, lastGood, output, life, listening, drain, stuck>>
        /\ queued' \in {file, queued}
    BY <1>3 DEF launch, ending, Previewing
  <2>2. /\ {timer', changed', pending'} \subseteq BOOLEAN
        /\ {building', failed'} \subseteq Sources \cup {NoSource}
        /\ status' \in {status, "checking", "needs-fix", "verified"}
    BY <1>0, <1>3 DEF launch, Reverted, beginBuild, PTypeOK
  <2>3. status' = "verified" => status = "verified" \/ file = lastGood
    BY <1>3 DEF launch, Reverted, beginBuild
  <2>4. PTypeOK'
    BY <1>0, <2>1, <2>2 DEF PTypeOK
  <2>5. Served'
    BY <1>0, <2>1, <2>3 DEF PTypeOK, Served
  <2>6. QED
    BY <2>1, <2>4, <2>5 DEF PreviewInv, StoppedClean
<1>4. CASE CloseChild
  <2>1. /\ building # NoSource /\ building' = NoSource /\ drain' = "off"
        /\ UNCHANGED <<file, edits, listening, stuck>>
        /\ life' = IF ~Previewing /\ ~listening THEN "stopped" ELSE life
    BY <1>4 DEF CloseChild
  <2>2. /\ \/ building \in Good /\ output' = building /\ lastGood' = building /\ status' = "verified"
              /\ failed' = NoSource
           \/ UNCHANGED <<output, lastGood>> /\ status' = "needs-fix" /\ failed' = building
           \/ UNCHANGED <<output, lastGood, status, failed>>
        /\ {pending', timer', changed'} \subseteq BOOLEAN /\ queued' \in {file, queued}
    BY <1>0, <1>4 DEF CloseChild, commitCandidate, publishFailure
  <2>3. PTypeOK'
    BY <1>0, <2>1, <2>2 DEF PTypeOK
  <2>4. Served'
    BY <1>0, <2>2 DEF PTypeOK, Served
  <2>5. StoppedClean'
    BY <1>0, <2>1 DEF StoppedClean
  <2>6. QED
    BY <2>3, <2>4, <2>5 DEF PreviewInv
<1>5. CASE stop \/ forceStop \/ DrainTimer
  <2>1. /\ UNCHANGED <<file, edits, queued, changed, building, pending, lastGood, output, status,
                       failed, listening, stuck>>
        /\ timer' \in {timer, FALSE} /\ life' = "stopping" /\ drain' \in {"off", "grace", "term", "kill"}
    BY <1>5 DEF stop, forceStop, DrainTimer, Escalate, build
  <2>2. QED
    BY <1>0, <2>1 DEF PreviewInv, PTypeOK, Served, StoppedClean
<1>6. CASE ServerClosed
  <2>1. /\ UNCHANGED <<file, edits, queued, timer, changed, building, pending, lastGood, output, status,
                       failed, drain, stuck>>
        /\ listening' = FALSE /\ life' \in {life, "stopped"} /\ life = "stopping"
        /\ life' = "stopped" => building = NoSource
    BY <1>6 DEF ServerClosed, build
  <2>2. QED
    BY <1>0, <2>1 DEF PreviewInv, PTypeOK, Served, StoppedClean
<1>7. QED
  BY <1>1, <1>2, <1>3, <1>4, <1>5, <1>6 DEF PNext

LEMMA PublishingStep == [PNext]_pvars => [output' # output => output' = file]_pvars
BY DEF PNext, Edit, observeSource, launch, CloseChild, commitCandidate, SameSource, publishFailure,
       stop, forceStop, DrainTimer, ServerClosed, build

\* An artifact is published for the source as it is at that moment, however edits, builds
\* and signals overlap; what is served is what was published; and a preview that has
\* stopped has left no child and no open server (preview.mjs).
THEOREM PreviewStaysTrue == PSpec => PublishedFromSource /\ [](Served /\ StoppedClean)
<1>1. PreviewInv => Served /\ StoppedClean
  BY DEF PreviewInv
<1>2. QED
  BY <1>1, PublishingStep, PreviewStart, PreviewStep, PTL DEF PSpec, PublishedFromSource

-----------------------------------------------------------------------------
(* The parts together                                                      *)

LEMMA PartsSafety == PartsSpec => PartsInit /\ [][PartsNext]_partsVars
BY PTL DEF PartsSpec

LEMMA PartsStart ==
  PartsInit => VaultInit /\ LedgerInit /\ RegistryInit /\ GatewayInit
BY DEF PartsInit

\* A step of the composition is a step of one part, and leaves the others alone.
LEMMA PartsStep ==
  ASSUME [PartsNext]_partsVars
  PROVE  /\ [VaultNext]_vaultVars /\ [LedgerNext]_ledgerVars /\ [RegistryNext]_registryVars
         /\ [FailoverNext \/ SignatureNext]_gatewayVars
BY DEF PartsNext, partsVars

\* Users' partitions are moved without loss and kept apart, in the composition of the parts.
THEOREM PartitionsKept == PartsSpec => []PartitionsSafe
<1>1. PartsInit => (Init /\ IdentityInit)
  BY DEF PartsInit
<1>2. [PartsNext]_partsVars => [Next]_vars /\ [IdentityNext]_identityVars
  BY DEF PartsNext, partsVars
<1>3. Init /\ [][Next]_vars => []MigrationSafe
  BY NothingIsLost DEF Spec
<1>4. IdentityInit /\ [][IdentityNext]_identityVars => []TenantsApart
  BY UsersApart DEF IdentitySpec
<1>5. MigrationSafe /\ TenantsApart => PartitionsSafe
  BY DEF PartitionsSafe
<1>6. QED
  BY <1>1, <1>2, <1>3, <1>4, <1>5, PartsSafety, PTL

\* What outlives one call stays true in the composition of the parts: vaults keep the keys
\* they confirmed, incidents stay filed, a server that was unregistered stays gone, the
\* signatures of tool calls are kept and a cascade's outcome is honest.
THEOREM StoresKept == PartsSpec => []StoresTruthful
<1>1. PartsInit => (VaultInit /\ LedgerInit /\ RegistryInit /\ GatewayInit)
  BY PartsStart
<1>2. [PartsNext]_partsVars =>
        /\ [VaultNext]_vaultVars /\ [LedgerNext]_ledgerVars /\ [RegistryNext]_registryVars
        /\ [FailoverNext \/ SignatureNext]_gatewayVars
  BY PartsStep
<1>3. VaultInit /\ [][VaultNext]_vaultVars => []VaultTruthful
  BY VaultKeepsKeys DEF VaultSpec
<1>4. LedgerInit /\ [][LedgerNext]_ledgerVars => []IncidentsKept
  BY IncidentsStayFiled DEF LedgerSpec
<1>5. RegistryInit /\ [][RegistryNext]_registryVars => []UnregisteredStaysGone
  BY UnregisteredGone DEF RegistrySpec
<1>6. GatewayInit /\ [][FailoverNext \/ SignatureNext]_gatewayVars => []SignaturesKept
  BY SignaturesAreKept DEF GatewaySpec
<1>7. GatewayInit /\ [][FailoverNext \/ SignatureNext]_gatewayVars => []CascadeHonest
  BY CascadeIsKept DEF GatewaySpec
<1>8. VaultTruthful /\ IncidentsKept /\ UnregisteredStaysGone /\ SignaturesKept /\ CascadeHonest
        => StoresTruthful
  BY DEF StoresTruthful
<1>9. QED
  BY <1>1, <1>2, <1>3, <1>4, <1>5, <1>6, <1>7, <1>8, PartsSafety, PTL

\* Everything else that the parts promise of each of their steps holds in the composition
\* as well: tool calls are governed, work is staged apart, an installation ends whole, a
\* preview publishes the source as it is, catalogues and reviews go forward.
THEOREM PromisesKept ==
  PartsSpec => /\ [](ShellCallsGoverned /\ StagingIsolated /\ InstallOrRestore)
               /\ [](ReportTruthful /\ ReviewTruthful)
               /\ PublishedFromSource /\ NeverOlder /\ PlaysInOrder
<1>1. PartsInit => EInit /\ WorktreeInit /\ InstallerInit /\ CatalogInit /\ ReviewInit
  BY DEF PartsInit
<1>2. [PartsNext]_partsVars =>
        /\ [ENext]_evars /\ [WorktreeNext]_worktreeVars /\ [InstallerNext]_installerVars
        /\ [CatalogNext]_catalogVars /\ [ReviewNext]_reviewVars /\ [PNext]_pvars
  BY DEF PartsNext, partsVars
<1>3. EInit /\ [][ENext]_evars => []ShellCallsGoverned
  BY CallsGoverned DEF ESpec
<1>4. WorktreeInit /\ [][WorktreeNext]_worktreeVars => []StagingIsolated
  BY WorkIsolated DEF WorktreeSpec
<1>5. InstallerInit /\ [][InstallerNext]_installerVars => []InstallOrRestore
  BY InstalledOrRestored DEF InstallerSpec
<1>6. CatalogInit /\ [][CatalogNext]_catalogVars => NeverOlder /\ []ReportTruthful
  BY CatalogueOrdered
<1>7. ReviewInit /\ [][ReviewNext]_reviewVars => []ReviewTruthful /\ PlaysInOrder
  BY ReviewOrdered
<1>8. [][PNext]_pvars => PublishedFromSource
  BY PublishingStep, PTL DEF PublishedFromSource
<1>9. QED
  BY <1>1, <1>2, <1>3, <1>4, <1>5, <1>6, <1>7, <1>8, PartsSafety, PTL

=============================================================================
