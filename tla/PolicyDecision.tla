--------------------------- MODULE PolicyDecision ---------------------------
(* The decision about a step's file targets (config/rbac-policy.mjs,           *)
(* enforceRbacPolicy) over a directory tree with symbolic links that others    *)
(* may change before the decision and between the decision and the use.        *)
(*                                                                             *)
(* A path is the sequence of its names, resolved against the root; trimming,   *)
(* quotes and the host's renaming of the container roots are left out. Policy  *)
(* and requests are given; the kinds of action are the code's lists.           *)
EXTENDS Integers, FiniteSets, SequencesExt

CONSTANTS
  Names,       \* what a path is made of
  Nodes,       \* the paths that may exist, closed under non-empty prefixes
  Requests,    \* [action, targets, web, command]: what a step may ask for; web are the
               \* targets spelled as http:// or https:// addresses, each the path the
               \* handlers make of it; command is the set of denied patterns its command
               \* line mentions
  ReadRoots, WriteRoots, DeniedPaths,  \* permissions.filesystem
  Listed,      \* of {"mcp", "other"}: what permissions.mcp and permissions.tools admit
  ShellConfined,            \* DSH_EXECUTOR_MODE = isolated
  BridgeRoot, StateDir,     \* /var/lib/dsh and DSH_SESSION_STATE_DIR
  MaxLinks, NoRequest

ASSUME DecisionAssumption ==
  /\ Nodes \subseteq Seq(Names) \ {<<>>}
  /\ \A p \in Nodes : Prefixes(p) \ {<<>>} \subseteq Nodes
  /\ \A r \in Requests : r.web \subseteq r.targets /\ \A t \in r.targets : t \in Seq(Names)
  /\ ReadRoots \cup WriteRoots \cup DeniedPaths \cup {StateDir} \subseteq Seq(Names)
  /\ MaxLinks \in Nat /\ NoRequest \notin Requests

\* kind and link: the tree; asked: the request that was granted; disturbed: the tree has
\* changed since; reached: the places it then read, wrote or was shown, each with the
\* target it was reached by.
VARIABLES kind, link, asked, disturbed, reached
decisionVars == <<kind, link, asked, disturbed, reached>>

-----------------------------------------------------------------------------
(* The file system.                                                            *)

Links == {p \in Nodes : kind[p] = "link"}
Resolved(p) == Prefixes(p) \cap Links = {}

\* Follow the first link on the way to p.
Hop(p) ==
  LET onTheWay == Prefixes(p) \cap Links
      q == CHOOSE l \in onTheWay : \A m \in onTheWay : Len(l) <= Len(m)
  IN IF onTheWay = {} THEN p ELSE link[q] \o SubSeq(p, Len(q) + 1, Len(p))

\* The way from p along its links; the system gives up after so many of them (ELOOP), and
\* what is not resolved then is nowhere. Whether there is something where it ends.
MaxHops == 2 * MaxLinks + 1
Way(p) == LET way[n \in 0..MaxHops] == IF n = 0 THEN p ELSE Hop(way[n - 1]) IN way
realpath(p) == Way(p)[MaxHops]
Exists(p) == realpath(p) \in Nodes /\ kind[realpath(p)] \in {"dir", "file"}
Dangling == {l \in Links : ~Exists(l)}

-----------------------------------------------------------------------------
(* The decision.                                                               *)

\* canonicalizeWithAncestorRealpath: resolve the longest part of the path that exists.
Canonical(p) ==
  LET known == {q \in Prefixes(p) : Exists(q)}
      q == CHOOSE l \in known : \A m \in known : Len(m) <= Len(l)
  IN IF known = {} THEN p ELSE realpath(q) \o SubSeq(p, Len(q) + 1, Len(p))

\* isContainedWithin: by name, or by where the names lead.
Within(t, root) == IsPrefix(root, t) \/ IsPrefix(Canonical(root), Canonical(t))

Bridged(root, real) == Within(root, BridgeRoot) /\ Within(real, StateDir)

\* checkSymlinkEscape: a link below the root that leads out of it.
Escapes(t, root) ==
  \E p \in Prefixes(t) \cap Links :
    /\ \A q \in Prefixes(t) : Len(q) >= Len(p) => q # root /\ q # Canonical(root)
    /\ Exists(p)
    /\ ~Within(realpath(p), root) /\ ~Within(realpath(p), Canonical(root))
    /\ ~Bridged(root, realpath(p)) /\ ~Bridged(Canonical(root), realpath(p))

DeniedByName(t) == \E d \in DeniedPaths : IsPrefix(d, t)
Denied(t) == \E d \in DeniedPaths : Within(t, d) \/ Within(Canonical(t), d)

InsideRoots(t, roots) ==
  /\ \A r \in roots : Within(t, r) => ~Escapes(t, r)
  /\ \E r \in roots :
       /\ Within(t, r)
       /\ \/ Within(Canonical(t), r) \/ Within(Canonical(t), Canonical(r))
          \/ Bridged(r, Canonical(t))

\* enforceRbacPolicy, its refusals in their order: shell, missing target, command, then
\* each target's denials and roots (unless it is spelled as a web address, whatever the
\* action), then what is no file action.
Compliant(r) ==
  /\ r.action = "shell" => ShellConfined
  /\ r.action \in {"write", "shell", "read"} => r.targets # {}
  /\ r.command \cap DeniedPaths = {}
  /\ \A t \in r.targets \ r.web :
       /\ ~Denied(t)
       /\ r.action \in {"write", "shell"} => InsideRoots(t, WriteRoots)
       /\ r.action = "read" => InsideRoots(t, ReadRoots)
  /\ r.action \in {"mcp", "other"} => r.action \in Listed

-----------------------------------------------------------------------------
Kinds == {"none", "dir", "file", "link"}
DecisionTypeOK ==
  /\ kind \in [Nodes -> Kinds] /\ link \in [Nodes -> Nodes \cup {<<>>}]
  /\ \A p \in Nodes : (kind[p] = "link") = (link[p] # <<>>)
  /\ asked \in Requests \cup {NoRequest} /\ disturbed \in BOOLEAN
  /\ reached \subseteq [by : Seq(Names), at : Seq(Names)]

\* Every directory (the short paths) is there, no file, no link.
DecisionInit ==
  /\ kind = [p \in Nodes |-> IF Len(p) = 1 THEN "dir" ELSE "none"]
  /\ link = [p \in Nodes |-> <<>>]
  /\ asked = NoRequest /\ disturbed = FALSE /\ reached = {}

\* Whoever else works in the tree makes, replaces or removes a file or a link; what lay
\* below it is gone with it.
Change(p, k, to) ==
  /\ reached = {} /\ ~disturbed
  /\ Len(p) > 1 => kind[Front(p)] = "dir"
  /\ k = "dir" => Len(p) = 1
  /\ k = "file" => Len(p) > 1
  /\ (k = "link") = (to # <<>>) /\ <<k, to>> # <<kind[p], link[p]>>
  /\ k = "link" => Cardinality(Links \ {p}) < MaxLinks
  /\ kind' = [q \in Nodes |-> IF q = p THEN k ELSE IF IsPrefix(p, q) THEN "none" ELSE kind[q]]
  /\ link' = [q \in Nodes |-> IF q = p THEN to ELSE IF IsPrefix(p, q) THEN <<>> ELSE link[q]]
  /\ disturbed' = (asked # NoRequest)
  /\ UNCHANGED <<asked, reached>>

Decide(r) ==
  /\ asked = NoRequest /\ Compliant(r)
  /\ asked' = r
  /\ UNCHANGED <<kind, link, disturbed, reached>>

\* The action goes by the names it was granted, as far as they lead anywhere. A handler
\* that finds no file there, but a directory, goes on to what is in it, links included:
\* forensic_investigation and read_catalog read it, contain_threat and escalate_to_soc
\* write their ledger there.
Below(p) == {p} \cup {Append(p, n) : n \in Names}
IsFile(p) == realpath(p) \in Nodes /\ kind[realpath(p)] = "file"
GoesTo(r, t) == IF r.action \in {"read", "write"} /\ ~IsFile(t) THEN Below(t) ELSE {t}
Spots(r) == UNION {{[by |-> t, at |-> realpath(p)] : p \in GoesTo(r, t)} : t \in r.targets}
Use ==
  /\ asked # NoRequest /\ reached = {}
  /\ reached' = {u \in Spots(asked) : Resolved(u.at)}
  /\ UNCHANGED <<kind, link, asked, disturbed>>

DecisionNext ==
  \/ \E p \in Nodes, k \in Kinds, to \in Nodes \cup {<<>>} : Change(p, k, to)
  \/ \E r \in Requests : Decide(r)
  \/ Use
DecisionSpec == DecisionInit /\ [][DecisionNext]_decisionVars

-----------------------------------------------------------------------------
\* Each place a granted step reaches at a target, or in it if it is a directory, lies
\* inside a root of the step's permission (or in the state directory behind a bridged root)
\* and outside of everything denied, through whatever links the target's names lead. Not if
\* the tree changed between decision and use, or a link led nowhere, which existsSync takes
\* for a missing file, or a root did. And not for what the decision does not look at: a
\* target spelled as a web address; where a link in the directory leads; and whether the
\* very thing in the directory is denied, below a target that is not.
Settled(roots) == ~disturbed /\ Dangling = {} /\ \A r \in roots : Resolved(realpath(r))
GrantedPlacesOnly ==
  LET roots == IF asked.action = "read" THEN ReadRoots ELSE WriteRoots IN
  \A u \in reached :
    Settled(roots) /\ u.by \notin asked.web /\ u.at \in Below(realpath(u.by)) =>
      /\ \A d \in DeniedPaths : IsPrefix(realpath(d), u.at) =>
           u.at # realpath(u.by) /\ u.at = realpath(d)
      /\ asked.action \in {"read", "write", "shell"} =>
           \E r \in roots : IsPrefix(realpath(r), u.at) \/ Bridged(r, u.at)
=============================================================================
