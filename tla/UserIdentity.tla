---------------------------- MODULE UserIdentity ----------------------------
(* Who a request comes from and which directories it may name: iam.js, net-trust.js *)
(* and user-partition.js of packages/dsh-dds-core. Requests are served side by side, *)
(* each in an asynchronous context of its own. A digest is taken to tell apart what  *)
(* it digests; only the operator's map leads to directories of the older naming.     *)
EXTENDS Naturals, SequencesExt
CONSTANTS
  Requests,
  Users,       \* pairs of an issuer and a subject
  Operator,    \* the one the default operator and the bearer of the secret act as
  OldNames,    \* directory names of the older naming, which folds subjects together
  Nobody

ASSUME IdentityAssumption == \A u \in Users : u = <<u[1], u[2]>>

VARIABLES
  mode,        \* "tokens", "proxy" or "open": where identities are taken from
  oldName,     \* legacyPartitionMap: old directory names of some users
  manager,     \* "new", "up", or "refused" by its constructor
  who,         \* the identity in each request's context
  opened       \* the last directory each user's request was allowed to name

identityVars == <<mode, oldName, manager, who, opened>>

IdentityTypeOK ==
  /\ mode \in {"tokens", "proxy", "open"} /\ manager \in {"new", "up", "refused"}
  /\ DOMAIN oldName \subseteq Users /\ \A u \in DOMAIN oldName : oldName[u] \in OldNames
  /\ \A r \in Requests : who[r] = Nobody \/ who[r].user \in Users \cup {Operator}

-----------------------------------------------------------------------------
\* What a request shows. A token that is forged, expired or without a subject is worth
\* none; a proxy's headers count if its address is that of a trusted gateway.
Shown == [token : {"none", "secret", "signed"}, user : Users, admin : BOOLEAN, named : BOOLEAN, gateway : BOOLEAN]
Identity(user, admin) == [user |-> user, admin |-> admin]

\* extractUserFromHeaders: the identities a request may get; none is a refusal.
extractUserFromHeaders(request) ==
  IF mode = "tokens"
  THEN IF request.token = "none" THEN {}
       ELSE IF request.token = "secret" THEN {Identity(Operator, TRUE)}
       ELSE {Identity(request.user, request.admin)}
  ELSE IF mode = "proxy" /\ request.named /\ request.gateway THEN {Identity(request.user, request.admin)}
  ELSE {Identity(Operator, TRUE)}

\* A path is a sequence of names; the last of a "..": path.resolve is lexical.
Dir(name) == <<"dir", name, name>>
Part(u) == <<"u2", u[1], u[2]>>
Old(name) == <<"old", name, name>>
Up == Dir("..")
Resolved(path) == FoldLeft(LAMBDA p, name : IF name # Up THEN Append(p, name) ELSE IF p = <<>> THEN p ELSE Front(p), <<>>, path)

StateBase == <<Dir("state")>>
WorkUsers == <<Dir("workspaces"), Dir("users")>>
Shared == <<Dir("workspaces"), Dir("shared")>>
\* getUserPaths, with the directories the map adds.
Roots(u) ==
  {StateBase \o <<Part(u)>>, WorkUsers \o <<Part(u)>>, Shared}
    \cup (IF u \in DOMAIN oldName THEN {StateBase \o <<Old(oldName[u])>>, WorkUsers \o <<Old(oldName[u])>>} ELSE {})
Within(root, place) == \A i \in DOMAIN root : i \in DOMAIN place /\ place[i] = root[i]
\* For a resolved path; the paths of an administrator are not looked at.
validatePathAccess(place, identity) ==
  identity.admin \/ \E root \in Roots(identity.user) : Within(root, place)

\* Bound: the paths steps name, those with a ".." in them included, and where they lead.
Homes == {StateBase, WorkUsers}
Paths ==
  LET places == {h \o <<n>> : h \in Homes, n \in {Part(u) : u \in Users} \cup {Old(x) : x \in OldNames}}
                  \cup Homes \cup {Shared}
      own == {h \o <<Part(u)>> : h \in Homes, u \in Users}
  IN  places \cup {p \o <<Up, Last(q)>> : p \in own, q \in places}
Places == {Resolved(path) : path \in Paths}

-----------------------------------------------------------------------------
IdentityInit ==
  /\ mode \in {"tokens", "proxy", "open"} /\ manager = "new"
  /\ oldName \in UNION {[us -> OldNames] : us \in SUBSET Users}
  /\ who = [r \in Requests |-> Nobody] /\ opened = [r \in Requests |-> <<>>]

\* validateLegacyPartitionMap: no two users may lead to one directory.
Unambiguous(map) == \A u, v \in DOMAIN map : map[u] = map[v] => u = v

\* The manager's constructor throws on a map it does not accept, and nothing is served.
Construct ==
  /\ manager = "new" /\ manager' = IF Unambiguous(oldName) THEN "up" ELSE "refused"
  /\ UNCHANGED <<mode, oldName, who, opened>>

\* authenticateRequest and runWithUser: the rest of the request runs in its context.
Authenticate(r) ==
  /\ manager = "up" /\ who[r] = Nobody
  /\ \E identity \in UNION {extractUserFromHeaders(request) : request \in Shown} :
       who' = [who EXCEPT ![r] = identity]
  /\ UNCHANGED <<mode, oldName, manager, opened>>

\* A step of the request names a path, at any time while others do the same; where an
\* administrator's lead is not kept.
Open(r, place) ==
  /\ who[r] # Nobody /\ ~who[r].admin /\ validatePathAccess(place, who[r])
  /\ opened' = [opened EXCEPT ![r] = place]
  /\ UNCHANGED <<mode, oldName, manager, who>>

IdentityNext ==
  \/ Construct
  \/ \E r \in Requests : \/ Authenticate(r)
                         \/ \E place \in Places : Open(r, place)

\* Two users' requests are never let into one directory, except for what is shared, and
\* none is let into a directory that holds others'.
TenantsApart ==
  \A r, s \in Requests :
    /\ opened[r] \notin Homes
    /\ opened[r] # <<>> /\ opened[r] = opened[s] /\ who[r] # who[s] => Within(Shared, opened[r])
=============================================================================
