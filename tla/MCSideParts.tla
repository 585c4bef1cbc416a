----------------------------- MODULE MCSideParts -----------------------------
(* The parts of the system that keep to themselves, side by side in one state     *)
(* space: the scene, chosen initially, says which part runs, and the others stay  *)
(* in one initial state of theirs. No two of them share state, so the run checks  *)
(* each of them exactly as a run of its own would.                                *)
EXTENDS TenantMigration, PreviewServer, PolicyEnforcement, ByokVault, QuarantineLedger,
        McpRegistry, ModelCatalog, WorktreeStaging, Installer, DeltaReview, ModelGateway,
        UserIdentity

MCUsers == {<<"dsh-local", "alice">>, <<"idp", "alice">>, <<"dsh-local", "Alice">>}
MCOperator == <<"dsh-local", "default">>
MCTargets == <<"gemini", "openrouter", "openrouter">>

CONSTANTS m1, m2, m3, a1, a2, n1
\* m3 stands for a name with a colon in it, such that mcp:m3:n1 is m1's key as well.
MCActionOf == [t \in Servers \X ToolNames |-> IF t[1] = m2 THEN a2 ELSE a1]

VARIABLE scene

Scenes == {"migration", "preview", "enforcement", "vault", "quarantine", "registry",
           "catalog", "worktree", "installer", "review", "failover", "signatures",
           "identity"}

\* A preview that has been stopped, so that none of its timers is due.
StillPreview ==
  /\ file = (CHOOSE s \in Sources : TRUE) /\ queued = file /\ edits = 0
  /\ timer = FALSE /\ changed = FALSE /\ pending = FALSE
  /\ building = NoSource /\ lastGood = NoSource /\ output = NoSource /\ failed = NoSource
  /\ status = "checking" /\ life = "stopped" /\ listening = FALSE /\ drain = "off"
  /\ stuck = FALSE

PartsInit ==
  /\ scene \in Scenes
  /\ Init /\ LedgerInit /\ RegistryInit /\ CatalogInit /\ WorktreeInit
  /\ IF scene = "preview" THEN PInit ELSE StillPreview
  /\ EInit /\ (scene # "enforcement" => ~engine /\ ~isolated)
  /\ VaultInit /\ (scene # "vault" => legacy = Absent)
  /\ InstallerInit /\ (scene # "installer" => installed = Empty)
  /\ ReviewInit /\ (scene # "review" => rows = 0 /\ calm)
  /\ GatewayInit /\ (scene # "failover" => apiKeys = {})
  /\ IdentityInit /\ (scene # "identity" => mode = "open" /\ oldName = <<>>)

PartsNext ==
  \/ /\ scene = "migration" /\ Next
     /\ UNCHANGED <<scene, pvars, evars, vaultVars, ledgerVars, registryVars, catalogVars,
                    worktreeVars, installerVars, reviewVars, gatewayVars, identityVars>>
  \/ /\ scene = "preview" /\ PNext
     /\ UNCHANGED <<scene, vars, evars, vaultVars, ledgerVars, registryVars, catalogVars,
                    worktreeVars, installerVars, reviewVars, gatewayVars, identityVars>>
  \/ /\ scene = "enforcement" /\ ENext
     /\ UNCHANGED <<scene, vars, pvars, vaultVars, ledgerVars, registryVars, catalogVars,
                    worktreeVars, installerVars, reviewVars, gatewayVars, identityVars>>
  \/ /\ scene = "vault" /\ VaultNext
     /\ UNCHANGED <<scene, vars, pvars, evars, ledgerVars, registryVars, catalogVars,
                    worktreeVars, installerVars, reviewVars, gatewayVars, identityVars>>
  \/ /\ scene = "quarantine" /\ LedgerNext
     /\ UNCHANGED <<scene, vars, pvars, evars, vaultVars, registryVars, catalogVars,
                    worktreeVars, installerVars, reviewVars, gatewayVars, identityVars>>
  \/ /\ scene = "registry" /\ RegistryNext
     /\ UNCHANGED <<scene, vars, pvars, evars, vaultVars, ledgerVars, catalogVars,
                    worktreeVars, installerVars, reviewVars, gatewayVars, identityVars>>
  \/ /\ scene = "catalog" /\ CatalogNext
     /\ UNCHANGED <<scene, vars, pvars, evars, vaultVars, ledgerVars, registryVars,
                    worktreeVars, installerVars, reviewVars, gatewayVars, identityVars>>
  \/ /\ scene = "worktree" /\ WorktreeNext
     /\ UNCHANGED <<scene, vars, pvars, evars, vaultVars, ledgerVars, registryVars,
                    catalogVars, installerVars, reviewVars, gatewayVars, identityVars>>
  \/ /\ scene = "installer" /\ InstallerNext
     /\ UNCHANGED <<scene, vars, pvars, evars, vaultVars, ledgerVars, registryVars,
                    catalogVars, worktreeVars, reviewVars, gatewayVars, identityVars>>
  \/ /\ scene = "review" /\ ReviewNext
     /\ UNCHANGED <<scene, vars, pvars, evars, vaultVars, ledgerVars, registryVars,
                    catalogVars, worktreeVars, installerVars, gatewayVars, identityVars>>
  \/ /\ \/ scene = "failover" /\ FailoverNext
        \/ scene = "signatures" /\ SignatureNext
     /\ UNCHANGED <<scene, vars, pvars, evars, vaultVars, ledgerVars, registryVars,
                    catalogVars, worktreeVars, installerVars, reviewVars, identityVars>>
  \/ /\ scene = "identity" /\ IdentityNext
     /\ UNCHANGED <<scene, vars, pvars, evars, vaultVars, ledgerVars, registryVars,
                    catalogVars, worktreeVars, installerVars, reviewVars, gatewayVars>>

partsVars == <<scene, vars, pvars, evars, vaultVars, ledgerVars, registryVars, catalogVars,
               worktreeVars, installerVars, reviewVars, gatewayVars, identityVars>>

\* The fairness of each part, on its own variables: where the part does not run, none
\* of its fair actions is enabled.
PartsSpec ==
  /\ PartsInit /\ [][PartsNext]_partsVars
  /\ \A p \in Procs : WF_vars(Step(p)) /\ SF_vars(ReadJournal(p))
  /\ WF_vars(ClearLocks) /\ PFairness /\ CatalogFairness /\ ReviewFairness

-----------------------------------------------------------------------------
\* Users' partitions are moved without loss, and kept apart.
PartitionsSafe == MigrationSafe /\ TenantsApart

\* What outlives one call: vaults, incidents, the registry, the signatures of tool calls;
\* and the cascade in which a model is called.
StoresTruthful == VaultTruthful /\ IncidentsKept /\ UnregisteredStaysGone /\ SignaturesKept /\ CascadeHonest
=============================================================================
