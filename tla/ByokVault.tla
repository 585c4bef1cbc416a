------------------------------ MODULE ByokVault ------------------------------
(* The vault of a user's provider keys (packages/dsh-dds-core/byok-vault.js):   *)
(* one JSON file, read whole, changed and written whole in place. The handlers  *)
(* of one process do not interleave inside an operation; what can go wrong is   *)
(* the write, the read before it, and a vault inherited from the v1 layout.     *)
EXTENDS Naturals
CONSTANTS Providers, Keys, NoKey,
          Absent, Torn,    \* no file; a file that does not parse
          MaxTorn          \* writes that fail half-way in a behaviour

Vaults == [Providers -> Keys \cup {NoKey}]
ASSUME VaultAssumption == /\ NoKey \notin Keys /\ MaxTorn \in Nat
                          /\ {Absent, Torn} \cap Vaults = {} /\ Absent # Torn

emptyVault == [p \in Providers |-> NoKey]

VARIABLES
  primary,     \* the file of the v2 partition
  legacy,      \* the file of the mapped v1 partition, never written
  torn,        \* writes that failed half-way
  known,       \* the keys the user believes to have set (history)
  blind        \* a vault was written that was made from a failed read (history)

vaultVars == <<primary, legacy, torn, known, blind>>

VaultTypeOK ==
  /\ primary \in Vaults \cup {Absent, Torn} /\ legacy \in Vaults \cup {Absent}
  /\ torn \in 0..MaxTorn /\ known \in Vaults
  /\ blind \in BOOLEAN

VaultInit ==
  /\ primary = Absent /\ torn = 0 /\ blind = FALSE
  /\ legacy \in Vaults \cup {Absent}
  /\ known = IF legacy = Absent THEN emptyVault ELSE legacy

\* What the v1 partition holds for the user.
Inherited == IF legacy = Absent THEN emptyVault ELSE legacy
\* Mutant: a vault that does not parse is looked for in the old place.
StoredEither == IF primary \in {Absent, Torn} THEN Inherited ELSE primary
\* What the files hold for the user: the old place counts only while there is no file in
\* the new one, and a file that does not parse is an empty vault.
Stored ==
  CASE primary = Absent -> Inherited
    [] primary = Torn   -> emptyVault
    [] OTHER            -> primary

\* loadVault: the same, or less when the file system errs. A test for the new file that
\* fails says there is none; a read that fails is an empty vault.
loadVault == {Stored, Inherited, emptyVault}

\* saveVault writes in place: it fails before the file is touched, or after it was
\* truncated, or completes; the caller hears of both failures.
saveVault(v, wanted) ==
  \/ primary' = v /\ known' = wanted /\ UNCHANGED torn
  \/ UNCHANGED <<primary, known, torn>>
  \/ torn < MaxTorn /\ torn' = torn + 1 /\ primary' = Torn /\ UNCHANGED known

\* The key of p is changed in what was read, and the whole is written back.
Change(p, k, read) ==
  /\ saveVault([read EXCEPT ![p] = k], [known EXCEPT ![p] = k])
  /\ blind' = (blind \/ read # Stored)
  /\ UNCHANGED legacy

\* POST and DELETE of handleVaultApiRequest, once the body is complete and names a
\* provider (anything else is answered without touching the vault).
setApiKey(p, k) == \E read \in loadVault : Change(p, k, read)
deleteApiKey(p) == \E read \in loadVault : read[p] # NoKey /\ Change(p, NoKey, read)

VaultNext == \E p \in Providers : deleteApiKey(p) \/ \E k \in Keys : setApiKey(p, k)
VaultSpec == VaultInit /\ [][VaultNext]_vaultVars

\* A key is there as it was last set, or not at all after a write that failed half-way:
\* neither an older value nor a deleted key ever comes back, not from the v1 vault
\* either. A change made on a failed read is what ends this: it loses the other keys, or
\* gives them back as the v1 vault has them, but never makes them anything else.
VaultTruthful ==
  \A p \in Providers :
    \/ Stored[p] = known[p]
    \/ torn > 0 /\ Stored[p] = NoKey
    \/ blind /\ Stored[p] \in {NoKey, Inherited[p]}
=============================================================================
