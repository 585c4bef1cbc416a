---------------------------- MODULE ModelCatalog ----------------------------
(* The model catalogue: the in-process service (packages/dsh-dds-core/         *)
(* model-catalog.js), which refreshes at start, on a timer, on request and on  *)
(* an event, one refresh at a time; and the boot script (config/               *)
(* sync_models.mjs), which writes a status file and, where DSH_CACHE_DIR names *)
(* the directory of both, the same cache file.                                 *)
(* A catalogue is the number of the refresh that fetched it; 0 is none.        *)
EXTENDS Naturals
CONSTANTS Flights,      \* calls of syncModels that can be under way
          MaxRefreshes  \* refreshes and script runs in a behaviour

ASSUME CatalogAssumption == MaxRefreshes \in Nat

VARIABLES
  flight,          \* call -> [at, gen]: where it is, and the refresh it is
  refreshes,       \* refreshes begun so far
  syncInProgress, lastSyncResult,
  cacheFile,       \* models.cache.json: the refresh in it
  script,          \* [at, gen, errors, empty]: the boot script
  syncStatus,      \* sync_status.json: [status, gen]
  replaced         \* the service stored since the script last did (history)

serviceVars == <<flight, syncInProgress, lastSyncResult>>
scriptVars == <<script, syncStatus>>
catalogVars == <<flight, refreshes, syncInProgress, lastSyncResult, cacheFile, script,
                 syncStatus, replaced>>

Gens == 0..MaxRefreshes
Statuses == {"none", "disabled", "running", "success", "partial", "failed"}
CatalogTypeOK ==
  /\ flight \in [Flights -> [at : {"off", "fetching", "phoenix"}, gen : Gens]]
  /\ refreshes \in Gens /\ syncInProgress \in BOOLEAN /\ replaced \in BOOLEAN
  /\ {lastSyncResult, cacheFile} \subseteq Gens
  /\ script \in [at : {"off", "waiting", "fetching", "saving", "ended"}, gen : Gens,
                 errors : BOOLEAN, empty : BOOLEAN]
  /\ syncStatus \in [status : Statuses, gen : Gens]

CatalogInit ==
  /\ flight = [f \in Flights |-> [at |-> "off", gen |-> 0]]
  /\ refreshes = 0 /\ syncInProgress = FALSE
  /\ lastSyncResult = 0 /\ cacheFile = 0
  /\ script = [at |-> "off", gen |-> 0, errors |-> FALSE, empty |-> FALSE]
  /\ syncStatus = [status |-> "none", gen |-> 0] /\ replaced = FALSE

-----------------------------------------------------------------------------
(* The service                                                               *)

\* Mutant: every call starts a refresh of its own.
NeverBusy == FALSE
\* syncModels' first line.
Busy == syncInProgress

\* start, the timer, the route and the event all call syncModels; one that comes while
\* a refresh runs is given the last result, null at first, and changes nothing.
syncModels(f) ==
  /\ flight[f].at = "off" /\ ~Busy /\ refreshes < MaxRefreshes
  /\ refreshes' = refreshes + 1 /\ syncInProgress' = TRUE
  /\ flight' = [flight EXCEPT ![f] = [at |-> "fetching", gen |-> refreshes + 1]]
  /\ UNCHANGED <<lastSyncResult, cacheFile, replaced>> /\ UNCHANGED scriptVars

\* Promise.all of the two providers: their errors are part of the result.
Fetched(f) ==
  /\ flight[f].at = "fetching" /\ flight' = [flight EXCEPT ![f].at = "phoenix"]
  /\ UNCHANGED <<refreshes, syncInProgress, lastSyncResult, cacheFile, replaced>>
  /\ UNCHANGED scriptVars

Landed(f) == [flight EXCEPT ![f].at = "off"]
\* After syncToPhoenix, which cannot fail: the file, the result, the finally.
Store(f) ==
  /\ flight[f].at = "phoenix" /\ flight' = Landed(f)
  /\ cacheFile' = flight[f].gen /\ lastSyncResult' = flight[f].gen
  /\ syncInProgress' = FALSE /\ replaced' = TRUE
  /\ UNCHANGED refreshes /\ UNCHANGED scriptVars

\* Mutant: the flag is taken down only where the refresh succeeds.
StoreFailsBusy(f) ==
  /\ flight[f].at = "phoenix" /\ flight' = Landed(f)
  /\ UNCHANGED <<refreshes, syncInProgress, lastSyncResult, cacheFile, replaced>>
  /\ UNCHANGED scriptVars
\* writeFileSync throws: the caller gets the error, the flag comes down.
StoreFails(f) ==
  /\ flight[f].at = "phoenix" /\ flight' = Landed(f) /\ syncInProgress' = FALSE
  /\ UNCHANGED <<refreshes, lastSyncResult, cacheFile, replaced>>
  /\ UNCHANGED scriptVars

-----------------------------------------------------------------------------
(* The script                                                                *)

\* updateSyncStatus swallows its errors.
updateSyncStatus(s, g) ==
  \/ syncStatus' = [status |-> s, gen |-> g] \/ UNCHANGED syncStatus

\* main, up to the wait for Phoenix; a run that is disabled says so and ends.
Boot ==
  /\ script.at \in {"off", "ended"} /\ refreshes < MaxRefreshes
  /\ refreshes' = refreshes + 1
  /\ \/ /\ script' = [at |-> "waiting", gen |-> refreshes + 1, errors |-> FALSE,
                      empty |-> FALSE]
        /\ updateSyncStatus("running", refreshes + 1)
     \/ /\ script' = [script EXCEPT !.at = "ended"]
        /\ updateSyncStatus("disabled", refreshes + 1)
  /\ UNCHANGED serviceVars /\ UNCHANGED <<cacheFile, replaced>>
\* waitForPhoenix gives up after its attempts.
waitForPhoenix ==
  /\ script.at = "waiting"
  /\ \E ready \in BOOLEAN :
       script' = [script EXCEPT !.at = "fetching", !.errors = ~ready]
  /\ UNCHANGED serviceVars /\ UNCHANGED <<refreshes, cacheFile, syncStatus, replaced>>
\* Both providers; syncToPhoenix only if there is something and Phoenix was ready.
FetchAll ==
  /\ script.at = "fetching"
  /\ \E failed, empty \in BOOLEAN :
       script' = [script EXCEPT !.at = "saving", !.errors = @ \/ failed, !.empty = empty]
  /\ UNCHANGED serviceVars /\ UNCHANGED <<refreshes, cacheFile, syncStatus, replaced>>

\* Mutant: a catalogue that was written counts as a success, whatever failed.
OutcomeHasty == "success"
Outcome == IF ~script.errors THEN "success" ELSE IF script.empty THEN "failed" ELSE "partial"

\* persistModelCache writes whatever was fetched, an empty list too, and throws if it
\* cannot; then the outcome. In between nothing of the script yields.
Persist ==
  /\ script.at = "saving" /\ script' = [script EXCEPT !.at = "ended"]
  /\ \/ /\ cacheFile' = script.gen /\ replaced' = FALSE
        /\ updateSyncStatus(Outcome, script.gen)
     \/ UNCHANGED <<cacheFile, replaced>> /\ updateSyncStatus("failed", script.gen)
  /\ UNCHANGED serviceVars /\ UNCHANGED refreshes
\* The container is stopped while the script runs.
KillScript ==
  /\ script.at \notin {"off", "ended"} /\ script' = [script EXCEPT !.at = "ended"]
  /\ UNCHANGED serviceVars /\ UNCHANGED <<refreshes, cacheFile, syncStatus, replaced>>

CatalogNext ==
  \/ \E f \in Flights : syncModels(f) \/ Fetched(f) \/ Store(f) \/ StoreFails(f)
  \/ Boot \/ waitForPhoenix \/ FetchAll \/ Persist \/ KillScript

\* fetch gives up after its own default timeouts, so a refresh under way moves on.
CatalogFairness ==
  \A f \in Flights : WF_catalogVars(Fetched(f)) /\ WF_catalogVars(Store(f) \/ StoreFails(f))
CatalogSpec == CatalogInit /\ [][CatalogNext]_catalogVars /\ CatalogFairness

-----------------------------------------------------------------------------
\* A caller is never given an older catalogue than one that was given before, however
\* requests, timer and event overlap (the script's file is not read by the service).
NeverOlder == [][lastSyncResult' >= lastSyncResult]_catalogVars

\* What the script reports as a success had no error on the way, and the file holds
\* that very fetch unless the service, which takes no notice of it, stored since.
ReportTruthful ==
  syncStatus.status = "success" =>
    /\ syncStatus.gen = script.gen => ~script.errors
    /\ cacheFile = syncStatus.gen \/ replaced \/ cacheFile > syncStatus.gen

\* The flag always comes down again, also after a refresh that failed to store.
RefreshEnds == syncInProgress ~> ~syncInProgress

\* Overlapping refreshes neither go back nor get stuck, and the script's report of
\* its own refresh is true.
RefreshesOrdered == NeverOlder /\ RefreshEnds /\ []ReportTruthful

=============================================================================
