----------------------------- MODULE Installer -----------------------------
(* install_dsh.sh from the staging directory to the promoted files: files are   *)
(* collected in a directory of their own, the required ones are checked, the    *)
(* installation is copied aside, and the staged files are copied over it one by *)
(* one; a failing copy rolls back. Secrets, settings and generated files that   *)
(* the script writes before and after are left out.                             *)
EXTENDS Naturals
CONSTANTS Files, Required,
          Template, Settings,  \* settings.default.yaml, and settings.yaml made of it
          MaxRuns

ASSUME InstallerAssumption ==
  /\ Required \subseteq Files /\ {Template, Settings} \subseteq Files
  /\ Template # Settings /\ MaxRuns \in Nat

\* A stray file is one of the directory from which the script was called.
Contents == {"none", "old", "new", "empty", "part", "stray"}

VARIABLES
  installed, staged, aside,  \* file -> contents, in the three directories
  dir,                       \* STAGE_DIR in the latest run: there, removed before the
                             \* required files were checked, or cut off after that
  force, progress,           \* --force; where the script is
  handled,                   \* files the script has fetched or passed over
  unpromoted,                \* files the promotion has not come to
  outcome, runs,
  before,                    \* what was installed when the run began (history)
  asideWhole                 \* the copy aside is exact, and so was its restoring (history)

installerVars == <<installed, staged, aside, dir, force, progress, handled, unpromoted,
                   outcome, runs, before, asideWhole>>
Empty == [f \in Files |-> "none"]
Provisioned == Files \ {Settings}

InstallerTypeOK ==
  /\ {installed, staged, aside, before} \subseteq [Files -> Contents]
  /\ force \in BOOLEAN /\ asideWhole \in BOOLEAN /\ dir \in {"there", "removed", "cut"}
  /\ progress \in {"idle", "fetch", "checked", "aside", "promote", "restore"}
  /\ handled \subseteq Files /\ unpromoted \subseteq Files
  /\ outcome \in {"none", "done", "rolled back", "aborted"} /\ runs \in 0..MaxRuns

InstallerInit ==
  /\ installed \in {Empty, [f \in Files |-> "old"]}
  /\ before = installed /\ staged = Empty /\ aside = Empty
  /\ force = FALSE /\ progress = "idle" /\ handled = {} /\ unpromoted = {} /\ dir = "removed"
  /\ outcome = "none" /\ runs = 0 /\ asideWhole = TRUE

\* Every way out runs cleanup_staging; a killed script leaves directories that no
\* later run looks at.
Quit(how) ==
  /\ progress' = "idle" /\ outcome' = how
  /\ staged' = Empty /\ aside' = Empty /\ handled' = {} /\ unpromoted' = {} /\ UNCHANGED dir

RunInstaller ==
  /\ progress = "idle" /\ runs < MaxRuns /\ runs' = runs + 1
  /\ force' \in BOOLEAN /\ progress' = "fetch" /\ outcome' = "none"
  /\ before' = installed /\ asideWhole' = TRUE /\ handled' = {} /\ dir' = "there"
  /\ UNCHANGED <<installed, staged, aside, unpromoted>>

Wanted(f) == force \/ installed[f] = "none"

\* fetch_or_copy_file: a file that is there is passed over without --force; otherwise
\* its directory is made, if need be with STAGE_DIR, and the file copied from the local
\* source tree, where it may be empty, or downloaded and verified.
fetch_or_copy_file(f) ==
  /\ progress = "fetch" /\ f \in Provisioned \ handled /\ handled' = handled \cup {f}
  /\ IF ~Wanted(f) THEN UNCHANGED <<staged, dir>>
     ELSE /\ dir' = "there"
          /\ \/ staged' = [staged EXCEPT ![f] = "empty"]
             \/ staged' = IF staged[f] # "none" THEN staged ELSE [staged EXCEPT ![f] = "new"]
  /\ UNCHANGED <<installed, aside, force, progress, unpromoted, outcome, runs, before,
                 asideWhole>>

\* The release archive brings every file, wanted or not.
extract_archive ==
  /\ progress = "fetch" /\ \E f \in Provisioned \ handled : Wanted(f)
  /\ staged' = [f \in Files |-> IF f = Settings THEN staged[f] ELSE "new"] /\ dir' = "there"
  /\ UNCHANGED <<installed, aside, force, progress, handled, unpromoted, outcome, runs,
                 before, asideWhole>>

\* settings.yaml of a clean installation, from the staged template or the installed,
\* which without STAGE_DIR cannot be copied (and ends the script).
stage_settings ==
  /\ progress = "fetch" /\ Template \in handled /\ Settings \notin handled
  /\ handled' = handled \cup {Settings}
  /\ \/ staged' = staged /\ installed[Settings] # "none"
     \/ LET source == IF staged[Template] # "none" THEN staged[Template]
                      ELSE installed[Template]
        IN /\ installed[Settings] = "none" /\ (dir = "there" \/ source = "none")
           /\ staged' = [staged EXCEPT ![Settings] = source]
  /\ UNCHANGED <<installed, aside, dir, force, progress, unpromoted, outcome, runs, before,
                 asideWhole>>

\* A signal: the trap removes the staging directory, and the script goes on. Later, the
\* files are copied by a subshell, in which the trap is not set: see CopyFails.
Interrupted ==
  /\ progress \in {"fetch", "checked", "aside"} /\ dir = "there"
  /\ dir' = (IF progress = "fetch" THEN "removed" ELSE "cut") /\ staged' = Empty
  /\ UNCHANGED <<installed, aside, force, progress, handled, unpromoted, outcome, runs,
                 before, asideWhole>>

\* Mutant: a staged file is there, whatever its size.
CheckedLoose(f) == installed[f] # "none" \/ staged[f] # "none" \/ f \in handled
Checked(f) == installed[f] # "none" \/ staged[f] \notin {"none", "empty"}

\* No download, a wrong checksum, a required file that is neither installed nor
\* staged with contents, no directory to put the installation aside in.
Abort_installation ==
  /\ \/ progress = "fetch" /\ (handled # Files \/ \E f \in Required : ~Checked(f))
     \/ progress = "checked" /\ dir = "there"
  /\ Quit("aborted")
  /\ UNCHANGED <<installed, force, runs, before, asideWhole>>

\* verify_and_promote_staged, first the required files.
verify_staged ==
  /\ progress = "fetch" /\ handled = Files /\ \A f \in Required : Checked(f)
  /\ progress' = "checked"
  /\ UNCHANGED <<installed, staged, aside, dir, force, handled, unpromoted, outcome, runs,
                 before, asideWhole>>

\* Without the directory there is nothing to promote, and the script goes on.
Nothing_staged ==
  /\ progress = "checked" /\ dir # "there" /\ Quit("done")
  /\ UNCHANGED <<installed, force, runs, before, asideWhole>>

\* The copy of the installation, whose errors are not looked at.
Put_aside ==
  /\ progress = "checked" /\ dir = "there" /\ progress' = "aside"
  /\ \E missed \in SUBSET Files, c \in {"none", "part"} :
       aside' = [f \in Files |-> IF f \in missed /\ installed[f] # "none" THEN c
                                 ELSE installed[f]]
  /\ asideWhole' = (aside' = installed)
  /\ UNCHANGED <<installed, staged, dir, force, handled, unpromoted, outcome, runs, before>>

\* The subshell changes into STAGE_DIR. If that fails it goes on, for it is an operand
\* of ||, and takes the files of the directory it is in for the staged ones.
Enter_stage ==
  /\ progress = "aside" /\ progress' = "promote"
  /\ \/ dir = "there" /\ UNCHANGED staged
     \/ dir # "there" /\ \E strays \in SUBSET Files :
          staged' = [f \in Files |-> IF f \in strays THEN "stray" ELSE "none"]
  /\ unpromoted' = {f \in Files : staged'[f] # "none"}
  /\ UNCHANGED <<installed, aside, dir, force, handled, outcome, runs, before, asideWhole>>

Promote_file(f) ==
  /\ progress = "promote" /\ f \in unpromoted /\ unpromoted' = unpromoted \ {f}
  /\ installed' = IF f = Settings /\ ~Wanted(f) THEN installed
                  ELSE [installed EXCEPT ![f] = staged[f]]
  /\ UNCHANGED <<staged, aside, dir, force, progress, handled, outcome, runs, before,
                 asideWhole>>

\* A copy that fails, or is interrupted, has truncated its target or not touched it.
CopyFails(f) ==
  /\ progress = "promote" /\ f \in unpromoted /\ progress' = "restore"
  /\ \E c \in {installed[f], "part"} : installed' = [installed EXCEPT ![f] = c]
  /\ UNCHANGED <<staged, aside, dir, force, handled, unpromoted, outcome, runs, before,
                 asideWhole>>

Promoted ==
  /\ progress = "promote" /\ unpromoted = {} /\ Quit("done")
  /\ UNCHANGED <<installed, force, runs, before, asideWhole>>

\* The rollback copies what was put aside back over the installation, deletes no
\* file, and removes the copy whether or not all of that worked.
Restored == [f \in Files |-> IF aside[f] = "none" THEN installed[f] ELSE aside[f]]

Roll_back ==
  /\ progress = "restore" /\ Quit("rolled back")
  /\ \E missed \in SUBSET {f \in Files : aside[f] # "none"} :
       /\ asideWhole' = (asideWhole /\ missed = {})
       /\ \/ installed' = [f \in Files |-> IF f \in missed THEN installed[f] ELSE Restored[f]]
          \/ installed' = [f \in Files |-> IF f \in missed THEN "part" ELSE Restored[f]]
  /\ UNCHANGED <<force, runs, before>>

KillInstaller ==
  /\ progress # "idle" /\ Quit("none")
  /\ \/ UNCHANGED installed
     \/ \E f \in Files : /\ f \in unpromoted \/ progress = "restore"
                        /\ installed' = [installed EXCEPT ![f] = "part"]
  /\ UNCHANGED <<force, runs, before, asideWhole>>

InstallerNext ==
  \/ RunInstaller \/ extract_archive \/ stage_settings \/ Interrupted
  \/ Abort_installation \/ verify_staged \/ Nothing_staged \/ Put_aside \/ Enter_stage
  \/ Promoted \/ Roll_back \/ KillInstaller
  \/ \E f \in Files : fetch_or_copy_file(f) \/ Promote_file(f) \/ CopyFails(f)

InstallerSpec == InstallerInit /\ [][InstallerNext]_installerVars

(* What a run that reaches its end leaves: every required file is there, cut short   *)
(* only where an earlier run left one cut short, empty only where the check is       *)
(* satisfied by the previous file; but if the staging directory went after the check *)
(* nothing was promoted, and a file is as it was or one of the caller's directory.   *)
(* What a failed promotion leaves: the files there were, as they were, if the copy   *)
(* aside and its restoring were whole. (Both halves speak of                         *)
(* verify_and_promote_staged, whose comment promises rollback protection.)           *)
InstallOrRestore ==
  /\ outcome = "done" /\ dir # "cut" =>
       \A f \in Required :
         /\ installed[f] # "none"
         /\ installed[f] = "part" => \E g \in Files : before[g] = "part"
         /\ installed[f] = "empty" => before[f] # "none"
  /\ outcome = "done" /\ dir = "cut" => \A f \in Files : installed[f] \in {before[f], "stray"}
  /\ outcome = "rolled back" /\ asideWhole =>
       \A f \in Files : before[f] # "none" => installed[f] = before[f]
=============================================================================
