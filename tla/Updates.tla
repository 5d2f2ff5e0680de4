------------------------------ MODULE Updates ------------------------------
(***************************************************************************)
(* The launcher of a compiled installation (cmd/culpeo-updater, internal/  *)
(* autoupdate): it looks for a release, installs it beside the version     *)
(* that is there, activates it by replacing current.json, starts it, and   *)
(* goes back to the previous version when the new one does not start.      *)
(*                                                                         *)
(* The launcher holds a file lock for as long as it lives, so one launch   *)
(* follows another.  A bundle is the directory of a build under versions/. *)
(* Renaming the staging directory and replacing a JSON file are atomic;    *)
(* what a killed launcher leaves of a staging directory has no effect on   *)
(* later launches and is left out.                                         *)
(***************************************************************************)
EXTENDS Naturals, Sequences

CONSTANTS Releases,    \* the builds a manifest may offer: [version, sha]
          MaxEntries,  \* maxQuarantineEntries
          Faults       \* what may happen to a launch: "interrupt" (a signal
                       \* cancels its context), "kill", "io" (a file cannot be
                       \* read or written, a process not be started in time)

ASSUME UpdatesAssumption ==
  /\ \A b \in Releases : b.version \in Nat
  /\ MaxEntries \in Nat \ {0}
  /\ Faults \subseteq {"interrupt", "kill", "io"}

None == [version |-> 0, sha |-> "none"]

ASSUME NoneAssumption == None \notin Releases

VARIABLES
  works,       \* the builds that start: never changes
  installed,   \* the complete bundles
  broken,      \* the bundles of which a part is gone
  current,     \* the build current.json names
  quarantine,  \* quarantine.json, oldest entry first
  step,        \* where the launcher is; "off" when there is none
  previous,    \* previousBundle
  offer,       \* the build the manifest offers, when it is to be installed
  active,      \* activeBundle
  updated,     \* it was installed by this launch
  faults,      \* what has happened to this launch: of Faults; "unread", it could not
               \* read the quarantine; "ended", it was ended early or by choice
  confirmed,   \* history: the builds that were seen to start
  noted,       \* history: the build whose failure was noted last
  unproven     \* history: a launch that was killed or closed early, or could not
               \* write, has left a build active that was not seen to start; or
               \* one could not read the version that is active

disk == <<installed, broken, current, quarantine>>
launch == <<previous, offer, active, updated>>
history == <<confirmed, noted, unproven>>
vars == <<works, disk, step, launch, faults, history>>

Init ==
  /\ works \in SUBSET Releases
  /\ installed = {} /\ broken = {} /\ current = None /\ quarantine = <<>>
  /\ step = "off"
  /\ previous = None /\ offer = None /\ active = None /\ updated = FALSE
  /\ faults = {} /\ confirmed = {} /\ noted = None /\ unproven = FALSE

\* The builds a list of entries names, and those the list on the disk names.
Listed(list) == {list[i] : i \in DOMAIN list}
Quarantined == Listed(quarantine)
Interrupted == "interrupt" \in faults

\* The launcher's process ends, ...
Off ==
  /\ step' = "off"
  /\ previous' = None /\ offer' = None /\ active' = None /\ updated' = FALSE

End == Off /\ UNCHANGED history

\* ... or it is ended by what happens to it.
EndEarly ==
  /\ Off
  /\ unproven' = (unproven \/ (confirmed # {} /\ current \notin confirmed))
  /\ UNCHANGED <<confirmed, noted>>

Goto(s) == step' = s /\ UNCHANGED history

\* A file cannot be read or written, a process cannot be started in time.
IoFails == "io" \in Faults /\ faults' = faults \cup {"io"}

-----------------------------------------------------------------------------
(* What is installed and what is offered.                                  *)

\* LoadCurrent and ResolveInstalledBundle.
Launch ==
  /\ step = "off"
  /\ \/ /\ previous' = IF current \in installed THEN current ELSE None
        /\ faults' = {}
        /\ UNCHANGED unproven
     \/ /\ "io" \in Faults /\ current \in installed
        /\ previous' = None
        /\ faults' = {"io"} /\ unproven' = TRUE
  /\ step' = "loaded"
  /\ UNCHANGED <<works, disk, offer, active, updated, confirmed, noted>>

\* The launch ends and runs nothing: it was only to check, the manifest's address is
\* invalid, or the versions cannot be compared.
CheckOnly ==
  /\ step = "loaded" /\ End
  /\ faults' = faults \cup {"ended"}
  /\ UNCHANGED <<works, disk>>

\* No update is wanted, the manifest cannot be fetched or has nothing for this
\* platform: what is installed runs.
Offline ==
  /\ step = "loaded"
  /\ IF previous = None THEN End
     ELSE /\ active' = previous /\ Goto("starting")
          /\ UNCHANGED <<previous, offer, updated>>
  /\ UNCHANGED <<works, disk, faults>>

UpdateAvailable(b) ==
  \/ previous = None
  \/ previous.version < b.version
  \/ previous.version = b.version /\ previous.sha # b.sha

\* Mutant of Blocked: the quarantine is not asked.
NeverBlocked(b, list) == FALSE

\* A build that failed before is not tried again over a version that runs.
Blocked(b, list) == UpdateAvailable(b) /\ previous # None /\ b \in Listed(list)

\* What LoadQuarantine returns is asked; a list it cannot read is ignored.
FetchManifest(b) ==
  /\ step = "loaded"
  /\ \E list \in {quarantine, <<>>} :
       /\ \/ list = quarantine /\ UNCHANGED faults
          \/ "io" \in Faults /\ list = <<>> /\ faults' = faults \cup {"io", "unread"}
       /\ IF UpdateAvailable(b) /\ ~Blocked(b, list)
          THEN Goto("installing") /\ offer' = b /\ UNCHANGED active
          ELSE Goto("pruning") /\ active' = previous /\ UNCHANGED offer
  /\ UNCHANGED <<works, disk, previous, updated>>

-----------------------------------------------------------------------------
(* Install.                                                                *)

\* An update that cannot be made leaves the installed version as it is.
KeepPrevious ==
  IF previous = None THEN End
  ELSE /\ active' = previous /\ offer' = None /\ Goto("pruning")
       /\ UNCHANGED <<previous, updated>>

\* bundleAlreadyInstalled finds the bundle, or an invalid one in its place;
\* stageBundle downloads, checks, extracts and validates in a staging directory,
\* which only then gets the bundle's name.  Each of these may fail.
StageBundle ==
  /\ step = "installing"
  /\ \/ /\ offer \notin broken
        /\ installed' = installed \cup {offer} /\ Goto("staged")
        /\ UNCHANGED launch
     \/ KeepPrevious /\ UNCHANGED installed
  /\ UNCHANGED <<works, broken, current, quarantine, faults>>

\* current.json is replaced.
Activate ==
  /\ step = "staged"
  /\ \/ /\ current' = offer /\ Goto("resolving")
        /\ UNCHANGED <<launch, faults>>
     \/ IoFails /\ KeepPrevious /\ UNCHANGED current
  /\ UNCHANGED <<works, installed, broken, quarantine>>

\* The activated bundle is read back.
ResolveUpdate ==
  /\ step = "resolving"
  /\ \/ /\ offer \in installed
        /\ active' = offer /\ updated' = TRUE /\ Goto("pruning")
        /\ UNCHANGED <<previous, offer, faults>>
     \/ /\ IoFails
        /\ IF previous = None THEN EndEarly
           ELSE Goto("rejecting") /\ UNCHANGED launch
  /\ UNCHANGED <<works, disk>>

\* Mutant of Retained: the version to go back to is not kept.
ActiveOnly == {active}

\* Mutant of Retained: only the version to go back to is kept.
PreviousOnly == {previous}

\* PruneVersions keeps the active version and the one to go back to.
Retained == {active, previous}

\* An obsolete bundle is removed file by file; a failure is only reported.
PruneOne(b) ==
  /\ step = "pruning" /\ b \notin Retained
  /\ \/ b \in installed /\ installed' = installed \ {b} /\ broken' = broken \cup {b}
     \/ b \in broken /\ broken' = broken \ {b} /\ UNCHANGED installed
  /\ UNCHANGED <<works, current, quarantine, step, launch, faults, history>>

Pruned ==
  /\ step = "pruning"
  /\ \/ (installed \cup broken) \subseteq Retained /\ UNCHANGED faults
     \/ IoFails
  /\ Goto("starting")
  /\ UNCHANGED <<works, disk, launch>>

-----------------------------------------------------------------------------
(* RunBundle.                                                              *)

\* Mutant of StartFails: a failure of a new version is taken like any other.
StartFailsForGood == End

\* A StartupError of the new version is followed by the rollback.
StartFails ==
  IF updated /\ previous # None THEN Goto("rejecting") /\ UNCHANGED launch ELSE End

\* waitUntilReady: the backend of a build that does not start may still get ready, that
\* of one that does may not be ready in two minutes.  A context that is cancelled here
\* is a StartupError too.
WaitUntilReady ==
  /\ step = "starting"
  /\ \/ Goto("window") /\ UNCHANGED <<launch, faults>>
     \/ (active \notin works \/ Interrupted) /\ StartFails /\ UNCHANGED faults
     \/ IoFails /\ StartFails
  /\ UNCHANGED <<works, disk>>

\* The frontend is started, and the two seconds after it.  Of one that is closed, or a
\* context that is cancelled, nothing is reported.
StartupWindow ==
  /\ step = "window"
  /\ \/ /\ active \in works
        /\ step' = "running"
        /\ confirmed' = confirmed \cup {active} /\ unproven' = FALSE
        /\ UNCHANGED <<launch, faults, noted>>
     \/ active \notin works /\ StartFails /\ UNCHANGED faults
     \/ IoFails /\ StartFails
     \/ EndEarly /\ faults' = faults \cup {"ended"}
  /\ UNCHANGED <<works, disk>>

\* The application is closed or interrupted, or one of its processes ends.
Stop ==
  /\ step = "running" /\ End
  /\ UNCHANGED <<works, disk, faults>>

-----------------------------------------------------------------------------
(* Rollback.                                                               *)

\* Mutant of Noted: the list is not kept to its limit.
NotedForever(b, list) == IF b \in Listed(list) THEN list ELSE Append(list, b)

\* The list QuarantineBundle makes of the one it read: an entry once, the newest
\* MaxEntries of them.
Noted(b, list) ==
  IF b \in Listed(list) THEN list
  ELSE LET q == Append(list, b)
       IN  IF Len(q) > MaxEntries THEN Tail(q) ELSE q

\* QuarantineBundle.  A list that cannot be read is replaced by a new one; that it
\* cannot be written is only reported.
Reject ==
  /\ step = "rejecting"
  /\ step' = "reactivating"
  /\ \/ /\ \/ quarantine' = Noted(offer, quarantine) /\ UNCHANGED faults
           \/ quarantine' = Noted(offer, <<>>) /\ IoFails
        /\ noted' = offer
     \/ IoFails /\ UNCHANGED <<quarantine, noted>>
  /\ UNCHANGED <<works, installed, broken, current, launch, confirmed, unproven>>

\* Mutant of Reactivate: the old version is run, but not activated.
RunPreviousOnly ==
  /\ step = "reactivating"
  /\ active' = previous /\ offer' = None /\ updated' = FALSE
  /\ Goto(IF updated THEN "starting" ELSE "pruning")
  /\ UNCHANGED <<works, disk, previous, faults>>

\* ActivateState: the previous bundle is resolved once more and activated.  After a
\* failed start it runs at once; after a failed resolution the launch goes on.
Reactivate ==
  /\ step = "reactivating"
  /\ \/ /\ previous \in installed
        /\ current' = previous
        /\ active' = previous /\ offer' = None /\ updated' = FALSE
        /\ Goto(IF updated THEN "starting" ELSE "pruning")
        /\ UNCHANGED <<previous, faults>>
     \/ IoFails /\ EndEarly /\ UNCHANGED current
  /\ UNCHANGED <<works, installed, broken, quarantine>>

-----------------------------------------------------------------------------
(* Faults.                                                                 *)

\* SIGINT or SIGTERM cancels the launch's context.
Interrupt ==
  /\ "interrupt" \in Faults /\ step # "off" /\ ~Interrupted
  /\ faults' = faults \cup {"interrupt"}
  /\ UNCHANGED <<works, disk, step, launch, history>>

\* The launcher's process ends; the lock goes with it.  What it wrote stays.
Kill ==
  /\ "kill" \in Faults /\ step # "off"
  /\ faults' = faults \cup {"ended"}
  /\ EndEarly
  /\ UNCHANGED <<works, disk>>

-----------------------------------------------------------------------------
LauncherStep ==
  \/ CheckOnly \/ Offline \/ (\E b \in Releases : FetchManifest(b))
  \/ StageBundle \/ Activate \/ ResolveUpdate
  \/ (\E b \in Releases : PruneOne(b)) \/ Pruned
  \/ WaitUntilReady \/ StartupWindow \/ Reject \/ Reactivate

Next == Launch \/ LauncherStep \/ Stop \/ Interrupt \/ Kill

Spec == Init /\ [][Next]_vars

\* A launcher that runs goes on; nobody has to launch, close or kill it.
FairSpec == Spec /\ WF_vars(LauncherStep)

-----------------------------------------------------------------------------
(* Properties.                                                             *)

Steps == {"off", "loaded", "installing", "staged", "resolving", "pruning", "starting",
          "window", "running", "rejecting", "reactivating"}

\* Every variable has its type, and no launch is under way when the launcher is off.
TypeOK ==
  /\ works \subseteq Releases /\ confirmed \subseteq works
  /\ installed \subseteq Releases /\ broken \subseteq Releases
  /\ {current, previous, offer, active} \subseteq Releases \cup {None}
  /\ quarantine \in Seq(Releases) /\ Len(quarantine) <= MaxEntries
  /\ step \in Steps /\ updated \in BOOLEAN /\ unproven \in BOOLEAN
  /\ faults \subseteq {"interrupt", "io", "unread", "ended"}
  /\ noted \in Releases \cup {None}
  /\ step = "off" => previous = None /\ offer = None /\ active = None /\ ~updated

\* current.json never names a bundle that is not there or not complete, wherever a
\* launcher was killed: activation follows the rename, and pruning never takes the
\* active version (README.md:167: "manages atomic updates").
CurrentIsInstalled == current # None => current \in installed

\* The version a launch could go back to stays on the disk for as long as the launch
\* lasts, its own pruning included.
RollbackTargetKept == previous # None => previous \in installed

\* Once a version was seen to start, there is always such a version on the disk, and
\* when no launcher runs it is the active one; unless a launch has left a build
\* active that was not seen to start (it was killed before the rollback, or its
\* window was closed too early), or could not read the version that was there: then
\* the next launch takes the new build for good and prunes the old one.
GoodVersionKept ==
  confirmed # {} /\ ~unproven =>
    /\ confirmed \cap installed # {}
    /\ step = "off" => current \in confirmed

\* A build whose failed start was noted is not activated again, in any later launch,
\* while there is a version to go back to: neither one the quarantine names nor the
\* one noted last, which no later entry may have pushed out.  A launch that could not
\* read the quarantine is exempt: it ignores it (main.go:191-194).
FailedBuildStaysOut ==
  [][current' # current /\ (current' \in Quarantined \/ current' = noted)
       /\ "unread" \notin faults
     => previous \in {None, current'}]_vars

\* A launch that finds a version that starts runs a version, whatever becomes of the
\* update, unless something happens to the launch itself or it is not to run one.
WorkingVersionRuns ==
  step = "loaded" /\ previous \in works
    ~> step = "running" \/ (step = "off" /\ faults # {})
=============================================================================
