---------------------------- MODULE UpdatesProofs ----------------------------
(***************************************************************************)
(* Proofs about the launcher, for any releases, any length of the          *)
(* quarantine and any faults.  The inductive invariant says at each step   *)
(* which of the three builds (offered, previous, active) current.json      *)
(* names, and where a version that has been seen to start is kept.         *)
(***************************************************************************)
EXTENDS Updates, TLAPS

\* Before the new bundle is activated, what was there is what there is to go back to.
BeforeActivation ==
  step \in {"loaded", "installing", "staged"} =>
    /\ ~updated /\ active = None
    /\ previous # None => previous = current

\* The offered build: not blocked, on the disk once staged, current once activated.
Offered ==
  /\ step \in {"installing", "staged", "resolving"} => offer \in Releases
  /\ step \in {"installing", "staged"} =>
       previous = None \/ offer \notin Quarantined \/ "unread" \in faults
  /\ step \in {"staged", "resolving"} => offer \in installed
  /\ step = "resolving" => current = offer /\ ~updated /\ active = None
  /\ step \in {"rejecting", "reactivating"} => previous # None /\ offer \in Releases

\* The build that runs, or will, is the current one; the previous one unless updated.
Activated ==
  /\ step \in {"pruning", "starting", "window", "running"} =>
       active = current /\ active \in Releases
  /\ step \in {"pruning", "starting", "window"} /\ ~updated /\ previous # None
       => active = previous
  /\ step \in {"pruning", "starting", "window"} /\ updated => active = offer

\* The version that was seen to start: to go back to while a launch is under way,
\* the current one else.
GoodVersion ==
  confirmed # {} /\ ~unproven =>
    IF step \in {"off", "running"} THEN current \in confirmed ELSE previous \in confirmed

\* No later entry pushes out the one that was noted last.
NotedIsListed == noted # None => noted \in Quarantined

IInv ==
  /\ TypeOK /\ CurrentIsInstalled /\ RollbackTargetKept
  /\ BeforeActivation /\ Offered /\ Activated /\ GoodVersion /\ NotedIsListed

\* The quarantine keeps to its limit, and names what was noted last.
LEMMA NotedFits ==
  ASSUME NEW b \in Releases, NEW list \in Seq(Releases), Len(list) <= MaxEntries
  PROVE  /\ Noted(b, list) \in Seq(Releases) /\ Len(Noted(b, list)) <= MaxEntries
         /\ b \in Listed(Noted(b, list))
<1>1. MaxEntries \in Nat \ {0}
  BY UpdatesAssumption
<1>2. CASE b \in Listed(list)
  BY <1>2 DEF Noted
<1>3. CASE b \notin Listed(list)
  <2> DEFINE q == Append(list, b)
  <2>1. q \in Seq(Releases) /\ Len(q) = Len(list) + 1 /\ q # << >> /\ Len(q) \in Nat \ {0}
        /\ q[Len(q)] = b
    OBVIOUS
  <2>2. Noted(b, list) = IF Len(q) > MaxEntries THEN Tail(q) ELSE q
    BY <1>3 DEF Noted
  <2> HIDE DEF q
  <2>3. CASE Len(q) > MaxEntries
    <3>1. Tail(q) \in Seq(Releases) /\ Len(Tail(q)) = Len(q) - 1
      BY <2>1
    <3>2. Len(q) - 1 \in 1..Len(Tail(q)) /\ Tail(q)[Len(q) - 1] = b
      BY <1>1, <2>1, <2>3, <3>1
    <3>3. DOMAIN Tail(q) = 1..Len(Tail(q))
      BY <3>1
    <3> QED BY <1>1, <2>1, <2>2, <2>3, <3>1, <3>2, <3>3 DEF Listed
  <2>4. CASE ~(Len(q) > MaxEntries)
    <3>1. Len(q) \in DOMAIN q
      BY <2>1
    <3> QED BY <1>1, <2>1, <2>2, <2>4, <3>1 DEF Listed
  <2> QED BY <2>3, <2>4
<1> QED BY <1>2, <1>3

\* One lemma for each action: it preserves IInv, conjunct by conjunct.
LEMMA LaunchIInv == ASSUME IInv, Launch PROVE IInv'
<1>1. TypeOK'
  BY UpdatesAssumption, NoneAssumption DEF IInv, TypeOK, Launch, disk, Steps, None
<1>2. CurrentIsInstalled'
  BY UpdatesAssumption, NoneAssumption DEF IInv, CurrentIsInstalled, Launch, disk, None,
     TypeOK
<1>3. RollbackTargetKept'
  BY UpdatesAssumption, NoneAssumption DEF IInv, RollbackTargetKept, Launch, disk, None,
     TypeOK
<1>4. BeforeActivation'
  BY UpdatesAssumption, NoneAssumption DEF IInv, BeforeActivation, Launch, disk, None,
     TypeOK
<1>5. Offered'
  BY UpdatesAssumption, NoneAssumption DEF IInv, Offered, Launch, disk, Quarantined,
     Listed, None
<1>6. Activated'
  BY UpdatesAssumption, NoneAssumption DEF IInv, Activated, Launch, disk, None, TypeOK
<1>7. GoodVersion'
  BY UpdatesAssumption, NoneAssumption DEF IInv, GoodVersion, Launch, disk, None,
     CurrentIsInstalled
<1>8. NotedIsListed'
  BY DEF IInv, NotedIsListed, Quarantined, Listed, Launch, disk
<1> QED BY <1>1, <1>2, <1>3, <1>4, <1>5, <1>6, <1>7, <1>8 DEF IInv

LEMMA CheckOnlyIInv == ASSUME IInv, CheckOnly PROVE IInv'
<1>1. TypeOK'
  BY UpdatesAssumption, NoneAssumption DEF IInv, TypeOK, CheckOnly, disk, Goto, history,
     End, Off, Steps
<1>2. CurrentIsInstalled'
  BY UpdatesAssumption, NoneAssumption DEF IInv, CurrentIsInstalled, CheckOnly, disk,
     Goto, history, End, Off
<1>3. RollbackTargetKept'
  BY UpdatesAssumption, NoneAssumption DEF IInv, RollbackTargetKept, CheckOnly, disk,
     Goto, history, End, Off
<1>4. BeforeActivation'
  BY UpdatesAssumption, NoneAssumption DEF IInv, BeforeActivation, CheckOnly, disk,
     Goto, history, End, Off
<1>5. Offered'
  BY UpdatesAssumption, NoneAssumption DEF IInv, Offered, CheckOnly, disk, Goto,
     history, End, Off, Quarantined, Listed
<1>6. Activated'
  BY UpdatesAssumption, NoneAssumption DEF IInv, Activated, CheckOnly, disk, Goto,
     history, End, Off, TypeOK, BeforeActivation
<1>7. GoodVersion'
  BY UpdatesAssumption, NoneAssumption DEF IInv, GoodVersion, BeforeActivation,
     CheckOnly, disk, Goto, history, End, Off, None, TypeOK
<1>8. NotedIsListed'
  BY DEF IInv, NotedIsListed, Quarantined, Listed, CheckOnly, disk, Goto, history, End,
     Off
<1> QED BY <1>1, <1>2, <1>3, <1>4, <1>5, <1>6, <1>7, <1>8 DEF IInv

LEMMA OfflineIInv == ASSUME IInv, Offline PROVE IInv'
<1>1. TypeOK'
  BY UpdatesAssumption, NoneAssumption DEF IInv, TypeOK, Offline, disk, Goto, history,
     End, Off, Steps
<1>2. CurrentIsInstalled'
  BY UpdatesAssumption, NoneAssumption DEF IInv, CurrentIsInstalled, Offline, disk,
     Goto, history, End, Off
<1>3. RollbackTargetKept'
  BY UpdatesAssumption, NoneAssumption DEF IInv, RollbackTargetKept, Offline, disk,
     Goto, history, End, Off
<1>4. BeforeActivation'
  BY UpdatesAssumption, NoneAssumption DEF IInv, BeforeActivation, Offline, disk, Goto,
     history, End, Off
<1>5. Offered'
  BY UpdatesAssumption, NoneAssumption DEF IInv, Offered, Offline, disk, Goto, history,
     End, Off, Quarantined, Listed
<1>6. Activated'
  BY UpdatesAssumption, NoneAssumption DEF IInv, Activated, Offline, disk, Goto,
     history, End, Off, TypeOK, BeforeActivation
<1>7. GoodVersion'
  BY UpdatesAssumption, NoneAssumption DEF IInv, GoodVersion, Offline, disk, Goto,
     history, End, Off, None, TypeOK
<1>8. NotedIsListed'
  BY DEF IInv, NotedIsListed, Quarantined, Listed, Offline, disk, Goto, history, End,
     Off
<1> QED BY <1>1, <1>2, <1>3, <1>4, <1>5, <1>6, <1>7, <1>8 DEF IInv

LEMMA FetchManifestIInv == ASSUME IInv, NEW b \in Releases, FetchManifest(b) PROVE IInv'
<1>1. TypeOK'
  BY UpdatesAssumption, NoneAssumption DEF IInv, TypeOK, FetchManifest, disk, Goto,
     history, Steps, None, UpdateAvailable, Blocked
<1>2. CurrentIsInstalled'
  BY UpdatesAssumption, NoneAssumption DEF IInv, CurrentIsInstalled, FetchManifest,
     disk, Goto, history, None, UpdateAvailable, Blocked
<1>3. RollbackTargetKept'
  BY UpdatesAssumption, NoneAssumption DEF IInv, RollbackTargetKept, FetchManifest,
     disk, Goto, history, None, UpdateAvailable, Blocked
<1>4. BeforeActivation'
  BY UpdatesAssumption, NoneAssumption DEF IInv, BeforeActivation, FetchManifest, disk,
     Goto, history, None, UpdateAvailable, Blocked
<1>5. Offered'
  BY UpdatesAssumption, NoneAssumption DEF IInv, Offered, FetchManifest, disk, Goto,
     history, Quarantined, Listed, None, UpdateAvailable, Blocked
<1>6. Activated'
  BY UpdatesAssumption, NoneAssumption DEF IInv, Activated, FetchManifest, disk, Goto,
     history, None, UpdateAvailable, Blocked, TypeOK, BeforeActivation
<1>7. GoodVersion'
  BY UpdatesAssumption, NoneAssumption DEF IInv, GoodVersion, FetchManifest, disk, Goto,
     history, UpdateAvailable, None, Blocked, Quarantined, Listed
<1>8. NotedIsListed'
  BY DEF IInv, NotedIsListed, Quarantined, Listed, FetchManifest, disk, Goto,
     history, UpdateAvailable, Blocked
<1> QED BY <1>1, <1>2, <1>3, <1>4, <1>5, <1>6, <1>7, <1>8 DEF IInv

LEMMA StageBundleIInv == ASSUME IInv, StageBundle PROVE IInv'
<1>1. TypeOK'
  BY UpdatesAssumption, NoneAssumption DEF IInv, TypeOK, StageBundle, launch,
     KeepPrevious, Goto, history, End, Off, Steps, Offered
<1>2. CurrentIsInstalled'
  BY UpdatesAssumption, NoneAssumption DEF IInv, CurrentIsInstalled, StageBundle,
     launch, KeepPrevious, Goto, history, End, Off
<1>3. RollbackTargetKept'
  BY UpdatesAssumption, NoneAssumption DEF IInv, RollbackTargetKept, StageBundle,
     launch, KeepPrevious, Goto, history, End, Off
<1>4. BeforeActivation'
  BY UpdatesAssumption, NoneAssumption DEF IInv, BeforeActivation, StageBundle, launch,
     KeepPrevious, Goto, history, End, Off
<1>5. Offered'
  BY UpdatesAssumption, NoneAssumption DEF IInv, Offered, StageBundle, launch,
     KeepPrevious, Goto, history, End, Off, Quarantined, Listed
<1>6. Activated'
  BY UpdatesAssumption, NoneAssumption DEF IInv, Activated, StageBundle, launch,
     KeepPrevious, Goto, history, End, Off, TypeOK, BeforeActivation
<1>7. GoodVersion'
  BY UpdatesAssumption, NoneAssumption DEF IInv, GoodVersion, StageBundle, launch,
     KeepPrevious, Goto, history, End, Off, None, TypeOK
<1>8. NotedIsListed'
  BY DEF IInv, NotedIsListed, Quarantined, Listed, StageBundle, launch, KeepPrevious,
     Goto, history, End, Off
<1> QED BY <1>1, <1>2, <1>3, <1>4, <1>5, <1>6, <1>7, <1>8 DEF IInv

LEMMA ActivateIInv == ASSUME IInv, Activate PROVE IInv'
<1>1. TypeOK'
  BY UpdatesAssumption, NoneAssumption DEF IInv, TypeOK, Activate, launch, KeepPrevious,
     Goto, history, End, Off, IoFails, Steps
<1>2. CurrentIsInstalled'
  BY UpdatesAssumption, NoneAssumption DEF IInv, CurrentIsInstalled, Activate, launch,
     KeepPrevious, Goto, history, End, Off, IoFails, Offered
<1>3. RollbackTargetKept'
  BY UpdatesAssumption, NoneAssumption DEF IInv, RollbackTargetKept, Activate, launch,
     KeepPrevious, Goto, history, End, Off, IoFails
<1>4. BeforeActivation'
  BY UpdatesAssumption, NoneAssumption DEF IInv, BeforeActivation, Activate, launch,
     KeepPrevious, Goto, history, End, Off, IoFails
<1>5. Offered'
  BY UpdatesAssumption, NoneAssumption DEF IInv, Offered, Activate, launch,
     KeepPrevious, Goto, history, End, Off, IoFails, Quarantined, Listed,
     BeforeActivation
<1>6. Activated'
  BY UpdatesAssumption, NoneAssumption DEF IInv, Activated, Activate, launch,
     KeepPrevious, Goto, history, End, Off, IoFails, TypeOK, BeforeActivation
<1>7. GoodVersion'
  BY UpdatesAssumption, NoneAssumption DEF IInv, GoodVersion, Activate, launch,
     KeepPrevious, Goto, history, End, Off, IoFails, None, TypeOK
<1>8. NotedIsListed'
  BY DEF IInv, NotedIsListed, Quarantined, Listed, Activate, launch, KeepPrevious,
     Goto, history, End, Off, IoFails
<1> QED BY <1>1, <1>2, <1>3, <1>4, <1>5, <1>6, <1>7, <1>8 DEF IInv

LEMMA ResolveUpdateIInv == ASSUME IInv, ResolveUpdate PROVE IInv'
<1>1. TypeOK'
  BY UpdatesAssumption, NoneAssumption DEF IInv, TypeOK, ResolveUpdate, launch, disk,
     IoFails, Goto, history, EndEarly, Off, Steps
<1>2. CurrentIsInstalled'
  BY UpdatesAssumption, NoneAssumption DEF IInv, CurrentIsInstalled, ResolveUpdate,
     launch, disk, IoFails, Goto, history, EndEarly, Off
<1>3. RollbackTargetKept'
  BY UpdatesAssumption, NoneAssumption DEF IInv, RollbackTargetKept, ResolveUpdate,
     launch, disk, IoFails, Goto, history, EndEarly, Off
<1>4. BeforeActivation'
  BY UpdatesAssumption, NoneAssumption DEF IInv, BeforeActivation, ResolveUpdate,
     launch, disk, IoFails, Goto, history, EndEarly, Off
<1>5. Offered'
  BY UpdatesAssumption, NoneAssumption DEF IInv, Offered, ResolveUpdate, launch, disk,
     IoFails, Goto, history, EndEarly, Off, Quarantined, Listed
<1>6. Activated'
  BY UpdatesAssumption, NoneAssumption DEF IInv, Activated, ResolveUpdate, launch, disk,
     IoFails, Goto, history, EndEarly, Off, Offered
<1>7. GoodVersion'
  BY UpdatesAssumption, NoneAssumption DEF IInv, GoodVersion, ResolveUpdate, launch,
     disk, IoFails, Goto, history, EndEarly, Off, None
<1>8. NotedIsListed'
  BY DEF IInv, NotedIsListed, Quarantined, Listed, ResolveUpdate, launch, disk,
     IoFails, Goto, history, EndEarly, Off
<1> QED BY <1>1, <1>2, <1>3, <1>4, <1>5, <1>6, <1>7, <1>8 DEF IInv

LEMMA PruneOneIInv == ASSUME IInv, NEW b \in Releases, PruneOne(b) PROVE IInv'
<1>1. GoodVersion'
  BY DEF IInv, GoodVersion, PruneOne, launch, history
<1>2. TypeOK'
  BY UpdatesAssumption, NoneAssumption DEF IInv, TypeOK, PruneOne, launch, history,
     Steps, None
<1>3. CurrentIsInstalled'
  BY UpdatesAssumption, NoneAssumption DEF IInv, CurrentIsInstalled, PruneOne, launch,
     history, None, Retained, Activated
<1>4. RollbackTargetKept'
  BY UpdatesAssumption, NoneAssumption DEF IInv, RollbackTargetKept, PruneOne, launch,
     history, None, Retained
<1>5. BeforeActivation'
  BY UpdatesAssumption, NoneAssumption DEF IInv, BeforeActivation, PruneOne, launch,
     history, None
<1>6. Offered'
  BY UpdatesAssumption, NoneAssumption DEF IInv, Offered, PruneOne, launch, history,
     Quarantined, Listed, None
<1>7. Activated'
  BY UpdatesAssumption, NoneAssumption DEF IInv, Activated, PruneOne, launch, history,
     None
<1>8. NotedIsListed'
  BY DEF IInv, NotedIsListed, Quarantined, Listed, PruneOne, launch, history
<1> QED BY <1>1, <1>2, <1>3, <1>4, <1>5, <1>6, <1>7, <1>8 DEF IInv

LEMMA PrunedIInv == ASSUME IInv, Pruned PROVE IInv'
<1>1. TypeOK'
  BY UpdatesAssumption, NoneAssumption DEF IInv, TypeOK, Pruned, launch, disk, IoFails,
     Goto, history, Steps, None
<1>2. CurrentIsInstalled'
  BY UpdatesAssumption, NoneAssumption DEF IInv, CurrentIsInstalled, Pruned, launch,
     disk, IoFails, Goto, history, None
<1>3. RollbackTargetKept'
  BY UpdatesAssumption, NoneAssumption DEF IInv, RollbackTargetKept, Pruned, launch,
     disk, IoFails, Goto, history, None
<1>4. BeforeActivation'
  BY UpdatesAssumption, NoneAssumption DEF IInv, BeforeActivation, Pruned, launch, disk,
     IoFails, Goto, history, None
<1>5. Offered'
  BY UpdatesAssumption, NoneAssumption DEF IInv, Offered, Pruned, launch, disk, IoFails,
     Goto, history, Quarantined, Listed, None
<1>6. Activated'
  BY UpdatesAssumption, NoneAssumption DEF IInv, Activated, Pruned, launch, disk,
     IoFails, Goto, history, None
<1>7. GoodVersion'
  BY UpdatesAssumption, NoneAssumption DEF IInv, GoodVersion, Pruned, launch, disk,
     IoFails, Goto, history, Retained
<1>8. NotedIsListed'
  BY DEF IInv, NotedIsListed, Quarantined, Listed, Pruned, launch, disk, IoFails,
     Goto, history, Retained
<1> QED BY <1>1, <1>2, <1>3, <1>4, <1>5, <1>6, <1>7, <1>8 DEF IInv

LEMMA WaitUntilReadyIInv == ASSUME IInv, WaitUntilReady PROVE IInv'
<1>1. TypeOK'
  BY UpdatesAssumption, NoneAssumption DEF IInv, TypeOK, WaitUntilReady, launch, disk,
     StartFails, IoFails, Goto, history, End, Off, Steps, None
<1>2. CurrentIsInstalled'
  BY UpdatesAssumption, NoneAssumption DEF IInv, CurrentIsInstalled, WaitUntilReady,
     launch, disk, StartFails, IoFails, Goto, history, End, Off, None
<1>3. RollbackTargetKept'
  BY UpdatesAssumption, NoneAssumption DEF IInv, RollbackTargetKept, WaitUntilReady,
     launch, disk, StartFails, IoFails, Goto, history, End, Off, None
<1>4. BeforeActivation'
  BY UpdatesAssumption, NoneAssumption DEF IInv, BeforeActivation, WaitUntilReady,
     launch, disk, StartFails, IoFails, Goto, history, End, Off, None
<1>5. Offered'
  BY UpdatesAssumption, NoneAssumption DEF IInv, Offered, WaitUntilReady, launch, disk,
     StartFails, IoFails, Goto, history, End, Off, Quarantined, Listed, None, Activated
<1>6. Activated'
  BY UpdatesAssumption, NoneAssumption DEF IInv, Activated, WaitUntilReady, launch,
     disk, StartFails, IoFails, Goto, history, End, Off, None
<1>7. GoodVersion'
  BY UpdatesAssumption, NoneAssumption DEF IInv, GoodVersion, WaitUntilReady, launch,
     disk, StartFails, IoFails, Goto, history, End, Off, None, Interrupted, TypeOK,
     Activated
<1>8. NotedIsListed'
  BY DEF IInv, NotedIsListed, Quarantined, Listed, WaitUntilReady, launch, disk,
     StartFails, IoFails, Goto, history, End, Off
<1> QED BY <1>1, <1>2, <1>3, <1>4, <1>5, <1>6, <1>7, <1>8 DEF IInv

LEMMA StartupWindowIInv == ASSUME IInv, StartupWindow PROVE IInv'
<1>1. TypeOK'
  BY UpdatesAssumption, NoneAssumption DEF IInv, TypeOK, StartupWindow, launch, disk,
     StartFails, IoFails, Goto, history, End, Off, EndEarly, Steps
<1>2. CurrentIsInstalled'
  BY UpdatesAssumption, NoneAssumption DEF IInv, CurrentIsInstalled, StartupWindow,
     launch, disk, StartFails, IoFails, Goto, history, End, Off, EndEarly
<1>3. RollbackTargetKept'
  BY UpdatesAssumption, NoneAssumption DEF IInv, RollbackTargetKept, StartupWindow,
     launch, disk, StartFails, IoFails, Goto, history, End, Off, EndEarly
<1>4. BeforeActivation'
  BY UpdatesAssumption, NoneAssumption DEF IInv, BeforeActivation, StartupWindow,
     launch, disk, StartFails, IoFails, Goto, history, End, Off, EndEarly
<1>5. Offered'
  BY UpdatesAssumption, NoneAssumption DEF IInv, Offered, StartupWindow, launch, disk,
     StartFails, IoFails, Goto, history, End, Off, EndEarly, Quarantined, Listed,
     Activated
<1>6. Activated'
  BY UpdatesAssumption, NoneAssumption DEF IInv, Activated, StartupWindow, launch, disk,
     StartFails, IoFails, Goto, history, End, Off, EndEarly
<1>7. GoodVersion'
  BY UpdatesAssumption, NoneAssumption DEF IInv, GoodVersion, StartupWindow, launch,
     disk, StartFails, IoFails, Goto, history, End, Off, EndEarly, None, TypeOK,
     Activated
<1>8. NotedIsListed'
  BY DEF IInv, NotedIsListed, Quarantined, Listed, StartupWindow, launch, disk,
     StartFails, IoFails, Goto, history, End, Off, EndEarly
<1> QED BY <1>1, <1>2, <1>3, <1>4, <1>5, <1>6, <1>7, <1>8 DEF IInv

LEMMA StopIInv == ASSUME IInv, Stop PROVE IInv'
<1>1. TypeOK'
  BY UpdatesAssumption, NoneAssumption DEF IInv, TypeOK, Stop, disk, End, history, Off,
     Steps
<1>2. CurrentIsInstalled'
  BY UpdatesAssumption, NoneAssumption DEF IInv, CurrentIsInstalled, Stop, disk, End,
     history, Off
<1>3. RollbackTargetKept'
  BY UpdatesAssumption, NoneAssumption DEF IInv, RollbackTargetKept, Stop, disk, End,
     history, Off
<1>4. BeforeActivation'
  BY UpdatesAssumption, NoneAssumption DEF IInv, BeforeActivation, Stop, disk, End,
     history, Off
<1>5. Offered'
  BY UpdatesAssumption, NoneAssumption DEF IInv, Offered, Stop, disk, End, history, Off,
     Quarantined, Listed
<1>6. Activated'
  BY UpdatesAssumption, NoneAssumption DEF IInv, Activated, Stop, disk, End, history,
     Off
<1>7. GoodVersion'
  BY UpdatesAssumption, NoneAssumption DEF IInv, GoodVersion, Stop, disk, End, history,
     Off, None
<1>8. NotedIsListed'
  BY DEF IInv, NotedIsListed, Quarantined, Listed, Stop, disk, End, history, Off
<1> QED BY <1>1, <1>2, <1>3, <1>4, <1>5, <1>6, <1>7, <1>8 DEF IInv

LEMMA RejectIInv == ASSUME IInv, Reject PROVE IInv'
<1>1. TypeOK'
  <2>1. quarantine' \in Seq(Releases) /\ Len(quarantine') <= MaxEntries
    <3>1. <<>> \in Seq(Releases) /\ Len(<<>>) <= MaxEntries
      BY UpdatesAssumption
    <3> QED BY <3>1, NotedFits DEF IInv, TypeOK, Offered, Reject, IoFails
  <2> QED BY <2>1 DEF IInv, TypeOK, Reject, IoFails, Offered, launch, Steps
<1>2. CurrentIsInstalled'
  BY UpdatesAssumption, NoneAssumption DEF IInv, CurrentIsInstalled, Reject, launch,
     IoFails, Goto, history, None, Noted
<1>3. RollbackTargetKept'
  BY UpdatesAssumption, NoneAssumption DEF IInv, RollbackTargetKept, Reject, launch,
     IoFails, Goto, history, None, Noted
<1>4. BeforeActivation'
  BY UpdatesAssumption, NoneAssumption DEF IInv, BeforeActivation, Reject, launch,
     IoFails, Goto, history, None, Noted
<1>5. Offered'
  BY UpdatesAssumption, NoneAssumption DEF IInv, Offered, Reject, launch, IoFails, Goto,
     history, Quarantined, Listed, None
<1>6. Activated'
  BY UpdatesAssumption, NoneAssumption DEF IInv, Activated, Reject, launch, IoFails,
     Goto, history, None, Noted
<1>7. GoodVersion'
  BY UpdatesAssumption, NoneAssumption DEF IInv, GoodVersion, Reject, launch, IoFails,
     Goto, history, Noted, Quarantined, Listed
<1>8. NotedIsListed'
  <2>1. <<>> \in Seq(Releases) /\ Len(<<>>) <= MaxEntries
    BY UpdatesAssumption
  <2> QED BY <2>1, NotedFits DEF IInv, NotedIsListed, Quarantined, TypeOK, Offered,
     Reject, IoFails
<1> QED BY <1>1, <1>2, <1>3, <1>4, <1>5, <1>6, <1>7, <1>8 DEF IInv

LEMMA ReactivateIInv == ASSUME IInv, Reactivate PROVE IInv'
<1>1. TypeOK'
  BY UpdatesAssumption, NoneAssumption DEF IInv, TypeOK, Reactivate, IoFails, Goto,
     history, EndEarly, Off, Steps
<1>2. CurrentIsInstalled'
  BY UpdatesAssumption, NoneAssumption DEF IInv, CurrentIsInstalled, Reactivate,
     IoFails, Goto, history, EndEarly, Off
<1>3. RollbackTargetKept'
  BY UpdatesAssumption, NoneAssumption DEF IInv, RollbackTargetKept, Reactivate,
     IoFails, Goto, history, EndEarly, Off
<1>4. BeforeActivation'
  BY UpdatesAssumption, NoneAssumption DEF IInv, BeforeActivation, Reactivate, IoFails,
     Goto, history, EndEarly, Off
<1>5. Offered'
  BY UpdatesAssumption, NoneAssumption DEF IInv, Offered, Reactivate, IoFails, Goto,
     history, EndEarly, Off, Quarantined, Listed
<1>6. Activated'
  BY UpdatesAssumption, NoneAssumption DEF IInv, Activated, Reactivate, IoFails, Goto,
     history, EndEarly, Off, TypeOK
<1>7. GoodVersion'
  BY UpdatesAssumption, NoneAssumption DEF IInv, GoodVersion, Reactivate, IoFails, Goto,
     history, EndEarly, Off, None
<1>8. NotedIsListed'
  BY DEF IInv, NotedIsListed, Quarantined, Listed, Reactivate, IoFails, Goto,
     history, EndEarly, Off
<1> QED BY <1>1, <1>2, <1>3, <1>4, <1>5, <1>6, <1>7, <1>8 DEF IInv

LEMMA InterruptIInv == ASSUME IInv, Interrupt PROVE IInv'
<1>1. GoodVersion'
  BY DEF IInv, GoodVersion, Interrupt, launch, history, disk
<1>2. TypeOK'
  BY UpdatesAssumption, NoneAssumption DEF IInv, TypeOK, Interrupt, launch, history,
     disk, Steps, None
<1>3. CurrentIsInstalled'
  BY UpdatesAssumption, NoneAssumption DEF IInv, CurrentIsInstalled, Interrupt, launch,
     history, disk, None
<1>4. RollbackTargetKept'
  BY UpdatesAssumption, NoneAssumption DEF IInv, RollbackTargetKept, Interrupt, launch,
     history, disk, None
<1>5. BeforeActivation'
  BY UpdatesAssumption, NoneAssumption DEF IInv, BeforeActivation, Interrupt, launch,
     history, disk, None
<1>6. Offered'
  BY UpdatesAssumption, NoneAssumption DEF IInv, Offered, Interrupt, launch, history,
     disk, Quarantined, Listed, None
<1>7. Activated'
  BY UpdatesAssumption, NoneAssumption DEF IInv, Activated, Interrupt, launch, history,
     disk, None
<1>8. NotedIsListed'
  BY DEF IInv, NotedIsListed, Quarantined, Listed, Interrupt, launch, history, disk
<1> QED BY <1>1, <1>2, <1>3, <1>4, <1>5, <1>6, <1>7, <1>8 DEF IInv

LEMMA KillIInv == ASSUME IInv, Kill PROVE IInv'
<1>1. TypeOK'
  BY UpdatesAssumption, NoneAssumption DEF IInv, TypeOK, Kill, disk, EndEarly, Off,
     Steps
<1>2. CurrentIsInstalled'
  BY UpdatesAssumption, NoneAssumption DEF IInv, CurrentIsInstalled, Kill, disk,
     EndEarly, Off
<1>3. RollbackTargetKept'
  BY UpdatesAssumption, NoneAssumption DEF IInv, RollbackTargetKept, Kill, disk,
     EndEarly, Off
<1>4. BeforeActivation'
  BY UpdatesAssumption, NoneAssumption DEF IInv, BeforeActivation, Kill, disk, EndEarly,
     Off
<1>5. Offered'
  BY UpdatesAssumption, NoneAssumption DEF IInv, Offered, Kill, disk, EndEarly, Off,
     Quarantined, Listed
<1>6. Activated'
  BY UpdatesAssumption, NoneAssumption DEF IInv, Activated, Kill, disk, EndEarly, Off
<1>7. GoodVersion'
  BY UpdatesAssumption, NoneAssumption DEF IInv, GoodVersion, Kill, disk, EndEarly, Off,
     None
<1>8. NotedIsListed'
  BY DEF IInv, NotedIsListed, Quarantined, Listed, Kill, disk, EndEarly, Off
<1> QED BY <1>1, <1>2, <1>3, <1>4, <1>5, <1>6, <1>7, <1>8 DEF IInv

\* IInv holds initially, and no step of the system and no stuttering disturbs it.
LEMMA InitIInv == Init => IInv
<1> SUFFICES ASSUME Init PROVE IInv
  OBVIOUS
<1>1. TypeOK
  <2>1. quarantine \in Seq(Releases) /\ Len(quarantine) <= MaxEntries
    BY UpdatesAssumption DEF Init
  <2> QED BY <2>1 DEF Init, TypeOK, Steps
<1>2. BeforeActivation /\ Offered /\ Activated /\ GoodVersion /\ NotedIsListed
  BY DEF Init, BeforeActivation, Offered, Activated, GoodVersion, NotedIsListed
<1> QED BY <1>1, <1>2 DEF Init, IInv, CurrentIsInstalled, RollbackTargetKept

LEMMA StutterIInv == ASSUME IInv, UNCHANGED vars PROVE IInv'
<1>1. TypeOK' /\ CurrentIsInstalled' /\ RollbackTargetKept'
  BY DEF IInv, TypeOK, CurrentIsInstalled, RollbackTargetKept, vars, disk, launch,
     history
<1>2. BeforeActivation' /\ Offered' /\ Activated' /\ GoodVersion' /\ NotedIsListed'
  BY DEF IInv, BeforeActivation, Offered, NotedIsListed, Quarantined, Listed,
     Activated, GoodVersion, vars, disk, launch, history
<1> QED BY <1>1, <1>2 DEF IInv

LEMMA NextIInv == IInv /\ [Next]_vars => IInv'
<1> SUFFICES ASSUME IInv, [Next]_vars PROVE IInv'
  OBVIOUS
<1>1. CASE LauncherStep
  BY <1>1, CheckOnlyIInv, OfflineIInv, FetchManifestIInv, StageBundleIInv, ActivateIInv,
     ResolveUpdateIInv, PruneOneIInv, PrunedIInv, WaitUntilReadyIInv, StartupWindowIInv,
     RejectIInv, ReactivateIInv DEF LauncherStep
<1>2. CASE Launch \/ Stop \/ Interrupt \/ Kill
  BY <1>2, LaunchIInv, StopIInv, InterruptIInv, KillIInv
<1>3. CASE UNCHANGED vars
  BY <1>3, StutterIInv
<1> QED BY <1>1, <1>2, <1>3 DEF Next

\* IInv holds in every reachable state of every instance.
THEOREM Invariance == Spec => []IInv
BY InitIInv, NextIInv, PTL DEF Spec

\* The types, and the quarantine's limit (quarantine.go, QuarantineBundle).
THEOREM TypeCorrect == Spec => []TypeOK
<1>1. IInv => TypeOK
  BY DEF IInv
<1> QED BY <1>1, Invariance, PTL

\* Wherever a launcher is killed, current.json names a complete bundle (install.go).
THEOREM CurrentStaysInstalled == Spec => []CurrentIsInstalled
<1>1. IInv => CurrentIsInstalled
  BY DEF IInv
<1> QED BY <1>1, Invariance, PTL

\* The version to go back to survives the launch's own pruning (prune.go).
THEOREM RollbackStaysPossible == Spec => []RollbackTargetKept
<1>1. IInv => RollbackTargetKept
  BY DEF IInv
<1> QED BY <1>1, Invariance, PTL

\* A version that was seen to start is there, and is active between two launches.
THEOREM GoodVersionStays == Spec => []GoodVersionKept
<1>1. ASSUME IInv, confirmed # {}, ~unproven
      PROVE  confirmed \cap installed # {} /\ (step = "off" => current \in confirmed)
  <2>1. None \notin confirmed
    BY <1>1, NoneAssumption DEF IInv, TypeOK
  <2>2. CASE step \in {"off", "running"}
    BY <1>1, <2>1, <2>2 DEF IInv, GoodVersion, CurrentIsInstalled
  <2>3. CASE step \notin {"off", "running"}
    BY <1>1, <2>1, <2>3 DEF IInv, GoodVersion, RollbackTargetKept
  <2> QED BY <2>2, <2>3
<1>2. IInv => GoodVersionKept
  BY <1>1 DEF GoodVersionKept
<1> QED BY <1>2, Invariance, PTL

\* A build whose failure was noted is activated only where there is nothing to go back
\* to, or by a launch that could not read the quarantine (main.go, runCompiled).
THEOREM FailedBuildIsNotActivated == Spec => FailedBuildStaysOut
<1>1. ASSUME IInv, [Next]_vars, current' # current, "unread" \notin faults,
             current' \in Quarantined \/ current' = noted
      PROVE  previous \in {None, current'}
  <2>1. Activate \/ Reactivate
    BY <1>1 DEF Next, LauncherStep, Launch, CheckOnly, Offline, FetchManifest,
       StageBundle, ResolveUpdate, PruneOne, Pruned, WaitUntilReady, StartupWindow,
       Stop, Reject, Interrupt, Kill, vars, disk
  <2>2. CASE Activate
    <3>1. offer \in Releases /\ current' = offer
      BY <1>1, <2>2 DEF Activate, IInv, Offered
    <3>2. offer \in Quarantined
      BY <1>1, <3>1, NoneAssumption DEF IInv, NotedIsListed
    <3> QED BY <1>1, <2>2, <3>1, <3>2 DEF Activate, IInv, Offered
  <2>3. CASE Reactivate
    BY <1>1, <2>3 DEF Reactivate
  <2> QED BY <2>1, <2>2, <2>3
<1>2. IInv /\ [Next]_vars =>
        [current' # current /\ (current' \in Quarantined \/ current' = noted)
           /\ "unread" \notin faults
         => previous \in {None, current'}]_vars
  BY <1>1
<1> QED BY <1>2, Invariance, PTL DEF Spec, FailedBuildStaysOut
=============================================================================
