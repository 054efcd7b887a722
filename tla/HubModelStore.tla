--------------------------- MODULE HubModelStore ---------------------------
(***************************************************************************)
(* The Hub's model store, services/modelcommons/modelStore.ts: start-up    *)
(* and its repair, download() with resumed transfers, delete() and         *)
(* verifyReadyModel(), beside the inference of other applications that the *)
(* Android Hub serves under the gate of InferenceCoordinator. The process  *)
(* may die at every step.                                                  *)
(*                                                                         *)
(* Granularity: one step per native operation that changes the disk, the   *)
(* gate or the record, and one per verification. A registry or ledger file *)
(* is written as HubMetadata shows it is: a rejected write may have        *)
(* happened, and the first write of a ledger, cut short, leaves one that   *)
(* does not parse.                                                         *)
(*                                                                         *)
(* External: Expo's resumable download. It appends to the .part file from  *)
(* the byte its resume data name, and truncates the file without them.     *)
(***************************************************************************)
EXTENDS AsyncMutex, Naturals, FiniteSets

CONSTANTS Model, File, Call,
          Platform,     \* "android", "ios", or both
          None,         \* no model
          MaxFaults,    \* bound: rejected native operations
          MaxCrashes,   \* bound: deaths of the process
          MaxDamages    \* bound: artifacts damaged from outside

ASSUME HubStoreAssumption ==
    /\ Platform \subseteq {"android", "ios"}
    /\ None \notin Model
    /\ {MaxFaults, MaxCrashes, MaxDamages} \subseteq Nat

VARIABLES
    \* on disk
    stored,     \* registry.json: the state of each model's record, or "none"
    file,       \* each artifact: "absent", "good", "bad", or "short" (wrong size)
    part,       \* its .part: how much of it is there (0, 1, Full), or Spoiled
    ledger,     \* download-manifest.json: "absent", "torn" or "ok"
    offset,     \* the resume data in it, as the length they continue from
    \* in the process
    registry,   \* this.#registry
    opening,    \* #initialize: "closed", "reading", "repairing" or "open"
    verified,   \* this.#verifiedRevisions
    queue,      \* this.#mutation: the calls in order
    at,         \* what the running call does next, or "enter"
    todo,       \* its artifacts not dealt with yet
    current,    \* the artifact in transfer, as a set of at most one
    op, subject, aborted,   \* each caller's call, its model and its signal
    platform,   \* Platform.OS
    gate,       \* InferenceCoordinator's owner: "free", "store" or "inference"
    used,       \* the model inference has open
    \* history and bounds
    halfDeleted,    \* models whose files this process began to delete
    damaged,        \* "no", "now", or "past": before this process began
    faults, crashes

disk == <<stored, file, part, ledger, offset>>
memory == <<registry, opening, verified>>
calls == <<queue, at, todo, current, op, subject, aborted>>
hub == <<platform, gate, used>>
history == <<halfDeleted, damaged, faults, crashes>>
vars == <<disk, memory, calls, hub, history>>

Full == 2
Spoiled == 3

States == {"none", "DOWNLOADING", "VERIFYING", "READY", "FAILED"}
Transfer == {"announce", "ledger", "fillLedger", "files", "transfer", "check",
             "place", "record", "verify", "publish", "fail"}
Removal == {"erase", "forget"}
Steps == {"enter", "leave", "demote"} \cup Transfer \cup Removal

TypeOK ==
    /\ stored \in [Model -> States] /\ registry \in [Model -> States]
    /\ file \in [Model -> [File -> {"absent", "good", "bad", "short"}]]
    /\ part \in [Model -> [File -> 0 .. Spoiled]]
    /\ offset \in [Model -> [File -> 0 .. Spoiled]]
    /\ ledger \in [Model -> {"absent", "torn", "ok"}]
    /\ opening \in {"closed", "reading", "repairing", "open"}
    /\ verified \subseteq Model /\ halfDeleted \subseteq Model
    /\ queue \in Seq(Call)
    /\ at \in Steps /\ todo \subseteq File /\ current \subseteq todo
    /\ op \in [Call -> {"none", "download", "delete", "verify"}]
    /\ subject \in [Call -> Model] /\ aborted \in [Call -> BOOLEAN]
    /\ platform \in Platform /\ gate \in {"free", "store", "inference"}
    /\ used \in Model \cup {None}
    /\ damaged \in [Model -> {"no", "now", "past"}]
    /\ faults \in 0 .. MaxFaults /\ crashes \in 0 .. MaxCrashes

Each(value) == [m \in Model |-> [f \in File |-> value]]

Init ==
    /\ stored = [m \in Model |-> "none"] /\ registry = stored
    /\ file = Each("absent") /\ part = Each(0) /\ offset = Each(0)
    /\ ledger = [m \in Model |-> "absent"]
    /\ opening = "closed" /\ verified = {}
    /\ queue = << >> /\ at = "enter" /\ todo = {} /\ current = {}
    /\ op = [c \in Call |-> "none"] /\ subject \in [Call -> Model]
    /\ aborted = [c \in Call |-> FALSE]
    /\ platform \in Platform /\ gate = "free" /\ used = None
    /\ halfDeleted = {} /\ damaged = [m \in Model |-> "no"]
    /\ faults = 0 /\ crashes = 0

----------------------------------------------------------------------------
(* Helpers.                                                                *)

Runs(c, step) == Holds(queue, c) /\ at = step

\* The running call starts: it holds the queue and the store is initialized.
Turn(c, what) == Runs(c, "enter") /\ op[c] = what /\ opening = "open"

Goto(step, files) ==
    /\ at' = step /\ todo' = files /\ current' = {}
    /\ UNCHANGED <<queue, op, subject, aborted>>

Answer(c) ==
    /\ queue' = Leave(queue)
    /\ at' = "enter" /\ todo' = {} /\ current' = {}
    /\ op' = [op EXCEPT ![c] = "none"]
    /\ aborted' = [aborted EXCEPT ![c] = FALSE]
    /\ UNCHANGED subject

Fault ==
    /\ faults < MaxFaults /\ faults' = faults + 1
    /\ UNCHANGED <<halfDeleted, damaged, crashes>>

With(m, state) == [registry EXCEPT ![m] = state]

\* #publishRegistry(): disk, then memory.
Publish(m, state) == registry' = With(m, state) /\ stored' = With(m, state)

\* It rejects; memory stays, and the disk may have changed all the same.
PublishFails(m, state) ==
    /\ Fault
    /\ stored' \in {stored, With(m, state)}
    /\ UNCHANGED registry

Sized(m) == \A f \in File : file[m][f] \in {"good", "bad"}
Intact(m) == \A f \in File : file[m][f] = "good"

----------------------------------------------------------------------------
(* initialize(): one run at a time, shared by all who wait for it.         *)

OpenStore ==
    /\ opening = "closed"
    /\ opening' = "reading"
    /\ UNCHANGED <<disk, registry, verified, calls, hub, history>>

ReadRegistry ==
    /\ opening = "reading"
    /\ registry' = stored /\ opening' = "repairing"
    /\ UNCHANGED <<disk, verified, calls, hub, history>>

\* Mutant of NeedsRepair: start-up only looks whether the files are there.
NeedsRepairIfAbsent(m) == registry[m] = "READY" /\ \E f \in File : file[m][f] = "absent"

NeedsRepair(m) == registry[m] = "READY" /\ ~Sized(m)

\* #repairReadyStates(): existence and size only. A look that is rejected is a failure too.
Repair(m) ==
    /\ opening = "repairing" /\ registry[m] = "READY"
    /\ IF NeedsRepair(m) THEN UNCHANGED history ELSE Fault
    /\ Publish(m, "FAILED")
    /\ UNCHANGED <<file, part, ledger, offset, opening, verified, calls, hub>>

StoreIsOpen ==
    /\ opening = "repairing" /\ \A m \in Model : ~NeedsRepair(m)
    /\ opening' = "open"
    /\ UNCHANGED <<disk, registry, verified, calls, hub, history>>

\* It rejects, and with it the call that waits for it; the next one tries again.
OpenFails ==
    /\ \/ opening = "reading" /\ Fault /\ UNCHANGED <<registry, stored>>
       \/ opening = "repairing" /\ \E m \in Model : NeedsRepair(m) /\ PublishFails(m, "FAILED")
    /\ opening' = "closed"
    /\ IF queue # << >> THEN Answer(Head(queue)) ELSE UNCHANGED calls
    /\ UNCHANGED <<file, part, ledger, offset, verified, hub>>

CallStore(c, what, m) ==
    /\ op[c] = "none"
    /\ op' = [op EXCEPT ![c] = what] /\ subject' = [subject EXCEPT ![c] = m]
    /\ queue' = Enter(queue, c)
    /\ UNCHANGED <<at, todo, current, aborted, disk, memory, hub, history>>

Abort(c) ==
    /\ op[c] = "download" /\ ~aborted[c]
    /\ aborted' = [aborted EXCEPT ![c] = TRUE]
    /\ UNCHANGED <<queue, at, todo, current, op, subject, disk, memory, hub, history>>

----------------------------------------------------------------------------
(* beginAndroidHubMutation() and endAndroidHubMutation().                  *)

GateOpens == platform = "android" => gate = "free"
CloseGate == gate' = IF platform = "android" THEN "store" ELSE gate

\* finally: the gate opens and the call settles.
Leaves(c) ==
    /\ Runs(c, "leave")
    /\ gate' = IF platform = "android" THEN "free" ELSE gate
    /\ Answer(c)
    /\ UNCHANGED <<platform, used, disk, memory, history>>

----------------------------------------------------------------------------
(* download()                                                              *)

\* Already READY, aborted before it began, or (Android) inference has the gate.
DownloadRefused(c) ==
    /\ Turn(c, "download")
    /\ registry[subject[c]] = "READY" \/ aborted[c] \/ ~GateOpens
    /\ Answer(c)
    /\ UNCHANGED <<disk, memory, hub, history>>

StartDownload(c) ==
    /\ Turn(c, "download")
    /\ registry[subject[c]] # "READY" /\ ~aborted[c] /\ GateOpens
    /\ CloseGate
    /\ Goto("announce", {})
    /\ UNCHANGED <<platform, used, disk, memory, history>>

\* A rejected native operation or, where the code looks, an abort: the catch block.
Interrupted(c) ==
    /\ Holds(queue, c)
    /\ \/ at \in Transfer \ {"fail", "publish"} /\ Fault
       \/ at \in {"verify", "publish"} /\ aborted[c] /\ UNCHANGED history
       \/ /\ at = "files" /\ aborted[c]
          /\ \E f \in todo : file[subject[c]][f] = "absent"
          /\ UNCHANGED history
    /\ Goto("fail", {})
    /\ UNCHANGED <<disk, memory, hub>>

\* The record of the model is moved on, or the call fails with the record as it was.
MovesOn(c, state, then, files) ==
    /\ \/ Publish(subject[c], state) /\ Goto(then, files) /\ UNCHANGED history
       \/ PublishFails(subject[c], state) /\ Goto("fail", {})
    /\ UNCHANGED <<file, part, ledger, offset, opening, hub>>

Announce(c) ==
    /\ Runs(c, "announce")
    /\ MovesOn(c, "DOWNLOADING", "ledger", {})
    /\ UNCHANGED verified

\* parseDownloadState(readJson()): one that does not parse fails the call.
ReadLedger(c) ==
    /\ Runs(c, "ledger")
    /\ CASE ledger[subject[c]] = "ok"     -> Goto("files", File)
         [] ledger[subject[c]] = "absent" -> Goto("fillLedger", {})
         [] OTHER                         -> Goto("fail", {})
    /\ ledger' = [ledger EXCEPT ![subject[c]] = IF @ = "absent" THEN "torn" ELSE @]
    /\ UNCHANGED <<stored, file, part, offset, memory, hub, history>>

FillLedger(c) ==
    /\ Runs(c, "fillLedger")
    /\ ledger' = [ledger EXCEPT ![subject[c]] = "ok"]
    /\ Goto("files", File)
    /\ UNCHANGED <<stored, file, part, offset, memory, hub, history>>

\* #downloadArtifact(), destination exists: verified and entered as completed.
Reuse(c, f) ==
    LET m == subject[c] IN
    /\ Runs(c, "files") /\ f \in todo /\ file[m][f] # "absent"
    /\ IF file[m][f] = "good"
       THEN offset' = [offset EXCEPT ![m][f] = 0] /\ Goto("files", todo \ {f})
       ELSE UNCHANGED offset /\ Goto("fail", {})
    /\ UNCHANGED <<stored, file, part, ledger, memory, hub, history>>

\* createDownloadResumable(.., resumeData), downloadAsync().
StartTransfer(c, f) ==
    LET m == subject[c] IN
    /\ Runs(c, "files") /\ f \in todo /\ file[m][f] = "absent" /\ ~aborted[c]
    /\ part' = [part EXCEPT ![m][f] =
                    IF offset[m][f] = 0 THEN 0 ELSE IF offset[m][f] = @ THEN @ ELSE Spoiled]
    /\ at' = "transfer" /\ current' = {f}
    /\ UNCHANGED <<queue, todo, op, subject, aborted>>
    /\ UNCHANGED <<stored, file, ledger, offset, memory, hub, history>>

\* Some bytes arrive, not necessarily the right ones.
Receive(c, f) ==
    LET m == subject[c] IN
    /\ Runs(c, "transfer") /\ f \in current /\ part[m][f] \in {0, 1}
    /\ \/ part' = [part EXCEPT ![m][f] = @ + 1] /\ UNCHANGED history
       \/ part' = [part EXCEPT ![m][f] = Spoiled] /\ Fault
    /\ UNCHANGED <<stored, file, ledger, offset, calls, memory, hub>>

\* onAbort: the transfer is paused and its resume data go to the ledger; if
\* they cannot be written (pausePromise swallows it) the ledger stays.
Pause(c, f) ==
    LET m == subject[c] IN
    /\ Runs(c, "transfer") /\ f \in current /\ aborted[c]
    /\ \/ offset' = [offset EXCEPT ![m][f] = part[m][f]] /\ UNCHANGED history
       \/ Fault /\ UNCHANGED offset
    /\ Goto("fail", {})
    /\ UNCHANGED <<stored, file, part, ledger, memory, hub>>

\* downloadAsync() resolves; an abort whose pause failed is seen now.
TransferEnds(c, f) ==
    /\ Runs(c, "transfer") /\ f \in current /\ part[subject[c]][f] >= Full
    /\ at' = IF aborted[c] THEN "fail" ELSE "check"
    /\ UNCHANGED <<queue, todo, current, op, subject, aborted>>
    /\ UNCHANGED <<disk, memory, hub, history>>

\* verifyArtifact(partial)
CheckPart(c, f) ==
    /\ Runs(c, "check") /\ f \in current
    /\ at' = IF part[subject[c]][f] = Full THEN "place" ELSE "fail"
    /\ UNCHANGED <<queue, todo, current, op, subject, aborted>>
    /\ UNCHANGED <<disk, memory, hub, history>>

\* The .part is moved to its immutable destination ...
Place(c, f) ==
    LET m == subject[c] IN
    /\ Runs(c, "place") /\ f \in current
    /\ file' = [file EXCEPT ![m][f] = IF part[m][f] = Full THEN "good" ELSE "bad"]
    /\ part' = [part EXCEPT ![m][f] = 0]
    /\ at' = "record"
    /\ UNCHANGED <<queue, todo, current, op, subject, aborted>>
    /\ UNCHANGED <<stored, ledger, offset, memory, hub, history>>

\* ... and entered in the ledger as completed.
Record(c, f) ==
    /\ Runs(c, "record") /\ f \in current
    /\ offset' = [offset EXCEPT ![subject[c]][f] = 0]
    /\ Goto("files", todo \ {f})
    /\ UNCHANGED <<stored, file, part, ledger, memory, hub, history>>

StartVerify(c) ==
    /\ Runs(c, "files") /\ todo = {}
    /\ MovesOn(c, "VERIFYING", "verify", File)
    /\ UNCHANGED verified

\* All artifacts again, then manifest.json.
Verify(c, f) ==
    /\ Runs(c, "verify") /\ f \in todo /\ ~aborted[c]
    /\ IF file[subject[c]][f] # "good" THEN Goto("fail", {})
       ELSE Goto(IF todo = {f} THEN "publish" ELSE "verify", todo \ {f})
    /\ UNCHANGED <<disk, memory, hub, history>>

PublishReady(c) ==
    /\ Runs(c, "publish") /\ ~aborted[c]
    /\ MovesOn(c, "READY", "leave", {})
    /\ verified' = IF at' = "leave" THEN verified \cup {subject[c]} ELSE verified

\* The catch block publishes FAILED; whether or not it can, finally follows.
Fail(c) ==
    /\ Runs(c, "fail")
    /\ \/ Publish(subject[c], "FAILED") /\ UNCHANGED history
       \/ PublishFails(subject[c], "FAILED")
    /\ Goto("leave", {})
    /\ UNCHANGED <<file, part, ledger, offset, opening, verified, hub>>

----------------------------------------------------------------------------
(* delete()                                                                *)

\* Mutant of DeleteRefused: delete() waits for inference to end.
DeleteWaits(c) ==
    /\ Turn(c, "delete")
    /\ platform = "ios" \/ registry[subject[c]] = "none"
    /\ Answer(c)
    /\ UNCHANGED <<disk, memory, hub, history>>

DeleteRefused(c) ==
    /\ Turn(c, "delete")
    /\ platform = "ios" \/ registry[subject[c]] = "none" \/ ~GateOpens
    /\ Answer(c)
    /\ UNCHANGED <<disk, memory, hub, history>>

\* Mutant of StartDelete: the gate is not asked for.
StartDeleteUngated(c) ==
    /\ Turn(c, "delete")
    /\ platform # "ios" /\ registry[subject[c]] # "none"
    /\ halfDeleted' = halfDeleted \cup {subject[c]}
    /\ Goto("erase", {})
    /\ UNCHANGED <<hub, disk, memory, damaged, faults, crashes>>

StartDelete(c) ==
    /\ Turn(c, "delete")
    /\ platform # "ios" /\ registry[subject[c]] # "none" /\ GateOpens
    /\ CloseGate
    /\ halfDeleted' = halfDeleted \cup {subject[c]}
    /\ Goto("erase", {})
    /\ UNCHANGED <<platform, used, disk, memory, damaged, faults, crashes>>

\* The artifact directory goes, all of it or, if the operation is rejected, some.
Gone(m, files) ==
    /\ file' = [file EXCEPT ![m] = [f \in File |-> IF f \in files THEN "absent" ELSE @[f]]]
    /\ part' = [part EXCEPT ![m] = [f \in File |-> IF f \in files THEN 0 ELSE @[f]]]

Erase(c) ==
    LET m == subject[c] IN
    /\ Runs(c, "erase")
    /\ \/ /\ Gone(m, File)
          /\ ledger' = [ledger EXCEPT ![m] = "absent"]
          /\ offset' = [offset EXCEPT ![m] = [f \in File |-> 0]]
          /\ verified' = verified \ {m}
          /\ Goto("forget", {}) /\ UNCHANGED history
       \/ /\ \E files \in SUBSET File : Gone(m, files)
          /\ UNCHANGED <<ledger, offset, verified>>
          /\ Fault /\ Goto("leave", {})
    /\ UNCHANGED <<stored, registry, opening, hub>>

Forget(c) ==
    /\ Runs(c, "forget")
    /\ \/ /\ Publish(subject[c], "none")
          /\ halfDeleted' = halfDeleted \ {subject[c]}
          /\ UNCHANGED <<damaged, faults, crashes>>
       \/ PublishFails(subject[c], "none")
    /\ Goto("leave", {})
    /\ UNCHANGED <<file, part, ledger, offset, opening, verified, hub>>

----------------------------------------------------------------------------
(* verifyReadyModel(), which the Hub calls before a load of its own (iOS). *)

\* Not READY: refused. Verified before by this process: nothing to do.
VerifyAnswered(c) ==
    /\ Turn(c, "verify")
    /\ registry[subject[c]] # "READY" \/ subject[c] \in verified
    /\ Answer(c)
    /\ UNCHANGED <<disk, memory, hub, history>>

\* Mutant of VerifyPasses: length is enough.
VerifyPassesBySize(c) ==
    LET m == subject[c] IN
    /\ Turn(c, "verify")
    /\ registry[m] = "READY" /\ m \notin verified /\ Sized(m)
    /\ verified' = verified \cup {m}
    /\ Answer(c)
    /\ UNCHANGED <<disk, registry, opening, hub, history>>

VerifyPasses(c) ==
    LET m == subject[c] IN
    /\ Turn(c, "verify")
    /\ registry[m] = "READY" /\ m \notin verified /\ Intact(m)
    /\ verified' = verified \cup {m}
    /\ Answer(c)
    /\ UNCHANGED <<disk, registry, opening, hub, history>>

VerifyFails(c) ==
    LET m == subject[c] IN
    /\ Turn(c, "verify")
    /\ registry[m] = "READY" /\ m \notin verified
    /\ IF Intact(m) THEN Fault ELSE UNCHANGED history
    /\ Goto("demote", {})
    /\ UNCHANGED <<disk, memory, hub>>

Demote(c) ==
    /\ Runs(c, "demote")
    /\ \/ Publish(subject[c], "FAILED") /\ UNCHANGED history
       \/ PublishFails(subject[c], "FAILED")
    /\ Answer(c)
    /\ UNCHANGED <<file, part, ledger, offset, opening, verified, hub>>

----------------------------------------------------------------------------
(* The rest of the world.                                                  *)

\* An operation of the inference service takes the gate, then opens a model
\* whose record on disk is READY and whose bytes it has hashed.
StartInference(m) ==
    /\ platform = "android" /\ gate = "free"
    /\ stored[m] = "READY" /\ Intact(m)
    /\ gate' = "inference" /\ used' = m
    /\ UNCHANGED <<platform, disk, memory, calls, history>>

EndInference ==
    /\ gate = "inference"
    /\ gate' = "free" /\ used' = None
    /\ UNCHANGED <<platform, disk, memory, calls, history>>

Damage(m, f) ==
    /\ Cardinality({n \in Model : damaged[n] # "no"}) < MaxDamages
    /\ file[m][f] = "good" /\ used # m
    /\ \E harm \in {"bad", "short", "absent"} : file' = [file EXCEPT ![m][f] = harm]
    /\ damaged' = [damaged EXCEPT ![m] = "now"]
    /\ UNCHANGED <<stored, part, ledger, offset, memory, calls, hub, halfDeleted, faults, crashes>>

Crash ==
    /\ crashes < MaxCrashes /\ crashes' = crashes + 1
    /\ registry' = [m \in Model |-> "none"] /\ opening' = "closed" /\ verified' = {}
    /\ queue' = << >> /\ at' = "enter" /\ todo' = {} /\ current' = {}
    /\ op' = [c \in Call |-> "none"] /\ aborted' = [c \in Call |-> FALSE]
    /\ gate' = "free" /\ used' = None
    /\ halfDeleted' = {}
    /\ damaged' = [m \in Model |-> IF damaged[m] = "no" THEN "no" ELSE "past"]
    /\ UNCHANGED <<disk, platform, subject, faults>>

----------------------------------------------------------------------------
Download(c) ==
    \/ DownloadRefused(c) \/ StartDownload(c) \/ Announce(c)
    \/ ReadLedger(c) \/ FillLedger(c)
    \/ \E f \in File :
        \/ Reuse(c, f) \/ StartTransfer(c, f) \/ Receive(c, f) \/ Pause(c, f)
        \/ TransferEnds(c, f) \/ CheckPart(c, f) \/ Place(c, f) \/ Record(c, f)
        \/ Verify(c, f)
    \/ StartVerify(c) \/ PublishReady(c) \/ Interrupted(c) \/ Fail(c)

Delete(c) == DeleteRefused(c) \/ StartDelete(c) \/ Erase(c) \/ Forget(c)

VerifyReadyModel(c) == VerifyAnswered(c) \/ VerifyPasses(c) \/ VerifyFails(c) \/ Demote(c)

Initialize ==
    OpenStore \/ ReadRegistry \/ StoreIsOpen \/ OpenFails \/ \E m \in Model : Repair(m)

\* What the event loop carries on by itself.
Serve ==
    Initialize \/ \E c \in Call : Download(c) \/ Delete(c) \/ VerifyReadyModel(c) \/ Leaves(c)

Next ==
    \/ Serve
    \/ \E c \in Call, m \in Model :
        \E what \in {"download", "delete", "verify"} : CallStore(c, what, m)
    \/ \E c \in Call : Abort(c)
    \/ \E m \in Model : StartInference(m)
    \/ EndInference
    \/ \E m \in Model, f \in File : Damage(m, f)
    \/ Crash

Spec == Init /\ [][Next]_vars

----------------------------------------------------------------------------
(* Properties.                                                             *)

\* Once the store is open a READY record has all its artifacts. They are
\* intact unless somebody damaged them, and what was damaged before this
\* process began (by size or presence) has been found by #repairReadyStates().
\* A model this process failed to delete is the exception.
ReadyIsComplete ==
    opening = "open" =>
        \A m \in Model : (registry[m] = "READY" /\ m \notin halfDeleted) =>
            /\ damaged[m] = "no" => Intact(m)
            /\ damaged[m] # "now" => Sized(m)

\* Nothing unverified is ever at an artifact's final path, where a later
\* download() would meet it and refuse the model for good: whatever was
\* received, resumed or concatenated is verified before it is moved.
FinalFilesAreVerified ==
    \A m \in Model, f \in File : damaged[m] = "no" => file[m][f] \in {"absent", "good"}

\* The gate between inference and the store's mutations is the store's exactly
\* while a download or a deletion runs: taken before the first change, given
\* back on every way out, never left shut by a call that is over.
GateHeldByMutation ==
    platform = "android" =>
        (gate = "store" <=> at \in Transfer \cup Removal \cup {"leave"})

\* Every call that is queued is under way, and queued once.
QueueInv == \A i, j \in 1 .. Len(queue) : op[queue[i]] # "none" /\ (queue[i] = queue[j] => i = j)

\* What the running call can rely on between two steps. It is still the head of
\* the queue, of an open store; the download it runs is of a model that is not
\* READY, one transfer at a time, and the .part it moves is the one it verified;
\* what it publishes as READY it has hashed; what it deletes is known to be half
\* deleted. A store that is not open vouches for nothing.
CallInv ==
    LET c == Head(queue)  m == subject[c] IN
    /\ QueueInv
    /\ at # "enter" => queue # << >> /\ opening = "open"
    /\ opening # "open" => verified = {}
    /\ at \in Transfer =>
          /\ op[c] = "download" /\ registry[m] # "READY"
          /\ at \in {"verify", "publish"} /\ damaged[m] # "now" =>
                \A f \in File \ todo : file[m][f] = "good"
          /\ at = "publish" => todo = {}
          /\ at = "place" => \A f \in current : part[m][f] = Full
    /\ \A f, g \in current : f = g
    /\ at \in Removal => op[c] = "delete" /\ m \in halfDeleted
    /\ at = "demote" => op[c] = "verify"

\* The coordinator's other side: the gate is inference's exactly while it has a
\* model open, and on iOS nobody has it.
InferenceInv ==
    IF platform = "android" THEN gate = "inference" <=> used # None
    ELSE gate = "free" /\ used = None

\* The registry, the disk and the gate agree through repairs, failures and deaths.
RecordsMatchFiles ==
    /\ TypeOK
    /\ ReadyIsComplete /\ FinalFilesAreVerified
    /\ GateHeldByMutation /\ InferenceInv
    /\ CallInv

\* verifyReadyModel() hashes a revision once per process. What that once was
\* enough for: damage done before the process began, whatever its kind.
VerifiedMeansIntact ==
    \A m \in verified :
        (registry[m] = "READY" /\ m \notin halfDeleted /\ damaged[m] # "now") => Intact(m)

\* No operation of the store touches a file while inference has it open.
InferenceUndisturbed ==
    [][\A m \in Model : (used = m /\ used' = m) => file'[m] = file[m]]_vars

\* While a call is waiting the store can go on by itself, whatever failed
\* before and in whatever state a dead process left the disk: neither the
\* queue, nor a start-up that failed, nor a gate held by inference, nor a
\* transfer that was aborted ever needs somebody else's help.
NeverStuck == queue # << >> => ENABLED Serve

=============================================================================
