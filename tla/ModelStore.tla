----------------------------- MODULE ModelStore -----------------------------
(***************************************************************************)
(* packages/model-store/src/store.ts: createModelStore(), the writer of    *)
(* one storage root.  Every operation runs in the root's queue (exclusive) *)
(* and is a sequence of native file and registry operations; the process   *)
(* may die between any two of them and only what is on disk survives.      *)
(*                                                                         *)
(* Granularity.  One step per native operation that changes the disk, and  *)
(* one for each verification of a whole model: nothing the store does      *)
(* meanwhile can change the files, because it holds the queue.             *)
(*                                                                         *)
(* External.  The port: atomicText and move happen or do not happen, a     *)
(* rejected registry write may still have happened, a download leaves      *)
(* whatever it received.  Files can be damaged from outside (Tamper).      *)
(***************************************************************************)
EXTENDS AsyncMutex, Naturals, FiniteSets

CONSTANTS Model,        \* the approved models of the policy
          File,         \* the required artifacts of each of them
          Licensed,     \* the models whose license needs acceptance
          Call,         \* callers of the store; each makes one call at a time
          MaxFaults,    \* bound: rejected native operations of a behaviour
          MaxCrashes,   \* bound: deaths of the process
          MaxTampers,   \* bound: files damaged from outside
          None          \* no lease

ASSUME StoreAssumption ==
    /\ Licensed \subseteq Model
    /\ IsFiniteSet(Call)
    /\ {MaxFaults, MaxCrashes, MaxTampers} \subseteq Nat
    /\ None \notin Model

VARIABLES
    \* on disk
    registry,    \* registry.json: the state of each model's record, or "absent"
    accepted,    \* registry.json: licenseAcceptances
    file,        \* the artifact at its final path
    part,        \* its ".part" staging file
    manifest,    \* models/<storageId>/manifest.json exists
    \* in the process
    queue,       \* roots[identity].tail: the calls in order
    at,          \* what the running call does next, or "idle"
    todo,        \* its artifacts not dealt with yet
    staged,      \* the artifact it has just fetched, if any
    op, subject, \* what each caller has called, or "none"
    cancelled,   \* the AbortSignal of the call
    lease,       \* the model each caller holds a lease of, or None
    releasing,   \* the callers whose lease is being released
    leases,      \* roots[identity].leases
    \* bounds and history
    faults, crashes,
    tampered     \* artifacts damaged from outside

diskVars    == <<registry, accepted, file, part, manifest>>
processVars == <<queue, at, todo, staged, op, subject, cancelled>>
leaseVars   == <<lease, releasing, leases>>
boundVars   == <<faults, crashes, tampered>>
vars        == <<diskVars, processVars, leaseVars, boundVars>>

Init ==
    /\ registry = [m \in Model |-> "absent"]
    /\ accepted = {}
    /\ file = [m \in Model |-> [f \in File |-> "absent"]]
    /\ part = [m \in Model |-> [f \in File |-> "absent"]]
    /\ manifest = [m \in Model |-> FALSE]
    /\ queue = << >> /\ at = "idle" /\ todo = {} /\ staged = {}
    /\ op = [c \in Call |-> "none"]
    /\ subject \in [Call -> Model]
    /\ cancelled = [c \in Call |-> FALSE]
    /\ lease = [c \in Call |-> None] /\ releasing = {}
    /\ leases = [m \in Model |-> 0]
    /\ faults = 0 /\ crashes = 0 /\ tampered = {}

-----------------------------------------------------------------------------
(* Helpers.                                                                *)

Turn(c, what) == Holds(queue, c) /\ op[c] = what

Runs(c, where) == Holds(queue, c) /\ at = where

Fault == /\ faults < MaxFaults
         /\ faults' = faults + 1
         /\ UNCHANGED <<crashes, tampered>>

Licensing(m) == m \in Licensed => m \in accepted

Intact(m) == \A f \in File : file[m][f] = "good"

\* publish(): the new registry replaces the old one.
Publish(m, state) == registry' = [registry EXCEPT ![m] = state]

\* publish() rejects; the write may have happened all the same.
PublishFails(m, state) == /\ Fault
                          /\ \/ Publish(m, state)
                             \/ UNCHANGED registry

Goto(where, files) == /\ at' = where
                      /\ todo' = files
                      /\ staged' = {}
                      /\ UNCHANGED <<queue, op, subject, cancelled>>

\* Mutant of Answer: the queue is not unlocked.
AnswerKeepsTurn(c) ==
    /\ at' = "idle" /\ todo' = {} /\ staged' = {}
    /\ op' = [op EXCEPT ![c] = "none"]
    /\ cancelled' = [cancelled EXCEPT ![c] = FALSE]
    /\ UNCHANGED <<queue, subject>>

\* The call settles and the next one of the queue starts.
Answer(c) == /\ queue' = Leave(queue)
             /\ at' = "idle"
             /\ todo' = {} /\ staged' = {}
             /\ op' = [op EXCEPT ![c] = "none"]
             /\ cancelled' = [cancelled EXCEPT ![c] = FALSE]
             /\ UNCHANGED subject

\* A caller calls install(), remove(), acceptLicense() or acquire(); it has at
\* most one lease.
CallStore(c, what, m) ==
    /\ op[c] = "none"
    /\ what = "acquire" => lease[c] = None
    /\ op' = [op EXCEPT ![c] = what]
    /\ subject' = [subject EXCEPT ![c] = m]
    /\ queue' = Enter(queue, c)
    /\ UNCHANGED <<at, todo, staged, cancelled, diskVars, leaseVars, boundVars>>

Cancel(c) ==
    /\ op[c] = "install"
    /\ ~cancelled[c]
    /\ cancelled' = [cancelled EXCEPT ![c] = TRUE]
    /\ UNCHANGED <<queue, at, todo, staged, op, subject, diskVars, leaseVars, boundVars>>

-----------------------------------------------------------------------------
(* install.                                                                *)

\* Cancelled, not licensed, or in use; or the registry cannot be read.
InstallRefused(c) ==
    LET m == subject[c] IN
    /\ Turn(c, "install") /\ at = "idle"
    /\ IF cancelled[c] \/ ~Licensing(m) \/ leases[m] > 0 THEN UNCHANGED boundVars ELSE Fault
    /\ Answer(c)
    /\ UNCHANGED <<diskVars, leaseVars>>

\* READY metadata is not enough: verify before the install counts as done.
StartInstall(c) ==
    LET m == subject[c] IN
    /\ Turn(c, "install") /\ at = "idle"
    /\ ~cancelled[c] /\ Licensing(m) /\ leases[m] = 0
    /\ Goto(IF registry[m] = "READY" THEN "check" ELSE "announce", {})
    /\ UNCHANGED <<diskVars, leaseVars, boundVars>>

\* acquireVerified() succeeded: nothing to do (its release may still reject).
AlreadyInstalled(c) ==
    /\ Runs(c, "check")
    /\ Intact(subject[c])
    /\ Fault \/ UNCHANGED boundVars
    /\ Answer(c)
    /\ UNCHANGED <<diskVars, leaseVars>>

\* It did not, because a file is missing or damaged or could not be read:
\* provision the model again.
CheckFails(c) ==
    /\ Runs(c, "check")
    /\ IF Intact(subject[c]) THEN Fault ELSE UNCHANGED boundVars
    /\ Goto("announce", {})
    /\ UNCHANGED <<diskVars, leaseVars>>

\* Space, directory, then publish(DOWNLOADING).
Announce(c) ==
    /\ Runs(c, "announce")
    /\ Publish(subject[c], "DOWNLOADING")
    /\ Goto("files", File)
    /\ UNCHANGED <<accepted, file, part, manifest, leaseVars, boundVars>>

\* No space, no directory, or the record could not be written: the call fails
\* before its try block, so nothing is marked FAILED.
AnnounceFails(c) ==
    /\ Runs(c, "announce")
    /\ PublishFails(subject[c], "DOWNLOADING")
    /\ Answer(c)
    /\ UNCHANGED <<accepted, file, part, manifest, leaseVars>>

\* An artifact that is already there is reused if it verifies.
ReuseFile(c, f) ==
    /\ Runs(c, "files")
    /\ f \in todo /\ ~cancelled[c]
    /\ file[subject[c]][f] = "good"
    /\ Goto("files", todo \ {f})
    /\ UNCHANGED <<diskVars, leaseVars, boundVars>>

\* Mutant of FetchFile: what is in the staging file already is kept.
FetchFileResumes(c, f) ==
    /\ Runs(c, "files")
    /\ f \in todo /\ ~cancelled[c]
    /\ file[subject[c]][f] = "absent"
    /\ \E content \in {"good", "bad"} :
         /\ IF content = "bad" THEN Fault ELSE UNCHANGED boundVars
         /\ part' = [part EXCEPT ![subject[c]][f] = IF @ = "absent" THEN content ELSE @]
    /\ at' = "place" /\ staged' = {f}
    /\ UNCHANGED <<registry, accepted, file, manifest, leaseVars,
                   queue, todo, op, subject, cancelled>>

\* download() or importFile() leaves something in the staging file.
FetchFile(c, f) ==
    /\ Runs(c, "files")
    /\ f \in todo /\ ~cancelled[c]
    /\ file[subject[c]][f] = "absent"
    /\ \E content \in {"good", "bad"} :
         /\ IF content = "bad" THEN Fault ELSE UNCHANGED boundVars
         /\ part' = [part EXCEPT ![subject[c]][f] = content]
    /\ at' = "place" /\ staged' = {f}
    /\ UNCHANGED <<registry, accepted, file, manifest, leaseVars,
                   queue, todo, op, subject, cancelled>>

\* Mutant of PlaceFile: the staging file is not verified.
PlaceFileUnverified(c, f) ==
    LET m == subject[c] IN
    /\ Runs(c, "place")
    /\ f \in staged /\ ~cancelled[c]
    /\ file' = [file EXCEPT ![m][f] = part[m][f]]
    /\ part' = [part EXCEPT ![m][f] = "absent"]
    /\ Goto("files", todo \ {f})
    /\ UNCHANGED <<registry, accepted, manifest, leaseVars, boundVars>>

\* The staged artifact verifies and is moved to its final path.
PlaceFile(c, f) ==
    LET m == subject[c] IN
    /\ Runs(c, "place")
    /\ f \in staged /\ ~cancelled[c]
    /\ part[m][f] = "good"
    /\ file' = [file EXCEPT ![m][f] = "good"]
    /\ part' = [part EXCEPT ![m][f] = "absent"]
    /\ Goto("files", todo \ {f})
    /\ UNCHANGED <<registry, accepted, manifest, leaseVars, boundVars>>

\* Every artifact is in place: publish(VERIFYING).
FilesPlaced(c) ==
    /\ Runs(c, "files")
    /\ todo = {}
    /\ Publish(subject[c], "VERIFYING")
    /\ Goto("verify", {})
    /\ UNCHANGED <<accepted, file, part, manifest, leaseVars, boundVars>>

\* All of them verify where they are now.
VerifyFiles(c) ==
    /\ Runs(c, "verify")
    /\ Intact(subject[c]) /\ ~cancelled[c]
    /\ Goto("describe", {})
    /\ UNCHANGED <<diskVars, leaseVars, boundVars>>

WriteManifest(c) ==
    /\ Runs(c, "describe")
    /\ manifest' = [manifest EXCEPT ![subject[c]] = TRUE]
    /\ IF cancelled[c] THEN Goto("undo", {}) ELSE Goto("offer", {})
    /\ UNCHANGED <<registry, accepted, file, part, leaseVars, boundVars>>

\* publish(READY).
Offer(c) ==
    /\ Runs(c, "offer")
    /\ Publish(subject[c], "READY")
    /\ Answer(c)
    /\ UNCHANGED <<accepted, file, part, manifest, leaseVars, boundVars>>

\* Anything between the first and the last publish that throws: a signal seen
\* by one of the checks, an artifact that does not verify, a native failure.
InstallThrows(c) ==
    LET m == subject[c] IN
    /\ \E where \in {"files", "place", "verify", "describe", "offer"} : Runs(c, where)
    /\ \/ /\ \/ cancelled[c] /\ (at = "files" => todo # {}) /\ at \notin {"describe", "offer"}
             \/ at = "files" /\ \E f \in todo : file[m][f] = "bad"
             \/ at = "place" /\ \E f \in staged : part[m][f] = "bad"
             \/ at = "verify" /\ ~Intact(m)
          /\ UNCHANGED <<registry, manifest, boundVars>>
       \/ /\ PublishFails(m, CASE at = "files" /\ todo = {} -> "VERIFYING"
                                [] at = "offer" -> "READY"
                                [] OTHER -> registry[m])
          /\ \E b \in {manifest[m], manifest[m] \/ at = "describe"} :
               manifest' = [manifest EXCEPT ![m] = b]
    /\ Goto("undo", {})
    /\ UNCHANGED <<accepted, file, part, leaseVars>>

\* publish(FAILED), whose own failure is swallowed, and the error is thrown.
MarkFailed(c) ==
    /\ Runs(c, "undo")
    /\ \/ Publish(subject[c], "FAILED") /\ UNCHANGED boundVars
       \/ PublishFails(subject[c], "FAILED")
    /\ Answer(c)
    /\ UNCHANGED <<accepted, file, part, manifest, leaseVars>>

-----------------------------------------------------------------------------
(* remove and acceptLicense.                                               *)

RemoveRefused(c) ==
    /\ Turn(c, "remove") /\ at = "idle"
    /\ IF leases[subject[c]] > 0 THEN UNCHANGED boundVars ELSE Fault
    /\ Answer(c)
    /\ UNCHANGED <<diskVars, leaseVars>>

\* Mutant of Withdraw: nobody asks whether the model is in use.
WithdrawInUse(c) ==
    /\ Turn(c, "remove") /\ at = "idle"
    /\ Publish(subject[c], "absent")
    /\ Goto("delete", File)
    /\ UNCHANGED <<accepted, file, part, manifest, leaseVars, boundVars>>

\* "Withdraw READY before deleting files".
Withdraw(c) ==
    /\ Turn(c, "remove") /\ at = "idle"
    /\ leases[subject[c]] = 0
    /\ Publish(subject[c], "absent")
    /\ Goto("delete", File)
    /\ UNCHANGED <<accepted, file, part, manifest, leaseVars, boundVars>>

WithdrawFails(c) ==
    /\ Turn(c, "remove") /\ at = "idle"
    /\ leases[subject[c]] = 0
    /\ PublishFails(subject[c], "absent")
    /\ Answer(c)
    /\ UNCHANGED <<accepted, file, part, manifest, leaseVars>>

\* port.remove() deletes the directory entry by entry, in any order.
DeleteFile(c, f) ==
    LET m == subject[c] IN
    /\ Runs(c, "delete")
    /\ f \in todo
    /\ file' = [file EXCEPT ![m][f] = "absent"]
    /\ part' = [part EXCEPT ![m][f] = "absent"]
    /\ \E b \in {manifest[m], FALSE} : manifest' = [manifest EXCEPT ![m] = b]
    /\ Goto("delete", todo \ {f})
    /\ UNCHANGED <<registry, accepted, leaseVars, boundVars>>

Removed(c) ==
    /\ Runs(c, "delete")
    /\ todo = {}
    /\ manifest' = [manifest EXCEPT ![subject[c]] = FALSE]
    /\ Answer(c)
    /\ UNCHANGED <<registry, accepted, file, part, leaseVars, boundVars>>

\* "a failed delete leaves only orphans".
DeleteFails(c) ==
    /\ Runs(c, "delete")
    /\ Fault
    /\ Answer(c)
    /\ UNCHANGED <<diskVars, leaseVars>>

AcceptLicense(c) ==
    /\ Turn(c, "acceptLicense") /\ at = "idle"
    /\ \/ accepted' = accepted \cup {subject[c]} /\ UNCHANGED boundVars
       \/ Fault /\ (accepted' = accepted \cup {subject[c]} \/ UNCHANGED accepted)
    /\ Answer(c)
    /\ UNCHANGED <<registry, file, part, manifest, leaseVars>>

-----------------------------------------------------------------------------
(* acquire and the leases it returns.                                      *)

\* acquireVerified() leased and verified every artifact.
Acquire(c) ==
    LET m == subject[c] IN
    /\ Turn(c, "acquire") /\ at = "idle"
    /\ registry[m] = "READY" /\ Licensing(m) /\ Intact(m)
    /\ leases' = [leases EXCEPT ![m] = @ + 1]
    /\ lease' = [lease EXCEPT ![c] = m]
    /\ Answer(c)
    /\ UNCHANGED <<releasing, diskVars, boundVars>>

\* Not READY, not licensed, an artifact that does not verify, a native failure;
\* what was leased so far is given back.
AcquireRefused(c) ==
    LET m == subject[c] IN
    /\ Turn(c, "acquire") /\ at = "idle"
    /\ IF registry[m] = "READY" /\ Licensing(m) /\ Intact(m) THEN Fault ELSE UNCHANGED boundVars
    /\ Answer(c)
    /\ UNCHANGED <<diskVars, leaseVars>>

\* lease.release(): outside the queue; a second call joins the pending one.
ReleaseLease(c) ==
    /\ lease[c] # None
    /\ c \notin releasing
    /\ releasing' = releasing \cup {c}
    /\ UNCHANGED <<lease, leases, diskVars, processVars, boundVars>>

\* Mutant of LeaseReleased: two release() calls in a row are counted twice.
LeaseReleasedTwice(c) ==
    LET m == lease[c] IN
    /\ c \in releasing
    /\ lease' = [lease EXCEPT ![c] = None]
    /\ releasing' = releasing \ {c}
    /\ leases' = [leases EXCEPT ![m] = @ - 2]
    /\ UNCHANGED <<diskVars, processVars, boundVars>>

LeaseReleased(c) ==
    LET m == lease[c] IN
    /\ c \in releasing
    /\ lease' = [lease EXCEPT ![c] = None]
    /\ releasing' = releasing \ {c}
    /\ leases' = [leases EXCEPT ![m] = IF @ > 0 THEN @ - 1 ELSE 0]
    /\ UNCHANGED <<diskVars, processVars, boundVars>>

\* The native release rejects: the lease is still held and may be released again.
LeaseReleaseFails(c) ==
    /\ c \in releasing
    /\ Fault
    /\ releasing' = releasing \ {c}
    /\ UNCHANGED <<lease, leases, diskVars, processVars>>

-----------------------------------------------------------------------------
(* What happens to the store.                                              *)

\* The process dies: queue, calls and leases go with it, the disk stays.
Crash ==
    /\ crashes < MaxCrashes
    /\ crashes' = crashes + 1
    /\ queue' = << >> /\ at' = "idle" /\ todo' = {} /\ staged' = {}
    /\ op' = [c \in Call |-> "none"]
    /\ cancelled' = [c \in Call |-> FALSE]
    /\ lease' = [c \in Call |-> None] /\ releasing' = {}
    /\ leases' = [m \in Model |-> 0]
    /\ UNCHANGED <<subject, diskVars, faults, tampered>>

\* A file of the root is damaged or deleted by somebody else.
Tamper(m, f) ==
    /\ Cardinality(tampered) < MaxTampers
    /\ file[m][f] = "good"
    /\ \E content \in {"bad", "absent"} : file' = [file EXCEPT ![m][f] = content]
    /\ tampered' = tampered \cup {<<m, f>>}
    /\ UNCHANGED <<registry, accepted, part, manifest, processVars, leaseVars, faults, crashes>>

-----------------------------------------------------------------------------
FileStep(c) == \E f \in File : ReuseFile(c, f) \/ FetchFile(c, f) \/ PlaceFile(c, f) \/ DeleteFile(c, f)

StoreStep ==
    \E c \in Call :
        \/ InstallRefused(c) \/ StartInstall(c) \/ AlreadyInstalled(c) \/ CheckFails(c)
        \/ Announce(c) \/ AnnounceFails(c) \/ FileStep(c) \/ FilesPlaced(c)
        \/ VerifyFiles(c) \/ WriteManifest(c) \/ Offer(c) \/ InstallThrows(c) \/ MarkFailed(c)
        \/ RemoveRefused(c) \/ Withdraw(c) \/ WithdrawFails(c) \/ Removed(c) \/ DeleteFails(c)
        \/ AcceptLicense(c) \/ Acquire(c) \/ AcquireRefused(c)

LeaseStep(c) == LeaseReleased(c) \/ LeaseReleaseFails(c)

UserStep == \E c \in Call :
    \/ \E what \in {"install", "remove", "acceptLicense", "acquire"}, m \in Model : CallStore(c, what, m)
    \/ Cancel(c)
    \/ ReleaseLease(c)

Next == \/ StoreStep
        \/ \E c \in Call : LeaseStep(c)
        \/ UserStep
        \/ Crash
        \/ \E m \in Model, f \in File : Tamper(m, f)

Spec == Init /\ [][Next]_vars

\* Native operations answer; callers owe nothing.
FairSpec == Spec /\ WF_vars(StoreStep) /\ \A c \in Call : WF_vars(LeaseStep(c))

-----------------------------------------------------------------------------
(* Properties.                                                             *)

DiskTypes ==
    /\ registry \in [Model -> {"absent", "DOWNLOADING", "VERIFYING", "READY", "FAILED"}]
    /\ accepted \in SUBSET Model
    /\ file \in [Model -> [File -> {"absent", "good", "bad"}]]
    /\ part \in [Model -> [File -> {"absent", "good", "bad"}]]
    /\ manifest \in [Model -> BOOLEAN]
ProcessTypes ==
    /\ queue \in Seq(Call)
    /\ at \in {"idle", "check", "announce", "files", "place", "verify", "describe",
               "offer", "undo", "delete"}
    /\ todo \in SUBSET File
    /\ staged \in SUBSET File
    /\ op \in [Call -> {"none", "install", "remove", "acceptLicense", "acquire"}]
    /\ subject \in [Call -> Model]
    /\ cancelled \in [Call -> BOOLEAN]
LeaseTypes ==
    /\ lease \in [Call -> Model \cup {None}]
    /\ releasing \in SUBSET Call
    /\ leases \in [Model -> Nat]
BoundTypes ==
    /\ faults \in 0..MaxFaults
    /\ crashes \in 0..MaxCrashes
    /\ tampered \in SUBSET (Model \X File)

\* Every variable of the store has its type; the lease counters are never negative.
TypeOK == DiskTypes /\ ProcessTypes /\ LeaseTypes /\ BoundTypes

\* An artifact of m that is not as the store left it was damaged by others.
WholeButFor(m, damage) == \A f \in File : file[m][f] = "good" \/ <<m, f>> \in damage

\* "Withdraw READY before deleting files": whenever the process dies, a model
\* the registry calls READY has all its verified artifacts and its manifest.
ReadyMeansVerified ==
    \A m \in Model : registry[m] = "READY" => WholeButFor(m, tampered) /\ manifest[m]

\* Test "keeps live resources undeletable": while an application holds a lease,
\* none of the operations queued or running takes the model away.
LeasedModelStays ==
    \A c \in Call : lease[c] # None =>
        registry[lease[c]] = "READY" /\ WholeButFor(lease[c], tampered)

\* The lease counter of the root is the number of leases out, however often and
\* whenever each of them is released.
LeasesCounted ==
    \A m \in Model : leases[m] = Cardinality({c \in Call : lease[c] = m})

\* Nothing unverified is ever at a final path, so an artifact found there by a
\* later install can be reused (comment "Recovery reuses only already verified
\* immutable artifacts").
FinalFilesAreVerified ==
    \A m \in Model, f \in File : file[m][f] = "bad" => <<m, f>> \in tampered

\* Why: what the running call has made sure of before each of its steps.
CallInv ==
    at # "idle" =>
        /\ queue # << >>
        /\ LET c == Head(queue)
               m == subject[c]
           IN  /\ op[c] = IF at = "delete" THEN "remove" ELSE "install"
               /\ leases[m] = 0
               /\ at = "delete" => registry[m] = "absent"
               /\ at \in {"describe", "offer"} => WholeButFor(m, tampered)
               /\ at = "offer" => manifest[m]

\* Why: who may be given a lease, and who may give one back.
HolderInv ==
    \A c \in Call : /\ op[c] = "acquire" => lease[c] = None
                    /\ c \in releasing => lease[c] # None

\* What the registry says of the disk is true, whenever the process dies.
DiskIsHonest == TypeOK /\ ReadyMeansVerified /\ FinalFilesAreVerified /\ CallInv

\* Applications keep what they leased, and the counter that sees to it is exact.
LeasesProtect == LeasedModelStays /\ LeasesCounted /\ HolderInv

\* The store keeps the promise of ModelCatalog.
Catalog == INSTANCE ModelCatalog WITH offered <- {m \in Model : registry[m] = "READY"},
                                      users <- leases
CatalogRespected == Catalog!Spec

\* Every call is answered: the queue goes on after every failure.
CallsAnswered == \A c \in Call : op[c] # "none" ~> op[c] = "none"

\* A caller that keeps installing m gets it, whatever crashed or failed before:
\* orphans, partial downloads and stale records do not wedge the model.  Only
\* damage from outside could, or somebody else removing or using the model.
Persistence ==
    /\ \A m \in Model : SF_vars(registry[m] # "READY" /\ \E c \in Call : CallStore(c, "install", m))
    /\ \A m \in Model : SF_vars(m \notin accepted /\ \E c \in Call : CallStore(c, "acceptLicense", m))
Disturbed ==
    tampered # {} \/ \E c \in Call : op[c] = "remove" \/ cancelled[c] \/ lease[c] # None
InstallRecovers == Persistence => \A m \in Model : []<>(registry[m] = "READY" \/ Disturbed)
=============================================================================
