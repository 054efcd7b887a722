-------------------------- MODULE ModelStoreProofs --------------------------
(***************************************************************************)
(* For any number of models, artifacts, callers and faults: READY is only  *)
(* said of verified artifacts, what an application has leased stays, and   *)
(* the store implements ModelCatalog.                                      *)
(***************************************************************************)
EXTENDS ModelStore, FiniteSetTheorems, TLAPS

\* The queue, of callers, after one has entered or left it.
LEMMA Queues ==
    ASSUME NEW q \in Seq(Call), NEW c \in Call
    PROVE  /\ Append(q, c) \in Seq(Call)
           /\ q # << >> => Tail(q) \in Seq(Call) /\ Head(q) \in Call
           /\ q # << >> => Append(q, c) # << >> /\ Head(Append(q, c)) = Head(q)
  OBVIOUS

\* install, step by step: the types.
LEMMA InstallTypes ==
    ASSUME TypeOK, NEW c \in Call,
           \/ InstallRefused(c) \/ StartInstall(c) \/ AlreadyInstalled(c) \/ CheckFails(c)
           \/ Announce(c) \/ AnnounceFails(c) \/ FilesPlaced(c) \/ VerifyFiles(c)
           \/ WriteManifest(c) \/ Offer(c) \/ MarkFailed(c)
    PROVE  TypeOK'
<1> USE Queues, StoreAssumption DEF Turn, Runs, Holds, Answer, Goto, Publish, PublishFails, Fault, Leave, Enter
<1>1. DiskTypes'
  BY DEF TypeOK, DiskTypes, ProcessTypes, InstallRefused, StartInstall, AlreadyInstalled, CheckFails, Announce,
         AnnounceFails, FilesPlaced, VerifyFiles, WriteManifest, Offer, MarkFailed, diskVars
<1>2. ProcessTypes'
  BY DEF TypeOK, ProcessTypes, InstallRefused, StartInstall, AlreadyInstalled, CheckFails, Announce,
         AnnounceFails, FilesPlaced, VerifyFiles, WriteManifest, Offer, MarkFailed
<1>3. LeaseTypes' /\ BoundTypes'
  BY DEF TypeOK, LeaseTypes, BoundTypes, InstallRefused, StartInstall, AlreadyInstalled, CheckFails, Announce,
         AnnounceFails, FilesPlaced, VerifyFiles, WriteManifest, Offer, MarkFailed, leaseVars, boundVars
<1> QED
  BY <1>1, <1>2, <1>3 DEF TypeOK

\* The steps of install and remove that touch one artifact.
LEMMA FileTypes ==
    ASSUME TypeOK, NEW c \in Call, FileStep(c)
    PROVE  TypeOK'
<1> USE DEF Runs, Holds, Goto, Fault, TypeOK, DiskTypes, ProcessTypes, LeaseTypes, BoundTypes,
            diskVars, leaseVars, boundVars
<1>1. PICK f \in File : ReuseFile(c, f) \/ FetchFile(c, f) \/ PlaceFile(c, f) \/ DeleteFile(c, f)
  BY DEF FileStep
<1>2. CASE ReuseFile(c, f)
  BY <1>2 DEF ReuseFile
<1>3. CASE FetchFile(c, f)
  <2>1. part' \in [Model -> [File -> {"absent", "good", "bad"}]]
    BY <1>3 DEF FetchFile
  <2>2. faults' \in 0 .. MaxFaults /\ UNCHANGED <<crashes, tampered>>
    BY <1>3, StoreAssumption DEF FetchFile
  <2> QED
    BY <1>3, <2>1, <2>2 DEF FetchFile
<1>4. CASE PlaceFile(c, f)
  BY <1>4 DEF PlaceFile
<1>5. CASE DeleteFile(c, f)
  <2>1. /\ file' \in [Model -> [File -> {"absent", "good", "bad"}]]
        /\ part' \in [Model -> [File -> {"absent", "good", "bad"}]]
    BY <1>5 DEF DeleteFile
  <2>2. manifest' \in [Model -> BOOLEAN]
    BY <1>5 DEF DeleteFile
  <2> QED
    BY <1>5, <2>1, <2>2 DEF DeleteFile
<1> QED
  BY <1>1, <1>2, <1>3, <1>4, <1>5

\* install's catch.
LEMMA ThrowTypes ==
    ASSUME TypeOK, NEW c \in Call, InstallThrows(c)
    PROVE  TypeOK'
<1> USE DEF Runs, Holds, Goto, Publish, PublishFails, Fault, InstallThrows
<1>1. registry' \in [Model -> {"absent", "DOWNLOADING", "VERIFYING", "READY", "FAILED"}]
  BY DEF TypeOK, DiskTypes, ProcessTypes
<1>2. manifest' \in [Model -> BOOLEAN]
  BY DEF TypeOK, DiskTypes, ProcessTypes
<1>3. ProcessTypes' /\ LeaseTypes'
  BY DEF TypeOK, ProcessTypes, LeaseTypes, leaseVars
<1>4. BoundTypes'
  BY StoreAssumption DEF TypeOK, BoundTypes, boundVars
<1> QED
  BY <1>1, <1>2, <1>3, <1>4 DEF TypeOK, DiskTypes

\* remove, acceptLicense and acquire.
LEMMA OtherTypes ==
    ASSUME TypeOK, NEW c \in Call,
           \/ RemoveRefused(c) \/ Withdraw(c) \/ WithdrawFails(c) \/ Removed(c) \/ DeleteFails(c)
           \/ AcceptLicense(c) \/ Acquire(c) \/ AcquireRefused(c)
    PROVE  TypeOK'
<1> USE Queues, StoreAssumption DEF Turn, Runs, Holds, Answer, Goto, Publish, PublishFails, Fault, Leave, Enter
<1>1. DiskTypes'
  BY DEF TypeOK, DiskTypes, ProcessTypes, RemoveRefused, Withdraw, WithdrawFails, Removed, DeleteFails,
         AcceptLicense, Acquire, AcquireRefused, diskVars
<1>2. ProcessTypes'
  BY DEF TypeOK, ProcessTypes, RemoveRefused, Withdraw, WithdrawFails, Removed, DeleteFails,
         AcceptLicense, Acquire, AcquireRefused
<1>3. LeaseTypes'
  <2>1. CASE Acquire(c)
    BY <2>1 DEF TypeOK, LeaseTypes, ProcessTypes, Acquire
  <2> QED
    BY <2>1 DEF TypeOK, LeaseTypes, RemoveRefused, Withdraw, WithdrawFails, Removed, DeleteFails,
           AcceptLicense, AcquireRefused, leaseVars
<1>4. BoundTypes'
  BY DEF TypeOK, BoundTypes, RemoveRefused, Withdraw, WithdrawFails, Removed, DeleteFails,
         AcceptLicense, Acquire, AcquireRefused, boundVars
<1> QED
  BY <1>1, <1>2, <1>3, <1>4 DEF TypeOK

\* Callers, leases, the end of the process and damage.
LEMMA AroundTypes ==
    ASSUME TypeOK, UserStep \/ (\E c \in Call : LeaseStep(c)) \/ Crash \/ \E m \in Model, f \in File : Tamper(m, f)
    PROVE  TypeOK'
<1> USE StoreAssumption DEF diskVars, processVars, leaseVars, boundVars
<1>1. CASE UserStep
  <2>1. DiskTypes' /\ BoundTypes'
    BY <1>1 DEF TypeOK, DiskTypes, BoundTypes, UserStep, CallStore, Cancel, ReleaseLease
  <2>2. ProcessTypes'
    <3>1. CASE \E c \in Call, m \in Model, what \in {"install", "remove", "acceptLicense", "acquire"} : CallStore(c, what, m)
      BY <3>1, Queues DEF TypeOK, ProcessTypes, CallStore, Enter
    <3>2. CASE \E c \in Call : Cancel(c) \/ ReleaseLease(c)
      BY <3>2 DEF TypeOK, ProcessTypes, Cancel, ReleaseLease
    <3> QED
      BY <1>1, <3>1, <3>2 DEF UserStep
  <2>3. LeaseTypes'
    BY <1>1 DEF TypeOK, LeaseTypes, UserStep, CallStore, Cancel, ReleaseLease
  <2> QED
    BY <2>1, <2>2, <2>3 DEF TypeOK
<1>2. CASE \E c \in Call : LeaseStep(c)
  <2> PICK c \in Call : LeaseReleased(c) \/ LeaseReleaseFails(c)
    BY <1>2 DEF LeaseStep
  <2>1. DiskTypes' /\ ProcessTypes' /\ BoundTypes'
    BY DEF TypeOK, DiskTypes, ProcessTypes, BoundTypes, LeaseReleased, LeaseReleaseFails, Fault
  <2>2. CASE LeaseReleased(c)
    <3>1. \A n \in Model : IF leases[n] > 0 THEN leases[n] - 1 \in Nat ELSE 0 \in Nat
      BY DEF TypeOK, LeaseTypes
    <3>2. leases' \in [Model -> Nat]
      BY <2>2, <3>1 DEF TypeOK, LeaseTypes, LeaseReleased
    <3> QED
      BY <2>1, <2>2, <3>2 DEF TypeOK, LeaseTypes, LeaseReleased
  <2>3. CASE LeaseReleaseFails(c)
    BY <2>1, <2>3 DEF TypeOK, LeaseTypes, LeaseReleaseFails
  <2> QED
    BY <2>2, <2>3
<1>3. CASE Crash
  BY <1>3 DEF TypeOK, DiskTypes, ProcessTypes, LeaseTypes, BoundTypes, Crash
<1>4. CASE \E m \in Model, f \in File : Tamper(m, f)
  BY <1>4 DEF TypeOK, DiskTypes, ProcessTypes, LeaseTypes, BoundTypes, Tamper
<1> QED
  BY <1>1, <1>2, <1>3, <1>4

\* Whatever happens to the store, the types stay.
LEMMA TypesKept == TypeOK /\ [Next]_vars => TypeOK'
<1> SUFFICES ASSUME TypeOK, [Next]_vars PROVE TypeOK'
  OBVIOUS
<1>1. CASE StoreStep
  BY <1>1, InstallTypes, FileTypes, ThrowTypes, OtherTypes DEF StoreStep
<1>2. CASE UNCHANGED vars
  BY <1>2 DEF TypeOK, DiskTypes, ProcessTypes, LeaseTypes, BoundTypes, vars, diskVars, processVars, leaseVars, boundVars
<1> QED
  BY <1>1, <1>2, AroundTypes DEF Next

-----------------------------------------------------------------------------
\* What the proofs below carry along.
StoreInv == DiskIsHonest /\ LeasesProtect

\* A counter at zero: nobody has a lease of the model.
LEMMA NoHolder ==
    ASSUME TypeOK, LeasesCounted, NEW m \in Model, leases[m] = 0
    PROVE  \A c \in Call : lease[c] # m
<1>1. IsFiniteSet({c \in Call : lease[c] = m})
  BY FS_Subset, StoreAssumption
<1>2. {c \in Call : lease[c] = m} = {}
  BY <1>1, FS_EmptySet DEF LeasesCounted
<1> QED
  BY <1>2

\* What the running call knows.
LEMMA Running ==
    ASSUME StoreInv, NEW c \in Call, NEW where, Runs(c, where), where # "idle"
    PROVE  /\ subject[c] \in Model /\ leases[subject[c]] = 0 /\ queue # << >> /\ Head(queue) = c /\ at = where
           /\ op[c] = IF where = "delete" THEN "remove" ELSE "install"
           /\ where = "delete" => registry[subject[c]] = "absent"
           /\ where \in {"describe", "offer"} => WholeButFor(subject[c], tampered)
           /\ where = "offer" => manifest[subject[c]]
           /\ \A d \in Call : lease[d] # subject[c]
  BY NoHolder DEF StoreInv, DiskIsHonest, LeasesProtect, CallInv, Runs, Holds, TypeOK, ProcessTypes

\* The verdict of the registry and the queue after a call has ended.
LEMMA CallEnds ==
    ASSUME at' = "idle"
    PROVE  CallInv'
  BY DEF CallInv

\* A running call that goes on to a step at which nothing more is known.
LEMMA CallGoesOn ==
    ASSUME StoreInv, NEW c \in Call, NEW where, Runs(c, where), where # "idle",
           at' \in {"check", "announce", "files", "place", "verify", "undo"}, where # "delete",
           UNCHANGED <<queue, op, subject, leases>>
    PROVE  CallInv'
  BY Running DEF CallInv

\* install, step by step: what is known before each of its steps.
LEMMA InstallKeepsCall ==
    ASSUME StoreInv, NEW c \in Call,
           \/ InstallRefused(c) \/ StartInstall(c) \/ AlreadyInstalled(c) \/ CheckFails(c)
           \/ Announce(c) \/ AnnounceFails(c) \/ FilesPlaced(c) \/ VerifyFiles(c)
           \/ WriteManifest(c) \/ Offer(c) \/ InstallThrows(c) \/ MarkFailed(c)
    PROVE  CallInv'
<1> USE DEF Answer, Goto, leaseVars
<1>1. CASE InstallRefused(c) \/ AlreadyInstalled(c) \/ AnnounceFails(c) \/ Offer(c) \/ MarkFailed(c)
  BY <1>1, CallEnds DEF InstallRefused, AlreadyInstalled, AnnounceFails, Offer, MarkFailed
<1>2. CASE StartInstall(c)
  BY <1>2 DEF StartInstall, CallInv, Turn, Holds
<1>3. CASE CheckFails(c)
  BY <1>3, CallGoesOn DEF CheckFails
<1>4. CASE Announce(c)
  BY <1>4, CallGoesOn DEF Announce
<1>5. CASE FilesPlaced(c)
  BY <1>5, CallGoesOn DEF FilesPlaced
<1>6. CASE InstallThrows(c)
  BY <1>6, CallGoesOn DEF InstallThrows
<1>7. CASE VerifyFiles(c)
  BY <1>7, Running DEF VerifyFiles, CallInv, Intact, WholeButFor, diskVars, boundVars
<1>8. CASE WriteManifest(c)
  <2>1. CASE cancelled[c]
    BY <1>8, <2>1, CallGoesOn DEF WriteManifest
  <2>2. CASE ~cancelled[c]
    <3>1. manifest'[subject[c]]
      BY <1>8, Running DEF WriteManifest, StoreInv, DiskIsHonest, TypeOK, DiskTypes
    <3> QED
      BY <1>8, <2>2, <3>1, Running DEF WriteManifest, CallInv, WholeButFor, boundVars
  <2> QED
    BY <2>1, <2>2
<1> QED
  BY <1>1, <1>2, <1>3, <1>4, <1>5, <1>6, <1>7, <1>8

\* Reusing, fetching, placing and deleting an artifact end nothing else that is known.
LEMMA FilesKeepCall ==
    ASSUME StoreInv, NEW c \in Call, FileStep(c)
    PROVE  CallInv'
<1> PICK f \in File : ReuseFile(c, f) \/ FetchFile(c, f) \/ PlaceFile(c, f) \/ DeleteFile(c, f)
  BY DEF FileStep
<1>1. CASE ReuseFile(c, f) \/ FetchFile(c, f) \/ PlaceFile(c, f)
  BY <1>1, CallGoesOn DEF ReuseFile, FetchFile, PlaceFile, Goto, leaseVars
<1>2. CASE DeleteFile(c, f)
  BY <1>2, Running DEF DeleteFile, Goto, CallInv, leaseVars
<1> QED
  BY <1>1, <1>2

\* remove begins by asking for leases; every other operation ends where it began.
LEMMA OthersKeepCall ==
    ASSUME StoreInv, NEW c \in Call,
           \/ RemoveRefused(c) \/ Withdraw(c) \/ WithdrawFails(c) \/ Removed(c) \/ DeleteFails(c)
           \/ AcceptLicense(c) \/ Acquire(c) \/ AcquireRefused(c)
    PROVE  CallInv'
<1>1. CASE Withdraw(c)
  BY <1>1 DEF Withdraw, Turn, Holds, Goto, Publish, CallInv, leaseVars, StoreInv, DiskIsHonest, TypeOK, DiskTypes, ProcessTypes
<1> QED
  BY <1>1, CallEnds DEF RemoveRefused, WithdrawFails, Removed, DeleteFails, AcceptLicense, Acquire, AcquireRefused, Answer

\* Nobody else disturbs the running call: a caller that waits has another place in
\* the queue, and no lease of its model is out that could be given back.
LEMMA AroundKeepsCall ==
    ASSUME StoreInv, UserStep \/ (\E c \in Call : LeaseStep(c)) \/ Crash \/ \E m \in Model, f \in File : Tamper(m, f)
    PROVE  CallInv'
<1> USE DEF StoreInv, DiskIsHonest, LeasesProtect
<1>1. CASE \E c \in Call, m \in Model, what \in {"install", "remove", "acceptLicense", "acquire"} : CallStore(c, what, m)
  <2> PICK c \in Call, m \in Model, what \in {"install", "remove", "acceptLicense", "acquire"} : CallStore(c, what, m)
    BY <1>1
  <2>1. SUFFICES ASSUME at # "idle" PROVE CallInv'
    BY CallEnds DEF CallStore
  <2>2. queue # << >> /\ Head(queue) \in Call /\ Head(queue) # c
    BY <2>1, Queues DEF CallStore, CallInv, TypeOK, ProcessTypes
  <2>3. queue' # << >> /\ Head(queue') = Head(queue)
    BY <2>2, Queues DEF CallStore, Enter, TypeOK, ProcessTypes
  <2>4. op'[Head(queue)] = op[Head(queue)] /\ subject'[Head(queue)] = subject[Head(queue)]
    BY <2>2 DEF CallStore, TypeOK, ProcessTypes
  <2> QED
    BY <2>1, <2>3, <2>4 DEF CallStore, CallInv, WholeButFor, diskVars, leaseVars, boundVars
<1>2. CASE \E c \in Call : Cancel(c) \/ ReleaseLease(c)
  BY <1>2 DEF Cancel, ReleaseLease, CallInv, WholeButFor, diskVars, leaseVars, processVars, boundVars
<1>3. CASE \E c \in Call : LeaseStep(c)
  <2> PICK c \in Call : LeaseReleased(c) \/ LeaseReleaseFails(c)
    BY <1>3 DEF LeaseStep
  <2>1. \A m \in Model : leases[m] = 0 => leases'[m] = 0
    BY DEF LeaseReleased, LeaseReleaseFails, TypeOK, LeaseTypes
  <2>2. at # "idle" => subject[Head(queue)] \in Model
    BY Queues DEF CallInv, TypeOK, ProcessTypes
  <2>3. UNCHANGED <<registry, file, manifest, processVars, tampered>>
    BY DEF LeaseReleased, LeaseReleaseFails, Fault, diskVars, boundVars
  <2> QED
    BY <2>1, <2>2, <2>3 DEF CallInv, WholeButFor, processVars
<1>4. CASE Crash
  BY <1>4, CallEnds DEF Crash
<1>5. CASE \E m \in Model, f \in File : Tamper(m, f)
  <2>1. \A m \in Model : WholeButFor(m, tampered) => WholeButFor(m, tampered)'
    BY <1>5 DEF Tamper, WholeButFor, TypeOK, DiskTypes
  <2>2. at # "idle" => subject[Head(queue)] \in Model
    BY Queues DEF CallInv, TypeOK, ProcessTypes
  <2> QED
    BY <1>5, <2>1, <2>2 DEF Tamper, CallInv, processVars, leaseVars
<1> QED
  BY <1>1, <1>2, <1>3, <1>4, <1>5 DEF UserStep

-----------------------------------------------------------------------------
\* The step leaves the files alone and calls no model READY.
Quiet == /\ UNCHANGED <<file, manifest, tampered>>
         /\ \A m \in Model : registry'[m] = "READY" => registry[m] = "READY"

\* A quiet step changes nothing that READY says.
LEMMA QuietSteps ==
    ASSUME ReadyMeansVerified, Quiet
    PROVE  ReadyMeansVerified'
  BY DEF ReadyMeansVerified, Quiet, WholeButFor

\* READY is only published of what was verified, and withdrawn before a file goes.
LEMMA ReadyKept == StoreInv /\ [Next]_vars => ReadyMeansVerified'
<1> SUFFICES ASSUME StoreInv, [Next]_vars PROVE ReadyMeansVerified'
  OBVIOUS
<1> USE DEF StoreInv, DiskIsHonest
<1>1. ASSUME NEW c \in Call,
             \/ InstallRefused(c) \/ StartInstall(c) \/ AlreadyInstalled(c) \/ CheckFails(c)
             \/ Announce(c) \/ AnnounceFails(c) \/ FilesPlaced(c) \/ VerifyFiles(c) \/ MarkFailed(c)
      PROVE  ReadyMeansVerified'
  <2>1. Quiet
    BY <1>1 DEF Quiet, InstallRefused, StartInstall, AlreadyInstalled, CheckFails, Announce, AnnounceFails, FilesPlaced,
                VerifyFiles, MarkFailed, Publish, PublishFails, Fault, diskVars, boundVars, TypeOK, DiskTypes
  <2> QED
    BY <2>1, QuietSteps
<1>2. ASSUME NEW c \in Call,
             \/ RemoveRefused(c) \/ Withdraw(c) \/ WithdrawFails(c) \/ DeleteFails(c)
             \/ AcceptLicense(c) \/ Acquire(c) \/ AcquireRefused(c)
      PROVE  ReadyMeansVerified'
  <2>1. Quiet
    BY <1>2 DEF Quiet, RemoveRefused, Withdraw, WithdrawFails, DeleteFails, AcceptLicense, Acquire, AcquireRefused,
                Publish, PublishFails, Fault, diskVars, boundVars, TypeOK, DiskTypes
  <2> QED
    BY <2>1, QuietSteps
<1>3. ASSUME NEW c \in Call, Offer(c) PROVE ReadyMeansVerified'
  BY <1>3, Running DEF Offer, Publish, ReadyMeansVerified, WholeButFor, boundVars, TypeOK, DiskTypes
<1>4. ASSUME NEW c \in Call, WriteManifest(c) PROVE ReadyMeansVerified'
  BY <1>4 DEF WriteManifest, ReadyMeansVerified, WholeButFor, boundVars, TypeOK, DiskTypes
<1>5. ASSUME NEW c \in Call, InstallThrows(c) PROVE ReadyMeansVerified'
  <2>1. subject[c] \in Model /\ (at = "offer" => WholeButFor(subject[c], tampered) /\ manifest[subject[c]])
    BY <1>5, Running DEF InstallThrows
  <2>2. UNCHANGED <<file, tampered>>
    BY <1>5 DEF InstallThrows, PublishFails, Fault, boundVars
  <2>3. \A m \in Model : manifest[m] => manifest'[m]
    BY <1>5 DEF InstallThrows, TypeOK, DiskTypes
  <2>4. \A m \in Model : registry'[m] = "READY" => registry[m] = "READY" \/ (m = subject[c] /\ at = "offer")
    BY <1>5, <2>1 DEF InstallThrows, PublishFails, Publish, TypeOK, DiskTypes
  <2> QED
    BY <2>1, <2>2, <2>3, <2>4 DEF ReadyMeansVerified, WholeButFor
<1>6. ASSUME NEW c \in Call, FileStep(c) PROVE ReadyMeansVerified'
  <2> PICK f \in File : ReuseFile(c, f) \/ FetchFile(c, f) \/ PlaceFile(c, f) \/ DeleteFile(c, f)
    BY <1>6 DEF FileStep
  <2>1. CASE ReuseFile(c, f) \/ FetchFile(c, f)
    BY <2>1, QuietSteps DEF Quiet, ReuseFile, FetchFile, Fault, diskVars, boundVars
  <2>2. CASE PlaceFile(c, f)
    BY <2>2 DEF PlaceFile, ReadyMeansVerified, WholeButFor, boundVars, TypeOK, DiskTypes
  <2>3. CASE DeleteFile(c, f)
    BY <2>3, Running DEF DeleteFile, ReadyMeansVerified, WholeButFor, boundVars, TypeOK, DiskTypes
  <2> QED
    BY <2>1, <2>2, <2>3
<1>7. ASSUME NEW c \in Call, Removed(c) PROVE ReadyMeansVerified'
  BY <1>7, Running DEF Removed, ReadyMeansVerified, WholeButFor, boundVars, TypeOK, DiskTypes
<1>8. CASE UserStep \/ (\E c \in Call : LeaseStep(c)) \/ Crash
  BY <1>8, QuietSteps DEF Quiet, UserStep, CallStore, Cancel, ReleaseLease, LeaseStep, LeaseReleased, LeaseReleaseFails,
                          Crash, Fault, diskVars, boundVars
<1>9. ASSUME NEW m \in Model, NEW f \in File, Tamper(m, f) PROVE ReadyMeansVerified'
  BY <1>9 DEF Tamper, ReadyMeansVerified, WholeButFor, TypeOK, DiskTypes
<1>10. CASE UNCHANGED vars
  BY <1>10, QuietSteps DEF Quiet, vars, diskVars, boundVars
<1> QED
  BY <1>1, <1>2, <1>3, <1>4, <1>5, <1>6, <1>7, <1>8, <1>9, <1>10 DEF Next, StoreStep

\* Only PlaceFile writes at a final path, and what it moves there was verified.
LEMMA FinalFilesKept == StoreInv /\ [Next]_vars => FinalFilesAreVerified'
<1> SUFFICES ASSUME StoreInv, [Next]_vars PROVE FinalFilesAreVerified'
  OBVIOUS
<1> USE DEF StoreInv, DiskIsHonest, FinalFilesAreVerified
<1>1. ASSUME UNCHANGED <<file, tampered>> PROVE FinalFilesAreVerified'
  BY <1>1
<1>2. ASSUME NEW c \in Call, FileStep(c) PROVE FinalFilesAreVerified'
  BY <1>2 DEF FileStep, ReuseFile, FetchFile, PlaceFile, DeleteFile, Fault, diskVars, boundVars, TypeOK, DiskTypes
<1>3. ASSUME NEW m \in Model, NEW f \in File, Tamper(m, f) PROVE FinalFilesAreVerified'
  BY <1>3 DEF Tamper, TypeOK, DiskTypes
<1>4. ASSUME NEW c \in Call,
             \/ InstallRefused(c) \/ StartInstall(c) \/ AlreadyInstalled(c) \/ CheckFails(c)
             \/ Announce(c) \/ AnnounceFails(c) \/ FilesPlaced(c) \/ VerifyFiles(c)
             \/ WriteManifest(c) \/ Offer(c) \/ InstallThrows(c) \/ MarkFailed(c)
      PROVE  UNCHANGED <<file, tampered>>
  BY <1>4 DEF InstallRefused, StartInstall, AlreadyInstalled, CheckFails, Announce, AnnounceFails, FilesPlaced,
              VerifyFiles, WriteManifest, Offer, InstallThrows, MarkFailed, PublishFails, Fault, diskVars, boundVars
<1>5. ASSUME NEW c \in Call,
             \/ RemoveRefused(c) \/ Withdraw(c) \/ WithdrawFails(c) \/ Removed(c) \/ DeleteFails(c)
             \/ AcceptLicense(c) \/ Acquire(c) \/ AcquireRefused(c)
      PROVE  UNCHANGED <<file, tampered>>
  BY <1>5 DEF RemoveRefused, Withdraw, WithdrawFails, Removed, DeleteFails, AcceptLicense, Acquire, AcquireRefused,
              PublishFails, Fault, diskVars, boundVars
<1>6. CASE UserStep \/ (\E c \in Call : LeaseStep(c)) \/ Crash \/ UNCHANGED vars
  BY <1>1, <1>6 DEF UserStep, CallStore, Cancel, ReleaseLease, LeaseStep, LeaseReleased, LeaseReleaseFails,
                    Crash, Fault, vars, diskVars, boundVars
<1> QED
  BY <1>1, <1>2, <1>3, <1>4, <1>5, <1>6 DEF Next, StoreStep

-----------------------------------------------------------------------------
\* The step hands out and takes back nothing.
LEMMA LeasesAlone ==
    ASSUME UNCHANGED <<lease, leases>>, LeasesCounted
    PROVE  LeasesCounted'
  BY DEF LeasesCounted

\* One lease more or one less, and the counter follows.
LEMMA CountKept == StoreInv /\ [Next]_vars => LeasesCounted'
<1> SUFFICES ASSUME StoreInv, [Next]_vars PROVE LeasesCounted'
  OBVIOUS
<1> USE DEF StoreInv, DiskIsHonest, LeasesProtect
<1> DEFINE Holders(m) == {c \in Call : lease[c] = m}
<1>1. \A m : IsFiniteSet(Holders(m))
  BY FS_Subset, StoreAssumption
<1>2. \A m \in Model : leases[m] = Cardinality(Holders(m))
  BY DEF LeasesCounted
<1>3. ASSUME NEW c \in Call, Acquire(c) PROVE LeasesCounted'
  <2>1. lease[c] = None /\ subject[c] \in Model /\ subject[c] # None
    BY <1>3, StoreAssumption DEF Acquire, Turn, HolderInv, TypeOK, ProcessTypes
  <2>2. \A m \in Model : Holders(m)' = IF m = subject[c] THEN Holders(m) \cup {c} ELSE Holders(m)
    BY <1>3, <2>1, StoreAssumption DEF Acquire, TypeOK, LeaseTypes
  <2>3. c \notin Holders(subject[c])
    BY <2>1
  <2>4. Cardinality(Holders(subject[c]) \cup {c}) = Cardinality(Holders(subject[c])) + 1
    BY <1>1, <2>3, FS_AddElement
  <2> HIDE DEF Holders
  <2>5. \A m \in Model : leases'[m] = Cardinality(Holders(m)')
    BY <1>2, <1>3, <2>1, <2>2, <2>4 DEF Acquire, TypeOK, LeaseTypes
  <2> QED
    BY <2>5 DEF LeasesCounted, Holders
<1>4. ASSUME NEW c \in Call, LeaseReleased(c) PROVE LeasesCounted'
  <2>1. lease[c] \in Model /\ lease[c] # None
    BY <1>4, StoreAssumption DEF LeaseReleased, HolderInv, TypeOK, LeaseTypes
  <2>2. \A m \in Model : Holders(m)' = IF m = lease[c] THEN Holders(m) \ {c} ELSE Holders(m)
    BY <1>4, <2>1, StoreAssumption DEF LeaseReleased, TypeOK, LeaseTypes
  <2>3. c \in Holders(lease[c])
    BY <2>1
  <2>7. IsFiniteSet(Holders(lease[c]))
    BY <1>1
  <2> HIDE DEF Holders
  <2>4. Cardinality(Holders(lease[c]) \ {c}) = Cardinality(Holders(lease[c])) - 1
    BY <2>3, <2>7, FS_RemoveElement
  <2>5. Cardinality(Holders(lease[c])) \in Nat /\ Cardinality(Holders(lease[c])) # 0
    BY <2>3, <2>7, FS_EmptySet, FS_CardinalityType
  <2>6. \A m \in Model : leases'[m] = Cardinality(Holders(m)')
    BY <1>2, <1>4, <2>1, <2>2, <2>4, <2>5 DEF LeaseReleased, TypeOK, LeaseTypes
  <2> QED
    BY <2>6 DEF LeasesCounted, Holders
<1>5. CASE Crash
  <2>1. \A m \in Model : leases'[m] = 0 /\ Holders(m)' = {}
    BY <1>5, StoreAssumption DEF Crash
  <2> QED
    BY <2>1, FS_EmptySet DEF LeasesCounted
<1>6. ASSUME NEW c \in Call,
             \/ InstallRefused(c) \/ StartInstall(c) \/ AlreadyInstalled(c) \/ CheckFails(c)
             \/ Announce(c) \/ AnnounceFails(c) \/ FileStep(c) \/ FilesPlaced(c) \/ VerifyFiles(c)
             \/ WriteManifest(c) \/ Offer(c) \/ InstallThrows(c) \/ MarkFailed(c)
      PROVE  LeasesCounted'
  BY <1>6, LeasesAlone
     DEF InstallRefused, StartInstall, AlreadyInstalled, CheckFails, Announce, AnnounceFails, FileStep, FilesPlaced,
         VerifyFiles, WriteManifest, Offer, InstallThrows, MarkFailed, ReuseFile, FetchFile, PlaceFile, DeleteFile, leaseVars
<1>7. ASSUME NEW c \in Call,
             \/ RemoveRefused(c) \/ Withdraw(c) \/ WithdrawFails(c) \/ Removed(c) \/ DeleteFails(c)
             \/ AcceptLicense(c) \/ AcquireRefused(c) \/ LeaseReleaseFails(c)
      PROVE  LeasesCounted'
  BY <1>7, LeasesAlone
     DEF RemoveRefused, Withdraw, WithdrawFails, Removed, DeleteFails, AcceptLicense, AcquireRefused, LeaseReleaseFails, leaseVars
<1>8. CASE UserStep \/ UNCHANGED vars \/ \E m \in Model, f \in File : Tamper(m, f)
  BY <1>8, LeasesAlone DEF UserStep, CallStore, Cancel, ReleaseLease, Tamper, vars, leaseVars
<1> QED
  BY <1>3, <1>4, <1>5, <1>6, <1>7, <1>8 DEF Next, StoreStep, LeaseStep

\* Who gets a lease has none, and who gives one back has it.
LEMMA HoldersKept == StoreInv /\ [Next]_vars => HolderInv'
<1> SUFFICES ASSUME StoreInv, [Next]_vars PROVE HolderInv'
  OBVIOUS
<1> USE DEF StoreInv, DiskIsHonest, LeasesProtect, HolderInv
<1>1. ASSUME UNCHANGED <<lease, releasing>>, \A d \in Call : op'[d] \in {op[d], "none"}
      PROVE  HolderInv'
  BY <1>1
<1>2. ASSUME NEW c \in Call,
             \/ InstallRefused(c) \/ StartInstall(c) \/ AlreadyInstalled(c) \/ CheckFails(c)
             \/ Announce(c) \/ AnnounceFails(c) \/ FileStep(c) \/ FilesPlaced(c) \/ VerifyFiles(c)
             \/ WriteManifest(c) \/ Offer(c) \/ InstallThrows(c) \/ MarkFailed(c)
      PROVE  UNCHANGED <<lease, releasing>> /\ \A d \in Call : op'[d] \in {op[d], "none"}
  BY <1>2
     DEF InstallRefused, StartInstall, AlreadyInstalled, CheckFails, Announce, AnnounceFails, FileStep, FilesPlaced,
         VerifyFiles, WriteManifest, Offer, InstallThrows, MarkFailed, ReuseFile, FetchFile, PlaceFile, DeleteFile,
         Answer, Goto, leaseVars, TypeOK, ProcessTypes
<1>3. ASSUME NEW c \in Call,
             \/ RemoveRefused(c) \/ Withdraw(c) \/ WithdrawFails(c) \/ Removed(c) \/ DeleteFails(c)
             \/ AcceptLicense(c) \/ AcquireRefused(c)
      PROVE  UNCHANGED <<lease, releasing>> /\ \A d \in Call : op'[d] \in {op[d], "none"}
  BY <1>3 DEF RemoveRefused, Withdraw, WithdrawFails, Removed, DeleteFails, AcceptLicense, AcquireRefused,
              Answer, Goto, leaseVars, TypeOK, ProcessTypes
<1>4. ASSUME NEW c \in Call, Acquire(c) PROVE HolderInv'
  <2>1. op[c] = "acquire" /\ op' = [op EXCEPT ![c] = "none"] /\ lease' = [lease EXCEPT ![c] = subject[c]]
        /\ releasing' = releasing /\ subject[c] # None
    BY <1>4, StoreAssumption DEF Acquire, Turn, Answer, TypeOK, ProcessTypes
  <2> QED
    BY <2>1 DEF TypeOK, ProcessTypes, LeaseTypes
<1>5. ASSUME NEW c \in Call, LeaseStep(c) PROVE HolderInv'
  BY <1>5 DEF LeaseStep, LeaseReleased, LeaseReleaseFails, processVars, TypeOK, LeaseTypes
<1>6. CASE UserStep
  BY <1>6 DEF UserStep, CallStore, Cancel, ReleaseLease, leaseVars, processVars, TypeOK, ProcessTypes
<1>7. CASE Crash
  BY <1>7 DEF Crash
<1>8. CASE UNCHANGED vars \/ \E m \in Model, f \in File : Tamper(m, f)
  BY <1>8 DEF Tamper, vars, processVars, leaseVars
<1> QED
  BY <1>1, <1>2, <1>3, <1>4, <1>5, <1>6, <1>7, <1>8 DEF Next, StoreStep

\* A model is withdrawn, spoiled or published again only while nobody has it.
LEMMA LeasedKept == StoreInv /\ [Next]_vars => LeasedModelStays'
<1> SUFFICES ASSUME StoreInv, [Next]_vars, NEW d \in Call, lease'[d] # None
             PROVE  registry'[lease'[d]] = "READY" /\ \A f \in File : file'[lease'[d]][f] = "good" \/ <<lease'[d], f>> \in tampered'
  BY DEF LeasedModelStays, WholeButFor
<1> USE DEF StoreInv, DiskIsHonest, LeasesProtect
<1> DEFINE Goal == /\ registry'[lease'[d]] = "READY"
                   /\ \A f \in File : file'[lease'[d]][f] = "good" \/ <<lease'[d], f>> \in tampered'
<1>1. ASSUME lease'[d] = lease[d],
             \A m \in Model : leases[m] # 0 =>
                 /\ registry[m] = "READY" => registry'[m] = "READY"
                 /\ \A f \in File : file[m][f] = "good" \/ <<m, f>> \in tampered
                                      => file'[m][f] = "good" \/ <<m, f>> \in tampered'
      PROVE  Goal
  <2>1. lease[d] \in Model /\ leases[lease[d]] # 0
    BY <1>1, NoHolder DEF TypeOK, LeaseTypes
  <2> QED
    BY <1>1, <2>1 DEF LeasedModelStays, WholeButFor
<1>2. ASSUME UNCHANGED <<lease, registry, file, tampered>> PROVE Goal
  BY <1>2 DEF LeasedModelStays, WholeButFor
<1>3. ASSUME NEW c \in Call, NEW where, Runs(c, where), where # "idle", lease' = lease, tampered' = tampered,
             \A m \in Model \ {subject[c]} : registry'[m] = registry[m] /\ file'[m] = file[m]
      PROVE  Goal
  BY <1>1, <1>3, Running DEF WholeButFor
<1>4. ASSUME NEW c \in Call, InstallRefused(c) \/ StartInstall(c) \/ AlreadyInstalled(c) \/ CheckFails(c) \/ VerifyFiles(c)
      PROVE  Goal
  BY <1>2, <1>4 DEF InstallRefused, StartInstall, AlreadyInstalled, CheckFails, VerifyFiles, Fault,
                    diskVars, leaseVars, boundVars
<1>5. ASSUME NEW c \in Call,
             Announce(c) \/ AnnounceFails(c) \/ FilesPlaced(c) \/ WriteManifest(c) \/ Offer(c) \/ InstallThrows(c) \/ MarkFailed(c)
      PROVE  Goal
  <2>1. PICK where : Runs(c, where) /\ where # "idle"
    BY <1>5 DEF Announce, AnnounceFails, FilesPlaced, WriteManifest, Offer, InstallThrows, MarkFailed
  <2>2. lease' = lease /\ tampered' = tampered /\ file' = file
    BY <1>5 DEF Announce, AnnounceFails, FilesPlaced, WriteManifest, Offer, InstallThrows, MarkFailed,
                PublishFails, Fault, leaseVars, boundVars
  <2>3. \A m \in Model \ {subject[c]} : registry'[m] = registry[m]
    BY <1>5 DEF Announce, AnnounceFails, FilesPlaced, WriteManifest, Offer, InstallThrows, MarkFailed,
                Publish, PublishFails, TypeOK, DiskTypes
  <2> QED
    BY <1>3, <2>1, <2>2, <2>3
<1>6. ASSUME NEW c \in Call, NEW f \in File, ReuseFile(c, f) \/ FetchFile(c, f) PROVE Goal
  BY <1>2, <1>6 DEF ReuseFile, FetchFile, Fault, diskVars, leaseVars, boundVars
<1>7. ASSUME NEW c \in Call, NEW f \in File, PlaceFile(c, f) \/ DeleteFile(c, f) PROVE Goal
  <2>1. PICK where : Runs(c, where) /\ where # "idle"
    BY <1>7 DEF PlaceFile, DeleteFile
  <2>2. lease' = lease /\ tampered' = tampered /\ registry' = registry
    BY <1>7 DEF PlaceFile, DeleteFile, leaseVars, boundVars
  <2>3. \A m \in Model \ {subject[c]} : file'[m] = file[m]
    BY <1>7 DEF PlaceFile, DeleteFile, TypeOK, DiskTypes
  <2> QED
    BY <1>3, <2>1, <2>2, <2>3
<1>8. ASSUME NEW c \in Call,
             RemoveRefused(c) \/ Removed(c) \/ DeleteFails(c) \/ AcceptLicense(c) \/ AcquireRefused(c) \/ LeaseReleaseFails(c)
      PROVE  Goal
  BY <1>2, <1>8 DEF RemoveRefused, Removed, DeleteFails, AcceptLicense, AcquireRefused, LeaseReleaseFails,
                    Fault, diskVars, leaseVars, boundVars
<1>9. ASSUME NEW c \in Call, Withdraw(c) \/ WithdrawFails(c) PROVE Goal
  BY <1>1, <1>9 DEF Withdraw, WithdrawFails, Publish, PublishFails, Fault, WholeButFor, leaseVars, boundVars,
                    TypeOK, DiskTypes
<1>10. ASSUME NEW c \in Call, Acquire(c) PROVE Goal
  <2>1. UNCHANGED <<registry, file, tampered>> /\ lease'[d] \in {lease[d], subject[c]}
    BY <1>10 DEF Acquire, diskVars, boundVars, TypeOK, LeaseTypes
  <2>2. registry[subject[c]] = "READY" /\ WholeButFor(subject[c], tampered)
    BY <1>10 DEF Acquire, Intact, WholeButFor
  <2> QED
    BY <2>1, <2>2 DEF LeasedModelStays, WholeButFor
<1>11. ASSUME NEW c \in Call, LeaseReleased(c) PROVE Goal
  <2>1. UNCHANGED <<registry, file, tampered>> /\ lease'[d] = lease[d]
    BY <1>11 DEF LeaseReleased, diskVars, boundVars, TypeOK, LeaseTypes
  <2> QED
    BY <2>1 DEF LeasedModelStays, WholeButFor
<1>12. CASE UserStep \/ UNCHANGED vars
  BY <1>2, <1>12 DEF UserStep, CallStore, Cancel, ReleaseLease, diskVars, leaseVars, boundVars, vars
<1>13. CASE Crash
  BY <1>13 DEF Crash
<1>14. ASSUME NEW m \in Model, NEW f \in File, Tamper(m, f) PROVE Goal
  BY <1>1, <1>14 DEF Tamper, WholeButFor, leaseVars, TypeOK, DiskTypes
<1> QED
  BY <1>4, <1>5, <1>6, <1>7, <1>8, <1>9, <1>10, <1>11, <1>12, <1>13, <1>14 DEF Next, StoreStep, FileStep, LeaseStep

-----------------------------------------------------------------------------
\* An empty root.
LEMMA InitStore == Init => StoreInv
<1> SUFFICES ASSUME Init PROVE StoreInv
  OBVIOUS
<1> USE StoreAssumption DEF Init
<1>1. TypeOK
  BY DEF TypeOK, DiskTypes, ProcessTypes, LeaseTypes, BoundTypes
<1>2. LeasesCounted
  <2>1. \A m \in Model : {c \in Call : lease[c] = m} = {} /\ leases[m] = 0
    OBVIOUS
  <2> QED
    BY <2>1, FS_EmptySet DEF LeasesCounted
<1> QED
  BY <1>1, <1>2 DEF StoreInv, DiskIsHonest, LeasesProtect, ReadyMeansVerified, FinalFilesAreVerified, CallInv,
                    LeasedModelStays, HolderInv

\* The running call's knowledge and the lease counter keep each other true.
LEMMA StoreInvKept == StoreInv /\ [Next]_vars => StoreInv'
<1> SUFFICES ASSUME StoreInv, [Next]_vars PROVE StoreInv'
  OBVIOUS
<1>1. CallInv'
  <2>1. CASE UNCHANGED vars
    BY <2>1 DEF StoreInv, DiskIsHonest, CallInv, WholeButFor, vars, diskVars, processVars, leaseVars, boundVars
  <2> QED
    BY <2>1, InstallKeepsCall, FilesKeepCall, OthersKeepCall, AroundKeepsCall DEF Next, StoreStep
<1>2. TypeOK'
  BY TypesKept DEF StoreInv, DiskIsHonest
<1> QED
  BY <1>1, <1>2, ReadyKept, FinalFilesKept, CountKept, HoldersKept, LeasedKept DEF StoreInv, DiskIsHonest, LeasesProtect

\* Hence it always holds.
LEMMA StoreIsInductive == Spec => []StoreInv
  BY InitStore, StoreInvKept, PTL DEF Spec

\* Whatever fails, whenever the process dies, for any number of models, artifacts
\* and callers: READY is said of complete, verified models only, and what stands at
\* a final path was verified (publish(), provision() and remove() of store.ts).
THEOREM DiskAlwaysHonest == Spec => []DiskIsHonest
<1>1. StoreInv => DiskIsHonest
  BY DEF StoreInv
<1> QED
  BY <1>1, StoreIsInductive, PTL

\* Applications keep what they leased, and the counter is the number of leases out,
\* for any number of callers (acquire() and the release of its lease in store.ts).
THEOREM LeasesAlwaysProtect == Spec => []LeasesProtect
<1>1. StoreInv => LeasesProtect
  BY DEF StoreInv
<1> QED
  BY <1>1, StoreIsInductive, PTL

-----------------------------------------------------------------------------
\* Every step of the store is an offer, a withdrawal, a use or a return of one
\* model, the end of all uses, or invisible.
LEMMA CatalogStep == StoreInv /\ Next => [Catalog!Next]_(Catalog!vars)
<1> SUFFICES ASSUME StoreInv, Next PROVE [Catalog!Next]_(Catalog!vars)
  OBVIOUS
<1> USE DEF StoreInv, DiskIsHonest, LeasesProtect
<1> DEFINE Goal == [Catalog!Next]_(Catalog!vars)
           Offered == {m \in Model : registry[m] = "READY"}
<1>1. ASSUME UNCHANGED <<registry, leases>> PROVE Goal
  BY <1>1 DEF Catalog!vars
<1>2. ASSUME NEW m \in Model, NEW state, leases[m] = 0, leases' = leases, registry' = [registry EXCEPT ![m] = state]
      PROVE  Goal
  <2>1. CASE state = "READY"
    <3>1. Offered' = Offered \cup {m}
      BY <1>2, <2>1 DEF TypeOK, DiskTypes
    <3> QED
      BY <1>2, <3>1 DEF Catalog!Offer, Catalog!Next
  <2>2. CASE state # "READY"
    <3>1. Offered' = Offered \ {m}
      BY <1>2, <2>2 DEF TypeOK, DiskTypes
    <3> QED
      BY <1>2, <3>1 DEF Catalog!Withdraw, Catalog!Next
  <2> QED
    BY <2>1, <2>2
<1>3. ASSUME NEW c \in Call,
             Announce(c) \/ AnnounceFails(c) \/ FilesPlaced(c) \/ Offer(c) \/ InstallThrows(c) \/ MarkFailed(c)
      PROVE  Goal
  <2>1. PICK where : Runs(c, where) /\ where # "idle"
    BY <1>3 DEF Announce, AnnounceFails, FilesPlaced, Offer, InstallThrows, MarkFailed
  <2>2. subject[c] \in Model /\ leases[subject[c]] = 0
    BY <2>1, Running
  <2>3. leases' = leases /\ ((\E state : Publish(subject[c], state)) \/ UNCHANGED registry)
    BY <1>3 DEF Announce, AnnounceFails, FilesPlaced, Offer, InstallThrows, MarkFailed, PublishFails, leaseVars
  <2> QED
    BY <1>1, <1>2, <2>2, <2>3 DEF Publish
<1>4. ASSUME NEW c \in Call, Withdraw(c) \/ WithdrawFails(c) PROVE Goal
  BY <1>1, <1>2, <1>4 DEF Withdraw, WithdrawFails, PublishFails, Publish, leaseVars, TypeOK, ProcessTypes
<1>5. ASSUME NEW c \in Call, Acquire(c) PROVE Goal
  <2>1. subject[c] \in Offered /\ leases' = [leases EXCEPT ![subject[c]] = @ + 1] /\ Offered' = Offered
    BY <1>5 DEF Acquire, diskVars, TypeOK, ProcessTypes
  <2> QED
    BY <2>1 DEF Catalog!Use, Catalog!Next
<1>6. ASSUME NEW c \in Call, LeaseReleased(c) PROVE Goal
  <2>1. lease[c] \in Model /\ leases[lease[c]] # 0
    BY <1>6, NoHolder DEF LeaseReleased, HolderInv, TypeOK, LeaseTypes
  <2>2. leases[lease[c]] > 0
    BY <2>1 DEF TypeOK, LeaseTypes
  <2>3. leases' = [leases EXCEPT ![lease[c]] = @ - 1] /\ Offered' = Offered
    BY <1>6, <2>2 DEF LeaseReleased, diskVars
  <2> QED
    BY <2>1, <2>2, <2>3 DEF Catalog!Return, Catalog!Next
<1>7. ASSUME Crash PROVE Goal
  BY <1>7 DEF Crash, diskVars, Catalog!Restart, Catalog!Next
<1>8. ASSUME NEW c \in Call,
             \/ InstallRefused(c) \/ StartInstall(c) \/ AlreadyInstalled(c) \/ CheckFails(c)
             \/ FileStep(c) \/ VerifyFiles(c) \/ WriteManifest(c)
      PROVE  Goal
  BY <1>1, <1>8 DEF InstallRefused, StartInstall, AlreadyInstalled, CheckFails, FileStep, VerifyFiles, WriteManifest,
                    ReuseFile, FetchFile, PlaceFile, DeleteFile, diskVars, leaseVars
<1>9. ASSUME NEW c \in Call,
             \/ RemoveRefused(c) \/ Removed(c) \/ DeleteFails(c) \/ AcceptLicense(c) \/ AcquireRefused(c)
             \/ LeaseReleaseFails(c)
      PROVE  Goal
  BY <1>1, <1>9 DEF RemoveRefused, Removed, DeleteFails, AcceptLicense, AcquireRefused, LeaseReleaseFails, diskVars, leaseVars
<1>10. ASSUME UserStep \/ \E m \in Model, f \in File : Tamper(m, f) PROVE Goal
  BY <1>1, <1>10 DEF UserStep, CallStore, Cancel, ReleaseLease, Tamper, diskVars, leaseVars
<1> HIDE DEF Goal
<1>11. ASSUME StoreStep PROVE Goal
  BY <1>3, <1>4, <1>5, <1>8, <1>9, <1>11 DEF StoreStep
<1>12. Goal
  BY <1>6, <1>7, <1>9, <1>10, <1>11 DEF Next, LeaseStep
<1> QED
  BY <1>12 DEF Goal

\* A model is offered or it is not, it is used only while it is offered, and it is
\* never withdrawn from under a user: the store implements ModelCatalog.
THEOREM StoreRespectsCatalog == Spec => CatalogRespected
<1>1. Init => Catalog!Init
  BY DEF Init, Catalog!Init
<1>2. StoreInv /\ [Next]_vars => [Catalog!Next]_(Catalog!vars)
  <2>1. ASSUME UNCHANGED vars PROVE UNCHANGED Catalog!vars
    BY <2>1 DEF vars, diskVars, leaseVars, Catalog!vars
  <2> QED
    BY <2>1, CatalogStep
<1> QED
  BY <1>1, <1>2, StoreIsInductive, PTL DEF Spec, CatalogRespected, Catalog!Spec
=============================================================================
