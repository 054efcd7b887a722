------------------------ MODULE HubModelStoreProofs ------------------------
(***************************************************************************)
(* For any number of models, artifacts and callers, on either platform and *)
(* through any rejected operations, deaths and damage: a READY record of   *)
(* an open store has its artifacts, what was hashed is intact, and no      *)
(* mutation touches a file that inference has open.                        *)
(***************************************************************************)
EXTENDS HubModelStore, TLAPS

\* The queue, of callers, after one has entered or left it.
LEMMA Queues ==
    ASSUME NEW q \in Seq(Call), NEW c \in Call
    PROVE  /\ Append(q, c) \in Seq(Call)
           /\ q # << >> => Tail(q) \in Seq(Call) /\ Head(q) \in Call
           /\ q # << >> => Append(q, c) # << >> /\ Head(Append(q, c)) = Head(q)
  OBVIOUS

----------------------------------------------------------------------------
(* Types.                                                                  *)

\* What a step of a call may do to the queue and to the history.
CallTypes == /\ queue \in Seq(Call) /\ at \in Steps /\ todo \subseteq File /\ current \subseteq todo
             /\ op \in [Call -> {"none", "download", "delete", "verify"}]
             /\ subject \in [Call -> Model] /\ aborted \in [Call -> BOOLEAN]

RecordTypes == /\ stored \in [Model -> States] /\ registry \in [Model -> States]
               /\ opening \in {"closed", "reading", "repairing", "open"}
               /\ verified \subseteq Model

FileTypes == /\ file \in [Model -> [File -> {"absent", "good", "bad", "short"}]]
             /\ part \in [Model -> [File -> 0 .. Spoiled]]
             /\ offset \in [Model -> [File -> 0 .. Spoiled]]
             /\ ledger \in [Model -> {"absent", "torn", "ok"}]

HistoryTypes == /\ halfDeleted \subseteq Model
                /\ damaged \in [Model -> {"no", "now", "past"}]
                /\ faults \in 0 .. MaxFaults /\ crashes \in 0 .. MaxCrashes

HubTypes == /\ platform \in Platform /\ gate \in {"free", "store", "inference"}
            /\ used \in Model \cup {None}

\* The type invariant, before and after a step, part by part.
LEMMA Types ==
    /\ TypeOK <=> CallTypes /\ RecordTypes /\ FileTypes /\ HistoryTypes /\ HubTypes
    /\ TypeOK' <=> CallTypes' /\ RecordTypes' /\ FileTypes' /\ HistoryTypes' /\ HubTypes'
  BY DEF TypeOK, CallTypes, RecordTypes, FileTypes, HistoryTypes, HubTypes

\* One artifact's entry changes, or all those of a model.
LEMMA WithinType ==
    ASSUME NEW S, NEW g \in [Model -> [File -> S]], NEW m \in Model
    PROVE  /\ \A f \in File, v \in S : [g EXCEPT ![m][f] = v] \in [Model -> [File -> S]]
           /\ \A h \in [File -> S] : [g EXCEPT ![m] = h] \in [Model -> [File -> S]]
  OBVIOUS

\* A rejected operation is counted.
LEMMA FaultTypes == HistoryTypes /\ Fault => HistoryTypes'
  BY HubStoreAssumption DEF HistoryTypes, Fault

\* The three ways a call goes on.
LEMMA CallMoves ==
    ASSUME CallTypes, NEW c \in Call,
           \/ Holds(queue, c) /\ Answer(c)
           \/ \E step \in Steps, files \in SUBSET File : Goto(step, files)
           \/ UNCHANGED calls
    PROVE  CallTypes'
<1>1. CASE Holds(queue, c) /\ Answer(c)
  BY <1>1, Queues DEF CallTypes, Holds, Answer, Leave, Steps
<1>2. CASE \E step \in Steps, files \in SUBSET File : Goto(step, files)
  BY <1>2 DEF CallTypes, Goto
<1>3. CASE UNCHANGED calls
  BY <1>3 DEF CallTypes, calls
<1> QED
  BY <1>1, <1>2, <1>3

\* The record of a model moves on, on disk and in memory or, rejected, on disk alone.
LEMMA PublishTypes ==
    ASSUME RecordTypes, NEW m \in Model, NEW state \in States,
           Publish(m, state) \/ PublishFails(m, state)
    PROVE  stored' \in [Model -> States] /\ registry' \in [Model -> States]
  BY DEF RecordTypes, Publish, PublishFails, With

\* download(): the steps that change no file, then those that do.
DownloadTalks(c) ==
    \/ DownloadRefused(c) \/ StartDownload(c) \/ Announce(c) \/ StartVerify(c)
    \/ PublishReady(c) \/ Interrupted(c) \/ Fail(c)
    \/ \E f \in File : TransferEnds(c, f) \/ CheckPart(c, f) \/ Verify(c, f)

DownloadWrites(c) ==
    \/ ReadLedger(c) \/ FillLedger(c)
    \/ \E f \in File : \/ Reuse(c, f) \/ StartTransfer(c, f) \/ Receive(c, f)
                       \/ Pause(c, f) \/ Place(c, f) \/ Record(c, f)

\* These are the steps of download().
LEMMA DownloadSteps == \A c \in Call : Download(c) => DownloadTalks(c) \/ DownloadWrites(c)
  BY DEF Download, DownloadTalks, DownloadWrites

\* The types, through the steps of download() that change no file.
LEMMA TalkTypes ==
    ASSUME TypeOK, NEW c \in Call, DownloadTalks(c)
    PROVE  TypeOK'
<1> USE Types
<1>1. FileTypes'
  BY DEF FileTypes, DownloadTalks, DownloadRefused, StartDownload, Announce, StartVerify, PublishReady, MovesOn,
         Interrupted, Fail, TransferEnds, CheckPart, Verify, disk
<1>2. HistoryTypes'
  <2>1. Fault \/ UNCHANGED history
    BY DEF DownloadTalks, DownloadRefused, StartDownload, Announce, StartVerify, PublishReady, MovesOn,
           PublishFails, Interrupted, Fail, TransferEnds, CheckPart, Verify
  <2> QED
    BY <2>1, FaultTypes DEF HistoryTypes, history
<1>3. HubTypes'
  BY DEF HubTypes, DownloadTalks, DownloadRefused, StartDownload, Announce, StartVerify, PublishReady, MovesOn,
         Interrupted, Fail, TransferEnds, CheckPart, Verify, CloseGate, hub
<1>4. RecordTypes'
  <2>1. \/ UNCHANGED <<disk, memory>>
        \/ /\ \E state \in States : Publish(subject[c], state) \/ PublishFails(subject[c], state)
           /\ opening' = opening /\ verified' \in {verified, verified \cup {subject[c]}}
    BY DEF DownloadTalks, DownloadRefused, StartDownload, Announce, StartVerify, PublishReady, MovesOn,
           Interrupted, Fail, TransferEnds, CheckPart, Verify, States
  <2>2. subject[c] \in Model
    BY DEF CallTypes
  <2>3. CASE UNCHANGED <<disk, memory>>
    BY <2>3 DEF RecordTypes, disk, memory
  <2>4. CASE ~UNCHANGED <<disk, memory>>
    BY <2>1, <2>2, <2>4, PublishTypes DEF RecordTypes
  <2> QED
    BY <2>3, <2>4
<1>5. CallTypes'
  <2>1. CASE \E f \in File : TransferEnds(c, f) \/ CheckPart(c, f)
    BY <2>1 DEF CallTypes, TransferEnds, CheckPart, Steps, Transfer
  <2>2. CASE \E f \in File : Verify(c, f)
    BY <2>2, CallMoves DEF CallTypes, Verify, Steps, Transfer
  <2>3. CASE \/ DownloadRefused(c) \/ StartDownload(c) \/ Announce(c) \/ StartVerify(c)
             \/ PublishReady(c) \/ Interrupted(c) \/ Fail(c)
    <3>1. \/ Holds(queue, c) /\ Answer(c)
          \/ \E step \in Steps, files \in SUBSET File : Goto(step, files)
      BY <2>3 DEF DownloadRefused, StartDownload, Announce, StartVerify, PublishReady, MovesOn,
             Interrupted, Fail, Turn, Runs, Steps, Transfer
    <3> QED
      BY <3>1, CallMoves
  <2> QED
    BY <2>1, <2>2, <2>3 DEF DownloadTalks
<1> QED
  BY <1>1, <1>2, <1>3, <1>4, <1>5

\* The types, through the steps that write the ledger or a file.
LEMMA WriteTypes ==
    ASSUME TypeOK, NEW c \in Call, DownloadWrites(c)
    PROVE  TypeOK'
<1> USE Types
<1>1. subject[c] \in Model
  BY DEF CallTypes
<1>2. RecordTypes' /\ HubTypes'
  BY DEF RecordTypes, HubTypes, DownloadWrites, ReadLedger, FillLedger, Reuse, StartTransfer, Receive, Pause,
         Place, Record, memory, hub
<1>3. HistoryTypes'
  <2>1. Fault \/ UNCHANGED history
    BY DEF DownloadWrites, ReadLedger, FillLedger, Reuse, StartTransfer, Receive, Pause, Place, Record
  <2> QED
    BY <2>1, FaultTypes DEF HistoryTypes, history
<1>4. CallTypes'
  <2>1. CASE \E f \in File : StartTransfer(c, f) \/ Place(c, f)
    BY <2>1 DEF CallTypes, StartTransfer, Place, Steps, Transfer
  <2>2. CASE ReadLedger(c) \/ FillLedger(c)
    <3>1. \E step \in Steps, files \in SUBSET File : Goto(step, files)
      BY <2>2 DEF ReadLedger, FillLedger, Steps, Transfer
    <3> QED
      BY <3>1, CallMoves
  <2>3. CASE \E f \in File : Reuse(c, f) \/ Receive(c, f) \/ Pause(c, f) \/ Record(c, f)
    <3>1. \/ \E step \in Steps, files \in SUBSET File : Goto(step, files)
          \/ UNCHANGED calls
      BY <2>3 DEF CallTypes, Reuse, Receive, Pause, Record, Steps, Transfer
    <3> QED
      BY <3>1, CallMoves
  <2> QED
    BY <2>1, <2>2, <2>3 DEF DownloadWrites
<1>5. FileTypes'
  <2> USE <1>1
  <2>1. CASE ReadLedger(c) \/ FillLedger(c)
    BY <2>1 DEF FileTypes, ReadLedger, FillLedger
  <2>2. ASSUME NEW f \in File, Reuse(c, f) \/ Record(c, f) \/ Pause(c, f)
        PROVE  FileTypes'
    <3>1. offset' = offset \/ \E k \in 0 .. Spoiled : offset' = [offset EXCEPT ![subject[c]][f] = k]
      <4>1. 0 \in 0 .. Spoiled /\ part[subject[c]][f] \in 0 .. Spoiled
        BY DEF FileTypes, Spoiled
      <4>2. \/ offset' = offset \/ offset' = [offset EXCEPT ![subject[c]][f] = 0]
            \/ offset' = [offset EXCEPT ![subject[c]][f] = part[subject[c]][f]]
        BY <2>2 DEF Reuse, Record, Pause
      <4> QED
        BY <4>1, <4>2
    <3>2. offset' \in [Model -> [File -> 0 .. Spoiled]]
      <4>1. ASSUME NEW k \in 0 .. Spoiled, offset' = [offset EXCEPT ![subject[c]][f] = k]
            PROVE  offset' \in [Model -> [File -> 0 .. Spoiled]]
        BY <4>1, WithinType DEF FileTypes
      <4> QED
        BY <3>1, <4>1 DEF FileTypes
    <3> QED
      BY <2>2, <3>2 DEF FileTypes, Reuse, Record, Pause
  <2>3. ASSUME NEW f \in File, StartTransfer(c, f) \/ Receive(c, f)
        PROVE  FileTypes'
    <3>1. \E k \in 0 .. Spoiled : part' = [part EXCEPT ![subject[c]][f] = k]
      <4>1. CASE StartTransfer(c, f)
        <5>1. 0 \in 0 .. Spoiled /\ Spoiled \in 0 .. Spoiled /\ part[subject[c]][f] \in 0 .. Spoiled
          BY DEF FileTypes, Spoiled
        <5>2. part' = [part EXCEPT ![subject[c]][f] =
                           IF offset[subject[c]][f] = 0 THEN 0
                           ELSE IF offset[subject[c]][f] = part[subject[c]][f] THEN part[subject[c]][f]
                           ELSE Spoiled]
          BY <4>1 DEF StartTransfer, FileTypes
        <5> QED
          BY <5>1, <5>2
      <4>2. CASE Receive(c, f)
        <5>1. part[subject[c]][f] + 1 \in 0 .. Spoiled /\ Spoiled \in 0 .. Spoiled
          BY <4>2 DEF Receive, Spoiled
        <5>2. \/ part' = [part EXCEPT ![subject[c]][f] = part[subject[c]][f] + 1]
              \/ part' = [part EXCEPT ![subject[c]][f] = Spoiled]
          BY <4>2 DEF Receive, FileTypes
        <5> QED
          BY <5>1, <5>2
      <4> QED
        BY <2>3, <4>1, <4>2
    <3>2. part' \in [Model -> [File -> 0 .. Spoiled]]
      BY <3>1, WithinType DEF FileTypes
    <3> QED
      BY <2>3, <3>2 DEF FileTypes, StartTransfer, Receive
  <2>4. ASSUME NEW f \in File, Place(c, f)
        PROVE  FileTypes'
    <3>1. part' \in [Model -> [File -> 0 .. Spoiled]]
      BY <2>4, WithinType DEF FileTypes, Place, Spoiled
    <3>2. file' \in [Model -> [File -> {"absent", "good", "bad", "short"}]]
      BY <2>4, WithinType DEF FileTypes, Place
    <3> QED
      BY <2>4, <3>1, <3>2 DEF FileTypes, Place
  <2> QED
    BY <2>1, <2>2, <2>3, <2>4 DEF DownloadWrites
<1> QED
  BY <1>2, <1>3, <1>4, <1>5

\* The types, through delete(), verifyReadyModel() and the way out.
LEMMA OtherTypes ==
    ASSUME TypeOK, NEW c \in Call, Delete(c) \/ VerifyReadyModel(c) \/ Leaves(c)
    PROVE  TypeOK'
<1> USE Types
<1> USE DEF Delete, VerifyReadyModel
<1>1. subject[c] \in Model
  BY DEF CallTypes
<1>2. FileTypes'
  <2>1. CASE Erase(c)
    <3>1. PICK files \in SUBSET File : Gone(subject[c], files)
      BY <2>1 DEF Erase
    <3>2. /\ [f \in File |-> IF f \in files THEN "absent" ELSE file[subject[c]][f]]
                \in [File -> {"absent", "good", "bad", "short"}]
          /\ [f \in File |-> IF f \in files THEN 0 ELSE part[subject[c]][f]] \in [File -> 0 .. Spoiled]
          /\ [f \in File |-> 0] \in [File -> 0 .. Spoiled]
      BY <1>1 DEF FileTypes, Spoiled
    <3>3. /\ file' \in [Model -> [File -> {"absent", "good", "bad", "short"}]]
          /\ part' \in [Model -> [File -> 0 .. Spoiled]]
      BY <1>1, <3>1, <3>2, WithinType DEF FileTypes, Gone
    <3>4. ledger' \in [Model -> {"absent", "torn", "ok"}]
      BY <1>1, <2>1 DEF FileTypes, Erase
    <3>5. offset' \in [Model -> [File -> 0 .. Spoiled]]
      <4>1. offset' = offset \/ offset' = [offset EXCEPT ![subject[c]] = [f \in File |-> 0]]
        BY <2>1 DEF Erase
      <4>2. [offset EXCEPT ![subject[c]] = [f \in File |-> 0]] \in [Model -> [File -> 0 .. Spoiled]]
        BY <1>1, <3>2 DEF FileTypes
      <4> QED
        BY <4>1, <4>2 DEF FileTypes
    <3> QED
      BY <3>3, <3>4, <3>5 DEF FileTypes
  <2>2. CASE ~Erase(c)
    BY <2>2 DEF FileTypes, DeleteRefused, StartDelete, Forget, VerifyAnswered, VerifyPasses, VerifyFails, Demote,
           Leaves, disk
  <2> QED
    BY <2>1, <2>2
<1>3. HistoryTypes'
  <2>1. Fault => HistoryTypes'
    BY FaultTypes
  <2>2. UNCHANGED <<damaged, faults, crashes>> /\ halfDeleted' \subseteq Model => HistoryTypes'
    BY DEF HistoryTypes
  <2> QED
    BY <1>1, <2>1, <2>2 DEF HistoryTypes, DeleteRefused, StartDelete, Erase, Forget, VerifyAnswered, VerifyPasses,
           VerifyFails, Demote, Leaves, PublishFails, history
<1>4. HubTypes'
  BY DEF HubTypes, DeleteRefused, StartDelete, Erase, Forget, VerifyAnswered, VerifyPasses, VerifyFails, Demote,
         Leaves, CloseGate, hub
<1>5. RecordTypes'
  <2>1. CASE Forget(c) \/ Demote(c)
    BY <1>1, <2>1, PublishTypes DEF RecordTypes, Forget, Demote, States
  <2>2. CASE ~(Forget(c) \/ Demote(c))
    BY <1>1, <2>2 DEF RecordTypes, DeleteRefused, StartDelete, Erase, VerifyAnswered, VerifyPasses, VerifyFails,
           Leaves, disk, memory
  <2> QED
    BY <2>1, <2>2
<1>6. CallTypes'
  <2>1. \/ Holds(queue, c) /\ Answer(c)
        \/ \E step \in Steps, files \in SUBSET File : Goto(step, files)
    BY DEF DeleteRefused, StartDelete, Erase, Forget, VerifyAnswered, VerifyPasses, VerifyFails, Demote, Leaves,
           Turn, Runs, Steps, Transfer, Removal
  <2> QED
    BY <2>1, CallMoves
<1> QED
  BY <1>2, <1>3, <1>4, <1>5, <1>6

\* The types, through initialize().
LEMMA InitializeTypes == TypeOK /\ Initialize => TypeOK'
<1> SUFFICES ASSUME TypeOK, Initialize PROVE TypeOK'
  OBVIOUS
<1> USE Types
<1> USE DEF Initialize
<1>1. FileTypes' /\ HubTypes'
  BY DEF FileTypes, HubTypes, OpenStore, ReadRegistry, StoreIsOpen, OpenFails, Repair, disk, hub
<1>2. HistoryTypes'
  <2>1. Fault \/ UNCHANGED history
    BY DEF OpenStore, ReadRegistry, StoreIsOpen, OpenFails, Repair, PublishFails
  <2> QED
    BY <2>1, FaultTypes DEF HistoryTypes, history
<1>3. RecordTypes'
  <2>1. ASSUME NEW m \in Model, Publish(m, "FAILED") \/ PublishFails(m, "FAILED")
        PROVE  stored' \in [Model -> States] /\ registry' \in [Model -> States]
    BY <2>1, PublishTypes DEF States
  <2> QED
    BY <2>1 DEF RecordTypes, OpenStore, ReadRegistry, StoreIsOpen, OpenFails, Repair, disk
<1>4. CallTypes'
  <2>1. CASE queue # << >> /\ Answer(Head(queue))
    <3>1. Head(queue) \in Call /\ Holds(queue, Head(queue))
      BY <2>1, Queues DEF CallTypes, Holds
    <3> QED
      BY <2>1, <3>1, CallMoves
  <2>2. CASE UNCHANGED calls
    BY <2>2 DEF CallTypes, calls
  <2> QED
    BY <2>1, <2>2 DEF OpenStore, ReadRegistry, StoreIsOpen, OpenFails, Repair
<1> QED
  BY <1>1, <1>2, <1>3, <1>4

\* The rest of the world: callers, inference, damage and the death of the process.
Outside ==
    \/ \E c \in Call, m \in Model : \E what \in {"download", "delete", "verify"} : CallStore(c, what, m)
    \/ \E c \in Call : Abort(c)
    \/ \E m \in Model : StartInference(m)
    \/ EndInference
    \/ \E m \in Model, f \in File : Damage(m, f)
    \/ Crash

\* The types, through the rest of the world.
LEMMA OutsideTypes == TypeOK /\ Outside => TypeOK'
<1> SUFFICES ASSUME TypeOK, Outside PROVE TypeOK'
  OBVIOUS
<1> USE Types
<1>1. ASSUME NEW c \in Call, NEW m \in Model, NEW what \in {"download", "delete", "verify"}, CallStore(c, what, m)
      PROVE  TypeOK'
  <2>1. CallTypes'
    BY <1>1, Queues DEF CallTypes, CallStore, Enter
  <2> QED
    BY <1>1, <2>1 DEF RecordTypes, FileTypes, HistoryTypes, HubTypes, CallStore, disk, memory, hub, history
<1>2. CASE \E c \in Call : Abort(c)
  BY <1>2 DEF CallTypes, RecordTypes, FileTypes, HistoryTypes, HubTypes, Abort, disk, memory, hub, history
<1>3. CASE EndInference \/ \E m \in Model : StartInference(m)
  BY <1>3 DEF CallTypes, RecordTypes, FileTypes, HistoryTypes, HubTypes, StartInference, EndInference,
         disk, memory, calls, history
<1>4. ASSUME NEW m \in Model, NEW f \in File, Damage(m, f)
      PROVE  TypeOK'
  <2>1. file' \in [Model -> [File -> {"absent", "good", "bad", "short"}]]
    BY <1>4, WithinType DEF FileTypes, Damage
  <2>2. HistoryTypes'
    BY <1>4 DEF HistoryTypes, Damage
  <2> QED
    BY <1>4, <2>1, <2>2 DEF FileTypes, CallTypes, RecordTypes, HubTypes, Damage, memory, calls, hub
<1>5. CASE Crash
  <2>1. CallTypes' /\ RecordTypes'
    BY <1>5 DEF CallTypes, RecordTypes, Crash, Steps, States, disk
  <2>2. HistoryTypes'
    BY <1>5, HubStoreAssumption DEF HistoryTypes, Crash
  <2> QED
    BY <1>5, <2>1, <2>2 DEF FileTypes, HubTypes, Crash, disk
<1> QED
  BY <1>1, <1>2, <1>3, <1>4, <1>5 DEF Outside

\* Every step, as the lemmas take them apart.
LEMMA NextSteps ==
    Next => \/ Initialize \/ Outside
            \/ \E c \in Call : \/ DownloadTalks(c) \/ DownloadWrites(c)
                               \/ Delete(c) \/ VerifyReadyModel(c) \/ Leaves(c)
  BY DownloadSteps DEF Next, Serve, Outside

\* The type invariant is kept.
LEMMA TypesKept == TypeOK /\ [Next]_vars => TypeOK'
<1> SUFFICES ASSUME TypeOK, [Next]_vars PROVE TypeOK'
  OBVIOUS
<1>1. CASE Next
  BY <1>1, NextSteps, TalkTypes, WriteTypes, OtherTypes, InitializeTypes, OutsideTypes
<1>2. CASE UNCHANGED vars
  BY <1>2 DEF TypeOK, vars, disk, memory, calls, hub, history
<1> QED
  BY <1>1, <1>2

----------------------------------------------------------------------------
(* The gate.                                                               *)

\* The inductive invariant.
StoreInv == RecordsMatchFiles /\ VerifiedMeansIntact

\* A step that writes files runs while the gate is the store's, and so while no
\* model is open for inference.
LEMMA MutationIsAlone ==
    ASSUME StoreInv, at \in Transfer \cup Removal \cup {"leave"}
    PROVE  used = None
  BY HubStoreAssumption DEF StoreInv, RecordsMatchFiles, TypeOK, GateHeldByMutation, InferenceInv

\* Both sides of the coordinator, through a step of the store.
LEMMA GateKeptByStore ==
    ASSUME StoreInv, NEW c \in Call,
           DownloadTalks(c) \/ DownloadWrites(c) \/ Delete(c) \/ VerifyReadyModel(c) \/ Leaves(c)
    PROVE  GateHeldByMutation' /\ InferenceInv'
<1> USE DEF StoreInv, RecordsMatchFiles, GateHeldByMutation, InferenceInv, Steps, Transfer, Removal
<1>1. platform \in {"android", "ios"} /\ at \in Steps /\ gate \in {"free", "store", "inference"}
  BY HubStoreAssumption DEF TypeOK
<1>2. CASE DownloadTalks(c)
  <2>1. CASE DownloadRefused(c) \/ StartDownload(c)
    BY <1>1, <2>1 DEF DownloadRefused, StartDownload, Turn, Runs, Answer, Goto, GateOpens, CloseGate, hub
  <2>2. CASE Announce(c) \/ StartVerify(c) \/ PublishReady(c) \/ Interrupted(c) \/ Fail(c)
    BY <1>1, <2>2 DEF Announce, StartVerify, PublishReady, Interrupted, Fail, MovesOn, Runs, Goto, hub
  <2>3. CASE \E f \in File : TransferEnds(c, f) \/ CheckPart(c, f) \/ Verify(c, f)
    BY <1>1, <2>3 DEF TransferEnds, CheckPart, Verify, Runs, Goto, hub
  <2> QED
    BY <1>2, <2>1, <2>2, <2>3 DEF DownloadTalks
<1>3. CASE DownloadWrites(c)
  BY <1>1, <1>3 DEF DownloadWrites, ReadLedger, FillLedger, Reuse, StartTransfer, Receive, Pause, Place, Record,
         Runs, Goto, hub, calls
<1>4. CASE Delete(c)
  BY <1>1, <1>4 DEF Delete, DeleteRefused, StartDelete, Erase, Forget, Turn, Runs, Answer, Goto, GateOpens,
         CloseGate, hub
<1>5. CASE VerifyReadyModel(c) \/ Leaves(c)
  BY <1>1, <1>5 DEF VerifyReadyModel, VerifyAnswered, VerifyPasses, VerifyFails, Demote, Leaves, Turn, Runs,
         Answer, Goto, hub
<1> QED
  BY <1>2, <1>3, <1>4, <1>5

\* Both sides of the coordinator, through any step.
LEMMA GateKept == StoreInv /\ [Next]_vars => GateHeldByMutation' /\ InferenceInv'
<1> SUFFICES ASSUME StoreInv, [Next]_vars PROVE GateHeldByMutation' /\ InferenceInv'
  OBVIOUS
<1> USE DEF StoreInv, RecordsMatchFiles, GateHeldByMutation, InferenceInv, Steps, Transfer, Removal
<1>1. /\ platform \in {"android", "ios"} /\ gate \in {"free", "store", "inference"}
      /\ None \notin Model
  BY HubStoreAssumption DEF TypeOK
<1>2. CASE Initialize
  <2>1. opening # "open" => at = "enter"
    BY DEF CallInv
  <2>2. UNCHANGED hub /\ (at' = at \/ (opening # "open" /\ at' = "enter"))
    BY <1>2 DEF Initialize, OpenStore, ReadRegistry, StoreIsOpen, OpenFails, Repair, Answer, calls
  <2>3. at' = at
    BY <2>1, <2>2
  <2> QED
    BY <2>2, <2>3 DEF hub
<1>3. CASE Outside
  <2>1. CASE \/ \E c \in Call, m \in Model : \E what \in {"download", "delete", "verify"} : CallStore(c, what, m)
             \/ \E c \in Call : Abort(c)
             \/ \E m \in Model, f \in File : Damage(m, f)
    BY <2>1 DEF CallStore, Abort, Damage, calls, hub
  <2>2. CASE \E m \in Model : StartInference(m)
    BY <1>1, <2>2 DEF StartInference, calls
  <2>3. CASE EndInference \/ Crash
    BY <1>1, <2>3 DEF EndInference, Crash, calls
  <2> QED
    BY <1>3, <2>1, <2>2, <2>3 DEF Outside
<1>4. CASE UNCHANGED vars
  BY <1>4 DEF vars, calls, hub
<1> QED
  BY <1>2, <1>3, <1>4, NextSteps, GateKeptByStore

----------------------------------------------------------------------------
(* What the running call relies on.                                        *)

\* The head of the queue is a call.
LEMMA Running ==
    ASSUME TypeOK, NEW c, Holds(queue, c)
    PROVE  c \in Call /\ c = Head(queue) /\ queue # << >> /\ subject[c] \in Model
  BY DEF TypeOK, Holds

\* A call that answers leaves the calls behind it as they were.
LEMMA CallEnds ==
    ASSUME TypeOK, QueueInv, NEW c \in Call, Holds(queue, c), Answer(c)
    PROVE  QueueInv'
<1>1. /\ Len(queue') = Len(queue) - 1 /\ Len(queue) \in Nat
      /\ \A i \in 1 .. Len(queue') : i + 1 \in 1 .. Len(queue) /\ i + 1 # 1 /\ queue'[i] = queue[i + 1]
      /\ 1 \in 1 .. Len(queue) /\ queue[1] = c
  BY DEF TypeOK, Answer, Leave, Holds
<1>2. \A d \in Call : d # c => op'[d] = op[d]
  BY DEF TypeOK, Answer
<1>3. \A i \in 1 .. Len(queue) : queue[i] \in Call
  BY DEF TypeOK
<1> SUFFICES ASSUME NEW i \in 1 .. Len(queue'), NEW j \in 1 .. Len(queue')
             PROVE  op'[queue'[i]] # "none" /\ (queue'[i] = queue'[j] => i = j)
  BY DEF QueueInv
<1>4. queue[i + 1] # c
  BY <1>1 DEF QueueInv
<1>5. queue[i + 1] = queue[j + 1] => i = j
  <2>1. queue[i + 1] = queue[j + 1] => i + 1 = j + 1
    BY <1>1 DEF QueueInv
  <2> QED
    BY <2>1
<1> QED
  BY <1>1, <1>2, <1>3, <1>4, <1>5 DEF QueueInv

\* A new call waits behind the others; it was not among them.
LEMMA CallEnters ==
    ASSUME TypeOK, QueueInv, NEW c \in Call, NEW m \in Model, NEW what \in {"download", "delete", "verify"},
           CallStore(c, what, m)
    PROVE  /\ QueueInv' /\ queue' # << >>
           /\ queue # << >> => /\ Head(queue') = Head(queue) /\ Head(queue) # c
                              /\ subject'[Head(queue)] = subject[Head(queue)] /\ op'[Head(queue)] = op[Head(queue)]
<1>1. /\ Len(queue') = Len(queue) + 1 /\ Len(queue) \in Nat /\ queue'[Len(queue) + 1] = c
      /\ \A i \in 1 .. Len(queue) : queue'[i] = queue[i] /\ queue[i] \in Call
  BY DEF TypeOK, CallStore, Enter
<1>2. \A i \in 1 .. Len(queue) : queue[i] # c
  BY DEF QueueInv, CallStore
<1>3. op' = [op EXCEPT ![c] = what] /\ subject' = [subject EXCEPT ![c] = m]
  BY DEF CallStore
<1>4. QueueInv'
  <2> SUFFICES ASSUME NEW i \in 1 .. Len(queue'), NEW j \in 1 .. Len(queue')
               PROVE  op'[queue'[i]] # "none" /\ (queue'[i] = queue'[j] => i = j)
    BY DEF QueueInv
  <2>1. /\ i \in 1 .. Len(queue) \/ i = Len(queue) + 1
        /\ j \in 1 .. Len(queue) \/ j = Len(queue) + 1
    BY <1>1
  <2>2. op'[queue'[i]] # "none"
    BY <1>1, <1>2, <1>3, <2>1 DEF TypeOK, QueueInv
  <2>3. queue'[i] = queue'[j] => i = j
    BY <1>1, <1>2, <2>1 DEF QueueInv
  <2> QED
    BY <2>2, <2>3
<1>5. queue' # << >>
  BY <1>1
<1>6. queue # << >> => /\ Head(queue') = Head(queue) /\ Head(queue) # c
                       /\ subject'[Head(queue)] = subject[Head(queue)] /\ op'[Head(queue)] = op[Head(queue)]
  <2> SUFFICES ASSUME queue # << >> PROVE /\ Head(queue') = Head(queue) /\ Head(queue) # c
                       /\ subject'[Head(queue)] = subject[Head(queue)] /\ op'[Head(queue)] = op[Head(queue)]
    OBVIOUS
  <2>1. 1 \in 1 .. Len(queue) /\ Head(queue) = queue[1] /\ Head(queue) \in Call
    BY DEF TypeOK
  <2>2. Head(queue') = Head(queue)
    BY Queues DEF CallStore, TypeOK, Enter
  <2> QED
    BY <1>2, <1>3, <2>1, <2>2 DEF TypeOK
<1> QED
  BY <1>4, <1>5, <1>6

\* A call answered, there is nothing the next one relies on yet.
LEMMA AnswerKeepsCall ==
    ASSUME TypeOK, CallInv, NEW c \in Call, Holds(queue, c), Answer(c),
           opening' = "open" \/ verified' = {}
    PROVE  CallInv'
<1>1. QueueInv'
  BY CallEnds DEF CallInv
<1>2. at' = "enter" /\ todo' = {} /\ current' = {}
  BY DEF Answer
<1> QED
  BY <1>1, <1>2 DEF CallInv, Transfer, Removal

\* The running call goes on to its next step, having established what that one relies on.
LEMMA StepKeepsCall ==
    ASSUME TypeOK, CallInv, NEW c \in Call, Holds(queue, c), opening = "open", opening' = "open",
           UNCHANGED <<queue, op, subject>>,
           \A f, g \in current' : f = g,
           at' \in Transfer =>
               /\ op[c] = "download" /\ registry'[subject[c]] # "READY"
               /\ at' \in {"verify", "publish"} /\ damaged'[subject[c]] # "now" =>
                     \A f \in File \ todo' : file'[subject[c]][f] = "good"
               /\ at' = "publish" => todo' = {}
               /\ at' = "place" => \A f \in current' : part'[subject[c]][f] = Full,
           at' \in Removal => op[c] = "delete" /\ subject[c] \in halfDeleted',
           at' = "demote" => op[c] = "verify"
    PROVE  CallInv'
<1>1. /\ Head(queue) = c /\ queue # << >> /\ queue' = queue /\ op' = op /\ subject' = subject
      /\ Head(queue') = Head(queue)
  BY DEF Holds
<1>2. QueueInv'
  BY <1>1 DEF CallInv, QueueInv
<1> QED
  BY <1>1, <1>2 DEF CallInv

\* download(), the steps that change no file.
LEMMA TalkKeepsCall ==
    ASSUME TypeOK, CallInv, NEW c \in Call, DownloadTalks(c)
    PROVE  CallInv'
<1>0. Holds(queue, c) /\ c = Head(queue) /\ subject[c] \in Model
  BY Running DEF DownloadTalks, DownloadRefused, StartDownload, Announce, StartVerify, PublishReady, Interrupted,
         Fail, TransferEnds, CheckPart, Verify, Turn, Runs
<1>1. CASE DownloadRefused(c)
  <2>1. Answer(c) /\ opening' = "open"
    BY <1>1 DEF DownloadRefused, Turn, memory
  <2> QED
    BY <1>0, <2>1, AnswerKeepsCall
<1> SUFFICES ASSUME ~DownloadRefused(c) PROVE CallInv'
  BY <1>1
<1>2. opening = "open"
  BY DEF CallInv, DownloadTalks, StartDownload, Announce, StartVerify, PublishReady, Interrupted, Fail,
         TransferEnds, CheckPart, Verify, Turn, Runs, Transfer
<1>3. opening' = "open" /\ UNCHANGED <<queue, op, subject, file, part, damaged>>
  BY <1>2 DEF DownloadTalks, StartDownload, Announce, StartVerify, PublishReady, MovesOn, Interrupted, Fail,
         TransferEnds, CheckPart, Verify, PublishFails, Fault, Goto, memory, disk, history
<1>4. \A f, g \in current' : f = g
  BY DEF CallInv, DownloadTalks, StartDownload, Announce, StartVerify, PublishReady, MovesOn, Interrupted, Fail,
         TransferEnds, CheckPart, Verify, Goto
<1>5. op[c] = "download"
  BY <1>0 DEF CallInv, DownloadTalks, StartDownload, Announce, StartVerify, PublishReady, Interrupted, Fail,
         TransferEnds, CheckPart, Verify, Turn, Runs, Transfer
<1>6. at' \in Transfer \cup {"leave"}
  BY <1>0 DEF DownloadTalks, StartDownload, Announce, StartVerify, PublishReady, MovesOn, Interrupted, Fail,
         TransferEnds, CheckPart, Verify, Goto, Transfer
<1>7. at' \in Transfer => registry'[subject[c]] # "READY"
  <2>1. CASE StartDownload(c)
    BY <2>1 DEF StartDownload, memory
  <2>2. CASE Announce(c) \/ StartVerify(c)
    BY <1>0, <2>2 DEF TypeOK, CallInv, Announce, StartVerify, MovesOn, Publish, PublishFails, With, Runs, Transfer
  <2>3. CASE PublishReady(c) \/ Fail(c)
    BY <1>0, <2>3 DEF CallInv, PublishReady, Fail, MovesOn, PublishFails, Runs, Goto, Transfer
  <2>4. CASE \/ Interrupted(c) \/ \E f \in File : TransferEnds(c, f) \/ CheckPart(c, f) \/ Verify(c, f)
    BY <1>0, <2>4 DEF CallInv, Interrupted, TransferEnds, CheckPart, Verify, Runs, Transfer, memory
  <2> QED
    BY <2>1, <2>2, <2>3, <2>4 DEF DownloadTalks
<1>8. /\ at' \in {"verify", "publish"} /\ damaged[subject[c]] # "now" =>
            \A f \in File \ todo' : file[subject[c]][f] = "good"
      /\ at' = "publish" => todo' = {}
  <2>1. CASE StartVerify(c)
    BY <2>1 DEF StartVerify, MovesOn, Goto
  <2>2. ASSUME NEW f \in File, Verify(c, f)
        PROVE  /\ at' \in {"verify", "publish"} /\ damaged[subject[c]] # "now" =>
                     \A g \in File \ todo' : file[subject[c]][g] = "good"
               /\ at' = "publish" => todo' = {}
    <3>1. at = "verify" /\ (damaged[subject[c]] # "now" => \A g \in File \ todo : file[subject[c]][g] = "good")
      BY <1>0, <2>2 DEF CallInv, Verify, Runs, Transfer
    <3> QED
      BY <2>2, <3>1 DEF Verify, Goto
  <2>3. CASE \/ StartDownload(c) \/ Announce(c) \/ PublishReady(c) \/ Interrupted(c) \/ Fail(c)
             \/ \E f \in File : TransferEnds(c, f) \/ CheckPart(c, f)
    BY <2>3 DEF StartDownload, Announce, PublishReady, Interrupted, Fail, TransferEnds, CheckPart, MovesOn, Goto
  <2> QED
    BY <2>1, <2>2, <2>3 DEF DownloadTalks
<1>9. at' = "place" => \A f \in current' : part[subject[c]][f] = Full
  <2>1. ASSUME NEW f \in File, CheckPart(c, f), at' = "place"
        PROVE  \A g \in current' : part[subject[c]][g] = Full
    BY <2>1 DEF CallInv, CheckPart
  <2>2. CASE ~\E f \in File : CheckPart(c, f)
    BY <2>2 DEF DownloadTalks, StartDownload, Announce, StartVerify, PublishReady, Interrupted, Fail, TransferEnds,
           Verify, MovesOn, Goto
  <2> QED
    BY <2>1, <2>2
<1> QED
  BY <1>0, <1>2, <1>3, <1>4, <1>5, <1>6, <1>7, <1>8, <1>9, StepKeepsCall DEF Transfer, Removal

\* download(), the steps that write the ledger or a file.
LEMMA WriteKeepsCall ==
    ASSUME TypeOK, CallInv, NEW c \in Call, DownloadWrites(c)
    PROVE  CallInv'
<1> USE DEF DownloadWrites, ReadLedger, FillLedger, Reuse, StartTransfer, Receive, Pause, Place, Record
<1>0. Holds(queue, c) /\ c = Head(queue) /\ subject[c] \in Model
  BY Running DEF Runs
<1>1. at \in {"ledger", "fillLedger", "files", "transfer", "place", "record"}
  BY DEF Runs
<1>2. opening = "open" /\ op[c] = "download" /\ registry[subject[c]] # "READY"
  BY <1>0, <1>1 DEF CallInv, Transfer
<1>3. UNCHANGED <<queue, op, subject, registry, opening, halfDeleted>>
  BY DEF Goto, Fault, memory, calls, history
<1>4. at' \in {"files", "fillLedger", "fail", "transfer", "record"}
  BY DEF Goto, Runs, calls
<1>5. \A f, g \in current' : f = g
  BY DEF CallInv, Goto, calls
<1> QED
  BY <1>0, <1>2, <1>3, <1>4, <1>5, StepKeepsCall DEF Removal

\* delete(), verifyReadyModel() and the way out.
LEMMA OthersKeepCall ==
    ASSUME TypeOK, CallInv, NEW c \in Call, Delete(c) \/ VerifyReadyModel(c) \/ Leaves(c)
    PROVE  CallInv'
<1> USE DEF Delete, VerifyReadyModel
<1>0. Holds(queue, c) /\ c = Head(queue) /\ subject[c] \in Model
  BY Running DEF DeleteRefused, StartDelete, Erase, Forget, VerifyAnswered, VerifyPasses, VerifyFails, Demote,
         Leaves, Turn, Runs
<1>1. opening = "open"
  BY DEF CallInv, DeleteRefused, StartDelete, Erase, Forget, VerifyAnswered, VerifyPasses, VerifyFails, Demote,
         Leaves, Turn, Runs
<1>2. opening' = "open"
  BY <1>1 DEF DeleteRefused, StartDelete, Erase, Forget, VerifyAnswered, VerifyPasses, VerifyFails, Demote,
         Leaves, memory
<1>3. CASE DeleteRefused(c) \/ VerifyAnswered(c) \/ VerifyPasses(c) \/ Demote(c) \/ Leaves(c)
  <2>1. Answer(c)
    BY <1>3 DEF DeleteRefused, VerifyAnswered, VerifyPasses, Demote, Leaves
  <2> QED
    BY <1>0, <1>2, <2>1, AnswerKeepsCall
<1>4. CASE StartDelete(c) \/ Erase(c)
  <2>1. UNCHANGED <<queue, op, subject>> /\ current' = {} /\ at' \in {"erase", "forget", "leave"}
    BY <1>4 DEF StartDelete, Erase, Goto
  <2>2. op[c] = "delete" /\ subject[c] \in halfDeleted'
    BY <1>0, <1>4 DEF CallInv, StartDelete, Erase, Turn, Runs, Fault, Removal, history
  <2> QED
    BY <1>0, <1>1, <1>2, <2>1, <2>2, StepKeepsCall DEF Transfer, Removal
<1>5. CASE Forget(c) \/ VerifyFails(c)
  <2>1. UNCHANGED <<queue, op, subject>> /\ current' = {}
    BY <1>5 DEF Forget, VerifyFails, Goto
  <2>2. at' = "leave" \/ (at' = "demote" /\ op[c] = "verify")
    BY <1>5 DEF Forget, VerifyFails, Goto, Turn
  <2> QED
    BY <1>0, <1>1, <1>2, <2>1, <2>2, StepKeepsCall DEF Transfer, Removal
<1> QED
  BY <1>3, <1>4, <1>5

\* What the running call relies on holds through every step.
LEMMA CallKept == TypeOK /\ CallInv /\ [Next]_vars => CallInv'
<1> SUFFICES ASSUME TypeOK, CallInv, [Next]_vars PROVE CallInv'
  OBVIOUS
<1>1. CASE Initialize
  <2>1. opening # "open" /\ at = "enter" /\ verified' = {}
    BY <1>1 DEF CallInv, Initialize, OpenStore, ReadRegistry, StoreIsOpen, OpenFails, Repair
  <2>2. CASE queue # << >> /\ Answer(Head(queue))
    <3>1. Head(queue) \in Call /\ Holds(queue, Head(queue))
      BY <2>2 DEF TypeOK, Holds
    <3> QED
      BY <2>1, <2>2, <3>1, AnswerKeepsCall
  <2>3. CASE UNCHANGED calls
    BY <2>1, <2>3 DEF CallInv, QueueInv, calls, Transfer, Removal
  <2> QED
    BY <1>1, <2>2, <2>3 DEF Initialize, OpenStore, ReadRegistry, StoreIsOpen, OpenFails, Repair
<1>2. ASSUME NEW c \in Call, NEW m \in Model, NEW what \in {"download", "delete", "verify"}, CallStore(c, what, m)
      PROVE  CallInv'
  <2>1. /\ QueueInv' /\ queue' # << >>
        /\ queue # << >> => /\ Head(queue') = Head(queue)
                           /\ subject'[Head(queue)] = subject[Head(queue)] /\ op'[Head(queue)] = op[Head(queue)]
    BY <1>2, CallEnters DEF CallInv
  <2>2. UNCHANGED <<at, todo, current, registry, opening, verified, damaged, file, part, halfDeleted>>
    BY <1>2 DEF CallStore, disk, memory, history
  <2>3. CASE at = "enter"
    BY <2>1, <2>2, <2>3 DEF CallInv, Transfer, Removal
  <2>4. CASE at # "enter"
    <3>1. queue # << >>
      BY <2>4 DEF CallInv
    <3> QED
      BY <2>1, <2>2, <3>1 DEF CallInv
  <2> QED
    BY <2>3, <2>4
<1>3. CASE \/ \E c \in Call : Abort(c)
           \/ \E m \in Model : StartInference(m)
           \/ EndInference \/ UNCHANGED vars
  <2>1. /\ UNCHANGED <<queue, op, subject, at, todo, current, registry, opening, verified>>
        /\ UNCHANGED <<damaged, file, part, halfDeleted>>
    BY <1>3 DEF Abort, StartInference, EndInference, vars, disk, memory, calls, history
  <2> QED
    BY <2>1 DEF CallInv, QueueInv
<1>4. ASSUME NEW m \in Model, NEW f \in File, Damage(m, f)
      PROVE  CallInv'
  <2>1. UNCHANGED <<queue, op, subject, at, todo, current, registry, opening, verified, part, halfDeleted>>
    BY <1>4 DEF Damage, memory, calls
  <2>2. \A n \in Model : damaged'[n] # "now" => n # m
    BY <1>4 DEF Damage, TypeOK
  <2>3. \A n \in Model : n # m => damaged'[n] = damaged[n] /\ file'[n] = file[n]
    BY <1>4 DEF Damage, TypeOK
  <2>4. at \in Transfer => subject[Head(queue)] \in Model
    BY DEF CallInv, TypeOK, Transfer
  <2> QED
    BY <2>1, <2>2, <2>3, <2>4 DEF CallInv, QueueInv
<1>5. CASE Crash
  <2>1. queue' = << >> /\ at' = "enter" /\ current' = {} /\ verified' = {} /\ todo' = {}
    BY <1>5 DEF Crash
  <2>2. QueueInv'
    BY <2>1 DEF QueueInv
  <2> QED
    BY <2>1, <2>2 DEF CallInv, Transfer, Removal
<1> QED
  BY <1>1, <1>2, <1>3, <1>4, <1>5, NextSteps, TalkKeepsCall, WriteKeepsCall, OthersKeepCall DEF Outside

----------------------------------------------------------------------------
(* What becomes of the files.                                              *)

\* Three steps change files: the placing of a download, a deletion, and damage.
LEMMA FilesMove ==
    ASSUME StoreInv, [Next]_vars
    PROVE  \/ file' = file
           \/ \E c \in Call, f \in File : Place(c, f)
           \/ \E c \in Call : Erase(c)
           \/ \E m \in Model, f \in File : Damage(m, f)
<1>1. CASE \/ Initialize
           \/ \E c \in Call, m \in Model : \E what \in {"download", "delete", "verify"} : CallStore(c, what, m)
           \/ \E c \in Call : Abort(c) \/ VerifyReadyModel(c) \/ Leaves(c)
           \/ \E m \in Model : StartInference(m)
           \/ EndInference \/ Crash \/ UNCHANGED vars
  BY <1>1 DEF Initialize, OpenStore, ReadRegistry, StoreIsOpen, OpenFails, Repair, CallStore, Abort,
         VerifyReadyModel, VerifyAnswered, VerifyPasses, VerifyFails, Demote, Leaves, StartInference,
         EndInference, Crash, disk, vars
<1>2. ASSUME NEW c \in Call, DownloadTalks(c)
      PROVE  file' = file
  BY <1>2 DEF DownloadTalks, DownloadRefused, StartDownload, Announce, StartVerify, PublishReady, MovesOn,
         Interrupted, Fail, TransferEnds, CheckPart, Verify, disk
<1>3. ASSUME NEW c \in Call, DownloadWrites(c), ~\E f \in File : Place(c, f)
      PROVE  file' = file
  BY <1>3 DEF DownloadWrites, ReadLedger, FillLedger, Reuse, StartTransfer, Receive, Pause, Record
<1>4. ASSUME NEW c \in Call, Delete(c), ~Erase(c)
      PROVE  file' = file
  BY <1>4 DEF Delete, DeleteRefused, StartDelete, Forget, disk
<1> QED
  BY <1>1, <1>2, <1>3, <1>4, NextSteps DEF Outside

\* A download places files only of a model that is not READY, and verified ones.
LEMMA Placing ==
    ASSUME StoreInv, NEW c \in Call, NEW f \in File, Place(c, f)
    PROVE  /\ subject[c] \in Model /\ registry[subject[c]] # "READY" /\ used = None
           /\ file' = [file EXCEPT ![subject[c]][f] = "good"] /\ damaged' = damaged
<1>1. c = Head(queue) /\ at = "place" /\ subject[c] \in Model
  BY Running DEF Place, Runs, StoreInv, RecordsMatchFiles
<1>2. registry[subject[c]] # "READY" /\ part[subject[c]][f] = Full
  BY <1>1 DEF Place, StoreInv, RecordsMatchFiles, CallInv, Transfer
<1>3. used = None
  BY <1>1, MutationIsAlone DEF Transfer
<1> QED
  BY <1>1, <1>2, <1>3 DEF Place, history

\* A deletion takes files only of a model it has marked as half deleted.
LEMMA Erasing ==
    ASSUME StoreInv, NEW c \in Call, Erase(c)
    PROVE  /\ subject[c] \in halfDeleted /\ used = None /\ damaged' = damaged
           /\ \A m \in Model : m # subject[c] => file'[m] = file[m]
           /\ \A m \in Model, f \in File : file'[m][f] \in {"absent", file[m][f]}
<1>1. c = Head(queue) /\ at = "erase" /\ subject[c] \in Model
  BY Running DEF Erase, Runs, StoreInv, RecordsMatchFiles
<1>2. subject[c] \in halfDeleted
  BY <1>1 DEF StoreInv, RecordsMatchFiles, CallInv, Removal
<1>3. used = None
  BY <1>1, MutationIsAlone DEF Removal
<1>4. damaged' = damaged
  BY DEF Erase, Fault, history
<1>5. PICK files \in SUBSET File :
          file' = [file EXCEPT ![subject[c]] = [f \in File |-> IF f \in files THEN "absent" ELSE file[subject[c]][f]]]
  BY DEF Erase, Gone
<1>6. file \in [Model -> [File -> {"absent", "good", "bad", "short"}]]
  BY DEF StoreInv, RecordsMatchFiles, TypeOK
<1> QED
  BY <1>1, <1>2, <1>3, <1>4, <1>5, <1>6

\* Damage is remembered, and spares the model inference has open.
LEMMA Damaging ==
    ASSUME StoreInv, NEW m \in Model, NEW f \in File, Damage(m, f)
    PROVE  /\ damaged'[m] = "now" /\ used # m
           /\ \A n \in Model : n # m => file'[n] = file[n] /\ damaged'[n] = damaged[n]
  BY DEF Damage, StoreInv, RecordsMatchFiles, TypeOK

\* Damage is new, or as it was, or from before the process that now begins.
LEMMA DamageMoves ==
    ASSUME StoreInv, [Next]_vars
    PROVE  \/ damaged' = damaged \/ \E m \in Model, f \in File : Damage(m, f)
           \/ Crash
<1>1. CASE \/ Initialize
           \/ \E c \in Call, m \in Model : \E what \in {"download", "delete", "verify"} : CallStore(c, what, m)
           \/ \E c \in Call : Abort(c) \/ VerifyReadyModel(c) \/ Leaves(c) \/ Delete(c)
           \/ \E m \in Model : StartInference(m)
           \/ EndInference \/ UNCHANGED vars
  BY <1>1 DEF Initialize, OpenStore, ReadRegistry, StoreIsOpen, OpenFails, Repair, CallStore, Abort, Delete,
         DeleteRefused, StartDelete, Erase, Forget, VerifyReadyModel, VerifyAnswered, VerifyPasses, VerifyFails,
         Demote, Leaves, StartInference, EndInference, PublishFails, Fault, history, vars
<1>2. ASSUME NEW c \in Call, DownloadTalks(c)
      PROVE  damaged' = damaged
  BY <1>2 DEF DownloadTalks, DownloadRefused, StartDownload, Announce, StartVerify, PublishReady, MovesOn,
         PublishFails, Interrupted, Fail, TransferEnds, CheckPart, Verify, Fault, history
<1>3. ASSUME NEW c \in Call, DownloadWrites(c)
      PROVE  damaged' = damaged
  BY <1>3 DEF DownloadWrites, ReadLedger, FillLedger, Reuse, StartTransfer, Receive, Pause, Place, Record, Fault,
         history
<1> QED
  BY <1>1, <1>2, <1>3, NextSteps DEF Outside

\* Where nobody damages anything, nothing unverified reaches a final path.
LEMMA FinalFilesKept == StoreInv /\ [Next]_vars => FinalFilesAreVerified'
<1> SUFFICES ASSUME StoreInv, [Next]_vars, NEW m \in Model, NEW f \in File, damaged'[m] = "no"
             PROVE  file'[m][f] \in {"absent", "good"}
  BY DEF FinalFilesAreVerified
<1>1. damaged[m] = "no"
  <2>1. CASE Crash
    BY <2>1 DEF Crash
  <2> QED
    BY <2>1, DamageMoves, Damaging
<1>2. file[m][f] \in {"absent", "good"}
  BY <1>1 DEF StoreInv, RecordsMatchFiles, FinalFilesAreVerified
<1>3. ASSUME NEW c \in Call, NEW g \in File, Place(c, g)
      PROVE  file'[m][f] \in {"absent", "good"}
  <2>1. file \in [Model -> [File -> {"absent", "good", "bad", "short"}]]
    BY DEF StoreInv, RecordsMatchFiles, TypeOK
  <2>2. subject[c] \in Model /\ file' = [file EXCEPT ![subject[c]][g] = "good"]
    BY <1>3, Placing
  <2>3. file'[m][f] = "good" \/ file'[m][f] = file[m][f]
    BY <2>1, <2>2
  <2> QED
    BY <1>2, <2>3
<1>4. ASSUME NEW c \in Call, Erase(c)
      PROVE  file'[m][f] \in {"absent", "good"}
  BY <1>2, <1>4, Erasing
<1>5. ASSUME NEW n \in Model, NEW g \in File, Damage(n, g)
      PROVE  file'[m][f] \in {"absent", "good"}
  BY <1>2, <1>5, Damaging
<1> QED
  BY <1>2, <1>3, <1>4, <1>5, FilesMove

\* The artifacts of a READY record, not half deleted, change only by damage.
LEMMA ReadyFilesStay ==
    ASSUME StoreInv, [Next]_vars, ~Crash, NEW m \in Model,
           registry[m] = "READY", m \notin halfDeleted, damaged'[m] # "now"
    PROVE  file'[m] = file[m] /\ damaged'[m] = damaged[m]
<1>1. damaged'[m] = damaged[m]
  BY DamageMoves, Damaging
<1>2. ASSUME NEW c \in Call, NEW g \in File, Place(c, g)
      PROVE  file'[m] = file[m]
  BY <1>2, Placing DEF StoreInv, RecordsMatchFiles, TypeOK
<1>3. ASSUME NEW c \in Call, Erase(c)
      PROVE  file'[m] = file[m]
  BY <1>3, Erasing
<1>4. ASSUME NEW n \in Model, NEW g \in File, Damage(n, g)
      PROVE  file'[m] = file[m]
  BY <1>4, Damaging
<1> QED
  BY <1>1, <1>2, <1>3, <1>4, FilesMove

----------------------------------------------------------------------------
(* What the record says.                                                   *)

\* A record of an open store becomes READY in one way, when all has been hashed.
LEMMA BecomesReady ==
    ASSUME StoreInv, [Next]_vars, opening = "open", NEW m \in Model,
           registry[m] # "READY", registry'[m] = "READY"
    PROVE  UNCHANGED <<file, damaged>> /\ (damaged[m] # "now" => Intact(m))
<1>0. registry \in [Model -> States]
  BY DEF StoreInv, RecordsMatchFiles, TypeOK
<1>1. ~Initialize
  BY DEF Initialize, OpenStore, ReadRegistry, StoreIsOpen, OpenFails, Repair
<1>2. ~Outside /\ ~UNCHANGED vars
  BY DEF Outside, CallStore, Abort, StartInference, EndInference, Damage, Crash, memory, vars
<1>3. PICK c \in Call : DownloadTalks(c) \/ DownloadWrites(c) \/ Delete(c) \/ VerifyReadyModel(c) \/ Leaves(c)
  BY <1>1, <1>2, NextSteps
<1>4. ~(DownloadWrites(c) \/ Delete(c) \/ VerifyReadyModel(c) \/ Leaves(c))
  BY <1>0 DEF DownloadWrites, ReadLedger, FillLedger, Reuse, StartTransfer, Receive, Pause, Place, Record, Delete,
         DeleteRefused, StartDelete, Erase, Forget, VerifyReadyModel, VerifyAnswered, VerifyPasses, VerifyFails,
         Demote, Leaves, Publish, PublishFails, With, memory
<1>5. PublishReady(c) /\ registry' = With(subject[c], "READY")
  BY <1>0, <1>3, <1>4 DEF DownloadTalks, DownloadRefused, StartDownload, Announce, StartVerify, PublishReady,
         MovesOn, Interrupted, Fail, TransferEnds, CheckPart, Verify, Publish, PublishFails, With, memory
<1>6. c = Head(queue) /\ at = "publish" /\ subject[c] = m
  BY <1>0, <1>5, Running DEF PublishReady, Runs, With, StoreInv, RecordsMatchFiles
<1>7. damaged[m] # "now" => Intact(m)
  BY <1>6 DEF StoreInv, RecordsMatchFiles, CallInv, Transfer, Intact
<1>8. UNCHANGED <<file, damaged>>
  BY <1>5 DEF PublishReady, MovesOn, PublishFails, Fault, history
<1> QED
  BY <1>7, <1>8

\* A deletion that succeeds leaves no record.
LEMMA HalfDeletedStays ==
    ASSUME StoreInv, [Next]_vars, ~Crash, NEW m \in halfDeleted, registry'[m] = "READY"
    PROVE  m \in halfDeleted'
<1>0. /\ registry \in [Model -> States] /\ m \in Model
  BY DEF StoreInv, RecordsMatchFiles, TypeOK
<1>1. CASE \/ Initialize
           \/ \E c \in Call, n \in Model : \E what \in {"download", "delete", "verify"} : CallStore(c, what, n)
           \/ \E c \in Call : Abort(c) \/ VerifyReadyModel(c) \/ Leaves(c)
           \/ \E n \in Model : StartInference(n)
           \/ EndInference \/ (\E n \in Model, f \in File : Damage(n, f)) \/ UNCHANGED vars
  BY <1>1 DEF Initialize, OpenStore, ReadRegistry, StoreIsOpen, OpenFails, Repair, CallStore, Abort, Damage,
         VerifyReadyModel, VerifyAnswered, VerifyPasses, VerifyFails, Demote, Leaves, StartInference,
         EndInference, PublishFails, Fault, history, vars
<1>2. ASSUME NEW c \in Call, DownloadTalks(c)
      PROVE  halfDeleted' = halfDeleted
  BY <1>2 DEF DownloadTalks, DownloadRefused, StartDownload, Announce, StartVerify, PublishReady, MovesOn,
         PublishFails, Interrupted, Fail, TransferEnds, CheckPart, Verify, Fault, history
<1>3. ASSUME NEW c \in Call, DownloadWrites(c)
      PROVE  halfDeleted' = halfDeleted
  BY <1>3 DEF DownloadWrites, ReadLedger, FillLedger, Reuse, StartTransfer, Receive, Pause, Place, Record, Fault,
         history
<1>4. ASSUME NEW c \in Call, Delete(c)
      PROVE  m \in halfDeleted'
  BY <1>0, <1>4 DEF Delete, DeleteRefused, StartDelete, Erase, Forget, Publish, PublishFails, With, Fault, history
<1> QED
  BY <1>1, <1>2, <1>3, <1>4, NextSteps DEF Outside

\* The store opens once, by way of its repair, and closes only when the process dies.
LEMMA OpeningMoves ==
    ASSUME [Next]_vars, ~Crash
    PROVE  /\ opening = "open" => opening' = "open"
           /\ opening # "open" /\ opening' = "open" => StoreIsOpen
<1>1. CASE Initialize
  BY <1>1 DEF Initialize, OpenStore, ReadRegistry, StoreIsOpen, OpenFails, Repair
<1>2. CASE ~Initialize
  <2>1. opening' = opening
    <3>1. ASSUME NEW c \in Call, DownloadTalks(c) \/ DownloadWrites(c)
          PROVE  opening' = opening
      BY <3>1 DEF DownloadTalks, DownloadRefused, StartDownload, Announce, StartVerify, PublishReady, MovesOn,
             Interrupted, Fail, TransferEnds, CheckPart, Verify, DownloadWrites, ReadLedger, FillLedger, Reuse,
             StartTransfer, Receive, Pause, Place, Record, memory
    <3>2. ASSUME NEW c \in Call, Delete(c) \/ VerifyReadyModel(c) \/ Leaves(c)
          PROVE  opening' = opening
      BY <3>2 DEF Delete, DeleteRefused, StartDelete, Erase, Forget, VerifyReadyModel, VerifyAnswered,
             VerifyPasses, VerifyFails, Demote, Leaves, memory
    <3>3. CASE Outside \/ UNCHANGED vars
      BY <3>3 DEF Outside, CallStore, Abort, StartInference, EndInference, Damage, memory, vars
    <3> QED
      BY <1>2, <3>1, <3>2, <3>3, NextSteps
  <2> QED
    BY <2>1
<1> QED
  BY <1>1, <1>2

\* What a READY record of an open store says of the files stays true.
LEMMA ReadyKept == StoreInv /\ [Next]_vars => ReadyIsComplete'
<1> SUFFICES ASSUME StoreInv, [Next]_vars, opening' = "open", NEW m \in Model,
                    registry'[m] = "READY", m \notin halfDeleted'
             PROVE  /\ damaged'[m] = "no" => \A f \in File : file'[m][f] = "good"
                    /\ damaged'[m] # "now" => \A f \in File : file'[m][f] \in {"good", "bad"}
  BY DEF ReadyIsComplete, Intact, Sized
<1>1. ~Crash
  BY DEF Crash
<1>2. CASE opening # "open"
  <2>1. StoreIsOpen
    BY <1>1, <1>2, OpeningMoves
  <2>2. UNCHANGED <<registry, file, damaged>>
    BY <2>1 DEF StoreIsOpen, disk, history
  <2>3. \A f \in File : file[m][f] \in {"good", "bad"}
    BY <2>1, <2>2 DEF StoreIsOpen, NeedsRepair, Sized
  <2>4. damaged[m] = "no" => \A f \in File : file[m][f] = "good"
    BY <2>3 DEF StoreInv, RecordsMatchFiles, FinalFilesAreVerified
  <2> QED
    BY <2>2, <2>3, <2>4
<1>3. CASE opening = "open" /\ registry[m] # "READY"
  BY <1>3, BecomesReady DEF Intact
<1>4. CASE opening = "open" /\ registry[m] = "READY"
  <2>1. m \notin halfDeleted
    BY <1>1, HalfDeletedStays
  <2>2. damaged'[m] # "now" => file'[m] = file[m] /\ damaged'[m] = damaged[m]
    BY <1>1, <1>4, <2>1, ReadyFilesStay
  <2>3. /\ damaged[m] = "no" => \A f \in File : file[m][f] = "good"
        /\ damaged[m] # "now" => \A f \in File : file[m][f] \in {"good", "bad"}
    BY <1>4, <2>1 DEF StoreInv, RecordsMatchFiles, ReadyIsComplete, Intact, Sized
  <2> QED
    BY <2>2, <2>3
<1> QED
  BY <1>2, <1>3, <1>4

\* A model comes to be verified only by hashing it.
LEMMA BecomesVerified ==
    ASSUME StoreInv, [Next]_vars, NEW m \in verified', m \notin verified
    PROVE  m \in Model /\ UNCHANGED <<file, damaged>> /\ (damaged[m] # "now" => Intact(m))
<1>1. ~Initialize /\ ~Outside /\ ~UNCHANGED vars
  BY DEF Initialize, OpenStore, ReadRegistry, StoreIsOpen, OpenFails, Repair, Outside, CallStore, Abort,
         StartInference, EndInference, Damage, Crash, memory, vars
<1>2. PICK c \in Call : DownloadTalks(c) \/ DownloadWrites(c) \/ Delete(c) \/ VerifyReadyModel(c) \/ Leaves(c)
  BY <1>1, NextSteps
<1>3. PublishReady(c) \/ VerifyPasses(c)
  BY <1>2 DEF DownloadTalks, DownloadRefused, StartDownload, Announce, StartVerify, MovesOn, Interrupted, Fail,
         TransferEnds, CheckPart, Verify, DownloadWrites, ReadLedger, FillLedger, Reuse, StartTransfer, Receive,
         Pause, Place, Record, Delete, DeleteRefused, StartDelete, Erase, Forget, VerifyReadyModel,
         VerifyAnswered, VerifyFails, Demote, Leaves, memory
<1>4. m = subject[c] /\ Holds(queue, c) /\ UNCHANGED <<file, damaged>>
  BY <1>3 DEF PublishReady, VerifyPasses, MovesOn, PublishFails, Fault, Turn, Runs, disk, history
<1>5. c = Head(queue) /\ m \in Model
  BY <1>4, Running DEF StoreInv, RecordsMatchFiles
<1>6. damaged[m] # "now" => Intact(m)
  BY <1>3, <1>4, <1>5 DEF PublishReady, VerifyPasses, Runs, StoreInv, RecordsMatchFiles, CallInv, Transfer, Intact
<1> QED
  BY <1>4, <1>5, <1>6

\* What has been hashed stays intact as long as nobody damages it.
LEMMA VerifiedKept == StoreInv /\ [Next]_vars => VerifiedMeansIntact'
<1> SUFFICES ASSUME StoreInv, [Next]_vars, NEW m \in verified',
                    registry'[m] = "READY", m \notin halfDeleted', damaged'[m] # "now"
             PROVE  \A f \in File : file'[m][f] = "good"
  BY DEF VerifiedMeansIntact, Intact
<1>1. ~Crash
  BY DEF Crash
<1>2. CASE m \notin verified
  BY <1>2, BecomesVerified DEF Intact
<1>3. CASE m \in verified
  <2>1. opening = "open" /\ m \in Model
    BY <1>3 DEF StoreInv, RecordsMatchFiles, CallInv, TypeOK
  <2>2. CASE registry[m] # "READY"
    BY <2>1, <2>2, BecomesReady DEF Intact
  <2>3. CASE registry[m] = "READY"
    <3>1. m \notin halfDeleted
      BY <1>1, HalfDeletedStays
    <3>2. file'[m] = file[m] /\ damaged'[m] = damaged[m]
      BY <1>1, <2>1, <2>3, <3>1, ReadyFilesStay
    <3>3. Intact(m)
      BY <1>3, <2>3, <3>1, <3>2 DEF StoreInv, VerifiedMeansIntact
    <3> QED
      BY <3>2, <3>3 DEF Intact
  <2> QED
    BY <2>2, <2>3
<1> QED
  BY <1>2, <1>3

----------------------------------------------------------------------------
(* The theorems.                                                           *)

\* The inductive invariant holds of an empty disk.
LEMMA InitStore == Init => StoreInv
<1> SUFFICES ASSUME Init PROVE StoreInv
  OBVIOUS
<1>1. TypeOK
  BY HubStoreAssumption DEF Init, TypeOK, Each, Steps, States, Spoiled
<1>2. ReadyIsComplete /\ FinalFilesAreVerified /\ VerifiedMeansIntact
  BY DEF Init, Each, ReadyIsComplete, FinalFilesAreVerified, VerifiedMeansIntact
<1>3. GateHeldByMutation /\ InferenceInv /\ CallInv
  BY DEF Init, GateHeldByMutation, InferenceInv, CallInv, QueueInv, Transfer, Removal
<1> QED
  BY <1>1, <1>2, <1>3 DEF StoreInv, RecordsMatchFiles

\* It is kept by every step.
LEMMA StoreInvKept == StoreInv /\ [Next]_vars => StoreInv'
<1> SUFFICES ASSUME StoreInv, [Next]_vars PROVE StoreInv'
  OBVIOUS
<1>1. TypeOK' /\ CallInv'
  BY TypesKept, CallKept DEF StoreInv, RecordsMatchFiles
<1> QED
  BY <1>1, ReadyKept, FinalFilesKept, GateKept, VerifiedKept DEF StoreInv, RecordsMatchFiles

\* The inductive invariant holds in every reachable state.
LEMMA StoreIsInductive == Spec => []StoreInv
  BY InitStore, StoreInvKept, PTL DEF Spec

\* Whatever fails, dies or is damaged: a READY record of an open store has its
\* artifacts, nothing unverified is at a final path, and the gate is held
\* exactly while a mutation runs.
THEOREM RecordsAlwaysMatchFiles == Spec => []RecordsMatchFiles
<1>1. StoreInv => RecordsMatchFiles
  BY DEF StoreInv
<1> QED
  BY <1>1, StoreIsInductive, PTL

\* One hash per process is enough for all damage done before the process began.
THEOREM VerifiedAlwaysIntact == Spec => []VerifiedMeansIntact
<1>1. StoreInv => VerifiedMeansIntact
  BY DEF StoreInv
<1> QED
  BY <1>1, StoreIsInductive, PTL

\* No step changes a file of the model that inference has open.
THEOREM InferenceNeverDisturbed == Spec => InferenceUndisturbed
<1>1. ASSUME StoreInv, [Next]_vars
      PROVE  [\A m \in Model : (used = m /\ used' = m) => file'[m] = file[m]]_vars
  <2> SUFFICES ASSUME NEW m \in Model, used = m
               PROVE  file'[m] = file[m]
    OBVIOUS
  <2>1. used # None
    BY HubStoreAssumption
  <2> QED
    BY <1>1, <2>1, FilesMove, Placing, Erasing, Damaging
<1> QED
  BY <1>1, StoreIsInductive, PTL DEF Spec, InferenceUndisturbed

=============================================================================
