---------------------------- MODULE HubMetadata ----------------------------
(***************************************************************************)
(* One JSON file of the Hub's model store (protocol.json, registry.json,   *)
(* a download manifest, the migration journal): readJson() and             *)
(* atomicWriteJson() of services/modelcommons/modelStore.ts, with death of *)
(* the process between any two file operations and in the middle of the    *)
(* only one that is not atomic, the filling of the .next file.             *)
(*                                                                         *)
(* The store reads a file before it writes it and runs one operation at a  *)
(* time. Contents are numbered in the order they were handed to            *)
(* atomicWriteJson(); a process may be started again with or without the   *)
(* native replace (`hasNativeMethod('atomicReplaceFile')`).                *)
(***************************************************************************)
EXTENDS Naturals

CONSTANTS
    Absent,         \* no such file
    Torn,           \* a file whose text does not parse
    MaxWrites,      \* bound: calls of atomicWriteJson()
    MaxFaults,      \* bound: rejected deletes, moves, writes and replaces
    MaxMisreads,    \* bound: rejected reads of an existing file
    MaxCrashes      \* bound: deaths of the process

ASSUME MetadataAssumption ==
    /\ Absent \notin Nat /\ Torn \notin Nat /\ Absent # Torn
    /\ MaxWrites \in Nat /\ MaxFaults \in Nat
    /\ MaxMisreads \in Nat /\ MaxCrashes \in Nat

VARIABLES
    disk,                   \* the file and its siblings .next and .previous
    native,                 \* this process has the native replace
    at,                     \* the file operation in progress, or "idle"
    view,                   \* whether this process has "read" the file
    writing,                \* what the latest atomicWriteJson() was given
    confirmed,              \* what the store was last told the file holds; 0: nothing
    stranded,               \* a failed swap could not be undone
    faults, misreads, crashes

told == <<view, confirmed>>
write == <<native, writing, stranded>>
budget == <<faults, misreads, crashes>>
vars == <<disk, at, told, write, budget>>

main == disk["main"]
next == disk["next"]
previous == disk["previous"]

Contents == 1 .. MaxWrites
Files == Contents \cup {Absent, Torn}

ReadSteps == {"promoteNext", "promotePrevious", "parse", "rescue", "dropMain", "restore"}
WriteSteps == {"clearNext", "fill", "filling", "replace", "clearPrevious",
               "setAside", "swapIn", "finish", "putBack"}

FlagsOK == native \in BOOLEAN /\ stranded \in BOOLEAN

TypeOK ==
    /\ disk \in [{"main", "next", "previous"} -> Files]
    /\ view \in {"unread", "read"}
    /\ at \in {"idle"} \cup ReadSteps \cup WriteSteps
    /\ writing \in 0 .. MaxWrites /\ confirmed \in 0 .. MaxWrites
    /\ faults \in 0 .. MaxFaults
    /\ misreads \in 0 .. MaxMisreads
    /\ crashes \in 0 .. MaxCrashes

Init ==
    /\ disk = [file \in {"main", "next", "previous"} |-> Absent]
    /\ native \in BOOLEAN
    /\ at = "idle" /\ view = "unread"
    /\ writing = 0 /\ confirmed = 0
    /\ stranded = FALSE
    /\ faults = 0 /\ misreads = 0 /\ crashes = 0

----------------------------------------------------------------------------
\* File operations.

Put(file, content) == [disk EXCEPT ![file] = content]
Moved(from, to) == [disk EXCEPT ![to] = disk[from], ![from] = Absent]

\* An awaited operation succeeds, or is rejected and changes nothing.
Done(new, then) == disk' = new /\ at' = then /\ UNCHANGED budget
Rejected(then) ==
    /\ faults < MaxFaults /\ faults' = faults + 1
    /\ at' = then
    /\ UNCHANGED <<disk, misreads, crashes>>

\* The store learns what the file holds.
Told(content) == view' = "read" /\ confirmed' = content

Does(step, new, then, failed) ==
    /\ at = step
    /\ Done(new, then) \/ Rejected(failed)
    /\ UNCHANGED <<told, write>>

\* The last operation of a call.
Ends(step, new, content, failed) ==
    /\ at = step
    /\ \/ Done(new, "idle") /\ Told(content)
       \/ Rejected(failed) /\ UNCHANGED told
    /\ UNCHANGED write

\* A file is no JSON, or its reading is rejected.
Misread(content) ==
    /\ misreads' = IF content = Torn THEN misreads ELSE misreads + 1
    /\ misreads' \in 0 .. MaxMisreads
    /\ UNCHANGED <<disk, told, write, faults, crashes>>

----------------------------------------------------------------------------
\* readJson()

\* A file with no copy at all is answered with null.
ReadJson ==
    /\ at = "idle"
    /\ at' = IF main # Absent THEN "parse"
             ELSE IF next # Absent THEN "promoteNext"
             ELSE IF previous # Absent THEN "promotePrevious" ELSE "idle"
    /\ IF at' = "idle" THEN Told(0) ELSE view' = "unread" /\ UNCHANGED confirmed
    /\ UNCHANGED <<disk, write, budget>>

PromoteNext == Does("promoteNext", Moved("next", "main"), "parse", "idle")
PromotePrevious == Does("promotePrevious", Moved("previous", "main"), "parse", "idle")

Parse ==
    /\ at = "parse" /\ main # Torn
    /\ at' = "idle" /\ Told(main)
    /\ UNCHANGED <<disk, write, budget>>

ParseFails ==
    /\ at = "parse" /\ Misread(main)
    /\ at' = IF previous # Absent THEN "rescue" ELSE "idle"

Rescue ==
    /\ at = "rescue"
    /\ \/ previous # Torn /\ at' = "dropMain" /\ UNCHANGED <<disk, told, write, budget>>
       \/ Misread(previous) /\ at' = "idle"

DropMain == Does("dropMain", Put("main", Absent), "restore", "idle")
Restore == Ends("restore", Moved("previous", "main"), previous, "idle")

----------------------------------------------------------------------------
\* atomicWriteJson()

AtomicWriteJson ==
    /\ at = "idle" /\ view = "read" /\ writing < MaxWrites
    /\ writing' = writing + 1
    /\ at' = "clearNext"
    /\ UNCHANGED <<disk, told, native, stranded, budget>>

\* Mutant of Caught: nothing is put back.
CaughtWithoutRepair == "idle"

\* Mutant of Caught: .previous goes back even if the file is there.
CaughtPutsBackAlways == IF previous # Absent THEN "putBack" ELSE "idle"

\* The catch block: .previous goes back if the file is missing.
Caught == IF main = Absent /\ previous # Absent THEN "putBack" ELSE "idle"

\* writeAsStringAsync() creates the file and then fills it.
ClearNext == Does("clearNext", Put("next", Absent), "fill", "idle")
StartFill == Does("fill", Put("next", Torn), "filling", "idle")
FinishFill == Does("filling", Put("next", writing),
                   IF native THEN "replace" ELSE "clearPrevious", "idle")

Replace == Ends("replace", Moved("next", "main"), writing, Caught)

ClearPrevious == Does("clearPrevious", Put("previous", Absent),
                      IF main # Absent THEN "setAside" ELSE "swapIn", Caught)

SetAside == Does("setAside", Moved("main", "previous"), "swapIn", Caught)
SwapIn == Does("swapIn", Moved("next", "main"), "finish", Caught)
Finish == Ends("finish", Put("previous", Absent), writing, Caught)

PutBack ==
    /\ at = "putBack"
    /\ \/ Done(Moved("previous", "main"), "idle") /\ UNCHANGED stranded
       \/ Rejected("idle") /\ stranded' = TRUE
    /\ UNCHANGED <<told, native, writing>>

----------------------------------------------------------------------------
\* The process dies and is started again, perhaps by another build.
Crash ==
    /\ crashes < MaxCrashes /\ crashes' = crashes + 1
    /\ at' = "idle" /\ view' = "unread"
    /\ native' \in BOOLEAN
    /\ UNCHANGED <<disk, confirmed, writing, stranded, faults, misreads>>

Read ==
    \/ ReadJson \/ PromoteNext \/ PromotePrevious
    \/ Parse \/ ParseFails \/ Rescue \/ DropMain \/ Restore

Write ==
    \/ AtomicWriteJson \/ ClearNext \/ StartFill \/ FinishFill
    \/ Replace \/ ClearPrevious \/ SetAside \/ SwapIn \/ Finish \/ PutBack

Next == Read \/ Write \/ Crash

Spec == Init /\ [][Next]_vars

----------------------------------------------------------------------------
\* What a readJson() that meets no failure would answer.
Promoted ==
    IF main # Absent THEN main
    ELSE IF next # Absent THEN next
    ELSE previous

Recovered == IF Promoted = Torn /\ previous # Absent THEN previous ELSE Promoted

\* The swap is recoverable (comment at modelStore.ts:276-278): wherever the
\* process dies and whatever operation fails, the file yields what the store
\* last knew it to hold or something newer. Excepted are a store whose reads
\* are rejected and one that could not put a file back.
ConfirmedSurvives ==
    misreads = 0 /\ stranded = FALSE /\ confirmed # 0 =>
        Recovered \in Contents /\ Recovered >= confirmed

\* Even when reads are rejected, a file that once held something keeps
\* holding something that parses: a failed read never destroys both copies.
SomethingSurvives ==
    stranded = FALSE /\ confirmed # 0 => Recovered \in Contents

\* "readJson promotes .next or restores .previous after interruption"
\* (modelStore.ts:277-278): as long as no operation is rejected, readJson()
\* never ends with 'Stored JSON is invalid', wherever the process died.
InterruptionIsRecoverable ==
    faults = 0 /\ misreads = 0 => ~(at = "parse" /\ main = Torn /\ previous = Absent)

----------------------------------------------------------------------------
\* The inductive invariant behind the first two.

StepInv ==
    /\ at \in {"parse", "rescue", "dropMain"} => main # Absent
    /\ at \in {"promoteNext", "promotePrevious", "restore", "swapIn", "putBack"} => main = Absent
    /\ at = "promoteNext" => next # Absent
    /\ at = "promotePrevious" => next = Absent
    /\ at \in {"promotePrevious", "rescue", "dropMain", "restore", "putBack"} => previous # Absent
    /\ at \in ReadSteps => view = "unread"
    /\ at \in WriteSteps => view = "read" /\ writing > 0
    /\ at \in {"replace", "clearPrevious", "setAside", "swapIn"} => next = writing
    /\ at = "setAside" => main # Absent
    /\ at = "finish" => main = writing /\ next = Absent

\* A store that has read its file finds it in place.
OpenInv ==
    view = "read" =>
        /\ main # Torn
        /\ main = Absent /\ stranded = FALSE =>
               \/ confirmed = 0
               \/ at \in {"swapIn", "putBack"} /\ previous # Absent

\* .next is never older, and without misreads nothing that counts is.
AgeInv ==
    /\ previous # Torn
    /\ confirmed <= writing
    /\ main \in Contents => main <= writing
    /\ previous \in Contents => previous <= writing
    /\ next \in Contents =>
           /\ next <= writing
           /\ next >= confirmed
           /\ main \in Contents => next >= main
           /\ previous \in Contents => next >= previous
    /\ misreads = 0 =>
           /\ main \in Contents => main >= confirmed
           /\ main \notin Contents /\ previous \in Contents => previous >= confirmed
           /\ at \in {"rescue", "dropMain"} => main = Torn

MetadataInductive ==
    FlagsOK /\ TypeOK /\ StepInv /\ OpenInv /\ AgeInv /\ SomethingSurvives
============================================================================
