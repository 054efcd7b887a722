------------------------- MODULE HubMetadataProofs -------------------------
(***************************************************************************)
(* The recovery properties of HubMetadata, for any number of writes,       *)
(* failures and deaths.                                                    *)
(***************************************************************************)
EXTENDS HubMetadata, TLAPS

\* An empty disk.
LEMMA InitMetadata == Init => MetadataInductive
<1> SUFFICES ASSUME Init PROVE MetadataInductive
  OBVIOUS
<1> USE MetadataAssumption DEF Init, main, next, previous
<1>1. TypeOK
  BY DEF TypeOK, Files
<1>2. StepInv /\ OpenInv
  BY DEF StepInv, OpenInv, ReadSteps, WriteSteps
<1>3. AgeInv
  BY DEF AgeInv, Contents
<1>4. SomethingSurvives
  BY DEF SomethingSurvives
<1>5. FlagsOK
  BY DEF FlagsOK
<1> QED
  BY <1>1, <1>2, <1>3, <1>4, <1>5 DEF MetadataInductive

\* No step of readJson() loses what is there: each moves a copy or drops one
\* that has a better sibling.
LEMMA ReadKeeps == MetadataInductive /\ Read => MetadataInductive'
<1> SUFFICES ASSUME FlagsOK, TypeOK, StepInv, OpenInv, AgeInv, SomethingSurvives, Read
             PROVE  MetadataInductive'
  BY DEF MetadataInductive
<1> USE MetadataAssumption DEF TypeOK, Contents, Files, ReadSteps, WriteSteps,
      told, write, budget, main, next, previous, Put, Moved, Done, Rejected, Does, Ends, Told, Misread
<1>1. CASE ReadJson
  <2> USE <1>1 DEF ReadJson
  <2>1. TypeOK'
    OBVIOUS
  <2>2. StepInv'
    BY DEF StepInv
  <2>3. OpenInv'
    BY DEF StepInv, OpenInv
  <2>4. AgeInv'
    BY DEF StepInv, OpenInv, AgeInv
  <2>5. SomethingSurvives'
    BY DEF StepInv, OpenInv, AgeInv, SomethingSurvives, Recovered, Promoted
  <2>6. FlagsOK'
    BY DEF FlagsOK
  <2> QED
    BY <2>1, <2>2, <2>3, <2>4, <2>5, <2>6 DEF MetadataInductive
<1>2. CASE PromoteNext
  <2> USE <1>2 DEF PromoteNext
  <2>1. TypeOK'
    OBVIOUS
  <2>2. StepInv'
    BY DEF StepInv
  <2>3. OpenInv'
    BY DEF StepInv, OpenInv
  <2>4. AgeInv'
    BY DEF StepInv, OpenInv, AgeInv
  <2>5. SomethingSurvives'
    BY DEF StepInv, OpenInv, AgeInv, SomethingSurvives, Recovered, Promoted
  <2>6. FlagsOK'
    BY DEF FlagsOK
  <2> QED
    BY <2>1, <2>2, <2>3, <2>4, <2>5, <2>6 DEF MetadataInductive
<1>3. CASE PromotePrevious
  <2> USE <1>3 DEF PromotePrevious
  <2>1. TypeOK'
    OBVIOUS
  <2>2. StepInv'
    BY DEF StepInv
  <2>3. OpenInv'
    BY DEF StepInv, OpenInv
  <2>4. AgeInv'
    BY DEF StepInv, OpenInv, AgeInv
  <2>5. SomethingSurvives'
    BY DEF StepInv, OpenInv, AgeInv, SomethingSurvives, Recovered, Promoted
  <2>6. FlagsOK'
    BY DEF FlagsOK
  <2> QED
    BY <2>1, <2>2, <2>3, <2>4, <2>5, <2>6 DEF MetadataInductive
<1>4. CASE Parse
  <2> USE <1>4 DEF Parse
  <2>1. TypeOK'
    BY DEF StepInv
  <2>2. StepInv'
    BY DEF StepInv
  <2>3. OpenInv'
    BY DEF StepInv, OpenInv
  <2>4. AgeInv'
    BY DEF StepInv, OpenInv, AgeInv
  <2>5. SomethingSurvives'
    BY DEF StepInv, OpenInv, AgeInv, SomethingSurvives, Recovered, Promoted
  <2>6. FlagsOK'
    BY DEF FlagsOK
  <2> QED
    BY <2>1, <2>2, <2>3, <2>4, <2>5, <2>6 DEF MetadataInductive
<1>5. CASE ParseFails
  <2> USE <1>5 DEF ParseFails
  <2>1. TypeOK'
    OBVIOUS
  <2>2. StepInv'
    BY DEF StepInv
  <2>3. OpenInv'
    BY DEF StepInv, OpenInv
  <2>4. AgeInv'
    BY DEF StepInv, OpenInv, AgeInv
  <2>5. SomethingSurvives'
    BY DEF StepInv, OpenInv, AgeInv, SomethingSurvives, Recovered, Promoted
  <2>6. FlagsOK'
    BY DEF FlagsOK
  <2> QED
    BY <2>1, <2>2, <2>3, <2>4, <2>5, <2>6 DEF MetadataInductive
<1>6. CASE Rescue
  <2> USE <1>6 DEF Rescue
  <2>1. TypeOK'
    OBVIOUS
  <2>2. StepInv'
    BY DEF StepInv
  <2>3. OpenInv'
    BY DEF StepInv, OpenInv
  <2>4. AgeInv'
    BY DEF StepInv, OpenInv, AgeInv
  <2>5. SomethingSurvives'
    BY DEF StepInv, OpenInv, AgeInv, SomethingSurvives, Recovered, Promoted
  <2>6. FlagsOK'
    BY DEF FlagsOK
  <2> QED
    BY <2>1, <2>2, <2>3, <2>4, <2>5, <2>6 DEF MetadataInductive
<1>7. CASE DropMain
  <2> USE <1>7 DEF DropMain
  <2>1. TypeOK'
    OBVIOUS
  <2>2. StepInv'
    BY DEF StepInv
  <2>3. OpenInv'
    BY DEF StepInv, OpenInv
  <2>4. AgeInv'
    BY DEF StepInv, OpenInv, AgeInv
  <2>5. SomethingSurvives'
    BY DEF StepInv, OpenInv, AgeInv, SomethingSurvives, Recovered, Promoted
  <2>6. FlagsOK'
    BY DEF FlagsOK
  <2> QED
    BY <2>1, <2>2, <2>3, <2>4, <2>5, <2>6 DEF MetadataInductive
<1>8. CASE Restore
  <2> USE <1>8 DEF Restore
  <2>1. TypeOK'
    BY DEF StepInv, AgeInv
  <2>2. StepInv'
    BY DEF StepInv
  <2>3. OpenInv'
    BY DEF StepInv, OpenInv, AgeInv
  <2>4. AgeInv'
    BY DEF StepInv, OpenInv, AgeInv
  <2>5. SomethingSurvives'
    BY DEF StepInv, OpenInv, AgeInv, SomethingSurvives, Recovered, Promoted
  <2>6. FlagsOK'
    BY DEF FlagsOK
  <2> QED
    BY <2>1, <2>2, <2>3, <2>4, <2>5, <2>6 DEF MetadataInductive
<1> QED
  BY <1>1, <1>2, <1>3, <1>4, <1>5, <1>6, <1>7, <1>8 DEF Read

\* No step of atomicWriteJson() does: it drops a copy only beside a newer one.
LEMMA WriteKeeps == MetadataInductive /\ Write => MetadataInductive'
<1> SUFFICES ASSUME FlagsOK, TypeOK, StepInv, OpenInv, AgeInv, SomethingSurvives, Write
             PROVE  MetadataInductive'
  BY DEF MetadataInductive
<1> USE MetadataAssumption DEF TypeOK, Contents, Files, ReadSteps, WriteSteps,
      told, write, budget, main, next, previous, Put, Moved, Done, Rejected, Does, Ends, Told, Caught
<1>1. CASE AtomicWriteJson
  <2> USE <1>1 DEF AtomicWriteJson
  <2>1. TypeOK'
    OBVIOUS
  <2>2. StepInv'
    BY DEF StepInv
  <2>3. OpenInv'
    BY DEF StepInv, OpenInv
  <2>4. AgeInv'
    BY DEF StepInv, OpenInv, AgeInv
  <2>5. SomethingSurvives'
    BY DEF StepInv, OpenInv, AgeInv, SomethingSurvives, Recovered, Promoted
  <2>6. FlagsOK'
    BY DEF FlagsOK
  <2> QED
    BY <2>1, <2>2, <2>3, <2>4, <2>5, <2>6 DEF MetadataInductive
<1>2. CASE ClearNext
  <2> USE <1>2 DEF ClearNext
  <2>1. TypeOK'
    OBVIOUS
  <2>2. StepInv'
    BY DEF StepInv
  <2>3. OpenInv'
    BY DEF StepInv, OpenInv
  <2>4. AgeInv'
    BY DEF StepInv, OpenInv, AgeInv
  <2>5. SomethingSurvives'
    BY DEF StepInv, OpenInv, AgeInv, SomethingSurvives, Recovered, Promoted
  <2>6. FlagsOK'
    BY DEF FlagsOK
  <2> QED
    BY <2>1, <2>2, <2>3, <2>4, <2>5, <2>6 DEF MetadataInductive
<1>3. CASE StartFill
  <2> USE <1>3 DEF StartFill
  <2>1. TypeOK'
    OBVIOUS
  <2>2. StepInv'
    BY DEF StepInv
  <2>3. OpenInv'
    BY DEF StepInv, OpenInv
  <2>4. AgeInv'
    BY DEF StepInv, OpenInv, AgeInv
  <2>5. SomethingSurvives'
    BY DEF StepInv, OpenInv, AgeInv, SomethingSurvives, Recovered, Promoted
  <2>6. FlagsOK'
    BY DEF FlagsOK
  <2> QED
    BY <2>1, <2>2, <2>3, <2>4, <2>5, <2>6 DEF MetadataInductive
<1>4. CASE FinishFill
  <2> USE <1>4 DEF FinishFill
  <2>1. TypeOK'
    BY DEF StepInv
  <2>2. StepInv'
    BY DEF StepInv
  <2>3. OpenInv'
    BY DEF StepInv, OpenInv
  <2>4. AgeInv'
    BY DEF StepInv, OpenInv, AgeInv
  <2>5. SomethingSurvives'
    BY DEF StepInv, OpenInv, AgeInv, SomethingSurvives, Recovered, Promoted
  <2>6. FlagsOK'
    BY DEF FlagsOK
  <2> QED
    BY <2>1, <2>2, <2>3, <2>4, <2>5, <2>6 DEF MetadataInductive
<1>5. CASE Replace
  <2> USE <1>5 DEF Replace
  <2>1. TypeOK'
    BY DEF StepInv
  <2>2. StepInv'
    BY DEF StepInv
  <2>3. OpenInv'
    BY DEF StepInv, OpenInv
  <2>4. AgeInv'
    BY DEF StepInv, OpenInv, AgeInv
  <2>5. SomethingSurvives'
    BY DEF StepInv, OpenInv, AgeInv, SomethingSurvives, Recovered, Promoted
  <2>6. FlagsOK'
    BY DEF FlagsOK
  <2> QED
    BY <2>1, <2>2, <2>3, <2>4, <2>5, <2>6 DEF MetadataInductive
<1>6. CASE ClearPrevious
  <2> USE <1>6 DEF ClearPrevious
  <2>1. TypeOK'
    OBVIOUS
  <2>2. StepInv'
    BY DEF StepInv
  <2>3. OpenInv'
    BY DEF StepInv, OpenInv
  <2>4. AgeInv'
    BY DEF StepInv, OpenInv, AgeInv
  <2>5. SomethingSurvives'
    BY DEF StepInv, OpenInv, AgeInv, SomethingSurvives, Recovered, Promoted
  <2>6. FlagsOK'
    BY DEF FlagsOK
  <2> QED
    BY <2>1, <2>2, <2>3, <2>4, <2>5, <2>6 DEF MetadataInductive
<1>7. CASE SetAside
  <2> USE <1>7 DEF SetAside
  <2>1. TypeOK'
    OBVIOUS
  <2>2. StepInv'
    BY DEF StepInv
  <2>3. OpenInv'
    BY DEF StepInv, OpenInv
  <2>4. AgeInv'
    BY DEF StepInv, OpenInv, AgeInv
  <2>5. SomethingSurvives'
    BY DEF StepInv, OpenInv, AgeInv, SomethingSurvives, Recovered, Promoted
  <2>6. FlagsOK'
    BY DEF FlagsOK
  <2> QED
    BY <2>1, <2>2, <2>3, <2>4, <2>5, <2>6 DEF MetadataInductive
<1>8. CASE SwapIn
  <2> USE <1>8 DEF SwapIn
  <2>1. TypeOK'
    OBVIOUS
  <2>2. StepInv'
    BY DEF StepInv
  <2>3. OpenInv'
    BY DEF StepInv, OpenInv
  <2>4. AgeInv'
    BY DEF StepInv, OpenInv, AgeInv
  <2>5. SomethingSurvives'
    BY DEF StepInv, OpenInv, AgeInv, SomethingSurvives, Recovered, Promoted
  <2>6. FlagsOK'
    BY DEF FlagsOK
  <2> QED
    BY <2>1, <2>2, <2>3, <2>4, <2>5, <2>6 DEF MetadataInductive
<1>9. CASE Finish
  <2> USE <1>9 DEF Finish
  <2>1. TypeOK'
    BY DEF StepInv
  <2>2. StepInv'
    BY DEF StepInv
  <2>3. OpenInv'
    BY DEF StepInv, OpenInv
  <2>4. AgeInv'
    BY DEF StepInv, OpenInv, AgeInv
  <2>5. SomethingSurvives'
    BY DEF StepInv, OpenInv, AgeInv, SomethingSurvives, Recovered, Promoted
  <2>6. FlagsOK'
    BY DEF FlagsOK
  <2> QED
    BY <2>1, <2>2, <2>3, <2>4, <2>5, <2>6 DEF MetadataInductive
<1>10. CASE PutBack
  <2> USE <1>10 DEF PutBack
  <2>1. TypeOK'
    OBVIOUS
  <2>2. StepInv'
    BY DEF StepInv
  <2>3. OpenInv'
    BY DEF StepInv, OpenInv, AgeInv
  <2>4. AgeInv'
    BY DEF StepInv, OpenInv, AgeInv
  <2>5. SomethingSurvives'
    BY DEF StepInv, OpenInv, AgeInv, SomethingSurvives, Recovered, Promoted
  <2>6. FlagsOK'
    BY DEF FlagsOK
  <2> QED
    BY <2>1, <2>2, <2>3, <2>4, <2>5, <2>6 DEF MetadataInductive
<1> QED
  BY <1>1, <1>2, <1>3, <1>4, <1>5, <1>6, <1>7, <1>8, <1>9, <1>10 DEF Write

\* Death changes no file, and a new process reads before it writes.
LEMMA CrashKeeps == MetadataInductive /\ Crash => MetadataInductive'
<1> SUFFICES ASSUME FlagsOK, TypeOK, StepInv, OpenInv, AgeInv, SomethingSurvives, Crash
             PROVE  MetadataInductive'
  BY DEF MetadataInductive
<1> USE MetadataAssumption DEF Crash, main, next, previous
<1>1. TypeOK'
  BY DEF TypeOK
<1>2. FlagsOK'
  BY DEF FlagsOK
<1>3. StepInv' /\ OpenInv'
  BY DEF StepInv, OpenInv, ReadSteps, WriteSteps
<1>4. AgeInv' /\ SomethingSurvives'
  BY DEF AgeInv, SomethingSurvives, Recovered, Promoted
<1> QED
  BY <1>1, <1>2, <1>3, <1>4 DEF MetadataInductive

LEMMA StutterKeeps == MetadataInductive /\ UNCHANGED vars => MetadataInductive'
  BY DEF MetadataInductive, FlagsOK, TypeOK, StepInv, OpenInv, AgeInv, SomethingSurvives,
      Recovered, Promoted, Contents, Files, vars, told, write, budget, main, next, previous

----------------------------------------------------------------------------
\* The invariant the two recovery properties follow from.
THEOREM MetadataIsInductive == Spec => []MetadataInductive
<1>1. Init => MetadataInductive
  BY InitMetadata
<1>2. MetadataInductive /\ [Next]_vars => MetadataInductive'
  BY ReadKeeps, WriteKeeps, CrashKeeps, StutterKeeps DEF Next
<1> QED
  BY <1>1, <1>2, PTL DEF Spec

\* A file that once held something keeps holding something that parses,
\* whatever dies or is rejected, reads included.
THEOREM SomethingAlwaysSurvives == Spec => []SomethingSurvives
<1>1. MetadataInductive => SomethingSurvives
  BY DEF MetadataInductive
<1> QED
  BY <1>1, MetadataIsInductive, PTL

\* What the store was told last, or something newer, is what a read yields
\* after any deaths and failures of the swap.
THEOREM ConfirmedAlwaysSurvives == Spec => []ConfirmedSurvives
<1>1. MetadataInductive => ConfirmedSurvives
  BY MetadataAssumption
  DEF MetadataInductive, TypeOK, AgeInv, SomethingSurvives, ConfirmedSurvives,
      Recovered, Promoted, Contents, Files
<1> QED
  BY <1>1, MetadataIsInductive, PTL
============================================================================
