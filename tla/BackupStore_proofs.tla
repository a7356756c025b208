------------------------ MODULE BackupStore_proofs -------------------------
(* Proofs about BackupStore, for every value of its constants.             *)
EXTENDS BackupStore, TLAPS

----------------------------------------------------------------------------
(* Type correctness.                                                       *)

(* What the looks at the bucket answer is of the right type.               *)
LEMMA LooksTyped ==
    ASSUME TypeOK
    PROVE  /\ \A M \in SUBSET Stamps : IndexesOf(M) \subseteq Stamps \X Parts
           /\ Previous \subseteq Stamps \X Parts
           /\ PreviousKnown \subseteq Digests
           /\ SweepGone \subseteq Stamps
           /\ \A M : NamedBy(M) \subseteq Digests
  BY DEF TypeOK, BucketTypeOK, RunTypeOK, RemovalTypeOK, IndexesOf, Previous, Newest, PreviousKnown, SweepGone, NamedBy

LEMMA RememberTyped ==
    ASSUME TypeOK, NEW X \in SUBSET (Stamps \X Parts), Remember(X)
    PROVE  cache' \subseteq Stamps \X Parts
  BY DEF TypeOK, BucketTypeOK, RunTypeOK, RemovalTypeOK, Remember

LEMMA TypeInit == Init => TypeOK
  BY ConstantsAssumption DEF Init, TypeOK, BucketTypeOK, RunTypeOK, RemovalTypeOK, Times, Stamps

(* One case for each action, one step for each part of the type.  The      *)
(* looks at the bucket enter through the lemmas above.                     *)
LEMMA TypeStep == TypeOK /\ [Next]_vars => TypeOK'
  <1> SUFFICES ASSUME TypeOK, [Next]_vars PROVE TypeOK'
    OBVIOUS
  <1> USE ConstantsAssumption
  <1> USE DEF bucket, run, rest, rem, clock
  <1>s. \A k : Strikes(k) => faults' \in 0..MaxFaults
    BY DEF Strikes, TypeOK, RemovalTypeOK
  <1>1. ASSUME NEW chosen \in SUBSET Parts, StartBackup(chosen) PROVE TypeOK'
    <2>1. BucketTypeOK'
      BY <1>1 DEF StartBackup, NextStamp, TypeOK, BucketTypeOK, RunTypeOK, Stamps, Times
    <2>2. RunTypeOK'
      BY <1>1 DEF StartBackup, NextStamp, TypeOK, BucketTypeOK, RunTypeOK, Stamps, Times
    <2>3. RemovalTypeOK'
      BY <1>1, <1>s DEF StartBackup, NextStamp, TypeOK, BucketTypeOK, RunTypeOK, RemovalTypeOK, Removers
    <2> QED BY <2>1, <2>2, <2>3 DEF TypeOK
  <1>2. CASE ReadPrevious
    <2>1. BucketTypeOK'
      BY <1>2, LooksTyped, RememberTyped DEF ReadPrevious, CanRead, TypeOK, BucketTypeOK, RunTypeOK, Stamps, Times
    <2>2. RunTypeOK'
      BY <1>2, LooksTyped, RememberTyped DEF ReadPrevious, CanRead, TypeOK, BucketTypeOK, RunTypeOK, Stamps, Times
    <2>3. RemovalTypeOK'
      BY <1>2, <1>s, LooksTyped, RememberTyped DEF ReadPrevious, CanRead, TypeOK, BucketTypeOK, RunTypeOK, RemovalTypeOK, Removers
    <2> QED BY <2>1, <2>2, <2>3 DEF TypeOK
  <1>3. CASE ReadPreviousFails
    <2>1. BucketTypeOK'
      BY <1>3 DEF ReadPreviousFails, FailRun, TypeOK, BucketTypeOK, RunTypeOK, Stamps, Times
    <2>2. RunTypeOK'
      BY <1>3 DEF ReadPreviousFails, FailRun, TypeOK, BucketTypeOK, RunTypeOK, Stamps, Times
    <2>3. RemovalTypeOK'
      BY <1>3, <1>s DEF ReadPreviousFails, FailRun, TypeOK, BucketTypeOK, RunTypeOK, RemovalTypeOK, Removers
    <2> QED BY <2>1, <2>2, <2>3 DEF TypeOK
  <1>4. ASSUME NEW d \in Digests, ListKnown(d) PROVE TypeOK'
    <2>1. BucketTypeOK'
      BY <1>4 DEF ListKnown, TypeOK, BucketTypeOK, RunTypeOK, Stamps, Times
    <2>2. RunTypeOK'
      BY <1>4 DEF ListKnown, TypeOK, BucketTypeOK, RunTypeOK, Stamps, Times
    <2>3. RemovalTypeOK'
      BY <1>4, <1>s DEF ListKnown, TypeOK, BucketTypeOK, RunTypeOK, RemovalTypeOK, Removers
    <2> QED BY <2>1, <2>2, <2>3 DEF TypeOK
  <1>5. ASSUME NEW d \in Digests, PutObject(d) PROVE TypeOK'
    <2>1. BucketTypeOK'
      BY <1>5 DEF PutObject, TypeOK, BucketTypeOK, RunTypeOK, Stamps, Times
    <2>2. RunTypeOK'
      BY <1>5 DEF PutObject, TypeOK, BucketTypeOK, RunTypeOK, Stamps, Times
    <2>3. RemovalTypeOK'
      BY <1>5, <1>s DEF PutObject, TypeOK, BucketTypeOK, RunTypeOK, RemovalTypeOK, Removers
    <2> QED BY <2>1, <2>2, <2>3 DEF TypeOK
  <1>6. ASSUME NEW d \in Digests, PutObjectFails(d) PROVE TypeOK'
    <2>1. BucketTypeOK'
      BY <1>6 DEF PutObjectFails, FailRun, TypeOK, BucketTypeOK, RunTypeOK, Stamps, Times
    <2>2. RunTypeOK'
      BY <1>6 DEF PutObjectFails, FailRun, TypeOK, BucketTypeOK, RunTypeOK, Stamps, Times
    <2>3. RemovalTypeOK'
      BY <1>6, <1>s DEF PutObjectFails, FailRun, TypeOK, BucketTypeOK, RunTypeOK, RemovalTypeOK, Removers
    <2> QED BY <2>1, <2>2, <2>3 DEF TypeOK
  <1>7. ASSUME NEW d \in Digests, PutObjectSkipped(d) PROVE TypeOK'
    <2>1. BucketTypeOK'
      BY <1>7 DEF PutObjectSkipped, TypeOK, BucketTypeOK, RunTypeOK, Stamps, Times
    <2>2. RunTypeOK'
      BY <1>7 DEF PutObjectSkipped, TypeOK, BucketTypeOK, RunTypeOK, Stamps, Times
    <2>3. RemovalTypeOK'
      BY <1>7, <1>s DEF PutObjectSkipped, TypeOK, BucketTypeOK, RunTypeOK, RemovalTypeOK, Removers
    <2> QED BY <2>1, <2>2, <2>3 DEF TypeOK
  <1>8. ASSUME NEW d \in Digests, PutUnstable(d) PROVE TypeOK'
    <2>1. BucketTypeOK'
      BY <1>8 DEF PutUnstable, TypeOK, BucketTypeOK, RunTypeOK, Stamps, Times
    <2>2. RunTypeOK'
      BY <1>8 DEF PutUnstable, TypeOK, BucketTypeOK, RunTypeOK, Stamps, Times
    <2>3. RemovalTypeOK'
      BY <1>8, <1>s DEF PutUnstable, TypeOK, BucketTypeOK, RunTypeOK, RemovalTypeOK, Removers
    <2> QED BY <2>1, <2>2, <2>3 DEF TypeOK
  <1>9. ASSUME NEW p \in Parts, PutIndex(p) PROVE TypeOK'
    <2>1. BucketTypeOK'
      BY <1>9 DEF PutIndex, TypeOK, BucketTypeOK, RunTypeOK, Stamps, Times
    <2>2. RunTypeOK'
      BY <1>9 DEF PutIndex, TypeOK, BucketTypeOK, RunTypeOK, Stamps, Times
    <2>3. RemovalTypeOK'
      BY <1>9, <1>s DEF PutIndex, TypeOK, BucketTypeOK, RunTypeOK, RemovalTypeOK, Removers
    <2> QED BY <2>1, <2>2, <2>3 DEF TypeOK
  <1>10. CASE PutIndexFails
    <2>0. \E p \in Parts : /\ names' = names \/ names' = [names EXCEPT ![stamp][p] = entries]
                           /\ indexes' = indexes \/ indexes' = indexes \cup {<<stamp, p>>}
      BY <1>10 DEF PutIndexFails, TypeOK, RunTypeOK
    <2>a. entries \in SUBSET Digests /\ (pc = "walk" => stamp \in Stamps) /\ pc = "walk"
      BY <1>10 DEF PutIndexFails, TypeOK, RunTypeOK
    <2>b. names' \in [Stamps -> [Parts -> SUBSET Digests]]
      BY <2>0, <2>a DEF TypeOK, BucketTypeOK
    <2>c. indexes' \subseteq Stamps \X Parts
      BY <2>0, <2>a DEF TypeOK, BucketTypeOK
    <2>1. BucketTypeOK'
      BY <1>10, <2>b, <2>c DEF PutIndexFails, TypeOK, BucketTypeOK, Times, Stamps, clock
    <2>2. RunTypeOK'
      BY <1>10 DEF PutIndexFails, FailRun, TypeOK, BucketTypeOK, RunTypeOK, Stamps, Times
    <2>3. RemovalTypeOK'
      BY <1>10, <1>s DEF PutIndexFails, FailRun, TypeOK, BucketTypeOK, RunTypeOK, RemovalTypeOK, Removers
    <2> QED BY <2>1, <2>2, <2>3 DEF TypeOK
  <1>11. CASE PutManifest
    <2>1. BucketTypeOK'
      BY <1>11 DEF PutManifest, TypeOK, BucketTypeOK, RunTypeOK, Stamps, Times
    <2>2. RunTypeOK'
      BY <1>11 DEF PutManifest, TypeOK, BucketTypeOK, RunTypeOK, Stamps, Times
    <2>3. RemovalTypeOK'
      BY <1>11, <1>s DEF PutManifest, TypeOK, BucketTypeOK, RunTypeOK, RemovalTypeOK, Removers
    <2> QED BY <2>1, <2>2, <2>3 DEF TypeOK
  <1>12. CASE PutManifestFails
    <2>1. BucketTypeOK'
      BY <1>12 DEF PutManifestFails, FailRun, TypeOK, BucketTypeOK, RunTypeOK, Stamps, Times
    <2>2. RunTypeOK'
      BY <1>12 DEF PutManifestFails, FailRun, TypeOK, BucketTypeOK, RunTypeOK, Stamps, Times
    <2>3. RemovalTypeOK'
      BY <1>12, <1>s DEF PutManifestFails, FailRun, TypeOK, BucketTypeOK, RunTypeOK, RemovalTypeOK, Removers
    <2> QED BY <2>1, <2>2, <2>3 DEF TypeOK
  <1>13. CASE TakeBack
    <2>1. BucketTypeOK'
      BY <1>13, LooksTyped, RememberTyped DEF TakeBack, EndRun, Unneeded, TypeOK, BucketTypeOK, RunTypeOK, Stamps, Times
    <2>2. RunTypeOK'
      BY <1>13, LooksTyped, RememberTyped DEF TakeBack, EndRun, Unneeded, TypeOK, BucketTypeOK, RunTypeOK, Stamps, Times
    <2>3. RemovalTypeOK'
      BY <1>13, <1>s, LooksTyped, RememberTyped DEF TakeBack, EndRun, Unneeded, TypeOK, BucketTypeOK, RunTypeOK, RemovalTypeOK, Removers
    <2> QED BY <2>1, <2>2, <2>3 DEF TypeOK
  <1>14. CASE TakeBackFails
    <2>1. BucketTypeOK'
      BY <1>14 DEF TakeBackFails, EndRun, TypeOK, BucketTypeOK, RunTypeOK, Stamps, Times
    <2>2. RunTypeOK'
      BY <1>14 DEF TakeBackFails, EndRun, TypeOK, BucketTypeOK, RunTypeOK, Stamps, Times
    <2>3. RemovalTypeOK'
      BY <1>14, <1>s DEF TakeBackFails, EndRun, TypeOK, BucketTypeOK, RunTypeOK, RemovalTypeOK, Removers
    <2> QED BY <2>1, <2>2, <2>3 DEF TypeOK
  <1>15. CASE Sweep
    <2>1. BucketTypeOK'
      BY <1>15, LooksTyped, RememberTyped DEF Sweep, EndRun, SetOut, Unneeded, TypeOK, BucketTypeOK, RunTypeOK, Stamps, Times
    <2>2. RunTypeOK'
      BY <1>15, LooksTyped, RememberTyped DEF Sweep, EndRun, SetOut, Unneeded, TypeOK, BucketTypeOK, RunTypeOK, Stamps, Times
    <2>3. RemovalTypeOK'
      BY <1>15, <1>s, LooksTyped, RememberTyped DEF Sweep, EndRun, SetOut, Unneeded, TypeOK, BucketTypeOK, RunTypeOK, RemovalTypeOK, Removers
    <2> QED BY <2>1, <2>2, <2>3 DEF TypeOK
  <1>16. CASE SweepFails
    <2>1. BucketTypeOK'
      BY <1>16 DEF SweepFails, EndRun, TypeOK, BucketTypeOK, RunTypeOK, Stamps, Times
    <2>2. RunTypeOK'
      BY <1>16 DEF SweepFails, EndRun, TypeOK, BucketTypeOK, RunTypeOK, Stamps, Times
    <2>3. RemovalTypeOK'
      BY <1>16, <1>s DEF SweepFails, EndRun, TypeOK, BucketTypeOK, RunTypeOK, RemovalTypeOK, Removers
    <2> QED BY <2>1, <2>2, <2>3 DEF TypeOK
  <1>17. ASSUME NEW a \in Admins, NEW s \in Stamps, DeleteBackup(a, s) PROVE TypeOK'
    <2>1. BucketTypeOK'
      BY <1>17, LooksTyped, RememberTyped DEF DeleteBackup, SetOut, Unneeded, Removers, TypeOK, BucketTypeOK, RunTypeOK, Stamps, Times
    <2>2. RunTypeOK'
      BY <1>17, LooksTyped, RememberTyped DEF DeleteBackup, SetOut, Unneeded, Removers, TypeOK, BucketTypeOK, RunTypeOK, Stamps, Times
    <2>3. RemovalTypeOK'
      BY <1>17, <1>s, LooksTyped, RememberTyped DEF DeleteBackup, SetOut, Unneeded, Removers, TypeOK, BucketTypeOK, RunTypeOK, RemovalTypeOK, Removers
    <2> QED BY <2>1, <2>2, <2>3 DEF TypeOK
  <1>18. ASSUME NEW r \in Removers, NEW d \in Digests, DropObject(r, d) PROVE TypeOK'
    <2>1. BucketTypeOK'
      BY <1>18 DEF DropObject, TypeOK, BucketTypeOK, RunTypeOK, Stamps, Times
    <2>2. RunTypeOK'
      BY <1>18 DEF DropObject, TypeOK, BucketTypeOK, RunTypeOK, Stamps, Times
    <2>3. RemovalTypeOK'
      BY <1>18, <1>s DEF DropObject, TypeOK, BucketTypeOK, RunTypeOK, RemovalTypeOK, Removers
    <2> QED BY <2>1, <2>2, <2>3 DEF TypeOK
  <1>19. ASSUME NEW r \in Removers, DropFolder(r) PROVE TypeOK'
    <2>a. names' \in [Stamps -> [Parts -> SUBSET Digests]]
      <3>1. [p \in Parts |-> {}] \in [Parts -> SUBSET Digests]
        OBVIOUS
      <3>2. names' = names \/ \E s \in Stamps : names' = [names EXCEPT ![s] = [p \in Parts |-> {}]]
        BY <1>19 DEF DropFolder, TypeOK, RemovalTypeOK
      <3> QED BY <3>1, <3>2 DEF TypeOK, BucketTypeOK
    <2>b. indexes' \subseteq indexes /\ manifests' \subseteq manifests
      BY <1>19 DEF DropFolder
    <2>1. BucketTypeOK'
      BY <1>19, <2>a, <2>b DEF DropFolder, TypeOK, BucketTypeOK, Times, clock
    <2>2. RunTypeOK'
      BY <1>19 DEF DropFolder, TypeOK, BucketTypeOK, RunTypeOK, Stamps, Times
    <2>3. RemovalTypeOK'
      BY <1>19, <1>s DEF DropFolder, TypeOK, BucketTypeOK, RunTypeOK, RemovalTypeOK, Removers
    <2> QED BY <2>1, <2>2, <2>3 DEF TypeOK
  <1>20. ASSUME NEW r \in Removers, RemovalFails(r) PROVE TypeOK'
    <2>1. BucketTypeOK'
      BY <1>20 DEF RemovalFails, TypeOK, BucketTypeOK, RunTypeOK, Stamps, Times
    <2>2. RunTypeOK'
      BY <1>20 DEF RemovalFails, TypeOK, BucketTypeOK, RunTypeOK, Stamps, Times
    <2>3. RemovalTypeOK'
      BY <1>20, <1>s DEF RemovalFails, TypeOK, BucketTypeOK, RunTypeOK, RemovalTypeOK, Removers
    <2> QED BY <2>1, <2>2, <2>3 DEF TypeOK
  <1>21. ASSUME NEW s \in Stamps, NEW p \in Parts, StartRestore(s, p) PROVE TypeOK'
    <2>0. cache' \subseteq Stamps \X Parts
      <3>1. {<<s, p>>} \in SUBSET (Stamps \X Parts)
        OBVIOUS
      <3> QED BY <1>21, <3>1, RememberTyped DEF StartRestore
    <2>1. BucketTypeOK'
      BY <1>21, <2>0 DEF StartRestore, TypeOK, BucketTypeOK, RunTypeOK, Stamps, Times
    <2>2. RunTypeOK'
      BY <1>21 DEF StartRestore, TypeOK, BucketTypeOK, RunTypeOK, Stamps, Times
    <2>3. RemovalTypeOK'
      BY <1>21, <1>s DEF StartRestore, TypeOK, BucketTypeOK, RunTypeOK, RemovalTypeOK, Removers
    <2> QED BY <2>1, <2>2, <2>3 DEF TypeOK
  <1>22. ASSUME NEW d \in Digests, RestoreFile(d) PROVE TypeOK'
    <2>1. BucketTypeOK'
      BY <1>22 DEF RestoreFile, TypeOK, BucketTypeOK, RunTypeOK, Stamps, Times
    <2>2. RunTypeOK'
      BY <1>22 DEF RestoreFile, TypeOK, BucketTypeOK, RunTypeOK, Stamps, Times
    <2>3. RemovalTypeOK'
      BY <1>22, <1>s DEF RestoreFile, TypeOK, BucketTypeOK, RunTypeOK, RemovalTypeOK, Removers
    <2> QED BY <2>1, <2>2, <2>3 DEF TypeOK
  <1>23. CASE FinishRestore
    <2>1. BucketTypeOK'
      BY <1>23 DEF FinishRestore, EndRun, TypeOK, BucketTypeOK, RunTypeOK, Stamps, Times
    <2>2. RunTypeOK'
      BY <1>23 DEF FinishRestore, EndRun, TypeOK, BucketTypeOK, RunTypeOK, Stamps, Times
    <2>3. RemovalTypeOK'
      BY <1>23, <1>s DEF FinishRestore, EndRun, TypeOK, BucketTypeOK, RunTypeOK, RemovalTypeOK, Removers
    <2> QED BY <2>1, <2>2, <2>3 DEF TypeOK
  <1>24. CASE Tick
    <2>1. BucketTypeOK'
      BY <1>24 DEF Tick, TypeOK, BucketTypeOK, RunTypeOK, Stamps, Times
    <2>2. RunTypeOK'
      BY <1>24 DEF Tick, TypeOK, BucketTypeOK, RunTypeOK, Stamps, Times
    <2>3. RemovalTypeOK'
      BY <1>24, <1>s DEF Tick, TypeOK, BucketTypeOK, RunTypeOK, RemovalTypeOK, Removers
    <2> QED BY <2>1, <2>2, <2>3 DEF TypeOK
  <1>25. CASE Crash
    <2>1. BucketTypeOK'
      BY <1>25 DEF Crash, EndRun, TypeOK, BucketTypeOK, RunTypeOK, Stamps, Times
    <2>2. RunTypeOK'
      BY <1>25 DEF Crash, EndRun, TypeOK, BucketTypeOK, RunTypeOK, Stamps, Times
    <2>3. RemovalTypeOK'
      BY <1>25, <1>s DEF Crash, EndRun, TypeOK, BucketTypeOK, RunTypeOK, RemovalTypeOK, Removers
    <2> QED BY <2>1, <2>2, <2>3 DEF TypeOK
  <1>26. CASE UNCHANGED vars
    BY <1>26 DEF vars, TypeOK, BucketTypeOK, RunTypeOK, RemovalTypeOK
  <1> QED
    BY <1>1, <1>2, <1>3, <1>4, <1>5, <1>6, <1>7, <1>8, <1>9, <1>10, <1>11, <1>12, <1>13,
       <1>14, <1>15, <1>16, <1>17, <1>18, <1>19, <1>20, <1>21, <1>22, <1>23, <1>24, <1>25, <1>26
       DEF Next, Backup, Removal, Restore

(* Every variable keeps its type, whatever trouble the instance meets.     *)
THEOREM TypeCorrect == Spec => []TypeOK
  BY TypeInit, TypeStep, PTL DEF Spec

----------------------------------------------------------------------------
(* A stamp is used once.                                                   *)

LEMMA StampInit == Init => StampInv
  BY DEF Init, StampInv, Folder

(* The clock and the stamps only grow, and what a step adds to the bucket, *)
(* or to the doomed, bears the run's own stamp or one already there.       *)
LEMMA StampGrows ==
    ASSUME TypeOK, StampInv,
           now' \in Times, lastStamp' = lastStamp, now <= now',
           indexes' \subseteq indexes \cup ({stamp} \X Parts) \/ indexes' \subseteq indexes,
           manifests' \subseteq manifests \cup {stamp},
           \A s \in doomed' \ doomed : Folder(s),
           \/ pc = "walk" /\ pc' # "previous" /\ (pc' = "walk" => stamp' = stamp /\ manifests' = manifests)
           \/ /\ pc' \in {"previous", "walk"} => pc \in {"previous", "walk"} /\ stamp' = stamp
              /\ indexes' \subseteq indexes /\ manifests' \subseteq manifests
    PROVE  StampInv'
  <1> USE DEF TypeOK, BucketTypeOK, Stamps, Times
  <1>1. ASSUME NEW s \in Stamps, Folder(s)' \/ s \in doomed' PROVE s <= lastStamp' \/ s < now'
    <2>1. Folder(s) \/ s \in doomed \/ (s = stamp /\ pc = "walk")
      BY <1>1 DEF Folder
    <2>2. CASE Folder(s) \/ s \in doomed
      BY <2>2, ConstantsAssumption DEF StampInv
    <2>3. CASE s = stamp /\ pc = "walk"
      BY <2>3, ConstantsAssumption DEF StampInv
    <2> QED BY <2>1, <2>2, <2>3
  <1>2. pc' \in {"previous", "walk"} => stamp' = lastStamp' /\ \A s \in manifests' : s < stamp'
    BY DEF StampInv
  <1> QED BY <1>1, <1>2 DEF StampInv

LEMMA StampStep == TypeOK /\ StampInv /\ [Next]_vars => StampInv'
  <1> SUFFICES ASSUME TypeOK, StampInv, [Next]_vars PROVE StampInv'
    OBVIOUS
  <1> USE ConstantsAssumption
  <1> USE DEF bucket, run, rest, rem, clock
  <1>t. now \in Times /\ lastStamp \in Times \cup {0} /\ now <= now
    BY DEF TypeOK, BucketTypeOK, Times
  <1>1. ASSUME NEW chosen \in SUBSET Parts, StartBackup(chosen) PROVE StampInv'
    <2>1. NextStamp > lastStamp /\ NextStamp >= now /\ NextStamp \in Stamps
      BY <1>1, <1>t DEF StartBackup, NextStamp, Times, Stamps
    <2>2. /\ UNCHANGED <<now, indexes, manifests, doomed>>
          /\ lastStamp' = NextStamp /\ stamp' = NextStamp
      BY <1>1 DEF StartBackup
    <2>3. \A s \in Stamps : Folder(s)' = Folder(s)
      BY <2>2 DEF Folder
    <2>4. \A s \in manifests : s \in Stamps /\ Folder(s)
      BY DEF Folder, TypeOK, BucketTypeOK
    <2> QED BY <1>t, <2>1, <2>2, <2>3, <2>4 DEF StampInv, Stamps, Times
  <1>2. CASE ReadPrevious \/ ReadPreviousFails
    BY <1>2, <1>t, StampGrows DEF ReadPrevious, ReadPreviousFails, FailRun
  <1>3. ASSUME NEW d \in Digests,
               ListKnown(d) \/ PutObject(d) \/ PutObjectFails(d) \/ PutObjectSkipped(d) \/ PutUnstable(d)
        PROVE  StampInv'
    BY <1>3, <1>t, StampGrows DEF ListKnown, PutObject, PutObjectFails, PutObjectSkipped, PutUnstable, FailRun
  <1>4. ASSUME NEW p \in Parts, PutIndex(p) PROVE StampInv'
    <2>1. /\ UNCHANGED <<now, lastStamp, manifests, pc, stamp, doomed>> /\ pc = "walk"
          /\ indexes' \subseteq indexes \cup ({stamp} \X Parts)
      BY <1>4 DEF PutIndex
    <2> QED BY <2>1, <1>t, StampGrows
  <1>5. CASE PutIndexFails \/ PutManifestFails \/ PutManifest
    <2>1. /\ UNCHANGED <<now, lastStamp, stamp, doomed>>
          /\ manifests' \subseteq manifests \cup {stamp}
          /\ indexes' \subseteq indexes \cup ({stamp} \X Parts)
          /\ pc = "walk" /\ pc' \in {"takeback", "sweep"}
      <3>1. CASE PutIndexFails
        <4>1. PICK p \in todo : indexes' \subseteq indexes \cup {<<stamp, p>>}
          BY <3>1 DEF PutIndexFails
        <4>2. p \in Parts
          BY DEF TypeOK, RunTypeOK
        <4> QED BY <3>1, <4>1, <4>2 DEF PutIndexFails, FailRun
      <3>2. CASE PutManifestFails \/ PutManifest
        BY <3>2 DEF PutManifestFails, PutManifest, FailRun
      <3> QED BY <1>5, <3>1, <3>2
    <2> QED BY <2>1, <1>t, StampGrows
  <1>6. CASE TakeBack \/ TakeBackFails \/ SweepFails
    BY <1>6, <1>t, StampGrows DEF TakeBack, TakeBackFails, SweepFails, EndRun
  <1>7. CASE Sweep
    <2>1. doomed' \subseteq doomed \cup SweepGone /\ UNCHANGED <<now, lastStamp, indexes, manifests>> /\ pc' = "idle"
      BY <1>7 DEF Sweep, SetOut, EndRun
    <2> QED BY <2>1, <1>t, StampGrows DEF SweepGone
  <1>8. ASSUME NEW a \in Admins, NEW s \in Stamps, DeleteBackup(a, s) PROVE StampInv'
    BY <1>8, <1>t, StampGrows DEF DeleteBackup, SetOut
  <1>9. ASSUME NEW r \in Removers,
               (\E d \in Digests : DropObject(r, d)) \/ DropFolder(r) \/ RemovalFails(r)
        PROVE  StampInv'
    <2>1. /\ UNCHANGED <<now, lastStamp, pc, stamp, doomed>>
          /\ indexes' \subseteq indexes /\ manifests' \subseteq manifests
      BY <1>9 DEF DropObject, DropFolder, RemovalFails
    <2> QED BY <2>1, <1>t, StampGrows
  <1>10. CASE Restore
    BY <1>10, <1>t, StampGrows DEF Restore, StartRestore, RestoreFile, FinishRestore, EndRun
  <1>11. CASE Tick
    <2>1. now' \in Times /\ now <= now'
      BY <1>11, <1>t DEF Tick, Times
    <2> QED BY <2>1, <1>11, StampGrows DEF Tick
  <1>12. CASE Crash
    <2>1. /\ now' \in Times /\ now' > now /\ now' > lastStamp /\ lastStamp' = 0 /\ pc' = "idle"
          /\ UNCHANGED <<indexes, manifests, doomed>>
      BY <1>12 DEF Crash, EndRun
    <2>2. \A s \in Stamps : Folder(s)' = Folder(s)
      BY <2>1 DEF Folder
    <2> QED BY <2>1, <2>2, <1>t DEF StampInv, Stamps, Times
  <1>13. CASE UNCHANGED vars
    BY <1>13, <1>t, StampGrows DEF vars
  <1> QED
    BY <1>1, <1>2, <1>3, <1>4, <1>5, <1>6, <1>7, <1>8, <1>9, <1>10, <1>11, <1>12, <1>13
       DEF Next, Backup, Removal

LEMMA StampsKept == Spec => []StampInv
  BY TypeCorrect, StampInit, StampStep, PTL DEF Spec

(* Only a backup writes names and parts, and only those of its own stamp,  *)
(* which StampInv keeps apart from every finished snapshot's.              *)
LEMMA FrozenStep ==
    ASSUME TypeOK, StampInv, [Next]_vars,
           NEW s \in manifests \cap manifests'
    PROVE  names'[s] = names[s] /\ parts'[s] = parts[s]
  <1> USE ConstantsAssumption
  <1> USE DEF bucket, run, rest, rem, clock, TypeOK, BucketTypeOK, StampInv, Stamps, Times
  <1> DEFINE Same == names'[s] = names[s] /\ parts'[s] = parts[s]
  <1>1. ASSUME NEW chosen \in SUBSET Parts, StartBackup(chosen) PROVE Same
    <2>1. NextStamp # s
      BY DEF NextStamp, Folder
    <2> QED BY <1>1, <2>1 DEF StartBackup
  <1>2. ASSUME NEW p \in Parts, PutIndex(p) PROVE Same
    <2>1. stamp # s
      BY <1>2 DEF PutIndex
    <2> QED BY <1>2, <2>1 DEF PutIndex
  <1>3. CASE PutIndexFails
    <2>1. stamp # s
      BY <1>3 DEF PutIndexFails
    <2> QED BY <1>3, <2>1 DEF PutIndexFails
  <1>4. ASSUME NEW r \in Removers, DropFolder(r) PROVE Same
    BY <1>4 DEF DropFolder, Folder
  <1>5. CASE UNCHANGED <<names, parts>>
    BY <1>5
  <1>6. CASE ReadPrevious \/ ReadPreviousFails \/ PutManifest \/ PutManifestFails
             \/ TakeBack \/ TakeBackFails \/ Sweep \/ SweepFails
    BY <1>6, <1>5 DEF ReadPrevious, ReadPreviousFails, PutManifest, PutManifestFails,
                     TakeBack, TakeBackFails, Sweep, SweepFails
  <1>7. ASSUME NEW d \in Digests,
               ListKnown(d) \/ PutObject(d) \/ PutObjectFails(d) \/ PutObjectSkipped(d) \/ PutUnstable(d)
        PROVE  Same
    BY <1>7, <1>5 DEF ListKnown, PutObject, PutObjectFails, PutObjectSkipped, PutUnstable
  <1>8. CASE (\E a \in Admins, t \in Stamps : DeleteBackup(a, t))
             \/ (\E r \in Removers : RemovalFails(r) \/ \E d \in Digests : DropObject(r, d))
    BY <1>8, <1>5 DEF DeleteBackup, RemovalFails, DropObject
  <1>9. CASE Restore \/ Tick \/ Crash \/ UNCHANGED vars
    BY <1>9, <1>5 DEF Restore, StartRestore, RestoreFile, FinishRestore, Tick, Crash, vars
  <1> QED
    BY <1>1, <1>2, <1>3, <1>4, <1>6, <1>7, <1>8, <1>9 DEF Next, Backup, Removal

(* No later run writes into a finished snapshot: for every trouble there   *)
(* is, every number of snapshots and any retention.                        *)
THEOREM FinishedStayFrozen == Spec => FinishedFrozen
  <1>1. TypeOK /\ StampInv /\ [Next]_vars
          => [\A s \in manifests \cap manifests' :
                names'[s] = names[s] /\ parts'[s] = parts[s]]_vars
    BY FrozenStep
  <1> QED BY <1>1, TypeCorrect, StampsKept, PTL DEF Spec, FinishedFrozen

----------------------------------------------------------------------------
(* What a finished snapshot names is kept, as long as the administrator    *)
(* waits, removals are whole and files hold still under their upload.      *)

Orderly == Hazards \cap {"overlap", "delete", "unstable"} = {}

(* A slot that is held: no removal is under way, so none is left half done.*)
LEMMA HeldSlot ==
    ASSUME TypeOK, RunSound, RemovalSound, pc # "idle"
    PROVE  /\ \A r \in Removers : drop[r] = {} /\ going[r] = {}
           /\ doomed \cap manifests = {}
  BY DEF RunSound, RemovalSound, Removing

(* What is kept of what the snapshots name when nothing joins them.        *)
LEMMA NamesKept ==
    ASSUME TypeOK, StampInv, [Next]_vars, manifests' \ doomed' \subseteq manifests \ doomed
    PROVE  /\ NamedBy(manifests \ doomed)' \subseteq NamedBy(manifests \ doomed)
           /\ \A s \in manifests' \ doomed' : NamedBy({s})' = NamedBy({s})
  BY FrozenStep DEF NamedBy

LEMMA CompleteKept ==
    ASSUME TypeOK, StampInv, [Next]_vars, Complete,
           manifests' \ doomed' \subseteq manifests \ doomed,
           objects \cap NamedBy(manifests \ doomed) \subseteq objects'
    PROVE  Complete'
  <1> SUFFICES ASSUME NEW s \in manifests' \ doomed', NEW d \in NamedBy({s})' PROVE d \in objects'
    BY DEF Complete
  <1>1. d \in NamedBy({s})
    BY NamesKept
  <1>2. s \in manifests \ doomed /\ d \in objects
    BY <1>1 DEF Complete
  <1>3. d \in NamedBy(manifests \ doomed)
    BY <1>1, <1>2 DEF NamedBy
  <1> QED BY <1>2, <1>3

LEMMA LegibleKept ==
    ASSUME TypeOK, StampInv, [Next]_vars, Legible, manifests' \subseteq manifests,
           \A s \in manifests' : \/ \E r \in Removers : s \in going'[r]
                                \/ /\ ~\E r \in Removers : s \in going[r]
                                   /\ \A p \in Parts : <<s, p>> \in indexes => <<s, p>> \in indexes'
    PROVE  Legible'
  <1> SUFFICES ASSUME NEW s \in manifests', ~\E r \in Removers : s \in going'[r],
                      NEW p \in Parts, p \in parts'[s]
               PROVE  <<s, p>> \in indexes'
    BY DEF Legible, IndexesOf
  <1>1. parts'[s] = parts[s]
    BY FrozenStep
  <1>2. <<s, p>> \in indexes
    BY <1>1 DEF Legible, IndexesOf
  <1> QED BY <1>2

LEMMA KeepInit == Init => KeepInv
  BY DEF Init, KeepInv, RunSound, RemovalSound, Complete, Legible, Removing

(* Steps that touch neither the bucket nor a removal: only what the run    *)
(* itself holds can go wrong.                                              *)
LEMMA KeepQuiet ==
    ASSUME TypeOK, StampInv, KeepInv, [Next]_vars, UNCHANGED <<bucket, rem>>, RunSound'
    PROVE  KeepInv'
  BY DEF KeepInv, RemovalSound, Complete, Legible, NamedBy, IndexesOf, bucket, rem

(* A run that fails, or ends, holds nothing that could be unsound.         *)
LEMMA RunOver ==
    ASSUME pc' \in {"idle", "takeback", "sweep"}, UNCHANGED <<drop, going>>,
           RunSound, pc # "idle"
    PROVE  RunSound'
  BY DEF RunSound, Removing

LEMMA KeepStepBackup ==
    ASSUME Orderly, TypeOK, StampInv, KeepInv, Backup
    PROVE  KeepInv'
  <1>n. [Next]_vars
    BY DEF Next
  <1>h. pc # "idle" => /\ \A r \in Removers : drop[r] = {} /\ going[r] = {}
                       /\ doomed \cap manifests = {}
    BY HeldSlot DEF KeepInv
  <1>t. /\ names \in [Stamps -> [Parts -> SUBSET Digests]] /\ parts \in [Stamps -> SUBSET Parts]
        /\ manifests \subseteq Stamps /\ (pc # "idle" => stamp \in Stamps)
    BY DEF TypeOK, BucketTypeOK, RunTypeOK
  <1>k. RunSound /\ RemovalSound /\ Complete /\ Legible
    BY DEF KeepInv
  <1>1. ASSUME NEW chosen \in SUBSET Parts, StartBackup(chosen) PROVE KeepInv'
    <2>1. \A r \in Removers : ~Removing(r)
      BY <1>1 DEF StartBackup, SlotFree, MayStart, Orderly, NobodyDeletes, Removers
    <2>2. UNCHANGED <<objects, names, indexes, manifests, drop, going, doomed>>
      BY <1>1 DEF StartBackup, rem
    <2>0. NextStamp \in Stamps /\ NextStamp \notin doomed
      BY <1>1, ConstantsAssumption DEF StartBackup, NextStamp, StampInv, Stamps, Times, TypeOK, BucketTypeOK
    <2>3. RunSound'
      BY <1>1, <1>t, <2>0, <2>1, <2>2 DEF StartBackup, RunSound, Removing
    <2>4. RemovalSound'
      BY <2>1, <2>2, <1>k DEF RemovalSound, Removing
    <2>5. Complete'
      BY <2>2, <1>k, <1>n, CompleteKept
    <2>6. Legible'
      BY <2>2, <1>k, <1>n, LegibleKept
    <2> QED BY <2>3, <2>4, <2>5, <2>6 DEF KeepInv
  <1>2. CASE ReadPrevious
    <2>1. PreviousKnown \subseteq objects
      <3> SUFFICES ASSUME NEW d \in PreviousKnown PROVE d \in objects
        OBVIOUS
      <3>1. PICK x \in Previous : d \in names[x[1]][x[2]]
        BY DEF PreviousKnown
      <3>2. x[1] \in manifests /\ x[2] \in parts[x[1]]
        BY <1>t DEF Previous, IndexesOf, Newest
      <3>3. d \in NamedBy({x[1]})
        BY <3>1, <3>2, <1>t DEF NamedBy, PreviousKnown
      <3> QED BY <3>2, <3>3, <1>2, <1>h, <1>k DEF Complete, ReadPrevious
    <2>2. RunSound'
      BY <2>1, <1>2, <1>k DEF ReadPrevious, RunSound, Removing, bucket, rem
    <2> QED BY <2>2, <1>2, <1>n, KeepQuiet DEF ReadPrevious
  <1>3. CASE ReadPreviousFails \/ TakeBackFails
    <2>1. RunSound'
      BY <1>3, <1>k, RunOver DEF ReadPreviousFails, TakeBackFails, FailRun, EndRun, rem
    <2> QED BY <2>1, <1>3, <1>n, KeepQuiet DEF ReadPreviousFails, TakeBackFails
  <1>4. ASSUME NEW d \in Digests, ListKnown(d) PROVE KeepInv'
    <2>1. RunSound'
      BY <1>4, <1>k DEF ListKnown, RunSound, Removing, bucket, rem
    <2> QED BY <2>1, <1>4, <1>n, KeepQuiet DEF ListKnown
  <1>5. ASSUME NEW d \in Digests, PutObject(d) \/ PutObjectFails(d) \/ PutObjectSkipped(d) PROVE KeepInv'
    <2>1. /\ UNCHANGED <<names, indexes, parts, manifests, drop, going, doomed>>
          /\ objects \subseteq objects' /\ pc = "walk"
      BY <1>5 DEF PutObject, PutObjectFails, PutObjectSkipped, rem
    <2>2. RunSound'
      <3>1. CASE PutObjectFails(d)
        BY <3>1, <2>1, <1>k, RunOver DEF PutObjectFails, FailRun
      <3>2. CASE PutObject(d)
        BY <3>2, <2>1, <1>k DEF PutObject, RunSound, Removing
      <3>3. CASE PutObjectSkipped(d)
        BY <3>3, <2>1, <1>k DEF PutObjectSkipped, RunSound, Removing, run
      <3> QED BY <1>5, <3>1, <3>2, <3>3
    <2>3. RemovalSound'
      BY <2>1, <1>h DEF RemovalSound
    <2>4. Complete'
      BY <2>1, <1>k, <1>n, CompleteKept
    <2>5. Legible'
      BY <2>1, <1>k, <1>n, LegibleKept
    <2> QED BY <2>2, <2>3, <2>4, <2>5 DEF KeepInv
  <1>6. ASSUME NEW d \in Digests, PutUnstable(d) PROVE KeepInv'
    BY <1>6 DEF PutUnstable, Strikes, Orderly
  <1>7. ASSUME NEW p \in Parts, PutIndex(p) PROVE KeepInv'
    <2>1. /\ UNCHANGED <<objects, manifests, drop, going, doomed, pc, stamp, known>>
          /\ names' = [names EXCEPT ![stamp][p] = entries]
          /\ parts' = [parts EXCEPT ![stamp] = @ \cup {p}]
          /\ indexes' = indexes \cup {<<stamp, p>>} /\ entries' = {} /\ pc = "walk"
      BY <1>7 DEF PutIndex, rem
    <2>2. RunSound'
      <3>1. \A q \in parts'[stamp] : names'[stamp][q] \subseteq known /\ <<stamp, q>> \in indexes'
        BY <2>1, <1>t, <1>k DEF RunSound
      <3> QED BY <2>1, <3>1, <1>k DEF RunSound, Removing
    <2>3. RemovalSound'
      BY <2>1, <1>h DEF RemovalSound
    <2>4. Complete'
      BY <2>1, <1>k, <1>n, CompleteKept
    <2>5. Legible'
      BY <2>1, <1>k, <1>n, LegibleKept
    <2> QED BY <2>2, <2>3, <2>4, <2>5 DEF KeepInv
  <1>8. CASE PutIndexFails
    <2>1. /\ UNCHANGED <<objects, manifests, drop, going, doomed>>
          /\ indexes \subseteq indexes' /\ pc = "walk" /\ pc' = "takeback"
      BY <1>8 DEF PutIndexFails, FailRun, rem
    <2>2. RunSound'
      BY <2>1, <1>k, RunOver
    <2>3. RemovalSound'
      BY <2>1, <1>h DEF RemovalSound
    <2>4. Complete'
      BY <2>1, <1>k, <1>n, CompleteKept
    <2>5. Legible'
      BY <2>1, <1>k, <1>n, LegibleKept
    <2> QED BY <2>2, <2>3, <2>4, <2>5 DEF KeepInv
  <1>9. CASE PutManifest \/ PutManifestFails
    <2>1. /\ UNCHANGED <<objects, names, parts, indexes, drop, going, doomed>>
          /\ manifests' \in {manifests, manifests \cup {stamp}}
          /\ pc = "walk" /\ pc' \in {"takeback", "sweep"}
      BY <1>9 DEF PutManifest, PutManifestFails, FailRun, rem
    <2>2. RunSound'
      BY <2>1, <1>k, RunOver
    <2>3. NamedBy({stamp}) \subseteq objects /\ IndexesOf({stamp}) \subseteq indexes
      <3>1. \A p \in parts[stamp] : names[stamp][p] \subseteq objects /\ <<stamp, p>> \in indexes
        BY <2>1, <1>k DEF RunSound
      <3>2. NamedBy({stamp}) \subseteq objects
        BY <3>1 DEF NamedBy
      <3>3. ASSUME NEW x \in IndexesOf({stamp}) PROVE x \in indexes
        <4>1. PICK p \in Parts : x = <<stamp, p>>
          BY DEF IndexesOf
        <4> QED BY <3>1, <4>1 DEF IndexesOf
      <3> QED BY <3>2, <3>3
    <2>4. RemovalSound'
      <3>1. \A r \in Removers : drop'[r] = {}
        BY <2>1, <1>h
      <3>2. stamp \notin doomed
        BY <2>1, <1>k DEF RunSound
      <3>3. doomed' \cap manifests' = {}
        BY <2>1, <3>2, <1>h
      <3> QED BY <3>1, <3>3 DEF RemovalSound
    <2>5. Complete'
      BY <2>1, <2>3, <1>k DEF Complete, NamedBy
    <2>6. Legible'
      BY <2>1, <2>3, <1>k DEF Legible, IndexesOf
    <2> QED BY <2>2, <2>4, <2>5, <2>6 DEF KeepInv
  <1>10. CASE TakeBack
    <2>1. /\ UNCHANGED <<objects, names, parts, indexes, manifests, going, doomed>>
          /\ pc = "takeback" /\ pc' = "idle"
          /\ drop' \in {drop, [drop EXCEPT ![Server] = Unneeded(uploaded, manifests)]}
      BY <1>10 DEF TakeBack, EndRun, bucket
    <2>2. RunSound'
      BY <2>1 DEF RunSound
    <2>3. RemovalSound'
      <3>1. \A r \in Removers : drop'[r] \cap NamedBy(manifests) = {}
        BY <2>1, <1>h DEF Unneeded, TypeOK, RemovalTypeOK
      <3> QED BY <2>1, <3>1, <1>k DEF RemovalSound, NamedBy
    <2>4. Complete'
      BY <2>1, <1>k, <1>n, CompleteKept
    <2>5. Legible'
      BY <2>1, <1>k, <1>n, LegibleKept
    <2> QED BY <2>2, <2>3, <2>4, <2>5 DEF KeepInv
  <1> QED
    BY <1>1, <1>2, <1>3, <1>4, <1>5, <1>6, <1>7, <1>8, <1>9, <1>10 DEF Backup

LEMMA KeepStepRemoval ==
    ASSUME Orderly, TypeOK, StampInv, KeepInv, Removal
    PROVE  KeepInv'
  <1>n. [Next]_vars
    BY DEF Next
  <1>h. pc # "idle" => /\ \A r \in Removers : drop[r] = {} /\ going[r] = {}
                       /\ doomed \cap manifests = {}
    BY HeldSlot DEF KeepInv
  <1>t. /\ drop \in [Removers -> SUBSET Digests] /\ going \in [Removers -> SUBSET Stamps]
        /\ manifests \subseteq Stamps
    BY DEF TypeOK, BucketTypeOK, RemovalTypeOK
  <1>k. RunSound /\ RemovalSound /\ Complete /\ Legible
    BY DEF KeepInv
  (* A removal that sets out: what it drops no other snapshot needs.       *)
  <1>s. ASSUME NEW r \in Removers, NEW gone \in SUBSET Stamps, SetOut(r, gone), going[r] = {},
               pc' = "idle", UNCHANGED bucket
        PROVE  KeepInv'
    <2>1. RunSound'
      BY <1>s DEF RunSound
    <2>2. UNCHANGED <<objects, names, indexes, parts, manifests>>
      BY <1>s DEF bucket
    <2>3. /\ \A q \in Removers : going[q] \subseteq going'[q]
          /\ gone \subseteq going'[r] /\ doomed' = doomed \cup gone
          /\ drop'[r] = Unneeded(NamedBy(manifests \cap gone), manifests \ gone)
          /\ \A q \in Removers \ {r} : drop'[q] = drop[q]
      BY <1>s, <1>t DEF SetOut
    <2>4. RemovalSound'
      <3>1. \A s \in doomed' \cap manifests' : \E q \in Removers : s \in going'[q]
        BY <2>2, <2>3, <1>k DEF RemovalSound
      <3>2. NamedBy(manifests \ doomed)' \subseteq NamedBy(manifests \ doomed) \cap NamedBy(manifests \ gone)
        BY <2>2, <2>3 DEF NamedBy
      <3>3. \A q \in Removers : drop'[q] \cap NamedBy(manifests \ doomed)' = {}
        BY <3>2, <2>3, <1>k DEF RemovalSound, Unneeded
      <3> QED BY <3>1, <3>3 DEF RemovalSound
    <2>5. Complete'
      BY <2>2, <2>3, <1>k, <1>n, CompleteKept
    <2>6. Legible'
      BY <2>2, <2>3, <1>k DEF Legible, IndexesOf
    <2> QED BY <2>1, <2>4, <2>5, <2>6 DEF KeepInv
  <1>1. CASE Sweep
    <2>1. CASE SweepGone = {}
      BY <2>1, <1>1, <1>n, <1>k, KeepQuiet, RunOver DEF Sweep, EndRun, rem
    <2>2. CASE SweepGone # {}
      <3>1. Server \in Removers /\ SweepGone \in SUBSET Stamps
        BY DEF Removers, SweepGone
      <3>2. going[Server] = {} /\ SetOut(Server, SweepGone) /\ pc' = "idle" /\ UNCHANGED bucket
        BY <1>1, <2>2, <3>1, <1>h DEF Sweep, EndRun
      <3> QED BY <3>1, <3>2, <1>s
    <2> QED BY <2>1, <2>2
  <1>2. CASE SweepFails
    BY <1>2, <1>n, <1>k, KeepQuiet, RunOver DEF SweepFails, EndRun, rem
  <1>3. ASSUME NEW a \in Admins, NEW s \in Stamps, DeleteBackup(a, s) PROVE KeepInv'
    <2>1. a \in Removers /\ {s} \in SUBSET Stamps /\ pc = "idle" /\ going[a] = {}
      BY <1>3 DEF DeleteBackup, MayDelete, SlotFree, Orderly, Removing, Removers
    <2>2. SetOut(a, {s}) /\ pc' = "idle" /\ UNCHANGED bucket
      BY <1>3, <2>1 DEF DeleteBackup
    <2> QED BY <2>1, <2>2, <1>s
  <1>4. ASSUME NEW r \in Removers, NEW d \in Digests, DropObject(r, d) PROVE KeepInv'
    <2>1. /\ UNCHANGED <<names, indexes, parts, manifests, going, doomed, pc>>
          /\ objects' = objects \ {d} /\ d \in drop[r] /\ pc = "idle"
          /\ drop' = [drop EXCEPT ![r] = @ \ {d}]
      BY <1>4, <1>h DEF DropObject
    <2>2. RunSound'
      BY <2>1 DEF RunSound
    <2>3. NamedBy(manifests \ doomed)' = NamedBy(manifests \ doomed)
      BY <2>1 DEF NamedBy
    <2>4. RemovalSound'
      BY <2>1, <2>3, <1>t, <1>k DEF RemovalSound
    <2>5. d \notin NamedBy(manifests \ doomed)
      BY <2>1, <1>k DEF RemovalSound
    <2>6. Complete'
      BY <2>1, <2>5, <1>k, <1>n, CompleteKept
    <2>7. Legible'
      BY <2>1, <1>k, <1>n, LegibleKept
    <2> QED BY <2>2, <2>4, <2>6, <2>7 DEF KeepInv
  <1>5. ASSUME NEW r \in Removers, DropFolder(r) PROVE KeepInv'
    <2>1. PICK s \in going[r] :
            \/ (\E x \in Early(s) \cup Late(s) : indexes' = indexes \ {x}) /\ UNCHANGED <<manifests, going>>
            \/ manifests' = manifests \ {s} /\ UNCHANGED <<indexes, going>>
            \/ ~Folder(s) /\ going' = [going EXCEPT ![r] = @ \ {s}] /\ UNCHANGED <<indexes, manifests>>
      BY <1>5 DEF DropFolder
    <2>2. UNCHANGED <<objects, parts, drop, doomed, pc>> /\ pc = "idle"
      BY <1>5, <2>1, <1>h DEF DropFolder
    <2>3. \A x \in Early(s) \cup Late(s) : x[1] = s
      BY DEF Early, Late
    <2>4. /\ manifests' \subseteq manifests
          /\ \A q \in Removers : going'[q] \subseteq going[q]
          /\ \A t \in manifests', q \in Removers : t \in going[q] => t \in going'[q]
          /\ \A t \in manifests', p \in Parts : t # s /\ <<t, p>> \in indexes => <<t, p>> \in indexes'
      <3>1. CASE (\E x \in Early(s) \cup Late(s) : indexes' = indexes \ {x}) /\ UNCHANGED <<manifests, going>>
        <4>1. PICK x \in Early(s) \cup Late(s) : indexes' = indexes \ {x}
          BY <3>1
        <4>2. \A t \in Stamps, p \in Parts : t # s => <<t, p>> # x
          BY <2>3
        <4> QED BY <3>1, <4>1, <4>2, <1>t
      <3>2. CASE manifests' = manifests \ {s} /\ UNCHANGED <<indexes, going>>
        BY <3>2
      <3>3. CASE ~Folder(s) /\ going' = [going EXCEPT ![r] = @ \ {s}] /\ UNCHANGED <<indexes, manifests>>
        BY <3>3, <1>t DEF Folder
      <3> QED BY <2>1, <3>1, <3>2, <3>3
    <2>5. RunSound'
      BY <2>2 DEF RunSound
    <2>6. RemovalSound'
      <3>1. NamedBy(manifests \ doomed)' \subseteq NamedBy(manifests \ doomed)
        BY <2>2, <2>4, <1>n, NamesKept
      <3>2. \A q \in Removers : drop'[q] \cap NamedBy(manifests \ doomed)' = {}
        BY <3>1, <2>2, <1>k DEF RemovalSound
      <3>3. \A t \in doomed' \cap manifests' : \E q \in Removers : t \in going'[q]
        BY <2>2, <2>4, <1>k DEF RemovalSound
      <3> QED BY <3>2, <3>3 DEF RemovalSound
    <2>7. Complete'
      BY <2>2, <2>4, <1>k, <1>n, CompleteKept
    <2>8. Legible'
      BY <2>4, <2>1, <1>k, <1>n, LegibleKept
    <2> QED BY <2>5, <2>6, <2>7, <2>8 DEF KeepInv
  <1>6. ASSUME NEW r \in Removers, RemovalFails(r) PROVE KeepInv'
    BY <1>6 DEF RemovalFails, Strikes, Orderly
  <1> QED
    BY <1>1, <1>2, <1>3, <1>4, <1>5, <1>6 DEF Removal

LEMMA KeepStep == Orderly /\ TypeOK /\ StampInv /\ KeepInv /\ [Next]_vars => KeepInv'
  <1> SUFFICES ASSUME Orderly, TypeOK, StampInv, KeepInv, [Next]_vars PROVE KeepInv'
    OBVIOUS
  <1>k. RunSound /\ RemovalSound /\ Complete /\ Legible
    BY DEF KeepInv
  <1>1. ASSUME NEW s \in Stamps, NEW p \in Parts, StartRestore(s, p) PROVE KeepInv'
    <2>1. \A r \in Removers : ~Removing(r)
      BY <1>1 DEF StartRestore, SlotFree, MayStart, Orderly, NobodyDeletes, Removers
    <2>2. pc' = "restore" /\ UNCHANGED rem
      BY <1>1 DEF StartRestore
    <2>3. RunSound'
      BY <2>1, <2>2 DEF RunSound, Removing, rem
    <2> QED BY <2>3, <1>1, KeepQuiet DEF StartRestore
  <1>2. ASSUME NEW d \in Digests, RestoreFile(d) PROVE KeepInv'
    <2>1. RunSound'
      BY <1>2, <1>k DEF RestoreFile, RunSound, Removing, rem
    <2> QED BY <2>1, <1>2, KeepQuiet DEF RestoreFile
  <1>3. CASE FinishRestore
    BY <1>3, <1>k, KeepQuiet, RunOver DEF FinishRestore, EndRun, rem
  <1>4. CASE Tick
    <2>1. RunSound'
      BY <1>4, <1>k DEF Tick, RunSound, Removing, bucket, run, rem
    <2> QED BY <2>1, <1>4, KeepQuiet DEF Tick
  <1>5. CASE Crash
    <2>1. \A r \in Removers : going[r] = {} /\ drop[r] = {}
      BY <1>5 DEF Crash, Orderly, Removing
    <2>2. /\ UNCHANGED <<objects, names, indexes, parts, manifests, doomed>> /\ pc' = "idle"
          /\ \A r \in Removers : going'[r] = {} /\ drop'[r] = {}
      BY <1>5 DEF Crash, EndRun, bucket
    <2>3. RunSound'
      BY <2>2 DEF RunSound
    <2>4. RemovalSound'
      BY <2>1, <2>2, <1>k DEF RemovalSound
    <2>5. Complete'
      BY <2>2, <1>k, CompleteKept
    <2>6. Legible'
      BY <2>1, <2>2, <1>k, LegibleKept
    <2> QED BY <2>3, <2>4, <2>5, <2>6 DEF KeepInv
  <1>6. CASE UNCHANGED vars
    <2>1. RunSound'
      BY <1>6, <1>k DEF vars, RunSound, Removing, bucket, run, rem
    <2> QED BY <2>1, <1>6, KeepQuiet DEF vars
  <1> QED
    BY <1>1, <1>2, <1>3, <1>4, <1>5, <1>6, KeepStepBackup, KeepStepRemoval DEF Next, Restore

(* What a restore has still to write is named by its snapshot, which       *)
(* nobody sets out to remove meanwhile.                                    *)
RestoreSound ==
    pc = "restore" =>
        /\ stamp \in manifests \ doomed
        /\ left \subseteq NamedBy({stamp})
        /\ faults = 0 => skipped = {}

LEMMA RestoreStep ==
    ASSUME Orderly, TypeOK, KeepInv, RestoreSound, [Next]_vars
    PROVE  RestoreSound'
  <1> USE DEF bucket, run, rest, rem, clock
  <1>t. /\ faults \in Nat /\ parts \in [Stamps -> SUBSET Parts]
        /\ names \in [Stamps -> [Parts -> SUBSET Digests]]
    BY DEF TypeOK, BucketTypeOK, RemovalTypeOK
  <1>k. RunSound /\ RemovalSound /\ Complete
    BY DEF KeepInv
  <1>1. CASE pc' # "restore"
    BY <1>1 DEF RestoreSound
  <1>2. CASE UNCHANGED <<pc, stamp, left, skipped, faults, bucket, doomed>>
    BY <1>2 DEF RestoreSound, NamedBy
  <1>3. CASE Backup
    <2>1. pc' # "restore"
      BY <1>3 DEF Backup, StartBackup, ReadPrevious, ReadPreviousFails, ListKnown, PutObject, PutObjectFails,
                  PutObjectSkipped, PutUnstable, PutIndex, PutIndexFails, PutManifest, PutManifestFails,
                  TakeBack, TakeBackFails, FailRun, EndRun
    <2> QED BY <2>1, <1>1
  <1>4. CASE Removal
    <2>1. CASE Sweep \/ SweepFails
      BY <2>1, <1>1 DEF Sweep, SweepFails, EndRun
    <2>2. ASSUME NEW a \in Admins, NEW s \in Stamps, DeleteBackup(a, s) PROVE RestoreSound'
      BY <2>2, <1>1 DEF DeleteBackup, MayDelete, SlotFree, Orderly
    <2>3. ASSUME NEW r \in Removers, (\E d \in Digests : DropObject(r, d)) \/ DropFolder(r) \/ RemovalFails(r)
          PROVE  RestoreSound'
      <3>1. Removing(r) /\ pc' = pc
        BY <2>3 DEF DropObject, DropFolder, RemovalFails, Removing
      <3>2. pc = "idle"
        BY <3>1, <1>k DEF RunSound
      <3> QED BY <3>1, <3>2, <1>1
    <2> QED BY <1>4, <2>1, <2>2, <2>3 DEF Removal
  <1>5. ASSUME NEW s \in Stamps, NEW p \in Parts, StartRestore(s, p) PROVE RestoreSound'
    <2>1. \A r \in Removers : ~Removing(r)
      BY <1>5 DEF StartRestore, SlotFree, MayStart, Orderly, NobodyDeletes, Removers
    <2>2. s \in manifests /\ p \in parts[s] /\ stamp' = s /\ left' = names[s][p] /\ skipped' = {}
          /\ UNCHANGED <<names, parts, manifests, doomed>>
      BY <1>5 DEF StartRestore
    <2>3. s \notin doomed
      BY <2>1, <2>2, <1>k DEF RemovalSound, Removing
    <2>4. names[s][p] \subseteq NamedBy({s})
      BY <2>2, <1>t DEF NamedBy
    <2>5. NamedBy({s})' = NamedBy({s})
      BY <2>2 DEF NamedBy
    <2> QED BY <2>2, <2>3, <2>4, <2>5 DEF RestoreSound
  <1>6. ASSUME NEW d \in Digests, RestoreFile(d) PROVE RestoreSound'
    <2>1. /\ pc = "restore" /\ d \in left /\ left' = left \ {d}
          /\ UNCHANGED <<names, parts, manifests, stamp, doomed>>
      BY <1>6 DEF RestoreFile
    <2>2. d \in objects
      BY <2>1, <1>k DEF RestoreSound, Complete
    <2>3. faults' = 0 => faults = 0 /\ skipped' = skipped
      <3>1. faults' = faults + 1 => faults' # 0
        BY <1>t
      <3>2. (faults' = faults /\ skipped' = skipped) \/ faults' = faults + 1
        BY <1>6, <2>2 DEF RestoreFile, Strikes
      <3> QED BY <3>1, <3>2
    <2>4. NamedBy({stamp})' = NamedBy({stamp})
      BY <2>1 DEF NamedBy
    <2>5. stamp' \in manifests' \ doomed' /\ left' \subseteq NamedBy({stamp})'
      BY <2>1, <2>4 DEF RestoreSound
    <2> QED BY <2>1, <2>3, <2>5 DEF RestoreSound
  <1>7. CASE FinishRestore \/ Crash
    BY <1>7, <1>1 DEF FinishRestore, Crash, EndRun
  <1>8. CASE Tick \/ UNCHANGED vars
    BY <1>8, <1>2 DEF Tick, vars
  <1> QED BY <1>3, <1>4, <1>5, <1>6, <1>7, <1>8 DEF Next, Restore

(* What is finished is there, can be read and is restored whole until      *)
(* somebody sets out to remove it, for any number of files, parts,         *)
(* snapshots and administrators, any retention, and however many requests  *)
(* are refused, answers lost and processes ended.                          *)
THEOREM KeptWhole ==
    ASSUME Orderly
    PROVE  Spec => []Whole
  <1>1. Init => RestoreSound
    BY DEF Init, RestoreSound
  <1>2. TypeOK /\ KeepInv /\ RestoreSound /\ [Next]_vars => RestoreSound'
    BY RestoreStep
  <1>3. KeepInv /\ RestoreSound => Whole
    BY DEF KeepInv, RestoreSound, RestoreWhole, Whole
  <1> QED BY <1>1, <1>2, <1>3, TypeCorrect, StampsKept, KeepInit, KeepStep, PTL DEF Spec

(* A sweep that the bucket answers takes up all that is past its days: it  *)
(* finds the index of every finished snapshot, for none is half removed.   *)
THEOREM SweepsTakeAged ==
    ASSUME Orderly
    PROVE  Spec => SweepTakesAged
  <1>1. ASSUME TypeOK, KeepInv, [Next]_vars, pc = "sweep", pc' = "idle", faults' = faults,
               NEW s \in manifests, now > s + KeepDays
        PROVE  s \in going'[Server]
    <2>1. \A kind : ~Strikes(kind)
      BY <1>1 DEF Strikes, TypeOK, RemovalTypeOK
    <2>2. IndexesOf(manifests) \subseteq indexes
      <3>1. \A r \in Removers : going[r] = {}
        BY <1>1, HeldSlot DEF KeepInv
      <3>2. \A t \in manifests : IndexesOf({t}) \subseteq indexes
        BY <1>1, <3>1 DEF KeepInv, Legible
      <3> QED BY <3>2 DEF IndexesOf
    <2>3. s \in SweepGone
      BY <1>1 DEF SweepGone, Folder, Aged, TypeOK, BucketTypeOK
    <2>4. ~SweepFails
      BY <2>1, <2>2 DEF SweepFails, CanRead
    <2>5. CASE Sweep
      BY <1>1, <2>3, <2>5 DEF Sweep, SetOut, Removers, TypeOK, RemovalTypeOK
    <2>6. ASSUME pc' = pc PROVE FALSE
      BY <1>1, <2>6
    <2> QED
      BY <1>1, <2>1, <2>4, <2>5, <2>6
      DEF Next, Backup, Removal, Restore, StartBackup, ReadPrevious, ReadPreviousFails, ListKnown, PutObject,
          PutObjectFails, PutObjectSkipped, PutUnstable, PutIndex, PutIndexFails, PutManifest, PutManifestFails,
          TakeBack, TakeBackFails, DeleteBackup, DropObject, DropFolder, RemovalFails, StartRestore, RestoreFile,
          FinishRestore, Tick, Crash, vars
  <1>2. TypeOK /\ KeepInv /\ [Next]_vars
          => [pc = "sweep" /\ pc' = "idle" /\ faults' = faults
                => \A s \in manifests : now > s + KeepDays => s \in going'[Server]]_vars
    BY <1>1
  <1> QED BY <1>2, TypeCorrect, StampsKept, KeepInit, KeepStep, PTL DEF Spec, SweepTakesAged

----------------------------------------------------------------------------
(* Nothing is left over either, where one administrator deletes at a time, *)
(* no answer is lost, no process ends, and a run meets trouble once.       *)

Tidy ==
    /\ Hazards \cap {"overlap", "lost", "crash"} = {}
    /\ "put" \in Hazards => MaxFaults <= 1
    /\ \A a, b \in Admins : a = b

(* One thing at a time: a run, or a removal.                               *)
OneAtATime ==
    /\ pc # "idle" => \A r \in Removers : ~Removing(r)
    /\ \A r, q \in Removers : Removing(r) /\ Removing(q) => r = q

(* What a run put up, the snapshot it makes will name.                     *)
UpIsNamed ==
    /\ pc \in {"idle", "previous", "restore"} => uploaded = {}
    /\ pc = "previous" => entries = {} /\ parts[stamp] = {}
    /\ pc = "walk" => /\ uploaded \subseteq entries \cup NamedBy({stamp})
                      /\ entries # {} => todo # {}
                      /\ todo \cap parts[stamp] = {}
                      /\ \A p \in parts[stamp] : <<stamp, p>> \in indexes
    /\ pc = "sweep" => uploaded \subseteq NamedBy(manifests)

(* A run that put objects up and failed can read what they are taken back  *)
(* by: the one trouble that is met was its own.                            *)
Failed == pc = "takeback" /\ uploaded # {}
FailedOnce ==
    /\ Failed => "put" \in Hazards /\ ~(faults < MaxFaults)
    /\ "put" \in Hazards /\ (faults < MaxFaults \/ Failed) => Legible

(* Every object is a finished snapshot's, or in the hands of the run or of *)
(* a remover; and a remover has those only its snapshots name.             *)
Accounted ==
    /\ objects \subseteq NamedBy(manifests) \cup uploaded \cup UNION {drop[r] : r \in Removers}
    /\ \A r \in Removers :
          /\ objects \cap NamedBy(manifests \cap going[r]) \subseteq NamedBy(manifests \ going[r]) \cup drop[r]
          /\ drop[r] \subseteq NamedBy(manifests) \/ ~(faults < MaxFaults)

TidyInv == OneAtATime /\ UpIsNamed /\ FailedOnce /\ Accounted

LEMMA Alone ==
    ASSUME OneAtATime, pc # "idle"
    PROVE  \A r \in Removers : drop[r] = {} /\ going[r] = {}
  BY DEF OneAtATime, Removing

LEMMA RemovesAlone ==
    ASSUME OneAtATime, NEW r \in Removers, Removing(r)
    PROVE  pc = "idle" /\ \A q \in Removers \ {r} : drop[q] = {} /\ going[q] = {}
  BY DEF OneAtATime, Removing

(* Where nobody removes, and who may set out.                              *)
LEMMA NobodyRemoves ==
    ASSUME Tidy, SlotFree, MayStart
    PROVE  \A r \in Removers : ~Removing(r)
  BY DEF Tidy, SlotFree, MayStart, NobodyDeletes, Removers

LEMMA DeletesAlone ==
    ASSUME Tidy, OneAtATime, NEW a \in Admins, ~Removing(a), MayDelete
    PROVE  pc = "idle" /\ \A r \in Removers : ~Removing(r)
  BY DEF Tidy, SlotFree, MayDelete, Removers

LEMMA OneAtATimeStep ==
    ASSUME Tidy, TypeOK, OneAtATime, [Next]_vars
    PROVE  OneAtATime'
  <1> USE DEF rem, run, rest, bucket, clock
  <1>1. ASSUME pc' # "idle" => pc # "idle", \A r \in Removers : Removing(r)' => Removing(r) PROVE OneAtATime'
    BY <1>1 DEF OneAtATime
  <1>2. ASSUME \A r \in Removers : ~Removing(r), UNCHANGED rem PROVE OneAtATime'
    BY <1>2 DEF OneAtATime, Removing
  <1>3. ASSUME NEW r \in Removers, pc' = "idle", \A q \in Removers : ~Removing(q),
               \A q \in Removers \ {r} : drop'[q] = drop[q] /\ going'[q] = going[q]
        PROVE  OneAtATime'
    BY <1>3 DEF OneAtATime, Removing
  <1>t. drop \in [Removers -> SUBSET Digests] /\ going \in [Removers -> SUBSET Stamps] /\ Server \in Removers
    BY DEF TypeOK, RemovalTypeOK, Removers
  <1>4. (\E chosen \in SUBSET Parts : StartBackup(chosen)) => OneAtATime'
    BY <1>2, NobodyRemoves DEF StartBackup
  <1>5. (\E s \in Stamps, p \in Parts : StartRestore(s, p)) => OneAtATime'
    BY <1>2, NobodyRemoves DEF StartRestore
  <1>6. CASE TakeBack \/ Sweep
    <2>1. pc # "idle" /\ pc' = "idle"
      BY <1>6 DEF TakeBack, Sweep, EndRun
    <2>2. \A q \in Removers : ~Removing(q)
      BY <2>1 DEF OneAtATime
    <2>3. \A q \in Removers \ {Server} : drop'[q] = drop[q] /\ going'[q] = going[q]
      BY <1>t, <1>6 DEF TakeBack, Sweep, SetOut
    <2> QED BY <1>3, <1>t, <2>1, <2>2, <2>3
  <1>7. ASSUME NEW a \in Admins, NEW s \in Stamps, DeleteBackup(a, s) PROVE OneAtATime'
    <2>1. a \in Removers /\ pc' = "idle" /\ \A r \in Removers : ~Removing(r)
      BY <1>7, DeletesAlone DEF DeleteBackup, Removers
    <2>2. \A q \in Removers \ {a} : drop'[q] = drop[q] /\ going'[q] = going[q]
      BY <1>t, <1>7 DEF DeleteBackup, SetOut
    <2> QED BY <1>3, <2>1, <2>2
  <1>8. ASSUME NEW r \in Removers, (\E d \in Digests : DropObject(r, d)) \/ DropFolder(r) \/ RemovalFails(r)
        PROVE  OneAtATime'
    <2>1. pc' = pc /\ Removing(r)
      BY <1>8 DEF DropObject, DropFolder, RemovalFails, Removing
    <2>2. \A q \in Removers : drop'[q] \subseteq drop[q] /\ going'[q] \subseteq going[q]
      BY <1>t, <1>8 DEF DropObject, DropFolder, RemovalFails
    <2>3. \A q \in Removers : Removing(q)' => Removing(q)
      BY <2>2 DEF Removing
    <2> QED BY <1>1, <2>1, <2>3
  <1>9. ASSUME pc' # "idle" => pc # "idle", UNCHANGED <<drop, going>> PROVE OneAtATime'
    BY <1>1, <1>9 DEF Removing
  <1>10. ~Crash
    BY DEF Crash, Strikes, Tidy
  <1> QED
    BY <1>4, <1>5, <1>6, <1>7, <1>8, <1>9, <1>10
    DEF Next, Backup, Removal, Restore, ReadPrevious, ReadPreviousFails, ListKnown, PutObject,
        PutObjectFails, PutObjectSkipped, PutUnstable, PutIndex, PutIndexFails, PutManifest, PutManifestFails,
        TakeBackFails, SweepFails, RestoreFile, FinishRestore, FailRun, EndRun, Tick, vars

LEMMA UpIsNamedStep ==
    ASSUME Tidy, TypeOK, OneAtATime, UpIsNamed, [Next]_vars
    PROVE  UpIsNamed'
  <1> USE DEF rem, run, rest, bucket, clock
  <1>t. /\ names \in [Stamps -> [Parts -> SUBSET Digests]] /\ parts \in [Stamps -> SUBSET Parts]
        /\ pc # "idle" => stamp \in Stamps
        /\ todo \subseteq Parts /\ entries \subseteq Digests
    BY DEF TypeOK, BucketTypeOK, RunTypeOK
  <1>1. ASSUME UNCHANGED <<pc, uploaded, entries, todo, stamp, names, parts, indexes, manifests>> PROVE UpIsNamed'
    BY <1>1 DEF UpIsNamed, NamedBy
  <1>2. ASSUME pc' = "idle", uploaded' = {} PROVE UpIsNamed'
    BY <1>2 DEF UpIsNamed
  <1>3. ASSUME pc' = "takeback" PROVE UpIsNamed'
    BY <1>3 DEF UpIsNamed
  <1>4. ASSUME NEW chosen \in SUBSET Parts, StartBackup(chosen) PROVE UpIsNamed'
    BY <1>t, <1>4 DEF StartBackup, UpIsNamed
  <1>5. CASE ReadPrevious
    BY <1>5 DEF ReadPrevious, UpIsNamed
  <1>6. ASSUME NEW d \in Digests, ListKnown(d) \/ PutObject(d) PROVE UpIsNamed'
    <2>1. NamedBy({stamp})' = NamedBy({stamp})
      BY <1>6 DEF ListKnown, PutObject, NamedBy
    <2> QED BY <1>6, <2>1 DEF ListKnown, PutObject, UpIsNamed
  <1>7. ASSUME NEW p \in Parts, PutIndex(p) PROVE UpIsNamed'
    <2>1. /\ UNCHANGED <<pc, stamp, uploaded>> /\ pc = "walk" /\ p \in todo /\ todo' = todo \ {p} /\ entries' = {}
          /\ names' = [names EXCEPT ![stamp][p] = entries]
          /\ parts' = [parts EXCEPT ![stamp] = @ \cup {p}]
          /\ indexes' = indexes \cup {<<stamp, p>>}
      BY <1>7 DEF PutIndex
    <2>2. stamp \in Stamps /\ p \notin parts[stamp]
      BY <1>t, <2>1 DEF UpIsNamed
    <2>3. /\ parts'[stamp] = parts[stamp] \cup {p} /\ names'[stamp][p] = entries
          /\ \A q \in Parts : q # p => names'[stamp][q] = names[stamp][q]
      BY <1>t, <2>1, <2>2
    <2>4. NamedBy({stamp}) \cup entries \subseteq NamedBy({stamp})'
      BY <1>t, <2>1, <2>2, <2>3 DEF NamedBy
    <2> QED BY <2>1, <2>2, <2>3, <2>4 DEF UpIsNamed
  <1>8. CASE PutManifest
    <2>1. uploaded \subseteq NamedBy({stamp})
      BY <1>8 DEF PutManifest, UpIsNamed
    <2>2. NamedBy({stamp}) \subseteq NamedBy(manifests)'
      BY <1>8 DEF PutManifest, NamedBy
    <2> QED BY <1>8, <2>1, <2>2 DEF PutManifest, UpIsNamed
  <1>9. CASE ReadPreviousFails \/ PutIndexFails \/ PutManifestFails \/ \E d \in Digests : PutObjectFails(d)
    BY <1>3, <1>9 DEF ReadPreviousFails, PutIndexFails, PutManifestFails, PutObjectFails, FailRun
  <1>10. CASE TakeBack \/ TakeBackFails \/ Sweep \/ SweepFails \/ FinishRestore
    BY <1>2, <1>10 DEF TakeBack, TakeBackFails, Sweep, SweepFails, FinishRestore, EndRun
  <1>11. ASSUME NEW a \in Admins, NEW s \in Stamps, DeleteBackup(a, s) PROVE UpIsNamed'
    BY <1>1, <1>11 DEF DeleteBackup
  <1>12. ASSUME NEW r \in Removers, (\E d \in Digests : DropObject(r, d)) \/ DropFolder(r) \/ RemovalFails(r)
         PROVE  UpIsNamed'
    <2>1. pc' = pc /\ uploaded' = uploaded /\ Removing(r)
      BY <1>12 DEF DropObject, DropFolder, RemovalFails, Removing
    <2>2. pc = "idle"
      BY <2>1, RemovesAlone
    <2> QED BY <1>2, <2>1, <2>2 DEF UpIsNamed
  <1>13. ASSUME NEW s \in Stamps, NEW p \in Parts, StartRestore(s, p) PROVE UpIsNamed'
    BY <1>13 DEF StartRestore, SlotFree, UpIsNamed
  <1>14. ~Crash
    BY DEF Crash, Strikes, Tidy
  <1> QED
    BY <1>1, <1>4, <1>5, <1>6, <1>7, <1>8, <1>9, <1>10, <1>11, <1>12, <1>13, <1>14
    DEF Next, Backup, Removal, Restore, PutObjectSkipped, PutUnstable, RestoreFile, Tick, vars

LEMMA FailedOnceStep ==
    ASSUME Tidy, TypeOK, StampInv, OneAtATime, UpIsNamed, FailedOnce, [Next]_vars
    PROVE  FailedOnce'
  <1> USE DEF rem, run, rest, bucket, clock
  <1>t. /\ faults \in Nat /\ MaxFaults \in Nat /\ faults <= MaxFaults
        /\ manifests \subseteq Stamps /\ parts \in [Stamps -> SUBSET Parts] /\ indexes \subseteq Stamps \X Parts
        /\ drop \in [Removers -> SUBSET Digests] /\ going \in [Removers -> SUBSET Stamps] /\ Server \in Removers
        /\ pc # "idle" => stamp \in Stamps
    BY ConstantsAssumption DEF TypeOK, BucketTypeOK, RunTypeOK, RemovalTypeOK, Removers
  (* Trouble that strikes is the only one where a request may be refused.  *)
  <1>f. ASSUME NEW kind, Strikes(kind)
        PROVE  kind \in Hazards /\ faults < MaxFaults /\ ("put" \in Hazards => ~(faults' < MaxFaults))
    BY <1>f, <1>t DEF Strikes, Tidy
  <1>1. ASSUME Legible => Legible', faults' = faults, Failed' => Failed PROVE FailedOnce'
    BY <1>1 DEF FailedOnce
  <1>2. ASSUME Strikes("put"), Legible => Legible' PROVE FailedOnce'
    BY <1>2, <1>f DEF FailedOnce
  <1>3. ASSUME NEW kind, Strikes(kind), ~Failed' PROVE FailedOnce'
    BY <1>3, <1>f DEF FailedOnce
  <1>4. ASSUME UNCHANGED <<parts, indexes, manifests, going>> PROVE Legible => Legible'
    BY <1>4 DEF Legible, IndexesOf
  <1>5. ASSUME manifests' \subseteq manifests, \A r \in Removers : going[r] \subseteq going'[r],
               \A s \in manifests' : parts'[s] = parts[s], indexes \subseteq indexes'
        PROVE  Legible => Legible'
    <2>1. \A s \in manifests' : IndexesOf({s})' = IndexesOf({s})
      BY <1>5 DEF IndexesOf
    <2> QED BY <1>5, <2>1 DEF Legible
  <1>6. ASSUME NEW chosen \in SUBSET Parts, StartBackup(chosen) PROVE FailedOnce'
    <2>1. \A s \in manifests : parts'[s] = parts[s]
      BY <1>6, FrozenStep DEF StartBackup
    <2>2. manifests' = manifests /\ indexes' = indexes /\ going' = going /\ faults' = faults /\ ~Failed'
      BY <1>6 DEF StartBackup, Failed
    <2> QED BY <1>1, <1>5, <2>1, <2>2
  <1>7. CASE ReadPrevious
    BY <1>1, <1>4, <1>7 DEF ReadPrevious, Failed
  <1>8. CASE ReadPreviousFails
    <2>1. ~Failed' /\ UNCHANGED <<parts, indexes, manifests, going>>
      BY <1>8 DEF ReadPreviousFails, FailRun, Failed, UpIsNamed
    <2>2. UNCHANGED faults \/ Strikes("put")
      BY <1>8 DEF ReadPreviousFails
    <2> QED BY <1>1, <1>3, <1>4, <2>1, <2>2
  <1>9. ASSUME NEW d \in Digests, ListKnown(d) \/ PutObject(d) PROVE FailedOnce'
    BY <1>1, <1>4, <1>9 DEF ListKnown, PutObject, Failed
  <1>10. ASSUME NEW d \in Digests, PutObjectFails(d) PROVE FailedOnce'
    <2>1. Strikes("put") \/ Strikes("lost")
      BY <1>10 DEF PutObjectFails
    <2>2. ~Strikes("lost") /\ UNCHANGED <<parts, indexes, manifests, going>>
      BY <1>10 DEF Strikes, Tidy, PutObjectFails
    <2> QED BY <1>2, <1>4, <2>1, <2>2
  <1>11. ASSUME NEW d \in Digests, PutObjectSkipped(d) \/ PutUnstable(d) PROVE FailedOnce'
    <2>1. ~Failed' /\ \E kind : Strikes(kind)
      BY <1>11 DEF PutObjectSkipped, PutUnstable, Failed
    <2> QED BY <1>3, <2>1
  <1>12. ASSUME NEW p \in Parts, PutIndex(p) PROVE FailedOnce'
    <2>1. \A s \in manifests : parts'[s] = parts[s]
      BY <1>12, FrozenStep DEF PutIndex
    <2>2. /\ manifests' = manifests /\ indexes \subseteq indexes' /\ going' = going /\ faults' = faults
          /\ ~Failed'
      BY <1>12 DEF PutIndex, Failed
    <2> QED BY <1>1, <1>5, <2>1, <2>2
  <1>13. CASE PutIndexFails
    <2>1. Strikes("put") /\ UNCHANGED <<parts, manifests, going>> /\ indexes' = indexes
      BY <1>13 DEF PutIndexFails, Strikes, Tidy
    <2> QED BY <1>2, <1>4, <2>1
  <1>14. CASE PutManifest
    <2>1. /\ manifests' = manifests \cup {stamp} /\ UNCHANGED <<parts, indexes, going, faults>>
          /\ pc = "walk" /\ ~Failed'
      BY <1>14 DEF PutManifest, Failed
    <2>2. IndexesOf({stamp}) \subseteq indexes
      <3>1. \A p \in parts[stamp] : <<stamp, p>> \in indexes
        BY <2>1 DEF UpIsNamed
      <3>2. ASSUME NEW x \in IndexesOf({stamp}) PROVE x \in indexes
        <4>1. PICK p \in Parts : x = <<stamp, p>>
          BY DEF IndexesOf
        <4> QED BY <3>1, <4>1 DEF IndexesOf
      <3> QED BY <3>2
    <2>3. Legible => Legible'
      BY <2>1, <2>2 DEF Legible, IndexesOf
    <2> QED BY <1>1, <2>1, <2>3
  <1>15. CASE PutManifestFails
    <2>1. Strikes("put") /\ UNCHANGED <<parts, indexes, going>> /\ manifests' = manifests
      BY <1>15 DEF PutManifestFails, Strikes, Tidy
    <2> QED BY <1>2, <1>4, <2>1
  <1>16. CASE TakeBack
    <2>1. UNCHANGED <<parts, indexes, manifests, going, faults>> /\ ~Failed'
      BY <1>16 DEF TakeBack, EndRun, Failed
    <2> QED BY <1>1, <1>4, <2>1
  <1>17. CASE TakeBackFails \/ SweepFails
    <2>1. ~Failed' /\ UNCHANGED <<parts, indexes, manifests, going>>
      BY <1>17 DEF TakeBackFails, SweepFails, EndRun, Failed
    <2>2. UNCHANGED faults \/ Strikes("put")
      BY <1>17 DEF TakeBackFails, SweepFails
    <2> QED BY <1>1, <1>3, <1>4, <2>1, <2>2
  <1>18. CASE Sweep
    <2>1. UNCHANGED <<parts, indexes, manifests, faults>> /\ pc = "sweep" /\ ~Failed'
      BY <1>18 DEF Sweep, EndRun, Failed
    <2>2. \A r \in Removers : going[r] \subseteq going'[r]
      BY <2>1, Alone
    <2> QED BY <1>1, <1>5, <2>1, <2>2
  <1>19. ASSUME NEW a \in Admins, NEW s \in Stamps, DeleteBackup(a, s) PROVE FailedOnce'
    <2>1. UNCHANGED <<parts, indexes, manifests, faults, pc, uploaded>>
      BY <1>19 DEF DeleteBackup
    <2>2. \A r \in Removers : going[r] = {}
      BY <1>19, DeletesAlone DEF DeleteBackup, Removing
    <2>3. \A r \in Removers : going[r] \subseteq going'[r]
      BY <2>2
    <2>4. Failed' => Failed
      BY <2>1 DEF Failed
    <2> QED BY <1>1, <1>5, <2>1, <2>3, <2>4
  <1>20. ASSUME NEW r \in Removers, NEW d \in Digests, DropObject(r, d) PROVE FailedOnce'
    BY <1>1, <1>4, <1>20 DEF DropObject, Failed
  <1>21. ASSUME NEW r \in Removers, DropFolder(r) PROVE FailedOnce'
    <2>1. PICK s \in going[r] :
            \/ (\E x \in Early(s) \cup Late(s) : indexes' = indexes \ {x}) /\ UNCHANGED <<manifests, going>>
            \/ manifests' = manifests \ {s} /\ UNCHANGED <<indexes, going>>
            \/ ~Folder(s) /\ going' = [going EXCEPT ![r] = @ \ {s}] /\ UNCHANGED <<indexes, manifests>>
      BY <1>21 DEF DropFolder
    <2>2. UNCHANGED <<parts, faults, pc, uploaded>>
      BY <1>21 DEF DropFolder
    <2>3. /\ manifests' \subseteq manifests
          /\ \A t \in manifests', q \in Removers : t \in going[q] => t \in going'[q]
          /\ \A t \in manifests', p \in Parts : t # s /\ <<t, p>> \in indexes => <<t, p>> \in indexes'
      <3>1. CASE (\E x \in Early(s) \cup Late(s) : indexes' = indexes \ {x}) /\ UNCHANGED <<manifests, going>>
        <4>1. PICK x \in Early(s) \cup Late(s) : indexes' = indexes \ {x}
          BY <3>1
        <4>2. \A t \in Stamps, p \in Parts : t # s => <<t, p>> # x
          BY DEF Early, Late
        <4> QED BY <3>1, <4>1, <4>2, <1>t
      <3>2. CASE manifests' = manifests \ {s} /\ UNCHANGED <<indexes, going>>
        BY <3>2
      <3>3. CASE ~Folder(s) /\ going' = [going EXCEPT ![r] = @ \ {s}] /\ UNCHANGED <<indexes, manifests>>
        BY <3>3, <1>t DEF Folder
      <3> QED BY <2>1, <3>1, <3>2, <3>3
    <2>4. Legible => Legible'
      BY <2>1, <2>3, LegibleKept
    <2>5. Failed' => Failed
      BY <2>2 DEF Failed
    <2> QED BY <1>1, <2>2, <2>4, <2>5
  <1>22. ASSUME NEW r \in Removers, RemovalFails(r) PROVE FailedOnce'
    <2>1. pc = "idle" /\ pc' = pc
      BY <1>22, RemovesAlone DEF RemovalFails
    <2>2. ~Failed' /\ Strikes("delete")
      BY <1>22, <2>1 DEF Failed, RemovalFails
    <2> QED BY <1>3, <2>2
  <1>23. ASSUME NEW s \in Stamps, NEW p \in Parts, StartRestore(s, p) PROVE FailedOnce'
    BY <1>1, <1>4, <1>23 DEF StartRestore, Failed
  <1>24. ASSUME NEW d \in Digests, RestoreFile(d) PROVE FailedOnce'
    <2>1. ~Failed' /\ UNCHANGED <<parts, indexes, manifests, going>>
      BY <1>24 DEF RestoreFile, Failed
    <2>2. UNCHANGED faults \/ Strikes("put")
      BY <1>24 DEF RestoreFile
    <2> QED BY <1>1, <1>3, <1>4, <2>1, <2>2
  <1>25. CASE FinishRestore
    BY <1>1, <1>4, <1>25 DEF FinishRestore, EndRun, Failed
  <1>26. CASE Tick \/ UNCHANGED vars
    BY <1>1, <1>4, <1>26 DEF Tick, vars, Failed
  <1>27. ~Crash
    BY DEF Crash, Strikes, Tidy
  <1> QED
    BY <1>6, <1>7, <1>8, <1>9, <1>10, <1>11, <1>12, <1>13, <1>14, <1>15, <1>16, <1>17, <1>18, <1>19, <1>20,
       <1>21, <1>22, <1>23, <1>24, <1>25, <1>26, <1>27 DEF Next, Backup, Removal, Restore

(* Steps of a run, or of nobody, while no removal is under way.            *)
LEMMA AccountedOn ==
    ASSUME TypeOK, StampInv, Accounted, [Next]_vars, \A r \in Removers : drop[r] = {} /\ going[r] = {},
           UNCHANGED <<drop, going>>, manifests \subseteq manifests', objects' \subseteq objects \cup uploaded',
           uploaded \subseteq uploaded' \cup NamedBy(manifests)
    PROVE  Accounted'
  <1>1. NamedBy(manifests) \subseteq NamedBy(manifests)'
    BY FrozenStep DEF NamedBy
  <1>2. objects' \subseteq NamedBy(manifests)' \cup uploaded'
    BY <1>1 DEF Accounted
  <1>3. \A r \in Removers : NamedBy(manifests \cap going[r])' = {}
    BY DEF NamedBy
  <1> QED BY <1>2, <1>3 DEF Accounted

LEMMA AccountedSetOut ==
    ASSUME TypeOK, Accounted, \A r \in Removers : drop[r] = {} /\ going[r] = {},
           NEW r \in Removers, NEW gone \in SUBSET Stamps, SetOut(r, gone),
           UNCHANGED bucket, uploaded \subseteq NamedBy(manifests), uploaded' \subseteq Digests
    PROVE  Accounted'
  <1>1. /\ UNCHANGED <<objects, names, parts, manifests>>
        /\ drop'[r] = Unneeded(NamedBy(manifests \cap gone), manifests \ gone) /\ going'[r] = gone
        /\ \A q \in Removers \ {r} : drop'[q] = {} /\ going'[q] = {}
    BY DEF SetOut, bucket, TypeOK, RemovalTypeOK
  <1>2. objects \subseteq NamedBy(manifests) /\ NamedBy(manifests)' = NamedBy(manifests)
    BY <1>1 DEF Accounted, NamedBy
  <1>3. /\ NamedBy(manifests \cap going[r])' = NamedBy(manifests \cap gone)
        /\ NamedBy(manifests \ going[r])' = NamedBy(manifests \ gone)
    BY <1>1 DEF NamedBy
  <1>4. \A q \in Removers \ {r} : NamedBy(manifests \cap going[q])' = {}
    BY <1>1 DEF NamedBy
  <1>5. NamedBy(manifests \cap gone) \subseteq NamedBy(manifests)
    BY DEF NamedBy
  <1>6. objects' \subseteq NamedBy(manifests)'
    BY <1>1, <1>2
  <1>7. objects' \cap NamedBy(manifests \cap going[r])' \subseteq NamedBy(manifests \ going[r])' \cup drop'[r]
    BY <1>1, <1>3 DEF Unneeded
  <1>8. drop'[r] \subseteq NamedBy(manifests)'
    BY <1>1, <1>2, <1>5 DEF Unneeded
  <1>9. \A q \in Removers : /\ objects' \cap NamedBy(manifests \cap going[q])'
                                 \subseteq NamedBy(manifests \ going[q])' \cup drop'[q]
                           /\ drop'[q] \subseteq NamedBy(manifests)'
    BY <1>1, <1>4, <1>7, <1>8
  <1> QED BY <1>6, <1>9 DEF Accounted

LEMMA AccountedStep ==
    ASSUME Tidy, TypeOK, StampInv, TidyInv, [Next]_vars
    PROVE  Accounted'
  <1> USE DEF rem, run, rest, bucket, clock
  <1>k. OneAtATime /\ UpIsNamed /\ FailedOnce /\ Accounted
    BY DEF TidyInv
  <1>t. /\ faults \in Nat /\ MaxFaults \in Nat /\ uploaded \subseteq Digests
        /\ drop \in [Removers -> SUBSET Digests] /\ going \in [Removers -> SUBSET Stamps]
        /\ Server \in Removers /\ manifests \subseteq Stamps
    BY ConstantsAssumption DEF TypeOK, BucketTypeOK, RunTypeOK, RemovalTypeOK, Removers
  <1>n. pc # "idle" => \A r \in Removers : drop[r] = {} /\ going[r] = {}
    BY <1>k, Alone
  <1>l. ~Strikes("lost") /\ ~Crash
    BY DEF Crash, Strikes, Tidy
  <1>1. ASSUME pc # "idle", UNCHANGED <<drop, going>>, manifests \subseteq manifests',
               objects' \subseteq objects \cup uploaded', uploaded \subseteq uploaded' \cup NamedBy(manifests)
        PROVE  Accounted'
    BY <1>k, <1>n, <1>1, AccountedOn
  <1>2. ASSUME NEW chosen \in SUBSET Parts, StartBackup(chosen) PROVE Accounted'
    <2>1. /\ \A r \in Removers : drop[r] = {} /\ going[r] = {}
      BY <1>2, NobodyRemoves DEF StartBackup, Removing
    <2>2. uploaded = {} /\ UNCHANGED <<drop, going, manifests, objects>>
      BY <1>k, <1>2 DEF StartBackup, SlotFree, UpIsNamed
    <2> QED BY <1>k, <2>1, <2>2, AccountedOn
  <1>3. ASSUME NEW s \in Stamps, NEW p \in Parts, StartRestore(s, p) PROVE Accounted'
    <2>1. /\ \A r \in Removers : drop[r] = {} /\ going[r] = {}
      BY <1>3, NobodyRemoves DEF StartRestore, Removing
    <2>2. UNCHANGED <<drop, going, manifests, objects, uploaded>>
      BY <1>3 DEF StartRestore
    <2> QED BY <1>k, <2>1, <2>2, AccountedOn
  <1>4. CASE ReadPrevious \/ ReadPreviousFails
    BY <1>1, <1>4 DEF ReadPrevious, ReadPreviousFails, FailRun
  <1>5. ASSUME NEW d \in Digests, ListKnown(d) \/ PutObject(d) \/ PutObjectFails(d) \/ PutObjectSkipped(d) \/ PutUnstable(d)
        PROVE  Accounted'
    BY <1>1, <1>5, <1>l DEF ListKnown, PutObject, PutObjectFails, PutObjectSkipped, PutUnstable, FailRun
  <1>6. ASSUME NEW p \in Parts, PutIndex(p) PROVE Accounted'
    BY <1>1, <1>6 DEF PutIndex
  <1>7. CASE PutIndexFails \/ PutManifest \/ PutManifestFails
    BY <1>1, <1>7 DEF PutIndexFails, PutManifest, PutManifestFails, FailRun
  <1>8. CASE TakeBackFails
    <2>1. Failed /\ pc = "takeback"
      BY <1>8 DEF TakeBackFails, Failed
    <2>2. "put" \in Hazards /\ ~(faults < MaxFaults) /\ Legible
      BY <1>k, <2>1 DEF FailedOnce
    <2>3. IndexesOf(manifests) \subseteq indexes
      <3>1. \A t \in manifests : IndexesOf({t}) \subseteq indexes
        BY <1>n, <2>1, <2>2 DEF Legible
      <3> QED BY <3>1 DEF IndexesOf
    <2> QED BY <1>8, <2>2, <2>3 DEF TakeBackFails, CanRead, Strikes
  <1>9. CASE TakeBack
    <2>1. CASE uploaded = {}
      BY <1>1, <1>9, <2>1 DEF TakeBack, EndRun
    <2>2. CASE uploaded # {}
      <3>1. /\ UNCHANGED <<objects, names, parts, manifests, going, faults>> /\ pc = "takeback"
            /\ drop'[Server] = Unneeded(uploaded, manifests)
            /\ \A q \in Removers \ {Server} : drop'[q] = drop[q]
        BY <1>t, <1>9, <2>2 DEF TakeBack
      <3>2. \A r \in Removers : drop[r] = {} /\ going[r] = {}
        BY <1>n, <3>1
      <3>3. ~(faults' < MaxFaults)
        BY <1>k, <2>2, <3>1 DEF FailedOnce, Failed
      <3>4. objects \subseteq NamedBy(manifests) \cup uploaded /\ NamedBy(manifests)' = NamedBy(manifests)
        BY <1>k, <3>1, <3>2 DEF Accounted, NamedBy
      <3>5. \A r \in Removers : NamedBy(manifests \cap going[r])' = {}
        BY <3>1, <3>2 DEF NamedBy
      <3>6. objects' \subseteq NamedBy(manifests)' \cup drop'[Server]
        BY <3>1, <3>4 DEF Unneeded
      <3> QED BY <1>t, <3>3, <3>5, <3>6 DEF Accounted
    <2> QED BY <2>1, <2>2
  <1>10. CASE SweepFails
    <2>1. uploaded \subseteq NamedBy(manifests)
      BY <1>k, <1>10 DEF SweepFails, UpIsNamed
    <2> QED BY <1>1, <1>10, <2>1 DEF SweepFails
  <1>11. CASE Sweep
    <2>1. uploaded \subseteq NamedBy(manifests) /\ pc # "idle" /\ uploaded' = {}
      BY <1>k, <1>11 DEF Sweep, UpIsNamed, EndRun
    <2>2. CASE SweepGone = {}
      BY <1>1, <1>11, <2>1, <2>2 DEF Sweep
    <2>3. CASE SweepGone # {}
      <3>1. SweepGone \in SUBSET Stamps
        BY DEF SweepGone
      <3>2. SetOut(Server, SweepGone) /\ UNCHANGED bucket
        BY <1>11, <2>3 DEF Sweep
      <3> QED BY <1>k, <1>n, <1>t, <2>1, <3>1, <3>2, AccountedSetOut
    <2> QED BY <2>2, <2>3
  <1>12. ASSUME NEW a \in Admins, NEW s \in Stamps, DeleteBackup(a, s) PROVE Accounted'
    <2>1. pc = "idle" /\ a \in Removers /\ \A r \in Removers : drop[r] = {} /\ going[r] = {}
      BY <1>k, <1>12, DeletesAlone DEF DeleteBackup, Removing, Removers
    <2>2. uploaded = {} /\ uploaded' = {} /\ SetOut(a, {s}) /\ UNCHANGED bucket
      BY <1>k, <1>12, <2>1 DEF DeleteBackup, UpIsNamed
    <2>3. {s} \in SUBSET Stamps
      OBVIOUS
    <2> QED BY <1>k, <2>1, <2>2, <2>3, AccountedSetOut
  <1>r. ASSUME NEW r \in Removers, Removing(r)
        PROVE  /\ pc = "idle" /\ uploaded = {}
               /\ \A q \in Removers \ {r} : drop[q] = {} /\ going[q] = {}
               /\ objects \subseteq NamedBy(manifests) \cup drop[r]
    <2>1. pc = "idle" /\ \A q \in Removers \ {r} : drop[q] = {} /\ going[q] = {}
      BY <1>k, <1>r, RemovesAlone
    <2>2. uploaded = {}
      BY <1>k, <2>1 DEF UpIsNamed
    <2> QED BY <1>k, <2>1, <2>2 DEF Accounted
  <1>13. ASSUME NEW r \in Removers, NEW d \in Digests, DropObject(r, d) PROVE Accounted'
    <2>1. /\ UNCHANGED <<names, parts, manifests, going, faults>>
          /\ objects' = objects \ {d} /\ drop'[r] = drop[r] \ {d}
          /\ \A q \in Removers \ {r} : drop'[q] = drop[q]
      BY <1>t, <1>13 DEF DropObject
    <2>2. /\ NamedBy(manifests)' = NamedBy(manifests)
          /\ \A q \in Removers : /\ NamedBy(manifests \cap going[q])' = NamedBy(manifests \cap going[q])
                                 /\ NamedBy(manifests \ going[q])' = NamedBy(manifests \ going[q])
      BY <2>1 DEF NamedBy
    <2>3. Removing(r)
      BY <1>13 DEF DropObject, Removing
    <2>4. objects' \subseteq NamedBy(manifests)' \cup drop'[r]
      BY <1>r, <2>1, <2>2, <2>3
    <2>5. ASSUME NEW q \in Removers
          PROVE  /\ objects' \cap NamedBy(manifests \cap going[q])' \subseteq NamedBy(manifests \ going[q])' \cup drop'[q]
                 /\ drop'[q] \subseteq NamedBy(manifests)' \/ ~(faults' < MaxFaults)
      BY <1>k, <2>1, <2>2 DEF Accounted
    <2> QED BY <2>4, <2>5 DEF Accounted
  <1>14. ASSUME NEW r \in Removers, DropFolder(r) PROVE Accounted'
    <2>1. PICK s \in going[r] : /\ manifests' = manifests \ {s} \/ manifests' = manifests
                                /\ going' = going \/ (s \notin manifests /\ manifests' = manifests
                                                      /\ going' = [going EXCEPT ![r] = @ \ {s}])
      BY <1>14 DEF DropFolder, Folder
    <2>2. drop[r] = {} /\ UNCHANGED <<objects, drop, faults>> /\ Removing(r)
      BY <1>14, <2>1 DEF DropFolder, Removing
    <2>3. /\ manifests' \ going'[r] = manifests \ going[r] /\ manifests' \cap going'[r] \subseteq manifests \cap going[r]
          /\ \A q \in Removers : drop'[q] = {} /\ (q # r => going'[q] = {})
      BY <1>r, <1>t, <2>1, <2>2
    <2>4. \A s2 \in manifests' : names'[s2] = names[s2] /\ parts'[s2] = parts[s2]
      BY <2>1, FrozenStep
    <2>5. /\ NamedBy(manifests \ going[r]) \subseteq NamedBy(manifests \ going[r])'
          /\ NamedBy(manifests \cap going[r])' \subseteq NamedBy(manifests \cap going[r])
          /\ NamedBy(manifests \ going[r])' \subseteq NamedBy(manifests)'
      <3> PICK M, N, L : M = manifests \ going[r] /\ N = manifests' \cap going'[r] /\ L = manifests \cap going[r]
        OBVIOUS
      <3>1. M = manifests' \ going'[r] /\ M \subseteq manifests' /\ N \subseteq manifests' /\ N \subseteq L
        BY <2>3
      <3>2. {d \in Digests : \E t \in M : \E p \in parts[t] : d \in names[t][p]}
              \subseteq {d \in Digests : \E t \in M : \E p \in parts'[t] : d \in names'[t][p]}
        BY <2>4, <3>1
      <3>3. {d \in Digests : \E t \in N : \E p \in parts'[t] : d \in names'[t][p]}
              \subseteq {d \in Digests : \E t \in L : \E p \in parts[t] : d \in names[t][p]}
        BY <2>4, <3>1
      <3>4. {d \in Digests : \E t \in M : \E p \in parts'[t] : d \in names'[t][p]}
              \subseteq {d \in Digests : \E t \in manifests' : \E p \in parts'[t] : d \in names'[t][p]}
        BY <3>1
      <3> QED BY <3>1, <3>2, <3>3, <3>4 DEF NamedBy
    <2>6. objects \subseteq NamedBy(manifests \ going[r])  \cup NamedBy(manifests \cap going[r])
      BY <1>r, <2>2 DEF NamedBy
    <2>7. objects \subseteq NamedBy(manifests \ going[r])
      BY <1>k, <2>2, <2>6 DEF Accounted
    <2>8. \A q \in Removers : objects' \cap NamedBy(manifests \cap going[q])' \subseteq NamedBy(manifests \ going[q])' \cup drop'[q]
      <3>1. ASSUME NEW q \in Removers, q # r PROVE NamedBy(manifests \cap going[q])' = {}
        BY <2>3, <3>1 DEF NamedBy
      <3> QED BY <2>2, <2>5, <2>7, <3>1
    <2> QED BY <2>2, <2>3, <2>5, <2>7, <2>8 DEF Accounted
  <1>15. ASSUME NEW r \in Removers, RemovalFails(r) PROVE Accounted'
    <2>1. /\ UNCHANGED <<objects, names, parts, manifests>> /\ Removing(r) /\ faults < MaxFaults
          /\ drop'[r] = {} /\ going'[r] = {}
          /\ \A q \in Removers \ {r} : drop'[q] = drop[q] /\ going'[q] = going[q]
      BY <1>t, <1>15 DEF RemovalFails, Strikes
    <2>2. \A q \in Removers : drop'[q] = {} /\ going'[q] = {}
      BY <1>r, <2>1
    <2>3. drop[r] \subseteq NamedBy(manifests)
      BY <1>k, <2>1 DEF Accounted
    <2>4. objects' \subseteq NamedBy(manifests)'
      BY <1>r, <2>1, <2>3 DEF NamedBy
    <2>5. \A q \in Removers : NamedBy(manifests \cap going[q])' = {}
      BY <2>2 DEF NamedBy
    <2> QED BY <2>2, <2>4, <2>5 DEF Accounted
  <1>16. ASSUME NEW d \in Digests, RestoreFile(d) PROVE Accounted'
    BY <1>1, <1>16 DEF RestoreFile
  <1>17. CASE FinishRestore
    <2>1. uploaded = {}
      BY <1>k, <1>17 DEF FinishRestore, UpIsNamed
    <2> QED BY <1>1, <1>17, <2>1 DEF FinishRestore, EndRun
  <1>18. CASE Tick \/ UNCHANGED vars
    BY <1>k, <1>18 DEF Tick, vars, Accounted, NamedBy
  <1> QED
    BY <1>l, <1>2, <1>3, <1>4, <1>5, <1>6, <1>7, <1>8, <1>9, <1>10, <1>11, <1>12, <1>13, <1>14, <1>15, <1>16, <1>17, <1>18
    DEF Next, Backup, Removal, Restore

(* With no removal and no run at work the store holds no object that no    *)
(* finished snapshot names, where one administrator deletes at a time, no  *)
(* answer is lost, no process ends, and refusals, if they are met, once.   *)
THEOREM NothingLeftOver ==
    ASSUME Tidy
    PROVE  Spec => []NoOrphans
  <1>1. Init => TidyInv
    BY DEF Init, TidyInv, OneAtATime, UpIsNamed, FailedOnce, Failed, Legible, Accounted, Removing
  <1>2. TypeOK /\ StampInv /\ TidyInv /\ [Next]_vars => TidyInv'
    BY OneAtATimeStep, UpIsNamedStep, FailedOnceStep, AccountedStep DEF TidyInv
  <1>3. TidyInv => NoOrphans
    <2>1. ASSUME SlotFree, NobodyDeletes PROVE \A r \in Removers : drop[r] = {}
      BY <2>1 DEF SlotFree, NobodyDeletes, Removing, Removers
    <2>2. SlotFree /\ UpIsNamed => uploaded = {}
      BY DEF SlotFree, UpIsNamed
    <2> QED BY <2>1, <2>2 DEF TidyInv, Accounted, NoOrphans
  <1> QED BY <1>1, <1>2, <1>3, TypeCorrect, StampsKept, PTL DEF Spec
=============================================================================
