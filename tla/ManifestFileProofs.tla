------------------------- MODULE ManifestFileProofs -------------------------
(***************************************************************************)
(* save_manifest acts atomically, whatever the number of saves.            *)
(***************************************************************************)
EXTENDS ManifestFile, TLAPS

USE ManifestFileAssumption DEF vars

(* How far the temporary file is, how far the manifest may be behind, and  *)
(* that nothing is recorded before the first save.                         *)
SaveInv ==
    /\ entry.jobs <= want
    /\ pc = "sync" => temp.data = Saved(want)
    /\ pc = "replace" => temp = [data |-> Saved(want), synced |-> TRUE]
    /\ pc \in {"open", "placeholder"} => entry.jobs = 0

FileInv == TypeOK /\ NeverTorn /\ LossOnlyTakesBack /\ SaveInv

(* What is not torn records a number of Jobs.                              *)
LEMMA Contents ==
    /\ \A c \in Content : c # Torn => c.jobs \in 0..NodeCount
    /\ {Absent, Unfinished, Blank, Torn} \subseteq Content
    /\ Torn \notin {Absent, Unfinished, Blank}
    /\ Absent.jobs = 0 /\ Unfinished.jobs = 0 /\ Blank.jobs = 0
    /\ Blank.kind = "blank"
    /\ \A k \in 0..NodeCount :
        /\ Saved(k) \in Content /\ Saved(k) # Torn
        /\ Saved(k).jobs = k /\ Saved(k).kind = "saved"
  <1>1. ASSUME NEW k \in 0..NodeCount
        PROVE  /\ Saved(k) \in Content /\ Saved(k) # Torn
               /\ Saved(k).jobs = k /\ Saved(k).kind = "saved"
    BY DEF Content, Saved, Torn
  <1>2. Torn \notin {Absent, Unfinished, Blank}
    BY DEF Absent, Unfinished, Blank, Torn
  <1>3. /\ Absent.jobs = 0 /\ Unfinished.jobs = 0 /\ Blank.jobs = 0
        /\ Blank.kind = "blank"
    BY DEF Absent, Unfinished, Blank
  <1>4. {Absent, Unfinished, Blank, Torn} \subseteq Content
    BY DEF Content
  <1>5. ASSUME NEW c \in Content, c # Torn PROVE c.jobs \in 0..NodeCount
    <2>1. c \in {Absent, Unfinished, Blank} \/ \E k \in 0..NodeCount : c = Saved(k)
      BY <1>5 DEF Content
    <2> QED
      BY <1>1, <1>3, <2>1
  <1> QED
    BY <1>1, <1>2, <1>3, <1>4, <1>5

(* Before main creates it, the path holds no file.                         *)
LEMMA InitFileInv == Init => FileInv
  BY Contents DEF Init, FileInv, TypeOK, NoFile, NeverTorn, LossOnlyTakesBack, SaveInv

(* Only synced, whole contents are renamed over the manifest, and each     *)
(* save records at least what the one before it did.                       *)
LEMMA FileInvStep == FileInv /\ [Next]_vars => FileInv'
  <1> SUFFICES ASSUME FileInv, [Next]_vars PROVE FileInv'
    OBVIOUS
  <1>0. /\ TypeOK /\ NeverTorn /\ LossOnlyTakesBack /\ SaveInv
        /\ entry \in Content /\ entry.jobs \in Nat /\ want \in 0..NodeCount
        /\ Saved(want) \in Content /\ NoFile \in [data : Content, synced : BOOLEAN]
        /\ Saved(want) # Torn /\ Saved(want).jobs = want /\ Saved(want).kind = "saved"
        /\ \A c \in durable : c \in Content /\ c.jobs \in Nat /\ c # Torn
    BY Contents DEF FileInv, TypeOK, NeverTorn, NoFile
  <1>10. CASE OpenManifest \/ WritePlaceholder
    <2>1. /\ entry' \in {Unfinished, Blank}
          /\ durable' = durable \cup {entry'}
          /\ pc' \in {"placeholder", "main"} /\ (pc' = "main" => entry' = Blank)
          /\ UNCHANGED <<want, temp, saved>>
      BY <1>10 DEF OpenManifest, WritePlaceholder
    <2>2. entry' \in Content /\ entry' # Torn /\ entry'.jobs = 0 /\ entry.jobs <= want
      BY <1>0, <2>1, Contents DEF SaveInv
    <2>3. \A c \in durable : c.jobs <= 0
      <3>1. pc \in {"open", "placeholder"}
        BY <1>10 DEF OpenManifest, WritePlaceholder
      <3> QED
        BY <1>0, <3>1 DEF SaveInv, LossOnlyTakesBack
    <2>4. TypeOK'
      BY <1>0, <2>1, <2>2 DEF TypeOK
    <2>5. NeverTorn' /\ LossOnlyTakesBack'
      BY <1>0, <2>1, <2>2, <2>3, Contents DEF NeverTorn, LossOnlyTakesBack
    <2>6. SaveInv'
      BY <1>0, <2>1, <2>2 DEF SaveInv
    <2> QED
      BY <2>4, <2>5, <2>6 DEF FileInv
  <1>11. CASE SetupFails
    BY <1>0, <1>11 DEF SetupFails, FileInv, TypeOK, NeverTorn, LossOnlyTakesBack, SaveInv
  <1>1. CASE Call
    BY <1>0, <1>1 DEF Call, FileInv, TypeOK, NeverTorn, LossOnlyTakesBack, SaveInv
  <1>2. CASE Create
    BY <1>0, <1>2 DEF Create, FileInv, TypeOK, NeverTorn, LossOnlyTakesBack, SaveInv, NoFile
  <1>3. CASE Write
    <2>1. temp' = [data |-> Saved(want), synced |-> temp.synced]
      BY <1>0, <1>3 DEF Write, TypeOK
    <2>2. temp.synced \in BOOLEAN
      BY <1>0 DEF TypeOK
    <2> QED
      BY <1>0, <1>3, <2>1, <2>2 DEF Write, FileInv, TypeOK, NeverTorn, LossOnlyTakesBack, SaveInv
  <1>4. CASE Sync
    <2>1. temp' = [data |-> Saved(want), synced |-> TRUE]
      BY <1>0, <1>4 DEF Sync, TypeOK, SaveInv
    <2> QED
      BY <1>0, <1>4, <2>1 DEF Sync, FileInv, TypeOK, NeverTorn, LossOnlyTakesBack, SaveInv
  <1>5. CASE Replace
    <2>1. /\ entry' = Saved(want) /\ durable' = durable \cup {Saved(want)}
          /\ pc' = "main" /\ saved' = "returned" /\ temp' = NoFile /\ want' = want
      BY <1>0, <1>5 DEF Replace, SaveInv
    <2>2. \A c \in durable : c.jobs \in Nat /\ c.jobs <= want
      BY <1>0 DEF LossOnlyTakesBack, SaveInv
    <2>3. TypeOK'
      BY <1>0, <2>1 DEF TypeOK, NoFile
    <2>4. NeverTorn' /\ LossOnlyTakesBack' /\ SaveInv'
      BY <1>0, <2>1, <2>2 DEF NeverTorn, LossOnlyTakesBack, SaveInv
    <2> QED
      BY <2>3, <2>4 DEF FileInv
  <1>6. CASE Fails \/ InterruptedAfterReplace
    <2>1. /\ pc \notin {"open", "placeholder", "ended"}
          /\ temp' \in {temp, NoFile} /\ pc' = "main" /\ saved' = "raised"
          /\ UNCHANGED <<want, entry, durable>>
      BY <1>6 DEF Fails, InterruptedAfterReplace
    <2>2. temp' \in [data : Content, synced : BOOLEAN]
      BY <1>0, <2>1 DEF TypeOK
    <2>3. TypeOK'
      BY <1>0, <2>1, <2>2 DEF TypeOK
    <2> QED
      BY <1>0, <2>1, <2>3 DEF FileInv, NeverTorn, LossOnlyTakesBack, SaveInv
  <1>7. CASE Kill
    BY <1>0, <1>7 DEF Kill, FileInv, TypeOK, NeverTorn, LossOnlyTakesBack, SaveInv
  <1>8. CASE DirectorySynced \/ PowerLoss
    <2>1. /\ entry' = entry \/ (entry' \in durable /\ pc' = "ended")
          /\ durable' = {entry'} \/ (entry' = Blank /\ durable' = {Blank, Unfinished})
          /\ pc' = pc \/ pc' = "ended"
          /\ UNCHANGED <<want, temp, saved>>
      BY <1>8 DEF DirectorySynced, PowerLoss
    <2>2. /\ entry' \in Content /\ entry' # Torn
          /\ entry'.jobs \in Nat /\ entry'.jobs <= entry.jobs /\ entry'.jobs <= want
      BY <1>0, <2>1 DEF NeverTorn, LossOnlyTakesBack, SaveInv
    <2>3. /\ durable' \subseteq Content /\ Torn \notin durable'
          /\ \A c \in durable' : c.jobs <= entry'.jobs
      BY <2>1, <2>2, Contents
    <2>4. TypeOK' /\ NeverTorn' /\ LossOnlyTakesBack'
      BY <1>0, <2>1, <2>2, <2>3 DEF TypeOK, NeverTorn, LossOnlyTakesBack
    <2>5. SaveInv'
      BY <1>0, <2>1, <2>2 DEF SaveInv
    <2> QED
      BY <2>4, <2>5 DEF FileInv
  <1>9. CASE UNCHANGED vars
    BY <1>0, <1>9 DEF FileInv, TypeOK, NeverTorn, LossOnlyTakesBack, SaveInv
  <1> QED
    BY <1>1, <1>2, <1>3, <1>4, <1>5, <1>6, <1>7, <1>8, <1>9, <1>10, <1>11
       DEF Next, CreateNext, SaveNext

(* A step of the file system is a step of the register or changes nothing  *)
(* of it: only the rename and a power loss change how many Jobs a reader   *)
(* finds recorded.                                                         *)
LEMMA RegisterStep == FileInv /\ [Next]_vars => [Register!Next]_(Register!vars)
  <1> SUFFICES ASSUME FileInv, [Next]_vars PROVE [Register!Next]_(Register!vars)
    OBVIOUS
  <1> USE DEF Register!vars
  <1>1. CASE Call
    BY <1>1 DEF Call, Register!Next, Register!Call
  <1>2. CASE Create \/ Write \/ Sync \/ DirectorySynced
    BY <1>2 DEF Create, Write, Sync, DirectorySynced
  <1>3. CASE Replace
    <2>1. entry'.jobs = want
      BY <1>3, Contents DEF Replace, FileInv, TypeOK, SaveInv
    <2> QED
      BY <1>3, <2>1 DEF Replace, Register!Next, Register!Save
  <1>4. CASE Fails \/ InterruptedAfterReplace
    BY <1>4 DEF Fails, InterruptedAfterReplace, Register!Next, Register!Fail
  <1>5. CASE Kill \/ PowerLoss \/ SetupFails
    <2>1. entry'.jobs \in 0..entry.jobs
      BY <1>5, Contents DEF Kill, PowerLoss, SetupFails, FileInv, TypeOK, NeverTorn, LossOnlyTakesBack
    <2>2. pc # "ended" /\ pc' = "ended" /\ UNCHANGED <<want, saved>>
      BY <1>5 DEF Kill, PowerLoss, SetupFails
    <2> QED
      BY <2>1, <2>2 DEF Register!Next, Register!Crash
  <1>7. CASE OpenManifest \/ WritePlaceholder
    <2>1. entry.jobs = 0 /\ entry'.jobs = 0
      BY <1>7, Contents DEF OpenManifest, WritePlaceholder, FileInv, SaveInv
    <2> QED
      BY <1>7, <2>1 DEF OpenManifest, WritePlaceholder
  <1>6. CASE UNCHANGED vars
    BY <1>6
  <1> QED
    BY <1>1, <1>2, <1>3, <1>4, <1>5, <1>6, <1>7 DEF Next, CreateNext, SaveNext

HIDE DEF Next, vars, FileInv

(* The invariant of the file and of the save in progress.                  *)
THEOREM FileInvariance == Spec => []FileInv
  BY InitFileInv, FileInvStep, PTL DEF Spec

(* The file, the temporary file and the save in progress keep their types. *)
THEOREM FileTypeCorrect == Spec => []TypeOK
  <1>1. FileInv => TypeOK
    BY DEF FileInv
  <1> QED
    BY <1>1, FileInvariance, PTL

(* What a save put at the path is found whole, after a power loss too, and *)
(* from its creation on a running launch has a manifest to read.           *)
THEOREM ManifestIsWhole == Spec => []NeverTorn
  <1>1. FileInv => NeverTorn
    BY DEF FileInv
  <1> QED
    BY <1>1, FileInvariance, PTL

(* What a power loss takes is saves, the latest ones.                      *)
THEOREM LossIsBounded == Spec => []LossOnlyTakesBack
  <1>1. FileInv => LossOnlyTakesBack
    BY DEF FileInv
  <1> QED
    BY <1>1, FileInvariance, PTL

(* save_manifest implements the atomic register.                           *)
THEOREM SaveIsAtomic == Spec => ActsAtomically
  <1>1. Init => Register!Init
    BY DEF Init, Register!Init, Absent
  <1> QED
    BY <1>1, RegisterStep, FileInvariance, PTL DEF Spec, ActsAtomically, Register!Spec
=============================================================================
