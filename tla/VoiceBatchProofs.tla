-------------------------- MODULE VoiceBatchProofs --------------------------
(***************************************************************************)
(* Theorems about VoiceBatch, for any number of workers, names and         *)
(* recordings, any limits and any set of failures.                         *)
(***************************************************************************)
EXTENDS VoiceBatch, TLAPS

\* The labels at which the paths are chosen, and those at which the transcript
\* is at hand.
HasPaths == {"transcribe", "tmp", "replace", "move", "insert"}
HasText == {"tmp", "replace", "move", "insert"}

\* A local variable is assigned before it is used.
JobFits(label, j) ==
    /\ label \in Locked \cup Quarantining => j.name \in Name
    /\ label \in HasPaths => /\ j.out \in TextPath
                             /\ \E t \in Stamp : j.fin = <<j.name, t>>
    /\ label \in HasText => j.text \in Rec
    /\ label = "quarantine" => \E t \in Stamp : j.bad = <<j.name, t>>

JobOK == \A w \in Worker : JobFits(pc[w], job[w])

\* The file a worker is at work on is locked.
LockHeld ==
    \A w \in Worker : pc[w] \in Locked => job[w].name \in locks

LockInv == TypeOK /\ JobOK /\ LockHeld /\ LockExclusion

-----------------------------------------------------------------------------

LEMMA InitLockInv == Init => LockInv
<1> SUFFICES ASSUME Init PROVE LockInv
  OBVIOUS
<1> USE VoiceBatchAssumption DEF Init
<1>1. TypeOK
  BY DEF TypeOK, Maybe, Job, NoJob, Label
<1>2. JobOK /\ LockHeld /\ LockExclusion
  BY DEF JobOK, JobFits, LockHeld, LockExclusion, Locked, Quarantining, HasPaths, HasText
<1> QED  BY <1>1, <1>2 DEF LockInv

\* The path that _safe_*_path chooses is a path of the right base name.
LEMMA SafePathType ==
  ASSUME TypeOK, NEW dir, NEW base
  PROVE  \E t \in Stamp : SafePath(dir, base) = <<base, t>>
BY VoiceBatchAssumption DEF TypeOK, SafePath, Stamp

\* The ways in which a worker's local variables are assigned keep their type.
LEMMA JobType ==
  /\ NoJob \in Job
  /\ \A n \in Name : /\ [NoJob EXCEPT !.name = n] \in Job
                     /\ [NoJob EXCEPT !.name = n, !.ok = FALSE] \in Job
  /\ \A j \in Job : /\ [j EXCEPT !.ok = FALSE] \in Job
                    /\ \A r \in Rec : [j EXCEPT !.text = r] \in Job
                    /\ \A p \in AudioPath : [j EXCEPT !.bad = p] \in Job
                    /\ \A o \in TextPath, p \in AudioPath :
                          [j EXCEPT !.out = o, !.fin = p] \in Job
BY DEF Job, NoJob, Maybe

LEMMA PathType ==
  ASSUME NEW n \in Name, NEW f, \E t \in Stamp : f = <<n, t>>
  PROVE  f \in AudioPath
BY DEF AudioPath

\* Every action of a worker keeps LockInv.
LEMMA StepLockInv ==
  ASSUME LockInv, NEW w \in Worker, Step(w)
  PROVE  LockInv'
<1>a. TypeOK /\ JobOK /\ LockHeld /\ LockExclusion /\ VoiceBatchAssumption
  BY VoiceBatchAssumption DEF LockInv
<1>b. /\ pc[w] \in Locked \cup Quarantining => job[w].name \in Name
      /\ pc[w] \in HasPaths => job[w].out \in TextPath /\ job[w].fin \in AudioPath
      /\ pc[w] \in HasText => job[w].text \in Rec
      /\ pc[w] = "quarantine" => job[w].bad \in AudioPath
  <2>1. pc[w] \in Locked \cup Quarantining => job[w].name \in Name
    BY <1>a DEF JobOK, JobFits
  <2>2. pc[w] \in HasPaths => job[w].out \in TextPath /\ job[w].fin \in AudioPath
    BY <1>a, <2>1, PathType DEF JobOK, JobFits, HasPaths, Locked
  <2>3. pc[w] \in HasText => job[w].text \in Rec
    BY <1>a DEF JobOK, JobFits
  <2>4. pc[w] = "quarantine" => job[w].bad \in AudioPath
    BY <1>a, <2>1, PathType DEF JobOK, JobFits, Quarantining
  <2> QED  BY <2>1, <2>2, <2>3, <2>4
<1>1. CASE EndBatch(w)
  <2>1. TypeOK'
    BY <1>1, <1>a, <1>b DEF TypeOK, EndBatch, Label, Locked, Quarantining, HasPaths, HasText, Maybe, dirs
  <2>2. JobOK'
    BY <1>1, <1>a, <1>b DEF TypeOK, JobOK, JobFits, EndBatch, Locked, Quarantining, HasPaths, HasText
  <2>3. LockHeld' /\ LockExclusion'
    BY <1>1, <1>a, <1>b DEF TypeOK, LockHeld, LockExclusion, EndBatch, Locked, Quarantining, dirs
  <2> QED  BY <2>1, <2>2, <2>3 DEF LockInv
<1>2. CASE SkipLocked(w)
  <2>1. TypeOK'
    BY <1>2, <1>a, <1>b DEF TypeOK, SkipLocked, Label, Locked, Quarantining, HasPaths, HasText, Maybe, dirs
  <2>2. JobOK'
    BY <1>2, <1>a, <1>b DEF TypeOK, JobOK, JobFits, SkipLocked, Locked, Quarantining, HasPaths, HasText
  <2>3. LockHeld' /\ LockExclusion'
    BY <1>2, <1>a, <1>b DEF TypeOK, LockHeld, LockExclusion, SkipLocked, Locked, Quarantining, dirs
  <2> QED  BY <2>1, <2>2, <2>3 DEF LockInv
<1>3. CASE Acquire(w)
  <2> PICK n \in Name \ locks :
        /\ locks' = locks \cup {n}
        /\ todo' = [todo EXCEPT ![w] = @ \ {n}]
        /\ \/ /\ pc' = [pc EXCEPT ![w] = "paths"]
              /\ job' = [job EXCEPT ![w] = [NoJob EXCEPT !.name = n]]
           \/ /\ pc' = [pc EXCEPT ![w] = "exists"]
              /\ job' = [job EXCEPT ![w] = [NoJob EXCEPT !.name = n,
                                                         !.ok = FALSE]]
    BY <1>3 DEF Acquire
  <2>n. /\ [NoJob EXCEPT !.name = n].name = n
        /\ [NoJob EXCEPT !.name = n, !.ok = FALSE].name = n
    BY DEF NoJob
  <2>0. /\ job'[w].name = n
        /\ pc'[w] \in {"paths", "exists"}
        /\ \A v \in Worker \ {w} : pc'[v] = pc[v] /\ job'[v] = job[v]
    BY <1>a, <2>n DEF TypeOK
  <2>1. TypeOK'
    <3>1. /\ [NoJob EXCEPT !.name = n] \in Job
          /\ [NoJob EXCEPT !.name = n, !.ok = FALSE] \in Job
      BY JobType
    <3>2. job' \in [Worker -> Job]
      BY <1>a, <3>1 DEF TypeOK
    <3>3. pc' \in [Worker -> Label]
      BY <1>a DEF TypeOK, Label, Locked, Quarantining
    <3> QED  BY <1>3, <1>a, <3>2, <3>3 DEF TypeOK, Acquire
  <2>2. JobOK'
    BY <1>a, <2>0 DEF JobOK, JobFits, HasPaths, HasText
  <2>3. LockHeld'
    BY <1>a, <2>0 DEF LockHeld
  <2>4. LockExclusion'
    BY <1>a, <2>0 DEF LockHeld, LockExclusion
  <2> QED  BY <2>1, <2>2, <2>3, <2>4 DEF LockInv
<1>4. CASE ChoosePaths(w)
  <2>a. PICK t \in Stamp, u \in Stamp :
            /\ SafePath(translate, StemOf[job[w].name]) = <<StemOf[job[w].name], t>>
            /\ SafePath(finish, job[w].name) = <<job[w].name, u>>
    BY <1>a, SafePathType
  <2>b. /\ <<StemOf[job[w].name], t>> \in TextPath
        /\ <<job[w].name, u>> \in AudioPath
    BY <1>4, <1>a, <1>b DEF ChoosePaths, Locked, TextPath, AudioPath, VoiceBatchAssumption
  <2>1. TypeOK'
    BY <1>4, <1>a, <1>b, <2>a, <2>b, JobType DEF TypeOK, ChoosePaths, Label, Locked, Quarantining, HasPaths, HasText, Maybe, dirs
  <2>2. JobOK'
    BY <1>4, <1>a, <1>b, <2>a, <2>b DEF TypeOK, JobOK, JobFits, ChoosePaths, Locked, Quarantining, HasPaths, HasText, Job
  <2>3. LockHeld' /\ LockExclusion'
    BY <1>4, <1>a, <1>b DEF TypeOK, LockHeld, LockExclusion, ChoosePaths, Locked, Quarantining, dirs, Job
  <2> QED  BY <2>1, <2>2, <2>3 DEF LockInv
<1>5. CASE Transcribe(w)
  <2>0. /\ voice[job[w].name] \in Rec
        /\ job[w].name \in Name
    BY <1>5, <1>a, <1>b DEF Transcribe, TypeOK, Maybe, Locked
  <2>1. TypeOK'
    BY <1>5, <1>a, <2>0, JobType DEF TypeOK, Transcribe, Label, Locked, dirs
  <2>2. /\ job'[w] = [job[w] EXCEPT !.text = voice[job[w].name]]
        /\ pc[w] = "transcribe" /\ pc'[w] = "tmp"
        /\ \A v \in Worker \ {w} : pc'[v] = pc[v] /\ job'[v] = job[v]
    BY <1>5, <1>a DEF TypeOK, Transcribe
  <2>3. /\ job'[w].name = job[w].name /\ job'[w].out = job[w].out
        /\ job'[w].fin = job[w].fin /\ job'[w].text = voice[job[w].name]
    BY <1>a, <2>2 DEF TypeOK, Job
  <2>4. JobOK'
    <3>1. /\ job[w].out \in TextPath
          /\ \E t \in Stamp : job[w].fin = <<job[w].name, t>>
      <4>1. pc[w] \in HasPaths
        BY <2>2 DEF HasPaths
      <4> QED  BY <1>a, <4>1 DEF JobOK, JobFits
    <3>2. PICK t \in Stamp : job[w].fin = <<job[w].name, t>>
      BY <3>1
    <3>3. job'[w].fin = <<job'[w].name, t>>
      BY <2>3, <3>2
    <3>4. JobFits(pc'[w], job'[w])
      BY <2>0, <2>2, <2>3, <3>1, <3>3 DEF JobFits
    <3> QED  BY <1>a, <2>2, <3>4 DEF JobOK
  <2>5. LockHeld' /\ LockExclusion'
    BY <1>5, <1>a, <2>2, <2>3 DEF LockHeld, LockExclusion, Transcribe, Locked, dirs
  <2> QED  BY <2>1, <2>4, <2>5 DEF LockInv
<1>6. CASE TranscribeFails(w)
  <2>1. TypeOK'
    BY <1>6, <1>a, <1>b, JobType DEF TypeOK, TranscribeFails, Raise, Label, Locked, Quarantining, HasPaths, HasText, Maybe, dirs
  <2>2. JobOK'
    BY <1>6, <1>a, <1>b DEF TypeOK, JobOK, JobFits, TranscribeFails, Raise, Locked, Quarantining, HasPaths, HasText, Job
  <2>3. LockHeld' /\ LockExclusion'
    BY <1>6, <1>a, <1>b DEF TypeOK, LockHeld, LockExclusion, TranscribeFails, Raise, Locked, Quarantining, dirs, Job
  <2> QED  BY <2>1, <2>2, <2>3 DEF LockInv
<1>7. CASE WriteTmp(w)
  <2>1. TypeOK'
    BY <1>7, <1>a, <1>b DEF TypeOK, WriteTmp, Label, Locked, Quarantining, HasPaths, HasText, Maybe, dirs
  <2>2. JobOK'
    BY <1>7, <1>a, <1>b DEF TypeOK, JobOK, JobFits, WriteTmp, Locked, Quarantining, HasPaths, HasText
  <2>3. LockHeld' /\ LockExclusion'
    BY <1>7, <1>a, <1>b DEF TypeOK, LockHeld, LockExclusion, WriteTmp, Locked, Quarantining, dirs
  <2> QED  BY <2>1, <2>2, <2>3 DEF LockInv
<1>8. CASE WriteTmpFails(w)
  <2>1. TypeOK'
    BY <1>8, <1>a, <1>b, JobType DEF TypeOK, WriteTmpFails, Raise, Label, Locked, Quarantining, HasPaths, HasText, Maybe, dirs
  <2>2. JobOK'
    BY <1>8, <1>a, <1>b DEF TypeOK, JobOK, JobFits, WriteTmpFails, Raise, Locked, Quarantining, HasPaths, HasText, Job
  <2>3. LockHeld' /\ LockExclusion'
    BY <1>8, <1>a, <1>b DEF TypeOK, LockHeld, LockExclusion, WriteTmpFails, Raise, Locked, Quarantining, dirs, Job
  <2> QED  BY <2>1, <2>2, <2>3 DEF LockInv
<1>9. CASE ReplaceText(w)
  <2>1. TypeOK'
    BY <1>9, <1>a, <1>b DEF TypeOK, ReplaceText, Label, Locked, Quarantining, HasPaths, HasText, Maybe, dirs
  <2>2. JobOK'
    BY <1>9, <1>a, <1>b DEF TypeOK, JobOK, JobFits, ReplaceText, Locked, Quarantining, HasPaths, HasText
  <2>3. LockHeld' /\ LockExclusion'
    BY <1>9, <1>a, <1>b DEF TypeOK, LockHeld, LockExclusion, ReplaceText, Locked, Quarantining, dirs
  <2> QED  BY <2>1, <2>2, <2>3 DEF LockInv
<1>10. CASE ReplaceTextFails(w)
  <2>1. TypeOK'
    BY <1>10, <1>a, <1>b, JobType DEF TypeOK, ReplaceTextFails, Raise, Label, Locked, Quarantining, HasPaths, HasText, Maybe, dirs
  <2>2. JobOK'
    BY <1>10, <1>a, <1>b DEF TypeOK, JobOK, JobFits, ReplaceTextFails, Raise, Locked, Quarantining, HasPaths, HasText, Job
  <2>3. LockHeld' /\ LockExclusion'
    BY <1>10, <1>a, <1>b DEF TypeOK, LockHeld, LockExclusion, ReplaceTextFails, Raise, Locked, Quarantining, dirs, Job
  <2> QED  BY <2>1, <2>2, <2>3 DEF LockInv
<1>11. CASE MoveToFinish(w)
  <2>1. TypeOK'
    BY <1>11, <1>a, <1>b DEF TypeOK, MoveToFinish, Label, Locked, Quarantining, HasPaths, HasText, Maybe, dirs
  <2>2. JobOK'
    BY <1>11, <1>a, <1>b DEF TypeOK, JobOK, JobFits, MoveToFinish, Locked, Quarantining, HasPaths, HasText
  <2>3. LockHeld' /\ LockExclusion'
    BY <1>11, <1>a, <1>b DEF TypeOK, LockHeld, LockExclusion, MoveToFinish, Locked, Quarantining, dirs
  <2> QED  BY <2>1, <2>2, <2>3 DEF LockInv
<1>12. CASE MoveToFinishFails(w)
  <2>1. TypeOK'
    BY <1>12, <1>a, <1>b, JobType DEF TypeOK, MoveToFinishFails, Raise, Label, Locked, Quarantining, HasPaths, HasText, Maybe, dirs
  <2>2. JobOK'
    BY <1>12, <1>a, <1>b DEF TypeOK, JobOK, JobFits, MoveToFinishFails, Raise, Locked, Quarantining, HasPaths, HasText, Job
  <2>3. LockHeld' /\ LockExclusion'
    BY <1>12, <1>a, <1>b DEF TypeOK, LockHeld, LockExclusion, MoveToFinishFails, Raise, Locked, Quarantining, dirs, Job
  <2> QED  BY <2>1, <2>2, <2>3 DEF LockInv
<1>13. CASE InsertRow(w)
  <2>1. TypeOK'
    BY <1>13, <1>a, <1>b DEF TypeOK, InsertRow, AddRow, Row, Label, Locked, Quarantining, HasPaths, HasText, Maybe, dirs
  <2>2. JobOK'
    BY <1>13, <1>a, <1>b DEF TypeOK, JobOK, JobFits, InsertRow, AddRow, Row, Locked, Quarantining, HasPaths, HasText
  <2>3. LockHeld' /\ LockExclusion'
    BY <1>13, <1>a, <1>b DEF TypeOK, LockHeld, LockExclusion, InsertRow, AddRow, Row, Locked, Quarantining, dirs
  <2> QED  BY <2>1, <2>2, <2>3 DEF LockInv
<1>14. CASE InsertRowFails(w)
  <2>0. rows' \in Seq(Row)
    <3>1. [text |-> job[w].text, path |-> job[w].fin] \in Row
      <4>1. pc[w] = "insert"
        BY <1>14 DEF InsertRowFails
      <4>2. job[w].text \in Rec /\ job[w].fin \in AudioPath
        BY <4>1, <1>b DEF HasPaths, HasText
      <4> QED  BY <4>2 DEF Row
    <3>2. rows \in Seq(Row)
      BY <1>a DEF TypeOK
    <3>3. rows' = rows \/ AddRow(w)
      BY <1>14 DEF InsertRowFails
    <3> QED  BY <3>1, <3>2, <3>3 DEF AddRow
  <2>1. TypeOK'
    BY <1>14, <1>a, <2>0, JobType DEF TypeOK, InsertRowFails, Label, Locked, dirs
  <2>2. JobOK'
    BY <1>14, <1>a, <1>b DEF TypeOK, JobOK, JobFits, InsertRowFails, Locked, Quarantining,
       HasPaths, HasText, Job
  <2>3. LockHeld' /\ LockExclusion'
    BY <1>14, <1>a, <1>b DEF TypeOK, LockHeld, LockExclusion, InsertRowFails,
       Locked, Quarantining, dirs, Job
  <2> QED  BY <2>1, <2>2, <2>3 DEF LockInv
<1>15. CASE Release(w)
  <2>0. /\ pc[w] = "release" /\ pc'[w] \in {"next", "exists"}
        /\ pc'[w] = "exists" => job'[w] = job[w]
        /\ \A v \in Worker \ {w} : pc'[v] = pc[v] /\ job'[v] = job[v]
        /\ locks \ {job[w].name} \subseteq locks' /\ locks' \subseteq locks
    BY <1>15, <1>a DEF Release, TypeOK
  <2>t. pc' \in [Worker -> Label] /\ job' \in [Worker -> Job]
    <3>1. CASE job[w].ok
      <4>1. NoJob \in Job
        BY JobType
      <4> QED  BY <1>15, <1>a, <3>1, <4>1 DEF Release, TypeOK, Label
    <3>2. CASE ~job[w].ok
      BY <1>15, <1>a, <3>2 DEF Release, TypeOK, Label, Quarantining
    <3> QED  BY <3>1, <3>2
  <2>1. TypeOK'
    BY <1>15, <1>a, <2>0, <2>t DEF TypeOK, Release
  <2>2. JobOK'
    BY <1>a, <1>b, <2>0 DEF JobOK, JobFits, Locked, Quarantining, HasPaths, HasText
  <2>3. LockHeld' /\ LockExclusion'
    BY <1>a, <2>0 DEF LockHeld, LockExclusion, Locked
  <2> QED  BY <2>1, <2>2, <2>3 DEF LockInv
<1>16. CASE CheckFailed(w)
  <2>a. PICK t \in Stamp : SafePath(failed, job[w].name) = <<job[w].name, t>>
    BY <1>a, SafePathType
  <2>b. <<job[w].name, t>> \in AudioPath
    BY <1>16, <1>a, <1>b DEF CheckFailed, Quarantining, AudioPath
  <2>0. /\ pc[w] = "exists" /\ pc'[w] \in {"next", "quarantine"}
        /\ \A v \in Worker \ {w} : pc'[v] = pc[v] /\ job'[v] = job[v]
        /\ UNCHANGED locks
    BY <1>16, <1>a DEF CheckFailed, TypeOK, dirs
  <2>t. pc' \in [Worker -> Label] /\ job' \in [Worker -> Job]
    <3>1. CASE voice[job[w].name] = None
      BY <1>16, <1>a, <3>1, JobType DEF CheckFailed, TypeOK, Label
    <3>2. CASE voice[job[w].name] # None
      <4>1. [job[w] EXCEPT !.bad = <<job[w].name, t>>] \in Job
        BY <1>a, <2>b, JobType DEF TypeOK
      <4>2. job' = [job EXCEPT ![w] = [job[w] EXCEPT !.bad = <<job[w].name, t>>]]
        BY <1>16, <1>a, <2>a, <3>2 DEF CheckFailed, TypeOK
      <4>3. pc' = [pc EXCEPT ![w] = "quarantine"]
        BY <1>16, <3>2 DEF CheckFailed
      <4> QED  BY <1>a, <4>1, <4>2, <4>3 DEF TypeOK, Label, Quarantining
    <3> QED  BY <3>1, <3>2
  <2>1. TypeOK'
    BY <1>16, <1>a, <2>t DEF TypeOK, CheckFailed, dirs
  <2>2. JobOK'
    BY <1>16, <1>a, <1>b, <2>a, <2>b DEF TypeOK, JobOK, JobFits, CheckFailed, NoJob,
       Locked, Quarantining, HasPaths, HasText, Job
  <2>3. LockHeld' /\ LockExclusion'
    BY <1>a, <2>0 DEF LockHeld, LockExclusion, Locked
  <2> QED  BY <2>1, <2>2, <2>3 DEF LockInv
<1>17. CASE MoveToFailed(w)
  <2>1. TypeOK'
    BY <1>17, <1>a, <1>b, JobType DEF TypeOK, MoveToFailed, Label, Locked, Quarantining, HasPaths, HasText, Maybe, dirs
  <2>2. JobOK'
    BY <1>17, <1>a, <1>b DEF TypeOK, JobOK, JobFits, MoveToFailed, NoJob, Locked, Quarantining, HasPaths, HasText, Job
  <2>3. LockHeld' /\ LockExclusion'
    BY <1>17, <1>a, <1>b DEF TypeOK, LockHeld, LockExclusion, MoveToFailed, NoJob, Locked, Quarantining, dirs, Job
  <2> QED  BY <2>1, <2>2, <2>3 DEF LockInv
<1>18. CASE MoveToFailedFails(w)
  <2>1. TypeOK'
    BY <1>18, <1>a, <1>b, JobType DEF TypeOK, MoveToFailedFails, Label, Locked, Quarantining, HasPaths, HasText, Maybe, dirs
  <2>2. JobOK'
    BY <1>18, <1>a, <1>b DEF TypeOK, JobOK, JobFits, MoveToFailedFails, NoJob, Locked, Quarantining, HasPaths, HasText, Job
  <2>3. LockHeld' /\ LockExclusion'
    BY <1>18, <1>a, <1>b DEF TypeOK, LockHeld, LockExclusion, MoveToFailedFails, NoJob, Locked, Quarantining, dirs, Job
  <2> QED  BY <2>1, <2>2, <2>3 DEF LockInv
<1>19. CASE AcquireFails(w)
  <2> PICK n \in Name :
        /\ todo' = [todo EXCEPT ![w] = @ \ {n}]
        /\ pc' = [pc EXCEPT ![w] = "exists"]
        /\ job' = [job EXCEPT ![w] = [NoJob EXCEPT !.name = n, !.ok = FALSE]]
        /\ UNCHANGED <<dirs, rows, now, dropped>>
    BY <1>19 DEF AcquireFails
  <2>0. /\ [NoJob EXCEPT !.name = n, !.ok = FALSE].name = n
        /\ [NoJob EXCEPT !.name = n, !.ok = FALSE] \in Job
    BY JobType DEF NoJob
  <2>1. /\ job'[w].name = n /\ pc'[w] = "exists"
        /\ \A v \in Worker \ {w} : pc'[v] = pc[v] /\ job'[v] = job[v]
    BY <1>a, <2>0 DEF TypeOK
  <2>2. TypeOK'
    <3>1. job' \in [Worker -> Job] /\ pc' \in [Worker -> Label]
      BY <1>a, <2>0 DEF TypeOK, Label, Quarantining
    <3> QED  BY <1>a, <3>1 DEF TypeOK, dirs
  <2>3. JobOK'
    BY <1>a, <2>1 DEF JobOK, JobFits, HasPaths, HasText
  <2>4. LockHeld' /\ LockExclusion'
    BY <1>a, <1>19, <2>1 DEF LockHeld, LockExclusion, Locked, AcquireFails, dirs
  <2> QED  BY <2>2, <2>3, <2>4 DEF LockInv
<1> QED
  BY <1>1, <1>2, <1>3, <1>4, <1>5, <1>6, <1>7, <1>8, <1>9, <1>10, <1>11, <1>12,
     <1>13, <1>14, <1>15, <1>16, <1>17, <1>18, <1>19 DEF Step

LEMMA NextLockInv == LockInv /\ [Next]_vars => LockInv'
<1> SUFFICES ASSUME LockInv, [Next]_vars PROVE LockInv'
  OBVIOUS
<1>a. TypeOK /\ JobOK /\ LockHeld /\ LockExclusion
  BY DEF LockInv
<1>1. ASSUME NEW r \in Rec, Drop(r) PROVE LockInv'
  BY <1>1, <1>a, VoiceBatchAssumption
     DEF Drop, LockInv, TypeOK, JobOK, LockHeld, LockExclusion, Maybe
<1>2. CASE Tick
  BY <1>2, <1>a, VoiceBatchAssumption
     DEF Tick, dirs, LockInv, TypeOK, JobOK, LockHeld, LockExclusion
<1>3. ASSUME NEW w \in Worker, List(w) PROVE LockInv'
  <2>1. FirstOf(VoiceFiles, Limit[w]) \subseteq Name
    BY DEF FirstOf, VoiceFiles
  <2>2. TypeOK'
    BY <1>3, <1>a, <2>1 DEF List, TypeOK, dirs, Label
  <2>3. JobOK' /\ LockHeld' /\ LockExclusion'
    BY <1>3, <1>a DEF List, TypeOK, JobOK, JobFits, LockHeld, LockExclusion,
       dirs, Locked, Quarantining, HasPaths, HasText
  <2> QED  BY <2>2, <2>3 DEF LockInv
<1>4. ASSUME NEW w \in Worker, Step(w) PROVE LockInv'
  BY <1>4, StepLockInv
<1>5. ASSUME NEW w \in Worker, Crash(w) PROVE LockInv'
  <2>1. TypeOK'
    BY <1>5, <1>a, JobType DEF Crash, TypeOK, dirs, Label
  <2>2. JobOK' /\ LockHeld' /\ LockExclusion'
    BY <1>5, <1>a DEF Crash, TypeOK, JobOK, JobFits, LockHeld, LockExclusion,
       dirs, Locked, Quarantining, HasPaths, HasText
  <2> QED  BY <2>1, <2>2 DEF LockInv
<1>6. ASSUME NEW w \in Worker, Start(w) PROVE LockInv'
  <2>1. TypeOK'
    BY <1>6, <1>a DEF Start, TypeOK, dirs, Label
  <2>2. JobOK' /\ LockHeld' /\ LockExclusion'
    BY <1>6, <1>a DEF Start, TypeOK, JobOK, JobFits, LockHeld, LockExclusion,
       dirs, Locked, Quarantining, HasPaths, HasText
  <2> QED  BY <2>1, <2>2 DEF LockInv
<1>7. CASE UNCHANGED vars
  BY <1>7, <1>a DEF vars, LockInv, TypeOK, JobOK, LockHeld, LockExclusion
<1> QED
  BY <1>1, <1>2, <1>3, <1>4, <1>5, <1>6, <1>7 DEF Next

LEMMA LockInvAlways == Spec => []LockInv
BY InitLockInv, NextLockInv, PTL DEF Spec

\* Every variable keeps its type, the local variables of the workers included.
THEOREM TypeCorrect == Spec => []TypeOK
<1>1. LockInv => TypeOK
  BY DEF LockInv
<1> QED  BY <1>1, LockInvAlways, PTL

\* Two workers are never between the lock and its release of one file: neither
\* a crash nor a failed unlink nor a failed write of the lock file breaks it.
THEOREM Exclusion == Spec => []LockExclusion
<1>1. LockInv => LockExclusion
  BY DEF LockInv
<1> QED  BY <1>1, LockInvAlways, PTL

-----------------------------------------------------------------------------
(***************************************************************************)
(* What a row says is true: with distinct names the audio of every row is  *)
(* in place, no recording is lost and none has two rows.  The inductive    *)
(* invariant says where a recording can be - under its own name, and in a  *)
(* target directory only once it has left VOICE_DIR - and what a worker    *)
(* that is about to insert knows.                                          *)
(***************************************************************************)

InPlace ==
    /\ \A n \in Name : voice[n] # None =>
          NameOf[voice[n]] = n /\ voice[n] \in dropped
    /\ \A p \in AudioPath : finish[p] # None =>
          /\ NameOf[finish[p]] = p[1] /\ finish[p] \in dropped
          /\ voice[p[1]] = None
    /\ \A p \in AudioPath : failed[p] # None =>
          /\ NameOf[failed[p]] = p[1] /\ failed[p] \in dropped
          /\ voice[p[1]] = None

TextIsOwn ==
    \A w \in Worker : pc[w] \in HasText => NameOf[job[w].text] = job[w].name

InsertKnows ==
    \A w \in Worker : pc[w] = "insert" =>
        finish[job[w].fin] = job[w].text /\ ~HasRow(job[w].text)

AudioInv ==
    /\ InPlace /\ NothingLost /\ TextIsOwn /\ InsertKnows
    /\ RowMatchesAudio /\ NoDuplicateRow

LEMMA InitAudioInv == Init => AudioInv
BY VoiceBatchAssumption DEF Init, AudioInv, InPlace, NothingLost, TextIsOwn, InsertKnows,
   RowMatchesAudio, NoDuplicateRow, HasText

\* A step that leaves files and rows alone and brings no worker to a label at
\* which it has a transcript.
LEMMA LocalStep ==
  ASSUME AudioInv,
         UNCHANGED <<voice, finish, failed, rows, dropped>>,
         \A w \in Worker :
            /\ pc'[w] \in HasText => /\ pc[w] \in HasText
                                     /\ job'[w] = job[w]
            /\ pc'[w] = "insert" => pc[w] = "insert" /\ job'[w] = job[w]
  PROVE  AudioInv'
<1>1. InPlace' /\ NothingLost'
  BY DEF AudioInv, InPlace, NothingLost, InVoice, InFinish, InFailed
<1>2. TextIsOwn' /\ InsertKnows'
  BY DEF AudioInv, TextIsOwn, InsertKnows, HasRow
<1>3. RowMatchesAudio' /\ NoDuplicateRow'
  BY DEF AudioInv, RowMatchesAudio, NoDuplicateRow
<1> QED  BY <1>1, <1>2, <1>3 DEF AudioInv

LEMMA RowType ==
  ASSUME TypeOK, NEW i \in DOMAIN rows
  PROVE  rows[i].text \in Rec /\ rows[i].path \in AudioPath
<1>1. rows[i] \in Row
  BY DEF TypeOK
<1> QED  BY <1>1 DEF Row

LEMMA StepAudioInv ==
  ASSUME DistinctNames, LockInv, AudioInv, NEW w \in Worker, Step(w)
  PROVE  AudioInv'
<1>a. TypeOK /\ JobOK /\ LockHeld /\ LockExclusion
  BY DEF LockInv
<1>b. InPlace /\ NothingLost /\ TextIsOwn /\ InsertKnows /\ RowMatchesAudio
      /\ NoDuplicateRow
  BY DEF AudioInv
<1>c. JobFits(pc[w], job[w])
  BY <1>a DEF JobOK
<1> DEFINE n == job[w].name
<1>1. CASE \/ EndBatch(w) \/ SkipLocked(w) \/ Acquire(w) \/ AcquireFails(w) \/ ChoosePaths(w)
           \/ TranscribeFails(w) \/ WriteTmpFails(w) \/ ReplaceTextFails(w)
           \/ MoveToFinishFails(w) \/ Release(w) \/ CheckFailed(w)
           \/ MoveToFailedFails(w) \/ WriteTmp(w) \/ ReplaceText(w)
  <2>1. UNCHANGED <<voice, finish, failed, rows, dropped>>
    BY <1>1 DEF EndBatch, SkipLocked, Acquire, AcquireFails, ChoosePaths, TranscribeFails,
       WriteTmpFails, ReplaceTextFails, MoveToFinishFails, Release, CheckFailed,
       MoveToFailedFails, WriteTmp, ReplaceText, Raise, dirs
  <2>2. \A v \in Worker :
            /\ pc'[v] \in HasText => pc[v] \in HasText /\ job'[v] = job[v]
            /\ pc'[v] = "insert" => pc[v] = "insert" /\ job'[v] = job[v]
    BY <1>1, <1>a DEF TypeOK, HasText, EndBatch, SkipLocked, Acquire, AcquireFails,
       ChoosePaths, TranscribeFails, WriteTmpFails, ReplaceTextFails,
       MoveToFinishFails, Release, CheckFailed, MoveToFailedFails, WriteTmp,
       ReplaceText, Raise
  <2> QED  BY <2>1, <2>2, LocalStep
<1>2. CASE Transcribe(w)
  <2>1. UNCHANGED <<voice, finish, failed, rows, dropped>>
    BY <1>2 DEF Transcribe, dirs
  <2>2. /\ pc'[w] = "tmp" /\ job'[w].text = voice[n] /\ job'[w].name = n
        /\ voice[n] # None /\ n \in Name
        /\ \A v \in Worker \ {w} : pc'[v] = pc[v] /\ job'[v] = job[v]
    BY <1>2, <1>a, <1>c DEF Transcribe, TypeOK, JobFits, Locked, Job
  <2>3. TextIsOwn'
    BY <1>b, <2>1, <2>2 DEF TextIsOwn, InPlace
  <2>4. InsertKnows'
    BY <1>b, <2>1, <2>2 DEF InsertKnows, HasRow
  <2>5. InPlace' /\ NothingLost' /\ RowMatchesAudio' /\ NoDuplicateRow'
    BY <1>b, <2>1 DEF InPlace, NothingLost, RowMatchesAudio, NoDuplicateRow,
       InVoice, InFinish, InFailed
  <2> QED  BY <2>3, <2>4, <2>5 DEF AudioInv
<1>3. CASE MoveToFinish(w)
  <2>0. PICK t \in Stamp : job[w].fin = <<n, t>>
    BY <1>3, <1>c DEF MoveToFinish, JobFits, HasPaths
  <2>1. /\ pc[w] = "move" /\ n \in Name /\ job[w].text \in Rec
        /\ job[w].fin \in AudioPath /\ job[w].fin[1] = n
    BY <1>3, <1>c, <2>0 DEF MoveToFinish, JobFits, Locked, HasText, AudioPath
  <2>2. /\ voice[n] \in Rec /\ NameOf[voice[n]] = n /\ voice[n] \in dropped
        /\ job[w].text = voice[n]
    BY <1>3, <1>a, <1>b, <2>1
       DEF MoveToFinish, TypeOK, Maybe, InPlace, TextIsOwn, HasText, DistinctNames
  <2>3. /\ finish' = [finish EXCEPT ![job[w].fin] = voice[n]]
        /\ voice' = [voice EXCEPT ![n] = None]
        /\ UNCHANGED <<failed, rows, job, dropped>>
        /\ pc'[w] = "insert"
        /\ \A v \in Worker \ {w} : pc'[v] = pc[v]
    BY <1>3, <1>a DEF MoveToFinish, TypeOK
  <2>4. finish[job[w].fin] = None /\ finish'[job[w].fin] = voice[n]
    BY <1>a, <1>b, <2>1, <2>2, <2>3, VoiceBatchAssumption DEF InPlace, TypeOK
  <2>5. InPlace'
    BY <1>a, <1>b, <2>1, <2>2, <2>3, <2>4 DEF InPlace, TypeOK, AudioPath
  <2>6. NothingLost'
    BY <1>a, <1>b, <2>1, <2>2, <2>3, <2>4, VoiceBatchAssumption
       DEF NothingLost, InVoice, InFinish, InFailed, TypeOK
  <2>7. ~HasRow(voice[n])
    <3>1. SUFFICES ASSUME NEW i \in DOMAIN rows, rows[i].text = voice[n]
                  PROVE  FALSE
      BY DEF HasRow
    <3>2. rows[i].path \in AudioPath /\ finish[rows[i].path] = voice[n]
      BY <1>a, <1>b, <3>1, RowType DEF RowMatchesAudio
    <3>3. voice[NameOf[voice[n]]] = None
      BY <1>b, <2>2, <3>2, VoiceBatchAssumption DEF InPlace
    <3> QED  BY <2>2, <3>3, VoiceBatchAssumption
  <2>8. InsertKnows'
    BY <1>a, <1>b, <2>1, <2>2, <2>3, <2>4, <2>7, VoiceBatchAssumption
       DEF InsertKnows, HasRow, TypeOK, JobOK, JobFits, HasText
  <2>9. TextIsOwn'
    BY <1>b, <2>1, <2>3 DEF TextIsOwn, HasText
  <2>10. RowMatchesAudio' /\ NoDuplicateRow'
    <3>1. ASSUME NEW i \in DOMAIN rows
          PROVE  rows[i].path # job[w].fin /\ rows[i].path \in AudioPath
      BY <1>a, <1>b, <2>4, <3>1, RowType, VoiceBatchAssumption DEF RowMatchesAudio
    <3> QED
      BY <1>a, <1>b, <2>3, <3>1 DEF RowMatchesAudio, NoDuplicateRow, TypeOK
  <2> QED  BY <2>5, <2>6, <2>8, <2>9, <2>10 DEF AudioInv
<1>4. CASE InsertRow(w) \/ InsertRowFails(w)
  <2>1. /\ pc[w] = "insert" /\ pc'[w] = "release"
        /\ UNCHANGED <<voice, finish, failed, dropped>>
        /\ \A v \in Worker \ {w} : pc'[v] = pc[v] /\ job'[v] = job[v]
    BY <1>4, <1>a DEF InsertRow, InsertRowFails, TypeOK, dirs
  <2>2. rows' = rows \/ rows' = Append(rows, [text |-> job[w].text,
                                             path |-> job[w].fin])
    BY <1>4 DEF InsertRow, InsertRowFails, AddRow
  <2>3. /\ finish[job[w].fin] = job[w].text /\ ~HasRow(job[w].text)
        /\ job[w].text \in Rec /\ NameOf[job[w].text] = n /\ rows \in Seq(Row)
    BY <1>a, <1>b, <1>c, <2>1
       DEF InsertKnows, TextIsOwn, JobFits, HasText, TypeOK
  <2>4. InPlace' /\ NothingLost'
    BY <1>b, <2>1 DEF InPlace, NothingLost, InVoice, InFinish, InFailed
  <2>5. TextIsOwn'
    BY <1>b, <2>1 DEF TextIsOwn, HasText
  <2>6. RowMatchesAudio' /\ NoDuplicateRow'
    BY <1>b, <2>1, <2>2, <2>3 DEF RowMatchesAudio, NoDuplicateRow, HasRow
  <2>7. ASSUME NEW v \in Worker \ {w}, pc[v] = "insert"
        PROVE  job[v].text # job[w].text
    BY <1>a, <1>b, <2>1, <2>3, <2>7 DEF LockExclusion, Locked, TextIsOwn, HasText
  <2>8. InsertKnows'
    BY <1>b, <2>1, <2>2, <2>3, <2>7 DEF InsertKnows, HasRow
  <2> QED  BY <2>4, <2>5, <2>6, <2>8 DEF AudioInv
<1>5. CASE MoveToFailed(w)
  <2>0. PICK t \in Stamp : job[w].bad = <<n, t>>
    BY <1>5, <1>c DEF MoveToFailed, JobFits
  <2>1. /\ pc[w] = "quarantine" /\ n \in Name
        /\ job[w].bad \in AudioPath /\ job[w].bad[1] = n
    BY <1>5, <1>c, <2>0 DEF MoveToFailed, JobFits, Quarantining, AudioPath
  <2>2. voice[n] \in Rec /\ NameOf[voice[n]] = n /\ voice[n] \in dropped
    BY <1>5, <1>a, <1>b, <2>1 DEF MoveToFailed, TypeOK, Maybe, InPlace
  <2>3. /\ failed' = [failed EXCEPT ![job[w].bad] = voice[n]]
        /\ voice' = [voice EXCEPT ![n] = None]
        /\ UNCHANGED <<finish, rows, dropped>>
        /\ pc'[w] = "next"
        /\ \A v \in Worker \ {w} : pc'[v] = pc[v] /\ job'[v] = job[v]
    BY <1>5, <1>a DEF MoveToFailed, TypeOK
  <2>4. failed[job[w].bad] = None /\ failed'[job[w].bad] = voice[n]
    BY <1>a, <1>b, <2>1, <2>2, <2>3, VoiceBatchAssumption DEF InPlace, TypeOK
  <2>5. InPlace'
    BY <1>a, <1>b, <2>1, <2>2, <2>3, <2>4 DEF InPlace, TypeOK, AudioPath
  <2>6. NothingLost'
    BY <1>a, <1>b, <2>1, <2>2, <2>3, <2>4, VoiceBatchAssumption
       DEF NothingLost, InVoice, InFinish, InFailed, TypeOK
  <2>7. TextIsOwn' /\ InsertKnows' /\ RowMatchesAudio' /\ NoDuplicateRow'
    BY <1>b, <2>3 DEF TextIsOwn, InsertKnows, RowMatchesAudio, NoDuplicateRow,
       HasRow, HasText
  <2> QED  BY <2>5, <2>6, <2>7 DEF AudioInv
<1> QED
  BY <1>1, <1>2, <1>3, <1>4, <1>5 DEF Step

LEMMA NextAudioInv ==
  ASSUME DistinctNames
  PROVE  LockInv /\ AudioInv /\ [Next]_vars => AudioInv'
<1> SUFFICES ASSUME LockInv, AudioInv, [Next]_vars PROVE AudioInv'
  OBVIOUS
<1>a. /\ TypeOK
      /\ InPlace /\ NothingLost /\ TextIsOwn /\ InsertKnows /\ RowMatchesAudio
      /\ NoDuplicateRow
  BY DEF AudioInv, LockInv
<1>1. ASSUME NEW r \in Rec, Drop(r) PROVE AudioInv'
  <2>1. /\ r \notin dropped /\ dropped' = dropped \cup {r}
        /\ voice' = [voice EXCEPT ![NameOf[r]] = r]
        /\ voice[NameOf[r]] = None
        /\ UNCHANGED <<finish, failed, rows, pc, job>>
    BY <1>1 DEF Drop
  <2>2. ASSUME NEW p \in AudioPath, p[1] = NameOf[r]
        PROVE  finish[p] = None /\ failed[p] = None
    <3>1. finish[p] # None => finish[p] = r
      BY <1>a, <2>2, VoiceBatchAssumption DEF InPlace, DistinctNames, TypeOK, Maybe
    <3>2. failed[p] # None => failed[p] = r
      BY <1>a, <2>2, VoiceBatchAssumption DEF InPlace, DistinctNames, TypeOK, Maybe
    <3> QED  BY <1>a, <2>1, <3>1, <3>2 DEF InPlace
  <2>3. InPlace'
    BY <1>a, <2>1, <2>2, VoiceBatchAssumption DEF InPlace, TypeOK, AudioPath
  <2>4. NothingLost'
    BY <1>a, <2>1, VoiceBatchAssumption
       DEF NothingLost, InVoice, InFinish, InFailed, TypeOK
  <2>5. TextIsOwn' /\ InsertKnows' /\ RowMatchesAudio' /\ NoDuplicateRow'
    BY <1>a, <2>1 DEF TextIsOwn, InsertKnows, RowMatchesAudio, NoDuplicateRow,
       HasRow
  <2> QED  BY <2>3, <2>4, <2>5 DEF AudioInv
<1>2. CASE Tick
  BY <1>2, LocalStep DEF Tick, dirs
<1>3. ASSUME NEW w \in Worker, List(w) \/ Crash(w) \/ Start(w) PROVE AudioInv'
  <2>1. UNCHANGED <<voice, finish, failed, rows, dropped>>
    BY <1>3 DEF List, Crash, Start, dirs
  <2>2. \A v \in Worker :
            /\ pc'[v] \in HasText => pc[v] \in HasText /\ job'[v] = job[v]
            /\ pc'[v] = "insert" => pc[v] = "insert" /\ job'[v] = job[v]
    BY <1>3, <1>a DEF TypeOK, HasText, List, Crash, Start
  <2> QED  BY <2>1, <2>2, LocalStep
<1>4. ASSUME NEW w \in Worker, Step(w) PROVE AudioInv'
  BY <1>4, StepAudioInv
<1>5. CASE UNCHANGED vars
  BY <1>5, LocalStep DEF vars
<1> QED
  BY <1>1, <1>2, <1>3, <1>4, <1>5 DEF Next

LEMMA AudioInvAlways ==
  ASSUME DistinctNames
  PROVE  Spec => []AudioInv
<1>1. LockInv /\ AudioInv /\ [Next]_vars => AudioInv'
  BY NextAudioInv
<1> QED  BY <1>1, InitAudioInv, LockInvAlways, PTL DEF Spec

\* With distinct names every recording that was dropped is in VOICE_DIR,
\* VOICE_FINISH_DIR or VOICE_FAILED_DIR, whatever fails or dies.
THEOREM NoRecordingLost ==
  ASSUME DistinctNames
  PROVE  Spec => []NothingLost
<1>1. AudioInv => NothingLost
  BY DEF AudioInv
<1> QED  BY <1>1, AudioInvAlways, PTL

\* With distinct names a row always points to the recording it transcribes.
THEOREM RowsPointToTheirAudio ==
  ASSUME DistinctNames
  PROVE  Spec => []RowMatchesAudio
<1>1. AudioInv => RowMatchesAudio
  BY DEF AudioInv
<1> QED  BY <1>1, AudioInvAlways, PTL

\* With distinct names no recording ever gets a second row: the move to
\* VOICE_FINISH_DIR, which only one worker can make, comes before the insert.
THEOREM OneRowPerRecording ==
  ASSUME DistinctNames
  PROVE  Spec => []NoDuplicateRow
<1>1. AudioInv => NoDuplicateRow
  BY DEF AudioInv
<1> QED  BY <1>1, AudioInvAlways, PTL

-----------------------------------------------------------------------------
(***************************************************************************)
(* VoiceBatch implements VoiceLifecycle.                                   *)
(***************************************************************************)

PlaceMap == [r \in Rec |-> Place(r)]
LedgerMap == [i \in DOMAIN rows |-> rows[i].text]

\* A step that changes neither what is dropped nor what is in the two target
\* directories nor a row is a stutter.
LEMMA StutterStep ==
  ASSUME UNCHANGED <<finish, failed, rows, dropped>>
  PROVE  UNCHANGED <<PlaceMap, LedgerMap>>
<1>1. \A r \in Rec : Place(r)' = Place(r)
  BY DEF Place, InFinish, InFailed
<1> QED  BY <1>1 DEF PlaceMap, LedgerMap

\* Where a recording is determines its place.
LEMMA PlaceIs ==
  ASSUME NEW r \in Rec
  PROVE  /\ r \notin dropped => Place(r) = "absent"
         /\ r \in dropped /\ InFinish(r) => Place(r) = "finished"
         /\ r \in dropped /\ ~InFinish(r) /\ InFailed(r) => Place(r) = "failed"
         /\ r \in dropped /\ ~InFinish(r) /\ ~InFailed(r) => Place(r) = "waiting"
BY DEF Place

\* A recording in VOICE_DIR is neither finished nor failed.
LEMMA WaitingInVoice ==
  ASSUME TypeOK, InPlace, NEW n \in Name, voice[n] # None
  PROVE  ~InFinish(voice[n]) /\ ~InFailed(voice[n])
<1>1. NameOf[voice[n]] = n /\ voice[n] # None
  BY DEF InPlace
<1>2. ASSUME NEW p \in AudioPath, finish[p] = voice[n] PROVE FALSE
  BY <1>1, <1>2 DEF InPlace
<1>3. ASSUME NEW p \in AudioPath, failed[p] = voice[n] PROVE FALSE
  BY <1>1, <1>3 DEF InPlace
<1> QED  BY <1>2, <1>3 DEF InFinish, InFailed

LEMMA StepRefines ==
  ASSUME DistinctNames, LockInv, AudioInv, NEW w \in Worker, Step(w)
  PROVE  Lifecycle!Next \/ UNCHANGED <<PlaceMap, LedgerMap>>
<1>a. TypeOK /\ JobOK /\ InPlace /\ TextIsOwn /\ InsertKnows
  BY DEF LockInv, AudioInv
<1>c. JobFits(pc[w], job[w])
  BY <1>a DEF JobOK
<1> DEFINE n == job[w].name
<1>1. CASE MoveToFinish(w)
  <2>0. PICK r \in Rec : r = voice[n]
    BY <1>1, <1>a, <1>c DEF MoveToFinish, JobFits, Locked, TypeOK, Maybe
  <2>1. /\ n \in Name /\ r # None /\ r \in dropped /\ r = voice[n]
        /\ job[w].fin \in AudioPath
    BY <1>1, <1>a, <1>c, <2>0, PathType, VoiceBatchAssumption
       DEF MoveToFinish, JobFits, Locked, HasPaths, InPlace
  <2>2. PICK t \in Stamp : job[w].fin = <<n, t>>
    BY <1>1, <1>c DEF MoveToFinish, JobFits, HasPaths
  <2>3. finish[job[w].fin] = None
    BY <1>a, <2>1, <2>2 DEF InPlace
  <2>4. /\ finish' = [finish EXCEPT ![job[w].fin] = r]
        /\ UNCHANGED <<failed, rows, dropped>>
    BY <1>1, <2>0 DEF MoveToFinish
  <2>5. Place(r) = "waiting"
    BY <1>a, <2>1, WaitingInVoice, PlaceIs
  <2>6. Place(r)' = "finished"
    BY <1>a, <2>1, <2>4 DEF Place, InFinish, TypeOK
  <2>7. ASSUME NEW q \in Rec \ {r} PROVE Place(q)' = Place(q)
    <3>1. InFinish(q)' <=> InFinish(q)
      BY <1>a, <2>1, <2>3, <2>4, VoiceBatchAssumption DEF InFinish, TypeOK
    <3> QED  BY <2>4, <3>1 DEF Place, InFailed
  <2>8. PlaceMap' = [PlaceMap EXCEPT ![r] = "finished"] /\ UNCHANGED LedgerMap
    BY <2>1, <2>4, <2>6, <2>7 DEF PlaceMap, LedgerMap
  <2>9. Lifecycle!Settle(r)
    BY <2>1, <2>5, <2>8 DEF Lifecycle!Settle, Lifecycle!Go, PlaceMap, LedgerMap
  <2> QED  BY <2>1, <2>9 DEF Lifecycle!Next
<1>2. CASE MoveToFailed(w)
  <2>0. PICK r \in Rec : r = voice[n]
    BY <1>2, <1>a, <1>c DEF MoveToFailed, JobFits, Quarantining, TypeOK, Maybe
  <2>1. /\ n \in Name /\ r # None /\ r \in dropped /\ r = voice[n]
        /\ job[w].bad \in AudioPath
    BY <1>2, <1>a, <1>c, <2>0, PathType, VoiceBatchAssumption
       DEF MoveToFailed, JobFits, Quarantining, InPlace
  <2>2. PICK t \in Stamp : job[w].bad = <<n, t>>
    BY <1>2, <1>c DEF MoveToFailed, JobFits
  <2>3. failed[job[w].bad] = None
    BY <1>a, <2>1, <2>2 DEF InPlace
  <2>4. /\ failed' = [failed EXCEPT ![job[w].bad] = r]
        /\ UNCHANGED <<finish, rows, dropped>>
    BY <1>2, <2>0 DEF MoveToFailed
  <2>5. Place(r) = "waiting" /\ ~InFinish(r)
    BY <1>a, <2>1, WaitingInVoice, PlaceIs
  <2>6. Place(r)' = "failed"
    BY <1>a, <2>1, <2>4, <2>5 DEF Place, InFinish, InFailed, TypeOK
  <2>7. ASSUME NEW q \in Rec \ {r} PROVE Place(q)' = Place(q)
    <3>1. InFailed(q)' <=> InFailed(q)
      BY <1>a, <2>1, <2>3, <2>4, VoiceBatchAssumption DEF InFailed, TypeOK
    <3> QED  BY <2>4, <3>1 DEF Place, InFinish
  <2>8. PlaceMap' = [PlaceMap EXCEPT ![r] = "failed"] /\ UNCHANGED LedgerMap
    BY <2>1, <2>4, <2>6, <2>7 DEF PlaceMap, LedgerMap
  <2>9. Lifecycle!Settle(r)
    BY <2>1, <2>5, <2>8 DEF Lifecycle!Settle, Lifecycle!Go, PlaceMap, LedgerMap
  <2> QED  BY <2>1, <2>9 DEF Lifecycle!Next
<1>3. CASE InsertRow(w) \/ InsertRowFails(w)
  <2>0. PICK x \in Rec : x = job[w].text
    BY <1>3, <1>c DEF InsertRow, InsertRowFails, JobFits, HasText
  <2>1. /\ pc[w] = "insert" /\ UNCHANGED <<finish, failed, dropped>>
        /\ rows' = rows \/ rows' = Append(rows, [text |-> x, path |-> job[w].fin])
    BY <1>3, <2>0 DEF InsertRow, InsertRowFails, AddRow, dirs
  <2>2. /\ x \in Rec /\ job[w].fin \in AudioPath
        /\ finish[job[w].fin] = x /\ ~HasRow(x)
    <3>1. /\ \E t \in Stamp : job[w].fin = <<n, t>>
          /\ n \in Name
      BY <1>c, <2>1 DEF JobFits, HasPaths, HasText, Locked
    <3> QED  BY <1>a, <2>0, <2>1, <3>1, PathType DEF InsertKnows
  <2>3. Place(x) = "finished"
    <3>1. x \in dropped /\ InFinish(x)
      BY <1>a, <2>2, VoiceBatchAssumption DEF InPlace, InFinish
    <3> QED  BY <2>2, <3>1, PlaceIs
  <2>4. UNCHANGED PlaceMap
    <3>1. \A q \in Rec : Place(q)' = Place(q)
      BY <2>1 DEF Place, InFinish, InFailed
    <3> QED  BY <3>1 DEF PlaceMap
  <2>5. CASE rows' = rows
    BY <2>4, <2>5 DEF LedgerMap
  <2>6. CASE rows' = Append(rows, [text |-> x, path |-> job[w].fin])
    <3>1. LedgerMap' = Append(LedgerMap, x)
      BY <1>a, <2>6 DEF LedgerMap, TypeOK
    <3>2. x \notin Lifecycle!Recorded
      BY <2>2 DEF Lifecycle!Recorded, HasRow
    <3>3. Lifecycle!Enter(x)
      BY <2>2, <2>3, <2>4, <3>1, <3>2
         DEF Lifecycle!Enter, Lifecycle!Recorded, PlaceMap, LedgerMap
    <3> QED  BY <2>2, <3>3 DEF Lifecycle!Next
  <2> QED  BY <2>1, <2>5, <2>6
<1>4. CASE \/ EndBatch(w) \/ SkipLocked(w) \/ Acquire(w) \/ AcquireFails(w) \/ ChoosePaths(w)
           \/ Transcribe(w) \/ TranscribeFails(w) \/ WriteTmp(w)
           \/ WriteTmpFails(w) \/ ReplaceText(w) \/ ReplaceTextFails(w)
           \/ MoveToFinishFails(w) \/ Release(w) \/ CheckFailed(w)
           \/ MoveToFailedFails(w)
  <2>1. UNCHANGED <<finish, failed, rows, dropped>>
    BY <1>4 DEF EndBatch, SkipLocked, Acquire, AcquireFails, ChoosePaths, Transcribe,
       TranscribeFails, WriteTmp, WriteTmpFails, ReplaceText, ReplaceTextFails,
       MoveToFinishFails, Release, CheckFailed, MoveToFailedFails, Raise, dirs
  <2> QED  BY <2>1, StutterStep
<1> QED
  BY <1>1, <1>2, <1>3, <1>4 DEF Step

\* With distinct names every step of the batch is a step of the life of at most
\* one recording: finished or quarantined once, recorded once and only after it
\* has been finished.
THEOREM BatchImplementsLifecycle ==
  ASSUME DistinctNames
  PROVE  Spec => RefinesLifecycle
<1>1. Init => Lifecycle!Init
  BY DEF Init, Lifecycle!Init, Place
<1>2. LockInv /\ AudioInv /\ [Next]_vars => [Lifecycle!Next]_(Lifecycle!vars)
  <2> SUFFICES ASSUME LockInv, AudioInv, [Next]_vars
               PROVE  Lifecycle!Next \/ UNCHANGED <<PlaceMap, LedgerMap>>
    BY DEF Lifecycle!vars, PlaceMap, LedgerMap
  <2>1. ASSUME NEW r \in Rec, Drop(r) PROVE Lifecycle!Next
    <3>1. /\ r \notin dropped /\ dropped' = dropped \cup {r}
          /\ UNCHANGED <<finish, failed, rows>>
      BY <2>1 DEF Drop
    <3>2. ~InFinish(r) /\ ~InFailed(r)
      BY <3>1, VoiceBatchAssumption DEF AudioInv, InPlace, InFinish, InFailed
    <3>3. Place(r) = "absent"
      BY <3>1, PlaceIs
    <3>4. Place(r)' = "waiting"
      BY <3>1, <3>2 DEF Place, InFinish, InFailed
    <3>5. \A q \in Rec \ {r} : Place(q)' = Place(q)
      BY <3>1 DEF Place, InFinish, InFailed
    <3>6. PlaceMap' = [PlaceMap EXCEPT ![r] = "waiting"] /\ UNCHANGED LedgerMap
      BY <3>1, <3>4, <3>5 DEF PlaceMap, LedgerMap
    <3>7. Lifecycle!Arrive(r)
      BY <3>3, <3>6 DEF Lifecycle!Arrive, Lifecycle!Go, PlaceMap, LedgerMap
    <3> QED  BY <3>7 DEF Lifecycle!Next
  <2>2. CASE Tick
    BY <2>2, StutterStep DEF Tick, dirs
  <2>3. ASSUME NEW w \in Worker, List(w) \/ Crash(w) \/ Start(w)
        PROVE  UNCHANGED <<PlaceMap, LedgerMap>>
    BY <2>3, StutterStep DEF List, Crash, Start, dirs
  <2>4. ASSUME NEW w \in Worker, Step(w)
        PROVE  Lifecycle!Next \/ UNCHANGED <<PlaceMap, LedgerMap>>
    BY <2>4, StepRefines
  <2>5. CASE UNCHANGED vars
    BY <2>5, StutterStep DEF vars
  <2> QED
    BY <2>1, <2>2, <2>3, <2>4, <2>5 DEF Next
<1> QED
  BY <1>1, <1>2, LockInvAlways, AudioInvAlways, PTL
     DEF Spec, RefinesLifecycle, Lifecycle!Spec

-----------------------------------------------------------------------------
(* Locks and text files. *)

LEMMA StepNoLeakedLock ==
  ASSUME Faults \cap {"lock_write", "unlock", "crash"} = {},
         LockInv, NoLeakedLock, [Next]_vars
  PROVE  NoLeakedLock'
<1>0. pc \in [Worker -> Label] /\ job \in [Worker -> Job]
  BY DEF LockInv, TypeOK
<1>1. CASE UNCHANGED <<locks, pc, job>>
  BY <1>1 DEF NoLeakedLock
<1>2. ASSUME NEW w \in Worker, List(w) \/ Start(w) PROVE NoLeakedLock'
  BY <1>0, <1>2 DEF List, Start, NoLeakedLock, Locked, dirs
<1>3. ASSUME NEW w \in Worker, Step(w) PROVE NoLeakedLock'
  <2>0. \A v \in Worker \ {w} : pc'[v] = pc[v] /\ job'[v] = job[v]
    BY <1>0, <1>3 DEF Step, EndBatch, SkipLocked, Acquire, AcquireFails, ChoosePaths, Transcribe, TranscribeFails,
       WriteTmp, WriteTmpFails, ReplaceText, ReplaceTextFails, MoveToFinish, MoveToFinishFails,
       InsertRow, InsertRowFails, Release, CheckFailed, MoveToFailed, MoveToFailedFails, Raise
  <2>1. CASE Acquire(w)
    <3>1. PICK n \in Name \ locks :
             locks' = locks \cup {n} /\ pc'[w] = "paths" /\ job'[w].name = n
      BY <1>0, <2>1 DEF Acquire, AcquireFails, NoJob
    <3>2. pc[w] = "next"
      BY <2>1 DEF Acquire
    <3> QED  BY <2>0, <3>1, <3>2 DEF NoLeakedLock, Locked
  <2>2. CASE Release(w)
    <3>1. locks' = locks \ {job[w].name}
      BY <2>2 DEF Release
    <3> QED  BY <2>0, <3>1 DEF NoLeakedLock
  <2>3. CASE ~ Acquire(w) /\ ~ Release(w)
    <3>1. locks' = locks
      BY <1>3, <2>3 DEF Step, EndBatch, SkipLocked, AcquireFails, ChoosePaths, Transcribe, TranscribeFails,
         WriteTmp, WriteTmpFails, ReplaceText, ReplaceTextFails, MoveToFinish, MoveToFinishFails,
         InsertRow, InsertRowFails, CheckFailed, MoveToFailed, MoveToFailedFails, Raise, dirs
    <3>2. pc[w] \in Locked => pc'[w] \in Locked /\ job'[w].name = job[w].name
      <4>1. CASE AcquireFails(w)
        BY <4>1 DEF AcquireFails, Locked
      <4>2. CASE ~ AcquireFails(w)
        BY <1>0, <1>3, <2>3, <4>2 DEF Step, EndBatch, SkipLocked, ChoosePaths, Transcribe,
           TranscribeFails, WriteTmp, WriteTmpFails, ReplaceText, ReplaceTextFails, MoveToFinish,
           MoveToFinishFails, InsertRow, InsertRowFails, CheckFailed, MoveToFailed,
           MoveToFailedFails, Raise, Locked, Job
      <4> QED  BY <4>1, <4>2
    <3> QED  BY <2>0, <3>1, <3>2 DEF NoLeakedLock
  <2> QED  BY <2>1, <2>2, <2>3
<1>4. CASE (\E r \in Rec : Drop(r)) \/ Tick \/ UNCHANGED vars
  BY <1>1, <1>4 DEF Drop, Tick, vars, dirs
<1> QED  BY <1>2, <1>3, <1>4 DEF Next, Crash

\* Every way out of process_voice_file removes its lock, whatever fails in the
\* processing: only a process that dies, a lock file that cannot be written or one
\* that cannot be unlinked leaves a lock.
THEOREM LocksAreReleased ==
  ASSUME Faults \cap {"lock_write", "unlock", "crash"} = {}
  PROVE  Spec => []NoLeakedLock
<1>1. Init => NoLeakedLock
  BY DEF Init, NoLeakedLock
<1>2. LockInv /\ NoLeakedLock /\ [Next]_vars => NoLeakedLock'
  BY StepNoLeakedLock
<1> QED  BY <1>1, <1>2, LockInvAlways, PTL DEF Spec

\* No two names have one stem: a.wav and a.mp3 are not both dropped.
DistinctStems == \A m, n \in Name : StemOf[m] = StemOf[n] => m = n

\* A text file, finished or not, is of a recording of its own stem, and a worker
\* that has replaced its text finds it there.
TextOfStem(dir) == \A p \in TextPath : dir[p] # None => StemOf[NameOf[dir[p]]] = p[1]

Written ==
    \A w \in Worker :
        /\ pc[w] \in HasPaths => job[w].out[1] = StemOf[job[w].name]
        /\ pc[w] \in {"move", "insert"} => translate[job[w].out] # None

TextInv ==
    TextOfStem(tmp) /\ TextOfStem(translate) /\ Written /\ RowHasTranscript

\* Texts of one stem are of one recording.
LEMMA OneTextPerStem ==
  ASSUME DistinctNames, DistinctStems, NEW r \in Rec, NEW q \in Rec,
         StemOf[NameOf[r]] = StemOf[NameOf[q]]
  PROVE  r = q
BY VoiceBatchAssumption DEF DistinctNames, DistinctStems

\* A step that leaves texts and rows alone and brings no worker to where it has paths.
LEMMA TextLocalStep ==
  ASSUME TextInv, UNCHANGED <<tmp, translate, rows>>,
         \A w \in Worker :
            /\ pc'[w] \in HasPaths => /\ pc[w] \in HasPaths
                                      /\ job'[w].out = job[w].out /\ job'[w].name = job[w].name
            /\ pc'[w] \in {"move", "insert"} => pc[w] \in {"move", "insert"}
  PROVE  TextInv'
<1>1. TextOfStem(tmp)' /\ TextOfStem(translate)' /\ RowHasTranscript'
  BY DEF TextInv, TextOfStem, RowHasTranscript
<1>2. Written'
  BY DEF TextInv, Written, HasPaths
<1> QED  BY <1>1, <1>2 DEF TextInv

LEMMA StepTextInv ==
  ASSUME DistinctNames, DistinctStems, LockInv, AudioInv, TextInv, NEW w \in Worker, Step(w)
  PROVE  TextInv'
<1>a. /\ TypeOK /\ JobOK /\ TextIsOwn /\ InsertKnows
      /\ TextOfStem(tmp) /\ TextOfStem(translate) /\ Written /\ RowHasTranscript
  BY DEF LockInv, AudioInv, TextInv
<1>p. pc \in [Worker -> Label] /\ job \in [Worker -> Job]
  BY <1>a DEF TypeOK
<1>b. /\ pc[w] \in HasPaths => job[w].out \in TextPath /\ job[w].out[1] = StemOf[job[w].name]
      /\ pc[w] \in HasText => job[w].text \in Rec /\ NameOf[job[w].text] = job[w].name
  BY <1>a DEF JobOK, JobFits, TextIsOwn, Written
<1>0. \A v \in Worker \ {w} : pc'[v] = pc[v] /\ job'[v] = job[v]
  BY <1>p DEF Step, EndBatch, SkipLocked, Acquire, AcquireFails, ChoosePaths, Transcribe, TranscribeFails,
     WriteTmp, WriteTmpFails, ReplaceText, ReplaceTextFails, MoveToFinish, MoveToFinishFails,
     InsertRow, InsertRowFails, Release, CheckFailed, MoveToFailed, MoveToFailedFails, Raise
<1>1. CASE ChoosePaths(w)
  <2>1. PICK t \in Stamp : SafePath(translate, StemOf[job[w].name]) = <<StemOf[job[w].name], t>>
    BY <1>a, SafePathType
  <2>2. /\ job'[w].out = <<StemOf[job[w].name], t>> /\ job'[w].name = job[w].name
        /\ pc'[w] = "transcribe" /\ UNCHANGED <<tmp, translate, rows>>
    BY <1>1, <1>p, <2>1 DEF ChoosePaths, Job, dirs
  <2>3. Written'
    BY <1>a, <1>0, <2>2 DEF Written
  <2>4. TextOfStem(tmp)' /\ TextOfStem(translate)' /\ RowHasTranscript'
    BY <1>a, <2>2 DEF TextOfStem, RowHasTranscript
  <2> QED  BY <2>3, <2>4 DEF TextInv
<1>2. CASE WriteTmp(w)
  <2>1. /\ tmp' = [tmp EXCEPT ![job[w].out] = job[w].text] /\ pc[w] = "tmp"
        /\ pc'[w] = "replace" /\ UNCHANGED <<translate, rows, job>>
    BY <1>2, <1>p DEF WriteTmp
  <2>2. job[w].out \in TextPath /\ StemOf[NameOf[job[w].text]] = job[w].out[1]
    BY <1>b, <2>1 DEF HasPaths, HasText
  <2>3. TextOfStem(tmp)'
    BY <1>a, <2>1, <2>2 DEF TextOfStem, TypeOK
  <2>4. Written'
    BY <1>a, <1>0, <2>1 DEF Written, HasPaths
  <2>5. TextOfStem(translate)' /\ RowHasTranscript'
    BY <1>a, <2>1 DEF TextOfStem, RowHasTranscript
  <2> QED  BY <2>3, <2>4, <2>5 DEF TextInv
<1>3. CASE ReplaceText(w)
  <2> DEFINE o == job[w].out
  <2>1. /\ translate' = [translate EXCEPT ![o] = tmp[o]] /\ tmp' = [tmp EXCEPT ![o] = None]
        /\ tmp[o] # None /\ pc[w] = "replace" /\ pc'[w] = "move" /\ UNCHANGED <<rows, job>>
    BY <1>3, <1>p DEF ReplaceText
  <2>2. o \in TextPath /\ tmp[o] \in Rec /\ StemOf[NameOf[tmp[o]]] = o[1]
    <3>1. o \in TextPath
      BY <1>b, <2>1 DEF HasPaths
    <3> QED  BY <1>a, <2>1, <3>1 DEF TextOfStem, TypeOK, Maybe
  <2> HIDE DEF o
  <2>3. TextOfStem(tmp)' /\ TextOfStem(translate)'
    BY <1>a, <2>1, <2>2 DEF TextOfStem, TypeOK
  <2>4. \A p \in TextPath : translate[p] # None => translate'[p] = translate[p]
    <3> SUFFICES ASSUME translate[o] # None PROVE tmp[o] = translate[o]
      BY <1>a, <2>1, <2>2 DEF TypeOK
    <3>1. translate[o] \in Rec /\ StemOf[NameOf[translate[o]]] = o[1]
      BY <1>a, <2>2 DEF TextOfStem, TypeOK, Maybe
    <3> QED  BY <2>2, <3>1, OneTextPerStem
  <2>5. RowHasTranscript'
    <3> SUFFICES ASSUME NEW i \in DOMAIN rows
                 PROVE  \E p \in TextPath : translate'[p] = rows[i].text
      BY <2>1 DEF RowHasTranscript
    <3>1. PICK p \in TextPath : translate[p] = rows[i].text
      BY <1>a DEF RowHasTranscript
    <3>2. translate[p] # None
      BY <1>a, <3>1, RowType, VoiceBatchAssumption
    <3> QED  BY <2>4, <3>1, <3>2
  <2>6. Written'
    <3>1. ASSUME NEW v \in Worker, pc'[v] \in {"move", "insert"}
          PROVE  translate'[job[v].out] # None
      <4>1. CASE v = w
        BY <1>a, <2>1, <2>2, <4>1 DEF o, TypeOK
      <4>2. CASE v # w
        <5>1. translate[job[v].out] # None /\ job[v].out \in TextPath
          BY <1>a, <1>0, <3>1, <4>2 DEF Written, JobOK, JobFits, HasPaths
        <5> QED  BY <2>4, <5>1
      <4> QED  BY <4>1, <4>2
    <3>2. ASSUME NEW v \in Worker, pc'[v] \in HasPaths
          PROVE  job[v].out[1] = StemOf[job[v].name]
      BY <1>a, <1>0, <2>1, <3>2 DEF Written, HasPaths
    <3> QED  BY <2>1, <3>1, <3>2 DEF Written
  <2> QED  BY <2>3, <2>5, <2>6 DEF TextInv
<1>4. CASE InsertRow(w) \/ InsertRowFails(w)
  <2>1. /\ rows' = rows \/ AddRow(w)
        /\ pc[w] = "insert" /\ pc'[w] = "release" /\ UNCHANGED <<tmp, translate>>
    BY <1>4, <1>p DEF InsertRow, InsertRowFails, dirs
  <2>2. /\ job[w].out \in TextPath /\ translate[job[w].out] \in Rec
        /\ job[w].text \in Rec /\ StemOf[NameOf[job[w].text]] = job[w].out[1]
    BY <1>a, <1>b, <2>1 DEF Written, HasPaths, HasText, TypeOK, Maybe
  <2>3. translate[job[w].out] = job[w].text
    <3>1. StemOf[NameOf[translate[job[w].out]]] = job[w].out[1]
      BY <1>a, <2>1, <2>2 DEF TextOfStem, Written
    <3> QED  BY <2>2, <3>1, OneTextPerStem
  <2>4. RowHasTranscript'
    <3>1. ASSUME NEW i \in DOMAIN rows' PROVE \E p \in TextPath : translate[p] = rows'[i].text
      <4>1. CASE rows' = rows
        BY <1>a, <3>1, <4>1 DEF RowHasTranscript
      <4>2. CASE AddRow(w)
        <5>1. rows \in Seq(Row) /\ rows' = Append(rows, [text |-> job[w].text, path |-> job[w].fin])
          BY <1>a, <4>2 DEF TypeOK, AddRow
        <5>2. CASE i \in DOMAIN rows
          <6>1. rows'[i] = rows[i]
            BY <5>1, <5>2
          <6> QED  BY <1>a, <5>2, <6>1 DEF RowHasTranscript
        <5>3. CASE i \notin DOMAIN rows
          <6>1. rows'[i] = [text |-> job[w].text, path |-> job[w].fin]
            BY <3>1, <5>1, <5>3
          <6> QED  BY <2>2, <2>3, <6>1
        <5> QED  BY <5>2, <5>3
      <4> QED  BY <2>1, <4>1, <4>2
    <3> QED  BY <2>1, <3>1 DEF RowHasTranscript
  <2>5. Written'
    BY <1>a, <1>0, <2>1 DEF Written, HasPaths
  <2>6. TextOfStem(tmp)' /\ TextOfStem(translate)'
    BY <1>a, <2>1 DEF TextOfStem
  <2> QED  BY <2>4, <2>5, <2>6 DEF TextInv
<1>5. CASE \/ EndBatch(w) \/ SkipLocked(w) \/ Acquire(w) \/ AcquireFails(w)
           \/ Transcribe(w) \/ TranscribeFails(w)
           \/ WriteTmpFails(w) \/ ReplaceTextFails(w) \/ MoveToFinish(w) \/ MoveToFinishFails(w)
           \/ Release(w) \/ CheckFailed(w) \/ MoveToFailed(w) \/ MoveToFailedFails(w)
  <2>1. UNCHANGED <<tmp, translate, rows>>
    BY <1>5 DEF EndBatch, SkipLocked, Acquire, AcquireFails, Transcribe, TranscribeFails, WriteTmpFails,
       ReplaceTextFails, MoveToFinish, MoveToFinishFails, Release, CheckFailed, MoveToFailed,
       MoveToFailedFails, Raise, dirs
  <2>2. /\ pc'[w] \in HasPaths => /\ pc[w] \in HasPaths
                                  /\ job'[w].out = job[w].out /\ job'[w].name = job[w].name
        /\ pc'[w] \in {"move", "insert"} => pc[w] \in {"move", "insert"}
    <3>1. CASE Transcribe(w)
      BY <1>p, <3>1 DEF Transcribe, HasPaths, Job
    <3>2. CASE MoveToFinish(w)
      BY <1>p, <3>2 DEF MoveToFinish, HasPaths
    <3>3. CASE ~ Transcribe(w) /\ ~ MoveToFinish(w)
      <4>1. pc'[w] \notin HasPaths
        BY <1>5, <1>p, <3>3 DEF EndBatch, SkipLocked, Acquire, AcquireFails, TranscribeFails, WriteTmpFails,
           ReplaceTextFails, MoveToFinishFails, Release, CheckFailed, MoveToFailed,
           MoveToFailedFails, Raise, HasPaths
      <4> QED  BY <4>1 DEF HasPaths
    <3> QED  BY <3>1, <3>2, <3>3
  <2>3. \A v \in Worker :
            /\ pc'[v] \in HasPaths => /\ pc[v] \in HasPaths
                                      /\ job'[v].out = job[v].out /\ job'[v].name = job[v].name
            /\ pc'[v] \in {"move", "insert"} => pc[v] \in {"move", "insert"}
    BY <1>0, <2>2
  <2> QED  BY <1>a, <2>1, <2>3, TextLocalStep DEF TextInv
<1> QED  BY <1>1, <1>2, <1>3, <1>4, <1>5 DEF Step

\* With distinct names and stems the transcript of every row is a file, however
\* many workers write text files and die between the file and the row.
THEOREM RowsHaveTranscripts ==
  ASSUME DistinctNames, DistinctStems
  PROVE  Spec => []RowHasTranscript
<1>1. Init => TextInv
  BY DEF Init, TextInv, TextOfStem, Written, RowHasTranscript, HasPaths
<1>2. LockInv /\ AudioInv /\ TextInv /\ [Next]_vars => TextInv'
  <2> SUFFICES ASSUME LockInv, AudioInv, TextInv, [Next]_vars PROVE TextInv'
    OBVIOUS
  <2>p. pc \in [Worker -> Label] /\ job \in [Worker -> Job]
    BY DEF LockInv, TypeOK
  <2>1. ASSUME NEW w \in Worker, Step(w) PROVE TextInv'
    BY <2>1, StepTextInv
  <2>2. CASE (\E r \in Rec : Drop(r)) \/ Tick \/ UNCHANGED vars
    <3>1. UNCHANGED <<tmp, translate, rows, pc, job>>
      BY <2>2 DEF Drop, Tick, vars, dirs
    <3> QED  BY <3>1, TextLocalStep
  <2>3. ASSUME NEW w \in Worker, List(w) \/ Crash(w) \/ Start(w) PROVE TextInv'
    <3>1. /\ UNCHANGED <<tmp, translate, rows>>
          /\ \A v \in Worker \ {w} : pc'[v] = pc[v] /\ job'[v] = job[v]
          /\ pc'[w] \in {"next", "down", "idle"}
      BY <2>p, <2>3 DEF List, Crash, Start, dirs
    <3> QED  BY <3>1, TextLocalStep DEF HasPaths
  <2> QED  BY <2>1, <2>2, <2>3 DEF Next
<1>3. TextInv => RowHasTranscript
  BY DEF TextInv
<1> QED  BY <1>1, <1>2, <1>3, LockInvAlways, AudioInvAlways, PTL DEF Spec
=============================================================================
