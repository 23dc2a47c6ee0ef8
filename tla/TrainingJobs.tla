---------------------------- MODULE TrainingJobs ----------------------------
(***************************************************************************)
(* Fine-tuning jobs (app/training_manager.py) beside the requests of       *)
(* TrainingStore: a job reads its samples once, when it starts, trains in  *)
(* a container, replaces the model, evaluates it on the clips, marks its   *)
(* samples one transaction at a time, and only then writes job.json again. *)
(* Nothing keeps a request from changing a sample, or its clip, meanwhile. *)
(*                                                                         *)
(* The thread is a daemon: a stop of the API process ends it and every     *)
(* request where they are; rows, files and job.json stay.                  *)
(***************************************************************************)
EXTENDS TrainingStore

CONSTANTS
    Job,          \* the training jobs that are started
    ModelName,    \* values of model_name
    JobFaults     \* the kinds of failure that may happen to a job

ASSUME TrainingJobsAssumption ==
    /\ JobFaults \subseteq {"docker", "container", "evaluate", "db", "crash"}
    /\ None \notin Job /\ None \notin ModelName

VARIABLES
    job,          \* each job: its job.json and the locals of its thread
    models        \* /models/whisper: the job each model comes from

jobVars == <<job, models>>
vars == <<store, creates, pc, req, job, models>>

JobLabel == {"none", "train", "replace", "convert", "evaluate", "mark",
             "completed", "failed", "orphan", "gone"}
Working == {"train", "replace", "convert", "evaluate", "mark"}

\* A sample as the job read it. "learned" is a record of what the container has
\* been given: text and cut of the clip, for each id.
Learned == [id : Id, text : Text, cut : Cut]
JobRecord == [status : {"none", "running", "completed", "failed"}, at : JobLabel,
              name : Maybe(ModelName), rows : [Id -> Maybe(Sample)],
              left : SUBSET Id, learned : SUBSET Learned]
NoJob == [status |-> "none", at |-> "none", name |-> None,
          rows |-> [i \in Id |-> None], left |-> {}, learned |-> {}]

TypeOK ==
    /\ StoreTypeOK
    /\ job \in [Job -> JobRecord]
    /\ models \in [ModelName -> Maybe(Job)]

Init ==
    /\ StoreInit
    /\ job = [j \in Job |-> NoJob]
    /\ models = [m \in ModelName |-> None]

IdsOf(j) == {i \in Id : job[j].rows[i] # None}

\* job.json keeps "running" until the last line of the thread.
Advance(j, label) == job' = [job EXCEPT ![j].at = label]
End(j, status) == job' = [job EXCEPT ![j].at = status, ![j].status = status]

-----------------------------------------------------------------------------
(* POST /training/jobs: start_training_job. *)

StartJob(j) ==
    /\ job[j].status = "none"
    /\ \E status \in {"queued", "used"}, include_used \in BOOLEAN,
          name \in ModelName :
          LET ids == RowsWith(status) \cup (IF include_used THEN RowsWith("used") ELSE {})
          IN  /\ RowsWith(status) # {}
              /\ job' = [job EXCEPT ![j] =
                            [status |-> "running", at |-> "train", name |-> name,
                             rows |-> [i \in Id |-> IF i \in ids THEN samples[i] ELSE None],
                             left |-> ids, learned |-> {}]]
    /\ UNCHANGED <<storeVars, models>>

-----------------------------------------------------------------------------
(* _run_training_job. *)

\* The manifest names a clip below TRAINING_CLIP_DIR for every sample: one that
\* is not there, or a sample without a clip of its own, and the run fails.
ClipIsThere(s) == s.cut # None /\ clips[ClipOf(s)] # None

Train(j) ==
    /\ job[j].at = "train"
    /\ \A i \in IdsOf(j) : ClipIsThere(job[j].rows[i])
    /\ job' = [job EXCEPT
                  ![j].at = "replace",
                  ![j].learned = {[id |-> i, text |-> job[j].rows[i].text,
                                   cut |-> clips[ClipOf(job[j].rows[i])]] : i \in IdsOf(j)}]
    /\ UNCHANGED <<storeVars, models>>

\* A mutant: rmtree of the directory of the models.
RemoveModels(j) ==
    /\ job[j].at = "replace"
    /\ models' = [m \in ModelName |-> None]
    /\ Advance(j, "convert")
    /\ UNCHANGED storeVars

\* rmtree of the model that has the name.
RemoveModel(j) ==
    /\ job[j].at = "replace"
    /\ models' = [models EXCEPT ![job[j].name] = None]
    /\ Advance(j, "convert")
    /\ UNCHANGED storeVars

Convert(j) ==
    /\ job[j].at = "convert"
    /\ models' = [models EXCEPT ![job[j].name] = j]
    /\ Advance(j, "evaluate")
    /\ UNCHANGED storeVars

\* _evaluate_model loads the model and transcribes audio_path of every sample.
AudioIsThere(s) == IF s.cut = None THEN s.call \in audio ELSE clips[ClipOf(s)] # None
CanEvaluate(j) ==
    /\ models[job[j].name] # None
    /\ \A i \in IdsOf(j) : AudioIsThere(job[j].rows[i])

Evaluate(j) ==
    /\ job[j].at = "evaluate"
    /\ CanEvaluate(j)
    /\ Advance(j, "mark")
    /\ UNCHANGED <<storeVars, models>>

\* UPDATE ... SET status = 'used' WHERE id = ... AND status = 'queued'.
MarkUsed(id) ==
    [samples EXCEPT ![id] = IF @ # None THEN [@ EXCEPT !.status = "used"] ELSE @]

\* A mutant: the UPDATE has no id.
MarkEveryQueued(j) ==
    /\ job[j].at = "mark" /\ job[j].left # {}
    /\ samples' = [i \in Id |-> IF samples[i] # None
                                THEN [samples[i] EXCEPT !.status = "used"]
                                ELSE None]
    /\ job' = [job EXCEPT ![j].left = {}]
    /\ UNCHANGED <<calls, audio, creates, lastId, clips, warned, pc, req, models>>

\* The ids one by one, in the order of the SELECT: a transaction each.
Mark(j) ==
    /\ job[j].at = "mark"
    /\ \E i \in job[j].left :
          /\ \A k \in job[j].left : i <= k
          /\ samples' = MarkUsed(i)
          /\ job' = [job EXCEPT ![j].left = @ \ {i}]
    /\ UNCHANGED <<calls, audio, creates, lastId, clips, warned, pc, req, models>>

\* A mutant: the job is completed before its samples are marked.
FinishJobEarly(j) ==
    /\ job[j].at = "mark"
    /\ End(j, "completed")
    /\ UNCHANGED <<storeVars, models>>

FinishJob(j) ==
    /\ job[j].at = "mark" /\ job[j].left = {}
    /\ End(j, "completed")
    /\ UNCHANGED <<storeVars, models>>

\* Any exception: the model that was removed, and the samples that are marked,
\* stay as they are.
CanFail(j) ==
    \/ job[j].at = "train" /\ {"docker", "container"} \cap JobFaults # {}
    \/ job[j].at = "train" /\ \E i \in IdsOf(j) : ~ClipIsThere(job[j].rows[i])
    \/ job[j].at = "convert" /\ "container" \in JobFaults
    \/ job[j].at = "evaluate" /\ ("evaluate" \in JobFaults \/ ~CanEvaluate(j))
    \/ job[j].at = "mark" /\ job[j].left # {} /\ "db" \in JobFaults

\* A mutant: job.json is written by the success path only.
FailJobSilently(j) ==
    /\ CanFail(j)
    /\ Advance(j, "failed")
    /\ UNCHANGED <<storeVars, models>>

FailJob(j) ==
    /\ CanFail(j)
    /\ End(j, "failed")
    /\ UNCHANGED <<storeVars, models>>

JobStep(j) ==
    \/ Train(j) \/ RemoveModel(j) \/ Convert(j) \/ Evaluate(j) \/ Mark(j)
    \/ FinishJob(j) \/ FailJob(j)

\* The API process stops, and is started again: no job is taken up, and
\* job.json of the one that ran is not written. A converter that is running is
\* a container of its own, and may still write its model.
Crash ==
    /\ "crash" \in JobFaults
    /\ job' = [j \in Job |-> IF job[j].at \in Working
                             THEN [job[j] EXCEPT !.at =
                                       IF @ = "convert" THEN "orphan" ELSE "gone"]
                             ELSE job[j]]
    /\ pc' = [c \in Client |-> "idle"]
    /\ req' = [c \in Client |-> NoRequest]
    /\ UNCHANGED <<store, creates, models>>

ConvertAlone(j) ==
    /\ job[j].at = "orphan"
    /\ models' = [models EXCEPT ![job[j].name] = j]
    /\ Advance(j, "gone")
    /\ UNCHANGED storeVars

-----------------------------------------------------------------------------

Next ==
    \/ StoreNext /\ UNCHANGED jobVars
    \/ \E j \in Job : StartJob(j) \/ JobStep(j) \/ ConvertAlone(j)
    \/ Crash

Spec == Init /\ [][Next]_vars

\* A thread that runs goes on, and its containers end; nobody has to start a job
\* or to send a request, and a request that has been sent is answered.
FairSpec ==
    /\ Spec
    /\ \A j \in Job : WF_vars(JobStep(j))
    /\ \A c \in Client : WF_vars(RequestStep(c) /\ UNCHANGED jobVars)

-----------------------------------------------------------------------------
(* Properties. *)

HasModel(j) ==
    \/ models[job[j].name] = j
    \/ \E k \in Job \ {j} :
          /\ job[k].name = job[j].name
          /\ \/ models[job[j].name] = k
             \/ models[job[j].name] = None /\ job[k].at \in {"convert", "orphan", "failed"}

\* A sample that is used has been put through a job that trained on it and whose
\* model was evaluated. A row that is inserted while a job runs is not in its list
\* and stays queued, so the next job picks it up. (A text that is rewritten in a row
\* of the list is another matter: UsedTextWasLearned.)
UsedIsFromAJob ==
    \A i \in RowsWith("used") :
        \E j \in Job : /\ job[j].at \in {"mark", "completed", "failed", "gone"}
                       /\ i \in IdsOf(j) \ job[j].left
                       /\ \E l \in job[j].learned : l.id = i

\* A completed job leaves none of its samples queued, whatever requests have
\* rewritten or deleted them while it ran: no later job trains on them as new.
CompletedMarksAll ==
    \A j \in Job : job[j].status = "completed"
                   => IdsOf(j) \cap RowsWith("queued") = {}

\* A completed job has its own model under its name, whatever jobs under other names
\* do.  Only a job of the same name can have replaced it, or have taken it away: one
\* that is converting, or whose conversion has failed.
CompletedHasItsModel ==
    \A j \in Job : job[j].status = "completed" => HasModel(j)

\* The job page says that a job learns the queued corrections: the text of a used
\* sample is one that some job was given.
UsedTextWasLearned ==
    \A i \in RowsWith("used") :
        \E j \in Job : \E l \in job[j].learned :
            l.id = i /\ l.text = samples[i].text

\* A job that starts ends: job.json does not say "running" for ever.
JobEnds ==
    \A j \in Job : job[j].status = "running"
                   ~> job[j].status \in {"completed", "failed"}
=============================================================================
