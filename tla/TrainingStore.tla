---------------------------- MODULE TrainingStore ----------------------------
(***************************************************************************)
(* Calls and training samples: the endpoints of app/main.py that correct a *)
(* segment and delete samples and calls, over the transactions of app/db.py*)
(* and two directories of files - the stored audio of the calls and        *)
(* TRAINING_CLIP_DIR.                                                      *)
(*                                                                         *)
(* The endpoints are synchronous functions, which FastAPI runs in a thread *)
(* pool: requests interleave at every database round trip and file access. *)
(* A transaction reads a snapshot (InnoDB, REPEATABLE READ) and writes the *)
(* current rows; its writes and its COMMIT are one step, because the row   *)
(* locks it takes keep everybody else off those rows until it commits.     *)
(*                                                                         *)
(* SAVE_TRAINING_CLIPS is on, and the flags delete_audio,                  *)
(* delete_training_clips and delete_clip are true: the defaults, and what  *)
(* the Admin UI sends.                                                     *)
(***************************************************************************)
EXTENDS Naturals, FiniteSets

CONSTANTS
    Client,       \* the requests the server works on at a time
    Operations,   \* the operations each of them may ask for
    Call,         \* calls that have been processed and stored
    Segment,      \* values of segment_index
    Full,         \* segment_index is null: the whole call
    Cut,          \* values of (start_seconds, end_seconds)
    Text,         \* values of corrected_text
    MaxCreates,   \* bound of the number of corrections sent
    StoreFaults,  \* the kinds of failure that may happen
    None

OperationKinds == {"create", "delete", "delete_bulk", "delete_call"}

ASSUME TrainingStoreAssumption ==
    /\ Operations \in [Client -> SUBSET OperationKinds]
    /\ Full \notin Segment
    /\ MaxCreates \in Nat /\ IsFiniteSet(Client)
    /\ StoreFaults \subseteq {"db", "ffmpeg", "unlink"}
    /\ None \notin Cut /\ None \notin Text /\ None \notin Call
    /\ None \notin Segment \cup {Full} /\ None \notin 1 .. MaxCreates

VARIABLES
    calls,        \* the rows of call_summaries
    audio,        \* the calls whose stored audio file exists
    samples,      \* the rows of stt_training_samples, by id
    creates,      \* corrections sent so far
    lastId,       \* AUTO_INCREMENT of stt_training_samples
    clips,        \* TRAINING_CLIP_DIR: what each clip was cut from
    warned,       \* the calls of which the log says that the audio stayed
    pc,           \* where each request is
    req           \* its parameters and local variables

store == <<calls, audio, samples, lastId, clips, warned>>
storeVars == <<calls, audio, samples, creates, lastId, clips, warned, pc, req>>

Maybe(S) == S \cup {None}
Id == 1 .. MaxCreates

\* "{processing_id}_seg{segment_index or full}.wav"
ClipName == Call \X (Segment \cup {Full})

\* audio_path is the clip of the row's call and segment if the row has a cut,
\* and the stored audio of the call if start or end is missing.
Sample == [call : Call, seg : Segment \cup {Full}, cut : Maybe(Cut), text : Text,
           status : {"queued", "used"}]

Request == [call : Maybe(Call), seg : Maybe(Segment \cup {Full}),
            cut : Maybe(Cut), text : Maybe(Text),
            id : Maybe(Id), status : {"queued", "used"}, unlink : SUBSET ClipName]
NoRequest == [call |-> None, seg |-> None, cut |-> None, text |-> None,
              id |-> None, status |-> "queued", unlink |-> {}]

RequestLabel == {"idle", "clip", "select", "write", "fetch", "delete", "bulk",
                 "call", "audio", "unlink"}

StoreTypeOK ==
    /\ calls \subseteq Call
    /\ audio \subseteq Call
    /\ samples \in [Id -> Maybe(Sample)]
    /\ creates \in 0 .. MaxCreates
    /\ lastId \in 0 .. MaxCreates
    /\ clips \in [ClipName -> Maybe(Cut)]
    /\ warned \subseteq Call
    /\ pc \in [Client -> RequestLabel]
    /\ req \in [Client -> Request]

StoreInit ==
    /\ calls = Call
    /\ audio = Call
    /\ samples = [i \in Id |-> None]
    /\ creates = 0
    /\ lastId = 0
    /\ clips = [k \in ClipName |-> None]
    /\ warned = {}
    /\ pc = [c \in Client |-> "idle"]
    /\ req = [c \in Client |-> NoRequest]

Rows == {i \in Id : samples[i] # None}
RowsWith(status) == {i \in Rows : samples[i].status = status}
ClipOf(s) == <<s.call, s.seg>>
\* _delete_training_clip_if_safe unlinks nothing outside TRAINING_CLIP_DIR.
ClipsOf(ids) == {ClipOf(samples[i]) : i \in {j \in ids : samples[j].cut # None}}

Goto(c, label, r) ==
    /\ pc' = [pc EXCEPT ![c] = label]
    /\ req' = [req EXCEPT ![c] = r]

\* The response is sent, whatever its status code.
Respond(c) == Goto(c, "idle", NoRequest)

-----------------------------------------------------------------------------
(* POST /calls/{call_id}/training-samples: create_training_sample. *)

CreateGetCall(c) ==
    /\ pc[c] = "idle" /\ "create" \in Operations[c]
    /\ creates < MaxCreates
    /\ creates' = creates + 1
    /\ \E call \in Call, seg \in Segment \cup {Full}, cut \in Maybe(Cut),
          text \in Text :
          IF call \in calls
          THEN Goto(c, IF cut = None THEN "select" ELSE "clip",
                    [NoRequest EXCEPT !.call = call, !.seg = seg, !.cut = cut,
                                      !.text = text])
          ELSE Respond(c)
    /\ UNCHANGED store

\* _create_training_clip: 404 without the source, else ffmpeg -y, which
\* overwrites the clip that is there.
CreateCutClip(c) ==
    /\ pc[c] = "clip"
    /\ IF req[c].call \in audio
       THEN /\ clips' = [clips EXCEPT ![ClipOf(req[c])] = req[c].cut]
            /\ Goto(c, "select", req[c])
       ELSE Respond(c) /\ UNCHANGED clips
    /\ UNCHANGED <<calls, audio, samples, creates, lastId, warned>>

\* ffmpeg ends with an error: 500.
CreateCutClipFails(c) ==
    /\ "ffmpeg" \in StoreFaults
    /\ pc[c] = "clip" /\ req[c].call \in audio
    /\ Respond(c)
    /\ UNCHANGED <<store, creates>>

QueuedFor(call, seg) ==
    {i \in RowsWith("queued") : samples[i].call = call /\ samples[i].seg = seg}

\* A mutant: the look-up is made for whole calls only.
CreateSelectWholeCall(c) ==
    /\ pc[c] = "select"
    /\ Goto(c, "write",
            [req[c] EXCEPT !.id =
                IF req[c].seg # Full \/ QueuedFor(req[c].call, Full) = {}
                THEN None
                ELSE CHOOSE i \in QueuedFor(req[c].call, Full) : TRUE])
    /\ UNCHANGED <<store, creates>>

\* insert_training_sample: the newest queued sample of the segment, if any.
CreateSelect(c) ==
    /\ pc[c] = "select"
    /\ LET same == IF req[c].seg = Full
                   THEN {} ELSE QueuedFor(req[c].call, req[c].seg)
       IN  Goto(c, "write",
                [req[c] EXCEPT !.id =
                    IF same = {}
                    THEN None
                    ELSE CHOOSE i \in same : \A j \in same : j <= i])
    /\ UNCHANGED <<store, creates>>

\* A mutant: the rows are inserted with a status of their own.
SampleOfNew(r) == [call |-> r.call, seg |-> r.seg, cut |-> r.cut, text |-> r.text,
                   status |-> "new"]
SampleOf(r) == [call |-> r.call, seg |-> r.seg, cut |-> r.cut, text |-> r.text,
                status |-> "queued"]

\* UPDATE ... WHERE id: whatever the status is now, and no error without a row.
CreateUpdate(c) ==
    /\ pc[c] = "write" /\ req[c].id # None
    /\ samples' =
          [samples EXCEPT ![req[c].id] =
              IF @ = None THEN None
              ELSE [SampleOf(req[c]) EXCEPT !.status = samples[req[c].id].status]]
    /\ Goto(c, "fetch", req[c])
    /\ UNCHANGED <<calls, audio, creates, lastId, clips, warned>>

CreateInsert(c) ==
    /\ pc[c] = "write" /\ req[c].id = None
    /\ req[c].call \in calls
    /\ lastId' = lastId + 1
    /\ samples' = [samples EXCEPT ![lastId'] = SampleOf(req[c])]
    /\ Goto(c, "fetch", [req[c] EXCEPT !.id = lastId'])
    /\ UNCHANGED <<calls, audio, creates, clips, warned>>

\* The foreign key: the call has been deleted meanwhile.
CreateInsertFails(c) ==
    /\ pc[c] = "write" /\ req[c].id = None
    /\ req[c].call \notin calls
    /\ Respond(c)
    /\ UNCHANGED <<store, creates>>

\* The row is read again for the response: 500 when it is gone.
CreateFetch(c) ==
    /\ pc[c] = "fetch"
    /\ Respond(c)
    /\ UNCHANGED <<store, creates>>

-----------------------------------------------------------------------------
(* DELETE /training-samples/{sample_id} and DELETE /training-samples. *)

DeleteSelect(c) ==
    /\ pc[c] = "idle" /\ "delete" \in Operations[c]
    /\ \E i \in Rows :
          Goto(c, "delete", [NoRequest EXCEPT !.id = i, !.unlink = ClipsOf({i})])
    /\ UNCHANGED <<store, creates>>

DeleteRow(c) ==
    /\ pc[c] = "delete"
    /\ samples' = [samples EXCEPT ![req[c].id] = None]
    /\ Goto(c, "unlink", req[c])
    /\ UNCHANGED <<calls, audio, creates, lastId, clips, warned>>

\* delete_training_samples_by_status: the files to unlink come from the SELECT.
BulkSelect(c) ==
    /\ pc[c] = "idle" /\ "delete_bulk" \in Operations[c]
    /\ \E status \in {"queued", "used"} :
          Goto(c, "bulk", [NoRequest EXCEPT !.status = status,
                                            !.unlink = ClipsOf(RowsWith(status))])
    /\ UNCHANGED <<store, creates>>

\* The DELETE takes every row that has the status now.
BulkDelete(c) ==
    /\ pc[c] = "bulk"
    /\ samples' = [i \in Id |-> IF i \in RowsWith(req[c].status)
                                THEN None ELSE samples[i]]
    /\ Goto(c, "unlink", req[c])
    /\ UNCHANGED <<calls, audio, creates, lastId, clips, warned>>

\* _delete_training_clip_if_safe, file by file, then the response. An unlink that
\* raises is a line in the log: the clip stays, and the next one is tried.
Unlink(c) ==
    /\ pc[c] = "unlink"
    /\ \/ /\ req[c].unlink = {}
          /\ Respond(c)
          /\ UNCHANGED clips
       \/ \E k \in req[c].unlink :
             /\ \/ clips' = [clips EXCEPT ![k] = None]
                \/ "unlink" \in StoreFaults /\ UNCHANGED clips
             /\ Goto(c, "unlink", [req[c] EXCEPT !.unlink = @ \ {k}])
    /\ UNCHANGED <<calls, audio, samples, creates, lastId, warned>>

-----------------------------------------------------------------------------
(* DELETE /calls/{call_id}: delete_call and delete_call_summary. *)

RowsOf(call) == {i \in Rows : samples[i].call = call}

\* The call and its samples, read from one snapshot.
CallSelect(c) ==
    /\ pc[c] = "idle" /\ "delete_call" \in Operations[c]
    /\ \E call \in calls :
          Goto(c, "call", [NoRequest EXCEPT !.call = call,
                                            !.unlink = ClipsOf(RowsOf(call))])
    /\ UNCHANGED <<store, creates>>

\* A mutant: the request ends here if the call has no samples with a clip.
CallDeleteEarly(c) ==
    /\ pc[c] = "call"
    /\ samples' = [i \in Id |-> IF i \in RowsOf(req[c].call)
                                THEN None ELSE samples[i]]
    /\ calls' = calls \ {req[c].call}
    /\ IF req[c].unlink = {} THEN Respond(c) ELSE Goto(c, "audio", req[c])
    /\ UNCHANGED <<audio, creates, lastId, clips, warned>>

CallDelete(c) ==
    /\ pc[c] = "call"
    /\ samples' = [i \in Id |-> IF i \in RowsOf(req[c].call)
                                THEN None ELSE samples[i]]
    /\ calls' = calls \ {req[c].call}
    /\ Goto(c, "audio", req[c])
    /\ UNCHANGED <<audio, creates, lastId, clips, warned>>

\* _delete_upload_file_if_safe: a file that cannot be unlinked is named in the log,
\* and the request goes on to its 200.
CallUnlinkAudio(c) ==
    /\ pc[c] = "audio"
    /\ \/ /\ audio' = audio \ {req[c].call}
          /\ UNCHANGED warned
       \/ /\ "unlink" \in StoreFaults /\ req[c].call \in audio
          /\ warned' = warned \cup {req[c].call}
          /\ UNCHANGED audio
    /\ Goto(c, "unlink", req[c])
    /\ UNCHANGED <<calls, samples, creates, lastId, clips>>

\* A transaction fails and is rolled back: 500.
RollBack(c) ==
    /\ "db" \in StoreFaults
    /\ pc[c] \in {"select", "write", "delete", "bulk", "call"}
    /\ Respond(c)
    /\ UNCHANGED <<store, creates>>

-----------------------------------------------------------------------------

RequestStep(c) ==
    \/ CreateCutClip(c) \/ CreateCutClipFails(c)
    \/ CreateSelect(c) \/ CreateUpdate(c) \/ CreateInsert(c)
    \/ CreateInsertFails(c) \/ CreateFetch(c)
    \/ DeleteRow(c) \/ BulkDelete(c) \/ Unlink(c)
    \/ CallDelete(c) \/ CallUnlinkAudio(c)
    \/ RollBack(c)

StoreNext ==
    \E c \in Client :
        \/ CreateGetCall(c) \/ DeleteSelect(c) \/ BulkSelect(c) \/ CallSelect(c)
        \/ RequestStep(c)

StoreSpec == StoreInit /\ [][StoreNext]_storeVars

-----------------------------------------------------------------------------
(* Properties. *)

\* A segment has no more queued samples than corrections are handled at a time,
\* whatever is deleted, marked or rewritten between the look-up and the write: one
\* if they are sent one after the other, so that training hears one text for it.
\* (Nothing but the look-up of insert_training_sample keeps a second row out.)
Creators == {c \in Client : "create" \in Operations[c]}
QueuedWithinCreators ==
    \A call \in Call, seg \in Segment :
        Cardinality(QueuedFor(call, seg)) <= Cardinality(Creators)

Quiet == \A c \in Client : pc[c] = "idle"

\* Between requests the audio of a deleted call is gone, or the log names it: a
\* deletion forgets no file, not even when two requests delete the same call.
DeletedAudioIsGone == Quiet => audio \subseteq calls \cup warned

\* DELETE /calls promises that the clips of a call go with it: between requests
\* every clip is one of a call.
DeletedClipsAreGone ==
    Quiet => \A k \in ClipName : clips[k] # None => k[1] \in calls
=============================================================================
