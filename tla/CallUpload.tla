----------------------------- MODULE CallUpload -----------------------------
(***************************************************************************)
(* POST /calls/process next to DELETE /calls/{call_id} and                 *)
(* PATCH /calls/{call_id}/transcript, of app/main.py over app/db.py.       *)
(*                                                                         *)
(* process_call is a coroutine without an await after it has read the      *)
(* file: one upload is processed at a time, and it holds the event loop.   *)
(* The other two run in the thread pool and may interleave with its steps. *)
(***************************************************************************)
EXTENDS XcnContainer, FilenameMetadata, FiniteSets

CONSTANTS
    Upload,       \* uploads, by the processing_id they are given
    Client,       \* requests in the thread pool
    Inputs,       \* what may be sent as each upload: file, suffix, name and fields of the form
    KeyFiles,     \* the keys of the server that are considered, and NoKey
    SaveModes,    \* the values of SAVE_UPLOADS that are considered
    MaxBytes,     \* MAX_UPLOAD_MB
    Faults,       \* what may fail: "stt", "db", "commit" (lost after the commit), "unlink"
    MaxFaults,    \* bound of the number of failures
    MaxCrashes,   \* bound of the number of times the process dies
    MaxRequests,  \* bound of the number of deletions and edits
    Edited,       \* the text an edit writes
    None

Suffix == {"wav", "bin"}

ASSUME CallUploadAssumption ==
    /\ SaveModes \subseteq BOOLEAN
    /\ Faults \subseteq {"stt", "db", "commit", "unlink"}
    /\ IsFiniteSet(Upload)
    /\ \A u \in Upload : \A input \in Inputs[u] :
         input # None /\ input.suffix \in Suffix /\ input.file \in Content
    /\ KeyFiles \subseteq Keys \cup {NoKey}
    /\ {MaxBytes, MaxFaults, MaxCrashes, MaxRequests} \subseteq Nat
    /\ None \notin Upload \cup {200, 400, 413, 500} /\ None \notin Bytes /\ Edited # None

VARIABLES
    saving,       \* SAVE_UPLOADS
    key,          \* the key in the key file
    sent,         \* the input of every upload that has been read
    reply,        \* the status code it was answered with
    at,           \* the step process_call has reached
    work,         \* its local variables
    files,        \* UPLOAD_DIR: the content of every {processing_id}{suffix} that is there
    raised,       \* the paths of which a log line or a traceback says that unlink has failed
    rows,         \* call_summaries, by id
    lastId,       \* its AUTO_INCREMENT
    client,       \* where each request of the thread pool is
    budget        \* how many failures, crashes and requests there have been

vars == <<saving, key, sent, reply, at, work, files, raised, rows, lastId, client,
          budget>>
pool == <<client>>
disk == <<files, raised>>
table == <<rows, lastId>>

Maybe(S) == S \cup {None}

\* the fields of the form, none of them filled in
NoForm == [caller |-> Blank, extension |-> Blank, callee |-> Blank, started |-> <<>>, ended |-> <<>>]

\* an upload is inserted at most twice
Ids == 1 .. 2 * Cardinality(Upload)
FilesOf(u) == {u} \X Suffix
Status == {"completed", "failed"}
NoWork == [up |-> None, path |-> None, meta |-> NoForm, text |-> None]
NoRequest == [at |-> "idle", up |-> None, left |-> {}]

Init ==
    /\ saving \in SaveModes /\ key \in KeyFiles
    /\ sent = [u \in Upload |-> None]
    /\ reply = [u \in Upload |-> None]
    /\ at = "idle" /\ work = NoWork
    /\ files = [f \in {} |-> None] /\ raised = {}
    /\ rows = [i \in Ids |-> None] /\ lastId = 0
    /\ client = [c \in Client |-> NoRequest]
    /\ budget = [faults |-> 0, crashes |-> 0, requests |-> 0]

Write(path, file) ==
    /\ files' = [f \in DOMAIN files \cup {path} |-> IF f = path THEN file ELSE files[f]]
    /\ UNCHANGED raised

\* process_call is at one step and goes on to another one
Go(from, to) == at = from /\ at' = to

Answer(code) ==
    /\ reply' = [reply EXCEPT ![work.up] = code]
    /\ work' = NoWork

Fail(kind) ==
    /\ kind \in Faults /\ budget.faults < MaxFaults
    /\ budget' = [budget EXCEPT !.faults = @ + 1]

Unlink(path) ==
    /\ path \in DOMAIN files
    /\ files' = [f \in DOMAIN files \ {path} |-> files[f]]
    /\ UNCHANGED <<raised, budget>>

\* an OSError; without a fault it is that another request has unlinked the file before
UnlinkRaises(path) ==
    /\ IF path \in DOMAIN files THEN Fail("unlink") ELSE UNCHANGED budget
    /\ raised' = raised \cup {path}
    /\ UNCHANGED files

-----------------------------------------------------------------------------
(* POST /calls/process *)

\* the extension in the name is the callee, too
FromName(name) ==
    LET named == ParseFilename(name)
    IN  [caller |-> named.caller, extension |-> named.extension, callee |-> named.extension,
         started |-> named.started, ended |-> named.ended]

\* a field of the form wins over what the file's name says
Metadata(input) ==
    [field \in DOMAIN NoForm |->
        IF input.form[field] = NoForm[field] THEN FromName(input.name)[field] ELSE input.form[field]]

Receive(u) ==
    /\ at = "idle" /\ sent[u] = None
    /\ \E input \in Inputs[u] :
        /\ sent' = [sent EXCEPT ![u] = input]
        /\ LET size == Size(input.file) IN
           IF size = 0 \/ size > MaxBytes
           THEN /\ reply' = [reply EXCEPT ![u] = IF size = 0 THEN 400 ELSE 413]
                /\ UNCHANGED <<at, work>>
           ELSE /\ at' = "write"
                /\ work' = [up |-> u, path |-> <<u, input.suffix>>,
                            meta |-> Metadata(input), text |-> None]
                /\ UNCHANGED reply
    /\ UNCHANGED <<saving, key, disk, table, pool, budget>>

\* both branches of "if config.SAVE_UPLOADS" write the file
WriteUpload ==
    /\ LET file == sent[work.up].file IN
       /\ Go("write", IF IsEncrypted(file) THEN "decrypt" ELSE "transcribe")
       /\ Write(work.path, file)
    /\ UNCHANGED <<saving, key, sent, reply, work, table, pool, budget>>

Decrypt ==
    /\ Go("decrypt", "transcribe")
    /\ CanDecrypt(files[work.path], key)
    /\ Write(<<work.up, "wav">>, PlainFile(Plaintext(files[work.path], key)))
    /\ work' = [work EXCEPT !.path = <<work.up, "wav">>]
    /\ UNCHANGED <<saving, key, sent, reply, table, pool, budget>>

\* answered 400, or 500 when there is no key file; it is before the try, so that nothing is
\* cleaned up and no row is written
DecryptFails ==
    /\ Go("decrypt", "idle")
    /\ ~CanDecrypt(files[work.path], key)
    /\ \/ Answer(400)
       \/ key = NoKey /\ files[work.path].cipher = "aria256" /\ Answer(500)
    /\ UNCHANGED <<saving, key, sent, disk, table, pool, budget>>

\* Whisper reads a plain recording that is not empty, and its words are the recording's
Transcribe ==
    /\ Go("transcribe", "insert")
    /\ LET file == files[work.path] IN
       /\ ~file.magic /\ file.bytes # <<>>
       /\ work' = [work EXCEPT !.text = file.bytes]
    /\ UNCHANGED <<saving, key, sent, reply, disk, table, pool, budget>>

TranscribeFails ==
    /\ Go("transcribe", "error")
    /\ \/ /\ files[work.path].magic \/ files[work.path].bytes = <<>>
          /\ UNCHANGED budget
       \/ Fail("stt")
    /\ UNCHANGED <<saving, key, sent, reply, work, disk, table, pool>>

\* A mutant: the row names the upload as it was stored, decrypted or not.
RowOfStored(status) ==
    [up |-> work.up, status |-> status,
     audio |-> IF saving THEN <<work.up, sent[work.up].suffix>> ELSE None,
     meta |-> work.meta, text |-> IF status = "completed" THEN work.text ELSE None]

Row(status) ==
    [up |-> work.up, status |-> status, audio |-> IF saving THEN work.path ELSE None,
     meta |-> work.meta, text |-> IF status = "completed" THEN work.text ELSE None]

Records ==
    [up : Upload, status : Status, audio : Maybe(Upload \X Suffix),
     meta : {Metadata(input) : input \in UNION {Inputs[u] : u \in Upload}},
     text : Maybe(Bytes) \cup {Edited}]

ASSUME NoneIsNoRecord == None \notin Records

\* processing_id is UNIQUE
IsRecorded(u) == \E i \in Ids : rows[i] # None /\ rows[i].up = u

Insert(status) ==
    /\ ~IsRecorded(work.up)
    /\ lastId' = lastId + 1
    /\ rows' = [rows EXCEPT ![lastId + 1] = Row(status)]

\* A mutant: the status is not one the others ask for.
InsertCompletedAsDone ==
    /\ Go("insert", "finally")
    /\ Insert("done")
    /\ UNCHANGED <<saving, key, sent, reply, work, disk, pool, budget>>

InsertCompleted ==
    /\ Go("insert", "finally")
    /\ Insert("completed")
    /\ UNCHANGED <<saving, key, sent, reply, work, disk, pool, budget>>

\* A mutant: an insert that failed is taken for done.
InsertFailsUnnoticed ==
    /\ Go("insert", "finally")
    /\ Fail("db") /\ UNCHANGED table
    /\ UNCHANGED <<saving, key, sent, reply, work, disk, pool>>

\* an exception from insert_summary: before the commit, or after it
InsertFails ==
    /\ Go("insert", "error")
    /\ \/ Fail("db") /\ UNCHANGED table
       \/ Fail("commit") /\ Insert("completed")
    /\ work' = [work EXCEPT !.text = None]
    /\ UNCHANGED <<saving, key, sent, reply, disk, pool>>

\* A mutant: the failed row is tried until the table takes it.
InsertErrorAgain ==
    /\ Go("error", "finally")
    /\ work' = [work EXCEPT !.text = None]
    /\ Insert("failed")
    /\ UNCHANGED <<saving, key, sent, reply, disk, pool, budget>>

\* the except clause
InsertError ==
    /\ Go("error", "finally")
    /\ work' = [work EXCEPT !.text = None]
    /\ \/ Insert("failed") /\ UNCHANGED budget
       \/ IsRecorded(work.up) /\ UNCHANGED <<table, budget>>
       \/ Fail("db") /\ UNCHANGED table
       \/ Fail("commit") /\ Insert("failed")
    /\ UNCHANGED <<saving, key, sent, reply, disk, pool>>

\* the finally clause: whether the stored file is there, and its unlink, which raises when DELETE
\* has been faster; then what comes after it is skipped, and a completed row is answered 500
Stored == <<work.up, sent[work.up].suffix>>

CleanUp ==
    /\ Go("finally", IF ~saving /\ Stored \in DOMAIN files THEN "unlink" ELSE "decrypted")
    /\ UNCHANGED <<saving, key, sent, reply, work, disk, table, pool, budget>>

UnlinkStored ==
    /\ \/ Go("unlink", "decrypted") /\ Unlink(Stored) /\ UNCHANGED <<reply, work>>
       \/ Go("unlink", "idle") /\ UnlinkRaises(Stored) /\ Answer(500)
    /\ UNCHANGED <<saving, key, sent, table, pool>>

\* and the same of the decrypted file
Return == Answer(IF work.text # None THEN 200 ELSE 500)

\* A mutant: only the upload itself is removed.
CleanUpNothingMore ==
    /\ Go("decrypted", "idle") /\ Return
    /\ UNCHANGED <<saving, key, sent, disk, table, pool, budget>>

CleanUpDecrypted ==
    /\ at = "decrypted"
    /\ IF ~saving /\ IsEncrypted(sent[work.up].file) /\ work.path \in DOMAIN files
       THEN at' = "unlink_decrypted" /\ UNCHANGED <<reply, work>>
       ELSE at' = "idle" /\ Return
    /\ UNCHANGED <<saving, key, sent, disk, table, pool, budget>>

UnlinkDecrypted ==
    /\ Go("unlink_decrypted", "idle")
    /\ \/ Unlink(work.path) /\ Return
       \/ UnlinkRaises(work.path) /\ Answer(500)
    /\ UNCHANGED <<saving, key, sent, table, pool>>

ProcessStep ==
    \/ WriteUpload \/ Decrypt \/ DecryptFails \/ Transcribe \/ TranscribeFails
    \/ InsertCompleted \/ InsertFails \/ InsertError
    \/ CleanUp \/ UnlinkStored \/ CleanUpDecrypted \/ UnlinkDecrypted

\* the container dies and is started again: what was in memory is gone
Crash ==
    /\ budget.crashes < MaxCrashes
    /\ at # "idle" \/ \E c \in Client : client[c].at # "idle"
    /\ budget' = [budget EXCEPT !.crashes = @ + 1]
    /\ at' = "idle" /\ work' = NoWork
    /\ client' = [c \in Client |-> NoRequest]
    /\ UNCHANGED <<saving, key, sent, reply, disk, table>>

-----------------------------------------------------------------------------
(* DELETE /calls/{call_id} and PATCH /calls/{call_id}/transcript *)

Ask(c) ==
    /\ client[c].at = "idle" /\ budget.requests < MaxRequests
    /\ budget' = [budget EXCEPT !.requests = @ + 1]

DeleteRow(c, i) ==
    /\ rows[i] # None /\ Ask(c)
    /\ rows' = [rows EXCEPT ![i] = None]
    /\ client' = [client EXCEPT ![c] = [at |-> "audio", up |-> rows[i].up,
                                         left |-> {rows[i].audio} \ {None}]]
    /\ UNCHANGED <<saving, key, sent, reply, at, work, disk, lastId>>

\* A mutant: the recording is listed and the upload it was decrypted from is not.
ListRecording(c) ==
    /\ client[c].at = "audio" /\ client[c].left = {}
    /\ client' = [client EXCEPT ![c].at = "glob",
                                ![c].left = {<<client[c].up, "wav">>} \cap DOMAIN files]
    /\ UNCHANGED <<saving, key, sent, reply, at, work, disk, table, budget>>

\* after stored_audio_path, every file of UPLOAD_DIR that begins with the processing_id
ListUploads(c) ==
    /\ client[c].at = "audio" /\ client[c].left = {}
    /\ client' = [client EXCEPT ![c].at = "glob",
                                ![c].left = FilesOf(client[c].up) \cap DOMAIN files]
    /\ UNCHANGED <<saving, key, sent, reply, at, work, disk, table, budget>>

\* one file after the other, and an OSError is logged and passed over
UnlinkUpload(c) ==
    /\ \E path \in client[c].left :
         /\ Unlink(path) \/ UnlinkRaises(path)
         /\ client' = [client EXCEPT ![c].left = @ \ {path}]
    /\ UNCHANGED <<saving, key, sent, reply, at, work, table>>

DeleteEnds(c) ==
    /\ client[c].at = "glob" /\ client[c].left = {}
    /\ client' = [client EXCEPT ![c] = NoRequest]
    /\ UNCHANGED <<saving, key, sent, reply, at, work, disk, table, budget>>

DeleteStep(c) == ListUploads(c) \/ UnlinkUpload(c) \/ DeleteEnds(c)

\* answered 404 when no row has changed, also because it has that text already
EditTranscript(c, i) ==
    /\ rows[i] # None /\ Ask(c)
    /\ rows' = [rows EXCEPT ![i].text = Edited]
    /\ UNCHANGED <<saving, key, sent, reply, at, work, disk, lastId, pool>>

PoolStep(c) ==
    \/ \E i \in Ids : DeleteRow(c, i) \/ EditTranscript(c, i)
    \/ DeleteStep(c)

Next ==
    \/ \E u \in Upload : Receive(u)
    \/ ProcessStep
    \/ Crash
    \/ \E c \in Client : PoolStep(c)

Spec == Init /\ [][Next]_vars

\* process_call runs on its event loop until it returns, and a thread until its request is done
FairSpec == Spec /\ WF_vars(ProcessStep) /\ \A c \in Client : WF_vars(DeleteStep(c))

-----------------------------------------------------------------------------
(* Properties *)

\* Every variable has its type, an upload is under way exactly when process_call is, and
\* AUTO_INCREMENT stays within two inserts of each upload.
TypeOK ==
    /\ saving \in SaveModes /\ key \in KeyFiles
    /\ \A u \in Upload : sent[u] \in Maybe(Inputs[u])
    /\ reply \in [Upload -> Maybe({200, 400, 413, 500})]
    /\ at \in {"idle", "write", "decrypt", "transcribe", "insert", "error",
               "finally", "unlink", "decrypted", "unlink_decrypted"}
    /\ work.up \in Maybe(Upload) /\ (at # "idle" <=> work.up # None)
    /\ work.text \in Maybe(Bytes)
    /\ DOMAIN files \subseteq Upload \X Suffix
    /\ \A f \in DOMAIN files : files[f] \in Content
    /\ raised \subseteq Upload \X Suffix
    /\ lastId \in Ids \cup {0}
    /\ \A i \in Ids : rows[i] # None =>
         /\ i <= lastId /\ rows[i].up \in Upload /\ rows[i].status \in Status
         /\ rows[i].audio \in Maybe(FilesOf(rows[i].up))
    /\ client \in [Client -> {NoRequest}
         \cup [at : {"audio", "glob"}, up : Upload, left : SUBSET (Upload \X Suffix)]]
    /\ budget \in [faults : 0 .. MaxFaults, crashes : 0 .. MaxCrashes,
                   requests : 0 .. MaxRequests]

\* what was recorded: a digest is made from the whole content, without the padding
Original(file) == IF file.magic THEN file.digest ELSE file.bytes

IsCompleted(i) == rows[i] # None /\ rows[i].status = "completed"

\* A completed row holds the words of the recording its caller sent, deciphered whole and without
\* the padding, or an edit: a wrong key, an altered or a cut file never yields a transcript.
RowIsOfItsRecording ==
    \A i \in Ids : IsCompleted(i) => rows[i].text \in {Original(sent[rows[i].up].file), Edited}

\* As long as a completed call is listed its stored audio can be played: the file of its row is
\* there and is a plain recording.  A failed row may name what could not be read.
ListedAudioPlays ==
    \A i \in Ids : IsCompleted(i) /\ rows[i].audio # None =>
        rows[i].audio \in DOMAIN files /\ ~files[rows[i].audio].magic

Readable(file) == ~file.magic /\ file.bytes # <<>>

HasRow(u, status) == \E i \in Ids : rows[i] # None /\ rows[i].up = u /\ rows[i].status = status

\* The caller of an upload can rely on the answer while nobody deletes calls: 200 means that a
\* completed row is there, 500 that a failed row is when nothing but the recognition has failed;
\* and one failure of the database, at either side of the commit, leaves a readable recording with
\* a row of some status.
AnswerIsRecorded ==
    budget.requests = 0 => \A u \in Upload :
        /\ reply[u] = 200 => HasRow(u, "completed")
        /\ reply[u] = 500 /\ budget.faults = 0 /\ key # NoKey => HasRow(u, "failed")
        /\ reply[u] = 500 /\ budget.faults = 1 /\ Readable(sent[u].file) => IsRecorded(u)

\* With SAVE_UPLOADS off an upload that got past its decryption leaves no file: none when it was
\* answered 200, and none after a 500, whatever else failed, unless the traceback or the log names
\* a file of it that could not be unlinked.
NothingIsKept ==
    ~saving => \A u \in Upload :
        \/ reply[u] = 200
        \/ /\ reply[u] = 500 /\ (key # NoKey \/ ~IsEncrypted(sent[u].file))
           /\ FilesOf(u) \cap raised = {}
        => FilesOf(u) \cap DOMAIN files = {}

\* A call does not end before it starts, when both times come from the file's name, and it ends
\* within a year.
CallEndsAfterItStarts ==
    \A i \in Ids :
        LET m == rows[i].meta
            form == sent[rows[i].up].form
        IN  rows[i] # None /\ m.ended # <<>> /\ form.started = <<>> /\ form.ended = <<>> =>
            /\ IsMoment(m.started) /\ IsMoment(m.ended)
            /\ ~Before(m.ended, m.started)
            /\ ~Before([m.started EXCEPT ![1] = @ + 1], m.ended)

\* With SAVE_UPLOADS off, an upload that has been answered is not kept.
UploadIsNotKept ==
    ~saving => \A u \in Upload : reply[u] # None => FilesOf(u) \cap DOMAIN files = {}

\* An upload that has been read is answered, unless the process dies.
UploadIsAnswered ==
    \A u \in Upload : sent[u] # None ~> reply[u] # None \/ budget.crashes > 0

Deleting(u) == \E c \in Client : client[c].up = u

\* A deletion that has removed the row of a call goes on to remove all its files, the upload and
\* what was decrypted from it, but for those of which the log says that they could not be unlinked,
\* and none comes back from the upload that may still be running; unless the process dies.
DeletedUploadStaysGone ==
    \A u \in Upload :
        Deleting(u) ~> [](FilesOf(u) \cap DOMAIN files \subseteq raised) \/ budget.crashes > 0
=============================================================================
