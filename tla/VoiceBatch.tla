----------------------------- MODULE VoiceBatch -----------------------------
(***************************************************************************)
(* The folder batch of app/voice_batch.py.  A collector drops recordings   *)
(* into VOICE_DIR.  Workers - the watch thread of the API process and any  *)
(* number of command-line runs - list the directory, lock one file after   *)
(* the other with a "<name>.lock" file, transcribe it, write its text to   *)
(* TRANSLATE_DIR, move it to VOICE_FINISH_DIR and insert a row in          *)
(* call_summaries.  A file whose processing raises is moved to             *)
(* VOICE_FAILED_DIR after its lock has been released.                      *)
(*                                                                         *)
(* Workers share nothing but the directories and the table, so every call  *)
(* that reads or writes one of those is a step of its own.  What a file    *)
(* holds is the recording it came from; a transcript is the recording that *)
(* was transcribed.  The four directories are on one mount, where          *)
(* shutil.move is a rename: atomic, and silent about an existing target.   *)
(***************************************************************************)
EXTENDS Naturals, Sequences, FiniteSets

CONSTANTS
    Worker,      \* the processes and threads that run batches
    Watcher,     \* those of them that run run_voice_watch_loop
    Rec,         \* the recordings the collector may drop
    Name,        \* file names, numbered in the order of sorted()
    NameOf,      \* the file name a recording is dropped under
    Stem,        \* file names without extension
    StemOf,      \* the stem of a file name
    Limit,       \* the batch limit of a worker, or NoLimit
    NoLimit,     \* limit is None
    MaxTime,     \* bound of the clock that the suffixes are taken from
    Faults,      \* the kinds of failure that may happen
    None         \* no recording, no file name, no path

FaultKinds == {"stt", "text", "move", "db", "db_unknown", "lock_open",
               "lock_write", "unlock", "quarantine", "crash"}

ASSUME VoiceBatchAssumption ==
    /\ Watcher \subseteq Worker
    /\ Name \subseteq Nat
    /\ NameOf \in [Rec -> Name]
    /\ StemOf \in [Name -> Stem]
    /\ Limit \in [Worker -> Nat \cup {NoLimit}]
    /\ MaxTime \in Nat \ {0}
    /\ Faults \subseteq FaultKinds
    /\ None \notin Rec
    /\ None \notin Name

VARIABLES
    voice,       \* VOICE_DIR: the recording under each name
    locks,       \* the names that have a .lock file
    finish,      \* VOICE_FINISH_DIR: the recording under each path
    failed,      \* VOICE_FAILED_DIR
    tmp,         \* TRANSLATE_DIR/*.txt.tmp: the recording transcribed
    translate,   \* TRANSLATE_DIR/*.txt
    rows,        \* call_summaries, in the order of its AUTO_INCREMENT id
    pc,          \* where each worker is
    todo,        \* the names left in the list a worker walks through
    job,         \* the local variables of process_voice_file
    now,         \* the second of the wall clock
    dropped      \* the recordings the collector has dropped so far

dirs == <<voice, locks, finish, failed, tmp, translate>>
vars == <<voice, locks, finish, failed, tmp, translate, rows, pc, todo, job,
          now, dropped>>

Maybe(S) == S \cup {None}

\* A file in a target directory is <<name, stamp>>; stamp 0 is a plain name.
Stamp == 0 .. MaxTime
AudioPath == Name \X Stamp
TextPath == Stem \X Stamp

Row == [text : Rec, path : AudioPath]

\* From _acquire_lock to _release_lock.
Locked == {"paths", "transcribe", "tmp", "replace", "move", "insert", "release"}
\* The except clause of process_voice_batch, without the lock.
Quarantining == {"exists", "quarantine"}
Label == {"down", "idle", "next"} \cup Locked \cup Quarantining

Job == [name : Maybe(Name), out : Maybe(TextPath), fin : Maybe(AudioPath),
        bad : Maybe(AudioPath), text : Maybe(Rec), ok : BOOLEAN]
NoJob == [name |-> None, out |-> None, fin |-> None, bad |-> None,
          text |-> None, ok |-> TRUE]

TypeOK ==
    /\ voice \in [Name -> Maybe(Rec)]
    /\ locks \subseteq Name
    /\ finish \in [AudioPath -> Maybe(Rec)]
    /\ failed \in [AudioPath -> Maybe(Rec)]
    /\ tmp \in [TextPath -> Maybe(Rec)]
    /\ translate \in [TextPath -> Maybe(Rec)]
    /\ rows \in Seq(Row)
    /\ pc \in [Worker -> Label]
    /\ todo \in [Worker -> SUBSET Name]
    /\ job \in [Worker -> Job]
    /\ now \in 1 .. MaxTime
    /\ dropped \subseteq Rec

Init ==
    /\ voice = [n \in Name |-> None]
    /\ locks = {}
    /\ finish = [p \in AudioPath |-> None]
    /\ failed = [p \in AudioPath |-> None]
    /\ tmp = [p \in TextPath |-> None]
    /\ translate = [p \in TextPath |-> None]
    /\ rows = <<>>
    /\ pc = [w \in Worker |-> "idle"]
    /\ todo = [w \in Worker |-> {}]
    /\ job = [w \in Worker |-> NoJob]
    /\ now = 1
    /\ dropped = {}

-----------------------------------------------------------------------------
(* The environment: the collector and the clock. *)

\* External: the collector puts a complete file under a name that is free.
Drop(r) ==
    /\ r \notin dropped
    /\ voice[NameOf[r]] = None
    /\ voice' = [voice EXCEPT ![NameOf[r]] = r]
    /\ dropped' = dropped \cup {r}
    /\ UNCHANGED <<locks, finish, failed, tmp, translate, rows, pc, todo, job,
                   now>>

\* External: the wall clock, read to the second by datetime.now().strftime.
Tick ==
    /\ now < MaxTime
    /\ now' = now + 1
    /\ UNCHANGED <<dirs, rows, pc, todo, job, dropped>>

-----------------------------------------------------------------------------
(* process_voice_batch: the list and the loop over it. *)

\* Mutant: the limit counts one file too many.
FirstOfOffByOne(files, limit) ==
    IF limit = NoLimit
    THEN files
    ELSE {n \in files : Cardinality({m \in files : m < n}) + 1 < limit}

\* files[:limit] of a sorted list.
FirstOf(files, limit) ==
    IF limit = NoLimit
    THEN files
    ELSE {n \in files : Cardinality({m \in files : m < n}) < limit}

VoiceFiles == {n \in Name : voice[n] # None}

\* The list is a snapshot: later drops and moves do not change it.
List(w) ==
    /\ pc[w] = "idle"
    /\ todo' = [todo EXCEPT ![w] = FirstOf(VoiceFiles, Limit[w])]
    /\ pc' = [pc EXCEPT ![w] = "next"]
    /\ UNCHANGED <<dirs, rows, job, now, dropped>>

\* The end of the loop, back to the wait of the watcher or out of main.
EndBatch(w) ==
    /\ pc[w] = "next"
    /\ todo[w] = {}
    /\ pc' = [pc EXCEPT ![w] = "idle"]
    /\ UNCHANGED <<dirs, rows, todo, job, now, dropped>>

IsHead(w, n) == n \in todo[w] /\ \A m \in todo[w] : n <= m

\* The lock file exists: the file counts as "skipped".
SkipLocked(w) ==
    /\ pc[w] = "next"
    /\ \E n \in locks :
          /\ IsHead(w, n)
          /\ todo' = [todo EXCEPT ![w] = @ \ {n}]
    /\ UNCHANGED <<dirs, rows, pc, job, now, dropped>>

\* Mutant: the lock is created without O_EXCL.
AcquireShared(w) ==
    /\ pc[w] = "next"
    /\ \E n \in Name :
          /\ IsHead(w, n)
          /\ locks' = locks \cup {n}
          /\ todo' = [todo EXCEPT ![w] = @ \ {n}]
          /\ pc' = [pc EXCEPT ![w] = "paths"]
          /\ job' = [job EXCEPT ![w] = [NoJob EXCEPT !.name = n]]
    /\ UNCHANGED <<voice, finish, failed, tmp, translate, rows, now, dropped>>

\* os.open(O_CREAT | O_EXCL) makes the lock.  When the write of pid and time
\* fails, the exception leaves before the try of process_voice_file: the lock
\* stays and the caller goes on to the quarantine.
Acquire(w) ==
    /\ pc[w] = "next"
    /\ \E n \in Name \ locks :
          /\ IsHead(w, n)
          /\ locks' = locks \cup {n}
          /\ todo' = [todo EXCEPT ![w] = @ \ {n}]
          /\ \/ /\ pc' = [pc EXCEPT ![w] = "paths"]
                /\ job' = [job EXCEPT ![w] = [NoJob EXCEPT !.name = n]]
             \/ /\ "lock_write" \in Faults
                /\ pc' = [pc EXCEPT ![w] = "exists"]
                /\ job' = [job EXCEPT ![w] = [NoJob EXCEPT !.name = n,
                                                           !.ok = FALSE]]
    /\ UNCHANGED <<voice, finish, failed, tmp, translate, rows, now, dropped>>

\* os.open raises another OSError than FileExistsError, whoever has the lock:
\* there is no try yet, and the caller goes on to the quarantine.
AcquireFails(w) ==
    /\ pc[w] = "next"
    /\ "lock_open" \in Faults
    /\ \E n \in Name :
          /\ IsHead(w, n)
          /\ todo' = [todo EXCEPT ![w] = @ \ {n}]
          /\ pc' = [pc EXCEPT ![w] = "exists"]
          /\ job' = [job EXCEPT ![w] = [NoJob EXCEPT !.name = n, !.ok = FALSE]]
    /\ UNCHANGED <<dirs, rows, now, dropped>>

-----------------------------------------------------------------------------
(* process_voice_file, between the lock and its release. *)

\* Mutants: the name is not checked; the suffix is not the current second.
SafePathUnchecked(dir, base) == <<base, 0>>
SafePathAhead(dir, base) ==
    IF dir[<<base, 0>>] = None THEN <<base, 0>> ELSE <<base, now + 1>>

\* A plain name if it is free, else one with the current second, unchecked.
SafePath(dir, base) ==
    IF dir[<<base, 0>>] = None THEN <<base, 0>> ELSE <<base, now>>

ChoosePaths(w) ==
    /\ pc[w] = "paths"
    /\ job' = [job EXCEPT ![w].out = SafePath(translate, StemOf[job[w].name]),
                          ![w].fin = SafePath(finish, job[w].name)]
    /\ pc' = [pc EXCEPT ![w] = "transcribe"]
    /\ UNCHANGED <<dirs, rows, todo, now, dropped>>

\* An exception inside the try: only the finally clause is left.
Raise(w) ==
    /\ pc' = [pc EXCEPT ![w] = "release"]
    /\ job' = [job EXCEPT ![w].ok = FALSE]
    /\ UNCHANGED <<dirs, rows, todo, now, dropped>>

\* Mutant: the text is not written.
TranscribeOnly(w) ==
    /\ pc[w] = "transcribe"
    /\ voice[job[w].name] # None
    /\ job' = [job EXCEPT ![w].text = voice[job[w].name]]
    /\ pc' = [pc EXCEPT ![w] = "move"]
    /\ UNCHANGED <<dirs, rows, todo, now, dropped>>

\* transcribe_and_summarize reads the file under the name, if there is one.
Transcribe(w) ==
    /\ pc[w] = "transcribe"
    /\ voice[job[w].name] # None
    /\ job' = [job EXCEPT ![w].text = voice[job[w].name]]
    /\ pc' = [pc EXCEPT ![w] = "tmp"]
    /\ UNCHANGED <<dirs, rows, todo, now, dropped>>

TranscribeFails(w) ==
    /\ pc[w] = "transcribe"
    /\ voice[job[w].name] = None \/ "stt" \in Faults
    /\ Raise(w)

WriteTmp(w) ==
    /\ pc[w] = "tmp"
    /\ tmp' = [tmp EXCEPT ![job[w].out] = job[w].text]
    /\ pc' = [pc EXCEPT ![w] = "replace"]
    /\ UNCHANGED <<voice, locks, finish, failed, translate, rows, todo, job,
                   now, dropped>>

WriteTmpFails(w) ==
    /\ pc[w] = "tmp"
    /\ "text" \in Faults
    /\ Raise(w)

\* Mutant: the row is inserted without waiting for the move.
ReplaceTextThenInsert(w) ==
    /\ pc[w] = "replace"
    /\ tmp[job[w].out] # None
    /\ translate' = [translate EXCEPT ![job[w].out] = tmp[job[w].out]]
    /\ tmp' = [tmp EXCEPT ![job[w].out] = None]
    /\ pc' = [pc EXCEPT ![w] = "insert"]
    /\ UNCHANGED <<voice, locks, finish, failed, rows, todo, job, now, dropped>>

\* tmp_path.replace(path): a rename over whatever is there.
ReplaceText(w) ==
    /\ pc[w] = "replace"
    /\ tmp[job[w].out] # None
    /\ translate' = [translate EXCEPT ![job[w].out] = tmp[job[w].out]]
    /\ tmp' = [tmp EXCEPT ![job[w].out] = None]
    /\ pc' = [pc EXCEPT ![w] = "move"]
    /\ UNCHANGED <<voice, locks, finish, failed, rows, todo, job, now, dropped>>

\* Another worker with the same target has renamed the temporary file away.
ReplaceTextFails(w) ==
    /\ pc[w] = "replace"
    /\ tmp[job[w].out] = None
    /\ Raise(w)

\* Mutants: the file is copied and stays in VOICE_DIR; the row is forgotten.
CopyToFinish(w) ==
    /\ pc[w] = "move"
    /\ voice[job[w].name] # None
    /\ finish' = [finish EXCEPT ![job[w].fin] = voice[job[w].name]]
    /\ pc' = [pc EXCEPT ![w] = "insert"]
    /\ UNCHANGED <<voice, locks, failed, tmp, translate, rows, todo, job, now,
                   dropped>>
MoveToFinishOnly(w) ==
    /\ pc[w] = "move"
    /\ voice[job[w].name] # None
    /\ finish' = [finish EXCEPT ![job[w].fin] = voice[job[w].name]]
    /\ voice' = [voice EXCEPT ![job[w].name] = None]
    /\ pc' = [pc EXCEPT ![w] = "release"]
    /\ UNCHANGED <<locks, failed, tmp, translate, rows, todo, job, now, dropped>>

MoveToFinish(w) ==
    /\ pc[w] = "move"
    /\ voice[job[w].name] # None
    /\ finish' = [finish EXCEPT ![job[w].fin] = voice[job[w].name]]
    /\ voice' = [voice EXCEPT ![job[w].name] = None]
    /\ pc' = [pc EXCEPT ![w] = "insert"]
    /\ UNCHANGED <<locks, failed, tmp, translate, rows, todo, job, now, dropped>>

\* Mutant: an error of the move is swallowed.
MoveToFinishIgnored(w) ==
    /\ pc[w] = "move"
    /\ voice[job[w].name] = None \/ "move" \in Faults
    /\ pc' = [pc EXCEPT ![w] = "insert"]
    /\ UNCHANGED <<dirs, rows, todo, job, now, dropped>>

MoveToFinishFails(w) ==
    /\ pc[w] = "move"
    /\ voice[job[w].name] = None \/ "move" \in Faults
    /\ Raise(w)

AddRow(w) ==
    rows' = Append(rows, [text |-> job[w].text, path |-> job[w].fin])

InsertRow(w) ==
    /\ pc[w] = "insert"
    /\ AddRow(w)
    /\ pc' = [pc EXCEPT ![w] = "release"]
    /\ UNCHANGED <<dirs, todo, job, now, dropped>>

\* The insert raises: nothing was written, or the answer to the COMMIT was lost.
InsertRowFails(w) ==
    /\ pc[w] = "insert"
    /\ \/ "db" \in Faults /\ UNCHANGED rows
       \/ "db_unknown" \in Faults /\ AddRow(w)
    /\ pc' = [pc EXCEPT ![w] = "release"]
    /\ job' = [job EXCEPT ![w].ok = FALSE]
    /\ UNCHANGED <<dirs, todo, now, dropped>>

\* Mutant: the lock is released on success only, not in a finally clause.
ReleaseOnSuccess(w) ==
    /\ pc[w] = "release"
    /\ IF job[w].ok
       THEN /\ locks' = locks \ {job[w].name}
            /\ pc' = [pc EXCEPT ![w] = "next"]
            /\ job' = [job EXCEPT ![w] = NoJob]
       ELSE /\ pc' = [pc EXCEPT ![w] = "exists"]
            /\ UNCHANGED <<locks, job>>
    /\ UNCHANGED <<voice, finish, failed, tmp, translate, rows, todo, now,
                   dropped>>

\* The finally clause.  An OSError of unlink is only logged.
Release(w) ==
    /\ pc[w] = "release"
    /\ \/ locks' = locks \ {job[w].name}
       \/ "unlock" \in Faults /\ UNCHANGED locks
    /\ IF job[w].ok
       THEN /\ pc' = [pc EXCEPT ![w] = "next"]
            /\ job' = [job EXCEPT ![w] = NoJob]
       ELSE /\ pc' = [pc EXCEPT ![w] = "exists"]
            /\ UNCHANGED job
    /\ UNCHANGED <<voice, finish, failed, tmp, translate, rows, todo, now,
                   dropped>>

-----------------------------------------------------------------------------
(* The except clause: _move_failed_voice_file. *)

\* Mutant: a failed file is only reported.
CheckFailedOnly(w) ==
    /\ pc[w] = "exists"
    /\ pc' = [pc EXCEPT ![w] = "next"]
    /\ job' = [job EXCEPT ![w] = NoJob]
    /\ UNCHANGED <<dirs, rows, todo, now, dropped>>

\* source.exists() and _safe_failed_path.
CheckFailed(w) ==
    /\ pc[w] = "exists"
    /\ IF voice[job[w].name] = None
       THEN /\ pc' = [pc EXCEPT ![w] = "next"]
            /\ job' = [job EXCEPT ![w] = NoJob]
       ELSE /\ pc' = [pc EXCEPT ![w] = "quarantine"]
            /\ job' = [job EXCEPT ![w].bad = SafePath(failed, job[w].name)]
    /\ UNCHANGED <<dirs, rows, todo, now, dropped>>

\* Mutant: a failed file is deleted, not moved.
DiscardFailed(w) ==
    /\ pc[w] = "quarantine"
    /\ voice[job[w].name] # None
    /\ voice' = [voice EXCEPT ![job[w].name] = None]
    /\ pc' = [pc EXCEPT ![w] = "next"]
    /\ job' = [job EXCEPT ![w] = NoJob]
    /\ UNCHANGED <<locks, finish, failed, tmp, translate, rows, todo, now,
                   dropped>>

MoveToFailed(w) ==
    /\ pc[w] = "quarantine"
    /\ voice[job[w].name] # None
    /\ failed' = [failed EXCEPT ![job[w].bad] = voice[job[w].name]]
    /\ voice' = [voice EXCEPT ![job[w].name] = None]
    /\ pc' = [pc EXCEPT ![w] = "next"]
    /\ job' = [job EXCEPT ![w] = NoJob]
    /\ UNCHANGED <<locks, finish, tmp, translate, rows, todo, now, dropped>>

\* Nothing catches an exception of the except clause: the batch is over.
MoveToFailedFails(w) ==
    /\ pc[w] = "quarantine"
    /\ voice[job[w].name] = None \/ "quarantine" \in Faults
    /\ pc' = [pc EXCEPT ![w] = "idle"]
    /\ todo' = [todo EXCEPT ![w] = {}]
    /\ job' = [job EXCEPT ![w] = NoJob]
    /\ UNCHANGED <<dirs, rows, now, dropped>>

\* The process is killed, or exits while its watch thread (a daemon) is at
\* work.  The directories and the table stay.
Crash(w) ==
    /\ "crash" \in Faults
    /\ pc[w] \notin {"idle", "down"}
    /\ pc' = [pc EXCEPT ![w] = "down"]
    /\ todo' = [todo EXCEPT ![w] = {}]
    /\ job' = [job EXCEPT ![w] = NoJob]
    /\ UNCHANGED <<dirs, rows, now, dropped>>

\* "restart: unless-stopped", or the next run of the command line.
Start(w) ==
    /\ pc[w] = "down"
    /\ pc' = [pc EXCEPT ![w] = "idle"]
    /\ UNCHANGED <<dirs, rows, todo, job, now, dropped>>

-----------------------------------------------------------------------------

\* What a worker does once a batch has begun.
Step(w) ==
    \/ EndBatch(w) \/ SkipLocked(w) \/ Acquire(w) \/ AcquireFails(w)
    \/ ChoosePaths(w)
    \/ Transcribe(w) \/ TranscribeFails(w)
    \/ WriteTmp(w) \/ WriteTmpFails(w)
    \/ ReplaceText(w) \/ ReplaceTextFails(w)
    \/ MoveToFinish(w) \/ MoveToFinishFails(w)
    \/ InsertRow(w) \/ InsertRowFails(w)
    \/ Release(w)
    \/ CheckFailed(w) \/ MoveToFailed(w) \/ MoveToFailedFails(w)

Next ==
    \/ \E r \in Rec : Drop(r)
    \/ Tick
    \/ \E w \in Worker : List(w) \/ Step(w) \/ Crash(w) \/ Start(w)

Spec == Init /\ [][Next]_vars

\* A batch that has begun goes on; the watch loop begins one again and again,
\* and its container is restarted; a person runs the command line or does not,
\* and nothing makes the collector drop a file, the clock pass a second or a
\* process die.
Fairness ==
    /\ \A w \in Worker : WF_vars(Step(w))
    /\ \A w \in Watcher : WF_vars(List(w)) /\ WF_vars(Start(w))

FairSpec == Spec /\ Fairness
-----------------------------------------------------------------------------
(* Properties. *)

InVoice(r) == voice[NameOf[r]] = r
InFinish(r) == \E p \in AudioPath : finish[p] = r
InFailed(r) == \E p \in AudioPath : failed[p] = r
HasRow(r) == \E i \in DOMAIN rows : rows[i].text = r

\* No two recordings are dropped under one name: the collector's names carry
\* the caller, the extension and the second a call began.
DistinctNames == \A r, s \in Rec : NameOf[r] = NameOf[s] => r = s

\* Two workers are never between _acquire_lock and _release_lock of the same
\* file, whatever fails or dies: a lock once made is only removed by the call
\* that made it.
LockExclusion ==
    \A v, w \in Worker :
        v # w /\ pc[v] \in Locked /\ pc[w] \in Locked
        => job[v].name # job[w].name

\* Every recording that was dropped is still in one of the three directories:
\* no rename of one worker ever lands on the file of another.
NothingLost ==
    \A r \in dropped : InVoice(r) \/ InFinish(r) \/ InFailed(r)

\* The audio a row points to (stored_audio_path, which the API plays, cuts
\* training clips from and deletes) is in VOICE_FINISH_DIR and is the recording
\* the row's transcript was made from.
RowMatchesAudio ==
    \A i \in DOMAIN rows : finish[rows[i].path] = rows[i].text

\* A recording gets at most one row, though two workers may process it one
\* after the other and an insert may fail with its outcome unknown.
NoDuplicateRow ==
    \A i, j \in DOMAIN rows : rows[i].text = rows[j].text => i = j

\* The transcript of every row is also a file in TRANSLATE_DIR: no worker
\* overwrites or renames away the text of another.
RowHasTranscript ==
    \A i \in DOMAIN rows : \E p \in TextPath : translate[p] = rows[i].text

\* Every lock file belongs to a worker that is at work on the file, so that
\* every way out of process_voice_file removes its lock.
NoLeakedLock ==
    \A n \in locks : \E w \in Worker : pc[w] \in Locked /\ job[w].name = n

\* Every recording that is dropped leaves VOICE_DIR: the watcher gets to it,
\* and it is finished or quarantined.
EveryFileHandled == \A r \in Rec : r \in dropped ~> ~InVoice(r)

\* A recording that has been moved to VOICE_FINISH_DIR gets its row.
FinishedIsRecorded == \A r \in Rec : InFinish(r) ~> HasRow(r)

\* README: "failed files are moved to data/voice_failed": when the except
\* clause is done with a file, the file is there.
FailedIsQuarantined ==
    [][\A w \in Worker, r \in Rec :
          /\ pc[w] \in Quarantining /\ pc'[w] = "next"
          /\ NameOf[r] = job[w].name
          => InFailed(r)']_vars

\* README: the API container looks at data/voice periodically and processes
\* the files one after the other: if processes die only finitely often, a
\* waiting file is at least locked some day.
WaitingIsPickedUp ==
    <>[][\A w \in Worker : ~Crash(w)]_vars
    => \A r \in Rec : r \in dropped ~> ~InVoice(r) \/ NameOf[r] \in locks

\* What the batch promises for a recording (VoiceLifecycle).
Place(r) ==
    CASE r \notin dropped -> "absent"
      [] r \in dropped /\ InFinish(r) -> "finished"
      [] r \in dropped /\ ~InFinish(r) /\ InFailed(r) -> "failed"
      [] OTHER -> "waiting"

Lifecycle == INSTANCE VoiceLifecycle
    WITH place <- [r \in Rec |-> Place(r)],
         ledger <- [i \in DOMAIN rows |-> rows[i].text]

\* Every step is a step of the life of at most one recording: it arrives, is
\* finished or quarantined once and for good, and is recorded once, after it
\* has been finished.
RefinesLifecycle == Lifecycle!Spec

\* With fair workers the life of a recording also goes on to its end.
RefinesFairLifecycle == Lifecycle!FairSpec
=============================================================================
