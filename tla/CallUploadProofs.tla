-------------------------- MODULE CallUploadProofs --------------------------
(***************************************************************************)
(* Theorems about CallUpload, for any uploads, clients, inputs, keys,      *)
(* limits and failures.                                                    *)
(***************************************************************************)
EXTENDS CallUpload, FiniteSetTheorems, TLAPS

Step == {"idle", "write", "decrypt", "transcribe", "insert", "error",
         "finally", "unlink", "decrypted", "unlink_decrypted"}

\* Before the first insert, nobody else has met the upload.
Early == {"write", "decrypt", "transcribe", "insert"}

IsFile(f) == f \in DOMAIN files

\* An upload has one row, also when the first insert was committed and its answer was lost.
OneRowPerUpload ==
    \A i, j \in Ids : rows[i] # None /\ rows[j] # None /\ rows[i].up = rows[j].up => i = j

\* The shapes of the variables, and what the upload being processed is.
Shape ==
    /\ DOMAIN sent = Upload /\ DOMAIN reply = Upload /\ DOMAIN rows = Ids
    /\ DOMAIN client = Client
    /\ \A u \in Upload : IF sent[u] = None THEN reply[u] = None ELSE sent[u] \in Inputs[u]
    /\ DOMAIN work = {"up", "path", "meta", "text"}
    /\ at \in Step

Working ==
    at # "idle" =>
        /\ work.up \in Upload /\ sent[work.up] # None
        /\ \/ work.path = Stored
           \/ work.path = <<work.up, "wav">> /\ IsEncrypted(sent[work.up].file)
        /\ reply[work.up] \notin {200, 500}

\* A row, a file and a deletion are of an upload that has been read.
RowsFit ==
    \A i \in Ids : rows[i] # None =>
        /\ DOMAIN rows[i] = {"up", "status", "audio", "meta", "text"}
        /\ rows[i].up \in Upload /\ sent[rows[i].up] # None
        /\ rows[i].audio # None => saving /\ rows[i].audio \in FilesOf(rows[i].up)

FilesFit ==
    \A f \in DOMAIN files :
        /\ f \in Upload \X Suffix
        /\ sent[f[1]] # None
        /\ ~files[f].magic => files[f].bytes = Original(sent[f[1]].file)

DeletionsFit ==
    \A c \in Client :
        /\ DOMAIN client[c] = {"at", "up", "left"}
        /\ client[c].up = None => client[c] = NoRequest
        /\ client[c].up # None =>
             /\ client[c].up \in Upload /\ sent[client[c].up] # None
             /\ client[c].left \subseteq FilesOf(client[c].up)
             /\ \A i \in Ids : IsCompleted(i) => rows[i].up # client[c].up

Fresh ==
    at \in Early => ~IsRecorded(work.up) /\ ~Deleting(work.up)

\* What each step of process_call finds.
Stage ==
    /\ at = "write" => /\ work.path = Stored
                       /\ FilesOf(work.up) \cap DOMAIN files = {}
    /\ at = "decrypt" => /\ work.path = Stored
                         /\ IsFile(work.path) /\ files[work.path] = sent[work.up].file
                         /\ IsEncrypted(sent[work.up].file)
    /\ at \in {"transcribe", "insert"} => IsFile(work.path)
    /\ at = "insert" => /\ ~files[work.path].magic
                        /\ work.text = Original(sent[work.up].file)
    /\ at \in {"unlink", "unlink_decrypted"} => ~saving

\* The files of the upload that is processed, until they are removed.
FilesOfWork ==
    at # "idle" =>
        /\ \A f \in DOMAIN files : f[1] = work.up => f \in {work.path, Stored}
        /\ at \in {"decrypted", "unlink_decrypted"} /\ ~saving => ~IsFile(Stored)

Fits == Shape /\ Working /\ RowsFit /\ FilesFit /\ DeletionsFit /\ Fresh /\ Stage /\ FilesOfWork

IInv == Fits /\ OneRowPerUpload /\ RowIsOfItsRecording /\ ListedAudioPlays /\ NothingIsKept

-----------------------------------------------------------------------------

LEMMA InitIInv == Init => IInv
<1> SUFFICES ASSUME Init PROVE IInv
  OBVIOUS
<1> USE CallUploadAssumption DEF Init
<1>1. Shape /\ Working
  BY DEF Shape, Working, NoWork, Step
<1>2. RowsFit /\ FilesFit /\ DeletionsFit /\ Fresh /\ Stage /\ FilesOfWork
  BY DEF RowsFit, FilesFit, DeletionsFit, Fresh, Stage, FilesOfWork, NoWork, NoRequest, Early
<1>3. OneRowPerUpload /\ RowIsOfItsRecording /\ ListedAudioPlays /\ NothingIsKept
  BY DEF OneRowPerUpload, RowIsOfItsRecording, ListedAudioPlays, NothingIsKept, IsCompleted
<1> QED  BY <1>1, <1>2, <1>3 DEF IInv, Fits

\* What an insert does to the table.
LEMMA InsertAdds ==
  ASSUME DOMAIN rows = Ids, NEW status, Insert(status)
  PROVE  /\ DOMAIN rows' = Ids
         /\ ~IsRecorded(work.up)
         /\ \A i \in Ids : rows'[i] = IF i = lastId + 1 THEN Row(status) ELSE rows[i]
BY DEF Insert

\* The paths that process_call writes and unlinks are of its upload.
LEMMA PathsFit ==
  ASSUME Shape, Working, at # "idle"
  PROVE  {Stored, work.path} \subseteq FilesOf(work.up) /\ work.up \in Upload
BY CallUploadAssumption DEF Working, Shape, Stored, Suffix, FilesOf

\* What has been sent is one of the inputs.
LEMMA InputIsRead ==
  ASSUME NEW u \in Upload, Receive(u)
  PROVE  \E input \in Inputs[u] : sent' = [sent EXCEPT ![u] = input]
BY DEF Receive

LEMMA ReceiveIInv == ASSUME IInv, NEW u \in Upload, Receive(u) PROVE IInv'
<1> USE CallUploadAssumption DEF IInv, Fits, Stored, disk, table, pool, Go
<1>1. PICK input \in Inputs[u] : sent' = [sent EXCEPT ![u] = input]
  BY InputIsRead
<1>2. input # None /\ input.suffix \in Suffix
  OBVIOUS
<1>3. /\ at = "idle" /\ sent[u] = None
      /\ UNCHANGED <<saving, key, files, raised, rows, client>>
      /\ \A v \in Upload : sent[v] # None => sent'[v] = sent[v]
      /\ sent'[u] = input /\ DOMAIN sent' = Upload
  BY <1>1 DEF Receive, Shape
<1>4. \/ /\ UNCHANGED <<at, work>>
         /\ reply' = [reply EXCEPT ![u] = 400] \/ reply' = [reply EXCEPT ![u] = 413]
      \/ /\ at' = "write" /\ reply' = reply
         /\ \E m : work' = [up |-> u, path |-> <<u, sent'[u].suffix>>, meta |-> m, text |-> None]
  BY <1>1, <1>3 DEF Receive
<1>5. Shape' /\ Working'
  BY <1>1, <1>2, <1>3, <1>4 DEF Shape, Step, Working
<1>6. RowsFit' /\ FilesFit' /\ DeletionsFit'
  BY <1>1, <1>2, <1>3, <1>4 DEF RowsFit, Shape, FilesFit, DeletionsFit, IsCompleted
<1>7. Fresh' /\ Stage' /\ FilesOfWork'
  BY <1>1, <1>2, <1>3, <1>4 DEF Fresh, Early, IsRecorded, Deleting, Working, Shape, RowsFit,
         DeletionsFit, Stage, IsFile, FilesFit, FilesOf, FilesOfWork
<1>8. OneRowPerUpload' /\ RowIsOfItsRecording' /\ ListedAudioPlays'
  BY <1>1, <1>2, <1>3, <1>4 DEF OneRowPerUpload, RowsFit, Shape, RowIsOfItsRecording,
         IsCompleted, ListedAudioPlays
<1>9. NothingIsKept'
  BY <1>1, <1>2, <1>3, <1>4 DEF NothingIsKept, Working, FilesFit, Shape, FilesOf
<1> QED  BY <1>5, <1>6, <1>7, <1>8, <1>9

LEMMA WriteUploadIInv == ASSUME IInv, WriteUpload PROVE IInv'
<1> USE CallUploadAssumption DEF IInv, Fits, Stored, disk, table, pool, Go, WriteUpload, Write
<1>1. Shape' /\ Working'
  BY DEF Shape, Step, Working
<1>2. RowsFit' /\ FilesFit' /\ DeletionsFit'
  <2>1. RowsFit' /\ DeletionsFit'
    BY DEF RowsFit, Shape, DeletionsFit, IsCompleted
  <2>2. work.path \in FilesOf(work.up) /\ work.up \in Upload
    BY PathsFit
  <2>3. FilesFit'
    BY <2>2 DEF FilesFit, Working, Stage, Original, FilesOf
  <2> QED  BY <2>1, <2>3
<1>3. Fresh' /\ Stage' /\ FilesOfWork'
  BY DEF Fresh, Early, IsRecorded, Deleting, Working, Shape, Stage, IsFile, FilesOfWork
<1>4. OneRowPerUpload' /\ RowIsOfItsRecording' /\ ListedAudioPlays'
  BY DEF OneRowPerUpload, RowsFit, Shape, RowIsOfItsRecording, IsCompleted, ListedAudioPlays,
         Fresh, Early, IsRecorded, FilesOf, Stage, Working
<1>5. NothingIsKept'
  BY DEF NothingIsKept, Working, FilesOf, Suffix, Stage, Shape
<1> QED  BY <1>1, <1>2, <1>3, <1>4, <1>5

LEMMA DecryptIInv == ASSUME IInv, Decrypt PROVE IInv'
<1> USE CallUploadAssumption DEF IInv, Fits, Stored, disk, table, pool, Go, Decrypt, Write, PlainFile,
        CanDecrypt, IsEncrypted
<1>1. Shape' /\ Working'
  BY DEF Shape, Step, Working, Stage
<1>2. RowsFit' /\ FilesFit' /\ DeletionsFit'
  <2>1. RowsFit' /\ DeletionsFit'
    BY DEF RowsFit, Shape, DeletionsFit, IsCompleted
  <2>2. FilesFit'
    BY DEF FilesFit, Working, Stage, Original, IsFile, Suffix
  <2> QED  BY <2>1, <2>2
<1>3. Fresh' /\ Stage' /\ FilesOfWork'
  BY DEF Fresh, Early, IsRecorded, Deleting, Working, Shape, Stage, IsFile, FilesOfWork
<1>4. OneRowPerUpload' /\ RowIsOfItsRecording' /\ ListedAudioPlays'
  BY DEF OneRowPerUpload, RowsFit, Shape, RowIsOfItsRecording, IsCompleted, ListedAudioPlays,
         Fresh, Early, IsRecorded, FilesOf, Stage, Working
<1>5. NothingIsKept'
  BY DEF NothingIsKept, Working, FilesOf, Suffix, Stage, Shape
<1> QED  BY <1>1, <1>2, <1>3, <1>4, <1>5

LEMMA DecryptFailsIInv == ASSUME IInv, DecryptFails PROVE IInv'
<1> USE CallUploadAssumption DEF IInv, Fits, Stored, disk, table, pool, Go, DecryptFails, Answer, NoWork
<1>1. Shape' /\ Working'
  BY DEF Shape, Step, Working
<1>2. RowsFit' /\ FilesFit' /\ DeletionsFit'
  BY DEF RowsFit, Shape, FilesFit, DeletionsFit, IsCompleted
<1>3. Fresh' /\ Stage' /\ FilesOfWork'
  BY DEF Fresh, Early, IsRecorded, Deleting, Working, Shape, Stage, IsFile, FilesOfWork
<1>4. OneRowPerUpload' /\ RowIsOfItsRecording' /\ ListedAudioPlays'
  BY DEF OneRowPerUpload, RowsFit, Shape, RowIsOfItsRecording, IsCompleted, ListedAudioPlays
<1>5. NothingIsKept'
  BY DEF NothingIsKept, Working, Stage, Shape
<1> QED  BY <1>1, <1>2, <1>3, <1>4, <1>5

LEMMA TranscribeIInv == ASSUME IInv, Transcribe PROVE IInv'
<1> USE CallUploadAssumption DEF IInv, Fits, Stored, disk, table, pool, Go, Transcribe
<1>1. Shape' /\ Working'
  BY DEF Shape, Step, Working
<1>2. RowsFit' /\ FilesFit' /\ DeletionsFit'
  BY DEF RowsFit, Shape, FilesFit, DeletionsFit, IsCompleted
<1>3. Fresh' /\ Stage' /\ FilesOfWork'
  BY DEF Fresh, Early, IsRecorded, Deleting, Working, Shape, Stage, IsFile, FilesFit,
         FilesOfWork
<1>4. OneRowPerUpload' /\ RowIsOfItsRecording' /\ ListedAudioPlays'
  BY DEF OneRowPerUpload, RowsFit, Shape, RowIsOfItsRecording, IsCompleted, ListedAudioPlays
<1>5. NothingIsKept'
  BY DEF NothingIsKept, Working
<1> QED  BY <1>1, <1>2, <1>3, <1>4, <1>5

LEMMA TranscribeFailsIInv == ASSUME IInv, TranscribeFails PROVE IInv'
<1> USE CallUploadAssumption DEF IInv, Fits, Stored, disk, table, pool, Go, TranscribeFails, Fail
<1>1. Shape' /\ Working'
  BY DEF Shape, Step, Working
<1>2. RowsFit' /\ FilesFit' /\ DeletionsFit'
  BY DEF RowsFit, Shape, FilesFit, DeletionsFit, IsCompleted
<1>3. Fresh' /\ Stage' /\ FilesOfWork'
  BY DEF Fresh, Early, IsRecorded, Deleting, Working, Shape, Stage, IsFile, FilesOfWork
<1>4. OneRowPerUpload' /\ RowIsOfItsRecording' /\ ListedAudioPlays'
  BY DEF OneRowPerUpload, RowsFit, Shape, RowIsOfItsRecording, IsCompleted, ListedAudioPlays
<1>5. NothingIsKept'
  BY DEF NothingIsKept, Working
<1> QED  BY <1>1, <1>2, <1>3, <1>4, <1>5

LEMMA InsertCompletedIInv == ASSUME IInv, InsertCompleted PROVE IInv'
<1> USE CallUploadAssumption DEF IInv, Fits, Stored, disk, table, pool, Go
<1>1. /\ at = "insert" /\ at' = "finally"
      /\ UNCHANGED <<saving, key, sent, client, files, raised, reply>> /\ DOMAIN rows = Ids
      /\ work' = work \/ work' = [work EXCEPT !.text = None]
  BY DEF InsertCompleted, Shape
<1>2. \/ rows' = rows
      \/ /\ DOMAIN rows' = Ids /\ ~IsRecorded(work.up)
         /\ \A i \in Ids : rows'[i] = IF i = lastId + 1 THEN Row("completed") ELSE rows[i]
  BY <1>1, InsertAdds DEF InsertCompleted
<1>3. Shape' /\ Working'
  BY <1>1, <1>2 DEF Shape, Step, Working
<1>4. RowsFit' /\ FilesFit' /\ DeletionsFit'
  <2>1. work.path \in FilesOf(work.up) /\ work.up \in Upload
    BY <1>1, PathsFit
  <2>2. RowsFit'
    BY <1>1, <1>2, <2>1 DEF RowsFit, Shape, Working, Row
  <2>3. FilesFit' /\ DeletionsFit'
    BY <1>1, <1>2 DEF FilesFit, DeletionsFit, Row, IsCompleted, Fresh, Early, Deleting
  <2> QED  BY <2>2, <2>3
<1>5. Fresh' /\ Stage' /\ FilesOfWork'
  BY <1>1, <1>2 DEF Fresh, Early, IsRecorded, Deleting, Working, Shape, Stage, IsFile,
         FilesOfWork
<1>6. OneRowPerUpload' /\ RowIsOfItsRecording' /\ ListedAudioPlays'
  BY <1>1, <1>2 DEF OneRowPerUpload, RowsFit, Shape, Row, IsRecorded, RowIsOfItsRecording,
         IsCompleted, Stage, ListedAudioPlays, IsFile
<1>7. NothingIsKept'
  BY <1>1, <1>2 DEF NothingIsKept, Working, Shape
<1> QED  BY <1>3, <1>4, <1>5, <1>6, <1>7

LEMMA InsertFailsIInv == ASSUME IInv, InsertFails PROVE IInv'
<1> USE CallUploadAssumption DEF IInv, Fits, Stored, disk, table, pool, Go
<1>1. /\ at = "insert" /\ at' = "error"
      /\ UNCHANGED <<saving, key, sent, client, files, raised, reply>> /\ DOMAIN rows = Ids
      /\ work' = work \/ work' = [work EXCEPT !.text = None]
  BY DEF InsertFails, Shape
<1>2. \/ rows' = rows
      \/ /\ DOMAIN rows' = Ids /\ ~IsRecorded(work.up)
         /\ \A i \in Ids : rows'[i] = IF i = lastId + 1 THEN Row("completed") ELSE rows[i]
  BY <1>1, InsertAdds DEF InsertFails
<1>3. Shape' /\ Working'
  BY <1>1, <1>2 DEF Shape, Step, Working
<1>4. RowsFit' /\ FilesFit' /\ DeletionsFit'
  <2>1. work.path \in FilesOf(work.up) /\ work.up \in Upload
    BY <1>1, PathsFit
  <2>2. RowsFit'
    BY <1>1, <1>2, <2>1 DEF RowsFit, Shape, Working, Row
  <2>3. FilesFit' /\ DeletionsFit'
    BY <1>1, <1>2 DEF FilesFit, DeletionsFit, Row, IsCompleted, Fresh, Early, Deleting
  <2> QED  BY <2>2, <2>3
<1>5. Fresh' /\ Stage' /\ FilesOfWork'
  BY <1>1, <1>2 DEF Fresh, Early, IsRecorded, Deleting, Working, Shape, Stage, IsFile,
         FilesOfWork
<1>6. OneRowPerUpload' /\ RowIsOfItsRecording' /\ ListedAudioPlays'
  BY <1>1, <1>2 DEF OneRowPerUpload, RowsFit, Shape, Row, IsRecorded, RowIsOfItsRecording,
         IsCompleted, Stage, ListedAudioPlays, IsFile
<1>7. NothingIsKept'
  BY <1>1, <1>2 DEF NothingIsKept, Working, Shape
<1> QED  BY <1>3, <1>4, <1>5, <1>6, <1>7

LEMMA InsertErrorIInv == ASSUME IInv, InsertError PROVE IInv'
<1> USE CallUploadAssumption DEF IInv, Fits, Stored, disk, table, pool, Go
<1>1. /\ at = "error" /\ at' = "finally"
      /\ UNCHANGED <<saving, key, sent, client, files, raised, reply>> /\ DOMAIN rows = Ids
      /\ work' = work \/ work' = [work EXCEPT !.text = None]
  BY DEF InsertError, Shape
<1>2. \/ rows' = rows
      \/ /\ DOMAIN rows' = Ids /\ ~IsRecorded(work.up)
         /\ \A i \in Ids : rows'[i] = IF i = lastId + 1 THEN Row("failed") ELSE rows[i]
  BY <1>1, InsertAdds DEF InsertError
<1>3. Shape' /\ Working'
  BY <1>1, <1>2 DEF Shape, Step, Working
<1>4. RowsFit' /\ FilesFit' /\ DeletionsFit'
  <2>1. work.path \in FilesOf(work.up) /\ work.up \in Upload
    BY <1>1, PathsFit
  <2>2. RowsFit'
    BY <1>1, <1>2, <2>1 DEF RowsFit, Shape, Working, Row
  <2>3. FilesFit' /\ DeletionsFit'
    BY <1>1, <1>2 DEF FilesFit, DeletionsFit, Row, IsCompleted, Fresh, Early, Deleting
  <2> QED  BY <2>2, <2>3
<1>5. Fresh' /\ Stage' /\ FilesOfWork'
  BY <1>1, <1>2 DEF Fresh, Early, IsRecorded, Deleting, Working, Shape, Stage, IsFile,
         FilesOfWork
<1>6. OneRowPerUpload' /\ RowIsOfItsRecording' /\ ListedAudioPlays'
  BY <1>1, <1>2 DEF OneRowPerUpload, RowsFit, Shape, Row, IsRecorded, RowIsOfItsRecording,
         IsCompleted, Stage, ListedAudioPlays, IsFile
<1>7. NothingIsKept'
  BY <1>1, <1>2 DEF NothingIsKept, Working, Shape
<1> QED  BY <1>3, <1>4, <1>5, <1>6, <1>7

LEMMA CleanUpIInv == ASSUME IInv, CleanUp PROVE IInv'
<1> USE CallUploadAssumption DEF IInv, Fits, disk, table, pool, Go, CleanUp, Stored
<1>1. Shape' /\ Working'
  BY DEF Shape, Step, Working
<1>2. RowsFit' /\ FilesFit' /\ DeletionsFit'
  BY DEF RowsFit, Shape, FilesFit, DeletionsFit, IsCompleted
<1>3. Fresh' /\ Stage' /\ FilesOfWork'
  BY DEF Fresh, Early, IsRecorded, Deleting, Working, Shape, Stage, IsFile, FilesOfWork
<1>4. OneRowPerUpload' /\ RowIsOfItsRecording' /\ ListedAudioPlays'
  BY DEF OneRowPerUpload, RowsFit, Shape, RowIsOfItsRecording, IsCompleted, ListedAudioPlays, Stage
<1>5. NothingIsKept'
  BY DEF NothingIsKept, Working, FilesOfWork, FilesOf, Shape, Stage, IsFile
<1> QED  BY <1>1, <1>2, <1>3, <1>4, <1>5

LEMMA UnlinkStoredIInv == ASSUME IInv, UnlinkStored PROVE IInv'
<1> USE CallUploadAssumption DEF IInv, Fits, disk, table, pool, Go, UnlinkStored, Stored, Unlink,
        UnlinkRaises, Answer, NoWork
<1>1. Shape' /\ Working'
  BY DEF Shape, Step, Working
<1>2. RowsFit' /\ FilesFit' /\ DeletionsFit'
  BY DEF RowsFit, Shape, FilesFit, DeletionsFit, IsCompleted
<1>3. Fresh' /\ Stage' /\ FilesOfWork'
  BY DEF Fresh, Early, IsRecorded, Deleting, Working, Shape, Stage, IsFile, FilesOfWork
<1>4. OneRowPerUpload' /\ RowIsOfItsRecording' /\ ListedAudioPlays'
  BY DEF OneRowPerUpload, RowsFit, Shape, RowIsOfItsRecording, IsCompleted, ListedAudioPlays, Stage
<1>5. NothingIsKept'
  BY DEF NothingIsKept, Working, FilesOfWork, FilesOf, Shape, Stage, IsFile
<1> QED  BY <1>1, <1>2, <1>3, <1>4, <1>5

LEMMA CleanUpDecryptedIInv == ASSUME IInv, CleanUpDecrypted PROVE IInv'
<1> USE CallUploadAssumption DEF IInv, Fits, disk, table, pool, Go, CleanUpDecrypted, Stored,
        Return, Answer, NoWork
<1>1. Shape' /\ Working'
  BY DEF Shape, Step, Working
<1>2. RowsFit' /\ FilesFit' /\ DeletionsFit'
  BY DEF RowsFit, Shape, FilesFit, DeletionsFit, IsCompleted
<1>3. Fresh' /\ Stage' /\ FilesOfWork'
  BY DEF Fresh, Early, IsRecorded, Deleting, Working, Shape, Stage, IsFile, FilesOfWork
<1>4. OneRowPerUpload' /\ RowIsOfItsRecording' /\ ListedAudioPlays'
  BY DEF OneRowPerUpload, RowsFit, Shape, RowIsOfItsRecording, IsCompleted, ListedAudioPlays, Stage
<1>5. NothingIsKept'
  BY DEF NothingIsKept, Working, FilesOfWork, FilesOf, Shape, Stage, IsFile
<1> QED  BY <1>1, <1>2, <1>3, <1>4, <1>5

LEMMA UnlinkDecryptedIInv == ASSUME IInv, UnlinkDecrypted PROVE IInv'
<1> USE CallUploadAssumption DEF IInv, Fits, disk, table, pool, Go, UnlinkDecrypted, Stored,
        Unlink, UnlinkRaises, Return, Answer, NoWork
<1>1. Shape' /\ Working'
  BY DEF Shape, Step, Working
<1>2. RowsFit' /\ FilesFit' /\ DeletionsFit'
  BY DEF RowsFit, Shape, FilesFit, DeletionsFit, IsCompleted
<1>3. Fresh' /\ Stage' /\ FilesOfWork'
  BY DEF Fresh, Early, IsRecorded, Deleting, Working, Shape, Stage, IsFile, FilesOfWork
<1>4. OneRowPerUpload' /\ RowIsOfItsRecording' /\ ListedAudioPlays'
  BY DEF OneRowPerUpload, RowsFit, Shape, RowIsOfItsRecording, IsCompleted, ListedAudioPlays, Stage
<1>5. NothingIsKept'
  BY DEF NothingIsKept, Working, FilesOfWork, FilesOf, Shape, Stage, IsFile
<1> QED  BY <1>1, <1>2, <1>3, <1>4, <1>5

LEMMA CrashIInv == ASSUME IInv, Crash PROVE IInv'
<1> USE CallUploadAssumption DEF IInv, Fits, Stored, disk, table, pool, Go, Crash, NoWork, NoRequest
<1>1. Shape' /\ Working'
  BY DEF Shape, Step, Working
<1>2. RowsFit' /\ FilesFit' /\ DeletionsFit'
  BY DEF RowsFit, Shape, FilesFit, DeletionsFit, IsCompleted
<1>3. Fresh' /\ Stage' /\ FilesOfWork'
  BY DEF Fresh, Early, IsRecorded, Deleting, Working, Shape, Stage, IsFile, FilesOfWork
<1>4. OneRowPerUpload' /\ RowIsOfItsRecording' /\ ListedAudioPlays'
  BY DEF OneRowPerUpload, RowsFit, Shape, RowIsOfItsRecording, IsCompleted, ListedAudioPlays
<1>5. NothingIsKept'
  BY DEF NothingIsKept, Working
<1> QED  BY <1>1, <1>2, <1>3, <1>4, <1>5

LEMMA DeleteRowIInv == ASSUME IInv, NEW c \in Client, NEW j \in Ids, DeleteRow(c, j) PROVE IInv'
<1> USE CallUploadAssumption DEF IInv, Fits, Stored, disk, table, pool, Go, DeleteRow, Ask
<1>1. Shape' /\ Working'
  BY DEF Shape, Step, Working
<1>2. RowsFit' /\ FilesFit' /\ DeletionsFit'
  BY DEF RowsFit, Shape, FilesFit, DeletionsFit, IsCompleted, OneRowPerUpload
<1>3. Fresh' /\ Stage' /\ FilesOfWork'
  BY DEF Fresh, Early, IsRecorded, Deleting, Working, Shape, Stage, IsFile, FilesOfWork
<1>4. OneRowPerUpload' /\ RowIsOfItsRecording' /\ ListedAudioPlays'
  BY DEF OneRowPerUpload, RowsFit, Shape, RowIsOfItsRecording, IsCompleted, ListedAudioPlays
<1>5. NothingIsKept'
  BY DEF NothingIsKept, Working
<1> QED  BY <1>1, <1>2, <1>3, <1>4, <1>5

\* A deletion that goes on with the files of its upload.
LEMMA DeletionGoesOn ==
  ASSUME DeletionsFit, NEW c \in Client, client[c].up # None, UNCHANGED <<rows, sent>>,
         \A d \in Client : d # c => client'[d] = client[d],
         DOMAIN client'[c] = {"at", "up", "left"}, client'[c].up = client[c].up,
         client'[c].left \subseteq FilesOf(client[c].up)
  PROVE  DeletionsFit'
<1> SUFFICES ASSUME NEW d \in Client
             PROVE  /\ DOMAIN client'[d] = {"at", "up", "left"}
                    /\ client'[d].up = None => client'[d] = NoRequest
                    /\ client'[d].up # None =>
                         /\ client'[d].up \in Upload /\ sent'[client'[d].up] # None
                         /\ client'[d].left \subseteq FilesOf(client'[d].up)
                         /\ \A i \in Ids : rows'[i] # None /\ rows'[i].status = "completed"
                              => rows'[i].up # client'[d].up
  BY DEF DeletionsFit, IsCompleted
<1>1. CASE d = c
  BY <1>1 DEF DeletionsFit, IsCompleted
<1>2. CASE d # c
  BY <1>2 DEF DeletionsFit, IsCompleted
<1> QED  BY <1>1, <1>2

LEMMA ListUploadsIInv == ASSUME IInv, NEW c \in Client, ListUploads(c) PROVE IInv'
<1> USE CallUploadAssumption DEF IInv, Fits, Stored, disk, table, pool, Go, ListUploads, NoRequest
<1>1. Shape' /\ Working'
  BY DEF Shape, Step, Working, Stored
<1>2. RowsFit' /\ FilesFit' /\ DeletionsFit'
  <2>1. RowsFit' /\ FilesFit'
    BY DEF RowsFit, FilesFit
  <2>2. client[c].up # None /\ DOMAIN client = Client /\ DOMAIN client[c] = {"at", "up", "left"}
    BY DEF DeletionsFit, Shape
  <2>3. /\ \A d \in Client : d # c => client'[d] = client[d]
        /\ DOMAIN client'[c] = {"at", "up", "left"} /\ client'[c].up = client[c].up
        /\ client'[c].left \subseteq FilesOf(client[c].up)
    BY <2>2
  <2>4. DeletionsFit'
    BY <2>2, <2>3, DeletionGoesOn
  <2> QED  BY <2>1, <2>4
<1>3. Fresh' /\ Stage' /\ FilesOfWork'
  BY DEF Fresh, Early, IsRecorded, Deleting, Working, Shape, Stage, IsFile, FilesOfWork, Stored,
         DeletionsFit
<1>4. OneRowPerUpload' /\ RowIsOfItsRecording' /\ ListedAudioPlays'
  BY DEF OneRowPerUpload, RowIsOfItsRecording, IsCompleted, ListedAudioPlays
<1>5. NothingIsKept'
  BY DEF NothingIsKept
<1> QED  BY <1>1, <1>2, <1>3, <1>4, <1>5

LEMMA UnlinkUploadIInv == ASSUME IInv, NEW c \in Client, UnlinkUpload(c) PROVE IInv'
<1>1. PICK path \in client[c].left :
        /\ Unlink(path) \/ UnlinkRaises(path)
        /\ client' = [client EXCEPT ![c].left = @ \ {path}]
        /\ UNCHANGED <<saving, key, sent, reply, at, work, rows>>
  BY DEF UnlinkUpload, table
<1> USE CallUploadAssumption DEF IInv, Fits, NoRequest
<1>2. /\ client[c].up # None /\ client[c].up \in Upload /\ path \in FilesOf(client[c].up)
      /\ DOMAIN files' \subseteq DOMAIN files /\ \A f \in DOMAIN files' : files'[f] = files[f]
      /\ \A f \in DOMAIN files : f = path \/ f \in DOMAIN files'
      /\ raised \subseteq raised'
  BY <1>1 DEF DeletionsFit, Unlink, UnlinkRaises
<1>3. Shape' /\ Working'
  BY <1>1, <1>2 DEF Shape, Step, Working, Stored
<1>4. RowsFit' /\ FilesFit' /\ DeletionsFit'
  <2>1. RowsFit' /\ FilesFit'
    BY <1>1, <1>2 DEF RowsFit, FilesFit
  <2>2. /\ \A d \in Client : d # c => client'[d] = client[d]
        /\ DOMAIN client'[c] = {"at", "up", "left"} /\ client'[c].up = client[c].up
        /\ client'[c].left \subseteq client[c].left
    BY <1>1 DEF DeletionsFit, Shape
  <2>3. DeletionsFit'
    <3>1. client[c].left \subseteq FilesOf(client[c].up)
      BY <1>2 DEF DeletionsFit
    <3> QED  BY <1>1, <1>2, <2>2, <3>1, DeletionGoesOn
  <2> QED  BY <2>1, <2>3
<1>5. Fresh' /\ Stage' /\ FilesOfWork'
  BY <1>1, <1>2 DEF Fresh, Early, IsRecorded, Deleting, Working, Shape, Stage, IsFile, FilesOf,
         FilesOfWork, Stored, DeletionsFit
<1>6. OneRowPerUpload' /\ RowIsOfItsRecording' /\ ListedAudioPlays'
  BY <1>1, <1>2 DEF OneRowPerUpload, RowsFit, Shape, RowIsOfItsRecording, IsCompleted,
         ListedAudioPlays, DeletionsFit, FilesOf
<1>7. NothingIsKept'
  BY <1>1, <1>2 DEF NothingIsKept
<1> QED  BY <1>3, <1>4, <1>5, <1>6, <1>7

LEMMA DeleteEndsIInv == ASSUME IInv, NEW c \in Client, DeleteEnds(c) PROVE IInv'
<1> USE CallUploadAssumption DEF IInv, Fits, Stored, disk, table, pool, Go, DeleteEnds, NoRequest
<1>1. Shape' /\ Working'
  BY DEF Shape, Step, Working, Stored
<1>2. RowsFit' /\ FilesFit' /\ DeletionsFit'
  BY DEF RowsFit, Shape, FilesFit, DeletionsFit, IsCompleted
<1>3. Fresh' /\ Stage' /\ FilesOfWork'
  BY DEF Fresh, Early, IsRecorded, Deleting, Working, Shape, Stage, IsFile, FilesOfWork, Stored
<1>4. OneRowPerUpload' /\ RowIsOfItsRecording' /\ ListedAudioPlays'
  BY DEF OneRowPerUpload, RowIsOfItsRecording, IsCompleted, ListedAudioPlays
<1>5. NothingIsKept'
  BY DEF NothingIsKept
<1> QED  BY <1>1, <1>2, <1>3, <1>4, <1>5

LEMMA EditTranscriptIInv ==
    ASSUME IInv, NEW c \in Client, NEW j \in Ids, EditTranscript(c, j) PROVE IInv'
<1> USE CallUploadAssumption DEF IInv, Fits, Stored, disk, table, pool, Go, EditTranscript, Ask
<1>1. Shape' /\ Working'
  BY DEF Shape, Step, Working
<1>2. RowsFit' /\ FilesFit' /\ DeletionsFit'
  BY DEF RowsFit, Shape, FilesFit, DeletionsFit, IsCompleted
<1>3. Fresh' /\ Stage' /\ FilesOfWork'
  BY DEF Fresh, Early, IsRecorded, Deleting, Working, Shape, Stage, IsFile, FilesOfWork
<1>4. OneRowPerUpload' /\ RowIsOfItsRecording' /\ ListedAudioPlays'
  BY DEF OneRowPerUpload, RowsFit, Shape, RowIsOfItsRecording, IsCompleted, ListedAudioPlays
<1>5. NothingIsKept'
  BY DEF NothingIsKept, Working
<1> QED  BY <1>1, <1>2, <1>3, <1>4, <1>5

LEMMA IInvInvariant == Spec => []IInv
<1>1. Init => IInv
  BY InitIInv
<1>2. ASSUME IInv, [Next]_vars PROVE IInv'
  <2>1. CASE \E u \in Upload : Receive(u)
    BY <1>2, <2>1, ReceiveIInv
  <2>2. CASE ProcessStep
    BY <1>2, <2>2, WriteUploadIInv, DecryptIInv, DecryptFailsIInv, TranscribeIInv,
       TranscribeFailsIInv, InsertCompletedIInv, InsertFailsIInv, InsertErrorIInv, CleanUpIInv,
       UnlinkStoredIInv, CleanUpDecryptedIInv, UnlinkDecryptedIInv DEF ProcessStep
  <2>3. CASE Crash
    BY <1>2, <2>3, CrashIInv
  <2>4. CASE \E c \in Client : PoolStep(c)
    BY <1>2, <2>4, DeleteRowIInv, ListUploadsIInv, UnlinkUploadIInv, DeleteEndsIInv,
       EditTranscriptIInv DEF PoolStep, DeleteStep
  <2>5. CASE UNCHANGED vars
    BY <1>2, <2>5 DEF vars, IInv, Fits, Shape, Working, RowsFit, FilesFit, DeletionsFit, Fresh,
       Stage, FilesOfWork, OneRowPerUpload, RowIsOfItsRecording, ListedAudioPlays, NothingIsKept,
       IsCompleted, IsRecorded, Deleting, IsFile, Stored, disk, table
  <2> QED  BY <1>2, <2>1, <2>2, <2>3, <2>4, <2>5 DEF Next
<1> QED  BY <1>1, <1>2, PTL DEF Spec

-----------------------------------------------------------------------------
(* Types, the ids given out, and what an answer stands for *)

\* The uploads that process_call is done with.
Spent == {u \in Upload : sent[u] # None} \ {work.up}

\* How often the upload that is under way may have been inserted by now.
Ending == at \in {"finally", "unlink", "decrypted", "unlink_decrypted"}

Inserts == IF at = "error" THEN 1 ELSE IF Ending THEN 2 ELSE 0

Counted == lastId <= 2 * Cardinality(Spent) + Inserts

\* Only what was sent is a container.
MagicIsSent == \A f \in DOMAIN files : files[f].magic => files[f] = sent[f[1]].file

MetaFits ==
    /\ at # "idle" => work.meta = Metadata(sent[work.up])
    /\ \A i \in Ids : rows[i] # None => rows[i].meta = Metadata(sent[rows[i].up])

\* What is in the table at each step of process_call, by what has failed so far.
Stages ==
    /\ at = "insert" => work.text # None
    /\ Ending /\ work.text # None => HasRow(work.up, "completed")
    /\ at = "unlink" => IsFile(Stored)
    /\ at = "unlink_decrypted" => IsFile(work.path)
    /\ budget.faults = 0 => /\ at = "error" => ~IsRecorded(work.up)
                            /\ Ending /\ work.text = None => HasRow(work.up, "failed")
    /\ Readable(sent[work.up].file) =>
         /\ at = "error" => budget.faults > 0
         /\ Ending /\ work.text = None /\ budget.faults <= 1 => IsRecorded(work.up)

\* AnswerIsRecorded, and a readable recording is recorded also while nothing has failed.
Answers ==
    \A u \in Upload :
        /\ reply[u] = 200 => HasRow(u, "completed")
        /\ reply[u] = 500 /\ budget.faults = 0 /\ key # NoKey => HasRow(u, "failed")
        /\ reply[u] = 500 /\ budget.faults <= 1 /\ Readable(sent[u].file) => IsRecorded(u)

Promise ==
    budget.requests = 0 =>
        /\ \A c \in Client : client[c] = NoRequest
        /\ at # "idle" => Stages
        /\ Answers

Types == TypeOK /\ Counted
Holds == Types /\ MagicIsSent /\ MetaFits /\ Promise

-----------------------------------------------------------------------------

LEMMA OneFewer ==
  ASSUME NEW S, IsFiniteSet(S), NEW x \in S
  PROVE  IsFiniteSet(S \ {x}) /\ Cardinality(S \ {x}) = Cardinality(S) - 1
BY FS_RemoveElement

LEMMA SpentBounds ==
  ASSUME CallUploadAssumption
  PROVE  /\ Cardinality(Upload) \in Nat
         /\ IsFiniteSet(Spent) /\ Cardinality(Spent) \in Nat
         /\ Cardinality(Spent) <= Cardinality(Upload)
         /\ work.up \in Upload => Cardinality(Spent) + 1 <= Cardinality(Upload)
<1>1. IsFiniteSet(Upload) /\ Cardinality(Upload) \in Nat
  BY FS_CardinalityType DEF CallUploadAssumption
<1>2. IsFiniteSet(Spent) /\ Cardinality(Spent) \in Nat /\ Cardinality(Spent) <= Cardinality(Upload)
  <2>1. Spent \subseteq Upload
    BY DEF Spent
  <2> QED  BY <1>1, <2>1, FS_Subset, FS_CardinalityType
<1>3. ASSUME work.up \in Upload PROVE Cardinality(Spent) + 1 <= Cardinality(Upload)
  <2>1. IsFiniteSet(Upload \ {work.up}) /\ Cardinality(Upload \ {work.up}) = Cardinality(Upload) - 1
    BY <1>1, <1>3, OneFewer
  <2>2. Spent \subseteq Upload \ {work.up}
    BY DEF Spent
  <2>3. Cardinality(Spent) <= Cardinality(Upload \ {work.up})
    BY <2>1, <2>2, FS_Subset
  <2> QED  BY <1>1, <1>2, <2>1, <2>3
<1> QED  BY <1>1, <1>2, <1>3

\* An insert finds a free id, and adds its row to those that are there.
LEMMA InsertFinds ==
  ASSUME IInv, Types, at \in {"insert", "error"}, NEW status, Insert(status)
  PROVE  /\ lastId + 1 \in Ids /\ rows[lastId + 1] = None
         /\ lastId' = lastId + 1
         /\ DOMAIN rows' = Ids
         /\ \A i \in Ids : rows'[i] = IF i = lastId + 1 THEN Row(status) ELSE rows[i]
<1>1. lastId + 1 \in Ids
  <2>1. work.up \in Upload
    BY DEF IInv, Fits, Working
  <2>2. Cardinality(Spent) + 1 <= Cardinality(Upload) /\ Cardinality(Spent) \in Nat
        /\ Cardinality(Upload) \in Nat
    BY <2>1, SpentBounds, CallUploadAssumption
  <2>3. lastId <= 2 * Cardinality(Spent) + 1 /\ lastId \in Nat
    BY <2>2 DEF Types, Counted, Inserts, Ending, TypeOK, Ids
  <2> QED  BY <2>2, <2>3 DEF Ids
<1>2. rows[lastId + 1] = None
  BY <1>1 DEF Types, TypeOK, Ids
<1> QED  BY <1>1, <1>2, InsertAdds DEF Insert, IInv, Fits, Shape

\* When process_call ends, one upload more is done with; otherwise nothing changes.
LEMMA SpentGrows ==
  ASSUME IInv, at # "idle", sent' = sent, work'.up = None
  PROVE  Cardinality(Spent') = Cardinality(Spent) + 1
<1>1. work.up \in Upload /\ work.up \notin Spent /\ Spent' = Spent \cup {work.up}
  BY CallUploadAssumption DEF IInv, Fits, Working, Spent
<1>2. IsFiniteSet(Spent)
  BY SpentBounds, CallUploadAssumption
<1>3. Cardinality(Spent \cup {work.up}) = Cardinality(Spent) + 1
  BY <1>1, <1>2, FS_AddElement
<1> QED  BY <1>1, <1>3

LEMMA ReceiveTypes == ASSUME IInv, Types, NEW u \in Upload, Receive(u) PROVE Types'
<1> USE CallUploadAssumption
<1>1. PICK input \in Inputs[u] : sent' = [sent EXCEPT ![u] = input]
  BY InputIsRead
<1>2. input # None /\ input.suffix \in Suffix
  OBVIOUS
<1>3. /\ at = "idle" /\ sent[u] = None /\ DOMAIN sent = Upload /\ DOMAIN sent' = Upload
      /\ UNCHANGED <<saving, key, files, raised, rows, lastId, client, budget>>
      /\ sent'[u] = input /\ \A v \in Upload : v # u => sent'[v] = sent[v]
      /\ work.up = None
  BY <1>1 DEF Receive, IInv, Fits, Shape, disk, table, pool, Types, TypeOK
<1>4. \/ /\ UNCHANGED <<at, work>>
         /\ reply' = [reply EXCEPT ![u] = 400] \/ reply' = [reply EXCEPT ![u] = 413]
      \/ /\ at' = "write" /\ reply' = reply
         /\ work'.up = u /\ work'.text = None
  BY <1>1, <1>3 DEF Receive
<1>5. TypeOK'
  BY <1>2, <1>3, <1>4 DEF Types, TypeOK, Maybe, FilesOf
<1>6. Cardinality(Spent) <= Cardinality(Spent')
  <2>1. Spent \subseteq Spent'
    BY <1>2, <1>3, <1>4 DEF Spent
  <2>2. IsFiniteSet(Spent')
    <3>1. Spent' \subseteq Upload
      BY DEF Spent
    <3> QED  BY <3>1, FS_Subset DEF CallUploadAssumption
  <2> QED  BY <2>1, <2>2, FS_Subset
<1>7. Cardinality(Spent) \in Nat /\ Cardinality(Spent') \in Nat
  <2>1. Spent' \subseteq Upload
    BY DEF Spent
  <2> QED  BY <2>1, SpentBounds, FS_Subset, FS_CardinalityType DEF CallUploadAssumption
<1>8. Counted'
  BY <1>3, <1>4, <1>6, <1>7 DEF Types, TypeOK, Counted, Inserts, Ending, Ids
<1> QED  BY <1>5, <1>8 DEF Types

LEMMA WriteUploadTypes == ASSUME IInv, Types, WriteUpload PROVE Types'
<1> USE CallUploadAssumption DEF Types, disk, table, pool, Go, WriteUpload, Write
<1>1. sent[work.up].file \in Content /\ work.path \in Upload \X Suffix
  BY PathsFit DEF IInv, Fits, Working, Shape, FilesOf
<1>2. TypeOK'
  BY <1>1 DEF TypeOK, FilesOf, Maybe
<1>3. Counted'
  BY DEF Counted, Spent, Inserts, Ending
<1> QED  BY <1>2, <1>3

LEMMA DecryptTypes == ASSUME IInv, Types, Decrypt PROVE Types'
<1> USE CallUploadAssumption DEF Types, disk, table, pool, Go, Decrypt, Write
<1>1. Plaintext(files[work.path], key) \in Bytes
  BY DEF CanDecrypt, IsTruncated, TypeOK, Content, IInv, Fits, Stage, IsFile
<1>2. PlainFile(Plaintext(files[work.path], key)) \in Content
  BY <1>1 DEF PlainFile, Content, Ciphers
<1>3. work.up \in Upload /\ DOMAIN work = {"up", "path", "meta", "text"}
  BY DEF IInv, Fits, Working, Shape
<1>4. TypeOK'
  BY <1>2, <1>3 DEF TypeOK, FilesOf, Maybe, Suffix
<1>5. Counted'
  BY <1>3 DEF Counted, Spent, Inserts, Ending
<1> QED  BY <1>4, <1>5

LEMMA DecryptFailsTypes == ASSUME IInv, Types, DecryptFails PROVE Types'
<1> USE CallUploadAssumption DEF Types, disk, table, pool, Go, DecryptFails, Answer, NoWork
<1>1. TypeOK'
  BY DEF TypeOK, FilesOf, Maybe
<1>2. Counted'
  BY SpentGrows, SpentBounds DEF Counted, Inserts, Ending, TypeOK, Ids
<1> QED  BY <1>1, <1>2

LEMMA TranscribeTypes == ASSUME IInv, Types, Transcribe PROVE Types'
<1> USE CallUploadAssumption DEF Types, disk, table, pool, Go, Transcribe
<1>1. work'.up = work.up
  BY DEF IInv, Fits, Shape
<1>2. TypeOK'
  <2>1. work'.text \in Bytes
    BY DEF TypeOK, Content, IInv, Fits, Shape, Stage, IsFile
  <2> QED  BY <1>1, <2>1 DEF TypeOK, FilesOf, Maybe
<1>3. Counted'
  BY <1>1 DEF Counted, Spent, Inserts, Ending
<1> QED  BY <1>2, <1>3

LEMMA TranscribeFailsTypes == ASSUME IInv, Types, TranscribeFails PROVE Types'
<1> USE CallUploadAssumption DEF Types, disk, table, pool, Go, TranscribeFails
<1>1. TypeOK'
  BY DEF TypeOK, FilesOf, Maybe, Fail
<1>2. Counted'
  BY SpentBounds DEF Counted, Spent, Inserts, Ending, TypeOK, Ids
<1> QED  BY <1>1, <1>2

\* The three steps that insert: at most once more than before.
LEMMA InsertTypes ==
  ASSUME IInv, Types, InsertCompleted \/ InsertFails \/ InsertError
  PROVE  Types'
<1> USE CallUploadAssumption DEF disk, table, pool, Go
<1>1. /\ at \in {"insert", "error"} /\ at' \in {"error", "finally"} /\ at' # at
      /\ UNCHANGED <<saving, key, sent, client, files, raised, reply>>
      /\ work'.up = work.up
      /\ budget' = budget \/ \E kind : Fail(kind)
  BY DEF InsertCompleted, InsertFails, InsertError, IInv, Fits, Shape
<1>2. \/ UNCHANGED <<rows, lastId>>
      \/ \E status \in Status : Insert(status)
  BY DEF InsertCompleted, InsertFails, InsertError, Status
<1>3. \/ UNCHANGED <<rows, lastId>>
      \/ /\ lastId + 1 \in Ids /\ lastId' = lastId + 1 /\ DOMAIN rows' = Ids
         /\ \E status \in Status :
              \A i \in Ids : rows'[i] = IF i = lastId + 1 THEN Row(status) ELSE rows[i]
  BY <1>1, <1>2, InsertFinds
<1>4. work.up \in Upload /\ work.path \in FilesOf(work.up)
  BY <1>1, PathsFit DEF IInv, Fits
<1>5. TypeOK'
  <2>0. work'.text \in Maybe(Bytes)
    BY DEF InsertCompleted, InsertFails, InsertError, Maybe, Types, TypeOK, IInv, Fits, Shape
  <2>1. /\ saving' \in SaveModes /\ key' \in KeyFiles
        /\ \A u \in Upload : sent'[u] \in Maybe(Inputs[u])
        /\ reply' \in [Upload -> Maybe({200, 400, 413, 500})]
        /\ at' \in {"idle", "write", "decrypt", "transcribe", "insert", "error", "finally",
                    "unlink", "decrypted", "unlink_decrypted"}
        /\ work'.up \in Maybe(Upload) /\ (at' # "idle" <=> work'.up # None)
        /\ DOMAIN files' \subseteq Upload \X Suffix
        /\ \A f \in DOMAIN files' : files'[f] \in Content
        /\ raised' \subseteq Upload \X Suffix
        /\ client' \in [Client -> {NoRequest}
             \cup [at : {"audio", "glob"}, up : Upload, left : SUBSET (Upload \X Suffix)]]
    BY <1>1, <1>4 DEF Types, TypeOK, Maybe
  <2>2. budget' \in [faults : 0 .. MaxFaults, crashes : 0 .. MaxCrashes,
                     requests : 0 .. MaxRequests]
    BY <1>1 DEF Types, TypeOK, Fail
  <2>3. lastId' \in Ids \cup {0}
    BY <1>3 DEF Types, TypeOK
  <2>4. ASSUME NEW i \in Ids, rows'[i] # None
        PROVE  /\ i <= lastId' /\ rows'[i].up \in Upload /\ rows'[i].status \in Status
               /\ rows'[i].audio \in Maybe(FilesOf(rows'[i].up))
    <3>1. CASE rows'[i] = rows[i]
      BY <1>3, <2>4, <3>1 DEF Types, TypeOK, Ids
    <3>2. CASE i = lastId + 1 /\ \E status \in Status : rows'[i] = Row(status)
      BY <1>3, <1>4, <2>4, <3>2 DEF Row, Maybe, Types, TypeOK, Ids
    <3> QED  BY <1>3, <3>1, <3>2
  <2> QED  BY <2>0, <2>1, <2>2, <2>3, <2>4 DEF TypeOK
<1>6. Counted'
  <2>1. Spent' = Spent
    BY <1>1 DEF Spent
  <2>2. lastId' = lastId \/ lastId' = lastId + 1
    BY <1>3
  <2>3. Inserts' = Inserts + 1 \/ Inserts' = Inserts + 2
    BY <1>1 DEF Inserts, Ending
  <2>4. Inserts \in Nat
    BY DEF Inserts, Ending
  <2> QED  BY <2>1, <2>2, <2>3, <2>4, SpentBounds DEF Counted, Types, TypeOK, Ids
<1> QED  BY <1>5, <1>6 DEF Types

LEMMA UnlinkTypes ==
  ASSUME TypeOK, NEW path \in Upload \X Suffix, Unlink(path) \/ UnlinkRaises(path)
  PROVE  /\ DOMAIN files' \subseteq Upload \X Suffix
         /\ \A f \in DOMAIN files' : files'[f] \in Content
         /\ raised' \subseteq Upload \X Suffix
         /\ budget' \in [faults : 0 .. MaxFaults, crashes : 0 .. MaxCrashes,
                          requests : 0 .. MaxRequests]
         /\ budget'.requests = budget.requests /\ budget'.faults >= budget.faults
BY CallUploadAssumption DEF TypeOK, Unlink, UnlinkRaises, Fail

LEMMA CleanUpTypes == ASSUME IInv, Types, CleanUp PROVE Types'
<1> USE CallUploadAssumption DEF Types, disk, table, pool, Go, CleanUp
<1>1. TypeOK'
  BY DEF TypeOK, FilesOf, Maybe
<1>2. Counted'
  BY DEF Counted, Spent, Inserts, Ending
<1> QED  BY <1>1, <1>2

LEMMA UnlinkStoredTypes == ASSUME IInv, Types, UnlinkStored PROVE Types'
<1> USE CallUploadAssumption DEF Types, disk, table, pool, Go, UnlinkStored, Answer, NoWork
<1>1. TypeOK'
  BY PathsFit, UnlinkTypes DEF TypeOK, IInv, Fits, FilesOf, Maybe
<1>2. CASE at' = "decrypted"
  BY <1>1, <1>2 DEF Counted, Spent, Inserts, Ending
<1>3. CASE at' = "idle"
  <2>1. Counted'
    BY <1>3, SpentGrows, SpentBounds DEF Counted, Inserts, Ending, TypeOK, Ids
  <2> QED  BY <1>1, <2>1
<1> QED  BY <1>2, <1>3

LEMMA CleanUpDecryptedTypes == ASSUME IInv, Types, CleanUpDecrypted PROVE Types'
<1> USE CallUploadAssumption DEF Types, disk, table, pool, Go, CleanUpDecrypted, Return, Answer,
        NoWork
<1>1. TypeOK'
  BY DEF TypeOK, FilesOf, Maybe
<1>2. CASE at' = "unlink_decrypted"
  <2>1. UNCHANGED <<sent, work, lastId>> /\ Ending /\ Ending'
    BY <1>2 DEF Ending
  <2> QED  BY <1>1, <2>1 DEF Counted, Spent, Inserts, Ending
<1>3. CASE at' = "idle"
  <2>1. Counted'
    BY <1>3, SpentGrows, SpentBounds DEF Counted, Inserts, Ending, TypeOK, Ids
  <2> QED  BY <1>1, <2>1
<1> QED  BY <1>2, <1>3

LEMMA UnlinkDecryptedTypes == ASSUME IInv, Types, UnlinkDecrypted PROVE Types'
<1> USE CallUploadAssumption DEF Types, disk, table, pool, Go, UnlinkDecrypted, Return, Answer,
        NoWork
<1>1. TypeOK'
  BY PathsFit, UnlinkTypes DEF TypeOK, IInv, Fits, FilesOf, Maybe
<1>2. Counted'
  BY SpentGrows, SpentBounds DEF Counted, Inserts, Ending, TypeOK, Ids
<1> QED  BY <1>1, <1>2

LEMMA CrashTypes == ASSUME IInv, Types, Crash PROVE Types'
<1> USE CallUploadAssumption DEF Types, disk, table, Crash, NoWork
<1>1. TypeOK'
  BY DEF TypeOK, FilesOf, Maybe
<1>2. Counted'
  <2>1. CASE at = "idle"
    <3>1. Spent' = Spent
      BY <2>1 DEF Spent, TypeOK
    <3> QED  BY <2>1, <3>1 DEF Counted, Inserts, Ending
  <2>2. CASE at # "idle"
    BY <2>2, SpentGrows, SpentBounds DEF Counted, Inserts, Ending, TypeOK, Ids
  <2> QED  BY <2>1, <2>2
<1> QED  BY <1>1, <1>2

LEMMA PoolTypes == ASSUME IInv, Types, NEW c \in Client, PoolStep(c) PROVE Types'
<1> USE CallUploadAssumption DEF Types, disk, table, pool, Ask
<1>1. ASSUME NEW j \in Ids, DeleteRow(c, j) PROVE TypeOK'
  BY <1>1 DEF DeleteRow, TypeOK, Maybe, NoRequest, FilesOf
<1>2. ASSUME NEW j \in Ids, EditTranscript(c, j) PROVE TypeOK'
  BY <1>2 DEF EditTranscript, TypeOK, Maybe, IInv, Fits, RowsFit
<1>3. ASSUME ListUploads(c) \/ DeleteEnds(c) PROVE TypeOK'
  BY <1>3 DEF ListUploads, DeleteEnds, TypeOK, Maybe, FilesOf, NoRequest
<1>4. ASSUME UnlinkUpload(c) PROVE TypeOK'
  <2>1. PICK path \in client[c].left :
          /\ Unlink(path) \/ UnlinkRaises(path)
          /\ client' = [client EXCEPT ![c].left = @ \ {path}]
    BY <1>4 DEF UnlinkUpload
  <2>2. client[c] # NoRequest /\ path \in Upload \X Suffix
    BY <2>1 DEF TypeOK, NoRequest
  <2>3. client' \in [Client -> {NoRequest}
          \cup [at : {"audio", "glob"}, up : Upload, left : SUBSET (Upload \X Suffix)]]
    BY <2>1, <2>2 DEF TypeOK
  <2> QED  BY <1>4, <2>1, <2>2, <2>3, UnlinkTypes DEF UnlinkUpload, TypeOK, Maybe
<1>5. UNCHANGED <<sent, work, at, lastId>>
  BY DEF PoolStep, DeleteStep, DeleteRow, EditTranscript, ListUploads, UnlinkUpload, DeleteEnds,
         table
<1>6. Counted'
  BY <1>5 DEF Counted, Spent, Inserts, Ending
<1> QED  BY <1>1, <1>2, <1>3, <1>4, <1>6 DEF PoolStep, DeleteStep

\* What a step of Next may be, for the lemmas that need no lemma per action.
LEMMA ReceiveSends ==
  ASSUME IInv, NEW u \in Upload, Receive(u)
  PROVE  /\ at = "idle" /\ UNCHANGED <<key, files, rows, client, budget>>
         /\ \E input \in Inputs[u] :
              /\ input # None /\ sent' = [sent EXCEPT ![u] = input]
              /\ \/ /\ UNCHANGED <<at, work>>
                    /\ reply' = [reply EXCEPT ![u] = 400] \/ reply' = [reply EXCEPT ![u] = 413]
                 \/ /\ at' = "write" /\ reply' = reply
                    /\ work' = [up |-> u, path |-> <<u, input.suffix>>,
                                meta |-> Metadata(input), text |-> None]
         /\ \A v \in Upload : sent[v] # None => v # u /\ sent'[v] = sent[v]
<1>1. PICK input \in Inputs[u] :
        /\ sent' = [sent EXCEPT ![u] = input]
        /\ \/ /\ UNCHANGED <<at, work>>
              /\ reply' = [reply EXCEPT ![u] = 400] \/ reply' = [reply EXCEPT ![u] = 413]
           \/ /\ at' = "write" /\ reply' = reply
              /\ work' = [up |-> u, path |-> <<u, input.suffix>>,
                          meta |-> Metadata(input), text |-> None]
  BY DEF Receive
<1>2. at = "idle" /\ sent[u] = None /\ UNCHANGED <<key, files, rows, client, budget>>
  BY DEF Receive, disk, table, pool
<1>3. \A v \in Upload : sent[v] # None => v # u /\ sent'[v] = sent[v]
  BY <1>1, <1>2 DEF IInv, Fits, Shape
<1>4. input # None
  BY CallUploadAssumption
<1> QED  BY <1>1, <1>2, <1>3, <1>4

LEMMA MagicStep == ASSUME IInv, MagicIsSent, [Next]_vars PROVE MagicIsSent'
<1> USE DEF MagicIsSent
<1>1. ASSUME NEW u \in Upload, Receive(u) PROVE MagicIsSent'
  BY <1>1, ReceiveSends DEF IInv, Fits, FilesFit
<1>2. CASE WriteUpload
  BY <1>2 DEF WriteUpload, Write, IInv, Fits, Stage, Stored, Go
<1>3. CASE Decrypt
  BY <1>3 DEF Decrypt, Write, PlainFile
<1>4. ASSUME NEW path, Unlink(path) \/ UnlinkRaises(path), sent' = sent PROVE MagicIsSent'
  BY <1>4 DEF Unlink, UnlinkRaises
<1>5. CASE UnlinkStored \/ UnlinkDecrypted \/ \E c \in Client : UnlinkUpload(c)
  BY <1>4, <1>5 DEF UnlinkStored, UnlinkDecrypted, UnlinkUpload
<1>6. ASSUME UNCHANGED <<files, sent>> PROVE MagicIsSent'
  BY <1>6
<1>7. CASE DecryptFails \/ Transcribe \/ TranscribeFails \/ InsertCompleted \/ InsertFails
           \/ InsertError \/ CleanUp \/ CleanUpDecrypted \/ Crash \/ UNCHANGED vars
           \/ \E c \in Client : ListUploads(c) \/ DeleteEnds(c)
                \/ \E i \in Ids : DeleteRow(c, i) \/ EditTranscript(c, i)
  BY <1>6, <1>7 DEF DecryptFails, Transcribe, TranscribeFails, InsertCompleted, InsertFails,
         InsertError, CleanUp, CleanUpDecrypted, Crash, vars, DeleteRow, EditTranscript,
         ListUploads, DeleteEnds, disk
<1> QED  BY <1>1, <1>2, <1>3, <1>5, <1>7 DEF Next, ProcessStep, PoolStep, DeleteStep

LEMMA MetaStep == ASSUME IInv, Types, MetaFits, [Next]_vars PROVE MetaFits'
<1> USE DEF MetaFits
<1>1. ASSUME NEW u \in Upload, Receive(u) PROVE MetaFits'
  <2>1. PICK input \in Inputs[u] :
          /\ sent' = [sent EXCEPT ![u] = input]
          /\ \/ UNCHANGED <<at, work>>
             \/ work' = [up |-> u, path |-> <<u, input.suffix>>,
                         meta |-> Metadata(input), text |-> None]
    BY <1>1, ReceiveSends
  <2>2. at = "idle" /\ rows' = rows /\ sent'[u] = input
        /\ \A v \in Upload : sent[v] # None => sent'[v] = sent[v]
    BY <1>1, <2>1, ReceiveSends DEF IInv, Fits, Shape
  <2>3. \A i \in Ids : rows'[i] # None => rows'[i].meta = Metadata(sent'[rows'[i].up])
    BY <2>2 DEF IInv, Fits, RowsFit
  <2>4. at' # "idle" => work'.meta = Metadata(sent'[work'.up])
    BY <2>1, <2>2
  <2> QED  BY <2>3, <2>4
<1>2. ASSUME NEW status, at \in {"insert", "error"}, Insert(status), UNCHANGED sent,
             work'.meta = work.meta, work'.up = work.up
      PROVE  MetaFits'
  <2>1. \A i \in Ids : rows'[i] = IF i = lastId + 1 THEN Row(status) ELSE rows[i]
    BY <1>2, InsertFinds
  <2>2. Row(status).meta = work.meta /\ Row(status).up = work.up
    BY DEF Row
  <2> QED  BY <1>2, <2>1, <2>2
<1>3. ASSUME UNCHANGED <<rows, sent>>, at' = "idle" \/ at # "idle",
             at' = "idle" \/ (work'.meta = work.meta /\ work'.up = work.up)
      PROVE  MetaFits'
  BY <1>3
<1>4. CASE InsertCompleted \/ InsertFails \/ InsertError
  <2>1. /\ at \in {"insert", "error"} /\ UNCHANGED sent
        /\ work'.meta = work.meta /\ work'.up = work.up
    BY <1>4 DEF InsertCompleted, InsertFails, InsertError, Go, IInv, Fits, Shape
  <2>2. rows' = rows \/ \E status : Insert(status)
    BY <1>4 DEF InsertCompleted, InsertFails, InsertError, table
  <2> QED  BY <1>2, <1>3, <2>1, <2>2
<1>5. CASE WriteUpload \/ Decrypt \/ DecryptFails \/ Transcribe \/ TranscribeFails
           \/ CleanUp \/ UnlinkStored \/ CleanUpDecrypted \/ UnlinkDecrypted \/ Crash
  BY <1>3, <1>5 DEF WriteUpload, Decrypt, DecryptFails, Transcribe, TranscribeFails, CleanUp,
         UnlinkStored, CleanUpDecrypted, UnlinkDecrypted, Crash, Go, table, IInv, Fits, Shape
<1>6. ASSUME NEW c \in Client, PoolStep(c) PROVE MetaFits'
  <2>1. UNCHANGED <<sent, work, at>>
    BY <1>6 DEF PoolStep, DeleteStep, DeleteRow, EditTranscript, ListUploads, UnlinkUpload,
           DeleteEnds
  <2>2. \A i \in Ids : rows'[i] # None =>
            rows[i] # None /\ rows'[i].meta = rows[i].meta /\ rows'[i].up = rows[i].up
    BY <1>6 DEF PoolStep, DeleteStep, DeleteRow, EditTranscript, ListUploads, UnlinkUpload,
           DeleteEnds, table, IInv, Fits, Shape, RowsFit
  <2> QED  BY <2>1, <2>2
<1>7. CASE UNCHANGED vars
  BY <1>7 DEF vars
<1> QED  BY <1>1, <1>4, <1>5, <1>6, <1>7 DEF Next, ProcessStep

\* An insert leaves every other row.
LEMMA RowsStay ==
  ASSUME IInv, Types, MetaFits, at \in {"insert", "error"}, NEW status \in Status, Insert(status)
  PROVE  /\ \A u : u = work.up => HasRow(u, status)'
         /\ \A u, s : HasRow(u, s) => HasRow(u, s)'
         /\ \A u : IsRecorded(u) => IsRecorded(u)'
<1>1. /\ lastId + 1 \in Ids /\ rows[lastId + 1] = None
      /\ \A i \in Ids : rows'[i] = IF i = lastId + 1 THEN Row(status) ELSE rows[i]
  BY InsertFinds
<1>2. Row(status) \in Records
  <2>1. work.up \in Upload /\ sent[work.up] \in Inputs[work.up] /\ work.path \in Upload \X Suffix
    BY PathsFit DEF IInv, Fits, Working, Shape, FilesOf
  <2>2. work.meta \in {Metadata(input) : input \in UNION {Inputs[u] : u \in Upload}}
    BY <2>1 DEF MetaFits
  <2>3. work.text \in Maybe(Bytes)
    BY DEF Types, TypeOK
  <2> QED  BY <2>1, <2>2, <2>3 DEF Row, Records, Maybe
<1>3. Row(status) # None /\ Row(status).up = work.up /\ Row(status).status = status
  BY <1>2, NoneIsNoRecord DEF Row
<1>4. \A u : u = work.up => HasRow(u, status)'
  BY <1>1, <1>3 DEF HasRow
<1>5. \A i \in Ids : rows[i] # None => rows'[i] = rows[i]
  BY <1>1
<1> QED  BY <1>4, <1>5 DEF HasRow, IsRecorded

\* While nobody deletes, rows stay and answers are given at the end of process_call alone.
LEMMA ReceivePromise ==
  ASSUME IInv, Types, Promise, NEW u \in Upload, Receive(u)
  PROVE  Promise'
<1> SUFFICES ASSUME budget'.requests = 0
             PROVE  /\ \A c \in Client : client'[c] = NoRequest
                    /\ at' # "idle" => Stages'
                    /\ Answers'
  BY DEF Promise
<1>1. /\ at = "idle" /\ UNCHANGED <<key, files, rows, client, budget>>
      /\ \A v \in Upload : sent[v] # None => v # u /\ sent'[v] = sent[v]
      /\ \/ UNCHANGED at /\ (reply' = [reply EXCEPT ![u] = 400] \/ reply' = [reply EXCEPT ![u] = 413])
         \/ at' = "write" /\ reply' = reply
  BY ReceiveSends
<1>2. at' # "idle" => Stages'
  BY <1>1 DEF Stages, Ending
<1>3. ASSUME NEW v \in Upload, reply'[v] \in {200, 500}
      PROVE  reply'[v] = reply[v] /\ sent'[v] = sent[v]
  <2>1. reply'[v] = reply[v]
    BY <1>1, <1>3 DEF Types, TypeOK
  <2>2. sent[v] # None
    BY <1>3, <2>1, CallUploadAssumption DEF IInv, Fits, Shape
  <2> QED  BY <1>1, <2>1, <2>2
<1>4. Answers'
  BY <1>1, <1>3 DEF Promise, Answers, HasRow, IsRecorded
<1> QED  BY <1>1, <1>2, <1>4 DEF Promise

\* The steps of process_call before the first insert.
LEMMA EarlyPromise ==
  ASSUME IInv, Types, MagicIsSent, Promise,
         WriteUpload \/ Decrypt \/ Transcribe \/ TranscribeFails
  PROVE  Promise'
<1> SUFFICES ASSUME budget'.requests = 0
             PROVE  /\ \A c \in Client : client'[c] = NoRequest
                    /\ at' # "idle" => Stages'
                    /\ Answers'
  BY DEF Promise
<1>1. /\ UNCHANGED <<key, sent, rows, client, reply>> /\ at \in Early
      /\ at' \in {"decrypt", "transcribe", "insert", "error"}
      /\ work'.up = work.up /\ work.up \in Upload
      /\ budget' = budget \/ \E kind : Fail(kind)
  BY DEF WriteUpload, Decrypt, Transcribe, TranscribeFails, Go, table, pool, Early, IInv, Fits,
         Shape, Working
<1>2. budget.requests = 0 /\ budget'.faults \in {budget.faults, budget.faults + 1}
      /\ budget.faults \in Nat
  BY <1>1 DEF Fail, Types, TypeOK
<1>3. ASSUME at' = "insert" PROVE work'.text # None
  <2>1. Transcribe
    BY <1>3 DEF WriteUpload, Decrypt, Transcribe, TranscribeFails, Go
  <2>2. work'.text \in Bytes
    BY <2>1 DEF Transcribe, Go, Types, TypeOK, Content, IInv, Fits, Shape, Stage, IsFile
  <2> QED  BY <2>2, CallUploadAssumption
<1>4. ASSUME at' = "error"
      PROVE  /\ ~IsRecorded(work.up)
             /\ Readable(sent[work.up].file) => budget'.faults > 0
  <2>1. TranscribeFails
    BY <1>4 DEF WriteUpload, Decrypt, Transcribe, TranscribeFails, Go
  <2>2. ~IsRecorded(work.up)
    BY <1>1 DEF IInv, Fits, Fresh
  <2>3. ASSUME Readable(sent[work.up].file) PROVE Fail("stt")
    <3>1. at = "transcribe" /\ IsFile(work.path) /\ work.path[1] = work.up
      BY <2>1, PathsFit DEF TranscribeFails, Go, IInv, Fits, Stage, FilesOf
    <3>2. ~files[work.path].magic
      BY <2>3, <3>1 DEF MagicIsSent, Readable, IsFile
    <3>3. files[work.path].bytes = sent[work.up].file.bytes
      BY <2>3, <3>1, <3>2 DEF IInv, Fits, FilesFit, Readable, Original, IsFile
    <3> QED  BY <2>1, <2>3, <3>2, <3>3 DEF TranscribeFails, Readable
  <2>4. Fail("stt") => budget'.faults > 0
    BY DEF Fail, Types, TypeOK
  <2> QED  BY <2>2, <2>3, <2>4
<1>5. Stages'
  BY <1>1, <1>3, <1>4 DEF Stages, Ending, IsRecorded
<1>6. Answers'
  BY <1>1, <1>2 DEF Answers, Promise, HasRow, IsRecorded
<1> QED  BY <1>1, <1>2, <1>5, <1>6 DEF Promise

LEMMA InsertPromise ==
  ASSUME IInv, Types, MetaFits, Promise, InsertCompleted \/ InsertFails \/ InsertError
  PROVE  Promise'
<1> SUFFICES ASSUME budget'.requests = 0
             PROVE  /\ \A c \in Client : client'[c] = NoRequest
                    /\ at' # "idle" => Stages'
                    /\ Answers'
  BY DEF Promise
<1>1. /\ UNCHANGED <<key, sent, client, reply>> /\ at \in {"insert", "error"}
      /\ work'.up = work.up /\ work.up \in Upload
  BY DEF InsertCompleted, InsertFails, InsertError, Go, pool, IInv, Fits, Shape, Working
<1>2. budget.requests = 0 /\ budget.faults \in Nat
  BY DEF InsertCompleted, InsertFails, InsertError, Fail, Types, TypeOK
<1>3. Stages /\ Answers /\ \A c \in Client : client[c] = NoRequest
  BY <1>1, <1>2 DEF Promise
<1>4. /\ \A u, s : HasRow(u, s) => HasRow(u, s)'
      /\ \A u : IsRecorded(u) => IsRecorded(u)'
  BY <1>1, RowsStay DEF InsertCompleted, InsertFails, InsertError, table, Status, HasRow, IsRecorded
<1>5. \A u : HasRow(u, "failed") \/ HasRow(u, "completed") => IsRecorded(u)
  BY DEF HasRow, IsRecorded
<1>6. CASE InsertCompleted
  <2>1. /\ at' = "finally" /\ budget' = budget /\ work' = work /\ work.text # None
        /\ Insert("completed")
    BY <1>3, <1>6 DEF InsertCompleted, Stages, Go
  <2>2. HasRow(work.up, "completed")'
    BY <1>1, <2>1, RowsStay DEF Status
  <2> QED  BY <1>1, <1>3, <1>4, <2>1, <2>2 DEF Stages, Ending, Answers
<1>7. CASE InsertFails
  <2>1. /\ at' = "error" /\ budget'.faults = budget.faults + 1
    BY <1>7 DEF InsertFails, Go, Fail, Types, TypeOK
  <2>2. Stages'
    BY <1>2, <2>1 DEF Stages, Ending
  <2> QED  BY <1>1, <1>2, <1>3, <1>4, <2>1, <2>2 DEF Answers
<1>8. CASE InsertError
  <2>1. /\ at = "error" /\ at' = "finally" /\ work'.text = None
    BY <1>8 DEF InsertError, Go, IInv, Fits, Shape
  <2>2. \/ /\ budget' = budget
           /\ HasRow(work.up, "failed")' \/ (IsRecorded(work.up) /\ rows' = rows)
        \/ budget'.faults = budget.faults + 1
    <3>1. Insert("failed") => HasRow(work.up, "failed")'
      BY <1>1, RowsStay DEF Status
    <3>2. \/ Insert("failed") /\ UNCHANGED budget
          \/ IsRecorded(work.up) /\ UNCHANGED <<table, budget>>
          \/ \E kind : Fail(kind)
      BY <1>8 DEF InsertError
    <3>3. \A kind : Fail(kind) => budget'.faults = budget.faults + 1
      BY DEF Fail, Types, TypeOK
    <3> QED  BY <1>1, <3>1, <3>2, <3>3 DEF table
  <2>3. HasRow(work.up, "failed")' => IsRecorded(work.up)'
    BY DEF HasRow, IsRecorded
  <2>4. budget'.faults = 0 => HasRow(work.up, "failed")'
    BY <1>1, <1>2, <1>3, <2>1, <2>2 DEF Stages
  <2>5. Readable(sent'[work'.up].file) /\ budget'.faults <= 1 => IsRecorded(work.up)'
    BY <1>1, <1>2, <1>3, <1>4, <2>1, <2>2, <2>3 DEF Stages
  <2>6. Stages'
    BY <2>1, <2>4, <2>5 DEF Stages, Ending
  <2> QED  BY <1>1, <1>2, <1>3, <1>4, <2>2, <2>6 DEF Answers
<1> QED  BY <1>6, <1>7, <1>8

\* The steps that leave process_call, or its table as it is.
LEMMA EndPromise ==
  ASSUME IInv, Types, Promise,
         \/ DecryptFails \/ CleanUp \/ UnlinkStored \/ CleanUpDecrypted \/ UnlinkDecrypted \/ Crash
  PROVE  Promise'
<1> SUFFICES ASSUME budget'.requests = 0
             PROVE  /\ \A c \in Client : client'[c] = NoRequest
                    /\ at' # "idle" => Stages'
                    /\ Answers'
  BY DEF Promise
<1>1. /\ UNCHANGED <<key, sent, rows>> /\ \A c \in Client : client'[c] = client[c] \/ client'[c] = NoRequest
      /\ budget'.requests = budget.requests
      /\ {budget.faults, budget'.faults} \subseteq Nat /\ budget.faults <= budget'.faults
  <2>1. CASE UnlinkStored \/ UnlinkDecrypted
    <3>1. at # "idle" /\ UNCHANGED <<key, sent, rows, client>>
      BY <2>1 DEF UnlinkStored, UnlinkDecrypted, Go, table, pool
    <3>2. \E path \in Upload \X Suffix : Unlink(path) \/ UnlinkRaises(path)
      BY <2>1, <3>1, PathsFit DEF UnlinkStored, UnlinkDecrypted, IInv, Fits, FilesOf
    <3> QED  BY <3>1, <3>2, UnlinkTypes, CallUploadAssumption DEF Types, TypeOK
  <2> QED  BY <2>1 DEF DecryptFails, CleanUp, CleanUpDecrypted, Crash, table, pool, Types, TypeOK
<1>2. Answers /\ (at # "idle" => Stages) /\ \A c \in Client : client[c] = NoRequest
  BY <1>1 DEF Promise
<1>3. ASSUME UNCHANGED reply PROVE Answers'
  BY <1>1, <1>2, <1>3 DEF Answers, HasRow, IsRecorded
<1>4. ASSUME at # "idle", work.up \in Upload,
             \A u \in Upload : u # work.up => reply'[u] = reply[u],
             reply'[work.up] = 200 => HasRow(work.up, "completed"),
             reply'[work.up] = 500 /\ budget'.faults = 0 /\ key # NoKey => HasRow(work.up, "failed"),
             reply'[work.up] = 500 /\ budget'.faults <= 1 /\ Readable(sent[work.up].file)
               => IsRecorded(work.up)
      PROVE  Answers'
  BY <1>1, <1>2, <1>4 DEF Answers, HasRow, IsRecorded
<1>5. CASE CleanUp
  BY <1>1, <1>2, <1>3, <1>5 DEF CleanUp, Go, Stages, Ending, HasRow, IsRecorded, IsFile, Stored, disk
<1>6. CASE Crash
  BY <1>1, <1>2, <1>3, <1>6 DEF Crash
<1>7. CASE DecryptFails
  <2>1. /\ at = "decrypt" /\ at' = "idle" /\ work.up \in Upload
        /\ \A u \in Upload : u # work.up => reply'[u] = reply[u]
        /\ reply'[work.up] = 400 \/ (reply'[work.up] = 500 /\ key = NoKey)
    BY <1>7 DEF DecryptFails, Go, Answer, Types, TypeOK, IInv, Fits, Working
  <2>2. ~Readable(sent[work.up].file)
    BY <2>1 DEF IInv, Fits, Stage, IsEncrypted, Readable
  <2> QED  BY <1>1, <1>2, <1>4, <2>1, <2>2
<1>8. ASSUME Ending PROVE /\ work.up \in Upload /\ at # "idle"
                          /\ HasRow(work.up, "completed") => IsRecorded(work.up)
                          /\ HasRow(work.up, "failed") => IsRecorded(work.up)
  BY <1>8 DEF Ending, IInv, Fits, Working, HasRow, IsRecorded
<1>9. ASSUME Ending, reply' = [reply EXCEPT ![work.up] = IF work.text # None THEN 200 ELSE 500]
      PROVE  Answers'
  <2>1. reply'[work.up] = IF work.text # None THEN 200 ELSE 500
    BY <1>8, <1>9 DEF Types, TypeOK
  <2> QED  BY <1>1, <1>2, <1>4, <1>8, <1>9, <2>1 DEF Stages, Types, TypeOK
<1>10. ASSUME Ending, reply' = [reply EXCEPT ![work.up] = 500], budget'.faults > budget.faults
       PROVE  Answers'
  <2>1. reply'[work.up] = 500
    BY <1>8, <1>10 DEF Types, TypeOK
  <2>2. budget'.faults <= 1 => budget.faults = 0
    BY <1>1, <1>10
  <2> QED  BY <1>1, <1>2, <1>4, <1>8, <1>10, <2>1, <2>2 DEF Stages, Types, TypeOK
<1>11. ASSUME NEW path, IsFile(path), UnlinkRaises(path) PROVE budget'.faults > budget.faults
  BY <1>11 DEF UnlinkRaises, IsFile, Fail, Types, TypeOK
<1>12. CASE UnlinkStored
  <2>1. at = "unlink" /\ Ending /\ IsFile(Stored) /\ client' = client
    BY <1>2, <1>12 DEF UnlinkStored, Go, Ending, Stages, pool
  <2>2. CASE at' = "idle"
    BY <1>1, <1>2, <1>10, <1>11, <1>12, <2>1, <2>2 DEF UnlinkStored, Go, Answer
  <2>3. CASE at' = "decrypted" /\ UNCHANGED <<reply, work>>
    BY <1>1, <1>2, <1>3, <2>1, <2>3 DEF Stages, Ending, HasRow, IsRecorded
  <2> QED  BY <1>12, <2>1, <2>2, <2>3 DEF UnlinkStored, Go
<1>13. CASE CleanUpDecrypted
  <2>1. at = "decrypted" /\ Ending /\ client' = client /\ UNCHANGED <<files, budget>>
    BY <1>13 DEF CleanUpDecrypted, Go, Ending, pool, disk
  <2>2. CASE at' = "idle"
    BY <1>1, <1>2, <1>9, <1>13, <2>1, <2>2 DEF CleanUpDecrypted, Go, Return, Answer
  <2>3. CASE at' = "unlink_decrypted" /\ UNCHANGED <<reply, work>> /\ IsFile(work.path)
    BY <1>1, <1>2, <1>3, <2>1, <2>3 DEF Stages, Ending, HasRow, IsRecorded, IsFile
  <2> QED  BY <1>13, <2>1, <2>2, <2>3 DEF CleanUpDecrypted, Go, IsFile
<1>14. CASE UnlinkDecrypted
  <2>1. /\ at = "unlink_decrypted" /\ at' = "idle" /\ Ending /\ IsFile(work.path)
        /\ client' = client
    BY <1>2, <1>14 DEF UnlinkDecrypted, Go, Ending, Stages, pool
  <2> QED  BY <1>1, <1>2, <1>9, <1>10, <1>11, <1>14, <2>1 DEF UnlinkDecrypted, Return, Answer
<1> QED  BY <1>5, <1>6, <1>7, <1>12, <1>13, <1>14

LEMMA PoolPromise == ASSUME Types, Promise, NEW c \in Client, PoolStep(c) PROVE Promise'
<1>1. CASE DeleteStep(c)
  <2>1. budget.requests # 0
    BY <1>1 DEF DeleteStep, ListUploads, UnlinkUpload, DeleteEnds, Promise, NoRequest
  <2>2. budget'.requests = budget.requests
    <3>1. CASE UnlinkUpload(c)
      <4>1. budget' = budget \/ Fail("unlink")
        BY <3>1 DEF UnlinkUpload, Unlink, UnlinkRaises
      <4> QED  BY <4>1 DEF Fail, Types, TypeOK
    <3> QED  BY <1>1, <3>1 DEF DeleteStep, ListUploads, DeleteEnds
  <2> QED  BY <2>1, <2>2 DEF Promise
<1>2. ASSUME Ask(c) PROVE Promise'
  BY <1>2 DEF Ask, Promise, Types, TypeOK
<1> QED  BY <1>1, <1>2 DEF PoolStep, DeleteRow, EditTranscript

LEMMA HoldsStep == ASSUME IInv, Holds, [Next]_vars PROVE Holds'
<1> USE DEF Holds
<1>1. MagicIsSent' /\ MetaFits'
  BY MagicStep, MetaStep
<1>2. CASE \E u \in Upload : Receive(u)
  BY <1>1, <1>2, ReceiveTypes, ReceivePromise
<1>3. CASE ProcessStep
  BY <1>1, <1>3, WriteUploadTypes, DecryptTypes, DecryptFailsTypes, TranscribeTypes,
     TranscribeFailsTypes, InsertTypes, CleanUpTypes, UnlinkStoredTypes, CleanUpDecryptedTypes,
     UnlinkDecryptedTypes, EarlyPromise, InsertPromise, EndPromise DEF ProcessStep
<1>4. CASE Crash
  BY <1>1, <1>4, CrashTypes, EndPromise
<1>5. CASE \E c \in Client : PoolStep(c)
  BY <1>1, <1>5, PoolTypes, PoolPromise
<1>6. CASE UNCHANGED vars
  BY <1>1, <1>6 DEF vars, disk, table, pool, Types, TypeOK, Counted, Spent, Inserts, Promise, Stages,
     Ending, Answers, HasRow, IsRecorded, IsFile, Stored
<1> QED  BY <1>2, <1>3, <1>4, <1>5, <1>6 DEF Next

LEMMA InitHolds == Init => Holds
<1> SUFFICES ASSUME Init PROVE Holds
  OBVIOUS
<1> USE CallUploadAssumption DEF Init
<1>1. MagicIsSent /\ MetaFits
  BY DEF MagicIsSent, MetaFits
<1>2. TypeOK
  BY DEF TypeOK, NoWork, NoRequest, Maybe
<1>3. Counted
  BY SpentBounds DEF Counted, Inserts, Ending
<1>4. Promise
  BY DEF Promise, Answers
<1> QED  BY <1>1, <1>2, <1>3, <1>4 DEF Holds, Types

LEMMA HoldsInvariant == Spec => []Holds
<1>1. IInv /\ Holds /\ [Next]_vars => Holds'
  BY HoldsStep
<1> QED  BY <1>1, InitHolds, IInvInvariant, PTL DEF Spec

-----------------------------------------------------------------------------
(* Times of a name *)

\* Two times of one year: the end, moved to the next year when it comes first, is not before the
\* start and not more than a year after it.
LEMMA EndFollowsStart ==
  ASSUME NEW year, NEW parts, NEW start, NEW end,
         start = Moment(year, parts, 4), end = Moment(year, parts, 9),
         IsMoment(start), IsMoment(end)
  PROVE  /\ ~Before(CallEnd(start, end), start)
         /\ ~Before([start EXCEPT ![1] = @ + 1], CallEnd(start, end))
<1> DEFINE ended == CallEnd(start, end)
           later == [start EXCEPT ![1] = @ + 1]
<1> USE DEF Before
<1>1. /\ DOMAIN start = 1 .. 6 /\ DOMAIN end = 1 .. 6
      /\ start[1] = year /\ end[1] = year /\ year \in Int
      /\ \A i \in 2 .. 6 : start[i] \in Int /\ end[i] \in Int
  BY DEF Moment, IsMoment
<1>2. /\ DOMAIN later = 1 .. 6 /\ later[1] = year + 1
      /\ \A i \in 2 .. 6 : later[i] = start[i]
  BY <1>1
<1>3. CASE ~Before(end, start)
  <2>1. ended = end
    BY <1>3 DEF CallEnd
  <2> QED  BY <1>1, <1>2, <1>3, <2>1
<1>4. CASE Before(end, start)
  <2>1. /\ ended[1] = year + 1 /\ \A i \in 2 .. 6 : ended[i] = end[i]
    BY <1>1, <1>4 DEF CallEnd
  <2>2. ~Before(ended, start)
    BY <1>1, <2>1
  <2>3. ~Before(later, ended)
    <3>1. PICK k \in 2 .. 6 : end[k] < start[k] /\ \A j \in 2 .. (k - 1) : end[j] = start[j]
      BY <1>1, <1>4
    <3>2. SUFFICES ASSUME NEW i \in 1 .. 6, later[i] < ended[i],
                          \A j \in 1 .. (i - 1) : later[j] = ended[j]
                   PROVE  FALSE
      OBVIOUS
    <3>3. i \in 2 .. 6
      BY <1>2, <2>1, <3>2, <1>1
    <3>4. start[i] < end[i] /\ \A j \in 2 .. (i - 1) : start[j] = end[j]
      BY <3>2, <3>3, <1>2, <2>1
    <3> QED  BY <3>1, <3>3, <3>4, <1>1
  <2> QED  BY <2>2, <2>3
<1> QED  BY <1>3, <1>4

LEMMA MetadataTimes ==
  ASSUME NEW input, input.form.started = <<>>, input.form.ended = <<>>, Metadata(input).ended # <<>>
  PROVE  LET m == Metadata(input) IN
         /\ IsMoment(m.started) /\ IsMoment(m.ended)
         /\ ~Before(m.ended, m.started)
         /\ ~Before([m.started EXCEPT ![1] = @ + 1], m.ended)
<1> DEFINE parts == NonEmpty(input.name)
           year == IF parts[3] < 100 THEN 2000 + parts[3] ELSE parts[3]
           start == Moment(year, parts, 4)
           end == Moment(year, parts, 9)
           ended == CallEnd(start, end)
           m == Metadata(input)
           named == ParseFilename(input.name)
<1>1. /\ m.started = start /\ m.ended = ended
      /\ IsMoment(start) /\ IsMoment(end) /\ IsMoment(ended)
  <2> HIDE DEF parts
  <2>1. m.started = named.started /\ m.ended = named.ended
    BY DEF Metadata, FromName, NoForm
  <2>2. named # NoMetadata
    BY <2>1 DEF NoMetadata
  <2> QED  BY <2>1, <2>2 DEF ParseFilename, parts
<1>2. ~Before(ended, start) /\ ~Before([start EXCEPT ![1] = @ + 1], ended)
  <2> HIDE DEF parts, year
  <2> QED  BY <1>1, EndFollowsStart
<1> QED  BY <1>1, <1>2

-----------------------------------------------------------------------------

\* A completed row holds the words of the recording that was sent, or an edit: neither a wrong
\* key nor a damaged container ever leads to a transcript (decrypt_bytes, process_call).
THEOREM RowsSayTheirRecordings == Spec => []RowIsOfItsRecording
BY IInvInvariant, PTL DEF IInv

\* The stored audio of every completed call that is listed is there, deciphered, while deletions
\* of other calls and the clean-up of other uploads remove files (delete_call, process_call).
THEOREM StoredAudioStays == Spec => []ListedAudioPlays
BY IInvInvariant, PTL DEF IInv

\* With SAVE_UPLOADS off, an upload that got past its decryption leaves no file after a 200, and
\* after a 500 only when an unlink has raised, which its traceback or the log says: every other
\* failure and every request in between still ends in a clean directory (the finally clause of
\* process_call).
THEOREM AnsweredLeavesNothing == Spec => []NothingIsKept
BY IInvInvariant, PTL DEF IInv

\* The types, and that AUTO_INCREMENT never runs beyond two inserts of each upload, of which the
\* second is the one of the except clause (insert_summary, process_call).
THEOREM TypeCorrect == Spec => []TypeOK
BY HoldsInvariant, PTL DEF Holds, Types

\* While nobody deletes calls an answer can be relied upon: 200 has its completed row, 500 its
\* failed one unless something else failed too, and one failure of the database never costs a
\* readable recording its row (process_call and its except clause).
THEOREM AnswersAreRecorded == Spec => []AnswerIsRecorded
<1>1. Holds => AnswerIsRecorded
  BY DEF Holds, Promise, Answers, AnswerIsRecorded
<1> QED  BY <1>1, HoldsInvariant, PTL

\* For any names, a call whose times come from its file's name does not end before it starts, and
\* ends within a year, over New Year and leap days too (parse_collected_audio_filename).
THEOREM CallsEndAfterTheyStart == Spec => []CallEndsAfterItStarts
<1>1. IInv /\ Holds => CallEndsAfterItStarts
  BY MetadataTimes DEF Holds, MetaFits, CallEndsAfterItStarts
<1> QED  BY <1>1, IInvInvariant, HoldsInvariant, PTL
=============================================================================
