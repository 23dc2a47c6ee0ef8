--------------------------- MODULE TrainingProofs ---------------------------
(***************************************************************************)
(* Theorems about TrainingJobs, for any clients, calls, segments, jobs,    *)
(* limits and failures.                                                    *)
(***************************************************************************)
EXTENDS TrainingJobs, FiniteSetTheorems, WellFoundedInduction, TLAPS

\* The corrections that have been counted and may still take an id.
Numbering == {"clip", "select", "write"}
Creating == {c \in Client : pc[c] \in Numbering}

\* What a request carries at each label.
Carries(label, r) ==
    /\ label \in Numbering =>
          r.call \in Call /\ r.seg \in Segment \cup {Full} /\ r.text \in Text
    /\ label = "delete" => r.id \in Id
    /\ label \in {"call", "audio"} => r.call \in Call

Filled == \A c \in Client : Carries(pc[c], req[c])

Bounded == lastId + Cardinality(Creating) <= creates

StoreInv == StoreTypeOK /\ Filled /\ Bounded

-----------------------------------------------------------------------------
(* Counting the corrections that are under way. *)

LEMMA CountIsNat ==
  ASSUME NEW S \in SUBSET Client
  PROVE  IsFiniteSet(S) /\ Cardinality(S) \in Nat
BY TrainingStoreAssumption, FS_Subset, FS_CardinalityType

LEMMA CountSubset ==
  ASSUME NEW S \in SUBSET Client, NEW T \in SUBSET S
  PROVE  Cardinality(T) <= Cardinality(S)
BY CountIsNat, FS_Subset

LEMMA CountAdd ==
  ASSUME NEW S \in SUBSET Client, NEW c \in Client, NEW T \in SUBSET (S \cup {c})
  PROVE  Cardinality(T) <= Cardinality(S) + 1
<1>1. IsFiniteSet(S \cup {c}) /\ Cardinality(S \cup {c}) <= Cardinality(S) + 1
  BY CountIsNat, FS_AddElement
<1>2. S \cup {c} \in SUBSET Client
  OBVIOUS
<1> QED  BY <1>1, <1>2, CountIsNat, CountSubset

LEMMA CountRemove ==
  ASSUME NEW S \in SUBSET Client, NEW c \in S, NEW T \in SUBSET (S \ {c})
  PROVE  Cardinality(T) <= Cardinality(S) - 1
<1>1. IsFiniteSet(S \ {c}) /\ Cardinality(S \ {c}) = Cardinality(S) - 1
  BY CountIsNat, FS_RemoveElement
<1> QED  BY <1>1, CountIsNat, CountSubset

\* A request that goes on without a new id leaves room for the others.
LEMMA StaysBounded ==
  ASSUME StoreInv, Creating' \subseteq Creating, creates' = creates, lastId' = lastId
  PROVE  Bounded'
<1>1. Cardinality(Creating') <= Cardinality(Creating)
  BY CountSubset DEF Creating
<1>2. Cardinality(Creating) \in Nat /\ Cardinality(Creating') \in Nat
  BY CountIsNat DEF Creating
<1> QED  BY <1>1, <1>2 DEF StoreInv, StoreTypeOK, Bounded

\* The newest of a set of ids exists.
LEMMA NewestExists ==
  ASSUME NEW S \in SUBSET Id, S # {}
  PROVE  \E i \in S : \A j \in S : j <= i
<1> DEFINE R == {MaxCreates - i : i \in S}
<1>1. MaxCreates \in Nat
  BY TrainingStoreAssumption
<1>2. R \subseteq Nat /\ R # {}
  <2>1. \A i \in S : MaxCreates - i \in Nat
    BY <1>1 DEF Id
  <2> QED  BY <2>1
<1>3. PICK r \in R : \A q \in R : ~ (<<q, r>> \in OpToRel(<, Nat))
  BY <1>2, WFMin, NatLessThanWellFounded
<1>4. \A q \in R : r <= q
  <2> SUFFICES ASSUME NEW q \in R, ~ (r <= q) PROVE FALSE
    OBVIOUS
  <2>1. q \in Nat /\ r \in Nat
    BY <1>2
  <2>2. q < r
    BY <2>1
  <2>3. <<q, r>> \in OpToRel(<, Nat)
    BY <2>1, <2>2 DEF OpToRel
  <2> QED  BY <2>3, <1>3
<1>5. PICK i \in S : r = MaxCreates - i
  OBVIOUS
<1>6. \A j \in S : j <= i
  BY <1>1, <1>4, <1>5 DEF Id
<1> QED  BY <1>6

-----------------------------------------------------------------------------
(* The store, step by step. *)

\* A request that goes on keeps what is known of the requests.
LEMMA GotoKeeps ==
  ASSUME StoreInv, NEW c \in Client, NEW label \in RequestLabel, NEW r \in Request,
         Goto(c, label, r), Carries(label, r)
  PROVE  /\ pc' \in [Client -> RequestLabel] /\ req' \in [Client -> Request]
         /\ Filled'
         /\ Creating' \subseteq Creating \cup {c}
         /\ label \notin Numbering \/ c \in Creating => Creating' \subseteq Creating
         /\ label \notin Numbering => Creating' \subseteq Creating \ {c}
<1> USE DEF StoreInv, StoreTypeOK, Goto
<1>1. pc' \in [Client -> RequestLabel] /\ req' \in [Client -> Request]
  OBVIOUS
<1>2. \A d \in Client : /\ pc'[d] = (IF d = c THEN label ELSE pc[d])
                        /\ req'[d] = (IF d = c THEN r ELSE req[d])
  OBVIOUS
<1>3. Filled'
  <2> SUFFICES ASSUME NEW d \in Client PROVE Carries(pc'[d], req'[d])
    BY DEF Filled, Carries
  <2>1. Carries(pc[d], req[d])
    BY DEF Filled
  <2> QED  BY <1>2, <2>1
<1>4. /\ Creating' \subseteq Creating \cup {c}
      /\ label \notin Numbering \/ c \in Creating => Creating' \subseteq Creating
      /\ label \notin Numbering => Creating' \subseteq Creating \ {c}
  BY <1>2 DEF Creating
<1> QED  BY <1>1, <1>3, <1>4

\* So does one that is answered.
LEMMA RespondKeeps ==
  ASSUME StoreInv, NEW c \in Client, Respond(c)
  PROVE  /\ pc' \in [Client -> RequestLabel] /\ req' \in [Client -> Request]
         /\ Filled'
         /\ Creating' \subseteq Creating \ {c}
<1>1. NoRequest \in Request
  BY DEF NoRequest, Request, Maybe
<1>2. Carries("idle", NoRequest) /\ "idle" \in RequestLabel /\ "idle" \notin Numbering
  BY DEF Carries, RequestLabel, Numbering
<1>3. Goto(c, "idle", NoRequest)
  BY DEF Respond
<1> QED  BY <1>1, <1>2, <1>3, GotoKeeps

LEMMA RowType ==
  ASSUME StoreTypeOK
  PROVE  /\ \A i \in Rows : i \in Id /\ samples[i] \in Sample
         /\ \A i \in Id \ Rows : samples[i] = None
         /\ \A ids \in SUBSET Rows : ClipsOf(ids) \subseteq ClipName
<1>1. \A i \in Rows : i \in Id /\ samples[i] \in Sample
  BY DEF StoreTypeOK, Rows, Maybe
<1>2. \A i \in Id \ Rows : samples[i] = None
  BY DEF Rows
<1>3. ASSUME NEW ids \in SUBSET Rows PROVE ClipsOf(ids) \subseteq ClipName
  BY <1>1 DEF ClipsOf, ClipOf, ClipName, Sample
<1> QED  BY <1>1, <1>2, <1>3

LEMMA InitStoreInv == StoreInit => StoreInv
<1> SUFFICES ASSUME StoreInit PROVE StoreInv
  OBVIOUS
<1> USE TrainingStoreAssumption DEF StoreInit
<1>1. StoreTypeOK
  BY DEF StoreTypeOK, Maybe, RequestLabel, Request, NoRequest
<1>2. Filled
  BY DEF Filled, Carries, Numbering
<1>3. Bounded
  <2>1. Creating = {}
    BY DEF Creating, Numbering
  <2> QED  BY <2>1, FS_EmptySet DEF Bounded
<1> QED  BY <1>1, <1>2, <1>3 DEF StoreInv

\* Creating a sample, up to the row.
LEMMA CreateKeepsInv ==
  ASSUME StoreInv, NEW c \in Client,
         \/ CreateGetCall(c) \/ CreateCutClip(c) \/ CreateCutClipFails(c)
         \/ CreateSelect(c)
  PROVE  StoreInv'
<1> USE TrainingStoreAssumption
<1>0. StoreTypeOK /\ Filled /\ Bounded
  BY DEF StoreInv
<1>r. req[c] \in Request /\ Carries(pc[c], req[c])
  BY <1>0 DEF StoreTypeOK, Filled
<1>1. CASE CreateGetCall(c)
  <2>1. PICK call \in Call, seg \in Segment \cup {Full}, cut \in Maybe(Cut), text \in Text :
           IF call \in calls
           THEN Goto(c, IF cut = None THEN "select" ELSE "clip",
                     [NoRequest EXCEPT !.call = call, !.seg = seg, !.cut = cut,
                                       !.text = text])
           ELSE Respond(c)
    BY <1>1 DEF CreateGetCall
  <2> DEFINE r == [NoRequest EXCEPT !.call = call, !.seg = seg, !.cut = cut, !.text = text]
             label == IF cut = None THEN "select" ELSE "clip"
  <2>2. r \in Request /\ Carries(label, r) /\ label \in RequestLabel
    BY DEF Request, NoRequest, Maybe, Carries, RequestLabel
  <2>3. pc[c] = "idle" /\ creates < MaxCreates /\ creates' = creates + 1 /\ UNCHANGED store
    BY <1>1 DEF CreateGetCall
  <2>4. /\ pc' \in [Client -> RequestLabel] /\ req' \in [Client -> Request]
        /\ Filled' /\ Creating' \subseteq Creating \cup {c}
    <3>1. CASE call \in calls
      <4>1. Goto(c, label, r)
        BY <2>1, <3>1
      <4> HIDE DEF r, label
      <4> QED  BY <4>1, <2>2, GotoKeeps
    <3>2. CASE call \notin calls
      BY <2>1, <3>2, RespondKeeps
    <3> QED  BY <3>1, <3>2
  <2>5. StoreTypeOK'
    BY <1>0, <2>3, <2>4 DEF StoreTypeOK, store
  <2>6. Bounded'
    <3>1. Creating \in SUBSET Client /\ Creating' \in SUBSET Client
      BY DEF Creating
    <3>2. Cardinality(Creating') <= Cardinality(Creating) + 1
      BY <2>4, <3>1, CountAdd
    <3>3. Cardinality(Creating) \in Nat /\ Cardinality(Creating') \in Nat
      BY <3>1, CountIsNat
    <3> QED  BY <1>0, <2>3, <3>2, <3>3 DEF Bounded, StoreTypeOK, store
  <2> QED  BY <2>4, <2>5, <2>6 DEF StoreInv
<1>2. CASE CreateCutClip(c)
  <2>1. pc[c] = "clip" /\ UNCHANGED <<calls, audio, samples, creates, lastId, warned>>
    BY <1>2 DEF CreateCutClip
  <2>2. c \in Creating /\ Carries("select", req[c]) /\ "select" \in RequestLabel
    BY <1>r, <2>1 DEF Creating, Numbering, Carries, RequestLabel
  <2>3. /\ pc' \in [Client -> RequestLabel] /\ req' \in [Client -> Request]
        /\ Filled' /\ Creating' \subseteq Creating
        /\ clips' \in [ClipName -> Maybe(Cut)]
    <3>1. CASE req[c].call \in audio
      <4>1. Goto(c, "select", req[c]) /\ clips' = [clips EXCEPT ![ClipOf(req[c])] = req[c].cut]
        BY <1>2, <3>1 DEF CreateCutClip
      <4>2. clips' \in [ClipName -> Maybe(Cut)]
        BY <1>0, <1>r, <4>1 DEF StoreTypeOK, Request
      <4> QED  BY <1>r, <2>2, <4>1, <4>2, GotoKeeps
    <3>2. CASE req[c].call \notin audio
      <4>1. Respond(c) /\ UNCHANGED clips
        BY <1>2, <3>2 DEF CreateCutClip
      <4> QED  BY <1>0, <4>1, RespondKeeps DEF StoreTypeOK
    <3> QED  BY <3>1, <3>2
  <2>4. StoreTypeOK'
    BY <1>0, <2>1, <2>3 DEF StoreTypeOK
  <2> QED  BY <2>1, <2>3, <2>4, StaysBounded DEF StoreInv
<1>3. CASE CreateCutClipFails(c)
  <2>1. Respond(c) /\ UNCHANGED <<store, creates>>
    BY <1>3 DEF CreateCutClipFails
  <2>2. StoreTypeOK'
    BY <1>0, <2>1, RespondKeeps DEF StoreTypeOK, store
  <2> QED  BY <2>1, <2>2, RespondKeeps, StaysBounded DEF StoreInv, store
<1>4. CASE CreateSelect(c)
  <2>1. pc[c] = "select" /\ UNCHANGED <<store, creates>>
    BY <1>4 DEF CreateSelect
  <2>2. PICK id \in Maybe(Id) : Goto(c, "write", [req[c] EXCEPT !.id = id])
    <3> DEFINE same == IF req[c].seg = Full THEN {} ELSE QueuedFor(req[c].call, req[c].seg)
    <3>1. same \in SUBSET Id
      BY DEF QueuedFor, RowsWith, Rows
    <3>2. Goto(c, "write", [req[c] EXCEPT !.id =
                               IF same = {} THEN None
                               ELSE CHOOSE i \in same : \A j \in same : j <= i])
      BY <1>4 DEF CreateSelect
    <3> HIDE DEF same
    <3>3. same # {} => (CHOOSE i \in same : \A j \in same : j <= i) \in Id
      BY <3>1, NewestExists
    <3> QED  BY <3>2, <3>3 DEF Maybe
  <2>3. c \in Creating /\ Carries("write", [req[c] EXCEPT !.id = id])
        /\ [req[c] EXCEPT !.id = id] \in Request /\ "write" \in RequestLabel
    BY <1>r, <2>1 DEF Creating, Numbering, Carries, Request, RequestLabel
  <2>4. /\ pc' \in [Client -> RequestLabel] /\ req' \in [Client -> Request]
        /\ Filled' /\ Creating' \subseteq Creating
    BY <2>2, <2>3, GotoKeeps
  <2>5. StoreTypeOK'
    BY <1>0, <2>1, <2>4 DEF StoreTypeOK, store
  <2> QED  BY <2>1, <2>4, <2>5, StaysBounded DEF StoreInv, store
<1> QED  BY <1>1, <1>2, <1>3, <1>4

\* Writing its row.
LEMMA WriteKeepsInv ==
  ASSUME StoreInv, NEW c \in Client,
         \/ CreateUpdate(c) \/ CreateInsert(c) \/ CreateInsertFails(c) \/ CreateFetch(c)
         \/ RollBack(c)
  PROVE  StoreInv'
<1> USE TrainingStoreAssumption
<1>0. StoreTypeOK /\ Filled /\ Bounded
  BY DEF StoreInv
<1>r. req[c] \in Request /\ Carries(pc[c], req[c])
  BY <1>0 DEF StoreTypeOK, Filled
<1>s. pc[c] = "write" => c \in Creating /\ SampleOf(req[c]) \in Sample
  BY <1>r DEF Creating, Numbering, Carries, SampleOf, Sample, Request
<1>1. CASE CreateUpdate(c)
  <2>1. /\ pc[c] = "write" /\ req[c].id \in Id /\ Goto(c, "fetch", req[c])
        /\ UNCHANGED <<calls, audio, creates, lastId, clips, warned>>
    BY <1>1, <1>r DEF CreateUpdate, Request, Maybe
  <2>2. samples' \in [Id -> Maybe(Sample)]
    <3>1. samples[req[c].id] # None =>
             [SampleOf(req[c]) EXCEPT !.status = samples[req[c].id].status] \in Sample
      BY <1>0, <1>s, <2>1 DEF StoreTypeOK, Sample, Maybe
    <3> QED  BY <1>0, <1>1, <2>1, <3>1 DEF CreateUpdate, StoreTypeOK, Maybe
  <2>3. Carries("fetch", req[c]) /\ "fetch" \in RequestLabel
    BY DEF Carries, Numbering, RequestLabel
  <2>4. /\ pc' \in [Client -> RequestLabel] /\ req' \in [Client -> Request]
        /\ Filled' /\ Creating' \subseteq Creating
    BY <1>r, <1>s, <2>1, <2>3, GotoKeeps
  <2>5. StoreTypeOK'
    BY <1>0, <2>1, <2>2, <2>4 DEF StoreTypeOK
  <2> QED  BY <2>1, <2>4, <2>5, StaysBounded DEF StoreInv
<1>2. CASE CreateInsert(c)
  <2>1. /\ pc[c] = "write" /\ lastId' = lastId + 1
        /\ Goto(c, "fetch", [req[c] EXCEPT !.id = lastId'])
        /\ samples' = [samples EXCEPT ![lastId'] = SampleOf(req[c])]
        /\ UNCHANGED <<calls, audio, creates, clips, warned>>
    BY <1>2 DEF CreateInsert
  <2>2. Creating \in SUBSET Client /\ c \in Creating
    BY <1>s, <2>1 DEF Creating
  <2>3. Cardinality(Creating) \in Nat /\ Cardinality(Creating) >= 1
    <3>1. {c} \in SUBSET Creating /\ Cardinality({c}) = 1
      BY <2>2, FS_Singleton
    <3> QED  BY <2>2, <3>1, CountIsNat, CountSubset
  <2>4. lastId' \in Id
    BY <1>0, <2>1, <2>3 DEF Bounded, StoreTypeOK, Id
  <2>5. /\ [req[c] EXCEPT !.id = lastId'] \in Request /\ "fetch" \in RequestLabel
        /\ Carries("fetch", [req[c] EXCEPT !.id = lastId']) /\ "fetch" \notin Numbering
    BY <1>r, <2>4 DEF Request, Maybe, RequestLabel, Carries, Numbering
  <2>6. /\ pc' \in [Client -> RequestLabel] /\ req' \in [Client -> Request]
        /\ Filled' /\ Creating' \subseteq Creating \ {c}
    BY <2>1, <2>5, GotoKeeps
  <2>7. samples' \in [Id -> Maybe(Sample)]
    BY <1>0, <1>s, <2>1, <2>4 DEF StoreTypeOK, Maybe
  <2>8. StoreTypeOK'
    BY <1>0, <2>1, <2>4, <2>6, <2>7 DEF StoreTypeOK, Id
  <2>9. Bounded'
    <3>1. Cardinality(Creating') <= Cardinality(Creating) - 1 /\ Cardinality(Creating') \in Nat
      BY <2>2, <2>6, CountRemove, CountIsNat
    <3> QED  BY <1>0, <2>1, <2>3, <3>1 DEF Bounded, StoreTypeOK
  <2> QED  BY <2>6, <2>8, <2>9 DEF StoreInv
<1>3. CASE CreateInsertFails(c) \/ CreateFetch(c) \/ RollBack(c)
  <2>1. Respond(c) /\ UNCHANGED <<store, creates>>
    BY <1>3 DEF CreateInsertFails, CreateFetch, RollBack
  <2>2. StoreTypeOK'
    BY <1>0, <2>1, RespondKeeps DEF StoreTypeOK, store
  <2> QED  BY <2>1, <2>2, RespondKeeps, StaysBounded DEF StoreInv, store
<1> QED  BY <1>1, <1>2, <1>3

\* Choosing what to delete.
LEMMA ChooseKeepsInv ==
  ASSUME StoreInv, NEW c \in Client,
         DeleteSelect(c) \/ BulkSelect(c) \/ CallSelect(c)
  PROVE  StoreInv'
<1> USE TrainingStoreAssumption
<1>0. StoreTypeOK
  BY DEF StoreInv
<1>1. pc[c] = "idle" /\ UNCHANGED <<store, creates>>
  BY DEF DeleteSelect, BulkSelect, CallSelect
<1>2. PICK label \in RequestLabel, r \in Request :
         label \notin Numbering /\ Carries(label, r) /\ Goto(c, label, r)
  <2>1. CASE DeleteSelect(c)
    <3>1. PICK i \in Rows :
             Goto(c, "delete", [NoRequest EXCEPT !.id = i, !.unlink = ClipsOf({i})])
      BY <2>1 DEF DeleteSelect
    <3>2. i \in Id /\ ClipsOf({i}) \subseteq ClipName
      BY <1>0, RowType
    <3>3. /\ [NoRequest EXCEPT !.id = i, !.unlink = ClipsOf({i})] \in Request
          /\ Carries("delete", [NoRequest EXCEPT !.id = i, !.unlink = ClipsOf({i})])
      BY <3>2 DEF NoRequest, Request, Maybe, Carries, Numbering
    <3> QED  BY <3>1, <3>3 DEF RequestLabel, Numbering
  <2>2. CASE BulkSelect(c)
    <3>1. PICK status \in {"queued", "used"} :
             Goto(c, "bulk", [NoRequest EXCEPT !.status = status,
                                               !.unlink = ClipsOf(RowsWith(status))])
      BY <2>2 DEF BulkSelect
    <3>2. ClipsOf(RowsWith(status)) \subseteq ClipName
      <4>1. RowsWith(status) \in SUBSET Rows
        BY DEF RowsWith
      <4> QED  BY <1>0, <4>1, RowType
    <3> DEFINE r == [NoRequest EXCEPT !.status = status, !.unlink = ClipsOf(RowsWith(status))]
    <3>3. r \in Request /\ Carries("bulk", r)
      BY <3>2 DEF NoRequest, Request, Maybe, Carries, Numbering
    <3> HIDE DEF r
    <3> QED  BY <3>1, <3>3 DEF RequestLabel, Numbering, r
  <2>3. CASE CallSelect(c)
    <3>1. PICK call \in calls :
             Goto(c, "call", [NoRequest EXCEPT !.call = call, !.unlink = ClipsOf(RowsOf(call))])
      BY <2>3 DEF CallSelect
    <3>2. call \in Call /\ ClipsOf(RowsOf(call)) \subseteq ClipName
      <4>1. RowsOf(call) \in SUBSET Rows
        BY DEF RowsOf
      <4> QED  BY <1>0, <4>1, RowType DEF StoreTypeOK
    <3> DEFINE r == [NoRequest EXCEPT !.call = call, !.unlink = ClipsOf(RowsOf(call))]
    <3>3. r \in Request /\ Carries("call", r)
      BY <3>2 DEF NoRequest, Request, Maybe, Carries, Numbering
    <3> QED  BY <3>1, <3>3 DEF RequestLabel, Numbering
  <2> QED  BY <2>1, <2>2, <2>3
<1>3. /\ pc' \in [Client -> RequestLabel] /\ req' \in [Client -> Request]
      /\ Filled' /\ Creating' \subseteq Creating
  BY <1>2, GotoKeeps
<1>4. StoreTypeOK'
  BY <1>0, <1>1, <1>3 DEF StoreTypeOK, store
<1> QED  BY <1>1, <1>3, <1>4, StaysBounded DEF StoreInv, store

\* Deleting rows, clips and audio.
LEMMA DeleteKeepsInv ==
  ASSUME StoreInv, NEW c \in Client,
         \/ DeleteRow(c) \/ BulkDelete(c) \/ Unlink(c)
         \/ CallDelete(c) \/ CallUnlinkAudio(c)
  PROVE  StoreInv'
<1> USE TrainingStoreAssumption
<1>0. StoreTypeOK /\ Filled
  BY DEF StoreInv
<1>r. req[c] \in Request /\ Carries(pc[c], req[c])
  BY <1>0 DEF StoreTypeOK, Filled
<1>l. /\ {"audio", "unlink"} \subseteq RequestLabel /\ Carries("unlink", req[c])
      /\ {"audio", "unlink"} \cap Numbering = {}
  BY DEF RequestLabel, Carries, Numbering
<1>1. CASE DeleteRow(c)
  <2>1. /\ Goto(c, "unlink", req[c]) /\ UNCHANGED <<calls, audio, creates, lastId, clips, warned>>
        /\ req[c].id \in Id /\ samples' = [samples EXCEPT ![req[c].id] = None]
    BY <1>1, <1>r DEF DeleteRow, Carries
  <2>2. samples' \in [Id -> Maybe(Sample)]
    BY <1>0, <2>1 DEF StoreTypeOK, Maybe
  <2>3. /\ pc' \in [Client -> RequestLabel] /\ req' \in [Client -> Request]
        /\ Filled' /\ Creating' \subseteq Creating
    BY <1>r, <1>l, <2>1, GotoKeeps
  <2>4. StoreTypeOK'
    BY <1>0, <2>1, <2>2, <2>3 DEF StoreTypeOK
  <2> QED  BY <2>1, <2>3, <2>4, StaysBounded DEF StoreInv
<1>2. CASE BulkDelete(c)
  <2>1. /\ Goto(c, "unlink", req[c]) /\ UNCHANGED <<calls, audio, creates, lastId, clips, warned>>
        /\ samples' = [i \in Id |-> IF i \in RowsWith(req[c].status)
                                    THEN None ELSE samples[i]]
    BY <1>2 DEF BulkDelete
  <2>2. samples' \in [Id -> Maybe(Sample)]
    BY <1>0, <2>1 DEF StoreTypeOK, Maybe
  <2>3. /\ pc' \in [Client -> RequestLabel] /\ req' \in [Client -> Request]
        /\ Filled' /\ Creating' \subseteq Creating
    BY <1>r, <1>l, <2>1, GotoKeeps
  <2>4. StoreTypeOK'
    BY <1>0, <2>1, <2>2, <2>3 DEF StoreTypeOK
  <2> QED  BY <2>1, <2>3, <2>4, StaysBounded DEF StoreInv
<1>3. CASE Unlink(c)
  <2>1. UNCHANGED <<calls, audio, samples, creates, lastId, warned>>
    BY <1>3 DEF Unlink
  <2>2. /\ pc' \in [Client -> RequestLabel] /\ req' \in [Client -> Request]
        /\ Filled' /\ Creating' \subseteq Creating
        /\ clips' \in [ClipName -> Maybe(Cut)]
    <3>1. CASE Respond(c) /\ UNCHANGED clips
      BY <1>0, <3>1, RespondKeeps DEF StoreTypeOK
    <3>2. CASE \E k \in req[c].unlink :
                  /\ clips' = [clips EXCEPT ![k] = None] \/ clips' = clips
                  /\ Goto(c, "unlink", [req[c] EXCEPT !.unlink = @ \ {k}])
      <4>1. PICK k \in req[c].unlink :
               /\ clips' = [clips EXCEPT ![k] = None] \/ clips' = clips
               /\ Goto(c, "unlink", [req[c] EXCEPT !.unlink = @ \ {k}])
        BY <3>2
      <4>2. clips' \in [ClipName -> Maybe(Cut)]
        BY <1>0, <4>1 DEF StoreTypeOK, Maybe
      <4>3. /\ [req[c] EXCEPT !.unlink = @ \ {k}] \in Request
            /\ Carries("unlink", [req[c] EXCEPT !.unlink = @ \ {k}])
        BY <1>r DEF Request, Carries, Numbering
      <4> QED  BY <1>l, <4>1, <4>2, <4>3, GotoKeeps
    <3> QED  BY <1>3, <3>1, <3>2 DEF Unlink
  <2>3. StoreTypeOK'
    BY <1>0, <2>1, <2>2 DEF StoreTypeOK
  <2> QED  BY <2>1, <2>2, <2>3, StaysBounded DEF StoreInv
<1>4. CASE CallDelete(c)
  <2>1. /\ pc[c] = "call" /\ Goto(c, "audio", req[c])
        /\ calls' = calls \ {req[c].call}
        /\ UNCHANGED <<audio, creates, lastId, clips, warned>>
        /\ samples' = [i \in Id |-> IF i \in RowsOf(req[c].call)
                                    THEN None ELSE samples[i]]
    BY <1>4 DEF CallDelete
  <2>2. samples' \in [Id -> Maybe(Sample)]
    BY <1>0, <2>1 DEF StoreTypeOK, Maybe
  <2>3. Carries("audio", req[c])
    BY <1>r, <2>1 DEF Carries, Numbering
  <2>4. /\ pc' \in [Client -> RequestLabel] /\ req' \in [Client -> Request]
        /\ Filled' /\ Creating' \subseteq Creating
    BY <1>r, <1>l, <2>1, <2>3, GotoKeeps
  <2>5. StoreTypeOK'
    BY <1>0, <2>1, <2>2, <2>4 DEF StoreTypeOK
  <2> QED  BY <2>1, <2>4, <2>5, StaysBounded DEF StoreInv
<1>5. CASE CallUnlinkAudio(c)
  <2>1. /\ pc[c] = "audio" /\ Goto(c, "unlink", req[c])
        /\ audio' \subseteq audio /\ warned' \subseteq warned \cup {req[c].call}
        /\ UNCHANGED <<calls, samples, creates, lastId, clips>>
    BY <1>5 DEF CallUnlinkAudio
  <2>2. /\ pc' \in [Client -> RequestLabel] /\ req' \in [Client -> Request]
        /\ Filled' /\ Creating' \subseteq Creating
    BY <1>r, <1>l, <2>1, GotoKeeps
  <2>3. StoreTypeOK'
    BY <1>0, <1>r, <2>1, <2>2 DEF StoreTypeOK, Carries
  <2> QED  BY <2>1, <2>2, <2>3, StaysBounded DEF StoreInv
<1> QED  BY <1>1, <1>2, <1>3, <1>4, <1>5

LEMMA StoreNextKeepsInv ==
  ASSUME StoreInv, StoreNext
  PROVE  StoreInv'
BY CreateKeepsInv, WriteKeepsInv, ChooseKeepsInv, DeleteKeepsInv
   DEF StoreNext, RequestStep

-----------------------------------------------------------------------------
(* The jobs. *)

Ids(r) == {i \in Id : r.rows[i] # None}
HasLearned(r, i) == \E l \in r.learned : l.id = i
Marking == {"mark", "completed", "failed", "gone"}

\* What is true of a job at each label: it has trained on what it has marked.
JobFits(r) ==
    /\ r.at = "none" <=> r.status = "none"
    /\ r.at = "completed" <=> r.status = "completed"
    /\ IF r.at = "none" THEN r.name = None ELSE r.name \in ModelName
    /\ r.left \subseteq Ids(r)
    /\ r.left # Ids(r) => r.at \in Marking
    /\ r.at = "completed" => r.left = {}
    /\ r.at \in {"replace", "convert", "evaluate", "mark"}
          => \A i \in Ids(r) : HasLearned(r, i)
    /\ \A i \in Ids(r) \ r.left : HasLearned(r, i)

AllFit == \A j \in Job : JobFits(job[j])

Inv == StoreInv /\ TypeOK /\ AllFit

LEMMA InitInv == Init => Inv
<1> SUFFICES ASSUME Init PROVE Inv
  OBVIOUS
<1>1. StoreInv
  BY InitStoreInv DEF Init
<1>2. NoJob \in JobRecord
  BY DEF NoJob, JobRecord, JobLabel, Maybe
<1>f. JobFits(NoJob)
  BY DEF NoJob, JobFits, Ids
<1>3. models \in [ModelName -> Maybe(Job)] /\ job \in [Job -> JobRecord]
  BY <1>2 DEF Init, Maybe
<1>4. AllFit
  BY <1>f DEF Init, AllFit
<1> QED  BY <1>1, <1>3, <1>4 DEF Inv, TypeOK, StoreInv

\* What no request has touched is as it was.
LEMMA StoreUnchanged ==
  ASSUME StoreInv, UNCHANGED storeVars
  PROVE  StoreInv'
BY DEF StoreInv, StoreTypeOK, Filled, Bounded, Creating, storeVars

\* The jobs keep the store's invariant: they write the status of a row at most.
LEMMA JobsKeepStoreInv ==
  ASSUME Inv, NEW j \in Job, StartJob(j) \/ JobStep(j) \/ ConvertAlone(j)
  PROVE  StoreInv'
<1>1. CASE Mark(j)
  <2>1. PICK i \in job[j].left : samples' = MarkUsed(i)
    BY <1>1 DEF Mark
  <2>2. i \in Id
    BY DEF Inv, TypeOK, JobRecord
  <2>3. samples' \in [Id -> Maybe(Sample)]
    <3>1. samples[i] # None => [samples[i] EXCEPT !.status = "used"] \in Sample
      BY <2>2 DEF Inv, StoreInv, StoreTypeOK, Maybe, Sample
    <3> QED  BY <2>1, <2>2, <3>1 DEF MarkUsed, Inv, StoreInv, StoreTypeOK, Maybe
  <2>4. UNCHANGED <<calls, audio, creates, lastId, clips, warned, pc, req>>
    BY <1>1 DEF Mark
  <2>5. StoreTypeOK' /\ Filled' /\ Bounded'
    BY <2>3, <2>4 DEF Inv, StoreInv, StoreTypeOK, Filled, Bounded, Creating
  <2> QED  BY <2>5 DEF StoreInv
<1>2. CASE ~ Mark(j)
  <2>1. UNCHANGED storeVars
    BY <1>2 DEF StartJob, JobStep, ConvertAlone, Train, RemoveModel, Convert,
                Evaluate, FinishJob, FailJob
  <2> QED  BY <2>1, StoreUnchanged DEF Inv
<1> QED  BY <1>1, <1>2

LEMMA CrashKeepsStoreInv ==
  ASSUME Inv, Crash
  PROVE  StoreInv'
<1> USE DEF Inv, Crash, store
<1>1. StoreTypeOK'
  BY DEF StoreInv, StoreTypeOK, RequestLabel, Request, NoRequest, Maybe
<1>2. Filled'
  BY DEF Filled, Carries, Numbering
<1>3. Creating' = {}
  BY DEF Creating, Numbering
<1> QED  BY <1>1, <1>2, <1>3, StaysBounded DEF StoreInv

\* A job takes the newest of everything when it starts, and changes nothing of
\* that afterwards.
LEMMA JobShape ==
  ASSUME Inv, NEW j \in Job, StartJob(j) \/ JobStep(j) \/ ConvertAlone(j)
  PROVE  \E r \in JobRecord :
            /\ job' = [job EXCEPT ![j] = r] /\ JobFits(r)
            /\ job[j].at # "none" => r.name = job[j].name /\ r.rows = job[j].rows
            /\ job[j].at \in Marking =>
                  r.at \in Marking /\ r.left \subseteq job[j].left /\ r.learned = job[j].learned
<1> DEFINE r0 == job[j]
<1>0. r0 \in JobRecord /\ JobFits(r0)
  BY DEF Inv, TypeOK, AllFit
<1>1. ASSUME NEW label \in JobLabel, job' = [job EXCEPT ![j].at = label],
             label \notin {"none", "completed"}, r0.at \notin {"none", "completed"},
             r0.at \in Marking => label \in Marking,
             r0.left # Ids(r0) => label \in Marking,
             label \in {"replace", "convert", "evaluate", "mark"}
                => r0.at \in {"replace", "convert", "evaluate", "mark"}
      PROVE  \E r \in JobRecord :
            /\ job' = [job EXCEPT ![j] = r] /\ JobFits(r)
            /\ job[j].at # "none" => r.name = job[j].name /\ r.rows = job[j].rows
            /\ job[j].at \in Marking =>
                  r.at \in Marking /\ r.left \subseteq job[j].left /\ r.learned = job[j].learned
  <2> DEFINE r == [r0 EXCEPT !.at = label]
  <2>1. r \in JobRecord /\ job' = [job EXCEPT ![j] = r]
    BY <1>0, <1>1 DEF JobRecord
  <2>2. /\ r.status = r0.status /\ r.at = label /\ r.name = r0.name /\ r.rows = r0.rows
        /\ r.left = r0.left /\ r.learned = r0.learned
    BY <1>0 DEF JobRecord
  <2>3. JobFits(r)
    <3> HIDE DEF r, r0
    <3> QED  BY <1>0, <1>1, <2>2 DEF JobFits, Ids, HasLearned
  <2> QED  BY <1>1, <2>1, <2>2, <2>3
<1>2. CASE StartJob(j)
  <2>1. PICK status \in {"queued", "used"}, include_used \in BOOLEAN, name \in ModelName :
           LET ids == RowsWith(status) \cup (IF include_used THEN RowsWith("used") ELSE {})
           IN  job' = [job EXCEPT ![j] =
                          [status |-> "running", at |-> "train", name |-> name,
                           rows |-> [i \in Id |-> IF i \in ids THEN samples[i] ELSE None],
                           left |-> ids, learned |-> {}]]
    BY <1>2 DEF StartJob
  <2> DEFINE ids == RowsWith(status) \cup (IF include_used THEN RowsWith("used") ELSE {})
             r == [status |-> "running", at |-> "train", name |-> name,
                   rows |-> [i \in Id |-> IF i \in ids THEN samples[i] ELSE None],
                   left |-> ids, learned |-> {}]
  <2>2. ids \subseteq Rows
    BY DEF RowsWith
  <2> HIDE DEF ids
  <2>3. r \in JobRecord
    BY <2>2 DEF JobRecord, JobLabel, Maybe, Rows, Inv, StoreInv, StoreTypeOK
  <2>4. Ids(r) = ids
    BY <2>2 DEF Ids, Rows
  <2>5. JobFits(r)
    BY <2>4 DEF JobFits, HasLearned
  <2>6. r0.at = "none"
    BY <1>0, <1>2 DEF StartJob, JobFits
  <2>7. job' = [job EXCEPT ![j] = r]
    BY <2>1 DEF ids
  <2> QED  BY <2>3, <2>5, <2>6, <2>7 DEF Marking
<1>3. CASE Train(j)
  <2> DEFINE learned == {[id |-> i, text |-> r0.rows[i].text,
                          cut |-> clips[ClipOf(r0.rows[i])]] : i \in IdsOf(j)}
             r == [r0 EXCEPT !.at = "replace", !.learned = learned]
  <2>1. r0.at = "train" /\ \A i \in IdsOf(j) : ClipIsThere(r0.rows[i])
    BY <1>3 DEF Train
  <2>2. learned \subseteq Learned
    <3> SUFFICES ASSUME NEW i \in IdsOf(j)
                 PROVE  [id |-> i, text |-> r0.rows[i].text,
                         cut |-> clips[ClipOf(r0.rows[i])]] \in Learned
      OBVIOUS
    <3>1. i \in Id /\ r0.rows[i] \in Sample
      BY <1>0 DEF IdsOf, JobRecord, Maybe
    <3>2. r0.rows[i].text \in Text /\ ClipOf(r0.rows[i]) \in ClipName
      BY <3>1 DEF Sample, ClipOf, ClipName
    <3>3. clips[ClipOf(r0.rows[i])] \in Cut
      BY <2>1, <3>2 DEF ClipIsThere, Inv, StoreInv, StoreTypeOK, Maybe
    <3> QED  BY <3>1, <3>2, <3>3 DEF Learned
  <2>3. \A i \in IdsOf(j) : \E l \in learned : l.id = i
    <3> SUFFICES ASSUME NEW i \in IdsOf(j) PROVE \E l \in learned : l.id = i
      OBVIOUS
    <3> DEFINE l == [id |-> i, text |-> r0.rows[i].text,
                     cut |-> clips[ClipOf(r0.rows[i])]]
    <3>1. l \in learned /\ l.id = i
      OBVIOUS
    <3> QED  BY <3>1
  <2>4. job' = [job EXCEPT ![j] = r]
    BY <1>0, <1>3 DEF Train, Inv, TypeOK, JobRecord
  <2> HIDE DEF learned
  <2>5. r \in JobRecord
    BY <1>0, <2>2 DEF JobRecord, JobLabel
  <2>6. /\ r.status = r0.status /\ r.at = "replace" /\ r.name = r0.name /\ r.rows = r0.rows
        /\ r.left = r0.left /\ r.learned = learned
    BY <1>0 DEF JobRecord
  <2>7. IdsOf(j) = Ids(r0) /\ Ids(r) = Ids(r0)
    BY <2>6 DEF IdsOf, Ids
  <2>8. JobFits(r)
    <3> HIDE DEF r, r0
    <3> QED  BY <1>0, <2>1, <2>3, <2>6, <2>7 DEF JobFits, HasLearned, Marking
  <2> QED  BY <2>1, <2>4, <2>5, <2>6, <2>8 DEF Marking
<1>4. CASE RemoveModel(j) \/ Convert(j)
  BY <1>0, <1>1, <1>4 DEF RemoveModel, Convert, Advance, JobLabel, JobFits, Marking
<1>5. CASE Evaluate(j) \/ ConvertAlone(j)
  BY <1>0, <1>1, <1>5 DEF Evaluate, ConvertAlone, Advance, JobLabel, JobFits, Marking
<1>6. CASE Mark(j)
  <2>1. PICK i \in r0.left : job' = [job EXCEPT ![j].left = @ \ {i}]
    BY <1>6 DEF Mark
  <2> DEFINE r == [r0 EXCEPT !.left = @ \ {i}]
  <2>2. r0.at = "mark"
    BY <1>6 DEF Mark
  <2>3. r \in JobRecord /\ job' = [job EXCEPT ![j] = r]
    BY <1>0, <2>1 DEF JobRecord
  <2>4. /\ r.status = r0.status /\ r.at = r0.at /\ r.name = r0.name /\ r.rows = r0.rows
        /\ r.left = r0.left \ {i} /\ r.learned = r0.learned
    BY <1>0 DEF JobRecord
  <2>5. JobFits(r)
    <3> HIDE DEF r, r0
    <3> QED  BY <1>0, <2>2, <2>4 DEF JobFits, Ids, HasLearned, Marking
  <2> QED  BY <2>2, <2>3, <2>4, <2>5 DEF Marking
<1>7. CASE FinishJob(j) \/ FailJob(j)
  <2>1. PICK status \in {"completed", "failed"} :
           /\ job' = [job EXCEPT ![j].at = status, ![j].status = status]
           /\ status = "completed" => r0.at = "mark" /\ r0.left = {}
           /\ r0.at \in {"train", "convert", "evaluate", "mark"}
    BY <1>7 DEF FinishJob, FailJob, CanFail, End
  <2> DEFINE r == [r0 EXCEPT !.at = status, !.status = status]
  <2>2. r \in JobRecord
    BY <1>0 DEF JobRecord, JobLabel
  <2>3. job' = [job EXCEPT ![j] = r]
    BY <1>0, <2>1 DEF Inv, TypeOK, JobRecord
  <2>4. /\ r.status = status /\ r.at = status /\ r.name = r0.name /\ r.rows = r0.rows
        /\ r.left = r0.left /\ r.learned = r0.learned
    BY <1>0 DEF JobRecord
  <2>5. JobFits(r)
    <3> HIDE DEF r, r0
    <3> QED  BY <1>0, <2>1, <2>4 DEF JobFits, Ids, HasLearned, Marking
  <2> QED  BY <2>2, <2>3, <2>4, <2>5 DEF Marking
<1> QED  BY <1>2, <1>3, <1>4, <1>5, <1>6, <1>7 DEF JobStep

\* Requests leave the jobs alone, and a crash leaves them where they are.
LEMMA CrashShape ==
  ASSUME Inv, Crash, NEW j \in Job
  PROVE  /\ job' \in [Job -> JobRecord] /\ JobFits(job'[j])
         /\ job'[j].name = job[j].name /\ job'[j].rows = job[j].rows
         /\ job'[j].left = job[j].left /\ job'[j].learned = job[j].learned
         /\ job'[j].status = job[j].status
         /\ job[j].at \in Marking => job'[j].at \in Marking
         /\ job'[j].at # job[j].at => job'[j].at \in {"orphan", "gone"}
<1> DEFINE after(k) == IF job[k].at \in Working
                       THEN [job[k] EXCEPT !.at = IF @ = "convert" THEN "orphan" ELSE "gone"]
                       ELSE job[k]
<1>1. job' = [k \in Job |-> after(k)]
  BY DEF Crash
<1>2. ASSUME NEW k \in Job
      PROVE  /\ after(k) \in JobRecord
             /\ after(k).name = job[k].name /\ after(k).rows = job[k].rows
             /\ after(k).left = job[k].left /\ after(k).learned = job[k].learned
             /\ after(k).status = job[k].status
             /\ after(k).at = IF job[k].at \in Working
                              THEN IF job[k].at = "convert" THEN "orphan" ELSE "gone"
                              ELSE job[k].at
  BY DEF Inv, TypeOK, JobRecord, JobLabel
<1> HIDE DEF after
<1>3. job' \in [Job -> JobRecord] /\ job'[j] = after(j)
  BY <1>1, <1>2
<1>4. JobFits(job[j])
  BY DEF Inv, AllFit
<1>5. job[j].at \in Marking => after(j).at \in Marking
  BY <1>2 DEF Marking, Working
<1>6. JobFits(after(j))
  BY <1>2, <1>4 DEF JobFits, Ids, HasLearned, Working, Marking
<1> QED  BY <1>2, <1>3, <1>5, <1>6

LEMMA StepKeepsInv ==
  ASSUME Inv, [Next]_vars
  PROVE  Inv'
<1>0. StoreInv /\ TypeOK /\ AllFit
  BY DEF Inv
<1>1. CASE StoreNext /\ UNCHANGED jobVars
  <2>1. StoreInv'
    BY <1>0, <1>1, StoreNextKeepsInv
  <2> QED  BY <1>0, <1>1, <2>1 DEF Inv, TypeOK, AllFit, StoreInv, jobVars
<1>2. ASSUME NEW j \in Job, StartJob(j) \/ JobStep(j) \/ ConvertAlone(j)
      PROVE  Inv'
  <2>1. StoreInv'
    BY <1>2, JobsKeepStoreInv
  <2>2. PICK r \in JobRecord : job' = [job EXCEPT ![j] = r] /\ JobFits(r)
    BY <1>2, JobShape
  <2>3. job' \in [Job -> JobRecord] /\ AllFit'
    BY <1>0, <2>2 DEF TypeOK, AllFit
  <2>4. models' \in [ModelName -> Maybe(Job)]
    <3>1. models' = models \/ \E m \in Maybe(Job) : models' = [models EXCEPT ![job[j].name] = m]
      BY <1>2 DEF StartJob, JobStep, Train, RemoveModel, Convert, Evaluate, Mark, FinishJob,
                  FailJob, ConvertAlone, Maybe
    <3> QED  BY <1>0, <3>1 DEF TypeOK
  <2> QED  BY <2>1, <2>3, <2>4 DEF Inv, TypeOK, StoreInv
<1>3. CASE Crash
  <2>1. StoreInv'
    BY <1>3, CrashKeepsStoreInv
  <2>2. job' \in [Job -> JobRecord] /\ AllFit'
    <3>1. job' \in [Job -> JobRecord]
      BY <1>3, SMTT(60) DEF Crash, Inv, TypeOK, JobRecord, JobLabel
    <3>2. AllFit'
      BY <1>3, CrashShape DEF AllFit
    <3> QED  BY <3>1, <3>2
  <2>3. models' = models
    BY <1>3 DEF Crash
  <2> QED  BY <1>0, <2>1, <2>2, <2>3 DEF Inv, TypeOK, StoreInv
<1>4. CASE UNCHANGED vars
  <2>1. UNCHANGED storeVars /\ UNCHANGED jobVars
    BY <1>4 DEF vars, store, storeVars, jobVars
  <2>2. StoreInv'
    BY <1>0, <2>1, StoreUnchanged
  <2> QED  BY <1>0, <2>1, <2>2 DEF Inv, TypeOK, AllFit, StoreInv, jobVars
<1> QED  BY <1>1, <1>2, <1>3, <1>4 DEF Next

\* The rows, files, requests and jobs are what the code takes them for: no id of
\* a sample is given out beyond the corrections that were sent, and a request
\* carries what its next step reads.
THEOREM TypeCorrect == Spec => []TypeOK
<1>1. Init => Inv
  BY InitInv
<1>2. Inv /\ [Next]_vars => Inv'
  BY StepKeepsInv
<1>3. Inv => TypeOK
  BY DEF Inv
<1> QED  BY <1>1, <1>2, <1>3, PTL DEF Spec

-----------------------------------------------------------------------------
(* What a job has trained on. *)

\* A row's id is one that has been given out, and so is an id that a job read.
RowsAreOld == \A i \in Rows : i <= lastId
JobIdsAreOld == \A j \in Job : \A i \in Ids(job[j]) : i <= lastId

\* What a job has marked stays marked.
Settled ==
    \A j \in Job : job[j].at \in {"mark", "completed"}
        => \A i \in Ids(job[j]) \ job[j].left : i \notin RowsWith("queued")

TrainedInv == Inv /\ RowsAreOld /\ JobIdsAreOld /\ Settled /\ UsedIsFromAJob

\* A row is used or queued as before, is deleted, or is a new one, which is queued.
RowStep(i) ==
    \/ i \notin Rows'
    \/ i \in Rows /\ samples'[i].status = samples[i].status
    \/ i = lastId + 1 /\ i = lastId' /\ samples'[i].status = "queued"

LEMMA StoreStep ==
  ASSUME StoreInv, StoreNext
  PROVE  lastId' \in {lastId, lastId + 1} /\ \A i \in Id : RowStep(i)
<1>0. StoreTypeOK /\ Filled
  BY DEF StoreInv
<1> SUFFICES ASSUME NEW i \in Id
             PROVE  lastId' \in {lastId, lastId + 1} /\ RowStep(i)
  <2>1. lastId' \in {lastId, lastId + 1}
    BY DEF StoreNext, RequestStep, CreateGetCall, CreateCutClip, CreateCutClipFails,
           CreateSelect, CreateUpdate, CreateInsert, CreateInsertFails, CreateFetch, DeleteSelect,
           DeleteRow, BulkSelect, BulkDelete, Unlink, CallSelect, CallDelete, CallUnlinkAudio,
           RollBack, store
  <2> QED  BY <2>1
<1>1. PICK c \in Client :
         \/ CreateGetCall(c) \/ DeleteSelect(c) \/ BulkSelect(c) \/ CallSelect(c)
         \/ RequestStep(c)
  BY DEF StoreNext
<1>r. req[c] \in Request /\ Carries(pc[c], req[c])
  BY <1>0 DEF StoreTypeOK, Filled
<1>2. CASE CreateUpdate(c)
  <2> DEFINE k == req[c].id
  <2>1. /\ k \in Id /\ lastId' = lastId
        /\ samples' = [samples EXCEPT ![k] =
              IF @ = None THEN None
              ELSE [SampleOf(req[c]) EXCEPT !.status = samples[k].status]]
    BY <1>2, <1>r DEF CreateUpdate, Request, Maybe
  <2>2. SampleOf(req[c]).status = "queued" /\
        [SampleOf(req[c]) EXCEPT !.status = samples[k].status].status = samples[k].status
    BY DEF SampleOf
  <2>3. CASE i = k
    <3>1. samples'[i] = IF samples[k] = None THEN None
                        ELSE [SampleOf(req[c]) EXCEPT !.status = samples[k].status]
      BY <1>0, <2>1, <2>3 DEF StoreTypeOK
    <3> QED  BY <2>1, <2>2, <2>3, <3>1 DEF RowStep, Rows
  <2>4. CASE i # k
    <3>1. samples'[i] = samples[i]
      BY <1>0, <2>1, <2>4 DEF StoreTypeOK
    <3> QED  BY <2>1, <3>1 DEF RowStep, Rows
  <2> QED  BY <2>3, <2>4
<1>3. CASE CreateInsert(c)
  <2>1. lastId' = lastId + 1 /\ samples' = [samples EXCEPT ![lastId'] = SampleOf(req[c])]
    BY <1>3 DEF CreateInsert
  <2>2. SampleOf(req[c]).status = "queued"
    BY DEF SampleOf
  <2>3. CASE i = lastId'
    <3>1. samples'[i] = SampleOf(req[c])
      BY <1>0, <2>1, <2>3 DEF StoreTypeOK
    <3> QED  BY <2>1, <2>2, <2>3, <3>1 DEF RowStep
  <2>4. CASE i # lastId'
    <3>1. samples'[i] = samples[i]
      BY <1>0, <2>1, <2>4 DEF StoreTypeOK
    <3> QED  BY <2>1, <3>1 DEF RowStep, Rows
  <2> QED  BY <2>3, <2>4
<1>4. CASE DeleteRow(c) \/ BulkDelete(c) \/ CallDelete(c)
  <2>1. lastId' = lastId
    BY <1>4 DEF DeleteRow, BulkDelete, CallDelete
  <2>2. samples'[i] \in {None, samples[i]}
    BY <1>0, <1>4, <1>r DEF DeleteRow, BulkDelete, CallDelete, StoreTypeOK, Carries
  <2> QED  BY <2>1, <2>2 DEF RowStep, Rows
<1>5. CASE \/ CreateGetCall(c) \/ DeleteSelect(c) \/ BulkSelect(c) \/ CallSelect(c)
           \/ CreateCutClip(c) \/ CreateCutClipFails(c) \/ CreateSelect(c)
           \/ CreateInsertFails(c) \/ CreateFetch(c) \/ Unlink(c) \/ CallUnlinkAudio(c)
           \/ RollBack(c)
  <2>1. lastId' = lastId /\ samples' = samples
    BY <1>5 DEF CreateGetCall, CreateCutClip, CreateCutClipFails, CreateSelect, CreateInsertFails,
           CreateFetch, DeleteSelect, BulkSelect, Unlink, CallSelect, CallUnlinkAudio,
           RollBack, store
  <2> QED  BY <2>1 DEF RowStep, Rows
<1> QED  BY <1>1, <1>2, <1>3, <1>4, <1>5 DEF RequestStep

LEMMA InitTrainedInv == Init => TrainedInv
<1> SUFFICES ASSUME Init PROVE TrainedInv
  OBVIOUS
<1>1. Rows = {} /\ \A j \in Job : job[j] = NoJob
  BY DEF Init, StoreInit, Rows
<1>2. RowsAreOld /\ UsedIsFromAJob
  BY <1>1 DEF RowsAreOld, UsedIsFromAJob, RowsWith
<1>3. JobIdsAreOld /\ Settled
  BY <1>1 DEF JobIdsAreOld, Settled, Ids, NoJob
<1> QED  BY <1>2, <1>3, InitInv DEF TrainedInv

\* A request: what is used or queued was so before, or is new to every job.
LEMMA StoreKeepsTrained ==
  ASSUME TrainedInv, StoreNext, UNCHANGED jobVars, Inv'
  PROVE  TrainedInv'
<1>0. /\ Inv /\ RowsAreOld /\ JobIdsAreOld /\ Settled /\ UsedIsFromAJob
      /\ job' = job
  BY DEF TrainedInv, jobVars
<1>1. lastId \in Nat /\ lastId' \in {lastId, lastId + 1} /\ \A i \in Id : RowStep(i)
  BY <1>0, StoreStep DEF Inv, StoreInv, StoreTypeOK
<1>2. \A i \in Id : i \in Nat /\ (i \in Rows' => i \in Id)
  BY DEF Id
<1>3. RowsAreOld'
  <2> SUFFICES ASSUME NEW i \in Id, i \in Rows' PROVE i <= lastId'
    BY DEF RowsAreOld, Rows
  <2> QED  BY <1>0, <1>1, <1>2 DEF RowsAreOld, RowStep
<1>4. JobIdsAreOld'
  <2> SUFFICES ASSUME NEW j \in Job, NEW i \in Ids(job[j]) PROVE i <= lastId'
    BY <1>0 DEF JobIdsAreOld
  <2>1. i \in Id /\ i <= lastId
    BY <1>0 DEF JobIdsAreOld, Ids
  <2> QED  BY <1>1, <1>2, <2>1
<1>5. Settled'
  <2> SUFFICES ASSUME NEW j \in Job, job[j].at \in {"mark", "completed"},
                      NEW i \in Ids(job[j]) \ job[j].left, i \in RowsWith("queued")'
               PROVE  FALSE
    BY <1>0 DEF Settled
  <2>1. i \in Id /\ i <= lastId /\ i \notin RowsWith("queued")
    BY <1>0 DEF JobIdsAreOld, Settled, Ids
  <2>2. i \in Rows' /\ samples'[i].status = "queued"
    BY DEF RowsWith
  <2>3. i # lastId + 1
    BY <1>1, <1>2, <2>1
  <2> QED  BY <1>1, <2>1, <2>2, <2>3 DEF RowStep, RowsWith
<1>6. UsedIsFromAJob'
  <2> SUFFICES ASSUME NEW i \in Id, i \in RowsWith("used")'
               PROVE  i \in RowsWith("used")
    BY <1>0 DEF UsedIsFromAJob, RowsWith, Rows, IdsOf
  <2>1. i \in Rows' /\ samples'[i].status = "used"
    BY DEF RowsWith
  <2> QED  BY <1>1, <2>1 DEF RowStep, RowsWith
<1> QED  BY <1>3, <1>4, <1>5, <1>6 DEF TrainedInv

\* A job: it marks one id, which it has learned, or changes no row.
LEMMA JobRows ==
  ASSUME Inv, NEW j \in Job, StartJob(j) \/ JobStep(j) \/ ConvertAlone(j)
  PROVE  /\ lastId' = lastId /\ Rows' \subseteq Rows
         /\ \/ samples' = samples
            \/ /\ job[j].at = "mark"
               /\ \E i \in job[j].left :
                     /\ samples' = MarkUsed(i)
                     /\ job' = [job EXCEPT ![j].left = @ \ {i}]
                     /\ \A k \in Rows : samples'[k].status =
                                        IF k = i THEN "used" ELSE samples[k].status
<1>1. CASE Mark(j)
  <2>1. PICK i \in job[j].left :
           samples' = MarkUsed(i) /\ job' = [job EXCEPT ![j].left = @ \ {i}]
    BY <1>1 DEF Mark
  <2>2. i \in Id /\ samples \in [Id -> Maybe(Sample)]
    BY DEF Inv, TypeOK, JobRecord, StoreInv, StoreTypeOK
  <2>3. \A k \in Id : samples'[k] = IF k = i /\ samples[k] # None
                                   THEN [samples[k] EXCEPT !.status = "used"]
                                   ELSE samples[k]
    BY <2>1, <2>2 DEF MarkUsed
  <2>4. \A k \in Id : samples[k] # None => samples[k] \in Sample
    BY <2>2 DEF Maybe
  <2>5. \A k \in Id : samples[k] # None =>
           [samples[k] EXCEPT !.status = "used"].status = "used"
    BY <2>4 DEF Sample
  <2>6. Rows' \subseteq Rows /\ \A k \in Rows : samples'[k].status =
                                        IF k = i THEN "used" ELSE samples[k].status
    BY <2>3, <2>5 DEF Rows
  <2> QED  BY <1>1, <2>1, <2>6 DEF Mark
<1>2. CASE ~ Mark(j)
  <2>1. UNCHANGED storeVars
    BY <1>2 DEF StartJob, JobStep, ConvertAlone, Train, RemoveModel, Convert,
                Evaluate, FinishJob, FailJob
  <2> QED  BY <2>1 DEF storeVars, Rows
<1> QED  BY <1>1, <1>2

LEMMA JobsKeepTrained ==
  ASSUME TrainedInv, NEW j \in Job, StartJob(j) \/ JobStep(j) \/ ConvertAlone(j), Inv'
  PROVE  TrainedInv'
<1>0. Inv /\ RowsAreOld /\ JobIdsAreOld /\ Settled /\ UsedIsFromAJob
  BY DEF TrainedInv
<1>1. PICK r \in JobRecord :
         /\ job' = [job EXCEPT ![j] = r] /\ JobFits(r)
         /\ job[j].at # "none" => r.name = job[j].name /\ r.rows = job[j].rows
         /\ job[j].at \in Marking =>
               r.at \in Marking /\ r.left \subseteq job[j].left /\ r.learned = job[j].learned
  BY <1>0, JobShape
<1>2. job \in [Job -> JobRecord] /\ job'[j] = r /\ \A k \in Job \ {j} : job'[k] = job[k]
  BY <1>0, <1>1 DEF Inv, TypeOK
<1>3. /\ lastId' = lastId /\ Rows' \subseteq Rows
      /\ \/ samples' = samples
         \/ /\ job[j].at = "mark"
            /\ \E i \in job[j].left :
                  /\ job' = [job EXCEPT ![j].left = @ \ {i}]
                  /\ \A k \in Rows : samples'[k].status =
                                     IF k = i THEN "used" ELSE samples[k].status
  BY <1>0, JobRows
<1>4. RowsAreOld'
  BY <1>0, <1>3 DEF RowsAreOld
<1>5. JobIdsAreOld'
  <2> SUFFICES ASSUME NEW k \in Job, NEW i \in Ids(job'[k]) PROVE i <= lastId
    BY <1>3 DEF JobIdsAreOld
  <2>1. CASE StartJob(j) /\ k = j
    <3>1. \E ids \in SUBSET Rows :
             job'[j].rows = [n \in Id |-> IF n \in ids THEN samples[n] ELSE None]
      <4>1. PICK status \in {"queued", "used"}, include_used \in BOOLEAN, name \in ModelName :
           LET ids == RowsWith(status) \cup (IF include_used THEN RowsWith("used") ELSE {})
           IN  job' = [job EXCEPT ![j] =
                          [status |-> "running", at |-> "train", name |-> name,
                           rows |-> [n \in Id |-> IF n \in ids THEN samples[n] ELSE None],
                           left |-> ids, learned |-> {}]]
        BY <2>1 DEF StartJob
      <4> DEFINE ids == RowsWith(status) \cup (IF include_used THEN RowsWith("used") ELSE {})
      <4>2. ids \in SUBSET Rows
        BY DEF RowsWith
      <4>3. job'[j].rows = [n \in Id |-> IF n \in ids THEN samples[n] ELSE None]
        BY <1>2, <4>1
      <4> HIDE DEF ids
      <4> QED  BY <4>2, <4>3
    <3>2. i \in Rows
      BY <2>1, <3>1 DEF Ids, Rows
    <3> QED  BY <1>0, <3>2 DEF RowsAreOld
  <2>2. CASE ~ (StartJob(j) /\ k = j)
    <3>1. job'[k].rows = job[k].rows
      <4>1. CASE k # j
        BY <1>2, <4>1
      <4>2. CASE k = j
        <5>1. job[j].at # "none"
          BY <1>0, <2>2, <4>2 DEF JobStep, Train, RemoveModel, Convert, Evaluate, Mark, FinishJob,
                       FailJob, CanFail, ConvertAlone
        <5> QED  BY <1>1, <1>2, <4>2, <5>1
      <4> QED  BY <4>1, <4>2
    <3>2. i \in Ids(job[k])
      BY <3>1 DEF Ids
    <3> QED  BY <1>0, <3>2 DEF JobIdsAreOld
  <2> QED  BY <2>1, <2>2
<1>6. Settled'
  <2> SUFFICES ASSUME NEW k \in Job, job'[k].at \in {"mark", "completed"},
                      NEW i \in Ids(job'[k]) \ job'[k].left, i \in RowsWith("queued")'
               PROVE  FALSE
    BY DEF Settled
  <2>1. i \in Rows' /\ i \in Rows /\ samples'[i].status = "queued"
    BY <1>3 DEF RowsWith
  <2>2. i \in RowsWith("queued")
    BY <1>3, <2>1 DEF RowsWith
  <2>3. CASE k # j
    BY <1>0, <1>2, <2>2, <2>3 DEF Settled
  <2>4. CASE k = j
    <3>1. CASE job[j].at = "mark"
      <4>1. Mark(j) \/ FinishJob(j) \/ FailJob(j)
        BY <1>0, <3>1 DEF StartJob, JobStep, Train, RemoveModel, Convert, Evaluate, ConvertAlone,
                          Inv, AllFit, JobFits
      <4>2. CASE Mark(j)
        <5>1. PICK n \in job[j].left :
                 samples' = MarkUsed(n) /\ job' = [job EXCEPT ![j].left = @ \ {n}]
          BY <4>2 DEF Mark
        <5>2. n \in Id /\ samples \in [Id -> Maybe(Sample)]
          BY <1>0 DEF Inv, TypeOK, JobRecord, StoreInv, StoreTypeOK
        <5>3. n \in Rows => samples'[n].status = "used"
          BY <5>1, <5>2 DEF MarkUsed, Rows, Maybe, Sample
        <5>4. i # n
          BY <2>1, <5>3
        <5>5. job'[j].left = job[j].left \ {n} /\ job'[j].rows = job[j].rows
          BY <1>2, <5>1 DEF JobRecord
        <5>6. i \in Ids(job[j]) \ job[j].left
          BY <2>4, <5>4, <5>5 DEF Ids
        <5> QED  BY <1>0, <2>2, <3>1, <5>6 DEF Settled
      <4>3. CASE FinishJob(j) \/ FailJob(j)
        <5>1. job'[j].left = job[j].left /\ job'[j].rows = job[j].rows
          BY <1>2, <4>3 DEF FinishJob, FailJob, End, JobRecord
        <5>2. i \in Ids(job[j]) \ job[j].left
          BY <2>4, <5>1 DEF Ids
        <5> QED  BY <1>0, <2>2, <3>1, <5>2 DEF Settled
      <4> QED  BY <4>1, <4>2, <4>3
    <3>2. CASE job[j].at = "evaluate"
      <4>1. job'[j].left = job[j].left /\ job'[j].rows = job[j].rows
        BY <1>0, <1>2, <3>2 DEF StartJob, JobStep, Train, RemoveModel, Convert, Evaluate, ConvertAlone,
              Mark, FinishJob, FailJob, Advance, End, JobRecord, Inv, AllFit, JobFits
      <4>2. job[j].left = Ids(job[j])
        BY <1>0, <3>2 DEF Inv, AllFit, JobFits, Marking
      <4> QED  BY <2>4, <4>1, <4>2 DEF Ids
    <3>3. CASE job[j].at \notin {"mark", "evaluate"}
      BY <1>0, <1>2, <2>4, <3>3 DEF StartJob, JobStep, Train, RemoveModel, Convert, Evaluate,
              ConvertAlone, Mark, FinishJob, FailJob, CanFail, Advance, End, JobRecord, Inv, AllFit,
              JobFits
    <3> QED  BY <3>1, <3>2, <3>3
  <2> QED  BY <2>3, <2>4
<1>7. UsedIsFromAJob'
  <2> SUFFICES ASSUME NEW i \in RowsWith("used")'
               PROVE  \E k \in Job : /\ job'[k].at \in Marking
                                     /\ i \in Ids(job'[k]) \ job'[k].left
                                     /\ HasLearned(job'[k], i)
    BY DEF UsedIsFromAJob, IdsOf, Ids, HasLearned, Marking
  <2>1. i \in Rows /\ samples'[i].status = "used"
    BY <1>3 DEF RowsWith
  <2>2. CASE i \in RowsWith("used")
    <3>1. PICK k \in Job : /\ job[k].at \in Marking
                           /\ i \in Ids(job[k]) \ job[k].left /\ HasLearned(job[k], i)
      BY <1>0, <2>2 DEF UsedIsFromAJob, IdsOf, Ids, HasLearned, Marking
    <3>2. CASE k = j
      <4>1. /\ r.at \in Marking /\ r.left \subseteq job[j].left
            /\ r.learned = job[j].learned /\ r.rows = job[j].rows
        BY <1>1, <3>1, <3>2 DEF Marking
      <4> QED  BY <1>2, <3>1, <3>2, <4>1 DEF Ids, HasLearned
    <3>3. CASE k # j
      BY <1>2, <3>1, <3>3
    <3> QED  BY <3>2, <3>3
  <2>3. CASE i \notin RowsWith("used")
    <3>1. PICK n \in job[j].left :
             /\ job' = [job EXCEPT ![j].left = @ \ {n}]
             /\ \A m \in Rows : samples'[m].status = IF m = n THEN "used" ELSE samples[m].status
             /\ job[j].at = "mark"
      BY <1>3, <2>1, <2>3 DEF RowsWith
    <3>2. i = n
      BY <2>1, <2>3, <3>1 DEF RowsWith
    <3>3. /\ job'[j].left = job[j].left \ {n} /\ job'[j].at = "mark"
          /\ job'[j].rows = job[j].rows /\ job'[j].learned = job[j].learned
      BY <1>2, <3>1 DEF JobRecord
    <3>4. JobFits(job[j])
      BY <1>0 DEF Inv, AllFit
    <3>5. i \in Ids(job[j]) /\ HasLearned(job[j], i)
      BY <3>1, <3>2, <3>4 DEF JobFits
    <3>6. i \in Ids(job'[j]) \ job'[j].left /\ HasLearned(job'[j], i)
      BY <3>2, <3>3, <3>5 DEF Ids, HasLearned
    <3> QED  BY <3>3, <3>6 DEF Marking
  <2> QED  BY <2>2, <2>3
<1> QED  BY <1>4, <1>5, <1>6, <1>7 DEF TrainedInv

LEMMA TrainedStep ==
  ASSUME TrainedInv, [Next]_vars
  PROVE  TrainedInv'
<1>1. Inv /\ Inv'
  BY StepKeepsInv DEF TrainedInv
<1>2. CASE StoreNext /\ UNCHANGED jobVars
  BY <1>1, <1>2, StoreKeepsTrained
<1>3. CASE \E j \in Job : StartJob(j) \/ JobStep(j) \/ ConvertAlone(j)
  BY <1>1, <1>3, JobsKeepTrained
<1>4. CASE Crash
  <2>1. Rows' = Rows /\ lastId' = lastId /\ samples' = samples
    BY <1>4 DEF Crash, store, Rows
  <2>2. RowsAreOld'
    BY <2>1 DEF RowsAreOld, TrainedInv
  <2>3. ASSUME NEW j \in Job
        PROVE  /\ Ids(job'[j]) = Ids(job[j]) /\ job'[j].left = job[j].left
               /\ job'[j].learned = job[j].learned
               /\ job[j].at \in Marking => job'[j].at \in Marking
               /\ job'[j].at \in {"mark", "completed"} => job'[j].at = job[j].at
    BY <1>1, <1>4, CrashShape DEF Ids
  <2>4. JobIdsAreOld' /\ Settled'
    BY <2>1, <2>3 DEF JobIdsAreOld, Settled, RowsWith, TrainedInv
  <2>5. UsedIsFromAJob'
    <3> SUFFICES ASSUME NEW i \in RowsWith("used")
                 PROVE  \E k \in Job : /\ job'[k].at \in Marking
                                       /\ i \in Ids(job'[k]) \ job'[k].left
                                       /\ HasLearned(job'[k], i)
      BY <2>1 DEF UsedIsFromAJob, IdsOf, Ids, HasLearned, Marking, RowsWith
    <3>1. PICK k \in Job : /\ job[k].at \in Marking
                           /\ i \in Ids(job[k]) \ job[k].left /\ HasLearned(job[k], i)
      BY DEF TrainedInv, UsedIsFromAJob, IdsOf, Ids, HasLearned, Marking
    <3> QED  BY <2>3, <3>1 DEF HasLearned
  <2> QED  BY <1>1, <2>2, <2>4, <2>5 DEF TrainedInv
<1>5. CASE UNCHANGED vars
  BY <1>1, <1>5 DEF TrainedInv, RowsAreOld, JobIdsAreOld, Settled, UsedIsFromAJob, RowsWith, Rows,
                    IdsOf, Ids, vars, store
<1> QED  BY <1>2, <1>3, <1>4, <1>5 DEF Next

\* A sample is marked as used only by a job that had it in its list and trained on
\* it: a correction that arrives meanwhile stays queued, whatever the interleaving.
THEOREM UsedSamplesWereTrained == Spec => []UsedIsFromAJob
<1>1. TrainedInv => UsedIsFromAJob
  BY DEF TrainedInv
<1> QED  BY <1>1, InitTrainedInv, TrainedStep, PTL DEF Spec

\* When a job is completed none of its samples is queued, and none becomes so
\* afterwards: no request can put a sample back, because an UPDATE keeps the
\* status and an id is never given out again.
THEOREM CompletedJobsMarkAll == Spec => []CompletedMarksAll
<1>1. ASSUME TrainedInv PROVE CompletedMarksAll
  <2> SUFFICES ASSUME NEW j \in Job, job[j].status = "completed",
                      NEW i \in Ids(job[j]), i \in RowsWith("queued")
               PROVE  FALSE
    BY DEF CompletedMarksAll, IdsOf, Ids
  <2>1. job[j].at = "completed" /\ job[j].left = {}
    <3>1. JobFits(job[j])
      BY <1>1 DEF TrainedInv, Inv, AllFit
    <3> QED  BY <3>1 DEF JobFits
  <2> QED  BY <1>1, <2>1 DEF TrainedInv, Settled
<1> QED  BY <1>1, InitTrainedInv, TrainedStep, PTL DEF Spec

-----------------------------------------------------------------------------
(* The models. *)

\* From its conversion on a job has its model, or a job of the same name has put
\* its own there or is about to.
ModelKept ==
    \A j \in Job : job[j].at \in {"evaluate", "mark", "completed"} => HasModel(j)

LEMMA ModelStep ==
  ASSUME Inv, ModelKept, [Next]_vars
  PROVE  ModelKept'
<1> SUFFICES ASSUME NEW j \in Job, job'[j].at \in {"evaluate", "mark", "completed"}
             PROVE  HasModel(j)'
  BY DEF ModelKept
<1>0. job \in [Job -> JobRecord] /\ models \in [ModelName -> Maybe(Job)]
      /\ \A k \in Job : JobFits(job[k])
  BY DEF Inv, TypeOK, AllFit
<1>1. CASE UNCHANGED jobVars
  BY <1>1 DEF ModelKept, HasModel, jobVars
<1>2. CASE Crash
  <2>1. \A k \in Job : job'[k].name = job[k].name
    BY <1>2, CrashShape
  <2>2. job'[j].at = job[j].at
    BY <1>2, CrashShape
  <2>3. \A k \in Job : job[k].at \in {"convert", "orphan", "failed"}
                       => job'[k].at \in {"convert", "orphan", "failed"}
    BY <1>0, <1>2 DEF Crash, Working
  <2> QED  BY <1>2, <2>1, <2>2, <2>3 DEF ModelKept, HasModel, Crash
<1>3. ASSUME NEW i \in Job, StartJob(i) \/ JobStep(i) \/ ConvertAlone(i)
      PROVE  HasModel(j)'
  <2>1. PICK r \in JobRecord :
           /\ job' = [job EXCEPT ![i] = r] /\ JobFits(r)
           /\ job[i].at # "none" => r.name = job[i].name /\ r.rows = job[i].rows
           /\ job[i].at \in Marking =>
                 r.at \in Marking /\ r.left \subseteq job[i].left /\ r.learned = job[i].learned
    BY <1>3, JobShape
  <2>2. job'[i] = r /\ \A k \in Job \ {i} : job'[k] = job[k]
    BY <1>0, <2>1
  <2>3. job[j].at # "none" /\ job[j].at \in {"evaluate", "mark", "completed"} => HasModel(j)
    BY DEF ModelKept
  <2>4. \A k \in Job : job[k].at # "none" => job'[k].name = job[k].name /\ job[k].name \in ModelName
    BY <1>0, <2>1, <2>2 DEF JobFits
  <2>5. \A k \in Job : job[k].name \in ModelName => job[k].at # "none"
    BY <1>0, TrainingJobsAssumption DEF JobFits
  <2>6. ASSUME i # j, job[i].at # "none", NEW m \in {i, None},
               models' = [models EXCEPT ![job[i].name] = m],
               m = None => job'[i].at = "convert"
        PROVE  HasModel(j)'
    <3>1. job'[j] = job[j] /\ HasModel(j) /\ job[j].name \in ModelName
      BY <2>2, <2>3, <2>4, <2>6
    <3>2. CASE job[i].name = job[j].name
      <4>1. models'[job'[j].name] = m /\ job'[i].name = job'[j].name
        BY <1>0, <2>4, <2>6, <3>1, <3>2
      <4> QED  BY <2>6, <4>1 DEF HasModel
    <3>3. CASE job[i].name # job[j].name
      <4>1. models'[job'[j].name] = models[job[j].name]
        BY <1>0, <2>6, <3>1, <3>3
      <4>2. \A k \in Job : job[k].name = job[j].name => job'[k] = job[k]
        BY <2>2, <3>3
      <4> QED  BY <3>1, <4>1, <4>2 DEF HasModel
    <3> QED  BY <3>2, <3>3
  <2>7. CASE Convert(i) \/ ConvertAlone(i)
    <3>1. job[i].at # "none" /\ models' = [models EXCEPT ![job[i].name] = i]
      BY <2>7 DEF Convert, ConvertAlone
    <3>2. CASE i = j
      <4>1. models'[job'[j].name] = j
        BY <1>0, <2>4, <3>1, <3>2
      <4> QED  BY <4>1 DEF HasModel
    <3>3. CASE i # j
      <4>1. i # None
        BY TrainingJobsAssumption
      <4> QED  BY <2>6, <3>1, <3>3, <4>1
    <3> QED  BY <3>2, <3>3
  <2>8. CASE RemoveModel(i)
    <3>1. /\ job[i].at # "none" /\ models' = [models EXCEPT ![job[i].name] = None]
          /\ job'[i].at = "convert"
      BY <1>0, <2>8 DEF RemoveModel, Advance
    <3>2. i # j
      BY <3>1
    <3> QED  BY <2>6, <3>1, <3>2
  <2>9. CASE ~ Convert(i) /\ ~ ConvertAlone(i) /\ ~ RemoveModel(i)
    <3>1. models' = models
      BY <1>3, <2>9 DEF StartJob, JobStep, Train, Evaluate, Mark, FinishJob, FailJob
    <3>2. job[i].at \in {"convert", "orphan", "failed"} => job'[i].at = "failed"
      <4>1. SUFFICES ASSUME job[i].at \in {"convert", "orphan", "failed"} PROVE job'[i].at = "failed"
        OBVIOUS
      <4>2. job[i].status # "none"
        BY <1>0, <4>1 DEF JobFits
      <4>3. FailJob(i)
        BY <1>3, <2>9, <4>1, <4>2 DEF StartJob, JobStep, Train, Evaluate, Mark, FinishJob
      <4> QED  BY <1>0, <4>3 DEF FailJob, End, JobRecord
    <3>3. i = j => job[i].at \in {"evaluate", "mark"}
      BY <1>0, <1>3, <2>9 DEF StartJob, JobStep, Train, Evaluate, Mark, FinishJob, FailJob, Advance,
                              End, JobRecord
    <3>4. job[j].at \in {"evaluate", "mark", "completed"}
      BY <2>2, <3>3
    <3>5. HasModel(j) /\ job'[j].name = job[j].name /\ job[j].name \in ModelName
      BY <2>3, <2>4, <3>4
    <3>6. \A k \in Job : job[k].name = job[j].name => job'[k].name = job'[j].name
      BY <2>4, <2>5, <3>5
    <3>7. \A k \in Job : job[k].at \in {"convert", "orphan", "failed"}
                         => job'[k].at \in {"convert", "orphan", "failed"}
      BY <2>2, <3>2
    <3> QED  BY <3>1, <3>5, <3>6, <3>7 DEF HasModel
  <2> QED  BY <2>7, <2>8, <2>9
<1> QED  BY <1>1, <1>2, <1>3 DEF Next, vars, jobVars

\* A completed job has its own model under its name: neither another job nor the
\* converter that a stopped API left running has replaced or removed it, unless that job
\* has the same name.
THEOREM CompletedJobsKeepTheirModel == Spec => []CompletedHasItsModel
<1>1. Init => Inv /\ ModelKept
  <2> SUFFICES ASSUME Init PROVE Inv /\ ModelKept
    OBVIOUS
  <2>1. \A j \in Job : job[j].at = "none"
    BY DEF Init, NoJob
  <2> QED  BY <2>1, InitInv DEF ModelKept
<1>2. Inv /\ ModelKept /\ [Next]_vars => Inv' /\ ModelKept'
  BY StepKeepsInv, ModelStep
<1>3. Inv /\ ModelKept => CompletedHasItsModel
  <2> SUFFICES ASSUME Inv, ModelKept,
                      NEW j \in Job, job[j].status = "completed"
               PROVE  HasModel(j)
    BY DEF CompletedHasItsModel
  <2>1. job[j].at = "completed"
    BY DEF Inv, AllFit, JobFits
  <2> QED  BY <2>1 DEF ModelKept
<1> QED  BY <1>1, <1>2, <1>3, PTL DEF Spec

-----------------------------------------------------------------------------
(* What requests leave behind. *)

\* The audio of a deleted call is there only until the request that deleted the
\* call has removed it, or logged that it could not.
AudioOfCalls ==
    \A call \in audio \ (calls \cup warned) :
        \E c \in Client : pc[c] = "audio" /\ req[c].call = call

LEMMA StoreKeepsAudio ==
  ASSUME StoreInv, AudioOfCalls, StoreNext
  PROVE  AudioOfCalls'
<1>0. StoreTypeOK
  BY DEF StoreInv
<1>1. PICK c \in Client :
         \/ CreateGetCall(c) \/ DeleteSelect(c) \/ BulkSelect(c) \/ CallSelect(c)
         \/ RequestStep(c)
  BY DEF StoreNext
<1>2. ASSUME NEW d \in Client, d # c PROVE pc'[d] = pc[d] /\ req'[d] = req[d]
  <2>1. \E label, r : Goto(c, label, r)
    BY <1>1 DEF RequestStep, CreateGetCall, CreateCutClip, CreateCutClipFails,
           CreateSelect, CreateUpdate, CreateInsert, CreateInsertFails, CreateFetch, DeleteSelect,
           DeleteRow, BulkSelect, BulkDelete, Unlink, CallSelect, CallDelete, CallUnlinkAudio,
           RollBack, Respond
  <2> QED  BY <1>0, <1>2, <2>1 DEF Goto, StoreTypeOK
<1>3. CASE CallDelete(c)
  <2>1. /\ calls' = calls \ {req[c].call} /\ audio' = audio /\ warned' = warned
        /\ pc[c] = "call" /\ pc'[c] = "audio" /\ req'[c] = req[c]
    BY <1>0, <1>3 DEF CallDelete, Goto, StoreTypeOK
  <2> QED  BY <1>2, <2>1 DEF AudioOfCalls
<1>4. CASE CallUnlinkAudio(c)
  <2>1. /\ calls' = calls
        /\ \/ audio' = audio \ {req[c].call} /\ warned' = warned
           \/ audio' = audio /\ warned' = warned \cup {req[c].call}
    BY <1>4 DEF CallUnlinkAudio
  <2> QED  BY <1>2, <2>1 DEF AudioOfCalls
<1>5. CASE ~ CallDelete(c) /\ ~ CallUnlinkAudio(c)
  <2>1. pc[c] # "audio" /\ audio' = audio /\ calls' = calls /\ warned' = warned
    BY <1>1, <1>5 DEF RequestStep, CreateGetCall, CreateCutClip, CreateCutClipFails,
           CreateSelect, CreateUpdate, CreateInsert, CreateInsertFails, CreateFetch, DeleteSelect,
           DeleteRow, BulkSelect, BulkDelete, Unlink, CallSelect, RollBack, store
  <2> QED  BY <1>2, <2>1 DEF AudioOfCalls
<1> QED  BY <1>3, <1>4, <1>5

\* Between requests the audio of a deleted call is gone or the log names it, for any
\* number of deletions at a time and any failure of theirs, as long as the API
\* process is not stopped in the middle of one.
THEOREM DeletedCallsLeaveNoAudio ==
  ASSUME "crash" \notin JobFaults
  PROVE  Spec => []DeletedAudioIsGone
<1>1. Init => Inv /\ AudioOfCalls
  <2>1. Init => AudioOfCalls
    BY DEF Init, StoreInit, AudioOfCalls
  <2> QED  BY <2>1, InitInv
<1>2. Inv /\ AudioOfCalls /\ [Next]_vars => Inv' /\ AudioOfCalls'
  <2> SUFFICES ASSUME Inv, AudioOfCalls, [Next]_vars PROVE AudioOfCalls'
    BY StepKeepsInv
  <2>1. CASE StoreNext
    BY <2>1, StoreKeepsAudio DEF Inv
  <2>2. CASE \E j \in Job : StartJob(j) \/ JobStep(j) \/ ConvertAlone(j)
    <3>1. UNCHANGED <<calls, audio, warned, pc, req>>
      BY <2>2 DEF StartJob, JobStep, Train, RemoveModel, Convert, Evaluate, Mark, FinishJob,
                  FailJob, ConvertAlone, storeVars
    <3> QED  BY <3>1 DEF AudioOfCalls
  <2>3. CASE UNCHANGED vars
    BY <2>3 DEF AudioOfCalls, vars, store
  <2> QED  BY <2>1, <2>2, <2>3 DEF Next, Crash
<1>3. Inv /\ AudioOfCalls => DeletedAudioIsGone
  BY DEF AudioOfCalls, DeletedAudioIsGone, Quiet
<1> QED  BY <1>1, <1>2, <1>3, PTL DEF Spec

-----------------------------------------------------------------------------
(* How many samples of a segment are queued. *)

Alone == \A c \in Client : pc[c] \in Numbering => c \in Creators

\* No row has an id that is still to be given out, and a row that was found queued
\* is one of the segment that is corrected when it is written.
Fits ==
    /\ \A i \in Rows : i <= lastId
    /\ \A c \in Client : pc[c] = "write" /\ req[c].id # None =>
          /\ req[c].id <= lastId
          /\ req[c].id \in Rows => /\ samples[req[c].id].call = req[c].call
                                   /\ samples[req[c].id].seg = req[c].seg

\* The requests that found no queued sample of the segment and will insert one.
Inserting(call, seg) ==
    {c \in Client : /\ pc[c] = "write" /\ req[c].id = None
                    /\ req[c].call = call /\ req[c].seg = seg}

Room ==
    \A call \in Call, seg \in Segment :
        QueuedFor(call, seg) # {}
        => Cardinality(QueuedFor(call, seg)) + Cardinality(Inserting(call, seg))
              <= Cardinality(Creators)

QueueInv == Alone /\ Fits /\ Room

LEMMA QueuedIsFinite ==
  ASSUME NEW S \in SUBSET Id
  PROVE  IsFiniteSet(S) /\ Cardinality(S) \in Nat
<1>1. IsFiniteSet(Id)
  BY TrainingStoreAssumption, FS_Interval DEF Id
<1> QED  BY <1>1, FS_Subset, FS_CardinalityType

LEMMA InsertingIsFinite ==
  ASSUME NEW call, NEW seg, NEW S \in SUBSET Inserting(call, seg)
  PROVE  /\ Cardinality(S) \in Nat /\ Cardinality(Inserting(call, seg)) \in Nat
         /\ Cardinality(S) <= Cardinality(Inserting(call, seg))
BY CountIsNat, CountSubset DEF Inserting

\* A row is deleted, or stays the row of its segment and is not queued anew.
Narrowed(i) ==
    \/ i \notin Rows'
    \/ /\ i \in Rows
       /\ samples'[i].call = samples[i].call /\ samples'[i].seg = samples[i].seg
       /\ samples'[i].status \in {samples[i].status, "used"}

LEMMA NarrowedIsEnough ==
  ASSUME QueueInv, Alone', lastId' = lastId, \A i \in Id : Narrowed(i),
         \A c \in Client : pc'[c] = "write" => pc[c] = "write" /\ req'[c] = req[c]
  PROVE  QueueInv'
<1>0. Alone /\ Fits /\ Room
  BY DEF QueueInv
<1>1. ASSUME NEW i \in Rows'
      PROVE  /\ i \in Rows /\ samples'[i].call = samples[i].call
             /\ samples'[i].seg = samples[i].seg
             /\ samples'[i].status \in {samples[i].status, "used"}
  BY DEF Narrowed, Rows
<1>2. Fits'
  <2> SUFFICES ASSUME NEW c \in Client, pc'[c] = "write", req'[c].id # None
               PROVE  /\ req'[c].id <= lastId
                      /\ req'[c].id \in Rows' =>
                            /\ samples'[req'[c].id].call = req'[c].call
                            /\ samples'[req'[c].id].seg = req'[c].seg
    BY <1>0, <1>1 DEF Fits
  <2>1. pc[c] = "write" /\ req'[c] = req[c]
    OBVIOUS
  <2> QED  BY <1>0, <1>1, <2>1 DEF Fits
<1>3. Room'
  <2> SUFFICES ASSUME NEW call \in Call, NEW seg \in Segment, QueuedFor(call, seg)' # {}
               PROVE  Cardinality(QueuedFor(call, seg)') + Cardinality(Inserting(call, seg)')
                         <= Cardinality(Creators)
    BY DEF Room, Creators
  <2>1. QueuedFor(call, seg)' \in SUBSET QueuedFor(call, seg)
    BY <1>1 DEF QueuedFor, RowsWith
  <2>2. Inserting(call, seg)' \in SUBSET Inserting(call, seg)
    BY DEF Inserting
  <2>3. QueuedFor(call, seg) \in SUBSET Id
    BY DEF QueuedFor, RowsWith, Rows
  <2>4. /\ Cardinality(QueuedFor(call, seg)') <= Cardinality(QueuedFor(call, seg))
        /\ Cardinality(QueuedFor(call, seg)') \in Nat
        /\ Cardinality(QueuedFor(call, seg)) \in Nat
    BY <2>1, <2>3, QueuedIsFinite, FS_Subset
  <2>5. /\ Cardinality(Inserting(call, seg)') <= Cardinality(Inserting(call, seg))
        /\ Cardinality(Inserting(call, seg)') \in Nat
        /\ Cardinality(Inserting(call, seg)) \in Nat
    BY <2>2, InsertingIsFinite
  <2>6. Cardinality(QueuedFor(call, seg)) + Cardinality(Inserting(call, seg))
           <= Cardinality(Creators)
    BY <1>0, <2>1 DEF Room
  <2>7. Cardinality(Creators) \in Nat
    BY CountIsNat DEF Creators
  <2> QED  BY <2>4, <2>5, <2>6, <2>7
<1> QED  BY <1>2, <1>3 DEF QueueInv

\* The look-up: a request is counted as inserting only if it found nothing.
LEMMA SelectKeepsQueue ==
  ASSUME StoreInv, QueueInv, NEW c \in Client, CreateSelect(c), Alone'
  PROVE  QueueInv'
<1>0. StoreTypeOK /\ Alone /\ Fits /\ Room
  BY DEF StoreInv, QueueInv
<1>r. req[c] \in Request
  BY <1>0 DEF StoreTypeOK
<1> DEFINE same == IF req[c].seg = Full THEN {} ELSE QueuedFor(req[c].call, req[c].seg)
           id == IF same = {} THEN None ELSE CHOOSE i \in same : \A j \in same : j <= i
<1>1. /\ samples' = samples /\ lastId' = lastId
      /\ pc' = [pc EXCEPT ![c] = "write"] /\ req' = [req EXCEPT ![c] = [@ EXCEPT !.id = id]]
  BY <1>0 DEF CreateSelect, Goto, store
<1>2. same \in SUBSET Id
  BY DEF QueuedFor, RowsWith, Rows
<1>3. same # {} => id \in same
  <2> HIDE DEF same
  <2> QED  BY <1>2, NewestExists
<1> HIDE DEF id
<1>4. req'[c].id = id /\ req'[c].call = req[c].call /\ req'[c].seg = req[c].seg
  BY <1>0, <1>r, <1>1 DEF Request, StoreTypeOK
<1>5. \A d \in Client : d # c => pc'[d] = pc[d] /\ req'[d] = req[d]
  BY <1>0, <1>1 DEF StoreTypeOK
<1>6. same = {} => id = None
  BY DEF id
<1>7. same # {} => /\ id # None /\ id \in Rows /\ samples[id].call = req[c].call
                   /\ samples[id].seg = req[c].seg
  BY <1>2, <1>3, TrainingStoreAssumption DEF Id, QueuedFor, RowsWith
<1>8. Rows' = Rows /\ \A call, seg : QueuedFor(call, seg)' = QueuedFor(call, seg)
  BY <1>1 DEF QueuedFor, RowsWith, Rows
<1>9. Fits'
  <2> SUFFICES ASSUME NEW d \in Client, pc'[d] = "write", req'[d].id # None
               PROVE  /\ req'[d].id <= lastId
                      /\ req'[d].id \in Rows => /\ samples[req'[d].id].call = req'[d].call
                                                /\ samples[req'[d].id].seg = req'[d].seg
    BY <1>0, <1>1, <1>8 DEF Fits
  <2>1. CASE d = c
    BY <1>0, <1>4, <1>6, <1>7, <2>1 DEF Fits
  <2>2. CASE d # c
    BY <1>0, <1>5, <2>2 DEF Fits
  <2> QED  BY <2>1, <2>2
<1>10. Room'
  <2> SUFFICES ASSUME NEW call \in Call, NEW seg \in Segment, QueuedFor(call, seg) # {}
               PROVE  Cardinality(QueuedFor(call, seg)) + Cardinality(Inserting(call, seg)')
                         <= Cardinality(Creators)
    BY <1>8 DEF Room, Creators
  <2>1. c \notin Inserting(call, seg)'
    <3> SUFFICES ASSUME c \in Inserting(call, seg)' PROVE FALSE
      OBVIOUS
    <3>1. id = None /\ req[c].call = call /\ req[c].seg = seg
      BY <1>4 DEF Inserting
    <3>2. same # {}
      BY <3>1, TrainingStoreAssumption
    <3> QED  BY <1>7, <3>1, <3>2
  <2>2. Inserting(call, seg)' \in SUBSET Inserting(call, seg)
    BY <1>5, <2>1 DEF Inserting
  <2>3. /\ Cardinality(Inserting(call, seg)') <= Cardinality(Inserting(call, seg))
        /\ Cardinality(Inserting(call, seg)') \in Nat
        /\ Cardinality(Inserting(call, seg)) \in Nat
    BY <2>2, InsertingIsFinite
  <2>4. QueuedFor(call, seg) \in SUBSET Id
    BY DEF QueuedFor, RowsWith, Rows
  <2>5. Cardinality(QueuedFor(call, seg)) \in Nat /\ Cardinality(Creators) \in Nat
    BY <2>4, QueuedIsFinite, CountIsNat DEF Creators
  <2>6. Cardinality(QueuedFor(call, seg)) + Cardinality(Inserting(call, seg))
           <= Cardinality(Creators)
    BY <1>0 DEF Room
  <2> QED  BY <2>3, <2>5, <2>6
<1> QED  BY <1>9, <1>10 DEF QueueInv

\* The insert: one request less that will insert, one queued row more.
LEMMA InsertKeepsQueue ==
  ASSUME StoreInv, QueueInv, NEW c \in Client, CreateInsert(c), Alone'
  PROVE  QueueInv'
<1>0. StoreTypeOK /\ Alone /\ Fits /\ Room
  BY DEF StoreInv, QueueInv
<1>r. /\ req[c] \in Request /\ lastId \in Nat /\ \A i \in Id : i \in Nat
      /\ None \notin Id
  BY <1>0, TrainingStoreAssumption DEF StoreTypeOK, Id
<1>1. /\ pc[c] = "write" /\ req[c].id = None /\ lastId' = lastId + 1
      /\ samples' = [samples EXCEPT ![lastId'] = SampleOf(req[c])]
      /\ pc' = [pc EXCEPT ![c] = "fetch"]
      /\ req' = [req EXCEPT ![c] = [@ EXCEPT !.id = lastId']]
  BY DEF CreateInsert, Goto
<1>2. pc'[c] = "fetch" /\ \A d \in Client : d # c => pc'[d] = pc[d] /\ req'[d] = req[d]
  BY <1>0, <1>1 DEF StoreTypeOK
<1>3. /\ SampleOf(req[c]).call = req[c].call /\ SampleOf(req[c]).seg = req[c].seg
  BY DEF SampleOf
<1>4. ASSUME NEW i \in Rows'
      PROVE  \/ i = lastId' /\ samples'[i] = SampleOf(req[c])
             \/ i # lastId' /\ i \in Rows /\ samples'[i] = samples[i]
  BY <1>0, <1>1 DEF Rows, StoreTypeOK
<1>5. Fits'
  <2>1. \A i \in Rows' : i <= lastId'
    <3> SUFFICES ASSUME NEW i \in Rows' PROVE i <= lastId'
      OBVIOUS
    <3>1. i \in Nat
      BY <1>r DEF Rows
    <3>2. CASE i \in Rows
      <4>1. i <= lastId
        BY <1>0, <3>2 DEF Fits
      <4> QED  BY <1>r, <1>1, <3>1, <4>1
    <3> QED  BY <1>r, <1>1, <1>4, <3>1, <3>2
  <2>2. ASSUME NEW d \in Client, pc'[d] = "write", req'[d].id # None
        PROVE  /\ req'[d].id <= lastId'
               /\ req'[d].id \in Rows' => /\ samples'[req'[d].id].call = req'[d].call
                                          /\ samples'[req'[d].id].seg = req'[d].seg
    <3>1. d # c /\ pc[d] = "write" /\ req'[d] = req[d]
      BY <1>2, <2>2
    <3>2. req[d].id \in Nat
      BY <1>0, <1>r, <2>2, <3>1 DEF StoreTypeOK, Request, Maybe
    <3>3. req[d].id <= lastId
      BY <1>0, <2>2, <3>1 DEF Fits
    <3>4. req[d].id <= lastId' /\ req[d].id # lastId'
      BY <1>r, <1>1, <3>2, <3>3
    <3>5. req[d].id \in Rows' =>
             /\ req[d].id \in Rows /\ samples'[req[d].id] = samples[req[d].id]
      BY <1>4, <3>4
    <3> QED  BY <1>0, <2>2, <3>1, <3>4, <3>5 DEF Fits
  <2> QED  BY <2>1, <2>2 DEF Fits
<1>6. Room'
  <2> SUFFICES ASSUME NEW call \in Call, NEW seg \in Segment, QueuedFor(call, seg)' # {}
               PROVE  Cardinality(QueuedFor(call, seg)') + Cardinality(Inserting(call, seg)')
                         <= Cardinality(Creators)
    BY DEF Room, Creators
  <2> DEFINE Q == QueuedFor(call, seg)
             I == Inserting(call, seg)
             Q1 == QueuedFor(call, seg)'
             I1 == Inserting(call, seg)'
  <2>1. Q \in SUBSET Id /\ Q1 \in SUBSET Id
    BY DEF QueuedFor, RowsWith, Rows
  <2>2. /\ IsFiniteSet(Q) /\ Cardinality(Q) \in Nat
        /\ IsFiniteSet(Q1) /\ Cardinality(Q1) \in Nat
    BY <2>1, QueuedIsFinite
  <2>3. I \in SUBSET Creators /\ I1 \in SUBSET I
    BY <1>0, <1>2 DEF Inserting, Alone, Numbering
  <2>4. /\ Cardinality(Creators) \in Nat /\ Cardinality(I) \in Nat
        /\ Cardinality(I1) \in Nat /\ Cardinality(I1) <= Cardinality(I)
        /\ Cardinality(I) <= Cardinality(Creators)
    BY <2>3, InsertingIsFinite, CountIsNat, CountSubset DEF Creators
  <2>5. Q # {} => Cardinality(Q) + Cardinality(I) <= Cardinality(Creators)
    BY <1>0 DEF Room
  <2>6. CASE call = req[c].call /\ seg = req[c].seg
    <3>1. c \in I /\ I1 \in SUBSET (I \ {c}) /\ I \in SUBSET Client
      BY <1>1, <1>2, <2>6 DEF Inserting
    <3>2. Cardinality(I1) <= Cardinality(I) - 1
      BY <3>1, CountRemove
    <3>3. Q1 \subseteq Q \cup {lastId'}
      BY <1>4 DEF QueuedFor, RowsWith
    <3>4. /\ IsFiniteSet(Q \cup {lastId'})
          /\ Cardinality(Q \cup {lastId'}) <= Cardinality(Q) + 1
          /\ Cardinality(Q \cup {lastId'}) \in Nat
      <4> HIDE DEF Q
      <4>1. /\ IsFiniteSet(Q \cup {lastId'})
            /\ Cardinality(Q \cup {lastId'})
                  = IF lastId' \in Q THEN Cardinality(Q) ELSE Cardinality(Q) + 1
        BY <2>2, FS_AddElement
      <4> QED  BY <2>2, <4>1
    <3>5. Cardinality(Q1) <= Cardinality(Q) + 1
      <4>1. Cardinality(Q1) <= Cardinality(Q \cup {lastId'})
        BY <3>3, <3>4, FS_Subset
      <4> QED  BY <2>2, <3>4, <4>1
    <3>6. Q = {} => Cardinality(Q) = 0
      BY FS_EmptySet
    <3> HIDE DEF Q, I, Q1, I1
    <3>7. CASE Q = {}
      BY <2>2, <2>4, <3>2, <3>5, <3>6, <3>7 DEF Q1, I1
    <3>8. CASE Q # {}
      BY <2>2, <2>4, <2>5, <3>2, <3>5, <3>8 DEF Q1, I1
    <3> QED  BY <3>7, <3>8
  <2>7. CASE ~ (call = req[c].call /\ seg = req[c].seg)
    <3>1. Q1 \in SUBSET Q
      BY <1>3, <1>4, <2>7 DEF QueuedFor, RowsWith
    <3>2. Cardinality(Q1) <= Cardinality(Q)
      BY <2>2, <3>1, FS_Subset
    <3>3. Q # {}
      BY <3>1
    <3> HIDE DEF Q, I, Q1, I1
    <3> QED  BY <2>2, <2>4, <2>5, <3>2, <3>3 DEF Q1, I1
  <2> QED  BY <2>6, <2>7
<1> QED  BY <1>5, <1>6 DEF QueueInv

LEMMA StoreKeepsQueue ==
  ASSUME StoreInv, QueueInv, StoreNext
  PROVE  QueueInv'
<1>0. StoreTypeOK /\ Filled /\ Alone /\ Fits
  BY DEF StoreInv, QueueInv
<1>1. PICK c \in Client :
         \/ CreateGetCall(c) \/ DeleteSelect(c) \/ BulkSelect(c) \/ CallSelect(c)
         \/ RequestStep(c)
  BY DEF StoreNext
<1>r. req[c] \in Request /\ Carries(pc[c], req[c])
  BY <1>0 DEF StoreTypeOK, Filled
<1>2. \E label, r : Goto(c, label, r)
  BY <1>1 DEF RequestStep, CreateGetCall, CreateCutClip, CreateCutClipFails,
         CreateSelect, CreateUpdate, CreateInsert, CreateInsertFails, CreateFetch, DeleteSelect,
         DeleteRow, BulkSelect, BulkDelete, Unlink, CallSelect, CallDelete, CallUnlinkAudio,
         RollBack, Respond
<1>3. ASSUME NEW d \in Client, d # c PROVE pc'[d] = pc[d] /\ req'[d] = req[d]
  BY <1>0, <1>2, <1>3 DEF Goto, StoreTypeOK
<1>4. pc'[c] \in Numbering => c \in Creators
  <2>1. CASE CreateGetCall(c)
    BY <2>1 DEF CreateGetCall, Creators
  <2>2. CASE CreateCutClip(c) \/ CreateSelect(c)
    BY <1>0, <2>2 DEF CreateCutClip, CreateSelect, Alone, Numbering
  <2>3. CASE ~ (CreateGetCall(c) \/ CreateCutClip(c) \/ CreateSelect(c))
    <3>1. \E label \in {"idle", "fetch", "delete", "bulk", "unlink", "call", "audio"} : \E r :
             Goto(c, label, r)
      BY <1>1, <2>3 DEF RequestStep, CreateCutClipFails, CreateUpdate, CreateInsert,
         CreateInsertFails, CreateFetch, DeleteSelect, DeleteRow, BulkSelect, BulkDelete,
         Unlink, CallSelect, CallDelete, CallUnlinkAudio, RollBack, Respond
    <3>2. pc'[c] \in {"idle", "fetch", "delete", "bulk", "unlink", "call", "audio"}
      BY <1>0, <3>1 DEF Goto, StoreTypeOK
    <3> QED  BY <3>2 DEF Numbering
  <2> QED  BY <2>1, <2>2, <2>3
<1>5. Alone'
  BY <1>0, <1>3, <1>4 DEF Alone, Creators
<1>6. CASE CreateSelect(c)
  BY <1>5, <1>6, SelectKeepsQueue
<1>7. CASE CreateInsert(c)
  BY <1>5, <1>7, InsertKeepsQueue
<1>8. CASE ~ CreateSelect(c) /\ ~ CreateInsert(c)
  <2>1. pc'[c] # "write" /\ lastId' = lastId
    <3>1. \E label \in {"idle", "clip", "select", "fetch", "delete", "bulk", "unlink", "call",
                        "audio"} : \E r :
             Goto(c, label, r)
      BY <1>1, <1>8 DEF RequestStep, CreateGetCall, CreateCutClip, CreateCutClipFails, CreateUpdate,
         CreateInsertFails, CreateFetch, DeleteSelect, DeleteRow, BulkSelect, BulkDelete,
         Unlink, CallSelect, CallDelete, CallUnlinkAudio, RollBack, Respond
    <3>2. lastId' = lastId
      BY <1>1, <1>8 DEF RequestStep, CreateGetCall, CreateCutClip, CreateCutClipFails, CreateUpdate,
         CreateInsertFails, CreateFetch, DeleteSelect, DeleteRow, BulkSelect, BulkDelete,
         Unlink, CallSelect, CallDelete, CallUnlinkAudio, RollBack, store
    <3> QED  BY <1>0, <3>1, <3>2 DEF Goto, StoreTypeOK
  <2>2. ASSUME NEW i \in Id PROVE Narrowed(i)
    <3>1. CASE CreateUpdate(c)
      <4> DEFINE k == req[c].id
                 new == [SampleOf(req[c]) EXCEPT !.status = samples[k].status]
      <4>1. /\ pc[c] = "write" /\ k \in Id /\ k # None
            /\ samples' = [samples EXCEPT ![k] = IF @ = None THEN None ELSE new]
        BY <1>r, <3>1 DEF CreateUpdate, Request, Maybe
      <4>2. new.call = req[c].call /\ new.seg = req[c].seg /\ new.status = samples[k].status
        BY DEF SampleOf
      <4>3. k \in Rows => samples[k].call = req[c].call /\ samples[k].seg = req[c].seg
        BY <1>0, <4>1 DEF Fits
      <4> HIDE DEF new
      <4>4. CASE i = k
        <5>1. samples'[i] = IF samples[k] = None THEN None ELSE new
          BY <1>0, <4>1, <4>4 DEF StoreTypeOK
        <5> QED  BY <4>1, <4>2, <4>3, <4>4, <5>1 DEF Narrowed, Rows
      <4>5. CASE i # k
        <5>1. samples'[i] = samples[i]
          BY <1>0, <4>1, <4>5 DEF StoreTypeOK
        <5> QED  BY <5>1 DEF Narrowed, Rows
      <4> QED  BY <4>4, <4>5
    <3>2. CASE DeleteRow(c) \/ BulkDelete(c) \/ CallDelete(c)
      <4>1. samples'[i] \in {None, samples[i]}
        BY <1>0, <1>r, <3>2 DEF DeleteRow, BulkDelete, CallDelete, StoreTypeOK, Carries
      <4> QED  BY <4>1 DEF Narrowed, Rows
    <3>3. CASE ~ (CreateUpdate(c) \/ DeleteRow(c) \/ BulkDelete(c) \/ CallDelete(c))
      <4>1. samples' = samples
        BY <1>1, <1>8, <3>3 DEF RequestStep, CreateGetCall, CreateCutClip, CreateCutClipFails,
           CreateInsertFails, CreateFetch, DeleteSelect, BulkSelect, Unlink, CallSelect,
           CallUnlinkAudio, RollBack, store
      <4> QED  BY <4>1 DEF Narrowed, Rows
    <3> QED  BY <3>1, <3>2, <3>3
  <2>3. \A d \in Client : pc'[d] = "write" => pc[d] = "write" /\ req'[d] = req[d]
    BY <1>3, <2>1
  <2> QED  BY <1>5, <2>1, <2>2, <2>3, NarrowedIsEnough
<1> QED  BY <1>6, <1>7, <1>8

\* A segment never has more queued samples than corrections are handled at a time,
\* whatever is deleted, marked or interrupted between the look-up and the write:
\* every request that inserts one has found none.
THEOREM QueueIsBounded == Spec => []QueuedWithinCreators
<1>1. Init => Inv /\ QueueInv
  <2> SUFFICES ASSUME Init PROVE QueueInv
    BY InitInv
  <2>1. Rows = {} /\ \A c \in Client : pc[c] = "idle"
    BY DEF Init, StoreInit, Rows
  <2>2. \A call, seg : QueuedFor(call, seg) = {}
    BY <2>1 DEF QueuedFor, RowsWith
  <2> QED  BY <2>1, <2>2 DEF QueueInv, Alone, Fits, Room, Numbering
<1>2. Inv /\ QueueInv /\ [Next]_vars => Inv' /\ QueueInv'
  <2> SUFFICES ASSUME Inv, QueueInv, [Next]_vars PROVE QueueInv'
    BY StepKeepsInv
  <2>1. CASE StoreNext
    BY <2>1, StoreKeepsQueue DEF Inv
  <2>2. ASSUME NEW j \in Job, StartJob(j) \/ JobStep(j) \/ ConvertAlone(j)
        PROVE  QueueInv'
    <3>1. UNCHANGED <<pc, req, lastId>>
      BY <2>2 DEF StartJob, JobStep, Train, RemoveModel, Convert, Evaluate, Mark, FinishJob,
                  FailJob, ConvertAlone, storeVars
    <3>2. ASSUME NEW i \in Id PROVE Narrowed(i)
      <4>1. CASE Mark(j)
        <5>1. PICK n \in job[j].left : samples' = MarkUsed(n)
          BY <4>1 DEF Mark
        <5>2. n \in Id /\ samples \in [Id -> Maybe(Sample)]
          BY DEF Inv, TypeOK, JobRecord, StoreInv, StoreTypeOK
        <5>3. samples'[i] = IF i = n /\ samples[i] # None
                            THEN [samples[i] EXCEPT !.status = "used"] ELSE samples[i]
          BY <5>1, <5>2 DEF MarkUsed
        <5>4. samples[i] # None => samples[i] \in Sample
          BY <5>2 DEF Maybe
        <5> QED  BY <5>3, <5>4 DEF Narrowed, Rows, Sample
      <4>2. CASE ~ Mark(j)
        <5>1. samples' = samples
          BY <2>2, <4>2 DEF StartJob, JobStep, ConvertAlone, Train, RemoveModel, Convert,
                            Evaluate, FinishJob, FailJob, storeVars
        <5> QED  BY <5>1 DEF Narrowed, Rows
      <4> QED  BY <4>1, <4>2
    <3>3. Alone'
      BY <3>1 DEF QueueInv, Alone, Creators
    <3> QED  BY <3>1, <3>2, <3>3, NarrowedIsEnough
  <2>3. CASE Crash
    <3>1. samples' = samples /\ lastId' = lastId /\ \A c \in Client : pc'[c] = "idle"
      BY <2>3 DEF Crash, store
    <3>2. Alone' /\ \A i \in Id : Narrowed(i)
      BY <3>1 DEF Alone, Narrowed, Rows, Numbering
    <3> QED  BY <3>1, <3>2, NarrowedIsEnough
  <2>4. CASE UNCHANGED vars
    <3>1. UNCHANGED <<samples, lastId, pc, req>>
      BY <2>4 DEF vars, store
    <3>2. Alone' /\ \A i \in Id : Narrowed(i)
      BY <3>1 DEF QueueInv, Alone, Narrowed, Rows, Creators
    <3> QED  BY <3>1, <3>2, NarrowedIsEnough
  <2> QED  BY <2>1, <2>2, <2>3, <2>4 DEF Next
<1>3. Inv /\ QueueInv => QueuedWithinCreators
  <2> SUFFICES ASSUME QueueInv, NEW call \in Call, NEW seg \in Segment
               PROVE  Cardinality(QueuedFor(call, seg)) <= Cardinality(Creators)
    BY DEF QueuedWithinCreators
  <2>1. Cardinality(Creators) \in Nat /\ Cardinality(Inserting(call, seg)) \in Nat
    BY CountIsNat DEF Creators, Inserting
  <2>2. QueuedFor(call, seg) \in SUBSET Id
    BY DEF QueuedFor, RowsWith, Rows
  <2>3. Cardinality(QueuedFor(call, seg)) \in Nat
    BY <2>2, QueuedIsFinite
  <2>4. CASE QueuedFor(call, seg) = {}
    BY <2>1, <2>4, FS_EmptySet
  <2>5. CASE QueuedFor(call, seg) # {}
    BY <2>1, <2>3, <2>5 DEF QueueInv, Room
  <2> QED  BY <2>4, <2>5
<1> QED  BY <1>1, <1>2, <1>3, PTL DEF Spec
=============================================================================
