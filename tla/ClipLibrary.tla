----------------------------- MODULE ClipLibrary -----------------------------
(***************************************************************************)
(* The library of Clips: artifact files and their catalog rows             *)
(* (crates/openfrag-storage), the review and export rules                  *)
(* (crates/openfrag-clips), the repository and the mutation ports over     *)
(* them (crates/openfragd).                                                *)
(*                                                                         *)
(* A caller is a user of the repository: a ClipMutationPorts, whose mutex  *)
(* lets one operation through at a time, or whoever calls delete_clip.     *)
(* The daemon has one ClipMutationPorts; the revisions of the repository   *)
(* are there for several.  A caller loads a Clip and then acts on what it  *)
(* loaded.  The callers share one Storage behind a mutex, held by one call *)
(* at a time; the live runtime has a Storage of its own and stores         *)
(* captures meanwhile.  Every file operation and every committed statement *)
(* is a step of its own.                                                   *)
(* Storage is opened again after a crash, and by a second daemon on the    *)
(* same directory, which recovers before it finds the port taken.          *)
(*                                                                         *)
(* A file is represented by its content, which its name in the artifact    *)
(* tree is the hash of.                                                    *)
(***************************************************************************)
EXTENDS Naturals, Sequences

CONSTANTS
  Callers,     \* callers of the clip ports
  Live,        \* the live runtime, which stores captures
  Videos,      \* contents of captures
  Cut(_),      \* content a trim of a capture has: the same at every try
  None,
  MaxClips, MaxRevision, MaxExports, MaxFaults  \* bounds

ASSUME LibraryAssumption ==
  /\ Live \notin Callers /\ None \notin Callers /\ MaxRevision >= 1
  /\ \A v \in Videos : Cut(v) \notin Videos /\ Cut(v) # None

Actors == Callers \cup {Live}
Contents == Videos \cup {Cut(v) : v \in Videos}
Clips == 1..MaxClips

VARIABLES
  row,       \* [Contents -> availability of the artifact, "none" without a row]
  files,     \* contents in the artifact tree
  parts,     \* actors whose copy is in staging/
  cuts,      \* callers whose derivative is in staging/clip-derivatives/
  clips,     \* sequence of rows: [art, source, decision, revision, deleted, named]
  exported,  \* [Clips -> files of it in the exports directory]
  pc,        \* [Actors -> [at, clip, revision, art]]: what the actor is doing
  holder,    \* the caller inside a call of the shared Storage, or None
  opening,   \* how far an opening of Storage is
  faults,    \* failing statements and openings so far
  raced,     \* history: contents committed while their deletion ran
  stranded   \* history: contents of trims that failed behind their rename

store == <<row, files, parts, cuts, clips, exported>>
vars == <<store, pc, holder, opening, faults, raced, stranded>>

Idle == [at |-> "idle", clip |-> 0, revision |-> 0, art |-> None]

Init ==
  /\ row = [a \in Contents |-> "none"] /\ files = {} /\ parts = {} /\ cuts = {}
  /\ clips = <<>>
  /\ exported = [k \in Clips |-> 0]
  /\ pc = [a \in Actors |-> Idle]
  /\ holder = None /\ opening = "never" /\ faults = 0 /\ raced = {}
  /\ stranded = {}
-----------------------------------------------------------------------------
At(a, step) == pc[a].at = step
Goto(a, step) == pc' = [pc EXCEPT ![a].at = step]
Stop(a) == pc' = [pc EXCEPT ![a] = Idle]
Free == holder = None
Fault == faults < MaxFaults /\ faults' = faults + 1
Calm == UNCHANGED <<opening, faults, raced, stranded>>
Fails == Fault /\ UNCHANGED <<opening, raced, stranded>>

(* clip_artifact_file and safe_artifact_path: the catalog says present, the *)
(* file is there                                                            *)
ClipFile(k) == row[clips[k].art] = "present" /\ clips[k].art \in files

(* validate_durable_snapshot: only a review counts the revision up          *)
ValidSnapshot(clip) == (clip.decision = "pending") = (clip.revision = 0)

(* durable_clip_model: a Clip without its metadata, or whose file is not    *)
(* there, cannot be loaded                                                  *)
Loadable(k) ==
  /\ k \in DOMAIN clips /\ ~clips[k].deleted /\ clips[k].named
  /\ ClipFile(k) /\ ValidSnapshot(clips[k])

Load(c, k, step) ==
  /\ At(c, "idle") /\ Free /\ Loadable(k)
  /\ pc' = [pc EXCEPT ![c] = [at |-> step, clip |-> k, revision |-> clips[k].revision,
                              art |-> clips[k].art]]
  /\ UNCHANGED <<store, holder>> /\ Calm
-----------------------------------------------------------------------------
(* Review: review_clip and reject_clip refuse a rejected Clip.              *)
LoadToKeep(c, k) == clips[k].decision # "reject" /\ Load(c, k, "keep")
LoadToReject(c, k) == clips[k].decision # "reject" /\ Load(c, k, "reject")

SwapAnyRevision(k, revision) == ~clips[k].deleted  \* mutant: last writer wins

(* compare_and_swap_clip_review: the condition of its UPDATE                *)
CanSwap(k, revision) == ~clips[k].deleted /\ clips[k].revision = revision

Swap(c, decision) ==
  LET k == pc[c].clip
  IN /\ At(c, decision) /\ Free
     /\ clips' = IF CanSwap(k, pc[c].revision)
                 THEN [clips EXCEPT ![k].decision = decision, ![k].revision = @ + 1]
                 ELSE clips
     /\ Stop(c)
     /\ UNCHANGED <<row, files, parts, cuts, exported, holder>> /\ Calm
-----------------------------------------------------------------------------
(* Trim: prepare_derivative_and_review, then commit_derivative with the     *)
(* Storage held.                                                            *)
LoadToTrim(c, k) ==
  clips[k].decision # "reject" /\ clips[k].art \in Videos /\ Load(c, k, "transcode")

KeepDerivative(c) == cuts' = cuts  \* mutant: the derivative stays on an error

RemoveDerivative(c) == cuts' = cuts \ {c}

(* Every error of prepare_derivative_and_review removes what was written    *)
Abandon(c) == RemoveDerivative(c) /\ Stop(c) /\ Fails

(* ffmpeg writes a new file                                                 *)
Transcoded(c) == cuts' = cuts \cup {c}

(* create_staging_derivative                                                *)
Encode(c) ==
  /\ At(c, "transcode")
  /\ Transcoded(c) /\ Goto(c, "verify")
  /\ UNCHANGED <<row, files, parts, clips, exported, holder>> /\ Calm

(* run_process: ffmpeg fails, outlasts its timeout and is killed, or is     *)
(* cancelled; part of the file may be there                                 *)
EncodeStops(c) ==
  /\ At(c, "transcode") /\ Abandon(c)
  /\ UNCHANGED <<row, files, parts, clips, exported, holder>>

(* verify_staging_derivative: ffprobe reads what was written                *)
Verify(c) ==
  /\ At(c, "verify") /\ Goto(c, "promote")
  /\ UNCHANGED <<store, holder>> /\ Calm

(* ffprobe fails, or what it prints is not the derivative that was asked    *)
(* for                                                                      *)
VerifyRejects(c) ==
  /\ At(c, "verify") /\ Abandon(c)
  /\ UNCHANGED <<row, files, parts, clips, exported, holder>>

(* promote_without_overwrite and hash_and_size: a link under a free name,   *)
(* then the staging name goes                                               *)
Promote(c) ==
  /\ At(c, "promote")
  /\ \/ cuts' = cuts /\ Goto(c, "stage") /\ Calm
     \/ Abandon(c)
  /\ UNCHANGED <<row, files, parts, clips, exported, holder>>

FromAnyRevision(c) == TRUE  \* mutant: without source.revision != expected_revision

FromCurrent(c) == clips[pc[c].clip].revision = pc[c].revision

(* commit_derivative is refused: the prepared file goes, a staged copy      *)
(* stays until Storage is opened again                                      *)
Refuse(c) == RemoveDerivative(c) /\ Stop(c) /\ holder' = None

StageDerivative(c) ==
  LET k == pc[c].clip
  IN /\ At(c, "stage") /\ Free
     /\ \/ /\ Loadable(k) /\ FromCurrent(c)
           /\ parts' = parts \cup {c} /\ holder' = c
           /\ Goto(c, "place")
           /\ UNCHANGED cuts
        \/ ~(Loadable(k) /\ FromCurrent(c)) /\ Refuse(c) /\ parts' = parts
     /\ UNCHANGED <<row, files, clips, exported>> /\ Calm

(* commit_clip_derivative up to the rename.  A derivative is never shared:  *)
(* any row or file of its content is a conflict                             *)
CanPlace(c) ==
  LET d == Cut(pc[c].art)
  IN Loadable(pc[c].clip) /\ row[d] = "none" /\ d \notin files /\ c \in parts

PlaceDerivative(c) ==
  /\ At(c, "place")
  /\ \/ /\ CanPlace(c)
        /\ files' = files \cup {Cut(pc[c].art)} /\ parts' = parts \ {c}
        /\ Goto(c, "insert")
        /\ UNCHANGED <<cuts, holder>>
     \/ ~CanPlace(c) /\ Refuse(c) /\ UNCHANGED <<files, parts>>
  /\ UNCHANGED <<row, clips, exported>> /\ Calm

(* Its transaction; artifacts.sha256 is the primary key                     *)
InsertDerivative(c) ==
  LET d == Cut(pc[c].art)
  IN /\ At(c, "insert") /\ row[d] = "none" /\ Len(clips) < MaxClips
     /\ row' = [row EXCEPT ![d] = "present"]
     /\ clips' = Append(clips, [art |-> d, source |-> pc[c].clip, decision |-> "keep",
                                revision |-> 1, deleted |-> FALSE, named |-> TRUE])
     /\ Goto(c, "clean") /\ holder' = None
     /\ UNCHANGED <<files, parts, cuts, exported>> /\ Calm

RemoveTarget(c) == files' = files \ {Cut(pc[c].art)}

FailInsert(c) ==
  /\ At(c, "insert")
  /\ \/ row[Cut(pc[c].art)] # "none" /\ Calm
     \/ row[Cut(pc[c].art)] = "none" /\ Fails
  /\ RemoveTarget(c) /\ Refuse(c)
  /\ UNCHANGED <<row, parts, clips, exported>>

(* Its file is in place, and then its permissions, the sync of its          *)
(* directory or, after the transaction failed, its removal fails, too: the  *)
(* file stays, without a row                                                *)
StrandDerivative(c) ==
  LET d == Cut(pc[c].art)
  IN /\ (At(c, "place") /\ CanPlace(c)) \/ At(c, "insert")
     /\ files' = files \cup {d} /\ parts' = parts \ {c}
     /\ stranded' = stranded \cup {d}
     /\ Refuse(c)
     /\ Fault
     /\ UNCHANGED <<row, clips, exported, opening, raced>>

CleanDerivative(c) ==
  /\ At(c, "clean")
  /\ RemoveDerivative(c) /\ Stop(c)
  /\ UNCHANGED <<row, files, parts, clips, exported, holder>> /\ Calm
-----------------------------------------------------------------------------
(* Export: export_clip copies what the loaded Clip named.                   *)
LoadToExport(c, k) == clips[k].decision = "keep" /\ exported[k] < MaxExports /\ Load(c, k, "export")

(* atomic_copy links the finished copy to the first name that is free; the  *)
(* source may be gone by then                                               *)
Export(c) ==
  /\ At(c, "export")
  /\ exported' = [exported EXCEPT ![pc[c].clip] = @ + (IF pc[c].art \in files THEN 1 ELSE 0)]
  /\ Stop(c)
  /\ UNCHANGED <<row, files, parts, cuts, clips, holder>> /\ Calm
-----------------------------------------------------------------------------
(* Deletion: delete_clip.                                                   *)
OthersOf(k) == {j \in DOMAIN clips : j # k /\ clips[j].art = clips[k].art /\ ~clips[j].deleted}
Sharers(v) == {k \in DOMAIN clips : clips[k].art = v /\ ~clips[k].deleted}
Deleting(v) == \E c \in Callers : pc[c].at \in {"tombstone", "recount", "mark"} /\ pc[c].art = v
Storing(v) == pc[Live].at # "idle" /\ pc[Live].art = v

(* It remembers whether a file is to be removed: revision 1 stands for Some *)
Delete(c, k) ==
  LET v == clips[k].art
      last == OthersOf(k) = {}
  IN /\ At(c, "idle") /\ Free /\ ~clips[k].deleted
     /\ (last /\ row[v] = "present") => v \in files
     /\ pc' = [pc EXCEPT ![c] = [at |-> "tombstone", clip |-> k, art |-> v,
                                 revision |-> IF last /\ row[v] = "present" THEN 1 ELSE 0]]
     /\ holder' = c
     /\ raced' = IF Storing(v) THEN raced \cup {v} ELSE raced
     /\ UNCHANGED <<store, opening, faults, stranded>>

Tombstone(c) ==
  /\ At(c, "tombstone")
  /\ clips' = [clips EXCEPT ![pc[c].clip].deleted = TRUE]
  /\ Goto(c, "recount")
  /\ UNCHANGED <<row, files, parts, cuts, exported, holder>> /\ Calm

RemoveShared(c) ==  \* mutant: without the count of the remaining Clips
  /\ At(c, "recount")
  /\ files' = files \ {pc[c].art} /\ Goto(c, "mark")
  /\ UNCHANGED <<row, parts, cuts, clips, exported, holder>> /\ Calm

RemoveFile(c) ==
  LET v == pc[c].art
  IN /\ At(c, "recount")
     /\ \/ Sharers(v) # {} /\ files' = files /\ Stop(c) /\ holder' = None
        \/ /\ Sharers(v) = {}
           /\ files' = IF pc[c].revision = 1 THEN files \ {v} ELSE files
           /\ Goto(c, "mark") /\ UNCHANGED holder
     /\ UNCHANGED <<row, parts, cuts, clips, exported>> /\ Calm

MarkDeleted(c) ==
  /\ At(c, "mark")
  /\ \/ row' = [row EXCEPT ![pc[c].art] = "deleted"] /\ Calm
     \/ row' = row /\ Fails
  /\ Stop(c) /\ holder' = None
  /\ UNCHANGED <<files, parts, cuts, clips, exported>>
-----------------------------------------------------------------------------
(* A capture: stage_from_reader, commit_artifact, finalize_captured_clip    *)
(* and complete_clip_model_metadata, on the live runtime's Storage.         *)
StageCapture(v) ==
  /\ At(Live, "idle")
  /\ Len(clips) < MaxClips
  /\ pc' = [pc EXCEPT ![Live] = [Idle EXCEPT !.at = "commit", !.art = v]]
  /\ parts' = parts \cup {Live}
  /\ raced' = IF Deleting(v) THEN raced \cup {v} ELSE raced
  /\ UNCHANGED <<row, files, cuts, clips, exported, holder, opening, faults, stranded>>

(* A file of the same content is used again                                 *)
CommitFile ==
  LET v == pc[Live].art
  IN /\ At(Live, "commit")
     /\ \/ Live \in parts /\ files' = files \cup {v} /\ Goto(Live, "catalog")
        \/ Live \notin parts /\ files' = files /\ Stop(Live)
     /\ parts' = parts \ {Live}
     /\ UNCHANGED <<row, cuts, clips, exported, holder>> /\ Calm

CommitRow ==
  /\ At(Live, "catalog")
  /\ \/ row' = [row EXCEPT ![pc[Live].art] = "present"] /\ Goto(Live, "clip") /\ Calm
     \/ row' = row /\ Stop(Live) /\ Fails
  /\ UNCHANGED <<files, parts, cuts, clips, exported, holder>>

CreateClip ==
  LET v == pc[Live].art
  IN /\ At(Live, "clip")
     /\ \/ /\ row[v] = "present" /\ Len(clips) < MaxClips
           /\ clips' = Append(clips, [art |-> v, source |-> 0, decision |-> "pending",
                                      revision |-> 0, deleted |-> FALSE, named |-> FALSE])
           /\ pc' = [pc EXCEPT ![Live].at = "name", ![Live].clip = Len(clips) + 1]
        \/ row[v] # "present" /\ clips' = clips /\ Stop(Live)
     /\ UNCHANGED <<row, files, parts, cuts, exported, holder>> /\ Calm

NameClip ==
  LET k == pc[Live].clip
  IN /\ At(Live, "name")
     /\ \/ clips' = [clips EXCEPT ![k].named = @ \/ ~clips[k].deleted] /\ Calm
        \/ clips' = clips /\ Fails
     /\ Stop(Live)
     /\ UNCHANGED <<row, files, parts, cuts, exported, holder>>
-----------------------------------------------------------------------------
(* Opening Storage: recover_staging removes every file directly in          *)
(* staging/; clip-derivatives/ is a directory and stays as it is.           *)
OpenAfterCrash ==
  /\ pc' = [a \in Actors |-> Idle] /\ holder' = None
  /\ cuts' = IF cuts = {} THEN {} ELSE {None}

OpenBeside ==
  /\ UNCHANGED <<pc, holder, cuts>>

RecoverStaging ==
  /\ opening \in {"never", "done"} /\ (OpenAfterCrash \/ OpenBeside)
  /\ Fault
  /\ parts' = {} /\ opening' = "mark"
  /\ UNCHANGED <<row, files, clips, exported, raced, stranded>>

(* recover_artifacts: rows without their file, then files without their row *)
MarkMissing ==
  /\ opening = "mark" /\ opening' = "adopt"
  /\ row' = [a \in Contents |-> IF row[a] = "present" /\ a \notin files THEN "missing"
                                ELSE row[a]]
  /\ UNCHANGED <<files, parts, cuts, clips, exported, pc, holder, faults, raced, stranded>>

AdoptFiles ==
  /\ opening = "adopt" /\ opening' = "done"
  /\ row' = [a \in Contents |-> IF a \in files /\ row[a] \in {"none", "missing"}
                                THEN "present" ELSE row[a]]
  /\ UNCHANGED <<files, parts, cuts, clips, exported, pc, holder, faults, raced, stranded>>
-----------------------------------------------------------------------------
Review(c) ==
  \/ \E k \in DOMAIN clips :
       clips[k].revision < MaxRevision /\ (LoadToKeep(c, k) \/ LoadToReject(c, k))
  \/ Swap(c, "keep") \/ Swap(c, "reject")
Trim(c) ==
  \/ \E k \in DOMAIN clips : LoadToTrim(c, k)
  \/ Encode(c) \/ EncodeStops(c) \/ Verify(c) \/ VerifyRejects(c) \/ Promote(c)
  \/ StageDerivative(c) \/ PlaceDerivative(c)
  \/ InsertDerivative(c) \/ FailInsert(c) \/ StrandDerivative(c) \/ CleanDerivative(c)
ExportClip(c) == (\E k \in DOMAIN clips : LoadToExport(c, k)) \/ Export(c)
DeleteClip(c) ==
  (\E k \in DOMAIN clips : Delete(c, k)) \/ Tombstone(c) \/ RemoveFile(c) \/ MarkDeleted(c)
Capture == (\E v \in Videos : StageCapture(v)) \/ CommitFile \/ CommitRow \/ CreateClip \/ NameClip
Open == RecoverStaging \/ MarkMissing \/ AdoptFiles

Next ==
  \/ \E c \in Callers : Review(c) \/ Trim(c) \/ ExportClip(c) \/ DeleteClip(c)
  \/ Capture \/ Open

Spec == Init /\ [][Next]_vars
-----------------------------------------------------------------------------
(* A rejection is never taken back: of two reviews that started from the    *)
(* same revision the later is refused by compare_and_swap_clip_review       *)
RejectionIsFinal ==
  [][\A k \in DOMAIN clips : clips[k].decision = "reject" => clips'[k].decision = "reject"]_vars

(* commit_derivative: a derived Clip copies the title, the note and the     *)
(* tags loaded before the transcode, which takes up to two minutes; it is   *)
(* only made while they are still what the source's review says, and never  *)
(* of a Clip that was rejected or deleted meanwhile                         *)
TrimIsOfCurrentReview ==
  [][\A c \in Callers, n \in DOMAIN clips' \ DOMAIN clips :
       (At(c, "insert") /\ pc'[c].at = "clean") =>
         LET s == clips[clips'[n].source]
         IN s.decision # "reject" /\ ~s.deleted /\ s.revision = pc[c].revision]_vars

(* A Clip that is not deleted has its file, a row that says so and a review *)
(* its revision agrees with, whatever failed, was deleted beside it or was  *)
(* cut short by a crash: once it is named it can be loaded.  A content      *)
(* committed again during its deletion by the other connection is excepted  *)
LiveClipHasFile ==
  \A k \in DOMAIN clips : ~clips[k].deleted /\ clips[k].art \notin raced =>
    ClipFile(k) /\ (clips[k].named => Loadable(k))

(* A trim that fails leaves no derivative behind, and no content in the     *)
(* artifact tree without its Clip, which would refuse the same trim ever    *)
(* after - unless it was the file system that failed once the file was in   *)
(* its place; and a crash may                                               *)
FailedTrimLeavesNothing ==
  /\ \A c \in Callers : c \in cuts => pc[c].at \in {"verify", "promote", "stage", "place", "insert", "clean"}
  /\ opening = "never" => \A v \in Videos :
       Cut(v) \in files \ stranded =>
         \/ \E k \in DOMAIN clips : clips[k].art = Cut(v)
         \/ \E c \in Callers : At(c, "insert") /\ Cut(pc[c].art) = Cut(v)

=============================================================================
