-------------------------- MODULE ClipLibraryProofs --------------------------
(***************************************************************************)
(* Proofs about ClipLibrary, for any callers, captures and bounds.         *)
(*                                                                         *)
(* The invariant comes in parts.  ActorInv says what a caller in the       *)
(* middle of an operation knows of the Clip it loaded, and that the steps  *)
(* of commit_derivative and delete_clip hold the Storage.  ReviewInv keeps *)
(* what was loaded of the review apart from what the review is by now.     *)
(* FileInv follows a content through its commit and its removal.           *)
(***************************************************************************)
EXTENDS ClipLibrary, TLAPS

Availability == {"none", "present", "missing", "deleted"}

ClipRow == [art : Contents, source : Nat, decision : {"pending", "keep", "reject"},
            revision : Nat, deleted : BOOLEAN, named : BOOLEAN]

Trimming == {"transcode", "verify", "promote", "stage", "place", "insert", "clean"}
Reviewing == {"keep", "reject", "transcode", "verify", "promote", "stage", "place", "insert"}
Holding == {"place", "insert", "tombstone", "recount", "mark"}
Removing == {"tombstone", "recount", "mark"}
Capturing == {"commit", "catalog", "clip", "name"}

Stages == {"idle", "export"} \cup Reviewing \cup Trimming \cup Holding \cup Capturing

PcRow == [at : Stages, clip : Nat, revision : Nat, art : Contents \cup {None}]

Typed ==
  /\ row \in [Contents -> Availability]
  /\ clips \in Seq(ClipRow)
  /\ pc \in [Actors -> PcRow]

OfItsClip(c) == pc[c].clip \in DOMAIN clips /\ pc[c].art = clips[pc[c].clip].art

CallerOk(c) ==
  /\ pc[c].at # "idle" => OfItsClip(c)
  /\ pc[c].at \in Trimming => pc[c].art \in Videos
  /\ pc[c].at \in Holding => holder = c
  /\ pc[c].at \notin Capturing

LiveOk ==
  /\ pc[Live].at # "idle" => pc[Live].art \in Videos
  /\ pc[Live].at \in Capturing \cup {"idle"}
  /\ pc[Live].at = "name" => pc[Live].clip \in DOMAIN clips

ActorInv == LiveOk /\ \A c \in Callers : CallerOk(c)

(* Every Clip has a row of its artifact, and a review its revision agrees   *)
(* with                                                                     *)
ClipInv ==
  \A k \in DOMAIN clips : row[clips[k].art] # "none" /\ ValidSnapshot(clips[k])

(* What was loaded was not rejected, and is not newer than what is there    *)
Unrejected(c) ==
  LET clip == clips[pc[c].clip]
  IN pc[c].revision <= clip.revision /\ (pc[c].revision = clip.revision => clip.decision # "reject")

Unreviewed(c) ==
  ~clips[pc[c].clip].deleted /\ pc[c].revision = clips[pc[c].clip].revision

ReviewOk(c) ==
  /\ pc[c].at \in Reviewing => Unrejected(c)
  /\ pc[c].at \in {"place", "insert"} => Unreviewed(c)

ReviewInv == \A c \in Callers : ReviewOk(c)

Kept(k) == ~clips[k].deleted /\ clips[k].art \notin raced

RemovalOk(c) ==
  /\ pc[c].at = "insert" =>
       Cut(pc[c].art) \in files /\ \A k \in DOMAIN clips : clips[k].art # Cut(pc[c].art)
  /\ pc[c].at \in Removing /\ Storing(pc[c].art) => pc[c].art \in raced
  /\ pc[c].at = "mark" /\ pc[c].art \notin raced => Sharers(pc[c].art) = {}

StoringOk == pc[Live].at \in {"catalog", "clip"} => pc[Live].art \in files \cup raced

FileInv ==
  /\ \A k \in DOMAIN clips : Kept(k) => ClipFile(k)
  /\ \A c \in Callers : RemovalOk(c)
  /\ StoringOk

(* What every step of one actor leaves to the others: whoever holds the     *)
(* Storage keeps it, and the reviews are changed by nobody else meanwhile   *)
Others(a) == \A b \in Actors : b # a => pc'[b] = pc[b]

HolderStep(a) == holder' = holder \/ holder \in {None, a}

ClipsStep(a) ==
  \A j \in DOMAIN clips :
    /\ j \in DOMAIN clips'
    /\ clips'[j].art = clips[j].art
    /\ clips[j].revision <= clips'[j].revision
    /\ clips[j].revision = clips'[j].revision => clips'[j].decision = clips[j].decision
    /\ clips[j].deleted => clips'[j].deleted
    /\ holder \notin {None, a} =>
         clips'[j].revision = clips[j].revision /\ clips'[j].deleted = clips[j].deleted

RowStep == \A v \in Contents : row[v] # "none" => row'[v] # "none"

Steps(a) == Typed' /\ Others(a) /\ HolderStep(a) /\ ClipsStep(a) /\ RowStep /\ raced \subseteq raced'
-----------------------------------------------------------------------------
(* What a record that is replaced leaves of the others.                     *)
LEMMA Moved ==
  ASSUME pc \in [Actors -> PcRow], NEW a \in Actors, NEW r \in PcRow,
         pc' = [pc EXCEPT ![a] = r]
  PROVE  pc' \in [Actors -> PcRow] /\ pc'[a] = r /\ Others(a)
BY DEF Others

LEMMA IdleRow == Idle \in PcRow /\ Idle.at = "idle"
BY DEF Idle, PcRow, Stages

LEMMA Stopped ==
  ASSUME pc \in [Actors -> PcRow], NEW a \in Actors, Stop(a)
  PROVE  pc' \in [Actors -> PcRow] /\ pc'[a] = Idle /\ Others(a)
BY Moved, IdleRow DEF Stop

LEMMA Went ==
  ASSUME pc \in [Actors -> PcRow], NEW a \in Actors, NEW step \in Stages, Goto(a, step)
  PROVE  /\ pc' \in [Actors -> PcRow] /\ Others(a)
         /\ pc'[a].at = step /\ pc'[a].clip = pc[a].clip
         /\ pc'[a].revision = pc[a].revision /\ pc'[a].art = pc[a].art
<1> DEFINE r == [pc[a] EXCEPT !.at = step]
<1>1. pc[a] \in PcRow
  OBVIOUS
<1>2. /\ r \in PcRow /\ r.at = step /\ r.clip = pc[a].clip
      /\ r.revision = pc[a].revision /\ r.art = pc[a].art
  BY <1>1 DEF PcRow
<1>3. pc' = [pc EXCEPT ![a] = r]
  BY DEF Goto
<1> HIDE DEF r
<1> QED BY <1>2, <1>3, Moved

LEMMA Rewritten ==
  ASSUME clips \in Seq(ClipRow), NEW k \in DOMAIN clips, NEW r \in ClipRow,
         clips' = [clips EXCEPT ![k] = r]
  PROVE  /\ clips' \in Seq(ClipRow) /\ DOMAIN clips' = DOMAIN clips
         /\ clips'[k] = r /\ \A j \in DOMAIN clips : j # k => clips'[j] = clips[j]
OBVIOUS

LEMMA Appended ==
  ASSUME clips \in Seq(ClipRow), NEW r \in ClipRow, clips' = Append(clips, r)
  PROVE  /\ clips' \in Seq(ClipRow) /\ DOMAIN clips' = DOMAIN clips \cup {Len(clips) + 1}
         /\ Len(clips) + 1 \notin DOMAIN clips
         /\ clips'[Len(clips) + 1] = r /\ \A j \in DOMAIN clips : clips'[j] = clips[j]
OBVIOUS

LEMMA RowTyped ==
  ASSUME Typed, NEW k \in DOMAIN clips
  PROVE  clips[k] \in ClipRow /\ k \in Nat \ {0}
BY DEF Typed

(* A step that leaves Clips, rows and the history alone.                    *)
LEMMA Quiet ==
  ASSUME Typed, NEW a, pc' \in [Actors -> PcRow], Others(a), HolderStep(a),
         UNCHANGED <<row, clips, raced>>
  PROVE  Steps(a)
<1>1. \A j \in DOMAIN clips : clips[j].revision \in Nat
  BY RowTyped DEF ClipRow
<1> QED BY <1>1 DEF Steps, Typed, ClipsStep, RowStep
-----------------------------------------------------------------------------
(* One lemma per operation: what it does to its actor and to the tables,    *)
(* and that it is a step of its actor (Steps).                              *)
LEMMA LoadEffect ==
  ASSUME Typed, NEW c \in Callers, NEW k \in DOMAIN clips, NEW step \in Stages, Load(c, k, step)
  PROVE  /\ Steps(c) /\ UNCHANGED <<store, holder, opening, raced>>
         /\ pc[c].at = "idle" /\ ~clips[k].deleted
         /\ pc'[c] = [at |-> step, clip |-> k, revision |-> clips[k].revision, art |-> clips[k].art]
<1> DEFINE r == [at |-> step, clip |-> k, revision |-> clips[k].revision, art |-> clips[k].art]
<1>1. r \in PcRow
  BY RowTyped DEF PcRow, ClipRow
<1>2. pc' = [pc EXCEPT ![c] = r] /\ UNCHANGED <<store, holder, opening, raced>>
      /\ pc[c].at = "idle" /\ ~clips[k].deleted
  BY DEF Load, Calm, At, Loadable
<1>3. pc \in [Actors -> PcRow] /\ c \in Actors
  BY DEF Typed, Actors
<1> HIDE DEF r
<1>4. pc' \in [Actors -> PcRow] /\ pc'[c] = r /\ Others(c)
  BY <1>1, <1>2, <1>3, Moved
<1>5. Steps(c)
  BY <1>2, <1>4, Quiet DEF HolderStep, store
<1> QED BY <1>2, <1>4, <1>5 DEF r

LEMMA GoQuietly ==
  ASSUME Typed, NEW c \in Actors, NEW step \in Stages, Goto(c, step), HolderStep(c),
         UNCHANGED <<row, clips, raced>>
  PROVE  /\ Steps(c)
         /\ pc'[c].at = step /\ pc'[c].clip = pc[c].clip
         /\ pc'[c].revision = pc[c].revision /\ pc'[c].art = pc[c].art
<1>1. pc \in [Actors -> PcRow]
  BY DEF Typed
<1>2. /\ pc' \in [Actors -> PcRow] /\ Others(c)
      /\ pc'[c].at = step /\ pc'[c].clip = pc[c].clip
      /\ pc'[c].revision = pc[c].revision /\ pc'[c].art = pc[c].art
  BY <1>1, Went
<1> QED BY <1>2, Quiet

LEMMA StopQuietly ==
  ASSUME Typed, NEW c \in Actors, Stop(c), HolderStep(c), UNCHANGED <<row, clips, raced>>
  PROVE  Steps(c) /\ pc'[c] = Idle
<1>1. pc \in [Actors -> PcRow]
  BY DEF Typed
<1>2. pc' \in [Actors -> PcRow] /\ pc'[c] = Idle /\ Others(c)
  BY <1>1, Stopped
<1> QED BY <1>2, Quiet

LEMMA SwapEffect ==
  ASSUME Typed, ActorInv, ClipInv, NEW c \in Callers, NEW d \in {"keep", "reject"}, Swap(c, d)
  PROVE  /\ Steps(c) /\ ClipInv' /\ pc'[c] = Idle /\ pc[c].at = d
         /\ UNCHANGED <<row, files, parts, cuts, holder, opening, raced>>
         /\ DOMAIN clips' = DOMAIN clips
         /\ \A j \in DOMAIN clips :
              /\ clips'[j].deleted = clips[j].deleted /\ clips'[j].named = clips[j].named
              /\ \/ clips'[j].decision = clips[j].decision
                 \/ j = pc[c].clip /\ clips[j].revision = pc[c].revision
<1>1. /\ Stop(c) /\ pc[c].at = d /\ Free
      /\ UNCHANGED <<row, files, parts, cuts, holder, opening, raced>>
  BY DEF Swap, At, Calm
<1>2. pc \in [Actors -> PcRow] /\ c \in Actors /\ clips \in Seq(ClipRow)
  BY DEF Typed, Actors
<1>3. pc' \in [Actors -> PcRow] /\ pc'[c] = Idle /\ Others(c)
  BY <1>1, <1>2, Stopped
<1>4. PICK i \in DOMAIN clips : i = pc[c].clip
  BY <1>1 DEF ActorInv, CallerOk, OfItsClip
<1>5. CASE clips' = clips
  <2>1. Steps(c)
    BY <1>1, <1>2, <1>5, StopQuietly DEF HolderStep
  <2> QED BY <2>1, <1>1, <1>3, <1>5 DEF ClipInv, ValidSnapshot
<1>6. CASE clips' # clips
  <2> DEFINE n == clips[i].revision + 1
             s == [clips[i] EXCEPT !.decision = d, !.revision = n]
  <2>1. clips' = [clips EXCEPT ![i] = s] /\ clips[i].revision = pc[c].revision
    BY <1>4, <1>6 DEF Swap, CanSwap
  <2>2. clips[i] \in ClipRow /\ clips[i].revision \in Nat /\ n \in Nat /\ n = clips[i].revision + 1
    BY <1>4, RowTyped DEF ClipRow
  <2> HIDE DEF n
  <2>3. s.deleted = clips[i].deleted /\ s.named = clips[i].named
    BY <2>2 DEF ClipRow
  <2>4. s \in ClipRow /\ s.art = clips[i].art /\ s.decision = d /\ s.revision = n
    BY <2>2 DEF ClipRow
  <2> HIDE DEF s
  <2>5. /\ clips' \in Seq(ClipRow) /\ DOMAIN clips' = DOMAIN clips
        /\ clips'[i] = s /\ \A j \in DOMAIN clips : j # i => clips'[j] = clips[j]
    BY <1>2, <1>4, <2>1, <2>4, Rewritten
  <2>6. \A j \in DOMAIN clips :
          /\ clips'[j].art = clips[j].art /\ clips'[j].deleted = clips[j].deleted
          /\ clips'[j].named = clips[j].named
          /\ j # i => clips'[j].decision = clips[j].decision /\ clips'[j].revision = clips[j].revision
    BY <2>3, <2>4, <2>5
  <2>7. ClipsStep(c)
    <3> SUFFICES ASSUME NEW j \in DOMAIN clips
        PROVE  /\ clips[j].revision <= clips'[j].revision
               /\ clips[j].revision = clips'[j].revision => clips'[j].decision = clips[j].decision
      BY <1>1, <2>5, <2>6 DEF ClipsStep, Free
    <3>1. clips[j].revision \in Nat
      BY RowTyped DEF ClipRow
    <3> QED BY <3>1, <2>2, <2>4, <2>5
  <2>8. Steps(c)
    BY <1>1, <1>3, <2>5, <2>7 DEF Steps, Typed, HolderStep, RowStep
  <2>9. ClipInv'
    <3> SUFFICES ASSUME NEW j \in DOMAIN clips
        PROVE  row[clips[j].art] # "none" /\ ValidSnapshot(clips'[j])
      BY <1>1, <2>5, <2>6 DEF ClipInv
    <3>1. ValidSnapshot(clips[j]) /\ row[clips[j].art] # "none"
      BY DEF ClipInv
    <3>2. CASE j = i
      BY <3>1, <3>2, <2>2, <2>4, <2>5 DEF ValidSnapshot
    <3>3. CASE j # i
      BY <3>1, <3>3, <2>5
    <3> QED BY <3>2, <3>3
  <2> QED BY <1>1, <1>3, <1>4, <2>1, <2>5, <2>6, <2>8, <2>9
<1> QED BY <1>5, <1>6
-----------------------------------------------------------------------------
(* A Clip that is added, one that is edited without a review, and a row     *)
(* that changes: the shapes of what remains.                                *)
LEMMA AddClip ==
  ASSUME Typed, ClipInv, NEW a \in Actors, NEW r \in ClipRow, clips' = Append(clips, r),
         pc' \in [Actors -> PcRow], Others(a), HolderStep(a), raced' = raced,
         row' \in [Contents -> Availability], RowStep, row'[r.art] # "none", ValidSnapshot(r)
  PROVE  /\ Steps(a) /\ ClipInv'
         /\ DOMAIN clips' = DOMAIN clips \cup {Len(clips) + 1} /\ Len(clips) + 1 \notin DOMAIN clips
         /\ clips'[Len(clips) + 1] = r /\ \A j \in DOMAIN clips : clips'[j] = clips[j]
<1>1. clips \in Seq(ClipRow)
  BY DEF Typed
<1>2. /\ clips' \in Seq(ClipRow) /\ DOMAIN clips' = DOMAIN clips \cup {Len(clips) + 1}
      /\ Len(clips) + 1 \notin DOMAIN clips
      /\ clips'[Len(clips) + 1] = r /\ \A j \in DOMAIN clips : clips'[j] = clips[j]
  BY <1>1, Appended
<1>3. \A j \in DOMAIN clips : clips[j].revision \in Nat /\ clips[j].art \in Contents
  BY RowTyped DEF ClipRow
<1>4. ClipsStep(a)
  BY <1>2, <1>3 DEF ClipsStep
<1>5. Steps(a)
  BY <1>2, <1>4 DEF Steps, Typed
<1>6. ClipInv'
  <2> SUFFICES ASSUME NEW j \in DOMAIN clips'
      PROVE  row'[clips'[j].art] # "none" /\ ValidSnapshot(clips'[j])
    BY DEF ClipInv, ValidSnapshot
  <2>1. CASE j \in DOMAIN clips
    BY <2>1, <1>2, <1>3 DEF ClipInv, RowStep
  <2>2. CASE j = Len(clips) + 1
    BY <2>2, <1>2
  <2> QED BY <2>1, <2>2, <1>2
<1> QED BY <1>2, <1>5, <1>6

LEMMA EditClip ==
  ASSUME Typed, ClipInv, NEW a \in Actors, NEW k \in DOMAIN clips, NEW r \in ClipRow,
         clips' = [clips EXCEPT ![k] = r],
         r.art = clips[k].art, r.decision = clips[k].decision, r.revision = clips[k].revision,
         clips[k].deleted => r.deleted, holder = a \/ r.deleted = clips[k].deleted,
         pc' \in [Actors -> PcRow], Others(a), HolderStep(a), UNCHANGED <<row, raced>>
  PROVE  /\ Steps(a) /\ ClipInv' /\ DOMAIN clips' = DOMAIN clips
         /\ clips'[k] = r /\ \A j \in DOMAIN clips : j # k => clips'[j] = clips[j]
<1>1. clips \in Seq(ClipRow)
  BY DEF Typed
<1>2. /\ clips' \in Seq(ClipRow) /\ DOMAIN clips' = DOMAIN clips
      /\ clips'[k] = r /\ \A j \in DOMAIN clips : j # k => clips'[j] = clips[j]
  BY <1>1, Rewritten
<1>3. \A j \in DOMAIN clips : clips[j].revision \in Nat /\ clips[j].revision <= clips[j].revision
  BY RowTyped DEF ClipRow
<1>4. \A j \in DOMAIN clips :
        /\ clips'[j].art = clips[j].art /\ clips'[j].decision = clips[j].decision
        /\ clips'[j].revision = clips[j].revision
        /\ clips[j].deleted => clips'[j].deleted
        /\ holder # a => clips'[j].deleted = clips[j].deleted
  BY <1>2
<1>5. ClipsStep(a)
  BY <1>2, <1>3, <1>4 DEF ClipsStep
<1>6. Steps(a)
  BY <1>2, <1>5 DEF Steps, Typed, RowStep
<1>7. ClipInv'
  BY <1>2, <1>4 DEF ClipInv, ValidSnapshot
<1> QED BY <1>2, <1>6, <1>7

LEMMA RowMove ==
  ASSUME Typed, ClipInv, NEW a \in Actors, NEW v \in Contents, NEW x \in {"present", "deleted"},
         row' = [row EXCEPT ![v] = x],
         pc' \in [Actors -> PcRow], Others(a), HolderStep(a), UNCHANGED <<clips, raced>>
  PROVE  /\ Steps(a) /\ ClipInv' /\ row' \in [Contents -> Availability] /\ RowStep
         /\ row'[v] = x /\ \A u \in Contents : u # v => row'[u] = row[u]
<1>1. row' \in [Contents -> Availability] /\ row'[v] = x /\ \A u \in Contents : u # v => row'[u] = row[u]
  BY DEF Typed, Availability
<1>2. RowStep
  BY <1>1 DEF RowStep
<1>3. \A j \in DOMAIN clips : clips[j].revision \in Nat /\ clips[j].art \in Contents
  BY RowTyped DEF ClipRow
<1>4. ClipsStep(a)
  BY <1>3 DEF ClipsStep
<1>5. Steps(a)
  BY <1>1, <1>2, <1>4 DEF Steps, Typed
<1>6. ClipInv'
  BY <1>2, <1>3 DEF ClipInv, ValidSnapshot, RowStep
<1> QED BY <1>1, <1>2, <1>5, <1>6
-----------------------------------------------------------------------------
LEMMA CutTyped ==
  ASSUME NEW v \in Videos
  PROVE  v \in Contents /\ Cut(v) \in Contents /\ Cut(v) \notin Videos
BY LibraryAssumption DEF Contents

(* commit_derivative, up to its transaction: refused with the Storage       *)
(* released, or one step further with it held.                              *)
LEMMA StageEffect ==
  ASSUME Typed, NEW c \in Callers, StageDerivative(c)
  PROVE  /\ Steps(c) /\ pc[c].at = "stage" /\ UNCHANGED <<row, files, clips, raced, opening>>
         /\ \/ /\ pc'[c].at = "place" /\ pc'[c].clip = pc[c].clip
               /\ pc'[c].revision = pc[c].revision /\ pc'[c].art = pc[c].art
               /\ holder' = c /\ Loadable(pc[c].clip) /\ FromCurrent(c)
               /\ cuts' = cuts
            \/ pc'[c] = Idle /\ cuts' = cuts \ {c}
<1>1. /\ pc[c].at = "stage" /\ HolderStep(c) /\ c \in Actors /\ "place" \in Stages
      /\ UNCHANGED <<row, files, clips, raced, opening>>
  BY DEF StageDerivative, At, Free, HolderStep, Calm, Actors, Stages, Holding
<1>2. CASE /\ Goto(c, "place") /\ holder' = c /\ Loadable(pc[c].clip) /\ FromCurrent(c)
           /\ cuts' = cuts
  BY <1>1, <1>2, GoQuietly
<1>3. CASE Refuse(c)
  BY <1>1, <1>3, StopQuietly DEF Refuse, RemoveDerivative
<1> QED BY <1>2, <1>3 DEF StageDerivative

LEMMA PlaceEffect ==
  ASSUME Typed, ActorInv, NEW c \in Callers, PlaceDerivative(c)
  PROVE  /\ Steps(c) /\ pc[c].at = "place" /\ UNCHANGED <<row, clips, raced, opening>>
         /\ \/ /\ pc'[c].at = "insert" /\ pc'[c].clip = pc[c].clip
               /\ pc'[c].revision = pc[c].revision /\ pc'[c].art = pc[c].art
               /\ UNCHANGED <<holder, cuts>>
               /\ row[Cut(pc[c].art)] = "none" /\ files' = files \cup {Cut(pc[c].art)}
            \/ pc'[c] = Idle /\ files' = files /\ cuts' = cuts \ {c}
<1>1. /\ pc[c].at = "place" /\ c \in Actors /\ "insert" \in Stages
      /\ UNCHANGED <<row, clips, raced, opening>>
  BY DEF PlaceDerivative, At, Calm, Actors, Stages, Holding
<1>2. HolderStep(c)
  BY <1>1 DEF ActorInv, CallerOk, Holding, HolderStep
<1>3. CASE /\ Goto(c, "insert") /\ UNCHANGED <<holder, cuts>> /\ CanPlace(c)
           /\ files' = files \cup {Cut(pc[c].art)}
  BY <1>1, <1>2, <1>3, GoQuietly DEF CanPlace
<1>4. CASE Refuse(c) /\ files' = files
  BY <1>1, <1>2, <1>4, StopQuietly DEF Refuse, RemoveDerivative
<1> QED BY <1>3, <1>4 DEF PlaceDerivative
LEMMA InsertEffect ==
  ASSUME Typed, ActorInv, ClipInv, NEW c \in Callers, InsertDerivative(c)
  PROVE  /\ Steps(c) /\ ClipInv' /\ pc[c].at = "insert" /\ pc'[c].at = "clean"
         /\ pc'[c].clip = pc[c].clip /\ pc'[c].revision = pc[c].revision /\ pc'[c].art = pc[c].art
         /\ UNCHANGED <<files, cuts, raced, opening>>
         /\ DOMAIN clips' = DOMAIN clips \cup {Len(clips) + 1} /\ Len(clips) + 1 \notin DOMAIN clips
         /\ \A j \in DOMAIN clips : clips'[j] = clips[j]
         /\ clips'[Len(clips) + 1].art = Cut(pc[c].art)
         /\ clips'[Len(clips) + 1].source = pc[c].clip
         /\ row'[Cut(pc[c].art)] = "present"
         /\ \A v \in Contents : v # Cut(pc[c].art) => row'[v] = row[v]
<1> DEFINE d == Cut(pc[c].art)
           r == [art |-> d, source |-> pc[c].clip, decision |-> "keep",
                 revision |-> 1, deleted |-> FALSE, named |-> TRUE]
<1>1. /\ pc[c].at = "insert" /\ Goto(c, "clean") /\ c \in Actors /\ "clean" \in Stages
      /\ UNCHANGED <<files, cuts, raced, opening>>
      /\ row' = [row EXCEPT ![d] = "present"] /\ clips' = Append(clips, r)
  BY DEF InsertDerivative, At, Calm, Actors, Stages, Trimming
<1>2. pc[c].art \in Videos /\ holder = c
  BY <1>1 DEF ActorInv, CallerOk, Trimming, Holding
<1>3. d \in Contents
  BY <1>2, CutTyped
<1>4. HolderStep(c) /\ pc \in [Actors -> PcRow]
  BY <1>2 DEF HolderStep, Typed
<1>5. /\ pc' \in [Actors -> PcRow] /\ Others(c)
      /\ pc'[c].at = "clean" /\ pc'[c].clip = pc[c].clip
      /\ pc'[c].revision = pc[c].revision /\ pc'[c].art = pc[c].art
  BY <1>1, <1>4, Went
<1>6. pc[c].clip \in Nat
  BY <1>1, <1>4 DEF PcRow
<1>7. r \in ClipRow /\ r.art = d /\ r.source = pc[c].clip /\ ValidSnapshot(r)
  BY <1>3, <1>6 DEF ClipRow, ValidSnapshot
<1>8. /\ row' \in [Contents -> Availability] /\ row'[d] = "present"
      /\ \A v \in Contents : v # d => row'[v] = row[v]
  BY <1>1, <1>3 DEF Typed, Availability
<1>9. RowStep
  BY <1>8 DEF RowStep
<1> HIDE DEF r, d
<1>10. row'[r.art] # "none"
  BY <1>7, <1>8
<1>11. raced' = raced /\ clips' = Append(clips, r)
  BY <1>1
<1>12. /\ Steps(c) /\ ClipInv'
       /\ DOMAIN clips' = DOMAIN clips \cup {Len(clips) + 1} /\ Len(clips) + 1 \notin DOMAIN clips
       /\ clips'[Len(clips) + 1] = r /\ \A j \in DOMAIN clips : clips'[j] = clips[j]
  BY <1>1, <1>4, <1>5, <1>7, <1>8, <1>9, <1>10, <1>11, AddClip
<1> QED BY <1>1, <1>5, <1>7, <1>8, <1>12 DEF d

LEMMA FailInsertEffect ==
  ASSUME Typed, ActorInv, NEW c \in Callers, FailInsert(c)
  PROVE  /\ Steps(c) /\ pc[c].at = "insert" /\ pc'[c] = Idle
         /\ UNCHANGED <<row, clips, raced, opening>>
         /\ files' = files \ {Cut(pc[c].art)} /\ cuts' = cuts \ {c}
<1>1. /\ pc[c].at = "insert" /\ c \in Actors /\ Stop(c) /\ holder' = None
      /\ UNCHANGED <<row, clips, raced, opening>>
      /\ files' = files \ {Cut(pc[c].art)} /\ cuts' = cuts \ {c}
  BY DEF FailInsert, At, Calm, Fails, Actors, Refuse, RemoveTarget, RemoveDerivative
<1>2. HolderStep(c)
  BY <1>1 DEF ActorInv, CallerOk, Holding, HolderStep
<1> QED BY <1>1, <1>2, StopQuietly

LEMMA StrandEffect ==
  ASSUME Typed, ActorInv, NEW c \in Callers, StrandDerivative(c)
  PROVE  /\ Steps(c) /\ pc[c].at \in {"place", "insert"} /\ pc'[c] = Idle
         /\ UNCHANGED <<row, clips, raced, opening>>
         /\ files' = files \cup {Cut(pc[c].art)} /\ cuts' = cuts \ {c}
         /\ Cut(pc[c].art) \in stranded'
<1>1. /\ pc[c].at \in {"place", "insert"} /\ c \in Actors /\ Stop(c) /\ holder' = None
      /\ UNCHANGED <<row, clips, raced, opening>>
      /\ files' = files \cup {Cut(pc[c].art)} /\ cuts' = cuts \ {c}
      /\ Cut(pc[c].art) \in stranded'
  BY DEF StrandDerivative, At, Actors, Refuse, RemoveDerivative
<1>2. HolderStep(c)
  BY <1>1 DEF ActorInv, CallerOk, Holding, HolderStep
<1> QED BY <1>1, <1>2, StopQuietly

(* The steps of a trim before it takes the Storage, and the end of one      *)
Before == {"transcode", "verify", "promote"}

LEMMA PrepareEffect ==
  ASSUME Typed, NEW c \in Callers,
         \/ Encode(c) \/ EncodeStops(c) \/ Verify(c) \/ VerifyRejects(c) \/ Promote(c)
         \/ CleanDerivative(c)
  PROVE  /\ Steps(c) /\ UNCHANGED <<row, files, clips, raced, opening, holder>>
         /\ \/ /\ pc[c].at \in Before /\ pc'[c].at \in {"verify", "promote", "stage"}
               /\ pc'[c].clip = pc[c].clip
               /\ pc'[c].revision = pc[c].revision /\ pc'[c].art = pc[c].art
               /\ cuts' \in {cuts, cuts \cup {c}}
            \/ pc[c].at \in Before \cup {"clean"} /\ pc'[c] = Idle /\ cuts' = cuts \ {c}
<1>1. c \in Actors /\ {"verify", "promote", "stage"} \subseteq Stages
  BY DEF Actors, Stages, Trimming
<1>2. CASE Encode(c)
  <2>1. /\ Goto(c, "verify") /\ pc[c].at = "transcode" /\ cuts' = cuts \cup {c}
        /\ UNCHANGED <<row, files, clips, raced, opening, holder>>
    BY <1>2 DEF Encode, At, Transcoded, Calm
  <2> QED BY <1>1, <2>1, GoQuietly DEF HolderStep, Before
<1>3. CASE Verify(c)
  <2>1. /\ Goto(c, "promote") /\ pc[c].at = "verify" /\ cuts' = cuts
        /\ UNCHANGED <<row, files, clips, raced, opening, holder>>
    BY <1>3 DEF Verify, At, Calm, store
  <2> QED BY <1>1, <2>1, GoQuietly DEF HolderStep, Before
<1>4. CASE Promote(c) /\ Goto(c, "stage") /\ cuts' = cuts /\ Calm
  <2>1. pc[c].at = "promote" /\ UNCHANGED <<row, files, clips, raced, opening, holder>>
    BY <1>4 DEF Promote, At, Calm
  <2> QED BY <1>1, <1>4, <2>1, GoQuietly DEF HolderStep, Before
<1>5. CASE EncodeStops(c) \/ VerifyRejects(c) \/ (Promote(c) /\ Abandon(c)) \/ CleanDerivative(c)
  <2>1. /\ Stop(c) /\ pc[c].at \in Before \cup {"clean"} /\ cuts' = cuts \ {c}
        /\ UNCHANGED <<row, files, clips, raced, opening, holder>>
    BY <1>5 DEF EncodeStops, VerifyRejects, Promote, CleanDerivative, Abandon, RemoveDerivative,
                At, Calm, Fails, Before
  <2> QED BY <1>1, <2>1, StopQuietly DEF HolderStep
<1>6. Promote(c) => \/ Promote(c) /\ Goto(c, "stage") /\ cuts' = cuts /\ Calm
                    \/ Promote(c) /\ Abandon(c)
  BY DEF Promote
<1> QED BY <1>2, <1>3, <1>4, <1>5, <1>6

LEMMA ExportEffect ==
  ASSUME Typed, NEW c \in Callers, Export(c)
  PROVE  /\ Steps(c) /\ pc[c].at = "export" /\ pc'[c] = Idle
         /\ UNCHANGED <<row, files, cuts, clips, holder, raced, opening>>
<1>1. /\ c \in Actors /\ Stop(c) /\ pc[c].at = "export"
      /\ UNCHANGED <<row, files, cuts, clips, holder, raced, opening>>
  BY DEF Actors, Export, At, Calm
<1> QED BY <1>1, StopQuietly DEF HolderStep
-----------------------------------------------------------------------------
(* delete_clip                                                              *)
LEMMA DeleteEffect ==
  ASSUME Typed, NEW c \in Callers, NEW k \in DOMAIN clips, Delete(c, k)
  PROVE  /\ Steps(c) /\ pc[c].at = "idle" /\ holder' = c
         /\ UNCHANGED <<row, files, cuts, clips, opening>>
         /\ pc'[c].at = "tombstone" /\ pc'[c].clip = k /\ pc'[c].art = clips[k].art
         /\ Storing(clips[k].art) => clips[k].art \in raced'
<1> DEFINE v == clips[k].art
           n == IF OthersOf(k) = {} /\ row[v] = "present" THEN 1 ELSE 0
           r == [at |-> "tombstone", clip |-> k, art |-> v, revision |-> n]
<1>1. /\ pc[c].at = "idle" /\ Free /\ pc' = [pc EXCEPT ![c] = r] /\ holder' = c
      /\ UNCHANGED <<row, files, cuts, clips, opening>>
      /\ raced' = IF Storing(v) THEN raced \cup {v} ELSE raced
  BY DEF Delete, At, store
<1>2. n \in Nat
  OBVIOUS
<1>3. v \in Contents /\ k \in Nat /\ "tombstone" \in Stages
  BY RowTyped DEF ClipRow, Stages, Holding
<1>4. pc \in [Actors -> PcRow] /\ c \in Actors
  BY DEF Typed, Actors
<1> HIDE DEF n, v
<1>5. r \in PcRow /\ r.at = "tombstone" /\ r.clip = k /\ r.art = v
  BY <1>2, <1>3 DEF PcRow
<1> HIDE DEF r
<1>6. pc' \in [Actors -> PcRow] /\ pc'[c] = r /\ Others(c)
  BY <1>1, <1>4, <1>5, Moved
<1>7. raced \subseteq raced' /\ HolderStep(c)
  BY <1>1 DEF HolderStep, Free
<1>8. \A j \in DOMAIN clips : clips[j].revision \in Nat
  BY RowTyped DEF ClipRow
<1>9. Steps(c)
  BY <1>1, <1>6, <1>7, <1>8 DEF Steps, Typed, ClipsStep, RowStep
<1> QED BY <1>1, <1>5, <1>6, <1>9 DEF v
LEMMA Removes ==
  ASSUME ActorInv, NEW c \in Callers, pc[c].at \in Removing
  PROVE  /\ holder = c /\ HolderStep(c) /\ c \in Actors
         /\ pc[c].clip \in DOMAIN clips /\ pc[c].art = clips[pc[c].clip].art
BY DEF ActorInv, CallerOk, OfItsClip, Removing, Holding, HolderStep, Actors

LEMMA TombstoneEffect ==
  ASSUME Typed, ActorInv, ClipInv, NEW c \in Callers, Tombstone(c)
  PROVE  /\ Steps(c) /\ ClipInv' /\ pc[c].at = "tombstone" /\ pc'[c].at = "recount"
         /\ pc'[c].clip = pc[c].clip /\ pc'[c].art = pc[c].art
         /\ UNCHANGED <<row, files, cuts, holder, raced, opening>>
         /\ DOMAIN clips' = DOMAIN clips
         /\ \A j \in DOMAIN clips :
              /\ clips'[j].art = clips[j].art /\ clips'[j].decision = clips[j].decision
              /\ clips[j].deleted => clips'[j].deleted
              /\ clips'[j].named = clips[j].named
<1>1. /\ pc[c].at = "tombstone" /\ Goto(c, "recount") /\ "recount" \in Stages
      /\ UNCHANGED <<row, files, cuts, holder, raced, opening>>
      /\ clips' = [clips EXCEPT ![pc[c].clip].deleted = TRUE]
  BY DEF Tombstone, At, Calm, Stages, Holding
<1>2. holder = c /\ HolderStep(c) /\ c \in Actors /\ pc \in [Actors -> PcRow]
  BY <1>1, Removes DEF Removing, Typed
<1>3. PICK k \in DOMAIN clips : k = pc[c].clip
  BY <1>1, Removes DEF Removing
<1>4. /\ pc' \in [Actors -> PcRow] /\ Others(c)
      /\ pc'[c].at = "recount" /\ pc'[c].clip = pc[c].clip /\ pc'[c].art = pc[c].art
  BY <1>1, <1>2, Went
<1> DEFINE r == [clips[k] EXCEPT !.deleted = TRUE]
<1>5. clips' = [clips EXCEPT ![k] = r]
  BY <1>1, <1>3
<1>6. clips[k] \in ClipRow
  BY RowTyped
<1>7. /\ r \in ClipRow /\ r.art = clips[k].art /\ r.decision = clips[k].decision
      /\ r.revision = clips[k].revision
  BY <1>6 DEF ClipRow
<1>8. r.deleted /\ r.named = clips[k].named
  BY <1>6 DEF ClipRow
<1> HIDE DEF r
<1>9. /\ Steps(c) /\ ClipInv' /\ DOMAIN clips' = DOMAIN clips
      /\ clips'[k] = r /\ \A j \in DOMAIN clips : j # k => clips'[j] = clips[j]
  BY <1>1, <1>2, <1>4, <1>5, <1>7, <1>8, EditClip
<1>10. \A j \in DOMAIN clips :
         /\ clips'[j].art = clips[j].art /\ clips'[j].decision = clips[j].decision
         /\ clips[j].deleted => clips'[j].deleted
         /\ clips'[j].named = clips[j].named
  BY <1>7, <1>8, <1>9
<1> QED BY <1>1, <1>4, <1>9, <1>10

LEMMA RemoveEffect ==
  ASSUME Typed, ActorInv, NEW c \in Callers, RemoveFile(c)
  PROVE  /\ Steps(c) /\ pc[c].at = "recount" /\ UNCHANGED <<row, clips, cuts, raced, opening>>
         /\ \/ pc'[c] = Idle /\ files' = files
            \/ /\ pc'[c].at = "mark" /\ pc'[c].clip = pc[c].clip /\ pc'[c].art = pc[c].art
               /\ holder' = holder /\ Sharers(pc[c].art) = {}
               /\ files' \in {files, files \ {pc[c].art}}
<1>1. pc[c].at = "recount" /\ "mark" \in Stages /\ UNCHANGED <<row, clips, cuts, raced, opening>>
  BY DEF RemoveFile, At, Calm, Stages, Holding
<1>2. HolderStep(c) /\ c \in Actors
  BY <1>1, Removes DEF Removing
<1>3. CASE Stop(c) /\ files' = files
  BY <1>1, <1>2, <1>3, StopQuietly
<1>4. CASE /\ Goto(c, "mark") /\ holder' = holder /\ Sharers(pc[c].art) = {}
           /\ files' \in {files, files \ {pc[c].art}}
  BY <1>1, <1>2, <1>4, GoQuietly
<1> QED BY <1>3, <1>4 DEF RemoveFile

LEMMA MarkEffect ==
  ASSUME Typed, ActorInv, ClipInv, NEW c \in Callers, MarkDeleted(c)
  PROVE  /\ Steps(c) /\ ClipInv' /\ pc[c].at = "mark" /\ pc'[c] = Idle
         /\ UNCHANGED <<files, clips, cuts, raced, opening>>
         /\ \A v \in Contents : v # pc[c].art => row'[v] = row[v]
<1>1. /\ pc[c].at = "mark" /\ Stop(c) /\ UNCHANGED <<files, clips, cuts, raced, opening>>
      /\ row' = [row EXCEPT ![pc[c].art] = "deleted"] \/ row' = row
  BY DEF MarkDeleted, At, Calm, Fails
<1>2. HolderStep(c) /\ c \in Actors /\ pc \in [Actors -> PcRow]
  BY <1>1, Removes DEF Removing, Typed
<1>3. PICK v \in Contents : v = pc[c].art
  BY <1>1, Removes, RowTyped DEF Removing, ClipRow
<1>4. pc' \in [Actors -> PcRow] /\ pc'[c] = Idle /\ Others(c)
  BY <1>1, <1>2, Stopped
<1>5. CASE row' = [row EXCEPT ![pc[c].art] = "deleted"]
  <2>1. row' = [row EXCEPT ![v] = "deleted"]
    BY <1>3, <1>5
  <2>2. /\ Steps(c) /\ ClipInv' /\ \A u \in Contents : u # v => row'[u] = row[u]
    BY <1>1, <1>2, <1>4, <2>1, RowMove
  <2> QED BY <1>1, <1>3, <1>4, <2>2
<1>6. CASE row' = row
  <2>1. Steps(c)
    BY <1>1, <1>2, <1>4, <1>6, Quiet
  <2>2. ClipInv'
    BY <1>1, <1>6 DEF ClipInv, ValidSnapshot
  <2> QED BY <1>1, <1>4, <1>6, <2>1, <2>2
<1> QED BY <1>1, <1>5, <1>6
-----------------------------------------------------------------------------
(* The live runtime never holds the callers' Storage                        *)
LEMMA LiveActor == Live \in Actors /\ Capturing \subseteq Stages /\ "idle" \in Stages
BY DEF Actors, Stages

LEMMA StageCaptureEffect ==
  ASSUME Typed, NEW v \in Videos, StageCapture(v)
  PROVE  /\ Steps(Live) /\ pc[Live].at = "idle" /\ pc'[Live].at = "commit" /\ pc'[Live].art = v
         /\ UNCHANGED <<row, files, cuts, clips, holder, opening>>
         /\ Deleting(v) => v \in raced'
<1> DEFINE r == [Idle EXCEPT !.at = "commit", !.art = v]
<1>1. /\ pc[Live].at = "idle" /\ pc' = [pc EXCEPT ![Live] = r]
      /\ UNCHANGED <<row, files, cuts, clips, holder, opening>>
      /\ raced' = IF Deleting(v) THEN raced \cup {v} ELSE raced
  BY DEF StageCapture, At
<1>2. v \in Contents /\ "commit" \in Stages
  BY CutTyped, LiveActor DEF Capturing
<1>3. r \in PcRow /\ r.at = "commit" /\ r.art = v
  BY <1>2 DEF Idle, PcRow
<1> HIDE DEF r
<1>4. pc' \in [Actors -> PcRow] /\ pc'[Live] = r /\ Others(Live)
  BY <1>1, <1>3, LiveActor, Moved DEF Typed
<1>5. raced \subseteq raced'
  BY <1>1
<1>6. \A j \in DOMAIN clips : clips[j].revision \in Nat
  BY RowTyped DEF ClipRow
<1>7. Steps(Live)
  BY <1>1, <1>4, <1>5, <1>6 DEF Steps, Typed, ClipsStep, RowStep, HolderStep
<1> QED BY <1>1, <1>3, <1>4, <1>7

LEMMA CommitFileEffect ==
  ASSUME Typed, ActorInv, CommitFile
  PROVE  /\ Steps(Live) /\ pc[Live].at = "commit" /\ UNCHANGED <<row, clips, cuts, holder, raced, opening>>
         /\ pc[Live].art \in Videos
         /\ \/ /\ pc'[Live].at = "catalog" /\ pc'[Live].art = pc[Live].art
               /\ files' = files \cup {pc[Live].art}
            \/ pc'[Live] = Idle /\ files' = files
<1>1. pc[Live].at = "commit" /\ UNCHANGED <<row, clips, cuts, holder, raced, opening>>
  BY DEF CommitFile, At, Calm
<1>2. HolderStep(Live) /\ "catalog" \in Stages /\ pc[Live].art \in Videos
  BY <1>1, LiveActor DEF HolderStep, Capturing, ActorInv, LiveOk
<1>3. CASE Goto(Live, "catalog") /\ files' = files \cup {pc[Live].art}
  BY <1>1, <1>2, <1>3, GoQuietly, LiveActor
<1>4. CASE Stop(Live) /\ files' = files
  BY <1>1, <1>2, <1>4, StopQuietly, LiveActor
<1> QED BY <1>3, <1>4 DEF CommitFile

LEMMA CommitRowEffect ==
  ASSUME Typed, ActorInv, ClipInv, CommitRow
  PROVE  /\ Steps(Live) /\ ClipInv' /\ pc[Live].at = "catalog"
         /\ UNCHANGED <<files, clips, cuts, holder, raced, opening>>
         /\ pc[Live].art \in Videos
         /\ \/ /\ pc'[Live].at = "clip" /\ pc'[Live].art = pc[Live].art
            \/ pc'[Live] = Idle
         /\ \A v \in Contents : row'[v] \in {row[v], "present"}
<1>1. pc[Live].at = "catalog" /\ UNCHANGED <<files, clips, cuts, holder, raced, opening>>
  BY DEF CommitRow, At, Calm, Fails
<1>2. HolderStep(Live) /\ "clip" \in Stages /\ pc[Live].art \in Videos /\ pc \in [Actors -> PcRow]
  BY <1>1, LiveActor DEF HolderStep, Capturing, ActorInv, LiveOk, Typed
<1>3. PICK v \in Contents : v = pc[Live].art
  BY <1>2, CutTyped
<1>4. CASE row' = [row EXCEPT ![pc[Live].art] = "present"] /\ Goto(Live, "clip")
  <2>1. row' = [row EXCEPT ![v] = "present"]
    BY <1>3, <1>4
  <2>2. /\ pc' \in [Actors -> PcRow] /\ Others(Live)
        /\ pc'[Live].at = "clip" /\ pc'[Live].art = pc[Live].art
    BY <1>2, <1>4, Went, LiveActor
  <2>3. /\ Steps(Live) /\ ClipInv' /\ row'[v] = "present" /\ \A u \in Contents : u # v => row'[u] = row[u]
    BY <1>1, <1>2, <2>1, <2>2, RowMove, LiveActor
  <2> QED BY <1>1, <1>2, <2>2, <2>3
<1>5. CASE row' = row /\ Stop(Live)
  <2>1. Steps(Live) /\ pc'[Live] = Idle
    BY <1>1, <1>2, <1>5, StopQuietly, LiveActor
  <2>2. ClipInv'
    BY <1>1, <1>5 DEF ClipInv, ValidSnapshot
  <2> QED BY <1>1, <1>2, <1>5, <2>1, <2>2
<1> QED BY <1>4, <1>5 DEF CommitRow
LEMMA CreateEffect ==
  ASSUME Typed, ActorInv, ClipInv, CreateClip
  PROVE  /\ Steps(Live) /\ ClipInv' /\ pc[Live].at = "clip"
         /\ UNCHANGED <<row, files, cuts, holder, raced, opening>>
         /\ pc[Live].art \in Videos
         /\ \/ /\ pc'[Live].at = "name" /\ pc'[Live].clip = Len(clips) + 1
               /\ pc'[Live].art = pc[Live].art
               /\ DOMAIN clips' = DOMAIN clips \cup {Len(clips) + 1}
               /\ Len(clips) + 1 \notin DOMAIN clips
               /\ \A j \in DOMAIN clips : clips'[j] = clips[j]
               /\ clips'[Len(clips) + 1].art = pc[Live].art
               /\ row[pc[Live].art] = "present"
            \/ pc'[Live] = Idle /\ clips' = clips
<1>1. pc[Live].at = "clip" /\ UNCHANGED <<row, files, cuts, holder, raced, opening>>
  BY DEF CreateClip, At, Calm
<1>2. /\ HolderStep(Live) /\ "name" \in Stages /\ pc[Live].art \in Videos
      /\ pc \in [Actors -> PcRow] /\ row \in [Contents -> Availability] /\ clips \in Seq(ClipRow)
  BY <1>1, LiveActor DEF HolderStep, Capturing, ActorInv, LiveOk, Typed
<1>3. pc[Live].art \in Contents /\ pc[Live] \in PcRow /\ Len(clips) + 1 \in Nat
  <2>1. Len(clips) + 1 \in Nat
    BY <1>2
  <2> QED BY <1>2, <2>1, CutTyped, LiveActor
<1> DEFINE n == Len(clips) + 1
           p == [pc[Live] EXCEPT !.at = "name", !.clip = n]
           r == [art |-> pc[Live].art, source |-> 0, decision |-> "pending",
                 revision |-> 0, deleted |-> FALSE, named |-> FALSE]
<1>4. CASE /\ row[pc[Live].art] = "present" /\ clips' = Append(clips, r)
           /\ pc' = [pc EXCEPT ![Live].at = "name", ![Live].clip = n]
  <2>1. pc' = [pc EXCEPT ![Live] = p]
    BY <1>4
  <2> HIDE DEF n
  <2>2. p \in PcRow /\ p.at = "name" /\ p.clip = n /\ p.art = pc[Live].art
    BY <1>2, <1>3 DEF PcRow, n
  <2> HIDE DEF p
  <2>3. pc' \in [Actors -> PcRow] /\ pc'[Live] = p /\ Others(Live)
    BY <1>2, <2>1, <2>2, Moved, LiveActor
  <2>4. r \in ClipRow /\ r.art = pc[Live].art /\ ValidSnapshot(r)
    BY <1>3 DEF ClipRow, ValidSnapshot
  <2> HIDE DEF r
  <2>5. RowStep /\ row' \in [Contents -> Availability] /\ row'[r.art] # "none" /\ raced' = raced
        /\ clips' = Append(clips, r)
    BY <1>1, <1>2, <1>4, <2>4 DEF RowStep
  <2>6. /\ Steps(Live) /\ ClipInv'
        /\ DOMAIN clips' = DOMAIN clips \cup {Len(clips) + 1} /\ Len(clips) + 1 \notin DOMAIN clips
        /\ clips'[Len(clips) + 1] = r /\ \A j \in DOMAIN clips : clips'[j] = clips[j]
    BY <1>2, <2>3, <2>4, <2>5, AddClip, LiveActor
  <2> QED BY <1>1, <1>2, <1>4, <2>2, <2>3, <2>4, <2>6 DEF n
<1>5. CASE clips' = clips /\ Stop(Live)
  <2>1. Steps(Live) /\ pc'[Live] = Idle
    BY <1>1, <1>2, <1>5, StopQuietly, LiveActor
  <2>2. ClipInv'
    BY <1>1, <1>5 DEF ClipInv, ValidSnapshot
  <2> QED BY <1>1, <1>2, <1>5, <2>1, <2>2
<1> QED BY <1>4, <1>5 DEF CreateClip

LEMMA NameEffect ==
  ASSUME Typed, ActorInv, ClipInv, NameClip
  PROVE  /\ Steps(Live) /\ ClipInv' /\ pc[Live].at = "name" /\ pc'[Live] = Idle
         /\ UNCHANGED <<row, files, cuts, holder, raced, opening>>
         /\ DOMAIN clips' = DOMAIN clips
         /\ \A j \in DOMAIN clips :
              clips'[j].art = clips[j].art /\ clips'[j].deleted = clips[j].deleted
              /\ clips'[j].decision = clips[j].decision
<1>1. /\ pc[Live].at = "name" /\ Stop(Live)
      /\ UNCHANGED <<row, files, cuts, holder, raced, opening>>
  BY DEF NameClip, At, Calm, Fails
<1>2. HolderStep(Live) /\ pc \in [Actors -> PcRow]
  BY <1>1 DEF HolderStep, Typed
<1>3. PICK k \in DOMAIN clips : k = pc[Live].clip
  BY <1>1 DEF ActorInv, LiveOk
<1>4. pc' \in [Actors -> PcRow] /\ pc'[Live] = Idle /\ Others(Live)
  BY <1>1, <1>2, Stopped, LiveActor
<1>5. CASE clips' = [clips EXCEPT ![pc[Live].clip].named = @ \/ ~clips[pc[Live].clip].deleted]
  <2> DEFINE b == clips[k].named \/ ~clips[k].deleted
             r == [clips[k] EXCEPT !.named = b]
  <2>1. clips' = [clips EXCEPT ![k] = r]
    BY <1>3, <1>5
  <2>2. clips[k] \in ClipRow /\ b \in BOOLEAN
    BY RowTyped
  <2> HIDE DEF b
  <2>3. /\ r \in ClipRow /\ r.art = clips[k].art /\ r.decision = clips[k].decision
        /\ r.revision = clips[k].revision
    BY <2>2 DEF ClipRow
  <2>4. r.deleted = clips[k].deleted
    BY <2>2 DEF ClipRow
  <2> HIDE DEF r
  <2>5. /\ Steps(Live) /\ ClipInv' /\ DOMAIN clips' = DOMAIN clips
        /\ clips'[k] = r /\ \A j \in DOMAIN clips : j # k => clips'[j] = clips[j]
    BY <1>1, <1>2, <1>4, <2>1, <2>3, <2>4, EditClip, LiveActor
  <2>6. \A j \in DOMAIN clips :
          clips'[j].art = clips[j].art /\ clips'[j].deleted = clips[j].deleted
          /\ clips'[j].decision = clips[j].decision
    BY <2>3, <2>4, <2>5
  <2> QED BY <1>1, <1>4, <2>5, <2>6
<1>6. CASE clips' = clips
  <2>1. Steps(Live)
    BY <1>1, <1>2, <1>6, StopQuietly, LiveActor
  <2>2. ClipInv'
    BY <1>1, <1>6 DEF ClipInv, ValidSnapshot
  <2> QED BY <1>1, <1>4, <1>6, <2>1, <2>2
<1> QED BY <1>5, <1>6 DEF NameClip

(* An opening of the Storage leaves the Clips alone, and either every actor *)
(* is at work still or none is; a row it changes was wrong                  *)
LEMMA OpenEffect ==
  ASSUME Typed, Open
  PROVE  /\ Typed' /\ UNCHANGED <<files, clips, raced>> /\ RowStep
         /\ \/ UNCHANGED <<pc, holder, cuts>>
            \/ (\A a \in Actors : pc'[a] = Idle) /\ cuts' \subseteq {None}
         /\ opening' \in {"mark", "adopt", "done"}
         /\ \A v \in Contents :
              /\ row[v] = "present" /\ v \in files => row'[v] = "present"
<1>1. UNCHANGED <<files, clips, raced>> /\ opening' \in {"mark", "adopt", "done"}
  BY DEF Open, RecoverStaging, MarkMissing, AdoptFiles
<1>2. CASE RecoverStaging
  <2>1. row' = row
    BY <1>2 DEF RecoverStaging
  <2>2. \/ UNCHANGED <<pc, holder, cuts>>
        \/ pc' = [a \in Actors |-> Idle] /\ cuts' \subseteq {None}
    BY <1>2 DEF RecoverStaging, OpenAfterCrash, OpenBeside
  <2>3. pc' \in [Actors -> PcRow]
    BY <2>2, IdleRow DEF Typed
  <2> QED BY <1>1, <2>1, <2>2, <2>3 DEF Typed, RowStep
<1>3. CASE MarkMissing \/ AdoptFiles
  <2>1. UNCHANGED <<pc, holder, cuts>>
    BY <1>3 DEF MarkMissing, AdoptFiles
  <2>2. \/ row' = [a \in Contents |-> IF row[a] = "present" /\ a \notin files THEN "missing"
                                      ELSE row[a]]
        \/ row' = [a \in Contents |-> IF a \in files /\ row[a] \in {"none", "missing"}
                                      THEN "present" ELSE row[a]]
    BY <1>3 DEF MarkMissing, AdoptFiles
  <2>3. row \in [Contents -> Availability]
    BY DEF Typed
  <2>4. row' \in [Contents -> Availability] /\ RowStep
        /\ \A v \in Contents : row[v] = "present" /\ v \in files => row'[v] = "present"
    BY <2>2, <2>3 DEF Availability, RowStep
  <2> QED BY <1>1, <2>1, <2>4 DEF Typed
<1> QED BY <1>2, <1>3 DEF Open
-----------------------------------------------------------------------------
(* The steps of a caller, by what they share.                               *)
Prepare(c) ==
  \/ Encode(c) \/ EncodeStops(c) \/ Verify(c) \/ VerifyRejects(c) \/ Promote(c)
  \/ CleanDerivative(c)

Loaded == {"keep", "reject", "transcode", "export"}

Loads(c, k, step) ==
  /\ Load(c, k, step)
  /\ step # "export" => clips[k].decision # "reject"
  /\ step = "transcode" => clips[k].art \in Videos

LEMMA CallerCases ==
  ASSUME NEW c \in Callers, Review(c) \/ Trim(c) \/ ExportClip(c) \/ DeleteClip(c)
  PROVE  \/ \E k \in DOMAIN clips, step \in Loaded : Loads(c, k, step)
         \/ \E k \in DOMAIN clips : Delete(c, k)
         \/ \E d \in {"keep", "reject"} : Swap(c, d)
         \/ Prepare(c) \/ Export(c)
         \/ StageDerivative(c) \/ PlaceDerivative(c) \/ InsertDerivative(c) \/ FailInsert(c)
         \/ StrandDerivative(c) \/ Tombstone(c) \/ RemoveFile(c) \/ MarkDeleted(c)
<1>1. CASE Review(c)
  <2>1. ASSUME NEW k \in DOMAIN clips, LoadToKeep(c, k) \/ LoadToReject(c, k)
        PROVE  \E step \in Loaded : Loads(c, k, step)
    <3>1. Loads(c, k, "keep") \/ Loads(c, k, "reject")
      BY <2>1 DEF LoadToKeep, LoadToReject, Loads
    <3> QED BY <3>1 DEF Loaded
  <2> QED BY <1>1, <2>1 DEF Review
<1>2. CASE Trim(c)
  <2>1. ASSUME NEW k \in DOMAIN clips, LoadToTrim(c, k)
        PROVE  \E step \in Loaded : Loads(c, k, step)
    <3>1. Loads(c, k, "transcode")
      BY <2>1 DEF LoadToTrim, Loads
    <3> QED BY <3>1 DEF Loaded
  <2> QED BY <1>2, <2>1 DEF Trim, Prepare
<1>3. CASE ExportClip(c)
  <2>1. ASSUME NEW k \in DOMAIN clips, LoadToExport(c, k)
        PROVE  \E step \in Loaded : Loads(c, k, step)
    <3>1. Loads(c, k, "export")
      BY <2>1 DEF LoadToExport, Loads
    <3> QED BY <3>1 DEF Loaded
  <2> QED BY <1>3, <2>1 DEF ExportClip
<1>4. CASE DeleteClip(c)
  BY <1>4 DEF DeleteClip
<1> QED BY <1>1, <1>2, <1>3, <1>4

(* A capture; it waits for nobody                                           *)
LEMMA LiveCases ==
  ASSUME Capture
  PROVE  (\E v \in Videos : StageCapture(v)) \/ CommitFile \/ CommitRow \/ CreateClip \/ NameClip
BY DEF Capture
-----------------------------------------------------------------------------
(* The first part of the invariant.                                         *)
BaseInv == Typed /\ ActorInv /\ ClipInv

LEMMA ActorFrame ==
  ASSUME BaseInv, NEW a \in Actors, Steps(a)
  PROVE  /\ \A c \in Callers : c # a => CallerOk(c)'
         /\ a # Live => LiveOk'
<1>1. ASSUME NEW c \in Callers, c # a PROVE CallerOk(c)'
  <2>1. pc'[c] = pc[c] /\ CallerOk(c) /\ c # None
    BY <1>1, LibraryAssumption DEF Steps, Others, Actors, BaseInv, ActorInv
  <2>2. holder = c => holder' = c
    BY <1>1, <2>1 DEF Steps, HolderStep
  <2>3. OfItsClip(c) => OfItsClip(c)'
    BY <2>1 DEF OfItsClip, Steps, ClipsStep
  <2> QED BY <2>1, <2>2, <2>3 DEF CallerOk
<1>2. ASSUME a # Live PROVE LiveOk'
  <2>1. pc'[Live] = pc[Live] /\ LiveOk
    BY <1>2, LiveActor DEF Steps, Others, BaseInv, ActorInv
  <2> QED BY <2>1 DEF LiveOk, Steps, ClipsStep
<1> QED BY <1>1, <1>2

LEMMA IdleActor ==
  ASSUME NEW a \in Actors, pc'[a] = Idle
  PROVE  CallerOk(a)' /\ (a = Live => LiveOk')
BY DEF CallerOk, LiveOk, Idle, Trimming, Holding, Capturing

(* An operation that is over, and one that goes on with its Clip            *)
LEMMA ActorDone ==
  ASSUME BaseInv, NEW a \in Actors, Steps(a), pc'[a] = Idle
  PROVE  ActorInv'
BY ActorFrame, IdleActor DEF ActorInv, Actors

LEMMA ActorGoes ==
  ASSUME BaseInv, NEW c \in Callers, Steps(c), pc[c].at # "idle",
         pc'[c].clip = pc[c].clip, pc'[c].art = pc[c].art, pc'[c].at \notin Capturing,
         pc'[c].at \in Trimming => pc[c].at \in Trimming,
         pc'[c].at \in Holding => holder' = c
  PROVE  ActorInv'
<1>1. CallerOk(c) /\ c \in Actors /\ c # Live
  BY LibraryAssumption DEF BaseInv, ActorInv, Actors
<1>2. OfItsClip(c)'
  BY <1>1 DEF CallerOk, OfItsClip, Steps, ClipsStep
<1>3. CallerOk(c)'
  BY <1>1, <1>2 DEF CallerOk
<1> QED BY <1>1, <1>3, ActorFrame DEF ActorInv

LEMMA ActorLive ==
  ASSUME BaseInv, Steps(Live), LiveOk'
  PROVE  ActorInv'
BY ActorFrame, LiveActor, LibraryAssumption DEF ActorInv

LEMMA ClipFrame ==
  ASSUME ClipInv, UNCHANGED clips, RowStep, Typed
  PROVE  ClipInv'
BY RowTyped DEF ClipInv, ValidSnapshot, RowStep, ClipRow
LEMMA LoadBase ==
  ASSUME BaseInv, NEW c \in Callers, NEW k \in DOMAIN clips, NEW step \in Loaded, Loads(c, k, step)
  PROVE  BaseInv'
<1>1. Typed /\ ClipInv /\ c \in Actors /\ c # Live /\ step \in Stages
  BY LibraryAssumption DEF BaseInv, Actors, Loaded, Stages, Reviewing
<1>2. Load(c, k, step) /\ (step = "transcode" => clips[k].art \in Videos)
  BY DEF Loads
<1>3. /\ Steps(c) /\ UNCHANGED <<store, holder, opening, raced>>
      /\ pc'[c] = [at |-> step, clip |-> k, revision |-> clips[k].revision, art |-> clips[k].art]
  BY <1>1, <1>2, LoadEffect
<1>4. pc'[c].at = step /\ pc'[c].clip = k /\ pc'[c].art = clips[k].art
  BY <1>3
<1>5. UNCHANGED <<row, clips>> /\ step \notin Holding \cup Capturing
      /\ (step \in Trimming => step = "transcode")
  BY <1>3 DEF store, Loaded, Holding, Capturing, Trimming
<1>6. CallerOk(c)'
  BY <1>2, <1>4, <1>5 DEF CallerOk, OfItsClip
<1>7. ActorInv'
  BY <1>1, <1>3, <1>6, ActorFrame DEF ActorInv
<1>8. ClipInv'
  BY <1>1, <1>3, <1>5, ClipFrame DEF Steps
<1> QED BY <1>3, <1>7, <1>8 DEF BaseInv, Steps

LEMMA DeleteBase ==
  ASSUME BaseInv, NEW c \in Callers, NEW k \in DOMAIN clips, Delete(c, k)
  PROVE  BaseInv'
<1>1. Typed /\ ClipInv /\ c \in Actors /\ c # Live
  BY LibraryAssumption DEF BaseInv, Actors
<1>2. /\ Steps(c) /\ holder' = c /\ UNCHANGED <<row, clips>>
      /\ pc'[c].at = "tombstone" /\ pc'[c].clip = k /\ pc'[c].art = clips[k].art
  BY <1>1, DeleteEffect
<1>3. CallerOk(c)'
  BY <1>2 DEF CallerOk, OfItsClip, Trimming, Capturing
<1>4. ActorInv'
  BY <1>1, <1>2, <1>3, ActorFrame DEF ActorInv
<1>5. ClipInv'
  BY <1>1, <1>2, ClipFrame DEF Steps
<1> QED BY <1>2, <1>4, <1>5 DEF BaseInv, Steps

LEMMA CallerBase ==
  ASSUME BaseInv, NEW c \in Callers,
         Review(c) \/ Trim(c) \/ ExportClip(c) \/ DeleteClip(c)
  PROVE  BaseInv' /\ Steps(c)
<1>0. Typed /\ ActorInv /\ ClipInv /\ c \in Actors
  BY DEF BaseInv, Actors
<1>1. ASSUME NEW k \in DOMAIN clips, NEW step \in Loaded, Loads(c, k, step) PROVE BaseInv' /\ Steps(c)
  <2>1. Load(c, k, step) /\ step \in Stages
    BY <1>1 DEF Loads, Loaded, Stages, Reviewing
  <2> QED BY <1>0, <1>1, <2>1, LoadBase, LoadEffect
<1>2. ASSUME NEW k \in DOMAIN clips, Delete(c, k) PROVE BaseInv' /\ Steps(c)
  BY <1>0, <1>2, DeleteBase, DeleteEffect
<1>3. ASSUME NEW d \in {"keep", "reject"}, Swap(c, d) PROVE BaseInv' /\ Steps(c)
  <2>1. Steps(c) /\ ClipInv' /\ pc'[c] = Idle
    BY <1>0, <1>3, SwapEffect
  <2> QED BY <1>0, <2>1, ActorDone DEF BaseInv, Steps
<1>4. CASE Prepare(c)
  <2>1. /\ Steps(c) /\ UNCHANGED <<row, clips, holder>>
        /\ \/ /\ pc[c].at \in Before /\ pc'[c].at \in {"verify", "promote", "stage"}
              /\ pc'[c].clip = pc[c].clip /\ pc'[c].art = pc[c].art
           \/ pc'[c] = Idle
    BY <1>0, <1>4, PrepareEffect DEF Prepare
  <2>2. ClipInv'
    BY <1>0, <2>1, ClipFrame DEF Steps
  <2>3. CASE pc'[c] = Idle
    BY <2>1, <2>2, <2>3, <1>0, ActorDone DEF BaseInv, Steps
  <2>4. CASE pc[c].at \in Before /\ pc'[c].at \in {"verify", "promote", "stage"}
             /\ pc'[c].clip = pc[c].clip /\ pc'[c].art = pc[c].art
    <3>1. pc[c].at # "idle" /\ pc[c].at \in Trimming /\ pc'[c].at \notin Capturing \cup Holding
      BY <2>4 DEF Before, Trimming, Capturing, Holding
    <3> QED BY <2>1, <2>2, <2>4, <3>1, ActorGoes DEF BaseInv, Steps
  <2> QED BY <2>1, <2>3, <2>4
<1>5. CASE Export(c)
  <2>1. Steps(c) /\ pc'[c] = Idle /\ UNCHANGED <<row, clips>>
    BY <1>0, <1>5, ExportEffect
  <2> QED BY <1>0, <2>1, ActorDone, ClipFrame DEF BaseInv, Steps
<1>6. CASE StageDerivative(c)
  <2>1. /\ Steps(c) /\ pc[c].at = "stage" /\ UNCHANGED <<row, clips>>
        /\ \/ /\ pc'[c].at = "place" /\ pc'[c].clip = pc[c].clip /\ pc'[c].art = pc[c].art
              /\ holder' = c
           \/ pc'[c] = Idle
    BY <1>0, <1>6, StageEffect
  <2>2. ClipInv'
    BY <1>0, <2>1, ClipFrame DEF Steps
  <2>3. CASE pc'[c] = Idle
    BY <2>1, <2>2, <2>3, <1>0, ActorDone DEF BaseInv, Steps
  <2>4. CASE pc'[c].at = "place" /\ pc'[c].clip = pc[c].clip /\ pc'[c].art = pc[c].art
             /\ holder' = c
    BY <2>1, <2>2, <2>4, ActorGoes DEF BaseInv, Steps, Trimming, Capturing
  <2> QED BY <2>1, <2>3, <2>4
<1>7. CASE PlaceDerivative(c)
  <2>1. /\ Steps(c) /\ pc[c].at = "place" /\ UNCHANGED <<row, clips>>
        /\ \/ /\ pc'[c].at = "insert" /\ pc'[c].clip = pc[c].clip /\ pc'[c].art = pc[c].art
              /\ holder' = holder
           \/ pc'[c] = Idle
    BY <1>0, <1>7, PlaceEffect
  <2>2. ClipInv' /\ holder = c
    BY <1>0, <2>1, ClipFrame DEF Steps, ActorInv, CallerOk, Holding
  <2>3. CASE pc'[c] = Idle
    BY <2>1, <2>2, <2>3, <1>0, ActorDone DEF BaseInv, Steps
  <2>4. CASE pc'[c].at = "insert" /\ pc'[c].clip = pc[c].clip /\ pc'[c].art = pc[c].art
             /\ holder' = holder
    BY <2>1, <2>2, <2>4, ActorGoes DEF BaseInv, Steps, Trimming, Capturing
  <2> QED BY <2>1, <2>3, <2>4
<1>8. CASE InsertDerivative(c)
  <2>1. /\ Steps(c) /\ ClipInv' /\ pc[c].at = "insert" /\ pc'[c].at = "clean"
        /\ pc'[c].clip = pc[c].clip /\ pc'[c].art = pc[c].art
    BY <1>0, <1>8, InsertEffect
  <2> QED BY <2>1, ActorGoes DEF BaseInv, Steps, Trimming, Capturing, Holding
<1>9. CASE FailInsert(c)
  <2>1. Steps(c) /\ pc'[c] = Idle /\ UNCHANGED <<row, clips>>
    BY <1>0, <1>9, FailInsertEffect
  <2> QED BY <1>0, <2>1, ActorDone, ClipFrame DEF BaseInv, Steps
<1>10. CASE Tombstone(c)
  <2>1. /\ Steps(c) /\ ClipInv' /\ pc[c].at = "tombstone" /\ pc'[c].at = "recount"
        /\ pc'[c].clip = pc[c].clip /\ pc'[c].art = pc[c].art /\ holder' = holder
    BY <1>0, <1>10, TombstoneEffect
  <2>2. holder = c
    BY <1>0, <2>1 DEF ActorInv, CallerOk, Holding
  <2> QED BY <2>1, <2>2, ActorGoes DEF BaseInv, Steps, Trimming, Capturing
<1>11. CASE RemoveFile(c)
  <2>1. /\ Steps(c) /\ pc[c].at = "recount" /\ UNCHANGED <<row, clips>>
        /\ \/ pc'[c] = Idle
           \/ /\ pc'[c].at = "mark" /\ pc'[c].clip = pc[c].clip /\ pc'[c].art = pc[c].art
              /\ holder' = holder
    BY <1>0, <1>11, RemoveEffect
  <2>2. ClipInv' /\ holder = c
    BY <1>0, <2>1, ClipFrame DEF Steps, ActorInv, CallerOk, Holding
  <2>3. CASE pc'[c] = Idle
    BY <2>1, <2>2, <2>3, <1>0, ActorDone DEF BaseInv, Steps
  <2>4. CASE pc'[c].at = "mark" /\ pc'[c].clip = pc[c].clip /\ pc'[c].art = pc[c].art
             /\ holder' = holder
    BY <2>1, <2>2, <2>4, ActorGoes DEF BaseInv, Steps, Trimming, Capturing
  <2> QED BY <2>1, <2>3, <2>4
<1>12. CASE MarkDeleted(c)
  <2>1. Steps(c) /\ ClipInv' /\ pc'[c] = Idle
    BY <1>0, <1>12, MarkEffect
  <2> QED BY <1>0, <2>1, ActorDone DEF BaseInv, Steps
<1>13. CASE StrandDerivative(c)
  <2>1. Steps(c) /\ pc'[c] = Idle /\ UNCHANGED <<row, clips>>
    BY <1>0, <1>13, StrandEffect
  <2> QED BY <1>0, <2>1, ActorDone, ClipFrame DEF BaseInv, Steps
<1> QED BY <1>1, <1>2, <1>3, <1>4, <1>5, <1>6, <1>7, <1>8, <1>9, <1>10, <1>11, <1>12, <1>13,
           CallerCases
LEMMA LiveBase ==
  ASSUME BaseInv, Capture
  PROVE  BaseInv' /\ Steps(Live)
<1>0. Typed /\ ActorInv /\ ClipInv /\ Live \in Actors
  BY LiveActor DEF BaseInv
<1>1. ASSUME NEW v \in Videos, StageCapture(v) PROVE BaseInv' /\ Steps(Live)
  <2>1. /\ Steps(Live) /\ pc'[Live].at = "commit" /\ pc'[Live].art = v
        /\ UNCHANGED <<row, clips>>
    BY <1>0, <1>1, StageCaptureEffect
  <2>2. LiveOk'
    BY <2>1 DEF LiveOk, Capturing
  <2> QED BY <1>0, <2>1, <2>2, ActorLive, ClipFrame DEF BaseInv, Steps
<1>2. CASE CommitFile
  <2>1. /\ Steps(Live) /\ UNCHANGED <<row, clips>> /\ pc[Live].art \in Videos
        /\ \/ pc'[Live].at = "catalog" /\ pc'[Live].art = pc[Live].art
           \/ pc'[Live] = Idle
    BY <1>0, <1>2, CommitFileEffect
  <2>2. LiveOk'
    BY <2>1, <1>0, IdleActor DEF LiveOk, Capturing
  <2> QED BY <1>0, <2>1, <2>2, ActorLive, ClipFrame DEF BaseInv, Steps
<1>3. CASE CommitRow
  <2>1. /\ Steps(Live) /\ ClipInv' /\ pc[Live].art \in Videos
        /\ \/ pc'[Live].at = "clip" /\ pc'[Live].art = pc[Live].art
           \/ pc'[Live] = Idle
    BY <1>0, <1>3, CommitRowEffect
  <2>2. LiveOk'
    BY <2>1, <1>0, IdleActor DEF LiveOk, Capturing
  <2> QED BY <2>1, <2>2, ActorLive DEF BaseInv, Steps
<1>4. CASE CreateClip
  <2>1. /\ Steps(Live) /\ ClipInv' /\ pc[Live].art \in Videos
        /\ \/ /\ pc'[Live].at = "name" /\ pc'[Live].art = pc[Live].art
              /\ pc'[Live].clip = Len(clips) + 1
              /\ DOMAIN clips' = DOMAIN clips \cup {Len(clips) + 1}
           \/ pc'[Live] = Idle
    BY <1>0, <1>4, CreateEffect
  <2>2. LiveOk'
    BY <2>1, <1>0, IdleActor DEF LiveOk, Capturing
  <2> QED BY <2>1, <2>2, ActorLive DEF BaseInv, Steps
<1>5. CASE NameClip
  <2>1. Steps(Live) /\ ClipInv' /\ pc'[Live] = Idle
    BY <1>0, <1>5, NameEffect
  <2> QED BY <1>0, <2>1, ActorDone DEF BaseInv, Steps
<1> QED BY <1>1, <1>2, <1>3, <1>4, <1>5, LiveCases

LEMMA OpenBase ==
  ASSUME BaseInv, Open
  PROVE  BaseInv'
<1>1. /\ Typed /\ Typed' /\ UNCHANGED clips /\ RowStep
      /\ UNCHANGED <<pc, holder>> \/ \A a \in Actors : pc'[a] = Idle
  BY OpenEffect DEF BaseInv
<1>2. ClipInv'
  BY <1>1, ClipFrame DEF BaseInv
<1>3. CASE UNCHANGED <<pc, holder>>
  BY <1>1, <1>2, <1>3 DEF BaseInv, ActorInv, LiveOk, CallerOk, OfItsClip
<1>4. CASE \A a \in Actors : pc'[a] = Idle
  <2>1. ActorInv'
    BY <1>4, IdleActor, LiveActor DEF ActorInv, Actors
  <2> QED BY <1>1, <1>2, <2>1 DEF BaseInv
<1> QED BY <1>1, <1>3, <1>4

LEMMA BaseStutter ==
  ASSUME BaseInv, UNCHANGED vars
  PROVE  BaseInv'
BY DEF BaseInv, Typed, ActorInv, LiveOk, CallerOk, OfItsClip, ClipInv, ValidSnapshot, vars, store

LEMMA BaseInit == Init => BaseInv
<1> SUFFICES ASSUME Init PROVE BaseInv
  OBVIOUS
<1>1. clips = <<>> /\ DOMAIN clips = {} /\ clips \in Seq(ClipRow)
  BY DEF Init
<1>2. \A a \in Actors : pc[a] = Idle
  BY DEF Init
<1>3. pc \in [Actors -> PcRow] /\ row \in [Contents -> Availability]
  BY IdleRow DEF Init, Availability
<1>4. ActorInv
  BY <1>2 DEF ActorInv, LiveOk, CallerOk, Actors, Idle, Trimming, Holding, Capturing
<1> QED BY <1>1, <1>3, <1>4 DEF BaseInv, Typed, ClipInv

(* What the actors know of their Clips, and what a Clip says of itself.     *)
LEMMA Base == Spec => []BaseInv
<1>1. BaseInv /\ [Next]_vars => BaseInv'
  BY CallerBase, LiveBase, OpenBase, BaseStutter DEF Next
<1> QED BY <1>1, BaseInit, PTL DEF Spec
-----------------------------------------------------------------------------
(* Reviews.                                                                 *)
LEMMA ReviewFrame ==
  ASSUME BaseInv, ReviewInv, NEW a \in Actors, Steps(a), NEW c \in Callers, c # a
  PROVE  ReviewOk(c)'
<1>1. pc'[c] = pc[c] /\ CallerOk(c) /\ ReviewOk(c) /\ c # None
  BY LibraryAssumption DEF Steps, Others, Actors, BaseInv, ActorInv, ReviewInv
<1>2. CASE pc[c].at \in Reviewing
  <2>1. PICK k \in DOMAIN clips : k = pc[c].clip
    BY <1>1, <1>2 DEF CallerOk, OfItsClip, Reviewing
  <2>2. /\ k \in DOMAIN clips' /\ clips[k].revision <= clips'[k].revision
        /\ clips[k].revision = clips'[k].revision => clips'[k].decision = clips[k].decision
        /\ holder = c =>
             clips'[k].revision = clips[k].revision /\ clips'[k].deleted = clips[k].deleted
    BY <1>1 DEF Steps, ClipsStep
  <2>3. clips[k].revision \in Nat /\ clips'[k].revision \in Nat
    <3>1. clips \in Seq(ClipRow) /\ clips' \in Seq(ClipRow)
      BY DEF Steps, BaseInv, Typed
    <3>2. clips[k] \in ClipRow /\ clips'[k] \in ClipRow
      BY <2>2, <3>1
    <3> QED BY <3>2 DEF ClipRow
  <2>4. pc[c].revision \in Nat
    BY DEF BaseInv, Typed, PcRow, Actors
  <2>5. Unrejected(c)'
    BY <1>1, <1>2, <2>1, <2>2, <2>3, <2>4 DEF ReviewOk, Unrejected
  <2>6. pc[c].at \in {"place", "insert"} => Unreviewed(c)'
    BY <1>1, <2>1, <2>2 DEF ReviewOk, Unreviewed, CallerOk, Holding
  <2> QED BY <1>1, <2>5, <2>6 DEF ReviewOk
<1>3. CASE pc[c].at \notin Reviewing
  BY <1>1, <1>3 DEF ReviewOk, Reviewing
<1> QED BY <1>2, <1>3

LEMMA ReviewLeft ==
  ASSUME NEW c \in Callers, pc'[c].at \notin Reviewing
  PROVE  ReviewOk(c)'
BY DEF ReviewOk, Reviewing

LEMMA ReviewGoes ==
  ASSUME ReviewInv, NEW c \in Callers, UNCHANGED clips, pc[c].at \in Reviewing,
         pc'[c].clip = pc[c].clip, pc'[c].revision = pc[c].revision,
         pc'[c].at \in {"place", "insert"} => Unreviewed(c)
  PROVE  ReviewOk(c)'
BY DEF ReviewInv, ReviewOk, Unrejected, Unreviewed

LEMMA CallerReview ==
  ASSUME BaseInv, ReviewInv, NEW c \in Callers,
         Review(c) \/ Trim(c) \/ ExportClip(c) \/ DeleteClip(c)
  PROVE  ReviewOk(c)'
<1>0. Typed /\ ActorInv /\ ClipInv
  BY DEF BaseInv
<1>1. Idle.at \notin Reviewing
  BY DEF Idle, Reviewing
<1>2. ASSUME NEW k \in DOMAIN clips, NEW step \in Loaded, Loads(c, k, step) PROVE ReviewOk(c)'
  <2>1. Load(c, k, step) /\ step \in Stages /\ (step # "export" => clips[k].decision # "reject")
    BY <1>2 DEF Loads, Loaded, Stages, Reviewing
  <2>2. /\ pc'[c].at = step /\ pc'[c].clip = k /\ pc'[c].revision = clips[k].revision
        /\ UNCHANGED clips
    <3>1. /\ UNCHANGED store
          /\ pc'[c] = [at |-> step, clip |-> k, revision |-> clips[k].revision, art |-> clips[k].art]
      BY <1>0, <2>1, LoadEffect
    <3> QED BY <3>1 DEF store
  <2>3. clips[k].revision \in Nat
    BY <1>0, RowTyped DEF ClipRow
  <2>4. step \notin {"place", "insert"} /\ (step \in Reviewing => step # "export")
    BY DEF Loaded, Reviewing
  <2>5. step # "export" => Unrejected(c)'
    BY <2>1, <2>2, <2>3 DEF Unrejected
  <2> QED BY <2>2, <2>4, <2>5 DEF ReviewOk
<1>3. ASSUME NEW k \in DOMAIN clips, Delete(c, k) PROVE ReviewOk(c)'
  BY <1>0, <1>3, DeleteEffect, ReviewLeft DEF Reviewing
<1>4. ASSUME NEW d \in {"keep", "reject"}, Swap(c, d) PROVE ReviewOk(c)'
  BY <1>0, <1>1, <1>4, SwapEffect, ReviewLeft
<1>5. CASE Prepare(c)
  <2>1. /\ UNCHANGED clips
        /\ \/ /\ pc[c].at \in Before /\ pc'[c].at \in {"verify", "promote", "stage"}
              /\ pc'[c].clip = pc[c].clip /\ pc'[c].revision = pc[c].revision
           \/ pc'[c] = Idle
    BY <1>0, <1>5, PrepareEffect DEF Prepare
  <2> QED BY <1>1, <2>1, ReviewGoes, ReviewLeft DEF Before, Reviewing
<1>6. CASE Export(c)
  BY <1>0, <1>1, <1>6, ExportEffect, ReviewLeft
<1>7. CASE StageDerivative(c)
  <2>1. /\ pc[c].at = "stage" /\ UNCHANGED clips
        /\ \/ /\ pc'[c].at = "place" /\ pc'[c].clip = pc[c].clip
              /\ pc'[c].revision = pc[c].revision
              /\ Loadable(pc[c].clip) /\ FromCurrent(c)
           \/ pc'[c] = Idle
    BY <1>0, <1>7, StageEffect
  <2>2. Loadable(pc[c].clip) /\ FromCurrent(c) => Unreviewed(c)
    BY DEF Loadable, FromCurrent, Unreviewed
  <2> QED BY <1>1, <2>1, <2>2, ReviewGoes, ReviewLeft DEF Reviewing
<1>8. CASE PlaceDerivative(c)
  <2>1. /\ pc[c].at = "place" /\ UNCHANGED clips
        /\ \/ /\ pc'[c].at = "insert" /\ pc'[c].clip = pc[c].clip
              /\ pc'[c].revision = pc[c].revision
           \/ pc'[c] = Idle
    BY <1>0, <1>8, PlaceEffect
  <2>2. Unreviewed(c)
    BY <2>1 DEF ReviewInv, ReviewOk
  <2> QED BY <1>1, <2>1, <2>2, ReviewGoes, ReviewLeft DEF Reviewing
<1>9. CASE InsertDerivative(c)
  BY <1>0, <1>9, InsertEffect, ReviewLeft DEF Reviewing
<1>10. CASE FailInsert(c)
  BY <1>0, <1>1, <1>10, FailInsertEffect, ReviewLeft
<1>11. CASE Tombstone(c)
  BY <1>0, <1>11, TombstoneEffect, ReviewLeft DEF Reviewing
<1>12. CASE RemoveFile(c)
  BY <1>0, <1>1, <1>12, RemoveEffect, ReviewLeft DEF Reviewing
<1>13. CASE MarkDeleted(c)
  BY <1>0, <1>1, <1>13, MarkEffect, ReviewLeft
<1>14. CASE StrandDerivative(c)
  BY <1>0, <1>1, <1>14, StrandEffect, ReviewLeft
<1> QED BY <1>2, <1>3, <1>4, <1>5, <1>6, <1>7, <1>8, <1>9, <1>10, <1>11, <1>12, <1>13, <1>14,
           CallerCases
LEMMA ReviewStep == BaseInv /\ ReviewInv /\ [Next]_vars => ReviewInv'
<1> SUFFICES ASSUME BaseInv, ReviewInv, [Next]_vars PROVE ReviewInv'
  OBVIOUS
<1>1. ASSUME NEW c \in Callers, Review(c) \/ Trim(c) \/ ExportClip(c) \/ DeleteClip(c)
      PROVE  ReviewInv'
  BY <1>1, CallerBase, CallerReview, ReviewFrame DEF ReviewInv, Actors
<1>2. CASE Capture
  <2>1. \A c \in Callers : c # Live
    BY LibraryAssumption
  <2> QED BY <1>2, <2>1, LiveBase, LiveActor, ReviewFrame DEF ReviewInv
<1>3. CASE Open
  <2>1. UNCHANGED clips /\ (UNCHANGED pc \/ \A a \in Actors : pc'[a] = Idle)
    BY <1>3, OpenEffect DEF BaseInv
  <2>2. CASE UNCHANGED pc
    BY <2>1, <2>2 DEF ReviewInv, ReviewOk, Unrejected, Unreviewed
  <2>3. CASE \A a \in Actors : pc'[a] = Idle
    BY <2>3, ReviewLeft DEF ReviewInv, Idle, Reviewing, Actors
  <2> QED BY <2>1, <2>2, <2>3
<1>4. CASE UNCHANGED vars
  BY <1>4 DEF ReviewInv, ReviewOk, Unrejected, Unreviewed, vars, store
<1> QED BY <1>1, <1>2, <1>3, <1>4 DEF Next

LEMMA Reviews == Spec => []ReviewInv
<1>1. Init => ReviewInv
  BY DEF Init, ReviewInv, ReviewOk, Idle, Reviewing, Actors
<1> QED BY <1>1, ReviewStep, Base, PTL DEF Spec

(* A rejection stands: whoever loaded the Clip before it was rejected loaded *)
(* a revision compare_and_swap_clip_review does not find any more           *)
(* (RejectionIsFinal).                                                      *)
THEOREM LibraryRejection == Spec => RejectionIsFinal
<1> DEFINE Stands == \A k \in DOMAIN clips : clips[k].decision = "reject" => clips'[k].decision = "reject"
<1>1. BaseInv /\ ReviewInv /\ [Next]_vars => [Stands]_vars
  <2> SUFFICES ASSUME BaseInv, ReviewInv, Next PROVE Stands
    OBVIOUS
  <2>0. Typed /\ ActorInv /\ ClipInv
    BY DEF BaseInv
  <2>1. ASSUME NEW c \in Callers, Review(c) \/ Trim(c) \/ ExportClip(c) \/ DeleteClip(c)
        PROVE  Stands
    <3>1. ASSUME NEW k \in DOMAIN clips, NEW step \in Loaded, Loads(c, k, step) PROVE Stands
      BY <3>1 DEF Loads, Load, store
    <3>2. ASSUME NEW k \in DOMAIN clips, Delete(c, k) PROVE Stands
      BY <3>2 DEF Delete, store
    <3>3. ASSUME NEW d \in {"keep", "reject"}, Swap(c, d) PROVE Stands
      <4>1. /\ pc[c].at = d
            /\ \A j \in DOMAIN clips :
                 \/ clips'[j].decision = clips[j].decision
                 \/ j = pc[c].clip /\ clips[j].revision = pc[c].revision
        BY <2>0, <3>3, SwapEffect
      <4>2. Unrejected(c)
        BY <4>1 DEF ReviewInv, ReviewOk, Reviewing
      <4> QED BY <4>1, <4>2 DEF Unrejected
    <3>4. CASE Prepare(c)
      BY <2>0, <3>4, PrepareEffect DEF Prepare
    <3>5. CASE Export(c) \/ StageDerivative(c) \/ PlaceDerivative(c) \/ FailInsert(c)
               \/ StrandDerivative(c) \/ RemoveFile(c) \/ MarkDeleted(c)
      BY <3>5 DEF Export, StageDerivative, PlaceDerivative, FailInsert, StrandDerivative, RemoveFile,
                  MarkDeleted
    <3>6. CASE InsertDerivative(c)
      BY <2>0, <3>6, InsertEffect
    <3>7. CASE Tombstone(c)
      BY <2>0, <3>7, TombstoneEffect
    <3> QED BY <2>1, <3>1, <3>2, <3>3, <3>4, <3>5, <3>6, <3>7, CallerCases
  <2>2. CASE Capture
    <3>1. CASE (\E v \in Videos : StageCapture(v)) \/ CommitFile \/ CommitRow
      BY <3>1 DEF StageCapture, CommitFile, CommitRow
    <3>2. CASE CreateClip
      BY <2>0, <3>2, CreateEffect
    <3>3. CASE NameClip
      BY <2>0, <3>3, NameEffect
    <3> QED BY <2>2, <3>1, <3>2, <3>3, LiveCases
  <2>3. CASE Open
    BY <2>0, <2>3, OpenEffect
  <2> QED BY <2>1, <2>2, <2>3 DEF Next
<1>2. RejectionIsFinal <=> [][Stands]_vars
  BY DEF RejectionIsFinal
<1> QED BY <1>1, <1>2, Base, Reviews, PTL DEF Spec

(* Only its own transaction takes a trim from "insert" to "clean".          *)
LEMMA CleanIsInserted ==
  ASSUME BaseInv, Next, NEW c \in Callers, pc[c].at = "insert", pc'[c].at = "clean"
  PROVE  InsertDerivative(c)
<1>0. Typed /\ ActorInv /\ ClipInv /\ c # Live /\ c \in Actors /\ Idle.at # "clean"
  BY LibraryAssumption DEF BaseInv, Actors, Idle
<1>1. ASSUME NEW b \in Callers, Review(b) \/ Trim(b) \/ ExportClip(b) \/ DeleteClip(b)
      PROVE  InsertDerivative(c)
  <2>1. CASE b # c
    BY <1>0, <1>1, <2>1, CallerBase DEF Steps, Others
  <2>2. CASE b = c
    <3>1. ASSUME NEW k \in DOMAIN clips, NEW step \in Loaded, Loads(c, k, step) PROVE FALSE
      BY <3>1 DEF Loads, Load, At
    <3>2. ASSUME NEW k \in DOMAIN clips, Delete(c, k) PROVE FALSE
      BY <3>2 DEF Delete, At
    <3>3. ASSUME NEW d \in {"keep", "reject"}, Swap(c, d) PROVE FALSE
      BY <3>3 DEF Swap, At
    <3>4. CASE Prepare(c)
      BY <3>4 DEF Prepare, Encode, EncodeStops, Verify, VerifyRejects, Promote, CleanDerivative, At
    <3>5. CASE Export(c) \/ StageDerivative(c) \/ PlaceDerivative(c) \/ Tombstone(c)
               \/ RemoveFile(c) \/ MarkDeleted(c)
      BY <3>5 DEF Export, StageDerivative, PlaceDerivative, Tombstone, RemoveFile, MarkDeleted, At
    <3>6. CASE FailInsert(c) \/ StrandDerivative(c)
      BY <1>0, <3>6, FailInsertEffect, StrandEffect
    <3> QED BY <1>1, <2>2, <3>1, <3>2, <3>3, <3>4, <3>5, <3>6, CallerCases
  <2> QED BY <2>1, <2>2
<1>2. CASE Capture
  BY <1>0, <1>2, LiveBase DEF Steps, Others
<1>3. CASE Open
  BY <1>0, <1>3, OpenEffect
<1> QED BY <1>1, <1>2, <1>3 DEF Next

(* A trim that is committed is of the review it was loaded with, of a Clip  *)
(* that is neither rejected nor deleted: commit_derivative compares once it *)
(* holds the Storage, and holds it to the end (TrimIsOfCurrentReview).      *)
THEOREM LibraryTrim == Spec => TrimIsOfCurrentReview
<1> DEFINE Current ==
      \A c \in Callers, n \in DOMAIN clips' \ DOMAIN clips :
        (At(c, "insert") /\ pc'[c].at = "clean") =>
          LET s == clips[clips'[n].source]
          IN s.decision # "reject" /\ ~s.deleted /\ s.revision = pc[c].revision
<1>1. BaseInv /\ ReviewInv /\ [Next]_vars => [Current]_vars
  <2> SUFFICES ASSUME BaseInv, ReviewInv, Next, NEW c \in Callers,
                      NEW n \in DOMAIN clips' \ DOMAIN clips,
                      pc[c].at = "insert", pc'[c].at = "clean"
               PROVE  /\ clips[clips'[n].source].decision # "reject"
                      /\ ~clips[clips'[n].source].deleted
                      /\ clips[clips'[n].source].revision = pc[c].revision
    BY DEF At
  <2>1. InsertDerivative(c)
    BY CleanIsInserted
  <2>2. clips'[n].source = pc[c].clip
    BY <2>1, InsertEffect DEF BaseInv
  <2>3. Unrejected(c) /\ Unreviewed(c)
    BY DEF ReviewInv, ReviewOk, Reviewing
  <2> QED BY <2>2, <2>3 DEF Unrejected, Unreviewed
<1>2. TrimIsOfCurrentReview <=> [][Current]_vars
  BY DEF TrimIsOfCurrentReview
<1> QED BY <1>1, <1>2, Base, Reviews, PTL DEF Spec
-----------------------------------------------------------------------------
(* Files.                                                                   *)
Filed == \A k \in DOMAIN clips : Kept(k) => ClipFile(k)

LEMMA RemovalFrame ==
  ASSUME BaseInv, FileInv, NEW a \in Actors, Steps(a), NEW c \in Callers, c # a,
         files \subseteq files' \/ holder = a,
         \A j \in DOMAIN clips' \ DOMAIN clips :
           holder = a \/ (clips'[j].art \in Videos /\ Storing(clips'[j].art)),
         pc[c].at \in Removing /\ Storing(pc[c].art)' => Storing(pc[c].art) \/ pc[c].art \in raced'
  PROVE  RemovalOk(c)'
<1>1. pc'[c] = pc[c] /\ CallerOk(c) /\ RemovalOk(c) /\ c # None
  BY LibraryAssumption DEF Steps, Others, Actors, BaseInv, ActorInv, FileInv
<1>2. raced \subseteq raced' /\ ClipsStep(a)
  BY DEF Steps
<1>3. ASSUME pc[c].at = "insert"
      PROVE  Cut(pc[c].art) \in files' /\ \A k \in DOMAIN clips' : clips'[k].art # Cut(pc[c].art)
  <2>1. holder # a /\ pc[c].art \in Videos
    BY <1>1, <1>3 DEF CallerOk, Holding, Trimming
  <2>2. Cut(pc[c].art) \notin Videos
    BY <2>1, CutTyped
  <2> QED BY <1>1, <1>2, <1>3, <2>1, <2>2 DEF RemovalOk, ClipsStep
<1>4. ASSUME pc[c].at \in Removing, Storing(pc[c].art)' PROVE pc[c].art \in raced'
  BY <1>1, <1>2, <1>4 DEF RemovalOk
<1>5. ASSUME pc[c].at = "mark", pc[c].art \notin raced' PROVE Sharers(pc[c].art)' = {}
  <2>1. holder # a /\ Sharers(pc[c].art) = {} /\ ~Storing(pc[c].art)
    BY <1>1, <1>2, <1>5 DEF RemovalOk, CallerOk, Holding, Removing
  <2>2. ASSUME NEW k \in DOMAIN clips', clips'[k].art = pc[c].art, ~clips'[k].deleted PROVE FALSE
    BY <1>2, <2>1, <2>2 DEF ClipsStep, Sharers
  <2>3. Sharers(pc[c].art)' = {k \in DOMAIN clips' : clips'[k].art = pc[c].art /\ ~clips'[k].deleted}
    BY <1>1 DEF Sharers
  <2> QED BY <2>2, <2>3
<1> QED BY <1>1, <1>3, <1>4, <1>5 DEF RemovalOk, Storing, Sharers

(* A step of a caller                                                       *)
LEMMA CallerFile ==
  ASSUME BaseInv, FileInv, NEW c \in Callers, Steps(c), RemovalOk(c)', Filed',
         files \subseteq files' \/ holder = c,
         DOMAIN clips' \subseteq DOMAIN clips \/ holder = c,
         \A v \in Videos \cap files : Storing(v) => v \in files' \cup raced
  PROVE  FileInv'
<1>1. c \in Actors /\ c # Live /\ pc'[Live] = pc[Live]
  BY LibraryAssumption, LiveActor DEF Steps, Others, Actors
<1>2. ASSUME NEW b \in Callers, b # c PROVE RemovalOk(b)'
  <2>1. pc'[b] = pc[b]
    BY <1>2 DEF Steps, Others, Actors
  <2>2. Storing(pc[b].art)' => Storing(pc[b].art)
    BY <1>1, <2>1 DEF Storing
  <2> QED BY <1>1, <1>2, <2>2, RemovalFrame
<1>3. StoringOk'
  <2> SUFFICES ASSUME pc[Live].at \in {"catalog", "clip"} PROVE pc[Live].art \in files' \cup raced'
    BY <1>1 DEF StoringOk
  <2>1. pc[Live].art \in files \cup raced /\ pc[Live].art \in Videos /\ Storing(pc[Live].art)
    BY DEF FileInv, StoringOk, BaseInv, ActorInv, LiveOk, Storing
  <2> QED BY <2>1 DEF Steps
<1> QED BY <1>2, <1>3 DEF FileInv, Filed

LEMMA KeptSame ==
  ASSUME BaseInv, FileInv, NEW a \in Actors, Steps(a), DOMAIN clips' \subseteq DOMAIN clips,
         \A k \in DOMAIN clips : ClipFile(k) /\ Kept(k) /\ ~clips'[k].deleted =>
           row'[clips[k].art] = "present" /\ clips[k].art \in files'
  PROVE  Filed'
BY DEF Filed, FileInv, Kept, ClipFile, Steps, ClipsStep

LEMMA RemovalLeft ==
  ASSUME NEW c \in Callers, pc'[c].at \notin Removing \cup {"insert"}
  PROVE  RemovalOk(c)'
BY DEF RemovalOk, Removing

LEMMA CallerQuiet ==
  ASSUME BaseInv, FileInv, NEW c \in Callers, Steps(c), UNCHANGED <<row, files>>,
         DOMAIN clips' = DOMAIN clips, RemovalOk(c)'
  PROVE  FileInv'
<1>1. Filed' /\ c \in Actors
  BY KeptSame DEF ClipFile, Actors
<1> QED BY <1>1, CallerFile

(* The steps that move a file or a row                                      *)
LEMMA PlaceFile ==
  ASSUME BaseInv, FileInv, NEW c \in Callers, PlaceDerivative(c)
  PROVE  FileInv'
<1>0. Typed /\ ActorInv /\ ClipInv /\ c \in Actors
  BY DEF BaseInv, Actors
<1>1. /\ Steps(c) /\ pc[c].at = "place" /\ UNCHANGED <<row, clips, raced>>
      /\ \/ /\ pc'[c].at = "insert" /\ pc'[c].art = pc[c].art
            /\ row[Cut(pc[c].art)] = "none" /\ files' = files \cup {Cut(pc[c].art)}
         \/ pc'[c] = Idle /\ files' = files
  BY <1>0, PlaceEffect
<1>2. CASE pc'[c] = Idle /\ files' = files
  BY <1>1, <1>2, CallerQuiet, RemovalLeft DEF Idle, Removing
<1>3. CASE pc'[c].at = "insert" /\ pc'[c].art = pc[c].art
           /\ row[Cut(pc[c].art)] = "none" /\ files' = files \cup {Cut(pc[c].art)}
  <2>1. \A k \in DOMAIN clips : clips[k].art # Cut(pc[c].art)
    BY <1>0, <1>3 DEF ClipInv
  <2>2. RemovalOk(c)'
    BY <1>1, <1>3, <2>1 DEF RemovalOk, Removing
  <2>3. Filed'
    BY <1>0, <1>1, <1>3, KeptSame DEF ClipFile
  <2> QED BY <1>1, <1>3, <2>2, <2>3, CallerFile
<1> QED BY <1>1, <1>2, <1>3

LEMMA InsertFile ==
  ASSUME BaseInv, FileInv, NEW c \in Callers, InsertDerivative(c)
  PROVE  FileInv'
<1>0. Typed /\ ActorInv /\ ClipInv
  BY DEF BaseInv
<1> DEFINE d == Cut(pc[c].art)
<1>1. /\ Steps(c) /\ pc[c].at = "insert" /\ pc'[c].at = "clean"
      /\ UNCHANGED <<files, raced>>
      /\ DOMAIN clips' = DOMAIN clips \cup {Len(clips) + 1}
      /\ \A j \in DOMAIN clips : clips'[j] = clips[j]
      /\ clips'[Len(clips) + 1].art = d
      /\ row'[d] = "present"
      /\ \A v \in Contents : v # d => row'[v] = row[v]
  BY <1>0, InsertEffect
<1>2. d \in files /\ holder = c
  BY <1>0, <1>1 DEF FileInv, RemovalOk, ActorInv, CallerOk, Holding
<1> HIDE DEF d
<1>3. RemovalOk(c)'
  BY <1>1, RemovalLeft DEF Removing
<1>4. Filed'
  <2> SUFFICES ASSUME NEW k \in DOMAIN clips', Kept(k)'
      PROVE  row'[clips'[k].art] = "present" /\ clips'[k].art \in files'
    BY DEF Filed, ClipFile
  <2>1. CASE k = Len(clips) + 1
    BY <1>1, <1>2, <2>1
  <2>2. CASE k \in DOMAIN clips
    <3>1. Kept(k) /\ clips'[k] = clips[k] /\ clips[k].art \in Contents
      BY <1>0, <1>1, <2>2, RowTyped DEF Kept, ClipRow
    <3>2. row[clips[k].art] = "present" /\ clips[k].art \in files
      BY <2>2, <3>1 DEF FileInv, ClipFile
    <3> QED BY <1>1, <3>1, <3>2
  <2> QED BY <1>1, <2>1, <2>2
<1> QED BY <1>1, <1>2, <1>3, <1>4, CallerFile

LEMMA FailInsertFile ==
  ASSUME BaseInv, FileInv, NEW c \in Callers, FailInsert(c)
  PROVE  FileInv'
<1>0. Typed /\ ActorInv /\ ClipInv /\ c \in Actors
  BY DEF BaseInv, Actors
<1>1. /\ Steps(c) /\ pc[c].at = "insert" /\ pc'[c] = Idle
      /\ UNCHANGED <<row, clips, raced>> /\ files' = files \ {Cut(pc[c].art)}
  BY <1>0, FailInsertEffect
<1>2. /\ holder = c /\ pc[c].art \in Videos
      /\ \A k \in DOMAIN clips : clips[k].art # Cut(pc[c].art)
  BY <1>0, <1>1 DEF FileInv, RemovalOk, ActorInv, CallerOk, Holding, Trimming
<1>3. Cut(pc[c].art) \notin Videos
  BY <1>2, CutTyped
<1>4. RemovalOk(c)'
  BY <1>1, RemovalLeft DEF Removing, Idle
<1>5. Filed'
  BY <1>0, <1>1, <1>2, KeptSame DEF ClipFile
<1> QED BY <1>1, <1>2, <1>3, <1>4, <1>5, CallerFile

LEMMA StrandFile ==
  ASSUME BaseInv, FileInv, NEW c \in Callers, StrandDerivative(c)
  PROVE  FileInv'
<1>0. Typed /\ ActorInv /\ ClipInv /\ c \in Actors
  BY DEF BaseInv, Actors
<1>1. /\ Steps(c) /\ pc'[c] = Idle /\ UNCHANGED <<row, clips, raced>>
      /\ files' = files \cup {Cut(pc[c].art)}
  BY <1>0, StrandEffect
<1>2. RemovalOk(c)'
  BY <1>1, RemovalLeft DEF Removing, Idle
<1>3. Filed'
  BY <1>0, <1>1, KeptSame DEF ClipFile
<1> QED BY <1>1, <1>2, <1>3, CallerFile

LEMMA DeletionFile ==
  ASSUME BaseInv, FileInv, NEW c \in Callers,
         \/ \E k \in DOMAIN clips : Delete(c, k)
         \/ Tombstone(c)
  PROVE  FileInv'
<1>0. Typed /\ ActorInv /\ ClipInv /\ c \in Actors /\ Live \in Actors /\ c # Live
  BY LiveActor, LibraryAssumption DEF BaseInv, Actors
<1>1. ASSUME NEW k \in DOMAIN clips, Delete(c, k) PROVE FileInv'
  <2>1. /\ Steps(c) /\ UNCHANGED <<row, files, clips>>
        /\ pc'[c].at = "tombstone" /\ pc'[c].art = clips[k].art
        /\ Storing(clips[k].art) => clips[k].art \in raced'
    BY <1>0, <1>1, DeleteEffect
  <2>2. pc'[Live] = pc[Live]
    BY <1>0, <2>1 DEF Steps, Others
  <2>3. RemovalOk(c)'
    BY <2>1, <2>2 DEF RemovalOk, Storing
  <2> QED BY <2>1, <2>3, CallerQuiet
<1>2. CASE Tombstone(c)
  <2>1. /\ Steps(c) /\ pc[c].at = "tombstone" /\ pc'[c].at = "recount" /\ pc'[c].art = pc[c].art
        /\ UNCHANGED <<row, files, raced>> /\ DOMAIN clips' = DOMAIN clips
    BY <1>0, <1>2, TombstoneEffect
  <2>2. pc'[Live] = pc[Live]
    BY <1>0, <2>1 DEF Steps, Others
  <2>3. RemovalOk(c)'
    BY <2>1, <2>2 DEF FileInv, RemovalOk, Storing, Removing
  <2> QED BY <2>1, <2>3, CallerQuiet
<1> QED BY <1>1, <1>2

LEMMA RemoveFileFile ==
  ASSUME BaseInv, FileInv, NEW c \in Callers, RemoveFile(c)
  PROVE  FileInv'
<1>0. Typed /\ ActorInv /\ ClipInv /\ c \in Actors /\ Live \in Actors /\ c # Live
  BY LiveActor, LibraryAssumption DEF BaseInv, Actors
<1>1. /\ Steps(c) /\ pc[c].at = "recount" /\ UNCHANGED <<row, clips, raced>>
      /\ \/ pc'[c] = Idle /\ files' = files
         \/ /\ pc'[c].at = "mark" /\ pc'[c].art = pc[c].art
            /\ Sharers(pc[c].art) = {} /\ files' \in {files, files \ {pc[c].art}}
  BY <1>0, RemoveEffect
<1>2. CASE pc'[c] = Idle /\ files' = files
  BY <1>1, <1>2, CallerQuiet, RemovalLeft DEF Idle, Removing
<1>3. CASE /\ pc'[c].at = "mark" /\ pc'[c].art = pc[c].art
           /\ Sharers(pc[c].art) = {} /\ files' \in {files, files \ {pc[c].art}}
  <2>1. holder = c /\ pc'[Live] = pc[Live]
        /\ (Storing(pc[c].art) => pc[c].art \in raced)
    BY <1>0, <1>1 DEF ActorInv, CallerOk, Holding, Steps, Others, FileInv, RemovalOk, Removing
  <2>2. RemovalOk(c)'
    BY <1>1, <1>3, <2>1 DEF RemovalOk, Storing, Sharers
  <2>3. \A k \in DOMAIN clips : ~clips[k].deleted => clips[k].art # pc[c].art
    BY <1>3 DEF Sharers
  <2>4. Filed'
    BY <1>0, <1>1, <1>3, <2>3, KeptSame DEF ClipFile
  <2>5. \A v \in Videos \cap files : Storing(v) => v \in files' \cup raced
    BY <1>3, <2>1
  <2> QED BY <1>1, <2>1, <2>2, <2>4, <2>5, CallerFile
<1> QED BY <1>1, <1>2, <1>3

LEMMA MarkFile ==
  ASSUME BaseInv, FileInv, NEW c \in Callers, MarkDeleted(c)
  PROVE  FileInv'
<1>0. Typed /\ ActorInv /\ ClipInv /\ c \in Actors
  BY DEF BaseInv, Actors
<1>1. /\ Steps(c) /\ pc[c].at = "mark" /\ pc'[c] = Idle /\ UNCHANGED <<files, clips, raced>>
      /\ \A v \in Contents : v # pc[c].art => row'[v] = row[v]
  BY <1>0, MarkEffect
<1>2. \A k \in DOMAIN clips : Kept(k) => clips[k].art # pc[c].art
  BY <1>1 DEF FileInv, RemovalOk, Sharers, Kept
<1>3. \A k \in DOMAIN clips : clips[k].art \in Contents
  BY <1>0, RowTyped DEF ClipRow
<1>4. Filed'
  BY <1>0, <1>1, <1>2, <1>3, KeptSame DEF ClipFile
<1> QED BY <1>1, <1>4, CallerFile, RemovalLeft DEF Idle, Removing

LEMMA CallerFiles ==
  ASSUME BaseInv, FileInv, NEW c \in Callers,
         Review(c) \/ Trim(c) \/ ExportClip(c) \/ DeleteClip(c)
  PROVE  FileInv'
<1>0. Typed /\ ActorInv /\ ClipInv /\ Idle.at \notin Removing \cup {"insert"} /\ Steps(c)
  BY CallerBase DEF BaseInv, Idle, Removing
<1>1. ASSUME NEW k \in DOMAIN clips, NEW step \in Loaded, Loads(c, k, step) PROVE FileInv'
  <2>1. Load(c, k, step) /\ step \in Stages /\ step \notin Removing \cup {"insert"}
    BY <1>1 DEF Loads, Loaded, Stages, Reviewing, Removing
  <2>2. UNCHANGED <<row, files, clips>> /\ pc'[c].at = step
    <3>1. /\ UNCHANGED store
          /\ pc'[c] = [at |-> step, clip |-> k, revision |-> clips[k].revision, art |-> clips[k].art]
      BY <1>0, <2>1, LoadEffect
    <3> QED BY <3>1 DEF store
  <2> QED BY <1>0, <2>1, <2>2, CallerQuiet, RemovalLeft
<1>2. ASSUME NEW d \in {"keep", "reject"}, Swap(c, d) PROVE FileInv'
  BY <1>0, <1>2, SwapEffect, CallerQuiet, RemovalLeft
<1>3. CASE Prepare(c)
  <2>1. /\ UNCHANGED <<row, files, clips>>
        /\ pc'[c].at \in {"verify", "promote", "stage"} \/ pc'[c] = Idle
    BY <1>0, <1>3, PrepareEffect DEF Prepare
  <2>2. RemovalOk(c)'
    BY <1>0, <2>1, RemovalLeft DEF Removing
  <2> QED BY <1>0, <2>1, <2>2, CallerQuiet
<1>4. CASE Export(c)
  BY <1>0, <1>4, ExportEffect, CallerQuiet, RemovalLeft
<1>5. CASE StageDerivative(c)
  <2>1. /\ UNCHANGED <<row, files, clips>>
        /\ pc'[c].at = "place" \/ pc'[c] = Idle
    BY <1>0, <1>5, StageEffect
  <2>2. RemovalOk(c)'
    BY <1>0, <2>1, RemovalLeft DEF Removing
  <2> QED BY <1>0, <2>1, <2>2, CallerQuiet
<1> QED BY <1>1, <1>2, <1>3, <1>4, <1>5, PlaceFile, InsertFile, FailInsertFile, StrandFile,
           DeletionFile, RemoveFileFile, MarkFile, CallerCases
-----------------------------------------------------------------------------
(* A step of the live runtime                                               *)
LEMMA LiveFile ==
  ASSUME BaseInv, FileInv, Steps(Live), Filed', StoringOk', files \subseteq files',
         \A j \in DOMAIN clips' \ DOMAIN clips :
           clips'[j].art \in Videos /\ Storing(clips'[j].art),
         \A c \in Callers :
           pc[c].at \in Removing /\ Storing(pc[c].art)' => Storing(pc[c].art) \/ pc[c].art \in raced'
  PROVE  FileInv'
<1>1. \A c \in Callers : RemovalOk(c)'
  BY LiveActor, LibraryAssumption, RemovalFrame
<1> QED BY <1>1 DEF FileInv, Filed

LEMMA LiveFiles ==
  ASSUME BaseInv, FileInv, Capture
  PROVE  FileInv'
<1>0. /\ Typed /\ ActorInv /\ ClipInv /\ Steps(Live) /\ Live \in Actors
      /\ \A c \in Callers : c # Live /\ c \in Actors
  BY LiveActor, LiveBase, LibraryAssumption DEF BaseInv, Actors
<1>1. \A c \in Callers : pc'[c] = pc[c]
  BY <1>0 DEF Steps, Others
<1>2. Idle.at = "idle"
  BY DEF Idle
<1>3. ASSUME NEW v \in Videos, StageCapture(v) PROVE FileInv'
  <2>1. /\ pc[Live].at = "idle" /\ pc'[Live].at = "commit" /\ pc'[Live].art = v
        /\ UNCHANGED <<row, files, clips>> /\ (Deleting(v) => v \in raced')
    BY <1>0, <1>3, StageCaptureEffect
  <2>2. Filed' /\ StoringOk'
    BY <1>0, <2>1, KeptSame DEF ClipFile, StoringOk
  <2>3. ASSUME NEW c \in Callers, pc[c].at \in Removing, Storing(pc[c].art)' PROVE pc[c].art \in raced'
    BY <1>1, <2>1, <2>3 DEF Storing, Deleting, Removing
  <2> QED BY <1>0, <2>1, <2>2, <2>3, LiveFile
<1>4. CASE CommitFile
  <2>1. /\ pc[Live].at = "commit" /\ UNCHANGED <<row, clips>> /\ files \subseteq files'
        /\ \/ /\ pc'[Live].at = "catalog" /\ pc'[Live].art = pc[Live].art
              /\ files' = files \cup {pc[Live].art}
           \/ pc'[Live] = Idle
    BY <1>0, <1>4, CommitFileEffect
  <2>2. Filed'
    BY <1>0, <2>1, KeptSame DEF ClipFile
  <2>3. StoringOk'
    BY <1>2, <2>1 DEF StoringOk
  <2>4. \A c \in Callers : Storing(pc[c].art)' => Storing(pc[c].art)
    BY <1>1, <1>2, <2>1 DEF Storing
  <2> QED BY <1>0, <2>1, <2>2, <2>3, <2>4, LiveFile
<1>5. CASE CommitRow
  <2>1. /\ pc[Live].at = "catalog" /\ UNCHANGED <<files, clips, raced>>
        /\ \/ pc'[Live].at = "clip" /\ pc'[Live].art = pc[Live].art
           \/ pc'[Live] = Idle
        /\ \A v \in Contents : row'[v] \in {row[v], "present"}
    BY <1>0, <1>5, CommitRowEffect
  <2>2. \A k \in DOMAIN clips : clips[k].art \in Contents
    BY <1>0, RowTyped DEF ClipRow
  <2>3. Filed'
    BY <1>0, <2>1, <2>2, KeptSame DEF ClipFile
  <2>4. StoringOk'
    BY <1>2, <2>1 DEF StoringOk, FileInv
  <2>5. \A c \in Callers : Storing(pc[c].art)' => Storing(pc[c].art)
    BY <1>1, <1>2, <2>1 DEF Storing
  <2> QED BY <1>0, <2>1, <2>3, <2>4, <2>5, LiveFile
<1>6. CASE CreateClip
  <2>1. /\ pc[Live].at = "clip" /\ UNCHANGED <<row, files, raced>> /\ pc[Live].art \in Videos
        /\ \/ /\ pc'[Live].at = "name" /\ pc'[Live].art = pc[Live].art
              /\ DOMAIN clips' = DOMAIN clips \cup {Len(clips) + 1}
              /\ \A j \in DOMAIN clips : clips'[j] = clips[j]
              /\ clips'[Len(clips) + 1].art = pc[Live].art
              /\ row[pc[Live].art] = "present"
           \/ pc'[Live] = Idle /\ clips' = clips
    BY <1>0, <1>6, CreateEffect
  <2>2. StoringOk' /\ pc[Live].art \in files \cup raced /\ Storing(pc[Live].art)
    BY <1>2, <2>1 DEF StoringOk, FileInv, Storing
  <2>3. \A c \in Callers : Storing(pc[c].art)' => Storing(pc[c].art)
    BY <1>1, <1>2, <2>1 DEF Storing
  <2>4. Filed'
    <3> SUFFICES ASSUME NEW k \in DOMAIN clips', Kept(k)'
        PROVE  row'[clips'[k].art] = "present" /\ clips'[k].art \in files'
      BY DEF Filed, ClipFile
    <3>1. CASE k \in DOMAIN clips
      <4>1. clips'[k] = clips[k]
        BY <2>1, <3>1
      <4> QED BY <2>1, <3>1, <4>1 DEF FileInv, ClipFile, Kept
    <3>2. CASE k \notin DOMAIN clips
      BY <2>1, <2>2, <3>2 DEF Kept
    <3> QED BY <3>1, <3>2
  <2>5. \A j \in DOMAIN clips' \ DOMAIN clips :
          clips'[j].art \in Videos /\ Storing(clips'[j].art)
    BY <2>1, <2>2
  <2> QED BY <1>0, <2>1, <2>2, <2>3, <2>4, <2>5, LiveFile
<1>7. CASE NameClip
  <2>1. /\ pc'[Live] = Idle /\ UNCHANGED <<row, files, raced>> /\ DOMAIN clips' = DOMAIN clips
        /\ \A j \in DOMAIN clips : clips'[j].art = clips[j].art /\ clips'[j].deleted = clips[j].deleted
    BY <1>0, <1>7, NameEffect
  <2>2. Filed'
    BY <1>0, <2>1, KeptSame DEF ClipFile
  <2>3. StoringOk'
    BY <1>2, <2>1 DEF StoringOk
  <2>4. \A c \in Callers : Storing(pc[c].art)' => Storing(pc[c].art)
    BY <1>1, <1>2, <2>1 DEF Storing
  <2> QED BY <1>0, <2>1, <2>2, <2>3, <2>4, LiveFile
<1> QED BY <1>3, <1>4, <1>5, <1>6, <1>7, LiveCases
LEMMA FileStep == BaseInv /\ FileInv /\ [Next]_vars => FileInv'
<1> SUFFICES ASSUME BaseInv, FileInv, [Next]_vars PROVE FileInv'
  OBVIOUS
<1>1. CASE Open
  <2>1. /\ UNCHANGED <<files, clips, raced>>
        /\ UNCHANGED pc \/ \A a \in Actors : pc'[a] = Idle
        /\ \A v \in Contents : row[v] = "present" /\ v \in files => row'[v] = "present"
    BY <1>1, OpenEffect DEF BaseInv
  <2>2. \A k \in DOMAIN clips : clips[k].art \in Contents
    BY RowTyped DEF ClipRow, BaseInv
  <2>3. Filed'
    BY <2>1, <2>2 DEF Filed, FileInv, Kept, ClipFile
  <2>4. CASE UNCHANGED pc
    BY <2>1, <2>3, <2>4 DEF FileInv, Filed, RemovalOk, StoringOk, Storing, Sharers
  <2>5. CASE \A a \in Actors : pc'[a] = Idle
    <3>1. \A c \in Callers : RemovalOk(c)'
      BY <2>5, RemovalLeft DEF Actors, Idle, Removing
    <3>2. StoringOk'
      BY <2>5, LiveActor DEF StoringOk, Idle
    <3> QED BY <2>3, <3>1, <3>2 DEF FileInv, Filed
  <2> QED BY <2>1, <2>4, <2>5
<1>2. CASE UNCHANGED vars
  BY <1>2 DEF FileInv, RemovalOk, StoringOk, Storing, Sharers, Kept, ClipFile, vars, store
<1> QED BY <1>1, <1>2, CallerFiles, LiveFiles DEF Next

LEMMA FilesKept == Spec => []FileInv
<1>1. Init => FileInv
  BY LiveActor DEF Init, FileInv, RemovalOk, StoringOk, Idle, Removing, Actors
<1> QED BY <1>1, FileStep, Base, PTL DEF Spec

(* A Clip that is not deleted keeps its file and its row through failing    *)
(* statements, crashes, second openings, trims of it and deletions of the   *)
(* Clips it shares its file with, so that, once named, it can be loaded     *)
(* (LiveClipHasFile; delete_clip, commit_clip_derivative,                   *)
(* recover_artifacts).                                                      *)
THEOREM LibraryFiles == Spec => []LiveClipHasFile
<1>1. BaseInv /\ FileInv => LiveClipHasFile
  BY DEF BaseInv, ClipInv, FileInv, Kept, LiveClipHasFile, Loadable
<1> QED BY <1>1, Base, FilesKept, PTL
-----------------------------------------------------------------------------
(* What a trim leaves.                                                      *)
Derived == {"verify", "promote", "stage", "place", "insert", "clean"}

CutsInv == \A c \in Callers : c \in cuts => pc[c].at \in Derived

Owned(d) ==
  \/ \E k \in DOMAIN clips : clips[k].art = d
  \/ \E c \in Callers : pc[c].at = "insert" /\ Cut(pc[c].art) = d
  \/ d \in stranded

(* A failure is not forgotten.                                              *)
LEMMA StrandedStays == [Next]_vars => stranded \subseteq stranded'
<1> SUFFICES ASSUME [Next]_vars PROVE stranded \subseteq stranded'
  OBVIOUS
<1> USE DEF Calm, Fails
<1>1. ASSUME NEW c \in Callers, Review(c) PROVE stranded \subseteq stranded'
  BY <1>1 DEF Review, LoadToKeep, LoadToReject, Load, Swap
<1>2. ASSUME NEW c \in Callers, Trim(c) PROVE stranded \subseteq stranded'
  <2>1. CASE \/ (\E k \in DOMAIN clips : LoadToTrim(c, k)) \/ Encode(c) \/ EncodeStops(c)
             \/ Verify(c) \/ VerifyRejects(c) \/ Promote(c) \/ CleanDerivative(c)
    BY <2>1 DEF LoadToTrim, Load, Encode, EncodeStops, Verify, VerifyRejects, Promote,
                CleanDerivative, Abandon
  <2>2. CASE \/ StageDerivative(c) \/ PlaceDerivative(c) \/ InsertDerivative(c)
             \/ FailInsert(c) \/ StrandDerivative(c)
    BY <2>2 DEF StageDerivative, PlaceDerivative, InsertDerivative, FailInsert, StrandDerivative
  <2> QED BY <1>2, <2>1, <2>2 DEF Trim
<1>3. ASSUME NEW c \in Callers, ExportClip(c) \/ DeleteClip(c) PROVE stranded \subseteq stranded'
  BY <1>3 DEF ExportClip, LoadToExport, Load, Export, DeleteClip, Delete, Tombstone, RemoveFile,
              MarkDeleted
<1>4. CASE Capture
  BY <1>4 DEF Capture, StageCapture, CommitFile, CommitRow, CreateClip, NameClip
<1>5. CASE Open \/ UNCHANGED vars
  BY <1>5 DEF Open, RecoverStaging, MarkMissing, AdoptFiles, vars
<1> QED BY <1>1, <1>2, <1>3, <1>4, <1>5 DEF Next

LeftInv == opening = "never" => \A v \in Videos : Cut(v) \in files => Owned(Cut(v))

LEMMA CutsFrame ==
  ASSUME CutsInv, NEW a \in Actors, Others(a),
         \A c \in Callers : c # a /\ c \in cuts' => c \in cuts,
         a \in Callers /\ a \in cuts' => pc'[a].at \in Derived
  PROVE  CutsInv'
BY DEF CutsInv, Others, Actors

(* One that writes no derivative, and has none                              *)
LEMMA CutsUnused ==
  ASSUME CutsInv, NEW c \in Callers, Steps(c), UNCHANGED cuts, pc[c].at \notin Derived
  PROVE  CutsInv'
BY CutsFrame DEF CutsInv, Actors, Steps

LEMMA LeftFrame ==
  ASSUME LeftInv, UNCHANGED opening, stranded \subseteq stranded', NEW a \in Actors, Steps(a), files' \subseteq files \cup Videos,
         pc[a].at # "insert" \/ a \notin Callers
  PROVE  LeftInv'
<1> SUFFICES ASSUME opening = "never", NEW v \in Videos, Cut(v) \in files' PROVE Owned(Cut(v))'
  BY DEF LeftInv
<1>1. Owned(Cut(v))
  BY CutTyped DEF LeftInv
<1>2. CASE \E k \in DOMAIN clips : clips[k].art = Cut(v)
  BY <1>2 DEF Owned, Steps, ClipsStep
<1>3. ASSUME NEW c \in Callers, pc[c].at = "insert", Cut(pc[c].art) = Cut(v) PROVE Owned(Cut(v))'
  <2>1. pc'[c] = pc[c]
    BY <1>3 DEF Steps, Others, Actors
  <2> QED BY <1>3, <2>1 DEF Owned
<1>4. CASE Cut(v) \in stranded
  BY <1>4 DEF Owned
<1> QED BY <1>1, <1>2, <1>3, <1>4 DEF Owned

LEMMA CallerCuts ==
  ASSUME BaseInv, CutsInv, NEW c \in Callers,
         Review(c) \/ Trim(c) \/ ExportClip(c) \/ DeleteClip(c)
  PROVE  CutsInv'
<1>0. Typed /\ ActorInv /\ ClipInv /\ Steps(c) /\ Others(c) /\ c \in Actors
  BY CallerBase DEF BaseInv, Steps, Actors
<1>1. ASSUME NEW k \in DOMAIN clips, NEW step \in Loaded, Loads(c, k, step) PROVE CutsInv'
  <2>1. UNCHANGED cuts /\ pc[c].at = "idle"
    BY <1>1 DEF Loads, Load, At, store
  <2> QED BY <1>0, <2>1, CutsUnused DEF Derived
<1>2. ASSUME NEW k \in DOMAIN clips, Delete(c, k) PROVE CutsInv'
  BY <1>0, <1>2, DeleteEffect, CutsUnused DEF Derived
<1>3. ASSUME NEW d \in {"keep", "reject"}, Swap(c, d) PROVE CutsInv'
  BY <1>0, <1>3, SwapEffect, CutsUnused DEF Derived
<1>4. CASE Prepare(c)
  <2>1. \/ pc'[c].at \in {"verify", "promote", "stage"} /\ cuts' \in {cuts, cuts \cup {c}}
        \/ cuts' = cuts \ {c}
    BY <1>0, <1>4, PrepareEffect DEF Prepare
  <2> QED BY <1>0, <2>1, CutsFrame DEF Derived
<1>5. CASE Export(c)
  BY <1>0, <1>5, ExportEffect, CutsUnused DEF Derived
<1>6. CASE StageDerivative(c)
  <2>1. (pc'[c].at = "place" /\ cuts' = cuts) \/ cuts' = cuts \ {c}
    BY <1>0, <1>6, StageEffect
  <2> QED BY <1>0, <2>1, CutsFrame DEF Derived
<1>7. CASE PlaceDerivative(c)
  <2>1. (pc'[c].at = "insert" /\ cuts' = cuts) \/ cuts' = cuts \ {c}
    BY <1>0, <1>7, PlaceEffect
  <2> QED BY <1>0, <2>1, CutsFrame DEF Derived
<1>8. CASE InsertDerivative(c)
  BY <1>0, <1>8, InsertEffect, CutsFrame DEF Derived
<1>9. CASE FailInsert(c)
  <2>1. cuts' = cuts \ {c}
    BY <1>0, <1>9, FailInsertEffect
  <2> QED BY <1>0, <2>1, CutsFrame
<1>10. CASE Tombstone(c) \/ RemoveFile(c) \/ MarkDeleted(c)
  <2>1. UNCHANGED cuts /\ pc[c].at \in Removing
    BY <1>10 DEF Tombstone, RemoveFile, MarkDeleted, At, Removing
  <2> QED BY <1>0, <2>1, CutsUnused DEF Derived, Removing
<1>11. CASE StrandDerivative(c)
  <2>1. cuts' = cuts \ {c}
    BY <1>0, <1>11, StrandEffect
  <2> QED BY <1>0, <2>1, CutsFrame
<1> QED BY <1>1, <1>2, <1>3, <1>4, <1>5, <1>6, <1>7, <1>8, <1>9, <1>10, <1>11, CallerCases

LEMMA CallerLeft ==
  ASSUME BaseInv, LeftInv, stranded \subseteq stranded', NEW c \in Callers,
         Review(c) \/ Trim(c) \/ ExportClip(c) \/ DeleteClip(c)
  PROVE  LeftInv'
<1>0. Typed /\ ActorInv /\ ClipInv /\ Steps(c) /\ c \in Actors
  BY CallerBase DEF BaseInv, Actors
<1>1. ASSUME NEW k \in DOMAIN clips, NEW step \in Loaded, Loads(c, k, step) PROVE LeftInv'
  <2>1. UNCHANGED <<files, opening>> /\ pc[c].at = "idle"
    BY <1>1 DEF Loads, Load, At, store, Calm
  <2> QED BY <1>0, <2>1, LeftFrame
<1>2. ASSUME NEW k \in DOMAIN clips, Delete(c, k) PROVE LeftInv'
  BY <1>0, <1>2, DeleteEffect, LeftFrame
<1>3. ASSUME NEW d \in {"keep", "reject"}, Swap(c, d) PROVE LeftInv'
  BY <1>0, <1>3, SwapEffect, LeftFrame
<1>4. CASE Prepare(c)
  <2>1. UNCHANGED <<files, opening>> /\ pc[c].at # "insert"
    BY <1>0, <1>4, PrepareEffect DEF Prepare, Before
  <2> QED BY <1>0, <2>1, LeftFrame
<1>5. CASE Export(c)
  BY <1>0, <1>5, ExportEffect, LeftFrame
<1>6. CASE StageDerivative(c)
  <2>1. UNCHANGED <<files, opening>> /\ pc[c].at = "stage"
    BY <1>0, <1>6, StageEffect
  <2> QED BY <1>0, <2>1, LeftFrame
<1>7. CASE PlaceDerivative(c)
  <2>1. /\ pc[c].at = "place" /\ UNCHANGED opening
        /\ \/ /\ pc'[c].at = "insert" /\ pc'[c].art = pc[c].art
              /\ files' = files \cup {Cut(pc[c].art)}
           \/ files' = files
    BY <1>0, <1>7, PlaceEffect
  <2>2. CASE files' = files
    BY <1>0, <2>1, <2>2, LeftFrame
  <2>3. CASE /\ pc'[c].at = "insert" /\ pc'[c].art = pc[c].art
             /\ files' = files \cup {Cut(pc[c].art)}
    <3> SUFFICES ASSUME opening = "never", NEW v \in Videos, Cut(v) \in files'
        PROVE  Owned(Cut(v))'
      BY <2>1 DEF LeftInv
    <3>1. CASE Cut(v) = Cut(pc[c].art)
      BY <2>3, <3>1 DEF Owned
    <3>2. CASE Cut(v) \in files
      <4>1. Owned(Cut(v))
        BY <3>2 DEF LeftInv
      <4>2. \A b \in Callers : pc[b].at = "insert" => pc'[b] = pc[b]
        BY <1>0, <2>1 DEF Steps, Others, Actors
      <4> QED BY <1>0, <4>1, <4>2 DEF Owned, Steps, ClipsStep
    <3> QED BY <2>3, <3>1, <3>2
  <2> QED BY <2>1, <2>2, <2>3
<1>8. CASE InsertDerivative(c)
  <2>1. /\ UNCHANGED <<files, opening>> /\ Len(clips) + 1 \in DOMAIN clips'
        /\ clips'[Len(clips) + 1].art = Cut(pc[c].art)
    BY <1>0, <1>8, InsertEffect
  <2> SUFFICES ASSUME opening = "never", NEW v \in Videos, Cut(v) \in files
      PROVE  Owned(Cut(v))'
    BY <2>1 DEF LeftInv
  <2>2. CASE Cut(v) = Cut(pc[c].art)
    BY <2>1, <2>2 DEF Owned
  <2>3. CASE Cut(v) # Cut(pc[c].art)
    <3>1. Owned(Cut(v))
      BY DEF LeftInv
    <3>2. \A b \in Callers : Cut(pc[b].art) = Cut(v) => pc'[b] = pc[b]
      BY <1>0, <2>3 DEF Steps, Others, Actors
    <3> QED BY <1>0, <3>1, <3>2 DEF Owned, Steps, ClipsStep
  <2> QED BY <2>2, <2>3
<1>9. CASE FailInsert(c)
  <2>1. UNCHANGED opening /\ files' = files \ {Cut(pc[c].art)}
    BY <1>0, <1>9, FailInsertEffect
  <2> SUFFICES ASSUME opening = "never", NEW v \in Videos, Cut(v) \in files'
      PROVE  Owned(Cut(v))'
    BY <2>1 DEF LeftInv
  <2>2. Owned(Cut(v)) /\ Cut(v) # Cut(pc[c].art)
    BY <2>1 DEF LeftInv
  <2>3. \A b \in Callers : Cut(pc[b].art) = Cut(v) => pc'[b] = pc[b]
    BY <1>0, <2>2 DEF Steps, Others, Actors
  <2> QED BY <1>0, <2>2, <2>3 DEF Owned, Steps, ClipsStep
<1>10. CASE Tombstone(c)
  BY <1>0, <1>10, TombstoneEffect, LeftFrame
<1>11. CASE RemoveFile(c)
  <2>1. UNCHANGED opening /\ pc[c].at = "recount" /\ files' \subseteq files
    BY <1>11 DEF RemoveFile, At, Calm
  <2> QED BY <1>0, <2>1, LeftFrame
<1>12. CASE MarkDeleted(c)
  BY <1>0, <1>12, MarkEffect, LeftFrame
<1>13. CASE StrandDerivative(c)
  <2>1. /\ UNCHANGED <<opening, clips>> /\ files' = files \cup {Cut(pc[c].art)}
        /\ Cut(pc[c].art) \in stranded'
    BY <1>0, <1>13, StrandEffect
  <2> SUFFICES ASSUME opening = "never", NEW v \in Videos, Cut(v) \in files,
                      Cut(v) # Cut(pc[c].art)
      PROVE  Owned(Cut(v))'
    BY <2>1 DEF LeftInv, Owned
  <2>2. Owned(Cut(v))
    BY DEF LeftInv
  <2>3. \A b \in Callers : Cut(pc[b].art) = Cut(v) => pc'[b] = pc[b]
    BY <1>0 DEF Steps, Others, Actors
  <2> QED BY <2>1, <2>2, <2>3 DEF Owned
<1> QED BY <1>1, <1>2, <1>3, <1>4, <1>5, <1>6, <1>7, <1>8, <1>9, <1>10, <1>11, <1>12, <1>13,
           CallerCases

LEMMA LiveLeaves ==
  ASSUME BaseInv, CutsInv, LeftInv, stranded \subseteq stranded', Capture
  PROVE  CutsInv' /\ LeftInv'
<1>0. Typed /\ ActorInv /\ ClipInv /\ Steps(Live) /\ Live \in Actors /\ Live \notin Callers
  BY LiveBase, LiveActor, LibraryAssumption DEF BaseInv
<1>1. UNCHANGED <<cuts, opening>> /\ files' \subseteq files \cup Videos
  <2>1. ASSUME NEW v \in Videos, StageCapture(v) PROVE UNCHANGED <<cuts, opening, files>>
    BY <2>1 DEF StageCapture
  <2>2. CASE CommitFile
    BY <1>0, <2>2, CommitFileEffect DEF CommitFile, Calm
  <2>3. CASE CommitRow \/ CreateClip \/ NameClip
    BY <2>3 DEF CommitRow, CreateClip, NameClip, Calm, Fails
  <2> QED BY <2>1, <2>2, <2>3, LiveCases
<1> QED BY <1>0, <1>1, CutsFrame, LeftFrame DEF Steps

LEMMA TrimStep == BaseInv /\ CutsInv /\ LeftInv /\ [Next]_vars => CutsInv' /\ LeftInv'
<1> SUFFICES ASSUME BaseInv, CutsInv, LeftInv, [Next]_vars PROVE CutsInv' /\ LeftInv'
  OBVIOUS
<1>1. CASE Open
  <2>1. /\ \/ UNCHANGED <<pc, cuts>>
           \/ cuts' \subseteq {None}
        /\ opening' \in {"mark", "adopt", "done"}
    BY <1>1, OpenEffect DEF BaseInv
  <2> QED BY <2>1, LibraryAssumption DEF CutsInv, LeftInv
<1>2. CASE UNCHANGED vars
  BY <1>2 DEF CutsInv, LeftInv, Owned, vars, store
<1> QED BY <1>1, <1>2, StrandedStays, CallerCuts, CallerLeft, LiveLeaves DEF Next

(* A trim that fails takes its derivative and its content with it: every    *)
(* error of prepare_derivative_and_review removes what was written, and so  *)
(* does one of commit_derivative, but where the file system fails behind    *)
(* the rename (FailedTrimLeavesNothing).                                    *)
THEOREM LibraryTrimLeavesNothing == Spec => []FailedTrimLeavesNothing
<1>1. Init => CutsInv /\ LeftInv
  BY DEF Init, CutsInv, LeftInv
<1>2. CutsInv /\ LeftInv => FailedTrimLeavesNothing
  BY DEF CutsInv, LeftInv, Owned, Derived, FailedTrimLeavesNothing, At
<1> QED BY <1>1, <1>2, TrimStep, Base, PTL DEF Spec
=============================================================================
