--------------------------- MODULE HighlightRules ---------------------------
(***************************************************************************)
(* openfrag-domain's highlight rules: how provisional candidates of a      *)
(* capture session are merged, and which provisional media a session       *)
(* keeps.                                                                  *)
(***************************************************************************)
EXTENDS Integers, Sequences, FiniteSets, FiniteSetsExt

CONSTANTS
    MergeGap,      \* CANDIDATE_MERGE_GAP_MS
    Retention,     \* PROVISIONAL_RETENTION_MS
    Budget,        \* CAPTURE_SESSION_BUDGET_BYTES
    MaxTime,       \* bound: the clock
    MaxCandidates, \* bound: candidates of the session
    MaxMedia,      \* bound: provisional media of the session
    RuleRounds,    \* rounds the candidates may belong to
    Sizes          \* sizes of provisional media

ASSUME HighlightAssumption ==
    /\ MergeGap \in Nat /\ Retention \in Nat /\ Budget \in Nat /\ MaxTime \in Nat
    /\ MaxCandidates \in Nat /\ MaxMedia \in Nat
    /\ RuleRounds \subseteq Nat /\ Sizes \subseteq Nat

VARIABLES
    seen,     \* every candidate of the session, as it was first raised
    merged,   \* the same candidates, merged again after each arrival
    media,    \* provisional media, oldest first
    clock

ruleVars == <<seen, merged, media, clock>>

-----------------------------------------------------------------------------
(* Candidates: a round, a range, the starts and the receipts of everything *)
(* that was merged into them.                                              *)

Candidate(round, from, to, receipt) ==
    [round |-> round, from |-> from, to |-> to, starts |-> {from}, receipts |-> {receipt}]

Candidates == [round : RuleRounds, from : Nat, to : Nat,
               starts : SUBSET Nat, receipts : (SUBSET Nat) \ {{}}]

(* The candidates of a session: finitely many, no receipt in two of them.  *)
CandidateSets ==
    {S \in SUBSET Candidates :
        /\ IsFiniteSet(S)
        /\ \A a, b \in S : a # b => a.receipts \cap b.receipts = {}}

Overlap(a, b) == a.from <= b.to /\ b.from <= a.to

Near(s, t) == s - t <= MergeGap /\ t - s <= MergeGap

(* Mutant: compares the merged ranges' starts, not those of their parts.   *)
CanMergeRanges(a, b) ==
    /\ a.round = b.round
    /\ Overlap(a, b) \/ Near(a.from, b.from)

CanMerge(a, b) ==
    /\ a.round = b.round
    /\ Overlap(a, b) \/ \E s \in a.starts, t \in b.starts : Near(s, t)

Merged(a, b) ==
    [round |-> a.round, from |-> Min({a.from, b.from}), to |-> Max({a.to, b.to}),
     starts |-> a.starts \cup b.starts, receipts |-> a.receipts \cup b.receipts]

(* candidate_order: round, range and receipts; sets compare like sorted    *)
(* lists.                                                                  *)
ListedBefore(S, T) ==
    /\ S # T
    /\ LET d == Min((S \ T) \cup (T \ S))
       IN  IF d \in S THEN \E t \in T : t > d ELSE \A s \in S : s < d

Before(a, b) ==
    \/ a.round < b.round
    \/ a.round = b.round /\ a.from < b.from
    \/ a.round = b.round /\ a.from = b.from /\ a.to < b.to
    \/ a.round = b.round /\ a.from = b.from /\ a.to = b.to /\ ListedBefore(a.receipts, b.receipts)

Pairs(S) == {p \in S \X S : Before(p[1], p[2]) /\ CanMerge(p[1], p[2])}

(* The pair the loop takes: its left part comes first, then its right one. *)
FirstPair(S) ==
    CHOOSE p \in Pairs(S) : \A q \in Pairs(S) \ {p} :
        Before(p[1], q[1]) \/ (p[1] = q[1] /\ Before(p[2], q[2]))

Fuse(S, p) == (S \ {p[1], p[2]}) \cup {Merged(p[1], p[2])}

MergeCandidates[S \in CandidateSets] ==
    IF Pairs(S) = {} THEN S ELSE MergeCandidates[Fuse(S, FirstPair(S))]

-----------------------------------------------------------------------------
(* Retention of provisional media: [id, created, bytes, confirmed].        *)

Floor(x) == IF x < 0 THEN 0 ELSE x

Expired(m, now) == ~m.confirmed /\ Floor(now - m.created) >= Retention

Older(m, n) == m.created < n.created \/ (m.created = n.created /\ m.id < n.id)

Bytes(M) == MapThenSumSet(LAMBDA m : m.bytes, M)

Unexpired(M, now) == {m \in M : ~m.confirmed /\ ~Expired(m, now)}

(* Mutant: evicts the newest media first.                                  *)
EvictedNewest(M, now) ==
    {m \in Unexpired(M, now) :
        Bytes({n \in Unexpired(M, now) : ~Older(m, n)}) > Budget}

(* The loop evicts the oldest media first, until the rest fits: an item is *)
(* evicted while it and what is newer exceed the budget.                   *)
Evicted(M, now) ==
    {m \in Unexpired(M, now) :
        Bytes({n \in Unexpired(M, now) : ~Older(n, m)}) > Budget}

Decision(m, M, now) == IF Expired(m, now) THEN "expired"
                       ELSE IF m \in Evicted(M, now) THEN "evicted" ELSE "retain"

-----------------------------------------------------------------------------
(* A session: candidates arrive in any order and are merged as they come;  *)
(* captures become provisional media; the user confirms some; time passes. *)

RuleInit == seen = {} /\ merged = {} /\ media = {} /\ clock = 0

Raise(round, from, to) ==
    /\ Cardinality(seen) < MaxCandidates /\ from <= to
    /\ LET c == Candidate(round, from, to, Cardinality(seen) + 1)
       IN  /\ seen' = seen \cup {c}
           /\ merged' = MergeCandidates[merged \cup {c}]
    /\ UNCHANGED <<media, clock>>

Keep(bytes) ==
    /\ Cardinality(media) < MaxMedia
    /\ media' = media \cup {[id |-> Cardinality(media) + 1, created |-> clock,
                             bytes |-> bytes, confirmed |-> FALSE]}
    /\ UNCHANGED <<seen, merged, clock>>

Confirm(m) ==
    /\ ~m.confirmed
    /\ media' = (media \ {m}) \cup {[m EXCEPT !.confirmed = TRUE]}
    /\ UNCHANGED <<seen, merged, clock>>

Pass == clock < MaxTime /\ clock' = clock + 1 /\ UNCHANGED <<seen, merged, media>>

CandidateNext == \E round \in RuleRounds, from, to \in 0..MaxTime : Raise(round, from, to)

MediaNext == Pass \/ (\E bytes \in Sizes : Keep(bytes)) \/ (\E m \in media : Confirm(m))

RuleSpec == RuleInit /\ [][CandidateNext \/ MediaNext]_ruleVars

-----------------------------------------------------------------------------

(* All that merging could lead to, were the pairs taken in any order.      *)
NormalForms[S \in CandidateSets] ==
    IF Pairs(S) = {} THEN {S} ELSE UNION {NormalForms[Fuse(S, p)] : p \in Pairs(S)}

(* Merging does not depend on the order of arrival nor on the pair that is *)
(* taken first, and merging again after each arrival gives what merging    *)
(* them all at the end gives (merge_candidates).                           *)
MergeIsConfluent == NormalForms[seen] = {merged}

(* What has expired or was evicted is not taken back as time passes and    *)
(* more is recorded: only a confirmation makes room (retention_decisions). *)
DroppedStaysDropped ==
    [][\A m \in media : /\ m \in media'
                        /\ Decision(m, media, clock) # "retain"
                        /\ \A n \in media' : n.confirmed => n \in media
                        => Decision(m, media', clock') # "retain"]_ruleVars
=============================================================================
