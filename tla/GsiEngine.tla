------------------------------ MODULE GsiEngine ------------------------------
(***************************************************************************)
(* The Game State Integration listener (crates/openfrag-gsi/src/lib.rs):   *)
(* EngineState, route_post and poll_stale.                                 *)
(*                                                                         *)
(* Posts are handled by concurrent tasks.  A task checks its request and   *)
(* stamps it before it takes the engine's mutex, and holds the mutex while *)
(* the sink persists the receipt, so stamps and receipts may come in       *)
(* different orders.  The poller does the same with its own stamp.         *)
(*                                                                         *)
(* A payload stands for its body, so equal payloads have equal hashes.     *)
(* "session" is the map name and mode, "counter" stands for the values     *)
(* whose decrease means a reset besides the round (kills, deaths, provider *)
(* timestamp), and of the facts those are kept that something reads later. *)
(***************************************************************************)
EXTENDS Naturals, Sequences, FiniteSets

CONSTANTS
  Payloads,    \* [session, round, counter, roundKills]: bodies CS2 may post
  None,        \* the Option::None of the code
  Window,      \* DUPLICATE_WINDOW
  StaleAfter,  \* stale_after(heartbeat)
  MaxTasks,    \* bound on the posts handled at a time
  MaxTime,     \* bound on the clock
  MaxReceipts, \* bound on the receipts
  MaxFaults    \* bound on failing sinks and rejected posts

Optional(S) == S \cup {None}
Outputs == {"seeded", "healthy", "stale", "recovered", "session_reset"}
Fact == [kind : {"round_kills", "round_end"}, value : Nat]
Gap == {"identity", "malformed"}
Receipt == [sequence : Nat, receivedAt : Nat, payload : Payloads, output : Outputs,
            facts : SUBSET Fact, gaps : SUBSET Gap]

ASSUME GsiAssumption ==
  /\ None \notin Nat /\ None \notin Payloads
  /\ \A p \in Payloads : p.round \in Optional(Nat) /\ p.counter \in Optional(Nat)
                         /\ p.roundKills \in Optional(Nat)
  /\ Window \in Nat /\ StaleAfter \in Nat /\ Window < StaleAfter
  /\ MaxTasks \in Nat /\ MaxTime \in Nat /\ MaxReceipts \in Nat /\ MaxFaults \in Nat

VARIABLES
  now,
  tasks,       \* posts that are stamped and wait for the mutex
  pollStamp,   \* the stamp of the poll that waits for the mutex
  sequence, snapshot, recent, lastHash, lastReceivedAt, stale,  \* EngineState
  receipts,    \* what the sink has persisted, in order
  gaps,        \* history: what broke the stream since the last receipt
  faults

engineVars == <<sequence, snapshot, recent, lastHash, lastReceivedAt, stale>>
vars == <<now, tasks, pollStamp, engineVars, receipts, gaps, faults>>

Stamped == [payload : Payloads, at : Nat]

TypeOK ==
  /\ now \in Nat
  /\ tasks \subseteq Stamped
  /\ pollStamp \in Optional(Nat)
  /\ sequence \in Nat
  /\ snapshot \in Optional(Payloads)
  /\ recent \subseteq Stamped
  /\ lastHash \in Optional(Payloads)
  /\ lastReceivedAt \in Optional(Nat)
  /\ stale \in BOOLEAN
  /\ receipts \in Seq(Receipt)
  /\ gaps \subseteq Gap
  /\ faults \in Nat

Init ==
  /\ now = 0 /\ tasks = {} /\ pollStamp = None
  /\ sequence = 0 /\ snapshot = None /\ recent = {}
  /\ lastHash = None /\ lastReceivedAt = None /\ stale = FALSE
  /\ receipts = <<>> /\ gaps = {} /\ faults = 0

-----------------------------------------------------------------------------
Elapsed(from, to) == IF to > from THEN to - from ELSE 0

Decreased(a, b) == a # None /\ b # None /\ b < a

\* session_reset.
IsSessionReset(a, b) ==
  \/ a.session # None /\ b.session # None /\ a.session # b.session
  \/ Decreased(a.round, b.round)
  \/ Decreased(a.counter, b.counter)

\* derive_transition's facts: a rise of the round's kills within a round, and the
\* end of every round from the previous one up to the current one.
Facts(a, b) ==
  {[kind |-> "round_kills", value |-> b.roundKills] :
     x \in {y \in {b} : /\ a.round # None /\ a.round = b.round
                        /\ a.roundKills # None /\ b.roundKills # None
                        /\ b.roundKills > a.roundKills}}
  \cup
  {[kind |-> "round_end", value |-> r] :
     r \in IF a.round = None \/ b.round = None THEN {}
           ELSE {q \in a.round .. b.round : q # b.round}}

Output(p) ==
  IF stale THEN "recovered"
  ELSE IF snapshot = None THEN "seeded"
  ELSE IF IsSessionReset(snapshot, p) THEN "session_reset"
  ELSE "healthy"

FactsOf(p) == IF Output(p) = "healthy" THEN Facts(snapshot, p) ELSE {}

-----------------------------------------------------------------------------
(* route_post.                                                              *)

\* Content type, body, token, player and app are in order; received_at is read.
Arrive(p) ==
  /\ Cardinality(tasks) < MaxTasks
  /\ tasks' = tasks \cup {[payload |-> p, at |-> now]}
  /\ UNCHANGED <<now, pollStamp, engineVars, receipts, gaps, faults>>

\* A body that is not JSON is answered BAD_REQUEST before anything is locked.
RejectMalformed ==
  /\ faults < MaxFaults
  /\ faults' = faults + 1
  /\ gaps' = gaps \cup {"malformed"}
  /\ UNCHANGED <<now, tasks, pollStamp, engineVars, receipts>>

\* ClearBaselines without the snapshot.
ClearKeepsSnapshot ==
  /\ recent' = {} /\ lastHash' = None /\ lastReceivedAt' = None /\ stale' = FALSE
  /\ UNCHANGED <<sequence, snapshot>>

\* A valid token with another player or none: clear_transition_baselines, which
\* leaves the sequence.
ClearBaselines ==
  /\ snapshot' = None /\ recent' = {} /\ lastHash' = None
  /\ lastReceivedAt' = None /\ stale' = FALSE
  /\ UNCHANGED sequence

RejectIdentity ==
  /\ faults < MaxFaults
  /\ faults' = faults + 1
  /\ ClearBaselines
  /\ gaps' = gaps \cup {"identity"}
  /\ UNCHANGED <<now, tasks, pollStamp, receipts>>

\* recent_hashes.retain with this post's stamp.
Retained(t) == {h \in recent : Elapsed(h.at, t.at) <= Window}

IsDuplicate(t) == \E h \in Retained(t) : h.payload = t.payload

Duplicate(t) ==
  /\ t \in tasks /\ IsDuplicate(t)
  /\ tasks' = tasks \ {t}
  /\ recent' = Retained(t)
  /\ UNCHANGED <<now, pollStamp, sequence, snapshot, lastHash, lastReceivedAt, stale,
                 receipts, gaps, faults>>

NewReceipt(p, at, output, facts) ==
  [sequence |-> sequence + 1, receivedAt |-> at, payload |-> p, output |-> output,
   facts |-> facts, gaps |-> gaps]

\* The receipt is persisted and the engine advances; a reset forgets the hashes.
Accept(t) ==
  /\ t \in tasks /\ ~IsDuplicate(t) /\ Len(receipts) < MaxReceipts
  /\ tasks' = tasks \ {t}
  /\ receipts' = Append(receipts, NewReceipt(t.payload, t.at, Output(t.payload), FactsOf(t.payload)))
  /\ sequence' = sequence + 1
  /\ recent' = (IF Output(t.payload) = "session_reset" THEN {} ELSE Retained(t)) \cup {t}
  /\ snapshot' = t.payload /\ lastHash' = t.payload
  /\ lastReceivedAt' = t.at /\ stale' = FALSE
  /\ gaps' = {}
  /\ UNCHANGED <<now, pollStamp, faults>>

\* The sink fails: only the old hashes are gone.
AcceptFails(t) ==
  /\ t \in tasks /\ ~IsDuplicate(t) /\ faults < MaxFaults
  /\ tasks' = tasks \ {t}
  /\ recent' = Retained(t)
  /\ faults' = faults + 1
  /\ UNCHANGED <<now, pollStamp, sequence, snapshot, lastHash, lastReceivedAt, stale,
                 receipts, gaps>>

Handle == \E t \in tasks : Duplicate(t) \/ Accept(t) \/ AcceptFails(t)

-----------------------------------------------------------------------------
(* poll_stale, called by the runtime worker after every drive.              *)

StampPoll ==
  /\ pollStamp = None
  /\ pollStamp' = now
  /\ UNCHANGED <<now, tasks, engineVars, receipts, gaps, faults>>

\* IsSilent that goes by the recent hashes.
IsSilentRecent(at) == ~stale /\ \E h \in recent : Elapsed(h.at, at) >= StaleAfter

IsSilent(at) ==
  /\ lastReceivedAt # None /\ lastHash # None
  /\ ~stale /\ Elapsed(lastReceivedAt, at) >= StaleAfter

PollNoChange ==
  /\ pollStamp # None /\ ~IsSilent(pollStamp)
  /\ pollStamp' = None
  /\ UNCHANGED <<now, tasks, engineVars, receipts, gaps, faults>>

\* PollStale without the flag, and without forgetting the snapshot.
PollStaleUnmarked ==
  /\ pollStamp # None /\ IsSilent(pollStamp) /\ Len(receipts) < MaxReceipts
  /\ receipts' = Append(receipts, NewReceipt(lastHash, pollStamp, "stale", {}))
  /\ sequence' = sequence + 1
  /\ snapshot' = None /\ recent' = {} /\ gaps' = {} /\ pollStamp' = None
  /\ UNCHANGED <<now, tasks, stale, lastHash, lastReceivedAt, faults>>

PollStaleKeeps ==
  /\ pollStamp # None /\ IsSilent(pollStamp) /\ Len(receipts) < MaxReceipts
  /\ receipts' = Append(receipts, NewReceipt(lastHash, pollStamp, "stale", {}))
  /\ sequence' = sequence + 1
  /\ stale' = TRUE /\ recent' = {} /\ gaps' = {} /\ pollStamp' = None
  /\ UNCHANGED <<now, tasks, snapshot, lastHash, lastReceivedAt, faults>>

PollStale ==
  /\ pollStamp # None /\ IsSilent(pollStamp) /\ Len(receipts) < MaxReceipts
  /\ receipts' = Append(receipts, NewReceipt(lastHash, pollStamp, "stale", {}))
  /\ sequence' = sequence + 1
  /\ stale' = TRUE /\ snapshot' = None /\ recent' = {}
  /\ gaps' = {}
  /\ pollStamp' = None
  /\ UNCHANGED <<now, tasks, lastHash, lastReceivedAt, faults>>

PollFails ==
  /\ pollStamp # None /\ IsSilent(pollStamp) /\ faults < MaxFaults
  /\ faults' = faults + 1
  /\ pollStamp' = None
  /\ UNCHANGED <<now, tasks, engineVars, receipts, gaps>>

Poll == StampPoll \/ PollNoChange \/ PollStale \/ PollFails

Tick ==
  /\ now < MaxTime
  /\ now' = now + 1
  /\ UNCHANGED <<tasks, pollStamp, engineVars, receipts, gaps, faults>>

-----------------------------------------------------------------------------
Next ==
  \/ \E p \in Payloads : Arrive(p)
  \/ RejectMalformed \/ RejectIdentity
  \/ Handle \/ Poll \/ Tick

Spec == Init /\ [][Next]_vars

(* Tasks that wait for the mutex get it, the worker polls every 25 ms, and  *)
(* time passes.  Nobody owes a post.                                        *)
FairSpec ==
  Spec /\ WF_vars(Handle) /\ WF_vars(StampPoll) /\ WF_vars(PollNoChange)
       /\ WF_vars(PollStale) /\ WF_vars(Tick)

-----------------------------------------------------------------------------
(* Every persisted receipt has the ordinal of its place: whatever fails,    *)
(* resets or goes stale in between, none is skipped or used twice.  The     *)
(* evidence store rejects a reused ordinal.                                 *)
SequenceIsDense ==
  /\ sequence = Len(receipts)
  /\ \A i \in DOMAIN receipts : receipts[i].sequence = i

(* An outage is reported once: between two stale receipts a post was        *)
(* accepted.                                                                *)
StaleOncePerOutage ==
  \A i \in 1 .. Len(receipts) - 1 :
    receipts[i].output = "stale" => receipts[i + 1].output # "stale"

(* The baseline is the payload of the last receipt, so the facts of every   *)
(* receipt can be told from it and its predecessor, whichever order the     *)
(* concurrent posts were stamped in.                                        *)
BaselineIsLastReceipt ==
  snapshot # None =>
    /\ receipts # <<>>
    /\ receipts[Len(receipts)].payload = snapshot
    /\ receipts[Len(receipts)].output # "stale"

(* docs/gsi-evidence-contract.md:31, "a listener outage, identity change,   *)
(* [...] stale stream or CS2 restart clears transition baselines": no facts *)
(* are derived across one.                                                  *)
FactsNeedBaseline ==
  \A i \in DOMAIN receipts :
    receipts[i].facts # {} =>
      i > 1 /\ receipts[i - 1].output # "stale" /\ "identity" \notin receipts[i].gaps

(* A silence of StaleAfter is reported, or ended by a post, as long as the  *)
(* sink works: whatever was rejected, dropped or refused in the meantime.   *)
Silence ==
  /\ lastReceivedAt # None /\ ~stale /\ Elapsed(lastReceivedAt, now) >= StaleAfter
  /\ Len(receipts) < MaxReceipts

OutageIsReported == Silence ~> ~Silence
=============================================================================
