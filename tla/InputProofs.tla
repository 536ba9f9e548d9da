----------------------------- MODULE InputProofs ----------------------------
(***************************************************************************)
(* Proofs about the two inputs of the live pipeline.                       *)
(*                                                                         *)
(* GsiEngine, for every set of bodies, every window and heartbeat, and any *)
(* number of concurrent posts, receipts and faults.                        *)
(*                                                                         *)
(* The Manual Flag portal worker: whatever the portal loses, refuses or a  *)
(* stop cuts short, the polled session is the only one of its run, and it  *)
(* was opened with the stored token.                                       *)
(***************************************************************************)
EXTENDS GsiEngine, ManualFlagPortal, TLAPS

(* What has to be known besides the properties: a stale stream has no       *)
(* baseline, the engine remembers a stale receipt until it forgets the      *)
(* stream altogether, and an identity change leaves no baseline.            *)
StaleHasNoBaseline == stale => snapshot = None
StaleIsRemembered ==
  receipts # <<>> /\ receipts[Len(receipts)].output = "stale"
    => stale \/ lastReceivedAt = None
BaselineHasNoGap == snapshot # None => "identity" \notin gaps

StreamInv ==
  /\ StaleHasNoBaseline
  /\ StaleIsRemembered
  /\ BaselineHasNoGap
  /\ BaselineIsLastReceipt
  /\ SequenceIsDense

ReceiptsInv == StaleOncePerOutage /\ FactsNeedBaseline

IInv == TypeOK /\ StreamInv /\ ReceiptsInv

-----------------------------------------------------------------------------
(* derive_transition derives nothing but facts, of whatever two bodies.     *)
LEMMA FactsType ==
  ASSUME NEW a \in Payloads, NEW b \in Payloads
  PROVE  Facts(a, b) \subseteq Fact
<1>1. /\ b.roundKills \in Optional(Nat)
      /\ a.round \in Optional(Nat) /\ b.round \in Optional(Nat)
  BY GsiAssumption
<1>2. \A y \in {b} : y.roundKills # None => [kind |-> "round_kills", value |-> y.roundKills] \in Fact
  BY <1>1 DEF Fact, Optional
<1>3. \A r \in Nat : [kind |-> "round_end", value |-> r] \in Fact
  BY DEF Fact
<1>4. a.round # None /\ b.round # None => a.round .. b.round \subseteq Nat
  BY <1>1 DEF Optional
<1>5. {[kind |-> "round_kills", value |-> b.roundKills] :
         x \in {y \in {b} : /\ a.round # None /\ a.round = b.round
                            /\ a.roundKills # None /\ b.roundKills # None
                            /\ b.roundKills > a.roundKills}} \subseteq Fact
  BY <1>2
<1>6. (IF a.round = None \/ b.round = None THEN {}
       ELSE {q \in a.round .. b.round : q # b.round}) \subseteq Nat
  BY <1>4
<1> QED BY <1>3, <1>5, <1>6 DEF Facts

(* What a receipt of a post is, and that facts come from a baseline.        *)
LEMMA AcceptedReceipt ==
  ASSUME TypeOK, NEW t \in tasks
  PROVE  /\ NewReceipt(t.payload, t.at, Output(t.payload), FactsOf(t.payload)) \in Receipt
         /\ Output(t.payload) # "stale"
         /\ FactsOf(t.payload) # {} => snapshot # None
<1>1. t.payload \in Payloads /\ t.at \in Nat
  BY DEF TypeOK, Stamped
<1>2. /\ Output(t.payload) \in Outputs
      /\ Output(t.payload) # "stale"
      /\ Output(t.payload) = "healthy" => snapshot # None
  BY DEF Output, Outputs
<1>3. FactsOf(t.payload) \subseteq Fact
  BY <1>1, <1>2, FactsType DEF FactsOf, TypeOK, Optional
<1>4. FactsOf(t.payload) # {} => snapshot # None
  BY <1>2 DEF FactsOf
<1> QED BY <1>1, <1>2, <1>3, <1>4 DEF NewReceipt, Receipt, TypeOK

(* What a receipt of a silence is.                                          *)
LEMMA StaleReceipt ==
  ASSUME TypeOK, PollStale
  PROVE  NewReceipt(lastHash, pollStamp, "stale", {}) \in Receipt
<1>1. lastHash \in Payloads /\ pollStamp \in Nat
  BY DEF PollStale, IsSilent, TypeOK, Optional
<1> QED BY <1>1 DEF NewReceipt, Receipt, Outputs, TypeOK

(* One more receipt: where it is, and that the others stay where they were. *)
LEMMA AppendedReceipt ==
  ASSUME receipts \in Seq(Receipt), NEW r \in Receipt, receipts' = Append(receipts, r)
  PROVE  /\ receipts' \in Seq(Receipt) /\ receipts' # <<>>
         /\ Len(receipts') = Len(receipts) + 1 /\ Len(receipts) \in Nat
         /\ receipts'[Len(receipts) + 1] = r
         /\ \A i \in 1 .. Len(receipts) : receipts'[i] = receipts[i]
         /\ DOMAIN receipts = 1 .. Len(receipts)
         /\ DOMAIN receipts' = 1 .. Len(receipts) + 1
OBVIOUS

-----------------------------------------------------------------------------
(* Every variable keeps its type.                                           *)
LEMMA TypeStep ==
  ASSUME TypeOK, [Next]_vars
  PROVE  TypeOK'
<1> USE DEF engineVars
<1>1. ASSUME NEW p \in Payloads, Arrive(p) PROVE TypeOK'
  BY <1>1 DEF Arrive, TypeOK, Stamped
<1>2. CASE RejectMalformed
  BY <1>2 DEF RejectMalformed, TypeOK, Gap
<1>3. CASE RejectIdentity
  <2>1. stale' \in BOOLEAN
    BY <1>3 DEF RejectIdentity, ClearBaselines
  <2>2. gaps' \subseteq Gap
    BY <1>3 DEF RejectIdentity, TypeOK, Gap
  <2> QED BY <1>3, <2>1, <2>2 DEF RejectIdentity, ClearBaselines, TypeOK, Optional
<1>4. ASSUME NEW t \in tasks, Duplicate(t) PROVE TypeOK'
  BY <1>4 DEF Duplicate, Retained, TypeOK
<1>5. ASSUME NEW t \in tasks, Accept(t) PROVE TypeOK'
  <2>1. receipts' \in Seq(Receipt)
    BY <1>5, AcceptedReceipt, AppendedReceipt DEF Accept, TypeOK
  <2>2. t \in Stamped /\ t.payload \in Payloads /\ t.at \in Nat
    BY DEF TypeOK, Stamped
  <2>3. recent' \subseteq Stamped
    BY <1>5, <2>2 DEF Accept, Retained, TypeOK
  <2>4. stale' \in BOOLEAN
    BY <1>5 DEF Accept
  <2> QED BY <1>5, <2>1, <2>2, <2>3, <2>4 DEF Accept, TypeOK, Optional
<1>6. ASSUME NEW t \in tasks, AcceptFails(t) PROVE TypeOK'
  BY <1>6 DEF AcceptFails, Retained, TypeOK
<1>7. CASE Poll
  <2>1. CASE StampPoll
    BY <2>1 DEF StampPoll, TypeOK, Optional
  <2>2. CASE PollNoChange
    BY <2>2 DEF PollNoChange, TypeOK, Optional
  <2>3. CASE PollStale
    <3>1. receipts' \in Seq(Receipt)
      BY <2>3, StaleReceipt, AppendedReceipt DEF PollStale, TypeOK
    <3> QED BY <2>3, <3>1 DEF PollStale, TypeOK, Optional
  <2>4. CASE PollFails
    BY <2>4 DEF PollFails, TypeOK, Optional
  <2> QED BY <1>7, <2>1, <2>2, <2>3, <2>4 DEF Poll
<1>8. CASE Tick
  BY <1>8 DEF Tick, TypeOK
<1>9. CASE UNCHANGED vars
  BY <1>9 DEF vars, TypeOK
<1> QED BY <1>1, <1>2, <1>3, <1>4, <1>5, <1>6, <1>7, <1>8, <1>9 DEF Next, Handle

(* A step that appends no receipt leaves the receipts' properties alone.    *)
LEMMA SameReceipts ==
  ASSUME ReceiptsInv, UNCHANGED receipts
  PROVE  ReceiptsInv'
BY DEF ReceiptsInv, StaleOncePerOutage, FactsNeedBaseline

(* A step that changes nothing the stream's invariant speaks of keeps it.   *)
LEMMA SameStream ==
  ASSUME StreamInv, UNCHANGED <<sequence, snapshot, lastReceivedAt, stale, receipts, gaps>>
  PROVE  StreamInv'
BY DEF StreamInv, StaleHasNoBaseline, StaleIsRemembered, BaselineHasNoGap,
       BaselineIsLastReceipt, SequenceIsDense

(* The baseline is the last receipt, ordinals are dense, and a stale or     *)
(* foreign payload leaves no baseline behind.                               *)
LEMMA StreamStep ==
  ASSUME TypeOK, StreamInv, [Next]_vars
  PROVE  StreamInv'
<1> USE DEF engineVars
<1>1. ASSUME NEW p \in Payloads, Arrive(p) PROVE StreamInv'
  BY <1>1, SameStream DEF Arrive
<1>2. CASE RejectMalformed
  BY <1>2 DEF RejectMalformed, StreamInv, StaleHasNoBaseline, StaleIsRemembered,
              BaselineHasNoGap, BaselineIsLastReceipt, SequenceIsDense
<1>3. CASE RejectIdentity
  BY <1>3 DEF RejectIdentity, ClearBaselines, StreamInv, StaleHasNoBaseline,
              StaleIsRemembered, BaselineHasNoGap, BaselineIsLastReceipt, SequenceIsDense
<1>4. ASSUME NEW t \in tasks, Duplicate(t) PROVE StreamInv'
  BY <1>4, SameStream DEF Duplicate
<1>5. ASSUME NEW t \in tasks, Accept(t) PROVE StreamInv'
  <2> DEFINE r == NewReceipt(t.payload, t.at, Output(t.payload), FactsOf(t.payload))
  <2>1. r \in Receipt /\ Output(t.payload) # "stale"
    BY AcceptedReceipt
  <2>2. r.sequence = sequence + 1 /\ r.payload = t.payload /\ r.output = Output(t.payload)
    BY DEF NewReceipt
  <2>3. receipts' = Append(receipts, r) /\ receipts \in Seq(Receipt)
    BY <1>5 DEF Accept, TypeOK
  <2> HIDE DEF r
  <2>4. SequenceIsDense'
    BY <1>5, <2>1, <2>2, <2>3, AppendedReceipt DEF Accept, StreamInv, SequenceIsDense
  <2>5. BaselineIsLastReceipt' /\ StaleIsRemembered'
    BY <1>5, <2>1, <2>2, <2>3, AppendedReceipt
       DEF Accept, BaselineIsLastReceipt, StaleIsRemembered
  <2>6. StaleHasNoBaseline' /\ BaselineHasNoGap'
    BY <1>5 DEF Accept, StaleHasNoBaseline, BaselineHasNoGap
  <2> QED BY <2>4, <2>5, <2>6 DEF StreamInv
<1>6. ASSUME NEW t \in tasks, AcceptFails(t) PROVE StreamInv'
  BY <1>6, SameStream DEF AcceptFails
<1>7. CASE StampPoll \/ PollNoChange \/ PollFails
  BY <1>7, SameStream DEF StampPoll, PollNoChange, PollFails
<1>8. CASE PollStale
  <2> DEFINE r == NewReceipt(lastHash, pollStamp, "stale", {})
  <2>1. r \in Receipt /\ r.sequence = sequence + 1
    BY <1>8, StaleReceipt DEF NewReceipt
  <2>2. receipts' = Append(receipts, r) /\ receipts \in Seq(Receipt)
    BY <1>8 DEF PollStale, TypeOK
  <2> HIDE DEF r
  <2>3. SequenceIsDense'
    BY <1>8, <2>1, <2>2, AppendedReceipt DEF PollStale, StreamInv, SequenceIsDense
  <2> QED BY <1>8, <2>3 DEF PollStale, StreamInv, StaleHasNoBaseline, StaleIsRemembered,
                            BaselineHasNoGap, BaselineIsLastReceipt
<1>9. CASE Tick
  BY <1>9, SameStream DEF Tick
<1>10. CASE UNCHANGED vars
  BY <1>10, SameStream DEF vars
<1> QED BY <1>1, <1>2, <1>3, <1>4, <1>5, <1>6, <1>7, <1>8, <1>9, <1>10 DEF Next, Handle, Poll

(* A new receipt is stale only after one that is not, and carries facts     *)
(* only after one that left a baseline.                                     *)
LEMMA ReceiptsStep ==
  ASSUME TypeOK, StreamInv, ReceiptsInv, [Next]_vars
  PROVE  ReceiptsInv'
<1> USE DEF engineVars
<1>1. ASSUME NEW r \in Receipt, receipts' = Append(receipts, r),
             r.output = "stale" /\ receipts # <<>> => receipts[Len(receipts)].output # "stale",
             r.facts # {} => /\ receipts # <<>> /\ "identity" \notin r.gaps
                             /\ receipts[Len(receipts)].output # "stale"
      PROVE  ReceiptsInv'
  <2>1. /\ Len(receipts') = Len(receipts) + 1 /\ Len(receipts) \in Nat
        /\ receipts'[Len(receipts) + 1] = r
        /\ \A i \in 1 .. Len(receipts) : receipts'[i] = receipts[i]
        /\ DOMAIN receipts = 1 .. Len(receipts)
        /\ DOMAIN receipts' = 1 .. Len(receipts) + 1
    BY <1>1, AppendedReceipt DEF TypeOK
  <2>2. receipts # <<>> => Len(receipts) > 0
    BY DEF TypeOK
  <2>3. StaleOncePerOutage'
    <3> SUFFICES ASSUME NEW i \in 1 .. Len(receipts') - 1, receipts'[i].output = "stale"
                 PROVE  receipts'[i + 1].output # "stale"
      BY DEF StaleOncePerOutage
    <3>1. i \in 1 .. Len(receipts) /\ receipts[i].output = "stale"
      BY <2>1
    <3>2. CASE i = Len(receipts)
      <4>1. receipts # <<>>
        BY <2>1, <3>1
      <4>2. receipts[Len(receipts)].output = "stale"
        BY <3>1, <3>2
      <4>3. r.output # "stale"
        BY <1>1, <4>1, <4>2
      <4> QED BY <2>1, <3>2, <4>3
    <3>3. CASE i < Len(receipts)
      <4>1. i \in 1 .. Len(receipts) - 1 /\ i + 1 \in 1 .. Len(receipts)
        BY <2>1, <3>1, <3>3
      <4> QED BY <2>1, <3>1, <4>1 DEF ReceiptsInv, StaleOncePerOutage
    <3> QED BY <2>1, <3>1, <3>2, <3>3
  <2>4. FactsNeedBaseline'
    <3> SUFFICES ASSUME NEW i \in 1 .. Len(receipts) + 1, receipts'[i].facts # {}
                 PROVE  /\ i > 1 /\ receipts'[i - 1].output # "stale"
                        /\ "identity" \notin receipts'[i].gaps
      BY <2>1 DEF FactsNeedBaseline
    <3>1. CASE i = Len(receipts) + 1
      <4>1. r.facts # {}
        BY <2>1, <3>1
      <4>2. /\ receipts # <<>> /\ "identity" \notin r.gaps
            /\ receipts[Len(receipts)].output # "stale"
        BY <1>1, <4>1
      <4>3. Len(receipts) \in 1 .. Len(receipts) /\ i - 1 = Len(receipts) /\ i > 1
        BY <2>1, <2>2, <3>1, <4>2
      <4>4. receipts'[i - 1] = receipts[Len(receipts)]
        BY <2>1, <4>3
      <4> QED BY <2>1, <3>1, <4>2, <4>3, <4>4
    <3>2. CASE i \in 1 .. Len(receipts)
      <4>1. receipts[i].facts # {}
        BY <2>1, <3>2
      <4>2. i > 1 /\ receipts[i - 1].output # "stale" /\ "identity" \notin receipts[i].gaps
        BY <2>1, <3>2, <4>1 DEF ReceiptsInv, FactsNeedBaseline
      <4>3. i - 1 \in 1 .. Len(receipts)
        BY <2>1, <3>2, <4>2
      <4> QED BY <2>1, <3>2, <4>2, <4>3
    <3> QED BY <2>1, <3>1, <3>2
  <2> QED BY <2>3, <2>4 DEF ReceiptsInv
<1>2. ASSUME NEW t \in tasks, Accept(t) PROVE ReceiptsInv'
  <2> DEFINE r == NewReceipt(t.payload, t.at, Output(t.payload), FactsOf(t.payload))
  <2>1. r \in Receipt /\ Output(t.payload) # "stale"
    BY AcceptedReceipt
  <2>2. r.output # "stale" /\ r.facts = FactsOf(t.payload) /\ r.gaps = gaps
    BY <2>1 DEF NewReceipt
  <2>3. receipts' = Append(receipts, r)
    BY <1>2 DEF Accept
  <2> HIDE DEF r
  <2>4. FactsOf(t.payload) # {} => snapshot # None
    BY AcceptedReceipt
  <2>5. r.facts # {} => /\ receipts # <<>> /\ "identity" \notin r.gaps
                        /\ receipts[Len(receipts)].output # "stale"
    BY <2>2, <2>4 DEF StreamInv, BaselineIsLastReceipt, BaselineHasNoGap
  <2> QED BY <1>1, <2>1, <2>2, <2>3, <2>5
<1>3. CASE PollStale
  <2> DEFINE r == NewReceipt(lastHash, pollStamp, "stale", {})
  <2>1. r \in Receipt /\ r.facts = {}
    BY <1>3, StaleReceipt DEF NewReceipt
  <2>2. receipts' = Append(receipts, r)
    BY <1>3 DEF PollStale
  <2> HIDE DEF r
  <2>3. receipts # <<>> => receipts[Len(receipts)].output # "stale"
    BY <1>3 DEF PollStale, IsSilent, StreamInv, StaleIsRemembered
  <2> QED BY <1>1, <2>1, <2>2, <2>3
<1>4. CASE UNCHANGED receipts
  BY <1>4, SameReceipts
<1>5. ASSUME Next, ~PollStale, \A t \in tasks : ~Accept(t) PROVE UNCHANGED receipts
  BY <1>5 DEF Next, Handle, Poll, Arrive, RejectMalformed, RejectIdentity, Duplicate,
              AcceptFails, StampPoll, PollNoChange, PollFails, Tick
<1> QED BY <1>2, <1>3, <1>4, <1>5 DEF vars

-----------------------------------------------------------------------------
(* A listener that has just started has neither baseline nor receipts.      *)
LEMMA InitIInv ==
  ASSUME Init
  PROVE  IInv
<1>1. TypeOK
  <2>1. stale \in BOOLEAN
    BY DEF Init
  <2> QED BY <2>1 DEF Init, TypeOK, Optional
<1>2. StreamInv /\ ReceiptsInv
  BY DEF Init, StreamInv, StaleHasNoBaseline, StaleIsRemembered, BaselineHasNoGap,
         BaselineIsLastReceipt, SequenceIsDense, ReceiptsInv, StaleOncePerOutage,
         FactsNeedBaseline
<1> QED BY <1>1, <1>2 DEF IInv

(* The inductive invariant of the listener.                                 *)
THEOREM EngineInvariant == Spec => []IInv
<1>1. Init => IInv
  BY InitIInv
<1>2. IInv /\ [Next]_vars => IInv'
  BY TypeStep, StreamStep, ReceiptsStep DEF IInv
<1> QED BY <1>1, <1>2, PTL DEF Spec

(* Every variable of the engine keeps its type.                             *)
THEOREM EngineTypeCorrect == Spec => []TypeOK
<1>1. IInv => TypeOK
  BY DEF IInv
<1> QED BY <1>1, EngineInvariant, PTL

(* Whatever fails, is rejected or goes silent, and in whatever order the    *)
(* posts get the mutex, ordinals are neither skipped nor used twice.        *)
THEOREM OrdinalsAreDense == Spec => []SequenceIsDense
<1>1. IInv => SequenceIsDense
  BY DEF IInv, StreamInv
<1> QED BY <1>1, EngineInvariant, PTL

(* Transitions are always derived from the receipt stored last.             *)
THEOREM BaselineIsStored == Spec => []BaselineIsLastReceipt
<1>1. IInv => BaselineIsLastReceipt
  BY DEF IInv, StreamInv
<1> QED BY <1>1, EngineInvariant, PTL

(* poll_stale never reports one outage twice.                               *)
THEOREM OutageReportedOnce == Spec => []StaleOncePerOutage
<1>1. IInv => StaleOncePerOutage
  BY DEF IInv, ReceiptsInv
<1> QED BY <1>1, EngineInvariant, PTL

(* derive_transition yields no facts across an outage or identity change.   *)
THEOREM FactsHaveBaseline == Spec => []FactsNeedBaseline
<1>1. IInv => FactsNeedBaseline
  BY DEF IInv, ReceiptsInv
<1> QED BY <1>1, EngineInvariant, PTL

-----------------------------------------------------------------------------
(* The Manual Flag portal: what its records hold                           *)
Typed ==
    /\ portal = [sessions |-> portal.sessions, bound |-> portal.bound, last |-> portal.last]
    /\ portal.sessions \subseteq Int /\ portal.last \in Int
    /\ past = [kept |-> past.kept, unheard |-> past.unheard]
    /\ active \in Int \cup {Nothing}
    /\ service = [session |-> service.session, token |-> service.token, held |-> service.held]
    /\ worker = [pc |-> worker.pc, status |-> worker.status, run |-> worker.run,
                 stop |-> worker.stop, given |-> worker.given]
    /\ worker.run \in Int

(* The one session that may be open beside those the portal refused to     *)
(* close, at each step of the worker.                                      *)
OneSession ==
    /\ worker.pc = "load" => portal.sessions = {} /\ active = Nothing
    /\ worker.pc = "discard" => portal.sessions \subseteq {active} \cup past.kept
    /\ worker.pc \in {"listen", "create"} => portal.sessions \subseteq past.kept /\ active = Nothing
    /\ worker.pc = "bind" => portal.sessions \subseteq {portal.last} \cup past.kept /\ active = Nothing
    /\ worker.pc \in {"keep", "poll"} =>
         active # Nothing /\ portal.sessions \subseteq {active} \cup past.kept
    /\ worker.pc = "poll" => service.session = active

(* What is stored, what the open is called with and what is in memory.     *)
OneToken ==
    /\ worker.pc \in {"discard", "listen", "create", "bind", "keep"} => worker.given = file
    /\ worker.pc \in {"load", "discard", "listen", "create", "bind", "keep"} => service.session = Nothing
    /\ service.session # Nothing => file # Nothing /\ service.token = file
    /\ worker.status = "ready" => worker.given \in {Nothing, file}

PortalInv == Typed /\ OneSession /\ OneToken

-----------------------------------------------------------------------------

LEMMA PortalInitInv == ASSUME PortalInit PROVE PortalInv
  BY PortalAssumption DEF PortalInit, PortalInv, Typed, OneSession, OneToken, Idle, NoPast

(* The environment only takes sessions away, and a stop is only noted.     *)
LEMMA EnvironmentIInv ==
    ASSUME PortalInv, Press \/ Release \/ PortalCloses \/ StreamsEnd \/ Forward \/ Stop
    PROVE  PortalInv'
<1>1. CASE Press
  BY <1>1 DEF Press, PortalInv, Typed, OneSession, OneToken
<1>2. CASE Release
  BY <1>2 DEF Release, PortalInv, Typed, OneSession, OneToken
<1>3. CASE PortalCloses
  <2>1. PICK s \in portal.sessions :
          /\ portal' = Without(s)
          /\ past' = IF s = active /\ streams.stage = "presses"
                       THEN [past EXCEPT !.unheard = @ \cup {s}] ELSE past
          /\ UNCHANGED <<key, channel, active, service, worker, file>>
    BY <1>3 DEF PortalCloses
  <2>2. /\ portal' = [sessions |-> portal.sessions \ {s}, bound |-> portal.bound \ {s},
                      last |-> portal.last]
        /\ past' = [kept |-> past.kept, unheard |-> past'.unheard]
    BY <2>1 DEF Without, PortalInv, Typed
  <2> QED  BY <2>1, <2>2 DEF PortalInv, Typed, OneSession, OneToken
<1>4. CASE StreamsEnd \/ Forward
  BY <1>4 DEF StreamsEnd, Forward, ListenToClosed, ForwardActivated, ForwardDeactivated, ForwardClosed,
              PortalInv, Typed, OneSession, OneToken
<1>5. CASE Stop
  <2>1. worker' = [pc |-> worker.pc, status |-> worker.status, run |-> worker.run,
                   stop |-> TRUE, given |-> worker.given]
    BY <1>5 DEF Stop, PortalInv, Typed
  <2> QED  BY <1>5, <2>1 DEF Stop, PortalInv, Typed, OneSession, OneToken
<1> QED  BY <1>1, <1>2, <1>3, <1>4, <1>5

(* Leaving a session takes it away, or notes that it was kept.             *)
LEMMA Leaving ==
    ASSUME Typed, NEW s, Leave(s)
    PROVE  /\ portal' = [sessions |-> portal'.sessions, bound |-> portal'.bound, last |-> portal.last]
           /\ past' = [kept |-> past'.kept, unheard |-> past'.unheard]
           /\ portal'.sessions \subseteq portal.sessions
           /\ past.kept \subseteq past'.kept
           /\ s # Nothing => s \notin portal'.sessions \ past'.kept
<1>1. CASE s = Nothing /\ UNCHANGED <<portal, past>>
  BY <1>1 DEF Typed
<1>2. CASE s # Nothing /\ portal' = Without(s) /\ UNCHANGED past
  <2>1. portal' = [sessions |-> portal.sessions \ {s}, bound |-> portal.bound \ {s}, last |-> portal.last]
    BY <1>2 DEF Without, Typed
  <2> QED  BY <1>2, <2>1 DEF Typed
<1>3. CASE past' = [past EXCEPT !.kept = @ \cup {s}] /\ UNCHANGED portal
  <2>1. past' = [kept |-> past.kept \cup {s}, unheard |-> past.unheard]
    BY <1>3 DEF Typed
  <2> QED  BY <1>3, <2>1 DEF Typed
<1> QED  BY <1>1, <1>2, <1>3 DEF Leave

(* Opening a session, from the stored token to the polled session.         *)
LEMMA OpenIInv ==
    ASSUME PortalInv, Load \/ Open \/ KeepToken
    PROVE  PortalInv'
<1> USE DEF PortalInv, Typed, To, Ended, Failed, At
<1>1. CASE Load
  <2>1. service.session = Nothing /\ worker.pc = "load" /\ UNCHANGED <<portal, past, active, service, file>>
    BY <1>1 DEF Load, OneToken
  <2>2. CASE worker' = [worker EXCEPT !.pc = "discard", !.given = file]
    <3>1. worker' = [pc |-> "discard", status |-> worker.status, run |-> worker.run,
                     stop |-> worker.stop, given |-> file]
      BY <2>2
    <3> QED  BY <2>1, <3>1 DEF OneSession, OneToken
  <2>3. CASE worker' = Ended("unavailable")
    <3>1. worker' = [pc |-> "ended", status |-> "unavailable", run |-> worker.run,
                     stop |-> worker.stop, given |-> worker.given]
      BY <2>3
    <3> QED  BY <2>1, <3>1 DEF OneSession, OneToken
  <2> QED  BY <1>1, <2>2, <2>3 DEF Load
<1>2. CASE Discard
  <2>1. /\ worker' = [pc |-> "listen", status |-> worker.status, run |-> worker.run,
                      stop |-> worker.stop, given |-> worker.given]
        /\ worker.pc = "discard" /\ active' = Nothing /\ UNCHANGED <<service, file>>
        /\ Leave(active)
    BY <1>2 DEF Discard
  <2>2. portal.sessions \subseteq Int /\ Nothing \notin Int
    BY PortalAssumption
  <2>3. portal'.sessions \subseteq past'.kept
    BY <2>1, <2>2, Leaving DEF OneSession
  <2> QED  BY <2>1, <2>3, Leaving DEF OneSession, OneToken
<1>6. CASE ListenToPresses
  <2>1. CASE worker' = To("create")
    <3>1. worker' = [pc |-> "create", status |-> worker.status, run |-> worker.run,
                     stop |-> worker.stop, given |-> worker.given]
      BY <2>1
    <3> QED  BY <1>6, <2>1, <3>1 DEF ListenToPresses, OneSession, OneToken
  <2>2. CASE worker' = Failed
    <3>1. worker'.pc \in {"ended", "fail"} /\ worker'.given = worker.given
      BY <2>2
    <3>2. worker' = [pc |-> worker'.pc, status |-> worker'.status, run |-> worker.run,
                     stop |-> worker.stop, given |-> worker.given]
      BY <2>2
    <3>3. worker'.status # worker.status => worker'.status = "unavailable"
      BY <2>2
    <3> QED  BY <1>6, <2>2, <3>1, <3>2, <3>3 DEF ListenToPresses, OneSession, OneToken
  <2> QED  BY <1>6, <2>1, <2>2 DEF ListenToPresses
<1>3. CASE CreateSession
  <2>1. CASE worker' = To("bind")
    <3>1. worker' = [pc |-> "bind", status |-> worker.status, run |-> worker.run,
                     stop |-> worker.stop, given |-> worker.given]
      BY <2>1
    <3>2. \/ portal' = [sessions |-> portal.sessions \cup {portal.last + 1},
                        bound |-> portal.bound, last |-> portal.last + 1]
          \/ UNCHANGED portal /\ worker'.pc # "bind"
      BY <1>3 DEF CreateSession
    <3> QED  BY <1>3, <3>1, <3>2 DEF CreateSession, OneSession, OneToken
  <2>2. CASE worker' = Failed /\ UNCHANGED portal
    <3>1. worker'.pc \in {"ended", "fail"} /\ worker'.given = worker.given
      BY <2>2
    <3>2. worker' = [pc |-> worker'.pc, status |-> worker'.status, run |-> worker.run,
                     stop |-> worker.stop, given |-> worker.given]
      BY <2>2
    <3>3. worker'.status # worker.status => worker'.status = "unavailable"
      BY <2>2
    <3> QED  BY <1>3, <2>2, <3>1, <3>2, <3>3 DEF CreateSession, OneSession, OneToken
  <2> QED  BY <1>3, <2>1, <2>2 DEF CreateSession
<1>4. CASE BindShortcut
  <2>1. CASE /\ portal' = [portal EXCEPT !.bound = @ \cup {portal.last}]
             /\ active' = portal.last /\ worker' = To("keep")
    <3>1. worker' = [pc |-> "keep", status |-> worker.status, run |-> worker.run,
                     stop |-> worker.stop, given |-> worker.given]
      BY <2>1
    <3>2. portal' = [sessions |-> portal.sessions, bound |-> portal.bound \cup {portal.last},
                     last |-> portal.last]
      BY <2>1
    <3> QED  BY <1>4, <2>1, <3>1, <3>2, PortalAssumption DEF BindShortcut, OneSession, OneToken
  <2>2. CASE worker' = Failed /\ UNCHANGED <<portal, active>>
    <3>1. worker'.pc \in {"ended", "fail"} /\ worker'.given = worker.given
      BY <2>2
    <3>2. worker' = [pc |-> worker'.pc, status |-> worker'.status, run |-> worker.run,
                     stop |-> worker.stop, given |-> worker.given]
      BY <2>2
    <3>3. worker'.status # worker.status => worker'.status = "unavailable"
      BY <2>2
    <3> QED  BY <1>4, <2>2, <3>1, <3>2, <3>3 DEF BindShortcut, OneSession, OneToken
  <2> QED  BY <1>4, <2>1, <2>2 DEF BindShortcut
<1>5. CASE KeepToken
  <2> DEFINE token == IF worker.given = Nothing THEN Generated ELSE worker.given
  <2>0. token # Nothing
    BY PortalAssumption DEF Generated
  <2>1. CASE /\ file' = IF worker.given = Nothing THEN token ELSE file
             /\ service' = [service EXCEPT !.token = token, !.session = active]
             /\ worker' = [worker EXCEPT !.pc = "poll", !.status = "ready"]
    <3>1. /\ service' = [session |-> active, token |-> token, held |-> service.held]
          /\ worker' = [pc |-> "poll", status |-> "ready", run |-> worker.run,
                        stop |-> worker.stop, given |-> worker.given]
      BY <2>1
    <3>2. file' = token
      BY <1>5, <2>1 DEF KeepToken, OneToken
    <3>3. worker.given \in {Nothing, token}
      OBVIOUS
    <3> HIDE DEF token
    <3> QED  BY <1>5, <2>0, <3>1, <3>2, <3>3 DEF KeepToken, OneSession, OneToken
  <2>2. CASE worker' = Failed /\ UNCHANGED <<file, service>>
    <3>1. worker'.pc \in {"ended", "fail"} /\ worker'.given = worker.given
      BY <2>2
    <3>2. worker' = [pc |-> worker'.pc, status |-> worker'.status, run |-> worker.run,
                     stop |-> worker.stop, given |-> worker.given]
      BY <2>2
    <3>3. worker'.status # worker.status => worker'.status = "unavailable"
      BY <2>2
    <3> QED  BY <1>5, <2>2, <3>1, <3>2, <3>3 DEF KeepToken, OneSession, OneToken
  <2> QED  BY <1>5, <2>1, <2>2 DEF KeepToken
<1> QED  BY <1>1, <1>2, <1>3, <1>4, <1>5, <1>6 DEF Open

(* Answering the signals of the polled session.                            *)
LEMMA PollIInv == ASSUME PortalInv, Polled PROVE PortalInv'
<1> USE DEF PortalInv, Typed, To, Ended, Failed, At, Received
<1>1. CASE Flag
  <2>1. CASE service' = [service EXCEPT !.held = TRUE] /\ UNCHANGED worker
    <3>1. service' = [session |-> service.session, token |-> service.token, held |-> TRUE]
      BY <2>1
    <3> QED  BY <1>1, <2>1, <3>1 DEF Flag, OneSession, OneToken
  <2>2. CASE worker' = Failed /\ UNCHANGED service
    <3>1. worker'.pc \in {"ended", "fail"} /\ worker'.given = worker.given
      BY <2>2
    <3>2. worker' = [pc |-> worker'.pc, status |-> worker'.status, run |-> worker.run,
                     stop |-> worker.stop, given |-> worker.given]
      BY <2>2
    <3>3. worker'.status # worker.status => worker'.status = "unavailable"
      BY <2>2
    <3> QED  BY <1>1, <2>2, <3>1, <3>2, <3>3 DEF Flag, OneSession, OneToken
  <2> QED  BY <1>1, <2>1, <2>2 DEF Flag
<1>2. CASE Ignore
  BY <1>2 DEF Ignore, OneSession, OneToken
<1>3. CASE Rearm
  <2>1. service' = [session |-> service.session, token |-> service.token, held |-> FALSE]
    BY <1>3 DEF Rearm
  <2> QED  BY <1>3, <2>1 DEF Rearm, OneSession, OneToken
<1>4. CASE Reconnect
  <2>1. /\ service' = [session |-> Nothing, token |-> service.token, held |-> FALSE]
        /\ worker' = [pc |-> "discard", status |-> worker.status, run |-> worker.run,
                      stop |-> worker.stop, given |-> service.token]
    BY <1>4 DEF Reconnect
  <2>2. service.token = file
    BY <1>4 DEF Reconnect, OneSession, OneToken
  <2> QED  BY <1>4, <2>1, <2>2 DEF Reconnect, OneSession, OneToken
<1> QED  BY <1>1, <1>2, <1>3, <1>4 DEF Polled

(* Stopping, shutting down and starting again.                             *)
LEMMA EndIInv == ASSUME PortalInv, Stopped \/ Shutdown \/ Restart PROVE PortalInv'
<1> USE DEF PortalInv, Typed, To, Ended, At
<1>1. CASE Stopped
  <2>1. /\ worker' = [pc |-> worker'.pc, status |-> worker'.status, run |-> worker.run,
                      stop |-> worker.stop, given |-> worker.given]
        /\ worker'.pc \in {"ended", "stop"}
        /\ worker'.status \in {worker.status, "stopped"}
    BY <1>1 DEF Stopped
  <2> QED  BY <1>1, <2>1 DEF Stopped, OneSession, OneToken
<1>2. CASE Shutdown
  <2>1. service' = [session |-> Nothing, token |-> service.token, held |-> FALSE] /\ file' = file
    BY <1>2 DEF Shutdown
  <2>2. /\ worker' = [pc |-> "ended", status |-> worker'.status, run |-> worker.run,
                      stop |-> worker.stop, given |-> worker.given]
        /\ worker'.status \in {"unavailable", "stopped"}
    BY <1>2 DEF Shutdown
  <2>3. /\ portal' = [sessions |-> portal'.sessions, bound |-> portal'.bound, last |-> portal.last]
        /\ past' = [kept |-> past'.kept, unheard |-> past'.unheard]
        /\ portal'.sessions \subseteq portal.sessions /\ active' \in {active, Nothing}
    <3>1. Leave(service.session) /\ active' \in {active, Nothing}
      BY <1>2 DEF Shutdown
    <3>2. Typed
      OBVIOUS
    <3> HIDE DEF Typed
    <3> QED  BY <3>1, <3>2, Leaving
  <2> QED  BY <2>1, <2>2, <2>3 DEF OneSession, OneToken
<1>3. CASE Restart
  <2>1. /\ portal' = [sessions |-> {}, bound |-> {}, last |-> portal.last]
        /\ past' = [kept |-> {}, unheard |-> {}]
    BY <1>3 DEF Restart, NoPast
  <2>2. /\ worker'.pc = "load" /\ worker'.status = "starting"
        /\ worker'.run = worker.run + 1
        /\ service' = [session |-> Nothing, token |-> Nothing, held |-> FALSE]
        /\ active' = Nothing
    BY <1>3 DEF Restart, Idle
  <2>3. worker' = [pc |-> worker'.pc, status |-> worker'.status, run |-> worker'.run,
                   stop |-> worker'.stop, given |-> worker'.given]
    BY <1>3 DEF Restart
  <2>4. Typed'
    BY <2>1, <2>2, <2>3
  <2>5. OneSession' /\ OneToken'
    BY <2>1, <2>2 DEF OneSession, OneToken
  <2> QED  BY <2>4, <2>5
<1> QED  BY <1>1, <1>2, <1>3

LEMMA StutterIInv == ASSUME PortalInv, UNCHANGED portalVars PROVE PortalInv'
  BY DEF portalVars, PortalInv, Typed, OneSession, OneToken

THEOREM PortalInvariant == PortalSpec => []PortalInv
<1>1. PortalInit => PortalInv
  BY PortalInitInv
<1>2. PortalInv /\ [PortalNext]_portalVars => PortalInv'
  BY EnvironmentIInv, OpenIInv, PollIInv, EndIInv, StutterIInv DEF PortalNext, Work
<1> QED  BY <1>1, <1>2, PTL DEF PortalSpec

(* While the worker polls, the session it polls is the only one of its run *)
(* that is open at the portal, but for those the portal refused to close   *)
(* (ManualFlagService::open, discard_previous).                            *)
THEOREM PortalOneSession == PortalSpec => []OneSessionIsPolled
<1>1. PortalInv => OneSessionIsPolled
  BY DEF PortalInv, OneSession, OneSessionIsPolled, At
<1> QED  BY <1>1, PortalInvariant, PTL

(* Every session is opened with the one stored token (start, reconnect,    *)
(* FileRestoreTokenStore).                                                 *)
THEOREM PortalToken == PortalSpec => []TokenIsKept
<1>1. PortalInv => TokenIsKept
  BY DEF PortalInv, OneToken, TokenIsKept
<1> QED  BY <1>1, PortalInvariant, PTL
=============================================================================
