----------------------- MODULE RecorderSupervisorProofs -----------------------
(***************************************************************************)
(* Proofs about RecorderSupervisor for every set of request ids, every     *)
(* table of delays and every bound.                                        *)
(***************************************************************************)
EXTENDS RecorderSupervisor, WellFoundedInduction, TLAPS

(* What has to be known of the save bookkeeping for the invariants to be    *)
(* preserved: served requests are not owed any more, the queued save has    *)
(* been neither signalled nor acknowledged, and ids are taken from the      *)
(* requests that were accepted.                                             *)
ServedIsNotOwed == \A o \in outputs : o.valid => o.req \notin owed
QueuedIsUnwritten == queued # None => \A o \in outputs : o.req # queued.id
PendingIsAccepted == \A s \in Pending : \E a \in accepted : a.id = s.id
DeliveredIsAccepted == \A d \in delivered : \E a \in accepted : a.id = d.id
DeliveredIsOver == \A d \in delivered : \A s \in Pending : d.id # s.id
ShutdownHasChild == shuttingDown => child # "none"

SaveInv ==
  /\ OwedIsInFlight
  /\ ServedIsNotOwed
  /\ QueuedBehindInFlight
  /\ QueuedIsUnwritten
  /\ FreshOutputIsInFlight
  /\ PendingIsAccepted
  /\ DeliveredIsAccepted
  /\ DeliveredIsOver
  /\ DeliveredOwnFile
  /\ ManualFlagStaysManual

ChildInv == RunningMatchesChild /\ ShutdownHasChild

IInv == TypeOK /\ ChildInv /\ SaveInv

-----------------------------------------------------------------------------
(* Every delay of the table is a number, however many failures there were.  *)
LEMMA RestartDelayIsNat ==
  ASSUME NEW n \in Nat
  PROVE  RestartDelay(n) \in Nat
<1>1. RestartDelays \in Seq(Nat) /\ Len(RestartDelays) > 0
  BY SupervisorAssumption
<1>2. (IF n < Len(RestartDelays) THEN n + 1 ELSE Len(RestartDelays)) \in 1 .. Len(RestartDelays)
  BY <1>1
<1> QED BY <1>1, <1>2 DEF RestartDelay

(* What SignalSave and Spawn do to the types.                               *)
LEMMA SignalSaveType ==
  ASSUME TypeOK, NEW r \in Requests, NEW p \in Provenance, SignalSave(r, p)
  PROVE  /\ inFlight' \in PendingSave
         /\ owed' \subseteq Requests
         /\ outputs' \subseteq Output
<1>1. \A o \in Output : [o EXCEPT !.fresh = FALSE] \in Output
  BY DEF Output
<1> QED BY <1>1 DEF TypeOK, SignalSave, PendingSave

(* The failure count, delays and stamps stay numbers, the pending saves and *)
(* the files stay what they are, whatever the supervisor or the child does. *)
LEMMA TypeStep ==
  ASSUME TypeOK, [Next]_vars
  PROVE  TypeOK'
<1> USE DEF saveVars, policyVars, childVars
<1>1. CASE Start
  BY <1>1 DEF Start, Spawn, TypeOK
<1>2. CASE RequestSave
  <2> PICK r \in Requests, p \in Provenance :
         RequestSignalled(r, p) \/ RequestCoalesced(r, p)
    BY <1>2 DEF RequestSave
  <2>1. CASE RequestSignalled(r, p)
    BY <2>1, SignalSaveType DEF RequestSignalled, TypeOK, PendingSave
  <2>2. CASE RequestCoalesced(r, p)
    <3>1. Coalesced(r, p) \in PendingSave
      BY DEF Coalesced, TypeOK, PendingSave, Provenance
    <3>2. [id |-> Coalesced(r, p).id, provenance |-> p] \in PendingSave
      BY <3>1 DEF PendingSave
    <3> QED BY <2>2, <3>1, <3>2 DEF RequestCoalesced, TypeOK
  <2> QED BY <2>1, <2>2
<1>3. CASE Discover
  <2> PICK o \in outputs : DiscoverSave(o) \/ DiscoverSaveSignalFails(o)
    BY <1>3 DEF Discover
  <2>1. CASE DiscoverSave(o)
    <3>1. inFlight \in PendingSave
      BY <2>1 DEF DiscoverSave, Discoverable, TypeOK
    <3>2. Acknowledgement(o) \in [id : Requests, provenance : Provenance, file : Requests]
      BY <3>1 DEF Acknowledgement, TypeOK, PendingSave, Output
    <3>3. /\ inFlight' \in PendingSave \cup {None}
          /\ owed' \subseteq Requests /\ outputs' \subseteq Output
      <4>1. CASE queued = None /\ inFlight' = None /\ UNCHANGED <<owed, outputs>>
        BY <4>1 DEF TypeOK
      <4>2. CASE queued # None /\ SignalSave(queued.id, queued.provenance)
        BY <4>2, SignalSaveType DEF TypeOK, PendingSave
      <4> QED BY <2>1, <4>1, <4>2 DEF DiscoverSave
    <3> QED BY <2>1, <3>2, <3>3 DEF DiscoverSave, TypeOK
  <2>2. CASE DiscoverSaveSignalFails(o)
    BY <2>2 DEF DiscoverSaveSignalFails, TypeOK
  <2> QED BY <2>1, <2>2
<1>4. CASE Poll
  <2>1. FailuresNow \in Nat
    BY DEF FailuresNow, TypeOK
  <2>2. CASE PollRunning
    BY <2>1, <2>2 DEF PollRunning, TypeOK
  <2>3. CASE PollExit
    <3>1. now + RestartDelay(FailuresNow) \in Nat
      BY <2>1, RestartDelayIsNat DEF TypeOK
    <3>2. stable' \in BOOLEAN
      BY <2>3 DEF PollExit, Exited, TypeOK
    <3>3. streak' \in Nat /\ streakStart' \in Nat
      BY <2>3 DEF PollExit, Exited, TypeOK
    <3>4. failures' \in Nat /\ nextRestart' \in Nat \cup {None}
      BY <2>1, <2>3, <3>1 DEF PollExit, Exited, TypeOK
    <3> QED BY <2>3, <3>2, <3>3, <3>4 DEF PollExit, Exited, TypeOK
  <2>4. CASE PollRestart
    BY <2>4 DEF PollRestart, Spawn, TypeOK
  <2> QED BY <1>4, <2>2, <2>3, <2>4 DEF Poll
<1>5. CASE Shutdown
  BY <1>5 DEF Shutdown, TypeOK
<1>6. CASE ChildExits
  BY <1>6 DEF ChildExits, TypeOK
<1>7. CASE ChildWrites
  <2>1. ASSUME NEW r \in Requests, BeginOutput(r) PROVE TypeOK'
    <3>1. [req |-> r, valid |-> FALSE, fresh |-> TRUE] \in Output
      BY DEF Output
    <3> QED BY <2>1, <3>1 DEF BeginOutput, TypeOK
  <2>2. ASSUME NEW o \in outputs, FinishOutput(o) PROVE TypeOK'
    <3>1. [o EXCEPT !.valid = TRUE, !.fresh = TRUE] \in Output
      BY DEF TypeOK, Output
    <3> QED BY <2>2, <3>1 DEF FinishOutput, TypeOK
  <2> QED BY <1>7, <2>1, <2>2 DEF ChildWrites
<1>8. CASE Tick
  BY <1>8 DEF Tick, TypeOK
<1>9. ASSUME NEW o \in outputs, RemoveOutput(o) PROVE TypeOK'
  BY <1>9 DEF RemoveOutput, TypeOK
<1>10. CASE UNCHANGED vars
  BY <1>10 DEF vars, TypeOK
<1> QED BY <1>1, <1>2, <1>3, <1>4, <1>5, <1>6, <1>7, <1>8, <1>9, <1>10 DEF Next

(* A new child is spawned only when none lives, and a shutdown concerns a   *)
(* child there is.                                                          *)
LEMMA ChildStep ==
  ASSUME ChildInv, [Next]_vars
  PROVE  ChildInv'
<1> USE DEF saveVars, policyVars, childVars, ChildInv, RunningMatchesChild, ShutdownHasChild
<1>1. CASE Start
  BY <1>1 DEF Start, Spawn
<1>2. CASE RequestSave
  BY <1>2 DEF RequestSave, RequestSignalled, RequestCoalesced
<1>3. CASE Discover
  BY <1>3 DEF Discover, DiscoverSave, DiscoverSaveSignalFails
<1>4. CASE Poll
  BY <1>4 DEF Poll, PollRunning, PollExit, Exited, PollRestart, Spawn
<1>5. CASE Shutdown
  BY <1>5 DEF Shutdown
<1>6. CASE ChildExits
  BY <1>6 DEF ChildExits
<1>7. CASE ChildWrites
  BY <1>7 DEF ChildWrites, BeginOutput, FinishOutput
<1>8. CASE Tick
  BY <1>8 DEF Tick
<1>9. CASE \E o \in outputs : RemoveOutput(o)
  BY <1>9 DEF RemoveOutput
<1>10. CASE UNCHANGED vars
  BY <1>10 DEF vars
<1> QED BY <1>1, <1>2, <1>3, <1>4, <1>5, <1>6, <1>7, <1>8, <1>9, <1>10 DEF Next

(* The pending saves, what the child owes and the files it wrote keep       *)
(* fitting together.                                                        *)
LEMMA SaveStep ==
  ASSUME TypeOK, SaveInv, [Next]_vars
  PROVE  SaveInv'
<1> USE DEF saveVars, policyVars, childVars, SaveInv, Pending,
            OwedIsInFlight, ServedIsNotOwed, QueuedBehindInFlight, QueuedIsUnwritten,
            FreshOutputIsInFlight, PendingIsAccepted, DeliveredIsAccepted,
            DeliveredIsOver, DeliveredOwnFile, ManualFlagStaysManual
<1>a. None \notin PendingSave
  BY SupervisorAssumption
<1>1. CASE Start
  BY <1>1 DEF Start, Spawn
<1>2. CASE RequestSave
  <2> PICK r \in Requests, p \in Provenance :
         IsFresh(r) /\ (RequestSignalled(r, p) \/ RequestCoalesced(r, p))
    BY <1>2 DEF RequestSave
  <2>1. CASE RequestSignalled(r, p)
    <3>1. inFlight' = [id |-> r, provenance |-> p] /\ inFlight' # None /\ queued' = None
      BY <2>1, <1>a DEF RequestSignalled, SignalSave, PendingSave, TypeOK
    <3> QED BY <2>1, <3>1, <1>a DEF RequestSignalled, SignalSave, IsFresh, TypeOK, Output
  <2>2. CASE RequestCoalesced(r, p)
    BY <2>2, <1>a DEF RequestCoalesced, Coalesced, IsFresh, TypeOK, PendingSave
  <2> QED BY <2>1, <2>2
<1>3. CASE Discover
  <2> PICK o \in outputs : DiscoverSave(o) \/ DiscoverSaveSignalFails(o)
    BY <1>3 DEF Discover
  <2>1. CASE DiscoverSave(o) /\ queued = None
    BY <2>1, <1>a DEF DiscoverSave, Discoverable, Acknowledgement, TypeOK, PendingSave
  <2>2. CASE DiscoverSave(o) /\ queued # None
    BY <2>2, <1>a DEF DiscoverSave, Discoverable, Acknowledgement, SignalSave, TypeOK, PendingSave, Output
  <2>3. CASE DiscoverSaveSignalFails(o)
    BY <2>3 DEF DiscoverSaveSignalFails, Discoverable
  <2> QED BY <2>1, <2>2, <2>3
<1>4. CASE Poll
  BY <1>4 DEF Poll, PollRunning, PollExit, Exited, PollRestart, Spawn
<1>5. CASE Shutdown
  BY <1>5 DEF Shutdown
<1>6. CASE ChildExits
  BY <1>6 DEF ChildExits
<1>7. CASE ChildWrites
  <2>1. ASSUME NEW r \in Requests, BeginOutput(r) PROVE SaveInv'
    BY <2>1 DEF BeginOutput
  <2>2. ASSUME NEW o \in outputs, FinishOutput(o) PROVE SaveInv'
    BY <2>2 DEF FinishOutput, TypeOK, Output
  <2> QED BY <1>7, <2>1, <2>2 DEF ChildWrites
<1>8. CASE Tick
  BY <1>8 DEF Tick
<1>9. CASE \E o \in outputs : RemoveOutput(o)
  BY <1>9 DEF RemoveOutput
<1>10. CASE UNCHANGED vars
  BY <1>10 DEF vars
<1> QED BY <1>1, <1>2, <1>3, <1>4, <1>5, <1>6, <1>7, <1>8, <1>9, <1>10 DEF Next

-----------------------------------------------------------------------------
(* A supervisor before start: no child, no save, no file.                   *)
LEMMA InitIInv == Init => IInv
<1> SUFFICES ASSUME Init PROVE IInv
  OBVIOUS
<1>1. TypeOK
  BY DEF Init, TypeOK
<1>2. ChildInv
  BY DEF Init, ChildInv, RunningMatchesChild, ShutdownHasChild
<1>3. Pending = {}
  BY DEF Init, Pending
<1>4. SaveInv
  BY <1>3 DEF Init, SaveInv, OwedIsInFlight, ServedIsNotOwed, QueuedBehindInFlight,
       QueuedIsUnwritten, FreshOutputIsInFlight, PendingIsAccepted,
       DeliveredIsAccepted, DeliveredIsOver, DeliveredOwnFile, ManualFlagStaysManual
<1> QED BY <1>1, <1>2, <1>4 DEF IInv

(* The whole invariant of the supervisor, child included, in every          *)
(* reachable state: request_save, discover_save, poll and shutdown preserve *)
(* it in whatever order they, the child and the evidence store act.         *)
THEOREM SupervisorInvariant == Spec => []IInv
<1>1. Init => IInv
  BY InitIInv
<1>2. IInv /\ [Next]_vars => IInv'
  BY TypeStep, ChildStep, SaveStep DEF IInv
<1> QED BY <1>1, <1>2, PTL DEF Spec

(* Type correctness of Supervisor and its child.                            *)
THEOREM TypeCorrect == Spec => []TypeOK
<1>1. IInv => TypeOK
  BY DEF IInv
<1> QED BY <1>1, SupervisorInvariant, PTL

(* No child is spawned over a living one (Supervisor::poll and spawn).      *)
THEOREM OneChild == Spec => []RunningMatchesChild
<1>1. IInv => RunningMatchesChild
  BY DEF IInv, ChildInv
<1> QED BY <1>1, SupervisorInvariant, PTL

(* acknowledge never hands out a file another request was written for.      *)
THEOREM AcknowledgesOwnFile == Spec => []DeliveredOwnFile
<1>1. IInv => DeliveredOwnFile
  BY DEF IInv, SaveInv
<1> QED BY <1>1, SupervisorInvariant, PTL

(* request_save's coalescing never loses a Manual Flag's provenance.        *)
THEOREM ManualStaysManual == Spec => []ManualFlagStaysManual
<1>1. IInv => ManualFlagStaysManual
  BY DEF IInv, SaveInv
<1> QED BY <1>1, SupervisorInvariant, PTL

(* One save at a time is with the child, and the queued one is another.     *)
THEOREM SavesAreSerial == Spec => [](OwedIsInFlight /\ QueuedBehindInFlight /\ FreshOutputIsInFlight)
<1>1. IInv => OwedIsInFlight /\ QueuedBehindInFlight /\ FreshOutputIsInFlight
  BY DEF IInv, SaveInv
<1> QED BY <1>1, SupervisorInvariant, PTL

(* Once shutdown was called poll restarts nothing.                          *)
THEOREM ShutdownIsFinal == Spec => NoRestartAfterShutdown
<1>1. IInv /\ [Next]_vars
        => [shuttingDown => shuttingDown' /\ (child' = "alive" => child = "alive")]_vars
  <2> SUFFICES ASSUME ChildInv, [Next]_vars, shuttingDown
               PROVE  \/ shuttingDown' /\ (child' = "alive" => child = "alive")
                      \/ UNCHANGED vars
    BY DEF IInv
  <2> QED
    BY DEF Next, vars, saveVars, policyVars, childVars, ChildInv, ShutdownHasChild,
           Start, RequestSave, RequestSignalled, RequestCoalesced, Discover,
           DiscoverSave, DiscoverSaveSignalFails, Poll, PollRunning, PollExit,
           Exited, PollRestart, Shutdown, ChildExits, ChildWrites, BeginOutput,
           FinishOutput, Tick, RemoveOutput
<1> QED BY <1>1, SupervisorInvariant, PTL DEF Spec, NoRestartAfterShutdown

-----------------------------------------------------------------------------
(* Induction over the natural numbers, for a set.                           *)
LEMMA NatSet ==
  ASSUME NEW S, 0 \in S, \A n \in Nat : n \in S => n + 1 \in S
  PROVE  Nat \subseteq S
<1> SUFFICES ASSUME Nat \ S # {} PROVE FALSE
  OBVIOUS
<1>1. PICK x \in Nat \ S : \A y \in Nat \ S : <<y, x>> \notin OpToRel(<, Nat)
  BY NatLessThanWellFounded, WFMin
<1>0. x \in Nat /\ x \notin S /\ x # 0
  OBVIOUS
<1>2. x - 1 \in Nat /\ (x - 1) + 1 = x
  BY <1>0
<1>4. x - 1 \notin S
  BY <1>0, <1>2
<1>3. <<x - 1, x>> \in OpToRel(<, Nat)
  BY <1>2 DEF OpToRel
<1> QED BY <1>1, <1>2, <1>3, <1>4

(* The first n terms of TotalDelay                                          *)
Partial(f, n) ==
  /\ f \in [0..n -> Nat] /\ f[0] = 0
  /\ \A i \in 0..(n - 1) : f[i + 1] = f[i] + RestartDelay(i)

LEMMA PartialExists == \A n \in Nat : \E f : Partial(f, n)
<1> DEFINE S == {n \in Nat : \E f : Partial(f, n)}
<1>1. 0 \in S
  <2>1. Partial([i \in 0..0 |-> 0], 0)
    BY DEF Partial
  <2> QED BY <2>1
<1>2. ASSUME NEW n \in Nat, n \in S PROVE n + 1 \in S
  <2>1. PICK f : Partial(f, n)
    BY <1>2
  <2> DEFINE d == f[n] + RestartDelay(n)
             g == [i \in 0..(n + 1) |-> IF i = n + 1 THEN d ELSE f[i]]
  <2>2. d \in Nat /\ f \in [0..n -> Nat] /\ f[0] = 0
    <3>1. f \in [0..n -> Nat] /\ f[0] = 0 /\ n \in 0..n
      BY <2>1 DEF Partial
    <3>2. f[n] \in Nat /\ RestartDelay(n) \in Nat
      BY <3>1, RestartDelayIsNat
    <3> QED BY <3>1, <3>2
  <2>3. g \in [0..(n + 1) -> Nat] /\ g[0] = 0
    BY <2>2
  <2>4. ASSUME NEW i \in 0..n PROVE g[i + 1] = g[i] + RestartDelay(i)
    <3>1. CASE i = n
      BY <2>2, <3>1
    <3>2. CASE i # n
      <4>1. i \in 0..(n - 1) /\ f[i + 1] = f[i] + RestartDelay(i)
        BY <2>1, <3>2 DEF Partial
      <4>2. g[i + 1] = f[i + 1] /\ g[i] = f[i]
        BY <4>1
      <4> QED BY <4>1, <4>2
    <3> QED BY <3>1, <3>2
  <2> HIDE DEF g
  <2>5. Partial(g, n + 1)
    BY <2>3, <2>4 DEF Partial
  <2> QED BY <2>5
<1> HIDE DEF S
<1>3. Nat \subseteq S
  BY <1>1, <1>2, NatSet
<1> QED BY <1>3 DEF S

LEMMA PartialUnique ==
  ASSUME NEW f, NEW g, NEW n \in Nat, NEW m \in Nat, n <= m, Partial(f, n), Partial(g, m)
  PROVE  f[n] = g[n]
<1> DEFINE S == {i \in Nat : i <= n => f[i] = g[i]}
<1>1. 0 \in S
  BY DEF Partial
<1>2. ASSUME NEW i \in Nat, i \in S PROVE i + 1 \in S
  <2> SUFFICES ASSUME i + 1 <= n PROVE f[i + 1] = g[i + 1]
    OBVIOUS
  <2>1. i \in 0..(n - 1) /\ i \in 0..(m - 1) /\ f[i] = g[i]
    BY <1>2
  <2> QED BY <2>1 DEF Partial
<1> HIDE DEF S
<1>3. Nat \subseteq S
  BY <1>1, <1>2, NatSet
<1> QED BY <1>3 DEF S

(* TotalDelay is what its recursive definition says.                        *)
LEMMA TotalDelayIsSum ==
  /\ TotalDelay[0] = 0
  /\ \A n \in Nat : /\ TotalDelay[n] \in Nat
                    /\ TotalDelay[n + 1] = TotalDelay[n] + RestartDelay(n)
<1> DEFINE p(n) == CHOOSE f : Partial(f, n)
           F == [n \in Nat |-> p(n)[n]]
<1>1. \A n \in Nat : Partial(p(n), n)
  BY PartialExists
<1>2. \A n \in Nat : p(n)[n] \in Nat /\ p(0)[0] = 0
  <2> HIDE DEF p
  <2>1. \A n \in Nat : p(n) \in [0..n -> Nat] /\ p(n)[0] = 0 /\ n \in 0..n
    BY <1>1 DEF Partial
  <2> QED BY <2>1
<1>3. ASSUME NEW n \in Nat PROVE p(n + 1)[n + 1] = p(n)[n] + RestartDelay(n)
  <2>1. Partial(p(n), n) /\ Partial(p(n + 1), n + 1)
    BY <1>1
  <2> HIDE DEF p
  <2>2. p(n)[n] = p(n + 1)[n]
    BY <2>1, PartialUnique
  <2>3. p(n + 1)[n + 1] = p(n + 1)[n] + RestartDelay(n)
    BY <2>1 DEF Partial
  <2> QED BY <2>2, <2>3
<1> HIDE DEF p
<1>4. \A n \in Nat : F[n] = IF n = 0 THEN 0 ELSE F[n - 1] + RestartDelay(n - 1)
  <2>1. ASSUME NEW n \in Nat, n # 0 PROVE p(n)[n] = p(n - 1)[n - 1] + RestartDelay(n - 1)
    <3>1. n - 1 \in Nat /\ (n - 1) + 1 = n
      BY <2>1
    <3> QED BY <1>3, <3>1
  <2> QED BY <1>2, <2>1
<1>5. F = [n \in Nat |-> IF n = 0 THEN 0 ELSE F[n - 1] + RestartDelay(n - 1)]
  BY <1>4
<1>6. \E G : G = [n \in Nat |-> IF n = 0 THEN 0 ELSE G[n - 1] + RestartDelay(n - 1)]
  BY <1>5
<1>7. TotalDelay = [n \in Nat |-> IF n = 0 THEN 0 ELSE TotalDelay[n - 1] + RestartDelay(n - 1)]
  BY <1>6, Zenon DEF TotalDelay
<1>8. TotalDelay[0] = 0
  BY <1>7
<1>9. ASSUME NEW n \in Nat PROVE TotalDelay[n + 1] = TotalDelay[n] + RestartDelay(n)
  BY <1>7
<1>10. Nat \subseteq {n \in Nat : TotalDelay[n] \in Nat}
  <2> DEFINE S == {n \in Nat : TotalDelay[n] \in Nat}
  <2>1. 0 \in S
    BY <1>8
  <2>2. ASSUME NEW n \in Nat, n \in S PROVE n + 1 \in S
    BY <1>9, <2>2, RestartDelayIsNat
  <2> HIDE DEF S
  <2>3. Nat \subseteq S
    BY <2>1, <2>2, NatSet
  <2> QED BY <2>3 DEF S
<1> QED BY <1>8, <1>9, <1>10
-----------------------------------------------------------------------------
(* Why a crash loop is slow.  A running child that is not stable yet was     *)
(* started after as many failures as there were exits in a row, and after   *)
(* the delays between them; one that is stable has lived long enough to     *)
(* end the row.  A restart that is due is due after the delays.             *)
Due(n) == streakStart + TotalDelay[n]

SlowInv ==
  /\ startedAt <= now /\ streakStart <= now
  /\ child = "none" => failures = 0 /\ streak = 0
  /\ running /\ stable => failures = 0 /\ LivedLongEnough
  /\ running /\ ~stable => failures = streak
  /\ running /\ streak > 0 => startedAt >= Due(streak)
  /\ ~running /\ ~shuttingDown /\ nextRestart # None =>
       streak > 0 /\ failures = streak /\ nextRestart >= Due(streak)
  /\ CrashLoopIsSlow

(* The numbers the invariant compares                                       *)
LEMMA SlowNumbers ==
  ASSUME TypeOK
  PROVE  /\ startedAt \in Nat /\ streakStart \in Nat /\ now \in Nat /\ StableAfter \in Nat
         /\ streak \in Nat /\ failures \in Nat /\ TotalDelay[streak] \in Nat
         /\ nextRestart \in Nat \cup {None} /\ None \notin Nat
         /\ stable \in BOOLEAN /\ running \in BOOLEAN /\ shuttingDown \in BOOLEAN
BY SupervisorAssumption, TotalDelayIsSum DEF TypeOK

(* What the supervisor decides by has not changed.                          *)
LEMMA SlowFrame ==
  ASSUME SlowInv, UNCHANGED <<policyVars, running, now>>, child' = "none" => child = "none"
  PROVE  SlowInv'
BY DEF SlowInv, Due, CrashLoopIsSlow, LivedLongEnough, policyVars

(* A child is started: the first one, or after the delay that was due.      *)
LEMMA SlowSpawn ==
  ASSUME TypeOK, SlowInv, Spawn, UNCHANGED <<failures, now, streak, streakStart>>,
         failures = streak, streak > 0 => now >= Due(streak)
  PROVE  SlowInv'
<1>1. running' /\ ~stable' /\ child' = "alive" /\ startedAt' = now
  BY DEF Spawn
<1>2. Due(streak)' = Due(streak) /\ CrashLoopIsSlow'
  BY DEF SlowInv, Due, CrashLoopIsSlow
<1> QED BY <1>1, <1>2, SlowNumbers DEF SlowInv

(* A child that exits either ends the row, and its failures count from one  *)
(* again, or lengthens it, after it was itself started late enough.         *)
LEMMA SlowExit ==
  ASSUME TypeOK, ChildInv, SlowInv, PollExit
  PROVE  SlowInv'
<1>1. /\ running /\ ~running' /\ child' = "reaped"
      /\ streak' = IF LivedLongEnough THEN 1 ELSE streak + 1
      /\ streakStart' = IF streak' = 1 THEN now ELSE streakStart
      /\ UNCHANGED <<shuttingDown, startedAt, now>>
      /\ ~shuttingDown => failures' = FailuresNow + 1 /\ nextRestart' = now + RestartDelay(FailuresNow)
  BY DEF PollExit, Exited
<1>2. /\ TotalDelay[0] = 0 /\ TotalDelay[1] = RestartDelay(0) /\ RestartDelay(0) \in Nat
      /\ TotalDelay[streak + 1] = TotalDelay[streak] + RestartDelay(streak)
      /\ RestartDelay(streak) \in Nat
  BY SlowNumbers, TotalDelayIsSum, RestartDelayIsNat
<1>3. CASE LivedLongEnough
  <2>1. FailuresNow = 0
    BY <1>1, <1>3 DEF FailuresNow, BecomesStable, SlowInv
  <2>2. streak' = 1 /\ streakStart' = now
    BY <1>1, <1>3
  <2>3. CrashLoopIsSlow'
    BY <1>1, <1>2, <2>2, SlowNumbers DEF CrashLoopIsSlow
  <2>4. ~shuttingDown => nextRestart' >= Due(streak)' /\ failures' = streak'
    BY <1>1, <1>2, <2>1, <2>2, SlowNumbers DEF Due
  <2> QED BY <1>1, <2>2, <2>3, <2>4, SlowNumbers DEF SlowInv
<1>4. CASE ~LivedLongEnough
  <2>1. ~stable /\ FailuresNow = streak /\ streak' = streak + 1
    BY <1>1, <1>4, SlowNumbers DEF FailuresNow, BecomesStable, SlowInv
  <2>2. /\ streak = 0 => streakStart' = now
        /\ streak > 0 => streakStart' = streakStart /\ now >= Due(streak)
    BY <1>1, <2>1, SlowNumbers DEF SlowInv, Due
  <2>3. now >= streakStart' + TotalDelay[streak] /\ streakStart' \in Nat /\ streakStart' <= now
    BY <1>1, <1>2, <2>2, SlowNumbers DEF SlowInv, Due
  <2>4. CrashLoopIsSlow'
    BY <1>1, <2>1, <2>3, SlowNumbers DEF CrashLoopIsSlow
  <2>5. ~shuttingDown => nextRestart' >= Due(streak)' /\ failures' = streak'
    BY <1>1, <1>2, <2>1, <2>3, SlowNumbers DEF Due
  <2> QED BY <1>1, <2>1, <2>3, <2>4, <2>5, SlowNumbers DEF SlowInv
<1> QED BY <1>3, <1>4

LEMMA SlowStep ==
  ASSUME TypeOK, ChildInv, SlowInv, [Next]_vars
  PROVE  SlowInv'
<1> USE DEF saveVars, childVars
<1>1. CASE Start
  <2>1. child = "none" /\ Spawn /\ UNCHANGED <<failures, now, streak, streakStart>>
    BY <1>1 DEF Start
  <2>2. failures = streak /\ ~(streak > 0)
    BY <2>1, SlowNumbers DEF SlowInv
  <2> QED BY <2>1, <2>2, SlowSpawn
<1>2. CASE RequestSave
  BY <1>2, SlowFrame DEF RequestSave, RequestSignalled, RequestCoalesced
<1>3. CASE Discover
  BY <1>3, SlowFrame DEF Discover, DiscoverSave, DiscoverSaveSignalFails
<1>4. CASE PollRunning
  <2>1. /\ running /\ ~stable /\ LivedLongEnough /\ stable' /\ failures' = 0
        /\ UNCHANGED <<shuttingDown, startedAt, nextRestart, streak, streakStart, childVars, now>>
    BY <1>4 DEF PollRunning, BecomesStable, FailuresNow
  <2>2. running' /\ child' = child
    BY <2>1
  <2>3. LivedLongEnough' /\ CrashLoopIsSlow' /\ Due(streak)' = Due(streak)
    BY <2>1 DEF LivedLongEnough, SlowInv, CrashLoopIsSlow, Due
  <2> QED BY <2>1, <2>2, <2>3 DEF SlowInv
<1>5. CASE PollExit
  BY <1>5, SlowExit
<1>6. CASE PollRestart
  <2>1. /\ ~running /\ ~shuttingDown /\ nextRestart # None /\ now >= nextRestart
        /\ Spawn /\ UNCHANGED <<failures, now, streak, streakStart>>
    BY <1>6 DEF PollRestart
  <2>2. failures = streak /\ nextRestart \in Nat /\ nextRestart >= Due(streak) /\ Due(streak) \in Nat
    BY <2>1, SlowNumbers DEF SlowInv, Due
  <2>3. now >= Due(streak)
    BY <2>1, <2>2, SlowNumbers
  <2> QED BY <2>1, <2>2, <2>3, SlowSpawn
<1>7. CASE Shutdown
  <2>1. /\ shuttingDown' /\ UNCHANGED <<stable, startedAt, failures, streak, streakStart, now>>
        /\ running' = running /\ child' = child
    BY <1>7 DEF Shutdown
  <2>2. LivedLongEnough' = LivedLongEnough /\ Due(streak)' = Due(streak) /\ CrashLoopIsSlow'
    BY <2>1 DEF LivedLongEnough, SlowInv, CrashLoopIsSlow, Due
  <2> QED BY <2>1, <2>2 DEF SlowInv
<1>8. CASE ChildExits
  BY <1>8, SlowFrame DEF ChildExits
<1>9. CASE ChildWrites
  BY <1>9, SlowFrame DEF ChildWrites, BeginOutput, FinishOutput
<1>10. CASE Tick
  <2>1. /\ now' = now + 1 /\ running' = running /\ child' = child
        /\ UNCHANGED <<shuttingDown, stable, startedAt, nextRestart, failures, streak, streakStart>>
    BY <1>10 DEF Tick, policyVars
  <2>2. (LivedLongEnough => LivedLongEnough') /\ Due(streak)' = Due(streak)
    BY <2>1, SlowNumbers DEF LivedLongEnough, Due
  <2>3. CrashLoopIsSlow'
    <3>1. streak > 0 => TotalDelay[streak - 1] \in Nat
      BY SlowNumbers, TotalDelayIsSum
    <3> QED BY <2>1, <3>1, SlowNumbers DEF SlowInv, CrashLoopIsSlow
  <2> QED BY <2>1, <2>2, <2>3, SlowNumbers DEF SlowInv
<1>11. CASE \E o \in outputs : RemoveOutput(o)
  BY <1>11, SlowFrame DEF RemoveOutput
<1>12. CASE UNCHANGED vars
  BY <1>12, SlowFrame DEF vars
<1> QED BY <1>1, <1>2, <1>3, <1>4, <1>5, <1>6, <1>7, <1>8, <1>9, <1>10, <1>11, <1>12
        DEF Next, Poll

(* A child that keeps exiting is restarted ever more slowly, for every      *)
(* table of delays: the supervisor counts as many failures as there were    *)
(* exits in a row, waits the delay of that count before each restart, and   *)
(* forgets them only for a child that was stable (CrashLoopIsSlow; poll).   *)
THEOREM CrashLoopSlowsDown == Spec => []CrashLoopIsSlow
<1>1. Init => SlowInv
  <2>1. TotalDelay[0] = 0
    BY TotalDelayIsSum
  <2> QED BY <2>1 DEF Init, SlowInv, CrashLoopIsSlow
<1>2. IInv /\ SlowInv /\ [Next]_vars => SlowInv'
  BY SlowStep DEF IInv
<1>3. SlowInv => CrashLoopIsSlow
  BY DEF SlowInv
<1> QED BY <1>1, <1>2, <1>3, SupervisorInvariant, PTL DEF Spec

-----------------------------------------------------------------------------
(* Every step of the supervisor is a step of the save channel or leaves it  *)
(* alone: only the four actions below touch the pending saves.              *)
LEMMA ChannelStep ==
  ASSUME IInv, [Next]_vars
  PROVE  [Channel!Next]_(Channel!channelVars)
<1> USE DEF saveVars, policyVars, childVars, Channel!channelVars
<1>1. CASE RequestSave
  <2> PICK r \in Requests, p \in Provenance :
         RequestSignalled(r, p) \/ RequestCoalesced(r, p)
    BY <1>1 DEF RequestSave
  <2>1. p \in Channel!Provenance
    BY DEF Provenance, Channel!Provenance
  <2>2. CASE RequestSignalled(r, p)
    <3>1. Channel!Request(r, p)
      BY <2>2 DEF RequestSignalled, SignalSave, Channel!Request, Channel!Joined, Channel!Save
    <3> QED BY <2>1, <3>1 DEF Channel!Next
  <2>3. CASE RequestCoalesced(r, p)
    <3>1. Channel!Request(r, p)
      BY <2>3 DEF RequestCoalesced, Coalesced, Channel!Request, Channel!Joined, Channel!Save
    <3> QED BY <2>1, <3>1 DEF Channel!Next
  <2> QED BY <2>2, <2>3
<1>2. CASE Discover
  <2> PICK o \in outputs : DiscoverSave(o) \/ DiscoverSaveSignalFails(o)
    BY <1>2 DEF Discover
  <2>1. CASE DiscoverSave(o)
    <3>1. o.req = inFlight.id
      BY <2>1 DEF DiscoverSave, Discoverable, IInv, SaveInv, FreshOutputIsInFlight
    <3>2. queued # None => queued = [id |-> queued.id, provenance |-> queued.provenance]
      BY DEF IInv, TypeOK, PendingSave
    <3>3. inFlight' = queued
      BY <2>1, <3>2 DEF DiscoverSave, SignalSave
    <3>4. Channel!Acknowledge
      BY <2>1, <3>1, <3>3 DEF DiscoverSave, Discoverable, Acknowledgement,
         Channel!Acknowledge, Channel!Acknowledgement
    <3> QED BY <3>4 DEF Channel!Next
  <2>2. CASE DiscoverSaveSignalFails(o)
    <3>1. Channel!Lose
      BY <2>2 DEF DiscoverSaveSignalFails, Discoverable, Channel!Lose
    <3> QED BY <3>1 DEF Channel!Next
  <2> QED BY <2>1, <2>2
<1>3. CASE UNCHANGED vars
  BY <1>3 DEF vars
<1>4. CASE Start \/ Poll \/ Shutdown \/ ChildExits \/ ChildWrites \/ Tick
           \/ \E o \in outputs : RemoveOutput(o)
  BY <1>4 DEF Start, Poll, PollRunning, PollExit, Exited, PollRestart, Shutdown,
     ChildExits, ChildWrites, BeginOutput, FinishOutput, Tick, RemoveOutput
<1> QED BY <1>1, <1>2, <1>3, <1>4 DEF Next

(* The supervisor with its child implements the save channel, for every set *)
(* of requests and every delay table: what the coordinator assumes of the   *)
(* recorder is what the code of Supervisor does.                            *)
THEOREM SupervisorImplementsChannel == Spec => ImplementsSaveChannel
<1>1. Init => Channel!Init
  BY DEF Init, Channel!Init
<1>2. IInv /\ [Next]_vars => [Channel!Next]_(Channel!channelVars)
  BY ChannelStep
<1> QED BY <1>1, <1>2, SupervisorInvariant, PTL DEF Spec, ImplementsSaveChannel, Channel!Spec
=============================================================================
