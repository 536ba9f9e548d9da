------------------------- MODULE EvidenceLedgerProofs -------------------------
(***************************************************************************)
(* Proofs about EvidenceLedger, for any rounds, flags and payloads, and    *)
(* any bounds.                                                             *)
(*                                                                         *)
(* A method commits call by call, so every invariant speaks of the calls   *)
(* that are left of it too: what such a call presumes is stored, or an     *)
(* earlier call of the method will store it.  Fits and Deciding say this   *)
(* of a method as it begins, the ...At(n) of call n of the rest, and Shift *)
(* carries it over to the rest of the rest.                                *)
(*                                                                         *)
(* Above BaseInv (types, and what is known of the captures) the invariants *)
(* are layers: TraceInv for CaptureIsTraceable; TornInv and OpenInv for    *)
(* RequestedIsDeliverable; ShareInv for ClipNamesItsCaptures; StoredInv    *)
(* for OriginIsStored.                                                     *)
(***************************************************************************)
EXTENDS EvidenceLedger, FiniteSetTheorems, SequenceTheorems, WellFoundedInduction, TLAPS

(* Calls among others, and where they are in a method                       *)
Made(do, c, calls) == \E call \in calls : call.do = do /\ call.capture = c
MadeOf(do, c, x, calls) ==
  \E call \in calls : call.do = do /\ call.capture = c /\ call.arg = x
Before(s, n) == {s[m] : m \in 1..(n - 1)}
After(s, n) == {s[m] : m \in (n + 1)..Len(s)}
Follows(s, n, do, c) == n > 1 /\ s[n - 1].do = do /\ s[n - 1].capture = c

(* What the state ranges over                                               *)
Receipts == Payloads \X Nat
Entries == [request : Fresh, manual : BOOLEAN]

(* The calls a method may consist of                                        *)
Decisions == {"requested", "retryable", "cancelled"}
Calls ==
  [do : {"snapshot", "processed"}, capture : {None}, arg : Receipts]
  \cup [do : {"candidate", "trigger", "noted"}, capture : Rounds, arg : Receipts]
  \cup [do : {"persisted", "scheduled"}, capture : Rounds, arg : SUBSET Receipts]
  \cup [do : {"attempt"}, capture : Captures, arg : Requests]
  \cup [do : {"flag", "ask"}, capture : Flags, arg : {None}]
  \cup [do : {"join", "fail"} \cup Decisions, capture : Captures, arg : {None}]
  \cup [do : {"disarm", "window"}, capture : Rounds, arg : {None}]
  \cup [do : {"clip", "origin"}, capture : {None}, arg : Entries]

(* The rows of attempts and Clips, and what the adapter remembers           *)
AttemptRows == [session : Nat, status : {"none", "requested", "saved", "failed"},
                media : {None} \cup (Requests \X Nat)]
ClipRows == [media : {None} \cup (Fresh \X Nat), kind : {None, "raw_manual", "raw_auto"},
             origin : SUBSET (Flags \cup Receipts), complete : BOOLEAN]
MemoryRows == [request : {None} \cup Requests, generation : Nat, failed : BOOLEAN]

Typed ==
  /\ session \in Nat /\ session \in 1..MaxSession /\ next \in Nat /\ ordinal \in Nat
  /\ attempts \in [Requests -> AttemptRows] /\ clips \in [Requests -> ClipRows]
  /\ persisted \in [Rounds -> SUBSET Receipts]
  /\ memory \in [Captures -> MemoryRows] /\ captures \in [Captures -> Statuses]
  /\ noted \in [Rounds -> SUBSET Receipts] /\ \A r \in Rounds : IsFiniteSet(noted[r])
  /\ evidence \in [Rounds -> SUBSET Receipts]
  /\ outstanding \in Seq(Entries) /\ Len(outstanding) <= 2
  /\ acked \in {None} \cup Entries
  /\ todo \in Seq(Calls)

(* What the rest of a method knows of its captures: it decides on, or makes *)
(* an attempt for, a scheduled capture that is not requested, schedules one *)
(* that has no attempt and asks for one that is not scheduled.              *)
KnownAt(n) ==
  LET do == todo[n].do
      c == todo[n].capture
  IN /\ do \in Decisions \cup {"attempt"} => captures[c] # "none"
     /\ do = "attempt" => captures[c] # "requested"
     /\ do = "ask" => captures[c] = "none"
     /\ do = "requested" => n = Len(todo)
     /\ do = "scheduled" =>
          /\ memory[c].request = None
          /\ \A m \in DOMAIN todo : todo[m].do = "attempt" => todo[m].capture # c
KnownInv ==
  /\ \A c \in Captures : captures[c] = "none" => memory[c].request = None
  /\ \A n \in DOMAIN todo : KnownAt(n)

(* A decision is still to come for a capture with a new attempt; a refusal  *)
(* comes after its failure.                                                 *)
TornAt(n) ==
  LET c == todo[n].capture
  IN /\ todo[n].do = "retryable" =>
          IF n = 1 THEN memory[c].failed ELSE Follows(todo, n, "fail", c)
     /\ todo[n].do = "attempt" => \E d \in Decisions : Made(d, c, After(todo, n))
     /\ todo[n].do = "ask" => n = Len(todo)

(* A waiting capture with an attempt to use again is one whose upsert       *)
(* stopped halfway, or is about to be decided on.                           *)
TornInv ==
  /\ \A c \in Captures : captures[c] \in {"scheduled", "retryable"} /\ memory[c].request # None =>
       memory[c].failed \/ memory[c].request \in torn \/ c \in Upserted
  /\ \A n \in DOMAIN todo : TornAt(n)

(* What a failure may hit, and what a requested capture may remember: of    *)
(* the attempts whose upsert did not stop halfway, a made-up one, and the   *)
(* one the recorder gave                                                    *)
Spoilt(q) == q # None /\ q \in Synthetic \cup torn
Sound(q) == q # None /\ q \in Fresh \cup torn
Attempted(c, qs, n) ==
  \E call \in Before(todo, n) : call.do = "attempt" /\ call.capture = c /\ call.arg \in qs
OpenAt(n) ==
  LET do == todo[n].do
      c == todo[n].capture
  IN /\ do = "fail" => Spoilt(memory[c].request) \/ Attempted(c, Synthetic, n)
     /\ do = "requested" => Sound(memory[c].request) \/ Attempted(c, Fresh, n)

(* A method either records what the recorder accepted or fails attempts     *)
Requesting == \A n \in DOMAIN todo :
  todo[n].do # "fail" /\ (todo[n].do = "attempt" => todo[n].arg \in Fresh)
Failing == \A n \in DOMAIN todo :
  todo[n].do # "requested" /\ (todo[n].do = "attempt" => todo[n].arg \in Synthetic)

(* Requested captures remember attempts that no failure may hit.            *)
OpenInv ==
  /\ \A q \in Requests : attempts[q].session <= session
  /\ \A q \in Fresh : Own(q) /\ q \notin torn => attempts[q].status \in {"requested", "saved"}
  /\ \A c \in Requested : Sound(memory[c].request)
  /\ \A n \in DOMAIN todo : OpenAt(n)
  /\ Requesting \/ Failing

(* The rows a capture is traced by                                          *)
Joined(c) == [session |-> session, capture |-> c, request |-> memory[c].request] \in joins
HasCandidate(r) == \E c \in candidates : c.session = session /\ c.round = r
HasTrigger(r, i) == [session |-> session, round |-> r, receipt |-> i] \in triggers

(* A join comes before the decision, a candidate and its triggers before    *)
(* they are remembered, and that before the schedule.                       *)
TraceAt(n) ==
  LET do == todo[n].do
      c == todo[n].capture
      arg == todo[n].arg
  IN /\ do = "requested" => IF n = 1 THEN Joined(c) ELSE Follows(todo, n, "join", c)
     /\ do = "persisted" =>
          /\ HasCandidate(c) \/ Made("candidate", c, Before(todo, n))
          /\ \A i \in arg : HasTrigger(c, i) \/ MadeOf("trigger", c, i, Before(todo, n))
     /\ do = "scheduled" => \A i \in arg :
          \/ i \in persisted[c]
          \/ \E call \in Before(todo, n) :
               call.do = "persisted" /\ call.capture = c /\ i \in call.arg
     /\ do = "scheduled" => arg # {}
TraceInv ==
  /\ \A c \in Requested : Joined(c)
  /\ \A r \in Rounds : captures[r] # "none" =>
       evidence[r] # {} /\ evidence[r] \subseteq persisted[r]
  /\ \A r \in Rounds : \A i \in persisted[r] : HasCandidate(r) /\ HasTrigger(r, i)
  /\ \A n \in DOMAIN todo : TraceAt(n)

(* Requests carry ordinals: one that has passed is older than all in line   *)
Passed(q) == q[2] <= ordinal /\ \A n \in DOMAIN outstanding : q[2] < outstanding[n].request[2]
KindOf(ack) == IF ack.manual THEN "raw_manual" ELSE "raw_auto"
Taken(q) == clips[q].media # None /\ clips[q].media[2] = session
Lined == {outstanding[n].request : n \in DOMAIN outstanding}

(* A Clip is made of a save that has passed; an attempt is made for one     *)
(* that is still in line.                                                   *)
ShareAt(n) ==
  LET do == todo[n].do
      arg == todo[n].arg
  IN /\ do \in {"clip", "origin"} => Passed(arg.request)
     /\ do = "origin" =>
          IF n = 1 THEN /\ clips[arg.request].media = MediaOf(arg)
                        /\ clips[arg.request].kind = KindOf(arg)
          ELSE Follows(todo, n, "clip", None) /\ todo[n - 1].arg = arg
     /\ do = "attempt" /\ arg \in Fresh => arg \in Lined
ShareInv ==
  /\ \A n \in DOMAIN outstanding :
       /\ outstanding[n].request[2] <= ordinal
       /\ \A m \in 1..(n - 1) : outstanding[m].request[2] < outstanding[n].request[2]
  /\ acked # None => Passed(acked.request)
  /\ \A q \in Requests :
       /\ clips[q].media # None => q \in Fresh /\ clips[q].media[2] <= session
       /\ Taken(q) => Passed(q)
       /\ clips[q].complete => clips[q].media # None
  /\ \A n \in DOMAIN todo : ShareAt(n)
  /\ \A r \in Rounds :
       LET q == memory[r].request
           clip == clips[q]
       IN q # None /\ clip.complete /\ clip.kind = "raw_auto" /\ Taken(q)
            => evidence[r] \subseteq clip.origin

(* The rows a Clip names as its origin                                      *)
Stored == {i \in Receipts : [session |-> session, receipt |-> i] \in snapshots}
HasFlag(f) == [session |-> session, flag |-> f] \in flags

(* A snapshot comes before the calls that name its receipt, a flag before   *)
(* the question.                                                            *)
StoredAt(n) ==
  LET do == todo[n].do
      c == todo[n].capture
      arg == todo[n].arg
  IN /\ do = "noted" => arg \in Stored \/ MadeOf("snapshot", None, arg, Before(todo, n))
     /\ do = "scheduled" =>
          \A i \in arg : i \in Stored \/ MadeOf("snapshot", None, i, Before(todo, n))
     /\ do = "ask" => HasFlag(c) \/ Made("flag", c, Before(todo, n))
StoredInv ==
  /\ hydrated \subseteq Stored
  /\ \A r \in Rounds : noted[r] \subseteq Stored /\ evidence[r] \subseteq Stored
  /\ \A f \in Flags : captures[f] # "none" => HasFlag(f)
  /\ \A n \in DOMAIN todo : StoredAt(n)
  /\ OriginIsStored

-----------------------------------------------------------------------------
(* Induction over the naturals, for a set that holds 0 and every successor  *)
LEMMA NatSet ==
  ASSUME NEW S, 0 \in S, \A n \in Nat : n \in S => n + 1 \in S
  PROVE  Nat \subseteq S
<1> SUFFICES ASSUME Nat \ S # {} PROVE FALSE
  OBVIOUS
<1>1. PICK x \in Nat \ S : \A y \in Nat \ S : <<y, x>> \notin OpToRel(<, Nat)
  BY NatLessThanWellFounded, WFMin
<1>0. x \in Nat /\ x \notin S /\ x # 0
  OBVIOUS
<1>2. x - 1 \in Nat /\ (x - 1) + 1 = x
  BY <1>0
<1>4. x - 1 \notin S
  BY <1>0, <1>2
<1>3. <<x - 1, x>> \in OpToRel(<, Nat)
  BY <1>2 DEF OpToRel
<1> QED BY <1>1, <1>2, <1>3, <1>4

(* What Head and Tail do to the calls that come before and after another    *)
LEMMA TailFacts ==
  ASSUME NEW S, NEW s \in Seq(S), s # <<>>
  PROVE  /\ 1 \in DOMAIN s /\ Head(s) = s[1] /\ Head(s) \in S
         /\ Tail(s) \in Seq(S) /\ Len(Tail(s)) = Len(s) - 1
         /\ \A n \in DOMAIN Tail(s) :
              /\ n \in Nat \ {0} /\ n + 1 \in DOMAIN s /\ Tail(s)[n] = s[n + 1]
              /\ Before(s, n + 1) = Before(Tail(s), n) \cup {Head(s)}
              /\ After(Tail(s), n) = After(s, n + 1)
<1>1. Len(s) \in Nat /\ Len(s) > 0 /\ DOMAIN s = 1..Len(s)
  OBVIOUS
<1>2. Tail(s) \in Seq(S) /\ Len(Tail(s)) = Len(s) - 1
  BY <1>1
<1>3. \A n \in 1..(Len(s) - 1) : Tail(s)[n] = s[n + 1]
  BY <1>1
<1>4. DOMAIN Tail(s) = 1..(Len(s) - 1)
  BY <1>1, <1>2
<1>5. Head(s) = s[1] /\ Head(s) \in S
  BY <1>1
<1>6. ASSUME NEW n \in 1..(Len(s) - 1)
      PROVE  /\ n \in Nat \ {0} /\ n + 1 \in 1..Len(s)
             /\ Before(s, n + 1) = Before(Tail(s), n) \cup {Head(s)}
             /\ After(Tail(s), n) = After(s, n + 1)
  <2>1. Before(s, n + 1) \subseteq Before(Tail(s), n) \cup {Head(s)}
    <3> SUFFICES ASSUME NEW m \in 1..n PROVE s[m] \in Before(Tail(s), n) \cup {Head(s)}
      BY <1>1 DEF Before
    <3>1. CASE m = 1
      BY <1>5, <3>1
    <3>2. CASE m # 1
      <4>1. m - 1 \in 1..(n - 1) /\ m - 1 \in 1..(Len(s) - 1) /\ (m - 1) + 1 = m
        BY <1>1, <3>2
      <4>2. Tail(s)[m - 1] = s[m]
        BY <1>3, <4>1
      <4> QED BY <4>1, <4>2 DEF Before
    <3> QED BY <3>1, <3>2
  <2>2. Before(Tail(s), n) \cup {Head(s)} \subseteq Before(s, n + 1)
    <3>1. ASSUME NEW m \in 1..(n - 1) PROVE Tail(s)[m] \in Before(s, n + 1)
      <4>1. m + 1 \in 1..((n + 1) - 1) /\ m \in 1..(Len(s) - 1)
        BY <1>1
      <4> QED BY <1>3, <4>1 DEF Before
    <3>2. Head(s) \in Before(s, n + 1)
      <4>1. 1 \in 1..((n + 1) - 1)
        BY <1>1
      <4> QED BY <1>5, <4>1 DEF Before
    <3> QED BY <3>1, <3>2 DEF Before
  <2>3. ASSUME NEW m \in (n + 1)..(Len(s) - 1) PROVE Tail(s)[m] \in After(s, n + 1)
    <3>1. m + 1 \in ((n + 1) + 1)..Len(s) /\ m \in 1..(Len(s) - 1)
      BY <1>1
    <3> QED BY <1>3, <3>1 DEF After
  <2>4. ASSUME NEW m \in ((n + 1) + 1)..Len(s) PROVE s[m] \in After(Tail(s), n)
    <3>1. m - 1 \in (n + 1)..(Len(s) - 1) /\ m - 1 \in 1..(Len(s) - 1) /\ (m - 1) + 1 = m
      BY <1>1
    <3>2. Tail(s)[m - 1] = s[m]
      BY <1>3, <3>1
    <3> QED BY <1>2, <3>1, <3>2 DEF After
  <2>5. After(Tail(s), n) = After(s, n + 1)
    BY <1>2, <2>3, <2>4 DEF After
  <2> QED BY <1>1, <2>1, <2>2, <2>5
<1> QED BY <1>1, <1>2, <1>3, <1>4, <1>5, <1>6

(* The elements of a concatenation, and what comes before and after them    *)
LEMMA CatFacts ==
  ASSUME NEW S, NEW s \in Seq(S), NEW t \in Seq(S), NEW n \in DOMAIN (s \o t)
  PROVE  \/ /\ n \in DOMAIN s /\ (s \o t)[n] = s[n]
            /\ Before(s, n) \subseteq Before(s \o t, n)
            /\ After(s, n) \subseteq After(s \o t, n)
         \/ \E k \in DOMAIN t :
              /\ n = Len(s) + k /\ (s \o t)[n] = t[k]
              /\ Before(t, k) \subseteq Before(s \o t, n)
              /\ After(t, k) \subseteq After(s \o t, n)
              /\ \A m \in DOMAIN s : s[m] \in Before(s \o t, n)
<1>1. /\ Len(s) \in Nat /\ Len(t) \in Nat /\ DOMAIN s = 1..Len(s) /\ DOMAIN t = 1..Len(t)
      /\ Len(s \o t) = Len(s) + Len(t) /\ DOMAIN (s \o t) = 1..(Len(s) + Len(t))
  OBVIOUS
<1>2. \A m \in 1..(Len(s) + Len(t)) : (s \o t)[m] = IF m <= Len(s) THEN s[m] ELSE t[m - Len(s)]
  BY <1>1
<1>3. CASE n <= Len(s)
  <2>1. n \in 1..Len(s) /\ (s \o t)[n] = s[n]
    BY <1>1, <1>2, <1>3
  <2>2. ASSUME NEW m \in 1..(n - 1) PROVE s[m] \in Before(s \o t, n)
    BY <1>1, <1>2, <2>1 DEF Before
  <2>3. ASSUME NEW m \in (n + 1)..Len(s) PROVE s[m] \in After(s \o t, n)
    <3>1. m \in (n + 1)..Len(s \o t) /\ (s \o t)[m] = s[m]
      BY <1>1, <1>2, <2>1
    <3> QED BY <3>1 DEF After
  <2> QED BY <1>1, <2>1, <2>2, <2>3 DEF Before, After
<1>4. CASE n > Len(s)
  <2> DEFINE k == n - Len(s)
  <2>1. k \in 1..Len(t) /\ n = Len(s) + k /\ (s \o t)[n] = t[k] /\ k \in Nat /\ n \in Nat
    BY <1>1, <1>2, <1>4
  <2>2. ASSUME NEW m \in 1..(k - 1) PROVE t[m] \in Before(s \o t, n)
    <3>1. Len(s) + m \in 1..(n - 1) /\ (s \o t)[Len(s) + m] = t[m]
      BY <1>1, <1>2, <2>1
    <3> QED BY <3>1 DEF Before
  <2>3. ASSUME NEW m \in (k + 1)..Len(t) PROVE t[m] \in After(s \o t, n)
    <3>1. Len(s) + m \in (n + 1)..Len(s \o t) /\ (s \o t)[Len(s) + m] = t[m]
      BY <1>1, <1>2, <2>1
    <3> QED BY <3>1 DEF After
  <2>4. ASSUME NEW m \in DOMAIN s PROVE s[m] \in Before(s \o t, n)
    <3>1. m \in 1..(n - 1) /\ (s \o t)[m] = s[m]
      BY <1>1, <1>2, <2>1
    <3> QED BY <3>1 DEF Before
  <2> HIDE DEF k
  <2>5. Before(t, k) \subseteq Before(s \o t, n)
    BY <2>2 DEF Before
  <2>6. After(t, k) \subseteq After(s \o t, n)
    BY <2>3 DEF After
  <2> QED BY <1>1, <2>1, <2>4, <2>5, <2>6
<1> QED BY <1>1, <1>3, <1>4

(* A set of sequences closed under concatenation holds every flattening of  *)
(* its members: Cancellations and NewCaptures flatten one upsert per        *)
(* capture.                                                                 *)
LEMMA FlattenClosed ==
  ASSUME NEW G, <<>> \in G, \A s, t \in G : s \o t \in G,
         NEW N \in Nat, NEW ss \in [1..N -> G]
  PROVE  FlattenSeq(ss) \in G
<1> DEFINE Body(f) == [i \in 1..N |-> IF i = 1 THEN ss[i] ELSE f[i - 1] \o ss[i]]
           Part(f, n) == /\ f \in [1..n -> G]
                         /\ \A i \in 1..n : f[i] = IF i = 1 THEN ss[i] ELSE f[i - 1] \o ss[i]
           S == {n \in Nat : n <= N => \E f : Part(f, n)}
<1>0. Len(ss) = N
  OBVIOUS
<1>1. 0 \in S
  <2>1. Part([i \in 1..0 |-> <<>>], 0)
    OBVIOUS
  <2> QED BY <2>1
<1>2. ASSUME NEW n \in Nat, n \in S PROVE n + 1 \in S
  <2> SUFFICES ASSUME n + 1 <= N PROVE \E f : Part(f, n + 1)
    OBVIOUS
  <2>1. PICK f : Part(f, n)
    BY <1>2
  <2> DEFINE d == IF n = 0 THEN ss[1] ELSE f[n] \o ss[n + 1]
             g == [i \in 1..(n + 1) |-> IF i = n + 1 THEN d ELSE f[i]]
  <2>2. d \in G
    <3>1. n + 1 \in 1..N /\ ss[n + 1] \in G
      OBVIOUS
    <3>2. n # 0 => f[n] \in G
      BY <2>1
    <3>3. n = 0 => ss[1] \in G
      BY <3>1
    <3> QED BY <3>1, <3>2, <3>3
  <2>3. g \in [1..(n + 1) -> G]
    BY <2>1, <2>2
  <2>4. ASSUME NEW i \in 1..(n + 1)
        PROVE  g[i] = IF i = 1 THEN ss[i] ELSE g[i - 1] \o ss[i]
    <3>1. CASE i = n + 1
      <4>1. n # 0 => g[n] = f[n]
        OBVIOUS
      <4>2. g[i] = d
        BY <3>1
      <4> QED BY <3>1, <4>1, <4>2
    <3>2. CASE i # n + 1
      <4>1. i \in 1..n /\ g[i] = f[i] /\ (i # 1 => g[i - 1] = f[i - 1])
        BY <3>2
      <4> QED BY <2>1, <4>1
    <3> QED BY <3>1, <3>2
  <2> HIDE DEF g
  <2> QED BY <2>3, <2>4
<1> HIDE DEF S
<1>3. Nat \subseteq S
  BY <1>1, <1>2, NatSet
<1>4. PICK f : Part(f, N)
  BY <1>3 DEF S
<1>5. f = Body(f)
  BY <1>4
<1>6. CASE N = 0
  <2>1. ss = <<>>
    BY <1>6
  <2> QED BY <1>0, <1>6, <2>1 DEF FlattenSeq
<1>7. CASE N # 0
  <2> DEFINE F == CHOOSE x : x = Body(x)
  <2>1. F = Body(F)
    BY <1>5
  <2>2. FlattenSeq(ss) = F[N]
    BY <1>0, <1>7 DEF FlattenSeq
  <2> HIDE DEF F
  <2> DEFINE T == {i \in Nat : i + 1 <= N => F[i + 1] \in G}
  <2>3. 0 \in T
    <3>1. 1 \in 1..N
      BY <1>7
    <3>2. F[1] = ss[1]
      BY <2>1, <3>1
    <3> QED BY <3>1, <3>2
  <2>4. ASSUME NEW i \in Nat, i \in T PROVE i + 1 \in T
    <3> SUFFICES ASSUME (i + 1) + 1 <= N PROVE F[(i + 1) + 1] \in G
      OBVIOUS
    <3>1. (i + 1) + 1 \in 1..N /\ (i + 1) + 1 # 1 /\ ((i + 1) + 1) - 1 = i + 1 /\ F[i + 1] \in G
      BY <2>4
    <3>2. F[(i + 1) + 1] = F[i + 1] \o ss[(i + 1) + 1]
      BY <2>1, <3>1
    <3> QED BY <3>1, <3>2
  <2> HIDE DEF T
  <2>5. Nat \subseteq T
    BY <2>3, <2>4, NatSet
  <2>6. N - 1 \in Nat /\ (N - 1) + 1 = N
    BY <1>7
  <2>7. F[N] \in G
    BY <2>5, <2>6 DEF T
  <2> QED BY <2>2, <2>7
<1> QED BY <1>6, <1>7

(* SetToSeq lists a finite set: the receipts missing from a candidate, the  *)
(* captures to cancel, the flags that share a Clip.                         *)
LEMMA SetToSeqFacts ==
  ASSUME NEW S, IsFiniteSet(S)
  PROVE  /\ SetToSeq(S) \in Seq(S)
         /\ \A x \in S : \E n \in DOMAIN SetToSeq(S) : SetToSeq(S)[n] = x
<1> DEFINE N == Cardinality(S)
<1>1. N \in Nat /\ ExistsBijection(1..N, S)
  BY FS_CardinalityType
<1>2. PICK g \in Bijection(1..N, S) : TRUE
  BY <1>1 DEF ExistsBijection
<1>3. g \in [1..N -> S] /\ IsInjective(g)
  BY <1>2 DEF Bijection, Injection
<1>4. SetToSeq(S) \in [1..N -> S] /\ IsInjective(SetToSeq(S))
  BY <1>3 DEF SetToSeq
<1>5. SetToSeq(S) \in Injection(1..N, S)
  BY <1>4 DEF Injection
<1>6. Cardinality(1..N) = N
  BY <1>1, FS_Interval
<1>7. SetToSeq(S) \in Surjection(1..N, S)
  BY <1>5, <1>6, FS_Injection
<1> QED BY <1>1, <1>4, <1>7 DEF Surjection
-----------------------------------------------------------------------------
(* The methods, as they begin: what call n of the method s may be that      *)
(* ingests receipt i. An attempt is made for a waiting capture only and is  *)
(* decided on later in the method; a candidate and its triggers come before *)
(* they are remembered, and that before the round is scheduled.             *)
Fits(s, n, i) ==
  LET do == s[n].do
      c == s[n].capture
      arg == s[n].arg
  IN /\ do \notin {"flag", "ask", "requested", "retryable", "clip", "origin"}
     /\ do \in {"attempt", "join", "fail", "cancelled"} => c \in Unsaved
     /\ do = "attempt" => arg \in Synthetic /\ Made("cancelled", c, After(s, n))
     /\ do = "fail" =>
          /\ memory[c].request # None
          /\ memory[c].failed =>
               \E call \in Before(s, n) :
                 call.do = "attempt" /\ call.capture = c /\ call.arg \in Synthetic
     /\ do = "persisted" =>
          /\ persisted[c] # {} \/ Made("candidate", c, Before(s, n))
          /\ \A j \in arg : j \in persisted[c] \/ MadeOf("trigger", c, j, Before(s, n))
     /\ do = "scheduled" =>
          /\ captures[c] = "none" /\ arg = noted[c] \cup {i}
          /\ \A j \in arg :
               \/ j \in persisted[c]
               \/ \E call \in Before(s, n) :
                    call.do = "persisted" /\ call.capture = c /\ j \in call.arg
     /\ do = "noted" => arg = i
     /\ do = "snapshot" => n = 1 /\ arg = i

(* What ingest may do behind the snapshot                                   *)
Part(i) == {s \in Seq(Calls) : \A n \in DOMAIN s : Fits(s, n, i) /\ s[n].do # "snapshot"}

(* Segments of an ingest may follow one another                             *)
LEMMA PartClosed ==
  ASSUME NEW i
  PROVE  /\ <<>> \in Part(i)
         /\ \A s, t \in Part(i) : s \o t \in Part(i)
<1>1. <<>> \in Part(i)
  BY DEF Part
<1>2. ASSUME NEW s \in Part(i), NEW t \in Part(i) PROVE s \o t \in Part(i)
  <2>1. s \in Seq(Calls) /\ t \in Seq(Calls)
    BY DEF Part
  <2>2. s \o t \in Seq(Calls)
    BY <2>1
  <2> DEFINE u == s \o t
  <2>3. ASSUME NEW n \in DOMAIN u PROVE Fits(u, n, i) /\ u[n].do # "snapshot"
    <3>1. \/ /\ n \in DOMAIN s /\ u[n] = s[n]
             /\ Before(s, n) \subseteq Before(u, n)
             /\ After(s, n) \subseteq After(u, n)
          \/ \E k \in DOMAIN t :
               /\ n = Len(s) + k /\ u[n] = t[k]
               /\ Before(t, k) \subseteq Before(u, n)
               /\ After(t, k) \subseteq After(u, n)
      BY <2>1, CatFacts
    <3> HIDE DEF u
    <3>2. \A k \in DOMAIN s : Fits(s, k, i) /\ s[k].do # "snapshot"
      BY DEF Part
    <3>3. \A k \in DOMAIN t : Fits(t, k, i) /\ t[k].do # "snapshot"
      BY DEF Part
    <3>4. ASSUME NEW v, NEW k, Fits(v, k, i), v[k].do # "snapshot", u[n] = v[k],
                 Before(v, k) \subseteq Before(u, n), After(v, k) \subseteq After(u, n)
          PROVE  Fits(u, n, i) /\ u[n].do # "snapshot"
      BY <3>4 DEF Fits, Made, MadeOf
    <3> QED BY <3>1, <3>2, <3>3, <3>4
  <2> QED BY <2>2, <2>3 DEF Part
<1> QED BY <1>1, <1>2

(* persist_candidate makes the candidate before its triggers, and remembers *)
(* a receipt only after its trigger.                                        *)
LEMMA PersistCandidateFits ==
  ASSUME Typed, NEW i, NEW r \in Rounds, NEW ids \in SUBSET Receipts, IsFiniteSet(ids)
  PROVE  /\ PersistCandidate(r, ids) \in Part(i)
         /\ \A j \in ids \ persisted[r] : \E n \in DOMAIN PersistCandidate(r, ids) :
              LET call == PersistCandidate(r, ids)[n]
              IN call.do = "persisted" /\ call.capture = r /\ j \in call.arg
<1> DEFINE new == ids \ persisted[r]
           missing == SetToSeq(new)
           inserts == [n \in 1..Len(missing) |-> Call("trigger", r, missing[n])]
           created == IF persisted[r] = {} THEN <<Call("candidate", r, missing[1])>> ELSE <<>>
           last == <<Call("persisted", r, ids)>>
           first == created \o inserts
           s == first \o last
<1>1. IsFiniteSet(new)
  BY FS_Difference
<1>2. missing \in Seq(new) /\ \A j \in new : \E n \in DOMAIN missing : missing[n] = j
  BY <1>1, SetToSeqFacts
<1>3. PersistCandidate(r, ids) = IF missing = <<>> THEN <<>> ELSE s
  BY DEF PersistCandidate
<1> HIDE DEF missing
<1>4. CASE missing = <<>>
  <2>1. new = {}
    BY <1>2, <1>4
  <2> QED BY <1>3, <1>4, <2>1, PartClosed
<1>5. CASE missing # <<>>
  <2>1. /\ Len(missing) \in Nat /\ DOMAIN missing = 1..Len(missing) /\ missing[1] \in Receipts
        /\ \A n \in 1..Len(missing) : missing[n] \in Receipts
    BY <1>2, <1>5
  <2>2. inserts \in Seq(Calls) /\ Len(inserts) = Len(missing)
    BY <2>1 DEF Calls, Call
  <2>3. created \in Seq(Calls)
    <3>1. Call("candidate", r, missing[1]) \in Calls
      BY <2>1 DEF Calls, Call
    <3> QED BY <3>1
  <2>4. last \in Seq(Calls)
    BY DEF Calls, Call
  <2>5. first \in Seq(Calls) /\ s \in Seq(Calls)
    BY <2>2, <2>3, <2>4
  <2>6. /\ \A n \in DOMAIN inserts : inserts[n] = Call("trigger", r, missing[n])
        /\ \A n \in DOMAIN created : created[n] = Call("candidate", r, missing[1])
        /\ last[1] = Call("persisted", r, ids) /\ DOMAIN last = {1} /\ Len(last) = 1
        /\ persisted[r] = {} => 1 \in DOMAIN created
        /\ DOMAIN inserts = DOMAIN missing
    BY <2>1
  <2> HIDE DEF inserts, created, last
  <2>7. \A n \in DOMAIN first : first[n].do \in {"candidate", "trigger"}
    BY <2>2, <2>3, <2>6, CatFacts DEF Call
  <2>8. persisted[r] = {} => \E n \in DOMAIN first : first[n] = Call("candidate", r, missing[1])
    <3>1. ASSUME 1 \in DOMAIN created PROVE 1 \in DOMAIN first /\ first[1] = created[1]
      BY <2>2, <2>3, <3>1
    <3> QED BY <2>6, <3>1
  <2>9. \A j \in new : \E n \in DOMAIN first : first[n] = Call("trigger", r, j)
    <3> SUFFICES ASSUME NEW j \in new PROVE \E n \in DOMAIN first : first[n] = Call("trigger", r, j)
      OBVIOUS
    <3>1. PICK k \in DOMAIN missing : missing[k] = j
      BY <1>2
    <3>2. Len(created) + k \in DOMAIN first /\ first[Len(created) + k] = inserts[k]
      BY <2>1, <2>2, <2>3, <3>1
    <3> QED BY <2>6, <3>1, <3>2
  <2> HIDE DEF first
  <2>10. ASSUME NEW n \in DOMAIN s PROVE Fits(s, n, i) /\ s[n].do # "snapshot"
    <3>1. \/ n \in DOMAIN first /\ s[n] = first[n]
          \/ s[n] = last[1] /\ \A m \in DOMAIN first : first[m] \in Before(s, n)
      BY <2>4, <2>5, <2>6, CatFacts
    <3> HIDE DEF s
    <3>2. CASE s[n].do \in {"candidate", "trigger"}
      BY <3>2 DEF Fits
    <3>3. CASE s[n] = last[1] /\ \A m \in DOMAIN first : first[m] \in Before(s, n)
      <4>1. s[n] = Call("persisted", r, ids)
        BY <2>6, <3>3
      <4>2. persisted[r] # {} \/ Made("candidate", r, Before(s, n))
        BY <2>8, <3>3 DEF Made, Call
      <4>3. \A j \in ids : j \in persisted[r] \/ MadeOf("trigger", r, j, Before(s, n))
        BY <2>9, <3>3 DEF MadeOf, Call
      <4> QED BY <4>1, <4>2, <4>3 DEF Fits, Call
    <3> QED BY <2>7, <3>1, <3>2, <3>3
  <2>11. s \in Part(i)
    BY <2>5, <2>10 DEF Part
  <2>12. \E n \in DOMAIN s : s[n] = Call("persisted", r, ids)
    <3>1. /\ first \in Seq(Calls) /\ last \in Seq(Calls) /\ Len(last) = 1
          /\ last[1] = Call("persisted", r, ids)
      BY <2>4, <2>5, <2>6
    <3>2. /\ Len(s) = Len(first) + 1 /\ DOMAIN s = 1..Len(s) /\ Len(first) \in Nat
          /\ \A n \in 1..(Len(first) + 1) :
               s[n] = IF n <= Len(first) THEN first[n] ELSE last[n - Len(first)]
      BY <2>5, <3>1, ConcatProperties
    <3>3. Len(first) + 1 \in DOMAIN s /\ s[Len(first) + 1] = last[1]
      BY <3>2
    <3> QED BY <3>1, <3>3
  <2> HIDE DEF s
  <2> QED BY <1>3, <1>5, <2>11, <2>12 DEF Call
<1> QED BY <1>4, <1>5

(* A round is scheduled after its candidate has been persisted              *)
LEMMA UpsertScheduledFits ==
  ASSUME Typed, NEW i \in Receipts, NEW r \in Rounds, captures[r] = "none"
  PROVE  UpsertScheduled(r, noted[r] \cup {i}) \in Part(i)
<1> DEFINE ids == noted[r] \cup {i}
           s == PersistCandidate(r, ids)
           t == <<Call("scheduled", r, ids)>>
           u == s \o t
<1>1. ids \in SUBSET Receipts /\ IsFiniteSet(ids)
  <2>1. noted[r] \in SUBSET Receipts /\ IsFiniteSet(noted[r])
    BY DEF Typed
  <2> QED BY <2>1, FS_AddElement
<1>2. /\ s \in Part(i)
      /\ \A j \in ids \ persisted[r] : \E n \in DOMAIN s :
           s[n].do = "persisted" /\ s[n].capture = r /\ j \in s[n].arg
  BY <1>1, PersistCandidateFits
<1>3. t \in Seq(Calls) /\ DOMAIN t = {1} /\ t[1] = Call("scheduled", r, ids)
  BY <1>1 DEF Calls, Call
<1>4. UpsertScheduled(r, ids) = u
  BY DEF UpsertScheduled
<1>7. ids = noted[r] \cup {i}
  OBVIOUS
<1> HIDE DEF s, t, ids
<1>5. s \in Seq(Calls) /\ u \in Seq(Calls)
  BY <1>2, <1>3 DEF Part
<1>6. ASSUME NEW n \in DOMAIN u PROVE Fits(u, n, i) /\ u[n].do # "snapshot"
  <2>1. \/ /\ n \in DOMAIN s /\ u[n] = s[n]
           /\ Before(s, n) \subseteq Before(u, n)
           /\ After(s, n) \subseteq After(u, n)
        \/ u[n] = t[1] /\ \A m \in DOMAIN s : s[m] \in Before(u, n)
    BY <1>3, <1>5, CatFacts
  <2> HIDE DEF u
  <2>2. CASE u[n] = t[1] /\ \A m \in DOMAIN s : s[m] \in Before(u, n)
    <3>1. \A j \in ids : \/ j \in persisted[r]
                         \/ \E call \in Before(u, n) :
                              call.do = "persisted" /\ call.capture = r /\ j \in call.arg
      BY <1>2, <2>2
    <3> QED BY <1>3, <1>7, <2>2, <3>1 DEF Fits, Call
  <2>3. CASE /\ n \in DOMAIN s /\ u[n] = s[n]
             /\ Before(s, n) \subseteq Before(u, n)
             /\ After(s, n) \subseteq After(u, n)
    <3>1. Fits(s, n, i) /\ s[n].do # "snapshot"
      BY <1>2, <2>3 DEF Part
    <3> QED BY <2>3, <3>1 DEF Fits, Made, MadeOf
  <2> QED BY <2>1, <2>2, <2>3
<1> QED BY <1>4, <1>5, <1>6, <1>7 DEF Part

(* A sequence with one more element                                         *)
LEMMA AddOne ==
  ASSUME NEW S, NEW s \in Seq(S), NEW t \in Seq(S), NEW e \in S, Len(t) = Len(s) + 1,
         \A i \in 1..Len(s) : t[i] = s[i], t[Len(s) + 1] = e
  PROVE  s \o <<e>> = t
<1>1. /\ Len(s) \in Nat /\ <<e>> \in Seq(S) /\ Len(<<e>>) = 1 /\ <<e>>[1] = e
  OBVIOUS
<1> DEFINE one == <<e>>
           u == s \o one
<1> HIDE DEF one
<1>2. /\ u \in Seq(S) /\ Len(u) = Len(s) + 1
      /\ \A i \in 1..(Len(s) + 1) : u[i] = IF i <= Len(s) THEN s[i] ELSE one[i - Len(s)]
  BY <1>1, ConcatProperties DEF one
<1> HIDE DEF u
<1>3. ASSUME NEW i \in 1..Len(u) PROVE u[i] = t[i]
  <2>1. CASE i <= Len(s)
    BY <1>1, <1>2, <2>1
  <2>2. CASE i = Len(s) + 1
    BY <1>1, <1>2, <2>2 DEF one
  <2> QED BY <1>1, <1>2, <2>1, <2>2
<1>4. u = t
  BY <1>2, <1>3, SeqEqual
<1> QED BY <1>4 DEF u, one

(* Three calls in a row                                                     *)
LEMMA Tuple3 ==
  ASSUME NEW a, NEW b, NEW c
  PROVE  <<a, b>> \o <<c>> = <<a, b, c>>
  <1> DEFINE s == <<a, b>>
             t == <<a, b, c>>
             S == {a, b, c}
  <1>1. s \in Seq(S) /\ t \in Seq(S) /\ Len(s) = 2 /\ Len(t) = 3
    OBVIOUS
  <1>2. c \in S /\ t[2 + 1] = c /\ \A i \in 1..2 : t[i] = s[i]
    OBVIOUS
  <1> HIDE DEF s, t, S
  <1>3. Len(t) = Len(s) + 1 /\ t[Len(s) + 1] = c /\ \A i \in 1..Len(s) : t[i] = s[i]
    BY <1>1, <1>2
  <1>4. s \o <<c>> = t
    BY <1>1, <1>2, <1>3, AddOne
  <1> QED BY <1>4 DEF s, t

(* Four calls in a row                                                      *)
LEMMA Tuple4 ==
  ASSUME NEW a, NEW b, NEW c, NEW d
  PROVE  <<a, b, c>> \o <<d>> = <<a, b, c, d>>
  <1> DEFINE s == <<a, b, c>>
             t == <<a, b, c, d>>
             S == {a, b, c, d}
  <1>1. s \in Seq(S) /\ t \in Seq(S) /\ Len(s) = 3 /\ Len(t) = 4
    OBVIOUS
  <1>2. d \in S /\ t[3 + 1] = d /\ \A i \in 1..3 : t[i] = s[i]
    OBVIOUS
  <1> HIDE DEF s, t, S
  <1>3. Len(t) = Len(s) + 1 /\ t[Len(s) + 1] = d /\ \A i \in 1..Len(s) : t[i] = s[i]
    BY <1>1, <1>2
  <1>4. s \o <<d>> = t
    BY <1>1, <1>2, <1>3, AddOne
  <1> QED BY <1>4 DEF s, t

(* Five calls in a row                                                      *)
LEMMA Tuple5 ==
  ASSUME NEW a, NEW b, NEW c, NEW d, NEW e
  PROVE  <<a, b, c, d>> \o <<e>> = <<a, b, c, d, e>>
  <1> DEFINE s == <<a, b, c, d>>
             t == <<a, b, c, d, e>>
             S == {a, b, c, d, e}
  <1>1. s \in Seq(S) /\ t \in Seq(S) /\ Len(s) = 4 /\ Len(t) = 5
    OBVIOUS
  <1>2. e \in S /\ t[4 + 1] = e /\ \A i \in 1..4 : t[i] = s[i]
    OBVIOUS
  <1> HIDE DEF s, t, S
  <1>3. Len(t) = Len(s) + 1 /\ t[Len(s) + 1] = e /\ \A i \in 1..Len(s) : t[i] = s[i]
    BY <1>1, <1>2
  <1>4. s \o <<e>> = t
    BY <1>1, <1>2, <1>3, AddOne
  <1> QED BY <1>4 DEF s, t

(* Short concatenations, written out                                        *)
LEMMA TupleFacts ==
  /\ <<>> \o <<>> = <<>>
  /\ \A a : <<>> \o <<a>> = <<a>> /\ <<a>> \o <<>> = <<a>>
  /\ \A a, b : <<a>> \o <<b>> = <<a, b>>
  /\ \A a, b, c : <<a, b>> \o <<c>> = <<a, b, c>>
  /\ \A a, b, c, d : <<a, b, c>> \o <<d>> = <<a, b, c, d>>
<1>1. <<>> \o <<>> = <<>>
  OBVIOUS
<1>2. \A a : <<>> \o <<a>> = <<a>>
  OBVIOUS
<1>3. \A a : <<a>> \o <<>> = <<a>>
  OBVIOUS
<1>4. ASSUME NEW a, NEW b PROVE <<a>> \o <<b>> = <<a, b>>
  <2> DEFINE s == <<a>>
             t == <<a, b>>
             S == {a, b}
  <2>1. s \in Seq(S) /\ t \in Seq(S) /\ Len(s) = 1 /\ Len(t) = 2
    OBVIOUS
  <2>2. b \in S /\ t[1 + 1] = b /\ \A i \in 1..1 : t[i] = s[i]
    OBVIOUS
  <2> HIDE DEF s, t, S
  <2>3. Len(t) = Len(s) + 1 /\ t[Len(s) + 1] = b /\ \A i \in 1..Len(s) : t[i] = s[i]
    BY <2>1, <2>2
  <2>4. s \o <<b>> = t
    BY <2>1, <2>2, <2>3, AddOne
  <2> QED BY <2>4 DEF s, t
<1>5. \A a, b, c : <<a, b>> \o <<c>> = <<a, b, c>>
  BY Zenon, Tuple3
<1>6. \A a, b, c, d : <<a, b, c>> \o <<d>> = <<a, b, c, d>>
  BY Zenon, Tuple4
<1> QED BY <1>1, <1>2, <1>3, <1>4, <1>5, <1>6

(* Two calls behind others                                                  *)
LEMMA TwoMore ==
  /\ \A a, b, c : <<a>> \o <<b, c>> = <<a, b, c>>
  /\ \A a, b, c, d : <<a, b>> \o <<c, d>> = <<a, b, c, d>>
<1>1. ASSUME NEW S, NEW s \in Seq(S), NEW a \in S, NEW b \in S
      PROVE  s \o <<a, b>> = (s \o <<a>>) \o <<b>>
  <2>1. <<a>> \in Seq(S) /\ <<b>> \in Seq(S)
    OBVIOUS
  <2>2. (s \o <<a>>) \o <<b>> = s \o (<<a>> \o <<b>>)
    BY <2>1, ConcatAssociative
  <2>3. <<a>> \o <<b>> = <<a, b>>
    BY Zenon, TupleFacts
  <2> QED BY <2>2, <2>3
<1>2. ASSUME NEW a, NEW b, NEW c PROVE <<a>> \o <<b, c>> = <<a, b, c>>
  <2> DEFINE S == {a, b, c}
             s == <<a>>
  <2>1. s \in Seq(S) /\ b \in S /\ c \in S
    OBVIOUS
  <2> HIDE DEF S, s
  <2>2. s \o <<b, c>> = (s \o <<b>>) \o <<c>>
    BY <1>1, <2>1
  <2>4. <<a>> \o <<b, c>> = (<<a>> \o <<b>>) \o <<c>>
    BY <2>2 DEF s
  <2>3. <<a>> \o <<b>> = <<a, b>> /\ <<a, b>> \o <<c>> = <<a, b, c>>
    BY Zenon, TupleFacts
  <2> QED BY Zenon, <2>4, <2>3
<1>3. ASSUME NEW a, NEW b, NEW c, NEW d PROVE <<a, b>> \o <<c, d>> = <<a, b, c, d>>
  <2> DEFINE S == {a, b, c, d}
             s == <<a, b>>
  <2>1. s \in Seq(S) /\ c \in S /\ d \in S
    OBVIOUS
  <2> HIDE DEF S, s
  <2>2. s \o <<c, d>> = (s \o <<c>>) \o <<d>>
    BY <1>1, <2>1
  <2>4. <<a, b>> \o <<c, d>> = (<<a, b>> \o <<c>>) \o <<d>>
    BY <2>2 DEF s
  <2>3. <<a, b>> \o <<c>> = <<a, b, c>> /\ <<a, b, c>> \o <<d>> = <<a, b, c, d>>
    BY Zenon, TupleFacts
  <2> QED BY Zenon, <2>4, <2>3
<1> QED BY <1>2, <1>3

(* A call that needs nothing before it                                      *)
LEMMA OneFits ==
  ASSUME NEW i, NEW x \in Calls,
         x.do \in {"candidate", "trigger", "processed", "disarm", "window"} \/ (x.do = "noted" /\ x.arg = i)
  PROVE  <<x>> \in Part(i)
BY DEF Part, Fits

(* A cancellation takes the timer away, fails the attempt it has just       *)
(* ensured, and decides last; or it ends where the window is missing.       *)
LEMMA UpsertCancelledFits ==
  ASSUME Typed, LedgerAssumption, MayRetry, NEW i, NEW c \in Unsaved
  PROVE  UpsertCancelled(c) \in Part(i)
<1> DEFINE q == <<c, 0, memory[c].generation + 1>>
           e == Call("disarm", c, None)
           a == Call("attempt", c, q)
           j == Call("join", c, None)
           f == Call("fail", c, None)
           d == Call("cancelled", c, None)
           w == Call("window", c, None)
           rest == CASE memory[c].request = None -> <<d>>
                     [] memory[c].request # None /\ captures[c] = "scheduled" -> <<w>>
                     [] OTHER -> UpsertAttempt(c, None) \o <<f, d>>
<1>0. UpsertCancelled(c) = <<e>> \o rest
  BY DEF UpsertCancelled
<1>1. c \in Rounds /\ c \in Captures /\ c \notin Flags /\ captures[c] # "cancelled"
  BY DEF Unsaved, LedgerAssumption, Captures
<1>2. e \in Calls /\ j \in Calls /\ f \in Calls /\ d \in Calls /\ w \in Calls
  BY <1>1 DEF Calls, Call, Decisions
<1>6. <<e>> \in Part(i)
  BY <1>2, OneFits DEF Call
<1>3. CASE memory[c].request = None
  <2>1. rest = <<d>>
    BY <1>3
  <2>2. <<d>> \in Part(i)
    BY <1>2 DEF Part, Fits, Call
  <2> HIDE DEF e, d, rest
  <2>3. <<e>> \o <<d>> \in Part(i)
    BY <1>6, <2>2, PartClosed
  <2> QED BY <1>0, <2>1, <2>3
<1>7. CASE memory[c].request # None /\ captures[c] = "scheduled"
  <2>1. rest = <<w>>
    BY <1>7
  <2>2. <<w>> \in Part(i)
    BY <1>2, OneFits DEF Call
  <2> HIDE DEF e, w, rest
  <2>3. <<e>> \o <<w>> \in Part(i)
    BY <1>6, <2>2, PartClosed
  <2> QED BY <1>0, <2>1, <2>3
<1>8. CASE memory[c].request # None /\ captures[c] # "scheduled"
  <2>1. rest = UpsertAttempt(c, None) \o <<f, d>>
    BY <1>8
  <2>2. UpsertAttempt(c, None) \o <<f, d>> \in Part(i)
    <3>1. CASE ~memory[c].failed
      <4> DEFINE s == <<j, f, d>>
      <4>1. UpsertAttempt(c, None) \o <<f, d>> = s
        <5>1. EnsureAttempt(c, None) = <<>> /\ EnsureFlag(c) = <<>>
          BY <1>1, <1>8, <3>1 DEF EnsureAttempt, EnsureFlag
        <5>2. UpsertAttempt(c, None) = <<j>>
          BY <5>1, TupleFacts DEF UpsertAttempt
        <5>3. <<j>> \o <<f, d>> = s
          BY Zenon, TwoMore
        <5> QED BY <5>2, <5>3
      <4>2. s \in Seq(Calls)
        BY <1>2
      <4>3. \A n \in DOMAIN s : s[n] \in {j, f, d}
        OBVIOUS
      <4> HIDE DEF s
      <4>4. ASSUME NEW n \in DOMAIN s PROVE Fits(s, n, i) /\ s[n].do # "snapshot"
        BY <1>8, <3>1, <4>3 DEF Fits, Call
      <4> QED BY <4>1, <4>2, <4>4 DEF Part
    <3>2. CASE memory[c].failed
      <4> DEFINE s == <<a, j, f, d>>
      <4>0. q \in Synthetic
        <5>1. memory[c].generation \in Nat /\ memory[c].generation < MaxRequests /\ MaxRequests \in Nat
          BY <1>1, <3>2 DEF MayRetry, Typed, LedgerAssumption, MemoryRows
        <5>2. memory[c].generation + 1 \in 0..MaxRequests
          BY <5>1
        <5> QED BY <1>1, <5>2 DEF Synthetic
      <4>2. a \in Calls
        BY <1>1, <4>0 DEF Calls, Call, Requests
      <4>1. UpsertAttempt(c, None) \o <<f, d>> = s
        <5>1. EnsureAttempt(c, None) = <<a>> /\ EnsureFlag(c) = <<>>
          BY <1>1, <1>8, <3>2 DEF EnsureAttempt, EnsureFlag
        <5>2. UpsertAttempt(c, None) = <<a, j>>
          BY <5>1, TupleFacts DEF UpsertAttempt
        <5>3. <<a, j>> \o <<f, d>> = s
          BY Zenon, TwoMore
        <5> QED BY <5>2, <5>3
      <4>3. s \in Seq(Calls)
        BY <1>2, <4>2
      <4>4. DOMAIN s = 1..4 /\ s[1] = a /\ s[2] = j /\ s[3] = f /\ s[4] = d /\ Len(s) = 4
        OBVIOUS
      <4> HIDE DEF s
      <4>5. a \in Before(s, 3) /\ d \in After(s, 1)
        BY <4>4 DEF Before, After
      <4>6. ASSUME NEW n \in DOMAIN s PROVE Fits(s, n, i) /\ s[n].do # "snapshot"
        <5>1. CASE n = 1
          BY <4>0, <4>4, <4>5, <5>1 DEF Fits, Call, Made
        <5>2. CASE n = 2 \/ n = 4
          BY <4>4, <5>2 DEF Fits, Call
        <5>3. CASE n = 3
          BY <1>8, <4>0, <4>4, <4>5, <5>3 DEF Fits, Call
        <5> QED BY <4>4, <5>1, <5>2, <5>3
      <4> QED BY <4>1, <4>3, <4>6 DEF Part
    <3> QED BY <3>1, <3>2
  <2>4. rest \in Part(i)
    BY <2>1, <2>2
  <2> HIDE DEF e, rest
  <2>3. <<e>> \o rest \in Part(i)
    BY <1>6, <2>4, PartClosed
  <2> QED BY <1>0, <2>3
<1> QED BY <1>3, <1>7, <1>8

(* The calls of a whole ingest: the snapshot first, unless it is stored     *)
Whole(i) ==
  {s \in Seq(Calls) :
     /\ \/ i \in hydrated
        \/ \E m \in DOMAIN s : s[m].do = "snapshot" /\ s[m].capture = None /\ s[m].arg = i
     /\ \A n \in DOMAIN s :
          /\ Fits(s, n, i)
          /\ s[n].do # "snapshot" =>
               i \in hydrated \/ MadeOf("snapshot", None, i, Before(s, n))}

(* An ingest may go on with another segment                                 *)
LEMMA WholeGrows ==
  ASSUME NEW i, NEW s \in Whole(i), NEW t \in Part(i)
  PROVE  s \o t \in Whole(i)
<1> DEFINE u == s \o t
<1>1. s \in Seq(Calls) /\ t \in Seq(Calls) /\ u \in Seq(Calls)
  BY DEF Whole, Part
<1>2. \A m \in DOMAIN s : m \in DOMAIN u /\ u[m] = s[m]
  BY <1>1
<1>3. ASSUME NEW n \in DOMAIN u
      PROVE  /\ Fits(u, n, i)
             /\ u[n].do # "snapshot" =>
                  i \in hydrated \/ MadeOf("snapshot", None, i, Before(u, n))
  <2>1. \/ /\ n \in DOMAIN s /\ u[n] = s[n]
           /\ Before(s, n) \subseteq Before(u, n)
           /\ After(s, n) \subseteq After(u, n)
        \/ \E k \in DOMAIN t :
             /\ u[n] = t[k]
             /\ Before(t, k) \subseteq Before(u, n)
             /\ After(t, k) \subseteq After(u, n)
             /\ \A m \in DOMAIN s : s[m] \in Before(u, n)
    BY <1>1, CatFacts
  <2> HIDE DEF u
  <2>2. CASE /\ n \in DOMAIN s /\ u[n] = s[n]
             /\ Before(s, n) \subseteq Before(u, n)
             /\ After(s, n) \subseteq After(u, n)
    <3>1. /\ Fits(s, n, i)
          /\ s[n].do # "snapshot" =>
               i \in hydrated \/ MadeOf("snapshot", None, i, Before(s, n))
      BY <2>2 DEF Whole
    <3>2. Fits(u, n, i)
      BY <2>2, <3>1 DEF Fits, Made, MadeOf
    <3> QED BY <2>2, <3>1, <3>2 DEF MadeOf
  <2>3. ASSUME NEW k \in DOMAIN t, u[n] = t[k],
               Before(t, k) \subseteq Before(u, n), After(t, k) \subseteq After(u, n),
               \A m \in DOMAIN s : s[m] \in Before(u, n)
        PROVE  /\ Fits(u, n, i)
               /\ u[n].do # "snapshot" =>
                    i \in hydrated \/ MadeOf("snapshot", None, i, Before(u, n))
    <3>1. Fits(t, k, i) /\ t[k].do # "snapshot"
      BY DEF Part
    <3>2. Fits(u, n, i)
      BY <2>3, <3>1 DEF Fits, Made, MadeOf
    <3>3. i \in hydrated \/ MadeOf("snapshot", None, i, Before(u, n))
      BY <2>3 DEF Whole, MadeOf
    <3> QED BY <3>2, <3>3
  <2> QED BY <2>1, <2>2, <2>3
<1>4. \/ i \in hydrated
      \/ \E m \in DOMAIN u : u[m].do = "snapshot" /\ u[m].capture = None /\ u[m].arg = i
  BY <1>2 DEF Whole
<1> QED BY <1>1, <1>3, <1>4 DEF Whole

(* The calls of a whole ingest are in order, behind the snapshot of its     *)
(* receipt.                                                                 *)
LEMMA IngestFits ==
  ASSUME Typed, LedgerAssumption, MayRetry, NEW p \in Payloads, NEW cs \in Orders(p)
  PROVE  IngestCalls(p, cs) \in Whole(<<p, next>>)
<1> DEFINE i == <<p, next>>
           head == IF i \in hydrated THEN <<>> ELSE <<Call("snapshot", None, i)>>
           last == <<Call("processed", None, i)>>
<1>1. i \in Receipts
  BY DEF Typed, Receipts
<1>2. head \in Whole(i)
  <2>1. CASE i \in hydrated
    BY <2>1 DEF Whole
  <2>2. CASE i \notin hydrated
    <3>1. Call("snapshot", None, i) \in Calls
      BY <1>1 DEF Calls, Call
    <3>2. head = <<Call("snapshot", None, i)>>
      BY <2>2
    <3>3. head \in Seq(Calls) /\ DOMAIN head = {1} /\ head[1] = Call("snapshot", None, i)
      BY <3>1, <3>2
    <3> HIDE DEF head
    <3> QED BY <3>3 DEF Whole, Fits, Call
  <2> QED BY <2>1, <2>2
<1>3. last \in Part(i)
  <2>1. Call("processed", None, i) \in Calls
    BY <1>1 DEF Calls, Call
  <2> QED BY <2>1, OneFits DEF Call
<1>4. Cancellations(cs) \in Part(i)
  <2> DEFINE ss == [n \in 1..Len(cs) |-> UpsertCancelled(cs[n])]
             S == IF p \in Breaks THEN Unsaved ELSE {}
  <2>1. IsFiniteSet(S) /\ S \subseteq Unsaved
    <3>1. S \subseteq Captures /\ S \subseteq Unsaved
      BY DEF Unsaved, Captures
    <3> QED BY <3>1, FS_Subset DEF LedgerAssumption
  <2>2. cs \in Seq(Unsaved)
    <3>1. cs \in [1..Cardinality(S) -> S]
      BY DEF Orders, SetToSeqs
    <3>2. Cardinality(S) \in Nat
      BY <2>1, FS_CardinalityType
    <3> HIDE DEF S
    <3> QED BY <2>1, <3>1, <3>2
  <2>3. Len(cs) \in Nat /\ \A n \in 1..Len(cs) : cs[n] \in Unsaved
    BY <2>2
  <2>4. ss \in [1..Len(cs) -> Part(i)]
    BY <2>3, UpsertCancelledFits
  <2> HIDE DEF ss
  <2>5. FlattenSeq(ss) \in Part(i)
    BY <2>3, <2>4, PartClosed, FlattenClosed
  <2> QED BY <2>5 DEF Cancellations, ss
<1>5. NewCandidate(p, i) \in Part(i)
  <2> DEFINE r == Kills[p]
  <2>1. CASE r = None \/ noted[r] # {}
    BY <2>1, PartClosed DEF NewCandidate
  <2>2. CASE r # None /\ noted[r] = {}
    <3>1. r \in Rounds
      BY <2>2 DEF LedgerAssumption
    <3>2. {i} \in SUBSET Receipts /\ IsFiniteSet({i})
      BY <1>1, FS_Singleton
    <3>3. PersistCandidate(r, {i}) \in Part(i)
      BY <3>1, <3>2, PersistCandidateFits
    <3>4. Call("noted", r, i) \in Calls
      BY <1>1, <3>1 DEF Calls, Call
    <3>5. <<Call("noted", r, i)>> \in Part(i)
      BY <3>4, OneFits DEF Call
    <3>6. NewCandidate(p, i) = PersistCandidate(r, {i}) \o <<Call("noted", r, i)>>
      BY <2>2 DEF NewCandidate
    <3>7. \A s, t \in Part(i) : s \o t \in Part(i)
      BY PartClosed
    <3> HIDE DEF r, i
    <3> QED BY Zenon, <3>3, <3>5, <3>6, <3>7
  <2> QED BY <2>1, <2>2
<1>6. NewCaptures(p, i) \in Part(i)
  <2> DEFINE ss == [n \in DOMAIN Ends[p] |->
                      LET r == Ends[p][n]
                      IN IF captures[r] = "none" THEN UpsertScheduled(r, noted[r] \cup {i})
                         ELSE <<>>]
  <2>1. Ends[p] \in Seq(Rounds)
    BY DEF LedgerAssumption
  <2>2. Len(Ends[p]) \in Nat /\ DOMAIN Ends[p] = 1..Len(Ends[p])
    BY <2>1
  <2>3. \A n \in 1..Len(Ends[p]) : Ends[p][n] \in Rounds
    BY <2>1
  <2>4. ss \in [1..Len(Ends[p]) -> Part(i)]
    BY <1>1, <2>2, <2>3, UpsertScheduledFits, PartClosed
  <2> HIDE DEF ss
  <2>5. FlattenSeq(ss) \in Part(i)
    BY <2>2, <2>4, PartClosed, FlattenClosed
  <2> QED BY <2>5 DEF NewCaptures, ss
<1>7. IngestCalls(p, cs) = (((head \o Cancellations(cs)) \o NewCandidate(p, i)) \o NewCaptures(p, i))
                         \o last
  BY DEF IngestCalls
<1> HIDE DEF head, last
<1>8. head \o Cancellations(cs) \in Whole(i)
  BY <1>2, <1>4, WholeGrows
<1>9. (head \o Cancellations(cs)) \o NewCandidate(p, i) \in Whole(i)
  BY <1>5, <1>8, WholeGrows
<1>10. ((head \o Cancellations(cs)) \o NewCandidate(p, i)) \o NewCaptures(p, i) \in Whole(i)
  BY <1>6, <1>9, WholeGrows
<1> QED BY <1>3, <1>7, <1>10, WholeGrows

(* What ensure_attempt goes by: the generation of a new attempt, and        *)
(* whether the one there is is used again                                   *)
Generation(c) == IF memory[c].request # None THEN memory[c].generation + 1 ELSE 0
Reused(c) == memory[c].request # None /\ ~memory[c].failed

(* What call n of the method s may be that records for capture c that its   *)
(* save was accepted with request q, or refused with the made-up q          *)
Deciding(s, n, c, q, decision) ==
  LET do == s[n].do
      arg == s[n].arg
      attempted == \E call \in Before(s, n) :
                     call.do = "attempt" /\ call.capture = c /\ call.arg = q
  IN /\ s[n].capture = c
     /\ do \in {"attempt", "flag", "join", decision} \/ (do = "fail" /\ decision = "retryable")
     /\ do = "attempt" => arg = q /\ Made(decision, c, After(s, n))
     /\ do = decision =>
          /\ n = Len(s) /\ n > 1
          /\ Follows(s, n, IF decision = "requested" THEN "join" ELSE "fail", c)
     /\ do \in {"fail", decision} => Reused(c) \/ attempted

(* The calls that record a save the recorder has accepted                   *)
LEMMA UpsertRequestedFits ==
  ASSUME NEW c \in Captures, NEW q \in Fresh, LedgerAssumption
  PROVE  /\ UpsertRequested(c, q) \in Seq(Calls)
         /\ \A n \in DOMAIN UpsertRequested(c, q) :
              Deciding(UpsertRequested(c, q), n, c, q, "requested")
<1> DEFINE a == Call("attempt", c, q)
           f == Call("flag", c, None)
           j == Call("join", c, None)
           d == Call("requested", c, None)
           s == UpsertRequested(c, q)
<1>1. a \in Calls /\ j \in Calls /\ d \in Calls
  BY DEF Calls, Call, Decisions, Requests
<1>2. c \in Flags => f \in Calls
  BY DEF Calls, Call
<1>3. q # None
  BY DEF LedgerAssumption, Requests
<1>4. EnsureAttempt(c, q) = IF Reused(c) THEN <<>> ELSE <<a>>
  BY <1>3 DEF EnsureAttempt, Reused
<1>5. EnsureFlag(c) = <<>> \/ (c \in Flags /\ EnsureFlag(c) = <<f>>)
  BY DEF EnsureFlag
<1>6. s = ((EnsureAttempt(c, q) \o EnsureFlag(c)) \o <<j>>) \o <<d>>
  BY DEF UpsertRequested, UpsertAttempt
<1>7. /\ a.do = "attempt" /\ a.capture = c /\ a.arg = q
      /\ f.do = "flag" /\ f.capture = c /\ j.do = "join" /\ j.capture = c
      /\ d.do = "requested" /\ d.capture = c
  BY DEF Call
<1> HIDE DEF a, f, j, d, s
<1>14. /\ (<<>> \o <<>>) \o <<j>> = <<j>> /\ (<<a>> \o <<>>) \o <<j>> = <<a, j>>
       /\ (<<>> \o <<f>>) \o <<j>> = <<f, j>> /\ (<<a>> \o <<f>>) \o <<j>> = <<a, f, j>>
  <2>1. (<<>> \o <<>>) \o <<j>> = <<j>>
    BY Zenon, TupleFacts
  <2>2. (<<a>> \o <<>>) \o <<j>> = <<a, j>>
    BY Zenon, TupleFacts
  <2>3. (<<>> \o <<f>>) \o <<j>> = <<f, j>>
    BY Zenon, TupleFacts
  <2>4. (<<a>> \o <<f>>) \o <<j>> = <<a, f, j>>
    <3>1. <<a>> \o <<f>> = <<a, f>>
      BY Zenon, TupleFacts
    <3>2. <<a, f>> \o <<j>> = <<a, f, j>>
      BY Zenon, Tuple3
    <3> QED BY Zenon, <3>1, <3>2
  <2> QED BY Zenon, <2>1, <2>2, <2>3, <2>4
<1>13. /\ <<j>> \o <<d>> = <<j, d>> /\ <<a, j>> \o <<d>> = <<a, j, d>>
       /\ <<f, j>> \o <<d>> = <<f, j, d>> /\ <<a, f, j>> \o <<d>> = <<a, f, j, d>>
  <2>1. <<j>> \o <<d>> = <<j, d>>
    BY Zenon, TupleFacts
  <2>2. <<a, j>> \o <<d>> = <<a, j, d>>
    BY Zenon, Tuple3
  <2>3. <<f, j>> \o <<d>> = <<f, j, d>>
    BY Zenon, Tuple3
  <2>4. <<a, f, j>> \o <<d>> = <<a, f, j, d>>
    BY Zenon, Tuple4
  <2> QED BY Zenon, <2>1, <2>2, <2>3, <2>4
<1>8. \/ s = <<j, d>> /\ Reused(c)
      \/ s = <<a, j, d>>
      \/ s = <<f, j, d>> /\ c \in Flags /\ Reused(c)
      \/ s = <<a, f, j, d>> /\ c \in Flags
  BY Zenon, <1>4, <1>5, <1>6, <1>13, <1>14
<1>9. CASE s = <<j, d>> /\ Reused(c)
  <2>1. s \in Seq(Calls)
    BY <1>1, <1>9
  <2>2. DOMAIN s = 1..2 /\ s[1] = j /\ s[2] = d /\ Len(s) = 2
    BY <1>9
  <2>3. ASSUME NEW n \in 1..2 PROVE Deciding(s, n, c, q, "requested")
    BY <1>7, <1>9, <2>2, <2>3 DEF Deciding, Follows
  <2> QED BY <2>1, <2>2, <2>3 DEF s
<1>10. CASE s = <<a, j, d>>
  <2>1. s \in Seq(Calls)
    BY <1>1, <1>10
  <2>2. DOMAIN s = 1..3 /\ s[1] = a /\ s[2] = j /\ s[3] = d /\ Len(s) = 3
    BY <1>10
  <2>3. a \in Before(s, 3) /\ d \in After(s, 1)
    BY <2>2 DEF Before, After
  <2>4. ASSUME NEW n \in 1..3 PROVE Deciding(s, n, c, q, "requested")
    BY <1>7, <2>2, <2>3, <2>4 DEF Deciding, Follows, Made
  <2> QED BY <2>1, <2>2, <2>4 DEF s
<1>11. CASE s = <<f, j, d>> /\ c \in Flags /\ Reused(c)
  <2>1. s \in Seq(Calls)
    BY <1>1, <1>2, <1>11
  <2>2. DOMAIN s = 1..3 /\ s[1] = f /\ s[2] = j /\ s[3] = d /\ Len(s) = 3
    BY <1>11
  <2>4. ASSUME NEW n \in 1..3 PROVE Deciding(s, n, c, q, "requested")
    BY <1>7, <1>11, <2>2, <2>4 DEF Deciding, Follows, Made
  <2> QED BY <2>1, <2>2, <2>4 DEF s
<1>12. CASE s = <<a, f, j, d>> /\ c \in Flags
  <2>1. s \in Seq(Calls)
    BY <1>1, <1>2, <1>12
  <2>2. DOMAIN s = 1..4 /\ s[1] = a /\ s[2] = f /\ s[3] = j /\ s[4] = d /\ Len(s) = 4
    BY <1>12
  <2>3. a \in Before(s, 4) /\ d \in After(s, 1)
    BY <2>2 DEF Before, After
  <2>4. ASSUME NEW n \in 1..4 PROVE Deciding(s, n, c, q, "requested")
    BY <1>7, <2>2, <2>3, <2>4 DEF Deciding, Follows, Made
  <2> QED BY <2>1, <2>2, <2>4 DEF s
<1> QED BY <1>8, <1>9, <1>10, <1>11, <1>12

(* The calls that record a save the recorder has refused                    *)
LEMMA UpsertRetryableFits ==
  ASSUME NEW c \in Captures, Reused(c) \/ <<c, 0, Generation(c)>> \in Synthetic
  PROVE  /\ UpsertRetryable(c) \in Seq(Calls)
         /\ \A n \in DOMAIN UpsertRetryable(c) :
              Deciding(UpsertRetryable(c), n, c, <<c, 0, Generation(c)>>, "retryable")
<1> DEFINE q == <<c, 0, Generation(c)>>
           a == Call("attempt", c, q)
           f == Call("flag", c, None)
           j == Call("join", c, None)
           x == Call("fail", c, None)
           d == Call("retryable", c, None)
           s == UpsertRetryable(c)
<1>1. j \in Calls /\ x \in Calls /\ d \in Calls
  BY DEF Calls, Call, Decisions
<1>2. (c \in Flags => f \in Calls) /\ (~Reused(c) => a \in Calls)
  BY DEF Calls, Call, Requests
<1>4. EnsureAttempt(c, None) = IF Reused(c) THEN <<>> ELSE <<a>>
  BY DEF EnsureAttempt, Reused, Generation
<1>5. EnsureFlag(c) = <<>> \/ (c \in Flags /\ EnsureFlag(c) = <<f>>)
  BY DEF EnsureFlag
<1>6. s = ((EnsureAttempt(c, None) \o EnsureFlag(c)) \o <<j>>) \o <<x, d>>
  BY DEF UpsertRetryable, UpsertAttempt
<1>7. /\ a.do = "attempt" /\ a.capture = c /\ a.arg = q
      /\ f.do = "flag" /\ f.capture = c /\ j.do = "join" /\ j.capture = c
      /\ x.do = "fail" /\ x.capture = c /\ d.do = "retryable" /\ d.capture = c
  BY DEF Call
<1> HIDE DEF a, f, j, d, s, x
<1>13. /\ <<j>> \o <<x, d>> = <<j, x, d>> /\ <<a, j>> \o <<x, d>> = <<a, j, x, d>>
       /\ <<f, j>> \o <<x, d>> = <<f, j, x, d>> /\ <<a, f, j>> \o <<x, d>> = <<a, f, j, x, d>>
  <2> DEFINE S == {a, f, j, x, d}
  <2>1. /\ <<x>> \in Seq(S) /\ <<d>> \in Seq(S) /\ <<j>> \in Seq(S) /\ <<a, j>> \in Seq(S)
        /\ <<f, j>> \in Seq(S) /\ <<a, f, j>> \in Seq(S)
    OBVIOUS
  <2> HIDE DEF S
  <2>2. ASSUME NEW s1 \in Seq(S) PROVE s1 \o <<x, d>> = (s1 \o <<x>>) \o <<d>>
    <3>1. (s1 \o <<x>>) \o <<d>> = s1 \o (<<x>> \o <<d>>)
      BY <2>1, ConcatAssociative
    <3>2. <<x>> \o <<d>> = <<x, d>>
      BY Zenon, TupleFacts
    <3> QED BY Zenon, <3>1, <3>2
  <2>3. (<<j>> \o <<x>>) \o <<d>> = <<j, x, d>>
    <3>1. <<j>> \o <<x>> = <<j, x>>
      BY Zenon, TupleFacts
    <3>2. <<j, x>> \o <<d>> = <<j, x, d>>
      BY Zenon, Tuple3
    <3> QED BY Zenon, <3>1, <3>2
  <2>4. (<<a, j>> \o <<x>>) \o <<d>> = <<a, j, x, d>>
    <3>1. <<a, j>> \o <<x>> = <<a, j, x>>
      BY Zenon, Tuple3
    <3>2. <<a, j, x>> \o <<d>> = <<a, j, x, d>>
      BY Zenon, Tuple4
    <3> QED BY Zenon, <3>1, <3>2
  <2>5. (<<f, j>> \o <<x>>) \o <<d>> = <<f, j, x, d>>
    <3>1. <<f, j>> \o <<x>> = <<f, j, x>>
      BY Zenon, Tuple3
    <3>2. <<f, j, x>> \o <<d>> = <<f, j, x, d>>
      BY Zenon, Tuple4
    <3> QED BY Zenon, <3>1, <3>2
  <2>6. (<<a, f, j>> \o <<x>>) \o <<d>> = <<a, f, j, x, d>>
    <3>1. <<a, f, j>> \o <<x>> = <<a, f, j, x>>
      BY Zenon, Tuple4
    <3>2. <<a, f, j, x>> \o <<d>> = <<a, f, j, x, d>>
      BY Zenon, Tuple5
    <3> QED BY Zenon, <3>1, <3>2
  <2> QED BY Zenon, <2>1, <2>2, <2>3, <2>4, <2>5, <2>6
<1>14. /\ (<<>> \o <<>>) \o <<j>> = <<j>> /\ (<<a>> \o <<>>) \o <<j>> = <<a, j>>
       /\ (<<>> \o <<f>>) \o <<j>> = <<f, j>> /\ (<<a>> \o <<f>>) \o <<j>> = <<a, f, j>>
  <2>1. (<<>> \o <<>>) \o <<j>> = <<j>>
    BY Zenon, TupleFacts
  <2>2. (<<a>> \o <<>>) \o <<j>> = <<a, j>>
    BY Zenon, TupleFacts
  <2>3. (<<>> \o <<f>>) \o <<j>> = <<f, j>>
    BY Zenon, TupleFacts
  <2>4. (<<a>> \o <<f>>) \o <<j>> = <<a, f, j>>
    <3>1. <<a>> \o <<f>> = <<a, f>>
      BY Zenon, TupleFacts
    <3>2. <<a, f>> \o <<j>> = <<a, f, j>>
      BY Zenon, Tuple3
    <3> QED BY Zenon, <3>1, <3>2
  <2> QED BY Zenon, <2>1, <2>2, <2>3, <2>4
<1>8. \/ s = <<j, x, d>> /\ Reused(c)
      \/ s = <<a, j, x, d>> /\ ~Reused(c)
      \/ s = <<f, j, x, d>> /\ c \in Flags /\ Reused(c)
      \/ s = <<a, f, j, x, d>> /\ c \in Flags /\ ~Reused(c)
  BY Zenon, <1>4, <1>5, <1>6, <1>13, <1>14
<1> HIDE DEF q
<1>9. CASE s = <<j, x, d>> /\ Reused(c)
  <2>1. s \in Seq(Calls)
    BY <1>1, <1>9
  <2>2. DOMAIN s = 1..3 /\ s[1] = j /\ s[2] = x /\ s[3] = d /\ Len(s) = 3
    BY <1>9
  <2>3. ASSUME NEW n \in 1..3 PROVE Deciding(s, n, c, q, "retryable")
    BY <1>7, <1>9, <2>2, <2>3 DEF Deciding, Follows
  <2> QED BY <2>1, <2>2, <2>3 DEF s, q
<1>10. CASE s = <<a, j, x, d>> /\ ~Reused(c)
  <2>1. s \in Seq(Calls)
    BY <1>1, <1>2, <1>10
  <2>2. DOMAIN s = 1..4 /\ s[1] = a /\ s[2] = j /\ s[3] = x /\ s[4] = d /\ Len(s) = 4
    BY <1>10
  <2>3. a \in Before(s, 3) /\ a \in Before(s, 4) /\ d \in After(s, 1)
    BY <2>2 DEF Before, After
  <2>4. ASSUME NEW n \in 1..4 PROVE Deciding(s, n, c, q, "retryable")
    BY <1>7, <2>2, <2>3, <2>4 DEF Deciding, Follows, Made
  <2> QED BY <2>1, <2>2, <2>4 DEF s, q
<1>11. CASE s = <<f, j, x, d>> /\ c \in Flags /\ Reused(c)
  <2>1. s \in Seq(Calls)
    BY <1>1, <1>2, <1>11
  <2>2. DOMAIN s = 1..4 /\ s[1] = f /\ s[2] = j /\ s[3] = x /\ s[4] = d /\ Len(s) = 4
    BY <1>11
  <2>4. ASSUME NEW n \in 1..4 PROVE Deciding(s, n, c, q, "retryable")
    BY <1>7, <1>11, <2>2, <2>4 DEF Deciding, Follows, Made
  <2> QED BY <2>1, <2>2, <2>4 DEF s, q
<1>12. CASE s = <<a, f, j, x, d>> /\ c \in Flags /\ ~Reused(c)
  <2>1. s \in Seq(Calls)
    BY <1>1, <1>2, <1>12
  <2>2. DOMAIN s = 1..5 /\ s[1] = a /\ s[2] = f /\ s[3] = j /\ s[4] = x /\ s[5] = d /\ Len(s) = 5
    BY <1>12
  <2>3. a \in Before(s, 4) /\ a \in Before(s, 5) /\ d \in After(s, 1)
    BY <2>2 DEF Before, After
  <2>4. ASSUME NEW n \in 1..5 PROVE Deciding(s, n, c, q, "retryable")
    BY <1>7, <2>2, <2>3, <2>4 DEF Deciding, Follows, Made
  <2> QED BY <2>1, <2>2, <2>4 DEF s, q
<1> QED BY <1>8, <1>9, <1>10, <1>11, <1>12
-----------------------------------------------------------------------------
(* The invariant that the others are proved from                            *)
BaseInv == Typed /\ KnownInv

(* The next call has the capture and the argument of its kind               *)
LEMMA StepTypes ==
  ASSUME todo \in Seq(Calls), todo # <<>>
  PROVE  /\ Step = todo[1] /\ 1 \in DOMAIN todo
         /\ Step.do \in {"snapshot", "processed"} => Step.arg \in Receipts
         /\ Step.do \in {"candidate", "trigger", "noted"} =>
              Capture \in Rounds /\ Step.arg \in Receipts
         /\ Step.do \in {"persisted", "scheduled"} =>
              Capture \in Rounds /\ Step.arg \in SUBSET Receipts
         /\ Step.do = "attempt" => Capture \in Captures /\ Step.arg \in Requests
         /\ Step.do \in {"flag", "ask"} => Capture \in Flags
         /\ Step.do \in {"join", "fail"} \cup Decisions => Capture \in Captures
         /\ Step.do \in {"clip", "origin"} => Step.arg \in Entries /\ Capture = None
<1>1. Step \in Calls /\ Step = todo[1] /\ 1 \in DOMAIN todo
  BY TailFacts DEF Step
<1> HIDE DEF Step
<1> QED BY <1>1 DEF Calls, Capture, Decisions

(* The bound on the requests leaves the recorder an ordinal                 *)
LEMMA FewRequests ==
  ASSUME Typed, LedgerAssumption, MayRequest
  PROVE  ordinal + 1 \in 1..MaxRequests
<1> DEFINE Made0 == {q \in Requests : attempts[q].session \notin {0, session}}
<1>0. MaxRequests \in Int /\ 0 \in Int /\ 1 \in Int /\ IsFiniteSet(Captures)
  BY DEF LedgerAssumption
<1>1. IsFiniteSet(1..MaxRequests) /\ IsFiniteSet({0} \X (0..MaxRequests))
  <2>1. IsFiniteSet(1..MaxRequests) /\ IsFiniteSet(0..MaxRequests)
    BY <1>0, FS_Interval
  <2>2. IsFiniteSet({0})
    BY FS_Singleton
  <2> QED BY <2>1, <2>2, FS_Product
<1>2. IsFiniteSet(Fresh)
  BY <1>1, FS_Product DEF Fresh, LedgerAssumption
<1>3. IsFiniteSet(Synthetic)
  <2>1. IsFiniteSet((Captures \X {0}) \X (0..MaxRequests))
    <3>0. IsFiniteSet(0..MaxRequests)
      BY <1>0, FS_Interval
    <3>1. IsFiniteSet(Captures) /\ IsFiniteSet({0}) /\ IsFiniteSet(0..MaxRequests)
      BY <1>0, <3>0, FS_Singleton
    <3>2. IsFiniteSet(Captures \X {0})
      BY <3>1, FS_Product
    <3> QED BY <3>1, <3>2, FS_Product
  <2> DEFINE g == [x \in (Captures \X {0}) \X (0..MaxRequests) |-> <<x[1][1], x[1][2], x[2]>>]
  <2>2. g \in Surjection((Captures \X {0}) \X (0..MaxRequests), Synthetic)
    <3>1. g \in [(Captures \X {0}) \X (0..MaxRequests) -> Synthetic]
      BY DEF Synthetic
    <3>2. \A t \in Synthetic : \E x \in (Captures \X {0}) \X (0..MaxRequests) : g[x] = t
      <4> SUFFICES ASSUME NEW t \in Synthetic
                   PROVE  \E x \in (Captures \X {0}) \X (0..MaxRequests) : g[x] = t
        OBVIOUS
      <4>1. PICK c \in Captures, k \in 0..MaxRequests : t = <<c, 0, k>>
        BY DEF Synthetic
      <4>2. <<<<c, 0>>, k>> \in (Captures \X {0}) \X (0..MaxRequests) /\ g[<<<<c, 0>>, k>>] = t
        BY <4>1
      <4> QED BY <4>2
    <3> QED BY <3>1, <3>2 DEF Surjection
  <2> QED BY <2>1, <2>2, FS_Surjection
<1>4. IsFiniteSet(Requests)
  BY <1>2, <1>3, FS_Union DEF Requests
<1>5. IsFiniteSet(Made0)
  BY <1>4, FS_Subset
<1>6. Cardinality(Made0) \in Nat
  BY <1>5, FS_CardinalityType
<1>7. ordinal + Cardinality(Made0) < MaxRequests
  BY DEF MayRequest
<1> HIDE DEF Made0
<1> QED BY <1>6, <1>7 DEF Typed, LedgerAssumption

(* The recorder answers with the request of an entry of its line: a new     *)
(* one, or the queued one that is joined.                                   *)
LEMMA AcceptedFacts ==
  ASSUME Typed, LedgerAssumption, NEW c \in Captures, MayRequest
  PROVE  LET line == Accepted(c).line
             q == Accepted(c).request
         IN /\ q \in Fresh /\ line \in Seq(Entries) /\ Len(line) <= 2
            /\ \A n \in DOMAIN outstanding :
                 n \in DOMAIN line /\ line[n].request = outstanding[n].request
            /\ \E n \in DOMAIN line : line[n].request = q
            /\ \A n \in DOMAIN line :
                 \/ n \in DOMAIN outstanding /\ line[n].request = outstanding[n].request
                 \/ n = Len(outstanding) + 1 /\ line[n].request = <<c, ordinal + 1>>
<1> DEFINE new == <<c, ordinal + 1>>
           manual == c \in Flags
           e == [request |-> new, manual |-> manual]
<1>1. new \in Fresh
  BY FewRequests DEF Fresh
<1>2. e \in Entries
  BY <1>1 DEF Entries
<1>3. outstanding \in Seq(Entries) /\ Len(outstanding) \in Nat /\ Len(outstanding) <= 2
  BY DEF Typed
<1>4. CASE Len(outstanding) < 2
  <2> DEFINE line == Append(outstanding, e)
  <2>1. Accepted(c) = [request |-> new, line |-> line]
    BY <1>4 DEF Accepted
  <2>2. line \in Seq(Entries) /\ Len(line) = Len(outstanding) + 1
        /\ DOMAIN line = 1..(Len(outstanding) + 1)
        /\ line[Len(outstanding) + 1] = e
        /\ \A n \in 1..Len(outstanding) : line[n] = outstanding[n]
    BY <1>2, <1>3
  <2> HIDE DEF line
  <2>3. Accepted(c).line = line /\ Accepted(c).request = new
    BY <2>1
  <2>4. Len(outstanding) + 1 \in DOMAIN line /\ line[Len(outstanding) + 1].request = new
    BY <1>3, <2>2
  <2>5. DOMAIN outstanding = 1..Len(outstanding) /\ Len(line) <= 2
    BY <1>3, <1>4, <2>2
  <2>6. \A n \in DOMAIN outstanding : n \in DOMAIN line /\ line[n].request = outstanding[n].request
    BY <1>3, <2>2, <2>5
  <2>7. \A n \in DOMAIN line : n \in DOMAIN outstanding \/ n = Len(outstanding) + 1
    BY <1>3, <2>2, <2>5
  <2> HIDE DEF new
  <2> QED BY <1>1, <2>2, <2>3, <2>4, <2>5, <2>6, <2>7 DEF new
<1>5. CASE Len(outstanding) = 2
  <2> DEFINE x == [outstanding[2] EXCEPT !.manual = @ \/ manual]
             line == [outstanding EXCEPT ![2] = x]
  <2>1. outstanding[2] \in Entries /\ DOMAIN outstanding = 1..2
    BY <1>3, <1>5
  <2>2. x \in Entries /\ x.request = outstanding[2].request
    BY <2>1 DEF Entries
  <2>3. Accepted(c) = [request |-> outstanding[2].request, line |-> line]
    BY <1>5 DEF Accepted
  <2> HIDE DEF x
  <2>4. line \in Seq(Entries) /\ Len(line) = 2 /\ DOMAIN line = 1..2
        /\ line[2] = x /\ line[1] = outstanding[1]
    <3>1. 2 \in 1..Len(outstanding) /\ 1 \in 1..Len(outstanding)
      BY <1>5
    <3>2. /\ line \in Seq(Entries) /\ Len(line) = Len(outstanding)
          /\ \A k \in 1..Len(outstanding) : line[k] = IF k = 2 THEN x ELSE outstanding[k]
      BY <1>3, <2>2, <3>1, ExceptSeq
    <3> HIDE DEF line
    <3> QED BY <1>5, <3>1, <3>2
  <2>5. outstanding[2].request \in Fresh
    BY <2>1 DEF Entries
  <2> HIDE DEF line
  <2>6. \A n \in 1..2 : line[n].request = outstanding[n].request
    BY <2>2, <2>4
  <2>7. Accepted(c).line = line /\ Accepted(c).request = outstanding[2].request
    BY <2>3
  <2>8. 2 \in DOMAIN line /\ line[2].request = outstanding[2].request
    BY <2>4, <2>6
  <2>9. /\ DOMAIN outstanding = DOMAIN line /\ line \in Seq(Entries) /\ Len(line) <= 2
        /\ \A n \in DOMAIN line : line[n].request = outstanding[n].request
    BY <2>1, <2>4, <2>6
  <2> HIDE DEF line
  <2> QED BY <2>5, <2>7, <2>8, <2>9
<1>6. Len(outstanding) < 2 \/ Len(outstanding) = 2
  <2> DEFINE k == Len(outstanding)
  <2>1. k \in Nat /\ k <= 2
    BY <1>3
  <2> HIDE DEF k
  <2>2. k < 2 \/ k = 2
    BY <2>1
  <2> QED BY <2>2 DEF k
<1> QED BY <1>4, <1>5, <1>6

(* Who may ask the recorder for a save, and the attempt it would then have  *)
LEMMA RequestFits ==
  ASSUME BaseInv, LedgerAssumption, NEW c \in Captures, CanRequest(c)
  PROVE  /\ captures[c] \in {"scheduled", "retryable"} \/ c \in Flags
         /\ Reused(c) \/ <<c, 0, Generation(c)>> \in Synthetic
         /\ Doing("ask") => c \in Flags /\ captures[c] = "none" /\ memory[c].request = None
<1>1. CASE Doing("ask")
  <2>1. todo \in Seq(Calls) /\ todo # <<>> /\ Capture = c /\ Step.do = "ask"
    BY <1>1 DEF BaseInv, Typed, Doing, CanRequest, Idle
  <2>2. c \in Flags /\ todo[1].do = "ask" /\ todo[1].capture = c /\ 1 \in DOMAIN todo
    BY <2>1, StepTypes DEF Capture
  <2>3. captures[c] = "none" /\ memory[c].request = None
    BY <2>2 DEF BaseInv, KnownInv, KnownAt
  <2>4. Generation(c) = 0 /\ 0 \in 0..MaxRequests
    BY <2>3 DEF Generation, LedgerAssumption
  <2> QED BY <2>2, <2>3, <2>4 DEF Synthetic
<1>2. CASE ~Doing("ask")
  <2>1. captures[c] \in {"scheduled", "retryable"} /\ MayRetry
    BY <1>2 DEF CanRequest
  <2>2. Reused(c) \/ <<c, 0, Generation(c)>> \in Synthetic
    <3> SUFFICES ASSUME ~Reused(c) PROVE <<c, 0, Generation(c)>> \in Synthetic
      OBVIOUS
    <3>1. Generation(c) \in 0..MaxRequests
      <4>1. memory[c].generation \in Nat /\ MaxRequests \in Nat
        BY DEF BaseInv, Typed, LedgerAssumption, MemoryRows
      <4>2. memory[c].request # None => memory[c].generation < MaxRequests
        BY <2>1 DEF MayRetry, Reused
      <4> QED BY <4>1, <4>2 DEF Generation
    <3> QED BY <3>1 DEF Synthetic
  <2> QED BY <1>2, <2>1, <2>2
<1> QED BY <1>1, <1>2

(* The calls of a Manual Flag that is not stored yet                        *)
LEMMA ManualFlagTodo ==
  ASSUME NEW f, [session |-> session, flag |-> f] \notin flags, f \in Flags
  PROVE  EnsureFlag(f) \o <<Call("ask", f, None)>> = <<Call("flag", f, None), Call("ask", f, None)>>
<1>1. EnsureFlag(f) = <<Call("flag", f, None)>>
  BY DEF EnsureFlag
<1> QED BY Zenon, <1>1, TupleFacts

(* A storage call is taken off the method, or ends it                       *)
LEMMA StatementTodo ==
  ASSUME Typed, Statement
  PROVE  /\ todo \in Seq(Calls) /\ todo # <<>>
         /\ \/ todo' = Tail(todo) /\ torn' = torn
            \/ /\ todo' = <<>> /\ torn' = torn \cup {memory[c].request : c \in Upserted}
               /\ UNCHANGED <<rows, adapter, coordinator, recorder>>
<1>1. todo \in Seq(Calls)
  BY DEF Typed
<1>2. CASE Refused \/ CallFails
  BY <1>1, <1>2 DEF Refused, CallFails, Abort, Doing
<1>3. CASE ~(Refused \/ CallFails)
  <2>1. todo # <<>>
    BY <1>3 DEF Statement, RecordSnapshot, CreateCandidate, AddTrigger, RememberCandidate,
      RequestSave, CreateFlag, Join, FailSave, FinalizeClip, CompleteMetadata, Note, Scheduled,
      Disarm, Decided, Processed, Doing
  <2>2. Continue
    BY <1>3 DEF Statement, RecordSnapshot, CreateCandidate, AddTrigger, RememberCandidate,
      RequestSave, CreateFlag, Join, FailSave, FinalizeClip, CompleteMetadata, Note, Scheduled,
      Disarm, Decided, Processed
  <2> QED BY <1>1, <2>1, <2>2 DEF Continue
<1> QED BY <1>2, <1>3

(* What fail_save leaves of the attempt and of the memory                   *)
LEMMA FailSaveRows ==
  ASSUME Typed, FailSave
  PROVE  LET q == memory[Capture].request
             a == IF attempts[q].status = "saved" THEN attempts[q]
                  ELSE [attempts[q] EXCEPT !.status = "failed"]
             m == [memory[Capture] EXCEPT !.failed = TRUE]
         IN /\ Capture \in Captures /\ Step.do = "fail" /\ Capture = todo[1].capture
            /\ m \in MemoryRows /\ m.request = q /\ m.failed
            /\ memory' = [memory EXCEPT ![Capture] = m]
            /\ q \in Requests => /\ a \in AttemptRows /\ a.session = attempts[q].session
                                 /\ attempts' = [attempts EXCEPT ![q] = a]
            /\ q \notin Requests => attempts' = attempts
<1> DEFINE q == memory[Capture].request
           m == [memory[Capture] EXCEPT !.failed = TRUE]
<1>1. Capture \in Captures /\ Step.do = "fail" /\ Capture = todo[1].capture
  BY StepTypes DEF Typed, FailSave, Doing, Capture
<1>2. memory[Capture] \in MemoryRows
  BY <1>1 DEF Typed, MemoryRows
<1>3. m \in MemoryRows /\ m.request = q /\ m.failed
  BY <1>2 DEF MemoryRows
<1>4. memory' = [memory EXCEPT ![Capture] = m]
  BY DEF FailSave
<1>5. ASSUME q \in Requests
      PROVE  LET a == IF attempts[q].status = "saved" THEN attempts[q]
                      ELSE [attempts[q] EXCEPT !.status = "failed"]
             IN /\ a \in AttemptRows /\ a.session = attempts[q].session
                /\ attempts' = [attempts EXCEPT ![q] = a]
  <2>1. attempts[q] \in AttemptRows /\ attempts \in [Requests -> AttemptRows]
    BY <1>5 DEF Typed
  <2>2. attempts' = IF attempts[q].status = "saved" THEN attempts
                    ELSE [attempts EXCEPT ![q].status = "failed"]
    BY DEF FailSave
  <2> HIDE DEF q
  <2>3. CASE attempts[q].status = "saved"
    BY <1>5, <2>1, <2>2, <2>3
  <2>4. CASE attempts[q].status # "saved"
    <3> DEFINE a == [attempts[q] EXCEPT !.status = "failed"]
    <3>1. a \in AttemptRows /\ a.session = attempts[q].session
      BY <2>1 DEF AttemptRows
    <3>2. attempts' = [attempts EXCEPT ![q] = a]
      BY <2>2, <2>4
    <3> QED BY <2>4, <3>1, <3>2
  <2> QED BY <2>3, <2>4
<1>6. ASSUME q \notin Requests PROVE attempts' = attempts
  <2>1. attempts \in [Requests -> AttemptRows]
    BY DEF Typed
  <2>2. attempts' = IF attempts[q].status = "saved" THEN attempts
                    ELSE [attempts EXCEPT ![q].status = "failed"]
    BY DEF FailSave
  <2> HIDE DEF q
  <2> QED BY <1>6, <2>1, <2>2
<1> HIDE DEF q, m
<1>7. m = [memory[Capture] EXCEPT !.failed = TRUE] /\ q = memory[Capture].request
  BY DEF m, q
<1> QED BY <1>1, <1>3, <1>4, <1>5, <1>6, <1>7

(* What request_save leaves of the attempt and of the memory                *)
LEMMA RequestSaveRows ==
  ASSUME Typed, RequestSave
  PROVE  \E m \in MemoryRows, a \in AttemptRows :
           LET q == Step.arg
           IN /\ Capture \in Captures /\ q \in Requests /\ Step.do = "attempt"
              /\ memory' = [memory EXCEPT ![Capture] = m]
              /\ m.request = q /\ ~m.failed
              /\ attempts' = [attempts EXCEPT ![q] = a]
              /\ IF attempts[q].session # 0 THEN a = attempts[q]
                 ELSE a.session = session /\ a.status = "requested"
<1> DEFINE q == Step.arg
           g == IF memory[Capture].request = None THEN 0 ELSE memory[Capture].generation + 1
           m == [request |-> q, failed |-> FALSE, generation |-> g]
           a == IF attempts[q].session # 0 THEN attempts[q]
                ELSE [session |-> session, status |-> "requested", media |-> None]
<1>1. Capture \in Captures /\ q \in Requests /\ Step.do = "attempt"
  BY StepTypes DEF Typed, RequestSave, Doing
<1>2. memory[Capture].generation \in Nat
  BY <1>1 DEF Typed, MemoryRows
<1>3. m \in MemoryRows
  BY <1>1, <1>2 DEF MemoryRows
<1>4. attempts \in [Requests -> AttemptRows] /\ session \in Nat
  BY DEF Typed
<1>5. a \in AttemptRows
  BY <1>1, <1>4 DEF AttemptRows
<1>6. attempts' = [attempts EXCEPT ![q] = a]
  BY <1>1, <1>4 DEF RequestSave
<1>7. memory' = [memory EXCEPT ![Capture] = m]
  BY DEF RequestSave
<1>8. m.request = q /\ ~m.failed
  OBVIOUS
<1>9. IF attempts[q].session # 0 THEN a = attempts[q]
      ELSE a.session = session /\ a.status = "requested"
  OBVIOUS
<1> HIDE DEF a, m, q
<1> QED BY <1>1, <1>3, <1>5, <1>6, <1>7, <1>8, <1>9 DEF q

(* What finalize_captured_clip leaves of the attempt and the Clip           *)
LEMMA FinalizeClipRows ==
  ASSUME Typed, FinalizeClip
  PROVE  \E a \in AttemptRows, k \in ClipRows :
           LET ack == Step.arg
               q == ack.request
           IN /\ ack \in Entries /\ q \in Fresh /\ Step.do = "clip"
              /\ attempts' = [attempts EXCEPT ![q] = a]
              /\ a.session = attempts[q].session /\ a.status = "saved"
              /\ clips' = [clips EXCEPT ![q] = k]
              /\ k.media = MediaOf(ack) /\ k.kind = KindOf(ack) /\ ~k.complete
<1> DEFINE ack == Step.arg
           q == ack.request
           a == [attempts[q] EXCEPT !.status = "saved", !.media = MediaOf(ack)]
           k == [media |-> MediaOf(ack), kind |-> KindOf(ack), origin |-> {}, complete |-> FALSE]
<1>1. ack \in Entries /\ Step.do = "clip"
  BY StepTypes DEF Typed, FinalizeClip, Doing
<1>2. q \in Fresh /\ q \in Requests
  BY <1>1 DEF Entries, Requests
<1>3. MediaOf(ack) \in Fresh \X Nat /\ MediaOf(ack) \in Requests \X Nat
  BY <1>2 DEF MediaOf, Typed
<1>4. attempts \in [Requests -> AttemptRows] /\ clips \in [Requests -> ClipRows]
  BY DEF Typed
<1>5. a \in AttemptRows /\ a.session = attempts[q].session /\ a.status = "saved"
  <2>1. attempts[q] \in AttemptRows
    BY <1>2, <1>4
  <2> QED BY <1>3, <2>1 DEF AttemptRows
<1>6. k \in ClipRows /\ k.media = MediaOf(ack) /\ k.kind = KindOf(ack) /\ ~k.complete
  BY <1>3 DEF ClipRows, KindOf
<1>7. attempts' = [attempts EXCEPT ![q] = a]
  <2>1. attempts' = [attempts EXCEPT ![q].status = "saved", ![q].media = MediaOf(ack)]
    BY DEF FinalizeClip
  <2> HIDE DEF q, ack
  <2>2. [attempts EXCEPT ![q].status = "saved", ![q].media = MediaOf(ack)]
          = [attempts EXCEPT ![q] = [attempts[q] EXCEPT !.status = "saved", !.media = MediaOf(ack)]]
    BY <1>2, <1>4
  <2> QED BY <2>1, <2>2
<1>8. clips' = [clips EXCEPT ![q] = k]
  BY DEF FinalizeClip, KindOf
<1> HIDE DEF a, k
<1> QED BY <1>1, <1>2, <1>5, <1>6, <1>7, <1>8

(* What complete_clip_metadata names as the origin of a Clip                *)
LEMMA OriginFacts ==
  ASSUME Typed, LedgerAssumption, NEW ack \in Entries
  PROVE  /\ ~ack.manual =>
              Origin(ack) = UNION {evidence[r] : r \in Sharing(ack.request) \cap Rounds}
         /\ ack.manual => Origin(ack) \subseteq Sharing(ack.request) \cap Flags
         /\ Origin(ack) \subseteq Flags \cup Receipts
<1>1. CASE ack.manual
  <2> DEFINE F == Sharing(ack.request) \cap Flags
             fs == SetToSeq(F)
  <2>1. F \subseteq Captures /\ IsFiniteSet(Captures)
    BY DEF Captures, LedgerAssumption
  <2>2. IsFiniteSet(F)
    BY <2>1, FS_Subset
  <2>3. fs \in Seq(F)
    BY <2>2, SetToSeqFacts
  <2>4. Origin(ack) = IF fs = <<>> THEN {} ELSE {fs[1]}
    BY <1>1 DEF Origin
  <2> HIDE DEF fs
  <2>5. fs # <<>> => fs[1] \in F
    BY <2>3
  <2> QED BY <1>1, <2>4, <2>5
<1>2. CASE ~ack.manual
  <2>1. Origin(ack) = UNION {evidence[r] : r \in Sharing(ack.request) \cap Rounds}
    BY <1>2 DEF Origin
  <2>2. \A r \in Rounds : evidence[r] \in SUBSET Receipts
    BY DEF Typed
  <2> QED BY <1>2, <2>1, <2>2
<1> QED BY <1>1, <1>2

(* What complete_clip_metadata leaves of the Clip                           *)
LEMMA CompleteMetadataRows ==
  ASSUME Typed, LedgerAssumption, CompleteMetadata
  PROVE  \E k \in ClipRows :
           LET ack == Step.arg
               q == ack.request
           IN /\ ack \in Entries /\ q \in Fresh /\ Step.do = "origin"
              /\ clips' = [clips EXCEPT ![q] = k]
              /\ k.media = clips[q].media /\ k.kind = clips[q].kind /\ k.complete
              /\ k.origin = Origin(ack)
<1> DEFINE ack == Step.arg
           q == ack.request
           o == Origin(ack)
           k == [clips[q] EXCEPT !.origin = o, !.complete = TRUE]
<1>1. ack \in Entries /\ Step.do = "origin"
  BY StepTypes DEF Typed, CompleteMetadata, Doing
<1>2. q \in Fresh /\ q \in Requests
  BY <1>1 DEF Entries, Requests
<1>3. clips \in [Requests -> ClipRows] /\ clips[q] \in ClipRows
  BY <1>2 DEF Typed
<1>4. o \in SUBSET (Flags \cup Receipts)
  BY <1>1, OriginFacts
<1>5. clips' = [clips EXCEPT ![q].origin = o, ![q].complete = TRUE]
  BY DEF CompleteMetadata
<1>8. o = Origin(ack)
  OBVIOUS
<1> HIDE DEF o, q, ack
<1>6. /\ k \in ClipRows /\ k.media = clips[q].media /\ k.kind = clips[q].kind /\ k.complete
      /\ k.origin = o
  BY <1>3, <1>4 DEF ClipRows
<1>7. clips' = [clips EXCEPT ![q] = k]
  BY <1>2, <1>3, <1>5
<1> HIDE DEF k
<1> QED BY <1>1, <1>2, <1>6, <1>7, <1>8 DEF q, ack

(* A storage call keeps the types                                           *)
LEMMA TypedStatement ==
  ASSUME Typed, LedgerAssumption, Statement
  PROVE  Typed'
<1>1. todo' \in Seq(Calls)
  <2>1. todo \in Seq(Calls) /\ todo # <<>> /\ (todo' = Tail(todo) \/ todo' = <<>>)
    BY StatementTodo
  <2>2. Tail(todo) \in Seq(Calls)
    BY <2>1, TailFacts
  <2>3. <<>> \in Seq(Calls)
    OBVIOUS
  <2> QED BY Zenon, <2>1, <2>2, <2>3
<1>2. todo \in Seq(Calls) /\ todo # <<>>
  BY StatementTodo
<1>3. CASE RecordSnapshot \/ CreateCandidate \/ AddTrigger \/ CreateFlag \/ Join
  BY <1>1, <1>3 DEF Typed, RecordSnapshot, CreateCandidate, AddTrigger, CreateFlag, Join,
    coordinator, recorder, adapter
<1>4. CASE Refused \/ CallFails
  BY <1>1, <1>4 DEF Typed, Refused, CallFails, rows, coordinator, recorder, adapter
<1>5. CASE RememberCandidate
  <2>1. Capture \in Rounds /\ Step.arg \in SUBSET Receipts
    BY <1>2, <1>5, StepTypes DEF RememberCandidate, Doing
  <2>2. persisted' \in [Rounds -> SUBSET Receipts]
    BY <1>5, <2>1 DEF RememberCandidate, Typed
  <2> QED BY <1>1, <1>5, <2>2 DEF Typed, RememberCandidate, rows, coordinator, recorder
<1>6. CASE RequestSave
  <2>1. memory' \in [Captures -> MemoryRows] /\ attempts' \in [Requests -> AttemptRows]
    <3>1. memory \in [Captures -> MemoryRows] /\ attempts \in [Requests -> AttemptRows]
      BY DEF Typed
    <3> QED BY <1>6, <3>1, RequestSaveRows
  <2> QED BY <1>1, <1>6, <2>1 DEF Typed, RequestSave, coordinator, recorder
<1>7. CASE FailSave
  <2>1. memory' \in [Captures -> MemoryRows] /\ attempts' \in [Requests -> AttemptRows]
    <3>1. memory \in [Captures -> MemoryRows] /\ attempts \in [Requests -> AttemptRows]
      BY DEF Typed
    <3> DEFINE q == memory[Capture].request
               a == IF attempts[q].status = "saved" THEN attempts[q]
                    ELSE [attempts[q] EXCEPT !.status = "failed"]
               m == [memory[Capture] EXCEPT !.failed = TRUE]
    <3>2. /\ Capture \in Captures /\ m \in MemoryRows /\ memory' = [memory EXCEPT ![Capture] = m]
          /\ q \in Requests => a \in AttemptRows /\ attempts' = [attempts EXCEPT ![q] = a]
          /\ q \notin Requests => attempts' = attempts
      BY <1>7, FailSaveRows
    <3> HIDE DEF q, a, m
    <3> QED BY <3>1, <3>2
  <2> QED BY <1>1, <1>7, <2>1 DEF Typed, FailSave, coordinator, recorder
<1>8. CASE FinalizeClip
  <2>1. attempts' \in [Requests -> AttemptRows] /\ clips' \in [Requests -> ClipRows]
    <3>1. attempts \in [Requests -> AttemptRows] /\ clips \in [Requests -> ClipRows]
      BY DEF Typed
    <3> QED BY <1>8, <3>1, FinalizeClipRows
  <2> QED BY <1>1, <1>8, <2>1 DEF Typed, FinalizeClip, coordinator, recorder, adapter
<1>9. CASE CompleteMetadata
  <2>1. clips' \in [Requests -> ClipRows]
    BY <1>9, CompleteMetadataRows DEF Typed
  <2> QED BY <1>1, <1>9, <2>1 DEF Typed, CompleteMetadata, coordinator, recorder, adapter
<1>10. CASE Note
  <2>1. Capture \in Rounds /\ Step.arg \in Receipts
    BY <1>2, <1>10, StepTypes DEF Note, Doing
  <2>2. noted' \in [Rounds -> SUBSET Receipts]
    BY <1>10, <2>1 DEF Note, Typed
  <2>3. \A r \in Rounds : IsFiniteSet(noted'[r])
    <3> SUFFICES ASSUME NEW r \in Rounds PROVE IsFiniteSet(noted'[r])
      OBVIOUS
    <3>1. noted'[r] = {Step.arg} \/ noted'[r] = noted[r]
      BY <1>10, <2>1 DEF Note, Typed
    <3>2. IsFiniteSet({Step.arg}) /\ IsFiniteSet(noted[r])
      BY FS_Singleton DEF Typed
    <3> QED BY <3>1, <3>2
  <2> QED BY <1>1, <1>10, <2>2, <2>3 DEF Typed, Note, rows, adapter, recorder
<1>11. CASE Scheduled
  <2>1. Capture \in Rounds /\ Step.arg \in SUBSET Receipts
    BY <1>2, <1>11, StepTypes DEF Scheduled, Doing
  <2>2. evidence' \in [Rounds -> SUBSET Receipts] /\ captures' \in [Captures -> Statuses]
    BY <1>11, <2>1 DEF Scheduled, Typed, Statuses
  <2> QED BY <1>1, <1>11, <2>2 DEF Typed, Scheduled, rows, adapter, recorder
<1>12. CASE Decided
  <2>1. captures' \in [Captures -> Statuses]
    BY <1>12 DEF Decided, Typed, Statuses
  <2> QED BY <1>1, <1>12, <2>1 DEF Typed, Decided, rows, adapter, recorder
<1>13. CASE Processed
  <2>1. next' \in Nat
    BY <1>13 DEF Processed, Typed
  <2> QED BY <1>1, <1>13, <2>1 DEF Typed, Processed, rows, adapter, recorder
<1>14. CASE Disarm
  BY <1>1, <1>14 DEF Typed, Disarm, rows, adapter, recorder
<1> QED BY <1>3, <1>4, <1>5, <1>6, <1>7, <1>8, <1>9, <1>10, <1>11, <1>12, <1>13, <1>14 DEF Statement

(* Every step keeps the types                                               *)
LEMMA TypedStep ==
  ASSUME BaseInv, LedgerAssumption, [Next]_vars
  PROVE  Typed'
<1>1. Typed /\ KnownInv
  BY DEF BaseInv
<1>2. CASE Statement
  BY <1>1, <1>2, TypedStatement
<1>3. ASSUME NEW p \in Payloads, Ingest(p) PROVE Typed'
  <2>0. PICK cs \in Orders(p) : todo' = IngestCalls(p, cs)
    BY <1>3 DEF Ingest
  <2>1. IngestCalls(p, cs) \in Whole(<<p, next>>)
    BY <1>1, <1>3, IngestFits DEF Ingest
  <2>2. todo' \in Seq(Calls)
    BY <2>0, <2>1 DEF Whole
  <2> QED BY <1>1, <1>3, <2>2 DEF Typed, Ingest, rows, adapter, coordinator, recorder
<1>4. ASSUME NEW c \in Captures, RequestAccepted(c) PROVE Typed'
  <2>1. MayRequest /\ CanRequest(c)
    BY <1>4 DEF RequestAccepted, CanRequest
  <2>2. LET line == Accepted(c).line
        IN Accepted(c).request \in Fresh /\ line \in Seq(Entries) /\ Len(line) <= 2
    BY <1>1, <2>1, AcceptedFacts
  <2>3. todo' \in Seq(Calls)
    BY <1>4, <2>2, UpsertRequestedFits DEF RequestAccepted
  <2>4. outstanding' \in Seq(Entries) /\ Len(outstanding') <= 2
    BY <1>4, <2>2 DEF RequestAccepted
  <2>5. ordinal' \in Nat /\ captures' \in [Captures -> Statuses]
    BY <1>1, <1>4 DEF RequestAccepted, Typed, Statuses
  <2> QED BY <1>1, <1>4, <2>3, <2>4, <2>5 DEF Typed, RequestAccepted, rows, adapter
<1>5. ASSUME NEW c \in Captures, RequestRefused(c) PROVE Typed'
  <2>1. Reused(c) \/ <<c, 0, Generation(c)>> \in Synthetic
    BY <1>5, RequestFits DEF RequestRefused
  <2>2. todo' \in Seq(Calls)
    BY <1>5, <2>1, UpsertRetryableFits DEF RequestRefused
  <2>3. ordinal' \in Nat /\ captures' \in [Captures -> Statuses]
    BY <1>1, <1>5 DEF RequestRefused, Typed, Statuses
  <2> QED BY <1>1, <1>5, <2>2, <2>3 DEF Typed, RequestRefused, rows, adapter
<1>6. ASSUME NEW f \in Flags, ManualFlag(f) PROVE Typed'
  <2>1. todo' = <<Call("flag", f, None), Call("ask", f, None)>>
    BY <1>1, <1>6, ManualFlagTodo DEF ManualFlag, Typed
  <2>2. Call("flag", f, None) \in Calls /\ Call("ask", f, None) \in Calls
    BY DEF Calls, Call
  <2>3. todo' \in Seq(Calls)
    BY <2>1, <2>2
  <2> QED BY <1>1, <1>6, <2>3 DEF Typed, ManualFlag, rows, adapter, coordinator, recorder
<1>7. CASE Discover
  <2>1. outstanding \in Seq(Entries) /\ Len(outstanding) <= 2 /\ outstanding # <<>>
    BY <1>1, <1>7 DEF Typed, Discover
  <2>2. /\ Head(outstanding) \in Entries /\ Tail(outstanding) \in Seq(Entries)
        /\ Len(Tail(outstanding)) <= 2
    BY <2>1, TailFacts
  <2> QED BY <1>1, <1>7, <2>2 DEF Typed, Discover, rows, adapter, coordinator
<1>8. CASE Finalize
  <2>1. acked \in Entries
    BY <1>1, <1>8 DEF Typed, Finalize
  <2>2. Call("clip", None, acked) \in Calls /\ Call("origin", None, acked) \in Calls
    BY <2>1 DEF Calls, Call
  <2>3. todo' \in Seq(Calls)
    BY <1>8, <2>2 DEF Finalize, FinalizeCalls
  <2> QED BY <1>1, <1>8, <2>3 DEF Typed, Finalize, rows, adapter, coordinator
<1>9. CASE Restart
  <2>1. /\ session' \in Nat /\ session' \in 1..MaxSession
        /\ next' \in Nat /\ ordinal' \in Nat
    BY <1>1, <1>9 DEF Typed, Restart, LedgerAssumption
  <2>2. attempts' \in [Requests -> AttemptRows] /\ clips' \in [Requests -> ClipRows]
    BY <1>1, <1>9 DEF Typed, Restart
  <2>3. /\ persisted' \in [Rounds -> SUBSET Receipts] /\ evidence' \in [Rounds -> SUBSET Receipts]
        /\ noted' \in [Rounds -> SUBSET Receipts] /\ \A r \in Rounds : IsFiniteSet(noted'[r])
    <3>1. IsFiniteSet({})
      BY FS_EmptySet
    <3> QED BY <1>9, <3>1 DEF Restart
  <2>4. memory' \in [Captures -> MemoryRows] /\ captures' \in [Captures -> Statuses]
    BY <1>9 DEF Restart, Unknown, MemoryRows, Statuses
  <2>5. outstanding' \in Seq(Entries) /\ Len(outstanding') <= 2 /\ acked' \in {None} \cup Entries
        /\ todo' \in Seq(Calls)
    BY <1>9 DEF Restart
  <2> QED BY <2>1, <2>2, <2>3, <2>4, <2>5 DEF Typed
<1>10. CASE UNCHANGED vars
  BY <1>1, <1>10 DEF Typed, vars, rows, adapter, coordinator, recorder
<1> QED BY <1>2, <1>3, <1>4, <1>5, <1>6, <1>7, <1>8, <1>9, <1>10 DEF Next

(* The daemon starts with well-typed state                                  *)
LEMMA TypedInit ==
  ASSUME LedgerAssumption, Init
  PROVE  Typed
<1>1. attempts \in [Requests -> AttemptRows] /\ clips \in [Requests -> ClipRows]
  BY DEF Init, NoAttempt, NoClip, AttemptRows, ClipRows
<1>2. memory \in [Captures -> MemoryRows] /\ captures \in [Captures -> Statuses]
  BY DEF Init, Unknown, MemoryRows, Statuses
<1>3. \A r \in Rounds : noted[r] = {} /\ IsFiniteSet({})
  BY FS_EmptySet DEF Init
<1>4. outstanding \in Seq(Entries) /\ Len(outstanding) <= 2 /\ todo \in Seq(Calls)
  BY DEF Init
<1> QED BY <1>1, <1>2, <1>3, <1>4 DEF Init, Typed, LedgerAssumption

(* When a call is taken off the method, the rest moves up by one.           *)
LEMMA Shift ==
  ASSUME todo \in Seq(Calls), todo # <<>>, todo' = Tail(todo)
  PROVE  /\ Len(todo') = Len(todo) - 1 /\ Len(todo) \in Nat /\ 1 \in DOMAIN todo /\ Step = todo[1]
         /\ DOMAIN todo = 1..Len(todo) /\ DOMAIN todo' = 1..(Len(todo) - 1)
         /\ \A n \in DOMAIN todo' :
              /\ n \in Nat \ {0} /\ n + 1 \in DOMAIN todo /\ n + 1 # 1 /\ todo'[n] = todo[n + 1]
              /\ Before(todo, n + 1) = Before(todo', n) \cup {Step}
              /\ After(todo', n) = After(todo, n + 1)
         /\ \A n \in DOMAIN todo' : \A do, c : Follows(todo, n + 1, do, c) =>
              IF n = 1 THEN Step.do = do /\ Capture = c ELSE Follows(todo', n, do, c)
<1>1. /\ 1 \in DOMAIN todo /\ Step = todo[1]
      /\ Tail(todo) \in Seq(Calls) /\ Len(Tail(todo)) = Len(todo) - 1
      /\ \A n \in DOMAIN Tail(todo) :
           /\ n \in Nat \ {0} /\ n + 1 \in DOMAIN todo /\ Tail(todo)[n] = todo[n + 1]
           /\ Before(todo, n + 1) = Before(Tail(todo), n) \cup {Step}
           /\ After(Tail(todo), n) = After(todo, n + 1)
  BY TailFacts DEF Step
<1>2. Len(todo) \in Nat /\ DOMAIN todo = 1..Len(todo) /\ DOMAIN todo' = 1..(Len(todo) - 1)
  BY <1>1
<1> HIDE DEF Step
<1>3. ASSUME NEW n \in DOMAIN todo', NEW do, NEW c, Follows(todo, n + 1, do, c)
      PROVE  IF n = 1 THEN Step.do = do /\ Capture = c ELSE Follows(todo', n, do, c)
  <2>1. n \in Nat \ {0} /\ (n + 1) - 1 = n /\ todo[n].do = do /\ todo[n].capture = c
    BY <1>1, <1>3 DEF Follows
  <2>2. CASE n = 1
    BY <1>1, <2>1, <2>2 DEF Capture
  <2>3. CASE n # 1
    <3>1. n - 1 \in DOMAIN todo' /\ (n - 1) + 1 = n
      BY <1>2, <2>1, <2>3
    <3>2. todo'[n - 1] = todo[n]
      BY <1>1, <3>1
    <3> QED BY <2>1, <2>3, <3>2 DEF Follows
  <2> QED BY <2>2, <2>3
<1> QED BY <1>1, <1>2, <1>3

(* A storage call keeps what is known of the captures of the rest           *)
LEMMA KnownStatement ==
  ASSUME BaseInv, LedgerAssumption, Statement
  PROVE  KnownInv'
<1>1. Typed /\ KnownInv /\ todo \in Seq(Calls) /\ todo # <<>>
  BY StatementTodo DEF BaseInv
<1>2. CASE todo' = <<>> /\ UNCHANGED <<rows, adapter, coordinator, recorder>>
  BY <1>1, <1>2 DEF KnownInv, KnownAt, adapter, coordinator
<1>3. CASE todo' = Tail(todo)
  <2>1. /\ Len(todo') = Len(todo) - 1 /\ Len(todo) \in Nat /\ 1 \in DOMAIN todo /\ Step = todo[1]
        /\ DOMAIN todo = 1..Len(todo) /\ DOMAIN todo' = 1..(Len(todo) - 1)
        /\ \A n \in DOMAIN todo' :
             n \in Nat \ {0} /\ n + 1 \in DOMAIN todo /\ todo'[n] = todo[n + 1]
    BY <1>1, <1>3, Shift
  <2>2. \A n \in DOMAIN todo' : KnownAt(n + 1)
    BY <1>1, <2>1 DEF KnownInv
  <2>0. KnownAt(1)
    BY <1>1, <2>1 DEF KnownInv
  <2>3. \A c \in Captures : captures[c] = "none" => memory[c].request = None
    BY <1>1 DEF KnownInv
  <2>8. ASSUME \A c \in Captures : memory'[c].request = memory[c].request,
               UNCHANGED captures
        PROVE  KnownInv'
    <3>1. ASSUME NEW n \in DOMAIN todo' PROVE KnownAt(n)'
      <4>1. todo'[n].do = "scheduled" => todo'[n].capture \in Captures
        <5>1. todo'[n] \in Calls
          BY <1>1, <2>1 DEF Typed
        <5> QED BY <5>1 DEF Calls, Captures, Decisions
      <4> QED BY <2>1, <2>2, <2>8, <4>1 DEF KnownAt
    <3> QED BY <2>3, <2>8, <3>1 DEF KnownInv
  <2>4. CASE RequestSave
    <3>1. PICK m \in MemoryRows :
            /\ Capture \in Captures /\ Step.do = "attempt" /\ memory' = [memory EXCEPT ![Capture] = m]
      BY <1>1, <2>4, RequestSaveRows
    <3>2. captures' = captures /\ memory \in [Captures -> MemoryRows]
      BY <1>1, <2>4 DEF RequestSave, coordinator, Typed
    <3>3. captures[Capture] # "none"
      BY <2>0, <2>1, <3>1 DEF KnownAt, Capture
    <3>4. \A c \in Captures : captures'[c] = "none" => memory'[c].request = None
      BY <2>3, <3>1, <3>2, <3>3
    <3>5. ASSUME NEW n \in DOMAIN todo' PROVE KnownAt(n)'
      <4>1. todo'[n].do = "scheduled" => todo'[n].capture \in Captures
        <5>1. todo'[n] \in Calls
          BY <1>1, <2>1 DEF Typed
        <5> QED BY <5>1 DEF Calls, Captures, Decisions
      <4>2. todo'[n].do = "scheduled" => todo'[n].capture # Capture
        BY <2>1, <2>2, <3>1 DEF KnownAt, Capture
      <4>3. todo'[n].do = "scheduled" => memory'[todo'[n].capture].request = None
        BY <2>1, <2>2, <3>1, <3>2, <4>1, <4>2 DEF KnownAt
      <4> QED BY <2>1, <2>2, <3>2, <4>3 DEF KnownAt
    <3> QED BY <3>4, <3>5 DEF KnownInv
  <2>5. CASE FailSave
    <3>1. \A c \in Captures : memory'[c].request = memory[c].request
      <4>1. PICK m \in MemoryRows : /\ Capture \in Captures /\ m.request = memory[Capture].request
                                    /\ memory' = [memory EXCEPT ![Capture] = m]
        BY <1>1, <2>5, FailSaveRows
      <4>2. memory \in [Captures -> MemoryRows]
        BY <1>1 DEF Typed
      <4> QED BY <4>1, <4>2
    <3> QED BY <2>5, <2>8, <3>1 DEF FailSave, coordinator
  <2>6. CASE Scheduled
    <3>1. Capture \in Rounds /\ Step.do = "scheduled"
      BY <1>1, <2>6, StepTypes DEF Scheduled, Doing
    <3>2. captures' = [captures EXCEPT ![Capture] = "scheduled"] /\ memory' = memory
      BY <2>6 DEF Scheduled, adapter
    <3>3. captures \in [Captures -> Statuses] /\ Capture \in Captures
      BY <1>1, <3>1 DEF Typed, Captures
    <3>4. ASSUME NEW n \in DOMAIN todo' PROVE KnownAt(n)'
      <4>1. todo'[n] \in Calls
        BY <1>1, <2>1 DEF Typed
      <4>2. todo'[n].do \in Decisions \cup {"attempt", "ask"} => todo'[n].capture \in Captures
        BY <4>1 DEF Calls, Captures, Decisions
      <4>3. todo'[n].do = "ask" => todo'[n].capture # Capture
        BY <3>1, <4>1 DEF Calls, LedgerAssumption, Decisions
      <4> QED BY <2>1, <2>2, <3>2, <3>3, <4>2, <4>3 DEF KnownAt
    <3> QED BY <2>3, <3>2, <3>3, <3>4 DEF KnownInv
  <2>7. CASE Decided
    <3>1. /\ Capture \in Captures /\ Step.do \in Decisions /\ memory' = memory
          /\ captures' = [captures EXCEPT ![Capture] = Step.do]
      BY <1>1, <2>7, StepTypes DEF Decided, adapter, Decisions
    <3>2. captures \in [Captures -> Statuses]
      BY <1>1 DEF Typed
    <3>3. captures[Capture] # "none" /\ (Step.do = "requested" => Len(todo) = 1)
      BY <2>0, <2>1, <3>1 DEF KnownAt, Capture
    <3>4. ASSUME NEW n \in DOMAIN todo' PROVE KnownAt(n)'
      <4>1. todo'[n].do \in Decisions \cup {"attempt", "ask"} => todo'[n].capture \in Captures
        <5>1. todo'[n] \in Calls
          BY <1>1, <2>1 DEF Typed
        <5> QED BY <5>1 DEF Calls, Captures, Decisions
      <4>2. Step.do \in {"retryable", "cancelled"}
        BY <2>1, <3>1, <3>3 DEF Decisions
      <4> QED BY <2>1, <2>2, <3>1, <3>2, <3>3, <4>1, <4>2 DEF KnownAt
    <3> QED BY <2>3, <3>1, <3>2, <3>4 DEF KnownInv, Decisions
  <2>9. CASE ~(RequestSave \/ FailSave \/ Scheduled \/ Decided)
    <3>1. UNCHANGED <<memory, captures>>
      BY <2>9 DEF Statement, RecordSnapshot, CreateCandidate, AddTrigger, RememberCandidate,
        CreateFlag, Join, FinalizeClip, CompleteMetadata, Note, Disarm,
        Processed, Refused, CallFails, adapter, coordinator
    <3> QED BY <2>8, <3>1
  <2> QED BY <2>4, <2>5, <2>6, <2>7, <2>9
<1> QED BY <1>2, <1>3, <1>1, StatementTodo

(* Coordinator::ingest begins with a method in order                        *)
LEMMA IngestTodo ==
  ASSUME BaseInv, LedgerAssumption, NEW p \in Payloads, Ingest(p)
  PROVE  /\ todo' \in Seq(Calls) /\ UNCHANGED <<rows, adapter, coordinator, recorder, torn>>
         /\ todo = <<>> /\ <<p, next>> \in Receipts
         /\ \/ <<p, next>> \in hydrated
            \/ \E m \in DOMAIN todo' : todo'[m].do = "snapshot"
         /\ \A n \in DOMAIN todo' :
              /\ todo'[n] \in Calls /\ Fits(todo', n, <<p, next>>)
              /\ todo'[n].do # "snapshot" =>
                   <<p, next>> \in hydrated \/ MadeOf("snapshot", None, <<p, next>>, Before(todo', n))
<1>0. PICK cs \in Orders(p) : todo' = IngestCalls(p, cs)
  BY DEF Ingest
<1>1. IngestCalls(p, cs) \in Whole(<<p, next>>)
  BY IngestFits DEF Ingest, BaseInv
<1>2. todo' = IngestCalls(p, cs) /\ UNCHANGED <<rows, adapter, coordinator, recorder, torn>> /\ todo = <<>>
  BY <1>0 DEF Ingest, Idle
<1>3. todo' \in Whole(<<p, next>>) /\ todo' \in Seq(Calls)
  BY <1>1, <1>2 DEF Whole
<1>4. <<p, next>> \in Receipts
  BY DEF BaseInv, Typed, Receipts
<1>5. \A n \in DOMAIN todo' : todo'[n] \in Calls
  BY <1>3
<1> QED BY <1>2, <1>3, <1>4, <1>5 DEF Whole

(* request_capture_save begins with a method in order: accepted             *)
LEMMA AcceptedTodo ==
  ASSUME BaseInv, LedgerAssumption, NEW c \in Captures, RequestAccepted(c)
  PROVE  /\ Accepted(c).request \in Fresh
         /\ todo' \in Seq(Calls) /\ UNCHANGED <<rows, adapter, next, noted, evidence, acked, torn>>
         /\ captures' = captures \/ captures' = [captures EXCEPT ![c] = "requesting"]
         /\ captures'[c] \in {"scheduled", "retryable", "requesting"}
         /\ \A n \in DOMAIN todo' :
              todo'[n] \in Calls /\ Deciding(todo', n, c, Accepted(c).request, "requested")
<1>1. Typed /\ captures \in [Captures -> Statuses]
  BY DEF BaseInv, Typed
<1>2. Accepted(c).request \in Fresh
  BY <1>1, AcceptedFacts DEF RequestAccepted, CanRequest
<1>3. todo' = UpsertRequested(c, Accepted(c).request)
  BY DEF RequestAccepted
<1>4. /\ todo' \in Seq(Calls)
      /\ \A n \in DOMAIN todo' : Deciding(todo', n, c, Accepted(c).request, "requested")
  BY <1>2, <1>3, UpsertRequestedFits
<1>5. UNCHANGED <<rows, adapter, next, noted, evidence, acked, torn>>
  BY DEF RequestAccepted
<1>6. /\ captures' = captures \/ captures' = [captures EXCEPT ![c] = "requesting"]
      /\ captures'[c] \in {"scheduled", "retryable", "requesting"}
  <2>1. CASE Idle
    <3>1. captures' = captures /\ captures[c] \in {"scheduled", "retryable"}
      BY <2>1 DEF RequestAccepted, CanRequest, Idle, Doing
    <3> QED BY <3>1
  <2>2. CASE ~Idle
    BY <1>1, <2>2 DEF RequestAccepted
  <2> QED BY <2>1, <2>2
<1>7. \A n \in DOMAIN todo' : todo'[n] \in Calls
  BY <1>4
<1> QED BY <1>2, <1>4, <1>5, <1>6, <1>7

(* request_capture_save begins with a method in order: refused              *)
LEMMA RefusedTodo ==
  ASSUME BaseInv, LedgerAssumption, NEW c \in Captures, RequestRefused(c)
  PROVE  /\ Reused(c) \/ <<c, 0, Generation(c)>> \in Synthetic
         /\ todo' \in Seq(Calls)
         /\ UNCHANGED <<rows, adapter, next, noted, evidence, outstanding, acked, torn>>
         /\ captures' = captures \/ captures' = [captures EXCEPT ![c] = "requesting"]
         /\ captures'[c] \in {"scheduled", "retryable", "requesting"}
         /\ \A n \in DOMAIN todo' :
              todo'[n] \in Calls /\ Deciding(todo', n, c, <<c, 0, Generation(c)>>, "retryable")
<1>1. Typed /\ captures \in [Captures -> Statuses]
  BY DEF BaseInv, Typed
<1>2. Reused(c) \/ <<c, 0, Generation(c)>> \in Synthetic
  BY RequestFits DEF RequestRefused
<1>3. todo' = UpsertRetryable(c)
  BY DEF RequestRefused
<1>4. /\ todo' \in Seq(Calls)
      /\ \A n \in DOMAIN todo' : Deciding(todo', n, c, <<c, 0, Generation(c)>>, "retryable")
  BY <1>2, <1>3, UpsertRetryableFits
<1>5. UNCHANGED <<rows, adapter, next, noted, evidence, outstanding, acked, torn>>
  BY DEF RequestRefused
<1>6. /\ captures' = captures \/ captures' = [captures EXCEPT ![c] = "requesting"]
      /\ captures'[c] \in {"scheduled", "retryable", "requesting"}
  <2>1. CASE Idle
    <3>1. captures' = captures /\ captures[c] \in {"scheduled", "retryable"}
      BY <2>1 DEF RequestRefused, CanRequest, Idle, Doing
    <3> QED BY <3>1
  <2>2. CASE ~Idle
    BY <1>1, <2>2 DEF RequestRefused
  <2> QED BY <2>1, <2>2
<1>7. \A n \in DOMAIN todo' : todo'[n] \in Calls
  BY <1>4
<1> QED BY <1>2, <1>4, <1>5, <1>6, <1>7

(* Coordinator::manual_flag begins with the flag, then asks                 *)
LEMMA FlagTodo ==
  ASSUME BaseInv, NEW f \in Flags, ManualFlag(f)
  PROVE  /\ todo' = <<Call("flag", f, None), Call("ask", f, None)>>
         /\ DOMAIN todo' = 1..2 /\ todo'[1].do = "flag" /\ todo'[2].do = "ask"
         /\ todo'[1].capture = f /\ todo'[2].capture = f
         /\ captures[f] = "none"
         /\ UNCHANGED <<rows, adapter, coordinator, recorder, torn>>
<1>1. todo' = <<Call("flag", f, None), Call("ask", f, None)>>
  BY ManualFlagTodo DEF ManualFlag, BaseInv, Typed
<1> DEFINE x == Call("flag", f, None)
           y == Call("ask", f, None)
<1>2. x.do = "flag" /\ x.capture = f /\ y.do = "ask" /\ y.capture = f
  BY DEF Call
<1>3. todo' = <<x, y>>
  BY <1>1
<1> HIDE DEF x, y
<1>4. DOMAIN todo' = 1..2 /\ todo'[1] = x /\ todo'[2] = y
  BY <1>3
<1>5. captures[f] = "none" /\ UNCHANGED <<rows, adapter, coordinator, recorder, torn>>
  BY DEF ManualFlag
<1> QED BY <1>1, <1>2, <1>4, <1>5

(* finalize_capture makes the Clip, then names its origin                   *)
LEMMA FinalizeTodo ==
  ASSUME BaseInv, Finalize
  PROVE  /\ acked \in Entries /\ DOMAIN todo' = 1..2
         /\ todo'[1] = Call("clip", None, acked) /\ todo'[2] = Call("origin", None, acked)
         /\ UNCHANGED <<rows, adapter, coordinator, ordinal, outstanding, torn>>
BY DEF Finalize, FinalizeCalls, BaseInv, Typed

(* Every step keeps the types and what is known of the captures             *)
LEMMA BaseStep ==
  ASSUME BaseInv, LedgerAssumption, [Next]_vars
  PROVE  BaseInv'
<1>1. Typed'
  BY TypedStep
<1>2. Typed /\ KnownInv
  BY DEF BaseInv
<1>3. CASE Statement
  BY <1>1, <1>3, KnownStatement DEF BaseInv
<1>4. ASSUME NEW p \in Payloads, Ingest(p) PROVE KnownInv'
  <2> DEFINE i == <<p, next>>
  <2>1. /\ UNCHANGED <<captures, memory>>
        /\ \A n \in DOMAIN todo' : todo'[n] \in Calls /\ Fits(todo', n, i)
    BY <1>4, IngestTodo DEF adapter, coordinator
  <2> HIDE DEF i
  <2>2. ASSUME NEW n \in DOMAIN todo' PROVE KnownAt(n)'
    <3>1. todo'[n].do = "attempt" => captures[todo'[n].capture] \in {"scheduled", "retryable"}
      BY <2>1 DEF Fits, Unsaved
    <3>2. todo'[n].do \in Decisions => captures[todo'[n].capture] \in {"scheduled", "retryable"}
      BY <2>1 DEF Fits, Unsaved, Decisions
    <3>3. todo'[n].do \notin {"ask", "requested"}
      BY <2>1 DEF Fits
    <3>4. ASSUME todo'[n].do = "scheduled"
          PROVE  /\ memory'[todo'[n].capture].request = None
                 /\ \A m \in DOMAIN todo' :
                      todo'[m].do = "attempt" => todo'[m].capture # todo'[n].capture
      <4>1. captures[todo'[n].capture] = "none"
        BY <2>1, <3>4 DEF Fits
      <4>2. todo'[n].capture \in Captures
        BY <2>1, <3>4 DEF Calls, Captures, Decisions
      <4>3. memory[todo'[n].capture].request = None
        BY <1>2, <4>1, <4>2 DEF KnownInv
      <4>4. \A m \in DOMAIN todo' : todo'[m].do = "attempt" =>
              captures[todo'[m].capture] \in {"scheduled", "retryable"}
        BY <2>1 DEF Fits, Unsaved
      <4> QED BY <2>1, <4>1, <4>3, <4>4
    <3> QED BY <2>1, <3>1, <3>2, <3>3, <3>4 DEF KnownAt
  <2> QED BY <1>2, <2>1, <2>2 DEF KnownInv
<1>5. ASSUME NEW c \in Captures, captures' = captures \/ captures' = [captures EXCEPT ![c] = "requesting"],
             captures'[c] \in {"scheduled", "retryable", "requesting"}, memory' = memory,
             NEW q, NEW d \in {"requested", "retryable"},
             \A n \in DOMAIN todo' : Deciding(todo', n, c, q, d)
      PROVE  KnownInv'
  <2>1. captures \in [Captures -> Statuses]
    BY <1>2 DEF Typed
  <2>2. ASSUME NEW n \in DOMAIN todo' PROVE KnownAt(n)'
    <3>1. /\ todo'[n].capture = c
          /\ todo'[n].do \in {"attempt", "flag", "join", "fail", d}
          /\ todo'[n].do = d => n = Len(todo')
      BY <1>5 DEF Deciding
    <3> QED BY <1>5, <3>1 DEF KnownAt
  <2> QED BY <1>2, <1>5, <2>1, <2>2 DEF KnownInv
<1>6. ASSUME NEW c \in Captures, RequestAccepted(c) PROVE KnownInv'
  <2>1. memory' = memory
    BY <1>6 DEF RequestAccepted, adapter
  <2> QED BY <1>5, <1>6, <2>1, AcceptedTodo
<1>7. ASSUME NEW c \in Captures, RequestRefused(c) PROVE KnownInv'
  <2>1. memory' = memory
    BY <1>7 DEF RequestRefused, adapter
  <2> QED BY <1>5, <1>7, <2>1, RefusedTodo
<1>8. ASSUME NEW f \in Flags, ManualFlag(f) PROVE KnownInv'
  <2>1. UNCHANGED <<captures, memory>>
    BY <1>8 DEF ManualFlag, adapter, coordinator
  <2>2. /\ DOMAIN todo' = 1..2 /\ todo'[1].do = "flag" /\ todo'[2].do = "ask"
        /\ todo'[1].capture = f /\ todo'[2].capture = f /\ captures[f] = "none"
    BY <1>8, FlagTodo
  <2>3. ASSUME NEW n \in 1..2 PROVE KnownAt(n)'
    <3>1. n = 1 \/ n = 2
      OBVIOUS
    <3>2. todo'[n].do \in {"flag", "ask"} /\ todo'[n].capture = f
      BY <2>2, <3>1
    <3> QED BY <2>1, <2>2, <3>2 DEF KnownAt, Decisions
  <2> QED BY <1>2, <2>1, <2>2, <2>3 DEF KnownInv
<1>9. CASE Discover
  <2>1. UNCHANGED <<captures, memory, todo>>
    BY <1>9 DEF Discover, adapter, coordinator
  <2>2. ASSUME NEW n \in DOMAIN todo PROVE KnownAt(n)'
    <3>1. KnownAt(n)
      BY <1>2 DEF KnownInv
    <3> QED BY <2>1, <3>1 DEF KnownAt
  <2>3. \A c \in Captures : captures'[c] = "none" => memory'[c].request = None
    BY <1>2, <2>1 DEF KnownInv
  <2> QED BY <1>1, <2>1, <2>2, <2>3 DEF KnownInv, BaseInv
<1>10. CASE Finalize
  <2>1. /\ UNCHANGED <<captures, memory>> /\ DOMAIN todo' = 1..2
        /\ todo'[1].do = "clip" /\ todo'[2].do = "origin"
    BY <1>10, FinalizeTodo DEF Call, adapter, coordinator
  <2>2. \A n \in 1..2 : todo'[n].do \in {"clip", "origin"}
    BY <2>1
  <2>3. ASSUME NEW n \in 1..2 PROVE KnownAt(n)'
    BY <2>1, <2>2 DEF KnownAt, Decisions
  <2>4. \A c \in Captures : captures'[c] = "none" => memory'[c].request = None
    BY <1>2, <2>1 DEF KnownInv
  <2> QED BY <1>1, <2>1, <2>3, <2>4 DEF KnownInv, BaseInv
<1>11. CASE Restart
  <2>1. /\ memory' = [c \in Captures |-> Unknown] /\ todo' = <<>>
    BY <1>11 DEF Restart
  <2> QED BY <1>1, <2>1 DEF KnownInv, Unknown, BaseInv
<1>12. CASE UNCHANGED vars
  <2>1. UNCHANGED <<captures, memory, todo>>
    BY <1>12 DEF vars, adapter, coordinator
  <2>2. ASSUME NEW n \in DOMAIN todo PROVE KnownAt(n)'
    <3>1. KnownAt(n)
      BY <1>2 DEF KnownInv
    <3> QED BY <2>1, <3>1 DEF KnownAt
  <2>3. \A c \in Captures : captures'[c] = "none" => memory'[c].request = None
    BY <1>2, <2>1 DEF KnownInv
  <2> QED BY <1>1, <2>1, <2>2, <2>3 DEF KnownInv, BaseInv
<1> QED BY <1>1, <1>3, <1>4, <1>6, <1>7, <1>8, <1>9, <1>10, <1>11, <1>12 DEF Next, BaseInv

(* Whatever the payloads, the saves, the failures and the restarts: the     *)
(* rows and the memories have their types, the adapter remembers no attempt *)
(* of a capture that is not scheduled, and the rest of a method is about    *)
(* captures in the state it began with.                                     *)
THEOREM LedgerBase == Spec => []BaseInv
<1>1. Init => BaseInv
  <2> SUFFICES ASSUME Init PROVE KnownInv
    BY TypedInit, LedgerAssumption DEF BaseInv
  <2> QED BY DEF Init, KnownInv, Unknown
<1>2. BaseInv /\ [Next]_vars => BaseInv'
  BY BaseStep, LedgerAssumption
<1> QED BY <1>1, <1>2, PTL DEF Spec

(* What a storage call changes when it commits: what its action changes and *)
(* nothing else                                                             *)
Commits ==
  /\ todo' = Tail(todo) /\ torn' = torn /\ session' = session /\ UNCHANGED recorder
  /\ IF Step.do = "snapshot" THEN RecordSnapshot ELSE UNCHANGED <<snapshots, hydrated>>
  /\ IF Step.do = "candidate" THEN CreateCandidate ELSE UNCHANGED candidates
  /\ IF Step.do = "trigger" THEN AddTrigger ELSE UNCHANGED triggers
  /\ IF Step.do = "persisted" THEN RememberCandidate ELSE UNCHANGED persisted
  /\ IF Step.do = "attempt" THEN RequestSave
     ELSE IF Step.do = "fail" THEN FailSave ELSE UNCHANGED memory
  /\ IF Step.do = "clip" THEN FinalizeClip
     ELSE Step.do \notin {"attempt", "fail"} => UNCHANGED attempts
  /\ IF Step.do = "flag" THEN CreateFlag ELSE UNCHANGED flags
  /\ IF Step.do = "join" THEN Join ELSE UNCHANGED joins
  /\ IF Step.do = "origin" THEN CompleteMetadata ELSE Step.do # "clip" => UNCHANGED clips
  /\ IF Step.do = "noted" THEN Note ELSE UNCHANGED noted
  /\ IF Step.do = "scheduled" THEN Scheduled ELSE UNCHANGED evidence
  /\ IF Step.do \in Decisions THEN Decided ELSE Step.do # "scheduled" => UNCHANGED captures

(* A storage call commits, or the method ends and nothing else changes.     *)
LEMMA StatementCommits ==
  ASSUME Typed, Statement
  PROVE  \/ Commits
         \/ /\ todo' = <<>> /\ torn' = torn \cup {memory[c].request : c \in Upserted}
            /\ UNCHANGED <<rows, adapter, coordinator, recorder>>
<1>1. CASE Refused \/ CallFails
  BY <1>1 DEF Refused, CallFails, Abort
<1>2. CASE RecordSnapshot \/ CreateCandidate \/ AddTrigger
  BY <1>2 DEF RecordSnapshot, CreateCandidate, AddTrigger, Doing, Commits, Decisions, Continue,
    adapter, coordinator, recorder
<1>3. CASE RememberCandidate \/ RequestSave \/ CreateFlag \/ Join
  BY <1>3 DEF RememberCandidate, RequestSave, CreateFlag, Join, Doing, Commits, Decisions,
    Continue, rows, adapter, coordinator, recorder
<1>4. CASE FailSave \/ FinalizeClip \/ CompleteMetadata
  BY <1>4 DEF FailSave, FinalizeClip, CompleteMetadata, Doing, Commits, Decisions, Continue,
    adapter, coordinator, recorder
<1>5. CASE Note \/ Scheduled \/ Processed \/ Disarm
  BY <1>5 DEF Note, Scheduled, Disarm, Processed, Doing, Commits, Decisions, Continue, rows, adapter,
    recorder
<1>6. CASE Decided
  BY <1>6 DEF Decided, Commits, Decisions, Continue, rows, adapter, recorder
<1> QED BY <1>1, <1>2, <1>3, <1>4, <1>5, <1>6 DEF Statement

(* Only request_save gives a capture another attempt, only fail_save fails  *)
(* the attempt it remembers                                                 *)
LEMMA MemoryKept ==
  ASSUME Typed, todo # <<>>, Commits
  PROVE  /\ Step.do \in {"attempt", "fail"} => Capture \in Captures
         /\ Step.do = "attempt" => Step.arg \in Requests
         /\ \A c \in Captures :
              /\ IF Step.do = "attempt" /\ c = Capture
                 THEN memory'[c].request = Step.arg /\ ~memory'[c].failed
                 ELSE memory'[c].request = memory[c].request
              /\ Step.do = "fail" /\ c = Capture => memory'[c].failed
              /\ Step.do \notin {"attempt", "fail"} \/ c # Capture => memory'[c] = memory[c]
<1>1. memory \in [Captures -> MemoryRows]
  BY DEF Typed
<1>2. CASE Step.do = "attempt"
  <2>1. PICK m \in MemoryRows :
          /\ Capture \in Captures /\ Step.arg \in Requests
          /\ memory' = [memory EXCEPT ![Capture] = m] /\ m.request = Step.arg /\ ~m.failed
    BY <1>2, RequestSaveRows DEF Commits
  <2> QED BY <1>1, <1>2, <2>1
<1>3. CASE Step.do = "fail"
  <2> DEFINE m == [memory[Capture] EXCEPT !.failed = TRUE]
  <2>1. /\ Capture \in Captures /\ m \in MemoryRows /\ m.request = memory[Capture].request
        /\ m.failed /\ memory' = [memory EXCEPT ![Capture] = m]
    BY <1>3, FailSaveRows DEF Commits
  <2> HIDE DEF m
  <2> QED BY <1>1, <1>3, <2>1
<1>4. CASE Step.do \notin {"attempt", "fail"}
  BY <1>4 DEF Commits
<1> QED BY <1>2, <1>3, <1>4

(* A committed call keeps what a scheduled round and a requested capture    *)
(* are traced by                                                            *)
LEMMA TraceCommits ==
  ASSUME BaseInv, TraceInv, todo # <<>>, Commits
  PROVE  TraceInv'
<1>1. Typed /\ KnownInv /\ todo \in Seq(Calls) /\ todo' = Tail(todo)
  BY DEF BaseInv, Typed, Commits
<1>2. /\ 1 \in DOMAIN todo /\ Step = todo[1]
      /\ \A n \in DOMAIN todo' :
           /\ n + 1 \in DOMAIN todo /\ n + 1 # 1 /\ todo'[n] = todo[n + 1]
           /\ Before(todo, n + 1) = Before(todo', n) \cup {Step}
           /\ \A do, c : Follows(todo, n + 1, do, c) =>
                IF n = 1 THEN Step.do = do /\ Capture = c ELSE Follows(todo', n, do, c)
  BY <1>1, Shift
<1>3. TraceAt(1) /\ KnownAt(1) /\ Before(todo, 1) = {}
  BY <1>1, <1>2 DEF TraceInv, KnownInv, Before
<1>4. \A n \in DOMAIN todo' : TraceAt(n + 1)
  BY <1>2 DEF TraceInv
<1>5. Capture = todo[1].capture
  BY <1>2 DEF Capture
<1>6. \A c \in Captures : Joined(c) /\ ~(Step.do = "attempt" /\ c = Capture) => Joined(c)'
  BY <1>1, MemoryKept DEF Joined, Commits, Join
<1>7. \A c \in Captures : Step.do = "join" /\ c = Capture => Joined(c)'
  BY <1>1, MemoryKept, StepTypes DEF Joined, Commits, Join
<1>8. /\ \A r : HasCandidate(r) => HasCandidate(r)'
      /\ \A r : Step.do = "candidate" /\ r = Capture => HasCandidate(r)'
  <2>1. candidates \subseteq candidates' /\ session' = session
    BY DEF Commits, CreateCandidate
  <2> DEFINE e == [session |-> session, round |-> Capture, kind |-> Trigger(Step.arg),
                   first |-> Step.arg]
  <2>2. Step.do = "candidate" => e \in candidates'
    BY DEF Commits, CreateCandidate
  <2>3. e.session = session /\ e.round = Capture
    OBVIOUS
  <2> HIDE DEF e
  <2> QED BY <2>1, <2>2, <2>3 DEF HasCandidate
<1>9. /\ \A r, i : HasTrigger(r, i) => HasTrigger(r, i)'
      /\ \A r, i : Step.do = "trigger" /\ r = Capture /\ i = Step.arg => HasTrigger(r, i)'
  BY DEF HasTrigger, Commits, AddTrigger, NewTrigger
<1>10. Step.do = "persisted" => Capture \in Rounds /\ Step.arg \in SUBSET Receipts
  BY <1>1, StepTypes
<1>11. /\ \A r \in Rounds : persisted[r] \subseteq persisted'[r]
       /\ Step.do = "persisted" => persisted' = [persisted EXCEPT ![Capture] = @ \cup Step.arg]
       /\ Step.do # "persisted" => persisted' = persisted
  BY <1>1, <1>10 DEF Typed, Commits, RememberCandidate
<1>12. ASSUME NEW c \in Captures, captures'[c] = "requested" PROVE Joined(c)'
  <2>1. CASE captures[c] = "requested"
    <3>1. ~(Step.do = "attempt" /\ c = Capture)
      BY <1>3, <1>5, <1>2, <2>1 DEF KnownAt
    <3> QED BY <1>6, <2>1, <3>1 DEF TraceInv, Requested
  <2>2. CASE captures[c] # "requested"
    <3>1. Step.do = "requested" /\ c = Capture
      BY <1>1, <1>12, <2>2 DEF Commits, Decided, Scheduled, Typed, Decisions
    <3>2. Joined(c)
      BY <1>2, <1>3, <1>5, <3>1 DEF TraceAt
    <3> QED BY <1>6, <3>1, <3>2
  <2> QED BY <2>1, <2>2
<1>13. ASSUME NEW r \in Rounds, captures'[r] # "none"
       PROVE  evidence'[r] # {} /\ evidence'[r] \subseteq persisted'[r]
  <2>1. CASE Step.do = "scheduled" /\ r = Capture
    <3>1. evidence'[r] = Step.arg
      BY <1>1, <2>1 DEF Commits, Scheduled, Typed
    <3>2. Step.arg # {} /\ Step.arg \subseteq persisted[r]
      BY <1>2, <1>3, <1>5, <2>1 DEF TraceAt
    <3> QED BY <1>11, <3>1, <3>2
  <2>2. CASE ~(Step.do = "scheduled" /\ r = Capture)
    <3>1. evidence'[r] = evidence[r]
      BY <1>1, <2>2 DEF Commits, Scheduled, Typed
    <3>2. captures'[r] # captures[r] => Step.do \in Decisions /\ r = Capture
      BY <1>1, <2>2 DEF Commits, Scheduled, Decided, Typed, Captures
    <3>3. captures[r] # "none"
      BY <1>2, <1>3, <1>5, <1>13, <3>2 DEF KnownAt
    <3> QED BY <1>11, <3>1, <3>3 DEF TraceInv
  <2> QED BY <2>1, <2>2
<1>14. ASSUME NEW r \in Rounds, NEW i \in persisted'[r]
       PROVE  HasCandidate(r)' /\ HasTrigger(r, i)'
  <2>1. CASE i \in persisted[r]
    BY <1>8, <1>9, <2>1 DEF TraceInv
  <2>2. CASE i \notin persisted[r]
    <3>1. Step.do = "persisted" /\ r = Capture /\ i \in Step.arg
      BY <1>1, <1>10, <1>11, <1>14, <2>2 DEF Typed
    <3>2. HasCandidate(r) /\ HasTrigger(r, i)
      BY <1>2, <1>3, <1>5, <3>1 DEF TraceAt, Made, MadeOf
    <3> QED BY <1>8, <1>9, <3>2
  <2> QED BY <2>1, <2>2
<1>15. ASSUME NEW n \in DOMAIN todo' PROVE TraceAt(n)'
  <2> PICK c, arg : c = todo'[n].capture /\ arg = todo'[n].arg
    OBVIOUS
  <2>0. todo'[n].do \in Decisions => c \in Captures
    <3>1. todo'[n] \in Calls
      BY <1>1, <1>2
    <3> QED BY <3>1 DEF Calls, Decisions
  <2>1. TraceAt(n + 1) /\ todo'[n] = todo[n + 1] /\ n + 1 # 1
    BY <1>2, <1>4
  <2>2. ASSUME todo'[n].do = "requested"
        PROVE  IF n = 1 THEN Joined(c)' ELSE Follows(todo', n, "join", c)
    <3>1. Follows(todo, n + 1, "join", c)
      BY <2>1, <2>2 DEF TraceAt
    <3> QED BY <1>2, <1>7, <2>0, <2>2, <3>1 DEF Decisions
  <2>3. ASSUME todo'[n].do = "persisted"
        PROVE  /\ HasCandidate(c)' \/ Made("candidate", c, Before(todo', n))
               /\ \A i \in arg : HasTrigger(c, i)' \/ MadeOf("trigger", c, i, Before(todo', n))
    <3>1. /\ HasCandidate(c) \/ Made("candidate", c, Before(todo, n + 1))
          /\ \A i \in arg : HasTrigger(c, i) \/ MadeOf("trigger", c, i, Before(todo, n + 1))
      BY <2>1, <2>3 DEF TraceAt
    <3>2. Made("candidate", c, Before(todo, n + 1)) =>
            (Step.do = "candidate" /\ Capture = c) \/ Made("candidate", c, Before(todo', n))
      BY <1>2 DEF Made, Capture
    <3>3. \A i \in arg : MadeOf("trigger", c, i, Before(todo, n + 1)) =>
            \/ Step.do = "trigger" /\ Capture = c /\ Step.arg = i
            \/ MadeOf("trigger", c, i, Before(todo', n))
      BY <1>2 DEF MadeOf, Capture
    <3> QED BY <1>8, <1>9, <3>1, <3>2, <3>3
  <2>4. ASSUME todo'[n].do = "scheduled", NEW i \in arg
        PROVE  \/ i \in persisted'[c]
               \/ \E call \in Before(todo', n) :
                    call.do = "persisted" /\ call.capture = c /\ i \in call.arg
    <3>1. \/ i \in persisted[c]
          \/ \E call \in Before(todo, n + 1) :
               call.do = "persisted" /\ call.capture = c /\ i \in call.arg
      BY <2>1, <2>4 DEF TraceAt
    <3>2. c \in Rounds
      <4>1. todo'[n] \in Calls
        BY <1>1, <2>1, <1>2
      <4> QED BY <2>4, <4>1 DEF Calls, Decisions
    <3>3. Step.do = "persisted" /\ Capture = c /\ i \in Step.arg => i \in persisted'[c]
      BY <1>1, <1>10, <1>11 DEF Typed
    <3> QED BY <1>2, <1>11, <3>1, <3>2, <3>3 DEF Capture
  <2>5. todo'[n].do = "scheduled" => arg # {}
    BY <2>1 DEF TraceAt
  <2> QED BY <2>2, <2>3, <2>4, <2>5 DEF TraceAt
<1> QED BY <1>12, <1>13, <1>14, <1>15 DEF TraceInv, Requested

(* Every step keeps what a capture is traced by                             *)
LEMMA TraceStep ==
  ASSUME BaseInv, TraceInv, LedgerAssumption, [Next]_vars
  PROVE  TraceInv'
<1>1. Typed /\ KnownInv
  BY DEF BaseInv
<1>2. ASSUME UNCHANGED <<rows, adapter, captures, evidence>>, \A n \in DOMAIN todo' : TraceAt(n)'
      PROVE  TraceInv'
  <2>1. /\ UNCHANGED <<session, candidates, triggers, joins, persisted, captures, evidence>>
        /\ \A c : memory'[c] = memory[c]
    BY <1>2 DEF rows, adapter
  <2>2. \A c : Joined(c)' <=> Joined(c)
    BY <2>1 DEF Joined
  <2>3. \A r : HasCandidate(r)' <=> HasCandidate(r)
    BY <2>1 DEF HasCandidate
  <2>4. \A r, i : HasTrigger(r, i)' <=> HasTrigger(r, i)
    BY <2>1 DEF HasTrigger
  <2> QED BY <1>2, <2>1, <2>2, <2>3, <2>4 DEF TraceInv, Requested
<1>3. CASE Statement
  <2>1. CASE Commits
    BY <1>1, <1>3, <2>1, TraceCommits, StatementTodo
  <2>2. CASE todo' = <<>> /\ UNCHANGED <<rows, adapter, coordinator, recorder>>
    BY <1>2, <2>2 DEF coordinator
  <2> QED BY <1>1, <1>3, <2>1, <2>2, StatementCommits
<1>4. ASSUME NEW p \in Payloads, Ingest(p) PROVE TraceInv'
  <2> DEFINE i == <<p, next>>
  <2>1. /\ UNCHANGED <<rows, adapter, coordinator>>
        /\ \A n \in DOMAIN todo' : Fits(todo', n, i)
    BY <1>4, IngestTodo
  <2> HIDE DEF i
  <2>2. UNCHANGED <<session, candidates, triggers, persisted, captures, evidence>>
    BY <2>1 DEF rows, adapter, coordinator
  <2>3. ASSUME NEW n \in DOMAIN todo' PROVE TraceAt(n)'
    <3> PICK c, arg : c = todo'[n].capture /\ arg = todo'[n].arg
      OBVIOUS
    <3>1. todo'[n] \in Calls /\ Fits(todo', n, i)
      BY <1>4, <2>1, IngestTodo
    <3>2. todo'[n].do # "requested"
      BY <3>1 DEF Fits
    <3>3. ASSUME todo'[n].do = "persisted"
          PROVE  /\ HasCandidate(c)' \/ Made("candidate", c, Before(todo', n))
                 /\ \A j \in arg : HasTrigger(c, j)' \/ MadeOf("trigger", c, j, Before(todo', n))
      <4>1. c \in Rounds
        BY <3>1, <3>3 DEF Calls, Decisions
      <4>2. \A j \in persisted[c] : HasCandidate(c) /\ HasTrigger(c, j)
        BY <4>1 DEF TraceInv
      <4>3. \A j : HasCandidate(c)' = HasCandidate(c) /\ HasTrigger(c, j)' = HasTrigger(c, j)
        BY <2>2 DEF HasCandidate, HasTrigger
      <4>4. /\ persisted[c] # {} \/ Made("candidate", c, Before(todo', n))
            /\ \A j \in arg : j \in persisted[c] \/ MadeOf("trigger", c, j, Before(todo', n))
        BY <3>1, <3>3 DEF Fits
      <4> QED BY <4>2, <4>3, <4>4
    <3>4. ASSUME todo'[n].do = "scheduled"
          PROVE  /\ arg # {}
                 /\ \A j \in arg :
                      \/ j \in persisted'[c]
                      \/ \E call \in Before(todo', n) :
                           call.do = "persisted" /\ call.capture = c /\ j \in call.arg
      BY <2>2, <3>1, <3>4 DEF Fits
    <3> QED BY <3>2, <3>3, <3>4 DEF TraceAt
  <2> QED BY <1>2, <2>1, <2>2, <2>3
<1>5. ASSUME NEW c \in Captures, UNCHANGED <<rows, adapter, evidence>>,
             captures' = captures \/ captures' = [captures EXCEPT ![c] = "requesting"],
             NEW q, NEW d \in {"requested", "retryable"},
             captures[c] # "none" \/ c \in Flags,
             \A n \in DOMAIN todo' : Deciding(todo', n, c, q, d)
      PROVE  TraceInv'
  <2>1. /\ UNCHANGED <<session, candidates, triggers, joins, persisted, memory, evidence>>
    BY <1>5 DEF rows, adapter
  <2>2. ASSUME NEW n \in DOMAIN todo' PROVE TraceAt(n)'
    <3>1. /\ todo'[n].capture = c
          /\ todo'[n].do \in {"attempt", "flag", "join", "fail", d}
          /\ todo'[n].do = "requested" => n > 1 /\ Follows(todo', n, "join", c)
      BY <1>5 DEF Deciding
    <3> QED BY <3>1 DEF TraceAt
  <2>3. captures \in [Captures -> Statuses]
    BY <1>1 DEF Typed
  <2>4. \A x \in Captures : captures'[x] = "requested" => captures[x] = "requested"
    BY <1>5, <2>3
  <2>5. \A r \in Rounds : captures'[r] # "none" => captures[r] # "none"
    BY <1>5, <2>3 DEF LedgerAssumption, Captures
  <2>6. \A x : Joined(x)' <=> Joined(x)
    BY <2>1 DEF Joined
  <2>7. \A r, i : (HasCandidate(r)' <=> HasCandidate(r)) /\ (HasTrigger(r, i)' <=> HasTrigger(r, i))
    BY <2>1 DEF HasCandidate, HasTrigger
  <2> QED BY <2>1, <2>2, <2>4, <2>5, <2>6, <2>7 DEF TraceInv, Requested
<1>6. ASSUME NEW c \in Captures, RequestAccepted(c) PROVE TraceInv'
  <2>1. captures[c] # "none" \/ c \in Flags
    BY <1>6, RequestFits DEF RequestAccepted
  <2> QED BY <1>5, <1>6, <2>1, AcceptedTodo
<1>7. ASSUME NEW c \in Captures, RequestRefused(c) PROVE TraceInv'
  <2>1. captures[c] # "none" \/ c \in Flags
    BY <1>7, RequestFits DEF RequestRefused
  <2> QED BY <1>5, <1>7, <2>1, RefusedTodo
<1>8. ASSUME NEW f \in Flags, ManualFlag(f) PROVE TraceInv'
  <2>1. /\ UNCHANGED <<rows, adapter, coordinator>> /\ DOMAIN todo' = 1..2
        /\ todo'[1].do = "flag" /\ todo'[2].do = "ask"
    BY <1>8, FlagTodo
  <2>2. \A n \in 1..2 : todo'[n].do \in {"flag", "ask"}
    BY <2>1
  <2>3. \A n \in DOMAIN todo' : TraceAt(n)'
    BY <2>1, <2>2 DEF TraceAt
  <2> QED BY <1>2, <2>1, <2>3 DEF coordinator
<1>9. CASE Finalize
  <2>1. /\ UNCHANGED <<rows, adapter, coordinator>> /\ DOMAIN todo' = 1..2
        /\ todo'[1].do = "clip" /\ todo'[2].do = "origin"
    BY <1>9, FinalizeTodo DEF Call
  <2>2. \A n \in 1..2 : todo'[n].do \in {"clip", "origin"}
    BY <2>1
  <2>3. \A n \in DOMAIN todo' : TraceAt(n)'
    BY <2>1, <2>2 DEF TraceAt
  <2> QED BY <1>2, <2>1, <2>3 DEF coordinator
<1>10. CASE Discover \/ UNCHANGED vars
  <2>1. UNCHANGED <<rows, adapter, coordinator, todo>>
    BY <1>10 DEF Discover, vars
  <2>2. UNCHANGED <<session, candidates, triggers, joins, persisted, memory, todo>>
    BY <2>1 DEF rows, adapter
  <2>3. ASSUME NEW n \in DOMAIN todo' PROVE TraceAt(n)'
    <3>1. TraceAt(n)
      BY <2>2 DEF TraceInv
    <3> QED BY <2>2, <3>1 DEF TraceAt, Joined, HasCandidate, HasTrigger
  <2> QED BY <1>2, <2>1, <2>3 DEF coordinator
<1>11. CASE Restart
  <2>1. /\ captures' = [c \in Captures |-> "none"] /\ todo' = <<>>
        /\ persisted' = [r \in Rounds |-> {}]
    BY <1>11 DEF Restart
  <2>2. \A r \in Rounds : captures'[r] = "none"
    BY <2>1 DEF Captures
  <2> QED BY <2>1, <2>2 DEF TraceInv, Requested
<1> QED BY <1>3, <1>4, <1>6, <1>7, <1>8, <1>9, <1>10, <1>11 DEF Next

(* A Clip can be traced from its capture, for any payloads, whichever       *)
(* storage call fails and wherever the daemon is restarted: upsert_capture  *)
(* sets the status after the last commit, and persist_candidate remembers a *)
(* receipt after its trigger.                                               *)
THEOREM LedgerTraceable == Spec => [](TraceInv /\ CaptureIsTraceable)
<1>1. Init => TraceInv
  <2> SUFFICES ASSUME Init PROVE TraceInv
    OBVIOUS
  <2>1. /\ captures = [c \in Captures |-> "none"] /\ todo = <<>>
        /\ persisted = [r \in Rounds |-> {}]
    BY DEF Init
  <2>2. \A r \in Rounds : captures[r] = "none"
    BY <2>1 DEF Captures
  <2> QED BY <2>1, <2>2 DEF TraceInv, Requested
<1>2. BaseInv /\ TraceInv /\ [Next]_vars => TraceInv'
  BY TraceStep, LedgerAssumption
<1>3. TraceInv => CaptureIsTraceable
  BY DEF TraceInv, CaptureIsTraceable, Joined, HasCandidate, HasTrigger
<1> QED BY <1>1, <1>2, <1>3, LedgerBase, PTL DEF Spec

(* A committed call keeps what is known of the attempts of captures that    *)
(* wait                                                                     *)
LEMMA TornCommits ==
  ASSUME BaseInv, TornInv, todo # <<>>, Commits
  PROVE  TornInv'
<1>1. Typed /\ KnownInv /\ todo \in Seq(Calls) /\ todo' = Tail(todo) /\ torn' = torn
  BY DEF BaseInv, Typed, Commits
<1>2. /\ 1 \in DOMAIN todo /\ Step = todo[1] /\ DOMAIN todo = 1..Len(todo) /\ Len(todo) \in Nat
      /\ DOMAIN todo' = 1..(Len(todo) - 1)
      /\ \A n \in DOMAIN todo' :
           /\ n \in Nat \ {0} /\ n + 1 \in DOMAIN todo /\ n + 1 # 1 /\ todo'[n] = todo[n + 1]
           /\ After(todo', n) = After(todo, n + 1)
           /\ \A do, c : Follows(todo, n + 1, do, c) =>
                IF n = 1 THEN Step.do = do /\ Capture = c ELSE Follows(todo', n, do, c)
  BY <1>1, Shift
<1>3. TornAt(1) /\ KnownAt(1)
  BY <1>1, <1>2 DEF TornInv, KnownInv
<1>4. Capture = todo[1].capture
  BY <1>2 DEF Capture
<1>5. \A n \in DOMAIN todo : n = 1 \/ \E m \in DOMAIN todo' : todo'[m] = todo[n]
  <2> SUFFICES ASSUME NEW n \in DOMAIN todo, n # 1 PROVE \E m \in DOMAIN todo' : todo'[m] = todo[n]
    OBVIOUS
  <2>1. n - 1 \in DOMAIN todo' /\ (n - 1) + 1 = n
    BY <1>2
  <2> QED BY <1>2, <2>1
<1>6. ASSUME NEW c \in Captures, c \in Upserted, ~(Step.do \in Decisions /\ c = Capture)
      PROVE  c \in Upserted'
  <2>1. PICK n \in DOMAIN todo : todo[n].do \in Decisions /\ todo[n].capture = c
    BY <1>6 DEF Upserted, Decisions
  <2>2. n # 1
    BY <1>2, <1>4, <1>6, <2>1
  <2>3. PICK m \in DOMAIN todo' : todo'[m] = todo[n]
    BY <1>5, <2>2
  <2> QED BY <2>1, <2>3 DEF Upserted, Decisions
<1>7. ASSUME NEW c \in Captures, captures'[c] \in {"scheduled", "retryable"},
             memory'[c].request # None
      PROVE  memory'[c].failed \/ memory'[c].request \in torn' \/ c \in Upserted'
  <2>1. CASE Step.do = "attempt" /\ c = Capture
    <3>1. PICK d \in Decisions : Made(d, c, After(todo, 1))
      BY <1>2, <1>3, <1>4, <2>1 DEF TornAt
    <3>2. PICK m \in 2..Len(todo) : todo[m].do = d /\ todo[m].capture = c
      BY <3>1 DEF Made, After
    <3>3. m \in DOMAIN todo /\ m # 1
      BY <1>2
    <3> QED BY <1>5, <3>2, <3>3 DEF Upserted, Decisions
  <2>2. CASE Step.do = "fail" /\ c = Capture
    BY <1>1, <2>2, MemoryKept
  <2>3. CASE Step.do \notin {"attempt", "fail"} \/ c # Capture
    <3>1. memory'[c] = memory[c]
      BY <1>1, <2>3, MemoryKept
    <3>2. CASE Step.do = "retryable" /\ c = Capture
      BY <1>2, <1>3, <1>4, <3>1, <3>2 DEF TornAt
    <3>3. CASE Step.do = "scheduled" /\ c = Capture
      BY <1>2, <1>3, <1>4, <1>7, <3>1, <3>3 DEF KnownAt
    <3>4. CASE ~(Step.do \in Decisions /\ c = Capture) /\ ~(Step.do = "scheduled" /\ c = Capture)
      <4>1. captures'[c] = captures[c]
        BY <1>1, <3>4 DEF Commits, Decided, Scheduled, Typed
      <4> QED BY <1>1, <1>6, <1>7, <3>1, <3>4, <4>1 DEF TornInv
    <3>5. CASE Step.do \in {"requested", "cancelled"} /\ c = Capture
      BY <1>1, <1>7, <3>5 DEF Commits, Decided, Typed, Decisions
    <3> QED BY <3>2, <3>3, <3>4, <3>5 DEF Decisions
  <2> QED BY <2>1, <2>2, <2>3
<1>9. Len(todo') = Len(todo) - 1
  BY <1>1, Shift
<1>8. ASSUME NEW n \in DOMAIN todo' PROVE TornAt(n)'
  <2> PICK c : c = todo'[n].capture
    OBVIOUS
  <2>1. TornAt(n + 1) /\ todo'[n] = todo[n + 1] /\ n + 1 # 1
    BY <1>2 DEF TornInv
  <2>2. ASSUME todo'[n].do = "retryable"
        PROVE  IF n = 1 THEN memory'[c].failed ELSE Follows(todo', n, "fail", c)
    <3>1. Follows(todo, n + 1, "fail", c)
      BY <2>1, <2>2 DEF TornAt
    <3>2. c \in Captures
      <4>1. todo'[n] \in Calls
        BY <1>1, <1>2
      <4> QED BY <2>2, <4>1 DEF Calls, Decisions
    <3>3. Step.do = "fail" /\ c = Capture => memory'[c].failed
      BY <1>1, <3>2, MemoryKept
    <3> QED BY <1>2, <3>1, <3>3
  <2>3. todo'[n].do = "attempt" => \E d \in Decisions : Made(d, c, After(todo', n))
    BY <1>2, <2>1 DEF TornAt
  <2>4. todo'[n].do = "ask" => n = Len(todo')
    BY <1>2, <1>9, <2>1 DEF TornAt
  <2> QED BY <2>2, <2>3, <2>4 DEF TornAt
<1> QED BY <1>7, <1>8 DEF TornInv

(* Nothing but the question to the recorder waits when a save is found      *)
LEMMA QuietTodo ==
  ASSUME BaseInv, TornInv, todo = <<>> \/ Doing("ask")
  PROVE  \A n \in DOMAIN todo : todo[n].do = "ask"
<1>1. CASE todo = <<>>
  BY <1>1
<1>2. CASE Doing("ask")
  <2>1. todo \in Seq(Calls) /\ todo # <<>>
    BY <1>2 DEF BaseInv, Typed, Doing
  <2>2. 1 \in DOMAIN todo /\ todo[1].do = "ask"
    BY <1>2, <2>1, StepTypes DEF Doing
  <2>3. Len(todo) = 1
    BY <2>2 DEF TornInv, TornAt
  <2>4. DOMAIN todo = {1}
    BY <2>1, <2>3
  <2> QED BY <2>2, <2>4
<1> QED BY <1>1, <1>2

(* Every step keeps what is known of the attempts of captures that wait     *)
LEMMA TornStep ==
  ASSUME BaseInv, TornInv, LedgerAssumption, [Next]_vars
  PROVE  TornInv'
<1>1. Typed /\ KnownInv
  BY DEF BaseInv
<1>2. CASE Statement
  <2>1. CASE Commits
    BY <1>1, <1>2, <2>1, TornCommits, StatementTodo
  <2>2. CASE /\ todo' = <<>> /\ torn' = torn \cup {memory[c].request : c \in Upserted}
             /\ UNCHANGED <<rows, adapter, coordinator, recorder>>
    <3>1. UNCHANGED <<captures, memory>>
      BY <2>2 DEF adapter, coordinator
    <3> QED BY <2>2, <3>1 DEF TornInv
  <2> QED BY <1>1, <1>2, <2>1, <2>2, StatementCommits
<1>3. ASSUME todo = <<>> \/ Doing("ask"), UNCHANGED <<memory, torn>>,
             \A c \in Captures :
               captures'[c] \in {"scheduled", "retryable"} => captures'[c] = captures[c],
             \A n \in DOMAIN todo' : TornAt(n)'
      PROVE  TornInv'
  <2>1. Upserted = {}
    BY <1>3, QuietTodo DEF Upserted
  <2>2. ASSUME NEW c \in Captures, captures'[c] \in {"scheduled", "retryable"},
               memory'[c].request # None
        PROVE  memory'[c].failed \/ memory'[c].request \in torn'
    BY <1>3, <2>1, <2>2 DEF TornInv
  <2> QED BY <1>3, <2>2 DEF TornInv
<1>4. ASSUME NEW p \in Payloads, Ingest(p) PROVE TornInv'
  <2> DEFINE i == <<p, next>>
  <2>1. /\ UNCHANGED <<adapter, coordinator, torn>> /\ todo = <<>>
        /\ \A n \in DOMAIN todo' : Fits(todo', n, i)
    BY <1>4, IngestTodo
  <2> HIDE DEF i
  <2>2. \A n \in DOMAIN todo' : TornAt(n)'
    BY <2>1 DEF TornAt, Fits, Decisions
  <2> QED BY <1>3, <2>1, <2>2 DEF adapter, coordinator
<1>5. ASSUME NEW c \in Captures, UNCHANGED <<memory, torn>>, todo = <<>> \/ Doing("ask"),
             captures' = captures \/ captures' = [captures EXCEPT ![c] = "requesting"],
             NEW q, NEW d \in {"requested", "retryable"},
             \A n \in DOMAIN todo' : Deciding(todo', n, c, q, d)
      PROVE  TornInv'
  <2>1. ASSUME NEW n \in DOMAIN todo' PROVE TornAt(n)'
    <3>1. /\ todo'[n].capture = c
          /\ todo'[n].do \in {"attempt", "flag", "join", "fail", d}
          /\ todo'[n].do = "retryable" => n > 1 /\ Follows(todo', n, "fail", c)
          /\ todo'[n].do = "attempt" => Made(d, c, After(todo', n))
      BY <1>5 DEF Deciding
    <3> QED BY <3>1 DEF TornAt, Decisions
  <2>2. captures \in [Captures -> Statuses]
    BY <1>1 DEF Typed
  <2>3. \A x \in Captures : captures'[x] \in {"scheduled", "retryable"} => captures'[x] = captures[x]
    BY <1>5, <2>2
  <2> QED BY <1>3, <1>5, <2>1, <2>3
<1>6. ASSUME NEW c \in Captures, RequestAccepted(c) PROVE TornInv'
  <2>1. UNCHANGED <<memory, torn>> /\ (todo = <<>> \/ Doing("ask"))
    BY <1>6 DEF RequestAccepted, CanRequest, Idle, adapter
  <2> QED BY <1>5, <1>6, <2>1, AcceptedTodo
<1>7. ASSUME NEW c \in Captures, RequestRefused(c) PROVE TornInv'
  <2>1. UNCHANGED <<memory, torn>> /\ (todo = <<>> \/ Doing("ask"))
    BY <1>7 DEF RequestRefused, CanRequest, Idle, adapter
  <2> QED BY <1>5, <1>7, <2>1, RefusedTodo
<1>8. ASSUME NEW f \in Flags, ManualFlag(f) PROVE TornInv'
  <2>1. /\ UNCHANGED <<adapter, coordinator, torn>> /\ todo = <<>>
        /\ todo' = <<Call("flag", f, None), Call("ask", f, None)>> /\ DOMAIN todo' = 1..2
        /\ todo'[1].do = "flag" /\ todo'[2].do = "ask"
    BY <1>8, FlagTodo DEF ManualFlag, Idle
  <2>2. Len(todo') = 2
    BY <2>1
  <2>3. ASSUME NEW n \in DOMAIN todo' PROVE TornAt(n)'
    BY <2>1, <2>2 DEF TornAt
  <2> QED BY <1>3, <2>1, <2>3 DEF adapter, coordinator
<1>9. CASE Finalize
  <2>1. /\ UNCHANGED <<adapter, coordinator, torn>> /\ todo = <<>> /\ DOMAIN todo' = 1..2
        /\ todo'[1].do = "clip" /\ todo'[2].do = "origin"
    BY <1>9, FinalizeTodo DEF Call, Finalize, Idle
  <2>2. \A n \in 1..2 : todo'[n].do \in {"clip", "origin"}
    BY <2>1
  <2>3. \A n \in DOMAIN todo' : TornAt(n)'
    BY <2>1, <2>2 DEF TornAt
  <2> QED BY <1>3, <2>1, <2>3 DEF adapter, coordinator
<1>10. CASE Discover \/ UNCHANGED vars
  <2>1. UNCHANGED <<captures, memory, todo, torn>>
    BY <1>10 DEF Discover, vars, adapter, coordinator
  <2>2. Upserted' = Upserted
    BY <2>1 DEF Upserted
  <2>3. ASSUME NEW n \in DOMAIN todo' PROVE TornAt(n)'
    <3>1. TornAt(n)
      BY <2>1 DEF TornInv
    <3> QED BY <2>1, <3>1 DEF TornAt
  <2> QED BY <2>1, <2>2, <2>3 DEF TornInv
<1>11. CASE Restart
  <2>1. captures' = [c \in Captures |-> "none"] /\ todo' = <<>>
    BY <1>11 DEF Restart
  <2> QED BY <2>1 DEF TornInv
<1> QED BY <1>2, <1>4, <1>6, <1>7, <1>8, <1>9, <1>10, <1>11 DEF Next

(* A capture that waits for the recorder remembers an attempt that has      *)
(* failed or one of an upsert that stopped halfway, so that the next        *)
(* ensure_attempt takes the request the recorder gives.                     *)
THEOREM LedgerTorn == Spec => []TornInv
<1>1. Init => TornInv
  BY DEF Init, TornInv
<1>2. BaseInv /\ TornInv /\ [Next]_vars => TornInv'
  BY TornStep, LedgerAssumption
<1> QED BY <1>1, <1>2, LedgerBase, PTL DEF Spec

(* Between methods, a waiting capture with an attempt to use again is one   *)
(* whose upsert stopped halfway: ensure_attempt gives the recorder's        *)
(* request to every other.                                                  *)
LEMMA QuietTorn ==
  ASSUME BaseInv, TornInv, todo = <<>> \/ Doing("ask")
  PROVE  \A c \in Captures : captures[c] \in {"scheduled", "retryable"} /\ Reused(c) =>
           memory[c].request \in torn
<1>1. Upserted = {}
  BY QuietTodo DEF Upserted
<1> QED BY <1>1 DEF TornInv, Reused

(* The recorder's request ids and the made-up ones are different            *)
LEMMA RequestKinds ==
  ASSUME LedgerAssumption
  PROVE  /\ Fresh \cap Synthetic = {} /\ None \notin Requests
         /\ \A c, g : <<c, 0, g>> \in Requests => <<c, 0, g>> \in Synthetic
<1>1. \A q \in Fresh : q \in Captures \X (1..MaxRequests)
  BY DEF Fresh
<1>2. \A q \in Fresh : Len(q) = 2
  BY <1>1
<1>3. \A q \in Synthetic : Len(q) = 3
  BY DEF Synthetic
<1>4. \A c, g : Len(<<c, 0, g>>) = 3
  OBVIOUS
<1> QED BY <1>2, <1>3, <1>4 DEF Requests, LedgerAssumption

(* What a committed call may do to a save attempt                           *)
LEMMA AttemptsKept ==
  ASSUME Typed, LedgerAssumption, todo # <<>>, Commits
  PROVE  \A q \in Requests :
           \/ attempts'[q] = attempts[q]
           \/ /\ Step.do = "attempt" /\ attempts[q].session = 0
              /\ attempts'[q].session = session /\ attempts'[q].status = "requested"
           \/ /\ Step.do = "clip" /\ attempts'[q].session = attempts[q].session
              /\ attempts'[q].status = "saved"
           \/ /\ Step.do = "fail" /\ q = memory[Capture].request
              /\ attempts'[q].session = attempts[q].session
<1>1. attempts \in [Requests -> AttemptRows]
  BY DEF Typed
<1>2. CASE Step.do = "attempt"
  <2>1. PICK a \in AttemptRows :
          /\ Step.arg \in Requests /\ attempts' = [attempts EXCEPT ![Step.arg] = a]
          /\ IF attempts[Step.arg].session # 0 THEN a = attempts[Step.arg]
             ELSE a.session = session /\ a.status = "requested"
    BY <1>2, RequestSaveRows DEF Commits
  <2> QED BY <1>1, <1>2, <2>1
<1>3. CASE Step.do = "fail"
  <2> DEFINE q == memory[Capture].request
             a == IF attempts[q].status = "saved" THEN attempts[q]
                  ELSE [attempts[q] EXCEPT !.status = "failed"]
  <2>1. /\ q \in Requests => /\ a \in AttemptRows /\ a.session = attempts[q].session
                             /\ attempts' = [attempts EXCEPT ![q] = a]
        /\ q \notin Requests => attempts' = attempts
    BY <1>3, FailSaveRows DEF Commits
  <2> HIDE DEF a
  <2> QED BY <1>1, <1>3, <2>1
<1>4. CASE Step.do = "clip"
  <2>1. PICK a \in AttemptRows :
          LET q == Step.arg.request
          IN /\ q \in Fresh /\ attempts' = [attempts EXCEPT ![q] = a]
             /\ a.session = attempts[q].session /\ a.status = "saved"
    BY <1>4, FinalizeClipRows DEF Commits
  <2> QED BY <1>1, <1>4, <2>1 DEF Requests
<1>5. CASE Step.do \notin {"attempt", "fail", "clip"}
  BY <1>5 DEF Commits
<1> QED BY <1>2, <1>3, <1>4, <1>5

(* A committed call keeps the attempts of requested captures open           *)
LEMMA OpenCommits ==
  ASSUME BaseInv, OpenInv, LedgerAssumption, todo # <<>>, Commits
  PROVE  OpenInv'
<1>1. /\ Typed /\ KnownInv /\ todo \in Seq(Calls) /\ todo' = Tail(todo) /\ torn' = torn
      /\ session' = session /\ session \in Nat /\ session # 0
  BY DEF BaseInv, Typed, Commits
<1>2. /\ 1 \in DOMAIN todo /\ Step = todo[1]
      /\ \A n \in DOMAIN todo' :
           /\ n + 1 \in DOMAIN todo /\ todo'[n] = todo[n + 1]
           /\ Before(todo, n + 1) = Before(todo', n) \cup {Step}
  BY <1>1, Shift
<1>3. OpenAt(1) /\ KnownAt(1) /\ Before(todo, 1) = {}
  BY <1>1, <1>2 DEF OpenInv, KnownInv, Before
<1>4. Capture = todo[1].capture
  BY <1>2 DEF Capture
<1>5. \A q \in Requests : attempts'[q].session <= session'
  BY <1>1, AttemptsKept DEF OpenInv
<1>6. ASSUME NEW q \in Fresh, Own(q)', q \notin torn'
      PROVE  attempts'[q].status \in {"requested", "saved"}
  <2>1. q \in Requests
    BY DEF Requests
  <2>2. CASE Step.do = "fail" /\ q = memory[Capture].request
    <3>1. Spoilt(q)
      BY <1>2, <1>3, <1>4, <2>2 DEF OpenAt, Attempted
    <3> QED BY <1>1, <1>6, <3>1, RequestKinds DEF Spoilt
  <2>3. CASE attempts'[q] = attempts[q]
    BY <1>1, <1>6, <2>3 DEF OpenInv, Own
  <2> QED BY <1>1, <2>1, <2>2, <2>3, AttemptsKept
<1>7. ASSUME NEW c \in Captures, captures'[c] = "requested" PROVE Sound(memory[c].request)'
  <2>1. CASE captures[c] = "requested"
    <3>1. ~(Step.do = "attempt" /\ c = Capture)
      BY <1>2, <1>3, <1>4, <2>1 DEF KnownAt
    <3>2. memory'[c].request = memory[c].request
      BY <1>1, <3>1, MemoryKept
    <3> QED BY <1>1, <2>1, <3>2 DEF OpenInv, Requested, Sound
  <2>2. CASE captures[c] # "requested"
    <3>1. Step.do = "requested" /\ c = Capture
      BY <1>1, <1>7, <2>2 DEF Commits, Decided, Scheduled, Typed, Decisions
    <3>2. Sound(memory[c].request)
      BY <1>2, <1>3, <1>4, <3>1 DEF OpenAt, Attempted
    <3>3. memory'[c].request = memory[c].request
      BY <1>1, <3>1, MemoryKept
    <3> QED BY <1>1, <3>2, <3>3 DEF Sound
  <2> QED BY <2>1, <2>2
<1>8. ASSUME NEW n \in DOMAIN todo' PROVE OpenAt(n)'
  <2> PICK c : c = todo'[n].capture
    OBVIOUS
  <2>1. OpenAt(n + 1) /\ todo'[n] = todo[n + 1] /\ n + 1 \in DOMAIN todo
    BY <1>2 DEF OpenInv
  <2>2. todo'[n].do \in {"fail", "requested"} => c \in Captures
    <3>1. todo'[n] \in Calls
      BY <1>1, <1>2
    <3> QED BY <3>1 DEF Calls, Decisions
  <2>3. ASSUME todo'[n].do = "fail"
        PROVE  Spoilt(memory[c].request)' \/ Attempted(c, Synthetic, n)'
    <3>1. Spoilt(memory[c].request) \/ Attempted(c, Synthetic, n + 1)
      BY <2>1, <2>3 DEF OpenAt
    <3>2. Step.do = "attempt" => Step.arg \in Synthetic
      BY <1>2, <2>1, <2>3 DEF OpenInv, Requesting, Failing
    <3>3. CASE Step.do = "attempt" /\ Capture = c
      <4>1. memory'[c].request = Step.arg /\ Step.arg \in Requests
        BY <1>1, <2>2, <2>3, <3>3, MemoryKept
      <4> QED BY <3>2, <3>3, <4>1, RequestKinds DEF Spoilt
    <3>4. CASE ~(Step.do = "attempt" /\ Capture = c)
      <4>1. memory'[c].request = memory[c].request
        BY <1>1, <2>2, <2>3, <3>4, MemoryKept
      <4>2. Attempted(c, Synthetic, n + 1) => Attempted(c, Synthetic, n)'
        BY <1>2, <3>4 DEF Attempted, Capture
      <4> QED BY <1>1, <3>1, <4>1, <4>2 DEF Spoilt
    <3> QED BY <3>3, <3>4
  <2>4. ASSUME todo'[n].do = "requested"
        PROVE  Sound(memory[c].request)' \/ Attempted(c, Fresh, n)'
    <3>1. Sound(memory[c].request) \/ Attempted(c, Fresh, n + 1)
      BY <2>1, <2>4 DEF OpenAt
    <3>2. Step.do = "attempt" => Step.arg \in Fresh
      BY <1>2, <2>1, <2>4 DEF OpenInv, Requesting, Failing
    <3>3. CASE Step.do = "attempt" /\ Capture = c
      <4>1. memory'[c].request = Step.arg /\ Step.arg \in Requests
        BY <1>1, <2>2, <2>4, <3>3, MemoryKept
      <4> QED BY <3>2, <3>3, <4>1, RequestKinds DEF Sound
    <3>4. CASE ~(Step.do = "attempt" /\ Capture = c)
      <4>1. memory'[c].request = memory[c].request
        BY <1>1, <2>2, <2>4, <3>4, MemoryKept
      <4>2. Attempted(c, Fresh, n + 1) => Attempted(c, Fresh, n)'
        BY <1>2, <3>4 DEF Attempted, Capture
      <4> QED BY <1>1, <3>1, <4>1, <4>2 DEF Sound
    <3> QED BY <3>3, <3>4
  <2> QED BY <2>3, <2>4 DEF OpenAt
<1>9. Requesting' \/ Failing'
  BY <1>2 DEF OpenInv, Requesting, Failing
<1> QED BY <1>5, <1>6, <1>7, <1>8, <1>9 DEF OpenInv, Requested

(* Every step keeps the attempts of requested captures open                 *)
LEMMA OpenStep ==
  ASSUME BaseInv, TornInv, OpenInv, LedgerAssumption, [Next]_vars
  PROVE  OpenInv'
<1>1. Typed /\ KnownInv
  BY DEF BaseInv
<1>2. ASSUME UNCHANGED <<session, attempts, memory, torn>>,
             \A c \in Captures : captures'[c] = "requested" => captures[c] = "requested",
             \A n \in DOMAIN todo' : OpenAt(n)', Requesting' \/ Failing'
      PROVE  OpenInv'
  BY <1>2 DEF OpenInv, Requested, Sound, Own
<1>3. CASE Statement
  <2>1. CASE Commits
    BY <1>1, <1>3, <2>1, OpenCommits, StatementTodo
  <2>2. CASE /\ todo' = <<>> /\ torn' = torn \cup {memory[c].request : c \in Upserted}
             /\ UNCHANGED <<rows, adapter, coordinator, recorder>>
    <3>1. UNCHANGED <<session, attempts, captures, memory>> /\ torn \subseteq torn'
      BY <2>2 DEF rows, adapter, coordinator
    <3> QED BY <2>2, <3>1 DEF OpenInv, Requested, Sound, Own, Requesting
  <2> QED BY <1>1, <1>3, <2>1, <2>2, StatementCommits
<1>4. ASSUME NEW p \in Payloads, Ingest(p) PROVE OpenInv'
  <2> DEFINE i == <<p, next>>
  <2>1. /\ UNCHANGED <<rows, adapter, coordinator, torn>> /\ todo = <<>>
        /\ \A n \in DOMAIN todo' : Fits(todo', n, i)
    BY <1>4, IngestTodo
  <2> HIDE DEF i
  <2>2. UNCHANGED <<session, attempts, memory, captures, torn>>
    BY <2>1 DEF rows, adapter, coordinator
  <2>3. \A c \in Captures : captures[c] \in {"scheduled", "retryable"} /\ Reused(c) =>
          memory[c].request \in torn
    BY <2>1, QuietTorn
  <2>4. ASSUME NEW n \in DOMAIN todo' PROVE OpenAt(n)'
    <3> PICK c : c = todo'[n].capture
      OBVIOUS
    <3>1. todo'[n].do # "requested"
      BY <2>1 DEF Fits
    <3>2. ASSUME todo'[n].do = "fail"
          PROVE  Spoilt(memory[c].request)' \/ Attempted(c, Synthetic, n)'
      <4>1. c \in Unsaved /\ memory[c].request # None
        BY <2>1, <3>2 DEF Fits
      <4>2. memory[c].failed => Attempted(c, Synthetic, n)'
        BY <2>1, <3>2 DEF Fits, Attempted
      <4>3. ~memory[c].failed => memory[c].request \in torn
        BY <2>3, <4>1 DEF Unsaved, Captures, Reused
      <4> QED BY <2>2, <4>1, <4>2, <4>3 DEF Spoilt
    <3> QED BY <3>1, <3>2 DEF OpenAt
  <2>5. Failing'
    BY <2>1 DEF Failing, Fits
  <2> QED BY <1>2, <2>2, <2>4, <2>5
<1>5. ASSUME NEW c \in Captures, CanRequest(c)
      PROVE  Reused(c) => memory[c].request \in torn
  <2>1. todo = <<>> \/ Doing("ask")
    BY <1>5 DEF CanRequest, Idle
  <2>2. Reused(c) => captures[c] \in {"scheduled", "retryable"}
    <3>1. CASE Doing("ask")
      BY <1>5, <3>1, RequestFits DEF Reused
    <3>2. CASE ~Doing("ask")
      BY <1>5, <3>2 DEF CanRequest
    <3> QED BY <3>1, <3>2
  <2> QED BY <2>1, <2>2, QuietTorn
<1>6. ASSUME NEW c \in Captures, RequestAccepted(c) PROVE OpenInv'
  <2>1. PICK q : q = Accepted(c).request
    OBVIOUS
  <2>2. /\ q \in Fresh /\ UNCHANGED <<rows, adapter, torn>>
        /\ captures' = captures \/ captures' = [captures EXCEPT ![c] = "requesting"]
        /\ \A n \in DOMAIN todo' : Deciding(todo', n, c, q, "requested")
    BY <1>6, <2>1, AcceptedTodo
  <2>3. UNCHANGED <<session, attempts, memory, torn>>
    BY <2>2 DEF rows, adapter
  <2>4. Reused(c) => memory[c].request \in torn
    BY <1>5, <1>6 DEF RequestAccepted
  <2>5. ASSUME NEW n \in DOMAIN todo' PROVE OpenAt(n)'
    <3>1. /\ todo'[n].capture = c /\ todo'[n].do # "fail"
          /\ todo'[n].do = "requested" =>
               \/ Reused(c)
               \/ \E call \in Before(todo', n) :
                    call.do = "attempt" /\ call.capture = c /\ call.arg = q
      BY <2>2 DEF Deciding
    <3>2. Reused(c) => Sound(memory[c].request)'
      BY <2>3, <2>4 DEF Reused, Sound
    <3> QED BY <2>2, <3>1, <3>2 DEF OpenAt, Attempted
  <2>6. Requesting'
    BY <2>2 DEF Requesting, Deciding
  <2>7. \A x \in Captures : captures'[x] = "requested" => captures[x] = "requested"
    BY <1>1, <2>2 DEF Typed
  <2> QED BY <1>2, <2>3, <2>5, <2>6, <2>7
<1>7. ASSUME NEW c \in Captures, RequestRefused(c) PROVE OpenInv'
  <2>1. PICK q : q = <<c, 0, Generation(c)>>
    OBVIOUS
  <2>2. /\ Reused(c) \/ q \in Synthetic
        /\ UNCHANGED <<rows, adapter, torn>>
        /\ captures' = captures \/ captures' = [captures EXCEPT ![c] = "requesting"]
        /\ \A n \in DOMAIN todo' : todo'[n] \in Calls /\ Deciding(todo', n, c, q, "retryable")
    BY <1>7, <2>1, RefusedTodo
  <2>3. UNCHANGED <<session, attempts, memory, torn>>
    BY <2>2 DEF rows, adapter
  <2>4. Reused(c) => memory[c].request \in torn
    BY <1>5, <1>7 DEF RequestRefused
  <2>5. ASSUME NEW n \in DOMAIN todo' PROVE OpenAt(n)'
    <3>1. /\ todo'[n].capture = c /\ todo'[n].do # "requested"
          /\ todo'[n].do = "fail" =>
               \/ Reused(c)
               \/ \E call \in Before(todo', n) :
                    call.do = "attempt" /\ call.capture = c /\ call.arg = q
      BY <2>2 DEF Deciding
    <3>2. Reused(c) => Spoilt(memory[c].request)'
      BY <2>3, <2>4 DEF Reused, Spoilt
    <3> QED BY <2>2, <3>1, <3>2 DEF OpenAt, Attempted
  <2>6. ASSUME NEW n \in DOMAIN todo', todo'[n].do = "attempt" PROVE todo'[n].arg \in Synthetic
    <3>1. todo'[n].arg = q
      BY <2>2, <2>6 DEF Deciding
    <3>2. todo'[n].arg \in Requests
      BY <2>2, <2>6 DEF Calls, Decisions
    <3> QED BY <2>1, <3>1, <3>2, RequestKinds
  <2>7. Failing'
    BY <2>2, <2>6 DEF Failing, Deciding
  <2>8. \A x \in Captures : captures'[x] = "requested" => captures[x] = "requested"
    BY <1>1, <2>2 DEF Typed
  <2> QED BY <1>2, <2>3, <2>5, <2>7, <2>8
<1>8. ASSUME NEW S, \A n \in DOMAIN todo' : todo'[n].do \in S,
             S \cap {"fail", "requested", "attempt"} = {}, UNCHANGED <<rows, adapter, captures, torn>>
      PROVE  OpenInv'
  <2>1. UNCHANGED <<session, attempts, memory, captures, torn>>
    BY <1>8 DEF rows, adapter
  <2>2. (\A n \in DOMAIN todo' : OpenAt(n)') /\ Failing'
    BY <1>8 DEF OpenAt, Failing
  <2> QED BY <1>2, <2>1, <2>2
<1>9. ASSUME NEW f \in Flags, ManualFlag(f) PROVE OpenInv'
  <2>1. /\ UNCHANGED <<rows, adapter, captures, torn>> /\ DOMAIN todo' = 1..2
        /\ todo'[1].do = "flag" /\ todo'[2].do = "ask"
    BY <1>9, FlagTodo DEF coordinator
  <2>2. \A n \in 1..2 : todo'[n].do \in {"flag", "ask"}
    BY <2>1
  <2> QED BY <1>8, <2>1, <2>2
<1>10. CASE Finalize
  <2>1. /\ UNCHANGED <<rows, adapter, captures, torn>> /\ DOMAIN todo' = 1..2
        /\ todo'[1].do = "clip" /\ todo'[2].do = "origin"
    BY <1>10, FinalizeTodo DEF Call, coordinator
  <2>2. \A n \in 1..2 : todo'[n].do \in {"clip", "origin"}
    BY <2>1
  <2> QED BY <1>8, <2>1, <2>2
<1>11. CASE Discover \/ UNCHANGED vars
  <2>1. UNCHANGED <<session, attempts, memory, captures, todo, torn>>
    BY <1>11 DEF Discover, vars, rows, adapter, coordinator
  <2>2. ASSUME NEW n \in DOMAIN todo' PROVE OpenAt(n)'
    <3>1. OpenAt(n)
      BY <2>1 DEF OpenInv
    <3> QED BY <2>1, <3>1 DEF OpenAt, Attempted, Sound, Spoilt
  <2>3. Requesting' \/ Failing'
    BY <2>1 DEF OpenInv, Requesting, Failing
  <2> QED BY <1>2, <2>1, <2>2, <2>3
<1>12. CASE Restart
  <2>1. /\ captures' = [c \in Captures |-> "none"] /\ todo' = <<>> /\ attempts' = attempts
        /\ session' = session + 1 /\ session \in Nat
    BY <1>1, <1>12 DEF Restart, Typed
  <2>2. \A q \in Requests : attempts[q].session \in Nat
    BY <1>1 DEF Typed, AttemptRows
  <2>3. \A q \in Requests : attempts'[q].session <= session' /\ ~Own(q)'
    BY <2>1, <2>2 DEF OpenInv, Own
  <2> QED BY <2>1, <2>3 DEF OpenInv, Requested, Requesting, Requests
<1> QED BY <1>3, <1>4, <1>6, <1>7, <1>9, <1>10, <1>11, <1>12 DEF Next

(* The attempt of a requested capture is open or saved, for any number of   *)
(* captures, requests and sessions: what a cancellation or a refusal fails  *)
(* is never an attempt that the recorder was asked for, unless its upsert   *)
(* had stopped halfway or its id is of an earlier session.                  *)
THEOREM LedgerDeliverable == Spec => [](OpenInv /\ RequestedIsDeliverable)
<1>1. Init => OpenInv
  <2> SUFFICES ASSUME Init PROVE OpenInv
    OBVIOUS
  <2>1. /\ captures = [c \in Captures |-> "none"] /\ todo = <<>> /\ session = 1
        /\ attempts = [q \in Requests |-> NoAttempt]
    BY DEF Init
  <2>2. \A q \in Requests : attempts[q].session = 0
    BY <2>1 DEF NoAttempt
  <2> QED BY <2>1, <2>2 DEF OpenInv, Requested, Requesting, Own, Requests
<1>2. BaseInv /\ TornInv /\ OpenInv /\ [Next]_vars => OpenInv'
  BY OpenStep, LedgerAssumption
<1>3. OpenInv => RequestedIsDeliverable
  BY DEF OpenInv, RequestedIsDeliverable, Sound
<1> QED BY <1>1, <1>2, <1>3, LedgerBase, LedgerTorn, PTL DEF Spec

(* The recorder's entries are requests with an ordinal                      *)
LEMMA EntryFacts ==
  ASSUME LedgerAssumption
  PROVE  /\ \A q \in Fresh : q[2] \in Nat /\ q # None /\ q \in Requests
         /\ \A e \in Entries : e.request \in Fresh
<1>1. \A q \in Fresh : q[2] \in Nat
  BY DEF Fresh, LedgerAssumption
<1> QED BY <1>1, RequestKinds DEF Entries, Requests

(* What a committed call may do to a Clip                                   *)
LEMMA ClipsKept ==
  ASSUME Typed, LedgerAssumption, todo # <<>>, Commits
  PROVE  \A q \in Requests :
           \/ clips'[q] = clips[q]
           \/ /\ Step.do = "clip" /\ q = Step.arg.request /\ q \in Fresh
              /\ clips'[q].media = MediaOf(Step.arg) /\ ~clips'[q].complete
           \/ /\ Step.do = "origin" /\ q = Step.arg.request /\ q \in Fresh /\ Step.arg \in Entries
              /\ clips'[q].media = clips[q].media /\ clips'[q].kind = clips[q].kind
              /\ clips'[q].complete /\ clips'[q].origin = Origin(Step.arg)
<1>1. clips \in [Requests -> ClipRows]
  BY DEF Typed
<1>2. CASE Step.do = "clip"
  <2>1. PICK k \in ClipRows :
          LET q == Step.arg.request
          IN /\ q \in Fresh /\ clips' = [clips EXCEPT ![q] = k]
             /\ k.media = MediaOf(Step.arg) /\ ~k.complete
    BY <1>2, FinalizeClipRows DEF Commits
  <2> QED BY <1>1, <1>2, <2>1
<1>3. CASE Step.do = "origin"
  <2>1. PICK k \in ClipRows :
          LET q == Step.arg.request
          IN /\ q \in Fresh /\ Step.arg \in Entries /\ clips' = [clips EXCEPT ![q] = k]
             /\ k.media = clips[q].media /\ k.kind = clips[q].kind
             /\ k.complete /\ k.origin = Origin(Step.arg)
    BY <1>3, CompleteMetadataRows DEF Commits
  <2> QED BY <1>1, <1>3, <2>1
<1>4. CASE Step.do \notin {"clip", "origin"}
  BY <1>4 DEF Commits
<1> QED BY <1>2, <1>3, <1>4

(* A Clip is made of the file that was found, automatic or manual           *)
LEMMA ClipMade ==
  ASSUME Typed, LedgerAssumption, todo # <<>>, Commits, Step.do = "clip"
  PROVE  LET q == Step.arg.request
         IN clips'[q].media = MediaOf(Step.arg) /\ clips'[q].kind = KindOf(Step.arg)
<1>1. PICK k \in ClipRows :
        LET q == Step.arg.request
        IN /\ q \in Fresh /\ clips' = [clips EXCEPT ![q] = k]
           /\ k.media = MediaOf(Step.arg) /\ k.kind = KindOf(Step.arg)
  BY FinalizeClipRows DEF Commits
<1>2. clips \in [Requests -> ClipRows] /\ Step.arg.request \in Requests
  BY <1>1, EntryFacts DEF Typed
<1> QED BY <1>1, <1>2

(* A committed call keeps what a shared Clip names                          *)
LEMMA ShareCommits ==
  ASSUME BaseInv, ShareInv, LedgerAssumption, todo # <<>>, Statement, Commits
  PROVE  ShareInv'
<1>1. /\ Typed /\ KnownInv /\ todo \in Seq(Calls) /\ todo' = Tail(todo)
      /\ UNCHANGED <<session, ordinal, outstanding, acked>> /\ session \in Nat
  BY DEF BaseInv, Typed, Commits, recorder
<1>2. /\ 1 \in DOMAIN todo /\ Step = todo[1]
      /\ \A n \in DOMAIN todo' :
           /\ n \in Nat \ {0} /\ n + 1 \in DOMAIN todo /\ n + 1 # 1 /\ todo'[n] = todo[n + 1]
           /\ \A do, c : Follows(todo, n + 1, do, c) =>
                IF n = 1 THEN Step.do = do /\ Capture = c ELSE Follows(todo', n, do, c)
  BY <1>1, Shift
<1>3. ShareAt(1) /\ KnownAt(1)
  BY <1>1, <1>2 DEF ShareInv, KnownInv
<1>4. Capture = todo[1].capture
  BY <1>2 DEF Capture
<1>5. Lined' = Lined /\ \A q : Passed(q)' <=> Passed(q)
  BY <1>1 DEF Lined, Passed
<1>6. MediaOf(Step.arg) = <<Step.arg.request, session>>
  BY DEF MediaOf
<1>7. ASSUME NEW q \in Requests
      PROVE  /\ clips'[q].media # None => q \in Fresh /\ clips'[q].media[2] <= session
             /\ Taken(q)' => Passed(q)
             /\ clips'[q].complete => clips'[q].media # None
  <2>1. CASE clips'[q] = clips[q]
    BY <1>1, <2>1 DEF ShareInv, Taken
  <2>2. CASE /\ Step.do = "clip" /\ q = Step.arg.request /\ q \in Fresh
             /\ clips'[q].media = MediaOf(Step.arg) /\ ~clips'[q].complete
    <3>1. Passed(q)
      BY <1>2, <1>3, <2>2 DEF ShareAt
    <3> QED BY <1>1, <1>6, <2>2, <3>1
  <2>3. CASE /\ Step.do = "origin" /\ q = Step.arg.request /\ q \in Fresh
             /\ clips'[q].media = clips[q].media /\ clips'[q].complete
    <3>1. Passed(q) /\ clips[q].media = MediaOf(Step.arg)
      BY <1>2, <1>3, <2>3 DEF ShareAt
    <3>2. clips[q].media \in Media
      <4>1. session \in 1..MaxSession
        BY <1>1 DEF Typed
      <4> QED BY <1>6, <2>3, <3>1, <4>1 DEF Media
    <3>3. clips[q].media # None
      BY <3>2 DEF LedgerAssumption
    <3> QED BY <1>1, <1>6, <2>3, <3>1, <3>3
  <2> QED BY <1>1, <2>1, <2>2, <2>3, ClipsKept
<1>8. ASSUME NEW n \in DOMAIN todo' PROVE ShareAt(n)'
  <2> PICK arg : arg = todo'[n].arg
    OBVIOUS
  <2>1. ShareAt(n + 1) /\ todo'[n] = todo[n + 1] /\ n + 1 # 1
    BY <1>2 DEF ShareInv
  <2>2. ASSUME todo'[n].do = "origin"
        PROVE  IF n = 1 THEN /\ clips'[arg.request].media = MediaOf(arg)'
                             /\ clips'[arg.request].kind = KindOf(arg)
               ELSE Follows(todo', n, "clip", None) /\ todo'[n - 1].arg = arg
    <3>1. Follows(todo, n + 1, "clip", None) /\ todo[(n + 1) - 1].arg = arg
      BY <2>1, <2>2 DEF ShareAt
    <3>2. CASE n = 1
      <4>1. Step.do = "clip" /\ Step.arg = arg
        BY <1>2, <3>1, <3>2
      <4> QED BY <1>1, <3>2, <4>1, ClipMade DEF MediaOf
    <3>3. CASE n # 1
      <4>1. (n - 1) \in DOMAIN todo' /\ (n - 1) + 1 = n /\ (n + 1) - 1 = n
        <5>1. DOMAIN todo = 1..Len(todo) /\ DOMAIN todo' = 1..(Len(todo) - 1) /\ Len(todo) \in Nat
          BY <1>1, Shift
        <5> QED BY <3>3, <5>1
      <4> QED BY <1>2, <3>1, <3>3, <4>1
    <3> QED BY <3>2, <3>3
  <2>3. todo'[n].do \in {"clip", "origin"} => Passed(arg.request)'
    BY <1>5, <2>1 DEF ShareAt
  <2>4. todo'[n].do = "attempt" /\ arg \in Fresh => arg \in Lined'
    BY <1>5, <2>1 DEF ShareAt
  <2> QED BY <2>2, <2>3, <2>4 DEF ShareAt, KindOf
<1>9. ASSUME NEW r \in Rounds, NEW q, q = memory'[r].request, q # None, clips'[q].complete,
             clips'[q].kind = "raw_auto", Taken(q)'
      PROVE  evidence'[r] \subseteq clips'[q].origin
  <2>1. r \in Captures /\ memory' \in [Captures -> MemoryRows]
    <3>1. Typed'
      BY <1>1, TypedStatement
    <3> QED BY <3>1 DEF Captures, Typed
  <2>2. q \in Requests
    BY <1>9, <2>1 DEF MemoryRows
  <2>3. ~(Step.do = "attempt" /\ Capture = r)
    <3> SUFFICES ASSUME Step.do = "attempt", Capture = r PROVE FALSE
      OBVIOUS
    <3>1. q = Step.arg /\ clips'[q] = clips[q]
      BY <1>1, <1>9, <2>1, MemoryKept DEF Commits
    <3>2. Taken(q) /\ clips[q].media # None
      BY <1>1, <1>9, <3>1 DEF Taken
    <3>3. q \in Fresh /\ Passed(q)
      BY <2>2, <3>2 DEF ShareInv
    <3>4. q \in Lined
      BY <1>2, <1>3, <3>1, <3>3 DEF ShareAt
    <3>5. q[2] \in Nat
      BY <3>3, EntryFacts
    <3> QED BY <3>3, <3>4, <3>5 DEF Passed, Lined
  <2>4. memory[r].request = q
    BY <1>1, <1>9, <2>1, <2>3, MemoryKept
  <2>5. evidence'[r] = evidence[r]
    <3>1. Step.do = "scheduled" /\ Capture = r => memory[r].request = None
      BY <1>2, <1>3, <1>4 DEF KnownAt
    <3>2. Step.do = "scheduled" => evidence' = [evidence EXCEPT ![Capture] = Step.arg]
      BY DEF Commits, Scheduled
    <3>3. Step.do # "scheduled" => evidence' = evidence
      BY DEF Commits
    <3> QED BY <1>1, <1>9, <2>4, <3>1, <3>2, <3>3 DEF Typed
  <2>6. CASE clips'[q] = clips[q]
    <3>1. Taken(q)
      BY <1>1, <1>9, <2>6 DEF Taken
    <3> QED BY <1>9, <2>4, <2>5, <2>6, <3>1 DEF ShareInv
  <2>7. CASE /\ Step.do = "origin" /\ q = Step.arg.request /\ Step.arg \in Entries
             /\ clips'[q].kind = clips[q].kind /\ clips'[q].origin = Origin(Step.arg)
    <3>1. clips[q].kind = KindOf(Step.arg)
      BY <1>2, <1>3, <2>7 DEF ShareAt
    <3>2. ~Step.arg.manual
      BY <1>9, <2>7, <3>1 DEF KindOf
    <3>3. Origin(Step.arg) = UNION {evidence[x] : x \in Sharing(q) \cap Rounds}
      BY <1>1, <2>7, <3>2, OriginFacts
    <3>4. r \in Sharing(q) \cap Rounds
      BY <2>1, <2>4 DEF Sharing
    <3> QED BY <2>5, <2>7, <3>3, <3>4
  <2> QED BY <1>1, <1>9, <2>2, <2>6, <2>7, ClipsKept
<1>10. /\ \A n \in DOMAIN outstanding' :
            /\ outstanding'[n].request[2] <= ordinal'
            /\ \A m \in 1..(n - 1) : outstanding'[m].request[2] < outstanding'[n].request[2]
       /\ acked' # None => Passed(acked'.request)
  BY <1>1 DEF ShareInv
<1>11. acked' # None => Passed(acked.request)'
  BY <1>1, <1>5, <1>10
<1> QED BY <1>1, <1>5, <1>7, <1>8, <1>9, <1>10, <1>11 DEF ShareInv

(* Every step keeps what a shared Clip names                                *)
LEMMA ShareStep ==
  ASSUME BaseInv, TornInv, ShareInv, LedgerAssumption, [Next]_vars
  PROVE  ShareInv'
<1>1. Typed /\ KnownInv /\ ordinal \in Nat /\ outstanding \in Seq(Entries)
  BY DEF BaseInv, Typed
<1>2. ASSUME UNCHANGED <<session, clips, memory, evidence>>,
             \A n \in DOMAIN outstanding' :
               /\ outstanding'[n].request[2] <= ordinal'
               /\ \A m \in 1..(n - 1) : outstanding'[m].request[2] < outstanding'[n].request[2],
             \A q \in Fresh : Passed(q) => Passed(q)',
             \A e : acked' = e /\ e # None => Passed(e.request)',
             \A n \in DOMAIN todo' : ShareAt(n)'
      PROVE  ShareInv'
  <2>1. \A q \in Requests : Taken(q)' <=> Taken(q)
    BY <1>2 DEF Taken
  <2>2. \A q \in Requests :
          /\ clips'[q].media # None => q \in Fresh /\ clips'[q].media[2] <= session'
          /\ Taken(q)' => Passed(q)'
          /\ clips'[q].complete => clips'[q].media # None
    BY <1>2, <2>1 DEF ShareInv, Taken
  <2>3. ASSUME NEW r \in Rounds, NEW q, q = memory'[r].request, q # None, clips'[q].complete,
               clips'[q].kind = "raw_auto", Taken(q)'
        PROVE  evidence'[r] \subseteq clips'[q].origin
    BY <1>2, <2>3 DEF ShareInv, Taken
  <2>4. acked' # None => Passed(acked.request)'
    BY <1>2
  <2>5. \A n \in DOMAIN todo' : ShareAt(n)'
    BY <1>2
  <2> QED BY <1>2, <2>2, <2>3, <2>4, <2>5 DEF ShareInv
<1>3. CASE Statement
  <2>1. CASE Commits
    BY <1>1, <1>3, <2>1, ShareCommits, StatementTodo
  <2>2. CASE todo' = <<>> /\ UNCHANGED <<rows, adapter, coordinator, recorder>>
    <3>1. UNCHANGED <<session, clips, memory, evidence, ordinal, outstanding, acked>>
      BY <2>2 DEF rows, adapter, coordinator, recorder
    <3>2. \A q : Passed(q)' <=> Passed(q)
      BY <3>1 DEF Passed
    <3>3. \A e : acked' = e /\ e # None => Passed(e.request)'
      BY <3>1, <3>2 DEF ShareInv
    <3>4. \A n \in DOMAIN outstanding' :
            /\ outstanding'[n].request[2] <= ordinal'
            /\ \A m \in 1..(n - 1) : outstanding'[m].request[2] < outstanding'[n].request[2]
      BY <3>1 DEF ShareInv
    <3> QED BY <1>2, <2>2, <3>1, <3>2, <3>3, <3>4
  <2> QED BY <1>1, <1>3, <2>1, <2>2, StatementCommits
<1>4. ASSUME UNCHANGED <<session, clips, memory, evidence, outstanding>>,
             acked' \in {acked, None}, ordinal' \in {ordinal, ordinal + 1},
             \A n \in DOMAIN todo' : ShareAt(n)'
      PROVE  ShareInv'
  <2>1. \A q \in Fresh : Passed(q) => Passed(q)'
    BY <1>1, <1>4, EntryFacts DEF Passed
  <2>2. \A n \in DOMAIN outstanding' :
          /\ outstanding'[n].request[2] <= ordinal'
          /\ \A m \in 1..(n - 1) : outstanding'[m].request[2] < outstanding'[n].request[2]
    <3>1. \A n \in DOMAIN outstanding : outstanding[n].request[2] \in Nat
      BY <1>1, EntryFacts
    <3>2. \A n \in DOMAIN outstanding :
            /\ outstanding[n].request[2] <= ordinal
            /\ \A m \in 1..(n - 1) : outstanding[m].request[2] < outstanding[n].request[2]
      BY DEF ShareInv
    <3> QED BY <1>1, <1>4, <3>1, <3>2
  <2>3. \A e : acked' = e /\ e # None => Passed(e.request)'
    <3>1. acked # None => acked.request \in Fresh
      BY <1>1, EntryFacts DEF Typed
    <3> QED BY <1>4, <2>1, <3>1 DEF ShareInv
  <2> QED BY <1>2, <1>4, <2>1, <2>2, <2>3
<1>5. ASSUME NEW p \in Payloads, Ingest(p) PROVE ShareInv'
  <2> DEFINE i == <<p, next>>
  <2>1. /\ UNCHANGED <<rows, adapter, coordinator, recorder>>
        /\ \A n \in DOMAIN todo' : Fits(todo', n, i)
    BY <1>5, IngestTodo
  <2> HIDE DEF i
  <2>2. UNCHANGED <<session, clips, memory, evidence, ordinal, outstanding, acked>>
    BY <2>1 DEF rows, adapter, coordinator, recorder
  <2>3. \A n \in DOMAIN todo' : ShareAt(n)'
    BY <2>1, RequestKinds DEF ShareAt, Fits
  <2> QED BY <1>4, <2>2, <2>3
<1>6. ASSUME NEW c \in Captures, RequestRefused(c) PROVE ShareInv'
  <2>1. PICK q : q = <<c, 0, Generation(c)>>
    OBVIOUS
  <2>2. /\ UNCHANGED <<rows, adapter, evidence, outstanding, acked>>
        /\ \A n \in DOMAIN todo' : todo'[n] \in Calls /\ Deciding(todo', n, c, q, "retryable")
    BY <1>6, <2>1, RefusedTodo
  <2>3. UNCHANGED <<session, clips, memory, evidence, outstanding, acked>> /\ ordinal' = ordinal + 1
    BY <1>6, <2>2 DEF rows, adapter, RequestRefused
  <2>4. ASSUME NEW n \in DOMAIN todo' PROVE ShareAt(n)'
    <3>1. todo'[n].do \in {"attempt", "flag", "join", "fail", "retryable"}
      BY <2>2 DEF Deciding
    <3>2. todo'[n].do = "attempt" => todo'[n].arg = q /\ todo'[n].arg \in Requests
      BY <2>2 DEF Deciding, Calls, Decisions
    <3>3. todo'[n].do = "attempt" => todo'[n].arg \notin Fresh
      BY <2>1, <3>2, RequestKinds
    <3> QED BY <3>1, <3>3 DEF ShareAt
  <2> QED BY <1>4, <2>3, <2>4
<1>7. ASSUME NEW c \in Captures, RequestAccepted(c) PROVE ShareInv'
  <2>1. PICK q, line : q = Accepted(c).request /\ line = Accepted(c).line
    OBVIOUS
  <2>2. /\ UNCHANGED <<rows, adapter, evidence, acked>>
        /\ \A n \in DOMAIN todo' : Deciding(todo', n, c, q, "requested")
    BY <1>7, <2>1, AcceptedTodo
  <2>3. /\ UNCHANGED <<session, clips, memory, evidence, acked>>
        /\ ordinal' = ordinal + 1 /\ outstanding' = line
    BY <1>7, <2>1, <2>2 DEF rows, adapter, RequestAccepted
  <2>4. /\ line \in Seq(Entries) /\ \E n \in DOMAIN line : line[n].request = q
        /\ \A n \in DOMAIN line :
             \/ n \in DOMAIN outstanding /\ line[n].request = outstanding[n].request
             \/ n = Len(outstanding) + 1 /\ line[n].request = <<c, ordinal + 1>>
    BY <1>1, <1>7, <2>1, AcceptedFacts DEF RequestAccepted, CanRequest
  <2>5. ASSUME NEW n \in DOMAIN todo' PROVE ShareAt(n)'
    <3>1. /\ todo'[n].do \in {"attempt", "flag", "join", "requested"}
          /\ todo'[n].do = "attempt" => todo'[n].arg = q
      BY <2>2 DEF Deciding
    <3>2. q \in Lined'
      BY <2>3, <2>4 DEF Lined
    <3> QED BY <3>1, <3>2 DEF ShareAt
  <2>6. /\ \A n \in DOMAIN outstanding : outstanding[n].request[2] \in Nat
        /\ DOMAIN outstanding = 1..Len(outstanding) /\ Len(outstanding) \in Nat
    BY <1>1, EntryFacts
  <2>7. \A n \in DOMAIN outstanding :
          /\ outstanding[n].request[2] <= ordinal
          /\ \A m \in 1..(n - 1) : outstanding[m].request[2] < outstanding[n].request[2]
    BY DEF ShareInv
  <2>8. \A n \in DOMAIN line :
          \/ n \in DOMAIN outstanding /\ line[n].request[2] = outstanding[n].request[2]
          \/ n = Len(outstanding) + 1 /\ line[n].request[2] = ordinal + 1
    BY <2>4
  <2>9. ASSUME NEW n \in DOMAIN line
        PROVE  /\ line[n].request[2] <= ordinal + 1
               /\ \A m \in 1..(n - 1) : line[m].request[2] < line[n].request[2]
    <3>1. line[n].request[2] <= ordinal + 1
      BY <1>1, <2>6, <2>7, <2>8
    <3>2. ASSUME NEW m \in 1..(n - 1) PROVE line[m].request[2] < line[n].request[2]
      <4>1. DOMAIN line = 1..Len(line) /\ Len(line) \in Nat
        BY <2>4
      <4>2. m \in DOMAIN line /\ n \in Nat
        BY <4>1
      <4>3. m \in DOMAIN outstanding /\ line[m].request[2] = outstanding[m].request[2]
        BY <2>6, <2>8, <4>2
      <4> QED BY <1>1, <2>6, <2>7, <2>8, <4>3
    <3> QED BY <3>1, <3>2
  <2>10. \A x \in Fresh : Passed(x) => Passed(x)'
    <3> SUFFICES ASSUME NEW x \in Fresh, Passed(x) PROVE Passed(x)'
      OBVIOUS
    <3>1. x[2] \in Nat /\ x[2] <= ordinal
      BY EntryFacts DEF Passed
    <3>2. \A n \in DOMAIN line : x[2] < line[n].request[2]
      BY <1>1, <2>6, <2>8, <3>1 DEF Passed
    <3> QED BY <1>1, <2>3, <3>1, <3>2 DEF Passed
  <2>11. \A e : acked' = e /\ e # None => Passed(e.request)'
    <3>1. acked # None => acked.request \in Fresh
      BY <1>1, EntryFacts DEF Typed
    <3> QED BY <2>3, <2>10, <3>1 DEF ShareInv
  <2> QED BY <1>2, <2>3, <2>5, <2>9, <2>10, <2>11
<1>8. ASSUME NEW f \in Flags, ManualFlag(f) PROVE ShareInv'
  <2>1. /\ UNCHANGED <<rows, adapter, coordinator, recorder>> /\ DOMAIN todo' = 1..2
        /\ todo'[1].do = "flag" /\ todo'[2].do = "ask"
    BY <1>8, FlagTodo
  <2>2. UNCHANGED <<session, clips, memory, evidence, ordinal, outstanding, acked>>
    BY <2>1 DEF rows, adapter, coordinator, recorder
  <2>3. \A n \in 1..2 : todo'[n].do \in {"flag", "ask"}
    BY <2>1
  <2>4. \A n \in DOMAIN todo' : ShareAt(n)'
    BY <2>1, <2>3 DEF ShareAt
  <2> QED BY <1>4, <2>2, <2>4
<1>9. CASE Finalize
  <2>1. /\ acked \in Entries /\ DOMAIN todo' = 1..2 /\ acked' = None /\ acked # None
        /\ todo'[1] = Call("clip", None, acked) /\ todo'[2] = Call("origin", None, acked)
        /\ UNCHANGED <<rows, adapter, coordinator, ordinal, outstanding>>
    BY <1>9, FinalizeTodo DEF Finalize
  <2>2. UNCHANGED <<session, clips, memory, evidence, ordinal, outstanding>>
    BY <2>1 DEF rows, adapter, coordinator
  <2>3. Passed(acked.request)
    BY <2>1 DEF ShareInv
  <2>4. PICK e : e = acked
    OBVIOUS
  <2>5. Passed(e.request)'
    BY <2>2, <2>3, <2>4 DEF Passed
  <2>6. /\ todo'[1].do = "clip" /\ todo'[1].arg = e /\ todo'[1].capture = None
        /\ todo'[2].do = "origin" /\ todo'[2].arg = e
    BY <2>1, <2>4 DEF Call
  <2>7. ASSUME NEW n \in 1..2 PROVE ShareAt(n)'
    <3>1. CASE n = 1
      BY <2>5, <2>6, <3>1 DEF ShareAt
    <3>2. CASE n = 2
      BY <2>5, <2>6, <3>2 DEF ShareAt, Follows
    <3> QED BY <3>1, <3>2
  <2> QED BY <1>4, <2>1, <2>2, <2>7
<1>10. CASE Discover
  <2>1. /\ UNCHANGED <<session, clips, memory, evidence, ordinal, todo>>
        /\ outstanding # <<>> /\ acked' = Head(outstanding) /\ outstanding' = Tail(outstanding)
        /\ todo = <<>> \/ Doing("ask")
    BY <1>10 DEF Discover, Idle, rows, adapter, coordinator
  <2>2. \A n \in DOMAIN todo' : ShareAt(n)'
    BY <2>1, QuietTodo DEF ShareAt
  <2>3. /\ DOMAIN outstanding = 1..Len(outstanding) /\ Len(outstanding) \in Nat \ {0}
        /\ acked' = outstanding[1] /\ DOMAIN outstanding' = 1..(Len(outstanding) - 1)
        /\ \A n \in DOMAIN outstanding' : outstanding'[n] = outstanding[n + 1]
    BY <1>1, <2>1
  <2>4. /\ \A n \in DOMAIN outstanding : outstanding[n].request[2] \in Nat
        /\ \A n \in DOMAIN outstanding :
             /\ outstanding[n].request[2] <= ordinal
             /\ \A m \in 1..(n - 1) : outstanding[m].request[2] < outstanding[n].request[2]
    BY <1>1, EntryFacts DEF ShareInv
  <2>5. \A n \in DOMAIN outstanding' : n \in Nat \ {0} /\ n + 1 \in DOMAIN outstanding
    BY <2>3
  <2>6. \A n \in DOMAIN outstanding' :
          /\ outstanding'[n].request[2] <= ordinal'
          /\ \A m \in 1..(n - 1) : outstanding'[m].request[2] < outstanding'[n].request[2]
    <3> SUFFICES ASSUME NEW n \in DOMAIN outstanding'
                 PROVE  /\ outstanding'[n].request[2] <= ordinal'
                        /\ \A m \in 1..(n - 1) :
                             outstanding'[m].request[2] < outstanding'[n].request[2]
      OBVIOUS
    <3>1. outstanding'[n].request[2] <= ordinal'
      BY <2>1, <2>3, <2>4, <2>5
    <3>2. ASSUME NEW m \in 1..(n - 1) PROVE outstanding'[m].request[2] < outstanding'[n].request[2]
      <4>1. m \in DOMAIN outstanding' /\ m + 1 \in 1..((n + 1) - 1)
        BY <2>3
      <4> QED BY <2>3, <2>4, <2>5, <4>1
    <3> QED BY <3>1, <3>2
  <2>7. \A q \in Fresh : Passed(q) => Passed(q)'
    BY <2>1, <2>3, <2>5 DEF Passed
  <2>8. \A e : acked' = e /\ e # None => Passed(e.request)'
    <3> SUFFICES ASSUME NEW e, e = outstanding[1] PROVE Passed(e.request)'
      BY <2>3
    <3>1. 1 \in DOMAIN outstanding
      BY <2>3
    <3>2. ASSUME NEW n \in DOMAIN outstanding' PROVE e.request[2] < outstanding'[n].request[2]
      <4>1. 1 \in 1..((n + 1) - 1)
        BY <2>5
      <4> QED BY <2>3, <2>4, <2>5, <4>1
    <3> QED BY <2>1, <2>4, <3>1, <3>2 DEF Passed
  <2> QED BY <1>2, <2>1, <2>2, <2>6, <2>7, <2>8
<1>11. CASE UNCHANGED vars
  <2>1. UNCHANGED <<session, clips, memory, evidence, ordinal, outstanding, acked, todo>>
    BY <1>11 DEF vars, rows, adapter, coordinator, recorder
  <2>2. ASSUME NEW n \in DOMAIN todo' PROVE ShareAt(n)'
    <3>1. ShareAt(n)
      BY <2>1 DEF ShareInv
    <3> QED BY <2>1, <3>1 DEF ShareAt, Passed, Lined, MediaOf
  <2> QED BY <1>4, <2>1, <2>2
<1>12. CASE Restart
  <2>1. /\ clips' = clips /\ session' = session + 1 /\ session \in Nat /\ todo' = <<>>
        /\ outstanding' = <<>> /\ acked' = None /\ memory' = [c \in Captures |-> Unknown]
    BY <1>1, <1>12 DEF Restart, Typed
  <2>2. ASSUME NEW q \in Requests
        PROVE  /\ clips'[q].media # None => q \in Fresh /\ clips'[q].media[2] <= session'
               /\ ~Taken(q)'
               /\ clips'[q].complete => clips'[q].media # None
    <3>1. clips[q].media # None => clips[q].media[2] \in Nat /\ clips[q].media[2] <= session
      <4>1. clips[q] \in ClipRows
        BY <1>1 DEF Typed
      <4> QED BY <4>1 DEF ClipRows, ShareInv
    <3> QED BY <2>1, <3>1 DEF Taken, ShareInv
  <2>3. \A r \in Rounds : memory'[r].request = None
    BY <2>1 DEF Captures, Unknown
  <2> QED BY <2>1, <2>2, <2>3 DEF ShareInv
<1> QED BY <1>3, <1>5, <1>6, <1>7, <1>8, <1>9, <1>10, <1>11, <1>12 DEF Next

(* A Clip names the receipts of all round captures that share it, however   *)
(* many join the queued request: once its save is discovered no capture is  *)
(* given its request, so complete_clip_metadata finds all of them in        *)
(* memory.                                                                  *)
THEOREM LedgerNames == Spec => [](ShareInv /\ ClipNamesItsCaptures)
<1>1. Init => ShareInv
  <2> SUFFICES ASSUME Init PROVE ShareInv
    OBVIOUS
  <2>1. /\ todo = <<>> /\ outstanding = <<>> /\ acked = None
        /\ memory = [c \in Captures |-> Unknown] /\ clips = [q \in Requests |-> NoClip]
    BY DEF Init
  <2>2. \A q \in Requests : clips[q].media = None /\ ~clips[q].complete
    BY <2>1 DEF NoClip
  <2>3. \A r \in Rounds : memory[r].request = None
    BY <2>1 DEF Captures, Unknown
  <2> QED BY <2>1, <2>2, <2>3 DEF ShareInv, Taken
<1>2. BaseInv /\ TornInv /\ ShareInv /\ [Next]_vars => ShareInv'
  BY ShareStep, LedgerAssumption
<1>3. BaseInv /\ OpenInv /\ ShareInv => ClipNamesItsCaptures
  <2> SUFFICES ASSUME BaseInv, OpenInv, ShareInv, NEW r \in Requested \cap Rounds,
                      clips[memory[r].request].complete,
                      clips[memory[r].request].kind = "raw_auto",
                      clips[memory[r].request].media[2] = session
               PROVE  evidence[r] \subseteq clips[memory[r].request].origin
    BY DEF ClipNamesItsCaptures
  <2>1. r \in Captures /\ memory[r] \in MemoryRows
    BY DEF BaseInv, Typed, Captures
  <2>2. memory[r].request # None
    BY DEF OpenInv, Sound
  <2>3. memory[r].request \in Requests
    BY <2>1, <2>2 DEF MemoryRows
  <2>4. Taken(memory[r].request)
    BY <2>3 DEF ShareInv, Taken
  <2> QED BY <2>2, <2>4 DEF ShareInv
<1> QED BY <1>1, <1>2, <1>3, LedgerBase, LedgerTorn, LedgerDeliverable, PTL DEF Spec

(* A committed call names only stored origins                               *)
LEMMA StoredCommits ==
  ASSUME BaseInv, ShareInv, StoredInv, LedgerAssumption, todo # <<>>, Commits
  PROVE  StoredInv'
<1>1. /\ Typed /\ KnownInv /\ todo \in Seq(Calls) /\ todo' = Tail(todo) /\ session' = session
  BY DEF BaseInv, Typed, Commits
<1>2. /\ 1 \in DOMAIN todo /\ Step = todo[1]
      /\ \A n \in DOMAIN todo' :
           /\ n + 1 \in DOMAIN todo /\ todo'[n] = todo[n + 1]
           /\ Before(todo, n + 1) = Before(todo', n) \cup {Step}
  BY <1>1, Shift
<1>3. StoredAt(1) /\ ShareAt(1) /\ KnownAt(1) /\ Before(todo, 1) = {}
  BY <1>1, <1>2 DEF StoredInv, ShareInv, KnownInv, Before
<1>4. Capture = todo[1].capture
  BY <1>2 DEF Capture
<1>5. /\ Stored \subseteq Stored' /\ snapshots \subseteq snapshots'
      /\ \A i : Step.do = "snapshot" /\ Step.arg = i => i \in Stored'
  <2>1. Step.do = "snapshot" => Step.arg \in Receipts
    BY <1>1, StepTypes
  <2>2. /\ Step.do = "snapshot" =>
             snapshots' = snapshots \cup {[session |-> session, receipt |-> Step.arg]}
        /\ Step.do # "snapshot" => snapshots' = snapshots
    BY DEF Commits, RecordSnapshot
  <2> QED BY <1>1, <2>1, <2>2 DEF Stored
<1>6. /\ flags \subseteq flags' /\ \A f : HasFlag(f) => HasFlag(f)'
      /\ \A f : Step.do = "flag" /\ Capture = f => HasFlag(f)'
  BY <1>1 DEF Commits, CreateFlag, HasFlag
<1>7. hydrated' \subseteq Stored'
  BY <1>5 DEF StoredInv, Commits, RecordSnapshot
<1>8. ASSUME NEW r \in Rounds PROVE noted'[r] \subseteq Stored' /\ evidence'[r] \subseteq Stored'
  <2>1. /\ Step.do = "noted" => Step.arg \in Stored
        /\ Step.do = "scheduled" => \A i \in Step.arg : i \in Stored
    BY <1>2, <1>3, <1>4 DEF StoredAt, MadeOf
  <2>2. noted'[r] \subseteq Stored'
    <3>1. Step.do = "noted" => noted' = [noted EXCEPT ![Capture] = {Step.arg}]
      BY DEF Commits, Note
    <3>2. Step.do # "noted" => noted' = noted
      BY DEF Commits
    <3> QED BY <1>1, <1>5, <2>1, <3>1, <3>2 DEF StoredInv, Typed
  <2>3. evidence'[r] \subseteq Stored'
    <3>1. Step.do = "scheduled" => evidence' = [evidence EXCEPT ![Capture] = Step.arg]
      BY DEF Commits, Scheduled
    <3>2. Step.do # "scheduled" => evidence' = evidence
      BY DEF Commits
    <3> QED BY <1>1, <1>5, <2>1, <3>1, <3>2 DEF StoredInv, Typed
  <2> QED BY <2>2, <2>3
<1>9. ASSUME NEW f \in Flags, captures'[f] # "none" PROVE HasFlag(f)'
  <2>1. f \in Captures /\ f \notin Rounds
    BY DEF Captures, LedgerAssumption
  <2>2. Step.do = "scheduled" => Capture \in Rounds
    BY <1>1, StepTypes
  <2>3. captures'[f] # captures[f] => Step.do \in Decisions /\ f = Capture
    BY <1>1, <2>1, <2>2 DEF Commits, Scheduled, Decided, Typed
  <2>4. captures[f] # "none"
    BY <1>2, <1>3, <1>4, <1>9, <2>3 DEF KnownAt
  <2> QED BY <1>6, <2>4 DEF StoredInv
<1>10. ASSUME NEW n \in DOMAIN todo' PROVE StoredAt(n)'
  <2> PICK c, arg : c = todo'[n].capture /\ arg = todo'[n].arg
    OBVIOUS
  <2>1. StoredAt(n + 1) /\ todo'[n] = todo[n + 1]
    BY <1>2 DEF StoredInv
  <2>2. \A i : i \in Stored \/ MadeOf("snapshot", None, i, Before(todo, n + 1)) =>
                 i \in Stored' \/ MadeOf("snapshot", None, i, Before(todo', n))
    BY <1>2, <1>5 DEF MadeOf
  <2>3. HasFlag(c) \/ Made("flag", c, Before(todo, n + 1)) =>
          HasFlag(c)' \/ Made("flag", c, Before(todo', n))
    BY <1>2, <1>6 DEF Made, Capture
  <2>4. todo'[n].do = "noted" => arg \in Stored' \/ MadeOf("snapshot", None, arg, Before(todo', n))
    BY <2>1, <2>2 DEF StoredAt
  <2>5. todo'[n].do = "scheduled" =>
          \A i \in arg : i \in Stored' \/ MadeOf("snapshot", None, i, Before(todo', n))
    BY <2>1, <2>2 DEF StoredAt
  <2>6. todo'[n].do = "ask" => HasFlag(c)' \/ Made("flag", c, Before(todo', n))
    BY <2>1, <2>3 DEF StoredAt
  <2> QED BY <2>4, <2>5, <2>6 DEF StoredAt
<1>11. ASSUME NEW q \in Requests, clips'[q].complete, NEW o \in clips'[q].origin
       PROVE  IF clips'[q].kind = "raw_manual"
              THEN [session |-> clips'[q].media[2], flag |-> o] \in flags'
              ELSE [session |-> clips'[q].media[2], receipt |-> o] \in snapshots'
  <2>1. CASE clips'[q] = clips[q]
    BY <1>5, <1>6, <1>11, <2>1 DEF StoredInv, OriginIsStored
  <2>2. CASE /\ Step.do = "origin" /\ q = Step.arg.request /\ q \in Fresh /\ Step.arg \in Entries
             /\ clips'[q].media = clips[q].media /\ clips'[q].kind = clips[q].kind
             /\ clips'[q].origin = Origin(Step.arg)
    <3>1. clips[q].media = MediaOf(Step.arg) /\ clips[q].kind = KindOf(Step.arg)
      BY <1>2, <1>3, <2>2 DEF ShareAt
    <3>2. clips'[q].media[2] = session
      BY <2>2, <3>1 DEF MediaOf
    <3>3. CASE Step.arg.manual
      <4>1. o \in Sharing(q) \cap Flags
        BY <1>1, <1>11, <2>2, <3>3, OriginFacts
      <4>2. o \in Captures /\ memory[o].request = q /\ q # None
        BY <2>2, <4>1, EntryFacts DEF Sharing
      <4>3. HasFlag(o)
        BY <1>1, <4>1, <4>2 DEF KnownInv, StoredInv
      <4> QED BY <1>6, <2>2, <3>1, <3>2, <3>3, <4>3 DEF HasFlag, KindOf
    <3>4. CASE ~Step.arg.manual
      <4>1. PICK r \in Rounds : o \in evidence[r]
        BY <1>1, <1>11, <2>2, <3>4, OriginFacts
      <4>2. o \in Stored
        BY <4>1 DEF StoredInv
      <4> QED BY <1>5, <2>2, <3>1, <3>2, <3>4, <4>2 DEF Stored, KindOf
    <3> QED BY <3>3, <3>4
  <2> QED BY <1>1, <1>11, <2>1, <2>2, ClipsKept
<1>12. OriginIsStored'
  BY <1>11 DEF OriginIsStored
<1> QED BY <1>7, <1>8, <1>9, <1>10, <1>12 DEF StoredInv

(* Every step names only stored origins                                     *)
LEMMA StoredStep ==
  ASSUME BaseInv, ShareInv, StoredInv, LedgerAssumption, [Next]_vars
  PROVE  StoredInv'
<1>1. Typed /\ KnownInv
  BY DEF BaseInv
<1>2. ASSUME UNCHANGED <<rows, hydrated, noted, evidence>>,
             \A f \in Flags : captures'[f] # "none" => captures[f] # "none" \/ HasFlag(f),
             \A n \in DOMAIN todo' : StoredAt(n)'
      PROVE  StoredInv'
  <2>1. UNCHANGED <<session, snapshots, flags, clips, hydrated, noted, evidence>>
    BY <1>2 DEF rows
  <2>2. Stored' = Stored /\ \A f : HasFlag(f)' <=> HasFlag(f)
    BY <2>1 DEF Stored, HasFlag
  <2>3. OriginIsStored'
    BY <2>1 DEF StoredInv, OriginIsStored
  <2> QED BY <1>2, <2>1, <2>2, <2>3 DEF StoredInv
<1>3. CASE Statement
  <2>1. CASE Commits
    BY <1>1, <1>3, <2>1, StoredCommits, StatementTodo
  <2>2. CASE todo' = <<>> /\ UNCHANGED <<rows, adapter, coordinator, recorder>>
    BY <1>2, <2>2 DEF adapter, coordinator
  <2> QED BY <1>1, <1>3, <2>1, <2>2, StatementCommits
<1>4. ASSUME NEW p \in Payloads, Ingest(p) PROVE StoredInv'
  <2> PICK i : i = <<p, next>>
    OBVIOUS
  <2>1. /\ UNCHANGED <<rows, adapter, coordinator>>
        /\ \A n \in DOMAIN todo' :
             /\ todo'[n] \in Calls /\ Fits(todo', n, i)
             /\ todo'[n].do # "snapshot" =>
                  i \in hydrated \/ MadeOf("snapshot", None, i, Before(todo', n))
    BY <1>4, IngestTodo
  <2>2. UNCHANGED <<session, snapshots, hydrated, noted, evidence, captures>>
    BY <2>1 DEF rows, adapter, coordinator
  <2>3. Stored' = Stored
    BY <2>2 DEF Stored
  <2>4. ASSUME NEW n \in DOMAIN todo' PROVE StoredAt(n)'
    <3> PICK c, arg : c = todo'[n].capture /\ arg = todo'[n].arg
      OBVIOUS
    <3>1. todo'[n].do # "snapshot" =>
            i \in Stored' \/ MadeOf("snapshot", None, i, Before(todo', n))
      BY <2>1, <2>3 DEF StoredInv
    <3>2. todo'[n].do = "noted" => arg = i
      BY <2>1 DEF Fits
    <3>3. ASSUME todo'[n].do = "scheduled"
          PROVE  \A j \in arg : j \in Stored' \/ MadeOf("snapshot", None, j, Before(todo', n))
      <4>1. arg = noted[c] \cup {i}
        BY <2>1, <3>3 DEF Fits
      <4>2. c \in Rounds
        BY <2>1, <3>3 DEF Calls, Decisions
      <4> QED BY <2>3, <3>1, <3>3, <4>1, <4>2 DEF StoredInv
    <3>4. todo'[n].do # "ask"
      BY <2>1 DEF Fits
    <3> QED BY <3>1, <3>2, <3>3, <3>4 DEF StoredAt
  <2> QED BY <1>2, <2>1, <2>2, <2>4
<1>5. ASSUME NEW c \in Captures, CanRequest(c), UNCHANGED <<rows, adapter, noted, evidence>>,
             IF Idle THEN captures' = captures
             ELSE captures' = [captures EXCEPT ![c] = "requesting"],
             NEW q, NEW d \in {"requested", "retryable"},
             \A n \in DOMAIN todo' : Deciding(todo', n, c, q, d)
      PROVE  StoredInv'
  <2>1. captures \in [Captures -> Statuses]
    BY <1>1 DEF Typed
  <2>2. ~Idle => HasFlag(c)
    <3> SUFFICES ASSUME ~Idle PROVE HasFlag(c)
      OBVIOUS
    <3>1. Doing("ask") /\ Capture = c
      BY <1>5 DEF CanRequest
    <3>2. todo \in Seq(Calls) /\ todo # <<>>
      BY <1>1, <3>1 DEF Typed, Doing
    <3>3. 1 \in DOMAIN todo /\ todo[1].do = "ask" /\ todo[1].capture = c
      BY <3>1, <3>2, StepTypes DEF Doing, Capture
    <3>4. StoredAt(1) /\ Before(todo, 1) = {}
      BY <3>3 DEF StoredInv, Before
    <3> QED BY <3>3, <3>4 DEF StoredAt, Made
  <2>3. \A f \in Flags : captures'[f] # "none" => captures[f] # "none" \/ HasFlag(f)
    BY <1>5, <2>1, <2>2 DEF Captures
  <2>4. \A n \in DOMAIN todo' : todo'[n].do \in {"attempt", "flag", "join", "fail", d}
    BY <1>5 DEF Deciding
  <2>5. \A n \in DOMAIN todo' : StoredAt(n)'
    BY <2>4 DEF StoredAt
  <2> QED BY <1>2, <1>5, <2>3, <2>5 DEF adapter
<1>6. ASSUME NEW c \in Captures, RequestAccepted(c) PROVE StoredInv'
  <2>1. /\ CanRequest(c) /\ UNCHANGED <<rows, adapter, noted, evidence>>
        /\ IF Idle THEN captures' = captures
           ELSE captures' = [captures EXCEPT ![c] = "requesting"]
    BY <1>6 DEF RequestAccepted
  <2> QED BY <1>5, <1>6, <2>1, AcceptedTodo
<1>7. ASSUME NEW c \in Captures, RequestRefused(c) PROVE StoredInv'
  <2>1. /\ CanRequest(c) /\ UNCHANGED <<rows, adapter, noted, evidence>>
        /\ IF Idle THEN captures' = captures
           ELSE captures' = [captures EXCEPT ![c] = "requesting"]
    BY <1>7 DEF RequestRefused
  <2> QED BY <1>5, <1>7, <2>1, RefusedTodo
<1>8. ASSUME NEW f \in Flags, ManualFlag(f) PROVE StoredInv'
  <2>1. /\ UNCHANGED <<rows, adapter, coordinator>> /\ DOMAIN todo' = 1..2
        /\ todo'[1].do = "flag" /\ todo'[2].do = "ask"
        /\ todo'[1].capture = f /\ todo'[2].capture = f
    BY <1>8, FlagTodo
  <2>2. ASSUME NEW n \in 1..2 PROVE StoredAt(n)'
    <3>1. CASE n = 1
      BY <2>1, <3>1 DEF StoredAt
    <3>2. CASE n = 2
      <4>1. Made("flag", f, Before(todo', n))
        BY <2>1, <3>2 DEF Made, Before
      <4> QED BY <2>1, <3>2, <4>1 DEF StoredAt
    <3> QED BY <3>1, <3>2
  <2> QED BY <1>2, <2>1, <2>2 DEF adapter, coordinator
<1>9. CASE Finalize
  <2>1. /\ UNCHANGED <<rows, adapter, coordinator>> /\ DOMAIN todo' = 1..2
        /\ todo'[1].do = "clip" /\ todo'[2].do = "origin"
    BY <1>9, FinalizeTodo DEF Call
  <2>2. \A n \in 1..2 : todo'[n].do \in {"clip", "origin"}
    BY <2>1
  <2>3. \A n \in DOMAIN todo' : StoredAt(n)'
    BY <2>1, <2>2 DEF StoredAt
  <2> QED BY <1>2, <2>1, <2>3 DEF adapter, coordinator
<1>10. CASE Discover \/ UNCHANGED vars
  <2>1. UNCHANGED <<rows, adapter, coordinator, todo>>
    BY <1>10 DEF Discover, vars
  <2>2. UNCHANGED <<session, snapshots, flags, captures, todo>>
    BY <2>1 DEF rows, coordinator
  <2>3. ASSUME NEW n \in DOMAIN todo' PROVE StoredAt(n)'
    <3>1. StoredAt(n)
      BY <2>2 DEF StoredInv
    <3> QED BY <2>2, <3>1 DEF StoredAt, Stored, HasFlag
  <2> QED BY <1>2, <2>1, <2>2, <2>3 DEF adapter, coordinator
<1>11. CASE Restart
  <2>1. /\ UNCHANGED <<snapshots, flags, clips>> /\ hydrated' = {} /\ todo' = <<>>
        /\ captures' = [c \in Captures |-> "none"]
        /\ noted' = [r \in Rounds |-> {}] /\ evidence' = [r \in Rounds |-> {}]
    BY <1>11 DEF Restart
  <2>2. \A f \in Flags : captures'[f] = "none"
    BY <2>1 DEF Captures
  <2>3. OriginIsStored'
    BY <2>1 DEF StoredInv, OriginIsStored
  <2> QED BY <2>1, <2>2, <2>3 DEF StoredInv
<1> QED BY <1>3, <1>4, <1>6, <1>7, <1>8, <1>9, <1>10, <1>11 DEF Next

(* The origin of a Clip is in the ledger of its session, for any payloads,  *)
(* flags and restarts: the snapshot of a receipt commits before the calls   *)
(* that name it, and a flag before the recorder is asked.                   *)
THEOREM LedgerOrigin == Spec => [](StoredInv /\ OriginIsStored)
<1>1. Init => StoredInv
  <2> SUFFICES ASSUME Init PROVE StoredInv
    OBVIOUS
  <2>1. /\ todo = <<>> /\ hydrated = {} /\ captures = [c \in Captures |-> "none"]
        /\ noted = [r \in Rounds |-> {}] /\ evidence = [r \in Rounds |-> {}]
        /\ clips = [q \in Requests |-> NoClip]
    BY DEF Init
  <2>2. \A f \in Flags : captures[f] = "none"
    BY <2>1 DEF Captures
  <2>3. \A q \in Requests : ~clips[q].complete
    BY <2>1 DEF NoClip
  <2> QED BY <2>1, <2>2, <2>3 DEF StoredInv, OriginIsStored
<1>2. BaseInv /\ ShareInv /\ StoredInv /\ [Next]_vars => StoredInv'
  BY StoredStep, LedgerAssumption
<1>3. StoredInv => OriginIsStored
  BY DEF StoredInv
<1> QED BY <1>1, <1>2, <1>3, LedgerBase, LedgerNames, PTL DEF Spec
===============================================================================
