--------------------------- MODULE ProviderProofs ---------------------------
(***************************************************************************)
(* Proofs about what MILO sends the provider: the permit ceiling for every *)
(* number of processes, requests and leases (ProviderPermits), and the     *)
(* rolling windows and pauses for every number of callers, whatever the    *)
(* delay and the skew of their readings (ProviderWindows).                 *)
(*                                                                         *)
(* The permit ceiling is stated over what the provider works on, which no  *)
(* step of MILO's counts; it follows from what each request knows of its   *)
(* own lease (PermitInv), and from a count of the store alone.             *)
(*                                                                         *)
(* The windows are sums over stamps of the callers' clocks, and the ceiling*)
(* is a sum over real time.  Between them stand the entries of callers     *)
(* that have been counted and have not sent yet (WindowsInv): what was sent*)
(* since an instant, with what may still be sent then or later, is counted *)
(* in the window under stamps no older than the delay.                     *)
(***************************************************************************)
EXTENDS ProviderPermits, ProviderWindows, FiniteSetTheorems,
        WellFoundedInduction, TLAPS

(* The permits.                                                            *)

(* Without the bound on the semaphores, which needs a count of its own.    *)
Shape ==
  /\ alive \subseteq Processes
  /\ slots \in [Processes -> Nat]
  /\ pc \in [Requests -> Pcs]
  /\ mine \in [Requests -> LeaseIds \cup {NoLease}]
  /\ leases \subseteq LeaseIds
  /\ takenBy \in [LeaseIds -> Processes \cup {NoLease}]
  /\ running \subseteq LeaseIds
  /\ timed \subseteq LeaseIds

Counted == IsFiniteSet(leases) /\ Cardinality(leases) <= MaxConcurrency

(* A lease nobody has taken yet is nowhere.                                *)
UntakenUnused ==
  \A l \in LeaseIds :
    takenBy[l] = NoLease =>
      /\ l \notin leases /\ l \notin running
      /\ \A q \in Requests : mine[q] # l

(* Who has a lease, and that it was taken by the request's own process.    *)
OwnLease ==
  \A q \in Requests :
    /\ pc[q] \in {"idle", "waiting"} => mine[q] = NoLease
    /\ pc[q] \in {"leased", "sent", "proven", "unproven"} =>
         /\ mine[q] \in LeaseIds
         /\ takenBy[mine[q]] = ProcessOf[q]
    /\ Alive(q) /\ pc[q] \in {"leased", "sent"} => mine[q] \in leases
    /\ pc[q] \in {"leased", "proven"} => mine[q] \notin running

DistinctLeases ==
  \A q, r \in Requests : mine[q] = mine[r] /\ mine[q] # NoLease => q = r

(* What the provider works on is a lease the store still counts.           *)
RunningCounted == running \ timed \subseteq leases

PermitInv ==
  /\ Shape
  /\ Counted
  /\ UntakenUnused
  /\ OwnLease
  /\ DistinctLeases
  /\ RunningCounted

LEMMA PermitInit == Init => PermitInv
  BY PermitAssumption, FS_EmptySet
     DEF Init, PermitInv, Shape, Counted, UntakenUnused, OwnLease,
         DistinctLeases, RunningCounted, Pcs, Alive

(* Removing a lease, or none, keeps the count.                             *)
LEMMA Uncount ==
  ASSUME Counted, NEW S, leases' = leases \ S
  PROVE  Counted'
  <1>1. /\ IsFiniteSet(leases \ S) /\ Cardinality(leases \ S) \in Nat
        /\ Cardinality(leases \ S) <= Cardinality(leases)
        /\ Cardinality(leases) \in Nat
    BY FS_Difference, FS_Subset, FS_CardinalityType DEF Counted
  <1> QED  BY <1>1, PermitAssumption DEF Counted

(* The script's count before it takes keeps the count.                     *)
LEMMA CountOnAcquire ==
  ASSUME Counted, NEW q \in Requests, NEW l \in LeaseIds, Acquired(q, l)
  PROVE  Counted'
  <1>1. /\ IsFiniteSet(leases) /\ Cardinality(leases) \in Nat
    BY FS_CardinalityType DEF Counted
  <1>2. /\ IsFiniteSet(leases \cup {l})
        /\ Cardinality(leases \cup {l}) =
             IF l \in leases THEN Cardinality(leases) ELSE Cardinality(leases) + 1
    BY <1>1, FS_AddElement
  <1>3. leases' = leases \cup {l} /\ Cardinality(leases) < MaxConcurrency
    BY DEF Acquired
  <1>4. IsFiniteSet(leases') /\ Cardinality(leases') <= MaxConcurrency
    <2>1. Cardinality(leases \cup {l}) <= MaxConcurrency
      BY <1>1, <1>2, <1>3, PermitAssumption
    <2> QED  BY <2>1, <1>2, <1>3
  <1> QED  BY <1>4 DEF Counted

(* Every step of a request keeps the invariant.                            *)
LEMMA RequestStepKeeps ==
  ASSUME PermitInv, NEW q \in Requests, RequestStep(q)
  PROVE  PermitInv'
  <1> USE PermitAssumption DEF PermitInv, Pcs, Alive
  <1> DEFINE Rest == Shape /\ UntakenUnused /\ OwnLease /\ DistinctLeases
                       /\ RunningCounted
  <1>1. CASE AcquireSlot(q)
    <2>1. Rest'
      BY <1>1 DEF AcquireSlot, Shape, UntakenUnused, OwnLease, DistinctLeases,
                  RunningCounted
    <2> QED  BY <1>1, <2>1 DEF AcquireSlot, Counted
  <1>2. ASSUME NEW l \in LeaseIds, AcquireLease(q, l)
        PROVE  PermitInv'
    <2>1. Rest'
      BY <1>2 DEF AcquireLease, Acquired, Shape, UntakenUnused, OwnLease,
                  DistinctLeases, RunningCounted
    <2>2. Counted'
      BY <1>2, CountOnAcquire DEF AcquireLease
    <2> QED  BY <2>1, <2>2
  <1>3. ASSUME NEW l \in LeaseIds, AcquireReplyLost(q, l)
        PROVE  PermitInv'
    <2>1. Rest'
      BY <1>3 DEF AcquireReplyLost, Acquired, GiveBackSlot, Leave, Shape,
                  UntakenUnused, OwnLease, DistinctLeases, RunningCounted
    <2>2. Counted'
      BY <1>3, CountOnAcquire DEF AcquireReplyLost
    <2> QED  BY <2>1, <2>2
  <1>4. CASE GiveUp(q)
    <2>1. Rest'
      BY <1>4 DEF GiveUp, GiveBackSlot, Leave, Shape, UntakenUnused, OwnLease,
                  DistinctLeases, RunningCounted
    <2> QED  BY <1>4, <2>1 DEF GiveUp, Counted
  <1>5. CASE WindowRefuses(q)
    <2>1. Rest'
      BY <1>5 DEF WindowRefuses, Shape, UntakenUnused, OwnLease,
                  DistinctLeases, RunningCounted
    <2>2. Counted'
      BY <1>5, Uncount DEF WindowRefuses
    <2> QED  BY <2>1, <2>2
  <1>6. CASE FailsBeforeSending(q)
    <2>1. Rest'
      BY <1>6 DEF FailsBeforeSending, GiveBackSlot, Leave, Shape, UntakenUnused,
                  OwnLease, DistinctLeases, RunningCounted
    <2>2. Counted'
      <3>1. CASE leases' = leases
        BY <3>1 DEF Counted
      <3>2. CASE leases' = leases \ {mine[q]}
        BY <3>2, Uncount
      <3> QED  BY <1>6, <3>1, <3>2 DEF FailsBeforeSending
    <2> QED  BY <2>1, <2>2
  <1>7. CASE Send(q)
    <2>1. Rest'
      BY <1>7 DEF Send, Shape, UntakenUnused, OwnLease, DistinctLeases,
                  RunningCounted
    <2> QED  BY <1>7, <2>1 DEF Send, Counted
  <1>8. CASE AnswerRead(q)
    <2>1. Rest'
      BY <1>8 DEF AnswerRead, Shape, UntakenUnused, OwnLease, DistinctLeases,
                  RunningCounted
    <2> QED  BY <1>8, <2>1 DEF AnswerRead, Counted
  <1>9. CASE OutcomeUnknown(q)
    <2>1. Rest'
      BY <1>9 DEF OutcomeUnknown, Shape, UntakenUnused, OwnLease,
                  DistinctLeases, RunningCounted
    <2> QED  BY <1>9, <2>1 DEF OutcomeUnknown, Counted
  <1>10. CASE Settle(q)
    <2>1. Rest'
      BY <1>10 DEF Settle, SettledLeases, GiveBackSlot, Leave, Shape,
                   UntakenUnused, OwnLease, DistinctLeases, RunningCounted
    <2>2. Counted'
      <3>1. CASE leases' = leases
        BY <3>1 DEF Counted
      <3>2. CASE leases' = leases \ {mine[q]}
        BY <3>2, Uncount
      <3> QED  BY <1>10, <3>1, <3>2 DEF Settle, SettledLeases
    <2> QED  BY <2>1, <2>2
  <1> QED
    BY <1>1, <1>2, <1>3, <1>4, <1>5, <1>6, <1>7, <1>8, <1>9, <1>10
       DEF RequestStep

(* So does every other step.                                               *)
LEMMA OtherStepKeeps ==
  ASSUME PermitInv,
         \/ \E l \in LeaseIds :
              ProviderFinishes(l) \/ OperatorReclaims(l) \/ TimerReclaims(l)
         \/ \E p \in Processes : ProcessDies(p)
         \/ UNCHANGED vars
  PROVE  PermitInv'
  <1> USE PermitAssumption DEF PermitInv, Pcs, Alive
  <1> DEFINE Rest == Shape /\ UntakenUnused /\ OwnLease /\ DistinctLeases
                       /\ RunningCounted
  <1>1. ASSUME NEW l \in LeaseIds, ProviderFinishes(l)
        PROVE  PermitInv'
    <2>1. Rest'
      BY <1>1 DEF ProviderFinishes, Shape, UntakenUnused, OwnLease,
                  DistinctLeases, RunningCounted
    <2> QED  BY <1>1, <2>1 DEF ProviderFinishes, Counted
  <1>2. ASSUME NEW l \in LeaseIds, OperatorReclaims(l)
        PROVE  PermitInv'
    <2>1. Rest'
      BY <1>2 DEF OperatorReclaims, Recoverable, Shape, UntakenUnused, OwnLease,
                  DistinctLeases, RunningCounted
    <2>2. Counted'
      BY <1>2, Uncount DEF OperatorReclaims
    <2> QED  BY <2>1, <2>2
  <1>3. ASSUME NEW l \in LeaseIds, TimerReclaims(l)
        PROVE  PermitInv'
    <2>1. Rest'
      BY <1>3 DEF TimerReclaims, Recoverable, Shape, UntakenUnused, OwnLease,
                  DistinctLeases, RunningCounted
    <2>2. Counted'
      BY <1>3, Uncount DEF TimerReclaims
    <2> QED  BY <2>1, <2>2
  <1>4. ASSUME NEW p \in Processes, ProcessDies(p)
        PROVE  PermitInv'
    <2>1. Rest'
      BY <1>4 DEF ProcessDies, Shape, UntakenUnused, OwnLease, DistinctLeases,
                  RunningCounted
    <2> QED  BY <1>4, <2>1 DEF ProcessDies, Counted
  <1>5. CASE UNCHANGED vars
    BY <1>5 DEF vars, Shape, Counted, UntakenUnused, OwnLease, DistinctLeases,
                RunningCounted
  <1> QED  BY <1>1, <1>2, <1>3, <1>4, <1>5

(* PermitInv is inductive.                                                 *)
THEOREM PermitsInvariant == Spec => []PermitInv
  <1>1. PermitInv /\ [Next]_vars => PermitInv'
    BY RequestStepKeeps, OtherStepKeeps DEF Next
  <1> QED  BY PermitInit, <1>1, PTL DEF Spec

(* For every number of processes and requests, what the provider works on  *)
(* stays within the organization's ceiling, through unknown outcomes, lost *)
(* replies, dead processes and operator reclaims (provider_quota).         *)
THEOREM LoadWithinCeiling == Spec => []ProviderLoadWithinCeiling
  <1>1. PermitInv => ProviderLoadWithinCeiling
    <2> SUFFICES ASSUME PermitInv PROVE ProviderLoadWithinCeiling
      OBVIOUS
    <2>1. /\ Cardinality(running \ timed) <= Cardinality(leases)
          /\ Cardinality(leases) \in Nat /\ Cardinality(running \ timed) \in Nat
      BY FS_Subset, FS_CardinalityType DEF PermitInv, Counted, RunningCounted
    <2> QED
      BY <2>1, PermitAssumption
         DEF PermitInv, Counted, ProviderLoadWithinCeiling
  <1> QED  BY PermitsInvariant, <1>1, PTL

(* Every request of a live process keeps a lease of its own in the store   *)
(* until it is proven finished (InferenceLease, recover_concurrency).      *)
THEOREM LiveRequestsKeepTheirLease == Spec => []LiveRequestsHoldTheirLease
  <1>1. PermitInv => LiveRequestsHoldTheirLease
    BY DEF PermitInv, OwnLease, DistinctLeases, LiveRequestsHoldTheirLease
  <1> QED  BY PermitsInvariant, <1>1, PTL
-----------------------------------------------------------------------------
(* The semaphores.                                                         *)

(* The requests of a process that are under way.                           *)
UnderWay(p) == {q \in Requests : ProcessOf[q] = p /\ pc[q] # "idle"}

SlotInv == Shape /\ SlotsBalanced

LEMMA UnderWayFinite ==
  \A p : /\ IsFiniteSet(UnderWay(p)) /\ Cardinality(UnderWay(p)) \in Nat
         /\ IsFiniteSet(UnderWay(p)') /\ Cardinality(UnderWay(p)') \in Nat
  <1>1. \A p : UnderWay(p) \subseteq Requests /\ UnderWay(p)' \subseteq Requests
    BY DEF UnderWay
  <1> QED  BY <1>1, PermitAssumption, FS_Subset, FS_CardinalityType

(* A step that leaves semaphores and idleness alone keeps the balance.     *)
LEMMA SameUnderWay ==
  ASSUME SlotInv, UNCHANGED slots,
         \A q \in Requests : (pc'[q] = "idle") <=> (pc[q] = "idle")
  PROVE  SlotsBalanced'
  <1>1. \A p : UnderWay(p)' = UnderWay(p)
    BY DEF UnderWay
  <1>2. SlotsBalanced <=> \A p \in Processes :
                            slots[p] + Cardinality(UnderWay(p)) = LocalSlots
    BY DEF SlotsBalanced, UnderWay
  <1>3. SlotsBalanced' <=> \A p \in Processes :
                             slots'[p] + Cardinality(UnderWay(p)') = LocalSlots
    BY DEF SlotsBalanced, UnderWay
  <1> QED  BY <1>1, <1>2, <1>3 DEF SlotInv

(* Taking a slot as a request gets under way keeps the balance.            *)
LEMMA SlotTaken ==
  ASSUME SlotInv, NEW q \in Requests, AcquireSlot(q)
  PROVE  SlotsBalanced'
  <1>1. ASSUME NEW p \in Processes
        PROVE  slots'[p] + Cardinality(UnderWay(p)') = LocalSlots
    <2>1. slots[p] + Cardinality(UnderWay(p)) = LocalSlots /\ slots[p] \in Int
      BY DEF SlotInv, SlotsBalanced, UnderWay, Shape
    <2>2. CASE ProcessOf[q] = p
      <3>1. UnderWay(p)' = UnderWay(p) \cup {q} /\ q \notin UnderWay(p)
        BY <2>2 DEF AcquireSlot, UnderWay, SlotInv, Shape, Pcs
      <3>2. slots'[p] = slots[p] - 1
        BY <2>2, PermitAssumption DEF AcquireSlot, SlotInv, Shape
      <3>3. Cardinality(UnderWay(p)') = Cardinality(UnderWay(p)) + 1
        BY <3>1, UnderWayFinite, FS_AddElement
      <3> QED  BY <2>1, <3>2, <3>3, UnderWayFinite
    <2>3. CASE ProcessOf[q] # p
      <3>1. UnderWay(p)' = UnderWay(p)
        BY <2>3 DEF AcquireSlot, UnderWay, SlotInv, Shape
      <3>2. slots'[p] = slots[p]
        BY <2>3, PermitAssumption DEF AcquireSlot, SlotInv, Shape
      <3> QED  BY <2>1, <3>1, <3>2
    <2> QED  BY <2>2, <2>3
  <1> QED  BY <1>1 DEF SlotsBalanced, UnderWay

(* Giving it back as the request leaves keeps the balance.                 *)
LEMMA SlotGivenBack ==
  ASSUME SlotInv, NEW q \in Requests, pc[q] # "idle", GiveBackSlot(q), Leave(q)
  PROVE  SlotsBalanced'
  <1>1. ASSUME NEW p \in Processes
        PROVE  slots'[p] + Cardinality(UnderWay(p)') = LocalSlots
    <2>1. slots[p] + Cardinality(UnderWay(p)) = LocalSlots /\ slots[p] \in Int
      BY DEF SlotInv, SlotsBalanced, UnderWay, Shape
    <2>2. CASE ProcessOf[q] = p
      <3>1. UnderWay(p)' = UnderWay(p) \ {q} /\ q \in UnderWay(p)
        BY <2>2 DEF Leave, UnderWay, SlotInv, Shape, Pcs
      <3>2. slots'[p] = slots[p] + 1
        BY <2>2, PermitAssumption DEF GiveBackSlot, SlotInv, Shape
      <3>3. Cardinality(UnderWay(p)') = Cardinality(UnderWay(p)) - 1
        BY <3>1, UnderWayFinite, FS_RemoveElement
      <3> QED  BY <2>1, <3>2, <3>3, UnderWayFinite
    <2>3. CASE ProcessOf[q] # p
      <3>1. UnderWay(p)' = UnderWay(p)
        BY <2>3 DEF Leave, UnderWay, SlotInv, Shape
      <3>2. slots'[p] = slots[p]
        BY <2>3, PermitAssumption DEF GiveBackSlot, SlotInv, Shape
      <3> QED  BY <2>1, <3>1, <3>2
    <2> QED  BY <2>2, <2>3
  <1> QED  BY <1>1 DEF SlotsBalanced, UnderWay

LEMMA SlotStep ==
  ASSUME PermitInv, PermitInv', SlotsBalanced, [Next]_vars
  PROVE  SlotsBalanced'
  <1>1. SlotInv
    BY DEF SlotInv, PermitInv
  <1> USE DEF Shape, PermitInv, Pcs
  <1>2. ASSUME NEW q \in Requests, RequestStep(q)
        PROVE  SlotsBalanced'
    <2>1. CASE AcquireSlot(q)
      BY <1>1, <2>1, SlotTaken
    <2>2. CASE \/ \E l \in LeaseIds : AcquireLease(q, l)
               \/ WindowRefuses(q) \/ Send(q) \/ AnswerRead(q)
               \/ OutcomeUnknown(q)
      <3>1. /\ UNCHANGED slots
            /\ \A r \in Requests : (pc'[r] = "idle") <=> (pc[r] = "idle")
        BY <2>2 DEF AcquireLease, WindowRefuses, Send, AnswerRead,
                    OutcomeUnknown
      <3> QED  BY <1>1, <3>1, SameUnderWay
    <2>3. CASE \/ \E l \in LeaseIds : AcquireReplyLost(q, l)
               \/ GiveUp(q) \/ FailsBeforeSending(q) \/ Settle(q)
      <3>1. pc[q] # "idle" /\ GiveBackSlot(q) /\ Leave(q)
        BY <2>3 DEF AcquireReplyLost, GiveUp, FailsBeforeSending, Settle
      <3> QED  BY <1>1, <3>1, SlotGivenBack
    <2> QED  BY <1>2, <2>1, <2>2, <2>3 DEF RequestStep
  <1>3. CASE \/ \E l \in LeaseIds :
                  ProviderFinishes(l) \/ OperatorReclaims(l) \/ TimerReclaims(l)
             \/ \E p \in Processes : ProcessDies(p)
             \/ UNCHANGED vars
    <2>1. UNCHANGED <<slots, pc>>
      BY <1>3 DEF ProviderFinishes, OperatorReclaims, TimerReclaims,
                  ProcessDies, vars
    <2> QED  BY <1>1, <2>1, SameUnderWay
  <1> QED  BY <1>2, <1>3 DEF Next

(* A process's semaphore is as full as its requests are under way, however *)
(* each of them ends (execute); the BoundedSemaphore is never released     *)
(* once too often.                                                         *)
THEOREM SlotsStayBalanced == Spec => []SlotsBalanced
  <1>1. Init => SlotsBalanced
    <2> SUFFICES ASSUME Init, NEW p \in Processes
                 PROVE  slots[p] + Cardinality(UnderWay(p)) = LocalSlots
      BY DEF SlotsBalanced, UnderWay
    <2>1. UnderWay(p) = {}
      BY DEF Init, UnderWay
    <2>2. Cardinality(UnderWay(p)) = 0
      BY <2>1, FS_EmptySet
    <2>3. slots[p] = LocalSlots
      BY DEF Init
    <2> QED
      BY <2>2, <2>3, PermitAssumption
  <1> QED  BY PermitsInvariant, SlotStep, <1>1, PTL DEF Spec

(* Every reachable state is well typed: a semaphore stays in its range.    *)
THEOREM PermitsTypeCorrect == Spec => []TypeOK
  <1>1. PermitInv /\ SlotsBalanced => TypeOK
    <2> SUFFICES ASSUME PermitInv, SlotsBalanced PROVE TypeOK
      OBVIOUS
    <2>1. ASSUME NEW p \in Processes PROVE slots[p] \in 0 .. LocalSlots
      <3>1. slots[p] + Cardinality(UnderWay(p)) = LocalSlots
        BY DEF SlotsBalanced, UnderWay
      <3>2. Cardinality(UnderWay(p)) \in Nat /\ slots[p] \in Nat
        BY UnderWayFinite DEF PermitInv, Shape
      <3> QED  BY <3>1, <3>2, PermitAssumption
    <2> QED  BY <2>1, PermitAssumption DEF PermitInv, Shape, TypeOK
  <1> QED  BY PermitsInvariant, SlotsStayBalanced, <1>1, PTL

-----------------------------------------------------------------------------
(* Sums. The library takes a sum by removing a chosen element at a time; a *)
(* sum of naturals over a finite set is the number of its units, so that   *)
(* what is known of finite cardinalities gives the rules of sums.          *)

Pick(s) == CHOOSE x \in s : TRUE
IsSum(iter, f, S) ==
    iter = [s \in SUBSET S |-> IF s = {} THEN 0 ELSE f[Pick(s)] + iter[s \ {Pick(s)}]]

Units(f, S) == {u \in S \X Nat : 1 <= u[2] /\ u[2] <= f[u[1]]}
Count(f, S) == Cardinality(Units(f, S))

(* A bad set that is as small as can be.                                   *)
LEMMA SmallestSubset ==
    ASSUME NEW S, IsFiniteSet(S), NEW bad \in SUBSET SUBSET S, bad # {}
    PROVE  \E s \in bad : \A x \in s : s \ {x} \notin bad
<1>1. IsWellFoundedOn(StrictSubsetOrdering(S), SUBSET S)
  BY FS_StrictSubsetOrderingWellFounded, FS_FiniteSubsetsOfFinite
<1>2. PICK s \in bad : \A t \in bad : ~(<<t, s>> \in StrictSubsetOrdering(S))
  BY <1>1, WFMin
<1>3. \A x \in s : <<s \ {x}, s>> \in StrictSubsetOrdering(S)
  BY DEF StrictSubsetOrdering
<1> QED
  BY <1>2, <1>3

LEMMA UnitsOfOne ==
    ASSUME NEW f, NEW x, f[x] \in Nat
    PROVE  IsFiniteSet(Units(f, {x})) /\ Count(f, {x}) = f[x]
<1> DEFINE g == [i \in 1..f[x] |-> <<x, i>>]
<1>1. g \in Bijection(1..f[x], Units(f, {x}))
  <2>1. \A i \in 1..f[x] : <<x, i>> \in Units(f, {x})
    BY DEF Units
  <2>2. \A u \in Units(f, {x}) : u[2] \in 1..f[x] /\ u = g[u[2]]
    BY DEF Units
  <2>3. \A i, j \in 1..f[x] : g[i] = g[j] => i = j
    OBVIOUS
  <2>4. g \in [1..f[x] -> Units(f, {x})]
    BY <2>1
  <2>5. \A u \in Units(f, {x}) : \E i \in 1..f[x] : g[i] = u
    BY <2>2
  <2> HIDE DEF g
  <2>6. g \in Injection(1..f[x], Units(f, {x}))
    BY <2>3, <2>4, Zenon DEF Injection, IsInjective
  <2>7. g \in Surjection(1..f[x], Units(f, {x}))
    BY <2>4, <2>5, Zenon DEF Surjection
  <2> QED
    BY <2>6, <2>7 DEF Bijection
<1>2. IsFiniteSet(1..f[x]) /\ Cardinality(1..f[x]) = f[x]
  BY FS_Interval
<1>3. ExistsBijection(1..f[x], Units(f, {x}))
  BY <1>1 DEF ExistsBijection
<1> QED
  BY <1>2, <1>3, FS_Bijection DEF Count

LEMMA UnitsFinite ==
    ASSUME NEW S, IsFiniteSet(S), NEW f, \A x \in S : f[x] \in Nat
    PROVE  IsFiniteSet(Units(f, S))
<1> DEFINE bad == {s \in SUBSET S : ~IsFiniteSet(Units(f, s))}
<1>1. SUFFICES ASSUME bad # {} PROVE FALSE
  OBVIOUS
<1>2. PICK s \in bad : \A x \in s : s \ {x} \notin bad
  BY <1>1, SmallestSubset
<1>3. s # {}
  <2>1. Units(f, {}) = {}
    BY DEF Units
  <2> QED
    BY <1>2, <2>1, FS_EmptySet
<1>4. PICK x : x \in s
  BY <1>3
<1>5. Units(f, s) = Units(f, s \ {x}) \cup Units(f, {x})
  BY <1>4 DEF Units
<1>6. IsFiniteSet(Units(f, s \ {x})) /\ IsFiniteSet(Units(f, {x}))
  BY <1>2, <1>4, UnitsOfOne
<1>7. IsFiniteSet(Units(f, s \ {x}) \cup Units(f, {x}))
  BY <1>6, FS_Union
<1> QED
  BY <1>2, <1>5, <1>7

LEMMA CountParts ==
    ASSUME NEW S, IsFiniteSet(S), NEW f, \A x \in S : f[x] \in Nat, NEW x \in S
    PROVE  /\ Count(f, S) = f[x] + Count(f, S \ {x})
           /\ Count(f, S) \in Nat /\ Count(f, S \ {x}) \in Nat
<1>1. IsFiniteSet(S \ {x}) /\ IsFiniteSet(Units(f, S)) /\ IsFiniteSet(Units(f, S \ {x}))
  BY FS_RemoveElement, UnitsFinite
<1>2. Units(f, S) = Units(f, S \ {x}) \cup Units(f, {x}) /\ Units(f, S \ {x}) \cap Units(f, {x}) = {}
  BY DEF Units
<1>3. IsFiniteSet(Units(f, {x})) /\ Count(f, {x}) = f[x]
  BY UnitsOfOne
<1>4. Cardinality(Units(f, S \ {x}) \cup Units(f, {x}))
        = Cardinality(Units(f, S \ {x})) + Cardinality(Units(f, {x})) - Cardinality({})
  BY <1>1, <1>2, <1>3, FS_Union
<1>5. Count(f, S) \in Nat /\ Count(f, S \ {x}) \in Nat
  BY <1>1, FS_CardinalityType DEF Count
<1> QED
  BY <1>2, <1>3, <1>4, <1>5, FS_EmptySet DEF Count

LEMMA SumExists ==
    ASSUME NEW S, IsFiniteSet(S), NEW f, \A x \in S : f[x] \in Nat
    PROVE  IsSum([s \in SUBSET S |-> Count(f, s)], f, S)
<1>1. Count(f, {}) = 0
  <2>1. Units(f, {}) = {}
    BY DEF Units
  <2> QED
    BY <2>1, FS_EmptySet DEF Count
<1>2. ASSUME NEW s \in SUBSET S, s # {}
      PROVE  Count(f, s) = f[Pick(s)] + Count(f, s \ {Pick(s)})
  <2>1. Pick(s) \in s /\ IsFiniteSet(s)
    BY <1>2, FS_Subset DEF Pick
  <2> QED
    BY <2>1, CountParts
<1> QED
  BY <1>1, <1>2 DEF IsSum

LEMMA SumIsCount ==
    ASSUME NEW S, IsFiniteSet(S), NEW f, \A x \in S : f[x] \in Nat, NEW iter, IsSum(iter, f, S)
    PROVE  iter[S] = Count(f, S)
<1> DEFINE bad == {s \in SUBSET S : iter[s] # Count(f, s)}
<1>1. SUFFICES ASSUME bad # {} PROVE FALSE
  OBVIOUS
<1>2. PICK s \in bad : \A x \in s : s \ {x} \notin bad
  BY <1>1, SmallestSubset
<1>3. s \in SUBSET S
  BY <1>2
<1> DEFINE h == [t \in SUBSET S |-> Count(f, t)]
<1>4. IsSum(h, f, S)
  BY SumExists
<1>5. CASE s = {}
  <2>1. iter[s] = 0 /\ h[s] = 0
    BY <1>3, <1>4, <1>5 DEF IsSum
  <2> QED
    BY <1>2, <1>3, <2>1
<1>6. CASE s # {}
  <2>1. Pick(s) \in s
    BY <1>6 DEF Pick
  <2>2. iter[s] = f[Pick(s)] + iter[s \ {Pick(s)}] /\ h[s] = f[Pick(s)] + h[s \ {Pick(s)}]
    BY <1>3, <1>4, <1>6 DEF IsSum
  <2>3. iter[s \ {Pick(s)}] = Count(f, s \ {Pick(s)})
    BY <1>2, <1>3, <2>1
  <2> QED
    BY <1>2, <1>3, <2>2, <2>3
<1> QED
  BY <1>5, <1>6

LEMMA SumCounts ==
    ASSUME NEW S, IsFiniteSet(S), NEW f, \A x \in S : f[x] \in Nat
    PROVE  SumFunctionOnSet(f, S) = Count(f, S)
<1> DEFINE iter == CHOOSE g : IsSum(g, f, S)
<1>1. IsSum(iter, f, S)
  BY SumExists
<1>2. SumFunctionOnSet(f, S) = iter[S]
  BY DEF SumFunctionOnSet, FoldFunctionOnSet, MapThenFoldSet, IsSum, Pick
<1> HIDE DEF iter
<1> QED
  BY <1>1, <1>2, SumIsCount

(* The rules of sums the proofs below use.                                 *)
Sum(f, S) == SumFunctionOnSet(f, S)
Summable(f, S) == IsFiniteSet(S) /\ \A x \in S : f[x] \in Nat

LEMMA SumType ==
    ASSUME NEW S, NEW f, Summable(f, S)
    PROVE  Sum(f, S) \in Nat
<1>1. IsFiniteSet(Units(f, S)) /\ Sum(f, S) = Count(f, S)
  BY UnitsFinite, SumCounts DEF Sum, Summable
<1> QED
  BY <1>1, FS_CardinalityType DEF Count

LEMMA SumGrows ==
    ASSUME NEW S, NEW f, NEW g, NEW T, Summable(f, S), Summable(g, T), S \subseteq T,
           \A x \in S : f[x] <= g[x]
    PROVE  Sum(f, S) <= Sum(g, T)
<1>1. Sum(f, S) = Count(f, S) /\ Sum(g, T) = Count(g, T)
  BY SumCounts DEF Sum, Summable
<1>2. IsFiniteSet(Units(g, T))
  BY UnitsFinite DEF Summable
<1>3. Units(f, S) \subseteq Units(g, T)
  <2> SUFFICES ASSUME NEW u \in Units(f, S) PROVE u \in Units(g, T)
    OBVIOUS
  <2>1. u \in S \X Nat /\ 1 <= u[2] /\ u[2] <= f[u[1]]
    BY DEF Units
  <2>2. u[1] \in S /\ u[2] \in Nat
    BY <2>1
  <2>3. f[u[1]] \in Nat /\ g[u[1]] \in Nat /\ f[u[1]] <= g[u[1]]
    BY <2>2 DEF Summable
  <2>4. u \in T \X Nat
    BY <2>1
  <2> QED
    BY <2>1, <2>2, <2>3, <2>4 DEF Units
<1> QED
  BY <1>1, <1>2, <1>3, FS_Subset, FS_CardinalityType DEF Count

LEMMA SumSame ==
    ASSUME NEW S, NEW f, NEW g, Summable(f, S), \A x \in S : f[x] = g[x]
    PROVE  Sum(f, S) = Sum(g, S)
<1>1. Summable(g, S)
  BY DEF Summable
<1>2. \A x \in S : f[x] <= g[x] /\ g[x] <= f[x]
  BY <1>1 DEF Summable
<1>3. Sum(f, S) <= Sum(g, S) /\ Sum(g, S) <= Sum(f, S)
  BY <1>1, <1>2, SumGrows
<1> QED
  BY <1>1, <1>3, SumType

LEMMA SumWithout ==
    ASSUME NEW S, NEW f, Summable(f, S), NEW x \in S
    PROVE  /\ Summable(f, S \ {x})
           /\ Sum(f, S) = f[x] + Sum(f, S \ {x})
<1>1. IsFiniteSet(S \ {x})
  BY FS_RemoveElement DEF Summable
<1>2. Summable(f, S \ {x})
  BY <1>1 DEF Summable
<1>3. Sum(f, S) = Count(f, S) /\ Sum(f, S \ {x}) = Count(f, S \ {x})
  BY <1>1, SumCounts DEF Sum, Summable
<1> QED
  BY <1>2, <1>3, CountParts DEF Summable

(* Two functions that differ in one place.                                 *)
MoveAt(f, g, S, x) ==
  /\ Summable(f, S) /\ Summable(g, S) /\ x \in S
  /\ \A y \in S : y # x => g[y] = f[y]

LEMMA SumMoves ==
    ASSUME NEW S, NEW f, NEW g, NEW x, MoveAt(f, g, S, x)
    PROVE  /\ Sum(f, S) \in Nat /\ Sum(g, S) \in Nat /\ f[x] \in Nat /\ g[x] \in Nat
           /\ Sum(g, S) + f[x] = Sum(f, S) + g[x]
<1> USE DEF MoveAt
<1>1. Summable(f, S) /\ Summable(g, S) /\ x \in S
  OBVIOUS
<1>2. Sum(f, S \ {x}) = Sum(g, S \ {x})
  BY <1>1, SumWithout, SumSame
<1>3. /\ Sum(f, S) = f[x] + Sum(f, S \ {x})
      /\ Sum(g, S) = g[x] + Sum(g, S \ {x})
      /\ Sum(f, S \ {x}) \in Nat /\ Sum(g, S \ {x}) \in Nat
  BY <1>1, SumWithout, SumType
<1>4. f[x] \in Nat /\ g[x] \in Nat /\ Sum(f, S) \in Nat /\ Sum(g, S) \in Nat
  BY <1>1, SumType DEF Summable
<1> QED
  BY <1>1, <1>2, <1>3, <1>4

LEMMA SumOfZeros ==
    ASSUME NEW S, NEW f, IsFiniteSet(S), \A x \in S : f[x] = 0
    PROVE  Summable(f, S) /\ Sum(f, S) = 0
<1>1. Summable(f, S)
  BY DEF Summable
<1>2. Units(f, S) = {}
  BY DEF Units
<1>3. Sum(f, S) = Count(f, S)
  BY SumCounts DEF Sum, Summable
<1> QED
  BY <1>1, <1>2, <1>3, FS_EmptySet DEF Count

LEMMA PartOfSum ==
    ASSUME NEW S, NEW f, Summable(f, S), NEW x \in S
    PROVE  f[x] <= Sum(f, S)
<1>1. Sum(f, S) = f[x] + Sum(f, S \ {x}) /\ Sum(f, S \ {x}) \in Nat /\ f[x] \in Nat
  BY SumWithout, SumType DEF Summable
<1> QED
  BY <1>1

-----------------------------------------------------------------------------
(* The windows.                                                            *)

(* What a caller carries from the reading of its clock to its request.     *)
Own == [pc : CallerPcs, kind : Dimensions, now : Stamps, since : Times,
        weight : Nat, seconds : Nat, covered : BOOLEAN]
Stored == [until : Nat, expires : Nat]

WindowsShape ==
  /\ clock \in Times
  /\ caller \in [Callers -> Own]
  /\ rpm \in [Stamps -> Nat] /\ tpm \in [Stamps -> Nat]
  /\ last \in Stamps
  /\ pause \in [Dimensions -> Stored]
  /\ sentRequests \in [Times -> Nat] /\ sentTokens \in [Times -> Nat]
  /\ sentSearches \in [Times -> Nat]
  /\ assured \in [Dimensions -> Nat] /\ ignored \in BOOLEAN

(* A reading is as old and as far ahead as the bounds allow, and a search  *)
(* reserves no tokens.                                                     *)
Reading(own) ==
  HoldsReading(own) =>
    /\ own.since <= clock /\ clock <= own.since + MaxLag
    /\ own.since <= own.now /\ own.now <= own.since + MaxSkew
    /\ own.kind = "search" => own.weight = 0
    /\ own.pc = "counted" => own.kind = "inference"

ReadingsBounded == \A c \in Callers : Reading(caller[c])

(* What a caller may still send at x or later: one that has been counted,  *)
(* or admitted, and will be gone MaxLag after it read its clock.           *)
RequestDue(own, x) ==
  IF /\ own.pc \in {"counted", "admitted"} /\ own.kind = "inference"
     /\ own.since + MaxLag >= x
  THEN 1 ELSE 0
TokenDue(own, x) ==
  IF own.pc = "admitted" /\ own.since + MaxLag >= x THEN own.weight ELSE 0
SearchDue(own, x) ==
  IF own.pc = "admitted" /\ own.kind = "search" /\ own.since + MaxLag >= x
  THEN 1 ELSE 0

RequestsDue(callers, x) == Sum([c \in Callers |-> RequestDue(callers[c], x)], Callers)
TokensDue(callers, x) == Sum([c \in Callers |-> TokenDue(callers[c], x)], Callers)
SearchesDue(callers, x) == Sum([c \in Callers |-> SearchDue(callers[c], x)], Callers)

Since(history, x) == Sum(history, {t \in Times : t >= x})
Entered(window, x) == Sum(window, {s \in Stamps : s + MaxLag >= x})
SearchEntered(stamp, x) == IF stamp + MaxLag >= x THEN 1 ELSE 0
Clear(x, span) == x + span > clock + MaxSkew + MaxLag

RequestsCovered ==
  \A x \in Int :
    Clear(x, Window) =>
      Since(sentRequests, x) + RequestsDue(caller, x) <= Entered(rpm, x)
TokensCovered ==
  \A x \in Int :
    Clear(x, Window) =>
      Since(sentTokens, x) + TokensDue(caller, x) <= Entered(tpm, x)
SearchesCovered ==
  \A x \in Int :
    Clear(x, Interval) =>
      Since(sentSearches, x) + SearchesDue(caller, x)
        <= SearchEntered(last, x)

WindowsWithin ==
  Used(rpm) <= MaxRpm /\ Used(tpm) <= MaxTpm

WindowsInv ==
  /\ WindowsShape
  /\ ReadingsBounded
  /\ RequestsCovered
  /\ TokensCovered
  /\ SearchesCovered
  /\ WindowsWithin

-----------------------------------------------------------------------------
LEMMA WindowNumbers ==
  /\ MaxRpm \in Nat /\ MaxTpm \in Nat /\ Window \in Nat /\ Interval \in Nat
  /\ MaxLag \in Nat /\ MaxSkew \in Nat /\ MaxTime \in Nat /\ MinPause \in Nat
  /\ MaxLag + MaxSkew < Window /\ MaxLag + MaxSkew < Interval /\ Interval <= MaxTime
  /\ Times \subseteq Nat /\ Stamps \subseteq Nat /\ Times \subseteq Stamps
  /\ IsFiniteSet(Times) /\ IsFiniteSet(Stamps) /\ IsFiniteSet(Callers)
  /\ Weights \subseteq Nat /\ 0 \in Times
  /\ Pauses \subseteq Nat /\ \A seconds \in Pauses : MinPause <= seconds
<1>1. /\ MaxRpm \in Nat /\ MaxTpm \in Nat /\ Window \in Nat /\ Interval \in Nat
      /\ MaxLag \in Nat /\ MaxSkew \in Nat /\ MaxTime \in Nat /\ MinPause \in Nat
  BY WindowAssumption
<1>2. IsFiniteSet(Times) /\ IsFiniteSet(Stamps)
  BY <1>1, FS_Interval DEF Times, Stamps
<1> QED
  BY <1>1, <1>2, WindowAssumption DEF Times, Stamps

(* Every sum taken here is of finitely many naturals.                      *)
LEMMA SummableHistory ==
  ASSUME NEW history \in [Times -> Nat], NEW x \in Int
  PROVE  /\ Summable(history, {t \in Times : t >= x})
         /\ Since(history, x) \in Nat
<1>1. IsFiniteSet({t \in Times : t >= x})
  BY WindowNumbers, FS_Subset
<1>2. Summable(history, {t \in Times : t >= x})
  BY <1>1 DEF Summable
<1> QED
  BY <1>2, SumType DEF Since

LEMMA SummableWindow ==
  ASSUME NEW window \in [Stamps -> Nat], NEW x \in Int
  PROVE  /\ Summable(window, Stamps) /\ Summable(window, {s \in Stamps : s + MaxLag >= x})
         /\ Entered(window, x) \in Nat /\ Used(window) \in Nat
         /\ Used(window) = Sum(window, Stamps)
<1>1. IsFiniteSet({s \in Stamps : s + MaxLag >= x}) /\ IsFiniteSet(Stamps)
  BY WindowNumbers, FS_Subset
<1>2. Summable(window, {s \in Stamps : s + MaxLag >= x}) /\ Summable(window, Stamps)
  BY <1>1 DEF Summable
<1> QED
  BY <1>2, SumType DEF Entered, Used, Sum

LEMMA SumOfDue ==
  ASSUME NEW callers \in [Callers -> Own], NEW x \in Int
  PROVE  /\ Summable([c \in Callers |-> RequestDue(callers[c], x)], Callers)
         /\ Summable([c \in Callers |-> TokenDue(callers[c], x)], Callers)
         /\ Summable([c \in Callers |-> SearchDue(callers[c], x)], Callers)
         /\ RequestsDue(callers, x) \in Nat /\ TokensDue(callers, x) \in Nat
         /\ SearchesDue(callers, x) \in Nat
<1>1. IsFiniteSet(Callers)
  BY WindowNumbers
<1>2. Summable([c \in Callers |-> RequestDue(callers[c], x)], Callers)
  BY <1>1 DEF Summable, RequestDue
<1>3. Summable([c \in Callers |-> TokenDue(callers[c], x)], Callers)
  <2>1. \A c \in Callers : callers[c].weight \in Nat
    BY DEF Own
  <2> QED
    BY <1>1, <2>1 DEF Summable, TokenDue
<1>4. Summable([c \in Callers |-> SearchDue(callers[c], x)], Callers)
  BY <1>1 DEF Summable, SearchDue
<1> QED
  BY <1>2, <1>3, <1>4, SumType DEF RequestsDue, TokensDue, SearchesDue

(* One caller moves on.                                                    *)
MovesOn(callers, new, c, own) ==
  /\ callers \in [Callers -> Own] /\ c \in Callers /\ own \in Own
  /\ new = [callers EXCEPT ![c] = own]

LEMMA DueMoves ==
  ASSUME NEW callers, NEW new, NEW c, NEW own, MovesOn(callers, new, c, own), NEW x \in Int
  PROVE  /\ RequestsDue(callers, x) \in Nat /\ RequestsDue(new, x) \in Nat
         /\ RequestsDue(new, x) + RequestDue(callers[c], x)
              = RequestsDue(callers, x) + RequestDue(own, x)
         /\ TokensDue(callers, x) \in Nat /\ TokensDue(new, x) \in Nat
         /\ TokensDue(new, x) + TokenDue(callers[c], x)
              = TokensDue(callers, x) + TokenDue(own, x)
         /\ SearchesDue(callers, x) \in Nat /\ SearchesDue(new, x) \in Nat
         /\ SearchesDue(new, x) + SearchDue(callers[c], x)
              = SearchesDue(callers, x) + SearchDue(own, x)
<1>1. /\ callers \in [Callers -> Own] /\ c \in Callers /\ own \in Own
      /\ new \in [Callers -> Own] /\ new[c] = own
      /\ \A d \in Callers : d # c => new[d] = callers[d]
  BY DEF MovesOn
<1> DEFINE RequestsOf(cs) == [d \in Callers |-> RequestDue(cs[d], x)]
           TokensOf(cs) == [d \in Callers |-> TokenDue(cs[d], x)]
           SearchesOf(cs) == [d \in Callers |-> SearchDue(cs[d], x)]
<1>2. /\ RequestsOf(new)[c] = RequestDue(own, x) /\ RequestsOf(callers)[c] = RequestDue(callers[c], x)
      /\ TokensOf(new)[c] = TokenDue(own, x) /\ TokensOf(callers)[c] = TokenDue(callers[c], x)
      /\ SearchesOf(new)[c] = SearchDue(own, x) /\ SearchesOf(callers)[c] = SearchDue(callers[c], x)
      /\ \A d \in Callers : d # c => /\ RequestsOf(new)[d] = RequestsOf(callers)[d]
                                     /\ TokensOf(new)[d] = TokensOf(callers)[d]
                                     /\ SearchesOf(new)[d] = SearchesOf(callers)[d]
  BY <1>1
<1>3. /\ Summable(RequestsOf(callers), Callers) /\ Summable(RequestsOf(new), Callers)
      /\ Summable(TokensOf(callers), Callers) /\ Summable(TokensOf(new), Callers)
      /\ Summable(SearchesOf(callers), Callers) /\ Summable(SearchesOf(new), Callers)
      /\ RequestsDue(callers, x) \in Nat /\ RequestsDue(new, x) \in Nat
      /\ TokensDue(callers, x) \in Nat /\ TokensDue(new, x) \in Nat
      /\ SearchesDue(callers, x) \in Nat /\ SearchesDue(new, x) \in Nat
  BY <1>1, SumOfDue
<1>4. /\ RequestsDue(callers, x) = Sum(RequestsOf(callers), Callers)
      /\ RequestsDue(new, x) = Sum(RequestsOf(new), Callers)
      /\ TokensDue(callers, x) = Sum(TokensOf(callers), Callers)
      /\ TokensDue(new, x) = Sum(TokensOf(new), Callers)
      /\ SearchesDue(callers, x) = Sum(SearchesOf(callers), Callers)
      /\ SearchesDue(new, x) = Sum(SearchesOf(new), Callers)
  BY DEF RequestsDue, TokensDue, SearchesDue
<1> HIDE DEF RequestsOf, TokensOf, SearchesOf
<1>5. /\ MoveAt(RequestsOf(callers), RequestsOf(new), Callers, c)
      /\ MoveAt(TokensOf(callers), TokensOf(new), Callers, c)
      /\ MoveAt(SearchesOf(callers), SearchesOf(new), Callers, c)
  BY <1>1, <1>2, <1>3 DEF MoveAt
<1>6. /\ Sum(RequestsOf(new), Callers) + RequestsOf(callers)[c]
           = Sum(RequestsOf(callers), Callers) + RequestsOf(new)[c]
      /\ Sum(TokensOf(new), Callers) + TokensOf(callers)[c]
           = Sum(TokensOf(callers), Callers) + TokensOf(new)[c]
      /\ Sum(SearchesOf(new), Callers) + SearchesOf(callers)[c]
           = Sum(SearchesOf(callers), Callers) + SearchesOf(new)[c]
  BY <1>5, SumMoves
<1> QED
  BY <1>2, <1>3, <1>4, <1>6

(* What a later request added or forgot in a history.                      *)
Adds(history, new, t, n) ==
  /\ history \in [Times -> Nat] /\ t \in Times /\ n \in Nat
  /\ new = [history EXCEPT ![t] = @ + n]

LEMMA HistoryGrows ==
  ASSUME NEW history, NEW new, NEW t, NEW n, Adds(history, new, t, n), NEW x \in Int
  PROVE  /\ new \in [Times -> Nat]
         /\ Since(new, x) = Since(history, x) + (IF t >= x THEN n ELSE 0)
<1> DEFINE S == {u \in Times : u >= x}
<1>1. /\ history \in [Times -> Nat] /\ new \in [Times -> Nat] /\ t \in Times /\ n \in Nat
      /\ new[t] = history[t] + n /\ \A u \in Times : u # t => new[u] = history[u]
  BY DEF Adds
<1>2. new[t] = history[t] + n /\ \A u \in Times : u # t => new[u] = history[u]
  BY <1>1
<1>3. history[t] \in Nat /\ new[t] \in Nat /\ n \in Nat
  BY <1>1
<1>4. Summable(history, S) /\ Since(history, x) = Sum(history, S)
      /\ Summable(new, S) /\ Since(new, x) = Sum(new, S) /\ Since(history, x) \in Nat /\ Since(new, x) \in Nat
  BY <1>1, SummableHistory DEF Since
<1>5. CASE t >= x
  <2>1. t \in S /\ \A u \in S : u # t => new[u] = history[u]
    BY <1>1, <1>5
  <2>2. MoveAt(history, new, S, t)
    BY <1>4, <2>1 DEF MoveAt
  <2> HIDE DEF S
  <2>3. Sum(new, S) + history[t] = Sum(history, S) + new[t]
    BY <2>2, SumMoves
  <2> QED
    BY <1>1, <1>2, <1>3, <1>4, <1>5, <2>3
<1>6. CASE ~(t >= x)
  <2>1. \A u \in S : history[u] = new[u]
    BY <1>2, <1>6
  <2> HIDE DEF S
  <2>2. Sum(history, S) = Sum(new, S)
    BY <1>4, <2>1, SumSame
  <2> QED
    BY <1>1, <1>4, <1>6, <2>2
<1> QED
  BY <1>5, <1>6

LEMMA HistoryForgets ==
  ASSUME NEW history \in [Times -> Nat], NEW x \in Int, NEW span
  PROVE  /\ Remembered(history, span) \in [Times -> Nat]
         /\ Since(Remembered(history, span), x) <= Since(history, x)
<1>1. Remembered(history, span) \in [Times -> Nat]
  BY DEF Remembered
<1>2. \A t \in Times : Remembered(history, span)[t] <= history[t]
  <2> TAKE t \in Times
  <2>1. Remembered(history, span)[t] \in {0, history[t]} /\ history[t] \in Nat
    BY DEF Remembered
  <2> QED
    BY <2>1
<1> DEFINE S == {t \in Times : t >= x}
<1>3. Summable(history, S) /\ Summable(Remembered(history, span), S)
      /\ Since(history, x) = Sum(history, S)
      /\ Since(Remembered(history, span), x) = Sum(Remembered(history, span), S)
  BY <1>1, SummableHistory DEF Since
<1>4. \A t \in S : Remembered(history, span)[t] <= history[t]
  BY <1>2
<1> HIDE DEF S
<1> QED
  BY <1>1, <1>3, <1>4, SumGrows

(* The admission script: it never goes past the ceiling, whoever's clock   *)
(* it prunes by, and leaves every entry that clock still counts.           *)
LEMMA ScriptAdmits ==
  ASSUME NEW window \in [Stamps -> Nat], NEW now \in Stamps, NEW weight \in Nat,
         NEW limit \in Nat, Used(window) <= limit,
         NEW new, new = Admitted(window, now, weight, limit)
  PROVE  /\ new \in [Stamps -> Nat]
         /\ Used(new) <= limit
         /\ \A x \in Int :
              (\A s \in Stamps : s + MaxLag >= x => s + Window > now) =>
                Entered(new, x) = Entered(window, x)
                  + (IF /\ FitsWindow(Pruned(window, now), weight, limit)
                        /\ now + MaxLag >= x
                     THEN weight ELSE 0)
<1> DEFINE pruned == Pruned(window, now)
           fits == FitsWindow(pruned, weight, limit)
           Last(x) == {s \in Stamps : s + MaxLag >= x}
<1>1. pruned \in [Stamps -> Nat]
  BY DEF Pruned
<1>2. \A s \in Stamps : pruned[s] <= window[s]
  <2> TAKE s \in Stamps
  <2>1. pruned[s] \in {0, window[s]} /\ window[s] \in Nat
    BY DEF Pruned
  <2> QED
    BY <2>1
<1>3. \A s \in Stamps : s + Window > now => pruned[s] = window[s]
  BY WindowNumbers DEF Pruned
<1>4. new = IF fits THEN [pruned EXCEPT ![now] = @ + weight] ELSE pruned
  BY DEF Admitted
<1>5. fits <=> Used(pruned) + weight <= limit
  BY DEF FitsWindow
<1> HIDE DEF pruned, fits
<1>6. new \in [Stamps -> Nat]
  BY <1>1, <1>4
<1>7. /\ Summable(window, Stamps) /\ Summable(pruned, Stamps) /\ Summable(new, Stamps)
      /\ Used(pruned) = Sum(pruned, Stamps) /\ Used(window) = Sum(window, Stamps)
      /\ Used(new) = Sum(new, Stamps)
      /\ Used(pruned) \in Nat /\ Used(window) \in Nat /\ Used(new) \in Nat
  <2>1. 0 \in Int
    OBVIOUS
  <2> QED
    BY <1>1, <1>6, <2>1, SummableWindow
<1>8. Used(pruned) <= Used(window)
  BY <1>2, <1>7, SumGrows
<1>9. Used(new) <= limit
  <2>1. CASE fits
    <3>1. new[now] = pruned[now] + weight /\ \A s \in Stamps : s # now => new[s] = pruned[s]
      BY <1>1, <1>4, <2>1
    <3>2. new[now] \in Nat /\ pruned[now] \in Nat
      BY <1>1, <1>6
    <3>3. MoveAt(pruned, new, Stamps, now)
      BY <1>7, <3>1 DEF MoveAt
    <3>4. Sum(new, Stamps) + pruned[now] = Sum(pruned, Stamps) + new[now]
      BY <3>3, SumMoves
    <3> QED
      BY <1>5, <1>7, <2>1, <3>1, <3>2, <3>4
  <2>2. CASE ~fits
    BY <1>4, <1>7, <1>8, <2>2
  <2> QED
    BY <2>1, <2>2
<1>10. ASSUME NEW x \in Int, \A s \in Stamps : s + MaxLag >= x => s + Window > now
       PROVE  Entered(new, x) = Entered(window, x)
                + (IF fits /\ now + MaxLag >= x THEN weight ELSE 0)
  <2> DEFINE S == Last(x)
  <2>1. /\ Summable(window, S) /\ Summable(pruned, S) /\ Summable(new, S)
        /\ Entered(window, x) = Sum(window, S) /\ Entered(pruned, x) = Sum(pruned, S)
        /\ Entered(new, x) = Sum(new, S)
        /\ Entered(window, x) \in Nat /\ Entered(new, x) \in Nat
    BY <1>1, <1>6, SummableWindow DEF Entered
  <2>2. \A s \in S : pruned[s] = window[s]
    BY <1>3, <1>10
  <2>3. Sum(pruned, S) = Sum(window, S)
    <3> HIDE DEF S
    <3> QED
      BY <2>1, <2>2, SumSame
  <2>4. CASE fits /\ now + MaxLag >= x
    <3>1. new[now] = pruned[now] + weight /\ \A s \in Stamps : s # now => new[s] = pruned[s]
      BY <1>1, <1>4, <2>4
    <3>2. new[now] \in Nat /\ pruned[now] \in Nat
      BY <1>1, <1>6
    <3>3. MoveAt(pruned, new, S, now)
      BY <2>1, <2>4, <3>1 DEF MoveAt
    <3> HIDE DEF S
    <3>4. Sum(new, S) + pruned[now] = Sum(pruned, S) + new[now]
      BY <3>3, SumMoves
    <3> QED
      BY <2>1, <2>3, <2>4, <3>1, <3>2, <3>4
  <2>5. CASE ~(fits /\ now + MaxLag >= x)
    <3>1. \A s \in S : new[s] = pruned[s]
      BY <1>1, <1>4, <2>5
    <3> HIDE DEF S
    <3>2. Sum(new, S) = Sum(pruned, S)
      BY <2>1, <3>1, SumSame
    <3> QED
      BY <2>1, <2>3, <2>5, <3>2
  <2> QED
    BY <2>4, <2>5
<1> QED
  BY <1>6, <1>9, <1>10 DEF pruned, fits

-----------------------------------------------------------------------------
(* What each step keeps.                                                   *)

LEMMA WindowsStart == WindowsInit => WindowsInv
<1> SUFFICES ASSUME WindowsInit PROVE WindowsInv
  OBVIOUS
<1>1. WindowsShape
  <2>1. 0 \in Stamps /\ clock \in Times
    BY WindowNumbers DEF WindowsInit, Times
  <2>2. Idle \in Own
    BY <2>1, WindowNumbers DEF Idle, Own, CallerPcs, Dimensions
  <2>3. [until |-> 0, expires |-> 0] \in Stored
    BY DEF Stored
  <2> QED
    BY <2>1, <2>2, <2>3 DEF WindowsInit, WindowsShape
<1>2. ReadingsBounded
  BY DEF WindowsInit, ReadingsBounded, Reading, HoldsReading, Idle
<1>3. ASSUME NEW x \in Int
      PROVE  /\ RequestsDue(caller, x) = 0 /\ TokensDue(caller, x) = 0
             /\ SearchesDue(caller, x) = 0
  <2>1. \A c \in Callers : /\ RequestDue(caller[c], x) = 0 /\ TokenDue(caller[c], x) = 0
                           /\ SearchDue(caller[c], x) = 0
    BY DEF WindowsInit, Idle, RequestDue, TokenDue, SearchDue
  <2>2. IsFiniteSet(Callers)
    BY WindowNumbers
  <2> QED
    BY <2>1, <2>2, SumOfZeros DEF RequestsDue, TokensDue, SearchesDue
<1>4. ASSUME NEW x \in Int
      PROVE  /\ Since(sentRequests, x) = 0 /\ Since(sentTokens, x) = 0
             /\ Since(sentSearches, x) = 0
             /\ Entered(rpm, x) \in Nat /\ Entered(tpm, x) \in Nat
  <2>1. \A t \in Times : sentRequests[t] = 0 /\ sentTokens[t] = 0 /\ sentSearches[t] = 0
    BY DEF WindowsInit
  <2>2. IsFiniteSet({t \in Times : t >= x})
    BY WindowNumbers, FS_Subset
  <2>3. Since(sentRequests, x) = 0 /\ Since(sentTokens, x) = 0 /\ Since(sentSearches, x) = 0
    BY <2>1, <2>2, SumOfZeros DEF Since
  <2> QED
    BY <1>1, <2>3, SummableWindow DEF WindowsShape
<1>5. RequestsCovered /\ TokensCovered
  BY <1>3, <1>4 DEF RequestsCovered, TokensCovered
<1>6. SearchesCovered
  BY <1>3, <1>4 DEF SearchesCovered, SearchEntered
<1>7. WindowsWithin
  <2>1. \A s \in Stamps : rpm[s] = 0 /\ tpm[s] = 0
    BY DEF WindowsInit
  <2>2. IsFiniteSet(Stamps)
    BY WindowNumbers
  <2>3. Sum(rpm, Stamps) = 0 /\ Sum(tpm, Stamps) = 0
    BY <2>1, <2>2, SumOfZeros
  <2>4. Used(rpm) = 0 /\ Used(tpm) = 0
    BY <2>3 DEF Used, Sum
  <2> QED
    BY <2>4, WindowNumbers DEF WindowsWithin
<1> QED
  BY <1>1, <1>2, <1>5, <1>6, <1>7 DEF WindowsInv

(* Time only makes readings older, and fewer moments count as recent.      *)
LEMMA TickKeeps == ASSUME WindowsInv, Tick PROVE WindowsInv'
<1> USE DEF WindowsInv
<1>1. /\ clock \in Nat /\ clock' = clock + 1 /\ clock' \in Times
      /\ caller' = caller /\ rpm' = rpm /\ tpm' = tpm /\ last' = last
      /\ pause' = pause /\ assured' = assured /\ ignored' = ignored
      /\ sentRequests' = Remembered(sentRequests, Window) /\ sentTokens' = Remembered(sentTokens, Window)
      /\ sentSearches' = Remembered(sentSearches, Interval)
  BY WindowNumbers DEF Tick, WindowsShape, Times, signals
<1>2. /\ sentRequests \in [Times -> Nat] /\ sentTokens \in [Times -> Nat]
      /\ sentSearches \in [Times -> Nat]
  BY DEF WindowsShape
<1>3. /\ sentRequests' \in [Times -> Nat] /\ sentTokens' \in [Times -> Nat]
      /\ sentSearches' \in [Times -> Nat]
  BY <1>1, <1>2 DEF Remembered
<1>4. WindowsShape'
  BY <1>1, <1>3 DEF WindowsShape
<1>5. ReadingsBounded'
  <2> SUFFICES ASSUME NEW c \in Callers, HoldsReading(caller[c])
               PROVE  /\ caller[c].since <= clock + 1 /\ clock + 1 <= caller[c].since + MaxLag
                      /\ caller[c].since <= caller[c].now
                      /\ caller[c].now <= caller[c].since + MaxSkew
                      /\ caller[c].kind = "search" => caller[c].weight = 0
                      /\ caller[c].pc = "counted" => caller[c].kind = "inference"
    BY <1>1 DEF ReadingsBounded, Reading, HoldsReading
  <2>1. clock < caller[c].since + MaxLag
    BY DEF Tick
  <2>2. caller[c].since \in Nat
    BY WindowNumbers DEF WindowsShape, Own
  <2> QED
    BY <1>1, <2>1, <2>2, WindowNumbers DEF ReadingsBounded, Reading, HoldsReading
<1>6. ASSUME NEW x \in Int
      PROVE  /\ Since(sentRequests', x) <= Since(sentRequests, x)
             /\ Since(sentTokens', x) <= Since(sentTokens, x)
             /\ Since(sentSearches', x) <= Since(sentSearches, x)
             /\ Since(sentRequests, x) \in Nat /\ Since(sentRequests', x) \in Nat
             /\ Since(sentTokens, x) \in Nat /\ Since(sentTokens', x) \in Nat
             /\ Since(sentSearches, x) \in Nat /\ Since(sentSearches', x) \in Nat
             /\ RequestsDue(caller, x) \in Nat /\ TokensDue(caller, x) \in Nat
             /\ SearchesDue(caller, x) \in Nat
             /\ Entered(rpm, x) \in Nat /\ Entered(tpm, x) \in Nat
             /\ SearchEntered(last, x) \in Nat
             /\ \A span \in Nat : Clear(x, span)' => Clear(x, span)
  <2>1. RequestsDue(caller, x) \in Nat /\ TokensDue(caller, x) \in Nat
        /\ SearchesDue(caller, x) \in Nat
    BY SumOfDue DEF WindowsShape
  <2>2. Entered(rpm, x) \in Nat /\ Entered(tpm, x) \in Nat
    BY SummableWindow DEF WindowsShape
  <2>3. \A span \in Nat : Clear(x, span)' => Clear(x, span)
    BY <1>1, WindowNumbers DEF Clear
  <2> QED
    BY <1>1, <1>2, <1>3, <2>1, <2>2, <2>3, HistoryForgets, SummableHistory
       DEF SearchEntered
<1>7. RequestsCovered'
  <2> SUFFICES ASSUME NEW x \in Int, Clear(x, Window)'
               PROVE  Since(sentRequests', x) + RequestsDue(caller, x) <= Entered(rpm, x)
    BY <1>1 DEF RequestsCovered
  <2>1. Since(sentRequests, x) + RequestsDue(caller, x) <= Entered(rpm, x)
    BY <1>6, WindowNumbers DEF RequestsCovered
  <2> QED
    BY <1>6, <2>1
<1>8. TokensCovered'
  <2> SUFFICES ASSUME NEW x \in Int, Clear(x, Window)'
               PROVE  Since(sentTokens', x) + TokensDue(caller, x) <= Entered(tpm, x)
    BY <1>1 DEF TokensCovered
  <2>1. Since(sentTokens, x) + TokensDue(caller, x) <= Entered(tpm, x)
    BY <1>6, WindowNumbers DEF TokensCovered
  <2> QED
    BY <1>6, <2>1
<1>9. SearchesCovered'
  <2> SUFFICES ASSUME NEW x \in Int, Clear(x, Interval)'
               PROVE  Since(sentSearches', x) + SearchesDue(caller, x)
                        <= SearchEntered(last, x)
    BY <1>1 DEF SearchesCovered
  <2>1. Since(sentSearches, x) + SearchesDue(caller, x)
          <= SearchEntered(last, x)
    BY <1>6, WindowNumbers DEF SearchesCovered
  <2> QED
    BY <1>6, <2>1
<1>10. WindowsWithin'
  BY <1>1 DEF WindowsWithin
<1> QED
  BY <1>4, <1>5, <1>7, <1>8, <1>9, <1>10

(* A caller's next state.                                                  *)
LEMMA CallerMoves ==
  ASSUME WindowsInv, NEW c \in Callers, NEW own \in Own, clock' = clock,
         caller' = [caller EXCEPT ![c] = own], Reading(own)
  PROVE  /\ caller' \in [Callers -> Own] /\ ReadingsBounded' /\ caller[c] \in Own
         /\ caller \in [Callers -> Own] /\ MovesOn(caller, caller', c, own)
<1>1. caller \in [Callers -> Own]
  BY DEF WindowsInv, WindowsShape
<1>2. \A d \in Callers : caller'[d] = IF d = c THEN own ELSE caller[d]
  BY <1>1
<1>3. ReadingsBounded'
  BY <1>2 DEF WindowsInv, ReadingsBounded, Reading, HoldsReading
<1> QED
  BY <1>1, <1>3 DEF MovesOn

LEMMA DueIsNatural ==
  ASSUME NEW own \in Own, NEW x \in Int
  PROVE  RequestDue(own, x) \in Nat /\ TokenDue(own, x) \in Nat /\ SearchDue(own, x) \in Nat
<1>1. own.weight \in Nat
  BY DEF Own
<1> QED
  BY <1>1 DEF RequestDue, TokenDue, SearchDue

(* A caller that will send no later than it would have: nothing else moves.*)
LEMMA CallerYields ==
  ASSUME WindowsInv, NEW c \in Callers, NEW own \in Own, Reading(own),
         caller' = [caller EXCEPT ![c] = own],
         \A x \in Int : /\ RequestDue(own, x) <= RequestDue(caller[c], x)
                        /\ TokenDue(own, x) <= TokenDue(caller[c], x)
                        /\ SearchDue(own, x) <= SearchDue(caller[c], x),
         UNCHANGED <<clock, rpm, tpm, last, sent, assured>>,
         pause' = pause, ignored' = ignored
  PROVE  WindowsInv'
<1>1. /\ clock' = clock /\ rpm' = rpm /\ tpm' = tpm /\ last' = last /\ assured' = assured
      /\ sentRequests' = sentRequests /\ sentTokens' = sentTokens
      /\ sentSearches' = sentSearches
  BY DEF sent
<1>2. /\ caller' \in [Callers -> Own] /\ ReadingsBounded' /\ caller[c] \in Own
      /\ \A x \in Int :
           /\ RequestsDue(caller', x) <= RequestsDue(caller, x)
           /\ TokensDue(caller', x) <= TokensDue(caller, x)
           /\ SearchesDue(caller', x) <= SearchesDue(caller, x)
           /\ RequestsDue(caller, x) \in Nat /\ RequestsDue(caller', x) \in Nat
           /\ TokensDue(caller, x) \in Nat /\ TokensDue(caller', x) \in Nat
           /\ SearchesDue(caller, x) \in Nat /\ SearchesDue(caller', x) \in Nat
  <2>1. /\ caller' \in [Callers -> Own] /\ ReadingsBounded' /\ caller[c] \in Own
        /\ caller \in [Callers -> Own] /\ MovesOn(caller, caller', c, own)
    BY <1>1, CallerMoves
  <2> SUFFICES ASSUME NEW x \in Int
               PROVE  /\ RequestsDue(caller', x) <= RequestsDue(caller, x)
                      /\ TokensDue(caller', x) <= TokensDue(caller, x)
                      /\ SearchesDue(caller', x) <= SearchesDue(caller, x)
                      /\ RequestsDue(caller, x) \in Nat /\ RequestsDue(caller', x) \in Nat
                      /\ TokensDue(caller, x) \in Nat /\ TokensDue(caller', x) \in Nat
                      /\ SearchesDue(caller, x) \in Nat /\ SearchesDue(caller', x) \in Nat
    BY <2>1
  <2>2. /\ RequestDue(own, x) \in Nat /\ RequestDue(caller[c], x) \in Nat
        /\ TokenDue(own, x) \in Nat /\ TokenDue(caller[c], x) \in Nat
        /\ SearchDue(own, x) \in Nat /\ SearchDue(caller[c], x) \in Nat
        /\ RequestDue(own, x) <= RequestDue(caller[c], x)
        /\ TokenDue(own, x) <= TokenDue(caller[c], x)
        /\ SearchDue(own, x) <= SearchDue(caller[c], x)
    BY <2>1, DueIsNatural
  <2>3. /\ RequestsDue(caller, x) \in Nat /\ RequestsDue(caller', x) \in Nat
        /\ RequestsDue(caller', x) + RequestDue(caller[c], x)
             = RequestsDue(caller, x) + RequestDue(own, x)
        /\ TokensDue(caller, x) \in Nat /\ TokensDue(caller', x) \in Nat
        /\ TokensDue(caller', x) + TokenDue(caller[c], x)
             = TokensDue(caller, x) + TokenDue(own, x)
        /\ SearchesDue(caller, x) \in Nat /\ SearchesDue(caller', x) \in Nat
        /\ SearchesDue(caller', x) + SearchDue(caller[c], x)
             = SearchesDue(caller, x) + SearchDue(own, x)
    BY <2>1, DueMoves
  <2> QED
    BY <2>2, <2>3
<1>3. WindowsShape'
  BY <1>1, <1>2 DEF WindowsInv, WindowsShape
<1>4. \A x \in Int :
        /\ Since(sentRequests, x) \in Nat /\ Since(sentTokens, x) \in Nat
        /\ Since(sentSearches, x) \in Nat
        /\ Entered(rpm, x) \in Nat /\ Entered(tpm, x) \in Nat
        /\ SearchEntered(last, x) \in Nat
  BY SummableHistory, SummableWindow DEF WindowsInv, WindowsShape, SearchEntered
<1>5. RequestsCovered'
  <2> SUFFICES ASSUME NEW x \in Int, Clear(x, Window)
               PROVE  Since(sentRequests, x) + RequestsDue(caller', x) <= Entered(rpm, x)
    BY <1>1 DEF RequestsCovered, Clear
  <2>1. Since(sentRequests, x) + RequestsDue(caller, x) <= Entered(rpm, x)
    BY DEF WindowsInv, RequestsCovered
  <2>2. /\ RequestsDue(caller', x) <= RequestsDue(caller, x)
        /\ RequestsDue(caller, x) \in Nat /\ RequestsDue(caller', x) \in Nat
        /\ Since(sentRequests, x) \in Nat /\ Entered(rpm, x) \in Nat
    BY <1>2, <1>4
  <2> QED
    BY <2>1, <2>2
<1>6. TokensCovered'
  <2> SUFFICES ASSUME NEW x \in Int, Clear(x, Window)
               PROVE  Since(sentTokens, x) + TokensDue(caller', x) <= Entered(tpm, x)
    BY <1>1 DEF TokensCovered, Clear
  <2>1. Since(sentTokens, x) + TokensDue(caller, x) <= Entered(tpm, x)
    BY DEF WindowsInv, TokensCovered
  <2>2. /\ TokensDue(caller', x) <= TokensDue(caller, x)
        /\ TokensDue(caller, x) \in Nat /\ TokensDue(caller', x) \in Nat
        /\ Since(sentTokens, x) \in Nat /\ Entered(tpm, x) \in Nat
    BY <1>2, <1>4
  <2> QED
    BY <2>1, <2>2
<1>7. SearchesCovered'
  <2> SUFFICES ASSUME NEW x \in Int, Clear(x, Interval)
               PROVE  Since(sentSearches, x) + SearchesDue(caller', x) <= SearchEntered(last, x)
    BY <1>1 DEF SearchesCovered, Clear
  <2>1. Since(sentSearches, x) + SearchesDue(caller, x) <= SearchEntered(last, x)
    BY DEF WindowsInv, SearchesCovered
  <2>2. /\ SearchesDue(caller', x) <= SearchesDue(caller, x)
        /\ SearchesDue(caller, x) \in Nat /\ SearchesDue(caller', x) \in Nat
        /\ Since(sentSearches, x) \in Nat /\ SearchEntered(last, x) \in Nat
    BY <1>2, <1>4
  <2> QED
    BY <2>1, <2>2
<1>8. WindowsWithin'
  BY <1>1 DEF WindowsInv, WindowsWithin
<1> QED
  BY <1>2, <1>3, <1>5, <1>6, <1>7, <1>8 DEF WindowsInv

LEMMA IdleOwes ==
  \A own \in {Idle, Waiting} :
    /\ own \in Own /\ Reading(own)
    /\ \A x \in Int : RequestDue(own, x) = 0 /\ TokenDue(own, x) = 0 /\ SearchDue(own, x) = 0
<1> SUFFICES ASSUME NEW own \in {Idle, Waiting}
             PROVE  /\ own \in Own /\ Reading(own)
                    /\ \A x \in Int : /\ RequestDue(own, x) = 0 /\ TokenDue(own, x) = 0
                                       /\ SearchDue(own, x) = 0
  OBVIOUS
<1>1. 0 \in Stamps /\ 0 \in Times
  BY WindowNumbers
<1>2. PICK place \in {"idle", "sent"} :
        own = [pc |-> place, kind |-> "inference", now |-> 0, since |-> 0,
               weight |-> 0, seconds |-> 0, covered |-> FALSE]
  BY DEF Idle, Waiting
<1>3. own \in Own
  BY <1>1, <1>2 DEF Own, CallerPcs, Dimensions
<1> QED
  BY <1>2, <1>3 DEF Reading, HoldsReading, RequestDue, TokenDue, SearchDue

(* A caller that gives up.                                                 *)
LEMMA GivingUpKeeps ==
  ASSUME WindowsInv, NEW c \in Callers, caller' = [caller EXCEPT ![c] = Idle],
         UNCHANGED <<clock, rpm, tpm, last, sent, assured>>,
         pause' = pause, ignored' = ignored
  PROVE  WindowsInv'
<1>1. caller[c] \in Own
  BY DEF WindowsInv, WindowsShape
<1>2. \A x \in Int : /\ RequestDue(Idle, x) <= RequestDue(caller[c], x)
                     /\ TokenDue(Idle, x) <= TokenDue(caller[c], x)
                     /\ SearchDue(Idle, x) <= SearchDue(caller[c], x)
  BY <1>1, IdleOwes, DueIsNatural
<1> QED
  BY <1>2, IdleOwes, CallerYields

LEMMA ReadClockKeeps ==
  ASSUME WindowsInv, NEW c \in Callers, NEW kind \in Dimensions, NEW weight \in Nat,
         NEW ahead \in 0 .. MaxSkew, kind = "search" => weight = 0,
         ReadClock(c, kind, weight, ahead)
  PROVE  WindowsInv'
<1> DEFINE own == [pc |-> "read", kind |-> kind, now |-> clock + ahead, since |-> clock,
                   weight |-> weight, seconds |-> 0,
                   covered |-> clock + MaxLag + MaxSkew < assured[kind]]
<1>1. clock \in Times /\ clock \in Nat /\ ahead \in Nat /\ ahead <= MaxSkew
  BY WindowNumbers DEF WindowsInv, WindowsShape
<1>2. own \in Own
  <2>1. clock + ahead \in Stamps
    BY <1>1, WindowNumbers DEF Times, Stamps
  <2> QED
    BY <1>1, <2>1 DEF Own, CallerPcs
<1>3. Reading(own)
  BY <1>1, WindowNumbers DEF Reading, HoldsReading
<1>4. caller' = [caller EXCEPT ![c] = own]
  BY DEF ReadClock
<1>5. \A x \in Int : RequestDue(own, x) = 0 /\ TokenDue(own, x) = 0 /\ SearchDue(own, x) = 0
  BY DEF RequestDue, TokenDue, SearchDue
<1> HIDE DEF own
<1>6. caller[c] \in Own
  BY DEF WindowsInv, WindowsShape
<1>7. \A x \in Int : /\ RequestDue(own, x) <= RequestDue(caller[c], x)
                     /\ TokenDue(own, x) <= TokenDue(caller[c], x)
                     /\ SearchDue(own, x) <= SearchDue(caller[c], x)
  BY <1>5, <1>6, DueIsNatural
<1> QED
  BY <1>2, <1>3, <1>4, <1>7, CallerYields DEF ReadClock, signals

LEMMA CheckPauseKeeps ==
  ASSUME WindowsInv, NEW c \in Callers, CheckPause(c)
  PROVE  WindowsInv'
<1>1. CASE Paused(c)
  <2>1. caller' = [caller EXCEPT ![c] = Idle]
    BY <1>1 DEF CheckPause
  <2> QED
    BY <2>1, GivingUpKeeps DEF CheckPause, signals
<1>2. CASE ~Paused(c)
  <2> DEFINE own == [caller[c] EXCEPT !.pc = "open"]
  <2>1. caller[c] \in Own /\ caller[c].pc = "read" /\ Reading(caller[c])
    BY DEF CheckPause, WindowsInv, WindowsShape, ReadingsBounded
  <2>2. own \in Own
    BY <2>1 DEF Own, CallerPcs
  <2>3. Reading(own)
    BY <2>1 DEF Own, Reading, HoldsReading
  <2>4. caller' = [caller EXCEPT ![c] = own]
    BY <1>2 DEF CheckPause
  <2>5. \A x \in Int : RequestDue(own, x) = 0 /\ TokenDue(own, x) = 0 /\ SearchDue(own, x) = 0
    BY <2>1 DEF Own, RequestDue, TokenDue, SearchDue
  <2> HIDE DEF own
  <2>6. \A x \in Int : /\ RequestDue(own, x) <= RequestDue(caller[c], x)
                       /\ TokenDue(own, x) <= TokenDue(caller[c], x)
                       /\ SearchDue(own, x) <= SearchDue(caller[c], x)
    BY <2>1, <2>5, DueIsNatural
  <2> QED
    BY <2>2, <2>3, <2>4, <2>6, CallerYields DEF CheckPause, signals
<1> QED
  BY <1>1, <1>2

(* What a clock that runs ahead still counts.                              *)
LEMMA StillCounted ==
  ASSUME WindowsInv, NEW c \in Callers, HoldsReading(caller[c]), NEW x \in Int,
         NEW s \in Stamps, s + MaxLag >= x
  PROVE  /\ Clear(x, Window) => s + Window > caller[c].now
         /\ Clear(x, Interval) => s + Interval > caller[c].now
<1>1. Reading(caller[c]) /\ caller[c] \in Own /\ clock \in Nat
  BY WindowNumbers DEF WindowsInv, WindowsShape, ReadingsBounded
<1>2. /\ caller[c].now \in Nat /\ caller[c].since \in Nat
      /\ caller[c].since <= clock /\ caller[c].now <= caller[c].since + MaxSkew
  BY <1>1, WindowNumbers DEF Own, Reading, HoldsReading
<1>3. s \in Nat
  BY WindowNumbers
<1> QED
  BY <1>1, <1>2, <1>3, WindowNumbers DEF Clear

LEMMA AdmitRpmKeeps ==
  ASSUME WindowsInv, NEW c \in Callers, AdmitRpm(c)
  PROVE  WindowsInv'
<1> DEFINE old == caller[c]
           fits == FitsWindow(Pruned(rpm, old.now), 1, MaxRpm)
           own == IF fits THEN [old EXCEPT !.pc = "counted"] ELSE Idle
<1>1. /\ old \in Own /\ old.pc = "open" /\ old.kind = "inference" /\ Reading(old)
      /\ old.now \in Stamps /\ old.now \in Nat /\ old.since \in Nat
      /\ old.since <= old.now /\ clock <= old.since + MaxLag
      /\ rpm' = Admitted(rpm, old.now, 1, MaxRpm)
      /\ caller' = [caller EXCEPT ![c] = own]
      /\ clock' = clock /\ tpm' = tpm /\ last' = last /\ assured' = assured
      /\ pause' = pause /\ ignored' = ignored
      /\ sentRequests' = sentRequests /\ sentTokens' = sentTokens
      /\ sentSearches' = sentSearches
      /\ rpm \in [Stamps -> Nat] /\ Used(rpm) <= MaxRpm
  <2>1. old \in Own /\ old.pc = "open" /\ old.kind = "inference" /\ Reading(old)
    BY DEF AdmitRpm, WindowsInv, WindowsShape, ReadingsBounded
  <2>2. /\ old.now \in Stamps /\ old.now \in Nat /\ old.since \in Nat
        /\ old.since <= old.now /\ clock <= old.since + MaxLag
    BY <2>1, WindowNumbers DEF Own, Reading, HoldsReading
  <2> QED
    BY <2>1, <2>2 DEF AdmitRpm, Fits, WindowsInv, WindowsShape, WindowsWithin, sent, signals
<1>2. own \in Own /\ Reading(own)
  <2>1. [old EXCEPT !.pc = "counted"] \in Own /\ Reading([old EXCEPT !.pc = "counted"])
    BY <1>1 DEF Own, CallerPcs, Reading, HoldsReading
  <2> QED
    BY <2>1, IdleOwes
<1>3. \A x \in Int :
        /\ RequestDue(old, x) = 0
        /\ RequestDue(own, x) = IF fits /\ old.since + MaxLag >= x THEN 1 ELSE 0
        /\ TokenDue(old, x) = 0 /\ TokenDue(own, x) = 0
        /\ SearchDue(old, x) = 0 /\ SearchDue(own, x) = 0
  BY <1>1, IdleOwes DEF Own, RequestDue, TokenDue, SearchDue
<1> HIDE DEF own
<1>4. /\ caller' \in [Callers -> Own] /\ ReadingsBounded'
      /\ MovesOn(caller, caller', c, own)
  BY <1>1, <1>2, CallerMoves
<1>5. /\ rpm' \in [Stamps -> Nat] /\ Used(rpm') <= MaxRpm
      /\ \A x \in Int :
           (\A s \in Stamps : s + MaxLag >= x => s + Window > old.now) =>
             Entered(rpm', x) = Entered(rpm, x)
               + (IF fits /\ old.now + MaxLag >= x THEN 1 ELSE 0)
  <2> HIDE DEF old
  <2>1. 1 \in Nat /\ MaxRpm \in Nat
    BY WindowNumbers
  <2> QED
    BY <1>1, <2>1, ScriptAdmits
<1>6. ASSUME NEW x \in Int
      PROVE  /\ RequestsDue(caller', x) = RequestsDue(caller, x) + RequestDue(own, x)
             /\ TokensDue(caller', x) = TokensDue(caller, x)
             /\ SearchesDue(caller', x) = SearchesDue(caller, x)
             /\ RequestsDue(caller, x) \in Nat /\ Since(sentRequests, x) \in Nat
             /\ Entered(rpm, x) \in Nat
  <2>1. /\ RequestsDue(caller, x) \in Nat /\ RequestsDue(caller', x) \in Nat
        /\ RequestsDue(caller', x) + RequestDue(old, x)
             = RequestsDue(caller, x) + RequestDue(own, x)
        /\ TokensDue(caller, x) \in Nat /\ TokensDue(caller', x) \in Nat
        /\ TokensDue(caller', x) + TokenDue(old, x)
             = TokensDue(caller, x) + TokenDue(own, x)
        /\ SearchesDue(caller, x) \in Nat /\ SearchesDue(caller', x) \in Nat
        /\ SearchesDue(caller', x) + SearchDue(old, x)
             = SearchesDue(caller, x) + SearchDue(own, x)
    BY <1>4, DueMoves
  <2>2. /\ RequestDue(old, x) = 0 /\ RequestDue(own, x) \in Nat
        /\ TokenDue(old, x) = 0 /\ TokenDue(own, x) = 0
        /\ SearchDue(old, x) = 0 /\ SearchDue(own, x) = 0
    BY <1>2, <1>3, DueIsNatural
  <2>3. Since(sentRequests, x) \in Nat /\ Entered(rpm, x) \in Nat
    BY SummableHistory, SummableWindow DEF WindowsInv, WindowsShape
  <2> QED
    BY <2>1, <2>2, <2>3
<1>7. WindowsShape'
  BY <1>1, <1>4, <1>5 DEF WindowsInv, WindowsShape
<1>8. RequestsCovered'
  <2> SUFFICES ASSUME NEW x \in Int, Clear(x, Window)
               PROVE  Since(sentRequests, x) + RequestsDue(caller', x) <= Entered(rpm', x)
    BY <1>1 DEF RequestsCovered, Clear
  <2>1. Since(sentRequests, x) + RequestsDue(caller, x) <= Entered(rpm, x)
    BY DEF WindowsInv, RequestsCovered
  <2>2. \A s \in Stamps : s + MaxLag >= x => s + Window > old.now
    BY <1>1, StillCounted DEF HoldsReading
  <2>3. Entered(rpm', x) = Entered(rpm, x) + (IF fits /\ old.now + MaxLag >= x THEN 1 ELSE 0)
    BY <1>5, <2>2
  <2>4. RequestDue(own, x) <= (IF fits /\ old.now + MaxLag >= x THEN 1 ELSE 0)
        /\ RequestDue(own, x) \in Nat
    BY <1>1, <1>3, WindowNumbers
  <2>5. /\ RequestsDue(caller', x) = RequestsDue(caller, x) + RequestDue(own, x)
        /\ RequestsDue(caller, x) \in Nat /\ Since(sentRequests, x) \in Nat
        /\ Entered(rpm, x) \in Nat
    BY <1>6
  <2> QED
    BY <2>1, <2>3, <2>4, <2>5
<1>9. TokensCovered'
  BY <1>1, <1>6 DEF WindowsInv, TokensCovered, Clear
<1>10. SearchesCovered'
  BY <1>1, <1>6 DEF WindowsInv, SearchesCovered, Clear
<1>11. WindowsWithin'
  BY <1>1, <1>5 DEF WindowsInv, WindowsWithin
<1> QED
  BY <1>4, <1>7, <1>8, <1>9, <1>10, <1>11 DEF WindowsInv

LEMMA AdmitTpmKeeps ==
  ASSUME WindowsInv, NEW c \in Callers, AdmitTpm(c)
  PROVE  WindowsInv'
<1> DEFINE old == caller[c]
           fits == FitsWindow(Pruned(tpm, old.now), old.weight, MaxTpm)
           own == IF fits THEN [old EXCEPT !.pc = "admitted"] ELSE Idle
<1>1. /\ old \in Own /\ old.pc = "counted" /\ old.kind = "inference" /\ Reading(old)
      /\ old.now \in Stamps /\ old.now \in Nat /\ old.since \in Nat /\ old.weight \in Nat
      /\ old.since <= old.now /\ clock <= old.since + MaxLag
      /\ tpm' = Admitted(tpm, old.now, old.weight, MaxTpm)
      /\ caller' = [caller EXCEPT ![c] = own]
      /\ clock' = clock /\ rpm' = rpm /\ last' = last /\ assured' = assured
      /\ pause' = pause /\ ignored' = ignored
      /\ sentRequests' = sentRequests /\ sentTokens' = sentTokens
      /\ sentSearches' = sentSearches
      /\ tpm \in [Stamps -> Nat] /\ Used(tpm) <= MaxTpm
  <2>1. old \in Own /\ old.pc = "counted" /\ Reading(old)
    BY DEF AdmitTpm, WindowsInv, WindowsShape, ReadingsBounded
  <2>2. /\ old.now \in Stamps /\ old.now \in Nat /\ old.since \in Nat /\ old.weight \in Nat
        /\ old.since <= old.now /\ clock <= old.since + MaxLag /\ old.kind = "inference"
    BY <2>1, WindowNumbers DEF Own, Reading, HoldsReading
  <2> QED
    BY <2>1, <2>2 DEF AdmitTpm, Fits, WindowsInv, WindowsShape, WindowsWithin, sent, signals
<1>2. own \in Own /\ Reading(own)
  <2>1. [old EXCEPT !.pc = "admitted"] \in Own /\ Reading([old EXCEPT !.pc = "admitted"])
    BY <1>1 DEF Own, CallerPcs, Reading, HoldsReading
  <2> QED
    BY <2>1, IdleOwes
<1>3. \A x \in Int :
        /\ RequestDue(own, x) <= RequestDue(old, x)
        /\ TokenDue(old, x) = 0
        /\ TokenDue(own, x) = IF fits /\ old.since + MaxLag >= x THEN old.weight ELSE 0
        /\ SearchDue(old, x) = 0 /\ SearchDue(own, x) = 0
  BY <1>1, IdleOwes DEF Own, RequestDue, TokenDue, SearchDue
<1> HIDE DEF own
<1>4. /\ caller' \in [Callers -> Own] /\ ReadingsBounded'
      /\ MovesOn(caller, caller', c, own)
  BY <1>1, <1>2, CallerMoves
<1>5. /\ tpm' \in [Stamps -> Nat] /\ Used(tpm') <= MaxTpm
      /\ \A x \in Int :
           (\A s \in Stamps : s + MaxLag >= x => s + Window > old.now) =>
             Entered(tpm', x) = Entered(tpm, x)
               + (IF fits /\ old.now + MaxLag >= x THEN old.weight ELSE 0)
  <2> HIDE DEF old
  <2>1. MaxTpm \in Nat
    BY WindowNumbers
  <2> QED
    BY <1>1, <2>1, ScriptAdmits
<1>6. ASSUME NEW x \in Int
      PROVE  /\ RequestsDue(caller', x) <= RequestsDue(caller, x)
             /\ RequestsDue(caller', x) \in Nat
             /\ TokensDue(caller', x) = TokensDue(caller, x) + TokenDue(own, x)
             /\ SearchesDue(caller', x) = SearchesDue(caller, x)
             /\ RequestsDue(caller, x) \in Nat /\ Since(sentRequests, x) \in Nat
             /\ Entered(rpm, x) \in Nat
             /\ TokensDue(caller, x) \in Nat /\ Since(sentTokens, x) \in Nat
             /\ Entered(tpm, x) \in Nat
  <2>1. /\ RequestsDue(caller, x) \in Nat /\ RequestsDue(caller', x) \in Nat
        /\ RequestsDue(caller', x) + RequestDue(old, x)
             = RequestsDue(caller, x) + RequestDue(own, x)
        /\ TokensDue(caller, x) \in Nat /\ TokensDue(caller', x) \in Nat
        /\ TokensDue(caller', x) + TokenDue(old, x)
             = TokensDue(caller, x) + TokenDue(own, x)
        /\ SearchesDue(caller, x) \in Nat /\ SearchesDue(caller', x) \in Nat
        /\ SearchesDue(caller', x) + SearchDue(old, x)
             = SearchesDue(caller, x) + SearchDue(own, x)
    BY <1>4, DueMoves
  <2>2. /\ RequestDue(old, x) \in Nat /\ RequestDue(own, x) \in Nat
        /\ RequestDue(own, x) <= RequestDue(old, x)
        /\ TokenDue(old, x) = 0 /\ TokenDue(own, x) \in Nat
        /\ SearchDue(old, x) = 0 /\ SearchDue(own, x) = 0
    BY <1>1, <1>2, <1>3, DueIsNatural
  <2>3. /\ Since(sentRequests, x) \in Nat /\ Entered(rpm, x) \in Nat
        /\ Since(sentTokens, x) \in Nat /\ Entered(tpm, x) \in Nat
    BY SummableHistory, SummableWindow DEF WindowsInv, WindowsShape
  <2> QED
    BY <2>1, <2>2, <2>3
<1>7. WindowsShape'
  BY <1>1, <1>4, <1>5 DEF WindowsInv, WindowsShape
<1>8. RequestsCovered'
  <2> SUFFICES ASSUME NEW x \in Int, Clear(x, Window)
               PROVE  Since(sentRequests, x) + RequestsDue(caller', x) <= Entered(rpm, x)
    BY <1>1 DEF RequestsCovered, Clear
  <2>1. Since(sentRequests, x) + RequestsDue(caller, x) <= Entered(rpm, x)
    BY DEF WindowsInv, RequestsCovered
  <2> QED
    BY <1>6, <2>1
<1>9. TokensCovered'
  <2> SUFFICES ASSUME NEW x \in Int, Clear(x, Window)
               PROVE  Since(sentTokens, x) + TokensDue(caller', x) <= Entered(tpm', x)
    BY <1>1 DEF TokensCovered, Clear
  <2>1. Since(sentTokens, x) + TokensDue(caller, x) <= Entered(tpm, x)
    BY DEF WindowsInv, TokensCovered
  <2>2. \A s \in Stamps : s + MaxLag >= x => s + Window > old.now
    BY <1>1, StillCounted DEF HoldsReading
  <2>3. Entered(tpm', x)
          = Entered(tpm, x) + (IF fits /\ old.now + MaxLag >= x THEN old.weight ELSE 0)
    BY <1>5, <2>2
  <2>4. TokenDue(own, x) <= (IF fits /\ old.now + MaxLag >= x THEN old.weight ELSE 0)
        /\ TokenDue(own, x) \in Nat
    BY <1>1, <1>3, WindowNumbers
  <2>5. /\ TokensDue(caller', x) = TokensDue(caller, x) + TokenDue(own, x)
        /\ TokensDue(caller, x) \in Nat /\ Since(sentTokens, x) \in Nat
        /\ Entered(tpm, x) \in Nat
    BY <1>6
  <2>6. (IF fits /\ old.now + MaxLag >= x THEN old.weight ELSE 0) \in Nat
    BY <1>1
  <2> QED
    BY <2>1, <2>3, <2>4, <2>5, <2>6
<1>10. SearchesCovered'
  BY <1>1, <1>6 DEF WindowsInv, SearchesCovered, Clear
<1>11. WindowsWithin'
  BY <1>1, <1>5 DEF WindowsInv, WindowsWithin
<1> QED
  BY <1>4, <1>7, <1>8, <1>9, <1>10, <1>11 DEF WindowsInv

LEMMA AdmitSearchKeeps ==
  ASSUME WindowsInv, NEW c \in Callers, AdmitSearch(c)
  PROVE  WindowsInv'
<1>1. CASE ~IntervalElapsed(caller[c].now)
  <2>1. caller' = [caller EXCEPT ![c] = Idle] /\ last' = last
    BY <1>1 DEF AdmitSearch
  <2> QED
    BY <2>1, GivingUpKeeps DEF AdmitSearch, signals
<1>2. CASE IntervalElapsed(caller[c].now)
  <2> DEFINE old == caller[c]
             own == [old EXCEPT !.pc = "admitted"]
  <2>1. /\ old \in Own /\ old.pc = "open" /\ old.kind = "search" /\ Reading(old)
        /\ old.weight = 0 /\ old.now \in Stamps /\ old.now \in Nat /\ old.since \in Nat
        /\ old.since <= old.now
        /\ last \in Stamps /\ last \in Nat /\ last' = old.now /\ old.now >= last + Interval
        /\ caller' = [caller EXCEPT ![c] = own]
        /\ clock' = clock /\ rpm' = rpm /\ tpm' = tpm /\ assured' = assured
        /\ pause' = pause /\ ignored' = ignored
        /\ sentRequests' = sentRequests /\ sentTokens' = sentTokens
        /\ sentSearches' = sentSearches
    <3>1. old \in Own /\ old.pc = "open" /\ old.kind = "search" /\ Reading(old)
      BY DEF AdmitSearch, WindowsInv, WindowsShape, ReadingsBounded
    <3>2. /\ old.now \in Stamps /\ old.now \in Nat /\ old.since \in Nat /\ old.weight = 0
          /\ old.since <= old.now
      BY <3>1, WindowNumbers DEF Own, Reading, HoldsReading
    <3>3. caller \in [Callers -> Own] /\ last \in Stamps /\ last \in Nat
      BY WindowNumbers DEF WindowsInv, WindowsShape
    <3> QED
      BY <1>2, <3>1, <3>2, <3>3 DEF AdmitSearch, IntervalElapsed, sent, signals
  <2>2. own \in Own /\ Reading(own)
    BY <2>1 DEF Own, CallerPcs, Reading, HoldsReading
  <2>3. \A x \in Int :
          /\ RequestDue(old, x) = 0 /\ RequestDue(own, x) = 0
          /\ TokenDue(old, x) = 0 /\ TokenDue(own, x) = 0
          /\ SearchDue(old, x) = 0
          /\ SearchDue(own, x) = IF old.since + MaxLag >= x THEN 1 ELSE 0
    BY <2>1 DEF Own, RequestDue, TokenDue, SearchDue
  <2> HIDE DEF own
  <2>4. /\ caller' \in [Callers -> Own] /\ ReadingsBounded'
        /\ MovesOn(caller, caller', c, own)
    BY <2>1, <2>2, CallerMoves
  <2>5. ASSUME NEW x \in Int
        PROVE  /\ RequestsDue(caller', x) = RequestsDue(caller, x)
               /\ TokensDue(caller', x) = TokensDue(caller, x)
               /\ SearchesDue(caller', x) = SearchesDue(caller, x) + SearchDue(own, x)
               /\ SearchesDue(caller, x) \in Nat /\ Since(sentSearches, x) \in Nat
    <3>1. /\ RequestsDue(caller, x) \in Nat /\ RequestsDue(caller', x) \in Nat
          /\ RequestsDue(caller', x) + RequestDue(old, x)
               = RequestsDue(caller, x) + RequestDue(own, x)
          /\ TokensDue(caller, x) \in Nat /\ TokensDue(caller', x) \in Nat
          /\ TokensDue(caller', x) + TokenDue(old, x)
               = TokensDue(caller, x) + TokenDue(own, x)
          /\ SearchesDue(caller, x) \in Nat /\ SearchesDue(caller', x) \in Nat
          /\ SearchesDue(caller', x) + SearchDue(old, x)
               = SearchesDue(caller, x) + SearchDue(own, x)
      BY <2>4, DueMoves
    <3>2. /\ RequestDue(old, x) = 0 /\ RequestDue(own, x) = 0
          /\ TokenDue(old, x) = 0 /\ TokenDue(own, x) = 0
          /\ SearchDue(old, x) = 0 /\ SearchDue(own, x) \in Nat
      BY <2>2, <2>3, DueIsNatural
    <3>3. Since(sentSearches, x) \in Nat
      BY SummableHistory DEF WindowsInv, WindowsShape
    <3> QED
      BY <3>1, <3>2, <3>3
  <2>6. WindowsShape'
    BY <2>1, <2>4 DEF WindowsInv, WindowsShape
  <2>7. RequestsCovered' /\ TokensCovered'
    BY <2>1, <2>5 DEF WindowsInv, RequestsCovered, TokensCovered, Clear
  <2>8. SearchesCovered'
    <3> SUFFICES ASSUME NEW x \in Int, Clear(x, Interval)
                 PROVE  Since(sentSearches, x) + SearchesDue(caller', x)
                          <= SearchEntered(old.now, x)
      BY <2>1 DEF SearchesCovered, Clear
    <3>1. Since(sentSearches, x) + SearchesDue(caller, x) <= SearchEntered(last, x)
      BY DEF WindowsInv, SearchesCovered
    <3>2. ~(last + MaxLag >= x)
      <4>1. last + MaxLag >= x => last + Interval > old.now
        BY <2>1, StillCounted DEF HoldsReading
      <4> QED
        BY <2>1, <4>1, WindowNumbers
    <3>3. SearchEntered(last, x) = 0
      BY <3>2 DEF SearchEntered
    <3>4. SearchDue(own, x) <= SearchEntered(old.now, x)
          /\ SearchDue(own, x) \in Nat /\ SearchEntered(old.now, x) \in Nat
      BY <2>1, <2>3, WindowNumbers DEF SearchEntered
    <3>5. /\ SearchesDue(caller', x) = SearchesDue(caller, x) + SearchDue(own, x)
          /\ SearchesDue(caller, x) \in Nat /\ Since(sentSearches, x) \in Nat
      BY <2>5
    <3> QED
      BY <3>1, <3>3, <3>4, <3>5
  <2>9. WindowsWithin'
    BY <2>1 DEF WindowsInv, WindowsWithin
  <2> QED
    BY <2>4, <2>6, <2>7, <2>8, <2>9 DEF WindowsInv
<1> QED
  BY <1>1, <1>2

LEMMA SendKeeps ==
  ASSUME WindowsInv, NEW c \in Callers, SendAdmitted(c)
  PROVE  WindowsInv'
<1> DEFINE old == caller[c]
           one == IF old.kind = "inference" THEN 1 ELSE 0
           search == IF old.kind = "inference" THEN 0 ELSE 1
           next == IF old.kind = "inference" THEN Waiting ELSE Idle
<1>1. /\ old \in Own /\ old.pc = "admitted" /\ Reading(old) /\ old.weight \in Nat
      /\ old.since \in Nat /\ clock <= old.since + MaxLag /\ clock \in Times /\ clock \in Nat
      /\ old.kind \in {"inference", "search"}
  BY WindowNumbers
     DEF SendAdmitted, WindowsInv, WindowsShape, ReadingsBounded, Own, Reading, HoldsReading, Dimensions
<1>2. /\ sentRequests \in [Times -> Nat] /\ sentTokens \in [Times -> Nat]
      /\ sentSearches \in [Times -> Nat] /\ ignored \in BOOLEAN
  BY DEF WindowsInv, WindowsShape
<1>3. /\ caller' = [caller EXCEPT ![c] = next]
      /\ sentRequests' = [sentRequests EXCEPT ![clock] = @ + one]
      /\ sentTokens' = [sentTokens EXCEPT ![clock] = @ + old.weight]
      /\ sentSearches' = [sentSearches EXCEPT ![clock] = @ + search]
      /\ clock' = clock /\ rpm' = rpm /\ tpm' = tpm /\ last' = last
      /\ assured' = assured /\ pause' = pause
  <2>1. /\ caller' = [caller EXCEPT ![c] = next]
        /\ sentTokens' = [sentTokens EXCEPT ![clock] = @ + old.weight]
        /\ clock' = clock /\ rpm' = rpm /\ tpm' = tpm /\ last' = last
        /\ assured' = assured /\ pause' = pause
    BY DEF SendAdmitted
  <2>2. /\ sentRequests[clock] \in Nat /\ sentSearches[clock] \in Nat
        /\ sentRequests' = [sentRequests EXCEPT ![clock] =
                              IF old.kind = "inference" THEN @ + 1 ELSE @]
        /\ sentSearches' = [sentSearches EXCEPT ![clock] =
                              IF old.kind = "inference" THEN @ ELSE @ + 1]
    BY <1>1, <1>2 DEF SendAdmitted
  <2>3. CASE old.kind = "inference"
    <3>1. one = 1 /\ search = 0 /\ sentSearches[clock] = sentSearches[clock] + search
      BY <2>2, <2>3
    <3> HIDE DEF one, search
    <3> QED
      BY <2>1, <2>2, <2>3, <3>1
  <2>4. CASE old.kind # "inference"
    <3>1. one = 0 /\ search = 1 /\ sentRequests[clock] = sentRequests[clock] + one
      BY <2>2, <2>4
    <3> HIDE DEF one, search
    <3> QED
      BY <2>1, <2>2, <2>4, <3>1
  <2> QED
    BY <2>1, <2>3, <2>4
<1>4. \A x \in Int :
        /\ RequestDue(old, x)
             = IF old.kind = "inference" /\ old.since + MaxLag >= x THEN 1 ELSE 0
        /\ TokenDue(old, x) = IF old.since + MaxLag >= x THEN old.weight ELSE 0
        /\ SearchDue(old, x)
             = IF old.kind = "search" /\ old.since + MaxLag >= x THEN 1 ELSE 0
  BY <1>1 DEF RequestDue, TokenDue, SearchDue
<1>5. one \in Nat /\ search \in Nat
  OBVIOUS
<1>6. /\ caller' \in [Callers -> Own] /\ ReadingsBounded'
      /\ MovesOn(caller, caller', c, next)
  <2>1. next \in {Idle, Waiting}
    OBVIOUS
  <2> HIDE DEF next
  <2> QED
    BY <1>3, <2>1, IdleOwes, CallerMoves
<1>7. ASSUME NEW x \in Int
      PROVE  /\ sentRequests' \in [Times -> Nat] /\ sentTokens' \in [Times -> Nat]
             /\ sentSearches' \in [Times -> Nat]
             /\ Since(sentRequests', x) = Since(sentRequests, x) + (IF clock >= x THEN one ELSE 0)
             /\ Since(sentTokens', x)
                  = Since(sentTokens, x) + (IF clock >= x THEN old.weight ELSE 0)
             /\ Since(sentSearches', x)
                  = Since(sentSearches, x) + (IF clock >= x THEN search ELSE 0)
  <2> DEFINE weight == old.weight
  <2>1. weight \in Nat /\ sentTokens' = [sentTokens EXCEPT ![clock] = @ + weight]
    BY <1>1, <1>3
  <2>2. /\ Adds(sentRequests, sentRequests', clock, one)
        /\ Adds(sentTokens, sentTokens', clock, weight)
        /\ Adds(sentSearches, sentSearches', clock, search)
    BY <1>1, <1>2, <1>3, <1>5, <2>1 DEF Adds
  <2> HIDE DEF one, search, weight
  <2>3. /\ sentRequests' \in [Times -> Nat] /\ sentTokens' \in [Times -> Nat]
        /\ sentSearches' \in [Times -> Nat]
        /\ Since(sentRequests', x) = Since(sentRequests, x) + (IF clock >= x THEN one ELSE 0)
        /\ Since(sentTokens', x) = Since(sentTokens, x) + (IF clock >= x THEN weight ELSE 0)
        /\ Since(sentSearches', x) = Since(sentSearches, x) + (IF clock >= x THEN search ELSE 0)
    BY <2>2, HistoryGrows
  <2> QED
    BY <2>3 DEF weight
<1>8. ASSUME NEW x \in Int
      PROVE  /\ Since(sentRequests', x) + RequestsDue(caller', x)
                  <= Since(sentRequests, x) + RequestsDue(caller, x)
             /\ Since(sentTokens', x) + TokensDue(caller', x)
                  <= Since(sentTokens, x) + TokensDue(caller, x)
             /\ Since(sentSearches', x) + SearchesDue(caller', x)
                  <= Since(sentSearches, x) + SearchesDue(caller, x)
             /\ \A d \in {Since(sentRequests, x), Since(sentRequests', x),
                          Since(sentTokens, x), Since(sentTokens', x),
                          Since(sentSearches, x), Since(sentSearches', x),
                          RequestsDue(caller, x), RequestsDue(caller', x),
                          TokensDue(caller, x), TokensDue(caller', x),
                          SearchesDue(caller, x), SearchesDue(caller', x),
                          Entered(rpm, x), Entered(tpm, x), SearchEntered(last, x)} : d \in Nat
  <2>1. /\ RequestsDue(caller, x) \in Nat /\ RequestsDue(caller', x) \in Nat
        /\ RequestsDue(caller', x) + RequestDue(old, x)
             = RequestsDue(caller, x) + RequestDue(next, x)
        /\ TokensDue(caller, x) \in Nat /\ TokensDue(caller', x) \in Nat
        /\ TokensDue(caller', x) + TokenDue(old, x)
             = TokensDue(caller, x) + TokenDue(next, x)
        /\ SearchesDue(caller, x) \in Nat /\ SearchesDue(caller', x) \in Nat
        /\ SearchesDue(caller', x) + SearchDue(old, x)
             = SearchesDue(caller, x) + SearchDue(next, x)
    BY <1>6, DueMoves
  <2>2. RequestDue(next, x) = 0 /\ TokenDue(next, x) = 0 /\ SearchDue(next, x) = 0
    BY IdleOwes
  <2>3. /\ RequestDue(old, x) \in Nat /\ TokenDue(old, x) \in Nat /\ SearchDue(old, x) \in Nat
    BY <1>1, DueIsNatural
  <2>4. clock >= x => old.since + MaxLag >= x
    BY <1>1, WindowNumbers
  <2>5. /\ (IF clock >= x THEN one ELSE 0) <= RequestDue(old, x)
        /\ (IF clock >= x THEN old.weight ELSE 0) <= TokenDue(old, x)
        /\ (IF clock >= x THEN search ELSE 0) <= SearchDue(old, x)
    BY <1>1, <1>4, <2>4
  <2>6. /\ Since(sentRequests, x) \in Nat /\ Since(sentTokens, x) \in Nat
        /\ Since(sentSearches, x) \in Nat /\ Since(sentRequests', x) \in Nat
        /\ Since(sentTokens', x) \in Nat /\ Since(sentSearches', x) \in Nat
        /\ Entered(rpm, x) \in Nat /\ Entered(tpm, x) \in Nat /\ SearchEntered(last, x) \in Nat
    BY <1>2, <1>7, SummableHistory, SummableWindow DEF WindowsInv, WindowsShape, SearchEntered
  <2> DEFINE a == IF clock >= x THEN one ELSE 0
             b == IF clock >= x THEN old.weight ELSE 0
             d == IF clock >= x THEN search ELSE 0
  <2>7. /\ a \in Nat /\ b \in Nat /\ d \in Nat
        /\ Since(sentRequests', x) = Since(sentRequests, x) + a
        /\ Since(sentTokens', x) = Since(sentTokens, x) + b
        /\ Since(sentSearches', x) = Since(sentSearches, x) + d
        /\ a <= RequestDue(old, x) /\ b <= TokenDue(old, x) /\ d <= SearchDue(old, x)
    BY <1>1, <1>5, <1>7, <2>5
  <2> HIDE DEF a, b, d, old
  <2>8. Since(sentRequests', x) + RequestsDue(caller', x)
          <= Since(sentRequests, x) + RequestsDue(caller, x)
    BY <2>1, <2>2, <2>3, <2>6, <2>7
  <2>9. Since(sentTokens', x) + TokensDue(caller', x)
          <= Since(sentTokens, x) + TokensDue(caller, x)
    BY <2>1, <2>2, <2>3, <2>6, <2>7
  <2>10. Since(sentSearches', x) + SearchesDue(caller', x)
          <= Since(sentSearches, x) + SearchesDue(caller, x)
    BY <2>1, <2>2, <2>3, <2>6, <2>7
  <2> QED
    BY <2>1, <2>6, <2>8, <2>9, <2>10
<1>9. WindowsShape'
  <2>1. ignored' \in BOOLEAN
    BY Zenon DEF SendAdmitted
  <2>2. 0 \in Int
    OBVIOUS
  <2> QED
    BY <1>3, <1>6, <1>7, <2>1, <2>2 DEF WindowsInv, WindowsShape
<1>10. RequestsCovered'
  <2> SUFFICES ASSUME NEW x \in Int, Clear(x, Window)
               PROVE  Since(sentRequests', x) + RequestsDue(caller', x) <= Entered(rpm, x)
    BY <1>3 DEF RequestsCovered, Clear
  <2>1. Since(sentRequests, x) + RequestsDue(caller, x) <= Entered(rpm, x)
    BY DEF WindowsInv, RequestsCovered
  <2> QED
    BY <1>8, <2>1
<1>11. TokensCovered'
  <2> SUFFICES ASSUME NEW x \in Int, Clear(x, Window)
               PROVE  Since(sentTokens', x) + TokensDue(caller', x) <= Entered(tpm, x)
    BY <1>3 DEF TokensCovered, Clear
  <2>1. Since(sentTokens, x) + TokensDue(caller, x) <= Entered(tpm, x)
    BY DEF WindowsInv, TokensCovered
  <2> QED
    BY <1>8, <2>1
<1>12. SearchesCovered'
  <2> SUFFICES ASSUME NEW x \in Int, Clear(x, Interval)
               PROVE  Since(sentSearches', x) + SearchesDue(caller', x) <= SearchEntered(last, x)
    BY <1>3 DEF SearchesCovered, Clear
  <2>1. Since(sentSearches, x) + SearchesDue(caller, x) <= SearchEntered(last, x)
    BY DEF WindowsInv, SearchesCovered
  <2> QED
    BY <1>8, <2>1
<1>13. WindowsWithin'
  BY <1>3 DEF WindowsInv, WindowsWithin
<1> QED
  BY <1>6, <1>9, <1>10, <1>11, <1>12, <1>13 DEF WindowsInv

(* The answer of a request, and a signal, which holds a reading but owes   *)
(* no request, leave the windows and what went out alone.                  *)
LEMMA AnswerKeeps ==
  ASSUME WindowsInv, NEW c \in Callers,
         \/ Answered(c)
         \/ \E d \in Dimensions, seconds \in Pauses, ahead \in 0 .. MaxSkew :
              RateLimited(c, d, seconds, ahead)
  PROVE  WindowsInv'
<1>1. CASE Answered(c)
  BY <1>1, GivingUpKeeps DEF Answered, signals
<1>2. ASSUME NEW d \in Dimensions, NEW seconds \in Pauses, NEW ahead \in 0 .. MaxSkew,
             RateLimited(c, d, seconds, ahead)
      PROVE  WindowsInv'
  <2> DEFINE own == [pc |-> "signal", kind |-> d, now |-> clock + ahead, since |-> clock,
                     weight |-> 0, seconds |-> seconds, covered |-> FALSE]
  <2>1. clock \in Times /\ clock \in Nat /\ ahead \in Nat /\ ahead <= MaxSkew
    BY WindowNumbers DEF WindowsInv, WindowsShape
  <2>2. own \in Own
    <3>1. clock + ahead \in Stamps /\ seconds \in Nat
      BY <2>1, WindowNumbers DEF Times, Stamps
    <3> QED
      BY <2>1, <3>1 DEF Own, CallerPcs
  <2>3. Reading(own)
    BY <2>1, WindowNumbers DEF Reading, HoldsReading
  <2>4. caller' = [caller EXCEPT ![c] = own]
    BY <1>2 DEF RateLimited
  <2>5. \A x \in Int : RequestDue(own, x) = 0 /\ TokenDue(own, x) = 0 /\ SearchDue(own, x) = 0
    BY DEF RequestDue, TokenDue, SearchDue
  <2> HIDE DEF own
  <2>6. caller[c] \in Own
    BY DEF WindowsInv, WindowsShape
  <2>7. \A x \in Int : /\ RequestDue(own, x) <= RequestDue(caller[c], x)
                       /\ TokenDue(own, x) <= TokenDue(caller[c], x)
                       /\ SearchDue(own, x) <= SearchDue(caller[c], x)
    BY <2>5, <2>6, DueIsNatural
  <2> QED
    BY <1>2, <2>2, <2>3, <2>4, <2>7, CallerYields DEF RateLimited, signals
<1> QED
  BY <1>1, <1>2

LEMMA SetPauseKeeps ==
  ASSUME WindowsInv, NEW c \in Callers, SetPause(c)
  PROVE  WindowsInv'
<1> DEFINE own == caller[c]
           stored == [until |-> own.now + own.seconds, expires |-> clock + own.seconds]
           assures == clock + MinPause
<1>1. own \in Own /\ clock \in Nat /\ assures \in Nat /\ stored \in Stored
  <2>1. own \in Own /\ clock \in Nat
    BY WindowNumbers DEF WindowsInv, WindowsShape
  <2>2. own.now \in Nat /\ own.seconds \in Nat
    BY <2>1, WindowNumbers DEF Own
  <2> QED
    BY <2>1, <2>2, WindowNumbers DEF Stored
<1>2. /\ clock' = clock /\ rpm' = rpm /\ tpm' = tpm /\ last' = last
      /\ sentRequests' = sentRequests /\ sentTokens' = sentTokens
      /\ sentSearches' = sentSearches /\ ignored' = ignored
      /\ pause' = [pause EXCEPT ![own.kind] = stored]
      /\ assured' = [assured EXCEPT ![own.kind] = assures]
      /\ caller' = [caller EXCEPT ![c] = Idle]
  BY DEF SetPause, sent
<1> HIDE DEF stored, assures
<1>3. pause' \in [Dimensions -> Stored] /\ assured' \in [Dimensions -> Nat]
  BY <1>1, <1>2 DEF WindowsInv, WindowsShape
<1>4. /\ caller' \in [Callers -> Own] /\ ReadingsBounded'
      /\ caller \in [Callers -> Own] /\ MovesOn(caller, caller', c, Idle)
  BY <1>2, IdleOwes, CallerMoves
<1>5. WindowsShape'
  BY <1>2, <1>3, <1>4 DEF WindowsInv, WindowsShape
<1>6. \A x \in Int : /\ RequestDue(Idle, x) = 0 /\ TokenDue(Idle, x) = 0
                     /\ SearchDue(Idle, x) = 0
                     /\ RequestDue(own, x) = 0 /\ TokenDue(own, x) = 0
                     /\ SearchDue(own, x) = 0
  BY IdleOwes DEF SetPause, RequestDue, TokenDue, SearchDue
<1>7. \A x \in Int : /\ RequestsDue(caller', x) = RequestsDue(caller, x)
                     /\ TokensDue(caller', x) = TokensDue(caller, x)
                     /\ SearchesDue(caller', x) = SearchesDue(caller, x)
  BY <1>4, <1>6, DueMoves
<1> QED
  BY <1>2, <1>4, <1>5, <1>7
     DEF WindowsInv, RequestsCovered, TokensCovered, SearchesCovered, Clear, WindowsWithin

LEMMA WindowsStep == WindowsInv /\ [WindowsNext]_windowsVars => WindowsInv'
<1> SUFFICES ASSUME WindowsInv, [WindowsNext]_windowsVars PROVE WindowsInv'
  OBVIOUS
<1>1. CASE UNCHANGED windowsVars
  BY <1>1
     DEF windowsVars, WindowsInv, WindowsShape, ReadingsBounded, Reading, HoldsReading, RequestsCovered,
         TokensCovered, SearchesCovered, Clear, WindowsWithin
<1>2. CASE Tick
  BY <1>2, TickKeeps
<1>3. ASSUME NEW c \in Callers, CallerNext(c)
      PROVE  WindowsInv'
  <2>1. ASSUME NEW ahead \in 0 .. MaxSkew, NEW w \in Weights,
               ReadClock(c, "inference", w, ahead)
        PROVE  WindowsInv'
    <3>1. w \in Nat /\ "inference" \in Dimensions
      BY WindowNumbers DEF Dimensions
    <3> QED
      BY <2>1, <3>1, ReadClockKeeps
  <2>2. ASSUME NEW ahead \in 0 .. MaxSkew, ReadClock(c, "search", 0, ahead)
        PROVE  WindowsInv'
    <3>1. 0 \in Nat /\ "search" \in Dimensions
      BY DEF Dimensions
    <3> QED
      BY <2>2, <3>1, ReadClockKeeps
  <2> QED
    BY <1>3, <2>1, <2>2, CheckPauseKeeps, AdmitRpmKeeps, AdmitTpmKeeps,
       AdmitSearchKeeps, SendKeeps, AnswerKeeps, SetPauseKeeps DEF CallerNext
<1> QED
  BY <1>1, <1>2, <1>3 DEF WindowsNext

(* What the invariant says of the last span, shortened by the error of the *)
(* readings.                                                               *)
LEMMA WindowsInvCeilings == WindowsInv => RollingCeilings
<1> SUFFICES ASSUME WindowsInv PROVE RollingCeilings
  OBVIOUS
<1> DEFINE x == clock - (Window - MaxLag - MaxSkew) + 1
           y == clock - (Interval - MaxLag - MaxSkew) + 1
<1>1. /\ clock \in Nat /\ clock \in Times /\ x \in Int /\ y \in Int
      /\ Clear(x, Window) /\ Clear(y, Interval)
  BY WindowNumbers DEF WindowsInv, WindowsShape, Clear
<1>2. /\ sentRequests \in [Times -> Nat] /\ sentTokens \in [Times -> Nat]
      /\ sentSearches \in [Times -> Nat]
      /\ rpm \in [Stamps -> Nat] /\ tpm \in [Stamps -> Nat]
      /\ caller \in [Callers -> Own]
  BY DEF WindowsInv, WindowsShape
<1>3. ASSUME NEW history \in [Times -> Nat]
      PROVE  /\ Recent(history, Window - MaxLag - MaxSkew) <= Since(history, x)
             /\ Recent(history, Interval - MaxLag - MaxSkew) <= Since(history, y)
             /\ Recent(history, Window - MaxLag - MaxSkew) \in Nat
             /\ Recent(history, Interval - MaxLag - MaxSkew) \in Nat
  <2> DEFINE A(n) == {t \in Times : t <= clock /\ clock < t + n}
             W == Window - MaxLag - MaxSkew
             I == Interval - MaxLag - MaxSkew
  <2>1. /\ A(W) \subseteq {t \in Times : t >= x} /\ A(I) \subseteq {t \in Times : t >= y}
        /\ A(W) \subseteq Times /\ A(I) \subseteq Times
    <3>1. \A t \in Times : t \in Nat
      BY WindowNumbers
    <3>2. \A t \in A(W) : t \in Times /\ t >= x
      BY <1>1, <3>1, WindowNumbers
    <3>3. \A t \in A(I) : t \in Times /\ t >= y
      BY <1>1, <3>1, WindowNumbers
    <3> HIDE DEF x, y, W, I, A
    <3> QED
      BY <3>2, <3>3
  <2>2. IsFiniteSet(A(W)) /\ IsFiniteSet(A(I))
    <3> HIDE DEF A, W, I
    <3> QED
      BY <2>1, WindowNumbers, FS_Subset
  <2>3. /\ Recent(history, W) = Sum(history, A(W)) /\ Recent(history, I) = Sum(history, A(I))
    BY DEF Recent, Sum
  <2>4. Summable(history, A(W)) /\ Summable(history, A(I))
    BY <2>1, <2>2 DEF Summable
  <2>5. /\ Summable(history, {t \in Times : t >= x}) /\ Summable(history, {t \in Times : t >= y})
        /\ Since(history, x) = Sum(history, {t \in Times : t >= x})
        /\ Since(history, y) = Sum(history, {t \in Times : t >= y})
    BY <1>1, SummableHistory DEF Since
  <2> DEFINE X == {t \in Times : t >= x}
             Y == {t \in Times : t >= y}
  <2>6. /\ \A t \in A(W) : history[t] <= history[t]
        /\ \A t \in A(I) : history[t] <= history[t]
    BY <2>1
  <2> HIDE DEF A, W, I, X, Y, x, y
  <2>7. Sum(history, A(W)) <= Sum(history, X)
    BY <2>1, <2>4, <2>5, <2>6, SumGrows DEF X
  <2>8. Sum(history, A(I)) <= Sum(history, Y)
    BY <2>1, <2>4, <2>5, <2>6, SumGrows DEF Y
  <2>9. Sum(history, A(W)) \in Nat /\ Sum(history, A(I)) \in Nat
    BY <2>4, SumType
  <2> QED
    BY <2>3, <2>5, <2>7, <2>8, <2>9 DEF X, Y, W, I
<1>4. ASSUME NEW window \in [Stamps -> Nat]
      PROVE  Entered(window, x) <= Used(window)
  <2> DEFINE S == {s \in Stamps : s + MaxLag >= x}
  <2>1. /\ Summable(window, S) /\ Summable(window, Stamps)
        /\ Entered(window, x) = Sum(window, S) /\ Used(window) = Sum(window, Stamps)
    BY <1>1, SummableWindow DEF Entered
  <2>2. S \subseteq Stamps /\ \A s \in S : window[s] <= window[s]
    BY WindowNumbers
  <2> HIDE DEF S
  <2> QED
    BY <2>1, <2>2, SumGrows
<1> HIDE DEF x, y
<1>5. /\ Since(sentRequests, x) + RequestsDue(caller, x) <= Entered(rpm, x)
      /\ Since(sentTokens, x) + TokensDue(caller, x) <= Entered(tpm, x)
      /\ Since(sentSearches, y) + SearchesDue(caller, y) <= SearchEntered(last, y)
  BY <1>1 DEF WindowsInv, RequestsCovered, TokensCovered, SearchesCovered
<1>6. /\ RequestsDue(caller, x) \in Nat /\ TokensDue(caller, x) \in Nat
      /\ SearchesDue(caller, y) \in Nat
      /\ Since(sentRequests, x) \in Nat /\ Since(sentTokens, x) \in Nat
      /\ Since(sentSearches, y) \in Nat
      /\ Entered(rpm, x) \in Nat /\ Entered(tpm, x) \in Nat
      /\ Used(rpm) \in Nat /\ Used(tpm) \in Nat
  BY <1>1, <1>2, SumOfDue, SummableHistory, SummableWindow
<1>7. /\ SearchEntered(last, y) \in 0 .. 1
      /\ Used(rpm) <= MaxRpm /\ Used(tpm) <= MaxTpm
      /\ Entered(rpm, x) <= Used(rpm) /\ Entered(tpm, x) <= Used(tpm)
  BY <1>2, <1>4 DEF WindowsInv, WindowsWithin, SearchEntered
<1>8. /\ Recent(sentRequests, Window - MaxLag - MaxSkew) <= MaxRpm
      /\ Recent(sentTokens, Window - MaxLag - MaxSkew) <= MaxTpm
  <2>1. /\ Recent(sentRequests, Window - MaxLag - MaxSkew) <= Since(sentRequests, x)
        /\ Recent(sentTokens, Window - MaxLag - MaxSkew) <= Since(sentTokens, x)
        /\ Recent(sentRequests, Window - MaxLag - MaxSkew) \in Nat
        /\ Recent(sentTokens, Window - MaxLag - MaxSkew) \in Nat
    BY <1>2, <1>3
  <2> QED
    BY <1>5, <1>6, <1>7, <2>1, WindowNumbers
<1>9. Recent(sentSearches, Interval - MaxLag - MaxSkew) <= 1
  <2>1. /\ Recent(sentSearches, Interval - MaxLag - MaxSkew) <= Since(sentSearches, y)
        /\ Recent(sentSearches, Interval - MaxLag - MaxSkew) \in Nat
    BY <1>2, <1>3
  <2> QED
    BY <1>5, <1>6, <1>7, <2>1
<1> QED
  BY <1>8, <1>9 DEF RollingCeilings

(* The RPM and TPM ceilings and the search interval hold in real time,     *)
(* less the clock error, for any number of callers, weights and limits,    *)
(* however the readings that try_admit_request and try_admit_search judge  *)
(* by are delayed, skewed and overtaken by others.                         *)
THEOREM RollingWindowsHold == WindowsSpec => []RollingCeilings
<1>1. WindowsSpec => []WindowsInv
  BY WindowsStart, WindowsStep, PTL DEF WindowsSpec
<1> QED
  BY <1>1, WindowsInvCeilings, PTL

-----------------------------------------------------------------------------
(* Pauses. What is stored last, however stale, is worth the shortest pause *)
(* from when it was stored, less the age of the reading it was made from;  *)
(* the key lives that long too.                                            *)
Assures(d) ==
  /\ assured[d] <= pause[d].until + MaxLag
  /\ assured[d] <= pause[d].expires
  /\ assured[d] <= clock + MinPause

(* A caller whose reading a pause covers has yet to look it up.            *)
KeepsPause(own) ==
  /\ own.pc = "signal" => MinPause <= own.seconds
  /\ own.covered /\ own.pc = "read" => own.since + MaxLag + MaxSkew < assured[own.kind]
  /\ own.covered => own.pc = "read"

PauseInv ==
  /\ \A d \in Dimensions : Assures(d)
  /\ \A c \in Callers : KeepsPause(caller[c])
  /\ ~ignored

LEMMA PauseStart == WindowsInit => PauseInv
  BY WindowNumbers
     DEF WindowsInit, PauseInv, Assures, KeepsPause, Idle, Dimensions, Times

LEMMA IdleKeepsPause == KeepsPause(Idle) /\ KeepsPause(Waiting)
  BY DEF KeepsPause, Idle, Waiting

(* A step of one caller that stores nothing.                               *)
LEMMA CallerKeepsPauses ==
  ASSUME WindowsInv, PauseInv, NEW c \in Callers, NEW own,
         caller' = [caller EXCEPT ![c] = own],
         UNCHANGED <<clock, pause, assured>>, KeepsPause(own), ~ignored'
  PROVE  PauseInv'
<1>1. \A d \in Callers : caller'[d] = IF d = c THEN own ELSE caller[d]
  BY DEF WindowsInv, WindowsShape
<1> QED
  BY <1>1 DEF PauseInv, Assures, KeepsPause

(* A covered caller finds the pause: its reading is before the deadline    *)
(* and it looks while the key is there.                                    *)
LEMMA CoveredIsPaused ==
  ASSUME WindowsInv, PauseInv, NEW c \in Callers, caller[c].pc = "read", caller[c].covered
  PROVE  Paused(c)
<1> DEFINE own == caller[c]
           stored == pause[own.kind]
<1>1. /\ own \in Own /\ own.kind \in Dimensions /\ Reading(own) /\ clock \in Nat
      /\ stored.until \in Nat /\ stored.expires \in Nat /\ assured[own.kind] \in Nat
  <2>1. own \in Own /\ Reading(own) /\ clock \in Nat /\ pause \in [Dimensions -> Stored]
        /\ assured \in [Dimensions -> Nat]
    BY WindowNumbers DEF WindowsInv, WindowsShape, ReadingsBounded
  <2>2. own.kind \in Dimensions
    BY <2>1 DEF Own
  <2>3. stored \in Stored
    BY <2>1, <2>2
  <2> QED
    BY <2>1, <2>2, <2>3 DEF Stored
<1>2. /\ own.now \in Nat /\ own.since \in Nat
      /\ own.now <= own.since + MaxSkew /\ clock <= own.since + MaxLag
  BY <1>1, WindowNumbers DEF Own, Reading, HoldsReading
<1>3. /\ own.since + MaxLag + MaxSkew < assured[own.kind]
      /\ assured[own.kind] <= stored.until + MaxLag /\ assured[own.kind] <= stored.expires
  BY <1>1 DEF PauseInv, KeepsPause, Assures
<1>4. own.now < stored.until /\ clock < stored.expires
  <2> HIDE DEF own, stored
  <2> QED
    BY <1>1, <1>2, <1>3, WindowNumbers
<1> QED
  BY <1>4 DEF Paused

(* Storing a deadline: the later signal's pause is the shortest, at least, *)
(* and counts from a later moment.                                         *)
LEMMA SetPauseKeepsPauses ==
  ASSUME WindowsInv, PauseInv, NEW c \in Callers, SetPause(c)
  PROVE  PauseInv'
<1> DEFINE own == caller[c]
           stored == [until |-> own.now + own.seconds, expires |-> clock + own.seconds]
           assures == clock + MinPause
<1>1. /\ own \in Own /\ Reading(own) /\ clock \in Nat /\ own.kind \in Dimensions
      /\ own.pc = "signal"
      /\ assured \in [Dimensions -> Nat] /\ pause \in [Dimensions -> Stored]
      /\ caller \in [Callers -> Own]
  BY WindowNumbers DEF SetPause, WindowsInv, WindowsShape, ReadingsBounded, Own
<1>2. /\ own.now \in Nat /\ own.since \in Nat /\ own.seconds \in Nat
      /\ own.since <= own.now /\ clock <= own.since + MaxLag /\ MinPause <= own.seconds
  BY <1>1, WindowNumbers DEF Own, Reading, HoldsReading, PauseInv, KeepsPause
<1>3. /\ clock' = clock /\ ignored' = ignored
      /\ pause' = [pause EXCEPT ![own.kind] = stored]
      /\ assured' = [assured EXCEPT ![own.kind] = assures]
      /\ caller' = [caller EXCEPT ![c] = Idle]
  BY DEF SetPause
<1>4. /\ assures <= stored.until + MaxLag /\ assures <= stored.expires
      /\ assures = clock + MinPause /\ assured[own.kind] <= assures
  <2>1. assured[own.kind] <= assures
    BY <1>1 DEF PauseInv, Assures
  <2> HIDE DEF own
  <2> QED
    BY <1>1, <1>2, <2>1, WindowNumbers
<1>5. stored.until \in Nat /\ stored.expires \in Nat /\ assures \in Nat
  <2> HIDE DEF own
  <2> QED
    BY <1>1, <1>2, WindowNumbers
<1> HIDE DEF stored, assures
<1>6. \A d \in Dimensions : Assures(d)'
  BY <1>1, <1>3, <1>4 DEF PauseInv, Assures
<1>7. \A d \in Dimensions : assured[d] <= assured'[d]
  BY <1>1, <1>3, <1>4
<1>8. ASSUME NEW d \in Callers PROVE KeepsPause(caller[d])'
  <2>1. CASE d = c
    <3>1. caller'[d] = Idle
      BY <1>1, <1>3, <2>1
    <3> QED
      BY <3>1 DEF KeepsPause, Idle
  <2>2. CASE d # c
    <3> DEFINE other == caller[d]
    <3>1. caller'[d] = other /\ other \in Own /\ KeepsPause(other)
      BY <1>1, <1>3, <2>2 DEF PauseInv
    <3>2. other.kind \in Dimensions /\ other.since \in Nat
      BY <3>1, WindowNumbers DEF Own
    <3>3. assured[other.kind] <= assured'[other.kind] /\ assured[other.kind] \in Nat
          /\ assured'[other.kind] \in Nat
      BY <1>1, <1>3, <1>5, <1>7, <3>2
    <3> HIDE DEF other
    <3> QED
      BY <3>1, <3>2, <3>3, WindowNumbers DEF KeepsPause
  <2> QED
    BY <2>1, <2>2
<1> QED
  BY <1>3, <1>6, <1>8 DEF PauseInv

LEMMA PauseStep == WindowsInv /\ PauseInv /\ [WindowsNext]_windowsVars => PauseInv'
<1> SUFFICES ASSUME WindowsInv, PauseInv, [WindowsNext]_windowsVars PROVE PauseInv'
  OBVIOUS
<1>1. /\ clock \in Nat /\ ~ignored
      /\ \A c \in Callers : caller[c] \in Own /\ KeepsPause(caller[c])
  BY WindowNumbers DEF WindowsInv, WindowsShape, PauseInv
<1>2. ASSUME NEW c \in Callers, NEW own \in {Idle, Waiting},
             caller' = [caller EXCEPT ![c] = own],
             UNCHANGED <<clock, pause, assured>>, ignored' = ignored
      PROVE  PauseInv'
  BY <1>1, <1>2, IdleKeepsPause, CallerKeepsPauses
<1>3. ASSUME NEW c \in Callers, NEW place \in {"open", "counted", "admitted"},
             ~caller[c].covered, caller' = [caller EXCEPT ![c].pc = place],
             UNCHANGED <<clock, pause, assured>>, ignored' = ignored
      PROVE  PauseInv'
  <2> DEFINE own == [caller[c] EXCEPT !.pc = place]
  <2>1. caller' = [caller EXCEPT ![c] = own]
    BY <1>3
  <2>2. own.pc = place /\ own.covered = caller[c].covered
    BY <1>1 DEF Own
  <2> HIDE DEF own
  <2>3. KeepsPause(own)
    BY <1>3, <2>2 DEF KeepsPause
  <2> QED
    BY <1>1, <1>3, <2>1, <2>3, CallerKeepsPauses
<1>4. CASE UNCHANGED windowsVars
  BY <1>4 DEF windowsVars, PauseInv, Assures, KeepsPause
<1>5. CASE Tick
  <2>1. clock' = clock + 1 /\ UNCHANGED <<caller, pause, assured, ignored>>
    BY <1>5 DEF Tick, signals
  <2>2. \A d \in Dimensions : assured[d] \in Nat
    BY DEF WindowsInv, WindowsShape
  <2>3. \A d \in Dimensions : Assures(d)'
    BY <1>1, <2>1, <2>2, WindowNumbers DEF PauseInv, Assures
  <2> QED
    BY <2>1, <2>3 DEF PauseInv, KeepsPause
<1>6. ASSUME NEW c \in Callers, NEW kind \in Dimensions, NEW weight, NEW ahead,
             ReadClock(c, kind, weight, ahead)
      PROVE  PauseInv'
  <2> DEFINE own == [pc |-> "read", kind |-> kind, now |-> clock + ahead, since |-> clock,
                     weight |-> weight, seconds |-> 0,
                     covered |-> clock + MaxLag + MaxSkew < assured[kind]]
  <2>1. /\ caller' = [caller EXCEPT ![c] = own] /\ ignored' = ignored
        /\ UNCHANGED <<clock, pause, assured>>
    BY <1>6 DEF ReadClock, signals
  <2>2. KeepsPause(own)
    BY DEF KeepsPause
  <2> HIDE DEF own
  <2> QED
    BY <1>1, <2>1, <2>2, CallerKeepsPauses
<1>7. ASSUME NEW c \in Callers, CheckPause(c) PROVE PauseInv'
  <2>1. CASE Paused(c)
    BY <1>2, <1>7, <2>1 DEF CheckPause, signals
  <2>2. CASE ~Paused(c)
    <3>1. ~caller[c].covered
      BY <1>7, <2>2, CoveredIsPaused DEF CheckPause
    <3> QED
      BY <1>3, <1>7, <2>2, <3>1 DEF CheckPause, signals
  <2> QED
    BY <2>1, <2>2
<1>8. ASSUME NEW c \in Callers, caller[c].pc \in {"open", "counted", "admitted"}
      PROVE  ~caller[c].covered
  BY <1>1, <1>8 DEF KeepsPause
<1>9. ASSUME NEW c \in Callers, AdmitRpm(c) PROVE PauseInv'
  <2>1. CASE Fits(c, rpm, 1, MaxRpm)
    BY <1>3, <1>8, <1>9, <2>1 DEF AdmitRpm, signals
  <2>2. CASE ~Fits(c, rpm, 1, MaxRpm)
    BY <1>2, <1>9, <2>2 DEF AdmitRpm, signals
  <2> QED
    BY <2>1, <2>2
<1>10. ASSUME NEW c \in Callers, AdmitTpm(c) PROVE PauseInv'
  <2>1. CASE Fits(c, tpm, caller[c].weight, MaxTpm)
    BY <1>3, <1>8, <1>10, <2>1 DEF AdmitTpm, signals
  <2>2. CASE ~Fits(c, tpm, caller[c].weight, MaxTpm)
    BY <1>2, <1>10, <2>2 DEF AdmitTpm, signals
  <2> QED
    BY <2>1, <2>2
<1>11. ASSUME NEW c \in Callers, AdmitSearch(c) PROVE PauseInv'
  <2>1. CASE IntervalElapsed(caller[c].now)
    BY <1>3, <1>8, <1>11, <2>1 DEF AdmitSearch, signals
  <2>2. CASE ~IntervalElapsed(caller[c].now)
    BY <1>2, <1>11, <2>2 DEF AdmitSearch, signals
  <2> QED
    BY <2>1, <2>2
<1>12. ASSUME NEW c \in Callers, SendAdmitted(c) PROVE PauseInv'
  <2> DEFINE own == IF caller[c].kind = "inference" THEN Waiting ELSE Idle
  <2>1. /\ caller' = [caller EXCEPT ![c] = own] /\ UNCHANGED <<clock, pause, assured>>
        /\ ~caller[c].covered
    BY <1>8, <1>12 DEF SendAdmitted
  <2>2. ~ignored'
    BY <1>1, <1>12, <2>1, Zenon DEF SendAdmitted
  <2>3. KeepsPause(own)
    BY IdleKeepsPause
  <2> HIDE DEF own
  <2> QED
    BY <2>1, <2>2, <2>3, CallerKeepsPauses
<1>13. ASSUME NEW c \in Callers, Answered(c) PROVE PauseInv'
  BY <1>2, <1>13 DEF Answered, signals
<1>14. ASSUME NEW c \in Callers, NEW d \in Dimensions, NEW seconds \in Pauses, NEW ahead,
              RateLimited(c, d, seconds, ahead)
       PROVE  PauseInv'
  <2> DEFINE own == [pc |-> "signal", kind |-> d, now |-> clock + ahead, since |-> clock,
                     weight |-> 0, seconds |-> seconds, covered |-> FALSE]
  <2>1. /\ caller' = [caller EXCEPT ![c] = own] /\ ignored' = ignored
        /\ UNCHANGED <<clock, pause, assured>>
    BY <1>14 DEF RateLimited, signals
  <2>2. KeepsPause(own)
    BY WindowNumbers DEF KeepsPause
  <2> HIDE DEF own
  <2> QED
    BY <1>1, <2>1, <2>2, CallerKeepsPauses
<1>15. ASSUME NEW c \in Callers, CallerNext(c) PROVE PauseInv'
  <2>1. "inference" \in Dimensions /\ "search" \in Dimensions
    BY DEF Dimensions
  <2> QED
    BY <1>6, <1>7, <1>9, <1>10, <1>11, <1>12, <1>13, <1>14, <1>15, <2>1,
       SetPauseKeepsPauses DEF CallerNext
<1> QED
  BY <1>4, <1>5, <1>15 DEF WindowsNext

(* Every signal is worth the shortest pause, less the error of the two     *)
(* readings, for all callers, pauses and clocks: set_pause may replace a   *)
(* deadline by an earlier one, even by one made from a staler reading, but *)
(* not by one that admits a request any sooner than that.                  *)
THEOREM SignalsHonoured == WindowsSpec => []ShortestPauseHonoured
<1>1. PauseInv => ShortestPauseHonoured
  BY DEF PauseInv, ShortestPauseHonoured
<1> QED
  BY <1>1, WindowsStart, WindowsStep, PauseStart, PauseStep, PTL DEF WindowsSpec
=============================================================================
