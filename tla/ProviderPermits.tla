-------------------------- MODULE ProviderPermits --------------------------
(***************************************************************************)
(* Organization-wide inference concurrency. Every provider request of      *)
(* every worker process takes a slot of its own process (a semaphore) and  *)
(* then a lease in the shared store, whose number is the ceiling. A lease  *)
(* goes back only when its request is proven finished; an unknown outcome, *)
(* a lost reply of the store and a dead process all leave it held, until   *)
(* an operator reclaims it (or, where a deployment opted in, a timer).     *)
(* The provider may go on working on a request nobody waits for.           *)
(***************************************************************************)
EXTENDS Naturals, FiniteSets

CONSTANTS
  Processes, Requests,
  ProcessOf,         \* the process of each request (a worker thread)
  LeaseIds, NoLease, \* uuids; each is used once
  MaxConcurrency,    \* the ceiling: 80% of the provider's limit
  LocalSlots,        \* each process's semaphore
  TimedReclaim       \* abandoned_lease_reclaim_seconds is set

ASSUME PermitAssumption ==
  /\ ProcessOf \in [Requests -> Processes]
  /\ NoLease \notin LeaseIds /\ NoLease \notin Processes
  /\ IsFiniteSet(Requests)
  /\ MaxConcurrency \in Nat \ {0} /\ LocalSlots \in Nat \ {0}
  /\ TimedReclaim \in BOOLEAN

VARIABLES
  alive,     \* the processes that are running
  slots,     \* free units of each process's semaphore
  pc,        \* where each request is
  mine,      \* the lease a request holds
  leases,    \* the shared store: leases recorded as held
  takenBy,   \* the process that acquired each lease
  running,   \* leases whose request the provider is working on
  timed      \* history: leases the opt-in timer gave back

vars == <<alive, slots, pc, mine, leases, takenBy, running, timed>>

(* waiting: has a local slot, wants a lease. leased: has one, asks for RPM *)
(* and TPM. sent: at the provider. proven, unproven: how it ended.         *)
Pcs == {"idle", "waiting", "leased", "sent", "proven", "unproven"}

TypeOK ==
  /\ alive \subseteq Processes
  /\ slots \in [Processes -> 0 .. LocalSlots]
  /\ pc \in [Requests -> Pcs]
  /\ mine \in [Requests -> LeaseIds \cup {NoLease}]
  /\ leases \subseteq LeaseIds
  /\ takenBy \in [LeaseIds -> Processes \cup {NoLease}]
  /\ running \subseteq LeaseIds
  /\ timed \subseteq LeaseIds

Init ==
  /\ alive = Processes
  /\ slots = [p \in Processes |-> LocalSlots]
  /\ pc = [q \in Requests |-> "idle"]
  /\ mine = [q \in Requests |-> NoLease]
  /\ leases = {}
  /\ takenBy = [l \in LeaseIds |-> NoLease]
  /\ running = {}
  /\ timed = {}

Alive(q) == ProcessOf[q] \in alive

GiveBackSlot(q) == slots' = [slots EXCEPT ![ProcessOf[q]] = @ + 1]

Leave(q) ==
  /\ pc' = [pc EXCEPT ![q] = "idle"]
  /\ mine' = [mine EXCEPT ![q] = NoLease]

-----------------------------------------------------------------------------
(* _acquire_slot.                                                          *)
AcquireSlot(q) ==
  /\ Alive(q) /\ pc[q] = "idle"
  /\ slots[ProcessOf[q]] > 0
  /\ slots' = [slots EXCEPT ![ProcessOf[q]] = @ - 1]
  /\ pc' = [pc EXCEPT ![q] = "waiting"]
  /\ UNCHANGED <<alive, mine, leases, takenBy, running, timed>>

(* try_acquire_inference: one atomic script counts and takes.              *)
Acquired(q, l) ==
  /\ takenBy[l] = NoLease
  /\ Cardinality(leases) < MaxConcurrency
  /\ leases' = leases \cup {l}
  /\ takenBy' = [takenBy EXCEPT ![l] = ProcessOf[q]]

AcquireLease(q, l) ==
  /\ Alive(q) /\ pc[q] = "waiting"
  /\ Acquired(q, l)
  /\ pc' = [pc EXCEPT ![q] = "leased"]
  /\ mine' = [mine EXCEPT ![q] = l]
  /\ UNCHANGED <<alive, slots, running, timed>>

(* The script ran and its reply was lost: the request ends, nobody knows   *)
(* the lease's id.                                                         *)
AcquireReplyLost(q, l) ==
  /\ Alive(q) /\ pc[q] = "waiting"
  /\ Acquired(q, l)
  /\ GiveBackSlot(q) /\ Leave(q)
  /\ UNCHANGED <<alive, running, timed>>

(* Mutated form: a wait for capacity has no bound.                         *)
GiveUpNever(q) ==
  /\ FALSE
  /\ UNCHANGED vars

(* The backpressure bound, a cancellation, or a store that fails: nothing  *)
(* was acquired.                                                           *)
GiveUp(q) ==
  /\ Alive(q) /\ pc[q] = "waiting"
  /\ GiveBackSlot(q) /\ Leave(q)
  /\ UNCHANGED <<alive, leases, takenBy, running, timed>>

(* RPM or TPM refuses: the lease goes back before the wait.                *)
WindowRefuses(q) ==
  /\ Alive(q) /\ pc[q] = "leased"
  /\ leases' = leases \ {mine[q]}
  /\ pc' = [pc EXCEPT ![q] = "waiting"]
  /\ mine' = [mine EXCEPT ![q] = NoLease]
  /\ UNCHANGED <<alive, slots, takenBy, running, timed>>

(* A failure after the lease and before the request: released at once,     *)
(* unless that release fails too.                                          *)
FailsBeforeSending(q) ==
  /\ Alive(q) /\ pc[q] = "leased"
  /\ leases' \in {leases, leases \ {mine[q]}}
  /\ GiveBackSlot(q) /\ Leave(q)
  /\ UNCHANGED <<alive, takenBy, running, timed>>

-----------------------------------------------------------------------------
(* call(): from here the provider counts the request.                      *)
Send(q) ==
  /\ Alive(q) /\ pc[q] = "leased"
  /\ running' = running \cup {mine[q]}
  /\ pc' = [pc EXCEPT ![q] = "sent"]
  /\ UNCHANGED <<alive, slots, mine, leases, takenBy, timed>>

(* The provider stops working on a request, whoever still waits for it.    *)
ProviderFinishes(l) ==
  /\ l \in running
  /\ running' = running \ {l}
  /\ UNCHANGED <<alive, slots, pc, mine, leases, takenBy, timed>>

(* classify_outcome. Proven: the response was read to its end, it carries  *)
(* a status, or nothing was sent. Anything else, a fired deadline above    *)
(* all, is unproven.                                                       *)
AnswerRead(q) ==
  /\ Alive(q) /\ pc[q] = "sent" /\ mine[q] \notin running
  /\ pc' = [pc EXCEPT ![q] = "proven"]
  /\ UNCHANGED <<alive, slots, mine, leases, takenBy, running, timed>>

OutcomeUnknown(q) ==
  /\ Alive(q) /\ pc[q] = "sent"
  /\ pc' = [pc EXCEPT ![q] = "unproven"]
  /\ UNCHANGED <<alive, slots, mine, leases, takenBy, running, timed>>

(* Mutated form: settling always releases.                                 *)
SettledLeasesAlways(q) == {leases \ {mine[q]}}

(* InferenceLease.settle: proof releases (or the release is lost), nothing *)
(* else does.                                                              *)
SettledLeases(q) ==
  IF pc[q] = "proven" THEN {leases, leases \ {mine[q]}} ELSE {leases}

(* Mutated form: the semaphore is only given back with a response.         *)
SettleKeepsSlot(q) ==
  /\ Alive(q) /\ pc[q] \in {"proven", "unproven"}
  /\ leases' \in SettledLeases(q)
  /\ IF pc[q] = "proven" THEN GiveBackSlot(q) ELSE UNCHANGED slots
  /\ Leave(q)
  /\ UNCHANGED <<alive, takenBy, running, timed>>

(* execute's finally: the local slot always, the lease on proof.           *)
Settle(q) ==
  /\ Alive(q) /\ pc[q] \in {"proven", "unproven"}
  /\ leases' \in SettledLeases(q)
  /\ GiveBackSlot(q) /\ Leave(q)
  /\ UNCHANGED <<alive, takenBy, running, timed>>

-----------------------------------------------------------------------------
(* A process dies with whatever its requests held.                         *)
ProcessDies(p) ==
  /\ p \in alive
  /\ alive' = alive \ {p}
  /\ UNCHANGED <<slots, pc, mine, leases, takenBy, running, timed>>

(* Mutated form: the lease's age is not checked.                           *)
RecoverableYoung(l) == l \in leases

(* Older than the longest life of a worker: its process is gone.           *)
Recoverable(l) == l \in leases /\ takenBy[l] \notin alive

(* operator_reclaim_inference: the operator vouches for the provider, MILO *)
(* for the process.                                                        *)
OperatorReclaims(l) ==
  /\ Recoverable(l) /\ l \notin running
  /\ leases' = leases \ {l}
  /\ UNCHANGED <<alive, slots, pc, mine, takenBy, running, timed>>

(* The opt-in timer, floored at the process lifetime: nobody vouches for   *)
(* the provider.                                                           *)
TimerReclaims(l) ==
  /\ TimedReclaim /\ Recoverable(l)
  /\ leases' = leases \ {l}
  /\ timed' = timed \cup {l}
  /\ UNCHANGED <<alive, slots, pc, mine, takenBy, running>>

RequestStep(q) ==
  \/ AcquireSlot(q)
  \/ \E l \in LeaseIds : AcquireLease(q, l) \/ AcquireReplyLost(q, l)
  \/ GiveUp(q) \/ WindowRefuses(q) \/ FailsBeforeSending(q) \/ Send(q)
  \/ AnswerRead(q) \/ OutcomeUnknown(q) \/ Settle(q)

Next ==
  \/ \E q \in Requests : RequestStep(q)
  \/ \E l \in LeaseIds :
       ProviderFinishes(l) \/ OperatorReclaims(l) \/ TimerReclaims(l)
  \/ \E p \in Processes : ProcessDies(p)

Spec == Init /\ [][Next]_vars

(* Every wait of execute is bounded (the total deadline of the transport), *)
(* and its finally block runs. The backpressure bound sums the waits of    *)
(* the whole loop, so a request the windows send back again and again      *)
(* meets it too: strong fairness.                                          *)
Fairness ==
  \A q \in Requests :
    /\ SF_vars(GiveUp(q))
    /\ WF_vars(FailsBeforeSending(q) \/ Send(q))
    /\ WF_vars(AnswerRead(q) \/ OutcomeUnknown(q))
    /\ WF_vars(Settle(q))

FairSpec == Spec /\ Fairness

-----------------------------------------------------------------------------
(* Properties.                                                             *)

(* The ceiling, over what the provider is really working on and not over   *)
(* what MILO waits for: it holds through unknown outcomes, lost replies,   *)
(* dead processes and operator reclaims; only a request the opt-in timer   *)
(* gave up on may run beside it (the safety invariant of provider_quota).  *)
ProviderLoadWithinCeiling ==
  Cardinality(running \ timed) <= MaxConcurrency

(* No request of a live process runs without a lease of its own that the   *)
(* store still records: uncertainty never frees a permit somebody uses     *)
(* (InferenceLease, recover_concurrency).                                  *)
LiveRequestsHoldTheirLease ==
  /\ \A q \in Requests :
       Alive(q) /\ pc[q] \in {"leased", "sent"} => mine[q] \in leases
  /\ \A q, r \in Requests : mine[q] = mine[r] /\ mine[q] # NoLease => q = r

(* A process's semaphore is as full as the requests it has under way, on   *)
(* every way out of execute.                                               *)
SlotsBalanced ==
  \A p \in Processes :
    slots[p] + Cardinality({q \in Requests : ProcessOf[q] = p /\ pc[q] # "idle"})
      = LocalSlots

(* Every request ends: with all permits stranded by unknown outcomes and   *)
(* dead processes, callers still give up and return.                       *)
RequestsEnd ==
  \A q \in Requests : pc[q] # "idle" ~> (pc[q] = "idle" \/ ~Alive(q))
=============================================================================
