------------------------- MODULE RunLifecycleProofs -------------------------
(***************************************************************************)
(* RunLifecycle for every number of executions, tries and requests and     *)
(* every assignment of worker ids.                                         *)
(***************************************************************************)
EXTENDS RunLifecycle, TLAPS, SequenceTheorems

LEMMA StatesDistinct ==
  /\ TERMINAL_STATES \subseteq RUN_STATES
  /\ CLAIMED_RUN_STATES \subseteq RUN_STATES \ TERMINAL_STATES
  /\ Unread \notin RUN_STATES
BY DEF TERMINAL_STATES, RUN_STATES, CLAIMED_RUN_STATES, Unread

(* What a claim owes is at most one terminal event.                        *)
LEMMA OwedEventsType ==
  ASSUME NEW s \in TERMINAL_STATES, NEW emitted \in BOOLEAN
  PROVE  OwedEvents(s, emitted) \in Seq(TERMINAL_EVENTS)
<1>1. CASE emitted \/ s \notin DOMAIN EventOfStatus
  BY <1>1 DEF OwedEvents
<1>2. CASE ~emitted /\ s \in DOMAIN EventOfStatus
  <2>1. EventOfStatus[s] \in TERMINAL_EVENTS
    BY <1>2 DEF EventOfStatus, TERMINAL_EVENTS
  <2>2. <<EventOfStatus[s]>> \in Seq(TERMINAL_EVENTS)
    BY <2>1
  <2> QED BY <1>2, <2>2 DEF OwedEvents
<1> QED BY <1>1, <1>2

LEMMA DecisionType ==
  ASSUME NEW c \in TERMINAL_STATES, NEW emitted \in BOOLEAN,
         NEW observed \in RUN_STATES \cup {Unread}, NEW left \in 0 .. 1
  PROVE  Decision(c, emitted, observed, left) \in Finalizers
<1>1. "cancelled" \in TERMINAL_STATES
  BY DEF TERMINAL_STATES
<1> QED BY <1>1 DEF Decision, Legalize, Finalizers

LEMMA NoFinType == NoFin \in Finalizers
BY DEF NoFin, Finalizers, TERMINAL_STATES

LEMMA ClaimsType ==
  ASSUME NEW t \in Tries, NEW c \in ClaimsOf(t)
  PROVE  c[1] \in TERMINAL_STATES /\ c[2] \in BOOLEAN
<1>1. c \in TERMINAL_STATES \X BOOLEAN
  <2>1. ClaimsBeforeRunning \subseteq TERMINAL_STATES \X BOOLEAN
    BY DEF ClaimsBeforeRunning, TERMINAL_STATES
  <2>2. ClaimsRunning \subseteq TERMINAL_STATES \X BOOLEAN
    BY <2>1 DEF ClaimsRunning, TERMINAL_STATES
  <2>3. {"cancelled"} \X {FALSE} \subseteq TERMINAL_STATES \X BOOLEAN
    BY DEF TERMINAL_STATES
  <2> QED BY <2>1, <2>2, <2>3 DEF ClaimsOf
<1> QED BY <1>1

LEMMA TypeInit == ASSUME Init PROVE TypeOK
<1>1. fin \in [Tries -> Finalizers]
  BY NoFinType DEF Init
<1>2. ctx \in [Tries -> [attempt : Nat, token : Nat]]
  BY DEF Init
<1>3. evidence \in Seq(TERMINAL_EVENTS)
  BY DEF Init
<1>4. pc \in [Tries -> Pcs] /\ req \in [Requests -> ReqPhases]
  BY DEF Init, Pcs, ReqPhases
<1>5. /\ status \in RUN_STATES /\ launchState \in LAUNCH_STATES
      /\ workerId \in WorkerIds \cup {NoWorker}
      /\ attempt \in Nat \ {0} /\ leaseToken \in Nat
      /\ lease \in {"none", "live", "expired"}
      /\ cancelSeen \in RUN_STATES \cup {NoSeen}
  BY DEF Init, RUN_STATES, LAUNCH_STATES
<1>6. invoked \in BOOLEAN /\ retired \in BOOLEAN
  BY DEF Init
<1> QED BY <1>1, <1>2, <1>3, <1>4, <1>5, <1>6 DEF TypeOK

LEMMA TypeStep == ASSUME TypeOK, [Next]_vars PROVE TypeOK'
<1> USE DEF TypeOK
<1>1. ASSUME NEW r \in Requests, TryAcquireLaunch(r) PROVE TypeOK'
  BY <1>1 DEF TryAcquireLaunch, leaseVars, workerVars, ReqPhases, LAUNCH_STATES
<1>2. ASSUME NEW r \in Requests, NEW created \in BOOLEAN,
             NEW outcome \in {"ok", "failed", "unknown"},
             LauncherPost(r, created, outcome)
      PROVE TypeOK'
  <2>1. pc' \in [Tries -> Pcs]
    BY <1>2 DEF LauncherPost, Pcs, LivePcs
  <2> QED BY <1>2, <2>1 DEF LauncherPost, rowVars, ReqPhases
<1>3. ASSUME NEW r \in Requests, RecordInvocation(r) PROVE TypeOK'
  BY <1>3 DEF RecordInvocation, leaseVars, workerVars, ReqPhases
<1>4. ASSUME NEW r \in Requests, SetLaunchState(r) PROVE TypeOK'
  <2>1. launchState' \in LAUNCH_STATES
    BY <1>4 DEF SetLaunchState, LAUNCH_STATES
  <2> QED BY <1>4, <2>1 DEF SetLaunchState, leaseVars, workerVars, ReqPhases
<1>5. ASSUME NEW r \in Requests, RequestDies(r) PROVE TypeOK'
  BY <1>5 DEF RequestDies, rowVars, workerVars, ReqPhases
<1>6. CASE CancelRead
  BY <1>6 DEF CancelRead, rowVars, workerVars
<1>7. CASE CancelWrite
  BY <1>7 DEF CancelWrite, leaseVars, workerVars, RUN_STATES
<1>8. CASE ReconcileLostLaunch
  BY <1>8 DEF ReconcileLostLaunch, leaseVars, workerVars, LAUNCH_STATES
<1>9. CASE ResolveUnknownLaunch
  BY <1>9 DEF ResolveUnknownLaunch, leaseVars, workerVars, LAUNCH_STATES
<1>10. CASE Requeue
  BY <1>10 DEF Requeue, leaseVars, workerVars, LAUNCH_STATES
<1>11. CASE RetireUnlaunchedRun
  <2>1. evidence' \in Seq(TERMINAL_EVENTS)
    BY <1>11 DEF RetireUnlaunchedRun, TERMINAL_EVENTS
  <2> QED BY <1>11, <2>1 DEF RetireUnlaunchedRun, leaseVars, workerVars,
                              RUN_STATES, TERMINAL_STATES
<1>12. ASSUME NEW t \in Tries, ClaimRun(t) PROVE TypeOK'
  <2>1. WorkerOf[t] \in WorkerIds
    BY WorkerAssumption
  <2>2. ClaimedAttempt(t) \in Nat \ {0}
    BY DEF ClaimedAttempt
  <2>3. pc' \in [Tries -> Pcs]
    BY <1>12 DEF ClaimRun, Pcs, LivePcs, HoldingPcs
  <2>4. ctx' \in [Tries -> [attempt : Nat, token : Nat]]
    BY <1>12, <2>2 DEF ClaimRun
  <2> QED BY <1>12, <2>1, <2>2, <2>3, <2>4 DEF ClaimRun, RUN_STATES
<1>13. ASSUME NEW t \in Tries, ClaimRefused(t) PROVE TypeOK'
  BY <1>13 DEF ClaimRefused, rowVars, Pcs
<1>14. ASSUME NEW t \in Tries, EnterRunningRead(t) PROVE TypeOK'
  <2>1. [NoFin EXCEPT !.exp = status] \in Finalizers
    BY NoFinType DEF Finalizers
  <2> QED BY <1>14, <2>1 DEF EnterRunningRead, rowVars, Pcs, LivePcs, HoldingPcs
<1>15. ASSUME NEW t \in Tries, EnterRunningWrite(t) PROVE TypeOK'
  BY <1>15, NoFinType DEF EnterRunningWrite, leaseVars, Pcs, LivePcs,
                          HoldingPcs, RUN_STATES
<1>16. ASSUME NEW t \in Tries, FinalizeRead(t) PROVE TypeOK'
  <2>1. fin' \in [Tries -> Finalizers]
    <3>1. CASE UNCHANGED fin
      BY <3>1
    <3>2. CASE \E c \in ClaimsOf(t),
                  observed \in (({status} \ TERMINAL_STATES) \cup {Unread}) :
                 fin' = [fin EXCEPT ![t] = Decision(c[1], c[2], observed, 1)]
      <4> PICK c \in ClaimsOf(t),
               observed \in (({status} \ TERMINAL_STATES) \cup {Unread}) :
                 fin' = [fin EXCEPT ![t] = Decision(c[1], c[2], observed, 1)]
        BY <3>2
      <4>1. Decision(c[1], c[2], observed, 1) \in Finalizers
        BY ClaimsType, DecisionType
      <4> QED BY <4>1
    <3> QED BY <1>16, <3>1, <3>2 DEF FinalizeRead
  <2> QED BY <1>16, <2>1 DEF FinalizeRead, rowVars, Pcs, LivePcs, HoldingPcs
<1>17. ASSUME NEW t \in Tries, PersistRead(t) PROVE TypeOK'
  <2>1. [fin[t] EXCEPT !.exp = status] \in Finalizers
    BY DEF Finalizers
  <2>2. fin' = [fin EXCEPT ![t] = [fin[t] EXCEPT !.exp = status]]
    BY <1>17 DEF PersistRead
  <2>3. fin' \in [Tries -> Finalizers]
    BY <2>1, <2>2
  <2> QED BY <1>17, <2>3 DEF PersistRead, rowVars
<1>18. ASSUME NEW t \in Tries, FinalizeWrite(t) PROVE TypeOK'
  <2>1. fin[t].claim \in TERMINAL_STATES /\ fin[t].emitted \in BOOLEAN
    BY DEF Finalizers
  <2>2. OwedEvents(fin[t].claim, fin[t].emitted) \in Seq(TERMINAL_EVENTS)
    BY <2>1, OwedEventsType
  <2>3. evidence' \in Seq(TERMINAL_EVENTS)
    <3>1. evidence \o OwedEvents(fin[t].claim, fin[t].emitted)
            \in Seq(TERMINAL_EVENTS)
      BY <2>2, ConcatProperties
    <3> QED BY <1>18, <3>1 DEF FinalizeWrite
  <2>4. status' \in RUN_STATES
    BY <1>18, <2>1, StatesDistinct DEF FinalizeWrite
  <2> QED BY <1>18, <2>3, <2>4 DEF FinalizeWrite, leaseVars, Pcs, LivePcs, HoldingPcs
<1>19. ASSUME NEW t \in Tries, FinalizeReread(t) PROVE TypeOK'
  <2>1. fin[t].claim \in TERMINAL_STATES /\ fin[t].emitted \in BOOLEAN
          /\ fin[t].left \in 0 .. 1
    BY DEF Finalizers
  <2>2. fin[t].left > 0 =>
          Decision(fin[t].claim, fin[t].emitted, status, fin[t].left - 1)
            \in Finalizers
    BY <2>1, DecisionType
  <2>3. fin' \in [Tries -> Finalizers]
    BY <1>19, <2>2, NoFinType DEF FinalizeReread
  <2> QED BY <1>19, <2>3 DEF FinalizeReread, rowVars, Pcs, LivePcs, HoldingPcs
<1>20. ASSUME NEW t \in Tries, WorkerExits(t) PROVE TypeOK'
  BY <1>20, NoFinType DEF WorkerExits, rowVars, Pcs
<1>21. ASSUME NEW t \in Tries, WorkerDies(t) PROVE TypeOK'
  BY <1>21, NoFinType DEF WorkerDies, rowVars, Pcs
<1>22. ASSUME NEW t \in Tries, TaskRetried(t) PROVE TypeOK'
  BY <1>22 DEF TaskRetried, rowVars, Pcs, LivePcs
<1>23. CASE LeaseExpires
  BY <1>23 DEF LeaseExpires, workerVars
<1>24. CASE UNCHANGED vars
  BY <1>24 DEF vars, rowVars, workerVars
<1> QED
  BY <1>1, <1>2, <1>3, <1>4, <1>5, <1>6, <1>7, <1>8, <1>9, <1>10, <1>11,
     <1>12, <1>13, <1>14, <1>15, <1>16, <1>17, <1>18, <1>19, <1>20, <1>21,
     <1>22, <1>23, <1>24
     DEF Next, ApiNext, UserNext, OperatorNext, WorkerNext, WorkerStep

(* Every variable keeps its type, through every action of every actor.     *)
THEOREM TypeCorrect == Spec => []TypeOK
<1>1. TypeOK /\ [Next]_vars => TypeOK'
  BY TypeStep
<1> QED BY <1>1, TypeInit, PTL DEF Spec

-----------------------------------------------------------------------------
(* Which actions can touch what. Each frame lemma goes through Next once.  *)

(* Only a claim changes who holds the lease.                               *)
LEMMA LeaseFrame ==
  ASSUME [Next]_vars
  PROVE  \/ \E t \in Tries : ClaimRun(t)
         \/ /\ UNCHANGED <<workerId, attempt, leaseToken, ctx>>
            /\ lease' = lease \/ (lease = "live" /\ lease' = "expired")
<1> USE DEF leaseVars, rowVars, workerVars
<1>1. CASE ApiNext
  BY <1>1 DEF ApiNext, TryAcquireLaunch, LauncherPost, RecordInvocation,
              SetLaunchState, RequestDies
<1>2. CASE UserNext \/ OperatorNext \/ LeaseExpires \/ UNCHANGED vars
  BY <1>2 DEF UserNext, CancelRead, CancelWrite, OperatorNext,
              ReconcileLostLaunch, ResolveUnknownLaunch, Requeue,
              RetireUnlaunchedRun, LeaseExpires, vars
<1>3. CASE WorkerNext
  BY <1>3 DEF WorkerNext, WorkerStep, ClaimRefused, EnterRunningRead,
              EnterRunningWrite, FinalizeRead, PersistRead, FinalizeWrite,
              FinalizeReread, WorkerExits, WorkerDies, TaskRetried
<1> QED BY <1>1, <1>2, <1>3 DEF Next

(* Only these five actions write the status or the terminal events.        *)
LEMMA StatusFrame ==
  ASSUME [Next]_vars
  PROVE  \/ UNCHANGED <<status, evidence, retired>>
         \/ CancelWrite \/ RetireUnlaunchedRun
         \/ \E t \in Tries :
              ClaimRun(t) \/ EnterRunningWrite(t) \/ FinalizeWrite(t)
<1> USE DEF leaseVars, rowVars, workerVars
<1>1. CASE ApiNext
  BY <1>1 DEF ApiNext, TryAcquireLaunch, LauncherPost, RecordInvocation,
              SetLaunchState, RequestDies
<1>2. CASE UserNext \/ OperatorNext \/ LeaseExpires \/ UNCHANGED vars
  BY <1>2 DEF UserNext, CancelRead, OperatorNext, ReconcileLostLaunch,
              ResolveUnknownLaunch, Requeue, LeaseExpires, vars
<1>3. CASE WorkerNext
  BY <1>3 DEF WorkerNext, WorkerStep, ClaimRefused, EnterRunningRead,
              FinalizeRead, PersistRead, FinalizeReread, WorkerExits,
              WorkerDies, TaskRetried
<1> QED BY <1>1, <1>2, <1>3 DEF Next

(* Processes are started by a launch or a retry, take the lease by a       *)
(* claim, and never come back from the dead.                               *)
LEMMA PcFrame ==
  ASSUME TypeOK, [Next]_vars, NEW t \in Tries
  PROVE  /\ pc'[t] \in {"absent", "booting"} => pc[t] \in {"absent", "booting"}
         /\ pc'[t] \in HoldingPcs => pc[t] \in HoldingPcs \/ ClaimRun(t)
         /\ pc[t] # "absent" => pc'[t] # "absent"
<1> DEFINE Moves ==
      /\ pc'[t] \in {"absent", "booting"} => pc[t] \in {"absent", "booting"}
      /\ pc'[t] \in HoldingPcs => pc[t] \in HoldingPcs \/ ClaimRun(t)
      /\ pc[t] # "absent" => pc'[t] # "absent"
<1> USE DEF leaseVars, rowVars, workerVars, HoldingPcs
<1>1. CASE ApiNext
  BY <1>1 DEF TypeOK, ApiNext, TryAcquireLaunch, LauncherPost,
              RecordInvocation, SetLaunchState, RequestDies
<1>2. CASE UserNext \/ OperatorNext \/ LeaseExpires \/ UNCHANGED vars
  BY <1>2 DEF UserNext, CancelRead, CancelWrite, OperatorNext,
              ReconcileLostLaunch, ResolveUnknownLaunch, Requeue,
              RetireUnlaunchedRun, LeaseExpires, vars
<1>3. ASSUME NEW u \in Tries, ClaimRun(u)
      PROVE  Moves
  BY <1>3 DEF TypeOK, ClaimRun
<1>4. ASSUME NEW u \in Tries, ClaimRefused(u) \/ EnterRunningRead(u)
                \/ EnterRunningWrite(u)
      PROVE  Moves
  BY <1>4 DEF TypeOK, ClaimRefused, EnterRunningRead, EnterRunningWrite
<1>5. ASSUME NEW u \in Tries, FinalizeRead(u) \/ PersistRead(u)
                \/ FinalizeWrite(u) \/ FinalizeReread(u)
      PROVE  Moves
  BY <1>5 DEF TypeOK, FinalizeRead, PersistRead, FinalizeWrite, FinalizeReread
<1>6. ASSUME NEW u \in Tries, WorkerExits(u) \/ WorkerDies(u)
                \/ TaskRetried(u)
      PROVE  Moves
  BY <1>6 DEF TypeOK, WorkerExits, WorkerDies, TaskRetried, LivePcs
<1> QED BY <1>1, <1>2, <1>3, <1>4, <1>5, <1>6 DEF Next, WorkerNext, WorkerStep

-----------------------------------------------------------------------------
(* The parts of the inductive invariant, one lemma each.                   *)

LEMMA LeaseColumnsStep ==
  ASSUME LifecycleInv, [Next]_vars PROVE LeaseColumnsAgree'
<1> USE DEF LifecycleInv, TypeOK, LeaseColumnsAgree
<1>1. ASSUME NEW t \in Tries, ClaimRun(t) PROVE LeaseColumnsAgree'
  <2>1. WorkerOf[t] # NoWorker
    BY WorkerAssumption
  <2> QED BY <1>1, <2>1 DEF ClaimRun
<1> QED BY <1>1, LeaseFrame

LEMMA TokensFreshStep ==
  ASSUME LifecycleInv, [Next]_vars PROVE TokensFresh'
<1> USE DEF LifecycleInv, TypeOK, TokensFresh
<1>1. ASSUME NEW t \in Tries, ClaimRun(t) PROVE TokensFresh'
  <2>1. /\ leaseToken' = leaseToken + 1
        /\ ctx'[t].token = leaseToken + 1
        /\ \A u \in Tries \ {t} : ctx'[u] = ctx[u] /\ pc'[u] = pc[u]
        /\ pc'[t] \in {"claimed", "cancelling"}
    BY <1>1 DEF ClaimRun
  <2>2. \A u \in Tries : ctx[u].token \in Nat /\ ctx[u].token < leaseToken + 1
    OBVIOUS
  <2>3. \A u \in Tries :
          /\ ctx'[u].token <= leaseToken'
          /\ pc'[u] \in {"absent", "booting"} => ctx'[u].token = 0
          /\ pc'[u] \in HoldingPcs => ctx'[u].token > 0
    <3> SUFFICES ASSUME NEW u \in Tries
                 PROVE  /\ ctx'[u].token <= leaseToken'
                        /\ pc'[u] \in {"absent", "booting"} => ctx'[u].token = 0
                        /\ pc'[u] \in HoldingPcs => ctx'[u].token > 0
      OBVIOUS
    <3>1. CASE u = t
      BY <2>1, <3>1
    <3>2. CASE u # t
      BY <2>1, <2>2, <3>2
    <3> QED BY <3>1, <3>2
  <2>4. ASSUME NEW u \in Tries, NEW v \in Tries,
               ctx'[u].token = ctx'[v].token, ctx'[u].token > 0
        PROVE  u = v
    <3>1. \A x \in Tries \ {t} : ctx'[x].token < ctx'[t].token
      BY <2>1, <2>2
    <3>2. CASE u # t /\ v # t
      BY <2>1, <2>4, <3>2
    <3>3. CASE u = t \/ v = t
      BY <2>1, <2>2, <2>4, <3>1, <3>3
    <3> QED BY <3>2, <3>3
  <2> QED BY <2>3, <2>4
<1>2. CASE UNCHANGED <<leaseToken, ctx>> /\ ~\E t \in Tries : ClaimRun(t)
  BY <1>2, PcFrame
<1> QED BY <1>1, <1>2, LeaseFrame

LEMMA EntryOrderStep ==
  ASSUME LifecycleInv, [Next]_vars, NEW t \in Tries
  PROVE  /\ pc'[t] \in {"claimed", "entering"} /\ ctx'[t].token = leaseToken' =>
              status' \in {"starting", "cancellation_requested"}
         /\ pc'[t] = "entering" =>
              \/ ValidTransition(fin'[t].exp, "running")
              \/ fin'[t].exp = "running" /\ ctx'[t].token < leaseToken'
<1> DEFINE Held ==
      pc'[t] \in {"claimed", "entering"} /\ ctx'[t].token = leaseToken' =>
        status' \in {"starting", "cancellation_requested"}
<1> DEFINE Read ==
      pc'[t] = "entering" =>
        \/ ValidTransition(fin'[t].exp, "running")
        \/ fin'[t].exp = "running" /\ ctx'[t].token < leaseToken'
<1> SUFFICES Held /\ Read
  OBVIOUS
<1> USE DEF LifecycleInv, TypeOK, TokensFresh, EntryOrder, HoldingPcs
<1>1. ASSUME NEW u \in Tries, ClaimRun(u) PROVE Held /\ Read
  <2>1. CASE u = t
    BY <1>1, <2>1 DEF ClaimRun
  <2>2. CASE u # t
    <3>1. ctx'[t] = ctx[t] /\ pc'[t] = pc[t] /\ fin'[t] = fin[t]
            /\ leaseToken' = leaseToken + 1
      BY <1>1, <2>2 DEF ClaimRun
    <3> QED BY <3>1
  <2> QED BY <2>1, <2>2
<1>2. ASSUME NEW u \in Tries, EnterRunningRead(u) PROVE Held /\ Read
  <2>1. CASE u = t
    <3>1. status # "running" \/ ctx[t].token < leaseToken
      <4>1. pc[t] = "claimed" /\ ctx[t].token \in Nat /\ ctx[t].token <= leaseToken
        BY <1>2, <2>1 DEF EnterRunningRead
      <4>2. ctx[t].token = leaseToken => status # "running"
        BY <4>1
      <4> QED BY <4>1, <4>2
    <3>2. UNCHANGED <<status, ctx, leaseToken>>
      BY <1>2 DEF EnterRunningRead, rowVars
    <3>3. pc'[t] = "entering" =>
            /\ fin'[t].exp = status
            /\ status = "running" \/ ValidTransition(status, "running")
      BY <1>2, <2>1 DEF EnterRunningRead, NoFin
    <3> QED BY <1>2, <2>1, <3>1, <3>2, <3>3 DEF EnterRunningRead
  <2>2. CASE u # t
    BY <1>2, <2>2 DEF EnterRunningRead, rowVars
  <2> QED BY <2>1, <2>2
<1>3. ASSUME NEW u \in Tries, EnterRunningWrite(u) PROVE Held /\ Read
  <2>1. CASE u = t
    BY <1>3, <2>1 DEF EnterRunningWrite, leaseVars
  <2>2. CASE u # t
    <3>1. /\ pc'[t] = pc[t] /\ fin'[t] = fin[t]
          /\ UNCHANGED <<ctx, leaseToken>>
          /\ status' = status \/ (HoldsLease(u) /\ pc[u] = "entering")
      BY <1>3, <2>2 DEF EnterRunningWrite, leaseVars
    <3> QED BY <2>2, <3>1 DEF HoldsLease
  <2> QED BY <2>1, <2>2
<1>4. ASSUME NEW u \in Tries, FinalizeWrite(u) PROVE Held /\ Read
  <2>1. CASE u = t
    BY <1>4, <2>1 DEF FinalizeWrite, leaseVars
  <2>2. CASE u # t
    <3>1. /\ pc'[t] = pc[t] /\ fin'[t] = fin[t]
          /\ UNCHANGED <<ctx, leaseToken>>
          /\ status' = status \/ (HoldsLease(u) /\ pc[u] = "committing")
      BY <1>4, <2>2 DEF FinalizeWrite, FinalizationLands, leaseVars
    <3> QED BY <2>2, <3>1 DEF HoldsLease
  <2> QED BY <2>1, <2>2
<1>5. CASE CancelWrite
  BY <1>5 DEF CancelWrite, leaseVars, workerVars
<1>6. CASE RetireUnlaunchedRun
  <2>1. leaseToken = 0 /\ UNCHANGED <<pc, ctx, fin, leaseToken>>
    BY <1>6 DEF RetireUnlaunchedRun, Retirable, NeverClaimed, leaseVars, workerVars
  <2> QED BY <2>1
<1>7. CASE /\ UNCHANGED <<status, ctx, leaseToken>>
           /\ pc'[t] \in {"claimed", "entering"} =>
                pc'[t] = pc[t] /\ fin'[t] = fin[t]
  BY <1>7
<1>8. ASSUME NEW u \in Tries,
             \/ ClaimRefused(u) \/ FinalizeRead(u) \/ PersistRead(u)
             \/ FinalizeReread(u) \/ WorkerExits(u) \/ WorkerDies(u)
             \/ TaskRetried(u)
      PROVE  Held /\ Read
  <2>1. UNCHANGED <<status, ctx, leaseToken>>
    BY <1>8 DEF ClaimRefused, FinalizeRead, PersistRead, FinalizeReread,
                WorkerExits, WorkerDies, TaskRetried, rowVars
  <2>2. pc'[t] \in {"claimed", "entering"} =>
          pc'[t] = pc[t] /\ fin'[t] = fin[t]
    BY <1>8 DEF ClaimRefused, FinalizeRead, PersistRead, FinalizeReread,
                WorkerExits, WorkerDies, TaskRetried
  <2> QED BY <1>7, <2>1, <2>2
<1>9. CASE ApiNext
  <2>1. UNCHANGED <<status, ctx, leaseToken, fin>>
    BY <1>9 DEF ApiNext, TryAcquireLaunch, LauncherPost, RecordInvocation,
                SetLaunchState, RequestDies, rowVars, leaseVars, workerVars
  <2>2. pc'[t] \in {"claimed", "entering"} => pc'[t] = pc[t]
    BY <1>9 DEF ApiNext, TryAcquireLaunch, LauncherPost, RecordInvocation,
                SetLaunchState, RequestDies, rowVars, leaseVars, workerVars
  <2> QED BY <1>7, <2>1, <2>2
<1>10. CASE CancelRead \/ ReconcileLostLaunch \/ ResolveUnknownLaunch
              \/ Requeue \/ LeaseExpires \/ UNCHANGED vars
  <2>1. UNCHANGED <<status, ctx, leaseToken, fin, pc>>
    BY <1>10 DEF CancelRead, ReconcileLostLaunch, ResolveUnknownLaunch,
                 Requeue, LeaseExpires, vars, rowVars, leaseVars, workerVars
  <2> QED BY <1>7, <2>1
<1> HIDE DEF Held, Read, LifecycleInv, TypeOK, TokensFresh, EntryOrder, HoldingPcs
<1>11. CASE WorkerNext
  BY <1>1, <1>2, <1>3, <1>4, <1>8, <1>11 DEF WorkerNext, WorkerStep
<1> QED BY <1>5, <1>6, <1>9, <1>10, <1>11 DEF Next, UserNext, OperatorNext

(* What each writer of the status may do, given the invariant: the facts   *)
(* the remaining parts and the refinement rest on.                         *)
LEMMA TransitionFacts ==
  /\ \A s \in TERMINAL_STATES, new \in RUN_STATES : ~ValidTransition(s, new)
  /\ ~ValidTransition("running", "running")
BY DEF ValidTransition, VALID_TRANSITIONS, TERMINAL_STATES, RUN_STATES

LEMMA CancelWriteEffect ==
  ASSUME LifecycleInv, CancelWrite
  PROVE  /\ UNCHANGED <<evidence, retired, leaseToken, pc, launchState, req>>
         /\ \/ status' = status
            \/ /\ status' = "cancellation_requested"
               /\ ValidTransition(status, status')
               /\ status \in CLAIMED_RUN_STATES \/ launchState = "launched"
BY DEF LifecycleInv, CancelWrite, CancelMatches, CancelDecided, leaseVars,
       workerVars

LEMMA ClaimRunEffect ==
  ASSUME LifecycleInv, NEW t \in Tries, ClaimRun(t)
  PROVE  /\ UNCHANGED <<evidence, retired, launchState, req>>
         /\ pc[t] = "booting" /\ leaseToken' > 0 /\ lease' = "live"
         /\ \/ status = "cancellation_requested" /\ status' = status
            \/ /\ status \in {"queued", "launching", "waiting", "starting",
                              "running"}
               /\ status' = "starting"
BY DEF LifecycleInv, TypeOK, ClaimRun, Claimable

(* transition_run_worker_guarded without its compare-and-set (the status   *)
(* read was already running) never lands: the reader has been replaced.    *)
LEMMA EnterRunningWriteEffect ==
  ASSUME LifecycleInv, NEW t \in Tries, EnterRunningWrite(t)
  PROVE  /\ UNCHANGED <<evidence, retired, leaseToken, launchState, req>>
         /\ \/ status' = status
            \/ status' = "running" /\ ValidTransition(status, "running")
<1> USE DEF LifecycleInv, TypeOK
<1>1. UNCHANGED <<evidence, retired, leaseToken, launchState, req>>
  BY DEF EnterRunningWrite, leaseVars
<1>2. CASE HoldsLease(t) /\ fin[t].exp \in {"running", status}
  <2>1. ctx[t].token = leaseToken /\ pc[t] = "entering"
    BY <1>2 DEF HoldsLease, EnterRunningWrite
  <2>2. ~(ctx[t].token < leaseToken)
    BY <2>1
  <2>3. ValidTransition(fin[t].exp, "running")
    BY <2>1, <2>2 DEF EntryOrder
  <2>4. fin[t].exp = status
    BY <1>2, <2>3, TransitionFacts
  <2> QED BY <1>1, <1>2, <2>3, <2>4 DEF EnterRunningWrite
<1>3. CASE ~(HoldsLease(t) /\ fin[t].exp \in {"running", status})
  BY <1>1, <1>3 DEF EnterRunningWrite
<1> QED BY <1>2, <1>3

LEMMA FinalizeWriteEffect ==
  ASSUME LifecycleInv, NEW t \in Tries, FinalizeWrite(t)
  PROVE  /\ UNCHANGED <<retired, leaseToken, launchState, req>>
         /\ \/ UNCHANGED <<status, evidence>> /\ pc' = [pc EXCEPT ![t] = "rereading"]
            \/ /\ HoldsLease(t)
               /\ fin[t].emitted \in BOOLEAN
               /\ status' = fin[t].claim /\ status' \in TERMINAL_STATES
               /\ ValidTransition(status, status')
               /\ evidence' = evidence \o OwedEvents(status', fin[t].emitted)
               /\ pc' = [pc EXCEPT ![t] = "written"]
<1>1. fin[t].claim \in TERMINAL_STATES /\ fin[t].emitted \in BOOLEAN
  BY DEF LifecycleInv, TypeOK, Finalizers
<1>2. UNCHANGED <<retired, leaseToken, launchState, req>>
  BY DEF FinalizeWrite, leaseVars
<1>3. CASE FinalizationLands(t)
  BY <1>1, <1>2, <1>3 DEF FinalizeWrite, FinalizationLands
<1>4. CASE ~FinalizationLands(t)
  BY <1>2, <1>4 DEF FinalizeWrite
<1> QED BY <1>3, <1>4

LEMMA RetireEffect ==
  ASSUME LifecycleInv, RetireUnlaunchedRun
  PROVE  /\ status \in {"queued", "cancellation_requested"}
         /\ status' = "cancelled" /\ retired' = TRUE
         /\ workerId = NoWorker /\ leaseToken = 0
         /\ UNCHANGED <<workerId, leaseToken, pc, launchState, req>>
         /\ evidence' = Append(evidence, "run_cancelled")
BY DEF RetireUnlaunchedRun, Retirable, NeverClaimed, leaseVars, workerVars

(* A terminal status never changes, and its evidence neither.              *)
LEMMA TerminalStays ==
  ASSUME LifecycleInv, [Next]_vars, status \in TERMINAL_STATES
  PROVE  UNCHANGED <<status, evidence, retired>>
<1>1. \A new \in RUN_STATES : ~ValidTransition(status, new)
  BY TransitionFacts
<1>2. {"running", "cancellation_requested"} \subseteq RUN_STATES
  BY DEF RUN_STATES
<1>3. status \notin {"queued", "launching", "waiting", "starting", "running",
                    "cancellation_requested"}
  BY DEF TERMINAL_STATES
<1>4. CASE CancelWrite
  <2>1. UNCHANGED <<evidence, retired>> /\ status' = status
    BY <1>1, <1>2, <1>4, CancelWriteEffect
  <2> QED BY <2>1
<1>5. CASE RetireUnlaunchedRun
  BY <1>3, <1>5, RetireEffect
<1>6. ASSUME NEW t \in Tries, ClaimRun(t) PROVE FALSE
  BY <1>3, <1>6, ClaimRunEffect
<1>7. ASSUME NEW t \in Tries, EnterRunningWrite(t)
      PROVE  UNCHANGED <<status, evidence, retired>>
  BY <1>1, <1>2, <1>7, EnterRunningWriteEffect
<1>8. ASSUME NEW t \in Tries, FinalizeWrite(t)
      PROVE  UNCHANGED <<status, evidence, retired>>
  BY <1>1, <1>8, FinalizeWriteEffect, StatesDistinct
<1> QED BY <1>4, <1>5, <1>6, <1>7, <1>8, StatusFrame

LEMMA CancelDecidedStep ==
  ASSUME LifecycleInv, [Next]_vars PROVE CancelDecided'
<1> USE DEF LifecycleInv, CancelDecided
<1>1. CASE UNCHANGED cancelSeen
  BY <1>1
<1>2. CASE CancelRead
  BY <1>2 DEF CancelRead
<1>3. CASE CancelWrite
  BY <1>3 DEF CancelWrite
<1>4. CASE ApiNext \/ OperatorNext \/ LeaseExpires \/ UNCHANGED vars
  BY <1>1, <1>4 DEF ApiNext, TryAcquireLaunch, LauncherPost, RecordInvocation,
       SetLaunchState, RequestDies, OperatorNext, ReconcileLostLaunch,
       ResolveUnknownLaunch, Requeue, RetireUnlaunchedRun, LeaseExpires, vars
<1>5. CASE WorkerNext
  BY <1>1, <1>5 DEF WorkerNext, WorkerStep, ClaimRun, ClaimRefused,
       EnterRunningRead, EnterRunningWrite, FinalizeRead, PersistRead,
       FinalizeWrite, FinalizeReread, WorkerExits, WorkerDies, TaskRetried
<1> QED BY <1>2, <1>3, <1>4, <1>5 DEF Next, UserNext

LEMMA EndedIsTerminalStep ==
  ASSUME LifecycleInv, [Next]_vars PROVE EndedIsTerminal'
<1> SUFFICES ASSUME NEW t \in Tries, pc'[t] \in {"written", "done"}
             PROVE  status' \in TERMINAL_STATES
  BY DEF EndedIsTerminal
<1>1. CASE status \in TERMINAL_STATES
  BY <1>1, TerminalStays
<1>2. CASE status \notin TERMINAL_STATES
  <2> USE DEF LifecycleInv, TypeOK
  <2>1. pc[t] \notin {"written", "done"}
    BY <1>2 DEF EndedIsTerminal
  <2>2. ASSUME NEW u \in Tries, FinalizeWrite(u)
        PROVE  status' \in TERMINAL_STATES
    BY <2>1, <2>2, FinalizeWriteEffect
  <2>3. ASSUME NEW u \in Tries,
               \/ ClaimRun(u) \/ ClaimRefused(u) \/ EnterRunningRead(u)
               \/ EnterRunningWrite(u) \/ FinalizeRead(u) \/ PersistRead(u)
               \/ FinalizeReread(u) \/ WorkerExits(u) \/ WorkerDies(u)
               \/ TaskRetried(u)
        PROVE  FALSE
    <3>1. CASE u = t
      BY <1>2, <2>1, <2>3, <3>1
         DEF ClaimRun, ClaimRefused, EnterRunningRead, EnterRunningWrite,
             FinalizeRead, PersistRead, FinalizeReread, WorkerExits,
             WorkerDies, TaskRetried
    <3>2. CASE u # t
      BY <2>1, <2>3, <3>2
         DEF ClaimRun, ClaimRefused, EnterRunningRead, EnterRunningWrite,
             FinalizeRead, PersistRead, FinalizeReread, WorkerExits,
             WorkerDies, TaskRetried
    <3> QED BY <3>1, <3>2
  <2>4. CASE ApiNext
    BY <2>1, <2>4 DEF ApiNext, TryAcquireLaunch, LauncherPost,
         RecordInvocation, SetLaunchState, RequestDies, workerVars
  <2>5. CASE UserNext \/ OperatorNext \/ LeaseExpires \/ UNCHANGED vars
    BY <2>1, <2>5 DEF UserNext, CancelRead, CancelWrite, OperatorNext,
         ReconcileLostLaunch, ResolveUnknownLaunch, Requeue,
         RetireUnlaunchedRun, LeaseExpires, vars, workerVars
  <2> HIDE DEF LifecycleInv, TypeOK
  <2>6. CASE WorkerNext
    BY <2>2, <2>3, <2>6 DEF WorkerNext, WorkerStep
  <2> QED BY <2>4, <2>5, <2>6 DEF Next
<1> QED BY <1>1, <1>2

(* Once an execution exists it exists for good: a process never goes back  *)
(* to absent.                                                              *)
LEMMA ExecutionStays ==
  ASSUME TypeOK, [Next]_vars, ExecutionExists PROVE ExecutionExists'
<1>1. PICK e \in Executions : pc[<<e, 1>>] # "absent"
  BY DEF ExecutionExists
<1>2. <<e, 1>> \in Tries
  BY TriesAssumption DEF Tries
<1>3. pc'[<<e, 1>>] # "absent"
  BY <1>1, <1>2, PcFrame
<1> QED BY <1>3 DEF ExecutionExists

LEMMA LaunchKnowledgeStep ==
  ASSUME LifecycleInv, [Next]_vars PROVE LaunchKnowledge'
<1> TypeOK
  BY DEF LifecycleInv
<1>1. CASE ExecutionExists
  <2>1. ExecutionExists'
    BY <1>1, ExecutionStays
  <2>2. status' \in CLAIMED_RUN_STATES => leaseToken' > 0
    <3> USE DEF LifecycleInv, LaunchKnowledge, CLAIMED_RUN_STATES
    <3>1. CASE UNCHANGED status
      <4>1. leaseToken > 0 => leaseToken' > 0
        BY LeaseFrame, ClaimRunEffect
      <4> QED BY <3>1, <4>1
    <3>2. CASE CancelWrite
      BY <3>2, <3>1, CancelWriteEffect
    <3>3. CASE RetireUnlaunchedRun
      BY <3>3, RetireEffect
    <3>4. ASSUME NEW t \in Tries, ClaimRun(t) PROVE leaseToken' > 0
      BY <3>4, ClaimRunEffect
    <3>5. ASSUME NEW t \in Tries, EnterRunningWrite(t)
          PROVE  status' \in CLAIMED_RUN_STATES => leaseToken' > 0
      <4>1. CASE status' # status
        <5>1. HoldsLease(t) /\ pc[t] = "entering" /\ leaseToken' = leaseToken
          BY <3>5, <4>1 DEF EnterRunningWrite, leaseVars
        <5>2. ctx[t].token > 0
          BY <5>1 DEF TokensFresh, HoldingPcs
        <5> QED BY <5>1, <5>2 DEF HoldsLease
      <4> QED BY <3>1, <4>1
    <3>6. ASSUME NEW t \in Tries, FinalizeWrite(t)
          PROVE  status' \in CLAIMED_RUN_STATES => leaseToken' > 0
      BY <3>1, <3>6, FinalizeWriteEffect, StatesDistinct
    <3> QED BY <3>1, <3>2, <3>3, <3>4, <3>5, <3>6, StatusFrame
  <2> QED BY <2>1, <2>2 DEF LaunchKnowledge
<1>2. CASE ~ExecutionExists
  <2> USE DEF LifecycleInv, LaunchKnowledge
  <2>1. /\ \A t \in Tries : pc[t] = "absent"
        /\ \A r \in Requests : req[r] \notin {"ok", "recorded"}
        /\ launchState # "launched"
        /\ leaseToken = 0
        /\ status \notin CLAIMED_RUN_STATES
    BY <1>2 DEF TypeOK
  <2>2. CASE WorkerNext
    <3>1. PICK t \in Tries : WorkerStep(t) \/ WorkerDies(t) \/ TaskRetried(t)
      BY <2>2 DEF WorkerNext
    <3>2. ~WorkerStep(t) /\ ~WorkerDies(t)
      BY <2>1 DEF WorkerStep, ClaimRun, ClaimRefused, EnterRunningRead,
           EnterRunningWrite, FinalizeRead, PersistRead, FinalizeWrite,
           FinalizeReread, WorkerExits, WorkerDies, LivePcs, HoldingPcs
    <3>3. t[2] > 1 /\ pc[<<t[1], t[2] - 1>>] = "failed"
      BY <3>1, <3>2 DEF TaskRetried
    <3>4. <<t[1], t[2] - 1>> \in Tries
      BY <3>3, TriesAssumption DEF Tries
    <3> QED BY <2>1, <3>3, <3>4
  <2>3. ASSUME NEW r \in Requests, NEW created \in BOOLEAN,
               NEW outcome \in {"ok", "failed", "unknown"},
               LauncherPost(r, created, outcome)
        PROVE  LaunchKnowledge'
    <3>1. UNCHANGED <<launchState, leaseToken, status>>
      BY <2>3 DEF LauncherPost, rowVars
    <3>2. CASE created
      <4>1. PICK e \in Executions : pc' = [pc EXCEPT ![<<e, 1>>] = "booting"]
        BY <2>3, <3>2 DEF LauncherPost
      <4>2. <<e, 1>> \in Tries
        BY TriesAssumption DEF Tries
      <4>3. ExecutionExists'
        BY <4>1, <4>2 DEF ExecutionExists, TypeOK
      <4> QED BY <2>1, <3>1, <4>3
    <3>3. CASE ~created
      <4>1. pc' = pc /\ req' = [req EXCEPT ![r] = outcome]
              /\ outcome \in {"failed", "unknown"}
        BY <2>3, <3>3 DEF LauncherPost
      <4> QED BY <2>1, <3>1, <4>1 DEF TypeOK, ExecutionExists
    <3> QED BY <3>2, <3>3
  <2>4. ASSUME NEW r \in Requests,
               \/ TryAcquireLaunch(r) \/ RecordInvocation(r)
               \/ SetLaunchState(r) \/ RequestDies(r)
        PROVE  LaunchKnowledge'
    <3>1. UNCHANGED <<pc, leaseToken, status>> /\ launchState' # "launched"
      BY <2>1, <2>4 DEF TryAcquireLaunch, RecordInvocation, SetLaunchState,
           RequestDies, rowVars, leaseVars, workerVars
    <3>2. \A q \in Requests : req'[q] \notin {"ok", "recorded"}
      BY <2>1, <2>4 DEF TryAcquireLaunch, RecordInvocation, SetLaunchState,
           RequestDies, TypeOK
    <3> QED BY <2>1, <3>1, <3>2
  <2>5. CASE UserNext \/ OperatorNext \/ LeaseExpires \/ UNCHANGED vars
    <3>1. CASE CancelWrite
      <4>1. status' = status
        BY <2>1, <3>1, CancelWriteEffect
      <4> QED BY <2>1, <3>1, <4>1, CancelWriteEffect DEF ExecutionExists
    <3>2. CASE RetireUnlaunchedRun
      BY <2>1, <3>2, RetireEffect DEF ExecutionExists, CLAIMED_RUN_STATES
    <3>3. CASE \/ CancelRead \/ ReconcileLostLaunch \/ ResolveUnknownLaunch
               \/ Requeue \/ LeaseExpires \/ UNCHANGED vars
      <4>1. UNCHANGED <<pc, leaseToken, status, req>> /\ launchState' # "launched"
        BY <1>2, <2>1, <3>3 DEF CancelRead, ReconcileLostLaunch,
             ResolveUnknownLaunch, Requeue, LeaseExpires, vars, rowVars,
             leaseVars, workerVars
      <4> QED BY <2>1, <4>1
    <3> QED BY <2>5, <3>1, <3>2, <3>3 DEF UserNext, OperatorNext
  <2> QED BY <2>2, <2>3, <2>4, <2>5 DEF Next, ApiNext
<1> QED BY <1>1, <1>2

LEMMA CancellationHasExecutionStep ==
  ASSUME LifecycleInv, [Next]_vars PROVE CancellationHasExecution'
<1> TypeOK
  BY DEF LifecycleInv
<1> SUFFICES ASSUME status' = "cancellation_requested" PROVE ExecutionExists
  BY ExecutionStays DEF CancellationHasExecution
<1> USE DEF LifecycleInv, CancellationHasExecution, LaunchKnowledge
<1>1. CASE status = "cancellation_requested"
  BY <1>1
<1>2. CASE status # "cancellation_requested"
  <2>1. CASE CancelWrite
    BY <1>2, <2>1, CancelWriteEffect
  <2>2. ASSUME NEW t \in Tries, FinalizeWrite(t) PROVE FALSE
    BY <1>2, <2>2, FinalizeWriteEffect DEF TERMINAL_STATES
  <2> QED BY <1>2, <2>1, <2>2, StatusFrame, ClaimRunEffect,
             EnterRunningWriteEffect, RetireEffect
<1> QED BY <1>1, <1>2

(* The decision that ends an unfinished run leaves the evidence it owes.   *)
LEMMA DecisionEvidence ==
  ASSUME NEW s \in TERMINAL_STATES, NEW emitted \in BOOLEAN
  PROVE  /\ <<>> \o OwedEvents(s, emitted) = OwedEvents(s, emitted)
         /\ OwedEvents(s, emitted) \in
              IF s \in DOMAIN EventOfStatus THEN {<<>>, <<EventOfStatus[s]>>}
              ELSE {<<>>}
<1>1. OwedEvents(s, emitted) \in Seq(TERMINAL_EVENTS)
  BY OwedEventsType
<1>2. <<>> \o OwedEvents(s, emitted) = OwedEvents(s, emitted)
  BY <1>1, ConcatEmptySeq
<1> QED BY <1>2 DEF OwedEvents

LEMMA OnlyStopsEmittedStep ==
  ASSUME LifecycleInv, [Next]_vars PROVE OnlyStopsEmitted'
<1> DEFINE Ok(f) ==
      f.emitted => f.claim \in {"failed", "timed_out", "budget_exhausted"}
<1> USE DEF LifecycleInv, TypeOK, OnlyStopsEmitted
<1>1. Ok(NoFin) /\ \A x \in RUN_STATES : Ok([NoFin EXCEPT !.exp = x])
  BY DEF NoFin
<1>2. CASE UNCHANGED fin
  BY <1>2
<1>3. ASSUME NEW t \in Tries, NEW f, fin' = [fin EXCEPT ![t] = f], Ok(f)
      PROVE  OnlyStopsEmitted'
  BY <1>3
<1>4. ASSUME NEW t \in Tries, FinalizeRead(t) PROVE OnlyStopsEmitted'
  <2>1. CASE ~UNCHANGED fin
    <3>1. PICK c \in ClaimsOf(t),
               observed \in (({status} \ TERMINAL_STATES) \cup {Unread}) :
                 fin' = [fin EXCEPT ![t] = Decision(c[1], c[2], observed, 1)]
      BY <1>4, <2>1 DEF FinalizeRead
    <3>2. c[2] => c[1] \in {"failed", "timed_out", "budget_exhausted"}
      <4>1. \A d \in ClaimsBeforeRunning : ~d[2]
        BY DEF ClaimsBeforeRunning
      <4>2. \A d \in ClaimsRunning :
              d[2] => d[1] \in {"failed", "timed_out", "budget_exhausted"}
        BY <4>1 DEF ClaimsRunning
      <4>3. \A d \in {"cancelled"} \X {FALSE} : ~d[2]
        OBVIOUS
      <4> QED BY <4>1, <4>2, <4>3 DEF ClaimsOf
    <3>3. Ok(Decision(c[1], c[2], observed, 1))
      BY <3>2 DEF Decision, Legalize
    <3> QED BY <1>3, <3>1, <3>3
  <2> QED BY <1>2, <2>1
<1>5. ASSUME NEW t \in Tries, PersistRead(t) PROVE OnlyStopsEmitted'
  <2>1. fin' = [fin EXCEPT ![t] = [fin[t] EXCEPT !.exp = status]]
    BY <1>5 DEF PersistRead
  <2>2. fin[t] \in Finalizers /\ Ok(fin[t])
    OBVIOUS
  <2>3. Ok([fin[t] EXCEPT !.exp = status])
    BY <2>2 DEF Finalizers
  <2> QED BY <1>3, <2>1, <2>3
<1>6. ASSUME NEW t \in Tries, FinalizeReread(t) PROVE OnlyStopsEmitted'
  <2>1. Ok(fin[t])
    OBVIOUS
  <2>2. Ok(Decision(fin[t].claim, fin[t].emitted, status, fin[t].left - 1))
    BY <2>1 DEF Decision, Legalize
  <2> QED BY <1>1, <1>3, <1>6, <2>2 DEF FinalizeReread
<1>7. ASSUME NEW t \in Tries,
             \/ EnterRunningRead(t) \/ EnterRunningWrite(t)
             \/ WorkerExits(t) \/ WorkerDies(t)
      PROVE  OnlyStopsEmitted'
  BY <1>1, <1>2, <1>3, <1>7 DEF EnterRunningRead, EnterRunningWrite,
       WorkerExits, WorkerDies
<1>8. ASSUME NEW t \in Tries,
             ClaimRun(t) \/ ClaimRefused(t) \/ FinalizeWrite(t) \/ TaskRetried(t)
      PROVE  OnlyStopsEmitted'
  BY <1>2, <1>8 DEF ClaimRun, ClaimRefused, FinalizeWrite, TaskRetried
<1>9. CASE ApiNext \/ UserNext \/ OperatorNext \/ LeaseExpires \/ UNCHANGED vars
  BY <1>2, <1>9 DEF ApiNext, TryAcquireLaunch, LauncherPost, RecordInvocation,
       SetLaunchState, RequestDies, UserNext, CancelRead, CancelWrite,
       OperatorNext, ReconcileLostLaunch, ResolveUnknownLaunch, Requeue,
       RetireUnlaunchedRun, LeaseExpires, vars, workerVars
<1> HIDE DEF LifecycleInv, TypeOK, OnlyStopsEmitted
<1> QED BY <1>4, <1>5, <1>6, <1>7, <1>8, <1>9 DEF Next, WorkerNext, WorkerStep

LEMMA EvidenceStep ==
  ASSUME LifecycleInv, [Next]_vars PROVE EvidenceMatchesStatus'
<1> USE DEF LifecycleInv
<1>1. CASE status \in TERMINAL_STATES
  BY <1>1, TerminalStays DEF EvidenceMatchesStatus
<1>2. CASE status \notin TERMINAL_STATES
  <2>1. evidence = <<>>
    BY <1>2 DEF EvidenceMatchesStatus, TERMINAL_STATES
  <2>2. CASE status' \notin TERMINAL_STATES /\ UNCHANGED evidence
    BY <2>1, <2>2 DEF EvidenceMatchesStatus, TERMINAL_STATES
  <2>3. CASE RetireUnlaunchedRun
    <3>1. status' = "cancelled" /\ evidence' = <<"run_cancelled">>
      BY <2>1, <2>3, RetireEffect
    <3>2. EventOfStatus["cancelled"] = "run_cancelled"
      BY DEF EventOfStatus
    <3> QED BY <3>1, <3>2 DEF EvidenceMatchesStatus
  <2>4. ASSUME NEW t \in Tries, FinalizeWrite(t) PROVE EvidenceMatchesStatus'
    <3>1. CASE UNCHANGED <<status, evidence>>
      BY <1>2, <2>2, <3>1
    <3>2. CASE ~UNCHANGED <<status, evidence>>
      <4>1. /\ status' = fin[t].claim /\ status' \in TERMINAL_STATES
            /\ fin[t].emitted \in BOOLEAN
            /\ evidence' = <<>> \o OwedEvents(status', fin[t].emitted)
        BY <2>1, <2>4, <3>2, FinalizeWriteEffect
      <4>2. evidence' = OwedEvents(status', fin[t].emitted)
        BY <4>1, DecisionEvidence
      <4>3. fin[t].emitted => status' \in {"failed", "timed_out", "budget_exhausted"}
        BY <4>1 DEF OnlyStopsEmitted
      <4>4. DOMAIN EventOfStatus = {"completed", "partial_success", "failed", "cancelled"}
              /\ EventOfStatus["failed"] = "run_failed"
        BY DEF EventOfStatus
      <4> QED BY <4>1, <4>2, <4>3, <4>4
              DEF EvidenceMatchesStatus, OwedEvents, TERMINAL_STATES
    <3> QED BY <3>1, <3>2
  <2>5. CASE CancelWrite
    BY <1>2, <2>2, <2>5, CancelWriteEffect DEF TERMINAL_STATES
  <2>6. ASSUME NEW t \in Tries, ClaimRun(t) PROVE EvidenceMatchesStatus'
    BY <1>2, <2>2, <2>6, ClaimRunEffect DEF TERMINAL_STATES
  <2>7. ASSUME NEW t \in Tries, EnterRunningWrite(t) PROVE EvidenceMatchesStatus'
    BY <1>2, <2>2, <2>7, EnterRunningWriteEffect DEF TERMINAL_STATES
  <2>8. CASE UNCHANGED <<status, evidence, retired>>
    BY <1>2, <2>2, <2>8
  <2> QED BY <2>3, <2>4, <2>5, <2>6, <2>7, <2>8, StatusFrame
<1> QED BY <1>1, <1>2

LEMMA RetiredStep ==
  ASSUME LifecycleInv, [Next]_vars PROVE RetiredNeverExecuted'
<1> USE DEF LifecycleInv, RetiredNeverExecuted
<1>1. CASE retired
  <2>1. status \in TERMINAL_STATES
    BY <1>1 DEF TERMINAL_STATES
  <2>2. UNCHANGED <<status, retired>>
    BY <2>1, TerminalStays
  <2>3. ~\E t \in Tries : ClaimRun(t)
    BY <1>1, ClaimRunEffect
  <2> QED BY <1>1, <2>2, <2>3, LeaseFrame
<1>2. CASE ~retired
  BY <1>2, StatusFrame, CancelWriteEffect, RetireEffect, ClaimRunEffect,
     EnterRunningWriteEffect, FinalizeWriteEffect
<1> QED BY <1>1, <1>2

-----------------------------------------------------------------------------
LEMMA LifecycleInit == ASSUME Init PROVE LifecycleInv
<1>1. TypeOK
  BY TypeInit
<1>2. LeaseColumnsAgree /\ TokensFresh
  BY DEF Init, LeaseColumnsAgree, TokensFresh, HoldingPcs
<1>3. EntryOrder /\ CancelDecided /\ EndedIsTerminal
  BY DEF Init, EntryOrder, CancelDecided, EndedIsTerminal
<1>4. OnlyStopsEmitted
  BY DEF Init, OnlyStopsEmitted, NoFin
<1>5. LaunchKnowledge
  BY DEF Init, LaunchKnowledge, CLAIMED_RUN_STATES
<1>6. EvidenceMatchesStatus /\ RetiredNeverExecuted /\ CancellationHasExecution
  BY DEF Init, EvidenceMatchesStatus, RetiredNeverExecuted,
         CancellationHasExecution
<1> QED BY <1>1, <1>2, <1>3, <1>4, <1>5, <1>6 DEF LifecycleInv

LEMMA LifecycleStep == ASSUME LifecycleInv, [Next]_vars PROVE LifecycleInv'
<1>1. TypeOK'
  BY TypeStep DEF LifecycleInv
<1>2. EntryOrder'
  BY EntryOrderStep DEF EntryOrder
<1> QED BY <1>1, <1>2, LeaseColumnsStep, TokensFreshStep, CancelDecidedStep,
           OnlyStopsEmittedStep, EndedIsTerminalStep, LaunchKnowledgeStep,
           EvidenceStep, RetiredStep, CancellationHasExecutionStep
        DEF LifecycleInv

(* The invariant the safety results rest on holds throughout.              *)
THEOREM LifecycleInvariant == Spec => []LifecycleInv
<1>1. LifecycleInv /\ [Next]_vars => LifecycleInv'
  BY LifecycleStep
<1> QED BY <1>1, LifecycleInit, PTL DEF Spec

(* A finished run has exactly the terminal event its status owes, and an   *)
(* unfinished one none (finalize_run_guarded, retire_unlaunched_run).      *)
THEOREM EvidenceCorrect == Spec => []EvidenceMatchesStatus
<1>1. LifecycleInv => EvidenceMatchesStatus
  BY DEF LifecycleInv
<1> QED BY <1>1, LifecycleInvariant, PTL

(* However worker ids are given out, at most one process passes the guard  *)
(* of a durable write (assert_worker_lease).                               *)
THEOREM OneLeaseHolder == Spec => []SingleLeaseHolder
<1>1. LifecycleInv => SingleLeaseHolder
  <2> SUFFICES ASSUME LifecycleInv, NEW t \in Tries, NEW u \in Tries,
                      Heartbeating(t), Heartbeating(u)
               PROVE  t = u
    BY DEF SingleLeaseHolder
  <2>1. ctx[t].token = leaseToken /\ ctx[u].token = leaseToken /\ ctx[t].token > 0
    BY DEF Heartbeating, HoldsLease, LifecycleInv, TokensFresh
  <2> QED BY <2>1 DEF LifecycleInv, TokensFresh
<1> QED BY <1>1, LifecycleInvariant, PTL

(* Exit 0 is reported only for a run whose terminal status is durable      *)
(* (execute_run).                                                          *)
THEOREM ExitZeroIsTerminal == Spec => []ExitZeroMeansTerminal
<1>1. LifecycleInv => ExitZeroMeansTerminal
  BY DEF LifecycleInv, EndedIsTerminal, ExitZeroMeansTerminal
<1> QED BY <1>1, LifecycleInvariant, PTL

(* A cancellation is accepted only for a run a worker was started for      *)
(* (request_cancellation).                                                 *)
THEOREM CancellationsHaveExecution == Spec => []CancellationHasExecution
<1>1. LifecycleInv => CancellationHasExecution
  BY DEF LifecycleInv
<1> QED BY <1>1, LifecycleInvariant, PTL

(* A run retired as never launched was never executed and never will be,   *)
(* even by a worker already started for it (retire_unlaunched_run).        *)
THEOREM RetiredRunsStayUnexecuted == Spec => []RetiredNeverExecuted
<1>1. LifecycleInv => RetiredNeverExecuted
  BY DEF LifecycleInv
<1> QED BY <1>1, LifecycleInvariant, PTL

(* The terminal status is written by the process that claimed last, while  *)
(* its lease is live, or by an operator (finalize_run_guarded).            *)
THEOREM StaleWorkersDecideNothing == Spec => LatestClaimerDecides
<1> DEFINE Fenced ==
      status \notin TERMINAL_STATES /\ status' \in TERMINAL_STATES =>
        \/ retired'
        \/ \E t \in Tries : /\ pc[t] = "committing" /\ pc'[t] = "written"
                            /\ lease = "live" /\ leaseToken = ctx[t].token
<1>1. ASSUME LifecycleInv, [Next]_vars PROVE Fenced
  <2>1. ASSUME NEW t \in Tries, FinalizeWrite(t), status' # status
        PROVE  pc[t] = "committing" /\ pc'[t] = "written" /\ HoldsLease(t)
    <3>1. pc' = [pc EXCEPT ![t] = "written"] /\ HoldsLease(t)
      BY <1>1, <2>1, FinalizeWriteEffect
    <3>2. pc[t] = "committing"
      BY <2>1 DEF FinalizeWrite
    <3> QED BY <1>1, <3>1, <3>2 DEF LifecycleInv, TypeOK
  <2>2. CASE RetireUnlaunchedRun
    BY <1>1, <2>2, RetireEffect
  <2>3. CASE \/ UNCHANGED <<status, evidence, retired>> \/ CancelWrite
             \/ \E t \in Tries : ClaimRun(t) \/ EnterRunningWrite(t)
    <3>1. status' = status \/ status' \in {"cancellation_requested", "starting", "running"}
      BY <1>1, <2>3, CancelWriteEffect, ClaimRunEffect, EnterRunningWriteEffect
    <3> QED BY <3>1 DEF TERMINAL_STATES
  <2> QED BY <1>1, <2>1, <2>2, <2>3, StatusFrame DEF HoldsLease
<1>2. LifecycleInv /\ [Next]_vars => [Fenced]_vars
  BY <1>1
<1> QED BY <1>2, LifecycleInvariant, PTL DEF Spec, LatestClaimerDecides

(* The contract's vocabulary is the model's: both extend RunStates.        *)
LEMMA SameVocabulary ==
  /\ Contract!TERMINAL_STATES = TERMINAL_STATES
  /\ Contract!VALID_TRANSITIONS = VALID_TRANSITIONS
  /\ \A s, e : Contract!OwedEvents(s, e) = OwedEvents(s, e)
<1>1. Contract!TERMINAL_STATES = TERMINAL_STATES
  BY DEF TERMINAL_STATES, Contract!TERMINAL_STATES
<1>2. Contract!RUN_STATES = RUN_STATES
  BY <1>1 DEF RUN_STATES, Contract!RUN_STATES
<1>3. Contract!VALID_TRANSITIONS = VALID_TRANSITIONS
  BY <1>2, Zenon DEF VALID_TRANSITIONS, Contract!VALID_TRANSITIONS
<1>4. Contract!EventOfStatus = EventOfStatus
  BY Zenon DEF EventOfStatus, Contract!EventOfStatus
<1>5. \A s, e : Contract!OwedEvents(s, e) = OwedEvents(s, e)
  BY <1>4 DEF OwedEvents, Contract!OwedEvents
<1> QED BY <1>1, <1>3, <1>5

(* The run row keeps its contract: the status follows VALID_TRANSITIONS or *)
(* a reclaim, a terminal status is final, and it comes with its event.     *)
THEOREM RowKeepsContract == Spec => ImplementsContract
<1>1. Init => Contract!Init
  BY DEF Init, Contract!Init
<1>2. ASSUME LifecycleInv, [Next]_vars PROVE [Contract!Next]_<<status, evidence>>
  <2> USE DEF LifecycleInv
  <2>1. CASE UNCHANGED <<status, evidence, retired>>
    BY <2>1
  <2>2. ASSUME ValidTransition(status, status'), status' \notin TERMINAL_STATES,
               UNCHANGED evidence
        PROVE  Contract!Progress
    BY <2>2, SameVocabulary DEF Contract!Progress, ValidTransition
  <2>3. CASE CancelWrite
    <3>1. "cancellation_requested" \notin TERMINAL_STATES
      BY DEF TERMINAL_STATES
    <3> QED BY <1>2, <2>2, <2>3, <3>1, CancelWriteEffect DEF Contract!Next
  <2>4. ASSUME NEW t \in Tries, ClaimRun(t)
        PROVE  [Contract!Next]_<<status, evidence>>
    <3>1. "starting" \notin TERMINAL_STATES
            /\ ValidTransition("queued", "starting")
            /\ ValidTransition("launching", "starting")
      BY DEF TERMINAL_STATES, ValidTransition, VALID_TRANSITIONS, RUN_STATES
    <3> QED BY <1>2, <2>2, <2>4, <3>1, ClaimRunEffect
            DEF Contract!Next, Contract!Restart
  <2>5. ASSUME NEW t \in Tries, EnterRunningWrite(t)
        PROVE  [Contract!Next]_<<status, evidence>>
    <3>1. "running" \notin TERMINAL_STATES
      BY DEF TERMINAL_STATES
    <3> QED BY <1>2, <2>2, <2>5, <3>1, EnterRunningWriteEffect DEF Contract!Next
  <2>6. ASSUME NEW t \in Tries, FinalizeWrite(t)
        PROVE  [Contract!Next]_<<status, evidence>>
    <3>1. CASE ~UNCHANGED <<status, evidence>>
      <4>1. /\ fin[t].emitted \in BOOLEAN
            /\ status' \in VALID_TRANSITIONS[status] \cap TERMINAL_STATES
            /\ evidence' = evidence \o OwedEvents(status', fin[t].emitted)
        BY <1>2, <2>6, <3>1, FinalizeWriteEffect DEF ValidTransition
      <4>2. Contract!Decide
        BY <4>1, SameVocabulary DEF Contract!Decide
      <4> QED BY <4>2 DEF Contract!Next
    <3> QED BY <3>1
  <2>7. CASE RetireUnlaunchedRun
    <3>1. CASE status = "queued"
      BY <1>2, <2>7, <3>1, RetireEffect DEF Contract!Next, Contract!Retire
    <3>2. CASE status = "cancellation_requested"
      <4>1. /\ "cancelled" \in VALID_TRANSITIONS[status] \cap TERMINAL_STATES
            /\ OwedEvents("cancelled", FALSE) = <<"run_cancelled">>
        BY <3>2 DEF VALID_TRANSITIONS, RUN_STATES, TERMINAL_STATES,
                    OwedEvents, EventOfStatus
      <4>2. evidence' = evidence \o <<"run_cancelled">>
        <5>1. evidence \in Seq(TERMINAL_EVENTS) /\ "run_cancelled" \in TERMINAL_EVENTS
          BY <1>2 DEF TypeOK, TERMINAL_EVENTS
        <5>2. evidence' = Append(evidence, "run_cancelled")
          BY <1>2, <2>7, RetireEffect
        <5> QED BY <5>1, <5>2, AppendIsConcat
      <4>3. status' = "cancelled"
        BY <1>2, <2>7, RetireEffect
      <4>4. Contract!Decide
        BY <4>1, <4>2, <4>3, SameVocabulary DEF Contract!Decide
      <4> QED BY <4>4 DEF Contract!Next
    <3> QED BY <1>2, <2>7, <3>1, <3>2, RetireEffect
  <2> QED BY <1>2, <2>1, <2>3, <2>4, <2>5, <2>6, <2>7, StatusFrame
<1>3. LifecycleInv /\ [Next]_vars => [Contract!Next]_<<status, evidence>>
  BY <1>2
<1> QED
  BY <1>1, <1>3, LifecycleInvariant, PTL
     DEF Spec, ImplementsContract, Contract!Spec, Contract!contractVars
=============================================================================
