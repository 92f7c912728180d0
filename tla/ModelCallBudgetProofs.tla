------------------------ MODULE ModelCallBudgetProofs ------------------------
(***************************************************************************)
(* Proofs about ModelCallBudget, in three layers, for every number of      *)
(* runs, calls, attempts and threads.                                      *)
(*   GateInv: who holds a run's gate, how its calls are numbered, and what *)
(*     each call knows of its row.  It gives one request to a reservation, *)
(*     and a run's calls over restarts.                                    *)
(*   CeilingInv: the tracker balances what its calls hold and what the     *)
(*     provider charged.  It gives the ceilings of a run.                  *)
(*   DayInv: the database's rows book what was charged and what is owed,   *)
(*     but for what is known not to be covered.  It gives the daily budget.*)
(***************************************************************************)
EXTENDS ModelCallBudget, ProviderProofs

(* Layer one: who holds the lock, which calls are numbered how, and which  *)
(* rows have been used.                                                    *)
Locking == {"reserving", "admitted", "recording", "settled", "charged"}
Opening == {"admitted", "recording"}
Holding == {"admitted", "recording", "sent", "answered"}
Numbered == Holding \cup {"settled", "charged"}

TrackerType == [calls : Nat, out : Nat, resOut : Nat, cost : Nat, resCost : Nat,
                stopped : BOOLEAN]
CallType == [pc : CallPcs, cap : Nat, seq : Nat, charge : Nat, how : Settlements]
RowType == [status : RowStates, est : Nat, actual : Nat, uses : Nat]

BudgetShape ==
  /\ tracker \in [Runs -> TrackerType]
  /\ durable \in [Runs -> [calls : Nat, out : Nat, cost : Nat]]
  /\ attempt \in [Runs -> Nat \ {0}] /\ crashes \in [Runs -> Nat]
  /\ lock \in [Runs -> Threads \cup {NoThread}]
  /\ call \in [Runs -> [Threads -> CallType]]
  /\ rows \in [RowKeys -> RowType]
  /\ spent \in [Runs -> Nat] /\ lost \in [Runs -> Nat]
  /\ uncounted \in Nat

RecordsBounded ==
  \A r \in Runs :
    /\ durable[r].calls <= tracker[r].calls /\ tracker[r].calls <= MaxModelCalls[r]
    /\ durable[r].out <= tracker[r].out /\ durable[r].cost <= tracker[r].cost
    /\ crashes[r] <= MaxCrashes[r] /\ attempt[r] <= crashes[r] + 1

(* One call at a time is inside open_call or settle_call.                  *)
OneInside ==
  \A r \in Runs, c \in Threads : call[r][c].pc \in Locking => lock[r] = c

(* The checks of open_call still hold when its reservation is made.        *)
ChecksHold ==
  \A r \in Runs, c \in Threads :
    call[r][c].pc = "reserving" =>
      /\ tracker[r].calls < MaxModelCalls[r]
      /\ tracker[r].cost + tracker[r].resCost + call[r][c].cap <= MaxCostPerRun
      /\ tracker[r].out + tracker[r].resOut + call[r][c].cap <= MaxOutputTokens

(* A call being opened has the newest number, one no record has yet.       *)
NumbersOfCalls ==
  \A r \in Runs, c \in Threads :
    /\ call[r][c].pc \in Numbered => /\ call[r][c].seq >= 1
                                     /\ call[r][c].seq <= tracker[r].calls
    /\ call[r][c].pc \in Opening => durable[r].calls < call[r][c].seq
    /\ call[r][c].charge <= call[r][c].cap

NumbersDiffer ==
  \A r \in Runs : \A c, d \in Threads :
    /\ call[r][c].pc \in Numbered /\ call[r][d].pc \in Numbered
    /\ call[r][c].seq = call[r][d].seq
    => c = d

(* A used row belongs to a number the durable record has.                  *)
UsedRows ==
  \A k \in RowKeys :
    /\ rows[k].uses <= 1
    /\ rows[k].uses > 0 => k[3] <= durable[k[1]].calls
    /\ rows[k].uses = 0 => rows[k].status \in {"absent", "reserved", "rejected"}

UsedOnce ==
  \A k, m \in RowKeys :
    rows[k].uses > 0 /\ rows[m].uses > 0 /\ k[1] = m[1] /\ k[3] = m[3] => k = m

RowsOfCalls ==
  \A r \in Runs, c \in Threads :
    LET row == rows[RowKey(r, call[r][c].seq)]
    IN  /\ call[r][c].pc \in Opening => row.status = "reserved"
        /\ call[r][c].pc \in {"sent", "answered"} => row.uses > 0

AnswersSettled ==
  \A r \in Runs, c \in Threads :
    call[r][c].pc = "answered" => call[r][c].how \in {"settled", "released"}

GateInv ==
  /\ BudgetShape
  /\ AnswersSettled
  /\ RecordsBounded
  /\ OneInside
  /\ ChecksHold
  /\ NumbersOfCalls
  /\ NumbersDiffer
  /\ UsedRows
  /\ UsedOnce
  /\ RowsOfCalls

(* Layer two: what the calls of a run hold, and what they may still cost.  *)
HeldBy(own) == IF own.pc \in Holding THEN own.cap ELSE 0
ExposedBy(own) ==
  IF own.pc \in {"admitted", "recording", "sent"} THEN own.cap
  ELSE IF own.pc = "answered" THEN own.cap - own.charge ELSE 0
Held(calls) == Sum([c \in Threads |-> HeldBy(calls[c])], Threads)
Exposed(calls) == Sum([c \in Threads |-> ExposedBy(calls[c])], Threads)

CeilingInv ==
  \A r \in Runs :
    /\ tracker[r].cost + tracker[r].resCost <= MaxCostPerRun
    /\ tracker[r].out + tracker[r].resOut <= MaxOutputTokens
    /\ Held(call[r]) <= tracker[r].resCost
    /\ Held(call[r]) <= tracker[r].resOut
    /\ spent[r] + Exposed(call[r]) <= lost[r] + tracker[r].cost + tracker[r].resCost

(* Layer three: what the rows book against the day's budget, what they     *)
(* cover of the charges, and what a call may still be charged.             *)
Booked(row) ==
  IF row.status = "reserved" THEN row.est
  ELSE IF row.status = "settled" THEN Min({row.est, row.actual}) ELSE 0
Covered(row) == IF row.status = "reserved" /\ row.uses = 0 THEN 0 ELSE Booked(row)
BookedRows == [k \in RowKeys |-> Booked(rows[k])]
CoveredRows == [k \in RowKeys |-> Covered(rows[k])]

OwedBy(own, est) ==
  IF own.pc \in Opening THEN Monus(own.cap, est)
  ELSE IF own.pc = "sent" THEN est + Monus(own.cap, est)
  ELSE IF own.pc = "answered" THEN est + Monus(own.cap, est) - own.charge
  ELSE 0
Owed(r, c) == OwedBy(call[r][c], rows[RowKey(r, call[r][c].seq)].est)
OwedOf(r) == [c \in Threads |-> Owed(r, c)]
Charges == [r \in Runs |-> spent[r] + Sum(OwedOf(r), Threads)]

DayInv ==
  /\ Sum(BookedRows, RowKeys) <= DailyBudget
  /\ Sum(Charges, Runs) <= Sum(CoveredRows, RowKeys) + uncounted

-----------------------------------------------------------------------------
LEMMA BudgetNumbers ==
  /\ IsFiniteSet(Runs) /\ IsFiniteSet(Threads)
  /\ Caps \subseteq Nat \ {0} /\ MinAnswer \in Nat
  /\ MaxOutputTokens \in Nat /\ MaxCostPerRun \in Nat /\ DailyBudget \in Nat
  /\ NoThread \notin Threads
  /\ \A r \in Runs : /\ MaxModelCalls[r] \in Nat /\ MaxCrashes[r] \in Nat
                     /\ ThreadsOf[r] \subseteq Threads
<1>1. \A r \in Runs : ThreadsOf[r] \subseteq Threads
  BY BudgetAssumption
<1> QED
  BY <1>1, BudgetAssumption

LEMMA RowKeysShape ==
  \A k \in RowKeys :
    /\ k[1] \in Runs /\ k[2] \in Nat /\ k[3] \in Nat /\ k[3] >= 1
    /\ k[2] <= MaxCrashes[k[1]] + 1 /\ k[3] <= MaxModelCalls[k[1]]
    /\ k = <<k[1], k[2], k[3]>>
<1> SUFFICES ASSUME NEW k \in RowKeys
             PROVE  /\ k[1] \in Runs /\ k[2] \in Nat /\ k[3] \in Nat /\ k[3] >= 1
                    /\ k[2] <= MaxCrashes[k[1]] + 1 /\ k[3] <= MaxModelCalls[k[1]]
                    /\ k = <<k[1], k[2], k[3]>>
  OBVIOUS
<1>1. PICK r \in Runs : k \in {r} \X (1 .. MaxCrashes[r] + 1) \X Seqs(r)
  BY DEF RowKeys
<1> QED
  BY <1>1, BudgetNumbers DEF Seqs

LEMMA RowKeyShape ==
  ASSUME BudgetShape, RecordsBounded, NEW r \in Runs, NEW seq \in Nat, seq >= 1,
         seq <= MaxModelCalls[r]
  PROVE  /\ RowKey(r, seq) \in RowKeys /\ RowKey(r, seq) = <<r, attempt[r], seq>>
         /\ RowKey(r, seq)[1] = r /\ RowKey(r, seq)[2] = attempt[r] /\ RowKey(r, seq)[3] = seq
<1>1. attempt[r] \in 1 .. MaxCrashes[r] + 1
  <2>1. /\ attempt[r] \in Nat \ {0} /\ crashes[r] \in Nat
        /\ crashes[r] <= MaxCrashes[r] /\ attempt[r] <= crashes[r] + 1
    BY DEF BudgetShape, RecordsBounded
  <2> QED
    BY <2>1, BudgetNumbers
<1>2. seq \in Seqs(r)
  BY BudgetNumbers DEF Seqs
<1>3. <<r, attempt[r], seq>> \in {r} \X (1 .. MaxCrashes[r] + 1) \X Seqs(r)
  BY <1>1, <1>2
<1>4. <<r, attempt[r], seq>> \in RowKeys
  BY <1>3 DEF RowKeys
<1> QED
  BY <1>4 DEF RowKey

(* One thread's call moves on.                                             *)
CallMove(old, new, r, c, own) ==
  /\ old \in [Runs -> [Threads -> CallType]] /\ r \in Runs /\ c \in Threads
  /\ own \in CallType
  /\ new = [old EXCEPT ![r][c] = own]

LEMMA CallMoved ==
  ASSUME NEW old, NEW new, NEW r, NEW c, NEW own, CallMove(old, new, r, c, own)
  PROVE  /\ new \in [Runs -> [Threads -> CallType]]
         /\ new[r][c] = own
         /\ \A q \in Runs, d \in Threads : (q # r \/ d # c) => new[q][d] = old[q][d]
         /\ \A q \in Runs : q # r => new[q] = old[q]
<1>1. /\ old \in [Runs -> [Threads -> CallType]] /\ r \in Runs /\ c \in Threads
      /\ own \in CallType
  BY DEF CallMove
<1>2. new = [old EXCEPT ![r] = [old[r] EXCEPT ![c] = own]]
  BY DEF CallMove
<1> DEFINE row == [old[r] EXCEPT ![c] = own]
<1>3. row \in [Threads -> CallType] /\ row[c] = own /\ \A d \in Threads : d # c => row[d] = old[r][d]
  BY <1>1
<1>4. new = [old EXCEPT ![r] = row]
  BY <1>2
<1> HIDE DEF row
<1>5. new \in [Runs -> [Threads -> CallType]] /\ new[r] = row
      /\ \A q \in Runs : q # r => new[q] = old[q]
  BY <1>1, <1>3, <1>4
<1> QED
  BY <1>1, <1>3, <1>5

LEMMA NoCallShape ==
  /\ NoCall \in CallType /\ NoCall.pc = "idle" /\ NoCall.charge = 0 /\ NoCall.cap = 0
  /\ NoCall.charge <= NoCall.cap /\ NoCall.pc # "reserving"
  /\ NoCall.pc \notin Numbered /\ NoCall.pc \notin Opening /\ NoCall.pc \notin Locking
  /\ NoCall.pc \notin {"sent", "answered", "reserving"} /\ NoCall.pc # "answered"
  BY DEF NoCall, CallType, CallPcs, Settlements, Numbered, Holding, Opening, Locking

(* What a call holds is known by its state, and by its row.                *)
LEMMA CallFacts ==
  ASSUME GateInv, NEW r \in Runs, NEW c \in Threads
  PROVE  /\ call[r][c] \in CallType /\ call[r][c].cap \in Nat /\ call[r][c].seq \in Nat
         /\ call[r][c].charge \in Nat /\ call[r][c].charge <= call[r][c].cap
         /\ tracker[r] \in TrackerType /\ tracker[r].calls \in Nat
         /\ durable[r].calls \in Nat
         /\ call[r][c].pc \in Numbered =>
              /\ call[r][c].seq >= 1 /\ call[r][c].seq <= tracker[r].calls
              /\ call[r][c].seq <= MaxModelCalls[r]
              /\ RowKey(r, call[r][c].seq) \in RowKeys
              /\ RowKey(r, call[r][c].seq) = <<r, attempt[r], call[r][c].seq>>
         /\ call[r][c].pc \in Opening =>
              /\ durable[r].calls < call[r][c].seq
              /\ rows[RowKey(r, call[r][c].seq)].uses = 0
              /\ rows[RowKey(r, call[r][c].seq)].status = "reserved"
         /\ call[r][c].pc \in {"sent", "answered"} =>
              rows[RowKey(r, call[r][c].seq)].uses = 1
<1> DEFINE own == call[r][c]
           k == RowKey(r, own.seq)
<1>1. /\ own \in CallType /\ own.cap \in Nat /\ own.seq \in Nat /\ own.charge \in Nat
      /\ tracker[r] \in TrackerType /\ tracker[r].calls \in Nat /\ durable[r].calls \in Nat
      /\ durable[r] \in [calls : Nat, out : Nat, cost : Nat]
  BY DEF GateInv, BudgetShape, CallType, TrackerType
<1>2. own.charge <= own.cap
  BY DEF GateInv, NumbersOfCalls
<1>3. ASSUME own.pc \in Numbered
      PROVE  /\ own.seq >= 1 /\ own.seq <= tracker[r].calls /\ own.seq <= MaxModelCalls[r]
             /\ k \in RowKeys /\ k = <<r, attempt[r], own.seq>>
             /\ k[1] = r /\ k[3] = own.seq /\ rows[k].uses \in 0 .. 1
             /\ (rows[k].uses > 0 => own.seq <= durable[r].calls)
  <2>1. own.seq >= 1 /\ own.seq <= tracker[r].calls /\ tracker[r].calls <= MaxModelCalls[r]
    BY <1>3 DEF GateInv, NumbersOfCalls, RecordsBounded
  <2>2. own.seq <= MaxModelCalls[r]
    BY <1>1, <2>1, BudgetNumbers
  <2> HIDE DEF own
  <2>3. k \in RowKeys /\ k = <<r, attempt[r], own.seq>> /\ k[1] = r /\ k[3] = own.seq
    BY <1>1, <2>1, <2>2, RowKeyShape DEF GateInv
  <2>4. rows[k] \in RowType
    BY <2>3 DEF GateInv, BudgetShape
  <2>5. rows[k].uses \in Nat /\ rows[k].uses <= 1
        /\ (rows[k].uses > 0 => k[3] <= durable[k[1]].calls)
    BY <2>3, <2>4 DEF GateInv, UsedRows, RowType
  <2> QED
    BY <2>1, <2>2, <2>3, <2>5
<1>4. ASSUME own.pc \in Opening
      PROVE  durable[r].calls < own.seq /\ rows[k].uses = 0 /\ rows[k].status = "reserved"
  <2>1. own.pc \in Numbered
    BY <1>4 DEF Opening, Numbered, Holding
  <2>2. durable[r].calls < own.seq /\ rows[k].status = "reserved"
    BY <1>4 DEF GateInv, NumbersOfCalls, RowsOfCalls
  <2> HIDE DEF own, k
  <2> QED
    BY <1>1, <1>3, <2>1, <2>2
<1>5. ASSUME own.pc \in {"sent", "answered"}
      PROVE  rows[k].uses = 1
  <2>1. own.pc \in Numbered
    BY <1>5 DEF Numbered, Holding
  <2>2. rows[k].uses > 0
    BY <1>5 DEF GateInv, RowsOfCalls
  <2> HIDE DEF own, k
  <2> QED
    BY <1>3, <2>1, <2>2
<1> QED
  BY <1>1, <1>2, <1>3, <1>4, <1>5

(* A step that opens no call, sends none and restarts nothing.             *)
LEMMA SteadyGate ==
  ASSUME GateInv, BudgetShape', RecordsBounded', OneInside', ChecksHold',
         NEW r \in Runs, NEW c \in Threads, NEW own \in CallType,
         CallMove(call, call', r, c, own), attempt' = attempt,
         \A q \in Runs : /\ tracker'[q].calls = tracker[q].calls
                         /\ durable[q].calls <= durable'[q].calls,
         \A k \in RowKeys :
           /\ rows'[k].uses = rows[k].uses
           /\ rows[k].uses = 0 => rows'[k].status = rows[k].status,
         own.charge <= own.cap,
         own.pc = "answered" => own.how \in {"settled", "released"},
         own.pc \in Numbered => call[r][c].pc \in Numbered /\ own.seq = call[r][c].seq,
         own.pc \in Opening => call[r][c].pc \in Opening,
         own.pc \in {"sent", "answered"} => call[r][c].pc \in {"sent", "answered"},
         \A q \in Runs, d \in Threads :
           call'[q][d].pc \in Opening => durable'[q].calls < call'[q][d].seq
  PROVE  GateInv'
<1>1. /\ call'[r][c] = own
      /\ \A q \in Runs, d \in Threads : (q # r \/ d # c) => call'[q][d] = call[q][d]
  BY CallMoved
<1>2. \A q \in Runs, d \in Threads :
        /\ call'[q][d].pc \in Numbered =>
             call[q][d].pc \in Numbered /\ call'[q][d].seq = call[q][d].seq
        /\ call'[q][d].pc \in Opening => call[q][d].pc \in Opening
        /\ call'[q][d].pc \in {"sent", "answered"} => call[q][d].pc \in {"sent", "answered"}
        /\ call'[q][d].charge <= call'[q][d].cap
  BY <1>1 DEF GateInv, NumbersOfCalls
<1>3. NumbersOfCalls'
  BY <1>2 DEF GateInv, NumbersOfCalls
<1>4. NumbersDiffer'
  BY <1>2 DEF GateInv, NumbersDiffer
<1>5. UsedRows'
  <2> SUFFICES ASSUME NEW k \in RowKeys
               PROVE  /\ rows'[k].uses <= 1
                      /\ rows'[k].uses > 0 => k[3] <= durable'[k[1]].calls
                      /\ rows'[k].uses = 0 =>
                           rows'[k].status \in {"absent", "reserved", "rejected"}
    BY DEF UsedRows
  <2>1. /\ rows'[k].uses = rows[k].uses
        /\ rows[k].uses = 0 => rows'[k].status = rows[k].status
        /\ rows[k].uses <= 1
        /\ rows[k].uses > 0 => k[3] <= durable[k[1]].calls
        /\ rows[k].uses = 0 => rows[k].status \in {"absent", "reserved", "rejected"}
    BY DEF GateInv, UsedRows
  <2>2. /\ k[1] \in Runs /\ k[3] \in Nat /\ durable[k[1]].calls <= durable'[k[1]].calls
        /\ durable[k[1]].calls \in Nat /\ durable'[k[1]].calls \in Nat
    BY RowKeysShape DEF GateInv, BudgetShape
  <2> QED
    BY <2>1, <2>2
<1>6. UsedOnce'
  BY DEF GateInv, UsedOnce
<1>7. RowsOfCalls'
  <2> SUFFICES ASSUME NEW q \in Runs, NEW d \in Threads
               PROVE  /\ call'[q][d].pc \in Opening =>
                           rows'[RowKey(q, call'[q][d].seq)].status = "reserved"
                      /\ call'[q][d].pc \in {"sent", "answered"} =>
                           rows'[RowKey(q, call'[q][d].seq)].uses > 0
    BY DEF RowsOfCalls, RowKey
  <2> DEFINE k == RowKey(q, call[q][d].seq)
  <2>1. call'[q][d].pc \in Opening \/ call'[q][d].pc \in {"sent", "answered"} =>
          k \in RowKeys /\ RowKey(q, call'[q][d].seq) = k
    BY <1>2, CallFacts DEF Opening, Numbered, Holding
  <2>2. /\ call[q][d].pc \in Opening => rows[k].uses = 0 /\ rows[k].status = "reserved"
        /\ call[q][d].pc \in {"sent", "answered"} => rows[k].uses = 1
    BY CallFacts
  <2> HIDE DEF k
  <2> QED
    BY <1>2, <2>1, <2>2
<1>8. AnswersSettled'
  BY <1>1 DEF GateInv, AnswersSettled
<1> QED
  BY <1>3, <1>4, <1>5, <1>6, <1>7, <1>8 DEF GateInv

(* A tracker that is stopped, and nothing else about it.                   *)
StopsAt(old, new, r) == new = [old EXCEPT ![r].stopped = TRUE]

LEMMA TrackerStopped ==
  ASSUME NEW old \in [Runs -> TrackerType], NEW new, NEW r \in Runs, StopsAt(old, new, r)
  PROVE  /\ new \in [Runs -> TrackerType]
         /\ \A q \in Runs :
              /\ new[q].calls = old[q].calls /\ new[q].out = old[q].out
              /\ new[q].resOut = old[q].resOut /\ new[q].cost = old[q].cost
              /\ new[q].resCost = old[q].resCost
<1> DEFINE stopped == [old[r] EXCEPT !.stopped = TRUE]
<1>1. stopped \in TrackerType
  BY DEF TrackerType
<1>2. /\ stopped.calls = old[r].calls /\ stopped.out = old[r].out
      /\ stopped.resOut = old[r].resOut /\ stopped.cost = old[r].cost
      /\ stopped.resCost = old[r].resCost
  BY DEF TrackerType
<1>3. new = [old EXCEPT ![r] = stopped]
  BY DEF StopsAt
<1> HIDE DEF stopped
<1> QED
  BY <1>1, <1>2, <1>3

LEMMA StopKeepsGate ==
  ASSUME GateInv, NEW r \in Runs, StopsAt(tracker, tracker', r),
         UNCHANGED <<durable, attempt, crashes, lock, call, rows, spent, lost, uncounted>>
  PROVE  GateInv'
<1>1. /\ tracker' \in [Runs -> TrackerType]
      /\ \A q \in Runs :
           /\ tracker'[q].calls = tracker[q].calls /\ tracker'[q].out = tracker[q].out
           /\ tracker'[q].resOut = tracker[q].resOut /\ tracker'[q].cost = tracker[q].cost
           /\ tracker'[q].resCost = tracker[q].resCost
  BY TrackerStopped DEF GateInv, BudgetShape
<1>2. BudgetShape'
  BY <1>1 DEF GateInv, BudgetShape
<1>3. RecordsBounded'
  BY <1>1 DEF GateInv, RecordsBounded
<1>4. AnswersSettled' /\ OneInside' /\ NumbersDiffer' /\ UsedRows' /\ UsedOnce' /\ RowsOfCalls'
  BY DEF GateInv, AnswersSettled, OneInside, NumbersDiffer, UsedRows, UsedOnce, RowsOfCalls, RowKey
<1>5. ChecksHold'
  BY <1>1 DEF GateInv, ChecksHold
<1>6. NumbersOfCalls'
  BY <1>1 DEF GateInv, NumbersOfCalls
<1> QED
  BY <1>2, <1>3, <1>4, <1>5, <1>6 DEF GateInv

(* A step of one thread that changes neither the tracker, but for a stop,  *)
(* nor any record or row.                                                  *)
LEMMA QuietGate ==
  ASSUME GateInv, NEW r \in Runs, NEW c \in Threads, NEW own \in CallType,
         CallMove(call, call', r, c, own),
         tracker' = tracker \/ StopsAt(tracker, tracker', r),
         UNCHANGED <<durable, attempt, crashes, rows, lost>>,
         spent' \in [Runs -> Nat], uncounted' \in Nat,
         \/ lock' = lock
         \/ lock' = [lock EXCEPT ![r] = NoThread] /\ lock[r] = c
         \/ lock' = [lock EXCEPT ![r] = c] /\ lock[r] = NoThread,
         own.pc \in Locking => lock'[r] = c,
         own.pc = "reserving" =>
           /\ tracker[r].calls < MaxModelCalls[r]
           /\ tracker[r].cost + tracker[r].resCost + own.cap <= MaxCostPerRun
           /\ tracker[r].out + tracker[r].resOut + own.cap <= MaxOutputTokens,
         own.charge <= own.cap,
         own.pc = "answered" => own.how \in {"settled", "released"},
         own.pc \in Numbered => call[r][c].pc \in Numbered /\ own.seq = call[r][c].seq,
         own.pc \in Opening => call[r][c].pc \in Opening,
         own.pc \in {"sent", "answered"} => call[r][c].pc \in {"sent", "answered"}
  PROVE  GateInv'
<1>1. /\ call' \in [Runs -> [Threads -> CallType]] /\ call'[r][c] = own
      /\ \A q \in Runs, d \in Threads : (q # r \/ d # c) => call'[q][d] = call[q][d]
  BY CallMoved
<1>2. /\ tracker' \in [Runs -> TrackerType]
      /\ \A q \in Runs :
           /\ tracker'[q].calls = tracker[q].calls /\ tracker'[q].out = tracker[q].out
           /\ tracker'[q].resOut = tracker[q].resOut /\ tracker'[q].cost = tracker[q].cost
           /\ tracker'[q].resCost = tracker[q].resCost
  BY TrackerStopped DEF GateInv, BudgetShape
<1>3. lock' \in [Runs -> Threads \cup {NoThread}]
      /\ \A q \in Runs, d \in Threads :
           (q # r \/ d # c) /\ call[q][d].pc \in Locking => lock'[q] = d
  <2>1. lock \in [Runs -> Threads \cup {NoThread}]
    BY DEF GateInv, BudgetShape
  <2>2. \A q \in Runs, d \in Threads : call[q][d].pc \in Locking => lock[q] = d
    BY DEF GateInv, OneInside
  <2>3. NoThread \notin Threads
    BY BudgetNumbers
  <2> QED
    BY <2>1, <2>2, <2>3
<1>4. BudgetShape'
  BY <1>1, <1>2, <1>3 DEF GateInv, BudgetShape
<1>5. RecordsBounded'
  BY <1>2 DEF GateInv, RecordsBounded
<1>6. OneInside'
  BY <1>1, <1>3 DEF OneInside
<1>7. ChecksHold'
  <2> SUFFICES ASSUME NEW q \in Runs, NEW d \in Threads, call'[q][d].pc = "reserving"
               PROVE  /\ tracker[q].calls < MaxModelCalls[q]
                      /\ tracker[q].cost + tracker[q].resCost + call'[q][d].cap
                           <= MaxCostPerRun
                      /\ tracker[q].out + tracker[q].resOut + call'[q][d].cap
                           <= MaxOutputTokens
    BY <1>2 DEF ChecksHold
  <2>1. CASE q = r /\ d = c
    BY <1>1, <2>1
  <2>2. CASE q # r \/ d # c
    BY <1>1, <2>2 DEF GateInv, ChecksHold
  <2> QED
    BY <2>1, <2>2
<1>8. \A q \in Runs : /\ tracker'[q].calls = tracker[q].calls
                      /\ durable[q].calls <= durable'[q].calls
  BY <1>2 DEF GateInv, BudgetShape
<1>9. \A q \in Runs, d \in Threads :
        call'[q][d].pc \in Opening => durable'[q].calls < call'[q][d].seq
  <2> SUFFICES ASSUME NEW q \in Runs, NEW d \in Threads, call'[q][d].pc \in Opening
               PROVE  durable[q].calls < call'[q][d].seq
    OBVIOUS
  <2>1. call[q][d].pc \in Opening /\ call'[q][d].seq = call[q][d].seq
    BY <1>1 DEF Opening, Numbered, Holding
  <2> QED
    BY <2>1 DEF GateInv, NumbersOfCalls
<1> QED
  BY <1>4, <1>5, <1>6, <1>7, <1>8, <1>9, SteadyGate

LEMMA LeastOfTwo ==
  ASSUME NEW m \in Int, NEW n \in Int
  PROVE  /\ Min({m, n}) \in {m, n} /\ Min({m, n}) \in Int
         /\ Min({m, n}) <= m /\ Min({m, n}) <= n
         /\ m \in Nat /\ n \in Nat => Min({m, n}) \in Nat
<1> DEFINE P(x) == x \in {m, n} /\ \A y \in {m, n} : x <= y
<1>1. \E x : P(x)
  <2>1. CASE m <= n
    <3>1. P(m)
      BY <2>1
    <3> QED
      BY <3>1
  <2>2. CASE n <= m
    <3>1. P(n)
      BY <2>2
    <3> QED
      BY <3>1
  <2> QED
    BY <2>1, <2>2
<1>2. P(CHOOSE x : P(x))
  BY <1>1, Zenon
<1>3. Min({m, n}) = CHOOSE x : P(x)
  BY DEF Min
<1> QED
  BY <1>2, <1>3

LEMMA OpenCallGate ==
  ASSUME GateInv, NEW r \in Runs, NEW c \in Threads, NEW requested \in Caps,
         OpenCall(r, c, requested)
  PROVE  GateInv'
<1>1. CASE ~Admissible(r, requested)
  <2>1. StopsAt(tracker, tracker', r)
    BY <1>1 DEF OpenCall, StopsAt
  <2>2. UNCHANGED <<durable, attempt, crashes, lock, call, rows, spent, lost, uncounted>>
    BY <1>1 DEF OpenCall
  <2> QED
    BY <2>1, <2>2, StopKeepsGate
<1>2. CASE Admissible(r, requested)
  <2> DEFINE cap == Allowed(r, requested)
             own == [NoCall EXCEPT !.pc = "reserving", !.cap = cap]
  <2>1. /\ tracker[r] \in TrackerType /\ tracker[r].out \in Nat /\ tracker[r].resOut \in Nat
        /\ tracker[r].cost \in Nat /\ tracker[r].resCost \in Nat
        /\ requested \in Nat
    BY BudgetNumbers DEF GateInv, BudgetShape, TrackerType
  <2>2. cap \in Nat /\ cap <= MaxOutputTokens - tracker[r].out - tracker[r].resOut
    <3>1. /\ MaxOutputTokens - tracker[r].out - tracker[r].resOut \in Nat
      BY <1>2, <2>1, BudgetNumbers DEF Admissible
    <3> QED
      BY <2>1, <3>1, LeastOfTwo DEF Allowed
  <2>3. /\ tracker[r].calls < MaxModelCalls[r]
        /\ tracker[r].cost + tracker[r].resCost + cap <= MaxCostPerRun
    BY <1>2 DEF Admissible, FitsRun
  <2>4. /\ call' = [call EXCEPT ![r][c] = own] /\ lock' = [lock EXCEPT ![r] = c]
        /\ lock[r] = NoThread /\ tracker' = tracker
        /\ UNCHANGED <<durable, attempt, crashes, rows, lost>>
        /\ spent' = spent /\ uncounted' = uncounted
    BY <1>2 DEF OpenCall
  <2> HIDE DEF cap
  <2>5. /\ own \in CallType /\ own.pc = "reserving" /\ own.cap = cap /\ own.charge = 0
        /\ own.pc \notin Numbered /\ own.pc \notin Opening
        /\ own.pc \notin {"sent", "answered"}
    BY <2>2 DEF NoCall, CallType, CallPcs, Settlements, Numbered, Holding, Opening
  <2> HIDE DEF own
  <2>6. CallMove(call, call', r, c, own)
    BY <2>4, <2>5 DEF CallMove, GateInv, BudgetShape
  <2>7. lock'[r] = c /\ spent' \in [Runs -> Nat] /\ uncounted' \in Nat
    BY <2>4 DEF GateInv, BudgetShape
  <2>8. tracker[r].out + tracker[r].resOut + own.cap <= MaxOutputTokens
    BY <2>1, <2>2, <2>5, BudgetNumbers
  <2>9. own.charge <= own.cap
    BY <2>2, <2>5
  <2> QED
    BY <2>3, <2>4, <2>5, <2>6, <2>7, <2>8, <2>9, QuietGate
<1> QED
  BY <1>1, <1>2

(* A call that ends, whether or not it held the lock.                      *)
LEMMA EndsGate ==
  ASSUME GateInv, NEW r \in Runs, NEW c \in Threads,
         call' = [call EXCEPT ![r][c] = NoCall],
         \/ lock' = lock
         \/ lock' = [lock EXCEPT ![r] = NoThread] /\ lock[r] = c,
         tracker' = tracker \/ StopsAt(tracker, tracker', r),
         UNCHANGED <<durable, attempt, crashes, rows, spent, lost, uncounted>>
  PROVE  GateInv'
<1>1. CallMove(call, call', r, c, NoCall)
  BY NoCallShape DEF CallMove, GateInv, BudgetShape
<1>2. spent' \in [Runs -> Nat] /\ uncounted' \in Nat
  BY DEF GateInv, BudgetShape
<1> DEFINE own == NoCall
<1>3. /\ own \in CallType /\ own.charge <= own.cap /\ own.pc # "reserving"
      /\ own.pc # "answered"
      /\ own.pc \notin Numbered /\ own.pc \notin Opening /\ own.pc \notin Locking
      /\ own.pc \notin {"sent", "answered"}
      /\ CallMove(call, call', r, c, own)
  BY <1>1, NoCallShape
<1> HIDE DEF own
<1> QED
  BY <1>2, <1>3, QuietGate

LEMMA HasLock ==
  ASSUME GateInv, NEW r \in Runs, NEW c \in Threads, call[r][c].pc \in Locking
  PROVE  lock[r] = c
  BY DEF GateInv, OneInside

LEMMA LedgerReservedGate ==
  ASSUME GateInv, NEW r \in Runs, NEW c \in Threads, LedgerReserved(r, c)
  PROVE  GateInv'
<1> DEFINE own == [call[r][c] EXCEPT !.pc = "recording"]
<1>1. call[r][c] \in CallType /\ call[r][c].pc = "admitted" /\ call[r][c].charge <= call[r][c].cap
  BY CallFacts DEF LedgerReserved
<1>2. /\ own \in CallType /\ own.pc = "recording" /\ own.seq = call[r][c].seq
      /\ own.charge <= own.cap
      /\ own.pc \in Opening /\ own.pc \in Numbered
      /\ call[r][c].pc \in Opening /\ call[r][c].pc \in Numbered /\ call[r][c].pc \in Locking
  BY <1>1 DEF CallType, CallPcs, Opening, Numbered, Holding, Locking
<1>3. call' = [call EXCEPT ![r][c] = own]
  BY DEF LedgerReserved
<1> HIDE DEF own
<1>4. CallMove(call, call', r, c, own)
  BY <1>2, <1>3 DEF CallMove, GateInv, BudgetShape
<1>5. /\ UNCHANGED <<tracker, lock, durable, attempt, crashes, rows, lost>>
      /\ spent' \in [Runs -> Nat] /\ uncounted' \in Nat
  BY DEF LedgerReserved, GateInv, BudgetShape
<1> QED
  BY <1>2, <1>4, <1>5, HasLock, QuietGate

LEMMA AdmissionWriteFailsGate ==
  ASSUME GateInv, NEW r \in Runs, NEW c \in Threads, AdmissionWriteFails(r, c)
  PROVE  GateInv'
<1>1. call[r][c].pc \in Locking
  BY DEF AdmissionWriteFails, Locking
<1> QED
  BY <1>1, HasLock, EndsGate DEF AdmissionWriteFails

LEMMA SettlementWriteFailsGate ==
  ASSUME GateInv, NEW r \in Runs, NEW c \in Threads, SettlementWriteFails(r, c)
  PROVE  GateInv'
<1>1. call[r][c].pc \in Locking
  BY DEF SettlementWriteFails, Locking
<1> QED
  BY <1>1, HasLock, EndsGate DEF SettlementWriteFails

(* What the provider charged is what the call is charged, or less.         *)
LEMMA VerdictShape ==
  ASSUME NEW cap \in Nat, NEW charged \in 0 .. cap, NEW verdict \in Verdicts(cap, charged)
  PROVE  /\ verdict.charge \in Nat /\ charged <= verdict.charge /\ verdict.charge <= cap
         /\ verdict.how \in {"settled", "released"}
<1>1. CASE verdict \in {[charge |-> charged, how |-> "settled"],
                        [charge |-> cap, how |-> "settled"],
                        [charge |-> cap, how |-> "released"]}
  BY <1>1
<1>2. CASE charged = 0 /\ verdict = [charge |-> 0, how |-> "released"]
  BY <1>2
<1>3. verdict \in {[charge |-> charged, how |-> "settled"],
                   [charge |-> cap, how |-> "settled"],
                   [charge |-> cap, how |-> "released"]}
      \/ (charged = 0 /\ verdict = [charge |-> 0, how |-> "released"])
  BY DEF Verdicts
<1> QED
  BY <1>1, <1>2, <1>3

(* The effect of an answer.                                                *)
LEMMA AnswerMoves ==
  ASSUME GateInv, NEW r \in Runs, NEW c \in Threads, NEW charged, NEW verdict,
         Answer(r, c, charged, verdict)
  PROVE  \E own \in CallType :
           /\ CallMove(call, call', r, c, own)
           /\ call[r][c].pc = "sent" /\ own.pc = "answered"
           /\ own.cap = call[r][c].cap /\ own.seq = call[r][c].seq
           /\ own.charge \in Nat /\ own.charge <= own.cap
           /\ charged \in Nat /\ charged <= own.charge
           /\ own.how \in {"settled", "released"}
           /\ spent' = [spent EXCEPT ![r] = @ + charged]
<1> DEFINE own == [call[r][c] EXCEPT !.pc = "answered", !.charge = verdict.charge,
                                     !.how = verdict.how]
<1>1. call[r][c] \in CallType /\ call[r][c].cap \in Nat /\ call[r][c].pc = "sent"
  BY CallFacts DEF Answer
<1>2. /\ charged \in 0 .. call[r][c].cap /\ verdict \in Verdicts(call[r][c].cap, charged)
  BY DEF Answer
<1>3. /\ verdict.charge \in Nat /\ charged <= verdict.charge
      /\ verdict.charge <= call[r][c].cap /\ verdict.how \in {"settled", "released"}
  BY <1>1, <1>2, VerdictShape
<1>4. /\ own \in CallType /\ own.pc = "answered" /\ own.cap = call[r][c].cap
      /\ own.seq = call[r][c].seq /\ own.charge = verdict.charge /\ own.how = verdict.how
  BY <1>1, <1>3 DEF CallType, CallPcs, Settlements
<1>5. call' = [call EXCEPT ![r][c] = own]
  BY DEF Answer
<1>6. spent' = [spent EXCEPT ![r] = @ + charged]
  BY DEF Answer
<1> HIDE DEF own
<1>7. CallMove(call, call', r, c, own)
  BY <1>4, <1>5 DEF CallMove, GateInv, BudgetShape
<1> QED
  BY <1>1, <1>2, <1>3, <1>4, <1>6, <1>7

LEMMA AnswerGate ==
  ASSUME GateInv, NEW r \in Runs, NEW c \in Threads, NEW charged, NEW verdict,
         Answer(r, c, charged, verdict)
  PROVE  GateInv'
<1>1. PICK own \in CallType :
        /\ CallMove(call, call', r, c, own)
        /\ call[r][c].pc = "sent" /\ own.pc = "answered"
        /\ own.seq = call[r][c].seq /\ own.charge <= own.cap /\ charged \in Nat
        /\ own.how \in {"settled", "released"}
        /\ spent' = [spent EXCEPT ![r] = @ + charged]
  BY AnswerMoves
<1>2. /\ own.pc \notin Opening /\ own.pc \notin Locking /\ call[r][c].pc \in Numbered
      /\ own.pc # "reserving" /\ call[r][c].pc \in {"sent", "answered"}
  BY <1>1 DEF Opening, Locking, Numbered, Holding
<1>3. spent' \in [Runs -> Nat]
  BY <1>1 DEF GateInv, BudgetShape
<1>4. UNCHANGED <<tracker, lock, durable, attempt, crashes, rows, lost>> /\ uncounted' \in Nat
  BY DEF Answer, GateInv, BudgetShape
<1> QED
  BY <1>1, <1>2, <1>3, <1>4, QuietGate

LEMMA LedgerSettledGate ==
  ASSUME GateInv, NEW r \in Runs, NEW c \in Threads, LedgerSettled(r, c)
  PROVE  GateInv'
<1> DEFINE own == [call[r][c] EXCEPT !.pc = "charged"]
<1>1. call[r][c] \in CallType /\ call[r][c].pc = "settled" /\ call[r][c].charge <= call[r][c].cap
  BY CallFacts DEF LedgerSettled
<1>2. /\ own \in CallType /\ own.pc = "charged" /\ own.seq = call[r][c].seq
      /\ own.charge <= own.cap
      /\ own.pc \notin Opening /\ call[r][c].pc \in Numbered /\ call[r][c].pc \in Locking
  BY <1>1 DEF CallType, CallPcs, Opening, Numbered, Holding, Locking
<1>3. call' = [call EXCEPT ![r][c] = own]
  BY DEF LedgerSettled
<1> HIDE DEF own
<1>4. CallMove(call, call', r, c, own)
  BY <1>2, <1>3 DEF CallMove, GateInv, BudgetShape
<1>5. /\ UNCHANGED <<tracker, lock, durable, attempt, crashes, rows, lost>>
      /\ spent' \in [Runs -> Nat] /\ uncounted' \in Nat
  BY DEF LedgerSettled, GateInv, BudgetShape
<1> QED
  BY <1>2, <1>4, <1>5, HasLock, QuietGate

(* The row a settlement writes.                                            *)
LEMMA SettledRowShape ==
  ASSUME GateInv, NEW r \in Runs, NEW c \in Threads, call[r][c].pc = "answered",
         rows' = SettledRow(r, c)
  PROVE  LET k == RowKey(r, call[r][c].seq)
         IN  /\ k \in RowKeys /\ rows[k] \in RowType /\ rows[k].uses = 1
             /\ rows' \in [RowKeys -> RowType]
             /\ rows'[k].status = call[r][c].how /\ rows'[k].actual = call[r][c].charge
             /\ rows'[k].est = rows[k].est /\ rows'[k].uses = rows[k].uses
             /\ \A m \in RowKeys : m # k => rows'[m] = rows[m]
<1> DEFINE k == RowKey(r, call[r][c].seq)
           own == call[r][c]
           row == [rows[k] EXCEPT !.status = own.how, !.actual = own.charge]
<1>1. call[r][c].pc \in Numbered
  BY DEF Numbered, Holding
<1>2. k \in RowKeys /\ rows[k].uses = 1
  BY <1>1, CallFacts
<1>3. rows \in [RowKeys -> RowType] /\ own \in CallType
  BY DEF GateInv, BudgetShape
<1>4. own.how \in RowStates \cup {"none"} /\ own.charge \in Nat
  BY <1>3 DEF CallType, Settlements, RowStates
<1>6. own.how \in {"settled", "released"}
  BY DEF GateInv, AnswersSettled
<1>7. rows' = [rows EXCEPT ![k] = row]
  BY <1>2, <1>3 DEF SettledRow
<1>8. /\ row \in RowType /\ row.status = own.how /\ row.actual = own.charge
      /\ row.est = rows[k].est /\ row.uses = rows[k].uses /\ rows[k] \in RowType
  BY <1>2, <1>3, <1>4, <1>6 DEF RowType, RowStates
<1> HIDE DEF row, k, own
<1>9. /\ rows' \in [RowKeys -> RowType] /\ rows'[k] = row
      /\ \A m \in RowKeys : m # k => rows'[m] = rows[m]
  BY <1>2, <1>3, <1>7, <1>8
<1> QED
  BY <1>2, <1>8, <1>9 DEF k, own

LEMMA LargerOfTwo ==
  ASSUME NEW m \in Nat, NEW n \in Nat
  PROVE  /\ Max({m, n}) \in {m, n} /\ Max({m, n}) \in Nat
         /\ Max({m, n}) >= m /\ Max({m, n}) >= n
<1> DEFINE P(x) == x \in {m, n} /\ \A y \in {m, n} : x >= y
<1>1. \E x : P(x)
  <2>1. CASE m >= n
    <3>1. P(m)
      BY <2>1
    <3> QED
      BY <3>1
  <2>2. CASE n >= m
    <3>1. P(n)
      BY <2>2
    <3> QED
      BY <3>1
  <2> QED
    BY <2>1, <2>2
<1>2. P(CHOOSE x : P(x))
  BY <1>1, Zenon
<1>3. Max({m, n}) = CHOOSE x : P(x)
  BY DEF Max
<1> QED
  BY <1>2, <1>3

(* record_run_usage with a record that memory never falls behind.          *)
LEMMA MergedIsTracker ==
  ASSUME GateInv, NEW r \in Runs
  PROVE  Merged(r) = [calls |-> tracker[r].calls, out |-> tracker[r].out,
                      cost |-> tracker[r].cost]
<1>1. /\ tracker[r].calls \in Nat /\ tracker[r].out \in Nat /\ tracker[r].cost \in Nat
      /\ durable[r].calls \in Nat /\ durable[r].out \in Nat /\ durable[r].cost \in Nat
      /\ durable[r].calls <= tracker[r].calls /\ durable[r].out <= tracker[r].out
      /\ durable[r].cost <= tracker[r].cost
  BY DEF GateInv, BudgetShape, RecordsBounded, TrackerType
<1>2. ASSUME NEW m \in Nat, NEW n \in Nat, m <= n
      PROVE  Max({m, n}) = n
  <2>1. Max({m, n}) \in {m, n} /\ Max({m, n}) >= n
    BY LargerOfTwo
  <2> QED
    BY <1>2, <2>1
<1> QED
  BY <1>1, <1>2 DEF Merged

LEMMA RecordWritten ==
  ASSUME GateInv, NEW r \in Runs, durable' = [durable EXCEPT ![r] = Merged(r)]
  PROVE  /\ durable' \in [Runs -> [calls : Nat, out : Nat, cost : Nat]]
         /\ durable'[r].calls = tracker[r].calls /\ durable'[r].out = tracker[r].out
         /\ durable'[r].cost = tracker[r].cost
         /\ \A q \in Runs : q # r => durable'[q] = durable[q]
<1>1. tracker[r].calls \in Nat /\ tracker[r].out \in Nat /\ tracker[r].cost \in Nat
  BY DEF GateInv, BudgetShape, TrackerType
<1>2. durable \in [Runs -> [calls : Nat, out : Nat, cost : Nat]]
  BY DEF GateInv, BudgetShape
<1> DEFINE record == [calls |-> tracker[r].calls, out |-> tracker[r].out,
                      cost |-> tracker[r].cost]
<1>3. durable' = [durable EXCEPT ![r] = record]
  BY MergedIsTracker
<1>4. /\ record \in [calls : Nat, out : Nat, cost : Nat]
      /\ record.calls = tracker[r].calls /\ record.out = tracker[r].out
      /\ record.cost = tracker[r].cost
  BY <1>1
<1> HIDE DEF record
<1> QED
  BY <1>2, <1>3, <1>4

LEMMA RecordSettlementGate ==
  ASSUME GateInv, NEW r \in Runs, NEW c \in Threads, RecordSettlement(r, c)
  PROVE  GateInv'
<1>1. /\ durable' \in [Runs -> [calls : Nat, out : Nat, cost : Nat]]
      /\ durable'[r].calls = tracker[r].calls /\ durable'[r].out = tracker[r].out
      /\ durable'[r].cost = tracker[r].cost
      /\ \A q \in Runs : q # r => durable'[q] = durable[q]
  BY RecordWritten DEF RecordSettlement
<1>2. /\ CallMove(call, call', r, c, NoCall)
      /\ call[r][c].pc \in Locking /\ lock[r] = c /\ c # NoThread
  BY NoCallShape, BudgetNumbers, HasLock
     DEF RecordSettlement, CallMove, GateInv, BudgetShape, Locking
<1>3. /\ lock' = [lock EXCEPT ![r] = NoThread]
      /\ UNCHANGED <<tracker, attempt, crashes, rows, ledger, spent, lost, uncounted>>
  BY DEF RecordSettlement
<1>4. /\ call' \in [Runs -> [Threads -> CallType]] /\ call'[r][c] = NoCall
      /\ \A q \in Runs, d \in Threads : (q # r \/ d # c) => call'[q][d] = call[q][d]
  BY <1>2, CallMoved
<1>5. \A d \in Threads : call'[r][d].pc \notin Locking
  BY <1>2, <1>4, NoCallShape DEF GateInv, OneInside
<1>6. BudgetShape'
  BY <1>1, <1>3, <1>4 DEF GateInv, BudgetShape
<1>7. RecordsBounded'
  <2>1. /\ tracker[r].calls <= tracker[r].calls /\ tracker[r].out <= tracker[r].out
        /\ tracker[r].cost <= tracker[r].cost
    BY DEF GateInv, BudgetShape, TrackerType
  <2> QED
    BY <1>1, <1>3, <2>1 DEF GateInv, RecordsBounded
<1>8. OneInside'
  <2>1. lock \in [Runs -> Threads \cup {NoThread}]
    BY DEF GateInv, BudgetShape
  <2> QED
    BY <1>3, <1>4, <1>5, <2>1 DEF GateInv, OneInside
<1>9. ChecksHold'
  <2> SUFFICES ASSUME NEW q \in Runs, NEW d \in Threads, call'[q][d].pc = "reserving"
               PROVE  /\ tracker[q].calls < MaxModelCalls[q]
                      /\ tracker[q].cost + tracker[q].resCost + call'[q][d].cap
                           <= MaxCostPerRun
                      /\ tracker[q].out + tracker[q].resOut + call'[q][d].cap
                           <= MaxOutputTokens
    BY <1>3 DEF ChecksHold
  <2>1. call'[q][d] = call[q][d]
    BY <1>4, NoCallShape
  <2> QED
    BY <2>1 DEF GateInv, ChecksHold
<1>10. \A q \in Runs : /\ tracker'[q].calls = tracker[q].calls
                       /\ durable[q].calls <= durable'[q].calls
  <2>1. \A q \in Runs : durable[q].calls \in Nat /\ durable[q].calls <= tracker[q].calls
    BY DEF GateInv, BudgetShape, RecordsBounded
  <2>2. \A q \in Runs : durable[q].calls <= durable'[q].calls
    <3> TAKE q \in Runs
    <3>1. CASE q = r
      BY <1>1, <2>1, <3>1
    <3>2. CASE q # r
      BY <1>1, <2>1, <3>2
    <3> QED
      BY <3>1, <3>2
  <2> QED
    BY <1>3, <2>2
<1>11. \A q \in Runs, d \in Threads :
         call'[q][d].pc \in Opening => durable'[q].calls < call'[q][d].seq
  <2> SUFFICES ASSUME NEW q \in Runs, NEW d \in Threads, call'[q][d].pc \in Opening
               PROVE  durable'[q].calls < call'[q][d].seq
    OBVIOUS
  <2>1. q # r
    BY <1>5 DEF Opening, Locking
  <2>2. call'[q][d] = call[q][d] /\ durable'[q] = durable[q]
    BY <1>1, <1>4, <2>1
  <2> QED
    BY <2>2 DEF GateInv, NumbersOfCalls
<1> DEFINE own == NoCall
<1>12. /\ own \in CallType /\ own.pc # "answered" /\ own.charge <= own.cap /\ own.pc \notin Numbered
       /\ own.pc \notin Opening /\ own.pc \notin {"sent", "answered"}
       /\ CallMove(call, call', r, c, own)
  BY <1>2, NoCallShape
<1>13. /\ attempt' = attempt
       /\ \A k \in RowKeys :
            /\ rows'[k].uses = rows[k].uses
            /\ rows[k].uses = 0 => rows'[k].status = rows[k].status
  BY <1>3
<1> HIDE DEF own
<1> QED
  BY <1>6, <1>7, <1>8, <1>9, <1>10, <1>11, <1>12, <1>13, SteadyGate

(* A settled tracker releases what the call held and takes its charge.     *)
LEMMA SettledTracker ==
  ASSUME NEW t \in TrackerType, NEW held \in Nat, NEW charge \in Nat
  PROVE  LET new == Settled(t, held, charge)
         IN  /\ new \in TrackerType /\ new.calls = t.calls
             /\ new.out = t.out + charge /\ new.cost = t.cost + charge
             /\ new.resOut = Monus(t.resOut, held) /\ new.resCost = Monus(t.resCost, held)
<1>1. /\ t.resOut \in Nat /\ t.resCost \in Nat /\ t.out \in Nat /\ t.cost \in Nat
  BY DEF TrackerType
<1>2. Monus(t.resOut, held) \in Nat /\ Monus(t.resCost, held) \in Nat
  BY <1>1 DEF Monus
<1>3. t.out + charge \in Nat /\ t.cost + charge \in Nat
  BY <1>1
<1> DEFINE a == Monus(t.resOut, held)
           b == Monus(t.resCost, held)
           o == t.out + charge
           d == t.cost + charge
<1>4. Settled(t, held, charge)
        = [t EXCEPT !.resOut = a, !.resCost = b, !.out = o, !.cost = d]
  BY DEF Settled
<1>5. a \in Nat /\ b \in Nat /\ o \in Nat /\ d \in Nat
  BY <1>2, <1>3
<1> HIDE DEF a, b, o, d
<1>6. LET new == [t EXCEPT !.resOut = a, !.resCost = b, !.out = o, !.cost = d]
      IN  /\ new \in TrackerType /\ new.calls = t.calls
          /\ new.out = o /\ new.cost = d /\ new.resOut = a /\ new.resCost = b
  BY <1>5 DEF TrackerType
<1> QED
  BY <1>4, <1>6 DEF a, b, o, d

LEMMA SettleCallGate ==
  ASSUME GateInv, NEW r \in Runs, NEW c \in Threads, SettleCall(r, c)
  PROVE  GateInv'
<1> DEFINE own == [call[r][c] EXCEPT !.pc = "settled"]
           k == RowKey(r, call[r][c].seq)
           new == Settled(tracker[r], call[r][c].cap, call[r][c].charge)
<1>1. /\ call[r][c].pc = "answered" /\ lock[r] = NoThread /\ rows' = SettledRow(r, c)
      /\ lock' = [lock EXCEPT ![r] = c] /\ call' = [call EXCEPT ![r][c] = own]
      /\ tracker' = [tracker EXCEPT ![r] = new]
      /\ uncounted' = uncounted + SettlementUncounted(r, c)
      /\ UNCHANGED <<durable, attempt, crashes, ledger, spent, lost>>
  BY DEF SettleCall
<1>2. /\ call[r][c] \in CallType /\ call[r][c].cap \in Nat /\ call[r][c].charge \in Nat
      /\ call[r][c].charge <= call[r][c].cap /\ tracker[r] \in TrackerType
  BY CallFacts
<1>3. /\ own \in CallType /\ own.pc = "settled" /\ own.seq = call[r][c].seq
      /\ own.charge <= own.cap /\ own.pc \notin Opening /\ own.pc # "answered"
      /\ own.pc \notin {"sent", "answered"} /\ own.pc # "reserving"
      /\ call[r][c].pc \in Numbered
  BY <1>1, <1>2 DEF CallType, CallPcs, Opening, Numbered, Holding
<1>4. /\ new \in TrackerType /\ new.calls = tracker[r].calls
      /\ new.out >= tracker[r].out /\ new.cost >= tracker[r].cost
  <2>1. /\ new \in TrackerType /\ new.calls = tracker[r].calls
        /\ new.out = tracker[r].out + call[r][c].charge
        /\ new.cost = tracker[r].cost + call[r][c].charge
    BY <1>2, SettledTracker
  <2>2. tracker[r].out \in Nat /\ tracker[r].cost \in Nat
    BY <1>2 DEF TrackerType
  <2> HIDE DEF new
  <2> QED
    BY <1>2, <2>1, <2>2
<1>5. /\ k \in RowKeys /\ rows' \in [RowKeys -> RowType] /\ rows[k].uses = 1
      /\ rows'[k].uses = rows[k].uses
      /\ \A m \in RowKeys : m # k => rows'[m] = rows[m]
  BY <1>1, SettledRowShape
<1> HIDE DEF own, new, k
<1>6. CallMove(call, call', r, c, own)
  BY <1>1, <1>3 DEF CallMove, GateInv, BudgetShape
<1>7. /\ call' \in [Runs -> [Threads -> CallType]] /\ call'[r][c] = own
      /\ \A q \in Runs, d \in Threads : (q # r \/ d # c) => call'[q][d] = call[q][d]
  BY <1>6, CallMoved
<1>8. /\ tracker' \in [Runs -> TrackerType] /\ tracker'[r] = new
      /\ \A q \in Runs : q # r => tracker'[q] = tracker[q]
      /\ lock' \in [Runs -> Threads \cup {NoThread}] /\ lock'[r] = c
      /\ \A q \in Runs : q # r => lock'[q] = lock[q]
  BY <1>1, <1>4 DEF GateInv, BudgetShape
<1>9. uncounted' \in Nat
  BY <1>1, <1>2 DEF GateInv, BudgetShape, SettlementUncounted
<1>10. \A d \in Threads : call[r][d].pc \notin Locking
  BY <1>1, BudgetNumbers DEF GateInv, OneInside
<1>11. BudgetShape'
  BY <1>1, <1>5, <1>7, <1>8, <1>9 DEF GateInv, BudgetShape
<1>12. RecordsBounded'
  <2>1. /\ tracker[r].out \in Nat /\ tracker[r].cost \in Nat
        /\ new.out \in Nat /\ new.cost \in Nat
        /\ durable[r].out \in Nat /\ durable[r].cost \in Nat
    BY <1>4 DEF GateInv, BudgetShape, TrackerType
  <2>2. /\ durable[r].out <= tracker[r].out /\ durable[r].cost <= tracker[r].cost
        /\ durable[r].calls <= tracker[r].calls /\ tracker[r].calls <= MaxModelCalls[r]
    BY DEF GateInv, RecordsBounded
  <2>3. durable[r].out <= new.out /\ durable[r].cost <= new.cost
    BY <1>4, <2>1, <2>2
  <2> QED
    BY <1>1, <1>4, <1>8, <2>2, <2>3 DEF GateInv, RecordsBounded
<1>13. OneInside'
  BY <1>7, <1>8, <1>10 DEF GateInv, OneInside
<1>14. ChecksHold'
  <2> SUFFICES ASSUME NEW q \in Runs, NEW d \in Threads, call'[q][d].pc = "reserving"
               PROVE  /\ tracker'[q].calls < MaxModelCalls[q]
                      /\ tracker'[q].cost + tracker'[q].resCost + call'[q][d].cap
                           <= MaxCostPerRun
                      /\ tracker'[q].out + tracker'[q].resOut + call'[q][d].cap
                           <= MaxOutputTokens
    BY DEF ChecksHold
  <2>1. q # r
    BY <1>3, <1>7, <1>10 DEF Locking
  <2> QED
    BY <1>7, <1>8, <2>1 DEF GateInv, ChecksHold
<1>15. \A q \in Runs : /\ tracker'[q].calls = tracker[q].calls
                       /\ durable[q].calls <= durable'[q].calls
  BY <1>1, <1>4, <1>8 DEF GateInv, BudgetShape
<1>16. \A q \in Runs, d \in Threads :
         call'[q][d].pc \in Opening => durable'[q].calls < call'[q][d].seq
  BY <1>1, <1>3, <1>7 DEF GateInv, NumbersOfCalls
<1>17. \A m \in RowKeys :
         /\ rows'[m].uses = rows[m].uses
         /\ rows[m].uses = 0 => rows'[m].status = rows[m].status
  BY <1>5
<1> QED
  BY <1>1, <1>3, <1>6, <1>11, <1>12, <1>13, <1>14, <1>15, <1>16, <1>17, SteadyGate

LEMMA SettlementFailsGate ==
  ASSUME GateInv, NEW r \in Runs, NEW c \in Threads, SettlementFails(r, c)
  PROVE  GateInv'
<1>1. /\ call[r][c].pc = "answered" /\ lock' = lock
      /\ StopsAt(tracker, tracker', r)
      /\ call' = [call EXCEPT ![r][c] = NoCall]
      /\ UNCHANGED <<durable, attempt, crashes, lock, ledger, spent, lost>>
  BY DEF SettlementFails, StopsAt
<1>2. CASE UNCHANGED <<rows, uncounted>>
  BY <1>1, <1>2, EndsGate
<1>3. CASE rows' = SettledRow(r, c) /\ uncounted' = uncounted + SettlementUncounted(r, c)
  <2> DEFINE k == RowKey(r, call[r][c].seq)
             own == NoCall
  <2>1. /\ k \in RowKeys /\ rows' \in [RowKeys -> RowType] /\ rows[k].uses = 1
        /\ rows'[k].uses = rows[k].uses
        /\ \A m \in RowKeys : m # k => rows'[m] = rows[m]
    BY <1>1, <1>3, SettledRowShape
  <2>2. /\ tracker' \in [Runs -> TrackerType]
        /\ \A q \in Runs :
             /\ tracker'[q].calls = tracker[q].calls /\ tracker'[q].out = tracker[q].out
             /\ tracker'[q].resOut = tracker[q].resOut /\ tracker'[q].cost = tracker[q].cost
             /\ tracker'[q].resCost = tracker[q].resCost
    BY <1>1, TrackerStopped DEF GateInv, BudgetShape
  <2>3. /\ own \in CallType /\ own.charge <= own.cap /\ own.pc # "reserving"
        /\ own.pc \notin Numbered /\ own.pc \notin Opening /\ own.pc \notin Locking
        /\ own.pc \notin {"sent", "answered"} /\ own.pc # "answered"
        /\ CallMove(call, call', r, c, own)
    BY <1>1, NoCallShape DEF CallMove, GateInv, BudgetShape
  <2> HIDE DEF own, k
  <2>4. /\ call' \in [Runs -> [Threads -> CallType]] /\ call'[r][c] = own
        /\ \A q \in Runs, d \in Threads : (q # r \/ d # c) => call'[q][d] = call[q][d]
    BY <2>3, CallMoved
  <2>5. uncounted' \in Nat
    <3>1. call[r][c].charge \in Nat
      BY CallFacts
    <3> QED
      BY <1>3, <3>1 DEF GateInv, BudgetShape, SettlementUncounted
  <2>6. BudgetShape'
    BY <1>1, <2>1, <2>2, <2>4, <2>5 DEF GateInv, BudgetShape
  <2>7. RecordsBounded'
    BY <1>1, <2>2 DEF GateInv, RecordsBounded
  <2>8. OneInside'
    BY <1>1, <2>3, <2>4 DEF GateInv, OneInside
  <2>9. ChecksHold'
    <3> SUFFICES ASSUME NEW q \in Runs, NEW d \in Threads, call'[q][d].pc = "reserving"
                 PROVE  /\ tracker[q].calls < MaxModelCalls[q]
                        /\ tracker[q].cost + tracker[q].resCost + call'[q][d].cap
                             <= MaxCostPerRun
                        /\ tracker[q].out + tracker[q].resOut + call'[q][d].cap
                             <= MaxOutputTokens
      BY <2>2 DEF ChecksHold
    <3>1. call'[q][d] = call[q][d]
      BY <2>3, <2>4
    <3> QED
      BY <3>1 DEF GateInv, ChecksHold
  <2>10. \A q \in Runs : /\ tracker'[q].calls = tracker[q].calls
                         /\ durable[q].calls <= durable'[q].calls
    BY <1>1, <2>2 DEF GateInv, BudgetShape
  <2>11. \A q \in Runs, d \in Threads :
           call'[q][d].pc \in Opening => durable'[q].calls < call'[q][d].seq
    BY <1>1, <2>3, <2>4 DEF GateInv, NumbersOfCalls
  <2>12. \A m \in RowKeys :
           /\ rows'[m].uses = rows[m].uses
           /\ rows[m].uses = 0 => rows'[m].status = rows[m].status
    BY <2>1
  <2>13. attempt' = attempt
    BY <1>1
  <2> QED
    BY <2>3, <2>6, <2>7, <2>8, <2>9, <2>10, <2>11, <2>12, <2>13, SteadyGate
<1> QED
  BY <1>2, <1>3 DEF SettlementFails

-----------------------------------------------------------------------------
(* Reservations.                                                           *)

(* The row a reservation leaves, where no request has used it yet.         *)
LEMMA ReservedRowShape ==
  ASSUME NEW k \in RowKeys, rows[k] \in RowType, rows[k].uses = 0,
         rows[k].status \in {"absent", "reserved", "rejected"}, NEW cap \in Nat
  PROVE  /\ ReservedRow(k, cap) \in RowType /\ ReservedRow(k, cap).uses = 0
         /\ ReservedRow(k, cap).status \in {"reserved", "rejected"}
         /\ ReservedRow(k, cap).status = "reserved" =>
              \/ rows[k].status = "reserved" /\ ReservedRow(k, cap) = rows[k]
              \/ /\ rows[k].status = "absent" /\ ReservedRow(k, cap).est = cap
                 /\ ~(Committed + cap > DailyBudget)
<1>1. CASE Committed + cap > DailyBudget
  <2> DEFINE est == IF rows[k].status = "absent" THEN cap ELSE rows[k].est
  <2>1. est \in Nat
    BY DEF RowType
  <2>2. ReservedRow(k, cap) = [rows[k] EXCEPT !.status = "rejected", !.est = est]
    BY <1>1 DEF ReservedRow
  <2> HIDE DEF est
  <2> QED
    BY <2>1, <2>2 DEF RowType, RowStates
<1>2. CASE ~(Committed + cap > DailyBudget) /\ rows[k].status = "absent"
  <2>1. ReservedRow(k, cap) = [NoRow EXCEPT !.status = "reserved", !.est = cap]
    BY <1>2 DEF ReservedRow
  <2> QED
    BY <1>2, <2>1 DEF NoRow, RowType, RowStates
<1>3. CASE ~(Committed + cap > DailyBudget) /\ rows[k].status # "absent"
  <2>1. ReservedRow(k, cap) = rows[k]
    BY <1>3 DEF ReservedRow
  <2> QED
    BY <1>3, <2>1
<1> QED
  BY <1>1, <1>2, <1>3

(* An admission in memory.                                                 *)
Admits(old, new, r, cap) ==
  new = [old EXCEPT ![r].calls = old[r].calls + 1, ![r].resOut = @ + cap,
                    ![r].resCost = @ + cap]

LEMMA TrackerAdmits ==
  ASSUME NEW old \in [Runs -> TrackerType], NEW new, NEW r \in Runs, NEW cap \in Nat,
         Admits(old, new, r, cap)
  PROVE  /\ new \in [Runs -> TrackerType]
         /\ new[r].calls = old[r].calls + 1 /\ new[r].out = old[r].out
         /\ new[r].resOut = old[r].resOut + cap /\ new[r].cost = old[r].cost
         /\ new[r].resCost = old[r].resCost + cap
         /\ \A q \in Runs : q # r => new[q] = old[q]
<1>1. /\ old[r] \in TrackerType /\ old[r].calls + 1 \in Nat /\ old[r].resOut + cap \in Nat
      /\ old[r].resCost + cap \in Nat
  BY DEF TrackerType
<1> DEFINE n == old[r].calls + 1
           o == old[r].resOut + cap
           d == old[r].resCost + cap
           t == [old[r] EXCEPT !.calls = n, !.resOut = o, !.resCost = d]
<1>2. new = [old EXCEPT ![r] = t]
  BY DEF Admits
<1>3. n \in Nat /\ o \in Nat /\ d \in Nat
  BY <1>1
<1> HIDE DEF n, o, d
<1>4. /\ t \in TrackerType /\ t.calls = n /\ t.out = old[r].out /\ t.resOut = o
      /\ t.cost = old[r].cost /\ t.resCost = d
  BY <1>1, <1>3 DEF TrackerType
<1> HIDE DEF t
<1>5. /\ new \in [Runs -> TrackerType] /\ new[r] = t
      /\ \A q \in Runs : q # r => new[q] = old[q]
  BY <1>2, <1>4
<1> QED
  BY <1>4, <1>5 DEF n, o, d

(* The effect of a reservation, made or refused.                           *)
LEMMA ReserveMoves ==
  ASSUME GateInv, NEW r \in Runs, NEW c \in Threads, Reserve(r, c)
  PROVE  LET k == RowKey(r, tracker[r].calls + 1)
             cap == call[r][c].cap
         IN  /\ call[r][c].pc = "reserving" /\ lock[r] = c /\ cap \in Nat
             /\ k \in RowKeys /\ k = <<r, attempt[r], tracker[r].calls + 1>>
             /\ tracker[r].calls + 1 <= MaxModelCalls[r]
             /\ rows[k].uses = 0 /\ rows[k].status \in {"absent", "reserved", "rejected"}
             /\ rows' = [rows EXCEPT ![k] = ReservedRow(k, cap)]
             /\ UNCHANGED <<durable, attempt, crashes, ledger, spent, lost>>
             /\ \/ /\ ReservedRow(k, cap).status = "reserved"
                   /\ Admits(tracker, tracker', r, cap) /\ lock' = lock
                   /\ CallMove(call, call', r, c,
                               [call[r][c] EXCEPT !.pc = "admitted",
                                                  !.seq = tracker[r].calls + 1])
                   /\ uncounted' = uncounted + Monus(cap, ReservedRow(k, cap).est)
                \/ /\ CallMove(call, call', r, c, NoCall)
                   /\ lock' = [lock EXCEPT ![r] = NoThread]
                   /\ UNCHANGED <<tracker, uncounted>>
<1> DEFINE seq == tracker[r].calls + 1
           k == RowKey(r, seq)
           cap == call[r][c].cap
           row == ReservedRow(k, cap)
<1>1. call[r][c].pc = "reserving" /\ rows' = [rows EXCEPT ![k] = row]
      /\ UNCHANGED <<durable, attempt, crashes, ledger, spent, lost>>
  BY DEF Reserve
<1>2. lock[r] = c
  BY <1>1, HasLock DEF Locking
<1>3. /\ tracker[r].calls \in Nat /\ call[r][c] \in CallType /\ cap \in Nat
      /\ durable[r].calls \in Nat
  BY CallFacts
<1>4. seq \in Nat /\ seq >= 1 /\ seq <= MaxModelCalls[r]
  <2>1. tracker[r].calls < MaxModelCalls[r]
    BY <1>1 DEF GateInv, ChecksHold
  <2> QED
    BY <1>3, <2>1, BudgetNumbers
<1>5. k \in RowKeys /\ k = <<r, attempt[r], seq>> /\ k[1] = r /\ k[3] = seq
  BY <1>4, RowKeyShape DEF GateInv
<1>6. rows[k].uses = 0 /\ rows[k].status \in {"absent", "reserved", "rejected"}
      /\ rows[k] \in RowType
  <2>1. rows[k] \in RowType /\ rows[k].uses \in Nat
    BY <1>5 DEF GateInv, BudgetShape, RowType
  <2>2. /\ rows[k].uses > 0 => k[3] <= durable[k[1]].calls
        /\ rows[k].uses = 0 => rows[k].status \in {"absent", "reserved", "rejected"}
    BY <1>5 DEF GateInv, UsedRows
  <2>3. durable[r].calls <= tracker[r].calls
    BY DEF GateInv, RecordsBounded
  <2> HIDE DEF k
  <2>4. ~(rows[k].uses > 0)
    BY <1>3, <1>5, <2>2, <2>3
  <2> QED
    BY <2>1, <2>2, <2>4
<1>7. row.status \in {"reserved", "rejected"}
  BY <1>3, <1>5, <1>6, ReservedRowShape
<1>8. \/ /\ row.status # "rejected"
         /\ tracker' = [tracker EXCEPT ![r].calls = seq, ![r].resOut = @ + cap,
                                       ![r].resCost = @ + cap]
         /\ call' = [call EXCEPT ![r][c].pc = "admitted", ![r][c].seq = seq]
         /\ uncounted' = uncounted + Monus(cap, row.est)
         /\ UNCHANGED lock
      \/ /\ call' = [call EXCEPT ![r][c] = NoCall]
         /\ lock' = [lock EXCEPT ![r] = NoThread]
         /\ UNCHANGED <<tracker, uncounted>>
  BY DEF Reserve
<1>9. CASE /\ row.status # "rejected"
           /\ tracker' = [tracker EXCEPT ![r].calls = seq, ![r].resOut = @ + cap,
                                         ![r].resCost = @ + cap]
           /\ call' = [call EXCEPT ![r][c].pc = "admitted", ![r][c].seq = seq]
           /\ uncounted' = uncounted + Monus(cap, row.est)
           /\ UNCHANGED lock
  <2> DEFINE own == [call[r][c] EXCEPT !.pc = "admitted", !.seq = seq]
  <2>1. Admits(tracker, tracker', r, cap)
    BY <1>9 DEF Admits
  <2>2. own \in CallType
    BY <1>3, <1>4 DEF CallType, CallPcs
  <2>3. call' = [call EXCEPT ![r][c] = own]
    BY <1>9
  <2>4. CallMove(call, call', r, c, own)
    BY <2>2, <2>3 DEF CallMove, GateInv, BudgetShape
  <2> HIDE DEF row
  <2> QED
    BY <1>1, <1>2, <1>3, <1>4, <1>5, <1>6, <1>7, <1>9, <2>1, <2>4 DEF row
<1>10. CASE /\ call' = [call EXCEPT ![r][c] = NoCall]
            /\ lock' = [lock EXCEPT ![r] = NoThread]
            /\ UNCHANGED <<tracker, uncounted>>
  <2>1. CallMove(call, call', r, c, NoCall)
    BY <1>10, NoCallShape DEF CallMove, GateInv, BudgetShape
  <2> QED
    BY <1>1, <1>2, <1>3, <1>4, <1>5, <1>6, <1>10, <2>1
<1> QED
  BY <1>8, <1>9, <1>10

LEMMA ReserveGate ==
  ASSUME GateInv, NEW r \in Runs, NEW c \in Threads, Reserve(r, c)
  PROVE  GateInv'
<1> DEFINE seq == tracker[r].calls + 1
           k == RowKey(r, seq)
           cap == call[r][c].cap
           row == ReservedRow(k, cap)
           made == [call[r][c] EXCEPT !.pc = "admitted", !.seq = seq]
<1>1. /\ call[r][c].pc = "reserving" /\ lock[r] = c /\ cap \in Nat
      /\ k \in RowKeys /\ k = <<r, attempt[r], seq>> /\ seq <= MaxModelCalls[r]
      /\ rows[k].uses = 0 /\ rows[k].status \in {"absent", "reserved", "rejected"}
      /\ rows' = [rows EXCEPT ![k] = row]
      /\ UNCHANGED <<durable, attempt, crashes, ledger, spent, lost>>
      /\ \/ /\ row.status = "reserved"
            /\ Admits(tracker, tracker', r, cap) /\ lock' = lock
            /\ CallMove(call, call', r, c, made)
            /\ uncounted' = uncounted + Monus(cap, row.est)
         \/ /\ CallMove(call, call', r, c, NoCall)
            /\ lock' = [lock EXCEPT ![r] = NoThread]
            /\ UNCHANGED <<tracker, uncounted>>
  BY ReserveMoves
<1>2. /\ call[r][c] \in CallType /\ tracker[r] \in TrackerType /\ tracker[r].calls \in Nat
      /\ durable[r].calls \in Nat /\ call[r][c].charge <= cap /\ rows[k] \in RowType
      /\ lock \in [Runs -> Threads \cup {NoThread}] /\ c # NoThread
      /\ tracker \in [Runs -> TrackerType] /\ rows \in [RowKeys -> RowType]
      /\ uncounted \in Nat /\ durable[r].calls <= tracker[r].calls
  BY <1>1, CallFacts, BudgetNumbers DEF GateInv, BudgetShape, RecordsBounded
<1>3. row \in RowType /\ row.uses = 0 /\ row.status \in {"reserved", "rejected"}
  BY <1>1, <1>2, ReservedRowShape
<1>4. \A d \in Threads : d # c => call[r][d].pc \notin Locking
  BY <1>1 DEF GateInv, OneInside
<1>5. /\ made \in CallType /\ made.pc = "admitted" /\ made.seq = seq /\ made.cap = cap
      /\ made.charge <= made.cap /\ seq \in Nat /\ seq = tracker[r].calls + 1
      /\ durable[r].calls < seq /\ seq >= 1
  <2>1. /\ seq \in Nat /\ seq = tracker[r].calls + 1 /\ durable[r].calls < seq /\ seq >= 1
    BY <1>2
  <2> HIDE DEF seq
  <2>2. /\ made \in CallType /\ made.pc = "admitted" /\ made.seq = seq /\ made.cap = cap
        /\ made.charge = call[r][c].charge
    BY <1>2, <2>1 DEF CallType, CallPcs
  <2> QED
    BY <1>2, <2>1, <2>2
<1> HIDE DEF row, made, k
<1>6. rows' \in [RowKeys -> RowType] /\ rows'[k] = row
      /\ \A m \in RowKeys : m # k => rows'[m] = rows[m]
  BY <1>1, <1>2, <1>3
<1>7. \A m \in RowKeys :
        /\ rows'[m].uses = rows[m].uses
        /\ rows[m].uses = 0 /\ m # k => rows'[m].status = rows[m].status
  BY <1>1, <1>3, <1>6
<1>8. PICK own \in CallType :
        /\ CallMove(call, call', r, c, own)
        /\ own.pc # "reserving" /\ own.pc # "answered"
        /\ own.pc \notin {"sent", "answered"} /\ own.charge <= own.cap
        /\ own.pc \in Numbered => /\ own.pc = "admitted" /\ own.seq = seq
                                  /\ row.status = "reserved"
                                  /\ tracker'[r].calls = seq
        /\ own.pc \in Opening => own.pc \in Numbered
        /\ own.pc \in Locking => lock'[r] = c
  <2>1. CASE /\ row.status = "reserved"
             /\ Admits(tracker, tracker', r, cap) /\ lock' = lock
             /\ CallMove(call, call', r, c, made)
    <3>1. tracker'[r].calls = seq
      BY <1>1, <1>2, <2>1, TrackerAdmits
    <3> QED
      BY <1>1, <1>5, <2>1, <3>1 DEF Numbered, Holding, Opening
  <2>2. CASE CallMove(call, call', r, c, NoCall)
    BY <2>2, NoCallShape DEF Opening, Numbered, Holding
  <2> QED
    BY <1>1, <2>1, <2>2
<1>9. /\ call' \in [Runs -> [Threads -> CallType]] /\ call'[r][c] = own
      /\ \A q \in Runs, d \in Threads : (q # r \/ d # c) => call'[q][d] = call[q][d]
  BY <1>8, CallMoved
<1>10. /\ tracker' \in [Runs -> TrackerType]
       /\ tracker'[r].calls \in {tracker[r].calls, seq} /\ tracker'[r].out = tracker[r].out
       /\ tracker'[r].cost = tracker[r].cost
       /\ \A q \in Runs : q # r => tracker'[q] = tracker[q]
  <2>1. CASE Admits(tracker, tracker', r, cap)
    <3>1. /\ tracker' \in [Runs -> TrackerType]
          /\ tracker'[r].calls = tracker[r].calls + 1 /\ tracker'[r].out = tracker[r].out
          /\ tracker'[r].cost = tracker[r].cost
          /\ \A q \in Runs : q # r => tracker'[q] = tracker[q]
      BY <1>1, <1>2, <2>1, TrackerAdmits
    <3> QED
      BY <1>5, <3>1
  <2>2. CASE tracker' = tracker
    BY <1>2, <2>2
  <2> QED
    BY <1>1, <2>1, <2>2
<1>11. lock' \in [Runs -> Threads \cup {NoThread}] /\ \A q \in Runs : q # r => lock'[q] = lock[q]
  BY <1>1, <1>2
<1>12. uncounted' \in Nat
  <2>1. row.est \in Nat
    BY <1>3 DEF RowType
  <2>2. Monus(cap, row.est) \in Nat
    BY <1>1, <2>1 DEF Monus
  <2> QED
    BY <1>1, <1>2, <2>2
<1>13. BudgetShape'
  BY <1>1, <1>6, <1>9, <1>10, <1>11, <1>12 DEF GateInv, BudgetShape
<1>14. RecordsBounded'
  <2> SUFFICES ASSUME NEW q \in Runs
               PROVE  /\ durable[q].calls <= tracker'[q].calls
                      /\ tracker'[q].calls <= MaxModelCalls[q]
                      /\ durable[q].out <= tracker'[q].out
                      /\ durable[q].cost <= tracker'[q].cost
                      /\ crashes[q] <= MaxCrashes[q] /\ attempt[q] <= crashes[q] + 1
    BY <1>1 DEF RecordsBounded
  <2>1. /\ durable[q].calls <= tracker[q].calls /\ tracker[q].calls <= MaxModelCalls[q]
        /\ durable[q].out <= tracker[q].out /\ durable[q].cost <= tracker[q].cost
        /\ crashes[q] <= MaxCrashes[q] /\ attempt[q] <= crashes[q] + 1
    BY DEF GateInv, RecordsBounded
  <2>2. CASE q = r
    BY <1>1, <1>2, <1>5, <1>10, <2>1, <2>2
  <2>3. CASE q # r
    BY <1>10, <2>1, <2>3
  <2> QED
    BY <2>2, <2>3
<1>15. OneInside'
  <2> SUFFICES ASSUME NEW q \in Runs, NEW d \in Threads, call'[q][d].pc \in Locking
               PROVE  lock'[q] = d
    BY DEF OneInside
  <2>1. CASE q = r /\ d = c
    BY <1>8, <1>9, <2>1
  <2>2. CASE q # r
    BY <1>9, <1>11, <2>2 DEF GateInv, OneInside
  <2>3. CASE q = r /\ d # c
    BY <1>4, <1>9, <2>3
  <2> QED
    BY <2>1, <2>2, <2>3
<1>16. ChecksHold'
  <2> SUFFICES ASSUME NEW q \in Runs, NEW d \in Threads, call'[q][d].pc = "reserving"
               PROVE  /\ tracker'[q].calls < MaxModelCalls[q]
                      /\ tracker'[q].cost + tracker'[q].resCost + call'[q][d].cap
                           <= MaxCostPerRun
                      /\ tracker'[q].out + tracker'[q].resOut + call'[q][d].cap
                           <= MaxOutputTokens
    BY DEF ChecksHold
  <2>1. q # r
    BY <1>4, <1>8, <1>9 DEF Locking
  <2> QED
    BY <1>9, <1>10, <2>1 DEF GateInv, ChecksHold
<1>17. NumbersOfCalls'
  <2> SUFFICES ASSUME NEW q \in Runs, NEW d \in Threads
               PROVE  /\ call'[q][d].pc \in Numbered => /\ call'[q][d].seq >= 1
                                                        /\ call'[q][d].seq <= tracker'[q].calls
                      /\ call'[q][d].pc \in Opening => durable[q].calls < call'[q][d].seq
                      /\ call'[q][d].charge <= call'[q][d].cap
    BY <1>1 DEF NumbersOfCalls
  <2>1. CASE q = r /\ d = c
    BY <1>5, <1>8, <1>9, <2>1
  <2>2. CASE q # r \/ d # c
    <3>1. /\ call[q][d].pc \in Numbered => /\ call[q][d].seq >= 1
                                           /\ call[q][d].seq <= tracker[q].calls
          /\ call[q][d].pc \in Opening => durable[q].calls < call[q][d].seq
          /\ call[q][d].charge <= call[q][d].cap
      BY DEF GateInv, NumbersOfCalls
    <3>2. tracker[q].calls <= tracker'[q].calls /\ tracker[q].calls \in Nat
          /\ tracker'[q].calls \in Nat /\ call[q][d].seq \in Nat
      BY <1>2, <1>5, <1>10, CallFacts
    <3> QED
      BY <1>9, <2>2, <3>1, <3>2
  <2> QED
    BY <2>1, <2>2
<1>18. \A d \in Threads : call[r][d].pc \in Numbered => call[r][d].seq # seq
  <2> TAKE d \in Threads
  <2>1. call[r][d].pc \in Numbered => call[r][d].seq <= tracker[r].calls
    BY DEF GateInv, NumbersOfCalls
  <2> QED
    BY <1>2, <1>5, <2>1
<1>19. NumbersDiffer'
  <2> SUFFICES ASSUME NEW q \in Runs, NEW d \in Threads, NEW e \in Threads,
                      call'[q][d].pc \in Numbered, call'[q][e].pc \in Numbered,
                      call'[q][d].seq = call'[q][e].seq
               PROVE  d = e
    BY DEF NumbersDiffer
  <2>1. CASE q # r \/ (d # c /\ e # c)
    BY <1>9, <2>1 DEF GateInv, NumbersDiffer
  <2>2. CASE q = r /\ (d = c \/ e = c)
    BY <1>8, <1>9, <1>18, <2>2
  <2> QED
    BY <2>1, <2>2
<1>20. UsedRows'
  <2> SUFFICES ASSUME NEW m \in RowKeys
               PROVE  /\ rows'[m].uses <= 1
                      /\ rows'[m].uses > 0 => m[3] <= durable[m[1]].calls
                      /\ rows'[m].uses = 0 =>
                           rows'[m].status \in {"absent", "reserved", "rejected"}
    BY <1>1 DEF UsedRows
  <2>1. /\ rows[m].uses <= 1
        /\ rows[m].uses > 0 => m[3] <= durable[m[1]].calls
        /\ rows[m].uses = 0 => rows[m].status \in {"absent", "reserved", "rejected"}
    BY DEF GateInv, UsedRows
  <2>2. CASE m = k
    BY <1>3, <1>6, <2>2
  <2>3. CASE m # k
    <3>1. rows'[m] = rows[m]
      BY <1>6, <2>3
    <3> QED
      BY <2>1, <3>1
  <2> QED
    BY <2>2, <2>3
<1>21. UsedOnce'
  BY <1>7 DEF GateInv, UsedOnce
<1>22. RowsOfCalls'
  <2> SUFFICES ASSUME NEW q \in Runs, NEW d \in Threads
               PROVE  /\ call'[q][d].pc \in Opening =>
                           rows'[RowKey(q, call'[q][d].seq)].status = "reserved"
                      /\ call'[q][d].pc \in {"sent", "answered"} =>
                           rows'[RowKey(q, call'[q][d].seq)].uses > 0
    BY <1>1 DEF RowsOfCalls, RowKey
  <2>1. CASE q = r /\ d = c
    <3>1. call'[q][d].pc \in Opening => RowKey(q, call'[q][d].seq) = k /\ row.status = "reserved"
      BY <1>8, <1>9, <2>1 DEF k
    <3> QED
      BY <1>6, <1>8, <1>9, <2>1, <3>1
  <2>2. CASE q # r \/ d # c
    <3> DEFINE m == RowKey(q, call[q][d].seq)
    <3>1. call'[q][d] = call[q][d]
      BY <1>9, <2>2
    <3>2. ASSUME call[q][d].pc \in Opening \/ call[q][d].pc \in {"sent", "answered"}
          PROVE  m \in RowKeys /\ m # k
      <4>1. call[q][d].pc \in Numbered
        BY <3>2 DEF Opening, Numbered, Holding
      <4>2. m \in RowKeys /\ m = <<q, attempt[q], call[q][d].seq>>
        BY <4>1, CallFacts
      <4>3. q = r => call[q][d].seq # seq
        BY <1>18, <4>1
      <4> HIDE DEF m
      <4> QED
        BY <1>1, <4>2, <4>3
    <3>3. /\ call[q][d].pc \in Opening => rows[m].status = "reserved"
          /\ call[q][d].pc \in {"sent", "answered"} => rows[m].uses > 0
      BY DEF GateInv, RowsOfCalls
    <3> HIDE DEF m
    <3> QED
      BY <1>6, <3>1, <3>2, <3>3 DEF m
  <2> QED
    BY <2>1, <2>2
<1>23. AnswersSettled'
  BY <1>8, <1>9 DEF GateInv, AnswersSettled
<1> QED
  BY <1>13, <1>14, <1>15, <1>16, <1>17, <1>19, <1>20, <1>21, <1>22, <1>23 DEF GateInv

-----------------------------------------------------------------------------
(* Admissions.                                                             *)

(* The request goes out on a row no other request has used.                *)
LEMMA RecordAdmissionMoves ==
  ASSUME GateInv, NEW r \in Runs, NEW c \in Threads, RecordAdmission(r, c)
  PROVE  LET k == RowKey(r, call[r][c].seq)
         IN  /\ call[r][c].pc = "recording" /\ lock[r] = c /\ c # NoThread
             /\ CallMove(call, call', r, c, [call[r][c] EXCEPT !.pc = "sent"])
             /\ k \in RowKeys /\ k = <<r, attempt[r], call[r][c].seq>>
             /\ rows[k].uses = 0 /\ rows[k].status = "reserved"
             /\ rows' \in [RowKeys -> RowType] /\ rows'[k].uses = 1
             /\ rows'[k].status = rows[k].status /\ rows'[k].est = rows[k].est
             /\ rows'[k].actual = rows[k].actual
             /\ \A m \in RowKeys : m # k => rows'[m] = rows[m]
             /\ durable' = [durable EXCEPT ![r] = Merged(r)]
             /\ lock' = [lock EXCEPT ![r] = NoThread]
             /\ UNCHANGED <<tracker, attempt, crashes, ledger, spent, lost, uncounted>>
<1> DEFINE k == RowKey(r, call[r][c].seq)
           own == [call[r][c] EXCEPT !.pc = "sent"]
           row == [rows[k] EXCEPT !.uses = @ + 1]
<1>1. call[r][c].pc = "recording" /\ call[r][c].pc \in Locking /\ call[r][c].pc \in Opening
      /\ call[r][c].pc \in Numbered
  BY DEF RecordAdmission, Locking, Opening, Numbered, Holding
<1>2. lock[r] = c /\ c # NoThread
  BY <1>1, HasLock, BudgetNumbers
<1>3. /\ call[r][c] \in CallType /\ k \in RowKeys /\ k = <<r, attempt[r], call[r][c].seq>>
      /\ rows[k].uses = 0 /\ rows[k].status = "reserved"
  BY <1>1, CallFacts
<1>4. own \in CallType
  BY <1>3 DEF CallType, CallPcs
<1>5. call' = [call EXCEPT ![r][c] = own]
  BY DEF RecordAdmission
<1>6. CallMove(call, call', r, c, own)
  BY <1>4, <1>5 DEF CallMove, GateInv, BudgetShape
<1>7. rows' = [rows EXCEPT ![k] = row] /\ rows \in [RowKeys -> RowType]
  BY DEF RecordAdmission, GateInv, BudgetShape
<1>8. /\ row \in RowType /\ row.uses = 1 /\ row.status = rows[k].status
      /\ row.est = rows[k].est /\ row.actual = rows[k].actual
  BY <1>3, <1>7 DEF RowType
<1> HIDE DEF row, k
<1>9. /\ rows' \in [RowKeys -> RowType] /\ rows'[k] = row
      /\ \A m \in RowKeys : m # k => rows'[m] = rows[m]
  BY <1>3, <1>7, <1>8
<1>10. /\ durable' = [durable EXCEPT ![r] = Merged(r)]
       /\ lock' = [lock EXCEPT ![r] = NoThread]
       /\ UNCHANGED <<tracker, attempt, crashes, ledger, spent, lost, uncounted>>
  BY DEF RecordAdmission
<1> QED
  BY <1>1, <1>2, <1>3, <1>6, <1>8, <1>9, <1>10 DEF k

LEMMA RecordAdmissionGate ==
  ASSUME GateInv, NEW r \in Runs, NEW c \in Threads, RecordAdmission(r, c)
  PROVE  GateInv'
<1> DEFINE k == RowKey(r, call[r][c].seq)
           own == [call[r][c] EXCEPT !.pc = "sent"]
           seq == call[r][c].seq
<1>1. /\ call[r][c].pc = "recording" /\ lock[r] = c /\ c # NoThread
      /\ CallMove(call, call', r, c, own)
      /\ k \in RowKeys /\ k = <<r, attempt[r], seq>>
      /\ rows[k].uses = 0 /\ rows[k].status = "reserved"
      /\ rows' \in [RowKeys -> RowType] /\ rows'[k].uses = 1
      /\ rows'[k].status = rows[k].status
      /\ \A m \in RowKeys : m # k => rows'[m] = rows[m]
      /\ durable' = [durable EXCEPT ![r] = Merged(r)]
      /\ lock' = [lock EXCEPT ![r] = NoThread]
      /\ UNCHANGED <<tracker, attempt, crashes, ledger, spent, lost, uncounted>>
  BY RecordAdmissionMoves
<1>2. /\ durable' \in [Runs -> [calls : Nat, out : Nat, cost : Nat]]
      /\ durable'[r].calls = tracker[r].calls /\ durable'[r].out = tracker[r].out
      /\ durable'[r].cost = tracker[r].cost
      /\ \A q \in Runs : q # r => durable'[q] = durable[q]
  BY <1>1, RecordWritten
<1>3. /\ call[r][c] \in CallType /\ seq \in Nat /\ seq >= 1 /\ seq <= tracker[r].calls
      /\ durable[r].calls < seq /\ durable[r].calls \in Nat /\ tracker[r].calls \in Nat
      /\ call[r][c].charge <= call[r][c].cap
      /\ call[r][c].pc \in Numbered
  <2>1. call[r][c].pc \in Opening /\ call[r][c].pc \in Numbered
    BY <1>1 DEF Opening, Numbered, Holding
  <2> QED
    BY <2>1, CallFacts
<1>4. /\ own \in CallType /\ own.pc = "sent" /\ own.seq = seq /\ own.charge <= own.cap
      /\ own.pc \notin Opening /\ own.pc \notin Locking /\ own.pc # "reserving"
  BY <1>3 DEF CallType, CallPcs, Opening, Locking
<1> HIDE DEF own, k
<1>5. /\ call' \in [Runs -> [Threads -> CallType]] /\ call'[r][c] = own
      /\ \A q \in Runs, d \in Threads : (q # r \/ d # c) => call'[q][d] = call[q][d]
  BY <1>1, CallMoved
<1>6. \A d \in Threads : call'[r][d].pc \notin Locking
  BY <1>1, <1>4, <1>5 DEF GateInv, OneInside
<1>7. \A q \in Runs : durable[q].calls <= durable'[q].calls
  <2> TAKE q \in Runs
  <2>1. durable[q].calls \in Nat /\ durable[q].calls <= tracker[q].calls
    BY DEF GateInv, BudgetShape, RecordsBounded
  <2>2. CASE q = r
    BY <1>2, <2>1, <2>2
  <2>3. CASE q # r
    BY <1>2, <2>1, <2>3
  <2> QED
    BY <2>2, <2>3
<1>8. BudgetShape'
  BY <1>1, <1>2, <1>5 DEF GateInv, BudgetShape
<1>9. RecordsBounded'
  <2>1. /\ tracker[r].calls <= tracker[r].calls /\ tracker[r].out <= tracker[r].out
        /\ tracker[r].cost <= tracker[r].cost
    BY DEF GateInv, BudgetShape, TrackerType
  <2> QED
    BY <1>1, <1>2, <2>1 DEF GateInv, RecordsBounded
<1>10. OneInside'
  <2>1. lock \in [Runs -> Threads \cup {NoThread}]
    BY DEF GateInv, BudgetShape
  <2> QED
    BY <1>1, <1>5, <1>6, <2>1 DEF GateInv, OneInside
<1>11. ChecksHold'
  <2> SUFFICES ASSUME NEW q \in Runs, NEW d \in Threads, call'[q][d].pc = "reserving"
               PROVE  /\ tracker[q].calls < MaxModelCalls[q]
                      /\ tracker[q].cost + tracker[q].resCost + call'[q][d].cap
                           <= MaxCostPerRun
                      /\ tracker[q].out + tracker[q].resOut + call'[q][d].cap
                           <= MaxOutputTokens
    BY <1>1 DEF ChecksHold
  <2>1. call'[q][d] = call[q][d]
    BY <1>4, <1>5
  <2> QED
    BY <2>1 DEF GateInv, ChecksHold
<1>12. NumbersOfCalls'
  <2> SUFFICES ASSUME NEW q \in Runs, NEW d \in Threads
               PROVE  /\ call'[q][d].pc \in Numbered => /\ call'[q][d].seq >= 1
                                                        /\ call'[q][d].seq <= tracker[q].calls
                      /\ call'[q][d].pc \in Opening => durable'[q].calls < call'[q][d].seq
                      /\ call'[q][d].charge <= call'[q][d].cap
    BY <1>1 DEF NumbersOfCalls
  <2>1. CASE q = r /\ d = c
    BY <1>3, <1>4, <1>5, <2>1
  <2>2. CASE q = r /\ d # c
    BY <1>5, <1>6, <2>2 DEF GateInv, NumbersOfCalls, Opening, Locking
  <2>3. CASE q # r
    BY <1>2, <1>5, <2>3 DEF GateInv, NumbersOfCalls
  <2> QED
    BY <2>1, <2>2, <2>3
<1>13. NumbersDiffer'
  <2>1. \A q \in Runs, d \in Threads :
          call'[q][d].pc \in Numbered =>
            call[q][d].pc \in Numbered /\ call'[q][d].seq = call[q][d].seq
    BY <1>3, <1>4, <1>5
  <2> QED
    BY <2>1 DEF GateInv, NumbersDiffer
<1>14. UsedRows'
  <2> SUFFICES ASSUME NEW m \in RowKeys
               PROVE  /\ rows'[m].uses <= 1
                      /\ rows'[m].uses > 0 => m[3] <= durable'[m[1]].calls
                      /\ rows'[m].uses = 0 =>
                           rows'[m].status \in {"absent", "reserved", "rejected"}
    BY DEF UsedRows
  <2>1. CASE m = k
    BY <1>1, <1>2, <1>3, <2>1
  <2>2. CASE m # k
    <3>1. rows'[m] = rows[m]
      BY <1>1, <2>2
    <3>2. /\ m[1] \in Runs /\ m[3] \in Nat /\ durable[m[1]].calls <= durable'[m[1]].calls
          /\ durable[m[1]].calls \in Nat /\ durable'[m[1]].calls \in Nat
      BY <1>2, <1>7, RowKeysShape DEF GateInv, BudgetShape
    <3>3. /\ rows[m].uses <= 1
          /\ rows[m].uses > 0 => m[3] <= durable[m[1]].calls
          /\ rows[m].uses = 0 => rows[m].status \in {"absent", "reserved", "rejected"}
      BY DEF GateInv, UsedRows
    <3> QED
      BY <3>1, <3>2, <3>3
  <2> QED
    BY <2>1, <2>2
<1>15. \A m \in RowKeys : m # k /\ rows[m].uses > 0 => ~(m[1] = r /\ m[3] = seq)
  <2> SUFFICES ASSUME NEW m \in RowKeys, rows[m].uses > 0, m[1] = r, m[3] = seq
               PROVE  FALSE
    OBVIOUS
  <2>1. m[3] <= durable[m[1]].calls
    BY DEF GateInv, UsedRows
  <2> QED
    BY <1>3, <2>1
<1>16. UsedOnce'
  <2> SUFFICES ASSUME NEW m \in RowKeys, NEW n \in RowKeys, rows'[m].uses > 0,
                      rows'[n].uses > 0, m[1] = n[1], m[3] = n[3]
               PROVE  m = n
    BY DEF UsedOnce
  <2>1. k[1] = r /\ k[3] = seq
    BY <1>1
  <2>2. CASE m # k /\ n # k
    BY <1>1, <2>2 DEF GateInv, UsedOnce
  <2>3. CASE m = k /\ n # k
    BY <1>1, <1>15, <2>1, <2>3
  <2>4. CASE m # k /\ n = k
    BY <1>1, <1>15, <2>1, <2>4
  <2> QED
    BY <2>2, <2>3, <2>4
<1>17. RowsOfCalls'
  <2> SUFFICES ASSUME NEW q \in Runs, NEW d \in Threads
               PROVE  /\ call'[q][d].pc \in Opening =>
                           rows'[RowKey(q, call'[q][d].seq)].status = "reserved"
                      /\ call'[q][d].pc \in {"sent", "answered"} =>
                           rows'[RowKey(q, call'[q][d].seq)].uses > 0
    BY <1>1 DEF RowsOfCalls, RowKey
  <2>1. CASE q = r /\ d = c
    <3>1. RowKey(q, call'[q][d].seq) = k
      BY <1>4, <1>5, <2>1 DEF k
    <3> QED
      BY <1>1, <1>4, <1>5, <2>1, <3>1
  <2>2. CASE q # r \/ d # c
    <3> DEFINE m == RowKey(q, call[q][d].seq)
    <3>1. call'[q][d] = call[q][d]
      BY <1>5, <2>2
    <3>2. ASSUME call[q][d].pc \in Opening \/ call[q][d].pc \in {"sent", "answered"}
          PROVE  m \in RowKeys /\ m # k
      <4>1. call[q][d].pc \in Numbered
        BY <3>2 DEF Opening, Numbered, Holding
      <4>2. m \in RowKeys /\ m = <<q, attempt[q], call[q][d].seq>>
        BY <4>1, CallFacts
      <4>3. q = r => call[q][d].seq # seq
        BY <1>3, <2>2, <4>1 DEF GateInv, NumbersDiffer
      <4> HIDE DEF m
      <4> QED
        BY <1>1, <4>2, <4>3
    <3>3. /\ call[q][d].pc \in Opening => rows[m].status = "reserved"
          /\ call[q][d].pc \in {"sent", "answered"} => rows[m].uses > 0
      BY DEF GateInv, RowsOfCalls
    <3> HIDE DEF m
    <3> QED
      BY <1>1, <3>1, <3>2, <3>3 DEF m
  <2> QED
    BY <2>1, <2>2
<1>18. AnswersSettled'
  BY <1>4, <1>5 DEF GateInv, AnswersSettled
<1> QED
  BY <1>8, <1>9, <1>10, <1>11, <1>12, <1>13, <1>14, <1>16, <1>17, <1>18 DEF GateInv

-----------------------------------------------------------------------------
(* Crashes, and the gate as an invariant.                                  *)

(* What died at the provider is summed over the caps of the calls lost.    *)
CapsOf(calls, charged) == [c \in charged |-> calls[c].cap]

LEMMA ChargedSum ==
  ASSUME GateInv, NEW r \in Runs, NEW charged \in SUBSET Threads
  PROVE  /\ Summable(CapsOf(call[r], charged), charged)
         /\ SumFunctionOnSet([c \in charged |-> call[r][c].cap], charged)
              = Sum(CapsOf(call[r], charged), charged)
         /\ Sum(CapsOf(call[r], charged), charged) \in Nat
<1> DEFINE f == CapsOf(call[r], charged)
<1>1. IsFiniteSet(charged)
  BY FS_Subset, BudgetNumbers
<1>2. \A c \in charged : f[c] \in Nat
  BY CallFacts DEF CapsOf
<1> HIDE DEF f
<1>3. Summable(f, charged)
  BY <1>1, <1>2 DEF Summable
<1> QED
  BY <1>3, SumType DEF Sum, f, CapsOf

(* A replacement restores the record and starts with no call.              *)
Dies(r, charged) ==
  /\ charged \in SUBSET Threads /\ \A c \in charged : call[r][c].pc = "sent"
  /\ tracker' \in [Runs -> TrackerType]
  /\ tracker'[r].calls = durable[r].calls /\ tracker'[r].out = durable[r].out
  /\ tracker'[r].cost = durable[r].cost
  /\ tracker'[r].resOut = 0 /\ tracker'[r].resCost = 0
  /\ call' \in [Runs -> [Threads -> CallType]]
  /\ \A c \in Threads : call'[r][c] = NoCall
  /\ spent' \in [Runs -> Nat] /\ lost' \in [Runs -> Nat]
  /\ spent'[r] = spent[r] + Sum(CapsOf(call[r], charged), charged)
  /\ lost'[r] = lost[r] + tracker[r].cost + tracker[r].resCost - durable[r].cost
  /\ attempt' \in [Runs -> Nat \ {0}] /\ crashes' \in [Runs -> Nat]
  /\ crashes'[r] = crashes[r] + 1 /\ crashes'[r] <= MaxCrashes[r]
  /\ attempt'[r] <= attempt[r] + 1
  /\ \A q \in Runs : q # r =>
       /\ tracker'[q] = tracker[q] /\ call'[q] = call[q] /\ spent'[q] = spent[q]
       /\ lost'[q] = lost[q] /\ attempt'[q] = attempt[q] /\ crashes'[q] = crashes[q]
       /\ lock'[q] = lock[q]
  /\ lock' \in [Runs -> Threads \cup {NoThread}]
  /\ UNCHANGED <<durable, rows, ledger, uncounted>>

LEMMA CrashMoves ==
  ASSUME GateInv, NEW r \in Runs, NEW charged \in SUBSET ThreadsOf[r], NEW kept \in BOOLEAN,
         Crash(r, charged, kept)
  PROVE  Dies(r, charged)
<1> DEFINE total == Sum(CapsOf(call[r], charged), charged)
           idle == [c \in Threads |-> NoCall]
           dead == lost[r] + tracker[r].cost + tracker[r].resCost - durable[r].cost
           t == Restored(r)
           next == IF kept THEN attempt[r] ELSE attempt[r] + 1
<1>1. charged \in SUBSET Threads /\ \A c \in charged : call[r][c].pc = "sent"
  BY BudgetNumbers DEF Crash
<1>2. total \in Nat /\ spent' = [spent EXCEPT ![r] = @ + total]
  BY <1>1, ChargedSum DEF Crash
<1>3. /\ tracker \in [Runs -> TrackerType] /\ call \in [Runs -> [Threads -> CallType]]
      /\ spent \in [Runs -> Nat] /\ lost \in [Runs -> Nat]
      /\ attempt \in [Runs -> Nat \ {0}] /\ crashes \in [Runs -> Nat]
      /\ lock \in [Runs -> Threads \cup {NoThread}]
      /\ durable \in [Runs -> [calls : Nat, out : Nat, cost : Nat]]
  BY DEF GateInv, BudgetShape
<1>4. dead \in Nat
  <2>1. /\ tracker[r].cost \in Nat /\ tracker[r].resCost \in Nat /\ durable[r].cost \in Nat
        /\ lost[r] \in Nat /\ durable[r].cost <= tracker[r].cost
    BY <1>3 DEF TrackerType, GateInv, RecordsBounded
  <2> QED
    BY <2>1
<1>5. /\ t \in TrackerType /\ t.calls = durable[r].calls /\ t.out = durable[r].out
      /\ t.cost = durable[r].cost /\ t.resOut = 0 /\ t.resCost = 0
  <2>1. durable[r].calls \in Nat /\ durable[r].out \in Nat /\ durable[r].cost \in Nat
    BY <1>3
  <2> QED
    BY <2>1 DEF Restored, FreshTracker, TrackerType
<1>6. next \in Nat \ {0} /\ next <= attempt[r] + 1
  BY <1>3
<1>7. idle \in [Threads -> CallType] /\ \A c \in Threads : idle[c] = NoCall
  BY NoCallShape
<1>8. /\ tracker' = [tracker EXCEPT ![r] = t] /\ call' = [call EXCEPT ![r] = idle]
      /\ lost' = [lost EXCEPT ![r] = dead] /\ attempt' = [attempt EXCEPT ![r] = next]
      /\ crashes' = [crashes EXCEPT ![r] = @ + 1] /\ crashes[r] < MaxCrashes[r]
      /\ lock' = [lock EXCEPT ![r] = NoThread]
      /\ UNCHANGED <<durable, rows, ledger, uncounted>>
  BY DEF Crash
<1> HIDE DEF total, idle, dead, t, next
<1>9. /\ tracker' \in [Runs -> TrackerType] /\ tracker'[r] = t
      /\ call' \in [Runs -> [Threads -> CallType]] /\ call'[r] = idle
      /\ lost' \in [Runs -> Nat] /\ lost'[r] = dead
      /\ attempt' \in [Runs -> Nat \ {0}] /\ attempt'[r] = next
      /\ spent' \in [Runs -> Nat] /\ spent'[r] = spent[r] + total
      /\ lock' \in [Runs -> Threads \cup {NoThread}]
      /\ \A q \in Runs : q # r =>
           /\ tracker'[q] = tracker[q] /\ call'[q] = call[q] /\ spent'[q] = spent[q]
           /\ lost'[q] = lost[q] /\ attempt'[q] = attempt[q] /\ lock'[q] = lock[q]
  BY <1>2, <1>3, <1>4, <1>5, <1>6, <1>7, <1>8
<1>10. /\ crashes' \in [Runs -> Nat] /\ crashes'[r] = crashes[r] + 1
       /\ crashes'[r] <= MaxCrashes[r]
       /\ \A q \in Runs : q # r => crashes'[q] = crashes[q]
  BY <1>3, <1>8, BudgetNumbers
<1> QED
  BY <1>1, <1>5, <1>6, <1>7, <1>8, <1>9, <1>10 DEF total, dead, Dies

LEMMA CrashGate ==
  ASSUME GateInv, NEW r \in Runs, NEW charged \in SUBSET ThreadsOf[r], NEW kept \in BOOLEAN,
         Crash(r, charged, kept)
  PROVE  GateInv'
<1>1. /\ tracker' \in [Runs -> TrackerType]
      /\ tracker'[r].calls = durable[r].calls /\ tracker'[r].out = durable[r].out
      /\ tracker'[r].cost = durable[r].cost
      /\ call' \in [Runs -> [Threads -> CallType]]
      /\ \A c \in Threads : call'[r][c] = NoCall
      /\ spent' \in [Runs -> Nat] /\ lost' \in [Runs -> Nat]
      /\ attempt' \in [Runs -> Nat \ {0}] /\ crashes' \in [Runs -> Nat]
      /\ crashes'[r] = crashes[r] + 1 /\ crashes'[r] <= MaxCrashes[r]
      /\ attempt'[r] <= attempt[r] + 1
      /\ \A q \in Runs : q # r =>
           /\ tracker'[q] = tracker[q] /\ call'[q] = call[q]
           /\ attempt'[q] = attempt[q] /\ crashes'[q] = crashes[q]
           /\ lock'[q] = lock[q]
      /\ lock' \in [Runs -> Threads \cup {NoThread}]
      /\ UNCHANGED <<durable, rows, ledger, uncounted>>
  <2>1. Dies(r, charged)
    BY CrashMoves
  <2>2. /\ tracker' \in [Runs -> TrackerType]
        /\ tracker'[r].calls = durable[r].calls /\ tracker'[r].out = durable[r].out
        /\ tracker'[r].cost = durable[r].cost
        /\ call' \in [Runs -> [Threads -> CallType]]
        /\ \A c \in Threads : call'[r][c] = NoCall
    BY <2>1 DEF Dies
  <2>3. /\ spent' \in [Runs -> Nat] /\ lost' \in [Runs -> Nat]
        /\ attempt' \in [Runs -> Nat \ {0}] /\ crashes' \in [Runs -> Nat]
        /\ crashes'[r] = crashes[r] + 1 /\ crashes'[r] <= MaxCrashes[r]
        /\ attempt'[r] <= attempt[r] + 1
    BY <2>1 DEF Dies
  <2>4. /\ \A q \in Runs : q # r =>
             /\ tracker'[q] = tracker[q] /\ call'[q] = call[q]
             /\ attempt'[q] = attempt[q] /\ crashes'[q] = crashes[q]
             /\ lock'[q] = lock[q]
        /\ lock' \in [Runs -> Threads \cup {NoThread}]
        /\ UNCHANGED <<durable, rows, ledger, uncounted>>
    BY <2>1 DEF Dies
  <2> QED
    BY <2>2, <2>3, <2>4
<1>2. \A c \in Threads :
        /\ call'[r][c].pc \notin Numbered /\ call'[r][c].pc \notin Opening
        /\ call'[r][c].pc \notin Locking /\ call'[r][c].pc \notin {"sent", "answered"}
        /\ call'[r][c].pc # "answered" /\ call'[r][c].pc # "reserving"
        /\ call'[r][c].charge <= call'[r][c].cap
  BY <1>1, NoCallShape
<1>3. BudgetShape'
  BY <1>1 DEF GateInv, BudgetShape
<1>4. RecordsBounded'
  <2> SUFFICES ASSUME NEW q \in Runs
               PROVE  /\ durable[q].calls <= tracker'[q].calls
                      /\ tracker'[q].calls <= MaxModelCalls[q]
                      /\ durable[q].out <= tracker'[q].out
                      /\ durable[q].cost <= tracker'[q].cost
                      /\ crashes'[q] <= MaxCrashes[q] /\ attempt'[q] <= crashes'[q] + 1
    BY <1>1 DEF RecordsBounded
  <2>1. /\ durable[q].calls <= tracker[q].calls /\ tracker[q].calls <= MaxModelCalls[q]
        /\ durable[q].out <= tracker[q].out /\ durable[q].cost <= tracker[q].cost
        /\ crashes[q] <= MaxCrashes[q] /\ attempt[q] <= crashes[q] + 1
    BY DEF GateInv, RecordsBounded
  <2>2. /\ durable[q].calls \in Nat /\ durable[q].out \in Nat /\ durable[q].cost \in Nat
        /\ tracker[q].calls \in Nat /\ MaxModelCalls[q] \in Nat
        /\ attempt[q] \in Nat /\ attempt'[q] \in Nat /\ crashes[q] \in Nat
    BY <1>1, BudgetNumbers DEF GateInv, BudgetShape, TrackerType
  <2>3. CASE q = r
    BY <1>1, <2>1, <2>2, <2>3
  <2>4. CASE q # r
    BY <1>1, <2>1, <2>4
  <2> QED
    BY <2>3, <2>4
<1>5. OneInside'
  BY <1>1, <1>2 DEF GateInv, OneInside
<1>6. ChecksHold'
  <2> SUFFICES ASSUME NEW q \in Runs, NEW d \in Threads, call'[q][d].pc = "reserving"
               PROVE  /\ tracker'[q].calls < MaxModelCalls[q]
                      /\ tracker'[q].cost + tracker'[q].resCost + call'[q][d].cap
                           <= MaxCostPerRun
                      /\ tracker'[q].out + tracker'[q].resOut + call'[q][d].cap
                           <= MaxOutputTokens
    BY DEF ChecksHold
  <2>1. q # r
    BY <1>2
  <2> QED
    BY <1>1, <2>1 DEF GateInv, ChecksHold
<1>7. NumbersOfCalls'
  <2> SUFFICES ASSUME NEW q \in Runs, NEW d \in Threads
               PROVE  /\ call'[q][d].pc \in Numbered => /\ call'[q][d].seq >= 1
                                                        /\ call'[q][d].seq <= tracker'[q].calls
                      /\ call'[q][d].pc \in Opening => durable[q].calls < call'[q][d].seq
                      /\ call'[q][d].charge <= call'[q][d].cap
    BY <1>1 DEF NumbersOfCalls
  <2>1. CASE q = r
    BY <1>2, <2>1
  <2>2. CASE q # r
    BY <1>1, <2>2 DEF GateInv, NumbersOfCalls
  <2> QED
    BY <2>1, <2>2
<1>8. NumbersDiffer'
  BY <1>1, <1>2 DEF GateInv, NumbersDiffer
<1>9. UsedRows' /\ UsedOnce'
  BY <1>1 DEF GateInv, UsedRows, UsedOnce
<1>10. RowsOfCalls'
  <2> SUFFICES ASSUME NEW q \in Runs, NEW d \in Threads
               PROVE  /\ call'[q][d].pc \in Opening =>
                           rows[<<q, attempt'[q], call'[q][d].seq>>].status = "reserved"
                      /\ call'[q][d].pc \in {"sent", "answered"} =>
                           rows[<<q, attempt'[q], call'[q][d].seq>>].uses > 0
    BY <1>1 DEF RowsOfCalls, RowKey
  <2>1. CASE q = r
    BY <1>2, <2>1
  <2>2. CASE q # r
    <3>1. call'[q][d] = call[q][d] /\ attempt'[q] = attempt[q]
      BY <1>1, <2>2
    <3>2. /\ call[q][d].pc \in Opening =>
               rows[<<q, attempt[q], call[q][d].seq>>].status = "reserved"
          /\ call[q][d].pc \in {"sent", "answered"} =>
               rows[<<q, attempt[q], call[q][d].seq>>].uses > 0
      BY DEF GateInv, RowsOfCalls, RowKey
    <3> QED
      BY <3>1, <3>2
  <2> QED
    BY <2>1, <2>2
<1>11. AnswersSettled'
  BY <1>1, <1>2 DEF GateInv, AnswersSettled
<1> QED
  BY <1>3, <1>4, <1>5, <1>6, <1>7, <1>8, <1>9, <1>10, <1>11 DEF GateInv

LEMMA GateInitially ==
  ASSUME BudgetInit
  PROVE  GateInv
<1>1. \A r \in Runs, c \in Threads : call[r][c] = NoCall
  BY DEF BudgetInit
<1>2. \A k \in RowKeys : rows[k] = NoRow
  BY DEF BudgetInit
<1>3. NoRow \in RowType /\ NoRow.uses = 0 /\ NoRow.status = "absent"
  BY DEF NoRow, RowType, RowStates
<1>4. FreshTracker \in TrackerType /\ FreshTracker.calls = 0 /\ FreshTracker.out = 0
      /\ FreshTracker.cost = 0
  BY DEF FreshTracker, TrackerType
<1>5. BudgetShape
  BY <1>3, <1>4, NoCallShape DEF BudgetInit, BudgetShape
<1>6. RecordsBounded
  BY <1>4, BudgetNumbers DEF BudgetInit, RecordsBounded
<1>7. AnswersSettled /\ OneInside /\ ChecksHold /\ NumbersOfCalls /\ NumbersDiffer /\ RowsOfCalls
  BY <1>1, NoCallShape DEF AnswersSettled, OneInside, ChecksHold, NumbersOfCalls,
     NumbersDiffer, RowsOfCalls
<1>8. UsedRows /\ UsedOnce
  BY <1>2, <1>3 DEF UsedRows, UsedOnce
<1> QED
  BY <1>5, <1>6, <1>7, <1>8 DEF GateInv

LEMMA GateStutters ==
  ASSUME GateInv, UNCHANGED budgetVars
  PROVE  GateInv'
  BY DEF budgetVars, GateInv, BudgetShape, AnswersSettled, RecordsBounded, OneInside, ChecksHold,
     NumbersOfCalls, NumbersDiffer, UsedRows, UsedOnce, RowsOfCalls, RowKey

(* The steps of a run, told apart.                                         *)
LEMMA GateStep ==
  ASSUME GateInv, [BudgetNext]_budgetVars
  PROVE  GateInv'
<1>1. CASE UNCHANGED budgetVars
  BY <1>1, GateStutters
<1>2. CASE BudgetNext
  <2>1. PICK r \in Runs :
          \/ \E c \in ThreadsOf[r] : CallNext(r, c)
          \/ RailTrips(r)
          \/ \E charged \in SUBSET ThreadsOf[r] : \E kept \in BOOLEAN : Crash(r, charged, kept)
    BY <1>2 DEF BudgetNext
  <2>2. CASE RailTrips(r)
    BY <2>2, StopKeepsGate DEF RailTrips, StopsAt
  <2>3. CASE \E charged \in SUBSET ThreadsOf[r] : \E kept \in BOOLEAN : Crash(r, charged, kept)
    BY <2>3, CrashGate
  <2>4. ASSUME NEW c \in ThreadsOf[r], CallNext(r, c)
        PROVE  GateInv'
    <3>1. c \in Threads
      BY BudgetNumbers
    <3>2. CASE \E requested \in Caps : OpenCall(r, c, requested)
      BY <3>1, <3>2, OpenCallGate
    <3>3. CASE Reserve(r, c)
      BY <3>1, <3>3, ReserveGate
    <3>4. CASE LedgerReserved(r, c)
      BY <3>1, <3>4, LedgerReservedGate
    <3>5. CASE RecordAdmission(r, c)
      BY <3>1, <3>5, RecordAdmissionGate
    <3>6. CASE AdmissionWriteFails(r, c)
      BY <3>1, <3>6, AdmissionWriteFailsGate
    <3>7. CASE \E charged \in 0 .. call[r][c].cap :
                 \E verdict \in Verdicts(call[r][c].cap, charged) : Answer(r, c, charged, verdict)
      BY <3>1, <3>7, AnswerGate
    <3>8. CASE SettleCall(r, c)
      BY <3>1, <3>8, SettleCallGate
    <3>9. CASE SettlementFails(r, c)
      BY <3>1, <3>9, SettlementFailsGate
    <3>10. CASE LedgerSettled(r, c)
      BY <3>1, <3>10, LedgerSettledGate
    <3>11. CASE RecordSettlement(r, c)
      BY <3>1, <3>11, RecordSettlementGate
    <3>12. CASE SettlementWriteFails(r, c)
      BY <3>1, <3>12, SettlementWriteFailsGate
    <3> QED
      BY <2>4, <3>2, <3>3, <3>4, <3>5, <3>6, <3>7, <3>8, <3>9, <3>10, <3>11, <3>12
         DEF CallNext
  <2> QED
    BY <2>1, <2>2, <2>3, <2>4
<1> QED
  BY <1>1, <1>2

(* open_call and settle_call let one call of a run in at a time; a call    *)
(* has a number no other call of the run has, one the durable record       *)
(* learns before the request goes out; and a reservation row that has paid *)
(* for a request belongs to a number on record, which restore_snapshot     *)
(* never gives again.                                                      *)
THEOREM GateHolds == BudgetSpec => []GateInv
<1>1. BudgetInit => GateInv
  BY GateInitially
<1>2. GateInv /\ [BudgetNext]_budgetVars => GateInv'
  BY GateStep
<1> QED
  BY <1>1, <1>2, PTL DEF BudgetSpec

(* The usage ledger, whose entries no property of the gate reads.          *)
LedgerTyped ==
  /\ ledger = [r \in Runs |-> ledger[r]]
  /\ \A r \in Runs : ledger[r] \in [Seqs(r) -> Nat]

LEMMA LedgerEntry ==
  ASSUME GateInv, LedgerTyped, NEW r \in Runs, NEW c \in Threads,
         call[r][c].pc \in Numbered, NEW held \in Nat,
         ledger' = [ledger EXCEPT ![r][call[r][c].seq] = held]
  PROVE  LedgerTyped'
<1>1. call[r][c].seq \in Seqs(r)
  <2>1. /\ call[r][c].seq \in Nat /\ call[r][c].seq >= 1
        /\ call[r][c].seq <= MaxModelCalls[r] /\ MaxModelCalls[r] \in Nat
    BY CallFacts, BudgetNumbers
  <2> QED
    BY <2>1 DEF Seqs
<1> QED
  BY <1>1 DEF LedgerTyped

LEMMA LedgerStep ==
  ASSUME GateInv, LedgerTyped, [BudgetNext]_budgetVars
  PROVE  LedgerTyped'
<1>1. CASE ledger' = ledger
  BY <1>1 DEF LedgerTyped
<1>2. ASSUME NEW r \in Runs, NEW c \in Threads, LedgerReserved(r, c) \/ LedgerSettled(r, c)
      PROVE  LedgerTyped'
  <2> DEFINE own == call[r][c]
             old == ledger[r][own.seq]
  <2>1. /\ own.pc \in Numbered /\ own.cap \in Nat /\ own.charge \in Nat
        /\ own.seq \in Nat /\ own.seq \in Seqs(r)
    <3>1. own.pc \in Numbered
      BY <1>2 DEF LedgerReserved, LedgerSettled, Numbered, Holding
    <3>2. /\ own.seq \in Nat /\ own.seq >= 1 /\ own.cap \in Nat /\ own.charge \in Nat
          /\ own.seq <= MaxModelCalls[r] /\ MaxModelCalls[r] \in Nat
      BY <3>1, CallFacts, BudgetNumbers
    <3> QED
      BY <3>1, <3>2 DEF Seqs
  <2>2. old \in Nat
    BY <2>1 DEF LedgerTyped
  <2>3. PICK held \in Nat : ledger' = [ledger EXCEPT ![r][own.seq] = held]
    <3>1. CASE LedgerReserved(r, c)
      <4>1. ledger' = [ledger EXCEPT ![r][own.seq] = IF old = 0 THEN own.cap ELSE old]
        BY <3>1 DEF LedgerReserved
      <4> HIDE DEF old
      <4> QED
        BY <2>1, <2>2, <4>1
    <3>2. CASE LedgerSettled(r, c)
      <4>1. ledger' = [ledger EXCEPT ![r][own.seq] =
                         IF own.charge > 0 THEN own.charge ELSE old]
        BY <3>2 DEF LedgerSettled
      <4> HIDE DEF old
      <4> QED
        BY <2>1, <2>2, <4>1
    <3> QED
      BY <1>2, <3>1, <3>2
  <2> QED
    BY <2>1, <2>3, LedgerEntry
<1>3. CASE BudgetNext
  <2>1. PICK r \in Runs :
          \/ \E c \in ThreadsOf[r] : CallNext(r, c)
          \/ RailTrips(r)
          \/ \E charged \in SUBSET ThreadsOf[r] : \E kept \in BOOLEAN : Crash(r, charged, kept)
    BY <1>3 DEF BudgetNext
  <2>2. CASE \/ RailTrips(r)
             \/ \E charged \in SUBSET ThreadsOf[r] : \E kept \in BOOLEAN : Crash(r, charged, kept)
    BY <1>1, <2>2 DEF RailTrips, Crash
  <2>3. ASSUME NEW c \in ThreadsOf[r], CallNext(r, c)
        PROVE  LedgerTyped'
    <3>1. c \in Threads
      BY BudgetNumbers
    <3>2. \/ ledger' = ledger
          \/ LedgerReserved(r, c) \/ LedgerSettled(r, c)
      BY <2>3 DEF CallNext, OpenCall, Reserve, RecordAdmission, AdmissionWriteFails, Answer,
                  SettleCall, SettlementFails, RecordSettlement, SettlementWriteFails
    <3> QED
      BY <1>1, <1>2, <3>1, <3>2
  <2> QED
    BY <2>1, <2>2, <2>3
<1> QED
  BY <1>1, <1>3 DEF budgetVars

(* Every reachable state is well typed: attempts and deaths stay within    *)
(* their bounds, and the usage ledger has an entry per call of a run.      *)
THEOREM BudgetTypeCorrect == BudgetSpec => []BudgetTypeOK
<1>1. BudgetInit => LedgerTyped
  BY BudgetNumbers DEF BudgetInit, LedgerTyped
<1>2. GateInv /\ LedgerTyped /\ [BudgetNext]_budgetVars => LedgerTyped'
  BY LedgerStep
<1>3. GateInv /\ LedgerTyped => BudgetTypeOK
  <2> SUFFICES ASSUME GateInv, LedgerTyped PROVE BudgetTypeOK
    OBVIOUS
  <2>1. \A r \in Runs : crashes[r] \in 0 .. MaxCrashes[r] /\ attempt[r] \in 1 .. MaxCrashes[r] + 1
    <3> TAKE r \in Runs
    <3>1. /\ crashes[r] \in Nat /\ attempt[r] \in Nat \ {0} /\ MaxCrashes[r] \in Nat
          /\ crashes[r] <= MaxCrashes[r] /\ attempt[r] <= crashes[r] + 1
      BY BudgetNumbers DEF GateInv, BudgetShape, RecordsBounded
    <3> QED
      BY <3>1
  <2> QED
    BY <2>1 DEF GateInv, BudgetShape, TrackerType, CallType, RowType, LedgerTyped, BudgetTypeOK
<1> QED
  BY <1>1, <1>2, <1>3, GateHolds, PTL DEF BudgetSpec

(* A reservation row never pays for two requests, although a replacement   *)
(* under its predecessor's attempt meets its rows again                    *)
(* (reserve_model_call_budget_for_attempt returns the row it finds).       *)
THEOREM OneRequestPerReservation == BudgetSpec => []ReservationServesOneRequest
<1>1. GateInv => ReservationServesOneRequest
  BY DEF GateInv, UsedRows, ReservationServesOneRequest
<1> QED
  BY <1>1, GateHolds, PTL

LEMMA RowKeysFinite == IsFiniteSet(RowKeys)
<1> DEFINE keys(r) == {r} \X (1 .. MaxCrashes[r] + 1) \X Seqs(r)
           all == {keys(r) : r \in Runs}
<1>1. ASSUME NEW r \in Runs
      PROVE  IsFiniteSet(keys(r))
  <2>1. /\ IsFiniteSet(1 .. MaxCrashes[r] + 1) /\ IsFiniteSet(Seqs(r)) /\ IsFiniteSet({r})
    <3>1. 1 \in Int /\ MaxCrashes[r] + 1 \in Int /\ MaxModelCalls[r] \in Int
      BY BudgetNumbers
    <3>2. IsFiniteSet(1 .. MaxCrashes[r] + 1) /\ IsFiniteSet(1 .. MaxModelCalls[r])
      BY <3>1, FS_Interval
    <3>3. IsFiniteSet({r})
      BY FS_Singleton
    <3> QED
      BY <3>2, <3>3 DEF Seqs
  <2>2. IsFiniteSet({r} \X ((1 .. MaxCrashes[r] + 1) \X Seqs(r)))
    BY <2>1, FS_Product
  <2> DEFINE pairs == {r} \X ((1 .. MaxCrashes[r] + 1) \X Seqs(r))
             g == [p \in pairs |-> <<p[1], p[2][1], p[2][2]>>]
  <2>3. g \in Surjection(pairs, keys(r))
    <3>1. g \in [pairs -> keys(r)]
      OBVIOUS
    <3>2. ASSUME NEW k \in keys(r)
          PROVE  \E p \in pairs : g[p] = k
      <4>1. <<k[1], <<k[2], k[3]>>>> \in pairs
        OBVIOUS
      <4>2. g[<<k[1], <<k[2], k[3]>>>>] = k
        BY <4>1
      <4> QED
        BY <4>1, <4>2
    <3> HIDE DEF g, pairs, keys
    <3> QED
      BY <3>1, <3>2 DEF Surjection
  <2> HIDE DEF g, keys
  <2> QED
    BY <2>2, <2>3, FS_Surjection
<1>2. IsFiniteSet(all)
  <2> DEFINE h == [r \in Runs |-> keys(r)]
  <2> HIDE DEF keys
  <2>1. h \in Surjection(Runs, all)
    BY DEF Surjection
  <2> HIDE DEF h, all
  <2> QED
    BY <2>1, BudgetNumbers, FS_Surjection
<1>3. \A s \in all : IsFiniteSet(s)
  BY <1>1
<1>4. RowKeys = UNION all
  BY DEF RowKeys
<1> HIDE DEF all
<1> QED
  BY <1>2, <1>3, <1>4, FS_UNION

-----------------------------------------------------------------------------
(* Calls over restarts.                                                    *)

(* Restarts do not buy calls: the rows of a run that paid for a request    *)
(* have different numbers, and none above max_model_calls_per_run, since   *)
(* open_call records an admission before its request goes out.             *)
THEOREM CallsOverRestarts == BudgetSpec => []CallsBoundedAcrossRestarts
<1>1. GateInv => CallsBoundedAcrossRestarts
  <2> SUFFICES ASSUME GateInv, NEW r \in Runs
               PROVE  SumFunctionOnSet([k \in RowKeys |-> rows[k].uses],
                                       {k \in RowKeys : k[1] = r}) <= MaxModelCalls[r]
    BY DEF CallsBoundedAcrossRestarts
  <2> DEFINE f == [k \in RowKeys |-> rows[k].uses]
             S == {k \in RowKeys : k[1] = r}
             g == [u \in Units(f, S) |-> u[1][3]]
  <2>1. IsFiniteSet(S) /\ \A k \in S : f[k] \in Nat /\ k \in RowKeys
    <3>1. IsFiniteSet(S)
      BY RowKeysFinite, FS_Subset
    <3> QED
      BY <3>1 DEF GateInv, BudgetShape, RowType
  <2>2. ASSUME NEW u \in Units(f, S)
        PROVE  /\ u[1] \in S /\ u[1] \in RowKeys /\ u[1][1] = r /\ rows[u[1]].uses > 0
               /\ u[2] = 1 /\ u = <<u[1], u[2]>>
               /\ u[1][3] \in 1 .. MaxModelCalls[r]
    <3>1. u \in S \X Nat /\ 1 <= u[2] /\ u[2] <= f[u[1]]
      BY DEF Units
    <3>2. u[1] \in RowKeys /\ u[1][1] = r /\ u[2] \in Nat /\ u = <<u[1], u[2]>>
          /\ f[u[1]] = rows[u[1]].uses
      BY <3>1
    <3>3. rows[u[1]].uses \in Nat /\ rows[u[1]].uses <= 1
          /\ (rows[u[1]].uses > 0 => u[1][3] <= durable[u[1][1]].calls)
      BY <3>2 DEF GateInv, BudgetShape, RowType, UsedRows
    <3>4. u[2] = 1 /\ rows[u[1]].uses > 0
      BY <3>1, <3>2, <3>3
    <3>5. /\ durable[r].calls <= tracker[r].calls /\ tracker[r].calls <= MaxModelCalls[r]
          /\ durable[r].calls \in Nat /\ tracker[r].calls \in Nat /\ MaxModelCalls[r] \in Nat
      BY BudgetNumbers DEF GateInv, RecordsBounded, BudgetShape, TrackerType
    <3>6. u[1][3] \in Nat /\ u[1][3] >= 1
      BY <3>2, RowKeysShape
    <3>7. u[1][3] \in 1 .. MaxModelCalls[r]
      BY <3>2, <3>3, <3>4, <3>5, <3>6
    <3> QED
      BY <3>1, <3>2, <3>4, <3>7
  <2>3. ASSUME NEW u \in Units(f, S), NEW w \in Units(f, S), u[1][3] = w[1][3]
        PROVE  u = w
    <3>1. /\ u[1] \in RowKeys /\ u[1][1] = r /\ rows[u[1]].uses > 0 /\ u = <<u[1], 1>>
          /\ w[1] \in RowKeys /\ w[1][1] = r /\ rows[w[1]].uses > 0 /\ w = <<w[1], 1>>
      BY <2>2
    <3>2. u[1] = w[1]
      BY <2>3, <3>1 DEF GateInv, UsedOnce
    <3> QED
      BY <3>1, <3>2
  <2> HIDE DEF f, S
  <2>4. g \in Injection(Units(f, S), 1 .. MaxModelCalls[r])
    <3>1. g \in [Units(f, S) -> 1 .. MaxModelCalls[r]]
      BY <2>2
    <3>2. \A u, w \in Units(f, S) : g[u] = g[w] => u = w
      BY <2>3
    <3>3. DOMAIN g = Units(f, S)
      OBVIOUS
    <3> HIDE DEF g
    <3> QED
      BY <3>1, <3>2, <3>3 DEF Injection, IsInjective
  <2> HIDE DEF g
  <2>5. /\ IsFiniteSet(1 .. MaxModelCalls[r])
        /\ Cardinality(1 .. MaxModelCalls[r]) = MaxModelCalls[r]
    <3>1. MaxModelCalls[r] \in Nat
      BY BudgetNumbers
    <3>2. /\ IsFiniteSet(1 .. MaxModelCalls[r])
          /\ Cardinality(1 .. MaxModelCalls[r])
               = IF 1 > MaxModelCalls[r] THEN 0 ELSE MaxModelCalls[r] - 1 + 1
      BY <3>1, FS_Interval
    <3> QED
      BY <3>1, <3>2
  <2>6. Cardinality(Units(f, S)) <= MaxModelCalls[r]
    BY <2>4, <2>5, FS_Injection
  <2>7. SumFunctionOnSet(f, S) = Count(f, S)
    BY <2>1, SumCounts
  <2> QED
    BY <2>6, <2>7 DEF Count, f, S
<1> QED
  BY <1>1, GateHolds, PTL

-----------------------------------------------------------------------------
(* What a run's calls hold and may still cost, as one of them moves.       *)
LEMMA HoldsMove ==
  ASSUME GateInv, NEW r \in Runs, NEW c \in Threads, NEW own,
         CallMove(call, call', r, c, own), own.charge <= own.cap
  PROVE  /\ HeldBy(call[r][c]) \in Nat /\ HeldBy(own) \in Nat
         /\ ExposedBy(call[r][c]) \in Nat /\ ExposedBy(own) \in Nat
         /\ Held(call[r]) \in Nat /\ Held(call'[r]) \in Nat
         /\ Exposed(call[r]) \in Nat /\ Exposed(call'[r]) \in Nat
         /\ HeldBy(call[r][c]) <= Held(call[r])
         /\ Held(call'[r]) + HeldBy(call[r][c]) = Held(call[r]) + HeldBy(own)
         /\ Exposed(call'[r]) + ExposedBy(call[r][c]) = Exposed(call[r]) + ExposedBy(own)
<1>1. /\ call' \in [Runs -> [Threads -> CallType]] /\ call'[r][c] = own
      /\ \A q \in Runs, d \in Threads : (q # r \/ d # c) => call'[q][d] = call[q][d]
      /\ own \in CallType
  BY CallMoved DEF CallMove
<1>2. ASSUME NEW one \in CallType, one.charge <= one.cap
      PROVE  HeldBy(one) \in Nat /\ ExposedBy(one) \in Nat
  <2>1. one.cap \in Nat /\ one.charge \in Nat
    BY DEF CallType
  <2> QED
    BY <1>2, <2>1 DEF HeldBy, ExposedBy
<1>3. \A d \in Threads : call[r][d] \in CallType /\ call[r][d].charge <= call[r][d].cap
  BY CallFacts
<1>4. \A d \in Threads : call'[r][d] \in CallType /\ call'[r][d].charge <= call'[r][d].cap
  BY <1>1, <1>3
<1> DEFINE h == [d \in Threads |-> HeldBy(call[r][d])]
           i == [d \in Threads |-> HeldBy(call'[r][d])]
           e == [d \in Threads |-> ExposedBy(call[r][d])]
           x == [d \in Threads |-> ExposedBy(call'[r][d])]
<1>5. MoveAt(h, i, Threads, c) /\ MoveAt(e, x, Threads, c)
  BY <1>1, <1>2, <1>3, <1>4, BudgetNumbers DEF MoveAt, Summable
<1>6. /\ h[c] = HeldBy(call[r][c]) /\ i[c] = HeldBy(own)
      /\ e[c] = ExposedBy(call[r][c]) /\ x[c] = ExposedBy(own)
  BY <1>1
<1>7. /\ Held(call[r]) = Sum(h, Threads) /\ Held(call'[r]) = Sum(i, Threads)
      /\ Exposed(call[r]) = Sum(e, Threads) /\ Exposed(call'[r]) = Sum(x, Threads)
  BY DEF Held, Exposed
<1> HIDE DEF h, i, e, x
<1>8. /\ Sum(h, Threads) \in Nat /\ Sum(i, Threads) \in Nat /\ h[c] \in Nat /\ i[c] \in Nat
      /\ Sum(i, Threads) + h[c] = Sum(h, Threads) + i[c]
  BY <1>5, SumMoves
<1>9. /\ Sum(e, Threads) \in Nat /\ Sum(x, Threads) \in Nat /\ e[c] \in Nat /\ x[c] \in Nat
      /\ Sum(x, Threads) + e[c] = Sum(e, Threads) + x[c]
  BY <1>5, SumMoves
<1>10. h[c] <= Sum(h, Threads)
  BY <1>5, PartOfSum DEF MoveAt
<1> QED
  BY <1>6, <1>7, <1>8, <1>9, <1>10

LEMMA TrackerFacts ==
  ASSUME GateInv, NEW r \in Runs
  PROVE  /\ tracker[r] \in TrackerType
         /\ tracker[r].cost \in Nat /\ tracker[r].resCost \in Nat
         /\ tracker[r].out \in Nat /\ tracker[r].resOut \in Nat
         /\ spent[r] \in Nat /\ lost[r] \in Nat /\ uncounted \in Nat
         /\ durable[r].cost \in Nat /\ durable[r].cost <= tracker[r].cost
         /\ durable[r].out \in Nat /\ durable[r].out <= tracker[r].out
         /\ MaxCostPerRun \in Nat /\ MaxOutputTokens \in Nat
  BY BudgetNumbers DEF GateInv, BudgetShape, RecordsBounded, TrackerType

(* The balance of one run, and of the runs a step leaves alone.            *)
Balanced(r) ==
  /\ tracker[r].cost + tracker[r].resCost <= MaxCostPerRun
  /\ tracker[r].out + tracker[r].resOut <= MaxOutputTokens
  /\ Held(call[r]) <= tracker[r].resCost
  /\ Held(call[r]) <= tracker[r].resOut
  /\ spent[r] + Exposed(call[r]) <= lost[r] + tracker[r].cost + tracker[r].resCost

LEMMA OthersBalanced ==
  ASSUME CeilingInv, NEW r \in Runs, Balanced(r)',
         \A q \in Runs : q # r =>
           /\ tracker'[q].cost = tracker[q].cost /\ tracker'[q].resCost = tracker[q].resCost
           /\ tracker'[q].out = tracker[q].out /\ tracker'[q].resOut = tracker[q].resOut
           /\ call'[q] = call[q] /\ spent'[q] = spent[q] /\ lost'[q] = lost[q]
  PROVE  CeilingInv'
<1> SUFFICES ASSUME NEW q \in Runs PROVE Balanced(q)'
  BY DEF CeilingInv, Balanced
<1>1. Balanced(q)
  BY DEF CeilingInv, Balanced
<1>2. CASE q # r
  BY <1>1, <1>2 DEF Balanced
<1> QED
  BY <1>2

(* A step after which a call holds no more, and may cost no more.          *)
LEMMA CalmCeilings ==
  ASSUME GateInv, CeilingInv, NEW r \in Runs, NEW c \in Threads, NEW own,
         CallMove(call, call', r, c, own), own.charge <= own.cap,
         tracker' = tracker \/ StopsAt(tracker, tracker', r),
         UNCHANGED <<spent, lost>>,
         HeldBy(own) <= HeldBy(call[r][c]), ExposedBy(own) <= ExposedBy(call[r][c])
  PROVE  CeilingInv'
<1>1. \A q \in Runs :
        /\ tracker'[q].out = tracker[q].out /\ tracker'[q].resOut = tracker[q].resOut
        /\ tracker'[q].cost = tracker[q].cost /\ tracker'[q].resCost = tracker[q].resCost
  <2>1. tracker \in [Runs -> TrackerType]
    BY DEF GateInv, BudgetShape
  <2>2. CASE StopsAt(tracker, tracker', r)
    BY <2>1, <2>2, TrackerStopped
  <2>3. CASE tracker' = tracker
    BY <2>3
  <2> QED
    BY <2>2, <2>3
<1>2. \A q \in Runs : q # r => call'[q] = call[q]
  BY CallMoved
<1>3. /\ HeldBy(call[r][c]) \in Nat /\ HeldBy(own) \in Nat
      /\ ExposedBy(call[r][c]) \in Nat /\ ExposedBy(own) \in Nat
      /\ Held(call[r]) \in Nat /\ Held(call'[r]) \in Nat
      /\ Exposed(call[r]) \in Nat /\ Exposed(call'[r]) \in Nat
      /\ Held(call'[r]) + HeldBy(call[r][c]) = Held(call[r]) + HeldBy(own)
      /\ Exposed(call'[r]) + ExposedBy(call[r][c]) = Exposed(call[r]) + ExposedBy(own)
  BY HoldsMove
<1>4. Held(call'[r]) <= Held(call[r]) /\ Exposed(call'[r]) <= Exposed(call[r])
  BY <1>3
<1>5. Balanced(r)
  BY DEF CeilingInv, Balanced
<1>6. Balanced(r)'
  <2>1. spent'[r] = spent[r] /\ lost'[r] = lost[r]
    OBVIOUS
  <2> QED
    BY <1>1, <1>3, <1>4, <1>5, <2>1, TrackerFacts DEF Balanced
<1> QED
  BY <1>1, <1>2, <1>6, OthersBalanced

-----------------------------------------------------------------------------
(* The ceilings of a run: calls that move no books.                        *)

(* A call that only passes from one state to another.                      *)
Passes(old, new, r, c, place) == new = [old EXCEPT ![r][c].pc = place]

LEMMA CallPasses ==
  ASSUME GateInv, NEW r \in Runs, NEW c \in Threads, NEW place \in CallPcs,
         Passes(call, call', r, c, place)
  PROVE  \E own \in CallType :
           /\ CallMove(call, call', r, c, own) /\ own.pc = place
           /\ own.cap = call[r][c].cap /\ own.seq = call[r][c].seq
           /\ own.charge = call[r][c].charge /\ own.how = call[r][c].how
           /\ own.charge <= own.cap
<1> DEFINE own == [call[r][c] EXCEPT !.pc = place]
<1>1. call[r][c] \in CallType /\ call[r][c].charge <= call[r][c].cap
  BY CallFacts
<1>2. /\ own \in CallType /\ own.pc = place
      /\ own.cap = call[r][c].cap /\ own.seq = call[r][c].seq
      /\ own.charge = call[r][c].charge /\ own.how = call[r][c].how
  BY <1>1 DEF CallType
<1>3. call' = [call EXCEPT ![r][c] = own]
  BY DEF Passes
<1> HIDE DEF own
<1>4. CallMove(call, call', r, c, own)
  BY <1>2, <1>3 DEF CallMove, GateInv, BudgetShape
<1> QED
  BY <1>1, <1>2, <1>4

LEMMA EndedCeilings ==
  ASSUME GateInv, CeilingInv, NEW r \in Runs, NEW c \in Threads,
         call' = [call EXCEPT ![r][c] = NoCall],
         tracker' = tracker \/ StopsAt(tracker, tracker', r),
         UNCHANGED <<spent, lost>>
  PROVE  CeilingInv'
<1> DEFINE own == NoCall
<1>1. CallMove(call, call', r, c, own) /\ own.charge <= own.cap
  BY NoCallShape DEF CallMove, GateInv, BudgetShape
<1>2. HeldBy(own) = 0 /\ ExposedBy(own) = 0
  BY DEF NoCall, HeldBy, ExposedBy, Holding
<1> HIDE DEF own
<1>3. HeldBy(call[r][c]) \in Nat /\ ExposedBy(call[r][c]) \in Nat
  BY <1>1, HoldsMove
<1>4. HeldBy(own) <= HeldBy(call[r][c]) /\ ExposedBy(own) <= ExposedBy(call[r][c])
  BY <1>2, <1>3
<1> QED
  BY <1>1, <1>4, CalmCeilings

LEMMA OpenCallCeilings ==
  ASSUME GateInv, CeilingInv, NEW r \in Runs, NEW c \in Threads, NEW requested \in Caps,
         OpenCall(r, c, requested)
  PROVE  CeilingInv'
<1>1. CASE ~Admissible(r, requested)
  <2>1. StopsAt(tracker, tracker', r) /\ UNCHANGED <<call, spent, lost>>
    BY <1>1 DEF OpenCall, StopsAt
  <2>2. CallMove(call, call', r, c, call[r][c])
    <3>1. call[r][c] \in CallType /\ call \in [Runs -> [Threads -> CallType]]
      BY DEF GateInv, BudgetShape
    <3>2. call' = [call EXCEPT ![r][c] = call[r][c]]
      BY <2>1, <3>1
    <3> QED
      BY <3>1, <3>2 DEF CallMove
  <2>3. call[r][c].charge <= call[r][c].cap
    BY CallFacts
  <2> DEFINE own == call[r][c]
  <2>4. CallMove(call, call', r, c, own) /\ own.charge <= own.cap
    BY <2>2, <2>3
  <2>5. HeldBy(own) \in Nat /\ ExposedBy(own) \in Nat
    BY <2>4, HoldsMove
  <2>6. HeldBy(own) <= HeldBy(call[r][c]) /\ ExposedBy(own) <= ExposedBy(call[r][c])
    BY <2>5
  <2> HIDE DEF own
  <2> QED
    BY <2>1, <2>4, <2>6, CalmCeilings
<1>2. CASE Admissible(r, requested)
  <2> DEFINE own == call'[r][c]
  <2>1. GateInv'
    BY OpenCallGate
  <2>2. call \in [Runs -> [Threads -> CallType]] /\ call[r][c].pc = "idle"
    BY DEF GateInv, BudgetShape, OpenCall
  <2>3. /\ call' = [call EXCEPT ![r][c] = [NoCall EXCEPT !.pc = "reserving",
                                                         !.cap = Allowed(r, requested)]]
        /\ UNCHANGED <<tracker, spent, lost>>
    BY <1>2 DEF OpenCall
  <2>4. own = [NoCall EXCEPT !.pc = "reserving", !.cap = Allowed(r, requested)]
    BY <2>2, <2>3
  <2>5. call' = [call EXCEPT ![r][c] = own]
    BY <2>3, <2>4
  <2>6. own \in CallType /\ own.charge <= own.cap /\ own.pc = "reserving"
    <3>1. own \in CallType /\ own.charge <= own.cap
      BY <2>1 DEF GateInv, BudgetShape, NumbersOfCalls
    <3> QED
      BY <2>4, <3>1 DEF NoCall
  <2> HIDE DEF own
  <2>7. CallMove(call, call', r, c, own)
    BY <2>2, <2>5, <2>6 DEF CallMove
  <2>8. HeldBy(own) = 0 /\ ExposedBy(own) = 0
    BY <2>6 DEF HeldBy, ExposedBy, Holding
  <2>9. HeldBy(call[r][c]) \in Nat /\ ExposedBy(call[r][c]) \in Nat
    BY <2>6, <2>7, HoldsMove
  <2>10. HeldBy(own) <= HeldBy(call[r][c]) /\ ExposedBy(own) <= ExposedBy(call[r][c])
    BY <2>8, <2>9
  <2> QED
    BY <2>3, <2>6, <2>7, <2>10, CalmCeilings
<1> QED
  BY <1>1, <1>2

LEMMA ReserveCeilings ==
  ASSUME GateInv, CeilingInv, NEW r \in Runs, NEW c \in Threads, Reserve(r, c)
  PROVE  CeilingInv'
<1> DEFINE seq == tracker[r].calls + 1
           cap == call[r][c].cap
           made == [call[r][c] EXCEPT !.pc = "admitted", !.seq = seq]
<1>1. /\ call[r][c].pc = "reserving" /\ cap \in Nat /\ UNCHANGED <<spent, lost>>
      /\ \/ /\ Admits(tracker, tracker', r, cap)
            /\ CallMove(call, call', r, c, made)
         \/ /\ CallMove(call, call', r, c, NoCall) /\ tracker' = tracker
  BY ReserveMoves
<1>2. CASE CallMove(call, call', r, c, NoCall) /\ tracker' = tracker
  BY <1>1, <1>2, EndedCeilings DEF CallMove
<1>3. CASE Admits(tracker, tracker', r, cap) /\ CallMove(call, call', r, c, made)
  <2>1. /\ call[r][c] \in CallType /\ call[r][c].charge <= cap
        /\ tracker \in [Runs -> TrackerType]
    BY CallFacts DEF GateInv, BudgetShape
  <2>2. made.pc = "admitted" /\ made.cap = cap /\ made.charge <= made.cap
    BY <2>1 DEF CallType
  <2> HIDE DEF made
  <2>3. /\ tracker'[r].out = tracker[r].out /\ tracker'[r].resOut = tracker[r].resOut + cap
        /\ tracker'[r].cost = tracker[r].cost /\ tracker'[r].resCost = tracker[r].resCost + cap
        /\ \A q \in Runs : q # r => tracker'[q] = tracker[q]
    BY <1>1, <1>3, <2>1, TrackerAdmits
  <2>4. /\ HeldBy(call[r][c]) = 0 /\ HeldBy(made) = cap
        /\ ExposedBy(call[r][c]) = 0 /\ ExposedBy(made) = cap
    BY <1>1, <2>2 DEF HeldBy, ExposedBy, Holding
  <2>5. /\ Held(call[r]) \in Nat /\ Held(call'[r]) \in Nat
        /\ Exposed(call[r]) \in Nat /\ Exposed(call'[r]) \in Nat
        /\ Held(call'[r]) + HeldBy(call[r][c]) = Held(call[r]) + HeldBy(made)
        /\ Exposed(call'[r]) + ExposedBy(call[r][c]) = Exposed(call[r]) + ExposedBy(made)
    BY <1>3, <2>2, HoldsMove
  <2>6. Held(call'[r]) = Held(call[r]) + cap /\ Exposed(call'[r]) = Exposed(call[r]) + cap
    BY <1>1, <2>4, <2>5
  <2>7. /\ tracker[r].cost + tracker[r].resCost + cap <= MaxCostPerRun
        /\ tracker[r].out + tracker[r].resOut + cap <= MaxOutputTokens
    BY <1>1 DEF GateInv, ChecksHold
  <2>8. /\ Held(call[r]) <= tracker[r].resCost /\ Held(call[r]) <= tracker[r].resOut
        /\ spent[r] + Exposed(call[r]) <= lost[r] + tracker[r].cost + tracker[r].resCost
    BY DEF CeilingInv
  <2>9. spent'[r] = spent[r] /\ lost'[r] = lost[r]
    BY <1>1
  <2>10. Balanced(r)'
    BY <1>1, <2>3, <2>5, <2>6, <2>7, <2>8, <2>9, TrackerFacts DEF Balanced
  <2>11. \A q \in Runs : q # r => call'[q] = call[q]
    BY <1>3, CallMoved
  <2> QED
    BY <1>1, <2>3, <2>10, <2>11, OthersBalanced
<1> QED
  BY <1>1, <1>2, <1>3

LEMMA AnswerCeilings ==
  ASSUME GateInv, CeilingInv, NEW r \in Runs, NEW c \in Threads, NEW charged, NEW verdict,
         Answer(r, c, charged, verdict)
  PROVE  CeilingInv'
<1>1. PICK own \in CallType :
        /\ CallMove(call, call', r, c, own)
        /\ call[r][c].pc = "sent" /\ own.pc = "answered"
        /\ own.cap = call[r][c].cap /\ own.charge \in Nat /\ own.charge <= own.cap
        /\ charged \in Nat /\ charged <= own.charge
        /\ spent' = [spent EXCEPT ![r] = @ + charged]
  BY AnswerMoves
<1>2. tracker' = tracker /\ lost' = lost
  BY DEF Answer
<1>3. call[r][c].cap \in Nat /\ spent \in [Runs -> Nat]
  BY CallFacts DEF GateInv, BudgetShape
<1>4. spent'[r] = spent[r] + charged /\ \A q \in Runs : q # r => spent'[q] = spent[q]
  BY <1>1, <1>3
<1>5. /\ HeldBy(call[r][c]) = own.cap /\ HeldBy(own) = own.cap
      /\ ExposedBy(call[r][c]) = own.cap /\ ExposedBy(own) = own.cap - own.charge
  BY <1>1 DEF HeldBy, ExposedBy, Holding
<1>6. /\ Held(call[r]) \in Nat /\ Held(call'[r]) \in Nat
      /\ Exposed(call[r]) \in Nat /\ Exposed(call'[r]) \in Nat
      /\ Held(call'[r]) + HeldBy(call[r][c]) = Held(call[r]) + HeldBy(own)
      /\ Exposed(call'[r]) + ExposedBy(call[r][c]) = Exposed(call[r]) + ExposedBy(own)
  BY <1>1, HoldsMove
<1>7. Held(call'[r]) = Held(call[r]) /\ Exposed(call'[r]) + charged <= Exposed(call[r])
  BY <1>1, <1>3, <1>5, <1>6
<1>8. Balanced(r)
  BY DEF CeilingInv, Balanced
<1>9. spent'[r] + Exposed(call'[r]) <= spent[r] + Exposed(call[r])
  BY <1>1, <1>4, <1>6, <1>7, TrackerFacts
<1>10. Balanced(r)'
  BY <1>1, <1>2, <1>4, <1>6, <1>7, <1>8, <1>9, TrackerFacts DEF Balanced
<1>11. \A q \in Runs : q # r => call'[q] = call[q]
  BY <1>1, CallMoved
<1> QED
  BY <1>2, <1>4, <1>10, <1>11, OthersBalanced

LEMMA SettleCallCeilings ==
  ASSUME GateInv, CeilingInv, NEW r \in Runs, NEW c \in Threads, SettleCall(r, c)
  PROVE  CeilingInv'
<1> DEFINE cap == call[r][c].cap
           charge == call[r][c].charge
           new == Settled(tracker[r], cap, charge)
<1>1. /\ call[r][c].pc = "answered"
      /\ Passes(call, call', r, c, "settled")
      /\ tracker' = [tracker EXCEPT ![r] = new] /\ UNCHANGED <<spent, lost>>
  BY DEF SettleCall, Passes
<1>2. PICK own \in CallType : /\ CallMove(call, call', r, c, own) /\ own.pc = "settled"
                              /\ own.charge <= own.cap
  BY <1>1, CallPasses DEF CallPcs
<1>3. cap \in Nat /\ charge \in Nat /\ charge <= cap /\ tracker \in [Runs -> TrackerType]
  BY CallFacts DEF GateInv, BudgetShape
<1>4. /\ new \in TrackerType /\ new.out = tracker[r].out + charge
      /\ new.cost = tracker[r].cost + charge
      /\ new.resOut = Monus(tracker[r].resOut, cap)
      /\ new.resCost = Monus(tracker[r].resCost, cap)
  BY <1>3, SettledTracker
<1> HIDE DEF new
<1>5. tracker'[r] = new /\ \A q \in Runs : q # r => tracker'[q] = tracker[q]
  BY <1>1, <1>3, <1>4
<1>6. /\ HeldBy(call[r][c]) = cap /\ HeldBy(own) = 0
      /\ ExposedBy(call[r][c]) = cap - charge /\ ExposedBy(own) = 0
  BY <1>1, <1>2 DEF HeldBy, ExposedBy, Holding
<1>7. /\ Held(call[r]) \in Nat /\ Held(call'[r]) \in Nat
      /\ Exposed(call[r]) \in Nat /\ Exposed(call'[r]) \in Nat
      /\ HeldBy(call[r][c]) <= Held(call[r])
      /\ Held(call'[r]) + HeldBy(call[r][c]) = Held(call[r]) + HeldBy(own)
      /\ Exposed(call'[r]) + ExposedBy(call[r][c]) = Exposed(call[r]) + ExposedBy(own)
  BY <1>2, HoldsMove
<1>8. Balanced(r)
  BY DEF CeilingInv, Balanced
<1> HIDE DEF cap, charge
<1>9. /\ Held(call'[r]) + cap = Held(call[r]) /\ Exposed(call'[r]) + cap - charge = Exposed(call[r])
      /\ cap <= tracker[r].resCost /\ cap <= tracker[r].resOut
  BY <1>3, <1>6, <1>7, <1>8, TrackerFacts DEF Balanced
<1>10. new.resOut = tracker[r].resOut - cap /\ new.resCost = tracker[r].resCost - cap
  BY <1>3, <1>4, <1>9, TrackerFacts DEF Monus
<1>11. Balanced(r)'
  BY <1>1, <1>3, <1>4, <1>5, <1>7, <1>8, <1>9, <1>10, TrackerFacts DEF Balanced
<1>12. \A q \in Runs : q # r => call'[q] = call[q]
  BY <1>2, CallMoved
<1> QED
  BY <1>1, <1>5, <1>11, <1>12, OthersBalanced

LEMMA CrashCeilings ==
  ASSUME GateInv, CeilingInv, NEW r \in Runs, NEW charged \in SUBSET ThreadsOf[r],
         NEW kept \in BOOLEAN, Crash(r, charged, kept)
  PROVE  CeilingInv'
<1> DEFINE f == CapsOf(call[r], charged)
           e == [c \in Threads |-> ExposedBy(call[r][c])]
           h == [c \in Threads |-> HeldBy(call'[r][c])]
           x == [c \in Threads |-> ExposedBy(call'[r][c])]
<1>1. /\ charged \in SUBSET Threads /\ \A c \in charged : call[r][c].pc = "sent"
      /\ tracker'[r].out = durable[r].out /\ tracker'[r].cost = durable[r].cost
      /\ tracker'[r].resOut = 0 /\ tracker'[r].resCost = 0
      /\ \A c \in Threads : call'[r][c] = NoCall
      /\ spent'[r] = spent[r] + Sum(f, charged)
      /\ lost'[r] = lost[r] + tracker[r].cost + tracker[r].resCost - durable[r].cost
      /\ \A q \in Runs : q # r =>
           /\ tracker'[q] = tracker[q] /\ call'[q] = call[q] /\ spent'[q] = spent[q]
           /\ lost'[q] = lost[q]
  <2>1. Dies(r, charged)
    BY CrashMoves
  <2> HIDE DEF f
  <2>2. Sum(f, charged) = Sum(CapsOf(call[r], charged), charged)
    BY DEF f
  <2> QED
    BY <2>1, <2>2 DEF Dies
<1>2. Summable(f, charged) /\ Sum(f, charged) \in Nat
  BY <1>1, ChargedSum
<1>3. Summable(e, Threads)
  <2>1. \A c \in Threads : ExposedBy(call[r][c]) \in Nat
    <3> TAKE c \in Threads
    <3>1. /\ call[r][c].cap \in Nat /\ call[r][c].charge \in Nat
          /\ call[r][c].charge <= call[r][c].cap
      BY CallFacts
    <3> QED
      BY <3>1 DEF ExposedBy
  <2> QED
    BY <2>1, BudgetNumbers DEF Summable
<1>4. \A c \in charged : f[c] <= e[c]
  <2> TAKE c \in charged
  <2>1. c \in Threads /\ call[r][c].pc = "sent" /\ call[r][c].cap \in Nat
    BY <1>1, CallFacts
  <2>2. f[c] = call[r][c].cap /\ e[c] = call[r][c].cap
    BY <2>1 DEF ExposedBy, CapsOf
  <2> QED
    BY <2>1, <2>2
<1>5. \A c \in Threads : h[c] = 0 /\ x[c] = 0
  BY <1>1 DEF NoCall, HeldBy, ExposedBy, Holding
<1>6. /\ Exposed(call[r]) = Sum(e, Threads) /\ Held(call'[r]) = Sum(h, Threads)
      /\ Exposed(call'[r]) = Sum(x, Threads)
  BY DEF Exposed, Held
<1> HIDE DEF f, e, h, x
<1>7. Sum(f, charged) <= Sum(e, Threads) /\ Sum(e, Threads) \in Nat
  BY <1>1, <1>2, <1>3, <1>4, SumGrows, SumType
<1>8. Sum(h, Threads) = 0 /\ Sum(x, Threads) = 0
  BY <1>5, SumOfZeros, BudgetNumbers
<1>9. Balanced(r)
  BY DEF CeilingInv, Balanced
<1>10. Balanced(r)'
  BY <1>1, <1>2, <1>6, <1>7, <1>8, <1>9, TrackerFacts DEF Balanced
<1> QED
  BY <1>1, <1>10, OthersBalanced

LEMMA PassingCeilings ==
  ASSUME GateInv, CeilingInv, NEW r \in Runs, NEW c \in Threads, NEW place \in CallPcs,
         Passes(call, call', r, c, place), tracker' = tracker, UNCHANGED <<spent, lost>>,
         \/ call[r][c].pc \in {"admitted", "recording"} /\ place \in {"recording", "sent"}
         \/ call[r][c].pc = "settled" /\ place = "charged"
  PROVE  CeilingInv'
<1>1. PICK own \in CallType :
        /\ CallMove(call, call', r, c, own) /\ own.pc = place
        /\ own.cap = call[r][c].cap /\ own.charge <= own.cap
  BY CallPasses
<1>2. HeldBy(own) = HeldBy(call[r][c]) /\ ExposedBy(own) = ExposedBy(call[r][c])
  BY <1>1 DEF HeldBy, ExposedBy, Holding
<1>3. HeldBy(own) \in Nat /\ ExposedBy(own) \in Nat
  BY <1>1, HoldsMove
<1>4. HeldBy(own) <= HeldBy(call[r][c]) /\ ExposedBy(own) <= ExposedBy(call[r][c])
  BY <1>2, <1>3
<1> QED
  BY <1>1, <1>4, CalmCeilings

-----------------------------------------------------------------------------
(* The ceilings of a run, step by step.                                    *)

LEMMA CeilingsInitially ==
  ASSUME BudgetInit
  PROVE  CeilingInv
<1> SUFFICES ASSUME NEW r \in Runs PROVE Balanced(r)
  BY DEF CeilingInv, Balanced
<1> DEFINE h == [c \in Threads |-> HeldBy(call[r][c])]
           x == [c \in Threads |-> ExposedBy(call[r][c])]
<1>1. /\ tracker[r] = FreshTracker /\ \A c \in Threads : call[r][c] = NoCall
      /\ spent[r] = 0 /\ lost[r] = 0
  BY DEF BudgetInit
<1>2. \A c \in Threads : h[c] = 0 /\ x[c] = 0
  BY <1>1 DEF NoCall, HeldBy, ExposedBy, Holding
<1>3. Held(call[r]) = Sum(h, Threads) /\ Exposed(call[r]) = Sum(x, Threads)
  BY DEF Held, Exposed
<1> HIDE DEF h, x
<1>4. Sum(h, Threads) = 0 /\ Sum(x, Threads) = 0
  BY <1>2, SumOfZeros, BudgetNumbers
<1> QED
  BY <1>1, <1>3, <1>4, BudgetNumbers DEF Balanced, FreshTracker

LEMMA CeilingStep ==
  ASSUME GateInv, CeilingInv, [BudgetNext]_budgetVars
  PROVE  CeilingInv'
<1>1. CASE UNCHANGED budgetVars
  BY <1>1 DEF budgetVars, CeilingInv
<1>2. CASE BudgetNext
  <2>1. PICK r \in Runs :
          \/ \E c \in ThreadsOf[r] : CallNext(r, c)
          \/ RailTrips(r)
          \/ \E charged \in SUBSET ThreadsOf[r] : \E kept \in BOOLEAN : Crash(r, charged, kept)
    BY <1>2 DEF BudgetNext
  <2>2. CASE RailTrips(r)
    <3>1. StopsAt(tracker, tracker', r) /\ tracker \in [Runs -> TrackerType]
      BY <2>2 DEF RailTrips, StopsAt, GateInv, BudgetShape
    <3>2. \A q \in Runs :
            /\ tracker'[q].out = tracker[q].out /\ tracker'[q].resOut = tracker[q].resOut
            /\ tracker'[q].cost = tracker[q].cost /\ tracker'[q].resCost = tracker[q].resCost
      BY <3>1, TrackerStopped
    <3>3. UNCHANGED <<call, spent, lost>>
      BY <2>2 DEF RailTrips
    <3> QED
      BY <3>2, <3>3 DEF CeilingInv
  <2>3. CASE \E charged \in SUBSET ThreadsOf[r] : \E kept \in BOOLEAN : Crash(r, charged, kept)
    BY <2>3, CrashCeilings
  <2>4. ASSUME NEW c \in ThreadsOf[r], CallNext(r, c)
        PROVE  CeilingInv'
    <3>1. c \in Threads
      BY BudgetNumbers
    <3>2. CASE \E requested \in Caps : OpenCall(r, c, requested)
      BY <3>1, <3>2, OpenCallCeilings
    <3>3. CASE Reserve(r, c)
      BY <3>1, <3>3, ReserveCeilings
    <3>4. CASE LedgerReserved(r, c)
      <4>1. Passes(call, call', r, c, "recording") /\ call[r][c].pc = "admitted"
            /\ tracker' = tracker /\ UNCHANGED <<spent, lost>>
        BY <3>4 DEF LedgerReserved, Passes
      <4> QED
        BY <3>1, <4>1, PassingCeilings DEF CallPcs
    <3>5. CASE RecordAdmission(r, c)
      <4>1. Passes(call, call', r, c, "sent") /\ call[r][c].pc = "recording"
            /\ tracker' = tracker /\ UNCHANGED <<spent, lost>>
        BY <3>5 DEF RecordAdmission, Passes
      <4> QED
        BY <3>1, <4>1, PassingCeilings DEF CallPcs
    <3>6. CASE AdmissionWriteFails(r, c)
      BY <3>1, <3>6, EndedCeilings DEF AdmissionWriteFails
    <3>7. CASE \E charged \in 0 .. call[r][c].cap :
                 \E verdict \in Verdicts(call[r][c].cap, charged) : Answer(r, c, charged, verdict)
      BY <3>1, <3>7, AnswerCeilings
    <3>8. CASE SettleCall(r, c)
      BY <3>1, <3>8, SettleCallCeilings
    <3>9. CASE SettlementFails(r, c)
      <4>1. StopsAt(tracker, tracker', r) /\ call' = [call EXCEPT ![r][c] = NoCall]
            /\ UNCHANGED <<spent, lost>>
        BY <3>9 DEF SettlementFails, StopsAt
      <4> QED
        BY <3>1, <4>1, EndedCeilings
    <3>10. CASE LedgerSettled(r, c)
      <4>1. Passes(call, call', r, c, "charged") /\ call[r][c].pc = "settled"
            /\ tracker' = tracker /\ UNCHANGED <<spent, lost>>
        BY <3>10 DEF LedgerSettled, Passes
      <4> QED
        BY <3>1, <4>1, PassingCeilings DEF CallPcs
    <3>11. CASE RecordSettlement(r, c)
      BY <3>1, <3>11, EndedCeilings DEF RecordSettlement
    <3>12. CASE SettlementWriteFails(r, c)
      BY <3>1, <3>12, EndedCeilings DEF SettlementWriteFails
    <3> QED
      BY <2>4, <3>2, <3>3, <3>4, <3>5, <3>6, <3>7, <3>8, <3>9, <3>10, <3>11, <3>12
         DEF CallNext
  <2> QED
    BY <2>1, <2>2, <2>3, <2>4
<1> QED
  BY <1>1, <1>2

(* open_call reserves what a call may cost before it admits the call, and  *)
(* settle_call gives back no more than the call held: the ceilings of a    *)
(* run hold however many calls are in flight, but for what its dead        *)
(* processes held when they died.                                          *)
THEOREM RunCeilingsHold == BudgetSpec => []RunCeilings
<1>1. BudgetInit => GateInv /\ CeilingInv
  BY GateInitially, CeilingsInitially
<1>2. GateInv /\ CeilingInv /\ [BudgetNext]_budgetVars => (GateInv /\ CeilingInv)'
  BY GateStep, CeilingStep
<1>3. GateInv /\ CeilingInv => RunCeilings
  <2> SUFFICES ASSUME GateInv, CeilingInv, NEW r \in Runs
               PROVE  /\ tracker[r].cost + tracker[r].resCost <= MaxCostPerRun
                      /\ tracker[r].out + tracker[r].resOut <= MaxOutputTokens
                      /\ spent[r] <= MaxCostPerRun + lost[r]
    BY DEF RunCeilings
  <2>1. /\ tracker[r].cost + tracker[r].resCost <= MaxCostPerRun
        /\ tracker[r].out + tracker[r].resOut <= MaxOutputTokens
        /\ spent[r] + Exposed(call[r]) <= lost[r] + tracker[r].cost + tracker[r].resCost
    BY DEF CeilingInv
  <2>2. Exposed(call[r]) \in Nat
    <3> DEFINE x == [c \in Threads |-> ExposedBy(call[r][c])]
    <3>1. \A c \in Threads : ExposedBy(call[r][c]) \in Nat
      <4> TAKE c \in Threads
      <4>1. /\ call[r][c].cap \in Nat /\ call[r][c].charge \in Nat
            /\ call[r][c].charge <= call[r][c].cap
        BY CallFacts
      <4> QED
        BY <4>1 DEF ExposedBy
    <3>2. Summable(x, Threads)
      BY <3>1, BudgetNumbers DEF Summable
    <3> HIDE DEF x
    <3> QED
      BY <3>2, SumType DEF Exposed, x
  <2> QED
    BY <2>1, <2>2, TrackerFacts
<1> QED
  BY <1>1, <1>2, <1>3, PTL DEF BudgetSpec

-----------------------------------------------------------------------------
(* What a day owes.                                                        *)

LEMMA BookedShape ==
  ASSUME NEW row \in RowType
  PROVE  /\ Booked(row) \in Nat /\ Covered(row) \in Nat /\ Covered(row) <= Booked(row)
         /\ row.status = "reserved" => Booked(row) = row.est
         /\ row.status = "settled" => /\ Booked(row) <= row.est /\ Booked(row) <= row.actual
                                      /\ Booked(row) \in {row.est, row.actual}
         /\ row.status \in {"absent", "released", "rejected"} => Booked(row) = 0
         /\ row.uses = 0 /\ row.status # "settled" => Covered(row) = 0
         /\ row.uses = 1 => Covered(row) = Booked(row)
<1>1. row.est \in Nat /\ row.actual \in Nat /\ row.status \in RowStates /\ row.uses \in Nat
  BY DEF RowType
<1>2. /\ Min({row.est, row.actual}) \in {row.est, row.actual} /\ Min({row.est, row.actual}) \in Nat
      /\ Min({row.est, row.actual}) <= row.est /\ Min({row.est, row.actual}) <= row.actual
  <2>1. row.est \in Int /\ row.actual \in Int
    BY <1>1
  <2> QED
    BY <1>1, <2>1, LeastOfTwo
<1> QED
  BY <1>1, <1>2 DEF Booked, Covered, RowStates

LEMMA MonusShape ==
  ASSUME NEW m \in Nat, NEW n \in Nat
  PROVE  Monus(m, n) \in Nat /\ m <= n + Monus(m, n)
  BY DEF Monus

(* What a call owes is a number.                                           *)
LEMMA OwedShape ==
  ASSUME GateInv, NEW r \in Runs, NEW c \in Threads
  PROVE  Owed(r, c) \in Nat
<1> DEFINE own == call[r][c]
           est == rows[RowKey(r, own.seq)].est
<1>1. own.cap \in Nat /\ own.charge \in Nat /\ own.charge <= own.cap
  BY CallFacts
<1>2. own.pc \in Opening \/ own.pc \in {"sent", "answered"} => est \in Nat
  <2>1. own.pc \in Opening \/ own.pc \in {"sent", "answered"} => own.pc \in Numbered
    BY DEF Opening, Numbered, Holding
  <2>2. own.pc \in Numbered => RowKey(r, own.seq) \in RowKeys
    BY CallFacts
  <2> QED
    BY <2>1, <2>2 DEF GateInv, BudgetShape, RowType
<1> HIDE DEF own, est
<1>3. OwedBy(own, est) \in Nat
  <2>1. CASE own.pc \in Opening \/ own.pc \in {"sent", "answered"}
    <3>1. est \in Nat /\ Monus(own.cap, est) \in Nat /\ own.cap <= est + Monus(own.cap, est)
      BY <1>1, <1>2, <2>1, MonusShape
    <3> QED
      BY <1>1, <3>1 DEF OwedBy
  <2>2. CASE ~(own.pc \in Opening \/ own.pc \in {"sent", "answered"})
    BY <2>2 DEF OwedBy
  <2> QED
    BY <2>1, <2>2
<1> QED
  BY <1>3 DEF Owed, own, est

(* What every run was charged, or still may be.                            *)
ChargesTyped ==
  /\ Summable(Charges, Runs)
  /\ \A r \in Runs : /\ Summable(OwedOf(r), Threads) /\ Sum(OwedOf(r), Threads) \in Nat
                     /\ \A c \in Threads : OwedOf(r)[c] = Owed(r, c) /\ Owed(r, c) \in Nat
                     /\ spent[r] \in Nat /\ Charges[r] = spent[r] + Sum(OwedOf(r), Threads)

LEMMA ChargesShape == GateInv => ChargesTyped
<1> SUFFICES ASSUME GateInv PROVE ChargesTyped
  OBVIOUS
<1>1. ASSUME NEW r \in Runs
      PROVE  /\ Summable(OwedOf(r), Threads) /\ Sum(OwedOf(r), Threads) \in Nat
             /\ \A c \in Threads : OwedOf(r)[c] = Owed(r, c) /\ Owed(r, c) \in Nat
             /\ spent[r] \in Nat /\ Charges[r] = spent[r] + Sum(OwedOf(r), Threads)
  <2>1. \A c \in Threads : OwedOf(r)[c] = Owed(r, c) /\ Owed(r, c) \in Nat
    BY OwedShape DEF OwedOf
  <2>2. Summable(OwedOf(r), Threads)
    BY <2>1, BudgetNumbers DEF Summable
  <2>3. Charges[r] = spent[r] + Sum(OwedOf(r), Threads)
    BY DEF Charges
  <2>4. spent[r] \in Nat
    BY DEF GateInv, BudgetShape
  <2>5. Sum(OwedOf(r), Threads) \in Nat
    BY <2>2, SumType
  <2> QED
    BY <2>1, <2>2, <2>3, <2>4, <2>5
<1>2. ASSUME NEW r \in Runs
      PROVE  Charges[r] \in Nat
  <2>1. /\ Sum(OwedOf(r), Threads) \in Nat /\ spent[r] \in Nat
        /\ Charges[r] = spent[r] + Sum(OwedOf(r), Threads)
    BY <1>1
  <2> QED
    BY <2>1
<1> QED
  BY <1>1, <1>2, BudgetNumbers DEF Summable, ChargesTyped

LEMMA ChargesShapeNext ==
  ASSUME GateInv'
  PROVE  ChargesTyped'
  BY ChargesShape, PTL

(* One call moves, and what its run was charged.                           *)
LEMMA ChargesMove ==
  ASSUME GateInv, GateInv', NEW r \in Runs, NEW c \in Threads,
         \A q \in Runs, d \in Threads : (q # r \/ d # c) => Owed(q, d)' = Owed(q, d),
         \A q \in Runs : q # r => spent'[q] = spent[q]
  PROVE  /\ Sum(Charges, Runs) \in Nat /\ Sum(Charges, Runs)' \in Nat
         /\ spent[r] \in Nat /\ spent'[r] \in Nat
         /\ Owed(r, c) \in Nat /\ Owed(r, c)' \in Nat
         /\ Sum(Charges, Runs)' + spent[r] + Owed(r, c)
              = Sum(Charges, Runs) + spent'[r] + Owed(r, c)'
<1> DEFINE o == OwedOf(r)
           n == OwedOf(r)'
           p == Charges
           s == Charges'
<1>1. ChargesTyped /\ ChargesTyped'
  BY ChargesShape, ChargesShapeNext
<1>2. /\ Summable(p, Runs) /\ Summable(o, Threads) /\ spent[r] \in Nat
      /\ p[r] = spent[r] + Sum(o, Threads)
      /\ \A d \in Threads : o[d] = Owed(r, d)
      /\ \A q \in Runs : p[q] = spent[q] + Sum(OwedOf(q), Threads)
  BY <1>1 DEF ChargesTyped
<1>3. /\ Summable(s, Runs) /\ Summable(n, Threads) /\ spent'[r] \in Nat
      /\ s[r] = spent'[r] + Sum(n, Threads)
      /\ \A d \in Threads : n[d] = Owed(r, d)'
      /\ \A q \in Runs : s[q] = spent'[q] + Sum(OwedOf(q)', Threads)
  BY <1>1 DEF ChargesTyped, Sum
<1>4. MoveAt(o, n, Threads, c) /\ o[c] = Owed(r, c) /\ n[c] = Owed(r, c)'
  BY <1>2, <1>3 DEF MoveAt
<1>5. ASSUME NEW q \in Runs, q # r
      PROVE  s[q] = p[q]
  <2>1. OwedOf(q)' = OwedOf(q)
    BY <1>5 DEF OwedOf
  <2>2. spent'[q] = spent[q]
    BY <1>5
  <2> QED
    BY <1>2, <1>3, <2>1, <2>2
<1>6. MoveAt(p, s, Runs, r)
  BY <1>2, <1>3, <1>5 DEF MoveAt
<1>7. Sum(Charges, Runs) = Sum(p, Runs) /\ Sum(Charges, Runs)' = Sum(s, Runs)
  BY DEF Sum
<1> HIDE DEF o, n, p, s
<1>8. /\ Sum(o, Threads) \in Nat /\ Sum(n, Threads) \in Nat /\ o[c] \in Nat /\ n[c] \in Nat
      /\ Sum(n, Threads) + o[c] = Sum(o, Threads) + n[c]
  BY <1>4, SumMoves
<1>9. /\ Sum(p, Runs) \in Nat /\ Sum(s, Runs) \in Nat /\ p[r] \in Nat /\ s[r] \in Nat
      /\ Sum(s, Runs) + p[r] = Sum(p, Runs) + s[r]
  BY <1>6, SumMoves
<1>10. Sum(s, Runs) + spent[r] + o[c] = Sum(p, Runs) + spent'[r] + n[c]
  BY <1>2, <1>3, <1>8, <1>9
<1> QED
  BY <1>2, <1>3, <1>4, <1>7, <1>8, <1>9, <1>10

-----------------------------------------------------------------------------
(* A day on which a row changes.                                           *)

(* What the other calls owe, when the rows they are charged to keep their  *)
(* estimates.                                                              *)
LEMMA OthersOwe ==
  ASSUME GateInv, NEW r \in Runs, NEW c \in Threads, NEW own,
         CallMove(call, call', r, c, own), attempt' = attempt,
         \A m \in RowKeys : rows[m].status = "reserved" \/ rows[m].uses > 0
                              => rows'[m].est = rows[m].est
  PROVE  /\ \A q \in Runs, d \in Threads : (q # r \/ d # c) => Owed(q, d)' = Owed(q, d)
         /\ Owed(r, c)' = OwedBy(own, rows'[RowKey(r, own.seq)].est)
         /\ Owed(r, c) = OwedBy(call[r][c], rows[RowKey(r, call[r][c].seq)].est)
<1>1. /\ call'[r][c] = own
      /\ \A q \in Runs, d \in Threads : (q # r \/ d # c) => call'[q][d] = call[q][d]
  BY CallMoved
<1>2. ASSUME NEW q \in Runs, NEW d \in Threads, q # r \/ d # c
      PROVE  Owed(q, d)' = Owed(q, d)
  <2> DEFINE one == call[q][d]
             m == RowKey(q, one.seq)
  <2>1. call'[q][d] = one
    BY <1>1, <1>2
  <2>2. Owed(q, d)' = OwedBy(one, rows'[m].est) /\ Owed(q, d) = OwedBy(one, rows[m].est)
    BY <2>1 DEF Owed, RowKey
  <2>3. CASE one.pc \in Opening \/ one.pc \in {"sent", "answered"}
    <3>1. one.pc \in Numbered
      BY <2>3 DEF Opening, Numbered, Holding
    <3>2. m \in RowKeys /\ (rows[m].status = "reserved" \/ rows[m].uses = 1)
      BY <2>3, <3>1, CallFacts
    <3> HIDE DEF m, one
    <3> QED
      BY <2>2, <3>2
  <2>4. CASE ~(one.pc \in Opening \/ one.pc \in {"sent", "answered"})
    <3> HIDE DEF m, one
    <3> QED
      BY <2>2, <2>4 DEF OwedBy
  <2> QED
    BY <2>3, <2>4
<1>3. Owed(r, c)' = OwedBy(own, rows'[RowKey(r, own.seq)].est)
  BY <1>1 DEF Owed, RowKey
<1> QED
  BY <1>2, <1>3 DEF Owed

(* The rows' two sums.                                                     *)
RowsTyped ==
  /\ rows \in [RowKeys -> RowType]
  /\ Summable(BookedRows, RowKeys) /\ Summable(CoveredRows, RowKeys)
  /\ Sum(BookedRows, RowKeys) \in Nat /\ Sum(CoveredRows, RowKeys) \in Nat
  /\ uncounted \in Nat
  /\ \A k \in RowKeys : BookedRows[k] = Booked(rows[k]) /\ CoveredRows[k] = Covered(rows[k])

LEMMA RowsShape == GateInv => RowsTyped
<1> SUFFICES ASSUME GateInv PROVE RowsTyped
  OBVIOUS
<1>1. rows \in [RowKeys -> RowType] /\ uncounted \in Nat
  BY DEF GateInv, BudgetShape
<1>2. \A k \in RowKeys :
        /\ BookedRows[k] = Booked(rows[k]) /\ CoveredRows[k] = Covered(rows[k])
        /\ BookedRows[k] \in Nat /\ CoveredRows[k] \in Nat
  BY <1>1, BookedShape DEF BookedRows, CoveredRows
<1>3. Summable(BookedRows, RowKeys) /\ Summable(CoveredRows, RowKeys)
  BY <1>2, RowKeysFinite DEF Summable
<1> QED
  BY <1>1, <1>2, <1>3, SumType DEF RowsTyped

LEMMA RowsShapeNext ==
  ASSUME GateInv'
  PROVE  RowsTyped'
  BY RowsShape, PTL

LEMMA RowsMove ==
  ASSUME GateInv, GateInv', NEW k \in RowKeys,
         \A m \in RowKeys : m # k => rows'[m] = rows[m]
  PROVE  /\ rows[k] \in RowType /\ rows'[k] \in RowType
         /\ Booked(rows[k]) \in Nat /\ Booked(rows'[k]) \in Nat
         /\ Covered(rows[k]) \in Nat /\ Covered(rows'[k]) \in Nat
         /\ Sum(BookedRows, RowKeys) \in Nat /\ Sum(BookedRows, RowKeys)' \in Nat
         /\ Sum(CoveredRows, RowKeys) \in Nat /\ Sum(CoveredRows, RowKeys)' \in Nat
         /\ Sum(BookedRows, RowKeys)' + Booked(rows[k])
              = Sum(BookedRows, RowKeys) + Booked(rows'[k])
         /\ Sum(CoveredRows, RowKeys)' + Covered(rows[k])
              = Sum(CoveredRows, RowKeys) + Covered(rows'[k])
<1> DEFINE b == BookedRows
           c == CoveredRows
           d == BookedRows'
           e == CoveredRows'
<1>1. RowsTyped /\ RowsTyped'
  BY RowsShape, RowsShapeNext
<1>2. /\ rows \in [RowKeys -> RowType] /\ Summable(b, RowKeys) /\ Summable(c, RowKeys)
      /\ \A m \in RowKeys : b[m] = Booked(rows[m]) /\ c[m] = Covered(rows[m])
  BY <1>1 DEF RowsTyped
<1>3. /\ rows' \in [RowKeys -> RowType] /\ Summable(d, RowKeys) /\ Summable(e, RowKeys)
      /\ \A m \in RowKeys : d[m] = Booked(rows'[m]) /\ e[m] = Covered(rows'[m])
  BY <1>1 DEF RowsTyped
<1>4. MoveAt(b, d, RowKeys, k) /\ MoveAt(c, e, RowKeys, k)
  BY <1>2, <1>3 DEF MoveAt
<1>5. /\ Sum(BookedRows, RowKeys) = Sum(b, RowKeys) /\ Sum(BookedRows, RowKeys)' = Sum(d, RowKeys)
      /\ Sum(CoveredRows, RowKeys) = Sum(c, RowKeys)
      /\ Sum(CoveredRows, RowKeys)' = Sum(e, RowKeys)
  BY DEF Sum
<1> HIDE DEF b, c, d, e
<1>6. /\ Sum(b, RowKeys) \in Nat /\ Sum(d, RowKeys) \in Nat /\ b[k] \in Nat /\ d[k] \in Nat
      /\ Sum(d, RowKeys) + b[k] = Sum(b, RowKeys) + d[k]
  BY <1>4, SumMoves
<1>7. /\ Sum(c, RowKeys) \in Nat /\ Sum(e, RowKeys) \in Nat /\ c[k] \in Nat /\ e[k] \in Nat
      /\ Sum(e, RowKeys) + c[k] = Sum(c, RowKeys) + e[k]
  BY <1>4, SumMoves
<1> QED
  BY <1>2, <1>3, <1>5, <1>6, <1>7

(* A step of one call that changes no row.                                 *)
LEMMA QuietDay ==
  ASSUME GateInv, GateInv', DayInv, NEW r \in Runs, NEW c \in Threads, NEW own,
         CallMove(call, call', r, c, own), UNCHANGED <<attempt, rows>>,
         \A q \in Runs : q # r => spent'[q] = spent[q],
         spent'[r] + OwedBy(own, rows[RowKey(r, own.seq)].est) + uncounted
           <= spent[r] + OwedBy(call[r][c], rows[RowKey(r, call[r][c].seq)].est) + uncounted'
  PROVE  DayInv'
<1>1. /\ \A q \in Runs, d \in Threads : (q # r \/ d # c) => Owed(q, d)' = Owed(q, d)
      /\ Owed(r, c)' = OwedBy(own, rows'[RowKey(r, own.seq)].est)
      /\ Owed(r, c) = OwedBy(call[r][c], rows[RowKey(r, call[r][c].seq)].est)
  BY OthersOwe
<1>2. /\ Sum(Charges, Runs) \in Nat /\ Sum(Charges, Runs)' \in Nat
      /\ spent[r] \in Nat /\ spent'[r] \in Nat
      /\ Owed(r, c) \in Nat /\ Owed(r, c)' \in Nat
      /\ Sum(Charges, Runs)' + spent[r] + Owed(r, c)
           = Sum(Charges, Runs) + spent'[r] + Owed(r, c)'
  BY <1>1, ChargesMove
<1>3. /\ Sum(BookedRows, RowKeys)' = Sum(BookedRows, RowKeys)
      /\ Sum(CoveredRows, RowKeys)' = Sum(CoveredRows, RowKeys)
  BY DEF BookedRows, CoveredRows, Sum
<1>4. spent'[r] + Owed(r, c)' + uncounted <= spent[r] + Owed(r, c) + uncounted'
  BY <1>1
<1>5. uncounted \in Nat /\ uncounted' \in Nat /\ Sum(CoveredRows, RowKeys) \in Nat
  BY RowsShape, RowsShapeNext DEF RowsTyped
<1>6. Sum(Charges, Runs) <= Sum(CoveredRows, RowKeys) + uncounted
      /\ Sum(BookedRows, RowKeys) <= DailyBudget
  BY DEF DayInv
<1>7. Sum(Charges, Runs)' <= Sum(CoveredRows, RowKeys) + uncounted'
  BY <1>2, <1>4, <1>5, <1>6
<1> QED
  BY <1>3, <1>6, <1>7 DEF DayInv

(* A step of one call that changes one row.                                *)
LEMMA RowDay ==
  ASSUME GateInv, GateInv', DayInv, NEW r \in Runs, NEW c \in Threads, NEW own,
         CallMove(call, call', r, c, own), attempt' = attempt,
         \A q \in Runs : q # r => spent'[q] = spent[q],
         NEW k \in RowKeys, \A m \in RowKeys : m # k => rows'[m] = rows[m],
         rows[k].status = "reserved" \/ rows[k].uses > 0 => rows'[k].est = rows[k].est,
         Sum(BookedRows, RowKeys)' <= DailyBudget,
         spent'[r] + OwedBy(own, rows'[RowKey(r, own.seq)].est) + Covered(rows[k]) + uncounted
           <= spent[r] + OwedBy(call[r][c], rows[RowKey(r, call[r][c].seq)].est)
                + Covered(rows'[k]) + uncounted'
  PROVE  DayInv'
<1>1. /\ \A q \in Runs, d \in Threads : (q # r \/ d # c) => Owed(q, d)' = Owed(q, d)
      /\ Owed(r, c)' = OwedBy(own, rows'[RowKey(r, own.seq)].est)
      /\ Owed(r, c) = OwedBy(call[r][c], rows[RowKey(r, call[r][c].seq)].est)
  <2>1. \A m \in RowKeys : rows[m].status = "reserved" \/ rows[m].uses > 0
                             => rows'[m].est = rows[m].est
    OBVIOUS
  <2> QED
    BY <2>1, OthersOwe
<1>2. /\ Sum(Charges, Runs) \in Nat /\ Sum(Charges, Runs)' \in Nat
      /\ spent[r] \in Nat /\ spent'[r] \in Nat
      /\ Owed(r, c) \in Nat /\ Owed(r, c)' \in Nat
      /\ Sum(Charges, Runs)' + spent[r] + Owed(r, c)
           = Sum(Charges, Runs) + spent'[r] + Owed(r, c)'
  BY <1>1, ChargesMove
<1>3. /\ Covered(rows[k]) \in Nat /\ Covered(rows'[k]) \in Nat
      /\ Sum(CoveredRows, RowKeys) \in Nat /\ Sum(CoveredRows, RowKeys)' \in Nat
      /\ Sum(CoveredRows, RowKeys)' + Covered(rows[k])
           = Sum(CoveredRows, RowKeys) + Covered(rows'[k])
  BY RowsMove
<1>4. spent'[r] + Owed(r, c)' + Covered(rows[k]) + uncounted
        <= spent[r] + Owed(r, c) + Covered(rows'[k]) + uncounted'
  BY <1>1
<1>5. uncounted \in Nat /\ uncounted' \in Nat
  BY RowsShape, RowsShapeNext DEF RowsTyped
<1>6. Sum(Charges, Runs) <= Sum(CoveredRows, RowKeys) + uncounted
  BY DEF DayInv
<1>7. Sum(Charges, Runs)' <= Sum(CoveredRows, RowKeys)' + uncounted'
  BY <1>2, <1>3, <1>4, <1>5, <1>6
<1> QED
  BY <1>7 DEF DayInv

-----------------------------------------------------------------------------
(* A day on which a call goes on.                                          *)

(* The database's sum counts at least what the rows book.                  *)
LEMMA CommittedShape ==
  ASSUME GateInv
  PROVE  Committed \in Nat /\ Sum(BookedRows, RowKeys) <= Committed
<1>1. RowsTyped
  BY RowsShape
<1>2. \A k \in RowKeys : CommittedBy[k] \in Nat /\ BookedRows[k] <= CommittedBy[k]
  <2> TAKE k \in RowKeys
  <2>1. rows[k] \in RowType /\ BookedRows[k] = Booked(rows[k])
    BY <1>1 DEF RowsTyped
  <2>2. CommittedBy[k] = IF rows[k].status = "settled" THEN rows[k].actual
                         ELSE IF rows[k].status = "reserved" THEN rows[k].est ELSE 0
    BY DEF CommittedBy
  <2>3. rows[k].est \in Nat /\ rows[k].actual \in Nat /\ rows[k].status \in RowStates
    BY <2>1 DEF RowType
  <2>4. /\ Booked(rows[k]) \in Nat
        /\ rows[k].status = "reserved" => Booked(rows[k]) = rows[k].est
        /\ rows[k].status = "settled" => Booked(rows[k]) <= rows[k].actual
        /\ rows[k].status \in {"absent", "released", "rejected"} => Booked(rows[k]) = 0
    BY <2>1, BookedShape
  <2> QED
    BY <2>1, <2>2, <2>3, <2>4 DEF RowStates
<1>3. Summable(CommittedBy, RowKeys) /\ Summable(BookedRows, RowKeys)
  BY <1>1, <1>2, RowKeysFinite DEF Summable, RowsTyped
<1>4. Sum(BookedRows, RowKeys) <= Sum(CommittedBy, RowKeys) /\ Sum(CommittedBy, RowKeys) \in Nat
  BY <1>2, <1>3, SumGrows, SumType
<1> QED
  BY <1>4 DEF Committed, Sum

LEMMA EndedDay ==
  ASSUME GateInv, GateInv', DayInv, NEW r \in Runs, NEW c \in Threads,
         call' = [call EXCEPT ![r][c] = NoCall],
         UNCHANGED <<attempt, rows, spent, uncounted>>
  PROVE  DayInv'
<1> DEFINE own == NoCall
<1>1. CallMove(call, call', r, c, own)
  BY NoCallShape DEF CallMove, GateInv, BudgetShape
<1>2. OwedBy(own, rows[RowKey(r, own.seq)].est) = 0
  BY NoCallShape DEF OwedBy
<1> HIDE DEF own
<1>3. Owed(r, c) \in Nat /\ Owed(r, c) = OwedBy(call[r][c], rows[RowKey(r, call[r][c].seq)].est)
  BY OwedShape DEF Owed
<1>4. spent[r] \in Nat /\ uncounted \in Nat /\ spent' = spent /\ uncounted' = uncounted
  BY DEF GateInv, BudgetShape
<1>5. spent'[r] + OwedBy(own, rows[RowKey(r, own.seq)].est) + uncounted
        <= spent[r] + OwedBy(call[r][c], rows[RowKey(r, call[r][c].seq)].est) + uncounted'
  BY <1>2, <1>3, <1>4
<1> QED
  BY <1>1, <1>4, <1>5, QuietDay

LEMMA PassingDay ==
  ASSUME GateInv, GateInv', DayInv, NEW r \in Runs, NEW c \in Threads, NEW place \in CallPcs,
         Passes(call, call', r, c, place), UNCHANGED <<attempt, rows, spent, uncounted>>,
         \/ call[r][c].pc = "admitted" /\ place = "recording"
         \/ call[r][c].pc = "settled" /\ place = "charged"
  PROVE  DayInv'
<1>1. PICK own \in CallType :
        /\ CallMove(call, call', r, c, own) /\ own.pc = place
        /\ own.cap = call[r][c].cap /\ own.seq = call[r][c].seq
  BY CallPasses
<1>2. OwedBy(own, rows[RowKey(r, own.seq)].est)
        = OwedBy(call[r][c], rows[RowKey(r, call[r][c].seq)].est)
  BY <1>1 DEF OwedBy, Opening
<1>3. Owed(r, c) \in Nat /\ Owed(r, c) = OwedBy(call[r][c], rows[RowKey(r, call[r][c].seq)].est)
  BY OwedShape DEF Owed
<1>4. spent[r] \in Nat /\ uncounted \in Nat /\ spent' = spent /\ uncounted' = uncounted
  BY DEF GateInv, BudgetShape
<1>5. spent'[r] + OwedBy(own, rows[RowKey(r, own.seq)].est) + uncounted
        <= spent[r] + OwedBy(call[r][c], rows[RowKey(r, call[r][c].seq)].est) + uncounted'
  BY <1>2, <1>3, <1>4
<1> QED
  BY <1>1, <1>4, <1>5, QuietDay

LEMMA OpenCallDay ==
  ASSUME GateInv, GateInv', DayInv, NEW r \in Runs, NEW c \in Threads, NEW requested \in Caps,
         OpenCall(r, c, requested)
  PROVE  DayInv'
<1>1. UNCHANGED <<attempt, rows, spent, uncounted>>
  BY DEF OpenCall
<1>2. CASE ~Admissible(r, requested)
  <2>1. call' = call
    BY <1>2 DEF OpenCall
  <2> QED
    BY <1>1, <2>1 DEF DayInv, BookedRows, CoveredRows, Charges, OwedOf, Owed, RowKey, Sum
<1>3. CASE Admissible(r, requested)
  <2> DEFINE own == call'[r][c]
  <2>1. call \in [Runs -> [Threads -> CallType]] /\ own \in CallType
    BY DEF GateInv, BudgetShape
  <2>2. call' = [call EXCEPT ![r][c] = [NoCall EXCEPT !.pc = "reserving",
                                                      !.cap = Allowed(r, requested)]]
    BY <1>3 DEF OpenCall
  <2>3. own = [NoCall EXCEPT !.pc = "reserving", !.cap = Allowed(r, requested)]
    BY <2>1, <2>2
  <2>4. call' = [call EXCEPT ![r][c] = own] /\ own.pc = "reserving"
    BY <2>2, <2>3 DEF NoCall
  <2> HIDE DEF own
  <2>5. CallMove(call, call', r, c, own)
    BY <2>1, <2>4 DEF CallMove
  <2>6. OwedBy(own, rows[RowKey(r, own.seq)].est) = 0
    BY <2>4 DEF OwedBy, Opening
  <2>7. Owed(r, c) \in Nat
        /\ Owed(r, c) = OwedBy(call[r][c], rows[RowKey(r, call[r][c].seq)].est)
    BY OwedShape DEF Owed
  <2>8. spent[r] \in Nat /\ uncounted \in Nat /\ spent' = spent /\ uncounted' = uncounted
    BY <1>1 DEF GateInv, BudgetShape
  <2>9. spent'[r] + OwedBy(own, rows[RowKey(r, own.seq)].est) + uncounted
          <= spent[r] + OwedBy(call[r][c], rows[RowKey(r, call[r][c].seq)].est) + uncounted'
    BY <2>6, <2>7, <2>8
  <2> QED
    BY <1>1, <2>5, <2>8, <2>9, QuietDay
<1> QED
  BY <1>2, <1>3

LEMMA AnswerDay ==
  ASSUME GateInv, GateInv', DayInv, NEW r \in Runs, NEW c \in Threads, NEW charged, NEW verdict,
         Answer(r, c, charged, verdict)
  PROVE  DayInv'
<1>1. PICK own \in CallType :
        /\ CallMove(call, call', r, c, own)
        /\ call[r][c].pc = "sent" /\ own.pc = "answered"
        /\ own.cap = call[r][c].cap /\ own.seq = call[r][c].seq
        /\ own.charge \in Nat /\ own.charge <= own.cap
        /\ charged \in Nat /\ charged <= own.charge
        /\ spent' = [spent EXCEPT ![r] = @ + charged]
  BY AnswerMoves
<1>2. UNCHANGED <<attempt, rows, uncounted>>
  BY DEF Answer
<1>3. spent \in [Runs -> Nat] /\ spent[r] \in Nat /\ uncounted \in Nat
  BY DEF GateInv, BudgetShape
<1>4. spent'[r] = spent[r] + charged /\ \A q \in Runs : q # r => spent'[q] = spent[q]
  BY <1>1, <1>3
<1> DEFINE est == rows[RowKey(r, call[r][c].seq)].est
<1>5. OwedBy(call[r][c], est) \in Nat
  BY OwedShape DEF Owed
<1>6. OwedBy(own, rows[RowKey(r, own.seq)].est) = OwedBy(own, est)
  BY <1>1
<1>7. est \in Nat
  <2>1. call[r][c].pc \in Numbered
    BY <1>1 DEF Numbered, Holding
  <2>2. RowKey(r, call[r][c].seq) \in RowKeys
    BY <2>1, CallFacts
  <2> QED
    BY <2>2 DEF GateInv, BudgetShape, RowType
<1> HIDE DEF est
<1>8. call[r][c].cap \in Nat /\ Monus(own.cap, est) \in Nat
  BY <1>1, <1>7, CallFacts, MonusShape DEF CallType
<1>9. /\ OwedBy(call[r][c], est) = est + Monus(own.cap, est)
      /\ OwedBy(own, est) = est + Monus(own.cap, est) - own.charge
  BY <1>1 DEF OwedBy, Opening
<1>10. spent'[r] + OwedBy(own, est) + uncounted
         <= spent[r] + OwedBy(call[r][c], est) + uncounted'
  BY <1>1, <1>2, <1>3, <1>4, <1>7, <1>8, <1>9
<1> QED
  BY <1>1, <1>2, <1>4, <1>6, <1>10, QuietDay DEF est

LEMMA RecordAdmissionDay ==
  ASSUME GateInv, GateInv', DayInv, NEW r \in Runs, NEW c \in Threads, RecordAdmission(r, c)
  PROVE  DayInv'
<1> DEFINE k == RowKey(r, call[r][c].seq)
           own == [call[r][c] EXCEPT !.pc = "sent"]
<1>1. /\ call[r][c].pc = "recording" /\ CallMove(call, call', r, c, own)
      /\ k \in RowKeys /\ rows[k].uses = 0 /\ rows[k].status = "reserved"
      /\ rows'[k].uses = 1 /\ rows'[k].status = rows[k].status /\ rows'[k].est = rows[k].est
      /\ \A m \in RowKeys : m # k => rows'[m] = rows[m]
      /\ UNCHANGED <<attempt, spent, uncounted>>
  BY RecordAdmissionMoves
<1>2. /\ own.pc = "sent" /\ own.cap = call[r][c].cap /\ own.seq = call[r][c].seq
      /\ call[r][c].cap \in Nat
  BY CallFacts DEF CallType
<1> HIDE DEF own
<1>3. RowKey(r, own.seq) = k
  BY <1>2
<1> HIDE DEF k
<1>4. /\ rows[k] \in RowType /\ rows'[k] \in RowType
      /\ Booked(rows[k]) \in Nat
      /\ Sum(BookedRows, RowKeys) \in Nat /\ Sum(BookedRows, RowKeys)' \in Nat
      /\ Sum(BookedRows, RowKeys)' + Booked(rows[k])
           = Sum(BookedRows, RowKeys) + Booked(rows'[k])
  BY <1>1, RowsMove
<1>5. /\ rows[k].est \in Nat /\ Booked(rows[k]) = rows[k].est /\ Covered(rows[k]) = 0
      /\ Booked(rows'[k]) = rows[k].est /\ Covered(rows'[k]) = rows[k].est
  BY <1>1, <1>4, BookedShape DEF RowType
<1>6. Sum(BookedRows, RowKeys)' <= DailyBudget
  <2>1. Sum(BookedRows, RowKeys)' = Sum(BookedRows, RowKeys)
    BY <1>4, <1>5
  <2> QED
    BY <2>1 DEF DayInv
<1>7. /\ OwedBy(call[r][c], rows[k].est) = Monus(own.cap, rows[k].est)
      /\ OwedBy(own, rows'[k].est) = rows[k].est + Monus(own.cap, rows[k].est)
      /\ Monus(own.cap, rows[k].est) \in Nat
  BY <1>1, <1>2, <1>5, MonusShape DEF OwedBy, Opening
<1>8. spent[r] \in Nat /\ uncounted \in Nat /\ spent' = spent /\ uncounted' = uncounted
  BY <1>1 DEF GateInv, BudgetShape
<1>9. spent'[r] + OwedBy(own, rows'[k].est) + Covered(rows[k]) + uncounted
        <= spent[r] + OwedBy(call[r][c], rows[k].est) + Covered(rows'[k]) + uncounted'
  BY <1>5, <1>7, <1>8
<1>10. /\ rows'[RowKey(r, own.seq)] = rows'[k]
       /\ rows[RowKey(r, call[r][c].seq)] = rows[k]
  BY <1>3 DEF k
<1> QED
  BY <1>1, <1>6, <1>8, <1>9, <1>10, RowDay

-----------------------------------------------------------------------------
(* A day on which a call is settled, reserved or lost.                     *)

(* A settlement's row covers what its call still owed, or the charge is    *)
(* known not to be covered.                                                *)
LEMMA SettledDay ==
  ASSUME GateInv, GateInv', DayInv, NEW r \in Runs, NEW c \in Threads, NEW own,
         CallMove(call, call', r, c, own), own.pc \in {"idle", "settled"},
         call[r][c].pc = "answered", rows[RowKey(r, call[r][c].seq)].status = "reserved",
         rows' = SettledRow(r, c), uncounted' = uncounted + SettlementUncounted(r, c),
         UNCHANGED <<attempt, spent>>
  PROVE  DayInv'
<1> DEFINE k == RowKey(r, call[r][c].seq)
           cap == call[r][c].cap
           charge == call[r][c].charge
           est == rows[k].est
<1>1. /\ k \in RowKeys /\ rows[k] \in RowType /\ rows[k].uses = 1
      /\ rows'[k].status = call[r][c].how /\ rows'[k].actual = charge
      /\ rows'[k].est = est /\ rows'[k].uses = rows[k].uses
      /\ \A m \in RowKeys : m # k => rows'[m] = rows[m]
  BY SettledRowShape
<1>2. cap \in Nat /\ charge \in Nat /\ charge <= cap /\ call[r][c].how \in {"settled", "released"}
  BY CallFacts DEF GateInv, AnswersSettled
<1>3. est \in Nat /\ Monus(cap, est) \in Nat /\ cap <= est + Monus(cap, est)
  <2>1. est \in Nat
    BY <1>1 DEF RowType
  <2> HIDE DEF est, cap
  <2> QED
    BY <1>2, <2>1, MonusShape
<1>4. OwedBy(call[r][c], est) = est + Monus(cap, est) - charge
  BY DEF OwedBy, Opening
<1>5. OwedBy(own, rows'[RowKey(r, own.seq)].est) = 0
  BY DEF OwedBy, Opening
<1>6. SettlementUncounted(r, c) = IF call[r][c].how = "released" THEN charge ELSE 0
  BY DEF SettlementUncounted
<1>7. rows[k].status = "reserved" /\ UNCHANGED <<attempt, spent>>
      /\ uncounted' = uncounted + SettlementUncounted(r, c)
  OBVIOUS
<1> HIDE DEF k, cap, charge, est
<1>8. /\ rows'[k] \in RowType /\ Booked(rows[k]) \in Nat /\ Booked(rows'[k]) \in Nat
      /\ Sum(BookedRows, RowKeys) \in Nat /\ Sum(BookedRows, RowKeys)' \in Nat
      /\ Sum(BookedRows, RowKeys)' + Booked(rows[k])
           = Sum(BookedRows, RowKeys) + Booked(rows'[k])
  BY <1>1, RowsMove
<1>9. Booked(rows[k]) = est /\ Covered(rows[k]) = est
  BY <1>1, <1>7, BookedShape DEF est
<1>10. /\ Covered(rows'[k]) = Booked(rows'[k])
       /\ call[r][c].how = "settled" => /\ Booked(rows'[k]) <= est
                                        /\ Booked(rows'[k]) \in {est, charge}
       /\ call[r][c].how = "released" => Booked(rows'[k]) = 0
  BY <1>1, <1>8, BookedShape
<1>11. Booked(rows'[k]) <= est
  BY <1>2, <1>3, <1>10
<1>12. Sum(BookedRows, RowKeys)' <= DailyBudget
  <2>1. Sum(BookedRows, RowKeys)' <= Sum(BookedRows, RowKeys)
    BY <1>3, <1>8, <1>9, <1>11
  <2>2. Sum(BookedRows, RowKeys) <= DailyBudget /\ DailyBudget \in Nat
    BY BudgetNumbers DEF DayInv
  <2> QED
    BY <1>8, <2>1, <2>2
<1>13. spent[r] \in Nat /\ uncounted \in Nat /\ spent' = spent
  BY <1>7 DEF GateInv, BudgetShape
<1>14. spent'[r] + 0 + Covered(rows[k]) + uncounted
         <= spent[r] + OwedBy(call[r][c], est) + Covered(rows'[k]) + uncounted'
  <2>1. CASE call[r][c].how = "settled"
    <3>1. uncounted' = uncounted
      BY <1>6, <1>7, <1>13, <2>1
    <3>2. est <= est + Monus(cap, est) - charge + Booked(rows'[k])
      BY <1>2, <1>3, <1>10, <2>1
    <3> QED
      BY <1>2, <1>3, <1>4, <1>8, <1>9, <1>10, <1>13, <3>1, <3>2
  <2>2. CASE call[r][c].how = "released"
    <3>1. uncounted' = uncounted + charge
      BY <1>6, <1>7, <2>2
    <3> QED
      BY <1>2, <1>3, <1>4, <1>9, <1>10, <1>13, <2>2, <3>1
  <2> QED
    BY <1>2, <2>1, <2>2
<1>15. /\ rows[RowKey(r, call[r][c].seq)] = rows[k] /\ rows[k].est = est
  BY DEF k, est
<1>16. spent'[r] + OwedBy(own, rows'[RowKey(r, own.seq)].est) + Covered(rows[k]) + uncounted
         <= spent[r] + OwedBy(call[r][c], rows[RowKey(r, call[r][c].seq)].est)
              + Covered(rows'[k]) + uncounted'
  BY <1>5, <1>14, <1>15
<1> QED
  BY <1>1, <1>7, <1>12, <1>15, <1>16, RowDay

LEMMA SettleCallDay ==
  ASSUME GateInv, GateInv', DayInv, NEW r \in Runs, NEW c \in Threads, SettleCall(r, c)
  PROVE  DayInv'
<1>1. /\ call[r][c].pc = "answered" /\ Passes(call, call', r, c, "settled")
      /\ rows[RowKey(r, call[r][c].seq)].status = "reserved"
      /\ rows' = SettledRow(r, c) /\ uncounted' = uncounted + SettlementUncounted(r, c)
      /\ UNCHANGED <<attempt, spent>>
  BY DEF SettleCall, Passes
<1>2. PICK own \in CallType : CallMove(call, call', r, c, own) /\ own.pc = "settled"
  BY <1>1, CallPasses DEF CallPcs
<1> QED
  BY <1>1, <1>2, SettledDay

LEMMA SettlementFailsDay ==
  ASSUME GateInv, GateInv', DayInv, NEW r \in Runs, NEW c \in Threads, SettlementFails(r, c)
  PROVE  DayInv'
<1>1. /\ call[r][c].pc = "answered" /\ call' = [call EXCEPT ![r][c] = NoCall]
      /\ UNCHANGED <<attempt, spent>>
  BY DEF SettlementFails
<1>2. CASE UNCHANGED <<rows, uncounted>>
  BY <1>1, <1>2, EndedDay
<1>3. CASE /\ rows[RowKey(r, call[r][c].seq)].status = "reserved"
           /\ rows' = SettledRow(r, c)
           /\ uncounted' = uncounted + SettlementUncounted(r, c)
  <2> DEFINE own == NoCall
  <2>1. CallMove(call, call', r, c, own) /\ own.pc = "idle"
    BY <1>1, NoCallShape DEF CallMove, GateInv, BudgetShape
  <2> HIDE DEF own
  <2> QED
    BY <1>1, <1>3, <2>1, SettledDay
<1> QED
  BY <1>2, <1>3 DEF SettlementFails

(* A reservation is booked only when the day has room for its cap.         *)
LEMMA ReserveBooks ==
  ASSUME GateInv, GateInv', DayInv, NEW k \in RowKeys, NEW cap \in Nat,
         rows[k].uses = 0, rows[k].status \in {"absent", "reserved", "rejected"},
         rows'[k] = ReservedRow(k, cap),
         \A m \in RowKeys : m # k => rows'[m] = rows[m]
  PROVE  /\ Sum(BookedRows, RowKeys)' <= DailyBudget
         /\ Covered(rows[k]) = 0 /\ Covered(rows'[k]) = 0
<1> DEFINE row == ReservedRow(k, cap)
<1>1. /\ rows[k] \in RowType /\ rows'[k] \in RowType
      /\ Booked(rows[k]) \in Nat /\ Booked(rows'[k]) \in Nat
      /\ Sum(BookedRows, RowKeys) \in Nat /\ Sum(BookedRows, RowKeys)' \in Nat
      /\ Sum(BookedRows, RowKeys)' + Booked(rows[k])
           = Sum(BookedRows, RowKeys) + Booked(rows'[k])
  BY RowsMove
<1>2. /\ row.uses = 0 /\ row.status \in {"reserved", "rejected"}
      /\ row.status = "reserved" =>
           \/ rows[k].status = "reserved" /\ row = rows[k]
           \/ /\ rows[k].status = "absent" /\ row.est = cap
              /\ ~(Committed + cap > DailyBudget)
  BY <1>1, ReservedRowShape
<1>3. rows'[k] = row
  OBVIOUS
<1> HIDE DEF row
<1>4. Covered(rows[k]) = 0 /\ Covered(rows'[k]) = 0
  BY <1>1, <1>2, <1>3, BookedShape
<1>5. /\ Sum(BookedRows, RowKeys) <= DailyBudget /\ DailyBudget \in Nat
      /\ Committed \in Nat /\ Sum(BookedRows, RowKeys) <= Committed
  BY CommittedShape, BudgetNumbers DEF DayInv
<1>6. CASE row.status = "rejected"
  <2>1. Booked(rows'[k]) = 0
    BY <1>1, <1>3, <1>6, BookedShape
  <2> QED
    BY <1>1, <1>4, <1>5, <2>1
<1>7. CASE row = rows[k]
  BY <1>1, <1>3, <1>4, <1>5, <1>7
<1>8. CASE /\ row.status = "reserved" /\ rows[k].status = "absent" /\ row.est = cap
           /\ ~(Committed + cap > DailyBudget)
  <2>1. Booked(rows'[k]) = cap /\ Booked(rows[k]) = 0
    BY <1>1, <1>3, <1>8, BookedShape
  <2> QED
    BY <1>1, <1>4, <1>5, <1>8, <2>1
<1> QED
  BY <1>2, <1>6, <1>7, <1>8

LEMMA ReserveDay ==
  ASSUME GateInv, GateInv', DayInv, NEW r \in Runs, NEW c \in Threads, Reserve(r, c)
  PROVE  DayInv'
<1> DEFINE seq == tracker[r].calls + 1
           k == RowKey(r, seq)
           cap == call[r][c].cap
           row == ReservedRow(k, cap)
           made == [call[r][c] EXCEPT !.pc = "admitted", !.seq = seq]
<1>1. /\ call[r][c].pc = "reserving" /\ cap \in Nat /\ k \in RowKeys
      /\ rows[k].uses = 0 /\ rows[k].status \in {"absent", "reserved", "rejected"}
      /\ rows' = [rows EXCEPT ![k] = row] /\ UNCHANGED <<attempt, spent>>
      /\ \/ /\ row.status = "reserved" /\ CallMove(call, call', r, c, made)
            /\ uncounted' = uncounted + Monus(cap, row.est)
         \/ CallMove(call, call', r, c, NoCall) /\ uncounted' = uncounted
  BY ReserveMoves
<1>2. /\ call[r][c] \in CallType /\ rows \in [RowKeys -> RowType] /\ rows[k] \in RowType
      /\ spent[r] \in Nat /\ uncounted \in Nat /\ seq \in Nat
  BY <1>1, CallFacts DEF GateInv, BudgetShape
<1>3. /\ row \in RowType
      /\ row.status = "reserved" =>
           \/ rows[k].status = "reserved" /\ row = rows[k]
           \/ rows[k].status = "absent"
  BY <1>1, <1>2, ReservedRowShape
<1>4. rows[k].status = "reserved" => row.est = rows[k].est
  BY <1>2 DEF ReservedRow, RowType
<1>5. made.pc = "admitted" /\ made.cap = cap /\ made.seq = seq
  <2> HIDE DEF seq
  <2> QED
    BY <1>2 DEF CallType
<1>6. RowKey(r, made.seq) = k
  BY <1>5
<1>7. rows'[k] = ReservedRow(k, cap) /\ rows'[k] = row
      /\ \A m \in RowKeys : m # k => rows'[m] = rows[m]
  BY <1>1, <1>2
<1> HIDE DEF made, k
<1>8. /\ Sum(BookedRows, RowKeys)' <= DailyBudget
      /\ Covered(rows[k]) = 0 /\ Covered(rows'[k]) = 0
  BY <1>1, <1>7, ReserveBooks
<1>9. OwedBy(call[r][c], rows[RowKey(r, call[r][c].seq)].est) = 0
  BY <1>1 DEF OwedBy, Opening
<1> HIDE DEF row, cap
<1>10. PICK own :
         /\ CallMove(call, call', r, c, own)
         /\ uncounted + OwedBy(own, rows'[RowKey(r, own.seq)].est) = uncounted'
         /\ OwedBy(own, rows'[RowKey(r, own.seq)].est) \in Nat
  <2>1. CASE /\ row.status = "reserved" /\ CallMove(call, call', r, c, made)
             /\ uncounted' = uncounted + Monus(cap, row.est)
    <3>1. OwedBy(made, rows'[RowKey(r, made.seq)].est) = Monus(cap, row.est)
      BY <1>5, <1>6, <1>7 DEF OwedBy, Opening
    <3>2. Monus(cap, row.est) \in Nat
      BY <1>1, <1>3, MonusShape DEF RowType
    <3> QED
      BY <2>1, <3>1, <3>2
  <2>2. CASE CallMove(call, call', r, c, NoCall) /\ uncounted' = uncounted
    <3>1. OwedBy(NoCall, rows'[RowKey(r, NoCall.seq)].est) = 0
      BY NoCallShape DEF OwedBy
    <3> QED
      BY <1>2, <2>2, <3>1
  <2> QED
    BY <1>1, <2>1, <2>2
<1>11. spent' = spent /\ spent'[r] = spent[r]
  BY <1>1
<1>12. spent'[r] + OwedBy(own, rows'[RowKey(r, own.seq)].est) + Covered(rows[k]) + uncounted
         <= spent[r] + OwedBy(call[r][c], rows[RowKey(r, call[r][c].seq)].est)
              + Covered(rows'[k]) + uncounted'
  BY <1>2, <1>8, <1>9, <1>10, <1>11
<1>13. rows[k].status = "reserved" \/ rows[k].uses > 0 => rows'[k].est = rows[k].est
  BY <1>1, <1>4, <1>7
<1> QED
  BY <1>1, <1>7, <1>8, <1>10, <1>11, <1>12, <1>13, RowDay

(* What died at the provider was owed.                                     *)
LEMMA CrashDay ==
  ASSUME GateInv, GateInv', DayInv, NEW r \in Runs, NEW charged \in SUBSET ThreadsOf[r],
         NEW kept \in BOOLEAN, Crash(r, charged, kept)
  PROVE  DayInv'
<1> DEFINE f == CapsOf(call[r], charged)
           p == Charges
           s == Charges'
<1>1. /\ charged \in SUBSET Threads /\ \A c \in charged : call[r][c].pc = "sent"
      /\ \A c \in Threads : call'[r][c] = NoCall
      /\ spent'[r] = spent[r] + Sum(f, charged)
      /\ \A q \in Runs : q # r =>
           call'[q] = call[q] /\ spent'[q] = spent[q] /\ attempt'[q] = attempt[q]
      /\ UNCHANGED <<rows, uncounted>>
  <2>1. Dies(r, charged)
    BY CrashMoves
  <2> QED
    BY <2>1 DEF Dies
<1>2. Summable(f, charged) /\ Sum(f, charged) \in Nat
  BY <1>1, ChargedSum
<1>3. ChargesTyped /\ ChargesTyped'
  BY ChargesShape, ChargesShapeNext
<1>4. /\ Summable(p, Runs) /\ Summable(OwedOf(r), Threads) /\ spent[r] \in Nat
      /\ p[r] = spent[r] + Sum(OwedOf(r), Threads)
      /\ Sum(OwedOf(r), Threads) \in Nat
      /\ \A d \in Threads : OwedOf(r)[d] = Owed(r, d) /\ Owed(r, d) \in Nat
      /\ \A q \in Runs : p[q] = spent[q] + Sum(OwedOf(q), Threads) /\ p[q] \in Nat
  BY <1>3 DEF ChargesTyped, Summable
<1>5. /\ Summable(s, Runs) /\ spent'[r] \in Nat
      /\ s[r] = spent'[r] + Sum(OwedOf(r)', Threads)
      /\ \A d \in Threads : OwedOf(r)'[d] = Owed(r, d)'
      /\ \A q \in Runs : s[q] = spent'[q] + Sum(OwedOf(q)', Threads)
  BY <1>3 DEF ChargesTyped, Sum
<1>6. \A c \in charged : f[c] <= OwedOf(r)[c]
  <2> TAKE c \in charged
  <2> DEFINE est == rows[RowKey(r, call[r][c].seq)].est
  <2>1. c \in Threads /\ call[r][c].pc = "sent" /\ call[r][c].cap \in Nat
    BY <1>1, CallFacts
  <2>2. est \in Nat
    <3>1. call[r][c].pc \in Numbered
      BY <2>1 DEF Numbered, Holding
    <3>2. RowKey(r, call[r][c].seq) \in RowKeys
      BY <2>1, <3>1, CallFacts
    <3> QED
      BY <3>2 DEF GateInv, BudgetShape, RowType
  <2>3. f[c] = call[r][c].cap /\ OwedOf(r)[c] = OwedBy(call[r][c], est)
    BY <1>4, <2>1 DEF CapsOf, Owed
  <2> HIDE DEF est, f
  <2>4. OwedBy(call[r][c], est) = est + Monus(call[r][c].cap, est)
    BY <2>1 DEF OwedBy, Opening
  <2> QED
    BY <2>1, <2>2, <2>3, <2>4, MonusShape
<1>7. Sum(f, charged) <= Sum(OwedOf(r), Threads)
  BY <1>1, <1>2, <1>4, <1>6, SumGrows
<1>8. Sum(OwedOf(r)', Threads) = 0
  <2> DEFINE n == OwedOf(r)'
  <2>1. \A d \in Threads : n[d] = 0
    <3> TAKE d \in Threads
    <3>1. Owed(r, d)' = 0
      BY <1>1, NoCallShape DEF Owed, OwedBy
    <3> QED
      BY <1>5, <3>1
  <2> HIDE DEF n
  <2>2. Sum(n, Threads) = 0
    BY <2>1, SumOfZeros, BudgetNumbers
  <2> QED
    BY <2>2 DEF n
<1>9. \A q \in Runs : s[q] <= p[q]
  <2> TAKE q \in Runs
  <2>1. CASE q = r
    BY <1>1, <1>2, <1>4, <1>5, <1>7, <1>8, <2>1
  <2>2. CASE q # r
    <3>1. OwedOf(q)' = OwedOf(q)
      BY <1>1, <2>2 DEF OwedOf, Owed, RowKey
    <3>2. s[q] = p[q] /\ p[q] \in Nat
      BY <1>1, <1>4, <1>5, <2>2, <3>1
    <3> QED
      BY <3>2
  <2> QED
    BY <2>1, <2>2
<1>10. Sum(Charges, Runs) = Sum(p, Runs) /\ Sum(Charges, Runs)' = Sum(s, Runs)
  BY DEF Sum
<1> HIDE DEF f, p, s
<1>11. Sum(s, Runs) <= Sum(p, Runs) /\ Sum(s, Runs) \in Nat /\ Sum(p, Runs) \in Nat
  BY <1>4, <1>5, <1>9, SumGrows, SumType
<1>12. /\ Sum(BookedRows, RowKeys)' = Sum(BookedRows, RowKeys)
       /\ Sum(CoveredRows, RowKeys)' = Sum(CoveredRows, RowKeys)
       /\ uncounted' = uncounted
  BY <1>1 DEF BookedRows, CoveredRows, Sum
<1>13. uncounted \in Nat /\ Sum(CoveredRows, RowKeys) \in Nat
  BY RowsShape DEF RowsTyped
<1> QED
  BY <1>10, <1>11, <1>12, <1>13 DEF DayInv

-----------------------------------------------------------------------------
(* The daily budget.                                                       *)

LEMMA DayInitially ==
  ASSUME BudgetInit
  PROVE  DayInv
<1> DEFINE b == BookedRows
           c == CoveredRows
           p == Charges
<1>1. /\ \A k \in RowKeys : rows[k] = NoRow
      /\ \A r \in Runs, d \in Threads : call[r][d] = NoCall
      /\ \A r \in Runs : spent[r] = 0
      /\ uncounted = 0
  BY DEF BudgetInit
<1>2. \A k \in RowKeys : b[k] = 0 /\ c[k] = 0
  BY <1>1 DEF NoRow, Booked, Covered, BookedRows, CoveredRows
<1>3. \A r \in Runs : p[r] = 0
  <2> TAKE r \in Runs
  <2> DEFINE o == OwedOf(r)
  <2>1. \A d \in Threads : o[d] = 0
    BY <1>1, NoCallShape DEF OwedOf, Owed, OwedBy
  <2>2. p[r] = spent[r] + Sum(o, Threads)
    BY DEF Charges
  <2> HIDE DEF o, p
  <2>3. Sum(o, Threads) = 0
    BY <2>1, SumOfZeros, BudgetNumbers
  <2> QED
    BY <1>1, <2>2, <2>3
<1> HIDE DEF b, c, p
<1>4. Sum(b, RowKeys) = 0 /\ Sum(c, RowKeys) = 0 /\ Sum(p, Runs) = 0
  BY <1>2, <1>3, SumOfZeros, RowKeysFinite, BudgetNumbers
<1> QED
  BY <1>1, <1>4, BudgetNumbers DEF DayInv, b, c, p

LEMMA DaySame ==
  ASSUME DayInv, UNCHANGED <<attempt, call, rows, spent, uncounted>>
  PROVE  DayInv'
  BY DEF DayInv, BookedRows, CoveredRows, Charges, OwedOf, Owed, RowKey, Sum

LEMMA DayStep ==
  ASSUME GateInv, GateInv', DayInv, [BudgetNext]_budgetVars
  PROVE  DayInv'
<1>1. CASE UNCHANGED budgetVars
  BY <1>1, DaySame DEF budgetVars
<1>2. CASE BudgetNext
  <2>1. PICK r \in Runs :
          \/ \E c \in ThreadsOf[r] : CallNext(r, c)
          \/ RailTrips(r)
          \/ \E charged \in SUBSET ThreadsOf[r] : \E kept \in BOOLEAN : Crash(r, charged, kept)
    BY <1>2 DEF BudgetNext
  <2>2. CASE RailTrips(r)
    BY <2>2, DaySame DEF RailTrips
  <2>3. CASE \E charged \in SUBSET ThreadsOf[r] : \E kept \in BOOLEAN : Crash(r, charged, kept)
    BY <2>3, CrashDay
  <2>4. ASSUME NEW c \in ThreadsOf[r], CallNext(r, c)
        PROVE  DayInv'
    <3>1. c \in Threads
      BY BudgetNumbers
    <3>2. CASE \E requested \in Caps : OpenCall(r, c, requested)
      BY <3>1, <3>2, OpenCallDay
    <3>3. CASE Reserve(r, c)
      BY <3>1, <3>3, ReserveDay
    <3>4. CASE LedgerReserved(r, c)
      <4>1. Passes(call, call', r, c, "recording") /\ call[r][c].pc = "admitted"
            /\ UNCHANGED <<attempt, rows, spent, uncounted>>
        BY <3>4 DEF LedgerReserved, Passes
      <4> QED
        BY <3>1, <4>1, PassingDay DEF CallPcs
    <3>5. CASE RecordAdmission(r, c)
      BY <3>1, <3>5, RecordAdmissionDay
    <3>6. CASE AdmissionWriteFails(r, c)
      BY <3>1, <3>6, EndedDay DEF AdmissionWriteFails
    <3>7. CASE \E charged \in 0 .. call[r][c].cap :
                 \E verdict \in Verdicts(call[r][c].cap, charged) : Answer(r, c, charged, verdict)
      BY <3>1, <3>7, AnswerDay
    <3>8. CASE SettleCall(r, c)
      BY <3>1, <3>8, SettleCallDay
    <3>9. CASE SettlementFails(r, c)
      BY <3>1, <3>9, SettlementFailsDay
    <3>10. CASE LedgerSettled(r, c)
      <4>1. Passes(call, call', r, c, "charged") /\ call[r][c].pc = "settled"
            /\ UNCHANGED <<attempt, rows, spent, uncounted>>
        BY <3>10 DEF LedgerSettled, Passes
      <4> QED
        BY <3>1, <4>1, PassingDay DEF CallPcs
    <3>11. CASE RecordSettlement(r, c)
      BY <3>1, <3>11, EndedDay DEF RecordSettlement
    <3>12. CASE SettlementWriteFails(r, c)
      BY <3>1, <3>12, EndedDay DEF SettlementWriteFails
    <3> QED
      BY <2>4, <3>2, <3>3, <3>4, <3>5, <3>6, <3>7, <3>8, <3>9, <3>10, <3>11, <3>12
         DEF CallNext
  <2> QED
    BY <2>1, <2>2, <2>3, <2>4
<1> QED
  BY <1>1, <1>2

(* reserve_model_call_budget_guarded admits a row only if the day's sum    *)
(* has room for it, and a settled row counts what it cost: over all runs,  *)
(* deaths and replacements the day's spending stays within the budget, but *)
(* for the charges no row carries.                                         *)
THEOREM DailySpendHolds == BudgetSpec => []DailySpendBounded
<1>1. BudgetInit => GateInv /\ DayInv
  BY GateInitially, DayInitially
<1>2. GateInv /\ DayInv /\ [BudgetNext]_budgetVars => (GateInv /\ DayInv)'
  BY GateStep, DayStep
<1>3. GateInv /\ DayInv => DailySpendBounded
  <2> SUFFICES ASSUME GateInv, DayInv
               PROVE  SumFunctionOnSet(spent, Runs) <= DailyBudget + uncounted
    BY DEF DailySpendBounded
  <2>1. ChargesTyped /\ RowsTyped
    BY ChargesShape, RowsShape
  <2>2. /\ Summable(Charges, Runs) /\ Summable(spent, Runs)
        /\ \A r \in Runs : spent[r] <= Charges[r]
    <3>1. \A r \in Runs : spent[r] \in Nat /\ spent[r] <= Charges[r]
      BY <2>1 DEF ChargesTyped
    <3> QED
      BY <2>1, <3>1, BudgetNumbers DEF ChargesTyped, Summable
  <2>3. Sum(spent, Runs) <= Sum(Charges, Runs) /\ Sum(spent, Runs) \in Nat
        /\ Sum(Charges, Runs) \in Nat
    BY <2>2, SumGrows, SumType
  <2>4. \A k \in RowKeys : CoveredRows[k] <= BookedRows[k]
    BY <2>1, BookedShape DEF RowsTyped
  <2>5. Sum(CoveredRows, RowKeys) <= Sum(BookedRows, RowKeys)
    BY <2>1, <2>4, SumGrows DEF RowsTyped
  <2>6. /\ Sum(CoveredRows, RowKeys) \in Nat /\ Sum(BookedRows, RowKeys) \in Nat
        /\ uncounted \in Nat /\ DailyBudget \in Nat
    BY <2>1, BudgetNumbers DEF RowsTyped
  <2>7. Sum(spent, Runs) <= DailyBudget + uncounted
    BY <2>3, <2>5, <2>6 DEF DayInv
  <2> QED
    BY <2>7 DEF Sum
<1> QED
  BY <1>1, <1>2, <1>3, PTL DEF BudgetSpec
=============================================================================
