--------------------------- MODULE RegisterProofs ---------------------------
(***************************************************************************)
(* Proofs about the register.  RegisterSnapshots, for any Prepare and       *)
(* capture runs, pages and versions: what is active is whole and states the *)
(* version it was read at, a capture that stays pending can be adopted, and *)
(* no payload is lost.  RegisterSync: a sync and a capture never run side   *)
(* by side, and nothing but the owner's Resume ends a pause; both arguments *)
(* are about what a step relies on of a state it read earlier, the claim of *)
(* a requester, and the copies of the row that the tick and the owner hold. *)
(***************************************************************************)
EXTENDS RegisterSnapshots, RegisterSync, TLAPS

-----------------------------------------------------------------------------
(* The states of the variables. *)

\* The places at which a run has read its pages and so has a snapshot key.
HoldPcs == {"open", "adopt", "rows", "readings", "verify", "archive", "recordArchive", "activate"}
KeyPcs == HoldPcs \cup {"record", "build", "ready", "apply", "superseded"}
RunPcs == KeyPcs \cup {"version", "page", "check", "match", "queue", "absent", "finish", "gone", "over"}

RunRecords ==
    [pc : RunPcs, status : {"absent", "live", "failed", "completed"}, lease : BOOLEAN,
     asked : 0..MaxVersions, label : 0..MaxVersions, got : Seq(Versions), n : Nat,
     counted : {"none", "yes"}, target : Keys \cup {<<>>}, tried : SUBSET Keys]

SnapRecords ==
    [state : {"absent", "pending", "complete", "failed"}, creator : Runs \cup {Nobody},
     writer : Runs \cup {Nobody}, adopters : SUBSET Runs, rows : SUBSET Pages,
     readings : SUBSET Pages, archive : BOOLEAN, verified : {"none", "yes", "no", "unknown"},
     built : BOOLEAN, payload : {"kept", "typed", "archived"}]

Types ==
    /\ published \in Versions
    /\ run \in [Runs -> RunRecords]
    /\ snap \in [Keys -> SnapRecords]
    /\ active \in Seq(Keys)
    /\ object \in [Keys -> BOOLEAN]
    /\ batch \in [Keys -> {"none", "startable", "running", "done"}]

-----------------------------------------------------------------------------
(* What holds of one run, whose record is rec, when the register publishes   *)
(* the version now and the snapshots and objects are sn and ob. *)

KeyIn(rec) == [label |-> rec.label, pages |-> rec.got]

\* Pages are read in the order the register publishes.
ReadsInOrder(rec, now) ==
    /\ rec.pc = "page" => Len(rec.got) < PageCount
    /\ rec.pc \in KeyPcs => Len(rec.got) = PageCount
    /\ rec.pc \in {"page"} \cup KeyPcs =>
           /\ rec.label \in Versions /\ rec.label <= now
           /\ \A i \in 1..Len(rec.got) : rec.label <= rec.got[i] /\ rec.got[i] <= now

IsAlive(rec) ==
    /\ rec.pc \notin {"absent", "over"} => rec.status \in {"live", "failed"}
    /\ rec.pc \in {"ready", "apply", "queue"} => rec.target \in Keys

\* How far a run has come with a pending capture, the capture's rows have too.
KeepsUp(rec, s) ==
    /\ rec.pc # "open" => s.state # "absent"
    /\ s.state = "pending" =>
           /\ rec.pc \in {"rows", "readings"} => rec.n \in Pages
           /\ rec.pc = "rows" => 1..(rec.n - 1) \subseteq s.rows
           /\ rec.pc = "readings" => s.rows = Pages /\ 1..(rec.n - 1) \subseteq s.readings
           /\ rec.pc \in {"verify", "archive", "recordArchive", "activate"} =>
                  s.rows = Pages /\ s.readings = Pages

\* The writer of a pending capture is at it, has died, or is over and failed.
Holds(rec, k) ==
    /\ rec.status \in {"live", "failed"}
    /\ \/ rec.pc \in HoldPcs /\ KeyIn(rec) = k
       \/ rec.pc = "gone"
       \/ rec.pc = "over" /\ rec.status = "failed"

Sound(r, rec, now, sn, ob) ==
    /\ ReadsInOrder(rec, now)
    /\ IsAlive(rec)
    /\ rec.pc \in KeyPcs => KeepsUp(rec, sn[KeyIn(rec)])
    /\ \A k \in Keys : sn[k].state = "pending" /\ sn[k].writer = r => Holds(rec, k)
    /\ rec.pc = "apply" => ob[rec.target]

RunsAreSound == \A r \in Runs : Sound(r, run[r], published, snap, object)

-----------------------------------------------------------------------------
(* What holds of one snapshot. *)

InOrder(k, now) == \A p \in Pages : k.label <= k.pages[p] /\ k.pages[p] <= now

Whole(s) ==
    s.state = "complete" /\ s.payload # "archived" => s.rows = Pages /\ s.readings = Pages

SnapshotsAreSound ==
    \A k \in Keys :
        /\ snap[k].state # "absent" => InOrder(k, published)
        /\ snap[k].state = "pending" => snap[k].writer \in Runs
        /\ Whole(snap[k])

SnapshotInv ==
    Types /\ RunsAreSound /\ SnapshotsAreSound /\ PayloadRecoverable /\ BatchHasItsRows

-----------------------------------------------------------------------------
(* Steps of one run. *)

LEMMA KeyInKeys ==
    ASSUME NEW rec \in RunRecords, NEW now, ReadsInOrder(rec, now), rec.pc \in KeyPcs
    PROVE  KeyIn(rec) \in Keys
<1>1. rec.got \in Seq(Versions) /\ rec.label \in Versions /\ Len(rec.got) = PageCount
  BY DEF ReadsInOrder, RunRecords
<1>2. rec.got \in [Pages -> Versions]
  BY <1>1 DEF Pages
<1> QED
  BY <1>1, <1>2 DEF KeyIn, Keys

\* A run whose record becomes after, and nothing of the snapshots changes.
LEMMA RunMoves ==
    ASSUME SnapshotInv, NEW r \in Runs, NEW after \in RunRecords,
           run' = [run EXCEPT ![r] = after],
           UNCHANGED <<published, snap, active, batch>>,
           object' \in [Keys -> BOOLEAN], \A k \in Keys : object[k] => object'[k],
           Sound(r, after, published, snap, object')
    PROVE  SnapshotInv'
<1>1. Types'
  BY DEF SnapshotInv, Types
<1>2. ASSUME NEW q \in Runs PROVE Sound(q, run'[q], published, snap, object')
  <2>1. CASE q = r
    BY <2>1 DEF SnapshotInv, Types
  <2>2. CASE q # r
    <3>1. run'[q] = run[q] /\ Sound(q, run[q], published, snap, object)
      BY <2>2 DEF SnapshotInv, Types, RunsAreSound
    <3>2. run[q].pc = "apply" => object'[run[q].target]
      BY <3>1 DEF Sound, IsAlive
    <3> QED
      BY <3>1, <3>2 DEF Sound
  <2> QED
    BY <2>1, <2>2
<1>3. RunsAreSound'
  BY <1>2 DEF RunsAreSound
<1>4. SnapshotsAreSound' /\ PayloadRecoverable' /\ BatchHasItsRows'
  BY DEF SnapshotInv, SnapshotsAreSound, PayloadRecoverable, BatchHasItsRows, InOrder, Whole
<1> QED
  BY <1>1, <1>3, <1>4 DEF SnapshotInv

\* The same, and the snapshot k becomes new.
LEMMA SnapshotMoves ==
    ASSUME SnapshotInv, NEW r \in Runs, NEW after \in RunRecords,
           NEW k \in Keys, NEW new \in SnapRecords,
           run' = [run EXCEPT ![r] = after], snap' = [snap EXCEPT ![k] = new],
           UNCHANGED <<published, batch>>, active' \in Seq(Keys),
           object' \in [Keys -> BOOLEAN], \A j \in Keys : object[j] => object'[j],
           new.state # "absent", InOrder(k, published),
           new.state = "pending" =>
               \/ /\ snap[k].state = "pending" /\ new.writer \in {snap[k].writer, r}
                  /\ snap[k].rows \subseteq new.rows /\ snap[k].readings \subseteq new.readings
               \/ snap[k].state = "absent" /\ new.writer = r,
           Whole(new),
           new.payload # "kept" => new.archive /\ object'[k],
           batch[k] \in {"startable", "running"} => new.payload # "archived",
           Sound(r, after, published, snap', object')
    PROVE  SnapshotInv'
<1>1. Types'
  BY DEF SnapshotInv, Types
<1>2. ASSUME NEW q \in Runs PROVE Sound(q, run'[q], published, snap', object')
  <2>1. CASE q = r
    BY <2>1 DEF SnapshotInv, Types
  <2>2. CASE q # r
    <3>1. run'[q] = run[q] /\ Sound(q, run[q], published, snap, object)
      BY <2>2 DEF SnapshotInv, Types, RunsAreSound
    <3>2. run[q].pc = "apply" => object'[run[q].target]
      BY <3>1 DEF Sound, IsAlive
    <3>3. ASSUME NEW j \in Keys, snap'[j].state = "pending", snap'[j].writer = q
          PROVE  Holds(run[q], j)
      <4>1. snap[j].state = "pending" /\ snap[j].writer = q
        BY <2>2, <3>3 DEF SnapshotInv, Types
      <4> QED
        BY <3>1, <4>1 DEF Sound
    <3>4. ASSUME run[q].pc \in KeyPcs PROVE KeepsUp(run[q], snap'[KeyIn(run[q])])
      <4>1. KeyIn(run[q]) \in Keys /\ KeepsUp(run[q], snap[KeyIn(run[q])])
        BY <3>1, <3>4, KeyInKeys DEF Sound, SnapshotInv, Types
      <4>2. CASE KeyIn(run[q]) # k
        BY <4>1, <4>2 DEF SnapshotInv, Types
      <4>3. CASE KeyIn(run[q]) = k
        <5>1. snap'[k] = new
          BY DEF SnapshotInv, Types
        <5>2. new.rows \subseteq Pages /\ new.readings \subseteq Pages
          BY DEF SnapRecords
        <5>3. CASE new.state # "pending"
          BY <4>3, <5>1, <5>3 DEF KeepsUp
        <5>4. CASE new.state = "pending" /\ snap[k].state = "absent"
          <6>1. run[q].pc = "open"
            BY <4>1, <4>3, <5>4 DEF KeepsUp
          <6> QED
            BY <4>3, <5>1, <6>1 DEF KeepsUp
        <5>5. CASE new.state = "pending" /\ snap[k].state = "pending"
          <6>1. snap[k].rows \subseteq new.rows /\ snap[k].readings \subseteq new.readings
            BY <5>5
          <6>2. KeepsUp(run[q], new)
            BY <4>1, <4>3, <5>2, <5>5, <6>1 DEF KeepsUp
          <6> QED
            BY <4>3, <5>1, <6>2
        <5> QED
          BY <5>3, <5>4, <5>5
      <4> QED
        BY <4>2, <4>3
    <3> QED
      BY <3>1, <3>2, <3>3, <3>4 DEF Sound
  <2> QED
    BY <2>1, <2>2
<1>3. RunsAreSound'
  BY <1>2 DEF RunsAreSound
<1>4. SnapshotsAreSound'
  BY DEF SnapshotInv, Types, SnapshotsAreSound, InOrder
<1>5. PayloadRecoverable' /\ BatchHasItsRows'
  BY DEF SnapshotInv, Types, PayloadRecoverable, BatchHasItsRows
<1> QED
  BY <1>1, <1>3, <1>4, <1>5 DEF SnapshotInv


-----------------------------------------------------------------------------
(* Records that are sound whatever the snapshots are. *)

\* A run that is over, or whose process is gone, has nothing left to keep up.
LEMMA StoppedIsSound ==
    ASSUME NEW r, NEW rec, NEW now, NEW sn, NEW ob,
           \/ rec.pc = "gone" /\ rec.status \in {"live", "failed"}
           \/ rec.pc = "over" /\ rec.status = "failed"
    PROVE  Sound(r, rec, now, sn, ob)
BY DEF Sound, ReadsInOrder, IsAlive, Holds, KeyPcs, HoldPcs

\* A run that holds no pending capture and has no key either.
LEMMA FreeIsSound ==
    ASSUME NEW r, NEW rec, NEW now, NEW sn, NEW ob,
           rec.pc \in {"check", "match", "queue", "version", "finish", "over"},
           rec.pc # "over" => rec.status \in {"live", "failed"},
           rec.pc = "queue" => rec.target \in Keys,
           \A k \in Keys : sn[k].state = "pending" => sn[k].writer # r
    PROVE  Sound(r, rec, now, sn, ob)
BY DEF Sound, ReadsInOrder, IsAlive, KeyPcs, HoldPcs

\* What a run holds, seen from the place it has reached.
LEMMA HoldsNothing ==
    ASSUME SnapshotInv, NEW r \in Runs, run[r].pc \notin HoldPcs \cup {"gone", "over"}
    PROVE  \A k \in Keys : snap[k].state = "pending" => snap[k].writer # r
BY DEF SnapshotInv, RunsAreSound, Sound, Holds

LEMMA HoldsOnlyItsKey ==
    ASSUME SnapshotInv, NEW r \in Runs, run[r].pc \in HoldPcs
    PROVE  \A k \in Keys : snap[k].state = "pending" /\ snap[k].writer = r => k = Key(r)
BY DEF SnapshotInv, RunsAreSound, Sound, Holds, KeyIn, Key, HoldPcs

\* What a run with a key knows.
LEMMA KeyKnown ==
    ASSUME SnapshotInv, NEW r \in Runs, run[r].pc \in KeyPcs
    PROVE  /\ Key(r) = KeyIn(run[r]) /\ Key(r) \in Keys
           /\ InOrder(Key(r), published) /\ KeepsUp(run[r], Snap(r))
           /\ run[r].status \in {"live", "failed"}
<1>1. Sound(r, run[r], published, snap, object) /\ run[r] \in RunRecords
  BY DEF SnapshotInv, RunsAreSound, Types
<1>2. Key(r) = KeyIn(run[r])
  BY DEF Key, KeyIn
<1>3. Key(r) \in Keys
  BY <1>1, <1>2, KeyInKeys DEF Sound
<1>4. InOrder(Key(r), published)
  BY <1>1 DEF Sound, ReadsInOrder, InOrder, Key, Pages
<1>5. KeepsUp(run[r], Snap(r)) /\ run[r].status \in {"live", "failed"}
  BY <1>1, <1>2 DEF Sound, IsAlive, Snap, KeyPcs, HoldPcs
<1> QED
  BY <1>2, <1>3, <1>4, <1>5

\* A run that keeps its key moves on from one place to another.
LEMMA OnwardIsSound ==
    ASSUME SnapshotInv, NEW r \in Runs, run[r].pc \in KeyPcs, NEW after, NEW sn, NEW ob,
           after.pc \in KeyPcs, after.label = run[r].label, after.got = run[r].got,
           after.status \in {"live", "failed"},
           after.pc \in {"ready", "apply"} => after.target \in Keys,
           after.pc = "apply" => ob[after.target],
           KeepsUp(after, sn[Key(r)]),
           \A k \in Keys : sn[k].state = "pending" /\ sn[k].writer = r =>
                               after.pc \in HoldPcs /\ k = Key(r)
    PROVE  Sound(r, after, published, sn, ob)
<1>1. Sound(r, run[r], published, snap, object)
  BY DEF SnapshotInv, RunsAreSound
<1>2. KeyIn(after) = Key(r)
  BY DEF KeyIn, Key
<1>3. ReadsInOrder(after, published)
  BY <1>1 DEF Sound, ReadsInOrder, KeyPcs, HoldPcs
<1>4. IsAlive(after)
  BY DEF IsAlive, KeyPcs, HoldPcs
<1>5. ASSUME NEW k \in Keys, sn[k].state = "pending", sn[k].writer = r PROVE Holds(after, k)
  BY <1>2, <1>5 DEF Holds
<1> QED
  BY <1>2, <1>3, <1>4, <1>5 DEF Sound

-----------------------------------------------------------------------------
(* A run starts, and ends. *)

LEMMA NothingRead == <<>> \in Seq(Versions) /\ <<>> \in Keys \cup {<<>>} /\ 0 \in 0..MaxVersions
<1>1. <<>> \in Seq(Versions)
  OBVIOUS
<1> QED
  BY <1>1, RegisterConstants

LEMMA NewRunTyped == NewRun \in RunRecords
BY NothingRead DEF NewRun, RunRecords, RunPcs

LEMMA OverTyped ==
    ASSUME NEW r, NEW status \in {"failed", "completed"}
    PROVE  Over(r, status) \in RunRecords /\ Over(r, status).pc = "over" /\ Over(r, status).status = status
<1>1. NewRun \in RunRecords
  BY NewRunTyped
<1> QED
  BY <1>1 DEF Over, RunRecords, RunPcs

LEMMA StartingKeeps ==
    ASSUME SnapshotInv, NEW r \in Runs, StartRun(r) PROVE SnapshotInv'
<1> DEFINE first == IF r \in Prepares THEN "check" ELSE "version"
           after == [NewRun EXCEPT !.status = "live", !.lease = TRUE, !.asked = published, !.pc = first]
<1>1. after \in RunRecords /\ after.pc \in {"check", "version"} /\ after.status = "live"
  <2>1. first \in {"check", "version"}
    OBVIOUS
  <2>2. published \in 0..MaxVersions /\ NewRun \in RunRecords
    BY NewRunTyped, RegisterConstants DEF SnapshotInv, Types, Versions
  <2> HIDE DEF first
  <2> QED
    BY <2>1, <2>2 DEF RunRecords, RunPcs
<1>2. run' = [run EXCEPT ![r] = after] /\ UNCHANGED <<published, snap, active, object, batch>>
  BY DEF StartRun
<1>3. \A k \in Keys : snap[k].state = "pending" => snap[k].writer # r
  BY HoldsNothing DEF StartRun, HoldPcs
<1> HIDE DEF after
<1>4. Sound(r, after, published, snap, object)
  BY <1>1, <1>3, FreeIsSound
<1> QED
  BY <1>1, <1>2, <1>4, RunMoves DEF SnapshotInv, Types

LEMMA GoneKeeps ==
    ASSUME SnapshotInv, NEW r \in Runs, run[r].pc \notin {"absent", "over"}, Gone(r),
           UNCHANGED <<published, snap, active, object, batch>>
    PROVE  SnapshotInv'
<1> DEFINE after == [run[r] EXCEPT !.pc = "gone", !.label = 0, !.got = <<>>, !.n = 0,
                        !.counted = "none", !.target = <<>>, !.tried = {}]
<1>1. run[r] \in RunRecords /\ Sound(r, run[r], published, snap, object)
  BY DEF SnapshotInv, Types, RunsAreSound
<1>2. after \in RunRecords /\ after.pc = "gone" /\ after.status = run[r].status
  BY <1>1, NothingRead DEF RunRecords, RunPcs
<1>3. run' = [run EXCEPT ![r] = after]
  BY DEF Gone
<1> HIDE DEF after
<1>4. after.status \in {"live", "failed"}
  BY <1>1, <1>2 DEF Sound, IsAlive
<1>5. Sound(r, after, published, snap, object)
  BY <1>2, <1>4, StoppedIsSound
<1> QED
  BY <1>2, <1>3, <1>5, RunMoves DEF SnapshotInv, Types

LEMMA LeaseAndStatusKeep ==
    ASSUME SnapshotInv, NEW r \in Runs, LeaseLapses(r) \/ Reclaimed(r) PROVE SnapshotInv'
<1>1. run[r] \in RunRecords /\ Sound(r, run[r], published, snap, object)
  BY DEF SnapshotInv, Types, RunsAreSound
<1>2. CASE LeaseLapses(r)
  <2> DEFINE after == [run[r] EXCEPT !.lease = FALSE]
  <2>1. after \in RunRecords /\ run' = [run EXCEPT ![r] = after]
    BY <1>1, <1>2 DEF LeaseLapses, RunRecords
  <2>2. Sound(r, after, published, snap, object)
    BY <1>1 DEF Sound, ReadsInOrder, IsAlive, KeepsUp, Holds, KeyIn, RunRecords
  <2> HIDE DEF after
  <2> QED
    BY <1>2, <2>1, <2>2, RunMoves DEF LeaseLapses, SnapshotInv, Types
<1>3. CASE Reclaimed(r)
  <2> DEFINE after == [run[r] EXCEPT !.status = "failed"]
  <2>1. after \in RunRecords /\ run' = [run EXCEPT ![r] = after]
    BY <1>1, <1>3 DEF Reclaimed, RunRecords
  <2>2. Sound(r, after, published, snap, object)
    BY <1>1 DEF Sound, ReadsInOrder, IsAlive, KeepsUp, Holds, KeyIn, RunRecords
  <2> HIDE DEF after
  <2> QED
    BY <1>3, <2>1, <2>2, RunMoves DEF Reclaimed, SnapshotInv, Types
<1> QED
  BY <1>2, <1>3

LEMMA FailsKeeps ==
    ASSUME SnapshotInv, NEW r \in Runs, NEW counted \in {"none", "yes", "no"},
           run[r].pc \in CapturePcs \cup PreparePcs, Fails(r, counted),
           UNCHANGED <<published, active, object, batch>>
    PROVE  SnapshotInv'
<1> DEFINE after == Over(r, "failed")
<1>1. after \in RunRecords /\ after.pc = "over" /\ after.status = "failed"
  BY OverTyped
<1>2. run' = [run EXCEPT ![r] = after]
  BY DEF Fails
<1> HIDE DEF after
<1>3. \A sn : Sound(r, after, published, sn, object)
  BY <1>1, StoppedIsSound
<1>4. CASE UNCHANGED snap
  BY <1>1, <1>2, <1>3, <1>4, RunMoves DEF SnapshotInv, Types
<1>5. CASE ~UNCHANGED snap
  <2> DEFINE new == [Snap(r) EXCEPT !.verified = IF counted = "none" THEN "unknown" ELSE counted]
  <2>1. run[r].pc \in KeyPcs \ {"open"}
    BY <1>5 DEF Fails, UnitFailed, KeyPcs, HoldPcs
  <2>2. Key(r) \in Keys /\ InOrder(Key(r), published) /\ Snap(r).state # "absent"
    BY <2>1, KeyKnown DEF KeepsUp
  <2>3. Snap(r) \in SnapRecords /\ Snap(r) = snap[Key(r)]
    BY <2>2 DEF SnapshotInv, Types, Snap
  <2>4. snap' = [snap EXCEPT ![Key(r)] = new]
    BY <1>5 DEF Fails, UnitFailed, Snap
  <2>5. /\ new \in SnapRecords /\ new.state = Snap(r).state /\ new.writer = Snap(r).writer
        /\ new.rows = Snap(r).rows /\ new.readings = Snap(r).readings
        /\ new.payload = Snap(r).payload /\ new.archive = Snap(r).archive
    BY <2>3 DEF SnapRecords
  <2> HIDE DEF new
  <2>6. Whole(new) /\ (new.payload # "kept" => new.archive /\ object[Key(r)])
        /\ (batch[Key(r)] \in {"startable", "running"} => new.payload # "archived")
    BY <2>2, <2>3, <2>5
       DEF SnapshotInv, SnapshotsAreSound, Whole, PayloadRecoverable, BatchHasItsRows
  <2> QED
    BY <1>1, <1>2, <1>3, <2>2, <2>3, <2>4, <2>5, <2>6, SnapshotMoves DEF SnapshotInv, Types
<1> QED
  BY <1>4, <1>5

LEMMA FinishKeeps ==
    ASSUME SnapshotInv, NEW r \in Runs, Finish(r) PROVE SnapshotInv'
<1> DEFINE after == Over(r, "completed")
<1>1. after \in RunRecords /\ after.pc = "over"
  BY OverTyped
<1>2. run' = [run EXCEPT ![r] = after] /\ UNCHANGED <<published, snap, active, object, batch>>
  BY DEF Finish
<1> HIDE DEF after
<1>3. Sound(r, after, published, snap, object)
  BY <1>1, HoldsNothing, FreeIsSound DEF Finish, Leased, HoldPcs
<1> QED
  BY <1>1, <1>2, <1>3, RunMoves DEF SnapshotInv, Types

-----------------------------------------------------------------------------
(* A run reads the register. *)

LEMMA NewestIsAKey ==
    ASSUME SnapshotInv, active # <<>> PROVE NewestActive \in Keys
BY DEF NewestActive, SnapshotInv, Types

LEMMA VersionsKeep ==
    ASSUME SnapshotInv, NEW r \in Runs, CheckVersion(r) \/ Match(r) \/ ReadVersion(r)
    PROVE  SnapshotInv'
<1>1. run \in [Runs -> RunRecords] /\ run[r] \in RunRecords
      /\ published \in 1..MaxVersions /\ published \in 0..MaxVersions
  BY RegisterConstants DEF SnapshotInv, Types, Versions
<1>2. run[r].pc \in {"check", "match", "version"}
  BY DEF CheckVersion, Match, ReadVersion
<1>3. \A k \in Keys : snap[k].state = "pending" => snap[k].writer # r
  BY <1>2, HoldsNothing DEF HoldPcs
<1>4. run[r].status \in {"live", "failed"}
  BY <1>2 DEF SnapshotInv, RunsAreSound, Sound, IsAlive
<1>5. ASSUME NEW after \in RunRecords, run' = [run EXCEPT ![r] = after],
             Sound(r, after, published, snap, object)
      PROVE  SnapshotInv'
  <2>1. UNCHANGED <<published, snap, active, object, batch>>
    BY DEF CheckVersion, Match, ReadVersion
  <2>2. object' \in [Keys -> BOOLEAN] /\ \A k \in Keys : object[k] => object'[k]
    BY <2>1 DEF SnapshotInv, Types
  <2>3. Sound(r, after, published, snap, object')
    BY <1>5, <2>1
  <2> QED
    BY <1>5, <2>1, <2>2, <2>3, RunMoves
<1>6. CASE CheckVersion(r)
  <2> DEFINE after == [run[r] EXCEPT !.pc = "match", !.label = published]
  <2>1. after \in RunRecords /\ after.pc = "match" /\ after.status = run[r].status
    BY <1>1 DEF RunRecords, RunPcs
  <2>2. run' = [run EXCEPT ![r] = after]
    BY <1>1, <1>6 DEF CheckVersion
  <2> HIDE DEF after
  <2>3. Sound(r, after, published, snap, object)
    BY <1>3, <1>4, <2>1, FreeIsSound
  <2> QED
    BY <1>5, <2>1, <2>2, <2>3
<1>7. CASE Match(r) /\ active # <<>> /\ NewestActive.label = run[r].label
  <2> DEFINE after == [run[r] EXCEPT !.pc = "queue", !.target = NewestActive]
  <2>1. /\ after \in RunRecords /\ after.pc = "queue" /\ after.status = run[r].status
        /\ after.target \in Keys
    BY <1>1, <1>7, NewestIsAKey DEF RunRecords, RunPcs
  <2>2. run' = [run EXCEPT ![r] = after]
    BY <1>1, <1>7 DEF Match
  <2> HIDE DEF after
  <2>3. Sound(r, after, published, snap, object)
    BY <1>3, <1>4, <2>1, FreeIsSound
  <2> QED
    BY <1>5, <2>1, <2>2, <2>3
<1>8. CASE Match(r) /\ ~(active # <<>> /\ NewestActive.label = run[r].label)
  <2> DEFINE after == [run[r] EXCEPT !.pc = "version"]
  <2>1. after \in RunRecords /\ after.pc = "version" /\ after.status = run[r].status
    BY <1>1 DEF RunRecords, RunPcs
  <2>2. run' = [run EXCEPT ![r] = after]
    BY <1>1, <1>8 DEF Match, Goto
  <2> HIDE DEF after
  <2>3. Sound(r, after, published, snap, object)
    BY <1>3, <1>4, <2>1, FreeIsSound
  <2> QED
    BY <1>5, <2>1, <2>2, <2>3
<1>9. CASE ReadVersion(r)
  <2> DEFINE after == [run[r] EXCEPT !.pc = "page", !.label = published, !.got = <<>>]
  <2>1. /\ after \in RunRecords /\ after.pc = "page" /\ after.status = run[r].status
        /\ after.label = published /\ after.got = <<>>
    BY <1>1, NothingRead DEF RunRecords, RunPcs
  <2>2. run' = [run EXCEPT ![r] = after]
    BY <1>1, <1>9 DEF ReadVersion
  <2> HIDE DEF after
  <2>3. ReadsInOrder(after, published)
    BY <1>1, <2>1, RegisterConstants DEF ReadsInOrder, Versions, KeyPcs, HoldPcs
  <2>4. Sound(r, after, published, snap, object)
    BY <1>3, <1>4, <2>1, <2>3 DEF Sound, IsAlive, KeyPcs, HoldPcs
  <2> QED
    BY <1>5, <2>1, <2>2, <2>4
<1> QED
  BY <1>6, <1>7, <1>8, <1>9

LEMMA PagesKeep ==
    ASSUME SnapshotInv, NEW r \in Runs, FetchPage(r) PROVE SnapshotInv'
<1> DEFINE got == Append(run[r].got, published)
           next == IF Len(got) = PageCount THEN "open" ELSE "page"
           after == [run[r] EXCEPT !.got = got, !.pc = next]
<1>1. run \in [Runs -> RunRecords] /\ run[r] \in RunRecords /\ published \in Versions
  BY DEF SnapshotInv, Types
<1>2. run[r].pc = "page" /\ run[r].got \in Seq(Versions)
  BY <1>1 DEF FetchPage, RunRecords
<1>3. \A k \in Keys : snap[k].state = "pending" => snap[k].writer # r
  BY <1>2, HoldsNothing DEF HoldPcs
<1>4. ReadsInOrder(run[r], published) /\ run[r].status \in {"live", "failed"}
  BY <1>2 DEF SnapshotInv, RunsAreSound, Sound, IsAlive
<1>5. got \in Seq(Versions) /\ Len(got) = Len(run[r].got) + 1 /\ got[Len(got)] = published
      /\ \A i \in 1..Len(run[r].got) : got[i] = run[r].got[i]
  BY <1>1, <1>2
<1>6. run' = [run EXCEPT ![r] = after] /\ UNCHANGED <<published, snap, active, object, batch>>
  BY <1>1 DEF FetchPage
<1>7. next \in {"open", "page"} /\ (next = "open" <=> Len(got) = PageCount)
  OBVIOUS
<1> HIDE DEF got, next
<1>8. /\ after \in RunRecords /\ after.got = got /\ after.pc = next /\ after.label = run[r].label
      /\ after.status = run[r].status
  BY <1>1, <1>5, <1>7 DEF RunRecords, RunPcs, KeyPcs, HoldPcs
<1> HIDE DEF after
<1>9. ReadsInOrder(after, published)
  <2>1. Len(run[r].got) < PageCount /\ Len(run[r].got) \in Nat /\ PageCount \in Nat
    BY <1>2, <1>4, RegisterConstants DEF ReadsInOrder
  <2>2. run[r].label \in Versions /\ run[r].label <= published
    BY <1>2, <1>4 DEF ReadsInOrder
  <2>3. \A i \in 1..Len(got) : run[r].label <= got[i] /\ got[i] <= published
    <3>1. \A i \in 1..Len(run[r].got) : run[r].label <= run[r].got[i] /\ run[r].got[i] <= published
      BY <1>2, <1>4 DEF ReadsInOrder
    <3>2. ASSUME NEW i \in 1..Len(got) PROVE run[r].label <= got[i] /\ got[i] <= published
      <4>1. CASE i = Len(got)
        BY <1>1, <1>5, <2>2, <4>1 DEF Versions
      <4>2. CASE i # Len(got)
        <5>1. i \in 1..Len(run[r].got)
          BY <1>5, <2>1, <4>2
        <5> QED
          BY <1>5, <3>1, <5>1
      <4> QED
        BY <4>1, <4>2
    <3> QED
      BY <3>2
  <2> QED
    BY <1>5, <1>7, <1>8, <2>1, <2>2, <2>3 DEF ReadsInOrder, KeyPcs, HoldPcs
<1>10. Sound(r, after, published, snap, object)
  BY <1>3, <1>4, <1>7, <1>8, <1>9 DEF Sound, IsAlive, KeepsUp, KeyPcs, HoldPcs
<1> QED
  BY <1>6, <1>8, <1>10, RunMoves DEF SnapshotInv, Types

-----------------------------------------------------------------------------
(* A run that keeps its key: the snapshot of the key stays, or only grows. *)

Onward(r, after) ==
    /\ run[r].pc \in KeyPcs /\ after.pc \in KeyPcs
    /\ after.label = run[r].label /\ after.got = run[r].got /\ after.status = run[r].status
    /\ after.pc \in {"ready", "apply"} => after.target \in Keys
    /\ after.pc = "apply" => object[after.target]

Grows(old, new, r) ==
    \/ /\ old.state # "absent" /\ new.state = old.state /\ new.writer \in {old.writer, r}
       /\ old.rows \subseteq new.rows /\ old.readings \subseteq new.readings
       /\ new.payload = old.payload /\ (old.archive => new.archive)
    \/ old.state = "absent" /\ new.state = "pending" /\ new.writer = r /\ new.payload = "kept"

LEMMA KeyStays ==
    ASSUME SnapshotInv, NEW r \in Runs, NEW after \in RunRecords, Onward(r, after),
           run' = [run EXCEPT ![r] = after],
           UNCHANGED <<published, snap, active, batch>>,
           object' \in [Keys -> BOOLEAN], \A k \in Keys : object[k] => object'[k],
           KeepsUp(after, Snap(r)),
           Snap(r).state = "pending" /\ Snap(r).writer = r => after.pc \in HoldPcs
    PROVE  SnapshotInv'
<1>1. after.status \in {"live", "failed"}
  BY KeyKnown DEF Onward
<1>2. ASSUME NEW k \in Keys, snap[k].state = "pending", snap[k].writer = r
      PROVE  after.pc \in HoldPcs /\ k = Key(r)
  <2>1. run[r].pc \in HoldPcs
    BY <1>2, HoldsNothing DEF Onward, KeyPcs, HoldPcs
  <2> QED
    BY <1>2, <2>1, HoldsOnlyItsKey DEF Snap
<1>3. after.pc = "apply" => object'[after.target]
  BY DEF Onward, KeyPcs, HoldPcs
<1>4. Sound(r, after, published, snap, object')
  <2>1. /\ run[r].pc \in KeyPcs /\ after.pc \in KeyPcs
        /\ after.label = run[r].label /\ after.got = run[r].got
        /\ after.pc \in {"ready", "apply"} => after.target \in Keys
    BY DEF Onward
  <2>2. KeepsUp(after, snap[Key(r)])
    BY DEF Snap
  <2> QED
    BY <1>1, <1>2, <1>3, <2>1, <2>2, OnwardIsSound
<1> QED
  BY <1>4, RunMoves

LEMMA KeyGrows ==
    ASSUME SnapshotInv, NEW r \in Runs, NEW after \in RunRecords, Onward(r, after),
           NEW new \in SnapRecords, Grows(Snap(r), new, r),
           run' = [run EXCEPT ![r] = after], snap' = [snap EXCEPT ![Key(r)] = new],
           UNCHANGED <<published, active, object, batch>>,
           KeepsUp(after, new),
           new.state = "pending" /\ new.writer = r => after.pc \in HoldPcs
    PROVE  SnapshotInv'
<1>1. /\ Key(r) \in Keys /\ InOrder(Key(r), published) /\ after.status \in {"live", "failed"}
      /\ Snap(r) = snap[Key(r)] /\ Snap(r) \in SnapRecords /\ snap \in [Keys -> SnapRecords]
  BY KeyKnown DEF Onward, Snap, SnapshotInv, Types
<1>2. snap'[Key(r)] = new /\ \A k \in Keys : k # Key(r) => snap'[k] = snap[k]
  BY <1>1
<1>3. ASSUME NEW k \in Keys, snap'[k].state = "pending", snap'[k].writer = r
      PROVE  after.pc \in HoldPcs /\ k = Key(r)
  <2>1. CASE k = Key(r)
    BY <1>2, <1>3, <2>1
  <2>2. CASE k # Key(r)
    <3>1. snap[k].state = "pending" /\ snap[k].writer = r
      BY <1>2, <1>3, <2>2
    <3>2. run[r].pc \in HoldPcs
      BY <3>1, HoldsNothing DEF Onward, KeyPcs, HoldPcs
    <3> QED
      BY <3>1, <3>2, <2>2, HoldsOnlyItsKey
  <2> QED
    BY <2>1, <2>2
<1>4. Sound(r, after, published, snap', object)
  <2>1. /\ run[r].pc \in KeyPcs /\ after.pc \in KeyPcs
        /\ after.label = run[r].label /\ after.got = run[r].got
        /\ after.pc \in {"ready", "apply"} => after.target \in Keys
        /\ after.pc = "apply" => object[after.target]
    BY DEF Onward
  <2> QED
    BY <1>1, <1>2, <1>3, <2>1, OnwardIsSound
<1>5. Whole(new)
  BY <1>1 DEF Whole, Grows, SnapRecords, SnapshotInv, SnapshotsAreSound
<1>6. /\ new.state # "absent"
      /\ new.payload # "kept" => new.archive /\ object[Key(r)]
      /\ batch[Key(r)] \in {"startable", "running"} => new.payload # "archived"
  BY <1>1 DEF Grows, SnapshotInv, PayloadRecoverable, BatchHasItsRows
<1>7. new.state = "pending" =>
         \/ /\ snap[Key(r)].state = "pending" /\ new.writer \in {snap[Key(r)].writer, r}
            /\ snap[Key(r)].rows \subseteq new.rows /\ snap[Key(r)].readings \subseteq new.readings
         \/ snap[Key(r)].state = "absent" /\ new.writer = r
  BY <1>1 DEF Grows
<1>8. /\ object' \in [Keys -> BOOLEAN] /\ \A j \in Keys : object[j] => object'[j]
      /\ active' \in Seq(Keys) /\ UNCHANGED <<published, batch>>
      /\ new.payload # "kept" => new.archive /\ object'[Key(r)]
      /\ Sound(r, after, published, snap', object')
  BY <1>4, <1>6 DEF SnapshotInv, Types
<1> QED
  BY <1>1, <1>5, <1>6, <1>7, <1>8, SnapshotMoves

-----------------------------------------------------------------------------
(* A run opens or adopts its snapshot, and writes rows and readings. *)

\* A run turns from its key to the queue, or to nothing, once it holds nothing.
LEMMA LeavesItsKey ==
    ASSUME SnapshotInv, NEW r \in Runs, NEW after \in RunRecords, run[r].pc \in KeyPcs,
           after.pc \in {"queue", "finish"}, after.status = run[r].status,
           after.pc = "queue" => after.target \in Keys,
           Snap(r).state = "pending" => Snap(r).writer # r,
           run' = [run EXCEPT ![r] = after],
           UNCHANGED <<published, snap, active, object, batch>>
    PROVE  SnapshotInv'
<1>1. \A k \in Keys : snap[k].state = "pending" => snap[k].writer # r
  BY HoldsNothing, HoldsOnlyItsKey DEF Snap, KeyPcs, HoldPcs
<1>2. Sound(r, after, published, snap, object)
  BY <1>1, KeyKnown, FreeIsSound
<1> QED
  BY <1>2, RunMoves DEF SnapshotInv, Types

LEMMA OpeningKeeps ==
    ASSUME SnapshotInv, NEW r \in Runs, OpenSnapshot(r) PROVE SnapshotInv'
<1> DEFINE atRows == [run[r] EXCEPT !.pc = "rows", !.n = 1]
           created == [NoSnapshot EXCEPT !.state = "pending", !.creator = r, !.writer = r]
<1>1. /\ run \in [Runs -> RunRecords] /\ run[r] \in RunRecords /\ run[r].pc = "open"
      /\ run[r].pc \in KeyPcs /\ Key(r) \in Keys
  BY KeyKnown DEF OpenSnapshot, Leased, SnapshotInv, Types, KeyPcs, HoldPcs
<1>2. UNCHANGED <<published, active, object, batch>>
      /\ object' \in [Keys -> BOOLEAN] /\ \A k \in Keys : object[k] => object'[k]
  BY DEF OpenSnapshot, SnapshotInv, Types
<1>3. /\ atRows \in RunRecords /\ atRows.pc = "rows" /\ atRows.n = 1 /\ atRows.label = run[r].label
      /\ atRows.got = run[r].got /\ atRows.status = run[r].status
  BY <1>1 DEF RunRecords, RunPcs, KeyPcs, HoldPcs
<1>4. ToRows(r) => run' = [run EXCEPT ![r] = atRows]
  BY <1>1 DEF ToRows
<1>5. /\ created \in SnapRecords /\ created.state = "pending" /\ created.writer = r
      /\ created.rows = {} /\ created.payload = "kept"
  BY DEF NoSnapshot, SnapRecords
<1> HIDE DEF atRows, created
<1>6. Onward(r, atRows) /\ Onward(r, run[r]) /\ \A s : KeepsUp(run[r], s)
  BY <1>1, <1>3 DEF Onward, KeepsUp, KeyPcs, HoldPcs
<1>7. \A s : s.state # "absent" => KeepsUp(atRows, s)
  BY <1>3, RegisterConstants DEF KeepsUp, Pages
<1>8. CASE /\ Snap(r).state = "absent" /\ snap' = [snap EXCEPT ![Key(r)] = created]
           /\ ToRows(r) \/ UNCHANGED run
  <2>1. Grows(Snap(r), created, r)
    BY <1>5, <1>8 DEF Grows
  <2>2. CASE ToRows(r)
    BY <1>2, <1>3, <1>4, <1>5, <1>6, <1>7, <1>8, <2>1, <2>2, KeyGrows DEF HoldPcs
  <2>3. CASE UNCHANGED run
    <3>1. run' = [run EXCEPT ![r] = run[r]]
      BY <1>1, <2>3
    <3> QED
      BY <1>1, <1>2, <1>5, <1>6, <1>8, <2>1, <3>1, KeyGrows DEF HoldPcs
  <2> QED
    BY <1>8, <2>2, <2>3
<1>9. CASE Snap(r).state = "pending" /\ ToRows(r) /\ UNCHANGED snap
  BY <1>2, <1>3, <1>4, <1>6, <1>7, <1>9, KeyStays DEF HoldPcs
<1>10. CASE Active(Key(r)) /\ UNCHANGED snap
            /\ run' = [run EXCEPT ![r].pc = AfterReuse(r), ![r].target = Key(r)]
  <2> DEFINE next == AfterReuse(r)
             after == [run[r] EXCEPT !.pc = next, !.target = Key(r)]
  <2>1. next \in {"verify", "queue"} /\ run' = [run EXCEPT ![r] = after]
    BY <1>1, <1>10 DEF AfterReuse
  <2> HIDE DEF next
  <2>2. /\ after \in RunRecords /\ after.pc = next /\ after.target \in Keys
        /\ after.label = run[r].label /\ after.got = run[r].got /\ after.status = run[r].status
    BY <1>1, <2>1 DEF RunRecords, RunPcs, KeyPcs, HoldPcs
  <2>3. Snap(r).state = "complete"
    BY <1>10 DEF Active, Snap
  <2> HIDE DEF after
  <2>4. CASE next = "verify"
    <3>1. Onward(r, after) /\ KeepsUp(after, Snap(r))
      BY <1>1, <2>2, <2>3, <2>4 DEF Onward, KeepsUp, KeyPcs, HoldPcs
    <3> QED
      BY <1>2, <1>10, <2>1, <2>2, <2>3, <3>1, KeyStays
  <2>5. CASE next = "queue"
    <3>1. after.pc \in {"queue", "finish"} /\ Snap(r).state # "pending"
      BY <2>2, <2>3, <2>5
    <3>2. UNCHANGED <<published, snap, active, object, batch>>
      BY <1>2, <1>10
    <3> QED
      BY <1>1, <2>1, <2>2, <3>1, <3>2, LeavesItsKey
  <2> QED
    BY <2>1, <2>4, <2>5
<1>11. CASE Snap(r).state \in {"pending", "failed"} /\ Goto(r, "adopt") /\ UNCHANGED snap
  <2> DEFINE after == [run[r] EXCEPT !.pc = "adopt"]
  <2>1. /\ after \in RunRecords /\ after.pc = "adopt" /\ after.label = run[r].label
        /\ after.got = run[r].got /\ after.status = run[r].status
    BY <1>1 DEF RunRecords, RunPcs, KeyPcs, HoldPcs
  <2>2. run' = [run EXCEPT ![r] = after]
    BY <1>1, <1>11 DEF Goto
  <2> HIDE DEF after
  <2>3. Onward(r, after) /\ KeepsUp(after, Snap(r)) /\ after.pc \in HoldPcs
    BY <1>1, <1>11, <2>1 DEF Onward, KeepsUp, KeyPcs, HoldPcs
  <2> QED
    BY <1>2, <1>11, <2>1, <2>2, <2>3, KeyStays
<1> QED
  BY <1>8, <1>9, <1>10, <1>11 DEF OpenSnapshot, created

LEMMA AdoptionKeeps ==
    ASSUME SnapshotInv, NEW r \in Runs, AdoptSnapshot(r) PROVE SnapshotInv'
<1> DEFINE atRows == [run[r] EXCEPT !.pc = "rows", !.n = 1]
           adopted == [Snap(r) EXCEPT !.writer = r, !.adopters = @ \cup {r}]
<1>1. /\ run \in [Runs -> RunRecords] /\ run[r] \in RunRecords /\ run[r].pc = "adopt"
      /\ run[r].pc \in KeyPcs /\ Key(r) \in Keys /\ KeepsUp(run[r], Snap(r))
  BY KeyKnown DEF AdoptSnapshot, Leased, SnapshotInv, Types, KeyPcs, HoldPcs
<1>2. UNCHANGED <<published, active, object, batch>>
  BY DEF AdoptSnapshot
<1>3. /\ atRows \in RunRecords /\ atRows.pc = "rows" /\ atRows.n = 1 /\ atRows.label = run[r].label
      /\ atRows.got = run[r].got /\ atRows.status = run[r].status
  BY <1>1 DEF RunRecords, RunPcs, KeyPcs, HoldPcs
<1>4. ToRows(r) => run' = [run EXCEPT ![r] = atRows]
  BY <1>1 DEF ToRows
<1>5. Snap(r) = snap[Key(r)] /\ Snap(r) \in SnapRecords /\ snap \in [Keys -> SnapRecords]
      /\ Snap(r).state # "absent"
  BY <1>1 DEF Snap, SnapshotInv, Types, KeepsUp
<1>6. adopted \in SnapRecords /\ Grows(Snap(r), adopted, r) /\ adopted.state = Snap(r).state
  BY <1>5 DEF SnapRecords, Grows
<1>7. CASE snap[Key(r)].writer = r \/ (Adoptable(Key(r)) /\ Live(r))
  <2>1. snap' = [snap EXCEPT ![Key(r)] = adopted]
    BY <1>1, <1>5, <1>7 DEF AdoptSnapshot
  <2> HIDE DEF atRows, adopted
  <2>2. CASE ToRows(r)
    <3>1. Onward(r, atRows) /\ KeepsUp(atRows, adopted)
      BY <1>1, <1>3, <1>5, <1>6, RegisterConstants DEF Onward, KeepsUp, KeyPcs, HoldPcs, Pages
    <3> QED
      BY <1>2, <1>3, <1>4, <1>6, <2>1, <2>2, <3>1, KeyGrows DEF HoldPcs
  <2>3. CASE UNCHANGED run
    <3>1. run' = [run EXCEPT ![r] = run[r]]
      BY <1>1, <2>3
    <3>2. Onward(r, run[r]) /\ KeepsUp(run[r], adopted)
      BY <1>1, <1>5, <1>6 DEF Onward, KeepsUp, KeyPcs, HoldPcs
    <3> QED
      BY <1>1, <1>2, <1>6, <2>1, <3>1, <3>2, KeyGrows DEF HoldPcs
  <2> QED
    BY <1>7, <2>2, <2>3 DEF AdoptSnapshot
<1>8. CASE ~(snap[Key(r)].writer = r \/ (Adoptable(Key(r)) /\ Live(r)))
  <2>1. Fails(r, "none")
    BY <1>8 DEF AdoptSnapshot
  <2> QED
    BY <1>1, <1>2, <2>1, FailsKeeps DEF CapturePcs
<1> QED
  BY <1>7, <1>8

LEMMA NextBatch ==
    ASSUME NEW n \in Pages, NEW S \in SUBSET Pages, 1..(n - 1) \subseteq S
    PROVE  /\ S \cup {n} \in SUBSET Pages
           /\ n = PageCount => S \cup {n} = Pages
           /\ n # PageCount => n + 1 \in Pages /\ 1..((n + 1) - 1) \subseteq S \cup {n}
           /\ 1 \in Pages /\ 1..(1 - 1) = {}
<1>1. PageCount \in Nat /\ PageCount >= 1 /\ n \in 1..PageCount
  BY RegisterConstants DEF Pages
<1>2. 1..n \subseteq S \cup {n}
  <2>1. ASSUME NEW i \in 1..n PROVE i \in S \cup {n}
    BY <1>1, <2>1
  <2> QED
    BY <2>1
<1>3. n # PageCount => n + 1 \in Pages /\ (n + 1) - 1 = n
  BY <1>1 DEF Pages
<1>4. 1 \in Pages /\ 1..(1 - 1) = {}
  BY <1>1 DEF Pages
<1> QED
  BY <1>1, <1>2, <1>3, <1>4 DEF Pages

LEMMA WritingKeeps ==
    ASSUME SnapshotInv, NEW r \in Runs, WriteRows(r) \/ WriteReadings(r) PROVE SnapshotInv'
<1>1. /\ run \in [Runs -> RunRecords] /\ run[r] \in RunRecords /\ run[r].pc \in {"rows", "readings"}
      /\ run[r].pc \in KeyPcs /\ Key(r) \in Keys /\ KeepsUp(run[r], Snap(r))
      /\ run[r].n \in Nat
  BY KeyKnown DEF WriteRows, WriteReadings, Leased, SnapshotInv, Types, RunRecords, KeyPcs, HoldPcs
<1>2. UNCHANGED <<published, active, object, batch>>
  BY DEF WriteRows, WriteReadings
<1>3. CASE ~MayWrite(r)
  <2>1. Fails(r, "none")
    BY <1>3 DEF WriteRows, WriteReadings
  <2> QED
    BY <1>1, <1>2, <2>1, FailsKeeps DEF CapturePcs
<1>4. CASE MayWrite(r)
  <2>1. Snap(r) = snap[Key(r)] /\ Snap(r) \in SnapRecords /\ snap \in [Keys -> SnapRecords]
        /\ Snap(r).state = "pending" /\ Snap(r).writer = r
    BY <1>1, <1>4 DEF MayWrite, Snap, SnapshotInv, Types
  <2>2. run[r].n \in Pages /\ PageCount \in Nat
    BY <1>1, <2>1, RegisterConstants DEF KeepsUp
  <2>3. CASE WriteRows(r)
    <3> DEFINE final == run[r].n = PageCount
               n == IF final THEN 1 ELSE run[r].n + 1
               pc == IF final THEN "readings" ELSE "rows"
               after == [run[r] EXCEPT !.n = n, !.pc = pc]
               new == [Snap(r) EXCEPT !.rows = @ \cup {run[r].n}]
    <3>1. run[r].pc = "rows" /\ 1..(run[r].n - 1) \subseteq Snap(r).rows
      BY <1>1, <2>1, <2>3 DEF KeepsUp, WriteRows, Leased
    <3>2. run' = [run EXCEPT ![r] = after]
      BY <1>1, <1>4, <2>3, <3>1 DEF WriteRows, Advance, AfterRows
    <3>3. snap' = [snap EXCEPT ![Key(r)] = new]
      BY <1>1, <1>4, <2>1, <2>3 DEF WriteRows
    <3>4. Snap(r).rows \in SUBSET Pages
      BY <2>1 DEF SnapRecords
    <3>5. n \in Nat /\ pc \in {"rows", "readings"} /\ (final => n = 1 /\ pc = "readings")
          /\ (~final => n = run[r].n + 1 /\ pc = "rows")
      BY <1>1
    <3>6. /\ Snap(r).rows \cup {run[r].n} \in SUBSET Pages
          /\ final => Snap(r).rows \cup {run[r].n} = Pages
          /\ ~final => run[r].n + 1 \in Pages
                      /\ 1..((run[r].n + 1) - 1) \subseteq Snap(r).rows \cup {run[r].n}
          /\ 1 \in Pages /\ 1..(1 - 1) = {}
      <4> DEFINE m == run[r].n   S == Snap(r).rows
      <4>1. m \in Pages /\ S \in SUBSET Pages /\ 1..(m - 1) \subseteq S
        BY <2>2, <3>1, <3>4
      <4> HIDE DEF m, S
      <4>2. /\ S \cup {m} \in SUBSET Pages
            /\ m = PageCount => S \cup {m} = Pages
            /\ m # PageCount => m + 1 \in Pages /\ 1..((m + 1) - 1) \subseteq S \cup {m}
            /\ 1 \in Pages /\ 1..(1 - 1) = {}
        BY <4>1, NextBatch
      <4> QED
        BY <4>2 DEF m, S
    <3> HIDE DEF n, pc, final
    <3>7. /\ after \in RunRecords /\ after.pc = pc /\ after.n = n /\ after.label = run[r].label
          /\ after.got = run[r].got /\ after.status = run[r].status
      BY <1>1, <3>5 DEF RunRecords, RunPcs, KeyPcs, HoldPcs
    <3>8. /\ new \in SnapRecords /\ Grows(Snap(r), new, r) /\ new.state = "pending"
          /\ new.rows = Snap(r).rows \cup {run[r].n}
      BY <2>1, <3>6 DEF SnapRecords, Grows
    <3> HIDE DEF after, new
    <3>9. Onward(r, after) /\ after.pc \in HoldPcs
      BY <1>1, <3>5, <3>7 DEF Onward, KeyPcs, HoldPcs
    <3>10. KeepsUp(after, new)
      BY <3>5, <3>6, <3>7, <3>8 DEF KeepsUp
    <3> QED
      BY <1>2, <3>2, <3>3, <3>7, <3>8, <3>9, <3>10, KeyGrows
  <2>4. CASE WriteReadings(r)
    <3> DEFINE final == run[r].n = PageCount
               n == IF final THEN 1 ELSE run[r].n + 1
               next == IF r \in Captures THEN "verify" ELSE "activate"
               pc == IF final THEN next ELSE "readings"
               after == [run[r] EXCEPT !.n = n, !.pc = pc]
               new == [Snap(r) EXCEPT !.readings = @ \cup {run[r].n}]
    <3>1. run[r].pc = "readings" /\ 1..(run[r].n - 1) \subseteq Snap(r).readings
          /\ Snap(r).rows = Pages
      BY <1>1, <2>1, <2>4 DEF KeepsUp, WriteReadings, Leased
    <3>2. run' = [run EXCEPT ![r] = after]
      BY <1>1, <1>4, <2>4, <3>1 DEF WriteReadings, Advance
    <3>3. snap' = [snap EXCEPT ![Key(r)] = new]
      BY <1>1, <1>4, <2>1, <2>4 DEF WriteReadings
    <3>4. Snap(r).readings \in SUBSET Pages
      BY <2>1 DEF SnapRecords
    <3>5. n \in Nat /\ next \in {"verify", "activate"} /\ (final => n = 1 /\ pc = next)
          /\ (~final => n = run[r].n + 1 /\ pc = "readings")
      BY <1>1
    <3>6. /\ Snap(r).readings \cup {run[r].n} \in SUBSET Pages
          /\ final => Snap(r).readings \cup {run[r].n} = Pages
          /\ ~final => run[r].n + 1 \in Pages
                      /\ 1..((run[r].n + 1) - 1) \subseteq Snap(r).readings \cup {run[r].n}
          /\ 1 \in Pages /\ 1..(1 - 1) = {}
      <4> DEFINE m == run[r].n   S == Snap(r).readings
      <4>1. m \in Pages /\ S \in SUBSET Pages /\ 1..(m - 1) \subseteq S
        BY <2>2, <3>1, <3>4
      <4> HIDE DEF m, S
      <4>2. /\ S \cup {m} \in SUBSET Pages
            /\ m = PageCount => S \cup {m} = Pages
            /\ m # PageCount => m + 1 \in Pages /\ 1..((m + 1) - 1) \subseteq S \cup {m}
            /\ 1 \in Pages /\ 1..(1 - 1) = {}
        BY <4>1, NextBatch
      <4> QED
        BY <4>2 DEF m, S
    <3> HIDE DEF n, pc, final, next
    <3>7. /\ after \in RunRecords /\ after.pc = pc /\ after.n = n /\ after.label = run[r].label
          /\ after.got = run[r].got /\ after.status = run[r].status
      BY <1>1, <3>5 DEF RunRecords, RunPcs, KeyPcs, HoldPcs
    <3>8. /\ new \in SnapRecords /\ Grows(Snap(r), new, r) /\ new.state = "pending"
          /\ new.readings = Snap(r).readings \cup {run[r].n} /\ new.rows = Pages
      BY <2>1, <3>1, <3>6 DEF SnapRecords, Grows
    <3> HIDE DEF after, new
    <3>9. Onward(r, after) /\ after.pc \in HoldPcs
      BY <1>1, <3>5, <3>7 DEF Onward, KeyPcs, HoldPcs
    <3>10. KeepsUp(after, new)
      BY <3>5, <3>6, <3>7, <3>8 DEF KeepsUp
    <3> QED
      BY <1>2, <3>2, <3>3, <3>7, <3>8, <3>9, <3>10, KeyGrows
  <2> QED
    BY <2>3, <2>4
<1> QED
  BY <1>3, <1>4

-----------------------------------------------------------------------------
(* A run counts, archives and activates its snapshot. *)

LEMMA ActivationKeeps ==
    ASSUME SnapshotInv, NEW r \in Runs, Activate(r) PROVE SnapshotInv'
<1>1. /\ run \in [Runs -> RunRecords] /\ run[r] \in RunRecords /\ run[r].pc = "activate"
      /\ run[r].pc \in KeyPcs /\ Key(r) \in Keys /\ KeepsUp(run[r], Snap(r))
      /\ InOrder(Key(r), published) /\ run[r].status \in {"live", "failed"}
      /\ Snap(r) = snap[Key(r)] /\ Snap(r) \in SnapRecords /\ snap \in [Keys -> SnapRecords]
  BY KeyKnown DEF Activate, Leased, Snap, SnapshotInv, Types, KeyPcs, HoldPcs
<1>2. UNCHANGED <<published, object, batch>>
      /\ object' \in [Keys -> BOOLEAN] /\ \A k \in Keys : object[k] => object'[k]
  BY DEF Activate, SnapshotInv, Types
<1>3. \A k \in Keys : snap[k].state = "pending" /\ snap[k].writer = r => k = Key(r)
  BY <1>1, HoldsOnlyItsKey DEF HoldPcs
<1>4. CASE MayWrite(r) /\ Snap(r).rows = Pages /\ UNCHANGED run
           /\ snap' = [snap EXCEPT ![Key(r)].state = "complete"] /\ active' = Append(active, Key(r))
  <2> DEFINE new == [Snap(r) EXCEPT !.state = "complete"]
  <2>1. Snap(r).state = "pending" /\ Snap(r).readings = Pages
    BY <1>1, <1>4 DEF MayWrite, KeepsUp
  <2>2. snap' = [snap EXCEPT ![Key(r)] = new] /\ run' = [run EXCEPT ![r] = run[r]]
    BY <1>1, <1>4
  <2>3. /\ new \in SnapRecords /\ new.state = "complete" /\ new.rows = Pages /\ new.readings = Pages
        /\ new.payload = Snap(r).payload /\ new.archive = Snap(r).archive
    BY <1>1, <1>4, <2>1 DEF SnapRecords
  <2> HIDE DEF new
  <2>4. Sound(r, run[r], published, snap', object')
    <3>1. KeepsUp(run[r], snap'[Key(r)])
      BY <1>1, <2>2, <2>3 DEF KeepsUp
    <3>2. \A k \in Keys : ~(snap'[k].state = "pending" /\ snap'[k].writer = r)
      BY <1>1, <1>3, <2>2, <2>3
    <3>3. run[r].pc \notin {"ready", "apply"}
      BY <1>1
    <3> QED
      BY <1>1, <3>1, <3>2, <3>3, OnwardIsSound
  <2>5. active' \in Seq(Keys) /\ Whole(new)
    BY <1>1, <1>4, <2>3 DEF SnapshotInv, Types, Whole
  <2>6. /\ new.payload # "kept" => new.archive /\ object'[Key(r)]
        /\ batch[Key(r)] \in {"startable", "running"} => new.payload # "archived"
    BY <1>1, <1>2, <2>3 DEF SnapshotInv, PayloadRecoverable, BatchHasItsRows
  <2> QED
    BY <1>1, <1>2, <2>2, <2>3, <2>4, <2>5, <2>6, SnapshotMoves
<1>5. CASE /\ MayWrite(r) /\ snap' = [snap EXCEPT ![Key(r)].state = "failed"]
           /\ run' = [run EXCEPT ![r] = Over(r, "failed")] /\ UNCHANGED active
  <2> DEFINE new == [Snap(r) EXCEPT !.state = "failed"]
             after == Over(r, "failed")
  <2>1. snap' = [snap EXCEPT ![Key(r)] = new] /\ run' = [run EXCEPT ![r] = after]
    BY <1>1, <1>5
  <2>2. /\ new \in SnapRecords /\ new.state = "failed"
        /\ new.payload = Snap(r).payload /\ new.archive = Snap(r).archive
    BY <1>1 DEF SnapRecords
  <2>3. after \in RunRecords /\ after.pc = "over" /\ after.status = "failed"
    BY OverTyped
  <2> HIDE DEF new, after
  <2>4. Sound(r, after, published, snap', object') /\ Whole(new)
    BY <2>2, <2>3, StoppedIsSound DEF Whole
  <2>5. /\ new.payload # "kept" => new.archive /\ object'[Key(r)]
        /\ batch[Key(r)] \in {"startable", "running"} => new.payload # "archived"
    BY <1>1, <1>2, <2>2 DEF SnapshotInv, PayloadRecoverable, BatchHasItsRows
  <2>6. active' \in Seq(Keys)
    BY <1>5 DEF SnapshotInv, Types
  <2> QED
    BY <1>1, <1>2, <2>1, <2>2, <2>3, <2>4, <2>5, <2>6, SnapshotMoves
<1>6. CASE /\ Snap(r).writer = r /\ Active(Key(r)) /\ UNCHANGED <<snap, active>>
           /\ run' = [run EXCEPT ![r].pc = AfterReuse(r), ![r].target = Key(r)]
  <2> DEFINE next == AfterReuse(r)
             after == [run[r] EXCEPT !.pc = next, !.target = Key(r)]
  <2>1. next \in {"verify", "queue"} /\ run' = [run EXCEPT ![r] = after]
    BY <1>1, <1>6 DEF AfterReuse
  <2> HIDE DEF next
  <2>2. /\ after \in RunRecords /\ after.pc = next /\ after.target \in Keys
        /\ after.label = run[r].label /\ after.got = run[r].got /\ after.status = run[r].status
    BY <1>1, <2>1 DEF RunRecords, RunPcs, KeyPcs, HoldPcs
  <2>3. Snap(r).state = "complete"
    BY <1>6 DEF Active, Snap
  <2> HIDE DEF after
  <2>4. CASE next = "verify"
    <3>1. Onward(r, after) /\ KeepsUp(after, Snap(r))
      BY <1>1, <2>2, <2>3, <2>4 DEF Onward, KeepsUp, KeyPcs, HoldPcs
    <3> QED
      BY <1>2, <1>6, <2>1, <2>2, <2>3, <3>1, KeyStays
  <2>5. CASE next = "queue"
    <3>1. after.pc \in {"queue", "finish"} /\ Snap(r).state # "pending"
      BY <2>2, <2>3, <2>5
    <3>2. UNCHANGED <<published, snap, active, object, batch>>
      BY <1>2, <1>6
    <3> QED
      BY <1>1, <2>1, <2>2, <3>1, <3>2, LeavesItsKey
  <2> QED
    BY <2>1, <2>4, <2>5
<1> QED
  BY <1>4, <1>5, <1>6 DEF Activate

LEMMA CountKeeps ==
    ASSUME SnapshotInv, NEW r \in Runs, VerifyCount(r) PROVE SnapshotInv'
<1>1. /\ run \in [Runs -> RunRecords] /\ run[r] \in RunRecords /\ run[r].pc = "verify"
      /\ run[r].pc \in KeyPcs /\ KeepsUp(run[r], Snap(r))
  BY KeyKnown DEF VerifyCount, SnapshotInv, Types, KeyPcs, HoldPcs
<1>2. UNCHANGED <<published, active, object, batch>>
      /\ object' \in [Keys -> BOOLEAN] /\ \A k \in Keys : object[k] => object'[k]
  BY DEF VerifyCount, SnapshotInv, Types
<1>3. CASE run' = [run EXCEPT ![r].pc = "archive", ![r].counted = "yes"] /\ UNCHANGED snap
  <2> DEFINE after == [run[r] EXCEPT !.pc = "archive", !.counted = "yes"]
  <2>1. /\ after \in RunRecords /\ after.pc = "archive" /\ after.label = run[r].label
        /\ after.got = run[r].got /\ after.status = run[r].status
    BY <1>1 DEF RunRecords, RunPcs, KeyPcs, HoldPcs
  <2>2. run' = [run EXCEPT ![r] = after]
    BY <1>1, <1>3
  <2> HIDE DEF after
  <2>3. Onward(r, after) /\ KeepsUp(after, Snap(r)) /\ after.pc \in HoldPcs
    BY <1>1, <2>1 DEF Onward, KeepsUp, KeyPcs, HoldPcs
  <2> QED
    BY <1>2, <1>3, <2>1, <2>2, <2>3, KeyStays
<1>4. CASE Fails(r, "no")
  BY <1>1, <1>2, <1>4, FailsKeeps DEF CapturePcs
<1> QED
  BY <1>3, <1>4 DEF VerifyCount

LEMMA ArchivingKeeps ==
    ASSUME SnapshotInv, NEW r \in Runs,
           EnsureArchive(r) \/ RecordArchive(r) \/ RecordCaptured(r)
    PROVE  SnapshotInv'
<1>1. /\ run \in [Runs -> RunRecords] /\ run[r] \in RunRecords
      /\ run[r].pc \in {"archive", "recordArchive", "record"}
      /\ run[r].pc \in KeyPcs /\ Key(r) \in Keys /\ KeepsUp(run[r], Snap(r))
      /\ Snap(r) = snap[Key(r)] /\ Snap(r) \in SnapRecords /\ snap \in [Keys -> SnapRecords]
      /\ object \in [Keys -> BOOLEAN]
  BY KeyKnown DEF EnsureArchive, RecordArchive, RecordCaptured, Leased, Snap, SnapshotInv, Types,
                  KeyPcs, HoldPcs
<1>2. Snap(r).state # "absent"
  BY <1>1 DEF KeepsUp
<1>3. UNCHANGED <<published, active, batch>>
  BY DEF EnsureArchive, RecordArchive, RecordCaptured
<1>4. ASSUME NEW pc \in {"record", "activate", "recordArchive", "build"}
      PROVE  [run[r] EXCEPT !.pc = pc] \in RunRecords
             /\ (Goto(r, pc) => run' = [run EXCEPT ![r] = [run[r] EXCEPT !.pc = pc]])
             /\ Onward(r, [run[r] EXCEPT !.pc = pc])
  BY <1>1 DEF Goto, RunRecords, RunPcs, KeyPcs, HoldPcs, Onward
<1>5. /\ AfterArchive(r) \in {"record", "activate"}
      /\ AfterArchive(r) = "record" => Snap(r).state = "complete"
  BY DEF AfterArchive, Active, Snap
<1>6. ASSUME NEW s, NEW pc \in {"record", "activate", "recordArchive", "build"},
             s.state = Snap(r).state, s.rows = Snap(r).rows, s.readings = Snap(r).readings,
             run[r].pc = "record" \/ pc = "build" => s.state = "complete"
      PROVE  KeepsUp([run[r] EXCEPT !.pc = pc], s)
  <2>1. [run[r] EXCEPT !.pc = pc].pc = pc
    BY <1>1 DEF RunRecords
  <2> QED
    BY <1>1, <1>2, <1>6, <2>1 DEF KeepsUp
<1>7. CASE EnsureArchive(r) /\ Snap(r).archive
  <2> DEFINE next == AfterArchive(r)
             after == [run[r] EXCEPT !.pc = next]
  <2>1. Goto(r, next) /\ UNCHANGED <<snap, object>> /\ run[r].pc = "archive"
    BY <1>7 DEF EnsureArchive
  <2> HIDE DEF next
  <2>2. next \in {"record", "activate"} /\ (next = "record" => Snap(r).state = "complete")
    BY <1>5 DEF next
  <2>3. after \in RunRecords /\ run' = [run EXCEPT ![r] = after] /\ Onward(r, after) /\ after.pc = next
    BY <1>1, <1>4, <2>1, <2>2 DEF RunRecords
  <2>4. KeepsUp(after, Snap(r))
    BY <1>6, <2>1, <2>2
  <2> HIDE DEF after
  <2>5. Snap(r).state = "pending" /\ Snap(r).writer = r => after.pc \in HoldPcs
    BY <2>2, <2>3 DEF HoldPcs
  <2> QED
    BY <1>1, <1>3, <2>1, <2>3, <2>4, <2>5, KeyStays
<1>8. CASE EnsureArchive(r) /\ ~Snap(r).archive
  <2> DEFINE after == [run[r] EXCEPT !.pc = "recordArchive"]
  <2>1. /\ Goto(r, "recordArchive") /\ UNCHANGED snap /\ run[r].pc = "archive"
        /\ object' = [object EXCEPT ![Key(r)] = TRUE]
    BY <1>8 DEF EnsureArchive
  <2>2. after \in RunRecords /\ run' = [run EXCEPT ![r] = after] /\ Onward(r, after)
        /\ after.pc = "recordArchive"
    BY <1>1, <1>4, <2>1 DEF RunRecords
  <2>3. KeepsUp(after, Snap(r))
    BY <1>6, <2>1
  <2> HIDE DEF after
  <2>4. object' \in [Keys -> BOOLEAN] /\ \A k \in Keys : object[k] => object'[k]
    BY <1>1, <2>1
  <2> QED
    BY <1>3, <2>1, <2>2, <2>3, <2>4, KeyStays DEF HoldPcs
<1>9. CASE RecordArchive(r) /\ Snap(r).rows = Pages
  <2> DEFINE next == AfterArchive(r)
             after == [run[r] EXCEPT !.pc = next]
             new == [Snap(r) EXCEPT !.archive = TRUE]
  <2>1. Goto(r, next) /\ UNCHANGED object /\ run[r].pc = "recordArchive"
        /\ snap' = [snap EXCEPT ![Key(r)] = new]
    BY <1>1, <1>9 DEF RecordArchive, Leased
  <2> HIDE DEF next
  <2>2. next \in {"record", "activate"} /\ (next = "record" => Snap(r).state = "complete")
    BY <1>5 DEF next
  <2>3. after \in RunRecords /\ run' = [run EXCEPT ![r] = after] /\ Onward(r, after) /\ after.pc = next
    BY <1>1, <1>4, <2>1, <2>2 DEF RunRecords
  <2>4. new \in SnapRecords /\ Grows(Snap(r), new, r) /\ new.state = Snap(r).state
        /\ new.rows = Snap(r).rows /\ new.readings = Snap(r).readings
    BY <1>1, <1>2 DEF SnapRecords, Grows
  <2> HIDE DEF new
  <2>5. KeepsUp(after, new)
    BY <1>6, <2>1, <2>2, <2>4
  <2> HIDE DEF after
  <2>6. new.state = "pending" /\ new.writer = r => after.pc \in HoldPcs
    BY <2>2, <2>3, <2>4 DEF HoldPcs
  <2> QED
    BY <1>3, <2>1, <2>3, <2>4, <2>5, <2>6, KeyGrows
<1>10. CASE RecordArchive(r) /\ Snap(r).rows # Pages
  <2>1. Fails(r, "no") /\ UNCHANGED <<published, active, object, batch>>
    BY <1>10 DEF RecordArchive
  <2> QED
    BY <1>1, <2>1, FailsKeeps DEF CapturePcs
<1>11. CASE RecordCaptured(r) /\ Active(Key(r)) /\ Snap(r).archive
  <2> DEFINE after == [run[r] EXCEPT !.pc = "build"]
             new == [Snap(r) EXCEPT !.verified = "yes"]
  <2>1. Goto(r, "build") /\ UNCHANGED object /\ Snap(r).state = "complete"
        /\ snap' = [snap EXCEPT ![Key(r)] = new]
    BY <1>1, <1>11 DEF RecordCaptured, Active
  <2>2. after \in RunRecords /\ run' = [run EXCEPT ![r] = after] /\ Onward(r, after)
    BY <1>1, <1>4, <2>1
  <2>3. new \in SnapRecords /\ Grows(Snap(r), new, r) /\ new.state = "complete"
        /\ new.rows = Snap(r).rows /\ new.readings = Snap(r).readings
    BY <1>1, <2>1 DEF SnapRecords, Grows
  <2> HIDE DEF new
  <2>4. KeepsUp(after, new)
    BY <1>6, <2>1, <2>3
  <2> HIDE DEF after
  <2> QED
    BY <1>3, <2>1, <2>2, <2>3, <2>4, KeyGrows
<1>12. CASE RecordCaptured(r) /\ ~(Active(Key(r)) /\ Snap(r).archive)
  <2>1. Fails(r, run[r].counted) /\ UNCHANGED <<published, active, object, batch>>
    BY <1>12 DEF RecordCaptured
  <2>2. run[r].counted \in {"none", "yes", "no"}
    BY <1>1 DEF RunRecords
  <2> QED
    BY <1>1, <2>1, <2>2, FailsKeeps DEF CapturePcs
<1> QED
  BY <1>7, <1>8, <1>9, <1>10, <1>11, <1>12

-----------------------------------------------------------------------------
(* A run builds the variants, compacts, and finishes. *)

Finished(r) == [run[r] EXCEPT !.pc = "finish", !.label = 0, !.got = <<>>, !.n = 0,
                              !.counted = "none", !.target = <<>>, !.tried = {}]
Advanced(r) == [run[r] EXCEPT !.tried = @ \cup {run[r].target}, !.pc = "superseded", !.target = <<>>]

LEMMA FinishedTyped ==
    ASSUME SnapshotInv, NEW r \in Runs
    PROVE  /\ Finished(r) \in RunRecords /\ Finished(r).pc = "finish"
           /\ Finished(r).status = run[r].status
           /\ ToFinish(r) => run' = [run EXCEPT ![r] = Finished(r)]
<1>1. run[r] \in RunRecords /\ run \in [Runs -> RunRecords]
  BY DEF SnapshotInv, Types
<1>2. Finished(r) \in RunRecords /\ Finished(r).pc = "finish" /\ Finished(r).status = run[r].status
  BY <1>1, NothingRead DEF Finished, RunRecords, RunPcs
<1>3. ToFinish(r) => run' = [run EXCEPT ![r] = Finished(r)]
  BY DEF ToFinish, Finished
<1> QED
  BY <1>2, <1>3

LEMMA AdvancedTyped ==
    ASSUME SnapshotInv, NEW r \in Runs, run[r].pc \in {"ready", "apply"}
    PROVE  /\ Advanced(r) \in RunRecords /\ Advanced(r).pc = "superseded" /\ Onward(r, Advanced(r))
           /\ run[r].target \in Keys
           /\ NextTarget(r) => run' = [run EXCEPT ![r] = Advanced(r)]
<1>1. run[r] \in RunRecords /\ run \in [Runs -> RunRecords]
  BY DEF SnapshotInv, Types
<1>2. run[r].target \in Keys
  BY DEF SnapshotInv, RunsAreSound, Sound, IsAlive
<1>3. /\ Advanced(r) \in RunRecords /\ Advanced(r).pc = "superseded"
      /\ Advanced(r).label = run[r].label /\ Advanced(r).got = run[r].got
      /\ Advanced(r).status = run[r].status
  BY <1>1, <1>2, NothingRead DEF Advanced, RunRecords, RunPcs, KeyPcs, HoldPcs
<1>4. Onward(r, Advanced(r))
  BY <1>3 DEF Onward, KeyPcs, HoldPcs
<1>5. NextTarget(r) => run' = [run EXCEPT ![r] = Advanced(r)]
  BY <1>1 DEF NextTarget, Advanced
<1> QED
  BY <1>2, <1>3, <1>4, <1>5

\* A run past its own captures goes on to the next snapshot, or finishes.
LEMMA NextOrFinishKeeps ==
    ASSUME SnapshotInv, NEW r \in Runs,
           \/ run[r].pc \in {"build", "ready", "apply", "superseded"} /\ ToFinish(r)
           \/ run[r].pc \in {"ready", "apply"} /\ NextTarget(r),
           UNCHANGED <<published, snap, active, object, batch>>
    PROVE  SnapshotInv'
<1>1. run[r].pc \in KeyPcs /\ run[r].pc \notin HoldPcs \cup {"gone", "over", "open"} /\ Key(r) \in Keys
      /\ KeepsUp(run[r], Snap(r))
  BY KeyKnown DEF KeyPcs, HoldPcs
<1>2. Snap(r).state = "pending" => Snap(r).writer # r
  BY <1>1, HoldsNothing DEF Snap
<1>3. CASE ToFinish(r)
  BY <1>1, <1>2, <1>3, FinishedTyped, LeavesItsKey
<1>4. CASE run[r].pc \in {"ready", "apply"} /\ NextTarget(r)
  <2>1. KeepsUp(Advanced(r), Snap(r))
    BY <1>1, <1>4, AdvancedTyped DEF KeepsUp
  <2>2. object' \in [Keys -> BOOLEAN] /\ \A k \in Keys : object[k] => object'[k]
    BY DEF SnapshotInv, Types
  <2> QED
    BY <1>2, <1>4, <2>1, <2>2, AdvancedTyped, KeyStays
<1> QED
  BY <1>3, <1>4

LEMMA BuildingKeeps ==
    ASSUME SnapshotInv, NEW r \in Runs, Build(r) PROVE SnapshotInv'
<1>1. /\ run \in [Runs -> RunRecords] /\ run[r] \in RunRecords /\ run[r].pc = "build"
      /\ run[r].pc \in KeyPcs /\ Key(r) \in Keys /\ KeepsUp(run[r], Snap(r))
      /\ Snap(r) = snap[Key(r)] /\ Snap(r) \in SnapRecords
  BY KeyKnown DEF Build, Snap, SnapshotInv, Types, KeyPcs, HoldPcs
<1>2. UNCHANGED <<published, active, object, batch>>
  BY DEF Build
<1>3. CASE ToFinish(r) /\ UNCHANGED snap
  BY <1>1, <1>2, <1>3, NextOrFinishKeeps
<1>4. CASE /\ snap' = [snap EXCEPT ![Key(r)].built = TRUE]
           /\ run' = [run EXCEPT ![r].pc = "ready", ![r].target = Key(r)]
  <2> DEFINE new == [Snap(r) EXCEPT !.built = TRUE]
             after == [run[r] EXCEPT !.pc = "ready", !.target = Key(r)]
  <2>1. snap' = [snap EXCEPT ![Key(r)] = new] /\ run' = [run EXCEPT ![r] = after]
    BY <1>1, <1>4
  <2>2. /\ new \in SnapRecords /\ Grows(Snap(r), new, r) /\ new.state = Snap(r).state
        /\ new.writer = Snap(r).writer /\ new.state # "absent"
    BY <1>1 DEF SnapRecords, Grows, KeepsUp
  <2>3. /\ after \in RunRecords /\ after.pc = "ready" /\ after.target = Key(r)
        /\ after.label = run[r].label /\ after.got = run[r].got /\ after.status = run[r].status
    BY <1>1 DEF RunRecords, RunPcs, KeyPcs, HoldPcs
  <2> HIDE DEF new, after
  <2>4. Onward(r, after) /\ KeepsUp(after, new)
    BY <1>1, <2>2, <2>3 DEF Onward, KeepsUp, KeyPcs, HoldPcs
  <2>5. ~(new.state = "pending" /\ new.writer = r)
    BY <1>1, <2>2, HoldsNothing DEF HoldPcs
  <2> QED
    BY <1>2, <2>1, <2>2, <2>3, <2>4, <2>5, KeyGrows
<1> QED
  BY <1>3, <1>4 DEF Build

LEMMA ReadingBackKeeps ==
    ASSUME SnapshotInv, NEW r \in Runs, ReadBack(r) PROVE SnapshotInv'
<1>1. /\ run \in [Runs -> RunRecords] /\ run[r] \in RunRecords /\ run[r].pc = "ready"
      /\ run[r].pc \in KeyPcs /\ Key(r) \in Keys /\ KeepsUp(run[r], Snap(r)) /\ run[r].target \in Keys
  BY KeyKnown, AdvancedTyped DEF ReadBack, SnapshotInv, Types, KeyPcs, HoldPcs
<1>2. UNCHANGED <<published, snap, active, object, batch>>
  BY DEF ReadBack
<1>3. CASE object[run[r].target] /\ Goto(r, "apply")
  <2> DEFINE after == [run[r] EXCEPT !.pc = "apply"]
  <2>1. run' = [run EXCEPT ![r] = after]
    BY <1>1, <1>3 DEF Goto
  <2>2. /\ after \in RunRecords /\ after.pc = "apply" /\ after.target = run[r].target
        /\ after.label = run[r].label /\ after.got = run[r].got /\ after.status = run[r].status
    BY <1>1 DEF RunRecords, RunPcs, KeyPcs, HoldPcs
  <2> HIDE DEF after
  <2>3. Onward(r, after) /\ KeepsUp(after, Snap(r))
    BY <1>1, <1>3, <2>2 DEF Onward, KeepsUp, KeyPcs, HoldPcs
  <2>4. ~(Snap(r).state = "pending" /\ Snap(r).writer = r)
    BY <1>1, HoldsNothing DEF HoldPcs, Snap
  <2>5. object' \in [Keys -> BOOLEAN] /\ \A k \in Keys : object[k] => object'[k]
    BY <1>2 DEF SnapshotInv, Types
  <2> QED
    BY <1>2, <2>1, <2>2, <2>3, <2>4, <2>5, KeyStays
<1>4. CASE NextTarget(r) \/ ToFinish(r)
  BY <1>1, <1>2, <1>4, NextOrFinishKeeps
<1> QED
  BY <1>3, <1>4 DEF ReadBack, Refused

LEMMA CompactingKeeps ==
    ASSUME SnapshotInv, NEW r \in Runs, Compact(r) PROVE SnapshotInv'
<1> DEFINE k == run[r].target
<1>1. /\ run[r].pc = "apply" /\ run[r].pc \in KeyPcs /\ Key(r) \in Keys /\ KeepsUp(run[r], Snap(r))
      /\ k \in Keys /\ object[k] /\ run[r].status \in {"live", "failed"}
      /\ snap \in [Keys -> SnapRecords] /\ snap[k] \in SnapRecords
  BY KeyKnown, AdvancedTyped
     DEF Compact, SnapshotInv, Types, RunsAreSound, Sound, KeyPcs, HoldPcs
<1>2. UNCHANGED <<published, active, object, batch>>
  BY DEF Compact
<1>3. CASE ~Ready(k, r)
  BY <1>1, <1>2, <1>3, NextOrFinishKeeps DEF Compact, Refused
<1>4. CASE Ready(k, r)
  <2> DEFINE new == IF Superseded(k)
                    THEN [snap[k] EXCEPT !.payload = "archived", !.built = FALSE,
                                         !.rows = {}, !.readings = {}]
                    ELSE [snap[k] EXCEPT !.payload = "typed"]
  <2>1. snap' = [snap EXCEPT ![k] = new] /\ NextTarget(r)
    BY <1>1, <1>4 DEF Compact
  <2>2. new \in SnapRecords /\ new.state = "complete" /\ new.archive
    BY <1>1, <1>4 DEF SnapRecords, Ready, ReadyButArchive, Active
  <2>3. Whole(new)
    <3>1. CASE Superseded(k)
      BY <1>1, <3>1 DEF Whole, SnapRecords
    <3>2. CASE ~Superseded(k)
      <4>1. Whole(snap[k]) /\ snap[k].state = "complete" /\ snap[k].payload = "kept"
        BY <1>1, <1>4, <3>2
           DEF SnapshotInv, SnapshotsAreSound, Ready, ReadyButArchive, Active
      <4> QED
        BY <1>1, <3>2, <4>1 DEF Whole, SnapRecords
    <3> QED
      BY <3>1, <3>2
  <2>4. batch[k] \in {"startable", "running"} => new.payload # "archived"
    <3>1. CASE Superseded(k)
      BY <1>4, <3>1 DEF Ready, ReadyButArchive, StillRead, InUse
    <3>2. CASE ~Superseded(k)
      BY <1>1, <3>2 DEF SnapRecords
    <3> QED
      BY <3>1, <3>2
  <2>5. InOrder(k, published)
    BY <1>1, <1>4 DEF Ready, ReadyButArchive, Active, SnapshotInv, SnapshotsAreSound
  <2> HIDE DEF new
  <2>6. \A j \in Keys : ~(snap'[j].state = "pending" /\ snap'[j].writer = r)
    BY <1>1, <2>1, <2>2, HoldsNothing DEF HoldPcs
  <2>7. Advanced(r) \in RunRecords /\ Advanced(r).pc = "superseded" /\ Onward(r, Advanced(r))
        /\ run' = [run EXCEPT ![r] = Advanced(r)]
    BY <1>1, <2>1, AdvancedTyped
  <2>8. KeepsUp(Advanced(r), snap'[Key(r)])
    <3>1. snap'[Key(r)].state # "absent"
      BY <1>1, <2>1, <2>2 DEF KeepsUp, Snap
    <3> QED
      BY <2>7, <3>1 DEF KeepsUp
  <2>9. Sound(r, Advanced(r), published, snap', object')
    <3>1. /\ Advanced(r).pc \in KeyPcs /\ Advanced(r).label = run[r].label
          /\ Advanced(r).got = run[r].got /\ Advanced(r).status \in {"live", "failed"}
      BY <1>1, <2>7 DEF Onward
    <3> QED
      BY <1>1, <2>6, <2>7, <2>8, <3>1, OnwardIsSound
  <2>10. /\ object' \in [Keys -> BOOLEAN] /\ \A j \in Keys : object[j] => object'[j]
         /\ active' \in Seq(Keys) /\ object'[k] /\ UNCHANGED <<published, batch>>
    BY <1>1, <1>2 DEF SnapshotInv, Types
  <2> QED
    BY <1>1, <2>1, <2>2, <2>3, <2>4, <2>5, <2>7, <2>9, <2>10, SnapshotMoves
<1> QED
  BY <1>3, <1>4

LEMMA SupersededKeeps ==
    ASSUME SnapshotInv, NEW r \in Runs, CompactSuperseded(r) PROVE SnapshotInv'
<1>1. /\ run \in [Runs -> RunRecords] /\ run[r] \in RunRecords /\ run[r].pc = "superseded"
      /\ run[r].pc \in KeyPcs /\ Key(r) \in Keys /\ KeepsUp(run[r], Snap(r))
      /\ run[r].status \in {"live", "failed"}
      /\ snap \in [Keys -> SnapRecords] /\ object \in [Keys -> BOOLEAN] /\ active \in Seq(Keys)
  BY KeyKnown DEF CompactSuperseded, SnapshotInv, Types, KeyPcs, HoldPcs
<1>2. UNCHANGED <<published, active, batch>>
  BY DEF CompactSuperseded
<1>3. \A j \in Keys : ~(snap[j].state = "pending" /\ snap[j].writer = r)
  BY <1>1, HoldsNothing DEF HoldPcs
<1>4. CASE ToFinish(r) /\ UNCHANGED <<snap, object>>
  BY <1>1, <1>2, <1>4, NextOrFinishKeeps
<1>5. ASSUME NEW k \in Older(r), run' = [run EXCEPT ![r].pc = "ready", ![r].target = k],
             IF ~snap[k].archive /\ ReadyButArchive(k, r) /\ snap[k].payload = "kept"
             THEN /\ object' = [object EXCEPT ![k] = TRUE]
                  /\ snap' = [snap EXCEPT ![k].archive = TRUE]
             ELSE UNCHANGED <<snap, object>>
      PROVE  SnapshotInv'
  <2> DEFINE after == [run[r] EXCEPT !.pc = "ready", !.target = k]
             new == [snap[k] EXCEPT !.archive = TRUE]
  <2>1. k \in Keys /\ snap[k] \in SnapRecords
    BY <1>1 DEF Older
  <2>2. run' = [run EXCEPT ![r] = after]
    BY <1>1, <1>5
  <2>3. /\ after \in RunRecords /\ after.pc = "ready" /\ after.target \in Keys
        /\ after.label = run[r].label /\ after.got = run[r].got /\ after.status = run[r].status
    BY <1>1, <2>1 DEF RunRecords, RunPcs, KeyPcs, HoldPcs
  <2> HIDE DEF after
  <2>4. Onward(r, after) /\ \A s : s.state # "absent" => KeepsUp(after, s)
    BY <1>1, <2>3 DEF Onward, KeepsUp, KeyPcs, HoldPcs
  <2>5. Snap(r).state # "absent"
    BY <1>1 DEF KeepsUp
  <2>6. CASE UNCHANGED <<snap, object>>
    <3>1. object' \in [Keys -> BOOLEAN] /\ \A j \in Keys : object[j] => object'[j]
      BY <1>1, <2>6
    <3>2. ~(Snap(r).state = "pending" /\ Snap(r).writer = r)
      BY <1>1, <1>3 DEF Snap
    <3> QED
      BY <1>2, <2>2, <2>3, <2>4, <2>5, <2>6, <3>1, <3>2, KeyStays
  <2>7. CASE /\ ReadyButArchive(k, r) /\ object' = [object EXCEPT ![k] = TRUE]
             /\ snap' = [snap EXCEPT ![k].archive = TRUE]
    <3>1. snap' = [snap EXCEPT ![k] = new]
      BY <1>1, <2>1, <2>7
    <3>2. /\ new \in SnapRecords /\ new.state = "complete" /\ new.archive
          /\ new.payload = snap[k].payload /\ new.rows = snap[k].rows
          /\ new.readings = snap[k].readings /\ snap[k].state = "complete"
      BY <2>1, <2>7 DEF SnapRecords, ReadyButArchive, Active
    <3> HIDE DEF new
    <3>3. /\ Whole(new) /\ InOrder(k, published)
          /\ batch[k] \in {"startable", "running"} => new.payload # "archived"
      BY <2>1, <3>2 DEF Whole, SnapshotInv, SnapshotsAreSound, BatchHasItsRows
    <3>4. /\ object' \in [Keys -> BOOLEAN] /\ \A j \in Keys : object[j] => object'[j]
          /\ object'[k] /\ active' \in Seq(Keys)
      BY <1>1, <1>2, <2>1, <2>7
    <3>5. \A j \in Keys : ~(snap'[j].state = "pending" /\ snap'[j].writer = r)
      BY <1>1, <1>3, <3>1, <3>2
    <3>6. KeepsUp(after, snap'[Key(r)])
      <4>1. snap'[Key(r)].state # "absent"
        BY <1>1, <2>5, <3>1, <3>2 DEF Snap
      <4> QED
        BY <2>4, <4>1
    <3>7. Sound(r, after, published, snap', object')
      <4>1. after.pc \in KeyPcs /\ after.status \in {"live", "failed"} /\ after.pc # "apply"
        BY <1>1, <2>3, <2>4 DEF Onward
      <4> QED
        BY <1>1, <2>3, <3>5, <3>6, <4>1, OnwardIsSound
    <3> QED
      BY <1>2, <2>1, <2>2, <2>3, <3>1, <3>2, <3>3, <3>4, <3>7, SnapshotMoves
  <2> QED
    BY <1>5, <2>6, <2>7
<1> QED
  BY <1>4, <1>5 DEF CompactSuperseded

-----------------------------------------------------------------------------
(* The batches, the register and the bucket. *)

LEMMA QueueKeeps ==
    ASSUME SnapshotInv, NEW r \in Runs, QueuePrepared(r) PROVE SnapshotInv'
<1> DEFINE k == run[r].target
<1>1. /\ run \in [Runs -> RunRecords] /\ run[r] \in RunRecords /\ run[r].pc = "queue"
      /\ run[r].status \in {"live", "failed"} /\ k \in Keys
  BY DEF QueuePrepared, Leased, SnapshotInv, Types, RunsAreSound, Sound, IsAlive
<1>2. UNCHANGED <<published, active, object>>
  BY DEF QueuePrepared
<1>3. CASE snap[k].payload = "archived"
  BY <1>1, <1>2, <1>3, FailsKeeps DEF QueuePrepared, PreparePcs
<1>4. CASE snap[k].payload # "archived"
  <2>1. /\ ToFinish(r) /\ UNCHANGED snap
        /\ batch' = [batch EXCEPT ![k] = IF @ = "running" THEN @ ELSE "startable"]
    BY <1>4 DEF QueuePrepared
  <2>2. run' = [run EXCEPT ![r] = Finished(r)] /\ Finished(r) \in RunRecords
        /\ Finished(r).pc = "finish" /\ Finished(r).status \in {"live", "failed"}
    BY <1>1, <2>1, FinishedTyped
  <2>3. Sound(r, Finished(r), published, snap, object)
    BY <1>1, <2>2, HoldsNothing, FreeIsSound DEF HoldPcs
  <2>4. Types'
    BY <1>1, <1>2, <2>1, <2>2 DEF SnapshotInv, Types
  <2>5. RunsAreSound'
    BY <1>1, <1>2, <2>1, <2>2, <2>3 DEF SnapshotInv, RunsAreSound
  <2>6. SnapshotsAreSound' /\ PayloadRecoverable'
    BY <1>2, <2>1 DEF SnapshotInv, SnapshotsAreSound, PayloadRecoverable, InOrder, Whole
  <2>7. BatchHasItsRows'
    BY <1>4, <2>1 DEF SnapshotInv, Types, BatchHasItsRows
  <2> QED
    BY <2>4, <2>5, <2>6, <2>7 DEF SnapshotInv
<1> QED
  BY <1>3, <1>4

LEMMA PublicationKeeps ==
    ASSUME SnapshotInv, Publish PROVE SnapshotInv'
<1>1. published' = published + 1 /\ published \in Nat /\ published' \in Versions
      /\ UNCHANGED <<run, snap, active, object, batch>>
  BY RegisterConstants DEF Publish, SnapshotInv, Types, Versions
<1>2. Types'
  BY <1>1 DEF SnapshotInv, Types
<1>3. ASSUME NEW r \in Runs PROVE Sound(r, run[r], published', snap, object)
  <2>1. Sound(r, run[r], published, snap, object) /\ run[r] \in RunRecords
    BY DEF SnapshotInv, Types, RunsAreSound
  <2>2. ReadsInOrder(run[r], published')
    <3>1. ReadsInOrder(run[r], published) /\ run[r].got \in Seq(Versions)
          /\ run[r].label \in 0..MaxVersions
      BY <2>1 DEF Sound, RunRecords
    <3>2. ASSUME NEW i \in 1..Len(run[r].got), run[r].got[i] <= published
          PROVE  run[r].got[i] <= published'
      <4>1. run[r].got[i] \in Versions
        BY <3>1
      <4> QED
        BY <1>1, <3>2, <4>1 DEF Versions
    <3>3. run[r].label <= published => run[r].label <= published'
      BY <1>1, <3>1
    <3> QED
      BY <3>1, <3>2, <3>3 DEF ReadsInOrder
  <2> QED
    BY <2>1, <2>2 DEF Sound
<1>4. RunsAreSound'
  BY <1>1, <1>3 DEF RunsAreSound
<1>5. SnapshotsAreSound'
  <2>1. ASSUME NEW k \in Keys, InOrder(k, published) PROVE InOrder(k, published')
    <3>1. \A p \in Pages : k.pages[p] \in Versions
      BY DEF Keys
    <3> QED
      BY <1>1, <2>1, <3>1 DEF InOrder, Versions
  <2> QED
    BY <1>1, <2>1 DEF SnapshotInv, SnapshotsAreSound, Whole
<1>6. PayloadRecoverable' /\ BatchHasItsRows'
  BY <1>1 DEF SnapshotInv, PayloadRecoverable, BatchHasItsRows
<1> QED
  BY <1>2, <1>4, <1>5, <1>6 DEF SnapshotInv

LEMMA BatchesKeep ==
    ASSUME SnapshotInv, Revised \/ \E k \in Keys : BatchStarts(k) \/ BatchEnds(k)
    PROVE  SnapshotInv'
<1>1. UNCHANGED <<published, run, snap, active, object>>
  BY DEF Revised, BatchStarts, BatchEnds
<1>2. /\ batch' \in [Keys -> {"none", "startable", "running", "done"}]
      /\ \A k \in Keys : batch'[k] \in {"startable", "running"} => batch[k] \in {"startable", "running"}
  <2>1. batch \in [Keys -> {"none", "startable", "running", "done"}]
    BY DEF SnapshotInv, Types
  <2>2. CASE Revised
    BY <2>1, <2>2 DEF Revised
  <2>3. ASSUME NEW k \in Keys, BatchStarts(k) \/ BatchEnds(k)
        PROVE  /\ batch' \in [Keys -> {"none", "startable", "running", "done"}]
               /\ \A j \in Keys : batch'[j] \in {"startable", "running"} => batch[j] \in {"startable", "running"}
    BY <2>1, <2>3 DEF BatchStarts, BatchEnds
  <2> QED
    BY <2>2, <2>3
<1>3. Types'
  BY <1>1, <1>2 DEF SnapshotInv, Types
<1>4. RunsAreSound' /\ SnapshotsAreSound' /\ PayloadRecoverable'
  BY <1>1 DEF SnapshotInv, RunsAreSound, SnapshotsAreSound, PayloadRecoverable, InOrder, Whole
<1>5. BatchHasItsRows'
  BY <1>1, <1>2 DEF SnapshotInv, BatchHasItsRows
<1> QED
  BY <1>3, <1>4, <1>5 DEF SnapshotInv

LEMMA BucketKeeps ==
    ASSUME SnapshotInv, NEW k \in Keys, ObjectDeleted(k) PROVE SnapshotInv'
<1>1. UNCHANGED <<published, run, snap, active, batch>> /\ object' = [object EXCEPT ![k] = FALSE]
      /\ snap[k].payload = "kept" /\ object \in [Keys -> BOOLEAN]
  BY DEF ObjectDeleted, SnapshotInv, Types
<1>2. Types'
  BY <1>1 DEF SnapshotInv, Types
<1>3. ASSUME NEW r \in Runs PROVE Sound(r, run[r], published, snap, object')
  <2>1. Sound(r, run[r], published, snap, object)
    BY DEF SnapshotInv, RunsAreSound
  <2>2. run[r].pc = "apply" => run[r].target # k /\ run[r].target \in Keys
    BY <2>1 DEF ObjectDeleted, Sound, IsAlive
  <2>3. run[r].pc = "apply" => object'[run[r].target]
    BY <1>1, <2>1, <2>2 DEF Sound
  <2> QED
    BY <2>1, <2>3 DEF Sound
<1>4. RunsAreSound'
  BY <1>1, <1>3 DEF RunsAreSound
<1>5. SnapshotsAreSound' /\ BatchHasItsRows'
  BY <1>1 DEF SnapshotInv, SnapshotsAreSound, BatchHasItsRows, InOrder, Whole
<1>6. PayloadRecoverable'
  BY <1>1 DEF SnapshotInv, PayloadRecoverable
<1> QED
  BY <1>2, <1>4, <1>5, <1>6 DEF SnapshotInv

-----------------------------------------------------------------------------
(* The invariant, and what follows from it. *)

LEMMA SnapshotInit == Init => SnapshotInv
<1> SUFFICES ASSUME Init PROVE SnapshotInv
  OBVIOUS
<1>1. NoSnapshot \in SnapRecords /\ NoSnapshot.state = "absent" /\ NoSnapshot.payload = "kept"
  BY DEF NoSnapshot, SnapRecords
<1>2. Types
  <2>1. published \in Versions
    BY RegisterConstants DEF Init, Versions
  <2>2. active \in Seq(Keys)
    BY DEF Init
  <2>3. run \in [Runs -> RunRecords]
    BY NewRunTyped DEF Init
  <2>4. snap \in [Keys -> SnapRecords]
    BY <1>1 DEF Init
  <2>5. object \in [Keys -> BOOLEAN] /\ batch \in [Keys -> {"none", "startable", "running", "done"}]
    BY DEF Init
  <2> QED
    BY <2>1, <2>2, <2>3, <2>4, <2>5 DEF Types
<1>3. RunsAreSound
  <2>1. ASSUME NEW r \in Runs PROVE Sound(r, run[r], published, snap, object)
    <3>1. run[r].pc = "absent"
      BY DEF Init, NewRun
    <3>2. \A k \in Keys : snap[k].state = "absent"
      BY <1>1 DEF Init
    <3> QED
      BY <3>1, <3>2 DEF Sound, ReadsInOrder, IsAlive, KeyPcs, HoldPcs
  <2> QED
    BY <2>1 DEF RunsAreSound
<1>4. SnapshotsAreSound /\ PayloadRecoverable
  BY <1>1 DEF Init, SnapshotsAreSound, PayloadRecoverable, Whole
<1>5. BatchHasItsRows
  BY DEF Init, BatchHasItsRows
<1> QED
  BY <1>2, <1>3, <1>4, <1>5 DEF SnapshotInv

LEMMA SnapshotStep == SnapshotInv /\ [Next]_vars => SnapshotInv'
<1> SUFFICES ASSUME SnapshotInv, [Next]_vars PROVE SnapshotInv'
  OBVIOUS
<1>1. CASE UNCHANGED vars
  BY <1>1 DEF vars, SnapshotInv, Types, RunsAreSound, SnapshotsAreSound, PayloadRecoverable,
              BatchHasItsRows, InOrder, Whole
<1>2. CASE Publish
  BY <1>2, PublicationKeeps
<1>3. CASE Revised
  BY <1>3, BatchesKeep
<1>4. ASSUME NEW r \in Runs, RunLife(r) PROVE SnapshotInv'
  <2>1. CASE StartRun(r)
    BY <2>1, StartingKeeps
  <2>2. CASE ProcessDies(r)
    <3>1. run[r].pc \notin {"absent", "over"}
      BY <2>2 DEF ProcessDies, Working, CapturePcs, CompactionPcs, PreparePcs
    <3> QED
      BY <2>2, <3>1, GoneKeeps DEF ProcessDies
  <2>3. CASE LeaseLapses(r) \/ Reclaimed(r)
    BY <2>3, LeaseAndStatusKeep
  <2>4. CASE StaleWrite(r)
    BY <2>4, GoneKeeps DEF StaleWrite, WritePcs
  <2>5. CASE CaptureFails(r)
    <3>1. run[r].counted \in {"none", "yes", "no"}
      BY DEF SnapshotInv, Types, RunRecords
    <3> QED
      BY <2>5, <3>1, FailsKeeps DEF CaptureFails
  <2>6. CASE Finish(r)
    BY <2>6, FinishKeeps
  <2> QED
    BY <1>4, <2>1, <2>2, <2>3, <2>4, <2>5, <2>6 DEF RunLife
<1>5. ASSUME NEW r \in Runs, RunCaptures(r) PROVE SnapshotInv'
  BY <1>5, VersionsKeep, PagesKeep, OpeningKeeps, AdoptionKeeps, WritingKeeps, ActivationKeeps,
     CountKeeps, ArchivingKeeps, QueueKeeps DEF RunCaptures
<1>6. ASSUME NEW r \in Runs, RunCompacts(r) PROVE SnapshotInv'
  BY <1>6, BuildingKeeps, ReadingBackKeeps, CompactingKeeps, SupersededKeeps DEF RunCompacts
<1>7. ASSUME NEW k \in Keys, BatchStarts(k) \/ BatchEnds(k) PROVE SnapshotInv'
  BY <1>7, BatchesKeep
<1>8. ASSUME NEW k \in Keys, ObjectDeleted(k) PROVE SnapshotInv'
  BY <1>8, BucketKeeps
<1> QED
  BY <1>1, <1>2, <1>3, <1>4, <1>5, <1>6, <1>7, <1>8 DEF Next

(* Pages are read in publication order, a run's progress and its pending      *)
(* snapshot's rows agree, a pending snapshot has a writer that is at it, has  *)
(* died or failed, and an active one is whole until its payload is archived.  *)
THEOREM SnapshotInvariant == Spec => []SnapshotInv
<1>1. Init => SnapshotInv
  BY SnapshotInit
<1>2. SnapshotInv /\ [Next]_vars => SnapshotInv'
  BY SnapshotStep
<1> QED
  BY <1>1, <1>2, PTL DEF Spec

(* sync_if_changed answers "unchanged" only from the version published now,   *)
(* whatever the register published while the pages were read.                 *)
THEOREM UnchangedIsCurrent == Spec => []UnchangedMeansCurrent
<1>1. SnapshotInv => UnchangedMeansCurrent
  <2> SUFFICES ASSUME SnapshotInv, NEW k \in Keys, Active(k), k.label = published, NEW p \in Pages
               PROVE  k.pages[p] = published
    BY DEF UnchangedMeansCurrent
  <2>1. k.label <= k.pages[p] /\ k.pages[p] <= published
    BY DEF SnapshotInv, SnapshotsAreSound, Active, InOrder
  <2>2. k.pages[p] \in Nat /\ published \in Nat
    BY DEF Keys, Versions, SnapshotInv, Types
  <2> QED
    BY <2>1, <2>2
<1> QED
  BY <1>1, SnapshotInvariant, PTL

(* Activation never leaves a snapshot with rows or readings missing, through  *)
(* crashes, adoptions and lost answers (activate_official_snapshot).          *)
THEOREM ActiveStaysWhole == Spec => []ActiveIsWhole
<1>1. SnapshotInv => ActiveIsWhole
  BY DEF SnapshotInv, SnapshotsAreSound, Whole, Active, ActiveIsWhole
<1> QED
  BY <1>1, SnapshotInvariant, PTL

(* A snapshot that stays pending was left by a run that is live or failed, so *)
(* that _execute's ending of the run lets another run adopt it.               *)
THEOREM PendingIsAdoptable == Spec => []PendingCanBeAdopted
<1>1. SnapshotInv => PendingCanBeAdopted
  <2> SUFFICES ASSUME SnapshotInv, NEW k \in Keys, snap[k].state = "pending"
               PROVE  run[snap[k].writer].status \in {"live", "failed"}
    BY DEF PendingCanBeAdopted
  <2>1. snap[k].writer \in Runs
    BY DEF SnapshotInv, SnapshotsAreSound
  <2>2. Holds(run[snap[k].writer], k)
    BY <2>1 DEF SnapshotInv, RunsAreSound, Sound
  <2> QED
    BY <2>2 DEF Holds
<1> QED
  BY <1>1, SnapshotInvariant, PTL

(* compact_register_snapshot takes no payload out of the database whose       *)
(* archive object was not read back and still stands.                         *)
THEOREM PayloadsStayRecoverable == Spec => []PayloadRecoverable
<1>1. SnapshotInv => PayloadRecoverable
  BY DEF SnapshotInv
<1> QED
  BY <1>1, SnapshotInvariant, PTL

(* A batch that may start, or runs, never loses the rows it maps to a         *)
(* compaction, nor is cut from a snapshot that has already lost them.         *)
THEOREM BatchesKeepTheirRows == Spec => []BatchHasItsRows
<1>1. SnapshotInv => BatchHasItsRows
  BY DEF SnapshotInv
<1> QED
  BY <1>1, SnapshotInvariant, PTL

-----------------------------------------------------------------------------
(* The syncs.                                                               *)

Kinds == {"sync", "capture"}
Flights == {"none", "claimed", "running", "lost"}
Places == {"idle", "look", "claim", "confirm", "launch",
           "refused", "started", "notTriggered"}

FlightsTyped ==
    /\ flight \in [Kinds -> Flights]
    /\ asking \in [Requesters -> Places]

\* between its claim and the launch a requester holds the group of its kind:
\* the group is claimed, and by nobody else
ClaimsHeld ==
    /\ \A q \in Requesters :
          asking[q] \in {"confirm", "launch"} => flight[Kind(q)] = "claimed"
    /\ \A p, q \in Requesters :
          /\ Kind(p) = Kind(q)
          /\ asking[p] \in {"confirm", "launch"} /\ asking[q] \in {"confirm", "launch"}
          => p = q

\* a requester that passed its second look has the field for itself: nothing
\* of the other kind runs or is about to
ConfirmedAlone ==
    \A q \in Requesters : asking[q] = "launch" =>
        /\ \A k \in Kinds : k # Kind(q) => flight[k] # "running"
        /\ \A p \in Requesters : Kind(p) # Kind(q) => asking[p] # "launch"

FlightInv == FlightsTyped /\ ClaimsHeld /\ ConfirmedAlone /\ SyncAlone

-----------------------------------------------------------------------------
LEMMA KindFacts ==
    /\ \A q \in Requesters : Kind(q) \in Kinds
    /\ Kind("tick") = "sync" /\ Kind("person") = "sync" /\ Kind("capturer") = "capture"
BY DEF Kind, Kinds, Requesters

\* Ask moves one requester and Fly one group
LEMMA AskFact ==
    ASSUME FlightsTyped, NEW q \in Requesters, NEW place \in Places, Ask(q, place)
    PROVE  /\ asking' \in [Requesters -> Places] /\ asking'[q] = place
           /\ \A p \in Requesters : p # q => asking'[p] = asking[p]
BY DEF Ask, FlightsTyped

LEMMA FlyFact ==
    ASSUME FlightsTyped, NEW k \in Kinds, NEW state \in Flights, Fly(k, state)
    PROVE  /\ flight' \in [Kinds -> Flights] /\ flight'[k] = state
           /\ \A l \in Kinds : l # k => flight'[l] = flight[l]
BY DEF Fly, FlightsTyped

\* an answer takes a requester out of its request
LEMMA AnswerFact ==
    ASSUME FlightsTyped, NEW q \in Requesters,
           NEW answer \in {"refused", "started", "notTriggered"}, Answer(q, answer)
    PROVE  /\ asking' \in [Requesters -> Places]
           /\ asking'[q] \in {"idle", "refused", "started", "notTriggered"}
           /\ \A p \in Requesters : p # q => asking'[p] = asking[p]
<1> DEFINE place == IF q = "tick" THEN answer ELSE "idle"
<1>1. place \in {"idle", "refused", "started", "notTriggered"} /\ Ask(q, place)
  BY DEF Answer
<1>2. place \in Places
  BY <1>1 DEF Places
<1> HIDE DEF place
<1> QED BY <1>1, <1>2, AskFact

\* a step that starts nothing and confirms nobody: a requester it touches
\* leaves its request or is not yet in it, and no group with a requester
\* behind it is touched
Harmless ==
    /\ FlightsTyped'
    /\ \A q \in Requesters :
          asking'[q] \in {"confirm", "launch"} => /\ asking'[q] = asking[q]
                                                  /\ flight'[Kind(q)] = flight[Kind(q)]
    /\ \A k \in Kinds : flight'[k] = "running" => flight[k] = "running"

LEMMA HarmlessStep ==
    ASSUME FlightInv, Harmless PROVE FlightInv'
<1> USE DEF FlightInv, Harmless
<1>1. ClaimsHeld'
  BY DEF ClaimsHeld
<1>2. ConfirmedAlone'
  <2> SUFFICES ASSUME NEW q \in Requesters, asking'[q] = "launch"
               PROVE  /\ \A k \in Kinds : k # Kind(q) => flight'[k] # "running"
                      /\ \A p \in Requesters : Kind(p) # Kind(q) => asking'[p] # "launch"
    BY DEF ConfirmedAlone
  <2>1. asking[q] = "launch"
    OBVIOUS
  <2> QED BY <2>1 DEF ConfirmedAlone
<1>3. SyncAlone'
  BY DEF SyncAlone, Kinds
<1> QED BY <1>1, <1>2, <1>3

-----------------------------------------------------------------------------
(* The steps of a request. *)

LEMMA AsksAndLooks ==
    ASSUME FlightInv, NEW q \in Requesters,
           PersonAsks(q) \/ Look(q) \/ RequesterDies(q)
    PROVE  Harmless
<1>1. FlightsTyped /\ UNCHANGED flight
  BY DEF FlightInv, PersonAsks, Look, RequesterDies
<1>2. /\ asking' \in [Requesters -> Places]
      /\ asking'[q] \notin {"confirm", "launch"}
      /\ \A p \in Requesters : p # q => asking'[p] = asking[p]
  <2>1. CASE PersonAsks(q)
    <3>1. Ask(q, "look") /\ "look" \in Places
      BY <2>1 DEF PersonAsks, Places
    <3> QED BY <1>1, <3>1, AskFact
  <2>2. CASE Look(q) /\ Busy(q)
    <3>1. Answer(q, "refused")
      BY <2>2 DEF Look
    <3> QED BY <1>1, <3>1, AnswerFact
  <2>3. CASE Look(q) /\ ~Busy(q)
    <3>1. Ask(q, "claim") /\ "claim" \in Places
      BY <2>3 DEF Look, Places
    <3> QED BY <1>1, <3>1, AskFact
  <2>4. CASE RequesterDies(q)
    <3>1. Ask(q, "idle") /\ "idle" \in Places
      BY <2>4 DEF RequesterDies, Places
    <3> QED BY <1>1, <3>1, AskFact
  <2> QED BY <2>1, <2>2, <2>3, <2>4
<1> QED BY <1>1, <1>2 DEF Harmless, FlightsTyped

\* the claim takes a group nobody has: of its kind nobody is past the claim
LEMMA ClaimStep ==
    ASSUME FlightInv, NEW q \in Requesters, Claim(q) PROVE FlightInv'
<1> USE KindFacts DEF FlightInv
<1>1. CASE InFlight(Kind(q))
  <2>1. Answer(q, "refused") /\ UNCHANGED flight
    BY <1>1 DEF Claim
  <2>2. Harmless
    BY <2>1, AnswerFact DEF Harmless, FlightsTyped
  <2> QED BY <2>2, HarmlessStep
<1>2. CASE ~InFlight(Kind(q))
  <2>1. /\ Fly(Kind(q), "claimed") /\ Ask(q, "confirm")
        /\ "claimed" \in Flights /\ "confirm" \in Places
    BY <1>2 DEF Claim, Flights, Places
  <2>2. /\ FlightsTyped' /\ asking'[q] = "confirm" /\ flight'[Kind(q)] = "claimed"
        /\ \A p \in Requesters : p # q => asking'[p] = asking[p]
        /\ \A l \in Kinds : l # Kind(q) => flight'[l] = flight[l]
    BY <2>1, AskFact, FlyFact DEF FlightsTyped
  <2>3. \A p \in Requesters : Kind(p) = Kind(q) => asking[p] \notin {"confirm", "launch"}
    BY <1>2 DEF ClaimsHeld, InFlight
  <2>4. ClaimsHeld'
    BY <2>2, <2>3 DEF ClaimsHeld
  <2>5. ConfirmedAlone'
    BY <2>2 DEF ConfirmedAlone
  <2>6. SyncAlone'
    BY <2>2 DEF SyncAlone, Kinds
  <2> QED BY <2>2, <2>4, <2>5, <2>6
<1> QED BY <1>1, <1>2

\* the second look: whoever passes it saw the other kind neither claimed nor
\* running, so nobody of that kind is past its own second look
LEMMA ConfirmStep ==
    ASSUME FlightInv, NEW q \in Requesters, Confirm(q) PROVE FlightInv'
<1> USE KindFacts DEF FlightInv
<1>1. asking[q] = "confirm"
  BY DEF Confirm
<1>2. CASE OtherBusy(q)
  <2>1. Fly(Kind(q), "none") /\ Answer(q, "refused") /\ "none" \in Flights
    BY <1>2 DEF Confirm, Flights
  <2>2. /\ FlightsTyped' /\ asking'[q] \notin {"confirm", "launch"}
        /\ flight'[Kind(q)] = "none"
        /\ \A p \in Requesters : p # q => asking'[p] = asking[p]
        /\ \A l \in Kinds : l # Kind(q) => flight'[l] = flight[l]
    BY <2>1, AnswerFact, FlyFact DEF FlightsTyped
  <2>3. \A p \in Requesters : p # q /\ Kind(p) = Kind(q) =>
            asking[p] \notin {"confirm", "launch"}
    BY <1>1 DEF ClaimsHeld
  <2>4. Harmless
    BY <2>2, <2>3 DEF Harmless
  <2> QED BY <2>4, HarmlessStep
<1>3. CASE ~OtherBusy(q)
  <2>1. Ask(q, "launch") /\ UNCHANGED flight /\ "launch" \in Places
    BY <1>3 DEF Confirm, Places
  <2>2. /\ FlightsTyped' /\ asking'[q] = "launch" /\ flight' = flight
        /\ \A p \in Requesters : p # q => asking'[p] = asking[p]
    BY <2>1, AskFact DEF FlightsTyped
  <2>3. \A k \in Kinds : k # Kind(q) => flight[k] \notin {"claimed", "running"}
    BY <1>3 DEF OtherBusy, InFlight, Kinds, Requesters
  <2>4. \A p \in Requesters : Kind(p) # Kind(q) => asking[p] \notin {"confirm", "launch"}
    BY <2>3 DEF ClaimsHeld
  <2>5. ClaimsHeld'
    BY <1>1, <2>2 DEF ClaimsHeld
  <2>6. ConfirmedAlone'
    BY <2>2, <2>3, <2>4 DEF ConfirmedAlone
  <2>7. SyncAlone'
    BY <2>2 DEF SyncAlone
  <2> QED BY <2>2, <2>5, <2>6, <2>7
<1> QED BY <1>2, <1>3

\* only a launch starts a job, and it was confirmed alone
LEMMA LaunchStep ==
    ASSUME FlightInv, NEW q \in Requesters, Launch(q) PROVE FlightInv'
<1> USE KindFacts DEF FlightInv
<1>1. asking[q] = "launch"
  BY DEF Launch
<1>2. PICK state \in {"running", "none", "claimed"} :
         /\ FlightsTyped' /\ asking'[q] \notin {"confirm", "launch"}
         /\ flight'[Kind(q)] = state
         /\ \A p \in Requesters : p # q => asking'[p] = asking[p]
         /\ \A l \in Kinds : l # Kind(q) => flight'[l] = flight[l]
  <2>1. flight[Kind(q)] = "claimed" /\ "running" \in Flights /\ "none" \in Flights
    BY <1>1 DEF ClaimsHeld, Flights
  <2>2. CASE Fly(Kind(q), "running") /\ Answer(q, "started")
    BY <2>1, <2>2, AnswerFact, FlyFact DEF FlightsTyped
  <2>3. CASE Fly(Kind(q), "none") /\ Answer(q, "notTriggered")
    BY <2>1, <2>3, AnswerFact, FlyFact DEF FlightsTyped
  <2>4. CASE Answer(q, "started") /\ UNCHANGED flight
    BY <2>1, <2>4, AnswerFact DEF FlightsTyped
  <2> QED BY <2>2, <2>3, <2>4 DEF Launch
<1>3. \A p \in Requesters : p # q /\ Kind(p) = Kind(q) =>
          asking[p] \notin {"confirm", "launch"}
  BY <1>1 DEF ClaimsHeld
<1>4. \A k \in Kinds : k # Kind(q) => flight[k] # "running"
  BY <1>1 DEF ConfirmedAlone
<1>5. ClaimsHeld'
  BY <1>2, <1>3 DEF ClaimsHeld
<1>6. ConfirmedAlone'
  BY <1>1, <1>2, <1>3 DEF ConfirmedAlone
<1>7. SyncAlone'
  BY <1>2, <1>4 DEF SyncAlone, Kinds
<1> QED BY <1>2, <1>5, <1>6, <1>7

-----------------------------------------------------------------------------
(* The jobs, the tick and the owner. *)

\* a job ends, dies or is seen as stalled: its group is let go, and no
\* requester is behind it
LEMMA JobsHarmless ==
    ASSUME FlightInv, Jobs PROVE Harmless
<1> USE KindFacts DEF FlightInv
<1>1. ASSUME NEW k \in Kinds, NEW state \in {"none", "lost"}, Fly(k, state), UNCHANGED asking,
             \A q \in Requesters : Kind(q) = k => asking[q] \notin {"confirm", "launch"}
      PROVE  Harmless
  <2>1. state \in Flights
    BY DEF Flights
  <2> QED BY <1>1, <2>1, FlyFact DEF Harmless, FlightsTyped
<1>2. ASSUME NEW k \in Kinds, flight[k] = "running"
      PROVE  \A q \in Requesters : Kind(q) = k => asking[q] \notin {"confirm", "launch"}
  BY <1>2 DEF ClaimsHeld
<1>3. CASE SyncEnds
  BY <1>1, <1>2, <1>3 DEF SyncEnds, SyncFinished, Kinds
<1>4. CASE CaptureEnds
  BY <1>1, <1>2, <1>4 DEF CaptureEnds, Kinds
<1>5. ASSUME NEW k \in Kinds, Captured(k) PROVE Harmless
  BY <1>5 DEF Captured, Harmless, FlightsTyped
<1>6. ASSUME NEW k \in Kinds, JobDies(k) PROVE Harmless
  BY <1>1, <1>2, <1>6 DEF JobDies
<1>7. ASSUME NEW k \in Kinds, Stalls(k) PROVE Harmless
  BY <1>1, <1>7 DEF Stalls
<1> QED BY <1>3, <1>4, <1>5, <1>6, <1>7 DEF Jobs, Kinds

LEMMA TicksHarmless ==
    ASSUME FlightInv, Ticks PROVE Harmless
<1> USE DEF FlightInv
<1>1. CASE TickRechecks /\ row.on /\ ~row.paused
  <2>1. Ask("tick", "look") /\ UNCHANGED flight /\ "look" \in Places /\ "tick" \in Requesters
    BY <1>1 DEF TickRechecks, Places, Requesters
  <2> QED BY <2>1, AskFact DEF Harmless, FlightsTyped
<1>2. CASE TickAnswered
  <2>1. Ask("tick", "idle") /\ UNCHANGED flight /\ "idle" \in Places /\ "tick" \in Requesters
    BY <1>2 DEF TickAnswered, Places, Requesters
  <2> QED BY <2>1, AskFact DEF Harmless, FlightsTyped
<1>3. CASE \/ TickBegins \/ TickDecides \/ TickRereads \/ TickWrites
           \/ TickRechecks /\ ~(row.on /\ ~row.paused)
  <2>1. UNCHANGED <<flight, asking>>
    BY <1>3 DEF TickBegins, TickDecides, TickRechecks, TickRereads, TickWrites
  <2> QED BY <2>1 DEF Harmless, FlightsTyped
<1> QED BY <1>1, <1>2, <1>3 DEF Ticks

LEMMA FlightInit == ASSUME SyncInit PROVE FlightInv
BY KindFacts DEF SyncInit, FlightInv, FlightsTyped, ClaimsHeld, ConfirmedAlone, SyncAlone,
                 Kinds, Flights, Places, Requesters

LEMMA FlightStep == ASSUME FlightInv, [SyncNext]_syncVars PROVE FlightInv'
<1>1. CASE Jobs
  BY <1>1, JobsHarmless, HarmlessStep
<1>2. CASE Ticks
  BY <1>2, TicksHarmless, HarmlessStep
<1>3. CASE Owner \/ TimePasses \/ UNCHANGED syncVars
  <2>1. UNCHANGED <<flight, asking>>
    BY <1>3 DEF Owner, TurnOn, TurnedOn, TurnOff, Resume, Resumed, TimePasses, syncVars
  <2>2. Harmless
    BY <2>1 DEF Harmless, FlightInv, FlightsTyped
  <2> QED BY <2>2, HarmlessStep
<1>4. ASSUME NEW q \in Requesters, Requests(q) PROVE FlightInv'
  BY <1>4, AsksAndLooks, HarmlessStep, ClaimStep, ConfirmStep, LaunchStep DEF Requests
<1> QED BY <1>1, <1>2, <1>3, <1>4 DEF SyncNext

(* The claims agree with the requesters behind them, and whoever passed the *)
(* second look has the field for itself (request_sync, request_capture).    *)
THEOREM FlightInvariant == SyncSpec => []FlightInv
<1>1. FlightInv /\ [SyncNext]_syncVars => FlightInv'
  BY FlightStep
<1> QED BY <1>1, FlightInit, PTL DEF SyncSpec

(* A sync never runs beside a capture of single manufacturers, however the  *)
(* looks and claims of all requesters interleave with deaths and stalled    *)
(* groups (request_sync, request_capture).                                  *)
THEOREM SyncRunsAlone == SyncSpec => []SyncAlone
<1>1. FlightInv => SyncAlone
  BY DEF FlightInv
<1> QED BY <1>1, FlightInvariant, PTL

-----------------------------------------------------------------------------
(* A pause. *)

Schedules == [on : BOOLEAN, paused : BOOLEAN, resumed : Nat, failures : Nat, counted : BOOLEAN]

RowsTyped ==
    /\ row \in Schedules /\ resumes \in Nat
    /\ tick \in [pc : {"idle", "decide", "recheck", "asking", "reread", "write"}, copy : Schedules]
    /\ owner \in [pc : {"idle", "on", "resume"}, read : Schedules]

\* whoever is about to write the row back knows of its pause: only the tick in
\* progress sets one, and the owner, who alone ends one, is busy until the
\* write
PauseKnown ==
    /\ tick.pc # "idle" /\ row.paused => tick.copy.paused
    /\ owner.pc = "on" /\ owner.read.paused => row.paused

PauseInv == RowsTyped /\ PauseKnown

LEMMA PauseInit == ASSUME SyncInit PROVE PauseInv
<1>1. Off \in Schedules /\ ~Off.paused
  BY DEF Off, Schedules
<1>2. row = Off /\ resumes = 0 /\ tick = NoTick /\ owner = NoClick
  BY DEF SyncInit
<1>3. tick.pc = "idle" /\ owner.pc = "idle" /\ tick.copy = Off /\ owner.read = Off
  BY <1>2 DEF NoTick, NoClick
<1>4. RowsTyped
  BY <1>1, <1>2 DEF RowsTyped, NoTick, NoClick
<1>5. PauseKnown
  BY <1>3 DEF PauseKnown
<1> QED BY <1>4, <1>5 DEF PauseInv

\* counting a finished sync leaves the switch and the pause alone
LEMMA ObserveFact ==
    ASSUME NEW schedule \in Schedules
    PROVE  Observe(schedule) \in Schedules /\ Observe(schedule).paused = schedule.paused
<1> DEFINE failures == IF last.ok THEN 0
                      ELSE IF schedule.failures = FailuresBeforePause
                           THEN schedule.failures ELSE schedule.failures + 1
<1>1. failures \in Nat
  BY DEF Schedules
<1>2. Observe(schedule) \in {schedule, [schedule EXCEPT !.counted = TRUE],
                             [schedule EXCEPT !.counted = TRUE, !.failures = failures]}
  BY DEF Observe
<1> HIDE DEF failures
<1> QED BY <1>1, <1>2 DEF Schedules

LEMMA PauseUnderTicks ==
    ASSUME PauseInv, Ticks
    PROVE  PauseInv' /\ (row.paused => row'.paused)
<1> USE DEF PauseInv
<1>1. CASE TickBegins
  BY <1>1 DEF TickBegins, RowsTyped, PauseKnown
<1>2. CASE TickDecides
  <2>1. PICK full \in BOOLEAN :
          LET schedule == Observe(tick.copy)
              decision == Decision(schedule, full)
          IN tick' = [tick EXCEPT
                 !.copy = [schedule EXCEPT !.paused = @ \/ decision = "pause"],
                 !.pc = IF decision = "start" THEN "recheck" ELSE "reread"]
    BY <1>2 DEF TickDecides
  <2> DEFINE schedule == Observe(tick.copy)
             pause == schedule.paused \/ Decision(schedule, full) = "pause"
             place == IF Decision(schedule, full) = "start" THEN "recheck" ELSE "reread"
  <2>2. schedule \in Schedules /\ schedule.paused = tick.copy.paused
    BY ObserveFact DEF RowsTyped
  <2>3. tick' = [tick EXCEPT !.copy = [schedule EXCEPT !.paused = pause], !.pc = place]
    BY <2>1
  <2>4. pause \in BOOLEAN /\ (tick.copy.paused => pause) /\ place \in {"recheck", "reread"}
    BY <2>2
  <2>5. tick.pc = "decide" /\ UNCHANGED <<row, owner, resumes>>
    BY <1>2 DEF TickDecides
  <2> HIDE DEF schedule, pause, place
  <2>6. [schedule EXCEPT !.paused = pause] \in Schedules
        /\ [schedule EXCEPT !.paused = pause].paused = pause
    BY <2>2, <2>4 DEF Schedules
  <2>7. /\ tick'.copy = [schedule EXCEPT !.paused = pause] /\ tick'.pc = place
        /\ tick' = [pc |-> place, copy |-> [schedule EXCEPT !.paused = pause]]
    BY <2>3 DEF RowsTyped
  <2>8. RowsTyped'
    BY <2>4, <2>5, <2>6, <2>7 DEF RowsTyped
  <2> QED BY <2>4, <2>5, <2>6, <2>7, <2>8 DEF PauseKnown
<1>3. CASE TickRechecks
  BY <1>3 DEF TickRechecks, RowsTyped, PauseKnown
<1>4. CASE TickAnswered
  <2>1. PICK failures \in Nat :
          tick' = [tick EXCEPT !.pc = "reread", !.copy.failures = failures]
    <3> DEFINE failures == IF asking["tick"] = "notTriggered"
                                /\ tick.copy.failures < FailuresBeforePause
                           THEN tick.copy.failures + 1 ELSE tick.copy.failures
    <3>1. failures \in Nat
      BY DEF RowsTyped, Schedules
    <3>2. tick' = [tick EXCEPT !.pc = "reread", !.copy.failures = failures]
      BY <1>4 DEF TickAnswered
    <3> HIDE DEF failures
    <3> QED BY <3>1, <3>2
  <2>2. tick.pc = "asking" /\ UNCHANGED <<row, owner, resumes>>
    BY <1>4 DEF TickAnswered
  <2>3. /\ tick' \in [pc : {"reread"}, copy : Schedules]
        /\ tick'.copy.paused = tick.copy.paused
    BY <2>1 DEF RowsTyped, Schedules
  <2> QED BY <2>2, <2>3 DEF RowsTyped, PauseKnown
<1>5. CASE TickRereads
  BY <1>5 DEF TickRereads, NoTick, Off, RowsTyped, PauseKnown, Schedules
<1>6. CASE TickWrites
  BY <1>6 DEF TickWrites, NoTick, Off, RowsTyped, PauseKnown, Schedules
<1> QED BY <1>1, <1>2, <1>3, <1>4, <1>5, <1>6 DEF Ticks

LEMMA PauseUnderOwner ==
    ASSUME PauseInv, Owner
    PROVE  PauseInv' /\ (row.paused /\ ~row'.paused => owner.pc = "resume")
<1> USE DEF PauseInv
<1>1. CASE TurnOn
  BY <1>1 DEF TurnOn, RowsTyped, PauseKnown
<1>2. CASE TurnedOn
  BY <1>2 DEF TurnedOn, NoClick, Off, RowsTyped, PauseKnown, Schedules
<1>3. CASE TurnOff
  BY <1>3 DEF TurnOff, RowsTyped, PauseKnown, Schedules
<1>4. CASE Resume
  BY <1>4 DEF Resume, Off, RowsTyped, PauseKnown, Schedules
<1>5. CASE Resumed
  BY <1>5 DEF Resumed, NoClick, Off, RowsTyped, PauseKnown, Schedules
<1> QED BY <1>1, <1>2, <1>3, <1>4, <1>5 DEF Owner

\* a sync's end clears what was counted, in the row and in every copy of it
LEMMA PauseUnderOthers ==
    ASSUME PauseInv, \/ Jobs \/ TimePasses \/ UNCHANGED syncVars
                     \/ \E q \in Requesters : Requests(q)
    PROVE  PauseInv' /\ row'.paused = row.paused
<1> USE DEF PauseInv
<1>1. ASSUME NEW stop, NEW ok, SyncFinished(stop, ok) PROVE PauseInv' /\ row'.paused = row.paused
  BY <1>1 DEF SyncFinished, RowsTyped, PauseKnown, Schedules
<1>2. CASE SyncEnds
  BY <1>1, <1>2 DEF SyncEnds
<1>3. ASSUME NEW q \in Requesters, RequesterDies(q) PROVE PauseInv' /\ row'.paused = row.paused
  BY <1>3 DEF RequesterDies, NoTick, Off, RowsTyped, PauseKnown, Schedules
<1>4. ASSUME UNCHANGED <<row, tick, owner, resumes>> PROVE PauseInv' /\ row'.paused = row.paused
  BY <1>4 DEF RowsTyped, PauseKnown
<1>5. CASE Jobs
  BY <1>2, <1>4, <1>5 DEF Jobs, CaptureEnds, Captured, JobDies, Stalls
<1>6. ASSUME NEW q \in Requesters, Requests(q) PROVE PauseInv' /\ row'.paused = row.paused
  BY <1>3, <1>4, <1>6 DEF Requests, PersonAsks, Look, Claim, Confirm, Launch
<1> QED BY <1>4, <1>5, <1>6 DEF TimePasses, syncVars

LEMMA PauseStep ==
    ASSUME PauseInv, [SyncNext]_syncVars
    PROVE  PauseInv' /\ (row.paused /\ ~row'.paused => owner.pc = "resume")
BY PauseUnderTicks, PauseUnderOwner, PauseUnderOthers DEF SyncNext

(* The tick's and the owner's copies of the row never know less of a pause  *)
(* than the row does (autosync.tick, set_switch).                           *)
THEOREM PauseInvariant == SyncSpec => []PauseInv
<1>1. PauseInv /\ [SyncNext]_syncVars => PauseInv'
  BY PauseStep
<1> QED BY <1>1, PauseInit, PTL DEF SyncSpec

(* Resume is the only way out of a pause, whatever the tick and the owner's *)
(* switch read before and write after (autosync.tick, set_switch).          *)
THEOREM OnlyResumeEndsAPause == SyncSpec => OnlyResumeLeavesAPause
<1>1. PauseInv /\ [SyncNext]_syncVars => [row.paused /\ ~row'.paused => owner.pc = "resume"]_syncVars
  BY PauseStep
<1> QED BY <1>1, PauseInvariant, PTL DEF SyncSpec, OnlyResumeLeavesAPause
=============================================================================
