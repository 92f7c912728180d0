------------------------- MODULE RegisterSnapshots -------------------------
(***************************************************************************)
(* The snapshots of one manufacturer's rows in the Government register:     *)
(* capture page by page, opening or adopting the snapshot, its rows and     *)
(* readings, activation (catalog/government/client.py, ingest.py,           *)
(* refresh.py), and for a register capture the count check, the archive,    *)
(* the variants and the compaction that removes stored payloads             *)
(* (catalog/register/capture.py, compaction.py).  A Prepare run captures    *)
(* too, and cuts a batch from the snapshot it ends with.                    *)
(*                                                                         *)
(* A version stands for the content the register publishes under it; what  *)
(* a page held is the version it was read from.  Versions only move         *)
(* forward, and a version and its rows are published together: an           *)
(* assumption about the register, not a property of this code.              *)
(***************************************************************************)
EXTENDS Naturals, Sequences, FiniteSets

CONSTANTS
    Prepares,       \* runs that prepare a mapping plan
    Captures,       \* runs that capture a register group
    PageCount,      \* pages of the query; one page is one write batch
    MaxVersions     \* bound: versions the register publishes

ASSUME RegisterConstants ==
    /\ Prepares \cap Captures = {}
    /\ PageCount \in Nat \ {0} /\ MaxVersions \in Nat \ {0}

Runs == Prepares \cup Captures
Versions == 1..MaxVersions
Pages == 1..PageCount
Nobody == "nobody"
\* the snapshot key: the version the resource states and the pages' digests
Keys == [label : Versions, pages : [Pages -> Versions]]

VARIABLES
    published,  \* the version the register publishes now
    run,        \* each run: its place, status, lease and what it has read
    snap,       \* catalog_source_snapshots, with what belongs to each
    active,     \* the activated snapshots, in order of activated_at
    object,     \* whether the bucket holds the snapshot's archive object
    batch       \* the batch cut from each snapshot

vars == <<published, run, snap, active, object, batch>>

NoSnapshot == [state |-> "absent", creator |-> Nobody, writer |-> Nobody, adopters |-> {},
               rows |-> {}, readings |-> {}, archive |-> FALSE, verified |-> "none",
               built |-> FALSE, payload |-> "kept"]
NewRun == [pc |-> "absent", status |-> "absent", lease |-> FALSE, asked |-> 0, label |-> 0, got |-> <<>>,
           n |-> 0, counted |-> "none", target |-> <<>>, tried |-> {}]

Key(r) == [label |-> run[r].label, pages |-> run[r].got]
Snap(r) == snap[Key(r)]
Active(k) == snap[k].state = "complete"
NewestActive == active[Len(active)]
Live(r) == run[r].status = "live"

CapturePcs == {"version", "page", "open", "adopt", "rows", "readings", "verify", "archive",
               "recordArchive", "activate", "record"}
CompactionPcs == {"build", "ready", "apply", "superseded"}
PreparePcs == {"check", "match", "queue"}
WritePcs == {"open", "adopt", "rows", "readings", "recordArchive", "activate", "record", "queue", "finish"}
Working(r) == run[r].pc \in CapturePcs \cup CompactionPcs \cup PreparePcs \cup {"finish"}

Init ==
    /\ published = 1 /\ active = <<>>
    /\ run = [r \in Runs |-> NewRun]
    /\ snap = [k \in Keys |-> NoSnapshot]
    /\ object = [k \in Keys |-> FALSE]
    /\ batch = [k \in Keys |-> "none"]

-----------------------------------------------------------------------------
(* A run's life, as far as snapshots look at it. *)

Goto(r, pc) == run' = [run EXCEPT ![r].pc = pc]
Over(r, status) == [NewRun EXCEPT !.pc = "over", !.status = status]
\* the process ends without another word; its run keeps its status and lease
Gone(r) == run' = [run EXCEPT ![r] =
    [@ EXCEPT !.pc = "gone", !.label = 0, !.got = <<>>, !.n = 0, !.counted = "none",
              !.target = <<>>, !.tried = {}]]
\* assert_worker_lease: the token's lease must not have expired
Leased(r, pc) == run[r].pc = pc /\ run[r].lease

\* request_register_capture answers with the live capture of the same version
StartRun(r) ==
    /\ run[r].pc = "absent"
    /\ r \in Captures => ~ \E q \in Captures : run[q].lease /\ run[q].asked = published
    /\ run' = [run EXCEPT ![r] = [NewRun EXCEPT !.status = "live", !.lease = TRUE, !.asked = published,
                  !.pc = IF r \in Prepares THEN "check" ELSE "version"]]
    /\ UNCHANGED <<published, snap, active, object, batch>>

ProcessDies(r) ==
    /\ Working(r) /\ Gone(r)
    /\ UNCHANGED <<published, snap, active, object, batch>>

LeaseLapses(r) ==
    /\ run[r].lease /\ run' = [run EXCEPT ![r].lease = FALSE]
    /\ UNCHANGED <<published, snap, active, object, batch>>

\* an operator retires or cancels the run a dead process left behind
Reclaimed(r) ==
    /\ Live(r) /\ ~run[r].lease
    /\ run' = [run EXCEPT ![r].status = "failed"]
    /\ UNCHANGED <<published, snap, active, object, batch>>

\* a write under a lapsed lease is refused, and ends the whole group
StaleWrite(r) ==
    /\ run[r].pc \in WritePcs /\ ~run[r].lease /\ Gone(r)
    /\ UNCHANGED <<published, snap, active, object, batch>>

\* the unit record a failed capture leaves on the snapshot it had opened
UnitFailed(r, counted) ==
    IF r \in Captures /\ run[r].pc \in {"verify", "archive", "recordArchive", "activate", "record"}
    THEN snap' = [snap EXCEPT ![Key(r)].verified = IF counted = "none" THEN "unknown" ELSE counted]
    ELSE UNCHANGED snap

FailsKeepingRun(r, counted) ==
    /\ UnitFailed(r, counted)
    /\ run' = [run EXCEPT ![r] = Over(r, IF r \in Captures THEN "completed" ELSE "failed")]

\* a failed unit ends its run `failed`, whatever else the group captured
Fails(r, counted) ==
    /\ UnitFailed(r, counted)
    /\ run' = [run EXCEPT ![r] = Over(r, "failed")]

\* any refusal of the source, the bucket or the repository, or a cancellation
CaptureFails(r) ==
    /\ run[r].pc \in CapturePcs \cup PreparePcs /\ run[r].lease /\ Fails(r, run[r].counted)
    /\ UNCHANGED <<published, active, object, batch>>

Finish(r) ==
    /\ Leased(r, "finish") /\ run' = [run EXCEPT ![r] = Over(r, "completed")]
    /\ UNCHANGED <<published, snap, active, object, batch>>

-----------------------------------------------------------------------------
(* Reading the register. *)

Publish ==
    /\ published < MaxVersions /\ published' = published + 1
    /\ UNCHANGED <<run, snap, active, object, batch>>

\* sync_if_changed reads the published version first ...
CheckVersion(r) ==
    /\ run[r].pc = "check"
    /\ run' = [run EXCEPT ![r].pc = "match", ![r].label = published]
    /\ UNCHANGED <<published, snap, active, object, batch>>

\* ... and captures unless the newest active snapshot states that version
Match(r) ==
    /\ run[r].pc = "match"
    /\ IF active # <<>> /\ NewestActive.label = run[r].label
       THEN run' = [run EXCEPT ![r].pc = "queue", ![r].target = NewestActive]
       ELSE Goto(r, "version")
    /\ UNCHANGED <<published, snap, active, object, batch>>

\* capture_resource reads the metadata itself, before any page
ReadVersion(r) ==
    /\ run[r].pc = "version"
    /\ run' = [run EXCEPT ![r].pc = "page", ![r].label = published, ![r].got = <<>>]
    /\ UNCHANGED <<published, snap, active, object, batch>>

FetchPageThenVersion(r) ==
    /\ run[r].pc = "page"
    /\ LET got == Append(run[r].got, published)
       IN run' = [run EXCEPT ![r].got = got, ![r].label = published,
                             ![r].pc = IF Len(got) = PageCount THEN "open" ELSE "page"]
    /\ UNCHANGED <<published, snap, active, object, batch>>

\* pages of two versions may disagree on the total, the schema or an id, and
\* then the capture fails (CaptureFails); or they may happen to agree
FetchPage(r) ==
    /\ run[r].pc = "page"
    /\ LET got == Append(run[r].got, published)
       IN run' = [run EXCEPT ![r].got = got,
                             ![r].pc = IF Len(got) = PageCount THEN "open" ELSE "page"]
    /\ UNCHANGED <<published, snap, active, object, batch>>

-----------------------------------------------------------------------------
(* Opening the snapshot, and its rows. *)

AfterReuse(r) == IF r \in Captures THEN "verify" ELSE "queue"
ToRows(r) == run' = [run EXCEPT ![r].pc = "rows", ![r].n = 1]

\* ingest_capture: an identical capture is the same row
OpenSnapshot(r) ==
    /\ Leased(r, "open")
    /\ \/ /\ Snap(r).state = "absent"
          /\ snap' = [snap EXCEPT ![Key(r)] =
                 [NoSnapshot EXCEPT !.state = "pending", !.creator = r, !.writer = r]]
          /\ ToRows(r) \/ UNCHANGED run     \* or the answer was lost
       \/ /\ Snap(r).state = "pending" /\ Snap(r).creator = r /\ ToRows(r) /\ UNCHANGED snap
       \/ /\ Active(Key(r)) /\ UNCHANGED snap
          /\ run' = [run EXCEPT ![r].pc = AfterReuse(r), ![r].target = Key(r)]
       \/ /\ Snap(r).state \in {"pending", "failed"} /\ Snap(r).creator # r
          /\ Goto(r, "adopt") /\ UNCHANGED snap
    /\ UNCHANGED <<published, active, object, batch>>

\* only a pending snapshot whose writer failed and holds no live lease
Adoptable(k) ==
    /\ snap[k].state = "pending"
    /\ run[snap[k].writer].status = "failed" /\ ~run[snap[k].writer].lease

AdoptSnapshot(r) ==
    /\ Leased(r, "adopt")
    /\ IF snap[Key(r)].writer = r \/ (Adoptable(Key(r)) /\ Live(r))
       THEN /\ snap' = [snap EXCEPT ![Key(r)].writer = r,
                                    ![Key(r)].adopters = @ \cup {r}]
            /\ ToRows(r) \/ UNCHANGED run
       ELSE Fails(r, "none")
    /\ UNCHANGED <<published, active, object, batch>>

\* assert_snapshot_write_authority
MayWrite(r) == Snap(r).writer = r /\ Snap(r).state = "pending"

Advance(r, next) ==
    run' = [run EXCEPT ![r].n = IF @ = PageCount THEN 1 ELSE @ + 1,
                       ![r].pc = IF run[r].n = PageCount THEN next ELSE @]

AfterRowsNoReadings(r) == IF r \in Captures THEN "verify" ELSE "activate"
AfterRows(r) == "readings"

\* a whole batch or nothing; the same rows again collapse onto their keys
WriteRows(r) ==
    /\ Leased(r, "rows")
    /\ IF MayWrite(r)
       THEN /\ snap' = [snap EXCEPT ![Key(r)].rows = @ \cup {run[r].n}]
            /\ Advance(r, AfterRows(r))
       ELSE Fails(r, "none")
    /\ UNCHANGED <<published, active, object, batch>>

WriteReadings(r) ==
    /\ Leased(r, "readings")
    /\ IF MayWrite(r)
       THEN /\ snap' = [snap EXCEPT ![Key(r)].readings = @ \cup {run[r].n}]
            /\ Advance(r, IF r \in Captures THEN "verify" ELSE "activate")
       ELSE Fails(r, "none")
    /\ UNCHANGED <<published, active, object, batch>>

\* the gate compares stored and declared records; a refusal is final
Activate(r) ==
    /\ Leased(r, "activate")
    /\ \/ /\ MayWrite(r)
          /\ IF Snap(r).rows = Pages
             THEN /\ snap' = [snap EXCEPT ![Key(r)].state = "complete"]
                  /\ active' = Append(active, Key(r)) /\ UNCHANGED run
             ELSE /\ snap' = [snap EXCEPT ![Key(r)].state = "failed"]
                  /\ run' = [run EXCEPT ![r] = Over(r, "failed")] /\ UNCHANGED active
       \/ /\ Snap(r).writer = r /\ Active(Key(r))
          /\ run' = [run EXCEPT ![r].pc = AfterReuse(r), ![r].target = Key(r)]
          /\ UNCHANGED <<snap, active>>
    /\ UNCHANGED <<published, object, batch>>

-----------------------------------------------------------------------------
(* Before and after activation, a register capture checks and archives. *)

\* the stored rows against a fresh count of the register, taken once
CountAgrees(r) ==
    IF Snap(r).rows # Pages THEN {FALSE}
    ELSE IF run[r].counted = "yes" \/ \A p \in Pages : run[r].got[p] = published THEN {TRUE}
    ELSE BOOLEAN

VerifyCount(r) ==
    /\ run[r].pc = "verify" /\ run[r].lease
    /\ \E agrees \in CountAgrees(r) :
          IF agrees
          THEN run' = [run EXCEPT ![r].pc = "archive", ![r].counted = "yes"] /\ UNCHANGED snap
          ELSE Fails(r, "no")
    /\ UNCHANGED <<published, active, object, batch>>

AfterArchive(r) == IF Active(Key(r)) THEN "record" ELSE "activate"

\* _Archiver.ensure: a recorded archive stands; else the object is written,
\* create-only, with the bytes of this capture
EnsureArchive(r) ==
    /\ run[r].pc = "archive"
    /\ IF Snap(r).archive
       THEN Goto(r, AfterArchive(r)) /\ UNCHANGED object
       ELSE object' = [object EXCEPT ![Key(r)] = TRUE] /\ Goto(r, "recordArchive")
    /\ UNCHANGED <<published, snap, active, batch>>

RecordArchive(r) ==
    /\ Leased(r, "recordArchive")
    /\ IF Snap(r).rows = Pages
       THEN /\ snap' = [snap EXCEPT ![Key(r)].archive = TRUE]
            /\ Goto(r, AfterArchive(r))
       ELSE Fails(r, "no")
    /\ UNCHANGED <<published, active, object, batch>>

\* record_register_unit_status
RecordCaptured(r) ==
    /\ Leased(r, "record")
    /\ IF Active(Key(r)) /\ Snap(r).archive
       THEN snap' = [snap EXCEPT ![Key(r)].verified = "yes"] /\ Goto(r, "build")
       ELSE Fails(r, run[r].counted)
    /\ UNCHANGED <<published, active, object, batch>>

-----------------------------------------------------------------------------
(* The variants and the compaction.  None of it fails the unit. *)

ToFinish(r) == run' = [run EXCEPT ![r] = [@ EXCEPT !.pc = "finish", !.label = 0, !.got = <<>>, !.n = 0,
                                          !.counted = "none", !.target = <<>>, !.tried = {}]]

\* only the newest activation is built, from its payloads
Buildable(k) == k = NewestActive /\ snap[k].verified # "no" /\ snap[k].payload = "kept"

Build(r) ==
    /\ run[r].pc = "build"
    /\ \/ /\ Snap(r).built \/ Buildable(Key(r))
          /\ snap' = [snap EXCEPT ![Key(r)].built = TRUE]
          /\ run' = [run EXCEPT ![r].pc = "ready", ![r].target = Key(r)]
       \/ ToFinish(r) /\ UNCHANGED snap     \* refused, or the build failed
    /\ UNCHANGED <<published, active, object, batch>>

\* a live run that may be reading it: its writers, a Prepare, its batch's run
InUse(k, r) ==
    \/ \E q \in Runs \ {r} : Live(q) /\ (q \in Prepares \/ q = snap[k].creator \/ q \in snap[k].adopters)
    \/ batch[k] = "running"

StillReadByLiveRunsOnly(k, r) == InUse(k, r)
\* for a superseded snapshot also a batch its plan can still start
StillRead(k, r) == InUse(k, r) \/ batch[k] = "startable"

Superseded(k) == k # NewestActive
Verified(k) == snap[k].verified \in {"none", "yes"} /\ snap[k].rows = Pages

\* compact_register_snapshot up to its archive check
ReadyButArchive(k, r) ==
    /\ Active(k) /\ Verified(k)
    /\ IF Superseded(k)
       THEN snap[k].payload # "archived" /\ snap[NewestActive].built /\ ~StillRead(k, r)
       ELSE snap[k].payload = "kept" /\ snap[k].built /\ ~InUse(k, r)
Ready(k, r) == ReadyButArchive(k, r) /\ snap[k].archive
Unchanged(k) == snap[k].payload = "archived" \/ (snap[k].payload = "typed" /\ ~Superseded(k))

\* after the snapshot itself, the older ones of the same manufacturer
NextTarget(r) ==
    run' = [run EXCEPT ![r].tried = @ \cup {run[r].target},
                       ![r].pc = "superseded", ![r].target = <<>>]
Refused(r) == IF run[r].target = Key(r) THEN ToFinish(r) ELSE NextTarget(r)

DryRunOnly(r) ==
    /\ run[r].pc = "ready"
    /\ IF Ready(run[r].target, r) THEN Goto(r, "apply")
       ELSE IF Unchanged(run[r].target) THEN NextTarget(r)
       ELSE Refused(r)
    /\ UNCHANGED <<published, snap, active, object, batch>>

\* the dry run, then the object's bytes are read back and hashed
ReadBack(r) ==
    /\ run[r].pc = "ready"
    /\ IF Ready(run[r].target, r) /\ object[run[r].target] THEN Goto(r, "apply")
       ELSE IF Unchanged(run[r].target) THEN NextTarget(r)
       ELSE Refused(r)
    /\ UNCHANGED <<published, snap, active, object, batch>>

\* everything is checked again under the table locks
Compact(r) ==
    /\ run[r].pc = "apply"
    /\ LET k == run[r].target
       IN IF Ready(k, r)
          THEN /\ snap' = IF Superseded(k)
                          THEN [snap EXCEPT ![k].payload = "archived", ![k].built = FALSE,
                                            ![k].rows = {}, ![k].readings = {}]
                          ELSE [snap EXCEPT ![k].payload = "typed"]
               /\ NextTarget(r)
          ELSE (IF Unchanged(k) THEN NextTarget(r) ELSE Refused(r)) /\ UNCHANGED snap
    /\ UNCHANGED <<published, active, object, batch>>

Older(r) == {k \in Keys : Active(k) /\ k # Key(r) /\ snap[k].payload # "archived"} \ run[r].tried

\* an older snapshot with no archive has it written from its stored rows first
CompactSuperseded(r) ==
    /\ run[r].pc = "superseded"
    /\ IF Older(r) = {} THEN ToFinish(r) /\ UNCHANGED <<snap, object>>
       ELSE \E k \in Older(r) :
              /\ run' = [run EXCEPT ![r].pc = "ready", ![r].target = k]
              /\ IF ~snap[k].archive /\ ReadyButArchive(k, r) /\ snap[k].payload = "kept"
                 THEN /\ object' = [object EXCEPT ![k] = TRUE]
                      /\ snap' = [snap EXCEPT ![k].archive = TRUE]
                 ELSE UNCHANGED <<snap, object>>
    /\ UNCHANGED <<published, active, batch>>

-----------------------------------------------------------------------------
(* The other readers and the bucket. *)

\* prepare_work_scope_queue refuses a snapshot that is kept as skeletons
\* (catalog_readable_snapshot), and the run ends failed
QueuePrepared(r) ==
    /\ Leased(r, "queue")
    /\ LET k == run[r].target
       IN IF snap[k].payload # "archived"
          THEN /\ ToFinish(r) /\ UNCHANGED snap
               /\ batch' = [batch EXCEPT ![k] = IF @ = "running" THEN @ ELSE "startable"]
          ELSE Fails(r, "none") /\ UNCHANGED batch
    /\ UNCHANGED <<published, active, object>>

BatchStarts(k) ==
    /\ batch[k] = "startable" /\ batch' = [batch EXCEPT ![k] = "running"]
    /\ UNCHANGED <<published, run, snap, active, object>>

\* the run ends with the batch mapped, or unmapped and startable again
BatchEnds(k) ==
    /\ batch[k] = "running" /\ \E b \in {"done", "startable"} : batch' = [batch EXCEPT ![k] = b]
    /\ UNCHANGED <<published, run, snap, active, object>>

\* the plan is revised: no batch of the old revision starts any more
Revised ==
    /\ \E k \in Keys : batch[k] = "startable"
    /\ batch' = [k \in Keys |-> IF batch[k] = "startable" THEN "none" ELSE batch[k]]
    /\ UNCHANGED <<published, run, snap, active, object>>

\* nobody deletes an object once it was read back or answers for removed rows
ObjectDeleted(k) ==
    /\ object[k] /\ snap[k].payload = "kept"
    /\ ~ \E r \in Runs : run[r].pc = "apply" /\ run[r].target = k
    /\ object' = [object EXCEPT ![k] = FALSE]
    /\ UNCHANGED <<published, run, snap, active, batch>>

RunLife(r) ==
    StartRun(r) \/ ProcessDies(r) \/ LeaseLapses(r) \/ Reclaimed(r) \/ StaleWrite(r)
      \/ CaptureFails(r) \/ Finish(r)
RunCaptures(r) ==
    CheckVersion(r) \/ Match(r) \/ ReadVersion(r) \/ FetchPage(r) \/ OpenSnapshot(r)
      \/ AdoptSnapshot(r) \/ WriteRows(r) \/ WriteReadings(r) \/ Activate(r) \/ VerifyCount(r)
      \/ EnsureArchive(r) \/ RecordArchive(r) \/ RecordCaptured(r) \/ QueuePrepared(r)
RunCompacts(r) == Build(r) \/ ReadBack(r) \/ Compact(r) \/ CompactSuperseded(r)

Next ==
    \/ Publish \/ Revised
    \/ \E r \in Runs : RunLife(r) \/ RunCaptures(r) \/ RunCompacts(r)
    \/ \E k \in Keys : BatchStarts(k) \/ BatchEnds(k) \/ ObjectDeleted(k)

Spec == Init /\ [][Next]_vars

-----------------------------------------------------------------------------
(* Whatever the register published while pages were read, a snapshot that   *)
(* states the version published now holds that version: the "unchanged" of  *)
(* sync_if_changed never answers from older content.                        *)
UnchangedMeansCurrent ==
    \A k \in Keys : Active(k) /\ k.label = published => \A p \in Pages : k.pages[p] = published

(* An active snapshot has every row and every reading, through crashes,      *)
(* adoptions and lost answers, until its compaction leaves only the archive. *)
ActiveIsWhole ==
    \A k \in Keys : Active(k) /\ snap[k].payload # "archived" =>
        snap[k].rows = Pages /\ snap[k].readings = Pages

(* A capture that stays pending can be taken over once its writer is over:   *)
(* it never blocks its content for good (_execute ends such a run failed).   *)
PendingCanBeAdopted ==
    \A k \in Keys : snap[k].state = "pending" => run[snap[k].writer].status \in {"live", "failed"}

(* No payload leaves the database before an archive object that holds it     *)
(* was read back (apply_verified, compact_register_snapshot).                *)
PayloadRecoverable ==
    \A k \in Keys : snap[k].payload # "kept" => snap[k].archive /\ object[k]

(* A batch a person may start, or that runs, still has its snapshot's rows.  *)
BatchHasItsRows ==
    \A k \in Keys : batch[k] \in {"startable", "running"} => snap[k].payload # "archived"
=============================================================================
