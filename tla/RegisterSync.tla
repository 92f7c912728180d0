---------------------------- MODULE RegisterSync ----------------------------
(***************************************************************************)
(* The register sync that starts by itself (catalog/register/autosync.py):  *)
(* the hourly tick, the owner's switch, and the single flight it shares     *)
(* with a sync somebody asks for and a capture of single manufacturers      *)
(* (catalog/register/service.py).  One project holds a switch.  A sync is   *)
(* seen from outside: it captures what is left, one manufacturer at a time, *)
(* and ends with a summary or without one (catalog/register/sync.py).       *)
(*                                                                         *)
(* Time is whether the newest finished sync's interval has passed: an hour   *)
(* with something left, a day without, the cooldown after a throttle.  How   *)
(* many throttles in a row lengthen it is left out.                          *)
(***************************************************************************)
EXTENDS Naturals, FiniteSets

CONSTANTS
    MaxBacklog,     \* bound: manufacturers left to capture
    MaxResumes,     \* bound: how often the owner resumes
    MaxManual,      \* bound: requests people make themselves
    MaxDeaths       \* bound: API or job processes that die

VARIABLES
    row,        \* register_sync_schedules: the switch, the pause, the counters
    last,       \* the newest finished sync, as last_attempt reads it
    waited,     \* its interval has passed
    flight,     \* the newest sync group and the newest capture group
    asking,     \* where each requester is in request_sync or request_capture
    tick,       \* the tick in progress: its place and its copy of the row
    owner,      \* the owner's click in progress, with what it has read
    backlog,    \* manufacturers left to capture
    resumes, manual, deaths

syncVars == <<row, last, waited, flight, asking, tick, owner, backlog, resumes, manual, deaths>>

FailuresBeforePause == 2

Off == [on |-> FALSE, paused |-> FALSE, resumed |-> 0, failures |-> 0, counted |-> TRUE]
NoSync == [stop |-> "never", ok |-> TRUE, at |-> 0]
NoTick == [pc |-> "idle", copy |-> Off]
NoClick == [pc |-> "idle", read |-> Off]
Requesters == {"tick", "person", "capturer"}
Kind(q) == IF q = "capturer" THEN "capture" ELSE "sync"

SyncInit ==
    /\ row = Off /\ last = NoSync /\ waited = TRUE /\ tick = NoTick /\ owner = NoClick
    /\ flight = [k \in {"sync", "capture"} |-> "none"]
    /\ asking = [q \in Requesters |-> "idle"]
    /\ backlog \in 0..MaxBacklog
    /\ resumes = 0 /\ manual = 0 /\ deaths = 0

-----------------------------------------------------------------------------
(* Single flight: a look, the claim, and a second look after it. *)

\* not ended, not a failed trigger, and not stalled for longer than the grace
InFlight(k) == flight[k] \in {"claimed", "running"}
Busy(q) == IF q = "capturer" THEN InFlight("sync") ELSE InFlight("sync") \/ InFlight("capture")
OtherBusy(q) == IF q = "capturer" THEN InFlight("sync") ELSE InFlight("capture")

Ask(q, place) == asking' = [asking EXCEPT ![q] = place]
\* a person is answered and done; the tick goes on with the answer
Answer(q, answer) == Ask(q, IF q = "tick" THEN answer ELSE "idle")
Fly(k, state) == flight' = [flight EXCEPT ![k] = state]

\* somebody presses Sync register or Capture
PersonAsks(q) ==
    /\ q # "tick" /\ asking[q] = "idle" /\ manual < MaxManual
    /\ Ask(q, "look") /\ manual' = manual + 1
    /\ UNCHANGED <<row, last, waited, flight, tick, owner, backlog, resumes, deaths>>

Look(q) ==
    /\ asking[q] = "look" /\ (IF Busy(q) THEN Answer(q, "refused") ELSE Ask(q, "claim"))
    /\ UNCHANGED <<row, last, waited, flight, tick, owner, backlog, resumes, manual, deaths>>

\* the claim is serialized in the database, against its own kind only
Claim(q) ==
    /\ asking[q] = "claim"
    /\ IF InFlight(Kind(q)) THEN Answer(q, "refused") /\ UNCHANGED flight
       ELSE Fly(Kind(q), "claimed") /\ Ask(q, "confirm")
    /\ UNCHANGED <<row, last, waited, tick, owner, backlog, resumes, manual, deaths>>

ConfirmUnchecked(q) ==
    /\ asking[q] = "confirm" /\ Ask(q, "launch") /\ UNCHANGED flight
    /\ UNCHANGED <<row, last, waited, tick, owner, backlog, resumes, manual, deaths>>

\* a claim that finds the other kind live is given back as a failed trigger
Confirm(q) ==
    /\ asking[q] = "confirm"
    /\ IF OtherBusy(q) THEN Fly(Kind(q), "none") /\ Answer(q, "refused")
       ELSE Ask(q, "launch") /\ UNCHANGED flight
    /\ UNCHANGED <<row, last, waited, tick, owner, backlog, resumes, manual, deaths>>

\* the job starts, is refused by the platform, or nobody knows and it never does
Launch(q) ==
    /\ asking[q] = "launch"
    /\ \/ Fly(Kind(q), "running") /\ Answer(q, "started")
       \/ Fly(Kind(q), "none") /\ Answer(q, "notTriggered")
       \/ Answer(q, "started") /\ UNCHANGED flight
    /\ UNCHANGED <<row, last, waited, tick, owner, backlog, resumes, manual, deaths>>

\* the API process dies: its claim stays
RequesterDies(q) ==
    /\ deaths < MaxDeaths /\ asking[q] # "idle" /\ Ask(q, "idle") /\ deaths' = deaths + 1
    /\ tick' = IF q = "tick" THEN NoTick ELSE tick
    /\ UNCHANGED <<row, last, waited, flight, owner, backlog, resumes, manual>>

StallsWithRun(k) ==
    /\ flight[k] = "lost" /\ Fly(k, "none")
    /\ UNCHANGED <<row, last, waited, asking, tick, owner, backlog, resumes, manual, deaths>>

\* nobody will start it, or its job died: stalled once the grace is over
Stalls(k) ==
    /\ flight[k] \in {"claimed", "lost"}
    /\ ~ \E q \in Requesters : Kind(q) = k /\ asking[q] \in {"confirm", "launch"}
    /\ Fly(k, "none")
    /\ UNCHANGED <<row, last, waited, asking, tick, owner, backlog, resumes, manual, deaths>>

-----------------------------------------------------------------------------
(* The jobs. *)

Captured(k) ==
    /\ flight[k] = "running" /\ backlog > 0 /\ backlog' = backlog - 1
    /\ UNCHANGED <<row, last, waited, flight, asking, tick, owner, resumes, manual, deaths>>

\* a sync finishes: the copy of the newest counted run is now another one
SyncFinished(stop, ok) ==
    /\ last' = [stop |-> stop, ok |-> ok,
                at |-> IF stop = "capacity" THEN resumes ELSE 0] /\ waited' = FALSE
    /\ row' = [row EXCEPT !.counted = FALSE]
    /\ tick' = [tick EXCEPT !.copy.counted = FALSE]
    /\ owner' = [owner EXCEPT !.read.counted = FALSE]
    /\ Fly("sync", "none")
    /\ UNCHANGED <<asking, backlog, resumes, manual, deaths>>

\* how run_sync ends
SyncEnds ==
    /\ flight["sync"] = "running"
    /\ \/ \E ok \in BOOLEAN : SyncFinished("other", ok)      \* done, out of requests, or failed
       \/ backlog > 0 /\ SyncFinished("capacity", TRUE)
       \/ SyncFinished("throttled", FALSE)

CaptureEnds ==
    /\ flight["capture"] = "running" /\ Fly("capture", "none")
    /\ UNCHANGED <<row, last, waited, asking, tick, owner, backlog, resumes, manual, deaths>>

JobDies(k) ==
    /\ deaths < MaxDeaths /\ flight[k] = "running" /\ Fly(k, "lost") /\ deaths' = deaths + 1
    /\ UNCHANGED <<row, last, waited, asking, tick, owner, backlog, resumes, manual>>

TimePasses ==
    /\ ~waited /\ waited' = TRUE
    /\ UNCHANGED <<row, last, flight, asking, tick, owner, backlog, resumes, manual, deaths>>

-----------------------------------------------------------------------------
(* The tick. *)

\* counts a newly finished sync, once
Observe(schedule) ==
    IF schedule.counted THEN schedule
    ELSE IF last.stop = "throttled" THEN [schedule EXCEPT !.counted = TRUE]
    ELSE [schedule EXCEPT !.counted = TRUE,
            !.failures = IF last.ok THEN 0 ELSE IF @ = FailuresBeforePause THEN @ ELSE @ + 1]

CoolingDown == last.stop = "throttled" /\ ~waited
\* a stop before the owner's last Resume no longer counts
FreshCapacityStop(schedule) == last.stop = "capacity" /\ last.at >= schedule.resumed
Due == last.stop = "never" \/ waited

\* decide: the first rule that applies; `full` is the database's size now
Decision(schedule, full) ==
    IF schedule.paused \/ InFlight("sync") \/ InFlight("capture") \/ CoolingDown THEN "skip"
    ELSE IF FreshCapacityStop(schedule) \/ full \/ schedule.failures >= FailuresBeforePause THEN "pause"
    ELSE IF Due THEN "start" ELSE "skip"

\* the rows are read first; a switch that is off starts nothing
TickBegins ==
    /\ tick.pc = "idle" /\ asking["tick"] = "idle" /\ row.on
    /\ tick' = [pc |-> "decide", copy |-> row]
    /\ UNCHANGED <<row, last, waited, flight, asking, owner, backlog, resumes, manual, deaths>>

TickDecides ==
    /\ tick.pc = "decide"
    /\ \E full \in BOOLEAN :
       LET schedule == Observe(tick.copy)
           decision == Decision(schedule, full)
       IN tick' = [tick EXCEPT
              !.copy = [schedule EXCEPT !.paused = @ \/ decision = "pause"],
              !.pc = IF decision = "start" THEN "recheck" ELSE "reread"]
    /\ UNCHANGED <<row, last, waited, flight, asking, owner, backlog, resumes, manual, deaths>>

\* the owner may have turned it off meanwhile
TickRechecks ==
    /\ tick.pc = "recheck"
    /\ IF row.on /\ ~row.paused
       THEN Ask("tick", "look") /\ tick' = [tick EXCEPT !.pc = "asking"]
       ELSE tick' = [tick EXCEPT !.pc = "reread"] /\ UNCHANGED asking
    /\ UNCHANGED <<row, last, waited, flight, owner, backlog, resumes, manual, deaths>>

\* a start that never triggered counts as a failure
TickAnswered ==
    /\ tick.pc = "asking" /\ asking["tick"] \in {"refused", "started", "notTriggered"}
    /\ Ask("tick", "idle")
    /\ tick' = [tick EXCEPT !.pc = "reread",
            !.copy.failures = IF asking["tick"] = "notTriggered" /\ @ < FailuresBeforePause THEN @ + 1 ELSE @]
    /\ UNCHANGED <<row, last, waited, flight, owner, backlog, resumes, manual, deaths>>

\* the owner's Resume during the tick wins
TickRereads ==
    /\ tick.pc = "reread"
    /\ tick' = IF row.resumed # tick.copy.resumed THEN NoTick ELSE [tick EXCEPT !.pc = "write"]
    /\ UNCHANGED <<row, last, waited, flight, asking, owner, backlog, resumes, manual, deaths>>

\* everything but the switch itself
TickWrites ==
    /\ tick.pc = "write" /\ row' = [tick.copy EXCEPT !.on = row.on] /\ tick' = NoTick
    /\ UNCHANGED <<last, waited, flight, asking, owner, backlog, resumes, manual, deaths>>

-----------------------------------------------------------------------------
(* The owner. *)

\* the shared state is read first ...
TurnOn ==
    /\ owner.pc = "idle" /\ ~row.on /\ owner' = [pc |-> "on", read |-> row]
    /\ UNCHANGED <<row, last, waited, flight, asking, tick, backlog, resumes, manual, deaths>>

TurnedOnWhole ==
    /\ owner.pc = "on" /\ row' = [owner.read EXCEPT !.on = TRUE] /\ owner' = NoClick
    /\ UNCHANGED <<last, waited, flight, asking, tick, backlog, resumes, manual, deaths>>

\* ... and written back with the switch, except what was unset
TurnedOn ==
    /\ owner.pc = "on" /\ owner' = NoClick
    /\ row' = [owner.read EXCEPT !.on = TRUE,
                  !.paused = @ \/ row.paused,
                  !.resumed = IF @ = 0 THEN row.resumed ELSE @]
    /\ UNCHANGED <<last, waited, flight, asking, tick, backlog, resumes, manual, deaths>>

TurnOff ==
    /\ owner.pc = "idle" /\ row.on /\ row' = [row EXCEPT !.on = FALSE]
    /\ UNCHANGED <<last, waited, flight, asking, tick, owner, backlog, resumes, manual, deaths>>

\* refused while a capacity pause still has its cause: retention ran before
Resume ==
    /\ owner.pc = "idle" /\ resumes < MaxResumes
    /\ row.paused
    /\ resumes' = resumes + 1 /\ owner' = [pc |-> "resume", read |-> Off]
    /\ UNCHANGED <<row, last, waited, flight, asking, tick, backlog, manual, deaths>>

Resumed ==
    /\ owner.pc = "resume" /\ owner' = NoClick
    /\ row' = [row EXCEPT !.paused = FALSE, !.resumed = resumes, !.failures = 0,
                          !.counted = IF last.stop = "never" THEN @ ELSE owner.read.counted]
    /\ UNCHANGED <<last, waited, flight, asking, tick, backlog, resumes, manual, deaths>>

-----------------------------------------------------------------------------
Requests(q) ==
    PersonAsks(q) \/ Look(q) \/ Claim(q) \/ Confirm(q) \/ Launch(q) \/ RequesterDies(q)
Jobs == SyncEnds \/ CaptureEnds \/ \E k \in {"sync", "capture"} : Captured(k) \/ JobDies(k) \/ Stalls(k)
Ticks == TickBegins \/ TickDecides \/ TickRechecks \/ TickAnswered \/ TickRereads \/ TickWrites
Owner == TurnOn \/ TurnedOn \/ TurnOff \/ Resume \/ Resumed

SyncNext == Jobs \/ Ticks \/ Owner \/ TimePasses \/ \E q \in Requesters : Requests(q)

Started(q) == Launch(q) /\ flight'[Kind(q)] = "running"

(* The scheduler ticks every hour, processes go on, time passes and a       *)
(* stalled group is seen as stalled.  A job that keeps being started is     *)
(* started for real some time, and captures some time.                      *)
Fairness ==
    /\ WF_syncVars(TickBegins) /\ WF_syncVars(TickDecides \/ TickRechecks \/ TickAnswered \/ TickRereads \/ TickWrites)
    /\ \A q \in Requesters : WF_syncVars(Look(q) \/ Claim(q) \/ Confirm(q) \/ Launch(q)) /\ SF_syncVars(Started(q))
    /\ \A k \in {"sync", "capture"} : WF_syncVars(Stalls(k))
    /\ WF_syncVars(SyncEnds) /\ WF_syncVars(CaptureEnds) /\ SF_syncVars(Captured("sync"))
    /\ WF_syncVars(TimePasses)

SyncSpec == SyncInit /\ [][SyncNext]_syncVars /\ Fairness

-----------------------------------------------------------------------------
(* A sync never runs beside a capture of single manufacturers, whoever asks  *)
(* first and however the two claims interleave (request_sync and             *)
(* request_capture look again after their claims).                           *)
SyncAlone == ~(flight["sync"] = "running" /\ flight["capture"] = "running")

(* Resume is the only way out of a pause: neither a tick that read the row   *)
(* earlier nor the switch turned off and on again clears it.                 *)
OnlyResumeLeavesAPause ==
    [][row.paused /\ ~row'.paused => owner.pc = "resume"]_syncVars

(* With the switch on and no pause, everything that is left gets captured:    *)
(* no claim, throttle, dead process or lost start stops the syncs for good.   *)
RegisterCompletes == <>[](row.on /\ ~row.paused) => <>(backlog = 0)
=============================================================================
