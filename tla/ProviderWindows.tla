-------------------------- MODULE ProviderWindows --------------------------
(***************************************************************************)
(* The rolling admission windows, the search pacing and the pauses of the  *)
(* organization-wide provider quota (provider_quota.py on its Redis        *)
(* backend). A caller reads its own clock once and then makes several      *)
(* calls to the shared store with that reading; each call is atomic there. *)
(* So readings are stale when they are used, may be used out of order, and *)
(* the processes' clocks differ. The same holds of a caller answered 429:  *)
(* it reads its clock, then stores the deadline of the pause.              *)
(***************************************************************************)
EXTENDS Naturals, FiniteSets, FiniteSetsExt

CONSTANTS
  Callers,
  Kinds,             \* what they ask for: "inference", "search"
  Weights,           \* reserved tokens a request asks for
  MaxRpm, MaxTpm, Window, Interval,
  Pauses,            \* lengths of the pauses the provider's 429s ask for
  MinPause,          \* the least of them
  MaxLag,            \* bound: from reading the clock to the last use of it
  MaxSkew,           \* bound: how far ahead a process's clock runs
  MaxTime            \* bound: the time explored

ASSUME WindowAssumption ==
  /\ IsFiniteSet(Callers)
  /\ Weights \subseteq 1 .. MaxTpm
  /\ Kinds \subseteq {"inference", "search"}
  /\ {MaxRpm, MaxTpm, Window, Interval, MinPause, MaxLag, MaxSkew, MaxTime} \subseteq Nat
  /\ Pauses \subseteq Nat \ {0} /\ \A seconds \in Pauses : MinPause <= seconds
  /\ MaxLag + MaxSkew < Window /\ MaxLag + MaxSkew < Interval
  /\ Interval <= MaxTime

VARIABLES
  clock,       \* real time
  caller,      \* what each caller is doing, with its reading of the clock
  rpm, tpm,    \* the windows: admitted weight by time stamp
  last,        \* time stamp of the last search
  pause,       \* of each dimension: the deadline stored, and when the store
               \* drops its key
  sentRequests, sentTokens, sentSearches, \* history: what went out and when
  assured,     \* history: the shortest pause, from when one was last stored
  ignored      \* history: a request went out in spite of it

windowsVars ==
  <<caller, clock, rpm, tpm, last, pause, sentRequests, sentTokens,
    sentSearches, assured, ignored>>
sent == <<sentRequests, sentTokens, sentSearches>>
signals == <<assured, ignored>>

Dimensions == {"inference", "search"}
Times == 0 .. MaxTime
Stamps == 0 .. MaxTime + MaxSkew
MaxPause == IF Pauses = {} THEN 0 ELSE Max(Pauses)
Deadlines == 0 .. MaxTime + MaxSkew + MaxPause

(* idle; read: has read its clock; open: found no pause; counted: in the   *)
(* RPM window; admitted: may send; sent: awaits the answer; signal: was    *)
(* answered 429 and has read its clock. covered: it really read its clock  *)
(* within what a stored pause assures.                                     *)
CallerPcs == {"idle", "read", "open", "counted", "admitted", "sent", "signal"}
Idle == [pc |-> "idle", kind |-> "inference", now |-> 0, since |-> 0,
         weight |-> 0, seconds |-> 0, covered |-> FALSE]
Waiting == [Idle EXCEPT !.pc = "sent"]
HoldsReading(own) == own.pc \notin {"idle", "sent"}

WindowsTypeOK ==
  /\ clock \in Times
  /\ caller \in [Callers -> [pc : CallerPcs, kind : Dimensions, now : Stamps,
                             since : Times, weight : Weights \cup {0},
                             seconds : Pauses \cup {0}, covered : BOOLEAN]]
  /\ rpm \in [Stamps -> 0 .. MaxRpm] /\ tpm \in [Stamps -> 0 .. MaxTpm]
  /\ last \in Stamps
  /\ pause \in [Dimensions -> [until : Deadlines, expires : Deadlines]]
  /\ sentRequests \in [Times -> Nat] /\ sentTokens \in [Times -> Nat]
  /\ sentSearches \in [Times -> Nat]
  /\ assured \in [Dimensions -> Nat] /\ ignored \in BOOLEAN

(* The interval key is absent at first, as if a search was long ago: time  *)
(* starts one interval after 0.                                            *)
WindowsInit ==
  /\ clock = Interval
  /\ caller = [c \in Callers |-> Idle]
  /\ rpm = [t \in Stamps |-> 0] /\ tpm = [t \in Stamps |-> 0]
  /\ last = 0
  /\ pause = [d \in Dimensions |-> [until |-> 0, expires |-> 0]]
  /\ sentRequests = [t \in Times |-> 0] /\ sentTokens = [t \in Times |-> 0]
  /\ sentSearches = [t \in Times |-> 0]
  /\ assured = [d \in Dimensions |-> 0] /\ ignored = FALSE

-----------------------------------------------------------------------------
(* Time, and the start of try_admit_request and try_admit_search.          *)

(* What a history needs to keep for the property when time passes.         *)
Remembered(history, span) ==
  [t \in Times |-> IF t + span <= clock + 1 + MaxLag + MaxSkew THEN 0 ELSE history[t]]

(* Time passes; no caller keeps a reading longer than MaxLag.              *)
Tick ==
  /\ clock < MaxTime
  /\ \A c \in Callers :
       HoldsReading(caller[c]) => clock < caller[c].since + MaxLag
  /\ clock' = clock + 1
  /\ sentRequests' = Remembered(sentRequests, Window)
  /\ sentTokens' = Remembered(sentTokens, Window)
  /\ sentSearches' = Remembered(sentSearches, Interval)
  /\ UNCHANGED <<caller, rpm, tpm, last, pause, signals>>

ReadClock(c, kind, weight, ahead) ==
  /\ caller[c].pc = "idle" /\ kind \in Kinds
  /\ caller' = [caller EXCEPT ![c] =
                  [pc |-> "read", kind |-> kind, now |-> clock + ahead,
                   since |-> clock, weight |-> weight, seconds |-> 0,
                   covered |-> clock + MaxLag + MaxSkew < assured[kind]]]
  /\ UNCHANGED <<clock, rpm, tpm, last, pause, sent, signals>>

(* Mutated form: the pause of one dimension is looked up under another.    *)
PausedElsewhere(c) ==
  LET stored == pause["search"]
  IN  clock < stored.expires /\ caller[c].now < stored.until

(* pause_remaining(pause:dimension) > 0: the key is there and its deadline *)
(* lies ahead of the caller's reading.                                     *)
Paused(c) ==
  LET stored == pause[caller[c].kind]
  IN  clock < stored.expires /\ caller[c].now < stored.until

CheckPause(c) ==
  /\ caller[c].pc = "read"
  /\ caller' = [caller EXCEPT ![c] =
                  IF Paused(c) THEN Idle ELSE [@ EXCEPT !.pc = "open"]]
  /\ UNCHANGED <<clock, rpm, tpm, last, pause, sent, signals>>

-----------------------------------------------------------------------------
(* _LUA_ADMIT_WINDOW: prune by the caller's clock, count all that is left, *)
(* and add the entry if it fits.                                           *)

(* Mutated form: entries leave the window halfway through it.              *)
PrunedHalfway(window, now) ==
  [t \in Stamps |-> IF t + (Window \div 2) <= now THEN 0 ELSE window[t]]

Pruned(window, now) ==
  [t \in Stamps |-> IF t + Window <= now THEN 0 ELSE window[t]]

Used(window) == SumFunctionOnSet(window, Stamps)

FitsWindow(window, weight, limit) == Used(window) + weight <= limit

Admitted(window, now, weight, limit) ==
  LET pruned == Pruned(window, now)
  IN  IF FitsWindow(pruned, weight, limit)
      THEN [pruned EXCEPT ![now] = @ + weight] ELSE pruned

(* Whether the caller's entry was added, read off the script's reply.      *)
Fits(c, window, weight, limit) ==
  FitsWindow(Pruned(window, caller[c].now), weight, limit)

AdmitRpm(c) ==
  /\ caller[c].pc = "open" /\ caller[c].kind = "inference"
  /\ rpm' = Admitted(rpm, caller[c].now, 1, MaxRpm)
  /\ caller' = [caller EXCEPT ![c] =
       IF Fits(c, rpm, 1, MaxRpm) THEN [@ EXCEPT !.pc = "counted"] ELSE Idle]
  /\ UNCHANGED <<clock, tpm, last, pause, sent, signals>>

(* When TPM refuses, the RPM entry stays.                                  *)
AdmitTpm(c) ==
  LET weight == caller[c].weight
  IN  /\ caller[c].pc = "counted"
      /\ tpm' = Admitted(tpm, caller[c].now, weight, MaxTpm)
      /\ caller' = [caller EXCEPT ![c] =
           IF Fits(c, tpm, weight, MaxTpm)
           THEN [@ EXCEPT !.pc = "admitted"] ELSE Idle]
      /\ UNCHANGED <<clock, rpm, last, pause, sent, signals>>

(* now - last < interval refuses, a reading older than last included.      *)
IntervalElapsed(now) == now >= last + Interval

(* _LUA_ADMIT_INTERVAL.                                                    *)
AdmitSearch(c) ==
  /\ caller[c].pc = "open" /\ caller[c].kind = "search"
  /\ IF IntervalElapsed(caller[c].now)
     THEN /\ last' = caller[c].now
          /\ caller' = [caller EXCEPT ![c].pc = "admitted"]
     ELSE /\ caller' = [caller EXCEPT ![c] = Idle]
          /\ UNCHANGED last
  /\ UNCHANGED <<clock, rpm, tpm, pause, sent, signals>>

-----------------------------------------------------------------------------
(* The request goes out. An inference request may still be answered 429.   *)
SendAdmitted(c) ==
  LET own == caller[c]
      inference == own.kind = "inference"
  IN  /\ own.pc = "admitted"
      /\ sentRequests' = [sentRequests EXCEPT ![clock] =
                            IF inference THEN @ + 1 ELSE @]
      /\ sentTokens' = [sentTokens EXCEPT ![clock] = @ + own.weight]
      /\ sentSearches' = [sentSearches EXCEPT ![clock] =
                            IF inference THEN @ ELSE @ + 1]
      /\ ignored' = (ignored \/ own.covered)
      /\ caller' = [caller EXCEPT ![c] = IF inference THEN Waiting ELSE Idle]
      /\ UNCHANGED <<clock, rpm, tpm, last, pause, assured>>

Answered(c) ==
  /\ caller[c].pc = "sent"
  /\ caller' = [caller EXCEPT ![c] = Idle]
  /\ UNCHANGED <<clock, rpm, tpm, last, pause, sent, signals>>

(* record_rate_limit_signal and pause: a 429 names a dimension and a       *)
(* Retry-After (a second by default); the clock is read ...                *)
RateLimited(c, d, seconds, ahead) ==
  /\ caller[c].pc = "sent"
  /\ caller' = [caller EXCEPT ![c] =
                  [pc |-> "signal", kind |-> d, now |-> clock + ahead,
                   since |-> clock, weight |-> 0, seconds |-> seconds,
                   covered |-> FALSE]]
  /\ UNCHANGED <<clock, rpm, tpm, last, pause, sent, signals>>

(* ... and UpstashQuotaBackend.set_pause stores the deadline, perhaps over *)
(* a later one: SET replaces what is stored, and the key lives (PX) for    *)
(* the length of the pause from now.                                       *)
SetPause(c) ==
  LET own == caller[c]
  IN  /\ own.pc = "signal"
      /\ pause' = [pause EXCEPT ![own.kind] =
                     [until |-> own.now + own.seconds, expires |-> clock + own.seconds]]
      /\ assured' = [assured EXCEPT ![own.kind] = clock + MinPause]
      /\ caller' = [caller EXCEPT ![c] = Idle]
      /\ UNCHANGED <<clock, rpm, tpm, last, sent, ignored>>

CallerNext(c) ==
  \/ \E ahead \in 0 .. MaxSkew :
       \/ \E w \in Weights : ReadClock(c, "inference", w, ahead)
       \/ ReadClock(c, "search", 0, ahead)
       \/ \E d \in Dimensions, seconds \in Pauses : RateLimited(c, d, seconds, ahead)
  \/ CheckPause(c) \/ AdmitRpm(c) \/ AdmitTpm(c) \/ AdmitSearch(c) \/ SendAdmitted(c)
  \/ Answered(c) \/ SetPause(c)

WindowsNext ==
  \/ Tick
  \/ \E c \in Callers : CallerNext(c)

WindowsSpec == WindowsInit /\ [][WindowsNext]_windowsVars

-----------------------------------------------------------------------------
(* Properties.                                                             *)

(* What went out in real time over the last n units.                       *)
Recent(history, n) ==
  SumFunctionOnSet(history, {t \in Times : t <= clock /\ clock < t + n})

(* However readings of the clock are delayed, reordered and skewed, what   *)
(* is really sent in any window shortened by that error stays within the   *)
(* RPM and TPM ceilings: pruning by one caller's clock never makes room    *)
(* for another beyond it (try_admit_request), and searches are really an   *)
(* interval apart, less that error (try_admit_search).                     *)
RollingCeilings ==
  LET span == Window - MaxLag - MaxSkew
  IN  /\ Recent(sentRequests, span) <= MaxRpm
      /\ Recent(sentTokens, span) <= MaxTpm
      /\ Recent(sentSearches, Interval - MaxLag - MaxSkew) <= 1

(* A pause may be cut short: a later signal that asks for less, or a stale *)
(* reading stored late, replaces the deadline (set_pause). But no signal   *)
(* is worth less than the shortest pause: a request whose clock is really  *)
(* read after a deadline was stored, and within the shortest pause of it,  *)
(* less the error of the two readings, is not sent, whatever was stored    *)
(* since (pause, try_admit_request, try_admit_search).                     *)
ShortestPauseHonoured == ~ignored
=============================================================================
