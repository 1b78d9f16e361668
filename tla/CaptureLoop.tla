---------------------------- MODULE CaptureLoop ----------------------------
(***************************************************************************)
(* One run of a data-collection command (cmd/map.go, flows.go, top.go,     *)
(* retrans.go, latency.go, dns.go) on a node where the collector can be    *)
(* created: the ring buffer of connect events that tcp_connect fills, the  *)
(* loop that empties it, and what ends the loop: the timer, Ctrl+C, Ctrl+D *)
(* or an error.                                                            *)
(*                                                                         *)
(* There are three loops.  Without -w all commands run the collecting      *)
(* loop: look at the timer and the signal without waiting, then wait for   *)
(* an event.  map and flows run nearly the same loop for -w, with stdin    *)
(* instead of the timer.  The other four run a display loop for -w, which  *)
(* waits for the ticker or the signal while a goroutine empties the ring.  *)
(***************************************************************************)
EXTENDS Naturals

CONSTANTS
    RingSize,    \* events the ring buffer holds
    MaxEvents,   \* bound: connect events of the node during the run
    MaxTicks     \* bound: refreshes of a display

ASSUME RingSizeNat == RingSize \in Nat \ {0}
ASSUME LoopBounds == MaxEvents \in Nat /\ MaxTicks \in Nat

VARIABLES
    cmd,         \* the command
    watch,       \* the flag -w
    limited,     \* the flag --duration is positive
    pc,          \* where RunE is
    drain,       \* the goroutine of a display: none, reading or ended
    ring,        \* events in the ring buffer
    came,        \* connect events so far
    missed,      \* events that found no room in the ring
    kept,        \* events printed (flows) or added to the graph (map)
    dropped,     \* events read and thrown away
    timer,       \* the timer's channel is ready
    sig,         \* the signal channel (capacity 1) is ready
    eof,         \* Ctrl+D was typed
    done,        \* the goroutine reading stdin closed its channel
    tick,        \* the ticker's channel (capacity 1) is ready
    screens,     \* refreshes of a display
    late,        \* events the loop read while a reason to stop was ready
    broken,      \* reading the ring or a table failed
    result       \* how the run ended

flags == <<cmd, watch, limited>>
events == <<ring, came, missed, kept, dropped, late>>
signals == <<timer, sig, eof, done, tick>>
vars == <<flags, pc, drain, events, signals, screens, broken, result>>

Commands == {"map", "flows", "top", "retrans", "latency", "dns"}
Streams == {"map", "flows"}

\* The loop of this run.
Display == watch /\ cmd \notin Streams
StreamWatch == watch /\ cmd \in Streams

\* With no duration map, flows and top skip the collecting loop; the other
\* three start a timer that fires at once.
SkipsLoop == ~watch /\ ~limited /\ cmd \in {"map", "flows", "top"}

TypeOK ==
    /\ cmd \in Commands
    /\ watch \in BOOLEAN
    /\ limited \in BOOLEAN
    /\ pc \in {"start", "prime", "select", "read", "output", "exit"}
    /\ drain \in {"none", "reading", "ended"}
    /\ ring \in 0 .. RingSize
    /\ came \in 0 .. MaxEvents
    /\ missed \in Nat
    /\ kept \in Nat
    /\ dropped \in Nat
    /\ timer \in BOOLEAN
    /\ sig \in BOOLEAN
    /\ eof \in BOOLEAN
    /\ done \in BOOLEAN
    /\ tick \in BOOLEAN
    /\ screens \in 0 .. MaxTicks
    /\ late \in Nat
    /\ broken \in BOOLEAN
    /\ result \in {"none", "summary", "quit", "error", "killed"}

Init ==
    /\ cmd \in Commands
    /\ watch \in BOOLEAN
    /\ limited \in BOOLEAN
    /\ pc = "start"
    /\ drain = "none"
    /\ ring = 0
    /\ came = 0
    /\ missed = 0
    /\ kept = 0
    /\ dropped = 0
    /\ timer = FALSE
    /\ sig = FALSE
    /\ eof = FALSE
    /\ done = FALSE
    /\ tick = FALSE
    /\ screens = 0
    /\ late = 0
    /\ broken = FALSE
    /\ result = "none"

Exit(r) ==
    /\ pc' = "exit"
    /\ result' = r

-----------------------------------------------------------------------------
(* The kernel and the user. *)

\* Mutant of TcpConnect: one event too many is accepted.
TcpConnectOverruns ==
    /\ pc # "exit"
    /\ came < MaxEvents
    /\ came' = came + 1
    /\ ring' = IF ring <= RingSize THEN ring + 1 ELSE ring
    /\ missed' = IF ring <= RingSize THEN missed ELSE missed + 1
    /\ UNCHANGED <<flags, pc, drain, kept, dropped, late, signals, screens, broken, result>>

\* kprobe__tcp_connect: reserve, or return if the ring is full.
TcpConnect ==
    /\ pc # "exit"
    /\ came < MaxEvents
    /\ came' = came + 1
    /\ ring' = IF ring < RingSize THEN ring + 1 ELSE ring
    /\ missed' = IF ring < RingSize THEN missed ELSE missed + 1
    /\ UNCHANGED <<flags, pc, drain, kept, dropped, late, signals, screens, broken, result>>

\* The signal is caught from just before the loop until RunE, or for map -w
\* runMapWatch, returns; map and flows that skip the loop never catch it.
Notified ==
    \/ pc \in {"prime", "select", "read"}
    \/ pc = "output" /\ ~StreamWatch /\ (limited \/ cmd \notin Streams)

\* Ctrl+C: a value for the channel, or the end of the process.
Interrupt ==
    /\ pc # "exit"
    /\ \/ Notified /\ sig' = TRUE /\ UNCHANGED <<pc, result>>
       \/ ~Notified /\ Exit("killed") /\ UNCHANGED sig
    /\ UNCHANGED <<flags, drain, events, timer, eof, done, tick, screens, broken>>

\* Ctrl+D.
CtrlD ==
    /\ pc # "exit"
    /\ eof' = TRUE
    /\ UNCHANGED <<flags, pc, drain, events, timer, sig, done, tick, screens, broken, result>>

-----------------------------------------------------------------------------
(* The clocks and goroutines of the process. *)

InLoop == pc \in {"select", "read"}

\* time.After in the collecting loop.
Timer ==
    /\ InLoop
    /\ ~watch
    /\ timer' = TRUE
    /\ UNCHANGED <<flags, pc, drain, events, sig, eof, done, tick, screens, broken, result>>

\* time.NewTicker in a display; a tick nobody took is not repeated.
Ticker ==
    /\ InLoop
    /\ Display
    /\ screens < MaxTicks
    /\ tick' = TRUE
    /\ UNCHANGED <<flags, pc, drain, events, timer, sig, eof, done, screens, broken, result>>

\* The goroutine of map -w and flows -w that waits for stdin.
StdinDone ==
    /\ InLoop
    /\ StreamWatch
    /\ eof
    /\ done' = TRUE
    /\ UNCHANGED <<flags, pc, drain, events, timer, sig, eof, tick, screens, broken, result>>

\* Mutant of DrainRead: the goroutine reads one event and returns.
DrainReadOnce ==
    /\ drain = "reading"
    /\ pc # "exit"
    /\ ring > 0
    /\ ring' = ring - 1
    /\ dropped' = dropped + 1
    /\ drain' = "ended"
    /\ UNCHANGED <<flags, pc, came, missed, kept, late, signals, screens, broken, result>>

\* The goroutine of a display that throws the events away, and its end.
DrainRead ==
    /\ drain = "reading"
    /\ pc # "exit"
    /\ ring > 0
    /\ ring' = ring - 1
    /\ dropped' = dropped + 1
    /\ UNCHANGED <<flags, pc, drain, came, missed, kept, late, signals, screens, broken, result>>

DrainFails ==
    /\ drain = "reading"
    /\ pc # "exit"
    /\ drain' = "ended"
    /\ broken' = TRUE
    /\ UNCHANGED <<flags, pc, events, signals, screens, result>>

-----------------------------------------------------------------------------
(* RunE. *)

\* Collector, resolver, signal channel and goroutines are made.
Start ==
    /\ pc = "start"
    /\ pc' = IF SkipsLoop THEN "output"
             ELSE IF Display /\ cmd = "top" THEN "prime" ELSE "select"
    /\ drain' = IF Display THEN "reading" ELSE "none"
    /\ UNCHANGED <<flags, events, signals, screens, broken, result>>

\* No collector, no such table in this build, or no Kubernetes client.
StartFails ==
    /\ pc = "start"
    /\ Exit("error")
    /\ UNCHANGED <<flags, drain, events, signals, screens, broken>>

\* top -w calls Watch once before its loop, to have something to compare
\* the first refresh with.
InitialWatch ==
    /\ pc = "prime"
    /\ pc' = "select"
    /\ UNCHANGED <<flags, drain, events, signals, screens, broken, result>>

InitialWatchFails ==
    /\ pc = "prime"
    /\ broken' = TRUE
    /\ Exit("error")
    /\ UNCHANGED <<flags, drain, events, signals, screens>>

\* A channel of the collecting loop's or of the streaming loop's select.
Ready == timer \/ sig \/ done

\* Mutant of TimerCase: the break leaves the select, not the loop.
TimerCaseBreaksSelect ==
    /\ pc = "select" /\ ~watch
    /\ timer
    /\ timer' = FALSE
    /\ pc' = "read"
    /\ UNCHANGED <<flags, drain, events, sig, eof, done, tick, screens, broken, result>>

\* case <-timer: break loop.
TimerCase ==
    /\ pc = "select" /\ ~watch
    /\ timer
    /\ timer' = FALSE
    /\ pc' = "output"
    /\ UNCHANGED <<flags, drain, events, sig, eof, done, tick, screens, broken, result>>

\* case <-sig: the collecting loop goes on to its output, -w returns.
SigCase ==
    /\ pc = "select" /\ ~Display
    /\ sig
    /\ sig' = FALSE
    /\ IF ~watch
       THEN pc' = "output" /\ UNCHANGED result
       ELSE Exit("quit")
    /\ UNCHANGED <<flags, drain, events, timer, eof, done, tick, screens, broken>>

\* case <-done: map -w shows its graph, flows -w returns.
DoneCase ==
    /\ pc = "select" /\ StreamWatch
    /\ done
    /\ IF cmd = "map"
       THEN pc' = "output" /\ UNCHANGED result
       ELSE Exit("quit")
    /\ UNCHANGED <<flags, drain, events, signals, screens, broken>>

\* Mutant of DefaultCase: the loop looks at its channels after the event.
DefaultCaseAlways ==
    /\ pc = "select" /\ ~Display
    /\ pc' = "read"
    /\ UNCHANGED <<flags, drain, events, signals, screens, broken, result>>

\* default: nothing is ready.
DefaultCase ==
    /\ pc = "select" /\ ~Display
    /\ ~Ready
    /\ pc' = "read"
    /\ UNCHANGED <<flags, drain, events, signals, screens, broken, result>>

\* Mutant of ReadEvent: Read's retry for a short record skips the record
\* after it too.
ReadEventSkips ==
    /\ pc = "read"
    /\ ring > 0
    /\ ring' = IF ring > 1 THEN ring - 2 ELSE 0
    /\ kept' = IF cmd \in Streams THEN kept + 1 ELSE kept
    /\ dropped' = IF cmd \in Streams THEN dropped ELSE dropped + 1
    /\ late' = IF Ready THEN late + 1 ELSE late
    /\ pc' = "select"
    /\ UNCHANGED <<flags, drain, came, missed, signals, screens, broken, result>>

\* c.Read() returns an event: it waits until there is one.  map adds it to
\* its graph, flows prints it, the others throw it away.
ReadEvent ==
    /\ pc = "read"
    /\ ring > 0
    /\ ring' = ring - 1
    /\ kept' = IF cmd \in Streams THEN kept + 1 ELSE kept
    /\ dropped' = IF cmd \in Streams THEN dropped ELSE dropped + 1
    /\ late' = IF Ready THEN late + 1 ELSE late
    /\ pc' = "select"
    /\ UNCHANGED <<flags, drain, came, missed, signals, screens, broken, result>>

\* c.Read() fails: an error, but map -w shows what it has and flows -w is
\* simply over.
ReadFails ==
    /\ pc = "read"
    /\ broken' = TRUE
    /\ \/ ~watch /\ Exit("error")
       \/ watch /\ cmd = "map" /\ pc' = "output" /\ UNCHANGED result
       \/ watch /\ cmd = "flows" /\ Exit("quit")
    /\ UNCHANGED <<flags, drain, events, signals, screens>>

\* Mutant of Refresh: a tick is taken and nothing shown.
RefreshNothing ==
    /\ pc = "select" /\ Display
    /\ tick
    /\ tick' = FALSE
    /\ UNCHANGED <<flags, pc, drain, events, timer, sig, eof, done, screens, broken, result>>

\* The display's case <-ticker.C: read the table, show it.
Refresh ==
    /\ pc = "select" /\ Display
    /\ tick
    /\ tick' = FALSE
    /\ screens' = screens + 1
    /\ UNCHANGED <<flags, pc, drain, events, timer, sig, eof, done, broken, result>>

\* ... or return because reading the table failed.
RefreshFails ==
    /\ pc = "select" /\ Display
    /\ tick
    /\ broken' = TRUE
    /\ Exit("error")
    /\ UNCHANGED <<flags, drain, events, signals, screens>>

\* Mutant of DisplaySigCase: a break that leaves the select only.
DisplaySigCaseBreaks ==
    /\ pc = "select" /\ Display
    /\ sig
    /\ sig' = FALSE
    /\ UNCHANGED <<flags, pc, drain, events, timer, eof, done, tick, screens, broken, result>>

\* The display's case <-sig.
DisplaySigCase ==
    /\ pc = "select" /\ Display
    /\ sig
    /\ sig' = FALSE
    /\ Exit("quit")
    /\ UNCHANGED <<flags, drain, events, timer, eof, done, tick, screens, broken>>

\* After the loop: map writes its graph; top, retrans, latency and dns read
\* their table once and print it; flows has nothing left to do.
Output ==
    /\ pc = "output"
    /\ Exit(IF cmd = "flows" THEN "quit" ELSE "summary")
    /\ UNCHANGED <<flags, drain, events, signals, screens, broken>>

\* The output file or the table fails.
OutputFails ==
    /\ pc = "output"
    /\ cmd # "flows"
    /\ broken' = TRUE
    /\ Exit("error")
    /\ UNCHANGED <<flags, drain, events, signals, screens>>

-----------------------------------------------------------------------------
Loop == TimerCase \/ SigCase \/ DoneCase \/ DefaultCase \/ ReadEvent

Next ==
    \/ TcpConnect
    \/ Interrupt
    \/ CtrlD
    \/ Timer
    \/ Ticker
    \/ StdinDone
    \/ DrainRead
    \/ DrainFails
    \/ Start
    \/ StartFails
    \/ InitialWatch
    \/ InitialWatchFails
    \/ Loop
    \/ ReadFails
    \/ Refresh
    \/ RefreshFails
    \/ DisplaySigCase
    \/ Output
    \/ OutputFails

Spec == Init /\ [][Next]_vars

\* The process is scheduled and its timers fire.  Nobody promises that the
\* node opens another connection, or that the user types anything.  A
\* display's select picks among ready cases at random, so a signal that
\* stays ready is taken in the end, though ticks come in between.
FairSpec ==
    /\ Spec
    /\ WF_vars(Start \/ InitialWatch \/ Loop \/ Output)
    /\ WF_vars(Timer)
    /\ WF_vars(Ticker)
    /\ WF_vars(StdinDone)
    /\ WF_vars(DrainRead)
    /\ SF_vars(Refresh)
    /\ SF_vars(DisplaySigCase)

-----------------------------------------------------------------------------
(* Safety. *)

\* Once a reason to stop is ready, the collecting and the streaming loop
\* handle at most one more event, the one they may be waiting for: the
\* select is looked at between any two events, and its default case is not
\* taken when another one is ready.
AtMostOneLate == late <= 1

\* Every connect event is in the ring, was refused by the full ring, or was
\* handled once: by the loop or by the goroutine, never by both.
EventsHandledOnce ==
    /\ came = ring + missed + kept + dropped
    /\ kept > 0 => cmd \in Streams
    /\ dropped > 0 => cmd \notin Streams

(* Liveness. *)

\* With an event to read, a loop that has a reason to stop stops.
StopsOnTraffic == (InLoop /\ Ready /\ ring > 0) ~> pc = "exit"

\* Ctrl+C ends a display whether or not there is traffic.
InterruptStopsDisplay == (Display /\ sig) ~> pc = "exit"

\* A display goes on: each tick is followed by a refresh.
RefreshComes ==
    \A s \in 0 .. MaxTicks :
        (Display /\ tick /\ screens = s) ~> (screens > s \/ pc = "exit")

\* A full ring does not stay full while a display or a loop is at work and
\* reading it works.
RingDrains ==
    ring = RingSize ~> (ring < RingSize \/ pc = "exit" \/ broken)

\* README.md:91 "Collects for 10 seconds (`-d`), then exits with a summary."
DeadlineHonoured == (~watch /\ timer) ~> pc = "exit"

\* README.md:139, 155, 165, 175 "Continuous display (Ctrl+D or Ctrl+C to
\* stop)", of top -w, retrans -w, latency -w and dns -w.
CtrlDStopsDisplay == (InLoop /\ Display /\ eof) ~> pc = "exit"
=============================================================================
