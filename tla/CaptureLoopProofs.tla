------------------------- MODULE CaptureLoopProofs -------------------------
(***************************************************************************)
(* Proofs about CaptureLoop, for every ring size and every bound.          *)
(***************************************************************************)
EXTENDS CaptureLoop, TLAPS

\* The actions of Next, one by one: every proof below has one step for each.
LEMMA NextCases ==
    ASSUME Next
    PROVE  \/ TcpConnect
           \/ Interrupt
           \/ CtrlD
           \/ Timer
           \/ Ticker
           \/ StdinDone
           \/ DrainRead
           \/ DrainFails
           \/ Start
           \/ StartFails
           \/ InitialWatch
           \/ InitialWatchFails
           \/ TimerCase
           \/ SigCase
           \/ DoneCase
           \/ DefaultCase
           \/ ReadEvent
           \/ ReadFails
           \/ Refresh
           \/ RefreshFails
           \/ DisplaySigCase
           \/ Output
           \/ OutputFails
BY DEF Next, Loop

-----------------------------------------------------------------------------
(* A tick is only due while the bound on refreshes is not reached. *)
TypeInv == TypeOK /\ (tick => screens < MaxTicks)

LEMMA InitTypes ==
    ASSUME Init
    PROVE  TypeInv
<1>1. /\ ring \in 0 .. RingSize
      /\ came \in 0 .. MaxEvents
      /\ screens \in 0 .. MaxTicks
      /\ missed \in Nat /\ kept \in Nat /\ dropped \in Nat /\ late \in Nat
    BY RingSizeNat, LoopBounds DEF Init
<1>2. QED
    BY <1>1, Zenon DEF Init, TypeInv, TypeOK

LEMMA StepTypes ==
    ASSUME TypeInv, [Next]_vars
    PROVE  TypeInv'
<1>1. CASE TcpConnect
    BY <1>1, RingSizeNat, LoopBounds DEF TcpConnect, TypeInv, TypeOK, flags, events, signals
<1>2. CASE Interrupt
    <2>1. /\ sig' \in BOOLEAN
          /\ pc' \in {"start", "prime", "select", "read", "output", "exit"}
          /\ result' \in {"none", "summary", "quit", "error", "killed"}
        <3>1. CASE Notified
            BY <1>2, <3>1, Zenon DEF Interrupt, TypeInv, TypeOK
        <3>2. CASE ~Notified
            BY <1>2, <3>2, Zenon DEF Interrupt, Exit, TypeInv, TypeOK
        <3>3. QED
            BY <3>1, <3>2
    <2>2. UNCHANGED <<flags, drain, events, timer, eof, done, tick, screens, broken>>
        BY <1>2 DEF Interrupt
    <2>3. QED
        BY <2>1, <2>2 DEF TypeInv, TypeOK, flags, events
<1>3. CASE CtrlD
    BY <1>3, RingSizeNat, LoopBounds DEF CtrlD, TypeInv, TypeOK, flags, events, signals
<1>4. CASE Timer
    BY <1>4, RingSizeNat, LoopBounds DEF Timer, TypeInv, TypeOK, flags, events, signals
<1>5. CASE Ticker
    BY <1>5, RingSizeNat, LoopBounds DEF Ticker, TypeInv, TypeOK, flags, events, signals
<1>6. CASE StdinDone
    BY <1>6, RingSizeNat, LoopBounds DEF StdinDone, TypeInv, TypeOK, flags, events, signals
<1>7. CASE DrainRead
    BY <1>7, RingSizeNat, LoopBounds DEF DrainRead, TypeInv, TypeOK, flags, events, signals
<1>8. CASE DrainFails
    BY <1>8, RingSizeNat, LoopBounds DEF DrainFails, TypeInv, TypeOK, flags, events, signals
<1>9. CASE Start
    BY <1>9, RingSizeNat, LoopBounds DEF Start, TypeInv, TypeOK, flags, events, signals
<1>10. CASE StartFails
    BY <1>10, RingSizeNat, LoopBounds DEF StartFails, Exit, TypeInv, TypeOK, flags, events, signals
<1>11. CASE InitialWatch
    BY <1>11, RingSizeNat, LoopBounds DEF InitialWatch, TypeInv, TypeOK, flags, events, signals
<1>12. CASE InitialWatchFails
    BY <1>12, RingSizeNat, LoopBounds DEF InitialWatchFails, Exit, TypeInv, TypeOK, flags, events, signals
<1>13. CASE TimerCase
    BY <1>13, RingSizeNat, LoopBounds DEF TimerCase, TypeInv, TypeOK, flags, events, signals
<1>14. CASE SigCase
    BY <1>14, RingSizeNat, LoopBounds DEF SigCase, Exit, TypeInv, TypeOK, flags, events, signals
<1>15. CASE DoneCase
    BY <1>15, RingSizeNat, LoopBounds DEF DoneCase, Exit, TypeInv, TypeOK, flags, events, signals
<1>16. CASE DefaultCase
    BY <1>16, RingSizeNat, LoopBounds DEF DefaultCase, TypeInv, TypeOK, flags, events, signals
<1>17. CASE ReadEvent
    BY <1>17, RingSizeNat, LoopBounds DEF ReadEvent, TypeInv, TypeOK, flags, events, signals
<1>18. CASE ReadFails
    BY <1>18, RingSizeNat, LoopBounds DEF ReadFails, Exit, TypeInv, TypeOK, flags, events, signals
<1>19. CASE Refresh
    <2>1. screens < MaxTicks
        BY <1>19, Zenon DEF Refresh, TypeInv
    <2>2. screens' \in 0 .. MaxTicks
        BY <1>19, <2>1, LoopBounds DEF Refresh, TypeInv, TypeOK
    <2>3. tick' = FALSE
        BY <1>19 DEF Refresh
    <2>4. TypeOK'
        BY <1>19, <2>2, <2>3 DEF Refresh, TypeInv, TypeOK, flags, events
    <2>5. QED
        BY <2>3, <2>4, Zenon DEF TypeInv
<1>20. CASE RefreshFails
    BY <1>20, RingSizeNat, LoopBounds DEF RefreshFails, Exit, TypeInv, TypeOK, flags, events, signals
<1>21. CASE DisplaySigCase
    BY <1>21, RingSizeNat, LoopBounds DEF DisplaySigCase, Exit, TypeInv, TypeOK, flags, events, signals
<1>22. CASE Output
    BY <1>22, RingSizeNat, LoopBounds DEF Output, Exit, TypeInv, TypeOK, flags, events, signals
<1>23. CASE OutputFails
    BY <1>23, RingSizeNat, LoopBounds DEF OutputFails, Exit, TypeInv, TypeOK, flags, events, signals
<1>24. CASE UNCHANGED vars
    BY <1>24 DEF vars, TypeInv, TypeOK, flags, events, signals
<1>25. QED
    BY <1>1, <1>2, <1>3, <1>4, <1>5, <1>6, <1>7, <1>8, <1>9, <1>10, <1>11, <1>12, <1>13, <1>14, <1>15, <1>16, <1>17, <1>18, <1>19, <1>20, <1>21, <1>22, <1>23, <1>24, NextCases

\* Every variable keeps its type; in particular the ring never holds more
\* than RingSize events (kprobe__tcp_connect reserves or gives up).
THEOREM TypeCorrect == Spec => []TypeOK
<1>1. Init => TypeInv
    BY InitTypes
<1>2. TypeInv /\ [Next]_vars => TypeInv'
    BY StepTypes
<1>3. TypeInv => TypeOK
    BY DEF TypeInv
<1>4. QED
    BY <1>1, <1>2, <1>3, PTL DEF Spec

-----------------------------------------------------------------------------
(* Why at most one event is late: the loop waits for an event only after a *)
(* select that found nothing ready, so when it has read a late one it is   *)
(* at the select with something ready, and what is ready stays ready.      *)

LateInv ==
    /\ late <= 1
    /\ late = 1 => /\ pc \in {"select", "output", "exit"}
                   /\ pc = "select" => Ready

LEMMA StepLate ==
    ASSUME TypeOK, LateInv, [Next]_vars
    PROVE  LateInv'
<1>1. CASE TcpConnect
    BY <1>1 DEF TcpConnect, TypeOK, LateInv, Ready, flags, events, signals
<1>2. CASE Interrupt
    BY <1>2 DEF Interrupt, Exit, TypeOK, LateInv, Ready, flags, events, signals
<1>3. CASE CtrlD
    BY <1>3 DEF CtrlD, TypeOK, LateInv, Ready, flags, events, signals
<1>4. CASE Timer
    BY <1>4 DEF Timer, TypeOK, LateInv, Ready, flags, events, signals
<1>5. CASE Ticker
    BY <1>5 DEF Ticker, TypeOK, LateInv, Ready, flags, events, signals
<1>6. CASE StdinDone
    BY <1>6 DEF StdinDone, TypeOK, LateInv, Ready, flags, events, signals
<1>7. CASE DrainRead
    BY <1>7 DEF DrainRead, TypeOK, LateInv, Ready, flags, events, signals
<1>8. CASE DrainFails
    BY <1>8 DEF DrainFails, TypeOK, LateInv, Ready, flags, events, signals
<1>9. CASE Start
    BY <1>9 DEF Start, TypeOK, LateInv, Ready, flags, events, signals
<1>10. CASE StartFails
    BY <1>10 DEF StartFails, Exit, TypeOK, LateInv, Ready, flags, events, signals
<1>11. CASE InitialWatch
    BY <1>11 DEF InitialWatch, TypeOK, LateInv, Ready, flags, events, signals
<1>12. CASE InitialWatchFails
    BY <1>12 DEF InitialWatchFails, Exit, TypeOK, LateInv, Ready, flags, events, signals
<1>13. CASE TimerCase
    BY <1>13 DEF TimerCase, TypeOK, LateInv, Ready, flags, events, signals
<1>14. CASE SigCase
    BY <1>14 DEF SigCase, Exit, TypeOK, LateInv, Ready, flags, events, signals
<1>15. CASE DoneCase
    BY <1>15 DEF DoneCase, Exit, TypeOK, LateInv, Ready, flags, events, signals
<1>16. CASE DefaultCase
    BY <1>16 DEF DefaultCase, TypeOK, LateInv, Ready, flags, events, signals
<1>17. CASE ReadEvent
    BY <1>17 DEF ReadEvent, TypeOK, LateInv, Ready, flags, events, signals
<1>18. CASE ReadFails
    BY <1>18 DEF ReadFails, Exit, TypeOK, LateInv, Ready, flags, events, signals
<1>19. CASE Refresh
    BY <1>19 DEF Refresh, TypeOK, LateInv, Ready, flags, events, signals
<1>20. CASE RefreshFails
    BY <1>20 DEF RefreshFails, Exit, TypeOK, LateInv, Ready, flags, events, signals
<1>21. CASE DisplaySigCase
    BY <1>21 DEF DisplaySigCase, Exit, TypeOK, LateInv, Ready, flags, events, signals
<1>22. CASE Output
    BY <1>22 DEF Output, Exit, TypeOK, LateInv, Ready, flags, events, signals
<1>23. CASE OutputFails
    BY <1>23 DEF OutputFails, Exit, TypeOK, LateInv, Ready, flags, events, signals
<1>24. CASE UNCHANGED vars
    BY <1>24 DEF vars, TypeOK, LateInv, Ready, flags, events, signals
<1>25. QED
    BY <1>1, <1>2, <1>3, <1>4, <1>5, <1>6, <1>7, <1>8, <1>9, <1>10, <1>11, <1>12, <1>13, <1>14, <1>15, <1>16, <1>17, <1>18, <1>19, <1>20, <1>21, <1>22, <1>23, <1>24, NextCases

\* Once the timer has fired, or Ctrl+C or Ctrl+D has been seen, the
\* collecting and streaming loops of the commands handle at most one event.
THEOREM LateBounded == Spec => []AtMostOneLate
<1>1. Init => LateInv
    BY DEF Init, LateInv
<1>2. TypeOK /\ LateInv /\ [Next]_vars => LateInv'
    BY StepLate
<1>3. LateInv => AtMostOneLate
    BY DEF LateInv, AtMostOneLate
<1>4. QED
    BY <1>1, <1>2, <1>3, TypeCorrect, PTL DEF Spec

-----------------------------------------------------------------------------
(* The goroutine that throws events away belongs to the displays, so the   *)
(* loop and the goroutine never compete for an event.                      *)

HandledInv ==
    /\ EventsHandledOnce
    /\ drain = "reading" => cmd \notin Streams

LEMMA StepHandled ==
    ASSUME TypeOK, HandledInv, [Next]_vars
    PROVE  HandledInv'
<1>1. CASE TcpConnect
    BY <1>1 DEF TcpConnect, TypeOK, HandledInv, EventsHandledOnce, flags, events, signals
<1>2. CASE Interrupt
    BY <1>2 DEF Interrupt, Exit, TypeOK, HandledInv, EventsHandledOnce, flags, events, signals
<1>3. CASE CtrlD
    BY <1>3 DEF CtrlD, TypeOK, HandledInv, EventsHandledOnce, flags, events, signals
<1>4. CASE Timer
    BY <1>4 DEF Timer, TypeOK, HandledInv, EventsHandledOnce, flags, events, signals
<1>5. CASE Ticker
    BY <1>5 DEF Ticker, TypeOK, HandledInv, EventsHandledOnce, flags, events, signals
<1>6. CASE StdinDone
    BY <1>6 DEF StdinDone, TypeOK, HandledInv, EventsHandledOnce, flags, events, signals
<1>7. CASE DrainRead
    BY <1>7 DEF DrainRead, TypeOK, HandledInv, EventsHandledOnce, flags, events, signals
<1>8. CASE DrainFails
    BY <1>8 DEF DrainFails, TypeOK, HandledInv, EventsHandledOnce, flags, events, signals
<1>9. CASE Start
    BY <1>9 DEF Start, TypeOK, HandledInv, EventsHandledOnce, flags, events, signals, Display
<1>10. CASE StartFails
    BY <1>10 DEF StartFails, Exit, TypeOK, HandledInv, EventsHandledOnce, flags, events, signals
<1>11. CASE InitialWatch
    BY <1>11 DEF InitialWatch, TypeOK, HandledInv, EventsHandledOnce, flags, events, signals
<1>12. CASE InitialWatchFails
    BY <1>12 DEF InitialWatchFails, Exit, TypeOK, HandledInv, EventsHandledOnce, flags, events, signals
<1>13. CASE TimerCase
    BY <1>13 DEF TimerCase, TypeOK, HandledInv, EventsHandledOnce, flags, events, signals
<1>14. CASE SigCase
    BY <1>14 DEF SigCase, Exit, TypeOK, HandledInv, EventsHandledOnce, flags, events, signals
<1>15. CASE DoneCase
    BY <1>15 DEF DoneCase, Exit, TypeOK, HandledInv, EventsHandledOnce, flags, events, signals
<1>16. CASE DefaultCase
    BY <1>16 DEF DefaultCase, TypeOK, HandledInv, EventsHandledOnce, flags, events, signals
<1>17. CASE ReadEvent
    BY <1>17 DEF ReadEvent, TypeOK, HandledInv, EventsHandledOnce, flags, events, signals
<1>18. CASE ReadFails
    BY <1>18 DEF ReadFails, Exit, TypeOK, HandledInv, EventsHandledOnce, flags, events, signals
<1>19. CASE Refresh
    BY <1>19 DEF Refresh, TypeOK, HandledInv, EventsHandledOnce, flags, events, signals
<1>20. CASE RefreshFails
    BY <1>20 DEF RefreshFails, Exit, TypeOK, HandledInv, EventsHandledOnce, flags, events, signals
<1>21. CASE DisplaySigCase
    BY <1>21 DEF DisplaySigCase, Exit, TypeOK, HandledInv, EventsHandledOnce, flags, events, signals
<1>22. CASE Output
    BY <1>22 DEF Output, Exit, TypeOK, HandledInv, EventsHandledOnce, flags, events, signals
<1>23. CASE OutputFails
    BY <1>23 DEF OutputFails, Exit, TypeOK, HandledInv, EventsHandledOnce, flags, events, signals
<1>24. CASE UNCHANGED vars
    BY <1>24 DEF vars, TypeOK, HandledInv, EventsHandledOnce, flags, events, signals
<1>25. QED
    BY <1>1, <1>2, <1>3, <1>4, <1>5, <1>6, <1>7, <1>8, <1>9, <1>10, <1>11, <1>12, <1>13, <1>14, <1>15, <1>16, <1>17, <1>18, <1>19, <1>20, <1>21, <1>22, <1>23, <1>24, NextCases

\* No connect event is handled twice or vanishes without the ring having
\* been full.
THEOREM HandledOnce == Spec => []EventsHandledOnce
<1>1. Init => HandledInv
    BY DEF Init, HandledInv, EventsHandledOnce
<1>2. TypeOK /\ HandledInv /\ [Next]_vars => HandledInv'
    BY StepHandled
<1>3. HandledInv => EventsHandledOnce
    BY DEF HandledInv
<1>4. QED
    BY <1>1, <1>2, <1>3, TypeCorrect, PTL DEF Spec
=============================================================================
