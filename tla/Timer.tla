-------------------------------- MODULE Timer --------------------------------
(***************************************************************************)
(* The hardware timer (hardware/timer.rs): a state that start, stop, pause *)
(* and resume assign, and the threads that start spawns, each looping      *)
(* through check, sleep, check, send, count.  Nothing joins a thread: a    *)
(* thread ends when one of its checks sees a state other than Running, and *)
(* start spawns a new one whether or not an old one is still asleep.       *)
(***************************************************************************)
EXTENDS Naturals

CONSTANT Threads   \* the timer threads alive at any time: a bound on start

VARIABLES
    timer,    \* state
    ticker,   \* what each thread does next: "none" "check" "sleep" "recheck" "send"
    started,  \* history: the last call that made the timer Running was start
    beat,     \* flips with every interrupt a thread sends
    counted   \* tick_count, up to the reset that empties it: is it positive

timerVars == <<timer, ticker, started, beat, counted>>

Steps == {"none", "check", "sleep", "recheck", "send"}

TimerInit ==
    /\ timer = "Stopped"
    /\ ticker = [t \in Threads |-> "none"]
    /\ started = FALSE
    /\ beat = FALSE
    /\ counted = FALSE

\* Mutant of TimerStart: a paused timer goes on without a new thread, as if the old one were waiting.
TimerStartWithoutThread(t) ==
    /\ timer # "Running" /\ ticker[t] = "none"
    /\ timer' = "Running"
    /\ ticker' = IF timer = "Paused" THEN ticker ELSE [ticker EXCEPT ![t] = "check"]
    /\ started' = TRUE
    /\ UNCHANGED <<beat, counted>>

------------------------------------------------------------------------------
\* Timer::start: nothing when Running; otherwise Running, and one more thread.
TimerStart(t) ==
    /\ timer # "Running" /\ ticker[t] = "none"
    /\ timer' = "Running"
    /\ ticker' = [ticker EXCEPT ![t] = "check"]
    /\ started' = TRUE
    /\ UNCHANGED <<beat, counted>>

\* Timer::stop, whatever the state.
TimerStop ==
    /\ timer' = "Stopped"
    /\ UNCHANGED <<ticker, started, beat, counted>>

\* Timer::pause.
TimerPause ==
    /\ timer = "Running" /\ timer' = "Paused"
    /\ UNCHANGED <<ticker, started, beat, counted>>

\* Timer::resume: Running again, without a thread of its own.
TimerResume ==
    /\ timer = "Paused" /\ timer' = "Running"
    /\ started' = FALSE
    /\ UNCHANGED <<ticker, beat, counted>>

\* Timer::reset_counter.
TimerReset ==
    /\ counted /\ counted' = FALSE
    /\ UNCHANGED <<timer, ticker, started, beat>>

\* The two places where a thread locks the state and ends unless it is Running.
ThreadChecks(t) ==
    /\ ticker[t] \in {"check", "recheck"}
    /\ ticker' = [ticker EXCEPT ![t] =
                    CASE timer # "Running" -> "none"
                      [] timer = "Running" /\ @ = "check" -> "sleep"
                      [] OTHER -> "send"]
    /\ UNCHANGED <<timer, started, beat, counted>>

\* thread::sleep returns.
ThreadWakes(t) ==
    /\ ticker[t] = "sleep"
    /\ ticker' = [ticker EXCEPT ![t] = "recheck"]
    /\ UNCHANGED <<timer, started, beat, counted>>

\* The interrupt goes to the bus and is counted, whatever the state is by now.
ThreadSends(t) ==
    /\ ticker[t] = "send"
    /\ ticker' = [ticker EXCEPT ![t] = "check"]
    /\ beat' = ~beat
    /\ counted' = TRUE
    /\ UNCHANGED <<timer, started>>

ThreadStep(t) == ThreadChecks(t) \/ ThreadWakes(t) \/ ThreadSends(t)

TimerNext ==
    \/ TimerStop \/ TimerPause \/ TimerResume \/ TimerReset
    \/ \E t \in Threads : TimerStart(t) \/ ThreadStep(t)

TimerSpec == TimerInit /\ [][TimerNext]_timerVars

\* A sleep ends and the operating system runs every thread.
TimerFairness == \A t \in Threads : WF_timerVars(ThreadStep(t))

------------------------------------------------------------------------------
TimerTypeOK ==
    /\ timer \in {"Stopped", "Running", "Paused"}
    /\ ticker \in [Threads -> Steps]
    /\ started \in BOOLEAN /\ beat \in BOOLEAN /\ counted \in BOOLEAN

(* A timer that start has made Running, and that stays Running, ticks for    *)
(* ever (Timer::start): a thread of an earlier start, which may or may not   *)
(* see the new state, never keeps the timer from having a thread of its own. *)
(* After resume nothing of the kind holds: the thread may have seen Paused.  *)
StartedTimerTicks ==
    <>[](timer = "Running" /\ started) => []<>(beat) /\ []<>(~beat)
==============================================================================
