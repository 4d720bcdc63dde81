------------------------------- MODULE Timer -------------------------------
(***************************************************************************)
(* The foreground timer: a forced autosave every interval, a final one     *)
(* when SIGINT, SIGTERM or SIGHUP arrives, then the end.  The signals are  *)
(* blocked for good and read between two saves.  Each save is a call of    *)
(* app::run that competes for the operation lock with every other          *)
(* invocation and does not wait for it.                                    *)
(*                                                                         *)
(* The session is a number here: the version of what there is to save.     *)
(***************************************************************************)
EXTENDS Integers

CONSTANT MaxVersion     \* bound: changes of the session

VARIABLES
    pc,         \* what the timer does
    others,     \* another invocation holds the lock
    pending,    \* a signal is pending
    signalled,  \* history: a signal was sent
    version,    \* the state of the session
    captured,   \* the version the running save captured
    latest,     \* the version in latest.json
    noticed     \* history: the version at the time the signal was read

vars == <<pc, others, pending, signalled, version, captured, latest, noticed>>

Ended == {"stopped", "failed"}
Saving == {"saving", "finalSaving"}

Init ==
    /\ pc = "run"
    /\ others \in BOOLEAN
    /\ pending = FALSE /\ signalled = FALSE
    /\ version = 0 /\ captured = 0 /\ latest = 0 /\ noticed = 0

-----------------------------------------------------------------------------
(* The timer *)

\* app::run of a forced autosave: the lock is taken, or the operation reports that
\* another one is in progress, which is no error.
Run(begin, saving, next) ==
    /\ pc = begin
    /\ IF others
       THEN pc' = next /\ UNCHANGED captured
       ELSE pc' = saving /\ captured' = version
    /\ UNCHANGED <<others, pending, signalled, version, latest, noticed>>

Periodic == Run("run", "saving", "poll")
Final == Run("final", "finalSaving", "stopped")

Save ==
    /\ pc \in Saving
    /\ latest' = captured
    /\ pc' = IF pc = "saving" THEN "poll" ELSE "stopped"
    /\ UNCHANGED <<others, pending, signalled, version, captured, noticed>>

\* An error of a save ends the timer.
Error ==
    /\ pc \in {"run", "final"} \union Saving
    /\ pc' = "failed"
    /\ UNCHANGED <<others, pending, signalled, version, captured, latest, noticed>>

\* read_signal, at least once in every interval.
Poll ==
    /\ pc \in {"poll", "pause"}
    /\ IF pending
       THEN pc' = "final" /\ noticed' = version
       ELSE pc' = "pause" /\ UNCHANGED noticed
    /\ pending' = FALSE
    /\ UNCHANGED <<others, signalled, version, captured, latest>>

\* The interval is over.
Interval ==
    /\ pc = "pause"
    /\ pc' = "run"
    /\ UNCHANGED <<others, pending, signalled, version, captured, latest, noticed>>

-----------------------------------------------------------------------------
(* Its environment *)

\* Mutant: the signals are not blocked while a save runs, and one is lost on it.
SignalUnblocked ==
    /\ pc \notin Ended
    /\ pending' = (pending \/ pc \notin Saving)
    /\ signalled' = TRUE
    /\ UNCHANGED <<pc, others, version, captured, latest, noticed>>

Signal ==
    /\ pc \notin Ended
    /\ pending' = TRUE
    /\ signalled' = TRUE
    /\ UNCHANGED <<pc, others, version, captured, latest, noticed>>

\* Another invocation takes the lock for something that is no save, and releases it.
OtherBegins ==
    /\ pc \notin Saving /\ ~others
    /\ others' = TRUE
    /\ UNCHANGED <<pc, pending, signalled, version, captured, latest, noticed>>

OtherEnds ==
    /\ others
    /\ others' = FALSE
    /\ UNCHANGED <<pc, pending, signalled, version, captured, latest, noticed>>

Change ==
    /\ version < MaxVersion
    /\ version' = version + 1
    /\ UNCHANGED <<pc, others, pending, signalled, captured, latest, noticed>>

-----------------------------------------------------------------------------
Step == Periodic \/ Final \/ Save \/ Error \/ Poll \/ Interval

Next == Step \/ Signal \/ OtherBegins \/ OtherEnds \/ Change

\* The timer runs: a save ends, an interval passes.
Spec == Init /\ [][Next]_vars /\ WF_vars(Step)

-----------------------------------------------------------------------------
\* A signal ends the timer, also one that arrives while a save runs, or several of them
\* (timer::run: the mask is blocked before the first save and the signal read later).
SignalEndsTimer == signalled ~> pc \in Ended

\* "a final save on SIGINT/SIGTERM/SIGHUP" (README.md:234): a timer that was stopped by
\* a signal saved a state at least as new as the one at the time it read the signal.
FinalSaveMade == pc = "stopped" => latest >= noticed
=============================================================================
