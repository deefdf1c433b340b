------------------------- MODULE FeedbackController -------------------------
(***************************************************************************)
(* FeedbackController: HTTP handlers queue signals, the feedback thread    *)
(* plays them one after the other on the LED and the buzzer, and a second  *)
(* thread turns the LED off when the LED timer has expired.  The two share *)
(* the LED device, the timer, ledTimerArmed_ and the stop eventfd without  *)
(* a lock.  main builds the object before and destroys it after the server.*)
(*                                                                         *)
(* A signal plays for at most 450 ms, so the 800 ms timer it sets does not *)
(* expire before it is over; when else the timer expires is left open.     *)
(***************************************************************************)
EXTENDS WaitQueue, Naturals

CONSTANTS
    Signals,    \* the FeedbackTypes that are asked for
    NoSignal,
    MaxQueue,   \* bound: no signal is asked for beside a queue this long
    Disjoint    \* TRUE: no signal is lit and armed while an expiration is handled

\* What executeFeedback plays for a signal: a colour and a number of beeps.
Colour == [ACTIVATE |-> "green", DEACTIVATE |-> "blue", CHECKOUT |-> "blue", ERROR |-> "red"]
Beeps == [ACTIVATE |-> 1, DEACTIVATE |-> 1, CHECKOUT |-> 2, ERROR |-> 3]

ASSUME SignalsAssumption == Signals \subseteq DOMAIN Colour
ASSUME NoSignalAssumption == NoSignal \notin DOMAIN Colour
ASSUME BoundsAssumption == MaxQueue \in Nat \ {0} /\ Disjoint \in BOOLEAN

VARIABLES
    step,       \* where the feedback thread is in the signal
    beeps,      \* how many beeps it has yet to begin
    led,        \* /dev/ledrgb
    buzzer,     \* the PWM output is enabled
    ledTimer,   \* ledTimerFd_
    armed,      \* ledTimerArmed_
    watch,      \* what the LED timer thread does next
    stopEvent,  \* stopFd_ has been written and not been read
    main        \* where main is with this object

lamp == <<led, ledTimer, armed>>
play == <<step, beeps>>
vars == <<waiting, play, lamp, buzzer, watch, stopEvent, main>>

Init ==
    /\ running = TRUE /\ queue = <<>> /\ consumer = "loop" /\ job = NoSignal
    /\ step = "end" /\ beeps = 0
    /\ led = "off" /\ ledTimer = "idle" /\ armed = FALSE
    /\ buzzer = FALSE
    /\ watch = "loop"
    /\ stopEvent = FALSE
    /\ main = "up"

-----------------------------------------------------------------------------
(* A handler asks for a signal: push and notify_one under the mutex.       *)

\* Mutant of Ask: no notify_one.
AskQuietly(s) ==
    /\ main = "up" /\ Len(queue) < MaxQueue
    /\ Put(s)
    /\ UNCHANGED <<running, consumer, job, play, lamp, buzzer, watch, stopEvent, main>>

Ask(s) ==
    /\ main = "up" /\ Len(queue) < MaxQueue
    /\ Put(s)
    /\ Notify
    /\ UNCHANGED <<running, job, play, lamp, buzzer, watch, stopEvent, main>>

-----------------------------------------------------------------------------
(* The feedback thread.                                                    *)

others == <<watch, main>>

TakeSignal ==
    /\ Loop \/ Test \/ Sleep
    /\ IF consumer' = "busy" THEN step' = "led" /\ beeps' = Beeps[job'] ELSE UNCHANGED play
    /\ UNCHANGED <<others, lamp, buzzer, stopEvent>>

WakeUp == WakeSpuriously /\ UNCHANGED <<others, play, lamp, buzzer, stopEvent>>

Play(from, to) ==
    /\ consumer = "busy" /\ step = from
    /\ step' = to
    /\ UNCHANGED <<waiting, others>>

\* Writing the LED, the timer and its flag takes a few system calls, and so does the
\* LED timer thread from its read to its disarm.
Lighting == consumer = "busy" /\ step \in {"set timer", "arm"}
Darkening == watch \in {"test", "dark", "disarm"}

WriteLed ==
    /\ Disjoint => ~Darkening
    /\ Play("led", "set timer")
    /\ led' = Colour[job]
    /\ UNCHANGED <<beeps, ledTimer, armed, buzzer, stopEvent>>

\* Mutant of SetTimer: 800 ms in whole seconds are none, which stops the timer.
SetTimerInSeconds ==
    /\ Play("set timer", "arm")
    /\ ledTimer' = "idle"
    /\ UNCHANGED <<beeps, led, armed, buzzer, stopEvent>>

\* timerfd_settime also takes back an expiration nobody has read yet.
SetTimer ==
    /\ Play("set timer", "arm")
    /\ ledTimer' = "set"
    /\ UNCHANGED <<beeps, led, armed, buzzer, stopEvent>>

Arm ==
    /\ Play("arm", "on")
    /\ armed' = TRUE
    /\ UNCHANGED <<beeps, led, ledTimer, buzzer, stopEvent>>

BuzzerOn ==
    /\ Play("on", "wait")
    /\ buzzer' = TRUE
    /\ beeps' = beeps - 1
    /\ UNCHANGED <<lamp, stopEvent>>

BuzzerOff ==
    /\ Play("off", IF beeps > 0 THEN "gap" ELSE "end")
    /\ buzzer' = FALSE
    /\ UNCHANGED <<beeps, lamp, stopEvent>>

\* waitMs, during a beep or between two, begins unless the program is stopping.
BeginWait ==
    /\ \/ Play("wait", IF running THEN "poll" ELSE "off")
       \/ Play("gap", IF running THEN "poll gap" ELSE "on")
    /\ UNCHANGED <<beeps, lamp, buzzer, stopEvent>>

\* Mutant of EndWait: a stop leaves the signal where it is.
EndWaitAndLeave ==
    /\ \/ Play("poll", IF stopEvent THEN "end" ELSE "off")
       \/ Play("poll gap", IF stopEvent THEN "end" ELSE "on")
    /\ stopEvent' = FALSE
    /\ UNCHANGED <<beeps, lamp, buzzer>>

\* The stop event, which this thread may be the one to read, or the timer.
EndWait ==
    /\ Play("poll", "off") \/ Play("poll gap", "on")
    /\ stopEvent' = FALSE
    /\ UNCHANGED <<beeps, lamp, buzzer>>

EndSignal ==
    /\ consumer = "busy" /\ step = "end"
    /\ Finish(NoSignal)
    /\ UNCHANGED <<running, queue, others, play, lamp, buzzer, stopEvent>>

-----------------------------------------------------------------------------
(* The LED timer and its thread.                                           *)

\* The signal that plays has set the LED timer.
TimerSet == consumer = "busy" /\ step \notin {"led", "set timer"}

Expire ==
    /\ ledTimer = "set"
    /\ ~TimerSet
    /\ ledTimer' = "expired"
    /\ UNCHANGED <<waiting, play, led, armed, buzzer, watch, stopEvent, main>>

untouched == <<waiting, play, buzzer, main>>

WatchLoop ==
    /\ watch = "loop"
    /\ watch' = IF running THEN "poll" ELSE "done"
    /\ UNCHANGED <<untouched, lamp, stopEvent>>

\* poll returns for the stop event, for the timer, or after a second without.
Poll ==
    /\ watch = "poll"
    /\ \/ ~stopEvent /\ ledTimer # "expired" /\ watch' = "nothing"
       \/ stopEvent /\ watch' = "stop"
       \/ ~stopEvent /\ ledTimer = "expired" /\ watch' = "timer"
    /\ UNCHANGED <<untouched, lamp, stopEvent>>

\* running_ is looked at first: the stop event is left for the other thread.
AfterPoll ==
    /\ watch \in {"nothing", "stop", "timer"}
    /\ watch' = CASE ~running \/ watch = "stop" -> "done"
                  [] watch = "timer"            -> "read"
                  [] OTHER                      -> "loop"
    /\ stopEvent' = (stopEvent /\ ~(running /\ watch = "stop"))
    /\ UNCHANGED <<untouched, lamp>>

\* Mutant of ReadTimer: a timer that does not block, whose read is not looked at.
ReadTimerUnchecked ==
    /\ watch = "read"
    /\ Disjoint => ~Lighting
    /\ ledTimer' = IF ledTimer = "expired" THEN "idle" ELSE ledTimer
    /\ watch' = "test"
    /\ UNCHANGED <<untouched, led, armed, stopEvent>>

\* read blocks when the timer was set again since poll.
ReadTimer ==
    /\ watch = "read"
    /\ ledTimer = "expired"
    /\ Disjoint => ~Lighting
    /\ ledTimer' = "idle"
    /\ watch' = "test"
    /\ UNCHANGED <<untouched, led, armed, stopEvent>>

TestArmed ==
    /\ watch = "test"
    /\ watch' = IF armed THEN "dark" ELSE "loop"
    /\ UNCHANGED <<untouched, lamp, stopEvent>>

LedOff ==
    /\ watch = "dark"
    /\ led' = "off"
    /\ watch' = "disarm"
    /\ UNCHANGED <<untouched, ledTimer, armed, stopEvent>>

Disarm ==
    /\ watch = "disarm"
    /\ armed' = FALSE
    /\ watch' = "loop"
    /\ UNCHANGED <<untouched, led, ledTimer, stopEvent>>

-----------------------------------------------------------------------------
(* main: ~FeedbackController, once the server has stopped.                 *)

threads == <<queue, job, play, watch>>

Destroy ==
    /\ main = "up"
    /\ main' = "notify"
    /\ running' = FALSE
    /\ UNCHANGED <<consumer, threads, lamp, buzzer, stopEvent>>

NotifyAll ==
    /\ main = "notify"
    /\ main' = "write stop"
    /\ Notify
    /\ UNCHANGED <<running, threads, lamp, buzzer, stopEvent>>

WriteStop ==
    /\ main = "write stop"
    /\ main' = "join feedback"
    /\ stopEvent' = TRUE
    /\ UNCHANGED <<running, consumer, threads, lamp, buzzer>>

\* Mutant of Join: the LED timer thread is the only one waited for.
JoinOne ==
    /\ main = "join feedback" /\ watch = "done" /\ main' = "all off"
    /\ UNCHANGED <<waiting, play, lamp, buzzer, watch, stopEvent>>

Join ==
    /\ \/ main = "join feedback" /\ consumer = "done" /\ main' = "join timer"
       \/ main = "join timer" /\ watch = "done" /\ main' = "all off"
    /\ UNCHANGED <<waiting, play, lamp, buzzer, watch, stopEvent>>

AllOff ==
    /\ main = "all off"
    /\ main' = "gone"
    /\ buzzer' = FALSE
    /\ led' = "off"
    /\ UNCHANGED <<waiting, play, ledTimer, armed, watch, stopEvent>>

-----------------------------------------------------------------------------
Feedback == TakeSignal \/ WriteLed \/ SetTimer \/ Arm \/ BuzzerOn \/ BuzzerOff
            \/ BeginWait \/ EndWait \/ EndSignal
Watch == WatchLoop \/ Poll \/ AfterPoll \/ ReadTimer \/ TestArmed \/ LedOff \/ Disarm
Main == NotifyAll \/ WriteStop \/ Join \/ AllOff

Next == Feedback \/ WakeUp \/ Expire \/ Watch \/ Destroy \/ Main \/ \E s \in Signals : Ask(s)

\* Threads are scheduled, their waits end, and a timer that is set expires.
\* Nobody has to ask for a signal, to stop or to wake the thread for nothing.
Fairness == WF_vars(Feedback) /\ WF_vars(Watch) /\ WF_vars(Main) /\ WF_vars(Expire)

Spec == Init /\ [][Next]_vars /\ Fairness

-----------------------------------------------------------------------------
(* Properties.                                                             *)

PlaySteps == {"led", "set timer", "arm", "on", "wait", "poll", "off", "gap", "poll gap", "end"}

TypeOK ==
    /\ running \in BOOLEAN
    /\ queue \in Seq(Signals)
    /\ consumer \in ConsumerSteps
    /\ job \in Signals \cup {NoSignal}
    /\ step \in PlaySteps /\ beeps \in 0 .. 3
    /\ consumer = "busy" <=> job # NoSignal
    /\ consumer # "busy" => step = "end"
    /\ led \in {"off", "green", "blue", "red"}
    /\ buzzer \in BOOLEAN
    /\ ledTimer \in {"idle", "set", "expired"}
    /\ armed \in BOOLEAN
    /\ watch \in {"loop", "poll", "nothing", "stop", "timer", "read", "test", "dark",
                  "disarm", "done"}
    /\ stopEvent \in BOOLEAN
    /\ main \in {"up", "notify", "write stop", "join feedback", "join timer", "all off", "gone"}

\* The feedback thread never sleeps beside a queued signal.
NoSignalForgotten == consumer = "asleep" => queue = <<>>

\* However a signal ends, by its last beep or by a stop in a wait, the buzzer is
\* silent once it is over.
BuzzerOnlyInSignal == buzzer => consumer = "busy"

\* While a signal plays the LED shows its colour: the LED timer thread does not darken a
\* signal that is younger than the expiration it was woken for, though that signal may
\* have set the timer again and armed it between the thread's poll and its read.
ColourOfSignal == TimerSet => led = Colour[job]

\* Whenever the LED timer thread fires, the LED shows no other signal's colour while one
\* plays: at worst it is dark, for what is left of the signal and its 800 ms.
NoForeignColour == TimerSet => led \in {Colour[job], "off"}

\* A LED that is on has somebody who will darken it: the signal that plays, which has yet
\* to set the timer and to arm it; the timer; or the LED timer thread, past its expiration.
\* LedGoesOff rests on this, and where lighting and darkening overlap it is lost.
LedIsTended ==
    led # "off" /\ running =>
        \/ consumer = "busy"
        \/ armed /\ (ledTimer # "idle" \/ watch = "test")
        \/ watch = "dark"

\* After the destructor the LED is off and the buzzer silent, and stays so.
DarkWhenGone == main = "gone" => led = "off" /\ ~buzzer

\* The LED goes off again after a signal, unless another signal follows or the
\* program is stopping.
LedGoesOff == led # "off" ~> (led = "off" \/ consumer = "busy" \/ ~running)

\* A signal that was asked for is played, unless the program is stopping.
SignalIsPlayed ==
    \A s \in Signals : (queue # <<>> /\ queue[Len(queue)] = s) ~> (job = s \/ ~running)

\* The destructor returns if its notification found the feedback thread awake
\* and not about to sleep, whichever thread reads the stop event.
DestroyCompletes ==
    (main = "write stop" /\ consumer \notin {"tested", "asleep"}) ~> main = "gone"
=============================================================================
