--------------------- MODULE FeedbackControllerProofs ---------------------
(***************************************************************************)
(* Proofs about FeedbackController, for any signals and any queue.         *)
(*                                                                         *)
(* No lock orders the LED timer thread and the feedback thread.  What      *)
(* keeps a signal's colour on the LED is Undisturbed: a timer that is set  *)
(* anew has taken its expiration from the LED timer thread, which blocks   *)
(* in read until the signal is over, unless it was past its read.          *)
(***************************************************************************)
EXTENDS FeedbackController, SequenceTheorems, TLAPS

\* The feedback thread goes to sleep beside an empty queue only.
Awake == consumer \in {"tested", "asleep"} => queue = <<>>

\* Beeps left, and where in the signal the buzzer may sound.
Beeping ==
    /\ step \in {"led", "set timer", "arm", "on", "gap", "poll gap"} => beeps > 0
    /\ buzzer => consumer = "busy" /\ step \in {"wait", "poll", "off"}

\* What main has waited for does not run any more.
Joined ==
    /\ main \in {"join timer", "all off", "gone"} => consumer = "done"
    /\ main \in {"all off", "gone"} => watch = "done"
    /\ main = "gone" => led = "off" /\ buzzer = FALSE

\* A signal that has set the timer has no expiration beside it, and the LED timer thread
\* is not past its read while one that has lit the LED plays.
Undisturbed ==
    /\ TimerSet => ledTimer = "set"
    /\ Disjoint /\ consumer = "busy" /\ step # "led" => ~Darkening

Coloured == Disjoint /\ consumer = "busy" /\ step # "led" => led = Colour[job]

-----------------------------------------------------------------------------
(* Types.                                                                  *)

\* The control state of every thread and device.
LEMMA ControlTypes ==
    ASSUME TypeOK, [Next]_vars
    PROVE  /\ running' \in BOOLEAN
           /\ consumer' \in ConsumerSteps
           /\ step' \in PlaySteps
           /\ buzzer' \in BOOLEAN
           /\ ledTimer' \in {"idle", "set", "expired"}
           /\ armed' \in BOOLEAN
           /\ watch' \in {"loop", "poll", "nothing", "stop", "timer", "read", "test", "dark",
                          "disarm", "done"}
           /\ stopEvent' \in BOOLEAN
           /\ main' \in {"up", "notify", "write stop", "join feedback", "join timer",
                         "all off", "gone"}
<1> USE DEF TypeOK, Next, vars, waiting, play, lamp, others, untouched, threads,
         Ask, Put, Notify, Locked,
         Feedback, TakeSignal, Loop, Test, Sleep, WakeUp, WakeSpuriously, Play,
         WriteLed, SetTimer, Arm, BuzzerOn, BuzzerOff, BeginWait, EndWait, EndSignal, Finish,
         Expire, Watch, WatchLoop, Poll, AfterPoll, ReadTimer, TestArmed, LedOff, Disarm,
         Destroy, Main, NotifyAll, WriteStop, Join, AllOff
<1>1. running' \in BOOLEAN
  OBVIOUS
<1>2. consumer' \in ConsumerSteps
  BY DEF ConsumerSteps
<1>3. step' \in PlaySteps
  BY DEF PlaySteps
<1>4. buzzer' \in BOOLEAN
  OBVIOUS
<1>5. ledTimer' \in {"idle", "set", "expired"}
  OBVIOUS
<1>6. armed' \in BOOLEAN
  OBVIOUS
<1>7. watch' \in {"loop", "poll", "nothing", "stop", "timer", "read", "test", "dark",
                  "disarm", "done"}
  OBVIOUS
<1>8. stopEvent' \in BOOLEAN
  OBVIOUS
<1>9. main' \in {"up", "notify", "write stop", "join feedback", "join timer", "all off", "gone"}
  OBVIOUS
<1> QED BY <1>1, <1>2, <1>3, <1>4, <1>5, <1>6, <1>7, <1>8, <1>9

\* What the steps do to the queue, the job and the signal that plays.
LEMMA DataSteps ==
    ASSUME [Next]_vars
    PROVE  /\ \/ queue' = queue
              \/ \E s \in Signals : queue' = Append(queue, s)
              \/ queue # <<>> /\ queue' = Tail(queue)
           /\ \/ job' = job /\ (consumer' = "busy" <=> consumer = "busy")
              \/ job' = NoSignal /\ consumer' # "busy"
              \/ queue # <<>> /\ job' = Head(queue) /\ consumer' = "busy" /\ beeps' = Beeps[job']
           /\ \/ beeps' = beeps
              \/ step = "on" /\ beeps' = beeps - 1
              \/ consumer' = "busy" /\ beeps' = Beeps[job']
           /\ led' \in {led, "off"} \/ (consumer = "busy" /\ led' = Colour[job])
<1> USE DEF Next, vars, waiting, play, lamp, others, untouched, threads,
         Ask, Put, Notify, Locked,
         Feedback, TakeSignal, Loop, Test, Sleep, WakeUp, WakeSpuriously, Play,
         WriteLed, SetTimer, Arm, BuzzerOn, BuzzerOff, BeginWait, EndWait, EndSignal, Finish,
         Expire, Watch, WatchLoop, Poll, AfterPoll, ReadTimer, TestArmed, LedOff, Disarm,
         Destroy, Main, NotifyAll, WriteStop, Join, AllOff
<1>1. \/ queue' = queue
      \/ \E s \in Signals : queue' = Append(queue, s)
      \/ queue # <<>> /\ queue' = Tail(queue)
  OBVIOUS
<1>2. \/ job' = job /\ (consumer' = "busy" <=> consumer = "busy")
      \/ job' = NoSignal /\ consumer' # "busy"
      \/ queue # <<>> /\ job' = Head(queue) /\ consumer' = "busy" /\ beeps' = Beeps[job']
  OBVIOUS
<1>3. \/ beeps' = beeps
      \/ step = "on" /\ beeps' = beeps - 1
      \/ consumer' = "busy" /\ beeps' = Beeps[job']
  OBVIOUS
<1>4. led' \in {led, "off"} \/ (consumer = "busy" /\ led' = Colour[job])
  OBVIOUS
<1> QED BY <1>1, <1>2, <1>3, <1>4

\* A signal is over before the thread leaves it.
LEMMA StepEnds ==
    ASSUME TypeOK, [Next]_vars
    PROVE  (consumer # "busy" => step = "end")'
  BY DEF TypeOK, Next, vars, waiting, play, lamp, others, untouched, threads,
         Ask, Put, Notify, Locked,
         Feedback, TakeSignal, Loop, Test, Sleep, WakeUp, WakeSpuriously, Play,
         WriteLed, SetTimer, Arm, BuzzerOn, BuzzerOff, BeginWait, EndWait, EndSignal, Finish,
         Expire, Watch, WatchLoop, Poll, AfterPoll, ReadTimer, TestArmed, LedOff, Disarm,
         Destroy, Main, NotifyAll, WriteStop, Join, AllOff

\* Every variable keeps its type in every step.
LEMMA TypeStep ==
    ASSUME TypeOK, Beeping, [Next]_vars
    PROVE  TypeOK'
<1>1. queue \in Seq(Signals) /\ (queue # <<>> => Head(queue) \in Signals)
  <2>1. queue \in Seq(Signals)
    BY DEF TypeOK
  <2> QED BY <2>1
<1>2. queue' \in Seq(Signals)
  BY <1>1, DataSteps
<1>3. job' \in Signals \cup {NoSignal}
  BY <1>1, DataSteps DEF TypeOK
<1>4. NoSignal \notin Signals
  BY NoSignalAssumption, SignalsAssumption
<1>5. (consumer = "busy" <=> job # NoSignal)'
  <2>1. consumer = "busy" <=> job # NoSignal
    BY DEF TypeOK
  <2> QED BY <1>1, <1>4, <2>1, DataSteps
<1>6. \A s \in Signals : Beeps[s] \in 1 .. 3 /\ Colour[s] \in {"green", "blue", "red"}
  BY SignalsAssumption DEF Beeps, Colour
<1>7. beeps' \in 0 .. 3
  <2>1. beeps \in 0 .. 3 /\ (step = "on" => beeps > 0)
    BY DEF TypeOK, Beeping
  <2>2. consumer' = "busy" => job' \in Signals
    BY <1>3, <1>5
  <2> QED BY <1>6, <2>1, <2>2, DataSteps
<1>8. led' \in {"off", "green", "blue", "red"}
  BY <1>6, DataSteps DEF TypeOK
<1> QED BY <1>2, <1>3, <1>5, <1>7, <1>8, StepEnds, ControlTypes, Zenon DEF TypeOK

-----------------------------------------------------------------------------
(* The parts of the invariant.                                             *)

LEMMA AwakeStep ==
    ASSUME Awake, [Next]_vars
    PROVE  Awake'
  BY DEF Awake, Next, vars, waiting, play, lamp, others, untouched, threads,
         Ask, Put, Notify, Locked,
         Feedback, TakeSignal, Loop, Test, Sleep, WakeUp, WakeSpuriously, Play,
         WriteLed, SetTimer, Arm, BuzzerOn, BuzzerOff, BeginWait, EndWait, EndSignal, Finish,
         Expire, Watch, WatchLoop, Poll, AfterPoll, ReadTimer, TestArmed, LedOff, Disarm,
         Destroy, Main, NotifyAll, WriteStop, Join, AllOff

LEMMA BeepingStep ==
    ASSUME TypeOK, Beeping, [Next]_vars
    PROVE  Beeping'
<1>1. (buzzer => consumer = "busy" /\ step \in {"wait", "poll", "off"})'
  BY DEF Beeping, Next, vars, waiting, play, lamp, others, untouched, threads,
         Ask, Put, Notify, Locked,
         Feedback, TakeSignal, Loop, Test, Sleep, WakeUp, WakeSpuriously, Play,
         WriteLed, SetTimer, Arm, BuzzerOn, BuzzerOff, BeginWait, EndWait, EndSignal, Finish,
         Expire, Watch, WatchLoop, Poll, AfterPoll, ReadTimer, TestArmed, LedOff, Disarm,
         Destroy, Main, NotifyAll, WriteStop, Join, AllOff
<1>2. (step \in {"led", "set timer", "arm", "on", "gap", "poll gap"} => beeps > 0)'
  <2>1. \/ step' \notin {"led", "set timer", "arm", "on", "gap", "poll gap"}
        \/ beeps' = beeps /\ step \in {"led", "set timer", "arm", "on", "gap", "poll gap"}
        \/ beeps' = beeps /\ beeps > 0
        \/ consumer' = "busy" /\ beeps' = Beeps[job']
    BY DEF Next, vars, waiting, play, lamp, others, untouched, threads,
         Ask, Put, Notify, Locked,
         Feedback, TakeSignal, Loop, Test, Sleep, WakeUp, WakeSpuriously, Play,
         WriteLed, SetTimer, Arm, BuzzerOn, BuzzerOff, BeginWait, EndWait, EndSignal, Finish,
         Expire, Watch, WatchLoop, Poll, AfterPoll, ReadTimer, TestArmed, LedOff, Disarm,
         Destroy, Main, NotifyAll, WriteStop, Join, AllOff
  <2>2. \A s \in Signals : Beeps[s] > 0
    BY SignalsAssumption DEF Beeps, Colour
  <2>3. consumer' = "busy" => job' \in Signals
    <3>1. job' \in Signals \cup {NoSignal} /\ (consumer' = "busy" => job' # NoSignal)
      BY TypeStep, Zenon DEF TypeOK
    <3> QED BY <3>1
  <2>4. step \in {"led", "set timer", "arm", "on", "gap", "poll gap"} => beeps > 0
    BY DEF Beeping
  <2>5. consumer' = "busy" /\ beeps' = Beeps[job'] => beeps' > 0
    BY <2>2, <2>3
  <2> QED BY <2>1, <2>4, <2>5, Zenon
<1> QED BY <1>1, <1>2 DEF Beeping

LEMMA JoinedStep ==
    ASSUME Joined, [Next]_vars
    PROVE  Joined'
<1>1. (main \in {"join timer", "all off", "gone"} => consumer = "done")'
  BY DEF Joined, Next, vars, waiting, play, lamp, others, untouched, threads,
         Ask, Put, Notify, Locked,
         Feedback, TakeSignal, Loop, Test, Sleep, WakeUp, WakeSpuriously, Play,
         WriteLed, SetTimer, Arm, BuzzerOn, BuzzerOff, BeginWait, EndWait, EndSignal, Finish,
         Expire, Watch, WatchLoop, Poll, AfterPoll, ReadTimer, TestArmed, LedOff, Disarm,
         Destroy, Main, NotifyAll, WriteStop, Join, AllOff
<1>2. (main \in {"all off", "gone"} => watch = "done")'
  BY DEF Joined, Next, vars, waiting, play, lamp, others, untouched, threads,
         Ask, Put, Notify, Locked,
         Feedback, TakeSignal, Loop, Test, Sleep, WakeUp, WakeSpuriously, Play,
         WriteLed, SetTimer, Arm, BuzzerOn, BuzzerOff, BeginWait, EndWait, EndSignal, Finish,
         Expire, Watch, WatchLoop, Poll, AfterPoll, ReadTimer, TestArmed, LedOff, Disarm,
         Destroy, Main, NotifyAll, WriteStop, Join, AllOff
<1>3. (main = "gone" => led = "off" /\ buzzer = FALSE)'
  BY DEF Joined, Next, vars, waiting, play, lamp, others, untouched, threads,
         Ask, Put, Notify, Locked,
         Feedback, TakeSignal, Loop, Test, Sleep, WakeUp, WakeSpuriously, Play,
         WriteLed, SetTimer, Arm, BuzzerOn, BuzzerOff, BeginWait, EndWait, EndSignal, Finish,
         Expire, Watch, WatchLoop, Poll, AfterPoll, ReadTimer, TestArmed, LedOff, Disarm,
         Destroy, Main, NotifyAll, WriteStop, Join, AllOff
<1> QED BY <1>1, <1>2, <1>3 DEF Joined

LEMMA UndisturbedStep ==
    ASSUME Undisturbed, [Next]_vars
    PROVE  Undisturbed'
<1>1. (TimerSet => ledTimer = "set")'
  BY DEF Undisturbed, TimerSet, Next, vars, waiting, play, lamp, others, untouched, threads,
         Ask, Put, Notify, Locked,
         Feedback, TakeSignal, Loop, Test, Sleep, WakeUp, WakeSpuriously, Play,
         WriteLed, SetTimer, Arm, BuzzerOn, BuzzerOff, BeginWait, EndWait, EndSignal, Finish,
         Expire, Watch, WatchLoop, Poll, AfterPoll, ReadTimer, TestArmed, LedOff, Disarm,
         Destroy, Main, NotifyAll, WriteStop, Join, AllOff
<1>2. (Disjoint /\ consumer = "busy" /\ step # "led" => ~Darkening)'
  BY DEF Undisturbed, TimerSet, Lighting, Darkening, Next, vars, waiting, play, lamp, others, untouched, threads,
         Ask, Put, Notify, Locked,
         Feedback, TakeSignal, Loop, Test, Sleep, WakeUp, WakeSpuriously, Play,
         WriteLed, SetTimer, Arm, BuzzerOn, BuzzerOff, BeginWait, EndWait, EndSignal, Finish,
         Expire, Watch, WatchLoop, Poll, AfterPoll, ReadTimer, TestArmed, LedOff, Disarm,
         Destroy, Main, NotifyAll, WriteStop, Join, AllOff
<1> QED BY <1>1, <1>2 DEF Undisturbed

LEMMA ColouredStep ==
    ASSUME TypeOK, Joined, Undisturbed, Coloured, [Next]_vars
    PROVE  Coloured'
  BY DEF Joined, Undisturbed, Darkening, Coloured, Next, vars, waiting, play, lamp, others, untouched, threads,
         Ask, Put, Notify, Locked,
         Feedback, TakeSignal, Loop, Test, Sleep, WakeUp, WakeSpuriously, Play,
         WriteLed, SetTimer, Arm, BuzzerOn, BuzzerOff, BeginWait, EndWait, EndSignal, Finish,
         Expire, Watch, WatchLoop, Poll, AfterPoll, ReadTimer, TestArmed, LedOff, Disarm,
         Destroy, Main, NotifyAll, WriteStop, Join, AllOff

-----------------------------------------------------------------------------
(* The theorems.                                                           *)

IInv == TypeOK /\ Awake /\ Beeping /\ Joined /\ Undisturbed /\ Coloured

LEMMA InitIInv == Init => IInv
<1> SUFFICES ASSUME Init
             PROVE  IInv
  OBVIOUS
<1> USE DEF Init
<1>1. TypeOK
  <2>1. queue \in Seq(Signals) /\ beeps \in 0 .. 3
    OBVIOUS
  <2>2. consumer \in ConsumerSteps /\ step \in PlaySteps
    BY DEF ConsumerSteps, PlaySteps
  <2> QED BY <2>1, <2>2, Zenon DEF TypeOK
<1>2. Awake /\ Beeping /\ Joined /\ Undisturbed /\ Coloured
  BY DEF Awake, Beeping, Joined, Undisturbed, TimerSet, Coloured
<1> QED BY <1>1, <1>2 DEF IInv

LEMMA Invariant == Spec => []IInv
<1>1. IInv /\ [Next]_vars => IInv'
  BY TypeStep, AwakeStep, BeepingStep, JoinedStep, UndisturbedStep, ColouredStep DEF IInv
<1> QED BY InitIInv, <1>1, PTL DEF Spec

\* Types of every variable of FeedbackController, for any signals.
THEOREM TypeCorrect == Spec => []TypeOK
<1>1. IInv => TypeOK
  BY DEF IInv
<1> QED BY Invariant, <1>1, PTL

\* The feedback thread never sleeps beside a queued signal: activateFB and its
\* like push and notify in one critical section.
THEOREM NoSignalForgottenAlways == Spec => []NoSignalForgotten
<1>1. IInv => NoSignalForgotten
  BY DEF IInv, Awake, NoSignalForgotten
<1> QED BY Invariant, <1>1, PTL

\* beepOnceMs turns the buzzer off on every way out of waitMs.
THEOREM BuzzerOnlyInSignalAlways == Spec => []BuzzerOnlyInSignal
<1>1. IInv => BuzzerOnlyInSignal
  BY DEF IInv, Beeping, BuzzerOnlyInSignal
<1> QED BY Invariant, <1>1, PTL

\* Nothing turns the LED or the buzzer on again after the destructor, since it
\* has waited for both threads.
THEOREM DarkWhenGoneAlways == Spec => []DarkWhenGone
<1>1. IInv => DarkWhenGone
  BY DEF IInv, Joined, DarkWhenGone
<1> QED BY Invariant, <1>1, PTL

\* If no signal is lit while an expiration is handled, and none is handled while one is
\* lit, every signal keeps its colour on the LED while it plays, expirations that come
\* before it, or that poll has already reported, included.
THEOREM ColourOfSignalWhenDisjoint ==
    ASSUME Disjoint
    PROVE  Spec => []ColourOfSignal
<1>1. IInv => ColourOfSignal
  BY DEF IInv, Coloured, ColourOfSignal, TimerSet
<1> QED BY Invariant, <1>1, PTL

-----------------------------------------------------------------------------
(* The LED, whatever its timer thread does.                                *)

Shown == consumer = "busy" /\ step # "led" => led \in {Colour[job], "off"}

LEMMA ShownStep ==
    ASSUME TypeOK, Shown, [Next]_vars
    PROVE  Shown'
  BY DEF Shown, Next, vars, waiting, play, lamp, others, untouched, threads,
         Ask, Put, Notify, Locked,
         Feedback, TakeSignal, Loop, Test, Sleep, WakeUp, WakeSpuriously, Play,
         WriteLed, SetTimer, Arm, BuzzerOn, BuzzerOff, BeginWait, EndWait, EndSignal, Finish,
         Expire, Watch, WatchLoop, Poll, AfterPoll, ReadTimer, TestArmed, LedOff, Disarm,
         Destroy, Main, NotifyAll, WriteStop, Join, AllOff

\* Only executeFeedback lights the LED: darkened early or not, it never shows the
\* colour of another signal than the one that plays.
THEOREM NoForeignColourAlways == Spec => []NoForeignColour
<1>1. Init => Shown
  BY DEF Init, Shown
<1>2. IInv /\ Shown /\ [Next]_vars => Shown'
  BY ShownStep DEF IInv
<1>3. Shown => NoForeignColour
  BY DEF Shown, NoForeignColour, TimerSet
<1> QED BY <1>1, <1>2, <1>3, Invariant, PTL DEF Spec

-----------------------------------------------------------------------------
(* The LED, when lighting and darkening do not overlap.                    *)

\* Only the destructor, which first clears running_, turns the LED off by itself.
UpAndRunning == running => main = "up"

\* A signal has armed what will darken it, and the LED is off once it is darkened.
Tended ==
    /\ UpAndRunning
    /\ TimerSet /\ step # "arm" => armed
    /\ watch = "disarm" => led = "off"
    /\ LedIsTended

LEMMA TendedStep ==
    ASSUME Disjoint, IInv, Tended, [Next]_vars
    PROVE  Tended'
<1> USE DEF Tended, Undisturbed, IInv
<1>1. UpAndRunning'
  BY DEF UpAndRunning, Next, vars, waiting, play, lamp, others, untouched, threads,
         Ask, Put, Notify, Locked,
         Feedback, TakeSignal, Loop, Test, Sleep, WakeUp, WakeSpuriously, Play,
         WriteLed, SetTimer, Arm, BuzzerOn, BuzzerOff, BeginWait, EndWait, EndSignal, Finish,
         Expire, Watch, WatchLoop, Poll, AfterPoll, ReadTimer, TestArmed, LedOff, Disarm,
         Destroy, Main, NotifyAll, WriteStop, Join, AllOff
<1>2. (TimerSet /\ step # "arm" => armed)'
  BY DEF TypeOK, TimerSet, Lighting, Darkening, Next, vars, waiting, play, lamp, others, untouched, threads,
         Ask, Put, Notify, Locked,
         Feedback, TakeSignal, Loop, Test, Sleep, WakeUp, WakeSpuriously, Play,
         WriteLed, SetTimer, Arm, BuzzerOn, BuzzerOff, BeginWait, EndWait, EndSignal, Finish,
         Expire, Watch, WatchLoop, Poll, AfterPoll, ReadTimer, TestArmed, LedOff, Disarm,
         Destroy, Main, NotifyAll, WriteStop, Join, AllOff
<1>3. (watch = "disarm" => led = "off")'
  BY DEF Lighting, Darkening, Next, vars, waiting, play, lamp, others, untouched, threads,
         Ask, Put, Notify, Locked,
         Feedback, TakeSignal, Loop, Test, Sleep, WakeUp, WakeSpuriously, Play,
         WriteLed, SetTimer, Arm, BuzzerOn, BuzzerOff, BeginWait, EndWait, EndSignal, Finish,
         Expire, Watch, WatchLoop, Poll, AfterPoll, ReadTimer, TestArmed, LedOff, Disarm,
         Destroy, Main, NotifyAll, WriteStop, Join, AllOff
<1>4. LedIsTended'
  BY DEF LedIsTended, TypeOK, UpAndRunning, TimerSet, Lighting, Darkening, Next, vars, waiting, play, lamp, others, untouched, threads,
         Ask, Put, Notify, Locked,
         Feedback, TakeSignal, Loop, Test, Sleep, WakeUp, WakeSpuriously, Play,
         WriteLed, SetTimer, Arm, BuzzerOn, BuzzerOff, BeginWait, EndWait, EndSignal, Finish,
         Expire, Watch, WatchLoop, Poll, AfterPoll, ReadTimer, TestArmed, LedOff, Disarm,
         Destroy, Main, NotifyAll, WriteStop, Join, AllOff
<1> QED BY <1>1, <1>2, <1>3, <1>4

\* If lighting and darkening do not overlap, a LED that is on is always on its way to go
\* off: nothing loses the expiration or the flag it needs.
THEOREM LedIsTendedWhenDisjoint ==
    ASSUME Disjoint
    PROVE  Spec => []LedIsTended
<1>1. Init => Tended
  BY DEF Init, Tended, UpAndRunning, TimerSet, LedIsTended
<1>2. IInv /\ Tended /\ [Next]_vars => Tended'
  BY TendedStep
<1>3. Tended => LedIsTended
  BY DEF Tended
<1> QED BY <1>1, <1>2, <1>3, Invariant, PTL DEF Spec
=============================================================================
