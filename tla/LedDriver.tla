------------------------------ MODULE LedDriver ------------------------------
(***************************************************************************)
(* led_dd.c: the character device /dev/ledrgb on three GPIO pins.  The     *)
(* loader (insmod, rmmod) runs led_init and cleanup; writers, such as the  *)
(* feedback thread and the LED timer thread of the backend, open the       *)
(* device, write three bytes and close it.  The driver has no lock.        *)
(*                                                                         *)
(* The kernel calls open once cdev_add has returned, which is before       *)
(* led_init is over, and not any more once the module is on its way out;   *)
(* it takes no module out that has an open file, since the file operations *)
(* name their owner.                                                       *)
(***************************************************************************)
CONSTANTS
    Writers,
    Loader      \* the process that runs insmod or rmmod

ASSUME LoaderAssumption == Loader \notin Writers

VARIABLES
    module,    \* "out", "coming" (led_init), "live" or "going" (cleanup)
    held,      \* what led_init has acquired and not released
    gpio,      \* s_GPIO
    file,      \* private_data of each writer's open file, "none" without one
    buffer,    \* the bytes each party writes
    pc,        \* what each party does next
    level,     \* the pins that are high
    outputs,   \* the pins configured as outputs
    batch      \* ghost: the colours of the last writes that overlapped

users == <<file, buffer>>
pins == <<level, outputs>>
vars == <<module, held, gpio, users, pc, pins, batch>>

Parties == Writers \cup {Loader}

Pins == {"red", "green", "blue"}

\* A colour is the set of pins that are on.
Dark == {}
Colours == {Dark} \cup {{p} : p \in Pins}
Resources == {"region", "class", "device", "cdev", "mapping"}

Init ==
    /\ module = "out" /\ held = {} /\ gpio = "NULL"
    /\ file = [w \in Writers |-> "none"]
    /\ buffer = [x \in Parties |-> Dark]
    /\ pc = [x \in Parties |-> "idle"]
    /\ level = Dark /\ outputs = {}
    /\ batch = {Dark}

Goto(x, to) == pc' = [pc EXCEPT ![x] = to]
Step(x, from, to) == pc[x] = from /\ Goto(x, to)

-----------------------------------------------------------------------------
(* The pins, one after the other, red first.                               *)

\* The pointer x uses: led_init and cleanup that of the module, a write that of
\* its file.
Pointer(x) == IF x = Loader THEN gpio ELSE file[x]

Storing(x) == pc[x] \in Pins

\* x goes on to store colour c.
Paint(x, c) ==
    /\ Goto(x, "red")
    /\ buffer' = [buffer EXCEPT ![x] = c]
    /\ batch' = IF \E y \in Parties : Storing(y) THEN batch \cup {c} ELSE {c}

\* Mutant of SetGPIOState: pins are only ever set.
SetGPIOStateHigh(p, c, pointer) ==
    level' = IF pointer = "NULL" THEN level ELSE IF p \in c THEN level \cup {p} ELSE level

\* A store to GPSET or GPCLR, which leaves every other pin as it is.
SetGPIOState(p, c, pointer) ==
    level' = IF pointer = "NULL" THEN level
             ELSE IF p \in c THEN level \cup {p} ELSE level \ {p}

AfterPins(x) ==
    IF x # Loader THEN "close" ELSE IF module = "coming" THEN "ready" ELSE "inputs"

Store(x) ==
    /\ \E p \in Pins :
          /\ pc[x] = p
          /\ SetGPIOState(p, buffer[x], Pointer(x))
          /\ Goto(x, CASE p = "red" -> "green" [] p = "green" -> "blue" [] OTHER -> AfterPins(x))
    /\ UNCHANGED <<module, held, gpio, users, outputs, batch>>

-----------------------------------------------------------------------------
(* Writers: open, write, close.                                            *)

Open(w) ==
    /\ Step(w, "idle", "write")
    /\ "cdev" \in held /\ module # "going"
    /\ file' = [file EXCEPT ![w] = gpio]
    /\ UNCHANGED <<module, held, gpio, buffer, pins, batch>>

\* led_device_write up to its stores: it returns without any when the file has
\* no mapping, for fewer than three bytes, and for bytes other than '0' and '1'.
Write(w) ==
    /\ pc[w] = "write"
    /\ \/ /\ file[w] # "NULL"
          /\ \E c \in Colours : Paint(w, c)
       \/ Goto(w, "close") /\ UNCHANGED <<buffer, batch>>
    /\ UNCHANGED <<module, held, gpio, file, pins>>

Close(w) ==
    /\ Step(w, "close", "idle")
    /\ file' = [file EXCEPT ![w] = "none"]
    /\ UNCHANGED <<module, held, gpio, buffer, pins, batch>>

-----------------------------------------------------------------------------
(* insmod: led_init.                                                       *)

Insmod ==
    /\ Step(Loader, "idle", "region")
    /\ module = "out"
    /\ module' = "coming"
    /\ gpio' = "NULL"
    /\ UNCHANGED <<held, users, pins, batch>>

\* Mutant of Following: cdev_add comes first.
FollowingCdevFirst == [region |-> "cdev", cdev |-> "class", class |-> "device",
                       device |-> "mapping"]

\* Mutant of Released: a failed device_create leaves the class.
ReleasedButClass == [region |-> {}, class |-> {"region"}, device |-> {"region"},
                     cdev |-> {"device", "class", "region"}]

\* What follows each acquisition, and what led_init releases when it fails.
Following == [region |-> "class", class |-> "device", device |-> "cdev", cdev |-> "mapping"]
Released == [region |-> {}, class |-> {"region"}, device |-> {"class", "region"},
             cdev |-> {"device", "class", "region"}]

Acquire ==
    /\ \E r \in DOMAIN Following :
          /\ pc[Loader] = r
          /\ \/ held' = held \cup {r} /\ Goto(Loader, Following[r]) /\ UNCHANGED module
             \/ held' = held \ Released[r] /\ Goto(Loader, "idle") /\ module' = "out"
    /\ module = "coming"
    /\ UNCHANGED <<gpio, users, pins, batch>>

\* ioremap, whose failure is not looked at: s_GPIO is then NULL.
MapRegisters ==
    /\ Step(Loader, "mapping", "outputs")
    /\ module = "coming"
    /\ \/ gpio' = "MAP" /\ held' = held \cup {"mapping"}
       \/ gpio' = "NULL" /\ UNCHANGED held
    /\ UNCHANGED <<module, users, pins, batch>>

\* SetGPIOFunction for the three pins, whose function nobody else sets.
SetGPIOFunction(pointer, configured) ==
    outputs' = IF pointer = "NULL" THEN outputs ELSE configured

ConfigureOutputs ==
    /\ pc[Loader] = "outputs"
    /\ SetGPIOFunction(gpio, Pins)
    /\ Paint(Loader, Dark)
    /\ UNCHANGED <<module, held, gpio, file, level>>

Ready ==
    /\ Step(Loader, "ready", "idle")
    /\ module' = "live"
    /\ UNCHANGED <<held, gpio, users, pins, batch>>

-----------------------------------------------------------------------------
(* rmmod: cleanup.                                                         *)

\* Mutant of Rmmod: the file operations name no owner.
RmmodUnowned ==
    /\ pc[Loader] = "idle" /\ module = "live"
    /\ module' = "going"
    /\ Paint(Loader, Dark)
    /\ UNCHANGED <<held, gpio, file, pins>>

Rmmod ==
    /\ pc[Loader] = "idle" /\ module = "live"
    /\ \A w \in Writers : file[w] = "none"
    /\ module' = "going"
    /\ Paint(Loader, Dark)
    /\ UNCHANGED <<held, gpio, file, pins>>

ConfigureInputs ==
    /\ Step(Loader, "inputs", "mapping")
    /\ SetGPIOFunction(gpio, {})
    /\ UNCHANGED <<module, held, gpio, users, level, batch>>

\* iounmap, cdev_del, device_destroy, class_destroy, unregister_chrdev_region.
Preceding == [mapping |-> "cdev", cdev |-> "device", device |-> "class", class |-> "region",
              region |-> "idle"]

Release ==
    /\ module = "going"
    /\ \E r \in DOMAIN Preceding :
          /\ Step(Loader, r, Preceding[r])
          /\ held' = held \ {r}
          /\ module' = IF r = "region" THEN "out" ELSE module
    /\ UNCHANGED <<gpio, users, pins, batch>>

-----------------------------------------------------------------------------
Load == Insmod \/ Acquire \/ MapRegisters \/ ConfigureOutputs \/ Ready
Unload == Rmmod \/ ConfigureInputs \/ Release

Next ==
    \/ Load \/ Unload
    \/ \E x \in Parties : Store(x)
    \/ \E w \in Writers : Open(w) \/ Write(w) \/ Close(w)

Spec == Init /\ [][Next]_vars

-----------------------------------------------------------------------------
(* Properties.                                                             *)

TypeOK ==
    /\ module \in {"out", "coming", "live", "going"}
    /\ held \subseteq Resources
    /\ gpio \in {"NULL", "MAP"}
    /\ file \in [Writers -> {"none", "NULL", "MAP"}]
    /\ buffer \in [Parties -> Colours]
    /\ pc \in [Parties -> {"idle", "write", "close", "outputs", "ready", "inputs"}
                          \cup Pins \cup Resources]
    /\ level \subseteq Pins
    /\ outputs \subseteq Pins
    /\ batch \subseteq Colours

\* No register is touched through a mapping that is gone: neither by cleanup,
\* nor by a write on a file opened before it.
StoresAreMapped ==
    \A x \in Parties :
        Storing(x) \/ pc[x] \in {"outputs", "inputs"}
            => Pointer(x) = "NULL" \/ "mapping" \in held

\* The code of the driver stays as long as a file is open: led_init cannot fail
\* after cdev_add, and cleanup does not begin before the last close.
OpenFileKeepsModule ==
    \A w \in Writers : file[w] # "none" => module \in {"coming", "live"} /\ "cdev" \in held

\* Outside the driver's life, be it over or its led_init broken off at any
\* acquisition, nothing stays registered, and the pins are low and inputs.
NothingIsLeft == module = "out" => held = {} /\ level = Dark /\ outputs = {}

\* When nobody is storing, each pin is as one of the last writes that overlapped
\* wanted it: as the last write did if it met no other, and a mixture only of
\* colours written at the same time.
LampIsOfBatch ==
    (\A x \in Parties : ~Storing(x)) =>
        \A p \in Pins : \E c \in batch : p \in level <=> p \in c
=============================================================================
