--------------------------- MODULE LedDriverProofs ---------------------------
(***************************************************************************)
(* Proofs about LedDriver, for any number of writers.                      *)
(*                                                                         *)
(* What the loader holds is a function of where it is (LoaderInv); a file  *)
(* is open only between cdev_add and cleanup, and a write that stores has  *)
(* the mapping (WriterInv).  For the colours: a pin that is not as some    *)
(* write of the batch wants it has a write that has yet to store it        *)
(* (PinInv), and there is none of these when nobody is storing.            *)
(***************************************************************************)
EXTENDS LedDriver, TLAPS

Mapped == IF gpio = "MAP" THEN {"mapping"} ELSE {}
Registered == {"region", "class", "device", "cdev"}

\* What is held while the loader is at a step, by the state of the module.
HeldComing == [region |-> {}, class |-> {"region"}, device |-> {"region", "class"},
               cdev |-> {"region", "class", "device"}]
HeldGoing == [cdev |-> Registered, device |-> {"region", "class", "device"},
              class |-> {"region", "class"}, region |-> {"region"}]

Early == DOMAIN HeldComing

LoaderInv ==
    /\ module = "out" =>
          pc[Loader] = "idle" /\ held = {} /\ level = Dark /\ outputs = {} /\ Dark \in batch
    /\ module = "live" => pc[Loader] = "idle" /\ held = Registered \cup Mapped
    /\ module = "coming" =>
          \/ pc[Loader] \in Early \cup {"mapping"} /\ gpio = "NULL"
             /\ held = (IF pc[Loader] = "mapping" THEN Registered ELSE HeldComing[pc[Loader]])
             /\ level = Dark /\ outputs = {}
          \/ pc[Loader] \in {"outputs", "ready"} \cup Pins /\ held = Registered \cup Mapped
    /\ module = "going" =>
          /\ \/ pc[Loader] \in {"inputs", "mapping"} \cup Pins /\ held = Registered \cup Mapped
             \/ pc[Loader] \in Early /\ held = HeldGoing[pc[Loader]]
          /\ pc[Loader] = "green" => "red" \notin level
          /\ pc[Loader] = "blue" => {"red", "green"} \cap level = {}
          /\ pc[Loader] \notin Pins => level = Dark
          /\ pc[Loader] \notin Pins \cup {"inputs"} => outputs = {}
          /\ Dark \in batch
    /\ pc[Loader] \in Pins => buffer[Loader] = Dark
    /\ gpio = "NULL" => level = Dark /\ outputs = {} /\ Dark \in batch

WriterInv ==
    \A w \in Writers :
        /\ pc[w] \in {"idle", "write", "close"} \cup Pins
        /\ file[w] = "none" <=> pc[w] = "idle"
        /\ file[w] # "none" => "cdev" \in held /\ module \in {"coming", "live"}
        /\ file[w] = "MAP" => gpio = "MAP"
        /\ pc[w] \in Pins => file[w] = "MAP"

\* x is storing and has not come to pin p.
YetToStore(x, p) ==
    \/ pc[x] = "red"
    \/ pc[x] = "green" /\ p # "red"
    \/ pc[x] = "blue" /\ p = "blue"

AsWritten(p) == \E c \in batch : p \in level <=> p \in c

PinInv ==
    /\ \A x \in Parties : Storing(x) => buffer[x] \in batch
    /\ \A p \in Pins : AsWritten(p) \/ \E x \in Parties : YetToStore(x, p)

IInv == TypeOK /\ LoaderInv /\ WriterInv /\ PinInv

-----------------------------------------------------------------------------
(* Types.                                                                  *)

\* An acquisition of led_init works, or fails and releases what came before it.
LEMMA Acquiring ==
    ASSUME TypeOK, Acquire
    PROVE  /\ module = "coming"
           /\ \E r \in Early :
                 /\ pc[Loader] = r
                 /\ \/ /\ held' = held \cup {r}
                       /\ pc' = [pc EXCEPT ![Loader] = Following[r]]
                       /\ Following[r] \in Resources
                       /\ module' = module
                    \/ /\ held' = held \ Released[r]
                       /\ pc' = [pc EXCEPT ![Loader] = "idle"]
                       /\ module' = "out"
           /\ UNCHANGED <<gpio, file, buffer, level, outputs, batch>>
  BY DEF Acquire, Early, HeldComing, Following, Resources, Goto, users, pins

\* Every step keeps every variable in its range.
LEMMA StepTypes ==
    ASSUME TypeOK, [Next]_vars
    PROVE  TypeOK'
<1> USE LoaderAssumption DEF TypeOK, Goto, Step, Parties, Resources, users, pins
<1> Dark \in Colours
  BY DEF Colours
<1>1. CASE Insmod \/ MapRegisters \/ Ready \/ ConfigureInputs
  BY <1>1 DEF Insmod, MapRegisters, Ready, ConfigureInputs, SetGPIOFunction
<1>2. CASE ConfigureOutputs \/ Rmmod
  <2>1. batch' \subseteq Colours /\ buffer' \in [Parties -> Colours]
    BY <1>2 DEF ConfigureOutputs, Rmmod, Paint
  <2>2. pc' = [pc EXCEPT ![Loader] = "red"] /\ outputs' \subseteq Pins
    BY <1>2 DEF ConfigureOutputs, Rmmod, Paint, SetGPIOFunction
  <2>3. module' \in {module, "going"} /\ UNCHANGED <<held, gpio, file, level>>
    BY <1>2 DEF ConfigureOutputs, Rmmod
  <2> QED
    BY <2>1, <2>2, <2>3 DEF Pins
<1>3. CASE Acquire
  <2> PICK r \in Early :
          /\ held' \in {held \cup {r}, held \ Released[r]}
          /\ \/ pc' = [pc EXCEPT ![Loader] = Following[r]] /\ Following[r] \in Resources
             \/ pc' = [pc EXCEPT ![Loader] = "idle"]
    BY <1>3, Acquiring
  <2>1. pc' \in [Parties -> {"idle", "write", "close", "outputs", "ready", "inputs"}
                            \cup Pins \cup Resources]
    OBVIOUS
  <2>2. held' \subseteq Resources
    BY DEF Early, HeldComing
  <2>3. module' \in {module, "out"} /\ UNCHANGED <<gpio, file, buffer, level, outputs, batch>>
    BY <1>3, Acquiring
  <2> QED
    BY <2>1, <2>2, <2>3
<1>4. CASE Release
  <2> PICK r \in DOMAIN Preceding :
          pc' = [pc EXCEPT ![Loader] = Preceding[r]] /\ held' = held \ {r}
    BY <1>4 DEF Release
  <2>1. Preceding[r] \in {"idle"} \cup Resources
    BY DEF Preceding
  <2>2. module' \in {module, "out"} /\ UNCHANGED <<gpio, file, buffer, level, outputs, batch>>
    BY <1>4 DEF Release
  <2> QED
    BY <2>1, <2>2
<1>5. CASE \E x \in Parties : Store(x)
  <2> PICK x \in Parties : Store(x)
    BY <1>5
  <2>1. level' \subseteq Pins
    BY DEF Store, SetGPIOState
  <2>2. pc' \in [Parties -> {"idle", "write", "close", "outputs", "ready", "inputs"}
                            \cup Pins \cup Resources]
    BY DEF Store, AfterPins, Pins
  <2> QED
    BY <2>1, <2>2 DEF Store
<1>6. CASE \E w \in Writers : Open(w) \/ Close(w)
  BY <1>6 DEF Open, Close
<1>7. CASE \E w \in Writers : Write(w)
  BY <1>7 DEF Write, Paint, Pins
<1>8. CASE UNCHANGED vars
  BY <1>8 DEF vars
<1> QED
  BY <1>1, <1>2, <1>3, <1>4, <1>5, <1>6, <1>7, <1>8 DEF Next, Load, Unload

\* TypeOK: the loader, the writers and the pins stay in their ranges, whatever
\* led_init meets.
THEOREM TypeCorrect == Spec => []TypeOK
<1>1. Init => TypeOK
  BY DEF Init, TypeOK, Colours, Dark
<1>2. TypeOK /\ [Next]_vars => TypeOK'
  BY StepTypes
<1> QED
  BY <1>1, <1>2, PTL DEF Spec

-----------------------------------------------------------------------------
(* The loader.                                                             *)

\* The loader's part of the invariant under its own steps.
LEMMA LoaderSteps ==
    ASSUME TypeOK, LoaderInv, WriterInv, Load \/ Unload
    PROVE  LoaderInv'
<1> USE LoaderAssumption DEF TypeOK, LoaderInv, Goto, Step, Parties, users, pins, Early,
        HeldComing, HeldGoing, Registered, Mapped, Pins, Dark
<1>1. CASE Insmod
  BY <1>1 DEF Insmod
<1>2. CASE Acquire
  <2> PICK r \in Early :
          /\ pc[Loader] = r
          /\ \/ /\ held' = held \cup {r}
                /\ pc' = [pc EXCEPT ![Loader] = Following[r]]
                /\ module' = module
             \/ /\ held' = held \ Released[r]
                /\ pc' = [pc EXCEPT ![Loader] = "idle"]
                /\ module' = "out"
    BY <1>2, Acquiring
  <2>1. module = "coming" /\ UNCHANGED <<gpio, file, buffer, level, outputs, batch>>
    BY <1>2, Acquiring
  <2>2. gpio = "NULL" /\ held = HeldComing[r] /\ level = Dark /\ outputs = {}
    BY <2>1
  <2>3. CASE module' = module
    <3>1. held' = held \cup {r} /\ pc'[Loader] = Following[r] /\ module' = "coming"
      BY <2>1, <2>3
    <3>2. pc'[Loader] \in Early \cup {"mapping"}
          /\ held' = IF pc'[Loader] = "mapping" THEN Registered ELSE HeldComing[pc'[Loader]]
      BY <2>2, <3>1 DEF Following
    <3> QED
      BY <2>1, <2>2, <3>1, <3>2
  <2>4. CASE module' = "out"
    BY <2>1, <2>2, <2>4 DEF Released
  <2> QED
    BY <2>1, <2>3, <2>4
<1>3. CASE MapRegisters
  BY <1>3 DEF MapRegisters
<1>4. CASE ConfigureOutputs
  BY <1>4 DEF ConfigureOutputs, Paint, SetGPIOFunction
<1>5. CASE Ready
  BY <1>5 DEF Ready
<1>6. CASE Rmmod
  BY <1>6 DEF Rmmod, Paint, WriterInv, Storing
<1>7. CASE ConfigureInputs
  BY <1>7 DEF ConfigureInputs, SetGPIOFunction
<1>8. CASE Release
  BY <1>8 DEF Release, Preceding
<1> QED
  BY <1>1, <1>2, <1>3, <1>4, <1>5, <1>6, <1>7, <1>8 DEF Load, Unload

\* The loader's part of the invariant under a store to a pin.
LEMMA StoreKeepsLoader ==
    ASSUME TypeOK, LoaderInv, WriterInv, NEW x \in Parties, Store(x)
    PROVE  LoaderInv'
<1> USE LoaderAssumption DEF TypeOK, LoaderInv, Goto, Parties, users, Early,
        HeldComing, HeldGoing, Registered, Mapped, Pins, Dark
<1>1. CASE x = Loader
  BY <1>1 DEF Store, SetGPIOState, Pointer, AfterPins
<1>2. CASE x \in Writers
  <2>1. file[x] = "MAP" /\ gpio = "MAP" /\ module \in {"coming", "live"}
    BY <1>2 DEF WriterInv, Store
  <2>2. module = "coming" => pc[Loader] \notin Early \cup {"mapping"}
    BY <2>1
  <2>3. pc'[Loader] = pc[Loader] /\ UNCHANGED <<module, held, gpio, buffer, outputs, batch>>
    BY <1>2 DEF Store
  <2> QED
    BY <2>1, <2>2, <2>3
<1> QED
  BY <1>1, <1>2

\* The loader's part of the invariant under what else a writer does.
LEMMA WriterKeepsLoader ==
    ASSUME TypeOK, LoaderInv, WriterInv, NEW w \in Writers, Open(w) \/ Write(w) \/ Close(w)
    PROVE  LoaderInv'
<1>1. pc'[Loader] = pc[Loader] /\ buffer'[Loader] = buffer[Loader]
  BY LoaderAssumption DEF TypeOK, Parties, Open, Write, Close, Step, Goto, Paint
<1>2. UNCHANGED <<module, held, gpio, level, outputs>>
  BY DEF Open, Write, Close, pins
<1>3. Dark \in batch => Dark \in batch' \/ (gpio = "MAP" /\ module \in {"coming", "live"})
  BY DEF TypeOK, Open, Write, Close, Paint, WriterInv, Parties
<1>4. batch' # batch => module = "live" \/ (module = "coming" /\ pc[Loader] \notin Early)
  <2>1. batch' # batch => pc[w] = "write" /\ file[w] # "NULL"
    BY DEF Open, Write, Close, Paint
  <2>2. pc[w] = "write" /\ file[w] # "NULL" => module \in {"coming", "live"} /\ gpio = "MAP"
    BY DEF TypeOK, WriterInv
  <2>3. module = "coming" /\ gpio = "MAP" => pc[Loader] \notin Early
    BY DEF LoaderInv, Early, HeldComing, Pins
  <2> QED
    BY <2>1, <2>2, <2>3
<1> QED
  BY <1>1, <1>2, <1>3, <1>4 DEF LoaderInv, Mapped

-----------------------------------------------------------------------------
(* The writers.                                                            *)

\* The writers' part of the invariant: a file is opened only between cdev_add
\* and cleanup, which waits for the last close.
LEMMA StepWriters ==
    ASSUME TypeOK, LoaderInv, WriterInv, [Next]_vars
    PROVE  WriterInv'
<1> USE LoaderAssumption DEF TypeOK, Goto, Step, Parties, users, pins, Pins
<1>1. CASE Load \/ Unload
  <2>1. \A w \in Writers : pc'[w] = pc[w]
    BY <1>1 DEF Load, Unload, Insmod, Acquire, MapRegisters, ConfigureOutputs, Ready, Rmmod,
                ConfigureInputs, Release, Paint
  <2>2. UNCHANGED file
    BY <1>1 DEF Load, Unload, Insmod, Acquire, MapRegisters, ConfigureOutputs, Ready, Rmmod,
                ConfigureInputs, Release
  <2>3. ASSUME NEW w \in Writers, file[w] # "none"
        PROVE  "cdev" \in held' /\ module' \in {"coming", "live"}
    <3>1. module = "coming" => pc[Loader] \notin Early
      BY <2>3 DEF LoaderInv, WriterInv, Early, HeldComing
    <3>2. ~Insmod /\ ~Acquire /\ ~Rmmod /\ ~ConfigureInputs /\ ~Release
      BY <2>3, <3>1, Acquiring DEF LoaderInv, WriterInv, Insmod, Rmmod, ConfigureInputs, Release
    <3> QED
      BY <1>1, <2>3, <3>2 DEF WriterInv, Load, Unload, MapRegisters, ConfigureOutputs, Ready
  <2>4. ASSUME NEW w \in Writers, file[w] = "MAP"
        PROVE  gpio' = "MAP"
    <3>1. gpio = "MAP" /\ module \in {"coming", "live"}
      BY <2>4 DEF WriterInv
    <3>2. ~Insmod /\ ~MapRegisters
      BY <3>1 DEF Insmod, MapRegisters, LoaderInv
    <3> QED
      BY <1>1, <3>1, <3>2, Acquiring DEF Load, Unload, ConfigureOutputs, Ready, Rmmod,
         ConfigureInputs, Release
  <2> QED
    BY <2>1, <2>2, <2>3, <2>4 DEF WriterInv
<1>2. CASE \E x \in Parties : Store(x)
  BY <1>2 DEF WriterInv, Store, AfterPins
<1>3. CASE \E w \in Writers : Open(w) \/ Close(w)
  <2> PICK w \in Writers : Open(w) \/ Close(w)
    BY <1>3
  <2>1. UNCHANGED <<module, held, gpio>>
    BY DEF Open, Close
  <2>2. \A v \in Writers \ {w} : pc'[v] = pc[v] /\ file'[v] = file[v]
    BY DEF Open, Close
  <2>3. \/ pc'[w] = "idle" /\ file'[w] = "none"
        \/ pc'[w] = "write" /\ file'[w] = gpio /\ "cdev" \in held /\ module # "going"
    BY DEF Open, Close
  <2>4. "cdev" \in held => module # "out"
    BY DEF LoaderInv
  <2> QED
    BY <2>1, <2>2, <2>3, <2>4 DEF WriterInv
<1>4. CASE \E w \in Writers : Write(w)
  <2> PICK w \in Writers : Write(w)
    BY <1>4
  <2>1. UNCHANGED <<module, held, gpio, file>>
    BY DEF Write
  <2>2. \A v \in Writers \ {w} : pc'[v] = pc[v]
    BY DEF Write, Paint
  <2>3. pc[w] = "write" /\ (pc'[w] = "close" \/ (pc'[w] = "red" /\ file[w] # "NULL"))
    BY DEF Write, Paint
  <2> QED
    BY <2>1, <2>2, <2>3 DEF WriterInv
<1>5. CASE UNCHANGED vars
  BY <1>5 DEF vars, WriterInv
<1> QED
  BY <1>1, <1>2, <1>3, <1>4, <1>5 DEF Next

-----------------------------------------------------------------------------
(* The pins.                                                               *)

\* A step that neither begins, continues nor ends a write to the pins.
LEMMA QuietKeepsPins ==
    ASSUME PinInv, UNCHANGED <<buffer, level, batch>>,
           \A x \in Parties : pc[x] \in Pins \/ pc'[x] \in Pins => pc'[x] = pc[x]
    PROVE  PinInv'
<1>1. \A x \in Parties : Storing(x)' <=> Storing(x)
  BY DEF Storing
<1>2. \A x \in Parties, p \in Pins : YetToStore(x, p) => YetToStore(x, p)'
  BY DEF YetToStore, Pins
<1> QED
  BY <1>1, <1>2 DEF PinInv, AsWritten

\* A write begins: it has yet to store every pin.
LEMMA PaintKeepsPins ==
    ASSUME TypeOK, PinInv, NEW x \in Parties, NEW c \in Colours, Paint(x, c), level' = level
    PROVE  PinInv'
<1>1. pc' = [pc EXCEPT ![x] = "red"] /\ buffer' = [buffer EXCEPT ![x] = c] /\ c \in batch'
  BY DEF Paint, Goto
<1>2. ASSUME NEW y \in Parties, Storing(y)'
      PROVE  buffer'[y] \in batch'
  <2>1. CASE y = x
    BY <1>1, <2>1 DEF TypeOK
  <2>2. CASE y # x
    <3>1. Storing(y)
      BY <1>1, <1>2, <2>2 DEF Storing, TypeOK
    <3>2. batch' = batch \cup {c} /\ buffer[y] \in batch
      BY <3>1 DEF Paint, PinInv
    <3> QED
      BY <1>1, <2>2, <3>2 DEF TypeOK
  <2> QED
    BY <2>1, <2>2
<1>3. \A p \in Pins : YetToStore(x, p)'
  BY <1>1 DEF YetToStore, TypeOK
<1> QED
  BY <1>2, <1>3 DEF PinInv

\* A write comes to its next pin: that pin is now as the write wants it.
LEMMA StoreKeepsPins ==
    ASSUME TypeOK, LoaderInv, WriterInv, PinInv, NEW x \in Parties, Store(x)
    PROVE  PinInv'
<1> PICK p \in Pins :
        /\ pc[x] = p
        /\ SetGPIOState(p, buffer[x], Pointer(x))
        /\ pc' = [pc EXCEPT ![x] = CASE p = "red" -> "green" [] p = "green" -> "blue"
                                     [] OTHER -> AfterPins(x)]
  BY DEF Store, Goto
<1>1. UNCHANGED <<buffer, batch>> /\ buffer[x] \in batch
  BY DEF Store, users, PinInv, Storing
<1>2. \A y \in Parties : Storing(y)' => Storing(y)
  BY DEF Storing, TypeOK
<1>3. \A y \in Parties \ {x} : pc'[y] = pc[y]
  BY DEF TypeOK
<1>4. \A q \in Pins \ {p} : YetToStore(x, q) => YetToStore(x, q)'
  BY DEF YetToStore, TypeOK, Pins
<1>5. CASE Pointer(x) = "NULL"
  <2>1. x = Loader /\ gpio = "NULL"
    BY <1>5 DEF Pointer, WriterInv, Parties
  <2>2. level = Dark /\ Dark \in batch /\ level' = level
    BY <1>5, <2>1 DEF LoaderInv, SetGPIOState
  <2> QED
    BY <1>1, <1>2, <2>2 DEF PinInv, AsWritten, Dark
<1>6. CASE Pointer(x) # "NULL"
  <2>1. AsWritten(p)'
    BY <1>1, <1>6 DEF SetGPIOState, AsWritten
  <2>2. \A q \in Pins \ {p} : q \in level' <=> q \in level
    BY <1>6 DEF SetGPIOState
  <2>3. ASSUME NEW q \in Pins \ {p}
        PROVE  AsWritten(q)' \/ \E y \in Parties : YetToStore(y, q)'
    <3>1. CASE AsWritten(q)
      BY <1>1, <2>2, <3>1 DEF AsWritten
    <3>2. CASE \E y \in Parties : YetToStore(y, q)
      <4> PICK y \in Parties : YetToStore(y, q)
        BY <3>2
      <4>1. CASE y = x
        BY <1>4, <4>1
      <4>2. CASE y # x
        BY <1>3, <4>2 DEF YetToStore
      <4> QED
        BY <4>1, <4>2
    <3> QED
      BY <3>1, <3>2 DEF PinInv
  <2> QED
    BY <1>1, <1>2, <2>1, <2>3 DEF PinInv
<1> QED
  BY <1>5, <1>6

LEMMA StepPins ==
    ASSUME TypeOK, LoaderInv, WriterInv, PinInv, [Next]_vars
    PROVE  PinInv'
<1> USE LoaderAssumption DEF TypeOK, Goto, Step, Parties, users, pins, Pins
<1> Dark \in Colours
  BY DEF Colours
<1>1. CASE Insmod \/ MapRegisters \/ Ready \/ ConfigureInputs
  BY <1>1, QuietKeepsPins DEF Insmod, MapRegisters, Ready, ConfigureInputs
<1>2. CASE ConfigureOutputs \/ Rmmod
  BY <1>2, PaintKeepsPins DEF ConfigureOutputs, Rmmod
<1>3. CASE Acquire
  <2>1. pc[Loader] \notin Pins /\ pc'[Loader] \notin Pins
    BY <1>3, Acquiring DEF Early, HeldComing, Resources
  <2>2. \A w \in Writers : pc'[w] = pc[w]
    BY <1>3, Acquiring
  <2> QED
    BY <1>3, <2>1, <2>2, Acquiring, QuietKeepsPins
<1>4. CASE Release
  <2>1. pc[Loader] \notin Pins /\ pc'[Loader] \notin Pins
    BY <1>4 DEF Release, Preceding
  <2>2. \A w \in Writers : pc'[w] = pc[w]
    BY <1>4 DEF Release
  <2> QED
    BY <1>4, <2>1, <2>2, QuietKeepsPins DEF Release
<1>5. CASE \E x \in Parties : Store(x)
  BY <1>5, StoreKeepsPins
<1>6. CASE \E w \in Writers : Open(w) \/ Close(w)
  BY <1>6, QuietKeepsPins DEF Open, Close
<1>7. CASE \E w \in Writers : Write(w)
  <2> PICK w \in Writers : Write(w)
    BY <1>7
  <2>1. CASE \E c \in Colours : Paint(w, c)
    BY <2>1, PaintKeepsPins DEF Write
  <2>2. CASE Goto(w, "close") /\ UNCHANGED <<buffer, batch>>
    BY <2>2, QuietKeepsPins DEF Write
  <2> QED
    BY <2>1, <2>2 DEF Write
<1>8. CASE UNCHANGED vars
  BY <1>8, QuietKeepsPins DEF vars
<1> QED
  BY <1>1, <1>2, <1>3, <1>4, <1>5, <1>6, <1>7, <1>8 DEF Next, Load, Unload

-----------------------------------------------------------------------------
(* The invariant and what follows from it.                                 *)

LEMMA StepInv == IInv /\ [Next]_vars => IInv'
<1> SUFFICES ASSUME IInv, [Next]_vars
             PROVE  IInv'
  OBVIOUS
<1>1. TypeOK' /\ WriterInv' /\ PinInv'
  BY StepTypes, StepWriters, StepPins DEF IInv
<1>2. LoaderInv'
  <2>1. CASE UNCHANGED vars
    BY <2>1 DEF IInv, LoaderInv, vars, users, pins, Mapped
  <2> QED
    BY <2>1, LoaderSteps, StoreKeepsLoader, WriterKeepsLoader DEF IInv, Next
<1> QED
  BY <1>1, <1>2 DEF IInv

LEMMA Invariant == Spec => []IInv
<1>1. Init => IInv
  BY LoaderAssumption DEF Init, IInv, TypeOK, LoaderInv, WriterInv, PinInv, AsWritten, Storing,
     Parties, Pins, Colours, Dark
<1>2. IInv /\ [Next]_vars => IInv'
  BY StepInv
<1> QED
  BY <1>1, <1>2, PTL DEF Spec

\* StoresAreMapped: cleanup unmaps the registers after its own last store, and
\* no write is under way then, so none goes through a mapping that is gone.
THEOREM StoresAreMappedAlways == Spec => []StoresAreMapped
<1>1. IInv => StoresAreMapped
  <2> SUFFICES ASSUME IInv, NEW x \in Parties, Storing(x) \/ pc[x] \in {"outputs", "inputs"},
                      Pointer(x) # "NULL"
               PROVE  "mapping" \in held
    BY DEF StoresAreMapped
  <2>1. gpio = "MAP" /\ module # "out"
    BY DEF IInv, TypeOK, LoaderInv, WriterInv, Pointer, Parties, Storing, Pins
  <2>2. module \in {"coming", "going"} => pc[Loader] \notin Early \cup {"mapping"} \/ x # Loader
    BY DEF IInv, Storing, Early, HeldComing, Pins
  <2>3. CASE x = Loader
    BY <2>1, <2>2, <2>3 DEF IInv, TypeOK, LoaderInv, Mapped, Early, HeldComing
  <2>4. CASE x \in Writers
    BY <2>1, <2>4 DEF IInv, TypeOK, LoaderInv, WriterInv, Mapped, Storing, Pins
  <2> QED
    BY <2>3, <2>4 DEF Parties
<1> QED
  BY <1>1, Invariant, PTL

\* OpenFileKeepsModule: the only call of led_init that can fail comes before
\* the first open, and rmmod waits for the last close.
THEOREM OpenFileKeepsModuleAlways == Spec => []OpenFileKeepsModule
<1>1. IInv => OpenFileKeepsModule
  BY DEF IInv, WriterInv, OpenFileKeepsModule
<1> QED
  BY <1>1, Invariant, PTL

\* NothingIsLeft: every way out of led_init, and cleanup, release what was
\* acquired and leave the pins as they were found.
THEOREM NothingIsLeftAlways == Spec => []NothingIsLeft
<1>1. IInv => NothingIsLeft
  BY DEF IInv, LoaderInv, NothingIsLeft
<1> QED
  BY <1>1, Invariant, PTL

\* LampIsOfBatch: without a lock the three stores of writes that overlap mix,
\* but a write that meets no other leaves its colour.
THEOREM LampIsOfBatchAlways == Spec => []LampIsOfBatch
<1>1. IInv => LampIsOfBatch
  BY DEF IInv, PinInv, LampIsOfBatch, AsWritten, YetToStore, Storing, Pins
<1> QED
  BY <1>1, Invariant, PTL
=============================================================================
