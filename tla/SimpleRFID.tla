----------------------------- MODULE SimpleRFID -----------------------------
(***************************************************************************)
(* The card reader: SimpleRFID drives an MFRC522 chip over SPI, and the    *)
(* NFC thread asks it again and again whether a card is present and, if    *)
(* one is, for its UID.                                                    *)
(*                                                                         *)
(* The chip and the cards are those of the datasheet and of ISO 14443-3.   *)
(* A card answers a request unless it waits to be selected, and then it    *)
(* answers an anticollision command; any other frame sends it back to the  *)
(* start.  The chip's one FIFO takes what is to be sent and then what is   *)
(* received.  Noise spoils at most one byte that no error flag tells of,   *)
(* which the check byte of a UID finds.                                    *)
(*                                                                         *)
(* A byte is <<source, position>>: 0 for those of an ATQA, 1 .. 5 for      *)
(* those of a UID and its check byte.                                      *)
(***************************************************************************)
EXTENDS Naturals, Sequences

CONSTANTS
    Cards,      \* UIDs
    Host,       \* the source of what the program sends
    Noise       \* the source of a byte that was spoilt

ASSUME SourcesAssumption == Host \notin Cards /\ Noise \notin Cards \cup {Host}

VARIABLES
    pc,         \* what the NFC thread does next
    call,       \* "present" or "read": the command it exchanges
    framing,    \* BitFramingReg: 7 bits of the last byte are sent, or 0 for all
    fifo,       \* the chip's FIFO
    chip,       \* "idle", "air": an answer is awaited, or "over"
    irq,        \* CommIrqReg
    err,        \* ErrorReg has one of the flags 0x1B
    stored,     \* backData
    uid,        \* the UID read last, in this round
    field,      \* the cards in the field
    ready,      \* those that wait to be selected
    frame,      \* what the last frame meant to the cards
    heard,      \* those that heard it and answer
    stray,      \* ghost: since the interrupts were cleared, noise or an answer to the
                \* last frame was received
    calm        \* no noise any more, and the thread runs in time

host == <<pc, call, framing, stored, uid>>
device == <<fifo, chip, irq, err>>
outside == <<field, ready, frame, heard, stray, calm>>
vars == <<host, device, outside>>

NoUid == Host

Init ==
    /\ pc = "open" /\ call = "present" /\ framing = 0
    /\ stored = <<>> /\ uid = NoUid
    /\ fifo = <<>> /\ chip = "idle" /\ irq = {} /\ err = FALSE
    /\ field \in SUBSET Cards
    /\ ready = {} /\ frame = "nothing" /\ heard = {} /\ stray = FALSE /\ calm = FALSE

-----------------------------------------------------------------------------
(* The NFC thread.                                                         *)

Goto(from, to) == pc = from /\ pc' = to

\* The constructor: the device opens and is configured, or the thread ends.
Open ==
    /\ Goto("open", "ask") \/ Goto("open", "done")
    /\ UNCHANGED <<call, framing, stored, uid, device, outside>>

\* isCardPresent: a frame of 7 bits.
AskPresent ==
    /\ Goto("ask", "clear")
    /\ call' = "present" /\ framing' = 7 /\ stored' = <<>> /\ uid' = NoUid
    /\ UNCHANGED <<device, outside>>

\* Mutant of AskUid: BitFramingReg stays as isCardPresent has set it.
AskUidFramed ==
    /\ Goto("ask uid", "clear")
    /\ call' = "read" /\ stored' = <<>>
    /\ UNCHANGED <<framing, uid, device, outside>>

\* readCardUID: whole bytes.
AskUid ==
    /\ Goto("ask uid", "clear")
    /\ call' = "read" /\ framing' = 0 /\ stored' = <<>>
    /\ UNCHANGED <<uid, device, outside>>

\* Mutant of ClearIrq: the interrupts of the last exchange stay.
ClearNothing ==
    /\ Goto("clear", "flush")
    /\ stray' = FALSE
    /\ UNCHANGED <<call, framing, stored, uid, device, field, ready, frame, heard, calm>>

\* communicateCard: the interrupts are cleared, ...
ClearIrq ==
    /\ Goto("clear", "flush")
    /\ irq' = {} /\ stray' = FALSE
    /\ UNCHANGED <<call, framing, stored, uid, fifo, chip, err, field, ready, frame, heard, calm>>

\* ... then the FIFO is flushed, ...
Flush ==
    /\ Goto("flush", "idle")
    /\ fifo' = <<>>
    /\ UNCHANGED <<call, framing, stored, uid, chip, irq, err, outside>>

\* ... and only then the chip stops to receive.
Idle ==
    /\ Goto("idle", "send")
    /\ chip' = "idle"
    /\ UNCHANGED <<call, framing, stored, uid, fifo, irq, err, outside>>

\* REQA, and the two bytes of the anticollision command.
Command == IF call = "present" THEN <<<<Host, 0>>>> ELSE <<<<Host, 1>>, <<Host, 2>>>>

\* What a card makes of a frame.
Meant(f, bits) ==
    IF f = <<<<Host, 0>>>> /\ bits = 7 THEN "request"
    ELSE IF f = <<<<Host, 1>>, <<Host, 2>>>> /\ bits = 0 THEN "anticollision" ELSE "nothing"

\* The FIFO is filled, and sent whole.
Send ==
    /\ Goto("send", "poll")
    /\ frame' = Meant(fifo \o Command, framing)
    /\ heard' = CASE frame' = "request" -> field \ ready
                  [] frame' = "anticollision" -> ready
                  [] OTHER -> {}
    /\ ready' = heard'
    /\ fifo' = <<>> /\ chip' = "air" /\ err' = FALSE
    /\ UNCHANGED <<call, framing, stored, uid, irq, field, stray, calm>>

\* The exchange is over; the NFC thread goes on to readCardUID or asks again.
Return(from, ok) == Goto(from, IF ok /\ call = "present" THEN "ask uid" ELSE "ask")

\* CommIrqReg is read: an answer, or the chip's timer.
Poll ==
    /\ \/ "rx" \in irq /\ Goto("poll", "check")
       \/ "rx" \notin irq /\ "timer" \in irq /\ Return("poll", FALSE)
    /\ UNCHANGED <<call, framing, stored, uid, device, outside>>

\* 25 ms have passed since the thread last saw it, unset: the chip, whose timer
\* takes 15, is done by then.
GiveUp ==
    /\ chip = "over" /\ ~calm
    /\ Return("poll", FALSE)
    /\ UNCHANGED <<call, framing, stored, uid, device, outside>>

Check ==
    /\ \/ err /\ Return("check", FALSE)
       \/ ~err /\ Goto("check", "fetch")
    /\ UNCHANGED <<call, framing, stored, uid, device, outside>>

Capacity == IF call = "present" THEN 2 ELSE 5

\* The bytes of a card's answer.
AtqaOf(c) == <<<<c, 0>>, <<c, 0>>>>
UidOf(c) == <<<<c, 1>>, <<c, 2>>, <<c, 3>>, <<c, 4>>, <<c, 5>>>>

\* Mutant of Fetch: the check byte is not compared, so a spoilt UID is taken.
FetchUnchecked ==
    /\ Return("fetch", TRUE)
    /\ LET n == IF Len(fifo) > Capacity THEN Capacity ELSE Len(fifo) IN
          /\ stored' = SubSeq(fifo, 1, n)
          /\ fifo' = SubSeq(fifo, n + 1, Len(fifo))
    /\ uid' = IF call = "present" \/ Len(stored') < 5 THEN NoUid
              ELSE IF \E c \in Cards : stored' = UidOf(c)
                   THEN CHOOSE c \in Cards : stored' = UidOf(c) ELSE Noise
    /\ UNCHANGED <<call, framing, chip, irq, err, outside>>

\* As many bytes as there is room for; readCardUID wants five whose check byte fits.
Fetch ==
    /\ Return("fetch", TRUE)
    /\ LET n == IF Len(fifo) > Capacity THEN Capacity ELSE Len(fifo) IN
          /\ stored' = SubSeq(fifo, 1, n)
          /\ fifo' = SubSeq(fifo, n + 1, Len(fifo))
    /\ uid' = IF \E c \in Cards : call = "read" /\ stored' = UidOf(c)
              THEN CHOOSE c \in Cards : stored' = UidOf(c) ELSE NoUid
    /\ UNCHANGED <<call, framing, chip, irq, err, outside>>

-----------------------------------------------------------------------------
(* The chip and the cards.                                                 *)

\* What the cards that heard the frame send.
Sent(c) == IF frame = "request" THEN AtqaOf(c) ELSE UidOf(c)

\* An answer on its way: cut short, one byte spoilt, or one too many.
Spoilt(s) ==
    {SubSeq(s, 1, n) : n \in 0 .. Len(s) - 1}
        \cup {[s EXCEPT ![i] = <<Noise, 0>>] : i \in DOMAIN s}
        \cup {Append(s, <<Noise, 0>>)}

Receive(bytes, flag) ==
    /\ chip' = "over"
    /\ fifo' = fifo \o bytes
    /\ err' = flag
    /\ irq' = irq \cup {"rx"}

\* One card is received well or badly; two, whose UIDs differ, collide; none, or
\* one too weak, lets the timer run out.
Answer ==
    /\ chip = "air"
    /\ \/ \E c \in heard : (heard = {c} \/ frame = "request") /\ Receive(Sent(c), FALSE)
       \/ (\E c, d \in heard : c # d) /\ Receive(<<>>, TRUE)
       \/ /\ ~calm
          /\ \E c \in heard, flag \in BOOLEAN :
                heard = {c} /\ \E s \in Spoilt(Sent(c)) : Receive(s, flag)
       \/ /\ heard = {} \/ ~calm
          /\ chip' = "over" /\ irq' = irq \cup {"timer"}
          /\ UNCHANGED <<fifo, err>>
    /\ stray' = (stray \/ pc \in {"flush", "idle"})
    /\ UNCHANGED <<host, field, ready, frame, heard, calm>>

\* Nothing has answered, the receiver is still on, and takes noise for a frame.
Disturb ==
    /\ chip = "over" /\ ~calm /\ ~stray
    /\ "rx" \notin irq
    /\ \E flag \in BOOLEAN : Receive(<<<<Noise, 0>>>>, flag)
    /\ stray' = TRUE
    /\ UNCHANGED <<host, field, ready, frame, heard, calm>>

\* Cards are laid on the reader and taken away.
Move ==
    /\ \/ \E c \in Cards \ field : field' = field \cup {c}
       \/ \E c \in field : field' = field \ {c}
    /\ ready' = ready \cap field'
    /\ UNCHANGED <<host, device, frame, heard, stray, calm>>

\* The noise is over, in an exchange that is not one answer behind: one that is
\* might stay so, taking each time the late answer for that to its own frame.
CalmDown ==
    /\ ~calm /\ calm' = TRUE
    /\ pc = "poll" /\ irq = {}
    /\ UNCHANGED <<host, device, field, ready, frame, heard, stray>>

-----------------------------------------------------------------------------
Reading == Open \/ AskPresent \/ AskUid \/ ClearIrq \/ Flush \/ Idle \/ Send \/ Poll
           \/ Check \/ Fetch

Next == Reading \/ GiveUp \/ Answer \/ Disturb \/ Move \/ CalmDown

\* The NFC thread runs and the chip works.
Fairness == WF_vars(Reading) /\ WF_vars(Answer)

Spec == Init /\ [][Next]_vars /\ Fairness

-----------------------------------------------------------------------------
(* Properties.                                                             *)

Bytes == (Cards \cup {Host, Noise}) \X (0 .. 5)

TypeOK ==
    /\ pc \in {"open", "ask", "ask uid", "clear", "flush", "idle", "send", "poll", "check",
               "fetch", "done"}
    /\ call \in {"present", "read"}
    /\ framing \in {0, 7}
    /\ fifo \in Seq(Bytes)
    /\ chip \in {"idle", "air", "over"}
    /\ irq \in SUBSET {"rx", "timer"}
    /\ err \in BOOLEAN
    /\ stored \in Seq(Bytes) /\ Len(stored) <= 5
    /\ uid \in Cards \cup {NoUid}
    /\ field \in SUBSET Cards /\ ready \in SUBSET field
    /\ frame \in {"nothing", "request", "anticollision"}
    /\ heard \in SUBSET Cards
    /\ stray \in BOOLEAN /\ calm \in BOOLEAN

\* A UID is that of the one card that answered this anticollision command: never
\* one left over from an earlier exchange, pieced together or spoilt, nor one of
\* two cards in the field.
UidIsGenuine == uid # NoUid => heard = {uid}

\* An exchange succeeds only if a card answered this frame, unless noise, or an
\* answer to the last frame, comes after the interrupts have been cleared.
AnswerIsOwn == pc \in {"fetch", "ask uid"} => heard # {} \/ stray

\* Once the noise is over, a card that lies alone on the reader is read, again
\* and again, though after each time it does not answer the next request.
CardIsRead == \A c \in Cards : <>[](calm /\ field = {c} /\ pc # "done") => []<>(uid = c)
=============================================================================
