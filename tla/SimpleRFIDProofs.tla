-------------------------- MODULE SimpleRFIDProofs --------------------------
(***************************************************************************)
(* Proofs about SimpleRFID, for any number of cards.                       *)
(*                                                                         *)
(* Own says when an interrupt can be one of this exchange; Carried says    *)
(* that between the sending of a command and the reading of the FIFO only  *)
(* an answer to that command can make a UID there.                         *)
(***************************************************************************)
EXTENDS SimpleRFID, SequenceTheorems, TLAPS

\* The first five bytes of s are those of card c.
IsUid(s, c) == Len(s) >= 5 /\ \A i \in 1 .. 5 : s[i] = <<c, i>>

Own ==
    /\ pc = "send" => chip = "idle"
    /\ pc \in {"flush", "idle", "send"} /\ "rx" \in irq => stray
    /\ pc = "poll" /\ "rx" \in irq => stray \/ heard # {}
    /\ pc \in {"check", "fetch", "ask uid"} => stray \/ heard # {}

Carried ==
    /\ pc # "ask" => uid = NoUid
    /\ pc \in {"poll", "check", "fetch"} =>
          /\ chip = "air" \/ "rx" \notin irq => fifo = <<>>
          /\ \A c \in Cards : IsUid(fifo, c) => heard = {c}
    /\ uid # NoUid => heard = {uid}

IInv == TypeOK /\ Own /\ Carried

-----------------------------------------------------------------------------
(* Bytes.                                                                  *)

LEMMA ByteTypes ==
    /\ <<Noise, 0>> \in Bytes
    /\ \A c \in Cards : \A i \in 0 .. 5 : <<c, i>> \in Bytes
    /\ \A c \in Cards : <<Noise, 0>> # <<c, 0>>
  BY SourcesAssumption DEF Bytes

LEMMA SentTypes ==
    ASSUME NEW c \in Cards
    PROVE  /\ AtqaOf(c) \in Seq(Bytes) /\ Len(AtqaOf(c)) = 2
           /\ UidOf(c) \in Seq(Bytes) /\ Len(UidOf(c)) = 5
           /\ \A i \in 1 .. 5 : UidOf(c)[i] = <<c, i>>
<1>1. AtqaOf(c) \in Seq(Bytes) /\ Len(AtqaOf(c)) = 2
  <2>1. <<c, 0>> \in Bytes
    BY DEF Bytes
  <2> QED BY <2>1 DEF AtqaOf
<1>2. UidOf(c) \in Seq(Bytes) /\ Len(UidOf(c)) = 5
  <2>1. /\ <<c, 1>> \in Bytes /\ <<c, 2>> \in Bytes /\ <<c, 3>> \in Bytes
        /\ <<c, 4>> \in Bytes /\ <<c, 5>> \in Bytes
    BY DEF Bytes
  <2> QED BY <2>1 DEF UidOf
<1>3. \A i \in 1 .. 5 : UidOf(c)[i] = <<c, i>>
  BY DEF UidOf
<1> QED BY <1>1, <1>2, <1>3

\* Whatever comes of an answer, it makes no UID but its sender's.
LEMMA AnswerBytes ==
    ASSUME NEW c \in Cards, NEW s, s = Sent(c) \/ s \in Spoilt(Sent(c))
    PROVE  /\ s \in Seq(Bytes)
           /\ \A d \in Cards : IsUid(s, d) => d = c /\ frame # "request"
<1> DEFINE w == Sent(c)
<1>1. /\ w \in Seq(Bytes)
      /\ frame = "request" => Len(w) = 2
      /\ frame # "request" => Len(w) = 5 /\ \A i \in 1 .. 5 : w[i] = <<c, i>>
  BY SentTypes DEF Sent
<1>2. CASE s = w
  BY <1>1, <1>2 DEF IsUid
<1>3. CASE \E n \in 0 .. Len(w) - 1 : s = SubSeq(w, 1, n)
  <2>1. PICK n \in 0 .. Len(w) - 1 : s = SubSeq(w, 1, n)
    BY <1>3
  <2>2. \A i \in 1 .. n : w[i] \in Bytes
    BY <1>1
  <2>3. s \in Seq(Bytes) /\ Len(s) = n
    BY <1>1, <2>1, <2>2, SubSeqProperties
  <2>4. Len(s) < 5
    BY <1>1, <2>3
  <2> QED BY <2>3, <2>4 DEF IsUid
<1>4. CASE \E i \in DOMAIN w : s = [w EXCEPT ![i] = <<Noise, 0>>]
  <2>1. PICK i \in DOMAIN w : s = [w EXCEPT ![i] = <<Noise, 0>>]
    BY <1>4
  <2>2. s \in Seq(Bytes) /\ Len(s) = Len(w)
    BY <1>1, <2>1, ByteTypes
  <2>3. i \in 1 .. Len(w) /\ s[i] = <<Noise, 0>>
    BY <1>1, <2>1
  <2>4. ASSUME NEW d \in Cards, IsUid(s, d)
        PROVE  FALSE
    <3>1. frame # "request" /\ i \in 1 .. 5
      BY <1>1, <2>2, <2>3, <2>4 DEF IsUid
    <3>2. s[i] = <<d, i>>
      BY <2>4, <3>1 DEF IsUid
    <3> QED BY <2>3, <3>1, <3>2
  <2> QED BY <2>2, <2>4
<1>5. CASE s = Append(w, <<Noise, 0>>)
  <2>1. /\ s \in Seq(Bytes) /\ Len(s) = Len(w) + 1
        /\ \A i \in 1 .. Len(w) : s[i] = w[i]
    BY <1>1, <1>5, ByteTypes
  <2>2. ASSUME NEW d \in Cards, IsUid(s, d)
        PROVE  d = c /\ frame # "request"
    <3>1. frame # "request" /\ Len(w) = 5
      BY <1>1, <2>1, <2>2 DEF IsUid
    <3>2. s[1] = <<c, 1>> /\ s[1] = <<d, 1>>
      BY <1>1, <2>1, <2>2, <3>1 DEF IsUid
    <3> QED BY <3>1, <3>2
  <2> QED BY <2>1, <2>2
<1> QED BY <1>2, <1>3, <1>4, <1>5 DEF Spoilt

\* What the chip receives: a frame or nothing, and what a UID in it would mean.
Brings(bytes) ==
    /\ bytes \in Seq(Bytes)
    /\ fifo' = fifo \o bytes
    /\ \/ irq' = irq \cup {"rx"} /\ (heard # {} \/ stray')
       \/ irq' = irq \cup {"timer"} /\ bytes = <<>>
    /\ \A c \in Cards : IsUid(bytes, c) => heard = {c}

LEMMA Received ==
    ASSUME TypeOK, Answer \/ Disturb
    PROVE  /\ \E bytes : Brings(bytes)
           /\ chip' = "over" /\ err' \in BOOLEAN
           /\ stray' \in BOOLEAN /\ (stray \/ pc \in {"flush", "idle"} => stray')
           /\ UNCHANGED <<host, field, ready, frame, heard, calm>>
<1>1. fifo \in Seq(Bytes) /\ stray \in BOOLEAN /\ err \in BOOLEAN /\ heard \subseteq Cards
  BY DEF TypeOK
<1>2. <<>> \in Seq(Bytes) /\ \A c \in Cards : ~IsUid(<<>>, c)
  BY DEF IsUid
<1>3. fifo \o <<>> = fifo
  BY <1>1, ConcatEmptySeq
<1>4. CASE Disturb
  <2>1. <<<<Noise, 0>>>> \in Seq(Bytes) /\ Len(<<<<Noise, 0>>>>) = 1
    BY ByteTypes
  <2>2. Brings(<<<<Noise, 0>>>>)
    BY <1>4, <2>1 DEF Brings, Disturb, Receive, IsUid
  <2> QED BY <1>4, <2>2 DEF Disturb, Receive
<1>5. CASE Answer
  <2>1. /\ stray' = (stray \/ pc \in {"flush", "idle"})
        /\ UNCHANGED <<host, field, ready, frame, heard, calm>>
    BY <1>5 DEF Answer
  <2>2. CASE \E c \in heard : (heard = {c} \/ frame = "request") /\ Receive(Sent(c), FALSE)
    <3>1. PICK c \in heard : (heard = {c} \/ frame = "request") /\ Receive(Sent(c), FALSE)
      BY <2>2
    <3>2. Brings(Sent(c))
      BY <1>1, <3>1, AnswerBytes DEF Brings, Receive
    <3> QED BY <1>1, <2>1, <3>1, <3>2 DEF Receive
  <2>3. CASE (\E c, d \in heard : c # d) /\ Receive(<<>>, TRUE)
    <3>1. Brings(<<>>)
      BY <1>2, <2>3 DEF Brings, Receive
    <3> QED BY <1>1, <2>1, <2>3, <3>1 DEF Receive
  <2>4. CASE \E c \in heard, flag \in BOOLEAN :
                heard = {c} /\ \E s \in Spoilt(Sent(c)) : Receive(s, flag)
    <3>1. PICK c \in heard, flag \in BOOLEAN :
              heard = {c} /\ \E s \in Spoilt(Sent(c)) : Receive(s, flag)
      BY <2>4
    <3>2. PICK s \in Spoilt(Sent(c)) : Receive(s, flag)
      BY <3>1
    <3>3. Brings(s)
      BY <1>1, <3>1, <3>2, AnswerBytes DEF Brings, Receive
    <3> QED BY <1>1, <2>1, <3>1, <3>2, <3>3 DEF Receive
  <2>5. CASE chip' = "over" /\ irq' = irq \cup {"timer"} /\ UNCHANGED <<fifo, err>>
    <3>1. Brings(<<>>)
      BY <1>2, <1>3, <2>5 DEF Brings
    <3> QED BY <1>1, <2>1, <2>5, <3>1
  <2> QED BY <1>5, <2>2, <2>3, <2>4, <2>5 DEF Answer
<1> QED BY <1>4, <1>5

-----------------------------------------------------------------------------
(* The invariant.                                                          *)

\* What Fetch stores.
LEMMA Stored ==
    ASSUME TypeOK, Fetch
    PROVE  /\ stored' \in Seq(Bytes) /\ fifo' \in Seq(Bytes)
           /\ Len(stored') <= Capacity /\ Capacity \in {2, 5}
           /\ uid' \in Cards \cup {NoUid}
           /\ uid' # NoUid => uid' \in Cards /\ call = "read" /\ IsUid(fifo, uid')
<1> DEFINE n == IF Len(fifo) > Capacity THEN Capacity ELSE Len(fifo)
<1>1. fifo \in Seq(Bytes) /\ Len(fifo) \in Nat /\ \A i \in 1 .. Len(fifo) : fifo[i] \in Bytes
  <2>1. fifo \in Seq(Bytes)
    BY DEF TypeOK
  <2> QED BY <2>1, LenProperties, ElementOfSeq
<1>2. Capacity \in {2, 5}
  BY DEF Capacity
<1>3. n \in Nat /\ n <= Len(fifo) /\ n <= Capacity
  BY <1>1, <1>2
<1>4. /\ stored' = SubSeq(fifo, 1, n)
      /\ fifo' = SubSeq(fifo, n + 1, Len(fifo))
      /\ uid' = IF \E c \in Cards : call = "read" /\ stored' = UidOf(c)
                THEN CHOOSE c \in Cards : stored' = UidOf(c) ELSE NoUid
  BY DEF Fetch
<1>5. /\ stored' \in Seq(Bytes) /\ Len(stored') = n
      /\ \A i \in 1 .. n : stored'[i] = fifo[i]
  BY <1>1, <1>3, <1>4, SubSeqProperties
<1>6. fifo' \in Seq(Bytes)
  <2>1. \A i \in n + 1 .. Len(fifo) : fifo[i] \in Bytes
    BY <1>1, <1>3
  <2>2. n + 1 \in Int /\ Len(fifo) \in Int
    BY <1>1, <1>3
  <2> QED BY <1>4, <2>1, <2>2, SubSeqProperties
<1>7. CASE \E c \in Cards : call = "read" /\ stored' = UidOf(c)
  <2>1. uid' \in Cards /\ stored' = UidOf(uid') /\ call = "read"
    BY <1>4, <1>7
  <2>2. Len(stored') = 5 /\ \A i \in 1 .. 5 : stored'[i] = <<uid', i>>
    <3>1. PICK c \in Cards : c = uid'
      BY <2>1
    <3> QED BY <2>1, <3>1, SentTypes
  <2>3. n = 5
    BY <1>5, <2>2
  <2>4. IsUid(fifo, uid')
    BY <1>1, <1>3, <1>5, <2>2, <2>3 DEF IsUid
  <2> QED BY <1>2, <1>3, <1>5, <1>6, <2>1, <2>4
<1>8. CASE ~\E c \in Cards : call = "read" /\ stored' = UidOf(c)
  BY <1>2, <1>3, <1>4, <1>5, <1>6, <1>8
<1> QED BY <1>7, <1>8

\* The control state of host and chip.
LEMMA ControlTypes ==
    ASSUME TypeOK, [Next]_vars
    PROVE  /\ pc' \in {"open", "ask", "ask uid", "clear", "flush", "idle", "send", "poll",
                       "check", "fetch", "done"}
           /\ call' \in {"present", "read"}
           /\ framing' \in {0, 7}
           /\ chip' \in {"idle", "air", "over"}
           /\ frame' \in {"nothing", "request", "anticollision"}
           /\ err' \in BOOLEAN /\ stray' \in BOOLEAN /\ calm' \in BOOLEAN
<1>1. /\ pc \in {"open", "ask", "ask uid", "clear", "flush", "idle", "send", "poll",
                 "check", "fetch", "done"}
      /\ call \in {"present", "read"}
      /\ framing \in {0, 7}
      /\ chip \in {"idle", "air", "over"}
      /\ frame \in {"nothing", "request", "anticollision"}
      /\ err \in BOOLEAN /\ stray \in BOOLEAN /\ calm \in BOOLEAN
  BY DEF TypeOK
<1>2. CASE Open \/ Poll \/ GiveUp \/ Check
  BY <1>1, <1>2 DEF Open, Poll, GiveUp, Check, Goto, Return, device, outside
<1>3. CASE AskPresent \/ AskUid \/ ClearIrq \/ Flush \/ Idle
  BY <1>1, <1>3 DEF AskPresent, AskUid, ClearIrq, Flush, Idle, Goto, device, outside
<1>4. CASE Send
  BY <1>1, <1>4 DEF Send, Goto, Meant
<1>5. CASE Fetch
  BY <1>1, <1>5 DEF Fetch, Return, Goto, outside
<1>6. CASE Answer \/ Disturb
  BY <1>1, <1>6, Received DEF host
<1>7. CASE Move \/ CalmDown \/ UNCHANGED vars
  BY <1>1, <1>7 DEF Move, CalmDown, vars, host, device, outside
<1> QED BY <1>2, <1>3, <1>4, <1>5, <1>6, <1>7 DEF Next, Reading

\* The bytes in the chip and in the host's buffer.
LEMMA ByteStep ==
    ASSUME TypeOK, [Next]_vars
    PROVE  /\ fifo' \in Seq(Bytes)
           /\ stored' \in Seq(Bytes) /\ Len(stored') <= 5
           /\ uid' \in Cards \cup {NoUid}
<1>1. fifo \in Seq(Bytes) /\ stored \in Seq(Bytes) /\ Len(stored) <= 5 /\ uid \in Cards \cup {NoUid}
  BY DEF TypeOK
<1>2. <<>> \in Seq(Bytes) /\ Len(<<>>) <= 5
  BY EmptySeq
<1>3. CASE AskPresent \/ AskUid
  BY <1>1, <1>2, <1>3 DEF AskPresent, AskUid, device
<1>4. CASE Flush \/ Send
  BY <1>1, <1>2, <1>4 DEF Flush, Send
<1>5. CASE Fetch
  <2>1. Len(stored') \in Nat /\ Len(stored') <= Capacity /\ Capacity \in {2, 5}
    BY <1>5, Stored, LenProperties
  <2> QED BY <1>5, <2>1, Stored
<1>6. CASE Answer \/ Disturb
  <2>1. PICK bytes : Brings(bytes)
    BY <1>6, Received
  <2>2. fifo' \in Seq(Bytes)
    BY <1>1, <2>1 DEF Brings
  <2> QED BY <1>1, <1>6, <2>2, Received DEF host
<1>7. CASE Open \/ Poll \/ GiveUp \/ Check
  BY <1>1, <1>7 DEF Open, Poll, GiveUp, Check, device
<1>8. CASE ClearIrq \/ Idle \/ Move \/ CalmDown \/ UNCHANGED vars
  BY <1>1, <1>8 DEF ClearIrq, Idle, Move, CalmDown, vars, host, device
<1> QED BY <1>3, <1>4, <1>5, <1>6, <1>7, <1>8 DEF Next, Reading

\* The interrupts and the cards.
LEMMA SetStep ==
    ASSUME TypeOK, [Next]_vars
    PROVE  /\ irq' \subseteq {"rx", "timer"}
           /\ field' \subseteq Cards /\ ready' \subseteq field' /\ heard' \subseteq Cards
<1>1. /\ irq \subseteq {"rx", "timer"}
      /\ field \subseteq Cards /\ ready \subseteq field /\ heard \subseteq Cards
  BY DEF TypeOK
<1>2. CASE Open \/ Poll \/ GiveUp \/ Check \/ AskPresent \/ AskUid
  BY <1>1, <1>2 DEF Open, Poll, GiveUp, Check, AskPresent, AskUid, device, outside
<1>3. CASE ClearIrq \/ Flush \/ Idle \/ Fetch
  BY <1>1, <1>3 DEF ClearIrq, Flush, Idle, Fetch, outside
<1>4. CASE Send
  <2>1. heard' \subseteq field /\ ready' = heard' /\ UNCHANGED <<irq, field>>
    BY <1>1, <1>4 DEF Send
  <2> QED BY <1>1, <2>1
<1>5. CASE Answer \/ Disturb
  <2>1. PICK bytes : Brings(bytes)
    BY <1>5, Received
  <2>2. irq' = irq \cup {"rx"} \/ irq' = irq \cup {"timer"}
    BY <2>1 DEF Brings
  <2> QED BY <1>1, <1>5, <2>2, Received
<1>6. CASE Move
  BY <1>1, <1>6 DEF Move, device
<1>7. CASE CalmDown \/ UNCHANGED vars
  BY <1>1, <1>7 DEF CalmDown, vars, device, outside
<1> QED BY <1>2, <1>3, <1>4, <1>5, <1>6, <1>7 DEF Next, Reading

LEMMA TypeStep ==
    ASSUME TypeOK, [Next]_vars
    PROVE  TypeOK'
  BY ControlTypes, ByteStep, SetStep, Zenon DEF TypeOK

LEMMA OwnStep ==
    ASSUME TypeOK, Own, [Next]_vars
    PROVE  Own'
<1> USE DEF Own
<1>1. CASE Open \/ Poll \/ GiveUp \/ Check \/ AskPresent \/ AskUid
  BY <1>1 DEF Open, Poll, GiveUp, Check, AskPresent, AskUid, Goto, Return, device, outside
<1>2. CASE ClearIrq \/ Flush \/ Idle
  BY <1>2 DEF ClearIrq, Flush, Idle, Goto, outside
<1>3. CASE Send
  BY <1>3 DEF Send, Goto
<1>4. CASE Fetch
  BY <1>4 DEF Fetch, Return, Goto, outside
<1>5. CASE Answer \/ Disturb
  <2>1. PICK bytes : Brings(bytes)
    BY <1>5, Received
  <2>2. UNCHANGED <<pc, heard>> /\ chip' = "over" /\ (stray => stray')
        /\ (pc \in {"flush", "idle"} => stray')
    BY <1>5, Received DEF host
  <2>3. pc # "send"
    BY <1>5 DEF Answer, Disturb
  <2>4. "rx" \in irq' => "rx" \in irq \/ heard # {} \/ stray'
    <3>1. \/ irq' = irq \cup {"rx"} /\ (heard # {} \/ stray')
          \/ irq' = irq \cup {"timer"}
      BY <2>1 DEF Brings
    <3>2. ASSUME irq' = irq \cup {"timer"}, "rx" \in irq'
          PROVE  "rx" \in irq
      <4>1. "rx" # "timer"
        OBVIOUS
      <4> QED BY <3>2, <4>1
    <3> QED BY <3>1, <3>2, Zenon
  <2> QED BY <2>2, <2>3, <2>4
<1>6. CASE Move \/ CalmDown \/ UNCHANGED vars
  BY <1>6 DEF Move, CalmDown, vars, host, device, outside
<1> QED BY <1>1, <1>2, <1>3, <1>4, <1>5, <1>6 DEF Next, Reading

LEMMA CarriedStep ==
    ASSUME TypeOK, Own, Carried, [Next]_vars
    PROVE  Carried'
<1> USE DEF Carried
<1>1. CASE Open \/ Poll \/ GiveUp \/ Check \/ AskPresent \/ AskUid
  BY <1>1 DEF Open, Poll, GiveUp, Check, AskPresent, AskUid, Goto, Return, device, outside
<1>2. CASE ClearIrq \/ Flush \/ Idle
  BY <1>2 DEF ClearIrq, Flush, Idle, Goto, outside
<1>3. CASE Send
  <2>1. \A c \in Cards : ~IsUid(<<>>, c)
    BY DEF IsUid
  <2>2. fifo' = <<>> /\ pc = "send" /\ pc' = "poll" /\ uid' = uid
    BY <1>3 DEF Send, Goto
  <2> QED BY <2>1, <2>2
<1>4. CASE Fetch
  <2>1. pc = "fetch" /\ pc' = (IF call = "present" THEN "ask uid" ELSE "ask") /\ heard' = heard
    BY <1>4 DEF Fetch, Return, Goto, outside
  <2>2. uid' # NoUid => uid' \in Cards /\ call = "read" /\ IsUid(fifo, uid')
    BY <1>4, Stored
  <2>3. \A c \in Cards : IsUid(fifo, c) => heard = {c}
    BY <2>1
  <2> QED BY <2>1, <2>2, <2>3
<1>5. CASE Answer \/ Disturb
  <2>1. PICK bytes : Brings(bytes)
    BY <1>5, Received
  <2>2. UNCHANGED <<pc, heard, uid>> /\ chip' = "over"
    BY <1>5, Received DEF host
  <2>3. ASSUME pc \in {"poll", "check", "fetch"}
        PROVE  fifo = <<>>
    BY <1>5, <2>3 DEF Answer, Disturb
  <2>4. ASSUME pc \in {"poll", "check", "fetch"}
        PROVE  fifo' = bytes
    BY <2>1, <2>3, <2>4, ConcatEmptySeq DEF Brings
  <2>5. "rx" \notin irq' => bytes = <<>>
    BY <2>1 DEF Brings
  <2> QED BY <2>1, <2>2, <2>4, <2>5 DEF Brings
<1>6. CASE Move \/ CalmDown \/ UNCHANGED vars
  BY <1>6 DEF Move, CalmDown, vars, host, device, outside
<1> QED BY <1>1, <1>2, <1>3, <1>4, <1>5, <1>6 DEF Next, Reading

LEMMA Initially == Init => IInv
<1> SUFFICES ASSUME Init
             PROVE  IInv
  OBVIOUS
<1>1. <<>> \in Seq(Bytes) /\ Len(<<>>) <= 5
  BY EmptySeq
<1>2. TypeOK
  <2>1. fifo \in Seq(Bytes) /\ stored \in Seq(Bytes) /\ Len(stored) <= 5
    BY <1>1 DEF Init
  <2>2. uid \in Cards \cup {NoUid} /\ irq = {} /\ ready = {} /\ heard = {}
    BY DEF Init
  <2> QED BY <2>1, <2>2 DEF Init, TypeOK
<1>3. Own /\ Carried
  BY DEF Init, Own, Carried
<1> QED BY <1>2, <1>3 DEF IInv

LEMMA Invariant == Spec => []IInv
<1>1. IInv /\ [Next]_vars => IInv'
  BY TypeStep, OwnStep, CarriedStep DEF IInv
<1> QED BY Initially, <1>1, PTL DEF Spec

-----------------------------------------------------------------------------
(* The theorems.                                                           *)

\* Types of the registers, of the host's variables and of the cards' state.
THEOREM TypeCorrect == Spec => []TypeOK
<1>1. IInv => TypeOK
  BY DEF IInv
<1> QED BY <1>1, Invariant, PTL

\* A UID is that of the one card that answered the command it was read with.
THEOREM UidIsGenuineAlways == Spec => []UidIsGenuine
<1>1. IInv => UidIsGenuine
  BY DEF IInv, Carried, UidIsGenuine
<1> QED BY <1>1, Invariant, PTL

\* An exchange that succeeds was answered, or noise or a late answer came after
\* the interrupts had been cleared.
THEOREM AnswerIsOwnAlways == Spec => []AnswerIsOwn
<1>1. IInv => AnswerIsOwn
  BY DEF IInv, Own, AnswerIsOwn
<1> QED BY <1>1, Invariant, PTL
=============================================================================
