-------------------------- MODULE ExecutionProofs --------------------------
(* Proofs about Execution: what a captured stream is, and what a success     *)
(* means, for every limit, chunk and pipe size and every course of the       *)
(* command, its child and the cancellation.                                  *)
EXTENDS Execution, SequenceTheorems, TLAPS

\* Streams and processes as they may be at any time.
ExecutionTypes ==
    /\ TypeOK
    /\ \A s \in Streams : capture[s].got <= written[s]

\* Only a live process writes, and only to a stream it has open.
OpenStreams ==
    \A p \in Procs :
        /\ proc[p] # "alive" => holds[p] = {}
        /\ want[p] # "none" => want[p] \in holds[p]

\* A capture that has ended without error has seen all there will be.
CaptureIsDone ==
    \A s \in Streams :
        capture[s].at = "sent" /\ ~capture[s].failed =>
            /\ capture[s].got = written[s]
            /\ \A p \in Procs : s \notin holds[p]

Received == \A s \in Streams : capture[s].at = "sent"

\* What Execute has done by the time it stands at pc.
Progress ==
    /\ pc = "start" => proc["command"] = "none" /\ \A s \in Streams : capture[s].at = "none"
    /\ pc = "stderr" => capture["stdout"].at = "sent"
    /\ pc \in {"wait", "decide"} => Received
    /\ pc = "decide" => proc["command"] = "ended"
    /\ pc # "done" => result.status = "none"
    /\ pc = "done" => proc["command"] # "alive"

Success ==
    result.status = "succeeded" =>
        Received /\ exit = "zero" /\ ~canceled /\ \A s \in Streams : ~capture[s].failed

ExecutionInv ==
    /\ ExecutionTypes
    /\ CaptureIsPrefix
    /\ OpenStreams
    /\ CaptureIsDone
    /\ Progress
    /\ Success

USE SizesAssumption, ExecutionBoundsAssumption

-----------------------------------------------------------------------------
(* The capture of one stream.                                                *)

LEMMA BytesSeq ==
    ASSUME NEW m \in Nat, NEW n \in Nat
    PROVE  Bytes(m, n) \in Seq(Nat) /\ Len(Bytes(m, n)) = n
BY DEF Bytes

LEMMA BytesJoin ==
    ASSUME NEW m \in Nat, NEW n \in Nat
    PROVE  Bytes(0, m) \o Bytes(m, n) = Bytes(0, m + n)
<1> DEFINE a == Bytes(0, m)
           b == Bytes(m, n)
           c == Bytes(0, m + n)
<1>0. 0 \in Nat /\ m + n \in Nat
  OBVIOUS
<1>1. a \in Seq(Nat) /\ Len(a) = m /\ b \in Seq(Nat) /\ Len(b) = n /\ c \in Seq(Nat) /\ Len(c) = m + n
  BY <1>0, BytesSeq
<1>2. /\ \A i \in 1..m : a[i] = i
      /\ \A i \in 1..n : b[i] = m + i
      /\ \A i \in 1..m + n : c[i] = i
  BY DEF Bytes
<1> HIDE DEF a, b, c
<1>3. /\ a \o b \in Seq(Nat) /\ Len(a \o b) = m + n
      /\ \A i \in 1..m + n : (a \o b)[i] = IF i <= m THEN a[i] ELSE b[i - m]
  BY <1>1, ConcatProperties
<1>4. ASSUME NEW i \in 1..m + n PROVE (a \o b)[i] = c[i]
  <2>1. CASE i <= m
    BY <1>2, <1>3, <2>1
  <2>2. CASE i > m
    <3>1. i - m \in 1..n /\ b[i - m] = m + (i - m)
      BY <1>2, <2>2
    <3>2. (a \o b)[i] = b[i - m]
      BY <1>3, <2>2
    <3>3. c[i] = i
      BY <1>2
    <3> QED BY <3>1, <3>2, <3>3
  <2>3. i <= m \/ i > m
    OBVIOUS
  <2> QED BY <2>1, <2>2, <2>3
<1>5. a \o b = c
  BY <1>1, <1>3, <1>4, SeqEqual
<1> QED BY <1>5 DEF a, b, c

Prefix(c) ==
    /\ c.text = Bytes(0, IF c.got <= Limit THEN c.got ELSE Limit)
    /\ c.truncated <=> c.got > Limit

LEMMA PrefixCases ==
    ASSUME NEW k \in Captured
    PROVE  /\ k.got <= Limit /\ k.text = Bytes(0, k.got) /\ ~k.truncated => Prefix(k)
           /\ k.got > Limit /\ k.text = Bytes(0, Limit) /\ k.truncated => Prefix(k)
<1>1. k.got \in Nat /\ Limit \in Nat
  BY DEF Captured
<1>2. ASSUME k.got <= Limit PROVE (IF k.got <= Limit THEN k.got ELSE Limit) = k.got /\ ~(k.got > Limit)
  BY <1>1, <1>2
<1>3. ASSUME k.got > Limit PROVE (IF k.got <= Limit THEN k.got ELSE Limit) = Limit
  BY <1>1, <1>3
<1> QED BY <1>2, <1>3, Zenon DEF Prefix

LEMMA KeptPrefix ==
    ASSUME NEW c \in Captured, NEW n \in Nat, NEW m \in Nat, NEW l \in Nat,
           c.text = Bytes(0, l), m > 0 => l = c.got
    PROVE  /\ Kept(c, n, m) \in Captured
           /\ Kept(c, n, m).text = Bytes(0, l + m)
           /\ m < n => Kept(c, n, m).truncated
           /\ m = n => (Kept(c, n, m).truncated <=> c.truncated)
           /\ Kept(c, n, m).got = c.got + n
           /\ Kept(c, n, m).at = c.at /\ Kept(c, n, m).failed = c.failed
<1> DEFINE t == c.text \o Bytes(c.got, m)
           k == Kept(c, n, m)
           g == c.got + n
           b == IF m < n THEN TRUE ELSE c.truncated
<1>1. c.got \in Nat /\ g \in Nat /\ l + m \in Nat
  BY DEF Captured
<1>2. t = Bytes(0, l + m)
  <2>1. CASE m = 0
    <3>1. Bytes(c.got, m) = <<>>
      BY <2>1 DEF Bytes
    <3>2. Bytes(0, l) \in Seq(Nat)
      BY BytesSeq
    <3> QED BY <2>1, <3>1, <3>2
  <2>2. CASE m > 0
    BY <2>2, BytesJoin
  <2>3. m = 0 \/ m > 0
    OBVIOUS
  <2> QED BY <2>1, <2>2, <2>3, Zenon
<1>3. t \in Seq(Nat)
  <2>1. Bytes(0, l + m) \in Seq(Nat)
    BY <1>1, BytesSeq
  <2> QED BY <2>1, <1>2, Zenon
<1>4. k = [c EXCEPT !.got = g, !.text = t, !.truncated = b]
  BY Zenon DEF Kept
<1>5. /\ b \in BOOLEAN
      /\ m < n => b
      /\ m = n => (b <=> c.truncated)
  <2>1. c.truncated \in BOOLEAN /\ (m = n => ~(m < n))
    BY DEF Captured
  <2>2. CASE m < n
    BY <2>1, <2>2, Zenon
  <2>3. CASE ~(m < n)
    BY <2>1, <2>3, Zenon
  <2> QED BY <2>2, <2>3, Zenon
<1> HIDE DEF t, k, g, b
<1>6. /\ k \in Captured /\ k.got = g /\ k.text = t /\ (k.truncated <=> b)
      /\ k.at = c.at /\ k.failed = c.failed
  BY <1>1, <1>3, <1>4, <1>5 DEF Captured
<1> QED BY <1>2, <1>5, <1>6, Zenon DEF k, g

\* One Read keeps the capture a prefix, wherever the limit falls.
LEMMA KeepPrefix ==
    ASSUME NEW c \in Captured, Prefix(c), NEW n \in 1..Chunk
    PROVE  /\ Keep(c, n) \in Captured /\ Prefix(Keep(c, n))
           /\ Keep(c, n).got = c.got + n /\ Keep(c, n).at = c.at /\ Keep(c, n).failed = c.failed
<1> DEFINE room == Limit - Len(c.text)
<1>0. c.got \in Nat /\ n \in Nat /\ n > 0 /\ Limit \in Nat /\ c.truncated \in BOOLEAN
  BY DEF Captured
<1>1. CASE c.got >= Limit
  <2>1. c.text = Bytes(0, Limit) /\ (c.truncated <=> c.got > Limit)
    BY <1>0, <1>1 DEF Prefix
  <2>2. room = 0
    <3>1. Len(c.text) = Limit
      BY <1>0, <2>1, BytesSeq
    <3> QED BY <1>0, <3>1
  <2>3. Keep(c, n) = Kept(c, n, 0)
    <3>1. room <= 0 /\ ~(room > 0)
      BY <2>2
    <3> HIDE DEF room
    <3> QED BY <3>1, Zenon DEF Keep, room
  <2>4. 0 < n /\ 0 \in Nat /\ (0 > 0 => Limit = c.got)
    BY <1>0
  <2>5. /\ Kept(c, n, 0) \in Captured /\ Kept(c, n, 0).text = Bytes(0, Limit + 0)
        /\ Kept(c, n, 0).truncated /\ Kept(c, n, 0).got = c.got + n
        /\ Kept(c, n, 0).at = c.at /\ Kept(c, n, 0).failed = c.failed
    BY <1>0, <2>1, <2>4, KeptPrefix
  <2>6. c.got + n > Limit /\ Limit + 0 = Limit
    BY <1>0, <1>1
  <2> HIDE DEF room
  <2>7. Prefix(Kept(c, n, 0))
    BY <2>5, <2>6, PrefixCases, Zenon
  <2> QED BY <2>3, <2>5, <2>7, Zenon
<1>2. CASE c.got < Limit
  <2>1. c.text = Bytes(0, c.got) /\ ~c.truncated
    BY <1>0, <1>2 DEF Prefix
  <2>2. room = Limit - c.got
    <3>1. 0 \in Nat
      OBVIOUS
    <3>2. Len(c.text) = c.got
      BY <1>0, <2>1, <3>1, BytesSeq, Zenon
    <3> QED BY <3>2
  <2>3. CASE n > room
    <3>1. room \in Nat /\ room > 0 /\ c.got + room = Limit /\ c.got + n > Limit
      BY <1>0, <1>2, <2>2, <2>3
    <3>2. Keep(c, n) = Kept(c, n, room)
      <4>1. ~(room <= 0) /\ ~(n <= room)
        BY <1>0, <2>3, <3>1
      <4> HIDE DEF room
      <4> QED BY <2>3, <3>1, <4>1, Zenon DEF Keep, room
    <3>3. room < n
      BY <1>0, <3>1, <2>3
    <3> HIDE DEF room
    <3>4. /\ Kept(c, n, room) \in Captured /\ Kept(c, n, room).text = Bytes(0, c.got + room)
          /\ Kept(c, n, room).truncated /\ Kept(c, n, room).got = c.got + n
          /\ Kept(c, n, room).at = c.at /\ Kept(c, n, room).failed = c.failed
      BY <1>0, <2>1, <3>1, <3>3, KeptPrefix
    <3>5. Prefix(Kept(c, n, room))
      BY <3>1, <3>4, PrefixCases, Zenon
    <3> QED BY <3>2, <3>4, <3>5, Zenon
  <2>4. CASE n <= room
    <3>1. room > 0 /\ c.got + n <= Limit
      BY <1>0, <1>2, <2>2, <2>4
    <3>2. Keep(c, n) = Kept(c, n, n)
      <4>1. ~(room <= 0) /\ ~(n > room)
        BY <1>0, <2>2, <2>4, <3>1
      <4> HIDE DEF room
      <4> QED BY <2>4, <3>1, <4>1, Zenon DEF Keep, room
    <3> HIDE DEF room
    <3>3. Kept(c, n, n).truncated <=> c.truncated
      BY <1>0, <2>1, KeptPrefix
    <3>4. /\ Kept(c, n, n) \in Captured /\ Kept(c, n, n).text = Bytes(0, c.got + n)
          /\ ~Kept(c, n, n).truncated /\ Kept(c, n, n).got = c.got + n
          /\ Kept(c, n, n).at = c.at /\ Kept(c, n, n).failed = c.failed
      <4>1. c.got \in Nat /\ n \in Nat /\ c.text = Bytes(0, c.got)
        BY <1>0, <2>1
      <4>2. /\ Kept(c, n, n) \in Captured /\ Kept(c, n, n).text = Bytes(0, c.got + n)
            /\ Kept(c, n, n).got = c.got + n
            /\ Kept(c, n, n).at = c.at /\ Kept(c, n, n).failed = c.failed
        BY <4>1, KeptPrefix
      <4> QED BY <2>1, <3>3, <4>2
    <3>5. Prefix(Kept(c, n, n))
      BY <3>1, <3>4, PrefixCases, Zenon
    <3> QED BY <3>2, <3>4, <3>5, Zenon
  <2>5. n > room \/ n <= room
    BY <1>0, <2>2
  <2> HIDE DEF room
  <2> QED BY <2>3, <2>4, <2>5, Zenon
<1>3. c.got >= Limit \/ c.got < Limit
  BY <1>0
<1> HIDE DEF room
<1> QED BY <1>1, <1>2, <1>3, Zenon

-----------------------------------------------------------------------------
LEMMA ExecutionInvInit == Init => ExecutionInv
<1> SUFFICES ASSUME Init PROVE ExecutionInv
  OBVIOUS
<1> USE DEF Init, Streams, Procs
<1>1. TypeOK
  <2>1. <<>> \in Seq(Nat)
    OBVIOUS
  <2>2. capture \in [Streams -> Captured]
    BY <2>1 DEF Captured
  <2>3. result.status = "none" /\ result.code = NoCode
    BY DEF NoResult
  <2> QED BY <2>2, <2>3 DEF TypeOK, Exits
<1>2. Bytes(0, 0) = <<>>
  BY DEF Bytes
<1>3. CaptureIsPrefix
  BY <1>2 DEF CaptureIsPrefix
<1> QED BY <1>1, <1>3 DEF ExecutionInv, ExecutionTypes, OpenStreams, CaptureIsDone, Progress, Success,
      NoResult

\* What a step of the command or its child leaves as it was: nothing is
\* written to a stream whose capture has ended without error.
LEMMA WriteStep ==
    ASSUME ExecutionInv, NEW p \in Procs, NEW s \in Streams, Write(p, s)
    PROVE  ExecutionInv'
<1>1. UNCHANGED <<pc, canceled, proc, holds, exit, capture, result, faults>>
  BY DEF Write
<1>2. written' = [written EXCEPT ![s] = @ + 1] /\ want' = [want EXCEPT ![p] = "none"] /\ want[p] = s
  BY DEF Write
<1>3. TypeOK'
  BY <1>1, <1>2 DEF ExecutionInv, ExecutionTypes, TypeOK
<1>4. \A x \in Streams : capture'[x].got <= written'[x]
  BY <1>1, <1>2 DEF ExecutionInv, ExecutionTypes, TypeOK, Captured
<1>5. OpenStreams'
  BY <1>1, <1>2 DEF ExecutionInv, ExecutionTypes, TypeOK, OpenStreams
<1>6. s \in holds[p]
  BY <1>2 DEF ExecutionInv, OpenStreams, Streams
<1>7. CaptureIsDone'
  BY <1>1, <1>2, <1>6 DEF ExecutionInv, ExecutionTypes, TypeOK, CaptureIsDone
<1> QED BY <1>1, <1>3, <1>4, <1>5, <1>7
      DEF ExecutionInv, ExecutionTypes, CaptureIsPrefix, Progress, Success, Received

\* The end of a process closes what it has open.
LEMMA GoneStep ==
    ASSUME ExecutionInv, NEW p \in Procs, Gone(p), proc[p] = "alive",
           UNCHANGED <<pc, canceled, written, capture, result, faults>>,
           exit' \in Exits, p # "command" => exit' = exit
    PROVE  ExecutionInv'
<1>1. /\ proc' = [proc EXCEPT ![p] = "ended"]
      /\ holds' = [holds EXCEPT ![p] = {}]
      /\ want' = [want EXCEPT ![p] = "none"]
  BY DEF Gone
<1>2. TypeOK'
  BY <1>1 DEF ExecutionInv, ExecutionTypes, TypeOK
<1>3. OpenStreams'
  BY <1>1 DEF ExecutionInv, ExecutionTypes, TypeOK, OpenStreams
<1>4. CaptureIsDone'
  BY <1>1 DEF ExecutionInv, ExecutionTypes, TypeOK, CaptureIsDone
<1>5. Progress'
  BY <1>1 DEF ExecutionInv, ExecutionTypes, TypeOK, Progress, Received, Procs
<1>6. result.status = "succeeded" => p # "command"
  BY DEF ExecutionInv, Progress
<1>7. Success'
  BY <1>6 DEF ExecutionInv, Success, Received
<1> QED BY <1>2, <1>3, <1>4, <1>5, <1>7 DEF ExecutionInv, ExecutionTypes, CaptureIsPrefix

\* What changes only the streams a process has open, and who is alive.
LEMMA OpeningStep ==
    ASSUME ExecutionInv, UNCHANGED <<pc, canceled, written, exit, capture, result, faults>>,
           TypeOK', OpenStreams',
           \A s \in Streams : (\E p \in Procs : s \in holds'[p]) => \E p \in Procs : s \in holds[p],
           proc'["command"] = proc["command"]
    PROVE  ExecutionInv'
<1>1. CaptureIsDone'
  BY DEF ExecutionInv, CaptureIsDone
<1> QED BY <1>1 DEF ExecutionInv, ExecutionTypes, CaptureIsPrefix, Progress, Success, Received

LEMMA ForkStep == ASSUME ExecutionInv, Fork PROVE ExecutionInv'
<1>1. PICK S \in SUBSET holds["command"] : holds' = [holds EXCEPT !["child"] = S]
  BY DEF Fork
<1>2. /\ proc' = [proc EXCEPT !["child"] = "alive"] /\ proc["child"] = "none"
      /\ UNCHANGED <<pc, canceled, want, written, exit, capture, result, faults>>
  BY DEF Fork
<1>3. "command" \in Procs /\ "child" \in Procs /\ "command" # "child"
  BY DEF Procs
<1>4. S \subseteq Streams
  BY <1>3 DEF ExecutionInv, ExecutionTypes, TypeOK
<1>5. TypeOK'
  BY <1>1, <1>2, <1>3, <1>4 DEF ExecutionInv, ExecutionTypes, TypeOK
<1>6. OpenStreams'
  BY <1>1, <1>2, <1>3 DEF ExecutionInv, ExecutionTypes, TypeOK, OpenStreams
<1>7. \A s \in Streams : (\E p \in Procs : s \in holds'[p]) => \E p \in Procs : s \in holds[p]
  BY <1>1, <1>3 DEF ExecutionInv, ExecutionTypes, TypeOK
<1>8. proc'["command"] = proc["command"]
  BY <1>2, <1>3 DEF ExecutionInv, ExecutionTypes, TypeOK
<1> QED BY <1>2, <1>5, <1>6, <1>7, <1>8, OpeningStep

LEMMA BeginAndCloseStep ==
    ASSUME ExecutionInv, NEW p \in Procs, NEW s \in Streams, BeginWrite(p, s) \/ CloseStream(p, s)
    PROVE  ExecutionInv'
<1>1. UNCHANGED <<pc, canceled, proc, written, exit, capture, result, faults>>
  BY DEF BeginWrite, CloseStream
<1>2. \/ want' = [want EXCEPT ![p] = s] /\ UNCHANGED holds /\ s \in holds[p]
      \/ holds' = [holds EXCEPT ![p] = @ \ {s}] /\ UNCHANGED want /\ want[p] = "none"
  BY DEF BeginWrite, CloseStream
<1>3. TypeOK'
  BY <1>1, <1>2 DEF ExecutionInv, ExecutionTypes, TypeOK
<1>4. OpenStreams'
  BY <1>1, <1>2 DEF ExecutionInv, ExecutionTypes, TypeOK, OpenStreams
<1>5. \A x \in Streams : (\E q \in Procs : x \in holds'[q]) => \E q \in Procs : x \in holds[q]
  BY <1>2 DEF ExecutionInv, ExecutionTypes, TypeOK
<1>6. proc'["command"] = proc["command"]
  BY <1>1
<1> QED BY <1>1, <1>3, <1>4, <1>5, <1>6, OpeningStep

-----------------------------------------------------------------------------
LEMMA ReadStep == ASSUME ExecutionInv, NEW s \in Streams, Read(s) PROVE ExecutionInv'
<1>1. PICK n \in 1..Chunk : n <= written[s] - capture[s].got /\ capture' = [capture EXCEPT ![s] = Keep(@, n)]
  BY DEF Read
<1>2. UNCHANGED <<pc, canceled, procVars, result, faults>> /\ capture[s].at = "reading"
  BY DEF Read
<1>3. capture \in [Streams -> Captured] /\ written \in [Streams -> Nat]
  BY DEF ExecutionInv, ExecutionTypes, TypeOK
<1>4. Prefix(capture[s])
  BY DEF ExecutionInv, CaptureIsPrefix, Prefix
<1>5. /\ capture'[s] \in Captured /\ Prefix(capture'[s])
      /\ capture'[s].got = capture[s].got + n /\ capture'[s].at = "reading"
      /\ capture'[s].failed = capture[s].failed
  BY <1>1, <1>2, <1>3, <1>4, KeepPrefix
<1>6. \A x \in Streams \ {s} : capture'[x] = capture[x]
  BY <1>1, <1>3
<1>7. capture' \in [Streams -> Captured]
  BY <1>1, <1>3, <1>5, <1>6
<1>8. TypeOK'
  BY <1>2, <1>7 DEF ExecutionInv, ExecutionTypes, TypeOK, procVars
<1>9. \A x \in Streams : capture'[x].got <= written'[x]
  <2>1. n \in Nat /\ capture[s].got \in Nat
    BY <1>3 DEF Captured
  <2> QED BY <1>1, <1>2, <1>3, <1>5, <1>6, <2>1 DEF procVars, ExecutionInv, ExecutionTypes
<1>10. CaptureIsPrefix'
  BY <1>5, <1>6 DEF ExecutionInv, CaptureIsPrefix, Prefix
<1>11. OpenStreams' /\ CaptureIsDone'
  BY <1>2, <1>5, <1>6 DEF ExecutionInv, OpenStreams, CaptureIsDone, procVars
<1>12. Progress' /\ Success'
  BY <1>2, <1>5, <1>6 DEF ExecutionInv, Progress, Success, Received, procVars, Streams
<1> QED BY <1>8, <1>9, <1>10, <1>11, <1>12 DEF ExecutionInv, ExecutionTypes

\* A capture that ends, at the end of the stream or with an error.
LEMMA CaptureEndsStep ==
    ASSUME ExecutionInv, NEW s \in Streams, ReadEOF(s) \/ ReadFails(s)
    PROVE  ExecutionInv'
<1>1. UNCHANGED <<pc, canceled, procVars, result>> /\ faults' \in Nat /\ capture[s].at = "reading"
  BY DEF ReadEOF, ReadFails, Fails, ExecutionInv, ExecutionTypes, TypeOK
<1>2. \/ /\ written[s] = capture[s].got /\ \A p \in Procs : s \notin holds[p]
         /\ capture' = [capture EXCEPT ![s].at = "sent"]
      \/ capture' = [capture EXCEPT ![s].at = "sent", ![s].failed = TRUE]
  BY DEF ReadEOF, ReadFails
<1>3. capture \in [Streams -> Captured]
  BY DEF ExecutionInv, ExecutionTypes, TypeOK
<1>4. /\ capture' \in [Streams -> Captured]
      /\ capture'[s].at = "sent"
      /\ \A x \in Streams : /\ capture'[x].got = capture[x].got
                            /\ capture'[x].text = capture[x].text
                            /\ capture'[x].truncated = capture[x].truncated
                            /\ x # s => capture'[x] = capture[x]
      /\ ~capture'[s].failed => written[s] = capture[s].got /\ \A p \in Procs : s \notin holds[p]
  <2>1. ASSUME NEW c \in Captured
        PROVE  LET k == [c EXCEPT !.at = "sent"] IN
               /\ k \in Captured /\ k.at = "sent" /\ k.failed = c.failed
               /\ k.got = c.got /\ k.text = c.text /\ k.truncated = c.truncated
    BY DEF Captured
  <2>2. ASSUME NEW c \in Captured
        PROVE  LET k == [c EXCEPT !.at = "sent", !.failed = TRUE] IN
               /\ k \in Captured /\ k.at = "sent" /\ k.failed
               /\ k.got = c.got /\ k.text = c.text /\ k.truncated = c.truncated
    BY DEF Captured
  <2>3. CASE /\ written[s] = capture[s].got /\ \A p \in Procs : s \notin holds[p]
             /\ capture' = [capture EXCEPT ![s].at = "sent"]
    BY <1>3, <2>1, <2>3
  <2>4. CASE capture' = [capture EXCEPT ![s].at = "sent", ![s].failed = TRUE]
    <3>1. capture' = [capture EXCEPT ![s] = [@ EXCEPT !.at = "sent", !.failed = TRUE]]
      BY <1>3, <2>4
    <3> QED BY <1>3, <2>2, <3>1
  <2> QED BY <1>2, <2>3, <2>4
<1>5. TypeOK'
  BY <1>1, <1>4 DEF ExecutionInv, ExecutionTypes, TypeOK, procVars
<1>6. CaptureIsPrefix' /\ \A x \in Streams : capture'[x].got <= written'[x]
  BY <1>1, <1>4 DEF ExecutionInv, ExecutionTypes, CaptureIsPrefix, procVars
<1>7. OpenStreams' /\ CaptureIsDone'
  BY <1>1, <1>4 DEF ExecutionInv, OpenStreams, CaptureIsDone, procVars
<1>8. Progress' /\ Success'
  BY <1>1, <1>4 DEF ExecutionInv, Progress, Success, Received, procVars, Streams
<1> QED BY <1>5, <1>6, <1>7, <1>8 DEF ExecutionInv, ExecutionTypes

-----------------------------------------------------------------------------
LEMMA StartStep == ASSUME ExecutionInv, Start PROVE ExecutionInv'
<1>0. capture \in [Streams -> Captured] /\ "command" \in Procs /\ pc = "start"
  BY DEF ExecutionInv, ExecutionTypes, TypeOK, Procs, Start
<1>1. UNCHANGED <<canceled, want, written, exit>> /\ faults' \in Nat
  BY DEF Start, Works, Fails, ExecutionInv, ExecutionTypes, TypeOK
<1>2. CASE /\ pc' = "stdout" /\ proc' = [proc EXCEPT !["command"] = "alive"]
           /\ holds' = [holds EXCEPT !["command"] = Streams]
           /\ capture' = [s \in Streams |-> [capture[s] EXCEPT !.at = "reading"]]
           /\ UNCHANGED result
  <2>1. /\ capture' \in [Streams -> Captured]
        /\ \A x \in Streams : /\ capture'[x].got = capture[x].got
                              /\ capture'[x].text = capture[x].text
                              /\ capture'[x].truncated = capture[x].truncated
                              /\ capture'[x].at = "reading"
    BY <1>0, <1>2 DEF Captured
  <2>2. TypeOK'
    BY <1>0, <1>1, <1>2, <2>1 DEF ExecutionInv, ExecutionTypes, TypeOK
  <2>3. CaptureIsPrefix' /\ \A x \in Streams : capture'[x].got <= written'[x]
    BY <1>1, <2>1 DEF ExecutionInv, ExecutionTypes, CaptureIsPrefix
  <2>4. OpenStreams'
    <3>1. \A p \in Procs \ {"command"} : proc'[p] = proc[p] /\ holds'[p] = holds[p]
      BY <1>2 DEF ExecutionInv, ExecutionTypes, TypeOK
    <3>2. proc'["command"] = "alive" /\ holds'["command"] = Streams
      BY <1>0, <1>2 DEF ExecutionInv, ExecutionTypes, TypeOK
    <3>3. want["command"] = "none"
      BY <1>0 DEF ExecutionInv, OpenStreams, Progress
    <3> QED BY <1>1, <3>1, <3>2, <3>3 DEF ExecutionInv, OpenStreams
  <2>5. CaptureIsDone'
    BY <2>1 DEF CaptureIsDone
  <2>6. Progress' /\ Success'
    BY <1>0, <1>2 DEF ExecutionInv, Progress, Success
  <2> QED BY <2>2, <2>3, <2>4, <2>5, <2>6 DEF ExecutionInv, ExecutionTypes
<1>3. CASE pc' = "done" /\ result' = Failed("start") /\ UNCHANGED <<proc, holds, capture>>
  <2>1. result'.status = "failed" /\ result'.code = NoCode
    BY <1>3 DEF Failed, NoResult
  <2>2. TypeOK'
    BY <1>1, <1>3, <2>1 DEF ExecutionInv, ExecutionTypes, TypeOK
  <2> QED BY <1>0, <1>1, <1>3, <2>1, <2>2
        DEF ExecutionInv, ExecutionTypes, CaptureIsPrefix, OpenStreams, CaptureIsDone, Progress, Success
<1> QED BY <1>2, <1>3 DEF Start

LEMMA ReceiveStep == ASSUME ExecutionInv, Receive PROVE ExecutionInv'
<1>1. UNCHANGED <<canceled, procVars, capture, result, faults>> /\ pc \in Streams /\ capture[pc].at = "sent"
  BY DEF Receive
<1>2. \/ pc = "stdout" /\ pc' = "stderr"
      \/ pc = "stderr" /\ pc' = "wait"
  BY DEF Receive, Streams
<1>3. TypeOK'
  BY <1>1, <1>2 DEF ExecutionInv, ExecutionTypes, TypeOK, procVars
<1>4. Progress'
  BY <1>1, <1>2 DEF ExecutionInv, Progress, Received, Streams, procVars
<1> QED BY <1>1, <1>3, <1>4
      DEF ExecutionInv, ExecutionTypes, CaptureIsPrefix, OpenStreams, CaptureIsDone, Success, Received, procVars

LEMMA WaitStep == ASSUME ExecutionInv, Wait PROVE ExecutionInv'
<1>1. UNCHANGED <<canceled, proc, holds, want, written, capture, result>> /\ pc = "wait" /\ pc' = "decide"
        /\ proc["command"] = "ended"
  BY DEF Wait
<1>2. exit' \in Exits /\ faults' \in Nat
  BY DEF Wait, Works, Fails, Exits, ExecutionInv, ExecutionTypes, TypeOK
<1>3. TypeOK'
  BY <1>1, <1>2 DEF ExecutionInv, ExecutionTypes, TypeOK
<1>4. Progress' /\ Success'
  BY <1>1 DEF ExecutionInv, Progress, Received, Success
<1> QED BY <1>1, <1>3, <1>4
      DEF ExecutionInv, ExecutionTypes, CaptureIsPrefix, OpenStreams, CaptureIsDone

LEMMA DecideStep == ASSUME ExecutionInv, Decide PROVE ExecutionInv'
<1>1. UNCHANGED <<canceled, procVars, capture, faults>> /\ pc = "decide" /\ pc' = "done"
  BY DEF Decide
<1>2. /\ result'.status = IF Why = "none" THEN "succeeded" ELSE "failed"
      /\ result'.code = ExitCode(exit)
  BY DEF Decide
<1>3. ExitCode(exit) \in Nat \cup {NoCode}
  BY DEF ExitCode
<1>4. TypeOK'
  BY <1>1, <1>2, <1>3 DEF ExecutionInv, ExecutionTypes, TypeOK, procVars
<1>5. Progress'
  BY <1>1 DEF ExecutionInv, Progress, procVars
<1>6. ASSUME Why = "none" PROVE exit = "zero" /\ ~canceled /\ \A s \in Streams : ~capture[s].failed
  <2>1. canceled \in BOOLEAN
    BY DEF ExecutionInv, ExecutionTypes, TypeOK
  <2>2. ~canceled
    BY <1>6 DEF Why
  <2>3. ~\E s \in Streams : capture[s].failed
    BY <1>6, <2>2 DEF Why
  <2>4. WhyByStatus = "none"
    BY <1>6, <2>2, <2>3 DEF Why
  <2> QED BY <2>2, <2>3, <2>4 DEF WhyByStatus
<1>7. Success'
  BY <1>1, <1>2, <1>6 DEF ExecutionInv, Progress, Success, Received, procVars
<1> QED BY <1>1, <1>4, <1>5, <1>7
      DEF ExecutionInv, ExecutionTypes, CaptureIsPrefix, OpenStreams, CaptureIsDone, procVars

LEMMA CancelStep == ASSUME ExecutionInv, Cancel PROVE ExecutionInv'
<1>1. UNCHANGED <<pc, procVars, capture, result, faults>> /\ pc # "done" /\ canceled' = TRUE
  BY DEF Cancel
<1>2. TypeOK'
  BY <1>1 DEF ExecutionInv, ExecutionTypes, TypeOK, procVars
<1>3. Success'
  BY <1>1 DEF ExecutionInv, Progress, Success
<1> QED BY <1>1, <1>2, <1>3
      DEF ExecutionInv, ExecutionTypes, CaptureIsPrefix, OpenStreams, CaptureIsDone, Progress, Received, procVars

LEMMA ExecutionInvNext == ExecutionInv /\ [Next]_vars => ExecutionInv'
<1> SUFFICES ASSUME ExecutionInv, [Next]_vars PROVE ExecutionInv'
  OBVIOUS
<1>1. ASSUME NEW p \in Procs, ProcStep(p) PROVE ExecutionInv'
  BY <1>1, WriteStep, BeginAndCloseStep DEF ProcStep
<1>2. ASSUME NEW p \in Procs, Exit(p) PROVE ExecutionInv'
  <2>1. /\ Gone(p) /\ proc[p] = "alive" /\ UNCHANGED <<pc, canceled, written, capture, result, faults>>
        /\ exit' \in Exits /\ (p # "command" => exit' = exit)
    BY <1>2 DEF Exit, Exits, ExecutionInv, ExecutionTypes, TypeOK
  <2> QED BY <2>1, GoneStep
<1>3. CASE Kill
  <2>1. /\ Gone("command") /\ proc["command"] = "alive" /\ "command" \in Procs /\ exit' \in Exits
        /\ UNCHANGED <<pc, canceled, written, capture, result, faults>>
    BY <1>3 DEF Kill, Procs, Exits
  <2> QED BY <2>1, GoneStep
<1>4. ASSUME NEW s \in Streams, CaptureStep(s) \/ ReadFails(s) PROVE ExecutionInv'
  BY <1>4, ReadStep, CaptureEndsStep DEF CaptureStep
<1>5. CASE ExecuteStep
  BY <1>5, StartStep, ReceiveStep, WaitStep, DecideStep DEF ExecuteStep
<1>6. CASE UNCHANGED vars
  BY <1>6 DEF vars, procVars, ExecutionInv, ExecutionTypes, TypeOK, CaptureIsPrefix, OpenStreams, CaptureIsDone,
        Progress, Success, Received
<1> QED BY <1>1, <1>2, <1>3, <1>4, <1>5, <1>6, ForkStep, CancelStep DEF Next

LEMMA ExecutionSafe == Spec => []ExecutionInv
BY ExecutionInvInit, ExecutionInvNext, PTL DEF Spec

\* Every variable stays in its type, whatever the command and its child do.
THEOREM ExecutionTypeCorrect == Spec => []TypeOK
BY ExecutionSafe, PTL DEF ExecutionInv, ExecutionTypes

\* For every limit and every size of the reads, what is captured of a stream is
\* its beginning, called truncated exactly when there was more.
THEOREM CapturesArePrefixes == Spec => []CaptureIsPrefix
BY ExecutionSafe, PTL DEF ExecutionInv

\* A reported success is one: not cancelled, exit status zero, all read.
THEOREM SuccessIsComplete == Spec => []SucceededIsComplete
<1>1. ExecutionInv => SucceededIsComplete
  BY DEF ExecutionInv, Success, Received, CaptureIsDone, SucceededIsComplete
<1> QED BY <1>1, ExecutionSafe, PTL

\* When Execute has returned, the command is not running.
THEOREM CommandIsReaped == Spec => []NoCommandOutlivesExecute
<1>1. ExecutionInv => NoCommandOutlivesExecute
  BY DEF ExecutionInv, Progress, NoCommandOutlivesExecute
<1> QED BY <1>1, ExecutionSafe, PTL

=============================================================================
