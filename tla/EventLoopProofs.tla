-------------------------- MODULE EventLoopProofs --------------------------
(***************************************************************************)
(* For any number of connections and any limits: the loop keeps its        *)
(* buffers and queues within their bounds, reports every closed connection *)
(* once, keeps to its connection limit, and never polls a closed one.      *)
(***************************************************************************)
EXTENDS EventLoop, FiniteSetTheorems, WellFoundedInduction, TLAPS

(* Every leaf may take this long. *)
USE SMTT(30), ZenonT(10)

(* The first of a set of connections is one of them. *)
LEMMA FirstIn ==
  ASSUME NEW S \in SUBSET Conn, S # {}
  PROVE  first(S) \in S
  <1> DEFINE R == OpToRel(<, Nat)
  <1>1. IsWellFoundedOn(R, Nat)
    BY NatLessThanWellFounded, Zenon
  <1>2. S \subseteq Nat
    BY EventLoopAssumption DEF Conn
  <1>3. \A x, y \in Nat : y < x => <<y, x>> \in R
    BY DEF OpToRel
  <1> HIDE DEF R
  <1>4. PICK x \in S : \A y \in S : ~(<<y, x>> \in R)
    BY <1>1, <1>2, WFMin, Zenon
  <1>5. \A y \in S : x <= y
    <2> TAKE y \in S
    <2>1. x \in Nat /\ y \in Nat /\ ~(y < x)
      BY <1>2, <1>3, <1>4, Zenon
    <2> QED
      BY <2>1
  <1>6. \E c \in S : \A d \in S : c <= d
    BY <1>5
  <1> QED
    BY <1>6 DEF first

(* Whole multiples that fit. *)
LEMMA DivFits ==
  ASSUME NEW n \in Nat, NEW k \in Nat \ {0}
  PROVE  n \div k \in Nat /\ (n \div k) * k <= n
  OBVIOUS

(* Multiplying by the size of a frame keeps the order.                       *)
LEMMA TimesMonotone ==
  ASSUME NEW a \in Nat, NEW b \in Nat, NEW k \in Nat, a <= b
  PROVE  a * k <= b * k /\ a * k \in Nat
  OBVIOUS

(* Multiplying by the size of a frame distributes over a sum.                *)
LEMMA TimesPlus ==
  ASSUME NEW a \in Nat, NEW b \in Nat, NEW k \in Nat
  PROVE  (a + b) * k = a * k + b * k
  OBVIOUS

(* The lesser of two numbers is at most each of them.                        *)
LEMMA LeastFacts ==
  ASSUME NEW a \in Nat, NEW b \in Nat
  PROVE  least(a, b) \in Nat /\ least(a, b) <= a /\ least(a, b) <= b
  BY DEF least
----------------------------------------------------------------------------
(***************************************************************************)
(* The inductive invariant.                                                *)
(***************************************************************************)

(* No more is read than was sent. *)
ReadWasSent == \A c \in Conn : received[c] <= sent[c]

(* What the last poll said is about connections that are still open, and is used up
   when the iteration ends. *)
PolledAreOpen ==
  \A c \in Conn : ready(c) => stage[c] = "open" /\ phase \in {"accept", "serve"}

(* What is to be erased is closed. *)
ErasedAreClosed == \A c \in pending_erase : stage[c] = "closed"

(* From the sweep to the first handler no connection is closed. *)
SweptIsClean == phase \in {"poll", "accept"} => \A c \in Conn : stage[c] # "closed"

LInv ==
  /\ TypeOK /\ ReadWasSent /\ PolledAreOpen /\ ErasedAreClosed /\ SweptIsClean
  /\ ReportedExactlyOnce /\ WithinLimit

(* What fits in the parser is read, and no more than there is. *)
LEMMA FilledFits ==
  ASSUME TypeOK, ReadWasSent, NEW c \in Conn
  PROVE  /\ filled(c) \in Nat /\ filled(c) <= sent[c] - received[c]
         /\ buffered(c) \in Nat /\ buffered(c) + filled(c) <= ParserBound
  <1>1. /\ buffered(c) \in 0..ParserBound /\ available(c) \in Nat /\ ParserBound \in Nat
        /\ available(c) = sent[c] - received[c]
    BY EventLoopAssumption DEF TypeOK, ReadWasSent, buffered, available
  <1>2. CASE overflows(c)
    <2> DEFINE spare == ParserBound - buffered(c)
    <2>1. spare \in Nat /\ spare < available(c) /\ buffered(c) + spare = ParserBound
      BY <1>1, <1>2 DEF overflows
    <2>2. filled(c) = (spare \div kReadChunk) * kReadChunk
      BY <1>2 DEF filled
    <2> HIDE DEF spare
    <2>3. spare \div kReadChunk \in Nat /\ (spare \div kReadChunk) * kReadChunk <= spare
      BY <2>1, DivFits, EventLoopAssumption
    <2>4. (spare \div kReadChunk) * kReadChunk \in Nat
      BY <2>3, TimesMonotone, EventLoopAssumption
    <2> QED
      BY <1>1, <2>1, <2>2, <2>3, <2>4
  <1>3. CASE ~overflows(c)
    BY <1>1, <1>3 DEF overflows, filled
  <1> QED
    BY <1>2, <1>3

(* Frames are handled only when they are whole. *)
LEMMA HandledFits ==
  ASSUME NEW r \in Nat, NEW h \in Nat, NEW p \in Nat, NEW n \in Nat,
         r - h * FrameSize \in Nat, r - h * FrameSize + p <= ParserBound,
         n <= (r - h * FrameSize + p) \div FrameSize,
         NEW s \in Nat, NEW g \in Nat, s = r + p, g = h + n
  PROVE  s - g * FrameSize \in 0..ParserBound
  <1> DEFINE b == r - h * FrameSize + p
             w == b \div FrameSize
  <1>1. FrameSize \in Nat \ {0} /\ ParserBound \in Nat
    BY EventLoopAssumption
  <1>2. b \in Nat
    OBVIOUS
  <1>3. w \in Nat /\ w * FrameSize <= b
    <2> HIDE DEF b
    <2> QED
      BY <1>1, <1>2, DivFits
  <1>4. n <= w
    OBVIOUS
  <1> HIDE DEF w
  <1>5. n * FrameSize <= w * FrameSize /\ n * FrameSize \in Nat /\ w * FrameSize \in Nat
    BY <1>1, <1>3, <1>4, TimesMonotone
  <1>6. n * FrameSize <= b
    <2> HIDE DEF b
    <2> QED
      BY <1>2, <1>3, <1>5
  <1>7. (h + n) * FrameSize = h * FrameSize + n * FrameSize /\ h * FrameSize \in Nat
    BY <1>1, TimesPlus, TimesMonotone
  <1>8. s - g * FrameSize = b - n * FrameSize
    BY <1>5, <1>7
  <1> QED
    BY <1>1, <1>2, <1>5, <1>6, <1>8
(* No more frames are handed over than there are. *)
LEMMA DispatchFits ==
  ASSUME NEW w \in Nat, NEW e \in dispatch(w)
  PROVE  e.n \in Nat /\ e.n <= w
  <1> DEFINE l == least(w, kMaxFramesPerIteration)
  <1>1. l \in Nat /\ l <= w
    BY LeastFacts, EventLoopAssumption
  <1>2. e.n = l \/ e.n \in 1..l
    <2> HIDE DEF l
    <2> QED
      BY DEF dispatch, l
  <1> HIDE DEF l
  <1> QED
    BY <1>1, <1>2

(* What serving one connection does to the loop's tables. *)
LEMMA Served ==
  ASSUME TypeOK, ReadWasSent, NEW c \in Conn, serve(c)
  PROVE  /\ received' \in [Conn -> Nat] /\ handled' \in [Conn -> Nat]
         /\ \A d \in Conn : received'[d] <= sent[d]
         /\ \A d \in Conn : received'[d] - handled'[d] * FrameSize \in 0..ParserBound
         /\ queue' \in [Conn -> 0..max_pending_frames] /\ window' \in [Conn -> 0..Window]
         /\ idle' \subseteq idle /\ dropped' \subseteq Conn
         /\ \/ stage' = stage /\ pending_erase' = pending_erase
            \/ /\ stage' = [stage EXCEPT ![c] = "closed"]
               /\ pending_erase' \subseteq pending_erase \cup {c}
  <1> DEFINE item == items[c]
             pushed == IF item.readable THEN filled(c) ELSE 0
             whole == (buffered(c) + pushed) \div FrameSize
             others == {d \in Conn \ {c} : stage[d] = "open" /\ queue_room(d)}
             Passes == IF item.readable THEN dispatch(whole) ELSE dispatch(0)
             Output(replies) == queue[c] + replies
             TornDown(done, replies) ==
               done.how = "failed" \/ (item.readable /\ ~fill_ok(c)) \/ item.failed
                 \/ (done.how = "ok" /\ Output(replies) > 0 /\ ended[c] = "reset")
             Shut(done, replies) == TornDown(done, replies) \/ done.how = "closed"
             Flushed(done, replies) ==
               IF Shut(done, replies) THEN 0 ELSE least(Output(replies), Window - window[c])
             Does(done, replies, told) ==
               /\ received' = [received EXCEPT ![c] = @ + pushed]
               /\ handled' = [handled EXCEPT ![c] = @ + done.n]
               /\ idle' = IF item.readable THEN idle \ {c} ELSE idle
               /\ stage' = [stage EXCEPT ![c] = IF Shut(done, replies) THEN "closed" ELSE @]
               /\ queue' = [d \in Conn |->
                    IF d = c THEN (IF Shut(done, replies) THEN 0
                                   ELSE Output(replies) - Flushed(done, replies))
                    ELSE IF d \in told THEN queue[d] + 1 ELSE queue[d]]
               /\ window' = [window EXCEPT ![c] = @ + Flushed(done, replies)]
               /\ pending_erase' = IF TornDown(done, replies) THEN pending_erase \cup {c}
                                   ELSE pending_erase
               /\ dropped' = IF done.how # "ok" \/ (item.readable /\ overflows(c))
                             THEN dropped \cup {c} ELSE dropped
  <1>1. PICK done \in Passes :
          \E replies \in 0..least(done.n, max_pending_frames - queue[c]) :
          \E told \in {{}} \cup (IF done.n > 0 THEN {{d} : d \in others} ELSE {}) :
            Does(done, replies, told)
    BY Zenon DEF serve
  <1>2. PICK replies \in 0..least(done.n, max_pending_frames - queue[c]) :
          \E told \in {{}} \cup (IF done.n > 0 THEN {{d} : d \in others} ELSE {}) :
            Does(done, replies, told)
    BY <1>1, Zenon
  <1>3. PICK told \in {{}} \cup (IF done.n > 0 THEN {{d} : d \in others} ELSE {}) :
          Does(done, replies, told)
    BY <1>2
  <1>4. told \subseteq others
    BY <1>3
  <1>5. /\ pushed \in Nat /\ pushed <= sent[c] - received[c] /\ buffered(c) \in Nat
        /\ buffered(c) + pushed <= ParserBound
    BY FilledFits, EventLoopAssumption DEF TypeOK, ReadWasSent
  <1>6. whole \in Nat /\ FrameSize \in Nat \ {0} /\ kMaxFramesPerIteration \in Nat
    <2>1. FrameSize \in Nat \ {0} /\ kMaxFramesPerIteration \in Nat
      BY EventLoopAssumption
    <2>2. buffered(c) + pushed \in Nat
      BY <1>5
    <2> HIDE DEF pushed
    <2> QED
      BY <2>1, <2>2, DivFits
  <1> HIDE DEF pushed, whole
  <1>7. done.n \in Nat /\ done.n <= whole
    BY <1>1, <1>6, DispatchFits
  <1>8. /\ received' = [received EXCEPT ![c] = @ + pushed]
        /\ handled' = [handled EXCEPT ![c] = @ + done.n]
    BY <1>3
  <1>9. /\ received' \in [Conn -> Nat] /\ handled' \in [Conn -> Nat]
        /\ \A d \in Conn : received'[d] <= sent[d]
    BY <1>5, <1>7, <1>8 DEF TypeOK, ReadWasSent
  <1>10. \A d \in Conn : received'[d] - handled'[d] * FrameSize \in 0..ParserBound
    <2>1. \A d \in Conn : /\ received'[d] = IF d = c THEN received[c] + pushed ELSE received[d]
                          /\ handled'[d] = IF d = c THEN handled[c] + done.n ELSE handled[d]
      BY <1>8 DEF TypeOK
    <2>2. received'[c] - handled'[c] * FrameSize \in 0..ParserBound
      <3>1. /\ received[c] \in Nat /\ handled[c] \in Nat
            /\ received'[c] \in Nat /\ handled'[c] \in Nat
            /\ received'[c] = received[c] + pushed /\ handled'[c] = handled[c] + done.n
        BY <1>9, <2>1 DEF TypeOK
      <3>2. done.n <= (received[c] - handled[c] * FrameSize + pushed) \div FrameSize
        BY <1>7 DEF whole, buffered
      <3> QED
        BY <1>5, <1>7, <3>1, <3>2, HandledFits DEF buffered
    <2> TAKE d \in Conn
    <2>3. CASE d = c
      BY <2>2, <2>3
    <2>4. CASE d # c
      BY <2>1, <2>4 DEF TypeOK
    <2> QED
      BY <2>3, <2>4
  <1>11. /\ Output(replies) \in 0..max_pending_frames
         /\ Flushed(done, replies) \in Nat
         /\ Flushed(done, replies) <= Output(replies)
         /\ Flushed(done, replies) <= Window - window[c]
    <2>1. /\ queue[c] \in 0..max_pending_frames /\ max_pending_frames \in Nat
          /\ window[c] \in 0..Window /\ Window \in Nat
      BY EventLoopAssumption DEF TypeOK
    <2>2. replies \in Nat /\ replies <= max_pending_frames - queue[c]
      <3>1. max_pending_frames - queue[c] \in Nat
        BY <2>1
      <3>2. least(done.n, max_pending_frames - queue[c]) <= max_pending_frames - queue[c]
        BY <1>7, <3>1 DEF least
      <3>3. least(done.n, max_pending_frames - queue[c]) \in Nat
        BY <1>7, <3>1 DEF least
      <3> QED
        BY <1>2, <3>1, <3>2, <3>3
    <2>3. Output(replies) \in 0..max_pending_frames
      BY <2>1, <2>2
    <2>4. Window - window[c] \in Nat
      BY <2>1
    <2> HIDE DEF Output, Shut
    <2>5. /\ least(Output(replies), Window - window[c]) \in Nat
          /\ least(Output(replies), Window - window[c]) <= Output(replies)
          /\ least(Output(replies), Window - window[c]) <= Window - window[c]
      BY <2>3, <2>4, EventLoopAssumption DEF least
    <2> QED
      BY <2>1, <2>3, <2>4, <2>5
  <1> HIDE DEF Output, Flushed, TornDown
  <1>12. queue' \in [Conn -> 0..max_pending_frames]
    <2>1. \A d \in told : queue[d] + 1 \in 0..max_pending_frames
      BY <1>4, EventLoopAssumption DEF TypeOK, queue_room
    <2>2. Output(replies) - Flushed(done, replies) \in 0..max_pending_frames
      BY <1>11, EventLoopAssumption
    <2>3. 0 \in 0..max_pending_frames
      BY EventLoopAssumption
    <2>4. queue' = [d \in Conn |->
                    IF d = c THEN (IF Shut(done, replies) THEN 0
                                   ELSE Output(replies) - Flushed(done, replies))
                    ELSE IF d \in told THEN queue[d] + 1 ELSE queue[d]]
      BY <1>3
    <2> HIDE DEF Shut
    <2> QED
      BY <2>1, <2>2, <2>3, <2>4 DEF TypeOK
  <1>13. window' \in [Conn -> 0..Window]
    <2>1. window[c] + Flushed(done, replies) \in 0..Window
      BY <1>11, EventLoopAssumption DEF TypeOK
    <2> QED
      BY <1>3, <2>1 DEF TypeOK
  <1>14. idle' \subseteq idle /\ dropped' \subseteq Conn
    BY <1>3 DEF TypeOK
  <1>15. \/ stage' = stage /\ pending_erase' = pending_erase
         \/ /\ stage' = [stage EXCEPT ![c] = "closed"]
            /\ pending_erase' \subseteq pending_erase \cup {c}
    <2>1. /\ stage' = [stage EXCEPT ![c] = IF Shut(done, replies) THEN "closed" ELSE @]
          /\ pending_erase' = IF TornDown(done, replies) THEN pending_erase \cup {c}
                              ELSE pending_erase
      BY <1>3
    <2>2. CASE Shut(done, replies)
      BY <2>1, <2>2, Zenon
    <2>3. CASE ~Shut(done, replies)
      BY <2>1, <2>3 DEF TypeOK
    <2> QED
      BY <2>2, <2>3
  <1> QED
    BY <1>9, <1>10, <1>12, <1>13, <1>14, <1>15
(* Fewer or as many connections stay within the limit. *)
LEMMA LimitKept ==
  ASSUME WithinLimit, connections' \subseteq connections
  PROVE  WithinLimit'
  <1>1. IsFiniteSet(Conn) /\ connections \in SUBSET Conn
    BY FS_Interval, EventLoopAssumption DEF Conn, connections
  <1>2. IsFiniteSet(connections)
    BY <1>1, FS_Subset
  <1> DEFINE new == connections'
  <1>3. new \in SUBSET connections
    OBVIOUS
  <1> HIDE DEF new
  <1>4. Cardinality(new) <= Cardinality(connections) /\ IsFiniteSet(new)
    BY <1>2, <1>3, FS_Subset
  <1>5. Cardinality(new) \in Nat /\ Cardinality(connections) \in Nat /\ max_connections \in Nat
    BY <1>2, <1>4, FS_CardinalityType, EventLoopAssumption
  <1>6. Cardinality(new) <= max_connections
    BY <1>4, <1>5 DEF WithinLimit
  <1> QED
    BY <1>6 DEF WithinLimit, new

(* A step that touches neither the stages nor what was polled. *)
LEMMA StagesKept ==
  ASSUME LInv, TypeOK', ReadWasSent', UNCHANGED <<stage, reported, phase, items, pending_erase>>
  PROVE  LInv'
  <1>1. PolledAreOpen' /\ ErasedAreClosed' /\ SweptIsClean' /\ ReportedExactlyOnce'
    BY DEF LInv, PolledAreOpen, ready, ErasedAreClosed, SweptIsClean, ReportedExactlyOnce
  <1>2. connections' \subseteq connections
    BY DEF connections
  <1> QED
    BY <1>1, <1>2, LimitKept DEF LInv

(* The initial states satisfy LInv.                                          *)
LEMMA InvInit == Init => LInv
  <1> SUFFICES ASSUME Init PROVE LInv
    OBVIOUS
  <1>1. TypeOK
    <2>1. NoItem \in Item
      BY DEF NoItem, Item
    <2>2. 0 - 0 * FrameSize = 0
      BY EventLoopAssumption
    <2> QED
      BY <2>1, <2>2, EventLoopAssumption DEF Init, TypeOK, Stage
  <1>2. ReadWasSent /\ ErasedAreClosed /\ SweptIsClean /\ ReportedExactlyOnce
    BY DEF Init, ReadWasSent, ErasedAreClosed, SweptIsClean, ReportedExactlyOnce
  <1>3. PolledAreOpen
    BY DEF Init, PolledAreOpen, ready, NoItem
  <1>4. WithinLimit
    <2>1. connections = {}
      BY DEF Init, connections
    <2> QED
      BY <2>1, FS_EmptySet, EventLoopAssumption DEF WithinLimit
  <1> QED
    BY <1>1, <1>2, <1>3, <1>4 DEF LInv

(* The peers. *)
LEMMA InvPeers ==
  ASSUME LInv, NEW c \in Conn, dial(c) \/ peer_sends(c) \/ peer_reads(c) \/ peer_ends(c)
  PROVE  LInv'
  <1>1. CASE dial(c)
    <2>1. TypeOK' /\ ReadWasSent'
      BY <1>1 DEF LInv, dial, TypeOK, ReadWasSent, Stage
    <2>2. \A d \in Conn : stage'[d] = IF d = c THEN "backlog" ELSE stage[d]
      BY <1>1 DEF LInv, dial, TypeOK
    <2>3. stage[c] = "none"
      BY <1>1 DEF dial
    <2>4. UNCHANGED <<reported, phase, items, pending_erase>>
      BY <1>1 DEF dial
    <2>5. PolledAreOpen' /\ ErasedAreClosed' /\ SweptIsClean' /\ ReportedExactlyOnce'
      BY <2>2, <2>3, <2>4
         DEF LInv, PolledAreOpen, ready, ErasedAreClosed, SweptIsClean, ReportedExactlyOnce, TypeOK
    <2>6. connections' \subseteq connections
      BY <2>2 DEF connections
    <2> QED
      BY <2>1, <2>5, <2>6, LimitKept DEF LInv
  <1>2. CASE peer_sends(c)
    <2>1. PICK units \in 1..(MaxSent - MapThenSumSet(LAMBDA d : sent[d], Conn)) :
            sent' = [sent EXCEPT ![c] = @ + units]
      BY <1>2, Zenon DEF peer_sends
    <2>2. units \in Nat
      BY <2>1
    <2>3. sent' \in [Conn -> Nat] /\ \A d \in Conn : received[d] <= sent'[d]
      BY <2>1, <2>2 DEF LInv, TypeOK, ReadWasSent
    <2>4. UNCHANGED <<stage, ended, received, handled, queue, window, reported, idle, dropped,
                      phase, items, pending_erase, timers>>
      BY <1>2 DEF peer_sends
    <2>5. TypeOK' /\ ReadWasSent'
      BY <2>3, <2>4 DEF LInv, TypeOK, ReadWasSent
    <2> QED
      BY <2>4, <2>5, StagesKept
  <1>3. CASE peer_reads(c)
    <2>1. TypeOK' /\ ReadWasSent'
      BY <1>3, EventLoopAssumption DEF LInv, peer_reads, TypeOK, ReadWasSent
    <2> QED
      BY <1>3, <2>1, StagesKept DEF peer_reads
  <1>4. CASE peer_ends(c)
    <2>1. sent' \in [Conn -> Nat] /\ \A d \in Conn : received[d] <= sent'[d]
      <3>1. CASE UNCHANGED sent
        BY <3>1 DEF LInv, TypeOK, ReadWasSent
      <3>2. ASSUME NEW units \in received[c]..sent[c], sent' = [sent EXCEPT ![c] = units]
            PROVE  sent' \in [Conn -> Nat] /\ \A d \in Conn : received[d] <= sent'[d]
        BY <3>2 DEF LInv, TypeOK, ReadWasSent
      <3> QED
        BY <1>4, <3>1, <3>2 DEF peer_ends
    <2>2. ended' \in [Conn -> {"no", "eof", "reset"}]
      BY <1>4 DEF peer_ends, LInv, TypeOK
    <2>3. UNCHANGED <<stage, received, handled, queue, window, reported, idle, dropped,
                      phase, items, pending_erase, timers>>
      BY <1>4 DEF peer_ends
    <2>4. TypeOK' /\ ReadWasSent'
      BY <2>1, <2>2, <2>3 DEF LInv, TypeOK, ReadWasSent
    <2> QED
      BY <2>3, <2>4, StagesKept
  <1> QED
    BY <1>1, <1>2, <1>3, <1>4
(* fire_due_timers keeps LInv.                                               *)
LEMMA InvTimers ==
  ASSUME LInv, fire_due_timers
  PROVE  LInv'
  <1>0. /\ phase = "timers" /\ phase' = "sweep"
        /\ UNCHANGED <<peerVars, received, handled, reported, idle, items, pending_erase>>
    BY DEF fire_due_timers
  <1> DEFINE Typed == /\ stage' \in [Conn -> Stage] /\ queue' \in [Conn -> 0..max_pending_frames]
                      /\ dropped' \subseteq Conn /\ timers' \in 0..MaxTimer
             Closes == \A d \in Conn :
                         stage'[d] = stage[d] \/ (stage[d] = "open" /\ stage'[d] = "closed")
  <1>1. Typed /\ Closes
    <2>1. CASE UNCHANGED <<stage, queue, dropped, timers>>
      BY <2>1 DEF LInv, TypeOK
    <2>2. ASSUME NEW c \in Conn, stage[c] = "open", timers < MaxTimer, timers' = timers + 1,
                 close({c}), dropped' = dropped \cup {c}
          PROVE  Typed /\ Closes
      <3>1. timers' \in 0..MaxTimer
        BY <2>2, EventLoopAssumption DEF LInv, TypeOK
      <3>2. 0 \in 0..max_pending_frames
        BY EventLoopAssumption
      <3> QED
        BY <2>2, <3>1, <3>2 DEF close, LInv, TypeOK, Stage
    <2>3. ASSUME NEW c \in Conn, timers < MaxTimer, timers' = timers + 1, queue_room(c),
                 queue' = [queue EXCEPT ![c] = @ + 1], UNCHANGED <<stage, dropped>>
          PROVE  Typed /\ Closes
      <3>1. timers' \in 0..MaxTimer
        BY <2>3, EventLoopAssumption DEF LInv, TypeOK
      <3>2. queue[c] + 1 \in 0..max_pending_frames
        BY <2>3, EventLoopAssumption DEF queue_room, LInv, TypeOK
      <3> QED
        BY <2>3, <3>1, <3>2 DEF LInv, TypeOK
    <2> HIDE DEF Typed, Closes
    <2> QED
      BY <2>1, <2>2, <2>3, Zenon DEF fire_due_timers
  <1>2. TypeOK' /\ ReadWasSent'
    BY <1>0, <1>1 DEF peerVars, LInv, TypeOK, ReadWasSent
  <1>3. PolledAreOpen' /\ ErasedAreClosed' /\ SweptIsClean' /\ ReportedExactlyOnce'
    BY <1>0, <1>1
       DEF LInv, PolledAreOpen, ready, ErasedAreClosed, SweptIsClean, ReportedExactlyOnce, TypeOK
  <1>4. connections' \subseteq connections
    BY <1>1 DEF connections
  <1> QED
    BY <1>2, <1>3, <1>4, LimitKept DEF LInv

(* sweep_connections keeps LInv: what it reports it erases, once.            *)
LEMMA InvSweep ==
  ASSUME LInv, sweep_connections
  PROVE  LInv'
  <1> DEFINE known == {c \in pending_erase : stage[c] = "closed" /\ reported[c] = 0}
             expired == {c \in idle : stage[c] = "open"}
             found == (closed \ pending_erase) \cup expired
             swept == pending_erase \cup found
  <1>0. /\ phase = "sweep" /\ phase' = "poll"
        /\ reported' = [c \in Conn |-> reported[c] + (IF c \in known \cup found THEN 1 ELSE 0)]
        /\ stage' = [c \in Conn |-> IF c \in swept THEN "erased" ELSE stage[c]]
        /\ queue' = [c \in Conn |-> IF c \in swept THEN 0 ELSE queue[c]]
        /\ dropped' = dropped \cup expired
        /\ pending_erase' = {}
        /\ UNCHANGED <<peerVars, received, handled, idle, items, timers>>
    BY DEF sweep_connections
  <1>1. known = pending_erase
    BY DEF LInv, ErasedAreClosed, ReportedExactlyOnce, TypeOK
  <1>2. /\ \A c \in swept : stage[c] \in {"open", "closed"} /\ c \in Conn
        /\ \A c \in Conn : stage[c] = "closed" => c \in swept
        /\ expired \subseteq Conn
    BY DEF LInv, ErasedAreClosed, closed, TypeOK
  <1>3. \A c \in Conn : reported'[c] = reported[c] + (IF c \in swept THEN 1 ELSE 0)
    BY <1>0, <1>1
  <1> HIDE DEF known, found, swept, expired
  <1>4. reported' \in [Conn -> Nat]
    <2>1. \A c \in Conn : reported[c] + (IF c \in known \cup found THEN 1 ELSE 0) \in Nat
      BY DEF LInv, TypeOK
    <2> QED
      BY <1>0, <2>1
  <1>5. stage' \in [Conn -> Stage] /\ queue' \in [Conn -> 0..max_pending_frames]
    <2>1. 0 \in 0..max_pending_frames
      BY EventLoopAssumption
    <2> QED
      BY <1>0, <2>1 DEF LInv, TypeOK, Stage
  <1>6. TypeOK' /\ ReadWasSent'
    BY <1>0, <1>2, <1>4, <1>5 DEF peerVars, LInv, TypeOK, ReadWasSent
  <1>7. ReportedExactlyOnce'
    <2> SUFFICES ASSUME NEW c \in Conn
                 PROVE  reported'[c] = IF stage'[c] = "erased" THEN 1 ELSE 0
      BY DEF ReportedExactlyOnce
    <2>1. reported[c] = IF stage[c] = "erased" THEN 1 ELSE 0
      BY DEF LInv, ReportedExactlyOnce
    <2>2. CASE c \in swept
      <3>1. reported[c] = 0
        BY <1>2, <2>1, <2>2
      <3>2. reported'[c] = 0 + 1
        BY <1>3, <2>2, <3>1
      <3>3. stage'[c] = "erased"
        BY <1>0, <2>2
      <3> QED
        BY <3>2, <3>3
    <2>3. CASE c \notin swept
      <3>1. reported[c] \in Nat
        BY DEF LInv, TypeOK
      <3>2. reported'[c] = reported[c]
        BY <1>3, <2>3, <3>1
      <3> QED
        BY <1>0, <2>1, <2>3, <3>2
    <2> QED
      BY <2>2, <2>3
  <1>8. PolledAreOpen' /\ ErasedAreClosed' /\ SweptIsClean'
    BY <1>0, <1>2 DEF LInv, PolledAreOpen, ready, ErasedAreClosed, SweptIsClean
  <1>9. connections' \subseteq connections
    BY <1>0 DEF connections
  <1> QED
    BY <1>6, <1>7, <1>8, <1>9, LimitKept DEF LInv

(* poll_sockets keeps LInv.                                                  *)
LEMMA InvPoll ==
  ASSUME LInv, poll_sockets
  PROVE  LInv'
  <1> DEFINE open == {c \in Conn : stage[c] = "open"}
             Polled(c) == [readable |-> unread(c), writable |-> want_write(c) /\ window[c] < Window,
                           failed |-> ended[c] = "reset"]
  <1>0. /\ phase = "poll" /\ phase' = "accept"
        /\ items' = [c \in Conn |-> IF c \in open THEN Polled(c) ELSE NoItem]
        /\ pending_erase' = pending_erase \cup closed
        /\ UNCHANGED <<peerVars, stage, received, handled, queue, reported, dropped, timers>>
    BY DEF poll_sockets
  <1>1. idle' \subseteq Conn
    BY DEF poll_sockets, LInv, TypeOK
  <1>2. items' \in [Conn -> Item]
    <2>1. NoItem \in Item
      BY DEF NoItem, Item
    <2>2. \A c \in Conn : Polled(c) \in Item
      BY DEF Item, unread, want_write
    <2> HIDE DEF Polled
    <2> QED
      BY <1>0, <2>1, <2>2
  <1>3. \A c \in Conn : stage[c] # "open" => ~ready(c)'
    <2>1. \A c \in Conn : stage[c] # "open" => items'[c] = NoItem
      BY <1>0
    <2> QED
      BY <2>1 DEF ready, NoItem
  <1> HIDE DEF Polled
  <1>4. closed = {}
    BY <1>0 DEF LInv, SweptIsClean, closed
  <1>5. TypeOK' /\ ReadWasSent'
    BY <1>0, <1>1, <1>2, <1>4 DEF peerVars, LInv, TypeOK, ReadWasSent
  <1>6. PolledAreOpen'
    BY <1>0, <1>3 DEF PolledAreOpen
  <1>7. ErasedAreClosed' /\ SweptIsClean' /\ ReportedExactlyOnce'
    BY <1>0, <1>4 DEF LInv, ErasedAreClosed, SweptIsClean, ReportedExactlyOnce
  <1>8. connections' \subseteq connections
    BY <1>0 DEF connections
  <1> QED
    BY <1>5, <1>6, <1>7, <1>8, LimitKept DEF LInv

(* A connection is adopted only where there is room for it. *)
LEMMA InvAccept ==
  ASSUME LInv, accept
  PROVE  LInv'
  <1> DEFINE backlog == {c \in Conn : stage[c] = "backlog"}
             c == first(backlog)
  <1>0. /\ phase = "accept"
        /\ UNCHANGED <<peerVars, received, handled, queue, reported, idle, items,
                       pending_erase, timers>>
    BY DEF accept
  <1>1. CASE backlog = {}
    <2>1. phase' = "serve" /\ UNCHANGED <<stage, dropped>>
      BY <1>1 DEF accept
    <2>2. TypeOK' /\ ReadWasSent'
      BY <1>0, <2>1 DEF peerVars, LInv, TypeOK, ReadWasSent
    <2>3. PolledAreOpen' /\ ErasedAreClosed' /\ SweptIsClean' /\ ReportedExactlyOnce'
      BY <1>0, <2>1
         DEF LInv, PolledAreOpen, ready, ErasedAreClosed, SweptIsClean, ReportedExactlyOnce
    <2>4. connections' \subseteq connections
      BY <2>1 DEF connections
    <2> QED
      BY <2>2, <2>3, <2>4, LimitKept DEF LInv
  <1>2. CASE backlog # {}
    <2>1. /\ stage' = [stage EXCEPT ![c] = IF room THEN "open" ELSE "refused"]
          /\ dropped' = IF room THEN dropped ELSE dropped \cup {c}
          /\ phase' = phase
      BY <1>2 DEF accept
    <2>2. c \in Conn /\ stage[c] = "backlog"
      BY <1>2, FirstIn
    <2> HIDE DEF c, backlog
    <2>3. TypeOK' /\ ReadWasSent'
      BY <1>0, <2>1, <2>2 DEF peerVars, LInv, TypeOK, ReadWasSent, Stage
    <2>4. \A d \in Conn : stage'[d] = IF d = c THEN (IF room THEN "open" ELSE "refused")
                                      ELSE stage[d]
      BY <2>1 DEF LInv, TypeOK
    <2>5. PolledAreOpen' /\ ErasedAreClosed' /\ SweptIsClean' /\ ReportedExactlyOnce'
      BY <1>0, <2>1, <2>2, <2>4
         DEF LInv, PolledAreOpen, ready, ErasedAreClosed, SweptIsClean, ReportedExactlyOnce, TypeOK
    <2>6. WithinLimit'
      <3>1. CASE ~room
        <4>1. connections' \subseteq connections
          BY <2>2, <2>4, <3>1 DEF connections
        <4> QED
          BY <4>1, LimitKept DEF LInv
      <3>2. CASE room
        <4> DEFINE old == connections
        <4>1. connections' = old \cup {c}
          BY <2>2, <2>4, <3>2 DEF connections
        <4>2. IsFiniteSet(Conn) /\ old \in SUBSET Conn /\ c \notin old
          BY <2>2, FS_Interval, EventLoopAssumption DEF Conn, connections
        <4>3. Cardinality(old) < max_connections
          BY <3>2 DEF room
        <4> HIDE DEF old
        <4>4. IsFiniteSet(old)
          BY <4>2, FS_Subset
        <4>5. Cardinality(old \cup {c}) = Cardinality(old) + 1 /\ Cardinality(old) \in Nat
          BY <4>2, <4>4, FS_AddElement, FS_CardinalityType
        <4>6. Cardinality(old \cup {c}) <= max_connections
          BY <4>3, <4>5, EventLoopAssumption
        <4> QED
          BY <4>1, <4>6 DEF WithinLimit
      <3> QED
        BY <3>1, <3>2
    <2> QED
      BY <2>3, <2>5, <2>6 DEF LInv
  <1> QED
    BY <1>1, <1>2

(* pump, which serves one connection that poll returned, keeps LInv.         *)
LEMMA InvPump ==
  ASSUME LInv, pump
  PROVE  LInv'
  <1> DEFINE left == {c \in Conn : ready(c)}
             c == first(left)
  <1>0. phase = "serve" /\ UNCHANGED <<ended, sent, reported, timers>>
    BY DEF pump
  <1>1. CASE left = {}
    <2>1. /\ phase' = "timers"
          /\ UNCHANGED <<stage, received, handled, queue, window, idle, dropped, items, pending_erase>>
      BY <1>1 DEF pump
    <2>2. TypeOK' /\ ReadWasSent'
      BY <1>0, <2>1 DEF LInv, TypeOK, ReadWasSent
    <2>3. PolledAreOpen' /\ ErasedAreClosed' /\ SweptIsClean' /\ ReportedExactlyOnce'
      BY <1>0, <1>1, <2>1
         DEF LInv, PolledAreOpen, ready, ErasedAreClosed, SweptIsClean, ReportedExactlyOnce
    <2>4. connections' \subseteq connections
      BY <2>1 DEF connections
    <2> QED
      BY <2>2, <2>3, <2>4, LimitKept DEF LInv
  <1>2. CASE left # {}
    <2>1. serve(c) /\ items' = [items EXCEPT ![c] = NoItem] /\ phase' = phase
      BY <1>2 DEF pump
    <2>2. c \in Conn /\ ready(c)
      BY <1>2, FirstIn
    <2> HIDE DEF c, left
    <2>3. stage[c] = "open"
      BY <2>2 DEF LInv, PolledAreOpen
    <2>4. /\ received' \in [Conn -> Nat] /\ handled' \in [Conn -> Nat]
          /\ \A d \in Conn : received'[d] <= sent[d]
          /\ \A d \in Conn : received'[d] - handled'[d] * FrameSize \in 0..ParserBound
          /\ queue' \in [Conn -> 0..max_pending_frames] /\ window' \in [Conn -> 0..Window]
          /\ idle' \subseteq idle /\ dropped' \subseteq Conn
      BY <2>1, <2>2, Served DEF LInv
    <2>5. \/ stage' = stage /\ pending_erase' = pending_erase
          \/ /\ stage' = [stage EXCEPT ![c] = "closed"]
             /\ pending_erase' \subseteq pending_erase \cup {c}
      BY <2>1, <2>2, Served DEF LInv
    <2>6. /\ stage' \in [Conn -> Stage] /\ pending_erase' \subseteq Conn
          /\ \A d \in Conn : d # c => stage'[d] = stage[d]
          /\ \A d \in pending_erase' : stage'[d] = "closed"
          /\ stage'[c] \in {"open", "closed"}
      BY <2>2, <2>3, <2>5 DEF LInv, ErasedAreClosed, TypeOK, Stage
    <2>7. items' \in [Conn -> Item] /\ \A d \in Conn : items'[d] = IF d = c THEN NoItem ELSE items[d]
      <3>1. NoItem \in Item
        BY DEF NoItem, Item
      <3> QED
        BY <2>1, <2>2, <3>1 DEF LInv, TypeOK
    <2>7a. \A d \in Conn : ready(d)' => d # c /\ ready(d)
      <3>1. ~NoItem.readable /\ ~NoItem.writable /\ ~NoItem.failed
        BY DEF NoItem
      <3> QED
        BY <2>7, <3>1 DEF ready
    <2>8. TypeOK' /\ ReadWasSent'
      BY <1>0, <2>1, <2>4, <2>6, <2>7 DEF LInv, TypeOK, ReadWasSent
    <2>9. PolledAreOpen' /\ ErasedAreClosed' /\ SweptIsClean'
      BY <1>0, <2>1, <2>6, <2>7a DEF LInv, PolledAreOpen, ErasedAreClosed, SweptIsClean
    <2>10. ReportedExactlyOnce'
      BY <1>0, <2>3, <2>6 DEF LInv, ReportedExactlyOnce
    <2>11. connections' \subseteq connections
      BY <2>3, <2>6 DEF connections
    <2> QED
      BY <2>8, <2>9, <2>10, <2>11, LimitKept DEF LInv
  <1> QED
    BY <1>1, <1>2

(* Every step keeps LInv.                                                    *)
LEMMA InvNext == LInv /\ [Next]_vars => LInv'
  <1> SUFFICES ASSUME LInv, [Next]_vars PROVE LInv'
    OBVIOUS
  <1>1. CASE UNCHANGED vars
    <2>1. TypeOK' /\ ReadWasSent'
      BY <1>1 DEF vars, LInv, TypeOK, ReadWasSent
    <2> QED
      BY <1>1, <2>1, StagesKept DEF vars
  <1> QED
    BY <1>1, InvTimers, InvSweep, InvPoll, InvAccept, InvPump, InvPeers DEF Next

(* Every buffer and queue of the loop stays within its bound, for any limits: the
   parser holds less than it may, and no queue more frames than it takes
   (FrameParser::feed, Connection::queue_frame). *)
THEOREM LoopTyped == Spec => []TypeOK
  BY InvInit, InvNext, PTL DEF Spec, LInv

(* Every connection that was closed is reported exactly once, before it is erased,
   for any number of connections and whoever closed it (sweep_connections). *)
THEOREM LoopReports == Spec => []ReportedExactlyOnce
  BY InvInit, InvNext, PTL DEF Spec, LInv

(* The loop holds no more connections than its limit, for any limit (adopt). *)
THEOREM LoopWithinLimit == Spec => []WithinLimit
  BY InvInit, InvNext, PTL DEF Spec, LInv

(* The socket of a closed connection is never polled (sweep_connections,
   poll_sockets). *)
THEOREM LoopPollsOpen == Spec => []ClosedNotPolled
  <1>1. LInv => ClosedNotPolled
    BY DEF LInv, SweptIsClean, ClosedNotPolled
  <1> QED
    BY <1>1, InvInit, InvNext, PTL DEF Spec
=============================================================================
