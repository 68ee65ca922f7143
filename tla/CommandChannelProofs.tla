------------------------ MODULE CommandChannelProofs ------------------------
(***************************************************************************)
(* The safety properties of CommandChannel, for any set of threads and any *)
(* bound on their submissions.  They are proved together: that nothing is  *)
(* left behind EXIT follows from the order of consumption (Fifo) and from  *)
(* EXIT being the last command accepted (ExitIsLast), and the latter is    *)
(* kept by a push because a closed async means a queue that refuses.       *)
(***************************************************************************)
EXTENDS CommandChannel, SequenceTheorems, TLAPS

\* The async is closed only by a consumed EXIT, and EXIT stopped the queue.
ClosedAfterStop == async_closing => ~accepting

ChannelInv ==
  ChannelTypeInv /\ Fifo /\ ExitIsLast /\ NoLostWakeup /\ NothingAfterExit /\ ClosedAfterStop

\* The initial state satisfies the invariant.
LEMMA ChannelInit == Init => ChannelInv
<1> SUFFICES ASSUME Init
             PROVE  ChannelInv
  OBVIOUS
<1> USE DEF Init, queue_init
<1>1. ChannelTypeInv
  <2>1. submits \in [Threads -> 0 .. MaxSubmits]
    BY MaxSubmitsAssumption
  <2>2. queue \in Seq(Command) /\ log \in Seq(Command) /\ consumed \in Seq(Command)
    OBVIOUS
  <2> QED
    BY <2>1, <2>2, Zenon DEF ChannelTypeInv
<1>2. Fifo
  BY DEF Fifo
<1>3. ExitIsLast
  BY DEF ExitIsLast
<1>4. NoLostWakeup /\ NothingAfterExit /\ ClosedAfterStop
  BY DEF NoLostWakeup, NothingAfterExit, ClosedAfterStop
<1> QED
  BY <1>1, <1>2, <1>3, <1>4 DEF ChannelInv

\* Appending to the queue and to the log keeps Fifo: what the log says after the
\* append is what was consumed followed by what is queued.
LEMMA AppendFifo ==
  ASSUME NEW S, NEW c \in Seq(S), NEW q \in Seq(S), NEW x \in S
  PROVE  c \o Append(q, x) = Append(c \o q, x)
OBVIOUS

\* Popping the head of the queue keeps Fifo.
LEMMA PopFifo ==
  ASSUME NEW S, NEW c \in Seq(S), NEW q \in Seq(S), q # << >>
  PROVE  /\ Head(q) \in S /\ Tail(q) \in Seq(S)
         /\ Append(c, Head(q)) \o Tail(q) = c \o q
         /\ (c \o q)[Len(c) + 1] = Head(q)
         /\ Len(c \o q) = Len(c) + Len(q)
         /\ Len(q) = 1 => Tail(q) = << >>
<1> DEFINE a == Append(c, Head(q))
           t == Tail(q)
<1>1. /\ Head(q) \in S /\ Head(q) = q[1] /\ Len(q) \in Nat \ {0} /\ Len(c) \in Nat
      /\ t \in Seq(S) /\ Len(t) = Len(q) - 1 /\ \A i \in 1 .. Len(t) : t[i] = q[i + 1]
  BY HeadTailProperties, EmptySeq, LenProperties
<1>2. a \in Seq(S) /\ Len(a) = Len(c) + 1 /\ a[Len(c) + 1] = Head(q)
      /\ \A i \in 1 .. Len(c) : a[i] = c[i]
  BY <1>1, AppendProperties
<1> HIDE DEF a, t
<1>3. c \o q \in Seq(S) /\ Len(c \o q) = Len(c) + Len(q)
      /\ \A i \in 1 .. Len(c) + Len(q) : (c \o q)[i] = IF i <= Len(c) THEN c[i] ELSE q[i - Len(c)]
  BY ConcatProperties
<1>4. a \o t \in Seq(S) /\ Len(a \o t) = Len(a) + Len(t)
      /\ \A i \in 1 .. Len(a) + Len(t) : (a \o t)[i] = IF i <= Len(a) THEN a[i] ELSE t[i - Len(a)]
  BY Zenon, <1>1, <1>2, ConcatProperties
<1>5. Len(a \o t) = Len(c \o q)
  BY <1>1, <1>2, <1>3, <1>4
<1>6. ASSUME NEW i \in 1 .. Len(a \o t)
      PROVE  (a \o t)[i] = (c \o q)[i]
  <2>1. CASE i <= Len(c)
    BY <1>1, <1>2, <1>3, <1>4, <1>5, <2>1
  <2>2. CASE i = Len(c) + 1
    BY <1>1, <1>2, <1>3, <1>4, <1>5, <2>2
  <2>3. CASE i > Len(c) + 1
    <3>1. i - Len(a) \in 1 .. Len(t) /\ i - Len(a) + 1 = i - Len(c) /\ ~(i <= Len(a))
      BY <1>1, <1>2, <1>4, <2>3
    <3>2. (a \o t)[i] = t[i - Len(a)]
      BY <1>1, <1>2, <1>4, <3>1
    <3>3. t[i - Len(a)] = q[i - Len(c)]
      BY Zenon, <1>1, <3>1
    <3>4. (c \o q)[i] = q[i - Len(c)]
      BY <1>1, <1>3, <1>5, <2>3
    <3> QED
      BY <3>2, <3>3, <3>4
  <2> QED
    BY <1>1, <1>4, <1>5, <2>1, <2>2, <2>3
<1>7. a \o t = c \o q
  BY <1>3, <1>4, <1>5, <1>6, SeqEqual
<1>8. (c \o q)[Len(c) + 1] = Head(q)
  BY <1>1, <1>3
<1>9. Len(q) = 1 => t = << >>
  BY <1>1, EmptySeq
<1> QED
  BY <1>1, <1>3, <1>7, <1>8, <1>9 DEF a, t

\* Submit: the command goes to the end of the queue and of the log.
LEMMA SubmitStep ==
  ASSUME ChannelInv, NEW t \in Threads, Submit(t)
  PROVE  ChannelInv'
<1> DEFINE c == NewCommand(t, "REQUEST")
<1> USE DEF ChannelInv
<1>1. c \in Command /\ c.type = "REQUEST"
  BY DEF Command, NewCommand, ChannelTypeInv
<1>2. submits' \in [Threads -> 0 .. MaxSubmits]
  BY MaxSubmitsAssumption DEF Submit, Begin, ChannelTypeInv
<1>3. CASE queue_refuses(c) /\ UNCHANGED <<queue, accepting, pc, log>>
  BY <1>2, <1>3 DEF Submit, ChannelTypeInv, Fifo, ExitIsLast, NoLostWakeup,
                    NothingAfterExit, ClosedAfterStop
<1>4. CASE queue_push(c) /\ pc' = [pc EXCEPT ![t] = "wake"] /\ log' = Append(log, c)
  <2>1. accepting /\ accepting' = accepting /\ queue' = Append(queue, c)
    BY <1>4 DEF queue_push, queue_refuses
  <2>2. ChannelTypeInv'
    BY <1>1, <1>2, <1>4, <2>1 DEF Submit, ChannelTypeInv
  <2>3. Fifo'
    <3>1. consumed \in Seq(Command) /\ queue \in Seq(Command) /\ log = consumed \o queue
      BY DEF Fifo, ChannelTypeInv
    <3>2. consumed' = consumed
      BY DEF Submit
    <3>3. consumed \o Append(queue, c) = Append(consumed \o queue, c)
      BY <1>1, <3>1, AppendFifo
    <3> QED
      BY <1>4, <2>1, <3>1, <3>2, <3>3, Zenon DEF Fifo
  <2>4. ExitIsLast'
    BY <1>1, <1>4, <2>1 DEF ExitIsLast, ChannelTypeInv
  <2>5. NoLostWakeup'
    BY <1>4 DEF NoLostWakeup, ChannelTypeInv
  <2>6. NothingAfterExit' /\ ClosedAfterStop'
    BY <2>1 DEF Submit, NothingAfterExit, ClosedAfterStop
  <2> QED
    BY <2>2, <2>3, <2>4, <2>5, <2>6
<1> QED
  BY <1>3, <1>4 DEF Submit

\* Exit: EXIT goes to the end, and the queue accepts nothing from then on.
LEMMA ExitStep ==
  ASSUME ChannelInv, NEW t \in Threads, Exit(t)
  PROVE  ChannelInv'
<1> DEFINE c == NewCommand(t, "EXIT")
<1> USE DEF ChannelInv
<1>1. c \in Command /\ c.type = "EXIT"
  BY DEF Command, NewCommand, ChannelTypeInv
<1>2. submits' \in [Threads -> 0 .. MaxSubmits]
  BY MaxSubmitsAssumption DEF Exit, Begin, ChannelTypeInv
<1>3. CASE ~accepting /\ UNCHANGED <<queue, accepting, pc, log>>
  BY <1>2, <1>3 DEF Exit, ChannelTypeInv, Fifo, ExitIsLast, NoLostWakeup,
                    NothingAfterExit, ClosedAfterStop
<1>4. CASE queue_stop(c) /\ pc' = [pc EXCEPT ![t] = "wake"] /\ log' = Append(log, c)
  <2>1. accepting /\ accepting' = FALSE /\ queue' = Append(queue, c)
    BY <1>4 DEF queue_stop
  <2>2. ChannelTypeInv'
    <3>1. queue' \in Seq(Command) /\ log' \in Seq(Command)
      BY <1>1, <1>4, <2>1 DEF ChannelTypeInv
    <3>2. pc' \in [Threads -> {"idle", "wake"}]
      BY <1>4 DEF ChannelTypeInv
    <3> QED
      BY <1>2, <2>1, <3>1, <3>2, Zenon DEF Exit, ChannelTypeInv
  <2>3. Fifo'
    <3>1. consumed \in Seq(Command) /\ queue \in Seq(Command) /\ log = consumed \o queue
      BY DEF Fifo, ChannelTypeInv
    <3>2. consumed' = consumed
      BY DEF Exit
    <3>3. consumed \o Append(queue, c) = Append(consumed \o queue, c)
      BY <1>1, <3>1, AppendFifo
    <3> QED
      BY <1>4, <2>1, <3>1, <3>2, <3>3, Zenon DEF Fifo
  <2>4. ExitIsLast'
    BY <1>1, <1>4, <2>1 DEF ExitIsLast, ChannelTypeInv
  <2>5. NoLostWakeup'
    BY <1>4 DEF NoLostWakeup, ChannelTypeInv
  <2>6. NothingAfterExit' /\ ClosedAfterStop'
    BY <2>1 DEF Exit, NothingAfterExit, ClosedAfterStop
  <2> QED
    BY <2>2, <2>3, <2>4, <2>5, <2>6
<1> QED
  BY <1>3, <1>4 DEF Exit

\* Consume: the head of the queue moves to the end of what was consumed.
LEMMA ConsumeStep ==
  ASSUME ChannelInv, Consume
  PROVE  ChannelInv'
<1> USE DEF ChannelInv
<1>1. queue # << >> /\ queue' = Tail(queue) /\ accepting' = accepting
  BY DEF Consume, queue_pop
<1>2. queue \in Seq(Command) /\ consumed \in Seq(Command) /\ log \in Seq(Command)
  BY DEF ChannelTypeInv
<1>3. Head(queue) \in Command /\ Tail(queue) \in Seq(Command)
  BY <1>1, <1>2, PopFifo
<1>4. ChannelTypeInv'
  BY <1>1, <1>3 DEF Consume, ChannelTypeInv
<1>5. Fifo'
  BY <1>1, <1>2, PopFifo, Zenon DEF Consume, Fifo
<1>6. Head(queue).type = "EXIT" => Tail(queue) = << >> /\ ~accepting
  <2> SUFFICES ASSUME Head(queue).type = "EXIT"
               PROVE  Tail(queue) = << >> /\ ~accepting
    OBVIOUS
  <2>1. log[Len(consumed) + 1] = Head(queue) /\ Len(log) = Len(consumed) + Len(queue)
    BY <1>1, <1>2, PopFifo DEF Fifo
  <2>2. Len(queue) >= 1 /\ Len(consumed) \in Nat /\ Len(queue) \in Nat
    BY <1>1, <1>2
  <2>3. Len(consumed) + 1 \in 1 .. Len(log)
    BY <2>1, <2>2
  <2>4. Len(consumed) + 1 = Len(log) /\ ~accepting
    BY <2>1, <2>3 DEF ExitIsLast
  <2>5. Len(queue) = 1
    <3>1. Len(consumed) + 1 = Len(consumed) + Len(queue)
      BY <2>1, <2>4
    <3>2. \A m, n \in Nat : m + 1 = m + n => n = 1
      OBVIOUS
    <3> HIDE DEF ChannelInv
    <3> QED
      BY <2>2, <3>1, <3>2, Zenon
  <2> QED
    BY <1>1, <1>2, <2>4, <2>5, PopFifo
<1>7. ExitIsLast'
  BY <1>1 DEF Consume, ExitIsLast
<1>8. NoLostWakeup'
  BY DEF Consume, NoLostWakeup
<1>9. NothingAfterExit' /\ ClosedAfterStop'
  BY <1>1, <1>6, Zenon DEF Consume, NothingAfterExit, ClosedAfterStop
<1> QED
  BY <1>4, <1>5, <1>7, <1>8, <1>9

\* The remaining steps touch neither the queue nor the log.
LEMMA OtherSteps ==
  ASSUME ChannelInv,
         (\E t \in Threads : Wake(t)) \/ AsyncCallback \/ StopPopping \/ Return
  PROVE  ChannelInv'
<1> USE DEF ChannelInv, ChannelTypeInv, Fifo, ExitIsLast, NoLostWakeup, NothingAfterExit,
            ClosedAfterStop
<1>1. CASE \E t \in Threads : Wake(t)
  BY <1>1 DEF Wake
<1>2. CASE AsyncCallback
  BY <1>2, Zenon DEF AsyncCallback
<1>3. CASE StopPopping
  BY <1>3 DEF StopPopping
<1>4. CASE Return
  BY <1>4 DEF Return
<1> QED
  BY <1>1, <1>2, <1>3, <1>4, Zenon

\* ChannelInv is an invariant of the channel.
THEOREM ChannelInvariance == Spec => []ChannelInv
<1>1. ChannelInv /\ [Next]_vars => ChannelInv'
  <2> SUFFICES ASSUME ChannelInv, [Next]_vars
               PROVE  ChannelInv'
    OBVIOUS
  <2>1. CASE UNCHANGED vars
    BY <2>1 DEF vars, ChannelInv, ChannelTypeInv, Fifo, ExitIsLast, NoLostWakeup,
                NothingAfterExit, ClosedAfterStop
  <2>2. CASE Next
    BY <2>2, SubmitStep, ExitStep, ConsumeStep, OtherSteps DEF Next, Loop
  <2> QED
    BY <2>1, <2>2
<1> QED
  BY <1>1, ChannelInit, PTL DEF Spec

\* Types of the channel.
THEOREM ChannelTypeCorrect == Spec => []ChannelTypeInv
BY ChannelInvariance, PTL DEF ChannelInv

\* Commands are consumed in order, none lost and none twice.
THEOREM ChannelFifo == Spec => []Fifo
BY ChannelInvariance, PTL DEF ChannelInv

\* EXIT is the last command ever accepted.
THEOREM ExitAcceptedLast == Spec => []ExitIsLast
BY ChannelInvariance, PTL DEF ChannelInv

\* No wake-up is lost between the append and the callback.
THEOREM WakeupNotLost == Spec => []NoLostWakeup
BY ChannelInvariance, PTL DEF ChannelInv

\* After EXIT was consumed the queue stays empty.
THEOREM QueueEmptyAfterExit == Spec => []NothingAfterExit
BY ChannelInvariance, PTL DEF ChannelInv
=============================================================================
