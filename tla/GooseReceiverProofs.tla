------------------------- MODULE GooseReceiverProofs -------------------------
(***************************************************************************)
(* The safety of the GOOSE receiver holds for any subscribers, filters and *)
(* frames, and any number of calls of Start and Stop.                      *)
(*                                                                         *)
(* Each part of ReceiverInv has a lemma saying that a step preserves it;   *)
(* the hypotheses of the lemma are the parts it rests on.                  *)
(***************************************************************************)
EXTENDS GooseReceiver, TLAPS

USE ReceiverAssumption
USE DEF Loop, NoSocket, apiVars, loopVars

-----------------------------------------------------------------------------
(* Sequences of frames and of subscribers. *)

\* The elements of a sequence.
LEMMA ElementOf ==
  ASSUME NEW S, NEW q \in Seq(S), NEW i \in 1..Len(q)
  PROVE  q[i] \in S
  OBVIOUS

\* The first element of a queue and the ones behind it.
LEMMA HeadAndTail ==
  ASSUME NEW S, NEW q \in Seq(S), q # << >>
  PROVE  /\ Head(q) \in S /\ Head(q) = q[1] /\ 1 \in 1..Len(q)
         /\ Tail(q) \in Seq(S) /\ Len(Tail(q)) = Len(q) - 1
         /\ \A i \in 1..Len(Tail(q)) : Tail(q)[i] = q[i + 1] /\ i + 1 \in 1..Len(q)
  OBVIOUS

\* An element that is appended comes last.
LEMMA AppendLast ==
  ASSUME NEW S, NEW q \in Seq(S), NEW x \in S
  PROVE  /\ Append(q, x) \in Seq(S) /\ Len(Append(q, x)) = Len(q) + 1
         /\ Append(q, x)[Len(q) + 1] = x
         /\ \A i \in 1..Len(q) : Append(q, x)[i] = q[i]
  OBVIOUS

\* The tail of a list without duplicates has none, and does not hold its head.
LEMMA TailUnique ==
  ASSUME NEW S, NEW q \in Seq(S), q # << >>, IsInjective(q)
  PROVE  /\ IsInjective(Tail(q))
         /\ \A s \in S : Contains(Tail(q), s) => Contains(q, s) /\ s # Head(q)
         /\ Contains(q, Head(q))
<1>1. /\ Head(q) = q[1] /\ 1 \in 1..Len(q) /\ DOMAIN q = 1..Len(q)
      /\ Len(Tail(q)) = Len(q) - 1 /\ DOMAIN Tail(q) = 1..Len(Tail(q))
      /\ \A i \in 1..Len(Tail(q)) : Tail(q)[i] = q[i + 1] /\ i + 1 \in 1..Len(q)
  OBVIOUS
<1>2. \A i, j \in 1..Len(q) : q[i] = q[j] => i = j
  BY <1>1 DEF IsInjective
<1>3. \A i, j \in 1..Len(Tail(q)) : Tail(q)[i] = Tail(q)[j] => i = j
  BY <1>1, <1>2
<1>4. \A i \in 1..Len(Tail(q)) : Tail(q)[i] # q[1]
  BY <1>1, <1>2
<1> QED
  BY <1>1, <1>3, <1>4 DEF IsInjective, Contains

\* A sequence without duplicates had none before its last element was appended.
LEMMA BeforeAppend ==
  ASSUME NEW S, NEW q \in Seq(S), NEW x \in S, IsInjective(Append(q, x))
  PROVE  IsInjective(q)
<1> SUFFICES ASSUME NEW r, r = Append(q, x), IsInjective(r) PROVE IsInjective(q)
  OBVIOUS
<1>1. /\ r \in Seq(S) /\ Len(r) = Len(q) + 1 /\ Len(q) \in Nat
      /\ \A i \in 1..Len(q) : r[i] = q[i]
  BY AppendLast
<1>2. \A i, j \in 1..Len(r) : r[i] = r[j] => i = j
  BY <1>1 DEF IsInjective
<1>3. \A i, j \in 1..Len(q) : q[i] = q[j] => i = j
  BY <1>1, <1>2
<1> QED
  BY <1>3 DEF IsInjective

-----------------------------------------------------------------------------
(* Types. *)

\* A step keeps the types.
LEMMA TypeStep ==
  ASSUME TypeOK, DecodedInv, [Next]_vars
  PROVE  TypeOK'
<1> USE DEF TypeOK, LoopStep
<1>1. ASSUME NEW s \in Subscriber, AddSubscriber(s) PROVE TypeOK'
  BY <1>1 DEF AddSubscriber
<1>2. ASSUME NEW s \in Subscriber, SetGoCBRef(s) PROVE TypeOK'
  BY <1>2 DEF SetGoCBRef
<1>3. CASE Start
  BY <1>3 DEF Start
<1>4. CASE Stop
  BY <1>4 DEF Stop
<1>5. CASE StopClose
  BY <1>5 DEF StopClose
<1>6. ASSUME NEW n \in Loop, Recvfrom(n) PROVE TypeOK'
  BY <1>6 DEF Recvfrom
<1>7. ASSUME NEW n \in Loop, ReceiveFrame(n) PROVE TypeOK'
  <2>1. Head(queue[n]) \in Frame /\ Tail(queue[n]) \in Seq(Frame)
    BY <1>7, HeadAndTail DEF ReceiveFrame
  <2>2. /\ current' \in [Loop -> Frame \cup {NoFrame}]
        /\ queue' \in [Loop -> Seq(Frame)]
    BY <1>7, <2>1 DEF ReceiveFrame
  <2> QED
    BY <1>7, <2>2 DEF ReceiveFrame
<1>8. ASSUME NEW n \in Loop, TakeSubscribers(n) PROVE TypeOK'
  BY <1>8 DEF TakeSubscribers
<1>9. ASSUME NEW n \in Loop, Dispatch(n) PROVE TypeOK'
  <2>1. Head(subs[n]) \in Subscriber /\ Tail(subs[n]) \in Seq(Subscriber)
    BY <1>9, HeadAndTail DEF Dispatch
  <2>2. current[n] \in {fr \in Frame : Good(fr)}
    BY <1>9 DEF Dispatch, DecodedInv, Handling
  <2>3. subs' \in [Loop -> Seq(Subscriber)]
    BY <1>9, <2>1 DEF Dispatch
  <2>4. got' \in [Subscriber -> Seq({fr \in Frame : Good(fr)})]
    <3>1. Append(got[Head(subs[n])], current[n]) \in Seq({fr \in Frame : Good(fr)})
      BY <2>1, <2>2, AppendLast
    <3> QED
      BY <1>9, <2>1, <3>1 DEF Dispatch
  <2> QED
    BY <1>9, <2>3, <2>4 DEF Dispatch
<1>10. ASSUME NEW n \in Loop, Dispatched(n) PROVE TypeOK'
  BY <1>10 DEF Dispatched
<1>11. ASSUME NEW app \in AppID, NEW good \in BOOLEAN, Arrive(app, good) PROVE TypeOK'
  <2>1. nFrames' \in 1..MaxFrames
    BY <1>11 DEF Arrive
  <2>2. [n |-> nFrames', app |-> app, good |-> good] \in Frame
    BY <2>1 DEF Frame
  <2>3. queue' \in [Loop -> Seq(Frame)]
    BY <1>11, <2>2, AppendLast DEF Arrive
  <2> QED
    BY <1>11, <2>1, <2>3 DEF Arrive
<1>12. CASE UNCHANGED vars
  BY <1>12 DEF vars
<1>13. ASSUME NEW n \in Loop, RecvfromFails(n) PROVE TypeOK'
  BY <1>13 DEF RecvfromFails
<1> QED
  BY <1>1, <1>2, <1>3, <1>4, <1>5, <1>6, <1>7, <1>8, <1>9, <1>10, <1>11, <1>12, <1>13
     DEF Next, receiveLoop

-----------------------------------------------------------------------------
(* Loops and their frames. *)

\* A step keeps the loops and sockets of later Starts out of use.
LEMMA StartedStep ==
  ASSUME TypeOK, StartedInv, [Next]_vars
  PROVE  StartedInv'
<1> USE DEF TypeOK, StartedInv, LoopStep
<1>1. ASSUME NEW s \in Subscriber, AddSubscriber(s) \/ SetGoCBRef(s) PROVE StartedInv'
  BY <1>1 DEF AddSubscriber, SetGoCBRef
<1>2. CASE Start
  <2>1. nStarts' = nStarts + 1 /\ nStarts \in Nat /\ nStarts' \in Loop
    BY <1>2 DEF Start
  <2>2. \A n \in Loop : n > nStarts' => n > nStarts /\ n # nStarts'
    BY <2>1
  <2>3. /\ \A n \in Loop : n # nStarts' => loopPc'[n] = loopPc[n] /\ (n \in open' <=> n \in open)
        /\ queue' = queue
    BY <1>2, <2>1 DEF Start
  <2> QED
    BY <2>2, <2>3
<1>3. CASE Stop \/ StopClose
  BY <1>3 DEF Stop, StopClose
<1>4. ASSUME NEW n \in Loop, Recvfrom(n) \/ RecvfromFails(n) PROVE StartedInv'
  BY <1>4 DEF Recvfrom, RecvfromFails
<1>5. ASSUME NEW n \in Loop, ReceiveFrame(n) PROVE StartedInv'
  BY <1>5 DEF ReceiveFrame
<1>6. ASSUME NEW n \in Loop, TakeSubscribers(n) \/ Dispatch(n) \/ Dispatched(n)
      PROVE  StartedInv'
  BY <1>6 DEF TakeSubscribers, Dispatch, Dispatched
<1>7. ASSUME NEW app \in AppID, NEW good \in BOOLEAN, Arrive(app, good) PROVE StartedInv'
  BY <1>7 DEF Arrive, Alive
<1>8. CASE UNCHANGED vars
  BY <1>8 DEF vars
<1> QED
  BY <1>1, <1>2, <1>3, <1>4, <1>5, <1>6, <1>7, <1>8 DEF Next, receiveLoop

\* A step keeps undecoded frames from the subscribers.
LEMMA DecodedStep ==
  ASSUME TypeOK, DecodedInv, [Next]_vars
  PROVE  DecodedInv'
<1> USE DEF TypeOK, DecodedInv, Handling, LoopStep
<1>1. ASSUME NEW s \in Subscriber, AddSubscriber(s) \/ SetGoCBRef(s) PROVE DecodedInv'
  BY <1>1 DEF AddSubscriber, SetGoCBRef
<1>2. CASE Start
  BY <1>2 DEF Start
<1>3. CASE Stop \/ StopClose
  BY <1>3 DEF Stop, StopClose
<1>4. ASSUME NEW n \in Loop, Recvfrom(n) \/ RecvfromFails(n) PROVE DecodedInv'
  BY <1>4 DEF Recvfrom, RecvfromFails
<1>5. ASSUME NEW n \in Loop, ReceiveFrame(n) PROVE DecodedInv'
  <2>1. Head(queue[n]) \in Frame
    BY <1>5, HeadAndTail DEF ReceiveFrame
  <2> QED
    BY <1>5, <2>1 DEF ReceiveFrame, Good
<1>6. ASSUME NEW n \in Loop, TakeSubscribers(n) \/ Dispatch(n) \/ Dispatched(n)
      PROVE  DecodedInv'
  BY <1>6 DEF TakeSubscribers, Dispatch, Dispatched
<1>7. ASSUME NEW app \in AppID, NEW good \in BOOLEAN, Arrive(app, good) PROVE DecodedInv'
  BY <1>7 DEF Arrive
<1>8. CASE UNCHANGED vars
  BY <1>8 DEF vars
<1> QED
  BY <1>1, <1>2, <1>3, <1>4, <1>5, <1>6, <1>7, <1>8 DEF Next, receiveLoop

\* The number of a frame that waits or is dispatched is a number.
LEMMA FrameNumbers ==
  ASSUME TypeOK, DecodedInv, NEW n \in Loop
  PROVE  /\ \A i \in 1..Len(queue[n]) : queue[n][i] \in Frame /\ queue[n][i].n \in Int
         /\ Handling(n) => current[n].n \in Int
         /\ nFrames \in Int
<1>1. \A i \in 1..Len(queue[n]) : queue[n][i] \in Frame
  BY DEF TypeOK
<1>2. \A fr \in Frame : fr.n \in Int
  BY DEF Frame
<1> QED
  BY <1>1, <1>2 DEF DecodedInv, TypeOK

\* The frame that arrives joins the queue of every socket that is alive.
LEMMA Arrived ==
  ASSUME TypeOK, NEW app \in AppID, NEW good \in BOOLEAN, Arrive(app, good), NEW n \in Loop
  PROVE  /\ nFrames' = nFrames + 1 /\ nFrames \in Int /\ Len(queue[n]) \in Nat
         /\ \/ queue'[n] = queue[n]
            \/ /\ Len(queue'[n]) = Len(queue[n]) + 1
               /\ queue'[n][Len(queue[n]) + 1].n = nFrames'
               /\ \A i \in 1..Len(queue[n]) : queue'[n][i] = queue[n][i]
<1> DEFINE fr == [n |-> nFrames', app |-> app, good |-> good]
<1>1. nFrames' = nFrames + 1 /\ nFrames \in Int /\ fr.n = nFrames'
  BY DEF Arrive, TypeOK
<1>2. fr \in Frame
  BY DEF Arrive, TypeOK, Frame
<1>3. queue[n] \in Seq(Frame) /\ queue'[n] \in {queue[n], Append(queue[n], fr)}
  BY DEF Arrive, TypeOK
<1> HIDE DEF fr
<1> QED
  BY <1>1, <1>2, <1>3, AppendLast

\* A step that moves no frame keeps the queues in order.
LEMMA QueueKept ==
  ASSUME QueueInv, UNCHANGED <<current, queue, nFrames>>,
         \A n \in Loop : Handling(n)' => Handling(n)
  PROVE  QueueInv'
  BY DEF QueueInv

\* A step keeps the queues in order.
LEMMA QueueStep ==
  ASSUME TypeOK, StartedInv, DecodedInv, QueueInv, [Next]_vars
  PROVE  QueueInv'
<1> USE DEF TypeOK, Handling, LoopStep
<1>1. ASSUME NEW s \in Subscriber, AddSubscriber(s) \/ SetGoCBRef(s) PROVE QueueInv'
  BY <1>1, QueueKept DEF AddSubscriber, SetGoCBRef
<1>2. CASE Start
  BY <1>2, QueueKept DEF Start
<1>3. CASE Stop \/ StopClose
  BY <1>3, QueueKept DEF Stop, StopClose
<1>4. ASSUME NEW n \in Loop, Recvfrom(n) \/ RecvfromFails(n) PROVE QueueInv'
  BY <1>4, QueueKept DEF Recvfrom, RecvfromFails
<1>5. ASSUME NEW n \in Loop, ReceiveFrame(n) PROVE QueueInv'
  <2>1. /\ Head(queue[n]) = queue[n][1] /\ 1 \in 1..Len(queue[n])
        /\ Len(Tail(queue[n])) = Len(queue[n]) - 1 /\ Len(queue[n]) \in Nat
        /\ \A i \in 1..Len(Tail(queue[n])) :
             Tail(queue[n])[i] = queue[n][i + 1] /\ i + 1 \in 1..Len(queue[n])
    BY <1>5, HeadAndTail DEF ReceiveFrame
  <2>2. /\ current'[n] = Head(queue[n]) /\ queue'[n] = Tail(queue[n]) /\ nFrames' = nFrames
        /\ \A m \in Loop : m # n => /\ current'[m] = current[m] /\ queue'[m] = queue[m]
                                    /\ loopPc'[m] = loopPc[m]
    BY <1>5 DEF ReceiveFrame
  <2>3. ASSUME NEW i \in 1..Len(queue'[n]), NEW j \in 1..Len(queue'[n]), i < j
        PROVE  queue'[n][i].n < queue'[n][j].n
    BY <2>1, <2>2, <2>3 DEF QueueInv
  <2>4. ASSUME NEW i \in 1..Len(queue'[n])
        PROVE  queue'[n][i].n <= nFrames' /\ current'[n].n < queue'[n][i].n
    BY <2>1, <2>2 DEF QueueInv
  <2>5. current'[n].n <= nFrames'
    BY <2>1, <2>2 DEF QueueInv
  <2> QED
    BY <2>2, <2>3, <2>4, <2>5 DEF QueueInv
<1>6. ASSUME NEW n \in Loop, TakeSubscribers(n) \/ Dispatch(n) \/ Dispatched(n)
      PROVE  QueueInv'
  BY <1>6, QueueKept DEF TakeSubscribers, Dispatch, Dispatched
<1>7. ASSUME NEW app \in AppID, NEW good \in BOOLEAN, Arrive(app, good) PROVE QueueInv'
  <2> SUFFICES ASSUME NEW n \in Loop
               PROVE  /\ \A i, j \in 1..Len(queue'[n]) :
                           i < j => queue'[n][i].n < queue'[n][j].n
                      /\ \A i \in 1..Len(queue'[n]) : queue'[n][i].n <= nFrames'
                      /\ Handling(n) =>
                           /\ current[n].n <= nFrames'
                           /\ \A i \in 1..Len(queue'[n]) : current[n].n < queue'[n][i].n
    BY <1>7 DEF QueueInv, Arrive
  <2>1. /\ nFrames' = nFrames + 1 /\ nFrames \in Int /\ Len(queue[n]) \in Nat
        /\ \A i \in 1..Len(queue[n]) : queue[n][i].n \in Int
        /\ Handling(n) => current[n].n \in Int
    BY <1>7, Arrived, FrameNumbers
  <2>0. /\ \A i, j \in 1..Len(queue[n]) : i < j => queue[n][i].n < queue[n][j].n
        /\ \A i \in 1..Len(queue[n]) : queue[n][i].n <= nFrames
        /\ Handling(n) =>
             /\ current[n].n <= nFrames
             /\ \A i \in 1..Len(queue[n]) : current[n].n < queue[n][i].n
    BY DEF QueueInv
  <2> HIDE DEF TypeOK, Handling
  <2>2. CASE queue'[n] = queue[n]
    BY <2>0, <2>1, <2>2
  <2>3. CASE /\ Len(queue'[n]) = Len(queue[n]) + 1
             /\ queue'[n][Len(queue[n]) + 1].n = nFrames'
             /\ \A i \in 1..Len(queue[n]) : queue'[n][i] = queue[n][i]
    <3>1. \A i \in 1..Len(queue'[n]) : i \in 1..Len(queue[n]) \/ i = Len(queue[n]) + 1
      BY <2>1, <2>3
    <3>2. ASSUME NEW i \in 1..Len(queue'[n]) PROVE queue'[n][i].n <= nFrames'
      <4>1. CASE i \in 1..Len(queue[n])
        <5>1. queue'[n][i] = queue[n][i] /\ queue[n][i].n <= nFrames
          BY <2>0, <2>3, <4>1
        <5> QED
          BY <2>1, <4>1, <5>1
      <4>2. CASE i = Len(queue[n]) + 1
        BY <2>1, <2>3, <4>2
      <4> QED
        BY <3>1, <4>1, <4>2
    <3>3. \A i, j \in 1..Len(queue'[n]) : i < j => queue'[n][i].n < queue'[n][j].n
      <4> SUFFICES ASSUME NEW i \in 1..Len(queue'[n]), NEW j \in 1..Len(queue'[n]), i < j
                   PROVE  queue'[n][i].n < queue'[n][j].n
        OBVIOUS
      <4>1. i \in 1..Len(queue[n])
        BY <2>1, <2>3
      <4>2. CASE j \in 1..Len(queue[n])
        BY <2>0, <2>3, <4>1, <4>2
      <4>3. CASE j = Len(queue[n]) + 1
        <5>1. queue'[n][i].n = queue[n][i].n /\ queue'[n][j].n = nFrames + 1
          BY <2>1, <2>3, <4>1, <4>3
        <5>2. queue[n][i].n <= nFrames /\ queue[n][i].n \in Int /\ nFrames \in Int
          BY <2>0, <2>1, <4>1
        <5> QED
          BY <5>1, <5>2
      <4> QED
        BY <3>1, <4>2, <4>3
    <3>4. Handling(n) =>
            /\ current[n].n <= nFrames'
            /\ \A i \in 1..Len(queue'[n]) : current[n].n < queue'[n][i].n
      <4> SUFFICES ASSUME Handling(n), NEW i \in 1..Len(queue'[n])
                   PROVE  current[n].n <= nFrames' /\ current[n].n < queue'[n][i].n
        <5>1. Len(queue'[n]) \in Nat /\ Len(queue'[n]) >= 1
          BY <2>1, <2>3
        <5>2. 1 \in 1..Len(queue'[n])
          BY <5>1
        <5> QED
          BY <5>2
      <4>1. current[n].n \in Int /\ current[n].n <= nFrames
        BY <2>0, <2>1
      <4>2. CASE i \in 1..Len(queue[n])
        <5>1. current[n].n < queue[n][i].n /\ queue'[n][i] = queue[n][i]
          BY <2>0, <2>3, <4>2
        <5> QED
          BY <2>1, <4>1, <5>1
      <4>3. CASE i = Len(queue[n]) + 1
        <5>1. queue'[n][i].n = nFrames + 1
          BY <2>1, <2>3, <4>3
        <5> QED
          BY <2>1, <4>1, <5>1
      <4> QED
        BY <3>1, <4>2, <4>3
    <3> QED
      BY <3>2, <3>3, <3>4
  <2> QED
    BY <1>7, <2>2, <2>3, Arrived
<1>8. CASE UNCHANGED vars
  BY <1>8, QueueKept DEF vars
<1> QED
  BY <1>1, <1>2, <1>3, <1>4, <1>5, <1>6, <1>7, <1>8 DEF Next, receiveLoop

-----------------------------------------------------------------------------
(* What the listeners get. *)

\* Subscribers are never removed: if none is there twice, none was.
LEMMA OnceBefore ==
  ASSUME TypeOK, [Next]_vars
  PROVE  /\ IsInjective(subscribers') => IsInjective(subscribers)
         /\ Once' => Once
<1>1. ASSUME NEW s \in Subscriber, AddSubscriber(s)
      PROVE  (IsInjective(subscribers') => IsInjective(subscribers)) /\ UNCHANGED nStarts
  BY <1>1, BeforeAppend DEF AddSubscriber, TypeOK
<1>2. CASE Start
  <2>1. nStarts' = nStarts + 1 /\ nStarts \in Nat /\ UNCHANGED subscribers
    BY <1>2 DEF Start, TypeOK
  <2> QED
    BY <2>1 DEF Once
<1>3. \/ \E s \in Subscriber : AddSubscriber(s)
      \/ Start
      \/ UNCHANGED <<nStarts, subscribers>>
  BY DEF Next, SetGoCBRef, Stop, StopClose, receiveLoop, Recvfrom, RecvfromFails,
         ReceiveFrame, TakeSubscribers, Dispatch, Dispatched, Arrive, vars
<1> QED
  BY <1>1, <1>2, <1>3 DEF Once

\* A step keeps the lists of subscribers without duplicates.
LEMMA SubsStep ==
  ASSUME TypeOK, SubsInv, [Next]_vars
  PROVE  SubsInv'
<1> SUFFICES ASSUME IsInjective(subscribers'), NEW m \in Loop PROVE IsInjective(subs'[m])
  BY DEF SubsInv
<1>1. IsInjective(subscribers) /\ IsInjective(subs[m])
  BY OnceBefore DEF SubsInv
<1>2. ASSUME NEW n \in Loop, TakeSubscribers(n) PROVE IsInjective(subs'[m])
  BY <1>1, <1>2 DEF TakeSubscribers, TypeOK
<1>3. ASSUME NEW n \in Loop, Dispatch(n) PROVE IsInjective(subs'[m])
  <2>1. subs[n] \in Seq(Subscriber) /\ subs[n] # << >>
    BY <1>3 DEF Dispatch, TypeOK
  <2>2. m = n => IsInjective(Tail(subs[n]))
    BY <1>1, <2>1, TailUnique
  <2> QED
    BY <1>1, <1>3, <2>2 DEF Dispatch, TypeOK
<1>4. \/ UNCHANGED subs
      \/ \E n \in Loop : TakeSubscribers(n) \/ Dispatch(n)
  BY DEF Next, AddSubscriber, SetGoCBRef, Start, Stop, StopClose, receiveLoop, Recvfrom,
         RecvfromFails, ReceiveFrame, Dispatched, Arrive, vars
<1> QED
  BY <1>1, <1>2, <1>3, <1>4

\* The frames that a listener has got are numbered.
LEMMA GotNumbers ==
  ASSUME TypeOK, NEW s \in Subscriber
  PROVE  \A i \in 1..Len(got[s]) : Good(got[s][i]) /\ got[s][i].n \in Int
<1>0. got[s] \in Seq({fr \in Frame : Good(fr)})
  BY DEF TypeOK
<1>1. \A i \in 1..Len(got[s]) : got[s][i] \in {fr \in Frame : Good(fr)}
  BY <1>0, ElementOf
<1>2. \A fr \in Frame : fr.n \in Int
  BY DEF Frame
<1> QED
  BY <1>1, <1>2

\* While there is one loop, Dispatch is its step.
LEMMA OnlyLoop ==
  ASSUME TypeOK, StartedInv, nStarts <= 1, NEW n \in Loop, loopPc[n] # "none", NEW m \in Loop,
         m # n
  PROVE  loopPc[m] = "none" /\ queue[m] = << >>
<1>1. nStarts \in Nat /\ ~(n > nStarts)
  BY DEF TypeOK, StartedInv
<1>2. m > nStarts
  BY <1>1
<1> QED
  BY <1>2 DEF StartedInv

\* What Dispatch gives to its subscriber, and to no other.
LEMMA Given ==
  ASSUME TypeOK, DecodedInv, SubsInv, IsInjective(subscribers), NEW n \in Loop, Dispatch(n)
  PROVE  /\ Head(subs[n]) \in Subscriber /\ Contains(subs[n], Head(subs[n]))
         /\ \A s \in Subscriber : Contains(subs'[n], s) => Contains(subs[n], s)
         /\ ~Contains(subs'[n], Head(subs[n]))
         /\ \A s \in Subscriber :
              \/ got'[s] = got[s]
              \/ /\ s = Head(subs[n])
                 /\ Len(got'[s]) = Len(got[s]) + 1 /\ Len(got[s]) \in Nat
                 /\ got'[s][Len(got[s]) + 1] = current[n]
                 /\ \A i \in 1..Len(got[s]) : got'[s][i] = got[s][i]
<1> DEFINE s0 == Head(subs[n])
<1>1. s0 \in Subscriber /\ subs[n] # << >> /\ subs[n] \in Seq(Subscriber)
  BY HeadAndTail DEF Dispatch, TypeOK
<1>2. subs'[n] = Tail(subs[n])
  BY DEF Dispatch, TypeOK
<1>3. /\ Contains(subs[n], s0)
      /\ \A s \in Subscriber : Contains(Tail(subs[n]), s) => Contains(subs[n], s) /\ s # s0
  BY <1>1, TailUnique DEF SubsInv
<1>4. current[n] \in {fr \in Frame : Good(fr)} /\ got[s0] \in Seq({fr \in Frame : Good(fr)})
  BY <1>1 DEF Dispatch, DecodedInv, Handling, TypeOK
<1>5. got' = [got EXCEPT ![s0] = IF Passes(s0, current[n]) THEN Append(@, current[n]) ELSE @]
  BY DEF Dispatch
<1> HIDE DEF s0
<1>6. \A s \in Subscriber : s # s0 => got'[s] = got[s]
  BY <1>5 DEF TypeOK
<1>7. got'[s0] \in {got[s0], Append(got[s0], current[n])}
  BY <1>1, <1>5 DEF TypeOK
<1>8. \/ got'[s0] = got[s0]
      \/ /\ Len(got'[s0]) = Len(got[s0]) + 1 /\ Len(got[s0]) \in Nat
         /\ got'[s0][Len(got[s0]) + 1] = current[n]
         /\ \A i \in 1..Len(got[s0]) : got'[s0][i] = got[s0][i]
  BY <1>4, <1>7, AppendLast
<1> QED
  BY <1>1, <1>2, <1>3, <1>6, <1>8 DEF s0

\* GotInv for one frame that a listener has got.
Older(fr, s) ==
  /\ fr.n <= nFrames
  /\ \A n \in Loop :
       /\ \A j \in 1..Len(queue[n]) : fr.n < queue[n][j].n
       /\ loopPc[n] = "handle" => fr.n < current[n].n
       /\ loopPc[n] = "dispatch" /\ Contains(subs[n], s) => fr.n < current[n].n

\* A step that gives no frame to a listener and after which no loop has a frame
\* for it that it had not before keeps GotInv.
LEMMA GotKept ==
  ASSUME GotInv, UNCHANGED <<got, current, queue, nFrames>>, Once' => Once,
         \A n \in Loop :
           /\ loopPc'[n] = "handle" => loopPc[n] = "handle"
           /\ loopPc'[n] = "dispatch" => loopPc[n] = "dispatch" /\ subs'[n] = subs[n]
  PROVE  GotInv'
  BY DEF GotInv

\* A step keeps what the listeners have got older than what is to come.
LEMMA GotStep ==
  ASSUME TypeOK, StartedInv, DecodedInv, QueueInv, SubsInv, GotInv, [Next]_vars
  PROVE  GotInv'
<1> USE DEF LoopStep
<1>0. /\ Once' => Once
      /\ loopPc \in [Loop -> {"none", "top", "recv", "handle", "dispatch", "exited"}]
  BY OnceBefore DEF TypeOK
<1>1. ASSUME NEW s \in Subscriber, AddSubscriber(s) \/ SetGoCBRef(s) PROVE GotInv'
  BY <1>0, <1>1, GotKept DEF AddSubscriber, SetGoCBRef
<1>2. CASE Start
  <2>1. \A n \in Loop : loopPc'[n] \in {loopPc[n], "top"}
    BY <1>0, <1>2 DEF Start
  <2> QED
    BY <1>0, <1>2, <2>1, GotKept DEF Start
<1>3. CASE Stop \/ StopClose
  BY <1>0, <1>3, GotKept DEF Stop, StopClose
<1>4. ASSUME NEW n \in Loop, Recvfrom(n) \/ RecvfromFails(n) PROVE GotInv'
  BY <1>0, <1>4, GotKept DEF Recvfrom, RecvfromFails
<1>5. ASSUME NEW n \in Loop, Dispatched(n) PROVE GotInv'
  BY <1>0, <1>5, GotKept DEF Dispatched
<1>6. CASE UNCHANGED vars
  BY <1>0, <1>6, GotKept DEF vars
<1>7. ASSUME NEW n \in Loop, TakeSubscribers(n) PROVE GotInv'
  <2>1. /\ loopPc[n] = "handle" /\ loopPc' = [loopPc EXCEPT ![n] = "dispatch"]
        /\ \A m \in Loop : m # n => subs'[m] = subs[m]
        /\ UNCHANGED <<current, queue, nFrames, got>>
    BY <1>7 DEF TakeSubscribers, TypeOK
  <2> QED
    BY <1>0, <2>1 DEF GotInv
<1>8. ASSUME NEW n \in Loop, ReceiveFrame(n) PROVE GotInv'
  <2>1. /\ Head(queue[n]) = queue[n][1] /\ 1 \in 1..Len(queue[n])
        /\ \A i \in 1..Len(Tail(queue[n])) :
             Tail(queue[n])[i] = queue[n][i + 1] /\ i + 1 \in 1..Len(queue[n])
    BY <1>8, HeadAndTail DEF ReceiveFrame, TypeOK
  <2>2. /\ current'[n] = Head(queue[n]) /\ queue'[n] = Tail(queue[n])
        /\ loopPc'[n] # "dispatch"
        /\ \A m \in Loop : m # n => /\ current'[m] = current[m] /\ queue'[m] = queue[m]
                                    /\ loopPc'[m] = loopPc[m]
        /\ UNCHANGED <<nFrames, subs, got>>
    BY <1>8 DEF ReceiveFrame, TypeOK
  <2> SUFFICES ASSUME Once, NEW s \in Subscriber, NEW i \in 1..Len(got[s])
               PROVE  Older(got[s][i], s)'
    BY <1>0, <2>2 DEF GotInv, Older
  <2>3. Older(got[s][i], s)
    BY DEF GotInv, Older
  <2>4. ASSUME NEW m \in Loop
        PROVE  /\ \A j \in 1..Len(queue'[m]) : got[s][i].n < queue'[m][j].n
               /\ loopPc'[m] = "handle" => got[s][i].n < current'[m].n
               /\ loopPc'[m] = "dispatch" /\ Contains(subs[m], s) => got[s][i].n < current'[m].n
    <3>1. CASE m = n
      <4>1. \A j \in 1..Len(queue[n]) : got[s][i].n < queue[n][j].n
        BY <2>3 DEF Older
      <4>2. \A j \in 1..Len(queue'[n]) : got[s][i].n < queue'[n][j].n
        BY <2>1, <2>2, <4>1
      <4>3. got[s][i].n < current'[n].n
        BY <2>1, <2>2, <4>1
      <4> QED
        BY <2>2, <3>1, <4>2, <4>3
    <3>2. CASE m # n
      BY <2>2, <2>3, <3>2 DEF Older
    <3> QED
      BY <3>1, <3>2
  <2> QED
    BY <2>2, <2>3, <2>4 DEF Older
<1>9. ASSUME NEW app \in AppID, NEW good \in BOOLEAN, Arrive(app, good) PROVE GotInv'
  <2>1. UNCHANGED <<loopPc, current, subs, got>>
    BY <1>9 DEF Arrive
  <2> SUFFICES ASSUME Once, NEW s \in Subscriber, NEW i \in 1..Len(got[s])
               PROVE  Older(got[s][i], s)'
    BY <1>0, <2>1 DEF GotInv, Older
  <2>2. Older(got[s][i], s) /\ got[s][i].n \in Int
    BY GotNumbers DEF GotInv, Older
  <2>3. nFrames' = nFrames + 1 /\ nFrames \in Int
    BY <1>9 DEF Arrive, TypeOK
  <2>4. ASSUME NEW m \in Loop, NEW j \in 1..Len(queue'[m])
        PROVE  got[s][i].n < queue'[m][j].n
    <3>1. CASE queue'[m] = queue[m]
      BY <2>2, <3>1 DEF Older
    <3>2. CASE /\ Len(queue'[m]) = Len(queue[m]) + 1
               /\ queue'[m][Len(queue[m]) + 1].n = nFrames'
               /\ \A k \in 1..Len(queue[m]) : queue'[m][k] = queue[m][k]
      <4>1. CASE j \in 1..Len(queue[m])
        BY <2>2, <3>2, <4>1 DEF Older
      <4>2. CASE j = Len(queue[m]) + 1
        <5>1. got[s][i].n <= nFrames
          BY <2>2 DEF Older
        <5> QED
          BY <2>2, <2>3, <3>2, <4>2, <5>1
      <4> QED
        BY <1>9, <3>2, <4>1, <4>2, Arrived, SMTT(60)
    <3> QED
      BY <1>9, <3>1, <3>2, Arrived
  <2>5. got[s][i].n <= nFrames'
    BY <2>2, <2>3 DEF Older
  <2> QED
    BY <2>1, <2>2, <2>4, <2>5 DEF Older
<1>10. ASSUME NEW n \in Loop, Dispatch(n) PROVE GotInv'
  <2>1. /\ loopPc[n] = "dispatch" /\ UNCHANGED <<loopPc, current, queue, nFrames>>
        /\ \A m \in Loop : m # n => subs'[m] = subs[m]
    BY <1>10 DEF Dispatch, TypeOK
  <2> SUFFICES ASSUME Once, NEW s \in Subscriber, NEW i \in 1..Len(got'[s]),
                      NEW fr, fr = got'[s][i]
               PROVE  Older(fr, s)'
    BY <1>0, <2>1 DEF GotInv, Older
  <2>0. IsInjective(subscribers) /\ nStarts <= 1
    BY DEF Once
  <2>2. \A x \in Subscriber : Contains(subs'[n], x) => Contains(subs[n], x)
    BY <1>10, <2>0, Given
  <2>3. ASSUME i \in 1..Len(got[s]), fr = got[s][i]
        PROVE  Older(fr, s)'
    <3>1. Older(fr, s)
      BY <2>3 DEF GotInv, Older
    <3>2. ASSUME NEW m \in Loop, loopPc[m] = "dispatch", Contains(subs'[m], s)
          PROVE  fr.n < current[m].n
      BY <2>1, <2>2, <3>1, <3>2 DEF Older
    <3> QED
      BY <2>1, <2>3, <3>1, <3>2 DEF Older
  <2>4. ASSUME fr = current[n], s = Head(subs[n])
        PROVE  Older(fr, s)'
    <3>1. \A m \in Loop : m # n => loopPc[m] = "none" /\ queue[m] = << >>
      BY <2>0, <2>1, OnlyLoop
    <3>2. /\ current[n].n <= nFrames
          /\ \A j \in 1..Len(queue[n]) : current[n].n < queue[n][j].n
      BY <2>1 DEF QueueInv, Handling
    <3>3. ~Contains(subs'[n], s)
      BY <1>10, <2>0, <2>4, Given
    <3> QED
      BY <2>1, <2>4, <3>1, <3>2, <3>3 DEF Older
  <2>5. \/ got'[s] = got[s]
        \/ /\ s = Head(subs[n])
           /\ Len(got'[s]) = Len(got[s]) + 1 /\ Len(got[s]) \in Nat
           /\ got'[s][Len(got[s]) + 1] = current[n]
           /\ \A k \in 1..Len(got[s]) : got'[s][k] = got[s][k]
    BY <1>10, <2>0, Given
  <2>6. \/ i \in 1..Len(got[s]) /\ fr = got[s][i]
        \/ fr = current[n] /\ s = Head(subs[n])
    BY <2>5
  <2> QED
    BY <2>3, <2>4, <2>6
<1> QED
  BY <1>1, <1>2, <1>3, <1>4, <1>5, <1>6, <1>7, <1>8, <1>9, <1>10 DEF Next, receiveLoop

\* A step keeps the frames of a listener in order: Dispatch gives it one that
\* is younger than all that it has got.
LEMMA InOrderStep ==
  ASSUME TypeOK, StartedInv, DecodedInv, SubsInv, GotInv, InOrder, [Next]_vars
  PROVE  InOrder'
<1>0. Once' => Once
  BY OnceBefore
<1>1. CASE UNCHANGED got
  BY <1>0, <1>1 DEF InOrder
<1>2. ASSUME NEW n \in Loop, Dispatch(n) PROVE InOrder'
  <2>0. Once' => Once /\ IsInjective(subscribers)
    BY <1>0 DEF Once
  <2> SUFFICES ASSUME Once', NEW s \in Subscriber, NEW i \in 1..Len(got'[s]),
                      NEW j \in 1..Len(got'[s])
               PROVE  Good(got'[s][i]) /\ (i < j => got'[s][i].n < got'[s][j].n)
    BY DEF InOrder, Good
  <2>1. /\ loopPc[n] = "dispatch" /\ Good(current[n])
    BY <1>2 DEF Dispatch, DecodedInv, Handling
  <2>2. CASE got'[s] = got[s]
    BY <1>0, <2>2 DEF InOrder
  <2>3. CASE /\ s = Head(subs[n])
             /\ Len(got'[s]) = Len(got[s]) + 1 /\ Len(got[s]) \in Nat
             /\ got'[s][Len(got[s]) + 1] = current[n]
             /\ \A k \in 1..Len(got[s]) : got'[s][k] = got[s][k]
    <3>1. \A k \in 1..Len(got[s]) : Good(got[s][k]) /\ got[s][k].n < current[n].n
      <4>1. Contains(subs[n], s)
        BY <1>2, <2>0, <2>3, Given
      <4> QED
        BY <1>0, <2>1, <4>1, GotNumbers DEF GotInv
    <3>2. \A k \in 1..Len(got'[s]) : k \in 1..Len(got[s]) \/ k = Len(got[s]) + 1
      BY <2>3
    <3>3. Good(got'[s][i])
      BY <2>1, <2>3, <3>1, <3>2
    <3>4. ASSUME i < j PROVE got'[s][i].n < got'[s][j].n
      <4>1. i \in 1..Len(got[s])
        BY <2>3, <3>4
      <4>2. CASE j \in 1..Len(got[s])
        BY <1>0, <2>3, <3>4, <4>1, <4>2 DEF InOrder
      <4>3. CASE j = Len(got[s]) + 1
        BY <2>3, <3>1, <4>1, <4>3
      <4> QED
        BY <3>2, <4>2, <4>3
    <3> QED
      BY <3>3, <3>4
  <2> QED
    BY <1>2, <2>0, <2>2, <2>3, Given
<1>3. UNCHANGED got \/ \E n \in Loop : Dispatch(n)
  BY DEF Next, AddSubscriber, SetGoCBRef, Start, Stop, StopClose, receiveLoop, Recvfrom,
         RecvfromFails, ReceiveFrame, TakeSubscribers, Dispatched, Arrive, vars
<1> QED
  BY <1>1, <1>2, <1>3

-----------------------------------------------------------------------------
(* The theorems. *)

\* ReceiverInv is inductive, so it holds for any subscribers and frames, and
\* however Start, Stop, AddSubscriber and SetGoCBRef interleave with the loops.
THEOREM ReceiverInvariance == Spec => []ReceiverInv
<1>1. Init => ReceiverInv
  <2> SUFFICES ASSUME Init PROVE ReceiverInv
    OBVIOUS
  <2>1. TypeOK
    <3>1. /\ current \in [Loop -> Frame \cup {NoFrame}] /\ queue \in [Loop -> Seq(Frame)]
          /\ got \in [Subscriber -> Seq({fr \in Frame : Good(fr)})]
          /\ subs \in [Loop -> Seq(Subscriber)] /\ subscribers \in Seq(Subscriber)
      BY DEF Init
    <3>2. /\ loopPc \in [Loop -> {"none", "top", "recv", "handle", "dispatch", "exited"}]
          /\ cbRef \in [Subscriber -> BOOLEAN] /\ stopChClosed \in BOOLEAN
      BY DEF Init
    <3> QED
      BY <3>1, <3>2 DEF Init, TypeOK
  <2>2. StartedInv /\ DecodedInv /\ QueueInv
    BY DEF Init, StartedInv, DecodedInv, QueueInv, Handling
  <2>3. SubsInv
    BY DEF Init, SubsInv, IsInjective
  <2>4. GotInv /\ InOrder
    BY DEF Init, GotInv, InOrder
  <2> QED
    BY <2>1, <2>2, <2>3, <2>4 DEF ReceiverInv
<1>2. ReceiverInv /\ [Next]_vars => ReceiverInv'
  BY TypeStep, StartedStep, DecodedStep, QueueStep, SubsStep, GotStep, InOrderStep
     DEF ReceiverInv
<1> QED
  BY <1>1, <1>2, PTL DEF Spec

\* Every variable of the receiver keeps its type; listeners get decoded frames
\* only, also after Start has been called again.
THEOREM ReceiverTypes == Spec => []TypeOK
<1>1. ReceiverInv => TypeOK
  BY DEF ReceiverInv
<1> QED
  BY <1>1, ReceiverInvariance, PTL

\* Until Start is called again or a subscriber added again, rawRecvLoop and
\* Subscriber.dispatch give a listener the frames in the order in which they
\* came, and none twice.
THEOREM FramesInOrder == Spec => []InOrder
<1>1. ReceiverInv => InOrder
  BY DEF ReceiverInv
<1> QED
  BY <1>1, ReceiverInvariance, PTL
==============================================================================
