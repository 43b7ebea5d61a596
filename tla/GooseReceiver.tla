---------------------------- MODULE GooseReceiver ----------------------------
(***************************************************************************)
(* The GOOSE receiver and its subscribers (pkg/goose/goose.go, Receiver    *)
(* and Subscriber; rawsock_linux.go, rawRecvLoop).  Start opens a raw      *)
(* socket and starts a loop that reads frames from it; Stop closes it.     *)
(*                                                                         *)
(* The kernel is the environment.  Every socket on the interface gets      *)
(* every frame.  A socket lives while it is open or a loop is blocked in   *)
(* Recvfrom on it: closing its descriptor does not wake the loop.  That    *)
(* the number of a closed descriptor may be used again is left out.        *)
(***************************************************************************)
EXTENDS Integers, Sequences, FiniteSets, SequencesExt

CONSTANTS
  Subscriber,
  AppID,         \* application identifiers of frames
  AcceptAll,     \* the filter 0 of NewSubscriber
  Filter,        \* Filter[s]: the appID that subscriber s was created with
  MaxAdds,       \* bound: calls of AddSubscriber
  MaxStarts,     \* bound: calls of Start
  MaxStops,      \* bound: calls of Stop
  MaxFrames      \* bound: frames on the interface

ASSUME ReceiverAssumption ==
  /\ Filter \in [Subscriber -> AppID \cup {AcceptAll}]
  /\ AcceptAll \notin AppID
  /\ MaxAdds \in Nat /\ MaxStarts \in Nat /\ MaxStops \in Nat /\ MaxFrames \in Nat

Loop == 1..MaxStarts       \* the loop, and the socket, of the n-th Start
NoSocket == 0

VARIABLES
  open,          \* the sockets whose descriptor is open
  rawSock,       \* r.rawSock
  stopChClosed,  \* r.stopCh is closed
  stopPc,        \* where Stop is
  nStarts, nStops,
  subscribers,   \* r.subscribers
  cbRef,         \* cbRef[s]: whether the control block filter lets frames pass
  loopPc,        \* loopPc[n]: where loop n is
  current,       \* current[n]: the frame it is dispatching
  subs,          \* subs[n]: the subscribers it has still to serve
  queue,         \* queue[n]: frames waiting in socket n
  nFrames,       \* frames so far, numbered from 1
  got            \* got[s]: the frames given to the listener of s

apiVars == <<rawSock, stopChClosed, stopPc, nStarts, nStops, subscribers, cbRef>>
loopVars == <<loopPc, current, subs>>
vars == <<open, rawSock, stopChClosed, stopPc, nStarts, nStops, subscribers, cbRef,
          loopPc, current, subs, queue, nFrames, got>>

\* What the loop makes of a frame: its number on the interface and its appID.
\* A frame that cannot be decoded is not good.
Frame == [n : 1..MaxFrames, app : AppID, good : BOOLEAN]
NoFrame == [n |-> 0]

\* NewReceiver.
Init ==
  /\ open = {}
  /\ rawSock = NoSocket
  /\ stopChClosed = FALSE
  /\ stopPc = "idle"
  /\ nStarts = 0 /\ nStops = 0
  /\ subscribers = << >>
  /\ cbRef = [s \in Subscriber |-> TRUE]
  /\ loopPc = [n \in Loop |-> "none"]
  /\ current = [n \in Loop |-> NoFrame]
  /\ subs = [n \in Loop |-> << >>]
  /\ queue = [n \in Loop |-> << >>]
  /\ nFrames = 0
  /\ got = [s \in Subscriber |-> << >>]

-----------------------------------------------------------------------------
(* The application. *)

\* A subscriber may be added again: AddSubscriber appends without looking.
AddSubscriber(s) ==
  /\ Len(subscribers) < MaxAdds
  /\ subscribers' = Append(subscribers, s)
  /\ UNCHANGED <<open, rawSock, stopChClosed, stopPc, nStarts, nStops, cbRef, loopVars,
                 queue, nFrames, got>>

\* SetGoCBRef, to a reference that the frames have or to another one.
SetGoCBRef(s) ==
  /\ cbRef' = [cbRef EXCEPT ![s] = ~@]
  /\ UNCHANGED <<open, rawSock, stopChClosed, stopPc, nStarts, nStops, subscribers,
                 loopVars, queue, nFrames, got>>

\* Start opens a socket and starts a loop.  It looks neither at r.running nor
\* at r.stopCh.
Start ==
  /\ nStarts < MaxStarts
  /\ nStarts' = nStarts + 1
  /\ open' = open \cup {nStarts'}
  /\ rawSock' = nStarts'
  /\ loopPc' = [loopPc EXCEPT ![nStarts'] = "top"]
  /\ UNCHANGED <<stopChClosed, stopPc, nStops, subscribers, cbRef, current, subs, queue,
                 nFrames, got>>

\* Stop closes r.stopCh, which ends the program the second time ...
Stop ==
  /\ nStops < MaxStops /\ stopPc = "idle"
  /\ nStops' = nStops + 1
  /\ stopChClosed' = TRUE
  /\ stopPc' = IF stopChClosed THEN "panic" ELSE "close"
  /\ UNCHANGED <<open, rawSock, nStarts, subscribers, cbRef, loopVars, queue, nFrames, got>>

\* ... and closes the socket, if there is one.
StopClose ==
  /\ stopPc = "close"
  /\ stopPc' = "idle"
  /\ open' = open \ {rawSock}
  /\ UNCHANGED <<rawSock, stopChClosed, nStarts, nStops, subscribers, cbRef, loopVars,
                 queue, nFrames, got>>

-----------------------------------------------------------------------------
(* rawRecvLoop and handleFrame. *)

LoopStep(n, from, to) == loopPc[n] = from /\ loopPc' = [loopPc EXCEPT ![n] = to]

\* Mutant of Recvfrom: the loop tries again after an error.
RecvfromAgain(n) ==
  /\ LoopStep(n, "top", IF n \in open THEN "recv" ELSE "top")
  /\ UNCHANGED <<open, apiVars, current, subs, queue, nFrames, got>>

\* Recvfrom is called: on a closed descriptor it is sure to fail.
Recvfrom(n) ==
  /\ LoopStep(n, "top", IF n \in open THEN "recv" ELSE "exited")
  /\ UNCHANGED <<open, apiVars, current, subs, queue, nFrames, got>>

\* Recvfrom fails on a socket that is open, or in which the loop is blocked
\* already (the interface goes down, say).  Whatever the error, the loop ends;
\* r.running stays TRUE and nobody is told.
RecvfromFails(n) ==
  /\ loopPc[n] \in {"top", "recv"}
  /\ LoopStep(n, loopPc[n], "exited")
  /\ UNCHANGED <<open, apiVars, current, subs, queue, nFrames, got>>

\* Recvfrom returns a frame; handleFrame drops it or is about to dispatch it.
ReceiveFrame(n) ==
  /\ queue[n] # << >>
  /\ LoopStep(n, "recv", IF Head(queue[n]).good THEN "handle" ELSE "top")
  /\ current' = [current EXCEPT ![n] = Head(queue[n])]
  /\ queue' = [queue EXCEPT ![n] = Tail(@)]
  /\ UNCHANGED <<open, apiVars, subs, nFrames, got>>

\* handleFrame takes the list of subscribers under the mutex.
TakeSubscribers(n) ==
  /\ LoopStep(n, "handle", "dispatch")
  /\ subs' = [subs EXCEPT ![n] = subscribers]
  /\ UNCHANGED <<open, apiVars, current, queue, nFrames, got>>

\* Mutant of Passes: the filter 0 lets nothing pass.
PassesExact(s, fr) == Filter[s] = fr.app /\ cbRef[s]

\* The filters of Subscriber.dispatch.
Passes(s, fr) == Filter[s] \in {AcceptAll, fr.app} /\ cbRef[s]

\* Mutant of Dispatch: the subscriber stays in the list.
DispatchAgain(n) ==
  /\ loopPc[n] = "dispatch" /\ subs[n] # << >>
  /\ LET s == Head(subs[n]) IN
       got' = [got EXCEPT ![s] = IF Passes(s, current[n]) THEN Append(@, current[n]) ELSE @]
  /\ UNCHANGED <<open, apiVars, loopVars, queue, nFrames>>

\* The next subscriber is served.
Dispatch(n) ==
  /\ loopPc[n] = "dispatch" /\ subs[n] # << >>
  /\ LET s == Head(subs[n]) IN
       got' = [got EXCEPT ![s] = IF Passes(s, current[n]) THEN Append(@, current[n]) ELSE @]
  /\ subs' = [subs EXCEPT ![n] = Tail(@)]
  /\ UNCHANGED <<open, apiVars, loopPc, current, queue, nFrames>>

Dispatched(n) ==
  /\ LoopStep(n, "dispatch", "top")
  /\ subs[n] = << >>
  /\ UNCHANGED <<open, apiVars, current, subs, queue, nFrames, got>>

-----------------------------------------------------------------------------
(* The kernel: a frame arrives at every socket that is alive. *)

Alive(m) == m \in open \/ loopPc[m] = "recv"

Arrive(app, good) ==
  /\ nFrames < MaxFrames
  /\ nFrames' = nFrames + 1
  /\ queue' = [m \in Loop |->
                 IF Alive(m) THEN Append(queue[m], [n |-> nFrames', app |-> app, good |-> good])
                             ELSE queue[m]]
  /\ UNCHANGED <<open, apiVars, loopVars, got>>

-----------------------------------------------------------------------------
receiveLoop(n) ==
  \/ Recvfrom(n) \/ ReceiveFrame(n) \/ TakeSubscribers(n) \/ Dispatch(n) \/ Dispatched(n)

Next ==
  /\ stopPc # "panic"
  /\ \/ \E s \in Subscriber : AddSubscriber(s) \/ SetGoCBRef(s)
     \/ Start \/ Stop \/ StopClose
     \/ \E n \in Loop : receiveLoop(n) \/ RecvfromFails(n)
     \/ \E app \in AppID, good \in BOOLEAN : Arrive(app, good)

\* The loops and Stop go on when they can; listeners return.  No error of a
\* socket that is open need ever happen.
Fairness ==
  /\ \A n \in Loop : WF_vars(stopPc # "panic" /\ receiveLoop(n))
  /\ WF_vars(StopClose)

Spec == Init /\ [][Next]_vars /\ Fairness

-----------------------------------------------------------------------------
(* Properties. *)

Good(fr) == fr.good

\* Every variable of the receiver keeps its type; listeners get decoded frames.
TypeOK ==
  /\ open \subseteq Loop
  /\ rawSock \in Loop \cup {NoSocket}
  /\ stopChClosed \in BOOLEAN
  /\ stopPc \in {"idle", "close", "panic"}
  /\ nStarts \in 0..MaxStarts /\ nStops \in 0..MaxStops
  /\ subscribers \in Seq(Subscriber)
  /\ cbRef \in [Subscriber -> BOOLEAN]
  /\ loopPc \in [Loop -> {"none", "top", "recv", "handle", "dispatch", "exited"}]
  /\ current \in [Loop -> Frame \cup {NoFrame}]
  /\ subs \in [Loop -> Seq(Subscriber)]
  /\ queue \in [Loop -> Seq(Frame)]
  /\ nFrames \in 0..MaxFrames
  /\ got \in [Subscriber -> Seq({fr \in Frame : Good(fr)})]

\* No call of Start or AddSubscriber has been repeated.  Nothing in the code
\* prevents it: a second Start makes a second loop, and a subscriber that is
\* added twice is served twice.
Once == nStarts <= 1 /\ IsInjective(subscribers)

\* Until Start is called again or a subscriber added again, a listener gets
\* frames that could be decoded, in the order in which they came, and none of
\* them twice, though loops read, filters change and Stop runs meanwhile.
InOrder ==
  Once =>
    \A s \in Subscriber : \A i, j \in 1..Len(got[s]) :
      Good(got[s][i]) /\ (i < j => got[s][i].n < got[s][j].n)

Waiting(s, i, m) ==
  \E k \in 1..Len(queue[m]) :
    queue[m][k].n = i /\ Good(queue[m][k]) /\ Filter[s] \in {AcceptAll, queue[m][k].app}

\* A frame that waits in a socket when its subscriber is registered is given to
\* the listener, also after Stop if the loop was blocked, unless SetGoCBRef
\* excludes it, a second Stop ends the program, or the loop of the socket ends:
\* after an error of Recvfrom that Stop did not cause the receiver is deaf
\* until Start is called again.
Delivered ==
  \A s \in Subscriber, i \in 1..MaxFrames, m \in Loop :
    (Contains(subscribers, s) /\ Waiting(s, i, m)) ~>
      \/ \E k \in 1..Len(got[s]) : got[s][k].n = i
      \/ ~cbRef[s] \/ stopPc = "panic" \/ loopPc[m] = "exited"

\* The comment in rawRecvLoop ("socket closed"): when the descriptor is closed
\* and the loop is not blocked for want of a frame, it ends, unless the program
\* does.  (It may end earlier, by an error.)
LoopEnds ==
  \A n \in Loop :
    (/\ loopPc[n] # "none" /\ n \notin open
     /\ ~(loopPc[n] = "recv" /\ queue[n] = << >>))
      ~> (loopPc[n] = "exited" \/ stopPc = "panic")

-----------------------------------------------------------------------------
(* The inductive invariant (GooseReceiverProofs). *)

\* A loop, and its socket, begins with its Start.
StartedInv ==
  \A n \in Loop : n > nStarts => loopPc[n] = "none" /\ n \notin open /\ queue[n] = << >>

Handling(n) == loopPc[n] \in {"handle", "dispatch"}

\* handleFrame dispatches frames that it could decode.
DecodedInv ==
  \A n \in Loop : Handling(n) => current[n] \in Frame /\ Good(current[n])

\* A socket holds frames in the order in which they came; they are younger than
\* the one that its loop is dispatching.
QueueInv ==
  \A n \in Loop :
    /\ \A i, j \in 1..Len(queue[n]) : i < j => queue[n][i].n < queue[n][j].n
    /\ \A i \in 1..Len(queue[n]) : queue[n][i].n <= nFrames
    /\ Handling(n) =>
         /\ current[n].n <= nFrames
         /\ \A i \in 1..Len(queue[n]) : current[n].n < queue[n][i].n

\* No subscriber that was added once is served twice.
SubsInv == IsInjective(subscribers) => \A n \in Loop : IsInjective(subs[n])

\* What a listener has got is older than what it may still get.
GotInv ==
  Once =>
    \A s \in Subscriber : \A i \in 1..Len(got[s]) :
      /\ got[s][i].n <= nFrames
      /\ \A n \in Loop :
           /\ \A j \in 1..Len(queue[n]) : got[s][i].n < queue[n][j].n
           /\ loopPc[n] = "handle" => got[s][i].n < current[n].n
           /\ loopPc[n] = "dispatch" /\ Contains(subs[n], s) => got[s][i].n < current[n].n

ReceiverInv ==
  TypeOK /\ StartedInv /\ DecodedInv /\ QueueInv /\ SubsInv /\ GotInv /\ InOrder
==============================================================================
