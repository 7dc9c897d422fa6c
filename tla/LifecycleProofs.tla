--------------------------- MODULE LifecycleProofs ---------------------------
(***************************************************************************)
(* Proofs about Lifecycle, for every number of connections and chunks.     *)
(***************************************************************************)
EXTENDS Lifecycle, TLAPS

StopPC == TunStop \cup WebStop

\* The event loop and the cleanup thread are no connections.
LEMMA ActorsDistinct ==
  /\ Loop \in Actors /\ Cleanup \in Actors /\ Conns \subseteq Actors
  /\ Loop \notin Conns /\ Cleanup \notin Conns /\ Loop # Cleanup
  /\ Conns \subseteq Nat /\ None \notin Conns /\ End \in Nat /\ End \notin Conns
  /\ \A i \in Conns : i < End /\ i > None
BY MaxConnsAssumption DEF Actors, Conns, Loop, Cleanup, None, End

\* A thread that works on an object works in an allocated chunk.
LEMMA AtSlot ==
  ASSUME IInv, NEW a \in Actors,
         a \in Conns => pc[a] # "unborn",
         a \notin Conns => pc[a] \in {"visit"} \cup DestroyPC
  PROVE  At(a) \in Slots /\ This(a) \in Object
<1>1. CASE a \in Conns
  BY <1>1 DEF IInv, TypeOK, Allocation, Born, At, This
<1>2. CASE a \notin Conns
  <2>1. walk[a].cur \in linked /\ linked \subseteq Born
    BY <1>2 DEF IInv, Allocation, Traversal, Actors
  <2>2. QED BY <1>2, <2>1 DEF IInv, TypeOK, Allocation, Born, At, This
<1>3. QED BY <1>1, <1>2

\* Moving one thread, and waking the cleanup thread, keep everyone at a control point.
LEMMA PcMove ==
  ASSUME PcOK(pc), NEW a \in Actors, NEW l \in PCOf(a)
  PROVE  PcOK([pc EXCEPT ![a] = l]) /\ PcOK(Notify([pc EXCEPT ![a] = l]))
<1> DEFINE f == [pc EXCEPT ![a] = l]
<1>1. PcOK(f)
  BY DEF PcOK, PCOf
<1>2. PcOK(Notify(f))
  <2>1. "head" \in PCOf(Cleanup)
    BY ActorsDistinct DEF PCOf, CleanupPC
  <2>2. f \in [Actors -> WorkerPC \cup CleanupPC \cup LoopPC]
    BY <1>1 DEF PcOK
  <2> HIDE DEF f
  <2>3. QED BY <1>1, <2>1, <2>2, ActorsDistinct DEF PcOK, Notify, PCOf, CleanupPC
<1>3. QED BY <1>1, <1>2

\* Where stop() can leave a thread.
LEMMA StopLabels ==
  ASSUME NEW a \in Actors
  PROVE  /\ StopPC \subseteq PCOf(a)
         /\ a \in Conns => "ended" \in PCOf(a)
         /\ a \notin Conns => {"close", "free"} \subseteq PCOf(a)
BY ActorsDistinct DEF PCOf, StopPC, TunStop, WebStop, LoopPC, CleanupPC, WorkerPC, DestroyPC, Actors

-----------------------------------------------------------------------------
(* What a step of stop() can do, whoever runs it *)

\* Only thread a moves, but for the cleanup thread being woken.
Moves(a, labels) ==
  /\ PcOK(pc')
  /\ pc'[a] \in labels
  /\ \A b \in Actors \ {a} :
       pc'[b] = pc[b] \/ (b = Cleanup /\ pc[b] = "wait" /\ pc'[b] = "head")

StopExit(a) == IF a \in Conns THEN {"ended"} ELSE {"close", "free"}

StopEffect(a) ==
  /\ SameLoop /\ SameList /\ UNCHANGED fault
  /\ Moves(a, StopPC \cup StopExit(a))
  /\ obj' \in [Slots -> Object]
  /\ \A s \in Slots :
         /\ obj'[s].own = obj[s].own /\ obj'[s].latest = obj[s].latest
         /\ obj'[s].fd \in {obj[s].fd, None}
         /\ obj'[s].done = TRUE \/ obj'[s].done = obj[s].done
         /\ s = At(a) \/ obj'[s].done = obj[s].done
  /\ \/ \A s \in Slots : obj'[s].done = obj[s].done
     \/ Struck(a) \subseteq hit'
  /\ hit \subseteq hit' /\ hit' \subseteq Conns /\ again' \subseteq Conns
  /\ \/ closed' = closed
     \/ closed' = closed \cup ({This(a).fd} \ {None}) /\ Struck(a) \subseteq hit'

Dies == \E how \in {"segv", "terminate", "doublefree"} : Die(how)

LEMMA MovesTo ==
  ASSUME PcOK(pc), NEW a \in Actors, NEW labels, NEW l \in labels \cap PCOf(a),
         pc' = [pc EXCEPT ![a] = l] \/ pc' = Notify([pc EXCEPT ![a] = l]),
         a = Cleanup => l # "wait"
  PROVE  Moves(a, labels)
<1>1. PcOK(pc')
  BY PcMove
<1>2. pc \in [Actors -> WorkerPC \cup CleanupPC \cup LoopPC]
  BY DEF PcOK
<1>3. QED BY <1>1, <1>2, ActorsDistinct DEF Moves, Notify

LEMMA StopReturn ==
  ASSUME NEW a \in Actors, NEW f
  PROVE  /\ \E l \in (StopPC \cup StopExit(a)) \cap PCOf(a) :
              l # "wait" /\ TunReturn(a, f) = [f EXCEPT ![a] = l]
         /\ \E l \in (StopPC \cup StopExit(a)) \cap PCOf(a) :
              l # "wait" /\ WebReturn(a, f) = [f EXCEPT ![a] = l]
<1>1. {"t_test"} \subseteq (StopPC \cup StopExit(a)) \cap PCOf(a)
  BY StopLabels DEF StopPC, TunStop
<1>2. a \in Conns => "ended" \in (StopPC \cup StopExit(a)) \cap PCOf(a)
  BY StopLabels DEF StopExit
<1>3. a \notin Conns => {"close", "free"} \subseteq (StopPC \cup StopExit(a)) \cap PCOf(a)
  BY StopLabels DEF StopExit
<1>4. QED BY <1>1, <1>2, <1>3 DEF TunReturn, WebReturn

\* A store that leaves owner, time stamp, descriptor and _done of every object.
Quiet(o) == /\ o \in [Slots -> Object]
            /\ \A s \in Slots :
                   /\ o[s].own = obj[s].own /\ o[s].latest = obj[s].latest
                   /\ o[s].fd = obj[s].fd /\ o[s].done = obj[s].done

LEMMA QuietUpdate ==
  ASSUME obj \in [Slots -> Object], NEW s \in Slots, NEW b \in BOOLEAN,
         NEW x \in {"null", "open", "freed"},
         NEW y \in {"null", "joinable", "detached", "freed"}
  PROVE  /\ Quiet(obj)
         /\ Quiet([obj EXCEPT ![s].srun = b])
         /\ Quiet([obj EXCEPT ![s].wrun = b])
         /\ Quiet([obj EXCEPT ![s].ssl = x])
         /\ Quiet([obj EXCEPT ![s].td = y])
<1>1. Quiet(obj)
  BY DEF Quiet
<1>2. Quiet([obj EXCEPT ![s].srun = b])
  BY DEF Quiet, Object
<1>3. Quiet([obj EXCEPT ![s].wrun = b])
  BY DEF Quiet, Object
<1>4. Quiet([obj EXCEPT ![s].ssl = x])
  BY DEF Quiet, Object
<1>5. Quiet([obj EXCEPT ![s].td = y])
  BY DEF Quiet, Object
<1>6. QED BY <1>1, <1>2, <1>3, <1>4, <1>5

LEMMA DoneUpdate ==
  ASSUME obj \in [Slots -> Object], NEW s \in Slots, obj' = [obj EXCEPT ![s].done = TRUE]
  PROVE  /\ obj' \in [Slots -> Object]
         /\ \A r \in Slots :
                /\ obj'[r].own = obj[r].own /\ obj'[r].latest = obj[r].latest
                /\ obj'[r].fd = obj[r].fd
                /\ obj'[r].done = TRUE \/ obj'[r].done = obj[r].done
                /\ r = s \/ obj'[r].done = obj[r].done
<1>1. obj' \in [Slots -> Object]
  BY DEF Object
<1>2. ASSUME NEW r \in Slots
      PROVE  /\ obj'[r].own = obj[r].own /\ obj'[r].latest = obj[r].latest
             /\ obj'[r].fd = obj[r].fd
             /\ obj'[r].done = IF r = s THEN TRUE ELSE obj[r].done
  BY DEF Object
<1>3. QED BY <1>1, <1>2

LEMMA FdUpdate ==
  ASSUME obj \in [Slots -> Object], NEW s \in Slots, NEW c \in Conns \cup {None},
         obj' = [obj EXCEPT ![s].fd = c]
  PROVE  /\ obj' \in [Slots -> Object]
         /\ \A r \in Slots :
                /\ obj'[r].own = obj[r].own /\ obj'[r].latest = obj[r].latest
                /\ obj'[r].fd = IF r = s THEN c ELSE obj[r].fd
                /\ obj'[r].done = obj[r].done
<1>1. obj' \in [Slots -> Object]
  BY DEF Object
<1>2. ASSUME NEW r \in Slots
      PROVE  /\ obj'[r].own = obj[r].own /\ obj'[r].latest = obj[r].latest
             /\ obj'[r].fd = IF r = s THEN c ELSE obj[r].fd
             /\ obj'[r].done = obj[r].done
  BY DEF Object
<1>3. QED BY <1>1, <1>2

LEMMA StopLocation ==
  ASSUME NEW a \in Actors, StopStep(a)
  PROVE  pc[a] \in StopPC
  BY DEF StopStep, TunTest, TunRun, TunNotify, TunThread, TunNull, WebTest, WebRun, WebSsl,
         WebSslNull, WebFd, WebNotify, WebThread, WebNull, DeleteThread, StopPC, TunStop, WebStop

LEMMA StopIsBounded ==
  ASSUME IInv, NEW a \in Actors, StopStep(a)
  PROVE  StopEffect(a) \/ Dies
<1>1. pc[a] \in StopPC
  BY StopLocation
<1>2. At(a) \in Slots /\ This(a) \in Object
  BY <1>1, AtSlot DEF StopPC, DestroyPC, TunStop, WebStop
<1>3. /\ PcOK(pc) /\ obj \in [Slots -> Object] /\ again \subseteq Conns
      /\ hit \subseteq Conns /\ closed \subseteq Conns
  BY DEF IInv, TypeOK
<1>4. Struck(a) \subseteq Conns
  BY <1>2 DEF Struck, Object
<1>5. StopPC \subseteq (StopPC \cup StopExit(a)) \cap PCOf(a) /\ "wait" \notin StopPC
  BY StopLabels DEF StopPC, TunStop, WebStop
<1>6. ASSUME NEW l \in StopPC, pc' = [pc EXCEPT ![a] = l] \/ pc' = Notify([pc EXCEPT ![a] = l])
      PROVE  Moves(a, StopPC \cup StopExit(a))
  BY <1>3, <1>5, <1>6, MovesTo
<1>7. ASSUME pc' = TunReturn(a, pc) \/ pc' = WebReturn(a, pc)
      PROVE  Moves(a, StopPC \cup StopExit(a))
  BY <1>3, <1>7, MovesTo, StopReturn
<1>8. ASSUME Quiet(obj'), SameLoop, SameList, UNCHANGED <<fault, closed>>,
             hit' = hit \/ hit' = hit \cup Struck(a), again' \subseteq Conns,
             Moves(a, StopPC \cup StopExit(a))
      PROVE  StopEffect(a)
  BY <1>3, <1>4, <1>8 DEF StopEffect, Quiet
<1>9. CASE TunTest(a)
  <2>1. CASE This(a).srun /\ ~This(a).web /\ obj' = [obj EXCEPT ![At(a)].done = TRUE]
    <3>1. hit' = hit \cup Struck(a) /\ UNCHANGED <<again, closed, fault>> /\ SameLoop /\ SameList
      BY <1>9, <2>1 DEF TunTest
    <3>2. pc' = [pc EXCEPT ![a] = "t_run"]
      BY <1>9, <2>1 DEF TunTest, Goto
    <3>3. Moves(a, StopPC \cup StopExit(a))
      BY <3>2, <1>6 DEF StopPC, TunStop
    <3>4. QED BY <1>2, <1>3, <1>4, <2>1, <3>1, <3>3, DoneUpdate DEF StopEffect
  <2>2. CASE ~(This(a).srun /\ ~This(a).web)
    <3>1. /\ obj' = obj /\ hit' = hit /\ again' = again \ {a} /\ pc' = TunReturn(a, pc)
          /\ UNCHANGED <<closed, fault>> /\ SameLoop /\ SameList
      BY <1>9, <2>2 DEF TunTest
    <3>2. QED BY <1>3, <1>7, <1>8, <3>1, <1>2, QuietUpdate
  <2>3. QED BY <1>9, <2>1, <2>2 DEF TunTest
<1>10. CASE TunRun(a)
  <2>1. Moves(a, StopPC \cup StopExit(a))
    BY <1>10, <1>6 DEF TunRun, Goto, StopPC, TunStop
  <2>2. Quiet(obj')
    BY <1>2, <1>3, <1>10, QuietUpdate DEF TunRun
  <2>3. QED BY <1>3, <1>8, <1>10, <2>1, <2>2 DEF TunRun
<1>11. CASE TunNotify(a)
  <2>1. Moves(a, StopPC \cup StopExit(a))
    BY <1>11, <1>6 DEF TunNotify, StopPC, TunStop
  <2>2. Quiet(obj')
    BY <1>2, <1>3, <1>11, QuietUpdate DEF TunNotify
  <2>3. QED BY <1>3, <1>8, <1>11, <2>1, <2>2 DEF TunNotify
<1>12. ASSUME NEW here, NEW next \in StopPC, NEW back, DeleteThread(a, here, next, back),
              back = TunReturn(a, pc) \/ back = WebReturn(a, pc)
       PROVE  StopEffect(a) \/ Dies
  <2>1. CASE This(a).td = "detached" /\ obj' = [obj EXCEPT ![At(a)].td = "freed"]
    <3>1. Moves(a, StopPC \cup StopExit(a))
      BY <1>12, <2>1, <1>6 DEF DeleteThread, Goto
    <3>2. Quiet(obj')
      BY <1>2, <1>3, <2>1, QuietUpdate
    <3>3. QED BY <1>3, <1>8, <1>12, <2>1, <3>1, <3>2 DEF DeleteThread
  <2>2. CASE This(a).td = "null"
    <3>1. /\ pc' = back /\ again' = again \ {a} /\ obj' = obj /\ hit' = hit
          /\ UNCHANGED <<closed, fault>> /\ SameLoop /\ SameList
      BY <1>12, <2>2 DEF DeleteThread
    <3>2. Moves(a, StopPC \cup StopExit(a))
      BY <1>12, <3>1, <1>7
    <3>3. QED BY <1>2, <1>3, <1>8, <3>1, <3>2, QuietUpdate
  <2>3. CASE Die("terminate") \/ Die("doublefree")
    BY <2>3 DEF Dies
  <2>4. QED BY <1>12, <2>1, <2>2, <2>3 DEF DeleteThread
<1>13. CASE TunThread(a)
  BY <1>12, <1>13 DEF TunThread, StopPC, TunStop
<1>14. CASE TunNull(a)
  <2>1. Quiet(obj')
    BY <1>2, <1>3, <1>14, QuietUpdate DEF TunNull
  <2>2. Moves(a, StopPC \cup StopExit(a))
    BY <1>14, <1>7 DEF TunNull
  <2>3. QED BY <1>3, <1>8, <1>14, <2>1, <2>2 DEF TunNull
<1>15. CASE WebTest(a)
  <2>1. CASE This(a).wrun /\ obj' = [obj EXCEPT ![At(a)].done = TRUE]
    <3>1. hit' = hit \cup Struck(a) /\ UNCHANGED <<again, closed, fault>> /\ SameLoop /\ SameList
      BY <1>15, <2>1 DEF WebTest
    <3>2. pc' = [pc EXCEPT ![a] = "w_run"]
      BY <1>15, <2>1 DEF WebTest, Goto
    <3>3. Moves(a, StopPC \cup StopExit(a))
      BY <3>2, <1>6 DEF StopPC, WebStop
    <3>4. QED BY <1>2, <1>3, <1>4, <2>1, <3>1, <3>3, DoneUpdate DEF StopEffect
  <2>2. CASE ~This(a).wrun
    <3>1. /\ obj' = obj /\ hit' = hit /\ again' = again /\ pc' = WebReturn(a, pc)
          /\ UNCHANGED <<closed, fault>> /\ SameLoop /\ SameList
      BY <1>15, <2>2 DEF WebTest
    <3>2. QED BY <1>3, <1>7, <1>8, <3>1, <1>2, QuietUpdate
  <2>3. QED BY <1>15, <2>1, <2>2 DEF WebTest
<1>16. CASE WebRun(a)
  <2>1. Moves(a, StopPC \cup StopExit(a))
    BY <1>16, <1>6 DEF WebRun, Goto, StopPC, WebStop
  <2>2. Quiet(obj')
    BY <1>2, <1>3, <1>16, QuietUpdate DEF WebRun
  <2>3. QED BY <1>3, <1>8, <1>16, <2>1, <2>2 DEF WebRun
<1>17. CASE WebSsl(a)
  <2>1. CASE This(a).ssl = "freed"
    BY <1>17, <2>1 DEF WebSsl, Dies
  <2>2. CASE This(a).ssl # "freed"
    <3>1. Moves(a, StopPC \cup StopExit(a))
      BY <1>17, <2>2, <1>6 DEF WebSsl, Goto, StopPC, WebStop
    <3>2. Quiet(obj')
      BY <1>2, <1>3, <1>17, <2>2, QuietUpdate DEF WebSsl
    <3>3. UNCHANGED <<again, closed, hit, fault>> /\ SameLoop /\ SameList
      BY <1>17, <2>2 DEF WebSsl
    <3>4. QED BY <1>3, <1>8, <3>1, <3>2, <3>3
  <2>3. QED BY <2>1, <2>2
<1>18. CASE WebSslNull(a)
  <2>1. Moves(a, StopPC \cup StopExit(a))
    BY <1>18, <1>6 DEF WebSslNull, Goto, StopPC, WebStop
  <2>2. Quiet(obj')
    BY <1>2, <1>3, <1>18, QuietUpdate DEF WebSslNull
  <2>3. QED BY <1>3, <1>8, <1>18, <2>1, <2>2 DEF WebSslNull
<1>19. CASE WebFd(a)
  <2>1. Moves(a, StopPC \cup StopExit(a))
    BY <1>19, <1>6 DEF WebFd, Goto, StopPC, WebStop
  <2>2. /\ obj' = [obj EXCEPT ![At(a)].fd = None] /\ hit' = hit \cup Struck(a)
        /\ closed' = closed \cup ({This(a).fd} \ {None})
        /\ UNCHANGED <<again, fault>> /\ SameLoop /\ SameList
    BY <1>19 DEF WebFd
  <2>3. /\ obj' \in [Slots -> Object]
        /\ \A r \in Slots :
             /\ obj'[r].own = obj[r].own /\ obj'[r].latest = obj[r].latest
             /\ obj'[r].fd = IF r = At(a) THEN None ELSE obj[r].fd
             /\ obj'[r].done = obj[r].done
    BY <1>2, <1>3, <2>2, FdUpdate
  <2>4. hit \subseteq hit' /\ hit' \subseteq Conns /\ Struck(a) \subseteq hit' /\ again' \subseteq Conns
    BY <1>3, <1>4, <2>2
  <2>5. QED BY <2>1, <2>2, <2>3, <2>4 DEF StopEffect
<1>20. CASE WebNotify(a)
  <2>1. Moves(a, StopPC \cup StopExit(a))
    BY <1>20, <1>6 DEF WebNotify, StopPC, WebStop
  <2>2. Quiet(obj')
    BY <1>2, <1>3, <1>20, QuietUpdate DEF WebNotify
  <2>3. QED BY <1>3, <1>8, <1>20, <2>1, <2>2 DEF WebNotify
<1>21. CASE WebThread(a)
  <2>1. CASE KindOf[At(a)] = "websrv"
    BY <1>12, <1>21, <2>1 DEF WebThread, StopPC, WebStop
  <2>2. CASE KindOf[At(a)] # "websrv"
    <3>1. Moves(a, StopPC \cup StopExit(a))
      BY <1>21, <2>2, <1>7 DEF WebThread
    <3>2. Quiet(obj')
      BY <1>2, <1>3, <1>21, <2>2, QuietUpdate DEF WebThread
    <3>3. QED BY <1>3, <1>8, <1>21, <2>2, <3>1, <3>2 DEF WebThread
  <2>3. QED BY <2>1, <2>2
<1>22. CASE WebNull(a)
  <2>1. Moves(a, StopPC \cup StopExit(a))
    BY <1>22, <1>7 DEF WebNull
  <2>2. Quiet(obj')
    BY <1>2, <1>3, <1>22, QuietUpdate DEF WebNull
  <2>3. QED BY <1>3, <1>8, <1>22, <2>1, <2>2 DEF WebNull
<1>23. QED
  BY <1>9, <1>10, <1>11, <1>13, <1>14, <1>15, <1>16, <1>17, <1>18, <1>19, <1>20, <1>21,
     <1>22 DEF StopStep

-----------------------------------------------------------------------------
(* The inductive invariant, one lemma per group of actions *)

Core == /\ Allocation /\ Phases /\ LinkedAlive /\ Traversal /\ Successor /\ Sessions

LEMMA InitCore == Init => IInv
<1> SUFFICES ASSUME Init PROVE IInv
  OBVIOUS
<1>1. obj \in [Slots -> Object]
  BY ClockAssumption DEF Init, Fresh, Object, Conns, None
<1>2. PcOK(pc)
  BY ActorsDistinct DEF Init, PcOK, PCOf, LoopPC, CleanupPC, WorkerPC
<1>3. FirstList \in Kinds
  BY DEF FirstList, Kinds
<1>4. TypeOK
  BY <1>1, <1>2, <1>3, ActorsDistinct, ClockAssumption, MaxConnsAssumption DEF Init, TypeOK, AtHead
<1>5. Core
  BY ActorsDistinct, ClockAssumption, SlotsAssumption
     DEF Init, Core, Allocation, Phases, LinkedAlive, Traversal, Successor, Sessions, Fresh, AtHead,
         Born, AcceptPC, ShutdownPC, SessionPC, DestroyPC, TunStop, WebStop, Conns
<1>6. QED BY <1>4, <1>5 DEF IInv, Core

\* Steps after which only a thread stands elsewhere.
LEMMA ControlSteps ==
  ASSUME IInv,
         \/ TestRunning \/ WaitFor \/ WaitTimeout \/ SignalNotify \/ Join \/ ShutdownVisit
         \/ \E a \in {Loop, Cleanup} : Delete(a)
  PROVE  IInv'
<1>1. pc \in [Actors -> WorkerPC \cup CleanupPC \cup LoopPC] /\ PcOK(pc)
  BY DEF IInv, TypeOK, PcOK
<1> DEFINE Still == SameLoop /\ SameList /\ UNCHANGED <<obj, again, closed, hit, fault>>
<1>2. ASSUME Still, PcOK(pc') PROVE TypeOK'
  BY <1>2 DEF IInv, TypeOK, SameLoop, SameList
<1> DEFINE Step(a, from, to) == /\ Still /\ pc[a] = from
                                /\ pc' = [pc EXCEPT ![a] = to] \/ pc' = Notify([pc EXCEPT ![a] = to])
<1>3. ASSUME NEW a \in {Loop, Cleanup}, NEW from, NEW to \in PCOf(a), Step(a, from, to)
      PROVE  TypeOK'
  <2>1. a \in Actors
    BY ActorsDistinct
  <2>2. PcOK(pc')
    BY <1>1, <1>3, <2>1, PcMove
  <2>3. QED BY <1>2, <1>3, <2>2
<1> HIDE DEF Still
<1>4. CASE TestRunning
  <2>1. \E l \in {"lock", "ended"} : Step(Cleanup, "test", l) /\ (l = "ended" => ~running)
    BY <1>4 DEF TestRunning, Goto, Still
  <2>2. TypeOK'
    BY <2>1, <1>3, ActorsDistinct DEF PCOf, CleanupPC
  <2>3. Core'
    BY <2>1, <1>1, ActorsDistinct
       DEF Still, Notify, SameLoop, SameList, IInv, Core, Allocation, Phases, LinkedAlive, Traversal,
           Successor, Sessions, Alive, Born, AcceptPC, ShutdownPC, SessionPC, DestroyPC, TunStop,
           WebStop, Swept, HasNextList, Kind, This, At
  <2>4. QED BY <2>2, <2>3 DEF IInv, Core
<1>5. CASE WaitFor
  <2>1. Step(Cleanup, "lock", "wait")
    BY <1>5 DEF WaitFor, Goto, Still
  <2>2. TypeOK'
    BY <2>1, <1>3, ActorsDistinct DEF PCOf, CleanupPC
  <2>3. pc' = [pc EXCEPT ![Cleanup] = "wait"]
    BY <1>5 DEF WaitFor, Goto
  <2>4. Core'
    BY <2>1, <2>3, <1>1, ActorsDistinct
       DEF Still, SameLoop, SameList, IInv, Core, Allocation, Phases, LinkedAlive, Traversal,
           Successor, Sessions, Alive, Born, AcceptPC, ShutdownPC, SessionPC, DestroyPC, TunStop,
           WebStop, Swept, HasNextList, Kind, This, At
  <2>5. QED BY <2>2, <2>4 DEF IInv, Core
<1>11. CASE WaitTimeout
  <2>1. Step(Cleanup, "wait", "head")
    BY <1>11 DEF WaitTimeout, Goto, Still
  <2>2. TypeOK'
    BY <2>1, <1>3, ActorsDistinct DEF PCOf, CleanupPC
  <2>3. pc' = [pc EXCEPT ![Cleanup] = "head"]
    BY <1>11 DEF WaitTimeout, Goto
  <2>4. Core'
    BY <2>1, <2>3, <1>1, ActorsDistinct
       DEF Still, SameLoop, SameList, IInv, Core, Allocation, Phases, LinkedAlive, Traversal,
           Successor, Sessions, Alive, Born, AcceptPC, ShutdownPC, SessionPC, DestroyPC, TunStop,
           WebStop, Swept, HasNextList, Kind, This, At
  <2>5. QED BY <2>2, <2>4 DEF IInv, Core
<1>6. CASE SignalNotify
  <2>1. Step(Loop, "notify", "join")
    BY <1>6 DEF SignalNotify, Still
  <2>2. TypeOK'
    BY <2>1, <1>3, ActorsDistinct DEF PCOf, LoopPC
  <2>3. Core'
    BY <2>1, <1>1, ActorsDistinct
       DEF Still, Notify, SameLoop, SameList, IInv, Core, Allocation, Phases, LinkedAlive, Traversal,
           Successor, Sessions, Alive, Born, AcceptPC, ShutdownPC, SessionPC, DestroyPC, TunStop,
           WebStop, Swept, HasNextList, Kind, This, At
  <2>4. QED BY <2>2, <2>3 DEF IInv, Core
<1>7. CASE Join
  <2>1. Step(Loop, "join", "head") /\ pc[Cleanup] = "ended"
    BY <1>7 DEF Join, Goto, Still
  <2>2. TypeOK'
    BY <2>1, <1>3, ActorsDistinct DEF PCOf, LoopPC
  <2>3. Core'
    BY <1>7, <1>1, ActorsDistinct
       DEF Join, Goto, SameLoop, SameList, IInv, Core, Allocation, Phases, LinkedAlive, Traversal,
           Successor, Sessions, Alive, Born, AcceptPC, ShutdownPC, SessionPC, DestroyPC, TunStop,
           WebStop, Swept, HasNextList, Kind, This, At
  <2>4. QED BY <2>2, <2>3 DEF IInv, Core
<1>8. CASE ShutdownVisit
  <2>1. Step(Loop, "visit", "delete")
    BY <1>8 DEF ShutdownVisit, Goto, Still
  <2>2. TypeOK'
    BY <2>1, <1>3, ActorsDistinct DEF PCOf, LoopPC, DestroyPC
  <2>3. Core'
    BY <1>8, <1>1, ActorsDistinct
       DEF ShutdownVisit, Goto, SameLoop, SameList, IInv, Core, Allocation, Phases, LinkedAlive,
           Traversal, Successor, Sessions, Alive, Born, AcceptPC, ShutdownPC, SessionPC, DestroyPC,
           TunStop, WebStop, Swept, HasNextList, Kind, This, At
  <2>4. QED BY <2>2, <2>3 DEF IInv, Core
<1>9. ASSUME NEW a \in {Loop, Cleanup}, Delete(a) PROVE IInv'
  <2>1. \E l \in {"w_test", "t_test"} : Step(a, "delete", l)
    BY <1>9 DEF Delete, Goto, Still
  <2>2. TypeOK'
    BY <2>1, <1>3, ActorsDistinct DEF PCOf, LoopPC, CleanupPC, DestroyPC, TunStop, WebStop
  <2>3. \E l \in {"w_test", "t_test"} : pc' = [pc EXCEPT ![a] = l] /\ pc[a] = "delete"
    BY <1>9 DEF Delete, Goto
  <2>4. Core'
    BY <1>9, <2>1, <2>3, <1>1, ActorsDistinct
       DEF Still, SameLoop, SameList, IInv, Core, Allocation, Phases, LinkedAlive,
           Traversal, Successor, Sessions, Alive, Born, AcceptPC, ShutdownPC, SessionPC, DestroyPC,
           TunStop, WebStop, Swept, HasNextList, Kind, This, At
  <2>5. QED BY <2>2, <2>4 DEF IInv, Core
<1>12. QED BY <1>4, <1>5, <1>6, <1>7, <1>8, <1>9, <1>11

\* The three ways a traversal goes on from a node to j, or from a list's end.
StepEffect(a, j) ==
  /\ walk' \in [{Loop, Cleanup} -> [list : Kinds, cur : Conns \cup {None},
                                    nxt : Conns \cup {None, End}]]
  /\ \A b \in {Loop, Cleanup} \ {a} : walk'[b] = walk[b]
  /\ PcOK(pc') /\ \A b \in Actors \ {a} : pc'[b] = pc[b]
  /\ \/ /\ j # End /\ pc'[a] = "visit"
        /\ walk'[a].cur = j /\ walk'[a].list = walk[a].list
     \/ /\ j = End /\ walk[a].list = "socks5" /\ pc'[a] = "head"
        /\ walk'[a].list = "websrv" /\ walk'[a].cur = None
     \/ /\ j = End /\ walk[a].list # "socks5" /\ pc'[a] = Finished(a)
        /\ walk'[a].cur = None

LEMMA StepToEffect ==
  ASSUME TypeOK, NEW a \in {Loop, Cleanup}, NEW j \in Conns \cup {End},
         StepTo(a, j, Finished(a))
  PROVE  StepEffect(a, j)
<1>1. PcOK(pc) /\ pc \in [Actors -> WorkerPC \cup CleanupPC \cup LoopPC] /\ a \in Actors
  BY ActorsDistinct DEF TypeOK, PcOK
<1>2. walk \in [{Loop, Cleanup} -> [list : Kinds, cur : Conns \cup {None},
                                    nxt : Conns \cup {None, End}]]
  BY DEF TypeOK
<1>3. {"visit", "head", Finished(a)} \subseteq PCOf(a)
  BY ActorsDistinct DEF Finished, PCOf, LoopPC, CleanupPC
<1>4. ASSUME NEW l \in PCOf(a), pc' = [pc EXCEPT ![a] = l]
      PROVE  PcOK(pc') /\ (\A b \in Actors \ {a} : pc'[b] = pc[b]) /\ pc'[a] = l
  BY <1>1, <1>4, PcMove
<1>5. CASE j # End /\ walk' = [walk EXCEPT ![a] = [@ EXCEPT !.cur = j, !.nxt = None]]
                   /\ pc' = [pc EXCEPT ![a] = "visit"]
  BY <1>2, <1>3, <1>4, <1>5 DEF StepEffect
<1>6. CASE j = End /\ HasNextList(walk[a].list) /\ walk' = [walk EXCEPT ![a] = AtHead("websrv")]
                   /\ pc' = [pc EXCEPT ![a] = "head"]
  <2>1. "websrv" \in Kinds
    BY <1>2, <1>6 DEF Kinds, HasNextList
  <2>2. QED BY <1>2, <1>3, <1>4, <1>6, <2>1 DEF StepEffect, AtHead, HasNextList
<1>7. CASE j = End /\ ~HasNextList(walk[a].list) /\ walk' = [walk EXCEPT ![a] = AtHead(FirstList)]
                   /\ pc' = [pc EXCEPT ![a] = Finished(a)]
  <2>1. FirstList \in Kinds
    BY DEF Kinds, FirstList
  <2>2. QED BY <1>2, <1>3, <1>4, <1>7, <2>1 DEF StepEffect, AtHead, HasNextList
<1>8. QED BY <1>5, <1>6, <1>7 DEF StepTo, Goto

LEMMA WalkTyped ==
  ASSUME TypeOK, NEW a \in {Loop, Cleanup}, NEW j \in Conns \cup {End}, StepEffect(a, j),
         linked' \subseteq Conns, tailbad' \subseteq Kinds,
         SameLoop, UNCHANGED <<obj, lost, again, closed, hit, fault>>
  PROVE  TypeOK'
BY DEF TypeOK, StepEffect, SameLoop

\* The shutdown loop moves on: what it has passed is swept, what it reaches is not.
LEMMA LoopAdvances ==
  ASSUME IInv, pc[Loop] \in {"head", "next"}, NEW j \in Conns \cup {End},
         IsNext(walk[Loop].list, walk[Loop].cur, j), StepEffect(Loop, j),
         UNCHANGED <<chunk, obj, linked>>
  PROVE  LinkedAlive' /\ Traversal'
<1>1. /\ walk'[Cleanup] = walk[Cleanup] /\ pc'[Cleanup] = pc[Cleanup] /\ pc[Cleanup] = "ended"
      /\ linked \subseteq Conns /\ walk[Loop].cur \in Conns \cup {None} /\ walk[Loop].list \in Kinds
  BY ActorsDistinct DEF StepEffect, IInv, TypeOK, Phases, ShutdownPC
<1>2. \A i \in linked : Kind(i) \in Kinds
  BY <1>1, SlotsAssumption DEF IInv, Allocation, Born, Kind
<1>3. pc'[Loop] \in {"visit", "head", "clear"}
  BY ActorsDistinct DEF StepEffect, Finished
<1>4. ASSUME NEW i \in linked PROVE Alive(i) \/ Swept(i)
  BY <1>1, <1>4 DEF IInv, LinkedAlive
<1>5. ASSUME NEW i \in linked, Swept(i) PROVE (Alive(i) \/ Swept(i))'
  <2>0. i \in Nat /\ j \in Nat /\ walk[Loop].cur \in Nat
    <3>1. i \in Nat
      BY <1>1, ActorsDistinct
    <3>2. j \in Nat
      BY ActorsDistinct
    <3>3. None \in Nat
      BY DEF None
    <3>4. QED BY <1>1, <3>1, <3>2, <3>3, ActorsDistinct
  <2>1. \/ HasNextList(Kind(i)) /\ ~HasNextList(walk[Loop].list)
        \/ Kind(i) = walk[Loop].list /\ i <= walk[Loop].cur
    <3>1. pc[Loop] = "next" => Kind(walk[Loop].cur) = walk[Loop].list
      BY DEF IInv, Traversal
    <3>2. QED BY <1>5, <2>0, <3>1 DEF Swept
  <2>2. CASE j # End
    <3>1. j > walk[Loop].cur
      BY <2>2, ActorsDistinct DEF IsNext
    <3>2. i \in Conns /\ j \in Conns
      BY <1>1, <2>2
    <3>3. pc'[Loop] = "visit" /\ walk'[Loop].cur = j /\ walk'[Loop].list = walk[Loop].list
      BY <2>2 DEF StepEffect
    <3>4. i <= walk[Loop].cur => i < walk'[Loop].cur
      BY <2>0, <3>1, <3>3
    <3>5. QED BY <2>1, <3>3, <3>4 DEF Swept, ShutdownPC, Kind
  <2>3. CASE j = End /\ walk[Loop].list = "socks5"
    BY <2>1, <2>3, <1>2 DEF StepEffect, Swept, ShutdownPC, Kind, HasNextList
  <2>4. CASE j = End /\ walk[Loop].list # "socks5"
    BY <2>4, ActorsDistinct DEF StepEffect, Swept, Finished
  <2>5. QED BY <2>2, <2>3, <2>4
<1>6. LinkedAlive'
  <2>1. ASSUME NEW i \in linked, Alive(i) PROVE Alive(i)'
    BY <2>1 DEF Alive
  <2>2. QED BY <1>4, <1>5, <2>1 DEF LinkedAlive
<1>7. ASSUME j # End PROVE j \in linked /\ Kind(j) = walk[Loop].list /\ Alive(j)
  <2>1. j \in linked /\ Kind(j) = walk[Loop].list /\ j > walk[Loop].cur /\ j \in Conns
    BY <1>1, <1>7 DEF IsNext, ListOf
  <2>2. ~Swept(j)
    <3>1. j \in Nat /\ walk[Loop].cur \in Nat
      BY <1>1, <2>1, ActorsDistinct DEF None
    <3>2. QED BY <2>1, <3>1 DEF Swept
  <2>3. QED BY <2>1, <2>2, <1>4
<1>8. Traversal'
  <2>1. /\ pc'[Loop] = "visit" => walk'[Loop].cur = j /\ j # End
                                /\ walk'[Loop].list = walk[Loop].list
        /\ pc'[Loop] # "visit" => walk'[Loop].cur = None
    BY ActorsDistinct DEF StepEffect, Finished
  <2>2. walk'[Cleanup].cur = None
    BY <1>1 DEF IInv, Traversal, DestroyPC, TunStop, WebStop
  <2>3. QED BY <1>1, <1>3, <1>7, <2>1, <2>2
            DEF Traversal, Alive, Kind, DestroyPC, TunStop, WebStop
<1>9. QED BY <1>6, <1>8

\* The cleanup thread moves on to a linked node: before the join nothing is swept.
LEMMA CleanupAdvances ==
  ASSUME IInv, pc[Cleanup] \in {"head", "visit"}, NEW j \in Conns \cup {End},
         IsNext(walk[Cleanup].list, walk[Cleanup].cur, j), StepEffect(Cleanup, j),
         UNCHANGED <<chunk, obj, linked>>
  PROVE  LinkedAlive' /\ Traversal'
<1>1. /\ walk'[Loop] = walk[Loop] /\ pc'[Loop] = pc[Loop]
      /\ pc[Loop] \notin ShutdownPC \cup {"clear", "exit"}
      /\ linked \subseteq Conns /\ walk[Cleanup].cur \in Conns \cup {None}
  BY ActorsDistinct DEF StepEffect, IInv, TypeOK, Phases
<1>2. \A i \in linked : Alive(i)
  BY <1>1 DEF IInv, LinkedAlive, Swept
<1>3. LinkedAlive'
  BY <1>2 DEF LinkedAlive, Alive
<1>4. pc'[Cleanup] \in {"visit", "head", "test"}
  BY ActorsDistinct DEF StepEffect, Finished
<1>5. ASSUME j # End PROVE j \in linked /\ Kind(j) = walk[Cleanup].list /\ Alive(j)
  BY <1>2, <1>5 DEF IsNext, ListOf
<1>6. \A a \in {Loop} :
        /\ pc'[a] \in {"visit", "unlink", "next"} \cup DestroyPC =>
             walk'[a].cur \in linked /\ Kind(walk'[a].cur) = walk'[a].list
        /\ pc'[a] \in {"visit"} \cup DestroyPC => Alive(walk'[a].cur)
        /\ pc'[a] \notin {"visit", "unlink", "next"} \cup DestroyPC => walk'[a].cur = None
  BY <1>1 DEF IInv, Traversal
<1>7. /\ pc'[Cleanup] = "visit" => walk'[Cleanup].cur \in linked /\ Alive(walk'[Cleanup].cur)
                                   /\ Kind(walk'[Cleanup].cur) = walk'[Cleanup].list
      /\ pc'[Cleanup] # "visit" => walk'[Cleanup].cur = None
  BY <1>4, <1>5, ActorsDistinct DEF StepEffect, Finished
<1>8. Traversal'
  BY <1>4, <1>6, <1>7 DEF Traversal, Alive, Kind, DestroyPC, TunStop, WebStop
<1>9. QED BY <1>3, <1>8

LEMMA WalkSteps ==
  ASSUME IInv,
         Visit \/ Unlink \/ ShutdownNext \/ Clear \/ \E a \in {Loop, Cleanup} : Head(a)
  PROVE  IInv'
<1>1. pc \in [Actors -> WorkerPC \cup CleanupPC \cup LoopPC] /\ PcOK(pc) /\ TypeOK
  BY DEF IInv, TypeOK, PcOK
<1>2. walk \in [{Loop, Cleanup} -> [list : Kinds, cur : Conns \cup {None},
                                    nxt : Conns \cup {None, End}]]
  BY DEF IInv, TypeOK
<1>3. linked \subseteq Conns /\ tailbad \subseteq Kinds
  BY DEF IInv, TypeOK
<1> DEFINE Rest == SameLoop /\ UNCHANGED <<obj, lost, again, closed, hit, fault>>
<1>4. ASSUME NEW a \in {Loop, Cleanup}, Head(a) PROVE IInv'
  <2>1. PICK j \in Conns \cup {End} : IsNext(walk[a].list, None, j) /\ StepTo(a, j, Finished(a))
    BY <1>4 DEF Head
  <2>2. Rest /\ UNCHANGED <<linked, tailbad>> /\ pc[a] = "head"
    BY <1>4 DEF Head
  <2>3. StepEffect(a, j)
    BY <1>1, <2>1, StepToEffect
  <2>4. TypeOK'
    BY <1>1, <1>3, <2>2, <2>3, WalkTyped
  <2>5. Core'
    <3>1. Allocation'
      BY <1>1, <1>2, <2>1, <2>2, <2>3, ActorsDistinct DEF StepEffect, Finished, IInv, SameLoop, Allocation, Born, Alive, AcceptPC
    <3>2. Phases'
      BY <1>1, <1>2, <2>1, <2>2, <2>3, ActorsDistinct DEF StepEffect, Finished, IInv, SameLoop, Phases, AcceptPC, ShutdownPC, DestroyPC, TunStop, WebStop
    <3>4. LinkedAlive' /\ Traversal'
      BY <2>1, <2>2, <2>3, LoopAdvances, CleanupAdvances DEF SameLoop, IInv, Traversal, DestroyPC, TunStop, WebStop
    <3>5. Successor'
      BY <1>1, <1>2, <2>1, <2>2, <2>3, ActorsDistinct DEF StepEffect, Finished, IInv, SameLoop, Successor, Kind, DestroyPC, TunStop, WebStop, Phases, ShutdownPC
    <3>6. Sessions'
      BY <1>1, <1>2, <2>1, <2>2, <2>3, ActorsDistinct DEF StepEffect, Finished, IInv, SameLoop, Sessions, Alive, This, At, SessionPC, Phases, DestroyPC, TunStop, WebStop
    <3>7. QED BY <3>1, <3>2, <3>4, <3>5, <3>6 DEF Core
  <2>6. QED BY <2>4, <2>5 DEF IInv, Core
<1>5. CASE ShutdownNext
  <2>1. PICK j \in Conns \cup {End} :
           IsNext(walk[Loop].list, walk[Loop].cur, j) /\ StepTo(Loop, j, Finished(Loop))
    BY <1>5 DEF ShutdownNext
  <2>2. Rest /\ UNCHANGED <<linked, tailbad>> /\ pc[Loop] = "next"
    BY <1>5 DEF ShutdownNext
  <2>3. StepEffect(Loop, j)
    BY <1>1, <2>1, StepToEffect
  <2>4. TypeOK'
    BY <1>1, <1>3, <2>2, <2>3, WalkTyped
  <2>5. Core'
    <3>1. Allocation'
      BY <1>1, <1>2, <2>1, <2>2, <2>3, ActorsDistinct DEF StepEffect, Finished, IInv, SameLoop, Allocation, Born, Alive, AcceptPC
    <3>2. Phases'
      BY <1>1, <1>2, <2>1, <2>2, <2>3, ActorsDistinct DEF StepEffect, Finished, IInv, SameLoop, Phases, AcceptPC, ShutdownPC, DestroyPC, TunStop, WebStop
    <3>4. LinkedAlive' /\ Traversal'
      BY <2>1, <2>2, <2>3, LoopAdvances, CleanupAdvances DEF SameLoop, IInv, Traversal, DestroyPC, TunStop, WebStop
    <3>5. Successor'
      BY <1>1, <1>2, <2>1, <2>2, <2>3, ActorsDistinct DEF StepEffect, Finished, IInv, SameLoop, Successor, Kind, DestroyPC, TunStop, WebStop, Phases, ShutdownPC
    <3>6. Sessions'
      BY <1>1, <1>2, <2>1, <2>2, <2>3, ActorsDistinct DEF StepEffect, Finished, IInv, SameLoop, Sessions, Alive, This, At, SessionPC, Phases, DestroyPC, TunStop, WebStop
    <3>7. QED BY <3>1, <3>2, <3>4, <3>5, <3>6 DEF Core
  <2>6. QED BY <2>4, <2>5 DEF IInv, Core
<1>6. CASE Visit
  <2>1. PICK j \in Conns \cup {End} :
           /\ IsNext(walk[Cleanup].list, walk[Cleanup].cur, j)
           /\ \/ /\ Reapable(This(Cleanup))
                 /\ walk' = [walk EXCEPT ![Cleanup].nxt = j]
                 /\ Goto(Cleanup, "delete")
              \/ StepTo(Cleanup, j, Finished(Cleanup))
    BY <1>6 DEF Visit
  <2>2. Rest /\ UNCHANGED <<linked, tailbad>> /\ pc[Cleanup] = "visit"
    BY <1>6 DEF Visit
  <2>3. /\ walk[Cleanup].cur \in linked /\ Alive(walk[Cleanup].cur) /\ walk[Cleanup].cur \in Conns
        /\ Kind(walk[Cleanup].cur) = walk[Cleanup].list
        /\ pc[Loop] \notin ShutdownPC \cup {"clear", "exit"}
    BY <1>3, <2>2 DEF IInv, Traversal, Phases
  <2>4. CASE StepTo(Cleanup, j, Finished(Cleanup))
    <3>1. StepEffect(Cleanup, j)
      BY <1>1, <2>4, StepToEffect
    <3>2. TypeOK'
      BY <1>1, <1>3, <2>2, <3>1, WalkTyped
    <3>3. pc'[Cleanup] \in {"visit", "head", "test"} /\ \A b \in Actors \ {Cleanup} : pc'[b] = pc[b]
      BY <3>1, ActorsDistinct DEF StepEffect, Finished
    <3>4. walk'[Loop] = walk[Loop]
      BY <3>1, ActorsDistinct DEF StepEffect
    <3>5. Allocation'
      BY <2>2, <3>3, ActorsDistinct DEF IInv, SameLoop, Allocation, Born, Alive, AcceptPC
    <3>6. Phases'
      BY <2>2, <2>3, <3>3, ActorsDistinct DEF IInv, SameLoop, Phases
    <3>7. LinkedAlive' /\ Traversal'
      BY <2>1, <2>2, <3>1, CleanupAdvances DEF SameLoop
    <3>8. Successor'
      BY <3>3 DEF Successor, DestroyPC, TunStop, WebStop
    <3>9. Sessions'
      BY <2>2, <3>3, ActorsDistinct DEF IInv, SameLoop, Sessions, Alive, DestroyPC, TunStop, WebStop
    <3>10. QED BY <3>2, <3>5, <3>6, <3>7, <3>8, <3>9 DEF IInv, Core
  <2>5. CASE /\ Reapable(This(Cleanup))
             /\ walk' = [walk EXCEPT ![Cleanup].nxt = j]
             /\ pc' = [pc EXCEPT ![Cleanup] = "delete"]
    <3>1. PcOK(pc')
      BY <1>1, <2>5, ActorsDistinct, PcMove DEF PCOf, CleanupPC, DestroyPC
    <3>2. /\ walk' \in [{Loop, Cleanup} -> [list : Kinds, cur : Conns \cup {None},
                                            nxt : Conns \cup {None, End}]]
          /\ walk'[Cleanup].nxt = j /\ walk'[Cleanup].cur = walk[Cleanup].cur
          /\ walk'[Cleanup].list = walk[Cleanup].list /\ walk'[Loop] = walk[Loop]
      BY <1>2, <2>5, ActorsDistinct
    <3>3. pc'[Cleanup] = "delete" /\ \A b \in Actors \ {Cleanup} : pc'[b] = pc[b]
      BY <1>1, <2>5, ActorsDistinct
    <3>4. TypeOK'
      BY <1>1, <2>2, <3>1, <3>2 DEF TypeOK, SameLoop
    <3>5. Allocation'
      BY <2>2, <3>3, ActorsDistinct DEF IInv, SameLoop, Allocation, Born, Alive, AcceptPC
    <3>6. Phases'
      BY <2>2, <2>3, <3>3, ActorsDistinct DEF IInv, SameLoop, Phases
    <3>7. LinkedAlive'
      BY <2>2, <2>3, <3>2, <3>3 DEF IInv, LinkedAlive, Alive, Swept, SameLoop
    <3>8. Traversal'
      BY <2>2, <2>3, <3>2, <3>3, ActorsDistinct DEF IInv, Traversal, Alive, Kind, SameLoop, DestroyPC
    <3>9. Successor'
      BY <2>1, <2>2, <3>2, ActorsDistinct DEF Successor, IsNext, ListOf, Kind, SameLoop
    <3>10. Sessions'
      <4>1. ~(This(Cleanup).latest - clock > STimeout)
        <5>1. /\ At(Cleanup) \in Slots /\ This(Cleanup).latest \in Nat
              /\ clock \in Nat /\ STimeout \in Nat
          BY <2>2, ActorsDistinct, AtSlot, ClockAssumption DEF Object, IInv, TypeOK
        <5>2. This(Cleanup).latest <= clock
          BY <5>1 DEF IInv, Allocation, This
        <5>3. QED BY <5>1, <5>2
      <4>2. This(Cleanup).done
        BY <2>5, <4>1 DEF Reapable
      <4>3. This(Cleanup)' = This(Cleanup)
        BY <2>2, <3>2, ActorsDistinct DEF This, At, SameLoop
      <4>4. QED BY <2>2, <3>3, <4>2, <4>3, ActorsDistinct DEF IInv, SameLoop, Sessions, Alive, SessionPC
    <3>11. QED BY <3>4, <3>5, <3>6, <3>7, <3>8, <3>9, <3>10 DEF IInv, Core
  <2>6. QED BY <2>1, <2>4, <2>5 DEF Goto
<1>7. CASE Unlink
  <2> DEFINE c == walk[Cleanup].cur
             j == walk[Cleanup].nxt
  <2>1. Rest /\ pc[Cleanup] = "unlink" /\ linked' = linked \ {c} /\ tailbad' \subseteq Kinds
    BY <1>3, <1>7 DEF Unlink
  <2>2. /\ c \in linked /\ c \in Conns /\ pc[Loop] \notin ShutdownPC \cup {"clear", "exit"}
        /\ \A i \in linked \ {c} : Alive(i)
    BY <1>3, <2>1 DEF IInv, Traversal, Phases, LinkedAlive, Swept
  <2>3. j = End \/ (j \in linked \ {c} /\ j \in Conns /\ Kind(j) = walk[Cleanup].list)
    <3>1. j = End \/ (j \in linked /\ j > c /\ Kind(j) = walk[Cleanup].list)
      BY <2>1 DEF IInv, Successor
    <3>2. c \in Nat
      BY <2>2, ActorsDistinct
    <3>3. QED BY <1>3, <3>1, <3>2
  <2>4. StepEffect(Cleanup, j)
    <3>1. StepTo(Cleanup, j, Finished(Cleanup))
      BY <1>7 DEF Unlink
    <3>2. QED BY <1>1, <2>3, <3>1, StepToEffect
  <2>5. TypeOK'
    BY <1>1, <1>3, <2>1, <2>3, <2>4, WalkTyped
  <2>6. pc'[Cleanup] \in {"visit", "head", "test"} /\ \A b \in Actors \ {Cleanup} : pc'[b] = pc[b]
    BY <2>4, ActorsDistinct DEF StepEffect, Finished
  <2>7. walk'[Loop] = walk[Loop]
    BY <2>4, ActorsDistinct DEF StepEffect
  <2>8. Allocation'
    BY <2>1, <2>6, ActorsDistinct DEF IInv, SameLoop, Allocation, Born, Alive, AcceptPC
  <2>9. Phases'
    BY <2>1, <2>2, <2>6, ActorsDistinct DEF IInv, SameLoop, Phases
  <2>10. LinkedAlive'
    BY <2>1, <2>2 DEF LinkedAlive, Alive, SameLoop
  <2>11. Traversal'
    <3>1. /\ pc'[Cleanup] = "visit" => walk'[Cleanup].cur = j /\ j # End
                                       /\ walk'[Cleanup].list = walk[Cleanup].list
          /\ pc'[Cleanup] # "visit" => walk'[Cleanup].cur = None
      BY <2>4, ActorsDistinct DEF StepEffect, Finished
    <3>2. pc'[Loop] \notin {"visit", "unlink", "next"} \cup DestroyPC /\ walk'[Loop].cur = None
      <4>1. pc[Loop] # "unlink"
        BY <1>1, ActorsDistinct DEF PcOK, PCOf, LoopPC, DestroyPC, TunStop, WebStop
      <4>2. pc[Loop] \notin {"visit", "unlink", "next"} \cup DestroyPC
        BY <2>2, <4>1 DEF ShutdownPC
      <4>3. pc'[Loop] = pc[Loop]
        BY <2>6, ActorsDistinct
      <4>4. QED BY <2>7, <4>2, <4>3 DEF IInv, Traversal
    <3>3. QED BY <2>1, <2>2, <2>3, <2>6, <3>1, <3>2
              DEF Traversal, Alive, Kind, SameLoop, DestroyPC, TunStop, WebStop
  <2>12. Successor'
    BY <2>6 DEF Successor, DestroyPC, TunStop, WebStop
  <2>13. Sessions'
    BY <2>1, <2>6, ActorsDistinct DEF IInv, SameLoop, Sessions, Alive, DestroyPC, TunStop, WebStop
  <2>14. QED BY <2>5, <2>8, <2>9, <2>10, <2>11, <2>12, <2>13 DEF IInv, Core
<1>8. CASE Clear
  <2>1. Rest /\ UNCHANGED <<tailbad, walk>> /\ pc[Loop] = "clear" /\ linked' = {}
        /\ pc' = [pc EXCEPT ![Loop] = "exit"]
    BY <1>8 DEF Clear, Goto
  <2>2. PcOK(pc')
    BY <1>1, <2>1, ActorsDistinct, PcMove DEF PCOf, LoopPC
  <2>3. pc'[Loop] = "exit" /\ \A b \in Actors \ {Loop} : pc'[b] = pc[b]
    BY <1>1, <2>1, ActorsDistinct
  <2>4. pc[Cleanup] = "ended" /\ pc'[Cleanup] = "ended" /\ ~running
    BY <2>1, <2>3, ActorsDistinct DEF IInv, Phases, AcceptPC
  <2>5. TypeOK'
    BY <1>1, <2>1, <2>2 DEF TypeOK, SameLoop
  <2>6. Allocation'
    BY <2>1, <2>3, ActorsDistinct DEF IInv, SameLoop, Allocation, Born, Alive, AcceptPC
  <2>7. Phases' /\ LinkedAlive' /\ Successor' /\ Sessions'
    BY <2>1, <2>3, <2>4 DEF SameLoop, Phases, LinkedAlive, Successor, Sessions, AcceptPC,
                            DestroyPC, TunStop, WebStop
  <2>8. Traversal'
    BY <2>1, <2>3, <2>4 DEF IInv, Traversal, DestroyPC, TunStop, WebStop
  <2>9. QED BY <2>5, <2>6, <2>7, <2>8 DEF IInv, Core
<1>9. QED BY <1>4, <1>5, <1>6, <1>7, <1>8

\* Only another connection's worker can be inside the object of a session.
LEMMA SessionIsForeign ==
  ASSUME IInv, running, NEW a \in Actors, pc[a] \in DestroyPC,
         NEW i \in Conns \ hit, pc[i] \in SessionPC, At(a) = chunk[i]
  PROVE  a \in Conns /\ a # i /\ Struck(a) = {i}
<1>1. Alive(i) /\ obj[chunk[i]].done # TRUE
  BY DEF IInv, Sessions
<1>2. a # Loop
  BY DEF IInv, Phases, AcceptPC, DestroyPC, TunStop, WebStop
<1>3. a # Cleanup
  BY <1>1 DEF IInv, Sessions, This
<1>4. a \in Conns
  BY <1>2, <1>3 DEF Actors
<1>5. a # i
  BY DEF SessionPC, DestroyPC, TunStop, WebStop
<1>6. QED BY <1>1, <1>4, <1>5, ActorsDistinct DEF Struck, This, Alive

\* The process dies: nothing else changes.
LEMMA DyingSteps ==
  ASSUME IInv, Dies
  PROVE  IInv'
<1>1. TypeOK'
  BY DEF IInv, TypeOK, Dies, Die
<1>2. Core'
  BY DEF IInv, Dies, Die, Core, Allocation, Phases, LinkedAlive, Traversal, Successor, Sessions,
         Alive, Born, Swept, Kind, This, At
<1>3. QED BY <1>1, <1>2 DEF IInv, Core

LEMMA StopSteps ==
  ASSUME IInv, NEW a \in Actors, StopStep(a)
  PROVE  IInv'
<1>1. CASE Dies
  BY <1>1, DyingSteps
<1>2. CASE StopEffect(a)
  <2>1. pc[a] \in StopPC /\ StopPC \subseteq DestroyPC
    BY StopLocation DEF StopPC, DestroyPC
  <2>2. /\ SameLoop /\ SameList /\ UNCHANGED fault
        /\ PcOK(pc') /\ pc'[a] \in StopPC \cup StopExit(a)
        /\ \A b \in Actors \ {a} :
             pc'[b] = pc[b] \/ (b = Cleanup /\ pc[b] = "wait" /\ pc'[b] = "head")
    BY <1>2 DEF StopEffect, Moves
  <2>3. At(a) \in Slots /\ This(a) \in Object
    BY <2>1, AtSlot DEF StopPC, DestroyPC, TunStop, WebStop
  <2>4. /\ hit \subseteq hit'
        /\ \/ closed' = closed
           \/ closed' = closed \cup ({This(a).fd} \ {None}) /\ Struck(a) \subseteq hit'
        /\ \/ \A s \in Slots : obj'[s].done = obj[s].done
           \/ Struck(a) \subseteq hit'
    BY <1>2 DEF StopEffect
  <2>5. \A s \in Slots :
          /\ obj'[s].own = obj[s].own /\ obj'[s].latest = obj[s].latest
          /\ obj'[s].fd \in {obj[s].fd, None}
          /\ obj'[s].done = TRUE \/ obj'[s].done = obj[s].done
          /\ s = At(a) \/ obj'[s].done = obj[s].done
    BY <1>2 DEF StopEffect
  <2>6. \A i \in Conns : chunk[i] \in Slots => Alive(i)' = Alive(i)
    BY <2>2, <2>5 DEF Alive, SameLoop
  <2>7. TypeOK'
    <3>1. closed' \subseteq Conns
      BY <2>3, <2>4 DEF IInv, TypeOK, Object
    <3>2. QED BY <1>2, <2>2, <3>1 DEF StopEffect, IInv, TypeOK, SameLoop, SameList
  <2>8. a \in Conns => pc[a] # "unborn"
    BY <2>1 DEF StopPC, TunStop, WebStop
  <2>9. linked \subseteq Conns /\ linked \subseteq Born /\ \A i \in linked : chunk[i] \in Slots
    BY DEF IInv, TypeOK, Allocation, Born
  <2>10. pc'[Loop] \in AcceptPC => pc'[Loop] = pc[Loop]
    BY <2>2, ActorsDistinct DEF AcceptPC, StopPC, StopExit, TunStop, WebStop
  <2>11. Allocation'
    <3>1. \A i \in Conns \ Born : pc'[i] = "unborn"
      BY <2>2, <2>8, ActorsDistinct DEF IInv, Allocation
    <3>2. closed' \subseteq Born
      <4>1. This(a).fd # None => This(a).fd \in Born
        BY <2>3 DEF IInv, Allocation, This, Object
      <4>2. QED BY <2>4, <4>1 DEF IInv, Allocation
    <3>3. \A s \in Slots : /\ obj'[s].own # None => chunk[obj'[s].own] = s
                           /\ obj'[s].fd # None => chunk[obj'[s].fd] = s
                           /\ obj'[s].latest <= clock
      BY <2>5 DEF IInv, Allocation
    <3>4. ASSUME pc'[Loop] \in AcceptPC
          PROVE  born \in Conns /\ born \notin linked /\ Alive(born)'
      <4>1. born \in Conns /\ born \notin linked /\ Alive(born) /\ born \in Nat
        BY <2>10, <3>4, ActorsDistinct DEF IInv, Allocation
      <4>2. chunk[born] \in Slots
        BY <4>1 DEF IInv, Allocation, Born
      <4>3. QED BY <2>2, <2>5, <4>1, <4>2 DEF Alive, SameLoop
    <3>5. QED BY <2>2, <3>1, <3>2, <3>3, <3>4 DEF IInv, Allocation, Born, SameLoop, SameList
  <2>12. Phases'
    BY <2>1, <2>2, ActorsDistinct DEF IInv, Phases, SameLoop, SameList, AcceptPC, ShutdownPC, StopPC,
                                      StopExit, DestroyPC, TunStop, WebStop
  <2>13. LinkedAlive'
    <3>1. ASSUME NEW i \in linked, Swept(i) PROVE Swept(i)'
      BY <2>1, <2>2, <3>1, ActorsDistinct DEF Swept, SameLoop, SameList, ShutdownPC, Kind, StopPC,
                                      StopExit, DestroyPC, TunStop, WebStop
    <3>2. pc[Cleanup] = "unlink" => pc'[Cleanup] = "unlink"
      BY <2>1, <2>2, ActorsDistinct DEF StopPC, TunStop, WebStop
    <3>3. QED BY <2>2, <2>6, <2>9, <3>1, <3>2 DEF IInv, LinkedAlive, SameList
  <2>14. Traversal'
    <3>1. ASSUME NEW b \in {Loop, Cleanup}
          PROVE  \/ pc'[b] = pc[b]
                 \/ pc[b] \in DestroyPC /\ pc'[b] \in DestroyPC
                 \/ pc[b] = "wait" /\ pc'[b] = "head"
      BY <2>1, <2>2, ActorsDistinct DEF StopPC, StopExit, DestroyPC
    <3>2. QED
      BY <2>2, <2>6, <2>9, <3>1
         DEF IInv, Traversal, SameList, SameLoop, Kind, DestroyPC, TunStop, WebStop
  <2>15. pc'[Cleanup] \in {"unlink"} \cup DestroyPC => pc[Cleanup] \in {"unlink"} \cup DestroyPC
    BY <2>1, <2>2, ActorsDistinct DEF StopPC, DestroyPC, TunStop, WebStop
  <2>16. Successor'
    BY <2>2, <2>15 DEF IInv, Successor, SameList, SameLoop, Kind
  <2>17. Sessions'
    <3>1. ASSUME running, NEW i \in Conns \ hit', pc'[i] \in SessionPC
          PROVE  Alive(i)' /\ obj'[chunk[i]].done # TRUE /\ i \notin closed'
      <4>1. i # a /\ pc[i] \in SessionPC /\ i \in Conns \ hit
        BY <2>2, <2>4, <3>1, ActorsDistinct DEF SessionPC, StopPC, StopExit, TunStop, WebStop
      <4>2. Alive(i) /\ obj[chunk[i]].done # TRUE /\ i \notin closed /\ chunk[i] \in Slots
        BY <3>1, <4>1 DEF IInv, Sessions, Allocation, SessionPC
      <4>3. At(a) = chunk[i] => ~(Struck(a) \subseteq hit')
        BY <2>1, <3>1, <4>1, SessionIsForeign
      <4>4. obj'[chunk[i]].done # TRUE
        BY <2>4, <2>5, <4>2, <4>3
      <4>5. This(a).fd = i => At(a) = chunk[i]
        BY <2>3, ActorsDistinct DEF IInv, Allocation, This
      <4>6. QED BY <2>4, <2>6, <4>2, <4>3, <4>4, <4>5
    <3>2. ASSUME running, pc'[Cleanup] \in DestroyPC PROVE This(Cleanup)'.done = TRUE
      <4>1. pc[Cleanup] \in DestroyPC
        BY <2>1, <2>2, <3>2, ActorsDistinct DEF StopPC, DestroyPC, TunStop, WebStop
      <4>2. This(Cleanup).done /\ At(Cleanup) \in Slots /\ This(Cleanup) \in Object
        BY <3>2, <4>1, AtSlot, ActorsDistinct DEF IInv, Sessions
      <4>3. At(Cleanup)' = At(Cleanup)
        BY <2>2, ActorsDistinct DEF At, SameLoop, SameList
      <4>4. QED BY <2>5, <4>2, <4>3 DEF This, Object
    <3>3. QED BY <2>2, <3>1, <3>2 DEF Sessions, SameLoop
  <2>18. QED BY <2>7, <2>11, <2>12, <2>13, <2>14, <2>16, <2>17 DEF IInv, Core
<1>3. QED BY <1>1, <1>2, StopIsBounded

\* The end of a destructor, by the cleanup thread or the shutdown loop.
LEMMA DestructorSteps ==
  ASSUME IInv, NEW a \in {Loop, Cleanup}, Close(a) \/ Free(a)
  PROVE  IInv'
<1>1. a \in Actors /\ a \notin Conns /\ PcOK(pc) /\ obj \in [Slots -> Object]
      /\ pc \in [Actors -> WorkerPC \cup CleanupPC \cup LoopPC]
  BY ActorsDistinct DEF IInv, TypeOK, PcOK
<1>2. pc[a] \in {"close", "free"}
  BY DEF Close, Free
<1>3. At(a) \in Slots /\ This(a) \in Object
  BY <1>1, <1>2, AtSlot DEF DestroyPC
<1>4. /\ walk[a].cur \in linked /\ walk[a].cur \in Conns /\ walk[a].cur \in Born
      /\ This(a).own = walk[a].cur /\ Kind(walk[a].cur) = walk[a].list
      /\ At(a) = chunk[walk[a].cur]
  BY <1>1, <1>2 DEF IInv, TypeOK, Allocation, Traversal, DestroyPC, Alive, This, At
<1>5. /\ a = Loop => pc[Cleanup] = "ended" /\ ~running
      /\ a = Cleanup => pc[Loop] \notin ShutdownPC \cup {"clear", "exit"}
  BY <1>2 DEF IInv, Phases, ShutdownPC, AcceptPC, DestroyPC
<1>6. linked \subseteq Conns /\ linked \subseteq Born /\ \A i \in linked : chunk[i] \in Slots
  BY DEF IInv, TypeOK, Allocation, Born
<1>7. \A i \in Conns \ hit : running /\ pc[i] \in SessionPC => At(a) # chunk[i]
  BY <1>1, <1>2, SessionIsForeign DEF DestroyPC
<1>8. CASE Close(a)
  <2>1. /\ pc[a] = "close" /\ SameLoop /\ SameList /\ UNCHANGED <<again, hit, fault>>
        /\ closed' = closed \cup ({This(a).fd} \ {None})
    BY <1>8 DEF Close
  <2>2. /\ pc'[a] \in {"free", "w_test"} /\ PcOK(pc')
        /\ \A b \in Actors \ {a} : pc'[b] = pc[b]
    <3>1. PICK l \in {"free", "w_test"} : pc' = [pc EXCEPT ![a] = l]
      BY <1>8 DEF Close, Goto
    <3>2. l \in PCOf(a)
      BY <1>1, StopLabels DEF StopPC, WebStop
    <3>3. QED BY <1>1, <3>1, <3>2, PcMove
  <2>3. Quiet(obj')
    <3>1. PICK x \in {"null", "open", "freed"} : obj' = [obj EXCEPT ![At(a)].ssl = x]
      <4>1. obj' = [obj EXCEPT ![At(a)].ssl = IF This(a).srv THEN "null" ELSE This(a).ssl]
        BY <1>1, <1>3, <1>8 DEF Close, This
      <4>2. QED BY <1>3, <4>1 DEF Object
    <3>2. QED BY <1>1, <1>3, <3>1, QuietUpdate
  <2>4. \A s \in Slots : /\ obj'[s].own = obj[s].own /\ obj'[s].latest = obj[s].latest
                         /\ obj'[s].fd = obj[s].fd /\ obj'[s].done = obj[s].done
    BY <2>3 DEF Quiet
  <2>5. \A i \in Conns : chunk[i] \in Slots => Alive(i)' = Alive(i)
    BY <2>1, <2>4 DEF Alive, SameLoop
  <2>6. TypeOK'
    <3>1. closed' \subseteq Conns
      BY <1>3, <2>1 DEF IInv, TypeOK, Object
    <3>2. QED BY <2>1, <2>2, <2>3, <3>1 DEF IInv, TypeOK, SameLoop, SameList, Quiet
  <2>7. Allocation'
    <3>1. \A i \in Conns \ Born : pc'[i] = "unborn"
      BY <1>1, <2>2, ActorsDistinct DEF IInv, Allocation
    <3>2. closed' \subseteq Born
      BY <1>3, <2>1 DEF IInv, Allocation, This, Object, Born
    <3>3. \A s \in Slots : /\ obj'[s].own # None => chunk[obj'[s].own] = s
                           /\ obj'[s].fd # None => chunk[obj'[s].fd] = s
                           /\ obj'[s].latest <= clock
      BY <2>4 DEF IInv, Allocation
    <3>4. ASSUME pc'[Loop] \in AcceptPC
          PROVE  born \in Conns /\ born \notin linked /\ Alive(born)'
      <4>1. pc[Loop] \in AcceptPC
        BY <2>2, <3>4, ActorsDistinct DEF AcceptPC
      <4>2. born \in Conns /\ born \notin linked /\ Alive(born) /\ born \in Nat
        BY <4>1, ActorsDistinct DEF IInv, Allocation
      <4>3. chunk[born] \in Slots
        BY <4>2 DEF IInv, Allocation, Born
      <4>4. QED BY <2>1, <2>4, <4>2, <4>3 DEF Alive, SameLoop
    <3>5. QED BY <2>1, <3>1, <3>2, <3>3, <3>4 DEF IInv, Allocation, Born, SameLoop, SameList
  <2>8. Phases'
    BY <1>2, <1>5, <2>1, <2>2, ActorsDistinct
       DEF IInv, Phases, SameLoop, AcceptPC, ShutdownPC, DestroyPC, TunStop, WebStop
  <2>9. LinkedAlive'
    <3>1. ASSUME NEW i \in linked, Swept(i) PROVE Swept(i)'
      BY <1>2, <2>1, <2>2, <3>1, ActorsDistinct
         DEF Swept, SameLoop, SameList, ShutdownPC, Kind, DestroyPC, TunStop, WebStop
    <3>2. pc[Cleanup] = "unlink" => pc'[Cleanup] = "unlink"
      BY <1>2, <2>2, ActorsDistinct
    <3>3. QED BY <1>6, <2>1, <2>5, <3>1, <3>2 DEF IInv, LinkedAlive, SameList
  <2>10. ASSUME NEW b \in {Loop, Cleanup}
         PROVE  pc'[b] = pc[b] \/ (pc[b] \in DestroyPC /\ pc'[b] \in DestroyPC)
    BY <1>2, <2>2, ActorsDistinct DEF DestroyPC, WebStop
  <2>11. Traversal'
    BY <1>6, <2>1, <2>5, <2>10
       DEF IInv, Traversal, SameList, SameLoop, Kind, DestroyPC, TunStop, WebStop
  <2>12. Successor'
    BY <2>1, <2>10 DEF IInv, Successor, SameList, SameLoop, Kind, DestroyPC, TunStop, WebStop
  <2>13. Sessions'
    <3>1. ASSUME running, NEW i \in Conns \ hit, pc'[i] \in SessionPC
          PROVE  Alive(i)' /\ obj'[chunk[i]].done # TRUE /\ i \notin closed'
      <4>1. pc[i] \in SessionPC
        BY <1>1, <2>2, <3>1, ActorsDistinct
      <4>2. Alive(i) /\ obj[chunk[i]].done # TRUE /\ i \notin closed /\ chunk[i] \in Slots
        BY <3>1, <4>1 DEF IInv, Sessions, Allocation, SessionPC
      <4>3. This(a).fd # i
        BY <1>3, <1>7, <3>1, <4>1, ActorsDistinct DEF IInv, Allocation, This
      <4>4. QED BY <2>1, <2>4, <2>5, <4>2, <4>3
    <3>2. ASSUME running, pc'[Cleanup] \in DestroyPC PROVE This(Cleanup)'.done = TRUE
      <4>1. pc[Cleanup] \in DestroyPC
        BY <2>10, <3>2
      <4>2. This(Cleanup).done /\ At(Cleanup) \in Slots
        BY <3>2, <4>1, AtSlot, ActorsDistinct DEF IInv, Sessions
      <4>3. At(Cleanup)' = At(Cleanup)
        BY <2>1, ActorsDistinct DEF At, SameLoop, SameList
      <4>4. QED BY <2>4, <4>2, <4>3 DEF This
    <3>3. QED BY <2>1, <3>1, <3>2 DEF Sessions, SameLoop
  <2>14. QED BY <2>6, <2>7, <2>8, <2>9, <2>11, <2>12, <2>13 DEF IInv, Core
<1>9. CASE Free(a)
  <2>1. /\ pc[a] = "free" /\ SameLoop /\ SameList /\ UNCHANGED <<again, closed, hit, fault>>
        /\ obj' = [obj EXCEPT ![At(a)].own = None]
    BY <1>9 DEF Free
  <2>2. /\ pc'[a] = IF a = Cleanup THEN "unlink" ELSE "next"
        /\ PcOK(pc') /\ \A b \in Actors \ {a} : pc'[b] = pc[b]
    <3>1. PICK l \in {"unlink", "next"} :
             pc' = [pc EXCEPT ![a] = l] /\ l = IF a = Cleanup THEN "unlink" ELSE "next"
      BY <1>9 DEF Free, Goto
    <3>2. l \in PCOf(a)
      BY <3>1, ActorsDistinct DEF PCOf, CleanupPC, LoopPC
    <3>3. QED BY <1>1, <3>1, <3>2, PcMove
  <2>3. obj' \in [Slots -> Object]
    BY <1>1, <1>3, <2>1 DEF Object
  <2>4. \A s \in Slots : /\ obj'[s].own = IF s = At(a) THEN None ELSE obj[s].own
                         /\ obj'[s].latest = obj[s].latest
                         /\ obj'[s].fd = obj[s].fd /\ obj'[s].done = obj[s].done
    BY <1>1, <1>3, <2>1 DEF Object
  <2>5. \A i \in Conns : chunk[i] \in Slots /\ i # walk[a].cur => Alive(i)' = Alive(i)
    BY <1>3, <1>4, <2>1, <2>4, ActorsDistinct DEF Alive, SameLoop, This
  <2>6. TypeOK'
    BY <2>1, <2>2, <2>3 DEF IInv, TypeOK, SameLoop, SameList
  <2>7. Allocation'
    <3>1. \A i \in Conns \ Born : pc'[i] = "unborn"
      BY <1>1, <2>2, ActorsDistinct DEF IInv, Allocation
    <3>2. \A s \in Slots : /\ obj'[s].own # None => chunk[obj'[s].own] = s
                           /\ obj'[s].fd # None => chunk[obj'[s].fd] = s
                           /\ obj'[s].latest <= clock
      BY <2>4 DEF IInv, Allocation
    <3>3. ASSUME pc'[Loop] \in AcceptPC
          PROVE  born \in Conns /\ born \notin linked /\ Alive(born)'
      <4>1. pc[Loop] \in AcceptPC
        BY <2>2, <3>3, ActorsDistinct DEF AcceptPC
      <4>2. born \in Conns /\ born \notin linked /\ Alive(born) /\ born \in Nat
        BY <4>1, ActorsDistinct DEF IInv, Allocation
      <4>3. chunk[born] \in Slots
        BY <4>2 DEF IInv, Allocation, Born
      <4>4. chunk[born] # At(a)
        BY <1>4, <4>2 DEF Alive, This
      <4>5. QED BY <2>1, <2>4, <4>2, <4>3, <4>4 DEF Alive, SameLoop
    <3>4. QED BY <2>1, <3>1, <3>2, <3>3 DEF IInv, Allocation, Born, SameLoop, SameList
  <2>8. Phases'
    BY <1>2, <1>5, <2>1, <2>2, ActorsDistinct
       DEF IInv, Phases, SameLoop, AcceptPC, ShutdownPC, DestroyPC, TunStop, WebStop
  <2>9. LinkedAlive'
    <3>1. ASSUME NEW i \in linked, Swept(i) PROVE Swept(i)'
      BY <1>2, <2>1, <2>2, <3>1, ActorsDistinct
         DEF Swept, SameLoop, SameList, ShutdownPC, Kind, DestroyPC
    <3>2. pc[Cleanup] # "unlink"
      BY <1>2, <1>5, ActorsDistinct
    <3>3. a = Cleanup => pc'[Cleanup] = "unlink"
      BY <2>2
    <3>4. a = Loop => Swept(walk[a].cur)'
      BY <2>1, <2>2, ActorsDistinct DEF Swept, SameList, ShutdownPC
    <3>5. ASSUME NEW i \in linked
          PROVE  (Alive(i) \/ (pc[Cleanup] = "unlink" /\ walk[Cleanup].cur = i) \/ Swept(i))'
      <4>1. CASE i = walk[a].cur
        BY <2>1, <3>3, <3>4, <4>1 DEF SameList
      <4>2. CASE i # walk[a].cur
        BY <1>6, <2>5, <3>1, <3>2, <4>2 DEF IInv, LinkedAlive
      <4>3. QED BY <4>1, <4>2
    <3>6. QED BY <2>1, <3>5 DEF LinkedAlive, SameList
  <2>10. Traversal'
    <3>1. PICK b \in {Loop, Cleanup} : b # a /\ {Loop, Cleanup} = {a, b}
      BY ActorsDistinct
    <3>2. pc[b] \notin {"visit", "unlink", "next"} \cup DestroyPC
      BY <1>1, <1>5, <3>1, ActorsDistinct
         DEF PcOK, PCOf, LoopPC, ShutdownPC, DestroyPC, TunStop, WebStop
    <3>3. pc'[b] = pc[b] /\ pc'[a] \in {"unlink", "next"} /\ walk' = walk /\ linked' = linked
      BY <2>1, <2>2, <3>1, ActorsDistinct DEF SameList
    <3>4. QED BY <1>4, <2>1, <3>1, <3>2, <3>3
              DEF IInv, Traversal, SameLoop, Kind, DestroyPC, TunStop, WebStop
  <2>11. Successor'
    BY <1>2, <1>5, <2>1, <2>2, ActorsDistinct DEF IInv, Successor, SameList, SameLoop, Kind, DestroyPC, TunStop, WebStop
  <2>12. Sessions'
    <3>1. ASSUME running, NEW i \in Conns \ hit, pc'[i] \in SessionPC
          PROVE  Alive(i)' /\ obj'[chunk[i]].done # TRUE /\ i \notin closed'
      <4>1. pc[i] \in SessionPC
        BY <1>1, <2>2, <3>1, ActorsDistinct
      <4>2. Alive(i) /\ obj[chunk[i]].done # TRUE /\ i \notin closed /\ chunk[i] \in Slots
        BY <3>1, <4>1 DEF IInv, Sessions, Allocation, SessionPC
      <4>3. i # walk[a].cur
        BY <1>4, <1>7, <3>1, <4>1
      <4>4. QED BY <2>1, <2>4, <2>5, <4>2, <4>3
    <3>2. pc'[Cleanup] \notin DestroyPC \/ ~running
      BY <1>2, <1>5, <2>2, ActorsDistinct DEF DestroyPC, TunStop, WebStop
    <3>3. QED BY <2>1, <3>1, <3>2 DEF Sessions, SameLoop
  <2>13. QED BY <2>6, <2>7, <2>8, <2>9, <2>10, <2>11, <2>12 DEF IInv, Core
<1>10. QED BY <1>8, <1>9

\* What a worker does to the state outside stop(): it writes its own descriptor and
\* time stamps into its chunk, and owners, _done, lists and descriptors stay.
WorkerEffect(i) ==
  /\ SameLoop /\ SameList /\ UNCHANGED <<closed, hit, fault>>
  /\ again' \subseteq Conns
  /\ obj' \in [Slots -> Object]
  /\ \A s \in Slots : /\ obj'[s].own = obj[s].own /\ obj'[s].done = obj[s].done
                      /\ obj'[s].fd = obj[s].fd \/ (obj'[s].fd = i /\ s = chunk[i])
                      /\ obj'[s].latest = obj[s].latest \/ obj'[s].latest = clock
  /\ pc[i] \in SessionPC /\ PcOK(pc') /\ pc'[i] \in SessionPC \cup StopPC
  /\ \A b \in Actors \ {i} : pc'[b] = pc[b]

LEMMA WorkerIsBounded ==
  ASSUME IInv, NEW i \in Conns, Worker(i)
  PROVE  WorkerEffect(i) \/ Dies
<1>1. /\ PcOK(pc) /\ obj \in [Slots -> Object] /\ i \in Actors /\ again \subseteq Conns
      /\ pc \in [Actors -> WorkerPC \cup CleanupPC \cup LoopPC]
      /\ clock \in 0..MaxClock /\ i \in Conns \cup {None}
  BY ActorsDistinct, ClockAssumption DEF IInv, TypeOK, PcOK
<1>2. pc[i] # "unborn" => chunk[i] \in Slots
  BY DEF IInv, Allocation
<1>3. SessionPC \cup StopPC \subseteq PCOf(i)
  BY ActorsDistinct DEF PCOf, WorkerPC, SessionPC, StopPC
<1>4. ASSUME NEW l \in SessionPC \cup StopPC, pc' = [pc EXCEPT ![i] = l]
      PROVE  PcOK(pc') /\ pc'[i] \in SessionPC \cup StopPC /\ \A b \in Actors \ {i} : pc'[b] = pc[b]
  BY <1>1, <1>3, <1>4, PcMove
<1>5. CASE WorkerInit(i)
  <2>1. chunk[i] \in Slots /\ pc[i] \in SessionPC
    BY <1>2, <1>5 DEF WorkerInit, SessionPC
  <2>2. PICK l \in {"serve", "handshake"} : pc' = [pc EXCEPT ![i] = l]
    BY <1>5 DEF WorkerInit, Goto
  <2>3. /\ obj' \in [Slots -> Object]
        /\ \A s \in Slots : /\ obj'[s].own = obj[s].own /\ obj'[s].done = obj[s].done
                            /\ obj'[s].fd = obj[s].fd \/ (obj'[s].fd = i /\ s = chunk[i])
                            /\ obj'[s].latest = obj[s].latest
    <3>1. CASE obj' = [obj EXCEPT ![chunk[i]].wrun = TRUE, ![chunk[i]].srv = TRUE, ![chunk[i]].fd = i]
      <4> DEFINE r == [obj[chunk[i]] EXCEPT !.wrun = TRUE, !.srv = TRUE, !.fd = i]
      <4>1. obj[chunk[i]] \in Object
        BY <1>1, <2>1
      <4>2. /\ r \in Object /\ r.own = obj[chunk[i]].own /\ r.done = obj[chunk[i]].done
            /\ r.fd = i /\ r.latest = obj[chunk[i]].latest
        BY <1>1, <4>1 DEF Object
      <4>3. obj' = [obj EXCEPT ![chunk[i]] = r]
        BY <1>1, <2>1, <3>1
      <4> HIDE DEF r
      <4>4. QED BY <1>1, <2>1, <4>2, <4>3
    <3>2. CASE obj' = [obj EXCEPT ![chunk[i]].srun = TRUE, ![chunk[i]].srv = TRUE, ![chunk[i]].fd = i]
      <4> DEFINE r == [obj[chunk[i]] EXCEPT !.srun = TRUE, !.srv = TRUE, !.fd = i]
      <4>1. obj[chunk[i]] \in Object
        BY <1>1, <2>1
      <4>2. /\ r \in Object /\ r.own = obj[chunk[i]].own /\ r.done = obj[chunk[i]].done
            /\ r.fd = i /\ r.latest = obj[chunk[i]].latest
        BY <1>1, <4>1 DEF Object
      <4>3. obj' = [obj EXCEPT ![chunk[i]] = r]
        BY <1>1, <2>1, <3>2
      <4> HIDE DEF r
      <4>4. QED BY <1>1, <2>1, <4>2, <4>3
    <3>3. QED BY <1>5, <3>1, <3>2 DEF WorkerInit
  <2>4. QED BY <1>1, <1>4, <1>5, <2>1, <2>2, <2>3 DEF WorkerInit, WorkerEffect, SessionPC
<1>6. CASE HandshakeTunnel(i)
  <2>1. chunk[i] \in Slots /\ pc[i] \in SessionPC
    BY <1>2, <1>6 DEF HandshakeTunnel, SessionPC
  <2>2. Quiet(obj')
    BY <1>1, <1>6, <2>1, QuietUpdate DEF HandshakeTunnel
  <2>3. pc' = [pc EXCEPT ![i] = "serve"]
    BY <1>6 DEF HandshakeTunnel, Goto
  <2>4. QED BY <1>1, <1>4, <1>6, <2>1, <2>2, <2>3 DEF HandshakeTunnel, WorkerEffect, SessionPC, Quiet
<1>7. CASE HandshakeWeb(i)
  <2>1. chunk[i] \in Slots /\ pc[i] \in SessionPC
    BY <1>2, <1>7 DEF HandshakeWeb, SessionPC
  <2>2. obj' = [obj EXCEPT ![chunk[i]].wrun = TRUE, ![chunk[i]].web = TRUE,
                           ![chunk[i]].ssl = "open", ![chunk[i]].fd = i]
    BY <1>7 DEF HandshakeWeb
  <2>3. /\ obj' \in [Slots -> Object]
        /\ \A s \in Slots : /\ obj'[s].own = obj[s].own /\ obj'[s].done = obj[s].done
                            /\ obj'[s].fd = obj[s].fd \/ (obj'[s].fd = i /\ s = chunk[i])
                            /\ obj'[s].latest = obj[s].latest
    <3> DEFINE r == [obj[chunk[i]] EXCEPT !.wrun = TRUE, !.web = TRUE, !.ssl = "open", !.fd = i]
    <3>1. obj[chunk[i]] \in Object
      BY <1>1, <2>1
    <3>2. /\ r \in Object /\ r.own = obj[chunk[i]].own /\ r.done = obj[chunk[i]].done
          /\ r.fd = i /\ r.latest = obj[chunk[i]].latest
      BY <1>1, <3>1 DEF Object
    <3>3. obj' = [obj EXCEPT ![chunk[i]] = r]
      BY <1>1, <2>1, <2>2
    <3> HIDE DEF r
    <3>4. QED BY <1>1, <2>1, <3>2, <3>3
  <2>4. pc' = [pc EXCEPT ![i] = "serve"]
    BY <1>7 DEF HandshakeWeb, Goto
  <2>5. QED BY <1>1, <1>4, <1>7, <2>1, <2>3, <2>4 DEF HandshakeWeb, WorkerEffect, SessionPC
<1>8. CASE HandshakeFail(i)
  <2>1. pc' = [pc EXCEPT ![i] = "t_test"] /\ pc[i] \in SessionPC /\ "t_test" \in StopPC
    BY <1>8 DEF HandshakeFail, Goto, SessionPC, StopPC, TunStop
  <2>2. QED BY <1>1, <1>4, <1>8, <2>1 DEF HandshakeFail, WorkerEffect
<1>9. CASE Serve(i)
  <2>1. chunk[i] \in Slots /\ pc[i] \in SessionPC
    BY <1>2, <1>9 DEF Serve, SessionPC
  <2>2. obj' = [obj EXCEPT ![chunk[i]].latest = clock]
    BY <1>9 DEF Serve
  <2>3. /\ obj' \in [Slots -> Object]
        /\ \A s \in Slots : /\ obj'[s].own = obj[s].own /\ obj'[s].done = obj[s].done
                            /\ obj'[s].fd = obj[s].fd
                            /\ obj'[s].latest = obj[s].latest \/ obj'[s].latest = clock
    BY <1>1, <2>1, <2>2 DEF Object
  <2>4. QED BY <1>1, <1>9, <2>1, <2>3 DEF Serve, WorkerEffect, SessionPC
<1>10. CASE ServeEnd(i)
  <2>1. PICK l \in {"w_test", "t_test"} : pc' = [pc EXCEPT ![i] = l]
    BY <1>10 DEF ServeEnd, Goto
  <2>2. pc[i] \in SessionPC /\ l \in StopPC
    BY <1>10 DEF ServeEnd, SessionPC, StopPC, TunStop, WebStop
  <2>3. QED BY <1>1, <1>4, <1>10, <2>1, <2>2 DEF ServeEnd, WorkerEffect
<1>11. CASE UseAfterFree(i)
  BY <1>11 DEF UseAfterFree, Dies
<1>12. QED BY <1>5, <1>6, <1>7, <1>8, <1>9, <1>10, <1>11 DEF Worker

LEMMA WorkerSteps ==
  ASSUME IInv, NEW i \in Conns, Worker(i)
  PROVE  IInv'
<1>1. CASE Dies
  BY <1>1, DyingSteps
<1>2. CASE WorkerEffect(i)
  <2>1. /\ SameLoop /\ SameList /\ UNCHANGED <<closed, hit, fault>>
        /\ pc[i] \in SessionPC /\ PcOK(pc') /\ pc'[i] \in SessionPC \cup StopPC
        /\ \A b \in Actors \ {i} : pc'[b] = pc[b]
    BY <1>2 DEF WorkerEffect
  <2>2. \A s \in Slots :
          /\ obj'[s].own = obj[s].own /\ obj'[s].done = obj[s].done
          /\ obj'[s].fd = obj[s].fd \/ (obj'[s].fd = i /\ s = chunk[i])
          /\ obj'[s].latest = obj[s].latest \/ obj'[s].latest = clock
    BY <1>2 DEF WorkerEffect
  <2>3. pc'[Loop] = pc[Loop] /\ pc'[Cleanup] = pc[Cleanup]
    BY <2>1, ActorsDistinct
  <2>4. \A j \in Conns : chunk[j] \in Slots => Alive(j)' = Alive(j)
    BY <2>1, <2>2 DEF Alive, SameLoop
  <2>5. linked \subseteq Conns /\ linked \subseteq Born /\ \A j \in linked : chunk[j] \in Slots
    BY DEF IInv, TypeOK, Allocation, Born
  <2>6. TypeOK'
    BY <1>2 DEF WorkerEffect, IInv, TypeOK, SameLoop, SameList
  <2>7. Allocation'
    <3>1. \A j \in Conns \ Born : pc'[j] = "unborn"
      BY <2>1, ActorsDistinct DEF IInv, Allocation, SessionPC
    <3>2. clock \in Nat
      BY ClockAssumption DEF IInv, TypeOK
    <3>3. \A s \in Slots : /\ obj'[s].own # None => chunk[obj'[s].own] = s
                           /\ obj'[s].fd # None => chunk[obj'[s].fd] = s
                           /\ obj'[s].latest <= clock
      BY <2>2, <3>2 DEF IInv, Allocation
    <3>4. ASSUME pc'[Loop] \in AcceptPC
          PROVE  born \in Conns /\ born \notin linked /\ Alive(born)'
      <4>1. born \in Conns /\ born \notin linked /\ Alive(born) /\ born \in Nat
        BY <2>3, <3>4, ActorsDistinct DEF IInv, Allocation
      <4>2. chunk[born] \in Slots
        BY <4>1 DEF IInv, Allocation, Born
      <4>3. QED BY <2>1, <2>2, <4>1, <4>2 DEF Alive, SameLoop
    <3>5. QED BY <2>1, <3>1, <3>3, <3>4 DEF IInv, Allocation, Born, SameLoop, SameList
  <2>8. Phases'
    BY <2>1, <2>3 DEF IInv, Phases, SameLoop
  <2>9. LinkedAlive'
    BY <2>1, <2>3, <2>4, <2>5 DEF IInv, LinkedAlive, Swept, Kind, SameLoop, SameList
  <2>10. Traversal'
    BY <2>1, <2>3, <2>4, <2>5 DEF IInv, Traversal, Kind, SameLoop, SameList, DestroyPC
  <2>11. Successor'
    BY <2>1, <2>3 DEF IInv, Successor, Kind, SameLoop, SameList
  <2>12. Sessions'
    <3>1. ASSUME running, NEW j \in Conns \ hit, pc'[j] \in SessionPC
          PROVE  Alive(j)' /\ obj'[chunk[j]].done # TRUE /\ j \notin closed
      <4>1. pc[j] \in SessionPC
        BY <2>1, <3>1, ActorsDistinct
      <4>2. Alive(j) /\ obj[chunk[j]].done # TRUE /\ j \notin closed /\ chunk[j] \in Slots
        BY <3>1, <4>1 DEF IInv, Sessions, Allocation, SessionPC
      <4>3. QED BY <2>2, <2>4, <4>2
    <3>2. ASSUME running, pc'[Cleanup] \in DestroyPC PROVE This(Cleanup)'.done = TRUE
      <4>1. This(Cleanup).done /\ At(Cleanup) \in Slots
        BY <2>3, <3>2, AtSlot, ActorsDistinct DEF IInv, Sessions
      <4>2. At(Cleanup)' = At(Cleanup)
        BY <2>1, ActorsDistinct DEF At, SameLoop, SameList
      <4>3. QED BY <2>2, <4>1, <4>2 DEF This
    <3>3. QED BY <2>1, <3>1, <3>2 DEF Sessions, SameLoop
  <2>13. QED BY <2>6, <2>7, <2>8, <2>9, <2>10, <2>11, <2>12 DEF IInv, Core
<1>3. QED BY <1>1, <1>2, WorkerIsBounded

LEMMA AcceptSteps ==
  ASSUME IInv, NEW s \in Slots, Accept(s)
  PROVE  IInv'
<1> DEFINE n == born + 1
<1>1. /\ n \in Conns /\ n \notin Born /\ born \in Nat /\ Born' = Born \cup {n}
      /\ pc[n] = "unborn" /\ n # Loop /\ n # Cleanup /\ n \in Actors
  <2>1. born \in Nat /\ born < MaxConns /\ born' = born + 1
    BY DEF IInv, TypeOK, Accept
  <2>2. n \in Conns /\ n \notin Born /\ Born' = Born \cup {n}
    BY <2>1, MaxConnsAssumption DEF Conns, Born
  <2>3. QED BY <2>1, <2>2, ActorsDistinct DEF IInv, Allocation
<1>2. /\ pc[Loop] = "idle" /\ obj[s].own = None /\ born' = n
      /\ chunk' = [chunk EXCEPT ![n] = s] /\ obj' = [obj EXCEPT ![s] = Fresh(n)]
      /\ pc' = [pc EXCEPT ![Loop] = "assign", ![n] = "start"]
      /\ UNCHANGED <<running, linked, tailbad, lost, again, walk, clock, closed, hit, fault>>
  BY DEF Accept
<1> HIDE DEF n
<1>3. /\ PcOK(pc) /\ obj \in [Slots -> Object] /\ chunk \in [Conns -> Slots \cup {NoSlot}]
      /\ pc \in [Actors -> WorkerPC \cup CleanupPC \cup LoopPC]
      /\ linked \subseteq Conns /\ clock \in Nat
      /\ linked \subseteq Born /\ closed \subseteq Born
  BY ClockAssumption DEF IInv, TypeOK, PcOK, Allocation
<1>4. /\ pc'[Loop] = "assign" /\ pc'[n] = "start"
      /\ \A b \in Actors \ {Loop, n} : pc'[b] = pc[b]
  BY <1>1, <1>2, <1>3, ActorsDistinct
<1>5. PcOK(pc')
  <2>1. PcOK([pc EXCEPT ![Loop] = "assign"])
    BY <1>3, ActorsDistinct, PcMove DEF PCOf, LoopPC
  <2>2. "start" \in PCOf(n) /\ "start" \in WorkerPC
    BY <1>1 DEF PCOf, WorkerPC
  <2> DEFINE f == [pc EXCEPT ![Loop] = "assign"]
  <2>3. pc' = [f EXCEPT ![n] = "start"]
    BY <1>2
  <2> HIDE DEF f
  <2>4. QED BY <1>1, <2>1, <2>2, <2>3 DEF PcOK, f
<1>6. Fresh(n) \in Object /\ Fresh(n).own = n /\ Fresh(n).fd = None /\ Fresh(n).done = FALSE
      /\ Fresh(n).latest = 0
  BY <1>1, ClockAssumption DEF Fresh, Object
<1>7. /\ \A r \in Slots \ {s} : obj'[r] = obj[r]
      /\ obj'[s] = Fresh(n) /\ chunk'[n] = s /\ \A i \in Conns \ {n} : chunk'[i] = chunk[i]
  BY <1>1, <1>2, <1>3
<1>8. \A i \in Conns \ {n} : chunk[i] \in Slots => Alive(i)' = Alive(i)
  BY <1>2, <1>6, <1>7, ActorsDistinct DEF Alive
<1>9. TypeOK'
  <2>1. obj' \in [Slots -> Object]
    BY <1>2, <1>3, <1>6
  <2>2. chunk' \in [Conns -> Slots \cup {NoSlot}]
    BY <1>1, <1>2, <1>3
  <2>3. born' \in 0..MaxConns
    BY <1>1, <1>2, MaxConnsAssumption DEF Conns
  <2>4. QED BY <1>2, <1>5, <2>1, <2>2, <2>3 DEF IInv, TypeOK
<1>10. Allocation'
  <2>1. \A i \in Conns : i \in Born' <=> chunk'[i] \in Slots
    BY <1>1, <1>7 DEF IInv, Allocation
  <2>2. \A i \in Conns \ Born' : pc'[i] = "unborn"
    BY <1>1, <1>4, ActorsDistinct DEF IInv, Allocation
  <2>3. linked' \subseteq Born' /\ closed' \subseteq Born'
    BY <1>1, <1>2, <1>3
  <2>4. ASSUME NEW r \in Slots
        PROVE  /\ obj'[r].own # None => chunk'[obj'[r].own] = r
               /\ obj'[r].fd # None => chunk'[obj'[r].fd] = r
               /\ obj'[r].latest <= clock
    <3>1. CASE r = s
      BY <1>3, <1>6, <1>7, <3>1
    <3>2. CASE r # s
      <4>1. obj'[r] = obj[r] /\ obj[r] \in Object
        BY <1>3, <1>7, <3>2
      <4>2. obj[r].own # None => obj[r].own \in Conns \ {n}
        BY <1>1, <4>1, ActorsDistinct DEF IInv, Allocation, Object
      <4>3. obj[r].fd # None => obj[r].fd \in Conns \ {n}
        BY <1>1, <4>1, ActorsDistinct DEF IInv, Allocation, Object
      <4>4. QED BY <1>7, <4>1, <4>2, <4>3 DEF IInv, Allocation
    <3>3. QED BY <3>1, <3>2
  <2>5. born' \in Conns /\ born' \notin linked' /\ Alive(born)'
    BY <1>1, <1>2, <1>3, <1>6, <1>7 DEF Alive
  <2>6. QED BY <1>2, <2>1, <2>2, <2>3, <2>4, <2>5 DEF Allocation
<1>11. Phases'
  BY <1>1, <1>2, <1>4, ActorsDistinct
     DEF IInv, Phases, AcceptPC, ShutdownPC, DestroyPC, TunStop, WebStop
<1>12. \A i \in linked : i \in Conns \ {n} /\ chunk[i] \in Slots /\ chunk'[i] = chunk[i]
  BY <1>1, <1>3, <1>7 DEF IInv, Allocation
<1>13. pc'[Cleanup] = pc[Cleanup]
  BY <1>1, <1>4, ActorsDistinct
<1>14. LinkedAlive'
  <2>1. \A i \in linked : Alive(i) \/ (pc[Cleanup] = "unlink" /\ walk[Cleanup].cur = i)
    BY <1>2 DEF IInv, LinkedAlive, Swept, ShutdownPC, DestroyPC, TunStop, WebStop
  <2>2. QED BY <1>2, <1>8, <1>12, <1>13, <2>1 DEF LinkedAlive
<1>15. Traversal'
  <2>1. pc[Loop] \notin {"visit", "unlink", "next"} \cup DestroyPC
    BY <1>2 DEF DestroyPC, TunStop, WebStop
  <2>2. pc'[Loop] \notin {"visit", "unlink", "next"} \cup DestroyPC
    BY <1>4 DEF DestroyPC, TunStop, WebStop
  <2>3. walk[Loop].cur = None
    BY <2>1 DEF IInv, Traversal
  <2>4. QED BY <1>2, <1>8, <1>12, <1>13, <2>2, <2>3 DEF IInv, Traversal, Kind, DestroyPC
<1>16. Successor'
  BY <1>2, <1>12, <1>13 DEF IInv, Successor, Kind
<1>17. Sessions'
  <2>1. ASSUME running, NEW i \in Conns \ hit, pc'[i] \in SessionPC
        PROVE  Alive(i)' /\ obj'[chunk'[i]].done # TRUE /\ i \notin closed
    <3>1. CASE i = n
      BY <1>1, <1>3, <1>6, <1>7, <3>1 DEF Alive
    <3>2. CASE i # n
      <4>1. pc[i] \in SessionPC
        BY <1>4, <2>1, <3>2, ActorsDistinct
      <4>2. Alive(i) /\ obj[chunk[i]].done # TRUE /\ i \notin closed /\ chunk[i] \in Slots
        BY <2>1, <4>1 DEF IInv, Sessions, Allocation, SessionPC
      <4>3. chunk'[i] = chunk[i] /\ chunk[i] # s
        BY <1>2, <1>7, <3>2, <4>2, ActorsDistinct DEF Alive
      <4>4. QED BY <1>7, <1>8, <3>2, <4>2, <4>3
    <3>3. QED BY <3>1, <3>2
  <2>2. ASSUME running, pc'[Cleanup] \in DestroyPC PROVE This(Cleanup)'.done = TRUE
    <3>1. This(Cleanup).done /\ walk[Cleanup].cur \in linked /\ Alive(walk[Cleanup].cur)
      BY <1>13, <2>2 DEF IInv, Sessions, Traversal
    <3>2. chunk'[walk[Cleanup].cur] = chunk[walk[Cleanup].cur] /\ chunk[walk[Cleanup].cur] # s
      BY <1>2, <1>3, <1>12, <3>1, ActorsDistinct DEF Alive
    <3>3. chunk[walk[Cleanup].cur] \in Slots
      BY <1>12, <3>1
    <3>4. QED BY <1>2, <1>7, <3>1, <3>2, <3>3, ActorsDistinct DEF This, At
  <2>3. QED BY <1>2, <2>1, <2>2 DEF Sessions
<1>18. QED BY <1>9, <1>10, <1>11, <1>14, <1>15, <1>16, <1>17 DEF IInv, Core

\* The steps between accept() and push_back(), but for the races with a removal.
LEMMA NewConnectionSteps ==
  ASSUME IInv, Assign \/ Detach \/ PushLinked \/ PushLost
  PROVE  IInv'
<1>1. /\ PcOK(pc) /\ obj \in [Slots -> Object] /\ linked \subseteq Conns /\ lost \subseteq Conns
      /\ pc \in [Actors -> WorkerPC \cup CleanupPC \cup LoopPC]
  BY DEF IInv, TypeOK, PcOK
<1>2. pc[Loop] \in AcceptPC
  BY DEF Assign, Detach, PushLinked, PushLost, AcceptPC
<1>3. /\ born \in Conns /\ born \in Nat /\ born \in Born /\ born \notin linked /\ Alive(born)
      /\ chunk[born] \in Slots
  <2>1. born \in Conns /\ born \notin linked /\ Alive(born) /\ born \in Nat
    BY <1>2, ActorsDistinct DEF IInv, Allocation
  <2>2. QED BY <2>1 DEF IInv, Allocation, Born
<1>4. CASE Die("segv")
  BY <1>4, DyingSteps DEF Dies
<1>5. CASE ~Die("segv")
  <2>1. /\ Quiet(obj') /\ SameLoop /\ UNCHANGED <<tailbad, walk, again, closed, hit, fault>>
        /\ lost' \subseteq lost \cup {born}
    <3>1. CASE Assign
      BY <1>1, <1>3, <3>1, QuietUpdate DEF Assign, SameList
    <3>2. CASE Detach
      BY <1>1, <1>3, <1>5, <3>2, QuietUpdate DEF Detach, SameList
    <3>3. CASE PushLinked \/ PushLost
      BY <1>1, <1>3, <3>3, QuietUpdate DEF PushLinked, PushLost
    <3>4. QED BY <3>1, <3>2, <3>3
  <2>2. PICK l \in {"detach", "push", "idle"} :
           /\ pc' = [pc EXCEPT ![Loop] = l]
           /\ linked' = linked \/ (l = "idle" /\ linked' = linked \cup {born})
    BY <1>5 DEF Assign, Detach, PushLinked, PushLost, Goto, SameList
  <2>3. PcOK(pc')
    BY <1>1, <2>2, ActorsDistinct, PcMove DEF PCOf, LoopPC
  <2>4. pc'[Loop] = l /\ \A b \in Actors \ {Loop} : pc'[b] = pc[b]
    BY <1>1, <2>2, ActorsDistinct
  <2>5. pc'[Cleanup] = pc[Cleanup]
    BY <2>4, ActorsDistinct
  <2>6. \A s \in Slots : /\ obj'[s].own = obj[s].own /\ obj'[s].latest = obj[s].latest
                         /\ obj'[s].fd = obj[s].fd /\ obj'[s].done = obj[s].done
    BY <2>1 DEF Quiet
  <2>7. \A i \in Conns : chunk[i] \in Slots => Alive(i)' = Alive(i)
    BY <2>1, <2>6 DEF Alive, SameLoop
  <2>8. /\ linked \subseteq linked' /\ linked' \subseteq linked \cup {born}
        /\ \A i \in linked' : i \in Conns /\ i \in Born /\ chunk[i] \in Slots
    BY <1>1, <1>3, <2>2 DEF IInv, Allocation
  <2>9. TypeOK'
    BY <1>1, <1>3, <2>1, <2>3, <2>8 DEF IInv, TypeOK, SameLoop, Quiet
  <2>10. Allocation'
    <3>1. \A i \in Conns \ Born : pc'[i] = "unborn"
      BY <2>4, ActorsDistinct DEF IInv, Allocation
    <3>2. \A s \in Slots : /\ obj'[s].own # None => chunk[obj'[s].own] = s
                           /\ obj'[s].fd # None => chunk[obj'[s].fd] = s
                           /\ obj'[s].latest <= clock
      BY <2>6 DEF IInv, Allocation
    <3>3. pc'[Loop] \in AcceptPC => born \in Conns /\ born \notin linked' /\ Alive(born)'
      BY <1>3, <2>1, <2>2, <2>4, <2>6 DEF AcceptPC, Alive, SameLoop
    <3>4. QED BY <2>1, <2>8, <3>1, <3>2, <3>3 DEF IInv, Allocation, Born, SameLoop
  <2>11. Phases'
    BY <1>2, <2>1, <2>4, <2>5
       DEF IInv, Phases, SameLoop, AcceptPC, ShutdownPC, DestroyPC, TunStop, WebStop
  <2>12. LinkedAlive'
    <3>1. \A i \in linked : Alive(i) \/ (pc[Cleanup] = "unlink" /\ walk[Cleanup].cur = i)
      BY <1>2 DEF IInv, LinkedAlive, Swept, AcceptPC, ShutdownPC, DestroyPC, TunStop, WebStop
    <3>2. Alive(born)'
      BY <1>3, <2>1, <2>6 DEF Alive, SameLoop
    <3>3. ASSUME NEW i \in linked'
          PROVE  (Alive(i) \/ (pc[Cleanup] = "unlink" /\ walk[Cleanup].cur = i))'
      <4>1. CASE i = born
        BY <2>1, <3>2, <4>1 DEF SameLoop
      <4>2. CASE i \in linked
        BY <2>1, <2>5, <2>7, <2>8, <3>1, <4>2
      <4>3. QED BY <2>8, <4>1, <4>2
    <3>4. QED BY <3>3 DEF LinkedAlive
  <2>13. Traversal'
    <3>1. pc[Loop] \notin {"visit", "unlink", "next"} \cup DestroyPC
      BY <1>2 DEF AcceptPC, DestroyPC, TunStop, WebStop
    <3>2. pc'[Loop] \notin {"visit", "unlink", "next"} \cup DestroyPC
      BY <2>4 DEF DestroyPC, TunStop, WebStop
    <3>3. walk[Loop].cur = None
      BY <3>1 DEF IInv, Traversal
    <3>4. QED BY <2>1, <2>5, <2>7, <2>8, <3>2, <3>3
              DEF IInv, Traversal, Kind, SameLoop, DestroyPC
  <2>14. Successor'
    BY <2>1, <2>5, <2>8 DEF IInv, Successor, Kind, SameLoop
  <2>15. Sessions'
    <3>1. ASSUME running, NEW i \in Conns \ hit, pc'[i] \in SessionPC
          PROVE  Alive(i)' /\ obj'[chunk[i]].done # TRUE /\ i \notin closed
      <4>1. pc[i] \in SessionPC
        BY <2>4, <3>1, ActorsDistinct
      <4>2. Alive(i) /\ obj[chunk[i]].done # TRUE /\ i \notin closed /\ chunk[i] \in Slots
        BY <3>1, <4>1 DEF IInv, Sessions, Allocation, SessionPC
      <4>3. QED BY <2>6, <2>7, <4>2
    <3>2. ASSUME running, pc'[Cleanup] \in DestroyPC PROVE This(Cleanup)'.done = TRUE
      <4>1. This(Cleanup).done /\ At(Cleanup) \in Slots
        BY <2>5, <3>2, AtSlot, ActorsDistinct DEF IInv, Sessions
      <4>2. At(Cleanup)' = At(Cleanup)
        BY <2>1, ActorsDistinct DEF At, SameLoop
      <4>3. QED BY <2>6, <4>1, <4>2 DEF This
    <3>3. QED BY <2>1, <3>1, <3>2 DEF Sessions, SameLoop
  <2>16. QED BY <2>9, <2>10, <2>11, <2>12, <2>13, <2>14, <2>15 DEF IInv, Core
<1>6. QED BY <1>4, <1>5

\* A push_back() that meets the removal of the last node.
LEMMA RaceSteps ==
  ASSUME IInv, PushUnlinkRace
  PROVE  IInv'
<1> DEFINE c == walk[Cleanup].cur
<1>1. /\ PcOK(pc) /\ linked \subseteq Conns /\ tailbad \subseteq Kinds /\ lost \subseteq Conns
      /\ pc \in [Actors -> WorkerPC \cup CleanupPC \cup LoopPC]
      /\ walk \in [{Loop, Cleanup} -> [list : Kinds, cur : Conns \cup {None},
                                       nxt : Conns \cup {None, End}]]
      /\ walk[Cleanup].list \in Kinds
  BY DEF IInv, TypeOK, PcOK
<1>2. /\ pc[Loop] = "push" /\ pc[Cleanup] = "unlink" /\ linked' = linked \ {c}
      /\ lost' = lost \cup {born} /\ tailbad' = tailbad \cup {Kind(born)}
      /\ SameLoop /\ UNCHANGED <<obj, again, closed, hit, fault>>
  BY DEF PushUnlinkRace, Racing
<1>3. PICK l \in {"head", "test"}, k \in Kinds :
         /\ walk' = [walk EXCEPT ![Cleanup] = AtHead(k)]
         /\ pc' = [pc EXCEPT ![Loop] = "idle", ![Cleanup] = l]
  <2>1. CASE HasNextList(walk[Cleanup].list)
    BY <1>1, <2>1 DEF PushUnlinkRace, Kinds, HasNextList
  <2>2. CASE ~HasNextList(walk[Cleanup].list)
    BY <2>2 DEF PushUnlinkRace, Kinds, FirstList
  <2>3. QED BY <2>1, <2>2
<1>4. /\ pc'[Loop] = "idle" /\ pc'[Cleanup] = l
      /\ \A b \in Actors \ {Loop, Cleanup} : pc'[b] = pc[b]
  BY <1>1, <1>3, ActorsDistinct
<1>5. PcOK(pc')
  <2>1. PcOK([pc EXCEPT ![Loop] = "idle"])
    BY <1>1, ActorsDistinct, PcMove DEF PCOf, LoopPC
  <2>2. l \in PCOf(Cleanup) /\ l \in CleanupPC
    BY ActorsDistinct DEF PCOf, CleanupPC
  <2> DEFINE f == [pc EXCEPT ![Loop] = "idle"]
  <2>3. pc' = [f EXCEPT ![Cleanup] = l]
    BY <1>3
  <2> HIDE DEF f
  <2>4. QED BY ActorsDistinct, <2>1, <2>2, <2>3 DEF PcOK, f
<1>6. /\ walk' \in [{Loop, Cleanup} -> [list : Kinds, cur : Conns \cup {None},
                                        nxt : Conns \cup {None, End}]]
      /\ walk'[Cleanup].cur = None /\ walk'[Loop] = walk[Loop]
  BY <1>1, <1>3, ActorsDistinct DEF AtHead
<1>7. born \in Conns /\ Kind(born) \in Kinds
  <2>1. born \in Conns /\ born \in Nat
    BY <1>2, ActorsDistinct DEF IInv, Allocation, AcceptPC
  <2>2. chunk[born] \in Slots
    BY <2>1 DEF IInv, Allocation, Born
  <2>3. QED BY <2>1, <2>2, SlotsAssumption DEF Kind
<1>8. TypeOK'
  BY <1>1, <1>2, <1>5, <1>6, <1>7 DEF IInv, TypeOK, SameLoop
<1>9. Allocation'
  BY <1>2, <1>4, ActorsDistinct DEF IInv, Allocation, Born, Alive, AcceptPC, SameLoop
<1>10. Phases'
  BY <1>2, <1>4 DEF IInv, Phases, AcceptPC, ShutdownPC, DestroyPC, TunStop, WebStop, SameLoop
<1>11. LinkedAlive'
  <2>1. \A i \in linked : Alive(i) \/ c = i
    BY <1>2 DEF IInv, LinkedAlive, Swept, ShutdownPC, DestroyPC, TunStop, WebStop
  <2>2. QED BY <1>2, <2>1 DEF LinkedAlive, Alive, SameLoop
<1>12. Traversal'
  <2>1. walk[Loop].cur = None
    BY <1>2 DEF IInv, Traversal, DestroyPC, TunStop, WebStop
  <2>2. QED BY <1>4, <1>6, <2>1 DEF Traversal, DestroyPC, TunStop, WebStop
<1>13. Successor'
  BY <1>4 DEF Successor, DestroyPC, TunStop, WebStop
<1>14. Sessions'
  BY <1>2, <1>4, ActorsDistinct DEF IInv, Sessions, Alive, DestroyPC, TunStop, WebStop, SameLoop
<1>15. QED BY <1>8, <1>9, <1>10, <1>11, <1>12, <1>13, <1>14 DEF IInv, Core

LEMMA SignalSteps ==
  ASSUME IInv, Signal
  PROVE  IInv'
<1>1. /\ PcOK(pc) /\ pc \in [Actors -> WorkerPC \cup CleanupPC \cup LoopPC]
  BY DEF IInv, TypeOK, PcOK
<1>2. /\ pc[Loop] = "idle" /\ running' = FALSE /\ pc' = [pc EXCEPT ![Loop] = "notify"]
      /\ SameList /\ UNCHANGED <<born, chunk, clock, obj, again, closed, hit, fault>>
  BY DEF Signal, Goto
<1>3. PcOK(pc')
  BY <1>1, <1>2, ActorsDistinct, PcMove DEF PCOf, LoopPC
<1>4. pc'[Loop] = "notify" /\ \A b \in Actors \ {Loop} : pc'[b] = pc[b]
  BY <1>1, <1>2, ActorsDistinct
<1>5. pc'[Cleanup] = pc[Cleanup]
  BY <1>4, ActorsDistinct
<1>6. TypeOK'
  BY <1>2, <1>3 DEF IInv, TypeOK, SameList
<1>7. Allocation'
  BY <1>2, <1>4, ActorsDistinct DEF IInv, Allocation, Born, AcceptPC, SameList
<1>8. Phases'
  BY <1>2, <1>4 DEF Phases, AcceptPC, ShutdownPC, DestroyPC, TunStop, WebStop
<1>9. LinkedAlive'
  BY <1>2, <1>4, <1>5
     DEF IInv, LinkedAlive, Alive, Swept, SameList, ShutdownPC, DestroyPC, TunStop, WebStop
<1>10. Traversal'
  BY <1>2, <1>4, <1>5 DEF IInv, Traversal, Alive, Kind, SameList, DestroyPC, TunStop, WebStop
<1>11. Successor' /\ Sessions'
  BY <1>2, <1>5 DEF IInv, Successor, Sessions, Kind, SameList
<1>12. QED BY <1>6, <1>7, <1>8, <1>9, <1>10, <1>11 DEF IInv, Core

LEMMA ClockSteps ==
  ASSUME IInv, Tick
  PROVE  IInv'
<1>1. clock \in Nat /\ clock < MaxClock /\ clock' = clock + 1
  BY ClockAssumption DEF IInv, TypeOK, Tick
<1>2. clock' \in StartClock..MaxClock /\ clock <= clock'
  BY <1>1, ClockAssumption DEF IInv, TypeOK
<1>3. TypeOK'
  BY <1>2 DEF IInv, TypeOK, Tick
<1>4. \A s \in Slots : obj[s].latest <= clock'
  <2>1. ASSUME NEW s \in Slots PROVE obj[s].latest <= clock'
    <3>1. obj[s].latest \in Nat /\ obj[s].latest <= clock
      BY ClockAssumption DEF IInv, TypeOK, Allocation, Object
    <3>2. QED BY <1>1, <3>1
  <2>2. QED BY <2>1
<1>5. Allocation'
  BY <1>4 DEF IInv, Allocation, Tick, Born, Alive
<1>6. Core'
  BY <1>5 DEF IInv, Core, Tick, Phases, LinkedAlive, Traversal, Successor, Sessions, Alive, Born,
              Swept, Kind, This, At
<1>7. QED BY <1>3, <1>6 DEF IInv, Core

-----------------------------------------------------------------------------
(* The theorems *)

\* IInv is inductive: no step of the event loop, the cleanup thread, a worker,
\* a destructor, SIGINT or the clock breaks it.
THEOREM Inductive == IInv /\ [Next]_vars => IInv'
<1> SUFFICES ASSUME IInv, [Next]_vars PROVE IInv'
  OBVIOUS
<1>1. Loop \in Actors /\ Cleanup \in Actors /\ Conns \subseteq Actors
  BY ActorsDistinct
<1>2. ASSUME NEW a \in {Loop, Cleanup}, DestroyStep(a) PROVE IInv'
  BY <1>1, <1>2, ControlSteps, StopSteps, DestructorSteps DEF DestroyStep
<1>3. CASE \E s \in Slots : Accept(s)
  BY <1>3, AcceptSteps
<1>4. CASE Signal
  BY <1>4, SignalSteps
<1>5. CASE LoopStep
  <2>1. CASE PushCrash
    BY <2>1, DyingSteps DEF PushCrash, Dies
  <2>2. CASE Assign \/ Detach \/ PushLinked \/ PushLost
    BY <2>2, NewConnectionSteps
  <2>3. CASE SignalNotify \/ Join \/ ShutdownVisit
    BY <2>3, ControlSteps
  <2>4. CASE Head(Loop) \/ ShutdownNext \/ Clear
    BY <2>4, WalkSteps
  <2>5. QED BY <1>2, <1>5, <2>1, <2>2, <2>3, <2>4, RaceSteps DEF LoopStep
<1>6. CASE CleanupStep
  <2>1. CASE TestRunning \/ WaitFor \/ WaitTimeout
    BY <2>1, ControlSteps
  <2>2. CASE Head(Cleanup) \/ Visit \/ Unlink
    BY <2>2, WalkSteps
  <2>3. QED BY <1>2, <1>6, <2>1, <2>2 DEF CleanupStep
<1>7. CASE \E i \in Conns : Worker(i)
  BY <1>7, WorkerSteps
<1>8. CASE \E i \in Conns : StopStep(i)
  BY <1>1, <1>8, StopSteps
<1>9. CASE Tick
  BY <1>9, ClockSteps
<1>10. CASE UNCHANGED vars
  <2>1. TypeOK'
    BY <1>10 DEF IInv, TypeOK, vars
  <2>2. Core'
    BY <1>10 DEF IInv, vars, Core, Allocation, Phases, LinkedAlive, Traversal, Successor, Sessions,
                 Alive, Born, Swept, Kind, This, At
  <2>3. QED BY <2>1, <2>2 DEF IInv, Core
<1>11. QED
  BY <1>3, <1>4, <1>5, <1>6, <1>7, <1>8, <1>9, <1>10 DEF Next, Terminated

\* IInv holds in every state of every behaviour.
THEOREM Invariant == Spec => []IInv
<1>1. QED BY InitCore, Inductive, PTL DEF Spec

\* Every variable of the life cycle keeps its type, for any number of
\* connections and of heap chunks.
THEOREM TypeCorrect == Spec => []TypeOK
<1>1. IInv => TypeOK
  BY DEF IInv
<1>2. QED BY <1>1, Invariant, PTL

\* The cleanup thread's remove_if and the delete loops of stop_server() and
\* stop_client() only ever reach live objects through the lists, whatever the
\* workers, the races on the list's end and the reuse of freed chunks do.
THEOREM TraversalSafe == Spec => []TraversalSeesLiveObjects
<1>1. IInv => TraversalSeesLiveObjects
  <2> SUFFICES ASSUME IInv, NEW a \in {Loop, Cleanup}, pc[a] \in {"visit"} \cup DestroyPC
               PROVE  walk[a].cur \in Conns /\ obj[At(a)].own = walk[a].cur
    BY DEF TraversalSeesLiveObjects
  <2>1. walk[a].cur \in linked /\ Alive(walk[a].cur)
    BY DEF IInv, Traversal
  <2>2. QED BY <2>1, ActorsDistinct DEF IInv, TypeOK, Alive, At
<1>2. QED BY <1>1, Invariant, PTL

\* Until SIGINT, no worker whose object was not struck by another connection's
\* late stop() loses its object or its descriptor while it serves: neither the
\* sweep of done objects nor the idle test of remove_if takes a live session.
THEOREM SessionSafe == Spec => []ServingOwnsObject
<1>1. IInv => ServingOwnsObject
  BY DEF IInv, Sessions, ServingOwnsObject, SessionPC, Alive
<1>2. QED BY <1>1, Invariant, PTL

-----------------------------------------------------------------------------
(* What is released: descriptors, thread objects, TLS sessions and connection *)
(* objects.  Each of the four invariants is inductive relative to IInv.       *)

LEMMA Typed ==
  ASSUME IInv
  PROVE  /\ pc \in [Actors -> WorkerPC \cup CleanupPC \cup LoopPC] /\ PcOK(pc)
         /\ obj \in [Slots -> Object] /\ chunk \in [Conns -> Slots \cup {NoSlot}]
         /\ walk \in [{Loop, Cleanup} -> [list : Kinds, cur : Conns \cup {None},
                                          nxt : Conns \cup {None, End}]]
         /\ linked \subseteq Conns /\ closed \subseteq Conns /\ hit \subseteq Conns
BY DEF IInv, TypeOK, PcOK

\* No step takes the chunk of an accepted connection away.
LEMMA ChunksStay ==
  ASSUME IInv, [Next]_vars, NEW i \in Born
  PROVE  chunk'[i] = chunk[i]
<1>1. CASE chunk' = chunk
  BY <1>1
<1>2. CASE \E s \in Slots : Accept(s)
  <2>1. PICK s \in Slots : chunk' = [chunk EXCEPT ![born + 1] = s]
    BY <1>2 DEF Accept
  <2>2. i # born + 1 /\ i \in Conns
    BY ActorsDistinct DEF Born, IInv, TypeOK
  <2>3. QED BY <2>1, <2>2, Typed
<1>3. CASE LoopStep \/ CleanupStep
  BY <1>1, <1>3
     DEF LoopStep, CleanupStep, Assign, Detach, PushLinked, PushLost, PushUnlinkRace, PushCrash,
         SignalNotify, Join, Head, ShutdownVisit, ShutdownNext, Clear, DestroyStep, Delete, Close,
         Free, TestRunning, WaitFor, WaitTimeout, Visit, Unlink, SameLoop, Die, StopStep, TunTest,
         TunRun, TunNotify, TunThread, TunNull, WebTest, WebRun, WebSsl, WebSslNull, WebFd,
         WebNotify, WebThread, WebNull, DeleteThread
<1>4. CASE \E j \in Conns : Worker(j) \/ StopStep(j)
  BY <1>1, <1>4
     DEF Worker, WorkerInit, HandshakeTunnel, HandshakeWeb, HandshakeFail, Serve, ServeEnd,
         UseAfterFree, SameLoop, Die, StopStep, TunTest,
         TunRun, TunNotify, TunThread, TunNull, WebTest, WebRun, WebSsl, WebSslNull, WebFd,
         WebNotify, WebThread, WebNull, DeleteThread
<1>5. CASE Signal \/ Tick \/ UNCHANGED vars
  BY <1>1, <1>5 DEF Signal, Tick, vars
<1>6. QED BY <1>2, <1>3, <1>4, <1>5 DEF Next, Terminated

\* A traversal moves only between two objects.
LEMMA WalksStay ==
  ASSUME IInv, [Next]_vars, NEW a \in {Loop, Cleanup}, pc[a] \in DestroyPC
  PROVE  walk'[a] = walk[a]
<1>1. CASE walk' = walk
  BY <1>1
<1>0. /\ pc[a] \notin {"head", "visit", "unlink", "next", "clear"}
      /\ walk \in [{Loop, Cleanup} -> [list : Kinds, cur : Conns \cup {None},
                                       nxt : Conns \cup {None, End}]]
  BY Typed DEF DestroyPC, TunStop, WebStop
<1>2. CASE \E b \in {Loop, Cleanup} : Head(b)
  BY <1>0, <1>2, ActorsDistinct DEF Head, StepTo
<1>3. CASE Visit \/ Unlink
  BY <1>0, <1>3, ActorsDistinct DEF Visit, Unlink, StepTo
<1>4. CASE ShutdownNext \/ PushUnlinkRace
  BY <1>0, <1>4, ActorsDistinct DEF ShutdownNext, PushUnlinkRace, StepTo, Racing
<1>5. CASE /\ LoopStep \/ CleanupStep
           /\ ~(Visit \/ Unlink \/ ShutdownNext \/ PushUnlinkRace \/ Head(Loop) \/ Head(Cleanup))
  BY <1>1, <1>5
     DEF LoopStep, CleanupStep, Assign, Detach, PushLinked, PushLost, PushCrash,
         SignalNotify, Join, ShutdownVisit, Clear, DestroyStep, Delete, Close,
         Free, TestRunning, WaitFor, WaitTimeout, SameList, Die, StopStep, TunTest,
         TunRun, TunNotify, TunThread, TunNull, WebTest, WebRun, WebSsl, WebSslNull, WebFd,
         WebNotify, WebThread, WebNull, DeleteThread
<1>6. CASE \E j \in Conns : Worker(j) \/ StopStep(j)
  BY <1>1, <1>6
     DEF Worker, WorkerInit, HandshakeTunnel, HandshakeWeb, HandshakeFail, Serve, ServeEnd,
         UseAfterFree, SameList, Die, StopStep, TunTest,
         TunRun, TunNotify, TunThread, TunNull, WebTest, WebRun, WebSsl, WebSslNull, WebFd,
         WebNotify, WebThread, WebNull, DeleteThread
<1>7. CASE Signal \/ Tick \/ (UNCHANGED vars) \/ \E s \in Slots : Accept(s)
  BY <1>1, <1>7 DEF Signal, Tick, vars, Accept, SameList
<1>8. QED BY <1>2, <1>3, <1>4, <1>5, <1>6, <1>7 DEF Next, Terminated

\* The object a thread stops or deletes stays the same one.
LEMMA PlaceStays ==
  ASSUME IInv, [Next]_vars, NEW b \in Actors, pc[b] \in DestroyPC
  PROVE  At(b) \in Slots /\ This(b) \in Object /\ At(b)' = At(b)
<1>1. At(b) \in Slots /\ This(b) \in Object
  BY AtSlot DEF DestroyPC, TunStop, WebStop
<1>2. CASE b \in Conns
  <2>1. b \in Born
    BY <1>2 DEF IInv, Allocation, DestroyPC, TunStop, WebStop
  <2>2. QED BY <1>1, <1>2, <2>1, ChunksStay DEF At
<1>3. CASE b \notin Conns
  <2>1. b \in {Loop, Cleanup}
    BY <1>3 DEF Actors
  <2>2. walk'[b] = walk[b] /\ walk[b].cur \in Born
    BY <2>1, WalksStay DEF IInv, Traversal, Allocation
  <2>3. QED BY <1>1, <1>3, <2>2, ChunksStay DEF At
<1>4. QED BY <1>2, <1>3, <1>1

-----------------------------------------------------------------------------
(* Thread objects and TLS sessions *)

HoldPC == {"t_null", "w_null", "w_sslnull"}

\* What a step may do to freed pointers: free one and stand before clearing it, or
\* leave whoever is about to clear one where it is.
FreedFrame ==
  /\ \A s \in Slots :
       /\ obj'[s].td = "freed" =>
            \/ obj[s].td = "freed"
            \/ \E b \in Actors : pc'[b] \in {"t_null", "w_null"} /\ At(b)' = s
       /\ obj'[s].ssl = "freed" =>
            \/ obj[s].ssl = "freed"
            \/ \E b \in Actors : pc'[b] = "w_sslnull" /\ At(b)' = s
  /\ \A b \in Actors :
       /\ pc[b] \in {"t_null", "w_null"} => pc'[b] = pc[b] \/ obj'[At(b)].td # "freed"
       /\ pc[b] = "w_sslnull" => pc'[b] = pc[b] \/ obj'[At(b)].ssl # "freed"

LEMMA FreedFrameSuffices ==
  ASSUME IInv, FreedInStop, [Next]_vars, FreedFrame
  PROVE  FreedInStop'
<1>1. \A b \in Actors : pc[b] \in HoldPC => At(b)' = At(b)
  BY PlaceStays DEF HoldPC, DestroyPC, TunStop, WebStop
<1>2. ASSUME NEW s \in Slots, obj'[s].td = "freed"
      PROVE  \E b \in Actors : pc'[b] \in {"t_null", "w_null"} /\ At(b)' = s
  <2>1. CASE obj[s].td = "freed"
    <3>1. PICK b \in Actors : pc[b] \in {"t_null", "w_null"} /\ At(b) = s
      BY <2>1 DEF FreedInStop
    <3>2. pc'[b] = pc[b] /\ At(b)' = s
      BY <1>1, <1>2, <3>1 DEF FreedFrame, HoldPC
    <3>3. QED BY <3>1, <3>2
  <2>2. QED BY <1>2, <2>1 DEF FreedFrame
<1>3. ASSUME NEW s \in Slots, obj'[s].ssl = "freed"
      PROVE  \E b \in Actors : pc'[b] = "w_sslnull" /\ At(b)' = s
  <2>1. CASE obj[s].ssl = "freed"
    <3>1. PICK b \in Actors : pc[b] = "w_sslnull" /\ At(b) = s
      BY <2>1 DEF FreedInStop
    <3>2. pc'[b] = pc[b] /\ At(b)' = s
      BY <1>1, <1>3, <3>1 DEF FreedFrame, HoldPC
    <3>3. QED BY <3>1, <3>2
  <2>2. QED BY <1>3, <2>1 DEF FreedFrame
<1>4. QED BY <1>2, <1>3 DEF FreedInStop

\* A step by a thread that clears no pointer, with no pointer freed.
LEMMA NothingFreed ==
  ASSUME IInv, NEW a \in Actors, pc[a] \notin HoldPC,
         \A b \in Actors \ {a} : pc'[b] = pc[b] \/ (b = Cleanup /\ pc[b] = "wait"),
         \A s \in Slots : /\ obj'[s].td = "freed" => obj[s].td = "freed"
                          /\ obj'[s].ssl = "freed" => obj[s].ssl = "freed"
  PROVE  FreedFrame
BY DEF FreedFrame, HoldPC

\* One field of the object in chunk s is written.
LEMMA FieldWritten ==
  ASSUME obj \in [Slots -> Object], NEW s \in Slots, NEW v
  PROVE  /\ \A r \in Slots : r # s =>
              /\ [obj EXCEPT ![s].done = v][r] = obj[r] /\ [obj EXCEPT ![s].srun = v][r] = obj[r]
              /\ [obj EXCEPT ![s].wrun = v][r] = obj[r] /\ [obj EXCEPT ![s].latest = v][r] = obj[r]
              /\ [obj EXCEPT ![s].td = v][r] = obj[r] /\ [obj EXCEPT ![s].ssl = v][r] = obj[r]
              /\ [obj EXCEPT ![s].fd = v][r] = obj[r] /\ [obj EXCEPT ![s].own = v][r] = obj[r]
         /\ [obj EXCEPT ![s].done = v][s] = [obj[s] EXCEPT !.done = v]
         /\ [obj EXCEPT ![s].srun = v][s] = [obj[s] EXCEPT !.srun = v]
         /\ [obj EXCEPT ![s].wrun = v][s] = [obj[s] EXCEPT !.wrun = v]
         /\ [obj EXCEPT ![s].latest = v][s] = [obj[s] EXCEPT !.latest = v]
         /\ [obj EXCEPT ![s].td = v][s] = [obj[s] EXCEPT !.td = v]
         /\ [obj EXCEPT ![s].ssl = v][s] = [obj[s] EXCEPT !.ssl = v]
         /\ [obj EXCEPT ![s].fd = v][s] = [obj[s] EXCEPT !.fd = v]
         /\ [obj EXCEPT ![s].own = v][s] = [obj[s] EXCEPT !.own = v]
OBVIOUS

\* What a step of stop() leaves alone, and what it frees and clears.
StopFields(a) ==
  /\ \A s \in Slots :
       /\ obj'[s].own = obj[s].own /\ obj'[s].web = obj[s].web
       /\ obj'[s].fd \in {obj[s].fd, None}
       /\ obj'[s].td = "freed" =>
            obj[s].td = "freed" \/ (s = At(a) /\ pc'[a] \in {"t_null", "w_null"})
       /\ obj'[s].ssl = "freed" =>
            obj[s].ssl = "freed" \/ (s = At(a) /\ pc'[a] = "w_sslnull")
  /\ pc[a] \in {"t_null", "w_null"} => obj'[At(a)].td # "freed"
  /\ pc[a] = "w_sslnull" => obj'[At(a)].ssl # "freed"
  /\ pc'[a] \in WebStop \cup {"free"} => pc[a] \in WebStop

\* A store into chunk s that a step of stop() may make at any point.
Store(s) ==
  \/ obj' = obj
  \/ obj' = [obj EXCEPT ![s].done = TRUE] \/ obj' = [obj EXCEPT ![s].srun = FALSE]
  \/ obj' = [obj EXCEPT ![s].wrun = FALSE] \/ obj' = [obj EXCEPT ![s].fd = None]
  \/ obj' = [obj EXCEPT ![s].td = "null"] \/ obj' = [obj EXCEPT ![s].ssl = "null"]

LEMMA StoreFields ==
  ASSUME obj \in [Slots -> Object], NEW s \in Slots, Store(s)
  PROVE  \A r \in Slots :
           /\ obj'[r].own = obj[r].own /\ obj'[r].web = obj[r].web
           /\ obj'[r].fd \in {obj[r].fd, None}
           /\ obj'[r].td = "freed" => obj[r].td = "freed"
           /\ obj'[r].ssl = "freed" => obj[r].ssl = "freed"
<1> SUFFICES ASSUME NEW r \in Slots
             PROVE  /\ obj'[r].own = obj[r].own /\ obj'[r].web = obj[r].web
                    /\ obj'[r].fd \in {obj[r].fd, None}
                    /\ obj'[r].td = "freed" => obj[r].td = "freed"
                    /\ obj'[r].ssl = "freed" => obj[r].ssl = "freed"
  OBVIOUS
<1>1. obj[s] \in Object
  OBVIOUS
<1>2. CASE r # s
  BY <1>2, FieldWritten DEF Store
<1>3. CASE r = s
  BY <1>1, <1>3, FieldWritten DEF Store, Object
<1>4. QED BY <1>2, <1>3

LEMMA StopIsTidy ==
  ASSUME IInv, NEW a \in Actors, StopStep(a)
  PROVE  StopFields(a) \/ Dies
<1>1. pc[a] \in StopPC /\ pc[a] \in DestroyPC
  BY StopLocation DEF StopPC, DestroyPC
<1>2. At(a) \in Slots /\ This(a) \in Object /\ obj \in [Slots -> Object]
  BY <1>1, AtSlot, Typed DEF DestroyPC, StopPC, TunStop, WebStop
<1>3. pc \in [Actors -> WorkerPC \cup CleanupPC \cup LoopPC]
  BY Typed
<1>4. /\ TunReturn(a, pc)[a] \notin WebStop \cup {"free"}
  BY <1>3 DEF TunReturn, WebStop
<1>5. ASSUME Store(At(a)), pc[a] \notin HoldPC,
             pc'[a] \in WebStop \cup {"free"} => pc[a] \in WebStop
      PROVE  StopFields(a)
  BY <1>2, <1>5, StoreFields DEF StopFields, HoldPC
<1>6. CASE TunTest(a) \/ TunRun(a)
  <2>1. Store(At(a)) /\ pc[a] \notin HoldPC
    BY <1>6 DEF TunTest, TunRun, Store, HoldPC
  <2>2. pc'[a] \notin WebStop \cup {"free"}
    BY <1>3, <1>4, <1>6 DEF TunTest, TunRun, Goto, WebStop
  <2>3. QED BY <1>5, <2>1, <2>2
<1>7. CASE TunNotify(a)
  <2>1. Store(At(a)) /\ pc[a] \notin HoldPC
    BY <1>7 DEF TunNotify, Store, HoldPC
  <2>2. pc'[a] \notin WebStop \cup {"free"}
    BY <1>3, <1>7, ActorsDistinct DEF TunNotify, Notify, WebStop
  <2>3. QED BY <1>5, <2>1, <2>2
<1>8. ASSUME NEW here, here \notin HoldPC, NEW next \in {"t_null", "w_null"}, NEW back,
             DeleteThread(a, here, next, back),
             \/ next = "t_null" /\ back = TunReturn(a, pc)
             \/ here \in WebStop
      PROVE  StopFields(a) \/ Dies
  <2>1. CASE This(a).td = "detached" /\ obj' = [obj EXCEPT ![At(a)].td = "freed"]
    <3>1. pc' = [pc EXCEPT ![a] = next] /\ pc[a] = here
      BY <1>8, <2>1 DEF DeleteThread, Goto
    <3>2. \A r \in Slots :
            /\ obj'[r].own = obj[r].own /\ obj'[r].web = obj[r].web /\ obj'[r].fd = obj[r].fd
            /\ obj'[r].ssl = obj[r].ssl /\ (r = At(a) \/ obj'[r].td = obj[r].td)
      BY <1>2, <2>1, FieldWritten DEF Object
    <3>3. QED BY <1>3, <1>8, <3>1, <3>2 DEF StopFields, HoldPC, WebStop
  <2>2. CASE This(a).td = "null" /\ obj' = obj
    <3>1. pc' = back /\ pc[a] = here
      BY <1>8, <2>2 DEF DeleteThread
    <3>2. QED BY <1>4, <1>5, <1>8, <2>2, <3>1 DEF Store
  <2>3. CASE Die("terminate") \/ Die("doublefree")
    BY <2>3 DEF Dies
  <2>4. QED BY <1>8, <2>1, <2>2, <2>3 DEF DeleteThread
<1>9. CASE TunThread(a)
  BY <1>8, <1>9 DEF TunThread, HoldPC
<1>10. CASE TunNull(a)
  <2>1. pc' = TunReturn(a, pc) /\ pc[a] = "t_null" /\ obj' = [obj EXCEPT ![At(a)].td = "null"]
    BY <1>10 DEF TunNull
  <2>2. obj'[At(a)].td = "null" /\ Store(At(a))
    BY <1>2, <2>1 DEF Object, Store
  <2>3. QED BY <1>2, <1>4, <2>1, <2>2, StoreFields DEF StopFields
<1>11. CASE WebTest(a) \/ WebRun(a) \/ WebFd(a) \/ WebNotify(a)
  <2>1. Store(At(a)) /\ pc[a] \notin HoldPC /\ pc[a] \in WebStop
    BY <1>11 DEF WebTest, WebRun, WebFd, WebNotify, Store, HoldPC, WebStop
  <2>2. QED BY <1>5, <2>1
<1>12. CASE WebSsl(a)
  <2>1. CASE This(a).ssl = "open" /\ obj' = [obj EXCEPT ![At(a)].ssl = "freed"]
    <3>1. pc' = [pc EXCEPT ![a] = "w_sslnull"] /\ pc[a] = "w_ssl"
      BY <1>12, <2>1 DEF WebSsl, Goto
    <3>2. \A r \in Slots :
            /\ obj'[r].own = obj[r].own /\ obj'[r].web = obj[r].web /\ obj'[r].fd = obj[r].fd
            /\ obj'[r].td = obj[r].td /\ (r = At(a) \/ obj'[r].ssl = obj[r].ssl)
      BY <1>2, <2>1, FieldWritten DEF Object
    <3>3. QED BY <1>3, <3>1, <3>2 DEF StopFields, WebStop
  <2>2. CASE obj' = obj /\ pc[a] = "w_ssl"
    BY <1>5, <2>2 DEF Store, HoldPC, WebStop
  <2>3. CASE Die("doublefree")
    BY <2>3 DEF Dies
  <2>4. QED BY <1>12, <2>1, <2>2, <2>3 DEF WebSsl
<1>13. CASE WebSslNull(a)
  <2>1. pc[a] = "w_sslnull" /\ obj' = [obj EXCEPT ![At(a)].ssl = "null"]
    BY <1>13 DEF WebSslNull
  <2>2. obj'[At(a)].ssl = "null" /\ Store(At(a))
    BY <1>2, <2>1 DEF Object, Store
  <2>3. QED BY <1>2, <2>1, <2>2, StoreFields DEF StopFields, WebStop
<1>14. CASE WebThread(a)
  <2>1. CASE KindOf[At(a)] = "websrv"
    BY <1>8, <1>14, <2>1 DEF WebThread, HoldPC, WebStop
  <2>2. CASE KindOf[At(a)] # "websrv"
    BY <1>5, <1>14, <2>2 DEF WebThread, Store, HoldPC, WebStop
  <2>3. QED BY <2>1, <2>2
<1>15. CASE WebNull(a)
  <2>1. pc[a] = "w_null" /\ obj' = [obj EXCEPT ![At(a)].td = "null"]
    BY <1>15 DEF WebNull
  <2>2. obj'[At(a)].td = "null" /\ Store(At(a))
    BY <1>2, <2>1 DEF Object, Store
  <2>3. QED BY <1>2, <2>1, <2>2, StoreFields DEF StopFields, WebStop
<1>16. QED
  BY <1>6, <1>7, <1>9, <1>10, <1>11, <1>12, <1>13, <1>14, <1>15 DEF StopStep

\* Steps that write no object: nobody who is about to clear a pointer moves.
QuietStep ==
  \/ TestRunning \/ WaitFor \/ WaitTimeout \/ SignalNotify \/ Join \/ ShutdownVisit \/ Signal
  \/ Visit \/ Unlink \/ ShutdownNext \/ Clear \/ PushLinked \/ PushLost \/ PushUnlinkRace
  \/ Tick \/ (UNCHANGED vars) \/ Dies
  \/ \E a \in {Loop, Cleanup} : Head(a) \/ Delete(a)
  \/ \E i \in Conns : HandshakeFail(i) \/ ServeEnd(i)

LEMMA QuietStepFrame ==
  ASSUME IInv, QuietStep
  PROVE  /\ obj' = obj
         /\ \A b \in Actors :
              pc[b] \in StopPC \cup {"close", "free"} => pc'[b] = pc[b]
<1>1. pc \in [Actors -> WorkerPC \cup CleanupPC \cup LoopPC]
  BY Typed
<1>2. CASE TestRunning \/ WaitFor \/ WaitTimeout \/ SignalNotify \/ Join \/ ShutdownVisit \/ Signal
  BY <1>1, <1>2, ActorsDistinct
     DEF TestRunning, WaitFor, WaitTimeout, SignalNotify, Join, ShutdownVisit, Signal, Goto, Notify,
         StopPC, TunStop, WebStop
<1>3. CASE Clear \/ PushLinked \/ PushLost \/ PushUnlinkRace
  BY <1>1, <1>3, ActorsDistinct
     DEF Clear, PushLinked, PushLost, PushUnlinkRace, Goto, Racing, StopPC, TunStop, WebStop
<1>4. CASE Visit \/ Unlink \/ ShutdownNext
  BY <1>1, <1>4, ActorsDistinct
     DEF Visit, Unlink, ShutdownNext, StepTo, Goto, StopPC, TunStop, WebStop
<1>5. CASE \E a \in {Loop, Cleanup} : Head(a) \/ Delete(a)
  BY <1>1, <1>5, ActorsDistinct DEF Head, Delete, StepTo, Goto, StopPC, TunStop, WebStop
<1>6. CASE \E i \in Conns : HandshakeFail(i) \/ ServeEnd(i)
  BY <1>1, <1>6, ActorsDistinct DEF HandshakeFail, ServeEnd, Goto, StopPC, TunStop, WebStop
<1>7. CASE Tick \/ (UNCHANGED vars) \/ Dies
  BY <1>7 DEF Tick, vars, Dies, Die
<1>8. QED BY <1>2, <1>3, <1>4, <1>5, <1>6, <1>7 DEF QuietStep

\* Every step is quiet, a step of stop() or one of the others that write an object.
LEMMA StepKinds ==
  ASSUME [Next]_vars
  PROVE  \/ QuietStep
         \/ \E a \in Actors : StopStep(a)
         \/ \E a \in {Loop, Cleanup} : Close(a) \/ Free(a)
         \/ \E s \in Slots : Accept(s)
         \/ Assign \/ Detach
         \/ \E i \in Conns : WorkerInit(i) \/ HandshakeTunnel(i) \/ HandshakeWeb(i) \/ Serve(i)
<1>1. CASE LoopStep \/ CleanupStep
  BY <1>1, ActorsDistinct DEF LoopStep, CleanupStep, DestroyStep, PushCrash, QuietStep, Dies
<1>2. CASE \E i \in Conns : Worker(i) \/ StopStep(i)
  BY <1>2, ActorsDistinct DEF Worker, UseAfterFree, QuietStep, Dies
<1>3. CASE Signal \/ Tick \/ (UNCHANGED vars) \/ \E s \in Slots : Accept(s)
  BY <1>3 DEF QuietStep
<1>4. QED BY <1>1, <1>2, <1>3 DEF Next, Terminated

\* A pointer is freed only by a step that leaves its thread before the clearing of it.
LEMMA FreedSteps ==
  ASSUME IInv, FreedInStop, [Next]_vars
  PROVE  FreedInStop'
<1>1. /\ pc \in [Actors -> WorkerPC \cup CleanupPC \cup LoopPC] /\ obj \in [Slots -> Object]
      /\ \A i \in Conns : pc[i] # "unborn" => chunk[i] \in Slots
  BY Typed DEF IInv, Allocation
<1>2. SUFFICES FreedFrame
  BY FreedFrameSuffices
<1>3. CASE QuietStep
  BY <1>3, QuietStepFrame DEF FreedFrame, StopPC, TunStop, WebStop
<1>4. ASSUME NEW a \in Actors, StopStep(a) PROVE FreedFrame
  <2>1. CASE Dies
    BY <1>3, <2>1 DEF QuietStep
  <2>2. CASE StopFields(a)
    <3>0. pc[a] \in DestroyPC
      BY <1>4, StopLocation DEF StopPC, DestroyPC
    <3>1. At(a)' = At(a)
      BY <1>4, <3>0, PlaceStays
    <3>2. \A b \in Actors \ {a} : pc[b] \in HoldPC => pc'[b] = pc[b]
      <4>1. CASE StopEffect(a)
        BY <4>1 DEF StopEffect, Moves, HoldPC
      <4>2. CASE Dies
        BY <4>2 DEF Dies, Die
      <4>3. QED BY <1>4, <4>1, <4>2, StopIsBounded
    <3>3. QED BY <2>2, <3>1, <3>2 DEF StopFields, FreedFrame, HoldPC
  <2>3. QED BY <1>4, <2>1, <2>2, StopIsTidy
<1>5. ASSUME NEW a \in {Loop, Cleanup}, Close(a) \/ Free(a) PROVE FreedFrame
  <2>1. a \in Actors /\ pc[a] \in DestroyPC /\ pc[a] \notin HoldPC
    BY <1>5, ActorsDistinct DEF Close, Free, DestroyPC, HoldPC
  <2>2. At(a) \in Slots /\ This(a) \in Object
    BY <2>1, PlaceStays
  <2>3. \A b \in Actors \ {a} : pc'[b] = pc[b]
    BY <1>1, <1>5 DEF Close, Free, Goto
  <2>4. \A s \in Slots : /\ obj'[s].td = obj[s].td
                         /\ obj'[s].ssl = "freed" => obj[s].ssl = "freed"
    BY <1>1, <1>5, <2>2, FieldWritten DEF Close, Free, Object, This
  <2>5. QED BY <2>1, <2>3, <2>4, NothingFreed
<1>6. ASSUME NEW s \in Slots, Accept(s) PROVE FreedFrame
  <2>1. /\ pc[Loop] = "idle" /\ pc' = [pc EXCEPT ![Loop] = "assign", ![born + 1] = "start"]
        /\ obj' = [obj EXCEPT ![s] = Fresh(born + 1)] /\ born + 1 \in Conns \ Born
    BY <1>6, MaxConnsAssumption DEF Accept, IInv, TypeOK, Conns, Born
  <2>2. pc[born + 1] = "unborn"
    BY <2>1 DEF IInv, Allocation
  <2>3. \A b \in Actors : pc[b] \in HoldPC => pc'[b] = pc[b]
    BY <1>1, <2>1, <2>2 DEF HoldPC
  <2>4. \A r \in Slots : /\ obj'[r].td = "freed" => obj[r].td = "freed"
                         /\ obj'[r].ssl = "freed" => obj[r].ssl = "freed"
    BY <1>1, <2>1 DEF Fresh
  <2>5. QED BY <2>3, <2>4 DEF FreedFrame, HoldPC
<1>7. CASE Assign \/ Detach
  <2>1. CASE Dies
    BY <1>3, <2>1 DEF QuietStep
  <2>2. CASE ~Dies
    <3>1. pc[Loop] \in AcceptPC /\ \A b \in Actors \ {Loop} : pc'[b] = pc[b]
      BY <1>1, <1>7, <2>2 DEF Assign, Detach, Goto, AcceptPC, Dies
    <3>2. chunk[born] \in Slots
      <4>1. born \in Conns /\ born \in Nat
        BY <3>1, ActorsDistinct DEF IInv, Allocation
      <4>2. QED BY <4>1 DEF IInv, Allocation, Born
    <3>3. \A r \in Slots : /\ obj'[r].ssl = obj[r].ssl
                           /\ obj'[r].td = "freed" => obj[r].td = "freed"
      <4>1. \E y \in {"joinable", "detached"} : obj' = [obj EXCEPT ![chunk[born]].td = y]
        BY <1>7, <2>2 DEF Assign, Detach, Dies
      <4>2. QED BY <1>1, <3>2, <4>1, FieldWritten DEF Object
    <3>4. QED BY <3>1, <3>3, NothingFreed, ActorsDistinct DEF AcceptPC, HoldPC
  <2>3. QED BY <2>1, <2>2
<1>8. ASSUME NEW i \in Conns, WorkerInit(i) \/ HandshakeTunnel(i) \/ HandshakeWeb(i) \/ Serve(i)
      PROVE  FreedFrame
  <2>1. pc[i] \in SessionPC /\ chunk[i] \in Slots /\ obj[chunk[i]] \in Object
    BY <1>1, <1>8 DEF WorkerInit, HandshakeTunnel, HandshakeWeb, Serve, SessionPC
  <2>2. \A b \in Actors \ {i} : pc'[b] = pc[b]
    BY <1>1, <1>8 DEF WorkerInit, HandshakeTunnel, HandshakeWeb, Serve, Goto
  <2>3. \A r \in Slots : /\ obj'[r].td = obj[r].td
                         /\ obj'[r].ssl = "freed" => obj[r].ssl = "freed"
    BY <1>1, <1>8, <2>1 DEF WorkerInit, HandshakeTunnel, HandshakeWeb, Serve, Object
  <2>4. QED BY <2>1, <2>2, <2>3, NothingFreed, ActorsDistinct DEF SessionPC, HoldPC
<1>9. QED BY <1>3, <1>4, <1>5, <1>6, <1>7, <1>8, StepKinds

\* The step that frees twice stands where another thread has freed before.
LEMMA SecondFree ==
  ASSUME IInv, FreedInStop, NEW a \in Actors, StopStep(a), fault = "none",
         fault' = "doublefree"
  PROVE  DoubleFreeTakesTwo'
<1>1. /\ pc[a] \in StopPC \ HoldPC
      /\ \/ This(a).td = "freed" /\ pc[a] \in {"t_td", "w_td"}
         \/ This(a).ssl = "freed" /\ pc[a] = "w_ssl"
      /\ Die("doublefree")
  BY DEF StopStep, TunTest, TunRun, TunNotify, TunThread, TunNull, WebTest, WebRun, WebSsl,
         WebSslNull, WebFd, WebNotify, WebThread, WebNull, DeleteThread, Die, StopPC, TunStop, WebStop,
         HoldPC
<1>2. At(a) \in Slots
  BY <1>1, AtSlot DEF DestroyPC, StopPC, TunStop, WebStop
<1>3. PICK b \in Actors : pc[b] \in HoldPC /\ At(b) = At(a)
  BY <1>1, <1>2 DEF FreedInStop, This, HoldPC
<1>4. \A c \in Actors : pc'[c] = pc[c] /\ At(c)' = At(c)
  BY <1>1 DEF Die, At
<1>5. a # b /\ \A x \in {a, b} : pc'[x] \in TunStop \cup WebStop
  BY <1>1, <1>3, <1>4 DEF HoldPC, StopPC, TunStop, WebStop
<1>6. QED BY <1>3, <1>4, <1>5 DEF DoubleFreeTakesTwo

LEMMA DoubleFreeSteps ==
  ASSUME IInv, FreedInStop, DoubleFreeTakesTwo, [Next]_vars
  PROVE  DoubleFreeTakesTwo'
<1>1. CASE UNCHANGED vars
  BY <1>1 DEF vars, DoubleFreeTakesTwo, At
<1>2. CASE fault = "none" /\ fault' = "none"
  BY <1>2 DEF DoubleFreeTakesTwo
<1>3. CASE fault = "none" /\ fault' # "none" /\ Next
  <2>1. CASE \E a \in Actors : StopStep(a)
    BY <1>3, <2>1, SecondFree DEF DoubleFreeTakesTwo
  <2>2. CASE ~\E a \in Actors : StopStep(a)
    <3>1. fault' # "doublefree"
      BY <1>3, <2>2, ActorsDistinct
         DEF Next, Accept, Signal, Tick, Terminated, vars, LoopStep, CleanupStep, Worker, Assign,
             Detach, PushLinked, PushLost, PushUnlinkRace, PushCrash, SignalNotify, Join, Head,
             ShutdownVisit, ShutdownNext, Clear, DestroyStep, Delete, Close, Free, TestRunning,
             WaitFor, WaitTimeout, Visit, Unlink, WorkerInit, HandshakeTunnel, HandshakeWeb,
             HandshakeFail, Serve, ServeEnd, UseAfterFree, Die
    <3>2. QED BY <3>1 DEF DoubleFreeTakesTwo
  <2>3. QED BY <2>1, <2>2
<1>4. CASE fault # "none" /\ Next
  BY <1>1, <1>4 DEF Next, Up, Terminated
<1>5. QED BY <1>1, <1>2, <1>3, <1>4

\* However many connections there are and whatever their chunks are reused for, a
\* thread object or a TLS session is deleted twice only when two threads are inside
\* stop() on one object: a thread that deletes it clears the pointer before it can
\* call stop() again.
THEOREM DoubleFreeNeedsTwo == Spec => []DoubleFreeTakesTwo
<1>1. Init => FreedInStop /\ DoubleFreeTakesTwo
  BY DEF Init, Fresh, FreedInStop, DoubleFreeTakesTwo
<1>2. IInv /\ FreedInStop /\ DoubleFreeTakesTwo /\ [Next]_vars
        => (FreedInStop /\ DoubleFreeTakesTwo)'
  BY FreedSteps, DoubleFreeSteps
<1>3. QED BY <1>1, <1>2, Invariant, PTL DEF Spec

-----------------------------------------------------------------------------
(* Descriptors *)

\* A step that changes no owner and no mode, opens no descriptor, and lets no
\* destructor pass close() on a descriptor still open.
DescriptorFrame ==
  /\ closed \subseteq closed' /\ hit \subseteq hit'
  /\ \A s \in Slots : /\ obj'[s].own = obj[s].own /\ obj'[s].web = obj[s].web
                      /\ obj'[s].fd \in {obj[s].fd, None}
  /\ pc'[Cleanup] \in WebStop \cup {"free"} =>
       \/ pc[Cleanup] \in WebStop \cup {"free"}
       \/ pc[Cleanup] \in DestroyPC /\ Settled(At(Cleanup))'

LEMMA DescriptorFrameSuffices ==
  ASSUME IInv, DescriptorsClosed, [Next]_vars, running, DescriptorFrame
  PROVE  DescriptorsClosed'
<1>1. \A s \in Slots : Settled(s) => Settled(s)'
  BY DEF DescriptorFrame, Settled
<1>2. \A s \in Slots : obj'[s].own = None => Settled(s)'
  BY <1>1 DEF DescriptorFrame, DescriptorsClosed
<1>3. ASSUME pc'[Cleanup] \in WebStop \cup {"free"} PROVE Settled(At(Cleanup))'
  <2>1. CASE pc[Cleanup] \in WebStop \cup {"free"}
    <3>1. At(Cleanup) \in Slots /\ At(Cleanup)' = At(Cleanup)
      BY <2>1, PlaceStays, ActorsDistinct DEF DestroyPC
    <3>2. Settled(At(Cleanup))
      BY <2>1 DEF DescriptorsClosed
    <3>3. QED BY <1>1, <3>1, <3>2 DEF Settled
  <2>2. QED BY <1>3, <2>1 DEF DescriptorFrame
<1>4. QED BY <1>2, <1>3 DEF DescriptorsClosed

LEMMA DescriptorSteps ==
  ASSUME IInv, DescriptorsClosed, [Next]_vars
  PROVE  DescriptorsClosed'
<1>0. CASE ~running'
  BY <1>0 DEF DescriptorsClosed
<1>1. CASE ~running
  <2>1. running' = running
    <3>1. CASE \E a \in Actors : StopStep(a)
      BY <3>1, StopIsBounded DEF StopEffect, SameLoop, Dies, Die
    <3>2. CASE QuietStep \/ Assign \/ Detach \/ \E s \in Slots : Accept(s)
      BY <1>1, <3>2
         DEF QuietStep, Dies, Die, SameLoop, TestRunning, WaitFor, WaitTimeout, SignalNotify, Join,
             ShutdownVisit, Signal, Visit, Unlink, ShutdownNext, Clear, PushLinked, PushLost,
             PushUnlinkRace, Tick, vars, Head, Delete, HandshakeFail, ServeEnd, Assign, Detach, Accept,
             IInv, Phases
    <3>3. CASE \/ \E a \in {Loop, Cleanup} : Close(a) \/ Free(a)
               \/ \E i \in Conns : WorkerInit(i) \/ HandshakeTunnel(i) \/ HandshakeWeb(i) \/ Serve(i)
      BY <3>3 DEF Close, Free, WorkerInit, HandshakeTunnel, HandshakeWeb, Serve, SameLoop
    <3>4. QED BY <3>1, <3>2, <3>3, StepKinds
  <2>2. QED BY <1>1, <2>1 DEF DescriptorsClosed
<1>2. CASE running /\ running'
  <2>1. /\ pc \in [Actors -> WorkerPC \cup CleanupPC \cup LoopPC] /\ obj \in [Slots -> Object]
        /\ \A i \in Conns : pc[i] # "unborn" => chunk[i] \in Slots
    BY Typed DEF IInv, Allocation
  <2>2. pc[Loop] \in {"idle"} \cup AcceptPC
    BY <1>2 DEF IInv, Phases
  <2>3. CASE QuietStep
    <3>1. obj' = obj
      BY <2>3, QuietStepFrame
    <3>2. closed' = closed /\ hit' = hit
      BY <2>3
         DEF QuietStep, Dies, Die, TestRunning, WaitFor, WaitTimeout, SignalNotify, Join,
             ShutdownVisit, Signal, Visit, Unlink, ShutdownNext, Clear, PushLinked, PushLost,
             PushUnlinkRace, Tick, vars, Head, Delete, HandshakeFail, ServeEnd
    <3>3. CASE Delete(Cleanup)
      <4>1. /\ pc[Cleanup] = "delete" /\ pc[Cleanup] \in DestroyPC
            /\ \/ KindOf[At(Cleanup)] = "websrv" \/ This(Cleanup).web
               \/ pc'[Cleanup] = "t_test"
        BY <2>1, <3>3, ActorsDistinct DEF Delete, Goto, DestroyPC
      <4>2. At(Cleanup)' = At(Cleanup)
        BY <4>1, PlaceStays, ActorsDistinct
      <4>3. pc'[Cleanup] \in WebStop \cup {"free"} => Settled(At(Cleanup))'
        BY <3>1, <4>1, <4>2 DEF Settled, This, WebStop
      <4>4. DescriptorFrame
        BY <3>1, <3>2, <4>1, <4>3 DEF DescriptorFrame
      <4>5. QED BY <1>2, <4>4, DescriptorFrameSuffices
    <3>4. CASE ~Delete(Cleanup)
      <4>1. pc'[Cleanup] \in WebStop \cup {"free"} => pc[Cleanup] \in WebStop \cup {"free"}
        BY <2>1, <2>3, <3>4, ActorsDistinct
           DEF QuietStep, Dies, Die, TestRunning, WaitFor, WaitTimeout, SignalNotify, Join,
               ShutdownVisit, Signal, Visit, Unlink, ShutdownNext, Clear, PushLinked, PushLost,
               PushUnlinkRace, Tick, vars, Head, Delete, HandshakeFail, ServeEnd, Goto, Notify, StepTo,
               Finished, WebStop
      <4>2. DescriptorFrame
        BY <3>1, <3>2, <4>1 DEF DescriptorFrame
      <4>3. QED BY <1>2, <4>2, DescriptorFrameSuffices
    <3>5. QED BY <3>3, <3>4
  <2>4. ASSUME NEW a \in Actors, StopStep(a), ~Dies PROVE DescriptorsClosed'
    <3>1. StopFields(a) /\ StopEffect(a)
      BY <2>4, StopIsTidy, StopIsBounded
    <3>2. closed \subseteq closed' /\ hit \subseteq hit'
      BY <3>1 DEF StopEffect
    <3>3. pc'[Cleanup] \in WebStop \cup {"free"} => pc[Cleanup] \in WebStop \cup {"free"}
      BY <3>1, ActorsDistinct DEF StopFields, StopEffect, Moves, WebStop
    <3>4. DescriptorFrame
      BY <3>1, <3>2, <3>3 DEF DescriptorFrame, StopFields
    <3>5. QED BY <1>2, <3>4, DescriptorFrameSuffices
  <2>5. CASE Close(Cleanup)
    <3>1. pc[Cleanup] = "close" /\ pc[Cleanup] \in DestroyPC
      BY <2>5 DEF Close, DestroyPC
    <3>2. /\ At(Cleanup) \in Slots /\ At(Cleanup)' = At(Cleanup)
          /\ obj' = [obj EXCEPT ![At(Cleanup)].ssl = IF This(Cleanup).srv THEN "null" ELSE @]
          /\ closed' = closed \cup ({This(Cleanup).fd} \ {None}) /\ hit' = hit
      BY <2>5, <3>1, PlaceStays, ActorsDistinct DEF Close
    <3>3. \A s \in Slots : /\ obj'[s].own = obj[s].own /\ obj'[s].web = obj[s].web
                           /\ obj'[s].fd = obj[s].fd
      BY <2>1, <3>2 DEF Object
    <3>4. Settled(At(Cleanup))'
      BY <3>2, <3>3 DEF Settled, This
    <3>5. DescriptorFrame
      BY <3>1, <3>2, <3>3, <3>4 DEF DescriptorFrame
    <3>6. QED BY <1>2, <3>5, DescriptorFrameSuffices
  <2>6. CASE Free(Cleanup)
    <3>1. pc[Cleanup] = "free" /\ pc[Cleanup] \in DestroyPC
      BY <2>6 DEF Free, DestroyPC
    <3>2. /\ At(Cleanup) \in Slots
          /\ obj' = [obj EXCEPT ![At(Cleanup)].own = None]
          /\ closed' = closed /\ hit' = hit
          /\ pc' = [pc EXCEPT ![Cleanup] = "unlink"]
      BY <2>6, <3>1, PlaceStays, ActorsDistinct DEF Free, Goto
    <3>3. \A s \in Slots : /\ obj'[s].web = obj[s].web /\ obj'[s].fd = obj[s].fd
                           /\ s # At(Cleanup) => obj'[s].own = obj[s].own
      BY <2>1, <3>2 DEF Object
    <3>4. Settled(At(Cleanup))
      BY <1>2, <3>1 DEF DescriptorsClosed
    <3>5. \A s \in Slots : obj'[s].own = None => Settled(s)'
      BY <1>2, <3>2, <3>3, <3>4 DEF DescriptorsClosed, Settled
    <3>6. pc'[Cleanup] \notin WebStop \cup {"free"}
      BY <2>1, <3>2, ActorsDistinct DEF WebStop
    <3>7. QED BY <3>5, <3>6 DEF DescriptorsClosed
  <2>7. ASSUME Close(Loop) \/ Free(Loop) PROVE FALSE
    BY <2>2, <2>7 DEF Close, Free, AcceptPC
  <2>8. ASSUME NEW s \in Slots, Accept(s) PROVE DescriptorsClosed'
    <3>1. /\ pc' = [pc EXCEPT ![Loop] = "assign", ![born + 1] = "start"]
          /\ obj' = [obj EXCEPT ![s] = Fresh(born + 1)] /\ born + 1 \in Conns \ Born
          /\ closed' = closed /\ hit' = hit /\ obj[s].own = None
      BY <2>8, MaxConnsAssumption DEF Accept, IInv, TypeOK, Conns, Born
    <3>2. pc'[Cleanup] = pc[Cleanup]
      BY <2>1, <3>1, ActorsDistinct
    <3>3. /\ obj'[s].own # None /\ obj'[s].fd = None /\ \A r \in Slots \ {s} : obj'[r] = obj[r]
      BY <2>1, <3>1, ActorsDistinct DEF Fresh
    <3>4. \A r \in Slots : Settled(r) => Settled(r)'
      BY <3>1, <3>3 DEF Settled
    <3>5. pc[Cleanup] \in WebStop \cup {"free"} => At(Cleanup) \in Slots /\ At(Cleanup)' = At(Cleanup)
      BY PlaceStays, ActorsDistinct DEF DestroyPC
    <3>6. \A r \in Slots : obj'[r].own = None => Settled(r)'
      BY <1>2, <3>3, <3>4 DEF DescriptorsClosed
    <3>7. pc'[Cleanup] \in WebStop \cup {"free"} => Settled(At(Cleanup))'
      BY <1>2, <3>2, <3>4, <3>5 DEF DescriptorsClosed, Settled
    <3>8. QED BY <3>6, <3>7 DEF DescriptorsClosed
  <2>9. ASSUME Assign \/ Detach, ~Dies PROVE DescriptorsClosed'
    <3>1. \E y \in {"joinable", "detached"} : obj' = [obj EXCEPT ![chunk[born]].td = y]
      BY <2>9 DEF Assign, Detach, Dies
    <3>2. closed' = closed /\ hit' = hit /\ pc'[Cleanup] = pc[Cleanup]
      BY <2>1, <2>9, ActorsDistinct DEF Assign, Detach, Goto, Dies
    <3>3. \A s \in Slots : /\ obj'[s].own = obj[s].own /\ obj'[s].web = obj[s].web
                           /\ obj'[s].fd = obj[s].fd
      BY <2>1, <3>1 DEF Object
    <3>4. DescriptorFrame
      BY <3>2, <3>3 DEF DescriptorFrame
    <3>5. QED BY <1>2, <3>4, DescriptorFrameSuffices
  <2>10. ASSUME NEW i \in Conns, WorkerInit(i) \/ HandshakeTunnel(i) \/ HandshakeWeb(i) \/ Serve(i)
         PROVE  DescriptorsClosed'
    <3>1. /\ pc[i] \in SessionPC /\ chunk[i] \in Slots /\ obj[chunk[i]] \in Object
          /\ closed' = closed /\ hit' = hit
      BY <2>1, <2>10 DEF WorkerInit, HandshakeTunnel, HandshakeWeb, Serve, SessionPC
    <3>2. pc'[Cleanup] = pc[Cleanup]
      BY <2>1, <2>10, ActorsDistinct DEF WorkerInit, HandshakeTunnel, HandshakeWeb, Serve, Goto
    <3>3. \A s \in Slots :
            /\ obj'[s].own = obj[s].own
            /\ \/ obj'[s].web = obj[s].web /\ obj'[s].fd = obj[s].fd
               \/ s = chunk[i] /\ obj'[s].web
               \/ s = chunk[i] /\ obj'[s].fd = i /\ obj'[s].web = obj[s].web
      BY <2>1, <2>10, <3>1 DEF WorkerInit, HandshakeTunnel, HandshakeWeb, Serve, Object
    <3>4. i \in hit \/ (Alive(i) /\ ~obj[chunk[i]].done)
      BY <1>2, <3>1 DEF IInv, Sessions
    <3>5. ASSUME NEW s \in Slots, Settled(s), s = chunk[i] => i \in hit PROVE Settled(s)'
      BY <3>1, <3>3, <3>5 DEF Settled
    <3>6. \A s \in Slots : obj'[s].own = None => Settled(s)'
      BY <1>2, <3>3, <3>4, <3>5, ActorsDistinct DEF DescriptorsClosed, Alive
    <3>7. ASSUME pc[Cleanup] \in WebStop \cup {"free"} PROVE Settled(At(Cleanup))'
      <4>1. At(Cleanup) \in Slots /\ At(Cleanup)' = At(Cleanup) /\ pc[Cleanup] \in DestroyPC
        BY <3>7, PlaceStays, ActorsDistinct DEF DestroyPC
      <4>2. This(Cleanup).done
        BY <1>2, <4>1 DEF IInv, Sessions
      <4>3. At(Cleanup) = chunk[i] => i \in hit
        BY <3>4, <4>2 DEF This
      <4>4. Settled(At(Cleanup))
        BY <1>2, <3>7 DEF DescriptorsClosed
      <4> DEFINE s == At(Cleanup)
      <4>5. s \in Slots /\ Settled(s) /\ (s = chunk[i] => i \in hit) /\ s' = s
        BY <4>1, <4>3, <4>4
      <4> HIDE DEF s
      <4>6. Settled(s)'
        BY <3>1, <3>3, <4>5 DEF Settled
      <4>7. QED BY <4>6 DEF s
    <3>8. QED BY <3>2, <3>6, <3>7 DEF DescriptorsClosed
  <2>11. CASE Dies
    BY <2>3, <2>11 DEF QuietStep
  <2>12. QED BY <2>3, <2>4, <2>5, <2>6, <2>7, <2>8, <2>9, <2>10, <2>11, StepKinds
<1>3. QED BY <1>0, <1>1, <1>2 DEF IInv, TypeOK

\* Until SIGINT, the chunk of a deleted tunnel holds no open descriptor, but for one
\* whose connection was struck by another one's late stop(): the descriptor is closed
\* by stop() of the web service or by the destructor, and no worker can store a new
\* one between close() and the release of the chunk unless its object has been taken
\* from it before it started.
THEOREM DescriptorsReleased == Spec => []TunnelDescriptorClosed
<1>1. Init => DescriptorsClosed
  BY ActorsDistinct DEF Init, Fresh, DescriptorsClosed, Settled, WebStop
<1>2. IInv /\ DescriptorsClosed /\ [Next]_vars => DescriptorsClosed'
  BY DescriptorSteps
<1>3. DescriptorsClosed => TunnelDescriptorClosed
  BY DEF DescriptorsClosed, TunnelDescriptorClosed, Settled
<1>4. QED BY <1>1, <1>2, <1>3, Invariant, PTL DEF Spec

-----------------------------------------------------------------------------
(* Objects *)

\* A step that moves neither owners nor nodes, and takes the shutdown loop past none.
ObjectFrame ==
  /\ UNCHANGED <<chunk, born, lost, linked>>
  /\ \A s \in Slots : obj'[s].own = obj[s].own
  /\ pc[Loop] \in AcceptPC => pc'[Loop] \in AcceptPC
  /\ \A i \in linked : Swept(i)' => Swept(i)
  /\ pc'[Cleanup] = "unlink" =>
       pc[Cleanup] = "unlink" /\ walk'[Cleanup].cur = walk[Cleanup].cur
  /\ pc'[Loop] \notin ShutdownPC \cup {"clear", "exit"} => walk'[Loop].list = FirstList

LEMMA ObjectFrameSuffices ==
  ASSUME IInv, NoneForgotten, ObjectFrame
  PROVE  NoneForgotten'
<1>1. \A i \in linked : chunk[i] \in Slots /\ (Alive(i)' <=> Alive(i))
  BY DEF ObjectFrame, IInv, TypeOK, Allocation, Born, Alive
<1>2. pc[Cleanup] = "unlink" => walk[Cleanup].cur \in linked
  BY DEF IInv, Traversal
<1>3. \A s \in Slots : obj'[s].own # None =>
        \/ obj'[s].own \in lost'
        \/ pc'[Loop] \in AcceptPC /\ obj'[s].own = born'
        \/ obj'[s].own \in linked'
  BY DEF ObjectFrame, NoneForgotten
<1>4. \A i \in linked' : Swept(i)' => ~Alive(i)'
  BY <1>1 DEF ObjectFrame, NoneForgotten
<1>5. pc'[Cleanup] = "unlink" => ~Alive(walk[Cleanup].cur)'
  <2> DEFINE c == walk[Cleanup].cur
  <2>1. ASSUME pc'[Cleanup] = "unlink" PROVE c \in linked /\ ~Alive(c) /\ c' = c
    BY <1>2, <2>1 DEF ObjectFrame, NoneForgotten
  <2> HIDE DEF c
  <2>2. pc'[Cleanup] = "unlink" => ~Alive(c)'
    BY <1>1, <2>1 DEF Alive
  <2>3. QED BY <2>2 DEF c
<1>6. QED BY <1>3, <1>4, <1>5 DEF NoneForgotten, ObjectFrame

\* A thread that stays on its object, or that is no traversal, leaves the swept part.
LEMMA SweptStays ==
  ASSUME IInv, NoneForgotten, SameLoop, SameList,
         \/ pc'[Loop] = pc[Loop]
         \/ pc[Loop] \in DestroyPC \cup {"visit"} /\ pc'[Loop] \in DestroyPC
         \/ pc[Loop] \in AcceptPC /\ pc'[Loop] \in AcceptPC
         \/ pc[Loop] \in {"idle", "notify"} /\ pc'[Loop] \in {"notify", "join"}
         \/ pc[Loop] = "join" /\ pc'[Loop] = "head",
         \A s \in Slots : obj'[s].own = obj[s].own,
         pc'[Cleanup] = "unlink" => pc[Cleanup] = "unlink"
  PROVE  NoneForgotten'
<1>1. linked \subseteq Conns /\ \A i \in linked : i \in Nat /\ Kind(i) \in Kinds
  BY ActorsDistinct, SlotsAssumption DEF IInv, TypeOK, Allocation, Born, Kind
<1>2. ASSUME NEW i \in linked, Swept(i)' PROVE Swept(i)
  <2>1. CASE pc[Loop] = "join" /\ pc'[Loop] = "head"
    <3>1. walk[Loop].list = FirstList /\ walk[Loop].cur = None
      BY <2>1 DEF NoneForgotten, IInv, Traversal, ShutdownPC, DestroyPC, TunStop, WebStop
    <3>2. ~(HasNextList(Kind(i)) /\ ~HasNextList(FirstList))
      BY <1>1 DEF Kinds, HasNextList, FirstList
    <3>3. QED BY <1>1, <1>2, <2>1, <3>1, <3>2, ActorsDistinct
              DEF Swept, Kind, SameLoop, SameList, None
  <2>2. CASE ~(pc[Loop] = "join" /\ pc'[Loop] = "head")
    BY <1>2, <2>2 DEF Swept, Kind, SameLoop, SameList, AcceptPC, ShutdownPC, DestroyPC, TunStop,
                      WebStop
  <2>3. QED BY <2>1, <2>2
<1>3. pc'[Loop] \notin ShutdownPC \cup {"clear", "exit"} => walk'[Loop].list = FirstList
  BY DEF NoneForgotten, SameList, AcceptPC, ShutdownPC, DestroyPC, TunStop, WebStop
<1>4. ObjectFrame
  BY <1>2, <1>3 DEF ObjectFrame, SameLoop, SameList, AcceptPC, DestroyPC, TunStop, WebStop
<1>5. QED BY <1>4, ObjectFrameSuffices

\* The shutdown loop goes on: it passes no node that it has not swept.
LEMMA LoopSkipsNone ==
  ASSUME IInv, NoneForgotten, pc[Loop] \in {"head", "next"}, NEW j \in Conns \cup {End},
         IsNext(walk[Loop].list, walk[Loop].cur, j), StepEffect(Loop, j), SameLoop,
         UNCHANGED <<obj, linked, lost>>
  PROVE  NoneForgotten'
<1>1. /\ linked \subseteq Conns /\ walk[Loop].cur \in Nat /\ walk[Loop].list \in Kinds /\ j \in Nat
      /\ \A i \in linked : i \in Nat /\ Kind(i) \in Kinds
      /\ walk'[Cleanup] = walk[Cleanup] /\ pc'[Cleanup] = pc[Cleanup]
  <2>1. None \in Nat /\ walk[Loop].cur \in Conns \cup {None} /\ walk[Loop].list \in Kinds
    BY DEF None, IInv, TypeOK
  <2>2. QED
    BY <2>1, ActorsDistinct, SlotsAssumption
       DEF StepEffect, IInv, TypeOK, Allocation, Born, Kind
<1>2. pc[Loop] = "next" => Kind(walk[Loop].cur) = walk[Loop].list
  BY DEF IInv, Traversal
<1>3. ASSUME NEW i \in linked, Kind(i) = walk[Loop].list, i <= walk[Loop].cur PROVE Swept(i)
  <2>1. walk[Loop].cur # None
    BY <1>1, <1>3, ActorsDistinct DEF None
  <2>2. pc[Loop] = "next"
    BY <2>1 DEF IInv, Traversal, DestroyPC, TunStop, WebStop
  <2>3. QED BY <1>1, <1>3, <2>2 DEF Swept, ShutdownPC
<1>4. ASSUME NEW i \in linked, Kind(i) = walk[Loop].list, i < j PROVE Swept(i)
  <2>1. ~(i > walk[Loop].cur)
    BY <1>1, <1>4, ActorsDistinct DEF IsNext, ListOf
  <2>2. QED BY <1>1, <1>3, <1>4, <2>1
<1>5. ASSUME NEW i \in linked, Swept(i)' PROVE Swept(i)
  <2>1. CASE j # End
    <3>1. pc'[Loop] = "visit" /\ walk'[Loop].cur = j /\ walk'[Loop].list = walk[Loop].list
      BY <2>1 DEF StepEffect
    <3>2. QED BY <1>4, <1>5, <3>1 DEF Swept, Kind, SameLoop, ShutdownPC
  <2>2. CASE j = End /\ walk[Loop].list = "socks5"
    <3>1. pc'[Loop] = "head" /\ walk'[Loop].cur = None /\ walk'[Loop].list = "websrv"
      BY <2>2 DEF StepEffect
    <3>2. Kind(i) = "socks5"
      BY <1>1, <1>5, <3>1, ActorsDistinct DEF Swept, Kind, SameLoop, None, HasNextList
    <3>3. QED BY <1>1, <1>4, <2>2, <3>2, ActorsDistinct
  <2>3. CASE j = End /\ walk[Loop].list # "socks5"
    <3>1. CASE Kind(i) = walk[Loop].list
      BY <1>1, <1>4, <2>3, <3>1, ActorsDistinct
    <3>2. CASE Kind(i) # walk[Loop].list
      BY <1>1, <2>3, <3>2 DEF Kinds, Swept, HasNextList, ShutdownPC
    <3>3. QED BY <3>1, <3>2
  <2>4. QED BY <2>1, <2>2, <2>3
<1>6. pc'[Loop] \in ShutdownPC \cup {"clear"}
  BY DEF StepEffect, Finished, ShutdownPC, Loop, Cleanup
<1>7. pc[Loop] \notin AcceptPC
  BY DEF AcceptPC
<1>8. ObjectFrame
  BY <1>1, <1>5, <1>6, <1>7 DEF ObjectFrame, SameLoop
<1>9. QED BY <1>8, ObjectFrameSuffices

LEMMA ForgottenByWalks ==
  ASSUME IInv, NoneForgotten,
         Visit \/ Unlink \/ ShutdownNext \/ Clear \/ \E a \in {Loop, Cleanup} : Head(a)
  PROVE  NoneForgotten'
<1>1. /\ pc \in [Actors -> WorkerPC \cup CleanupPC \cup LoopPC] /\ TypeOK /\ linked \subseteq Conns
      /\ walk \in [{Loop, Cleanup} -> [list : Kinds, cur : Conns \cup {None},
                                       nxt : Conns \cup {None, End}]]
  BY Typed DEF IInv
<1>2. CASE Head(Loop) \/ ShutdownNext
  <2>1. PICK j \in Conns \cup {End} :
           /\ pc[Loop] \in {"head", "next"}
           /\ IsNext(walk[Loop].list, walk[Loop].cur, j) /\ StepTo(Loop, j, Finished(Loop))
    BY <1>2 DEF Head, ShutdownNext, IInv, Traversal, DestroyPC, TunStop, WebStop
  <2>2. QED BY <1>1, <1>2, <2>1, StepToEffect, LoopSkipsNone DEF Head, ShutdownNext
\* While the cleanup thread traverses, nothing is swept.
<1>3. ASSUME pc[Cleanup] # "ended" PROVE pc[Loop] \notin ShutdownPC \cup {"clear", "exit"}
  BY <1>3 DEF IInv, Phases
<1>4. ASSUME pc[Cleanup] # "ended", walk'[Loop] = walk[Loop], pc'[Loop] = pc[Loop],
             SameLoop, UNCHANGED <<obj, lost, linked>>, pc'[Cleanup] # "unlink"
      PROVE  NoneForgotten'
  <2>1. ObjectFrame
    BY <1>3, <1>4 DEF ObjectFrame, Swept, SameLoop, NoneForgotten
  <2>2. QED BY <2>1, ObjectFrameSuffices
<1>5. CASE Head(Cleanup) \/ Visit
  <2>1. /\ pc[Cleanup] # "ended" /\ walk'[Loop] = walk[Loop] /\ pc'[Loop] = pc[Loop]
        /\ SameLoop /\ UNCHANGED <<obj, lost, linked>> /\ pc'[Cleanup] # "unlink"
    BY <1>1, <1>5, ActorsDistinct DEF Head, Visit, StepTo, Goto, Finished
  <2>2. QED BY <1>4, <2>1
<1>6. CASE Unlink
  <2> DEFINE c == walk[Cleanup].cur
  <2>1. /\ pc[Cleanup] = "unlink" /\ linked' = linked \ {c} /\ walk'[Loop] = walk[Loop]
        /\ pc'[Loop] = pc[Loop] /\ SameLoop /\ UNCHANGED <<obj, lost>> /\ pc'[Cleanup] # "unlink"
    BY <1>1, <1>6, ActorsDistinct DEF Unlink, StepTo, Goto, Finished
  <2>2. pc[Loop] \notin ShutdownPC \cup {"clear", "exit"} /\ c \in linked /\ ~Alive(c)
    BY <1>3, <2>1 DEF NoneForgotten, IInv, Traversal
  <2>3. \A s \in Slots : obj[s].own # c
    <3>1. ASSUME NEW s \in Slots, obj[s].own = c PROVE FALSE
      <4>1. c \in Conns /\ chunk[c] = s
        BY <1>1, <2>2, <3>1, ActorsDistinct DEF IInv, Allocation
      <4>2. QED BY <2>2, <3>1, <4>1 DEF Alive
    <3>2. QED BY <3>1
  <2>4. \A i \in linked' : ~Swept(i)'
    BY <2>1, <2>2 DEF Swept, ShutdownPC
  <2>5. QED BY <2>1, <2>2, <2>3, <2>4 DEF NoneForgotten, SameLoop
<1>7. CASE Clear
  <2>1. /\ pc[Loop] = "clear" /\ pc'[Loop] = "exit" /\ linked' = {} /\ UNCHANGED <<obj, lost>>
        /\ pc'[Cleanup] = pc[Cleanup] /\ SameLoop
    BY <1>1, <1>7, ActorsDistinct DEF Clear, Goto
  <2>2. pc[Cleanup] = "ended" /\ \A i \in linked : ~Alive(i)
    BY <2>1 DEF NoneForgotten, Swept, IInv, Phases
  <2>3. \A s \in Slots : obj[s].own # None => obj[s].own \in lost
    <3>1. ASSUME NEW s \in Slots, obj[s].own # None, obj[s].own \in linked PROVE FALSE
      BY <2>2, <3>1 DEF IInv, Allocation, Alive
    <3>2. QED BY <2>1, <3>1 DEF NoneForgotten, AcceptPC
  <2>4. QED BY <2>1, <2>2, <2>3 DEF NoneForgotten
<1>8. QED BY <1>2, <1>5, <1>6, <1>7, ActorsDistinct

LEMMA ForgottenByPushes ==
  ASSUME IInv, NoneForgotten, PushLinked \/ PushLost \/ PushUnlinkRace
  PROVE  NoneForgotten'
<1> DEFINE c == walk[Cleanup].cur
<1>1. /\ pc \in [Actors -> WorkerPC \cup CleanupPC \cup LoopPC]
      /\ walk \in [{Loop, Cleanup} -> [list : Kinds, cur : Conns \cup {None},
                                       nxt : Conns \cup {None, End}]]
  BY Typed
<1>2. /\ pc[Loop] = "push" /\ pc'[Loop] = "idle" /\ SameLoop /\ obj' = obj
      /\ walk'[Loop] = walk[Loop]
      /\ \/ linked' = linked \cup {born} /\ lost' = lost /\ pc'[Cleanup] = pc[Cleanup] /\ walk' = walk
         \/ linked' = linked /\ lost' = lost \cup {born} /\ pc'[Cleanup] = pc[Cleanup] /\ walk' = walk
         \/ /\ linked' = linked \ {c} /\ lost' = lost \cup {born}
            /\ pc[Cleanup] = "unlink" /\ pc'[Cleanup] # "unlink"
  BY <1>1, ActorsDistinct DEF PushLinked, PushLost, PushUnlinkRace, Racing, Goto
<1>3. walk[Loop].list = FirstList
  BY <1>2 DEF NoneForgotten, ShutdownPC, DestroyPC, TunStop, WebStop
<1>4. \A i : ~Swept(i)'
  BY <1>2 DEF Swept, ShutdownPC, DestroyPC, TunStop, WebStop
<1>5. pc[Cleanup] = "unlink" => c \in linked /\ ~Alive(c) /\ c \in Conns
  BY Typed DEF NoneForgotten, IInv, Traversal
<1>6. pc[Cleanup] = "unlink" => \A s \in Slots : obj[s].own # c
  <2>1. ASSUME NEW s \in Slots, obj[s].own = c, pc[Cleanup] = "unlink" PROVE FALSE
    <3>1. c \in Conns /\ chunk[c] = s
      BY <1>5, <2>1, ActorsDistinct DEF IInv, Allocation
    <3>2. QED BY <1>5, <2>1, <3>1 DEF Alive
  <2>2. QED BY <2>1
<1>7. \A s \in Slots : obj[s].own # None =>
        obj[s].own \in lost \/ obj[s].own = born \/ obj[s].own \in linked
  BY DEF NoneForgotten
<1>8. \A s \in Slots : obj'[s].own # None => obj'[s].own \in lost' \/ obj'[s].own \in linked'
  BY <1>2, <1>6, <1>7
<1>9. pc'[Cleanup] = "unlink" => ~Alive(walk[Cleanup].cur)'
  BY <1>2, <1>5 DEF Alive, SameLoop
<1>10. QED BY <1>2, <1>3, <1>4, <1>8, <1>9 DEF NoneForgotten

LEMMA ForgottenByFree ==
  ASSUME IInv, NoneForgotten, [Next]_vars, NEW a \in {Loop, Cleanup}, Free(a)
  PROVE  NoneForgotten'
<1> DEFINE c == walk[a].cur
<1>1. /\ pc \in [Actors -> WorkerPC \cup CleanupPC \cup LoopPC] /\ obj \in [Slots -> Object]
      /\ a \in Actors /\ a \notin Conns /\ linked \subseteq Conns
  BY Typed, ActorsDistinct
<1>2. /\ pc[a] = "free" /\ pc[a] \in DestroyPC /\ SameLoop /\ SameList
      /\ obj' = [obj EXCEPT ![At(a)].own = None]
      /\ pc' = [pc EXCEPT ![a] = IF a = Cleanup THEN "unlink" ELSE "next"]
  BY DEF Free, Goto, DestroyPC
<1>3. At(a) \in Slots /\ At(a) = chunk[c] /\ c \in linked /\ c \in Conns /\ Alive(c)
  BY <1>1, <1>2, PlaceStays DEF At, IInv, Traversal
<1>4. obj'[At(a)].own = None /\ \A s \in Slots \ {At(a)} : obj'[s] = obj[s]
  BY <1>1, <1>2, <1>3 DEF Object
<1>5. ~Alive(c)' /\ \A i \in linked : ~Alive(i) => ~Alive(i)'
  <2>1. \A i \in linked : chunk[i] \in Slots
    BY DEF IInv, TypeOK, Allocation, Born
  <2>2. QED BY <1>1, <1>2, <1>3, <1>4, <2>1, ActorsDistinct DEF Alive, SameLoop, SameList
<1>6. ASSUME NEW i \in linked, Swept(i)' PROVE ~Alive(i)'
  <2>1. CASE i = c
    BY <1>2, <1>5, <2>1 DEF Alive, SameList
  <2>2. CASE i # c
    <3>1. Swept(i)
      <4>1. CASE a = Loop
        BY <1>1, <1>2, <1>6, <2>2, <4>1
           DEF Swept, Kind, SameLoop, SameList, ShutdownPC, DestroyPC, TunStop, WebStop
      <4>2. CASE a = Cleanup
        BY <1>1, <1>2, <1>6, <4>2, ActorsDistinct DEF Swept, Kind, SameLoop, SameList
      <4>3. QED BY <4>1, <4>2
    <3>2. QED BY <1>5, <3>1 DEF NoneForgotten
  <2>3. QED BY <2>1, <2>2
<1>7. pc'[Cleanup] = "unlink" => ~Alive(walk[Cleanup].cur)'
  <2>1. CASE a = Cleanup
    BY <1>2, <1>5, <2>1 DEF SameList, Alive
  <2>2. CASE a = Loop
    <3>1. pc[Cleanup] = "ended" /\ pc'[Cleanup] = "ended"
      BY <1>1, <1>2, <2>2, ActorsDistinct DEF IInv, Phases, ShutdownPC
    <3>2. QED BY <3>1
  <2>3. QED BY <2>1, <2>2
<1>8. /\ pc[Loop] \in AcceptPC => pc'[Loop] \in AcceptPC
      /\ pc'[Loop] \notin ShutdownPC \cup {"clear", "exit"} => walk'[Loop].list = FirstList
  BY <1>1, <1>2, ActorsDistinct
     DEF NoneForgotten, AcceptPC, ShutdownPC, DestroyPC, TunStop, WebStop, SameList
<1>9. \A s \in Slots : obj'[s].own # None =>
        \/ obj'[s].own \in lost'
        \/ pc'[Loop] \in AcceptPC /\ obj'[s].own = born'
        \/ obj'[s].own \in linked'
  BY <1>2, <1>3, <1>4, <1>8 DEF NoneForgotten, SameLoop, SameList
<1>10. \A i \in linked' : Swept(i)' => ~Alive(i)'
  BY <1>2, <1>6 DEF SameList
<1>11. QED BY <1>7, <1>8, <1>9, <1>10 DEF NoneForgotten

LEMMA ForgottenSteps ==
  ASSUME IInv, NoneForgotten, [Next]_vars
  PROVE  NoneForgotten'
<1>1. /\ pc \in [Actors -> WorkerPC \cup CleanupPC \cup LoopPC] /\ obj \in [Slots -> Object]
      /\ \A i \in Conns : pc[i] # "unborn" => chunk[i] \in Slots
  BY Typed DEF IInv, Allocation
<1>2. ASSUME TestRunning \/ WaitFor \/ WaitTimeout \/ SignalNotify \/ Join \/ ShutdownVisit
               \/ \E i \in Conns : HandshakeFail(i) \/ ServeEnd(i)
      PROVE  NoneForgotten'
  <2>1. SameLoop /\ SameList /\ obj' = obj
    BY <1>2 DEF TestRunning, WaitFor, WaitTimeout, SignalNotify, Join, ShutdownVisit, HandshakeFail,
                ServeEnd
  <2>2. /\ \/ pc'[Loop] = pc[Loop]
           \/ pc[Loop] = "visit" /\ pc'[Loop] = "delete"
           \/ pc[Loop] = "notify" /\ pc'[Loop] = "join"
           \/ pc[Loop] = "join" /\ pc'[Loop] = "head"
        /\ pc'[Cleanup] = "unlink" => pc[Cleanup] = "unlink"
    BY <1>1, <1>2, ActorsDistinct
       DEF TestRunning, WaitFor, WaitTimeout, SignalNotify, Join, ShutdownVisit, HandshakeFail,
           ServeEnd, Goto, Notify
  <2>3. QED BY <2>1, <2>2, SweptStays DEF DestroyPC
<1>3. ASSUME NEW a \in {Loop, Cleanup}, Delete(a) \/ Close(a) PROVE NoneForgotten'
  <2>1. /\ SameLoop /\ SameList /\ pc[a] \in DestroyPC /\ a \in Actors
        /\ \E l \in DestroyPC : pc' = [pc EXCEPT ![a] = l]
    BY <1>3, ActorsDistinct DEF Delete, Close, Goto, DestroyPC, TunStop, WebStop
  <2>2. \A s \in Slots : obj'[s].own = obj[s].own
    BY <1>1, <1>3, <2>1, PlaceStays DEF Delete, Close, Object
  <2>3. /\ pc'[Loop] = pc[Loop] \/ (pc[Loop] \in DestroyPC /\ pc'[Loop] \in DestroyPC)
        /\ pc'[Cleanup] = "unlink" => pc[Cleanup] = "unlink"
    BY <1>1, <2>1, ActorsDistinct DEF DestroyPC, TunStop, WebStop
  <2>4. QED BY <2>1, <2>2, <2>3, SweptStays
<1>4. CASE Signal
  <2>1. /\ pc[Loop] = "idle" /\ pc'[Loop] = "notify" /\ pc'[Cleanup] = pc[Cleanup] /\ obj' = obj
        /\ SameList /\ UNCHANGED <<born, chunk>>
    BY <1>1, <1>4, ActorsDistinct DEF Signal, Goto
  <2>2. ObjectFrame
    BY <2>1 DEF ObjectFrame, SameList, Swept, AcceptPC, ShutdownPC, DestroyPC, TunStop, WebStop,
                NoneForgotten
  <2>3. QED BY <2>2, ObjectFrameSuffices
<1>5. CASE Tick \/ (UNCHANGED vars) \/ Dies
  <2>1. UNCHANGED <<born, chunk, obj, linked, lost, pc, walk>>
    BY <1>5 DEF Tick, vars, Dies, Die
  <2>2. ObjectFrame
    BY <2>1 DEF ObjectFrame, Swept, Kind, NoneForgotten
  <2>3. QED BY <2>2, ObjectFrameSuffices
<1>6. CASE QuietStep
  BY <1>2, <1>3, <1>4, <1>5, <1>6, ForgottenByWalks, ForgottenByPushes DEF QuietStep
<1>7. ASSUME NEW a \in Actors, StopStep(a), ~Dies PROVE NoneForgotten'
  <2>1. StopEffect(a) /\ pc[a] \in StopPC
    BY <1>7, StopIsBounded, StopLocation
  <2>2. /\ pc'[Loop] = pc[Loop] \/ (pc[Loop] \in DestroyPC /\ pc'[Loop] \in DestroyPC)
        /\ pc'[Cleanup] = "unlink" => pc[Cleanup] = "unlink"
    BY <2>1, ActorsDistinct DEF StopEffect, Moves, StopExit, StopPC, DestroyPC, TunStop, WebStop
  <2>3. QED BY <2>1, <2>2, SweptStays DEF StopEffect
<1>8. ASSUME NEW s \in Slots, Accept(s) PROVE NoneForgotten'
  <2>1. /\ pc' = [pc EXCEPT ![Loop] = "assign", ![born + 1] = "start"] /\ pc[Loop] = "idle"
        /\ obj' = [obj EXCEPT ![s] = Fresh(born + 1)] /\ born + 1 \in Conns \ Born
        /\ obj[s].own = None /\ born' = born + 1 /\ chunk' = [chunk EXCEPT ![born + 1] = s]
        /\ UNCHANGED <<linked, lost, walk>>
    BY <1>8, MaxConnsAssumption DEF Accept, IInv, TypeOK, Conns, Born
  <2>2. pc'[Cleanup] = pc[Cleanup] /\ pc'[Loop] = "assign"
    BY <1>1, <2>1, ActorsDistinct
  <2>3. obj'[s].own = born' /\ \A r \in Slots \ {s} : obj'[r] = obj[r]
    BY <1>1, <2>1 DEF Fresh
  <2>4. pc[Loop] \notin ShutdownPC \cup {"clear", "exit"}
    BY <2>1 DEF IInv, Phases, ShutdownPC, DestroyPC, TunStop, WebStop
  <2>5. \A i : ~Swept(i)'
    BY <2>2 DEF Swept, ShutdownPC, DestroyPC, TunStop, WebStop
  <2>6. pc'[Cleanup] = "unlink" => ~Alive(walk[Cleanup].cur)'
    <3> DEFINE c == walk[Cleanup].cur
    <3>1. ASSUME pc[Cleanup] = "unlink" PROVE c \in Born /\ c \in Conns /\ ~Alive(c)
      BY <3>1, Typed DEF IInv, Traversal, Allocation, NoneForgotten
    <3>2. ASSUME pc[Cleanup] = "unlink" PROVE chunk'[c] = chunk[c] /\ chunk[c] \in Slots /\ c # born'
      BY <2>1, <3>1, <3>2, Typed DEF IInv, Allocation
    <3> HIDE DEF c
    <3>3. ASSUME pc[Cleanup] = "unlink" PROVE obj'[chunk'[c]].own # c
      BY <2>3, <3>1, <3>2, <3>3 DEF Alive
    <3>4. QED BY <2>1, <2>2, <3>3 DEF c, Alive
  <2>7. \A r \in Slots : obj'[r].own # None =>
          \/ obj'[r].own \in lost' \/ obj'[r].own = born' \/ obj'[r].own \in linked'
    BY <2>1, <2>3 DEF NoneForgotten, AcceptPC
  <2>8. QED BY <2>2, <2>5, <2>6, <2>7, <2>1, <2>4 DEF NoneForgotten, AcceptPC
<1>9. ASSUME Assign \/ Detach, ~Dies PROVE NoneForgotten'
  <2>1. /\ SameLoop /\ SameList /\ pc[Loop] \in AcceptPC /\ pc'[Loop] \in AcceptPC
        /\ pc'[Cleanup] = pc[Cleanup]
        /\ \E y \in {"joinable", "detached"} : obj' = [obj EXCEPT ![chunk[born]].td = y]
    BY <1>1, <1>9, ActorsDistinct DEF Assign, Detach, Goto, Dies, AcceptPC
  <2>2. \A s \in Slots : obj'[s].own = obj[s].own
    BY <1>1, <2>1 DEF Object
  <2>3. QED BY <2>1, <2>2, SweptStays
<1>10. ASSUME NEW i \in Conns, WorkerInit(i) \/ HandshakeTunnel(i) \/ HandshakeWeb(i) \/ Serve(i)
       PROVE  NoneForgotten'
  <2>1. SameLoop /\ SameList /\ chunk[i] \in Slots
    BY <1>1, <1>10 DEF WorkerInit, HandshakeTunnel, HandshakeWeb, Serve
  <2>2. pc'[Loop] = pc[Loop] /\ pc'[Cleanup] = pc[Cleanup]
    BY <1>1, <1>10, ActorsDistinct DEF WorkerInit, HandshakeTunnel, HandshakeWeb, Serve, Goto
  <2>3. \A s \in Slots : obj'[s].own = obj[s].own
    BY <1>1, <1>10, <2>1 DEF WorkerInit, HandshakeTunnel, HandshakeWeb, Serve, Object
  <2>4. QED BY <2>1, <2>2, <2>3, SweptStays
<1>11. QED
  BY <1>3, <1>5, <1>6, <1>7, <1>8, <1>9, <1>10, StepKinds, ForgottenByFree

\* When SIGINT has ended the process, every object that is left is one whose list node
\* a push_back() racing the cleanup thread's removal has lost: no node is dropped with
\* its object still alive, and the delete loops of stop_server() and stop_client() pass
\* over none.
THEOREM ExitDeletesAll == Spec => []ExitLeaksOnlyLost
<1>1. Init => NoneForgotten
  BY ActorsDistinct
     DEF Init, Fresh, AtHead, NoneForgotten, AcceptPC, ShutdownPC, DestroyPC, TunStop, WebStop
<1>2. IInv /\ NoneForgotten /\ [Next]_vars => NoneForgotten'
  BY ForgottenSteps
<1>3. IInv /\ NoneForgotten => ExitLeaksOnlyLost
  <2> SUFFICES ASSUME IInv, NoneForgotten, pc[Loop] = "exit", NEW s \in Slots,
                      obj[s].own # None, obj[s].own \notin lost
               PROVE  FALSE
    BY DEF ExitLeaksOnlyLost
  <2>1. obj[s].own \in linked
    BY DEF NoneForgotten, AcceptPC
  <2>2. ~Alive(obj[s].own)
    BY <2>1 DEF NoneForgotten, Swept
  <2>3. QED BY <2>2 DEF IInv, Allocation, Alive
<1>4. QED BY <1>1, <1>2, <1>3, Invariant, PTL DEF Spec

-----------------------------------------------------------------------------
(* Joinable threads *)

\* No thread becomes joinable, and the object being accepted stays as it is.
JoinFrame ==
  /\ \A s \in Slots : obj'[s].td = "joinable" => obj[s].td = "joinable"
  /\ pc[Loop] = "detach" => pc'[Loop] = "detach" /\ born' = born /\ chunk' = chunk

LEMMA JoinFrameSuffices ==
  ASSUME JoinableInAccept, JoinFrame
  PROVE  JoinableInAccept'
BY DEF JoinableInAccept, JoinFrame

\* stop() makes no thread joinable.
LEMMA StopJoinsNone ==
  ASSUME IInv, NEW a \in Actors, StopStep(a)
  PROVE  JoinFrame
<1>1. /\ pc[a] \in StopPC /\ pc[a] \in DestroyPC
  BY StopLocation DEF StopPC, DestroyPC
<1>2. At(a) \in Slots /\ obj \in [Slots -> Object]
  BY <1>1, AtSlot, Typed DEF DestroyPC, StopPC, TunStop, WebStop
<1>3. pc[Loop] = "detach" => pc'[Loop] = "detach" /\ born' = born /\ chunk' = chunk
  <2>1. CASE StopEffect(a)
    BY <1>1, <2>1, ActorsDistinct DEF StopEffect, Moves, SameLoop, StopPC, TunStop, WebStop
  <2>2. CASE Dies
    BY <2>2 DEF Dies, Die
  <2>3. QED BY <2>1, <2>2, StopIsBounded
<1>4. \/ obj' = obj
      \/ obj' = [obj EXCEPT ![At(a)].done = TRUE] \/ obj' = [obj EXCEPT ![At(a)].srun = FALSE]
      \/ obj' = [obj EXCEPT ![At(a)].wrun = FALSE] \/ obj' = [obj EXCEPT ![At(a)].fd = None]
      \/ \E v \in {"null", "freed"} : obj' = [obj EXCEPT ![At(a)].td = v]
      \/ \E v \in {"null", "freed"} : obj' = [obj EXCEPT ![At(a)].ssl = v]
  <2>1. CASE TunTest(a) \/ TunRun(a) \/ TunNotify(a) \/ TunThread(a) \/ TunNull(a)
    BY <2>1 DEF TunTest, TunRun, TunNotify, TunThread, TunNull, DeleteThread, Die
  <2>2. CASE WebTest(a) \/ WebRun(a) \/ WebSsl(a) \/ WebSslNull(a) \/ WebFd(a)
    BY <2>2 DEF WebTest, WebRun, WebSsl, WebSslNull, WebFd, Die
  <2>3. CASE WebNotify(a) \/ WebThread(a) \/ WebNull(a)
    BY <2>3 DEF WebNotify, WebThread, WebNull, DeleteThread, Die
  <2>4. QED BY <2>1, <2>2, <2>3 DEF StopStep
<1>5. \A s \in Slots : obj'[s].td = "joinable" => obj[s].td = "joinable"
  <2> SUFFICES ASSUME NEW s \in Slots PROVE obj'[s].td = "joinable" => obj[s].td = "joinable"
    OBVIOUS
  <2>1. CASE s # At(a)
    BY <1>2, <1>4, <2>1, FieldWritten
  <2>2. CASE s = At(a)
    BY <1>2, <1>4, <2>2, FieldWritten DEF Object
  <2>3. QED BY <2>1, <2>2
<1>6. QED BY <1>3, <1>5 DEF JoinFrame

LEMMA JoinableSteps ==
  ASSUME IInv, JoinableInAccept, [Next]_vars
  PROVE  JoinableInAccept'
<1>1. /\ pc \in [Actors -> WorkerPC \cup CleanupPC \cup LoopPC] /\ obj \in [Slots -> Object]
      /\ \A i \in Conns : pc[i] # "unborn" => chunk[i] \in Slots
  BY Typed DEF IInv, Allocation
<1>2. CASE QuietStep
  <2>1. obj' = obj
    BY <1>2, QuietStepFrame
  <2>2. pc[Loop] = "detach" => pc'[Loop] = "detach" /\ born' = born /\ chunk' = chunk
    <3>1. CASE \E a \in {Loop, Cleanup} : Head(a) \/ Delete(a)
      <4>1. PICK a \in {Loop, Cleanup} : Head(a) \/ Delete(a)
        BY <3>1
      <4>2. (\E x : pc' = [pc EXCEPT ![a] = x]) /\ pc[a] # "detach" /\ SameLoop
        BY <4>1 DEF Head, Delete, StepTo, Goto
      <4>3. QED BY <1>1, <4>2, ActorsDistinct DEF SameLoop
    <3>2. CASE \E i \in Conns : HandshakeFail(i) \/ ServeEnd(i)
      BY <1>1, <3>2, ActorsDistinct DEF HandshakeFail, ServeEnd, Goto, SameLoop
    <3>3. CASE TestRunning \/ WaitFor \/ WaitTimeout \/ SignalNotify \/ Join \/ ShutdownVisit \/ Signal
      BY <1>1, <3>3, ActorsDistinct
         DEF TestRunning, WaitFor, WaitTimeout, SignalNotify, Join, ShutdownVisit, Signal, Goto,
             Notify, SameLoop
    <3>4. CASE Visit \/ Unlink \/ ShutdownNext \/ Clear \/ PushLinked \/ PushLost \/ PushUnlinkRace
      <4>1. CASE Visit \/ Unlink
        <5>1. (\E x : pc' = [pc EXCEPT ![Cleanup] = x]) /\ SameLoop
          BY <4>1 DEF Visit, Unlink, StepTo, Goto
        <5>2. QED BY <1>1, <5>1, ActorsDistinct DEF SameLoop
      <4>2. CASE ShutdownNext \/ Clear \/ PushLinked \/ PushLost \/ PushUnlinkRace
        BY <4>2 DEF ShutdownNext, Clear, PushLinked, PushLost, PushUnlinkRace
      <4>3. QED BY <3>4, <4>1, <4>2
    <3>5. CASE Tick \/ (UNCHANGED vars) \/ Dies
      BY <3>5 DEF Tick, vars, Dies, Die
    <3>6. QED BY <1>2, <3>1, <3>2, <3>3, <3>4, <3>5 DEF QuietStep
  <2>3. QED BY <2>1, <2>2, JoinFrameSuffices DEF JoinFrame
<1>3. ASSUME NEW a \in Actors, StopStep(a) PROVE JoinableInAccept'
  BY <1>3, StopJoinsNone, JoinFrameSuffices
<1>4. ASSUME NEW a \in {Loop, Cleanup}, Close(a) \/ Free(a) PROVE JoinableInAccept'
  <2>1. a \in Actors /\ pc[a] \in DestroyPC
    BY <1>4, ActorsDistinct DEF Close, Free, DestroyPC
  <2>2. At(a) \in Slots /\ This(a) \in Object
    BY <2>1, PlaceStays
  <2>3. \A s \in Slots : obj'[s].td = obj[s].td
    BY <1>1, <1>4, <2>2, FieldWritten DEF Close, Free, Object, This
  <2>4. pc[Loop] = "detach" => pc'[Loop] = "detach" /\ born' = born /\ chunk' = chunk
    BY <1>1, <1>4, ActorsDistinct DEF Close, Free, Goto, SameLoop
  <2>5. QED BY <2>3, <2>4, JoinFrameSuffices DEF JoinFrame
<1>5. ASSUME NEW s \in Slots, Accept(s) PROVE JoinableInAccept'
  <2>1. pc[Loop] = "idle" /\ obj' = [obj EXCEPT ![s] = Fresh(born + 1)]
    BY <1>5 DEF Accept
  <2>2. \A r \in Slots : obj[r].td # "joinable"
    BY <2>1 DEF JoinableInAccept
  <2>3. \A r \in Slots : obj'[r].td # "joinable"
    BY <1>1, <2>1, <2>2 DEF Fresh
  <2>4. QED BY <2>3 DEF JoinableInAccept
<1>6. CASE Assign
  <2>1. /\ pc[Loop] = "assign" /\ pc' = [pc EXCEPT ![Loop] = "detach"]
        /\ obj' = [obj EXCEPT ![chunk[born]].td = "joinable"] /\ born' = born /\ chunk' = chunk
    BY <1>6 DEF Assign, Goto, SameLoop
  <2>2. \A r \in Slots : obj[r].td # "joinable"
    BY <2>1 DEF JoinableInAccept
  <2>3. \A r \in Slots : r # chunk[born] => obj'[r] = obj[r]
    BY <1>1, <2>1
  <2>4. pc'[Loop] = "detach"
    BY <1>1, <2>1, ActorsDistinct
  <2>5. QED BY <2>1, <2>2, <2>3, <2>4 DEF JoinableInAccept
<1>7. CASE Detach
  <2>1. CASE Dies
    BY <1>2, <2>1 DEF QuietStep
  <2>2. CASE ~Dies
    <3>1. pc[Loop] = "detach" /\ obj' = [obj EXCEPT ![chunk[born]].td = "detached"]
      BY <1>7, <2>2 DEF Detach, Dies
    <3>2. chunk[born] \in Slots
      <4>1. born \in Conns /\ born \in Nat
        BY <3>1, ActorsDistinct DEF IInv, Allocation, AcceptPC
      <4>2. QED BY <4>1 DEF IInv, Allocation, Born
    <3>3. \A r \in Slots : obj'[r].td # "joinable"
      BY <1>1, <3>1, <3>2, FieldWritten DEF JoinableInAccept, Object
    <3>4. QED BY <3>3 DEF JoinableInAccept
  <2>3. QED BY <2>1, <2>2
<1>8. ASSUME NEW i \in Conns, WorkerInit(i) \/ HandshakeTunnel(i) \/ HandshakeWeb(i) \/ Serve(i)
      PROVE  JoinableInAccept'
  <2>1. chunk[i] \in Slots /\ obj[chunk[i]] \in Object
    BY <1>1, <1>8 DEF WorkerInit, HandshakeTunnel, HandshakeWeb, Serve
  <2>2. \A r \in Slots : obj'[r].td = obj[r].td
    BY <1>1, <1>8, <2>1 DEF WorkerInit, HandshakeTunnel, HandshakeWeb, Serve, Object
  <2>3. pc[Loop] = "detach" => pc'[Loop] = "detach" /\ born' = born /\ chunk' = chunk
    BY <1>1, <1>8, ActorsDistinct DEF WorkerInit, HandshakeTunnel, HandshakeWeb, Serve, Goto, SameLoop
  <2>4. QED BY <2>2, <2>3, JoinFrameSuffices DEF JoinFrame
<1>9. QED BY <1>2, <1>3, <1>4, <1>5, <1>6, <1>7, <1>8, StepKinds

\* Only stop() can end the process so, and only in the object being accepted.
LEMMA TerminateSteps ==
  ASSUME IInv, JoinableInAccept, TerminateBeforeDetach, [Next]_vars
  PROVE  TerminateBeforeDetach'
<1>1. CASE UNCHANGED vars
  BY <1>1 DEF vars, TerminateBeforeDetach
<1>2. CASE fault' # "terminate"
  BY <1>2 DEF TerminateBeforeDetach
<1>3. CASE fault = "none" /\ fault' = "terminate" /\ Next
  <2>1. \E a \in Actors : StopStep(a)
    BY <1>3, ActorsDistinct
       DEF Next, Accept, Signal, Tick, Terminated, vars, LoopStep, CleanupStep, Worker, Assign,
           Detach, PushLinked, PushLost, PushUnlinkRace, PushCrash, SignalNotify, Join, Head,
           ShutdownVisit, ShutdownNext, Clear, DestroyStep, Delete, Close, Free, TestRunning,
           WaitFor, WaitTimeout, Visit, Unlink, WorkerInit, HandshakeTunnel, HandshakeWeb,
           HandshakeFail, Serve, ServeEnd, UseAfterFree, Die
  <2>2. PICK a \in Actors : StopStep(a)
    BY <2>1
  <2>3. pc[a] \in {"t_td", "w_td"} /\ This(a).td = "joinable" /\ Die("terminate")
    BY <1>3, <2>2
       DEF StopStep, TunTest, TunRun, TunNotify, TunThread, TunNull, WebTest, WebRun, WebSsl,
           WebSslNull, WebFd, WebNotify, WebThread, WebNull, DeleteThread, Die
  <2>4. At(a) \in Slots
    BY <2>3, AtSlot DEF DestroyPC, TunStop, WebStop
  <2>5. pc[Loop] = "detach" /\ At(a) = chunk[born]
    BY <2>3, <2>4 DEF JoinableInAccept, This
  <2>6. a \in Conns
    <3>1. a # Loop
      BY <2>3, <2>5
    <3>2. a # Cleanup
      <4>1. born \notin linked /\ Alive(born)
        BY <2>5 DEF IInv, Allocation, AcceptPC
      <4>2. a = Cleanup => walk[a].cur \in linked /\ Alive(walk[a].cur) /\ At(a) = chunk[walk[a].cur]
        BY <2>3, ActorsDistinct DEF IInv, Traversal, DestroyPC, TunStop, WebStop, At
      <4>3. QED BY <2>5, <4>1, <4>2 DEF Alive
    <3>3. QED BY <3>1, <3>2 DEF Actors
  <2>7. pc' = pc /\ chunk' = chunk /\ born' = born
    BY <2>3 DEF Die
  <2>8. QED BY <2>3, <2>5, <2>6, <2>7 DEF TerminateBeforeDetach, At
<1>4. CASE fault # "none" /\ Next
  BY <1>1, <1>4 DEF Next, Up, Terminated
<1>5. CASE fault = "none" /\ fault' = "terminate" /\ ~Next
  BY <1>1, <1>5
<1>6. QED BY <1>1, <1>2, <1>3, <1>4

\* std::terminate ends the process only between the creation of a worker's thread and
\* its detach(): a worker deletes that thread first, its own or that of a connection
\* whose object was put into the chunk it still works on.
THEOREM TerminateNeedsRace == Spec => []TerminateBeforeDetach
<1>1. Init => JoinableInAccept /\ TerminateBeforeDetach
  BY DEF Init, Fresh, JoinableInAccept, TerminateBeforeDetach
<1>2. IInv /\ JoinableInAccept /\ TerminateBeforeDetach /\ [Next]_vars
        => (JoinableInAccept /\ TerminateBeforeDetach)'
  BY JoinableSteps, TerminateSteps
<1>3. QED BY <1>1, <1>2, Invariant, PTL DEF Spec
=============================================================================
