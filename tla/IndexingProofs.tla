--------------------------- MODULE IndexingProofs ---------------------------
(***************************************************************************)
(* What Indexing promises for any number of messages, profilers, deleters  *)
(* and faults.                                                             *)
(***************************************************************************)
EXTENDS Indexing, TLAPS

USE SetsAssumption, BoundsAssumption, ModesAssumption DEF Procs

(* The initial state is typed and satisfies the inductive invariant.        *)
LEMMA InitIInv == Init => TypeOK /\ IInv
<1> SUFFICES ASSUME Init PROVE TypeOK /\ IInv
  OBVIOUS
<1> USE DEF Init, Labels, InThread, EsCalls, Rewriting, Deleting
<1>1. TypeOK
  <2>1. {} \in SUBSET Nat /\ 0 \in Nat /\ 0 \in 0 .. MaxFaults
    OBVIOUS
  <2>2. sup \in [Indices -> SUBSET Nat] /\ hidden \in [Indices -> SUBSET Nat]
    BY <2>1
  <2>3. attempt \in [Messages -> Nat] /\ attempts \in Nat /\ faults \in 0 .. MaxFaults
    BY <2>1
  <2>4. /\ acked \subseteq Messages /\ failed \subseteq Messages /\ announced \subseteq Nat
        /\ pc \in [Procs -> Labels] /\ outcome \in [Messages -> AllOutcomes]
    BY DEF AllOutcomes
  <2> QED BY <2>2, <2>3, <2>4 DEF TypeOK
<1>2. LoopOwned /\ ~Overlap
  BY DEF LoopOwned, InCoro, Overlap
<1>3. NoOrphans /\ RewritesKeepUp
  BY DEF NoOrphans, RewritesKeepUp
<1> QED BY <1>1, <1>2, <1>3 DEF IInv

HistoryTyped ==
  /\ overlapped \in BOOLEAN /\ missed \in BOOLEAN /\ overtaken \in BOOLEAN
  /\ lost \subseteq Messages

(* Every step keeps the types, and so does a stutter.                       *)
LEMMA TypeMove ==
  ASSUME TypeOK, Move, HistoryTyped'
  PROVE  TypeOK'
<1> USE DEF TypeOK, HistoryTyped, Goto, GotoOrEnd, LeaveLoop, index, delivery, Labels, InThread, EsCalls, Rewriting, Deleting, AfterDelete, AllOutcomes, Indices
<1>1. ASSUME NEW m \in Messages,
             Record(m) \/ Progress(m) \/ Reject(m) \/ UploadDies(m)
      PROVE  TypeOK'
  <2> m \in Procs BY DEF Procs
  <2>1. CASE Record(m) BY <2>1 DEF Record
  <2>2. CASE Publish(m) BY <2>2 DEF Publish
  <2>3. CASE UploadDies(m) BY <2>3 DEF UploadDies
  <2>4. CASE DownloadFails(m) BY <2>4 DEF DownloadFails, Finish
  <2>5. CASE StartProfile(m) BY <2>5 DEF StartProfile
  <2>6. CASE ProfileStops(m) BY <2>6 DEF ProfileStops, Finish
  <2>7. CASE ReplaceSketch(m) BY <2>7 DEF ReplaceSketch, ForgetSketch
  <2>8. CASE InsertSketch(m) BY <2>8 DEF InsertSketch, Finish
  <2>9. CASE StartCoro(m) BY <2>9 DEF StartCoro, Enter
  <2>10. CASE AddMain(m) BY <2>10 DEF AddMain
  <2>11. CASE AddSup(m)
    <3>1. attempt[m] \in Nat
      OBVIOUS
    <3>2. ASSUME NEW i \in Indices, IndexSup(m, i)
          PROVE  sup' \in [Indices -> SUBSET Nat] /\ hidden' \in [Indices -> SUBSET Nat]
      BY <3>1, <3>2 DEF IndexSup
    <3>3. sup' \in [Indices -> SUBSET Nat] /\ hidden' \in [Indices -> SUBSET Nat]
      BY <2>11, <3>2 DEF AddSup
    <3>4. main' = main /\ pending' = pending /\ sketch' = sketch /\ acked' = acked
      BY <2>11 DEF AddSup, IndexSup
    <3>5. \/ GotoOrEnd(m, "addSpatial")
          \/ GotoOrEnd(m, "announce")
      BY <2>11 DEF AddSup
    <3> QED BY <3>3, <3>4, <3>5
  <2>12. CASE Announce(m)
    <3>1. attempt[m] \in Nat
      OBVIOUS
    <3>2. announced' \subseteq Nat
      BY <2>12, <3>1 DEF Announce
    <3> QED BY <2>12, <3>2 DEF Announce
  <2>13. CASE Resume(m) BY <2>13 DEF Resume, Enter
  <2>14. CASE DropPending(m) BY <2>14 DEF DropPending
  <2>15. CASE Note(m)
    <3>1. \E label \in {"ack", "delLazo", "end"} : GotoOrEnd(m, label)
      BY <2>15 DEF Note
    <3> QED BY <2>15, <3>1 DEF Note
  <2>16. CASE Ack(m)
    <3>1. \E label \in {"noteError", "end"} : GotoOrEnd(m, label)
      BY <2>16 DEF Ack
    <3>2. acked' \subseteq Messages
      BY <2>16 DEF Ack
    <3> QED BY <2>16, <3>1, <3>2 DEF Ack
  <2>17. CASE MoveToFailed(m) BY <2>17 DEF MoveToFailed
  <2>18. CASE Reject(m) BY <2>18 DEF Reject
  <2>19. CASE DelLazo(m) BY <2>19 DEF DelLazo, ForgetSketch
  <2>20. CASE DelPending(m) BY <2>20 DEF DelPending
  <2>21. CASE DelMain(m) BY <2>21 DEF DelMain
  <2>22. CASE DelSup(m)
    <3>1. \E label \in {"delSpatial", AfterDelete(m)} : GotoOrEnd(m, label)
      BY <2>22 DEF DelSup
    <3>2. sup' \in [Indices -> SUBSET Nat]
      BY <2>22 DEF DelSup, DeleteByQuery
    <3>3. UNCHANGED <<main, hidden, pending, sketch, acked>>
      BY <2>22 DEF DelSup, DeleteByQuery
    <3> QED BY <3>1, <3>2, <3>3
  <2>23. ASSUME NEW f \in Profilers, Deliver(m, f) PROVE TypeOK'
    BY <2>23 DEF Deliver
  <2> QED BY <1>1, <2>1, <2>2, <2>3, <2>4, <2>5, <2>6, <2>7, <2>8, <2>9, <2>10, <2>11, <2>12, <2>13, <2>14, <2>15, <2>16, <2>17, <2>18, <2>19, <2>20, <2>21, <2>22, <2>23
       DEF Progress, Thread, Coro, Delete
<1>2. ASSUME NEW d \in Deleters, StartDelete(d) \/ Delete(d)
      PROVE  TypeOK'
  <2> d \in Procs /\ d \notin Messages BY DEF Procs
  <2>1. CASE StartDelete(d) BY <2>1 DEF StartDelete
  <2>2. CASE DelLazo(d) BY <2>2 DEF DelLazo, ForgetSketch
  <2>3. CASE DelPending(d) BY <2>3 DEF DelPending
  <2>4. CASE DelMain(d) BY <2>4 DEF DelMain
  <2>5. CASE DelSup(d)
    <3>1. \E label \in {"delSpatial", AfterDelete(d)} : GotoOrEnd(d, label)
      BY <2>5 DEF DelSup
    <3>2. sup' \in [Indices -> SUBSET Nat]
      BY <2>5 DEF DelSup, DeleteByQuery
    <3>3. UNCHANGED <<main, hidden, pending, sketch, acked>>
      BY <2>5 DEF DelSup, DeleteByQuery
    <3> QED BY <3>1, <3>2, <3>3
  <2> QED BY <1>2, <2>1, <2>2, <2>3, <2>4, <2>5 DEF Delete
<1>3. ASSUME NEW p \in Procs, EsFails(p) PROVE TypeOK'
  BY <1>3 DEF EsFails, Requeue, CutShort
<1>4. ASSUME NEW f \in Profilers, ProfilerDies(f) PROVE TypeOK'
  BY <1>4 DEF ProfilerDies, Requeue, CutShort, Has
<1>5. CASE Refresh BY <1>5 DEF Refresh
<1> QED BY <1>1, <1>2, <1>3, <1>4, <1>5 DEF Move

LEMMA TypeStep == TypeOK /\ [Next]_vars => TypeOK'
<1> SUFFICES ASSUME TypeOK, [Next]_vars PROVE TypeOK'
  OBVIOUS
<1>1. CASE UNCHANGED vars
  BY <1>1 DEF vars, TypeOK
<1>2. CASE Next
  <2>1. HistoryTyped'
    BY <1>2 DEF Next, History, HistoryTyped, TypeOK
  <2> QED BY <1>2, <2>1, TypeMove DEF Next
<1> QED BY <1>1, <1>2

(* Type correctness.                                                        *)
THEOREM TypeCorrect == Spec => []TypeOK
<1>1. Init => TypeOK BY InitIInv
<1> QED BY <1>1, TypeStep, PTL DEF Spec

(* A coroutine that is not waiting keeps the event loop of its profiler.    *)
LEMMA LoopOwnedMove ==
  ASSUME TypeOK, LoopOwned, Move
  PROVE  LoopOwned'
<1> USE DEF TypeOK, Goto, GotoOrEnd, LeaveLoop, index, delivery, Labels, InThread, EsCalls, Rewriting, Deleting, AfterDelete, AllOutcomes, LoopOwned, InCoro
<1>1. ASSUME NEW m \in Messages,
             Record(m) \/ Progress(m) \/ Reject(m) \/ UploadDies(m)
      PROVE  LoopOwned'
  <2> m \in Procs BY DEF Procs
  <2>1. CASE Record(m) BY <2>1 DEF Record
  <2>2. CASE Publish(m) BY <2>2 DEF Publish
  <2>3. CASE UploadDies(m) BY <2>3 DEF UploadDies
  <2>4. CASE DownloadFails(m) BY <2>4 DEF DownloadFails, Finish
  <2>5. CASE StartProfile(m) BY <2>5 DEF StartProfile
  <2>6. CASE ProfileStops(m) BY <2>6 DEF ProfileStops, Finish
  <2>7. CASE ReplaceSketch(m) BY <2>7 DEF ReplaceSketch, ForgetSketch
  <2>8. CASE InsertSketch(m) BY <2>8 DEF InsertSketch, Finish
  <2>9. CASE StartCoro(m) BY <2>9 DEF StartCoro, Enter
  <2>10. CASE AddMain(m) BY <2>10 DEF AddMain
  <2>11. CASE AddSup(m) BY <2>11 DEF AddSup, IndexSup
  <2>12. CASE Announce(m) BY <2>12 DEF Announce
  <2>13. CASE Resume(m) BY <2>13 DEF Resume, Enter
  <2>14. CASE DropPending(m) BY <2>14 DEF DropPending
  <2>15. CASE Note(m) BY <2>15 DEF Note
  <2>16. CASE Ack(m) BY <2>16 DEF Ack
  <2>17. CASE MoveToFailed(m) BY <2>17 DEF MoveToFailed
  <2>18. CASE Reject(m) BY <2>18 DEF Reject
  <2>19. CASE DelLazo(m) BY <2>19 DEF DelLazo, ForgetSketch
  <2>20. CASE DelPending(m) BY <2>20 DEF DelPending
  <2>21. CASE DelMain(m) BY <2>21 DEF DelMain
  <2>22. CASE DelSup(m) BY <2>22 DEF DelSup, DeleteByQuery
  <2>23. ASSUME NEW f \in Profilers, Deliver(m, f) PROVE LoopOwned'
    BY <2>23 DEF Deliver
  <2> QED BY <1>1, <2>1, <2>2, <2>3, <2>4, <2>5, <2>6, <2>7, <2>8, <2>9, <2>10, <2>11, <2>12, <2>13, <2>14, <2>15, <2>16, <2>17, <2>18, <2>19, <2>20, <2>21, <2>22, <2>23
       DEF Progress, Thread, Coro, Delete
<1>2. ASSUME NEW d \in Deleters, StartDelete(d) \/ Delete(d)
      PROVE  LoopOwned'
  <2> d \in Procs /\ d \notin Messages BY DEF Procs
  <2>1. CASE StartDelete(d) BY <2>1 DEF StartDelete
  <2>2. CASE DelLazo(d) BY <2>2 DEF DelLazo, ForgetSketch
  <2>3. CASE DelPending(d) BY <2>3 DEF DelPending
  <2>4. CASE DelMain(d) BY <2>4 DEF DelMain
  <2>5. CASE DelSup(d) BY <2>5 DEF DelSup, DeleteByQuery
  <2> QED BY <1>2, <2>1, <2>2, <2>3, <2>4, <2>5 DEF Delete
<1>3. ASSUME NEW p \in Procs, EsFails(p) PROVE LoopOwned'
  BY <1>3 DEF EsFails, Requeue, CutShort
<1>4. ASSUME NEW f \in Profilers, ProfilerDies(f) PROVE LoopOwned'
  BY <1>4 DEF ProfilerDies, Requeue, CutShort, Has
<1>5. CASE Refresh BY <1>5 DEF Refresh
<1> QED BY <1>1, <1>2, <1>3, <1>4, <1>5 DEF Move

(* A deletion takes everything out if everything is searchable.             *)
LEMMA DelSupFinds ==
  ASSUME TypeOK, NEW p \in Procs, DelSup(p), \A i \in Indices : ~Missed(p, i)
  PROVE  /\ pc[p] = "delColumns" => sup' = [sup EXCEPT !["columns"] = {}]
         /\ pc[p] = "delSpatial" => sup' = [sup EXCEPT !["spatial"] = {}]
<1>1. pc'[p] # pc[p]
  BY DEF TypeOK, DelSup, GotoOrEnd, Goto, AfterDelete
<1>2. /\ pc[p] = "delColumns" => hidden["columns"] = {}
      /\ pc[p] = "delSpatial" => hidden["spatial"] = {}
  BY <1>1 DEF Missed, Indices
<1> QED BY <1>2 DEF DelSup, DeleteByQuery, TypeOK, Indices

(* A rewrite on its own that nothing cuts short leaves only documents of the*)
(* current one: each deletion finds all there is, if it is searchable, and  *)
(* the first insertion is of the document the others go with.               *)
LEMMA RewritesKeepUpMove ==
  ASSUME TypeOK, RewritesKeepUp, ~Overlap, ~interrupted', Move,
         \A p \in Procs, i \in Indices : ~Missed(p, i)
  PROVE  RewritesKeepUp'
<1> USE DEF TypeOK, Goto, GotoOrEnd, LeaveLoop, index, delivery, Deleting, Rewriting, EsCalls, InThread, AfterDelete, AllOutcomes, Indices, RewritesKeepUp, NoOrphans, NobodyDeletes, Overlap
<1>1. ASSUME NEW m \in Messages,
             Record(m) \/ Progress(m) \/ Reject(m) \/ UploadDies(m)
      PROVE  RewritesKeepUp'
  <2> m \in Procs BY DEF Procs
  <2>1. CASE Record(m) BY <2>1 DEF Record
  <2>2. CASE Publish(m) BY <2>2 DEF Publish
  <2>3. CASE UploadDies(m) BY <2>3 DEF UploadDies
  <2>4. CASE DownloadFails(m) BY <2>4 DEF DownloadFails, Finish
  <2>5. CASE StartProfile(m) BY <2>5 DEF StartProfile
  <2>6. CASE ProfileStops(m) BY <2>6 DEF ProfileStops, Finish
  <2>7. CASE ReplaceSketch(m) BY <2>7 DEF ReplaceSketch, ForgetSketch
  <2>8. CASE InsertSketch(m) BY <2>8 DEF InsertSketch, Finish
  <2>9. CASE StartCoro(m) BY <2>9 DEF StartCoro, Enter
  <2>10. CASE AddMain(m) BY <2>10 DEF AddMain
  <2>11. CASE AddSup(m) BY <2>11 DEF AddSup, IndexSup
  <2>12. CASE Announce(m) BY <2>12 DEF Announce
  <2>13. CASE Resume(m) BY <2>13 DEF Resume, Enter
  <2>14. CASE DropPending(m) BY <2>14 DEF DropPending
  <2>15. CASE Note(m) BY <2>15 DEF Note
  <2>16. CASE Ack(m) BY <2>16 DEF Ack
  <2>17. CASE MoveToFailed(m) BY <2>17 DEF MoveToFailed
  <2>18. CASE Reject(m) BY <2>18 DEF Reject
  <2>19. CASE DelLazo(m) BY <2>19 DEF DelLazo, ForgetSketch
  <2>20. CASE DelPending(m) BY <2>20 DEF DelPending
  <2>21. CASE DelMain(m) BY <2>21 DEF DelMain
  <2>22. CASE DelSup(m)
    <3>1. CASE pc[m] = "delColumns" /\ DeleteByQuery("columns") /\ GotoOrEnd(m, "delSpatial")
      <4>1. sup' = [sup EXCEPT !["columns"] = {}]
        BY <2>22, <3>1, DelSupFinds
      <4> QED BY <3>1, <4>1 DEF DeleteByQuery
    <3>2. CASE pc[m] = "delSpatial" /\ DeleteByQuery("spatial") /\ GotoOrEnd(m, AfterDelete(m))
      <4>1. sup' = [sup EXCEPT !["spatial"] = {}]
        BY <2>22, <3>2, DelSupFinds
      <4> QED BY <3>2, <4>1 DEF DeleteByQuery
    <3> QED BY <2>22, <3>1, <3>2 DEF DelSup
  <2>23. ASSUME NEW f \in Profilers, Deliver(m, f) PROVE RewritesKeepUp'
    BY <2>23 DEF Deliver
  <2> QED BY <1>1, <2>1, <2>2, <2>3, <2>4, <2>5, <2>6, <2>7, <2>8, <2>9, <2>10, <2>11, <2>12, <2>13, <2>14, <2>15, <2>16, <2>17, <2>18, <2>19, <2>20, <2>21, <2>22, <2>23
       DEF Progress, Thread, Coro, Delete
<1>2. ASSUME NEW d \in Deleters, StartDelete(d) \/ Delete(d)
      PROVE  RewritesKeepUp'
  <2> d \in Procs /\ d \notin Messages BY DEF Procs
  <2>1. CASE StartDelete(d) BY <2>1 DEF StartDelete
  <2>2. CASE DelLazo(d) BY <2>2 DEF DelLazo, ForgetSketch
  <2>3. CASE DelPending(d) BY <2>3 DEF DelPending
  <2>4. CASE DelMain(d) BY <2>4 DEF DelMain
  <2>5. CASE DelSup(d)
    <3>1. CASE pc[d] = "delColumns" /\ DeleteByQuery("columns") /\ GotoOrEnd(d, "delSpatial")
      <4>1. sup' = [sup EXCEPT !["columns"] = {}]
        BY <2>5, <3>1, DelSupFinds
      <4> QED BY <3>1, <4>1 DEF DeleteByQuery
    <3>2. CASE pc[d] = "delSpatial" /\ DeleteByQuery("spatial") /\ GotoOrEnd(d, AfterDelete(d))
      <4>1. sup' = [sup EXCEPT !["spatial"] = {}]
        BY <2>5, <3>2, DelSupFinds
      <4> QED BY <3>2, <4>1 DEF DeleteByQuery
    <3> QED BY <2>5, <3>1, <3>2 DEF DelSup
  <2> QED BY <1>2, <2>1, <2>2, <2>3, <2>4, <2>5 DEF Delete
<1>3. ASSUME NEW p \in Procs, EsFails(p) PROVE RewritesKeepUp'
  BY <1>3 DEF EsFails, Requeue, CutShort
<1>4. ASSUME NEW f \in Profilers, ProfilerDies(f) PROVE RewritesKeepUp'
  BY <1>4 DEF ProfilerDies, Requeue, CutShort, Has
<1>5. CASE Refresh BY <1>5 DEF Refresh
<1> QED BY <1>1, <1>2, <1>3, <1>4, <1>5 DEF Move

(* What was cut short stays so.                                             *)
LEMMA HistoryGrows ==
  ASSUME interrupted, Move
  PROVE  interrupted'
<1> USE DEF GotoOrEnd
<1>1. ASSUME NEW m \in Messages,
             Record(m) \/ Progress(m) \/ Reject(m) \/ UploadDies(m)
      PROVE  interrupted'
  <2> m \in Procs BY DEF Procs
  <2>1. CASE Record(m) BY <2>1 DEF Record
  <2>2. CASE Publish(m) BY <2>2 DEF Publish
  <2>3. CASE UploadDies(m) BY <2>3 DEF UploadDies
  <2>4. CASE DownloadFails(m) BY <2>4 DEF DownloadFails, Finish
  <2>5. CASE StartProfile(m) BY <2>5 DEF StartProfile
  <2>6. CASE ProfileStops(m) BY <2>6 DEF ProfileStops, Finish
  <2>7. CASE ReplaceSketch(m) BY <2>7 DEF ReplaceSketch, ForgetSketch
  <2>8. CASE InsertSketch(m) BY <2>8 DEF InsertSketch, Finish
  <2>9. CASE StartCoro(m) BY <2>9 DEF StartCoro, Enter
  <2>10. CASE AddMain(m) BY <2>10 DEF AddMain
  <2>11. CASE AddSup(m) BY <2>11 DEF AddSup, IndexSup
  <2>12. CASE Announce(m) BY <2>12 DEF Announce
  <2>13. CASE Resume(m) BY <2>13 DEF Resume, Enter
  <2>14. CASE DropPending(m) BY <2>14 DEF DropPending
  <2>15. CASE Note(m) BY <2>15 DEF Note
  <2>16. CASE Ack(m) BY <2>16 DEF Ack
  <2>17. CASE MoveToFailed(m) BY <2>17 DEF MoveToFailed
  <2>18. CASE Reject(m) BY <2>18 DEF Reject
  <2>19. CASE DelLazo(m) BY <2>19 DEF DelLazo, ForgetSketch
  <2>20. CASE DelPending(m) BY <2>20 DEF DelPending
  <2>21. CASE DelMain(m) BY <2>21 DEF DelMain
  <2>22. CASE DelSup(m) BY <2>22 DEF DelSup, DeleteByQuery
  <2>23. ASSUME NEW f \in Profilers, Deliver(m, f) PROVE interrupted'
    BY <2>23 DEF Deliver
  <2> QED BY <1>1, <2>1, <2>2, <2>3, <2>4, <2>5, <2>6, <2>7, <2>8, <2>9, <2>10, <2>11, <2>12, <2>13, <2>14, <2>15, <2>16, <2>17, <2>18, <2>19, <2>20, <2>21, <2>22, <2>23
       DEF Progress, Thread, Coro, Delete
<1>2. ASSUME NEW d \in Deleters, StartDelete(d) \/ Delete(d)
      PROVE  interrupted'
  <2> d \in Procs /\ d \notin Messages BY DEF Procs
  <2>1. CASE StartDelete(d) BY <2>1 DEF StartDelete
  <2>2. CASE DelLazo(d) BY <2>2 DEF DelLazo, ForgetSketch
  <2>3. CASE DelPending(d) BY <2>3 DEF DelPending
  <2>4. CASE DelMain(d) BY <2>4 DEF DelMain
  <2>5. CASE DelSup(d) BY <2>5 DEF DelSup, DeleteByQuery
  <2> QED BY <1>2, <2>1, <2>2, <2>3, <2>4, <2>5 DEF Delete
<1>3. ASSUME NEW p \in Procs, EsFails(p) PROVE interrupted'
  BY <1>3 DEF EsFails, Requeue, CutShort
<1>4. ASSUME NEW f \in Profilers, ProfilerDies(f) PROVE interrupted'
  BY <1>4 DEF ProfilerDies, Requeue, CutShort, Has
<1>5. CASE Refresh BY <1>5 DEF Refresh
<1> QED BY <1>1, <1>2, <1>3, <1>4, <1>5 DEF Move

LEMMA StepIInv == TypeOK /\ IInv /\ [Next]_vars => IInv'
<1> SUFFICES ASSUME TypeOK, IInv, [Next]_vars PROVE IInv'
  OBVIOUS
<1>1. CASE UNCHANGED vars
  BY <1>1 DEF vars, IInv, LoopOwned, Overlap, RewritesKeepUp, NoOrphans, NobodyDeletes
<1>2. CASE Next
  <2>1. Move /\ overlapped' = (overlapped \/ Overlap')
    BY <1>2 DEF Next, History
  <2>2. LoopOwned'
    BY <2>1, LoopOwnedMove DEF IInv
  <2>3. ~overlapped' => ~overlapped /\ ~Overlap'
    BY <2>1
  <2>4. ~missed' => ~missed /\ \A p \in Procs, i \in Indices : ~Missed(p, i)
    BY <1>2 DEF Next, History
  <2>5. ~interrupted' => ~interrupted
    BY <2>1, HistoryGrows
  <2>6. ASSUME ~overlapped', ~interrupted', ~missed' PROVE RewritesKeepUp'
    BY <2>1, <2>3, <2>4, <2>5, <2>6, RewritesKeepUpMove DEF IInv
  <2> QED BY <2>2, <2>3, <2>6 DEF IInv
<1> QED BY <1>1, <1>2

(* The inductive invariant.                                                 *)
THEOREM IInvCorrect == Spec => []IInv
<1>1. Init => TypeOK /\ IInv BY InitIInv
<1>2. TypeOK /\ IInv /\ [Next]_vars => TypeOK' /\ IInv' BY TypeStep, StepIInv
<1> QED BY <1>1, <1>2, PTL DEF Spec

(* Without an overlap, a deletion cut short or one that comes too soon, the *)
(* supplementary indices only have documents of the current one, for any    *)
(* number of profilers and deleters and whatever fails or is refused.       *)
THEOREM RewritesAreSafe == Spec => []OrphansExplained
<1>1. IInv => OrphansExplained
  BY DEF IInv, OrphansExplained, RewritesKeepUp
<1> QED BY <1>1, IInvCorrect, PTL

(* The coroutines of a profiler that is alone take turns.                   *)
LEMMA TakeTurns ==
  ASSUME \A f, g \in Profilers : f = g, LoopOwned,
         NEW m \in Messages, NEW n \in Messages, pc[m] \in InCoro, pc[n] \in InCoro
  PROVE  m = n
<1>1. /\ owner[m] \in Profilers /\ loop[owner[m]] = m
      /\ owner[n] \in Profilers /\ loop[owner[n]] = n
  BY DEF LoopOwned
<1> QED BY <1>1

(* A profiler that is alone never overlaps with itself, however many        *)
(* messages it has and whatever fails: who rewrites has the event loop.     *)
THEOREM ProfilerAlone ==
  ASSUME \A f, g \in Profilers : f = g, Deleters = {}
  PROVE  Spec => []OneAtATime
<1>1. IInv => ~Overlap
  <2>1. Rewriting \subseteq InCoro
    BY DEF InCoro, EsCalls
  <2> QED BY <2>1, TakeTurns DEF Overlap, IInv
<1>2. Init => OneAtATime
  BY DEF Init, OneAtATime
<1>3. OneAtATime /\ (~Overlap)' /\ [Next]_vars => OneAtATime'
  BY DEF Next, History, OneAtATime, vars
<1> QED BY <1>1, <1>2, <1>3, IInvCorrect, PTL DEF Spec

(* What a coroutine indexed so far is still there at its next step.         *)
Added ==
  \A m \in Messages :
    /\ pc[m] \in {"addColumns", "addSpatial", "announce"} => main = attempt[m]
    /\ pc[m] \in {"addSpatial", "announce"} => attempt[m] \in sup["columns"]
    /\ pc[m] = "announce" => attempt[m] \in sup["spatial"]

LEMMA AddedMove ==
  ASSUME \A f, g \in Profilers : f = g, Deleters = {}, TypeOK, LoopOwned, Added, Move
  PROVE  Added'
<1> USE DEF TypeOK, Goto, GotoOrEnd, LeaveLoop, index, delivery, InCoro, EsCalls, Rewriting, Deleting, InThread, AfterDelete, Indices, LoopOwned, Added
<1>1. ASSUME NEW m \in Messages,
             Record(m) \/ Progress(m) \/ Reject(m) \/ UploadDies(m)
      PROVE  Added'
  <2> m \in Procs BY DEF Procs
  <2>1. CASE Record(m) BY <2>1 DEF Record
  <2>2. CASE Publish(m) BY <2>2 DEF Publish
  <2>3. CASE UploadDies(m) BY <2>3 DEF UploadDies
  <2>4. CASE DownloadFails(m) BY <2>4 DEF DownloadFails, Finish
  <2>5. CASE StartProfile(m) BY <2>5 DEF StartProfile
  <2>6. CASE ProfileStops(m) BY <2>6 DEF ProfileStops, Finish
  <2>7. CASE ReplaceSketch(m) BY <2>7 DEF ReplaceSketch, ForgetSketch
  <2>8. CASE InsertSketch(m) BY <2>8 DEF InsertSketch, Finish
  <2>9. CASE StartCoro(m)
    <3>1. \E label \in {"delPending", "delLazo", "noteTooBig", "moveToFailed"} : Goto(m, label)
      BY <2>9 DEF StartCoro, TypeOK, AllOutcomes
    <3>2. UNCHANGED <<main, sup, attempt>>
      BY <2>9 DEF StartCoro
    <3> QED BY <3>1, <3>2
  <2>10. CASE AddMain(m) BY <2>10 DEF AddMain
  <2>11. CASE AddSup(m) BY <2>11 DEF AddSup, IndexSup
  <2>12. CASE Announce(m) BY <2>12 DEF Announce
  <2>13. CASE Resume(m) BY <2>13 DEF Resume, Enter
  <2>14. CASE DropPending(m) BY <2>14 DEF DropPending
  <2>15. CASE Note(m) BY <2>15 DEF Note
  <2>16. CASE Ack(m) BY <2>16 DEF Ack
  <2>17. CASE MoveToFailed(m) BY <2>17 DEF MoveToFailed
  <2>18. CASE Reject(m) BY <2>18 DEF Reject
  <2>19. CASE DelLazo(m) BY <2>19 DEF DelLazo, ForgetSketch
  <2>20. CASE DelPending(m) BY <2>20 DEF DelPending
  <2>21. CASE DelMain(m) BY <2>21 DEF DelMain
  <2>22. CASE DelSup(m) BY <2>22 DEF DelSup, DeleteByQuery
  <2>23. ASSUME NEW f \in Profilers, Deliver(m, f) PROVE Added'
    BY <2>23 DEF Deliver
  <2> QED BY <1>1, <2>1, <2>2, <2>3, <2>4, <2>5, <2>6, <2>7, <2>8, <2>9, <2>10, <2>11, <2>12, <2>13, <2>14, <2>15, <2>16, <2>17, <2>18, <2>19, <2>20, <2>21, <2>22, <2>23
       DEF Progress, Thread, Coro, Delete
<1>2. ASSUME NEW d \in Deleters, StartDelete(d) \/ Delete(d)
      PROVE  Added'
  <2> d \in Procs /\ d \notin Messages BY DEF Procs
  <2>1. CASE StartDelete(d) BY <2>1 DEF StartDelete
  <2>2. CASE DelLazo(d) BY <2>2 DEF DelLazo, ForgetSketch
  <2>3. CASE DelPending(d) BY <2>3 DEF DelPending
  <2>4. CASE DelMain(d) BY <2>4 DEF DelMain
  <2>5. CASE DelSup(d) BY <2>5 DEF DelSup, DeleteByQuery
  <2> QED BY <1>2, <2>1, <2>2, <2>3, <2>4, <2>5 DEF Delete
<1>3. ASSUME NEW p \in Procs, EsFails(p) PROVE Added'
  BY <1>3 DEF EsFails, Requeue, CutShort
<1>4. ASSUME NEW f \in Profilers, ProfilerDies(f) PROVE Added'
  BY <1>4 DEF ProfilerDies, Requeue, CutShort, Has
<1>5. CASE Refresh BY <1>5 DEF Refresh
<1> QED BY <1>1, <1>2, <1>3, <1>4, <1>5 DEF Move

(* Nothing else is published on the 'datasets' exchange.                    *)
LEMMA OnlyAnnounceAnnounces ==
  ASSUME Move, ~ \E m \in Messages : Announce(m)
  PROVE  announced' = announced
<1> USE DEF GotoOrEnd
<1>1. ASSUME NEW m \in Messages,
             Record(m) \/ Progress(m) \/ Reject(m) \/ UploadDies(m)
      PROVE  announced' = announced
  <2> m \in Procs BY DEF Procs
  <2>1. CASE Record(m) BY <2>1 DEF Record
  <2>2. CASE Publish(m) BY <2>2 DEF Publish
  <2>3. CASE UploadDies(m) BY <2>3 DEF UploadDies
  <2>4. CASE DownloadFails(m) BY <2>4 DEF DownloadFails, Finish
  <2>5. CASE StartProfile(m) BY <2>5 DEF StartProfile
  <2>6. CASE ProfileStops(m) BY <2>6 DEF ProfileStops, Finish
  <2>7. CASE ReplaceSketch(m) BY <2>7 DEF ReplaceSketch, ForgetSketch
  <2>8. CASE InsertSketch(m) BY <2>8 DEF InsertSketch, Finish
  <2>9. CASE StartCoro(m) BY <2>9 DEF StartCoro, Enter
  <2>10. CASE AddMain(m) BY <2>10 DEF AddMain
  <2>11. CASE AddSup(m) BY <2>11 DEF AddSup, IndexSup
  <2>12. CASE Announce(m) BY <2>12
  <2>13. CASE Resume(m) BY <2>13 DEF Resume, Enter
  <2>14. CASE DropPending(m) BY <2>14 DEF DropPending
  <2>15. CASE Note(m) BY <2>15 DEF Note
  <2>16. CASE Ack(m) BY <2>16 DEF Ack
  <2>17. CASE MoveToFailed(m) BY <2>17 DEF MoveToFailed
  <2>18. CASE Reject(m) BY <2>18 DEF Reject
  <2>19. CASE DelLazo(m) BY <2>19 DEF DelLazo, ForgetSketch
  <2>20. CASE DelPending(m) BY <2>20 DEF DelPending
  <2>21. CASE DelMain(m) BY <2>21 DEF DelMain
  <2>22. CASE DelSup(m) BY <2>22 DEF DelSup, DeleteByQuery
  <2>23. ASSUME NEW f \in Profilers, Deliver(m, f) PROVE announced' = announced
    BY <2>23 DEF Deliver
  <2> QED BY <1>1, <2>1, <2>2, <2>3, <2>4, <2>5, <2>6, <2>7, <2>8, <2>9, <2>10, <2>11, <2>12, <2>13, <2>14, <2>15, <2>16, <2>17, <2>18, <2>19, <2>20, <2>21, <2>22, <2>23
       DEF Progress, Thread, Coro, Delete
<1>2. ASSUME NEW d \in Deleters, StartDelete(d) \/ Delete(d)
      PROVE  announced' = announced
  <2> d \in Procs /\ d \notin Messages BY DEF Procs
  <2>1. CASE StartDelete(d) BY <2>1 DEF StartDelete
  <2>2. CASE DelLazo(d) BY <2>2 DEF DelLazo, ForgetSketch
  <2>3. CASE DelPending(d) BY <2>3 DEF DelPending
  <2>4. CASE DelMain(d) BY <2>4 DEF DelMain
  <2>5. CASE DelSup(d) BY <2>5 DEF DelSup, DeleteByQuery
  <2> QED BY <1>2, <2>1, <2>2, <2>3, <2>4, <2>5 DEF Delete
<1>3. ASSUME NEW p \in Procs, EsFails(p) PROVE announced' = announced
  BY <1>3 DEF EsFails, Requeue, CutShort
<1>4. ASSUME NEW f \in Profilers, ProfilerDies(f) PROVE announced' = announced
  BY <1>4 DEF ProfilerDies, Requeue, CutShort, Has
<1>5. CASE Refresh BY <1>5 DEF Refresh
<1> QED BY <1>1, <1>2, <1>3, <1>4, <1>5 DEF Move

(* A profiler that is alone announces what the indices have, whatever fails *)
(* and however late documents are searchable.                               *)
THEOREM AnnouncementsTrue ==
  ASSUME \A f, g \in Profilers : f = g, Deleters = {}
  PROVE  Spec => AnnouncedIndexed
<1>1. Init => Added
  BY DEF Init, Added
<1>2. TypeOK /\ IInv /\ Added /\ [Next]_vars => Added'
  <2> SUFFICES ASSUME TypeOK, IInv, Added, [Next]_vars PROVE Added'
    OBVIOUS
  <2>1. CASE UNCHANGED vars
    BY <2>1 DEF vars, Added
  <2>2. CASE Next
    BY <2>2, AddedMove DEF Next, IInv
  <2> QED BY <2>1, <2>2
<1>3. Added /\ [Next]_vars =>
        [\A a \in announced' \ announced : main' = a /\ \A i \in Indices : a \in sup'[i]]_vars
  <2> SUFFICES ASSUME Added, Move
               PROVE  \A a \in announced' \ announced :
                        main' = a /\ \A i \in Indices : a \in sup'[i]
    BY DEF Next
  <2>1. CASE \E m \in Messages : Announce(m)
    BY <2>1 DEF Announce, Added, Indices, index
  <2>2. CASE ~ \E m \in Messages : Announce(m)
    BY <2>2, OnlyAnnounceAnnounces
  <2> QED BY <2>1, <2>2
<1> QED BY <1>1, <1>2, <1>3, TypeCorrect, IInvCorrect, PTL DEF Spec, AnnouncedIndexed

(***************************************************************************)
(* What becomes of a dataset when nothing fails.                           *)
(***************************************************************************)

(* A step of which nothing fails.                                           *)
Calm ==
  \/ \E m \in Messages : Record(m) \/ Progress(m) \/ Reject(m)
  \/ \E d \in Deleters : StartDelete(d) \/ Delete(d)
  \/ Refresh

LEMMA StaysCalm ==
  ASSUME TypeOK, Move, faults' = 0
  PROVE  Calm
<1>1. faults \in Nat
  BY DEF TypeOK
<1>2. /\ \A m \in Messages : ~UploadDies(m)
      /\ \A p \in Procs : ~EsFails(p)
      /\ \A f \in Profilers : ~ProfilerDies(f)
  BY <1>1 DEF UploadDies, EsFails, ProfilerDies
<1> QED BY <1>2 DEF Move, Calm

(* How far a message gets with each outcome.                                *)
Reached ==
  \A m \in Messages :
    /\ outcome[m] \in Outcomes \cup {"rows", "error"}
    /\ pc[m] \in {"new", "recorded", "ready"} \cup InThread => outcome[m] = "rows"
    /\ pc[m] \in {"addMain", "addColumns", "addSpatial", "announce", "dropPending"} => outcome[m] = "rows"
    /\ pc[m] = "delLazo" => outcome[m] \in {"empty", "tooBig"}
    /\ pc[m] = "noteTooBig" => outcome[m] = "tooBig"
    /\ pc[m] = "noteEmpty" => outcome[m] = "empty"
    /\ pc[m] \in {"moveToFailed", "ackFailed", "noteError"} => outcome[m] = "error"
    /\ pc[m] = "resume" => outcome[m] \in {"rows", "error"}
    /\ pc[m] = "ack" => outcome[m] \in {"rows", "empty"}
    /\ pc[m] \in Deleting \cup {"delPending", "delMain"} => outcome[m] # "error"

(* How far the indices are while a dataset is rewritten, and that they agree*)
(* when it is not.                                                          *)
IndicesAgree ==
  /\ (\A p \in Procs : pc[p] \notin Rewriting \ {"delMain"})
       => Refused \/ \A i \in Indices : sup[i] = {main} \ {None}
  /\ \A p \in Procs :
       /\ pc[p] \in Deleting \cup {"addMain"} => main = None
       /\ pc[p] \in {"delSpatial", "addMain", "addColumns"} => sup["columns"] = {}
       /\ pc[p] \in {"addMain", "addColumns", "addSpatial"} => sup["spatial"] = {}
  /\ \A m \in Messages :
       /\ pc[m] \in {"addColumns", "addSpatial"} => main = attempt[m]
       /\ pc[m] = "addSpatial" => sup["columns"] = {main}

(* A step of which nothing fails counts no fault.                           *)
LEMMA CalmFaults ==
  ASSUME Calm
  PROVE  faults' = faults
<1> USE DEF GotoOrEnd, delivery, index
<1>1. ASSUME NEW m \in Messages, Record(m) \/ Progress(m) \/ Reject(m)
      PROVE  faults' = faults
  <2> m \in Procs BY DEF Procs
  <2>1. CASE Record(m) BY <2>1 DEF Record
  <2>2. CASE Publish(m) BY <2>2 DEF Publish
  <2>3. CASE DownloadFails(m) BY <2>3 DEF DownloadFails, Finish
  <2>4. CASE StartProfile(m) BY <2>4 DEF StartProfile
  <2>5. CASE ProfileStops(m) BY <2>5 DEF ProfileStops, Finish
  <2>6. CASE ReplaceSketch(m) BY <2>6 DEF ReplaceSketch, ForgetSketch
  <2>7. CASE InsertSketch(m) BY <2>7 DEF InsertSketch, Finish
  <2>8. CASE StartCoro(m) BY <2>8 DEF StartCoro, Enter
  <2>9. CASE AddMain(m) BY <2>9 DEF AddMain
  <2>10. CASE AddSup(m) BY <2>10 DEF AddSup, IndexSup
  <2>11. CASE Announce(m) BY <2>11 DEF Announce
  <2>12. CASE Resume(m) BY <2>12 DEF Resume, Enter
  <2>13. CASE DropPending(m) BY <2>13 DEF DropPending
  <2>14. CASE Note(m) BY <2>14 DEF Note
  <2>15. CASE Ack(m) BY <2>15 DEF Ack
  <2>16. CASE MoveToFailed(m) BY <2>16 DEF MoveToFailed
  <2>17. CASE Reject(m) BY <2>17 DEF Reject
  <2>18. CASE DelLazo(m) BY <2>18 DEF DelLazo, ForgetSketch
  <2>19. CASE DelPending(m) BY <2>19 DEF DelPending
  <2>20. CASE DelMain(m) BY <2>20 DEF DelMain
  <2>21. CASE DelSup(m) BY <2>21 DEF DelSup, DeleteByQuery
  <2>22. ASSUME NEW f \in Profilers, Deliver(m, f) PROVE faults' = faults
    BY <2>22 DEF Deliver
  <2> QED BY <1>1, <2>1, <2>2, <2>3, <2>4, <2>5, <2>6, <2>7, <2>8, <2>9, <2>10, <2>11, <2>12, <2>13, <2>14, <2>15, <2>16, <2>17, <2>18, <2>19, <2>20, <2>21, <2>22
       DEF Progress, Thread, Coro, Delete
<1>2. ASSUME NEW d \in Deleters, StartDelete(d) \/ Delete(d)
      PROVE  faults' = faults
  <2> d \in Procs /\ d \notin Messages BY DEF Procs
  <2>1. CASE StartDelete(d) BY <2>1 DEF StartDelete
  <2>2. CASE DelLazo(d) BY <2>2 DEF DelLazo, ForgetSketch
  <2>3. CASE DelPending(d) BY <2>3 DEF DelPending
  <2>4. CASE DelMain(d) BY <2>4 DEF DelMain
  <2>5. CASE DelSup(d) BY <2>5 DEF DelSup, DeleteByQuery
  <2> QED BY <1>2, <2>1, <2>2, <2>3, <2>4, <2>5 DEF Delete
<1>3. CASE Refresh BY <1>3 DEF Refresh
<1> QED BY <1>1, <1>2, <1>3 DEF Calm
(* Without a fault, how far a message gets depends on its outcome.          *)
LEMMA ReachedMove ==
  ASSUME TypeOK, Reached, Calm
  PROVE  Reached'
<1> USE DEF TypeOK, Goto, GotoOrEnd, LeaveLoop, index, delivery, Labels, InThread, EsCalls, Rewriting, Deleting, AfterDelete, AllOutcomes, Indices, Reached
<1>1. ASSUME NEW m \in Messages, Record(m) \/ Progress(m) \/ Reject(m)
      PROVE  Reached'
  <2> m \in Procs BY DEF Procs
  <2>1. CASE Record(m) BY <2>1 DEF Record
  <2>2. CASE Publish(m) BY <2>2 DEF Publish
  <2>3. CASE DownloadFails(m) BY <2>3 DEF DownloadFails, Finish
  <2>4. CASE StartProfile(m) BY <2>4 DEF StartProfile
  <2>5. CASE ProfileStops(m) BY <2>5 DEF ProfileStops, Finish
  <2>6. CASE ReplaceSketch(m) BY <2>6 DEF ReplaceSketch, ForgetSketch
  <2>7. CASE InsertSketch(m) BY <2>7 DEF InsertSketch, Finish
  <2>8. CASE StartCoro(m) BY <2>8 DEF StartCoro, Enter
  <2>9. CASE AddMain(m) BY <2>9 DEF AddMain
  <2>10. CASE AddSup(m) BY <2>10 DEF AddSup, IndexSup
  <2>11. CASE Announce(m) BY <2>11 DEF Announce
  <2>12. CASE Resume(m) BY <2>12 DEF Resume, Enter
  <2>13. CASE DropPending(m) BY <2>13 DEF DropPending
  <2>14. CASE Note(m)
    <3>1. CASE pc[m] = "noteEmpty" /\ GotoOrEnd(m, "ack") BY <2>14, <3>1 DEF Note
    <3>2. CASE pc[m] = "noteTooBig" /\ GotoOrEnd(m, "delLazo") BY <2>14, <3>2 DEF Note
    <3>3. CASE pc[m] = "noteError" /\ GotoOrEnd(m, "end") BY <2>14, <3>3 DEF Note
    <3> QED BY <2>14, <3>1, <3>2, <3>3 DEF Note
  <2>15. CASE Ack(m) BY <2>15 DEF Ack
  <2>16. CASE MoveToFailed(m) BY <2>16 DEF MoveToFailed
  <2>17. CASE Reject(m) BY <2>17 DEF Reject
  <2>18. CASE DelLazo(m) BY <2>18 DEF DelLazo, ForgetSketch
  <2>19. CASE DelPending(m) BY <2>19 DEF DelPending
  <2>20. CASE DelMain(m) BY <2>20 DEF DelMain
  <2>21. CASE DelSup(m) BY <2>21 DEF DelSup, DeleteByQuery
  <2>22. ASSUME NEW f \in Profilers, Deliver(m, f) PROVE Reached'
    BY <2>22 DEF Deliver
  <2> QED BY <1>1, <2>1, <2>2, <2>3, <2>4, <2>5, <2>6, <2>7, <2>8, <2>9, <2>10, <2>11, <2>12, <2>13, <2>14, <2>15, <2>16, <2>17, <2>18, <2>19, <2>20, <2>21, <2>22
       DEF Progress, Thread, Coro, Delete
<1>2. ASSUME NEW d \in Deleters, StartDelete(d) \/ Delete(d)
      PROVE  Reached'
  <2> d \in Procs /\ d \notin Messages BY DEF Procs
  <2>1. CASE StartDelete(d) BY <2>1 DEF StartDelete
  <2>2. CASE DelLazo(d) BY <2>2 DEF DelLazo, ForgetSketch
  <2>3. CASE DelPending(d) BY <2>3 DEF DelPending
  <2>4. CASE DelMain(d) BY <2>4 DEF DelMain
  <2>5. CASE DelSup(d) BY <2>5 DEF DelSup, DeleteByQuery
  <2> QED BY <1>2, <2>1, <2>2, <2>3, <2>4, <2>5 DEF Delete
<1>3. CASE Refresh BY <1>3 DEF Refresh
<1> QED BY <1>1, <1>2, <1>3 DEF Calm
(* A rewrite on its own makes all the indices agree again.                  *)
LEMMA AgreeMove ==
  ASSUME TypeOK, Reached, IndicesAgree, ~Overlap, Calm,
         \A p \in Procs, i \in Indices : ~Missed(p, i)
  PROVE  IndicesAgree'
<1> USE DEF TypeOK, Goto, GotoOrEnd, LeaveLoop, index, delivery, Labels, InThread, EsCalls, Rewriting, Deleting, AfterDelete, AllOutcomes, Indices, Reached, Overlap, IndicesAgree, Refused
<1>1. ASSUME NEW m \in Messages, Record(m) \/ Progress(m) \/ Reject(m)
      PROVE  IndicesAgree'
  <2> m \in Procs BY DEF Procs
  <2>1. CASE Record(m) BY <2>1 DEF Record
  <2>2. CASE Publish(m) BY <2>2 DEF Publish
  <2>3. CASE DownloadFails(m) BY <2>3 DEF DownloadFails, Finish
  <2>4. CASE StartProfile(m) BY <2>4 DEF StartProfile
  <2>5. CASE ProfileStops(m) BY <2>5 DEF ProfileStops, Finish
  <2>6. CASE ReplaceSketch(m) BY <2>6 DEF ReplaceSketch, ForgetSketch
  <2>7. CASE InsertSketch(m) BY <2>7 DEF InsertSketch, Finish
  <2>8. CASE StartCoro(m) BY <2>8 DEF StartCoro, Enter
  <2>9. CASE AddMain(m) BY <2>9 DEF AddMain
  <2>10. CASE AddSup(m) BY <2>10 DEF AddSup, IndexSup
  <2>11. CASE Announce(m) BY <2>11 DEF Announce
  <2>12. CASE Resume(m) BY <2>12 DEF Resume, Enter
  <2>13. CASE DropPending(m) BY <2>13 DEF DropPending
  <2>14. CASE Note(m) BY <2>14 DEF Note
  <2>15. CASE Ack(m) BY <2>15 DEF Ack
  <2>16. CASE MoveToFailed(m) BY <2>16 DEF MoveToFailed
  <2>17. CASE Reject(m) BY <2>17 DEF Reject
  <2>18. CASE DelLazo(m) BY <2>18 DEF DelLazo, ForgetSketch
  <2>19. CASE DelPending(m) BY <2>19 DEF DelPending
  <2>20. CASE DelMain(m) BY <2>20 DEF DelMain
  <2>21. CASE DelSup(m)
    <3>1. CASE pc[m] = "delColumns" /\ DeleteByQuery("columns") /\ GotoOrEnd(m, "delSpatial")
      <4>1. sup' = [sup EXCEPT !["columns"] = {}]
        BY <2>21, <3>1, DelSupFinds
      <4> QED BY <3>1, <4>1 DEF DeleteByQuery
    <3>2. CASE pc[m] = "delSpatial" /\ DeleteByQuery("spatial") /\ GotoOrEnd(m, AfterDelete(m))
      <4>1. sup' = [sup EXCEPT !["spatial"] = {}]
        BY <2>21, <3>2, DelSupFinds
      <4> QED BY <3>2, <4>1 DEF DeleteByQuery
    <3> QED BY <2>21, <3>1, <3>2 DEF DelSup
  <2>22. ASSUME NEW f \in Profilers, Deliver(m, f) PROVE IndicesAgree'
    BY <2>22 DEF Deliver
  <2> QED BY <1>1, <2>1, <2>2, <2>3, <2>4, <2>5, <2>6, <2>7, <2>8, <2>9, <2>10, <2>11, <2>12, <2>13, <2>14, <2>15, <2>16, <2>17, <2>18, <2>19, <2>20, <2>21, <2>22
       DEF Progress, Thread, Coro, Delete
<1>2. ASSUME NEW d \in Deleters, StartDelete(d) \/ Delete(d)
      PROVE  IndicesAgree'
  <2> d \in Procs /\ d \notin Messages BY DEF Procs
  <2>1. CASE StartDelete(d) BY <2>1 DEF StartDelete
  <2>2. CASE DelLazo(d) BY <2>2 DEF DelLazo, ForgetSketch
  <2>3. CASE DelPending(d) BY <2>3 DEF DelPending
  <2>4. CASE DelMain(d) BY <2>4 DEF DelMain
  <2>5. CASE DelSup(d)
    <3>1. CASE pc[d] = "delColumns" /\ DeleteByQuery("columns") /\ GotoOrEnd(d, "delSpatial")
      <4>1. sup' = [sup EXCEPT !["columns"] = {}]
        BY <2>5, <3>1, DelSupFinds
      <4> QED BY <3>1, <4>1 DEF DeleteByQuery
    <3>2. CASE pc[d] = "delSpatial" /\ DeleteByQuery("spatial") /\ GotoOrEnd(d, AfterDelete(d))
      <4>1. sup' = [sup EXCEPT !["spatial"] = {}]
        BY <2>5, <3>2, DelSupFinds
      <4> QED BY <3>2, <4>1 DEF DeleteByQuery
    <3> QED BY <2>5, <3>1, <3>2 DEF DelSup
  <2> QED BY <1>2, <2>1, <2>2, <2>3, <2>4, <2>5 DEF Delete
<1>3. CASE Refresh BY <1>3 DEF Refresh
<1> QED BY <1>1, <1>2, <1>3 DEF Calm

CalmInv ==
  faults = 0 =>
    /\ Reached
    /\ ~overlapped /\ ~missed => IndicesAgree

LEMMA InitCalm == Init => CalmInv
<1> SUFFICES ASSUME Init PROVE CalmInv
  OBVIOUS
<1>1. Reached
  BY DEF Init, Reached, InThread, Deleting
<1>2. IndicesAgree
  BY DEF Init, IndicesAgree, Rewriting, Deleting, Indices
<1> QED BY <1>1, <1>2 DEF CalmInv

LEMMA StepCalm == TypeOK /\ IInv /\ CalmInv /\ [Next]_vars => CalmInv'
<1> SUFFICES ASSUME TypeOK, IInv, CalmInv, [Next]_vars PROVE CalmInv'
  OBVIOUS
<1>1. CASE UNCHANGED vars
  BY <1>1 DEF vars, CalmInv, Reached, IndicesAgree, Refused
<1>2. CASE Next
  <2> SUFFICES ASSUME faults' = 0
               PROVE  Reached' /\ (~overlapped' /\ ~missed' => IndicesAgree')
    BY DEF CalmInv
  <2>1. faults = 0 /\ Calm
    BY <1>2, StaysCalm, CalmFaults DEF Next
  <2>2. Reached
    BY <2>1 DEF CalmInv
  <2>3. Reached'
    BY <2>1, <2>2, ReachedMove
  <2>4. ASSUME ~overlapped', ~missed' PROVE IndicesAgree'
    <3>1. ~overlapped /\ ~missed /\ \A p \in Procs, i \in Indices : ~Missed(p, i)
      BY <1>2, <2>4 DEF Next, History
    <3>2. IndicesAgree /\ ~Overlap
      BY <2>1, <3>1 DEF CalmInv, IInv
    <3> QED BY <2>1, <2>2, <3>1, <3>2, AgreeMove
  <2> QED BY <2>3, <2>4
<1> QED BY <1>1, <1>2

LEMMA CalmCorrect == Spec => []CalmInv
<1> QED BY InitIInv, InitCalm, TypeStep, StepIInv, StepCalm, PTL DEF Spec

(* When nothing fails, no two processes rewrite the dataset at once and no  *)
(* deletion comes before a refresh, what was indexed last is in all the     *)
(* indices, unless Elasticsearch refused a part of it: no step of           *)
(* delete_dataset_from_index() and add_dataset_to_index() is left out, and  *)
(* the deletions find all that the last insertion put there.                *)
THEOREM RewritesSettle == Spec => []Settles
<1>1. TypeOK /\ CalmInv => Settles
  <2> SUFFICES ASSUME TypeOK, CalmInv, Quiet, faults = 0, ~overlapped, ~missed
               PROVE  Refused \/ \A i \in Indices : sup[i] = {main} \ {None}
    BY DEF Settles
  <2>1. IndicesAgree
    BY DEF CalmInv
  <2>2. \A p \in Procs : pc[p] \notin Rewriting \ {"delMain"}
    BY DEF Quiet, Rewriting, Deleting
  <2> QED BY <2>1, <2>2 DEF IndicesAgree
<1> QED BY <1>1, TypeCorrect, CalmCorrect, PTL

(***************************************************************************)
(* What is remembered of a dataset that was processed, whatever fails.     *)
(***************************************************************************)

(* What was acknowledged has ended, but for the record of an error and the  *)
(* deletion of a dataset that is too big.                                   *)
AckedAt ==
  \A m \in acked :
    \/ pc[m] \in {"noteError", "end"}
    \/ /\ outcome[m] = "tooBig"
       /\ pc[m] \in Deleting \cup {"noteTooBig", "delLazo", "delPending", "delMain"}

(* Nothing happens to the id of an upload before it is published.           *)
UploadFirst ==
  \A u \in Uploads :
    pc[u] \in {"new", "recorded"} =>
      main = None /\ \A n \in Messages \ {u} : pc[n] = "new"

Unowned ==
  \A m \in Messages :
    /\ pc[m] \in {"new", "recorded", "ready", "end"} => owner[m] = None
    /\ pc[m] = "recorded" => m \in Uploads

Busy(m) == pc[m] \notin {"new", "ack", "end"}
Told(m) == pc[m] = "ack" \/ (m \in acked /\ pc[m] = "end")
Kept == main # None \/ pending = "error" \/ \E n \in Messages : Busy(n)
Forgotten ==
  \/ Removed \/ overtaken \/ lost # {}
  \/ \E m \in Messages : pc[m] = "end" /\ outcome[m] = "tooBig"

Remembered == (\E m \in Messages : Told(m)) => Forgotten \/ Kept
Memory == AckedAt /\ UploadFirst /\ Unowned

(* Who acknowledges goes on to the record, or to the end.                   *)
LEMMA AckedMove ==
  ASSUME TypeOK, AckedAt, Move
  PROVE  AckedAt'
<1> USE DEF TypeOK, Goto, GotoOrEnd, LeaveLoop, index, delivery, Labels, InThread, EsCalls, Rewriting, Deleting, AfterDelete, AllOutcomes, AckedAt
<1>1. ASSUME NEW m \in Messages,
             Record(m) \/ Progress(m) \/ Reject(m) \/ UploadDies(m)
      PROVE  AckedAt'
  <2> m \in Procs BY DEF Procs
  <2>1. CASE Record(m) BY <2>1 DEF Record
  <2>2. CASE Publish(m) BY <2>2 DEF Publish
  <2>3. CASE UploadDies(m) BY <2>3 DEF UploadDies
  <2>4. CASE DownloadFails(m) BY <2>4 DEF DownloadFails, Finish
  <2>5. CASE StartProfile(m) BY <2>5 DEF StartProfile
  <2>6. CASE ProfileStops(m) BY <2>6 DEF ProfileStops, Finish
  <2>7. CASE ReplaceSketch(m) BY <2>7 DEF ReplaceSketch, ForgetSketch
  <2>8. CASE InsertSketch(m) BY <2>8 DEF InsertSketch, Finish
  <2>9. CASE StartCoro(m) BY <2>9 DEF StartCoro, Enter
  <2>10. CASE AddMain(m) BY <2>10 DEF AddMain
  <2>11. CASE AddSup(m) BY <2>11 DEF AddSup, IndexSup
  <2>12. CASE Announce(m) BY <2>12 DEF Announce
  <2>13. CASE Resume(m) BY <2>13 DEF Resume, Enter
  <2>14. CASE DropPending(m) BY <2>14 DEF DropPending
  <2>15. CASE Note(m) BY <2>15 DEF Note
  <2>16. CASE Ack(m) BY <2>16 DEF Ack
  <2>17. CASE MoveToFailed(m) BY <2>17 DEF MoveToFailed
  <2>18. CASE Reject(m) BY <2>18 DEF Reject
  <2>19. CASE DelLazo(m) BY <2>19 DEF DelLazo, ForgetSketch
  <2>20. CASE DelPending(m) BY <2>20 DEF DelPending
  <2>21. CASE DelMain(m) BY <2>21 DEF DelMain
  <2>22. CASE DelSup(m) BY <2>22 DEF DelSup, DeleteByQuery
  <2>23. ASSUME NEW f \in Profilers, Deliver(m, f) PROVE AckedAt'
    BY <2>23 DEF Deliver
  <2> QED BY <1>1, <2>1, <2>2, <2>3, <2>4, <2>5, <2>6, <2>7, <2>8, <2>9, <2>10, <2>11, <2>12, <2>13, <2>14, <2>15, <2>16, <2>17, <2>18, <2>19, <2>20, <2>21, <2>22, <2>23
       DEF Progress, Thread, Coro, Delete
<1>2. ASSUME NEW d \in Deleters, StartDelete(d) \/ Delete(d)
      PROVE  AckedAt'
  <2> d \in Procs /\ d \notin Messages BY DEF Procs
  <2>1. CASE StartDelete(d) BY <2>1 DEF StartDelete
  <2>2. CASE DelLazo(d) BY <2>2 DEF DelLazo, ForgetSketch
  <2>3. CASE DelPending(d) BY <2>3 DEF DelPending
  <2>4. CASE DelMain(d) BY <2>4 DEF DelMain
  <2>5. CASE DelSup(d) BY <2>5 DEF DelSup, DeleteByQuery
  <2> QED BY <1>2, <2>1, <2>2, <2>3, <2>4, <2>5 DEF Delete
<1>3. ASSUME NEW p \in Procs, EsFails(p) PROVE AckedAt'
  BY <1>3 DEF EsFails, Requeue, CutShort
<1>4. ASSUME NEW f \in Profilers, ProfilerDies(f) PROVE AckedAt'
  <2>1. outcome' = outcome /\ acked' = acked
    BY <1>4 DEF ProfilerDies
  <2>2. \A n \in acked : pc'[n] = pc[n] \/ pc'[n] = "end"
    BY <1>4 DEF ProfilerDies, Requeue, Procs
  <2> QED BY <2>1, <2>2
<1>5. CASE Refresh BY <1>5 DEF Refresh
<1> QED BY <1>1, <1>2, <1>3, <1>4, <1>5 DEF Move

(* A message that is not an upload's needs a document to be published.      *)
LEMMA FirstMove ==
  ASSUME TypeOK, UploadFirst, Unowned, Move
  PROVE  UploadFirst'
<1> USE DEF TypeOK, Goto, GotoOrEnd, LeaveLoop, index, delivery, Labels, InThread, EsCalls, Rewriting, Deleting, AfterDelete, AllOutcomes, UploadFirst
<1>1. ASSUME NEW m \in Messages,
             Record(m) \/ Progress(m) \/ Reject(m) \/ UploadDies(m)
      PROVE  UploadFirst'
  <2> m \in Procs BY DEF Procs
  <2>1. CASE Record(m) BY <2>1 DEF Record
  <2>2. CASE Publish(m) BY <2>2 DEF Publish
  <2>3. CASE UploadDies(m) BY <2>3 DEF UploadDies
  <2>4. CASE DownloadFails(m) BY <2>4 DEF DownloadFails, Finish
  <2>5. CASE StartProfile(m) BY <2>5 DEF StartProfile
  <2>6. CASE ProfileStops(m) BY <2>6 DEF ProfileStops, Finish
  <2>7. CASE ReplaceSketch(m) BY <2>7 DEF ReplaceSketch, ForgetSketch
  <2>8. CASE InsertSketch(m) BY <2>8 DEF InsertSketch, Finish
  <2>9. CASE StartCoro(m) BY <2>9 DEF StartCoro, Enter
  <2>10. CASE AddMain(m) BY <2>10 DEF AddMain
  <2>11. CASE AddSup(m) BY <2>11 DEF AddSup, IndexSup
  <2>12. CASE Announce(m) BY <2>12 DEF Announce
  <2>13. CASE Resume(m) BY <2>13 DEF Resume, Enter
  <2>14. CASE DropPending(m) BY <2>14 DEF DropPending
  <2>15. CASE Note(m) BY <2>15 DEF Note
  <2>16. CASE Ack(m) BY <2>16 DEF Ack
  <2>17. CASE MoveToFailed(m) BY <2>17 DEF MoveToFailed
  <2>18. CASE Reject(m) BY <2>18 DEF Reject
  <2>19. CASE DelLazo(m) BY <2>19 DEF DelLazo, ForgetSketch
  <2>20. CASE DelPending(m) BY <2>20 DEF DelPending
  <2>21. CASE DelMain(m) BY <2>21 DEF DelMain
  <2>22. CASE DelSup(m) BY <2>22 DEF DelSup, DeleteByQuery
  <2>23. ASSUME NEW f \in Profilers, Deliver(m, f) PROVE UploadFirst'
    BY <2>23 DEF Deliver
  <2> QED BY <1>1, <2>1, <2>2, <2>3, <2>4, <2>5, <2>6, <2>7, <2>8, <2>9, <2>10, <2>11, <2>12, <2>13, <2>14, <2>15, <2>16, <2>17, <2>18, <2>19, <2>20, <2>21, <2>22, <2>23
       DEF Progress, Thread, Coro, Delete
<1>2. ASSUME NEW d \in Deleters, StartDelete(d) \/ Delete(d)
      PROVE  UploadFirst'
  <2> d \in Procs /\ d \notin Messages BY DEF Procs
  <2>1. CASE StartDelete(d) BY <2>1 DEF StartDelete
  <2>2. CASE DelLazo(d) BY <2>2 DEF DelLazo, ForgetSketch
  <2>3. CASE DelPending(d) BY <2>3 DEF DelPending
  <2>4. CASE DelMain(d) BY <2>4 DEF DelMain
  <2>5. CASE DelSup(d) BY <2>5 DEF DelSup, DeleteByQuery
  <2> QED BY <1>2, <2>1, <2>2, <2>3, <2>4, <2>5 DEF Delete
<1>3. ASSUME NEW p \in Procs, EsFails(p) PROVE UploadFirst'
  BY <1>3 DEF EsFails, Requeue, CutShort
<1>4. ASSUME NEW f \in Profilers, ProfilerDies(f) PROVE UploadFirst'
  <2>1. \A n \in Has(f) : pc[n] \notin {"new", "recorded"}
    BY DEF Has, Unowned
  <2>2. \A n \in Messages : pc'[n] = pc[n] \/ (pc'[n] \in {"ready", "end"} /\ pc[n] \notin {"new", "recorded"})
    BY <1>4, <2>1 DEF ProfilerDies, Requeue, Procs
  <2>3. main' = main
    BY <1>4 DEF ProfilerDies
  <2> QED BY <2>2, <2>3
<1>5. CASE Refresh BY <1>5 DEF Refresh
<1> QED BY <1>1, <1>2, <1>3, <1>4, <1>5 DEF Move

(* Who ends, or is requeued, has no profiler.                               *)
LEMMA UnownedMove ==
  ASSUME TypeOK, Unowned, Move
  PROVE  Unowned'
<1> USE DEF TypeOK, Goto, GotoOrEnd, LeaveLoop, index, delivery, Labels, InThread, EsCalls, Rewriting, Deleting, AfterDelete, AllOutcomes, Unowned
<1>1. ASSUME NEW m \in Messages,
             Record(m) \/ Progress(m) \/ Reject(m) \/ UploadDies(m)
      PROVE  Unowned'
  <2> m \in Procs BY DEF Procs
  <2>1. CASE Record(m) BY <2>1 DEF Record
  <2>2. CASE Publish(m) BY <2>2 DEF Publish
  <2>3. CASE UploadDies(m) BY <2>3 DEF UploadDies
  <2>4. CASE DownloadFails(m) BY <2>4 DEF DownloadFails, Finish
  <2>5. CASE StartProfile(m) BY <2>5 DEF StartProfile
  <2>6. CASE ProfileStops(m) BY <2>6 DEF ProfileStops, Finish
  <2>7. CASE ReplaceSketch(m) BY <2>7 DEF ReplaceSketch, ForgetSketch
  <2>8. CASE InsertSketch(m) BY <2>8 DEF InsertSketch, Finish
  <2>9. CASE StartCoro(m) BY <2>9 DEF StartCoro, Enter
  <2>10. CASE AddMain(m) BY <2>10 DEF AddMain
  <2>11. CASE AddSup(m) BY <2>11 DEF AddSup, IndexSup
  <2>12. CASE Announce(m) BY <2>12 DEF Announce
  <2>13. CASE Resume(m) BY <2>13 DEF Resume, Enter
  <2>14. CASE DropPending(m) BY <2>14 DEF DropPending
  <2>15. CASE Note(m) BY <2>15 DEF Note
  <2>16. CASE Ack(m) BY <2>16 DEF Ack
  <2>17. CASE MoveToFailed(m) BY <2>17 DEF MoveToFailed
  <2>18. CASE Reject(m) BY <2>18 DEF Reject
  <2>19. CASE DelLazo(m) BY <2>19 DEF DelLazo, ForgetSketch
  <2>20. CASE DelPending(m) BY <2>20 DEF DelPending
  <2>21. CASE DelMain(m) BY <2>21 DEF DelMain
  <2>22. CASE DelSup(m) BY <2>22 DEF DelSup, DeleteByQuery
  <2>23. ASSUME NEW f \in Profilers, Deliver(m, f) PROVE Unowned'
    BY <2>23 DEF Deliver
  <2> QED BY <1>1, <2>1, <2>2, <2>3, <2>4, <2>5, <2>6, <2>7, <2>8, <2>9, <2>10, <2>11, <2>12, <2>13, <2>14, <2>15, <2>16, <2>17, <2>18, <2>19, <2>20, <2>21, <2>22, <2>23
       DEF Progress, Thread, Coro, Delete
<1>2. ASSUME NEW d \in Deleters, StartDelete(d) \/ Delete(d)
      PROVE  Unowned'
  <2> d \in Procs /\ d \notin Messages BY DEF Procs
  <2>1. CASE StartDelete(d) BY <2>1 DEF StartDelete
  <2>2. CASE DelLazo(d) BY <2>2 DEF DelLazo, ForgetSketch
  <2>3. CASE DelPending(d) BY <2>3 DEF DelPending
  <2>4. CASE DelMain(d) BY <2>4 DEF DelMain
  <2>5. CASE DelSup(d) BY <2>5 DEF DelSup, DeleteByQuery
  <2> QED BY <1>2, <2>1, <2>2, <2>3, <2>4, <2>5 DEF Delete
<1>3. ASSUME NEW p \in Procs, EsFails(p) PROVE Unowned'
  BY <1>3 DEF EsFails, Requeue, CutShort
<1>4. ASSUME NEW f \in Profilers, ProfilerDies(f) PROVE Unowned'
  BY <1>4 DEF ProfilerDies, Requeue, CutShort, Has
<1>5. CASE Refresh BY <1>5 DEF Refresh
<1> QED BY <1>1, <1>2, <1>3, <1>4, <1>5 DEF Move

(* Who has ended does nothing more.                                         *)
LEMMA EndedStays ==
  ASSUME TypeOK, Unowned, NEW e \in Messages, pc[e] = "end", Move
  PROVE  pc'[e] = "end" /\ outcome'[e] = outcome[e]
<1> USE DEF TypeOK, Goto, GotoOrEnd, LeaveLoop, index, delivery, Labels, InThread, EsCalls, Rewriting, Deleting, AfterDelete, AllOutcomes, Unowned
<1>1. ASSUME NEW m \in Messages,
             Record(m) \/ Progress(m) \/ Reject(m) \/ UploadDies(m)
      PROVE  pc'[e] = "end" /\ outcome'[e] = outcome[e]
  <2> m \in Procs BY DEF Procs
  <2>1. CASE Record(m) BY <2>1 DEF Record
  <2>2. CASE Publish(m) BY <2>2 DEF Publish
  <2>3. CASE UploadDies(m) BY <2>3 DEF UploadDies
  <2>4. CASE DownloadFails(m) BY <2>4 DEF DownloadFails, Finish
  <2>5. CASE StartProfile(m) BY <2>5 DEF StartProfile
  <2>6. CASE ProfileStops(m) BY <2>6 DEF ProfileStops, Finish
  <2>7. CASE ReplaceSketch(m) BY <2>7 DEF ReplaceSketch, ForgetSketch
  <2>8. CASE InsertSketch(m) BY <2>8 DEF InsertSketch, Finish
  <2>9. CASE StartCoro(m) BY <2>9 DEF StartCoro, Enter
  <2>10. CASE AddMain(m) BY <2>10 DEF AddMain
  <2>11. CASE AddSup(m) BY <2>11 DEF AddSup, IndexSup
  <2>12. CASE Announce(m) BY <2>12 DEF Announce
  <2>13. CASE Resume(m) BY <2>13 DEF Resume, Enter
  <2>14. CASE DropPending(m) BY <2>14 DEF DropPending
  <2>15. CASE Note(m) BY <2>15 DEF Note
  <2>16. CASE Ack(m) BY <2>16 DEF Ack
  <2>17. CASE MoveToFailed(m) BY <2>17 DEF MoveToFailed
  <2>18. CASE Reject(m) BY <2>18 DEF Reject
  <2>19. CASE DelLazo(m) BY <2>19 DEF DelLazo, ForgetSketch
  <2>20. CASE DelPending(m) BY <2>20 DEF DelPending
  <2>21. CASE DelMain(m) BY <2>21 DEF DelMain
  <2>22. CASE DelSup(m) BY <2>22 DEF DelSup, DeleteByQuery
  <2>23. ASSUME NEW f \in Profilers, Deliver(m, f) PROVE pc'[e] = "end" /\ outcome'[e] = outcome[e]
    BY <2>23 DEF Deliver
  <2> QED BY <1>1, <2>1, <2>2, <2>3, <2>4, <2>5, <2>6, <2>7, <2>8, <2>9, <2>10, <2>11, <2>12, <2>13, <2>14, <2>15, <2>16, <2>17, <2>18, <2>19, <2>20, <2>21, <2>22, <2>23
       DEF Progress, Thread, Coro, Delete
<1>2. ASSUME NEW d \in Deleters, StartDelete(d) \/ Delete(d)
      PROVE  pc'[e] = "end" /\ outcome'[e] = outcome[e]
  <2> d \in Procs /\ d \notin Messages BY DEF Procs
  <2>1. CASE StartDelete(d) BY <2>1 DEF StartDelete
  <2>2. CASE DelLazo(d) BY <2>2 DEF DelLazo, ForgetSketch
  <2>3. CASE DelPending(d) BY <2>3 DEF DelPending
  <2>4. CASE DelMain(d) BY <2>4 DEF DelMain
  <2>5. CASE DelSup(d) BY <2>5 DEF DelSup, DeleteByQuery
  <2> QED BY <1>2, <2>1, <2>2, <2>3, <2>4, <2>5 DEF Delete
<1>3. ASSUME NEW p \in Procs, EsFails(p) PROVE pc'[e] = "end" /\ outcome'[e] = outcome[e]
  BY <1>3 DEF EsFails, Requeue, CutShort
<1>4. ASSUME NEW f \in Profilers, ProfilerDies(f) PROVE pc'[e] = "end" /\ outcome'[e] = outcome[e]
  BY <1>4 DEF ProfilerDies, Requeue, CutShort, Has
<1>5. CASE Refresh BY <1>5 DEF Refresh
<1> QED BY <1>1, <1>2, <1>3, <1>4, <1>5 DEF Move

LEMMA StartedStays ==
  ASSUME TypeOK, NEW e \in Deleters, pc[e] # "new", Move
  PROVE  pc'[e] # "new"
<1> USE DEF TypeOK, Goto, GotoOrEnd, LeaveLoop, index, delivery, Labels, InThread, EsCalls, Rewriting, Deleting, AfterDelete, AllOutcomes
<1>1. ASSUME NEW m \in Messages,
             Record(m) \/ Progress(m) \/ Reject(m) \/ UploadDies(m)
      PROVE  pc'[e] # "new"
  <2> m \in Procs BY DEF Procs
  <2>1. CASE Record(m) BY <2>1 DEF Record
  <2>2. CASE Publish(m) BY <2>2 DEF Publish
  <2>3. CASE UploadDies(m) BY <2>3 DEF UploadDies
  <2>4. CASE DownloadFails(m) BY <2>4 DEF DownloadFails, Finish
  <2>5. CASE StartProfile(m) BY <2>5 DEF StartProfile
  <2>6. CASE ProfileStops(m) BY <2>6 DEF ProfileStops, Finish
  <2>7. CASE ReplaceSketch(m) BY <2>7 DEF ReplaceSketch, ForgetSketch
  <2>8. CASE InsertSketch(m) BY <2>8 DEF InsertSketch, Finish
  <2>9. CASE StartCoro(m) BY <2>9 DEF StartCoro, Enter
  <2>10. CASE AddMain(m) BY <2>10 DEF AddMain
  <2>11. CASE AddSup(m) BY <2>11 DEF AddSup, IndexSup
  <2>12. CASE Announce(m) BY <2>12 DEF Announce
  <2>13. CASE Resume(m) BY <2>13 DEF Resume, Enter
  <2>14. CASE DropPending(m) BY <2>14 DEF DropPending
  <2>15. CASE Note(m) BY <2>15 DEF Note
  <2>16. CASE Ack(m) BY <2>16 DEF Ack
  <2>17. CASE MoveToFailed(m) BY <2>17 DEF MoveToFailed
  <2>18. CASE Reject(m) BY <2>18 DEF Reject
  <2>19. CASE DelLazo(m) BY <2>19 DEF DelLazo, ForgetSketch
  <2>20. CASE DelPending(m) BY <2>20 DEF DelPending
  <2>21. CASE DelMain(m) BY <2>21 DEF DelMain
  <2>22. CASE DelSup(m) BY <2>22 DEF DelSup, DeleteByQuery
  <2>23. ASSUME NEW f \in Profilers, Deliver(m, f) PROVE pc'[e] # "new"
    BY <2>23 DEF Deliver
  <2> QED BY <1>1, <2>1, <2>2, <2>3, <2>4, <2>5, <2>6, <2>7, <2>8, <2>9, <2>10, <2>11, <2>12, <2>13, <2>14, <2>15, <2>16, <2>17, <2>18, <2>19, <2>20, <2>21, <2>22, <2>23
       DEF Progress, Thread, Coro, Delete
<1>2. ASSUME NEW d \in Deleters, StartDelete(d) \/ Delete(d)
      PROVE  pc'[e] # "new"
  <2> d \in Procs /\ d \notin Messages BY DEF Procs
  <2>1. CASE StartDelete(d) BY <2>1 DEF StartDelete
  <2>2. CASE DelLazo(d) BY <2>2 DEF DelLazo, ForgetSketch
  <2>3. CASE DelPending(d) BY <2>3 DEF DelPending
  <2>4. CASE DelMain(d) BY <2>4 DEF DelMain
  <2>5. CASE DelSup(d) BY <2>5 DEF DelSup, DeleteByQuery
  <2> QED BY <1>2, <2>1, <2>2, <2>3, <2>4, <2>5 DEF Delete
<1>3. ASSUME NEW p \in Procs, EsFails(p) PROVE pc'[e] # "new"
  BY <1>3 DEF EsFails, Requeue, CutShort
<1>4. ASSUME NEW f \in Profilers, ProfilerDies(f) PROVE pc'[e] # "new"
  BY <1>4 DEF ProfilerDies, Requeue, CutShort, Has
<1>5. CASE Refresh BY <1>5 DEF Refresh
<1> QED BY <1>1, <1>2, <1>3, <1>4, <1>5 DEF Move

(* What made the dataset be forgotten stays.                                *)
LEMMA ForgottenStays ==
  ASSUME TypeOK, AckedAt, Unowned, Forgotten, Next
  PROVE  Forgotten'
<1>1. ASSUME overtaken \/ lost # {} PROVE Forgotten'
  BY <1>1 DEF Next, History, Forgotten
<1>2. ASSUME NEW d \in Deleters, pc[d] # "new" PROVE Forgotten'
  <2>1. pc'[d] # "new"
    BY <1>2, StartedStays DEF Next
  <2> QED BY <2>1 DEF Forgotten, Removed
<1>3. ASSUME NEW m \in Messages, pc[m] = "end", outcome[m] = "tooBig" PROVE Forgotten'
  <2>1. pc'[m] = "end" /\ outcome'[m] = outcome[m]
    BY <1>3, EndedStays DEF Next
  <2> QED BY <1>3, <2>1 DEF Forgotten
<1> QED BY <1>1, <1>2, <1>3 DEF Forgotten, Removed

(* Where a message is busy, its dataset is not forgotten; where it is not   *)
(* any more, there is a document or the record of an error.                 *)
LEMMA RememberedMove ==
  ASSUME TypeOK, Memory, (\E m \in Messages : Told(m)) => Kept, Move, ~Forgotten',
         \A m \in Messages : ~Overtaken(m) /\ ~Lost(m)
  PROVE  (\E m \in Messages : Told(m))' => Kept'
<1> DEFINE Goal == (\E n \in Messages : Told(n))' => Kept'
<1> SUFFICES Goal
  OBVIOUS
<1>a. ASSUME NEW m \in Messages, Busy(m)' PROVE Goal
  BY <1>a DEF Kept
<1>b. ASSUME pending' = "error" PROVE Goal
  BY <1>b DEF Kept
<1>c. ASSUME main' # None PROVE Goal
  BY <1>c DEF Kept
<1>d. ASSUME NEW m \in Messages, pc' = [pc EXCEPT ![m] = "end"], outcome' = outcome, outcome[m] = "tooBig"
      PROVE  FALSE
  BY <1>d DEF Forgotten, TypeOK
<1>e. \A d \in Deleters : pc'[d] = "new"
  BY DEF Forgotten, Removed
<1> HIDE DEF Goal
<1> USE DEF TypeOK, Goto, GotoOrEnd
<1>1. ASSUME NEW m \in Messages,
             Record(m) \/ Progress(m) \/ Reject(m) \/ UploadDies(m)
      PROVE  Goal
  <2> m \in Procs BY DEF Procs
  <2>1. ASSUME NEW label, Goto(m, label), label \notin {"new", "ack", "end"} PROVE Goal
    <3>1. pc'[m] = label
      BY <2>1
    <3> QED BY <2>1, <3>1, <1>a DEF Busy
  <2> USE DEF InThread, EsCalls, Rewriting, Deleting, AllOutcomes
  <2>2. CASE Record(m) BY <2>2, <2>1 DEF Record
  <2>3. CASE Publish(m) BY <2>3, <2>1 DEF Publish
  <2>4. CASE UploadDies(m)
    <3>1. /\ pc[m] = "recorded" /\ pc' = [pc EXCEPT ![m] = "end"] /\ acked' = acked
          /\ m \in Uploads
      BY <2>4 DEF UploadDies, Memory, Unowned
    <3>2. \A n \in Messages \ {m} : pc[n] = "new"
      BY <3>1 DEF Memory, UploadFirst
    <3>3. m \notin acked
      BY <3>1 DEF Memory, AckedAt, Deleting
    <3>4. \A n \in Messages : ~Told(n)'
      BY <3>1, <3>2, <3>3 DEF Told, Memory, AckedAt
    <3> QED BY <3>4 DEF Goal
  <2>5. CASE DownloadFails(m) BY <2>5, <2>1 DEF DownloadFails, Finish
  <2>6. CASE StartProfile(m) BY <2>6, <2>1 DEF StartProfile
  <2>7. CASE ProfileStops(m) BY <2>7, <2>1 DEF ProfileStops, Finish
  <2>8. CASE ReplaceSketch(m) BY <2>8, <2>1 DEF ReplaceSketch, ForgetSketch
  <2>9. CASE InsertSketch(m) BY <2>9, <2>1 DEF InsertSketch, Finish
  <2>10. CASE StartCoro(m) BY <2>10, <2>1 DEF StartCoro, Enter
  <2>11. CASE AddMain(m) BY <2>11, <2>1 DEF AddMain
  <2>12. CASE AddSup(m) BY <2>12, <2>1 DEF AddSup, IndexSup
  <2>13. CASE Announce(m) BY <2>13, <2>1 DEF Announce
  <2>14. CASE Resume(m) BY <2>14, <2>1 DEF Resume, Enter
  <2>15. CASE DropPending(m)
    <3>1. pc[m] = "dropPending" /\ pc'[m] = "ack" /\ main' = main
      BY <2>15 DEF DropPending
    <3>2. main # None
      BY <3>1 DEF Overtaken
    <3> QED BY <3>1, <3>2, <1>c
  <2>16. CASE Note(m)
    <3>1. pending' = "error"
      BY <2>16 DEF Note
    <3> QED BY <3>1, <1>b
  <2>17. CASE Ack(m)
    <3>1. CASE pc[m] = "ack" /\ GotoOrEnd(m, "end")
      <4>1. Kept
        BY <3>1 DEF Told
      <4>2. /\ main' = main /\ pending' = pending
            /\ \A n \in Messages \ {m} : pc'[n] = pc[n]
        BY <2>17, <3>1 DEF Ack, index
      <4>3. ~Busy(m)
        BY <3>1 DEF Busy
      <4> QED BY <4>1, <4>2, <4>3 DEF Kept, Goal, Busy
    <3>2. CASE GotoOrEnd(m, "noteError")
      BY <3>2, <2>1
    <3> QED BY <2>17, <3>1, <3>2 DEF Ack
  <2>18. CASE MoveToFailed(m) BY <2>18, <2>1 DEF MoveToFailed
  <2>19. CASE Reject(m) BY <2>19, <2>1 DEF Reject
  <2>20. CASE DelLazo(m) BY <2>20, <2>1 DEF DelLazo, ForgetSketch
  <2>21. CASE DelPending(m) BY <2>21, <2>1 DEF DelPending
  <2>22. CASE DelMain(m)
    <3>1. CASE outcome[m] = "tooBig" /\ AfterDelete(m) = "end" /\ Goto(m, "end")
      BY <2>22, <3>1, <1>d DEF DelMain
    <3>2. CASE \E label \in {"delColumns", "addMain", "noteEmpty"} : Goto(m, label)
      BY <3>2, <2>1
    <3> QED BY <2>22, <3>1, <3>2 DEF DelMain, AfterDelete
  <2>23. CASE DelSup(m)
    <3>1. CASE outcome[m] = "tooBig" /\ AfterDelete(m) = "end" /\ Goto(m, "end")
      BY <2>23, <3>1, <1>d DEF DelSup
    <3>2. CASE \E label \in {"delSpatial", "addMain", "noteEmpty"} : Goto(m, label)
      BY <3>2, <2>1
    <3> QED BY <2>23, <3>1, <3>2 DEF DelSup, AfterDelete
  <2>24. ASSUME NEW f \in Profilers, Deliver(m, f) PROVE Goal
    BY <2>24, <2>1 DEF Deliver
  <2> QED BY <1>1, <2>2, <2>3, <2>4, <2>5, <2>6, <2>7, <2>8, <2>9, <2>10, <2>11, <2>12, <2>13, <2>14, <2>15, <2>16, <2>17, <2>18, <2>19, <2>20, <2>21, <2>22, <2>23, <2>24
       DEF Progress, Thread, Coro, Delete
<1>2. ASSUME NEW d \in Deleters, StartDelete(d) \/ Delete(d)
      PROVE  Goal
  <2> d \in Procs /\ d \notin Messages BY DEF Procs
  <2>1. pc'[d] # "new"
    BY <1>2 DEF StartDelete, Delete, DelLazo, DelPending, DelMain, DelSup, AfterDelete
  <2> QED BY <2>1, <1>e
<1>3. ASSUME NEW S \in SUBSET Procs, Requeue(S), UNCHANGED <<main, pending, acked, outcome>>,
             \A n \in Messages \cap S : pc[n] # "end"
      PROVE  Goal
  <2>1. ASSUME NEW n \in Messages \ acked, n \in S PROVE Goal
    <3>1. pc'[n] = "ready"
      BY <1>3, <2>1 DEF Requeue, Procs
    <3> QED BY <3>1, <2>1, <1>a DEF Busy
  <2>2. ASSUME NEW n \in Messages \cap acked, n \in S PROVE Goal
    <3>1. pc'[n] = "end"
      BY <1>3, <2>2 DEF Requeue, Procs
    <3>2. outcome[n] # "tooBig"
      BY <1>3, <3>1 DEF Forgotten
    <3>3. pc[n] = "noteError"
      BY <1>3, <2>2, <3>2 DEF Memory, AckedAt
    <3>4. pending' = "error"
      BY <3>1, <3>3 DEF Lost
    <3> QED BY <3>4, <1>b
  <2>3. ASSUME Messages \cap S = {} PROVE Goal
    <3>1. \A n \in Messages : pc'[n] = pc[n]
      BY <1>3, <2>3 DEF Requeue, Procs
    <3> QED BY <1>3, <3>1 DEF Goal, Told, Kept, Busy
  <2> QED BY <2>1, <2>2, <2>3
<1>4. ASSUME NEW p \in Procs, EsFails(p) PROVE Goal
  <2>1. pc[p] # "end"
    BY <1>4 DEF EsFails, EsCalls, Rewriting, Deleting
  <2>2. Requeue({p}) /\ UNCHANGED <<main, pending, acked, outcome>>
    BY <1>4 DEF EsFails, index
  <2> QED BY <1>3, <2>1, <2>2
<1>5. ASSUME NEW f \in Profilers, ProfilerDies(f) PROVE Goal
  <2>1. \A n \in Has(f) : pc[n] # "end"
    BY DEF Has, Memory, Unowned
  <2>2. Requeue(Has(f)) /\ UNCHANGED <<main, pending, acked, outcome>>
    BY <1>5 DEF ProfilerDies, index
  <2>3. Has(f) \in SUBSET Procs
    BY DEF Has, Procs
  <2> QED BY <1>3, <2>1, <2>2, <2>3
<1>6. CASE Refresh
  BY <1>6 DEF Refresh, Goal, Told, Kept, Busy
<1> QED BY <1>1, <1>2, <1>4, <1>5, <1>6 DEF Move

LEMMA MemoryStep == TypeOK /\ Memory /\ Remembered /\ [Next]_vars => Memory' /\ Remembered'
<1> SUFFICES ASSUME TypeOK, Memory, Remembered, [Next]_vars PROVE Memory' /\ Remembered'
  OBVIOUS
<1>1. CASE UNCHANGED vars
  BY <1>1 DEF vars, Memory, AckedAt, UploadFirst, Unowned, Remembered, Told, Kept, Busy, Forgotten, Removed
<1>2. CASE Next
  <2>1. Memory'
    BY <1>2, AckedMove, FirstMove, UnownedMove DEF Next, Memory
  <2>2. ASSUME Forgotten' PROVE Remembered'
    BY <2>2 DEF Remembered
  <2>3. ASSUME ~Forgotten' PROVE Remembered'
    <3>1. ~Forgotten
      BY <1>2, <2>3, ForgottenStays DEF Memory
    <3>2. \A m \in Messages : ~Overtaken(m) /\ ~Lost(m)
      BY <1>2, <2>3 DEF Forgotten, Next, History
    <3>3. (\E m \in Messages : Told(m)) => Kept
      BY <3>1 DEF Remembered
    <3>4. ((\E m \in Messages : Told(m)) => Kept)'
      BY <1>2, <2>3, <3>2, <3>3, RememberedMove DEF Next
    <3> QED BY <3>4 DEF Remembered
  <2> QED BY <2>1, <2>2, <2>3
<1> QED BY <1>1, <1>2

(* What was processed can be found, or 'pending' says what went wrong,      *)
(* whatever is refused, killed and delivered again, for any number of       *)
(* messages and profilers: a coroutine that drops a record has put the      *)
(* dataset in the index, unless it was overtaken, and one that takes the    *)
(* dataset out has not ended before it put it back or wrote the error.      *)
THEOREM ProcessedIsAccounted == Spec => []Accounted
<1>1. Init => Memory /\ Remembered
  BY DEF Init, Memory, AckedAt, UploadFirst, Unowned, Remembered, Told
<1>2. TypeOK /\ Remembered => Accounted
  <2> SUFFICES ASSUME TypeOK, Remembered, Quiet, ~Removed, ~Processing, ~Forgotten
               PROVE  main # None \/ pending = "error"
    BY DEF Accounted, Forgotten
  <2>1. \E m \in Messages : Told(m)
    BY DEF Processing, Told, TypeOK
  <2> QED BY <2>1 DEF Remembered, Kept, Busy, Quiet
<1> QED BY <1>1, <1>2, MemoryStep, TypeCorrect, PTL DEF Spec

=============================================================================
