-------------------------- MODULE ShortenerProofs --------------------------
(***************************************************************************)
(* Proofs about Shortener, for any links, savers and bound on clicks.      *)
(* The mutex makes the saver that holds it the only one with content       *)
(* (LockOK); what it has read lies between the file and the memory         *)
(* (FileBehind, ReadBetween), and is the present count unless another save *)
(* is already waiting (ReadFresh).                                         *)
(***************************************************************************)
EXTENDS Shortener, TLAPS

USE NoSaverAssumption, MaxClicksAssumption

Busy == {"read", "writing", "rename"}

\* One saver at a time is past the mutex; the others have nothing.
LockOK ==
    \A g \in Savers :
        /\ pc[g] \in Busy <=> lock = g
        /\ pc[g] \notin Busy => todo[g] = {} /\ buf[g] = Nothing
        /\ pc[g] \in {"writing", "rename"} => todo[g] = {}

\* A saver renames the complete file it has written.
WrittenOK ==
    /\ "file" \notin torn
    /\ \A g \in Savers : pc[g] = "rename" => tmp = buf[g] /\ "tmp" \notin torn

\* Nobody has heard of a link before it is created.
UnissuedOK ==
    \A i \in Ids \ issued :
        /\ clicks[i] = 0 /\ file[i] = Absent
        /\ \A g \in Savers : i \notin todo[g] /\ buf[g][i] = Absent

\* The memory is ahead of the file and of what savers have read.
FileBehind ==
    \A i \in Ids :
        /\ file[i] <= clicks[i]
        /\ \A g \in Savers : buf[g][i] <= clicks[i]

\* What the running saver has read is ahead of the file, and it has read or
\* will read every stored link that the file knows.
ReadBetween ==
    \A g \in Savers : pc[g] \in Busy => \A i \in Ids \ todo[g] :
        /\ buf[g][i] = Absent \/ file[i] <= buf[g][i]
        /\ i \in stored => file[i] <= buf[g][i]

\* What the running saver has read is the present count, or a later save is
\* already waiting.
ReadFresh ==
    \A g \in Savers : pc[g] \in Busy => \A i \in stored \ todo[g] :
        buf[g][i] = clicks[i] \/ \E h \in Savers : pc[h] = "waiting"

Inv ==
    /\ TypeOK
    /\ MapsAgree
    /\ LockOK
    /\ WrittenOK
    /\ UnissuedOK
    /\ FileBehind
    /\ ReadBetween
    /\ ReadFresh
    /\ NoUpdateForgotten

LEMMA CreatePreserves ==
    ASSUME Inv, NEW i \in Ids, Create(i)
    PROVE  Inv'
<1>1. TypeOK'
  BY DEF Create, SpawnSaver, files, Steps, Inv, TypeOK
<1>2. MapsAgree'
  BY DEF Create, Inv, MapsAgree
<1>3. LockOK'
  BY DEF Create, SpawnSaver, Busy, Inv, LockOK
<1>4. WrittenOK'
  BY DEF Create, SpawnSaver, files, Inv, WrittenOK
<1>5. UnissuedOK'
  BY DEF Create, files, Inv, UnissuedOK
<1>6. FileBehind'
  BY DEF Create, files, Inv, FileBehind
<1>7. ReadBetween'
  BY DEF Create, SpawnSaver, files, Busy, UnissuedOK, Absent, Inv, ReadBetween
<1>8. ReadFresh'
  BY DEF Create, SpawnSaver, Inv, TypeOK, ReadFresh
<1>9. NoUpdateForgotten'
  BY DEF Create, SpawnSaver, WillSave, Inv, TypeOK, NoUpdateForgotten
<1> QED
  BY <1>1, <1>2, <1>3, <1>4, <1>5, <1>6, <1>7, <1>8, <1>9 DEF Inv

LEMMA ResolvePreserves ==
    ASSUME Inv, NEW i \in Ids, Resolve(i)
    PROVE  Inv'
<1>1. TypeOK'
  <2>1. clicks' \in [Ids -> 0..MaxClicks]
    BY DEF Resolve, Inv, TypeOK
  <2>2. pc' \in [Savers -> Steps]
    BY DEF Resolve, SpawnSaver, Inv, TypeOK, Steps
  <2> QED
    BY <2>2 DEF Resolve, files, Inv, TypeOK
<1>2. MapsAgree'
  BY DEF Resolve, Inv, MapsAgree
<1>3. LockOK'
  BY DEF Resolve, SpawnSaver, Busy, Inv, LockOK
<1>4. WrittenOK'
  BY DEF Resolve, SpawnSaver, files, Inv, WrittenOK
<1>5. UnissuedOK'
  BY DEF Resolve, files, Inv, TypeOK, UnissuedOK
<1>6. FileBehind'
  BY DEF Resolve, files, Absent, Content, Inv, TypeOK, FileBehind
<1>7. ReadBetween'
  BY DEF Resolve, SpawnSaver, files, Busy, Inv, MapsAgree, ReadBetween
<1>8. ReadFresh'
  BY DEF Resolve, SpawnSaver, Inv, TypeOK, ReadFresh
<1>9. NoUpdateForgotten'
  BY DEF Resolve, SpawnSaver, WillSave, Inv, TypeOK, NoUpdateForgotten
<1> QED
  BY <1>1, <1>2, <1>3, <1>4, <1>5, <1>6, <1>7, <1>8, <1>9 DEF Inv

LEMMA DeletePreserves ==
    ASSUME Inv, NEW i \in Ids, Delete(i)
    PROVE  Inv'
<1>1. TypeOK'
  BY DEF Delete, Remove, files, Inv, TypeOK
<1>2. MapsAgree'
  BY DEF Delete, Remove, Inv, MapsAgree
<1>3. LockOK'
  BY DEF Delete, Remove, Inv, LockOK
<1>4. WrittenOK'
  BY DEF Delete, Remove, files, Inv, WrittenOK
<1>5. UnissuedOK'
  BY DEF Delete, Remove, files, Inv, UnissuedOK
<1>6. FileBehind'
  BY DEF Delete, Remove, files, Inv, FileBehind
<1>7. ReadBetween'
  BY DEF Delete, Remove, files, Inv, ReadBetween
<1>8. ReadFresh'
  BY DEF Delete, Remove, Inv, ReadFresh
<1>9. NoUpdateForgotten'
  BY DEF Delete, Remove, files, WillSave, Inv, NoUpdateForgotten
<1> QED
  BY <1>1, <1>2, <1>3, <1>4, <1>5, <1>6, <1>7, <1>8, <1>9 DEF Inv

LEMMA CleanupPreserves ==
    ASSUME Inv, Cleanup
    PROVE  Inv'
<1>1. TypeOK'
  BY DEF Cleanup, Remove, files, Inv, TypeOK
<1>2. MapsAgree'
  BY DEF Cleanup, Remove, Inv, MapsAgree
<1>3. LockOK'
  BY DEF Cleanup, Remove, Inv, LockOK
<1>4. WrittenOK'
  BY DEF Cleanup, Remove, files, Inv, WrittenOK
<1>5. UnissuedOK'
  BY DEF Cleanup, Remove, files, Inv, UnissuedOK
<1>6. FileBehind'
  BY DEF Cleanup, Remove, files, Inv, FileBehind
<1>7. ReadBetween'
  BY DEF Cleanup, Remove, files, Inv, ReadBetween
<1>8. ReadFresh'
  BY DEF Cleanup, Remove, Inv, ReadFresh
<1>9. NoUpdateForgotten'
  BY DEF Cleanup, Remove, files, WillSave, Inv, NoUpdateForgotten
<1> QED
  BY <1>1, <1>2, <1>3, <1>4, <1>5, <1>6, <1>7, <1>8, <1>9 DEF Inv

LEMMA ExpirePreserves ==
    ASSUME Inv, NEW i \in Ids, Expire(i)
    PROVE  Inv'
<1>1. TypeOK'
  BY DEF Expire, files, Inv, TypeOK
<1>2. MapsAgree'
  BY DEF Expire, Inv, MapsAgree
<1>3. LockOK'
  BY DEF Expire, Inv, LockOK
<1>4. WrittenOK'
  BY DEF Expire, files, Inv, WrittenOK
<1>5. UnissuedOK'
  BY DEF Expire, files, Inv, UnissuedOK
<1>6. FileBehind'
  BY DEF Expire, files, Inv, FileBehind
<1>7. ReadBetween'
  BY DEF Expire, files, Inv, ReadBetween
<1>8. ReadFresh'
  BY DEF Expire, Inv, ReadFresh
<1>9. NoUpdateForgotten'
  BY DEF Expire, files, WillSave, Inv, NoUpdateForgotten
<1> QED
  BY <1>1, <1>2, <1>3, <1>4, <1>5, <1>6, <1>7, <1>8, <1>9 DEF Inv

LEMMA StartSavePreserves ==
    ASSUME Inv, NEW g \in Savers, StartSave(g)
    PROVE  Inv'
<1>1. TypeOK'
  BY DEF StartSave, memory, files, Steps, Inv, TypeOK
<1>2. MapsAgree'
  BY DEF StartSave, memory, Inv, MapsAgree
<1>3. LockOK'
  BY DEF StartSave, Busy, Inv, TypeOK, LockOK
<1>4. WrittenOK'
  BY DEF StartSave, files, Inv, WrittenOK
<1>5. UnissuedOK'
  BY DEF StartSave, memory, files, Inv, TypeOK, UnissuedOK
<1>6. FileBehind'
  BY DEF StartSave, memory, files, Inv, FileBehind
<1>7. ReadBetween'
  BY DEF StartSave, memory, LockOK, Nothing, Inv, TypeOK, ReadBetween
<1>8. ReadFresh'
  BY DEF StartSave, memory, LockOK, Inv, TypeOK, ReadFresh
<1>9. NoUpdateForgotten'
  BY DEF StartSave, memory, WillSave, Inv, TypeOK, NoUpdateForgotten
<1> QED
  BY <1>1, <1>2, <1>3, <1>4, <1>5, <1>6, <1>7, <1>8, <1>9 DEF Inv

LEMMA ReadLinkPreserves ==
    ASSUME Inv, NEW g \in Savers, NEW i \in Ids, ReadLink(g, i)
    PROVE  Inv'
<1>1. TypeOK'
  BY DEF ReadLink, memory, files, Content, Inv, TypeOK
<1>2. MapsAgree'
  BY DEF ReadLink, memory, Inv, MapsAgree
<1>3. LockOK'
  BY DEF ReadLink, Inv, LockOK
<1>4. WrittenOK'
  BY DEF ReadLink, files, Inv, WrittenOK
<1>5. UnissuedOK'
  BY DEF ReadLink, memory, files, Inv, UnissuedOK
<1>6. FileBehind'
  BY DEF ReadLink, memory, files, Inv, TypeOK, FileBehind
<1>7. ReadBetween'
  BY DEF ReadLink, memory, files, FileBehind, Content, Inv, TypeOK,
     ReadBetween
<1>8. ReadFresh'
  BY DEF ReadLink, memory, Content, Inv, TypeOK, ReadFresh
<1>9. NoUpdateForgotten'
  BY DEF ReadLink, memory, files, WillSave, Content, Inv, TypeOK,
     NoUpdateForgotten
<1> QED
  BY <1>1, <1>2, <1>3, <1>4, <1>5, <1>6, <1>7, <1>8, <1>9 DEF Inv

LEMMA BeginWritePreserves ==
    ASSUME Inv, NEW g \in Savers, BeginWrite(g)
    PROVE  Inv'
<1>1. TypeOK'
  BY DEF BeginWrite, memory, Steps, Content, Nothing, Inv, TypeOK
<1>2. MapsAgree'
  BY DEF BeginWrite, memory, Inv, MapsAgree
<1>3. LockOK'
  BY DEF BeginWrite, Busy, Inv, LockOK
<1>4. WrittenOK'
  BY DEF BeginWrite, Inv, WrittenOK, LockOK, Busy
<1>5. UnissuedOK'
  BY DEF BeginWrite, memory, Inv, UnissuedOK
<1>6. FileBehind'
  BY DEF BeginWrite, memory, Inv, FileBehind
<1>7. ReadBetween'
  BY DEF BeginWrite, memory, Busy, Inv, ReadBetween
<1>8. ReadFresh'
  BY DEF BeginWrite, memory, Busy, Inv, ReadFresh
<1>9. NoUpdateForgotten'
  BY DEF BeginWrite, memory, WillSave, LockOK, Busy, Inv, NoUpdateForgotten
<1> QED
  BY <1>1, <1>2, <1>3, <1>4, <1>5, <1>6, <1>7, <1>8, <1>9 DEF Inv

LEMMA EndWritePreserves ==
    ASSUME Inv, NEW g \in Savers, EndWrite(g)
    PROVE  Inv'
<1>1. TypeOK'
  BY DEF EndWrite, memory, Steps, Inv, TypeOK
<1>2. MapsAgree'
  BY DEF EndWrite, memory, Inv, MapsAgree
<1>3. LockOK'
  BY DEF EndWrite, Busy, Inv, LockOK
<1>4. WrittenOK'
  BY DEF EndWrite, Inv, WrittenOK, LockOK, Busy
<1>5. UnissuedOK'
  BY DEF EndWrite, memory, Inv, UnissuedOK
<1>6. FileBehind'
  BY DEF EndWrite, memory, Inv, FileBehind
<1>7. ReadBetween'
  BY DEF EndWrite, memory, Busy, Inv, ReadBetween
<1>8. ReadFresh'
  BY DEF EndWrite, memory, Busy, Inv, ReadFresh
<1>9. NoUpdateForgotten'
  BY DEF EndWrite, memory, WillSave, LockOK, Busy, Inv, NoUpdateForgotten
<1> QED
  BY <1>1, <1>2, <1>3, <1>4, <1>5, <1>6, <1>7, <1>8, <1>9 DEF Inv

LEMMA RenamePreserves ==
    ASSUME Inv, NEW g \in Savers, Rename(g)
    PROVE  Inv'
<1>1. TypeOK'
  BY DEF Rename, EndSave, memory, Steps, Content, Nothing, Inv, TypeOK
<1>2. MapsAgree'
  BY DEF Rename, memory, Inv, MapsAgree
<1>3. LockOK'
  BY DEF Rename, EndSave, Busy, Inv, TypeOK, LockOK
<1>4. WrittenOK'
  BY DEF Rename, EndSave, Inv, TypeOK, WrittenOK, LockOK
<1>5. UnissuedOK'
  BY DEF Rename, EndSave, memory, Nothing, Inv, UnissuedOK, WrittenOK
<1>6. FileBehind'
  BY DEF Rename, EndSave, memory, Nothing, Absent, Inv, TypeOK,
     FileBehind, WrittenOK
<1>7. ReadBetween'
  BY DEF Rename, EndSave, Busy, LockOK, Inv, TypeOK, ReadBetween
<1>8. ReadFresh'
  BY DEF Rename, EndSave, memory, Busy, Inv, TypeOK, ReadFresh
<1>9. NoUpdateForgotten'
  BY DEF Rename, EndSave, memory, WillSave, LockOK, ReadFresh, Busy,
     WrittenOK, Inv, NoUpdateForgotten
<1> QED
  BY <1>1, <1>2, <1>3, <1>4, <1>5, <1>6, <1>7, <1>8, <1>9 DEF Inv

LEMMA FailSavePreserves ==
    ASSUME Inv, NEW g \in Savers, FailSave(g)
    PROVE  Inv'
<1>1. TypeOK'
  BY DEF FailSave, EndSave, memory, Steps, Content, Nothing, Inv, TypeOK
<1>2. MapsAgree'
  BY DEF FailSave, memory, Inv, MapsAgree
<1>3. LockOK'
  BY DEF FailSave, EndSave, Busy, Inv, TypeOK, LockOK
<1>4. WrittenOK'
  BY DEF FailSave, EndSave, Inv, TypeOK, WrittenOK
<1>5. UnissuedOK'
  BY DEF FailSave, EndSave, memory, Nothing, Inv, UnissuedOK
<1>6. FileBehind'
  BY DEF FailSave, EndSave, memory, Nothing, Absent, Inv, TypeOK, FileBehind
<1>7. ReadBetween'
  BY DEF FailSave, EndSave, memory, Busy, Inv, TypeOK, ReadBetween
<1>8. ReadFresh'
  BY DEF FailSave, EndSave, memory, Busy, Inv, TypeOK, ReadFresh
<1>9. NoUpdateForgotten'
  BY DEF FailSave, NoUpdateForgotten
<1> QED
  BY <1>1, <1>2, <1>3, <1>4, <1>5, <1>6, <1>7, <1>8, <1>9 DEF Inv

LEMMA RestartPreserves ==
    ASSUME Inv, Restart
    PROVE  Inv'
<1>1. TypeOK'
  <2>1. clicks' \in [Ids -> 0..MaxClicks]
    BY DEF Restart, Reload, Saved, Inv, TypeOK, Content
  <2>2. Saved \subseteq issued
    BY DEF Saved, Inv, UnissuedOK
  <2>3. buf' \in [Savers -> Content]
    BY DEF Restart, Reload, Nothing, Content
  <2> QED
    BY <2>1, <2>2, <2>3 DEF Restart, Reload, Inv, TypeOK, Steps
<1>2. MapsAgree'
  BY DEF Restart, Reload, MapsAgree
<1>3. LockOK'
  BY DEF Restart, Reload, Busy, LockOK
<1>4. WrittenOK'
  BY DEF Restart, Reload, WrittenOK
<1>5. UnissuedOK'
  BY DEF Restart, Reload, Saved, Nothing, Inv, UnissuedOK
<1>6. FileBehind'
  BY DEF Restart, Reload, Saved, Nothing, Absent, Content, Inv, TypeOK,
     FileBehind
<1>7. ReadBetween'
  BY DEF Restart, Reload, Busy, ReadBetween
<1>8. ReadFresh'
  BY DEF Restart, Reload, Busy, ReadFresh
<1>9. NoUpdateForgotten'
  BY DEF Restart, Reload, Saved, NoUpdateForgotten
<1> QED
  BY <1>1, <1>2, <1>3, <1>4, <1>5, <1>6, <1>7, <1>8, <1>9 DEF Inv

LEMMA InitInv == Init => Inv
<1> SUFFICES ASSUME Init PROVE Inv
  OBVIOUS
<1>1. TypeOK /\ MapsAgree
  <2>1. Nothing \in Content
    BY DEF Nothing, Content
  <2>2. clicks \in [Ids -> 0..MaxClicks] /\ pc \in [Savers -> Steps]
    BY DEF Init, Steps
  <2> QED
    BY <2>1, <2>2 DEF Init, TypeOK, MapsAgree
<1>2. LockOK /\ WrittenOK /\ ReadBetween /\ ReadFresh
  BY DEF Init, LockOK, WrittenOK, ReadBetween, ReadFresh, Busy
<1>3. UnissuedOK /\ FileBehind
  BY DEF Init, UnissuedOK, FileBehind, Nothing, Absent
<1>4. NoUpdateForgotten
  BY DEF Init, NoUpdateForgotten
<1> QED
  BY <1>1, <1>2, <1>3, <1>4 DEF Inv

LEMMA NextInv == Inv /\ [Next]_vars => Inv'
<1> SUFFICES ASSUME Inv, [Next]_vars PROVE Inv'
  OBVIOUS
<1>1. ASSUME NEW i \in Ids, Create(i) PROVE Inv'
  BY <1>1, CreatePreserves
<1>2. ASSUME NEW i \in Ids, Resolve(i) PROVE Inv'
  BY <1>2, ResolvePreserves
<1>3. ASSUME NEW i \in Ids, Delete(i) PROVE Inv'
  BY <1>3, DeletePreserves
<1>4. CASE Cleanup
  BY <1>4, CleanupPreserves
<1>5. ASSUME NEW i \in Ids, Expire(i) PROVE Inv'
  BY <1>5, ExpirePreserves
<1>6. ASSUME NEW g \in Savers, StartSave(g) PROVE Inv'
  BY <1>6, StartSavePreserves
<1>7. ASSUME NEW g \in Savers, SaverStep(g) PROVE Inv'
  BY <1>7, ReadLinkPreserves, BeginWritePreserves, EndWritePreserves,
     RenamePreserves DEF SaverStep
<1>8. ASSUME NEW g \in Savers, FailSave(g) PROVE Inv'
  BY <1>8, FailSavePreserves
<1>9. CASE Restart
  BY <1>9, RestartPreserves
<1>10. CASE UNCHANGED vars
  <2>1. TypeOK' /\ MapsAgree' /\ LockOK' /\ WrittenOK' /\ UnissuedOK'
    BY <1>10 DEF vars, Inv, TypeOK, MapsAgree, LockOK, WrittenOK, UnissuedOK
  <2>2. FileBehind' /\ ReadBetween' /\ ReadFresh'
    BY <1>10 DEF vars, Inv, FileBehind, ReadBetween, ReadFresh
  <2>3. NoUpdateForgotten'
    BY <1>10 DEF vars, Inv, NoUpdateForgotten, WillSave
  <2> QED
    BY <2>1, <2>2, <2>3 DEF Inv
<1> QED
  BY <1>1, <1>2, <1>3, <1>4, <1>5, <1>6, <1>7, <1>8, <1>9, <1>10 DEF Next

LEMMA InvHolds == Spec => []Inv
<1> QED
  BY InitInv, NextInv, PTL DEF Spec

\* The variables keep their types.
THEOREM ShortenerTypeCorrect == Spec => []TypeOK
<1>1. Inv => TypeOK
  BY DEF Inv
<1> QED
  BY <1>1, InvHolds, PTL

\* The maps of the Shortener and the storage hold the same links.
THEOREM MapsCorrect == Spec => []MapsAgree
<1>1. Inv => MapsAgree
  BY DEF Inv
<1> QED
  BY <1>1, InvHolds, PTL

\* A restart always finds a complete file.
THEOREM FileCorrect == Spec => []FileComplete
<1>1. Inv => FileComplete
  BY DEF Inv, WrittenOK, FileComplete
<1> QED
  BY <1>1, InvHolds, PTL

\* Every change of a stored link reaches the file unless saving fails.
THEOREM UpdatesCorrect == Spec => []NoUpdateForgotten
<1>1. Inv => NoUpdateForgotten
  BY DEF Inv
<1> QED
  BY <1>1, InvHolds, PTL

-----------------------------------------------------------------------------
(* The refinement: only the operations, Rename and Restart change what a   *)
(* URLStore shows.                                                         *)

shown == [i \in Ids |-> IF i \in stored THEN clicks[i] ELSE Absent]

LEMMA InitShown == Init => Store!Init
<1> QED
  BY DEF Init, Store!Init, Nothing, Absent, Store!Absent

LEMMA StepShown ==
    ASSUME Inv, [Next]_vars
    PROVE  [Store!Next]_(Store!vars)
<1> USE DEF Absent, Store!Absent
<1>1. ASSUME NEW i \in Ids, Create(i) PROVE Store!Create(i)
  <2>1. i \notin stored /\ clicks[i] = 0 /\ file[i] = Absent
    BY <1>1 DEF Create, Inv, TypeOK, UnissuedOK
  <2>2. shown' = [shown EXCEPT ![i] = 0]
    BY <1>1, <2>1 DEF Create, shown
  <2> QED
    BY <1>1, <2>1 DEF Create, files, Store!Create
<1>2. ASSUME NEW i \in Ids, Resolve(i) PROVE Store!Click(i)
  <2>1. i \in stored /\ clicks[i] \in Nat
    BY <1>2 DEF Resolve, Inv, TypeOK, MapsAgree
  <2>2. shown' = [shown EXCEPT ![i] = @ + 1]
    BY <1>2, <2>1 DEF Resolve, Inv, TypeOK, shown
  <2> QED
    BY <1>2, <2>1, <2>2 DEF Resolve, files, Store!Click, shown
<1>3. ASSUME NEW gone \in SUBSET Ids, Remove(gone) PROVE Store!Forget(gone)
  BY <1>3 DEF Remove, files, Store!Forget
<1>4. ASSUME NEW g \in Savers, Rename(g) PROVE Store!Checkpoint
  <2>1. shown' = shown /\ file' = buf[g]
    BY <1>4 DEF Rename, memory, shown, Inv, WrittenOK
  <2>2. /\ pc[g] \in Busy /\ todo[g] = {}
        /\ buf[g] \in [Ids -> Store!Counts]
    BY <1>4 DEF Rename, Busy, Inv, LockOK, TypeOK, Content, Store!Counts
  <2>3. ASSUME NEW i \in Ids PROVE Store!MaySave(i, buf[g][i])
    BY <2>2 DEF Inv, ReadBetween, FileBehind, Store!MaySave
  <2> QED
    BY <2>1, <2>2, <2>3 DEF Store!Checkpoint, shown
<1>5. ASSUME Restart PROVE Store!Restart
  <2>1. shown' = file /\ file' = file
    BY <1>5 DEF Restart, Reload, Saved, shown, Inv, TypeOK, Content
  <2> QED
    BY <2>1 DEF Store!Restart, shown
<1>6. ASSUME UNCHANGED <<stored, clicks, file>> PROVE UNCHANGED Store!vars
  BY <1>6 DEF Store!vars
<1>7. ASSUME NEW i \in Ids, Expire(i) PROVE UNCHANGED Store!vars
  BY <1>6, <1>7 DEF Expire, files
<1>8. ASSUME NEW g \in Savers,
             StartSave(g) \/ (\E i \in Ids : ReadLink(g, i)) \/ BeginWrite(g)
             \/ EndWrite(g) \/ FailSave(g)
      PROVE  UNCHANGED Store!vars
  BY <1>6, <1>8 DEF StartSave, ReadLink, BeginWrite, EndWrite, FailSave,
     memory, files
<1>9. CASE UNCHANGED vars
  BY <1>6, <1>9 DEF vars
<1>10. Cleanup => \E gone \in SUBSET Ids : Store!Forget(gone)
  BY <1>3 DEF Cleanup, Inv, TypeOK
<1>11. ASSUME NEW i \in Ids, Delete(i) PROVE Store!Forget({i})
  BY <1>3, <1>11 DEF Delete
<1> QED
  BY <1>1, <1>2, <1>4, <1>5, <1>7, <1>8, <1>9, <1>10, <1>11 DEF Next,
     SaverStep, Store!Next

\* The links and their file implement a URLStore.
THEOREM StoreCorrect == Spec => StoreSpec
<1> QED
  BY InitShown, StepShown, InvHolds, PTL DEF Spec, StoreSpec, Store!Spec
=============================================================================
