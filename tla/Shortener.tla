----------------------------- MODULE Shortener -----------------------------
(***************************************************************************)
(* The URL shortener with its file storage: shortener.go and storage.go of *)
(* internal/shortener.  Every operation of the Shortener holds s.mu from   *)
(* end to end and is one step.  SaveURL only spawns a goroutine; the       *)
(* goroutine (saveToFile) takes the file mutex, lists the stored links,    *)
(* reads each of them while operations go on, writes a temporary file and  *)
(* renames it, each part a step of its own.                                *)
(*                                                                         *)
(* A link stands for its ID, its short code and the *URL both maps and the *)
(* storage share, so codeIndex is kept as the set of links found by their  *)
(* code.  IDs and codes are random and taken never to repeat.  Whether a   *)
(* link has expired is a set that grows, not a clock.                      *)
(***************************************************************************)
EXTENDS Integers

CONSTANTS
    Ids,        \* links; their number bounds the creations of a run
    Savers,     \* goroutines running saveToFile; bounds those alive at once
    NoSaver,    \* the file mutex is free
    MaxClicks   \* bound on the click count of a link

ASSUME NoSaverAssumption   == NoSaver \notin Savers
ASSUME MaxClicksAssumption == MaxClicks \in Nat

VARIABLES
    urls,       \* keys of Shortener.urls
    codeIndex,  \* links found through Shortener.codeIndex
    stored,     \* keys of MemoryStorage.urls inside the FileStorage
    clicks,     \* URL.Clicks
    expired,    \* links whose ExpiresAt has passed
    issued,     \* links created so far
    deleted,    \* history: links removed by Delete
    pc,         \* where each saver is: see Steps
    lock,       \* the file mutex of FileStorage
    todo,       \* links a saver has listed and not read yet
    buf,        \* what a saver has read
    tmp,        \* content of the temporary file
    file,       \* content of shortener.json
    torn,       \* those of the two files that a write left incomplete
    failed      \* the last save that ended did not replace the file

memory == <<urls, codeIndex, stored, clicks, expired, issued, deleted>>
files  == <<tmp, file, torn, failed>>
vars   == <<urls, codeIndex, stored, clicks, expired, issued, deleted,
            pc, lock, todo, buf, tmp, file, torn, failed>>

Absent == -1

Nothing == [i \in Ids |-> Absent]

Content == [Ids -> (0..MaxClicks) \cup {Absent}]

Steps == {"idle", "waiting", "read", "writing", "rename"}

-----------------------------------------------------------------------------

TypeOK ==
    /\ issued \subseteq Ids
    /\ urls \subseteq issued
    /\ codeIndex \subseteq issued
    /\ stored \subseteq issued
    /\ expired \subseteq issued
    /\ deleted \subseteq issued
    /\ clicks \in [Ids -> 0..MaxClicks]
    /\ pc \in [Savers -> Steps]
    /\ lock \in Savers \cup {NoSaver}
    /\ todo \in [Savers -> SUBSET Ids]
    /\ buf \in [Savers -> Content]
    /\ tmp \in Content
    /\ file \in Content
    /\ torn \subseteq {"tmp", "file"}
    /\ failed \in BOOLEAN

Init ==
    /\ urls = {} /\ codeIndex = {} /\ stored = {}
    /\ clicks = [i \in Ids |-> 0]
    /\ expired = {} /\ issued = {} /\ deleted = {}
    /\ pc = [g \in Savers |-> "idle"]
    /\ lock = NoSaver
    /\ todo = [g \in Savers |-> {}]
    /\ buf = [g \in Savers |-> Nothing]
    /\ tmp = Nothing
    /\ file = Nothing
    /\ torn = {}
    /\ failed = FALSE

-----------------------------------------------------------------------------
(* The operations of the Shortener.                                        *)

\* The goroutine FileStorage.SaveURL starts.
SpawnSaver ==
    \E g \in Savers :
        /\ pc[g] = "idle"
        /\ pc' = [pc EXCEPT ![g] = "waiting"]

\* Mutant: the first save of a link is left out.
CreateUnsaved(i) ==
    /\ i \notin issued
    /\ issued' = issued \cup {i}
    /\ urls' = urls \cup {i}
    /\ codeIndex' = codeIndex \cup {i}
    /\ stored' = stored \cup {i}
    /\ UNCHANGED <<clicks, expired, deleted, pc, lock, todo, buf, files>>

Create(i) ==
    /\ i \notin issued
    /\ issued' = issued \cup {i}
    /\ urls' = urls \cup {i}
    /\ codeIndex' = codeIndex \cup {i}
    /\ stored' = stored \cup {i}
    /\ SpawnSaver
    /\ UNCHANGED <<clicks, expired, deleted, lock, todo, buf, files>>

\* Resolve of a known code that has not expired; the errors change nothing.
Resolve(i) ==
    /\ i \in codeIndex /\ i \in urls /\ i \notin expired
    /\ clicks[i] < MaxClicks
    /\ clicks' = [clicks EXCEPT ![i] = @ + 1]
    /\ stored' = stored \cup {i}
    /\ SpawnSaver
    /\ UNCHANGED <<urls, codeIndex, expired, issued, deleted, lock, todo, buf, files>>

\* Removal from both maps and from the storage.  FileStorage inherits
\* DeleteURL from MemoryStorage: nothing is written.
Remove(gone) ==
    /\ urls' = urls \ gone
    /\ codeIndex' = codeIndex \ gone
    /\ stored' = stored \ gone
    /\ UNCHANGED <<clicks, expired, issued, pc, lock, todo, buf, files>>

Delete(i) ==
    /\ i \in urls
    /\ Remove({i})
    /\ deleted' = deleted \cup {i}

\* Mutant: expired links stay in the storage.
CleanupKeepsStored ==
    /\ urls' = urls \ expired
    /\ codeIndex' = codeIndex \ expired
    /\ UNCHANGED <<stored, clicks, expired, issued, deleted, pc, lock, todo, buf, files>>

Cleanup == Remove(urls \cap expired) /\ UNCHANGED deleted

Expire(i) ==
    /\ i \in issued \ expired
    /\ expired' = expired \cup {i}
    /\ UNCHANGED <<urls, codeIndex, stored, clicks, issued, deleted,
                   pc, lock, todo, buf, files>>

-----------------------------------------------------------------------------
(* saveToFile.                                                             *)

\* Mutant: the file mutex is not taken.
StartSaveUnlocked(g) ==
    /\ pc[g] = "waiting"
    /\ pc' = [pc EXCEPT ![g] = "read"]
    /\ todo' = [todo EXCEPT ![g] = stored]
    /\ UNCHANGED <<memory, lock, buf, files>>

\* The file mutex, then ListURLs: pointers to the links stored now.
StartSave(g) ==
    /\ pc[g] = "waiting"
    /\ lock = NoSaver
    /\ lock' = g
    /\ pc' = [pc EXCEPT ![g] = "read"]
    /\ todo' = [todo EXCEPT ![g] = stored]
    /\ UNCHANGED <<memory, buf, files>>

\* json.Marshal reads the listed links one after the other, without s.mu.
ReadLink(g, i) ==
    /\ pc[g] = "read"
    /\ i \in todo[g]
    /\ todo' = [todo EXCEPT ![g] = @ \ {i}]
    /\ buf' = [buf EXCEPT ![g][i] = clicks[i]]
    /\ UNCHANGED <<memory, pc, lock, files>>

\* os.WriteFile truncates the temporary file first.
BeginWrite(g) ==
    /\ pc[g] = "read"
    /\ todo[g] = {}
    /\ pc' = [pc EXCEPT ![g] = "writing"]
    /\ tmp' = Nothing
    /\ torn' = torn \cup {"tmp"}
    /\ UNCHANGED <<memory, lock, todo, buf, file, failed>>

EndWrite(g) ==
    /\ pc[g] = "writing"
    /\ pc' = [pc EXCEPT ![g] = "rename"]
    /\ tmp' = buf[g]
    /\ torn' = torn \ {"tmp"}
    /\ UNCHANGED <<memory, lock, todo, buf, file, failed>>

\* The goroutine ends; its error is ignored by SaveURL.
EndSave(g) ==
    /\ pc' = [pc EXCEPT ![g] = "idle"]
    /\ lock' = NoSaver
    /\ todo' = [todo EXCEPT ![g] = {}]
    /\ buf' = [buf EXCEPT ![g] = Nothing]

Rename(g) ==
    /\ pc[g] = "rename"
    /\ file' = tmp
    /\ tmp' = Nothing
    /\ torn' = IF "tmp" \in torn THEN {"file"} ELSE {}
    /\ failed' = FALSE
    /\ EndSave(g)
    /\ UNCHANGED memory

\* Mutant: the file mutex is not released on the error paths.
FailSaveLocked(g) ==
    /\ pc[g] \in {"writing", "rename"}
    /\ failed' = TRUE
    /\ pc' = [pc EXCEPT ![g] = "idle"]
    /\ UNCHANGED <<memory, lock, todo, buf, tmp, file, torn>>

\* WriteFile or Rename returns an error (a full disk, say).
FailSave(g) ==
    /\ pc[g] \in {"writing", "rename"}
    /\ failed' = TRUE
    /\ EndSave(g)
    /\ UNCHANGED <<memory, tmp, file, torn>>

-----------------------------------------------------------------------------
(* The process ends, by a crash or by a signal (main never calls           *)
(* FileStorage.Close), and starts again: NewFileStorage loads the file and *)
(* NewWithStorage takes the links over.  NewFileStorage refuses a file it  *)
(* cannot parse; FileComplete says that it never meets one.                *)

Saved == {i \in Ids : file[i] /= Absent}

Reload(counts) ==
    /\ "file" \notin torn
    /\ stored' = Saved
    /\ urls' = Saved
    /\ codeIndex' = Saved
    /\ clicks' = counts
    /\ pc' = [g \in Savers |-> "idle"]
    /\ lock' = NoSaver
    /\ todo' = [g \in Savers |-> {}]
    /\ buf' = [g \in Savers |-> Nothing]
    /\ UNCHANGED <<expired, issued, deleted, tmp, file, torn, failed>>

\* Mutant: links the file does not know are given its count all the same.
RestartCountsAbsent == Reload(file)

Restart == Reload([i \in Ids |-> IF i \in Saved THEN file[i] ELSE 0])

-----------------------------------------------------------------------------

SaverStep(g) ==
    \/ \E i \in Ids : ReadLink(g, i)
    \/ BeginWrite(g)
    \/ EndWrite(g)
    \/ Rename(g)

Next ==
    \/ \E i \in Ids : Create(i)
    \/ \E i \in Ids : Resolve(i)
    \/ \E i \in Ids : Delete(i)
    \/ Cleanup
    \/ \E i \in Ids : Expire(i)
    \/ \E g \in Savers : StartSave(g)
    \/ \E g \in Savers : SaverStep(g)
    \/ \E g \in Savers : FailSave(g)
    \/ Restart

Spec == Init /\ [][Next]_vars

(* A saver that runs goes on (its steps are computation and file I/O), and *)
(* sync.Mutex hands the lock over to a goroutine that has waited for 1 ms, *)
(* so no waiter starves.  Nothing obliges clients, time or crashes.        *)
Fairness ==
    \A g \in Savers : WF_vars(SaverStep(g)) /\ SF_vars(StartSave(g))

FairSpec == Spec /\ Fairness

-----------------------------------------------------------------------------
(* Safety.                                                                 *)

\* The two maps of the Shortener and the storage behind them hold the same
\* links, so a link that resolves is one a save will list.
MapsAgree == urls = codeIndex /\ urls = stored

\* shortener.json is never a partly written file, whatever the interleaving
\* of savers and wherever the process ends (tmp + rename under the mutex).
FileComplete == "file" \notin torn

\* A saver that will still write the present count of link i.
WillSave(g, i) ==
    \/ pc[g] = "waiting"
    \/ pc[g] = "read" /\ i \in todo[g]
    \/ pc[g] \in {"read", "writing"} /\ buf[g][i] = clicks[i]
    \/ pc[g] = "rename" /\ tmp[i] = clicks[i]

\* No update is forgotten: a stored link whose count in the file is not the
\* present one has a saver on the way that will write it, unless the last
\* save failed (SaveURL starts its goroutine after every change).
NoUpdateForgotten ==
    \A i \in stored :
        file[i] = clicks[i] \/ failed \/ \E g \in Savers : WillSave(g, i)

\* The comment on Delete says "Remove from storage if configured"
\* (shortener.go:171): a deleted link does not come back.
DeletedStaysDeleted == deleted \cap urls = {}

\* The links and the file together behave as a URLStore.
Store == INSTANCE URLStore
            WITH mem  <- [i \in Ids |-> IF i \in stored THEN clicks[i] ELSE Absent],
                 disk <- file

StoreSpec == Store!Spec

(* Liveness.                                                               *)

\* Every save that was started ends.
SavesEnd == \A g \in Savers : pc[g] = "waiting" ~> pc[g] = "idle"
=============================================================================
