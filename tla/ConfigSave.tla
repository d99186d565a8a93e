----------------------------- MODULE ConfigSave -----------------------------
(***************************************************************************)
(* Saving the configuration: OwDevices::save(), save_poll() and load()     *)
(* (src/ow_devices.cpp), on a file system that keeps unsynced data in      *)
(* memory.  The poll worker, any FUSE thread (settings/save) and main() at *)
(* shutdown save; a process crash loses the memory of the daemon, a power  *)
(* loss that of the file system as well.                                   *)
(***************************************************************************)
EXTENDS Integers

CONSTANTS
  Savers,      \* the threads that save
  Chunks,      \* write() calls it takes to write the file
  MaxVersion   \* bound: changes of the configuration

NoSaver == "nobody"

ASSUME SaveAssumption ==
  /\ NoSaver \notin Savers
  /\ Chunks \in Nat \ {0}
  /\ MaxVersion \in Nat

(***************************************************************************)
(* A whole file is known by the version of the configuration it holds;     *)
(* there may be no file yet.  Anything else does not load.                 *)
(***************************************************************************)
Version == 0..MaxVersion
Absent == -1
Broken == -2
File == Version \cup {Absent}
Content == File \cup {Broken}

VARIABLES
  cfg,      \* the version of the configuration in memory
  newest,   \* the newest version there ever was
  mtx,      \* save_mtx: the saver that holds it
  pc,       \* where each saver is in save()
  text,     \* the version each saver has turned into text
  tmp,      \* data.json.tmp: version, chunks written, synced; version Absent: none
  path,     \* data.json as the file system shows it
  durable,  \* what data.json may be after a power loss
  acked     \* history: the newest version save() returned 0 for, synced

saveVars == <<cfg, newest, mtx, pc, text, tmp, path, durable, acked>>

SaveState == {"idle", "dump", "open", "write", "sync", "rename", "dirsync",
              "unlink"}
NoTmp == [ver |-> Absent, len |-> 0, synced |-> TRUE]

\* What a file that holds len chunks of version v is
ContentOf(v, len) == IF v = Absent THEN Absent
                     ELSE IF len = Chunks THEN v ELSE Broken

\* What tmp may be after a power loss: the data not synced may be gone, all
\* of it or from any chunk on.
Survivors(t) == IF t.synced THEN {ContentOf(t.ver, t.len)}
                ELSE {ContentOf(t.ver, n) : n \in 0..t.len}

SaveInit ==
  /\ newest = 0
  /\ cfg = 0
  /\ mtx = NoSaver
  /\ pc = [s \in Savers |-> "idle"]
  /\ text = [s \in Savers |-> 0]
  /\ tmp = NoTmp
  /\ path \in {Absent, 0}
  /\ durable = {path}
  /\ acked = Absent

\* Something a save keeps is changed.
Change ==
  /\ newest < MaxVersion
  /\ newest' = newest + 1
  /\ cfg' = newest + 1
  /\ UNCHANGED <<mtx, pc, text, tmp, path, durable, acked>>

GoTo(s, l) == pc' = [pc EXCEPT ![s] = l]

\* save() is called: by save_poll() when the interval is over, through
\* settings/save, or at shutdown.
CallSave(s) ==
  /\ pc[s] = "idle"
  /\ GoTo(s, "dump")
  /\ UNCHANGED <<cfg, newest, mtx, text, tmp, path, durable, acked>>

\* mutant: without save_mtx
LockFree(s) == UNCHANGED mtx
Lock(s) == mtx = NoSaver /\ mtx' = s
Unlock(s) == mtx' = IF mtx = s THEN NoSaver ELSE mtx

\* The mutex is taken, then the configuration turned into text.
Dump(s) ==
  /\ pc[s] = "dump"
  /\ Lock(s)
  /\ text' = [text EXCEPT ![s] = cfg]
  /\ GoTo(s, "open")
  /\ UNCHANGED <<cfg, newest, tmp, path, durable, acked>>

\* open() with O_TRUNC: also a tmp left over from a crash starts empty.
Open(s) ==
  /\ pc[s] = "open"
  /\ tmp' = [ver |-> text[s], len |-> 0, synced |-> FALSE]
  /\ GoTo(s, "write")
  /\ UNCHANGED <<cfg, newest, mtx, text, path, durable, acked>>

OpenFails(s) ==
  /\ pc[s] = "open"
  /\ GoTo(s, "idle")
  /\ Unlock(s)
  /\ UNCHANGED <<cfg, newest, text, tmp, path, durable, acked>>

\* One write() of the loop; it goes on until nothing is left.
WriteOnce(len) == "sync"                  \* mutant: a short write taken for all
AfterWrite(len) == IF len = Chunks THEN "sync" ELSE "write"

Write(s) ==
  /\ pc[s] = "write"
  /\ tmp.len < Chunks
  /\ tmp' = [tmp EXCEPT !.len = @ + 1, !.synced = FALSE]
  /\ GoTo(s, AfterWrite(tmp.len + 1))
  /\ UNCHANGED <<cfg, newest, mtx, text, path, durable, acked>>

\* Any of write(), fsync(), close() and rename() fails.
Fail(s) ==
  /\ pc[s] \in {"write", "sync", "rename"}
  /\ GoTo(s, "unlink")
  /\ UNCHANGED <<cfg, newest, mtx, text, tmp, path, durable, acked>>

\* fsync() and close()
Synced(t) == [t EXCEPT !.synced = TRUE]

Sync(s) ==
  /\ pc[s] = "sync"
  /\ tmp' = Synced(tmp)
  /\ GoTo(s, "rename")
  /\ UNCHANGED <<cfg, newest, mtx, text, path, durable, acked>>

\* rename(): seen by everybody at once, but the directory is not on the disk
\* yet, so a power loss may bring back what was there before.
Rename(s) ==
  /\ pc[s] = "rename"
  /\ path' = ContentOf(tmp.ver, tmp.len)
  /\ durable' = durable \cup Survivors(tmp)
  /\ tmp' = NoTmp
  /\ GoTo(s, "dirsync")
  /\ UNCHANGED <<cfg, newest, mtx, text, acked>>

\* The directory is synced; saved_at is set.
OldStays(p, d) == d \cup {p}                                       \* mutant
OnDisk(p, d) == {p}

DirSync(s) ==
  /\ pc[s] = "dirsync"
  /\ durable' = OnDisk(path, durable)
  /\ acked' = text[s]
  /\ GoTo(s, "idle")
  /\ Unlock(s)
  /\ UNCHANGED <<cfg, newest, text, tmp, path>>

\* The same when the directory cannot be opened or synced: nobody looks at
\* the result, save() returns 0 all the same.
DirSyncFails(s) ==
  /\ pc[s] = "dirsync"
  /\ GoTo(s, "idle")
  /\ Unlock(s)
  /\ UNCHANGED <<cfg, newest, text, tmp, path, durable, acked>>

\* mutant: what failed is removed by the name of the file it was to replace
UnlinkPath(s) ==
  /\ pc[s] = "unlink"
  /\ path' = Absent
  /\ durable' = durable \cup {Absent}
  /\ GoTo(s, "idle")
  /\ Unlock(s)
  /\ UNCHANGED <<cfg, newest, text, tmp, acked>>

Unlink(s) ==
  /\ pc[s] = "unlink"
  /\ tmp' = NoTmp
  /\ GoTo(s, "idle")
  /\ Unlock(s)
  /\ UNCHANGED <<cfg, newest, text, path, durable, acked>>

(***************************************************************************)
(* Crashes.  The daemon starts again and loads what is there; when there   *)
(* is no file, or a broken one, it goes on with the default configuration, *)
(* version 0.                                                              *)
(***************************************************************************)
Loaded(content) == IF content \in Version THEN content ELSE 0

Restart ==
  /\ cfg' = Loaded(path')
  /\ mtx' = NoSaver
  /\ pc' = [s \in Savers |-> "idle"]
  /\ text' = [s \in Savers |-> 0]
  /\ UNCHANGED <<newest, acked>>

ProcessCrash ==
  /\ UNCHANGED <<path, durable, tmp>>
  /\ Restart

PowerLoss ==
  /\ path' \in durable
  /\ durable' = {path'}
  /\ tmp' \in {NoTmp, [tmp EXCEPT !.len = 0]}   \* truncated by the next open()
  /\ Restart

Save(s) ==
  \/ CallSave(s) \/ Dump(s) \/ Open(s) \/ OpenFails(s) \/ Write(s) \/ Fail(s)
  \/ Sync(s) \/ Rename(s) \/ DirSync(s) \/ DirSyncFails(s) \/ Unlink(s)

SaveNext ==
  \/ Change
  \/ \E s \in Savers : Save(s)
  \/ ProcessCrash
  \/ PowerLoss

SaveSpec == SaveInit /\ [][SaveNext]_saveVars

-----------------------------------------------------------------------------
(***************************************************************************)
(* Properties                                                              *)
(***************************************************************************)

TmpFile == [ver : File, len : 0..Chunks, synced : BOOLEAN]

\* The variables keep their types.
SaveTypeOK ==
  /\ cfg \in Version
  /\ newest \in Version
  /\ mtx \in Savers \cup {NoSaver}
  /\ pc \in [Savers -> SaveState]
  /\ text \in [Savers -> Version]
  /\ tmp \in TmpFile
  /\ path \in Content
  /\ durable \subseteq Content /\ durable # {}
  /\ acked \in File

\* What a restart may find: after a process crash what the file system shows,
\* after a power loss what is on the disk.
May == {path} \cup durable

\* Whenever the daemon or the power goes, data.json is a whole file (ReadMe.md
\* "never a broken one").
NeverBroken == Broken \notin May

\* A save that was reported done, the directory synced, is not lost by any
\* later crash, failed save or restart: no older file comes back.
SavedStays == \A f \in May : f >= acked

\* The version being saved: from the text it is turned into, under save_mtx, to
\* the end of save().
Saving == IF mtx = NoSaver THEN {} ELSE {text[mtx]}

\* A crash or power loss at any step of save(), and any of its calls failing,
\* leaves either the old or the new file (ReadMe.md "saving the config"): the
\* configuration as it was when this save began replaces the file in one step,
\* and what was there before comes back only until the directory is synced.
Store == INSTANCE CrashSafeStore
           WITH Versions <- Version, Default <- 0, config <- cfg, saving <- Saving,
                shown <- path, kept <- durable
StoreSpec == Store!Spec

=============================================================================
