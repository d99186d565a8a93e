---------------------------- MODULE FilesProofs ----------------------------
(***************************************************************************)
(* The configuration file and the plugin host, for every value of the      *)
(* constants.  ConfigSave: type correctness, NeverBroken, SavedStays, and  *)
(* that it implements CrashSafeStore.  Plugins: type correctness,          *)
(* FilesOfScripts, and, if scripts are edited between two calls only,      *)
(* EditIsLive and StartIsKnown.                                            *)
(***************************************************************************)
EXTENDS ConfigSave, Plugins, FiniteSetTheorems, SequenceTheorems, TLAPS

-----------------------------------------------------------------------------
(***************************************************************************)
(* Saving the configuration                                                *)
(***************************************************************************)

\* One saver at a time is past taking the mutex.
Exclusive == \A s \in Savers : pc[s] \notin {"idle", "dump"} => mtx = s

\* What the saver that holds the mutex has in tmp: as much as it has written,
\* whole once it is synced and on the disk before it is renamed.
TmpIsWhole ==
  \A s \in Savers :
    /\ pc[s] \in {"write", "sync", "rename"} => tmp.ver = text[s]
    /\ pc[s] \in {"sync", "rename"} => tmp.len = Chunks
    /\ pc[s] = "rename" => tmp.synced
    /\ pc[s] = "dirsync" => path = text[s]

Whole == path \in durable /\ durable \subseteq File

\* No version a restart may find is older than what was reported saved, or
\* newer than what is in place, in memory or about to be saved.
InOrder ==
  /\ cfg <= newest
  /\ \A f \in durable : acked <= f /\ f <= path
  /\ path <= cfg
  /\ \A s \in Savers : pc[s] \in {"open", "write", "sync", "rename"} =>
       text[s] <= cfg /\ \A f \in durable : f <= text[s]

SaveInv == SaveTypeOK /\ Exclusive /\ TmpIsWhole /\ Whole /\ InOrder

-----------------------------------------------------------------------------

\* No temporary file, or one that is truncated
LEMMA TmpTypes ==
  /\ NoTmp \in TmpFile
  /\ \A t \in TmpFile : [t EXCEPT !.len = 0] \in TmpFile
<1>1. NoTmp \in TmpFile
  BY SaveAssumption DEF NoTmp, TmpFile, File, Version, Absent
<1>2. 0 \in 0..Chunks
  BY SaveAssumption
<1> QED BY <1>1, <1>2 DEF TmpFile

LEMMA SaveInitInv == SaveInit => SaveInv
  BY SaveAssumption
     DEF SaveInit, SaveInv, SaveTypeOK, SaveState, TmpFile, NoTmp, Version, File, Content, Absent,
         Broken, Exclusive, TmpIsWhole, Whole, InOrder

LEMMA ChangeInv == ASSUME SaveInv, Change PROVE SaveInv'
  BY SaveAssumption
     DEF Change, SaveInv, SaveTypeOK, Version, File, Absent, Exclusive, TmpIsWhole, Whole,
         InOrder

\* The steps of save() that leave data.json alone
LEMMA PrepareInv ==
  ASSUME SaveInv, NEW s \in Savers,
         CallSave(s) \/ Dump(s) \/ Open(s) \/ OpenFails(s) \/ Write(s) \/ Fail(s)
         \/ Sync(s) \/ Unlink(s) \/ DirSyncFails(s)
  PROVE  SaveInv'
<1> USE SaveAssumption
    DEF GoTo, Lock, Unlock, Synced, AfterWrite, NoTmp, TmpFile, SaveState, Version, File,
        Absent, SaveInv, SaveTypeOK, Exclusive, TmpIsWhole, Whole, InOrder
<1>1. CASE CallSave(s)
  BY <1>1 DEF CallSave
<1>2. CASE Dump(s)
  BY <1>2 DEF Dump
<1>3. CASE Open(s)
  BY <1>3 DEF Open
<1>4. CASE OpenFails(s)
  BY <1>4 DEF OpenFails
<1>5. CASE Write(s)
  <2>1. tmp' = [tmp EXCEPT !.len = tmp.len + 1, !.synced = FALSE]
        /\ tmp.len + 1 \in 0..Chunks
    BY <1>5 DEF Write
  <2>2. SaveTypeOK'
    BY <1>5, <2>1 DEF Write
  <2>3. TmpIsWhole'
    BY <1>5, <2>1 DEF Write
  <2> QED BY <1>5, <2>2, <2>3 DEF Write
<1>6. CASE Fail(s)
  BY <1>6 DEF Fail
<1>7. CASE Sync(s)
  BY <1>7 DEF Sync
<1>8. CASE Unlink(s)
  BY <1>8 DEF Unlink
<1>9. CASE DirSyncFails(s)
  BY <1>9 DEF DirSyncFails
<1> QED BY <1>1, <1>2, <1>3, <1>4, <1>5, <1>6, <1>7, <1>8, <1>9

\* rename() puts the whole version the saver has turned into text in place.
LEMMA RenamedFile ==
  ASSUME SaveInv, NEW s \in Savers, Rename(s)
  PROVE  path' = text[s] /\ durable' = durable \cup {text[s]} /\ text[s] \in File
  BY SaveAssumption
     DEF Rename, ContentOf, Survivors, SaveInv, SaveTypeOK, TmpIsWhole, TmpFile, Version, File,
         Absent

LEMMA CommitInv ==
  ASSUME SaveInv, NEW s \in Savers, Rename(s) \/ DirSync(s)
  PROVE  SaveInv'
<1> USE SaveAssumption
    DEF GoTo, Unlock, OnDisk, SaveState, Version, File, Content, Absent,
        SaveInv, SaveTypeOK, Exclusive, TmpIsWhole, Whole, InOrder
<1>1. CASE Rename(s)
  <2>1. path' = text[s] /\ durable' = durable \cup {text[s]} /\ text[s] \in Version
    BY <1>1, RenamedFile
  <2>2. pc' = [pc EXCEPT ![s] = "dirsync"] /\ tmp' = NoTmp
        /\ UNCHANGED <<cfg, newest, mtx, text, acked>>
    BY <1>1 DEF Rename
  <2>3. pc[s] = "rename" /\ mtx = s
    BY <1>1 DEF Rename
  <2>4. SaveTypeOK'
    <3>1. path' \in Content /\ durable' \subseteq Content /\ durable' # {}
      BY <2>1
    <3>2. pc' \in [Savers -> SaveState]
      BY <2>2
    <3>3. mtx' \in Savers \cup {NoSaver} /\ tmp' \in TmpFile
      BY <2>2, TmpTypes
    <3> QED BY <2>2, <3>1, <3>2, <3>3
  <2>5. Exclusive' /\ TmpIsWhole'
    BY <2>1, <2>2, <2>3
  <2>6. Whole'
    BY <2>1
  <2>7. InOrder'
    BY <2>1, <2>2, <2>3
  <2> QED BY <2>4, <2>5, <2>6, <2>7
<1>2. CASE DirSync(s)
  BY <1>2 DEF DirSync
<1> QED BY <1>1, <1>2

LEMMA CrashInv == ASSUME SaveInv, ProcessCrash \/ PowerLoss PROVE SaveInv'
<1> USE SaveAssumption
    DEF Restart, Loaded, SaveState, Version, File, Content, Absent,
        SaveInv, SaveTypeOK, Exclusive, TmpIsWhole, Whole, InOrder
<1>1. CASE ProcessCrash
  BY <1>1 DEF ProcessCrash
<1>2. CASE PowerLoss
  <2>1. path' \in durable /\ durable' = {path'}
    BY <1>2 DEF PowerLoss
  <2>2. tmp' \in TmpFile
    BY <1>2, TmpTypes DEF PowerLoss
  <2>3. SaveTypeOK'
    BY <1>2, <2>1, <2>2 DEF PowerLoss
  <2>4. Exclusive' /\ TmpIsWhole' /\ Whole'
    BY <1>2, <2>1 DEF PowerLoss
  <2>5. InOrder'
    BY <1>2, <2>1 DEF PowerLoss
  <2> QED BY <2>3, <2>4, <2>5
<1> QED BY <1>1, <1>2

LEMMA SaveStepInv == SaveInv /\ [SaveNext]_saveVars => SaveInv'
<1> SUFFICES ASSUME SaveInv, [SaveNext]_saveVars PROVE SaveInv'
  OBVIOUS
<1>1. CASE Change
  BY <1>1, ChangeInv
<1>2. ASSUME NEW s \in Savers, Save(s) PROVE SaveInv'
  BY <1>2, PrepareInv, CommitInv DEF Save
<1>3. CASE ProcessCrash \/ PowerLoss
  BY <1>3, CrashInv
<1>4. CASE UNCHANGED saveVars
  BY <1>4 DEF saveVars, SaveInv, SaveTypeOK, Exclusive, TmpIsWhole, Whole, InOrder
<1> QED BY <1>1, <1>2, <1>3, <1>4 DEF SaveNext

LEMMA SaveInvariance == SaveSpec => []SaveInv
  BY SaveInitInv, SaveStepInv, PTL DEF SaveSpec

-----------------------------------------------------------------------------

\* The variables keep their types.
THEOREM SaveTypeCorrect == SaveSpec => []SaveTypeOK
<1>1. SaveInv => SaveTypeOK
  BY DEF SaveInv
<1> QED BY <1>1, SaveInvariance, PTL

\* Whenever the daemon or the power goes, data.json is a whole file.
THEOREM FileIsWhole == SaveSpec => []NeverBroken
<1>1. SaveInv => NeverBroken
  BY DEF SaveInv, Whole, NeverBroken, May, File, Version, Absent, Broken
<1> QED BY <1>1, SaveInvariance, PTL

\* What save() has reported saved, with the directory synced, is never lost.
THEOREM SaveIsDurable == SaveSpec => []SavedStays
<1>1. SaveInv => SavedStays
  BY DEF SaveInv, SaveTypeOK, Whole, InOrder, SavedStays, May, File, Version, Absent
<1> QED BY <1>1, SaveInvariance, PTL

\* save(), with its mutex, its temporary file, fsync() and rename(), promises
\* what ReadMe.md does: either the old or the new file.
THEOREM Implements == SaveSpec => StoreSpec
<1>1. SaveInit => Store!Init
  BY DEF SaveInit, Store!Init, Saving
<1>2. SaveInv /\ [SaveNext]_saveVars => [Store!Next]_<<cfg, Saving, path, durable>>
  <2> SUFFICES ASSUME SaveInv, SaveNext
               PROVE  Store!Next \/ UNCHANGED <<cfg, Saving, path, durable>>
    BY DEF saveVars, Saving
  <2>1. \A s \in Savers : s # NoSaver
    BY SaveAssumption
  <2>2. ASSUME NEW s \in Savers, pc[s] \notin {"idle", "dump"} PROVE mtx = s /\ Saving = {text[s]}
    BY <2>1, <2>2 DEF SaveInv, Exclusive, Saving
  <2>3. ASSUME NEW s \in Savers, Dump(s) PROVE Store!Next
    <3>1. Saving = {} /\ Saving' = {cfg}
      BY <2>1, <2>3 DEF Dump, Lock, Saving, SaveInv, SaveTypeOK
    <3> QED BY <2>3, <3>1 DEF Dump, Store!Next, Store!Begin
  <2>4. ASSUME NEW s \in Savers, Rename(s) PROVE Store!Next
    <3>1. path' = text[s] /\ durable' = durable \cup {text[s]} /\ text[s] \in Version
      BY <2>4, RenamedFile DEF SaveInv, SaveTypeOK
    <3>2. Saving = {text[s]} /\ Saving' = {text[s]} /\ cfg' = cfg
      BY <2>1, <2>2, <2>4 DEF Rename, Saving
    <3> QED BY <3>1, <3>2 DEF Store!Next, Store!Replace
  <2>5. ASSUME NEW s \in Savers, DirSync(s) PROVE Store!Next
    <3>1. mtx = s /\ Saving = {path}
      BY <2>2, <2>5 DEF DirSync, SaveInv, TmpIsWhole
    <3>2. durable' = {path} /\ Saving' = {} /\ UNCHANGED <<cfg, path>>
      BY <2>5, <3>1 DEF DirSync, OnDisk, Unlock, Saving
    <3> QED BY <3>1, <3>2 DEF Store!Next, Store!Done
  <2>6. ASSUME NEW s \in Savers, OpenFails(s) \/ Unlink(s) \/ DirSyncFails(s) PROVE Store!Next
    <3>1. mtx = s
      BY <2>2, <2>6 DEF OpenFails, Unlink, DirSyncFails
    <3>2. Saving' = {} /\ UNCHANGED <<cfg, path, durable>>
      BY <2>6, <3>1 DEF OpenFails, Unlink, DirSyncFails, Unlock, Saving
    <3> QED BY <3>2 DEF Store!Next, Store!GiveUp
  <2>7. ASSUME NEW s \in Savers, CallSave(s) \/ Open(s) \/ Write(s) \/ Fail(s) \/ Sync(s)
        PROVE  UNCHANGED <<cfg, Saving, path, durable>>
    BY <2>7 DEF CallSave, Open, Write, Fail, Sync, Saving
  <2>8. CASE Change
    <3>1. cfg' \in Version /\ UNCHANGED <<Saving, path, durable>>
      BY <2>8, SaveAssumption DEF Change, Saving, SaveInv, SaveTypeOK, Version
    <3> QED BY <3>1 DEF Store!Next, Store!Change
  <2>9. ASSUME path \in File PROVE Loaded(path) = Store!Load(path)
    BY <2>9, SaveAssumption DEF Loaded, Store!Load, File, Version, Absent
  <2>10. ASSUME path' \in File PROVE Loaded(path') = Store!Load(path')
    BY <2>10, SaveAssumption DEF Loaded, Store!Load, File, Version, Absent
  <2>11. CASE ProcessCrash
    <3>1. cfg' = Loaded(path') /\ path' = path /\ durable' = durable /\ Saving' = {}
      BY <2>11 DEF ProcessCrash, Restart, Saving
    <3>2. path \in File
      BY DEF SaveInv, Whole
    <3> QED BY <2>9, <3>1, <3>2 DEF Store!Next, Store!Crash
  <2>12. CASE PowerLoss
    <3>1. cfg' = Loaded(path') /\ path' \in durable /\ durable' = {path'} /\ Saving' = {}
      BY <2>12 DEF PowerLoss, Restart, Saving
    <3>2. path' \in File
      BY <3>1 DEF SaveInv, Whole
    <3>3. cfg' = Store!Load(path')
      BY <2>10, <3>1, <3>2
    <3> QED BY <3>1, <3>3 DEF Store!Next, Store!PowerLoss, Store!Load
  <2> QED BY <2>3, <2>4, <2>5, <2>6, <2>7, <2>8, <2>11, <2>12 DEF SaveNext, Save
<1> QED BY <1>1, <1>2, SaveInvariance, PTL
        DEF SaveSpec, StoreSpec, Store!Spec, Store!storeVars

-----------------------------------------------------------------------------
(***************************************************************************)
(* Scripts, their calls and their files                                    *)
(***************************************************************************)

ScriptSteps == {"look", "compare", "hash", "mtime", "load", "eval", "replay", "run", "handler"}
Steps == ScriptSteps \cup {"each", "set"}

\* A call of a script is that of one in the list.
Fits(c, scripts, starting, there) ==
  /\ c.op \in ScriptOps <=> c.step \in ScriptSteps
  /\ c.op \in ScriptOps => c.s \in ToSet(scripts)
  /\ c.op \in {"event", "catchup_event"} => c.arg \in Codes
  /\ c.step = "set" => c.op = "config"
  /\ c.op = "config" => there /\ (c.step = "each" => ToSet(starting) \subseteq ToSet(scripts))

\* The engine is given its configuration before anything else.
Frames ==
  \A k \in 1 .. Len(stack) :
    /\ Fits(stack[k], list, start, loaded)
    /\ stack[k].op = "config" => \A m \in 1 .. k - 1 : stack[m].op = "catchup"

EngineUp ==
  /\ ~loaded => list = <<>>
  /\ up = "new" => stack = <<>> /\ list = <<>>

\* The engine's files are those of its scripts, of one each, in the list.
Owned ==
  /\ \A p \in Paths : files[p] = "jsengine" <=> \E s \in Scripts : p \in sfiles[s]
  /\ \A p \in Paths : \A s, t \in Scripts : p \in sfiles[s] \cap sfiles[t] => s = t
  /\ \A s \in Scripts : sfiles[s] # {} => s \in ToSet(list)

HostInv == TypeOK /\ Frames /\ EngineUp /\ Owned

LEMMA PluginConstants ==
  /\ \A t \in Texts : t # NoText
  /\ Configs \subseteq Seq(Scripts) /\ MaxEdits \in Nat
  /\ Lifecycle \subseteq Codes
  BY PluginsAssumption DEF Codes

LEMMA ToSetIs ==
  ASSUME NEW S, NEW l \in Seq(S)
  PROVE  /\ ToSet(l) = {l[n] : n \in 1 .. Len(l)} /\ ToSet(l) \subseteq S
         /\ \A n \in 1 .. Len(l) : l[n] \in ToSet(l)
  BY DEF ToSet

LEMMA OrderedIs ==
  ASSUME NEW l \in Seq(Scripts), NEW S \in SUBSET ToSet(l), NEW o \in Ordered(S, l)
  PROVE  o \in Seq(Scripts) /\ ToSet(o) = S
<1>1. ToSet(l) = {l[n] : n \in 1 .. Len(l)} /\ ToSet(l) \subseteq Scripts /\ Len(l) \in Nat
  BY ToSetIs
<1>2. IsFiniteSet(1 .. Len(l))
  BY <1>1, FS_Interval
<1>3. IsFiniteSet(S)
  <2>1. l \in [1 .. Len(l) -> ToSet(l)]
    BY <1>1
  <2>2. l \in Surjection(1 .. Len(l), ToSet(l))
    BY <1>1, <2>1 DEF Surjection
  <2>3. IsFiniteSet(ToSet(l))
    BY <1>2, <2>2, FS_Surjection
  <2> QED BY <2>3, FS_Subset
<1>4. Cardinality(S) \in Nat
  BY <1>3, FS_CardinalityType
<1>5. o \in [1 .. Cardinality(S) -> S] /\ ToSet(o) = S
  BY DEF Ordered
<1> QED BY <1>1, <1>4, <1>5

LEMMA CallIs ==
  /\ \A c \in CallType : /\ c.op \in {"event", "catchup_event", "action", "start", "file",
                                        "config", "catchup"}
                         /\ c.s \in Scripts \cup {NoScript}
                         /\ c.arg \in Codes \cup Paths \cup {"none"}
                         /\ c.step \in Steps /\ c.i \in Nat \ {0}
  /\ \A c \in CallType : \A n \in Nat \ {0} : [c EXCEPT !.i = n] \in CallType
  /\ \A c \in CallType : \A step \in Steps : [c EXCEPT !.step = step, !.i = 1] \in CallType
<1> DEFINE I == Nat \ {0}
           O == {"event", "catchup_event", "action", "start", "file", "config", "catchup"}
           S == Scripts \cup {NoScript}
           A == Codes \cup Paths \cup {"none"}
<1>1. CallType = [op : O, s : S, arg : A, step : Steps, i : I]
  BY DEF CallType, Steps, ScriptSteps
<1>2. 1 \in I
  OBVIOUS
<1> HIDE DEF I, O, S, A
<1>3. \A c \in CallType : c.op \in O /\ c.s \in S /\ c.arg \in A /\ c.step \in Steps /\ c.i \in I
  BY <1>1
<1>4. \A c \in CallType : \A n \in I : [c EXCEPT !.i = n] \in CallType
  BY <1>1
<1>5. \A c \in CallType : \A step \in Steps : [c EXCEPT !.step = step, !.i = 1] \in CallType
  BY <1>1, <1>2
<1> QED BY <1>3, <1>4, <1>5 DEF I, O, S, A

(***************************************************************************)
(* The stack                                                               *)
(***************************************************************************)

LEMMA TopIs ==
  ASSUME stack \in Seq(CallType), stack # <<>>
  PROVE  /\ Len(stack) \in Nat \ {0} /\ Top = stack[Len(stack)] /\ Top \in CallType
         /\ Len(stack) \in 1 .. Len(stack)
  BY DEF Top, Last

LEMMA GotoIs ==
  ASSUME stack \in Seq(CallType), stack # <<>>, NEW step \in Steps, Goto(step)
  PROVE  /\ stack' \in Seq(CallType) /\ Len(stack') = Len(stack)
         /\ \A k \in 1 .. Len(stack) : k # Len(stack) => stack'[k] = stack[k]
         /\ stack'[Len(stack)] = [Top EXCEPT !.step = step, !.i = 1]
<1> DEFINE n == Len(stack)
           f == [Top EXCEPT !.step = step, !.i = 1]
<1>1. n \in 1 .. Len(stack) /\ Top = stack[n] /\ Top \in CallType
  BY TopIs
<1>2. f \in CallType
  BY <1>1, CallIs
<1>3. stack' = [stack EXCEPT ![n] = f]
  BY <1>1 DEF Goto
<1> HIDE DEF f
<1>4. /\ stack' \in Seq(CallType) /\ Len(stack') = n /\ stack'[n] = f
      /\ \A k \in 1 .. n : k # n => stack'[k] = stack[k]
  BY <1>1, <1>2, <1>3
<1> QED BY <1>4 DEF f

LEMMA EachIs ==
  ASSUME stack \in Seq(CallType), stack # <<>>, NEW c \in CallType, Each(c)
  PROVE  /\ stack' \in Seq(CallType) /\ Len(stack') = Len(stack) + 1
         /\ \A k \in 1 .. Len(stack) : k # Len(stack) => stack'[k] = stack[k]
         /\ stack'[Len(stack)] = [Top EXCEPT !.i = @ + 1]
         /\ stack'[Len(stack) + 1] = c
<1> DEFINE n == Len(stack)
           f == [Top EXCEPT !.i = @ + 1]
           s == [stack EXCEPT ![n] = f]
<1>1. n \in 1 .. Len(stack) /\ Top = stack[n] /\ Top \in CallType /\ n \in Nat
  BY TopIs
<1>2. f \in CallType
  <2>1. Top.i \in Nat \ {0}
    BY <1>1, CallIs
  <2>2. Top.i + 1 \in Nat \ {0}
    BY <2>1
  <2>3. f = [Top EXCEPT !.i = Top.i + 1]
    OBVIOUS
  <2> QED BY <1>1, <2>2, <2>3, CallIs
<1>3. stack' = Append(s, c)
  BY <1>1 DEF Each
<1> HIDE DEF f
<1>4. s \in Seq(CallType) /\ Len(s) = n
  BY <1>1, <1>2
<1>5. s[n] = f /\ \A k \in 1 .. n : k # n => s[k] = stack[k]
  BY <1>1
<1> HIDE DEF s
<1> QED BY <1>1, <1>3, <1>4, <1>5 DEF f

LEMMA ReturnIs ==
  ASSUME stack \in Seq(CallType), stack # <<>>, Return
  PROVE  /\ stack' \in Seq(CallType) /\ Len(stack') = Len(stack) - 1
         /\ \A k \in 1 .. Len(stack) - 1 : stack'[k] = stack[k]
<1>1. Len(stack) \in Nat \ {0} /\ stack' = Front(stack)
  BY TopIs DEF Return
<1> DEFINE n == Len(stack)
<1> DEFINE C == CallType
<1>3. /\ SubSeq(stack, 1, n - 1) \in Seq(C) /\ Len(SubSeq(stack, 1, n - 1)) = n - 1
      /\ \A k \in 1 .. n - 1 : SubSeq(stack, 1, n - 1)[k] = stack[k]
  <2> HIDE DEF C
  <2>1. stack \in Seq(C) /\ n \in Nat \ {0} /\ 1 \in 1 .. n + 1 /\ n - 1 \in 0 .. n
    BY <1>1 DEF C
  <2>2. \A k \in 1 .. n - 1 : stack[k] \in C
    BY <2>1
  <2> DEFINE e == n - 1
  <2>3. e \in Int /\ 1 \in Int /\ e = n - 1 /\ \A k \in 1 .. e : stack[k] \in C
    BY <2>1, <2>2
  <2> HIDE DEF e
  <2>4. /\ SubSeq(stack, 1, e) \in Seq(C) /\ Len(SubSeq(stack, 1, e)) = IF 1 <= e THEN e - 1 + 1 ELSE 0
        /\ \A k \in 1 .. e - 1 + 1 : SubSeq(stack, 1, e)[k] = stack[1 + k - 1]
    BY <2>3, SubSeqProperties
  <2> QED BY <2>1, <2>3, <2>4
<1>2. /\ Front(stack) \in Seq(CallType) /\ Len(Front(stack)) = n - 1
      /\ \A k \in 1 .. n - 1 : Front(stack)[k] = stack[k]
  BY <1>3 DEF Front
<1> QED BY <1>1, <1>2

\* What a step of the call on top keeps of those under way.
SameList == UNCHANGED <<list, start, loaded, up>>

LEMMA FitsLike ==
  ASSUME NEW l, NEW s, NEW b, NEW c, Fits(c, l, s, b),
         NEW d, d.op = c.op, d.s = c.s, d.arg = c.arg, d.step = c.step
  PROVE  Fits(d, l, s, b)
  BY DEF Fits

LEMMA GotoFrames ==
  ASSUME stack \in Seq(CallType), stack # <<>>, Frames, SameList, NEW step \in ScriptSteps,
         Goto(step), Top.op \in ScriptOps
  PROVE  stack' \in Seq(CallType) /\ Frames'
<1> DEFINE n == Len(stack)
<1>1. n \in 1 .. n /\ Top = stack[n] /\ Top \in CallType /\ n \in Nat
  BY TopIs
<1>2. /\ stack' \in Seq(CallType) /\ Len(stack') = n
      /\ \A k \in 1 .. n : k # n => stack'[k] = stack[k]
      /\ stack'[n] = [Top EXCEPT !.step = step, !.i = 1]
  BY GotoIs DEF Steps
<1>3. stack'[n].op = Top.op /\ stack'[n].s = Top.s /\ stack'[n].arg = Top.arg /\ stack'[n].step = step
  BY <1>1, <1>2 DEF CallType
<1>4. Fits(stack'[n], list, start, loaded)
  <2>1. Fits(Top, list, start, loaded)
    BY <1>1 DEF Frames
  <2>2. Top.op # "config" /\ step \notin {"set"}
    BY DEF ScriptOps, ScriptSteps
  <2> QED BY <1>3, <2>1, <2>2 DEF Fits
<1>5. \A k \in 1 .. n : Fits(stack'[k], list, start, loaded) /\ stack'[k].op = stack[k].op
  BY <1>1, <1>2, <1>3, <1>4 DEF Frames
<1> QED BY <1>1, <1>2, <1>5 DEF Frames, SameList

LEMMA EachFrames ==
  ASSUME stack \in Seq(CallType), stack # <<>>, Frames, SameList, NEW c \in CallType,
         Each(c), Fits(c, list, start, loaded), c.op # "config"
  PROVE  stack' \in Seq(CallType) /\ Frames'
<1> DEFINE n == Len(stack)
<1>1. n \in 1 .. n /\ Top = stack[n] /\ Top \in CallType /\ n \in Nat
  BY TopIs
<1>2. /\ stack' \in Seq(CallType) /\ Len(stack') = n + 1
      /\ \A k \in 1 .. n : k # n => stack'[k] = stack[k]
      /\ stack'[n] = [Top EXCEPT !.i = @ + 1]
      /\ stack'[n + 1] = c
  BY EachIs
<1>3. stack'[n].op = Top.op /\ stack'[n].s = Top.s /\ stack'[n].arg = Top.arg /\ stack'[n].step = Top.step
  BY <1>1, <1>2 DEF CallType
<1>4. Fits(stack'[n], list, start, loaded)
  BY <1>1, <1>3, FitsLike DEF Frames
<1>5. \A k \in 1 .. n : Fits(stack'[k], list, start, loaded) /\ stack'[k].op = stack[k].op
  BY <1>1, <1>2, <1>3, <1>4 DEF Frames
<1> QED BY <1>1, <1>2, <1>5 DEF Frames, SameList

LEMMA PushFrames ==
  ASSUME stack \in Seq(CallType), Frames, SameList, NEW c \in CallType,
         stack' = Append(stack, c), Fits(c, list, start, loaded), c.op # "config"
  PROVE  stack' \in Seq(CallType) /\ Frames'
<1>1. /\ Len(stack') = Len(stack) + 1 /\ stack' \in Seq(CallType)
      /\ \A k \in 1 .. Len(stack) : stack'[k] = stack[k]
      /\ stack'[Len(stack) + 1] = c
  OBVIOUS
<1> QED BY <1>1 DEF Frames, SameList

LEMMA ReturnFrames ==
  ASSUME stack \in Seq(CallType), stack # <<>>, Frames, SameList, Return
  PROVE  stack' \in Seq(CallType) /\ Frames'
<1>1. /\ stack' \in Seq(CallType) /\ Len(stack') = Len(stack) - 1 /\ Len(stack) \in Nat \ {0}
      /\ \A k \in 1 .. Len(stack) - 1 : stack'[k] = stack[k]
  BY ReturnIs, TopIs
<1> QED BY <1>1 DEF Frames, SameList

-----------------------------------------------------------------------------
(***************************************************************************)
(* Each step                                                               *)
(***************************************************************************)

LEMMA CallsAre ==
  /\ \A c \in Codes : HostEvent(c) \in CallType /\ CatchUpEvent(c) \in CallType
  /\ \A s \in Scripts, c \in Codes : ScriptAction(s, c) \in CallType
  /\ \A s \in Scripts, p \in Paths : CallFile(s, p) \in CallType
  /\ \A s \in Scripts : StartScript(s) \in CallType
  /\ ConfigSet \in CallType /\ CatchUp \in CallType
  BY DEF HostEvent, CatchUpEvent, ScriptAction, CallFile, StartScript, ConfigSet, CatchUp,
         Call, CallType

LEMMA OnTop ==
  ASSUME TypeOK, Frames, stack # <<>>
  PROVE  /\ Top \in CallType /\ Fits(Top, list, start, loaded) /\ stack \in Seq(CallType)
         /\ Top.op \in ScriptOps => Top.s \in Scripts /\ Top.s \in ToSet(list)
<1>1. stack \in Seq(CallType) /\ list \in Seq(Scripts)
  BY DEF TypeOK
<1>2. Top \in CallType /\ Fits(Top, list, start, loaded)
  BY <1>1, TopIs DEF Frames
<1>3. ToSet(list) \subseteq Scripts
  BY <1>1, ToSetIs
<1> QED BY <1>1, <1>2, <1>3 DEF Fits

\* Files stay with their scripts when nobody touches them.
LEMMA FilesStay ==
  ASSUME Owned, UNCHANGED <<files, sfiles, list>>
  PROVE  Owned'
  BY DEF Owned

LEMMA StillLoaded ==
  ASSUME EngineUp, SameList, stack # <<>>
  PROVE  EngineUp'
  BY DEF EngineUp, SameList

\* A context that is freed takes its files with it.
LEMMA FreeIs ==
  ASSUME TypeOK, Owned, NEW S \in SUBSET Scripts,
         NEW new \in [live : BOOLEAN, text : Texts \cup {NoText}, got : Seq(Lifecycle)],
         FreeContexts(S, new), NEW next \in Seq(Scripts), list' = next,
         ToSet(list) \subseteq ToSet(next) \cup S
  PROVE  /\ ctx' \in [Scripts -> [live : BOOLEAN, text : Texts \cup {NoText},
                                   got : Seq(Lifecycle)]]
         /\ files' \in [Paths -> Owners] /\ sfiles' \in [Scripts -> SUBSET Paths] /\ Owned'
<1>1. ctx' \in [Scripts -> [live : BOOLEAN, text : Texts \cup {NoText}, got : Seq(Lifecycle)]]
  BY DEF TypeOK, FreeContexts
<1>2. /\ files' = [p \in Paths |-> IF \E s \in S : p \in sfiles[s] THEN "nobody" ELSE files[p]]
      /\ sfiles' = [s \in Scripts |-> IF s \in S THEN {} ELSE sfiles[s]]
  BY DEF FreeContexts
<1>3. files \in [Paths -> Owners] /\ sfiles \in [Scripts -> SUBSET Paths]
  BY DEF TypeOK
<1>4. files' \in [Paths -> Owners] /\ sfiles' \in [Scripts -> SUBSET Paths]
  BY <1>2, <1>3 DEF Owners
<1>5. \A s \in Scripts : sfiles'[s] = IF s \in S THEN {} ELSE sfiles[s]
  BY <1>2
<1>6. \A p \in Paths : files'[p] = "jsengine" <=> \E s \in Scripts : p \in sfiles'[s]
  BY <1>2, <1>5 DEF Owned
<1>7. \A p \in Paths : \A s, t \in Scripts : p \in sfiles'[s] \cap sfiles'[t] => s = t
  BY <1>5 DEF Owned
<1>8. \A s \in Scripts : sfiles'[s] # {} => s \in ToSet(next)
  BY <1>5 DEF Owned
<1>9. ToSet(list)' = ToSet(next)
  OBVIOUS
<1> QED BY <1>1, <1>4, <1>6, <1>7, <1>8, <1>9 DEF Owned

LEMMA ContextsAre ==
  /\ NoCtx \in [live : BOOLEAN, text : Texts \cup {NoText}, got : Seq(Lifecycle)]
  /\ NewCtx \in [live : BOOLEAN, text : Texts \cup {NoText}, got : Seq(Lifecycle)]
  BY DEF NoCtx, NewCtx

LEMMA SeenIs ==
  ASSUME NEW seen \in Seq(Lifecycle), NEW c
  PROVE  Noted(seen, c) \in Seq(Lifecycle) /\ Got(seen, c) \in Seq(Lifecycle)
  BY DEF Noted, Got

\* Looking at a script's file, and what is done after it
LEMMA LookInv == ASSUME HostInv, Look PROVE HostInv'
<1>1. /\ stack # <<>> /\ Top.op \in ScriptOps /\ SameList
      /\ UNCHANGED <<disk, host, files, eseen, ctx, hash, sfiles, edited>>
  BY DEF Look, At, ScriptOps, SameList, host
<1>2. TypeOK /\ Frames /\ EngineUp /\ Owned /\ stack \in Seq(CallType) /\ Top.s \in Scripts
  BY <1>1, OnTop DEF HostInv
<1>3. stack' \in Seq(CallType) /\ Frames'
  <2>1. PICK step \in {"run", "compare"} : Goto(step)
    BY DEF Look
  <2> QED BY <1>1, <1>2, <2>1, GotoFrames DEF ScriptSteps
<1>4. mtime' \in [Scripts -> 0 .. MaxEdits + 1]
  <2>1. disk[Top.s].mtime \in 0 .. MaxEdits + 1
    <3>1. disk[Top.s].mtime \in 1 .. MaxEdits + 1 /\ MaxEdits \in Nat
      BY <1>2, PluginConstants DEF TypeOK
    <3> QED BY <3>1
  <2>2. mtime' = mtime \/ mtime' = [mtime EXCEPT ![Top.s] = disk[Top.s].mtime]
    BY DEF Look
  <2> QED BY <1>2, <2>1, <2>2 DEF TypeOK
<1>5. TypeOK'
  BY <1>1, <1>2, <1>3, <1>4 DEF TypeOK, SameList, host
<1> QED BY <1>1, <1>2, <1>3, <1>5, FilesStay, StillLoaded DEF HostInv, SameList

LEMMA CompareInv == ASSUME HostInv, Compare PROVE HostInv'
<1>1. /\ stack # <<>> /\ Top.op \in ScriptOps /\ SameList
      /\ UNCHANGED <<disk, host, eseen, mtime, edited>>
  BY DEF Compare, At, ScriptOps, SameList, host
<1>2. TypeOK /\ Frames /\ EngineUp /\ Owned /\ stack \in Seq(CallType) /\ Top.s \in Scripts
  BY <1>1, OnTop DEF HostInv
<1>3. stack' \in Seq(CallType) /\ Frames'
  BY <1>1, <1>2, GotoFrames DEF Compare, ScriptSteps
<1>4. hash' \in [Scripts -> Texts \cup {NoText}]
  BY <1>2 DEF Compare, TypeOK
<1>5. /\ ctx' \in [Scripts -> [live : BOOLEAN, text : Texts \cup {NoText}, got : Seq(Lifecycle)]]
      /\ files' \in [Paths -> Owners] /\ sfiles' \in [Scripts -> SUBSET Paths] /\ Owned'
  <2>1. CASE SameText(Top.s)
    BY <1>1, <1>2, <2>1, FilesStay DEF Compare, TypeOK, SameList
  <2>2. CASE ~SameText(Top.s)
    <3>1. FreeContexts({Top.s}, NewCtx) /\ {Top.s} \in SUBSET Scripts
      BY <1>2, <2>2 DEF Compare
    <3>2. list \in Seq(Scripts) /\ list' = list
      BY <1>1, <1>2 DEF TypeOK, SameList
    <3> QED BY <1>2, <3>1, <3>2, FreeIs, ContextsAre
  <2> QED BY <2>1, <2>2
<1>6. TypeOK'
  BY <1>1, <1>2, <1>3, <1>4, <1>5 DEF TypeOK, SameList, host
<1> QED BY <1>1, <1>2, <1>3, <1>5, <1>6, StillLoaded DEF HostInv

LEMMA StartHashInv == ASSUME HostInv, StartHash PROVE HostInv'
<1>1. /\ stack # <<>> /\ Top.op \in ScriptOps /\ SameList
      /\ UNCHANGED <<disk, host, files, eseen, ctx, mtime, sfiles, edited>>
  BY DEF StartHash, At, ScriptOps, SameList, host
<1>2. TypeOK /\ Frames /\ EngineUp /\ Owned /\ stack \in Seq(CallType) /\ Top.s \in Scripts
  BY <1>1, OnTop DEF HostInv
<1>3. stack' \in Seq(CallType) /\ Frames'
  BY <1>1, <1>2, GotoFrames DEF StartHash, ScriptSteps
<1>4. hash' \in [Scripts -> Texts \cup {NoText}]
  BY <1>2 DEF StartHash, TypeOK
<1>5. TypeOK'
  BY <1>1, <1>2, <1>3, <1>4 DEF TypeOK, SameList, host
<1> QED BY <1>1, <1>2, <1>3, <1>5, FilesStay, StillLoaded DEF HostInv, SameList

LEMMA StartTimeInv == ASSUME HostInv, StartTime PROVE HostInv'
<1>1. /\ stack # <<>> /\ Top.op \in ScriptOps /\ SameList
      /\ UNCHANGED <<disk, host, eseen, hash, edited>>
  BY DEF StartTime, At, ScriptOps, SameList, host
<1>2. TypeOK /\ Frames /\ EngineUp /\ Owned /\ stack \in Seq(CallType) /\ Top.s \in Scripts
  BY <1>1, OnTop DEF HostInv
<1>3. stack' \in Seq(CallType) /\ Frames'
  BY <1>1, <1>2, GotoFrames DEF StartTime, ScriptSteps
<1>4. mtime' \in [Scripts -> 0 .. MaxEdits + 1]
  BY <1>2, PluginConstants DEF StartTime, TypeOK
<1>5. /\ ctx' \in [Scripts -> [live : BOOLEAN, text : Texts \cup {NoText}, got : Seq(Lifecycle)]]
      /\ files' \in [Paths -> Owners] /\ sfiles' \in [Scripts -> SUBSET Paths] /\ Owned'
  <2>1. FreeContexts({Top.s}, NewCtx) /\ {Top.s} \in SUBSET Scripts
    BY <1>2 DEF StartTime
  <2>2. list \in Seq(Scripts) /\ list' = list
    BY <1>1, <1>2 DEF TypeOK, SameList
  <2> QED BY <1>2, <2>1, <2>2, FreeIs, ContextsAre
<1>6. TypeOK'
  BY <1>1, <1>2, <1>3, <1>4, <1>5 DEF TypeOK, SameList, host
<1> QED BY <1>1, <1>2, <1>3, <1>5, <1>6, StillLoaded DEF HostInv

\* Loading, replaying, running
LEMMA LoadScriptInv == ASSUME HostInv, LoadScript PROVE HostInv'
<1>1. /\ stack # <<>> /\ Top.op \in ScriptOps /\ SameList
      /\ UNCHANGED <<disk, host, files, eseen, hash, mtime, sfiles, edited>>
  BY DEF LoadScript, At, SameList, host, seenBy
<1>2. TypeOK /\ Frames /\ EngineUp /\ Owned /\ stack \in Seq(CallType) /\ Top.s \in Scripts
  BY <1>1, OnTop DEF HostInv
<1>3. stack' \in Seq(CallType) /\ Frames'
  <2>1. PICK step \in {"replay", "eval"} : Goto(step)
    BY DEF LoadScript
  <2> QED BY <1>1, <1>2, <2>1, GotoFrames DEF ScriptSteps
<1>4. ctx' \in [Scripts -> [live : BOOLEAN, text : Texts \cup {NoText}, got : Seq(Lifecycle)]]
  BY <1>2 DEF LoadScript, TypeOK
<1>5. TypeOK'
  BY <1>1, <1>2, <1>3, <1>4 DEF TypeOK, SameList, host
<1> QED BY <1>1, <1>2, <1>3, <1>5, FilesStay, StillLoaded DEF HostInv, SameList

LEMMA RunInv == ASSUME HostInv, Run PROVE HostInv'
<1>1. /\ stack # <<>> /\ Top.op \in ScriptOps /\ SameList
      /\ UNCHANGED <<disk, host, files, eseen, hash, mtime, sfiles, edited>>
  BY DEF Run, At, ScriptOps, SameList, host, seenBy
<1>2. TypeOK /\ Frames /\ EngineUp /\ Owned /\ stack \in Seq(CallType) /\ Top.s \in Scripts
  BY <1>1, OnTop DEF HostInv
<1>3. stack' \in Seq(CallType) /\ Frames'
  BY <1>1, <1>2, GotoFrames, ReturnFrames DEF Run, ScriptSteps
<1>4. ctx' \in [Scripts -> [live : BOOLEAN, text : Texts \cup {NoText}, got : Seq(Lifecycle)]]
  <2>1. Got(ctx[Top.s].got, Top.arg) \in Seq(Lifecycle)
    BY <1>2, SeenIs DEF TypeOK
  <2>2. ctx' = ctx \/ ctx' = [ctx EXCEPT ![Top.s].got = Got(ctx[Top.s].got, Top.arg)]
    BY DEF Run
  <2> DEFINE G == Got(ctx[Top.s].got, Top.arg)
  <2> HIDE DEF G
  <2>3. G \in Seq(Lifecycle) /\ (ctx' = ctx \/ ctx' = [ctx EXCEPT ![Top.s].got = G])
    BY <2>1, <2>2 DEF G
  <2>4. [ctx[Top.s] EXCEPT !.got = G] \in
          [live : BOOLEAN, text : Texts \cup {NoText}, got : Seq(Lifecycle)]
    <3>1. ctx[Top.s] \in [live : BOOLEAN, text : Texts \cup {NoText}, got : Seq(Lifecycle)]
      BY <1>2 DEF TypeOK
    <3> QED BY <2>3, <3>1
  <2>5. ctx' = ctx \/ ctx' = [ctx EXCEPT ![Top.s] = [ctx[Top.s] EXCEPT !.got = G]]
    BY <2>3
  <2> QED BY <1>2, <2>4, <2>5 DEF TypeOK
<1>5. TypeOK'
  BY <1>1, <1>2, <1>3, <1>4 DEF TypeOK, SameList, host
<1> QED BY <1>1, <1>2, <1>3, <1>5, FilesStay, StillLoaded DEF HostInv, SameList

\* The steps that change nothing but the stack
LEMMA OnlyStack ==
  ASSUME HostInv, stack # <<>>, stack' \in Seq(CallType), Frames',
         UNCHANGED <<up, disk, host, files, list, eseen, ctx, seenBy, sfiles, start, edited>>
  PROVE  HostInv'
<1>1. TypeOK'
  BY DEF HostInv, TypeOK, host, seenBy
<1>2. SameList /\ UNCHANGED <<files, sfiles, list>>
  BY DEF SameList, host
<1> QED BY <1>1, <1>2, FilesStay, StillLoaded DEF HostInv

LEMMA StackInv ==
  ASSUME HostInv,
         Evaluated \/ Replay \/ Handled \/ Drive \/ EventScript \/ StartEach \/ CatchUpEach
  PROVE  HostInv'
<1>1. /\ stack # <<>> /\ SameList
      /\ UNCHANGED <<up, disk, host, files, list, eseen, ctx, seenBy, sfiles, start, edited>>
  BY DEF Evaluated, Replay, Handled, Drive, EventScript, StartEach, CatchUpEach, At, SameList,
         host
<1>2. /\ TypeOK /\ Frames /\ stack \in Seq(CallType) /\ Top \in CallType
      /\ Fits(Top, list, start, loaded)
      /\ Top.op \in ScriptOps => Top.s \in Scripts /\ Top.s \in ToSet(list)
  BY <1>1, OnTop DEF HostInv
<1>3. Top.i \in Nat \ {0} /\ Top.arg \in Codes \cup Paths \cup {"none"}
  BY <1>2, CallIs
<1>4. SUFFICES stack' \in Seq(CallType) /\ Frames'
  BY <1>1, OnlyStack
<1>5. CASE Evaluated
  BY <1>1, <1>2, <1>5, GotoFrames DEF Evaluated, At, ScriptSteps
<1>6. CASE Replay
  <2>1. Top.op \in ScriptOps
    BY <1>6 DEF Replay, At
  <2>2. CASE Top.i <= Len(eseen)
    <3>1. eseen[Top.i] \in Codes
      BY <1>2, <1>3, <2>2, PluginConstants DEF TypeOK
    <3> DEFINE c == ScriptAction(Top.s, eseen[Top.i])
    <3>2. c \in CallType
      BY <1>2, <2>1, <3>1, CallsAre
    <3>3. Fits(c, list, start, loaded) /\ c.op # "config"
      BY <1>2, <2>1 DEF Fits, ScriptAction, Call, ScriptOps, ScriptSteps
    <3>4. Each(c)
      BY <1>6, <2>2 DEF Replay
    <3> HIDE DEF c
    <3> QED BY <1>1, <1>2, <3>2, <3>3, <3>4, EachFrames
  <2>3. CASE ~(Top.i <= Len(eseen))
    BY <1>1, <1>2, <1>6, <2>1, <2>3, GotoFrames, ReturnFrames DEF Replay, Checked, ScriptSteps
  <2> QED BY <2>2, <2>3
<1>7. CASE Handled
  BY <1>1, <1>2, <1>7, ReturnFrames DEF Handled
<1>8. CASE Drive
  <2> DEFINE c == HostEvent("change")
  <2>1. c \in CallType
    BY CallsAre DEF Codes
  <2>2. Fits(c, list, start, loaded) /\ c.op # "config"
    BY DEF Fits, HostEvent, Call, ScriptOps, ScriptSteps, Codes
  <2>3. stack' = Append(stack, c)
    BY <1>8 DEF Drive
  <2> HIDE DEF c
  <2> QED BY <1>1, <1>2, <2>1, <2>2, <2>3, PushFrames
<1>9. CASE EventScript
  <2>1. list[Top.i] \in ToSet(list) /\ list[Top.i] \in Scripts
    <3>1. list \in Seq(Scripts) /\ Top.i \in 1 .. Len(list)
      <4>1. list \in Seq(Scripts)
        BY <1>2 DEF TypeOK
      <4>2. Top.i <= Len(list)
        BY <1>9 DEF EventScript
      <4> QED BY <1>3, <4>1, <4>2
    <3>2. list[Top.i] \in Scripts /\ DOMAIN list = 1 .. Len(list)
      BY <3>1
    <3> QED BY <3>1, <3>2 DEF ToSet
  <2>2. Top.arg \in Codes
    BY <1>2, <1>9 DEF EventScript, At, Fits
  <2> DEFINE c == ScriptAction(list[Top.i], Top.arg)
  <2>3. c \in CallType
    BY <2>1, <2>2, CallsAre
  <2>4. Fits(c, list, start, loaded) /\ c.op # "config"
    BY <2>1 DEF Fits, ScriptAction, Call, ScriptOps, ScriptSteps
  <2>5. Each(c)
    BY <1>9 DEF EventScript
  <2> HIDE DEF c
  <2> QED BY <1>1, <1>2, <2>3, <2>4, <2>5, EachFrames
<1>10. CASE StartEach
  <2>1. CASE Top.i <= Len(start)
    <3>1. start[Top.i] \in ToSet(start) /\ start[Top.i] \in Scripts
      BY <1>2, <1>3, <2>1, ToSetIs DEF TypeOK
    <3>2. start[Top.i] \in ToSet(list)
      BY <1>2, <1>10, <3>1 DEF Fits, StartEach, At
    <3> DEFINE c == StartScript(start[Top.i])
    <3>3. c \in CallType
      BY <3>1, CallsAre
    <3>4. Fits(c, list, start, loaded) /\ c.op # "config"
      BY <3>2 DEF Fits, StartScript, Call, ScriptOps, ScriptSteps
    <3>5. Each(c)
      BY <1>10, <2>1 DEF StartEach
    <3> HIDE DEF c
    <3> QED BY <1>1, <1>2, <3>3, <3>4, <3>5, EachFrames
  <2>2. CASE ~(Top.i <= Len(start))
    BY <1>1, <1>2, <1>10, <2>2, ReturnFrames DEF StartEach
  <2> QED BY <2>1, <2>2
<1>11. CASE CatchUpEach
  <2>1. CASE Top.i <= Len(hseen)
    <3>1. hseen[Top.i] \in Codes
      BY <1>2, <1>3, <2>1, PluginConstants DEF TypeOK
    <3> DEFINE c == CatchUpEvent(hseen[Top.i])
    <3>2. c \in CallType
      BY <3>1, CallsAre
    <3>3. Fits(c, list, start, loaded) /\ c.op # "config"
      BY <3>1 DEF Fits, CatchUpEvent, Call, ScriptOps, ScriptSteps
    <3>4. Each(c)
      BY <1>11, <2>1 DEF CatchUpEach
    <3> HIDE DEF c
    <3> QED BY <1>1, <1>2, <3>2, <3>3, <3>4, EachFrames
  <2>2. CASE ~(Top.i <= Len(hseen))
    BY <1>1, <1>2, <1>11, <2>2, ReturnFrames DEF CatchUpEach
  <2> QED BY <2>1, <2>2
<1> QED BY <1>5, <1>6, <1>7, <1>8, <1>9, <1>10, <1>11

LEMMA EventEndInv == ASSUME HostInv, EventEnd PROVE HostInv'
<1>1. /\ stack # <<>> /\ SameList
      /\ UNCHANGED <<disk, lib, files, ctx, hash, mtime, sfiles, edited>>
  BY DEF EventEnd, At, SameList, seenBy
<1>2. TypeOK /\ Frames /\ EngineUp /\ Owned /\ stack \in Seq(CallType)
  BY <1>1, OnTop DEF HostInv
<1>3. stack' \in Seq(CallType) /\ Frames'
  BY <1>1, <1>2, ReturnFrames DEF EventEnd
<1>4. eseen' \in Seq(Lifecycle) /\ hseen' \in Seq(Lifecycle)
  <2>1. eseen \in Seq(Lifecycle) /\ hseen \in Seq(Lifecycle)
    BY <1>2 DEF TypeOK
  <2>2. Noted(eseen, Top.arg) \in Seq(Lifecycle) /\ Noted(hseen, Top.arg) \in Seq(Lifecycle)
    BY <2>1, SeenIs
  <2> QED BY <2>1, <2>2 DEF EventEnd
<1>5. TypeOK'
  BY <1>1, <1>2, <1>3, <1>4 DEF TypeOK, SameList
<1> QED BY <1>1, <1>2, <1>3, <1>5, FilesStay, StillLoaded DEF HostInv, SameList

\* The scripts not in the new list are stopped, those to start are in it.
LEMMA SetScriptsInv == ASSUME HostInv, SetScripts PROVE HostInv'
<1>1. /\ stack # <<>> /\ Top.op = "config" /\ Top.step = "set" /\ Goto("each")
      /\ UNCHANGED <<up, disk, loaded, hseen, lib, eseen, edited>>
  BY DEF SetScripts, At, host
<1>2. TypeOK /\ Frames /\ EngineUp /\ Owned /\ stack \in Seq(CallType) /\ loaded
  BY <1>1, OnTop DEF HostInv, Fits
<1>3. start \in Seq(Scripts) /\ list \in Seq(Scripts) /\ ToSet(start) \subseteq Scripts
      /\ ToSet(list) \subseteq Scripts
  BY <1>2, ToSetIs DEF TypeOK
<1>4. list' \in Seq(Scripts) /\ ToSet(list') = ToSet(start)
  <2>1. list' \in Ordered(ToSet(start), start)
    BY DEF SetScripts
  <2> QED BY <1>3, <2>1, OrderedIs
<1>5. start' \in Seq(Scripts) /\ ToSet(start') \subseteq ToSet(start)
  <2> DEFINE S == {s \in ToSet(start) : ~ctx[s].live \/ disk[s].text # hash[s]}
  <2>1. start' \in Ordered(S, start) /\ S \in SUBSET ToSet(start)
    BY DEF SetScripts
  <2> HIDE DEF S
  <2>2. start' \in Seq(Scripts) /\ ToSet(start') = S
    BY <1>3, <2>1, OrderedIs
  <2> QED BY <2>1, <2>2
<1> DEFINE gone == Stopped(list')
<1>6. gone \in SUBSET Scripts /\ ToSet(list) \subseteq ToSet(list') \cup gone
  BY <1>3 DEF Stopped
<1>7. /\ ctx' \in [Scripts -> [live : BOOLEAN, text : Texts \cup {NoText}, got : Seq(Lifecycle)]]
      /\ files' \in [Paths -> Owners] /\ sfiles' \in [Scripts -> SUBSET Paths] /\ Owned'
  <2>1. FreeContexts(gone, NoCtx)
    BY DEF SetScripts
  <2>2. PICK next \in Seq(Scripts) : list' = next
    BY <1>4
  <2> HIDE DEF gone
  <2> QED BY <1>2, <1>6, <2>1, <2>2, FreeIs, ContextsAre
<1>8. hash' \in [Scripts -> Texts \cup {NoText}] /\ mtime' \in [Scripts -> 0 .. MaxEdits + 1]
  <2> HIDE DEF gone
  <2>1. /\ hash' = [s \in Scripts |-> IF s \in gone THEN NoText ELSE hash[s]]
        /\ mtime' = [s \in Scripts |-> IF s \in gone THEN 0 ELSE mtime[s]]
    BY DEF SetScripts, gone
  <2>2. 0 \in 0 .. MaxEdits + 1
    BY PluginConstants
  <2> QED BY <1>2, <2>1, <2>2 DEF TypeOK
<1>9. stack' \in Seq(CallType) /\ Frames'
  <2> DEFINE n == Len(stack)
  <2>1. n \in 1 .. n /\ Top = stack[n] /\ n \in Nat
    BY <1>1, <1>2, TopIs
  <2>2. /\ stack' \in Seq(CallType) /\ Len(stack') = n
        /\ \A k \in 1 .. n : k # n => stack'[k] = stack[k]
        /\ stack'[n] = [Top EXCEPT !.step = "each", !.i = 1]
    BY <1>1, <1>2, GotoIs DEF Steps
  <2>3. Top \in CallType
    BY <1>1, <1>2, TopIs
  <2>4. stack'[n].op = "config" /\ stack'[n].step = "each"
    BY <1>1, <2>2, <2>3 DEF CallType
  <2>5. ToSet(start') \subseteq ToSet(list')
    BY <1>4, <1>5
  <2>6. Fits(stack'[n], list', start', loaded)
    BY <1>2, <2>4, <2>5 DEF Fits, ScriptOps, ScriptSteps
  <2>7. \A k \in 1 .. n : k # n => stack'[k] = stack[k] /\ stack[k].op = "catchup"
    <3>1. stack[n].op = "config"
      BY <1>1, <2>1
    <3>2. \A m \in 1 .. n - 1 : stack[m].op = "catchup"
      BY <1>2, <2>1, <3>1 DEF Frames
    <3>3. \A k \in 1 .. n : k # n => k \in 1 .. n - 1
      BY <2>1
    <3> QED BY <2>2, <3>2, <3>3
  <2>8. \A k \in 1 .. n : k # n => Fits(stack'[k], list', start', loaded)
    BY <1>2, <2>7 DEF Frames, Fits, ScriptOps, ScriptSteps
  <2>9. \A k \in 1 .. n : Fits(stack'[k], list', start', loaded)
    BY <2>6, <2>8
  <2>10. \A k \in 1 .. n : \A m \in 1 .. k - 1 : stack'[m].op = "catchup"
    <3>1. \A k \in 1 .. n : \A m \in 1 .. k - 1 : m \in 1 .. n /\ m # n
      BY <2>1
    <3> QED BY <2>7, <3>1
  <2>11. loaded' = loaded
    BY <1>1
  <2> QED BY <2>2, <2>9, <2>10, <2>11 DEF Frames
<1>10. TypeOK'
  BY <1>1, <1>2, <1>4, <1>5, <1>7, <1>8, <1>9 DEF TypeOK
<1>11. EngineUp'
  BY <1>1, <1>2 DEF EngineUp
<1> QED BY <1>7, <1>9, <1>10, <1>11 DEF HostInv

\* A file is added and removed by the script that runs.
LEMMA FileInv ==
  ASSUME HostInv, NEW p \in Paths, FileAdd(p) \/ FileRemove(p)
  PROVE  HostInv'
<1>1. /\ stack # <<>> /\ Running /\ SameList /\ stack' = stack
      /\ UNCHANGED <<disk, host, eseen, ctx, hash, mtime, edited>>
  BY DEF FileAdd, FileRemove, Running, SameList, host, seenBy
<1>2. TypeOK /\ Frames /\ EngineUp /\ Owned
  BY DEF HostInv
<1>3. Top.s \in Scripts /\ Top.s \in ToSet(list)
  BY <1>1, <1>2, OnTop DEF Running, Fits, ScriptSteps
<1>4. files \in [Paths -> Owners] /\ sfiles \in [Scripts -> SUBSET Paths]
  BY <1>2 DEF TypeOK
<1>5. Frames' /\ EngineUp' /\ ToSet(list)' = ToSet(list)
  BY <1>1, <1>2, StillLoaded DEF Frames, SameList
<1> DEFINE s == Top.s
<1> HIDE DEF s
<1>6. s \in Scripts /\ s \in ToSet(list)
  BY <1>3 DEF s
<1>7. CASE FileAdd(p)
  <2>1. /\ files' = [files EXCEPT ![p] = "jsengine"]
        /\ sfiles' = [sfiles EXCEPT ![s] = sfiles[s] \cup {p}]
        /\ \A t \in Scripts : p \in sfiles[t] => t = s
    BY <1>7 DEF FileAdd, ScriptOwning, s
  <2>2. files' \in [Paths -> Owners] /\ sfiles' \in [Scripts -> SUBSET Paths]
    BY <1>4, <1>6, <2>1 DEF Owners
  <2>3. \A t \in Scripts : sfiles'[t] = IF t = s THEN sfiles[s] \cup {p} ELSE sfiles[t]
    BY <1>4, <1>6, <2>1
  <2>4. \A q \in Paths : files'[q] = IF q = p THEN "jsengine" ELSE files[q]
    BY <1>4, <2>1
  <2>5. \A q \in Paths : files'[q] = "jsengine" <=> \E t \in Scripts : q \in sfiles'[t]
    BY <1>2, <1>6, <2>3, <2>4 DEF Owned
  <2>6. \A q \in Paths : \A t, u \in Scripts : q \in sfiles'[t] \cap sfiles'[u] => t = u
    BY <1>2, <1>6, <2>1, <2>3 DEF Owned
  <2>7. \A t \in Scripts : sfiles'[t] # {} => t \in ToSet(list)
    BY <1>2, <1>6, <2>3 DEF Owned
  <2>8. Owned'
    BY <1>5, <2>5, <2>6, <2>7 DEF Owned
  <2>9. TypeOK'
    BY <1>1, <1>2, <2>2 DEF TypeOK, SameList, host
  <2> QED BY <1>5, <2>8, <2>9 DEF HostInv
<1>8. CASE FileRemove(p)
  <2>1. /\ files' = [files EXCEPT ![p] = "nobody"]
        /\ sfiles' = [sfiles EXCEPT ![s] = sfiles[s] \ {p}] /\ p \in sfiles[s]
    BY <1>8 DEF FileRemove, s
  <2>2. files' \in [Paths -> Owners] /\ sfiles' \in [Scripts -> SUBSET Paths]
    BY <1>4, <1>6, <2>1 DEF Owners
  <2>3. \A t \in Scripts : sfiles'[t] = IF t = s THEN sfiles[s] \ {p} ELSE sfiles[t]
    BY <1>4, <1>6, <2>1
  <2>4. \A q \in Paths : files'[q] = IF q = p THEN "nobody" ELSE files[q]
    BY <1>4, <2>1
  <2>5. \A t \in Scripts : p \in sfiles[t] => t = s
    BY <1>2, <1>6, <2>1 DEF Owned
  <2>6. \A q \in Paths : files'[q] = "jsengine" <=> \E t \in Scripts : q \in sfiles'[t]
    BY <1>2, <1>6, <2>3, <2>4, <2>5 DEF Owned
  <2>7. \A q \in Paths : \A t, u \in Scripts : q \in sfiles'[t] \cap sfiles'[u] => t = u
    BY <1>2, <2>3 DEF Owned
  <2>8. \A t \in Scripts : sfiles'[t] # {} => t \in ToSet(list)
    BY <1>2, <1>6, <2>3 DEF Owned
  <2>9. Owned'
    BY <1>5, <2>6, <2>7, <2>8 DEF Owned
  <2>10. TypeOK'
    BY <1>1, <1>2, <2>2 DEF TypeOK, SameList, host
  <2> QED BY <1>5, <2>9, <2>10 DEF HostInv
<1> QED BY <1>7, <1>8

\* Another plugin keeps off the files of the engine.
LEMMA OtherFileInv ==
  ASSUME HostInv, NEW p \in Paths, OtherFile(p)
  PROVE  HostInv'
<1>1. UNCHANGED <<up, disk, host, list, eseen, ctx, hash, mtime, sfiles, stack, start, edited>>
  BY DEF OtherFile, seenBy
<1>2. TypeOK /\ Frames /\ EngineUp /\ Owned
  BY DEF HostInv
<1>3. files \in [Paths -> Owners]
  BY <1>2 DEF TypeOK
<1>4. /\ files[p] # "jsengine"
      /\ files' = [files EXCEPT ![p] = "other"] \/ files' = [files EXCEPT ![p] = "nobody"]
  BY DEF OtherFile, MayAdd
<1>5. files' \in [Paths -> Owners] /\ \A q \in Paths : files'[q] = "jsengine" <=> files[q] = "jsengine"
  BY <1>3, <1>4 DEF Owners
<1>6. Owned'
  BY <1>1, <1>2, <1>5 DEF Owned
<1>7. TypeOK'
  BY <1>1, <1>2, <1>5 DEF TypeOK, host
<1>8. Frames' /\ EngineUp'
  BY <1>1, <1>2 DEF Frames, EngineUp, host
<1> QED BY <1>6, <1>7, <1>8 DEF HostInv

LEMMA OutsideInv ==
  ASSUME HostInv, Outside
  PROVE  HostInv'
<1>1. ASSUME NEW s \in Scripts, NEW t \in Texts \cup {NoText}, Edit(s, t) PROVE HostInv'
  <2>1. UNCHANGED <<up, host, files, list, eseen, ctx, hash, mtime, sfiles, stack, start>>
    BY <1>1 DEF Edit, seenBy
  <2>2. TypeOK /\ Frames /\ EngineUp /\ Owned
    BY DEF HostInv
  <2>3. disk' \in [Scripts -> [text : Texts \cup {NoText}, mtime : 1 .. MaxEdits + 1]]
    <3>1. disk[s].mtime \in 1 .. MaxEdits + 1 /\ disk[s].mtime <= MaxEdits /\ MaxEdits \in Nat
      BY <1>1, <2>2, PluginConstants DEF Edit, TypeOK
    <3>2. disk[s].mtime + 1 \in 1 .. MaxEdits + 1
      BY <3>1
    <3>3. disk' = [disk EXCEPT ![s] = [text |-> t, mtime |-> disk[s].mtime + 1]]
      BY <1>1 DEF Edit
    <3> QED BY <2>2, <3>2, <3>3 DEF TypeOK
  <2>4. edited' \subseteq Scripts
    BY <1>1, <2>2 DEF Edit, TypeOK
  <2>5. TypeOK'
    BY <2>1, <2>2, <2>3, <2>4 DEF TypeOK, host
  <2>6. Frames' /\ EngineUp' /\ Owned'
    BY <2>1, <2>2 DEF Frames, EngineUp, Owned, host
  <2> QED BY <2>5, <2>6 DEF HostInv
<1>2. ASSUME NEW l \in {"new", "gone"}, Build(l) PROVE HostInv'
  <2>1. UNCHANGED <<up, disk, loaded, hseen, files, list, eseen, ctx, hash, mtime, sfiles, stack,
                    start, edited>>
    BY <1>2 DEF Build, seenBy
  <2>2. TypeOK /\ Frames /\ EngineUp /\ Owned /\ lib' \in {"same", "new", "gone"}
    BY <1>2 DEF HostInv, Build
  <2>3. TypeOK'
    BY <2>1, <2>2 DEF TypeOK
  <2>4. Frames' /\ EngineUp' /\ Owned'
    BY <2>1, <2>2 DEF Frames, EngineUp, Owned
  <2> QED BY <2>3, <2>4 DEF HostInv
<1> QED BY <1>1, <1>2, OtherFileInv DEF Outside

\* A call that begins with nothing else under way
LEMMA Alone ==
  ASSUME NEW c \in CallType, Fits(c, list', start', loaded'), stack' = <<c>>
  PROVE  stack' \in Seq(CallType) /\ Frames'
<1>1. Len(stack') = 1 /\ stack'[1] = c /\ stack' \in Seq(CallType)
  OBVIOUS
<1>2. \A k \in 1 .. 1 : k = 1 /\ \A m \in 1 .. k - 1 : FALSE
  OBVIOUS
<1> QED BY <1>1, <1>2 DEF Frames

\* load() and reload(): the events of the start, then the configuration
LEMMA ThenConfig ==
  ASSUME stack' = <<CatchUp, ConfigSet>>, loaded'
  PROVE  stack' \in Seq(CallType) /\ Frames'
<1> DEFINE a == CatchUp
           b == ConfigSet
<1>1. a \in CallType /\ b \in CallType
  BY CallsAre
<1>2. /\ Fits(a, list', start', loaded') /\ Fits(b, list', start', loaded')
      /\ a.op = "catchup"
  BY DEF Fits, CatchUp, ConfigSet, Call, ScriptOps, ScriptSteps
<1> HIDE DEF a, b
<1>3. stack' = <<a, b>>
  BY DEF a, b
<1>4. Len(stack') = 2 /\ stack'[1] = a /\ stack'[2] = b /\ stack' \in Seq(CallType)
  BY <1>1, <1>3
<1>5. \A k \in 1 .. 2 : (k = 1 \/ k = 2) /\ \A m \in 1 .. k - 1 : m = 1
  OBVIOUS
<1> QED BY <1>2, <1>4, <1>5 DEF Frames

\* A new engine has no script, and no engine has no file.
LEMMA NothingIs ==
  ASSUME NothingKept
  PROVE  /\ list' = <<>> /\ list' \in Seq(Scripts) /\ eseen' \in Seq(Lifecycle)
         /\ hash' \in [Scripts -> Texts \cup {NoText}]
         /\ mtime' \in [Scripts -> 0 .. MaxEdits + 1]
<1>1. 0 \in 0 .. MaxEdits + 1
  BY PluginConstants
<1> QED BY <1>1 DEF NothingKept

LEMMA UnloadIs ==
  ASSUME TypeOK, Owned, Unload
  PROVE  /\ ctx' \in [Scripts -> [live : BOOLEAN, text : Texts \cup {NoText},
                                   got : Seq(Lifecycle)]]
         /\ files' \in [Paths -> Owners] /\ sfiles' \in [Scripts -> SUBSET Paths] /\ Owned'
<1>1. ctx' \in [Scripts -> [live : BOOLEAN, text : Texts \cup {NoText}, got : Seq(Lifecycle)]]
  BY ContextsAre DEF Unload
<1>2. files' \in [Paths -> Owners] /\ sfiles' \in [Scripts -> SUBSET Paths]
  BY DEF Unload, TypeOK, Owners
<1>3. /\ \A p \in Paths : files'[p] # "jsengine"
      /\ \A s \in Scripts : sfiles'[s] = {}
  BY DEF Unload
<1> QED BY <1>1, <1>2, <1>3 DEF Owned

\* With no script in the list there is no file of one.
LEMMA NoneOwned ==
  ASSUME Owned, list = <<>>, UNCHANGED <<files, sfiles>>
  PROVE  Owned'
<1>1. ToSet(list) = {}
  BY DEF ToSet
<1>2. \A s \in Scripts : sfiles[s] = {}
  BY <1>1 DEF Owned
<1> QED BY <1>2 DEF Owned

LEMMA LoadConfigInv == ASSUME HostInv, LoadConfig PROVE HostInv'
<1>1. TypeOK /\ Frames /\ EngineUp /\ Owned
  BY DEF HostInv
<1>2. up = "new" /\ stack = <<>> /\ list = <<>>
      /\ UNCHANGED <<disk, hseen, files, ctx, sfiles, edited>>
  BY <1>1 DEF LoadConfig, EngineUp
<1>3. CASE PluginInit /\ up' = "config" /\ start' \in Configs /\ stack' = <<CatchUp, ConfigSet>>
  <2>1. start' \in Seq(Scripts) /\ loaded' = TRUE /\ lib' = "same" /\ NothingKept
    BY <1>3, PluginConstants DEF PluginInit
  <2>2. stack' \in Seq(CallType) /\ Frames'
    BY <1>3, <2>1, ThenConfig
  <2>3. TypeOK'
    BY <1>1, <1>2, <1>3, <2>1, <2>2, NothingIs DEF TypeOK
  <2>4. EngineUp' /\ Owned'
    BY <1>1, <1>2, <1>3, <2>1, NoneOwned DEF EngineUp
  <2> QED BY <2>2, <2>3, <2>4 DEF HostInv
<1>4. CASE up' \in {"config", "begin"} /\ UNCHANGED <<loaded, lib, list, eseen, seenBy, start, stack>>
  <2>1. TypeOK'
    BY <1>1, <1>2, <1>4 DEF TypeOK, seenBy
  <2>2. Frames' /\ EngineUp' /\ Owned'
    BY <1>1, <1>2, <1>4 DEF Frames, EngineUp, Owned
  <2> QED BY <2>1, <2>2 DEF HostInv
<1> QED BY <1>3, <1>4 DEF LoadConfig

LEMMA BeginInv ==
  ASSUME HostInv, NEW c \in Codes, Begin(c), up # "new", up' \in {"begin", "up"}
  PROVE  HostInv'
<1>1. TypeOK /\ Frames /\ EngineUp /\ Owned
  BY DEF HostInv
<1>2. /\ stack' = <<HostEvent(c)>> /\ edited' = {}
      /\ UNCHANGED <<disk, host, files, list, eseen, ctx, hash, mtime, sfiles, start>>
  BY DEF Begin, seenBy
<1> DEFINE e == HostEvent(c)
<1>3. e \in CallType /\ Fits(e, list', start', loaded')
  BY CallsAre DEF Fits, HostEvent, Call, ScriptOps, ScriptSteps
<1>4. stack' \in Seq(CallType) /\ Frames'
  <2>1. stack' = <<e>>
    BY <1>2
  <2> HIDE DEF e
  <2> QED BY <1>3, <2>1, Alone
<1>5. TypeOK'
  BY <1>1, <1>2, <1>4 DEF TypeOK, host
<1>6. EngineUp' /\ Owned'
  BY <1>1, <1>2 DEF EngineUp, Owned, host
<1> QED BY <1>4, <1>5, <1>6 DEF HostInv

LEMMA NotReadyInv == ASSUME HostInv, NotReady PROVE HostInv'
<1>1. TypeOK /\ Frames /\ EngineUp /\ Owned
  BY DEF HostInv
<1>2. /\ up # "new" /\ up' \in {"begin", "up"}
      /\ UNCHANGED <<disk, host, files, list, eseen, ctx, hash, mtime, sfiles, stack, start, edited>>
  BY DEF NotReady, seenBy
<1>3. TypeOK'
  BY <1>1, <1>2 DEF TypeOK, host
<1>4. Frames' /\ EngineUp' /\ Owned'
  BY <1>1, <1>2 DEF Frames, EngineUp, Owned, host
<1> QED BY <1>3, <1>4 DEF HostInv

LEMMA AddInv == ASSUME HostInv, Add PROVE HostInv'
<1>1. TypeOK /\ Frames /\ EngineUp /\ Owned
  BY DEF HostInv
<1>2. /\ list = <<>> /\ up = "up" /\ loaded' = TRUE /\ lib' = "same" /\ NothingKept
      /\ stack' = <<CatchUp>>
      /\ UNCHANGED <<up, disk, hseen, files, ctx, sfiles, start, edited>>
  BY <1>1 DEF Add, EngineUp, PluginInit
<1> DEFINE e == CatchUp
<1>3. e \in CallType /\ Fits(e, list', start', loaded')
  BY CallsAre DEF Fits, CatchUp, Call, ScriptOps, ScriptSteps
<1>4. stack' \in Seq(CallType) /\ Frames'
  <2>1. stack' = <<e>>
    BY <1>2
  <2> HIDE DEF e
  <2> QED BY <1>3, <2>1, Alone
<1>5. TypeOK'
  BY <1>1, <1>2, <1>4, NothingIs DEF TypeOK
<1>6. EngineUp' /\ Owned'
  BY <1>1, <1>2, NoneOwned DEF EngineUp
<1> QED BY <1>4, <1>5, <1>6 DEF HostInv

\* The plugin is removed, or its new library does not load.
LEMMA RemovedInv ==
  ASSUME HostInv, up = "up", loaded' = FALSE, Unload, NothingKept, stack = <<>>,
         start' \in Seq(Scripts), UNCHANGED <<up, disk, hseen, lib, stack, edited>>
  PROVE  HostInv'
<1>1. TypeOK /\ Frames /\ EngineUp /\ Owned
  BY DEF HostInv
<1>2. TypeOK' /\ Owned'
  BY <1>1, UnloadIs, NothingIs DEF TypeOK
<1>3. Frames' /\ EngineUp'
  BY NothingIs DEF Frames, EngineUp
<1> QED BY <1>2, <1>3 DEF HostInv

LEMMA RemovePluginInv == ASSUME HostInv, RemovePlugin PROVE HostInv'
<1>1. start \in Seq(Scripts) /\ start' = start
  BY DEF HostInv, TypeOK, RemovePlugin
<1> QED BY <1>1, RemovedInv DEF RemovePlugin, Idle

LEMMA ReloadInv == ASSUME HostInv, Reload PROVE HostInv'
<1>1. TypeOK /\ Frames /\ EngineUp /\ Owned
  BY DEF HostInv
<1>2. /\ stack = <<>> /\ up = "up" /\ loaded /\ start' = list /\ start' \in Seq(Scripts)
      /\ UNCHANGED <<up, disk, hseen, edited>>
  BY <1>1 DEF Reload, Idle, TypeOK
<1>3. CASE /\ stack' = <<ConfigSet>>
           /\ UNCHANGED <<loaded, lib, files, list, eseen, ctx, seenBy, sfiles>>
  <2> DEFINE e == ConfigSet
  <2>1. e \in CallType /\ Fits(e, list', start', loaded')
    BY <1>2, <1>3, CallsAre DEF Fits, ConfigSet, Call, ScriptOps, ScriptSteps
  <2>2. stack' \in Seq(CallType) /\ Frames'
    <3>1. stack' = <<e>>
      BY <1>3
    <3> HIDE DEF e
    <3> QED BY <2>1, <3>1, Alone
  <2>3. TypeOK'
    BY <1>1, <1>2, <1>3, <2>2 DEF TypeOK, seenBy
  <2>4. EngineUp' /\ Owned'
    BY <1>1, <1>2, <1>3 DEF EngineUp, Owned
  <2> QED BY <2>2, <2>3, <2>4 DEF HostInv
<1>4. CASE Unload /\ PluginInit /\ stack' = <<CatchUp, ConfigSet>>
  <2>1. loaded' = TRUE /\ lib' = "same" /\ NothingKept
    BY <1>4 DEF PluginInit
  <2>2. stack' \in Seq(CallType) /\ Frames'
    BY <1>4, <2>1, ThenConfig
  <2>3. TypeOK' /\ Owned'
    BY <1>1, <1>2, <1>4, <2>1, <2>2, UnloadIs, NothingIs DEF TypeOK
  <2>4. EngineUp'
    BY <1>2, <2>1 DEF EngineUp
  <2> QED BY <2>2, <2>3, <2>4 DEF HostInv
<1>5. CASE Unload /\ loaded' = FALSE /\ NothingKept /\ UNCHANGED <<lib, stack>>
  BY <1>2, <1>5, RemovedInv
<1> QED BY <1>3, <1>4, <1>5 DEF Reload

LEMMA FileCallInv ==
  ASSUME HostInv, NEW p \in Paths, FileCall(p)
  PROVE  HostInv'
<1>1. TypeOK /\ Frames /\ EngineUp /\ Owned
  BY DEF HostInv
<1>2. up = "up" /\ UNCHANGED <<up, disk, host, files, list, eseen, ctx, hash, mtime, sfiles, start, edited>>
  BY DEF FileCall, seenBy
<1>3. PICK s \in Scripts : p \in sfiles[s] /\ stack' = <<CallFile(s, p)>>
  BY DEF FileCall, ScriptOwning
<1> DEFINE e == CallFile(s, p)
<1>4. e \in CallType /\ Fits(e, list', start', loaded')
  <2>1. s \in ToSet(list)
    BY <1>1, <1>3 DEF Owned
  <2>2. ToSet(list') = ToSet(list)
    BY <1>2
  <2> QED BY <2>1, <2>2, CallsAre DEF Fits, CallFile, Call, ScriptOps, ScriptSteps
<1>5. stack' \in Seq(CallType) /\ Frames'
  <2>1. stack' = <<e>>
    BY <1>3
  <2> HIDE DEF e
  <2> QED BY <1>4, <2>1, Alone
<1>6. TypeOK'
  BY <1>1, <1>2, <1>5 DEF TypeOK, host
<1>7. EngineUp' /\ Owned'
  BY <1>1, <1>2 DEF EngineUp, Owned, host
<1> QED BY <1>5, <1>6, <1>7 DEF HostInv

-----------------------------------------------------------------------------

LEMMA HostInitInv == Init => HostInv
<1> SUFFICES ASSUME Init PROVE HostInv
  OBVIOUS
<1>1. 1 \in 1 .. MaxEdits + 1 /\ 0 \in 0 .. MaxEdits + 1
  BY PluginConstants
<1>2. disk \in [Scripts -> [text : Texts \cup {NoText}, mtime : 1 .. MaxEdits + 1]]
  BY <1>1 DEF Init
<1>3. TypeOK
  <2>1. /\ ctx \in [Scripts -> [live : BOOLEAN, text : Texts \cup {NoText}, got : Seq(Lifecycle)]]
        /\ hash \in [Scripts -> Texts \cup {NoText}] /\ mtime \in [Scripts -> 0 .. MaxEdits + 1]
    BY <1>1, ContextsAre DEF Init
  <2>2. files \in [Paths -> Owners] /\ sfiles \in [Scripts -> SUBSET Paths]
    BY DEF Init, Owners
  <2>3. /\ list \in Seq(Scripts) /\ start \in Seq(Scripts) /\ stack \in Seq(CallType)
        /\ hseen \in Seq(Lifecycle) /\ eseen \in Seq(Lifecycle) /\ edited \subseteq Scripts
    BY DEF Init
  <2>4. up \in {"new", "config", "begin", "up"} /\ lib \in {"same", "new", "gone"}
        /\ loaded \in BOOLEAN
    BY DEF Init
  <2> QED BY <1>2, <2>1, <2>2, <2>3, <2>4 DEF TypeOK
<1>4. Frames /\ EngineUp
  BY DEF Init, Frames, EngineUp
<1>5. Owned
  BY DEF Init, Owned
<1> QED BY <1>3, <1>4, <1>5 DEF HostInv

LEMMA HostStepInv == HostInv /\ [Next]_vars => HostInv'
<1> SUFFICES ASSUME HostInv, [Next]_vars PROVE HostInv'
  OBVIOUS
<1>1. CASE Engine
  BY <1>1, LookInv, CompareInv, StartHashInv, StartTimeInv, LoadScriptInv, RunInv, StackInv,
     EventEndInv, SetScriptsInv, FileInv DEF Engine
<1>2. CASE Host
  <2>1. CASE Initialized \/ Ready \/ Event
    <3>1. PICK c \in Codes : Begin(c) /\ up # "new" /\ up' \in {"begin", "up"}
      BY <2>1 DEF Initialized, Ready, Event, Codes, Lifecycle
    <3> QED BY <3>1, BeginInv
  <2> QED BY <1>2, <2>1, LoadConfigInv, NotReadyInv, AddInv, RemovePluginInv, ReloadInv,
             FileCallInv DEF Host
<1>3. CASE Outside
  BY <1>3, OutsideInv
<1>4. CASE UNCHANGED vars
  <2>1. UNCHANGED <<up, disk, loaded, hseen, lib, files, list, eseen, ctx, hash, mtime, sfiles,
                    stack, start, edited>>
    BY <1>4 DEF vars, host, seenBy
  <2>2. TypeOK'
    BY <2>1 DEF HostInv, TypeOK
  <2>3. Frames' /\ EngineUp' /\ Owned'
    BY <2>1 DEF HostInv, Frames, EngineUp, Owned
  <2> QED BY <2>2, <2>3 DEF HostInv
<1> QED BY <1>1, <1>2, <1>3, <1>4 DEF Next

LEMMA HostInvariance == Spec => []HostInv
  BY HostInitInv, HostStepInv, PTL DEF Spec

\* The variables of the plugin host and of its engine keep their types.
THEOREM HostTypeCorrect == Spec => []TypeOK
<1>1. HostInv => TypeOK
  BY DEF HostInv
<1> QED BY <1>1, HostInvariance, PTL

\* For any number of scripts, paths and configurations, a file of the engine is
\* that of one script of its list, and goes with it.
THEOREM FilesGoWithScripts == Spec => []FilesOfScripts
<1>1. HostInv => FilesOfScripts
  <2> SUFFICES ASSUME HostInv PROVE FilesOfScripts
    OBVIOUS
  <2>1. ToSet(list) \subseteq Scripts
    BY ToSetIs DEF HostInv, TypeOK
  <2> QED BY <2>1 DEF HostInv, Owned, FilesOfScripts
<1> QED BY <1>1, HostInvariance, PTL

-----------------------------------------------------------------------------
(***************************************************************************)
(* What each script has got, and which text it runs                        *)
(***************************************************************************)

LoadSteps == {"load", "eval", "replay"}
EventOps == {"event", "catchup_event"}

\* A call and the one it has made.
Child(f, g) ==
  \/ /\ f.op \in EventOps /\ f.i - 1 \in 1 .. Len(list)
     /\ g.op = "action" /\ g.s = list[f.i - 1] /\ g.arg = f.arg
  \/ /\ f.op \in ScriptOps /\ f.step = "eval"
     /\ g.op = "event" /\ g.arg = "change"
  \/ /\ f.op \in ScriptOps /\ f.step = "replay" /\ f.i - 1 \in 1 .. Len(eseen)
     /\ g.op = "action" /\ g.s = f.s /\ g.arg = eseen[f.i - 1]
  \/ f.op = "config" /\ f.step = "each" /\ g.op = "start"
  \/ f.op = "catchup" /\ g.op = "config" /\ f.i = 1
  \/ /\ f.op = "catchup" /\ f.i - 1 \in 1 .. Len(hseen)
     /\ g.op = "catchup_event" /\ g.arg = hseen[f.i - 1]

\* Where a call may be, and how far.
Sane(f) ==
  /\ f.op \in EventOps => f.step = "each" /\ f.i - 1 <= Len(list)
  /\ f.op = "catchup" => f.step = "each" /\ f.i - 1 <= Len(hseen)
  /\ f.op = "config" => f.step \in {"set", "each"}
  /\ f.op = "start" => f.step \in {"hash", "mtime"} \cup LoadSteps
  /\ f.op \in {"action", "file"} => f.step \notin {"hash", "mtime"}
  /\ f.step = "replay" => f.i - 1 <= Len(eseen)
  /\ f.op = "event" /\ f.arg = "initialized" => hseen = <<>>

Chain ==
  /\ stack # <<>> => stack[1].op \in {"event", "file", "config", "catchup"}
  /\ \A k \in 1 .. Len(stack) - 1 : Child(stack[k], stack[k + 1])
  /\ \A k \in 1 .. Len(stack) : Sane(stack[k])

\* The events of the start are sent once each, and ready is the last.
Once(seen) ==
  /\ \A m, n \in 1 .. Len(seen) : m # n => seen[m] # seen[n]
  /\ \A n \in 1 .. Len(seen) : seen[n] = "initialized" => n = 1

\* How many of them the catch-up has been through.
CaughtUp(k) == IF k < Len(stack) /\ stack[k + 1].op = "catchup_event" THEN stack[k].i - 2
               ELSE stack[k].i - 1

Seen ==
  /\ Once(hseen)
  /\ up \in {"new", "config"} => hseen = <<>>
  /\ stack # <<>> /\ stack[1].op = "event" => up \in {"begin", "up"}
  /\ ~loaded => eseen = <<>>
  /\ loaded /\ (stack = <<>> \/ stack[1].op # "catchup") => eseen = hseen
  /\ stack # <<>> /\ stack[1].op = "catchup" =>
       loaded /\ eseen = SubSeq(hseen, 1, CaughtUp(1))

Shape == Chain /\ Seen

\* The text that is kept is that of the context, but for a step of its load.
Taking(s) == stack # <<>> /\ Top.op \in ScriptOps /\ Top.s = s
TextsKept ==
  /\ \A s \in Scripts : s \notin ToSet(list) => ctx[s] = NoCtx /\ hash[s] = NoText
  /\ \A s \in Scripts :
       /\ mtime[s] <= disk[s].mtime
       /\ mtime[s] = disk[s].mtime => SameText(s) \/ (Taking(s) /\ Top.step = "compare")
       /\ ctx[s].text = hash[s] \/ (Taking(s) /\ Top.step \in {"mtime", "load"})

\* How many calls of a loop are over, as far as what the script got goes.
Passed(k) == IF k = Len(stack) \/ stack[k + 1].step = "handler" THEN stack[k].i - 1
             ELSE stack[k].i - 2

\* An event that is not of what a script does
Outer(e) == stack[e].op = "catchup_event" \/ (stack[e].op = "event" /\ e = 1)
Told(e, s) == \E n \in 1 .. Passed(e) : list[n] = s
Looked == {"mtime", "run", "handler"} \cup LoadSteps

\* Looking at a script brings its text up to date.
LooksFresh ==
  \A k \in 1 .. Len(stack) : \A s \in Scripts : stack[k].op \in ScriptOps /\ stack[k].s = s =>
    /\ stack[k].step \in Looked => SameText(s)
    /\ stack[k].step \in {"mtime", "load"} => hash[s] = disk[s].text
ToldFresh ==
  \A e \in 1 .. Len(stack) : Outer(e) => \A s \in Scripts : Told(e, s) => SameText(s)
RestFresh ==
  stack = <<>> \/ stack[1].op = "file" => \A s \in ToSet(list) \ edited : SameText(s)

\* The scripts of a new list are started one after the other.
ToStart(k, s) ==
  \/ \E n \in 1 .. Len(start) : n >= stack[k].i /\ start[n] = s
  \/ k < Len(stack) /\ stack[k + 1].step = "hash" /\ stack[k + 1].s = s
ConfigFresh ==
  \A k \in 1 .. Len(stack) : stack[k].op = "config" /\ stack[k].step = "each" =>
    \A s \in ToSet(list) : SameText(s) \/ ToStart(k, s)
CatchUpFresh ==
  stack # <<>> /\ stack[1].op = "catchup" /\ (Len(stack) = 1 \/ stack[2].op # "config") =>
    \A s \in ToSet(list) : SameText(s)

FreshTexts == LooksFresh /\ ToldFresh /\ RestFresh /\ ConfigFresh /\ CatchUpFresh

Loads(k, s) == stack[k].op \in ScriptOps /\ stack[k].s = s /\ stack[k].step \in LoadSteps

\* A script that loads has got what has been replayed; any other, what was
\* sent before, and the event under way if it has come by.
GivenTo(s) ==
  /\ \A k \in 1 .. Len(stack) : Loads(k, s) =>
       /\ stack[k].step \in {"load", "eval"} => ctx[s].got = <<>>
       /\ stack[k].step = "replay" /\ HasHandler(s) => ctx[s].got = SubSeq(eseen, 1, Passed(k))
       /\ \A m \in 1 .. Len(stack) : Loads(m, s) => m = k
       /\ \A e \in 1 .. Len(stack) : Outer(e) => ~Told(e, s)
  /\ HasHandler(s) /\ (\A k \in 1 .. Len(stack) : ~Loads(k, s)) =>
       /\ \A e \in 1 .. Len(stack) : Outer(e) /\ Told(e, s) => ctx[s].got = Got(eseen, stack[e].arg)
       /\ (\A e \in 1 .. Len(stack) : Outer(e) => ~Told(e, s)) => ctx[s].got = eseen

Given == \A s \in ToSet(list) : GivenTo(s)

(***************************************************************************)
(* The calls under way                                                     *)
(***************************************************************************)

LEMMA OpsAre ==
  ASSUME NEW f \in CallType
  PROVE  /\ f.op \in EventOps \cup ScriptOps \cup {"config", "catchup"}
         /\ f.i \in Nat \ {0} /\ f.step \in Steps
  BY CallIs DEF EventOps, ScriptOps

LEMMA WhereIs ==
  ASSUME TypeOK, Chain, NEW k \in 1 .. Len(stack)
  PROVE  /\ stack[k] \in CallType /\ Len(stack) \in Nat
         /\ stack[k].op = "catchup" => k = 1
         /\ stack[k].op = "config" => k = 1 \/ (k = 2 /\ stack[1].op = "catchup")
         /\ stack[k].op = "catchup_event" => k = 2 /\ stack[1].op = "catchup"
         /\ stack[k].op = "event" => k = 1 \/ (stack[k].arg = "change" /\ stack[k - 1].op \in ScriptOps)
         /\ stack[k].op = "start" => k > 1 /\ stack[k - 1].op = "config"
         /\ stack[k].op = "file" => k = 1
         /\ k # Len(stack) => stack[k].step \in {"each", "eval", "replay"}
<1>1. stack \in Seq(CallType) /\ Len(stack) \in Nat
  BY DEF TypeOK
<1>2. \A m \in 1 .. Len(stack) : stack[m] \in CallType
  BY <1>1
<1>3. \A m \in 1 .. Len(stack) - 1 : stack[m + 1].op \in
        {"action", "event", "start", "config", "catchup_event"}
  BY DEF Chain, Child
<1>4. \A m \in 1 .. Len(stack) : m # 1 => m - 1 \in 1 .. Len(stack) - 1 /\ m - 1 + 1 = m
  BY <1>1
<1>5. \A m \in 1 .. Len(stack) : m # 1 => stack[m].op \in
        {"action", "event", "start", "config", "catchup_event"} /\ Child(stack[m - 1], stack[m])
  BY <1>3, <1>4 DEF Chain
<1>6. \A m \in 1 .. Len(stack) : stack[m].op = "catchup" => m = 1
  BY <1>5
<1>7. k # 1 => /\ stack[k].op = "config" => stack[k - 1].op = "catchup"
               /\ stack[k].op = "catchup_event" => stack[k - 1].op = "catchup"
               /\ stack[k].op = "event" => stack[k].arg = "change" /\ stack[k - 1].op \in ScriptOps
               /\ stack[k].op = "start" => stack[k - 1].op = "config"
  BY <1>5 DEF Child
<1>8. stack[k - 1].op = "catchup" /\ k # 1 => k = 2
  BY <1>1, <1>4, <1>6
<1>9. k = 1 => stack[k].op \in {"event", "file", "config", "catchup"}
  BY <1>1 DEF Chain
<1>10. k # Len(stack) => stack[k].step \in {"each", "eval", "replay"}
  <2> SUFFICES ASSUME k # Len(stack) PROVE stack[k].step \in {"each", "eval", "replay"}
    OBVIOUS
  <2>1. k \in 1 .. Len(stack) - 1
    BY <1>1
  <2> QED BY <2>1 DEF Chain, Child, Sane
<1> QED BY <1>1, <1>2, <1>5, <1>6, <1>7, <1>8, <1>9, <1>10

LEMMA ChildLike ==
  ASSUME NEW f, NEW g, Child(f, g), NEW e, e.op = g.op, e.s = g.s, e.arg = g.arg
  PROVE  Child(f, e)
  BY DEF Child

\* What the shape of the stack depends on
SameSent == UNCHANGED <<list, start, eseen, hseen, up, loaded>>

\* A stack whose calls fit by what was sent before fits by what is sent after.
LEMMA ChainAgain ==
  ASSUME SameSent,
         stack' # <<>> => stack'[1].op \in {"event", "file", "config", "catchup"},
         \A k \in 1 .. Len(stack') - 1 : Child(stack'[k], stack'[k + 1]),
         \A k \in 1 .. Len(stack') : Sane(stack'[k])
  PROVE  Chain'
<1>1. list' = list /\ eseen' = eseen /\ hseen' = hseen
  BY DEF SameSent
<1>2. ASSUME NEW k \in 1 .. Len(stack') - 1 PROVE Child(stack[k], stack[k + 1])'
  <2>1. Child(stack'[k], stack'[k + 1])
    OBVIOUS
  <2> QED BY ONLY <1>1, <2>1 DEF Child
<1>3. ASSUME NEW k \in 1 .. Len(stack') PROVE Sane(stack[k])'
  <2>1. Sane(stack'[k])
    OBVIOUS
  <2> QED BY ONLY <1>1, <2>1 DEF Sane
<1> QED BY <1>2, <1>3 DEF Chain

LEMMA ShapeGoto ==
  ASSUME TypeOK, Shape, stack # <<>>, Top.op \in ScriptOps, NEW step \in ScriptSteps,
         Goto(step), SameSent,
         Top.op = "start" => step \in {"hash", "mtime"} \cup LoadSteps,
         Top.op \in {"action", "file"} => step \notin {"hash", "mtime"}
  PROVE  Shape'
<1> DEFINE n == Len(stack)
<1>1. /\ n \in 1 .. n /\ Top = stack[n] /\ Top \in CallType /\ n \in Nat
      /\ stack \in Seq(CallType)
  BY TopIs DEF TypeOK
<1>2. /\ stack' \in Seq(CallType) /\ Len(stack') = n
      /\ \A k \in 1 .. n : k # n => stack'[k] = stack[k]
      /\ stack'[n] = [Top EXCEPT !.step = step, !.i = 1]
  BY <1>1, GotoIs DEF Steps
<1>3. /\ stack'[n].op = Top.op /\ stack'[n].s = Top.s /\ stack'[n].arg = Top.arg
      /\ stack'[n].step = step /\ stack'[n].i = 1
  BY <1>1, <1>2 DEF CallType
<1>4. Sane(stack'[n])
  <2>1. Len(eseen) \in Nat
    BY DEF TypeOK
  <2>2. /\ Top.op \in {"start", "file", "action"}
        /\ Top.op = "start" => step \in {"hash", "mtime"} \cup LoadSteps
        /\ Top.op \in {"action", "file"} => step \notin {"hash", "mtime"}
    BY DEF ScriptOps
  <2>3. 1 - 1 <= Len(eseen)
    BY <2>1
  <2> QED BY ONLY <1>3, <2>2, <2>3 DEF Sane, EventOps
<1>5. \A k \in 1 .. n - 1 : Child(stack'[k], stack'[k + 1])
  <2>1. SUFFICES ASSUME NEW k \in 1 .. n - 1 PROVE Child(stack'[k], stack'[k + 1])
    OBVIOUS
  <2>2. k \in 1 .. n /\ k # n /\ k + 1 \in 1 .. n /\ Child(stack[k], stack[k + 1])
    BY <1>1 DEF Shape, Chain
  <2>3. stack'[k] = stack[k]
    BY <1>2, <2>2
  <2>4. CASE k + 1 = n
    <3>1. Child(stack[k], Top)
      BY <1>1, <2>2, <2>4
    <3>2. Child(stack[k], stack'[n])
      BY ONLY <1>3, <3>1, ChildLike
    <3> QED BY ONLY <2>3, <2>4, <3>2
  <2>5. CASE k + 1 # n
    BY <1>2, <2>2, <2>3, <2>5
  <2> QED BY <2>4, <2>5
<1>6. \A k \in 1 .. n : Sane(stack'[k]) /\ stack'[k].op = stack[k].op
  BY <1>1, <1>2, <1>3, <1>4 DEF Shape, Chain
<1>7. Chain'
  <2>1. stack' # <<>> /\ 1 \in 1 .. n
    BY <1>1, <1>2
  <2>2. stack'[1].op \in {"event", "file", "config", "catchup"}
    BY <1>6, <2>1 DEF Shape, Chain
  <2> QED BY <1>2, <1>5, <1>6, <2>2, ChainAgain
<1>8. Seen'
  <2>1. stack' # <<>> /\ 1 \in 1 .. n /\ stack'[1].op = stack[1].op
    BY <1>1, <1>2, <1>6
  <2>2. stack[1].op = "catchup" => n # 1 /\ stack'[1] = stack[1] /\ (stack[2].op = stack'[2].op)
    BY <1>1, <1>2, <1>6 DEF ScriptOps
  <2>3. stack[1].op = "catchup" => CaughtUp(1)' = CaughtUp(1)
    BY <1>2, <2>2 DEF CaughtUp
  <2> QED BY <2>1, <2>3 DEF Shape, Seen, SameSent, Once
<1> QED BY <1>7, <1>8 DEF Shape

\* The call on top after one more round of its loop
Further == [Top EXCEPT !.i = @ + 1]

LEMMA ShapeEach ==
  ASSUME TypeOK, Shape, stack # <<>>, NEW c \in CallType, Each(c), SameSent,
         Child(Further, c), Sane(Further), Sane(c),
         Top.op # "catchup" \/ c.op = "catchup_event"
  PROVE  Shape'
<1> DEFINE n == Len(stack)
           f == Further
<1>1. /\ n \in 1 .. n /\ Top = stack[n] /\ Top \in CallType /\ n \in Nat
      /\ stack \in Seq(CallType)
  BY TopIs DEF TypeOK
<1>2. /\ stack' \in Seq(CallType) /\ Len(stack') = n + 1
      /\ \A k \in 1 .. n : k # n => stack'[k] = stack[k]
      /\ stack'[n] = f /\ stack'[n + 1] = c
  BY <1>1, EachIs DEF Further
<1>3. /\ f.op = Top.op /\ f.s = Top.s /\ f.arg = Top.arg /\ f.i = Top.i + 1
  BY <1>1 DEF CallType, Further
<1> HIDE DEF f
<1>4. \A k \in 1 .. n : Child(stack'[k], stack'[k + 1])
  <2>1. SUFFICES ASSUME NEW k \in 1 .. n PROVE Child(stack'[k], stack'[k + 1])
    OBVIOUS
  <2>2. CASE k = n
    BY <1>2, <2>2 DEF f
  <2>3. CASE k # n
    <3>1. k \in 1 .. n - 1 /\ k + 1 \in 1 .. n /\ Child(stack[k], stack[k + 1])
      BY <1>1, <2>3 DEF Shape, Chain
    <3>2. CASE k + 1 = n
      <4>1. Child(stack[k], Top) /\ stack'[k] = stack[k] /\ stack'[k + 1] = f
        BY <1>1, <1>2, <2>3, <3>1, <3>2
      <4>2. Child(stack[k], f)
        BY ONLY <1>3, <4>1, ChildLike
      <4> QED BY ONLY <4>1, <4>2
    <3>3. CASE k + 1 # n
      BY <1>2, <2>3, <3>1, <3>3
    <3> QED BY <3>2, <3>3
  <2> QED BY <2>2, <2>3
<1>5. \A k \in 1 .. n + 1 : Sane(stack'[k])
  <2>1. \A k \in 1 .. n + 1 : k = n + 1 \/ k \in 1 .. n
    BY <1>1
  <2>2. Sane(f)
    BY DEF f
  <2> QED BY <1>2, <2>1, <2>2 DEF Shape, Chain
<1>6. stack' # <<>> /\ stack'[1].op = stack[1].op /\ 1 \in 1 .. n
  BY <1>1, <1>2, <1>3
<1>7. Chain'
  <2>1. stack'[1].op \in {"event", "file", "config", "catchup"}
    BY <1>6 DEF Shape, Chain
  <2>2. Len(stack') - 1 = n
    BY <1>1, <1>2
  <2> QED BY <1>2, <1>4, <1>5, <2>1, <2>2, ChainAgain
<1>11. /\ \A k \in 1 .. n : k # n => stack'[k] = stack[k]
       /\ \A k \in 1 .. n : stack'[k].op = stack[k].op
  BY <1>1, <1>2, <1>3
<1>8. stack[1].op = "catchup" => CaughtUp(1)' = CaughtUp(1)
  <2> SUFFICES ASSUME stack[1].op = "catchup" PROVE CaughtUp(1)' = CaughtUp(1)
    OBVIOUS
  <2>1. CASE n = 1
    <3>1. c.op = "catchup_event" /\ stack'[1].i = stack[1].i + 1 /\ stack'[2] = c /\ Len(stack') = 2
      BY <1>1, <1>2, <1>3, <2>1
    <3>2. stack[1].i \in Nat
      BY <1>1, <2>1, CallIs
    <3> QED BY <2>1, <3>1, <3>2 DEF CaughtUp
  <2>2. CASE n # 1
    <3>1. stack'[1] = stack[1] /\ stack'[2].op = stack[2].op /\ n > 1
      <4>1. n > 1 /\ 1 \in 1 .. n /\ 2 \in 1 .. n
        BY <1>1, <2>2
      <4>2. CASE n = 2
        <5>1. 1 # n /\ n = 2
          BY <4>1, <4>2
        <5>2. stack'[1] = stack[1]
          BY <4>1, <5>1, <1>11
        <5>3. stack'[n].op = stack[n].op
          BY <4>1, <5>1, <1>11
        <5> QED BY <4>1, <5>1, <5>2, <5>3
      <4>3. CASE n # 2
        BY <4>1, <4>3, <1>11
      <4> QED BY <4>2, <4>3
    <3> QED BY <1>2, <3>1 DEF CaughtUp
  <2> QED BY <2>1, <2>2
<1>9. Seen'
  BY <1>6, <1>8 DEF Shape, Seen, SameSent, Once
<1> QED BY <1>7, <1>9 DEF Shape

LEMMA ShapePush ==
  ASSUME TypeOK, Shape, stack # <<>>, Top.op \in ScriptOps, NEW c \in CallType,
         stack' = Append(stack, c), SameSent, Child(Top, c), Sane(c)
  PROVE  Shape'
<1> DEFINE n == Len(stack)
<1>1. /\ n \in 1 .. n /\ Top = stack[n] /\ Top \in CallType /\ n \in Nat
      /\ stack \in Seq(CallType)
  BY TopIs DEF TypeOK
<1>2. /\ Len(stack') = n + 1 /\ stack'[n + 1] = c
      /\ \A k \in 1 .. n : stack'[k] = stack[k]
  BY <1>1
<1>3. \A k \in 1 .. n : Child(stack'[k], stack'[k + 1])
  <2>1. \A k \in 1 .. n : k = n \/ (k \in 1 .. n - 1 /\ k + 1 \in 1 .. n)
    BY <1>1
  <2> QED BY <1>1, <1>2, <2>1 DEF Shape, Chain
<1>4. \A k \in 1 .. n + 1 : Sane(stack'[k])
  <2>1. \A k \in 1 .. n + 1 : k = n + 1 \/ k \in 1 .. n
    BY <1>1
  <2> QED BY <1>2, <2>1 DEF Shape, Chain
<1>5. stack' # <<>> /\ stack'[1] = stack[1] /\ 1 \in 1 .. n /\ Len(stack') - 1 = n
  BY <1>1, <1>2
<1>6. Chain'
  <2>1. stack'[1].op \in {"event", "file", "config", "catchup"}
    BY <1>5 DEF Shape, Chain
  <2> QED BY <1>2, <1>3, <1>4, <1>5, <2>1, ChainAgain
<1>7. stack[1].op = "catchup" => CaughtUp(1)' = CaughtUp(1)
  <2>1. stack[1].op = "catchup" => n > 1 /\ stack'[2] = stack[2]
    BY <1>1, <1>2 DEF ScriptOps
  <2> QED BY <1>2, <1>5, <2>1 DEF CaughtUp
<1>8. Seen'
  BY <1>5, <1>7 DEF Shape, Seen, SameSent, Once
<1> QED BY <1>6, <1>8 DEF Shape

CaughtAll == Top.i > Len(hseen)

LEMMA ShapeReturn ==
  ASSUME TypeOK, Shape, stack # <<>>, Return, SameSent, Top.op # "catchup_event",
         Top.op = "catchup" => CaughtAll
  PROVE  Shape'
<1> DEFINE n == Len(stack)
<1>1. /\ n \in 1 .. n /\ Top = stack[n] /\ Top \in CallType /\ n \in Nat
      /\ stack \in Seq(CallType)
  BY TopIs DEF TypeOK
<1>2. /\ stack' \in Seq(CallType) /\ Len(stack') = n - 1
      /\ \A k \in 1 .. n - 1 : stack'[k] = stack[k]
  BY <1>1, ReturnIs
<1>3. Chain'
  <2>1. \A k \in 1 .. n - 1 : k \in 1 .. n /\ Sane(stack'[k])
    BY <1>1, <1>2 DEF Shape, Chain
  <2>2. \A k \in 1 .. (n - 1) - 1 : Child(stack'[k], stack'[k + 1])
    <3>1. \A k \in 1 .. (n - 1) - 1 : k \in 1 .. n - 1 /\ k + 1 \in 1 .. n - 1
      BY <1>1
    <3> QED BY <1>2, <3>1 DEF Shape, Chain
  <2>3. stack' # <<>> => stack'[1].op \in {"event", "file", "config", "catchup"}
    <3>1. stack' # <<>> => 1 \in 1 .. n - 1
      BY <1>1, <1>2
    <3> QED BY <1>2, <3>1 DEF Shape, Chain
  <2> QED BY <1>2, <2>1, <2>2, <2>3, ChainAgain
<1>4. CASE n = 1
  <2>1. stack' = <<>>
    BY <1>2, <1>4
  <2>2. loaded => eseen = hseen
    <3>1. CASE Top.op = "catchup"
      <4>1. CaughtUp(1) = Top.i - 1 /\ Top.i - 1 <= Len(hseen) /\ Top.i \in Nat
        <5>1. Sane(Top)
          BY <1>1 DEF Shape, Chain
        <5>2. Top.i \in Nat
          BY <1>1, CallIs
        <5>3. CaughtUp(1) = Top.i - 1
          BY <1>1, <1>4 DEF CaughtUp
        <5> QED BY <3>1, <5>1, <5>2, <5>3 DEF Sane
      <4>2. hseen \in Seq(Lifecycle) /\ Len(hseen) \in Nat
        BY DEF TypeOK
      <4>3. CaughtUp(1) = Len(hseen)
        BY <3>1, <4>1, <4>2 DEF CaughtAll
      <4>4. eseen = SubSeq(hseen, 1, Len(hseen))
        BY <1>1, <1>4, <3>1, <4>3 DEF Shape, Seen
      <4> QED BY <4>2, <4>4
    <3>2. CASE Top.op # "catchup"
      BY <1>1, <1>4, <3>2 DEF Shape, Seen
    <3> QED BY <3>1, <3>2
  <2> QED BY <1>3, <2>1, <2>2 DEF Shape, Seen, SameSent, Once
<1>5. CASE n # 1
  <2>1. stack' # <<>> /\ stack'[1] = stack[1] /\ 1 \in 1 .. n - 1
    BY <1>1, <1>2, <1>5
  <2>2. stack[1].op = "catchup" => CaughtUp(1)' = CaughtUp(1)
    <3>1. CASE n = 2
      BY <1>1, <1>2, <2>1, <3>1 DEF CaughtUp
    <3>2. CASE n # 2
      <4>1. 2 \in 1 .. n - 1 /\ stack'[2] = stack[2]
        BY <1>1, <1>2, <1>5, <3>2
      <4> QED BY <1>1, <1>2, <2>1, <4>1 DEF CaughtUp
    <3> QED BY <3>1, <3>2
  <2> QED BY <1>3, <2>1, <2>2 DEF Shape, Seen, SameSent, Once
<1> QED BY <1>4, <1>5

LEMMA EngineSent ==
  ASSUME Look \/ Compare \/ StartHash \/ StartTime \/ LoadScript \/ Evaluated \/ Replay \/ Run
         \/ Handled \/ Drive \/ EventScript \/ StartEach \/ CatchUpEach
         \/ \E p \in Paths : FileAdd(p) \/ FileRemove(p)
  PROVE  SameSent /\ hseen' = hseen /\ stack # <<>>
  BY DEF Look, Compare, StartHash, StartTime, LoadScript, Evaluated, Replay, Run, Handled, Drive,
         EventScript, StartEach, CatchUpEach, FileAdd, FileRemove, Running, At, SameSent, host

LEMMA GotoShape ==
  ASSUME HostInv, Shape, Look \/ Compare \/ StartHash \/ StartTime \/ LoadScript \/ Evaluated
  PROVE  Shape'
<1>1. TypeOK /\ SameSent /\ stack # <<>> /\ Top.op \in ScriptOps
  BY EngineSent DEF HostInv, At, ScriptOps, Look, Compare, StartHash, StartTime, LoadScript, Evaluated
<1>2. PICK step \in ScriptSteps :
        /\ Goto(step)
        /\ Top.op = "start" => step \in {"hash", "mtime"} \cup LoadSteps
        /\ Top.op \in {"action", "file"} => step \notin {"hash", "mtime"}
  <2>1. CASE Look \/ Compare
    <3>1. Top.op \in {"action", "file"} /\ (Goto("run") \/ Goto("compare") \/ Goto("load"))
      BY <2>1 DEF Look, Compare, At
    <3> QED BY <3>1 DEF ScriptSteps
  <2>2. CASE StartHash \/ StartTime
    <3>1. Top.op = "start" /\ (Goto("mtime") \/ Goto("load"))
      BY <2>2 DEF StartHash, StartTime, At
    <3> QED BY <3>1 DEF ScriptSteps, LoadSteps
  <2>3. CASE LoadScript \/ Evaluated
    <3>1. Goto("replay") \/ Goto("eval")
      BY <2>3 DEF LoadScript, Evaluated
    <3> QED BY <3>1 DEF ScriptSteps, LoadSteps
  <2> QED BY <2>1, <2>2, <2>3
<1> QED BY <1>1, <1>2, ShapeGoto

LEMMA RunShape ==
  ASSUME HostInv, Shape, Run \/ Handled \/ Drive
  PROVE  Shape'
<1>1. TypeOK /\ SameSent /\ stack # <<>> /\ Top.op \in ScriptOps
  BY EngineSent DEF HostInv, At, ScriptOps, Run, Handled, Drive
<1>2. CASE Goto("handler")
  <2>1. Top.op # "start"
    BY <1>2 DEF Goto, Run, Handled, Drive, At
  <2> QED BY <1>1, <1>2, <2>1, ShapeGoto DEF ScriptSteps
<1>3. CASE Return
  BY <1>1, <1>3, ShapeReturn DEF ScriptOps
<1>4. CASE Drive
  <2> DEFINE c == HostEvent("change")
  <2>1. c \in CallType
    BY CallsAre DEF Codes
  <2>2. c.op = "event" /\ c.arg = "change" /\ c.step = "each" /\ c.i = 1
    BY DEF HostEvent, Call
  <2>3. Child(Top, c) /\ stack' = Append(stack, c)
    BY <1>1, <1>4, <2>2 DEF Child, Drive, At
  <2>4. Sane(c)
    <3>1. Len(list) \in Nat
      BY <1>1 DEF TypeOK
    <3> QED BY <2>2, <3>1 DEF Sane, EventOps
  <2> HIDE DEF c
  <2> QED BY <1>1, <2>1, <2>3, <2>4, ShapePush
<1> QED BY <1>2, <1>3, <1>4 DEF Run, Handled

LEMMA FurtherIs ==
  ASSUME TypeOK, stack # <<>>
  PROVE  /\ Top \in CallType /\ Top.i \in Nat \ {0}
         /\ Further.op = Top.op /\ Further.s = Top.s /\ Further.arg = Top.arg
         /\ Further.step = Top.step /\ Further.i = Top.i + 1
<1>1. Top \in CallType
  BY TopIs DEF TypeOK
<1> QED BY <1>1, CallIs DEF CallType, Further

LEMMA LensAre ==
  ASSUME TypeOK
  PROVE  /\ Len(list) \in Nat /\ Len(start) \in Nat /\ Len(eseen) \in Nat /\ Len(hseen) \in Nat
         /\ \A n \in 1 .. Len(list) : list[n] \in Scripts /\ list[n] \in ToSet(list)
         /\ \A s \in ToSet(list) : s \in Scripts /\ \E n \in 1 .. Len(list) : list[n] = s
         /\ \A n \in 1 .. Len(start) : start[n] \in Scripts /\ start[n] \in ToSet(start)
         /\ \A n \in 1 .. Len(eseen) : eseen[n] \in Lifecycle
         /\ \A n \in 1 .. Len(hseen) : hseen[n] \in Lifecycle
<1>1. /\ list \in Seq(Scripts) /\ start \in Seq(Scripts)
      /\ eseen \in Seq(Lifecycle) /\ hseen \in Seq(Lifecycle)
  BY DEF TypeOK
<1>2. /\ ToSet(list) = {list[n] : n \in 1 .. Len(list)}
      /\ ToSet(start) = {start[n] : n \in 1 .. Len(start)}
  BY <1>1, ToSetIs
<1> QED BY <1>1, <1>2

LEMMA EachShape ==
  ASSUME HostInv, Shape, Replay \/ EventScript \/ StartEach \/ CatchUpEach
  PROVE  Shape'
<1>1. TypeOK /\ SameSent /\ stack # <<>>
  BY EngineSent DEF HostInv
<1>2. /\ Top \in CallType /\ Top.i \in Nat \ {0}
      /\ Further.op = Top.op /\ Further.s = Top.s /\ Further.arg = Top.arg
      /\ Further.step = Top.step /\ Further.i = Top.i + 1
  BY <1>1, FurtherIs
<1>3. /\ Top = stack[Len(stack)] /\ Len(stack) \in 1 .. Len(stack) /\ Sane(Top)
  BY <1>1, TopIs DEF TypeOK, Shape, Chain
<1>4. /\ Len(list) \in Nat /\ Len(start) \in Nat /\ Len(eseen) \in Nat /\ Len(hseen) \in Nat
      /\ \A n \in 1 .. Len(list) : list[n] \in Scripts
      /\ \A n \in 1 .. Len(start) : start[n] \in Scripts
      /\ \A n \in 1 .. Len(eseen) : eseen[n] \in Lifecycle
      /\ \A n \in 1 .. Len(hseen) : hseen[n] \in Lifecycle
  BY <1>1, LensAre
<1>5. CASE Replay
  <2>1. Top.op \in ScriptOps /\ Top.step = "replay" /\ Top.s \in Scripts
    BY <1>1, <1>5, OnTop DEF Replay, At, HostInv
  <2>2. CASE Top.i <= Len(eseen)
    <3> DEFINE c == ScriptAction(Top.s, eseen[Top.i])
    <3>1. c \in CallType /\ eseen[Top.i] \in Lifecycle
      BY <1>2, <1>4, <2>1, <2>2, CallsAre, PluginConstants
    <3>2. /\ c.op = "action" /\ c.s = Top.s /\ c.arg = eseen[Top.i] /\ c.step = "look"
      BY DEF ScriptAction, Call
    <3>3. Each(c)
      BY <1>5, <2>2 DEF Replay
    <3> HIDE DEF c
    <3>4. Sane(c)
      BY <3>2 DEF Sane, EventOps
    <3>5. Sane(Further)
      BY <1>2, <1>4, <2>1, <2>2 DEF Sane, EventOps, ScriptOps, LoadSteps
    <3>6. Child(Further, c)
      <4>1. Further.i - 1 = Top.i /\ Top.i \in 1 .. Len(eseen)
        BY <1>2, <1>4, <2>2
      <4> QED BY <1>2, <2>1, <3>2, <4>1 DEF Child
    <3> QED BY <1>1, <2>1, <3>1, <3>3, <3>4, <3>5, <3>6, ShapeEach DEF ScriptOps
  <2>3. CASE Checked /\ ~(Top.i <= Len(eseen))
    <3>1. CASE Top.op = "start"
      BY <1>1, <2>3, <3>1, ShapeReturn DEF Checked
    <3>2. CASE Top.op # "start"
      BY <1>1, <2>1, <2>3, <3>2, ShapeGoto DEF Checked, ScriptSteps, ScriptOps
    <3> QED BY <3>1, <3>2
  <2> QED BY <1>5, <2>2, <2>3 DEF Replay
<1>6. CASE EventScript
  <2>1. Top.op \in EventOps /\ Top.step = "each" /\ Top.i <= Len(list)
    BY <1>6 DEF EventScript, At, EventOps
  <2> DEFINE c == ScriptAction(list[Top.i], Top.arg)
  <2>2. Top.arg \in Codes
    BY <1>1, <2>1, OnTop DEF HostInv, Fits, EventOps
  <2>3. c \in CallType
    BY <1>2, <1>4, <2>1, <2>2, CallsAre
  <2>4. /\ c.op = "action" /\ c.s = list[Top.i] /\ c.arg = Top.arg /\ c.step = "look"
    BY DEF ScriptAction, Call
  <2>5. Each(c)
    BY <1>6 DEF EventScript
  <2> HIDE DEF c
  <2>6. Sane(c)
    BY <2>4 DEF Sane, EventOps
  <2>7. Sane(Further)
    BY <1>2, <1>3, <1>4, <2>1 DEF Sane, EventOps
  <2>8. Child(Further, c)
    <3>1. Further.i - 1 = Top.i /\ Top.i \in 1 .. Len(list)
      BY <1>2, <1>4, <2>1
    <3> QED BY <1>2, <2>1, <2>4, <3>1 DEF Child
  <2> QED BY <1>1, <2>1, <2>3, <2>5, <2>6, <2>7, <2>8, ShapeEach DEF EventOps
<1>7. CASE StartEach
  <2>1. Top.op = "config" /\ Top.step = "each"
    BY <1>7 DEF StartEach, At
  <2>2. CASE Top.i <= Len(start)
    <3> DEFINE c == StartScript(start[Top.i])
    <3>1. c \in CallType
      BY <1>2, <1>4, <2>2, CallsAre
    <3>2. c.op = "start" /\ c.step = "hash"
      BY DEF StartScript, Call
    <3>3. Each(c)
      BY <1>7, <2>2 DEF StartEach
    <3> HIDE DEF c
    <3>4. Sane(c)
      BY <3>2 DEF Sane, EventOps
    <3>5. Sane(Further)
      BY <1>2, <1>4, <2>1 DEF Sane, EventOps
    <3>6. Child(Further, c)
      BY <1>2, <2>1, <3>2 DEF Child
    <3> QED BY <1>1, <2>1, <3>1, <3>3, <3>4, <3>5, <3>6, ShapeEach
  <2>3. CASE ~(Top.i <= Len(start))
    BY <1>1, <1>7, <2>1, <2>3, ShapeReturn DEF StartEach
  <2> QED BY <2>2, <2>3
<1>8. CASE CatchUpEach
  <2>1. Top.op = "catchup" /\ Top.step = "each"
    BY <1>8 DEF CatchUpEach, At
  <2>2. CASE Top.i <= Len(hseen)
    <3> DEFINE c == CatchUpEvent(hseen[Top.i])
    <3>1. c \in CallType
      BY <1>2, <1>4, <2>2, CallsAre, PluginConstants
    <3>2. c.op = "catchup_event" /\ c.step = "each" /\ c.arg = hseen[Top.i] /\ c.i = 1
      BY DEF CatchUpEvent, Call
    <3>3. Each(c)
      BY <1>8, <2>2 DEF CatchUpEach
    <3> HIDE DEF c
    <3>4. Sane(c)
      BY <1>4, <3>2 DEF Sane, EventOps
    <3>5. Sane(Further)
      BY <1>2, <1>4, <2>1, <2>2 DEF Sane, EventOps
    <3>6. Child(Further, c)
      <4>1. Further.i - 1 = Top.i /\ Top.i \in 1 .. Len(hseen)
        BY <1>2, <1>4, <2>2
      <4> QED BY <1>2, <2>1, <3>2, <4>1 DEF Child
    <3> QED BY <1>1, <3>1, <3>2, <3>3, <3>4, <3>5, <3>6, ShapeEach
  <2>3. CASE ~(Top.i <= Len(hseen))
    <3>1. CaughtAll
      BY <1>2, <1>4, <2>3 DEF CaughtAll
    <3> QED BY <1>1, <1>8, <2>1, <2>3, <3>1, ShapeReturn DEF CatchUpEach
  <2> QED BY <2>2, <2>3
<1> QED BY <1>5, <1>6, <1>7, <1>8

(***************************************************************************)
(* The events that were sent                                               *)
(***************************************************************************)

LEMMA PrefixIs ==
  ASSUME NEW q \in Seq(Lifecycle), NEW m \in 0 .. Len(q)
  PROVE  /\ SubSeq(q, 1, m) \in Seq(Lifecycle) /\ Len(SubSeq(q, 1, m)) = m
         /\ \A k \in 1 .. m : SubSeq(q, 1, m)[k] = q[k]
<1>1. Len(q) \in Nat /\ m \in Int /\ 1 \in Int /\ m \in Nat /\ m <= Len(q)
  OBVIOUS
<1>2. \A k \in 1 .. m : q[k] \in Lifecycle
  BY <1>1
<1>3. /\ SubSeq(q, 1, m) \in Seq(Lifecycle)
      /\ Len(SubSeq(q, 1, m)) = IF 1 <= m THEN m - 1 + 1 ELSE 0
      /\ \A k \in 1 .. m - 1 + 1 : SubSeq(q, 1, m)[k] = q[1 + k - 1]
  BY <1>1, <1>2, SubSeqProperties
<1> QED BY <1>1, <1>3

LEMMA SameSeq ==
  ASSUME NEW p \in Seq(Lifecycle), NEW q \in Seq(Lifecycle), Len(p) = Len(q),
         \A k \in 1 .. Len(p) : p[k] = q[k]
  PROVE  p = q
  OBVIOUS

LEMMA PrefixNext ==
  ASSUME NEW q \in Seq(Lifecycle), NEW m \in 1 .. Len(q)
  PROVE  Append(SubSeq(q, 1, m - 1), q[m]) = SubSeq(q, 1, m)
<1>1. m - 1 \in 0 .. Len(q) /\ m \in 0 .. Len(q) /\ q[m] \in Lifecycle
  OBVIOUS
<1> DEFINE a == SubSeq(q, 1, m - 1)
           b == SubSeq(q, 1, m)
<1>2. /\ a \in Seq(Lifecycle) /\ Len(a) = m - 1 /\ \A k \in 1 .. m - 1 : a[k] = q[k]
      /\ b \in Seq(Lifecycle) /\ Len(b) = m /\ \A k \in 1 .. m : b[k] = q[k]
  BY <1>1, PrefixIs
<1> HIDE DEF a, b
<1>3. /\ Append(a, q[m]) \in Seq(Lifecycle) /\ Len(Append(a, q[m])) = m
      /\ \A k \in 1 .. m : Append(a, q[m])[k] = b[k]
  BY <1>1, <1>2
<1>4. Append(a, q[m]) = b
  BY <1>2, <1>3, SameSeq
<1> QED BY <1>4 DEF a, b

\* The event that comes next is noted by the engine and got by its scripts.
LEMMA NextSent ==
  ASSUME NEW q \in Seq(Lifecycle), Once(q), NEW m \in 1 .. Len(q)
  PROVE  /\ Noted(SubSeq(q, 1, m - 1), q[m]) = SubSeq(q, 1, m)
         /\ Got(SubSeq(q, 1, m - 1), q[m]) = SubSeq(q, 1, m)
<1> DEFINE a == SubSeq(q, 1, m - 1)
<1>1. m - 1 \in 0 .. Len(q) /\ q[m] \in Lifecycle /\ m \in 1 .. Len(q)
  OBVIOUS
<1>2. a \in Seq(Lifecycle) /\ Len(a) = m - 1 /\ \A k \in 1 .. m - 1 : a[k] = q[k]
  BY <1>1, PrefixIs
<1>3. Append(a, q[m]) = SubSeq(q, 1, m)
  BY PrefixNext
<1> HIDE DEF a
<1>4. \A k \in 1 .. m - 1 : a[k] # q[m]
  BY <1>1, <1>2 DEF Once
<1>5. DOMAIN a = 1 .. m - 1
  BY <1>2
<1>6. Noted(a, q[m]) = Append(a, q[m])
  BY <1>1, <1>4, <1>5 DEF Noted
<1>7. a = <<>> \/ Last(a) # q[m]
  <2>1. a # <<>> => m - 1 \in 1 .. m - 1 /\ Last(a) = a[m - 1]
    BY <1>1, <1>2 DEF Last
  <2> QED BY <1>4, <2>1
<1>8. Got(a, q[m]) = Append(a, q[m])
  BY <1>1, <1>7 DEF Got
<1> QED BY <1>3, <1>6, <1>8 DEF a

\* An event of the host: initialized comes first, ready last.
LEMMA SentOnce ==
  ASSUME NEW q \in Seq(Lifecycle), Once(q), NEW c, c = "initialized" => q = <<>>
  PROVE  Once(Noted(q, c)) /\ Got(q, c) = Noted(q, c)
<1>1. CASE c \notin Lifecycle
  BY <1>1 DEF Noted, Got
<1>2. CASE c \in Lifecycle /\ \A k \in DOMAIN q : q[k] # c
  <2>1. Noted(q, c) = Append(q, c) /\ Len(q) \in Nat /\ DOMAIN q = 1 .. Len(q)
    BY <1>2 DEF Noted
  <2>2. q = <<>> \/ Last(q) # c
    <3>1. q # <<>> => Len(q) \in 1 .. Len(q) /\ Last(q) = q[Len(q)]
      BY DEF Last
    <3> QED BY <1>2, <2>1, <3>1
  <2>3. Got(q, c) = Append(q, c)
    BY <1>2, <2>2 DEF Got
  <2>4. Once(Append(q, c))
    <3>1. /\ Len(Append(q, c)) = Len(q) + 1 /\ Append(q, c)[Len(q) + 1] = c
          /\ \A k \in 1 .. Len(q) : Append(q, c)[k] = q[k]
      BY <1>2
    <3>2. \A k \in 1 .. Len(q) + 1 : k = Len(q) + 1 \/ k \in 1 .. Len(q)
      BY <2>1
    <3>3. q = <<>> => Len(q) = 0
      OBVIOUS
    <3> QED BY <1>2, <2>1, <3>1, <3>2, <3>3 DEF Once
  <2> QED BY <2>1, <2>3, <2>4
<1>3. CASE c \in Lifecycle /\ ~(\A k \in DOMAIN q : q[k] # c)
  <2>1. Noted(q, c) = q
    BY <1>3 DEF Noted
  <2>2. PICK k \in 1 .. Len(q) : q[k] = c
    BY <1>3
  <2>3. q # <<>> /\ Len(q) \in 1 .. Len(q) /\ Last(q) = q[Len(q)] /\ q[Len(q)] \in Lifecycle
    BY <2>2 DEF Last
  <2>4. c = "ready"
    BY <1>3, <2>3 DEF Lifecycle
  <2>5. Last(q) = c
    <3>1. k # Len(q) => q[Len(q)] # c
      BY <2>2, <2>3 DEF Once
    <3>2. q[Len(q)] = "initialized" => Len(q) = 1 /\ k = 1
      BY <2>2, <2>3 DEF Once
    <3> QED BY <2>2, <2>3, <2>4, <3>1, <3>2 DEF Lifecycle
  <2> QED BY <2>1, <2>3, <2>5 DEF Got
<1> QED BY <1>1, <1>2, <1>3

LEMMA GotTwice ==
  ASSUME NEW q \in Seq(Lifecycle), NEW c
  PROVE  Got(Got(q, c), c) = Got(q, c)
<1>1. CASE Got(q, c) = q
  BY <1>1
<1>2. CASE Got(q, c) # q
  <2>1. Got(q, c) = Append(q, c) /\ c \in Lifecycle
    BY <1>2 DEF Got
  <2>2. Append(q, c) # <<>> /\ Last(Append(q, c)) = c
    BY <2>1 DEF Last
  <2> QED BY <2>1, <2>2 DEF Got
<1> QED BY <1>1, <1>2

\* With no other call under way, or only the catch-up, there is nothing to relate.
LEMMA ShapeAlone ==
  ASSUME NEW c, stack' = <<c>>, Sane(c)', c.op \in {"event", "file", "config", "catchup"}, Seen'
  PROVE  Shape'
<1>1. Len(stack') = 1 /\ stack'[1] = c
  BY ZenonT(10)
<1>2. \A k \in 1 .. 1 : k = 1
  OBVIOUS
<1>3. \A k \in 1 .. 1 - 1 : FALSE
  OBVIOUS
<1>4. Chain'
  BY <1>1, <1>2, <1>3 DEF Chain
<1> QED BY <1>4 DEF Shape

LEMMA ShapeNone ==
  ASSUME stack' = <<>>, Seen'
  PROVE  Shape'
<1>1. Chain'
  BY DEF Chain
<1> QED BY <1>1 DEF Shape

LEMMA SameShape ==
  ASSUME Shape, SameSent, stack' = stack
  PROVE  Shape'
<1>1. Chain'
  BY ChainAgain DEF Shape, Chain
<1>2. Seen'
  BY DEF Shape, Seen, CaughtUp, Once, SameSent
<1> QED BY <1>1, <1>2 DEF Shape

\* The event on top has been through the list.
Through == Top.i > Len(list)

LEMMA OnceAre ==
  ASSUME TypeOK, Shape
  PROVE  Once(hseen) /\ Once(eseen)
<1>1. Once(hseen)
  BY DEF Shape, Seen
<1>2. Once(<<>>)
  BY DEF Once
<1>3. CASE stack # <<>> /\ stack[1].op = "catchup"
  <2>1. hseen \in Seq(Lifecycle) /\ eseen \in Seq(Lifecycle) /\ Len(hseen) \in Nat /\ stack \in Seq(CallType)
    BY DEF TypeOK
  <2>2. 1 \in 1 .. Len(stack) /\ stack[1] \in CallType /\ Sane(stack[1])
    BY <1>3, <2>1 DEF Shape, Chain
  <2>3. stack[1].i \in Nat \ {0} /\ stack[1].i - 1 <= Len(hseen)
    BY <1>3, <2>2, CallIs DEF Sane
  <2>4. eseen = SubSeq(hseen, 1, CaughtUp(1)) /\ CaughtUp(1) \in {stack[1].i - 2, stack[1].i - 1}
    BY <1>3 DEF Shape, Seen, CaughtUp
  <2>5. CaughtUp(1) = 0 - 1 => eseen = <<>>
    <3> SUFFICES ASSUME CaughtUp(1) = 0 - 1 PROVE eseen = <<>>
      OBVIOUS
    <3>1. eseen = SubSeq(hseen, 1, 0 - 1)
      BY <2>4
    <3>2. Len(SubSeq(hseen, 1, 0 - 1)) = IF 1 <= 0 - 1 THEN 0 - 1 - 1 + 1 ELSE 0
      <4>1. 1 \in Int /\ 0 - 1 \in Int /\ \A k \in 1 .. 0 - 1 : hseen[k] \in Lifecycle
        OBVIOUS
      <4> QED BY <2>1, <4>1, SubSeqProperties
    <3>3. Len(eseen) = 0
      BY <3>1, <3>2
    <3> QED BY <2>1, <3>3
  <2>6. CASE CaughtUp(1) # 0 - 1
    <3> PICK m : m = CaughtUp(1)
      OBVIOUS
    <3>1. m \in {stack[1].i - 2, stack[1].i - 1} /\ m # 0 - 1 /\ eseen = SubSeq(hseen, 1, m)
      BY <2>4, <2>6
    <3>2. m \in 0 .. Len(hseen)
      <4> PICK j : j = stack[1].i
        OBVIOUS
      <4>1. j \in Nat \ {0} /\ j - 1 <= Len(hseen) /\ m \in {j - 2, j - 1}
        BY <2>3, <3>1
      <4> QED BY ONLY <2>1, <3>1, <4>1
    <3>3. Len(eseen) = m /\ \A k \in 1 .. m : eseen[k] = hseen[k]
      BY <2>1, <3>1, <3>2, PrefixIs
    <3>4. \A k \in 1 .. Len(eseen) : k \in 1 .. Len(hseen) /\ eseen[k] = hseen[k]
      BY <2>1, <3>2, <3>3
    <3> QED BY ONLY <1>1, <3>4 DEF Once
  <2> QED BY <1>1, <1>2, <2>5, <2>6
<1>4. CASE stack = <<>> \/ stack[1].op # "catchup"
  <2>1. eseen = hseen \/ eseen = <<>>
    BY <1>4 DEF Shape, Seen, TypeOK
  <2> QED BY <1>1, <1>2, <2>1
<1> QED BY <1>1, <1>3, <1>4

\* How the event that ends is the last or the next of those that were sent.
LEMMA EventEndIs ==
  ASSUME HostInv, Shape, EventEnd
  PROVE  /\ stack # <<>> /\ Top = stack[Len(stack)] /\ Len(stack) \in 1 .. Len(stack)
         /\ Top.op \in EventOps /\ Top.arg \in Codes /\ Through /\ Return
         /\ \/ /\ Len(stack) = 1 /\ Top.op = "event"
               /\ hseen' = Noted(hseen, Top.arg) /\ Once(hseen')
               /\ loaded => eseen = hseen /\ eseen' = hseen' /\ Got(eseen, Top.arg) = eseen'
               /\ ~loaded => eseen' = eseen
            \/ /\ Len(stack) = 2 /\ Top.op = "catchup_event" /\ stack[1].op = "catchup"
               /\ loaded /\ hseen' = hseen /\ stack[1].i - 1 \in 1 .. Len(hseen)
               /\ eseen' = SubSeq(hseen, 1, stack[1].i - 1) /\ Got(eseen, Top.arg) = eseen'
            \/ /\ Len(stack) > 1 /\ Top.op = "event" /\ Top.arg = "change"
               /\ hseen' = hseen /\ eseen' = eseen
<1>1. TypeOK /\ stack # <<>> /\ Top.op \in EventOps /\ Through /\ Return
  BY DEF HostInv, EventEnd, At, EventOps, Through
<1> DEFINE n == Len(stack)
<1>2. /\ Top = stack[n] /\ n \in 1 .. n /\ n \in Nat /\ 1 \in 1 .. n /\ stack \in Seq(CallType)
      /\ Top \in CallType
  BY <1>1, TopIs DEF TypeOK
<1>3. Top.arg \in Codes
  BY <1>1, OnTop DEF HostInv, Fits, EventOps
<1>4. /\ hseen \in Seq(Lifecycle) /\ eseen \in Seq(Lifecycle) /\ Once(hseen) /\ loaded \in BOOLEAN
  BY <1>1, OnceAre DEF TypeOK
<1>5. /\ Top.op = "catchup_event" => n = 2 /\ stack[1].op = "catchup"
      /\ Top.op = "event" => n = 1 \/ Top.arg = "change"
  BY <1>1, <1>2, WhereIs DEF Shape
<1>6. /\ eseen' = IF loaded THEN Noted(eseen, Top.arg) ELSE eseen
      /\ hseen' = IF Top.op = "event" THEN Noted(hseen, Top.arg) ELSE hseen
  BY DEF EventEnd
<1>7. CASE n = 1 /\ Top.op = "event"
  <2>1. Top.arg = "initialized" => hseen = <<>>
    BY <1>2, <1>7 DEF Shape, Chain, Sane
  <2>2. Once(Noted(hseen, Top.arg)) /\ Got(hseen, Top.arg) = Noted(hseen, Top.arg)
    BY <1>4, <2>1, SentOnce
  <2>3. loaded => eseen = hseen
    BY <1>2, <1>7 DEF Shape, Seen
  <2>4. hseen' = Noted(hseen, Top.arg) /\ Once(hseen')
    BY <1>6, <1>7, <2>2
  <2> QED BY <1>1, <1>2, <1>3, <1>6, <1>7, <2>2, <2>3, <2>4
<1>8. CASE Top.op = "catchup_event"
  <2>1. loaded /\ eseen = SubSeq(hseen, 1, CaughtUp(1)) /\ CaughtUp(1) = stack[1].i - 2
    <3>1. stack[1].op = "catchup" /\ n = 2 /\ stack[2].op = "catchup_event"
      BY <1>2, <1>5, <1>8
    <3>2. loaded /\ eseen = SubSeq(hseen, 1, CaughtUp(1))
      BY <1>1, <3>1 DEF Shape, Seen
    <3>3. CaughtUp(1) = stack[1].i - 2
      BY <3>1 DEF CaughtUp
    <3> QED BY <3>2, <3>3
  <2>2. Child(stack[1], stack[2])
    <3>1. 1 \in 1 .. n - 1 /\ 1 + 1 = 2
      BY <1>2, <1>5, <1>8
    <3>2. \A k \in 1 .. Len(stack) - 1 : Child(stack[k], stack[k + 1])
      BY DEF Shape, Chain
    <3> QED BY <3>1, <3>2
  <2> DEFINE m == stack[1].i - 1
  <2>3. m \in 1 .. Len(hseen) /\ Top.arg = hseen[m]
    BY <1>2, <1>5, <1>8, <2>2 DEF Child, EventOps, ScriptOps
  <2>4. stack[1].i - 2 = m - 1
    <3>1. stack[1] \in CallType
      BY <1>2
    <3>2. stack[1].i \in Nat
      BY <3>1, CallIs
    <3> QED BY <3>2
  <2> HIDE DEF m
  <2>5. /\ Noted(SubSeq(hseen, 1, m - 1), hseen[m]) = SubSeq(hseen, 1, m)
        /\ Got(SubSeq(hseen, 1, m - 1), hseen[m]) = SubSeq(hseen, 1, m)
    BY <1>4, <2>3, NextSent
  <2>6. eseen = SubSeq(hseen, 1, m - 1)
    BY <2>1, <2>4
  <2>7. eseen' = SubSeq(hseen, 1, m) /\ Got(eseen, Top.arg) = SubSeq(hseen, 1, m) /\ hseen' = hseen
    BY <1>6, <1>8, <2>1, <2>3, <2>5, <2>6
  <2> QED BY <1>1, <1>2, <1>3, <1>5, <1>8, <2>1, <2>3, <2>7 DEF m
<1>9. CASE n # 1 /\ Top.op = "event"
  <2>1. Top.arg = "change" /\ n > 1
    <3>1. n > 1
      <4>1. n # 1 /\ n \in Nat /\ n \in 1 .. n
        BY <1>2, <1>9
      <4> HIDE DEF n
      <4> QED BY <4>1
    <3>2. Top.arg = "change"
      BY <1>5, <1>9
    <3> QED BY <3>1, <3>2
  <2>2. "change" \notin Lifecycle
    BY DEF Lifecycle
  <2>3. hseen' = hseen /\ eseen' = eseen
    BY <1>6, <2>1, <2>2 DEF Noted
  <2> QED BY <1>1, <1>2, <1>3, <1>9, <2>1, <2>3
<1> QED BY <1>1, <1>7, <1>8, <1>9 DEF EventOps

LEMMA EventEndShape == ASSUME HostInv, Shape, EventEnd PROVE Shape'
<1>1. /\ stack # <<>> /\ Top = stack[Len(stack)] /\ Len(stack) \in 1 .. Len(stack)
      /\ Top.op \in EventOps /\ Return
      /\ UNCHANGED <<up, loaded, list, start>>
  BY EventEndIs DEF EventEnd
<1>2. TypeOK /\ stack \in Seq(CallType)
  BY DEF HostInv, TypeOK
<1>3. /\ stack' \in Seq(CallType) /\ Len(stack') = Len(stack) - 1 /\ Len(stack) \in Nat
      /\ \A k \in 1 .. Len(stack) - 1 : stack'[k] = stack[k]
  BY <1>1, <1>2, ReturnIs
<1>4. CASE /\ Len(stack) = 1 /\ Top.op = "event" /\ Once(hseen')
           /\ loaded => eseen' = hseen'
           /\ ~loaded => eseen' = eseen
  <2>1. stack' = <<>>
    BY <1>3, <1>4
  <2>2. up \in {"begin", "up"}
    BY <1>1, <1>4 DEF Shape, Seen
  <2>3. Seen'
    BY <1>1, <1>4, <2>1, <2>2 DEF Shape, Seen
  <2> QED BY <2>1, <2>3, ShapeNone
<1>5. CASE /\ Len(stack) = 2 /\ Top.op = "catchup_event" /\ stack[1].op = "catchup"
           /\ loaded /\ hseen' = hseen /\ stack[1].i - 1 \in 1 .. Len(hseen)
           /\ eseen' = SubSeq(hseen, 1, stack[1].i - 1)
  <2>9. PICK c : c = stack[1]
    OBVIOUS
  <2>1. stack' = <<c>>
    BY <1>3, <1>5, <2>9
  <2>2. Sane(c)'
    <3>1. Sane(c)
      BY <1>1, <1>5, <2>9 DEF Shape, Chain
    <3> QED BY <1>1, <1>5, <2>9, <3>1 DEF Sane, EventOps
  <2>3. Seen'
    <3>1. CaughtUp(1)' = stack[1].i - 1 /\ stack'[1] = stack[1]
      BY <1>3, <1>5 DEF CaughtUp
    <3> QED BY <1>1, <1>5, <2>1, <3>1 DEF Shape, Seen
  <2>4. c.op = "catchup"
    BY <1>5, <2>9
  <2> QED BY <2>1, <2>2, <2>3, <2>4, ShapeAlone
<1>6. CASE Top.op = "event" /\ hseen' = hseen /\ eseen' = eseen
  BY <1>1, <1>2, <1>6, ShapeReturn DEF SameSent
<1> QED BY <1>4, <1>5, <1>6, EventEndIs

\* Only the catch-up is under way when the engine gets its scripts.
LEMMA ConfigIs ==
  ASSUME TypeOK, Shape, stack # <<>>, Top.op = "config"
  PROVE  /\ stack \in Seq(CallType) /\ Len(stack) \in {1, 2} /\ Top = stack[Len(stack)]
         /\ Top \in CallType
         /\ Len(stack) = 2 => stack[1].op = "catchup" /\ stack[1].i = 1
<1>1. /\ stack \in Seq(CallType) /\ Top = stack[Len(stack)] /\ Len(stack) \in 1 .. Len(stack)
      /\ Top \in CallType
  BY TopIs DEF TypeOK
<1>2. Len(stack) = 1 \/ (Len(stack) = 2 /\ stack[1].op = "catchup")
  BY <1>1, WhereIs DEF Shape
<1>3. ASSUME Len(stack) = 2, stack[1].op = "catchup" PROVE stack[1].i = 1
  <2>1. \A k \in 1 .. Len(stack) - 1 : Child(stack[k], stack[k + 1])
    BY DEF Shape, Chain
  <2>2. 1 \in 1 .. Len(stack) - 1 /\ 1 + 1 = 2
    BY <1>3
  <2>3. Child(stack[1], stack[2])
    BY <2>1, <2>2
  <2>4. stack[2].op = "config"
    BY <1>1, <1>3
  <2>6. PICK f, g : f = stack[1] /\ g = stack[2]
    OBVIOUS
  <2>7. Child(f, g) /\ f.op = "catchup" /\ g.op = "config"
    BY <1>3, <2>3, <2>4, <2>6
  <2>8. f.i = 1
    BY <2>7 DEF Child, EventOps, ScriptOps
  <2> QED BY <2>6, <2>8
<1>4. Len(stack) \in {1, 2}
  BY <1>2
<1>5. Len(stack) = 2 => stack[1].op = "catchup" /\ stack[1].i = 1
  BY <1>2, <1>3
<1> QED BY <1>1, <1>4, <1>5

LEMMA SetScriptsShape == ASSUME HostInv, Shape, SetScripts PROVE Shape'
<1>1. /\ stack # <<>> /\ Top.op = "config" /\ Goto("each") /\ TypeOK
      /\ UNCHANGED <<up, loaded, eseen, hseen>>
  BY DEF SetScripts, At, host, HostInv
<1> DEFINE n == Len(stack)
<1>2. /\ stack \in Seq(CallType) /\ n \in {1, 2} /\ Top = stack[n] /\ Top \in CallType
      /\ n = 2 => stack[1].op = "catchup" /\ stack[1].i = 1
  BY <1>1, ConfigIs
<1>3. /\ Len(stack') = n /\ \A k \in 1 .. n : k # n => stack'[k] = stack[k]
      /\ stack'[n] = [Top EXCEPT !.step = "each", !.i = 1]
  BY <1>1, <1>2, GotoIs DEF Steps
<1>4. stack'[n].op = "config" /\ stack'[n].step = "each"
  BY <1>1, <1>2, <1>3 DEF CallType
<1>10. PICK t, b : t = stack'[n] /\ b = stack[1]
  OBVIOUS
<1>5. Sane(t)'
  BY <1>4, <1>10 DEF Sane, EventOps
<1>6. n = 2 => stack'[1] = b /\ Child(b, t)' /\ Sane(b)'
  <2> SUFFICES ASSUME n = 2 PROVE stack'[1] = b /\ Child(b, t)' /\ Sane(b)'
    OBVIOUS
  <2>1. stack'[1] = b /\ Sane(b)
    <3>1. 1 \in 1 .. n /\ 1 # n
      OBVIOUS
    <3> QED BY <1>3, <1>10, <3>1 DEF Shape, Chain
  <2>2. b.op = "catchup" /\ b.i = 1 /\ t.op = "config"
    BY <1>2, <1>4, <1>10
  <2>3. Sane(b)'
    BY <1>1, <2>1, <2>2 DEF Sane, EventOps
  <2> QED BY <2>1, <2>2, <2>3 DEF Child
<1>7. stack' # <<>> /\ stack'[1].op = stack[1].op
  <2>1. stack' \in Seq(CallType)
    BY <1>1, <1>2, GotoIs DEF Steps
  <2>2. stack' # <<>>
    BY <1>2, <1>3, <2>1
  <2>3. CASE n = 1
    BY <1>1, <1>2, <1>4, <2>2, <2>3
  <2>4. CASE n = 2
    BY <1>6, <1>10, <2>2, <2>4
  <2> QED BY <1>2, <2>3, <2>4
<1>8. Chain'
  <2>1. \A k \in 1 .. n - 1 : k = 1 /\ n = 2 /\ k + 1 = 2
    BY <1>2
  <2>2. \A k \in 1 .. n : k = n \/ (k = 1 /\ n = 2)
    BY <1>2
  <2>3. stack'[1].op \in {"event", "file", "config", "catchup"}
    BY <1>1, <1>7 DEF Shape, Chain
  <2>4. (\A k \in 1 .. Len(stack) - 1 : Child(stack[k], stack[k + 1]))'
    BY <1>3, <1>6, <1>10, <2>1
  <2>5. (\A k \in 1 .. Len(stack) : Sane(stack[k]))'
    BY <1>3, <1>5, <1>6, <1>10, <2>2
  <2> QED BY <1>3, <1>7, <2>3, <2>4, <2>5 DEF Chain
<1>9. Seen'
  <2>1. stack[1].op = "catchup" => CaughtUp(1)' = CaughtUp(1)
    <3> SUFFICES ASSUME stack[1].op = "catchup" PROVE CaughtUp(1)' = CaughtUp(1)
      OBVIOUS
    <3>1. n = 2 /\ stack'[1] = stack[1] /\ stack[2].op = "config" /\ stack'[2].op = "config"
      <4>1. n = 2
        BY <1>1, <1>2
      <4> QED BY <1>1, <1>2, <1>4, <1>6, <1>10, <4>1
    <3> QED BY <1>3, <3>1 DEF CaughtUp
  <2> QED BY <1>1, <1>7, <2>1 DEF Shape, Seen, Once
<1> QED BY <1>8, <1>9 DEF Shape

\* The host
LEMMA BeginShape ==
  ASSUME HostInv, Shape, NEW c \in Codes, Begin(c), up' \in {"begin", "up"},
         c = "initialized" => up = "config"
  PROVE  Shape'
<1> DEFINE e == HostEvent(c)
<1>1. stack = <<>> /\ stack' = <<e>> /\ UNCHANGED <<list, eseen, hseen, loaded>>
  BY DEF Begin, Idle, host
<1>2. /\ e.op = "event" /\ e.arg = c /\ e.step = "each" /\ e.i = 1
      /\ Len(list) \in Nat
  BY LensAre DEF HostEvent, Call, HostInv
<1>3. c = "initialized" => hseen = <<>>
  BY DEF Shape, Seen
<1>4. Sane(e)'
  BY <1>1, <1>2, <1>3 DEF Sane, EventOps
<1> HIDE DEF e
<1>5. Seen'
  <2>1. stack'[1].op = "event" /\ stack' # <<>>
    BY <1>1, <1>2
  <2> QED BY <1>1, <2>1 DEF Shape, Seen, Once
<1> QED BY <1>1, <1>2, <1>4, <1>5, ShapeAlone

\* The catch-up begins with an engine that has seen nothing.
LEMMA CatchUpSeen ==
  ASSUME HostInv, Shape, eseen' = <<>>, loaded', hseen' = hseen, (up = "up" /\ up' = up) \/ up = "new",
         stack' # <<>>, stack'[1].op = "catchup", stack'[1].i = 1,
         Len(stack') > 1 => stack'[2].op # "catchup_event"
  PROVE  Seen'
<1>1. CaughtUp(1)' = 0
  BY DEF CaughtUp
<1>2. hseen \in Seq(Lifecycle)
  BY DEF HostInv, TypeOK
<1>3. SubSeq(hseen, 1, 0) = <<>>
  <2>1. 0 \in 0 .. Len(hseen)
    BY <1>2
  <2>2. SubSeq(hseen, 1, 0) \in Seq(Lifecycle) /\ Len(SubSeq(hseen, 1, 0)) = 0
    BY <1>2, <2>1, PrefixIs
  <2> QED BY <2>2
<1>4. up' \in {"new", "config"} => hseen = <<>>
  BY DEF Shape, Seen
<1>5. eseen' = SubSeq(hseen', 1, CaughtUp(1)')
  BY <1>1, <1>3
<1>6. Once(hseen)'
  BY DEF Shape, Seen, Once
<1> QED BY <1>4, <1>5, <1>6 DEF Seen

LEMMA CatchUpShape ==
  ASSUME HostInv, Shape, eseen' = <<>>, loaded', hseen' = hseen, (up = "up" /\ up' = up) \/ up = "new",
         stack' = <<CatchUp>> \/ stack' = <<CatchUp, ConfigSet>>
  PROVE  Shape'
<1>1. /\ CatchUp.op = "catchup" /\ CatchUp.i = 1 /\ CatchUp.step = "each"
      /\ ConfigSet.op = "config" /\ ConfigSet.step = "set"
  BY DEF CatchUp, ConfigSet, Call
<1>2. PICK a, b : a = CatchUp /\ b = ConfigSet
  OBVIOUS
<1>3. Len(hseen) \in Nat
  BY LensAre DEF HostInv
<1>4. Sane(a)' /\ Sane(b)' /\ Child(a, b)'
  BY <1>1, <1>2, <1>3 DEF Sane, Child, EventOps
<1>5. CASE stack' = <<CatchUp>>
  <2>1. stack' = <<a>> /\ Len(stack') = 1 /\ stack'[1] = a
    BY <1>2, <1>5
  <2>2. Seen'
    BY <1>1, <1>2, <2>1, CatchUpSeen
  <2> QED BY <1>1, <1>2, <1>4, <2>1, <2>2, ShapeAlone
<1>6. CASE stack' = <<CatchUp, ConfigSet>>
  <2>1. stack' = <<a, b>> /\ Len(stack') = 2 /\ stack'[1] = a /\ stack'[2] = b
    BY <1>2, <1>6
  <2>2. Seen'
    BY <1>1, <1>2, <2>1, CatchUpSeen
  <2>3. \A k \in 1 .. 2 : k = 1 \/ k = 2
    OBVIOUS
  <2>4. \A k \in 1 .. 2 - 1 : k = 1 /\ k + 1 = 2
    OBVIOUS
  <2>5. Chain'
    BY <1>1, <1>2, <1>4, <2>1, <2>3, <2>4 DEF Chain
  <2> QED BY <2>2, <2>5 DEF Shape
<1> QED BY <1>5, <1>6

\* What begins or ends with no call under way and sends nothing
LEMMA QuietShape ==
  ASSUME HostInv, Shape, stack = <<>>, hseen' = hseen,
         up' = up \/ up' \in {"begin", "up"} \/ (up = "new" /\ up' = "config"),
         \/ UNCHANGED <<loaded, eseen>>
         \/ ~loaded' /\ eseen' = <<>>,
         \/ stack' = <<>>
         \/ stack' = <<ConfigSet>>
         \/ \E s \in Scripts, p \in Paths : stack' = <<CallFile(s, p)>>
  PROVE  Shape'
<1>1. Once(hseen') /\ (up' \in {"new", "config"} => hseen' = <<>>)
  BY DEF Shape, Seen
<1>2. (~loaded' => eseen' = <<>>) /\ (loaded' => eseen' = hseen')
  BY DEF Shape, Seen
<1>3. CASE stack' = <<>>
  <2>1. Seen'
    BY <1>1, <1>2, <1>3 DEF Seen
  <2> QED BY <1>3, <2>1, ShapeNone
<1>4. CASE stack' # <<>>
  <2>1. PICK c : stack' = <<c>> /\ <<c.op, c.step>> \in {<<"config", "set">>, <<"file", "look">>}
    <3>1. CASE stack' = <<ConfigSet>>
      BY <3>1 DEF ConfigSet, Call
    <3>2. ASSUME NEW s \in Scripts, NEW p \in Paths, stack' = <<CallFile(s, p)>>
          PROVE  \E c : stack' = <<c>> /\ c.op = "file" /\ c.step = "look"
      BY <3>2 DEF CallFile, Call
    <3> QED BY <1>4, <3>1, <3>2
  <2>2. stack'[1] = c /\ stack' # <<>> /\ c.op \notin {"event", "catchup"}
    BY <2>1
  <2>3. Seen'
    BY <1>1, <1>2, <2>2 DEF Seen
  <2>4. Sane(c)'
    BY <2>1 DEF Sane, EventOps
  <2> QED BY <2>1, <2>3, <2>4, ShapeAlone
<1> QED BY <1>3, <1>4

LEMMA HostShape == ASSUME HostInv, Shape, Host PROVE Shape'
<1>1. CASE Initialized \/ Ready \/ Event
  <2>1. PICK c \in Codes : Begin(c) /\ up' \in {"begin", "up"} /\ (c = "initialized" => up = "config")
    BY <1>1 DEF Initialized, Ready, Event, Codes, Lifecycle
  <2> QED BY <2>1, BeginShape
<1>2. CASE LoadConfig
  <2>1. up = "new" /\ stack = <<>> /\ hseen' = hseen
    BY <1>2 DEF LoadConfig, HostInv, EngineUp
  <2>2. CASE PluginInit /\ up' = "config" /\ start' \in Configs /\ stack' = <<CatchUp, ConfigSet>>
    BY <2>1, <2>2, CatchUpShape DEF PluginInit, NothingKept
  <2>3. CASE up' \in {"config", "begin"} /\ UNCHANGED <<loaded, lib, list, eseen, seenBy, start, stack>>
    BY <2>1, <2>3, QuietShape
  <2> QED BY <1>2, <2>2, <2>3 DEF LoadConfig
<1>3. CASE NotReady
  BY <1>3, QuietShape DEF NotReady, host
<1>4. CASE Add
  BY <1>4, CatchUpShape DEF Add, PluginInit, NothingKept
<1>5. CASE RemovePlugin
  BY <1>5, QuietShape DEF RemovePlugin, NothingKept, Idle
<1>6. CASE Reload
  <2>1. stack = <<>> /\ up = "up" /\ up' = up /\ hseen' = hseen
    BY <1>6 DEF Reload, Idle
  <2>2. CASE stack' = <<ConfigSet>> /\ UNCHANGED <<loaded, lib, files, list, eseen, ctx, seenBy, sfiles>>
    BY <2>1, <2>2, QuietShape
  <2>3. CASE PluginInit /\ stack' = <<CatchUp, ConfigSet>>
    BY <2>1, <2>3, CatchUpShape DEF PluginInit, NothingKept
  <2>4. CASE loaded' = FALSE /\ NothingKept /\ UNCHANGED <<lib, stack>>
    BY <2>1, <2>4, QuietShape DEF NothingKept
  <2> QED BY <1>6, <2>2, <2>3, <2>4 DEF Reload
<1>7. ASSUME NEW p \in Paths, FileCall(p) PROVE Shape'
  <2>1. PICK s \in Scripts : stack' = <<CallFile(s, p)>>
    BY <1>7 DEF FileCall, ScriptOwning
  <2> QED BY <1>7, <2>1, QuietShape DEF FileCall, Idle, host
<1> QED BY <1>1, <1>2, <1>3, <1>4, <1>5, <1>6, <1>7 DEF Host

LEMMA ShapeInit == ASSUME Init PROVE Shape
<1>1. hseen = <<>> /\ eseen = <<>> /\ stack = <<>> /\ up = "new" /\ Len(hseen) = 0
  BY DEF Init
<1>2. Chain /\ Once(hseen)
  BY <1>1 DEF Chain, Once
<1> QED BY <1>1, <1>2 DEF Shape, Seen

\* The scripts' files, the library and other plugins change none of this.
LEMMA StepShape == ASSUME HostInv, Shape, [Next]_vars PROVE Shape'
<1>1. CASE Engine
  <2>1. ASSUME NEW p \in Paths, FileAdd(p) \/ FileRemove(p) PROVE Shape'
    <3>1. stack' = stack
      BY <2>1 DEF FileAdd, FileRemove
    <3>2. SameSent
      BY <2>1, EngineSent
    <3> QED BY <3>1, <3>2, SameShape
  <2> QED BY <1>1, <2>1, GotoShape, RunShape, EachShape, EventEndShape, SetScriptsShape DEF Engine
<1>2. CASE Outside
  <2>1. SameSent /\ stack' = stack
    BY <1>2 DEF Outside, OtherFile, Edit, Build, SameSent, host
  <2> QED BY <2>1, SameShape
<1>3. CASE UNCHANGED vars
  <2>1. SameSent /\ stack' = stack
    BY <1>3 DEF vars, SameSent, host
  <2> QED BY <2>1, SameShape
<1> QED BY <1>1, <1>2, <1>3, HostShape DEF Next

-----------------------------------------------------------------------------
(***************************************************************************)
(* How each kind of step changes the stack                                 *)
(***************************************************************************)

\* The call it is
Like(k) == /\ stack'[k].op = stack[k].op /\ stack'[k].s = stack[k].s /\ stack'[k].arg = stack[k].arg
           /\ Outer(k)' = Outer(k)

LEMMA PassedIs ==
  ASSUME NEW k
  PROVE  /\ k = Len(stack) => Passed(k) = stack[k].i - 1
         /\ k = Len(stack') => Passed(k)' = stack'[k].i - 1
         /\ k # Len(stack) => Passed(k) = (IF stack[k + 1].step = "handler" THEN stack[k].i - 1
                                            ELSE stack[k].i - 2)
         /\ k # Len(stack') => Passed(k)' = (IF stack'[k + 1].step = "handler"
                                                THEN stack'[k].i - 1 ELSE stack'[k].i - 2)
<1>1. /\ k = Len(stack) => Passed(k) = stack[k].i - 1
      /\ k # Len(stack) => Passed(k) = (IF stack[k + 1].step = "handler" THEN stack[k].i - 1
                                         ELSE stack[k].i - 2)
  BY ZenonT(20) DEF Passed
<1>2. /\ k = Len(stack') => Passed(k)' = stack'[k].i - 1
      /\ k # Len(stack') => Passed(k)' = (IF stack'[k + 1].step = "handler"
                                             THEN stack'[k].i - 1 ELSE stack'[k].i - 2)
  BY ZenonT(20) DEF Passed
<1> QED BY <1>1, <1>2

LEMMA GotoStack ==
  ASSUME TypeOK, Chain, stack # <<>>, Top.op \in ScriptOps, Top.step # "handler",
         NEW step \in ScriptSteps, Goto(step)
  PROVE  /\ Len(stack') = Len(stack) /\ stack' # <<>>
         /\ \A k \in 1 .. Len(stack) : k # Len(stack) => stack'[k] = stack[k]
         /\ \A k \in 1 .. Len(stack) : Like(k)
         /\ stack'[Len(stack)].step = step /\ stack'[Len(stack)].i = 1
         /\ \A k \in 1 .. Len(stack) :
              k # Len(stack) /\ (k + 1 # Len(stack) \/ step # "handler") => Passed(k)' = Passed(k)
         /\ \A k \in 1 .. Len(stack) :
              k + 1 = Len(stack) /\ step = "handler" => Passed(k)' = Passed(k) + 1
         /\ \A k \in 1 .. Len(stack) : k = Len(stack) => Passed(k)' = 0
<1>0. PICK n : n = Len(stack)
  OBVIOUS
<1>1. /\ n \in 1 .. n /\ n \in Nat /\ Top = stack[n] /\ Top \in CallType /\ stack \in Seq(CallType)
  BY <1>0, TopIs DEF TypeOK
<1>2. /\ stack' \in Seq(CallType) /\ Len(stack') = n
      /\ \A k \in 1 .. n : k # n => stack'[k] = stack[k]
      /\ stack'[n] = [Top EXCEPT !.step = step, !.i = 1]
  BY <1>0, <1>1, GotoIs DEF Steps
<1>3. /\ stack'[n].op = Top.op /\ stack'[n].s = Top.s /\ stack'[n].arg = Top.arg
      /\ stack'[n].step = step /\ stack'[n].i = 1
  BY <1>1, <1>2 DEF CallType
<1>4. \A k \in 1 .. n : Like(k)
  <2>1. \A k \in 1 .. n : stack'[k].op = stack[k].op /\ stack'[k].s = stack[k].s
                            /\ stack'[k].arg = stack[k].arg
    BY <1>1, <1>2, <1>3
  <2> QED BY <2>1 DEF Like, Outer
<1>5. \A k \in 1 .. n : stack[k].i \in Nat
  <2>1. \A k \in 1 .. n : stack[k] \in CallType
    BY <1>0, <1>1
  <2> QED BY <2>1, CallIs
<1>6. ASSUME NEW k \in 1 .. n, k # n
      PROVE  /\ k + 1 # n \/ step # "handler" => Passed(k)' = Passed(k)
             /\ k + 1 = n /\ step = "handler" => Passed(k)' = Passed(k) + 1
  <2>1. k + 1 \in 1 .. n /\ stack'[k] = stack[k] /\ k # Len(stack')
    BY <1>1, <1>2, <1>6
  <2>2. CASE k + 1 = n
    <3>1. stack'[k + 1].step = step /\ stack[k + 1].step # "handler"
      BY <1>1, <1>3, <2>2
    <3>2. Passed(k)' = (IF step = "handler" THEN stack[k].i - 1 ELSE stack[k].i - 2)
      BY <1>0, <1>2, <1>6, <2>1, <3>1, PassedIs
    <3>3. Passed(k) = stack[k].i - 2
      BY <1>0, <1>6, <3>1, PassedIs
    <3> QED BY <1>5, <2>2, <3>2, <3>3
  <2>3. CASE k + 1 # n
    <3>1. stack'[k + 1] = stack[k + 1]
      BY <1>2, <2>1, <2>3
    <3> QED BY <1>0, <1>6, <2>1, <2>3, <3>1, PassedIs
  <2> QED BY <2>2, <2>3
<1>7. Passed(n)' = 0
  <2>1. n = Len(stack') /\ stack'[n].i = 1
    BY <1>2, <1>3
  <2>2. Passed(n)' = stack'[n].i - 1
    BY <2>1, PassedIs
  <2> QED BY <2>1, <2>2
<1>9. stack' # <<>>
  BY <1>1, <1>2
<1>10. \A k \in 1 .. n : k + 1 = n => k # n
  BY <1>1
<1> QED BY <1>0, <1>2, <1>3, <1>4, <1>6, <1>7, <1>9, <1>10

LEMMA EachStack ==
  ASSUME TypeOK, stack # <<>>, NEW c \in CallType, Each(c), c.step # "handler"
  PROVE  /\ Len(stack') = Len(stack) + 1 /\ stack' # <<>>
         /\ \A k \in 1 .. Len(stack) : k # Len(stack) => stack'[k] = stack[k]
         /\ \A k \in 1 .. Len(stack) : Like(k) /\ stack'[k].step = stack[k].step
         /\ stack'[Len(stack)].i = Top.i + 1 /\ stack'[Len(stack) + 1] = c
         /\ \A k \in 1 .. Len(stack) : Passed(k)' = Passed(k)
         /\ \A k : k = Len(stack) + 1 => Passed(k)' = c.i - 1
<1>0. PICK n : n = Len(stack)
  OBVIOUS
<1>1. /\ n \in 1 .. n /\ n \in Nat /\ Top = stack[n] /\ Top \in CallType /\ stack \in Seq(CallType)
  BY <1>0, TopIs DEF TypeOK
<1>2. /\ stack' \in Seq(CallType) /\ Len(stack') = n + 1
      /\ \A k \in 1 .. n : k # n => stack'[k] = stack[k]
      /\ stack'[n] = Further /\ stack'[n + 1] = c
  BY <1>0, <1>1, EachIs DEF Further
<1>3. /\ stack'[n].op = Top.op /\ stack'[n].s = Top.s /\ stack'[n].arg = Top.arg
      /\ stack'[n].step = Top.step /\ stack'[n].i = Top.i + 1
  BY <1>2, FurtherIs
<1>4. \A k \in 1 .. n : Like(k) /\ stack'[k].step = stack[k].step
  <2>1. \A k \in 1 .. n : stack'[k].op = stack[k].op /\ stack'[k].s = stack[k].s
                            /\ stack'[k].arg = stack[k].arg /\ stack'[k].step = stack[k].step
    BY <1>1, <1>2, <1>3
  <2> QED BY <2>1 DEF Like, Outer
<1>5. ASSUME NEW k \in 1 .. n PROVE Passed(k)' = Passed(k)
  <2>1. CASE k = n
    <3>1. Passed(k) = Top.i - 1
      BY <1>0, <1>1, <2>1, PassedIs
    <3>2. Passed(k)' = Top.i + 1 - 2
      <4>1. n # Len(stack') /\ stack'[n + 1].step # "handler" /\ stack'[n].i = Top.i + 1
        BY <1>1, <1>2, <1>3
      <4>2. Passed(n)' = stack'[n].i - 2
        BY <4>1, PassedIs
      <4>3. Passed(k)' = Passed(n)'
        BY <2>1
      <4>4. Passed(k)' = stack'[n].i - 2
        BY <4>2, <4>3
      <4>5. Top.i \in Nat /\ stack'[n].i = Top.i + 1
        BY <4>1, FurtherIs
      <4> QED BY <4>4, <4>5
    <3>3. Top.i \in Nat
      BY FurtherIs
    <3> QED BY <3>1, <3>2, <3>3
  <2>2. CASE k # n
    <3>1. k + 1 \in 1 .. n /\ stack'[k] = stack[k] /\ k # Len(stack')
      BY <1>1, <1>2, <2>2
    <3>2. stack'[k + 1].step = stack[k + 1].step
      BY <1>4, <3>1
    <3> QED BY <1>0, <2>2, <3>1, <3>2, PassedIs
  <2> QED BY <2>1, <2>2
<1>6. Passed(n + 1)' = c.i - 1
  BY <1>0, <1>2, PassedIs
<1>7. stack' # <<>>
  BY <1>1, <1>2
<1> QED BY <1>0, <1>2, <1>3, <1>4, <1>5, <1>6, <1>7

LEMMA PushStack ==
  ASSUME TypeOK, stack # <<>>, NEW c \in CallType, stack' = Append(stack, c), c.step # "handler"
  PROVE  /\ Len(stack') = Len(stack) + 1 /\ stack' # <<>>
         /\ \A k \in 1 .. Len(stack) : stack'[k] = stack[k] /\ Like(k)
         /\ stack'[Len(stack) + 1] = c
         /\ \A k \in 1 .. Len(stack) : k # Len(stack) => Passed(k)' = Passed(k)
         /\ \A k : k = Len(stack) + 1 => Passed(k)' = c.i - 1
<1>0. PICK n : n = Len(stack)
  OBVIOUS
<1>1. /\ n \in 1 .. n /\ n \in Nat /\ stack \in Seq(CallType)
  BY <1>0, TopIs DEF TypeOK
<1>2. /\ Len(stack') = n + 1 /\ stack'[n + 1] = c /\ stack' # <<>>
      /\ \A k \in 1 .. n : stack'[k] = stack[k]
  BY <1>0, <1>1
<1>3. \A k \in 1 .. n : Like(k)
  BY <1>2 DEF Like, Outer
<1>4. ASSUME NEW k \in 1 .. n, k # n PROVE Passed(k)' = Passed(k)
  <2>1. k + 1 \in 1 .. n /\ k # Len(stack')
    BY <1>1, <1>2, <1>4
  <2>2. stack'[k + 1] = stack[k + 1] /\ stack'[k] = stack[k]
    BY <1>2, <2>1
  <2> QED BY <1>0, <1>4, <2>1, <2>2, PassedIs
<1>5. Passed(n + 1)' = c.i - 1
  BY <1>0, <1>2, PassedIs
<1> QED BY <1>0, <1>2, <1>3, <1>4, <1>5

LEMMA ReturnStack ==
  ASSUME TypeOK, stack # <<>>, Return
  PROVE  /\ Len(stack') = Len(stack) - 1 /\ (Len(stack) = 1 <=> stack' = <<>>)
         /\ \A k \in 1 .. Len(stack) - 1 : k \in 1 .. Len(stack) /\ stack'[k] = stack[k] /\ Like(k)
         /\ \A k \in 1 .. Len(stack) - 1 :
              k + 1 # Len(stack) \/ Top.step = "handler" => Passed(k)' = Passed(k)
         /\ \A k \in 1 .. Len(stack) - 1 : k + 1 = Len(stack) =>
              Passed(k)' = stack[k].i - 1 /\ (Top.step # "handler" => Passed(k)' = Passed(k) + 1)
<1>0. PICK n : n = Len(stack)
  OBVIOUS
<1>1. /\ n \in 1 .. n /\ n \in Nat /\ Top = stack[n] /\ stack \in Seq(CallType)
  BY <1>0, TopIs DEF TypeOK
<1>2. /\ stack' \in Seq(CallType) /\ Len(stack') = n - 1
      /\ \A k \in 1 .. n - 1 : stack'[k] = stack[k]
  BY <1>0, <1>1, ReturnIs
<1>3. \A k \in 1 .. n - 1 : k \in 1 .. n /\ Like(k)
  BY <1>1, <1>2 DEF Like, Outer
<1>4. n = 1 <=> stack' = <<>>
  BY <1>1, <1>2
<1>5. ASSUME NEW k \in 1 .. n - 1, k + 1 # n PROVE Passed(k)' = Passed(k)
  <2>1. k + 1 \in 1 .. n - 1 /\ k # Len(stack') /\ k # n
    BY <1>1, <1>2, <1>5
  <2>2. stack'[k + 1] = stack[k + 1] /\ stack'[k] = stack[k]
    BY <1>2, <2>1
  <2> QED BY <1>0, <2>1, <2>2, PassedIs
<1>6. ASSUME NEW k \in 1 .. n - 1, k + 1 = n
      PROVE  /\ Passed(k)' = stack[k].i - 1
             /\ Passed(k) = IF Top.step = "handler" THEN stack[k].i - 1 ELSE stack[k].i - 2
             /\ stack[k].i \in Nat
  <2>1. k \in 1 .. n /\ k # n /\ k = Len(stack')
    BY <1>1, <1>2, <1>6
  <2>2. stack'[k] = stack[k] /\ stack[k] \in CallType
    BY <1>1, <1>2, <2>1
  <2>3. Passed(k)' = stack[k].i - 1
    BY <1>0, <2>1, <2>2, PassedIs
  <2>4. Passed(k) = IF Top.step = "handler" THEN stack[k].i - 1 ELSE stack[k].i - 2
    BY <1>0, <1>1, <1>6, <2>1, PassedIs
  <2> QED BY <2>2, <2>3, <2>4, CallIs
<1>7. \A k \in 1 .. n - 1 : k + 1 = n =>
        /\ Passed(k)' = stack[k].i - 1
        /\ Top.step # "handler" => Passed(k)' = Passed(k) + 1
        /\ Top.step = "handler" => Passed(k)' = Passed(k)
  BY <1>6
<1> QED BY <1>0, <1>2, <1>3, <1>4, <1>5, <1>7

-----------------------------------------------------------------------------
(***************************************************************************)
(* The texts of the scripts                                                *)
(***************************************************************************)

LEMMA ScriptIs ==
  ASSUME HostInv, NEW k \in 1 .. Len(stack), stack[k].op \in ScriptOps
  PROVE  stack[k].s \in Scripts /\ stack[k].s \in ToSet(list)
<1>1. list \in Seq(Scripts)
  BY DEF HostInv, TypeOK
<1>2. ToSet(list) \subseteq Scripts
  BY <1>1, ToSetIs
<1>3. Fits(stack[k], list, start, loaded)
  BY DEF HostInv, Frames
<1> QED BY <1>2, <1>3 DEF Fits

\* A text that is kept stays so.
Kept == UNCHANGED <<list, start, edited>> /\ \A s \in Scripts : SameText(s) => SameText(s)'

LEMMA TwoOf == \A n \in Nat : 1 \in 1 .. n /\ n # 1 => 2 \in 1 .. n
  OBVIOUS

LEMMA GotoFresh ==
  ASSUME HostInv, Shape, FreshTexts, stack # <<>>, Top.op \in ScriptOps, Top.step # "handler",
         NEW step \in ScriptSteps, Goto(step), Kept, Top.step = "hash" => step \in Looked,
         NEW t, t = Top.s, step \in Looked => SameText(t)',
         step \in {"mtime", "load"} => hash'[t] = disk'[t].text
  PROVE  FreshTexts'
<1> DEFINE n == Len(stack)
<1>1. /\ n \in 1 .. n /\ n \in Nat /\ Top = stack[n] /\ TypeOK /\ Chain
      /\ t \in Scripts /\ t \in ToSet(list) /\ stack \in Seq(CallType)
  BY OnTop, TopIs DEF HostInv, Shape
<1>2. /\ Len(stack') = n /\ stack' # <<>>
      /\ \A k \in 1 .. n : k # n => stack'[k] = stack[k]
      /\ \A k \in 1 .. n : Like(k)
      /\ stack'[n].step = step /\ stack'[n].i = 1
      /\ \A k \in 1 .. n : k # n /\ (k + 1 # n \/ step # "handler") => Passed(k)' = Passed(k)
      /\ \A k \in 1 .. n : k + 1 = n /\ step = "handler" => Passed(k)' = Passed(k) + 1
  BY <1>1, GotoStack
<1>3. \A k \in 1 .. n : k # n => stack[k].step \in {"each", "eval", "replay"}
  BY <1>1, WhereIs
<1>4. LooksFresh'
  <2> SUFFICES ASSUME NEW k \in 1 .. n, NEW s \in Scripts,
                      stack'[k].op \in ScriptOps, stack'[k].s = s
               PROVE  /\ stack'[k].step \in Looked => SameText(s)'
                      /\ stack'[k].step \in {"mtime", "load"} => hash'[s] = disk'[s].text
    BY <1>2 DEF LooksFresh
  <2>1. CASE k = n
    <3>1. s = t
      BY <1>1, <1>2, <2>1 DEF Like
    <3> QED BY <1>2, <2>1, <3>1
  <2>2. CASE k # n
    <3>1. stack'[k] = stack[k] /\ stack[k].step \notin {"mtime", "load"}
      BY <1>2, <1>3, <2>2
    <3>2. stack[k].step \in Looked => SameText(s)
      BY <3>1 DEF FreshTexts, LooksFresh
    <3> QED BY <3>1, <3>2 DEF Kept
  <2> QED BY <2>1, <2>2
<1>5. ToldFresh'
  <2> SUFFICES ASSUME NEW e \in 1 .. n, Outer(e)', NEW s \in Scripts, Told(e, s)'
               PROVE  SameText(s)'
    BY <1>2 DEF ToldFresh
  <2>1. Outer(e) /\ stack[e].op \in EventOps /\ e # n
    BY <1>1, <1>2 DEF Like, Outer, EventOps, ScriptOps
  <2>2. PICK m \in 1 .. Passed(e)' : list[m] = s
    BY DEF Told, Kept
  <2>3. CASE e + 1 # n \/ step # "handler"
    <3>1. Told(e, s)
      BY <1>2, <2>1, <2>2, <2>3 DEF Told
    <3> QED BY <2>1, <3>1 DEF FreshTexts, ToldFresh, Kept
  <2>4. CASE e + 1 = n /\ step = "handler"
    <3>1. Passed(e)' = Passed(e) + 1 /\ e \in 1 .. n - 1
      BY <1>1, <1>2, <2>4
    <3>2. stack[e] \in CallType
      BY <1>1
    <3>3. Passed(e) = stack[e].i - 2 /\ stack[e].i \in Nat
      BY <1>1, <2>1, <2>4, <3>2, PassedIs, CallIs
    <3>4. CASE m \in 1 .. Passed(e)
      BY <2>1, <2>2, <3>4 DEF Told, FreshTexts, ToldFresh, Kept
    <3>5. CASE m = stack[e].i - 1
      <4>1. Child(stack[e], stack[e + 1])
        BY <1>1, <3>1 DEF Chain
      <4>2. t = list[m]
        BY <1>1, <2>1, <2>4, <3>5, <4>1 DEF Child, EventOps, ScriptOps
      <4> QED BY <2>2, <2>4, <4>2 DEF Looked
    <3>6. m \in 1 .. Passed(e) \/ m = stack[e].i - 1
      BY <3>1, <3>3
    <3> QED BY <3>4, <3>5, <3>6
  <2> QED BY <2>3, <2>4
<1>6. stack'[1].op = stack[1].op /\ 1 \in 1 .. n
  BY <1>1, <1>2 DEF Like
<1>7. RestFresh'
  BY <1>2, <1>6, ToSetIs DEF FreshTexts, RestFresh, Kept, HostInv, TypeOK
<1>8. \A s \in ToSet(list) : s \in Scripts
  BY <1>1, LensAre
<1>9. ConfigFresh'
  <2> SUFFICES ASSUME NEW k \in 1 .. n, stack'[k].op = "config", stack'[k].step = "each",
                      NEW s \in ToSet(list)
               PROVE  SameText(s)' \/ ToStart(k, s)'
    BY <1>2 DEF ConfigFresh, Kept
  <2>1. k # n
    BY <1>1, <1>2 DEF Like, ScriptOps
  <2>2. stack'[k] = stack[k] /\ (SameText(s) \/ ToStart(k, s))
    BY <1>2, <2>1 DEF FreshTexts, ConfigFresh
  <2>3. CASE SameText(s)
    BY <1>8, <2>3 DEF Kept
  <2>4. CASE \E m \in 1 .. Len(start) : m >= stack[k].i /\ start[m] = s
    BY <2>2, <2>4 DEF ToStart, Kept
  <2>5. CASE k < Len(stack) /\ stack[k + 1].step = "hash" /\ stack[k + 1].s = s
    <3>1. k + 1 = n
      <4>1. k + 1 \in 1 .. n
        BY <1>1, <2>5
      <4> QED BY <1>3, <2>5, <4>1
    <3> QED BY <1>1, <2>5, <3>1
  <2> QED BY <2>2, <2>3, <2>4, <2>5 DEF ToStart
<1>10. CatchUpFresh'
  <2>1. ASSUME stack[1].op = "catchup", n = 1 \/ stack'[2].op # "config"
        PROVE  n = 1 \/ stack[2].op # "config"
    <3>1. CASE n = 1
      BY <3>1
    <3>2. CASE n # 1
      <4>1. 2 \in 1 .. n
        BY <1>1, <3>2, TwoOf
      <4>2. stack'[2].op = stack[2].op
        BY <1>2, <4>1 DEF Like
      <4> QED BY <2>1, <3>2, <4>2
    <3> QED BY <3>1, <3>2
  <2>2. ASSUME stack[1].op = "catchup", n = 1 \/ stack'[2].op # "config", NEW s \in ToSet(list)
        PROVE  SameText(s)'
    <3>1. SameText(s)
      BY <2>1, <2>2 DEF FreshTexts, CatchUpFresh
    <3> QED BY <1>8, <3>1 DEF Kept
  <2> QED BY <1>2, <1>6, <2>2 DEF CatchUpFresh, Kept
<1> QED BY <1>4, <1>5, <1>7, <1>9, <1>10 DEF FreshTexts

\* A loop goes on: one of the scripts to start, or anything else.
LEMMA EachFresh ==
  ASSUME HostInv, Shape, FreshTexts, stack # <<>>, NEW c \in CallType, Each(c), Kept,
         c.step \notin Looked, c.i = 1, c.op # "config",
         Top.step \in {"each", "replay"},
         Top.op = "config" => c.step = "hash" /\ Top.i \in 1 .. Len(start) /\ c.s = start[Top.i]
  PROVE  FreshTexts'
<1> DEFINE n == Len(stack)
<1>1. /\ n \in 1 .. n /\ n \in Nat /\ Top = stack[n] /\ TypeOK /\ Chain
      /\ stack \in Seq(CallType)
  BY OnTop, TopIs DEF HostInv, Shape
<1>2. /\ Len(stack') = n + 1 /\ stack' # <<>>
      /\ \A k \in 1 .. n : k # n => stack'[k] = stack[k]
      /\ \A k \in 1 .. n : Like(k) /\ stack'[k].step = stack[k].step
      /\ stack'[n].i = Top.i + 1 /\ stack'[n + 1] = c
      /\ \A k \in 1 .. n : Passed(k)' = Passed(k)
      /\ \A k : k = n + 1 => Passed(k)' = c.i - 1
  BY <1>1, EachStack DEF Looked
<1>3. \A k \in 1 .. n + 1 : k = n + 1 \/ k \in 1 .. n
  BY <1>1
<1>4. LooksFresh'
  <2> SUFFICES ASSUME NEW k \in 1 .. n + 1, NEW s \in Scripts,
                      stack'[k].op \in ScriptOps, stack'[k].s = s
               PROVE  /\ stack'[k].step \in Looked => SameText(s)'
                      /\ stack'[k].step \in {"mtime", "load"} => hash'[s] = disk'[s].text
    BY <1>2 DEF LooksFresh
  <2>1. CASE k = n + 1
    BY <1>2, <2>1 DEF Looked, LoadSteps
  <2>2. CASE k \in 1 .. n
    <3>1. /\ stack[k].op \in ScriptOps /\ stack[k].s = s /\ stack'[k].step = stack[k].step
      BY <1>2, <2>2 DEF Like
    <3>2. stack[k].step \in Looked => SameText(s)
      BY <2>2, <3>1 DEF FreshTexts, LooksFresh
    <3>3. stack[k].step \notin {"mtime", "load"}
      <4>1. CASE k # n
        BY <1>1, <2>2, <4>1, WhereIs
      <4>2. CASE k = n
        BY <1>1, <4>2
      <4> QED BY <4>1, <4>2
    <3> QED BY <3>1, <3>2, <3>3 DEF Kept
  <2> QED BY <1>3, <2>1, <2>2
<1>5. ToldFresh'
  <2> SUFFICES ASSUME NEW e \in 1 .. n + 1, Outer(e)', NEW s \in Scripts, Told(e, s)'
               PROVE  SameText(s)'
    BY <1>2 DEF ToldFresh
  <2>1. PICK m \in 1 .. Passed(e)' : list[m] = s
    BY DEF Told, Kept
  <2>2. e \in 1 .. n
    <3>1. ASSUME e = n + 1 PROVE FALSE
      <4>1. Passed(e)' = 0
        BY <1>2, <3>1
      <4> QED BY <2>1, <4>1
    <3> QED BY <1>3, <3>1
  <2>3. Outer(e) /\ Told(e, s)
    BY <1>2, <2>1, <2>2 DEF Like, Told
  <2> QED BY <2>2, <2>3 DEF FreshTexts, ToldFresh, Kept
<1>6. stack'[1].op = stack[1].op /\ 1 \in 1 .. n
  BY <1>1, <1>2 DEF Like
<1>7. RestFresh'
  BY <1>2, <1>6, ToSetIs DEF FreshTexts, RestFresh, Kept, HostInv, TypeOK
<1>8. \A s \in ToSet(list) : s \in Scripts
  BY <1>1, LensAre
<1>9. ConfigFresh'
  <2> SUFFICES ASSUME NEW k \in 1 .. n + 1, stack'[k].op = "config", stack'[k].step = "each",
                      NEW s \in ToSet(list)
               PROVE  SameText(s)' \/ ToStart(k, s)'
    BY <1>2 DEF ConfigFresh, Kept
  <2>1. k \in 1 .. n
    BY <1>2, <1>3
  <2>2. SameText(s) \/ ToStart(k, s)
    BY <1>2, <2>1 DEF FreshTexts, ConfigFresh, Like
  <2>3. CASE SameText(s)
    BY <1>8, <2>3 DEF Kept
  <2>4. ASSUME NEW m \in 1 .. Len(start), m >= stack[k].i, start[m] = s PROVE ToStart(k, s)'
    <3>1. CASE k # n
      <4>1. stack'[k] = stack[k]
        BY <1>2, <2>1, <3>1
      <4> QED BY <2>4, <4>1 DEF ToStart, Kept
    <3>2. CASE k = n
      <4>1. Top.op = "config" /\ Top.i \in Nat
        BY <1>1, <1>2, <3>2, FurtherIs DEF Like
      <4>2. CASE m = Top.i
        <5>1. n < Len(stack') /\ stack'[n + 1].step = "hash" /\ stack'[n + 1].s = s
          BY <1>1, <1>2, <2>4, <4>1, <4>2
        <5> QED BY <3>2, <5>1 DEF ToStart
      <4>3. CASE m # Top.i
        <5>1. m >= Top.i + 1
          BY <1>1, <2>4, <3>2, <4>1, <4>3
        <5> QED BY <1>2, <2>4, <3>2, <5>1 DEF ToStart, Kept
      <4> QED BY <4>2, <4>3
    <3> QED BY <3>1, <3>2
  <2>5. ASSUME k < Len(stack), stack[k + 1].step = "hash", stack[k + 1].s = s PROVE ToStart(k, s)'
    <3>1. k + 1 \in 1 .. n
      BY <1>1, <2>1, <2>5
    <3>2. stack'[k + 1].step = "hash" /\ stack'[k + 1].s = s
      BY <1>2, <2>5, <3>1 DEF Like
    <3>3. k < Len(stack')
      BY <1>1, <1>2, <3>1
    <3> QED BY <3>2, <3>3 DEF ToStart
  <2> QED BY <2>2, <2>3, <2>4, <2>5 DEF ToStart
<1>10. CatchUpFresh'
  <2>1. ASSUME stack[1].op = "catchup", Len(stack') = 1 \/ stack'[2].op # "config"
        PROVE  n = 1 \/ stack[2].op # "config"
    <3>1. CASE n = 1
      BY <3>1
    <3>2. CASE n # 1
      <4>1. 2 \in 1 .. n /\ Len(stack') # 1
        <5>1. Len(stack') = n + 1 /\ n \in Nat /\ 1 \in 1 .. n /\ n # 1
          BY <1>1, <1>2, <1>6, <3>2
        <5> HIDE DEF n
        <5> QED BY <5>1, TwoOf
      <4>2. stack'[2].op = stack[2].op
        BY <1>2, <4>1 DEF Like
      <4> QED BY <2>1, <4>1, <4>2
    <3> QED BY <3>1, <3>2
  <2>2. ASSUME stack[1].op = "catchup", Len(stack') = 1 \/ stack'[2].op # "config", NEW s \in ToSet(list)
        PROVE  SameText(s)'
    <3>1. SameText(s)
      BY <1>1, <2>1, <2>2 DEF FreshTexts, CatchUpFresh
    <3> QED BY <1>8, <3>1 DEF Kept
  <2> QED BY <1>2, <1>6, <2>2 DEF CatchUpFresh, Kept
<1> QED BY <1>4, <1>5, <1>7, <1>9, <1>10 DEF FreshTexts

\* The event of a device that a script drives while it loads
LEMMA PushFresh ==
  ASSUME HostInv, Shape, FreshTexts, stack # <<>>, Top.op \in ScriptOps, Top.step = "eval",
         stack' = Append(stack, HostEvent("change")), Kept
  PROVE  FreshTexts'
<1> DEFINE n == Len(stack)
<1>0. PICK c \in CallType : c = HostEvent("change")
  BY CallsAre DEF Codes
<1>9. /\ c.op = "event" /\ c.step = "each" /\ stack' = Append(stack, c)
  BY <1>0 DEF HostEvent, Call
<1>1. /\ n \in 1 .. n /\ n \in Nat /\ Top = stack[n] /\ TypeOK /\ Chain
      /\ stack \in Seq(CallType)
  BY OnTop, TopIs DEF HostInv, Shape
<1>2. /\ Len(stack') = n + 1 /\ stack' # <<>>
      /\ \A k \in 1 .. n : stack'[k] = stack[k] /\ Like(k)
      /\ stack'[n + 1] = c
      /\ \A k \in 1 .. n : k # n => Passed(k)' = Passed(k)
  BY <1>1, <1>9, PushStack
<1>3. \A k \in 1 .. n + 1 : k = n + 1 \/ k \in 1 .. n
  BY <1>1
<1>4. LooksFresh'
  <2> SUFFICES ASSUME NEW k \in 1 .. n + 1, NEW s \in Scripts,
                      stack'[k].op \in ScriptOps, stack'[k].s = s
               PROVE  /\ stack'[k].step \in Looked => SameText(s)'
                      /\ stack'[k].step \in {"mtime", "load"} => hash'[s] = disk'[s].text
    BY <1>2 DEF LooksFresh
  <2>1. k \in 1 .. n /\ stack'[k] = stack[k]
    BY <1>2, <1>3, <1>9 DEF ScriptOps
  <2>2. stack[k].step \in Looked => SameText(s)
    BY <2>1 DEF FreshTexts, LooksFresh
  <2>3. stack[k].step \notin {"mtime", "load"}
    <4>1. CASE k # n
      BY <1>1, <2>1, <4>1, WhereIs
    <4>2. CASE k = n
      BY <1>1, <4>2
    <4> QED BY <4>1, <4>2
  <2> QED BY <2>1, <2>2, <2>3 DEF Kept
<1>5. ToldFresh'
  <2> SUFFICES ASSUME NEW e \in 1 .. n + 1, Outer(e)', NEW s \in Scripts, Told(e, s)'
               PROVE  SameText(s)'
    BY <1>2 DEF ToldFresh
  <2>1. PICK m \in 1 .. Passed(e)' : list[m] = s
    BY DEF Told, Kept
  <2>2. e \in 1 .. n
    <3>1. ASSUME e = n + 1 PROVE FALSE
      BY <1>1, <1>2, <1>9, <3>1 DEF Outer
    <3> QED BY <1>3, <3>1
  <2>3. Outer(e)
    BY <1>2, <2>2 DEF Like
  <2>4. e # n
    BY <1>1, <2>3 DEF Outer, ScriptOps
  <2>5. Told(e, s)
    BY <1>2, <2>1, <2>2, <2>4 DEF Told
  <2> QED BY <2>2, <2>3, <2>5 DEF FreshTexts, ToldFresh, Kept
<1>6. stack'[1] = stack[1] /\ 1 \in 1 .. n
  BY <1>1, <1>2
<1>7. RestFresh'
  BY <1>2, <1>6, ToSetIs DEF FreshTexts, RestFresh, Kept, HostInv, TypeOK
<1>8. \A s \in ToSet(list) : s \in Scripts
  BY <1>1, LensAre
<1>10. ConfigFresh'
  <2> SUFFICES ASSUME NEW k \in 1 .. n + 1, stack'[k].op = "config", stack'[k].step = "each",
                      NEW s \in ToSet(list)
               PROVE  SameText(s)' \/ ToStart(k, s)'
    BY <1>2 DEF ConfigFresh, Kept
  <2>1. k \in 1 .. n /\ stack'[k] = stack[k]
    BY <1>2, <1>3, <1>9
  <2>2. SameText(s) \/ ToStart(k, s)
    BY <2>1 DEF FreshTexts, ConfigFresh
  <2>3. CASE SameText(s)
    BY <1>8, <2>3 DEF Kept
  <2>4. ASSUME NEW m \in 1 .. Len(start), m >= stack[k].i, start[m] = s PROVE ToStart(k, s)'
    BY <2>1, <2>4 DEF ToStart, Kept
  <2>5. ASSUME k < Len(stack), stack[k + 1].step = "hash", stack[k + 1].s = s PROVE ToStart(k, s)'
    <3>1. k + 1 \in 1 .. n
      BY <1>1, <2>1, <2>5
    <3>2. stack'[k + 1] = stack[k + 1]
      BY <1>2, <3>1
    <3>3. k < Len(stack')
      BY <1>1, <1>2, <3>1
    <3> QED BY <2>5, <3>2, <3>3 DEF ToStart
  <2> QED BY <2>2, <2>3, <2>4, <2>5 DEF ToStart
<1>11. CatchUpFresh'
  <2>1. stack[1].op = "catchup" => n # 1 /\ 2 \in 1 .. n
    BY <1>1 DEF ScriptOps
  <2>2. stack[1].op = "catchup" => stack'[2] = stack[2]
    BY <1>2, <2>1
  <2>3. ASSUME stack[1].op = "catchup", stack'[2].op # "config", NEW s \in ToSet(list)
        PROVE  SameText(s)'
    <3>1. SameText(s)
      BY <1>1, <2>2, <2>3 DEF FreshTexts, CatchUpFresh
    <3> QED BY <1>8, <3>1 DEF Kept
  <2>4. Len(stack') # 1
    BY <1>1, <1>2
  <2> QED BY <1>2, <1>6, <2>3, <2>4 DEF CatchUpFresh, Kept
<1> QED BY <1>4, <1>5, <1>7, <1>10, <1>11 DEF FreshTexts

\* The call on top is over: it had been through its loop.
Done ==
  /\ Top.op \in EventOps => Through
  /\ Top.op = "config" => Top.step = "each" /\ Top.i > Len(start)
  /\ Top.op = "action" => Top.step \in Looked
  /\ Top.op \in ScriptOps => Top.step # "hash"

LEMMA ReturnFresh ==
  ASSUME HostInv, Shape, FreshTexts, stack # <<>>, Return, Kept, Done
  PROVE  FreshTexts'
<1> DEFINE n == Len(stack)
<1>1. /\ n \in 1 .. n /\ n \in Nat /\ Top = stack[n] /\ TypeOK /\ Chain
      /\ stack \in Seq(CallType) /\ Top \in CallType
  BY OnTop, TopIs DEF HostInv, Shape
<1>2. /\ Len(stack') = n - 1 /\ (n = 1 <=> stack' = <<>>)
      /\ \A k \in 1 .. n - 1 : k \in 1 .. n /\ stack'[k] = stack[k] /\ Like(k)
      /\ \A k \in 1 .. n - 1 : k + 1 # n \/ Top.step = "handler" => Passed(k)' = Passed(k)
      /\ \A k \in 1 .. n - 1 : k + 1 = n => Passed(k)' = stack[k].i - 1
      /\ \A k \in 1 .. n - 1 : k + 1 = n /\ Top.step # "handler" => Passed(k)' = Passed(k) + 1
  BY <1>1, ReturnStack
<1>3. \A s \in ToSet(list) : s \in Scripts
  BY <1>1, LensAre
<1>4. LooksFresh'
  <2> SUFFICES ASSUME NEW k \in 1 .. n - 1, NEW s \in Scripts,
                      stack'[k].op \in ScriptOps, stack'[k].s = s
               PROVE  /\ stack'[k].step \in Looked => SameText(s)'
                      /\ stack'[k].step \in {"mtime", "load"} => hash'[s] = disk'[s].text
    BY <1>2 DEF LooksFresh
  <2>1. k \in 1 .. n /\ stack'[k] = stack[k] /\ k # n
    BY <1>1, <1>2
  <2>2. stack[k].step \in Looked => SameText(s)
    BY <2>1 DEF FreshTexts, LooksFresh
  <2>3. stack[k].step \notin {"mtime", "load"}
    BY <1>1, <2>1, WhereIs
  <2> QED BY <2>1, <2>2, <2>3 DEF Kept
<1>5. ToldFresh'
  <2> SUFFICES ASSUME NEW e \in 1 .. n - 1, Outer(e)', NEW s \in Scripts, Told(e, s)'
               PROVE  SameText(s)'
    BY <1>2 DEF ToldFresh
  <2>1. Outer(e) /\ stack[e].op \in EventOps /\ e \in 1 .. n
    BY <1>2 DEF Like, Outer, EventOps
  <2>2. PICK m \in 1 .. Passed(e)' : list[m] = s
    BY DEF Told, Kept
  <2>3. CASE Passed(e)' = Passed(e)
    <3>1. Told(e, s)
      BY <2>2, <2>3 DEF Told
    <3> QED BY <2>1, <3>1 DEF FreshTexts, ToldFresh, Kept
  <2>4. CASE e + 1 = n /\ Top.step # "handler"
    <3>1. Passed(e)' = Passed(e) + 1 /\ Passed(e)' = stack[e].i - 1
      BY <1>2, <2>4
    <3>2. stack[e] \in CallType
      BY <1>1, <2>1
    <3>3. stack[e].i \in Nat
      BY <3>2, CallIs
    <3>9. Passed(e) = stack[e].i - 2
      <4>1. e # Len(stack) /\ stack[e + 1].step # "handler"
        BY <1>1, <2>4
      <4> QED BY <4>1, PassedIs
    <3>4. CASE m \in 1 .. Passed(e)
      BY <2>1, <2>2, <3>4 DEF Told, FreshTexts, ToldFresh, Kept
    <3>5. CASE m = stack[e].i - 1
      <4>1. Child(stack[e], stack[e + 1])
        BY <1>1 DEF Chain
      <4>2. Top.op = "action" /\ Top.s = s
        BY <1>1, <2>1, <2>2, <2>4, <3>5, <4>1 DEF Child, EventOps, ScriptOps
      <4>3. Top.step \in Looked
        BY <4>2 DEF Done
      <4>4. SameText(s)
        BY <1>1, <4>2, <4>3 DEF FreshTexts, LooksFresh, ScriptOps
      <4> QED BY <4>4 DEF Kept
    <3>6. m \in 1 .. Passed(e) \/ m = stack[e].i - 1
      BY <3>1, <3>3, <3>9
    <3> QED BY <3>4, <3>5, <3>6
  <2> QED BY <1>2, <2>3, <2>4
<1>6. stack' # <<>> => 1 \in 1 .. n - 1 /\ stack'[1] = stack[1] /\ stack # <<>>
  <2>1. stack' # <<>> => n # 1
    BY <1>2
  <2>2. n # 1 => 1 \in 1 .. n - 1
    <3>1. n \in Nat /\ n \in 1 .. n
      BY <1>1
    <3> HIDE DEF n
    <3> QED BY <3>1
  <2> QED BY <1>2, <2>1, <2>2
<1>7. ASSUME n = 1, NEW s \in ToSet(list) \ edited PROVE SameText(s)
  <2>1. Top.op \in {"event", "file", "config", "catchup"} /\ 1 \in 1 .. n /\ Top = stack[1]
    BY <1>1, <1>7 DEF Chain
  <2>2. CASE Top.op = "file"
    BY <2>1, <2>2 DEF FreshTexts, RestFresh
  <2>3. CASE Top.op = "event"
    <3>1. PICK m \in 1 .. Len(list) : list[m] = s
      BY <1>1, LensAre
    <3>2. Passed(1) = Top.i - 1 /\ Top.i > Len(list) /\ Top.i \in Nat /\ Len(list) \in Nat
      <4>1. 1 = Len(stack)
        BY <1>7
      <4>2. Passed(1) = stack[1].i - 1
        BY <4>1, PassedIs
      <4>3. Top.i > Len(list) /\ Top.i \in Nat /\ Len(list) \in Nat
        BY <1>1, <2>3, FurtherIs, LensAre DEF Done, Through, EventOps
      <4> QED BY <2>1, <4>2, <4>3
    <3>3. m \in 1 .. Passed(1)
      BY <3>1, <3>2
    <3>4. Outer(1) /\ Told(1, s)
      BY <2>1, <2>3, <3>1, <3>3 DEF Outer, Told
    <3> QED BY <1>3, <2>1, <3>4 DEF FreshTexts, ToldFresh
  <2>4. CASE Top.op = "config"
    <3>1. SameText(s) \/ ToStart(1, s)
      BY <2>1, <2>4 DEF FreshTexts, ConfigFresh, Done
    <3>2. ~ToStart(1, s)
      <4>1. Top.i > Len(start) /\ Top.i \in Nat /\ Len(start) \in Nat
        BY <1>1, <2>4, FurtherIs, LensAre DEF Done
      <4>2. \A m \in 1 .. Len(start) : ~(m >= stack[1].i)
        BY <2>1, <4>1
      <4>3. ~(1 < Len(stack))
        BY <1>7
      <4> QED BY <4>2, <4>3 DEF ToStart
    <3> QED BY <3>1, <3>2
  <2>5. CASE Top.op = "catchup"
    BY <1>7, <2>1, <2>5 DEF FreshTexts, CatchUpFresh
  <2> QED BY <2>1, <2>2, <2>3, <2>4, <2>5
<1>8. RestFresh'
  <2>1. CASE stack' = <<>>
    BY <1>2, <1>3, <1>7, <2>1 DEF RestFresh, Kept
  <2>2. CASE stack' # <<>>
    BY <1>3, <1>6, <2>2 DEF FreshTexts, RestFresh, Kept
  <2> QED BY <2>1, <2>2
<1>9. ConfigFresh'
  <2> SUFFICES ASSUME NEW k \in 1 .. n - 1, stack'[k].op = "config", stack'[k].step = "each",
                      NEW s \in ToSet(list)
               PROVE  SameText(s)' \/ ToStart(k, s)'
    BY <1>2 DEF ConfigFresh, Kept
  <2>1. k \in 1 .. n /\ stack'[k] = stack[k]
    BY <1>2
  <2>2. SameText(s) \/ ToStart(k, s)
    BY <2>1 DEF FreshTexts, ConfigFresh
  <2>3. CASE SameText(s)
    BY <1>3, <2>3 DEF Kept
  <2>4. ASSUME NEW m \in 1 .. Len(start), m >= stack[k].i, start[m] = s PROVE ToStart(k, s)'
    BY <2>1, <2>4 DEF ToStart, Kept
  <2>5. ASSUME k < Len(stack), stack[k + 1].step = "hash", stack[k + 1].s = s PROVE ToStart(k, s)'
    <3>1. k + 1 \in 1 .. n
      BY <1>1
    <3>2. k + 1 # n
      <4>1. stack[n].step # "hash"
        <5>1. Top.step = "hash" => Top.op \in ScriptOps
          BY <1>1, OnTop DEF HostInv, Fits, ScriptSteps
        <5> QED BY <1>1, <5>1 DEF Done
      <4> QED BY <2>5, <4>1
    <3>3. k + 1 \in 1 .. n - 1 /\ k < Len(stack')
      BY <1>1, <1>2, <3>1, <3>2
    <3>4. stack'[k + 1] = stack[k + 1]
      BY <1>2, <3>3
    <3> QED BY <2>5, <3>3, <3>4 DEF ToStart
  <2> QED BY <2>2, <2>3, <2>4, <2>5 DEF ToStart
<1>10. CatchUpFresh'
  <2> SUFFICES ASSUME stack' # <<>>, stack'[1].op = "catchup",
                      Len(stack') = 1 \/ stack'[2].op # "config", NEW s \in ToSet(list)
               PROVE  SameText(s)'
    BY DEF CatchUpFresh, Kept
  <2>1. stack[1].op = "catchup" /\ 1 \in 1 .. n - 1
    BY <1>6
  <2>2. CASE n = 2 /\ stack[2].op = "config"
    <3>1. Top = stack[2] /\ 2 \in 1 .. n
      BY <1>1, <2>2
    <3>2. SameText(s) \/ ToStart(2, s)
      BY <2>2, <3>1 DEF FreshTexts, ConfigFresh, Done
    <3>3. ~ToStart(2, s)
      <4>1. Top.i > Len(start) /\ Top.i \in Nat /\ Len(start) \in Nat
        BY <1>1, <2>2, <3>1, FurtherIs, LensAre DEF Done
      <4>2. \A m \in 1 .. Len(start) : ~(m >= stack[2].i)
        BY <3>1, <4>1
      <4>3. ~(2 < Len(stack))
        BY <2>2
      <4> QED BY <4>2, <4>3 DEF ToStart
    <3> QED BY <1>3, <3>2, <3>3 DEF Kept
  <2>3. CASE stack[2].op # "config"
    <3>1. SameText(s)
      BY <2>1, <2>3 DEF FreshTexts, CatchUpFresh
    <3> QED BY <1>3, <3>1 DEF Kept
  <2>4. CASE n # 2
    <3>1. 2 \in 1 .. n - 1 /\ Len(stack') # 1
      <4>1. n \in Nat /\ 1 \in 1 .. n - 1 /\ Len(stack') = n - 1
        BY <1>1, <1>2, <2>1
      <4> HIDE DEF n
      <4> QED BY <2>4, <4>1
    <3>2. stack'[2] = stack[2]
      BY <1>2, <3>1
    <3>3. SameText(s)
      BY <2>1, <3>1, <3>2 DEF FreshTexts, CatchUpFresh
    <3> QED BY <1>3, <3>3 DEF Kept
  <2> QED BY <2>2, <2>3, <2>4
<1> QED BY <1>4, <1>5, <1>8, <1>9, <1>10 DEF FreshTexts

TextsInv == TextsKept /\ FreshTexts
Between == {"compare", "mtime", "load"}

LEMMA TopFresh ==
  ASSUME HostInv, FreshTexts, stack # <<>>, Top.op \in ScriptOps
  PROVE  /\ Top.s \in Scripts /\ Top.s \in ToSet(list)
         /\ Top.step \in Looked => SameText(Top.s)
         /\ Top.step \in {"mtime", "load"} => hash[Top.s] = disk[Top.s].text
<1>1. Top = stack[Len(stack)] /\ Len(stack) \in 1 .. Len(stack)
  BY TopIs DEF HostInv, TypeOK
<1>2. Top.s \in Scripts /\ Top.s \in ToSet(list)
  BY OnTop DEF HostInv
<1> QED BY <1>1, <1>2 DEF FreshTexts, LooksFresh

LEMMA GotoTop ==
  ASSUME HostInv, Shape, stack # <<>>, Top.op \in ScriptOps, Top.step # "handler",
         NEW step \in ScriptSteps, Goto(step)
  PROVE  /\ stack' # <<>> /\ Top'.step = step
         /\ \A s \in Scripts : (Taking(s)' <=> s = Top.s) /\ (Taking(s) <=> s = Top.s)
<1>1. Top = stack[Len(stack)] /\ Len(stack) \in 1 .. Len(stack) /\ TypeOK /\ Chain
  BY TopIs DEF HostInv, TypeOK, Shape
<1>2. /\ Len(stack') = Len(stack) /\ stack' # <<>> /\ Like(Len(stack))
      /\ stack'[Len(stack)].step = step
  BY <1>1, GotoStack
<1>3. Top' = stack'[Len(stack')]
  BY DEF Top, Last
<1>4. Top'.op = Top.op /\ Top'.s = Top.s /\ Top'.step = step
  <2>1. PICK n : n = Len(stack)
    OBVIOUS
  <2>2. stack'[n].op = stack[n].op /\ stack'[n].s = stack[n].s
    BY <1>1, <2>1, GotoStack DEF Like
  <2> QED BY <1>1, <1>2, <1>3, <2>1, <2>2
<1> QED BY <1>2, <1>4 DEF Taking

\* A step that leaves the files and what is kept of them
LEMMA TextsSame ==
  ASSUME HostInv, TextsKept, UNCHANGED <<list, disk, mtime, hash>>,
         \A s \in Scripts : ctx'[s].text = ctx[s].text /\ (s \notin ToSet(list) => ctx'[s] = ctx[s]),
         stack = <<>> \/ Top.step \notin Between
  PROVE  TextsKept' /\ \A s \in Scripts : SameText(s)' = SameText(s)
<1>1. \A s \in Scripts : SameText(s)' = SameText(s)
  BY DEF SameText
<1>2. \A s \in Scripts : s \notin ToSet(list') => ctx'[s] = NoCtx /\ hash'[s] = NoText
  BY DEF TextsKept
<1>3. \A s \in Scripts : /\ mtime'[s] <= disk'[s].mtime
                         /\ mtime'[s] = disk'[s].mtime => SameText(s)'
                         /\ ctx'[s].text = hash'[s]
  <2> SUFFICES ASSUME NEW s \in Scripts
               PROVE  /\ mtime'[s] <= disk'[s].mtime
                      /\ mtime'[s] = disk'[s].mtime => SameText(s)'
                      /\ ctx'[s].text = hash'[s]
    OBVIOUS
  <2>1. ~(Taking(s) /\ Top.step = "compare") /\ ~(Taking(s) /\ Top.step \in {"mtime", "load"})
    BY DEF Taking, Between
  <2> QED BY <1>1, <2>1 DEF TextsKept
<1> QED BY <1>1, <1>2, <1>3 DEF TextsKept

\* The steps of one script that bring its text up to date
LEMMA LookFresh == ASSUME HostInv, Shape, TextsInv, Look PROVE TextsInv'
<1>1. /\ stack # <<>> /\ Top.op \in ScriptOps /\ Top.step = "look"
      /\ UNCHANGED <<disk, list, start, edited, ctx, hash>>
  BY DEF Look, At, ScriptOps
<1>2. Kept
  BY <1>1 DEF Kept, SameText
<1>3. PICK t \in Scripts : t = Top.s
  BY <1>1, TopFresh DEF TextsInv
<1>4. /\ \A s \in Scripts : s \notin ToSet(list) => ctx[s] = NoCtx /\ hash[s] = NoText
      /\ \A s \in Scripts : mtime[s] <= disk[s].mtime /\ ctx[s].text = hash[s]
                            /\ (mtime[s] = disk[s].mtime => SameText(s))
  BY <1>1 DEF TextsInv, TextsKept
<1>5. \A s \in Scripts : SameText(s)' = SameText(s)
  BY <1>1 DEF SameText
<1>6. disk[t].mtime \in Nat /\ mtime \in [Scripts -> 0 .. MaxEdits + 1]
  BY <1>3, PluginConstants DEF HostInv, TypeOK
<1>7. CASE Unchanged(t) /\ Goto("run") /\ UNCHANGED mtime
  <2>1. SameText(t)
    BY <1>4, <1>7 DEF Unchanged, SameText
  <2>2. FreshTexts'
    BY <1>1, <1>2, <1>3, <1>5, <1>7, <2>1, GotoFresh DEF TextsInv, ScriptSteps
  <2> QED BY <1>1, <1>4, <1>5, <1>7, <2>2 DEF TextsInv, TextsKept
<1>8. CASE Goto("compare") /\ mtime' = [mtime EXCEPT ![t] = disk[t].mtime]
  <2>1. FreshTexts'
    BY <1>1, <1>2, <1>3, <1>8, GotoFresh DEF TextsInv, ScriptSteps, Looked, LoadSteps
  <2>2. Taking(t)' /\ Top'.step = "compare"
    BY <1>1, <1>3, <1>8, GotoTop DEF ScriptSteps
  <2>3. \A s \in Scripts : mtime'[s] = IF s = t THEN disk[t].mtime ELSE mtime[s]
    BY <1>6, <1>8
  <2> QED BY <1>1, <1>4, <1>5, <1>6, <2>1, <2>2, <2>3 DEF TextsInv, TextsKept
<1> QED BY <1>3, <1>7, <1>8 DEF Look

LEMMA CompareFresh == ASSUME HostInv, Shape, TextsInv, Compare PROVE TextsInv'
<1>1. /\ stack # <<>> /\ Top.op \in ScriptOps /\ Top.step = "compare"
      /\ UNCHANGED <<disk, list, start, edited, mtime>>
  BY DEF Compare, At, ScriptOps
<1>3. PICK t \in Scripts : t = Top.s /\ t \in ToSet(list)
  BY <1>1, TopFresh DEF TextsInv
<1>4. /\ \A s \in Scripts : s \notin ToSet(list) => ctx[s] = NoCtx /\ hash[s] = NoText
      /\ \A s \in Scripts : mtime[s] <= disk[s].mtime /\ ctx[s].text = hash[s]
                            /\ (mtime[s] = disk[s].mtime => SameText(s) \/ s = t)
  BY <1>1, <1>3 DEF TextsInv, TextsKept, Taking
<1>7. CASE SameText(t) /\ Goto("run") /\ UNCHANGED <<hash, ctx, files, sfiles>>
  <2>1. Kept /\ \A s \in Scripts : SameText(s)' = SameText(s)
    BY <1>1, <1>7 DEF Kept, SameText
  <2>2. FreshTexts'
    BY <1>1, <1>3, <1>7, <2>1, GotoFresh DEF TextsInv, ScriptSteps
  <2> QED BY <1>1, <1>4, <1>7, <2>1, <2>2 DEF TextsInv, TextsKept
<1>8. CASE /\ Goto("load") /\ hash' = [hash EXCEPT ![t] = disk[t].text]
           /\ FreeContexts({t}, NewCtx)
  <2>1. /\ \A s \in Scripts : hash'[s] = IF s = t THEN disk[t].text ELSE hash[s]
        /\ \A s \in Scripts : s # t => ctx'[s] = ctx[s]
    BY <1>8 DEF HostInv, TypeOK, FreeContexts
  <2>2. /\ SameText(t)' /\ hash'[t] = disk'[t].text
        /\ \A s \in Scripts : s # t => SameText(s)' = SameText(s)
    BY <1>1, <2>1 DEF SameText
  <2>3. Kept
    BY <1>1, <2>2 DEF Kept
  <2>4. FreshTexts'
    BY <1>1, <1>3, <1>8, <2>2, <2>3, GotoFresh DEF TextsInv, ScriptSteps
  <2>5. Taking(t)' /\ Top'.step = "load"
    BY <1>1, <1>3, <1>8, GotoTop DEF ScriptSteps
  <2> QED BY <1>1, <1>3, <1>4, <2>1, <2>2, <2>4, <2>5 DEF TextsInv, TextsKept
<1> QED BY <1>3, <1>7, <1>8 DEF Compare

LEMMA StartHashFresh == ASSUME HostInv, Shape, TextsInv, StartHash PROVE TextsInv'
<1>1. /\ stack # <<>> /\ Top.op \in ScriptOps /\ Top.step = "hash" /\ Goto("mtime")
      /\ UNCHANGED <<disk, list, start, edited, mtime, ctx>>
  BY DEF StartHash, At, ScriptOps
<1>3. PICK t \in Scripts : t = Top.s /\ t \in ToSet(list)
  BY <1>1, TopFresh DEF TextsInv
<1>4. /\ \A s \in Scripts : s \notin ToSet(list) => ctx[s] = NoCtx /\ hash[s] = NoText
      /\ \A s \in Scripts : mtime[s] <= disk[s].mtime /\ ctx[s].text = hash[s]
                            /\ (mtime[s] = disk[s].mtime => SameText(s))
  BY <1>1, <1>3 DEF TextsInv, TextsKept
<1>5. \A s \in Scripts : hash'[s] = IF s = t THEN disk[t].text ELSE hash[s]
  BY <1>3 DEF HostInv, TypeOK, StartHash
<1>6. /\ SameText(t)' /\ hash'[t] = disk'[t].text
      /\ \A s \in Scripts : s # t => SameText(s)' = SameText(s)
  BY <1>1, <1>5 DEF SameText
<1>7. Kept
  BY <1>1, <1>6 DEF Kept
<1>8. FreshTexts'
  BY <1>1, <1>3, <1>6, <1>7, GotoFresh DEF TextsInv, ScriptSteps, Looked
<1>9. Taking(t)' /\ Top'.step = "mtime"
  BY <1>1, <1>3, GotoTop DEF ScriptSteps
<1> QED BY <1>1, <1>3, <1>4, <1>5, <1>6, <1>8, <1>9 DEF TextsInv, TextsKept

LEMMA StartTimeFresh == ASSUME HostInv, Shape, TextsInv, StartTime PROVE TextsInv'
<1>1. /\ stack # <<>> /\ Top.op \in ScriptOps /\ Top.step = "mtime" /\ Goto("load")
      /\ UNCHANGED <<disk, list, start, edited, hash>>
  BY DEF StartTime, At, ScriptOps
<1>3. PICK t \in Scripts : /\ t = Top.s /\ t \in ToSet(list) /\ SameText(t)
                           /\ hash[t] = disk[t].text
  BY <1>1, TopFresh DEF TextsInv, Looked
<1>4. /\ \A s \in Scripts : s \notin ToSet(list) => ctx[s] = NoCtx /\ hash[s] = NoText
      /\ \A s \in Scripts : mtime[s] <= disk[s].mtime /\ (ctx[s].text = hash[s] \/ s = t)
                            /\ (mtime[s] = disk[s].mtime => SameText(s))
  BY <1>1, <1>3 DEF TextsInv, TextsKept, Taking
<1>5. /\ \A s \in Scripts : s # t => mtime'[s] = mtime[s] /\ ctx'[s] = ctx[s]
      /\ mtime'[t] \in {0, disk[t].mtime} /\ disk[t].mtime \in Nat
  BY <1>3, PluginConstants DEF HostInv, TypeOK, StartTime, FreeContexts
<1>6. \A s \in Scripts : SameText(s)' = SameText(s)
  BY <1>1 DEF SameText
<1>7. Kept
  BY <1>1, <1>6 DEF Kept
<1>8. FreshTexts'
  BY <1>1, <1>3, <1>6, <1>7, GotoFresh DEF TextsInv, ScriptSteps
<1>9. Taking(t)' /\ Top'.step = "load"
  BY <1>1, <1>3, GotoTop DEF ScriptSteps
<1> QED BY <1>1, <1>3, <1>4, <1>5, <1>6, <1>8, <1>9 DEF TextsInv, TextsKept

LEMMA LoadScriptFresh == ASSUME HostInv, Shape, TextsInv, LoadScript PROVE TextsInv'
<1>1. /\ stack # <<>> /\ Top.op \in ScriptOps /\ Top.step = "load"
      /\ UNCHANGED <<disk, list, start, edited, hash, mtime>>
  BY DEF LoadScript, At, seenBy
<1>2. PICK step \in {"replay", "eval"} : Goto(step)
  BY DEF LoadScript
<1>3. PICK t \in Scripts : /\ t = Top.s /\ t \in ToSet(list) /\ SameText(t)
                           /\ hash[t] = disk[t].text
  BY <1>1, TopFresh DEF TextsInv, Looked, LoadSteps
<1>4. /\ \A s \in Scripts : s \notin ToSet(list) => ctx[s] = NoCtx /\ hash[s] = NoText
      /\ \A s \in Scripts : mtime[s] <= disk[s].mtime /\ (ctx[s].text = hash[s] \/ s = t)
                            /\ (mtime[s] = disk[s].mtime => SameText(s))
  BY <1>1, <1>3 DEF TextsInv, TextsKept, Taking
<1>5. /\ \A s \in Scripts : s # t => ctx'[s] = ctx[s]
      /\ ctx'[t].text = disk[t].text
  BY <1>3 DEF HostInv, TypeOK, LoadScript
<1>6. \A s \in Scripts : SameText(s)' = SameText(s)
  BY <1>1 DEF SameText
<1>7. Kept
  BY <1>1, <1>6 DEF Kept
<1>8. FreshTexts'
  BY <1>1, <1>2, <1>3, <1>6, <1>7, GotoFresh DEF TextsInv, ScriptSteps
<1> QED BY <1>1, <1>3, <1>4, <1>5, <1>6, <1>8 DEF TextsInv, TextsKept

\* The other steps of the engine, which leave the texts
LEMMA EngineFresh ==
  ASSUME HostInv, Shape, TextsInv,
         Evaluated \/ Replay \/ Run \/ Handled \/ Drive \/ EventScript \/ StartEach \/ CatchUpEach
         \/ EventEnd \/ \E p \in Paths : FileAdd(p) \/ FileRemove(p)
  PROVE  TextsInv'
<1>1. /\ stack # <<>> /\ UNCHANGED <<disk, list, start, edited, hash, mtime>>
      /\ Top.step \notin Between
  BY DEF Evaluated, Replay, Run, Handled, Drive, EventScript, StartEach, CatchUpEach, EventEnd,
         FileAdd, FileRemove, Running, At, seenBy, Between
<1>2. \A s \in Scripts : ctx'[s].text = ctx[s].text /\ (s \notin ToSet(list) => ctx'[s] = ctx[s])
  <2>1. CASE ctx' = ctx
    BY <2>1
  <2>2. CASE Run
    <3>1. Top.op \in ScriptOps
      BY <2>2 DEF Run, At, ScriptOps
    <3>2. PICK t \in Scripts : t = Top.s /\ t \in ToSet(list)
      BY <1>1, <3>1, TopFresh DEF TextsInv
    <3>3. PICK g : ctx' = ctx \/ ctx' = [ctx EXCEPT ![t].got = g]
      BY <2>2, <3>2 DEF Run
    <3>4. ctx \in [Scripts -> [live : BOOLEAN, text : Texts \cup {NoText}, got : Seq(Lifecycle)]]
      BY DEF HostInv, TypeOK
    <3> QED BY <3>2, <3>3, <3>4
  <2> QED BY <2>1, <2>2 DEF Evaluated, Replay, Handled, Drive, EventScript, StartEach,
                            CatchUpEach, EventEnd, FileAdd, FileRemove
<1>3. TextsKept' /\ \A s \in Scripts : SameText(s)' = SameText(s)
  BY <1>1, <1>2, TextsSame DEF TextsInv
<1>4. Kept
  BY <1>1, <1>3 DEF Kept
<1>5. SUFFICES FreshTexts'
  BY <1>3 DEF TextsInv
<1>6. /\ Top.op \in ScriptOps => /\ Top.s \in Scripts
                                 /\ Top.step \in Looked => SameText(Top.s)
      /\ Top \in CallType /\ Top.i \in Nat \ {0} /\ TypeOK
  BY <1>1, TopFresh, FurtherIs DEF TextsInv, HostInv
<1>7. ASSUME NEW step \in {"replay", "run", "handler"}, Goto(step), Top.op \in ScriptOps,
             Top.step \in Looked, Top.step # "handler"
      PROVE  FreshTexts'
  <2>1. PICK t : t = Top.s
    OBVIOUS
  <2>2. SameText(t)'
    BY <1>3, <1>6, <1>7, <2>1
  <2>3. step \in ScriptSteps /\ step \notin {"mtime", "load"} /\ Top.step # "hash"
    BY <1>7 DEF ScriptSteps, Looked, LoadSteps
  <2>4. FreshTexts
    BY DEF TextsInv
  <2> QED BY <1>1, <1>4, <1>7, <2>1, <2>2, <2>3, <2>4, GotoFresh
<1>8. CASE Evaluated
  BY <1>7, <1>8 DEF Evaluated, At, Looked, LoadSteps
<1>9. CASE Replay
  <2>1. Top.op \in ScriptOps /\ Top.step = "replay"
    BY <1>9 DEF Replay, At
  <2>2. CASE Top.i <= Len(eseen)
    <3>1. eseen[Top.i] \in Codes
      BY <1>6, <2>2, LensAre, PluginConstants
    <3>2. PICK c \in CallType : c = ScriptAction(Top.s, eseen[Top.i])
      BY <1>6, <2>1, <3>1, CallsAre
    <3>3. Each(c) /\ c.op = "action" /\ c.step = "look" /\ c.i = 1
      BY <1>9, <2>2, <3>2 DEF Replay, ScriptAction, Call
    <3> QED BY <1>1, <1>4, <2>1, <3>3, EachFresh DEF TextsInv, Looked, LoadSteps, ScriptOps
  <2>3. CASE Checked
    <3>1. CASE Return
      BY <1>1, <1>4, <2>1, <3>1, ReturnFresh DEF TextsInv, Done, ScriptOps, EventOps, Looked, LoadSteps
    <3>2. CASE Goto("run")
      BY <1>7, <2>1, <3>2 DEF Looked, LoadSteps
    <3> QED BY <2>3, <3>1, <3>2 DEF Checked
  <2> QED BY <1>9, <2>2, <2>3 DEF Replay
<1>10. CASE Run
  <2>1. Top.op \in ScriptOps /\ Top.step = "run"
    BY <1>10 DEF Run, At, ScriptOps
  <2>2. CASE Return
    BY <1>1, <1>4, <2>1, <2>2, ReturnFresh DEF TextsInv, Done, ScriptOps, EventOps, Looked
  <2>3. CASE Goto("handler")
    BY <1>7, <2>1, <2>3 DEF Looked
  <2> QED BY <1>10, <2>2, <2>3 DEF Run
<1>11. CASE Handled
  <2>1. Top.op \in ScriptOps /\ Top.step = "handler" /\ Return
    BY <1>11 DEF Handled, At, ScriptOps
  <2> QED BY <1>1, <1>4, <2>1, ReturnFresh DEF TextsInv, Done, ScriptOps, EventOps, Looked
<1>12. CASE Drive
  BY <1>1, <1>4, <1>12, PushFresh DEF TextsInv, Drive, At
<1>13. CASE EventScript
  <2>1. Top.op \in EventOps /\ Top.step = "each" /\ Top.i <= Len(list)
    BY <1>13 DEF EventScript, At, EventOps
  <2>2. list[Top.i] \in Scripts
    BY <1>6, <2>1, LensAre
  <2>3. Top.arg \in Codes
    BY <1>1, <2>1, OnTop DEF HostInv, Fits, EventOps
  <2>4. PICK c \in CallType : c = ScriptAction(list[Top.i], Top.arg)
    BY <2>2, <2>3, CallsAre
  <2>5. Each(c) /\ c.op = "action" /\ c.step = "look" /\ c.i = 1
    BY <1>13, <2>4 DEF EventScript, ScriptAction, Call
  <2> QED BY <1>1, <1>4, <2>1, <2>5, EachFresh DEF TextsInv, Looked, LoadSteps, EventOps
<1>14. CASE EventEnd
  <2>1. Top.op \in EventOps /\ Through /\ Return
    BY <1>14 DEF EventEnd, At, EventOps, Through
  <2> QED BY <1>1, <1>4, <2>1, ReturnFresh DEF TextsInv, Done, ScriptOps, EventOps
<1>15. CASE StartEach
  <2>1. Top.op = "config" /\ Top.step = "each"
    BY <1>15 DEF StartEach, At
  <2>2. CASE Top.i <= Len(start)
    <3>1. start[Top.i] \in Scripts /\ Top.i \in 1 .. Len(start)
      BY <1>6, <2>2, LensAre
    <3>2. PICK c \in CallType : c = StartScript(start[Top.i])
      BY <3>1, CallsAre
    <3>3. Each(c) /\ c.op = "start" /\ c.step = "hash" /\ c.i = 1 /\ c.s = start[Top.i]
      BY <1>15, <2>2, <3>2 DEF StartEach, StartScript, Call
    <3> QED BY <1>1, <1>4, <2>1, <3>1, <3>3, EachFresh DEF TextsInv, Looked, LoadSteps
  <2>3. CASE ~(Top.i <= Len(start))
    <3>1. Return /\ Top.i > Len(start)
      BY <1>6, <1>15, <2>3, LensAre DEF StartEach
    <3> QED BY <1>1, <1>4, <2>1, <3>1, ReturnFresh DEF TextsInv, Done, ScriptOps, EventOps
  <2> QED BY <2>2, <2>3
<1>16. CASE CatchUpEach
  <2>1. Top.op = "catchup" /\ Top.step = "each"
    BY <1>16 DEF CatchUpEach, At
  <2>2. CASE Top.i <= Len(hseen)
    <3>1. hseen[Top.i] \in Codes
      BY <1>6, <2>2, LensAre, PluginConstants
    <3>2. PICK c \in CallType : c = CatchUpEvent(hseen[Top.i])
      BY <3>1, CallsAre
    <3>3. Each(c) /\ c.op = "catchup_event" /\ c.step = "each" /\ c.i = 1
      BY <1>16, <2>2, <3>2 DEF CatchUpEach, CatchUpEvent, Call
    <3> QED BY <1>1, <1>4, <2>1, <3>3, EachFresh DEF TextsInv, Looked, LoadSteps
  <2>3. CASE Return
    BY <1>1, <1>4, <2>1, <2>3, ReturnFresh DEF TextsInv, Done, ScriptOps, EventOps
  <2> QED BY <1>16, <2>2, <2>3 DEF CatchUpEach
<1>17. CASE \E p \in Paths : FileAdd(p) \/ FileRemove(p)
  <2>1. stack' = stack /\ UNCHANGED <<disk, list, start, edited, hash>>
    BY <1>1, <1>17 DEF FileAdd, FileRemove
  <2> QED BY <2>1 DEF TextsInv, FreshTexts, LooksFresh, ToldFresh, RestFresh, ConfigFresh,
                      CatchUpFresh, SameText, Told, Outer, Passed, ToStart
<1> QED BY <1>8, <1>9, <1>10, <1>11, <1>12, <1>13, <1>14, <1>15, <1>16, <1>17

\* config_set(): what is not started is kept as it runs.
LEMMA SetScriptsFresh == ASSUME HostInv, Shape, TextsInv, SetScripts PROVE TextsInv'
<1>1. /\ stack # <<>> /\ Top.op = "config" /\ Top.step = "set" /\ Goto("each") /\ TypeOK
      /\ UNCHANGED <<disk, edited>> /\ stack \in Seq(CallType)
  BY DEF SetScripts, At, HostInv, TypeOK
<1>2. start \in Seq(Scripts) /\ list \in Seq(Scripts) /\ ToSet(start) \subseteq Scripts
      /\ ToSet(list) \subseteq Scripts
  BY <1>1, ToSetIs DEF TypeOK
<1>3. list' \in Seq(Scripts) /\ ToSet(list') = ToSet(start)
  <2>1. list' \in Ordered(ToSet(start), start)
    BY DEF SetScripts
  <2> QED BY <1>2, <2>1, OrderedIs
<1>4. start' \in Seq(Scripts)
      /\ ToSet(start') = {s \in ToSet(start) : ~ctx[s].live \/ disk[s].text # hash[s]}
  <2> DEFINE S == {s \in ToSet(start) : ~ctx[s].live \/ disk[s].text # hash[s]}
  <2>1. start' \in Ordered(S, start) /\ S \in SUBSET ToSet(start)
    BY DEF SetScripts
  <2> HIDE DEF S
  <2>2. start' \in Seq(Scripts) /\ ToSet(start') = S
    BY <1>2, <2>1, OrderedIs
  <2> QED BY <2>2 DEF S
<1>5. \A s \in Scripts :
        IF s \in Stopped(list') THEN ctx'[s] = NoCtx /\ hash'[s] = NoText /\ mtime'[s] = 0
        ELSE ctx'[s] = ctx[s] /\ hash'[s] = hash[s] /\ mtime'[s] = mtime[s]
  BY DEF SetScripts, FreeContexts
<1>6. \A s \in Scripts : s \in Stopped(list') <=> s \in ToSet(list) /\ s \notin ToSet(list')
  BY DEF Stopped
<1>7. /\ \A s \in Scripts : s \notin ToSet(list) => ctx[s] = NoCtx /\ hash[s] = NoText
      /\ \A s \in Scripts : mtime[s] <= disk[s].mtime /\ ctx[s].text = hash[s]
                            /\ (mtime[s] = disk[s].mtime => SameText(s))
  BY <1>1 DEF TextsInv, TextsKept, Taking, ScriptOps
<1>8. \A s \in Scripts : 0 <= disk[s].mtime /\ disk[s].mtime # 0
  BY <1>1, PluginConstants DEF TypeOK
<1>9. TextsKept'
  <2>1. \A s \in Scripts : s \notin ToSet(list') => ctx'[s] = NoCtx /\ hash'[s] = NoText
    BY <1>5, <1>6, <1>7
  <2>2. \A s \in Scripts : /\ mtime'[s] <= disk'[s].mtime /\ ctx'[s].text = hash'[s]
                           /\ mtime'[s] = disk'[s].mtime => SameText(s)'
    <3> SUFFICES ASSUME NEW s \in Scripts
                 PROVE  /\ mtime'[s] <= disk'[s].mtime /\ ctx'[s].text = hash'[s]
                        /\ mtime'[s] = disk'[s].mtime => SameText(s)'
      OBVIOUS
    <3>1. CASE s \in Stopped(list')
      BY <1>1, <1>5, <1>8, <3>1 DEF NoCtx
    <3>2. CASE s \notin Stopped(list')
      BY <1>1, <1>5, <1>7, <3>2 DEF SameText
    <3> QED BY <3>1, <3>2
  <2> QED BY <2>1, <2>2 DEF TextsKept
<1> DEFINE n == Len(stack)
<1>10. /\ n \in {1, 2} /\ Top = stack[n] /\ Top \in CallType
       /\ n = 2 => stack[1].op = "catchup"
  BY <1>1, ConfigIs DEF HostInv
<1>11. /\ Len(stack') = n /\ \A k \in 1 .. n : k # n => stack'[k] = stack[k]
       /\ stack'[n] = [Top EXCEPT !.step = "each", !.i = 1]
  BY <1>1, <1>10, GotoIs DEF Steps
<1>12. stack'[n].op = "config" /\ stack'[n].step = "each" /\ stack'[n].i = 1
  BY <1>1, <1>10, <1>11 DEF CallType
<1>13. \A k \in 1 .. n : stack'[k].op \in {"config", "catchup"} /\ (stack'[k].op = "config" => k = n)
  <2> SUFFICES ASSUME NEW k \in 1 .. n, k # n PROVE stack'[k].op = "catchup"
    BY <1>12
  <2>1. k = 1 /\ n = 2
    BY <1>10
  <2> QED BY <1>10, <1>11, <2>1
<1>14. LooksFresh' /\ ToldFresh'
  BY <1>11, <1>13 DEF LooksFresh, ToldFresh, Outer, ScriptOps
<1>15. stack' # <<>> /\ 1 \in 1 .. n /\ stack'[1].op # "file"
  <2>1. 1 \in 1 .. n
    BY <1>10
  <2>2. stack' # <<>>
    BY <1>10, <1>11
  <2> QED BY <1>13, <2>1, <2>2
<1>16. RestFresh'
  BY <1>15 DEF RestFresh
<1>17. CatchUpFresh'
  <2>1. stack'[1].op = "catchup" => n = 2 /\ stack'[2].op = "config"
    BY <1>10, <1>12
  <2> QED BY <1>11, <2>1 DEF CatchUpFresh
<1>18. ConfigFresh'
  <2> SUFFICES ASSUME NEW s \in ToSet(list')
               PROVE  SameText(s)' \/ \E m \in 1 .. Len(start') : m >= 1 /\ start'[m] = s
    <3>1. \A k \in 1 .. n : stack'[k].op = "config" => k = n /\ stack'[k].i = 1
      BY <1>12, <1>13
    <3> QED BY <1>11, <3>1 DEF ConfigFresh, ToStart
  <2>1. s \in Scripts /\ s \in ToSet(start) /\ s \notin Stopped(list')
    BY <1>2, <1>3 DEF Stopped
  <2>2. CASE ~ctx[s].live \/ disk[s].text # hash[s]
    <3>1. s \in ToSet(start')
      BY <1>4, <2>1, <2>2
    <3>2. ToSet(start') = {start'[m] : m \in 1 .. Len(start')}
      BY <1>4, ToSetIs
    <3>3. PICK m \in 1 .. Len(start') : start'[m] = s
      BY <3>1, <3>2
    <3> QED BY <3>3
  <2>3. CASE disk[s].text = hash[s]
    BY <1>1, <1>5, <2>1, <2>3 DEF SameText
  <2> QED BY <2>2, <2>3
<1> QED BY <1>9, <1>14, <1>16, <1>17, <1>18 DEF TextsInv, FreshTexts

\* The calls that begin: no script has been looked at.
Started(c) ==
  /\ c.i = 1
  /\ <<c.op, c.step>> \in {<<"event", "each">>, <<"file", "look">>, <<"config", "set">>,
                           <<"catchup", "each">>}

LEMMA StartedCalls ==
  /\ Started(CatchUp) /\ CatchUp.op = "catchup"
  /\ Started(ConfigSet) /\ ConfigSet.op = "config"
  /\ \A c \in Codes : Started(HostEvent(c)) /\ HostEvent(c).op = "event"
  /\ \A s \in Scripts, p \in Paths : Started(CallFile(s, p)) /\ CallFile(s, p).op = "file"
  BY DEF Started, CatchUp, ConfigSet, HostEvent, CallFile, Call

LEMMA StartedStack ==
  ASSUME \/ stack' = <<>>
         \/ \E c : stack' = <<c>> /\ Started(c)
         \/ stack' = <<CatchUp, ConfigSet>>
  PROVE  /\ \A k \in 1 .. Len(stack') : Started(stack'[k])
         /\ \A k \in 1 .. Len(stack') : Outer(k)' => Passed(k)' = 0
<1>1. CASE stack' = <<>>
  BY <1>1
<1>2. ASSUME NEW c, stack' = <<c>>, Started(c)
      PROVE  /\ \A k \in 1 .. Len(stack') : Started(stack'[k])
             /\ \A k \in 1 .. Len(stack') : Passed(k)' = 0
  <2>1. Len(stack') = 1 /\ stack'[1] = c
    BY <1>2, ZenonT(10)
  <2>2. \A k \in 1 .. 1 : k = 1
    OBVIOUS
  <2>3. 1 = Len(stack') /\ stack'[1].i = 1
    BY <1>2, <2>1 DEF Started
  <2>4. Passed(1)' = 0
    BY <2>3, PassedIs
  <2> QED BY <1>2, <2>1, <2>2, <2>4
<1>3. CASE stack' = <<CatchUp, ConfigSet>>
  <2>1. PICK a, b : a = CatchUp /\ b = ConfigSet
    OBVIOUS
  <2>2. Len(stack') = 2 /\ stack'[1] = a /\ stack'[2] = b
    BY <1>3, <2>1
  <2>3. \A k \in 1 .. 2 : k = 1 \/ k = 2
    OBVIOUS
  <2>4. Started(a) /\ Started(b) /\ a.op = "catchup" /\ b.op = "config"
    BY <2>1, StartedCalls
  <2>5. \A k \in 1 .. 2 : ~Outer(k)'
    BY <2>2, <2>3, <2>4 DEF Outer
  <2> QED BY <2>2, <2>3, <2>4, <2>5
<1> QED BY <1>1, <1>2, <1>3

LEMMA StartedFresh ==
  ASSUME \A k \in 1 .. Len(stack') : Started(stack'[k]),
         \A k \in 1 .. Len(stack') : Outer(k)' => Passed(k)' = 0
  PROVE  LooksFresh' /\ ToldFresh' /\ ConfigFresh'
<1>1. LooksFresh'
  BY DEF LooksFresh, Started, Looked, LoadSteps
<1>2. ToldFresh'
  <2> SUFFICES ASSUME NEW e \in 1 .. Len(stack'), Outer(e)', NEW s \in Scripts, Told(e, s)'
               PROVE  FALSE
    BY DEF ToldFresh
  <2>1. PICK m \in 1 .. Passed(e)' : TRUE
    BY DEF Told
  <2>2. Passed(e)' = 0
    OBVIOUS
  <2> QED BY <2>1, <2>2
<1>3. ConfigFresh'
  BY DEF ConfigFresh, Started
<1> QED BY <1>1, <1>2, <1>3

\* Nothing changes but the calls.
LEMMA QuietFresh ==
  ASSUME HostInv, TextsInv, stack = <<>>, UNCHANGED <<disk, list, ctx, hash, mtime>>,
         \/ stack' = <<>> /\ edited' = edited
         \/ \E c : /\ stack' = <<c>> /\ Started(c) /\ c.op # "catchup"
                   /\ c.op = "file" => edited' = edited
  PROVE  TextsInv'
<1>1. TextsKept' /\ \A s \in Scripts : SameText(s)' = SameText(s)
  BY TextsSame DEF TextsInv
<1>2. LooksFresh' /\ ToldFresh' /\ ConfigFresh'
  BY StartedStack, StartedFresh
<1>3. \A s \in ToSet(list) : s \in Scripts
  BY LensAre DEF HostInv
<1>4. stack' # <<>> => stack'[1].op # "catchup" /\ (stack'[1].op = "file" => edited' = edited)
  <2> SUFFICES ASSUME NEW c, stack' = <<c>>, c.op # "catchup", c.op = "file" => edited' = edited
               PROVE  stack'[1].op # "catchup" /\ (stack'[1].op = "file" => edited' = edited)
    OBVIOUS
  <2>1. stack'[1] = c
    OBVIOUS
  <2> QED BY <2>1
<1>5. CatchUpFresh'
  BY <1>4 DEF CatchUpFresh
<1>6. RestFresh'
  BY <1>1, <1>3, <1>4 DEF RestFresh, TextsInv, FreshTexts
<1> QED BY <1>1, <1>2, <1>5, <1>6 DEF TextsInv, FreshTexts

\* No script is left.
LEMMA EmptyFresh ==
  ASSUME HostInv, TextsInv, NothingKept, disk' = disk,
         Unload \/ (list = <<>> /\ ctx' = ctx),
         \/ stack' = <<>>
         \/ stack' = <<CatchUp>>
         \/ stack' = <<CatchUp, ConfigSet>>
  PROVE  TextsInv'
<1>1. /\ list' = <<>> /\ ToSet(list') = {}
      /\ \A s \in Scripts : hash'[s] = NoText /\ mtime'[s] = 0
  BY DEF NothingKept, ToSet
<1>2. \A s \in Scripts : ctx'[s] = NoCtx
  <2>1. CASE Unload
    BY <2>1 DEF Unload
  <2>2. CASE list = <<>> /\ ctx' = ctx
    BY <2>2 DEF TextsInv, TextsKept, ToSet
  <2> QED BY <2>1, <2>2
<1>3. \A s \in Scripts : disk[s].mtime \in Nat \ {0}
  BY PluginConstants DEF HostInv, TypeOK
<1>4. TextsKept'
  <2>1. ASSUME NEW s \in Scripts
        PROVE  /\ ctx'[s] = NoCtx /\ hash'[s] = NoText /\ ctx'[s].text = hash'[s]
               /\ mtime'[s] <= disk'[s].mtime /\ mtime'[s] # disk'[s].mtime
    <3>1. ctx'[s] = NoCtx /\ hash'[s] = NoText /\ mtime'[s] = 0 /\ disk'[s] = disk[s]
      BY <1>1, <1>2
    <3>2. NoCtx.text = NoText
      BY DEF NoCtx
    <3> QED BY <3>1, <3>2, <1>3
  <2> QED BY <2>1 DEF TextsKept
<1>5. LooksFresh' /\ ToldFresh' /\ ConfigFresh'
  BY StartedCalls, StartedStack, StartedFresh
<1>6. RestFresh' /\ CatchUpFresh'
  BY <1>1 DEF RestFresh, CatchUpFresh
<1> QED BY <1>4, <1>5, <1>6 DEF TextsInv, FreshTexts

LEMMA HostFresh == ASSUME HostInv, TextsInv, Host PROVE TextsInv'
<1>1. CASE Initialized \/ Ready \/ Event
  <2>1. PICK c \in Codes : Begin(c)
    BY <1>1 DEF Initialized, Ready, Event, Codes, Lifecycle
  <2>2. PICK e : e = HostEvent(c)
    OBVIOUS
  <2>3. Started(e) /\ e.op = "event"
    BY <2>2, StartedCalls
  <2>4. stack = <<>> /\ stack' = <<e>> /\ UNCHANGED <<disk, list, ctx, hash, mtime>>
    BY <2>1, <2>2 DEF Begin, Idle, seenBy
  <2> QED BY <2>3, <2>4, QuietFresh
<1>2. CASE LoadConfig
  <2>1. stack = <<>> /\ list = <<>> /\ UNCHANGED <<disk, ctx, edited>>
    BY <1>2 DEF LoadConfig, HostInv, EngineUp
  <2>2. CASE PluginInit /\ stack' = <<CatchUp, ConfigSet>>
    BY <2>1, <2>2, EmptyFresh DEF PluginInit
  <2>3. CASE UNCHANGED <<loaded, lib, list, eseen, seenBy, start, stack>>
    BY <2>1, <2>3, QuietFresh DEF seenBy
  <2> QED BY <1>2, <2>2, <2>3 DEF LoadConfig
<1>3. CASE NotReady
  BY <1>3, QuietFresh DEF NotReady, seenBy
<1>4. CASE Add
  <2>1. list = <<>>
    BY <1>4 DEF Add, HostInv, EngineUp
  <2> QED BY <1>4, <2>1, EmptyFresh DEF Add, PluginInit
<1>5. CASE RemovePlugin
  BY <1>5, EmptyFresh DEF RemovePlugin, Idle
<1>6. CASE Reload
  <2>1. stack = <<>> /\ UNCHANGED <<disk, edited>>
    BY <1>6 DEF Reload, Idle
  <2>2. CASE stack' = <<ConfigSet>> /\ UNCHANGED <<loaded, lib, files, list, eseen, ctx, seenBy, sfiles>>
    <3>1. PICK c : c = ConfigSet
      OBVIOUS
    <3>2. stack' = <<c>> /\ Started(c) /\ c.op = "config"
      BY <2>2, <3>1, StartedCalls
    <3> QED BY <2>1, <2>2, <3>2, QuietFresh DEF seenBy
  <2>3. CASE Unload /\ PluginInit /\ stack' = <<CatchUp, ConfigSet>>
    BY <2>1, <2>3, EmptyFresh DEF PluginInit
  <2>4. CASE Unload /\ NothingKept /\ UNCHANGED <<lib, stack>>
    BY <2>1, <2>4, EmptyFresh
  <2> QED BY <1>6, <2>2, <2>3, <2>4 DEF Reload
<1>7. ASSUME NEW p \in Paths, FileCall(p) PROVE TextsInv'
  <2>1. PICK s \in Scripts : stack' = <<CallFile(s, p)>>
    BY <1>7 DEF FileCall, ScriptOwning
  <2>2. PICK c : c = CallFile(s, p)
    OBVIOUS
  <2>3. stack' = <<c>> /\ Started(c) /\ c.op = "file"
    BY <2>1, <2>2, StartedCalls
  <2> QED BY <1>7, <2>3, QuietFresh DEF FileCall, Idle, seenBy
<1> QED BY <1>1, <1>2, <1>3, <1>4, <1>5, <1>6, <1>7 DEF Host

LEMMA SameFresh ==
  ASSUME TextsInv, UNCHANGED <<stack, disk, list, start, edited, hash, mtime, ctx>>
  PROVE  TextsInv'
<1>1. TextsKept'
  BY DEF TextsInv, TextsKept, SameText, Taking, Top
<1>2. FreshTexts'
  BY DEF TextsInv, FreshTexts, LooksFresh, ToldFresh, RestFresh, ConfigFresh, CatchUpFresh,
         SameText, Told, Outer, Passed, ToStart
<1> QED BY <1>1, <1>2 DEF TextsInv

\* A script is edited with no call under way.
LEMMA EditFresh ==
  ASSUME ~EditMeanwhile, HostInv, TextsInv, NEW t \in Scripts, NEW new \in Texts \cup {NoText},
         Edit(t, new)
  PROVE  TextsInv'
<1>1. /\ stack = <<>> /\ stack' = <<>> /\ edited' = edited \cup {t}
      /\ UNCHANGED <<list, ctx, hash, mtime>>
  BY DEF Edit, seenBy
<1>2. /\ \A s \in Scripts : s # t => disk'[s] = disk[s]
      /\ disk'[t].mtime = disk[t].mtime + 1 /\ disk[t].mtime \in Nat /\ mtime[t] \in Nat
  BY PluginConstants DEF HostInv, TypeOK, Edit
<1>3. /\ \A s \in Scripts : s \notin ToSet(list) => ctx[s] = NoCtx /\ hash[s] = NoText
      /\ \A s \in Scripts : mtime[s] <= disk[s].mtime /\ ctx[s].text = hash[s]
                            /\ (mtime[s] = disk[s].mtime => SameText(s))
  BY <1>1 DEF TextsInv, TextsKept, Taking
<1>4. \A s \in Scripts : s # t => SameText(s)' = SameText(s)
  BY <1>1, <1>2 DEF SameText
<1>5. mtime'[t] <= disk'[t].mtime /\ mtime'[t] # disk'[t].mtime
  BY <1>1, <1>2, <1>3
<1>6. TextsKept'
  BY <1>1, <1>2, <1>3, <1>4, <1>5 DEF TextsKept
<1>7. LooksFresh' /\ ToldFresh' /\ ConfigFresh'
  BY <1>1, StartedStack, StartedFresh
<1>8. CatchUpFresh'
  BY <1>1 DEF CatchUpFresh
<1>9. \A s \in ToSet(list) : s \in Scripts
  BY LensAre DEF HostInv
<1>10. RestFresh'
  BY <1>1, <1>4, <1>9 DEF RestFresh, TextsInv, FreshTexts
<1> QED BY <1>6, <1>7, <1>8, <1>10 DEF TextsInv, FreshTexts

LEMMA FreshInit == ASSUME Init PROVE TextsInv
<1>1. /\ stack = <<>> /\ list = <<>> /\ ToSet(list) = {}
      /\ \A s \in Scripts : ctx[s] = NoCtx /\ hash[s] = NoText /\ mtime[s] = 0 /\ disk[s].mtime = 1
  <2>1. /\ stack = <<>> /\ list = <<>>
        /\ \A s \in Scripts : ctx[s] = NoCtx /\ hash[s] = NoText /\ mtime[s] = 0
    BY DEF Init
  <2>2. disk \in [Scripts -> [text : Texts \cup {NoText}, mtime : {1}]]
    BY DEF Init
  <2>3. \A s \in Scripts : disk[s].mtime = 1
    BY <2>2
  <2>4. ToSet(list) = {}
    BY <2>1 DEF ToSet
  <2> QED BY <2>1, <2>3, <2>4
<1>2. TextsKept
  <2>1. NoCtx.text = NoText
    BY DEF NoCtx
  <2> QED BY <1>1, <2>1 DEF TextsKept
<1>3. FreshTexts
  BY <1>1 DEF FreshTexts, LooksFresh, ToldFresh, RestFresh, ConfigFresh, CatchUpFresh
<1> QED BY <1>2, <1>3 DEF TextsInv

LEMMA StepFresh ==
  ASSUME ~EditMeanwhile, HostInv, Shape, TextsInv, [Next]_vars
  PROVE  TextsInv'
<1>1. CASE Engine
  BY <1>1, LookFresh, CompareFresh, StartHashFresh, StartTimeFresh, LoadScriptFresh, EngineFresh,
     SetScriptsFresh DEF Engine
<1>2. CASE Outside
  <2>1. ASSUME NEW s \in Scripts, NEW t \in Texts \cup {NoText}, Edit(s, t) PROVE TextsInv'
    BY <2>1, EditFresh
  <2>2. CASE ~\E s \in Scripts, t \in Texts \cup {NoText} : Edit(s, t)
    BY <1>2, <2>2, SameFresh DEF Outside, OtherFile, Build, seenBy
  <2> QED BY <2>1, <2>2
<1>3. CASE UNCHANGED vars
  BY <1>3, SameFresh DEF vars, seenBy
<1> QED BY <1>1, <1>2, <1>3, HostFresh DEF Next

(***************************************************************************)
(* What the scripts have got                                               *)
(***************************************************************************)

\* Nothing changes for a script: what it got, what it loads, what it was told.
SameLoads(s) ==
  /\ \A k \in 1 .. Len(stack') : Loads(k, s)' => k \in 1 .. Len(stack) /\ Loads(k, s)
  /\ \A k \in 1 .. Len(stack) : Loads(k, s) =>
       /\ k \in 1 .. Len(stack') /\ Loads(k, s)' /\ stack'[k].step = stack[k].step
       /\ stack[k].step = "replay" => Passed(k)' = Passed(k)
SameTold(s) ==
  /\ \A e \in 1 .. Len(stack') : Outer(e)' /\ Told(e, s)' =>
       e \in 1 .. Len(stack) /\ Outer(e) /\ Told(e, s) /\ stack'[e].arg = stack[e].arg
  /\ \A e \in 1 .. Len(stack) : Outer(e) /\ Told(e, s) =>
       e \in 1 .. Len(stack') /\ Outer(e)' /\ Told(e, s)'

LEMMA SameGiven ==
  ASSUME NEW s, GivenTo(s), eseen' = eseen, ctx'[s] = ctx[s], SameLoads(s), SameTold(s)
  PROVE  GivenTo(s)'
<1>1. HasHandler(s)' = HasHandler(s)
  BY DEF HasHandler
<1>2. ASSUME NEW k \in 1 .. Len(stack'), Loads(k, s)'
      PROVE  /\ stack'[k].step \in {"load", "eval"} => ctx'[s].got = <<>>
             /\ stack'[k].step = "replay" /\ HasHandler(s)' => ctx'[s].got = SubSeq(eseen', 1, Passed(k)')
             /\ \A m \in 1 .. Len(stack') : Loads(m, s)' => m = k
             /\ \A e \in 1 .. Len(stack') : Outer(e)' => ~Told(e, s)'
  <2>1. k \in 1 .. Len(stack) /\ Loads(k, s)
    BY <1>2 DEF SameLoads
  <2>2. stack'[k].step = stack[k].step /\ (stack[k].step = "replay" => Passed(k)' = Passed(k))
    BY <2>1 DEF SameLoads
  <2>3. /\ stack[k].step \in {"load", "eval"} => ctx[s].got = <<>>
        /\ stack[k].step = "replay" /\ HasHandler(s) => ctx[s].got = SubSeq(eseen, 1, Passed(k))
        /\ \A m \in 1 .. Len(stack) : Loads(m, s) => m = k
        /\ \A e \in 1 .. Len(stack) : Outer(e) => ~Told(e, s)
    BY <2>1 DEF GivenTo
  <2>4. \A m \in 1 .. Len(stack') : Loads(m, s)' => m = k
    BY <2>3 DEF SameLoads
  <2>5. \A e \in 1 .. Len(stack') : Outer(e)' => ~Told(e, s)'
    BY <2>3 DEF SameTold
  <2> QED BY <1>1, <2>2, <2>3, <2>4, <2>5
<1>3. ASSUME HasHandler(s)', \A k \in 1 .. Len(stack') : ~Loads(k, s)'
      PROVE  /\ \A e \in 1 .. Len(stack') : Outer(e)' /\ Told(e, s)' =>
                  ctx'[s].got = Got(eseen', stack'[e].arg)
             /\ (\A e \in 1 .. Len(stack') : Outer(e)' => ~Told(e, s)') => ctx'[s].got = eseen'
  <2>1. \A k \in 1 .. Len(stack) : ~Loads(k, s)
    BY <1>3 DEF SameLoads
  <2>2. /\ \A e \in 1 .. Len(stack) : Outer(e) /\ Told(e, s) => ctx[s].got = Got(eseen, stack[e].arg)
        /\ (\A e \in 1 .. Len(stack) : Outer(e) => ~Told(e, s)) => ctx[s].got = eseen
    BY <1>1, <1>3, <2>1 DEF GivenTo
  <2>3. ASSUME NEW e \in 1 .. Len(stack'), Outer(e)', Told(e, s)'
        PROVE  ctx'[s].got = Got(eseen', stack'[e].arg)
    <3>1. e \in 1 .. Len(stack) /\ Outer(e) /\ Told(e, s) /\ stack'[e].arg = stack[e].arg
      BY <2>3 DEF SameTold
    <3> QED BY <2>2, <3>1
  <2>4. ASSUME \A e \in 1 .. Len(stack') : Outer(e)' => ~Told(e, s)' PROVE ctx'[s].got = eseen'
    <3>1. \A e \in 1 .. Len(stack) : Outer(e) => ~Told(e, s)
      BY <2>4 DEF SameTold
    <3> QED BY <2>2, <3>1
  <2> QED BY <2>3, <2>4
<1> QED BY <1>2, <1>3 DEF GivenTo

LEMMA ToldSame ==
  ASSUME NEW e, NEW s, list' = list, Passed(e)' = Passed(e)
  PROVE  Told(e, s)' <=> Told(e, s)
  BY DEF Told

LEMMA LoadsLike ==
  ASSUME NEW k, NEW s, Like(k), stack'[k].step = stack[k].step
  PROVE  Loads(k, s)' <=> Loads(k, s)
  BY DEF Loads, Like

\* An event is of the outside only if no script's call is below or on it.
LEMMA OuterIs ==
  ASSUME TypeOK, Chain, NEW e \in 1 .. Len(stack), Outer(e)
  PROVE  /\ stack[e].op \in EventOps /\ stack[e].op \notin ScriptOps
         /\ \A f \in 1 .. Len(stack) : Outer(f) => f = e
         /\ \A k \in 1 .. Len(stack) : k <= e => \A s : ~Loads(k, s)
<1>1. /\ stack[e].op = "catchup_event" => e = 2 /\ stack[1].op = "catchup"
      /\ stack[e].op = "event" => e = 1
  BY WhereIs DEF Outer
<1>2. stack[e].op \in EventOps /\ stack[e].op \notin ScriptOps
  BY DEF Outer, EventOps, ScriptOps
<1>3. ASSUME NEW f \in 1 .. Len(stack), Outer(f) PROVE f = e
  <2>1. /\ stack[f].op = "catchup_event" => f = 2 /\ stack[1].op = "catchup"
        /\ stack[f].op = "event" => f = 1
    BY <1>3, WhereIs DEF Outer
  <2> QED BY <1>1, <1>3, <2>1 DEF Outer
<1>4. ASSUME NEW k \in 1 .. Len(stack), k <= e, NEW s PROVE ~Loads(k, s)
  <2>1. k = e \/ (k = 1 /\ stack[1].op = "catchup")
    BY <1>1, <1>4 DEF Outer
  <2> QED BY <1>2, <2>1 DEF Loads, ScriptOps
<1> QED BY <1>2, <1>3, <1>4

\* The call on top goes on, and what another script got is kept.
LEMMA GotoGiven ==
  ASSUME HostInv, Shape, stack # <<>>, Top.op \in ScriptOps, Top.step # "handler",
         NEW step \in ScriptSteps, Goto(step), step # "handler", UNCHANGED <<list, eseen>>,
         NEW s, GivenTo(s), ctx'[s] = ctx[s],
         s = Top.s => Top.step \notin LoadSteps /\ step \notin LoadSteps
  PROVE  GivenTo(s)'
<1> DEFINE n == Len(stack)
<1>1. n \in 1 .. n /\ Top = stack[n] /\ TypeOK /\ Chain
  BY OnTop, TopIs DEF HostInv, Shape
<1>2. /\ Len(stack') = n
      /\ \A k \in 1 .. n : k # n => stack'[k] = stack[k]
      /\ \A k \in 1 .. n : Like(k)
      /\ stack'[n].step = step
      /\ \A k \in 1 .. n : k # n => Passed(k)' = Passed(k)
  BY <1>1, GotoStack
<1>3. ~Loads(n, s) /\ ~Loads(n, s)'
  BY <1>1, <1>2 DEF Loads, Like
<1>4. \A k \in 1 .. n : k # n => (Loads(k, s)' <=> Loads(k, s))
  BY <1>2, LoadsLike
<1>5. SameLoads(s)
  BY <1>2, <1>3, <1>4 DEF SameLoads
<1>6. \A e \in 1 .. n : Outer(e) => e # n
  BY <1>1, OuterIs
<1>7. SameTold(s)
  <2>1. ASSUME NEW e \in 1 .. n PROVE Outer(e)' <=> Outer(e)
    BY <1>2 DEF Like
  <2>2. ASSUME NEW e \in 1 .. n, e # n PROVE (Told(e, s)' <=> Told(e, s)) /\ stack'[e] = stack[e]
    BY <1>2, <2>2, ToldSame
  <2> QED BY <1>2, <1>6, <2>1, <2>2 DEF SameTold
<1> QED BY <1>5, <1>7, SameGiven

\* A call that the one on top makes: it has looked at nothing.
LEMMA EachGiven ==
  ASSUME HostInv, Shape, stack # <<>>, NEW c \in CallType, Each(c), c.step \notin Looked, c.i = 1,
         UNCHANGED <<list, eseen>>, NEW s, GivenTo(s), ctx'[s] = ctx[s]
  PROVE  GivenTo(s)'
<1> DEFINE n == Len(stack)
<1>1. n \in 1 .. n /\ n \in Nat /\ TypeOK /\ Chain
  BY OnTop DEF HostInv, Shape
<1>2. /\ Len(stack') = n + 1
      /\ \A k \in 1 .. n : Like(k) /\ stack'[k].step = stack[k].step
      /\ stack'[n + 1] = c
      /\ \A k \in 1 .. n : Passed(k)' = Passed(k)
      /\ \A k : k = n + 1 => Passed(k)' = c.i - 1
  BY <1>1, EachStack DEF Looked
<1>3. \A k \in 1 .. n + 1 : k = n + 1 \/ k \in 1 .. n
  BY <1>1
<1>4. \A k \in 1 .. n : k \in 1 .. n + 1
  BY <1>1
<1>5. \A k \in 1 .. n + 1 : k = n + 1 => ~Loads(k, s)'
  BY <1>2 DEF Loads, Looked
<1>6. \A k \in 1 .. n : Loads(k, s)' <=> Loads(k, s)
  BY <1>2, LoadsLike
<1>7. SameLoads(s)
  <2>1. \A k \in 1 .. n + 1 : Loads(k, s)' => k \in 1 .. n /\ Loads(k, s)
    BY <1>3, <1>5, <1>6
  <2> QED BY <1>2, <1>4, <1>6, <2>1 DEF SameLoads
<1>8. \A e \in 1 .. n + 1 : e = n + 1 => ~Told(e, s)'
  <2> SUFFICES ASSUME NEW e \in 1 .. n + 1, e = n + 1, Told(e, s)' PROVE FALSE
    OBVIOUS
  <2>1. PICK m \in 1 .. Passed(e)' : TRUE
    BY DEF Told
  <2>2. Passed(e)' = 0
    BY <1>2
  <2> QED BY <2>1, <2>2
<1>9. \A e \in 1 .. n : (Told(e, s)' <=> Told(e, s)) /\ (Outer(e)' <=> Outer(e)) /\ stack'[e].arg = stack[e].arg
  BY <1>2, ToldSame DEF Like
<1>10. SameTold(s)
  <2>1. ASSUME NEW e \in 1 .. n + 1, Told(e, s)' PROVE e \in 1 .. n
    BY <1>3, <1>8, <2>1
  <2> QED BY <1>2, <1>4, <1>9, <2>1 DEF SameTold
<1> QED BY <1>7, <1>10, SameGiven

\* A script that loads drives a device.
LEMMA PushGiven ==
  ASSUME HostInv, Shape, stack # <<>>, Top.op \in ScriptOps, Top.step = "eval",
         stack' = Append(stack, HostEvent("change")),
         UNCHANGED <<list, eseen>>, NEW s, GivenTo(s), ctx'[s] = ctx[s]
  PROVE  GivenTo(s)'
<1> DEFINE n == Len(stack)
<1>1. n \in 1 .. n /\ n \in Nat /\ Top = stack[n] /\ TypeOK /\ Chain
  BY OnTop, TopIs DEF HostInv, Shape
<1>2. PICK c \in CallType : /\ stack' = Append(stack, c) /\ c.op = "event" /\ c.step = "each"
  <2>1. PICK c : c = HostEvent("change")
    OBVIOUS
  <2>2. "change" \in Codes /\ c \in CallType
    BY <2>1, CallsAre DEF Codes
  <2>3. c.op = "event" /\ c.step = "each"
    BY <2>1 DEF HostEvent, Call
  <2> QED BY <2>1, <2>2, <2>3
<1>3. /\ Len(stack') = n + 1
      /\ \A k \in 1 .. n : stack'[k] = stack[k] /\ Like(k)
      /\ stack'[n + 1] = c
      /\ \A k \in 1 .. n : k # n => Passed(k)' = Passed(k)
  BY <1>1, <1>2, PushStack
<1>4. \A k \in 1 .. n + 1 : k = n + 1 \/ k \in 1 .. n
  BY <1>1
<1>5. \A k \in 1 .. n : k \in 1 .. n + 1
  BY <1>1
<1>6. \A k \in 1 .. n + 1 : k = n + 1 => ~Loads(k, s)' /\ ~Outer(k)'
  BY <1>1, <1>2, <1>3 DEF Loads, ScriptOps, Outer
<1>7. \A k \in 1 .. n : Loads(k, s)' <=> Loads(k, s)
  BY <1>3, LoadsLike
<1>8. SameLoads(s)
  <2>1. \A k \in 1 .. n + 1 : Loads(k, s)' => k \in 1 .. n /\ Loads(k, s)
    BY <1>4, <1>6, <1>7
  <2>2. \A k \in 1 .. n : stack[k].step = "replay" => Passed(k)' = Passed(k)
    BY <1>1, <1>3
  <2> QED BY <1>3, <1>5, <1>7, <2>1, <2>2 DEF SameLoads
<1>9. \A e \in 1 .. n : Outer(e) => e # n
  BY <1>1, OuterIs
<1>10. \A e \in 1 .. n : Outer(e) => (Told(e, s)' <=> Told(e, s))
  BY <1>3, <1>9, ToldSame
<1>11. SameTold(s)
  <2>1. ASSUME NEW e \in 1 .. n + 1, Outer(e)' PROVE e \in 1 .. n
    BY <1>4, <1>6, <2>1
  <2>2. \A e \in 1 .. n : (Outer(e)' <=> Outer(e)) /\ stack'[e] = stack[e]
    BY <1>3 DEF Like
  <2> QED BY <1>3, <1>5, <1>10, <2>1, <2>2 DEF SameTold
<1> QED BY <1>8, <1>11, SameGiven

\* The call on top ends; it was not one that matters to the script, nor the
\* one below it for its sake.
Elsewhere(k, s) ==
  /\ Outer(k) => list[stack[k].i - 1] # s
  /\ Loads(k, s) => stack[k].step # "replay"

LEMMA ReturnTold ==
  ASSUME TypeOK, stack # <<>>, Return, list' = list, NEW k \in 1 .. Len(stack) - 1, NEW s,
         k + 1 # Len(stack) \/ Top.step = "handler" \/ list[stack[k].i - 1] # s
  PROVE  Told(k, s)' <=> Told(k, s)
<1>1. CASE k + 1 # Len(stack) \/ Top.step = "handler"
  BY <1>1, ReturnStack, ToldSame
<1>2. CASE k + 1 = Len(stack) /\ Top.step # "handler"
  <2>1. stack \in Seq(CallType) /\ Len(stack) \in Nat
    BY DEF TypeOK
  <2>2. k \in 1 .. Len(stack)
    BY <2>1
  <2>3. stack[k] \in CallType
    BY <2>1, <2>2
  <2>4. PICK i \in Nat \ {0} : i = stack[k].i
    BY <2>3, CallIs
  <2>5. Passed(k)' = i - 1 /\ Passed(k) = i - 2
    <3>1. Passed(k)' = stack[k].i - 1
      BY <1>2, ReturnStack
    <3>2. k # Len(stack) /\ stack[k + 1] = Top
      BY <1>2, <2>1, TopIs
    <3>3. Passed(k) = stack[k].i - 2
      BY <1>2, <3>2, PassedIs
    <3> QED BY <2>4, <3>1, <3>3
  <2>6. \A m \in 1 .. i - 1 : m \in 1 .. i - 2 \/ m = i - 1
    BY <2>4
  <2>7. \A m \in 1 .. i - 2 : m \in 1 .. i - 1
    BY <2>4
  <2> QED BY <1>2, <2>4, <2>5, <2>6, <2>7 DEF Told
<1> QED BY <1>1, <1>2

LEMMA ReturnGiven ==
  ASSUME HostInv, Shape, stack # <<>>, Return, UNCHANGED <<list, eseen>>,
         NEW s, GivenTo(s), ctx'[s] = ctx[s], ~Loads(Len(stack), s), ~Outer(Len(stack)),
         Top.step = "handler" \/ \A k \in 1 .. Len(stack) : k + 1 = Len(stack) => Elsewhere(k, s)
  PROVE  GivenTo(s)'
<1> DEFINE n == Len(stack)
<1>1. n \in 1 .. n /\ n \in Nat /\ TypeOK /\ Chain
  BY OnTop, TopIs DEF HostInv, Shape
<1>2. /\ Len(stack') = n - 1
      /\ \A k \in 1 .. n - 1 : k \in 1 .. n /\ stack'[k] = stack[k] /\ Like(k)
      /\ \A k \in 1 .. n - 1 : k + 1 # n \/ Top.step = "handler" => Passed(k)' = Passed(k)
  BY <1>1, ReturnStack
<1>3. \A k \in 1 .. n : k = n \/ k \in 1 .. n - 1
  BY <1>1
<1>4. \A k \in 1 .. n - 1 : Loads(k, s)' <=> Loads(k, s)
  BY <1>2, LoadsLike
<1>5. SameLoads(s)
  <2>1. ASSUME NEW k \in 1 .. n, Loads(k, s) PROVE k \in 1 .. n - 1
    BY <1>3, <2>1
  <2>2. ASSUME NEW k \in 1 .. n - 1, Loads(k, s), stack[k].step = "replay" PROVE Passed(k)' = Passed(k)
    BY <1>2, <2>2 DEF Elsewhere
  <2> QED BY <1>2, <1>4, <2>1, <2>2 DEF SameLoads
<1>6. ASSUME NEW e \in 1 .. n - 1, Outer(e) PROVE Told(e, s)' <=> Told(e, s)
  <2>1. e + 1 # n \/ Top.step = "handler" \/ list[stack[e].i - 1] # s
    BY <1>2, <1>6 DEF Elsewhere
  <2> QED BY <1>1, <2>1, ReturnTold
<1>7. SameTold(s)
  <2>1. ASSUME NEW e \in 1 .. n, Outer(e) PROVE e \in 1 .. n - 1
    BY <1>3, <2>1
  <2>2. \A e \in 1 .. n - 1 : (Outer(e)' <=> Outer(e)) /\ stack'[e] = stack[e]
    BY <1>2 DEF Like
  <2> QED BY <1>2, <1>6, <2>1, <2>2 DEF SameTold
<1> QED BY <1>5, <1>7, SameGiven

\* A call made by the one on top; each kind of call that makes one.
LEMMA MadeIs ==
  ASSUME HostInv, Shape,
         \/ Replay /\ Top.i <= Len(eseen)
         \/ EventScript
         \/ StartEach /\ Top.i <= Len(start)
         \/ CatchUpEach /\ Top.i <= Len(hseen)
  PROVE  \E c \in CallType : Each(c) /\ c.step \notin Looked /\ c.i = 1
<1>1. stack # <<>>
  BY DEF Replay, EventScript, StartEach, CatchUpEach, At
<1>2. Top.i \in Nat \ {0} /\ TypeOK /\ (Top.op \in ScriptOps => Top.s \in Scripts)
  BY <1>1, FurtherIs, OnTop DEF HostInv
<1>3. CASE Replay /\ Top.i <= Len(eseen)
  <2>1. eseen[Top.i] \in Codes /\ Top.op \in ScriptOps
    BY <1>2, <1>3, LensAre, PluginConstants DEF Replay, At
  <2>2. PICK c \in CallType : c = ScriptAction(Top.s, eseen[Top.i])
    BY <1>2, <2>1, CallsAre
  <2> QED BY <1>3, <2>2 DEF Replay, ScriptAction, Call, Looked, LoadSteps
<1>4. CASE EventScript
  <2>1. list[Top.i] \in Scripts
    BY <1>2, <1>4, LensAre DEF EventScript
  <2>2. Top.arg \in Codes
    BY <1>1, <1>4, OnTop DEF HostInv, Fits, EventScript, At
  <2>3. PICK c \in CallType : c = ScriptAction(list[Top.i], Top.arg)
    BY <2>1, <2>2, CallsAre
  <2> QED BY <1>4, <2>3 DEF EventScript, ScriptAction, Call, Looked, LoadSteps
<1>5. CASE StartEach /\ Top.i <= Len(start)
  <2>1. start[Top.i] \in Scripts
    BY <1>2, <1>5, LensAre
  <2>2. PICK c \in CallType : c = StartScript(start[Top.i])
    BY <2>1, CallsAre
  <2> QED BY <1>5, <2>2 DEF StartEach, StartScript, Call, Looked, LoadSteps
<1>6. CASE CatchUpEach /\ Top.i <= Len(hseen)
  <2>1. hseen[Top.i] \in Codes
    BY <1>2, <1>6, LensAre, PluginConstants
  <2>2. PICK c \in CallType : c = CatchUpEvent(hseen[Top.i])
    BY <2>1, CallsAre
  <2> QED BY <1>6, <2>2 DEF CatchUpEach, CatchUpEvent, Call, Looked, LoadSteps
<1> QED BY <1>3, <1>4, <1>5, <1>6

LEMMA LookGiven ==
  ASSUME HostInv, Shape, Given, Look \/ StartHash
  PROVE  Given'
<1>1. /\ stack # <<>> /\ Top.op \in ScriptOps /\ Top.step \in {"look", "hash"}
      /\ UNCHANGED <<list, eseen, ctx>>
  BY DEF Look, StartHash, At, ScriptOps
<1>2. PICK step \in {"run", "compare", "mtime"} : Goto(step)
  BY DEF Look, StartHash
<1>3. step \in ScriptSteps /\ step # "handler" /\ step \notin LoadSteps /\ Top.step \notin LoadSteps
  BY <1>1 DEF ScriptSteps, LoadSteps
<1>4. ASSUME NEW s \in ToSet(list) PROVE GivenTo(s)'
  BY <1>1, <1>2, <1>3, GotoGiven DEF Given
<1> QED BY <1>1, <1>4 DEF Given

LEMMA CallsGiven ==
  ASSUME HostInv, Shape, Given,
         \/ Handled \/ Drive \/ EventScript \/ StartEach \/ CatchUpEach
         \/ Replay /\ Top.i <= Len(eseen)
  PROVE  Given'
<1>1. stack # <<>> /\ UNCHANGED <<list, eseen, ctx>>
  BY DEF Handled, Drive, EventScript, StartEach, CatchUpEach, Replay, At
<1>2. SUFFICES ASSUME NEW s \in ToSet(list) PROVE GivenTo(s)'
  BY <1>1 DEF Given
<1>3. PICK n : n = Len(stack) /\ n \in 1 .. n /\ Top = stack[n] /\ Top.i \in Nat \ {0} /\ TypeOK /\ Chain
  BY <1>1, FurtherIs, TopIs, OnTop DEF HostInv, Shape
<1>4. ASSUME Top.op \notin EventOps, ~Loads(n, s), Return,
             Top.step = "handler" \/ \A k \in 1 .. n : k + 1 = n => Elsewhere(k, s)
      PROVE  GivenTo(s)'
  <2>1. ~Outer(n)
    BY <1>3, <1>4 DEF Outer, EventOps
  <2> QED BY <1>1, <1>3, <1>4, <2>1, ReturnGiven DEF Given
<1>5. ASSUME NEW c \in CallType, Each(c), c.step \notin Looked, c.i = 1 PROVE GivenTo(s)'
  BY <1>1, <1>5, EachGiven DEF Given
<1>6. CASE Handled
  BY <1>3, <1>4, <1>6 DEF Handled, At, EventOps, Loads, LoadSteps
<1>7. CASE Drive
  BY <1>1, <1>7, PushGiven DEF Drive, At, Given
<1>8. CASE EventScript \/ (Replay /\ Top.i <= Len(eseen))
  BY <1>5, <1>8, MadeIs
<1>9. CASE StartEach
  <2>1. CASE Top.i <= Len(start)
    BY <1>5, <1>9, <2>1, MadeIs
  <2>2. CASE ~(Top.i <= Len(start))
    <3>1. Return /\ Top.op = "config"
      BY <1>9, <2>2 DEF StartEach, At
    <3>2. \A k \in 1 .. n : k + 1 = n => stack[k].op = "catchup"
      BY <1>3, <3>1, WhereIs
    <3>3. \A k \in 1 .. n : k + 1 = n => Elsewhere(k, s)
      BY <3>2 DEF Elsewhere, Outer, Loads, ScriptOps
    <3> QED BY <1>3, <1>4, <3>1, <3>3 DEF EventOps, Loads, ScriptOps
  <2> QED BY <2>1, <2>2
<1>10. CASE CatchUpEach
  <2>1. CASE Top.i <= Len(hseen)
    BY <1>5, <1>10, <2>1, MadeIs
  <2>2. CASE ~(Top.i <= Len(hseen))
    <3>1. Return /\ Top.op = "catchup"
      BY <1>10, <2>2 DEF CatchUpEach, At
    <3>2. n = 1
      BY <1>3, <3>1, WhereIs
    <3>3. \A k \in 1 .. n : k + 1 # n
      BY <3>2
    <3> QED BY <1>3, <1>4, <3>1, <3>3 DEF EventOps, Loads, ScriptOps
  <2> QED BY <2>1, <2>2
<1> QED BY <1>6, <1>7, <1>8, <1>9, <1>10

\* A script begins to load, or goes on: it has got nothing yet.
LEMMA LoadGiven ==
  ASSUME HostInv, Shape, stack # <<>>, Top.op \in ScriptOps, Top.step # "handler",
         NEW step \in LoadSteps, Goto(step), UNCHANGED <<list, eseen>>,
         NEW t, t = Top.s, ctx'[t].got = <<>>,
         \A k \in 1 .. Len(stack) : k # Len(stack) => ~Loads(k, t),
         \A e \in 1 .. Len(stack) : Outer(e) => ~Told(e, t)
  PROVE  GivenTo(t)'
<1> DEFINE n == Len(stack)
<1>1. n \in 1 .. n /\ Top = stack[n] /\ TypeOK /\ Chain /\ eseen \in Seq(Lifecycle)
  BY OnTop, TopIs DEF HostInv, Shape, TypeOK
<1>2. step \in ScriptSteps /\ step # "handler"
  BY DEF LoadSteps, ScriptSteps
<1>3. /\ Len(stack') = n
      /\ \A k \in 1 .. n : k # n => stack'[k] = stack[k]
      /\ \A k \in 1 .. n : Like(k)
      /\ stack'[n].step = step
      /\ \A k \in 1 .. n : k # n => Passed(k)' = Passed(k)
      /\ \A k \in 1 .. n : k = n => Passed(k)' = 0
  BY <1>1, <1>2, GotoStack
<1>4. Loads(n, t)'
  BY <1>1, <1>3 DEF Loads, Like
<1>5. \A k \in 1 .. n : k # n => ~Loads(k, t)'
  BY <1>3, LoadsLike
<1>6. SubSeq(eseen, 1, 0) = <<>>
  <2>1. 0 \in 0 .. Len(eseen)
    BY <1>1
  <2>2. SubSeq(eseen, 1, 0) \in Seq(Lifecycle) /\ Len(SubSeq(eseen, 1, 0)) = 0
    BY <1>1, <2>1, PrefixIs
  <2> QED BY <2>2
<1>7. ASSUME NEW e \in 1 .. n, Outer(e)' PROVE ~Told(e, t)'
  <2>1. Outer(e)
    BY <1>3, <1>7 DEF Like
  <2>2. e # n
    BY <1>1, <2>1, OuterIs
  <2>3. Told(e, t)' <=> Told(e, t)
    BY <1>3, <2>2, ToldSame
  <2> QED BY <2>1, <2>3
<1>8. ASSUME NEW k \in 1 .. n, Loads(k, t)'
      PROVE  /\ ctx'[t].got = <<>>
             /\ stack'[k].step = "replay" => ctx'[t].got = SubSeq(eseen', 1, Passed(k)')
             /\ \A m \in 1 .. n : Loads(m, t)' => m = k
  <2>1. k = n
    BY <1>5, <1>8
  <2>2. Passed(k)' = 0
    BY <1>3, <2>1
  <2> QED BY <1>5, <1>6, <2>1, <2>2
<1> QED BY <1>1, <1>3, <1>4, <1>7, <1>8 DEF GivenTo

\* A script of which the text has changed neither loads nor was told anything.
LEMMA NotYet ==
  ASSUME HostInv, FreshTexts, NEW t \in Scripts, ~SameText(t)
  PROVE  /\ \A k \in 1 .. Len(stack) : ~Loads(k, t)
         /\ \A e \in 1 .. Len(stack) : Outer(e) => ~Told(e, t)
  BY DEF FreshTexts, LooksFresh, ToldFresh, Loads, Looked

\* A script that is being started is alone with the configuration.
LEMMA Starting ==
  ASSUME HostInv, Shape, stack # <<>>, Top.op = "start"
  PROVE  /\ \A k \in 1 .. Len(stack) : k # Len(stack) => \A s : ~Loads(k, s)
         /\ \A e \in 1 .. Len(stack) : ~Outer(e)
<1>1. PICK n : n = Len(stack) /\ n \in 1 .. n /\ n \in Nat /\ Top = stack[n] /\ TypeOK /\ Chain
  BY TopIs, OnTop DEF HostInv, Shape
<1>2. n > 1 /\ stack[n - 1].op = "config" /\ n - 1 \in 1 .. n
  BY <1>1, WhereIs
<1>3. n - 1 = 1 \/ (n - 1 = 2 /\ stack[1].op = "catchup")
  BY <1>1, <1>2, WhereIs
<1>4. \A k \in 1 .. n : k # n => stack[k].op \in {"config", "catchup"}
  BY <1>1, <1>2, <1>3
<1> QED BY <1>1, <1>4 DEF Loads, Outer, ScriptOps

LEMMA CompareGiven ==
  ASSUME HostInv, Shape, TextsInv, Given, Compare
  PROVE  Given'
<1>1. /\ stack # <<>> /\ Top.op \in ScriptOps /\ Top.step = "compare" /\ UNCHANGED <<list, eseen>>
  BY DEF Compare, At, ScriptOps
<1>2. PICK t \in Scripts : t = Top.s
  BY <1>1, TopFresh DEF TextsInv
<1>3. \A s \in ToSet(list) : s \in Scripts
  BY LensAre DEF HostInv
<1>4. CASE SameText(t)
  <2>1. Goto("run") /\ ctx' = ctx
    BY <1>2, <1>4 DEF Compare
  <2>2. ASSUME NEW s \in ToSet(list) PROVE GivenTo(s)'
    BY <1>1, <2>1, GotoGiven DEF Given, ScriptSteps, LoadSteps
  <2> QED BY <1>1, <2>2 DEF Given
<1>5. CASE ~SameText(t)
  <2>1. Goto("load") /\ FreeContexts({t}, NewCtx)
    BY <1>2, <1>5 DEF Compare
  <2>2. ctx'[t].got = <<>> /\ \A s \in Scripts : s # t => ctx'[s] = ctx[s]
    BY <1>2, <2>1 DEF FreeContexts, NewCtx
  <2>3. GivenTo(t)'
    BY <1>1, <1>2, <1>5, <2>1, <2>2, NotYet, LoadGiven DEF TextsInv, LoadSteps
  <2>4. ASSUME NEW s \in ToSet(list), s # t PROVE GivenTo(s)'
    BY <1>1, <1>2, <1>3, <2>1, <2>2, <2>4, GotoGiven DEF Given, ScriptSteps
  <2> QED BY <1>1, <2>3, <2>4 DEF Given
<1> QED BY <1>4, <1>5

LEMMA StartTimeGiven ==
  ASSUME HostInv, Shape, TextsInv, Given, StartTime
  PROVE  Given'
<1>1. /\ stack # <<>> /\ Top.op = "start" /\ Top.op \in ScriptOps /\ Top.step = "mtime"
      /\ UNCHANGED <<list, eseen>>
  BY DEF StartTime, At, ScriptOps
<1>2. PICK t \in Scripts : t = Top.s
  BY <1>1, TopFresh DEF TextsInv
<1>3. \A s \in ToSet(list) : s \in Scripts
  BY LensAre DEF HostInv
<1>4. Goto("load") /\ FreeContexts({t}, NewCtx)
  BY <1>2 DEF StartTime
<1>5. ctx'[t].got = <<>> /\ \A s \in Scripts : s # t => ctx'[s] = ctx[s]
  BY <1>2, <1>4 DEF FreeContexts, NewCtx
<1>6. GivenTo(t)'
  BY <1>1, <1>2, <1>4, <1>5, Starting, LoadGiven DEF LoadSteps
<1>7. ASSUME NEW s \in ToSet(list), s # t PROVE GivenTo(s)'
  BY <1>1, <1>2, <1>3, <1>4, <1>5, <1>7, GotoGiven DEF Given, ScriptSteps
<1> QED BY <1>1, <1>6, <1>7 DEF Given

LEMMA LoadingGiven ==
  ASSUME HostInv, Shape, TextsInv, Given, LoadScript \/ Evaluated
  PROVE  Given'
<1>1. /\ stack # <<>> /\ Top.op \in ScriptOps /\ Top.step \in {"load", "eval"} /\ Top.step # "handler"
      /\ UNCHANGED <<list, eseen>>
  BY DEF LoadScript, Evaluated, At
<1>2. PICK t \in Scripts : t = Top.s /\ t \in ToSet(list)
  BY <1>1, TopFresh DEF TextsInv
<1>3. \A s \in ToSet(list) : s \in Scripts
  BY LensAre DEF HostInv
<1>4. PICK step \in {"eval", "replay"} : Goto(step)
  BY DEF LoadScript, Evaluated
<1>5. step \in LoadSteps /\ step \in ScriptSteps /\ step # "handler"
  BY DEF LoadSteps, ScriptSteps
<1>6. PICK n : n = Len(stack) /\ n \in 1 .. n /\ Top = stack[n]
  BY <1>1, TopIs DEF HostInv, TypeOK
<1>7. Loads(n, t)
  BY <1>1, <1>2, <1>6 DEF Loads, LoadSteps
<1>8. /\ ctx[t].got = <<>>
      /\ \A k \in 1 .. Len(stack) : k # Len(stack) => ~Loads(k, t)
      /\ \A e \in 1 .. Len(stack) : Outer(e) => ~Told(e, t)
  BY <1>1, <1>2, <1>6, <1>7 DEF Given, GivenTo
<1>9. ctx'[t].got = ctx[t].got /\ \A s \in Scripts : s # t => ctx'[s] = ctx[s]
  BY <1>2 DEF LoadScript, Evaluated, HostInv, TypeOK
<1>10. GivenTo(t)'
  BY <1>1, <1>2, <1>4, <1>5, <1>8, <1>9, LoadGiven
<1>11. ASSUME NEW s \in ToSet(list), s # t PROVE GivenTo(s)'
  BY <1>1, <1>2, <1>3, <1>4, <1>5, <1>9, <1>11, GotoGiven DEF Given
<1> QED BY <1>1, <1>10, <1>11 DEF Given

LEMMA GivenAll ==
  ASSUME NEW s, HasHandler(s)' => ctx'[s].got = eseen',
         \A k \in 1 .. Len(stack') : ~Loads(k, s)',
         \A e \in 1 .. Len(stack') : Outer(e)' => ~Told(e, s)'
  PROVE  GivenTo(s)'
  BY DEF GivenTo

\* A script that has loaded has got what came before.
LEMMA ReplayedGiven ==
  ASSUME HostInv, Shape, TextsInv, Given, Replay, ~(Top.i <= Len(eseen))
  PROVE  Given'
<1>1. /\ stack # <<>> /\ Top.op \in ScriptOps /\ Top.step = "replay" /\ Top.step # "handler"
      /\ UNCHANGED <<list, eseen, ctx>>
  BY DEF Replay, At
<1>2. PICK t \in Scripts : t = Top.s /\ t \in ToSet(list)
  BY <1>1, TopFresh DEF TextsInv
<1>3. PICK n : n = Len(stack) /\ n \in 1 .. n /\ n \in Nat /\ Top = stack[n] /\ TypeOK /\ Chain
  BY <1>1, TopIs, OnTop DEF HostInv, Shape
<1>4. Loads(n, t)
  BY <1>1, <1>2, <1>3 DEF Loads, LoadSteps
<1>5. HasHandler(t) => ctx[t].got = eseen
  <2>1. Sane(stack[n]) /\ Top.i \in Nat \ {0} /\ Len(eseen) \in Nat /\ eseen \in Seq(Lifecycle)
    BY <1>1, <1>3, FurtherIs, LensAre DEF Chain, TypeOK
  <2>2. Top.i - 1 = Len(eseen)
    BY <1>1, <1>3, <2>1 DEF Sane
  <2>3. Passed(n) = Len(eseen)
    BY <1>3, <2>2, PassedIs
  <2>4. SubSeq(eseen, 1, Len(eseen)) = eseen
    <3>1. Len(eseen) \in 0 .. Len(eseen)
      BY <2>1
    <3> QED BY <2>1, <3>1, PrefixIs, SameSeq
  <2>5. HasHandler(t) => ctx[t].got = SubSeq(eseen, 1, Passed(n))
    BY <1>1, <1>2, <1>3, <1>4 DEF Given, GivenTo
  <2> QED BY <2>3, <2>4, <2>5
<1>6. /\ \A k \in 1 .. n : k # n => ~Loads(k, t)
      /\ \A e \in 1 .. n : Outer(e) => ~Told(e, t)
  BY <1>2, <1>3, <1>4 DEF Given, GivenTo
<1>7. HasHandler(t)' => ctx'[t].got = eseen'
  BY <1>1, <1>5 DEF HasHandler
<1>8. CASE Top.op # "start"
  <2>1. Goto("run")
    BY <1>8 DEF Replay, Checked
  <2>2. /\ Len(stack') = n
        /\ \A k \in 1 .. n : k # n => stack'[k] = stack[k]
        /\ \A k \in 1 .. n : Like(k)
        /\ stack'[n].step = "run"
        /\ \A k \in 1 .. n : k # n => Passed(k)' = Passed(k)
    BY <1>1, <1>3, <2>1, GotoStack DEF ScriptSteps
  <2>3. ASSUME NEW k \in 1 .. n PROVE ~Loads(k, t)'
    <3>1. k # n => (Loads(k, t)' <=> Loads(k, t))
      BY <2>2, LoadsLike
    <3>2. k = n => ~Loads(k, t)'
      BY <2>2 DEF Loads, LoadSteps
    <3> QED BY <1>6, <3>1, <3>2
  <2>4. ASSUME NEW e \in 1 .. n, Outer(e)' PROVE ~Told(e, t)'
    <3>1. Outer(e)
      BY <2>2, <2>4 DEF Like
    <3>2. e # n
      BY <1>1, <1>3, <3>1, OuterIs
    <3>3. Told(e, t)' <=> Told(e, t)
      BY <1>1, <2>2, <3>2, ToldSame
    <3> QED BY <1>6, <3>1, <3>3
  <2>5. GivenTo(t)'
    BY <1>7, <2>2, <2>3, <2>4, GivenAll
  <2>6. ASSUME NEW s \in ToSet(list), s # t PROVE GivenTo(s)'
    BY <1>1, <1>2, <2>1, <2>6, GotoGiven DEF Given, ScriptSteps
  <2> QED BY <1>1, <2>5, <2>6 DEF Given
<1>9. CASE Top.op = "start"
  <2>1. Return
    BY <1>9 DEF Replay, Checked
  <2>2. /\ \A k \in 1 .. n : k # n => \A s : ~Loads(k, s)
        /\ \A e \in 1 .. n : ~Outer(e)
    BY <1>1, <1>3, <1>9, Starting
  <2>3. /\ Len(stack') = n - 1
        /\ \A k \in 1 .. n - 1 : k \in 1 .. n /\ k # n /\ stack'[k] = stack[k] /\ Like(k)
    BY <1>1, <1>3, <2>1, ReturnStack
  <2>4. \A k \in 1 .. n - 1 : ~Loads(k, t)' /\ ~Outer(k)'
    BY <2>2, <2>3, LoadsLike DEF Like
  <2>5. GivenTo(t)'
    BY <1>7, <2>3, <2>4, GivenAll
  <2>6. ASSUME NEW s \in ToSet(list), s # t PROVE GivenTo(s)'
    <3>1. ~Loads(n, s)
      BY <1>2, <1>3, <2>6 DEF Loads
    <3>2. \A k \in 1 .. n : k + 1 = n => Elsewhere(k, s)
      BY <1>3, <2>2 DEF Elsewhere
    <3> QED BY <1>1, <1>3, <2>1, <2>2, <3>1, <3>2, ReturnGiven DEF Given
  <2> QED BY <1>1, <2>5, <2>6 DEF Given
<1> QED BY <1>8, <1>9

\* An event has come by every script when it ends.
LEMMA AllTold ==
  ASSUME HostInv, Shape, stack # <<>>, Top.op \in EventOps, Through, NEW s \in ToSet(list)
  PROVE  Told(Len(stack), s)
<1>1. PICK n : n = Len(stack) /\ n \in 1 .. n /\ Top = stack[n] /\ TypeOK /\ Chain
  BY TopIs, OnTop DEF HostInv, Shape
<1>2. Sane(stack[n]) /\ Top.i \in Nat \ {0} /\ Len(list) \in Nat
  BY <1>1, FurtherIs, LensAre DEF Chain
<1>3. Top.i - 1 = Len(list)
  BY <1>1, <1>2 DEF Sane, Through
<1>4. Passed(n) = Len(list)
  BY <1>1, <1>3, PassedIs
<1>5. \E m \in 1 .. Len(list) : list[m] = s
  BY <1>1, LensAre
<1> QED BY <1>1, <1>4, <1>5 DEF Told

LEMMA EventEndGiven ==
  ASSUME HostInv, Shape, Given, EventEnd
  PROVE  Given'
<1>1. /\ stack # <<>> /\ Top.op \in EventOps /\ Through /\ Return /\ UNCHANGED <<list, ctx>>
      /\ (loaded \/ list = <<>>)
  BY EventEndIs DEF EventEnd, HostInv, EngineUp
<1>2. PICK n : n = Len(stack) /\ n \in 1 .. n /\ n \in Nat /\ Top = stack[n] /\ TypeOK /\ Chain
  BY <1>1, TopIs, OnTop DEF HostInv, Shape
<1>3. /\ Len(stack') = n - 1 /\ (n = 1 <=> stack' = <<>>)
      /\ \A k \in 1 .. n - 1 : k \in 1 .. n /\ stack'[k] = stack[k] /\ Like(k)
  BY <1>1, <1>2, ReturnStack
<1>4. SUFFICES ASSUME NEW s \in ToSet(list) PROVE GivenTo(s)'
  BY <1>1 DEF Given
<1>5. loaded
  BY <1>1, <1>4 DEF ToSet
<1>6. Told(n, s)
  BY <1>1, <1>2, AllTold
<1>7. ASSUME Outer(n), Got(eseen, Top.arg) = eseen', \A k \in 1 .. n : ~Loads(k, s),
             \A k \in 1 .. n - 1 : ~Outer(k)
      PROVE  GivenTo(s)'
  <2>1. HasHandler(s) => ctx[s].got = Got(eseen, stack[n].arg)
    BY <1>2, <1>6, <1>7 DEF Given, GivenTo
  <2>2. HasHandler(s)' => ctx'[s].got = eseen'
    BY <1>1, <1>2, <1>7, <2>1 DEF HasHandler
  <2>3. \A k \in 1 .. n - 1 : ~Loads(k, s)' /\ ~Outer(k)'
    BY <1>3, <1>7, LoadsLike DEF Like
  <2> QED BY <1>3, <2>2, <2>3, GivenAll
<1>8. CASE n = 1 /\ Top.op = "event"
  <2>1. Outer(n) /\ \A k \in 1 .. n : ~Loads(k, s)
    BY <1>2, <1>8 DEF Outer, Loads, ScriptOps
  <2>2. Got(eseen, Top.arg) = eseen'
    BY <1>2, <1>5, <1>8, EventEndIs
  <2>3. \A k \in 1 .. n - 1 : ~Outer(k)
    BY <1>8
  <2> QED BY <1>7, <2>1, <2>2, <2>3
<1>9. CASE n = 2 /\ Top.op = "catchup_event" /\ stack[1].op = "catchup"
  <2>1. \A k \in 1 .. 2 : k = 1 \/ k = 2
    OBVIOUS
  <2>2. Outer(n) /\ \A k \in 1 .. n : ~Loads(k, s)
    BY <1>2, <1>9, <2>1 DEF Outer, Loads, ScriptOps
  <2>3. Got(eseen, Top.arg) = eseen'
    BY <1>2, <1>9, EventEndIs
  <2>4. \A k \in 1 .. n - 1 : ~Outer(k)
    BY <1>9 DEF Outer
  <2> QED BY <1>7, <2>2, <2>3, <2>4
<1>10. CASE n > 1 /\ Top.op = "event"
  <2>1. eseen' = eseen
    BY <1>2, <1>10, EventEndIs
  <2>2. ~Loads(n, s) /\ ~Outer(n)
    BY <1>2, <1>10 DEF Loads, Outer, ScriptOps
  <2>3. ASSUME NEW k \in 1 .. n, k + 1 = n PROVE Elsewhere(k, s)
    <3>1. Child(stack[k], stack[n])
      <4>1. k \in 1 .. n - 1
        BY <1>2, <2>3
      <4> QED BY <1>2, <2>3, <4>1 DEF Chain
    <3>2. stack[k].op \in ScriptOps /\ stack[k].step = "eval"
      BY <1>2, <1>10, <3>1 DEF Child
    <3>3. ~Outer(k)
      BY <3>2 DEF Outer, ScriptOps
    <3> QED BY <3>2, <3>3 DEF Elsewhere
  <2> QED BY <1>1, <1>2, <2>1, <2>2, <2>3, ReturnGiven DEF Given
<1> QED BY <1>2, <1>8, <1>9, <1>10, EventEndIs

\* A script new in the list has not run, another one goes on.
LEMMA SetScriptsGiven ==
  ASSUME HostInv, Shape, TextsInv, Given, SetScripts
  PROVE  Given'
<1>1. stack # <<>> /\ Top.op = "config" /\ Goto("each") /\ eseen' = eseen
  BY DEF SetScripts, At
<1>2. /\ stack \in Seq(CallType) /\ Len(stack) \in {1, 2} /\ Top = stack[Len(stack)]
      /\ Len(stack) = 2 => stack[1].op = "catchup"
      /\ TypeOK
  BY <1>1, ConfigIs DEF HostInv
<1>3. \A k \in 1 .. Len(stack) : stack[k].op \in {"config", "catchup"}
  <2>1. \A k \in 1 .. Len(stack) : k = Len(stack) \/ (k = 1 /\ Len(stack) = 2)
    BY <1>2
  <2> QED BY <1>1, <1>2, <2>1
<1>4. /\ Len(stack') = Len(stack)
      /\ \A k \in 1 .. Len(stack) : stack'[k].op = stack[k].op
  <2>1. /\ Len(stack') = Len(stack)
        /\ \A k \in 1 .. Len(stack) : k # Len(stack) => stack'[k] = stack[k]
        /\ stack'[Len(stack)] = [Top EXCEPT !.step = "each", !.i = 1]
    BY <1>1, <1>2, GotoIs DEF Steps
  <2>2. Top \in CallType
    BY <1>1, <1>2, TopIs
  <2>3. stack'[Len(stack)].op = Top.op
    BY <2>1, <2>2 DEF CallType
  <2> QED BY <1>2, <2>1, <2>3
<1>5. /\ \A k \in 1 .. Len(stack) : ~Outer(k) /\ \A s : ~Loads(k, s)
      /\ \A k \in 1 .. Len(stack') : ~Outer(k)' /\ \A s : ~Loads(k, s)'
  BY <1>3, <1>4 DEF Outer, Loads, ScriptOps
<1>6. list' \in Seq(Scripts)
  BY SetScriptsInv DEF HostInv, TypeOK
<1>7. ASSUME NEW s \in ToSet(list') PROVE GivenTo(s)'
  <2>1. s \in Scripts /\ s \notin Stopped(list')
    BY <1>6, <1>7, ToSetIs DEF Stopped
  <2>2. ctx'[s] = ctx[s]
    BY <2>1 DEF SetScripts, FreeContexts
  <2>3. s \notin ToSet(list) => ctx[s] = NoCtx
    BY <2>1 DEF TextsInv, TextsKept
  <2>4. s \in ToSet(list) => (HasHandler(s) => ctx[s].got = eseen)
    BY <1>5 DEF Given, GivenTo
  <2>5. HasHandler(s)' => ctx'[s].got = eseen'
    BY <1>1, <2>2, <2>3, <2>4 DEF HasHandler, NoCtx
  <2> QED BY <1>5, <2>5, GivenAll
<1> QED BY <1>7 DEF Given

\* The handler of a script begins, and what another one got is kept.
LEMMA HandlerGiven ==
  ASSUME HostInv, Shape, stack # <<>>, Top.op \in ScriptOps, Top.step = "run", Goto("handler"),
         UNCHANGED <<list, eseen>>, NEW s, GivenTo(s), ctx'[s] = ctx[s],
         \A k \in 1 .. Len(stack) : k + 1 = Len(stack) => Elsewhere(k, s)
  PROVE  GivenTo(s)'
<1> DEFINE n == Len(stack)
<1>1. n \in 1 .. n /\ n \in Nat /\ Top = stack[n] /\ TypeOK /\ Chain
  BY OnTop, TopIs DEF HostInv, Shape
<1>2. /\ Len(stack') = n
      /\ \A k \in 1 .. n : k # n => stack'[k] = stack[k]
      /\ \A k \in 1 .. n : Like(k)
      /\ stack'[n].step = "handler"
      /\ \A k \in 1 .. n : k # n /\ k + 1 # n => Passed(k)' = Passed(k)
      /\ \A k \in 1 .. n : k + 1 = n => Passed(k)' = Passed(k) + 1
  BY <1>1, GotoStack DEF ScriptSteps
<1>3. ~Loads(n, s) /\ ~Loads(n, s)'
  BY <1>1, <1>2 DEF Loads, LoadSteps
<1>4. \A k \in 1 .. n : k # n => (Loads(k, s)' <=> Loads(k, s))
  BY <1>2, LoadsLike
<1>5. ASSUME NEW k \in 1 .. n, k # n, Loads(k, s), stack[k].step = "replay" PROVE Passed(k)' = Passed(k)
  BY <1>2, <1>5 DEF Elsewhere
<1>6. SameLoads(s)
  BY <1>2, <1>3, <1>4, <1>5 DEF SameLoads
<1>7. \A e \in 1 .. n : Outer(e) => e # n
  BY <1>1, OuterIs
<1>8. ASSUME NEW e \in 1 .. n, Outer(e) PROVE Told(e, s)' <=> Told(e, s)
  <2>1. CASE e + 1 # n
    BY <1>2, <1>7, <1>8, <2>1, ToldSame
  <2>2. CASE e + 1 = n
    <3>1. PICK i \in Nat \ {0} : i = stack[e].i
      BY <1>1, WhereIs, CallIs
    <3>2. Passed(e) = i - 2 /\ Passed(e)' = i - 1
      <4>1. e # n /\ stack[e + 1] = Top
        BY <1>1, <2>2
      <4>2. Passed(e) = stack[e].i - 2
        BY <1>1, <4>1, PassedIs
      <4>3. Passed(e)' = Passed(e) + 1
        BY <1>2, <2>2
      <4> QED BY <3>1, <4>2, <4>3
    <3>3. list[i - 1] # s
      BY <1>8, <2>2, <3>1 DEF Elsewhere
    <3>4. \A m \in 1 .. i - 1 : m \in 1 .. i - 2 \/ m = i - 1
      BY <3>1
    <3>5. \A m \in 1 .. i - 2 : m \in 1 .. i - 1
      BY <3>1
    <3> QED BY <3>2, <3>3, <3>4, <3>5 DEF Told
  <2> QED BY <2>1, <2>2
<1>9. SameTold(s)
  <2>1. ASSUME NEW e \in 1 .. n PROVE Outer(e)' <=> Outer(e)
    BY <1>2 DEF Like
  <2>2. ASSUME NEW e \in 1 .. n, e # n PROVE stack'[e] = stack[e]
    BY <1>2, <2>2
  <2> QED BY <1>2, <1>7, <1>8, <2>1, <2>2 DEF SameTold
<1> QED BY <1>6, <1>9, SameGiven

\* The call an action is made by: an event, or the replay of its script.
LEMMA ParentIs ==
  ASSUME HostInv, Shape, stack # <<>>, Top.op = "action"
  PROVE  \E p \in 1 .. Len(stack) :
           /\ p + 1 = Len(stack) /\ p # Len(stack) /\ stack[p].i \in Nat \ {0}
           /\ \/ /\ stack[p].op \in EventOps /\ stack[p].op \notin ScriptOps
                 /\ stack[p].i - 1 \in 1 .. Len(list)
                 /\ Top.s = list[stack[p].i - 1] /\ Top.arg = stack[p].arg
                 /\ Outer(p) \/ Top.arg = "change"
              \/ /\ Loads(p, Top.s) /\ stack[p].step = "replay" /\ ~Outer(p)
                 /\ stack[p].s = Top.s
                 /\ stack[p].i - 1 \in 1 .. Len(eseen) /\ Top.arg = eseen[stack[p].i - 1]
<1>1. PICK n : n = Len(stack) /\ n \in 1 .. n /\ n \in Nat /\ Top = stack[n] /\ TypeOK /\ Chain
  BY TopIs, OnTop DEF HostInv, Shape
<1>2. n # 1
  BY <1>1 DEF Chain
<1>3. PICK p \in 1 .. n - 1 : p + 1 = n
  BY <1>1, <1>2
<1>4. p \in 1 .. n /\ p # n
  BY <1>1, <1>3
<1>5. Child(stack[p], stack[n])
  BY <1>1, <1>3 DEF Chain
<1>6. stack[p] \in CallType /\ stack[p].i \in Nat \ {0}
  BY <1>1, <1>4, WhereIs, CallIs
<1>7. CASE /\ stack[p].op \in EventOps /\ stack[p].i - 1 \in 1 .. Len(list)
           /\ Top.s = list[stack[p].i - 1] /\ Top.arg = stack[p].arg
  <2>1. Outer(p) \/ Top.arg = "change"
    BY <1>1, <1>4, <1>7, WhereIs DEF Outer, EventOps
  <2>2. stack[p].op \notin ScriptOps
    BY <1>7 DEF EventOps, ScriptOps
  <2> QED BY <1>1, <1>3, <1>4, <1>6, <1>7, <2>1, <2>2
<1>8. CASE /\ stack[p].op \in ScriptOps /\ stack[p].step = "replay"
           /\ stack[p].i - 1 \in 1 .. Len(eseen)
           /\ Top.s = stack[p].s /\ Top.arg = eseen[stack[p].i - 1]
  <2>1. Loads(p, Top.s) /\ ~Outer(p)
    BY <1>8 DEF Loads, LoadSteps, Outer, ScriptOps
  <2> QED BY <1>1, <1>3, <1>4, <1>6, <1>8, <2>1
<1> QED BY <1>1, <1>5, <1>7, <1>8 DEF Child

\* Whoever has looked at its script is not to be told what it has got.
LEMMA RunIs ==
  ASSUME HostInv, TextsInv, Run
  PROVE  /\ stack # <<>> /\ Top.op \in {"action", "file"} /\ Top.op \in ScriptOps /\ Top.step = "run"
         /\ UNCHANGED <<list, eseen>>
         /\ \E t \in Scripts :
              /\ t = Top.s /\ t \in ToSet(list)
              /\ \A s \in Scripts : s # t => ctx'[s] = ctx[s]
              /\ \/ Return /\ ctx' = ctx /\ (HasHandler(t) => Top.op = "file")
                 \/ /\ Goto("handler") /\ HasHandler(t)
                    /\ ctx'[t].got = Got(ctx[t].got, Top.arg) /\ ctx'[t].text = ctx[t].text
                    /\ Got(ctx[t].got, Top.arg) = ctx[t].got => ctx' = ctx
              /\ Top.op = "file" => ctx' = ctx
<1>1. /\ stack # <<>> /\ Top.op \in {"action", "file"} /\ Top.op \in ScriptOps /\ Top.step = "run"
      /\ UNCHANGED <<list, eseen>>
  BY DEF Run, At, ScriptOps
<1>2. PICK t \in Scripts : t = Top.s /\ t \in ToSet(list)
  BY <1>1, TopFresh DEF TextsInv
<1>3. PICK arg : arg = Top.arg
  OBVIOUS
<1>4. /\ ctx \in [Scripts -> [live : BOOLEAN, text : Texts \cup {NoText}, got : Seq(Lifecycle)]]
      /\ sfiles[t] \subseteq Paths
  BY <1>2 DEF HostInv, TypeOK
<1>5. CASE HasHandler(t) /\ (Top.op = "file" => arg \in sfiles[t])
  <2>1. PICK g : g = Got(ctx[t].got, arg)
    OBVIOUS
  <2>2. Goto("handler") /\ ctx' = [ctx EXCEPT ![t].got = g]
    BY <1>2, <1>3, <1>5, <2>1 DEF Run
  <2>3. ctx'[t].got = g /\ ctx'[t].text = ctx[t].text /\ \A s \in Scripts : s # t => ctx'[s] = ctx[s]
    BY <1>2, <1>4, <2>2
  <2>4. g = ctx[t].got => ctx' = ctx
    BY <1>2, <1>4, <2>2
  <2>5. Top.op = "file" => g = ctx[t].got
    <3>1. ASSUME Top.op = "file" PROVE arg \notin Lifecycle
      BY <1>4, <1>5, <3>1, PluginsAssumption DEF Codes
    <3> QED BY <2>1, <3>1 DEF Got
  <2> QED BY <1>1, <1>2, <1>3, <1>5, <2>1, <2>2, <2>3, <2>4, <2>5
<1>6. CASE ~(HasHandler(t) /\ (Top.op = "file" => arg \in sfiles[t]))
  <2>1. Return /\ ctx' = ctx
    BY <1>2, <1>3, <1>6 DEF Run
  <2> QED BY <1>1, <1>2, <1>6, <2>1
<1> QED BY <1>5, <1>6

LEMMA FileGiven ==
  ASSUME HostInv, Shape, TextsInv, Given, Run, Top.op = "file"
  PROVE  Given'
<1>1. /\ stack # <<>> /\ UNCHANGED <<list, eseen>> /\ ctx' = ctx /\ Top.step = "run"
      /\ (Return \/ Goto("handler")) /\ Top.op \in ScriptOps
  BY RunIs
<1>2. PICK n : n = Len(stack) /\ n \in 1 .. n /\ n \in Nat /\ Top = stack[n] /\ TypeOK /\ Chain
  BY <1>1, TopIs, OnTop DEF HostInv, Shape
<1>3. n = 1
  BY <1>2, WhereIs
<1>4. \A k \in 1 .. n : k = n
  BY <1>3
<1>5. \A k \in 1 .. n : ~Outer(k) /\ \A s : ~Loads(k, s)
  BY <1>1, <1>2, <1>4 DEF Outer, Loads, LoadSteps
<1>6. \A k \in 1 .. Len(stack') : ~Outer(k)' /\ \A s : ~Loads(k, s)'
  <2>1. CASE Return
    <3>1. Len(stack') = 0
      BY <1>1, <1>2, <1>3, <2>1, ReturnStack
    <3> QED BY <3>1
  <2>2. CASE Goto("handler")
    <3>1. /\ Len(stack') = n /\ stack'[n].step = "handler"
          /\ \A k \in 1 .. n : Like(k)
      BY <1>1, <1>2, <2>2, GotoStack DEF ScriptSteps
    <3> QED BY <1>2, <1>4, <1>5, <3>1 DEF Like, Loads, LoadSteps
  <2> QED BY <1>1, <2>1, <2>2
<1>7. ASSUME NEW s \in ToSet(list) PROVE GivenTo(s)'
  <2>1. HasHandler(s) => ctx[s].got = eseen
    BY <1>2, <1>5 DEF Given, GivenTo
  <2>2. HasHandler(s)' => ctx'[s].got = eseen'
    BY <1>1, <2>1 DEF HasHandler
  <2> QED BY <1>6, <2>2, GivenAll
<1> QED BY <1>1, <1>7 DEF Given

\* Every other script is told nothing by an action.
LEMMA ActionElsewhere ==
  ASSUME HostInv, Shape, stack # <<>>, Top.op = "action", NEW s, s # Top.s
  PROVE  \A k \in 1 .. Len(stack) : k + 1 = Len(stack) => Elsewhere(k, s)
<1>1. PICK p \in 1 .. Len(stack) :
           /\ p + 1 = Len(stack)
           /\ \/ /\ stack[p].op \notin ScriptOps /\ Top.s = list[stack[p].i - 1]
              \/ ~Outer(p) /\ stack[p].s = Top.s
  BY ParentIs
<1>2. Elsewhere(p, s)
  BY <1>1 DEF Elsewhere, Loads
<1>3. \A k \in 1 .. Len(stack) : k + 1 = Len(stack) => k = p
  BY <1>1
<1> QED BY <1>2, <1>3

\* A script without a handler has got nothing, nor counts it as told.
LEMMA NoHandlerGiven ==
  ASSUME HostInv, Shape, stack # <<>>, Top.op = "action", Top.step = "run", Return,
         UNCHANGED <<list, eseen, ctx>>, NEW t, t = Top.s, GivenTo(t), ~HasHandler(t)
  PROVE  GivenTo(t)'
<1>1. PICK n : n = Len(stack) /\ n \in 1 .. n /\ n \in Nat /\ Top = stack[n] /\ TypeOK /\ Chain
  BY TopIs, OnTop DEF HostInv, Shape
<1>2. /\ Len(stack') = n - 1
      /\ \A k \in 1 .. n - 1 : k \in 1 .. n /\ k # n /\ stack'[k] = stack[k] /\ Like(k)
      /\ \A k \in 1 .. n - 1 : k + 1 # n => Passed(k)' = Passed(k)
  BY <1>1, ReturnStack
<1>3. ~HasHandler(t)'
  BY DEF HasHandler
<1>4. \A k \in 1 .. n - 1 : Loads(k, t)' <=> Loads(k, t)
  BY <1>2, LoadsLike
<1>5. ASSUME NEW k \in 1 .. n - 1, Loads(k, t), NEW e \in 1 .. n - 1, Outer(e) PROVE ~Told(e, t)'
  <2>1. k \in 1 .. n /\ e \in 1 .. n
    BY <1>2
  <2>2. ~Told(e, t)
    BY <1>1, <1>5, <2>1 DEF GivenTo
  <2>3. e + 1 # n
    <3>1. ~(k <= e)
      BY <1>1, <1>5, <2>1, OuterIs
    <3> QED BY <1>1, <3>1
  <2>4. Told(e, t)' <=> Told(e, t)
    BY <1>2, <2>3, ToldSame
  <2> QED BY <2>2, <2>4
<1>6. ASSUME NEW k \in 1 .. n - 1, Loads(k, t)'
      PROVE  /\ stack'[k].step \in {"load", "eval"} => ctx'[t].got = <<>>
             /\ \A m \in 1 .. n - 1 : Loads(m, t)' => m = k
             /\ \A e \in 1 .. n - 1 : Outer(e)' => ~Told(e, t)'
  <2>1. k \in 1 .. n /\ Loads(k, t) /\ stack'[k] = stack[k]
    BY <1>2, <1>4, <1>6
  <2>2. /\ stack[k].step \in {"load", "eval"} => ctx[t].got = <<>>
        /\ \A m \in 1 .. n : Loads(m, t) => m = k
    BY <1>1, <2>1 DEF GivenTo
  <2>3. \A m \in 1 .. n - 1 : Loads(m, t)' => m = k
    BY <1>2, <1>4, <2>2
  <2>4. \A e \in 1 .. n - 1 : Outer(e)' => Outer(e)
    BY <1>2 DEF Like
  <2> QED BY <1>5, <2>1, <2>2, <2>3, <2>4
<1> QED BY <1>2, <1>3, <1>6 DEF GivenTo

\* A script is told an event of the outside.
LEMMA ToldGiven ==
  ASSUME HostInv, Shape, stack # <<>>, Top.op = "action", Top.step = "run", Goto("handler"),
         UNCHANGED <<list, eseen>>, NEW t, t = Top.s, GivenTo(t), HasHandler(t),
         ctx'[t].got = Got(ctx[t].got, Top.arg),
         NEW p \in 1 .. Len(stack), p + 1 = Len(stack), Outer(p), stack[p].i \in Nat \ {0},
         stack[p].i - 1 \in 1 .. Len(list), t = list[stack[p].i - 1], Top.arg = stack[p].arg
  PROVE  GivenTo(t)'
<1>1. PICK n : n = Len(stack) /\ n \in 1 .. n /\ n \in Nat /\ Top = stack[n] /\ TypeOK /\ Chain
  BY TopIs, OnTop DEF HostInv, Shape
<1>2. PICK arg : arg = Top.arg
  OBVIOUS
<1>3. /\ Len(stack') = n
      /\ \A k \in 1 .. n : k # n => stack'[k] = stack[k]
      /\ \A k \in 1 .. n : Like(k)
      /\ stack'[n].step = "handler"
      /\ \A k \in 1 .. n : k + 1 = n => Passed(k)' = Passed(k) + 1
  BY <1>1, GotoStack DEF ScriptSteps, ScriptOps
<1>4. \A e \in 1 .. n : Outer(e) => e = p
  BY <1>1, OuterIs
<1>5. \A k \in 1 .. n : ~Loads(k, t) /\ ~Loads(k, t)'
  <2>1. ~Loads(n, t) /\ ~Loads(n, t)'
    BY <1>1, <1>3 DEF Loads, LoadSteps
  <2>2. \A k \in 1 .. n : k # n => k <= p
    BY <1>1
  <2>3. \A k \in 1 .. n : k # n => ~Loads(k, t)
    BY <1>1, <2>2, OuterIs
  <2>4. \A k \in 1 .. n : k # n => (Loads(k, t)' <=> Loads(k, t))
    BY <1>3, LoadsLike
  <2> QED BY <2>1, <2>3, <2>4
<1>6. ctx[t].got \in {eseen, Got(eseen, arg)}
  BY <1>1, <1>2, <1>4, <1>5 DEF GivenTo
<1>7. Got(ctx[t].got, arg) = Got(eseen, arg)
  BY <1>1, <1>6, GotTwice DEF TypeOK
<1>8. Told(p, t)'
  <2>1. PICK i \in Nat \ {0} : i = stack[p].i
    OBVIOUS
  <2>2. Passed(p) = i - 2
    <3>1. p # Len(stack) /\ stack[p + 1] = Top
      BY <1>1
    <3>2. Passed(p) = stack[p].i - 2
      BY <3>1, PassedIs
    <3> QED BY <2>1, <3>2
  <2>3. Passed(p)' = i - 1
    BY <1>1, <1>3, <2>1, <2>2
  <2>4. i - 1 \in 1 .. i - 1 /\ list[i - 1] = t
    BY <2>1
  <2> QED BY <2>3, <2>4 DEF Told
<1>9. p # n /\ p \in 1 .. n
  BY <1>1
<1>10. \A e \in 1 .. n : Outer(e)' => e = p
  BY <1>3, <1>4 DEF Like
<1>11. Outer(p)' /\ stack'[p].arg = arg
  BY <1>2, <1>3, <1>9 DEF Like
<1>12. ctx'[t].got = Got(eseen', stack'[p].arg)
  BY <1>2, <1>7, <1>11
<1> QED BY <1>3, <1>5, <1>8, <1>9, <1>10, <1>11, <1>12 DEF GivenTo

\* A script that loads is told what came before.
LEMMA RetoldGiven ==
  ASSUME HostInv, Shape, stack # <<>>, Top.op = "action", Top.step = "run", Goto("handler"),
         UNCHANGED <<list, eseen>>, NEW t, t = Top.s, GivenTo(t), HasHandler(t),
         ctx'[t].got = Got(ctx[t].got, Top.arg),
         NEW p \in 1 .. Len(stack), p + 1 = Len(stack), Loads(p, t), stack[p].step = "replay",
         stack[p].i \in Nat \ {0},
         stack[p].i - 1 \in 1 .. Len(eseen), Top.arg = eseen[stack[p].i - 1]
  PROVE  GivenTo(t)'
<1>1. PICK n : n = Len(stack) /\ n \in 1 .. n /\ n \in Nat /\ Top = stack[n] /\ TypeOK /\ Chain
  BY TopIs, OnTop DEF HostInv, Shape
<1>2. PICK m \in 1 .. Len(eseen) : m = stack[p].i - 1
  OBVIOUS
<1>3. /\ Len(stack') = n
      /\ \A k \in 1 .. n : k # n => stack'[k] = stack[k]
      /\ \A k \in 1 .. n : Like(k)
      /\ stack'[n].step = "handler"
      /\ \A k \in 1 .. n : k # n /\ k + 1 # n => Passed(k)' = Passed(k)
      /\ \A k \in 1 .. n : k + 1 = n => Passed(k)' = Passed(k) + 1
  BY <1>1, GotoStack DEF ScriptSteps, ScriptOps
<1>4. p # n /\ p \in 1 .. n /\ stack'[p] = stack[p]
  BY <1>1, <1>3
<1>5. Passed(p) = m - 1 /\ Passed(p)' = m
  <2>1. p # Len(stack) /\ stack[p + 1] = Top
    BY <1>1
  <2>2. Passed(p) = stack[p].i - 2
    BY <2>1, PassedIs
  <2>3. Passed(p)' = Passed(p) + 1
    BY <1>1, <1>3
  <2>4. m \in Nat /\ stack[p].i \in Nat
    BY <1>2
  <2> QED BY <1>2, <2>2, <2>3, <2>4
<1>6. /\ ctx[t].got = SubSeq(eseen, 1, m - 1)
      /\ \A k \in 1 .. n : Loads(k, t) => k = p
      /\ \A e \in 1 .. n : Outer(e) => ~Told(e, t)
  BY <1>1, <1>4, <1>5 DEF GivenTo
<1>7. ctx'[t].got = SubSeq(eseen', 1, Passed(p)')
  <2>1. Once(eseen) /\ eseen \in Seq(Lifecycle)
    BY <1>1, OnceAre DEF TypeOK
  <2>2. Got(SubSeq(eseen, 1, m - 1), eseen[m]) = SubSeq(eseen, 1, m)
    BY <2>1, NextSent
  <2>3. Top.arg = eseen[m]
    BY <1>2
  <2> QED BY <1>5, <1>6, <2>2, <2>3
<1>8. \A k \in 1 .. n : Loads(k, t)' <=> k = p
  <2>1. ~Loads(n, t)'
    BY <1>3 DEF Loads, LoadSteps
  <2>2. \A k \in 1 .. n : k # n => (Loads(k, t)' <=> Loads(k, t))
    BY <1>3, LoadsLike
  <2> QED BY <1>4, <1>6, <2>1, <2>2
<1>9. ASSUME NEW e \in 1 .. n, Outer(e)' PROVE ~Told(e, t)'
  <2>1. Outer(e)
    BY <1>3, <1>9 DEF Like
  <2>2. stack[e].op \notin ScriptOps
    BY <1>1, <2>1, OuterIs
  <2>3. e # n /\ e # p
    BY <1>1, <2>2 DEF Loads, ScriptOps
  <2>4. e + 1 # n
    BY <1>1, <2>3
  <2>5. Told(e, t)' <=> Told(e, t)
    BY <1>3, <2>3, <2>4, ToldSame
  <2> QED BY <1>6, <2>1, <2>5
<1>10. stack'[p].step = "replay"
  BY <1>4
<1> QED BY <1>3, <1>4, <1>7, <1>8, <1>9, <1>10 DEF GivenTo

LEMMA RunGiven ==
  ASSUME HostInv, Shape, TextsInv, Given, Run
  PROVE  Given'
<1>1. /\ stack # <<>> /\ Top.op \in {"action", "file"} /\ Top.op \in ScriptOps /\ Top.step = "run"
      /\ UNCHANGED <<list, eseen>>
  BY RunIs
<1>2. CASE Top.op = "file"
  BY <1>2, FileGiven
<1>3. ASSUME Top.op = "action" PROVE Given'
  <2>1. PICK t \in Scripts :
              /\ t = Top.s /\ t \in ToSet(list)
              /\ \A s \in Scripts : s # t => ctx'[s] = ctx[s]
              /\ \/ Return /\ ctx' = ctx /\ ~HasHandler(t)
                 \/ /\ Goto("handler") /\ HasHandler(t)
                    /\ ctx'[t].got = Got(ctx[t].got, Top.arg)
                    /\ Got(ctx[t].got, Top.arg) = ctx[t].got => ctx' = ctx
    BY <1>3, RunIs
  <2>2. \A s \in ToSet(list) : s \in Scripts
    BY LensAre DEF HostInv
  <2>3. ASSUME NEW s \in ToSet(list), s # t PROVE GivenTo(s)'
    <3>1. \A k \in 1 .. Len(stack) : k + 1 = Len(stack) => Elsewhere(k, s)
      BY <1>1, <1>3, <2>1, <2>3, ActionElsewhere
    <3>2. ctx'[s] = ctx[s] /\ GivenTo(s)
      BY <2>1, <2>2, <2>3 DEF Given
    <3>3. ~Loads(Len(stack), s) /\ ~Outer(Len(stack))
      <4>1. Top = stack[Len(stack)]
        BY <1>1, TopIs DEF HostInv, TypeOK
      <4> QED BY <1>1, <4>1 DEF Loads, LoadSteps, Outer, ScriptOps
    <3>4. CASE Return
      BY <1>1, <3>1, <3>2, <3>3, <3>4, ReturnGiven
    <3>5. CASE Goto("handler")
      BY <1>1, <3>1, <3>2, <3>5, HandlerGiven
    <3> QED BY <2>1, <3>4, <3>5
  <2>4. GivenTo(t)
    BY <2>1 DEF Given
  <2>5. CASE Return /\ ctx' = ctx /\ ~HasHandler(t)
    <3>1. GivenTo(t)'
      BY <1>1, <1>3, <2>1, <2>4, <2>5, NoHandlerGiven
    <3> QED BY <1>1, <2>3, <3>1 DEF Given
  <2>6. CASE Goto("handler") /\ HasHandler(t) /\ ctx'[t].got = Got(ctx[t].got, Top.arg)
    <3>1. PICK p \in 1 .. Len(stack) :
           /\ p + 1 = Len(stack) /\ p # Len(stack) /\ stack[p].i \in Nat \ {0}
           /\ \/ /\ stack[p].op \in EventOps /\ stack[p].op \notin ScriptOps
                 /\ stack[p].i - 1 \in 1 .. Len(list)
                 /\ Top.s = list[stack[p].i - 1] /\ Top.arg = stack[p].arg
                 /\ Outer(p) \/ Top.arg = "change"
              \/ /\ Loads(p, Top.s) /\ stack[p].step = "replay" /\ ~Outer(p)
                 /\ stack[p].s = Top.s
                 /\ stack[p].i - 1 \in 1 .. Len(eseen) /\ Top.arg = eseen[stack[p].i - 1]
      BY <1>1, <1>3, ParentIs
    <3>2. ASSUME Outer(p) PROVE GivenTo(t)'
      BY <1>1, <1>3, <2>1, <2>4, <2>6, <3>1, <3>2, ToldGiven
    <3>3. ASSUME Loads(p, Top.s) PROVE GivenTo(t)'
      BY <1>1, <1>3, <2>1, <2>4, <2>6, <3>1, <3>3, RetoldGiven DEF Loads
    <3>4. ASSUME stack[p].op \notin ScriptOps, ~Outer(p), Top.arg = "change" PROVE GivenTo(t)'
      <4>1. Got(ctx[t].got, Top.arg) = ctx[t].got
        BY <3>4 DEF Got, Lifecycle
      <4>2. ctx' = ctx
        BY <2>1, <2>5, <4>1
      <4>3. Elsewhere(p, t)
        BY <3>4 DEF Elsewhere, Loads
      <4>4. \A k \in 1 .. Len(stack) : k + 1 = Len(stack) => k = p
        BY <3>1
      <4> QED BY <1>1, <2>4, <2>6, <4>2, <4>3, <4>4, HandlerGiven
    <3>5. GivenTo(t)'
      BY <3>1, <3>2, <3>3, <3>4
    <3> QED BY <1>1, <2>3, <3>5 DEF Given
  <2> QED BY <2>1, <2>5, <2>6
<1> QED BY <1>1, <1>2, <1>3

-----------------------------------------------------------------------------
\* Nothing changes but the variables the scripts' events do not need.
LEMMA StillGiven ==
  ASSUME Given, UNCHANGED <<list, eseen, ctx, stack>>
  PROVE  Given'
<1>1. ASSUME NEW s PROVE SameLoads(s) /\ SameTold(s)
  BY DEF SameLoads, SameTold, Loads, Told, Outer, Passed
<1>2. ASSUME NEW s \in ToSet(list) PROVE GivenTo(s)'
  BY <1>1, <1>2, SameGiven DEF Given
<1> QED BY <1>2 DEF Given

\* A call begins: it has told nobody anything.
LEMMA BegunGiven ==
  ASSUME Given, stack = <<>>, UNCHANGED <<list, eseen, ctx>>,
         \A k \in 1 .. Len(stack') : Started(stack'[k]),
         \A k \in 1 .. Len(stack') : Outer(k)' => Passed(k)' = 0
  PROVE  Given'
<1>1. ASSUME NEW s \in ToSet(list) PROVE GivenTo(s)'
  <2>1. HasHandler(s)' => ctx'[s].got = eseen'
    BY <1>1 DEF Given, GivenTo, HasHandler
  <2>2. \A k \in 1 .. Len(stack') : ~Loads(k, s)'
    BY DEF Started, Loads, LoadSteps
  <2>3. ASSUME NEW e \in 1 .. Len(stack'), Outer(e)', Told(e, s)' PROVE FALSE
    <3>1. PICK m \in 1 .. Passed(e)' : TRUE
      BY <2>3 DEF Told
    <3>2. Passed(e)' = 0
      BY <2>3
    <3> QED BY <3>1, <3>2
  <2> QED BY <2>1, <2>2, <2>3, GivenAll
<1> QED BY <1>1 DEF Given

LEMMA NobodyGiven ==
  ASSUME list' = <<>>
  PROVE  Given'
  BY DEF Given, ToSet

LEMMA HostGiven == ASSUME HostInv, Given, Host PROVE Given'
<1>1. CASE LoadConfig
  <2>1. list' = <<>>
    BY <1>1 DEF LoadConfig, PluginInit, NothingKept, HostInv, EngineUp
  <2> QED BY <2>1, NobodyGiven
<1>2. CASE Add \/ RemovePlugin
  BY <1>2, NobodyGiven DEF Add, RemovePlugin, PluginInit, NothingKept
<1>3. CASE NotReady
  BY <1>3, StillGiven DEF NotReady
<1>4. CASE Initialized \/ Ready \/ Event
  <2>1. PICK c \in Codes : Begin(c)
    BY <1>4 DEF Initialized, Ready, Event, Codes, Lifecycle
  <2>2. PICK e : stack' = <<e>> /\ Started(e)
    BY <2>1, StartedCalls DEF Begin
  <2> QED BY <2>1, <2>2, StartedStack, BegunGiven DEF Begin, Idle
<1>5. CASE Reload
  <2>1. CASE stack' = <<ConfigSet>> /\ UNCHANGED <<list, eseen, ctx>>
    <3>1. PICK e : stack' = <<e>> /\ Started(e)
      BY <2>1, StartedCalls
    <3> QED BY <1>5, <2>1, <3>1, StartedStack, BegunGiven DEF Reload, Idle
  <2>2. CASE NothingKept
    BY <2>2, NobodyGiven DEF NothingKept
  <2> QED BY <1>5, <2>1, <2>2 DEF Reload, PluginInit
<1>6. ASSUME NEW p \in Paths, FileCall(p) PROVE Given'
  <2>1. PICK s \in Scripts : stack' = <<CallFile(s, p)>>
    BY <1>6 DEF FileCall, ScriptOwning
  <2>2. PICK e : stack' = <<e>> /\ Started(e)
    BY <2>1, StartedCalls
  <2> QED BY <1>6, <2>2, StartedStack, BegunGiven DEF FileCall, Idle
<1> QED BY <1>1, <1>2, <1>3, <1>4, <1>5, <1>6 DEF Host

LEMMA StepGiven ==
  ASSUME HostInv, Shape, TextsInv, Given, [Next]_vars
  PROVE  Given'
<1>1. CASE Engine
  <2>1. CASE Replay
    BY <2>1, CallsGiven, ReplayedGiven
  <2>2. ASSUME NEW p \in Paths, FileAdd(p) \/ FileRemove(p) PROVE Given'
    BY <2>2, StillGiven DEF FileAdd, FileRemove
  <2> QED BY <1>1, <2>1, <2>2, LookGiven, CompareGiven, StartTimeGiven, LoadingGiven, RunGiven,
             CallsGiven, EventEndGiven, SetScriptsGiven DEF Engine
<1>2. CASE Host
  BY <1>2, HostGiven
<1>3. CASE Outside
  BY <1>3, StillGiven DEF Outside, OtherFile, Edit, Build
<1>4. CASE UNCHANGED vars
  BY <1>4, StillGiven DEF vars
<1> QED BY <1>1, <1>2, <1>3, <1>4 DEF Next

-----------------------------------------------------------------------------
LEMMA GivenInit == ASSUME Init PROVE Given
  BY DEF Init, Given, ToSet

PluginsInv == HostInv /\ Shape /\ TextsInv /\ Given

LEMMA PluginsInvariance ==
  ASSUME ~EditMeanwhile
  PROVE  Spec => []PluginsInv
<1>1. Init => PluginsInv
  BY HostInitInv, ShapeInit, FreshInit, GivenInit DEF PluginsInv
<1>2. PluginsInv /\ [Next]_vars => PluginsInv'
  BY HostStepInv, StepShape, StepFresh, StepGiven DEF PluginsInv
<1> QED BY <1>1, <1>2, PTL DEF Spec

\* For any number of scripts, texts and configurations: if scripts are edited
\* only between two calls, the text a script runs is that of its file once an
\* event has come by.
THEOREM EditsGoLive ==
  ASSUME ~EditMeanwhile
  PROVE  Spec => []EditIsLive
<1>1. PluginsInv => EditIsLive
  <2> SUFFICES ASSUME PluginsInv, stack = <<>>, NEW s \in ToSet(list) \ edited,
                      disk[s].text # NoText
               PROVE  ctx[s].text = disk[s].text
    BY DEF EditIsLive
  <2>1. s \in Scripts
    BY LensAre DEF PluginsInv, HostInv
  <2>2. SameText(s)
    BY DEF PluginsInv, TextsInv, FreshTexts, RestFresh
  <2>3. ctx[s].text = hash[s]
    BY <2>1 DEF PluginsInv, TextsInv, TextsKept, Taking
  <2> QED BY <2>2, <2>3 DEF SameText
<1> QED BY <1>1, PluginsInvariance, PTL

\* For any number of scripts, texts and configurations: with no call under way,
\* each script that runs has got the events of the start as they were sent,
\* whatever was loaded, replaced, replayed or edited between two calls.
THEOREM StartGetsKnown ==
  ASSUME ~EditMeanwhile
  PROVE  Spec => []StartIsKnown
<1>1. PluginsInv => StartIsKnown
  <2> SUFFICES ASSUME PluginsInv, stack = <<>>, loaded
               PROVE  /\ eseen = hseen
                      /\ \A s \in ToSet(list) : HasHandler(s) => ctx[s].got = hseen
    BY DEF StartIsKnown
  <2>1. eseen = hseen
    BY DEF PluginsInv, Shape, Seen
  <2>2. ASSUME NEW s \in ToSet(list), HasHandler(s) PROVE ctx[s].got = eseen
    BY <2>2 DEF PluginsInv, Given, GivenTo
  <2> QED BY <2>1, <2>2
<1> QED BY <1>1, PluginsInvariance, PTL

=============================================================================
