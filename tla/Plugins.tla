------------------------------ MODULE Plugins ------------------------------
(***************************************************************************)
(* The plugin host (src/plugins.cpp) and the scripts of its JavaScript     *)
(* plugin (plugin/jsengine.cpp): events, reloads of the library and of a   *)
(* script whose file changed, the files scripts add.                       *)
(*                                                                         *)
(* Plugins::mtx is held by every call into a plugin that changes it, so    *)
(* one call at a time is under way.  It may nest: a script that drives a   *)
(* device while it loads gets, in the same thread, the event of that       *)
(* change.  The stack has the calls under way, the innermost one last.     *)
(***************************************************************************)
EXTENDS Naturals, FiniteSets, SequencesExt

CONSTANTS
  Scripts,       \* paths of scripts
  Texts,         \* what their files may hold
  Paths,         \* files a plugin may add to the file system
  Below,         \* pairs of them: the first is a path below the second
  Configs,       \* lists of scripts a configuration may have
  MaxEdits,      \* bound: edits of each script
  EditMeanwhile  \* may a script be edited while a call is under way?

Lifecycle == {"initialized", "ready"}
Codes == Lifecycle \cup {"change", "other"}
NoText == "none"
Owners == {"nobody", "jsengine", "other"}
NoCtx == [live |-> FALSE, text |-> NoText, got |-> <<>>]
NewCtx == [live |-> TRUE, text |-> NoText, got |-> <<>>]

ASSUME PluginsAssumption ==
  /\ NoText \notin Texts
  /\ Below \subseteq Paths \X Paths
  /\ Paths \cap Codes = {}       \* a call is for a file or for an event
  /\ Configs \subseteq Seq(Scripts)
  /\ MaxEdits \in Nat
  /\ EditMeanwhile \in BOOLEAN

VARIABLES
  up,      \* how far main() is: "new", "config", "begin", "up"
  disk,    \* the script files: text (NoText: missing), time of modification
  lib,     \* the library on disk against the one loaded: same, new, gone
  (* Plugins *)
  loaded,  \* is the JavaScript plugin in plugins?
  hseen,   \* seen: lifecycle events sent
  files,   \* the owner of each file
  (* JsEngine *)
  list,    \* scripts, in the order of the configuration
  eseen,   \* its seen
  ctx,     \* a script's context: the text it runs, lifecycle events it got
  hash,    \* the text whose hash is kept
  mtime,   \* the time of modification kept
  sfiles,  \* the files a script added
  stack,   \* the calls under way
  start,   \* config_set(): the scripts it is given, then those to start
  (* history *)
  edited   \* the scripts edited since the last event began

host == <<loaded, hseen, lib>>
seenBy == <<hash, mtime>>
vars == <<up, disk, host, files, list, eseen, ctx, seenBy, sfiles, stack, start, edited>>

Init ==
  /\ up = "new"
  /\ disk \in [Scripts -> [text : Texts \cup {NoText}, mtime : {1}]]
  /\ lib = "same"
  /\ loaded = FALSE /\ hseen = <<>>
  /\ files = [p \in Paths |-> "nobody"]
  /\ list = <<>> /\ eseen = <<>> /\ start = <<>>
  /\ ctx = [s \in Scripts |-> NoCtx]
  /\ hash = [s \in Scripts |-> NoText]
  /\ mtime = [s \in Scripts |-> 0]
  /\ sfiles = [s \in Scripts |-> {}]
  /\ stack = <<>>
  /\ edited = {}

-----------------------------------------------------------------------------
(***************************************************************************)
(* Calls                                                                   *)
(***************************************************************************)
NoScript == "none"
Call(op, s, arg, step) == [op |-> op, s |-> s, arg |-> arg, step |-> step, i |-> 1]

\* action() of the host, and of the engine alone (catch_up()); script_action(),
\* start_script() and call_file() of a script; config_set(); catch_up()
HostEvent(c) == Call("event", NoScript, c, "each")
CatchUpEvent(c) == Call("catchup_event", NoScript, c, "each")
ScriptAction(s, c) == Call("action", s, c, "look")
StartScript(s) == Call("start", s, "none", "hash")
CallFile(s, p) == Call("file", s, p, "look")
ConfigSet == Call("config", NoScript, "none", "set")
CatchUp == Call("catchup", NoScript, "none", "each")

Top == Last(stack)
At(ops, step) == stack # <<>> /\ Top.op \in ops /\ Top.step = step
Goto(step) == stack' = [stack EXCEPT ![Len(stack)].step = step, ![Len(stack)].i = 1]
Return == stack' = Front(stack)
\* the i-th of a loop: into the call, at i + 1 when it is back
Each(c) == stack' = Append([stack EXCEPT ![Len(stack)].i = @ + 1], c)

Idle == stack = <<>>

\* seen gets each lifecycle code once
Noted(seen, c) == IF c \in Lifecycle /\ (\A k \in DOMAIN seen : seen[k] # c)
                    THEN Append(seen, c) ELSE seen
\* (a ready that comes again with a scan is not counted)
Got(got, c) == IF c \in Lifecycle /\ (got = <<>> \/ Last(got) # c) THEN Append(got, c) ELSE got

ScriptOps == {"action", "start", "file"}

\* free_context() of some scripts: their files go with them
LeavesFiles(S, new) ==                                              \* mutant
  /\ ctx' = [s \in Scripts |-> IF s \in S THEN new ELSE ctx[s]]
  /\ sfiles' = [s \in Scripts |-> IF s \in S THEN {} ELSE sfiles[s]]
  /\ UNCHANGED files
FreeContexts(S, new) ==
  /\ ctx' = [s \in Scripts |-> IF s \in S THEN new ELSE ctx[s]]
  /\ files' = [p \in Paths |-> IF \E s \in S : p \in sfiles[s] THEN "nobody" ELSE files[p]]
  /\ sfiles' = [s \in Scripts |-> IF s \in S THEN {} ELSE sfiles[s]]

-----------------------------------------------------------------------------
(***************************************************************************)
(* One script                                                              *)
(***************************************************************************)

(* check_script(): is the file there, and another one than was loaded? *)
LoadedOnce(s) == disk[s].text = NoText \/ mtime[s] # 0              \* mutant
Unchanged(s) == disk[s].text = NoText \/ disk[s].mtime = mtime[s]
SameText(s) == disk[s].text \in {NoText, hash[s]}

\* What a call is made for, once its script has been looked at
Checked == IF Top.op = "start" THEN Return ELSE Goto("run")

Look ==
  /\ At({"action", "file"}, "look")
  /\ IF Unchanged(Top.s)
       THEN Goto("run") /\ UNCHANGED mtime
       ELSE Goto("compare") /\ mtime' = [mtime EXCEPT ![Top.s] = disk[Top.s].mtime]
  /\ UNCHANGED <<up, disk, host, files, list, eseen, ctx, hash, sfiles, start, edited>>

Compare ==
  /\ At({"action", "file"}, "compare")
  /\ IF SameText(Top.s)
       THEN Goto("run") /\ UNCHANGED <<hash, ctx, files, sfiles>>
       ELSE /\ Goto("load")
            /\ hash' = [hash EXCEPT ![Top.s] = disk[Top.s].text]
            /\ FreeContexts({Top.s}, NewCtx)
  /\ UNCHANGED <<up, disk, host, list, eseen, mtime, start, edited>>

(* start_script(): first the hash, then the time *)
StartHash ==
  /\ At({"start"}, "hash")
  /\ hash' = [hash EXCEPT ![Top.s] = disk[Top.s].text]
  /\ Goto("mtime")
  /\ UNCHANGED <<up, disk, host, files, list, eseen, ctx, mtime, sfiles, start, edited>>

StartTime ==
  /\ At({"start"}, "mtime")
  /\ mtime' = [mtime EXCEPT ![Top.s] =
                 IF disk[Top.s].text = NoText THEN 0 ELSE disk[Top.s].mtime]
  /\ FreeContexts({Top.s}, NewCtx)
  /\ Goto("load")
  /\ UNCHANGED <<up, disk, host, list, eseen, hash, start, edited>>

\* load_script(): the text there is now.
LoadScript ==
  /\ At(ScriptOps, "load")
  /\ ctx' = [ctx EXCEPT ![Top.s].text = disk[Top.s].text]
  /\ Goto(IF disk[Top.s].text = NoText THEN "replay" ELSE "eval")
  /\ UNCHANGED <<up, disk, host, files, list, eseen, seenBy, sfiles, start, edited>>

\* It has run, or thrown, or was interrupted.
Evaluated ==
  /\ At(ScriptOps, "eval")
  /\ Goto("replay")
  /\ UNCHANGED <<up, disk, host, files, list, eseen, ctx, seenBy, sfiles, start, edited>>

\* replay(): what came before, to this script alone.
Replay ==
  /\ At(ScriptOps, "replay")
  /\ IF Top.i <= Len(eseen) THEN Each(ScriptAction(Top.s, eseen[Top.i])) ELSE Checked
  /\ UNCHANGED <<up, disk, host, files, list, eseen, ctx, seenBy, sfiles, start, edited>>

\* onAction() of the script, or onRead() and onWrite() if the file is still its.
HasHandler(s) == ctx[s].text # NoText

Run ==
  /\ At({"action", "file"}, "run")
  /\ IF HasHandler(Top.s) /\ (Top.op = "file" => Top.arg \in sfiles[Top.s])
       THEN /\ Goto("handler")
            /\ ctx' = [ctx EXCEPT ![Top.s].got = Got(@, Top.arg)]
       ELSE Return /\ UNCHANGED ctx
  /\ UNCHANGED <<up, disk, host, files, list, eseen, seenBy, sfiles, start, edited>>

Handled ==
  /\ At({"action", "file"}, "handler")
  /\ Return
  /\ UNCHANGED <<up, disk, host, files, list, eseen, ctx, seenBy, sfiles, start, edited>>

-----------------------------------------------------------------------------
(***************************************************************************)
(* What a script does meanwhile                                            *)
(***************************************************************************)
Running == stack # <<>> /\ Top.step \in {"eval", "handler"}

\* file_add() of the host
Clashes(p) == \E q \in Paths : files[q] # "nobody" /\ (<<p, q>> \in Below \/ <<q, p>> \in Below)
MayAdd(p, owner) == files[p] = owner \/ (files[p] = "nobody" /\ ~Clashes(p))

\* js_file_add(): not one of another script either.
ScriptOwning(p) == {s \in Scripts : p \in sfiles[s]}

FileAdd(p) ==
  /\ Running
  /\ ScriptOwning(p) \subseteq {Top.s}
  /\ MayAdd(p, "jsengine")
  /\ files' = [files EXCEPT ![p] = "jsengine"]
  /\ sfiles' = [sfiles EXCEPT ![Top.s] = @ \cup {p}]
  /\ UNCHANGED <<up, disk, host, list, eseen, ctx, seenBy, stack, start, edited>>

FileRemove(p) ==
  /\ Running
  /\ p \in sfiles[Top.s]
  /\ files' = [files EXCEPT ![p] = "nobody"]
  /\ sfiles' = [sfiles EXCEPT ![Top.s] = @ \ {p}]
  /\ UNCHANGED <<up, disk, host, list, eseen, ctx, seenBy, stack, start, edited>>

\* It drives a device: the event of that comes back here at once.  From a
\* handler (depth > 0) action() drops it; while the script loads nothing does.
Drive ==
  /\ At(ScriptOps, "eval")
  /\ stack' = Append(stack, HostEvent("change"))
  /\ UNCHANGED <<up, disk, host, files, list, eseen, ctx, seenBy, sfiles, start, edited>>

-----------------------------------------------------------------------------
(***************************************************************************)
(* Events                                                                  *)
(***************************************************************************)

\* action(), of the host if anything happens, of the engine alone to catch up:
\* every script in turn, and seen only after that.
EventScript ==
  /\ At({"event", "catchup_event"}, "each")
  /\ Top.i <= Len(list)
  /\ Each(ScriptAction(list[Top.i], Top.arg))
  /\ UNCHANGED <<up, disk, host, files, list, eseen, ctx, seenBy, sfiles, start, edited>>

EventEnd ==
  /\ At({"event", "catchup_event"}, "each")
  /\ Top.i > Len(list)
  /\ eseen' = IF loaded THEN Noted(eseen, Top.arg) ELSE eseen
  /\ hseen' = IF Top.op = "event" THEN Noted(hseen, Top.arg) ELSE hseen
  /\ Return
  /\ UNCHANGED <<up, disk, loaded, lib, files, list, ctx, seenBy, sfiles, start, edited>>

\* main(), the poll worker, a scan, a change of a device
Begin(c) ==
  /\ Idle
  /\ stack' = <<HostEvent(c)>>
  /\ edited' = {}
  /\ UNCHANGED <<disk, host, files, list, eseen, ctx, seenBy, sfiles, start>>

Initialized == up = "config" /\ up' = "begin" /\ Begin("initialized")
\* ready comes again with every scan, which calls begin() at its end
Ready == up \in {"begin", "up"} /\ up' = "up" /\ Begin("ready")
Event == up = "up" /\ up' = up /\ Begin("other")

\* The configuration does not load, or the controller does not start: a later
\* scan may find it
NotReady ==
  /\ stack = <<>>
  /\ \/ up = "config" /\ up' = "begin"
     \/ up = "begin" /\ up' = "up"
  /\ UNCHANGED <<disk, host, files, list, eseen, ctx, seenBy, sfiles, stack, start, edited>>

-----------------------------------------------------------------------------
(***************************************************************************)
(* Plugins come and go                                                     *)
(***************************************************************************)

KeepsSeen ==                                                        \* mutant
  /\ list' = <<>> /\ eseen' = eseen
  /\ hash' = [s \in Scripts |-> NoText] /\ mtime' = [s \in Scripts |-> 0]
NothingKept ==
  /\ list' = <<>> /\ eseen' = <<>>
  /\ hash' = [s \in Scripts |-> NoText] /\ mtime' = [s \in Scripts |-> 0]

\* plugin_init(): a new engine has no script and has seen nothing.
PluginInit == lib # "gone" /\ loaded' = TRUE /\ lib' = "same" /\ NothingKept

\* unload(): exit() frees every context, no file is left.
Unload ==
  /\ ctx' = [s \in Scripts |-> NoCtx]
  /\ sfiles' = [s \in Scripts |-> {}]
  /\ files' = [p \in Paths |-> IF files[p] = "jsengine" THEN "nobody" ELSE files[p]]

\* load(): the plugin of the configuration, if there is one and it loads; or
\* the configuration does not.
LoadConfig ==
  /\ up = "new"
  /\ \/ PluginInit /\ up' = "config" /\ start' \in Configs /\ stack' = <<CatchUp, ConfigSet>>
     \/ up' \in {"config", "begin"} /\ UNCHANGED <<loaded, lib, list, eseen, seenBy, start, stack>>
  /\ UNCHANGED <<disk, hseen, files, ctx, sfiles, edited>>

\* config_set(): the list in place first, then each script that is new in it or
\* has another text; one that is not in it any more is stopped.
FirstAt(seq, s) == CHOOSE n \in DOMAIN seq : seq[n] = s /\ \A m \in 1 .. n - 1 : seq[m] # s
Ordered(S, seq) ==
  {l \in [1 .. Cardinality(S) -> S] :
     ToSet(l) = S /\ \A m, n \in DOMAIN l : m < n => FirstAt(seq, l[m]) < FirstAt(seq, l[n])}
Stopped(next) == ToSet(list) \ ToSet(next)

SetScripts ==
  /\ At({"config"}, "set")
  /\ list' \in Ordered(ToSet(start), start)
  /\ start' \in Ordered({s \in ToSet(start) : ~ctx[s].live \/ disk[s].text # hash[s]}, start)
  /\ FreeContexts(Stopped(list'), NoCtx)
  /\ hash' = [s \in Scripts |-> IF s \in Stopped(list') THEN NoText ELSE hash[s]]
  /\ mtime' = [s \in Scripts |-> IF s \in Stopped(list') THEN 0 ELSE mtime[s]]
  /\ Goto("each")
  /\ UNCHANGED <<up, disk, host, eseen, edited>>

StartEach ==
  /\ At({"config"}, "each")
  /\ IF Top.i <= Len(start) THEN Each(StartScript(start[Top.i])) ELSE Return
  /\ UNCHANGED <<up, disk, host, files, list, eseen, ctx, seenBy, sfiles, start, edited>>

\* catch_up(): what was sent before it was loaded.
CatchUpEach ==
  /\ At({"catchup"}, "each")
  /\ IF Top.i <= Len(hseen) THEN Each(CatchUpEvent(hseen[Top.i])) ELSE Return
  /\ UNCHANGED <<up, disk, host, files, list, eseen, ctx, seenBy, sfiles, start, edited>>

\* add(), by touching a file of that name: it has no configuration.
Add ==
  /\ Idle /\ up = "up" /\ ~loaded
  /\ PluginInit
  /\ stack' = <<CatchUp>>
  /\ UNCHANGED <<up, disk, hseen, files, ctx, sfiles, start, edited>>

RemovePlugin ==
  /\ Idle /\ up = "up" /\ loaded
  /\ Unload /\ loaded' = FALSE /\ NothingKept
  /\ UNCHANGED <<up, disk, hseen, lib, stack, start, edited>>

\* reload(): the same library gets its configuration again, another one is
\* loaded in its place, which may fail.
Reload ==
  /\ Idle /\ up = "up" /\ loaded
  /\ start' = list
  /\ \/ /\ lib # "new"
        /\ stack' = <<ConfigSet>>
        /\ UNCHANGED <<loaded, lib, files, list, eseen, ctx, seenBy, sfiles>>
     \/ /\ lib = "new"
        /\ Unload
        /\ PluginInit
        /\ stack' = <<CatchUp, ConfigSet>>
     \/ /\ lib = "new"
        /\ Unload
        /\ loaded' = FALSE /\ NothingKept
        /\ UNCHANGED <<lib, stack>>
  /\ UNCHANGED <<up, disk, hseen, edited>>

\* file_read(), file_write(): its owner is asked.
FileCall(p) ==
  /\ Idle /\ up = "up" /\ files[p] = "jsengine"
  /\ \E s \in ScriptOwning(p) : stack' = <<CallFile(s, p)>>
  /\ UNCHANGED <<up, disk, host, files, list, eseen, ctx, seenBy, sfiles, start, edited>>

-----------------------------------------------------------------------------
(***************************************************************************)
(* The others: another plugin, with threads of its own, and who edits      *)
(* scripts and builds libraries                                            *)
(***************************************************************************)
OtherFile(p) ==
  /\ \/ files[p] # "other" /\ MayAdd(p, "other") /\ files' = [files EXCEPT ![p] = "other"]
     \/ files[p] = "other" /\ files' = [files EXCEPT ![p] = "nobody"]
  /\ UNCHANGED <<up, disk, host, list, eseen, ctx, seenBy, sfiles, stack, start, edited>>

Edit(s, t) ==
  /\ EditMeanwhile \/ stack = <<>>
  /\ disk[s].mtime <= MaxEdits
  /\ disk' = [disk EXCEPT ![s] = [text |-> t, mtime |-> @.mtime + 1]]
  /\ edited' = edited \cup {s}
  /\ UNCHANGED <<up, host, files, list, eseen, ctx, seenBy, sfiles, stack, start>>

Build(l) ==
  /\ lib' = l
  /\ UNCHANGED <<up, disk, loaded, hseen, files, list, eseen, ctx, seenBy, sfiles, stack,
                 start, edited>>

-----------------------------------------------------------------------------

Engine ==
  \/ Look \/ Compare \/ StartHash \/ StartTime \/ LoadScript \/ Evaluated \/ Replay \/ Run
  \/ Handled \/ Drive \/ EventScript \/ EventEnd \/ SetScripts \/ StartEach \/ CatchUpEach
  \/ \E p \in Paths : FileAdd(p) \/ FileRemove(p)

Host ==
  \/ LoadConfig \/ Initialized \/ Ready \/ NotReady \/ Event \/ Add \/ RemovePlugin \/ Reload
  \/ \E p \in Paths : FileCall(p)

Outside ==
  \/ \E p \in Paths : OtherFile(p)
  \/ \E s \in Scripts, t \in Texts \cup {NoText} : Edit(s, t)
  \/ \E l \in {"new", "gone"} : Build(l)

Next == Engine \/ Host \/ Outside

Spec == Init /\ [][Next]_vars

-----------------------------------------------------------------------------
(***************************************************************************)
(* Properties                                                              *)
(***************************************************************************)
CallType ==
  [op : {"event", "catchup_event", "action", "start", "file", "config", "catchup"},
   s : Scripts \cup {NoScript}, arg : Codes \cup Paths \cup {"none"},
   step : {"each", "look", "compare", "hash", "mtime", "load", "eval", "replay", "run",
           "handler", "set"},
   i : Nat \ {0}]

\* The variables keep their types.
TypeOK ==
  /\ up \in {"new", "config", "begin", "up"}
  /\ disk \in [Scripts -> [text : Texts \cup {NoText}, mtime : 1..(MaxEdits + 1)]]
  /\ lib \in {"same", "new", "gone"}
  /\ loaded \in BOOLEAN
  /\ hseen \in Seq(Lifecycle) /\ eseen \in Seq(Lifecycle)
  /\ files \in [Paths -> Owners]
  /\ list \in Seq(Scripts) /\ start \in Seq(Scripts)
  /\ ctx \in [Scripts -> [live : BOOLEAN, text : Texts \cup {NoText}, got : Seq(Lifecycle)]]
  /\ hash \in [Scripts -> Texts \cup {NoText}]
  /\ mtime \in [Scripts -> 0..(MaxEdits + 1)]
  /\ sfiles \in [Scripts -> SUBSET Paths]
  /\ stack \in Seq(CallType)
  /\ edited \subseteq Scripts

\* Whenever a plugin is loaded, a library is replaced or a script edited: with
\* no call under way, each running script has got the lifecycle events sent so
\* far, in order, and none twice.
StartIsKnown ==
  stack = <<>> /\ loaded =>
    /\ eseen = hseen
    /\ \A s \in ToSet(list) : HasHandler(s) => ctx[s].got = hseen

\* A file of the engine is that of just one of its scripts, and goes with it:
\* also when the script fails, is reloaded or the library is.
FilesOfScripts ==
  \A p \in Paths :
    /\ files[p] = "jsengine" <=> \E s \in ToSet(list) : p \in sfiles[s]
    /\ \A s, t \in Scripts : p \in sfiles[s] \cap sfiles[t] => s = t

\* "an edit is live within about a second" (plugin/jsengine.cpp:68): once an
\* event has come after it, the script runs what its file holds.
EditIsLive ==
  stack = <<>> /\ up = "up" =>
    \A s \in ToSet(list) \ edited : disk[s].text # NoText => ctx[s].text = disk[s].text

=============================================================================
