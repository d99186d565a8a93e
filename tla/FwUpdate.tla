------------------------------ MODULE FwUpdate ------------------------------
(***************************************************************************)
(* The firmware update of one owSlave: the write to its `firmware` file    *)
(* (w_firmware()), the thread that runs the update (fw_run() of            *)
(* src/ds2408.cpp) and the pages it writes (fw_flash(), page_write() of    *)
(* src/fw_update.cpp), over a bus that loses answers, to a device that may *)
(* lose its power.  The daemon may crash at any point.                     *)
(*                                                                         *)
(* The bootloader is owSlave's.  It is modelled from how fw_update.cpp     *)
(* uses it: it starts the application if there is one in page 0.           *)
(***************************************************************************)
EXTENDS Integers

CONSTANTS
  Images,      \* the firmware images
  Old,         \* what is on the device before the first update
  PageCount,   \* number of pages of each image
  MaxPage,     \* the last page of the device
  Tries,       \* FW_PAGE_TRIES
  Users,       \* FUSE threads writing the `firmware` file
  NoUser       \* nobody

ASSUME FwAssumption ==
  /\ Images # {}
  /\ MaxPage \in Nat
  /\ PageCount \in [Images -> 1..(MaxPage + 1)]
  /\ Tries \in Nat \ {0}
  /\ Old \notin Images /\ NoUser \notin Users
  /\ {"erased", "bad"} \cap (Images \cup {Old}) = {}

Pages == 0..MaxPage
Data == Images \cup {Old, "erased", "bad"}

VARIABLES
  flash,   \* the device: what each page holds
  boot,    \* the device: it runs its bootloader
  lock,    \* the device lock: a user, "fw" (the thread), or NoUser
  busy,    \* fw_busy
  thr,     \* fw_thread: "none", "running", "ended" (joinable)
  user,    \* where each user is in w_firmware()
  pc,      \* where the update thread is
  img,     \* the image it writes
  page,    \* the page page_write() writes, and whether it erases page 0
  try      \* its tries left

device == <<flash, boot>>
update == <<pc, img, page, try>>
vars == <<flash, boot, lock, busy, thr, user, pc, img, page, try>>

UserState == {"idle", "locked", "join"}
ThreadState == {"none", "info", "enter", "entered", "flash", "write", "read",
                "exit", "restart", "fail", "done", "failed"}
NoImage == CHOOSE i \in Images : TRUE

\* What page_write() is at: page 0 being erased, or a page of the image.  The
\* update starts with the first.
Erase == [no |-> 0, erase |-> TRUE]
PageNo(n) == [no |-> n, erase |-> FALSE]
PageData(i, pg) == IF pg.erase THEN "erased" ELSE i

Init ==
  /\ flash = [p \in Pages |-> Old]
  /\ boot = FALSE
  /\ lock = NoUser
  /\ busy = FALSE
  /\ thr = "none"
  /\ user = [u \in Users |-> "idle"]
  /\ pc = "none"
  /\ img = NoImage
  /\ page = Erase
  /\ try = Tries

-----------------------------------------------------------------------------
(***************************************************************************)
(* w_firmware(), under the device lock from start to end.                  *)
(***************************************************************************)
UserAt(u, l) == user' = [user EXCEPT ![u] = l]

TakeLock(u) ==
  /\ user[u] = "idle"
  /\ lock = NoUser
  /\ lock' = u
  /\ UserAt(u, "locked")
  /\ UNCHANGED <<device, busy, thr, update>>

\* -EBUSY while an update runs, or the image does not load.
Refuse(u) ==
  /\ user[u] = "locked"
  /\ lock' = NoUser
  /\ UserAt(u, "idle")
  /\ UNCHANGED <<device, busy, thr, update>>

\* mutant: a second update while one runs
LoadsAnyway(u) == user[u] = "locked" /\ UserAt(u, "join")
Loads(u) == user[u] = "locked" /\ ~busy /\ UserAt(u, "join")

Load(u) ==
  /\ Loads(u)
  /\ UNCHANGED <<device, lock, busy, thr, update>>

\* join() returns once the thread of the last update has ended.
NoJoin(u) == user[u] = "join"                                       \* mutant
CanJoin(u) == user[u] = "join" /\ thr \in {"none", "ended"}

Start(u) ==
  /\ CanJoin(u)
  /\ busy' = TRUE
  /\ thr' = "running"
  /\ pc' = "info"
  /\ \E i \in Images : img' = i
  /\ page' = Erase
  /\ try' = Tries
  /\ lock' = NoUser
  /\ UserAt(u, "idle")
  /\ UNCHANGED device

-----------------------------------------------------------------------------
(***************************************************************************)
(* fw_run(), the thread.                                                   *)
(***************************************************************************)
\* A step of the thread that needs no lock and leaves the device alone
Step(from, to) ==
  /\ pc = from
  /\ pc' = to
  /\ UNCHANGED <<device, lock, busy, thr, user, img, page, try>>

\* link->info(): only the bootloader answers, and not always.
Info ==
  \/ Step("info", "flash") /\ boot
  \/ Step("info", "enter")

\* fw_enter(), under the device lock: the answer does not tell whether the
\* device got it.
FwEnter ==
  /\ pc = "enter"
  /\ lock = NoUser
  /\ boot' \in {boot, TRUE}
  /\ pc' \in {"entered", "fail"}
  /\ UNCHANGED <<flash, lock, busy, thr, user, img, page, try>>

InfoAgain ==
  \/ Step("entered", "flash") /\ boot
  \/ Step("entered", "fail")

\* fw_flash() starts: an info of its own, the image has to fit and to have a
\* reset vector.
BeginFlash ==
  /\ pc = "flash"
  /\ \/ boot /\ pc' = "write"
     \/ pc' = "fail"
  /\ page' = Erase
  /\ try' = Tries
  /\ UNCHANGED <<device, lock, busy, thr, user, img>>

(***************************************************************************)
(* One write_page().  The page is programmed or not, the answer comes back *)
(* or not; the device may program it badly, and notice or not.             *)
(***************************************************************************)
Program(d) == flash' = [flash EXCEPT ![page.no] = d]
NotProgrammed == UNCHANGED flash

\* A try that failed: the next one, or the update has failed.
RetryForEver == /\ try' = try                                       \* mutant
                /\ pc' = "write"
Retry == /\ try' = try - 1
         /\ pc' = IF try > 1 THEN "write" ELSE "fail"

WritePage ==
  /\ pc = "write"
  /\ \/ /\ boot                                      \* BL_OK
        /\ \/ Program(PageData(img, page))
           \/ Program("bad")
        /\ pc' = "read"
        /\ UNCHANGED try
     \/ /\ boot                                      \* the answer is lost, or
        /\ \/ Program(PageData(img, page))           \* BL_ERR_VERIFY
           \/ Program("bad")
        /\ Retry
     \/ NotProgrammed /\ Retry                       \* nobody answered
     \/ boot /\ NotProgrammed /\ pc' = "fail" /\ UNCHANGED try  \* BL_ERR_ADDR
  /\ UNCHANGED <<boot, lock, busy, thr, user, img, page>>

(***************************************************************************)
(* After the erased page 0 come the pages from 1, then page 0: the page    *)
(* after pg, of n pages.                                                   *)
(***************************************************************************)
StopsShort(pg, n) == PageNo(IF pg.no + 2 < n THEN pg.no + 1 ELSE 0) \* mutant
NextPage(pg, n) == PageNo(IF pg.no + 1 < n THEN pg.no + 1 ELSE 0)
LastPage(pg) == pg = PageNo(0)

\* What a good read_page() gives.  Mutant: the answer BL_OK is trusted.
ReadsAnything(pg) == TRUE
ReadsBack(pg) == flash[pg.no] = PageData(img, pg)

\* read_page() and the comparison; a page that reads back as written is done.
ReadPage ==
  /\ pc = "read"
  /\ \/ /\ boot /\ ReadsBack(page)
        /\ page' = IF LastPage(page) THEN page ELSE NextPage(page, PageCount[img])
        /\ pc' = IF LastPage(page) THEN "exit" ELSE "write"
        /\ try' = Tries
     \/ /\ Retry
        /\ UNCHANGED page
  /\ UNCHANGED <<device, lock, busy, thr, user, img>>

\* link->exit(): to the application; the answer may be lost.
Exit ==
  /\ pc = "exit"
  /\ \/ boot /\ flash[0] # "erased" /\ boot' = FALSE /\ pc' \in {"restart", "fail"}
     \/ UNCHANGED boot /\ pc' = "fail"
  /\ UNCHANGED <<flash, lock, busy, thr, user, img, page, try>>

(***************************************************************************)
(* The end, one step under the device lock: fw_busy is cleared and, after  *)
(* a good update, the registers are read.  After that the thread needs the *)
(* lock no more.                                                           *)
(***************************************************************************)
Finish ==
  /\ pc \in {"restart", "fail"}
  /\ lock = NoUser
  /\ busy' = FALSE
  /\ pc' = IF pc = "restart" THEN "done" ELSE "failed"
  /\ UNCHANGED <<device, lock, thr, user, img, page, try>>

EndThread ==
  /\ pc \in {"done", "failed"}
  /\ thr = "running"
  /\ thr' = "ended"
  /\ UNCHANGED <<device, lock, busy, user, update>>

-----------------------------------------------------------------------------
(***************************************************************************)
(* The device loses its power: its bootloader starts the application if it *)
(* finds one.  The daemon crashes: the device stays as it is.              *)
(***************************************************************************)
DevicePower ==
  /\ boot' = (flash[0] = "erased")
  /\ UNCHANGED <<flash, lock, busy, thr, user, update>>

DaemonCrash ==
  /\ lock' = NoUser
  /\ busy' = FALSE
  /\ thr' = "none"
  /\ user' = [u \in Users |-> "idle"]
  /\ pc' = "none"
  /\ img' = NoImage
  /\ page' = Erase
  /\ try' = Tries
  /\ UNCHANGED device

FwThread ==
  \/ Info \/ FwEnter \/ InfoAgain \/ BeginFlash \/ WritePage \/ ReadPage \/ Exit
  \/ Finish \/ EndThread

User(u) == TakeLock(u) \/ Refuse(u) \/ Load(u) \/ Start(u)

Next ==
  \/ FwThread
  \/ \E u \in Users : User(u)
  \/ DevicePower
  \/ DaemonCrash

Spec == Init /\ [][Next]_vars

\* The operations of w_firmware() end, and so do those of the thread: it gets
\* the device lock when that is free again and again.
Fairness ==
  /\ SF_vars(FwThread)
  /\ \A u \in Users : WF_vars(Refuse(u) \/ Load(u) \/ Start(u))

FairSpec == Spec /\ Fairness

-----------------------------------------------------------------------------
(***************************************************************************)
(* Properties                                                              *)
(***************************************************************************)

\* The variables keep their types.
TypeOK ==
  /\ flash \in [Pages -> Data]
  /\ boot \in BOOLEAN
  /\ lock \in Users \cup {NoUser}
  /\ busy \in BOOLEAN
  /\ thr \in {"none", "running", "ended"}
  /\ user \in [Users -> UserState]
  /\ pc \in ThreadState
  /\ img \in Images
  /\ page \in [no : Pages, erase : BOOLEAN]
  /\ try \in 0..Tries

Holds(i) == \A p \in 0..(PageCount[i] - 1) : flash[p] = i

\* Whatever answers are lost, whenever an update is broken off and another
\* one, of another image, done over it: a device that starts its application
\* from an image's page 0 has that image as a whole.
BootableIsWhole ==
  /\ \A i \in Images : flash[0] = i => Holds(i)
  /\ flash[0] = Old => \A p \in Pages : flash[p] = Old

\* An update reported done has the whole image on the device.
DoneIsWhole == pc \in {"exit", "restart", "done"} => Holds(img)

\* A user that waits for the old thread holds the device lock; the thread then
\* needs it no more, or both would wait for ever.
JoinNeverBlocks ==
  \A u \in Users : user[u] = "join" =>
    lock = u /\ (thr = "running" => pc \in {"done", "failed"})

\* A new thread is never started while the last one can still be joined
\* (assigning to a joinable std::thread ends the daemon).
OneThread == [][thr' = "running" /\ pc' = "info" /\ pc # "info" => thr # "running"]_vars

\* Every update comes to its end, and the writes of the file come back.
UpdateEnds == busy ~> ~busy
UserReturns == \A u \in Users : user[u] = "join" ~> user[u] = "idle"

=============================================================================
