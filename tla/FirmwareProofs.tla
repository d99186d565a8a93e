--------------------------- MODULE FirmwareProofs ---------------------------
(***************************************************************************)
(* The firmware update, for images and devices of any size, any number of  *)
(* users and tries: type correctness, BootableIsWhole, DoneIsWhole,        *)
(* JoinNeverBlocks and OneThread of FwUpdate, and that its steps end.  And *)
(* the file it reads, for files of any length, addresses of any size and   *)
(* any limit below the word: type correctness, NothingBeyond and           *)
(* ImageIsTheFile of FwImage.                                              *)
(***************************************************************************)
EXTENDS FwUpdate, FwImage, TLAPS

Ended == {"none", "done", "failed"}

\* fw_busy covers the thread's life but for its very end, and who is in
\* w_firmware() has the device lock; who has got as far as join() has seen
\* fw_busy cleared.
Threads ==
  /\ busy <=> pc \notin Ended
  /\ thr = "none" => pc = "none"
  /\ thr = "ended" => pc \in {"done", "failed"}
  /\ thr = "running" => pc # "none"
  /\ \A u \in Users : user[u] # "idle" => lock = u
  /\ \A u \in Users : user[u] = "join" => ~busy

\* How far the update has come: page 0 is erased as long as there are pages
\* from 1 on to write, and those before the current one are written.
Progress ==
  /\ page.erase => page.no = 0
  /\ page.no < PageCount[img]
  /\ pc \in {"write", "read"} => try # 0
  /\ pc \in {"write", "read"} /\ page.no # 0 =>
       /\ flash[0] = "erased"
       /\ \A p \in 1..(page.no - 1) : flash[p] = img
  /\ pc \in {"write", "read"} /\ page.no = 0 /\ ~page.erase =>
       /\ flash[0] \notin (Images \cup {Old}) \ {img}
       /\ \A p \in 1..(PageCount[img] - 1) : flash[p] = img

Inv == TypeOK /\ Threads /\ BootableIsWhole /\ DoneIsWhole /\ Progress

-----------------------------------------------------------------------------

\* The first page and the one after each are pages of the device.
LEMMA PagesOfDevice ==
  ASSUME NEW i \in Images
  PROVE  /\ Erase \in [no : Pages, erase : BOOLEAN]
         /\ PageCount[i] \in Nat \ {0}
         /\ \A pg \in [no : Pages, erase : BOOLEAN] :
              NextPage(pg, PageCount[i]) \in [no : Pages, erase : BOOLEAN]
  BY FwAssumption DEF Erase, NextPage, PageNo, Pages

LEMMA InitInv == Init => Inv
<1> SUFFICES ASSUME Init PROVE Inv
  OBVIOUS
<1>1. img \in Images
  BY FwAssumption DEF Init, NoImage
<1>2. TypeOK
  <2>1. page \in [no : Pages, erase : BOOLEAN]
    BY <1>1, PagesOfDevice DEF Init
  <2>2. flash \in [Pages -> Data]
    BY DEF Init, Data
  <2>3. try \in 0..Tries
    BY FwAssumption DEF Init
  <2> QED
    BY <1>1, <2>1, <2>2, <2>3 DEF Init, TypeOK, UserState, ThreadState
<1>3. Threads
  BY DEF Init, Threads, Ended
<1>4. BootableIsWhole /\ DoneIsWhole
  BY FwAssumption DEF Init, BootableIsWhole, DoneIsWhole, Pages
<1>5. Progress
  BY <1>1, PagesOfDevice DEF Init, Progress, Erase
<1> QED BY <1>2, <1>3, <1>4, <1>5 DEF Inv

(***************************************************************************)
(* The steps that leave the flash and the page alone                       *)
(***************************************************************************)
LEMMA StillInv ==
  ASSUME Inv, UNCHANGED <<flash, img, page>>,
         pc' \in {"write", "read"} => pc' = pc /\ try' = try,
         pc' \in {"exit", "restart", "done"} => pc \in {"exit", "restart", "done"}
  PROVE  BootableIsWhole' /\ DoneIsWhole' /\ Progress'
<1>1. Holds(img)' <=> Holds(img)
  BY DEF Holds
<1>2. \A i \in Images : Holds(i)' <=> Holds(i)
  BY DEF Holds
<1> QED
  BY <1>1, <1>2 DEF Inv, BootableIsWhole, DoneIsWhole, Progress

LEMMA UserInv ==
  ASSUME Inv, NEW u \in Users, User(u)
  PROVE  Inv'
<1> USE FwAssumption DEF device, update
<1>1. CASE TakeLock(u) \/ Refuse(u) \/ Load(u)
  <2>1. TypeOK' /\ Threads'
    BY <1>1 DEF TakeLock, Refuse, Load, Loads, UserAt, Inv, TypeOK, UserState, Threads
  <2>2. UNCHANGED <<flash, img, page, pc, try>>
    BY <1>1 DEF TakeLock, Refuse, Load
  <2> QED BY <2>1, <2>2, StillInv DEF Inv
<1>2. CASE Start(u)
  <2>1. TypeOK'
    <3>1. img' \in Images /\ page' \in [no : Pages, erase : BOOLEAN]
      BY <1>2, PagesOfDevice DEF Start
    <3>2. try' \in 0..Tries
      BY <1>2 DEF Start
    <3> QED
      BY <1>2, <3>1, <3>2
         DEF Start, CanJoin, UserAt, Inv, TypeOK, UserState, ThreadState
  <2>2. Threads'
    BY <1>2 DEF Start, CanJoin, UserAt, Inv, TypeOK, Threads, Ended
  <2>3. BootableIsWhole' /\ DoneIsWhole'
    BY <1>2 DEF Start, Inv, BootableIsWhole, DoneIsWhole, Holds
  <2>4. Progress'
    BY <1>2, PagesOfDevice DEF Start, Progress, Erase
  <2> QED BY <2>1, <2>2, <2>3, <2>4 DEF Inv
<1> QED BY <1>1, <1>2 DEF User

(***************************************************************************)
(* The thread's steps around the pages                                     *)
(***************************************************************************)
Around == Info \/ FwEnter \/ InfoAgain \/ BeginFlash \/ Exit \/ Finish \/ EndThread

LEMMA AroundInv == ASSUME Inv, Around PROVE Inv'
<1> USE FwAssumption DEF device, update
<1>1. CASE Info \/ InfoAgain
  <2>1. TypeOK' /\ Threads'
    BY <1>1 DEF Info, InfoAgain, Step, Inv, TypeOK, ThreadState, Threads, Ended
  <2>2. UNCHANGED <<flash, img, page, try>> /\ pc' \in {"flash", "enter", "fail"}
    BY <1>1 DEF Info, InfoAgain, Step
  <2> QED BY <2>1, <2>2, StillInv DEF Inv
<1>2. CASE FwEnter
  <2>1. TypeOK' /\ Threads'
    BY <1>2 DEF FwEnter, Inv, TypeOK, ThreadState, Threads, Ended
  <2> QED BY <1>2, <2>1, StillInv DEF FwEnter, Inv
<1>3. CASE BeginFlash
  <2>1. img \in Images /\ page' \in [no : Pages, erase : BOOLEAN] /\ try' \in 0..Tries
    BY <1>3, PagesOfDevice DEF BeginFlash, Inv, TypeOK
  <2>2. TypeOK'
    BY <1>3, <2>1 DEF BeginFlash, Inv, TypeOK, ThreadState
  <2>3. Threads'
    BY <1>3 DEF BeginFlash, Inv, TypeOK, Threads, Ended
  <2>4. BootableIsWhole' /\ DoneIsWhole'
    BY <1>3 DEF BeginFlash, Inv, BootableIsWhole, DoneIsWhole, Holds
  <2>5. Progress'
    BY <1>3, <2>1, PagesOfDevice DEF BeginFlash, Progress, Erase
  <2> QED BY <2>2, <2>3, <2>4, <2>5 DEF Inv
<1>4. CASE Exit
  <2>1. TypeOK' /\ Threads'
    BY <1>4 DEF Exit, Inv, TypeOK, ThreadState, Threads, Ended
  <2> QED BY <1>4, <2>1, StillInv DEF Exit, Inv
<1>5. CASE Finish
  <2>1. TypeOK' /\ Threads'
    BY <1>5 DEF Finish, Inv, TypeOK, ThreadState, Threads, Ended
  <2> QED BY <1>5, <2>1, StillInv DEF Finish, Inv
<1>6. CASE EndThread
  <2>1. TypeOK' /\ Threads'
    BY <1>6 DEF EndThread, Inv, TypeOK, Threads, Ended
  <2> QED BY <1>6, <2>1, StillInv DEF EndThread, Inv
<1> QED BY <1>1, <1>2, <1>3, <1>4, <1>5, <1>6 DEF Around

(***************************************************************************)
(* A page is programmed, well or badly: the pages before it stay written,  *)
(* and page 0 starts no half image.                                        *)
(***************************************************************************)
LEMMA ProgramInv ==
  ASSUME Inv, pc = "write", UNCHANGED <<img, page>>,
         NEW d \in {PageData(img, page), "bad"}, Program(d),
         pc' \in {"read", "write", "fail"},
         pc' # "fail" => try' # 0
  PROVE  BootableIsWhole' /\ DoneIsWhole' /\ Progress'
<1> USE FwAssumption
<1>1. /\ flash' = [flash EXCEPT ![page.no] = d]
      /\ flash \in [Pages -> Data] /\ page.no \in Pages /\ page.erase \in BOOLEAN
      /\ img \in Images
  BY DEF Program, Inv, TypeOK
<1>2. "erased" \notin Images \cup {Old} /\ "bad" \notin Images \cup {Old}
  OBVIOUS
<1>3. CASE page.no # 0
  <2>1. flash'[0] = "erased" /\ \A p \in 1..(page.no - 1) : flash'[p] = img
    BY <1>1, <1>3 DEF Inv, Progress, Pages
  <2>2. BootableIsWhole' /\ DoneIsWhole'
    BY <1>2, <2>1 DEF BootableIsWhole, DoneIsWhole
  <2> QED BY <1>3, <2>1, <2>2 DEF Inv, Progress
<1>4. CASE page.no = 0 /\ page.erase
  <2>1. flash'[0] \in {"erased", "bad"}
    BY <1>1, <1>4 DEF PageData
  <2> QED BY <1>2, <1>4, <2>1 DEF BootableIsWhole, DoneIsWhole, Inv, Progress
<1>5. CASE page.no = 0 /\ ~page.erase
  <2>1. flash'[0] \in {img, "bad"}
    BY <1>1, <1>5 DEF PageData
  <2>2. \A p \in 1..(PageCount[img] - 1) : flash'[p] = img
    BY <1>1, <1>5 DEF Inv, Progress, Pages
  <2>3. flash'[0] = img => Holds(img)'
    BY <2>2 DEF Holds
  <2> QED
    BY <1>1, <1>2, <1>5, <2>1, <2>2, <2>3
       DEF BootableIsWhole, DoneIsWhole, Inv, Progress
<1> QED BY <1>1, <1>3, <1>4, <1>5

LEMMA WriteInv == ASSUME Inv, WritePage PROVE Inv'
<1> USE FwAssumption
<1>1. /\ pc = "write" /\ pc' \in {"read", "write", "fail"}
      /\ UNCHANGED <<boot, lock, busy, thr, user, img, page>>
      /\ try' \in 0..Tries /\ (pc' # "fail" => try' # 0)
  BY DEF WritePage, Retry, Inv, TypeOK, Progress
<1>2. Threads'
  BY <1>1 DEF Inv, Threads, Ended
<1>3. CASE NotProgrammed
  <2>1. TypeOK'
    BY <1>1, <1>3 DEF NotProgrammed, Inv, TypeOK, ThreadState
  <2>2. BootableIsWhole' /\ DoneIsWhole' /\ Progress'
    BY <1>1, <1>3 DEF NotProgrammed, Inv, BootableIsWhole, DoneIsWhole, Holds, Progress
  <2> QED BY <1>2, <2>1, <2>2 DEF Inv
<1>4. ASSUME NEW d \in {PageData(img, page), "bad"}, Program(d) PROVE Inv'
  <2>1. d \in Data
    BY DEF PageData, Data, Inv, TypeOK
  <2>2. TypeOK'
    BY <1>1, <1>4, <2>1 DEF Program, Inv, TypeOK, ThreadState
  <2>3. BootableIsWhole' /\ DoneIsWhole' /\ Progress'
    BY <1>1, <1>4, ProgramInv
  <2> QED BY <1>2, <2>2, <2>3 DEF Inv
<1> QED BY <1>3, <1>4 DEF WritePage

LEMMA ReadInv == ASSUME Inv, ReadPage PROVE Inv'
<1> USE FwAssumption DEF device
<1>1. pc = "read" /\ UNCHANGED <<flash, boot, lock, busy, thr, user, img>>
  BY DEF ReadPage
<1>2. Threads' /\ BootableIsWhole' /\ pc' \in {"exit", "write", "fail"}
  BY <1>1 DEF ReadPage, Retry, Inv, Threads, Ended, BootableIsWhole, Holds
<1>3. CASE Retry /\ UNCHANGED page
  <2>1. TypeOK'
    BY <1>1, <1>3 DEF Retry, Inv, TypeOK, ThreadState, Progress
  <2> QED
    BY <1>1, <1>2, <1>3, <2>1 DEF Retry, Inv, TypeOK, DoneIsWhole, Progress
<1>4. CASE ReadsBack(page) /\ LastPage(page) /\ page' = page /\ pc' = "exit"
           /\ try' = Tries
  <2>1. TypeOK'
    BY <1>1, <1>4 DEF Inv, TypeOK, ThreadState
  <2>2. flash[0] = img /\ \A p \in 1..(PageCount[img] - 1) : flash[p] = img
    BY <1>1, <1>4 DEF Inv, Progress, ReadsBack, LastPage, PageNo, PageData
  <2>3. Holds(img)'
    BY <1>1, <2>2 DEF Holds
  <2> QED
    BY <1>1, <1>2, <1>4, <2>1, <2>3 DEF Inv, DoneIsWhole, Progress
<1>5. CASE ReadsBack(page) /\ ~LastPage(page) /\ pc' = "write" /\ try' = Tries
           /\ page' = NextPage(page, PageCount[img])
  <2>1. img \in Images /\ page \in [no : Pages, erase : BOOLEAN]
        /\ PageCount[img] \in Nat \ {0}
    BY PagesOfDevice DEF Inv, TypeOK
  <2>2. TypeOK'
    BY <1>1, <1>5, <2>1, PagesOfDevice DEF Inv, TypeOK, ThreadState
  <2>3. flash[0] = "erased" /\ page.no \in Nat
    BY <1>1, <1>5, <2>1
       DEF Inv, Progress, ReadsBack, LastPage, PageNo, PageData, Pages
  <2>4. \A p \in 1..page.no : flash[p] = img
    BY <1>1, <1>5, <2>1, <2>3 DEF Inv, Progress, ReadsBack, PageData
  <2>5. Progress'
    BY <1>1, <1>5, <2>1, <2>3, <2>4 DEF Inv, Progress, NextPage, PageNo
  <2> QED BY <1>2, <1>5, <2>2, <2>5 DEF Inv, DoneIsWhole
<1> QED BY <1>3, <1>4, <1>5 DEF ReadPage

-----------------------------------------------------------------------------

LEMMA CrashInv == ASSUME Inv, DevicePower \/ DaemonCrash PROVE Inv'
<1> USE FwAssumption DEF device, update
<1>1. CASE DevicePower
  BY <1>1, StillInv DEF DevicePower, Inv, TypeOK, Threads
<1>2. CASE DaemonCrash
  <2>1. NoImage \in Images
    BY DEF NoImage
  <2>2. TypeOK'
    <3>1. page' \in [no : Pages, erase : BOOLEAN] /\ try' \in 0..Tries
      BY <1>2, <2>1, PagesOfDevice DEF DaemonCrash
    <3> QED
      BY <1>2, <2>1, <3>1 DEF DaemonCrash, Inv, TypeOK, UserState, ThreadState
  <2>3. Threads'
    BY <1>2 DEF DaemonCrash, Threads, Ended
  <2>4. BootableIsWhole' /\ DoneIsWhole'
    BY <1>2 DEF DaemonCrash, Inv, BootableIsWhole, DoneIsWhole, Holds
  <2>5. Progress'
    BY <1>2, <2>1, PagesOfDevice DEF DaemonCrash, Progress, Erase
  <2> QED BY <2>2, <2>3, <2>4, <2>5 DEF Inv
<1> QED BY <1>1, <1>2

LEMMA StepInv == Inv /\ [Next]_vars => Inv'
<1> SUFFICES ASSUME Inv, [Next]_vars PROVE Inv'
  OBVIOUS
<1>1. CASE FwThread
  BY <1>1, AroundInv, WriteInv, ReadInv DEF FwThread, Around
<1>2. ASSUME NEW u \in Users, User(u) PROVE Inv'
  BY <1>2, UserInv
<1>3. CASE DevicePower \/ DaemonCrash
  BY <1>3, CrashInv
<1>4. CASE UNCHANGED vars
  BY <1>4 DEF vars, Inv, TypeOK, Threads, BootableIsWhole, DoneIsWhole, Holds, Progress
<1> QED BY <1>1, <1>2, <1>3, <1>4 DEF Next

LEMMA Invariance == Spec => []Inv
  BY InitInv, StepInv, PTL DEF Spec

-----------------------------------------------------------------------------

\* The variables keep their types.
THEOREM TypeCorrect == Spec => []TypeOK
<1>1. Inv => TypeOK
  BY DEF Inv
<1> QED BY <1>1, Invariance, PTL

\* No device ever starts half an image, whichever answers are lost and wherever
\* an update is broken off (fw_flash(): page 0 is erased first, written last).
THEOREM NeverHalfAnImage == Spec => []BootableIsWhole
<1>1. Inv => BootableIsWhole
  BY DEF Inv
<1> QED BY <1>1, Invariance, PTL

\* An update that ends well has put the whole image there (page_write()).
THEOREM UpdateIsWhole == Spec => []DoneIsWhole
<1>1. Inv => DoneIsWhole
  BY DEF Inv
<1> QED BY <1>1, Invariance, PTL

\* join() under the device lock waits for a thread that needs the lock no more
\* (w_firmware(), fw_run()).
THEOREM JoinIsSafe == Spec => []JoinNeverBlocks
<1>1. Inv => JoinNeverBlocks
  BY DEF Inv, TypeOK, Threads, JoinNeverBlocks, UserState, Ended
<1> QED BY <1>1, Invariance, PTL

\* No update thread is started over one that was not joined (w_firmware()).
THEOREM ThreadsAreJoined == Spec => OneThread
<1>1. Inv /\ [Next]_vars =>
        [thr' = "running" /\ pc' = "info" /\ pc # "info" => thr # "running"]_vars
  <2> SUFFICES ASSUME Inv, Next, pc' = "info", pc # "info" PROVE thr # "running"
    BY DEF vars
  <2>1. PICK u \in Users : Start(u)
    BY DEF Next, FwThread, Info, FwEnter, InfoAgain, Step, BeginFlash, WritePage,
           Retry, ReadPage, Exit, Finish, EndThread, User, TakeLock, Refuse, Load,
           DevicePower, DaemonCrash, update
  <2> QED BY <2>1 DEF Start, CanJoin
<1> QED BY <1>1, Invariance, PTL DEF Spec, OneThread

-----------------------------------------------------------------------------
(***************************************************************************)
(* An update is bounded: the part of UpdateEnds and UserReturns that needs *)
(* no fairness.                                                            *)
(***************************************************************************)
\* How far the thread is from its end
Phase ==
  CASE pc = "info" -> 8
    [] pc = "enter" -> 7
    [] pc = "entered" -> 6
    [] pc = "flash" -> 5
    [] pc \in {"write", "read"} -> 4
    [] pc = "exit" -> 3
    [] pc \in {"restart", "fail"} -> 2
    [] pc \in Ended /\ thr = "running" -> 1
    [] OTHER -> 0

\* The pages still to write after this one: page 0 is the last
PagesLeft ==
  IF page.erase THEN PageCount[img]
  ELSE IF page.no = 0 THEN 0 ELSE PageCount[img] - page.no

\* A step nearer to it: on to a later phase or, in the same one, to the next
\* page, to the next of the page's tries, or from its writing to its reading.
FewerTries == PagesLeft' = PagesLeft /\ try' < try
ReadNext == PagesLeft' = PagesLeft /\ try' = try /\ pc = "write" /\ pc' = "read"
Nearer ==
  \/ Phase' < Phase
  \/ Phase' = Phase /\ (PagesLeft' < PagesLeft \/ FewerTries \/ ReadNext)

LEMMA PhaseIs ==
  /\ Phase \in 0..8
  /\ pc = "info" => Phase = 8
  /\ pc = "enter" => Phase = 7
  /\ pc = "entered" => Phase = 6
  /\ pc = "flash" => Phase = 5
  /\ pc \in {"write", "read"} => Phase = 4
  /\ pc = "exit" => Phase = 3
  /\ pc \in {"restart", "fail"} => Phase = 2
  /\ pc \in Ended => Phase = IF thr = "running" THEN 1 ELSE 0
  BY DEF Phase, Ended

LEMMA PhaseBecomes ==
  /\ Phase' \in 0..8
  /\ pc' = "info" => Phase' = 8
  /\ pc' = "enter" => Phase' = 7
  /\ pc' = "entered" => Phase' = 6
  /\ pc' = "flash" => Phase' = 5
  /\ pc' \in {"write", "read"} => Phase' = 4
  /\ pc' = "exit" => Phase' = 3
  /\ pc' \in {"restart", "fail"} => Phase' = 2
  /\ pc' \in Ended => Phase' = IF thr' = "running" THEN 1 ELSE 0
  BY DEF Phase, Ended

LEMMA AroundIsNearer == ASSUME Around PROVE Nearer
<1> USE PhaseIs, PhaseBecomes DEF Nearer
<1>1. CASE Info \/ InfoAgain
  BY <1>1 DEF Info, InfoAgain, Step
<1>2. CASE FwEnter
  BY <1>2 DEF FwEnter
<1>3. CASE BeginFlash
  BY <1>3 DEF BeginFlash
<1>4. CASE Exit
  BY <1>4 DEF Exit
<1>5. CASE Finish
  BY <1>5 DEF Finish, Ended
<1>6. CASE EndThread
  BY <1>6 DEF EndThread, Ended, update
<1> QED BY <1>1, <1>2, <1>3, <1>4, <1>5, <1>6 DEF Around

\* A failed try is one less, or the update's last.
LEMMA RetryIsNearer ==
  ASSUME Inv, Retry, pc \in {"write", "read"}, UNCHANGED <<img, page>>
  PROVE  Nearer
<1>1. try \in Nat /\ try' = try - 1
  BY FwAssumption DEF Inv, TypeOK, Retry
<1>2. PagesLeft' = PagesLeft
  BY DEF PagesLeft
<1>3. FewerTries
  BY <1>1, <1>2 DEF FewerTries
<1>4. pc' \in {"write", "fail"}
  BY DEF Retry
<1> QED BY <1>3, <1>4, PhaseIs, PhaseBecomes DEF Nearer

LEMMA WriteIsNearer == ASSUME Inv, WritePage PROVE Nearer
<1>1. pc = "write" /\ UNCHANGED <<img, page>>
  BY DEF WritePage
<1>2. CASE Retry
  BY <1>1, <1>2, RetryIsNearer
<1>3. CASE pc' = "read" /\ try' = try
  <2>1. PagesLeft' = PagesLeft
    BY <1>1 DEF PagesLeft
  <2>2. ReadNext
    BY <1>1, <1>3, <2>1 DEF ReadNext
  <2>3. Phase' = Phase
    BY <1>1, <1>3, PhaseIs, PhaseBecomes
  <2> QED BY <2>2, <2>3 DEF Nearer
<1>4. CASE pc' = "fail"
  BY <1>1, <1>4, PhaseIs, PhaseBecomes DEF Nearer
<1> QED BY <1>2, <1>3, <1>4 DEF WritePage

\* The pages that are left after the next one are fewer.
LEMMA NextIsNearer ==
  ASSUME NEW n \in Nat \ {0}, NEW pg \in [no : Pages, erase : BOOLEAN],
         pg.erase => pg.no = 0, pg.no < n, ~LastPage(pg)
  PROVE  LET next == NextPage(pg, n)
             Left(p) == IF p.erase THEN n ELSE IF p.no = 0 THEN 0 ELSE n - p.no
         IN  Left(next) < Left(pg)
<1>1. pg.no \in Nat /\ pg = [no |-> pg.no, erase |-> pg.erase]
      /\ pg.erase \in BOOLEAN
  BY FwAssumption DEF Pages
<1>2. pg.erase \/ pg.no # 0
  BY <1>1 DEF LastPage, PageNo
<1> QED BY <1>1, <1>2 DEF NextPage, PageNo

LEMMA ReadIsNearer == ASSUME Inv, ReadPage PROVE Nearer
<1>1. pc = "read" /\ img' = img
  BY DEF ReadPage
<1>2. CASE Retry /\ UNCHANGED page
  BY <1>1, <1>2, RetryIsNearer
<1>3. CASE LastPage(page) /\ pc' = "exit"
  BY <1>1, <1>3, PhaseIs, PhaseBecomes DEF Nearer
<1>4. CASE ~LastPage(page) /\ pc' = "write" /\ page' = NextPage(page, PageCount[img])
  <2>1. /\ PageCount[img] \in Nat \ {0} /\ page \in [no : Pages, erase : BOOLEAN]
        /\ page.erase => page.no = 0
        /\ page.no < PageCount[img]
    BY PagesOfDevice DEF Inv, TypeOK, Progress
  <2>2. PagesLeft' < PagesLeft
    BY <1>1, <1>4, <2>1, NextIsNearer DEF PagesLeft
  <2>3. Phase' = Phase
    BY <1>1, <1>4, PhaseIs, PhaseBecomes
  <2> QED BY <2>2, <2>3 DEF Nearer
<1> QED BY <1>2, <1>3, <1>4 DEF ReadPage

\* The others start a thread, or the daemon crashes.
Restarts == ~busy /\ pc' = "info"
Crashes == thr' = "none" /\ Phase' = 0

LEMMA OthersLeaveIt ==
  ASSUME Inv, (\E u \in Users : User(u)) \/ DevicePower \/ DaemonCrash
  PROVE  UNCHANGED <<thr, update>> \/ Restarts \/ Crashes
<1> USE DEF update
<1>1. ASSUME NEW u \in Users, TakeLock(u) \/ Refuse(u) \/ Load(u)
      PROVE  UNCHANGED <<thr, update>>
  BY <1>1 DEF TakeLock, Refuse, Load
<1>2. ASSUME NEW u \in Users, Start(u) PROVE Restarts
  <2>1. ~busy
    BY <1>2 DEF Start, CanJoin, Inv, Threads
  <2> QED BY <1>2, <2>1 DEF Start, Restarts
<1>3. CASE DevicePower
  BY <1>3 DEF DevicePower
<1>4. CASE DaemonCrash
  BY <1>4, PhaseBecomes DEF DaemonCrash, Crashes, Ended
<1> QED BY <1>1, <1>2, <1>3, <1>4 DEF User

\* An update has a bounded number of steps left, whichever answers are lost
\* and however often the device loses its power: each step of its thread is
\* one nearer to the end, the erased page 0 and at most MaxPage + 1 pages of
\* FW_PAGE_TRIES tries each, and nobody sets it back but by a new update, once fw_busy is cleared, or
\* the crash that ends it (fw_run(), fw_flash(), page_write()).
UpdateIsBounded ==
  /\ PagesLeft \in 0..(MaxPage + 1) /\ try \in 0..Tries
  /\ Phase = 0 => ~busy /\ thr # "running"

THEOREM UpdateStepsEnd ==
  Spec => /\ []UpdateIsBounded
          /\ [][/\ FwThread => Nearer
                /\ ~FwThread => UNCHANGED <<thr, update>> \/ Restarts \/ Crashes]_vars
<1>1. ASSUME Inv PROVE UpdateIsBounded
  <2>1. /\ PageCount[img] \in 1..(MaxPage + 1) /\ page.no \in Nat
        /\ page.no < PageCount[img] /\ MaxPage \in Nat
    BY <1>1, FwAssumption DEF Inv, TypeOK, Progress, Pages
  <2>2. PagesLeft \in 0..(MaxPage + 1)
    BY <2>1 DEF PagesLeft
  <2>3. Phase = 0 => pc \in Ended /\ thr # "running"
    BY <1>1, PhaseIs DEF Inv, TypeOK, ThreadState, Ended
  <2>4. Phase = 0 => ~busy
    BY <1>1, <2>3 DEF Inv, Threads
  <2> QED BY <1>1, <2>2, <2>3, <2>4 DEF UpdateIsBounded, Inv, TypeOK
<1>2. ASSUME Inv, FwThread PROVE Nearer
  BY <1>2, AroundIsNearer, WriteIsNearer, ReadIsNearer DEF FwThread, Around
<1>3. ASSUME Inv, [Next]_vars, ~FwThread
      PROVE  UNCHANGED <<thr, update>> \/ Restarts \/ Crashes
  <2>1. CASE UNCHANGED vars
    BY <2>1 DEF vars, update
  <2>2. CASE Next
    BY <1>3, <2>2, OthersLeaveIt DEF Next
  <2> QED BY <1>3, <2>1, <2>2
<1>4. Inv /\ [Next]_vars =>
        [/\ FwThread => Nearer
         /\ ~FwThread => UNCHANGED <<thr, update>> \/ Restarts \/ Crashes]_vars
  BY <1>2, <1>3
<1> QED BY <1>1, <1>4, Invariance, PTL DEF Spec

-----------------------------------------------------------------------------
(***************************************************************************)
(* FwImage: types, and the bounds of the image                             *)
(***************************************************************************)

\* The image alone needs no more than its own length to be kept within
ImageInv == ImageTypeOK /\ NothingBeyond

\* What an addition gives is a number, and the sum itself below the word
LEMMA WrappedType ==
  ASSUME NEW n \in Nat
  PROVE  Wrapped(n) \in Nat /\ (n < Word => Wrapped(n) = n)
<1>1. CASE n < Word
  BY <1>1 DEF Wrapped
<1>2. CASE ~(n < Word)
  <2>1. Word \in Nat \ {0}
    BY FwImageAssumption
  <2>2. n % Word \in Nat
    BY <2>1
  <2> QED BY <1>2, <2>2 DEF Wrapped
<1> QED BY <1>1, <1>2

\* A record that is not too large ends within the limit, and the image is
\* grown as far as that.
LEMMA SizeHolds ==
  ASSUME NEW at \in Nat, NEW len \in Nat, ~TooLarge(at, len), Len(image) \in Nat,
         Len(image) <= MaxSize
  PROVE  LET size == Size(Wrapped(at + len))
         IN  size \in Nat /\ size <= MaxSize /\ at + len <= size /\ Len(image) <= size
<1>1. at + len <= MaxSize /\ at + len \in Nat /\ MaxSize < Word
  BY FwImageAssumption DEF TooLarge
<1>2. Wrapped(at + len) = at + len
  BY <1>1, WrappedType, FwImageAssumption
<1> QED BY <1>1, <1>2 DEF Size, GrownTo

\* Bytes placed into bytes are bytes.
LEMMA PlacedBytes ==
  ASSUME image \in Seq(Byte), NEW at \in Nat, NEW d \in Seq(Byte), NEW size \in Nat
  PROVE  Placed(at, d, size) \in Seq(Byte) /\ Len(Placed(at, d, size)) = size
<1>1. ASSUME NEW n \in 1 .. size
      PROVE  (IF at < n /\ n <= at + Len(d) THEN d[n - at]
              ELSE IF n <= Len(image) THEN image[n] ELSE Erased) \in Byte
  <2>1. CASE at < n /\ n <= at + Len(d)
    <3>1. n - at \in 1 .. Len(d)
      BY <2>1
    <3>2. d[n - at] \in Byte
      BY <3>1
    <3> QED BY <2>1, <3>2
  <2>2. CASE ~(at < n /\ n <= at + Len(d)) /\ n <= Len(image)
    <3>1. image[n] \in Byte
      BY <2>2
    <3> QED BY <2>2, <3>1
  <2>3. CASE ~(at < n /\ n <= at + Len(d)) /\ ~(n <= Len(image))
    BY <2>3 DEF Byte, Erased
  <2> QED BY <2>1, <2>2, <2>3
<1> QED BY <1>1 DEF Placed

\* A line has an address, a value and bytes.
LEMMA LineType ==
  ASSUME NEW l \in Lines
  PROVE  l.addr \in Nat /\ l.value \in Nat /\ l.data \in Seq(Byte)
<1>1. CASE l \in {Bad, Blank, EndOfFile, StartAddress, Unknown}
  <2>1. l.addr = 0 /\ l.value = 0 /\ l.data = <<>>
    BY <1>1 DEF Plain, Bad, Blank, EndOfFile, StartAddress, Unknown
  <2> QED BY <2>1
<1>2. ASSUME NEW a \in Addresses, NEW d \in Contents,
             l = DataLine(a, d)
      PROVE  l.addr \in Nat /\ l.value \in Nat /\ l.data \in Seq(Byte)
  <2>1. l.addr = a /\ l.value = 0 /\ l.data = d
    BY <1>2 DEF Plain, DataLine
  <2> QED BY <2>1, FwImageAssumption
<1>3. ASSUME NEW kind, NEW b \in Bases, l = BaseLine(kind, b)
      PROVE  l.addr \in Nat /\ l.value \in Nat /\ l.data \in Seq(Byte)
  <2>1. l.addr = 0 /\ l.value = b /\ l.data = <<>>
    BY <1>3 DEF Plain, BaseLine
  <2> QED BY <2>1, FwImageAssumption
<1>4. \/ l \in {Bad, Blank, EndOfFile, StartAddress, Unknown}
      \/ \E a \in Addresses, d \in Contents : l = DataLine(a, d)
      \/ \E kind \in {"segment", "linear"}, b \in Bases : l = BaseLine(kind, b)
  BY DEF Lines
<1> QED BY <1>1, <1>2, <1>3, <1>4, Zenon

LEMMA LoadInitInv == LoadInit => ImageInv
<1> SUFFICES ASSUME LoadInit PROVE ImageInv
  OBVIOUS
<1>1. lines \in Seq(Lines) /\ image \in Seq(Byte) /\ Len(image) = 0
  BY DEF LoadInit
<1>2. 0 <= MaxSize
  BY FwImageAssumption
<1>3. /\ base \in Nat /\ end = FALSE /\ beyond = FALSE
      /\ result \in {"open", "hex", "loaded", "refused"}
  BY DEF LoadInit
<1> QED BY <1>1, <1>2, <1>3 DEF ImageInv, ImageTypeOK, NothingBeyond

LEMMA LoadNextInv == ImageInv /\ [LoadNext]_fileVars => ImageInv'
<1> SUFFICES ASSUME ImageInv, [LoadNext]_fileVars PROVE ImageInv'
  OBVIOUS
<1> USE DEF ImageInv, ImageTypeOK, NothingBeyond
<1>1. CASE NoFile
  BY <1>1 DEF NoFile, RefuseFile
<1>2. ASSUME NEW d \in Contents, LoadBinary(d) PROVE ImageInv'
  BY <1>2, FwImageAssumption DEF LoadBinary, RefuseFile
<1>3. CASE LoadHex
  BY <1>3 DEF LoadHex
<1>4. CASE Line
  <2>1. PICK l \in Lines :
          /\ lines' = Append(lines, l)
          /\ IF l = Blank THEN UNCHANGED <<image, base, end, result, beyond>>
             ELSE IF AfterEnd THEN RefuseFile ELSE Record(l)
    BY <1>4 DEF Line
  <2>2. lines' \in Seq(Lines)
    BY <2>1
  <2>3. l.addr \in Nat /\ l.value \in Nat /\ l.data \in Seq(Byte)
    BY LineType
  <2>4. CASE UNCHANGED <<image, base, end, result, beyond>>
    BY <2>2, <2>4
  <2>5. CASE RefuseFile
    BY <2>2, <2>5 DEF RefuseFile
  <2>6. CASE l.kind = "data" /\ DataRecord(l)
    <3>1. CASE TooLarge(At(l), Len(l.data))
      BY <2>5, <2>6, <3>1 DEF DataRecord
    <3>2. CASE ~TooLarge(At(l), Len(l.data))
      <4> DEFINE size == Size(Wrapped(At(l) + Len(l.data)))
      <4>1. At(l) \in Nat /\ Len(l.data) \in Nat
        <5>1. base + l.addr \in Nat
          BY <2>3
        <5>2. At(l) \in Nat
          BY <5>1, WrappedType DEF At
        <5>3. Len(l.data) \in Nat
          BY <2>3
        <5> QED BY <5>2, <5>3
      <4>2. size \in Nat /\ size <= MaxSize /\ At(l) + Len(l.data) <= size
        BY <3>2, <4>1, SizeHolds
      <4>3. /\ image' = Placed(At(l), l.data, size)
            /\ beyond' = (beyond \/ At(l) + Len(l.data) > size)
            /\ UNCHANGED <<base, end, result>>
        BY <2>6, <3>2 DEF DataRecord
      <4> HIDE DEF size
      <4>4. image' \in Seq(Byte) /\ Len(image') = size
        BY <2>3, <4>1, <4>2, <4>3, PlacedBytes
      <4>5. beyond' = FALSE
        BY <4>1, <4>2, <4>3
      <4> QED BY <2>2, <4>2, <4>3, <4>4, <4>5
    <3> QED BY <3>1, <3>2
  <2>7. CASE l.kind = "end" /\ end' = TRUE /\ UNCHANGED <<image, base, result, beyond>>
    BY <2>2, <2>7
  <2>8. CASE \E u \in {Segment, Linear} : SetBase(l.value * u)
    <3>1. PICK u \in {Segment, Linear} : SetBase(l.value * u)
      BY <2>8
    <3>2. l.value * u \in Nat
      BY <2>3, FwImageAssumption
    <3> QED BY <2>2, <3>1, <3>2 DEF SetBase
  <2> QED BY <2>1, <2>4, <2>5, <2>6, <2>7, <2>8 DEF Record
<1>5. CASE Close
  BY <1>5 DEF Close, RefuseFile
<1>6. CASE UNCHANGED fileVars
  BY <1>6 DEF fileVars
<1> QED BY <1>1, <1>2, <1>3, <1>4, <1>5, <1>6 DEF LoadNext

THEOREM ImageInvariant == LoadSpec => []ImageInv
  BY LoadInitInv, LoadNextInv, PTL DEF LoadSpec

\* The lines, the bytes and the base keep their types.
THEOREM ImageTypeCorrect == LoadSpec => []ImageTypeOK
<1>1. ImageInv => ImageTypeOK
  BY DEF ImageInv
<1> QED BY <1>1, ImageInvariant, PTL

\* Whatever a file says, and however wide the integers are: no byte of it is
\* written beyond the image, which stays within its limit.
THEOREM BytesStayInside == LoadSpec => []NothingBeyond
<1>1. ImageInv => NothingBeyond
  BY DEF ImageInv
<1> QED BY <1>1, ImageInvariant, PTL

-----------------------------------------------------------------------------
(***************************************************************************)
(* FwImage: the image is what the file means.  What the lines read so far  *)
(* say is stated by relations here, of any list of lines, so that it can   *)
(* be compared before and after a line; that the operators of              *)
(* ImageIsTheFile, which choose the last of several, give the same, is a   *)
(* matter of the last state alone.                                         *)
(***************************************************************************)

\* The base after the first n lines of s is b: the value of the last of their
\* base records, if there is one.
BaseKind(l) == l.kind \in {"segment", "linear"}
BaseOf(l) == l.value * (IF l.kind = "linear" THEN Linear ELSE Segment)
BaseIs(s, n, b) ==
  \/ (\A m \in 1 .. n : ~BaseKind(s[m])) /\ b = 0
  \/ \E m \in 1 .. n : /\ BaseKind(s[m]) /\ b = BaseOf(s[m])
                       /\ \A x \in m + 1 .. n : ~BaseKind(s[x])

\* Line n of s is a data record whose bytes come after place o
PlacedAt(s, n, o) ==
  n \in 1 .. Len(s) /\ s[n].kind = "data" /\ \E b \in Nat : BaseIs(s, n, b) /\ o = b + s[n].addr
Over(s, n, o, p) == o < p /\ p <= o + Len(s[n].data)

\* What the lines so far say is what base, end and image are
BaseFollows == BaseIs(lines, Len(lines), base) /\ \A a \in Addresses : base + a < Word
NothingSkipped == \A n \in 1 .. Len(lines) : lines[n].kind \notin {"bad", "unknown"}
EndFollows ==
  end => \E e \in 1 .. Len(lines) : lines[e] = EndOfFile /\ \A n \in e + 1 .. Len(lines) : lines[n] = Blank
PlacesInside ==
  \A n \in 1 .. Len(lines) : lines[n].kind = "data" =>
    \E o \in Nat : PlacedAt(lines, n, o) /\ o + Len(lines[n].data) <= Len(image)
NoLonger ==
  image # <<>> =>
    \E n \in 1 .. Len(lines), o \in Nat :
      PlacedAt(lines, n, o) /\ o + Len(lines[n].data) = Len(image)
MeantBy(s, p, v) ==
  \/ v = Erased /\ \A n \in 1 .. Len(s), o \in Nat : PlacedAt(s, n, o) => ~Over(s, n, o, p)
  \/ \E n \in 1 .. Len(s), o \in Nat :
       /\ PlacedAt(s, n, o) /\ Over(s, n, o, p) /\ v = s[n].data[p - o]
       /\ \A m \in n + 1 .. Len(s), q \in Nat : PlacedAt(s, m, q) => ~Over(s, m, q, p)
BytesFollow == \A p \in 1 .. Len(image) : MeantBy(lines, p, image[p])

Followed ==
  /\ BaseFollows /\ NothingSkipped /\ EndFollows
  /\ PlacesInside /\ NoLonger /\ BytesFollow

Follows ==
  /\ result = "open" => lines = <<>> /\ image = <<>> /\ base = 0 /\ ~end
  /\ result = "hex" => Followed
  /\ result = "loaded" /\ lines # <<>> => Followed /\ end /\ image # <<>>

\* Lines are added at the end.
LEMMA LineAdded ==
  ASSUME NEW s \in Seq(Lines), NEW l \in Lines
  PROVE  LET t == Append(s, l)
         IN  /\ t \in Seq(Lines) /\ Len(t) = Len(s) + 1 /\ Len(s) \in Nat
             /\ t[Len(s) + 1] = l /\ \A n \in 1 .. Len(s) : t[n] = s[n]
  OBVIOUS

\* There is one base.
LEMMA BaseUnique ==
  ASSUME NEW s, NEW n \in Nat, NEW b, NEW d, BaseIs(s, n, b), BaseIs(s, n, d)
  PROVE  b = d
<1>1. CASE \A m \in 1 .. n : ~BaseKind(s[m])
  BY <1>1 DEF BaseIs
<1>2. CASE \E m \in 1 .. n : BaseKind(s[m])
  <2>1. PICK m \in 1 .. n : /\ BaseKind(s[m]) /\ b = BaseOf(s[m])
                            /\ \A x \in m + 1 .. n : ~BaseKind(s[x])
    BY <1>2 DEF BaseIs
  <2>2. PICK k \in 1 .. n : /\ BaseKind(s[k]) /\ d = BaseOf(s[k])
                            /\ \A x \in k + 1 .. n : ~BaseKind(s[x])
    BY <1>2 DEF BaseIs
  <2>3. ~(m < k) /\ ~(k < m)
    BY <2>1, <2>2
  <2>4. m = k
    BY <2>3
  <2> QED BY <2>1, <2>2, <2>4
<1> QED BY <1>1, <1>2

\* The base after a line stays what it is when a line is added, and the new
\* line, if it is no base record, changes none.
LEMMA BaseStays ==
  ASSUME NEW s \in Seq(Lines), NEW l \in Lines, NEW n \in 1 .. Len(s), NEW b
  PROVE  BaseIs(Append(s, l), n, b) <=> BaseIs(s, n, b)
<1>1. \A m \in 1 .. n : Append(s, l)[m] = s[m]
  BY LineAdded
<1>2. \A m \in 1 .. n : \A x \in m + 1 .. n : Append(s, l)[x] = s[x]
  BY <1>1
<1> QED BY <1>1, <1>2 DEF BaseIs

LEMMA BaseAdded ==
  ASSUME NEW s \in Seq(Lines), NEW l \in Lines, NEW b, BaseIs(s, Len(s), b)
  PROVE  /\ ~BaseKind(l) => BaseIs(Append(s, l), Len(s) + 1, b)
         /\ BaseKind(l) => BaseIs(Append(s, l), Len(s) + 1, BaseOf(l))
<1> DEFINE t == Append(s, l)
<1>1. Len(s) \in Nat /\ t[Len(s) + 1] = l /\ \A n \in 1 .. Len(s) : t[n] = s[n]
  BY LineAdded
<1> HIDE DEF t
<1>2. CASE ~BaseKind(l) /\ \A m \in 1 .. Len(s) : ~BaseKind(s[m])
  <2>1. b = 0
    BY <1>2 DEF BaseIs
  <2>2. \A m \in 1 .. Len(s) + 1 : ~BaseKind(t[m])
    BY <1>1, <1>2
  <2> QED BY <1>2, <2>1, <2>2 DEF BaseIs, t
<1>3. CASE ~BaseKind(l) /\ \E m \in 1 .. Len(s) : BaseKind(s[m])
  <2>1. PICK m \in 1 .. Len(s) : /\ BaseKind(s[m]) /\ b = BaseOf(s[m])
                                 /\ \A x \in m + 1 .. Len(s) : ~BaseKind(s[x])
    BY <1>3 DEF BaseIs
  <2>2. m \in 1 .. Len(s) + 1 /\ BaseKind(t[m]) /\ b = BaseOf(t[m])
    BY <1>1, <2>1
  <2>3. ASSUME NEW x \in m + 1 .. Len(s) + 1 PROVE ~BaseKind(t[x])
    BY <1>1, <1>3, <2>1, <2>3
  <2> QED BY <1>3, <2>2, <2>3 DEF BaseIs, t
<1>4. CASE BaseKind(l)
  <2>1. Len(s) + 1 \in 1 .. Len(s) + 1 /\ BaseKind(t[Len(s) + 1]) /\ BaseOf(l) = BaseOf(t[Len(s) + 1])
    BY <1>1, <1>4
  <2>2. \A x \in Len(s) + 1 + 1 .. Len(s) + 1 : ~BaseKind(t[x])
    BY <1>1
  <2> QED BY <1>4, <2>1, <2>2 DEF BaseIs, t
<1> QED BY <1>2, <1>3, <1>4

\* A record has one place, and keeps it.
LEMMA PlaceUnique ==
  ASSUME NEW s \in Seq(Lines), NEW n, NEW o, NEW q, PlacedAt(s, n, o), PlacedAt(s, n, q)
  PROVE  o = q
  BY BaseUnique DEF PlacedAt

LEMMA PlaceStays ==
  ASSUME NEW s \in Seq(Lines), NEW l \in Lines, NEW n \in 1 .. Len(s), NEW o
  PROVE  PlacedAt(Append(s, l), n, o) <=> PlacedAt(s, n, o)
<1>1. n \in 1 .. Len(Append(s, l)) /\ Append(s, l)[n] = s[n]
  BY LineAdded
<1> QED BY <1>1, BaseStays DEF PlacedAt

LEMMA OtherLineAdded ==
  ASSUME NEW s \in Seq(Lines), NEW l \in Lines, l.kind # "data", NEW o
  PROVE  ~PlacedAt(Append(s, l), Len(s) + 1, o)
  BY LineAdded DEF PlacedAt

LEMMA DataLineAdded ==
  ASSUME NEW s \in Seq(Lines), NEW l \in Lines, l.kind = "data",
         NEW b \in Nat, BaseIs(s, Len(s), b)
  PROVE  PlacedAt(Append(s, l), Len(s) + 1, b + l.addr)
<1>1. BaseIs(Append(s, l), Len(s) + 1, b)
  BY BaseAdded DEF BaseKind
<1>2. Len(s) + 1 \in 1 .. Len(Append(s, l)) /\ Append(s, l)[Len(s) + 1] = l
  BY LineAdded
<1> QED BY <1>1, <1>2 DEF PlacedAt

\* A line is of the kind it is made as.
LEMMA KindsOfLines ==
  ASSUME NEW l \in Lines
  PROVE  /\ l.kind = "data" => \E a \in Addresses, d \in Contents : l = DataLine(a, d)
         /\ BaseKind(l) => \E k \in {"segment", "linear"}, b \in Bases : l = BaseLine(k, b)
         /\ l.kind = "end" <=> l = EndOfFile
<1>1. CASE l \in {Bad, Blank, EndOfFile, StartAddress, Unknown}
  BY <1>1 DEF BaseKind, Plain, Bad, Blank, EndOfFile, StartAddress, Unknown
<1>2. ASSUME NEW a \in Addresses, NEW d \in Contents, l = DataLine(a, d)
      PROVE  l.kind = "data"
  BY <1>2 DEF Plain, DataLine
<1>3. ASSUME NEW k \in {"segment", "linear"}, NEW b \in Bases, l = BaseLine(k, b)
      PROVE  l.kind = k
  BY <1>3 DEF Plain, BaseLine
<1>4. \/ l \in {Bad, Blank, EndOfFile, StartAddress, Unknown}
      \/ \E a \in Addresses, d \in Contents : l = DataLine(a, d)
      \/ \E k \in {"segment", "linear"}, b \in Bases : l = BaseLine(k, b)
  BY DEF Lines
<1>5. EndOfFile.kind = "end"
  BY DEF EndOfFile, Plain
<1> QED BY <1>1, <1>2, <1>3, <1>4, <1>5 DEF BaseKind

\* A base record's base leaves room for any address, and so does the first.
LEMMA BaseOfFits ==
  ASSUME NEW l \in Lines, BaseKind(l)
  PROVE  BaseOf(l) \in Nat /\ \A a \in Addresses : BaseOf(l) + a < Word
<1>1. PICK k \in {"segment", "linear"}, b \in Bases : l = BaseLine(k, b)
  BY KindsOfLines
<1>2. l.value = b /\ l.kind = k
  BY <1>1 DEF BaseLine, Plain
<1>3. b * Segment \in Nat /\ b * Linear \in Nat
  BY FwImageAssumption
<1>4. \A a \in Addresses : b * Segment + a < Word /\ b * Linear + a < Word
  BY PlacesFit
<1> QED BY <1>2, <1>3, <1>4 DEF BaseOf

LEMMA AddressFits ==
  ASSUME NEW l \in Lines, l.kind = "data"
  PROVE  l.addr \in Addresses /\ l.addr \in Nat
<1>1. PICK a \in Addresses, d \in Contents : l = DataLine(a, d)
  BY KindsOfLines
<1>2. l.addr = a
  BY <1>1 DEF DataLine, Plain
<1> QED BY <1>2, FwImageAssumption

\* A record of the lines keeps its place, and with it the bytes it covers.
LEMMA PlacesOfBoth ==
  ASSUME NEW s \in Seq(Lines), NEW l \in Lines, NEW n \in 1 .. Len(s), NEW o, NEW p
  PROVE  LET t == Append(s, l)
         IN  /\ t[n] = s[n] /\ n \in 1 .. Len(t)
             /\ PlacedAt(t, n, o) <=> PlacedAt(s, n, o)
             /\ Over(t, n, o, p) <=> Over(s, n, o, p)
<1>1. Append(s, l)[n] = s[n] /\ n \in 1 .. Len(Append(s, l))
  BY LineAdded
<1> QED BY <1>1, PlaceStays DEF Over

\* Where the lines say a byte is v and the new one does not cover its place,
\* the lines with it say so, too.
LEMMA StillMeant ==
  ASSUME NEW s \in Seq(Lines), NEW l \in Lines, NEW p, NEW v, MeantBy(s, p, v),
         \A o \in Nat : PlacedAt(Append(s, l), Len(s) + 1, o) => ~Over(Append(s, l), Len(s) + 1, o, p)
  PROVE  MeantBy(Append(s, l), p, v)
<1> DEFINE t == Append(s, l)
<1>1. Len(s) \in Nat /\ Len(t) = Len(s) + 1
  BY LineAdded
<1>2. \A n \in 1 .. Len(s), o \in Nat :
        /\ t[n] = s[n]
        /\ PlacedAt(t, n, o) <=> PlacedAt(s, n, o)
        /\ Over(t, n, o, p) <=> Over(s, n, o, p)
  BY PlacesOfBoth
<1>3. \A o \in Nat : PlacedAt(t, Len(s) + 1, o) => ~Over(t, Len(s) + 1, o, p)
  OBVIOUS
<1> HIDE DEF t
<1>4. CASE v = Erased /\ \A n \in 1 .. Len(s), o \in Nat : PlacedAt(s, n, o) => ~Over(s, n, o, p)
  <2>1. ASSUME NEW n \in 1 .. Len(t), NEW o \in Nat, PlacedAt(t, n, o) PROVE ~Over(t, n, o, p)
    <3>1. CASE n \in 1 .. Len(s)
      BY <1>2, <1>4, <2>1, <3>1
    <3>2. CASE n = Len(s) + 1
      BY <1>3, <2>1, <3>2
    <3> QED BY <1>1, <3>1, <3>2
  <2> QED BY <1>4, <2>1 DEF MeantBy, t
<1>5. ASSUME NEW n \in 1 .. Len(s), NEW o \in Nat,
             PlacedAt(s, n, o), Over(s, n, o, p), v = s[n].data[p - o],
             \A m \in n + 1 .. Len(s), q \in Nat : PlacedAt(s, m, q) => ~Over(s, m, q, p)
      PROVE  MeantBy(t, p, v)
  <2>1. n \in 1 .. Len(t) /\ PlacedAt(t, n, o) /\ Over(t, n, o, p) /\ v = t[n].data[p - o]
    BY <1>1, <1>2, <1>5
  <2>2. ASSUME NEW m \in n + 1 .. Len(t), NEW q \in Nat, PlacedAt(t, m, q) PROVE ~Over(t, m, q, p)
    <3>1. CASE m \in n + 1 .. Len(s)
      <4>1. m \in 1 .. Len(s)
        BY <1>1, <3>1
      <4>2. PlacedAt(s, m, q) /\ (Over(t, m, q, p) <=> Over(s, m, q, p))
        BY <1>2, <2>2, <4>1
      <4> QED BY <1>5, <3>1, <4>2
    <3>2. CASE m = Len(s) + 1
      BY <1>3, <2>2, <3>2
    <3> QED BY <1>1, <3>1, <3>2
  <2> QED BY <2>1, <2>2 DEF MeantBy
<1> QED BY <1>4, <1>5 DEF MeantBy, t

\* What a line does that is no data record, and was not refused.
LEMMA OtherFollows ==
  ASSUME ImageTypeOK, Followed, NEW l \in Lines, l.kind \notin {"data", "bad", "unknown"},
         lines' = Append(lines, l), image' = image,
         base' = (IF BaseKind(l) THEN BaseOf(l) ELSE base),
         end' = (end \/ l = EndOfFile), end => l = Blank
  PROVE  Followed'
<1> USE DEF ImageTypeOK, Followed
<1>1. /\ lines' \in Seq(Lines) /\ Len(lines') = Len(lines) + 1 /\ Len(lines) \in Nat
      /\ lines'[Len(lines) + 1] = l /\ \A n \in 1 .. Len(lines) : lines'[n] = lines[n]
  BY LineAdded
<1>2. \A o \in Nat : ~PlacedAt(lines', Len(lines) + 1, o)
  BY OtherLineAdded
<1>3. BaseFollows'
  <2>1. BaseIs(lines', Len(lines'), base')
    BY <1>1, BaseAdded DEF BaseFollows
  <2>2. \A a \in Addresses : base' + a < Word
    BY BaseOfFits DEF BaseFollows
  <2> QED BY <2>1, <2>2 DEF BaseFollows
<1>4. NothingSkipped'
  BY <1>1 DEF NothingSkipped
<1>5. EndFollows'
  <2>1. CASE end
    <3>1. PICK e \in 1 .. Len(lines) :
            lines[e] = EndOfFile /\ \A n \in e + 1 .. Len(lines) : lines[n] = Blank
      BY <2>1 DEF EndFollows
    <3>2. ASSUME NEW n \in e + 1 .. Len(lines') PROVE lines'[n] = Blank
      <4>1. CASE n = Len(lines) + 1
        BY <1>1, <2>1, <4>1
      <4>2. CASE n # Len(lines) + 1
        <5>1. n \in e + 1 .. Len(lines) /\ n \in 1 .. Len(lines)
          <6> PICK len \in Nat : len = Len(lines)
            BY <1>1
          <6>1. e \in 1 .. len /\ n \in e + 1 .. len + 1 /\ n # len + 1
            BY <1>1, <3>1, <3>2, <4>2
          <6>2. n \in e + 1 .. len /\ n \in 1 .. len
            BY ONLY <6>1, len \in Nat
          <6> QED BY <6>2
        <5> QED BY ONLY <1>1, <3>1, <5>1
      <4> QED BY <4>1, <4>2
    <3>3. e \in 1 .. Len(lines') /\ lines'[e] = EndOfFile
      BY <1>1, <3>1
    <3> QED BY <3>2, <3>3 DEF EndFollows
  <2>2. CASE l = EndOfFile
    <3>1. /\ Len(lines) + 1 \in 1 .. Len(lines') /\ lines'[Len(lines) + 1] = EndOfFile
          /\ \A n \in Len(lines) + 1 + 1 .. Len(lines') : lines'[n] = Blank
      BY <1>1, <2>2
    <3> QED BY <3>1 DEF EndFollows
  <2>3. CASE ~end'
    BY <2>3 DEF EndFollows
  <2> QED BY <2>1, <2>2, <2>3
<1>6. PlacesInside'
  <2> SUFFICES ASSUME NEW n \in 1 .. Len(lines'), lines'[n].kind = "data"
               PROVE  \E o \in Nat : PlacedAt(lines', n, o) /\ o + Len(lines'[n].data) <= Len(image')
    BY DEF PlacesInside
  <2>1. n \in 1 .. Len(lines) /\ lines'[n] = lines[n]
    BY <1>1
  <2>2. PICK o \in Nat : PlacedAt(lines, n, o) /\ o + Len(lines[n].data) <= Len(image)
    BY <2>1 DEF PlacesInside
  <2> QED BY <2>1, <2>2, PlaceStays
<1>7. NoLonger'
  <2> SUFFICES ASSUME image # <<>>
               PROVE  \E n \in 1 .. Len(lines'), o \in Nat :
                        PlacedAt(lines', n, o) /\ o + Len(lines'[n].data) = Len(image')
    BY DEF NoLonger
  <2>1. PICK n \in 1 .. Len(lines), o \in Nat :
          PlacedAt(lines, n, o) /\ o + Len(lines[n].data) = Len(image)
    BY DEF NoLonger
  <2>2. n \in 1 .. Len(lines') /\ lines'[n] = lines[n] /\ PlacedAt(lines', n, o)
    BY <1>1, <2>1, PlaceStays
  <2> QED BY <2>1, <2>2
<1>8. BytesFollow'
  <2>1. \A p \in 1 .. Len(image) : MeantBy(lines', p, image[p])
    BY <1>2, StillMeant DEF BytesFollow
  <2> QED BY <2>1 DEF BytesFollow
<1> QED BY <1>3, <1>4, <1>5, <1>6, <1>7, <1>8

\* What a data record does that is not too large.
LEMMA DataFollows ==
  ASSUME ImageTypeOK, Followed, ~end, NEW l \in Lines, l.kind = "data",
         NEW size \in Nat, size = GrownTo(base + l.addr + Len(l.data)),
         lines' = Append(lines, l), image' = Placed(base + l.addr, l.data, size),
         base' = base, end' = end
  PROVE  Followed'
<1> DEFINE at == base + l.addr
           len == Len(l.data)
           last == Len(lines) + 1
<1> USE DEF ImageTypeOK, Followed
<1>1. /\ lines' \in Seq(Lines) /\ Len(lines') = last /\ Len(lines) \in Nat
      /\ lines'[last] = l /\ \A n \in 1 .. Len(lines) : lines'[n] = lines[n]
  BY LineAdded
<1>2. /\ l.addr \in Nat /\ l.data \in Seq(Byte) /\ len \in Nat /\ at \in Nat
      /\ Len(image) \in Nat
  BY LineType
<1>3. /\ Len(image') = size /\ at + len <= size /\ Len(image) <= size
      /\ size = at + len \/ size = Len(image)
      /\ \A p \in 1 .. size :
           image'[p] = IF at < p /\ p <= at + len THEN l.data[p - at]
                       ELSE IF p <= Len(image) THEN image[p] ELSE Erased
  <2>1. at + len <= size /\ Len(image) <= size /\ (size = at + len \/ size = Len(image))
    <3> PICK m \in Nat : m = at + len
      BY <1>2
    <3>1. size = IF Len(image) < m THEN m ELSE Len(image)
      BY DEF GrownTo
    <3> HIDE DEF at, len
    <3>2. m <= size /\ Len(image) <= size /\ (size = m \/ size = Len(image))
      BY ONLY <1>2, <3>1, m \in Nat
    <3> QED BY <3>2
  <2>2. Len(image') = size
    BY <1>2, PlacedBytes
  <2> QED BY <2>1, <2>2 DEF Placed
<1>4. PlacedAt(lines', last, at) /\ \A o : PlacedAt(lines', last, o) => o = at
  <2>1. PlacedAt(lines', last, at)
    BY DataLineAdded DEF BaseFollows
  <2> QED BY <1>1, <2>1, PlaceUnique
<1>5. \A n \in 1 .. Len(lines), o \in Nat : PlacedAt(lines', n, o) <=> PlacedAt(lines, n, o)
  BY PlaceStays
<1> HIDE DEF at, len, last
<1>6. BaseFollows'
  <2>1. BaseIs(lines', Len(lines'), base')
    BY <1>1, BaseAdded DEF BaseFollows, BaseKind, last
  <2> QED BY <2>1 DEF BaseFollows
<1>7. NothingSkipped'
  BY <1>1 DEF NothingSkipped, last
<1>8. EndFollows'
  BY DEF EndFollows
<1>9. PlacesInside'
  <2> SUFFICES ASSUME NEW n \in 1 .. Len(lines'), lines'[n].kind = "data"
               PROVE  \E o \in Nat : PlacedAt(lines', n, o) /\ o + Len(lines'[n].data) <= Len(image')
    BY DEF PlacesInside
  <2>1. CASE n = last
    BY <1>1, <1>2, <1>3, <1>4, <2>1 DEF len
  <2>2. CASE n \in 1 .. Len(lines)
    <3>1. PICK o \in Nat : PlacedAt(lines, n, o) /\ o + Len(lines[n].data) <= Len(image)
      BY <1>1, <2>2 DEF PlacesInside
    <3>2. lines[n] \in Lines /\ Len(lines[n].data) \in Nat
      BY <2>2, LineType
    <3>3. PlacedAt(lines', n, o) /\ o + Len(lines'[n].data) <= size
      BY <1>1, <1>2, <1>3, <1>5, <2>2, <3>1, <3>2
    <3> QED BY <1>3, <3>3
  <2> QED BY <1>1, <2>1, <2>2 DEF last
<1>10. NoLonger'
  <2> SUFFICES ASSUME image' # <<>>
               PROVE  \E n \in 1 .. Len(lines'), o \in Nat :
                        PlacedAt(lines', n, o) /\ o + Len(lines'[n].data) = Len(image')
    BY DEF NoLonger
  <2>1. CASE size = at + len
    <3>1. last \in 1 .. Len(lines')
      BY <1>1 DEF last
    <3> QED BY <1>1, <1>2, <1>3, <1>4, <2>1, <3>1 DEF len
  <2>2. CASE size = Len(image)
    <3>1. image # <<>>
      <4>1. image' \in Seq(Byte)
        BY <1>2, PlacedBytes DEF at
      <4>2. Len(image') # 0
        BY <4>1
      <4> QED BY <1>3, <2>2, <4>2
    <3>2. PICK n \in 1 .. Len(lines), o \in Nat :
            PlacedAt(lines, n, o) /\ o + Len(lines[n].data) = Len(image)
      BY <3>1 DEF NoLonger
    <3>3. n \in 1 .. Len(lines') /\ PlacedAt(lines', n, o) /\ o + Len(lines'[n].data) = Len(image')
      BY <1>1, <1>3, <1>5, <2>2, <3>2 DEF last
    <3> QED BY <3>3
  <2> QED BY <1>3, <2>1, <2>2
<1>11. BytesFollow'
  <2> SUFFICES ASSUME NEW p \in 1 .. size PROVE MeantBy(lines', p, image'[p])
    BY <1>3 DEF BytesFollow
  <2>1. CASE Over(lines', last, at, p)
    <3>1. image'[p] = lines'[last].data[p - at]
      BY <1>1, <1>3, <2>1 DEF Over, len
    <3>2. last \in 1 .. Len(lines') /\ last + 1 .. Len(lines') = {}
      BY <1>1 DEF last
    <3> QED BY <1>2, <1>4, <2>1, <3>1, <3>2 DEF MeantBy
  <2>2. CASE ~Over(lines', last, at, p)
    <3>1. image'[p] = IF p <= Len(image) THEN image[p] ELSE Erased
      BY <1>1, <1>3, <2>2 DEF Over, len
    <3>2. MeantBy(lines, p, image'[p])
      <4>1. CASE p <= Len(image)
        <5>1. p \in 1 .. Len(image)
          BY <1>2, <4>1
        <5> QED BY <3>1, <4>1, <5>1 DEF BytesFollow
      <4>2. CASE ~(p <= Len(image))
        <5>1. ASSUME NEW n \in 1 .. Len(lines), NEW o \in Nat, PlacedAt(lines, n, o)
              PROVE  ~Over(lines, n, o, p)
          <6>1. o + Len(lines[n].data) <= Len(image)
            BY <5>1, PlaceUnique DEF PlacesInside, PlacedAt
          <6>2. Len(lines[n].data) \in Nat
            BY LineType
          <6> QED BY <1>2, <4>2, <6>1, <6>2 DEF Over
        <5> QED BY <3>1, <4>2, <5>1 DEF MeantBy
      <4> QED BY <4>1, <4>2
    <3>3. \A o \in Nat : PlacedAt(lines', last, o) => ~Over(lines', last, o, p)
      BY <1>4, <2>2
    <3> QED BY <3>2, <3>3, StillMeant DEF last
  <2> QED BY <2>1, <2>2
<1> QED BY <1>6, <1>7, <1>8, <1>9, <1>10, <1>11

LEMMA LineFollows == ImageInv /\ Follows /\ Line => Follows'
<1> SUFFICES ASSUME ImageInv, Follows, Line PROVE Follows'
  OBVIOUS
<1>1. PICK l \in Lines :
        /\ lines' = Append(lines, l)
        /\ IF l = Blank THEN UNCHANGED <<image, base, end, result, beyond>>
           ELSE IF AfterEnd THEN RefuseFile ELSE Record(l)
  BY DEF Line
<1>2. Followed /\ ImageTypeOK /\ result = "hex"
  BY DEF Line, Follows, ImageInv
<1>3. CASE RefuseFile
  BY <1>3 DEF RefuseFile, Follows
<1>4. CASE l = Blank
  <2>1. l.kind = "blank" /\ ~BaseKind(l) /\ l # EndOfFile
    BY <1>4 DEF Blank, EndOfFile, Plain, BaseKind
  <2>2. UNCHANGED <<image, base, end, result, beyond>>
    BY <1>1, <1>4
  <2>3. /\ lines' = Append(lines, l) /\ image' = image /\ l.kind \notin {"data", "bad", "unknown"}
        /\ base' = (IF BaseKind(l) THEN BaseOf(l) ELSE base)
        /\ end' = (end \/ l = EndOfFile)
    BY <1>1, <1>2, <2>1, <2>2 DEF ImageTypeOK
  <2>4. Followed'
    BY <1>2, <1>4, <2>3, OtherFollows
  <2> QED BY <1>2, <2>2, <2>4 DEF Follows
<1>5. CASE l # Blank /\ ~AfterEnd /\ Record(l) /\ ~RefuseFile
  <2>1. ~end
    BY <1>5 DEF AfterEnd
  <2>2. CASE l.kind = "data"
    <3> DEFINE at == base + l.addr
    <3>1. /\ l.addr \in Nat /\ at \in Nat /\ at < Word
          /\ l.data \in Seq(Byte) /\ Len(l.data) \in Nat
      BY <1>2, <2>2, AddressFits, LineType DEF Followed, BaseFollows, ImageTypeOK
    <3>2. At(l) = at
      BY <3>1, WrappedType DEF At
    <3>3. ~TooLarge(at, Len(l.data))
      BY <1>5, <2>2, <3>2 DEF Record, DataRecord
    <3>4. at + Len(l.data) < Word
      BY <3>1, <3>3, FwImageAssumption DEF TooLarge
    <3>5. Wrapped(at + Len(l.data)) = at + Len(l.data)
      <4>1. at + Len(l.data) \in Nat
        BY <3>1
      <4> HIDE DEF at
      <4> QED BY <3>4, <4>1, WrappedType
    <3>6. /\ image' = Placed(at, l.data, GrownTo(at + Len(l.data)))
          /\ UNCHANGED <<base, end, result>>
      BY <1>5, <2>2, <3>2, <3>3, <3>5 DEF Record, DataRecord, Size
    <3>7. GrownTo(at + Len(l.data)) \in Nat
      BY <1>2, <3>1 DEF GrownTo, ImageTypeOK
    <3>8. Followed'
      BY <1>1, <1>2, <2>1, <2>2, <3>6, <3>7, DataFollows
    <3> QED BY <1>2, <3>6, <3>8 DEF Follows
  <2>3. CASE l.kind # "data"
    <3>1. /\ l.kind \notin {"bad", "unknown"}
          /\ image' = image /\ result' = result
          /\ base' = (IF BaseKind(l) THEN BaseOf(l) ELSE base)
          /\ end' = (end \/ l = EndOfFile)
      <4>1. CASE l.kind \in {"segment", "linear"}
        <5>1. SetBase(BaseOf(l))
          BY <1>5, <4>1 DEF Record, BaseOf
        <5>2. BaseKind(l) /\ l # EndOfFile /\ end' = FALSE
          BY <2>1, <4>1, <5>1, KindsOfLines, <1>2 DEF SetBase, BaseKind, ImageTypeOK
        <5> QED BY <2>1, <4>1, <5>1, <5>2 DEF SetBase
      <4>2. CASE l.kind = "end"
        <5>1. end' = TRUE /\ UNCHANGED <<image, base, result>>
          BY <1>5, <4>2 DEF Record
        <5>2. ~BaseKind(l) /\ l = EndOfFile
          BY <4>2, KindsOfLines DEF BaseKind
        <5> QED BY <4>2, <5>1, <5>2
      <4>3. CASE l.kind = "start"
        <5>1. UNCHANGED <<image, base, end, result>>
          BY <1>5, <4>3 DEF Record
        <5>2. ~BaseKind(l) /\ l # EndOfFile
          BY <4>3, KindsOfLines DEF BaseKind
        <5> QED BY <1>2, <2>1, <4>3, <5>1, <5>2 DEF ImageTypeOK
      <4> QED BY <1>5, <2>3, <4>1, <4>2, <4>3 DEF Record
    <3>2. Followed'
      BY <1>1, <1>2, <2>1, <2>3, <3>1, OtherFollows
    <3> QED BY <1>2, <3>1, <3>2 DEF Follows
  <2> QED BY <2>2, <2>3
<1> QED BY <1>1, <1>3, <1>4, <1>5

LEMMA LoadNextFollows == ImageInv /\ Follows /\ [LoadNext]_fileVars => Follows'
<1> SUFFICES ASSUME ImageInv, Follows, [LoadNext]_fileVars PROVE Follows'
  OBVIOUS
<1>1. CASE RefuseFile
  BY <1>1 DEF RefuseFile, Follows
<1>2. ASSUME NEW d \in Contents, LoadBinary(d) PROVE Follows'
  BY <1>1, <1>2 DEF LoadBinary, Follows
<1>3. CASE LoadHex
  <2>1. lines = <<>> /\ image = <<>> /\ base = 0 /\ end = FALSE
    BY <1>3 DEF LoadHex, Follows, ImageInv, ImageTypeOK
  <2>2. Followed
    <3>1. BaseFollows
      BY <2>1, PlacesFit, FwImageAssumption DEF BaseFollows, BaseIs
    <3>2. NothingSkipped /\ EndFollows /\ PlacesInside /\ NoLonger /\ BytesFollow
      BY <2>1 DEF NothingSkipped, EndFollows, PlacesInside, NoLonger, BytesFollow
    <3> QED BY <3>1, <3>2 DEF Followed
  <2>3. Followed' /\ result' = "hex"
    BY <1>3, <2>2 DEF LoadHex, Followed, BaseFollows, NothingSkipped, EndFollows, PlacesInside,
      NoLonger, BytesFollow
  <2> QED BY <2>3 DEF Follows
<1>4. CASE Line
  BY <1>4, LineFollows
<1>5. CASE Close
  <2>1. CASE ~RefuseFile
    <3>1. Followed /\ end /\ image # <<>> /\ UNCHANGED <<lines, image, base, end>> /\ result' = "loaded"
      BY <1>5, <2>1 DEF Close, Complete, Follows
    <3>2. Followed'
      BY <3>1 DEF Followed, BaseFollows, NothingSkipped, EndFollows, PlacesInside, NoLonger,
        BytesFollow
    <3> QED BY <3>1, <3>2 DEF Follows
  <2> QED BY <1>1, <2>1
<1>6. CASE UNCHANGED fileVars
  BY <1>6 DEF fileVars, Follows, Followed, BaseFollows, NothingSkipped, EndFollows, PlacesInside,
    NoLonger, BytesFollow
<1> QED BY <1>1, <1>2, <1>3, <1>4, <1>5, <1>6 DEF LoadNext, NoFile

\* The operators of ImageIsTheFile, which choose the last of several, give
\* what the relations say.
LEMMA BaseAtIs ==
  ASSUME lines \in Seq(Lines), NEW n \in 1 .. Len(lines), NEW b, BaseIs(lines, n, b)
  PROVE  BaseAt(n) = b
<1>1. \A m \in 1 .. n : IsBase(m) <=> BaseKind(lines[m])
  BY DEF IsBase, BaseKind
<1>2. CASE \A m \in 1 .. n : ~IsBase(m)
  BY <1>1, <1>2 DEF BaseAt, BaseIs
<1>3. CASE \E m \in 1 .. n : IsBase(m)
  <2> DEFINE IsLast(m) == IsBase(m) /\ \A x \in m + 1 .. n : ~IsBase(x)
             d == CHOOSE m \in 1 .. n : IsLast(m)
  <2>1. PICK m \in 1 .. n : /\ BaseKind(lines[m]) /\ b = BaseOf(lines[m])
                            /\ \A x \in m + 1 .. n : ~BaseKind(lines[x])
    BY <1>1, <1>3 DEF BaseIs
  <2>2. IsLast(m)
    BY <1>1, <2>1 DEF IsBase, BaseKind
  <2>3. d \in 1 .. n /\ IsLast(d)
    <3> HIDE DEF IsLast
    <3> QED BY <2>2
  <2>4. ~(d < m) /\ ~(m < d)
    <3> HIDE DEF d
    <3> QED BY <2>2, <2>3
  <2>5. d = m
    BY <2>3, <2>4
  <2>6. BaseAt(n) = lines[d].value * (IF lines[d].kind = "linear" THEN Linear ELSE Segment)
    BY <1>3 DEF BaseAt
  <2> HIDE DEF d
  <2> QED BY <2>1, <2>5, <2>6 DEF BaseOf
<1> QED BY <1>2, <1>3

LEMMA FirstIs ==
  ASSUME lines \in Seq(Lines), NEW n, NEW o, PlacedAt(lines, n, o)
  PROVE  First(n) = o
  BY BaseAtIs DEF First, PlacedAt

LEMMA MeantIs ==
  ASSUME lines \in Seq(Lines), PlacesInside, NEW p, NEW v, MeantBy(lines, p, v)
  PROVE  Meant(p) = v
<1>1. /\ \A n \in DataLines : n \in 1 .. Len(lines) /\ First(n) \in Nat /\ PlacedAt(lines, n, First(n))
      /\ \A n, o : PlacedAt(lines, n, o) => n \in DataLines /\ First(n) = o
  <2>1. \A n, o : PlacedAt(lines, n, o) => n \in DataLines
    BY DEF PlacedAt, DataLines
  <2>2. \A n, o : PlacedAt(lines, n, o) => First(n) = o
    BY FirstIs
  <2>3. ASSUME NEW n \in DataLines
        PROVE  n \in 1 .. Len(lines) /\ \E o \in Nat : PlacedAt(lines, n, o)
    BY DEF DataLines, PlacesInside
  <2> QED BY <2>1, <2>2, <2>3
<1>2. \A n : Covers(n, p) <=> Over(lines, n, First(n), p)
  BY DEF Covers, Over, Last
<1>3. CASE v = Erased /\ \A n \in 1 .. Len(lines), o \in Nat : PlacedAt(lines, n, o) => ~Over(lines, n, o, p)
  <2>1. \A n \in DataLines : ~Covers(n, p)
    BY <1>1, <1>2, <1>3
  <2> QED BY <1>3, <2>1 DEF Meant
<1>4. ASSUME NEW n \in 1 .. Len(lines), NEW o \in Nat,
             PlacedAt(lines, n, o), Over(lines, n, o, p), v = lines[n].data[p - o],
             \A m \in n + 1 .. Len(lines), q \in Nat :
               PlacedAt(lines, m, q) => ~Over(lines, m, q, p)
      PROVE  Meant(p) = v
  <2> DEFINE IsLast(e) == Covers(e, p) /\ \A m \in DataLines : Covers(m, p) => m <= e
             d == CHOOSE e \in DataLines : IsLast(e)
  <2>1. n \in DataLines /\ First(n) = o /\ Covers(n, p)
    BY <1>1, <1>2, <1>4
  <2>2. ASSUME NEW m \in DataLines, Covers(m, p) PROVE m <= n
    <3>1. m \in 1 .. Len(lines) /\ First(m) \in Nat /\ PlacedAt(lines, m, First(m)) /\ Over(lines, m, First(m), p)
      BY <1>1, <1>2, <2>2
    <3>2. m \notin n + 1 .. Len(lines)
      BY <1>4, <3>1
    <3> QED BY <3>1, <3>2
  <2>3. IsLast(n)
    BY <2>1, <2>2
  <2>4. d \in DataLines /\ IsLast(d)
    <3> HIDE DEF IsLast
    <3> QED BY <2>1, <2>3
  <2>5. d <= n /\ n <= d /\ d \in Nat
    <3>1. Covers(d, p) /\ d \in Nat
      BY <1>1, <2>4
    <3> HIDE DEF d
    <3> QED BY <2>1, <2>2, <2>4, <3>1
  <2>6. d = n
    BY <2>5
  <2>7. Meant(p) = lines[d].data[p - First(d)]
    BY <2>1 DEF Meant
  <2> HIDE DEF d
  <2> QED BY <1>4, <2>1, <2>6, <2>7
<1> QED BY <1>3, <1>4 DEF MeantBy

LEMMA WholeImage == ImageInv /\ Follows => ImageIsTheFile
<1> SUFFICES ASSUME ImageInv, Follows, result = "loaded", lines # <<>> PROVE ImageIsTheFile
  BY DEF ImageIsTheFile
<1>1. /\ lines \in Seq(Lines) /\ image \in Seq(Byte) /\ end /\ image # <<>>
      /\ NothingSkipped /\ EndFollows /\ PlacesInside /\ NoLonger /\ BytesFollow
  BY DEF ImageInv, ImageTypeOK, Follows, Followed
<1>2. \A n \in DOMAIN lines : lines[n].kind \notin {"bad", "unknown"}
  BY <1>1 DEF NothingSkipped
<1>3. \E e \in DOMAIN lines :
        lines[e] = EndOfFile /\ \A n \in e + 1 .. Len(lines) : lines[n] = Blank
  BY <1>1 DEF EndFollows
<1>4. ASSUME NEW n \in DataLines PROVE Last(n) <= Len(image)
  <2>1. PICK o \in Nat : PlacedAt(lines, n, o) /\ o + Len(lines[n].data) <= Len(image)
    BY <1>1 DEF PlacesInside, DataLines
  <2> QED BY <1>1, <2>1, FirstIs DEF Last
<1>5. \E n \in DataLines : Last(n) = Len(image)
  <2>1. PICK n \in 1 .. Len(lines), o \in Nat :
          PlacedAt(lines, n, o) /\ o + Len(lines[n].data) = Len(image)
    BY <1>1 DEF NoLonger
  <2>2. n \in DataLines /\ First(n) = o
    <3>1. n \in DataLines
      BY <2>1 DEF PlacedAt, DataLines
    <3> QED BY <1>1, <2>1, <3>1, FirstIs
  <2> QED BY <2>1, <2>2 DEF Last
<1>6. \A p \in DOMAIN image : image[p] = Meant(p)
  BY <1>1, MeantIs DEF BytesFollow
<1> QED BY <1>2, <1>3, <1>4, <1>5, <1>6 DEF ImageIsTheFile

\* What the lines say, and no more and no less, is what is loaded.
THEOREM FileInvariant == LoadSpec => [](ImageInv /\ Follows)
<1>1. LoadInit => Follows
  BY DEF LoadInit, Follows
<1> QED BY <1>1, LoadInitInv, LoadNextInv, LoadNextFollows, PTL DEF LoadSpec

\* For any file, of any length, with bases and records in any order and any
\* number of them over the same bytes: a file that is loaded is whole, and
\* the image is the one it means.
THEOREM ImageIsWhatIsMeant == LoadSpec => []ImageIsTheFile
  BY FileInvariant, WholeImage, PTL
=============================================================================
