---------------------------- MODULE UpdateProofs ----------------------------
(***************************************************************************)
(* Proofs about Update for every program, every number of blocks, sectors, *)
(* versions, parameter sets and mishaps: its types, that the loader never  *)
(* starts a program that is not whole unless it gave up, that it gives up  *)
(* FCU errors no earlier than ERR_MAX of them, and about the parameters:   *)
(* whatever cuts and flash errors come between the steps of an edit, a     *)
(* save, a download or a switch of the areas, the machine runs with the    *)
(* parameters last chosen, and the flash follows.                          *)
(***************************************************************************)
EXTENDS Update, TLAPS

\* The loop over the blocks ends before its counter leaves them.
LoopInv == pc \in {"write", "verify"} => cnt \in Blocks

\* The regions are stacked, and no region reaches past the last block.
LEMMA RegionBounds ==
    /\ Last \in Nat /\ 1 <= Last
    /\ \A r \in 0 .. 3 : Upto(r) \in Nat /\ Upto(r) <= Last
<1>1. ENTRY[0] \in Nat /\ ENTRY[1] \in Nat /\ ENTRY[2] \in Nat /\ ENTRY[3] \in Nat /\ ENTRY[3] > 0
  BY UpdateAssumption
<1>2. /\ Upto(3) = ENTRY[3] /\ Upto(2) = ENTRY[3] + ENTRY[2]
      /\ Upto(1) = ENTRY[3] + ENTRY[2] + ENTRY[1]
      /\ Upto(0) = ENTRY[3] + ENTRY[2] + ENTRY[1] + ENTRY[0]
  BY DEF Upto
<1>3. Last \in Nat /\ 1 <= Last
  BY <1>1, <1>2 DEF Last
<1>4. ASSUME NEW r \in 0 .. 3 PROVE Upto(r) \in Nat /\ Upto(r) <= Last
  <2>1. r = 0 \/ r = 1 \/ r = 2 \/ r = 3
    OBVIOUS
  <2> QED BY <2>1, <1>1, <1>2 DEF Last
<1> QED BY <1>3, <1>4

-----------------------------------------------------------------------------
(***************************************************************************)
(* Types                                                                   *)
(***************************************************************************)

\* Clearing the flags of an update keeps BootInfo a record of its type.
LEMMA ClearedType == ASSUME BootInfo \in BootType PROVE Cleared \in BootType
<1>1. 0 \in 0 .. ERR_MAX - 1
  BY UpdateAssumption
<1> QED BY <1>1 DEF Cleared, BootType

\* Every area number has another one.
LEMMA OtherType == \A a \in Areas : Other(a) \in Areas
BY DEF Other, Areas, OPERATE_AREA1, OPERATE_AREA2

\* The jobs of the flash task are well typed.
LEMMA JobType ==
    /\ NoJob \in FltType
    /\ \A a \in Areas, v \in Made \cup {Erased} : Job(a, v) \in FltType
<1>1. 1 \in Sectors
  BY UpdateAssumption DEF Sectors
<1>2. 1 \in Areas
  BY DEF Areas, OPERATE_AREA1
<1> QED BY <1>1, <1>2 DEF NoJob, Job, FltType

LEMMA TypeInit == Init => TypeOK /\ LoopInv
<1> SUFFICES ASSUME Init PROVE TypeOK /\ LoopInv
  OBVIOUS
<1>1. BootInfo \in BootType
  BY UpdateAssumption DEF Init, BootType, Areas, OPERATE_AREA1
<1>2. flt \in FltType
  BY JobType DEF Init
<1>3. area \in [Areas -> [Sectors -> Made \cup {Erased, Torn}]]
  BY UpdateAssumption DEF Init, Made
<1>4. rom \in [Blocks -> Versions \cup {Erased, Torn}] /\ cnt \in 1 .. Last + 1
  BY UpdateAssumption, RegionBounds DEF Init
<1>5. 1 \in Made /\ mishaps \in 0 .. MaxMishaps
  BY UpdateAssumption DEF Made, Init
<1>6. pe \in 0 .. 3 /\ errs \in Nat /\ param \in Made /\ wanted \in Made /\ made \in Made
  BY <1>5 DEF Init
<1>7. pc = "main" /\ image \in Versions \cup {Torn} /\ from_sw \in Areas \cup {Erased}
  BY DEF Init, Areas
<1>8. /\ header \in BOOLEAN /\ DataSum \in BOOLEAN /\ f_ParaUpdate \in BOOLEAN
      /\ gaveup \in BOOLEAN /\ bare \in BOOLEAN /\ ferr \in BOOLEAN /\ req = "IDLE"
  BY DEF Init
<1> QED BY <1>1, <1>2, <1>3, <1>4, <1>5, <1>6, <1>7, <1>8 DEF TypeOK, LoopInv, PCs

\* The loader's steps keep the types.
LEMMA TypeLoader == TypeOK /\ LoopInv /\ (LoaderStep \/ FcuError) => TypeOK' /\ LoopInv'
<1> SUFFICES ASSUME TypeOK, LoopInv, LoaderStep \/ FcuError PROVE TypeOK' /\ LoopInv'
  OBVIOUS
<1> USE DEF PCs, loader, prog, ram, flashes, params
<1>1. BootInfo \in BootType
  BY DEF TypeOK
<1>2. Cleared \in BootType
  BY <1>1, ClearedType
<1>3. pe \in 0 .. 3 /\ cnt \in 1 .. Last + 1 /\ Upto(pe) \in Nat /\ Upto(pe) <= Last
      /\ Last \in Nat /\ 1 <= Last
  BY RegionBounds DEF TypeOK
<1>4. CASE Main
  <2>1. BootInfo' \in BootType
    BY <1>1, <1>2, <1>4 DEF Main, UserProgram
  <2>2. pc' \in {"fcu", "start", "lost"}
    BY <1>4 DEF Main, UserProgram
  <2>3. UNCHANGED <<loader, prog, params, mishaps>>
    BY <1>4 DEF Main
  <2> QED BY <2>1, <2>2, <2>3 DEF TypeOK, LoopInv
<1>5. CASE FcuInit
  BY <1>3, <1>5 DEF TypeOK, LoopInv, FcuInit
<1>6. CASE Erase
  <2>1. cnt \in Blocks
    BY <1>3, <1>6 DEF Erase, Blocks
  <2>2. rom' \in [Blocks -> Versions \cup {Erased, Torn}]
    BY <2>1, <1>6 DEF Erase, TypeOK
  <2>3. cnt' \in 1 .. Last + 1
    BY <1>3, <1>6 DEF Erase
  <2> QED BY <2>2, <2>3, <1>6 DEF TypeOK, LoopInv, Erase
<1>7. CASE NextRegion
  BY <1>3, <1>7 DEF TypeOK, LoopInv, NextRegion, Blocks
<1>8. CASE Write
  <2>1. rom' \in [Blocks -> Versions \cup {Erased, Torn}]
    BY <1>8 DEF Write, Mishap, TypeOK
  <2>2. mishaps' \in 0 .. MaxMishaps
    BY UpdateAssumption, <1>8 DEF Write, Mishap, TypeOK
  <2> QED BY <2>1, <2>2, <1>8 DEF TypeOK, LoopInv, Write, Mishap
<1>9. CASE Verify
  <2>1. cnt \in Blocks /\ cnt + 1 \in 1 .. Last + 1 /\ (cnt # Last => cnt + 1 \in Blocks)
    BY <1>3, <1>9 DEF LoopInv, Verify, Blocks
  <2>2. BootInfo' \in BootType
    BY <1>1, <1>2, <1>9 DEF Verify
  <2>3. /\ pc' \in {"done", "write", "halt"} /\ gaveup' \in BOOLEAN /\ cnt' \in 1 .. Last + 1
        /\ LoopInv'
    BY <2>1, <1>3, <1>9 DEF Verify, TypeOK, LoopInv, Blocks
  <2> QED BY <2>2, <2>3, <1>9 DEF TypeOK, Verify
<1>10. CASE Done
  BY <1>2, <1>10 DEF TypeOK, LoopInv, Done, UserProgram
<1>11. CASE FcuError
  <2>1. mishaps' \in 0 .. MaxMishaps /\ errs' \in Nat
    BY UpdateAssumption, <1>11 DEF FcuError, Mishap, TypeOK
  <2>2. rom' \in [Blocks -> Versions \cup {Erased, Torn}]
    BY <1>11 DEF FcuError, Mishap, TypeOK
  <2>3. BootInfo' \in BootType
    <3>1. CASE TooMany
      BY <3>1, <1>2, <1>11 DEF FcuError
    <3>2. CASE ~TooMany
      <4>1. BootInfo.err_count + 1 \in 0 .. ERR_MAX - 1
        BY <1>1, <3>2, UpdateAssumption DEF TooMany, BootType
      <4>2. BootInfo' = [BootInfo EXCEPT !.err_count = BootInfo.err_count + 1]
        BY <3>2, <1>11 DEF FcuError
      <4> QED BY <1>1, <4>1, <4>2 DEF BootType
    <3> QED BY <3>1, <3>2
  <2>4. pc' \in {"main", "halt"} /\ gaveup' \in BOOLEAN
    BY <1>11 DEF FcuError, TypeOK
  <2> QED BY <2>1, <2>2, <2>3, <2>4, <1>11 DEF TypeOK, LoopInv, FcuError
<1> QED BY <1>4, <1>5, <1>6, <1>7, <1>8, <1>9, <1>10, <1>11 DEF LoaderStep

\* The steps of start-up keep the types.
LEMMA TypeStart == TypeOK /\ LoopInv /\ StartStep => TypeOK' /\ LoopInv'
<1> SUFFICES ASSUME TypeOK, LoopInv, StartStep PROVE TypeOK' /\ LoopInv'
  OBVIOUS
<1> USE DEF PCs, loader, prog, ram, flashes, params
<1>1. BootInfo \in BootType /\ from_sw \in Areas \cup {Erased}
  BY DEF TypeOK
<1>2. BootInfo.sw \in Areas /\ BootInfo.bakup \in Areas \cup {0}
      /\ Other(BootInfo.sw) \in Areas
  BY <1>1, OtherType DEF BootType
<1>3. CASE GetSwData
  <2>1. BootInfo' \in BootType
    BY <1>1, <1>3 DEF GetSwData, BootType
  <2>2. pc' \in {"backup", "active"}
    BY <1>3 DEF GetSwData
  <2> QED BY <2>1, <2>2, <1>3 DEF TypeOK, LoopInv, GetSwData
<1>4. CASE Backup
  <2>1. BootInfo' \in BootType
    BY <1>1, <1>2, <1>4 DEF Backup, BootType
  <2>2. pc' \in {"swerase", "flip"}
    BY <1>4 DEF Backup
  <2>3. UNCHANGED <<loader, prog, params, mishaps>>
    BY <1>4 DEF Backup
  <2> QED BY <2>1, <2>2, <2>3 DEF TypeOK, LoopInv
<1>5. CASE SwErase
  BY <1>5 DEF TypeOK, LoopInv, SwErase
<1>6. CASE SwWrite
  <2>1. from_sw' \in Areas \cup {Erased} /\ ferr' \in BOOLEAN
    BY <1>1, <1>2, <1>6 DEF SwWrite, TypeOK
  <2>2. mishaps' \in 0 .. MaxMishaps
    BY <1>6, UpdateAssumption DEF SwWrite, Mishap, TypeOK
  <2> QED BY <2>1, <2>2, <1>6 DEF TypeOK, LoopInv, SwWrite
<1>7. CASE Flip
  <2>1. BootInfo' \in BootType
    BY <1>1, <1>2, <1>7 DEF Flip, BootType
  <2>2. pc' = "destroy" /\ UNCHANGED <<loader, prog, params, mishaps>>
    BY <1>7 DEF Flip
  <2> QED BY <2>1, <2>2 DEF TypeOK, LoopInv
<1>8. CASE DestroySum
  BY <1>8 DEF TypeOK, LoopInv, DestroySum
<1>9. CASE ClearFlag
  <2>1. BootInfo' \in BootType
    BY <1>1, <1>9 DEF ClearFlag, BootType
  <2> QED BY <2>1, <1>9 DEF TypeOK, LoopInv, ClearFlag
<1>10. ASSUME NEW a \in Areas, NEW next, CheckArea(a, next) PROVE flt' \in FltType
  BY <1>10, JobType DEF CheckArea
<1>11. CASE ChkActive
  <2>1. flt' \in FltType /\ pc' = "standby"
    BY <1>2, <1>10, <1>11 DEF ChkActive, CheckArea
  <2> QED BY <2>1, <1>11 DEF TypeOK, LoopInv, ChkActive
<1>12. CASE ChkStandby
  <2>1. flt' \in FltType /\ pc' = "fukuden"
    BY <1>2, <1>10, <1>12 DEF ChkStandby, CheckArea
  <2> QED BY <2>1, <1>12 DEF TypeOK, LoopInv, ChkStandby
<1>13. CASE SumEdit
  <2>1. DataSum' \in BOOLEAN /\ pc' \in {"edits", "recover"}
    BY <1>13 DEF SumEdit, TypeOK
  <2>2. UNCHANGED <<loader, prog, BootInfo, param, f_ParaUpdate, flashes,
                    from_sw, wanted, made, mishaps>>
    BY <1>13 DEF SumEdit
  <2> QED BY <2>1, <2>2 DEF TypeOK, LoopInv
<1>14. CASE ClearEdit
  BY <1>14 DEF TypeOK, LoopInv, ClearEdit
<1>15. CASE Recover
  <2>1. flt' \in FltType
    BY <1>2, <1>15, JobType DEF Recover, TypeOK
  <2>2. param' \in Made
    BY <1>15 DEF Recover, SumOK, TypeOK
  <2>3. pc' \in {"ready", "sum"}
    BY <1>15 DEF Recover
  <2>4. UNCHANGED <<loader, prog, BootInfo, DataSum, f_ParaUpdate, area, req, bare, ferr,
                    from_sw, wanted, made, mishaps>>
    BY <1>15 DEF Recover
  <2> QED BY <2>1, <2>2, <2>3, <2>4 DEF TypeOK, LoopInv
<1>16. CASE SumRestored
  BY <1>16 DEF TypeOK, LoopInv, SumRestored
<1>17. CASE Ready
  BY <1>17 DEF TypeOK, LoopInv, Ready
<1> QED BY <1>3, <1>4, <1>5, <1>6, <1>7, <1>8, <1>9, <1>11, <1>12, <1>13, <1>14, <1>15,
          <1>16, <1>17 DEF StartStep

\* The steps of the flash task keep the types.
LEMMA TypeFlash == TypeOK /\ LoopInv /\ (FlashStep \/ FlashError) => TypeOK' /\ LoopInv'
<1> SUFFICES ASSUME TypeOK, LoopInv, FlashStep \/ FlashError PROVE TypeOK' /\ LoopInv'
  OBVIOUS
<1> USE DEF PCs, loader, prog, ram, flashes, params
<1>1. BootInfo.sw \in Areas
  BY DEF TypeOK, BootType
<1>2. flt \in FltType /\ flt.to \in Areas /\ flt.at \in Sectors /\ flt.val \in Made \cup {Erased}
  BY DEF TypeOK, FltType
<1>3. Following \in FltType
  <2>1. CASE Last_Sector
    BY <2>1, <1>2 DEF Following, FltType
  <2>2. CASE ~Last_Sector
    <3>1. flt.at + 1 \in Sectors
      BY <2>2, <1>2, UpdateAssumption DEF Last_Sector, Sectors
    <3> QED BY <2>2, <3>1, <1>2 DEF Following, FltType
  <2> QED BY <2>1, <2>2
<1>4. \A st \in {"verify", "write", "unlock"} : [flt EXCEPT !.st = st] \in FltType
  BY <1>2 DEF FltType
<1>5. ASSUME NEW v \in Made \cup {Erased, Torn}
      PROVE  [area EXCEPT ![flt.to][flt.at] = v]
                \in [Areas -> [Sectors -> Made \cup {Erased, Torn}]]
  BY <1>2 DEF TypeOK
<1>6. CASE TakeRequest
  <2>1. flt' \in FltType
    <3>1. [NoJob EXCEPT !.st = "unlock"] \in FltType
      BY JobType DEF FltType
    <3> QED BY <3>1, <1>1, <1>6, JobType DEF TakeRequest, TypeOK
  <2> QED BY <2>1, <1>6 DEF TypeOK, LoopInv, TakeRequest
<1>7. CASE EraseSector
  <2>1. flt' \in FltType /\ area' \in [Areas -> [Sectors -> Made \cup {Erased, Torn}]]
    BY <1>3, <1>4, <1>5, <1>7 DEF EraseSector
  <2>2. UNCHANGED <<pc, loader, prog, BootInfo, ram, req, bare, ferr,
                    from_sw, wanted, made, mishaps>>
    BY <1>7 DEF EraseSector
  <2> QED BY <2>1, <2>2 DEF TypeOK, LoopInv
<1>8. CASE WriteSector
  <2>1. flt' \in FltType /\ area' \in [Areas -> [Sectors -> Made \cup {Erased, Torn}]]
    BY <1>2, <1>3, <1>5, <1>8 DEF WriteSector
  <2>2. UNCHANGED <<pc, loader, prog, BootInfo, ram, req, bare, ferr,
                    from_sw, wanted, made, mishaps>>
    BY <1>8 DEF WriteSector
  <2> QED BY <2>1, <2>2 DEF TypeOK, LoopInv
<1>9. CASE VerifyArea
  <2>1. flt' \in FltType
    BY <1>2, <1>4, <1>9, JobType DEF VerifyArea
  <2> QED BY <2>1, <1>9 DEF TypeOK, LoopInv, VerifyArea
<1>10. CASE Unlock
  BY <1>10, JobType DEF TypeOK, LoopInv, Unlock
<1>11. CASE FlashError
  <2>1. area' \in [Areas -> [Sectors -> Made \cup {Erased, Torn}]]
    BY <1>5, <1>11 DEF FlashError
  <2>2. flt' \in FltType /\ ferr' \in BOOLEAN /\ mishaps' \in 0 .. MaxMishaps
    BY <1>4, <1>11, UpdateAssumption DEF FlashError, Mishap, TypeOK
  <2>3. UNCHANGED <<pc, loader, prog, BootInfo, ram, req, bare, from_sw, wanted, made>>
    BY <1>11 DEF FlashError
  <2> QED BY <2>1, <2>2, <2>3 DEF TypeOK, LoopInv
<1> QED BY <1>6, <1>7, <1>8, <1>9, <1>10, <1>11 DEF FlashStep

\* The steps in the menus, and those that ask for a switch, keep the types.
LEMMA TypeMenu == TypeOK /\ LoopInv /\ (MenuStep \/ AskProg \/ ClearBakup \/ AskParm)
                    => TypeOK' /\ LoopInv'
<1> SUFFICES ASSUME TypeOK, LoopInv, MenuStep \/ AskProg \/ ClearBakup \/ AskParm
             PROVE  TypeOK' /\ LoopInv'
  OBVIOUS
<1> USE DEF PCs, loader, prog, ram, flashes, params
<1>1. BootInfo \in BootType /\ Other(BootInfo.sw) \in Areas
  BY OtherType DEF TypeOK, BootType
<1>2. made < MaxMade => made + 1 \in Made
  BY UpdateAssumption DEF TypeOK, Made
<1>3. CASE Edit
  <2>1. made' \in Made /\ param' \in Made /\ wanted' \in Made
    BY <1>2, <1>3 DEF Edit, TypeOK
  <2>2. /\ pc' = "edited" /\ DataSum' = FALSE
        /\ UNCHANGED <<loader, prog, BootInfo, f_ParaUpdate, flashes, from_sw, mishaps>>
    BY <1>3 DEF Edit
  <2> QED BY <2>1, <2>2 DEF TypeOK, LoopInv
<1>4. CASE MarkEdit
  BY <1>4 DEF TypeOK, LoopInv, MarkEdit
<1>5. CASE SaveEdit
  BY <1>5 DEF TypeOK, LoopInv, SaveEdit
<1>6. CASE RequestSave
  BY <1>6 DEF TypeOK, LoopInv, RequestSave
<1>7. CASE DownloadParam
  <2>1. made' \in Made /\ flt' \in FltType
    BY <1>1, <1>2, <1>7, JobType DEF DownloadParam
  <2> QED BY <2>1, <1>7 DEF TypeOK, LoopInv, DownloadParam
<1>8. CASE DownloadProgram
  BY <1>8 DEF TypeOK, LoopInv, DownloadProgram
<1>9. CASE WriteImage
  <2>1. image' \in Versions \cup {Torn} /\ pc' \in {"header", "run"}
    BY <1>9 DEF WriteImage
  <2>2. header' \in BOOLEAN
    BY <1>9 DEF WriteImage, TypeOK
  <2>3. UNCHANGED <<loader, BootInfo, params, mishaps>>
    BY <1>9 DEF WriteImage
  <2> QED BY <2>1, <2>2, <2>3 DEF TypeOK, LoopInv
<1>10. CASE AskSwitch
  BY <1>10 DEF TypeOK, LoopInv, AskSwitch
<1>11. CASE AskProg
  <2>1. BootInfo' \in BootType
    BY <1>1, <1>11 DEF AskProg, BootType
  <2>2. pc' \in {"parm", "reset"} /\ UNCHANGED <<cnt, pe, rom, prog, params, mishaps>>
    BY <1>11 DEF AskProg
  <2>3. errs' \in Nat /\ gaveup' \in BOOLEAN
    BY <1>11 DEF AskProg
  <2> QED BY <2>1, <2>2, <2>3 DEF TypeOK, LoopInv
<1>12. CASE ClearBakup
  <2>1. BootInfo' \in BootType
    BY <1>1, <1>12 DEF ClearBakup, BootType
  <2> QED BY <2>1, <1>12 DEF TypeOK, LoopInv, ClearBakup
<1>13. CASE AskParm
  <2>1. BootInfo' \in BootType
    BY <1>1, <1>13 DEF AskParm, BootType
  <2>2. wanted' \in Made
    BY <1>13 DEF AskParm, SumOK, TypeOK
  <2>3. pc' = "reset" /\ UNCHANGED <<loader, prog, ram, flashes, from_sw, made, mishaps>>
    BY <1>13 DEF AskParm
  <2> QED BY <2>1, <2>2, <2>3 DEF TypeOK, LoopInv
<1> QED BY <1>3, <1>4, <1>5, <1>6, <1>7, <1>8, <1>9, <1>10, <1>11, <1>12, <1>13 DEF MenuStep

\* A reset, or a power cut, keeps the types.
LEMMA TypeRestart == TypeOK /\ LoopInv /\ (SystemReset \/ Cut) => TypeOK' /\ LoopInv'
<1> SUFFICES ASSUME TypeOK, LoopInv, SystemReset \/ Cut PROVE TypeOK' /\ LoopInv'
  OBVIOUS
<1> USE DEF PCs, loader, prog, ram, flashes, params
<1>1. Restart
  BY DEF SystemReset, Cut
<1>2. mishaps' \in 0 .. MaxMishaps
  BY UpdateAssumption DEF SystemReset, Cut, Mishap, TypeOK
<1>3. rom' \in [Blocks -> Versions \cup {Erased, Torn}]
  BY <1>1 DEF Restart, TypeOK
<1>4. area' \in [Areas -> [Sectors -> Made \cup {Erased, Torn}]]
  BY <1>1 DEF Restart, TypeOK, FltType
<1>5. from_sw' \in Areas \cup {Erased} /\ bare' \in BOOLEAN /\ flt' \in FltType
  BY <1>1, JobType DEF Restart, TypeOK
<1>6. cnt' \in 1 .. Last + 1 /\ pe' \in 0 .. 3
  BY <1>1, RegionBounds DEF Restart
<1>7. pc' = "main" /\ UNCHANGED <<gaveup, errs, prog, BootInfo, ram, req, ferr, wanted, made>>
  BY <1>1 DEF Restart
<1> QED BY <1>2, <1>3, <1>4, <1>5, <1>6, <1>7 DEF TypeOK, LoopInv

\* Every step keeps the types.
LEMMA TypeNext == TypeOK /\ LoopInv /\ [Next]_vars => TypeOK' /\ LoopInv'
<1> SUFFICES ASSUME TypeOK, LoopInv, [Next]_vars PROVE TypeOK' /\ LoopInv'
  OBVIOUS
<1>1. CASE Next
  BY <1>1, TypeLoader, TypeStart, TypeFlash, TypeMenu, TypeRestart DEF Next, AskStep
<1>2. CASE UNCHANGED vars
  BY <1>2 DEF TypeOK, LoopInv, vars, loader, prog, ram, flashes, params
<1> QED BY <1>1, <1>2

LEMMA Typed == Spec => [](TypeOK /\ LoopInv)
BY TypeInit, TypeNext, PTL DEF Spec

\* Types: every state of Update is well typed, whatever its constants.
THEOREM TypeCorrect == Spec => []TypeOK
BY Typed, PTL

-----------------------------------------------------------------------------
(***************************************************************************)
(* The program                                                             *)
(***************************************************************************)
LoaderPCs == {"fcu", "erase", "write", "verify", "done"}
AskedPCs  == {"parm", "flag", "reset", "main"}
StopPCs   == {"halt", "lost"}

\* An image with a header is whole, and it stays so while it is asked for.
ImageInv ==
    /\ pc \in {"image", "header"} => ~header
    /\ header => image \in Versions
    /\ pc \in {"prog", "both"} => header
    /\ BootInfo.f_prog => image \in Versions

\* The flag stands from the request to the end of the update.
FlagInv ==
    /\ BootInfo.f_prog => pc \in LoaderPCs \cup AskedPCs
    /\ pc \in LoaderPCs => BootInfo.f_prog

\* The blocks below the counter hold the new program.
CopyInv ==
    /\ pc \in {"write", "verify"} => \A b \in Blocks : b < cnt => rom[b] = image
    /\ pc = "done" => Holds(image)

\* Outside of an update the ROM holds a whole program, unless one was given up.
WholeInv ==
    /\ pc \notin LoaderPCs \cup StopPCs /\ ~BootInfo.f_prog => Whole \/ (pc = "main" /\ gaveup)
    /\ pc \in {"parm", "flag", "reset"} => Whole
    /\ pc \in StopPCs => gaveup

\* The counter in battery RAM counts the errors of the update under way.
CountInv ==
    /\ BootInfo.f_prog => BootInfo.err_count = errs
    /\ ~BootInfo.f_prog => BootInfo.err_count = 0

IInv == ImageInv /\ FlagInv /\ CopyInv /\ WholeInv /\ CountInv

\* Where the program runs and nothing is asked for.
PlainPCs == PCs \ (LoaderPCs \cup AskedPCs \cup StopPCs \cup {"image", "header", "prog", "both"})

LEMMA SafeInit == Init => IInv
<1> SUFFICES ASSUME Init PROVE IInv
  OBVIOUS
<1>1. pc = "main" /\ header = FALSE /\ BootInfo.f_prog = FALSE /\ BootInfo.err_count = 0
  BY DEF Init
<1>2. \A b \in Blocks : rom[b] = 1
  BY DEF Init
<1>3. Whole
  BY <1>2, UpdateAssumption DEF Whole, Holds
<1> QED BY <1>1, <1>3 DEF IInv, ImageInv, FlagInv, CopyInv, WholeInv, CountInv,
          LoaderPCs, AskedPCs, StopPCs

\* Steps of the program that touch neither the ROM nor the request.
LEMMA SafePlain ==
    ASSUME IInv, pc' = pc \/ (pc \in PlainPCs /\ pc' \in PlainPCs),
           UNCHANGED <<cnt, rom, image, header, gaveup, errs>>,
           BootInfo'.f_prog = BootInfo.f_prog, BootInfo'.err_count = BootInfo.err_count
    PROVE  IInv'
<1> USE DEF PlainPCs, LoaderPCs, AskedPCs, StopPCs, PCs
<1>1. ImageInv'
  BY DEF IInv, ImageInv
<1>2. FlagInv'
  BY DEF IInv, FlagInv
<1>3. CopyInv'
  BY DEF IInv, CopyInv, Holds
<1>4. WholeInv'
  BY DEF IInv, WholeInv, Whole, Holds
<1>5. CountInv'
  BY DEF IInv, CountInv
<1> QED BY <1>1, <1>2, <1>3, <1>4, <1>5 DEF IInv

LEMMA SafeStart == TypeOK /\ IInv /\ StartStep => IInv'
<1> SUFFICES ASSUME TypeOK, IInv, StartStep PROVE IInv'
  OBVIOUS
<1>1. pc \in PlainPCs /\ pc' \in PlainPCs
  BY DEF StartStep, GetSwData, Backup, SwErase, SwWrite, Flip, DestroySum, ClearFlag,
         ChkActive, ChkStandby, SumEdit, ClearEdit, Recover, SumRestored, Ready, CheckArea,
         PlainPCs, LoaderPCs, AskedPCs, StopPCs, PCs
<1>2. UNCHANGED <<cnt, rom, image, header, gaveup, errs>>
  BY DEF StartStep, GetSwData, Backup, SwErase, SwWrite, Flip, DestroySum, ClearFlag,
         ChkActive, ChkStandby, SumEdit, ClearEdit, Recover, SumRestored, Ready, CheckArea,
         loader, prog
<1>3. BootInfo \in BootType
  BY DEF TypeOK
<1>4. BootInfo'.f_prog = BootInfo.f_prog /\ BootInfo'.err_count = BootInfo.err_count
  BY <1>3 DEF StartStep, GetSwData, Backup, SwErase, SwWrite, Flip, DestroySum, ClearFlag,
         ChkActive, ChkStandby, SumEdit, ClearEdit, Recover, SumRestored, Ready, CheckArea,
         BootType
<1> QED BY <1>1, <1>2, <1>4, SafePlain

LEMMA SafeFlash == IInv /\ (FlashStep \/ FlashError) => IInv'
<1> SUFFICES ASSUME IInv, FlashStep \/ FlashError PROVE IInv'
  OBVIOUS
<1>1. UNCHANGED <<pc, cnt, rom, image, header, gaveup, errs, BootInfo>>
  BY DEF FlashStep, FlashError, TakeRequest, EraseSector, WriteSector, VerifyArea, Unlock,
         loader, prog
<1> QED BY <1>1, SafePlain

LEMMA SafeMenu == TypeOK /\ IInv /\ (MenuStep \/ AskProg \/ ClearBakup \/ AskParm) => IInv'
<1> SUFFICES ASSUME TypeOK, IInv, MenuStep \/ AskProg \/ ClearBakup \/ AskParm PROVE IInv'
  OBVIOUS
<1> USE DEF LoaderPCs, AskedPCs, StopPCs, loader, prog
<1>1. CASE Edit \/ MarkEdit \/ SaveEdit \/ RequestSave \/ DownloadParam
  <2>1. pc \in PlainPCs /\ pc' \in PlainPCs
    BY <1>1 DEF Edit, MarkEdit, SaveEdit, RequestSave, DownloadParam, PlainPCs, PCs
  <2>2. UNCHANGED <<cnt, rom, image, header, gaveup, errs, BootInfo>>
    BY <1>1 DEF Edit, MarkEdit, SaveEdit, RequestSave, DownloadParam
  <2> QED BY <2>1, <2>2, SafePlain
<1>2. CASE DownloadProgram \/ WriteImage \/ AskSwitch
  <2>1. pc \in {"run", "image", "header"} /\ pc' \in {"run", "image", "header", "prog", "both", "parm"}
    BY <1>2 DEF DownloadProgram, WriteImage, AskSwitch
  <2>2. ~BootInfo.f_prog /\ UNCHANGED <<cnt, rom, gaveup, errs, BootInfo>>
    BY <1>2, <2>1 DEF DownloadProgram, WriteImage, AskSwitch, IInv, FlagInv
  <2>3. ImageInv'
    BY <1>2, <2>2 DEF DownloadProgram, WriteImage, AskSwitch, IInv, ImageInv
  <2>4. FlagInv' /\ CopyInv' /\ CountInv'
    BY <2>1, <2>2 DEF IInv, FlagInv, CopyInv, CountInv
  <2>5. WholeInv'
    BY <2>1, <2>2 DEF IInv, WholeInv, Whole, Holds
  <2> QED BY <2>3, <2>4, <2>5 DEF IInv
<1>3. CASE AskProg
  <2>1. pc \in {"prog", "both"} /\ pc' \in {"parm", "reset"}
    BY <1>3 DEF AskProg
  <2>2. /\ BootInfo'.f_prog /\ ~BootInfo.f_prog /\ BootInfo'.err_count = BootInfo.err_count
        /\ errs' = 0 /\ UNCHANGED <<cnt, rom, image, header>>
    BY <1>3, <2>1 DEF AskProg, IInv, FlagInv, TypeOK, BootType
  <2>3. ImageInv' /\ FlagInv'
    BY <2>1, <2>2 DEF IInv, ImageInv, FlagInv
  <2>4. CopyInv' /\ CountInv'
    BY <2>1, <2>2 DEF IInv, CopyInv, CountInv
  <2>5. WholeInv'
    BY <2>1, <2>2 DEF IInv, WholeInv, Whole, Holds
  <2> QED BY <2>3, <2>4, <2>5 DEF IInv
<1>4. CASE ClearBakup \/ AskParm
  <2>1. pc \in {"parm", "flag"} /\ pc' \in {"flag", "reset"}
    BY <1>4 DEF ClearBakup, AskParm
  <2>2. /\ BootInfo'.f_prog = BootInfo.f_prog /\ BootInfo'.err_count = BootInfo.err_count
        /\ UNCHANGED <<cnt, rom, image, header, gaveup, errs>>
    BY <1>4 DEF ClearBakup, AskParm, TypeOK, BootType
  <2>3. ImageInv' /\ FlagInv'
    BY <2>1, <2>2 DEF IInv, ImageInv, FlagInv
  <2>4. CopyInv' /\ CountInv'
    BY <2>1, <2>2 DEF IInv, CopyInv, CountInv
  <2>5. WholeInv'
    BY <2>1, <2>2 DEF IInv, WholeInv, Whole, Holds
  <2> QED BY <2>3, <2>4, <2>5 DEF IInv
<1> QED BY <1>1, <1>2, <1>3, <1>4 DEF MenuStep

\* A reset or a power cut: the loader has the flag, or the program is whole.
LEMMA SafeRestart == TypeOK /\ IInv /\ (SystemReset \/ Cut) => IInv'
<1> SUFFICES ASSUME TypeOK, IInv, SystemReset \/ Cut PROVE IInv'
  OBVIOUS
<1> USE DEF LoaderPCs, AskedPCs, StopPCs
<1>1. pc' = "main" /\ UNCHANGED <<gaveup, errs, image, header, BootInfo>>
  BY DEF SystemReset, Cut, Restart, prog
<1>2. pc \notin {"erase", "write"} => rom' = rom
  BY DEF SystemReset, Cut, Restart
<1>3. ImageInv' /\ FlagInv' /\ CopyInv' /\ CountInv'
  BY <1>1 DEF IInv, ImageInv, FlagInv, CopyInv, CountInv
<1>4. WholeInv'
  <2>1. CASE BootInfo.f_prog
    BY <2>1, <1>1 DEF WholeInv
  <2>2. CASE ~BootInfo.f_prog
    <3>1. pc \notin LoaderPCs /\ rom' = rom
      BY <2>2, <1>2 DEF IInv, FlagInv
    <3>2. CASE pc \in StopPCs
      BY <3>2, <1>1 DEF IInv, WholeInv
    <3>3. CASE pc \notin StopPCs
      <4>1. Whole \/ gaveup
        BY <2>2, <3>1, <3>3 DEF IInv, WholeInv
      <4>2. Whole => Whole'
        BY <3>1 DEF Whole, Holds
      <4> QED BY <4>1, <4>2, <1>1 DEF WholeInv
    <3> QED BY <3>2, <3>3
  <2> QED BY <2>1, <2>2
<1> QED BY <1>3, <1>4 DEF IInv

\* Starting the program: with the new one whole, or the old one untouched.
LEMMA SafeStarted ==
    ASSUME TypeOK, IInv, UserProgram, UNCHANGED <<rom, image, header, gaveup>>,
           Whole \/ gaveup
    PROVE  IInv'
<1> USE DEF LoaderPCs, AskedPCs, StopPCs
<1>1. BootInfo'.f_prog = FALSE /\ BootInfo'.err_count = 0
  BY DEF UserProgram, Cleared, TypeOK, BootType
<1>2. pc' \in {"start", "lost"} /\ (pc' = "start" <=> Whole)
  BY DEF UserProgram
<1>3. ImageInv' /\ FlagInv' /\ CopyInv' /\ CountInv'
  BY <1>1, <1>2 DEF IInv, ImageInv, FlagInv, CopyInv, CountInv
<1>4. Whole => Whole'
  BY DEF Whole, Holds
<1>5. WholeInv'
  BY <1>1, <1>2, <1>4 DEF WholeInv
<1> QED BY <1>3, <1>5 DEF IInv

\* Giving up clears the flag and the count.
LEMMA SafeHalt ==
    ASSUME TypeOK, IInv, pc' = "halt", BootInfo' = Cleared, gaveup' = TRUE,
           UNCHANGED <<image, header>>
    PROVE  IInv'
<1> USE DEF LoaderPCs, AskedPCs, StopPCs
<1>1. BootInfo'.f_prog = FALSE /\ BootInfo'.err_count = 0
  BY DEF Cleared, TypeOK, BootType
<1> QED BY <1>1 DEF IInv, ImageInv, FlagInv, CopyInv, WholeInv, CountInv

\* Steps of the loader within the update.
LEMMA SafeWithin ==
    ASSUME IInv, pc \in LoaderPCs \cup AskedPCs, BootInfo.f_prog, pc' \in LoaderPCs,
           UNCHANGED <<image, header, errs, BootInfo>>, CopyInv'
    PROVE  IInv'
BY DEF IInv, ImageInv, FlagInv, WholeInv, CountInv, LoaderPCs, AskedPCs, StopPCs

LEMMA SafeLoader == TypeOK /\ LoopInv /\ IInv /\ (LoaderStep \/ FcuError) => IInv'
<1> SUFFICES ASSUME TypeOK, LoopInv, IInv, LoaderStep \/ FcuError PROVE IInv'
  OBVIOUS
<1> USE DEF LoaderPCs, AskedPCs, StopPCs, prog, loader
<1>1. Last \in Nat /\ cnt \in 1 .. Last + 1
  BY RegionBounds DEF TypeOK
<1>2. pc \in LoaderPCs => BootInfo.f_prog
  BY DEF IInv, FlagInv
<1>3. CASE Main
  <2>1. CASE BootInfo.f_prog
    <3>1. pc = "main" /\ pc' = "fcu" /\ UNCHANGED <<image, header, errs, BootInfo>>
      BY <2>1, <1>3 DEF Main
    <3>2. CopyInv'
      BY <3>1 DEF CopyInv
    <3> QED BY <2>1, <3>1, <3>2, SafeWithin
  <2>2. CASE ~BootInfo.f_prog
    <3>1. pc = "main" /\ UserProgram /\ UNCHANGED <<rom, image, header, gaveup>>
      BY <2>2, <1>3 DEF Main
    <3>2. Whole \/ gaveup
      BY <2>2, <3>1 DEF IInv, WholeInv
    <3> QED BY <3>1, <3>2, SafeStarted
  <2> QED BY <2>1, <2>2
<1>4. CASE FcuInit \/ Erase
  <2>1. pc \in LoaderPCs /\ pc' = "erase" /\ UNCHANGED <<image, header, errs, BootInfo>>
    BY <1>4 DEF FcuInit, Erase
  <2>2. CopyInv'
    BY <2>1 DEF CopyInv
  <2> QED BY <2>1, <2>2, <1>2, SafeWithin
<1>5. CASE NextRegion
  <2>1. pc \in LoaderPCs /\ pc' \in LoaderPCs /\ UNCHANGED <<image, header, errs, BootInfo>>
    BY <1>5 DEF NextRegion
  <2>2. pc' = "erase" \/ (pc' = "write" /\ cnt' = 1)
    BY <1>5 DEF NextRegion
  <2>3. CopyInv'
    BY <2>2, <1>1 DEF CopyInv, Blocks
  <2> QED BY <2>1, <2>3, <1>2, SafeWithin
<1>6. CASE Write
  <2>1. pc = "write" /\ pc' = "verify" /\ UNCHANGED <<cnt, image, header, errs, BootInfo>>
    BY <1>6 DEF Write
  <2>2. \A b \in Blocks : b < cnt => rom'[b] = rom[b]
    BY <1>1, <1>6 DEF Write, Blocks, TypeOK
  <2>3. CopyInv'
    BY <2>1, <2>2 DEF CopyInv, IInv
  <2> QED BY <2>1, <2>3, <1>2, SafeWithin
<1>7. CASE Verify
  <2>1. CASE rom[cnt] = image
    <3>1. /\ pc = "verify" /\ cnt' = cnt + 1 /\ pc' = (IF cnt = Last THEN "done" ELSE "write")
          /\ UNCHANGED <<rom, image, header, errs, BootInfo>>
      BY <2>1, <1>7 DEF Verify
    <3>2. \A b \in Blocks : b <= cnt => rom[b] = image
      BY <2>1, <3>1, <1>1 DEF IInv, CopyInv, Blocks
    <3>3. cnt = Last => Holds(image)
      BY <3>2 DEF Holds, Blocks
    <3>4. \A b \in Blocks : b < cnt + 1 => b <= cnt
      BY <1>1 DEF Blocks
    <3>5. CopyInv'
      BY <3>1, <3>2, <3>3, <3>4 DEF CopyInv, Holds
    <3> QED BY <3>1, <3>5, <1>2, SafeWithin
  <2>2. CASE rom[cnt] # image
    <3>1. pc' = "halt" /\ BootInfo' = Cleared /\ gaveup' = TRUE /\ UNCHANGED <<image, header>>
      BY <2>2, <1>7 DEF Verify
    <3> QED BY <3>1, SafeHalt
  <2> QED BY <2>1, <2>2
<1>8. CASE Done
  <2>1. pc = "done" /\ UserProgram /\ UNCHANGED <<rom, image, header, gaveup>>
    BY <1>8 DEF Done
  <2>2. Whole
    BY <2>1, <1>2 DEF IInv, CopyInv, ImageInv, Whole
  <2> QED BY <2>1, <2>2, SafeStarted
<1>9. CASE FcuError
  <2>1. CASE TooMany
    <3>1. pc' = "halt" /\ BootInfo' = Cleared /\ gaveup' = TRUE /\ UNCHANGED <<image, header>>
      BY <2>1, <1>9 DEF FcuError
    <3> QED BY <3>1, SafeHalt
  <2>2. CASE ~TooMany
    <3>1. /\ pc \in LoaderPCs /\ pc' = "main" /\ errs' = errs + 1
          /\ BootInfo' = [BootInfo EXCEPT !.err_count = @ + 1] /\ UNCHANGED <<image, header>>
      BY <2>2, <1>9 DEF FcuError
    <3>2. /\ BootInfo.f_prog /\ BootInfo'.f_prog
          /\ BootInfo'.err_count = BootInfo.err_count + 1
      BY <3>1, <1>2 DEF TypeOK, BootType
    <3>3. ImageInv' /\ FlagInv' /\ CopyInv'
      BY <3>1, <3>2 DEF IInv, ImageInv, FlagInv, CopyInv
    <3>4. WholeInv' /\ CountInv'
      BY <3>1, <3>2 DEF IInv, WholeInv, CountInv
    <3> QED BY <3>3, <3>4 DEF IInv
  <2> QED BY <2>1, <2>2
<1> QED BY <1>3, <1>4, <1>5, <1>6, <1>7, <1>8, <1>9 DEF LoaderStep

\* Every step keeps the invariant.
LEMMA SafeNext == TypeOK /\ LoopInv /\ IInv /\ [Next]_vars => IInv'
<1> SUFFICES ASSUME TypeOK, LoopInv, IInv, [Next]_vars PROVE IInv'
  OBVIOUS
<1>1. CASE Next
  BY <1>1, SafeLoader, SafeStart, SafeFlash, SafeMenu, SafeRestart DEF Next, AskStep
<1>2. CASE UNCHANGED vars
  <2>1. UNCHANGED <<pc, cnt, rom, image, header, gaveup, errs, BootInfo>>
    BY <1>2 DEF vars, loader, prog
  <2> QED BY <2>1, SafePlain
<1> QED BY <1>1, <1>2

LEMMA Safe == Spec => []IInv
<1>1. Init => IInv
  BY SafeInit
<1>2. TypeOK /\ LoopInv /\ IInv /\ [Next]_vars => IInv'
  BY SafeNext
<1> QED BY <1>1, <1>2, Typed, PTL DEF Spec

\* GT4100_boot.c: wherever the power goes while the ROM is erased and
\* rewritten, the loader jumps into a program that is not whole only after it
\* gave the update up.
THEOREM NeverLost == Spec => []LostOnlyIfGivenUp
<1>1. IInv => LostOnlyIfGivenUp
  BY DEF IInv, WholeInv, LostOnlyIfGivenUp, StopPCs
<1> QED BY <1>1, Safe, PTL

\* err_led: the loader gives an update up for FCU errors only after ERR_MAX of
\* them in that update, whatever resets and power cuts lie between them.
THEOREM RetriesEnough == Spec => GivesUpLate
<1>1. TypeOK /\ IInv /\ [Next]_vars => [pc' = "halt" /\ pc # "verify" => errs' >= ERR_MAX]_vars
  <2> SUFFICES ASSUME TypeOK, IInv, Next, pc' = "halt", pc # "verify"
               PROVE  errs' >= ERR_MAX
    BY DEF vars
  <2>1. FcuError
    BY DEF Next, LoaderStep, StartStep, FlashStep, AskStep, MenuStep, Main, UserProgram, FcuInit, Erase,
           NextRegion, Write, Verify, Done, GetSwData, Backup, SwErase, SwWrite, Flip, DestroySum,
           ClearFlag, ChkActive, ChkStandby, SumEdit, ClearEdit, Recover, SumRestored, Ready,
           CheckArea, TakeRequest, EraseSector, WriteSector, VerifyArea, Unlock, FlashError,
           AskProg, ClearBakup, AskParm, SystemReset, Edit, MarkEdit, SaveEdit, RequestSave,
           DownloadParam, DownloadProgram, WriteImage, AskSwitch, Cut, Restart, Waits
  <2>2. TooMany /\ errs' = errs + 1 /\ pc \in LoaderPCs
    BY <2>1 DEF FcuError, LoaderPCs
  <2>3. BootInfo.err_count = errs /\ errs \in Nat
    BY <2>2 DEF IInv, FlagInv, CountInv, TypeOK
  <2> QED BY <2>2, <2>3, UpdateAssumption DEF TooMany
<1> QED BY <1>1, Typed, Safe, PTL DEF Spec, GivesUpLate

-----------------------------------------------------------------------------
(***************************************************************************)
(* The invariant of the parameters                                         *)
(***************************************************************************)
\* The switch of the parameter areas, start-up, and the program in service.
SwitchPCs == {"backup", "swerase", "swwrite", "flip", "destroy", "clear"}
CheckPCs  == {"active", "standby", "fukuden", "edits", "recover", "sum", "ready"}
MenuPCs   == {"run", "edited", "save", "image", "header", "prog", "both", "parm", "flag", "reset"}

\* What an area with the sectors f holds.
IsWhole(f) == f[1] \in Made /\ \A s \in Sectors : f[s] = f[1]
IsBlank(f) == \A s \in Sectors : f[s] = Erased
Has(f, v)  == IsWhole(f) /\ f[1] = v

Top        == FLT_PARAM_SECTORMAX
InUse      == area[BootInfo.sw]
Standby    == Other(BootInfo.sw)
Erasing    == flt.st \in {"erase", "write"}
Working    == flt.st \in {"erase", "write", "verify"}
\* The area that a switch asked for makes the one in use.
Target     == IF BootInfo.bakup \in Areas THEN Other(BootInfo.bakup) ELSE Standby

\* Where the marks and flags may stand.
MarkInv ==
    /\ f_ParaUpdate => /\ ~BootInfo.f_parm /\ wanted = param
                       /\ pc \notin {"recover", "sum", "ready", "download", "image", "header",
                                     "prog", "both", "parm", "flag", "reset"}
    /\ pc \in SwitchPCs => BootInfo.f_parm
    /\ pc \in (CheckPCs \cup MenuPCs \cup {"download"}) \ {"reset"} => ~BootInfo.f_parm
    /\ pc \in {"edited", "clear", "sum"} => ~DataSum
    /\ pc \in {"save", "edits"} => DataSum /\ f_ParaUpdate
    /\ pc = "flag" \/ (pc = "reset" /\ BootInfo.f_parm) => BootInfo.bakup = 0
    /\ pc \in SwitchPCs \ {"backup"} => BootInfo.bakup \in Areas
    /\ pc \in {"destroy", "clear"} => BootInfo.sw = Other(BootInfo.bakup)

\* The numbers of parameter sets are used up in order.
NumberInv ==
    /\ \A a \in Areas, s \in Sectors : area[a][s] <= made
    /\ flt.val <= made /\ param <= made /\ wanted <= made

\* The flash task: where it works, and how far it has come.
JobInv ==
    /\ pc \notin MenuPCs \cup {"standby", "fukuden", "ready", "download"} => flt.st = "idle"
    /\ pc \in (CheckPCs \ {"active"}) \cup {"download"} => req = "IDLE"
    /\ Working => flt.to = IF pc \in {"fukuden", "download"} THEN Standby ELSE BootInfo.sw
    /\ pc \in {"standby", "fukuden"} /\ Working => flt.val = Erased
    /\ pc = "standby" /\ Working => ~IsWhole(InUse)
    /\ pc = "ready" /\ Working => DataSum /\ flt.val = param
    /\ pc = "download" /\ Working => flt.val \in Made

\* The sectors behind the flash task hold what it writes.
BehindInv ==
    /\ Erasing => \A s \in Sectors : s < flt.at => area[flt.to][s] = flt.val
    /\ flt.st = "verify" => \A s \in Sectors : area[flt.to][s] = flt.val
    /\ flt.st = "write" => area[flt.to][flt.at] = Erased

\* A save is asked for and done only while the sum in RAM, or an edit, is good.
SaveInv ==
    pc \in MenuPCs \ {"edited"} /\ ~DataSum /\ ~f_ParaUpdate => flt.st = "idle" /\ req = "IDLE"

\* Before a save, the last sector of the area in use holds the parameters in
\* RAM only if the whole area does; while the area is rewritten, it does not.
TopInv ==
    /\ pc \in MenuPCs /\ (f_ParaUpdate \/ req = "WRITE" \/ pc = "edited") =>
         (InUse[Top] = param => Has(InUse, param))
    /\ pc \in MenuPCs /\ Erasing => InUse[Top] # param
    /\ pc \in MenuPCs /\ ~BootInfo.f_parm /\ Erasing => InUse[Top] # wanted \/ bare

\* The standby area is whole or blank once start-up has looked at it.
StandbyInv ==
    /\ \/ pc \in {"edits", "recover", "sum", "ready"}
       \/ pc \in MenuPCs /\ ~BootInfo.f_parm
       \/ pc = "fukuden" /\ ~Working
       => IsWhole(area[Standby]) \/ IsBlank(area[Standby]) \/ ferr
    /\ pc = "download" /\ ~Working => IsWhole(area[Standby]) \/ ferr
    /\ pc \in {"both", "parm", "flag"} => area[Standby][1] # Erased

\* RAM has the parameters chosen, or the flash has them.
Keeps(a) == (IsWhole(area[a]) => area[a][1] = wanted) /\ (IsWhole(area[a]) \/ ferr)
ForceInv ==
    ~bare =>
    /\ ~BootInfo.f_parm /\ DataSum => param = wanted
    /\ ~BootInfo.f_parm /\ ~DataSum /\ ~f_ParaUpdate /\ pc # "edited" => Keeps(BootInfo.sw)
    /\ BootInfo.f_parm => Keeps(Target)
    /\ pc \in MenuPCs \cup {"ready", "download"} /\ pc # "edited" /\ ~DataSum /\ ~f_ParaUpdate
         => ferr
    /\ pc = "sum" => param = wanted

\* The area number in flash follows, whatever cuts come between.
SwInv ==
    ~ferr =>
    /\ from_sw # BootInfo.sw => BootInfo.f_parm /\ BootInfo.bakup = BootInfo.sw
    /\ pc = "backup" => BootInfo.sw_flash = from_sw
    /\ pc \in {"swerase", "swwrite"} => BootInfo.bakup = BootInfo.sw
    /\ pc = "flip" => from_sw = Other(BootInfo.bakup)

\* A save is asked for or under way, or the area in use holds what is in RAM.
FollowInv ==
    /\ pc = "sum" => Has(InUse, param)
    /\ ~ferr /\ pc \in MenuPCs \cup {"ready", "download"} /\ DataSum /\ ~f_ParaUpdate =>
         \/ req = "WRITE" \/ Has(InUse, param)
         \/ Erasing /\ flt.val = param /\ flt.to = BootInfo.sw

PInv ==
    /\ MarkInv /\ NumberInv /\ JobInv /\ BehindInv /\ SaveInv
    /\ TopInv /\ StandbyInv /\ ForceInv /\ SwInv /\ FollowInv

-----------------------------------------------------------------------------
(***************************************************************************)
(* Areas                                                                   *)
(***************************************************************************)
LEMMA AreaFacts ==
    /\ 1 \in Sectors /\ Top \in Sectors /\ \A s \in Sectors : s <= Top
    /\ Erased \notin Made /\ Torn \notin Made /\ Erased # Torn
    /\ \A a \in Areas : Other(a) \in Areas /\ Other(a) # a /\ Other(Other(a)) = a
    /\ \A a \in Areas, b \in Areas : b = a \/ b = Other(a)
    /\ 0 \notin Areas
<1>1. 1 \in Sectors /\ Top \in Sectors /\ \A s \in Sectors : s <= Top
  BY UpdateAssumption DEF Sectors, Top
<1>2. Erased \notin Made /\ Torn \notin Made /\ Erased # Torn
  BY UpdateAssumption DEF Erased, Torn, Made
<1> QED BY <1>1, <1>2 DEF Areas, Other, OPERATE_AREA1, OPERATE_AREA2

Contents == [Sectors -> Made \cup {Erased, Torn}]

\* The operators of Update say the same about an area.
LEMMA Reading ==
    /\ \A a : SumOK(a) <=> IsWhole(area[a])
    /\ \A a : Blank(a) <=> IsBlank(area[a])
    /\ \A v : InFlash(v) <=> Has(InUse, v)
    /\ Differs <=> ~Has(InUse, param)
BY DEF SumOK, Blank, InFlash, Differs, IsWhole, IsBlank, Has, InUse

\* An area with a bad sector is not whole; one that holds a set everywhere is.
LEMMA Sums ==
    /\ \A f, s : s \in Sectors /\ f[s] \notin Made => ~IsWhole(f)
    /\ \A f, v : v \in Made /\ (\A s \in Sectors : f[s] = v) => Has(f, v)
    /\ \A f : (\A s \in Sectors : f[s] = Erased) <=> IsBlank(f)
    /\ \A f, v, s : Has(f, v) /\ s \in Sectors => f[s] = v
    /\ \A f, v : Has(f, v) <=> IsWhole(f) /\ f[1] = v
    /\ \A f : IsWhole(f) => f[1] \in Made
BY AreaFacts DEF IsWhole, IsBlank, Has

LEMMA ParamInit == Init => PInv
<1> SUFFICES ASSUME Init PROVE PInv
  OBVIOUS
<1>1. BootInfo.sw = 1 /\ from_sw = 1 /\ ~BootInfo.f_parm /\ param = 1 /\ wanted = 1 /\ made = 1
  BY DEF Init, OPERATE_AREA1
<1>2. Has(area[1], 1) /\ \A a \in Areas, s \in Sectors : area[a][s] \in {0, 1}
  BY UpdateAssumption, AreaFacts DEF Init, Areas, OPERATE_AREA1, OPERATE_AREA2, Has, IsWhole, Made, Erased
<1>3. pc = "main" /\ DataSum /\ ~f_ParaUpdate /\ flt = NoJob /\ ~bare /\ ~ferr
  BY DEF Init
<1>4. MarkInv /\ NumberInv
  BY <1>1, <1>2, <1>3 DEF MarkInv, NumberInv, NoJob, Erased, SwitchPCs, CheckPCs, MenuPCs
<1>5. JobInv /\ BehindInv /\ SaveInv /\ TopInv /\ StandbyInv
  BY <1>3 DEF JobInv, BehindInv, SaveInv, TopInv, StandbyInv, Erasing, Working, NoJob, CheckPCs, MenuPCs
<1>6. ForceInv /\ SwInv /\ FollowInv
  BY <1>1, <1>3 DEF ForceInv, SwInv, FollowInv, MenuPCs
<1> QED BY <1>4, <1>5, <1>6 DEF PInv

-----------------------------------------------------------------------------
(***************************************************************************)
(* The loader and start-up                                                 *)
(***************************************************************************)
\* Where nothing is going on about the parameters.
RestPCs == {"main", "start", "halt", "lost"} \cup LoaderPCs

\* The loader does not touch the parameters.
LEMMA ParamLoader == TypeOK /\ PInv /\ (LoaderStep \/ FcuError) => PInv'
<1> SUFFICES ASSUME TypeOK, PInv, LoaderStep \/ FcuError PROVE PInv'
  OBVIOUS
<1>1. pc \in RestPCs /\ pc' \in RestPCs /\ UNCHANGED params
  BY DEF LoaderStep, FcuError, Main, UserProgram, FcuInit, Erase, NextRegion, Write, Verify, Done,
         RestPCs, LoaderPCs
<1>2. /\ BootInfo'.sw = BootInfo.sw /\ BootInfo'.bakup = BootInfo.bakup
      /\ BootInfo'.f_parm = BootInfo.f_parm
  BY DEF LoaderStep, FcuError, Main, UserProgram, FcuInit, Erase, NextRegion, Write, Verify, Done,
         Cleared, TypeOK, BootType
<1> USE <1>1, <1>2 DEF PInv, RestPCs, LoaderPCs, SwitchPCs, CheckPCs, MenuPCs, params, ram, flashes
<1>3. MarkInv' /\ NumberInv'
  BY DEF MarkInv, NumberInv
<1>4. JobInv' /\ BehindInv' /\ SaveInv' /\ TopInv' /\ StandbyInv'
  BY DEF JobInv, BehindInv, SaveInv, TopInv, StandbyInv, Erasing, Working
<1>5. ForceInv'
  BY DEF ForceInv, Keeps, Target, Standby
<1>6. SwInv' /\ FollowInv'
  BY DEF SwInv, FollowInv
<1> QED BY <1>3, <1>4, <1>5, <1>6

\* The steps of a switch of the areas.
LEMMA ParamSwitch ==
    ASSUME TypeOK, PInv,
           GetSwData \/ Backup \/ SwErase \/ SwWrite \/ Flip \/ DestroySum \/ ClearFlag
    PROVE  PInv'
<1>1. /\ BootInfo \in BootType /\ BootInfo.sw \in Areas /\ BootInfo.bakup \in Areas \cup {0}
      /\ from_sw \in Areas \cup {Erased} /\ BootInfo.f_parm \in BOOLEAN
  BY DEF TypeOK, BootType
<1>2. /\ BootInfo'.sw \in Areas
      /\ pc # "flip" => BootInfo'.sw = BootInfo.sw
      /\ pc \in {"start", "swerase", "swwrite", "destroy"} =>
            BootInfo'.bakup = BootInfo.bakup /\ BootInfo'.f_parm = BootInfo.f_parm
      /\ pc = "start" => BootInfo'.sw_flash = from_sw
      /\ pc = "backup" => /\ BootInfo'.f_parm = BootInfo.f_parm
                          /\ BootInfo'.bakup = IF BootInfo.bakup \in Areas THEN BootInfo.bakup
                                               ELSE BootInfo.sw
                          /\ BootInfo'.sw_flash = BootInfo.sw_flash
      /\ pc = "flip" => /\ BootInfo'.bakup = BootInfo.bakup /\ BootInfo'.f_parm = BootInfo.f_parm
                        /\ BootInfo'.sw = IF BootInfo.sw = BootInfo.bakup THEN Other(BootInfo.sw)
                                          ELSE BootInfo.sw
      /\ pc = "clear" => BootInfo'.bakup = BootInfo.bakup /\ ~BootInfo'.f_parm
  BY <1>1, AreaFacts
     DEF GetSwData, Backup, SwErase, SwWrite, Flip, DestroySum, ClearFlag, BootType
<1>3. /\ UNCHANGED <<param, f_ParaUpdate, area, req, flt, bare, wanted, made>>
      /\ ferr => ferr'
      /\ pc # "destroy" => DataSum' = DataSum
      /\ pc = "destroy" => ~DataSum'
      /\ pc \notin {"swerase", "swwrite"} => from_sw' = from_sw
      /\ flt.st = "idle" /\ pc \notin CheckPCs \cup MenuPCs
  BY DEF GetSwData, Backup, SwErase, SwWrite, Flip, DestroySum, ClearFlag, PInv, JobInv,
         params, ram, flashes, CheckPCs, MenuPCs, TypeOK
<1>4. \/ pc = "start" /\ pc' = IF BootInfo.f_parm THEN "backup" ELSE "active"
      \/ pc = "backup" /\ pc' \in {"swerase", "flip"}
      \/ pc = "swerase" /\ pc' = "swwrite"
      \/ pc = "swwrite" /\ pc' = "flip"
      \/ pc = "flip" /\ pc' = "destroy"
      \/ pc = "destroy" /\ pc' = "clear"
      \/ pc = "clear" /\ pc' = "active"
  BY DEF GetSwData, Backup, SwErase, SwWrite, Flip, DestroySum, ClearFlag
<1> USE DEF PInv, SwitchPCs, CheckPCs, MenuPCs
<1>5. MarkInv' /\ NumberInv'
  BY <1>1, <1>2, <1>3, <1>4, AreaFacts DEF MarkInv, NumberInv
<1>6. JobInv' /\ BehindInv' /\ SaveInv' /\ TopInv' /\ StandbyInv' /\ FollowInv'
  BY <1>3, <1>4 DEF JobInv, BehindInv, SaveInv, TopInv, StandbyInv, FollowInv, Erasing, Working
<1>7. ForceInv'
  BY <1>1, <1>2, <1>3, <1>4, AreaFacts DEF MarkInv, ForceInv, Keeps, Target, Standby
<1>8. SwInv'
  <2>1. pc = "backup" => /\ pc' = "flip" <=> BootInfo.sw_flash \in Areas \ {BootInfo'.bakup}
                         /\ from_sw' = from_sw
    BY <1>2, <1>3 DEF GetSwData, Backup, SwErase, SwWrite, Flip, DestroySum, ClearFlag, Behind
  <2>2. pc = "swerase" => from_sw' = Erased /\ ferr' = ferr
    BY DEF GetSwData, Backup, SwErase, SwWrite, Flip, DestroySum, ClearFlag, flashes
  <2>3. pc = "swwrite" => from_sw' = Other(BootInfo.sw) \/ ferr'
    BY DEF GetSwData, Backup, SwErase, SwWrite, Flip, DestroySum, ClearFlag
  <2> QED BY <1>1, <1>2, <1>3, <1>4, <2>1, <2>2, <2>3, AreaFacts DEF MarkInv, SwInv
<1> QED BY <1>5, <1>6, <1>7, <1>8

\* Start-up looks at the areas, finishes an edit and recovers what is bad.
LEMMA ParamCheck ==
    ASSUME TypeOK, PInv,
           ChkActive \/ ChkStandby \/ SumEdit \/ ClearEdit \/ Recover \/ SumRestored \/ Ready
    PROVE  PInv'
<1>1. /\ BootInfo.sw \in Areas /\ Standby \in Areas /\ Standby # BootInfo.sw
      /\ \A a \in Areas : area[a] \in Contents
      /\ param \in Made /\ f_ParaUpdate \in BOOLEAN /\ DataSum \in BOOLEAN /\ made \in Made
  BY AreaFacts DEF TypeOK, BootType, Standby, Contents
<1>2. UNCHANGED <<BootInfo, area, bare, ferr, from_sw, wanted, made>>
  BY DEF ChkActive, ChkStandby, SumEdit, ClearEdit, Recover, SumRestored, Ready, params, ram, flashes
<1>3. /\ Standby' = Standby /\ InUse' = InUse /\ Target' = Target
      /\ \A a : IsWhole(area'[a]) <=> IsWhole(area[a])
  BY <1>2 DEF Standby, InUse, Target
<1>4. /\ NoJob.st = "idle" /\ NoJob.val = Erased
      /\ \A a, v : /\ Job(a, v).st = "erase" /\ Job(a, v).to = a
                   /\ Job(a, v).val = v /\ Job(a, v).at = 1
      /\ Erased <= made /\ \A s \in Sectors : ~(s < 1)
  BY <1>1 DEF NoJob, Job, Made, Erased, Sectors
<1> USE DEF SwitchPCs, CheckPCs, MenuPCs
<1>5. CASE ChkActive
  <2>1. /\ pc = "active" /\ pc' = "standby" /\ UNCHANGED ram /\ req' = "IDLE"
        /\ flt' = IF IsWhole(area[BootInfo.sw]) \/ IsBlank(area[BootInfo.sw]) THEN NoJob
                  ELSE Job(BootInfo.sw, Erased)
    BY <1>5, Reading DEF ChkActive, CheckArea
  <2>2. MarkInv' /\ NumberInv'
    BY <1>2, <1>4, <2>1 DEF PInv, MarkInv, NumberInv, ram
  <2>3. JobInv' /\ BehindInv'
    BY <1>2, <1>3, <1>4, <2>1 DEF JobInv, BehindInv, Erasing, Working, InUse
  <2>4. ForceInv' /\ SwInv'
    BY <1>2, <1>3, <2>1 DEF PInv, ForceInv, SwInv, Keeps, ram
  <2>5. SaveInv' /\ TopInv' /\ StandbyInv' /\ FollowInv'
    BY <2>1 DEF SaveInv, TopInv, StandbyInv, FollowInv
  <2> QED BY <2>2, <2>3, <2>4, <2>5 DEF PInv
<1>6. CASE ChkStandby
  <2>1. /\ pc = "standby" /\ pc' = "fukuden" /\ UNCHANGED <<ram, req>>
        /\ flt' = IF IsWhole(area[Standby]) \/ IsBlank(area[Standby]) THEN NoJob
                  ELSE Job(Standby, Erased)
    BY <1>6, Reading DEF ChkStandby, CheckArea, Standby
  <2>2. MarkInv' /\ NumberInv'
    BY <1>2, <1>4, <2>1 DEF PInv, MarkInv, NumberInv, ram
  <2>3. JobInv' /\ BehindInv'
    BY <1>2, <1>3, <1>4, <2>1 DEF PInv, JobInv, BehindInv, Erasing, Working
  <2>4. ForceInv' /\ SwInv'
    BY <1>2, <1>3, <2>1 DEF PInv, ForceInv, SwInv, Keeps, ram
  <2>5. SaveInv' /\ TopInv' /\ StandbyInv' /\ FollowInv'
    BY <1>2, <1>3, <1>4, <2>1 DEF SaveInv, TopInv, StandbyInv, FollowInv, Working
  <2> QED BY <2>2, <2>3, <2>4, <2>5 DEF PInv
<1>7. CASE SumEdit
  <2>1. /\ pc = "fukuden" /\ flt.st = "idle" /\ UNCHANGED <<param, f_ParaUpdate, req, flt>>
        /\ pc' = IF f_ParaUpdate THEN "edits" ELSE "recover"
        /\ DataSum' = IF f_ParaUpdate THEN TRUE ELSE DataSum
    BY <1>7 DEF SumEdit, flashes
  <2>2. MarkInv' /\ NumberInv'
    BY <1>2, <2>1 DEF PInv, MarkInv, NumberInv
  <2>3. JobInv' /\ BehindInv'
    BY <1>2, <1>3, <2>1 DEF PInv, JobInv, BehindInv, Erasing, Working
  <2>4. ForceInv' /\ SwInv'
    BY <1>2, <1>3, <2>1 DEF PInv, MarkInv, ForceInv, SwInv, Keeps
  <2>5. SaveInv' /\ TopInv' /\ StandbyInv' /\ FollowInv'
    BY <1>2, <1>3, <2>1 DEF PInv, SaveInv, TopInv, StandbyInv, FollowInv, Working
  <2> QED BY <2>2, <2>3, <2>4, <2>5 DEF PInv
<1>8. CASE ClearEdit
  <2>1. /\ pc = "edits" /\ pc' = "recover" /\ UNCHANGED <<param, DataSum, req, flt>>
        /\ ~f_ParaUpdate' /\ DataSum /\ f_ParaUpdate /\ flt.st = "idle"
    BY <1>8 DEF ClearEdit, flashes, PInv, MarkInv, JobInv
  <2>2. MarkInv' /\ NumberInv'
    BY <1>2, <2>1 DEF PInv, MarkInv, NumberInv
  <2>3. JobInv' /\ BehindInv'
    BY <1>2, <1>3, <2>1 DEF PInv, JobInv, BehindInv, Erasing, Working
  <2>4. ForceInv' /\ SwInv'
    BY <1>2, <1>3, <2>1 DEF PInv, MarkInv, ForceInv, SwInv, Keeps
  <2>5. SaveInv' /\ TopInv' /\ StandbyInv' /\ FollowInv'
    BY <1>2, <1>3, <2>1 DEF PInv, SaveInv, TopInv, StandbyInv, FollowInv, Working
  <2> QED BY <2>2, <2>3, <2>4, <2>5 DEF PInv
<1>9. CASE Recover
  <2>1. /\ pc = "recover" /\ UNCHANGED <<DataSum, f_ParaUpdate, req>>
        /\ ~f_ParaUpdate /\ ~BootInfo.f_parm /\ flt.st = "idle"
    BY <1>9 DEF Recover, PInv, MarkInv, JobInv
  <2>2. CASE DataSum
    <3>1. /\ pc' = "ready" /\ param' = param
          /\ flt' = IF Has(InUse, param) THEN NoJob ELSE Job(BootInfo.sw, param)
      BY <1>9, <2>2, Reading DEF Recover
    <3>2. MarkInv' /\ NumberInv'
      BY <1>2, <1>4, <2>1, <3>1 DEF PInv, MarkInv, NumberInv
    <3>3. JobInv' /\ BehindInv'
      BY <1>2, <1>3, <1>4, <2>1, <2>2, <3>1 DEF PInv, JobInv, BehindInv, Erasing, Working
    <3>4. ForceInv' /\ SwInv'
      BY <1>2, <1>3, <2>1, <2>2, <3>1 DEF PInv, ForceInv, SwInv, Keeps
    <3>5. SaveInv' /\ TopInv' /\ StandbyInv' /\ FollowInv'
      BY <1>2, <1>3, <1>4, <2>1, <3>1 DEF PInv, SaveInv, TopInv, StandbyInv, FollowInv, Erasing
    <3> QED BY <3>2, <3>3, <3>4, <3>5 DEF PInv
  <2>3. CASE ~DataSum
    <3>1. /\ flt' = flt
          /\ pc' = IF IsWhole(InUse) THEN "sum" ELSE "ready"
          /\ param' = IF IsWhole(InUse) THEN InUse[1] ELSE param
      BY <1>9, <2>3, Reading DEF Recover, InUse
    <3>2. NumberInv'
      BY <1>1, <1>2, <3>1, AreaFacts DEF PInv, NumberInv, InUse
    <3>3. MarkInv'
      BY <1>2, <2>1, <2>3, <3>1 DEF PInv, MarkInv
    <3>4. JobInv' /\ BehindInv'
      BY <1>2, <1>3, <2>1, <3>1 DEF PInv, JobInv, BehindInv, Erasing, Working
    <3>5. ForceInv' /\ SwInv'
      BY <1>2, <1>3, <2>1, <2>3, <3>1 DEF PInv, ForceInv, SwInv, Keeps, InUse
    <3>6. SaveInv' /\ TopInv' /\ StandbyInv' /\ FollowInv'
      BY <1>2, <1>3, <2>1, <2>3, <3>1, Sums DEF PInv, SaveInv, TopInv, StandbyInv, FollowInv, Working
    <3> QED BY <3>2, <3>3, <3>4, <3>5, <3>6 DEF PInv
  <2> QED BY <2>2, <2>3
<1>10. CASE SumRestored
  <2>1. /\ pc = "sum" /\ pc' = "ready" /\ UNCHANGED <<param, f_ParaUpdate, req, flt>> /\ DataSum'
        /\ ~f_ParaUpdate /\ flt.st = "idle"
    BY <1>10 DEF SumRestored, flashes, PInv, MarkInv, JobInv
  <2>2. MarkInv' /\ NumberInv'
    BY <1>2, <2>1 DEF PInv, MarkInv, NumberInv
  <2>3. JobInv' /\ BehindInv'
    BY <1>2, <1>3, <2>1 DEF PInv, JobInv, BehindInv, Erasing, Working
  <2>4. ForceInv' /\ SwInv'
    BY <1>2, <1>3, <2>1 DEF PInv, ForceInv, SwInv, Keeps
  <2>5. SaveInv' /\ TopInv' /\ StandbyInv' /\ FollowInv'
    BY <1>2, <1>3, <2>1 DEF PInv, SaveInv, TopInv, StandbyInv, FollowInv, Working
  <2> QED BY <2>2, <2>3, <2>4, <2>5 DEF PInv
<1>11. CASE Ready
  <2>1. /\ pc \in {"ready", "download"} /\ pc' = "run" /\ UNCHANGED <<ram, req, flt>>
        /\ ~f_ParaUpdate /\ flt.st = "idle" /\ req = "IDLE" /\ ~BootInfo.f_parm
    BY <1>11 DEF Ready, flashes, params, PInv, MarkInv, JobInv
  <2>2. MarkInv' /\ NumberInv'
    BY <1>2, <2>1 DEF PInv, MarkInv, NumberInv, ram
  <2>3. JobInv' /\ BehindInv'
    BY <1>2, <1>3, <2>1 DEF PInv, JobInv, BehindInv, Erasing, Working
  <2>4. ForceInv' /\ SwInv'
    BY <1>2, <1>3, <2>1 DEF PInv, ForceInv, SwInv, Keeps, ram
  <2>5. SaveInv' /\ TopInv' /\ StandbyInv' /\ FollowInv'
    BY <1>2, <1>3, <2>1 DEF PInv, SaveInv, TopInv, StandbyInv, FollowInv, Working, Erasing, ram
  <2> QED BY <2>2, <2>3, <2>4, <2>5 DEF PInv
<1> QED BY <1>5, <1>6, <1>7, <1>8, <1>9, <1>10, <1>11

-----------------------------------------------------------------------------
(***************************************************************************)
(* The flash task                                                          *)
(***************************************************************************)
\* A sector of an area becomes v, and the flash task goes on to state st.
LEMMA Sector ==
    ASSUME TypeOK, NEW v \in Made \cup {Erased, Torn},
           area' = [area EXCEPT ![flt.to][flt.at] = v]
    PROVE  /\ \A a \in Areas : a # flt.to => area'[a] = area[a]
           /\ \A s \in Sectors : s # flt.at => area'[flt.to][s] = area[flt.to][s]
           /\ area'[flt.to][flt.at] = v
           /\ v \notin Made => ~IsWhole(area'[flt.to])
<1>1. flt.to \in Areas /\ flt.at \in Sectors /\ \A a \in Areas : area[a] \in Contents
  BY DEF TypeOK, FltType, Contents
<1>2. area \in [Areas -> Contents]
  BY DEF TypeOK, Contents
<1>3. area'[flt.to] = [area[flt.to] EXCEPT ![flt.at] = v]
  BY <1>1, <1>2
<1>4. area'[flt.to][flt.at] = v
  BY <1>1, <1>3 DEF Contents
<1>5. v \notin Made => ~IsWhole(area'[flt.to])
  BY <1>1, <1>4 DEF IsWhole
<1>6. \A a \in Areas : a # flt.to => area'[a] = area[a]
  BY <1>1, <1>2
<1>7. \A s \in Sectors : s # flt.at => area'[flt.to][s] = area[flt.to][s]
  BY <1>1, <1>3 DEF Contents
<1> QED BY <1>4, <1>5, <1>6, <1>7

\* Where the flash task goes when it is done with a sector.
LEMMA Next_Sector ==
    ASSUME TypeOK
    PROVE  /\ Following.to = flt.to /\ Following.val = flt.val
           /\ \/ Following.st = "verify" /\ flt.at = Top
              \/ Following.st = "erase" /\ flt.at # Top /\ Following.at = flt.at + 1
           /\ \A s \in Sectors : s < flt.at + 1 <=> s < flt.at \/ s = flt.at
           /\ flt.at = Top => \A s \in Sectors : s < flt.at \/ s = flt.at
<1>1. flt \in FltType /\ flt.at \in Sectors /\ Sectors \subseteq Nat
  BY DEF TypeOK, FltType, Sectors
<1>2. Last_Sector <=> flt.at = Top
  BY <1>1, AreaFacts DEF Last_Sector, Sectors, Top
<1>3. \A s \in Sectors : s < flt.at + 1 <=> s < flt.at \/ s = flt.at
  BY <1>1 DEF Sectors
<1>4. flt.at = Top => \A s \in Sectors : s < flt.at \/ s = flt.at
  BY <1>1, AreaFacts DEF Sectors
<1>5. Following = IF flt.at = Top THEN [flt EXCEPT !.st = "verify"]
                  ELSE [flt EXCEPT !.at = flt.at + 1, !.st = "erase"]
  BY <1>2 DEF Following
<1> QED BY <1>1, <1>3, <1>4, <1>5 DEF FltType

\* Steps of the flash task that leave the areas alone.
LEMMA ParamTask ==
    ASSUME TypeOK, PInv, TakeRequest \/ VerifyArea \/ Unlock
    PROVE  PInv'
<1>1. /\ BootInfo.sw \in Areas /\ Standby \in Areas /\ Standby # BootInfo.sw
      /\ \A a \in Areas : area[a] \in Contents
      /\ param \in Made /\ f_ParaUpdate \in BOOLEAN /\ DataSum \in BOOLEAN /\ made \in Made
  BY AreaFacts DEF TypeOK, BootType, Standby, Contents
<1>2. UNCHANGED <<pc, BootInfo, area, ram, bare, ferr, from_sw, wanted, made>> /\ pc \in Waits
  BY DEF TakeRequest, VerifyArea, Unlock
<1>3. /\ Standby' = Standby /\ InUse' = InUse /\ Target' = Target
      /\ \A a : IsWhole(area'[a]) <=> IsWhole(area[a])
  BY <1>2 DEF Standby, InUse, Target
<1>4. /\ NoJob.st = "idle" /\ NoJob.val = Erased
      /\ [NoJob EXCEPT !.st = "unlock"].st = "unlock" /\ [NoJob EXCEPT !.st = "unlock"].val = Erased
      /\ [flt EXCEPT !.st = "unlock"].st = "unlock" /\ [flt EXCEPT !.st = "unlock"].val = flt.val
      /\ \A a, v : /\ Job(a, v).st = "erase" /\ Job(a, v).to = a
                   /\ Job(a, v).val = v /\ Job(a, v).at = 1
      /\ Erased <= made /\ \A s \in Sectors : ~(s < 1)
  BY <1>1 DEF NoJob, Job, Made, Erased, Sectors, TypeOK, FltType
<1> USE DEF SwitchPCs, CheckPCs, MenuPCs, ram
<1>5. MarkInv' /\ ForceInv' /\ SwInv'
  BY <1>2, <1>3 DEF PInv, MarkInv, ForceInv, SwInv, Keeps
<1>6. CASE TakeRequest
  <2>1. /\ flt.st = "idle" /\ req = "WRITE" /\ req' = "EXEC" /\ pc \in {"run", "image", "header"}
        /\ flt' = IF Has(InUse, param) THEN [NoJob EXCEPT !.st = "unlock"]
                  ELSE Job(BootInfo.sw, param)
    BY <1>6, Reading DEF TakeRequest, PInv, JobInv, Waits
  <2>2. DataSum \/ f_ParaUpdate
    BY <2>1 DEF PInv, SaveInv
  <2>3. param = wanted \/ bare
    BY <2>1, <2>2 DEF PInv, MarkInv, ForceInv
  <2>4. ~Has(InUse, param) => InUse[Top] # param
    BY <2>1 DEF PInv, TopInv
  <2>5. NumberInv' /\ JobInv' /\ BehindInv'
    BY <1>2, <1>3, <1>4, <2>1 DEF PInv, NumberInv, JobInv, BehindInv, Erasing, Working
  <2>6. SaveInv' /\ TopInv'
    BY <1>2, <1>3, <1>4, <2>1, <2>2, <2>3, <2>4 DEF PInv, SaveInv, TopInv, Erasing
  <2>7. StandbyInv' /\ FollowInv'
    BY <1>2, <1>3, <1>4, <2>1 DEF PInv, StandbyInv, FollowInv, Erasing
  <2> QED BY <1>5, <2>5, <2>6, <2>7 DEF PInv
<1>7. CASE VerifyArea
  <2>1. /\ flt.st = "verify" /\ req' = req
        /\ flt' = IF flt.val # Erased /\ flt.to = BootInfo.sw /\ ~Has(InUse, param)
                  THEN Job(flt.to, Erased) ELSE [flt EXCEPT !.st = "unlock"]
    BY <1>7, Reading DEF VerifyArea, Overtaken
  <2>2. \A s \in Sectors : area[flt.to][s] = flt.val
    BY <2>1 DEF PInv, BehindInv
  <2>3. flt.val # Erased => flt.val \in Made /\ Has(area[flt.to], flt.val)
    BY <2>2, Sums DEF TypeOK, FltType
  <2>4. CASE flt.val # Erased /\ flt.to = BootInfo.sw /\ ~Has(InUse, param)
    <3>1. flt' = Job(flt.to, Erased) /\ flt.val # param /\ InUse[Top] = flt.val
      BY <2>1, <2>2, <2>3, <2>4, AreaFacts DEF InUse
    <3>2. pc \in {"run", "image", "header"}
      <4>1. pc # "ready"
        BY <2>1, <3>1 DEF PInv, JobInv, Working
      <4>2. pc \notin {"standby", "fukuden", "download"}
        BY <1>1, <2>1, <2>4 DEF PInv, JobInv, Working
      <4> QED BY <1>2, <4>1, <4>2 DEF Waits
    <3>3. DataSum \/ f_ParaUpdate
      BY <2>1, <3>2 DEF PInv, SaveInv
    <3>4. param = wanted \/ bare
      BY <3>2, <3>3 DEF PInv, MarkInv, ForceInv
    <3>5. NumberInv' /\ JobInv' /\ BehindInv'
      BY <1>2, <1>3, <1>4, <2>1, <2>4, <3>1, <3>2 DEF PInv, NumberInv, JobInv, BehindInv, Erasing, Working
    <3>6. SaveInv' /\ TopInv'
      BY <1>2, <1>3, <2>1, <3>1, <3>3, <3>4 DEF PInv, SaveInv, TopInv
    <3>7. StandbyInv' /\ FollowInv'
      BY <1>2, <1>3, <2>1, <2>4, <3>1, <3>2 DEF PInv, StandbyInv, FollowInv, Erasing
    <3> QED BY <1>5, <3>5, <3>6, <3>7 DEF PInv
  <2>5. CASE ~(flt.val # Erased /\ flt.to = BootInfo.sw /\ ~Has(InUse, param))
    <3>1. flt'.st = "unlock" /\ flt'.val = flt.val
      BY <1>4, <2>1, <2>5
    <3>2. NumberInv' /\ JobInv' /\ BehindInv'
      BY <1>2, <1>3, <2>1, <3>1 DEF PInv, NumberInv, JobInv, BehindInv, Erasing, Working
    <3>3. SaveInv' /\ TopInv'
      BY <1>2, <1>3, <2>1, <3>1 DEF PInv, SaveInv, TopInv, Erasing
    <3>4. pc = "fukuden" => IsBlank(area[Standby])
      BY <2>1, <2>2, Sums DEF PInv, JobInv, Working
    <3>5. pc = "download" => IsWhole(area[Standby])
      BY <2>1, <2>2, Sums DEF PInv, JobInv, Working
    <3>6. StandbyInv' /\ FollowInv'
      BY <1>2, <1>3, <2>1, <3>1, <3>4, <3>5 DEF PInv, StandbyInv, FollowInv, Erasing, Working
    <3> QED BY <1>5, <3>2, <3>3, <3>6 DEF PInv
  <2> QED BY <2>4, <2>5
<1>8. CASE Unlock
  <2>1. /\ flt.st = "unlock" /\ flt' = NoJob
        /\ req' = IF req = "EXEC" THEN "IDLE" ELSE req
    BY <1>8 DEF Unlock
  <2>2. NumberInv' /\ JobInv' /\ BehindInv'
    BY <1>2, <1>3, <1>4, <2>1 DEF PInv, NumberInv, JobInv, BehindInv, Erasing, Working
  <2>3. SaveInv' /\ TopInv'
    BY <1>2, <1>3, <1>4, <2>1 DEF PInv, SaveInv, TopInv, Erasing
  <2>4. StandbyInv' /\ FollowInv'
    BY <1>2, <1>3, <1>4, <2>1 DEF PInv, StandbyInv, FollowInv, Erasing, Working
  <2> QED BY <1>5, <2>2, <2>3, <2>4 DEF PInv
<1> QED BY <1>6, <1>7, <1>8

\* Steps of the flash task that erase or write a sector, or fail at it.
LEMMA ParamSector ==
    ASSUME TypeOK, PInv, EraseSector \/ WriteSector \/ FlashError
    PROVE  PInv'
<1>1. /\ BootInfo.sw \in Areas /\ Standby \in Areas /\ Standby # BootInfo.sw
      /\ flt.to \in Areas /\ flt.at \in Sectors /\ flt.val \in Made \cup {Erased}
      /\ \A a \in Areas : area[a] \in Contents
      /\ param \in Made /\ wanted \in Made /\ made \in Made
  BY AreaFacts DEF TypeOK, BootType, FltType, Standby, Contents
<1>2. /\ UNCHANGED <<pc, BootInfo, ram, req, bare, from_sw, wanted, made>> /\ pc \in Waits
      /\ Erasing /\ (ferr => ferr')
  BY DEF EraseSector, WriteSector, FlashError, Erasing, TypeOK
<1>3. Standby' = Standby /\ Target' = Target /\ InUse' = area'[BootInfo.sw]
  BY <1>2 DEF Standby, InUse, Target
<1>4. PICK v \in {Erased, Torn, flt.val} :
          /\ area' = [area EXCEPT ![flt.to][flt.at] = v]
          /\ \/ v = Erased /\ flt.val # Erased /\ flt' = [flt EXCEPT !.st = "write"]
             \/ v = flt.val /\ flt' = Following
             \/ v \in {Erased, Torn} /\ flt' = [flt EXCEPT !.st = "unlock"] /\ ferr'
  <2>1. CASE EraseSector
    <3>1. CASE flt.val = Erased
      BY <2>1, <3>1 DEF EraseSector
    <3>2. CASE flt.val # Erased
      BY <2>1, <3>2 DEF EraseSector
    <3> QED BY <3>1, <3>2
  <2>2. CASE WriteSector
    BY <2>2 DEF WriteSector
  <2>3. CASE FlashError
    <3>1. PICK left \in {Erased, Torn} : area' = [area EXCEPT ![flt.to][flt.at] = left]
      BY <2>3 DEF FlashError
    <3>2. flt' = [flt EXCEPT !.st = "unlock"] /\ ferr'
      BY <2>3 DEF FlashError
    <3> QED BY <3>1, <3>2
  <2> QED BY <2>1, <2>2, <2>3
<1>5. v \in Made \cup {Erased, Torn} /\ v <= made /\ flt.val <= made
  BY <1>1, UpdateAssumption DEF Made, Erased, Torn, PInv, NumberInv
<1>6. /\ \A a \in Areas : a # flt.to => area'[a] = area[a]
      /\ \A s \in Sectors : s # flt.at => area'[flt.to][s] = area[flt.to][s]
      /\ area'[flt.to][flt.at] = v
      /\ v \notin Made => ~IsWhole(area'[flt.to])
  <2>1. area' = [area EXCEPT ![flt.to][flt.at] = v]
    BY <1>4
  <2>2. v \in Made \cup {Erased, Torn}
    BY <1>5
  <2> QED BY <2>1, <2>2, Sector
<1>7. flt.to = IF pc \in {"fukuden", "download"} THEN Standby ELSE BootInfo.sw
  BY <1>2 DEF PInv, JobInv, Erasing, Working
<1>8. \A a \in Areas, s \in Sectors : area'[a][s] <= made
  BY <1>1, <1>5, <1>6 DEF PInv, NumberInv
\* The next three hold whichever step it is.
<1>9. MarkInv' /\ SwInv'
  BY <1>2 DEF PInv, MarkInv, SwInv, ram
<1>10. pc \in MenuPCs \cup {"ready"} => DataSum \/ f_ParaUpdate
  BY <1>2 DEF PInv, SaveInv, JobInv, Erasing, Working, Waits, MenuPCs
<1>11. ForceInv'
  <2>1. ~BootInfo.f_parm
    BY <1>2 DEF PInv, MarkInv, Waits, CheckPCs, MenuPCs
  <2>2. flt.to = BootInfo.sw /\ ~DataSum /\ ~f_ParaUpdate =>
             ~IsWhole(area[BootInfo.sw]) /\ ~IsWhole(area'[BootInfo.sw])
    <3> SUFFICES ASSUME flt.to = BootInfo.sw, ~DataSum, ~f_ParaUpdate
                 PROVE  ~IsWhole(area[BootInfo.sw]) /\ ~IsWhole(area'[BootInfo.sw])
      OBVIOUS
    <3>1. pc = "standby"
      BY <1>1, <1>2, <1>7, <1>10 DEF Waits, MenuPCs
    <3>2. flt.val = Erased /\ ~IsWhole(area[BootInfo.sw])
      BY <1>2, <3>1 DEF PInv, JobInv, Erasing, Working, InUse
    <3>3. v \notin Made
      BY <3>2, AreaFacts
    <3> QED BY <1>6, <3>2, <3>3
  <2> QED BY <1>1, <1>2, <1>6, <2>1, <2>2 DEF PInv, ForceInv, Keeps, ram
<1> USE DEF SwitchPCs, CheckPCs, MenuPCs, ram
<1>12. /\ flt'.to = flt.to /\ flt'.val = flt.val
       /\ \/ v = Erased /\ flt'.st = "write" /\ flt'.at = flt.at /\ flt.val \in Made
          \/ v = flt.val /\ flt'.st = "verify" /\ flt.at = Top
          \/ v = flt.val /\ flt'.st = "erase" /\ flt.at # Top /\ flt'.at = flt.at + 1
          \/ v \notin Made /\ flt'.st = "unlock" /\ ferr'
  BY <1>1, <1>4, Next_Sector, AreaFacts DEF TypeOK, FltType
<1>13. NumberInv'
  BY <1>2, <1>8, <1>12 DEF PInv, NumberInv
<1>14. JobInv'
  BY <1>1, <1>2, <1>3, <1>6, <1>7, <1>12, AreaFacts DEF PInv, JobInv, Erasing, Working, InUse
<1>15. BehindInv'
  <2>1. /\ \A s \in Sectors : s < flt.at => area[flt.to][s] = flt.val /\ s # flt.at
        /\ flt.at \in Int
    BY <1>1, <1>2 DEF PInv, BehindInv, Erasing, Sectors
  <2>2. \A s \in Sectors : s < flt.at => area'[flt.to][s] = flt.val
    BY <1>6, <2>1
  <2>3. CASE v = Erased /\ flt'.st = "write" /\ flt'.at = flt.at
    BY <1>6, <1>12, <2>2, <2>3 DEF BehindInv, Erasing
  <2>4. CASE v = flt.val /\ flt'.st = "verify" /\ flt.at = Top
    BY <1>6, <1>12, <2>2, <2>4, Next_Sector DEF BehindInv, Erasing
  <2>5. CASE v = flt.val /\ flt'.st = "erase" /\ flt'.at = flt.at + 1
    BY <1>6, <1>12, <2>2, <2>5, Next_Sector DEF BehindInv, Erasing
  <2>6. CASE flt'.st = "unlock"
    BY <2>6 DEF BehindInv, Erasing
  <2> QED BY <1>12, <2>3, <2>4, <2>5, <2>6
<1>16. SaveInv'
  BY <1>2, <1>10 DEF SaveInv
<1>17. flt'.st = "verify" => /\ \A s \in Sectors : area'[flt.to][s] = flt.val
                             /\ flt.val \in Made => Has(area'[flt.to], flt.val)
  BY <1>12, <1>15, Sums DEF BehindInv
<1>18. TopInv'
  <2>1. CASE pc \notin MenuPCs
    BY <1>2, <2>1 DEF TopInv
  <2>2. CASE pc \in MenuPCs
    <3>1. flt.to = BootInfo.sw /\ InUse' = area'[flt.to] /\ InUse = area[flt.to]
      BY <1>3, <1>7, <2>2 DEF InUse
    <3>2. InUse[Top] # param /\ (InUse[Top] # wanted \/ bare \/ BootInfo.f_parm)
      BY <1>2, <2>2 DEF PInv, TopInv
    <3>3. CASE flt'.st = "verify"
      <4>1. area'[flt.to][Top] = flt.val /\ (flt.val \in Made => Has(area'[flt.to], flt.val))
        <5>1. Top \in Sectors
          BY AreaFacts
        <5> QED BY <1>17, <3>3, <5>1, Zenon
      <4>2. InUse'[Top] = flt.val /\ (flt.val = param => Has(InUse', param))
        <5>1. InUse' = area'[flt.to]
          BY <3>1
        <5> QED BY <1>1, <4>1, <5>1, Zenon
      <4> QED BY <1>2, <3>3, <4>1, <4>2 DEF TopInv, Erasing
    <3>4. CASE flt'.st # "verify"
      <4>1. InUse'[Top] = InUse[Top] \/ InUse'[Top] \notin Made
        BY <1>6, <1>12, <3>1, <3>4, AreaFacts
      <4> QED BY <1>1, <1>2, <2>2, <3>2, <4>1 DEF TopInv
    <3> QED BY <3>3, <3>4
  <2> QED BY <2>1, <2>2
<1>19. StandbyInv'
  <2>1. CASE flt.to = BootInfo.sw
    BY <1>1, <1>2, <1>3, <1>6, <1>7, <2>1 DEF PInv, StandbyInv, Erasing, Working, Waits
  <2>2. CASE flt.to = Standby
    <3>1. pc \in {"fukuden", "download"}
      BY <1>1, <1>7, <2>2
    <3>2. pc = "fukuden" => flt.val = Erased
      BY <1>2, <3>1 DEF PInv, JobInv, Erasing, Working
    <3>3. pc = "download" => flt.val \in Made
      BY <1>2, <3>1 DEF PInv, JobInv, Erasing, Working
    <3>4. flt'.st = "verify" \/ (flt'.st = "unlock" /\ ferr') \/ Working'
      BY <1>12 DEF Working
    <3> QED BY <1>2, <1>3, <1>17, <2>2, <3>1, <3>2, <3>3, <3>4, Sums DEF StandbyInv, Working
  <2> QED BY <1>7, <2>1, <2>2
<1>20. FollowInv'
  <2>1. CASE flt.to = BootInfo.sw
    <3>1. pc # "sum" /\ (pc \in MenuPCs => InUse[Top] # param)
      BY <1>2 DEF PInv, TopInv, Waits
    <3>2. pc # "download"
      BY <1>1, <1>7, <2>1
    <3>3. pc = "ready" => flt.val = param
      BY <1>2 DEF PInv, JobInv, Erasing, Working
    <3>4. pc \in MenuPCs => ~Has(InUse, param)
      BY <3>1, AreaFacts, Sums
    <3>5. flt'.st = "verify" /\ flt.val = param => Has(InUse', param)
      <4>1. InUse' = area'[flt.to]
        BY <1>3, <2>1
      <4> QED BY <1>1, <1>17, <4>1, Zenon
    <3>6. CASE pc \in MenuPCs
      BY <1>2, <1>12, <2>1, <3>4, <3>5, <3>6 DEF PInv, FollowInv, Erasing
    <3>7. CASE pc = "ready"
      BY <1>2, <1>12, <2>1, <3>3, <3>5, <3>7 DEF PInv, FollowInv, Erasing
    <3>8. CASE pc \notin MenuPCs \cup {"ready"}
      BY <1>2, <3>1, <3>2, <3>8 DEF FollowInv
    <3> QED BY <3>6, <3>7, <3>8
  <2>2. CASE flt.to = Standby
    <3>1. pc \in {"fukuden", "download"} /\ flt.to # BootInfo.sw /\ InUse' = InUse
      BY <1>1, <1>3, <1>6, <1>7, <2>2 DEF InUse
    <3> QED BY <1>2, <1>12, <3>1 DEF PInv, FollowInv
  <2> QED BY <1>7, <2>1, <2>2
<1> QED BY <1>9, <1>11, <1>13, <1>14, <1>15, <1>16, <1>18, <1>19, <1>20 DEF PInv

-----------------------------------------------------------------------------
(***************************************************************************)
(* Edits, downloads and the request to switch                              *)
(***************************************************************************)
\* Edits and their saving.
LEMMA ParamEdit ==
    ASSUME TypeOK, PInv, Edit \/ MarkEdit \/ SaveEdit \/ RequestSave
    PROVE  PInv'
<1>1. /\ BootInfo.sw \in Areas /\ Standby \in Areas
      /\ \A a \in Areas, s \in Sectors : area[a][s] \in Made \cup {Erased, Torn}
      /\ param \in Made /\ wanted \in Made /\ made \in Made /\ flt.val \in Made \cup {Erased}
      /\ f_ParaUpdate \in BOOLEAN /\ DataSum \in BOOLEAN
  BY AreaFacts DEF TypeOK, BootType, FltType, Standby
<1>0. /\ made \in Int /\ param \in Int /\ wanted \in Int /\ flt.val \in Int
      /\ \A a \in Areas, s \in Sectors : area[a][s] \in Int
  BY <1>1, UpdateAssumption DEF Made, Erased, Torn
<1>2. UNCHANGED <<BootInfo, area, flt, bare, ferr, from_sw>>
  BY DEF Edit, MarkEdit, SaveEdit, RequestSave, params, ram, flashes
<1>3. /\ Standby' = Standby /\ InUse' = InUse
      /\ \A a : IsWhole(area'[a]) <=> IsWhole(area[a])
  BY <1>2 DEF Standby, InUse
<1>4. ~BootInfo.f_parm
  BY DEF Edit, MarkEdit, SaveEdit, RequestSave, PInv, MarkInv, CheckPCs, MenuPCs
<1> USE DEF SwitchPCs, CheckPCs, MenuPCs
<1>5. CASE Edit
  <2>1. /\ pc = "run" /\ pc' = "edited" /\ made' = made + 1 /\ param' = made + 1 /\ ~DataSum'
        /\ wanted' = (IF f_ParaUpdate THEN param' ELSE wanted) /\ UNCHANGED <<f_ParaUpdate, req>>
    BY <1>5 DEF Edit, flashes
  <2>2. InUse[Top] <= made
    BY <1>1, AreaFacts DEF PInv, NumberInv, InUse
  <2>3. InUse[Top] # param' /\ InUse[Top] \in Int
    BY <1>0, <1>1, <2>1, <2>2, AreaFacts DEF InUse
  <2>4. NumberInv'
    BY <1>0, <1>2, <2>1 DEF PInv, NumberInv
  <2>5. MarkInv' /\ SaveInv'
    BY <1>2, <2>1 DEF PInv, MarkInv, SaveInv
  <2>6. JobInv' /\ BehindInv'
    BY <1>2, <1>3, <2>1 DEF PInv, JobInv, BehindInv, Erasing, Working
  <2>7. TopInv'
    BY <1>2, <1>3, <1>4, <2>1, <2>3 DEF PInv, TopInv, Erasing
  <2>8. StandbyInv' /\ SwInv' /\ FollowInv'
    BY <1>2, <1>3, <1>4, <2>1 DEF PInv, StandbyInv, SwInv, FollowInv
  <2>9. ForceInv'
    BY <1>2, <1>4, <2>1 DEF ForceInv
  <2> QED BY <2>4, <2>5, <2>6, <2>7, <2>8, <2>9 DEF PInv
<1>6. CASE MarkEdit
  <2>1. /\ pc = "edited" /\ pc' = "run" /\ f_ParaUpdate' /\ wanted' = param
        /\ UNCHANGED <<param, DataSum, req, made>> /\ ~DataSum
    BY <1>6 DEF MarkEdit, flashes, PInv, MarkInv
  <2>2. MarkInv' /\ NumberInv' /\ SaveInv'
    BY <1>2, <2>1, <1>4 DEF PInv, MarkInv, NumberInv, SaveInv
  <2>3. JobInv' /\ BehindInv'
    BY <1>2, <1>3, <2>1 DEF PInv, JobInv, BehindInv, Erasing, Working
  <2>4. TopInv'
    BY <1>2, <1>3, <2>1 DEF PInv, TopInv, Erasing
  <2>5. StandbyInv' /\ SwInv' /\ FollowInv' /\ ForceInv'
    BY <1>2, <1>3, <1>4, <2>1 DEF PInv, StandbyInv, SwInv, FollowInv, ForceInv
  <2> QED BY <2>2, <2>3, <2>4, <2>5 DEF PInv
<1>7. CASE SaveEdit
  <2>1. /\ pc = "run" /\ pc' = "save" /\ f_ParaUpdate /\ DataSum'
        /\ UNCHANGED <<param, f_ParaUpdate, req, wanted, made>>
    BY <1>7 DEF SaveEdit, flashes
  <2>2. MarkInv' /\ NumberInv' /\ SaveInv'
    BY <1>2, <2>1 DEF PInv, MarkInv, NumberInv, SaveInv
  <2>3. JobInv' /\ BehindInv'
    BY <1>2, <1>3, <2>1 DEF PInv, JobInv, BehindInv, Erasing, Working
  <2>4. TopInv'
    BY <1>2, <1>3, <2>1 DEF PInv, TopInv, Erasing
  <2>5. StandbyInv' /\ SwInv' /\ FollowInv' /\ ForceInv'
    BY <1>2, <1>3, <1>4, <2>1 DEF PInv, MarkInv, StandbyInv, SwInv, FollowInv, ForceInv
  <2> QED BY <2>2, <2>3, <2>4, <2>5 DEF PInv
<1>8. CASE RequestSave
  <2>1. /\ pc = "save" /\ pc' = "run" /\ req' = "WRITE" /\ ~f_ParaUpdate' /\ DataSum /\ f_ParaUpdate
        /\ UNCHANGED <<param, DataSum, wanted, made>>
    BY <1>8 DEF RequestSave, PInv, MarkInv
  <2>2. MarkInv' /\ NumberInv' /\ SaveInv'
    BY <1>2, <2>1 DEF PInv, MarkInv, NumberInv, SaveInv
  <2>3. JobInv' /\ BehindInv'
    BY <1>2, <1>3, <2>1 DEF PInv, JobInv, BehindInv, Erasing, Working
  <2>4. TopInv'
    BY <1>2, <1>3, <2>1 DEF PInv, TopInv, Erasing
  <2>5. StandbyInv' /\ SwInv' /\ FollowInv' /\ ForceInv'
    BY <1>2, <1>3, <1>4, <2>1 DEF PInv, MarkInv, StandbyInv, SwInv, FollowInv, ForceInv
  <2> QED BY <2>2, <2>3, <2>4, <2>5 DEF PInv
<1> QED BY <1>5, <1>6, <1>7, <1>8

\* Downloads, and what is asked for.
LEMMA ParamAsk ==
    ASSUME TypeOK, PInv,
           DownloadParam \/ DownloadProgram \/ WriteImage \/ AskSwitch \/ AskProg \/ ClearBakup \/ AskParm
    PROVE  PInv'
<1>1. /\ BootInfo.sw \in Areas /\ Standby \in Areas /\ Standby # BootInfo.sw
      /\ \A a \in Areas, s \in Sectors : area[a][s] \in Made \cup {Erased, Torn}
      /\ param \in Made /\ wanted \in Made /\ made \in Made /\ flt.val \in Made \cup {Erased}
  BY AreaFacts DEF TypeOK, BootType, FltType, Standby
<1>0. /\ made \in Int /\ param \in Int /\ wanted \in Int /\ flt.val \in Int
      /\ \A a \in Areas, s \in Sectors : area[a][s] \in Int
  BY <1>1, UpdateAssumption DEF Made, Erased, Torn
<1>2. /\ UNCHANGED <<area, ram, req, bare, ferr, from_sw>> /\ ~f_ParaUpdate
      /\ BootInfo'.sw = BootInfo.sw /\ ~BootInfo.f_parm
  BY DEF DownloadParam, DownloadProgram, WriteImage, AskSwitch, AskProg, ClearBakup, AskParm,
         params, flashes, TypeOK, BootType, PInv, MarkInv, CheckPCs, MenuPCs
<1>3. /\ Standby' = Standby /\ InUse' = InUse
      /\ \A a : IsWhole(area'[a]) <=> IsWhole(area[a])
  BY <1>2 DEF Standby, InUse
<1> USE DEF SwitchPCs, CheckPCs, MenuPCs, ram
<1>4. CASE DownloadParam
  <2>1. /\ pc = "run" /\ pc' = "download" /\ flt.st = "idle" /\ req = "IDLE" /\ made' = made + 1
        /\ flt' = Job(Standby, made + 1) /\ wanted' = wanted /\ BootInfo' = BootInfo
        /\ made + 1 \in Made
    BY <1>1, <1>4, UpdateAssumption DEF DownloadParam, Standby, Made
  <2>2. flt'.st = "erase" /\ flt'.to = Standby /\ flt'.val = made + 1 /\ flt'.at = 1
    BY <2>1 DEF Job
  <2>3. MarkInv' /\ NumberInv'
    BY <1>0, <1>2, <2>1, <2>2 DEF PInv, MarkInv, NumberInv
  <2>4. JobInv' /\ BehindInv' /\ SaveInv' /\ TopInv'
    <3>1. \A s \in Sectors : ~(s < 1)
      BY DEF Sectors
    <3> QED BY <1>2, <1>3, <2>1, <2>2, <3>1 DEF PInv, JobInv, BehindInv, SaveInv, TopInv, Erasing, Working
  <2>5. StandbyInv' /\ SwInv' /\ FollowInv'
    BY <1>2, <1>3, <2>1, <2>2 DEF PInv, StandbyInv, SwInv, FollowInv, Erasing, Working
  <2>6. ForceInv'
    BY <1>2, <1>3, <2>1 DEF PInv, ForceInv, Keeps
  <2> QED BY <2>3, <2>4, <2>5, <2>6 DEF PInv
<1>5. CASE DownloadProgram \/ WriteImage \/ AskSwitch \/ AskProg \/ ClearBakup
  <2>1. /\ UNCHANGED <<flt, wanted, made>> /\ BootInfo'.f_parm = BootInfo.f_parm
        /\ pc \in MenuPCs \ {"edited", "save", "flag", "reset"}
        /\ pc' \in MenuPCs \ {"edited", "save"}
        /\ pc' = "flag" => BootInfo'.bakup = 0
        /\ pc' \in {"both", "parm", "flag"} => pc \in {"both", "parm"} \/ area[Standby][1] # Erased
    BY <1>5 DEF DownloadProgram, WriteImage, AskSwitch, AskProg, ClearBakup, params, flashes,
                TypeOK, BootType, HeadOK, Standby
  <2>2. MarkInv' /\ NumberInv' /\ SaveInv'
    BY <1>2, <2>1 DEF PInv, MarkInv, NumberInv, SaveInv
  <2>3. JobInv' /\ BehindInv' /\ TopInv'
    BY <1>2, <1>3, <2>1 DEF PInv, JobInv, BehindInv, TopInv, Erasing, Working
  <2>4. StandbyInv'
    BY <1>2, <1>3, <2>1 DEF PInv, StandbyInv
  <2>5. SwInv' /\ FollowInv'
    BY <1>2, <1>3, <2>1 DEF PInv, SwInv, FollowInv, Erasing
  <2>6. ForceInv'
    BY <1>2, <1>3, <2>1 DEF PInv, ForceInv, Keeps
  <2> QED BY <2>2, <2>3, <2>4, <2>5, <2>6 DEF PInv
<1>6. CASE AskParm
  <2>1. /\ pc = "flag" /\ pc' = "reset" /\ UNCHANGED <<flt, made>>
        /\ BootInfo'.f_parm /\ BootInfo'.bakup = 0 /\ BootInfo.bakup = 0
        /\ wanted' = IF IsWhole(area[Standby]) THEN area[Standby][1] ELSE wanted
    BY <1>6, Reading DEF AskParm, flashes, TypeOK, BootType, Standby, PInv, MarkInv
  <2>2. IsWhole(area[Standby]) \/ ferr
    BY <1>2, <2>1, AreaFacts DEF PInv, StandbyInv, IsBlank
  <2>3. MarkInv' /\ SaveInv'
    BY <1>2, <2>1 DEF PInv, MarkInv, SaveInv
  <2>4. NumberInv'
    BY <1>1, <1>2, <2>1, AreaFacts DEF PInv, NumberInv
  <2>5. JobInv' /\ BehindInv' /\ TopInv'
    BY <1>2, <1>3, <2>1 DEF PInv, JobInv, BehindInv, TopInv, Erasing, Working
  <2>6. StandbyInv' /\ SwInv' /\ FollowInv'
    BY <1>2, <1>3, <2>1 DEF PInv, StandbyInv, SwInv, FollowInv, Erasing
  <2>7. Target' = Standby
    BY <1>3, <2>1, AreaFacts DEF Target
  <2>8. ForceInv'
    BY <1>2, <1>3, <2>1, <2>2, <2>7 DEF PInv, ForceInv, Keeps
  <2> QED BY <2>3, <2>4, <2>5, <2>6, <2>8 DEF PInv
<1> QED BY <1>4, <1>5, <1>6

-----------------------------------------------------------------------------
(***************************************************************************)
(* Resets and power cuts                                                   *)
(***************************************************************************)
\* What was being erased or written is torn.
LEMMA ParamRestart == ASSUME TypeOK, PInv, SystemReset \/ Cut PROVE PInv'
<1>1. /\ BootInfo.sw \in Areas /\ Standby \in Areas /\ Standby # BootInfo.sw
      /\ flt.to \in Areas /\ flt.at \in Sectors
      /\ \A a \in Areas : area[a] \in Contents
      /\ made \in Made /\ wanted \in Made /\ Made \subseteq Int /\ Torn \in Int
      /\ f_ParaUpdate \in BOOLEAN /\ DataSum \in BOOLEAN /\ bare \in BOOLEAN
  BY AreaFacts, UpdateAssumption DEF TypeOK, BootType, FltType, Standby, Contents, Made, Torn
<1>2. /\ pc' = "main" /\ flt' = NoJob /\ NoJob.st = "idle" /\ NoJob.val = Erased
      /\ UNCHANGED <<BootInfo, ram, req, ferr, wanted, made>>
      /\ from_sw' = from_sw \/ (pc \in {"swerase", "swwrite"} /\ from_sw' = Erased)
      /\ bare' = (bare \/ (pc = "edited" /\ ~f_ParaUpdate /\ ~Has(InUse, wanted)))
  BY Reading DEF SystemReset, Cut, Restart, NoJob
<1>3. Standby' = Standby /\ Target' = Target
  BY <1>2 DEF Standby, Target
<1>4. \/ area' = area
      \/ /\ Erasing /\ ~IsWhole(area'[flt.to])
         /\ \A a \in Areas : a # flt.to => area'[a] = area[a]
         /\ \A s \in Sectors : area'[flt.to][s] \in {area[flt.to][s], Torn}
  <2>1. CASE area' = area
    BY <2>1
  <2>2. CASE Erasing /\ area' = [area EXCEPT ![flt.to][flt.at] = Torn]
    <3>1. area' = [area EXCEPT ![flt.to][flt.at] = Torn]
      BY <2>2
    <3>2. /\ \A a \in Areas : a # flt.to => area'[a] = area[a]
          /\ \A s \in Sectors : s # flt.at => area'[flt.to][s] = area[flt.to][s]
          /\ area'[flt.to][flt.at] = Torn
          /\ Torn \notin Made => ~IsWhole(area'[flt.to])
      BY <3>1, Sector
    <3> QED BY <2>2, <3>2, AreaFacts
  <2> QED BY <2>1, <2>2 DEF SystemReset, Cut, Restart, Erasing
<1>5. Erasing => /\ pc \in MenuPCs \cup {"standby", "fukuden", "ready", "download"}
                 /\ flt.to = IF pc \in {"fukuden", "download"} THEN Standby ELSE BootInfo.sw
  BY DEF PInv, JobInv, Erasing, Working
<1> USE DEF SwitchPCs, CheckPCs, MenuPCs, ram
<1>6. MarkInv' /\ SaveInv' /\ TopInv' /\ StandbyInv' /\ FollowInv'
  BY <1>2 DEF PInv, MarkInv, SaveInv, TopInv, StandbyInv, FollowInv
<1>7. JobInv' /\ BehindInv'
  BY <1>2 DEF JobInv, BehindInv, Erasing, Working
<1>8. NumberInv'
  <2>1. \A a \in Areas, s \in Sectors : area'[a][s] <= made
    <3>1. Torn <= made
      BY <1>1, UpdateAssumption DEF Torn, Made
    <3> QED BY <1>1, <1>4, <3>1 DEF PInv, NumberInv
  <2>2. Erased <= made
    BY <1>1, UpdateAssumption DEF Erased, Made
  <2> QED BY <1>2, <2>1, <2>2 DEF PInv, NumberInv
<1>9. SwInv'
  BY <1>2 DEF PInv, SwInv, MarkInv
<1>10. ForceInv'
  <2> SUFFICES ASSUME ~bare' PROVE ForceInv'
    BY DEF ForceInv
  <2>1. ~bare /\ (pc = "edited" /\ ~f_ParaUpdate => Has(InUse, wanted))
    BY <1>2
  <2>2. CASE BootInfo.f_parm
    <3>1. Keeps(Target)
      BY <2>1, <2>2 DEF PInv, ForceInv
    <3>2. Erasing => Target # flt.to
      BY <1>1, <1>5, <2>2, AreaFacts DEF PInv, MarkInv, Target
    <3>3. Target \in Areas
      BY <1>1, AreaFacts DEF Target
    <3>4. area'[Target] = area[Target]
      BY <1>4, <3>2, <3>3
    <3>5. Keeps(Target)'
      BY <1>2, <1>3, <3>1, <3>4 DEF Keeps
    <3> QED BY <1>2, <2>2, <3>5 DEF ForceInv
  <2>3. CASE ~BootInfo.f_parm /\ ~DataSum /\ ~f_ParaUpdate
    <3>1. Erasing /\ flt.to = BootInfo.sw => pc \in {"edited", "standby"}
      BY <1>1, <1>5, <2>3 DEF PInv, SaveInv, JobInv, Erasing, Working
    <3>2. CASE pc = "edited"
      <4>1. IsWhole(InUse) /\ InUse[1] = wanted /\ InUse[Top] = wanted
        BY <2>1, <2>3, <3>2, Sums, AreaFacts
      <4>2. ~Erasing
        BY <2>1, <2>3, <3>2, <4>1 DEF PInv, TopInv
      <4>3. area' = area
        BY <1>4, <4>2
      <4> QED BY <1>2, <2>3, <4>1, <4>3 DEF ForceInv, Keeps, InUse
    <3>3. CASE pc # "edited"
      <4>1. Keeps(BootInfo.sw)
        BY <2>1, <2>3, <3>3 DEF PInv, ForceInv
      <4>2. CASE area'[BootInfo.sw] = area[BootInfo.sw]
        BY <1>2, <2>3, <4>1, <4>2 DEF ForceInv, Keeps
      <4>3. CASE area'[BootInfo.sw] # area[BootInfo.sw]
        <5>1. Erasing /\ flt.to = BootInfo.sw /\ pc = "standby" /\ ~IsWhole(area'[BootInfo.sw])
          BY <1>1, <1>4, <3>1, <3>3, <4>3
        <5>2. ~IsWhole(InUse)
          BY <5>1 DEF PInv, JobInv, Erasing, Working
        <5>3. ferr
          BY <4>1, <5>2 DEF Keeps, InUse
        <5> QED BY <1>2, <2>3, <5>1, <5>3 DEF ForceInv, Keeps
      <4> QED BY <4>2, <4>3
    <3> QED BY <3>2, <3>3
  <2>4. CASE ~BootInfo.f_parm /\ (DataSum \/ f_ParaUpdate)
    BY <1>2, <2>1, <2>4 DEF PInv, ForceInv
  <2> QED BY <1>1, <2>2, <2>3, <2>4
<1> QED BY <1>6, <1>7, <1>8, <1>9, <1>10 DEF PInv

-----------------------------------------------------------------------------
\* Every step keeps the invariant.
LEMMA ParamNext == TypeOK /\ PInv /\ [Next]_vars => PInv'
<1> SUFFICES ASSUME TypeOK, PInv, [Next]_vars PROVE PInv'
  OBVIOUS
<1>1. CASE LoaderStep \/ FcuError
  BY <1>1, ParamLoader
<1>2. CASE StartStep
  BY <1>2, ParamSwitch, ParamCheck DEF StartStep
<1>3. CASE FlashStep \/ FlashError
  BY <1>3, ParamTask, ParamSector DEF FlashStep
<1>4. CASE MenuStep \/ AskProg \/ ClearBakup \/ AskParm
  BY <1>4, ParamEdit, ParamAsk DEF MenuStep
<1>5. CASE SystemReset \/ Cut
  BY <1>5, ParamRestart
<1>6. CASE UNCHANGED vars
  BY <1>6 DEF vars, params, ram, flashes, PInv, MarkInv, NumberInv, JobInv, BehindInv, SaveInv,
              TopInv, StandbyInv, ForceInv, SwInv, FollowInv, Keeps, Target, Standby, InUse,
              Erasing, Working, IsWhole, IsBlank, Has
<1> QED BY <1>1, <1>2, <1>3, <1>4, <1>5, <1>6 DEF Next, AskStep

LEMMA ParamSafe == Spec => []PInv
<1>1. TypeOK /\ LoopInv /\ PInv /\ [Next]_vars => PInv'
  BY ParamNext
<1> QED BY <1>1, ParamInit, Typed, PTL DEF Spec

\* parm_data_swupdate, AppServ_FukudenProc: wherever the power goes, and
\* whatever fails in the flash, the machine runs with the parameters last
\* chosen when their sum is right, but for a cut between an edit and its mark;
\* and with none only if the flash failed as well, or after that same cut.
THEOREM InForce == Spec => []ParamsInForce
<1>1. PInv => ParamsInForce
  BY DEF PInv, ForceInv, MarkInv, ParamsInForce, MenuPCs, CheckPCs
<1> QED BY <1>1, ParamSafe, PTL

\* parm_data_swupdate, flt_UnlockFlash, flt_WriteParam1: as long as the flash
\* does not fail, its area number is that in RAM, and the area in use holds
\* what is in RAM once no save is asked for or under way.
THEOREM Follows == Spec => []FlashFollows
<1>1. TypeOK /\ PInv => FlashFollows
  BY Reading DEF PInv, SwInv, FollowInv, MarkInv, FlashFollows, MenuPCs, CheckPCs, Erasing
<1> QED BY <1>1, ParamSafe, TypeCorrect, PTL
=============================================================================
