------------------------------- MODULE Update -------------------------------
(***************************************************************************)
(* Replacing the program and the parameters across resets and power cuts:  *)
(*   GT4100_boot.c     the boot loader, which erases and rewrites the      *)
(*                     internal ROM when the update flag is set            *)
(*   ope/updateope.c   the update flags and the switch between the two     *)
(*                     parameter areas of the external flash               *)
(*   mnt/AppServSub.c  AppServ_FukudenProc, which decides at start-up      *)
(*                     whether RAM or flash has the good parameters        *)
(*   fla/flatask.c     the writing of the parameter areas                  *)
(*   mnt/sysmnt2.c, mnt/parameterset.c  downloads, switching, edits        *)
(* BootInfo, the parameters, their sum and f_ParaUpdate are in battery     *)
(* RAM.  The power may go between any two steps; the block or sector being *)
(* erased or written is then torn.                                         *)
(***************************************************************************)
EXTENDS Integers, FiniteSets

CONSTANTS
    ENTRY,          \* ENTRY[r]: ROM blocks of region r of the program
    Versions,       \* program versions; the machine is delivered with 1
    ERR_MAX,        \* FCU errors after which the loader gives up (10)
    FLT_PARAM_SECTORMAX, \* sectors of a parameter area (16)
    MaxMade,        \* bound on the parameter sets made by edits and downloads
    MaxMishaps      \* bound on power cuts, FCU errors, bad cells and flash errors

ASSUME UpdateAssumption ==
    /\ ENTRY \in [0 .. 3 -> Nat] /\ ENTRY[3] > 0
    /\ Versions \subseteq Nat \ {0} /\ 1 \in Versions
    /\ ERR_MAX \in Nat \ {0}
    /\ FLT_PARAM_SECTORMAX \in Nat \ {0}
    /\ MaxMade \in Nat \ {0} /\ MaxMishaps \in Nat

VARIABLES
    pc,           \* what start-up, or the operation task, does next
    cnt, pe,      \* block and region the loader is at
    rom,          \* version in each block of the internal ROM
    image,        \* program in the external flash
    header,       \* its header (FLT_write_program_version) is there
    BootInfo,     \* update flags and area data
    from_sw,      \* area number in the external flash
    area,         \* parameter set in each sector of the two areas
    param,        \* parameter set in RAM (CPrmSS)
    DataSum,      \* its sum is right
    f_ParaUpdate, \* an edit waits to be saved
    req,          \* req_tbl[FLT_REQTBL_PARAM1].req
    flt,          \* writing of an area under way
    wanted,       \* history: last parameter set chosen
    made,         \* history: parameter sets made
    gaveup,       \* history: the loader gave up the last update
    errs,         \* history: FCU errors since the update was asked for
    bare,         \* history: a cut hit an unmarked edit while the set before
                  \* it was not yet saved
    ferr,         \* history: the external flash failed
    mishaps       \* mishaps so far

loader  == <<cnt, pe, rom, gaveup, errs>>
prog    == <<image, header>>
ram     == <<param, DataSum, f_ParaUpdate>>
flashes == <<area, req, flt, bare, ferr>>
params  == <<ram, flashes, from_sw, wanted, made>>
vars    == <<pc, loader, prog, BootInfo, params, mishaps>>

OPERATE_AREA1 == 1
OPERATE_AREA2 == 2
Areas    == {OPERATE_AREA1, OPERATE_AREA2}
Other(a) == IF a = OPERATE_AREA1 THEN OPERATE_AREA2 ELSE OPERATE_AREA1
Erased   == 0
Torn     == -1
Made     == 1 .. MaxMade
Sectors  == 1 .. FLT_PARAM_SECTORMAX

\* The loader counts the blocks up through the regions 3, 2, 1 and 0.
Upto(r) == CASE r = 3 -> ENTRY[3]
             [] r = 2 -> ENTRY[3] + ENTRY[2]
             [] r = 1 -> ENTRY[3] + ENTRY[2] + ENTRY[1]
             [] r = 0 -> ENTRY[3] + ENTRY[2] + ENTRY[1] + ENTRY[0]
Last   == Upto(0)
Blocks == 1 .. Last
\* The FCU erases a block only in the P/E mode of the block's region.
InRegion(b, r) == b <= Upto(r) /\ (r < 3 => b > Upto(r + 1))

Holds(v)    == \A b \in Blocks : rom[b] = v
Whole       == \E v \in Versions : Holds(v)
SumOK(a)    == area[a][1] \in Made /\ \A s \in Sectors : area[a][s] = area[a][1]
Blank(a)    == \A s \in Sectors : area[a][s] = Erased
\* ftp_check_stby_param looks at the two sum bytes, in the first sector.
HeadOK(a)   == area[a][1] # Erased
Mishap      == mishaps < MaxMishaps /\ mishaps' = mishaps + 1
NoJob       == [st |-> "idle", to |-> 1, val |-> Erased, at |-> 1]
Job(a, v)   == [st |-> "erase", to |-> a, val |-> v, at |-> 1]

Init ==
    /\ pc = "main" /\ cnt = 1 /\ pe = 3
    /\ rom = [b \in Blocks |-> 1] /\ image = Torn /\ header = FALSE
    /\ BootInfo = [f_prog |-> FALSE, f_parm |-> FALSE, err_count |-> 0,
                   sw |-> OPERATE_AREA1, bakup |-> 0, sw_flash |-> OPERATE_AREA1]
    /\ from_sw = OPERATE_AREA1
    /\ area = [a \in Areas |-> [s \in Sectors |->
                                IF a = OPERATE_AREA1 THEN 1 ELSE Erased]]
    /\ param = 1 /\ DataSum = TRUE /\ f_ParaUpdate = FALSE
    /\ req = "IDLE" /\ flt = NoJob
    /\ wanted = 1 /\ made = 1 /\ gaveup = FALSE /\ errs = 0 /\ bare = FALSE
    /\ ferr = FALSE /\ mishaps = 0

-----------------------------------------------------------------------------
(***************************************************************************)
(* The boot loader                                                         *)
(***************************************************************************)
Cleared == [BootInfo EXCEPT !.err_count = 0, !.f_prog = FALSE]

\* UserProgram(): the jump to whatever the ROM holds.
UserProgram ==
    /\ BootInfo' = Cleared
    /\ pc' = IF Whole THEN "start" ELSE "lost"

Main ==
    /\ pc = "main"
    /\ IF BootInfo.f_prog
       THEN pc' = "fcu" /\ UNCHANGED BootInfo
       ELSE UserProgram
    /\ UNCHANGED <<loader, prog, params, mishaps>>

\* Seeded fault: the flag is cleared before the program is whole.
FcuInit_Clears ==
    /\ pc = "fcu" /\ pc' = "erase" /\ cnt' = 1 /\ pe' = 3 /\ BootInfo' = Cleared
    /\ UNCHANGED <<rom, gaveup, errs, prog, params, mishaps>>

\* Flash_Update: firmware transfer, P/E mode of region 3, clock.
FcuInit ==
    /\ pc = "fcu" /\ pc' = "erase" /\ cnt' = 1 /\ pe' = 3
    /\ UNCHANGED <<rom, gaveup, errs, prog, BootInfo, params, mishaps>>

Erase ==
    /\ pc = "erase" /\ cnt <= Upto(pe) /\ InRegion(cnt, pe)
    /\ rom' = [rom EXCEPT ![cnt] = Erased] /\ cnt' = cnt + 1
    /\ UNCHANGED <<pc, pe, gaveup, errs, prog, BootInfo, params, mishaps>>

NextRegion ==
    /\ pc = "erase" /\ cnt > Upto(pe)
    /\ \/ pe > 0 /\ pe' = pe - 1 /\ UNCHANGED <<pc, cnt>>
       \/ pe = 0 /\ pc' = "write" /\ cnt' = 1 /\ pe' = 3
    /\ UNCHANGED <<rom, gaveup, errs, prog, BootInfo, params, mishaps>>

\* Only an erased block can be programmed; a cell may be worn out.
Write ==
    /\ pc = "write" /\ rom[cnt] = Erased /\ pc' = "verify"
    /\ \/ rom' = [rom EXCEPT ![cnt] = image] /\ UNCHANGED mishaps
       \/ Mishap /\ rom' = [rom EXCEPT ![cnt] = Torn]
    /\ UNCHANGED <<cnt, pe, gaveup, errs, prog, BootInfo, params>>

\* Seeded fault: the block written is not read back.
Verify_Skipped ==
    /\ pc = "verify"
    /\ cnt' = cnt + 1 /\ pc' = (IF cnt = Last THEN "done" ELSE "write")
    /\ UNCHANGED <<pe, rom, gaveup, errs, prog, BootInfo, params, mishaps>>

\* A block that reads back differently: err_led(0), no retry.
Verify ==
    /\ pc = "verify"
    /\ \/ /\ rom[cnt] = image
          /\ cnt' = cnt + 1 /\ pc' = (IF cnt = Last THEN "done" ELSE "write")
          /\ UNCHANGED <<gaveup, BootInfo>>
       \/ /\ rom[cnt] # image
          /\ pc' = "halt" /\ BootInfo' = Cleared /\ gaveup' = TRUE /\ UNCHANGED cnt
    /\ UNCHANGED <<pe, rom, errs, prog, params, mishaps>>

Done ==
    /\ pc = "done" /\ UserProgram
    /\ UNCHANGED <<loader, prog, params, mishaps>>

\* err_led(1): a watchdog reset starts the loader again, up to ERR_MAX errors.
\* Seeded fault: gives up an error early.
TooMany_Early == BootInfo.err_count + 2 >= ERR_MAX
TooMany == BootInfo.err_count + 1 >= ERR_MAX
FcuError ==
    /\ pc \in {"fcu", "erase", "write"} /\ Mishap /\ errs' = errs + 1
    /\ \/ UNCHANGED rom
       \/ pc \in {"erase", "write"} /\ cnt <= Last /\ rom' = [rom EXCEPT ![cnt] = Torn]
    /\ IF TooMany
       THEN pc' = "halt" /\ BootInfo' = Cleared /\ gaveup' = TRUE
       ELSE /\ pc' = "main" /\ UNCHANGED gaveup
            /\ BootInfo' = [BootInfo EXCEPT !.err_count = @ + 1]
    /\ UNCHANGED <<cnt, pe, prog, params>>

-----------------------------------------------------------------------------
(***************************************************************************)
(* Start-up of the program: the switch of the parameter areas              *)
(***************************************************************************)
GetSwData ==
    /\ pc = "start"
    /\ BootInfo' = [BootInfo EXCEPT !.sw_flash = from_sw]
    /\ pc' = IF BootInfo.f_parm THEN "backup" ELSE "active"
    /\ UNCHANGED <<loader, prog, params, mishaps>>

Behind(old) == BootInfo.sw_flash \notin Areas \/ BootInfo.sw_flash = old
\* parm_data_swupdate, up to the decision whether flash is switched first.
Backup ==
    /\ pc = "backup"
    /\ LET old == IF BootInfo.bakup \in Areas THEN BootInfo.bakup ELSE BootInfo.sw
       IN  /\ BootInfo' = [BootInfo EXCEPT !.bakup = old]
           /\ pc' = IF Behind(old) THEN "swerase" ELSE "flip"
    /\ UNCHANGED <<loader, prog, params, mishaps>>

SwErase ==
    /\ pc = "swerase" /\ pc' = "swwrite" /\ from_sw' = Erased
    /\ UNCHANGED <<loader, prog, BootInfo, ram, flashes, wanted, made, mishaps>>

\* FLT_write_parm_swdata; its result is not looked at.
SwWrite ==
    /\ pc = "swwrite" /\ pc' = "flip"
    /\ \/ from_sw' = Other(BootInfo.sw) /\ UNCHANGED <<ferr, mishaps>>
       \/ Mishap /\ ferr' = TRUE /\ UNCHANGED from_sw
    /\ UNCHANGED <<loader, prog, BootInfo, ram, area, req, flt, bare, wanted, made>>

Flip ==
    /\ pc = "flip" /\ pc' = "destroy"
    /\ BootInfo' = [BootInfo EXCEPT !.sw = IF @ = BootInfo.bakup THEN Other(@) ELSE @]
    /\ UNCHANGED <<loader, prog, params, mishaps>>

\* Seeded fault: the parameters of the old area stay valid.
DestroySum_Forgotten ==
    /\ pc = "destroy" /\ pc' = "clear"
    /\ UNCHANGED <<loader, prog, BootInfo, params, mishaps>>

\* _flt_DestroyParamRamSum: the parameters in RAM are those of the old area.
DestroySum ==
    /\ pc = "destroy" /\ pc' = "clear" /\ DataSum' = FALSE
    /\ UNCHANGED <<loader, prog, BootInfo, param, f_ParaUpdate, flashes,
                   from_sw, wanted, made, mishaps>>

ClearFlag ==
    /\ pc = "clear" /\ pc' = "active"
    /\ BootInfo' = [BootInfo EXCEPT !.f_parm = FALSE]
    /\ UNCHANGED <<loader, prog, params, mishaps>>

-----------------------------------------------------------------------------
(***************************************************************************)
(* Start-up of the program: which parameters are good                      *)
(***************************************************************************)
\* flt_CheckAreaSum: an area with a bad sum is erased.  FLT_init has idled
\* the requests when it is left; flt waits for no other task here.
CheckArea(a, next) ==
    /\ pc' = next
    /\ flt' = IF SumOK(a) \/ Blank(a) THEN NoJob ELSE Job(a, Erased)

ChkActive ==
    /\ pc = "active" /\ CheckArea(BootInfo.sw, "standby") /\ req' = "IDLE"
    /\ UNCHANGED <<loader, prog, BootInfo, ram, area, bare, ferr,
                   from_sw, wanted, made, mishaps>>

ChkStandby ==
    /\ pc = "standby" /\ flt.st = "idle" /\ CheckArea(Other(BootInfo.sw), "fukuden")
    /\ UNCHANGED <<loader, prog, BootInfo, ram, area, req, bare, ferr,
                   from_sw, wanted, made, mishaps>>

\* An edit that was not saved: the sum is made right, then the mark cleared.
SumEdit ==
    /\ pc = "fukuden" /\ flt.st = "idle"
    /\ \/ f_ParaUpdate /\ DataSum' = TRUE /\ pc' = "edits"
       \/ ~f_ParaUpdate /\ pc' = "recover" /\ UNCHANGED DataSum
    /\ UNCHANGED <<loader, prog, BootInfo, param, f_ParaUpdate, flashes,
                   from_sw, wanted, made, mishaps>>

ClearEdit ==
    /\ pc = "edits" /\ pc' = "recover" /\ f_ParaUpdate' = FALSE
    /\ UNCHANGED <<loader, prog, BootInfo, param, DataSum, flashes,
                   from_sw, wanted, made, mishaps>>

\* flt_CmpParamData: the area is bad or differs from RAM.
InFlash(v) == SumOK(BootInfo.sw) /\ area[BootInfo.sw][1] = v
Differs == ~InFlash(param)

\* RAM is good: FLT_WriteParam1(FLT_EXCLUSIVE).  Only flash is good:
\* FLT_RestoreParam.  Neither: started as it is.
Recover ==
    /\ pc = "recover"
    /\ IF DataSum
       THEN /\ pc' = "ready" /\ UNCHANGED param
            /\ flt' = IF Differs THEN Job(BootInfo.sw, param) ELSE NoJob
       ELSE /\ UNCHANGED flt
            /\ IF SumOK(BootInfo.sw)
               THEN pc' = "sum" /\ param' = area[BootInfo.sw][1]
               ELSE pc' = "ready" /\ UNCHANGED param
    /\ UNCHANGED <<loader, prog, BootInfo, DataSum, f_ParaUpdate, area, req, bare, ferr,
                   from_sw, wanted, made, mishaps>>

SumRestored ==
    /\ pc = "sum" /\ pc' = "ready" /\ DataSum' = TRUE
    /\ UNCHANGED <<loader, prog, BootInfo, param, f_ParaUpdate, flashes,
                   from_sw, wanted, made, mishaps>>

Ready ==
    /\ pc \in {"ready", "download"} /\ flt.st = "idle" /\ pc' = "run"
    /\ UNCHANGED <<loader, prog, BootInfo, params, mishaps>>

-----------------------------------------------------------------------------
(***************************************************************************)
(* Erasing and writing an area, sector by sector                           *)
(***************************************************************************)
\* The tasks switch only where the operation task waits, and start-up does
\* nothing else meanwhile.
Waits == {"run", "download", "image", "header", "standby", "fukuden", "ready"}

\* The flash task takes a request (the sum and the area are compared first).
TakeRequest ==
    /\ pc \in Waits /\ flt.st = "idle" /\ req = "WRITE" /\ req' = "EXEC"
    /\ flt' = IF Differs THEN Job(BootInfo.sw, param)
              ELSE [NoJob EXCEPT !.st = "unlock"]
    /\ UNCHANGED <<pc, loader, prog, BootInfo, ram, area, bare, ferr,
                   from_sw, wanted, made, mishaps>>

Last_Sector == \A s \in Sectors : s <= flt.at
Following == IF Last_Sector THEN [flt EXCEPT !.st = "verify"]
             ELSE [flt EXCEPT !.at = @ + 1, !.st = "erase"]

EraseSector ==
    /\ pc \in Waits /\ flt.st = "erase"
    /\ area' = [area EXCEPT ![flt.to][flt.at] = Erased]
    /\ flt' = IF flt.val = Erased THEN Following ELSE [flt EXCEPT !.st = "write"]
    /\ UNCHANGED <<pc, loader, prog, BootInfo, ram, req, bare, ferr,
                   from_sw, wanted, made, mishaps>>

WriteSector ==
    /\ pc \in Waits /\ flt.st = "write"
    /\ area' = [area EXCEPT ![flt.to][flt.at] = flt.val]
    /\ flt' = Following
    /\ UNCHANGED <<pc, loader, prog, BootInfo, ram, req, bare, ferr,
                   from_sw, wanted, made, mishaps>>

\* flt_WriteParam1 compares with RAM again: an area that lags behind an edit
\* made meanwhile is erased.  flt_WriteParam3 compares with its own image.
Overtaken == flt.val # Erased /\ flt.to = BootInfo.sw /\ Differs
VerifyArea ==
    /\ pc \in Waits /\ flt.st = "verify"
    /\ flt' = IF Overtaken THEN Job(flt.to, Erased) ELSE [flt EXCEPT !.st = "unlock"]
    /\ UNCHANGED <<pc, loader, prog, BootInfo, ram, area, req, bare, ferr,
                   from_sw, wanted, made, mishaps>>

\* Seeded fault: a request made meanwhile is forgotten.
Unlock_Always ==
    /\ pc \in Waits /\ flt.st = "unlock" /\ flt' = NoJob /\ req' = "IDLE"
    /\ UNCHANGED <<pc, loader, prog, BootInfo, ram, area, bare, ferr,
                   from_sw, wanted, made, mishaps>>

\* flt_UnlockFlash: a request made meanwhile stays.
Unlock ==
    /\ pc \in Waits /\ flt.st = "unlock" /\ flt' = NoJob
    /\ req' = IF req = "EXEC" THEN "IDLE" ELSE req
    /\ UNCHANGED <<pc, loader, prog, BootInfo, ram, area, bare, ferr,
                   from_sw, wanted, made, mishaps>>

\* flt_WriteSector fails: the sector is left erased, or torn by a failed
\* erase, and the rest is not written.
FlashError ==
    /\ pc \in Waits /\ flt.st \in {"erase", "write"}
    /\ Mishap /\ ferr' = TRUE
    /\ \E left \in {Erased, Torn} : area' = [area EXCEPT ![flt.to][flt.at] = left]
    /\ flt' = [flt EXCEPT !.st = "unlock"]
    /\ UNCHANGED <<pc, loader, prog, BootInfo, ram, req, bare, from_sw, wanted, made>>

-----------------------------------------------------------------------------
(***************************************************************************)
(* Maintenance: edits, downloads and the request to switch.  The menus are *)
(* modal, and an edit is saved when its menu is left.                      *)
(***************************************************************************)
\* The value in RAM first (parameterset.c:615), the mark after it (617).
Edit ==
    /\ pc = "run" /\ made < MaxMade /\ made' = made + 1
    /\ param' = made + 1 /\ DataSum' = FALSE /\ pc' = "edited"
    /\ wanted' = IF f_ParaUpdate THEN param' ELSE wanted
    /\ UNCHANGED <<loader, prog, BootInfo, f_ParaUpdate, flashes, from_sw, mishaps>>

MarkEdit ==
    /\ pc = "edited" /\ pc' = "run" /\ f_ParaUpdate' = TRUE /\ wanted' = param
    /\ UNCHANGED <<loader, prog, BootInfo, param, DataSum, flashes, from_sw, made, mishaps>>

\* Leaving the menu: DataSumUpdate, FLT_WriteParam1(FLT_NOT_EXCLUSIVE), whose
\* end nobody waits for, and the mark is cleared.
SaveEdit ==
    /\ pc = "run" /\ f_ParaUpdate /\ pc' = "save" /\ DataSum' = TRUE
    /\ UNCHANGED <<loader, prog, BootInfo, param, f_ParaUpdate, flashes,
                   from_sw, wanted, made, mishaps>>

RequestSave ==
    /\ pc = "save" /\ pc' = "run" /\ req' = "WRITE" /\ f_ParaUpdate' = FALSE
    /\ UNCHANGED <<loader, prog, BootInfo, param, DataSum, area, flt, bare, ferr,
                   from_sw, wanted, made, mishaps>>

\* A parameter file for the standby area: FLT_WriteParam3, waited for.
DownloadParam ==
    /\ pc = "run" /\ ~f_ParaUpdate /\ flt.st = "idle" /\ req = "IDLE"
    /\ made < MaxMade /\ made' = made + 1
    /\ flt' = Job(Other(BootInfo.sw), made + 1) /\ pc' = "download"
    /\ UNCHANGED <<loader, prog, BootInfo, ram, area, req, bare, ferr,
                   from_sw, wanted, mishaps>>

\* A program: ftp_write_prog erases the header, the image follows, and the
\* header is written when the sum is right.
DownloadProgram ==
    /\ pc = "run" /\ ~f_ParaUpdate /\ pc' = "image" /\ header' = FALSE
    /\ UNCHANGED <<image, loader, BootInfo, params, mishaps>>

WriteImage ==
    /\ \/ pc = "image" /\ image' = Torn /\ pc' = "header" /\ UNCHANGED header
       \/ pc = "header" /\ image' \in Versions /\ header' = TRUE /\ pc' = "run"
    /\ UNCHANGED <<loader, BootInfo, params, mishaps>>

\* SysMnt_SystemSwitch: what is to be switched is chosen among what is there.
AskSwitch ==
    /\ pc = "run" /\ ~f_ParaUpdate
    /\ \/ header /\ pc' = "prog"
       \/ header /\ HeadOK(Other(BootInfo.sw)) /\ pc' = "both"
       \/ HeadOK(Other(BootInfo.sw)) /\ pc' = "parm"
    /\ UNCHANGED <<loader, prog, BootInfo, params, mishaps>>

\* update_flag_set: the program's flag, then the parameters'.
AskProg ==
    /\ pc \in {"prog", "both"} /\ pc' = (IF pc = "both" THEN "parm" ELSE "reset")
    /\ BootInfo' = [BootInfo EXCEPT !.f_prog = TRUE]
    /\ errs' = 0 /\ gaveup' = FALSE
    /\ UNCHANGED <<cnt, pe, rom, prog, params, mishaps>>

\* update_flag_set: the backup first, then the flag.
ClearBakup ==
    /\ pc = "parm" /\ pc' = "flag" /\ BootInfo' = [BootInfo EXCEPT !.bakup = 0]
    /\ UNCHANGED <<loader, prog, params, mishaps>>

AskParm ==
    /\ pc = "flag" /\ pc' = "reset" /\ BootInfo' = [BootInfo EXCEPT !.f_parm = TRUE]
    /\ LET a == Other(BootInfo.sw)
       IN  wanted' = IF SumOK(a) THEN area[a][1] ELSE wanted
    /\ UNCHANGED <<loader, prog, ram, flashes, from_sw, made, mishaps>>

-----------------------------------------------------------------------------
(***************************************************************************)
(* Resets and power cuts                                                   *)
(***************************************************************************)
\* What is being erased or written may be left torn.
Restart ==
    /\ pc' = "main" /\ cnt' = 1 /\ pe' = 3 /\ flt' = NoJob
    /\ \/ UNCHANGED rom
       \/ pc \in {"erase", "write"} /\ cnt \in Blocks /\ rom' = [rom EXCEPT ![cnt] = Torn]
    /\ \/ UNCHANGED from_sw
       \/ pc \in {"swerase", "swwrite"} /\ from_sw' = Erased
    /\ \/ UNCHANGED area
       \/ flt.st \in {"erase", "write"} /\ area' = [area EXCEPT ![flt.to][flt.at] = Torn]
    /\ bare' = (bare \/ (pc = "edited" /\ ~f_ParaUpdate /\ ~InFlash(wanted)))
    /\ UNCHANGED <<gaveup, errs, prog, BootInfo, ram, req, ferr, wanted, made>>

SystemReset == pc = "reset" /\ Restart /\ UNCHANGED mishaps
Cut == Mishap /\ Restart

LoaderStep ==
    \/ Main \/ FcuInit \/ Erase \/ NextRegion \/ Write \/ Verify \/ Done
StartStep ==
    \/ GetSwData \/ Backup \/ SwErase \/ SwWrite \/ Flip \/ DestroySum \/ ClearFlag
    \/ ChkActive \/ ChkStandby \/ SumEdit \/ ClearEdit \/ Recover \/ SumRestored \/ Ready
FlashStep ==
    \/ TakeRequest \/ EraseSector \/ WriteSector \/ VerifyArea \/ Unlock
AskStep == AskProg \/ ClearBakup \/ AskParm \/ SystemReset
MenuStep ==
    \/ Edit \/ MarkEdit \/ SaveEdit \/ RequestSave \/ DownloadParam
    \/ DownloadProgram \/ WriteImage \/ AskSwitch

Next ==
    \/ LoaderStep \/ StartStep \/ FlashStep \/ AskStep \/ MenuStep
    \/ FcuError \/ FlashError \/ Cut

\* Once powered, the processor goes on; nobody has to use the menus.
Fairness ==
    /\ WF_vars(LoaderStep) /\ WF_vars(StartStep) /\ WF_vars(FlashStep) /\ WF_vars(AskStep)
Spec == Init /\ [][Next]_vars /\ Fairness

-----------------------------------------------------------------------------
(***************************************************************************)
(* Properties                                                              *)
(***************************************************************************)
PCs == {"run", "edited", "save", "download", "image", "header",
    "prog", "both", "parm", "flag", "reset",
    "main", "fcu", "erase", "write", "verify", "done", "halt", "lost", "start",
     "backup", "swerase", "swwrite", "flip", "destroy", "clear", "active",
     "standby", "fukuden", "edits", "recover", "sum", "ready"}

BootType == [f_prog : BOOLEAN, f_parm : BOOLEAN, err_count : 0 .. ERR_MAX - 1,
             sw : Areas, bakup : Areas \cup {0}, sw_flash : Areas \cup {Erased}]
FltType == [st : {"idle", "erase", "write", "verify", "unlock"}, to : Areas,
            val : Made \cup {Erased}, at : Sectors]

TypeOK ==
    /\ pc \in PCs /\ cnt \in 1 .. Last + 1 /\ pe \in 0 .. 3
    /\ rom \in [Blocks -> Versions \cup {Erased, Torn}]
    /\ image \in Versions \cup {Torn} /\ header \in BOOLEAN
    /\ BootInfo \in BootType
    /\ from_sw \in Areas \cup {Erased}
    /\ area \in [Areas -> [Sectors -> Made \cup {Erased, Torn}]]
    /\ param \in Made /\ DataSum \in BOOLEAN /\ f_ParaUpdate \in BOOLEAN
    /\ req \in {"IDLE", "WRITE", "EXEC"}
    /\ flt \in FltType
    /\ wanted \in Made /\ made \in Made /\ gaveup \in BOOLEAN /\ bare \in BOOLEAN
    /\ errs \in Nat /\ ferr \in BOOLEAN /\ mishaps \in 0 .. MaxMishaps

\* GT4100_boot.c: wherever the power goes while the ROM is erased and
\* rewritten, the loader never jumps into a program that is not whole, except
\* after it gave up and cleared the flag (err_led).
LostOnlyIfGivenUp == pc = "lost" => gaveup

\* err_led: the loader gives up a transient FCU error only after ERR_MAX of
\* them in the same update; the counter outlives the resets, and is zero when
\* the next update begins.
GivesUpLate == [][pc' = "halt" /\ pc # "verify" => errs' >= ERR_MAX]_vars

\* An update asked for ends with the whole new program started, or given up,
\* and power-on ends in the program, or the loader stops or has nothing to start.
UpdateEnds ==
    /\ BootInfo.f_prog ~> (gaveup \/ (pc = "start" /\ Holds(image)))
    /\ pc = "main" ~> pc \in {"run", "halt", "lost"}

\* parm_data_swupdate, AppServ_FukudenProc: whenever the machine runs with
\* parameters whose sum is right, they are the ones last chosen, by a marked
\* edit or by a switch that was asked for, whatever cuts came between.  The
\* one exception is a cut between an edit and its mark (parameterset.c:615-617)
\* while the flash task had not finished saving the edit before.  RAM and flash
\* both bad "cannot happen in principle" (AppServSub.c:1404): it takes a fault
\* of the flash, or that same exception.
ParamsInForce ==
    pc = "run" =>
        IF DataSum THEN param = wanted \/ bare ELSE f_ParaUpdate \/ ferr \/ bare

\* parm_data_swupdate: the area number in flash follows the one in RAM.
\* flt_UnlockFlash, flt_WriteParam1: once no save is asked for or under way,
\* the area in use holds what is in RAM, although edits and saves overlap.
FlashFollows ==
    pc = "run" /\ ~ferr =>
        /\ from_sw = BootInfo.sw
        /\ DataSum /\ ~f_ParaUpdate /\ req = "IDLE" /\ flt.st = "idle" => ~Differs
=============================================================================
