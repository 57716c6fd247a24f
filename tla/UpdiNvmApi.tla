----------------------------- MODULE UpdiNvmApi -----------------------------
(***************************************************************************)
(* UpdiNvm under a caller that may call any function of updi_nvm.h in any  *)
(* order, also the ones no operation of the application reaches (erasing   *)
(* one page, writing a fuse), and go on after an error.  The one rule it   *)
(* keeps is that of the header: the functions that need the geometry of    *)
(* the device are called once the device is set.                           *)
(***************************************************************************)
EXTENDS UpdiNvm

VARIABLE fn     \* the function called last

apiVars == <<nvmVars, fn>>

Plain == {"activate", "sib", "enter", "leave", "unlock", "signature"}

CallPlain ==
    \E f \in Plain :
        Invoke(f, 1, "blank") /\ fn' = f /\ UNCHANGED dev

\* updi_nvm_set_device, for a signature that is in the table.
SetDevice ==
    /\ pc = "ret" /\ fn = "signature" /\ ret = "Ok"
    /\ val \in {"P0", "P3"}
    /\ dev' = val
    /\ fn' = "set_device"
    /\ UNCHANGED <<tgt, faults, pc, ret, val, poll, arg>>

CallPaged ==
    /\ dev # "NULL"
    /\ \E f \in {"chip_erase", "erase_page", "write_page", "read"}, p \in Pages, d \in Data :
        Invoke(f, p, d) /\ fn' = f
    /\ UNCHANGED dev

CallFuse ==
    /\ dev # "NULL"
    /\ \/ Invoke("fuse", 1, "blank") /\ fn' = "fuse"
       \/ /\ Invoke(IF dev = "P3" THEN "write_fuse_p3" ELSE "write_fuse_p0", 1, "blank")
          /\ fn' = "write_fuse"
    /\ UNCHANGED dev

Init == NvmInit /\ fn = "set_device"

Next ==
    \/ (NvmStep \/ PowerCycle) /\ UNCHANGED fn
    \/ CallPlain \/ SetDevice \/ CallPaged \/ CallFuse

Spec == Init /\ [][Next]_apiVars

-----------------------------------------------------------------------------

Returned(f) == pc = "ret" /\ fn = f /\ ret = "Ok"

\* A function that reports UpdiOk has done what its name says: erased the page,
\* erased all pages, written the fuse, whatever was called and failed before.
OkMeansDone ==
    /\ Returned("erase_page") => tgt.flash[arg.page] = "blank"
    /\ Returned("chip_erase") => tgt.flash = Filled("blank")
    /\ Returned("unlock") => tgt.dis \/ ~tgt.locked
    /\ Returned("write_fuse") => tgt.fuse = "new"

\* An erase or a write of one page never changes another, although the command
\* goes to whatever page the last store was to, whatever was called, refused or
\* lost before it and is lost while it runs: not the frames that select the
\* page, nor those of a block that nobody acknowledges.  Only power that fails
\* while NVMCTRL is busy can ruin more.
OnePageAtATime ==
    [][(fn \in {"erase_page", "write_page"} /\ ~PowerCycle)
          => (\A p \in Pages \ {arg.page} : tgt'.flash[p] = tgt.flash[p])]_apiVars

\* An erase or write command is given to NVMCTRL only when it is not busy,
\* whatever the commands before it were and whether they were waited for.
CommandsWhenReady ==
    pc \in {"chip_erase_cmd", "erase_page_cmd", "write_clear", "write_cmd",
            "ee_clear", "ee_cmd", "fuse_cmd"} /\ Accessible(tgt)
        => tgt.busy = 0
=============================================================================
