------------------------------- MODULE Files -------------------------------
(***************************************************************************)
(* Open files as the loader sees them (src/src/io.c, lines 486-543).  A    *)
(* FILE is a file on a FAT volume or, when its path names a device only, a *)
(* raw device: ReadFile, SetFilePointer and the others call the function   *)
(* that the device's mount function registered.                            *)
(***************************************************************************)
EXTENDS FatFile

CONSTANTS
    BytsPerSec,     \* of the raw device
    DevSectors,
    RawRequests     \* the calls on it

ASSUME RawAssumption ==
    /\ BytsPerSec \in Nat \ {0}
    /\ DevSectors \in Nat
    /\ \A r \in RawRequests : IsCall(r)

VARIABLES
    IsDevice,       \* of the FILE
    rCursor, rPc, rRequest, rStart, rBytes, rBuffer, rFailed, rOk

rawVars == <<rCursor, rPc, rRequest, rStart, rBytes, rBuffer, rFailed, rOk>>
allVars == <<vars, IsDevice, rawVars>>

Raw ==
    INSTANCE RawFile WITH
        Requests <- RawRequests, Cursor <- rCursor, pc <- rPc, request <- rRequest,
        start <- rStart, nBytes <- rBytes, Buffer <- rBuffer, failed <- rFailed, ok <- rOk

FileInit == Init /\ Raw!Init /\ IsDevice \in BOOLEAN

CallFile ==
    \/ ~IsDevice /\ Call /\ UNCHANGED <<IsDevice, rawVars>>
    \/ IsDevice /\ Raw!Call /\ UNCHANGED <<IsDevice, vars>>

StepFile ==
    \/ ~IsDevice /\ Step /\ UNCHANGED <<IsDevice, rawVars>>
    \/ IsDevice /\ Raw!Step /\ UNCHANGED <<IsDevice, vars>>

\* A call runs to its end.
FileSpec == FileInit /\ [][CallFile \/ StepFile]_allVars /\ WF_allVars(StepFile)

----------------------------------------------------------------------------
(* Properties *)

\* In whatever pieces a raw device's sectors are read, the bytes are those of the
\* device at the cursor, in order; seeks outside the device are refused.
RawRefines == Raw!Promise!Spec

\* Every call on either kind of file returns, and the cluster chain walk ends.
EveryFileCallReturns == ~(Idle /\ Raw!Idle) ~> (Idle /\ Raw!Idle)
=============================================================================
