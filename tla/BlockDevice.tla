---------------------------- MODULE BlockDevice ----------------------------
(***************************************************************************)
(* What ReadSector (src/src/io.c) promises to the file systems: a request  *)
(* for n sectors of a device is answered with the contents of the first k  *)
(* of them, and k < n only together with an error.                         *)
(***************************************************************************)
EXTENDS Naturals, Sequences

CONSTANTS
    DevSectors,     \* sectors of the device
    Contents,       \* the contents of each sector, a function on 0 .. DevSectors - 1
    Requests,       \* the [sector, count] pairs that callers ask for
    Errors          \* what can go wrong

NoError == "none"

VARIABLES
    busy,           \* is a call of ReadSector in progress?
    request,        \* its arguments
    answer          \* what the last call returned: [data, error]

vars == <<busy, request, answer>>

NoAnswer == [data |-> << >>, error |-> NoError]

Init ==
    /\ busy = FALSE
    /\ request = [sector |-> 0, count |-> 0]
    /\ answer = NoAnswer

Call(r) ==
    /\ ~busy
    /\ busy' = TRUE
    /\ request' = r
    /\ answer' = NoAnswer

\* The call returns the contents of the first k sectors.
Return(k, e) ==
    /\ busy
    /\ k <= request.count
    /\ k > 0 => request.sector + request.count <= DevSectors
    /\ k = request.count \/ e \in Errors
    /\ answer' = [data  |-> [i \in 1 .. k |-> Contents[request.sector + i - 1]],
                  error |-> e]
    /\ busy' = FALSE
    /\ UNCHANGED request

Next ==
    \/ \E r \in Requests : Call(r)
    \/ \E k \in 0 .. DevSectors, e \in Errors \cup {NoError} : Return(k, e)

Spec == Init /\ [][Next]_vars
=============================================================================
