------------------------------ MODULE ByteFile ------------------------------
(***************************************************************************)
(* What an open file promises to the loader (src/src/io.h, 55-75, as       *)
(* loader.c, multiboot.c and config.c use it): a cursor into a fixed       *)
(* sequence of bytes.  ReadFile returns bytes from the cursor on, perhaps  *)
(* fewer than asked for, and moves the cursor past them; SetFilePointer    *)
(* moves it to any byte of the file or refuses and leaves it alone.        *)
(***************************************************************************)
EXTENDS Integers, Sequences

CONSTANTS
    Files,          \* the files there are: sequences of bytes
    Requests        \* [op : {"read"}, n] and [op : {"seek"}, offset, whence]

VARIABLES
    content,        \* the bytes of the open file
    cursor,         \* its pointer, 0 .. Len(content)
    busy,           \* is a call in progress?
    request,        \* its arguments
    answer          \* what it returned: [ok, data]

vars == <<content, cursor, busy, request, answer>>

NoAnswer == [ok |-> FALSE, data |-> << >>]

\* FILE_END counts back from the end of the file.
Target(r, cur, size) ==
    CASE r.whence = "begin"   -> r.offset
      [] r.whence = "current" -> cur + r.offset
      [] r.whence = "end"     -> size - r.offset

Init ==
    /\ content \in Files
    /\ cursor = 0
    /\ busy = FALSE
    /\ request = [op |-> "read", n |-> 0]
    /\ answer = NoAnswer

Call(r) ==
    /\ ~busy
    /\ busy' = TRUE
    /\ request' = r
    /\ answer' = NoAnswer
    /\ UNCHANGED <<content, cursor>>

ReturnRead(k) ==
    /\ busy
    /\ request.op = "read"
    /\ k <= request.n
    /\ cursor + k <= Len(content)
    /\ answer' = [ok |-> TRUE, data |-> SubSeq(content, cursor + 1, cursor + k)]
    /\ cursor' = cursor + k
    /\ busy' = FALSE
    /\ UNCHANGED <<content, request>>

ReturnSeek ==
    LET t == Target(request, cursor, Len(content)) IN
    /\ busy
    /\ request.op = "seek"
    /\ IF 0 <= t /\ t < Len(content)
       THEN cursor' = t /\ answer' = [ok |-> TRUE, data |-> << >>]
       ELSE cursor' = cursor /\ answer' = NoAnswer
    /\ busy' = FALSE
    /\ UNCHANGED <<content, request>>

Next ==
    \/ \E r \in Requests : Call(r)
    \/ \E k \in 0 .. Len(content) : ReturnRead(k)
    \/ ReturnSeek

Spec == Init /\ [][Next]_vars
=============================================================================
