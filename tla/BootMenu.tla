------------------------------ MODULE BootMenu ------------------------------
(***************************************************************************)
(* The boot menu (src/src/main.c, RunBootMenu and the lines of main that   *)
(* call it).  The loop looks at the keyboard, redraws the list when the    *)
(* selection has changed, looks at the clock and waits for an interrupt.   *)
(* Images are named by their number on the screen, counted from zero; the  *)
(* seconds come from Clock, which goes on while it is read.                *)
(***************************************************************************)
EXTENDS Clock

CONSTANTS
    nImages,        \* of the CONFIG
    Default,        \* number of the default image
    Timeout,        \* seconds
    Word,           \* 2^32: Selected and windowStart are ULONGs
    Codes,          \* scan codes of the keys the user may press
    EarlyKeys       \* may a key wait before the list is first drawn?

windowSize == 13    \* images shown at a time

ASSUME ParamAssumption ==
    /\ nImages \in Nat \ {0}
    /\ Default \in 0 .. nImages - 1
    /\ Timeout \in Nat
    /\ Word \in Nat /\ nImages + windowSize < Word
    /\ Codes \subseteq 1 .. 255
    /\ EarlyKeys \in BOOLEAN

VARIABLES
    pc,             \* begin; start, keys, draw, timer: in the menu; image, reboot:
                    \* returned
    Selected,
    windowStart,
    oldSel,
    useTimer,
    start,          \* when the menu was shown
    nPrevSecs,      \* the seconds shown; Word stands for -1
    screen,         \* line of the list -> [image, marked]
    pressed,        \* the last key the user pressed; 0 for none
    byNumber        \* was an image selected by its number?

menuVars == <<Selected, windowStart, oldSel, useTimer, start, nPrevSecs, screen, pressed,
              byNumber>>

vars == <<pc, menuVars, clockVars>>

Images == 0 .. nImages - 1

Lines == 0 .. windowSize - 1

Blank == [l \in Lines |-> [image |-> Word, marked |-> FALSE]]

\* Scan codes (conio.h).
VK_1 == 2
VK_ENTER == 28
VK_F9 == 67
VK_HOME == 71
VK_UP == 72
VK_PREV == 73
VK_END == 79
VK_DOWN == 80
VK_NEXT == 81

----------------------------------------------------------------------------
(* What the keys make of the selection and the window *)

Moved(sel, ws) == [sel |-> sel, ws |-> ws]

Up(sel, ws) ==
    IF sel > 0
    THEN Moved(sel - 1, IF sel - 1 < ws THEN ws - 1 ELSE ws)
    ELSE Moved(sel, ws)

MutDown(sel, ws) ==
    IF sel < nImages
    THEN Moved(sel + 1, IF sel + 1 = ws + windowSize THEN ws + 1 ELSE ws)
    ELSE Moved(sel, ws)

Down(sel, ws) ==
    IF sel < nImages - 1
    THEN Moved(sel + 1, IF sel + 1 = ws + windowSize THEN ws + 1 ELSE ws)
    ELSE Moved(sel, ws)

\* The while loops that move the window just far enough.
DownTo(sel, ws) == IF sel >= ws + windowSize THEN sel - windowSize + 1 ELSE ws

UpTo(sel, ws) == IF sel < ws THEN sel ELSE ws

\* nImages - 1 - windowSize is computed without a sign.
NextPage(sel, ws) ==
    LET s == IF sel < (Word + nImages - 1 - windowSize) % Word
             THEN sel + windowSize ELSE nImages - 1
    IN Moved(s, DownTo(s, ws))

PrevPage(sel, ws) ==
    LET s == IF sel >= windowSize THEN sel - windowSize ELSE 0 IN Moved(s, UpTo(s, ws))

MutHome(ws) == Moved(0, ws)

Home(ws) == Moved(0, 0)

End == Moved(nImages - 1, (Word + nImages - windowSize) % Word)

\* Any scan code from that of the key 1 on may be a number, if there are as many images.
IsNumber(c) == c >= VK_1 /\ c < VK_1 + nImages

Handle(c, sel, ws) ==
    CASE c = VK_UP   -> Up(sel, ws)
      [] c = VK_DOWN -> Down(sel, ws)
      [] c = VK_NEXT -> NextPage(sel, ws)
      [] c = VK_PREV -> PrevPage(sel, ws)
      [] c = VK_HOME -> Home(ws)
      [] c = VK_END  -> End
      [] c \notin {VK_UP, VK_DOWN, VK_NEXT, VK_PREV, VK_HOME, VK_END, VK_F9} ->
            IF IsNumber(c) THEN Moved(c - VK_1, ws) ELSE Moved(sel, ws)
      [] OTHER       -> Moved(sel, ws)

----------------------------------------------------------------------------
(* The loop *)

\* main shows the menu if there is a choice or F8 was held, which also stops
\* the timer.
Begin(f8) ==
    /\ pc = "begin"
    /\ useTimer' = ~f8
    /\ Selected' = Default
    /\ oldSel' = Default + 1
    /\ pc' = IF ~(nImages > 1 \/ f8) \/ (~f8 /\ Timeout = 0) THEN "image" ELSE "start"
    /\ UNCHANGED <<windowStart, start, nPrevSecs, screen, pressed, byNumber, clockVars>>

\* The calls of time().
LookAtClock ==
    /\ pc = "start" \/ (pc = "timer" /\ useTimer)
    /\ CallTime \/ ReadClock
    /\ UNCHANGED <<pc, menuVars>>

Start ==
    /\ pc = "start"
    /\ TimeReturned
    /\ start' = Time
    /\ pc' = "keys"
    /\ UNCHANGED <<Selected, windowStart, oldSel, useTimer, nPrevSecs, screen, pressed,
                   byNumber>>

MutStopTimer == useTimer

\* Whichever key it is stops the timer.
StopTimer == FALSE

\* The number of the selected image is looked up in the list; a number that is
\* not there gives NULL, which main takes for a reboot.
Chosen(sel) == IF sel \in Images THEN "image" ELSE "reboot"

Press(c) ==
    LET m == Handle(c, Selected, windowStart) IN
    /\ pc = "keys"
    /\ EarlyKeys \/ screen # Blank
    /\ pressed' = c
    /\ byNumber' = (byNumber \/ IsNumber(c))
    /\ useTimer' = StopTimer
    /\ Selected' = m.sel
    /\ windowStart' = m.ws
    /\ pc' = IF c = VK_F9 THEN "reboot"
             ELSE IF c = VK_ENTER /\ ~IsNumber(c) THEN Chosen(m.sel)
             ELSE "draw"
    /\ UNCHANGED <<oldSel, start, nPrevSecs, screen, clockVars>>

NoKey ==
    /\ pc = "keys"
    /\ pc' = "draw"
    /\ UNCHANGED <<menuVars, clockVars>>

InWindow(k) ==
    /\ k \in Images
    /\ k >= windowStart
    /\ k < (windowStart + windowSize) % Word

\* Lines that show no image of the window stay as they are.
Draw ==
    /\ pc = "draw"
    /\ screen' = IF oldSel = Selected THEN screen
                 ELSE [l \in Lines |->
                          IF InWindow(windowStart + l)
                          THEN [image  |-> windowStart + l,
                                marked |-> windowStart + l = Selected]
                          ELSE screen[l]]
    /\ oldSel' = Selected
    /\ pc' = "timer"
    /\ UNCHANGED <<Selected, windowStart, useTimer, start, nPrevSecs, pressed, byNumber,
                   clockVars>>

nSecs == Time - start

MutExpired == nSecs > Timeout + 1

Expired == nSecs = Timeout

\* The seconds have been looked at: the countdown may be over.
Timer ==
    /\ pc = "timer"
    /\ useTimer
    /\ TimeReturned
    /\ nPrevSecs' = nSecs
    /\ pc' = IF nSecs # nPrevSecs /\ Expired THEN Chosen(Selected) ELSE "keys"
    /\ UNCHANGED <<Selected, windowStart, oldSel, useTimer, start, screen, pressed, byNumber>>

NoTimer ==
    /\ pc = "timer"
    /\ ~useTimer
    /\ pc' = "keys"
    /\ UNCHANGED <<menuVars, clockVars>>

\* The wait for an interrupt ends eighteen times a second, so that no second goes by
\* unseen; without the countdown nobody looks.
Second ==
    /\ pc \in {"start", "keys", "timer"}
    /\ useTimer
    /\ Tick
    /\ UNCHANGED <<pc, menuVars>>

Init ==
    /\ ClockInit
    /\ pc = "begin"
    /\ Selected = 0
    /\ windowStart = 0
    /\ oldSel = 1
    /\ useTimer = TRUE
    /\ start = 0
    /\ nPrevSecs = Word
    /\ screen = Blank
    /\ pressed = 0
    /\ byNumber = FALSE

Loop ==
    \/ \E f8 \in BOOLEAN : Begin(f8)
    \/ LookAtClock \/ Start \/ NoKey \/ Draw \/ Timer \/ NoTimer

Returned == pc \in {"image", "reboot"} /\ UNCHANGED vars

Next ==
    \/ Loop
    \/ \E c \in Codes : Press(c)
    \/ Second
    \/ Returned

\* The loop goes on, and so does the clock.
Spec == Init /\ [][Next]_vars /\ WF_vars(Loop) /\ SF_vars(Second)

----------------------------------------------------------------------------
(* Properties *)

\* The machine is rebooted only when the user asked for it with F9, and not
\* because the selection left the list (main.c: "User requested reboot").
RebootRequested == pc = "reboot" => pressed = VK_F9

\* Between two looks at the keyboard no image but the one that Enter would boot
\* is marked on the screen; and that one is marked, in the window, unless a
\* number key was used: those leave the window where it is.
MarkedIsSelected ==
    pc = "keys" /\ oldSel = Selected =>
        /\ \A l \in Lines : screen[l].marked => screen[l].image = Selected
        /\ byNumber \/ \E l \in Lines : screen[l] = [image |-> Selected, marked |-> TRUE]

\* Once a key was pressed the countdown is over: only Enter boots.
KeyStopsCountdown == [][pc' = "image" /\ pc # "image" /\ pressed' # 0 => pressed' = VK_ENTER]_vars

\* Enter boots: it never leaves the user in the menu.
EnterBoots == pressed = VK_ENTER => pc \in {"image", "reboot"}

\* Unless the user presses a key or held F8, the menu is left in the end.
CountdownEnds == <>(pc = "image" \/ pressed # 0 \/ ~useTimer)
=============================================================================
