--------------------------- MODULE BootMenuProofs ---------------------------
(***************************************************************************)
(* What the boot menu promises, for every number of images, every default  *)
(* and every set of keys, and what time() promises it, from whichever      *)
(* moment the real-time clock starts.                                      *)
(***************************************************************************)
EXTENDS BootMenu, FiniteSetTheorems, WellFoundedInduction, TLAPS

\* Page Down computes nImages - 1 - windowSize and End computes
\* nImages - windowSize, both without a sign.
PageDownFits == nImages > windowSize \/ VK_NEXT \notin Codes

EndFits == nImages >= windowSize \/ VK_END \notin Codes

\* A sum of two unsigned numbers that are known to fit, or to wrap once.
LEMMA Unsigned ==
    ASSUME NEW k \in Nat, k < Word
    PROVE  /\ k % Word = k
           /\ (Word + k) % Word = k
<1>1. Word \in Nat /\ Word > 0
  BY ParamAssumption
<1> QED BY <1>1

----------------------------------------------------------------------------
(* The selection *)

\* The selection is the number of an image, so that the list has it when the
\* menu is left.
Selects ==
    /\ Selected \in Images
    /\ RebootRequested

\* No key makes the selection leave the list.
LEMMA HandleSelects ==
    ASSUME PageDownFits, NEW c \in Codes, NEW sel \in Images, NEW ws
    PROVE  Handle(c, sel, ws).sel \in Images
<1>1. nImages \in Nat \ {0} /\ windowSize = 13
  BY ParamAssumption DEF windowSize
<1>2. CASE c = VK_NEXT
  <2>1. nImages > windowSize
    BY <1>2 DEF PageDownFits
  <2>2. (Word + (nImages - 1 - windowSize)) % Word = nImages - 1 - windowSize
    BY <1>1, <2>1, ParamAssumption, Unsigned
  <2>3. Word + (nImages - 1 - windowSize) = Word + nImages - 1 - windowSize
    BY <1>1, ParamAssumption
  <2>4. NextPage(sel, ws).sel = IF sel < nImages - 1 - windowSize
                                THEN sel + windowSize ELSE nImages - 1
    BY <2>2, <2>3 DEF NextPage, Moved
  <2>5. NextPage(sel, ws).sel \in Images
    BY <1>1, <2>1, <2>4 DEF Images
  <2> QED BY <1>2, <2>5 DEF Handle, VK_UP, VK_DOWN, VK_NEXT, VK_PREV, VK_HOME, VK_END, VK_F9
<1>3. CASE c \in {VK_UP, VK_DOWN, VK_PREV, VK_HOME, VK_END}
  <2>1. /\ Up(sel, ws).sel \in Images /\ Down(sel, ws).sel \in Images
        /\ PrevPage(sel, ws).sel \in Images
        /\ Home(ws).sel \in Images /\ End.sel \in Images
    BY <1>1 DEF Up, Down, PrevPage, Home, End, Moved, Images
  <2> QED BY <1>3, <2>1 DEF Handle, VK_UP, VK_DOWN, VK_NEXT, VK_PREV, VK_HOME, VK_END
<1>4. CASE c \notin {VK_UP, VK_DOWN, VK_NEXT, VK_PREV, VK_HOME, VK_END, VK_F9}
  <2>1. c \in Int
    BY ParamAssumption
  <2>2. Handle(c, sel, ws) = IF IsNumber(c) THEN Moved(c - VK_1, ws) ELSE Moved(sel, ws)
    BY <1>4 DEF Handle
  <2> QED BY <1>1, <2>1, <2>2 DEF Moved, IsNumber, VK_1, Images
<1>5. CASE c = VK_F9
  BY <1>5 DEF Handle, Moved, VK_UP, VK_DOWN, VK_NEXT, VK_PREV, VK_HOME, VK_END, VK_F9
<1> QED BY <1>2, <1>3, <1>4, <1>5

\* Every step keeps the selection in the list.
LEMMA NextSelects ==
    ASSUME PageDownFits, Selects, [Next]_vars
    PROVE  Selects'
<1> USE DEF Selects, RebootRequested
<1>1. CASE \E f8 \in BOOLEAN : Begin(f8)
  BY <1>1, ParamAssumption DEF Begin, Images
<1>2. CASE LookAtClock \/ NoTimer \/ NoKey \/ Second \/ Returned
  BY <1>2 DEF LookAtClock, NoTimer, NoKey, Second, Returned, vars, menuVars
<1>3. CASE Start \/ Draw
  BY <1>3 DEF Start, Draw
<1>4. CASE Timer
  BY <1>4 DEF Timer, Chosen
<1>5. ASSUME NEW c \in Codes, Press(c) PROVE Selects'
  <2>1. Handle(c, Selected, windowStart).sel \in Images
    BY HandleSelects
  <2> QED BY <1>5, <2>1 DEF Press, Chosen
<1>6. CASE UNCHANGED vars
  BY <1>6 DEF vars, menuVars
<1> QED BY <1>1, <1>2, <1>3, <1>4, <1>5, <1>6 DEF Next, Loop

\* If there are more images than lines, or nobody presses Page Down, then the
\* machine is rebooted only when the user asked for it with F9, whatever the
\* other keys, their order and the clock (main.c, RunBootMenu and main).
THEOREM RebootRequestedHolds == PageDownFits => (Spec => []RebootRequested)
<1> SUFFICES ASSUME PageDownFits PROVE Spec => []RebootRequested
  OBVIOUS
<1>1. Init => Selects
  BY ParamAssumption DEF Init, Selects, RebootRequested, Images
<1>2. Selects => RebootRequested
  BY DEF Selects
<1> QED BY <1>1, <1>2, NextSelects, PTL DEF Spec

----------------------------------------------------------------------------
(* The countdown *)

\* A key that was pressed has stopped the timer, which nothing starts again.
Stopped == pressed # 0 => ~useTimer /\ pc # "begin"

\* Every step keeps the timer stopped, and boots as KeyStopsCountdown says.
LEMMA NextStopped ==
    ASSUME Stopped, [Next]_vars
    PROVE  /\ Stopped'
           /\ pc' = "image" /\ pc # "image" /\ pressed' # 0 => pressed' = VK_ENTER
<1> USE DEF Stopped
<1>1. CASE \E f8 \in BOOLEAN : Begin(f8)
  BY <1>1 DEF Begin
<1>2. CASE LookAtClock \/ NoTimer \/ NoKey \/ Second \/ Returned
  BY <1>2 DEF LookAtClock, NoTimer, NoKey, Second, Returned, vars, menuVars
<1>3. CASE Start \/ Draw
  BY <1>3 DEF Start, Draw
<1>4. CASE Timer
  BY <1>4 DEF Timer
<1>5. ASSUME NEW c \in Codes, Press(c)
      PROVE  /\ Stopped'
             /\ pc' = "image" => pressed' = VK_ENTER
  BY <1>5 DEF Press, StopTimer, Chosen
<1>6. CASE UNCHANGED vars
  BY <1>6 DEF vars, menuVars
<1> QED BY <1>1, <1>2, <1>3, <1>4, <1>5, <1>6 DEF Next, Loop

\* Whichever key it was, once one has been pressed only Enter boots an image:
\* the countdown, even if its last second is over, does not (main.c 104-113, 200).
THEOREM KeyStopsCountdownHolds == Spec => KeyStopsCountdown
<1>1. Init => Stopped
  BY DEF Init, Stopped
<1>2. Stopped /\ [Next]_vars =>
        Stopped' /\ [pc' = "image" /\ pc # "image" /\ pressed' # 0 => pressed' = VK_ENTER]_vars
  BY NextStopped
<1> QED BY <1>1, <1>2, PTL DEF Spec, KeyStopsCountdown

----------------------------------------------------------------------------
(* The screen *)

\* The window holds as many images as there are lines, or all of them.
WindowFull(ws) == ws \in Nat /\ (ws = 0 \/ ws + windowSize <= nImages)

InView(sel, ws) == ws <= sel /\ sel < ws + windowSize

\* No key moves the window over an end of the list, and all but the numbers
\* keep the selection in the window.
LEMMA HandleWindow ==
    ASSUME PageDownFits, EndFits, NEW c \in Codes, NEW sel \in Images, NEW ws, WindowFull(ws)
    PROVE  /\ WindowFull(Handle(c, sel, ws).ws)
           /\ InView(sel, ws) /\ ~IsNumber(c) =>
                 InView(Handle(c, sel, ws).sel, Handle(c, sel, ws).ws)
<1> DEFINE Fine(m) == /\ WindowFull(m.ws)
                      /\ InView(sel, ws) /\ ~IsNumber(c) => InView(m.sel, m.ws)
<1>1. nImages \in Nat \ {0} /\ windowSize = 13 /\ sel \in Nat /\ sel < nImages
  BY ParamAssumption DEF windowSize, Images
<1>2. CASE c = VK_NEXT
  <2>1. nImages > windowSize
    BY <1>2 DEF PageDownFits
  <2>2. (Word + (nImages - 1 - windowSize)) % Word = nImages - 1 - windowSize
    BY <1>1, <2>1, ParamAssumption, Unsigned
  <2>3. Word + (nImages - 1 - windowSize) = Word + nImages - 1 - windowSize
    BY <1>1, ParamAssumption
  <2> DEFINE s == IF sel < nImages - 1 - windowSize THEN sel + windowSize ELSE nImages - 1
  <2>4. NextPage(sel, ws) = Moved(s, DownTo(s, ws))
    BY <2>2, <2>3 DEF NextPage
  <2>5. s \in Nat /\ s < nImages /\ sel <= s
    BY <1>1, <2>1
  <2> HIDE DEF s
  <2>6. WindowFull(DownTo(s, ws)) /\ (InView(sel, ws) => InView(s, DownTo(s, ws)))
    BY <1>1, <2>5 DEF DownTo, WindowFull, InView
  <2>7. Fine(NextPage(sel, ws))
    BY <2>4, <2>6 DEF Moved
  <2> QED BY <1>2, <2>7 DEF Handle, VK_UP, VK_DOWN, VK_NEXT, VK_PREV, VK_HOME, VK_END, VK_F9
<1>3. CASE c = VK_END
  <2>1. nImages >= windowSize
    BY <1>3 DEF EndFits
  <2>2. (Word + (nImages - windowSize)) % Word = nImages - windowSize
    BY <1>1, <2>1, ParamAssumption, Unsigned
  <2>3. Word + (nImages - windowSize) = Word + nImages - windowSize
    BY <1>1, ParamAssumption
  <2>4. End = Moved(nImages - 1, nImages - windowSize)
    BY <2>2, <2>3 DEF End
  <2>5. Fine(End)
    BY <1>1, <2>1, <2>4 DEF Moved, WindowFull, InView
  <2> QED BY <1>3, <2>5 DEF Handle, VK_UP, VK_DOWN, VK_NEXT, VK_PREV, VK_HOME, VK_END, VK_F9
<1>4. CASE c \in {VK_UP, VK_DOWN, VK_PREV, VK_HOME}
  <2>1. Fine(Up(sel, ws))
    BY <1>1 DEF Up, Moved, WindowFull, InView
  <2>2. Fine(Down(sel, ws))
    BY <1>1 DEF Down, Moved, WindowFull, InView
  <2>3. Fine(PrevPage(sel, ws))
    BY <1>1 DEF PrevPage, UpTo, Moved, WindowFull, InView
  <2>4. Fine(Home(ws))
    BY <1>1 DEF Home, Moved, WindowFull, InView
  <2> HIDE DEF Fine
  <2>5. Fine(Handle(c, sel, ws))
    BY <1>4, <2>1, <2>2, <2>3, <2>4
       DEF Handle, VK_UP, VK_DOWN, VK_NEXT, VK_PREV, VK_HOME, VK_END, VK_F9
  <2> QED BY <2>5 DEF Fine
<1>5. CASE c \notin {VK_UP, VK_DOWN, VK_NEXT, VK_PREV, VK_HOME, VK_END, VK_F9}
  <2>1. Handle(c, sel, ws) = IF IsNumber(c) THEN Moved(c - VK_1, ws) ELSE Moved(sel, ws)
    BY <1>5 DEF Handle
  <2> QED BY <2>1 DEF Moved
<1>6. CASE c = VK_F9
  <2>1. Handle(c, sel, ws) = Moved(sel, ws)
    BY <1>6 DEF Handle, VK_UP, VK_DOWN, VK_NEXT, VK_PREV, VK_HOME, VK_END, VK_F9
  <2> QED BY <2>1 DEF Moved
<1> QED BY <1>2, <1>3, <1>4, <1>5, <1>6

\* The selection and the window: numbers alone can part them.
Window ==
    /\ Selected \in Images
    /\ WindowFull(windowStart)
    /\ byNumber \in BOOLEAN
    /\ byNumber \/ InView(Selected, windowStart)

\* The list on the screen is that of the selection last drawn, oldSel, which is
\* marked on it, and on no line twice; before the first time the list is drawn
\* no key has been looked at.
Drawn ==
    /\ screen \in [Lines -> [image : Nat, marked : BOOLEAN]]
    /\ \A l \in Lines : screen[l].marked => screen[l].image = oldSel
    /\ \A l \in Lines : l >= nImages => screen[l] = Blank[l]
    /\ screen = Blank => oldSel # Selected /\ ~byNumber
    /\ screen = Blank \/ byNumber \/
          \E l \in Lines : screen[l] = [image |-> oldSel, marked |-> TRUE]
    /\ pc = "begin" => screen = Blank /\ windowStart = 0 /\ ~byNumber

\* Nothing but what Window and Drawn speak of can disturb them.
LEMMA Untouched ==
    ASSUME Window, Drawn, UNCHANGED <<Selected, windowStart, oldSel, screen, byNumber>>,
           pc' # "begin" \/ pc' = pc
    PROVE  Window' /\ Drawn'
<1>1. Window'
  BY DEF Window, WindowFull, InView, Images
<1>2. Drawn'
  BY DEF Drawn, Blank, Lines
<1> QED BY <1>1, <1>2

\* Drawing the list, or not, leaves the screen as MarkedIsSelected wants it.
LEMMA DrawDrawn ==
    ASSUME Window, Drawn, Draw
    PROVE  Window' /\ Drawn'
<1> DEFINE Line(l) == [image |-> windowStart + l, marked |-> windowStart + l = Selected]
<1>1. /\ Selected' = Selected /\ windowStart' = windowStart /\ byNumber' = byNumber
      /\ oldSel' = Selected /\ pc' = "timer"
  BY DEF Draw
<1>2. Window'
  BY <1>1 DEF Window, InView, WindowFull, Images
<1>3. CASE oldSel = Selected
  <2>1. screen' = screen
    BY <1>3 DEF Draw
  <2> QED BY <1>1, <1>3, <2>1, Untouched
<1>4. CASE oldSel # Selected
  <2>1. screen' = [l \in Lines |-> IF InWindow(windowStart + l) THEN Line(l) ELSE screen[l]]
    BY <1>4 DEF Draw
  <2>2. /\ nImages \in Nat \ {0} /\ windowSize = 13 /\ windowStart \in Nat /\ Selected \in Nat
        /\ Selected < nImages /\ Word \in Nat /\ nImages + windowSize < Word
        /\ windowStart + windowSize <= nImages + windowSize
    BY ParamAssumption DEF windowSize, Window, WindowFull, Images
  <2>3. (windowStart + windowSize) % Word = windowStart + windowSize
    BY <2>2, Unsigned
  <2>4. ASSUME NEW l \in Lines
        PROVE  InWindow(windowStart + l) <=> windowStart + l < nImages
    BY <2>2, <2>3 DEF InWindow, Images, Lines
  <2>5. ASSUME NEW l \in Lines
        PROVE  screen'[l] = IF windowStart + l < nImages THEN Line(l) ELSE screen[l]
    BY <2>1, <2>4
  <2>6. ASSUME NEW l \in Lines, windowStart + l >= nImages
        PROVE  l >= nImages
    BY <2>2, <2>6 DEF Window, WindowFull, Lines
  <2>7. ASSUME NEW l \in Lines
        PROVE  /\ screen'[l].marked => screen'[l].image = Selected
               /\ l >= nImages => screen'[l] = Blank[l]
               /\ screen'[l] \in [image : Nat, marked : BOOLEAN]
    <3>1. CASE windowStart + l < nImages
      <4>1. l \in Nat /\ l < nImages
        BY <2>2, <3>1 DEF Lines
      <4>2. screen'[l] = Line(l)
        BY <2>5, <3>1
      <4>3. windowStart + l \in Nat /\ ~(l >= nImages)
        BY <2>2, <4>1
      <4>4. Line(l).image = windowStart + l /\ Line(l).marked = (windowStart + l = Selected)
        OBVIOUS
      <4>5. Line(l) \in [image : Nat, marked : BOOLEAN]
        BY <4>3, Zenon
      <4> HIDE DEF Line
      <4> QED BY <4>2, <4>3, <4>4, <4>5
    <3>2. CASE ~(windowStart + l < nImages)
      <4>1. l >= nImages
        BY <2>2, <2>6, <3>2 DEF Lines
      <4>2. screen'[l] = Blank[l] /\ screen[l] \in [image : Nat, marked : BOOLEAN]
        BY <2>5, <3>2, <4>1 DEF Drawn
      <4>3. ~Blank[l].marked
        BY DEF Blank
      <4> QED BY <2>5, <3>2, <4>2, <4>3
    <3> QED BY <3>1, <3>2
  <2>8. screen' \in [Lines -> [image : Nat, marked : BOOLEAN]]
    BY <2>1, <2>7
  <2>9. CASE ~byNumber
    <3> DEFINE k == Selected - windowStart
    <3>1. k \in Lines /\ windowStart + k = Selected
      BY <2>2, <2>9 DEF Window, InView, Lines
    <3> HIDE DEF k
    <3>2. screen'[k] = [image |-> Selected, marked |-> TRUE]
      BY <2>2, <2>5, <3>1
    <3>3. screen' # Blank
      BY <2>2, <3>1, <3>2 DEF Blank
    <3> QED BY <1>1, <1>2, <2>7, <2>8, <3>1, <3>2, <3>3 DEF Drawn
  <2>10. CASE byNumber
    <3>1. screen # Blank
      BY <2>10 DEF Drawn
    <3>2. PICK l \in Lines : screen[l] # Blank[l]
      BY <3>1 DEF Drawn, Blank
    <3>3. screen'[l] # Blank[l]
      BY <2>2, <2>5, <3>2 DEF Blank, Lines
    <3> QED BY <1>1, <1>2, <2>7, <2>8, <2>10, <3>3 DEF Drawn
  <2> QED BY <2>9, <2>10 DEF Window
<1> QED BY <1>3, <1>4

\* Every step keeps the window and the screen in order.
LEMMA NextDrawn ==
    ASSUME PageDownFits, EndFits, Default < windowSize, ~EarlyKeys,
           Window, Drawn, [Next]_vars
    PROVE  Window' /\ Drawn'
<1>1. CASE \E f8 \in BOOLEAN : Begin(f8)
  <2>1. /\ screen' = screen /\ windowStart' = 0 /\ windowStart = 0 /\ ~byNumber
        /\ byNumber' = byNumber /\ screen = Blank /\ pc' # "begin"
        /\ Selected' = Default /\ oldSel' = Default + 1
    BY <1>1 DEF Begin, Drawn
  <2>2. Default \in Nat /\ Default \in Images /\ WindowFull(0) /\ InView(Default, 0)
    BY ParamAssumption DEF Images, WindowFull, InView, windowSize
  <2>3. Window'
    BY <2>1, <2>2 DEF Window, Images, WindowFull, InView
  <2>4. \A l \in Lines : ~Blank[l].marked
    BY DEF Blank
  <2> QED BY <2>1, <2>2, <2>3, <2>4 DEF Drawn
<1>2. CASE LookAtClock \/ NoTimer \/ NoKey \/ Second \/ Returned
  <2>1. UNCHANGED menuVars /\ (pc' # "begin" \/ pc' = pc)
    BY <1>2 DEF LookAtClock, NoTimer, NoKey, Second, Returned, vars
  <2> QED BY <2>1, Untouched DEF menuVars
<1>3. CASE Start
  BY <1>3, Untouched DEF Start
<1>4. CASE Timer
  BY <1>4, Untouched DEF Timer, Chosen
<1>5. CASE Draw
  BY <1>5, DrawDrawn
<1>6. ASSUME NEW c \in Codes, Press(c) PROVE Window' /\ Drawn'
  <2> DEFINE m == Handle(c, Selected, windowStart)
  <2>1. /\ Selected' = m.sel /\ windowStart' = m.ws /\ screen # Blank
        /\ byNumber' = (byNumber \/ IsNumber(c))
        /\ screen' = screen /\ oldSel' = oldSel
        /\ pc' \in {"image", "reboot", "draw"}
    BY <1>6 DEF Press, Chosen
  <2>2. /\ m.sel \in Images /\ WindowFull(m.ws)
        /\ InView(Selected, windowStart) /\ ~IsNumber(c) => InView(m.sel, m.ws)
    BY HandleSelects, HandleWindow DEF Window
  <2> HIDE DEF m
  <2>3. Window'
    BY <2>1, <2>2 DEF Window
  <2>4. Drawn'
    BY <2>1 DEF Drawn, Window
  <2> QED BY <2>3, <2>4
<1>7. CASE UNCHANGED vars
  BY <1>7, Untouched DEF vars, menuVars
<1> QED BY <1>1, <1>2, <1>3, <1>4, <1>5, <1>6, <1>7 DEF Next, Loop

\* If the default is in the first window, no key waits before the list is first
\* drawn, and Page Down and End do not compute below zero: whatever the user
\* presses, the image that Enter would boot is the one that is marked
\* (main.c 102-180).
THEOREM MarkedIsSelectedHolds ==
    PageDownFits /\ EndFits /\ Default < windowSize /\ ~EarlyKeys
        => (Spec => []MarkedIsSelected)
<1> SUFFICES ASSUME PageDownFits, EndFits, Default < windowSize, ~EarlyKeys
             PROVE  Spec => []MarkedIsSelected
  OBVIOUS
<1>1. Init => Window /\ Drawn
  <2> SUFFICES ASSUME Init PROVE Window /\ Drawn
    OBVIOUS
  <2>1. Blank \in [Lines -> [image : Nat, marked : BOOLEAN]] /\ \A l \in Lines : ~Blank[l].marked
    BY ParamAssumption DEF Blank
  <2>2. 0 \in Images /\ WindowFull(0) /\ InView(0, 0)
    BY ParamAssumption DEF WindowFull, InView, windowSize, Images
  <2>3. Window
    BY <2>2 DEF Init, Window
  <2> QED BY <2>1, <2>3 DEF Init, Drawn
<1>2. Window /\ Drawn => MarkedIsSelected
  BY DEF Window, Drawn, MarkedIsSelected
<1>3. Window /\ Drawn /\ [Next]_vars => Window' /\ Drawn'
  BY NextDrawn
<1> QED BY <1>1, <1>2, <1>3, PTL DEF Spec

----------------------------------------------------------------------------
(* The calendar *)

\* A set of numbers that is not empty has a least one.
LEMMA LeastIs ==
    ASSUME NEW S, S \subseteq Nat, S # {}
    PROVE  \E x \in S : \A y \in S : x <= y
<1> DEFINE R == OpToRel(<, Nat)
<1>1. PICK x \in S : \A y \in S : ~(<<y, x>> \in R)
  BY NatLessThanWellFounded, WFMin
<1>2. \A y \in S : x <= y
  <2> SUFFICES ASSUME NEW y \in S, y < x PROVE FALSE
    OBVIOUS
  <2>1. <<y, x>> \in R
    BY Zenon DEF OpToRel
  <2> QED BY <2>1, <1>1
<1> QED BY <1>2

OneIf(b) == IF b THEN 1 ELSE 0

LeapsIn(a, y) == {x \in a .. y - 1 : IsLeap(x)}

\* No years, no leap years.
LEMMA LeapsEmpty ==
    ASSUME NEW a \in Nat
    PROVE  Cardinality(LeapsIn(a, a)) = 0
<1>1. LeapsIn(a, a) = {}
  BY DEF LeapsIn
<1> QED BY <1>1, FS_EmptySet

\* A year adds a leap year or none.
LEMMA LeapAdds ==
    ASSUME NEW a \in Nat, NEW y \in Nat, a <= y
    PROVE  /\ Cardinality(LeapsIn(a, y)) \in Nat
           /\ Cardinality(LeapsIn(a, y + 1)) = Cardinality(LeapsIn(a, y)) + OneIf(IsLeap(y))
           /\ Cardinality(LeapsIn(a, a)) = 0
<1> DEFINE A == a .. y + 1 - 1
           B == a .. y - 1
           S == LeapsIn(a, y)
<1>1. IsFiniteSet(S)
  <2>1. IsFiniteSet(B)
    BY FS_Interval
  <2>2. S \in SUBSET B
    BY DEF LeapsIn
  <2> HIDE DEF S, B
  <2> QED BY <2>1, <2>2, FS_Subset
<1>2. \A x : x \in A <=> x \in B \/ x = y
  OBVIOUS
<1>3. y \notin B
  OBVIOUS
<1>4. S = {x \in B : IsLeap(x)} /\ LeapsIn(a, y + 1) = {x \in A : IsLeap(x)}
  BY DEF LeapsIn
<1> HIDE DEF A, B, S
<1>5. Cardinality(S) \in Nat
  BY <1>1, FS_CardinalityType, Zenon
<1>6. CASE IsLeap(y)
  <2>1. LeapsIn(a, y + 1) = S \cup {y} /\ y \notin S
    BY <1>2, <1>3, <1>4, <1>6, Zenon
  <2>2. Cardinality(S \cup {y}) = Cardinality(S) + 1
    BY <1>1, <2>1, FS_AddElement
  <2> QED BY <1>5, <1>6, <2>1, <2>2, LeapsEmpty DEF OneIf, S
<1>7. CASE ~IsLeap(y)
  <2>1. LeapsIn(a, y + 1) = S
    BY <1>2, <1>4, <1>7, Zenon
  <2> QED BY <1>5, <1>7, <2>1, LeapsEmpty DEF OneIf, S
<1> QED BY <1>6, <1>7

\* What is counted by a cardinality is counted one year at a time.
LEMMA CountAdds ==
    ASSUME NEW a \in Nat, NEW y \in Nat, a <= y,
           \A n : LeapYears(n) = Cardinality(LeapsIn(a, n))
    PROVE  /\ LeapYears(y) \in Nat
           /\ LeapYears(y + 1) = LeapYears(y) + OneIf(IsLeap(y))
           /\ LeapYears(a) = 0
<1>1. /\ Cardinality(LeapsIn(a, y)) \in Nat
      /\ Cardinality(LeapsIn(a, y + 1)) = Cardinality(LeapsIn(a, y)) + OneIf(IsLeap(y))
      /\ Cardinality(LeapsIn(a, a)) = 0
  BY LeapAdds, Zenon
<1>2. /\ LeapYears(y) = Cardinality(LeapsIn(a, y))
      /\ LeapYears(y + 1) = Cardinality(LeapsIn(a, y + 1))
      /\ LeapYears(a) = Cardinality(LeapsIn(a, a))
  BY Zenon
<1> QED BY <1>1, <1>2, Zenon

\* The reference counts from 1970, one year at a time.
LEMMA YearAdds ==
    ASSUME NEW y \in Nat, y >= 1970
    PROVE  /\ LeapYears(y) \in Nat
           /\ LeapYears(y + 1) = LeapYears(y) + OneIf(IsLeap(y))
           /\ LeapYears(1970) = 0
<1>1. \A n : LeapYears(n) = Cardinality(LeapsIn(1970, n))
  BY SMT DEF LeapYears, LeapsIn
<1> DEFINE a == 1970
<1>2. a \in Nat /\ a <= y
  BY SMT
<1>3. \A n : LeapYears(n) = Cardinality(LeapsIn(a, n))
  BY <1>1
<1> HIDE DEF a
<1>4. /\ LeapYears(y) \in Nat
      /\ LeapYears(y + 1) = LeapYears(y) + OneIf(IsLeap(y))
      /\ LeapYears(a) = 0
  BY <1>2, <1>3, CountAdds, SMT
<1> QED BY <1>4, SMT DEF a

\* The leap years since 1600, as time() counts them.
LeapsSince1600(y) ==
    (y - 1601) \div 4 - (y - 1601) \div 100 + (y - 1601) \div 400 + 1

\* What time() counts goes up with the same years.
LEMMA YearSteps ==
    ASSUME NEW y \in Nat, y >= 1970
    PROVE  LeapsSince1600(y + 1) = LeapsSince1600(y) + OneIf(IsLeap(y))
<1>1. (y + 1 - 1601) \div 4 = ((y - 1601) \div 4) + OneIf(y % 4 = 0)
  BY SMT DEF OneIf
<1>2. (y + 1 - 1601) \div 100 = ((y - 1601) \div 100) + OneIf(y % 100 = 0)
  BY SMT DEF OneIf
<1>3. (y + 1 - 1601) \div 400 = ((y - 1601) \div 400) + OneIf(y % 400 = 0)
  BY SMT DEF OneIf
<1>4. (y % 400 = 0 => y % 100 = 0) /\ (y % 100 = 0 => y % 4 = 0)
  BY SMT
<1>5. OneIf(IsLeap(y)) = OneIf(y % 4 = 0) - OneIf(y % 100 = 0) + OneIf(y % 400 = 0)
  BY <1>4, SMT DEF OneIf, IsLeap
<1>6. /\ (y - 1601) \div 4 \in Int /\ (y - 1601) \div 100 \in Int /\ (y - 1601) \div 400 \in Int
      /\ OneIf(y % 4 = 0) \in Int /\ OneIf(y % 100 = 0) \in Int /\ OneIf(y % 400 = 0) \in Int
  BY SMT DEF OneIf
<1> DEFINE a == (y - 1601) \div 4
           b == (y - 1601) \div 100
           c == (y - 1601) \div 400
           d == OneIf(y % 4 = 0)
           e == OneIf(y % 100 = 0)
           f == OneIf(y % 400 = 0)
<1>7. a \in Int /\ b \in Int /\ c \in Int /\ d \in Int /\ e \in Int /\ f \in Int
  BY <1>6
<1>8. LeapsSince1600(y + 1) = (a + d) - (b + e) + (c + f) + 1
  BY <1>1, <1>2, <1>3, SMT DEF LeapsSince1600
<1>9. LeapsSince1600(y) = a - b + c + 1
  BY SMT DEF LeapsSince1600
<1>10. OneIf(IsLeap(y)) = d - e + f
  BY <1>5
<1> HIDE DEF a, b, c, d, e, f
<1> QED BY <1>7, <1>8, <1>9, <1>10, SMT

\* Two sums of the same summands are equal.
LEMMA SameSums ==
    ASSUME NEW g, NEW h, NEW w, g[0] = h[0],
           \A n \in Nat : g[n + 1] = g[n] + w[n] /\ h[n + 1] = h[n] + w[n]
    PROVE  \A n \in Nat : g[n] = h[n]
<1> DEFINE S == {n \in Nat : g[n] # h[n]}
<1> SUFFICES ASSUME S # {} PROVE FALSE
  OBVIOUS
<1>1. S \subseteq Nat
  OBVIOUS
<1>2. \A n \in Nat : n \in S <=> g[n] # h[n]
  OBVIOUS
<1> HIDE DEF S
<1>3. PICK n \in S : \A m \in S : n <= m
  BY <1>1, LeastIs
<1>4. n \in Nat /\ g[n] # h[n] /\ n # 0
  BY <1>1, <1>2, <1>3
<1> DEFINE m == n - 1
<1>5. m \in Nat /\ m + 1 = n /\ ~(n <= m)
  BY <1>4
<1> HIDE DEF m
<1>6. g[m] = h[m]
  BY <1>2, <1>3, <1>5
<1>7. g[m + 1] = g[m] + w[m] /\ h[m + 1] = h[m] + w[m]
  BY <1>5
<1> QED BY <1>4, <1>5, <1>6, <1>7

\* time() counts the leap years right.
LEMMA LeapYearsAre ==
    ASSUME NEW y \in Nat, y >= 1970
    PROVE  LeapYears(y) = LeapsSince1600(y) - 90
<1> DEFINE g == [n \in Nat |-> LeapYears(1970 + n)]
           h == [n \in Nat |-> LeapsSince1600(1970 + n) - 90]
           w == [n \in Nat |-> OneIf(IsLeap(1970 + n))]
<1>1. g[0] = h[0]
  <2>1. LeapYears(1970) = 0
    BY YearAdds, SMT
  <2>2. LeapsSince1600(1970) = 90
    BY SMT DEF LeapsSince1600
  <2> QED BY <2>1, <2>2, SMT
<1>2. ASSUME NEW n \in Nat PROVE g[n + 1] = g[n] + w[n] /\ h[n + 1] = h[n] + w[n]
  <2> DEFINE z == 1970 + n
  <2>1. z \in Nat /\ z >= 1970 /\ z + 1 = 1970 + (n + 1) /\ n + 1 \in Nat
    BY SMT
  <2>2. g[n] = LeapYears(z) /\ h[n] = LeapsSince1600(z) - 90 /\ w[n] = OneIf(IsLeap(z))
    BY SMT
  <2>3. g[n + 1] = LeapYears(z + 1) /\ h[n + 1] = LeapsSince1600(z + 1) - 90
    BY <2>1, SMT
  <2> HIDE DEF z, g, h, w
  <2>4. LeapYears(z + 1) = LeapYears(z) + OneIf(IsLeap(z))
    BY <2>1, YearAdds, SMT
  <2>5. LeapsSince1600(z + 1) = LeapsSince1600(z) + OneIf(IsLeap(z))
    BY <2>1, YearSteps, SMT
  <2>6. LeapsSince1600(z) \in Int /\ OneIf(IsLeap(z)) \in Int
    BY <2>1, SMT DEF LeapsSince1600, OneIf
  <2> QED BY <2>2, <2>3, <2>4, <2>5, <2>6, SMT
<1> HIDE DEF g, h, w
<1>3. \A n \in Nat : g[n] = h[n]
  BY <1>1, <1>2, SameSums, SMT
<1>4. y - 1970 \in Nat /\ 1970 + (y - 1970) = y
  BY SMT
<1>5. g[y - 1970] = LeapYears(y) /\ h[y - 1970] = LeapsSince1600(y) - 90
  BY <1>4, SMT DEF g, h
<1> QED BY <1>3, <1>4, <1>5, SMT

\* The days of the months before the m-th, as pairs.
DaysOf(y, m) == UNION {{x} \X (1 .. MonthLength(y, x)) : x \in 1 .. m - 1}

\* Every month has 28 to 31 days.
LEMMA MonthLengthIs ==
    ASSUME NEW y, NEW m
    PROVE  MonthLength(y, m) \in 28 .. 31
BY DEF MonthLength

\* A month adds its days.
LEMMA MonthAdds ==
    ASSUME NEW y, NEW m \in Nat \ {0}, IsFiniteSet(DaysOf(y, m))
    PROVE  /\ IsFiniteSet(DaysOf(y, m + 1))
           /\ Cardinality(DaysOf(y, m + 1)) = Cardinality(DaysOf(y, m)) + MonthLength(y, m)
<1> DEFINE k == MonthLength(y, m)
           N == {m} \X (1 .. k)
           A == 1 .. m - 1
           B == 1 .. m + 1 - 1
           M == DaysOf(y, m)
<1>1. k \in Nat
  BY MonthLengthIs
<1>2. IsFiniteSet(N) /\ Cardinality(N) = k
  <2>1. IsFiniteSet({m}) /\ Cardinality({m}) = 1
    BY FS_Singleton
  <2>2. IsFiniteSet(1 .. k) /\ Cardinality(1 .. k) = k
    BY <1>1, FS_Interval
  <2> DEFINE P == {m}
             Q == 1 .. k
  <2> HIDE DEF P, Q
  <2>3. IsFiniteSet(P \X Q) /\ Cardinality(P \X Q) = Cardinality(P) * Cardinality(Q)
    <3>1. IsFiniteSet(P) /\ IsFiniteSet(Q)
      BY <2>1, <2>2 DEF P, Q
    <3> QED BY <3>1, FS_Product, Zenon
  <2>4. 1 * k = k
    BY <1>1, SMT
  <2> QED BY <2>1, <2>2, <2>3, <2>4 DEF P, Q
<1>3. \A x : x \in B <=> x \in A \/ x = m
  OBVIOUS
<1>4. m \notin A
  OBVIOUS
<1>5. DaysOf(y, m + 1) = UNION {{x} \X (1 .. MonthLength(y, x)) : x \in B}
      /\ M = UNION {{x} \X (1 .. MonthLength(y, x)) : x \in A}
  BY DEF DaysOf
<1> HIDE DEF A, B
<1>6. DaysOf(y, m + 1) = M \cup N
  BY <1>3, <1>5, Zenon
<1>7. M \cap N = {}
  <2> SUFFICES ASSUME NEW p \in M, p \in N PROVE FALSE
    BY Zenon
  <2>1. PICK x \in A : p \in {x} \X (1 .. MonthLength(y, x))
    BY <1>5, Zenon
  <2>2. p[1] = x /\ p[1] = m
    BY <2>1, Zenon
  <2> QED BY <1>4, <2>1, <2>2, Zenon
<1> HIDE DEF M, N, k
<1>8. /\ IsFiniteSet(M \cup N)
      /\ Cardinality(M \cup N) = Cardinality(M) + Cardinality(N) - Cardinality(M \cap N)
  BY <1>2, FS_Union DEF M
<1>9. Cardinality(M) \in Nat /\ Cardinality({}) = 0
  BY FS_CardinalityType, FS_EmptySet, Zenon DEF M
<1>10. Cardinality(M \cap N) = 0
  BY <1>7, <1>9, Zenon
<1>11. Cardinality(M \cup N) = Cardinality(M) + k
  BY <1>1, <1>2, <1>8, <1>9, <1>10
<1> QED BY <1>6, <1>8, <1>11, Zenon DEF M, k

\* The same, with the days counted so far.
LEMMA NextMonth ==
    ASSUME NEW y, NEW m \in Nat \ {0}, NEW k, k = m + 1, NEW c \in Nat,
           IsFiniteSet(DaysOf(y, m)), Cardinality(DaysOf(y, m)) = c
    PROVE  IsFiniteSet(DaysOf(y, k)) /\ Cardinality(DaysOf(y, k)) = c + MonthLength(y, m)
BY MonthAdds, Zenon

\* The table of time() has the days of the months before each month.
LEMMA MonthDaysAre ==
    ASSUME NEW y, NEW m \in 1 .. 12
    PROVE  MonthDays(y, m) = DaysBefore[m] + OneIf(m > 2 /\ IsLeap(y))
<1> DEFINE l == OneIf(IsLeap(y))
           Has(k, c) == IsFiniteSet(DaysOf(y, k)) /\ Cardinality(DaysOf(y, k)) = c
<1>1. l \in Nat /\ MonthLength(y, 2) = 28 + l
  BY DEF OneIf, MonthLength
<1>2. \A k \in {4, 6, 9, 11} : MonthLength(y, k) = 30
  BY DEF MonthLength
<1>3. \A k \in {1, 3, 5, 7, 8, 10, 12} : MonthLength(y, k) = 31
  BY DEF MonthLength
<1>4. ASSUME NEW k \in Nat \ {0}, NEW c \in Nat, Has(k, c)
      PROVE  Has(k + 1, c + MonthLength(y, k))
  BY <1>4, NextMonth, SMT
<1> HIDE DEF l
<1>5. Has(1, 0)
  <2>1. DaysOf(y, 1) = {}
    BY DEF DaysOf
  <2> QED BY <2>1, FS_EmptySet
<1> HIDE DEF Has
<1>6. Has(2, 31)
  BY <1>3, <1>4, <1>5, SMT
<1>7. Has(3, 59 + l)
  <2>1. Has(2 + 1, 31 + MonthLength(y, 2))
    BY <1>4, <1>6
  <2> QED BY <1>1, <2>1
<1>8. Has(4, 90 + l)
  <2>1. 59 + l \in Nat /\ 59 + l + 31 = 90 + l
    BY <1>1
  <2> QED BY <1>3, <1>4, <1>7, <2>1, SMT
<1>9. Has(5, 120 + l)
  <2>1. 90 + l \in Nat /\ 90 + l + 30 = 120 + l
    BY <1>1
  <2> QED BY <1>2, <1>4, <1>8, <2>1, SMT
<1>10. Has(6, 151 + l)
  <2>1. 120 + l \in Nat /\ 120 + l + 31 = 151 + l
    BY <1>1
  <2> QED BY <1>3, <1>4, <1>9, <2>1, SMT
<1>11. Has(7, 181 + l)
  <2>1. 151 + l \in Nat /\ 151 + l + 30 = 181 + l
    BY <1>1
  <2> QED BY <1>2, <1>4, <1>10, <2>1, SMT
<1>12. Has(8, 212 + l)
  <2>1. 181 + l \in Nat /\ 181 + l + 31 = 212 + l
    BY <1>1
  <2> QED BY <1>3, <1>4, <1>11, <2>1, SMT
<1>13. Has(9, 243 + l)
  <2>1. 212 + l \in Nat /\ 212 + l + 31 = 243 + l
    BY <1>1
  <2> QED BY <1>3, <1>4, <1>12, <2>1, SMT
<1>14. Has(10, 273 + l)
  <2>1. 243 + l \in Nat /\ 243 + l + 30 = 273 + l
    BY <1>1
  <2> QED BY <1>2, <1>4, <1>13, <2>1, SMT
<1>15. Has(11, 304 + l)
  <2>1. 273 + l \in Nat /\ 273 + l + 31 = 304 + l
    BY <1>1
  <2> QED BY <1>3, <1>4, <1>14, <2>1, SMT
<1>16. Has(12, 334 + l)
  <2>1. 304 + l \in Nat /\ 304 + l + 30 = 334 + l
    BY <1>1
  <2> QED BY <1>2, <1>4, <1>15, <2>1, SMT
<1>17. \A k, c : Has(k, c) => MonthDays(y, k) = c
  BY DEF Has, MonthDays, DaysOf
<1>18. \A k \in 1 .. 12 : OneIf(k > 2 /\ IsLeap(y)) = IF k > 2 THEN l ELSE 0
  BY DEF OneIf, l
<1>19. /\ DaysBefore[1] = 0 /\ DaysBefore[2] = 31 /\ DaysBefore[3] = 59
       /\ DaysBefore[4] = 90 /\ DaysBefore[5] = 120 /\ DaysBefore[6] = 151
       /\ DaysBefore[7] = 181 /\ DaysBefore[8] = 212 /\ DaysBefore[9] = 243
       /\ DaysBefore[10] = 273 /\ DaysBefore[11] = 304 /\ DaysBefore[12] = 334
  BY DEF DaysBefore
<1>20. m \in {1, 2}  \/ m \in {3, 4, 5, 6, 7, 8, 9, 10, 11, 12}
  OBVIOUS
<1>21. CASE m \in {1, 2}
  BY <1>5, <1>6, <1>17, <1>18, <1>19, <1>21
<1>22. CASE m \in {3, 4, 5, 6, 7, 8, 9, 10, 11, 12}
  <2>1. MonthDays(y, m) = DaysBefore[m] + l
    BY <1>7, <1>8, <1>9, <1>10, <1>11, <1>12, <1>13, <1>14, <1>15, <1>16, <1>17, <1>19, <1>22
  <2>2. OneIf(m > 2 /\ IsLeap(y)) = l
    BY <1>18, <1>22
  <2> QED BY <2>1, <2>2
<1> QED BY <1>20, <1>21, <1>22

\* A date that there is, from 1970 on.
Date(d) ==
    /\ d \in [year : Nat, mon : 1 .. 12, mday : 1 .. 31,
              hour : 0 .. 23, min : 0 .. 59, sec : 0 .. 59]
    /\ d.year >= 1970
    /\ d.mday <= MonthLength(d.year, d.mon)

\* What time() makes of a moment: months and days count from zero.
AsRead(d) ==
    [year |-> d.year, mon |-> d.mon - 1, mday |-> d.mday - 1,
     hour |-> d.hour, min |-> d.min, sec |-> d.sec]

\* time() converts every moment to the seconds since 1970.
LEMMA SecondsAre ==
    ASSUME NEW d, Date(d)
    PROVE  /\ Seconds(AsRead(d)) = SecondsSince1970(d)
           /\ DaysSince1970(d) \in Int
<1> DEFINE y == d.year
           m == d.mon
           l == LeapsSince1600(y)
           b == DaysBefore[m]
           o == OneIf(m > 2 /\ IsLeap(y))
           k == d.mday
<1>1. /\ y \in Nat /\ y >= 1970 /\ m \in 1 .. 12 /\ k \in 1 .. 31
      /\ d.hour \in Int /\ d.min \in Int /\ d.sec \in Int
  BY SMT DEF Date
<1>2. l \in Int
  BY <1>1, SMT DEF LeapsSince1600
<1>3. b \in Int /\ o \in Int
  <2>1. b \in Int
    BY <1>1, SMT DEF DaysBefore
  <2>2. o \in Int
    BY SMT DEF OneIf
  <2> QED BY <2>1, <2>2
<1>4. LeapYears(y) = l - 90
  BY <1>1, LeapYearsAre, SMT
<1>5. MonthDays(y, m) = b + o
  BY <1>1, MonthDaysAre, SMT
<1>6. IsLeap(y - 1600) <=> IsLeap(y)
  BY <1>1, SMT DEF IsLeap
<1>7. LET r == AsRead(d)
      IN  /\ r.year = y /\ r.mon + 1 = m /\ (r.mon > 1 <=> m > 2) /\ r.mday = k - 1
          /\ r.hour = d.hour /\ r.min = d.min /\ r.sec = d.sec
  BY <1>1, SMT DEF AsRead
<1> DEFINE r == AsRead(d)
<1>8. (IF r.mon > 1 /\ IsLeap(y - 1600) THEN 1 ELSE 0) = o
  BY <1>6, <1>7, SMT DEF OneIf
<1>9. (y - 1600 - 1) = y - 1601
  BY <1>1, SMT
<1>10. Days(r) = (y - 1600) * 365 + l - 135140 + b + o + (k - 1)
  <2>1. Days(r) = (y - 1600) * 365
                   + ((y - 1600 - 1) \div 4 - (y - 1600 - 1) \div 100
                        + (y - 1600 - 1) \div 400 + 1)
                   - 135140 + DaysBefore[r.mon + 1]
                   + (IF r.mon > 1 /\ IsLeap(y - 1600) THEN 1 ELSE 0) + r.mday
    BY <1>7 DEF Days
  <2>2. (y - 1600 - 1) \div 4 - (y - 1600 - 1) \div 100 + (y - 1600 - 1) \div 400 + 1 = l
    BY <1>9 DEF LeapsSince1600
  <2> HIDE DEF l, b, o, r
  <2>3. DaysBefore[r.mon + 1] = b
    BY <1>7 DEF b, r
  <2> HIDE DEF y, k
  <2> QED BY <1>1, <1>2, <1>3, <1>7, <1>8, <2>1, <2>2, <2>3, SMT DEF r
<1>11. DaysSince1970(d) = 365 * (y - 1970) + (l - 90) + (b + o) + k - 1
  BY <1>4, <1>5, SMT DEF DaysSince1970
<1> HIDE DEF l, b, o, y, k, m
<1>12. Days(r) = DaysSince1970(d) /\ DaysSince1970(d) \in Int
  BY <1>1, <1>2, <1>3, <1>10, <1>11, SMT
<1> QED BY <1>7, <1>12 DEF Seconds, SecondsSince1970

Moment(y, m, k, h, n, x) ==
    [year |-> y, mon |-> m, mday |-> k, hour |-> h, min |-> n, sec |-> x]

\* Several fields of a date or of a reading are set.
DayMonth(d, a, b) == [d EXCEPT !.mday = a, !.mon = b]
DayMonthYear(d, a, b, c) == [d EXCEPT !.mday = a, !.mon = b, !.year = c]
SecMin(d, a, b) == [d EXCEPT !.sec = a, !.min = b]
SecMinHour(d, a, b, c) == [d EXCEPT !.sec = a, !.min = b, !.hour = c]
YearMonthDay(d, a, b, c) == [d EXCEPT !.year = a, !.mon = b, !.mday = c]
HourMinSec(d, a, b, c) == [d EXCEPT !.hour = a, !.min = b, !.sec = c]

\* What setting two of the fields gives.
LEMMA TwoFields ==
    ASSUME NEW y, NEW m, NEW k, NEW h, NEW n, NEW x, NEW a, NEW b
    PROVE  LET d == Moment(y, m, k, h, n, x)
           IN  /\ DayMonth(d, a, b) = Moment(y, b, a, h, n, x)
               /\ SecMin(d, a, b) = Moment(y, m, k, h, b, a)
<1>1. DayMonth(Moment(y, m, k, h, n, x), a, b) = Moment(y, b, a, h, n, x)
  <2>1. [Moment(y, m, k, h, n, x) EXCEPT !.mday = a] = Moment(y, m, a, h, n, x)
    BY DEF Moment
  <2>2. [Moment(y, m, a, h, n, x) EXCEPT !.mon = b] = Moment(y, b, a, h, n, x)
    BY DEF Moment
  <2> QED BY <2>1, <2>2, Zenon DEF DayMonth
<1>2. SecMin(Moment(y, m, k, h, n, x), a, b) = Moment(y, m, k, h, b, a)
  <2>1. [Moment(y, m, k, h, n, x) EXCEPT !.sec = a] = Moment(y, m, k, h, n, a)
    BY DEF Moment
  <2>2. [Moment(y, m, k, h, n, a) EXCEPT !.min = b] = Moment(y, m, k, h, b, a)
    BY DEF Moment
  <2> QED BY <2>1, <2>2, Zenon DEF SecMin
<1> QED BY <1>1, <1>2, Zenon

\* What setting three of them gives.
LEMMA ThreeFields ==
    ASSUME NEW y, NEW m, NEW k, NEW h, NEW n, NEW x, NEW a, NEW b, NEW c
    PROVE  LET d == Moment(y, m, k, h, n, x)
           IN  /\ DayMonthYear(d, a, b, c) = Moment(c, b, a, h, n, x)
               /\ SecMinHour(d, a, b, c) = Moment(y, m, k, c, b, a)
               /\ YearMonthDay(d, a, b, c) = Moment(a, b, c, h, n, x)
               /\ HourMinSec(d, a, b, c) = Moment(y, m, k, a, b, c)
<1>1. DayMonthYear(Moment(y, m, k, h, n, x), a, b, c) = Moment(c, b, a, h, n, x)
  <2>1. [Moment(y, m, k, h, n, x) EXCEPT !.mday = a] = Moment(y, m, a, h, n, x)
    BY DEF Moment
  <2>2. [Moment(y, m, a, h, n, x) EXCEPT !.mon = b] = Moment(y, b, a, h, n, x)
    BY DEF Moment
  <2>3. [Moment(y, b, a, h, n, x) EXCEPT !.year = c] = Moment(c, b, a, h, n, x)
    BY DEF Moment
  <2> QED BY <2>1, <2>2, <2>3, Zenon DEF DayMonthYear
<1>2. SecMinHour(Moment(y, m, k, h, n, x), a, b, c) = Moment(y, m, k, c, b, a)
  <2>1. [Moment(y, m, k, h, n, x) EXCEPT !.sec = a] = Moment(y, m, k, h, n, a)
    BY DEF Moment
  <2>2. [Moment(y, m, k, h, n, a) EXCEPT !.min = b] = Moment(y, m, k, h, b, a)
    BY DEF Moment
  <2>3. [Moment(y, m, k, h, b, a) EXCEPT !.hour = c] = Moment(y, m, k, c, b, a)
    BY DEF Moment
  <2> QED BY <2>1, <2>2, <2>3, Zenon DEF SecMinHour
<1>3. YearMonthDay(Moment(y, m, k, h, n, x), a, b, c) = Moment(a, b, c, h, n, x)
  <2>1. [Moment(y, m, k, h, n, x) EXCEPT !.year = a] = Moment(a, m, k, h, n, x)
    BY DEF Moment
  <2>2. [Moment(a, m, k, h, n, x) EXCEPT !.mon = b] = Moment(a, b, k, h, n, x)
    BY DEF Moment
  <2>3. [Moment(a, b, k, h, n, x) EXCEPT !.mday = c] = Moment(a, b, c, h, n, x)
    BY DEF Moment
  <2> QED BY <2>1, <2>2, <2>3, Zenon DEF YearMonthDay
<1>4. HourMinSec(Moment(y, m, k, h, n, x), a, b, c) = Moment(y, m, k, a, b, c)
  <2>1. [Moment(y, m, k, h, n, x) EXCEPT !.hour = a] = Moment(y, m, k, a, n, x)
    BY DEF Moment
  <2>2. [Moment(y, m, k, a, n, x) EXCEPT !.min = b] = Moment(y, m, k, a, b, x)
    BY DEF Moment
  <2>3. [Moment(y, m, k, a, b, x) EXCEPT !.sec = c] = Moment(y, m, k, a, b, c)
    BY DEF Moment
  <2> QED BY <2>1, <2>2, <2>3, Zenon DEF HourMinSec
<1> QED BY <1>1, <1>2, <1>3, <1>4, Zenon

\* The calendar's next day is a day later.
LEMMA NextDayIs ==
    ASSUME NEW d, Date(d)
    PROVE  /\ Date(NextDay(d))
           /\ DaysSince1970(NextDay(d)) = DaysSince1970(d) + 1
           /\ NextDay(d).hour = d.hour /\ NextDay(d).min = d.min /\ NextDay(d).sec = d.sec
<1> DEFINE y == d.year
           m == d.mon
           k == d.mday
           e == NextDay(d)
           ly == LeapYears(y)
           md == MonthDays(y, m)
<1>1. /\ y \in Nat /\ y >= 1970 /\ m \in 1 .. 12 /\ k \in 1 .. 31 /\ k <= MonthLength(y, m)
      /\ d.hour \in 0 .. 23 /\ d.min \in 0 .. 59 /\ d.sec \in 0 .. 59
  BY SMT DEF Date
<1>2. d = [year |-> y, mon |-> m, mday |-> k, hour |-> d.hour, min |-> d.min, sec |-> d.sec]
  BY SMT DEF Date
<1>3. DaysSince1970(d) = 365 * (y - 1970) + ly + md + k - 1
  BY SMT DEF DaysSince1970
<1>4. ly \in Nat /\ LeapYears(y + 1) = ly + OneIf(IsLeap(y))
  BY <1>1, YearAdds, SMT
<1>5. MonthLength(y, m) \in 28 .. 31
  BY MonthLengthIs
<1>6. \A n \in 1 .. 12 : DaysBefore[n] \in Nat
  BY DEF DaysBefore
<1>7. OneIf(IsLeap(y)) \in Nat /\ OneIf(m > 2 /\ IsLeap(y)) \in Nat
  BY DEF OneIf
<1>8. md = DaysBefore[m] + OneIf(m > 2 /\ IsLeap(y))
  BY <1>1, MonthDaysAre, SMT
<1>9. md \in Nat
  BY <1>1, <1>6, <1>7, <1>8, SMT
<1>10. CASE k < MonthLength(y, m)
  <2>1. e = [d EXCEPT !.mday = @ + 1]
    BY <1>10 DEF NextDay
  <2>2. e = [year |-> y, mon |-> m, mday |-> k + 1, hour |-> d.hour, min |-> d.min,
             sec |-> d.sec]
    BY <1>2, <2>1, SMT
  <2> HIDE DEF e, y, m, k
  <2>3. e.year = y /\ e.mon = m /\ e.mday = k + 1 /\ e.hour = d.hour /\ e.min = d.min
        /\ e.sec = d.sec
    BY <2>2
  <2>4. Date(e)
    BY <1>1, <1>5, <1>10, <2>2, <2>3, SMT DEF Date
  <2>5. DaysSince1970(e) = 365 * (y - 1970) + ly + md + (k + 1) - 1
    BY <2>3, SMT DEF DaysSince1970
  <2>6. DaysSince1970(e) = DaysSince1970(d) + 1
    <3> HIDE DEF ly, md
    <3> QED BY <1>1, <1>3, <1>4, <1>9, <2>5, SMT
  <2> QED BY <2>3, <2>4, <2>6 DEF e
<1>11. CASE k = MonthLength(y, m) /\ m < 12
  <2>0. ~(k < MonthLength(y, m)) /\ m < 12
    BY <1>5, <1>11, SMT
  <2>1. e = [d EXCEPT !.mday = 1, !.mon = m + 1]
    BY <2>0, Zenon DEF NextDay
  <2>2. e = Moment(y, m + 1, 1, d.hour, d.min, d.sec)
    <3> DEFINE dm == m + 1
               dd == 1
               h == d.hour
               n == d.min
               x == d.sec
    <3>1. e = DayMonth(Moment(y, m, k, h, n, x), dd, dm)
      BY <1>2, <2>1, Zenon DEF Moment, DayMonth
    <3> HIDE DEF dm, dd, e, y, m, k, h, n, x
    <3>2. e = Moment(y, dm, dd, h, n, x)
      BY <3>1, TwoFields
    <3> QED BY <3>2 DEF dm, dd, h, n, x
  <2> HIDE DEF e, y, m, k
  <2>3. e.year = y /\ e.mon = m + 1 /\ e.mday = 1 /\ e.hour = d.hour /\ e.min = d.min
        /\ e.sec = d.sec
    BY <2>2 DEF Moment
  <2>4. Date(e)
    <3>1. m + 1 \in 1 .. 12 /\ 1 \in 1 .. 31
      BY <1>1, <1>11, SMT
    <3>2. 1 <= MonthLength(y, m + 1)
      BY MonthLengthIs, SMT
    <3> QED BY <1>1, <2>2, <2>3, <3>1, <3>2, SMT DEF Date, Moment
  <2>5. DaysSince1970(e) = 365 * (y - 1970) + ly + MonthDays(y, m + 1) + 1 - 1
    BY <2>3, SMT DEF DaysSince1970
  <2>6. MonthDays(y, m + 1) = DaysBefore[m + 1] + OneIf(m + 1 > 2 /\ IsLeap(y))
    <3>1. m + 1 \in 1 .. 12
      BY <1>1, <1>11, SMT
    <3> QED BY <3>1, MonthDaysAre, SMT
  <2>7. MonthDays(y, m + 1) = md + k
    <3>1. m \in {1, 2, 3, 4, 5, 6, 7, 8, 9, 10, 11}
      BY <1>1, <1>11, SMT
    <3>2. DaysBefore[m + 1] + OneIf(m + 1 > 2 /\ IsLeap(y))
            = DaysBefore[m] + OneIf(m > 2 /\ IsLeap(y)) + MonthLength(y, m)
      <4>1. CASE m = 1
        BY <4>1, SMT DEF DaysBefore, OneIf, MonthLength
      <4>2. CASE m = 2
        BY <4>2, SMT DEF DaysBefore, OneIf, MonthLength
      <4>3. CASE m \in {3, 4, 5, 6, 7, 8, 9, 10, 11}
        <5>1. DaysBefore[m + 1] = DaysBefore[m] + MonthLength(y, m)
          BY <4>3, SMT DEF DaysBefore, MonthLength
        <5>2. OneIf(m + 1 > 2 /\ IsLeap(y)) = OneIf(m > 2 /\ IsLeap(y))
          BY <4>3, SMT DEF OneIf
        <5> QED BY <1>1, <1>5, <1>6, <1>7, <5>1, <5>2, SMT
      <4> QED BY <3>1, <4>1, <4>2, <4>3
    <3> QED BY <1>8, <1>11, <2>6, <3>2, SMT
  <2>8. DaysSince1970(e) = DaysSince1970(d) + 1
    <3> HIDE DEF ly, md
    <3> QED BY <1>1, <1>3, <1>4, <1>9, <2>5, <2>7, SMT
  <2> QED BY <2>3, <2>4, <2>8 DEF e
<1>12. CASE k = MonthLength(y, m) /\ m = 12
  <2>0. ~(k < MonthLength(y, m)) /\ ~(m < 12)
    BY <1>5, <1>12, SMT
  <2>1. e = [d EXCEPT !.mday = 1, !.mon = 1, !.year = y + 1]
    BY <2>0, Zenon DEF NextDay
  <2>2. e = Moment(y + 1, 1, 1, d.hour, d.min, d.sec)
    <3> DEFINE dy == y + 1
               dd == 1
               h == d.hour
               n == d.min
               x == d.sec
    <3>1. e = DayMonthYear(Moment(y, m, k, h, n, x), dd, dd, dy)
      BY <1>2, <2>1, Zenon DEF Moment, DayMonthYear
    <3> HIDE DEF dy, dd, e, y, m, k, h, n, x
    <3>2. e = Moment(dy, dd, dd, h, n, x)
      BY <3>1, ThreeFields
    <3> QED BY <3>2 DEF dy, dd, h, n, x
  <2> HIDE DEF e, y, m, k
  <2>3. e.year = y + 1 /\ e.mon = 1 /\ e.mday = 1 /\ e.hour = d.hour /\ e.min = d.min
        /\ e.sec = d.sec
    BY <2>2 DEF Moment
  <2>4. Date(e)
    <3>1. y + 1 \in Nat /\ y + 1 >= 1970 /\ 1 \in 1 .. 31 /\ 1 \in 1 .. 12
      BY <1>1, SMT
    <3>2. 1 <= MonthLength(y + 1, 1)
      BY MonthLengthIs, SMT
    <3> QED BY <1>1, <2>2, <2>3, <3>1, <3>2, SMT DEF Date, Moment
  <2>5. MonthDays(y + 1, 1) = 0
    <3>1. MonthDays(y + 1, 1) = DaysBefore[1] + OneIf(1 > 2 /\ IsLeap(y + 1))
      BY MonthDaysAre, SMT
    <3> QED BY <3>1, SMT DEF DaysBefore, OneIf
  <2>6. DaysSince1970(e) = 365 * (y + 1 - 1970) + LeapYears(y + 1) + MonthDays(y + 1, 1) + 1 - 1
    <3> DEFINE base == 1970
    <3>1. DaysSince1970(e) = 365 * (e.year - base) + LeapYears(e.year) + MonthDays(e.year, e.mon)
                                + e.mday - 1
      BY SMT DEF DaysSince1970
    <3>2. LeapYears(e.year) = LeapYears(y + 1) /\ MonthDays(e.year, e.mon) = MonthDays(y + 1, 1)
      BY <2>3, SMT
    <3> DEFINE l1 == LeapYears(y + 1)
               m1 == MonthDays(y + 1, 1)
               n == DaysSince1970(e)
               ey == e.year
               ed == e.mday
    <3>3. ey = y + 1 /\ ed = 1
      BY <2>3
    <3>4. n = 365 * (ey - base) + l1 + m1 + ed - 1
      BY <3>1, <3>2, SMT
    <3>0. l1 \in Int /\ m1 \in Int /\ y \in Int /\ base \in Int
      BY <1>1, <1>4, <1>7, <2>5, SMT
    <3> HIDE DEF base, l1, m1, n, ey, ed
    <3>5. n = 365 * (y + 1 - base) + l1 + m1 + 1 - 1
      BY <3>0, <3>3, <3>4, SMT
    <3> QED BY <3>5 DEF base, l1, m1, n
  <2>7. md + k = 365 + OneIf(IsLeap(y))
    BY <1>8, <1>12, SMT DEF DaysBefore, OneIf, MonthLength
  <2>8. DaysSince1970(e) = DaysSince1970(d) + 1
    <3> HIDE DEF ly, md
    <3> QED BY <1>1, <1>3, <1>4, <1>7, <1>9, <2>5, <2>6, <2>7, SMT
  <2> QED BY <2>3, <2>4, <2>8 DEF e
<1>13. k < MonthLength(y, m) \/ (k = MonthLength(y, m) /\ m < 12) \/ (k = MonthLength(y, m) /\ m = 12)
  BY <1>1, <1>5, SMT
<1> QED BY <1>10, <1>11, <1>12, <1>13, Zenon

\* The clock's next second is a second later.
LEMMA NextSecondIs ==
    ASSUME NEW d, Date(d)
    PROVE  /\ Date(NextSecond(d))
           /\ SecondsSince1970(NextSecond(d)) = SecondsSince1970(d) + 1
           /\ SecondsSince1970(d) \in Int
<1> DEFINE y == d.year
           m == d.mon
           k == d.mday
           h == d.hour
           n == d.min
           x == d.sec
           e == NextSecond(d)
           t == DaysSince1970(d)
           l == MonthLength(y, m)
           Later(f, a, b, c) == /\ a \in 0 .. 23 /\ b \in 0 .. 59 /\ c \in 0 .. 59
                                /\ f = Moment(y, m, k, a, b, c)
           Dated(f, a, b, c) == /\ Date(f)
                                /\ SecondsSince1970(f) = ((t * 24 + a) * 60 + b) * 60 + c
                                /\ DaysSince1970(f) = t
<1>1. /\ y \in Nat /\ y >= 1970 /\ m \in 1 .. 12 /\ k \in 1 .. 31 /\ k <= l
      /\ h \in 0 .. 23 /\ n \in 0 .. 59 /\ x \in 0 .. 59
  BY SMT DEF Date
<1>2. d = Moment(y, m, k, h, n, x)
  BY SMT DEF Date, Moment
<1>12. h \in 0 .. 23 /\ n \in 0 .. 59 /\ x \in 0 .. 59
  BY <1>1
<1>3. t \in Int
  BY SecondsAre
<1>4. SecondsSince1970(d) = ((t * 24 + h) * 60 + n) * 60 + x
  BY DEF SecondsSince1970
<1>5. SecondsSince1970(d) \in Int
  <2> HIDE DEF t, h, n, x
  <2> QED BY <1>1, <1>3, <1>4, SMT
<1>6. ASSUME NEW f, NEW a, NEW b, NEW c, Later(f, a, b, c)
      PROVE  Dated(f, a, b, c)
  <2>1. f.year = y /\ f.mon = m /\ f.mday = k /\ f.hour = a /\ f.min = b /\ f.sec = c
    BY <1>6 DEF Moment
  <2>2. DaysSince1970(f) = t
    BY <2>1, SMT DEF DaysSince1970
  <2> HIDE DEF t, y, m, k
  <2>3. SecondsSince1970(f) = ((t * 24 + a) * 60 + b) * 60 + c
    BY <2>1, <2>2, SMT DEF SecondsSince1970
  <2>4. Date(f)
    BY <1>1, <1>6, <2>1, SMT DEF Date, Moment
  <2> QED BY <2>2, <2>3, <2>4
<1> HIDE DEF Later, Dated
<1>7. CASE x < 59
  <2>1. e = [d EXCEPT !.sec = x + 1]
    BY <1>7, Zenon DEF NextSecond
  <2>2. e = Moment(y, m, k, h, n, x + 1)
    <3> DEFINE c == x + 1
    <3>1. e = [Moment(y, m, k, h, n, x) EXCEPT !.sec = c]
      BY <1>2, <2>1, Zenon
    <3> HIDE DEF y, m, k, h, n, x, c, e
    <3>2. e = Moment(y, m, k, h, n, c)
      BY <3>1 DEF Moment
    <3> QED BY <3>2 DEF c
  <2>3. x + 1 \in 0 .. 59
    BY <1>1, <1>7, SMT
  <2> HIDE DEF y, m, k, h, n, x, t, e
  <2>4. Date(e) /\ SecondsSince1970(e) = ((t * 24 + h) * 60 + n) * 60 + (x + 1)
    <3>1. Later(e, h, n, x + 1)
      BY <1>12, <2>2, <2>3, Zenon DEF Later
    <3>2. Dated(e, h, n, x + 1)
      BY <1>6, <3>1, Zenon
    <3> QED BY <3>2, Zenon DEF Dated
  <2>5. SecondsSince1970(e) = SecondsSince1970(d) + 1
    BY <1>1, <1>3, <1>4, <2>4, SMT
  <2> QED BY <1>5, <2>4, <2>5 DEF e
<1>8. CASE x = 59 /\ n < 59
  <2>1. e = SecMin(d, 0, n + 1)
    <3>1. ~(x < 59) /\ n < 59
      BY <1>8
    <3> QED BY <3>1, Zenon DEF NextSecond, SecMin
  <2>2. e = Moment(y, m, k, h, n + 1, 0)
    <3> DEFINE b == n + 1
               c == 0
    <3>1. e = SecMin(Moment(y, m, k, h, n, x), c, b)
      BY <1>2, <2>1, Zenon
    <3> HIDE DEF y, m, k, h, n, x, b, c, e
    <3>2. e = Moment(y, m, k, h, b, c)
      BY <3>1, TwoFields
    <3> QED BY <3>2 DEF b, c
  <2>3. n + 1 \in 0 .. 59 /\ 0 \in 0 .. 59
    BY <1>1, <1>8, SMT
  <2> HIDE DEF y, m, k, h, n, x, t, e
  <2>4. Date(e) /\ SecondsSince1970(e) = ((t * 24 + h) * 60 + (n + 1)) * 60 + 0
    <3> DEFINE b == n + 1
               c == 0
    <3>1. b \in 0 .. 59 /\ c \in 0 .. 59 /\ e = Moment(y, m, k, h, b, c)
      BY <2>2, <2>3
    <3> HIDE DEF b, c
    <3>2. Later(e, h, b, c)
      BY <1>12, <3>1, Zenon DEF Later
    <3>3. Dated(e, h, b, c)
      BY <1>6, <3>2, Zenon
    <3>4. Date(e) /\ SecondsSince1970(e) = ((t * 24 + h) * 60 + b) * 60 + c
      BY <3>3, Zenon DEF Dated
    <3> QED BY <3>4 DEF b, c
  <2>5. SecondsSince1970(e) = SecondsSince1970(d) + 1
    BY <1>1, <1>3, <1>4, <1>8, <2>4, SMT
  <2> QED BY <1>5, <2>4, <2>5 DEF e
<1>9. CASE x = 59 /\ n = 59 /\ h < 23
  <2>1. e = SecMinHour(d, 0, 0, h + 1)
    <3>1. ~(x < 59) /\ ~(n < 59) /\ h < 23
      BY <1>9
    <3> QED BY <3>1, Zenon DEF NextSecond, SecMinHour
  <2>2. e = Moment(y, m, k, h + 1, 0, 0)
    <3> DEFINE b == h + 1
               c == 0
    <3>1. e = SecMinHour(Moment(y, m, k, h, n, x), c, c, b)
      BY <1>2, <2>1, Zenon
    <3> HIDE DEF y, m, k, h, n, x, b, c, e
    <3>2. e = Moment(y, m, k, b, c, c)
      BY <3>1, ThreeFields
    <3> QED BY <3>2 DEF b, c
  <2>3. h + 1 \in 0 .. 23 /\ 0 \in 0 .. 59
    BY <1>1, <1>9, SMT
  <2> HIDE DEF y, m, k, h, n, x, t, e
  <2>4. Date(e) /\ SecondsSince1970(e) = ((t * 24 + (h + 1)) * 60 + 0) * 60 + 0
    <3> DEFINE b == h + 1
               c == 0
    <3>1. b \in 0 .. 23 /\ c \in 0 .. 59 /\ e = Moment(y, m, k, b, c, c)
      BY <2>2, <2>3
    <3> HIDE DEF b, c
    <3>2. Later(e, b, c, c)
      BY <3>1, Zenon DEF Later
    <3>3. Dated(e, b, c, c)
      BY <1>6, <3>2, Zenon
    <3>4. Date(e) /\ SecondsSince1970(e) = ((t * 24 + b) * 60 + c) * 60 + c
      BY <3>3, Zenon DEF Dated
    <3> QED BY <3>4 DEF b, c
  <2>5. SecondsSince1970(e) = SecondsSince1970(d) + 1
    BY <1>1, <1>3, <1>4, <1>9, <2>4, SMT
  <2> QED BY <1>5, <2>4, <2>5 DEF e
<1>10. CASE x = 59 /\ n = 59 /\ h = 23
  <2> DEFINE f == SecMinHour(d, 0, 0, 0)
  <2>1. e = NextDay(f)
    <3>1. ~(x < 59) /\ ~(n < 59) /\ ~(h < 23)
      BY <1>10
    <3> QED BY <3>1, Zenon DEF NextSecond, SecMinHour
  <2>2. f = Moment(y, m, k, 0, 0, 0)
    <3> DEFINE c == 0
    <3>1. f = SecMinHour(Moment(y, m, k, h, n, x), c, c, c)
      BY <1>2, Zenon
    <3> HIDE DEF y, m, k, h, n, x, c, f
    <3>2. f = Moment(y, m, k, c, c, c)
      BY <3>1, ThreeFields
    <3> QED BY <3>2 DEF c
  <2>3. 0 \in 0 .. 23 /\ 0 \in 0 .. 59
    OBVIOUS
  <2>4. f.hour = 0 /\ f.min = 0 /\ f.sec = 0
    BY <2>2 DEF Moment
  <2> HIDE DEF y, m, k, h, n, x, t, e, f
  <2>5. Date(f) /\ DaysSince1970(f) = t
    <3>1. Later(f, 0, 0, 0)
      BY <2>2, <2>3, Zenon DEF Later
    <3>2. Dated(f, 0, 0, 0)
      BY <1>6, <3>1, Zenon
    <3> QED BY <3>2, Zenon DEF Dated
  <2>6. Date(e) /\ DaysSince1970(e) = t + 1 /\ e.hour = 0 /\ e.min = 0 /\ e.sec = 0
    BY <2>1, <2>4, <2>5, NextDayIs
  <2>7. SecondsSince1970(e) = (((t + 1) * 24 + 0) * 60 + 0) * 60 + 0
    BY <2>6, SMT DEF SecondsSince1970
  <2>8. SecondsSince1970(e) = SecondsSince1970(d) + 1
    BY <1>1, <1>3, <1>4, <1>10, <2>7, SMT
  <2> QED BY <1>5, <2>6, <2>8 DEF e
<1>11. \/ x < 59
       \/ x = 59 /\ n < 59
       \/ x = 59 /\ n = 59 /\ h < 23
       \/ x = 59 /\ n = 59 /\ h = 23
  BY <1>1, SMT
<1> QED BY <1>7, <1>8, <1>9, <1>10, <1>11, Zenon

----------------------------------------------------------------------------
(* The two readings *)

\* time() reads the two digits of a register back (time.c 20-41).
LEMMA DigitsOf ==
    ASSUME NEW n \in Nat
    PROVE  Digits(Bcd(n)) = n
<1>1. /\ (16 * (n \div 10) + (n % 10)) \div 16 = n \div 10
      /\ (16 * (n \div 10) + (n % 10)) % 16 = n % 10
      /\ (n \div 10) * 10 + (n % 10) = n
  BY SMT
<1> QED BY <1>1, SMT DEF Digits, Bcd

IsReading(tm) ==
    tm \in [year : Int, mon : Int, mday : Int, hour : Int, min : Int, sec : Int]

DateOf(tm, d) == tm.year = d.year /\ tm.mon = d.mon - 1 /\ tm.mday = d.mday - 1

TimeOf(tm, d) == tm.hour = d.hour /\ tm.min = d.min /\ tm.sec = d.sec

\* A reading is made of its six fields.
LEMMA IsMoment ==
    ASSUME NEW tm, IsReading(tm)
    PROVE  tm = Moment(tm.year, tm.mon, tm.mday, tm.hour, tm.min, tm.sec)
BY DEF IsReading, Moment

\* The date that is read is that of the clock, and the time of the reading stays.
LEMMA DateRead ==
    ASSUME NEW tm, IsReading(tm), Date(rtc)
    PROVE  LET r == WithDate(tm, DateRegisters)
           IN  /\ IsReading(r)
               /\ DateOf(r, rtc)
               /\ r.hour = tm.hour /\ r.min = tm.min /\ r.sec = tm.sec
<1> DEFINE regs == DateRegisters
           a == Digits(regs.ch) * 100 + Digits(regs.cl)
           b == Digits(regs.dh) - 1
           c == Digits(regs.dl) - 1
           r == WithDate(tm, DateRegisters)
           y == tm.year
           m == tm.mon
           k == tm.mday
           h == tm.hour
           n == tm.min
           x == tm.sec
<1>1. rtc.year \in Nat /\ rtc.mon \in Nat /\ rtc.mday \in Nat
  BY SMT DEF Date
<1>2. /\ regs.ch = Bcd(rtc.year \div 100) /\ regs.cl = Bcd(rtc.year % 100)
      /\ regs.dh = Bcd(rtc.mon) /\ regs.dl = Bcd(rtc.mday)
  BY DEF DateRegisters
<1>3. rtc.year \div 100 \in Nat /\ rtc.year % 100 \in Nat
      /\ (rtc.year \div 100) * 100 + (rtc.year % 100) = rtc.year
  BY <1>1, SMT
<1>4. a = rtc.year /\ b = rtc.mon - 1 /\ c = rtc.mday - 1
  BY <1>1, <1>2, <1>3, DigitsOf, SMT
<1>5. a \in Int /\ b \in Int /\ c \in Int /\ h \in Int /\ n \in Int /\ x \in Int
  BY <1>1, <1>4 DEF IsReading
<1>6. r = YearMonthDay(Moment(y, m, k, h, n, x), a, b, c)
  BY IsMoment, Zenon DEF WithDate, YearMonthDay
<1> HIDE DEF a, b, c, r, y, m, k, h, n, x
<1>7. r = Moment(a, b, c, h, n, x)
  BY <1>6, ThreeFields
<1>8. r.year = a /\ r.mon = b /\ r.mday = c /\ r.hour = h /\ r.min = n /\ r.sec = x
  BY <1>7 DEF Moment
<1>9. IsReading(r)
  BY <1>5, <1>7 DEF IsReading, Moment
<1>10. DateOf(r, rtc)
  BY <1>4, <1>8, Zenon DEF DateOf
<1> QED BY <1>8, <1>9, <1>10 DEF r, h, n, x

\* The same of the time.
LEMMA TimeRead ==
    ASSUME NEW tm, IsReading(tm), Date(rtc)
    PROVE  LET r == WithTime(tm, TimeRegisters)
           IN  /\ IsReading(r)
               /\ TimeOf(r, rtc)
               /\ r.year = tm.year /\ r.mon = tm.mon /\ r.mday = tm.mday
<1> DEFINE regs == TimeRegisters
           a == Digits(regs.ch)
           b == Digits(regs.cl)
           c == Digits(regs.dh)
           r == WithTime(tm, TimeRegisters)
           y == tm.year
           m == tm.mon
           k == tm.mday
           h == tm.hour
           n == tm.min
           x == tm.sec
<1>1. rtc.hour \in Nat /\ rtc.min \in Nat /\ rtc.sec \in Nat
  BY SMT DEF Date
<1>2. regs.ch = Bcd(rtc.hour) /\ regs.cl = Bcd(rtc.min) /\ regs.dh = Bcd(rtc.sec)
  BY DEF TimeRegisters
<1>3. a = rtc.hour /\ b = rtc.min /\ c = rtc.sec
  BY <1>1, <1>2, DigitsOf, SMT
<1>4. a \in Int /\ b \in Int /\ c \in Int /\ y \in Int /\ m \in Int /\ k \in Int
  BY <1>1, <1>3 DEF IsReading
<1>5. r = HourMinSec(Moment(y, m, k, h, n, x), a, b, c)
  BY IsMoment, Zenon DEF WithTime, HourMinSec
<1> HIDE DEF a, b, c, r, y, m, k, h, n, x
<1>6. r = Moment(y, m, k, a, b, c)
  BY <1>5, ThreeFields
<1>7. r.year = y /\ r.mon = m /\ r.mday = k /\ r.hour = a /\ r.min = b /\ r.sec = c
  BY <1>6 DEF Moment
<1>8. IsReading(r)
  BY <1>4, <1>6 DEF IsReading, Moment
<1>9. TimeOf(r, rtc)
  BY <1>3, <1>7, Zenon DEF TimeOf
<1> QED BY <1>7, <1>8, <1>9 DEF r, y, m, k

\* How often the clock has been looked at in this call.
Looks ==
    CASE call = "time1" -> 1
      [] call = "date2" -> 2
      [] call = "time2" -> 3
      [] call = "done"  -> 4
      [] OTHER          -> 0

\* The first k looks of this call saw the clock at p, the others see it where it is;
\* since then at most one second has gone by.
Saw(p, k) ==
    /\ Date(p)
    /\ \/ elapsed = began /\ p = rtc
       \/ /\ elapsed = began + 1 /\ seen = began
          /\ rtc = NextSecond(p)
          /\ k <= Looks
    /\ Looks >= 1 => DateOf(tm1, IF k >= 1 THEN p ELSE rtc)
    /\ Looks >= 2 => TimeOf(tm1, IF k >= 2 THEN p ELSE rtc)
    /\ Looks >= 3 => DateOf(tm2, IF k >= 3 THEN p ELSE rtc)
    /\ Looks >= 4 => TimeOf(tm2, IF k >= 4 THEN p ELSE rtc)

ClockTyped ==
    /\ Date(rtc) /\ IsReading(tm1) /\ IsReading(tm2)
    /\ elapsed \in Nat /\ began \in Nat /\ seen \in Nat
    /\ call \in {"idle", "date1", "time1", "date2", "time2", "done"}

ClockInv ==
    /\ ClockTyped
    /\ elapsed \in {seen, seen + 1}
    /\ call # "idle" => \E p : \E k \in 0 .. 4 : Saw(p, k)

Since1970 == \A d \in Moments : d.year >= 1970

\* Before the first call nothing has been read.
LEMMA ClockStarts ==
    ASSUME Since1970, ClockInit
    PROVE  ClockInv
<1>1. Date(rtc)
  BY MomentAssumption, SMT DEF ClockInit, Since1970, Date
<1>2. IsReading(NoReading)
  BY DEF IsReading, NoReading
<1> QED BY <1>1, <1>2 DEF ClockInit, ClockInv, ClockTyped

\* A call that begins has seen nothing.
LEMMA CallKeeps ==
    ASSUME ClockInv, CallTime
    PROVE  ClockInv'
<1>1. Saw(rtc, 0)'
  BY DEF Saw, CallTime, Looks, ClockInv, ClockTyped
<1>2. 0 \in 0 .. 4
  OBVIOUS
<1>3. \E p : \E k \in 0 .. 4 : Saw(p, k)'
  BY <1>1, <1>2, Zenon
<1>4. ClockTyped' /\ (elapsed \in {seen, seen + 1})'
  BY DEF ClockInv, CallTime, ClockTyped
<1> QED BY <1>3, <1>4, Zenon DEF ClockInv

\* The call that ends began at most a second ago.
LEMMA ReturnKeeps ==
    ASSUME ClockInv, TimeReturned
    PROVE  ClockInv'
<1>1. call = "done" /\ call' = "idle" /\ seen' = began
      /\ UNCHANGED <<rtc, elapsed, began>> /\ IsReading(tm1') /\ IsReading(tm2')
  BY DEF TimeReturned, IsReading, NoReading
<1>2. PICK p : \E k \in 0 .. 4 : Saw(p, k)
  BY <1>1 DEF ClockInv
<1>3. PICK k \in 0 .. 4 : Saw(p, k)
  BY <1>2
<1>4. elapsed = began \/ elapsed = began + 1
  BY <1>3, Zenon DEF Saw
<1> QED BY <1>1, <1>4 DEF ClockInv, ClockTyped

\* A second goes by: what has been seen so far was seen at the second before.
LEMMA TickKeeps ==
    ASSUME ClockInv, Tick
    PROVE  ClockInv'
<1>1. /\ seen = elapsed /\ rtc' = NextSecond(rtc) /\ elapsed' = elapsed + 1
      /\ UNCHANGED <<call, tm1, tm2, began, seen>>
  BY DEF Tick
<1>2. ClockTyped
  BY DEF ClockInv
<1>3. ClockTyped' /\ (elapsed \in {seen, seen + 1})'
  <2>1. Date(rtc')
    BY <1>1, <1>2, NextSecondIs, Zenon DEF ClockTyped
  <2>2. Date(rtc)'
    BY <2>1
  <2> QED BY <1>1, <1>2, <2>2 DEF ClockTyped, IsReading
<1>4. ASSUME call # "idle" PROVE \E p : \E k \in 0 .. 4 : Saw(p, k)'
  <2>1. PICK q : \E j \in 0 .. 4 : Saw(q, j)
    BY <1>4 DEF ClockInv
  <2>2. PICK j \in 0 .. 4 : Saw(q, j)
    BY <2>1
  <2>3. elapsed = began /\ q = rtc
    BY <1>1, <1>2, <2>2, SMT DEF Saw, ClockTyped
  <2>4. /\ Looks >= 1 => DateOf(tm1, rtc)
        /\ Looks >= 2 => TimeOf(tm1, rtc)
        /\ Looks >= 3 => DateOf(tm2, rtc)
        /\ Looks >= 4 => TimeOf(tm2, rtc)
    BY <2>2, <2>3, Zenon DEF Saw
  <2>5. Looks \in 0 .. 4
    BY DEF Looks
  <2>6. PICK k \in 0 .. 4 : k = Looks
    BY <2>5
  <2>7. Looks' = k
    BY <1>1, <2>6, Zenon DEF Looks
  <2>8. /\ k >= 1 => DateOf(tm1', q)
        /\ k >= 2 => TimeOf(tm1', q)
        /\ k >= 3 => DateOf(tm2', q)
        /\ k >= 4 => TimeOf(tm2', q)
    BY <1>1, <2>3, <2>4, <2>6, Zenon
  <2>9. Date(q) /\ elapsed' = began' + 1 /\ seen' = began' /\ rtc' = NextSecond(q)
    BY <1>1, <2>2, <2>3, Zenon DEF Saw
  <2>10. k <= k
    OBVIOUS
  <2>11. Saw(q, k)'
    BY <2>7, <2>8, <2>9, <2>10, Zenon DEF Saw
  <2> QED BY <2>11, Zenon
<1> QED BY <1>1, <1>3, <1>4, Zenon DEF ClockInv

\* A look sees the clock where it is.
LEMMA LookKeeps ==
    ASSUME ClockInv, ReadClock
    PROVE  ClockInv'
<1>1. UNCHANGED <<rtc, elapsed, began, seen>>
  BY DEF ReadClock
<1>2. ClockTyped /\ elapsed \in {seen, seen + 1}
  BY DEF ClockInv
<1>3. Date(rtc) /\ IsReading(tm1) /\ IsReading(tm2)
  BY <1>2 DEF ClockTyped
<1>4. call \in {"date1", "time1", "date2", "time2"}
  BY DEF ReadClock
<1>5. PICK p : \E k \in 0 .. 4 : Saw(p, k)
  BY <1>4 DEF ClockInv
<1>6. PICK k \in 0 .. 4 : Saw(p, k)
  BY <1>5
<1>7. /\ Date(p)
      /\ \/ elapsed = began /\ p = rtc
         \/ elapsed = began + 1 /\ seen = began /\ rtc = NextSecond(p) /\ k <= Looks
  BY <1>6, Zenon DEF Saw
<1> DEFINE w(i) == IF k >= i THEN p ELSE rtc
<1>8. /\ Looks >= 1 => DateOf(tm1, w(1))
      /\ Looks >= 2 => TimeOf(tm1, w(2))
      /\ Looks >= 3 => DateOf(tm2, w(3))
      /\ Looks >= 4 => TimeOf(tm2, w(4))
  BY <1>6, Zenon DEF Saw
\* The look that comes now sees the clock, wherever the second went by.
<1>9. Looks \in 0 .. 3 /\ (p = rtc \/ k <= Looks)
  BY <1>4, <1>7 DEF Looks
<1>10. w(Looks + 1) = rtc
  BY <1>9
<1>11. ASSUME Looks' = Looks + 1, IsReading(tm1'), IsReading(tm2'), call' # "idle",
              call' \in {"idle", "date1", "time1", "date2", "time2", "done"},
              Looks' >= 1 => DateOf(tm1', w(1)),
              Looks' >= 2 => TimeOf(tm1', w(2)),
              Looks' >= 3 => DateOf(tm2', w(3)),
              Looks' >= 4 => TimeOf(tm2', w(4))
       PROVE  ClockInv'
  <2>1. ClockTyped' /\ (elapsed \in {seen, seen + 1})'
    <3>1. Date(rtc') /\ rtc' = rtc
      BY <1>1, <1>3, Zenon
    <3> QED BY <1>1, <1>2, <1>11, <3>1 DEF ClockTyped
  <2>2. \/ elapsed' = began' /\ p = rtc'
        \/ elapsed' = began' + 1 /\ seen' = began' /\ rtc' = NextSecond(p) /\ k <= Looks'
    <3>1. k <= Looks => k <= Looks'
      BY <1>9, <1>11
    <3> QED BY <1>1, <1>7, <3>1, Zenon
  <2>3. Saw(p, k)'
    BY <1>1, <1>7, <1>11, <2>2, Zenon DEF Saw
  <2> QED BY <2>1, <2>3, Zenon DEF ClockInv
<1>12. CASE call = "date1"
  <2>1. tm1' = WithDate(tm1, DateRegisters) /\ tm2' = tm2 /\ call' = "time1"
    BY <1>12 DEF ReadClock
  <2>2. Looks = 0 /\ Looks' = 1
    BY <1>12, <2>1 DEF Looks
  <2>3. IsReading(tm1') /\ DateOf(tm1', rtc)
    BY <1>3, <2>1, DateRead, Zenon
  <2>4. w(1) = rtc
    BY <1>10, <2>2
  <2>5. DateOf(tm1', w(1))
    BY <2>3, <2>4, Zenon
  <2>6. call' # "idle" /\ call' \in {"idle", "date1", "time1", "date2", "time2", "done"}
    BY <2>1
  <2>7. Looks' = Looks + 1 /\ ~(Looks' >= 2) /\ ~(Looks' >= 3) /\ ~(Looks' >= 4)
    BY <2>2
  <2> QED BY <1>3, <1>11, <2>1, <2>3, <2>5, <2>6, <2>7, Zenon
<1>13. CASE call = "time1"
  <2>1. tm1' = WithTime(tm1, TimeRegisters) /\ tm2' = tm2 /\ call' = "date2"
    BY <1>13 DEF ReadClock
  <2>2. Looks = 1 /\ Looks' = 2
    BY <1>13, <2>1 DEF Looks
  <2>3. IsReading(tm1') /\ TimeOf(tm1', rtc)
        /\ tm1'.year = tm1.year /\ tm1'.mon = tm1.mon /\ tm1'.mday = tm1.mday
    BY <1>3, <2>1, TimeRead, Zenon
  <2>4. w(2) = rtc /\ Looks >= 1
    BY <1>10, <2>2
  <2>5. DateOf(tm1', w(1)) /\ TimeOf(tm1', w(2))
    <3>1. DateOf(tm1, w(1))
      BY <1>8, <2>4, Zenon
    <3>2. DateOf(tm1', w(1))
      BY <2>3, <3>1, Zenon DEF DateOf
    <3> QED BY <2>3, <2>4, <3>2, Zenon
  <2>6. call' # "idle" /\ call' \in {"idle", "date1", "time1", "date2", "time2", "done"}
    BY <2>1
  <2>7. Looks' = Looks + 1 /\ ~(Looks' >= 3) /\ ~(Looks' >= 4)
    BY <2>2
  <2> QED BY <1>3, <1>11, <2>1, <2>3, <2>5, <2>6, <2>7, Zenon
<1>14. CASE call = "date2"
  <2>1. tm1' = tm1 /\ tm2' = WithDate(tm2, DateRegisters) /\ call' = "time2"
    BY <1>14 DEF ReadClock
  <2>2. Looks = 2 /\ Looks' = 3
    BY <1>14, <2>1 DEF Looks
  <2>3. IsReading(tm2') /\ DateOf(tm2', rtc)
    BY <1>3, <2>1, DateRead, Zenon
  <2>4. w(3) = rtc /\ Looks >= 1 /\ Looks >= 2
    BY <1>10, <2>2
  <2>5. DateOf(tm1', w(1)) /\ TimeOf(tm1', w(2)) /\ DateOf(tm2', w(3))
    BY <1>8, <2>1, <2>3, <2>4, Zenon
  <2>6. call' # "idle" /\ call' \in {"idle", "date1", "time1", "date2", "time2", "done"}
    BY <2>1
  <2>7. Looks' = Looks + 1 /\ ~(Looks' >= 4)
    BY <2>2
  <2> QED BY <1>3, <1>11, <2>1, <2>3, <2>5, <2>6, <2>7, Zenon
<1>15. CASE call = "time2"
  <2>1. tm1' = tm1 /\ tm2' = WithTime(tm2, TimeRegisters) /\ call' = "done"
    BY <1>15 DEF ReadClock
  <2>2. Looks = 3 /\ Looks' = 4
    BY <1>15, <2>1 DEF Looks
  <2>3. IsReading(tm2') /\ TimeOf(tm2', rtc)
        /\ tm2'.year = tm2.year /\ tm2'.mon = tm2.mon /\ tm2'.mday = tm2.mday
    BY <1>3, <2>1, TimeRead, Zenon
  <2>4. w(4) = rtc /\ Looks >= 1 /\ Looks >= 2 /\ Looks >= 3
    BY <1>10, <2>2
  <2>5. /\ DateOf(tm1', w(1)) /\ TimeOf(tm1', w(2))
        /\ DateOf(tm2', w(3)) /\ TimeOf(tm2', w(4))
    <3>1. DateOf(tm2, w(3)) /\ DateOf(tm1, w(1)) /\ TimeOf(tm1, w(2))
      BY <1>8, <2>4, Zenon
    <3>2. DateOf(tm2', w(3))
      BY <2>3, <3>1, Zenon DEF DateOf
    <3> QED BY <2>1, <2>3, <2>4, <3>1, <3>2, Zenon
  <2>6. call' # "idle" /\ call' \in {"idle", "date1", "time1", "date2", "time2", "done"}
    BY <2>1
  <2>7. Looks' = Looks + 1
    BY <2>2
  <2> QED BY <1>3, <1>11, <2>1, <2>3, <2>5, <2>6, <2>7, Zenon
<1> QED BY <1>4, <1>12, <1>13, <1>14, <1>15, Zenon

\* A reading with the date and the time of one moment is that moment.
LEMMA ReadingIs ==
    ASSUME NEW tm, IsReading(tm), NEW d, Date(d), DateOf(tm, d), TimeOf(tm, d)
    PROVE  tm = AsRead(d) /\ tm.year >= 1601 /\ Seconds(tm) = SecondsSince1970(d)
<1>1. tm = AsRead(d)
  BY IsMoment, Zenon DEF AsRead, DateOf, TimeOf, Moment
<1>2. tm.year >= 1601
  BY SMT DEF DateOf, Date
<1> QED BY <1>1, <1>2, SecondsAre

\* Of the two readings the one that is taken is of a moment that was seen.
LEMMA TakenWasSeen ==
    ASSUME ClockTyped, call = "done", NEW p, NEW k \in 0 .. 4, Saw(p, k)
    PROVE  /\ IsReading(Reading)
           /\ \E d \in {p, rtc} : DateOf(Reading, d) /\ TimeOf(Reading, d)
<1>1. Looks = 4
  BY DEF Looks
<1>2. /\ DateOf(tm1, IF k >= 1 THEN p ELSE rtc)
      /\ TimeOf(tm1, IF k >= 2 THEN p ELSE rtc)
      /\ DateOf(tm2, IF k >= 3 THEN p ELSE rtc)
      /\ TimeOf(tm2, IF k >= 4 THEN p ELSE rtc)
  BY <1>1 DEF Saw
<1>3. IsReading(tm1) /\ IsReading(tm2)
  BY DEF ClockTyped
<1> DEFINE Changed == ~(tm1.year = tm2.year /\ tm1.mon = tm2.mon /\ tm1.mday = tm2.mday)
<1>4. Reading = IF Changed THEN tm2 ELSE tm1
  BY Zenon DEF Reading
<1>5. Reading \in {tm1, tm2}
  BY <1>4
<1>6. CASE k = 0
  <2>1. DateOf(tm1, rtc) /\ TimeOf(tm1, rtc) /\ DateOf(tm2, rtc) /\ TimeOf(tm2, rtc)
    BY <1>2, <1>6
  <2> QED BY <1>3, <1>5, <2>1, Zenon
<1>7. CASE k = 1
  <2>1. DateOf(tm1, p) /\ TimeOf(tm1, rtc) /\ DateOf(tm2, rtc) /\ TimeOf(tm2, rtc)
    BY <1>2, <1>7
  <2>2. ~Changed => DateOf(tm1, rtc)
    BY <2>1, Zenon DEF DateOf
  <2> QED BY <1>3, <1>4, <2>1, <2>2, Zenon
<1>8. CASE k = 2
  <2>1. DateOf(tm1, p) /\ TimeOf(tm1, p) /\ DateOf(tm2, rtc) /\ TimeOf(tm2, rtc)
    BY <1>2, <1>8
  <2> QED BY <1>3, <1>5, <2>1, Zenon
<1>9. CASE k = 3
  <2>1. DateOf(tm1, p) /\ TimeOf(tm1, p) /\ DateOf(tm2, p)
    BY <1>2, <1>9
  <2>2. ~Changed
    BY <2>1, Zenon DEF DateOf
  <2> QED BY <1>3, <1>4, <2>1, <2>2, Zenon
<1>10. CASE k = 4
  <2>1. DateOf(tm1, p) /\ TimeOf(tm1, p) /\ DateOf(tm2, p) /\ TimeOf(tm2, p)
    BY <1>2, <1>10
  <2> QED BY <1>3, <1>5, <2>1, Zenon
<1>11. k \in {0, 1, 2, 3, 4}
  OBVIOUS
<1> QED BY <1>6, <1>7, <1>8, <1>9, <1>10, <1>11, Zenon

\* A moment that was seen is of the call.
LEMMA TimeWasSeen ==
    ASSUME ClockInv
    PROVE  TimeIsOfTheCall
<1> SUFFICES ASSUME call = "done"
             PROVE  SecondsSince1970(rtc) - Time \in 0 .. elapsed - began
  BY DEF TimeIsOfTheCall
<1>1. ClockTyped /\ Date(rtc) /\ elapsed \in Nat /\ began \in Nat
  BY DEF ClockInv, ClockTyped
<1>2. PICK p : \E k \in 0 .. 4 : Saw(p, k)
  BY DEF ClockInv
<1>3. PICK k \in 0 .. 4 : Saw(p, k)
  BY <1>2
<1>4. IsReading(Reading)
  BY <1>1, <1>3, TakenWasSeen
<1>5. PICK d \in {p, rtc} : DateOf(Reading, d) /\ TimeOf(Reading, d)
  BY <1>1, <1>3, TakenWasSeen
<1>6. /\ Date(p)
      /\ \/ elapsed = began /\ p = rtc
         \/ elapsed = began + 1 /\ rtc = NextSecond(p)
  BY <1>3, Zenon DEF Saw
<1>7. Date(d)
  BY <1>1, <1>5, <1>6, Zenon
<1>8. Reading.year >= 1601 /\ Seconds(Reading) = SecondsSince1970(d) /\ Reading = AsRead(d)
  BY <1>4, <1>5, <1>7, ReadingIs
<1>9. Reading.year \in Int
  BY <1>4 DEF IsReading
<1>10. Time = SecondsSince1970(d)
  <2>1. ~(Reading.year < 1601)
    BY <1>8, <1>9, SMT
  <2> QED BY <1>8, <2>1, SMT DEF Time
<1>11. SecondsSince1970(d) \in Int
  BY <1>7, NextSecondIs, Zenon
<1>12. CASE elapsed = began /\ p = rtc
  <2>1. d = rtc
    BY <1>5, <1>12
  <2>2. SecondsSince1970(rtc) - Time = 0 /\ elapsed - began = 0
    BY <1>1, <1>10, <1>11, <1>12, <2>1
  <2> QED BY <2>2
<1>13. CASE elapsed = began + 1 /\ rtc = NextSecond(p)
  <2> DEFINE a == SecondsSince1970(p)
             b == SecondsSince1970(rtc)
             t == Time
  <2>1. b = a + 1 /\ a \in Int
    BY <1>6, <1>13, NextSecondIs, Zenon
  <2>2. t \in {a, b}
    BY <1>5, <1>10
  <2>3. elapsed - began = 1
    BY <1>1, <1>13
  <2> HIDE DEF a, b, t
  <2>4. b - t \in 0 .. 1
    BY <2>1, <2>2
  <2> QED BY <2>3, <2>4 DEF b, t
<1> QED BY <1>6, <1>12, <1>13

\* Only the calls of time() and the seconds that go by touch the clock.
LEMMA NextClock ==
    ASSUME ClockInv, [Next]_vars
    PROVE  ClockInv'
<1>1. CASE LookAtClock
  BY <1>1, CallKeeps, LookKeeps DEF LookAtClock
<1>2. CASE Start \/ Timer
  BY <1>2, ReturnKeeps DEF Start, Timer
<1>3. CASE Second
  BY <1>3, TickKeeps DEF Second
<1>4. ASSUME UNCHANGED clockVars PROVE ClockInv'
  <2>1. rtc' = rtc /\ call' = call /\ tm1' = tm1 /\ tm2' = tm2 /\ elapsed' = elapsed
        /\ began' = began /\ seen' = seen
    BY <1>4 DEF clockVars
  <2>2. Looks' = Looks
    BY <2>1 DEF Looks
  <2>3. \A p, k : Saw(p, k) => Saw(p, k)'
    BY <2>1, <2>2, Zenon DEF Saw
  <2>4. ClockTyped' /\ (elapsed \in {seen, seen + 1})'
    BY <2>1, Zenon DEF ClockInv, ClockTyped
  <2> QED BY <2>1, <2>3, <2>4, Zenon DEF ClockInv
<1>5. CASE \E f8 \in BOOLEAN : Begin(f8)
  BY <1>4, <1>5 DEF Begin
<1>6. CASE NoKey \/ Draw \/ NoTimer
  BY <1>4, <1>6 DEF NoKey, Draw, NoTimer
<1>7. CASE \E c \in Codes : Press(c)
  BY <1>4, <1>7 DEF Press
<1>8. CASE Returned \/ UNCHANGED vars
  BY <1>4, <1>8 DEF Returned, vars
<1> QED BY <1>1, <1>2, <1>3, <1>5, <1>6, <1>7, <1>8, Zenon DEF Next, Loop

\* The time that the menu is told is that of a moment of the call, whatever the day,
\* month or year that ends in it, for every moment from 1970 on at which the clock may
\* be started: the calendar of time() counts the leap years, the days of the months and
\* the seconds right, and the second reading is taken exactly when the first may mix two
\* days (time.c 17-85).  Before 1970 the seconds would be negative.
THEOREM TimeIsOfTheCallHolds == Since1970 => (Spec => []TimeIsOfTheCall)
<1> SUFFICES ASSUME Since1970 PROVE Spec => []TimeIsOfTheCall
  OBVIOUS
<1>1. Init => ClockInv
  BY ClockStarts DEF Init
<1>2. ClockInv => TimeIsOfTheCall
  BY TimeWasSeen
<1>3. ClockInv /\ [Next]_vars => ClockInv'
  BY NextClock
<1> QED BY <1>1, <1>2, <1>3, PTL DEF Spec
=============================================================================
