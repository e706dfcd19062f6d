----------------------------- MODULE MCStartup -----------------------------
(* Instances of Startup for TLC. *)
EXTENDS Startup

\* Machines with 8, 16 and 64 MB.
Machine(upper, int88, e801, map, end) ==
    [lower |-> 639, upper |-> upper, int88 |-> int88, e801 |-> e801, map |-> map, end |-> end]

E801(upper) ==
    IF upper < Kilobytes15M THEN [ax |-> upper, bx |-> 0]
    ELSE [ax |-> Kilobytes15M, bx |-> (upper - Kilobytes15M) \div 64]

Map3 == <<"lower", "upper", "reserved">>

SmallMachines ==
    {Machine(7168, 7168, NoE801, << >>, "carry"), Machine(7168, Fail, E801(7168), Map3, "ebx"),
     Machine(15360, 15360, E801(15360), << >>, "carry"),
     Machine(64512, 15360, E801(64512), Map3, "ebx"),
     Machine(64512, Fail, E801(64512), Map3, "carry"),
     Machine(64512, 15360, NoE801, Map3, "never"),
     Machine(64512, Fail, NoE801, Map3, "ebx"), Machine(7168, Fail, E801(7168), << >>, "carry")}

----------------------------------------------------------------------------
(* Configuration files *)

Word1(w) == Text(w, "", <<34>>)         \* a word is no number
Num(digits) == Text("", "", digits)
Octal(digits) == Text("", "0", digits)
Hex(digits) == Text("", "0x", digits)

Blank == [kind |-> "blank"]
Junk == [kind |-> "other"]
Header(name) == [kind |-> "header", name |-> name]
D(name, value) == [kind |-> "directive", name |-> name, value |-> value]

Command(w) == D("Command", Word1(w))
Module(w) == D("Module", Word1(w))

\* Well-formed: one section, several, overwritten properties, all kinds of numbers.
\* Wrong: each reason once.  Empty, and without a section.
ChosenFiles ==
    {<<Header("a"), Command("k")>>,
     <<D("Timeout", Num(<<3, 0>>)), Blank, Header("a"), Command("k"), Module("m"),
       Module("n"), Header("b"), Command("l"), D("Default", Word1("Yes")), Module("o")>>,
     <<Header("a"), Command("k"), Command("l"), D("Type", Word1("Binary")),
       D("Address", Hex(<<1, 15>>)), D("Drive", Hex(<<8, 0>>)), D("Type", Word1("ELF")),
       D("Colour", Word1("red"))>>,
     <<D("Timeout", Octal(<<1, 7>>)), D("Timeout", Num(<<7, 15>>)), Header("a"), Command("k"),
       D("Default", Num(<<0>>)), Header("b"), D("Default", Octal(<<8>>)), Command("l"),
       D("Drive", Num(<<2, 5, 6>>)), Header("c"), Command("m"), D("Default", Word1("No"))>>,
     <<Header("a"), D("Address", Num(<<9>>)), D("Address", Word1("here")),
       D("Type", Word1("Binary")), Command("k")>>,
     <<Header("a"), Command("k"), Header("b")>>,
     <<Header("a"), Command("k"), D("Default", Num(<<1>>)), Header("b"),
       D("Default", Num(<<1>>)), Command("l")>>,
     <<Header("a"), D("Timeout", Num(<<5>>)), Command("k")>>,
     <<Command("k"), Header("a")>>, <<Junk>>, <<D("Timeout", Word1("soon")), Header("a")>>,
     << >>, <<Blank, D("Timeout", Num(<<5>>))>>}

\* And all files of up to three lines of these.
Pool ==
    {Header("a"), Header("b"), Command("k"), Module("m"), D("Default", Word1("Yes")),
     D("Timeout", Num(<<9>>)), D("Type", Word1("Binary")), D("Address", Hex(<<7>>)), Blank}

SmallFiles == ChosenFiles \cup UNION {[1 .. n -> Pool] : n \in 1 .. 3}

\* The premise of ConfigIsMeaningHolds is true of them.
ASSUME SmallFilesRead == NumbersReadIn(SmallFiles)

\* "Timeout = 0".
ZeroFiles == {<<D("Timeout", Octal(<< >>)), Header("a"), Command("k")>>}
=============================================================================
