------------------------------- MODULE Config -------------------------------
(***************************************************************************)
(* The configuration file (src/src/config.c) and strtoul (stdlib.c,        *)
(* 290-349).  The file is a sequence of lines; a line is blank or a        *)
(* comment, the header of a section, a directive with its value, or        *)
(* something else.  Each section becomes an image at the head of a list.   *)
(***************************************************************************)
EXTENDS Integers, Sequences, SequencesExt

CONSTANTS
    ConfigFiles,    \* the files there are: sequences of lines
    Word,           \* 2^32: ULONGs wrap
    MemoryMayFail,  \* may malloc and realloc fail?
    ReadMayStop,    \* may ReadFile return less than the whole file?
    ChaseEnds       \* see ValidateDefault

ASSUME ConfigAssumption ==
    /\ Word \in Nat \ {0}
    /\ {MemoryMayFail, ReadMayStop} \subseteq BOOLEAN
    /\ \A ls \in ConfigFiles : ls \in Seq({ls[k] : k \in DOMAIN ls})

VARIABLES
    lines,          \* the file
    cpc,            \* closed, parse, validate, chase; accepted, rejected
    src,            \* the lines that are still to be parsed
    inHeader,
    config,         \* CONFIG: Timeout, Default, Images
    got,            \* history: the lines that were read
    short           \* history: memory was short

configVars == <<lines, cpc, src, inHeader, config, got, short>>

----------------------------------------------------------------------------
(* strtoul *)

\* A value is a word, and the digits and letters that it is written with: a prefix
\* ("", "0" or "0x") and digits 0 .. 35.
Text(word, prefix, digits) == [word |-> word, prefix |-> prefix, digits |-> digits]

NoBase == 0

BaseOf(text, base) ==
    IF base # 0 THEN base
    ELSE CASE text.prefix = ""   -> 10
           [] text.prefix = "0x" -> 16
           [] text.prefix = "0"  -> IF text.digits # << >> /\ text.digits[1] <= 7
                                    THEN 8 ELSE NoBase

\* The digits that belong to the number: all up to the first that is too large.
DigitsOf(text, b) ==
    LET all == CASE text.prefix = ""             -> text.digits
                 [] text.prefix = "0"            -> <<0>> \o text.digits
                 [] text.prefix = "0x" /\ b = 16 -> text.digits
                 [] OTHER                        -> <<0, 33>> \o text.digits
        ends == {k \in 0 .. Len(all) : /\ \A j \in 1 .. k : all[j] < b
                                       /\ k < Len(all) => all[k + 1] >= b}
    IN SubSeq(all, 1, CHOOSE k \in ends : TRUE)

\* The result so far, -1 once it has been seen to overflow: it has when it gets
\* smaller, so not every overflow is seen.
AddDigit(b, result, d) ==
    LET next == (result * b + d) % Word
    IN IF result = -1 \/ next < result THEN -1 ELSE next

\* What strtoul returns, and whether *endptr may be the start of the text.
strtoul(text, base) ==
    LET b   == BaseOf(text, base)
        ds  == DigitsOf(text, b)
        val == FoldLeft(LAMBDA r, d : AddDigit(b, r, d), 0, ds)
    IN IF b = NoBase THEN {[val |-> 0, none |-> TRUE]}
       ELSE IF val = -1 THEN [val : {Word - 1}, none : BOOLEAN]
       ELSE {[val |-> val, none |-> ds = << >> /\ ~(text.prefix = "0x" /\ b = 16)]}

----------------------------------------------------------------------------
(* ParseDirective *)

None == "NULL"

NoDrive == Word - 1     \* 0xFFFFFFFF

NewImage(name) ==
    [Name |-> name, Command |-> None, Type |-> "Auto", Address |-> 0, Drive |-> NoDrive,
     Modules |-> << >>]

Types == {"Binary", "Multiboot", "Bootsector", "Relocatable"}

\* The image of the section that is being parsed: the head of the list.
img == Head(config.Images)

WithImage(image) == [config EXCEPT !.Images = <<image>> \o Tail(@)]

\* "Yes", or a number that is not zero.
SaysYes(value) ==
    {IF x.none THEN value.word = "Yes" ELSE x.val # 0 : x \in strtoul(value, 10)}

\* The configurations a directive in a section may lead to; the empty set: an error.
\* Default refers to images by the number of their section.
InSection(name, value) ==
    CASE name = "Address" ->
            {WithImage([img EXCEPT !.Address = IF x.none THEN 0 ELSE x.val]) :
                x \in strtoul(value, 0)}
      [] name = "Command" -> {WithImage([img EXCEPT !.Command = value.word])}
      [] name = "Drive" ->
            {WithImage([img EXCEPT !.Drive = IF x.none \/ x.val > 255 THEN NoDrive ELSE x.val]) :
                x \in strtoul(value, 0)}
      [] name = "Module" -> {WithImage([img EXCEPT !.Modules = Append(@, value.word)])}
      [] name = "Type" ->
            {IF value.word \in Types THEN WithImage([img EXCEPT !.Type = value.word])
                                    ELSE config}
      [] name = "Default" ->
            UNION {IF ~yes THEN {config}
                   ELSE IF config.Default # 0 THEN {}
                   ELSE {[config EXCEPT !.Default = Len(config.Images)]} :
                     yes \in SaysYes(value)}
      [] OTHER -> {config}

ParseDirective(name, value) ==
    CASE name = "Timeout" /\ ~inHeader ->
            {[config EXCEPT !.Timeout = x.val] : x \in {y \in strtoul(value, 0) : ~y.none}}
      [] name # "Timeout" /\ inHeader -> InSection(name, value)
      [] OTHER -> {}

\* Command and Module copy their value, and an array of modules grows.
Allocates(line) == line.kind = "header" \/ line.name \in {"Command", "Module"}

----------------------------------------------------------------------------
(* ParseConfigFile *)

Rejected ==
    /\ cpc' = "rejected"
    /\ UNCHANGED <<lines, src, inHeader, config, got>>

OutOfMemory ==
    /\ MemoryMayFail
    /\ short' = TRUE
    /\ Rejected

\* The whole file is read, or less than that, which is not noticed unless it is
\* nothing at all.
ReadConfig ==
    /\ cpc = "closed"
    /\ \E n \in 0 .. Len(lines) :
          /\ n = Len(lines) \/ ReadMayStop
          /\ src' = SubSeq(lines, 1, n)
          /\ got' = n
          /\ cpc' = IF n = 0 THEN "rejected" ELSE "parse"
    /\ config' = [Timeout |-> 120, Default |-> 0, Images |-> << >>]
    /\ inHeader' = FALSE
    /\ UNCHANGED <<lines, short>>

NoBuffer == cpc = "closed" /\ OutOfMemory

Line == Head(src)

MoveOn ==
    /\ src' = Tail(src)
    /\ cpc' = IF Tail(src) = << >> THEN "validate" ELSE "parse"
    /\ UNCHANGED <<lines, got>>

NextLine == MoveOn /\ UNCHANGED short

MutParseBlank ==
    /\ cpc = "parse"
    /\ Line.kind = "blank"
    /\ UNCHANGED <<lines, cpc, src, inHeader, config, got, short>>

ParseBlank ==
    /\ cpc = "parse"
    /\ Line.kind = "blank"
    /\ NextLine
    /\ UNCHANGED <<config, inHeader>>

\* A new image enters the list at its head.  That there was no memory for its name
\* is not noticed: the name is copied to address zero.
ParseHeader ==
    /\ cpc = "parse"
    /\ Line.kind = "header"
    /\ \E unnamed \in {FALSE, MemoryMayFail} :
          /\ config' = [config EXCEPT !.Images =
                            <<NewImage(IF unnamed THEN None ELSE Line.name)>> \o @]
          /\ short' = (short \/ unnamed)
    /\ inHeader' = TRUE
    /\ MoveOn

ParseLine ==
    /\ cpc = "parse"
    /\ Line.kind = "directive"
    /\ config' \in ParseDirective(Line.name, Line.value)
    /\ NextLine
    /\ UNCHANGED inHeader

\* A header without ']', a line without '=', or a directive that is refused.
ParseError ==
    /\ cpc = "parse"
    /\ \/ Line.kind = "other"
       \/ Line.kind = "directive" /\ ParseDirective(Line.name, Line.value) = {}
    /\ Rejected
    /\ UNCHANGED short

ParseNoMemory ==
    /\ cpc = "parse"
    /\ Line.kind \in {"header", "directive"}
    /\ Allocates(Line)
    /\ OutOfMemory

Complete(image) ==
    /\ image.Command # None
    /\ image.Type = "Binary" => image.Address # 0

MutValidateDefault ==
    /\ config' = [config EXCEPT !.Default = IF @ # 0 THEN @ ELSE Len(config.Images)]
    /\ cpc' = "accepted"

\* Without a default it is the last of the list: the first section.  Without images
\* the list is followed from address zero, which may or may not come to an end.
ValidateDefault ==
    /\ config' = [config EXCEPT !.Default = IF @ # 0 THEN @ ELSE 1]
    /\ cpc' \in IF config.Images = << >> /\ config.Default = 0
                THEN {IF x THEN "accepted" ELSE "chase" : x \in ChaseEnds}
                ELSE {"accepted"}

ValidateConfig ==
    /\ cpc = "validate"
    /\ IF \A k \in DOMAIN config.Images : Complete(config.Images[k])
       THEN ValidateDefault
       ELSE cpc' = "rejected" /\ UNCHANGED config
    /\ UNCHANGED <<lines, src, inHeader, got, short>>

ConfigStep ==
    \/ ReadConfig \/ NoBuffer
    \/ ParseBlank \/ ParseHeader \/ ParseLine \/ ParseError \/ ParseNoMemory
    \/ ValidateConfig

ConfigInit ==
    /\ lines \in ConfigFiles
    /\ cpc = "closed"
    /\ src = << >>
    /\ inHeader = FALSE
    /\ config = [Timeout |-> 120, Default |-> 0, Images |-> << >>]
    /\ got = 0
    /\ short = FALSE

----------------------------------------------------------------------------
(* What a configuration file means *)

\* The number that a text stands for in C, if any.
IsNumeral(text) == text.prefix # "" \/ (text.digits # << >> /\ text.digits[1] < 10)

Numeral(text, b) ==
    LET n == CHOOSE k \in 0 .. Len(text.digits) :
                /\ \A j \in 1 .. k : text.digits[j] < b
                /\ k < Len(text.digits) => text.digits[k + 1] >= b
        Sum(r, d) == r * b + d
    IN FoldLeft(Sum, 0, SubSeq(text.digits, 1, n))

AutoNumeral(text) ==
    Numeral(text, CASE text.prefix = "" -> 10 [] text.prefix = "0" -> 8 [] OTHER -> 16)

\* In the following ls is a file of which the first n lines are looked at.
Headers(ls, n) == {k \in 1 .. n : ls[k].kind = "header"}

\* The section that line k belongs to; 0 is what comes before the first header.
SectionOf(ls, k) == Cardinality(Headers(ls, k))

\* The lines in which a section says something.
Gives(ls, n, section, name) ==
    {k \in 1 .. n : /\ ls[k].kind = "directive" /\ ls[k].name = name
                    /\ SectionOf(ls, k) = section}

LastLine(K) == CHOOSE k \in K : \A j \in K : j <= k

LastOr(ls, K, default, Of(_)) == IF K = {} THEN default ELSE Of(ls[LastLine(K)].value)

WordOf(value) == value.word

AddressOf(value) == IF IsNumeral(value) THEN AutoNumeral(value) ELSE 0

DriveOf(value) ==
    IF IsNumeral(value) /\ AutoNumeral(value) <= 255 THEN AutoNumeral(value) ELSE NoDrive

The(S) == CHOOSE k \in S : TRUE

\* The words that a set of lines gives, in order.
WordsOf(ls, K) ==
    LET Nth(j) == The({k \in K : Cardinality({i \in K : i <= k}) = j})
    IN [j \in 1 .. Cardinality(K) |-> ls[Nth(j)].value.word]

ImageOf(ls, n, s) ==
    LET Typed == {k \in Gives(ls, n, s, "Type") : ls[k].value.word \in Types} IN
    [Name    |-> ls[The({k \in Headers(ls, n) : SectionOf(ls, k) = s})].name,
     Command |-> LastOr(ls, Gives(ls, n, s, "Command"), None, WordOf),
     Type    |-> LastOr(ls, Typed, "Auto", WordOf),
     Address |-> LastOr(ls, Gives(ls, n, s, "Address"), 0, AddressOf),
     Drive   |-> LastOr(ls, Gives(ls, n, s, "Drive"), NoDrive, DriveOf),
     Modules |-> WordsOf(ls, Gives(ls, n, s, "Module"))]

Yes(value) ==
    value.word = "Yes" \/ (IsNumeral(value) /\ value.prefix # "0x" /\ Numeral(value, 10) # 0)

\* The lines in which a section wants to be the default.
Defaults(ls, n) ==
    {k \in 1 .. n : ls[k].kind = "directive" /\ ls[k].name = "Default" /\ Yes(ls[k].value)}

Meaning(ls, n) ==
    LET m == SectionOf(ls, n) IN
    [Timeout |-> LastOr(ls, Gives(ls, n, 0, "Timeout"), 120, AutoNumeral),
     Default |-> IF Defaults(ls, n) = {} THEN 1
                 ELSE SectionOf(ls, The(Defaults(ls, n))),
     Images  |-> [j \in 1 .. m |-> ImageOf(ls, n, m + 1 - j)]]

WellFormed(ls, n) ==
    /\ \A k \in 1 .. n :
          /\ ls[k].kind # "other"
          /\ ls[k].kind = "directive" =>
                IF ls[k].name = "Timeout"
                THEN SectionOf(ls, k) = 0 /\ IsNumeral(ls[k].value)
                ELSE SectionOf(ls, k) # 0
    /\ \A j, k \in Defaults(ls, n) : j = k
    /\ \A s \in 1 .. SectionOf(ls, n) : Complete(ImageOf(ls, n, s))

NoNames(c) ==
    [c EXCEPT !.Images = [k \in DOMAIN c.Images |-> [c.Images[k] EXCEPT !.Name = None]]]

\* strtoul reads the number of a directive right: it does when the number fits, and
\* is not a single 0.
NumberRead(line) ==
    /\ line.name \in {"Address", "Drive", "Timeout"} =>
          /\ strtoul(line.value, 0) # {}
          /\ \A x \in strtoul(line.value, 0) :
                /\ x.none = ~IsNumeral(line.value)
                /\ IsNumeral(line.value) =>
                      x.val = AutoNumeral(line.value) /\ AutoNumeral(line.value) \in Nat
    /\ line.name = "Default" => SaysYes(line.value) = {Yes(line.value)}

NumbersReadIn(files) ==
    \A ls \in files : \A k \in DOMAIN ls : ls[k].kind = "directive" => NumberRead(ls[k])

\* A configuration is accepted only if it is right, and then it is what the lines
\* mean: the sections in reverse order with the last value of each property, all
\* modules in order, the default that one section asked for or the first one; and it
\* is rejected only if it is wrong, or empty, or memory is short.  Names may be
\* missing when memory was short.
ConfigIsMeaning ==
    /\ cpc = "accepted" => /\ WellFormed(lines, got)
                           /\ NoNames(config) = NoNames(Meaning(lines, got))
                           /\ short \/ config = Meaning(lines, got)
    /\ cpc = "rejected" => short \/ got = 0 \/ ~WellFormed(lines, got)

\* What is accepted is the whole file.
WholeFile == cpc = "accepted" => got = Len(lines)
=============================================================================
