----------------------------- MODULE OptionParse -----------------------------
(***************************************************************************)
(* parse_options() (util/parse-options.c), as every command of             *)
(* accel-config calls it: with flags 0.  The command line is scanned once; *)
(* options set the variables of the command, the other arguments are moved *)
(* to the front of argv, in place, behind the scan.                        *)
(*                                                                         *)
(* A text is a sequence of pieces, cut so finely that the texts compared   *)
(* differ in a piece: <<"g", "roup">> is a prefix of <<"g", "roup", "s">>. *)
(* The first two pieces of what follows a single dash are single           *)
(* characters.  An argument is its number of dashes and the text after     *)
(* them; "-" alone is [dash |-> 0, text |-> <<"-">>].                      *)
(***************************************************************************)
EXTENDS Integers, Sequences, SequencesExt, FiniteSets

CONSTANTS
    Table,          \* option tables, of the commands
    CommandLine,    \* the command lines, without the name of the command
    NumberOf,       \* the arguments strtol() reads to their end, with the number
    Piece           \* the pieces of texts

Text     == Seq(Piece)
Option   == [short : Piece, long : Text, type : {"boolean", "string", "number"}]
Argument == [dash : 0..2, text : Text]

No == <<"n", "o-">>                     \* "no-"

ASSUME OptionAssumption ==
    /\ {"n", "o-"} \subseteq Piece
    /\ \A tab \in Table :
         /\ tab \in Seq(Option)
         /\ \A k \in DOMAIN tab :
              /\ Len(tab[k].long) > 1 /\ ~IsPrefix(No, tab[k].long)
              /\ \A i \in DOMAIN tab[k].long : tab[k].long[i] # "="
              /\ tab[k].short # "h"
              /\ \A l \in DOMAIN tab : k # l => /\ tab[k].short # tab[l].short
                                                /\ tab[k].long # tab[l].long
    /\ \A ln \in CommandLine :
         /\ ln \in Seq(Argument)
         /\ \A n \in DOMAIN ln : ln[n].dash = 1 => ln[n].text # <<>>

VARIABLES
    table,      \* the options of the command that runs
    line,       \* the arguments as typed
    argv,       \* the argument vector, 0 is the name of the command
    pos,        \* the argument looked at: ctx->argv
    cpidx,      \* the number of arguments kept
    opt,        \* ctx->opt: <<>> for NULL, else <<the text it points to>>
    setting,    \* the variable of each option
    mode,       \* between two arguments, within a bundle, or the parser is done
    exitCode    \* of exit(), when the parser ends the program

parseVars == <<table, line, argv, pos, cpidx, opt, setting, mode, exitCode>>

Command == [dash |-> 0, text |-> <<"command">>]

Opt == DOMAIN table
N   == Len(line)

\* The variable of an option holds its initial value, or what was stored last.
Untouched == <<"default">>
Reset(o)  == IF o.type = "number" THEN <<"number", 0>> ELSE <<"unset">>

\* parse_options_start()
ParseOptionsStart ==
    /\ table \in Table
    /\ line \in CommandLine
    /\ argv = [n \in 0..Len(line) |-> IF n = 0 THEN Command ELSE line[n]]
    /\ pos = 1 /\ cpidx = 0
    /\ opt = <<>>
    /\ setting = [k \in DOMAIN table |-> Untouched]
    /\ mode = "arg" /\ exitCode = 0

-----------------------------------------------------------------------------
(* Storing the value of an option. *)

\* The flags of get_value(), of which parse_options() gives at most one.
OPT_SHORT == 1
OPT_UNSET == 2

\* exit(0) after the usage text, exit(129) for what is not an option.  What was
\* stored before is of no use then.
Ends(code) ==
    /\ mode' = "exit" /\ exitCode' = code
    /\ UNCHANGED <<table, line, argv, pos, cpidx, opt, setting>>

\* get_arg(): the text ctx->opt points to, or the next argument, whatever it
\* looks like, if there is one.
HasArg(ptr)  == ptr # <<>> \/ pos < N
GetArg(ptr)  == IF ptr # <<>> THEN [dash |-> 0, text |-> ptr[1]] ELSE argv[pos + 1]
NextPos(ptr) == IF ptr # <<>> THEN pos ELSE pos + 1

\* A boolean takes no value, and neither does a negated option; a bundle goes
\* on behind a boolean.
NoArgument(o, flags) == flags = OPT_UNSET \/ o.type = "boolean"

\* Mutant: a negated option is stored like the option.
WithoutArgument_Set(o, flags) == <<"set">>

\* What an option without an argument stores.
WithoutArgument(o, flags) == IF flags = OPT_UNSET THEN Reset(o) ELSE <<"set">>

\* What an option stores of its argument.
WithArgument(o, arg) ==
    IF o.type = "number" THEN <<"number", NumberOf[arg]>> ELSE <<"text", arg>>

\* get_value() returns 0 and not -1,
Takes(o, flags, ptr) ==
    IF NoArgument(o, flags) THEN flags = OPT_SHORT \/ ptr = <<>>
    ELSE HasArg(ptr) /\ (o.type = "number" => GetArg(ptr) \in DOMAIN NumberOf)

\* and has stored the value, moved ctx->argv, and left ctx->opt behind.
GetValue(k, flags, ptr) ==
    IF NoArgument(table[k], flags)
    THEN /\ setting' = [setting EXCEPT ![k] = WithoutArgument(table[k], flags)]
         /\ opt' = ptr
         /\ IF ptr # <<>> THEN UNCHANGED <<pos, mode>>
                          ELSE pos' = pos + 1 /\ mode' = "arg"
    ELSE /\ setting' = [setting EXCEPT ![k] = WithArgument(table[k], GetArg(ptr))]
         /\ opt' = <<>> /\ pos' = NextPos(ptr) + 1 /\ mode' = "arg"

-----------------------------------------------------------------------------
(* Long options. *)

\* The text before and after the first "=".
Eq(t)      == SelectInSeq(t, LAMBDA x : x = "=")
From(t, n) == SubSeq(t, n + 1, Len(t))
Stem(t)    == IF Eq(t) = 0 THEN t ELSE SubSeq(t, 1, Eq(t) - 1)
Value(t)   == IF Eq(t) = 0 THEN <<>> ELSE <<From(t, Eq(t))>>

Found(kind, k, flags) == [kind |-> kind, opt |-> k, flags |-> flags]
NoMatch == Found("unknown", 0, 0)

\* Mutant: a second abbreviation is preferred to the first.
Abbreviates_Last(found, k, flags) == Found("abbreviation", k, flags)

\* is_abbreviated: the second option abbreviated makes the text ambiguous,
\* unless an exact match follows.
Abbreviates(found, k, flags) ==
    Found(IF found.kind = "unknown" THEN "abbreviation" ELSE "ambiguous", k, flags)

\* match: a text that goes on behind the option's name is not of this option.
Match(rest, found, k, flags) ==
    IF rest = <<>> \/ rest[1] = "=" THEN Found("exact", k, flags) ELSE found

\* One turn of the loop of parse_long_opt().  The first exact match ends it.
Consider(t, found, k) ==
    LET long == table[k].long
        behind == From(t, Len(No))
    IN  IF found.kind = "exact" THEN found
        ELSE IF IsPrefix(long, t) THEN Match(From(t, Len(long)), found, k, 0)
        ELSE IF IsPrefix(Stem(t), long) THEN Abbreviates(found, k, 0)
        ELSE IF IsPrefix(t, No) THEN Abbreviates(found, k, OPT_UNSET)
        ELSE IF ~IsPrefix(No, t) THEN found
        ELSE IF IsPrefix(long, behind) THEN Match(From(behind, Len(long)), found, k, OPT_UNSET)
        ELSE IF IsPrefix(behind, long) THEN Abbreviates(found, k, OPT_UNSET)
        ELSE found

\* What is found among the options up to each one, and at last.
Scan(t) ==
    LET Upto[k \in 0..Len(table)] ==
            IF k = 0 THEN NoMatch ELSE Consider(t, Upto[k - 1], k)
    IN  Upto

ScanLong(t) == Scan(t)[Len(table)]

AtArg(dashes) == mode = "arg" /\ pos <= N /\ argv[pos].dash = dashes
AtLong == AtArg(2) /\ argv[pos].text # <<>>

Listings == {<<"help">>, <<"help-all">>, <<"list-opts">>, <<"list-cmds">>}

\* --help and its like print and end the program.
PrintAndEnd == AtLong /\ argv[pos].text \in Listings /\ Ends(0)

\* The match, if there is one, is stored; a wrong value or an ambiguous name
\* ends the program with the usage text and status 0.
LongOption ==
    LET t     == argv[pos].text
        found == ScanLong(t)
    IN  /\ AtLong /\ t \notin Listings
        /\ IF found.kind = "unknown" THEN Ends(129)
           ELSE IF found.kind # "ambiguous" /\ Takes(table[found.opt], found.flags, Value(t))
           THEN /\ GetValue(found.opt, found.flags, Value(t))
                /\ UNCHANGED <<table, line, argv, cpidx, exitCode>>
           ELSE Ends(0)

-----------------------------------------------------------------------------
(* Short options, and the walk over the arguments. *)

ShortBundle ==
    /\ AtArg(1)
    /\ opt' = <<argv[pos].text>> /\ mode' = "short"
    /\ UNCHANGED <<table, line, argv, pos, cpidx, setting, exitCode>>

\* check_typos(): the whole bundle reads like a long option with one dash.
Typo(tab, t) ==
    Len(t) > 2 /\ (IsPrefix(No, t) \/ \E k \in DOMAIN tab : IsPrefix(t, tab[k].long))

\* parse_short_opt(): ctx->opt moves to the next character, or to NULL.
BehindOption(t) == IF Len(t) > 1 THEN <<From(t, 1)>> ELSE <<>>

\* One option of a bundle; typos are looked for behind the first one.
ShortOption ==
    LET t   == opt[1]
        k   == CHOOSE l \in Opt : table[l].short = t[1]
        ptr == BehindOption(t)
    IN  /\ mode = "short"
        /\ IF t[1] = "h" THEN Ends(0)
           ELSE IF \A l \in Opt : table[l].short # t[1] THEN Ends(129)
           ELSE IF ~Takes(table[k], OPT_SHORT, ptr) THEN Ends(0)
           ELSE IF /\ t = argv[pos].text /\ Typo(table, t)
                   /\ ptr # <<>> /\ NoArgument(table[k], OPT_SHORT) THEN Ends(129)
           ELSE /\ GetValue(k, OPT_SHORT, ptr)
                /\ UNCHANGED <<table, line, argv, cpidx, exitCode>>

\* Mutant: the scan stays at the argument it has kept.
Operand_Stays ==
    /\ AtArg(0)
    /\ argv' = [argv EXCEPT ![cpidx] = argv[pos]]
    /\ UNCHANGED <<table, line, pos, cpidx, opt, setting, mode, exitCode>>

\* Mutant: the argument is kept behind the name of the command, which is not.
Operand_BehindName ==
    /\ AtArg(0)
    /\ argv' = [argv EXCEPT ![cpidx + 1] = argv[pos]]
    /\ cpidx' = cpidx + 1 /\ pos' = pos + 1
    /\ UNCHANGED <<table, line, opt, setting, mode, exitCode>>

\* An argument that is no option is kept.
Operand ==
    /\ AtArg(0)
    /\ argv' = [argv EXCEPT ![cpidx] = argv[pos]]
    /\ cpidx' = cpidx + 1 /\ pos' = pos + 1
    /\ UNCHANGED <<table, line, opt, setting, mode, exitCode>>

\* parse_options_end(): what is left behind the arguments kept, and their
\* number.
ParseOptionsEnd(from) ==
    LET left == N + 1 - from
    IN  /\ argv' = [n \in 0..N |-> IF n \in cpidx..(cpidx + left - 1)
                                   THEN argv[n - cpidx + from] ELSE argv[n]]
        /\ cpidx' = cpidx + left
        /\ pos' = from /\ mode' = "run"
        /\ UNCHANGED <<table, line, opt, setting, exitCode>>

\* "--" ends the options, the arguments behind it are kept.
DashDash == AtArg(2) /\ argv[pos].text = <<>> /\ ParseOptionsEnd(pos + 1)

EndOfLine == mode = "arg" /\ pos > N /\ ParseOptionsEnd(pos)

ParseStep == \/ PrintAndEnd \/ LongOption \/ ShortBundle \/ ShortOption
             \/ Operand \/ DashDash \/ EndOfLine

ParseSpec == ParseOptionsStart /\ [][ParseStep]_parseVars

\* The parser is one thread that waits for nothing.
FairSpec == ParseSpec /\ WF_parseVars(ParseStep)

-----------------------------------------------------------------------------
(* What a command line ln means for a table tab, without a scan. *)

\* The options, plain or negated, that a long argument names, or else
\* abbreviates.  What has a value is not an abbreviated negation, and neither
\* is what abbreviates the option itself.
Negation(long) == No \o long
LongName(o, flags) == IF flags = OPT_UNSET THEN Negation(o.long) ELSE o.long
Named(tab, t) == {r \in (DOMAIN tab) \X {0, OPT_UNSET} :
                    Stem(t) = LongName(tab[r[1]], r[2])}
Abbreviated(tab, t) ==
    {r \in (DOMAIN tab) \X {0, OPT_UNSET} :
        IF IsPrefix(Stem(t), tab[r[1]].long) THEN r[2] = 0
        ELSE r[2] = OPT_UNSET /\ Eq(t) = 0 /\ IsPrefix(t, LongName(tab[r[1]], r[2]))}
Readings(tab, t) == IF Named(tab, t) # {} THEN Named(tab, t) ELSE Abbreviated(tab, t)

\* The options of a bundle: up to the first with a value, which takes the rest.
BundleOpt(tab, t, n) == {k \in DOMAIN tab : tab[k].short = t[n]}
InBundle(tab, t) == {n \in DOMAIN t : \A m \in 1..(n - 1) :
                        \A k \in BundleOpt(tab, t, m) : tab[k].type = "boolean"}

\* A mention: the option, the flags and the attached value.
Mention(k, flags, val) == [opt |-> k, flags |-> flags, val |-> val]
BundleVal(o, t, n) ==
    IF n = Len(t) \/ o.type = "boolean" THEN <<>> ELSE <<From(t, n)>>

\* The options mentioned by an argument.
Mentions(tab, a) ==
    IF a.dash = 2
    THEN {Mention(r[1], r[2], Value(a.text)) : r \in Readings(tab, a.text)}
    ELSE UNION {{Mention(k, OPT_SHORT, BundleVal(tab[k], a.text, n)) :
                    k \in BundleOpt(tab, a.text, n)} : n \in InBundle(tab, a.text)}

TakesNext(tab, a) ==
    \E m \in Mentions(tab, a) : ~NoArgument(tab[m.opt], m.flags) /\ m.val = <<>>

\* What each argument is, "rest" being an operand behind "--".
RoleAfter(tab, ln, n, role) ==
    IF role \in {"end", "rest"} THEN "rest"
    ELSE IF role = "option" /\ TakesNext(tab, ln[n - 1]) THEN "value"
    ELSE IF ln[n].dash = 0 THEN "operand"
    ELSE IF ln[n].dash = 2 /\ ln[n].text = <<>> THEN "end" ELSE "option"

Roles(tab, ln) ==
    LET Role[n \in 0..Len(ln)] ==
            IF n = 0 THEN "command" ELSE RoleAfter(tab, ln, n, Role[n - 1])
    IN  Role

\* The value a mention at argument n gives its option.
Given(ln, n, m) == IF m.val # <<>> THEN [dash |-> 0, text |-> m.val[1]] ELSE ln[n + 1]

\* An argument that is exactly one option, with a value if and only if it
\* takes one, and a number if it takes a number; a bundle is a set of options.
RightOption(tab, ln, n) ==
    LET a == ln[n]
    IN  /\ IF a.dash = 2
           THEN a.text \notin Listings /\ \E r \in Readings(tab, a.text) :
                                            Readings(tab, a.text) = {r}
           ELSE /\ \A i \in InBundle(tab, a.text) : BundleOpt(tab, a.text, i) # {}
                /\ ~ (/\ Typo(tab, a.text)
                      /\ \E k \in BundleOpt(tab, a.text, 1) : tab[k].type = "boolean")
        /\ \A m \in Mentions(tab, a) :
             IF NoArgument(tab[m.opt], m.flags) THEN m.val = <<>>
             ELSE /\ m.val # <<>> \/ n < Len(ln)
                  /\ tab[m.opt].type = "number" => Given(ln, n, m) \in DOMAIN NumberOf

\* The options among the first arguments, and those of them that mention k.
Options(tab, ln, last) == {n \in 1..last : Roles(tab, ln)[n] = "option"}
MentionedAt(tab, ln, last, k) ==
    {n \in Options(tab, ln, last) : \E m \in Mentions(tab, ln[n]) : m.opt = k}

\* The value a mention gives its option.
Meant(tab, ln, n, m) ==
    LET o == tab[m.opt]
    IN  IF m.flags = OPT_UNSET THEN Reset(o)
        ELSE IF o.type = "boolean" THEN <<"set">>
        ELSE WithArgument(o, Given(ln, n, m))

\* The value the first arguments give an option: that of its last mention.
Asked(tab, ln, last, k) ==
    LET at == MentionedAt(tab, ln, last, k)
        n  == CHOOSE x \in at : \A y \in at : y <= x
        m  == CHOOSE x \in Mentions(tab, ln[n]) : x.opt = k
    IN  IF at = {} THEN Untouched ELSE Meant(tab, ln, n, m)

\* The operands among the first arguments.
Operands(tab, ln, last) == {n \in 1..last : Roles(tab, ln)[n] \in {"operand", "rest"}}

-----------------------------------------------------------------------------
(* Properties. *)

\* A command runs if and only if its command line is right from the first to
\* the last argument: parse_options() returns for no line with an unknown or
\* ambiguous option, a missing value, a value too many or a word for a
\* number, in whatever order the table holds the options, and it refuses no
\* other line.
RunsIffRight ==
    LET right == \A n \in Options(table, line, N) : RightOption(table, line, n)
    IN  (mode = "run" => right) /\ (mode = "exit" => ~right)

\* What is left in argv is the arguments that are neither options nor values
\* of options, all of them and in their order, and the result is their
\* number, although argv is overwritten while it is read.
OperandsKept ==
    mode = "run" =>
        /\ cpidx = Cardinality(Operands(table, line, N))
        /\ \A n \in Operands(table, line, N) :
             argv[Cardinality(Operands(table, line, n - 1))] = line[n]

\* Each variable of the command holds what the last mention of its option
\* says, as an exact or abbreviated or negated long option, or in a bundle,
\* and the variables of options that are not mentioned are left alone.
SettingAsAsked == mode = "run" => \A k \in Opt : setting[k] = Asked(table, line, N, k)

\* parse_options() comes to an end: the command runs or the program exits.
ParseEnds == <>(mode \in {"run", "exit"})

-----------------------------------------------------------------------------
(* The inductive invariant behind the first three. *)

ParseTypeOK ==
    /\ table \in Table /\ line \in CommandLine
    /\ DOMAIN argv = 0..N
    /\ pos \in 1..(N + 1)
    /\ cpidx \in 0..N
    /\ DOMAIN setting = Opt
    /\ mode \in {"arg", "short", "run", "exit"}
    /\ exitCode \in {0, 129}

\* The scan is at the start of an argument that is no value, nothing before it
\* ended the options, and the options before it are right.
ScanIsRight ==
    mode \in {"arg", "short"} =>
        /\ \A n \in 1..(pos - 1) : Roles(table, line)[n] \notin {"end", "rest"}
        /\ pos <= N => Roles(table, line)[pos] # "value"
        /\ \A n \in Options(table, line, pos - 1) : RightOption(table, line, n)

\* The operands before the scan are in front, and what is ahead is as typed.
KeptSoFar ==
    mode \in {"arg", "short"} =>
        /\ cpidx < pos
        /\ \A n \in pos..N : argv[n] = line[n]
        /\ cpidx = Cardinality(Operands(table, line, pos - 1))
        /\ \A n \in Operands(table, line, pos - 1) :
             argv[Cardinality(Operands(table, line, n - 1))] = line[n]

\* The settings are those that the arguments before the scan ask for.
SetSoFar == mode = "arg" => \A k \in Opt : setting[k] = Asked(table, line, pos - 1, k)

\* Within a bundle the options before the i-th piece are booleans and are set.
AtPiece(i) ==
    LET t == line[pos].text
    IN  /\ i \in InBundle(table, t)
        /\ opt = <<From(t, i - 1)>>
        /\ \A j \in 1..(i - 1) : BundleOpt(table, t, j) # {}
        /\ i > 1 => ~Typo(table, t)
        /\ \A k \in Opt : setting[k] = IF \E j \in 1..(i - 1) : k \in BundleOpt(table, t, j)
                                       THEN <<"set">> ELSE Asked(table, line, pos - 1, k)

BundleSoFar ==
    mode = "short" => /\ pos <= N /\ line[pos].dash = 1
                      /\ \E i \in DOMAIN line[pos].text : AtPiece(i)

ParseInv ==
    /\ ParseTypeOK /\ ScanIsRight /\ KeptSoFar /\ SetSoFar /\ BundleSoFar
    /\ RunsIffRight /\ OperandsKept /\ SettingAsAsked
=============================================================================
