------------------------------ MODULE Options ------------------------------
(***************************************************************************)
(* The command line (options.c, optparse.c, and the tables of options of   *)
(* the programs, of the algorithms, of network.c and of pt_loop.c).        *)
(*                                                                         *)
(* A program gathers its options in one vector, then opt_parse reads the   *)
(* arguments from left to right, stores what the options say in static     *)
(* variables, blanks the arguments it has used, and counts the others.     *)
(* Arguments are strings; what they are worth as numbers is a constant.    *)
(***************************************************************************)
EXTENDS Containers

CONSTANTS
    Lines,    (* the command lines: <<tool, sequence of arguments>>        *)
    Numbers,  (* what strtol and strtod make of a text that is a number    *)
    Triples,  (* the same of three numbers separated by commas             *)
    MaxPort   (* UINT16_MAX                                                *)

TracerouteTool == "paris-traceroute"
PingTool       == "paris-ping"
ExampleTool    == "traceroute"
Tools          == {TracerouteTool, PingTool, ExampleTool}

ASSUME OptionsAssumption ==
    /\ \A line \in Lines : line[1] \in Tools /\ line[2] \in Seq(STRING)
    /\ \A t \in DOMAIN Numbers : Numbers[t] \in Int
    /\ \A t \in DOMAIN Triples : Triples[t] \in Int \X Int \X Int
    /\ MaxPort \in Nat

-----------------------------------------------------------------------------
(* Options: what is done when one is met, its short and its long form, ""  *)
(* if it has none, whether it takes a value (metavar), and what it sets.   *)

Opt(action, sf, lf, takes, data) ==
    [action |-> action, sf |-> sf, lf |-> lf, takes |-> takes, data |-> data]

Flag(sf, lf, data)          == Opt("store_1", sf, lf, FALSE, data)
Unflag(sf, data)            == Opt("store_0", sf, "", FALSE, data)
Value(action, sf, lf, data) == Opt(action, sf, lf, TRUE, data)
Header                      == Opt("text", "", "", FALSE, "")

TracerouteRunnable == <<
    Header, Header, Flag("4", "", "ipv4"), Flag("6", "", "ipv6"),
    Value("choice", "a", "--algorithm", "algorithm"), Flag("d", "--debug", "debug"),
    Value("int_lim_en", "p", "--dst-port", "dst_port"),
    Value("int_lim_en", "s", "--src-port", "src_port"),
    Value("int_lim_en", "z", "", "send_time"), Flag("I", "--icmp", "icmp"),
    Value("choice", "P", "--protocol", "protocol"),
    Flag("T", "--tcp", "tcp"), Flag("U", "--udp", "udp")>>

TracerouteOptions == <<
    Flag("A", "", "resolv_asn"), Value("int_lim", "f", "--first", "min_ttl"),
    Value("int_lim", "m", "--max-hops", "max_ttl"), Unflag("n", "do_resolv"),
    Value("int_lim", "q", "--num-queries", "num_queries"),
    Value("int_lim", "M", "--max-undiscovered", "max_undiscovered"),
    Flag("", "--print-ttl", "print_ttl")>>

MdaOptions     == <<Value("int_3", "B", "--mda", "mda")>>
NetworkOptions == <<Value("int_lim", "w", "--wait", "wait")>>
PtLoopOptions  == <<Value("int_lim", "t", "--timeout", "timeout")>>

PingRunnable == <<
    Header, Header, Flag("4", "", "ipv4"), Flag("6", "", "ipv6"),
    Value("int_lim_en", "F", "", "flow_label"), Value("str", "I", "", "source"),
    Value("overrun", "i", "", "send_time"), Value("int_lim", "s", "", "packet_size"),
    Value("int_lim_en", "P", "--dst-port", "dst_port"),
    Value("int_lim_en", "S", "--src-port", "src_port"),
    Flag("T", "--tcp", "tcp"), Flag("U", "--udp", "udp"), Flag("k", "", "ack"),
    Value("int", "t", "", "max_ttl"), Value("choice", "", "--protocol", "protocol")>>

PingOptions == <<
    Value("int", "c", "", "count"), Flag("D", "", "show_timestamp"), Unflag("n", "do_resolv"),
    Flag("q", "", "quiet"), Opt("help", "v", "", FALSE, "")>>

CommonOptions ==
    <<Opt("help", "h", "--help", FALSE, ""), Opt("version", "V", "--version", FALSE, "")>>

-----------------------------------------------------------------------------
(* Gathering the options *)

(* option_is_same: options without a short or a long form differ. *)
SameOption(o, p) ==
    /\ o.action = p.action
    /\ o.sf # "" /\ o.sf = p.sf
    /\ o.lf # "" /\ o.lf = p.lf

(* options_add_optspec: an option that collides with another is ignored,   *)
(* as no program gives a callback.                                         *)
AddOptspec(v, o) ==
    IF \E i \in 1 .. v.num : SameOption(v.cells[i], o) THEN v ELSE VectorPush(v, o)

(* options_add_optspecs: what ends the static array is not added. *)
AddOptspecs(v, os) == FoldLeft(AddOptspec, v, os)

(* init_options of each program *)
InitOptions(os) == AddOptspecs(AddOptspecs(VectorCreate, os), CommonOptions)

OptionTable ==
    [tl \in {TracerouteTool, PingTool} |->
        InitOptions((IF tl = TracerouteTool THEN TracerouteRunnable \o TracerouteOptions \o MdaOptions
                     ELSE PingRunnable \o PingOptions) \o NetworkOptions \o PtLoopOptions)]

(* The static variables before the options are read. *)
Off(value) == [value |-> value, set |-> FALSE]

Unset == ""    \* NULL

Limits == [dst_port |-> <<0, MaxPort>>, src_port |-> <<0, MaxPort>>,
           flow_label |-> <<0, 1048575>>, send_time |-> <<1, 2147483647>>,
           packet_size |-> <<0, 2147483647>>, min_ttl |-> <<1, 255>>, max_ttl |-> <<1, 255>>,
           num_queries |-> <<1, 255>>, max_undiscovered |-> <<1, 255>>,
           wait |-> <<0, 2147483647>>, timeout |-> <<0, 2147483647>>]

ChoicesOf(tl) ==
    IF tl = PingTool THEN [algorithm |-> <<"ping">>, protocol |-> <<"icmp", "tcp", "udp">>]
    ELSE [algorithm |-> <<"paris-traceroute", "mda">>, protocol |-> <<"udp", "icmp", "tcp">>]

Defaults(tl) ==
    [ipv4 |-> FALSE, ipv6 |-> FALSE, tcp |-> FALSE, udp |-> FALSE, icmp |-> FALSE,
     ack |-> FALSE, debug |-> FALSE, resolv_asn |-> FALSE, print_ttl |-> FALSE,
     show_timestamp |-> FALSE, quiet |-> FALSE, do_resolv |-> TRUE,
     algorithm |-> ChoicesOf(tl).algorithm, protocol |-> ChoicesOf(tl).protocol,
     dst_port |-> Off(0), src_port |-> Off(0), flow_label |-> Off(0), send_time |-> Off(1),
     packet_size |-> 56, source |-> Unset, min_ttl |-> 1,
     max_ttl |-> IF tl = PingTool THEN 255 ELSE 30,
     num_queries |-> 3, max_undiscovered |-> 3, wait |-> 5, timeout |-> 180,
     count |-> 2147483647, mda |-> Off(<<95, 5, 128>>), clobbered |-> Unset]

-----------------------------------------------------------------------------
(* What an option does with the settings s, given the text t: the settings *)
(* that may result, none when the value is refused.                        *)

InLimits(s, o, t) ==
    /\ t \in DOMAIN Numbers
    /\ o.data # s.clobbered
    /\ Numbers[t] \in Limits[o.data][1] .. Limits[o.data][2]

(* opt_store_int_lim and opt_store_double_lim *)
StoreIntLim(s, o, t) == IF InLimits(s, o, t) THEN {[s EXCEPT ![o.data] = Numbers[t]]} ELSE {}

(* opt_store_int_lim_en and opt_store_double_lim_en: the fourth cell tells *)
(* that the option is there.                                               *)
StoreIntLimEn(s, o, t) ==
    IF InLimits(s, o, t) THEN {[s EXCEPT ![o.data] = [value |-> Numbers[t], set |-> TRUE]]}
    ELSE {}

(* The same on send_time of paris-ping, which has three cells: the fourth  *)
(* is padding or the start of a variable declared next to it, which loses  *)
(* its value and whose lower limit becomes huge.                           *)
StoreOverrun(s, o, t) ==
    UNION {{r, [r EXCEPT !.packet_size = 0, !.clobbered = "packet_size"],
               [r EXCEPT !.flow_label.value = 0, !.clobbered = "flow_label"]} :
           r \in StoreIntLimEn(s, o, t)}

StoreInt(s, o, t) == IF t \in DOMAIN Numbers THEN {[s EXCEPT ![o.data] = Numbers[t]]} ELSE {}

(* opt_store_choice: the choice is exchanged with the first one. *)
StoreChoice(s, o, t) ==
    {[s EXCEPT ![o.data] = [@ EXCEPT ![1] = t, ![i] = s[o.data][1]]] :
        i \in {k \in DOMAIN s[o.data] : s[o.data][k] = t}}

(* opt_store_int_3: the limits of the third value are compared with the    *)
(* second, so that the third may be anything.                              *)
StoreInt3(s, o, t) ==
    IF t \in DOMAIN Triples /\ Triples[t][1] \in 0 .. 100 /\ Triples[t][2] >= 1
    THEN {[s EXCEPT ![o.data] = [value |-> Triples[t], set |-> TRUE]]}
    ELSE {}

Effects(s, o, t) ==
    CASE o.action = "store_1"    -> {[s EXCEPT ![o.data] = TRUE]}
      [] o.action = "store_0"    -> {[s EXCEPT ![o.data] = FALSE]}
      [] o.action = "str"        -> {[s EXCEPT ![o.data] = t]}
      [] o.action = "int"        -> StoreInt(s, o, t)
      [] o.action = "int_lim"    -> StoreIntLim(s, o, t)
      [] o.action = "int_lim_en" -> StoreIntLimEn(s, o, t)
      [] o.action = "overrun"    -> StoreOverrun(s, o, t)
      [] o.action = "choice"     -> StoreChoice(s, o, t)
      [] o.action = "int_3"      -> StoreInt3(s, o, t)

-----------------------------------------------------------------------------
(* Reading the arguments *)

VARIABLES
    tool,      (* which program runs                                       *)
    argv,      (* its arguments; those that were used are ""               *)
    pos,       (* the argument read, from 1                                *)
    rest,      (* the letters left in a cluster of short options           *)
    skipping,  (* whether options are over                                 *)
    count,     (* what opt_parse will return: the arguments left           *)
    settings,  (* the static variables the options set                     *)
    outcome    (* "start", "parsing", "error", "exit", "undefined", "run"  *)
               (* or "aborted", by a failed assertion                      *)

cmdVars == <<tool, argv, pos, rest, skipping, count, settings, outcome>>

Arg == argv[pos]

Options == SubSeq(OptionTable[tool].cells, 1, OptionTable[tool].num)

(* strspn of the dashes an argument starts with *)
Dashes(a) ==
    CHOOSE n \in 0 .. Len(a) :
        /\ \A i \in 1 .. n : SubSeq(a, i, i) = "-"
        /\ n < Len(a) => SubSeq(a, n + 1, n + 1) # "-"

(* Where "=" is, or the end *)
NameEnd(a) == Min({i \in 1 .. Len(a) : SubSeq(a, i, i) = "="} \cup {Len(a) + 1})

StartsWith(a, prefix) == Len(prefix) <= Len(a) /\ SubSeq(a, 1, Len(prefix)) = prefix

(* findlf: an abbreviation will do, and an exact name is not preferred. *)
FindLf(name) == {i \in DOMAIN Options : Options[i].lf # "" /\ StartsWith(Options[i].lf, name)}

FindSf(letter) == {i \in DOMAIN Options : Options[i].sf # "" /\ Options[i].sf = letter}

(* opt_parse first looks for the end of the options: it runs into what     *)
(* follows the vector when no zero cell ends it, and goes on if that       *)
(* happens to be zero.                                                     *)
ReadTable ==
    /\ outcome = "start"
    /\ tool # ExampleTool
    /\ \/ outcome' = "parsing"
       \/ ~ZeroEnded(OptionTable[tool]) /\ outcome' = "undefined"
    /\ UNCHANGED <<tool, argv, pos, rest, skipping, count, settings>>

AtArgument == outcome = "parsing" /\ rest = "" /\ pos <= Len(argv)

(* Mutant: what comes after the first operand is not counted. *)
MutCountArgument ==
    /\ AtArgument
    /\ skipping \/ Dashes(Arg) = 0 \/ Arg = "-"
    /\ count' = IF skipping THEN count ELSE count + 1
    /\ skipping' = TRUE
    /\ pos' = pos + 1
    /\ UNCHANGED <<tool, argv, rest, settings, outcome>>

(* An argument that is not an option: what follows is not one either       *)
(* (opt_options1st).  An empty argument counts too.                        *)
CountArgument ==
    /\ AtArgument
    /\ skipping \/ Dashes(Arg) = 0 \/ Arg = "-"
    /\ count' = count + 1
    /\ skipping' = TRUE
    /\ pos' = pos + 1
    /\ UNCHANGED <<tool, argv, rest, settings, outcome>>

EndOfOptions ==
    /\ AtArgument /\ ~skipping /\ Arg = "--"
    /\ argv' = [argv EXCEPT ![pos] = ""]
    /\ skipping' = TRUE
    /\ pos' = pos + 1
    /\ UNCHANGED <<tool, rest, count, settings, outcome>>

Refuse == outcome' = "error" /\ UNCHANGED <<argv, pos, rest, settings>>

(* The call of the action of an option; opt_help and opt_version exit. *)
Call(o, t) ==
    IF o.action \in {"help", "version"} THEN outcome' = "exit" /\ UNCHANGED settings
    ELSE \E effects \in {Effects(settings, o, t)} :
            IF effects = {} THEN outcome' = "error" /\ UNCHANGED settings
            ELSE settings' \in effects /\ UNCHANGED outcome

(* The value is the argument that follows, whatever it looks like, and is  *)
(* blanked with "used", the arguments that named the option.               *)
CallWithNext(o, used) ==
    IF pos = Len(argv) THEN Refuse
    ELSE /\ Call(o, argv[pos + 1])
         /\ argv' = [i \in DOMAIN argv |-> IF i \in used \cup {pos + 1} THEN "" ELSE argv[i]]
         /\ pos' = pos + 2
         /\ rest' = ""

(* --name, --name=value or --name value *)
LongOption ==
    /\ AtArgument /\ ~skipping /\ Dashes(Arg) >= 2 /\ Arg # "--"
    /\ \E end \in {NameEnd(Arg)} : \E found \in {FindLf(SubSeq(Arg, 1, end - 1))} :
          IF Cardinality(found) # 1 THEN Refuse    \* unknown, or ambiguous
          ELSE \E o \in {Options[i] : i \in found} :
                  LET given == end <= Len(Arg)
                  IN  IF o.takes # given
                      THEN IF given THEN Refuse ELSE CallWithNext(o, {pos})
                      ELSE /\ Call(o, SubSeq(Arg, end + 1, Len(Arg)))
                           /\ argv' = [argv EXCEPT ![pos] = ""]
                           /\ pos' = pos + 1
                           /\ UNCHANGED rest
    /\ UNCHANGED <<tool, skipping, count>>

(* -abc: the letters are read one by one. *)
StartCluster ==
    /\ AtArgument /\ ~skipping /\ Dashes(Arg) = 1 /\ Arg # "-"
    /\ rest' = SubSeq(Arg, 2, Len(Arg))
    /\ argv' = [argv EXCEPT ![pos] = ""]
    /\ UNCHANGED <<tool, pos, skipping, count, settings, outcome>>

(* The first option with this letter.  One that takes a value takes the    *)
(* rest of the cluster for it, or the next argument.                       *)
ShortOption ==
    /\ outcome = "parsing" /\ rest # ""
    /\ LET found == FindSf(SubSeq(rest, 1, 1))
           after == SubSeq(rest, 2, Len(rest))
       IN  IF found = {} THEN Refuse
           ELSE \E o \in {Options[Min(found)]} :
                   IF o.takes /\ after = "" THEN CallWithNext(o, {})
                   ELSE /\ Call(o, after)
                        /\ rest' = IF o.takes THEN "" ELSE after
                        /\ pos' = IF rest' = "" THEN pos + 1 ELSE pos
                        /\ UNCHANGED argv
    /\ UNCHANGED <<tool, skipping, count>>

OptParse ==
    ReadTable \/ CountArgument \/ EndOfOptions \/ LongOption \/ StartCluster \/ ShortOption

(* opt_parse returns. *)
Parsed == outcome = "parsing" /\ rest = "" /\ pos > Len(argv)

OptionsInit ==
    \E line \in Lines :
        /\ tool = line[1] /\ argv = line[2] /\ settings = Defaults(line[1])
        /\ pos = 1 /\ rest = "" /\ skipping = FALSE /\ count = 0 /\ outcome = "start"

=============================================================================
