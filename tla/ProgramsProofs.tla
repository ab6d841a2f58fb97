--------------------------- MODULE ProgramsProofs ---------------------------
(***************************************************************************)
(* What the programs make of a command line and of their probes, for any   *)
(* command line, any table of options, any host and any words.             *)
(*                                                                         *)
(* opt_parse blanks what it uses and counts the rest, and the programs     *)
(* trust that count and the last argument.  The argument is that operands  *)
(* come last: once one is counted everything that follows is, so that if   *)
(* one alone was counted it is the argument just read, and blanks precede  *)
(* it.                                                                     *)
(*                                                                         *)
(* What they make of a probe is in PacketProofs.  Here a main is shown to  *)
(* hand it a program whose protocols, payload and steps are as it needs,   *)
(* and whose addresses, ports, times to live and flows are words: the      *)
(* tables of options and the callbacks let nothing else through.  Its      *)
(* program is what the settings ask for, and the skeleton what the program *)
(* says (ProgramAsked, Drawn).                                             *)
(***************************************************************************)
EXTENDS Programs, PacketProofs

(* An argument that was used, and a cluster whose letters were all read. *)
Used == ""

Texts == STRING \cup {Used}

(* The first n arguments of a line were used. *)
Blank(line, n) == \A i \in 1 .. n : line[i] = Used

(* While the arguments are read, a cluster of letters is at an argument    *)
(* that is blank already. *)
Reading ==
    /\ pos \in 1 .. Len(argv) + 1
    /\ count \in Nat
    /\ rest # Used => pos <= Len(argv) /\ argv[pos] = Used /\ ~skipping
    /\ ~skipping => count = 0
    /\ count = 0 => Blank(argv, pos - 1)
    /\ count = 1 => pos > 1 /\ Blank(argv, pos - 2)

CommandLineInv ==
    /\ argv \in Seq(Texts)
    /\ outcome = "start" => pos = 1 /\ rest = Used /\ skipping = FALSE /\ count = 0
    /\ outcome = "parsing" => Reading
    /\ DestinationIsOperand

LEMMA CommandLineInit ==
    ASSUME Init
    PROVE  CommandLineInv
<1>1. argv \in Seq(Texts) /\ outcome = "start"
  <2>1. argv \in Seq(STRING) /\ outcome = "start"
    BY OptionsAssumption DEF Init, OptionsInit
  <2> QED
    BY <2>1 DEF Texts
<1>2. pos = 1 /\ rest = Used /\ skipping = FALSE /\ count = 0
  BY DEF Init, OptionsInit, Used
<1>3. DestinationIsOperand
  BY <1>1 DEF DestinationIsOperand
<1> QED
  BY <1>1, <1>2, <1>3 DEF CommandLineInv

(* The main of a program that runs has checked that one argument was       *)
(* counted, and that the last one is the name of a host.                   *)
LEMMA AcceptedLine ==
    ASSUME CommandLineInv, Parsed, Accepted
    PROVE  argv[Len(argv)] # Used /\ Blank(argv, Len(argv) - 1)
<1>1. outcome = "parsing" /\ count = 1 /\ pos > Len(argv)
  BY Zenon DEF Parsed, Accepted
<1>2. argv \in Seq(Texts) /\ Reading
  BY <1>1 DEF CommandLineInv
<1>3. Len(argv) \in Nat
  BY <1>2
<1>4. pos = Len(argv) + 1 /\ Blank(argv, pos - 2)
  BY <1>1, <1>2, <1>3 DEF Reading
<1>5. pos - 2 = Len(argv) - 1
  BY <1>3, <1>4
<1>6. argv[Len(argv)] \in DOMAIN Hosts
  BY Zenon DEF Accepted, Resolves, Destination
<1>7. Used \notin DOMAIN Hosts
  BY ProgramsAssumption, Zenon DEF Used
<1> QED
  BY <1>4, <1>5, <1>6, <1>7

LEMMA MainKeepsLine ==
    ASSUME CommandLineInv, Main
    PROVE  CommandLineInv'
<1>1. argv' = argv /\ tool' = tool
  BY DEF Main
<1>2. argv' \in Seq(Texts)
  BY <1>1 DEF CommandLineInv
<1>3. outcome' \in {"error", "run"}
  BY Zenon DEF Main, TracerouteMain, PingMain, ExampleMain, Fail, Run
<1>4. outcome' = "run" /\ tool # ExampleTool => argv[Len(argv)] # Used /\ Blank(argv, Len(argv) - 1)
  <2> SUFFICES ASSUME outcome' = "run", tool # ExampleTool
               PROVE  argv[Len(argv)] # Used /\ Blank(argv, Len(argv) - 1)
    OBVIOUS
  <2>1. TracerouteMain \/ PingMain
    BY DEF Main, ExampleMain
  <2>2. ~Fail
    BY DEF Fail
  <2>3. Parsed /\ Accepted
    BY <2>1, <2>2, Zenon DEF TracerouteMain, PingMain
  <2> QED
    BY <2>3, AcceptedLine
<1>5. DestinationIsOperand'
  <2>1. outcome' = "run" /\ tool' # ExampleTool
          => argv'[Len(argv')] # Used /\ Blank(argv', Len(argv') - 1)
    BY <1>1, <1>4
  <2> QED
    BY <2>1, Zenon DEF DestinationIsOperand, Blank, Used, ExampleTool
<1> QED
  BY <1>2, <1>3, <1>5 DEF CommandLineInv

(* Steps after which the arguments are still read, or never again. *)
LEMMA StillReading ==
    ASSUME argv' \in Seq(Texts),
           outcome' \in {"parsing", "exit", "error"},
           outcome' = "parsing" => Reading'
    PROVE  CommandLineInv'
<1>1. DestinationIsOperand'
  BY Zenon DEF DestinationIsOperand
<1> QED
  BY <1>1 DEF CommandLineInv

LEMMA ReadTableKeepsLine ==
    ASSUME CommandLineInv, ReadTable
    PROVE  CommandLineInv'
<1>1. argv' = argv /\ argv \in Seq(Texts)
  BY DEF ReadTable, CommandLineInv
<1>2. pos' = 1 /\ rest' = Used /\ skipping' = FALSE /\ count' = 0
  BY DEF ReadTable, CommandLineInv
<1>3. outcome' \in {"parsing", "undefined"}
  BY DEF ReadTable
<1>4. Len(argv) \in Nat
  BY <1>1
<1>5. Reading'
  BY <1>1, <1>2, <1>4 DEF Reading, Blank
<1>6. DestinationIsOperand'
  BY <1>3, Zenon DEF DestinationIsOperand
<1> QED
  BY <1>1, <1>3, <1>5, <1>6 DEF CommandLineInv

LEMMA CountArgumentKeepsLine ==
    ASSUME CommandLineInv, CountArgument
    PROVE  CommandLineInv'
<1>1. outcome = "parsing" /\ rest = Used /\ pos <= Len(argv)
  BY Zenon DEF CountArgument, AtArgument, Used
<1>2. argv' = argv /\ outcome' = "parsing" /\ rest' = Used
  BY <1>1 DEF CountArgument
<1>3. argv \in Seq(Texts) /\ Reading
  BY <1>1 DEF CommandLineInv
<1>4. Len(argv) \in Nat /\ pos \in 1 .. Len(argv) /\ count \in Nat
  BY <1>1, <1>3 DEF Reading
<1>5. skipping' = TRUE /\ pos' = pos + 1 /\ count' = count + 1
  BY Zenon DEF CountArgument
<1>6. count' = 1 => Blank(argv, pos - 1)
  BY <1>3, <1>4, <1>5 DEF Reading
<1>7. Reading'
  BY <1>2, <1>4, <1>5, <1>6 DEF Reading
<1> QED
  BY <1>2, <1>3, <1>7, StillReading

(* A line with one argument blanked. *)
LEMMA BlankedLine ==
    ASSUME NEW line \in Seq(Texts), NEW k \in 1 .. Len(line)
    PROVE  /\ [line EXCEPT ![k] = Used] \in Seq(Texts)
           /\ Len([line EXCEPT ![k] = Used]) = Len(line)
<1>1. Used \in Texts
  BY DEF Texts
<1> QED
  BY <1>1, ExceptSeq

LEMMA EndOfOptionsKeepsLine ==
    ASSUME CommandLineInv, EndOfOptions
    PROVE  CommandLineInv'
<1>1. outcome = "parsing" /\ rest = Used /\ pos <= Len(argv) /\ ~skipping
  BY Zenon DEF EndOfOptions, AtArgument, Used
<1>2. argv \in Seq(Texts) /\ Reading
  BY <1>1 DEF CommandLineInv
<1>3. Len(argv) \in Nat /\ pos \in 1 .. Len(argv)
  BY <1>1, <1>2 DEF Reading
<1>4. argv' = [argv EXCEPT ![pos] = Used]
  BY Zenon DEF EndOfOptions, Used
<1>5. pos' = pos + 1 /\ rest' = Used /\ count' = 0 /\ outcome' = "parsing"
  BY <1>1, <1>2 DEF EndOfOptions, Reading
<1>6. argv' \in Seq(Texts) /\ Len(argv') = Len(argv)
  BY <1>2, <1>3, <1>4, BlankedLine
<1>7. Blank(argv', pos)
  BY <1>1, <1>2, <1>3, <1>4 DEF Reading, Blank
<1>8. Reading'
  BY <1>3, <1>5, <1>6, <1>7 DEF Reading
<1> QED
  BY <1>5, <1>6, <1>8, StillReading

(* The call of an option reads nothing, and does not start the program. *)
LEMMA CallStays ==
    ASSUME NEW o, NEW t, outcome = "parsing", Call(o, t)
    PROVE  outcome' \in {"parsing", "exit", "error"}
<1>1. CASE o.action \in {"help", "version"}
  BY <1>1 DEF Call
<1>2. CASE o.action \notin {"help", "version"}
  <2>1. PICK effects \in {Effects(settings, o, t)} :
            IF effects = {} THEN outcome' = "error" /\ UNCHANGED settings
            ELSE settings' \in effects /\ UNCHANGED outcome
    BY <1>2, Zenon DEF Call
  <2> QED
    BY <2>1
<1> QED
  BY <1>1, <1>2

(* An option that is done with n arguments, blank from the one read on: the *)
(* operands have not begun. *)
LEMMA OptionRead ==
    ASSUME CommandLineInv, outcome = "parsing", ~skipping,
           NEW n \in {1, 2}, pos + n - 1 <= Len(argv),
           argv' \in Seq(Texts), Len(argv') = Len(argv),
           Blank(argv, pos - 1) => Blank(argv', pos + n - 1),
           pos' = pos + n, rest' = Used, skipping' = skipping, count' = count,
           outcome' \in {"parsing", "exit", "error"}
    PROVE  CommandLineInv'
<1>1. argv \in Seq(Texts) /\ Reading
  BY DEF CommandLineInv
<1>2. Len(argv) \in Nat /\ pos \in 1 .. Len(argv) + 1 /\ count = 0 /\ Blank(argv, pos - 1)
  BY <1>1 DEF Reading
<1>3. Blank(argv', pos' - 1) /\ pos' \in 1 .. Len(argv') + 1
  BY <1>2
<1>4. Reading'
  BY <1>2, <1>3 DEF Reading
<1> QED
  BY <1>4, StillReading

(* CallWithNext, whatever it blanks besides the value, as long as the      *)
(* argument that is read is blanked. *)
LEMMA CallWithNextKeepsLine ==
    ASSUME CommandLineInv, outcome = "parsing", ~skipping, pos <= Len(argv),
           NEW o, NEW used \in SUBSET {pos}, pos \in used \/ argv[pos] = Used,
           CallWithNext(o, used), skipping' = skipping, count' = count
    PROVE  CommandLineInv'
<1>1. argv \in Seq(Texts) /\ Len(argv) \in Nat /\ pos \in 1 .. Len(argv)
  BY DEF CommandLineInv, Reading
<1>2. CASE pos = Len(argv)
  BY <1>1, <1>2, StillReading DEF CallWithNext, Refuse
<1>3. CASE pos # Len(argv)
  <2>1. Call(o, argv[pos + 1]) /\ pos' = pos + 2
    BY <1>3, Zenon DEF CallWithNext
  <2>2. argv' = [i \in DOMAIN argv |-> IF i \in used \cup {pos + 1} THEN Used ELSE argv[i]]
        /\ rest' = Used
    BY <1>3, Zenon DEF CallWithNext, Used
  <2>3. outcome' \in {"parsing", "exit", "error"}
    BY <2>1, CallStays
  <2>4. DOMAIN argv = 1 .. Len(argv) /\ \A i \in 1 .. Len(argv) : argv'[i] \in Texts
    BY <1>1, <2>2 DEF Texts
  <2>5. argv' \in Seq(Texts) /\ Len(argv') = Len(argv)
    BY <1>1, <2>2, <2>4
  <2>6. Blank(argv, pos - 1) => Blank(argv', pos + 1)
    BY <1>1, <2>2, <1>3 DEF Blank
  <2> QED
    BY <1>1, <1>3, <2>1, <2>2, <2>3, <2>5, <2>6, OptionRead
<1> QED
  BY <1>2, <1>3

LEMMA LongOptionKeepsLine ==
    ASSUME CommandLineInv, LongOption
    PROVE  CommandLineInv'
<1>1. outcome = "parsing" /\ rest = Used /\ pos <= Len(argv) /\ ~skipping
  BY Zenon DEF LongOption, AtArgument, Used
<1>2. argv \in Seq(Texts) /\ Reading
  BY <1>1 DEF CommandLineInv
<1>3. skipping' = skipping /\ count' = count
  BY DEF LongOption
<1>4. Len(argv) \in Nat /\ pos \in 1 .. Len(argv)
  BY <1>1, <1>2 DEF Reading
<1>5. PICK end \in {NameEnd(Arg)} : \E found \in {FindLf(SubSeq(Arg, 1, end - 1))} :
          IF Cardinality(found) # 1 THEN Refuse
          ELSE \E o \in {Options[i] : i \in found} :
                  LET given == end <= Len(Arg)
                  IN  IF o.takes # given
                      THEN IF given THEN Refuse ELSE CallWithNext(o, {pos})
                      ELSE /\ Call(o, SubSeq(Arg, end + 1, Len(Arg)))
                           /\ argv' = [argv EXCEPT ![pos] = Used]
                           /\ pos' = pos + 1
                           /\ UNCHANGED rest
  BY Zenon DEF LongOption, Used
<1>6. \/ Refuse
      \/ \E o : CallWithNext(o, {pos})
      \/ \E o, t : Call(o, t) /\ argv' = [argv EXCEPT ![pos] = Used] /\ pos' = pos + 1
                  /\ UNCHANGED rest
  BY <1>5, Zenon
<1>7. CASE Refuse
  <2>1. outcome' = "error" /\ argv' = argv
    BY <1>7 DEF Refuse
  <2> QED
    BY <1>2, <2>1, StillReading
<1>8. CASE \E o : CallWithNext(o, {pos})
  BY <1>1, <1>3, <1>8, CallWithNextKeepsLine
<1>9. CASE \E o, t : Call(o, t) /\ argv' = [argv EXCEPT ![pos] = Used] /\ pos' = pos + 1
                     /\ UNCHANGED rest
  <2>1. PICK o, t : Call(o, t) /\ argv' = [argv EXCEPT ![pos] = Used] /\ pos' = pos + 1
                    /\ UNCHANGED rest
    BY <1>9
  <2>2. outcome' \in {"parsing", "exit", "error"}
    BY <1>1, <2>1, CallStays
  <2>3. argv' \in Seq(Texts) /\ Len(argv') = Len(argv)
    BY <1>2, <1>4, <2>1, BlankedLine
  <2>4. Blank(argv, pos - 1) => Blank(argv', pos)
    BY <1>2, <1>4, <2>1 DEF Blank
  <2> QED
    BY <1>1, <1>3, <1>4, <2>1, <2>2, <2>3, <2>4, OptionRead
<1> QED
  BY <1>6, <1>7, <1>8, <1>9

LEMMA StartClusterKeepsLine ==
    ASSUME CommandLineInv, StartCluster
    PROVE  CommandLineInv'
<1>1. outcome = "parsing" /\ pos <= Len(argv) /\ ~skipping
  BY Zenon DEF StartCluster, AtArgument
<1>2. argv \in Seq(Texts) /\ Reading
  BY <1>1 DEF CommandLineInv
<1>3. Len(argv) \in Nat /\ pos \in 1 .. Len(argv) /\ count = 0 /\ Blank(argv, pos - 1)
  BY <1>1, <1>2 DEF Reading
<1>4. argv' = [argv EXCEPT ![pos] = Used]
  BY Zenon DEF StartCluster, Used
<1>5. pos' = pos /\ skipping' = skipping /\ count' = count /\ outcome' = "parsing"
  BY <1>1 DEF StartCluster
<1>6. argv' \in Seq(Texts) /\ Len(argv') = Len(argv)
  BY <1>2, <1>3, <1>4, BlankedLine
<1>7. Blank(argv', pos) /\ argv'[pos] = Used
  BY <1>2, <1>3, <1>4 DEF Blank
<1>8. Reading'
  BY <1>1, <1>3, <1>5, <1>6, <1>7 DEF Reading, Blank
<1> QED
  BY <1>5, <1>6, <1>8, StillReading

LEMMA ShortOptionKeepsLine ==
    ASSUME CommandLineInv, ShortOption
    PROVE  CommandLineInv'
<1>1. outcome = "parsing" /\ rest # Used
  BY Zenon DEF ShortOption, Used
<1>2. argv \in Seq(Texts) /\ Reading
  BY <1>1 DEF CommandLineInv
<1>3. Len(argv) \in Nat /\ pos \in 1 .. Len(argv) /\ argv[pos] = Used /\ ~skipping
  BY <1>1, <1>2 DEF Reading
<1>4. skipping' = skipping /\ count' = count
  BY DEF ShortOption
<1> DEFINE found == FindSf(SubSeq(rest, 1, 1))
           after == SubSeq(rest, 2, Len(rest))
<1>5. CASE found = {}
  <2>1. outcome' = "error" /\ argv' = argv
    BY <1>5, Zenon DEF ShortOption, Refuse
  <2> QED
    BY <1>2, <2>1, StillReading
<1>6. CASE found # {}
  <2>1. PICK o \in {Options[Min(found)]} :
            IF o.takes /\ after = Used THEN CallWithNext(o, {})
            ELSE /\ Call(o, after)
                 /\ rest' = IF o.takes THEN Used ELSE after
                 /\ pos' = IF rest' = Used THEN pos + 1 ELSE pos
                 /\ UNCHANGED argv
    BY <1>6, Zenon DEF ShortOption, Used
  <2>2. CASE o.takes /\ after = Used
    <3>1. CallWithNext(o, {})
      BY <2>1, <2>2
    <3> QED
      BY <1>1, <1>3, <1>4, <3>1, CallWithNextKeepsLine
  <2>3. CASE ~(o.takes /\ after = Used)
    <3>1. Call(o, after) /\ pos' = (IF rest' = Used THEN pos + 1 ELSE pos) /\ argv' = argv
      BY <2>1, <2>3, Zenon
    <3>2. outcome' \in {"parsing", "exit", "error"}
      BY <1>1, <3>1, CallStays
    <3>3. Blank(argv, pos - 1) => Blank(argv, pos)
      BY <1>3 DEF Blank
    <3>4. CASE rest' = Used
      <4>1. pos' = pos + 1
        BY <3>1, <3>4
      <4> QED
        BY <1>1, <1>2, <1>3, <1>4, <3>1, <3>2, <3>3, <3>4, <4>1, OptionRead
    <3>5. CASE rest' # Used
      <4>1. Reading'
        BY <1>2, <1>3, <1>4, <3>1, <3>3, <3>5 DEF Reading
      <4> QED
        BY <1>2, <3>1, <3>2, <4>1, StillReading
    <3> QED
      BY <3>4, <3>5
  <2> QED
    BY <2>2, <2>3
<1> QED
  BY <1>5, <1>6

LEMMA OtherStepsKeepLine ==
    ASSUME CommandLineInv,
           SetFlag \/ (ProbeNext /\ UNCHANGED cmdVars) \/ UNCHANGED <<vars, cmdVars>>
    PROVE  CommandLineInv'
<1>1. CASE SetFlag
  <2>1. UNCHANGED <<tool, argv, pos, rest, skipping, count>>
    BY <1>1, Zenon DEF SetFlag
  <2>2. outcome = "run" /\ (outcome' = "aborted" \/ outcome' = outcome)
    BY <1>1, Zenon DEF SetFlag
  <2>3. DestinationIsOperand'
    BY <2>1, <2>2, Zenon DEF CommandLineInv, DestinationIsOperand, ExampleTool
  <2> QED
    BY <2>1, <2>2, <2>3 DEF CommandLineInv
<1>2. CASE UNCHANGED cmdVars
  <2>1. UNCHANGED <<tool, argv, pos, rest, skipping, count, outcome>>
    BY <1>2 DEF cmdVars
  <2>2. DestinationIsOperand'
    BY <2>1, Zenon DEF CommandLineInv, DestinationIsOperand, ExampleTool
  <2> QED
    BY <2>1, <2>2 DEF CommandLineInv, Reading
<1> QED
  BY <1>1, <1>2

(* Whatever the command line, a program that runs aims at the one argument *)
(* that no option has used, and every other argument was used              *)
(* (opt_parse, and main of paris-traceroute.c and paris-ping.c).           *)
THEOREM DestinationIsTheOperand == Spec => []DestinationIsOperand
<1>1. Init => CommandLineInv
  BY CommandLineInit
<1>2. CommandLineInv /\ [Next]_<<vars, cmdVars>> => CommandLineInv'
  <2> SUFFICES ASSUME CommandLineInv, [Next]_<<vars, cmdVars>>
               PROVE  CommandLineInv'
    OBVIOUS
  <2>1. CASE ReadTable
    BY <2>1, ReadTableKeepsLine
  <2>2. CASE CountArgument
    BY <2>2, CountArgumentKeepsLine
  <2>3. CASE EndOfOptions
    BY <2>3, EndOfOptionsKeepsLine
  <2>4. CASE LongOption
    BY <2>4, LongOptionKeepsLine
  <2>5. CASE StartCluster
    BY <2>5, StartClusterKeepsLine
  <2>6. CASE ShortOption
    BY <2>6, ShortOptionKeepsLine
  <2>7. CASE Main
    BY <2>7, MainKeepsLine
  <2>8. CASE SetFlag \/ (ProbeNext /\ UNCHANGED cmdVars) \/ UNCHANGED <<vars, cmdVars>>
    BY <2>8, OtherStepsKeepLine
  <2>9. OptParse \/ Main \/ SetFlag \/ (ProbeNext /\ UNCHANGED cmdVars)
        \/ UNCHANGED <<vars, cmdVars>>
    BY DEF Next
  <2>10. CASE OptParse
    BY <2>1, <2>2, <2>3, <2>4, <2>5, <2>6, <2>10 DEF OptParse
  <2> QED
    BY <2>7, <2>8, <2>9, <2>10
<1>3. CommandLineInv => DestinationIsOperand
  BY DEF CommandLineInv
<1> QED
  BY <1>1, <1>2, <1>3, PTL DEF Spec

-----------------------------------------------------------------------------
(* The programs *)

(* Until its command line is read, a program has not begun its skeleton. *)
Waiting == todo # << >> /\ Head(todo) = "options" /\ NoSkeleton

ProgramsInv == PacketInv /\ (outcome \in {"start", "parsing"} => Waiting)

LEMMA WaitingIsUnknown ==
    ASSUME PacketInv, Waiting
    PROVE  Unknown
  BY DEF PacketInv, Waiting, Unknown, Ready, Running

LEMMA ProgramsInit ==
    ASSUME Init
    PROVE  ProgramsInv
<1>1. PacketInv
  BY PacketInit DEF Init
<1>2. PICK t : t = <<"options">>
  OBVIOUS
<1>3. t # << >> /\ Head(t) = "options"
  BY <1>2
<1>4. todo = t /\ NoSkeleton
  BY <1>2 DEF Init, ProbeInit, NoSkeleton
<1> QED
  BY <1>1, <1>3, <1>4 DEF ProgramsInv, Waiting

(* A family of addresses, whatever decides on it. *)
LEMMA FamilyKnown ==
    ASSUME NEW s, NEW name \in DOMAIN Hosts
    PROVE  GuessFamily(name) \in IpNames /\ FamilyOf(s, name) \in IpNames
<1>1. PICK T : T = [family : IpNames, address : Words \ {0}]
  OBVIOUS
<1>2. Hosts[name] \in Seq(T) /\ Hosts[name] # << >>
  BY <1>1, ProgramsAssumption
<1>3. Hosts[name][1] \in T
  BY <1>2
<1>4. GuessFamily(name) \in IpNames
  BY <1>1, <1>3 DEF GuessFamily
<1> QED
  BY <1>4 DEF FamilyOf, IpNames

(* The first step of a main that runs, and the protocols it decides on. *)
LEMMA RunReady ==
    ASSUME Unknown, NEW p, Run(p),
           skel' = skel, sendq' = sendq, flying' = flying, wire' = wire,
           p.net \in IpNames, p.l4 \in TransportNames, p.payload \in Nat, p.flows \subseteq Int,
           p.steps # << >>, Head(p.steps) = "protocols"
    PROVE  Ready'
  BY DEF Unknown, Ready, Run, GoodProgram, NoSkeleton, NoProbe

(* The steps of a program: lists that begin with a known one. *)
Begins(s, a) == IsList(s) /\ Len(s) > 0 /\ s[1] = a

LEMMA SomeTuples ==
    ASSUME NEW a, NEW b, NEW c
    PROVE  IsList(<< >>) /\ IsList(<<a>>) /\ Begins(<<a, b>>, a) /\ Begins(<<a, b, c>>, a)
<1>1. << >> \in Seq({a, b, c}) /\ <<a>> \in Seq({a, b, c})
  OBVIOUS
<1>2. <<a, b>> \in Seq({a, b, c}) /\ <<a, b, c>> \in Seq({a, b, c})
  OBVIOUS
<1>3. Len(<<a, b>>) = 2 /\ <<a, b>>[1] = a
  OBVIOUS
<1>4. Len(<<a, b, c>>) = 3 /\ <<a, b, c>>[1] = a
  OBVIOUS
<1>5. IsList(<< >>) /\ IsList(<<a>>)
  BY <1>1 DEF IsList
<1>6. Begins(<<a, b>>, a)
  <2>1. PICK s : s = <<a, b>>
    OBVIOUS
  <2>2. s \in Seq({a, b, c}) /\ Len(s) > 0 /\ s[1] = a
    BY <1>2, <1>3, <2>1
  <2> QED
    BY <2>1, <2>2 DEF Begins, IsList
<1>7. Begins(<<a, b, c>>, a)
  <2>1. PICK s : s = <<a, b, c>>
    OBVIOUS
  <2>2. s \in Seq({a, b, c}) /\ Len(s) > 0 /\ s[1] = a
    BY <1>2, <1>4, <2>1
  <2> QED
    BY <2>1, <2>2 DEF Begins, IsList
<1> QED
  BY <1>5, <1>6, <1>7

LEMMA ConcatBegins ==
    ASSUME NEW s, NEW a, Begins(s, a), NEW t, IsList(t)
    PROVE  Begins(s \o t, a)
<1>1. PICK S : s \in Seq(S)
  BY DEF IsList, Begins
<1>2. PICK T : t \in Seq(T)
  BY DEF IsList
<1>3. PICK U : U = S \cup T
  OBVIOUS
<1>4. s \in Seq(U) /\ t \in Seq(U)
  BY <1>1, <1>2, <1>3
<1>5. Len(s \o t) > 0 /\ (s \o t)[1] = s[1]
  BY <1>4 DEF Begins
<1>6. s[1] = a /\ IsList(s \o t)
  BY ListConcat DEF Begins
<1> QED
  BY <1>5, <1>6 DEF Begins

LEMMA ListHead ==
    ASSUME NEW s, NEW a, Begins(s, a)
    PROVE  s # << >> /\ Head(s) = a
  BY DEF Begins, IsList

LEMMA StepsBegin ==
    ASSUME NEW more, IsList(more), NEW steps, steps = <<"protocols", "address">> \o more
    PROVE  steps # << >> /\ Head(steps) = "protocols"
<1>1. PICK s, a, b : s = <<a, b>> /\ a = "protocols" /\ b = "address"
  OBVIOUS
<1>2. Begins(s, a)
  BY <1>1, SomeTuples
<1>3. steps = s \o more
  BY <1>1
<1>4. Begins(steps, a)
  BY <1>2, <1>3, ConcatBegins
<1> QED
  BY <1>1, <1>4, ListHead

LEMMA PingStepsBegin ==
    ASSUME NEW ports, NEW flag, NEW steps, IsList(ports), IsList(flag),
           steps = <<"protocols", "address", "ttl">> \o ports \o <<"resize">> \o flag
    PROVE  steps # << >> /\ Head(steps) = "protocols"
<1>1. PICK first, resize, a, b, c, d :
          /\ first = <<a, b, c>> /\ resize = <<d>>
          /\ a = "protocols" /\ b = "address" /\ c = "ttl" /\ d = "resize"
  OBVIOUS
<1>2. Begins(first, a) /\ IsList(resize)
  BY <1>1, SomeTuples
<1>3. steps = first \o ports \o resize \o flag
  BY <1>1
<1>4. Begins(first \o ports, a)
  BY <1>2, ConcatBegins
<1>5. Begins(first \o ports \o resize, a)
  BY <1>2, <1>4, ConcatBegins
<1>6. Begins(steps, a)
  BY <1>3, <1>5, ConcatBegins
<1> QED
  BY <1>1, <1>6, ListHead

LEMMA WordsAreNatural ==
    ASSUME NEW bytes
    PROVE  WordsOf(bytes) \in Nat
<1>1. PICK S : S = {k \in 1 .. 2 : 2 * k <= bytes}
  OBVIOUS
<1>2. PICK lo \in Int, hi \in Int : S \subseteq lo .. hi
  BY <1>1
<1>3. Cardinality(S) \in Nat
  BY <1>2, FS_Interval, FS_Subset, FS_CardinalityType
<1> QED
  BY <1>1, <1>3 DEF WordsOf

LEMMA MainReady ==
    ASSUME Unknown, Main
    PROVE  Unknown' \/ Ready'
<1>1. /\ skel' = skel /\ sendq' = sendq /\ flying' = flying /\ wire' = wire
  BY DEF Main
<1>2. CASE Fail
  BY <1>1, <1>2 DEF Fail, Unknown, NoSkeleton, NoProbe
<1>3. \A f \in IpNames : IcmpOf(f) \in TransportNames
  BY DEF IcmpOf, TransportNames, IcmpNames
<1>4. {"tcp", "udp"} \subseteq TransportNames
  BY DEF TransportNames
<1>5. {0, 1} \subseteq Int /\ {NoFlow} \subseteq Int
  BY DEF NoFlow
<1>6. CASE Accepted /\ \E f \in {FamilyOf(settings, Destination)} :
              \E p \in {TracerouteProgram(settings, f, FirstAddress(f, Destination))} : Run(p)
  <2>1. PICK f, p : /\ f = FamilyOf(settings, Destination)
                    /\ p = TracerouteProgram(settings, f, FirstAddress(f, Destination))
                    /\ Run(p)
    BY <1>6
  <2>2. f \in IpNames
    BY <1>6, <2>1, FamilyKnown DEF Accepted, Resolves
  <2>3. p.l4 \in TransportNames
    <3>1. p.l4 = TracerouteProtocol(settings, f)
      BY <2>1 DEF TracerouteProgram
    <3> QED
      BY <1>3, <1>4, <2>2, <3>1 DEF TracerouteProtocol
  <2>4. p.net = f /\ p.payload = 1
        /\ p.flows = IF Head(settings.algorithm) = "mda" THEN {0, 1} ELSE {NoFlow}
    BY <2>1 DEF TracerouteProgram
  <2>5. PICK more : more = IF UsesIcmp(settings) THEN << >> ELSE <<"ports", "resize">>
    OBVIOUS
  <2>6. p.steps = <<"protocols", "address">> \o more /\ IsList(more)
    <3>1. p.steps = <<"protocols", "address">> \o more
      BY <2>1, <2>5 DEF TracerouteProgram
    <3>2. IsList(more)
      BY <2>5, SomeTuples DEF Begins
    <3> QED
      BY <3>1, <3>2
  <2>7. p.steps # << >> /\ Head(p.steps) = "protocols"
    BY <2>6, StepsBegin
  <2>8. p.payload \in Nat /\ p.flows \subseteq Int
    BY <1>5, <2>4
  <2> QED
    BY <1>1, <2>1, <2>2, <2>3, <2>4, <2>7, <2>8, RunReady
<1>7. CASE Accepted /\ \E f \in {FamilyOf(settings, Destination)} : \E source :
              \E p \in {PingProgram(settings, f, FirstAddress(f, Destination), source)} : Run(p)
  <2>1. PICK f, source, p : /\ f = FamilyOf(settings, Destination)
                            /\ p = PingProgram(settings, f, FirstAddress(f, Destination), source)
                            /\ Run(p)
    BY <1>7
  <2>2. f \in IpNames
    BY <1>7, <2>1, FamilyKnown DEF Accepted, Resolves
  <2>3. p.l4 \in TransportNames
    <3>1. p.l4 = PingProtocol(settings, f)
      BY <2>1 DEF PingProgram
    <3> QED
      BY <1>3, <1>4, <2>2, <3>1 DEF PingProtocol
  <2>4. /\ p.net = f /\ p.flows = {NoFlow}
        /\ p.payload = WordsOf(settings.packet_size - PingHeaders(settings, f))
    BY <2>1 DEF PingProgram
  <2>5. PICK ports, flag :
          /\ ports = IF UsesTcp(settings) \/ UsesUdp(settings) THEN <<"ports">> ELSE << >>
          /\ flag = IF settings.tcp THEN <<"flag">> ELSE << >>
    OBVIOUS
  <2>6. p.steps = <<"protocols", "address", "ttl">> \o ports \o <<"resize">> \o flag
    BY <2>1, <2>5 DEF PingProgram
  <2>7. IsList(ports) /\ IsList(flag)
    BY <2>5, SomeTuples
  <2>8. p.steps # << >> /\ Head(p.steps) = "protocols"
    BY <2>6, <2>7, PingStepsBegin
  <2>9. p.payload \in Nat
    BY <2>4, WordsAreNatural
  <2>10. p.flows \subseteq Int
    BY <1>5, <2>4
  <2> QED
    BY <1>1, <2>1, <2>2, <2>3, <2>4, <2>8, <2>9, <2>10, RunReady
<1>8. CASE \E p \in {ExampleProgram} : Run(p)
  <2>1. PICK p : p = ExampleProgram /\ Run(p)
    BY <1>8
  <2>2. /\ p.net = GuessFamily(ExampleHost) /\ p.l4 = "tcp" /\ p.payload = 2 /\ p.flows = {NoFlow}
        /\ p.steps = <<"protocols", "write", "target">>
    BY <2>1 DEF ExampleProgram
  <2>3. p.net \in IpNames
    BY <2>2, ProgramsAssumption, FamilyKnown
  <2>4. p.l4 \in TransportNames /\ p.payload \in Nat /\ p.flows \subseteq Int
    BY <1>4, <1>5, <2>2
  <2>5. p.steps # << >> /\ Head(p.steps) = "protocols"
    BY <2>2
  <2> QED
    BY <1>1, <2>1, <2>3, <2>4, <2>5, RunReady
<1>9. TracerouteMain \/ PingMain \/ ExampleMain
  BY DEF Main
<1>10. CASE TracerouteMain
  BY <1>2, <1>6, <1>10 DEF TracerouteMain
<1>11. CASE PingMain
  BY <1>2, <1>7, <1>11, Zenon DEF PingMain
<1>12. CASE ExampleMain
  BY <1>8, <1>12 DEF ExampleMain
<1> QED
  BY <1>9, <1>10, <1>11, <1>12

LEMMA SetFlagRuns ==
    ASSUME PacketInv, SetFlag
    PROVE  PacketInv' /\ outcome' \notin {"start", "parsing"}
<1>1. todo # << >> /\ Head(todo) = "flag" /\ outcome = "run"
  BY DEF SetFlag
<1>2. Running
  BY <1>1 DEF PacketInv, Unknown, Ready
<1>3. GoodProgram /\ NoProbe /\ Skeleton(skel, program.net, program.l4)
  BY <1>1, <1>2 DEF Running
<1>4. CASE outcome' = "aborted" /\ UNCHANGED vars
  <2>1. /\ program' = program /\ routed' = routed /\ skel' = skel /\ todo' = todo
        /\ sendq' = sendq /\ wire' = wire /\ flying' = flying
    BY <1>4 DEF vars
  <2> QED
    BY <1>4, <2>1, FlyingKept
<1>5. CASE outcome' = outcome /\ \E p \in {SetFieldFrom(skel, "flags", 1, 0), skel} : Built(p)
  <2>1. PICK p : p \in {SetFieldFrom(skel, "flags", 1, 0), skel} /\ Built(p)
    BY <1>5
  <2>2. Skeleton(SetFieldFrom(skel, "flags", 1, 0), program.net, program.l4)
    <3>1. "flags" \in Settable
      BY DEF Settable
    <3> QED
      BY <1>3, <3>1, SetFieldSkeleton DEF GoodProgram
  <2>3. Skeleton(p, program.net, program.l4)
    BY <1>3, <2>1, <2>2
  <2>4. Running'
    BY <1>3, <2>1, <2>3, BuiltRuns
  <2> QED
    BY <1>1, <1>5, <2>4 DEF PacketInv
<1>6. PICK end : end = FlagEnd(IF settings.ack THEN "ack" ELSE "syn")
  OBVIOUS
<1>7. IF end = "aborted"
      THEN outcome' = "aborted" /\ UNCHANGED vars
      ELSE /\ Built(IF end = "done" THEN SetFieldFrom(skel, "flags", 1, 0) ELSE skel)
           /\ outcome' = outcome
  BY <1>6, Zenon DEF SetFlag
<1> QED
  BY <1>4, <1>5, <1>7

(* A step that leaves all of the probes alone. *)
LEMMA ProbesStay ==
    ASSUME PacketInv, UNCHANGED vars
    PROVE  PacketInv' /\ (Waiting => Waiting')
<1>1. /\ program' = program /\ routed' = routed /\ skel' = skel /\ todo' = todo
      /\ sendq' = sendq /\ wire' = wire /\ flying' = flying
  BY DEF vars
<1>2. PacketInv'
  BY <1>1, FlyingKept
<1> QED
  BY <1>1, <1>2 DEF Waiting, NoSkeleton

LEMMA ProbeNextWaits ==
    ASSUME Waiting, ProbeNext
    PROVE  Waiting'
<1>1. ~Build
  BY DEF Build, SetProtocols, SetAddress, SetTtl, SetPorts, ResizePayload, WriteFirst, SetTarget,
         AtStep, Waiting
<1>2. ~SendProbe
  BY DEF SendProbe, Waiting
<1>3. todo' = todo /\ skel' = skel
  BY <1>1, <1>2 DEF ProbeNext, ProcessSendq, RouterAnswers, TargetAnswers, ProcessRecvq, DropOldest
<1> QED
  BY <1>3 DEF Waiting, NoSkeleton

LEMMA ReadsFirst ==
    ASSUME OptParse \/ Main
    PROVE  outcome \in {"start", "parsing"}
<1>1. OptParse => outcome \in {"start", "parsing"}
  BY Zenon DEF OptParse, ReadTable, CountArgument, EndOfOptions, LongOption, StartCluster, ShortOption,
               AtArgument
<1>2. Main => outcome \in {"start", "parsing"}
  BY Zenon DEF Main, TracerouteMain, PingMain, ExampleMain, Parsed
<1> QED
  BY <1>1, <1>2

LEMMA ProgramsNext ==
    ASSUME ProgramsInv, [Next]_<<vars, cmdVars>>
    PROVE  ProgramsInv'
<1>1. CASE OptParse /\ UNCHANGED vars
  BY <1>1, ReadsFirst, ProbesStay DEF ProgramsInv
<1>2. CASE Main
  <2>1. Unknown
    BY <1>2, ReadsFirst, WaitingIsUnknown DEF ProgramsInv
  <2>2. PacketInv'
    BY <1>2, <2>1, MainReady DEF PacketInv
  <2>3. outcome' \in {"error", "run"}
    BY <1>2, Zenon DEF Main, TracerouteMain, PingMain, ExampleMain, Fail, Run
  <2> QED
    BY <2>2, <2>3 DEF ProgramsInv
<1>3. CASE SetFlag
  BY <1>3, SetFlagRuns DEF ProgramsInv
<1>4. CASE ProbeNext /\ UNCHANGED cmdVars
  <2>1. outcome' = outcome
    BY <1>4 DEF cmdVars
  <2>2. PacketInv'
    BY <1>4, ProbeNextKeeps DEF ProgramsInv
  <2>3. Waiting => Waiting'
    BY <1>4, ProbeNextWaits
  <2> QED
    BY <2>1, <2>2, <2>3 DEF ProgramsInv
<1>5. CASE UNCHANGED <<vars, cmdVars>>
  <2>1. UNCHANGED vars /\ outcome' = outcome
    BY <1>5 DEF cmdVars
  <2> QED
    BY <2>1, ProbesStay DEF ProgramsInv
<1> QED
  BY <1>1, <1>2, <1>3, <1>4, <1>5 DEF Next

(* The inductive invariant of the programs. *)
THEOREM ProgramsInvariant == Spec => []ProgramsInv
<1>1. Init => ProgramsInv
  BY ProgramsInit
<1>2. ProgramsInv /\ [Next]_<<vars, cmdVars>> => ProgramsInv'
  BY ProgramsNext
<1> QED
  BY <1>1, <1>2, PTL DEF Spec

(* The layers of every probe on its way cover its packet without a gap or  *)
(* an overlap, whatever program runs and however often its packets are     *)
(* resized, copied, dissected and tagged (probe_packet_resize, probe_dup,  *)
(* probe_update_length, network_tag_probe); those of the skeleton do too   *)
(* when there is a route.                                                  *)
THEOREM ProbesTile == Spec => []Tiled
<1>1. ProgramsInv => Tiled
  BY ProbesTiled DEF ProgramsInv
<1> QED
  BY <1>1, ProgramsInvariant, PTL

(* The time to live, and over UDP and TCP the flow, that an algorithm finds *)
(* in the probe of an answer are those it asked for: neither the update of *)
(* the checksums nor the tag (network_tag_probe) touches them, whatever    *)
(* the payload.                                                            *)
THEOREM ProbesRemember == Spec => []Remembered
<1>1. ProgramsInv => Remembered
  BY ProbesRemembered DEF ProgramsInv
<1> QED
  BY <1>1, ProgramsInvariant, PTL

(* All packets of a UDP or TCP flow show a load balancer the same words,   *)
(* whatever their times to live and their tags: the promise that gives     *)
(* Paris traceroute its name (src/man/paris-traceroute.1).                 *)
THEOREM FlowsKeepTheirPath == Spec => []PathKept
<1>1. ProgramsInv => PathKept
  BY PathsKept DEF ProgramsInv
<1> QED
  BY <1>1, ProgramsInvariant, PTL

-----------------------------------------------------------------------------
(* Answers *)

(* The steps that no packet sees. *)
LEMMA QuietTags ==
    ASSUME TagInv, UNCHANGED vars
    PROVE  TagInv'
<1>1. /\ program' = program /\ skel' = skel /\ lastTag' = lastTag
      /\ sendq' = sendq /\ wire' = wire /\ flying' = flying /\ inbox' = inbox
  BY DEF vars
<1>2. FlyingLeft'
  BY <1>1 DEF TagInv, FlyingLeft
<1>3. AnswerLeft'
  BY <1>1, SameWire DEF TagInv, AnswerLeft
<1> QED
  BY <1>1, <1>2, <1>3, SameWire DEF TagInv

(* The steps before the skeleton is finished. *)
LEMMA UnfinishedTags ==
    ASSUME PacketInv, TagInv, todo # << >>,
           sendq' = sendq, wire' = wire, flying' = flying, inbox' = inbox, lastTag' = lastTag
    PROVE  TagInv'
<1>1. NoProbe
  BY DEF PacketInv, Unknown, Ready, Running
<1>2. NoProbe'
  BY <1>1 DEF NoProbe
<1> QED
  BY <1>1, <1>2, NothingSent

LEMMA BuildTags ==
    ASSUME PacketInv, TagInv, Build
    PROVE  TagInv' /\ inbox' = inbox
<1>1. todo # << >> /\ \E p : Built(p)
  BY DEF Build, SetProtocols, SetAddress, SetTtl, SetPorts, ResizePayload, WriteFirst, SetTarget,
         AtStep
<1>2. /\ sendq' = sendq /\ wire' = wire /\ flying' = flying /\ inbox' = inbox /\ lastTag' = lastTag
  BY <1>1 DEF Built
<1> QED
  BY <1>1, <1>2, UnfinishedTags

(* Every step keeps the tags, and only the reading of an answer takes it. *)
LEMMA TagsNext ==
    ASSUME MaxProbes <= W, ProgramsInv, TagInv, [Next]_<<vars, cmdVars>>
    PROVE  /\ TagInv'
           /\ inbox # << >> /\ inbox' = << >> => ProcessRecvq
<1>1. PacketInv
  BY DEF ProgramsInv
<1>2. CASE UNCHANGED vars
  BY <1>2, QuietTags DEF vars
<1>3. CASE Main
  <2>1. todo # << >>
    BY <1>3, ReadsFirst DEF ProgramsInv, Waiting
  <2>2. /\ sendq' = sendq /\ wire' = wire /\ flying' = flying /\ inbox' = inbox /\ lastTag' = lastTag
    BY <1>3 DEF Main
  <2> QED
    BY <1>1, <2>1, <2>2, UnfinishedTags
<1>4. CASE SetFlag /\ ~ UNCHANGED vars
  <2>1. todo # << >> /\ \E p : Built(p)
    BY <1>4, Zenon DEF SetFlag
  <2>2. /\ sendq' = sendq /\ wire' = wire /\ flying' = flying /\ inbox' = inbox /\ lastTag' = lastTag
    BY <2>1 DEF Built
  <2> QED
    BY <1>1, <2>1, <2>2, UnfinishedTags
<1>5. CASE Build
  BY <1>1, <1>5, BuildTags
<1>6. CASE SendProbe
  BY <1>6, SendProbeTags DEF SendProbe
<1>7. CASE ProcessSendq
  BY <1>1, <1>7, ProcessSendqTags DEF ProcessSendq
<1>8. CASE RouterAnswers \/ TargetAnswers
  BY <1>8, AnsweredTags DEF RouterAnswers, TargetAnswers
<1>9. CASE ProcessRecvq
  BY <1>9, ReceivedTags
<1>10. CASE DropOldest
  BY <1>10, ReceivedTags DEF DropOldest
<1>11. \/ UNCHANGED vars \/ Main \/ SetFlag \/ Build \/ SendProbe \/ ProcessSendq
       \/ RouterAnswers \/ TargetAnswers \/ ProcessRecvq \/ DropOldest
  BY DEF Next, ProbeNext, vars
<1> QED
  BY <1>2, <1>3, <1>4, <1>5, <1>6, <1>7, <1>8, <1>9, <1>10, <1>11

(* While no more packets leave than a tag has values, a quotation that goes *)
(* as far as the tag takes the probe it quotes off the list and no other,  *)
(* and none if that probe is not on the list any more                      *)
(* (network_get_matching_probe, reply_extract_tag): the tag is found in    *)
(* the fourth header of the reply, whatever the protocols, and no two      *)
(* packets have the same.                                                  *)
THEOREM AnswersFindTheirProbes ==
    ASSUME MaxProbes <= W
    PROVE  Spec => RightProbe
<1>1. Init => TagInv
  BY TagInit DEF Init
<1>2. ProgramsInv /\ TagInv /\ [Next]_<<vars, cmdVars>> => TagInv'
  BY TagsNext
<1>3. ProgramsInv /\ TagInv /\ [Next]_<<vars, cmdVars>>
        => [(inbox # << >> /\ inbox' = << >> /\ HoldsTag(inbox[1])) => TakesOnly(inbox[1].of)]_vars
  <2> SUFFICES ASSUME ProgramsInv, TagInv, [Next]_<<vars, cmdVars>>,
                      inbox # << >>, inbox' = << >>, HoldsTag(inbox[1])
               PROVE  TakesOnly(inbox[1].of)
    OBVIOUS
  <2>1. ProcessRecvq
    BY TagsNext
  <2> QED
    BY <2>1, AnswerFindsProbe DEF ProgramsInv
<1> QED
  BY <1>1, <1>2, <1>3, ProgramsInvariant, PTL DEF Spec, RightProbe

-----------------------------------------------------------------------------
(* The table of options *)

(* An option that has a name does one of these things, ports, a number of  *)
(* hops and a protocol are set as such, and nothing else is set in their   *)
(* stead.                                                                  *)
Actions == {"store_1", "store_0", "str", "int", "int_lim", "int_lim_en", "overrun", "choice",
            "int_3", "help", "version"}

GoodOption(o, tl) ==
    /\ o.action \in Actions \/ (o.action = "text" /\ o.sf = "" /\ o.lf = "")
    /\ o.data \in {"dst_port", "src_port"} => o.action = "int_lim_en"
    /\ o.data = "max_ttl" => o.action = "int_lim" \/ (o.action = "int" /\ tl = PingTool)
    /\ o.data = "protocol" => o.action = "choice"
    /\ o.action = "overrun" => o.data = "send_time"

GoodTable(v, tl) ==
    /\ IsList(v.cells) /\ v.num = Len(v.cells)
    /\ \A i \in 1 .. Len(v.cells) : GoodOption(v.cells[i], tl)

GoodOptions(os, tl) == IsList(os) /\ \A i \in 1 .. Len(os) : GoodOption(os[i], tl)

(* options_add_optspec adds a cell to a table (options.c:71-84).           *)
LEMMA AddKeepsTable ==
    ASSUME NEW tl, NEW v, GoodTable(v, tl), NEW o, GoodOption(o, tl)
    PROVE  GoodTable(AddOptspec(v, o), tl)
<1>1. CASE AddOptspec(v, o) = v
  BY <1>1
<1>2. CASE AddOptspec(v, o) = VectorPush(v, o)
  <2>1. PICK n \in Nat, s \in {v.cells} : n = Len(s) /\ n = v.num /\ IsList(s)
    BY ListDomain DEF GoodTable
  <2>2. PICK S : s \in Seq(S)
    BY <2>1 DEF IsList
  <2>3. PICK a, b, c : a = SubSeq(s, 1, n) /\ b = <<o>> /\ c = SubSeq(s, n + 2, n)
    OBVIOUS
  <2>4. IsList(a) /\ Len(a) = n /\ \A i \in 1 .. n : a[i] = s[i]
    <3>1. PICK i : i = 1
      OBVIOUS
    <3>2. IsList(s) /\ i \in Nat /\ n \in Nat /\ i >= 1 /\ n <= Len(s) /\ i <= n + 1
      BY <2>1, <3>1
    <3>3. /\ IsList(SubSeq(s, i, n)) /\ Len(SubSeq(s, i, n)) = n - i + 1
          /\ \A k \in 1 .. n - i + 1 : SubSeq(s, i, n)[k] = s[k + (i - 1)]
      BY ONLY <3>2, ListSub
    <3>4. a = SubSeq(s, i, n) /\ n - i + 1 = n
      BY <2>3, <3>1
    <3>5. \A k \in 1 .. n : k + (i - 1) = k
      BY <3>1
    <3> QED
      BY <3>3, <3>4, <3>5
  <2>5. IsList(b) /\ Len(b) = 1 /\ b[1] = o
    <3>1. b \in Seq({o})
      BY <2>3
    <3> QED
      BY <2>3, <3>1 DEF IsList
  <2>6. IsList(c) /\ Len(c) = 0
    <3>1. c \in Seq(S) /\ Len(c) = 0
      BY <2>1, <2>2, <2>3
    <3> QED
      BY <3>1 DEF IsList
  <2>7. PICK e : e = a \o b \o c
    OBVIOUS
  <2>8. IsList(e) /\ Len(e) = n + 1
        /\ \A i \in 1 .. n + 1 : e[i] = IF i <= n THEN s[i] ELSE o
    <3>1. PICK ab : ab = a \o b
      OBVIOUS
    <3>2. IsList(a) /\ IsList(b)
      BY <2>4, <2>5
    <3>3. /\ IsList(ab) /\ Len(ab) = Len(a) + Len(b)
          /\ \A i \in 1 .. Len(a) : ab[i] = a[i]
          /\ \A i \in 1 .. Len(b) : ab[Len(a) + i] = b[i]
      BY ONLY <3>1, <3>2, ListJoin
    <3>4. /\ Len(ab) = n + 1 /\ \A i \in 1 .. n : ab[i] = a[i]
          /\ ab[n + 1] = o
      BY <2>4, <2>5, <3>3
    <3>5. IsList(ab) /\ IsList(c)
      BY <2>6, <3>3
    <3>6. /\ IsList(ab \o c) /\ Len(ab \o c) = Len(ab) + Len(c)
          /\ \A i \in 1 .. Len(ab) : (ab \o c)[i] = ab[i]
      BY ONLY <3>5, ListJoin
    <3>7. /\ IsList(e) /\ Len(e) = n + 1
          /\ \A i \in 1 .. n + 1 : e[i] = ab[i]
      BY <2>6, <2>7, <3>1, <3>4, <3>6
    <3> QED
      BY <2>4, <3>4, <3>7
  <2>9. AddOptspec(v, o).cells = e /\ AddOptspec(v, o).num = n + 1
    <3>1. VectorPush(v, o).cells = SubSeq(s, 1, n) \o <<o>> \o SubSeq(s, n + 2, Len(s))
          /\ VectorPush(v, o).num = n + 1
      BY <2>1 DEF VectorPush
    <3>2. VectorPush(v, o).cells = a \o b \o c
      BY <2>1, <2>3, <3>1
    <3> QED
      BY <1>2, <2>7, <3>1, <3>2
  <2>10. \A i \in 1 .. n : GoodOption(s[i], tl)
    BY <2>1 DEF GoodTable
  <2>11. \A i \in 1 .. n + 1 : GoodOption(e[i], tl)
    BY <2>1, <2>8, <2>10
  <2> QED
    BY <2>8, <2>9, <2>11 DEF GoodTable
<1> QED
  BY <1>1, <1>2 DEF AddOptspec

(* The loop over the options of a static array. *)
IsGathering(f, v, os, S) ==
    f = [s \in SUBSET S |-> IF s = {} THEN v ELSE AddOptspec(f[s \ {Max(s)}], os[Max(s)])]

(* The table InitOptions gathers, one option of the static array after     *)
(* the other: the function of its definition exists.                       *)
LEMMA GatheringExists ==
    ASSUME NEW v, NEW os, NEW n \in Nat
    PROVE  \E f : IsGathering(f, v, os, 1 .. n)
<1> DEFINE S == {m \in Nat : ~ \E f : IsGathering(f, v, os, 1 .. m)}
<1>1. SUFFICES ASSUME S # {} PROVE FALSE
  OBVIOUS
<1>2. PICK m \in S : \A k \in S : m <= k
  BY <1>1, LeastNumber
<1>3. m # 0
  <2> DEFINE h == [s \in SUBSET (1 .. 0) |-> v]
  <2>1. \A s \in SUBSET (1 .. 0) : s = {}
    OBVIOUS
  <2>2. IsGathering(h, v, os, 1 .. 0)
    BY <2>1 DEF IsGathering
  <2> QED
    BY <2>2
<1>4. PICK f : IsGathering(f, v, os, 1 .. m - 1)
  <2>1. m - 1 \in Nat /\ ~ (m <= m - 1)
    BY <1>3
  <2> QED
    BY <1>2, <2>1
<1> DEFINE After(g, s) == IF s = {} THEN v ELSE AddOptspec(g[s \ {Max(s)}], os[Max(s)])
           h == [s \in SUBSET (1 .. m) |-> IF m \in s THEN After(f, s) ELSE f[s]]
<1>5. ASSUME NEW s \in SUBSET (1 .. m)
      PROVE  h[s] = After(h, s)
  <2>1. h[s] = IF m \in s THEN After(f, s) ELSE f[s]
    OBVIOUS
  <2>2. m \notin s \ {Max(s)}
    BY LargestOfPrefix
  <2>3. s \ {Max(s)} \in SUBSET (1 .. m)
    OBVIOUS
  <2>4. h[s \ {Max(s)}] = f[s \ {Max(s)}]
    BY <2>2, <2>3
  <2>5. After(h, s) = After(f, s)
    <3> HIDE DEF h
    <3> QED
      BY <2>4
  <2>6. CASE m \in s
    BY <2>1, <2>5, <2>6
  <2>7. CASE m \notin s
    <3>1. s \in SUBSET (1 .. m - 1)
      BY <2>7
    <3>2. f[s] = After(f, s)
      BY <1>4, <3>1 DEF IsGathering
    <3> HIDE DEF h, After
    <3> QED
      BY <2>1, <2>5, <2>7, <3>2
  <2> QED
    BY <2>6, <2>7
<1>6. IsGathering(h, v, os, 1 .. m)
  <2>1. h = [s \in SUBSET (1 .. m) |-> h[s]]
    OBVIOUS
  <2> HIDE DEF h
  <2>2. h = [s \in SUBSET (1 .. m) |-> After(h, s)]
    BY <1>5, <2>1
  <2> QED
    BY <2>2 DEF IsGathering
<1> QED
  BY <1>2, <1>6

(* A table gathered from good options is good.                             *)
LEMMA GatheredTable ==
    ASSUME NEW tl, NEW v, GoodTable(v, tl), NEW os, GoodOptions(os, tl)
    PROVE  GoodTable(AddOptspecs(v, os), tl)
<1>1. PICK n \in Nat : n = Len(os) /\ DOMAIN os = 1 .. n
  BY ListDomain DEF GoodOptions
<1> DEFINE F == CHOOSE f : IsGathering(f, v, os, DOMAIN os)
<1>2. AddOptspecs(v, os) = F[DOMAIN os]
  BY DEF AddOptspecs, FoldLeft, MapThenFoldSet, IsGathering
<1>3. IsGathering(F, v, os, 1 .. n)
  BY <1>1, GatheringExists
<1> HIDE DEF F
<1> DEFINE Bad == {m \in Nat : m <= n /\ ~GoodTable(F[1 .. m], tl)}
<1>4. SUFFICES ASSUME Bad # {} PROVE FALSE
  BY <1>1, <1>2
<1>5. PICK m \in Bad : \A k \in Bad : m <= k
  BY <1>4, LeastNumber
<1>6. m # 0
  <2>1. 1 .. 0 = {} /\ {} \in SUBSET (1 .. n)
    OBVIOUS
  <2>2. F[{}] = v
    BY <1>3, <2>1 DEF IsGathering
  <2> QED
    BY <1>5, <2>1, <2>2
<1>7. GoodTable(F[1 .. m - 1], tl)
  <2>1. m - 1 \in Nat /\ m - 1 <= n /\ ~(m <= m - 1)
    BY <1>5, <1>6
  <2> QED
    BY <1>5, <2>1
<1>8. F[1 .. m] = AddOptspec(F[1 .. m - 1], os[m])
  <2> DEFINE s == 1 .. m
  <2>1. m \in Nat /\ 1 <= m /\ m <= n
    BY <1>5, <1>6
  <2>2. s \in SUBSET (1 .. n) /\ s \in SUBSET (1 .. m) /\ m \in s
    BY <2>1
  <2>3. Max(s) = m
    BY <2>1, <2>2, LargestOfPrefix
  <2>4. s \ {m} = 1 .. m - 1
    BY <2>1
  <2> HIDE DEF s
  <2>5. F[s] = AddOptspec(F[s \ {Max(s)}], os[Max(s)])
    BY <1>3, <2>2 DEF IsGathering
  <2> QED
    BY <2>3, <2>4, <2>5 DEF s
<1>9. GoodOption(os[m], tl)
  BY <1>1, <1>5, <1>6 DEF GoodOptions
<1> QED
  BY <1>5, <1>7, <1>8, <1>9, AddKeepsTable

(* Options one after the other.                                            *)
LEMMA GoodJoin ==
    ASSUME NEW tl, NEW s, GoodOptions(s, tl), NEW t, GoodOptions(t, tl)
    PROVE  GoodOptions(s \o t, tl)
<1>1. IsList(s) /\ IsList(t)
  BY DEF GoodOptions
<1>2. PICK e : e = s \o t
  OBVIOUS
<1>3. /\ IsList(e) /\ Len(e) = Len(s) + Len(t)
      /\ \A i \in 1 .. Len(s) : e[i] = s[i]
      /\ \A i \in 1 .. Len(t) : e[Len(s) + i] = t[i]
  BY <1>1, <1>2, ListJoin
<1>4. PICK m \in Nat, n \in Nat : m = Len(s) /\ n = Len(t)
  BY <1>1, ListDomain
<1>5. ASSUME NEW i \in 1 .. Len(e)
      PROVE  GoodOption(e[i], tl)
  <2>1. i \in 1 .. m + n
    BY <1>3, <1>4
  <2>2. CASE i <= m
    BY <1>3, <1>4, <2>1, <2>2 DEF GoodOptions
  <2>3. CASE ~(i <= m)
    <3>1. PICK k \in 1 .. n : i = m + k
      <4>1. i - m \in 1 .. n /\ i = m + (i - m)
        BY <1>4, <2>1, <2>3
      <4> QED
        BY <4>1
    <3> QED
      BY <1>3, <1>4, <3>1 DEF GoodOptions
  <2> QED
    BY <2>2, <2>3
<1>6. GoodOptions(e, tl)
  BY <1>3, <1>5 DEF GoodOptions
<1> QED
  BY <1>2, <1>6

(* One option, and some that are good each.                                *)
LEMMA OneOption ==
    ASSUME NEW tl, NEW o, GoodOption(o, tl), NEW s, s = <<o>>
    PROVE  GoodOptions(s, tl)
<1>1. s \in Seq({o}) /\ Len(s) = 1 /\ s[1] = o
  OBVIOUS
<1>2. IsList(s)
  BY <1>1 DEF IsList
<1> QED
  BY <1>1, <1>2 DEF GoodOptions

LEMMA SomeOptions ==
    ASSUME NEW tl, NEW sf, NEW lf
    PROVE  /\ GoodOption(Header, tl)
           /\ \A d : d \notin {"dst_port", "src_port", "max_ttl", "protocol"} =>
                /\ GoodOption(Flag(sf, lf, d), tl) /\ GoodOption(Unflag(sf, d), tl)
                /\ \A a \in {"choice", "int_lim", "int_lim_en", "int", "str", "int_3"} :
                     GoodOption(Value(a, sf, lf, d), tl)
                /\ \A a \in {"help", "version"} : GoodOption(Opt(a, sf, lf, FALSE, d), tl)
           /\ GoodOption(Value("int_lim_en", sf, lf, "dst_port"), tl)
           /\ GoodOption(Value("int_lim_en", sf, lf, "src_port"), tl)
           /\ GoodOption(Value("choice", sf, lf, "protocol"), tl)
           /\ GoodOption(Value("int_lim", sf, lf, "max_ttl"), tl)
           /\ GoodOption(Value("overrun", sf, lf, "send_time"), tl)
           /\ tl = PingTool => GoodOption(Value("int", sf, lf, "max_ttl"), tl)
  BY DEF GoodOption, Actions, Header, Flag, Unflag, Value, Opt

(* The static arrays of the programs and of the library, one lemma each.   *)
LEMMA TracerouteRunnableGood ==
    ASSUME NEW tl
    PROVE  GoodOptions(TracerouteRunnable, tl)
<1>1. PICK a, b, c, d, e, f, g, h, i, j, k, l, m :
          /\ a = Header /\ b = Header /\ c = Flag("4", "", "ipv4") /\ d = Flag("6", "", "ipv6")
          /\ e = Value("choice", "a", "--algorithm", "algorithm")
          /\ f = Flag("d", "--debug", "debug")
          /\ g = Value("int_lim_en", "p", "--dst-port", "dst_port")
          /\ h = Value("int_lim_en", "s", "--src-port", "src_port")
          /\ i = Value("int_lim_en", "z", "", "send_time") /\ j = Flag("I", "--icmp", "icmp")
          /\ k = Value("choice", "P", "--protocol", "protocol") /\ l = Flag("T", "--tcp", "tcp")
          /\ m = Flag("U", "--udp", "udp")
  OBVIOUS
<1>2. PICK s : s = <<a, b, c, d, e, f, g, h, i, j, k, l, m>>
  OBVIOUS
<1>3. TracerouteRunnable = s
  BY <1>1, <1>2 DEF TracerouteRunnable
<1>4. Len(s) = 13 /\ IsList(s)
  <2>1. s \in Seq({a, b, c, d, e, f, g, h, i, j, k, l, m})
    BY <1>2
  <2> QED
    BY <1>2, <2>1 DEF IsList
<1>5. GoodOption(a, tl) /\ GoodOption(b, tl) /\ GoodOption(c, tl) /\ GoodOption(d, tl)
  BY <1>1, SomeOptions
<1>6. GoodOption(e, tl) /\ GoodOption(f, tl) /\ GoodOption(g, tl) /\ GoodOption(h, tl)
  BY <1>1, SomeOptions
<1>7. GoodOption(i, tl) /\ GoodOption(j, tl) /\ GoodOption(k, tl) /\ GoodOption(l, tl)
  BY <1>1, SomeOptions
<1>8. GoodOption(m, tl)
  BY <1>1, SomeOptions
<1>9. \A x \in 1 .. 13 : GoodOption(s[x], tl)
  BY <1>2, <1>5, <1>6, <1>7, <1>8
<1> QED
  BY <1>3, <1>4, <1>9 DEF GoodOptions

LEMMA TracerouteOptionsGood ==
    ASSUME NEW tl
    PROVE  GoodOptions(TracerouteOptions, tl)
<1>1. PICK a, b, c, d, e, f, g :
          /\ a = Flag("A", "", "resolv_asn") /\ b = Value("int_lim", "f", "--first", "min_ttl")
          /\ c = Value("int_lim", "m", "--max-hops", "max_ttl") /\ d = Unflag("n", "do_resolv")
          /\ e = Value("int_lim", "q", "--num-queries", "num_queries")
          /\ f = Value("int_lim", "M", "--max-undiscovered", "max_undiscovered")
          /\ g = Flag("", "--print-ttl", "print_ttl")
  OBVIOUS
<1>2. PICK s : s = <<a, b, c, d, e, f, g>>
  OBVIOUS
<1>3. TracerouteOptions = s
  BY <1>1, <1>2 DEF TracerouteOptions
<1>4. Len(s) = 7 /\ IsList(s)
  <2>1. s \in Seq({a, b, c, d, e, f, g})
    BY <1>2
  <2> QED
    BY <1>2, <2>1 DEF IsList
<1>5. GoodOption(a, tl) /\ GoodOption(b, tl) /\ GoodOption(c, tl) /\ GoodOption(d, tl)
  BY <1>1, SomeOptions
<1>6. GoodOption(e, tl) /\ GoodOption(f, tl) /\ GoodOption(g, tl)
  BY <1>1, SomeOptions
<1>7. \A i \in 1 .. 7 : GoodOption(s[i], tl)
  BY <1>2, <1>5, <1>6
<1> QED
  BY <1>3, <1>4, <1>7 DEF GoodOptions

LEMMA MdaOptionsGood ==
    ASSUME NEW tl
    PROVE  GoodOptions(MdaOptions, tl)
<1>1. PICK a, s : a = Value("int_3", "B", "--mda", "mda") /\ s = <<a>>
  OBVIOUS
<1>2. GoodOption(a, tl)
  BY <1>1, SomeOptions
<1> QED
  BY <1>1, <1>2, OneOption DEF MdaOptions

LEMMA NetworkOptionsGood ==
    ASSUME NEW tl
    PROVE  GoodOptions(NetworkOptions, tl)
<1>1. PICK a, s : a = Value("int_lim", "w", "--wait", "wait") /\ s = <<a>>
  OBVIOUS
<1>2. GoodOption(a, tl)
  BY <1>1, SomeOptions
<1> QED
  BY <1>1, <1>2, OneOption DEF NetworkOptions

LEMMA PtLoopOptionsGood ==
    ASSUME NEW tl
    PROVE  GoodOptions(PtLoopOptions, tl)
<1>1. PICK a, s : a = Value("int_lim", "t", "--timeout", "timeout") /\ s = <<a>>
  OBVIOUS
<1>2. GoodOption(a, tl)
  BY <1>1, SomeOptions
<1> QED
  BY <1>1, <1>2, OneOption DEF PtLoopOptions

LEMMA PingRunnableGood ==
    ASSUME NEW tl, tl = PingTool
    PROVE  GoodOptions(PingRunnable, tl)
<1>1. PICK a, b, c, d, e, f, g, h, i, j, k, l, m, n, o :
          /\ a = Header /\ b = Header /\ c = Flag("4", "", "ipv4") /\ d = Flag("6", "", "ipv6")
          /\ e = Value("int_lim_en", "F", "", "flow_label")
          /\ f = Value("str", "I", "", "source") /\ g = Value("overrun", "i", "", "send_time")
          /\ h = Value("int_lim", "s", "", "packet_size")
          /\ i = Value("int_lim_en", "P", "--dst-port", "dst_port")
          /\ j = Value("int_lim_en", "S", "--src-port", "src_port")
          /\ k = Flag("T", "--tcp", "tcp") /\ l = Flag("U", "--udp", "udp")
          /\ m = Flag("k", "", "ack") /\ n = Value("int", "t", "", "max_ttl")
          /\ o = Value("choice", "", "--protocol", "protocol")
  OBVIOUS
<1>2. PICK s : s = <<a, b, c, d, e, f, g, h, i, j, k, l, m, n, o>>
  OBVIOUS
<1>3. PingRunnable = s
  BY <1>1, <1>2 DEF PingRunnable
<1>4. Len(s) = 15 /\ IsList(s)
  <2>1. s \in Seq({a, b, c, d, e, f, g, h, i, j, k, l, m, n, o})
    BY <1>2
  <2> QED
    BY <1>2, <2>1 DEF IsList
<1>5. GoodOption(a, tl) /\ GoodOption(b, tl) /\ GoodOption(c, tl) /\ GoodOption(d, tl)
  BY <1>1, SomeOptions
<1>6. GoodOption(e, tl) /\ GoodOption(f, tl) /\ GoodOption(g, tl) /\ GoodOption(h, tl)
  BY <1>1, SomeOptions
<1>7. GoodOption(i, tl) /\ GoodOption(j, tl) /\ GoodOption(k, tl) /\ GoodOption(l, tl)
  BY <1>1, SomeOptions
<1>8. GoodOption(m, tl) /\ GoodOption(n, tl) /\ GoodOption(o, tl)
  BY <1>1, SomeOptions
<1>9. \A x \in 1 .. 15 : GoodOption(s[x], tl)
  BY <1>2, <1>5, <1>6, <1>7, <1>8
<1> QED
  BY <1>3, <1>4, <1>9 DEF GoodOptions

LEMMA PingOptionsGood ==
    ASSUME NEW tl
    PROVE  GoodOptions(PingOptions, tl)
<1>1. PICK a, b, c, d, e :
          /\ a = Value("int", "c", "", "count") /\ b = Flag("D", "", "show_timestamp")
          /\ c = Unflag("n", "do_resolv") /\ d = Flag("q", "", "quiet")
          /\ e = Opt("help", "v", "", FALSE, "")
  OBVIOUS
<1>2. PICK s : s = <<a, b, c, d, e>>
  OBVIOUS
<1>3. PingOptions = s
  BY <1>1, <1>2 DEF PingOptions
<1>4. Len(s) = 5 /\ IsList(s)
  <2>1. s \in Seq({a, b, c, d, e})
    BY <1>2
  <2> QED
    BY <1>2, <2>1 DEF IsList
<1>5. GoodOption(a, tl) /\ GoodOption(b, tl) /\ GoodOption(c, tl) /\ GoodOption(d, tl)
  BY <1>1, SomeOptions
<1>6. GoodOption(e, tl)
  BY <1>1, SomeOptions
<1>7. \A i \in 1 .. 5 : GoodOption(s[i], tl)
  BY <1>2, <1>5, <1>6
<1> QED
  BY <1>3, <1>4, <1>7 DEF GoodOptions

LEMMA CommonOptionsGood ==
    ASSUME NEW tl
    PROVE  GoodOptions(CommonOptions, tl)
<1>1. PICK a, b :
          /\ a = Opt("help", "h", "--help", FALSE, "")
          /\ b = Opt("version", "V", "--version", FALSE, "")
  OBVIOUS
<1>2. PICK s : s = <<a, b>>
  OBVIOUS
<1>3. CommonOptions = s
  BY <1>1, <1>2 DEF CommonOptions
<1>4. Len(s) = 2 /\ IsList(s)
  <2>1. s \in Seq({a, b})
    BY <1>2
  <2> QED
    BY <1>2, <2>1 DEF IsList
<1>5. GoodOption(a, tl) /\ GoodOption(b, tl)
  BY <1>1, SomeOptions
<1>6. \A i \in 1 .. 2 : GoodOption(s[i], tl)
  BY <1>2, <1>5
<1> QED
  BY <1>3, <1>4, <1>6 DEF GoodOptions

(* Both tables hold good options only.                                     *)
LEMMA TablesGood ==
    ASSUME NEW tl \in {TracerouteTool, PingTool}
    PROVE  GoodTable(OptionTable[tl], tl)
<1>1. PICK os : os = (IF tl = TracerouteTool
                      THEN TracerouteRunnable \o TracerouteOptions \o MdaOptions
                      ELSE PingRunnable \o PingOptions) \o NetworkOptions \o PtLoopOptions
  OBVIOUS
<1>2. OptionTable[tl] = AddOptspecs(AddOptspecs(VectorCreate, os), CommonOptions)
  BY <1>1 DEF OptionTable, InitOptions
<1>3. GoodOptions(os, tl)
  <2>1. CASE tl = TracerouteTool
    <3>1. os = TracerouteRunnable \o TracerouteOptions \o MdaOptions
                 \o NetworkOptions \o PtLoopOptions
      BY <1>1, <2>1
    <3> QED
      BY <3>1, GoodJoin, TracerouteRunnableGood, TracerouteOptionsGood, MdaOptionsGood,
         NetworkOptionsGood, PtLoopOptionsGood
  <2>2. CASE tl # TracerouteTool
    <3>1. os = PingRunnable \o PingOptions \o NetworkOptions \o PtLoopOptions
      BY <1>1, <2>2
    <3> QED
      BY <2>2, <3>1, GoodJoin, PingRunnableGood, PingOptionsGood, NetworkOptionsGood,
         PtLoopOptionsGood
  <2> QED
    BY <2>1, <2>2
<1>4. GoodTable(VectorCreate, tl)
  <2>1. PICK e : e = << >>
    OBVIOUS
  <2>2. VectorCreate.cells = e /\ VectorCreate.num = 0 /\ Len(e) = 0
    BY <2>1 DEF VectorCreate
  <2>3. IsList(e)
    BY <2>1, SomeTuples
  <2> QED
    BY <2>2, <2>3 DEF GoodTable
<1>5. GoodTable(AddOptspecs(VectorCreate, os), tl)
  BY <1>3, <1>4, GatheredTable
<1>6. GoodTable(AddOptspecs(AddOptspecs(VectorCreate, os), CommonOptions), tl)
  BY <1>5, CommonOptionsGood, GatheredTable
<1> QED
  BY <1>2, <1>6

(* An option that is found is good.                                        *)
LEMMA OptionsGood ==
    ASSUME tool \in {TracerouteTool, PingTool}
    PROVE  \A i \in DOMAIN Options : i \in Nat /\ GoodOption(Options[i], tool)
<1>1. GoodTable(OptionTable[tool], tool)
  BY TablesGood
<1>2. PICK s, n, i : s = OptionTable[tool].cells /\ n = OptionTable[tool].num /\ i = 1
  OBVIOUS
<1>3. IsList(s) /\ n = Len(s) /\ n \in Nat /\ \A k \in 1 .. n : GoodOption(s[k], tool)
  BY <1>1, <1>2, ListDomain DEF GoodTable
<1>4. i \in Nat /\ i >= 1 /\ n <= Len(s) /\ i <= n + 1
  BY <1>2, <1>3
<1>5. /\ IsList(SubSeq(s, i, n)) /\ Len(SubSeq(s, i, n)) = n - i + 1
      /\ \A k \in 1 .. n - i + 1 : SubSeq(s, i, n)[k] = s[k + (i - 1)]
  BY ONLY <1>3, <1>4, ListSub
<1>6. n - i + 1 = n /\ \A k \in 1 .. n : k + (i - 1) = k
  BY <1>2, <1>3
<1>7. PICK e : e = SubSeq(s, i, n)
  OBVIOUS
<1>8. IsList(e) /\ Len(e) = n /\ \A k \in 1 .. n : e[k] = s[k]
  BY <1>5, <1>6, <1>7
<1>9. DOMAIN e = 1 .. n
  BY <1>8, ListDomain
<1>10. Options = e
  BY <1>2, <1>7 DEF Options
<1> QED
  BY <1>3, <1>8, <1>9, <1>10

-----------------------------------------------------------------------------
(* What the options set *)

Transports == {"icmp", "tcp", "udp"}

IsPort(x) == x.set => x.value \in 0 .. MaxPort

IsChoice(c) == DOMAIN c = 1 .. 3 /\ \A i \in 1 .. 3 : c[i] \in Transports

GoodSettings(s, tl) ==
    /\ {"dst_port", "src_port", "max_ttl", "protocol"} \subseteq DOMAIN s
    /\ IsPort(s.dst_port) /\ IsPort(s.src_port)
    /\ s.max_ttl \in Int /\ (tl = TracerouteTool => s.max_ttl \in 1 .. 255)
    /\ IsChoice(s.protocol)

(* What the settings are before any option is read.                        *)
LEMMA DefaultsGood ==
    ASSUME NEW tl \in Tools
    PROVE  GoodSettings(Defaults(tl), tl)
<1>1. PICK s : s = Defaults(tl)
  OBVIOUS
<1>2. /\ s.dst_port = Off(0) /\ s.src_port = Off(0)
      /\ s.max_ttl = (IF tl = PingTool THEN 255 ELSE 30)
      /\ s.protocol = ChoicesOf(tl).protocol
  BY <1>1 DEF Defaults
<1>3. {"dst_port", "src_port", "max_ttl", "protocol"} \subseteq DOMAIN s
  BY <1>1 DEF Defaults
<1>4. IsPort(s.dst_port) /\ IsPort(s.src_port)
  BY <1>2 DEF Off, IsPort
<1>5. s.max_ttl \in Int /\ (tl = TracerouteTool => s.max_ttl \in 1 .. 255)
  BY <1>2
<1>6. IsChoice(s.protocol)
  <2>1. PICK a, b, c : a = "icmp" /\ b = "tcp" /\ c = "udp"
    OBVIOUS
  <2>2. s.protocol = <<a, b, c>> \/ s.protocol = <<c, a, b>>
    BY <1>2, <2>1 DEF ChoicesOf
  <2>3. {a, b, c} = Transports
    BY <2>1 DEF Transports
  <2> QED
    BY <2>2, <2>3 DEF IsChoice
<1> QED
  BY <1>1, <1>3, <1>4, <1>5, <1>6 DEF GoodSettings

(* One of the settings changes. *)
LEMMA OneSetting ==
    ASSUME NEW tl, NEW s, GoodSettings(s, tl), NEW d, NEW v,
           d \in {"dst_port", "src_port"} => IsPort(v),
           d = "max_ttl" => v \in Int /\ (tl = TracerouteTool => v \in 1 .. 255),
           d = "protocol" => IsChoice(v)
    PROVE  GoodSettings([s EXCEPT ![d] = v], tl)
<1>1. PICK r : r = [s EXCEPT ![d] = v]
  OBVIOUS
<1>2. DOMAIN r = DOMAIN s /\ \A k \in DOMAIN s : r[k] = IF k = d THEN v ELSE s[k]
  BY <1>1
<1>3. /\ r.dst_port = (IF d = "dst_port" THEN v ELSE s.dst_port)
      /\ r.src_port = (IF d = "src_port" THEN v ELSE s.src_port)
      /\ r.max_ttl = (IF d = "max_ttl" THEN v ELSE s.max_ttl)
      /\ r.protocol = (IF d = "protocol" THEN v ELSE s.protocol)
  BY <1>2 DEF GoodSettings
<1>4. IsPort(r.dst_port) /\ IsPort(r.src_port)
  BY <1>3 DEF GoodSettings
<1>5. r.max_ttl \in Int /\ (tl = TracerouteTool => r.max_ttl \in 1 .. 255)
  BY <1>3 DEF GoodSettings
<1>6. IsChoice(r.protocol)
  BY <1>3 DEF GoodSettings
<1>7. {"dst_port", "src_port", "max_ttl", "protocol"} \subseteq DOMAIN r
  BY <1>2 DEF GoodSettings
<1> QED
  BY <1>1, <1>4, <1>5, <1>6, <1>7 DEF GoodSettings

(* A choice that is exchanged with the first one. *)
LEMMA ChoiceExchanged ==
    ASSUME NEW c, IsChoice(c), NEW i \in DOMAIN c, NEW d, d = [c EXCEPT ![1] = c[i], ![i] = c[1]]
    PROVE  IsChoice(d)
<1>1. PICK one : one = 1
  OBVIOUS
<1>2. one \in 1 .. 3 /\ i \in 1 .. 3 /\ DOMAIN c = 1 .. 3 /\ \A k \in 1 .. 3 : c[k] \in Transports
  BY <1>1 DEF IsChoice
<1>3. PICK e : e = [c EXCEPT ![one] = c[i]]
  OBVIOUS
<1>4. d = [e EXCEPT ![i] = c[one]]
  BY <1>1, <1>3
<1>5. DOMAIN e = 1 .. 3 /\ \A k \in 1 .. 3 : e[k] \in Transports
  BY <1>2, <1>3
<1>6. DOMAIN d = 1 .. 3 /\ \A k \in 1 .. 3 : d[k] \in Transports
  BY <1>2, <1>4, <1>5
<1> QED
  BY <1>6 DEF IsChoice

(* What the limits of an option let through.                               *)
LEMMA InLimitsIs ==
    ASSUME NEW s, NEW o, NEW t, InLimits(s, o, t)
    PROVE  /\ Numbers[t] \in Int
           /\ o.data \in {"dst_port", "src_port"} => Numbers[t] \in 0 .. MaxPort
           /\ o.data = "max_ttl" => Numbers[t] \in 1 .. 255
<1>1. t \in DOMAIN Numbers /\ Numbers[t] \in Limits[o.data][1] .. Limits[o.data][2]
  BY DEF InLimits
<1>2. Numbers[t] \in Int
  BY <1>1, OptionsAssumption
<1>3. ASSUME o.data = "max_ttl" PROVE Numbers[t] \in 1 .. 255
  <2>1. PICK l, a, b : l = Limits["max_ttl"] /\ a = 1 /\ b = 255
    OBVIOUS
  <2>2. l = <<a, b>>
    BY <2>1 DEF Limits
  <2>3. l[1] = a /\ l[2] = b
    BY <2>2
  <2> QED
    BY <1>1, <1>3, <2>1, <2>3
<1>4. ASSUME o.data \in {"dst_port", "src_port"} PROVE Numbers[t] \in 0 .. MaxPort
  <2>1. PICK l, a, b : l = Limits[o.data] /\ a = 0 /\ b = MaxPort
    OBVIOUS
  <2>2. l = <<a, b>>
    BY <1>4, <2>1 DEF Limits
  <2>3. l[1] = a /\ l[2] = b
    BY <2>2
  <2> QED
    BY <1>1, <2>1, <2>3
<1> QED
  BY <1>2, <1>3, <1>4

(* The callbacks that store what they are given, keep the settings good.   *)
LEMMA StoreEnGood ==
    ASSUME NEW tl, NEW s, GoodSettings(s, tl), NEW o, GoodOption(o, tl), NEW t,
           o.data \notin {"max_ttl", "protocol"}, NEW r \in StoreIntLimEn(s, o, t)
    PROVE  GoodSettings(r, tl)
<1>1. InLimits(s, o, t) /\ r = [s EXCEPT ![o.data] = [value |-> Numbers[t], set |-> TRUE]]
  BY DEF StoreIntLimEn
<1>2. PICK v : v = [value |-> Numbers[t], set |-> TRUE]
  OBVIOUS
<1>3. v.value = Numbers[t]
  BY <1>2
<1>4. o.data \in {"dst_port", "src_port"} => IsPort(v)
  BY <1>1, <1>3, InLimitsIs DEF IsPort
<1>5. PICK d : d = o.data
  OBVIOUS
<1>6. r = [s EXCEPT ![d] = v]
  BY <1>1, <1>2, <1>5
<1>7. GoodSettings([s EXCEPT ![d] = v], tl)
  BY <1>4, <1>5, OneSetting
<1> QED
  BY <1>6, <1>7

LEMMA StoreOverrunGood ==
    ASSUME NEW tl, NEW s, GoodSettings(s, tl), NEW o, GoodOption(o, tl), o.data = "send_time",
           NEW t, NEW x \in StoreOverrun(s, o, t)
    PROVE  GoodSettings(x, tl)
<1>1. PICK r \in StoreIntLimEn(s, o, t) :
          \/ x = r
          \/ x = [r EXCEPT !.packet_size = 0, !.clobbered = "packet_size"]
          \/ x = [r EXCEPT !.flow_label.value = 0, !.clobbered = "flow_label"]
  BY Zenon DEF StoreOverrun
<1>2. GoodSettings(r, tl)
  BY StoreEnGood
<1>3. ASSUME NEW d \in {"packet_size", "flow_label", "clobbered"}, NEW y, GoodSettings(y, tl), NEW v
      PROVE  GoodSettings([y EXCEPT ![d] = v], tl)
  BY <1>3, OneSetting
<1>4. CASE x = [r EXCEPT !.packet_size = 0, !.clobbered = "packet_size"]
  <2>1. PICK y : y = [r EXCEPT !["packet_size"] = 0]
    OBVIOUS
  <2>2. x = [y EXCEPT !["clobbered"] = "packet_size"]
    BY <1>4, <2>1
  <2> QED
    BY <1>2, <1>3, <2>1, <2>2
<1>5. CASE x = [r EXCEPT !.flow_label.value = 0, !.clobbered = "flow_label"]
  <2>1. PICK v : v = [r["flow_label"] EXCEPT !["value"] = 0]
    OBVIOUS
  <2>2. PICK y : y = [r EXCEPT !["flow_label"] = v]
    OBVIOUS
  <2>3. x = [y EXCEPT !["clobbered"] = "flow_label"]
    BY <1>5, <2>1, <2>2
  <2> QED
    BY <1>2, <1>3, <2>2, <2>3
<1> QED
  BY <1>1, <1>2, <1>4, <1>5

LEMMA StoreChoiceGood ==
    ASSUME NEW tl, NEW s, GoodSettings(s, tl),
           NEW o, o.data \notin {"dst_port", "src_port", "max_ttl"},
           NEW t, NEW r \in StoreChoice(s, o, t)
    PROVE  GoodSettings(r, tl)
<1>1. PICK c, d : c = s[o.data] /\ d = o.data
  OBVIOUS
<1>2. PICK i \in DOMAIN c : c[i] = t /\ r = [s EXCEPT ![d] = [c EXCEPT ![1] = t, ![i] = c[1]]]
  BY <1>1 DEF StoreChoice
<1>3. PICK e : e = [c EXCEPT ![1] = c[i], ![i] = c[1]]
  OBVIOUS
<1>4. r = [s EXCEPT ![d] = e]
  BY <1>2, <1>3
<1>5. d = "protocol" => IsChoice(e)
  <2>1. d = "protocol" => IsChoice(c)
    BY <1>1 DEF GoodSettings
  <2> QED
    BY <1>3, <2>1, ChoiceExchanged
<1>6. GoodSettings([s EXCEPT ![d] = e], tl)
  BY <1>1, <1>5, OneSetting
<1> QED
  BY <1>4, <1>6

(* Whatever an option does, the settings stay good.                        *)
LEMMA EffectsGood ==
    ASSUME NEW tl, NEW s, GoodSettings(s, tl), NEW o, GoodOption(o, tl), o.action # "text",
           o.action \notin {"help", "version"}, NEW t, NEW r \in Effects(s, o, t)
    PROVE  GoodSettings(r, tl)
<1>1. PICK a, d : a = o.action /\ d = o.data
  OBVIOUS
<1>2. /\ a \in Actions \ {"help", "version"}
      /\ d \in {"dst_port", "src_port"} => a = "int_lim_en"
      /\ d = "max_ttl" => a = "int_lim" \/ (a = "int" /\ tl = PingTool)
      /\ d = "protocol" => a = "choice"
      /\ a = "overrun" => d = "send_time"
  BY <1>1 DEF GoodOption
<1>3. CASE a \in {"store_1", "store_0", "str"}
  <2>1. PICK v : r = [s EXCEPT ![d] = v]
    BY <1>1, <1>3 DEF Effects
  <2>2. GoodSettings([s EXCEPT ![d] = v], tl)
    BY <1>2, <1>3, OneSetting
  <2> QED
    BY <2>1, <2>2
<1>4. CASE a = "int"
  <2>1. r \in StoreInt(s, o, t)
    BY <1>1, <1>4 DEF Effects
  <2>2. t \in DOMAIN Numbers /\ r = [s EXCEPT ![d] = Numbers[t]]
    BY <1>1, <2>1 DEF StoreInt
  <2>3. PICK v : v = Numbers[t]
    OBVIOUS
  <2>4. v \in Int
    BY <2>2, <2>3, OptionsAssumption
  <2>5. d = "max_ttl" => tl # TracerouteTool
    BY <1>2, <1>4 DEF PingTool, TracerouteTool
  <2>6. GoodSettings([s EXCEPT ![d] = v], tl)
    BY <1>2, <1>4, <2>4, <2>5, OneSetting
  <2> QED
    BY <2>2, <2>3, <2>6
<1>5. CASE a = "int_lim"
  <2>1. r \in StoreIntLim(s, o, t)
    BY <1>1, <1>5 DEF Effects
  <2>2. InLimits(s, o, t) /\ r = [s EXCEPT ![d] = Numbers[t]]
    BY <1>1, <2>1 DEF StoreIntLim
  <2>3. PICK v : v = Numbers[t]
    OBVIOUS
  <2>4. d = "max_ttl" => v \in 1 .. 255
    BY <1>1, <2>2, <2>3, InLimitsIs
  <2>5. d = "max_ttl" => v \in Int /\ (tl = TracerouteTool => v \in 1 .. 255)
    BY <2>4
  <2>6. GoodSettings([s EXCEPT ![d] = v], tl)
    BY <1>2, <1>5, <2>5, OneSetting
  <2> QED
    BY <2>2, <2>3, <2>6
<1>6. CASE a = "int_lim_en"
  <2>1. r \in StoreIntLimEn(s, o, t)
    BY <1>1, <1>6 DEF Effects
  <2> QED
    BY <1>1, <1>2, <1>6, <2>1, StoreEnGood
<1>7. CASE a = "overrun"
  <2>1. r \in StoreOverrun(s, o, t)
    BY <1>1, <1>7 DEF Effects
  <2> QED
    BY <1>1, <1>2, <1>7, <2>1, StoreOverrunGood
<1>8. CASE a = "choice"
  <2>1. r \in StoreChoice(s, o, t)
    BY <1>1, <1>8 DEF Effects
  <2> QED
    BY <1>1, <1>2, <1>8, <2>1, StoreChoiceGood
<1>9. CASE a = "int_3"
  <2>1. r \in StoreInt3(s, o, t)
    BY <1>1, <1>9 DEF Effects
  <2>2. PICK v : r = [s EXCEPT ![d] = v]
    BY <1>1, <2>1 DEF StoreInt3
  <2>3. GoodSettings([s EXCEPT ![d] = v], tl)
    BY <1>2, <1>9, OneSetting
  <2> QED
    BY <2>2, <2>3
<1> QED
  BY <1>2, <1>3, <1>4, <1>5, <1>6, <1>7, <1>8, <1>9 DEF Actions

(* What the reading of the arguments knows of what they have set. *)
SettingsInv ==
    /\ tool \in Tools
    /\ outcome = "parsing" => tool # ExampleTool
    /\ GoodSettings(settings, tool)

LEMMA SettingsInit ==
    ASSUME Init
    PROVE  SettingsInv
<1>1. PICK line \in Lines : tool = line[1] /\ settings = Defaults(line[1]) /\ outcome = "start"
  BY DEF Init, OptionsInit
<1>2. tool \in Tools
  BY <1>1, OptionsAssumption
<1> QED
  BY <1>1, <1>2, DefaultsGood DEF SettingsInv

(* Steps that set nothing. *)
LEMMA SettingsStay ==
    ASSUME SettingsInv, settings' = settings, tool' = tool,
           outcome' = "parsing" => tool # ExampleTool
    PROVE  SettingsInv'
  BY DEF SettingsInv, GoodSettings

(* The calls of the callbacks (optparse.c:757-767), and their steps.       *)
LEMMA CallSets ==
    ASSUME SettingsInv, tool' = tool, outcome = "parsing",
           NEW o, GoodOption(o, tool), o.action # "text", NEW t, Call(o, t)
    PROVE  SettingsInv'
<1>1. tool # ExampleTool
  BY DEF SettingsInv
<1>2. CASE settings' = settings
  BY <1>1, <1>2, SettingsStay
<1>3. CASE settings' # settings
  <2>1. o.action \notin {"help", "version"} /\ settings' \in Effects(settings, o, t)
    BY <1>3, Zenon DEF Call
  <2>2. PICK r, tl : r = settings' /\ tl = tool
    OBVIOUS
  <2>3. GoodSettings(r, tl)
    BY <2>1, <2>2, EffectsGood DEF SettingsInv
  <2>4. GoodSettings(settings', tool')
    BY <2>2, <2>3
  <2> QED
    BY <1>1, <2>4 DEF SettingsInv, GoodSettings
<1> QED
  BY <1>2, <1>3

LEMMA CallWithNextSets ==
    ASSUME SettingsInv, tool' = tool, outcome = "parsing",
           NEW o, GoodOption(o, tool), o.action # "text", NEW used, CallWithNext(o, used)
    PROVE  SettingsInv'
<1>1. CASE Refuse
  BY <1>1, SettingsStay DEF Refuse, SettingsInv
<1>2. CASE \E t : Call(o, t)
  BY <1>2, CallSets
<1> QED
  BY <1>1, <1>2, Zenon DEF CallWithNext

LEMMA LongOptionSets ==
    ASSUME SettingsInv, LongOption
    PROVE  SettingsInv'
<1>1. outcome = "parsing" /\ tool' = tool
  BY Zenon DEF LongOption, AtArgument
<1>2. tool \in {TracerouteTool, PingTool}
  BY <1>1 DEF SettingsInv, Tools
<1>3. PICK end \in {NameEnd(Arg)} : \E found \in {FindLf(SubSeq(Arg, 1, end - 1))} :
          IF Cardinality(found) # 1 THEN Refuse
          ELSE \E o \in {Options[i] : i \in found} :
                  LET given == end <= Len(Arg)
                  IN  IF o.takes # given
                      THEN IF given THEN Refuse ELSE CallWithNext(o, {pos})
                      ELSE /\ Call(o, SubSeq(Arg, end + 1, Len(Arg)))
                           /\ argv' = [argv EXCEPT ![pos] = ""]
                           /\ pos' = pos + 1
                           /\ UNCHANGED rest
  BY Zenon DEF LongOption
<1>4. \/ Refuse
      \/ \E o \in {Options[i] : i \in FindLf(SubSeq(Arg, 1, end - 1))} :
            CallWithNext(o, {pos}) \/ \E t : Call(o, t)
  BY <1>3, Zenon
<1>5. CASE Refuse
  BY <1>1, <1>5, SettingsStay DEF Refuse
<1>6. ASSUME NEW i \in FindLf(SubSeq(Arg, 1, end - 1))
      PROVE  GoodOption(Options[i], tool) /\ Options[i].action # "text"
  <2>1. i \in DOMAIN Options /\ Options[i].lf # ""
    BY Zenon DEF FindLf
  <2>2. GoodOption(Options[i], tool)
    BY <1>2, <2>1, OptionsGood
  <2> QED
    BY <2>1, <2>2 DEF GoodOption, Actions
<1>7. ASSUME NEW o \in {Options[i] : i \in FindLf(SubSeq(Arg, 1, end - 1))},
             CallWithNext(o, {pos}) \/ \E t : Call(o, t)
      PROVE  SettingsInv'
  <2>1. GoodOption(o, tool) /\ o.action # "text"
    BY <1>6
  <2> QED
    BY <1>1, <1>7, <2>1, CallSets, CallWithNextSets
<1> QED
  BY <1>4, <1>5, <1>7

LEMMA ShortOptionSets ==
    ASSUME SettingsInv, ShortOption
    PROVE  SettingsInv'
<1>1. outcome = "parsing" /\ tool' = tool
  BY Zenon DEF ShortOption
<1>2. tool \in {TracerouteTool, PingTool}
  BY <1>1 DEF SettingsInv, Tools
<1>3. PICK found : found = FindSf(SubSeq(rest, 1, 1))
  OBVIOUS
<1>4. CASE found = {}
  <2>1. Refuse
    BY <1>3, <1>4, Zenon DEF ShortOption
  <2> QED
    BY <1>1, <2>1, SettingsStay DEF Refuse
<1>5. CASE found # {}
  <2>1. \E o \in {Options[Min(found)]} : CallWithNext(o, {}) \/ \E t : Call(o, t)
    BY <1>3, <1>5, Zenon DEF ShortOption
  <2>2. found \in SUBSET Nat
    <3>1. found \subseteq DOMAIN Options
      BY <1>3, Zenon DEF FindSf
    <3> QED
      BY <1>2, <3>1, OptionsGood
  <2>3. Min(found) \in found
    <3>1. PICK m \in found : \A j \in found : m <= j
      BY <1>5, <2>2, LeastNumber
    <3> QED
      BY <3>1 DEF Min
  <2>4. Min(found) \in DOMAIN Options /\ Options[Min(found)].sf # ""
    BY <1>3, <2>3, Zenon DEF FindSf
  <2>5. GoodOption(Options[Min(found)], tool)
    BY <1>2, <2>4, OptionsGood
  <2>6. Options[Min(found)].action # "text"
    BY <2>4, <2>5 DEF GoodOption, Actions
  <2> QED
    BY <1>1, <2>1, <2>5, <2>6, CallSets, CallWithNextSets
<1> QED
  BY <1>4, <1>5

(* Every step keeps them.                                                  *)
LEMMA SettingsNext ==
    ASSUME SettingsInv, [Next]_<<vars, cmdVars>>
    PROVE  SettingsInv'
<1>1. CASE ReadTable \/ CountArgument \/ EndOfOptions \/ StartCluster
  <2>1. settings' = settings /\ tool' = tool
    BY <1>1, Zenon DEF ReadTable, CountArgument, EndOfOptions, StartCluster
  <2>2. outcome' = "parsing" => tool # ExampleTool
    BY <1>1, Zenon DEF SettingsInv, ReadTable, CountArgument, EndOfOptions, StartCluster, AtArgument
  <2> QED
    BY <2>1, <2>2, SettingsStay
<1>2. CASE Main
  <2>1. settings' = settings /\ tool' = tool
    BY <1>2 DEF Main
  <2>2. outcome' \in {"error", "run"}
    BY <1>2, Zenon DEF Main, TracerouteMain, PingMain, ExampleMain, Fail, Run
  <2> QED
    BY <2>1, <2>2, SettingsStay
<1>3. CASE SetFlag
  <2>1. settings' = settings /\ tool' = tool
    BY <1>3, Zenon DEF SetFlag
  <2>2. outcome = "run" /\ outcome' \in {"run", "aborted"}
    BY <1>3, Zenon DEF SetFlag
  <2> QED
    BY <2>1, <2>2, SettingsStay
<1>4. CASE UNCHANGED cmdVars
  <2>1. settings' = settings /\ tool' = tool /\ outcome' = outcome
    BY <1>4 DEF cmdVars
  <2> QED
    BY <2>1, SettingsStay DEF SettingsInv
<1>5. OptParse => \/ ReadTable \/ CountArgument \/ EndOfOptions \/ StartCluster
                  \/ LongOption \/ ShortOption
  BY DEF OptParse
<1>6. OptParse \/ Main \/ SetFlag \/ UNCHANGED cmdVars
  BY DEF Next
<1> QED
  BY <1>1, <1>2, <1>3, <1>4, <1>5, <1>6, LongOptionSets, ShortOptionSets

(* Whatever the command line is, a port that an option has set is one, the  *)
(* number of hops of a traceroute is in 1 .. 255 and a protocol is one of   *)
(* three: the callbacks refuse the rest (opt_store_int_lim), and the extra  *)
(* cell that send_time writes is none of those (opt_store_double_lim_en).   *)
THEOREM SettingsStayInRange == Spec => []SettingsInv
<1>1. Init => SettingsInv
  BY SettingsInit
<1>2. SettingsInv /\ [Next]_<<vars, cmdVars>> => SettingsInv'
  BY SettingsNext
<1> QED
  BY <1>1, <1>2, PTL DEF Spec

-----------------------------------------------------------------------------
(* What the mains make of the settings *)

(* An address that is resolved is one of a host.                           *)
LEMMA AddressKnown ==
    ASSUME NEW family, NEW name, AddressesOf(family, name) # {}
    PROVE  /\ name \in DOMAIN Hosts /\ FirstAddress(family, name) \in Words
           /\ \E i \in DOMAIN Hosts[name] :
                Hosts[name][i] = [family |-> family, address |-> FirstAddress(family, name)]
<1>1. PICK T : T = [family : IpNames, address : Words \ {0}]
  OBVIOUS
<1>2. name \in DOMAIN Hosts
        /\ AddressesOf(family, name) = {i \in DOMAIN Hosts[name] : Hosts[name][i].family = family}
  BY DEF AddressesOf
<1>3. Hosts[name] \in Seq(T)
  BY <1>1, <1>2, ProgramsAssumption
<1>4. PICK hosts, S : hosts = Hosts[name] /\ S = AddressesOf(family, name)
  OBVIOUS
<1>5. PICK n \in Nat : DOMAIN hosts = 1 .. n /\ \A i \in 1 .. n : hosts[i] \in T
  BY <1>3, <1>4
<1>6. S \in SUBSET Nat /\ S # {} /\ S \subseteq 1 .. n
  BY <1>5, <1>2, <1>4
<1>7. Min(S) \in S
  <2>1. PICK m \in S : \A j \in S : m <= j
    BY <1>6, LeastNumber
  <2> QED
    BY <2>1 DEF Min
<1>8. PICK i \in 1 .. n : i = Min(S)
  BY <1>6, <1>7
<1>9. hosts[i] \in T /\ hosts[i].family = family /\ i \in DOMAIN Hosts[name]
  BY <1>5, <1>2, <1>4, <1>7, <1>8
<1>10. FirstAddress(family, name) = hosts[i].address
  BY <1>4, <1>8 DEF FirstAddress
<1>11. hosts[i] = [family |-> family, address |-> hosts[i].address] /\ hosts[i].address \in Words
  BY <1>1, <1>9
<1> QED
  BY <1>5, <1>2, <1>4, <1>9, <1>10, <1>11

(* The ports of a traceroute that gives them are words.                    *)
LEMMA PortsKnown ==
    ASSUME NEW tl, NEW s, GoodSettings(s, tl)
    PROVE  /\ PortsOf(s)[1] \in Words /\ PortsOf(s)[2] \in Words
           /\ s.src_port.set => PortsOf(s)[1] = s.src_port.value
           /\ s.dst_port.set => PortsOf(s)[2] = s.dst_port.value
<1>1. PICK proto \in {"udp", "tcp"} : proto = IF UsesUdp(s) THEN "udp" ELSE "tcp"
  OBVIOUS
<1>2. PICK d, a, b : /\ d = DefaultPorts[proto] /\ a = Given(s.src_port, d.src)
                     /\ b = Given(s.dst_port, IF s[proto] THEN d.named ELSE d.dst)
  OBVIOUS
<1>3. PortsOf(s) = <<a, b>>
  BY <1>1, <1>2 DEF PortsOf
<1>4. d.src \in Words /\ d.dst \in Words /\ d.named \in Words
  BY <1>1, <1>2, ProgramsAssumption
<1>5. \A k \in 0 .. MaxPort : k \in Words
  <2>1. MaxPort \in Nat /\ W \in Nat
    BY OptionsAssumption, ProtocolsAssumption
  <2>2. MaxPort < W
    BY ProgramsAssumption
  <2> QED
    BY ONLY <2>1, <2>2 DEF Words
<1>6. IsPort(s.src_port) /\ IsPort(s.dst_port)
  BY DEF GoodSettings
<1>7. a \in Words /\ b \in Words
  BY <1>2, <1>4, <1>5, <1>6 DEF Given, IsPort
<1>8. /\ s.src_port.set => a = s.src_port.value
      /\ s.dst_port.set => b = s.dst_port.value
  BY <1>2 DEF Given
<1> QED
  BY <1>3, <1>7, <1>8

(* A payload that is asked for is cut to two words.                        *)
LEMMA FewWords ==
    ASSUME NEW bytes
    PROVE  WordsOf(bytes) \in 0 .. 2
<1>1. PICK S : S = {k \in 1 .. 2 : 2 * k <= bytes}
  OBVIOUS
<1>2. PICK a, b : a = 1 /\ b = 2
  OBVIOUS
<1>3. S \subseteq a .. b /\ IsFiniteSet(a .. b) /\ Cardinality(a .. b) = 2
  <2>1. a \in Int /\ b \in Int /\ S \subseteq a .. b
    BY <1>1, <1>2
  <2>2. IsFiniteSet(a .. b) /\ Cardinality(a .. b) = IF a > b THEN 0 ELSE b - a + 1
    BY ONLY <2>1, FS_Interval
  <2> QED
    BY <1>2, <2>1, <2>2
<1>4. Cardinality(S) \in Nat /\ Cardinality(S) <= 2
  BY <1>3, FS_Subset, FS_CardinalityType
<1> QED
  BY <1>1, <1>4 DEF WordsOf

(* A number of hops is a word.                                             *)
LEMMA HopsAreWords ==
    ASSUME NEW k \in Int, NEW tl, NEW s, GoodSettings(s, tl)
    PROVE  k % 256 \in Words /\ (tl = TracerouteTool => FirstTtls(s) \subseteq Words)
<1>1. \A n \in 0 .. 255 : n \in Words
  BY ProtocolsAssumption DEF Words
<1>2. k % 256 \in 0 .. 255
  OBVIOUS
<1>3. ASSUME tl = TracerouteTool PROVE FirstTtls(s) \subseteq 0 .. 255
  BY <1>3 DEF GoodSettings, FirstTtls
<1> QED
  BY <1>1, <1>2, <1>3

(* The protocols that a main picks go with each other.                     *)
LEMMA ProtocolsFit ==
    ASSUME NEW s, NEW net \in IpNames
    PROVE  /\ Fit(net, TracerouteProtocol(s, net)) /\ Fit(net, PingProtocol(s, net))
           /\ Fit(net, "tcp")
  BY DEF Fit, TracerouteProtocol, PingProtocol, IcmpNames

(* A skeleton is built in eight steps at most.                             *)
LEMMA StepsAreFew ==
    ASSUME NEW s, NEW t, NEW u,
           s = << >> \/ (\E x, y : s = <<x, y>>), t = << >> \/ (\E x : t = <<x>>),
           u = << >> \/ (\E x : u = <<x>>),
           NEW a, NEW b, NEW c, NEW d
    PROVE  /\ IsList(<<a, b>> \o s) /\ Len(<<a, b>> \o s) <= 8
           /\ IsList(<<a, b, c>> \o t \o <<d>> \o u) /\ Len(<<a, b, c>> \o t \o <<d>> \o u) <= 8
           /\ IsList(<<a, b, c>>) /\ Len(<<a, b, c>>) <= 8
<1>1. /\ IsList(s) /\ Len(s) \in 0 .. 2
      /\ IsList(t) /\ Len(t) \in 0 .. 1 /\ IsList(u) /\ Len(u) \in 0 .. 1
  <2>1. \A e : e = << >> => IsList(e) /\ Len(e) = 0
    <3> SUFFICES ASSUME NEW e, e = << >> PROVE IsList(e) /\ Len(e) = 0
      OBVIOUS
    <3>1. IsList(e)
      BY SomeTuples
    <3> QED
      BY <3>1
  <2>2. IsList(s) /\ Len(s) \in 0 .. 2
    <3>1. CASE s = << >>
      BY <2>1, <3>1
    <3>2. CASE \E x, y : s = <<x, y>>
      <4>1. PICK x, y : s = <<x, y>>
        BY <3>2
      <4>2. IsList(<<x, y>>)
        BY SomeTuples DEF Begins
      <4>3. Len(s) = 2
        BY <4>1
      <4> QED
        BY <4>1, <4>2, <4>3
    <3> QED
      BY <3>1, <3>2
  <2>3. ASSUME NEW v, v = << >> \/ (\E x : v = <<x>>)
        PROVE  IsList(v) /\ Len(v) \in 0 .. 1
    <3>1. CASE v = << >>
      BY <2>1, <3>1
    <3>2. CASE \E x : v = <<x>>
      <4>1. PICK x : v = <<x>>
        BY <3>2
      <4>2. IsList(<<x>>)
        BY SomeTuples
      <4>3. Len(v) = 1
        BY <4>1
      <4> QED
        BY <4>1, <4>2, <4>3
    <3> QED
      BY <2>3, <3>1, <3>2
  <2> QED
    BY <2>2, <2>3
<1>2. PICK p, q, r : p = <<a, b>> /\ q = <<a, b, c>> /\ r = <<d>>
  OBVIOUS
<1>3. IsList(p) /\ Len(p) = 2 /\ IsList(q) /\ Len(q) = 3 /\ IsList(r) /\ Len(r) = 1
  BY <1>2, SomeTuples DEF Begins
<1>4. PICK ps, qt, qr, qu : ps = p \o s /\ qt = q \o t /\ qr = qt \o r /\ qu = qr \o u
  OBVIOUS
<1>5. IsList(ps) /\ Len(ps) = Len(p) + Len(s)
  BY ONLY <1>1, <1>3, <1>4, ListJoin
<1>6. IsList(qt) /\ Len(qt) = Len(q) + Len(t)
  BY ONLY <1>1, <1>3, <1>4, ListJoin
<1>7. IsList(qr) /\ Len(qr) = Len(qt) + Len(r)
  BY ONLY <1>3, <1>4, <1>6, ListJoin
<1>8. IsList(qu) /\ Len(qu) = Len(qr) + Len(u)
  BY ONLY <1>1, <1>4, <1>7, ListJoin
<1>9. Len(ps) <= 8 /\ Len(qu) <= 8 /\ Len(q) <= 8
  <2>1. PICK m \in 0 .. 2 : m = Len(s)
    BY <1>1
  <2>2. PICK n \in 0 .. 1 : n = Len(t)
    BY <1>1
  <2>3. PICK k \in 0 .. 1 : k = Len(u)
    BY <1>1
  <2>4. Len(ps) = 2 + m /\ Len(qt) = 3 + n
    BY <1>3, <1>5, <1>6, <2>1, <2>2
  <2>5. Len(qr) = 4 + n
    BY <1>3, <1>7, <2>4
  <2>6. Len(qu) = 4 + n + k
    BY <1>8, <2>3, <2>5
  <2> QED
    BY <1>3, <2>4, <2>6
<1> QED
  BY <1>2, <1>3, <1>4, <1>5, <1>8, <1>9

-----------------------------------------------------------------------------
(* Checksums and lengths *)

(* The room that is left for the payload. *)
LEMMA BudgetLeft ==
    ASSUME NEW s, IsList(s), Len(s) <= 8
    PROVE  Budget(Len(s)) \in Nat /\ Budget(Len(s)) <= 16
<1>1. PICK n \in Nat : n = Len(s)
  BY ListDomain
<1>2. 16 - 2 * n \in Nat /\ 16 - 2 * n <= 16
  BY <1>1
<1> QED
  BY <1>1, <1>2 DEF Budget

(* The steps that no packet sees. *)
LEMMA QuietSound ==
    ASSUME SoundInv, UNCHANGED vars
    PROVE  SoundInv'
<1>1. /\ program' = program /\ skel' = skel /\ todo' = todo /\ lastTag' = lastTag
      /\ sendq' = sendq /\ wire' = wire /\ flying' = flying
  BY DEF vars
<1>2. lastTag' \in Words
  BY <1>1 DEF SoundInv
<1>3. CASE Unknown
  <2>1. Unknown'
    BY <1>1, <1>3 DEF Unknown, NoSkeleton, NoProbe
  <2> QED
    BY <1>2, <2>1 DEF SoundInv
<1>4. CASE Typed /\ IsList(todo) /\ Len(todo) <= 8 /\ (Ready \/ SoundProbes)
  <2>1. Typed' /\ IsList(todo') /\ Len(todo') <= 8
    BY <1>1, <1>4, TypedStays
  <2>2. Ready => Ready'
    BY <1>1 DEF Ready, GoodProgram, NoSkeleton, NoProbe
  <2>3. SoundProbes => SoundProbes'
    <3> SUFFICES ASSUME SoundProbes PROVE SoundProbes'
      OBVIOUS
    <3>1. Small(skel, program.net, program.l4, Budget(Len(todo)))'
      BY <1>1 DEF SoundProbes, Small, Sound, Clean, Measured, Rest, Budget
    <3>2. \A i \in DOMAIN sendq' : Sound(sendq[i].probe.data, program.net, program.l4)'
      BY <1>1 DEF SoundProbes, Sound, Clean, Measured
    <3>3. WellFormed'
      BY <1>1 DEF SoundProbes, WellFormed, Valid
    <3> QED
      BY <3>1, <3>2, <3>3 DEF SoundProbes
  <2> QED
    BY <1>2, <1>4, <2>1, <2>2, <2>3 DEF SoundInv
<1> QED
  BY <1>3, <1>4 DEF SoundInv

(* What SetFlag does to the skeleton. *)
LEMMA SetFlagSound ==
    ASSUME PacketInv, SoundInv, SetFlag
    PROVE  SoundInv'
<1>1. todo # << >> /\ Head(todo) = "flag"
  BY DEF SetFlag
<1>2. CASE UNCHANGED vars
  BY <1>2, QuietSound
<1>3. CASE /\ AtStep("flag")
           /\ \E p \in {SetFieldFrom(skel, "flags", 1, 0), skel} : Built(p)
  <2>1. Running /\ Typed /\ SoundProbes /\ IsList(todo) /\ Len(todo) <= 8
    BY <1>1 DEF PacketInv, SoundInv, Unknown, Ready
  <2>2. PICK net, l4, b : /\ net = program.net /\ l4 = program.l4 /\ b = Budget(Len(todo))
    OBVIOUS
  <2>3. /\ net \in IpNames /\ l4 \in TransportNames /\ Skeleton(skel, net, l4)
        /\ Small(skel, net, l4, b) /\ Fit(net, l4)
    BY <2>1, <2>2 DEF Running, GoodProgram, SoundProbes, Typed
  <2>4. b \in Nat
    BY <2>1, <2>2, BudgetLeft
  <2>5. PICK s : s = IF routed THEN Rest(skel.data, net, l4) ELSE 0
    OBVIOUS
  <2>6. /\ Made(skel, net, l4, s) /\ Sound(skel.data, net, l4) /\ Rest(skel.data, net, l4) \in Nat
    <3>1. Made(skel, net, l4, s)
      BY <2>3, <2>5 DEF Skeleton
    <3>2. Packet(skel.data, net, l4)
      BY <3>1 DEF Made
    <3> QED
      BY <2>3, <3>1, <3>2, Sizes DEF Small
  <2>7. PICK p : p \in {SetFieldFrom(skel, "flags", 1, 0), skel} /\ Built(p)
    BY <1>3
  <2>8. PICK name, v : name = "flags" /\ v = 1
    OBVIOUS
  <2>9. name \in Settable /\ name # "length" /\ v \in Words
    BY <2>8, WordsAre, ProtocolsAssumption DEF Settable, Words
  <2>10. PICK q : q = SetFieldFrom(skel, name, v, 0)
    OBVIOUS
  <2>11. Sound(q.data, net, l4) /\ Len(q.data) = Len(skel.data)
    <3>1. Sound(SetFieldFrom(skel, name, v, 0).data, net, l4)
      BY <2>3, <2>6, <2>9, SetFieldSound
    <3>2. Len(SetFieldFrom(skel, name, v, 0).data) = Len(skel.data)
      BY <2>3, <2>6, <2>9, SetFieldMade
    <3> QED
      BY <2>10, <3>1, <3>2
  <2>12. Small(q, net, l4, b + 2) /\ Small(skel, net, l4, b + 2)
    BY <2>3, <2>4, <2>6, <2>11, SmallGrows
  <2>13. p = q \/ p = skel
    BY <2>7, <2>8, <2>10
  <2>14. Small(p, net, l4, b + 2)
    BY <2>12, <2>13
  <2>15. Small(p, program.net, program.l4, Budget(Len(todo)) + 2)
    BY <2>2, <2>14
  <2>16. todo' = Tail(todo) /\ Head(todo) # "options"
    BY <1>1, <1>3 DEF AtStep
  <2> QED
    BY <1>1, <2>7, <2>15, <2>16, BuiltSound
<1>4. PICK end : end = FlagEnd(IF settings.ack THEN "ack" ELSE "syn")
  OBVIOUS
<1>5. IF end = "aborted"
      THEN outcome' = "aborted" /\ UNCHANGED vars
      ELSE /\ AtStep("flag")
           /\ Built(IF end = "done" THEN SetFieldFrom(skel, "flags", 1, 0) ELSE skel)
           /\ outcome' = outcome
  BY <1>4, Zenon DEF SetFlag
<1> QED
  BY <1>2, <1>3, <1>5

(* A program that is run has what its packets are made of.                 *)
LEMMA RunTyped ==
    ASSUME NEW p, Run(p), Fit(p.net, p.l4),
           p.target \in Words, p.source \in Words, p.ttl \in Words,
           p.ports[1] \in Words, p.ports[2] \in Words, p.payload \in 0 .. 2,
           p.ttls \subseteq Words \cup {NoTtl},
           \A f \in p.flows : f = NoFlow \/ FlowBase + f \in Words,
           IsList(p.steps), Len(p.steps) <= 8
    PROVE  Typed' /\ IsList(todo') /\ Len(todo') <= 8
  BY DEF Run, Typed, Fit

LEMMA FlowsAreWords ==
    ASSUME NEW S, S = {0, 1} \/ S = {NoFlow}
    PROVE  \A f \in S : f = NoFlow \/ FlowBase + f \in Words
<1>1. FlowBase \in Words /\ FlowBase \in Int
  BY ProtocolsAssumption DEF Words
<1>2. FlowBase + 1 \in Words
  BY ProgramsAssumption
<1>3. FlowBase + 0 = FlowBase
  BY <1>1
<1> QED
  BY <1>1, <1>2, <1>3

(* The three mains hand over such a program.                               *)
LEMMA TracerouteProgramTyped ==
    ASSUME SettingsInv, tool = TracerouteTool, Accepted, NEW f, f = FamilyOf(settings, Destination),
           NEW p, p = TracerouteProgram(settings, f, FirstAddress(f, Destination)), Run(p)
    PROVE  Typed' /\ IsList(todo') /\ Len(todo') <= 8
<1>1. AddressesOf(f, Destination) # {} /\ Destination \in DOMAIN Hosts
  BY DEF Accepted, Resolves
<1>2. f \in IpNames
  BY <1>1, FamilyKnown
<1>3. PICK s, target, steps, ttls, ports, l4 :
          /\ s = settings /\ target = FirstAddress(f, Destination) /\ ports = PortsOf(s)
          /\ steps = <<"protocols", "address">> \o IF UsesIcmp(s) THEN << >> ELSE <<"ports", "resize">>
          /\ ttls = FirstTtls(s) /\ l4 = TracerouteProtocol(s, f)
  OBVIOUS
<1>4. /\ p.net = f /\ p.l4 = l4 /\ p.target = target /\ p.source = 0 /\ p.ttl = 0
      /\ p.ports = ports /\ p.payload = 1 /\ p.steps = steps /\ p.ttls = ttls
      /\ p.flows = {0, 1} \/ p.flows = {NoFlow}
  BY <1>3 DEF TracerouteProgram
<1>5. GoodSettings(s, TracerouteTool)
  BY <1>3 DEF SettingsInv
<1>6. target \in Words
  BY <1>1, <1>3, AddressKnown
<1>7. ports[1] \in Words /\ ports[2] \in Words
  BY <1>3, <1>5, PortsKnown
<1>8. ttls \subseteq Words \cup {NoTtl}
  <2>1. PICK k \in Int : k = 0
    OBVIOUS
  <2> QED
    BY <1>3, <1>5, <2>1, HopsAreWords
<1>9. Fit(f, l4)
  BY <1>2, <1>3, ProtocolsFit
<1>10. \A x \in p.flows : x = NoFlow \/ FlowBase + x \in Words
  BY <1>4, FlowsAreWords
<1>11. IsList(steps) /\ Len(steps) <= 8
  <2>1. PICK e, none, a, b, c : /\ e = (IF UsesIcmp(s) THEN << >> ELSE <<"ports", "resize">>)
                                /\ none = << >> /\ a = "protocols" /\ b = "address" /\ c = 0
    OBVIOUS
  <2>2. e = << >> \/ \E x, y : e = <<x, y>>
    BY <2>1
  <2>3. steps = <<a, b>> \o e
    BY <1>3, <2>1
  <2>4. IsList(<<a, b>> \o e) /\ Len(<<a, b>> \o e) <= 8
    BY <2>1, <2>2, StepsAreFew
  <2> QED
    BY <2>3, <2>4
<1>12. 0 \in Words
  BY WordsAre
<1>13. 1 \in 0 .. 2
  OBVIOUS
<1> QED
  BY <1>4, <1>6, <1>7, <1>8, <1>9, <1>10, <1>11, <1>12, <1>13, RunTyped

LEMMA PingProgramTyped ==
    ASSUME SettingsInv, Accepted, NEW f, f = FamilyOf(settings, Destination), NEW source,
           source = 0 \/ (AddressesOf(f, settings.source) # {}
                            /\ source = FirstAddress(f, settings.source)),
           NEW p, p = PingProgram(settings, f, FirstAddress(f, Destination), source), Run(p)
    PROVE  Typed' /\ IsList(todo') /\ Len(todo') <= 8
<1>1. AddressesOf(f, Destination) # {} /\ Destination \in DOMAIN Hosts
  BY DEF Accepted, Resolves
<1>2. f \in IpNames
  BY <1>1, FamilyKnown
<1>3. PICK s, target, more, flag, ttl, ports, l4, payload :
          /\ s = settings /\ target = FirstAddress(f, Destination) /\ ports = PortsOf(s)
          /\ more = (IF UsesTcp(s) \/ UsesUdp(s) THEN <<"ports">> ELSE << >>)
          /\ flag = (IF s.tcp THEN <<"flag">> ELSE << >>)
          /\ ttl = s.max_ttl % 256 /\ l4 = PingProtocol(s, f)
          /\ payload = WordsOf(s.packet_size - PingHeaders(s, f))
  OBVIOUS
<1>4. /\ p.net = f /\ p.l4 = l4 /\ p.target = target /\ p.source = source /\ p.ttl = ttl
      /\ p.ports = ports /\ p.payload = payload
      /\ p.steps = <<"protocols", "address", "ttl">> \o more \o <<"resize">> \o flag
      /\ p.ttls = {NoTtl} /\ p.flows = {NoFlow}
  BY <1>3 DEF PingProgram
<1>5. GoodSettings(s, tool)
  BY <1>3 DEF SettingsInv
<1>6. 0 \in Words
  BY WordsAre
<1>7. target \in Words /\ source \in Words
  BY <1>1, <1>3, <1>6, AddressKnown
<1>8. ports[1] \in Words /\ ports[2] \in Words
  BY <1>3, <1>5, PortsKnown
<1>9. ttl \in Words
  <2>1. s.max_ttl \in Int
    BY <1>5 DEF GoodSettings
  <2>2. PICK k \in Int : k = s.max_ttl
    BY <2>1
  <2>3. k % 256 \in Words
    BY <1>5, HopsAreWords
  <2> QED
    BY <1>3, <2>2, <2>3
<1>10. Fit(f, l4)
  BY <1>2, <1>3, ProtocolsFit
<1>11. payload \in 0 .. 2
  BY <1>3, FewWords
<1>12. \A x \in p.flows : x = NoFlow \/ FlowBase + x \in Words
  BY <1>4, FlowsAreWords
<1>13. IsList(p.steps) /\ Len(p.steps) <= 8
  <2>1. PICK none, a, b, c, d : /\ none = << >> /\ a = "protocols" /\ b = "address"
                                /\ c = "ttl" /\ d = "resize"
    OBVIOUS
  <2>2. more = << >> \/ (\E x : more = <<x>>)
    BY <1>3
  <2>3. flag = << >> \/ (\E x : flag = <<x>>)
    BY <1>3
  <2>4. p.steps = <<a, b, c>> \o more \o <<d>> \o flag
    BY <1>4, <2>1
  <2>5. /\ IsList(<<a, b, c>> \o more \o <<d>> \o flag)
        /\ Len(<<a, b, c>> \o more \o <<d>> \o flag) <= 8
    BY <2>1, <2>2, <2>3, StepsAreFew
  <2> QED
    BY <2>4, <2>5
<1> QED
  BY <1>4, <1>7, <1>8, <1>9, <1>10, <1>11, <1>12, <1>13, RunTyped

LEMMA ExampleProgramTyped ==
    ASSUME NEW p, p = ExampleProgram, Run(p)
    PROVE  Typed' /\ IsList(todo') /\ Len(todo') <= 8
<1>1. PICK T : T = [family : IpNames, address : Words \ {0}]
  OBVIOUS
<1>2. Hosts[ExampleHost] \in Seq(T) /\ Hosts[ExampleHost] # << >>
  BY <1>1, ProgramsAssumption
<1>3. Hosts[ExampleHost][1] \in T
  BY <1>2
<1>4. PICK target, net, a, b : /\ target = Hosts[ExampleHost][1].address
                               /\ net = GuessFamily(ExampleHost) /\ a = TcpPorts[1] /\ b = ExamplePort
  OBVIOUS
<1>5. /\ p.net = net /\ p.l4 = "tcp" /\ p.target = target /\ p.source = 0 /\ p.ttl = 0
      /\ p.ports = <<a, b>> /\ p.payload = 2
      /\ p.steps = <<"protocols", "write", "target">> /\ p.ttls = {1, 2} /\ p.flows = {NoFlow}
  BY <1>4 DEF ExampleProgram
<1>6. target \in Words /\ net \in IpNames
  BY <1>1, <1>3, <1>4 DEF GuessFamily
<1>7. a \in Words /\ b \in Words
  BY <1>4, ProtocolsAssumption, ProgramsAssumption
<1>8. 0 \in Words /\ 1 \in Words /\ 2 \in Words
  BY ProtocolsAssumption DEF Words
<1>9. p.ports[1] = a /\ p.ports[2] = b
  BY <1>5
<1>10. Fit(net, "tcp")
  BY <1>6, ProtocolsFit
<1>11. \A x \in p.flows : x = NoFlow \/ FlowBase + x \in Words
  BY <1>5, FlowsAreWords
<1>12. IsList(p.steps) /\ Len(p.steps) <= 8
  <2>1. PICK none, x, y, z : /\ none = << >> /\ x = "protocols" /\ y = "write" /\ z = "target"
    OBVIOUS
  <2>2. IsList(<<x, y, z>>) /\ Len(<<x, y, z>>) <= 8
    BY <2>1, StepsAreFew
  <2> QED
    BY <1>5, <2>1, <2>2
<1>13. 2 \in 0 .. 2 /\ p.ttls \subseteq Words \cup {NoTtl}
  BY <1>5, <1>8
<1> QED
  BY <1>5, <1>6, <1>7, <1>8, <1>9, <1>10, <1>11, <1>12, <1>13, RunTyped

(* A main begins with packets none of which is wrong.                      *)
LEMMA MainSound ==
    ASSUME SettingsInv, SoundInv, Unknown, Main
    PROVE  SoundInv'
<1>1. /\ skel' = skel /\ sendq' = sendq /\ flying' = flying /\ wire' = wire /\ lastTag' = lastTag
  BY DEF Main
<1>2. lastTag' \in Words
  BY <1>1 DEF SoundInv
<1>3. CASE Fail
  BY <1>1, <1>2, <1>3 DEF Fail, Unknown, NoSkeleton, NoProbe, SoundInv
<1>4. SUFFICES ASSUME ~Fail
               PROVE  SoundInv'
  BY <1>3
<1>5. Typed' /\ IsList(todo') /\ Len(todo') <= 8
  <2>1. CASE TracerouteMain
    <3>1. tool = TracerouteTool /\ Accepted
      BY <1>4, <2>1, Zenon DEF TracerouteMain
    <3>2. PICK f \in {FamilyOf(settings, Destination)} :
            \E p \in {TracerouteProgram(settings, f, FirstAddress(f, Destination))} : Run(p)
      BY <1>4, <2>1, Zenon DEF TracerouteMain
    <3> QED
      BY <3>1, <3>2, TracerouteProgramTyped
  <2>2. CASE PingMain
    <3>1. Accepted
      BY <1>4, <2>2, Zenon DEF PingMain
    <3>2. PICK f \in {FamilyOf(settings, Destination)} :
            /\ ~(settings.source # "" /\ AddressesOf(f, settings.source) = {})
            /\ \E p \in {PingProgram(settings, f, FirstAddress(f, Destination),
                                     IF settings.source = "" THEN 0
                                     ELSE FirstAddress(f, settings.source))} : Run(p)
      BY <1>4, <2>2, Zenon DEF PingMain
    <3>3. PICK source :
            source = IF settings.source = "" THEN 0 ELSE FirstAddress(f, settings.source)
      OBVIOUS
    <3>4. source = 0 \/ (AddressesOf(f, settings.source) # {}
                           /\ source = FirstAddress(f, settings.source))
      BY <3>2, <3>3
    <3>5. \E p \in {PingProgram(settings, f, FirstAddress(f, Destination), source)} : Run(p)
      BY <3>2, <3>3
    <3> QED
      BY <3>1, <3>4, <3>5, PingProgramTyped
  <2>3. CASE ExampleMain
    BY <2>3, ExampleProgramTyped DEF ExampleMain
  <2> QED
    BY <2>1, <2>2, <2>3 DEF Main
<1> QED
  BY <1>2, <1>5, MainReady DEF SoundInv

(* Every step of a program keeps the packets whole, as far as their         *)
(* lengths and their checksums go.                                          *)
LEMMA SoundNext ==
    ASSUME ProgramsInv, SettingsInv, SoundInv, [Next]_<<vars, cmdVars>>
    PROVE  SoundInv'
<1>1. PacketInv
  BY DEF ProgramsInv
<1>2. CASE UNCHANGED vars
  BY <1>2, QuietSound
<1>3. CASE Main
  <2>1. Unknown
    BY <1>1, <1>3, ReadsFirst, WaitingIsUnknown DEF ProgramsInv
  <2> QED
    BY <1>3, <2>1, MainSound
<1>4. CASE SetFlag
  BY <1>1, <1>4, SetFlagSound
<1>5. CASE ProbeNext
  BY <1>1, <1>5, ProbeNextSound
<1>6. UNCHANGED vars \/ Main \/ SetFlag \/ ProbeNext
  BY DEF Next, vars
<1> QED
  BY <1>2, <1>3, <1>4, <1>5, <1>6

(* A packet that has left is as long as its headers say, and its checksums *)
(* add up.                                                                  *)
LEMMA SoundIsWellFormed ==
    ASSUME SoundInv
    PROVE  WellFormed
<1>1. CASE NoProbe
  BY <1>1 DEF NoProbe, WellFormed
<1>2. CASE SoundProbes
  BY <1>2 DEF SoundProbes
<1> QED
  BY <1>1, <1>2 DEF SoundInv, Unknown, Ready

(* The length fields of every packet that leaves are right and the one's   *)
(* complement sums of its headers come out as the protocols ask, whatever  *)
(* the options, the hosts, the words and the tags are: the tag is written  *)
(* in the payload, the checksum is computed, and the two are exchanged,    *)
(* which changes no sum (network_tag_probe, probe_update_checksum).        *)
THEOREM PacketsWellFormed == Spec => []WellFormed
<1>1. Init => SettingsInv /\ SoundInv
  BY SettingsInit, SoundInit DEF Init
<1>2. ProgramsInv /\ SettingsInv /\ SoundInv /\ [Next]_<<vars, cmdVars>>
        => SettingsInv' /\ SoundInv'
  BY SettingsNext, SoundNext
<1>3. SoundInv => WellFormed
  BY SoundIsWellFormed
<1> QED
  BY <1>1, <1>2, <1>3, ProgramsInvariant, PTL DEF Spec

-----------------------------------------------------------------------------
(* What is asked for *)

(* What a main has made of its options, and who its destination is. *)
ProgramAsked ==
    /\ [family |-> program.net, address |-> program.target] \in Range(Hosts[Destination])
    /\ (settings.ipv4 => program.net = "ipv4") /\ (settings.ipv6 => program.net = "ipv6")
    /\ program.l4 \in ProtocolsAsked
    /\ settings.dst_port.set => program.ports[2] = settings.dst_port.value
    /\ settings.src_port.set => program.ports[1] = settings.src_port.value

LEMMA DestinationAsked ==
    ASSUME NEW s, NEW name, NEW f, CheckIpVersion(s), f = FamilyOf(s, name),
           AddressesOf(f, name) # {}
    PROVE  /\ [family |-> f, address |-> FirstAddress(f, name)] \in Range(Hosts[name])
           /\ (s.ipv4 => f = "ipv4") /\ (s.ipv6 => f = "ipv6")
<1>1. \E i \in DOMAIN Hosts[name] :
        Hosts[name][i] = [family |-> f, address |-> FirstAddress(f, name)]
  BY AddressKnown
<1>2. [family |-> f, address |-> FirstAddress(f, name)] \in Range(Hosts[name])
  BY <1>1 DEF Range
<1>3. (s.ipv4 => f = "ipv4") /\ (s.ipv6 => f = "ipv6")
  BY DEF FamilyOf, CheckIpVersion
<1> QED
  BY <1>2, <1>3

(* The protocols asked for: ProtocolsAsked, of any settings, tool and version. *)
AskedOf(s, tl, net) ==
    LET flags  == {f \in {"icmp", "tcp", "udp"} : s[f]}
        choice == Head(s.protocol)
        asked  == IF flags = {} THEN {choice}
                  ELSE IF choice = Head(Defaults(tl).protocol) THEN flags
                  ELSE flags \cup {choice}
    IN  {IF p = "icmp" THEN IcmpOf(net) ELSE p : p \in asked}

(* The protocol that a main picks was asked for. *)
LEMMA TracerouteProtocolAsked ==
    ASSUME NEW s, IsChoice(s.protocol), NEW net
    PROVE  TracerouteProtocol(s, net) \in AskedOf(s, TracerouteTool, net)
<1> DEFINE flags == {f \in {"icmp", "tcp", "udp"} : s[f]}
           asked == IF flags = {} THEN {Head(s.protocol)}
                    ELSE IF Head(s.protocol) = Head(Defaults(TracerouteTool).protocol) THEN flags
                    ELSE flags \cup {Head(s.protocol)}
<1>1. PICK c : c = Head(s.protocol)
  OBVIOUS
<1>2. c \in {"icmp", "tcp", "udp"}
  <2>1. s.protocol[1] \in Transports
    BY DEF IsChoice
  <2>2. Head(s.protocol) = s.protocol[1]
    OBVIOUS
  <2> QED
    BY <1>1, <2>1, <2>2 DEF Transports
<1>3. Head(Defaults(TracerouteTool).protocol) = "udp"
  BY DEF Defaults, ChoicesOf, TracerouteTool, PingTool
<1>4. PICK b : b = IF UsesIcmp(s) THEN "icmp" ELSE IF UsesTcp(s) THEN "tcp" ELSE "udp"
  OBVIOUS
<1>5. b \in asked
  BY <1>1, <1>2, <1>3, <1>4 DEF UsesIcmp, UsesTcp
<1>6. TracerouteProtocol(s, net) = IF b = "icmp" THEN IcmpOf(net) ELSE b
  BY <1>4 DEF TracerouteProtocol
<1>7. AskedOf(s, TracerouteTool, net) = {IF p = "icmp" THEN IcmpOf(net) ELSE p : p \in asked}
  BY DEF AskedOf
<1> HIDE DEF asked
<1> QED
  BY <1>5, <1>6, <1>7

LEMMA PingProtocolAsked ==
    ASSUME NEW s, IsChoice(s.protocol), NEW net
    PROVE  PingProtocol(s, net) \in AskedOf(s, PingTool, net)
<1> DEFINE flags == {f \in {"icmp", "tcp", "udp"} : s[f]}
           asked == IF flags = {} THEN {Head(s.protocol)}
                    ELSE IF Head(s.protocol) = Head(Defaults(PingTool).protocol) THEN flags
                    ELSE flags \cup {Head(s.protocol)}
<1>1. PICK c : c = Head(s.protocol)
  OBVIOUS
<1>2. c \in {"icmp", "tcp", "udp"}
  <2>1. s.protocol[1] \in Transports
    BY DEF IsChoice
  <2>2. Head(s.protocol) = s.protocol[1]
    OBVIOUS
  <2> QED
    BY <1>1, <2>1, <2>2 DEF Transports
<1>3. Head(Defaults(PingTool).protocol) = "icmp"
  BY DEF Defaults, ChoicesOf
<1>4. PICK b : b = IF UsesTcp(s) THEN "tcp" ELSE IF UsesUdp(s) THEN "udp" ELSE "icmp"
  OBVIOUS
<1>5. b \in asked
  BY <1>1, <1>2, <1>3, <1>4 DEF UsesTcp, UsesUdp
<1>6. PingProtocol(s, net) = IF b = "icmp" THEN IcmpOf(net) ELSE b
  BY <1>4 DEF PingProtocol
<1>7. AskedOf(s, PingTool, net) = {IF p = "icmp" THEN IcmpOf(net) ELSE p : p \in asked}
  BY DEF AskedOf
<1> HIDE DEF asked
<1> QED
  BY <1>5, <1>6, <1>7

-----------------------------------------------------------------------------
(* The steps of a main: the protocols first, and no step that is unknown.   *)
Orderly(s, steps) ==
    /\ IsList(s) /\ Range(s) = steps
    /\ \A i \in DOMAIN s : s[i] = "protocols" => i = 1

LEMMA OrderlyJoin ==
    ASSUME NEW s, NEW t, NEW A, NEW B, Orderly(s, A), Orderly(t, B), "protocols" \notin B
    PROVE  Orderly(s \o t, A \cup B)
<1>1. PICK e : e = s \o t
  OBVIOUS
<1>2. IsList(s) /\ IsList(t)
  BY DEF Orderly
<1>3. PICK m \in Nat, n \in Nat : m = Len(s) /\ n = Len(t)
  BY <1>2, ListDomain
<1>4. /\ IsList(e) /\ Len(e) = m + n
      /\ \A i \in 1 .. m : e[i] = s[i]
      /\ \A i \in 1 .. n : e[m + i] = t[i]
  BY <1>1, <1>2, <1>3, ListJoin
<1>5. DOMAIN e = 1 .. m + n /\ DOMAIN s = 1 .. m /\ DOMAIN t = 1 .. n
  BY <1>2, <1>3, <1>4, ListDomain
<1>6. ASSUME NEW i \in DOMAIN e
      PROVE  \/ i \in 1 .. m /\ e[i] = s[i]
             \/ i - m \in 1 .. n /\ e[i] = t[i - m]
  <2>1. CASE i <= m
    BY <1>4, <1>5, <2>1
  <2>2. CASE ~(i <= m)
    <3>1. i - m \in 1 .. n /\ m + (i - m) = i
      BY <1>5, <2>2
    <3> QED
      BY <1>4, <3>1
  <2> QED
    BY <2>1, <2>2
<1>7. /\ \A i \in 1 .. m : s[i] \in A /\ (s[i] = "protocols" => i = 1)
      /\ \A i \in 1 .. n : t[i] \in B
      /\ \A x \in A : \E i \in 1 .. m : s[i] = x
      /\ \A x \in B : \E i \in 1 .. n : t[i] = x
  BY <1>5 DEF Orderly, Range
<1>8. Range(e) = A \cup B
  <2>1. \A i \in DOMAIN e : e[i] \in A \cup B
    BY <1>6, <1>7
  <2>2. ASSUME NEW x \in A
        PROVE  \E i \in DOMAIN e : e[i] = x
    <3>1. PICK i \in 1 .. m : s[i] = x
      BY <1>7
    <3>2. i \in DOMAIN e
      BY <1>5
    <3> QED
      BY <1>4, <3>1, <3>2
  <2>3. ASSUME NEW x \in B
        PROVE  \E i \in DOMAIN e : e[i] = x
    <3>1. PICK i \in 1 .. n : t[i] = x
      BY <1>7
    <3>2. m + i \in DOMAIN e
      BY <1>5
    <3> QED
      BY <1>4, <3>1, <3>2
  <2> QED
    BY <2>1, <2>2, <2>3 DEF Range
<1>9. \A i \in DOMAIN e : e[i] = "protocols" => i = 1
  BY <1>6, <1>7
<1> QED
  BY <1>1, <1>4, <1>8, <1>9 DEF Orderly

LEMMA OrderlyTuples ==
    ASSUME NEW a, NEW b, NEW c
    PROVE  /\ \A s : s = << >> => Orderly(s, {})
           /\ \A s : s = <<a>> => Orderly(s, {a})
           /\ b # "protocols" => \A s : s = <<a, b>> => Orderly(s, {a, b})
           /\ b # "protocols" /\ c # "protocols" =>
                \A s : s = <<a, b, c>> => Orderly(s, {a, b, c})
<1>1. ASSUME NEW s, s = << >>
      PROVE  Orderly(s, {})
  <2>1. IsList(s)
    BY <1>1, SomeTuples
  <2>2. DOMAIN s = {}
    BY <1>1
  <2> QED
    BY <2>1, <2>2 DEF Orderly, Range
<1>2. ASSUME NEW s, s = <<a>>
      PROVE  Orderly(s, {a})
  <2>1. IsList(s)
    BY <1>2, SomeTuples
  <2>2. DOMAIN s = {1} /\ s[1] = a
    BY <1>2
  <2> QED
    BY <2>1, <2>2 DEF Orderly, Range
<1>3. ASSUME NEW s, s = <<a, b>>, b # "protocols"
      PROVE  Orderly(s, {a, b})
  <2>1. IsList(s)
    BY <1>3, SomeTuples DEF Begins
  <2>2. DOMAIN s = {1, 2} /\ s[1] = a /\ s[2] = b
    BY <1>3
  <2> QED
    BY <1>3, <2>1, <2>2 DEF Orderly, Range
<1>4. ASSUME NEW s, s = <<a, b, c>>, b # "protocols", c # "protocols"
      PROVE  Orderly(s, {a, b, c})
  <2>1. IsList(s)
    BY <1>4, SomeTuples DEF Begins
  <2>2. DOMAIN s = {1, 2, 3} /\ s[1] = a /\ s[2] = b /\ s[3] = c
    BY <1>4
  <2> QED
    BY <1>4, <2>1, <2>2 DEF Orderly, Range
<1> QED
  BY <1>1, <1>2, <1>3, <1>4

LEMMA BeginsDrawn ==
    ASSUME NEW p, Run(p), NEW steps, Orderly(p.steps, steps),
           steps \subseteq {"protocols", "address", "ttl", "ports", "resize", "flag"},
           "address" \in steps, p.l4 \notin IcmpNames => "ports" \in steps
    PROVE  Drawn'
<1>1. program' = p /\ todo' = p.steps
  BY DEF Run
<1>2. \A x \in steps : \E i \in DOMAIN p.steps : p.steps[i] = x
  BY DEF Orderly, Range
<1>3. \A i \in DOMAIN p.steps : p.steps[i] \in steps
  BY DEF Orderly, Range
<1>4. Left("address")' /\ (p.l4 \notin IcmpNames => Left("ports")')
  BY <1>1, <1>2 DEF Left
<1>5. IsList(todo') /\ \A i \in DOMAIN todo' : todo'[i] = "protocols" => i = 1
  BY <1>1 DEF Orderly
<1>6. \A i \in DOMAIN todo' :
        todo'[i] \in {"protocols", "address", "ttl", "ports", "resize", "flag"}
  BY <1>1, <1>3
<1>7. program'.l4 = p.l4
  BY <1>1
<1> QED
  BY <1>4, <1>5, <1>6, <1>7 DEF Drawn

LEMMA TracerouteAsks ==
    ASSUME SettingsInv, tool = TracerouteTool, Accepted,
           NEW f, f = FamilyOf(settings, Destination),
           NEW p, p = TracerouteProgram(settings, f, FirstAddress(f, Destination)), Run(p),
           settings' = settings, argv' = argv, tool' = tool
    PROVE  ProgramAsked' /\ Drawn'
<1>1. AddressesOf(f, Destination) # {} /\ Destination \in DOMAIN Hosts
  BY DEF Accepted, Resolves
<1>2. f \in IpNames
  BY <1>1, FamilyKnown
<1>3. /\ p.net = f /\ p.l4 = TracerouteProtocol(settings, f) /\ p.target = FirstAddress(f, Destination)
      /\ p.ports = PortsOf(settings)
      /\ p.steps = <<"protocols", "address">>
                   \o IF UsesIcmp(settings) THEN << >> ELSE <<"ports", "resize">>
  BY DEF TracerouteProgram
<1>4. program' = p
  BY DEF Run
<1>5. GoodSettings(settings, tool)
  BY DEF SettingsInv
<1>6. ProgramAsked'
  <2>1. CheckIpVersion(settings)
    BY DEF Accepted, CheckOptions
  <2>2. Destination' = Destination
    BY DEF Destination
  <2>3. /\ [family |-> f, address |-> FirstAddress(f, Destination)] \in Range(Hosts[Destination])
        /\ (settings.ipv4 => f = "ipv4") /\ (settings.ipv6 => f = "ipv6")
    BY <1>1, <2>1, DestinationAsked
  <2>4. /\ settings.dst_port.set => PortsOf(settings)[2] = settings.dst_port.value
        /\ settings.src_port.set => PortsOf(settings)[1] = settings.src_port.value
    BY <1>5, PortsKnown
  <2>5. (program.l4 \in ProtocolsAsked)'
    <3>1. TracerouteProtocol(settings, f) \in AskedOf(settings, TracerouteTool, f)
      BY <1>5, TracerouteProtocolAsked DEF GoodSettings
    <3>2. ProtocolsAsked' = AskedOf(settings', tool', program'.net)
      BY DEF ProtocolsAsked, AskedOf
    <3> QED
      BY <1>3, <1>4, <3>1, <3>2
  <2> QED
    BY <1>3, <1>4, <2>2, <2>3, <2>4, <2>5 DEF ProgramAsked
<1>7. Drawn'
  <2>1. PICK s, t : /\ s = <<"protocols", "address">>
                    /\ t = (IF UsesIcmp(settings) THEN << >> ELSE <<"ports", "resize">>)
    OBVIOUS
  <2>2. Orderly(s, {"protocols", "address"})
    BY <2>1, OrderlyTuples
  <2>3. p.steps = s \o t
    BY <1>3, <2>1
  <2>4. CASE UsesIcmp(settings)
    <3>1. Orderly(t, {})
      BY <2>1, <2>4, OrderlyTuples
    <3>2. Orderly(p.steps, {"protocols", "address"} \cup {})
      BY <2>2, <2>3, <3>1, OrderlyJoin
    <3>3. p.l4 \in IcmpNames
      BY <1>3, <2>4 DEF TracerouteProtocol, IcmpOf, IcmpNames
    <3> QED
      BY <3>2, <3>3, BeginsDrawn
  <2>5. CASE ~UsesIcmp(settings)
    <3>1. Orderly(t, {"ports", "resize"})
      BY <2>1, <2>5, OrderlyTuples
    <3>2. Orderly(p.steps, {"protocols", "address"} \cup {"ports", "resize"})
      BY <2>2, <2>3, <3>1, OrderlyJoin
    <3> QED
      BY <3>2, BeginsDrawn
  <2> QED
    BY <2>4, <2>5
<1> QED
  BY <1>6, <1>7

LEMMA PingAsks ==
    ASSUME SettingsInv, tool = PingTool, Accepted,
           NEW f, f = FamilyOf(settings, Destination), NEW source,
           NEW p, p = PingProgram(settings, f, FirstAddress(f, Destination), source), Run(p),
           settings' = settings, argv' = argv, tool' = tool
    PROVE  ProgramAsked' /\ Drawn'
<1>1. AddressesOf(f, Destination) # {} /\ Destination \in DOMAIN Hosts
  BY DEF Accepted, Resolves
<1>2. f \in IpNames
  BY <1>1, FamilyKnown
<1>3. /\ p.net = f /\ p.l4 = PingProtocol(settings, f) /\ p.target = FirstAddress(f, Destination)
      /\ p.ports = PortsOf(settings)
      /\ p.steps = <<"protocols", "address", "ttl">>
                   \o (IF UsesTcp(settings) \/ UsesUdp(settings) THEN <<"ports">> ELSE << >>)
                   \o <<"resize">> \o (IF settings.tcp THEN <<"flag">> ELSE << >>)
  BY DEF PingProgram
<1>4. program' = p
  BY DEF Run
<1>5. GoodSettings(settings, tool)
  BY DEF SettingsInv
<1>6. ProgramAsked'
  <2>1. CheckIpVersion(settings)
    BY DEF Accepted, CheckOptions
  <2>2. Destination' = Destination
    BY DEF Destination
  <2>3. /\ [family |-> f, address |-> FirstAddress(f, Destination)] \in Range(Hosts[Destination])
        /\ (settings.ipv4 => f = "ipv4") /\ (settings.ipv6 => f = "ipv6")
    BY <1>1, <2>1, DestinationAsked
  <2>4. /\ settings.dst_port.set => PortsOf(settings)[2] = settings.dst_port.value
        /\ settings.src_port.set => PortsOf(settings)[1] = settings.src_port.value
    BY <1>5, PortsKnown
  <2>5. (program.l4 \in ProtocolsAsked)'
    <3>1. PingProtocol(settings, f) \in AskedOf(settings, PingTool, f)
      BY <1>5, PingProtocolAsked DEF GoodSettings
    <3>2. ProtocolsAsked' = AskedOf(settings', tool', program'.net)
      BY DEF ProtocolsAsked, AskedOf
    <3> QED
      BY <1>3, <1>4, <3>1, <3>2
  <2> QED
    BY <1>3, <1>4, <2>2, <2>3, <2>4, <2>5 DEF ProgramAsked
<1>7. Drawn'
  <2>1. PICK s, t, u, v :
          /\ s = <<"protocols", "address", "ttl">>
          /\ t = (IF UsesTcp(settings) \/ UsesUdp(settings) THEN <<"ports">> ELSE << >>)
          /\ u = <<"resize">>
          /\ v = (IF settings.tcp THEN <<"flag">> ELSE << >>)
    OBVIOUS
  <2>2. p.steps = s \o t \o u \o v
    BY <1>3, <2>1
  <2>3. PICK B : /\ Orderly(t, B) /\ B \subseteq {"ports"}
                 /\ UsesTcp(settings) \/ UsesUdp(settings) => B = {"ports"}
    <3>1. CASE UsesTcp(settings) \/ UsesUdp(settings)
      <4>1. Orderly(t, {"ports"})
        BY <2>1, <3>1, OrderlyTuples
      <4> QED
        BY <3>1, <4>1
    <3>2. CASE ~(UsesTcp(settings) \/ UsesUdp(settings))
      <4>1. Orderly(t, {})
        BY <2>1, <3>2, OrderlyTuples
      <4> QED
        BY <3>2, <4>1
    <3> QED
      BY <3>1, <3>2
  <2>4. PICK D : Orderly(v, D) /\ D \subseteq {"flag"}
    <3>1. CASE settings.tcp
      <4>1. Orderly(v, {"flag"})
        BY <2>1, <3>1, OrderlyTuples
      <4> QED
        BY <4>1
    <3>2. CASE ~settings.tcp
      <4>1. Orderly(v, {})
        BY <2>1, <3>2, OrderlyTuples
      <4> QED
        BY <4>1
    <3> QED
      BY <3>1, <3>2
  <2>5. PICK A, C : A = {"protocols", "address", "ttl"} /\ C = {"resize"}
    OBVIOUS
  <2>6. Orderly(s, A) /\ Orderly(u, C)
    BY <2>1, <2>5, OrderlyTuples
  <2>7. "protocols" \notin B /\ "protocols" \notin C /\ "protocols" \notin D
    BY <2>3, <2>4, <2>5
  <2>8. Orderly(s \o t, A \cup B)
    BY <2>3, <2>6, <2>7, OrderlyJoin
  <2>9. Orderly(s \o t \o u, A \cup B \cup C)
    BY <2>6, <2>7, <2>8, OrderlyJoin
  <2>10. Orderly(p.steps, A \cup B \cup C \cup D)
    BY <2>2, <2>4, <2>7, <2>9, OrderlyJoin
  <2>11. p.l4 \notin IcmpNames => "ports" \in B
    BY <1>3, <2>3 DEF PingProtocol, IcmpOf, IcmpNames
  <2> QED
    BY <2>3, <2>4, <2>5, <2>10, <2>11, BeginsDrawn
<1> QED
  BY <1>6, <1>7

(* The flows of the probes are those of the program. *)
FlowsAsked ==
    /\ \A i \in DOMAIN sendq : sendq[i].flow \in program.flows
    /\ \A i \in DOMAIN wire : wire[i].flow \in program.flows

(* Once a main has run, what was asked for stands, and its skeleton holds it. *)
AskedInv ==
    /\ Unknown \/ tool = ExampleTool \/ (ProgramAsked /\ Drawn)
    /\ FlowsAsked

LEMMA MainAsks ==
    ASSUME SettingsInv, AskedInv, Unknown, Main
    PROVE  AskedInv'
<1>1. /\ skel' = skel /\ sendq' = sendq /\ flying' = flying /\ wire' = wire
      /\ settings' = settings /\ argv' = argv /\ tool' = tool
  BY DEF Main
<1>2. FlowsAsked'
  BY <1>1 DEF FlowsAsked, Unknown, NoProbe
<1>3. CASE Fail
  <2>1. Unknown'
    BY <1>1, <1>3 DEF Fail, Unknown, NoSkeleton, NoProbe
  <2> QED
    BY <1>2, <2>1 DEF AskedInv
<1>4. CASE TracerouteMain /\ ~Fail
  <2>1. tool = TracerouteTool /\ Accepted
    BY <1>4, Zenon DEF TracerouteMain
  <2>2. PICK f \in {FamilyOf(settings, Destination)} :
          \E p \in {TracerouteProgram(settings, f, FirstAddress(f, Destination))} : Run(p)
    BY <1>4, Zenon DEF TracerouteMain
  <2> QED
    BY <1>1, <1>2, <2>1, <2>2, TracerouteAsks DEF AskedInv
<1>5. CASE PingMain /\ ~Fail
  <2>1. tool = PingTool /\ Accepted
    BY <1>5, Zenon DEF PingMain
  <2>2. PICK f \in {FamilyOf(settings, Destination)} :
          \E p \in {PingProgram(settings, f, FirstAddress(f, Destination),
                                IF settings.source = "" THEN 0
                                ELSE FirstAddress(f, settings.source))} : Run(p)
    BY <1>5, Zenon DEF PingMain
  <2>3. PICK source :
          source = IF settings.source = "" THEN 0 ELSE FirstAddress(f, settings.source)
    OBVIOUS
  <2>4. \E p \in {PingProgram(settings, f, FirstAddress(f, Destination), source)} : Run(p)
    BY <2>2, <2>3
  <2> QED
    BY <1>1, <1>2, <2>1, <2>4, PingAsks DEF AskedInv
<1>6. CASE ExampleMain
  <2>1. tool' = ExampleTool
    BY <1>1, <1>6 DEF ExampleMain
  <2> QED
    BY <1>2, <2>1 DEF AskedInv
<1> QED
  BY <1>3, <1>4, <1>5, <1>6 DEF Main

LEMMA AskedInit ==
    ASSUME Init
    PROVE  AskedInv
<1>1. PacketInv /\ NoProbe
  BY PacketInit DEF Init, ProbeInit, NoProbe
<1>2. PICK t : t = <<"options">>
  OBVIOUS
<1>3. t # << >> /\ Head(t) = "options"
  BY <1>2
<1>4. todo = t
  BY <1>2 DEF Init, ProbeInit
<1>5. Unknown
  BY <1>1, <1>3, <1>4 DEF PacketInv, Unknown, Ready, Running, Init, ProbeInit, NoSkeleton
<1> QED
  BY <1>1, <1>5 DEF AskedInv, FlowsAsked, NoProbe

(* Steps that leave the packets alone. *)
LEMMA QuietAsks ==
    ASSUME AskedInv, UNCHANGED vars,
           Unknown \/ (settings' = settings /\ argv' = argv /\ tool' = tool)
    PROVE  AskedInv'
<1>1. /\ program' = program /\ skel' = skel /\ todo' = todo
      /\ sendq' = sendq /\ wire' = wire /\ flying' = flying
  BY DEF vars
<1>2. FlowsAsked'
  BY <1>1 DEF AskedInv, FlowsAsked
<1>3. CASE Unknown
  <2>1. Unknown'
    BY <1>1, <1>3 DEF Unknown, NoSkeleton, NoProbe
  <2> QED
    BY <1>2, <2>1 DEF AskedInv
<1>4. CASE ~Unknown
  <2>1. settings' = settings /\ argv' = argv /\ tool' = tool
    BY <1>4
  <2>2. ProgramAsked => ProgramAsked'
    BY <1>1, <2>1 DEF ProgramAsked, ProtocolsAsked, Destination
  <2>3. Drawn => Drawn'
    BY <1>1 DEF Drawn, Left
  <2> QED
    BY <1>2, <1>4, <2>1, <2>2, <2>3 DEF AskedInv
<1> QED
  BY <1>3, <1>4

LEMMA SetFlagAsks ==
    ASSUME PacketInv, AskedInv, SetFlag
    PROVE  AskedInv'
<1>1. /\ todo # << >> /\ Head(todo) = "flag"
      /\ settings' = settings /\ argv' = argv /\ tool' = tool
  BY Zenon DEF SetFlag
<1>2. CASE UNCHANGED vars
  BY <1>1, <1>2, QuietAsks
<1>3. CASE /\ AtStep("flag")
           /\ \E p \in {SetFieldFrom(skel, "flags", 1, 0), skel} : Built(p)
  <2>1. Running /\ ~Unknown
    BY <1>1 DEF PacketInv, Unknown, Ready
  <2>2. PICK p : p \in {SetFieldFrom(skel, "flags", 1, 0), skel} /\ Built(p)
    BY <1>3
  <2>3. /\ skel' = p /\ todo' = Tail(todo) /\ program' = program
        /\ sendq' = sendq /\ wire' = wire
    BY <1>3, <2>2 DEF Built, AtStep
  <2>4. Alike(skel.data, SetFieldFrom(skel, "flags", 1, 0).data, program.net, program.l4)
    BY <2>1, SetAlike DEF Running, GoodProgram
  <2>5. Alike(skel.data, skel'.data, program.net, program.l4)
    BY <2>2, <2>3, <2>4 DEF Alike
  <2>6. Drawn => Drawn'
    BY <1>1, <2>3, <2>5, DrawnAlike
  <2>7. ProgramAsked => ProgramAsked'
    BY <1>1, <2>3 DEF ProgramAsked, ProtocolsAsked, Destination
  <2>8. FlowsAsked'
    BY <2>3 DEF AskedInv, FlowsAsked
  <2> QED
    BY <1>1, <2>1, <2>6, <2>7, <2>8 DEF AskedInv
<1>4. PICK end : end = FlagEnd(IF settings.ack THEN "ack" ELSE "syn")
  OBVIOUS
<1>5. IF end = "aborted"
      THEN outcome' = "aborted" /\ UNCHANGED vars
      ELSE /\ AtStep("flag")
           /\ Built(IF end = "done" THEN SetFieldFrom(skel, "flags", 1, 0) ELSE skel)
           /\ outcome' = outcome
  BY <1>4, Zenon DEF SetFlag
<1> QED
  BY <1>2, <1>3, <1>5

(* The flow of a probe goes from the program to the wire. *)
LEMMA FlowsStay ==
    ASSUME PacketInv, FlowsAsked, ProbeNext
    PROVE  FlowsAsked'
<1>1. CASE Build
  <2>1. \E p : Built(p)
    BY <1>1, Zenon DEF Build, SetProtocols, SetAddress, SetTtl, SetPorts, ResizePayload, WriteFirst,
                       SetTarget
  <2> QED
    BY <2>1 DEF Built, FlowsAsked
<1>2. CASE SendProbe
  <2>1. /\ wire' = wire /\ program' = program /\ todo = << >>
    BY <1>2 DEF SendProbe
  <2>2. PICK x : sendq' = Append(sendq, x) /\ x.flow \in program.flows
    <3>1. PICK ttl \in program.ttls, flow \in program.flows :
             LET p == IF ttl = NoTtl THEN Dup(skel) ELSE SetField(Dup(skel), "ttl", ttl)
                 q == IF flow = NoFlow THEN p ELSE SetField(p, "flow_id", flow)
             IN  sendq' = Append(sendq, [probe |-> UpdateFields(q, 0), ttl |-> ttl, flow |-> flow])
      BY <1>2, Zenon DEF SendProbe
    <3> QED
      BY <3>1
  <2>3. IsList(sendq)
    BY <2>1 DEF PacketInv, Unknown, Ready, Running, GoodQueue
  <2>4. PICK n \in Nat : n = Len(sendq) /\ DOMAIN sendq = 1 .. n
    BY <2>3, ListDomain
  <2>5. /\ IsList(sendq') /\ Len(sendq') = n + 1 /\ \A i \in 1 .. n : sendq'[i] = sendq[i]
        /\ sendq'[n + 1] = x
    BY <2>2, <2>3, <2>4, ListAppend
  <2>6. DOMAIN sendq' = 1 .. n + 1
    BY <2>5, ListDomain
  <2>7. \A i \in DOMAIN sendq' : sendq'[i].flow \in program.flows
    BY <2>2, <2>4, <2>5, <2>6 DEF FlowsAsked
  <2> QED
    BY <2>1, <2>7 DEF FlowsAsked
<1>3. CASE ProcessSendq
  <2>1. sendq # << >> /\ sendq' = Tail(sendq) /\ program' = program
    BY <1>3 DEF ProcessSendq
  <2>2. Running
    BY <2>1 DEF PacketInv, Unknown, Ready, Running, NoProbe
  <2>3. IsList(sendq) /\ IsList(wire)
    BY <2>2 DEF Running, GoodQueue, GoodWire
  <2>4. /\ Among(sendq', sendq) /\ 1 \in DOMAIN sendq /\ Head(sendq) = sendq[1]
    BY <2>1, <2>3, TailAmong
  <2>5. \A i \in DOMAIN sendq' : sendq'[i].flow \in program.flows
    BY <2>4 DEF Among, FlowsAsked
  <2>6. wire' = wire \/ \E x : wire' = Append(wire, x) /\ x.flow = sendq[1].flow
    <3>1. PICK s : s = Head(sendq)
      OBVIOUS
    <3>2. wire' = wire \/ \E sent \in BOOLEAN, p \in {TagProbe(s.probe, lastTag')} :
             wire' = Append(wire, [data |-> p.data, ttl |-> s.ttl, flow |-> s.flow, sent |-> sent])
      BY <1>3, <3>1, Zenon DEF ProcessSendq
    <3>3. CASE wire' # wire
      <4>1. PICK sent \in BOOLEAN, p \in {TagProbe(s.probe, lastTag')} :
               wire' = Append(wire, [data |-> p.data, ttl |-> s.ttl, flow |-> s.flow, sent |-> sent])
        BY <3>2, <3>3
      <4>2. PICK x : x = [data |-> p.data, ttl |-> s.ttl, flow |-> s.flow, sent |-> sent]
        OBVIOUS
      <4>3. x.flow = s.flow /\ wire' = Append(wire, x)
        BY <4>1, <4>2
      <4> QED
        BY <2>4, <3>1, <4>3
    <3> QED
      BY <3>3
  <2>7. \A i \in DOMAIN wire' : wire'[i].flow \in program.flows
    <3>1. CASE wire' = wire
      BY <3>1 DEF FlowsAsked
    <3>2. CASE \E x : wire' = Append(wire, x) /\ x.flow = sendq[1].flow
      <4>1. PICK x : wire' = Append(wire, x) /\ x.flow = sendq[1].flow
        BY <3>2
      <4>2. PICK n \in Nat : n = Len(wire) /\ DOMAIN wire = 1 .. n
        BY <2>3, ListDomain
      <4>3. /\ IsList(wire') /\ Len(wire') = n + 1 /\ \A i \in 1 .. n : wire'[i] = wire[i]
            /\ wire'[n + 1] = x
        BY <2>3, <4>1, <4>2, ListAppend
      <4>4. DOMAIN wire' = 1 .. n + 1
        BY <4>3, ListDomain
      <4> QED
        BY <2>4, <4>1, <4>2, <4>3, <4>4 DEF FlowsAsked
    <3> QED
      BY <2>6, <3>1, <3>2
  <2> QED
    BY <2>1, <2>5, <2>7 DEF FlowsAsked
<1>4. CASE RouterAnswers \/ TargetAnswers \/ ProcessRecvq \/ DropOldest
  <2>1. sendq' = sendq /\ wire' = wire /\ program' = program
    BY <1>4 DEF RouterAnswers, TargetAnswers, ProcessRecvq, DropOldest
  <2> QED
    BY <2>1 DEF FlowsAsked
<1> QED
  BY <1>1, <1>2, <1>3, <1>4 DEF ProbeNext

(* Nothing is built or sent before the main knows its program. *)
LEMMA UnknownStays ==
    ASSUME Unknown, ProbeNext
    PROVE  Unknown'
<1>1. ~Build
  BY DEF Build, SetProtocols, SetAddress, SetTtl, SetPorts, ResizePayload, WriteFirst, SetTarget,
         AtStep, Unknown
<1>2. ~SendProbe /\ ~ProcessSendq /\ ~DropOldest
  BY DEF SendProbe, ProcessSendq, DropOldest, Unknown, NoProbe
<1>3. PICK none : none = << >>
  OBVIOUS
<1>4. DOMAIN none = {}
  BY <1>3
<1>5. MatchingProbe(0) = MatchingProbe(0) /\ flying = none
  BY <1>3 DEF Unknown, NoProbe
<1>6. \A tag : MatchingProbe(tag) = 0
  BY <1>4, <1>5 DEF MatchingProbe
<1>7. RouterAnswers \/ TargetAnswers \/ ProcessRecvq
  BY <1>1, <1>2 DEF ProbeNext
<1>8. /\ todo' = todo /\ skel' = skel /\ sendq' = sendq /\ wire' = wire /\ program' = program
  BY <1>7 DEF RouterAnswers, TargetAnswers, ProcessRecvq
<1>9. flying' = flying
  BY <1>6, <1>7, Zenon DEF RouterAnswers, TargetAnswers, ProcessRecvq
<1> QED
  BY <1>8, <1>9 DEF Unknown, NoSkeleton, NoProbe

LEMMA ProbeNextAsks ==
    ASSUME PacketInv, AskedInv, ProbeNext, UNCHANGED cmdVars
    PROVE  AskedInv'
<1>1. settings' = settings /\ argv' = argv /\ tool' = tool
  BY DEF cmdVars
<1>2. FlowsAsked'
  BY FlowsStay DEF AskedInv
<1>3. program' = program
  <2>1. Build => \E p : Built(p)
    BY Zenon DEF Build, SetProtocols, SetAddress, SetTtl, SetPorts, ResizePayload, WriteFirst, SetTarget
  <2> QED
    BY <2>1 DEF ProbeNext, Built, SendProbe, ProcessSendq, RouterAnswers, TargetAnswers, ProcessRecvq,
                DropOldest
<1>4. ProgramAsked => ProgramAsked'
  BY <1>1, <1>3 DEF ProgramAsked, ProtocolsAsked, Destination
<1>5. Drawn => Drawn'
  BY ProbeNextDraws
<1>6. Unknown => Unknown'
  BY UnknownStays
<1> QED
  BY <1>1, <1>2, <1>4, <1>5, <1>6 DEF AskedInv

LEMMA AskedNext ==
    ASSUME ProgramsInv, SettingsInv, AskedInv, [Next]_<<vars, cmdVars>>
    PROVE  AskedInv'
<1>1. PacketInv
  BY DEF ProgramsInv
<1>2. CASE OptParse /\ UNCHANGED vars
  <2>1. Unknown
    BY <1>1, <1>2, ReadsFirst, WaitingIsUnknown DEF ProgramsInv
  <2> QED
    BY <1>2, <2>1, QuietAsks
<1>3. CASE Main
  <2>1. Unknown
    BY <1>1, <1>3, ReadsFirst, WaitingIsUnknown DEF ProgramsInv
  <2> QED
    BY <1>3, <2>1, MainAsks
<1>4. CASE SetFlag
  BY <1>1, <1>4, SetFlagAsks
<1>5. CASE ProbeNext /\ UNCHANGED cmdVars
  BY <1>1, <1>5, ProbeNextAsks
<1>6. CASE UNCHANGED <<vars, cmdVars>>
  <2>1. UNCHANGED vars /\ settings' = settings /\ argv' = argv /\ tool' = tool
    BY <1>6 DEF cmdVars
  <2> QED
    BY <2>1, QuietAsks
<1> QED
  BY <1>2, <1>3, <1>4, <1>5, <1>6 DEF Next

(* A packet that has left shows what its program was made of. *)
LEMMA AskedIsAsAsked ==
    ASSUME PacketInv, AskedInv
    PROVE  AsAsked
<1> SUFFICES ASSUME tool # ExampleTool, NEW i \in DOMAIN wire
             PROVE  LET p == WrapPacket(wire[i].data)
                        net == p.layers[1].proto
                        l4  == p.layers[2].proto
                    IN  /\ [family |-> net, address |-> p.data[Position(p, "dst_ip", 0)]]
                                \in Range(Hosts[Destination])
                        /\ (settings.ipv4 => net = "ipv4") /\ (settings.ipv6 => net = "ipv6")
                        /\ l4 \in ProtocolsAsked
                        /\ l4 \notin IcmpNames /\ settings.dst_port.set =>
                               p.data[Position(p, "dst_port", 0)] = settings.dst_port.value
                        /\ l4 \notin IcmpNames /\ settings.src_port.set /\ program.flows = {NoFlow} =>
                               p.data[Position(p, "src_port", 0)] = settings.src_port.value
  BY Zenon DEF AsAsked
<1>1. ~Unknown
  BY DEF Unknown, NoProbe
<1>2. ProgramAsked /\ Drawn /\ FlowsAsked
  BY <1>1 DEF AskedInv
<1>3. PICK p : p = WrapPacket(wire[i].data)
  OBVIOUS
<1>4. /\ p.layers[1].proto = program.net
      /\ p.layers[2].proto = program.l4
      /\ p.data[Position(p, "dst_ip", 0)] = program.target
      /\ program.l4 \notin IcmpNames =>
           /\ p.data[Position(p, "dst_port", 0)] = program.ports[2]
           /\ wire[i].flow = NoFlow => p.data[Position(p, "src_port", 0)] = program.ports[1]
  BY <1>2, <1>3, SentAsDrawn
<1>5. program.flows = {NoFlow} => wire[i].flow = NoFlow
  BY <1>2 DEF FlowsAsked
<1> QED
  BY <1>2, <1>3, <1>4, <1>5 DEF ProgramAsked

(* Whatever the command line is, every packet that leaves goes to an        *)
(* address of the last argument, of the version that -4 or -6 asks for,    *)
(* with the protocol that one of the options about protocols names, to and *)
(* from the ports that were given (main and get_protocol_name of           *)
(* paris-traceroute.c and paris-ping.c): no step that builds, resizes,     *)
(* copies or tags a probe disturbs them.                                   *)
THEOREM PacketsAreAsAsked == Spec => []AsAsked
<1>1. Init => SettingsInv /\ AskedInv
  BY SettingsInit, AskedInit DEF Init
<1>2. ProgramsInv /\ SettingsInv /\ AskedInv /\ [Next]_<<vars, cmdVars>>
        => SettingsInv' /\ AskedInv'
  BY SettingsNext, AskedNext
<1>3. ProgramsInv /\ AskedInv => AsAsked
  BY AskedIsAsAsked DEF ProgramsInv
<1> QED
  BY <1>1, <1>2, <1>3, ProgramsInvariant, PTL DEF Spec

=============================================================================
