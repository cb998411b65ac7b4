------------------------------- MODULE Replay -------------------------------
(***************************************************************************)
(* The market replay (apps/market_replay, main.cpp): reads its command     *)
(* line, then runs the built-in demo, one scenario file, or all scenario   *)
(* files of a directory, each on an engine of its own, and writes the      *)
(* answer to every command.                                                *)
(*                                                                         *)
(* The answer of an engine depends on the commands it has run: a line of   *)
(* output is a command together with the commands its engine ran before    *)
(* it.  How the two writers print an answer is left out, and so is the     *)
(* runner between the program and the engine: every future is waited for.  *)
(***************************************************************************)
EXTENDS Scenario

CONSTANTS
    Inputs,     \* command lines, each with the contents of the files
    Directory,  \* the path of the directory that exists
    Rank        \* the order of the paths of its .txt files, by path

\* There is a directory, and every other path that exists is a file, whose
\* lines are sequences of tokens.  No two paths are equal.
ASSUME ReplayAssumption ==
    /\ \A input \in Inputs :
          /\ input.args \in Seq(STRING)
          /\ Directory \notin DOMAIN input.contents
          /\ \A path \in DOMAIN input.contents :
                input.contents[path] \in Seq(Seq(STRING))
    /\ IsFiniteSet(DOMAIN Rank)
    /\ \A path \in DOMAIN Rank : Rank[path] \in Nat
    /\ \A p, q \in DOMAIN Rank : Rank[p] = Rank[q] => p = q

VARIABLES
    args,         \* argv, without the name of the program
    contents,     \* the lines of each file
    index,        \* the next argument to look at
    options,      \* command_line_options
    stage,        \* "arguments", "files", "load", "execute", "exited"
    files,        \* scenario files to run; the first one is at work
    line_number,  \* the line read last
    steps,        \* the steps loaded so far, or still to be executed
    symbols,      \* symbol_table::ids
    next_id,      \* symbol_table::next_id
    engine,       \* the commands run by the engine of this file
    output,       \* what was written
    exit_status   \* what main returns, or -1

inputVars == <<args, contents>>
lineVars == <<line_number, symbols, next_id>>
vars == <<inputVars, index, options, stage, files, lineVars, steps, engine,
          output, exit_status>>

Init ==
    /\ \E input \in Inputs : args = input.args /\ contents = input.contents
    /\ index = 1
    /\ options = [format |-> "text", file |-> "", directory |-> ""]
    /\ stage = "arguments"
    /\ files = <<>> /\ line_number = 0 /\ steps = <<>>
    /\ symbols = <<>> /\ next_id = 1
    /\ engine = <<>> /\ output = <<>>
    /\ exit_status = -1

Exit(code) == stage' = "exited" /\ exit_status' = code

-----------------------------------------------------------------------------
(* parse_command_line, one action for each way round the loop.             *)

Argument == args[index]
HasValue == index + 1 <= Len(args)
SourceGiven == options.file # "" \/ options.directory # ""

FormatFits == Argument = "--format" /\ HasValue
              /\ args[index + 1] \in {"text", "jsonl"}

SourceFits == Argument \in {"--file", "--directory"} /\ HasValue
              /\ ~ SourceGiven

TakeFormat ==
    /\ stage = "arguments" /\ index <= Len(args)
    /\ FormatFits
    /\ options' = [options EXCEPT !.format = args[index + 1]]
    /\ index' = index + 2
    /\ UNCHANGED <<inputVars, stage, files, lineVars, steps, engine, output,
                   exit_status>>

TakeSource ==
    /\ stage = "arguments" /\ index <= Len(args)
    /\ SourceFits
    /\ options' = IF Argument = "--file"
                  THEN [options EXCEPT !.file = args[index + 1]]
                  ELSE [options EXCEPT !.directory = args[index + 1]]
    /\ index' = index + 2
    /\ UNCHANGED <<inputVars, stage, files, lineVars, steps, engine, output,
                   exit_status>>

RefuseArgument ==
    /\ stage = "arguments" /\ index <= Len(args)
    /\ ~ FormatFits /\ ~ SourceFits
    /\ Exit(1)
    /\ UNCHANGED <<inputVars, index, options, files, lineVars, steps, engine,
                   output>>

-----------------------------------------------------------------------------
(* run_replay                                                              *)

\* The steps of the built-in scenario; their arguments are fixed.
default_scenario ==
    LET kinds == <<"submit", "submit", "snapshot", "submit", "snapshot",
                   "update", "cancel", "snapshot">>
    IN  [n \in DOMAIN kinds |->
            [line |-> 0, command |-> [kind |-> kinds[n], step |-> n]]]

RunDemo ==
    /\ stage = "arguments" /\ index > Len(args)
    /\ ~ SourceGiven
    /\ steps' = default_scenario /\ engine' = <<>>
    /\ files' = <<"demo">>
    /\ stage' = "execute"
    /\ UNCHANGED <<inputVars, index, options, lineVars, output, exit_status>>

RunFile ==
    /\ stage = "arguments" /\ index > Len(args)
    /\ options.file # ""
    /\ files' = <<options.file>>
    /\ stage' = "files"
    /\ UNCHANGED <<inputVars, index, options, lineVars, steps, engine, output,
                   exit_status>>

\* scenario_files_in: the .txt files, sorted by path.  Exactly one sequence is.
scenario_files_in ==
    LET found == DOMAIN Rank \cap DOMAIN contents
    IN  {sorted \in [1 .. Cardinality(found) -> found] :
            /\ ToSet(sorted) = found
            /\ \A i, j \in DOMAIN sorted :
                  i < j => Rank[sorted[i]] < Rank[sorted[j]]}

RunDirectory ==
    /\ stage = "arguments" /\ index > Len(args)
    /\ options.directory # ""
    /\ IF options.directory = Directory
       THEN /\ files' \in scenario_files_in
            /\ stage' = "files" /\ UNCHANGED exit_status
       ELSE Exit(1) /\ UNCHANGED files
    /\ UNCHANGED <<inputVars, index, options, lineVars, steps, engine,
                   output>>

-----------------------------------------------------------------------------
(* run_scenario_file: load reads the whole file first.                     *)

\* A path that cannot be opened ends the program.  The directory can be opened
\* on some platforms, and then has no lines.
NextFile ==
    /\ stage = "files"
    /\ \/ files = <<>> /\ Exit(0)
       \/ /\ files # <<>> /\ Head(files) \notin DOMAIN contents
          /\ Exit(1)
       \/ /\ files # <<>> /\ Head(files) \in DOMAIN contents \cup {Directory}
          /\ stage' = "load" /\ UNCHANGED exit_status
    /\ line_number' = 0 /\ symbols' = <<>> /\ next_id' = 1
    /\ steps' = <<>>
    /\ UNCHANGED <<inputVars, index, options, files, engine, output>>

Lines == IF Head(files) = Directory THEN <<>> ELSE contents[Head(files)]
Line == Lines[line_number + 1]

\* Mutant: a line without a command is not counted.
SkipLineUncounted ==
    /\ stage = "load" /\ line_number < Len(Lines)
    /\ Line = <<>>
    /\ UNCHANGED vars

SkipLine ==
    /\ stage = "load" /\ line_number < Len(Lines)
    /\ Line = <<>>
    /\ line_number' = line_number + 1
    /\ UNCHANGED <<inputVars, index, options, stage, files, symbols, next_id,
                   steps, engine, output, exit_status>>

\* Does the line throw: is it malformed, or are the symbol ids used up?
Throws(line) ==
    parse_error(line) = NoError =>
        /\ HasInstrument(line)
        /\ intern_throws(symbols, next_id, TokenOf(line, "instrument"))

LoadLine ==
    /\ stage = "load" /\ line_number < Len(Lines)
    /\ Line # <<>> /\ ~ Throws(Line)
    /\ line_number' = line_number + 1
    /\ LET name == TokenOf(Line, "instrument")
           interned == intern(symbols, next_id, name)
       IN  IF HasInstrument(Line)
           THEN /\ steps' = Append(steps, [line |-> line_number',
                       command |-> make_command(Line, interned.id)])
                /\ symbols' = interned.ids
                /\ next_id' = interned.next_id
           ELSE /\ steps' = Append(steps, [line |-> line_number',
                       command |-> make_command(Line, NoSymbol)])
                /\ UNCHANGED <<symbols, next_id>>
    /\ UNCHANGED <<inputVars, index, options, stage, files, engine, output,
                   exit_status>>

RefuseLine ==
    /\ stage = "load" /\ line_number < Len(Lines)
    /\ Line # <<>> /\ Throws(Line)
    /\ Exit(1)
    /\ UNCHANGED <<inputVars, index, options, files, lineVars, steps, engine,
                   output>>

\* Mutant: the files share an engine.
StartRunnerOnce ==
    /\ stage = "load" /\ line_number = Len(Lines)
    /\ stage' = "execute"
    /\ UNCHANGED <<inputVars, index, options, files, lineVars, steps, engine,
                   output, exit_status>>

\* The file is loaded; a new runner starts.
StartRunner ==
    /\ stage = "load" /\ line_number = Len(Lines)
    /\ engine' = <<>>
    /\ stage' = "execute"
    /\ UNCHANGED <<inputVars, index, options, files, lineVars, steps, output,
                   exit_status>>

\* run_steps: the command runs and its answer is written.
ExecuteStep ==
    /\ stage = "execute" /\ steps # <<>>
    /\ output' = Append(output, [file |-> Head(files), step |-> Head(steps),
                                 before |-> engine])
    /\ engine' = Append(engine, Head(steps).command)
    /\ steps' = Tail(steps)
    /\ UNCHANGED <<inputVars, index, options, stage, files, lineVars,
                   exit_status>>

\* runner.stop()
StopRunner ==
    /\ stage = "execute" /\ steps = <<>>
    /\ files' = Tail(files)
    /\ stage' = "files"
    /\ UNCHANGED <<inputVars, index, options, lineVars, steps, engine, output,
                   exit_status>>

-----------------------------------------------------------------------------
Step ==
    \/ TakeFormat \/ TakeSource \/ RefuseArgument
    \/ RunDemo \/ RunFile \/ RunDirectory
    \/ NextFile \/ SkipLine \/ LoadLine \/ RefuseLine
    \/ StartRunner \/ ExecuteStep \/ StopRunner

Next == Step

Spec == Init /\ [][Next]_vars /\ WF_vars(Step)

-----------------------------------------------------------------------------
(* Properties.                                                             *)

\* The names of instruments in the first n lines of a file.
Named(lines, n) ==
    UNION {{lines[i][k] : k \in
               {k \in DOMAIN lines[i] :
                   \E sentence \in Grammar :
                      /\ Derives(sentence, lines[i])
                      /\ sentence[k] = "<instrument>"}} : i \in 1 .. n}

\* README.md: the parser "assigns IDs to names in first-seen order within each
\* scenario file".
FirstSeen(lines, name) ==
    CHOOSE id \in 1 .. Cardinality(Named(lines, Len(lines))) :
        \E n \in 1 .. Len(lines) :
            /\ Cardinality(Named(lines, n)) = id
            /\ name \in Named(lines, n) \ Named(lines, n - 1)

\* What README.md's format says a line means.
Means(command, lines, n) ==
    \E sentence \in Grammar :
        /\ Derives(sentence, lines[n])
        /\ command.kind = sentence[1]
        /\ \A k \in DOMAIN sentence :
              LET token == lines[n][k]
                  is(field) == command.arguments[field] = Value[token]
              IN  CASE sentence[k] = "<instrument>" ->
                          command.instrument = FirstSeen(lines, token)
                    [] sentence[k] = "<user>" -> is("user")
                    [] sentence[k] = "<client_order>" -> is("client_order")
                    [] sentence[k] = "<price>" -> is("limit_price")
                    [] sentence[k] = "<size>" -> is("size")
                    [] sentence[k] = "<depth>" -> is("depth")
                    [] sentence[k] = "<buy|sell>" ->
                          command.arguments["side"] = token
                    [] OTHER -> k = 1 \/ command.arguments["pricing"] = token

\* The parser reads exactly the format of README.md: the steps of a file are
\* its lines that are not blank, each with its line number and its meaning,
\* symbol ids in first-seen order included; and it refuses a file only for a
\* line that is no sentence, or for a name too many.
LoadFaithful ==
    /\ stage = "load" =>
          /\ {steps[k].line : k \in DOMAIN steps} =
                {n \in 1 .. line_number : Lines[n] # <<>>}
          /\ \A k \in DOMAIN steps :
                /\ Means(steps[k].command, Lines, steps[k].line)
                /\ \A j \in 1 .. k - 1 : steps[j].line < steps[k].line
    /\ stage = "load" /\ line_number < Len(Lines) /\ Line # <<>> =>
          (Throws(Line) <=>
              \/ ~ Sentence(Line)
              \/ Cardinality(Named(Lines, line_number + 1)) >= SymbolIdValues)

\* The engine that answered output[n] had run exactly the commands that were
\* written just before it for the same file, back to the first of the file.
OwnEngine(n) ==
    LET before == output[n].before
        first == n - Len(before)
    IN  /\ first >= 1
        /\ \A k \in DOMAIN before :
              LET earlier == output[first + k - 1]
              IN  earlier.file = output[n].file
                  /\ before[k] = earlier.step.command
        /\ first > 1 => output[first - 1].file # output[n].file

Entries(file) == {n \in DOMAIN output : output[n].file = file}
LinesWritten(file) == {output[n].step.line : n \in Entries(file)}
Commands(lines) == {n \in DOMAIN lines : lines[n] # <<>>}

\* The files that main is asked to run.
Asked ==
    IF ~ SourceGiven THEN {"demo"}
    ELSE IF options.file # "" THEN {options.file}
    ELSE DOMAIN Rank \cap DOMAIN contents

\* A file is replayed as a whole or not at all, on an engine that has seen no
\* other file, the files by path and the lines of each in order: a bad line
\* anywhere in a file, or in a file before it, keeps all of its commands from
\* running; status 0 means that all files were run.
WholeFilesOnly ==
    /\ \A n \in DOMAIN output : OwnEngine(n)
    /\ \A m, n \in DOMAIN output :
          m < n =>
             IF output[m].file = output[n].file
             THEN SourceGiven => output[m].step.line < output[n].step.line
             ELSE Rank[output[m].file] < Rank[output[n].file]
    /\ SourceGiven =>
          \A n \in DOMAIN output :
             LET lines == contents[output[n].file]
             IN  /\ \A i \in Commands(lines) : Sentence(lines[i])
                 /\ stage \in {"files", "exited"} =>
                       LinesWritten(output[n].file) = Commands(lines)
    /\ exit_status = 0 =>
          {output[n].file : n \in DOMAIN output} =
             IF SourceGiven
             THEN {file \in Asked \ {Directory} :
                      Commands(contents[file]) # {}}
             ELSE Asked

\* The replay always comes to an end.
ReplayEnds == stage # "exited" ~> stage = "exited"

=============================================================================
