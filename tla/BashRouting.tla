----------------------------- MODULE BashRouting -----------------------------
(***************************************************************************)
(* The static classifier of bash commands (bash-routing.ts): which         *)
(* programs a command would start, following wrappers, nested shells, find *)
(* actions and substitutions, and whether the light shell has them all.    *)
(* The command under test grows by the grammar of the shell, together with *)
(* what it really starts; the classifier only sees its tokens.  A token is *)
(* a word or an operator; a word knows whether an expansion made it, the   *)
(* substitutions inside it, and the source it would be as a script.        *)
(***************************************************************************)
EXTENDS Naturals, FiniteSets, Sequences, SequencesExt, FiniteSetsExt

CONSTANTS LightCommands, Programs, MaxNesting, MaxGrowth

VARIABLES
  source,   \* the command's tokens
  starts,   \* the programs it starts; "home": it depends on $HOME; "unknown": anything
  shape,    \* "words": one simple command; "script": anything else
  blind,    \* it uses what the tokenizer does not model
  nested, grown
sourceVars == <<source, starts, shape, blind, nested, grown>>

Token(kind, text, dynamic, subs, script) ==
  [kind |-> kind, text |-> text, dynamic |-> dynamic, subs |-> subs, script |-> script]
Word(text) == Token("word", text, FALSE, <<>>, <<>>)
Op(text) == Token("op", text, FALSE, <<>>, <<>>)
Expanded == Token("word", "$x", TRUE, <<>>, <<>>)
Words(texts) == [i \in DOMAIN texts |-> Word(texts[i])]

----------------------------------------
(* The classifier.  Unreadable is the code's undefined. *)

Unreadable == [ok |-> FALSE, words |-> {}]
Reads(words) == [ok |-> TRUE, words |-> words]
Along(words, more) == IF more.ok THEN Reads(words \cup more.words) ELSE Unreadable

isRedirection(op) == op \in {">", "<", ">>", "2>", "<<"}
Redirects(t) == t.kind = "op" /\ isRedirection(t.text)
Assignments == {"A=1"}
PrefixKeywords == {"if", "then", "else", "do", "while", "!", "{"}
CommandPrefixWords == PrefixKeywords \cup {"time", "command"}
PathDirectories == {"/bin"}
Closings == {"fi", "done", "}"}
OpaqueWords == {"eval", "case"}
Wrappers == {"env", "timeout", "time", "xargs", "nice", "command"}

\* What each wrapper's options span, 0 when unknown.
Flags == [env |-> {"-i"}, timeout |-> {"-v"}, time |-> {"-p"}, xargs |-> {"-t"}, nice |-> {}, command |-> {"-p"}]
Valued == [env |-> {"-u"}, timeout |-> {"-s"}, time |-> {"-f"}, xargs |-> {"-n", "-I"}, nice |-> {"-n"}, command |-> {}]
everyOptionIsAFlag(wrapper, o) == IF o \in Flags[wrapper] \cup Valued[wrapper] THEN 1 ELSE 0
                                                    \* mutant: a value is read as the command
optionSpan(wrapper, o) ==
  IF o \in Flags[wrapper] THEN 1 ELSE IF o \in Valued[wrapper] THEN 2 ELSE 0
IsOption(text) == text \in {"-i", "-v", "-p", "-t", "-u", "-s", "-f", "-n", "-I", "-e", "-c", "--pre", "-exec", "-P"}

\* The words after the command, to the next operator, redirections left out.
RECURSIVE argumentsOf(_, _)
argumentsOf(tokens, i) ==
  IF i > Len(tokens) THEN <<>>
  ELSE IF Redirects(tokens[i]) THEN argumentsOf(tokens, i + 2)
  ELSE IF tokens[i].kind = "op" THEN <<>>
  ELSE <<tokens[i]>> \o argumentsOf(tokens, i + 1)

\* `rg --pre` runs a program the light shell silently ignores.
startsProgramsItself(program, args) ==
  program = "rg" /\ \E i \in DOMAIN args : args[i].dynamic \/ args[i].text = "--pre"

RECURSIVE commandPosition(_, _)
commandPosition(tokens, i) ==
  IF i = 1 THEN TRUE
  ELSE IF tokens[i - 1].kind = "op" THEN ~Redirects(tokens[i - 1])
  ELSE IF tokens[i - 1].text \in Assignments THEN commandPosition(tokens, i - 1)
  ELSE IF tokens[i - 1].text = "-p" /\ i > 2 /\ tokens[i - 2].text = "time" THEN commandPosition(tokens, i - 1)
  ELSE IF i > 2 /\ Redirects(tokens[i - 2]) THEN commandPosition(tokens, i - 2)
  ELSE tokens[i - 1].text \in CommandPrefixWords
usesHome(tokens) ==
  \E i \in DOMAIN tokens :
    \/ tokens[i].text = "~"
    \/ /\ tokens[i].text = "cd" /\ commandPosition(tokens, i)
       /\ LET next == IF i < Len(tokens) /\ tokens[i + 1].text = "-P" THEN i + 2 ELSE i + 1
          IN IF next > Len(tokens) THEN TRUE ELSE tokens[next].kind = "op"
namesPathDirectory(token) == token.text \in PathDirectories

\* An option's string, `bash -c`, read only before the first operand.
RECURSIVE inlineScript(_)
inlineScript(args) ==
  IF args = <<>> \/ Head(args).dynamic THEN [found |-> FALSE, source |-> <<>>]
  ELSE IF Head(args).text = "-e" THEN inlineScript(Tail(args))
  ELSE IF Head(args).text = "-c" /\ Len(args) > 1 /\ ~args[2].dynamic
       THEN [found |-> TRUE, source |-> args[2].script]
  ELSE [found |-> FALSE, source |-> <<>>]

\* xargs puts its input in place of the replacement word, or after the arguments.
withStdinArguments(options, tail) ==
  LET replaced == {options[k + 1].text : k \in {j \in 1 .. Len(options) - 1 : options[j].text = "-I"}}
  IN Append([k \in DOMAIN tail |-> [tail[k] EXCEPT !.dynamic = @ \/ (k > 1 /\ tail[k].text \in replaced)]],
            [Expanded EXCEPT !.text = ""])
splitString(args) == \E i \in DOMAIN args : args[i].text = "-S"

OnLightShell(words) == words \subseteq LightCommands

RECURSIVE holdsSubstitution(_), commandWords(_, _), wordsOf(_, _, _, _), wrappedWords(_, _, _, _), findActionWords(_, _, _)

runsInLightShell(tokens, depth) ==
  LET read == commandWords(tokens, depth) IN read.ok /\ OnLightShell(read.words)

substitutionsAreLight(subs, depth) == \A k \in DOMAIN subs : runsInLightShell(subs[k], depth + 1)

holdsSubstitution(script) ==
  \E i \in DOMAIN script : script[i].subs # <<>> \/ holdsSubstitution(script[i].script)

\* Every substitution, a heredoc's too, is checked where it stands, and its word
\* is dynamic; a quoted one is code kept for later, which cannot be read.
tokenize(tokens, depth) ==
  [ok |-> \A i \in DOMAIN tokens :
            /\ ~holdsSubstitution(tokens[i].script)
            /\ substitutionsAreLight(tokens[i].subs, depth),
   tokens |-> [i \in DOMAIN tokens |-> [tokens[i] EXCEPT !.dynamic = @ \/ tokens[i].subs # <<>>]]]

commandWords(tokens, depth) ==
  IF depth > MaxNesting THEN Unreadable
  ELSE LET read == tokenize(tokens, depth) IN
       IF ~read.ok THEN Unreadable
       ELSE IF usesHome(read.tokens) \/ (\E i \in DOMAIN tokens : namesPathDirectory(tokens[i])) THEN Unreadable
       ELSE wordsOf(read.tokens, 1, "command", depth)

\* What the word in command position at i starts, with what follows it.
invokedWords(tokens, i, depth) ==
  LET word == tokens[i].text
      args == argumentsOf(tokens, i + 1)
      inner == CASE word = "bash" ->
                      LET script == inlineScript(args) IN
                      IF script.found THEN commandWords(script.source, depth + 1) ELSE Unreadable
                 [] word = "find" -> findActionWords(args, 1, depth)
                 [] word \in Wrappers -> wrappedWords(word, args, 1, depth)
                 [] OTHER -> IF startsProgramsItself(word, args) THEN Unreadable ELSE Reads({})
  IN Along({word}, inner)

wordsOf(tokens, i, position, depth) ==
  IF depth > MaxNesting THEN Unreadable
  ELSE IF i > Len(tokens) THEN Reads({})
  ELSE IF tokens[i].kind = "op" THEN
    IF tokens[i].text = "()" THEN Unreadable
    ELSE IF Redirects(tokens[i]) THEN wordsOf(tokens, i + 2, position, depth)
    ELSE wordsOf(tokens, i + 1, "command", depth)
  ELSE IF position = "for" THEN wordsOf(tokens, i + 1, IF tokens[i].text = "do" THEN "command" ELSE "for", depth)
  ELSE IF position = "args" THEN wordsOf(tokens, i + 1, "args", depth)
  ELSE IF tokens[i].dynamic \/ tokens[i].text \in OpaqueWords THEN Unreadable
  ELSE IF tokens[i].text = "for" THEN wordsOf(tokens, i + 1, "for", depth)
  ELSE IF tokens[i].text \in Assignments \cup PrefixKeywords \cup Closings THEN wordsOf(tokens, i + 1, "command", depth)
  ELSE LET invoked == invokedWords(tokens, i, depth) IN
       IF invoked.ok THEN Along(invoked.words, wordsOf(tokens, i + 1, "args", depth)) ELSE Unreadable

wrappedWords(wrapper, args, i, depth) ==
  LET arg == args[i]
      Rest(k) == SubSeq(args, k, Len(args))
      Started(k) == IF k > Len(args) THEN Reads(IF wrapper = "xargs" THEN {"echo"} ELSE {})
                 ELSE wordsOf(IF wrapper = "xargs" THEN withStdinArguments(SubSeq(args, 1, k - 1), Rest(k)) ELSE Rest(k),
                              1, "command", depth + 1)
  IN IF wrapper = "command" /\ \E k \in DOMAIN args : args[k].text = "-v" THEN Reads({})
     ELSE IF wrapper = "env" /\ splitString(args) THEN Unreadable
     ELSE IF i > Len(args) THEN Started(i)
     ELSE IF arg.dynamic THEN Unreadable
     ELSE IF arg.text = "--" THEN Started(i + 1)
     ELSE IF IsOption(arg.text) THEN
       IF optionSpan(wrapper, arg.text) = 0 THEN Unreadable
       ELSE wrappedWords(wrapper, args, i + optionSpan(wrapper, arg.text), depth)
     ELSE IF wrapper = "env" /\ arg.text \in Assignments THEN wrappedWords(wrapper, args, i + 1, depth)
     ELSE Started(IF wrapper = "timeout" THEN i + 1 ELSE i)

findActionWords(args, i, depth) ==
  IF i > Len(args) THEN Reads({})
  ELSE IF args[i].text # "-exec" THEN findActionWords(args, i + 1, depth)
  ELSE LET ends == {k \in i + 1 .. Len(args) : args[k].text = ";"} IN
       IF ends = {} THEN Unreadable
       ELSE LET inner == wordsOf(SubSeq(args, i + 1, Min(ends) - 1), 1, "command", depth + 1) IN
            IF ~inner.ok \/ inner.words = {} THEN Unreadable
            ELSE Along(inner.words, findActionWords(args, Min(ends) + 1, depth))

----------------------------------------
(* The command under test: a simple command, then one construct at a time. *)

\* [tokens, starts, blind] of the simple commands.
Simple ==
  {[tokens |-> <<Word(p)>> \o args, starts |-> {p}, blind |-> FALSE] :
      p \in Programs, args \in {<<>>, <<Word("node")>>}}
  \cup {[tokens |-> <<Word("cd")>>, starts |-> {"home"}, blind |-> FALSE],
        [tokens |-> Words(<<"cd", "-P">>), starts |-> {"home"}, blind |-> FALSE],
        [tokens |-> Words(<<"cd", "node">>), starts |-> {"cd"}, blind |-> FALSE],
        [tokens |-> Words(<<"ls", "~">>), starts |-> {"ls", "home"}, blind |-> FALSE],
        [tokens |-> Words(<<"ls", "/bin">>), starts |-> {"ls", "path"}, blind |-> FALSE],
        [tokens |-> Words(<<"rg", "--pre", "node">>), starts |-> {"rg", "node"}, blind |-> TRUE],
        [tokens |-> <<Word("rg"), Expanded>>, starts |-> {"rg", "unknown"}, blind |-> TRUE],
        [tokens |-> <<Expanded>>, starts |-> {"unknown"}, blind |-> TRUE],
        [tokens |-> Words(<<"eval", "ls">>), starts |-> {"ls"}, blind |-> TRUE]}

SourceInit ==
  \E s \in Simple :
    /\ source = s.tokens /\ starts = s.starts /\ blind = s.blind
    /\ shape = "words" /\ nested = 0 /\ grown = 0

Grows(tokens, more, form, deeper, opaque) ==
  /\ grown < MaxGrowth /\ grown' = grown + 1
  /\ source' = tokens /\ starts' = starts \cup more /\ shape' = form
  /\ nested' = nested + deeper /\ blind' = (blind \/ opaque)

Follow(op) == \E s \in Simple :
  Grows(source \o <<Op(op)>> \o s.tokens, s.starts, "script", 0, s.blind)
Redirect == Grows(source \o <<Op(">"), Word("node")>>, {}, shape, 0, FALSE)
RedirectFirst == shape = "words" /\ Grows(<<Op("2>"), Word("node")>> \o source, {}, "script", 0, FALSE)
Assign == shape = "words" /\ Grows(<<Word("A=1")>> \o source, {}, "script", 0, FALSE)
Heredoc == \E s \in Simple, quoted \in BOOLEAN :
  Grows(source \o <<Op("<<"), Token("word", "END", FALSE, IF quoted THEN <<>> ELSE <<s.tokens>>, <<>>)>>,
        IF quoted THEN {} ELSE s.starts, "script", IF quoted THEN 0 ELSE 1, s.blind)
\* A program in a wrapper is looked up on PATH: only `time` keeps a bare cd the shell's.
WrapperForms ==
  {<<"env", <<>>>>, <<"env", <<"-u", "node">>>>, <<"env", <<"-i", "A=1">>>>, <<"timeout", <<"5">>>>,
   <<"timeout", <<"-s", "KILL", "5">>>>, <<"time", <<>>>>, <<"time", <<"-p">>>>, <<"time", <<"-f", "ls">>>>,
   <<"xargs", <<>>>>, <<"xargs", <<"-n", "1">>>>, <<"xargs", <<"--">>>>, <<"xargs", <<"-I", "node">>>>, <<"nice", <<"-n", "5">>>>}
Wrap == \E w \in WrapperForms :
  LET fed == w[1] = "xargs" /\ Contains(source, Word("rg")) /\ ~Contains(source, Word(";"))
      replaced == w[2] = <<"-I", "node">> /\ Contains(source, Word("node"))
  IN /\ shape = "words" /\ (Contains(source, Word("cd")) => w \in {<<"time", <<>>>>, <<"time", <<"-p">>>>})
     /\ Grows(<<Word(w[1])>> \o Words(w[2]) \o source, {w[1]} \cup (IF fed THEN {"unknown"} ELSE {}),
              "words", 1, w[1] = "nice" \/ fed \/ replaced)
LookUp == Grows(Words(<<"command", "-v">>) \o source, {"command"}, shape, 1, TRUE) /\ shape = "words"
InShell == \E flags \in {<<"-c">>, <<"-e", "-c">>} :
  Grows(<<Word("bash")>> \o Words(flags) \o <<Token("word", "script", FALSE, <<>>, source)>>,
        {"bash"}, "words", 1, holdsSubstitution(source))
SplitString == Grows(Words(<<"env", "-S">>) \o <<Token("word", "script", FALSE, <<>>, source)>>,
                     {"env"}, "words", 1, TRUE) /\ shape = "words"
ScriptFile == Grows(Words(<<"bash", "file">>), {"bash", "unknown"}, "words", 1, TRUE)
Substitute == Grows(<<Word("echo"), Token("word", "$()", FALSE, <<source>>, <<>>)>>, {"echo"}, "words", 1, FALSE)
FindExec == /\ shape = "words" /\ ~Contains(source, Word("cd")) /\ ~Contains(source, Word(";"))
            /\ Grows(Words(<<"find", "node", "-exec">>) \o source \o <<Word(";")>>, {"find"}, "words", 1, FALSE)
Loop == Grows(Words(<<"for", "x", "in", "node">>) \o <<Op(";"), Word("do")>> \o source \o <<Op(";"), Word("done")>>,
              {}, "script", 0, FALSE)
Condition == Grows(<<Word("if")>> \o source \o <<Op(";")>> \o Words(<<"then", "ls">>) \o <<Op(";"), Word("fi")>>,
                   {"ls"}, "script", 0, FALSE)
Define == Grows(<<Word("ls"), Op("()"), Word("{")>> \o source \o <<Op(";"), Word("}"), Op(";"), Word("ls")>>,
                {}, "script", 0, TRUE)

SourceNext ==
  \/ \E op \in {"|", ";", "&&"} : Follow(op)
  \/ Redirect \/ RedirectFirst \/ Heredoc \/ Assign
  \/ Wrap \/ LookUp \/ InShell \/ SplitString \/ ScriptFile \/ Substitute
  \/ FindExec \/ Loop \/ Condition \/ Define

----------------------------------------
\* A command sent to the light shell starts only programs the light shell has,
\* through any nesting of constructs ("Whether every program a command would
\* start is one the lightweight shell provides").
LightIsSound == runsInLightShell(source, 0) => starts \subseteq LightCommands

\* A command of light programs only is not sent to the container, as long as
\* it stays within the nesting limit and what the tokenizer models.
LightIsComplete ==
  starts \subseteq LightCommands /\ ~blind /\ nested <= MaxNesting => runsInLightShell(source, 0)

\* The classifier is exact on the commands it models: it errs on neither side.
LightIsExact == LightIsSound /\ LightIsComplete
=============================================================================
