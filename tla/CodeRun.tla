------------------------------- MODULE CodeRun -------------------------------
(***************************************************************************)
(* The code runtime (edge-code-runtime.ts): programs of run_code, each in  *)
(* an isolate of its own.  A program logs and calls tool bindings over the *)
(* bridge; the first of its completion, its failure, an output overflow,   *)
(* the turn's abort, the wall clock and the runtime's teardown settles it. *)
(* A text is its size in encoded bytes.                                    *)
(***************************************************************************)
EXTENDS Integers, FiniteSets, Sequences, SequencesExt

CONSTANTS
    Programs,
    MaxOutputBytes,
    MaxBindingCalls,
    LimitMessageBytes,  \* encoded size of the output-limit message
    MaxLogsInFlight,    \* logs the isolate keeps on their way to the host
    TextBytes,          \* sizes of log entries, values and failure messages
    ReservedNames,      \* names no binding may inject (malformed ones too)
    CodeRequests        \* [bindings, aborted, program], see RunRefusal

\* The configuration's minimum leaves room for the limit message.
ASSUME OutputLimits ==
    /\ MaxOutputBytes \in Nat /\ LimitMessageBytes \in Nat /\ MaxBindingCalls \in Nat \ {0}
    /\ MaxLogsInFlight \in Nat
    /\ LimitMessageBytes + 2 <= MaxOutputBytes
    /\ TextBytes \subseteq Nat \ {0}

VARIABLES
    program,       \* "idle", "live" or "over"
    answer,        \* [kind, logs, bytes]: kind of end, logs and size of value or message
    outcome,       \* what the program came to in its isolate, once it did
    logChain,      \* logs of the isolate that have not reached the host
    logged,        \* logs the isolate took, in order
    logs,          \* logs the host admitted
    ledger,        \* bytes admitted to the budget
    calls,         \* binding calls dispatched
    inFlight,      \* those not answered yet
    runtimeGone    \* the runtime is torn down

isolateVars == <<outcome, logChain, logged>>
codeVars == <<program, answer, isolateVars, logs, ledger, calls, inFlight, runtimeGone>>

NoOutcome == [kind |-> "none", bytes |-> 0]
NoAnswer == [kind |-> "none", logs |-> <<>>, bytes |-> 0]

CodeInit ==
    /\ program = [p \in Programs |-> "idle"]
    /\ answer = [p \in Programs |-> NoAnswer]
    /\ outcome = [p \in Programs |-> NoOutcome]
    /\ logChain = [p \in Programs |-> <<>>]
    /\ logged = [p \in Programs |-> <<>>]
    /\ logs = [p \in Programs |-> <<>>]
    /\ ledger = [p \in Programs |-> 2]
    /\ calls = [p \in Programs |-> 0]
    /\ inFlight = [p \in Programs |-> 0]
    /\ runtimeGone = FALSE

----------------------------------------
(* The output ledger.  Entries are separated by a comma and enclosed in    *)
(* brackets, the two bytes it starts with.                                 *)

EntryBytes(text, before) == text + (IF before = <<>> THEN 0 ELSE 1)
EncodedLogs(entries) ==
    LET upto[n \in 0..Len(entries)] ==
          IF n = 0 THEN 2 ELSE upto[n - 1] + entries[n] + (IF n = 1 THEN 0 ELSE 1)
    IN upto[Len(entries)]

admits(p, text) == ledger[p] + EntryBytes(text, logs[p]) <= MaxOutputBytes

\* The longest prefix that fits beside the message.
keptLogs(entries) ==
    LET fits == {n \in 0..Len(entries) :
                   n = 0 \/ EncodedLogs(SubSeq(entries, 1, n)) <= MaxOutputBytes - LimitMessageBytes}
    IN SubSeq(entries, 1, CHOOSE n \in fits : \A m \in fits : m <= n)
limit(entries) == [kind |-> "output-limit", logs |-> keptLogs(entries), bytes |-> LimitMessageBytes]

success(p, value) ==
    IF ledger[p] + value > MaxOutputBytes THEN limit(logs[p])
    ELSE [kind |-> "value", logs |-> logs[p], bytes |-> value]
failure(p, kind, message) ==
    IF ledger[p] + message > MaxOutputBytes THEN limit(logs[p])
    ELSE [kind |-> kind, logs |-> logs[p], bytes |-> message]

----------------------------------------
(* Requests: the binding namespaces, each with a global and possibly an     *)
(* error class, and the program as the host compiles it.                   *)

\* Every injected name is usable and injected once.
validateBindings(namespaces) ==
    LET classes == {i \in DOMAIN namespaces : namespaces[i].errorClass # "none"}
        used(S, field) == {namespaces[i][field] : i \in S}
    IN /\ used(DOMAIN namespaces, "global") \cap ReservedNames = {}
       /\ used(classes, "errorClass") \cap ReservedNames = {}
       /\ Cardinality(used(DOMAIN namespaces, "global") \cup used(classes, "errorClass"))
            = Len(namespaces) + Cardinality(classes)

\* The program is short enough, strips and parses, and is still one function.
buildProgramModule(source) == source \notin {"tooLong", "unparsable", "closesWrapper"}

\* Misuse of the seam rejects; an aborted signal and a program that does not
\* build end before an isolate is loaded.
RunRefusal(req) ==
    IF runtimeGone \/ ~validateBindings(req.bindings) THEN "reject"
    ELSE IF req.aborted THEN "abort"
    ELSE IF ~buildProgramModule(req.program) THEN "exception"
    ELSE "accepted"

run(p, req, message) ==
    /\ program[p] = "idle" /\ RunRefusal(req) # "reject"
    /\ IF RunRefusal(req) = "accepted"
       THEN /\ program' = [program EXCEPT ![p] = "live"]
            /\ UNCHANGED answer
       ELSE /\ program' = [program EXCEPT ![p] = "over"]
            /\ answer' = [answer EXCEPT ![p] = failure(p, RunRefusal(req), message)]
    /\ UNCHANGED <<isolateVars, logs, ledger, calls, inFlight, runtimeGone>>

----------------------------------------
(* The isolate: log calls join one chain that the outcome waits for, since  *)
(* the bridge calls themselves are not awaited by the program.             *)

Running(p) == program[p] = "live" /\ outcome[p] = NoOutcome

\* console.log and its likes; a flood is dropped.
Log(p, text) ==
    /\ Running(p) /\ Len(logChain[p]) < MaxLogsInFlight
    /\ logChain' = [logChain EXCEPT ![p] = Append(@, text)]
    /\ logged' = [logged EXCEPT ![p] = Append(@, text)]
    /\ UNCHANGED <<program, answer, outcome, logs, ledger, calls, inFlight, runtimeGone>>

\* The program returns a value, or nothing, or throws; a completion that is no
\* plain data or crosses the byte limit is a failure of its own.
runProgram(p, kind, size) ==
    /\ Running(p)
    /\ outcome' = [outcome EXCEPT ![p] = [kind |-> kind, bytes |-> size]]
    /\ UNCHANGED <<program, answer, logChain, logged, logs, ledger, calls, inFlight, runtimeGone>>

----------------------------------------
(* The host. *)

\* finish(): the first end counts; the isolate is disposed of, with what its
\* bridge still carried.
ProgramEnds(p, res) ==
    /\ program[p] = "live"
    /\ program' = [program EXCEPT ![p] = "over"]
    /\ answer' = [answer EXCEPT ![p] = res]
    /\ logChain' = [logChain EXCEPT ![p] = <<>>]
    /\ UNCHANGED <<outcome, logged, logs, ledger, calls, inFlight, runtimeGone>>

\* The outcome crosses the bridge behind the last log.
ChainDrained(p) == logChain[p] = <<>>
complete(p) ==
    /\ outcome[p] # NoOutcome /\ ChainDrained(p)
    /\ ProgramEnds(p, IF outcome[p].kind = "value" THEN success(p, outcome[p].bytes)
               ELSE IF outcome[p].kind = "nothing" THEN success(p, 0)
               ELSE failure(p, outcome[p].kind, outcome[p].bytes))

\* The isolate dies: its CPU budget, or another end of the worker.
EvaluationFails(p, kind, size) == kind \in {"timeout", "worker-exit"} /\ ProgramEnds(p, failure(p, kind, size))
WallClock(p, size) == ProgramEnds(p, failure(p, "timeout", size))
Abort(p, size) == ProgramEnds(p, failure(p, "abort", size))

bridgeLog(p) ==
    /\ program[p] = "live" /\ logChain[p] # <<>>
    /\ LET text == Head(logChain[p])
       IN IF admits(p, text)
          THEN /\ ledger' = [ledger EXCEPT ![p] = @ + EntryBytes(text, logs[p])]
               /\ logs' = [logs EXCEPT ![p] = Append(@, text)]
               /\ logChain' = [logChain EXCEPT ![p] = Tail(@)]
               /\ UNCHANGED <<program, answer, outcome, logged, calls, inFlight, runtimeGone>>
          ELSE ProgramEnds(p, limit(Append(logs[p], text)))

\* A binding call is counted before its tool is dispatched; the refusals
\* (a run that is over, the cap, arguments, an unknown binding) only reply.
dispatchCall(p) ==
    /\ program[p] = "live"
    /\ calls[p] < MaxBindingCalls
    /\ calls' = [calls EXCEPT ![p] = @ + 1]
    /\ inFlight' = [inFlight EXCEPT ![p] = @ + 1]
    /\ UNCHANGED <<program, answer, isolateVars, logs, ledger, runtimeGone>>
\* The tool answers, possibly after its run is over.
CallAnswered(p) ==
    /\ inFlight[p] > 0
    /\ inFlight' = [inFlight EXCEPT ![p] = @ - 1]
    /\ UNCHANGED <<program, answer, isolateVars, logs, ledger, calls, runtimeGone>>

teardown(size) ==
    /\ ~runtimeGone
    /\ runtimeGone' = TRUE
    /\ LET live == {p \in Programs : program[p] = "live"}
       IN /\ program' = [p \in Programs |-> IF p \in live THEN "over" ELSE program[p]]
          /\ answer' = [p \in Programs |->
                          IF p \in live THEN failure(p, "abort", size) ELSE answer[p]]
          /\ logChain' = [p \in Programs |-> IF p \in live THEN <<>> ELSE logChain[p]]
    /\ UNCHANGED <<outcome, logged, logs, ledger, calls, inFlight>>

CodeNext ==
    \/ \E size \in TextBytes : teardown(size)
    \/ \E p \in Programs :
         \/ dispatchCall(p) \/ CallAnswered(p) \/ bridgeLog(p) \/ complete(p)
         \/ \E size \in TextBytes :
              \/ \E req \in CodeRequests : run(p, req, size)
              \/ Log(p, size)
              \/ \E kind \in {"value", "nothing", "invalid-output", "output-limit", "exception"} :
                   runProgram(p, kind, size)
              \/ \E kind \in {"timeout", "worker-exit"} : EvaluationFails(p, kind, size)
              \/ WallClock(p, size) \/ Abort(p, size)

CodeSpec == CodeInit /\ [][CodeNext]_codeVars

----------------------------------------
CodeTypeOK ==
    /\ program \in [Programs -> {"idle", "live", "over"}]
    /\ \A p \in Programs :
         /\ answer[p].kind = "none" <=> program[p] # "over"
         /\ ledger[p] = EncodedLogs(logs[p])
         /\ inFlight[p] \in 0..calls[p]
    /\ runtimeGone => \A p \in Programs : program[p] # "live"

\* The logs and the value or message of every result fit the output budget,
\* whichever entry crossed it and whatever ended the run; a run that ended by
\* itself reports all it logged, in order; and no more tools ever run for a
\* program than its call cap.
OutputExact ==
    \A p \in Programs :
       /\ program[p] = "over" => EncodedLogs(answer[p].logs) + answer[p].bytes <= MaxOutputBytes
       /\ answer[p].kind \in {"value", "exception", "invalid-output"} => answer[p].logs = logged[p]
       /\ inFlight[p] <= MaxBindingCalls
==============================================================================
