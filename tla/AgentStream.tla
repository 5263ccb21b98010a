----------------------------- MODULE AgentStream -----------------------------
(***************************************************************************)
(* One invocation of an agent: the process, the pipe its output comes      *)
(* through, and the handler that turns the lines of the stream into the    *)
(* progress of the specs that the agent writes.                            *)
(*                                                                         *)
(* The agent is external: it writes any stream that is legal for it.  A    *)
(* line is what the handler finds in its JSON.  A tool is its number in    *)
(* the stream, and its aim the file it writes: a spec, a task of a spec,   *)
(* or something that is neither.  What a line of text says about a spec is *)
(* one of the marks.  The colours, the bar, the spinner and the log lines  *)
(* of a terminal are left out.                                             *)
(***************************************************************************)
EXTENDS Naturals, Sequences

CONSTANTS
  Specs,     \* spec files
  Listed,    \* those listed when the phase starts
  PipeCap,   \* lines the pipe holds
  MaxLines,  \* bound: lines of the stream
  MaxTools   \* bound: tools of the stream

StreamAssumption == Listed \subseteq Specs /\ {PipeCap, MaxLines, MaxTools} \subseteq Nat

VARIABLES
  streaming, \* whether the provider reads the output as a stream of JSON
  agent,     \* the process: "running", "mute" after an error, "ok", "failed"
  aim,       \* tool -> what it writes
  open,      \* the tool whose block is open, 0 for none
  told,      \* what that block told of its aim: "never", "empty", "start", "input"
  uttered,   \* what the unfinished line of text says
  said,      \* history: spec -> what the stream said of it last
  garbled,   \* history: tools whose input came in pieces after some in the start
  lines,     \* lines written so far
  pipe,      \* lines written and not read; beyond PipeCap the write blocks
  long,      \* history: whether the stream had a line too long
  cancelled, \* the context of the invocation
  invoke,    \* "stream", "wait", "returned"
  result,    \* what Invoke returned
  current,   \* currentToolID, 0 for none
  input,     \* currentToolInput
  toolMeta,  \* tool -> path or specPath
  textBuf,   \* what the text that is not processed yet says
  status,    \* spec -> status of its item, "absent" without one
  printed    \* plainPrinted

agentVars == <<agent, aim, open, told, uttered, said, garbled, lines, long>>
toolVars == <<current, input, toolMeta>>
shownVars == <<status, printed>>
handlerVars == <<toolVars, textBuf, shownVars>>
invokeVars == <<streaming, cancelled, invoke, result>>
vars == <<agentVars, pipe, invokeVars, handlerVars>>

(* What an input reads as that is not there, that is {}, and that is no    *)
(* JSON: no path is found in any of them.                                  *)
Unknown == [kind |-> "unknown"]
Empty == [kind |-> "empty"]
Garbage == [kind |-> "garbage"]
NoPath == {Unknown, Empty, Garbage}

Other == [kind |-> "other"]
Aims == {Other} \union [kind : {"spec", "task"}, spec : Specs]
Silence == [specs |-> {}, marks |-> {}]
Final == {"done", "warning", "error"}

Init ==
  /\ streaming \in BOOLEAN
  /\ agent = "running" /\ aim = <<>> /\ open = 0 /\ told = "never"
  /\ uttered = Silence /\ said = [s \in Specs |-> "nothing"] /\ garbled = {} /\ lines = 0 /\ long = FALSE
  /\ pipe = <<>> /\ cancelled = FALSE /\ invoke = "stream" /\ result = "none"
  /\ current = 0 /\ input = Unknown /\ toolMeta = [x \in 1..MaxTools |-> Unknown]
  /\ textBuf = Silence
  /\ status = [s \in Specs |-> IF s \in Listed THEN "pending" ELSE "absent"]
  /\ printed = [s \in Specs |-> "absent"]

(* statusFromLine: an error outweighs a warning, a warning outweighs ok.   *)
Verdict(marks) ==
  IF "error" \in marks THEN "error" ELSE IF "warning" \in marks THEN "warning" ELSE "done"

-----------------------------------------------------------------------------
(* The agent, and what its stream says of the specs.                       *)

Blocked == Len(pipe) > PipeCap

Writes(line) ==
  /\ agent = "running" /\ ~Blocked /\ lines < MaxLines
  /\ lines' = lines + 1
  /\ pipe' = Append(pipe, line)
  /\ UNCHANGED <<invokeVars, handlerVars>>

(* A spec is written anew; a task is written, which counts for the spec    *)
(* if that is listed or has been written or spoken of.                     *)
Begun(a) ==
  [s \in Specs |->
     IF \/ a = [kind |-> "spec", spec |-> s]
        \/ a = [kind |-> "task", spec |-> s] /\ (s \in Listed \/ said[s] # "nothing")
     THEN "writing" ELSE said[s]]

Ended(a, verdict) ==
  [s \in Specs |-> IF a = [kind |-> "spec", spec |-> s] THEN verdict ELSE said[s]]

(* content_block_start, with nothing for an input, with {} or with all of  *)
(* it; input_json_delta, which may come whatever the start held;           *)
(* content_block_stop, by which the call has been made.                    *)
OpenBlock(a, given) ==
  /\ open = 0 /\ Len(aim) < MaxTools
  /\ aim' = Append(aim, a) /\ open' = Len(aim')
  /\ told' = IF given = Unknown THEN "never" ELSE IF given = Empty THEN "empty" ELSE "start"
  /\ said' = Begun(given)
  /\ Writes([type |-> "start", id |-> open', input |-> given])
  /\ UNCHANGED <<agent, uttered, garbled, long>>

TellInput ==
  /\ open # 0 /\ told # "input"
  /\ told' = "input"
  /\ garbled' = IF told = "never" THEN garbled ELSE garbled \union {open}
  /\ Writes([type |-> "input", input |-> aim[open]])
  /\ UNCHANGED <<agent, aim, open, uttered, said, long>>

CloseBlock ==
  /\ open # 0 /\ told \in {"start", "input"}
  /\ open' = 0 /\ told' = "never"
  /\ said' = IF aim[open].kind = "task" THEN Begun(aim[open]) ELSE Ended(aim[open], "done")
  /\ Writes([type |-> "stop"])
  /\ UNCHANGED <<agent, aim, uttered, garbled, long>>

(* A tool_use event holds the whole call.                                  *)
UseTool(a) ==
  /\ open = 0 /\ Len(aim) < MaxTools
  /\ aim' = Append(aim, a)
  /\ said' = Begun(a)
  /\ Writes([type |-> "tool_use", id |-> Len(aim'), input |-> a])
  /\ UNCHANGED <<agent, open, told, uttered, garbled, long>>

(* The results of parallel calls come in any order.                        *)
ToolResult(x, ok) ==
  /\ x \in 1..Len(aim) /\ x # open
  /\ said' = Ended(aim[x], IF ok THEN "done" ELSE "error")
  /\ Writes([type |-> "tool_result", id |-> x, ok |-> ok])
  /\ UNCHANGED <<agent, aim, open, told, uttered, garbled, long>>

(* An error ends the stream.  The handler knows of the open block only if  *)
(* its start came with the input.                                          *)
Error ==
  /\ Writes([type |-> "error"])
  /\ agent' = "mute"
  /\ said' = IF told = "start" THEN Ended(aim[open], "error") ELSE said
  /\ UNCHANGED <<aim, open, told, uttered, garbled, long>>

(* Text comes in pieces, which need not end where its lines end.           *)
Heard(line) ==
  [s \in Specs |-> IF s \in line.specs /\ line.marks # {} THEN Verdict(line.marks) ELSE said[s]]

Say(specs, marks, newline) ==
  LET line == [specs |-> uttered.specs \union specs, marks |-> uttered.marks \union marks] IN
  /\ open = 0
  /\ Writes([type |-> "text", specs |-> specs, marks |-> marks, newline |-> newline])
  /\ uttered' = IF newline THEN Silence ELSE line
  /\ said' = IF newline THEN Heard(line) ELSE said
  /\ UNCHANGED <<agent, aim, open, told, garbled, long>>

(* A line that is not JSON; a line longer than the scanner's buffer.       *)
Babble(type) ==
  /\ Writes([type |-> type])
  /\ long' = (long \/ type = "long")
  /\ UNCHANGED <<agent, aim, open, told, uttered, said, garbled>>

(* The process exits, or the context kills it.                             *)
AgentExit(how) ==
  /\ agent \in {"running", "mute"}
  /\ ~Blocked \/ (cancelled /\ how = "failed")
  /\ agent' = how
  /\ said' = Heard(uttered) /\ uttered' = Silence
  /\ UNCHANGED <<aim, open, told, garbled, lines, long, pipe, invokeVars, handlerVars>>

Cancel ==
  /\ invoke # "returned" /\ ~cancelled
  /\ cancelled' = TRUE
  /\ UNCHANGED <<agentVars, pipe, streaming, invoke, result, handlerVars>>

-----------------------------------------------------------------------------
(* The handler.                                                            *)

(* emitPlainUpdates prints every item that has come to an end; it is       *)
(* called when an item changed.                                            *)
EmitPlainUpdates ==
  printed' = [s \in Specs |-> IF status' # status /\ status'[s] \in Final THEN status'[s]
                              ELSE printed[s]]

(* UpdateItem, which adds an item that is not there.                       *)
UpdateItems(ss, st) ==
  /\ status' = [s \in Specs |-> IF s \in ss THEN st ELSE status[s]]
  /\ EmitPlainUpdates

(* FindSpecPath.                                                           *)
FindSpec(a) == {s \in Specs : status[s] # "absent" /\ a = [kind |-> "task", spec |-> s]}

(* The specs whose item a write of a sets to working.                      *)
WorkedOn(a) == FindSpec(a) \union {s \in Specs : a = [kind |-> "spec", spec |-> s]}

(* handleToolStart.  The task that a line shows beside its spec is left    *)
(* out.                                                                    *)
HandleToolStart(x, a) ==
  /\ toolMeta' = [toolMeta EXCEPT ![x] = IF a \in NoPath THEN @
                                         ELSE IF a.kind = "task" /\ FindSpec(a) = {} THEN Other
                                         ELSE a]
  /\ UpdateItems(WorkedOn(a), "working")

(* completeTool, with the tool's path as it is after this step.            *)
CompleteTool(a, success) ==
  UpdateItems({s \in Specs : a = [kind |-> "spec", spec |-> s]}, IF success THEN "done" ELSE "error")

HandleBlockStart(line) ==
  /\ current' = line.id /\ input' = line.input
  /\ HandleToolStart(line.id, line.input)
  /\ UNCHANGED textBuf

\* Mutant of HandleBlockStop: the input that came in pieces is not looked at.
HandleBlockStopUnparsed ==
  /\ CompleteTool(toolMeta[current], TRUE)
  /\ current' = 0 /\ input' = Unknown
  /\ UNCHANGED <<toolMeta, textBuf>>

(* content_block_stop: with the input the tool is started once more, then  *)
(* it counts as complete, at the path that is known of it.                 *)
HandleBlockStop ==
  LET known == IF input \in NoPath THEN toolMeta[current] ELSE input IN
  /\ IF input.kind = "task"
     THEN HandleToolStart(current, input)
     ELSE /\ toolMeta' = [toolMeta EXCEPT ![current] = known]
          /\ CompleteTool(known, TRUE)
  /\ current' = 0 /\ input' = Unknown
  /\ UNCHANGED textBuf

(* The pieces, which are one here, are appended to what the start held;    *)
(* the two together are no JSON.                                           *)
HandleDelta(line) ==
  /\ input' = IF input = Unknown THEN line.input ELSE Garbage
  /\ UNCHANGED <<current, toolMeta, textBuf, shownVars>>

HandleToolUse(line) ==
  /\ HandleToolStart(line.id, line.input)
  /\ UNCHANGED <<current, input, textBuf>>

HandleToolResult(line) ==
  /\ CompleteTool(toolMeta[line.id], line.ok)
  /\ UNCHANGED <<toolVars, textBuf>>

HandleError ==
  /\ CompleteTool(IF current = 0 THEN Other ELSE toolMeta[current], FALSE)
  /\ UNCHANGED <<toolVars, textBuf>>

(* processTextLine: a line with a mark judges every spec it names.         *)
ProcessTextLine(line) ==
  UpdateItems(IF line.marks = {} THEN {} ELSE line.specs, Verdict(line.marks))

HandleText(line) ==
  LET text == [specs |-> textBuf.specs \union line.specs, marks |-> textBuf.marks \union line.marks] IN
  /\ IF line.newline
     THEN ProcessTextLine(text) /\ textBuf' = Silence
     ELSE textBuf' = text /\ UNCHANGED shownVars
  /\ UNCHANGED toolVars

HandleEvent(line) ==
  CASE line.type = "start"       -> HandleBlockStart(line)
    [] line.type = "input"       -> HandleDelta(line)
    [] line.type = "stop"        -> HandleBlockStop
    [] line.type = "tool_use"    -> HandleToolUse(line)
    [] line.type = "tool_result" -> HandleToolResult(line)
    [] line.type = "error"       -> HandleError
    [] line.type = "text"        -> HandleText(line)
    [] line.type \in {"junk", "long"} -> UNCHANGED handlerVars

(* The rest of the text is a line; MarkAllDone takes what is not judged    *)
(* for done, whether or not the agent ended well.                          *)
Finish ==
  LET judged == IF textBuf.marks = {} THEN {} ELSE textBuf.specs IN
  /\ status' = [s \in Specs |-> IF s \in judged THEN Verdict(textBuf.marks)
                                ELSE IF status[s] \in {"pending", "working"} THEN "done"
                                ELSE status[s]]
  /\ EmitPlainUpdates
  /\ textBuf' = Silence
  /\ UNCHANGED toolVars

-----------------------------------------------------------------------------
(* ProcessStream and Invoke.                                               *)

\* Mutant of ScanLine: a line that is not JSON ends the scan.
ScanLineOrGiveUp ==
  /\ invoke = "stream" /\ pipe # <<>>
  /\ pipe' = Tail(pipe)
  /\ IF streaming /\ Head(pipe).type \in {"junk", "long"}
     THEN Finish /\ invoke' = "wait"
     ELSE /\ IF streaming THEN HandleEvent(Head(pipe)) ELSE UNCHANGED handlerVars
          /\ UNCHANGED invoke
  /\ UNCHANGED <<agentVars, streaming, cancelled, result>>

(* A line, or for a provider that does not stream some output.  A line     *)
(* that is too long ends the scan, and nobody reads the rest.              *)
ScanLine ==
  /\ invoke = "stream" /\ pipe # <<>>
  /\ pipe' = Tail(pipe)
  /\ IF streaming /\ Head(pipe).type = "long"
     THEN Finish /\ invoke' = "wait"
     ELSE /\ IF streaming THEN HandleEvent(Head(pipe)) ELSE UNCHANGED handlerVars
          /\ UNCHANGED invoke
  /\ UNCHANGED <<agentVars, streaming, cancelled, result>>

ScanEnd ==
  /\ invoke = "stream" /\ pipe = <<>> /\ agent \in {"ok", "failed"}
  /\ IF streaming THEN Finish ELSE UNCHANGED handlerVars
  /\ invoke' = "wait"
  /\ UNCHANGED <<agentVars, pipe, streaming, cancelled, result>>

(* cmd.Wait: waits for the process; what the pipe still holds is lost.     *)
Wait ==
  /\ invoke = "wait" /\ agent \in {"ok", "failed"}
  /\ invoke' = "returned"
  /\ result' = IF agent = "ok" THEN "ok" ELSE "error"
  /\ UNCHANGED <<agentVars, pipe, streaming, cancelled, handlerVars>>

Invoke == ScanLine \/ ScanEnd \/ Wait

StreamLine ==
  \/ \E a \in Aims : UseTool(a) \/ \E given \in {Unknown, Empty, a} : OpenBlock(a, given)
  \/ TellInput \/ CloseBlock \/ Error
  \/ \E x \in 1..MaxTools, ok \in BOOLEAN : ToolResult(x, ok)
  \/ \E specs \in SUBSET Specs, mark \in Final \union {"none"}, newline \in BOOLEAN :
       Say(specs, {mark} \ {"none"}, newline)

(* Output that is not read as a stream is as good as lines of no meaning.  *)
Agent ==
  \/ streaming /\ StreamLine
  \/ \E type \in {"junk", "long"} : Babble(type)
  \/ \E how \in {"ok", "failed"} : AgentExit(how)

Next == Agent \/ Cancel \/ Invoke

Spec == Init /\ [][Next]_vars

(* The goroutine of the invocation goes on, and an agent that can write or *)
(* exit does, until it has exited.                                         *)
FairSpec == Spec /\ WF_vars(Invoke) /\ WF_vars(Agent)

-----------------------------------------------------------------------------
(* Properties.                                                             *)

(* An invocation returns: Invoke neither waits for an agent that waits for *)
(* Invoke to read, nor reads from an agent that is gone.  The one          *)
(* exception is a line too long for the scanner, and cancelling ends that. *)
InvokeReturns == []<>(invoke = "returned" \/ (long /\ ~cancelled))

Expected(s) ==
  IF said[s] \in Final THEN said[s]
  ELSE IF said[s] = "writing" \/ s \in Listed THEN "done"
  ELSE "absent"

Tells(x, s) == x \in DOMAIN aim /\ aim[x].kind # "other" /\ aim[x].spec = s

(* What an item shows and what was printed last of it is what the stream   *)
(* said last of the spec, whatever the order of results and pieces; a spec *)
(* of which it said nothing final shows done if it is listed or written.   *)
(* The one exception is a call whose input came in pieces after a start    *)
(* that held some: of its spec nothing is promised.                        *)
LastWord ==
  invoke = "returned" /\ streaming /\ ~long =>
    \A s \in Specs :
      (\E x \in garbled : Tells(x, s)) \/ (status[s] = Expected(s) /\ printed[s] = Expected(s))
=============================================================================
