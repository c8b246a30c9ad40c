--------------------------- MODULE ResponseStream ---------------------------
(***************************************************************************)
(* Scanning of one streamed response: scan_streaming_response,             *)
(* SSEResponseHandler and ResponseScanner                                  *)
(* (src/src/aiproxyguard/scanner/response.py), while the control plane     *)
(* reloads the signatures and toggles response scanning                    *)
(* (scanner/pipeline.py, set_response_scanning).                           *)
(*                                                                         *)
(* Handling a chunk has no await of its own, so a step is one chunk.       *)
(* Chunks are positions in the provider's stream; Text gives the content   *)
(* of their data lines.  The yields of a step are one: nothing the code    *)
(* between them reads can change.                                          *)
(*                                                                         *)
(* An operator named Faulty... is a slip a change of the code could make;  *)
(* nothing here uses it (README.md).                                       *)
(***************************************************************************)
EXTENDS Integers, FiniteSets, SequencesExt

CONSTANTS
  Characters,  \* of which the content of a response consists
  Responses,   \* what a provider may stream: the content of each chunk
  RuleSets,    \* signature sets: sets of [pattern, action]
  Modes,       \* values of the response scanner's mode
  BufferSize,  \* buffer_size
  MaxPushes    \* bound: reloads and toggles

ASSUME StreamAssumption ==
  /\ \A r \in Responses : r \in Seq(Seq(Characters))
  /\ \A S \in RuleSets : \A rule \in S : rule.pattern \in Seq(Characters) \ {<<>>}
  /\ Modes \subseteq {"passthrough", "buffered", "full"}
  /\ BufferSize \in Nat
  /\ MaxPushes \in Nat

VARIABLES
  response,  \* the stream being scanned
  mode,      \* mode of the scanner's configuration
  pc,        \* streaming, ended, or blocked: ResponseBlockedError
  taken,     \* chunks taken from the provider
  text,      \* _buffer or _full_content, joined
  released,  \* _initial_scan_done
  held,      \* collected_chunks
  out,       \* chunks yielded
  tasks,     \* passthrough: chunks whose background scan has not run
  alerts,    \* calls of on_detection
  enabled,   \* the scanner's configuration is enabled
  attached,  \* the scanner is still the scanner pipeline's
  rules,     \* the scanner's filtered signatures
  pushes,    \* reloads and toggles so far
  calm       \* history: none of them reached this stream

Stream == <<response, mode, pc, taken, text, released, held, out, tasks, alerts>>
Scanner == <<enabled, attached, rules, pushes, calm>>
vars == <<Stream, Scanner>>

Text(chunks) == FlattenSeq([i \in DOMAIN chunks |-> response[chunks[i]]])

Upto(n) == [i \in 1 .. n |-> i]

Init ==
  /\ response \in Responses
  /\ mode \in Modes
  /\ pc = "streaming"
  /\ taken = 0
  /\ text = <<>>
  /\ released = FALSE
  /\ held = <<>>
  /\ out = <<>>
  /\ tasks = {}
  /\ alerts = 0
  /\ enabled = TRUE
  /\ attached = TRUE
  /\ rules \in RuleSets
  /\ pushes = 0
  /\ calm = TRUE

----------------------------------------------------------------------------
(* ResponseScanner.scan                                                    *)

Occurs(pattern, s) == \E i \in 1 .. Len(s) : IsPrefix(pattern, SubSeq(s, i, Len(s)))

Matches(s) == {rule \in rules : enabled /\ Occurs(rule.pattern, s)}

\* The top match decides, and "block" is the top action.
Blocks(s) == \E rule \in Matches(s) : rule.action = "block"

Alerted(s) == alerts' = alerts + (IF Matches(s) = {} THEN 0 ELSE 1)

----------------------------------------------------------------------------
(* process_chunk, and what the generator does with its result.             *)

Arrives(m) == pc = "streaming" /\ mode = m /\ taken < Len(response) /\ taken' = taken + 1

PassesThrough ==
  /\ Arrives("passthrough")
  /\ out' = Append(out, taken')
  /\ tasks' = IF enabled /\ response[taken'] # <<>> THEN tasks \cup {taken'} ELSE tasks
  /\ UNCHANGED <<response, mode, pc, text, released, held, alerts, Scanner>>

Collects ==
  /\ Arrives("full")
  /\ held' = Append(held, taken')
  /\ text' = IF enabled THEN text \o response[taken'] ELSE text
  /\ UNCHANGED <<response, mode, pc, released, out, tasks, alerts, Scanner>>

FaultyBuffered == response[taken']

\* The buffer with the chunk that has just arrived.
Buffered == text \o response[taken']

Buffers ==
  /\ Arrives("buffered") /\ enabled /\ ~released
  /\ Len(Buffered) < BufferSize
  /\ text' = Buffered
  /\ held' = Append(held, taken')
  /\ UNCHANGED <<response, mode, pc, released, out, tasks, alerts, Scanner>>

BufferPasses ==
  /\ Arrives("buffered") /\ enabled /\ ~released
  /\ Len(Buffered) >= BufferSize /\ ~Blocks(Buffered)
  /\ text' = Buffered
  /\ released' = TRUE
  /\ out' = out \o Append(held, taken')
  /\ held' = <<>>
  /\ Alerted(Buffered)
  /\ UNCHANGED <<response, mode, pc, tasks, Scanner>>

BufferBlocks ==
  /\ Arrives("buffered") /\ enabled /\ ~released
  /\ Len(Buffered) >= BufferSize /\ Blocks(Buffered)
  /\ text' = Buffered
  /\ pc' = "blocked"
  /\ UNCHANGED <<response, mode, released, held, out, tasks, alerts, Scanner>>

FaultyForwards ==
  /\ Arrives("buffered") /\ (~enabled \/ released)
  /\ out' = Append(out, taken')
  /\ UNCHANGED <<response, mode, pc, text, released, held, tasks, alerts, Scanner>>

\* After the scan, or with scanning switched off, what is held goes first.
Forwards ==
  /\ Arrives("buffered") /\ (~enabled \/ released)
  /\ out' = out \o Append(held, taken')
  /\ held' = <<>>
  /\ UNCHANGED <<response, mode, pc, text, released, tasks, alerts, Scanner>>

----------------------------------------------------------------------------
(* finalize                                                                *)

FaultyScansAtEnd == mode # "passthrough"

\* A stream shorter than the buffer has not been scanned yet.
ScansAtEnd == mode = "full" \/ (mode = "buffered" /\ ~released)

EndPasses ==
  /\ pc = "streaming" /\ taken = Len(response)
  /\ ScansAtEnd => ~Blocks(text)
  /\ pc' = "ended"
  /\ out' = out \o held
  /\ held' = <<>>
  /\ IF ScansAtEnd THEN Alerted(text) ELSE UNCHANGED alerts
  /\ UNCHANGED <<response, mode, taken, text, released, tasks, Scanner>>

EndBlocks ==
  /\ pc = "streaming" /\ taken = Len(response)
  /\ ScansAtEnd /\ Blocks(text)
  /\ pc' = "blocked"
  /\ UNCHANGED <<response, mode, taken, text, released, held, out, tasks, alerts, Scanner>>

\* _async_scan
TaskScans(i) ==
  /\ i \in tasks
  /\ tasks' = tasks \ {i}
  /\ Alerted(response[i])
  /\ UNCHANGED <<response, mode, pc, taken, text, released, held, out, Scanner>>

----------------------------------------------------------------------------
(* Pushes, as far as they reach the scanner of this stream.                *)

Push == attached /\ pushes < MaxPushes /\ pushes' = pushes + 1

Reload ==
  /\ Push
  /\ rules' \in RuleSets \ {rules}
  /\ calm' = FALSE
  /\ UNCHANGED <<Stream, enabled, attached>>

\* Switched on, again, the pipeline has a new configuration and a new scanner; the
\* stream keeps the old ones.
SwitchOn ==
  /\ Push
  /\ attached' = FALSE
  /\ UNCHANGED <<Stream, enabled, rules, calm>>

\* Switched off, the configuration the stream shares is changed in place.
SwitchOff ==
  /\ Push
  /\ attached' = FALSE
  /\ enabled' = FALSE
  /\ calm' = FALSE
  /\ UNCHANGED <<Stream, rules>>

Next ==
  \/ PassesThrough \/ Collects
  \/ Buffers \/ BufferPasses \/ BufferBlocks \/ Forwards
  \/ EndPasses \/ EndBlocks
  \/ \E i \in tasks : TaskScans(i)
  \/ Reload \/ SwitchOn \/ SwitchOff

Spec == Init /\ [][Next]_vars

----------------------------------------------------------------------------
(* Properties.                                                             *)

\* The type of every variable; a response is scanned as one text at most once, so
\* buffered and full mode report at most one detection, also across reloads.
TypeOK ==
  /\ response \in Responses
  /\ mode \in Modes
  /\ pc \in {"streaming", "ended", "blocked"}
  /\ taken \in 0 .. Len(response)
  /\ IsPrefix(text, Text(Upto(taken)))
  /\ {enabled, attached, released, calm} \subseteq BOOLEAN
  /\ {held, out} \subseteq Seq(1 .. taken)
  /\ tasks \subseteq 1 .. taken
  /\ alerts \in 0 .. (IF mode = "passthrough" THEN taken ELSE 1)
  /\ rules \in RuleSets
  /\ pushes \in 0 .. MaxPushes

\* Whatever is reloaded or toggled while chunks are held: the client gets the
\* provider's chunks in order, each once, all of them when the stream ends, and
\* none when it is blocked.
ReleasedInOrder ==
  /\ out = Upto(Len(out))
  /\ pc = "streaming" => out \o held = Upto(taken)
  /\ pc = "ended" => out = Upto(Len(response))
  /\ pc = "blocked" => out = <<>>

\* "Buffer N chars before scanning, then stream", "Buffer entire response, scan,
\* then return" (docs/configuration.md): the first release is of N characters or of
\* everything, and holds nothing that a rule in force at that moment blocks.
HeldUntilScanned ==
  [][out = <<>> /\ out' # <<>> /\ enabled /\ mode # "passthrough" =>
       /\ ~Blocks(Text(out'))
       /\ IF mode = "full" THEN pc' = "ended"
          ELSE pc' = "ended" \/ Len(Text(out')) >= BufferSize]_vars

\* What a response of this mode is judged by: every chunk, its first N characters
\* in whole chunks, or all of it.
Judged ==
  LET all == DOMAIN response
      enough == {n \in all : Len(Text(Upto(n))) >= BufferSize}
  IN CASE mode = "passthrough" -> {<<i, response[i]>> : i \in all}
       [] mode = "buffered" /\ enough # {} -> {<<0, Text(Upto(Min(enough)))>>}
       [] OTHER -> {<<0, Text(Upto(Len(response)))>>}

\* The chunk-by-chunk handling comes to the verdict one look at the whole response
\* gives: without pushes, it is blocked exactly for a text judged that has a
\* blocking match, and otherwise every text judged that has a match is reported.
VerdictOfWhole ==
  calm /\ pc # "streaming" /\ tasks = {} =>
    LET matched == {j \in Judged : Matches(j[2]) # {}}
    IN /\ pc = "blocked" <=> mode # "passthrough" /\ \E j \in matched : Blocks(j[2])
       /\ pc = "ended" => alerts = Cardinality(matched)
=============================================================================
