-------------------------- MODULE StreamTranslation --------------------------
(***************************************************************************)
(* The way of one streamed answer: an upstream's chunks become the events  *)
(* of the router (OpenAIProvider, AnthropicProvider, or responseToStream   *)
(* for an answer that came whole), and an endpoint's encoder makes frames  *)
(* of them (createAnthropicSSEEncoder on /v1/messages, createChunkEncoder  *)
(* on /v1/chat/completions).  An attempt that fails before its first event *)
(* is followed by one of another provider into the same encoder.           *)
(*                                                                         *)
(* Pieces of text and of the arguments of tool calls are numbered as they  *)
(* come.  The client is external: it follows the frames as its protocol    *)
(* has it, and puts the answer together from them.                         *)
(***************************************************************************)
EXTENDS Integers, Sequences, FiniteSets, SequencesExt

CONSTANTS
  MaxToolCalls,    (* bound on the tool calls of an answer                 *)
  MaxPieces,       (* bound on the pieces of all attempts                  *)
  MaxStreams       (* attempts of the router                               *)

ASSUME StreamAssumption ==
  MaxToolCalls \in Nat /\ MaxPieces \in Nat /\ MaxStreams \in Nat \ {0}

ToolCalls == 0 .. MaxToolCalls - 1
NoBlock == -1

VARIABLES
  upstream,    (* what the provider of this attempt is                     *)
  endpoint,    (* messages or completions                                  *)
  flow,        (* streaming, done, or broken                               *)
  events,      (* events made of the last chunk and not yet encoded        *)
  content,     (* the provider's assembly: text, and per call what it knows *)
  callArgs, known, hasId, hasName, started,
  pieces, streams,
  enc,         (* the encoder of /v1/messages                              *)
  client,      (* the client of /v1/messages, following the frames         *)
  gotText, gotCalls, gotArgs,   (* what a client of either has put together *)
  latest,      (* what upstream opened last: a call, or text               *)
  mixed        (* a piece came for another call than the latest; with the
                  one above, read by properties only                       *)

providerVars == <<content, callArgs, known, hasId, hasName, started, latest, mixed>>
clientVars == <<client, gotText, gotCalls, gotArgs>>
streamVars == <<upstream, endpoint, flow, events, providerVars, pieces, streams, enc, clientVars>>

Event(t, i, n) == [type |-> t, index |-> i, piece |-> n]
TextDelta(n)    == Event("text_delta", NoBlock, n)
CallStart(i)    == Event("tool_call_start", i, 0)
CallDelta(i, n) == Event("tool_call_delta", i, n)
Done            == Event("done", NoBlock, 0)

EventKinds == {"text_delta", "tool_call_start", "tool_call_delta", "done"}
StreamEvents == [type : EventKinds, index : ToolCalls \cup {NoBlock}, piece : Nat]
Encoders == [started : BOOLEAN, index : Int, open : {"none", "text", "tool_use"}]
Clients  == [begun : BOOLEAN, ended : BOOLEAN, at : Int, kind : {"none", "text", "tool_use"},
             call : ToolCalls \cup {NoBlock}, blocks : Nat, garbled : BOOLEAN]

StreamTypeOK ==
  /\ upstream \in {"openai", "anthropic", "whole"}
  /\ endpoint \in {"messages", "completions"}
  /\ flow \in {"streaming", "done", "broken"}
  /\ events \in Seq(StreamEvents)
  /\ content \in Seq(Nat) /\ gotText \in Seq(Nat)
  /\ callArgs \in [ToolCalls -> Seq(Nat)] /\ gotArgs \in [ToolCalls -> Seq(Nat)]
  /\ known \subseteq ToolCalls /\ hasId \subseteq ToolCalls /\ hasName \subseteq ToolCalls
  /\ started \subseteq ToolCalls /\ gotCalls \subseteq ToolCalls
  /\ pieces \in Nat /\ streams \in Nat
  /\ enc \in Encoders
  /\ client \in Clients
  /\ latest \in ToolCalls \cup {NoBlock}
  /\ mixed \in BOOLEAN

Hello == [started |-> FALSE, index |-> NoBlock, open |-> "none"]
Listening == [begun |-> FALSE, ended |-> FALSE, at |-> NoBlock, kind |-> "none",
              call |-> NoBlock, blocks |-> 0, garbled |-> FALSE]

StreamInit ==
  /\ upstream \in {"openai", "anthropic", "whole"}
  /\ endpoint \in {"messages", "completions"}
  /\ flow = "streaming"
  /\ events = <<>>
  /\ content = <<>>
  /\ callArgs = [i \in ToolCalls |-> <<>>]
  /\ known = {} /\ hasId = {} /\ hasName = {} /\ started = {}
  /\ latest = NoBlock /\ mixed = FALSE
  /\ pieces = 0
  /\ streams = 1
  /\ enc = Hello
  /\ client = Listening
  /\ gotText = <<>> /\ gotCalls = {} /\ gotArgs = [i \in ToolCalls |-> <<>>]

-----------------------------------------------------------------------------
(* The providers: a chunk is assembled, and becomes events.                *)

Chunk(n, made) ==
  /\ flow = "streaming"
  /\ events = <<>>
  /\ pieces + n <= MaxPieces
  /\ pieces' = pieces + n
  /\ events' = made
  /\ UNCHANGED <<upstream, endpoint, flow, streams, enc, clientVars>>

TextChunk ==
  /\ upstream # "whole"
  /\ Chunk(1, <<TextDelta(pieces + 1)>>)
  /\ content' = Append(content, pieces + 1)
  /\ latest' = NoBlock
  /\ UNCHANGED <<callArgs, known, hasId, hasName, started, mixed>>

(* Mutant: a call is announced as soon as its id is there.                 *)
Announces_early(i) == i \notin started /\ i \in hasId'

Announces(i) == i \notin started /\ i \in hasId' /\ i \in hasName'

(* One entry of delta.tool_calls, which may bring the id of its call, the  *)
(* name and a piece of the arguments, together or one by one.              *)
OpenAIToolChunk(i, id, name, args) ==
  /\ upstream = "openai"
  /\ id \/ name \/ args
  /\ known' = known \cup {i}
  /\ hasId' = IF id THEN hasId \cup {i} ELSE hasId
  /\ hasName' = IF name THEN hasName \cup {i} ELSE hasName
  /\ started' = IF Announces(i) THEN started \cup {i} ELSE started
  /\ latest' = IF Announces(i) THEN i ELSE latest
  /\ callArgs' = IF args THEN [callArgs EXCEPT ![i] = Append(@, pieces + 1)] ELSE callArgs
  /\ mixed' = (mixed \/ (args /\ latest' # i))
  /\ Chunk(IF args THEN 1 ELSE 0,
           (IF Announces(i) THEN <<CallStart(i)>> ELSE <<>>)
             \o (IF args THEN <<CallDelta(i, pieces + 1)>> ELSE <<>>))
  /\ UNCHANGED content

(* content_block_start of a tool_use block: the calls are numbered in the  *)
(* order of their blocks, whatever text blocks lie between.                *)
AnthropicBlockStart ==
  LET i == Cardinality(known) IN
  /\ upstream = "anthropic"
  /\ i \in ToolCalls
  /\ known' = known \cup {i} /\ hasId' = hasId \cup {i} /\ hasName' = hasName \cup {i}
  /\ started' = started \cup {i}
  /\ latest' = i
  /\ Chunk(0, <<CallStart(i)>>)
  /\ UNCHANGED <<content, callArgs, mixed>>

(* input_json_delta of the block that is open; Anthropic's blocks come one *)
(* after the other.                                                        *)
AnthropicInputDelta ==
  /\ upstream = "anthropic"
  /\ latest # NoBlock
  /\ callArgs' = [callArgs EXCEPT ![latest] = Append(@, pieces + 1)]
  /\ Chunk(1, <<CallDelta(latest, pieces + 1)>>)
  /\ UNCHANGED <<content, known, hasId, hasName, started, latest, mixed>>

(* The provider's stream ends: the response is yielded as assembled.       *)
StreamEnds ==
  /\ upstream # "whole"
  /\ Chunk(0, <<Done>>)
  /\ UNCHANGED providerVars

(* responseToStream of a response with k calls, a piece each, and with     *)
(* text or none.                                                           *)
WholeAnswer(text, k) ==
  LET first == IF text THEN 1 ELSE 0 IN
  /\ upstream = "whole"
  /\ known' = 0 .. k - 1 /\ hasId' = 0 .. k - 1 /\ hasName' = 0 .. k - 1
  /\ started' = 0 .. k - 1
  /\ content' = IF text THEN <<pieces + 1>> ELSE <<>>
  /\ callArgs' = [i \in ToolCalls |-> IF i < k THEN <<pieces + first + i + 1>> ELSE <<>>]
  /\ Chunk(first + k,
           (IF text THEN <<TextDelta(pieces + 1)>> ELSE <<>>)
             \o FlattenSeq([j \in 1 .. k |-> <<CallStart(j - 1), CallDelta(j - 1,
                                               pieces + first + j)>>])
             \o <<Done>>)
  /\ UNCHANGED <<latest, mixed>>

(* Every attempt assembles afresh.                                         *)
Afresh ==
  /\ content' = <<>>
  /\ callArgs' = [i \in ToolCalls |-> <<>>]
  /\ known' = {} /\ hasId' = {} /\ hasName' = {} /\ started' = {}
  /\ latest' = NoBlock /\ mixed' = FALSE

HasSent ==
  \/ gotText # <<>>
  \/ gotCalls # {}
  \/ \E i \in ToolCalls : gotArgs[i] # <<>>
  \/ enc.started

(* The upstream fails, or the write to the cache before done does: another *)
(* provider is tried, or an error frame ends the stream.                   *)
AttemptFails(next) ==
  /\ flow = "streaming"
  /\ events \in {<<>>, <<Done>>}
  /\ events' = <<>>
  /\ \/ /\ ~HasSent
        /\ streams < MaxStreams
        /\ streams' = streams + 1
        /\ upstream' = next
        /\ Afresh
        /\ UNCHANGED flow
     \/ /\ flow' = "broken"
        /\ UNCHANGED <<upstream, streams, providerVars>>
  /\ UNCHANGED <<endpoint, pieces, enc, clientVars>>

-----------------------------------------------------------------------------
(* The frames of /v1/messages, as its client follows them: a frame out of  *)
(* the protocol garbles the stream.                                        *)

Garbled(c) == [c EXCEPT !.garbled = TRUE]

MessageStart(c) == IF c.begun THEN Garbled(c) ELSE [c EXCEPT !.begun = TRUE]

BlockStart(c, i, kind, call) ==
  IF c.begun /\ ~c.ended /\ c.at = NoBlock /\ i = c.blocks
  THEN [c EXCEPT !.at = i, !.kind = kind, !.call = call, !.blocks = @ + 1]
  ELSE Garbled(c)

BlockDelta(c, i, kind) ==
  IF ~c.ended /\ c.at = i /\ c.kind = kind THEN c ELSE Garbled(c)

BlockStop(c, i) ==
  IF c.at = i THEN [c EXCEPT !.at = NoBlock, !.kind = "none", !.call = NoBlock]
  ELSE Garbled(c)

MessageStop(c) ==
  IF c.begun /\ ~c.ended /\ c.at = NoBlock THEN [c EXCEPT !.ended = TRUE] ELSE Garbled(c)

-----------------------------------------------------------------------------
(* The encoders.                                                           *)

Started(c) == IF enc.started THEN c ELSE MessageStart(c)

(* Mutant: an open text block is left open.                                *)
ClosedBlock_tools(c) == IF enc.open # "tool_use" THEN c ELSE BlockStop(c, enc.index)

(* closeBlock                                                              *)
ClosedBlock(c) == IF enc.open = "none" THEN c ELSE BlockStop(c, enc.index)

Opened(kind, call) == BlockStart(ClosedBlock(Started(client)), enc.index + 1, kind, call)

Opens(kind) == enc' = [started |-> TRUE, index |-> enc.index + 1, open |-> kind]

MessagesText(n) ==
  /\ gotText' = Append(gotText, n)
  /\ IF enc.open = "text"
     THEN /\ client' = BlockDelta(Started(client), enc.index, "text")
          /\ enc' = [enc EXCEPT !.started = TRUE]
     ELSE /\ client' = BlockDelta(Opened("text", NoBlock), enc.index + 1, "text")
          /\ Opens("text")
  /\ UNCHANGED <<gotCalls, gotArgs>>

MessagesCall(i) ==
  /\ client' = Opened("tool_use", i)
  /\ Opens("tool_use")
  /\ gotCalls' = gotCalls \cup {i}
  /\ UNCHANGED <<gotText, gotArgs>>

(* The piece goes to the block that is open, if that is a call; the index  *)
(* of the event is not looked at.                                          *)
MessagesArgs(n) ==
  /\ enc' = [enc EXCEPT !.started = TRUE]
  /\ IF enc.open = "tool_use"
     THEN /\ client' = BlockDelta(Started(client), enc.index, "tool_use")
          /\ gotArgs' = IF client.call \in ToolCalls
                        THEN [gotArgs EXCEPT ![client.call] = Append(@, n)]
                        ELSE gotArgs
     ELSE client' = Started(client) /\ UNCHANGED gotArgs
  /\ UNCHANGED <<gotText, gotCalls>>

MessagesDone ==
  /\ client' = MessageStop(ClosedBlock(Started(client)))
  /\ enc' = [enc EXCEPT !.started = TRUE, !.open = "none"]
  /\ UNCHANGED <<gotText, gotCalls, gotArgs>>

(* Chunks carry the index of their call.                                   *)
CompletionsChunk(e) ==
  /\ gotText' = IF e.type = "text_delta" THEN Append(gotText, e.piece) ELSE gotText
  /\ gotCalls' = IF e.type = "tool_call_start" THEN gotCalls \cup {e.index} ELSE gotCalls
  /\ gotArgs' = IF e.type = "tool_call_delta"
                THEN [gotArgs EXCEPT ![e.index] = Append(@, e.piece)]
                ELSE gotArgs
  /\ UNCHANGED <<client, enc>>

(* The handler writes the frames of the next event.                        *)
Forward ==
  /\ flow = "streaming"
  /\ events # <<>>
  /\ LET e == Head(events) IN
     /\ \/ endpoint = "completions" /\ CompletionsChunk(e)
        \/ /\ endpoint = "messages"
           /\ \/ e.type = "text_delta" /\ MessagesText(e.piece)
              \/ e.type = "tool_call_start" /\ MessagesCall(e.index)
              \/ e.type = "tool_call_delta" /\ MessagesArgs(e.piece)
              \/ e.type = "done" /\ MessagesDone
     /\ flow' = IF e.type = "done" THEN "done" ELSE flow
  /\ events' = Tail(events)
  /\ UNCHANGED <<upstream, endpoint, providerVars, pieces, streams>>

StreamNext ==
  \/ TextChunk
  \/ \E i \in ToolCalls, id, name, args \in BOOLEAN : OpenAIToolChunk(i, id, name, args)
  \/ AnthropicBlockStart \/ AnthropicInputDelta
  \/ \E text \in BOOLEAN, k \in 0 .. MaxToolCalls : WholeAnswer(text, k)
  \/ StreamEnds
  \/ \E next \in {"openai", "anthropic", "whole"} : AttemptFails(next)
  \/ Forward

StreamSpec == StreamInit /\ [][StreamNext]_streamVars

-----------------------------------------------------------------------------
(* Properties.                                                             *)

(* Whatever order text, calls and pieces of calls come in, and wherever    *)
(* the upstream breaks off, the client of /v1/messages never sees a frame  *)
(* out of place: blocks are numbered from 0 and do not overlap, a delta    *)
(* lies in an open block of its kind, and message_stop comes once, with no *)
(* block open (createAnthropicSSEEncoder).                                 *)
FramesNest ==
  /\ ~client.garbled
  /\ flow = "done" /\ endpoint = "messages" => client.ended

(* What a client of either endpoint has put together at the end is the     *)
(* response the router was given: all of the text, and each call with its  *)
(* own arguments, after a failed attempt as well.  On /v1/messages, where  *)
(* a piece goes to the open block whatever its index, this takes an        *)
(* upstream that finishes a call before it opens the next; and a call is   *)
(* seen only if it was given an id and a name (response.ts:104,            *)
(* openai.ts:101).                                                         *)
ClientGetsAnswer ==
  flow = "done" =>
    /\ gotText = content
    /\ gotCalls = known \cap hasId \cap hasName
    /\ endpoint = "completions" \/ ~mixed => gotArgs = callArgs
=============================================================================
