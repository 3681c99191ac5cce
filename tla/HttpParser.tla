----------------------------- MODULE HttpParser -----------------------------
(***************************************************************************)
(* The HTTP parser (llhttp): one parser, from llhttp_init on, with any     *)
(* input cut into buffers anywhere, any answers of the callbacks, and the  *)
(* calls of llhttp.h between the buffers.                                  *)
(*                                                                         *)
(* As llhttp.h asks, llhttp_pause is not called by a callback, and after   *)
(* llhttp_finish there is no more input.                                   *)
(***************************************************************************)
EXTENDS HttpStartLine, HttpHeaders, HttpBody

Init ==
  /\ executing = FALSE /\ current = "start" /\ at = End /\ index = 0 /\ error = "OK"
  /\ span_pos0 = NULL /\ span_cb0 = NULL
  /\ type \in Types /\ method = "other" /\ status_code = 0
  /\ flags = {} /\ header_state = "general" /\ content_length = 0 /\ upgrade = FALSE
  /\ finish = "SAFE"
  /\ last = "none" /\ owed = 0 /\ leftover = FALSE /\ finished = "no"

-----------------------------------------------------------------------------
(* llhttp_execute.                                                         *)

\* An open span begins again in the new buffer.
Execute ==
  /\ ~executing /\ error = "OK" /\ finished = "no"
  /\ executing' = TRUE /\ at' \in Bytes(current) \cup {End}
  /\ span_pos0' = IF span_pos0 # NULL THEN "here" ELSE NULL
  /\ UNCHANGED <<current, index, error, span_cb0, last, messageVars>>

\* The run returns at the end of the buffer, and an open span is handed over as far as
\* it goes.
EndOfBuffer ==
  /\ executing /\ at = End /\ current \in Consuming
  /\ \/ /\ span_pos0 = NULL
        /\ Return("OK", current) /\ UNCHANGED <<span_pos0, last>>
     \/ /\ span_pos0 # NULL
        /\ span_pos0' = "gone" /\ last' = span_cb0
        /\ \E e \in Answers : Return(e, current)
  /\ UNCHANGED <<index, span_cb0, messageVars>>

-----------------------------------------------------------------------------
(* The other calls.                                                        *)

Between == ~executing /\ finished = "no" /\ UNCHANGED <<executing, current, at, lexVars>>

Pause == /\ Between /\ error = "OK"
         /\ error' = "PAUSED" /\ UNCHANGED <<last, messageVars>>

\* llhttp_resume and llhttp_resume_after_upgrade
Resume == /\ Between /\ error \in Pauses
          /\ error' = "OK" /\ UNCHANGED <<last, messageVars>>

Finish ==
  /\ Between
  /\ \/ error # "OK" /\ finished' = "OK" /\ UNCHANGED last
     \/ error = "OK" /\ finish = "SAFE" /\ finished' = "OK" /\ UNCHANGED last
     \/ /\ error = "OK" /\ finish = "SAFE_WITH_CB"
        /\ last' = "message_complete" /\ finished' \in Answers
     \/ error = "OK" /\ finish = "UNSAFE" /\ finished' = "INVALID_EOF_STATE" /\ UNCHANGED last
  /\ UNCHANGED <<error, lineVars, headVars, bodyVars, finish, leftover>>

\* An error that is no pause stays.
Failed == error \notin Pauses \cup {"OK"}

\* Nothing else happens after an error, or after llhttp_finish.
Stopped == (Failed \/ finished # "no") /\ UNCHANGED vars

Run == StartLineStep \/ HeadersStep \/ BodyStep \/ MatchPause \/ EndOfBuffer

Next == Execute \/ Run \/ Pause \/ Resume \/ Finish \/ Stopped

\* Once its buffer has ended the automaton goes on: nothing else runs during the call.
Spec == Init /\ [][Next]_vars /\ WF_vars(at = End /\ Run)

-----------------------------------------------------------------------------
TypeOK ==
  /\ executing \in BOOLEAN /\ index \in {0, 1}
  /\ current \in Nodes /\ at \in Alphabet \cup {End} /\ error \in Errors
  /\ span_pos0 \in {NULL, "here", "gone"}
  /\ span_cb0 \in {NULL, "url", "status", "header_field", "header_value", "body"}
  /\ type \in {"BOTH", "REQUEST", "RESPONSE"} /\ method \in Methods \cup {"other"}
  /\ status_code \in StatusCodes \cup {0}
  /\ flags \subseteq Flags /\ header_state \in HeaderStates
  /\ content_length \in 0..MaxLength /\ owed \in Int
  /\ upgrade \in BOOLEAN /\ leftover \in BOOLEAN
  /\ finish \in {"SAFE", "SAFE_WITH_CB", "UNSAFE"}
  /\ finished \in Answers \cup {"no", "INVALID_EOF_STATE"}

-----------------------------------------------------------------------------
(* The callbacks that the user sees.                                       *)

BetweenNodes == {"start", "on_message_begin", "is_equal_upgrade", "pause_1",
                 "after_message_complete"}

\* Where the chunks are, between their callbacks, and inside one.
ChunkSizeNodes == {"chunk_size", "chunk_parameters", "chunk_size_almost_done",
                   "on_chunk_header"}
ChunkDataNodes == {"span_start_on_body", "consume_content_length"}
ChunkEndNodes == {"chunk_data_almost_done", "chunk_data_almost_done_skip",
                  "on_chunk_complete"}

\* Where a body of a given length is.
LengthNodes == {"span_start_on_body_1", "consume_content_length_1"}

PlainNodes == ChunkSizeNodes \cup LengthNodes
              \cup {"after_headers_complete", "update_content_length",
                    "span_start_on_body_2", "eof", "on_message_complete",
                    "on_message_complete_1", "on_message_complete_2"}

\* Once llhttp_finish has called on_message_complete the message is over.
Stage ==
  CASE Failed -> "failed"
    [] ~Failed /\ \/ current \in BetweenNodes
                  \/ finished # "no" /\ error = "OK" /\ finish = "SAFE_WITH_CB" -> "between"
    [] OTHER ->
  CASE current \in PlainNodes -> "body"
    [] \/ current \in ChunkDataNodes \cup ChunkEndNodes \cup {"is_equal_content_length"}
       \/ "TRAILING" \in flags /\ current \notin PlainNodes -> "chunk"
    [] OTHER -> "head"

Callbacks == INSTANCE HttpCallbacks WITH stage <- Stage

\* The callbacks come in the order that HttpCallbacks describes, wherever the input is
\* cut, whatever the callbacks answer and however often the parser is paused: each
\* message begins and is complete once, and so is each chunk.
CallbackOrder == Callbacks!Spec

-----------------------------------------------------------------------------
(* Safety.                                                                 *)

\* What is kept between two calls of llhttp_execute is never taken for something else: an
\* open span begins again in the new buffer, so that no callback gets a pointer into an
\* earlier one; and the letters of a keyword that have been read are counted in an _index
\* that all keywords share, of which none begins with the count of another.
NothingStale ==
  /\ executing => span_pos0 # "gone"
  /\ index # 0 => current \in MatchNodes

\* What the callback on_body has got and what is still due make up the size of the chunk,
\* or the length of the body if nothing was left over from an earlier message: no byte is
\* dropped or given twice where buffers end, and no number of digits makes it wrap.
BodyIsExact ==
  ~Failed =>
    /\ current \in ChunkSizeNodes \cup ChunkDataNodes => content_length = owed
    /\ current \in ChunkEndNodes => owed = 0
    /\ ~leftover =>
         /\ current \in LengthNodes => content_length = owed
         /\ current = "on_message_complete_2" /\ "CHUNKED" \notin flags => owed = 0

\* A body has one frame: chunks without a Content-Length, or a Content-Length without
\* chunks; and there is none when on_headers_complete has said so.
OneFrame ==
  /\ current \in ChunkSizeNodes \cup ChunkDataNodes \cup ChunkEndNodes =>
       /\ "CHUNKED" \in flags
       /\ flags \cap {"CONTENT_LENGTH", "SKIPBODY"} = {}
  /\ current \in LengthNodes =>
       "CONTENT_LENGTH" \in flags /\ flags \cap {"CHUNKED", "SKIPBODY"} = {}
  /\ current = "eof" => flags \cap {"CHUNKED", "CONTENT_LENGTH", "SKIPBODY"} = {}

\* Where the input may end by llhttp.h:285-290: no message is open, or one whose body
\* goes on until the end.  Of these, where llhttp_finish refuses the end nevertheless,
\* because its field finish is set only by the next node: behind a complete message at
\* which the parser was paused, and before the first byte of a body until the end.
MayEnd == {"start", "is_equal_upgrade", "pause_1", "after_message_complete",
           "span_start_on_body_2", "eof"}
RefusedEnds == MayEnd \ {"start", "eof"}

\* llhttp_finish accepts no end of the input inside a message, refuses no other end but
\* the RefusedEnds, and completes the message whose body goes on until the end.  It says
\* nothing when the parser is paused or has failed: the answer is HPE_OK anywhere
\* (api.c:41-43).
FinishIsRight ==
  finished # "no" /\ error = "OK" =>
    /\ finished = "OK" => current \in MayEnd
    /\ finished = "INVALID_EOF_STATE" => current \notin MayEnd \ RefusedEnds
    /\ current = "eof" => last = "message_complete"

\* A message that asks for an upgrade, or CONNECT, ends in HPE_PAUSED_UPGRADE unless the
\* user fails it, if nothing was left over from an earlier message.
UpgradePauses ==
  [][current # "after_message_complete" /\ current' = "after_message_complete" /\ upgrade
       => leftover \/ error' = "PAUSED_UPGRADE"]_vars

-----------------------------------------------------------------------------
(* Liveness.                                                               *)

\* llhttp_execute returns: from the end of the buffer the automaton comes, without a
\* cycle of gotos, to a node that returns there.
ExecuteReturns == (executing /\ at = End) ~> ~executing

-----------------------------------------------------------------------------
(* What the code does not keep.                                            *)

\* llhttp.h:236 says that after a message whose body on_headers_complete has ruled out
\* the parser goes on with the next one; the body of that one is as long as its own
\* Content-Length says.  The length of the first is still in content_length.
LengthIsDeclared == current \in LengthNodes /\ ~Failed => content_length = owed
=============================================================================
