------------------------------ MODULE HttpBody ------------------------------
(***************************************************************************)
(* The HTTP parser: the end of the head, the body with its chunks, and the *)
(* end of the message.                                                     *)
(***************************************************************************)
EXTENDS HttpParserState

MessageUnchanged == UNCHANGED <<lexVars, messageVars>>

-----------------------------------------------------------------------------
(* The end of the head.                                                    *)

\* Mutant: chunks and a Content-Length are not refused.
TestFlagsBoth ==
  /\ At("test_flags")
  /\ Goto(IF "TRAILING" \in flags THEN "on_chunk_complete_1" ELSE "before_headers_complete")
  /\ Lexing

\* After the trailing fields the last chunk is over; a message that is both chunked
\* and of a given length is refused.
TestFlags ==
  /\ At("test_flags")
  /\ CASE "TRAILING" \in flags -> Goto("on_chunk_complete_1")
       [] "TRAILING" \notin flags /\ {"CHUNKED", "CONTENT_LENGTH"} \subseteq flags
            -> Fail("UNEXPECTED_CONTENT_LENGTH")
       [] OTHER -> Goto("before_headers_complete")
  /\ Lexing

BeforeHeadersComplete ==
  /\ At("before_headers_complete")
  /\ upgrade' = IF {"UPGRADE", "CONN_UPGRADE"} \subseteq flags
                THEN type = "REQUEST" \/ status_code = 101
                ELSE method = "CONNECT"
  /\ Goto("on_headers_complete")
  /\ UNCHANGED <<lexVars, last, lineVars, flags, header_state, bodyVars, lifeVars>>

\* The callback may also answer 1, no body, and 2, no body and an upgrade.
OnHeadersComplete ==
  /\ At("on_headers_complete")
  /\ \/ /\ Notify("headers_complete", "after_headers_complete", "CB_HEADERS_COMPLETE")
        /\ UNCHANGED <<flags, upgrade>>
     \/ /\ last' = "headers_complete" /\ Goto("after_headers_complete")
        /\ flags' = flags \cup {"SKIPBODY"} /\ upgrade' \in {upgrade, TRUE}
  /\ UNCHANGED <<lexVars, lineVars, header_state, bodyVars, lifeVars>>

\* llhttp_message_needs_eof
MessageNeedsEof ==
  /\ type # "REQUEST"
  /\ status_code \div 100 # 1 /\ status_code \notin {204, 304}
  /\ flags \cap {"SKIPBODY", "CHUNKED", "CONTENT_LENGTH"} = {}

\* llhttp__after_headers_complete, and where the automaton goes for its answers.
HasBody == "CHUNKED" \in flags \/ content_length > 0

AfterHeaders ==
  CASE upgrade /\ (method = "CONNECT" \/ "SKIPBODY" \in flags \/ ~HasBody)
         -> "on_message_complete_1"
    [] OTHER ->
  CASE "SKIPBODY" \in flags -> "on_message_complete"
    [] "CHUNKED" \in flags /\ "SKIPBODY" \notin flags -> "update_content_length"
    [] OTHER ->
  CASE "CONTENT_LENGTH" \in flags /\ content_length > 0 -> "span_start_on_body_1"
    [] "CONTENT_LENGTH" \notin flags /\ MessageNeedsEof -> "span_start_on_body_2"
    [] OTHER -> "on_message_complete"

AfterHeadersComplete ==
  At("after_headers_complete") /\ Goto(AfterHeaders) /\ Lexing

-----------------------------------------------------------------------------
(* Bodies.                                                                 *)

\* Nothing is begun before the first byte is there.
SpanStartOnBody ==
  /\ AtByte("span_start_on_body") /\ SpanStart("body", "consume_content_length")
  /\ UNCHANGED <<index, last, messageVars>>

SpanStartOnBody1 ==
  /\ AtByte("span_start_on_body_1") /\ SpanStart("body", "consume_content_length_1")
  /\ UNCHANGED <<index, last, messageVars>>

\* All that is still due is in the buffer: the span ends there, and then come nodes next.
ConsumeAll(next) ==
  /\ executing /\ at # End
  /\ SpanEndAdvance(next)
  /\ content_length' = 0 /\ owed' = owed - content_length
  /\ UNCHANGED <<index, lineVars, headVars, lifeVars>>

\* Mutant: what has been handed over stays due.
ConsumePartKeeps ==
  /\ executing /\ at # End
  /\ \E avail \in 1..(content_length - 1) : owed' = owed - avail
  /\ span_pos0' = "gone" /\ last' = span_cb0
  /\ \E e \in Answers : Return(e, current)
  /\ UNCHANGED <<index, span_cb0, lineVars, headVars, content_length, lifeVars>>

\* The buffer ends before: the run returns, and llhttp__internal_execute hands over
\* what there is.
ConsumePart ==
  /\ executing /\ at # End
  /\ \E avail \in 1..(content_length - 1) :
       /\ content_length' = content_length - avail
       /\ owed' = owed - avail
  /\ span_pos0' = "gone" /\ last' = span_cb0
  /\ \E e \in Answers : Return(e, current)
  /\ UNCHANGED <<index, span_cb0, lineVars, headVars, lifeVars>>

ConsumeContentLength ==
  /\ At("consume_content_length")
  /\ ConsumeAll("chunk_data_almost_done") \/ ConsumePart

ConsumeContentLength1 ==
  /\ At("consume_content_length_1")
  /\ ConsumeAll("on_message_complete_2") \/ ConsumePart

\* A body that goes on until llhttp_finish.
SpanStartOnBody2 ==
  /\ AtByte("span_start_on_body_2") /\ SpanStart("body", "eof")
  /\ finish' = "SAFE_WITH_CB"
  /\ UNCHANGED <<index, last, lineVars, headVars, bodyVars, leftover, finished>>

Eof == AtByte("eof") /\ Advance("eof") /\ Lexing

-----------------------------------------------------------------------------
(* Chunks.                                                                 *)

UpdateContentLength ==
  /\ At("update_content_length")
  /\ content_length' = 0 /\ owed' = 0
  /\ Goto("chunk_size")
  /\ UNCHANGED <<lexVars, last, lineVars, headVars, lifeVars>>

\* Mutant: no overflow is seen before the number is stored.
AddHexDigitUnchecked(d) ==
  Advance("chunk_size") /\ content_length' = content_length * HexRadix + d

\* llhttp__internal__c_mul_add_content_length; the product stays when only the sum is
\* too large.
AddHexDigit(d) ==
  LET product == (content_length * HexRadix) % (MaxLength + 1)
  IN CASE content_length > MaxLength \div HexRadix
            -> Fail("INVALID_CHUNK_SIZE") /\ UNCHANGED content_length
       [] content_length <= MaxLength \div HexRadix /\ product > MaxLength - d
            -> Fail("INVALID_CHUNK_SIZE") /\ content_length' = product
       [] OTHER
            -> /\ Advance("chunk_size")
               /\ content_length' = (product + d) % (MaxLength + 1)

ChunkSize ==
  /\ AtByte("chunk_size")
  /\ \/ /\ at = "digit"
        /\ \E d \in 0..(HexRadix - 1) : AddHexDigit(d) /\ owed' = owed * HexRadix + d
     \/ /\ at # "digit" /\ UNCHANGED bodyVars
        /\ CASE at = "CR" -> Advance("chunk_size_almost_done")
             [] at = "SP" -> Advance("chunk_parameters")
             [] OTHER -> Fail("INVALID_CHUNK_SIZE")
  /\ UNCHANGED <<lexVars, last, lineVars, headVars, lifeVars>>

ChunkParameters ==
  /\ AtByte("chunk_parameters")
  /\ Advance(IF at = "CR" THEN "chunk_size_almost_done" ELSE "chunk_parameters")
  /\ Lexing

ChunkSizeAlmostDone ==
  AtByte("chunk_size_almost_done") /\ Advance("on_chunk_header") /\ Lexing

OnChunkHeader ==
  /\ At("on_chunk_header")
  /\ Notify("chunk_header", "is_equal_content_length", "CB_CHUNK_HEADER")
  /\ MessageUnchanged

\* The chunk of size 0 is the last; the trailing fields follow.
IsEqualContentLength ==
  /\ At("is_equal_content_length")
  /\ \/ content_length # 0 /\ Goto("span_start_on_body") /\ UNCHANGED flags
     \/ content_length = 0 /\ Goto("header_field_start") /\ flags' = flags \cup {"TRAILING"}
  /\ UNCHANGED <<lexVars, last, lineVars, header_state, upgrade, bodyVars, lifeVars>>

\* The end of line after the data, two bytes.
ChunkDataAlmostDone ==
  /\ \/ AtByte("chunk_data_almost_done") /\ Advance("chunk_data_almost_done_skip")
     \/ AtByte("chunk_data_almost_done_skip") /\ Advance("on_chunk_complete")
  /\ Lexing

OnChunkComplete ==
  /\ At("on_chunk_complete")
  /\ Notify("chunk_complete", "update_content_length", "CB_CHUNK_COMPLETE")
  /\ MessageUnchanged

OnChunkComplete1 ==
  /\ At("on_chunk_complete_1")
  /\ Notify("chunk_complete", "on_message_complete_2", "CB_CHUNK_COMPLETE")
  /\ MessageUnchanged

-----------------------------------------------------------------------------
(* The end of a message: without a body, with one, and before an upgrade.  *)

OnMessageComplete ==
  /\ At("on_message_complete")
  /\ Notify("message_complete", "after_message_complete", "CB_MESSAGE_COMPLETE")
  /\ MessageUnchanged

\* Mutant: when the callback pauses, it is called again.
OnMessageComplete2Again ==
  /\ At("on_message_complete_2") /\ last' = "message_complete"
  /\ \/ Goto("is_equal_upgrade")
     \/ Return("PAUSED", "on_message_complete_2")
     \/ Fail("CB_MESSAGE_COMPLETE")
  /\ MessageUnchanged

OnMessageComplete2 ==
  /\ At("on_message_complete_2")
  /\ Notify("message_complete", "is_equal_upgrade", "CB_MESSAGE_COMPLETE")
  /\ MessageUnchanged

OnMessageComplete1 ==
  /\ At("on_message_complete_1")
  /\ Notify("message_complete", "pause_1", "CB_MESSAGE_COMPLETE")
  /\ MessageUnchanged

\* Mutant: the upgrade is forgotten after a body.
IsEqualUpgradeNever ==
  At("is_equal_upgrade") /\ Goto("after_message_complete") /\ Lexing

IsEqualUpgrade ==
  /\ At("is_equal_upgrade")
  /\ Goto(IF upgrade THEN "pause_1" ELSE "after_message_complete")
  /\ Lexing

Pause1 ==
  /\ At("pause_1")
  /\ Return("PAUSED_UPGRADE", "after_message_complete")
  /\ Lexing

\* Mutant: finish is not reset.
AfterMessageCompleteUnsafe ==
  /\ At("after_message_complete")
  /\ flags' = {}
  /\ Goto("start")
  /\ UNCHANGED <<lexVars, last, lineVars, header_state, upgrade, bodyVars, lifeVars>>

\* Mutant: back to a node that comes here again.
AfterMessageCompleteLoops ==
  /\ At("after_message_complete")
  /\ flags' = {} /\ finish' = "SAFE"
  /\ Goto("is_equal_upgrade")
  /\ UNCHANGED <<lexVars, last, lineVars, header_state, upgrade, bodyVars, leftover, finished>>

\* llhttp__after_message_complete; what llhttp_should_keep_alive answers is not used.
AfterMessageComplete ==
  /\ At("after_message_complete")
  /\ flags' = {} /\ finish' = "SAFE"
  /\ Goto("start")
  /\ UNCHANGED <<lexVars, last, lineVars, header_state, upgrade, bodyVars, leftover, finished>>

BodyStep ==
  \/ TestFlags \/ BeforeHeadersComplete \/ OnHeadersComplete \/ AfterHeadersComplete
  \/ SpanStartOnBody \/ SpanStartOnBody1 \/ ConsumeContentLength \/ ConsumeContentLength1
  \/ SpanStartOnBody2 \/ Eof
  \/ UpdateContentLength \/ ChunkSize \/ ChunkParameters \/ ChunkSizeAlmostDone
  \/ OnChunkHeader \/ IsEqualContentLength \/ ChunkDataAlmostDone
  \/ OnChunkComplete \/ OnChunkComplete1
  \/ OnMessageComplete \/ OnMessageComplete2 \/ OnMessageComplete1
  \/ IsEqualUpgrade \/ Pause1 \/ AfterMessageComplete
=============================================================================
