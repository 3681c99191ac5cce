----------------------------- MODULE HttpHeaders -----------------------------
(***************************************************************************)
(* The HTTP parser: the nodes of the header fields and of their values.    *)
(* The same nodes read the trailing fields after the last chunk.           *)
(***************************************************************************)
EXTENDS HttpParserState

HeaderFieldStart ==
  /\ AtByte("header_field_start")
  /\ CASE at = "LF" -> Goto("headers_almost_done") /\ Lexing
       [] at = "CR" -> Advance("headers_almost_done") /\ Lexing
       [] OTHER -> /\ SpanStart("header_field", "header_field")
                   /\ UNCHANGED <<index, last, messageVars>>

-----------------------------------------------------------------------------
(* The name of a field.                                                    *)

HeaderUnchanged == UNCHANGED <<lineVars, flags, upgrade, bodyVars, lifeVars>>

\* Connection and Proxy-Connection, Content-Length, Transfer-Encoding and Upgrade
\* are known; header_state tells which one has been read.
HeaderField ==
  /\ AtByte("header_field")
  /\ \/ /\ MatchComplete
        /\ header_state' \in {"connection", "content_length", "transfer_encoding", "upgrade"}
        /\ Advance("header_field_colon")
     \/ MatchMismatch("header_field_general") /\ header_state' = "general"
  /\ HeaderUnchanged /\ Matching

HeaderFieldGeneral ==
  /\ AtByte("header_field_general")
  /\ CASE at \in {"word", "SP"} -> Advance("header_field_general") /\ Lexing
       [] at = "colon" -> /\ SpanEndAdvance("header_value_discard_ws")
                          /\ UNCHANGED <<index, messageVars>>
       [] OTHER -> Fail("INVALID_HEADER_TOKEN") /\ Lexing

HeaderFieldColon ==
  /\ AtByte("header_field_colon")
  /\ CASE at = "SP" -> Advance("header_field_colon") /\ Lexing
       [] at = "colon" -> /\ SpanEndAdvance("header_value_discard_ws")
                          /\ UNCHANGED <<index, messageVars>>
       [] OTHER -> /\ Goto("header_field_general") /\ header_state' = "general"
                   /\ HeaderUnchanged /\ UNCHANGED <<lexVars, last>>

-----------------------------------------------------------------------------
(* Before a value.                                                         *)

HeaderValueDiscardWs ==
  /\ AtByte("header_value_discard_ws")
  /\ CASE at = "SP" -> Advance("header_value_discard_ws") /\ Lexing
       [] at = "LF" -> Advance("header_value_discard_lws") /\ Lexing
       [] at = "CR" -> Advance("header_value_discard_ws_almost_done") /\ Lexing
       [] OTHER -> /\ SpanStart("header_value", "load_header_state_1")
                   /\ UNCHANGED <<index, last, messageVars>>

HeaderValueDiscardWsAlmostDone ==
  /\ AtByte("header_value_discard_ws_almost_done")
  /\ Advance("header_value_discard_lws") /\ Lexing

\* The flag that a value sets when it ends, and what is then left of header_state.
ValueFlag(hs) == CASE hs = "keep_alive" -> {"KEEP_ALIVE"}
                   [] hs = "close" -> {"CLOSE"}
                   [] hs = "conn_upgrade" -> {"CONN_UPGRADE"}
                   [] hs = "chunked" -> {"CHUNKED"}
                   [] OTHER -> {}

ValueEnds == /\ flags' = flags \cup ValueFlag(header_state)
             /\ header_state' = IF header_state \in {"keep_alive", "close", "conn_upgrade"}
                                THEN "connection" ELSE header_state
             /\ UNCHANGED <<lineVars, upgrade, bodyVars, lifeVars>>

\* A line that begins with a space goes on; otherwise the value is empty, and its span
\* begins and ends at p.
HeaderValueDiscardLws ==
  /\ AtByte("header_value_discard_lws")
  /\ \/ at = "SP" /\ Advance("header_value_discard_ws") /\ Lexing
     \/ /\ at # "SP" /\ ValueEnds
        /\ span_pos0' = NULL /\ span_cb0' = "header_value" /\ last' = "header_value"
        /\ \/ Goto("header_field_start")
           \/ \E e \in Answers \ {"OK"} : Return(e, "header_field_start")
        /\ UNCHANGED index

\* What the name of the field asks for.  A second length is refused, and so is one
\* that goes on in another line.
LoadHeaderState1 ==
  /\ At("load_header_state_1")
  /\ CASE header_state = "content_length" /\ "CONTENT_LENGTH" \in flags
            -> Fail("UNEXPECTED_CONTENT_LENGTH") /\ Lexing
       [] header_state = "content_length" /\ "CONTENT_LENGTH" \notin flags
            -> /\ Goto("header_value_content_length") /\ owed' = 0
               /\ UNCHANGED <<lexVars, last, lineVars, headVars, content_length, lifeVars>>
       [] header_state = "upgrade"
            -> /\ Goto("header_value")
               /\ flags' = flags \cup {"UPGRADE"} /\ header_state' = "general"
               /\ UNCHANGED <<lexVars, last, lineVars, upgrade, bodyVars, lifeVars>>
       [] header_state = "connection" -> Goto("header_value_connection") /\ Lexing
       [] header_state = "transfer_encoding" -> Goto("header_value_te_chunked") /\ Lexing
       [] OTHER -> Goto("header_value") /\ Lexing

-----------------------------------------------------------------------------
(* Values.                                                                 *)

\* header_state becomes hs, and nothing else of the message changes.
SetHeaderState(hs) == header_state' = hs /\ HeaderUnchanged

HeaderValue ==
  /\ AtByte("header_value")
  /\ IF at \in LineEnd \cup {"bad"}
     THEN Goto("header_value_otherwise")
     ELSE Advance("header_value")
  /\ Lexing

\* One of the tokens that Connection lists.
HeaderValueConnection ==
  /\ AtByte("header_value_connection")
  /\ \/ /\ at = "SP" /\ index = 0
        /\ Advance("header_value_connection") /\ UNCHANGED <<index, messageVars>>
     \/ /\ MatchComplete /\ Advance("header_value_connection_ws")
        /\ \E hs \in Tokens : SetHeaderState(hs)
     \/ /\ at # "SP" \/ index = 1
        /\ MatchMismatch("header_value_connection_token") /\ UNCHANGED messageVars
  /\ Matching

HeaderValueConnectionToken ==
  /\ AtByte("header_value_connection_token")
  /\ CASE at = "comma" -> Advance("header_value_connection")
       [] at \in {"word", "digit", "SP"} -> Advance("header_value_connection_token")
       [] OTHER -> Goto("header_value_otherwise")
  /\ Lexing

\* A token counts when nothing but spaces follows it, up to the comma.
HeaderValueConnectionWs ==
  /\ AtByte("header_value_connection_ws")
  /\ CASE at \in LineEnd -> Goto("header_value_otherwise") /\ UNCHANGED messageVars
       [] at = "SP" -> Advance("header_value_connection_ws") /\ UNCHANGED messageVars
       [] at = "comma" -> Advance("header_value_connection") /\ ValueEnds
       [] OTHER -> Goto("header_value_connection_token") /\ SetHeaderState("general")
  /\ UNCHANGED <<lexVars, last>>

\* llhttp__internal__c_mul_add_content_length: one more digit; the product stays when
\* only the sum is too large.
MulAddContentLength(radix, d, next, overflow) ==
  LET product == (content_length * radix) % (MaxLength + 1)
  IN /\ owed' = owed * radix + d
     /\ CASE content_length > MaxLength \div radix
               -> overflow /\ UNCHANGED content_length
          [] content_length <= MaxLength \div radix /\ product > MaxLength - d
               -> overflow /\ content_length' = product
          [] OTHER
               -> next /\ content_length' = (product + d) % (MaxLength + 1)

\* The value that is refused is handed over before the error.
SpanEndError(n) == /\ span_pos0' = NULL /\ last' = span_cb0
                   /\ \/ Fail("INVALID_CONTENT_LENGTH")
                      \/ \E e \in Answers \ {"OK"} : Return(e, n)
                   /\ UNCHANGED span_cb0

HeaderValueContentLength ==
  /\ AtByte("header_value_content_length")
  /\ \/ /\ at = "digit"
        /\ \E d \in 0..(DecRadix - 1) :
             MulAddContentLength(DecRadix, d,
               Advance("header_value_content_length") /\ UNCHANGED <<span_pos0, span_cb0, last>>,
               SpanEndError("error_14"))
     \/ /\ at # "digit" /\ Goto("header_value_content_length_ws")
        /\ UNCHANGED <<bodyVars, span_pos0, span_cb0, last>>
  /\ UNCHANGED <<index, lineVars, headVars, lifeVars>>

HeaderValueContentLengthWs ==
  /\ AtByte("header_value_content_length_ws")
  /\ CASE at \in LineEnd
            -> /\ Goto("header_value_discard_rws") /\ flags' = flags \cup {"CONTENT_LENGTH"}
               /\ UNCHANGED <<lexVars, last, lineVars, header_state, upgrade, bodyVars, lifeVars>>
       [] at = "SP" -> Advance("header_value_content_length_ws") /\ Lexing
       [] OTHER -> SpanEndError("error_15") /\ UNCHANGED <<index, messageVars>>

\* Where a callback that pauses leaves a length that is refused.
InvalidContentLength ==
  /\ executing /\ current \in {"error_14", "error_15"}
  /\ Fail("INVALID_CONTENT_LENGTH") /\ Lexing

\* Only a Transfer-Encoding that begins with chunked is known.
HeaderValueTeChunked ==
  /\ AtByte("header_value_te_chunked")
  /\ \/ /\ at \in LineEnd \cup {"SP"} /\ index = 0
        /\ Goto("header_value_discard_rws") /\ UNCHANGED <<index, messageVars>>
     \/ /\ MatchComplete /\ Advance("header_value_discard_rws") /\ SetHeaderState("chunked")
     \/ /\ at \notin LineEnd \cup {"SP"} \/ index = 1
        /\ MatchMismatch("header_value") /\ SetHeaderState("general")
  /\ Matching

HeaderValueDiscardRws ==
  /\ AtByte("header_value_discard_rws")
  /\ CASE at \in LineEnd -> Goto("header_value_otherwise") /\ UNCHANGED messageVars
       [] at = "SP" -> Advance("header_value_discard_rws") /\ UNCHANGED messageVars
       [] OTHER -> Goto("header_value") /\ SetHeaderState("general")
  /\ UNCHANGED <<lexVars, last>>

-----------------------------------------------------------------------------
(* After a value.                                                          *)

HeaderValueOtherwise ==
  /\ AtByte("header_value_otherwise")
  /\ CASE at = "LF" -> SpanEndGoto("header_value_almost_done") /\ UNCHANGED <<index, messageVars>>
       [] at = "CR" -> SpanEndAdvance("header_value_almost_done")
                       /\ UNCHANGED <<index, messageVars>>
       [] OTHER -> Fail("INVALID_HEADER_TOKEN") /\ Lexing

HeaderValueAlmostDone ==
  /\ AtByte("header_value_almost_done")
  /\ IF at = "LF" THEN Advance("header_value_lws") ELSE Fail("LF_EXPECTED")
  /\ Lexing

\* A value that goes on in the next line gets another span.
HeaderValueLws ==
  /\ AtByte("header_value_lws")
  /\ \/ /\ at = "SP"
        /\ SpanStart("header_value", "load_header_state_1")
        /\ UNCHANGED <<index, last, messageVars>>
     \/ /\ at # "SP" /\ ValueEnds
        /\ Goto("header_field_start")
        /\ UNCHANGED <<lexVars, last>>

HeadersAlmostDone ==
  /\ AtByte("headers_almost_done") /\ Advance("test_flags") /\ Lexing

HeadersStep ==
  \/ HeaderFieldStart \/ HeaderField \/ HeaderFieldGeneral \/ HeaderFieldColon
  \/ HeaderValueDiscardWs \/ HeaderValueDiscardWsAlmostDone \/ HeaderValueDiscardLws
  \/ LoadHeaderState1 \/ HeaderValue
  \/ HeaderValueConnection \/ HeaderValueConnectionToken \/ HeaderValueConnectionWs
  \/ HeaderValueContentLength \/ HeaderValueContentLengthWs \/ InvalidContentLength
  \/ HeaderValueTeChunked \/ HeaderValueDiscardRws
  \/ HeaderValueOtherwise \/ HeaderValueAlmostDone \/ HeaderValueLws \/ HeadersAlmostDone
==============================================================================
