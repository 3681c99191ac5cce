--------------------------- MODULE HttpParserState ---------------------------
(***************************************************************************)
(* The HTTP parser (llhttp): its state, and the steps that its automaton   *)
(* is made of.                                                             *)
(*                                                                         *)
(* The automaton is llhttp__internal__run.  Its nodes keep their names,    *)
(* without the prefix of the labels; where the nodes of a keyword follow   *)
(* its letters one by one, one node stands for them.  A byte is known by   *)
(* what the nodes tell apart: HTAB is not told from SP or from text,       *)
(* whichever it acts as, nor ';' after a chunk size from SP.  A number or  *)
(* a keyword is chosen where it is read.                                   *)
(***************************************************************************)
EXTENDS Integers

CONSTANTS
  MaxLength,    \* the largest uint64_t
  DecRadix,     \* of Content-Length, 10
  HexRadix,     \* of a chunk size, 16
  Types,        \* the types that llhttp_init may be called with
  Methods,      \* those of a request, "other" for those that nothing depends on
  StatusCodes,  \* those of a response
  Tokens        \* those of the Connection header that are known

ASSUME HttpAssumption ==
  /\ MaxLength \in Nat
  /\ DecRadix \in Nat \ {0} /\ DecRadix - 1 <= MaxLength
  /\ HexRadix \in Nat \ {0} /\ HexRadix - 1 <= MaxLength
  /\ Types \subseteq {"BOTH", "REQUEST", "RESPONSE"}
  /\ StatusCodes \subseteq Nat
  /\ Tokens \subseteq {"keep_alive", "close", "conn_upgrade"}

VARIABLES
  executing,   \* llhttp_execute runs
  current,     \* the node that it is at, or that it goes on from
  at,          \* the byte under p, End if p = endp
  index,       \* 1 when a part of a keyword has been read (_index, or a node inside it), else 0
  error,
  span_pos0,   \* where the open span begins: NULL, "here" in the buffer, or in one that is "gone"
  span_cb0,    \* its callback
  type, method, status_code,
  flags, header_state, content_length, upgrade, finish,
  last,        \* the last callback (ghost)
  owed,        \* the last length or chunk size that was read, less what on_body has got (ghost)
  leftover,    \* content_length was not 0 when the message began (ghost)
  finished     \* "no", or what llhttp_finish has returned (ghost)

End == "endp"
NULL == "NULL"

lexVars == <<index, span_pos0, span_cb0>>
lineVars == <<type, method, status_code>>
headVars == <<flags, header_state, upgrade>>
bodyVars == <<content_length, owed>>
lifeVars == <<finish, leftover, finished>>
messageVars == <<lineVars, headVars, bodyVars, lifeVars>>
vars == <<executing, current, at, error, last, lexVars, messageVars>>

Pauses == {"PAUSED", "PAUSED_UPGRADE"}

\* The answers of a callback: 0, HPE_PAUSED, and one for any other error.
Answers == {"OK", "PAUSED", "USER"}

Errors == Answers \cup Pauses
          \cup {"CB_MESSAGE_BEGIN", "CB_HEADERS_COMPLETE", "CB_CHUNK_HEADER",
                "CB_CHUNK_COMPLETE", "CB_MESSAGE_COMPLETE", "INVALID_METHOD", "INVALID_URL",
                "INVALID_CONSTANT", "INVALID_VERSION", "INVALID_STATUS",
                "INVALID_HEADER_TOKEN", "INVALID_CONTENT_LENGTH", "INVALID_CHUNK_SIZE",
                "UNEXPECTED_CONTENT_LENGTH", "LF_EXPECTED"}

HeaderStates == {"general", "connection", "content_length", "transfer_encoding",
                 "upgrade", "keep_alive", "close", "conn_upgrade", "chunked"}

Flags == {"KEEP_ALIVE", "CLOSE", "CONN_UPGRADE", "CHUNKED", "UPGRADE",
          "CONTENT_LENGTH", "SKIPBODY", "TRAILING"}

-----------------------------------------------------------------------------
(* The nodes, and the bytes that they, and those they hand a byte on to,   *)
(* tell apart.                                                             *)

MatchNodes == {"req_or_res_method", "start_req", "start_res", "url_skip_lf_to_http09",
               "req_http_start", "header_field", "header_value_connection",
               "header_value_te_chunked"}

UrlNodes == {"req_spaces_before_url", "url_start", "url_schema", "url_schema_delim",
             "url_server", "url_server_with_at", "url_path", "url_query_or_fragment",
             "url_query", "url_fragment"}

VersionNodes == {"req_http_major", "req_http_dot", "req_http_minor",
                 "res_http_major", "res_http_dot", "res_http_minor"}

FieldNodes == {"header_field_start", "header_field", "header_field_general",
               "header_field_colon", "header_value_discard_lws", "header_value_lws"}

ValueNodes == {"header_value_discard_ws", "header_value", "header_value_otherwise",
               "header_value_connection", "header_value_connection_token",
               "header_value_connection_ws", "header_value_content_length",
               "header_value_content_length_ws", "header_value_te_chunked",
               "header_value_discard_rws", "header_value_almost_done"}

SizeNodes == {"chunk_size", "chunk_parameters", "test_flags", "after_headers_complete",
              "update_content_length", "on_chunk_complete", "on_chunk_complete_1",
              "span_start_on_body_1", "span_start_on_body_2"}

BodyNodes == {"span_start_on_body", "consume_content_length", "span_start_on_body_1",
              "consume_content_length_1", "span_start_on_body_2", "eof"}

\* Those that drop a byte whatever it is.
SkipNodes == {"url_skip_to_http", "url_skip_to_http09", "res_line_almost_done",
              "header_value_discard_ws_almost_done", "headers_almost_done",
              "chunk_data_almost_done", "chunk_data_almost_done_skip",
              "chunk_size_almost_done"}

LineEnd == {"CR", "LF"}

Bytes(n) ==
  CASE n \in UrlNodes -> LineEnd \cup {"SP", "slash", "alpha", "digit", "at", "qmark", "hash",
                                       "colon", "bad"}
    [] n \in VersionNodes -> {"digit", "dot", "bad"}
    [] n \in FieldNodes \cup {"on_chunk_header", "is_equal_content_length"}
         -> LineEnd \cup {"SP", "colon", "word", "bad"}
    [] n \in ValueNodes -> LineEnd \cup {"SP", "comma", "word", "digit", "bad"}
    [] n \in SizeNodes \cup {"res_status_code"} -> LineEnd \cup {"SP", "digit", "bad"}
    [] n \in SkipNodes \cup BodyNodes -> {"word"}
    [] OTHER -> LineEnd \cup {"SP", "word"}

\* The nodes that return when p = endp; the others do not look at *p.
Consuming == UrlNodes \cup VersionNodes \cup FieldNodes \cup ValueNodes \cup MatchNodes
             \cup SkipNodes \cup BodyNodes
             \cup {"start", "start_req_or_res", "req_first_space_before_url", "req_http_end",
                   "req_http_end_1", "res_http_end", "res_status_code", "res_status_start",
                   "res_status", "chunk_size", "chunk_parameters"}

Nodes == Consuming
         \cup {"on_message_begin", "load_type", "load_header_state_1", "error_14", "error_15",
               "test_flags", "before_headers_complete", "on_headers_complete",
               "after_headers_complete", "update_content_length", "on_chunk_header",
               "is_equal_content_length", "on_chunk_complete", "on_chunk_complete_1",
               "on_message_complete", "on_message_complete_1", "on_message_complete_2",
               "is_equal_upgrade", "pause_1", "after_message_complete", "s_error"}

Alphabet == LineEnd \cup {"SP", "slash", "alpha", "digit", "at", "qmark", "hash", "colon",
                          "dot", "word", "comma", "bad"}

-----------------------------------------------------------------------------
(* Steps.                                                                  *)

\* At node n, and *p may be read.
At(n) == executing /\ current = n
AtByte(n) == At(n) /\ at # End

\* p++, and on to node n; goto n with p where it is; p to somewhere in the
\* buffer and on to n when it comes from a keyword.
Advance(n) == /\ current' = n /\ at' \in Bytes(n) \cup {End}
              /\ UNCHANGED <<executing, error>>
Goto(n) == current' = n /\ UNCHANGED <<executing, at, error>>

\* The run returns with error e; it would go on from n.
Return(e, n) == executing' = FALSE /\ at' = End /\ error' = e /\ current' = n

Fail(e) == Return(e, "s_error")

\* A callback without data is called; it answers 0 to go on to node n, HPE_PAUSED to
\* do so later, and else the error is e.
Notify(cb, n, e) == /\ last' = cb
                    /\ Goto(n) \/ Return("PAUSED", n) \/ Fail(e)

\* A span begins at p.
SpanStart(cb, n) == AtByte(current) /\ span_pos0' = "here" /\ span_cb0' = cb /\ Goto(n)

\* The span is handed to its callback; then on to n by Advance or by Goto, or later.
SpanEnd(step, n) == /\ span_pos0' = NULL /\ last' = span_cb0
                    /\ \/ step
                       \/ \E e \in Answers \ {"OK"} : Return(e, n)
                    /\ UNCHANGED span_cb0
SpanEndAdvance(n) == SpanEnd(Advance(n), n)
SpanEndGoto(n) == SpanEnd(Goto(n), n)

\* llparse__match_sequence_id, when the keyword is complete, and when it does not match:
\* then p is at the byte that differs.
MatchByte == CASE current # "url_skip_lf_to_http09" -> "word"
               [] index = 0 -> "CR"
               [] OTHER -> "LF"
MatchComplete == at = MatchByte /\ index' = 0
\* Mutant: the count of the keyword stays.
MatchMismatchKeepsIndex(n) == (Goto(n) \/ (at = MatchByte /\ Advance(n))) /\ index' = index

MatchMismatch(n) == index' = 0 /\ (Goto(n) \/ (at = MatchByte /\ Advance(n)))

\* What stays as it is when only p moves, and when a keyword has been read.
Lexing == UNCHANGED <<lexVars, last, messageVars>>
Matching == UNCHANGED <<span_pos0, span_cb0, last>>

\* llparse__match_sequence_id: the buffer ends inside a keyword.
MatchPause == /\ executing /\ current \in MatchNodes /\ at = MatchByte
              /\ index = 0 \/ current # "url_skip_lf_to_http09"
              /\ at' = End /\ index' = 1
              /\ UNCHANGED <<executing, current, error, span_pos0, span_cb0, last, messageVars>>
==============================================================================
