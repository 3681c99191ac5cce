-------------------------- MODULE HttpParserProofs --------------------------
(***************************************************************************)
(* The inductive invariant of HttpParser, and what follows from it: for    *)
(* lengths of any width, any radix, and any sets of methods, codes and     *)
(* tokens.  The invariant holds at the beginning; the start line keeps it, *)
(* and then the header fields, the body and the calls.                     *)
(***************************************************************************)
EXTENDS HttpParser, TLAPS

-----------------------------------------------------------------------------
(* Nodes.                                                                  *)

\* Those in which a span is open, by its callback.
UrlSpan == UrlNodes \ {"req_spaces_before_url"}
FieldSpan == {"header_field", "header_field_general", "header_field_colon"}
ValueSpan == (ValueNodes \ {"header_value_discard_ws", "header_value_almost_done"})
             \cup {"load_header_state_1"}
BodySpan == {"consume_content_length", "consume_content_length_1", "eof"}

\* A start line before its URL or its status text, and behind the URL.
LineNodes == {"load_type", "start_req_or_res", "req_or_res_method", "start_req", "start_res",
              "req_first_space_before_url", "req_spaces_before_url",
              "res_http_major", "res_http_dot", "res_http_minor", "res_http_end",
              "res_status_code", "res_status_start"}
VersionLine == {"url_skip_to_http", "url_skip_to_http09", "url_skip_lf_to_http09",
                "req_http_start", "req_http_major", "req_http_dot", "req_http_minor",
                "req_http_end", "req_http_end_1"}

\* Those that the nodes of a start line lead to.
StartLineNodes == LineNodes \cup UrlSpan \cup VersionLine
                  \cup {"start", "on_message_begin", "res_status", "res_line_almost_done",
                        "header_field_start", "s_error"}

\* Between two fields, and around a value.
FieldsNodes == {"header_field_start", "headers_almost_done", "test_flags"}
BeforeValue == {"header_value_discard_ws", "header_value_discard_ws_almost_done",
                "header_value_discard_lws"}
BehindValue == {"header_value_almost_done", "header_value_lws"}
RefusedNodes == {"error_14", "error_15"}

\* Those that the nodes of the header fields lead to.
HeaderNodes == FieldsNodes \cup FieldSpan \cup ValueSpan \cup BeforeValue \cup BehindValue
               \cup RefusedNodes \cup {"s_error"}

\* The end of a head, what chunks go through, and the end of a message.
EndOfHead == {"before_headers_complete", "on_headers_complete", "after_headers_complete"}
ChunkNodes == ChunkSizeNodes \cup ChunkDataNodes \cup ChunkEndNodes
              \cup {"update_content_length", "is_equal_content_length"}
CompleteNodes == {"on_message_complete_2", "is_equal_upgrade", "pause_1",
                  "after_message_complete"}

\* Where the length of a message is read.
ReadingNodes == {"header_value_content_length", "header_value_content_length_ws"}

\* The nodes that are not in the head of a message.
BehindHead == ChunkNodes \cup LengthNodes \cup CompleteNodes
              \cup {"start", "s_error", "span_start_on_body_2", "eof", "on_chunk_complete_1",
                    "on_message_complete", "on_message_complete_1"}

\* Those that may be gone through between the last chunk and the end of its message.
TrailingNodes == FieldsNodes \cup FieldSpan \cup ValueSpan \cup BeforeValue \cup BehindValue
                 \cup RefusedNodes \cup CompleteNodes \cup {"on_chunk_complete_1"}

-----------------------------------------------------------------------------
(* The inductive invariant.                                                *)

NodeType == current \in Nodes /\ at \in Alphabet \cup {End} /\ error \in Errors

LexType ==
  /\ executing \in BOOLEAN /\ index \in {0, 1}
  /\ span_pos0 \in {NULL, "here", "gone"}
  /\ span_cb0 \in {NULL, "url", "status", "header_field", "header_value", "body"}

LineType ==
  /\ type \in {"BOTH", "REQUEST", "RESPONSE"} /\ method \in Methods \cup {"other"}
  /\ status_code \in StatusCodes \cup {0}
HeadType == flags \subseteq Flags /\ header_state \in HeaderStates /\ upgrade \in BOOLEAN
BodyType == content_length \in 0..MaxLength /\ owed \in Int
LifeType ==
  /\ finish \in {"SAFE", "SAFE_WITH_CB", "UNSAFE"} /\ leftover \in BOOLEAN
  /\ finished \in Answers \cup {"no", "INVALID_EOF_STATE"}
MessageType == LineType /\ HeadType /\ BodyType /\ LifeType

\* Only a parser without error runs, and none does after llhttp_finish.
ControlInv == executing => error = "OK" /\ finished = "no"

\* The open span is that of the node.
SpanInv ==
  /\ current \in UrlSpan => span_cb0 = "url"
  /\ current = "res_status" => span_cb0 = "status"
  /\ current \in FieldSpan => span_cb0 = "header_field"
  /\ current \in ValueSpan => span_cb0 = "header_value"
  /\ current \in BodySpan => span_cb0 = "body"
  /\ ~Failed /\ span_pos0 # NULL =>
       current \in UrlSpan \cup {"res_status"} \cup FieldSpan \cup ValueSpan \cup BodySpan

LexInv == LexType /\ NothingStale /\ ControlInv /\ SpanInv

\* What llhttp_finish goes by, during a call too.
FinishInv ==
  ~Failed => /\ finish = "SAFE" <=> current = "start"
             /\ finish = "SAFE_WITH_CB" <=> current = "eof"

\* What the flags say where a body is read, and from the last chunk on.
FrameInv ==
  /\ current \in EndOfHead => ~({"CHUNKED", "CONTENT_LENGTH"} \subseteq flags)
  /\ current \in ChunkNodes => "CHUNKED" \in flags
                              /\ flags \cap {"CONTENT_LENGTH", "SKIPBODY"} = {}
  /\ current \in LengthNodes => "CONTENT_LENGTH" \in flags
                               /\ flags \cap {"CHUNKED", "SKIPBODY"} = {}
  /\ current \in {"span_start_on_body_2", "eof"} =>
       flags \cap {"CHUNKED", "CONTENT_LENGTH", "SKIPBODY"} = {}
  /\ ~Failed /\ "TRAILING" \in flags => current \in TrailingNodes /\ "CHUNKED" \in flags
  /\ current = "on_chunk_complete_1" => "TRAILING" \in flags

\* The length that the head has given so far.
HeadInv ==
  ~leftover /\ ~Failed /\ "TRAILING" \notin flags /\ current \notin BehindHead \cup RefusedNodes =>
    IF "CONTENT_LENGTH" \in flags \/ current \in ReadingNodes
    THEN content_length = owed
    ELSE content_length = 0

\* BodyIsExact, with the end of a chunk, and what rules out a forgotten upgrade.
BodyInv ==
  ~Failed =>
    /\ current \in ChunkSizeNodes \cup ChunkDataNodes \cup {"is_equal_content_length"} =>
         content_length = owed
    /\ current \in ChunkEndNodes => owed = 0
    /\ ~leftover =>
         /\ current \in LengthNodes => content_length = owed
         /\ current = "on_message_complete_2" /\ "CHUNKED" \notin flags => owed = 0
         /\ current = "on_message_complete" => ~upgrade

\* The callbacks that may have come last.
Going == ~Failed /\ finished = "no"

LineOrder ==
  Going =>
    /\ current \in LineNodes => last = "message_begin"
    /\ current \in UrlSpan => last \in {"message_begin", "url"}
    /\ current \in VersionLine => last = "url"
    /\ current \in {"res_status", "res_line_almost_done"} => last \in {"message_begin", "status"}

FieldOrder ==
  Going =>
    /\ current \in FieldsNodes => last \notin {"none", "header_field"}
    /\ current \in FieldSpan => last # "none"
    /\ current \in BeforeValue => last = "header_field"
    /\ current \in ValueSpan => last \in {"header_field", "header_value"}
    /\ current \in BehindValue => last = "header_value"
    /\ current \in FieldsNodes \cup FieldSpan /\ "TRAILING" \in flags =>
         last \in {"chunk_header", "header_field", "header_value"}
    /\ current \in {"before_headers_complete", "on_headers_complete", "on_chunk_complete_1"} =>
         last # "header_field"

BodyOrder ==
  Going =>
    /\ current = "after_headers_complete" => last = "headers_complete"
    /\ current \in ChunkSizeNodes \cup {"update_content_length"} =>
         last \in {"headers_complete", "chunk_complete"}
    /\ current = "is_equal_content_length" => last = "chunk_header"
    /\ current \in ChunkDataNodes => last \in {"chunk_header", "body"}
    /\ current \in ChunkEndNodes => last = "body"
    /\ current \in LengthNodes \cup {"span_start_on_body_2", "eof"} =>
         last \in {"headers_complete", "body"}

OrderInv == LineOrder /\ FieldOrder /\ BodyOrder

IInv == /\ NodeType /\ LexInv /\ MessageType /\ FinishInv /\ FrameInv
        /\ HeadInv /\ BodyInv /\ OrderInv

-----------------------------------------------------------------------------
(* How the nodes of a start line, and those of the fields, lead on.        *)

StartLineMove ==
  /\ executing /\ current \in StartLineNodes \ {"header_field_start", "s_error"}
  /\ current' \in StartLineNodes
  /\ current' \in {"start", "on_message_begin"} => current = "start"
  /\ current = "start" => last' = last /\ current' \in {"start", "on_message_begin"}
  /\ current = "on_message_begin" =>
       last' = "message_begin" /\ (current' = "load_type" \/ Failed')
  /\ finished' = finished /\ flags' = flags /\ (current' = "s_error" => Failed')
  /\ \/ last' = last
     \/ current = "on_message_begin"
     \/ last' = "url" /\ current \in UrlSpan
     \/ last' = "status" /\ current = "res_status"

HeadersMove ==
  /\ executing /\ current \in HeaderNodes \ {"test_flags", "s_error"}
  /\ current' \in HeaderNodes /\ (current' = "s_error" => Failed')
  /\ finished' = finished /\ ("TRAILING" \in flags' <=> "TRAILING" \in flags)
  /\ \/ last' = last
     \/ last' = "header_field" /\ current \in FieldSpan
     \/ last' = "header_value" /\ current \in ValueSpan \cup {"header_value_discard_lws"}

CallStep == Execute \/ MatchPause \/ EndOfBuffer \/ Pause \/ Resume \/ Finish \/ Stopped

-----------------------------------------------------------------------------
(* Steps that leave the message, and more, as it is.                       *)

\* What a step that only reads leaves as it is.
LEMMA LexingKeeps ==
  Lexing => /\ index' = index /\ span_pos0' = span_pos0 /\ span_cb0' = span_cb0 /\ last' = last
            /\ type' = type /\ method' = method /\ status_code' = status_code
            /\ flags' = flags /\ header_state' = header_state /\ upgrade' = upgrade
            /\ content_length' = content_length /\ owed' = owed
            /\ finish' = finish /\ leftover' = leftover /\ finished' = finished
  BY DEF Lexing, lexVars, lineVars, headVars, bodyVars, lifeVars, messageVars

\* What a call that concerns no message leaves as it is.
LEMMA MessageKeeps ==
  UNCHANGED messageVars =>
    /\ type' = type /\ method' = method /\ status_code' = status_code
    /\ flags' = flags /\ header_state' = header_state /\ upgrade' = upgrade
    /\ content_length' = content_length /\ owed' = owed
    /\ finish' = finish /\ leftover' = leftover /\ finished' = finished
  BY DEF lineVars, headVars, bodyVars, lifeVars, messageVars

\* A part of the message that does not change keeps its type.
LEMMA TypesKept ==
  /\ UNCHANGED lineVars /\ LineType => LineType'
  /\ UNCHANGED headVars /\ HeadType => HeadType'
  /\ UNCHANGED bodyVars /\ BodyType => BodyType'
  /\ UNCHANGED lifeVars /\ LifeType => LifeType'
<1>1. UNCHANGED lineVars /\ LineType => LineType'
  BY DEF lineVars, LineType
<1>2. UNCHANGED headVars /\ HeadType => HeadType'
  BY DEF headVars, HeadType
<1>3. UNCHANGED bodyVars /\ BodyType => BodyType'
  BY DEF bodyVars, BodyType
<1>4. UNCHANGED lifeVars /\ LifeType => LifeType'
  BY DEF lifeVars, LifeType
<1> QED
  BY <1>1, <1>2, <1>3, <1>4

\* Nor does a message that does not change lose its type.
LEMMA MessageTypeKept == UNCHANGED messageVars /\ MessageType => MessageType'
  BY TypesKept DEF messageVars, MessageType

\* A stuttering step, variable by variable.
LEMMA VarsKept ==
  UNCHANGED vars =>
    /\ executing' = executing /\ current' = current /\ at' = at /\ error' = error
    /\ index' = index /\ span_pos0' = span_pos0 /\ span_cb0' = span_cb0 /\ last' = last
    /\ type' = type /\ method' = method /\ status_code' = status_code
    /\ flags' = flags /\ header_state' = header_state /\ upgrade' = upgrade
    /\ content_length' = content_length /\ owed' = owed
    /\ finish' = finish /\ leftover' = leftover /\ finished' = finished
  BY DEF vars, lexVars, lineVars, headVars, bodyVars, lifeVars, messageVars

-----------------------------------------------------------------------------
(* What the steps come to that set a flag or read a digit.                 *)

\* A value that ends can only add the flags of Connection, or CHUNKED.
LEMMA ValueEndsFlags ==
  ValueEnds =>
    /\ "TRAILING" \in flags' <=> "TRAILING" \in flags
    /\ "CONTENT_LENGTH" \in flags' <=> "CONTENT_LENGTH" \in flags
    /\ "CHUNKED" \in flags => "CHUNKED" \in flags'
    /\ upgrade' = upgrade /\ content_length' = content_length /\ owed' = owed
    /\ finish' = finish /\ leftover' = leftover /\ finished' = finished
  BY DEF ValueEnds, ValueFlag, bodyVars, lifeVars

\* A length that passes the first test does not wrap when it is multiplied, and one that
\* passes the second does not when the digit is added.
LEMMA NoWrap ==
  ASSUME NEW c \in 0..MaxLength, NEW r \in Nat \ {0}, c <= MaxLength \div r
  PROVE  /\ c * r \in 0..MaxLength
         /\ (c * r) % (MaxLength + 1) = c * r
         /\ \A d \in Nat : c * r <= MaxLength - d =>
              /\ c * r + d \in 0..MaxLength
              /\ (c * r + d) % (MaxLength + 1) = c * r + d
<1>1. MaxLength \in Nat
  BY HttpAssumption
<1>2. /\ MaxLength \div r \in Nat /\ r * (MaxLength \div r) <= MaxLength
  BY <1>1, Z3
<1>3. c * r <= (MaxLength \div r) * r
  BY <1>1, <1>2, Z3
<1>4. c * r \in 0..MaxLength
  BY <1>1, <1>2, <1>3, Z3
<1>5. \A n \in 0..MaxLength : n % (MaxLength + 1) = n
  BY <1>1, Z3
<1> QED
  BY <1>1, <1>4, <1>5

\* A digit of Content-Length is added without a wrap, or the length is refused.
LEMMA ReadDigit ==
  ASSUME BodyType, HeaderValueContentLength
  PROVE  /\ AtByte("header_value_content_length")
         /\ UNCHANGED <<index, lineVars, headVars, lifeVars>>
         /\ \/ /\ Goto("header_value_content_length_ws")
               /\ UNCHANGED <<content_length, owed, span_pos0, span_cb0, last>>
            \/ /\ Advance("header_value_content_length")
               /\ UNCHANGED <<span_pos0, span_cb0, last>>
               /\ content_length' \in 0..MaxLength /\ owed' \in Int
               /\ content_length = owed => content_length' = owed'
            \/ /\ SpanEndError("error_14")
               /\ content_length' \in 0..MaxLength /\ owed' \in Int
<1>1. CASE at # "digit"
  BY <1>1 DEF HeaderValueContentLength, bodyVars, BodyType
<1>2. CASE at = "digit"
  <2>1. PICK d \in 0..(DecRadix - 1) :
          MulAddContentLength(DecRadix, d,
            Advance("header_value_content_length") /\ UNCHANGED <<span_pos0, span_cb0, last>>,
            SpanEndError("error_14"))
    BY <1>2 DEF HeaderValueContentLength
  <2>2. /\ MaxLength \in Nat /\ DecRadix \in Nat \ {0} /\ d \in Nat
        /\ content_length \in 0..MaxLength /\ owed \in Int
    BY HttpAssumption DEF BodyType
  <2>3. owed' = owed * DecRadix + d /\ owed' \in Int
    BY <2>1, <2>2 DEF MulAddContentLength
  <2>4. CASE content_length > MaxLength \div DecRadix
    BY <2>1, <2>2, <2>3, <2>4 DEF HeaderValueContentLength, MulAddContentLength
  <2>5. CASE content_length <= MaxLength \div DecRadix
    <3>1. /\ content_length * DecRadix \in 0..MaxLength
          /\ (content_length * DecRadix) % (MaxLength + 1) = content_length * DecRadix
          /\ content_length * DecRadix <= MaxLength - d =>
               /\ content_length * DecRadix + d \in 0..MaxLength
               /\ (content_length * DecRadix + d) % (MaxLength + 1)
                    = content_length * DecRadix + d
      BY <2>2, <2>5, NoWrap
    <3> QED
      BY <2>1, <2>2, <2>3, <2>5, <3>1 DEF HeaderValueContentLength, MulAddContentLength
  <2> QED
    BY <2>2, <2>4, <2>5
<1> QED
  BY <1>1, <1>2

\* So is a digit of a chunk size.
LEMMA ReadHexDigit ==
  ASSUME BodyType, ChunkSize
  PROVE  /\ AtByte("chunk_size")
         /\ UNCHANGED <<lexVars, last, lineVars, headVars, lifeVars>>
         /\ \/ /\ Advance("chunk_size_almost_done") \/ Advance("chunk_parameters")
               /\ UNCHANGED <<content_length, owed>>
            \/ /\ Advance("chunk_size")
               /\ content_length' \in 0..MaxLength /\ owed' \in Int
               /\ content_length = owed => content_length' = owed'
            \/ /\ Fail("INVALID_CHUNK_SIZE")
               /\ content_length' \in 0..MaxLength /\ owed' \in Int
<1>1. CASE at # "digit"
  BY <1>1 DEF ChunkSize, bodyVars, BodyType
<1>2. CASE at = "digit"
  <2>1. PICK d \in 0..(HexRadix - 1) : AddHexDigit(d) /\ owed' = owed * HexRadix + d
    BY <1>2 DEF ChunkSize
  <2>2. /\ MaxLength \in Nat /\ HexRadix \in Nat \ {0} /\ d \in Nat
        /\ content_length \in 0..MaxLength /\ owed \in Int
    BY HttpAssumption DEF BodyType
  <2>3. owed' \in Int
    BY <2>1, <2>2
  <2>4. CASE content_length > MaxLength \div HexRadix
    BY <2>1, <2>2, <2>3, <2>4 DEF ChunkSize, AddHexDigit
  <2>5. CASE content_length <= MaxLength \div HexRadix
    <3>1. /\ content_length * HexRadix \in 0..MaxLength
          /\ (content_length * HexRadix) % (MaxLength + 1) = content_length * HexRadix
          /\ content_length * HexRadix <= MaxLength - d =>
               /\ content_length * HexRadix + d \in 0..MaxLength
               /\ (content_length * HexRadix + d) % (MaxLength + 1)
                    = content_length * HexRadix + d
      BY <2>2, <2>5, NoWrap
    <3> QED
      BY <2>1, <2>2, <2>3, <2>5, <3>1 DEF ChunkSize, AddHexDigit
  <2> QED
    BY <2>2, <2>4, <2>5
<1> QED
  BY <1>1, <1>2

\* Where the state of the header leads, and what it sets.
LEMMA LoadStep ==
  LoadHeaderState1 =>
    /\ At("load_header_state_1")
    /\ \/ Fail("UNEXPECTED_CONTENT_LENGTH") /\ Lexing
       \/ /\ "CONTENT_LENGTH" \notin flags /\ owed' = 0 /\ Goto("header_value_content_length")
          /\ UNCHANGED <<lexVars, last, lineVars, headVars, content_length, lifeVars>>
       \/ /\ flags' = flags \cup {"UPGRADE"} /\ header_state' = "general" /\ Goto("header_value")
          /\ UNCHANGED <<lexVars, last, lineVars, upgrade, bodyVars, lifeVars>>
       \/ /\ \E n \in {"header_value", "header_value_connection", "header_value_te_chunked"} : Goto(n)
          /\ Lexing
  BY DEF LoadHeaderState1

\* What is handed over, a part or all of it, is no longer due.
LEMMA ConsumeLength ==
  ASSUME BodyType, NEW next, ConsumeAll(next) \/ ConsumePart
  PROVE  /\ UNCHANGED <<lineVars, headVars, lifeVars>>
         /\ content_length' \in 0..MaxLength /\ owed' \in Int
         /\ content_length = owed => content_length' = owed'
         /\ error' \in Answers \cup {error}
         /\ \/ current' = current
            \/ current' = next /\ content_length' = 0
<1>1. content_length \in 0..MaxLength /\ owed \in Int /\ MaxLength \in Nat
  BY HttpAssumption DEF BodyType
<1>2. CASE ConsumeAll(next)
  <2>1. UNCHANGED <<lineVars, headVars, lifeVars>> /\ content_length' = 0 /\ owed' = owed - content_length
    BY <1>2 DEF ConsumeAll
  <2>2. error' \in Answers \cup {error} /\ current' = next
    BY <1>2 DEF ConsumeAll, SpanEndAdvance, SpanEnd, Advance, Return
  <2> QED
    BY <1>1, <2>1, <2>2
<1>3. CASE ConsumePart
  <2>1. PICK avail \in 1..(content_length - 1) :
          content_length' = content_length - avail /\ owed' = owed - avail
    BY <1>3 DEF ConsumePart
  <2>2. /\ content_length' \in 0..MaxLength /\ owed' \in Int
        /\ content_length = owed => content_length' = owed'
    BY <1>1, <2>1
  <2>3. UNCHANGED <<lineVars, headVars, lifeVars>>
    BY <1>3 DEF ConsumePart
  <2>4. error' \in Answers \cup {error} /\ current' = current
    BY <1>3 DEF ConsumePart, Return
  <2> QED
    BY <2>2, <2>3, <2>4
<1> QED
  BY <1>2, <1>3

\* Inside the URL.
LEMMA UrlStepOrder ==
  ASSUME IInv, executing, current \in UrlSpan, last' = last, current' \in UrlSpan \/ Failed'
  PROVE  LineOrder' /\ FieldOrder'
<1>1. CASE Failed'
  BY <1>1 DEF LineOrder, FieldOrder, Going
<1>2. CASE current' \in UrlSpan
  <2>1. ~Failed /\ finished = "no"
    BY DEF IInv, LexInv, ControlInv, Failed, Pauses
  <2>2. last' \in {"message_begin", "url"}
    BY <2>1 DEF IInv, OrderInv, LineOrder, Going
  <2> QED
    BY <1>2, <2>2
       DEF LineOrder, FieldOrder, LineNodes, UrlSpan, UrlNodes, VersionLine, FieldsNodes,
           FieldSpan, BeforeValue, ValueSpan, ValueNodes, BehindValue
<1> QED
  BY <1>1, <1>2

\* Behind the URL.
LEMMA UrlEndOrder ==
  ASSUME IInv, executing, current \in UrlSpan, UrlEnd
  PROVE  LineOrder' /\ FieldOrder'
<1>1. last' = "url"
  BY DEF IInv, LexInv, SpanInv, UrlEnd, SpanEndGoto, SpanEnd
<1>2. current' \in {"url_skip_to_http", "url_skip_to_http09", "url_skip_lf_to_http09"}
  BY DEF UrlEnd, UrlGap, LineEnd, SpanEndGoto, SpanEnd, Goto, Return
<1>3. LineOrder'
  BY <1>1, <1>2 DEF LineOrder, LineNodes, UrlSpan, UrlNodes
<1>4. FieldOrder'
  BY <1>2
     DEF FieldOrder, FieldsNodes, FieldSpan, BeforeValue, ValueSpan, ValueNodes,
         BehindValue
<1> QED
  BY <1>3, <1>4

\* Whatever the node, what it reads is a byte.
LEMMA BytesType == \A n : Bytes(n) \subseteq Alphabet
  BY DEF Bytes, Alphabet, LineEnd

\* A step to a node goes to a node, and an error is one of llhttp_errno.
LEMMA StepNodes ==
  ASSUME NodeType
  PROVE  /\ \A n \in Nodes : Advance(n) => NodeType'
         /\ \A n \in Nodes : Goto(n) => NodeType'
         /\ \A n \in Nodes, e \in Errors : Return(e, n) => NodeType'
<1>1. \A n \in Nodes : Advance(n) => NodeType'
  BY BytesType DEF NodeType, Advance
<1>2. \A n \in Nodes : Goto(n) => NodeType'
  BY DEF NodeType, Goto
<1>3. \A n \in Nodes, e \in Errors : Return(e, n) => NodeType'
  BY DEF NodeType, Return
<1> QED
  BY <1>1, <1>2, <1>3

-----------------------------------------------------------------------------
(* The invariant holds at the beginning.                                   *)

\* The initial states satisfy it.
LEMMA InitIInv == Init => IInv
<1> SUFFICES ASSUME Init PROVE IInv
  OBVIOUS
<1>1. NodeType
  BY DEF Init, NodeType, Nodes, Consuming, Errors, Answers
<1>2. MessageType
  <2>1. LineType
    BY HttpAssumption DEF Init, LineType
  <2>2. HeadType
    BY DEF Init, HeadType, HeaderStates
  <2>3. BodyType
    BY HttpAssumption DEF Init, BodyType
  <2>4. LifeType
    BY DEF Init, LifeType
  <2> QED
    BY <2>1, <2>2, <2>3, <2>4 DEF MessageType
<1>3. LexInv /\ FinishInv
  BY DEF Init, LexInv, LexType, NothingStale, ControlInv, SpanInv, FinishInv, NULL,
         UrlSpan, FieldSpan, ValueSpan, BodySpan, UrlNodes, ValueNodes
<1>4. FrameInv /\ HeadInv /\ BodyInv
  BY DEF Init, FrameInv, HeadInv, BodyInv, EndOfHead, ChunkNodes, ChunkSizeNodes,
         ChunkDataNodes, ChunkEndNodes, LengthNodes, BehindHead
<1>5. OrderInv
  BY DEF Init, OrderInv, LineOrder, FieldOrder, BodyOrder, LineNodes, UrlSpan, UrlNodes,
         VersionLine, FieldsNodes, FieldSpan, BeforeValue, ValueSpan, ValueNodes,
         BehindValue, ChunkSizeNodes, ChunkDataNodes, ChunkEndNodes, LengthNodes
<1> QED
  BY <1>1, <1>2, <1>3, <1>4, <1>5 DEF IInv

-----------------------------------------------------------------------------
(* The nodes of the start line.                                            *)

\* The nodes of the start line lead to a node, with one of the errors.
LEMMA StartLineKeepsNodes == IInv /\ StartLineStep => NodeType'
<1> SUFFICES ASSUME IInv, StartLineStep PROVE NodeType'
  OBVIOUS
<1> USE StepNodes
    DEF IInv, At, AtByte, Fail, Notify, SpanStart, SpanEnd, SpanEndAdvance, SpanEndGoto,
        MatchComplete, Matching, UrlEnd, UrlServer, HttpVersion, Failed, Pauses, Answers,
        NULL, End, LineEnd, UrlGap, Nodes, Consuming, Errors, UrlNodes, VersionNodes,
        FieldNodes, ValueNodes, MatchNodes, SkipNodes, BodyNodes, SizeNodes
<1>1. CASE Start
  BY <1>1 DEF Start
<1>2. CASE OnMessageBegin
  BY <1>2 DEF OnMessageBegin
<1>3. CASE LoadType
  BY <1>3 DEF LoadType
<1>4. CASE StartReqOrRes
  BY <1>4 DEF StartReqOrRes
<1>5. CASE ReqOrResMethod
  BY <1>5 DEF ReqOrResMethod
<1>6. CASE StartReq
  BY <1>6 DEF StartReq
<1>7. CASE StartRes
  BY <1>7 DEF StartRes
<1>8. CASE ReqFirstSpaceBeforeUrl
  BY <1>8 DEF ReqFirstSpaceBeforeUrl
<1>9. CASE ReqSpacesBeforeUrl
  BY <1>9 DEF ReqSpacesBeforeUrl
<1>10. CASE UrlStart
  BY <1>10 DEF UrlStart
<1>11. CASE UrlSchema
  BY <1>11 DEF UrlSchema
<1>12. CASE UrlSchemaDelim
  BY <1>12 DEF UrlSchemaDelim
<1>13. CASE UrlServer("url_server")
  BY <1>13 DEF UrlServer
<1>14. CASE UrlServerWithAt
  BY <1>14 DEF UrlServerWithAt
<1>15. CASE UrlPath
  BY <1>15 DEF UrlPath
<1>16. CASE UrlQueryOrFragment
  BY <1>16 DEF UrlQueryOrFragment
<1>17. CASE UrlQuery
  BY <1>17 DEF UrlQuery
<1>18. CASE UrlFragment
  BY <1>18 DEF UrlFragment
<1>19. CASE UrlSkipToHttp09
  BY <1>19 DEF UrlSkipToHttp09
<1>20. CASE UrlSkipLfToHttp09
  BY <1>20 DEF UrlSkipLfToHttp09
<1>21. CASE UrlSkipToHttp
  BY <1>21 DEF UrlSkipToHttp
<1>22. CASE ReqHttpStart
  BY <1>22 DEF ReqHttpStart
<1>23. CASE ReqHttpVersion
  BY <1>23 DEF ReqHttpVersion
<1>24. CASE ReqHttpEnd
  BY <1>24 DEF ReqHttpEnd
<1>25. CASE ReqHttpEnd1
  BY <1>25 DEF ReqHttpEnd1
<1>26. CASE ResHttpVersion
  BY <1>26 DEF ResHttpVersion
<1>27. CASE ResHttpEnd
  BY <1>27 DEF ResHttpEnd
<1>28. CASE ResStatusCode
  BY <1>28 DEF ResStatusCode
<1>29. CASE ResStatusStart
  BY <1>29 DEF ResStatusStart
<1>30. CASE ResStatus
  BY <1>30 DEF ResStatus
<1>31. CASE ResLineAlmostDone
  BY <1>31 DEF ResLineAlmostDone
<1> QED
  BY <1>1, <1>2, <1>3, <1>4, <1>5, <1>6, <1>7, <1>8, <1>9, <1>10, <1>11, <1>12, <1>13,
     <1>14, <1>15, <1>16, <1>17, <1>18, <1>19, <1>20, <1>21, <1>22, <1>23, <1>24, <1>25,
     <1>26, <1>27, <1>28, <1>29, <1>30, <1>31
     DEF StartLineStep

\* The nodes of the start line keep the message well-typed.
LEMMA StartLineKeepsTypes == IInv /\ StartLineStep => MessageType'
<1> SUFFICES ASSUME IInv, StartLineStep PROVE MessageType'
  OBVIOUS
<1> USE TypesKept, MessageTypeKept, HttpAssumption
    DEF IInv, Answers, At, AtByte, Advance, Goto, Return, Fail, Notify, SpanStart,
        SpanEnd, SpanEndAdvance, SpanEndGoto, MatchComplete, Matching, UrlEnd, UrlServer,
        HttpVersion, Lexing
<1>1. CASE Start
  <2>1. CASE Lexing
    BY <2>1
  <2>2. CASE ~Lexing
    <3>1. /\ finish' = "UNSAFE" /\ leftover' \in BOOLEAN /\ finished' = finished
          /\ owed' = 0 /\ content_length' = content_length
          /\ UNCHANGED <<lineVars, headVars>>
      BY <1>1, <2>2 DEF Start
    <3> QED
      BY <3>1 DEF MessageType, BodyType, LifeType
  <2> QED
    BY <2>1, <2>2
<1>2. CASE OnMessageBegin
  BY <1>2 DEF OnMessageBegin
<1>3. CASE LoadType
  BY <1>3 DEF LoadType
<1>4. CASE StartReqOrRes
  BY <1>4 DEF StartReqOrRes, MessageType, LineType
<1>5. CASE ReqOrResMethod
  BY <1>5 DEF ReqOrResMethod, MessageType, LineType
<1>6. CASE StartReq
  BY <1>6 DEF StartReq, MessageType, LineType
<1>7. CASE StartRes
  BY <1>7 DEF StartRes
<1>8. CASE ReqFirstSpaceBeforeUrl
  BY <1>8 DEF ReqFirstSpaceBeforeUrl
<1>9. CASE ReqSpacesBeforeUrl
  BY <1>9 DEF ReqSpacesBeforeUrl
<1>10. CASE UrlStart
  BY <1>10 DEF UrlStart
<1>11. CASE UrlSchema
  BY <1>11 DEF UrlSchema
<1>12. CASE UrlSchemaDelim
  BY <1>12 DEF UrlSchemaDelim
<1>13. CASE UrlServer("url_server")
  BY <1>13 DEF UrlServer
<1>14. CASE UrlServerWithAt
  BY <1>14 DEF UrlServerWithAt
<1>15. CASE UrlPath
  BY <1>15 DEF UrlPath
<1>16. CASE UrlQueryOrFragment
  BY <1>16 DEF UrlQueryOrFragment
<1>17. CASE UrlQuery
  BY <1>17 DEF UrlQuery
<1>18. CASE UrlFragment
  BY <1>18 DEF UrlFragment
<1>19. CASE UrlSkipToHttp09
  BY <1>19 DEF UrlSkipToHttp09
<1>20. CASE UrlSkipLfToHttp09
  BY <1>20 DEF UrlSkipLfToHttp09
<1>21. CASE UrlSkipToHttp
  BY <1>21 DEF UrlSkipToHttp
<1>22. CASE ReqHttpStart
  BY <1>22 DEF ReqHttpStart
<1>23. CASE ReqHttpVersion
  BY <1>23 DEF ReqHttpVersion
<1>24. CASE ReqHttpEnd
  BY <1>24 DEF ReqHttpEnd
<1>25. CASE ReqHttpEnd1
  BY <1>25 DEF ReqHttpEnd1
<1>26. CASE ResHttpVersion
  BY <1>26 DEF ResHttpVersion
<1>27. CASE ResHttpEnd
  BY <1>27 DEF ResHttpEnd, MessageType, LineType
<1>28. CASE ResStatusCode
  BY <1>28 DEF ResStatusCode, MessageType, LineType
<1>29. CASE ResStatusStart
  BY <1>29 DEF ResStatusStart
<1>30. CASE ResStatus
  BY <1>30 DEF ResStatus
<1>31. CASE ResLineAlmostDone
  BY <1>31 DEF ResLineAlmostDone
<1> QED
  BY <1>1, <1>2, <1>3, <1>4, <1>5, <1>6, <1>7, <1>8, <1>9, <1>10, <1>11, <1>12, <1>13,
     <1>14, <1>15, <1>16, <1>17, <1>18, <1>19, <1>20, <1>21, <1>22, <1>23, <1>24, <1>25,
     <1>26, <1>27, <1>28, <1>29, <1>30, <1>31
     DEF StartLineStep

\* The nodes of the start line open and close the span of the node.
LEMMA StartLineKeepsLex == IInv /\ StartLineStep => LexInv'
<1> SUFFICES ASSUME IInv, StartLineStep PROVE LexInv'
  OBVIOUS
<1> USE LexingKeeps, MessageKeeps, HttpAssumption
    DEF IInv, LexInv, LexType, ControlInv, NothingStale, SpanInv, At, AtByte, Advance,
        Goto, Return, Fail, Notify, SpanStart, SpanEnd, SpanEndAdvance, SpanEndGoto,
        MatchComplete, Matching, UrlEnd, UrlServer, HttpVersion, lexVars, lineVars,
        headVars, bodyVars, lifeVars, Failed, Pauses, Answers, NULL, End, LineEnd, UrlGap,
        UrlSpan, FieldSpan, ValueSpan, BodySpan, UrlNodes, ValueNodes, MatchNodes
<1>1. CASE Start
  BY <1>1 DEF Start
<1>2. CASE OnMessageBegin
  BY <1>2 DEF OnMessageBegin
<1>3. CASE LoadType
  BY <1>3 DEF LoadType
<1>4. CASE StartReqOrRes
  BY <1>4 DEF StartReqOrRes
<1>5. CASE ReqOrResMethod
  BY <1>5 DEF ReqOrResMethod
<1>6. CASE StartReq
  BY <1>6 DEF StartReq
<1>7. CASE StartRes
  BY <1>7 DEF StartRes
<1>8. CASE ReqFirstSpaceBeforeUrl
  BY <1>8 DEF ReqFirstSpaceBeforeUrl
<1>9. CASE ReqSpacesBeforeUrl
  BY <1>9 DEF ReqSpacesBeforeUrl
<1>10. CASE UrlStart
  BY <1>10 DEF UrlStart
<1>11. CASE UrlSchema
  BY <1>11 DEF UrlSchema
<1>12. CASE UrlSchemaDelim
  BY <1>12 DEF UrlSchemaDelim
<1>13. CASE UrlServer("url_server")
  BY <1>13 DEF UrlServer
<1>14. CASE UrlServerWithAt
  BY <1>14 DEF UrlServerWithAt
<1>15. CASE UrlPath
  BY <1>15 DEF UrlPath
<1>16. CASE UrlQueryOrFragment
  BY <1>16 DEF UrlQueryOrFragment
<1>17. CASE UrlQuery
  BY <1>17 DEF UrlQuery
<1>18. CASE UrlFragment
  BY <1>18 DEF UrlFragment
<1>19. CASE UrlSkipToHttp09
  BY <1>19 DEF UrlSkipToHttp09
<1>20. CASE UrlSkipLfToHttp09
  BY <1>20 DEF UrlSkipLfToHttp09
<1>21. CASE UrlSkipToHttp
  BY <1>21 DEF UrlSkipToHttp
<1>22. CASE ReqHttpStart
  BY <1>22 DEF ReqHttpStart
<1>23. CASE ReqHttpVersion
  BY <1>23 DEF ReqHttpVersion
<1>24. CASE ReqHttpEnd
  BY <1>24 DEF ReqHttpEnd
<1>25. CASE ReqHttpEnd1
  BY <1>25 DEF ReqHttpEnd1
<1>26. CASE ResHttpVersion
  BY <1>26 DEF ResHttpVersion
<1>27. CASE ResHttpEnd
  BY <1>27 DEF ResHttpEnd
<1>28. CASE ResStatusCode
  BY <1>28 DEF ResStatusCode
<1>29. CASE ResStatusStart
  BY <1>29 DEF ResStatusStart
<1>30. CASE ResStatus
  BY <1>30 DEF ResStatus
<1>31. CASE ResLineAlmostDone
  BY <1>31 DEF ResLineAlmostDone
<1> QED
  BY <1>1, <1>2, <1>3, <1>4, <1>5, <1>6, <1>7, <1>8, <1>9, <1>10, <1>11, <1>12, <1>13,
     <1>14, <1>15, <1>16, <1>17, <1>18, <1>19, <1>20, <1>21, <1>22, <1>23, <1>24, <1>25,
     <1>26, <1>27, <1>28, <1>29, <1>30, <1>31
     DEF StartLineStep

\* The nodes of the start line lead to one another and to the header fields, or fail.
LEMMA StartLineStays == IInv /\ StartLineStep => StartLineMove
<1> SUFFICES ASSUME IInv, StartLineStep PROVE StartLineMove
  OBVIOUS
<1> USE LexingKeeps, MessageKeeps, HttpAssumption
    DEF IInv, LexInv, ControlInv, SpanInv, StartLineMove, StartLineNodes, At, AtByte,
        Advance, Goto, Return, Fail, Notify, SpanStart, SpanEnd, SpanEndAdvance,
        SpanEndGoto, MatchComplete, Matching, UrlEnd, UrlServer, HttpVersion, lexVars,
        lineVars, headVars, bodyVars, lifeVars, Failed, Pauses, Answers, NULL, End,
        LineEnd, UrlGap, UrlSpan, FieldSpan, ValueSpan, BodySpan, UrlNodes, ValueNodes,
        LineNodes, VersionLine
<1>1. CASE Start
  BY <1>1 DEF Start
<1>2. CASE OnMessageBegin
  BY <1>2 DEF OnMessageBegin
<1>3. CASE LoadType
  BY <1>3 DEF LoadType
<1>4. CASE StartReqOrRes
  BY <1>4 DEF StartReqOrRes
<1>5. CASE ReqOrResMethod
  BY <1>5 DEF ReqOrResMethod
<1>6. CASE StartReq
  BY <1>6 DEF StartReq
<1>7. CASE StartRes
  BY <1>7 DEF StartRes
<1>8. CASE ReqFirstSpaceBeforeUrl
  BY <1>8 DEF ReqFirstSpaceBeforeUrl
<1>9. CASE ReqSpacesBeforeUrl
  BY <1>9 DEF ReqSpacesBeforeUrl
<1>10. CASE UrlStart
  BY <1>10 DEF UrlStart
<1>11. CASE UrlSchema
  BY <1>11 DEF UrlSchema
<1>12. CASE UrlSchemaDelim
  BY <1>12 DEF UrlSchemaDelim
<1>13. CASE UrlServer("url_server")
  BY <1>13 DEF UrlServer
<1>14. CASE UrlServerWithAt
  BY <1>14 DEF UrlServerWithAt
<1>15. CASE UrlPath
  BY <1>15 DEF UrlPath
<1>16. CASE UrlQueryOrFragment
  BY <1>16 DEF UrlQueryOrFragment
<1>17. CASE UrlQuery
  BY <1>17 DEF UrlQuery
<1>18. CASE UrlFragment
  BY <1>18 DEF UrlFragment
<1>19. CASE UrlSkipToHttp09
  BY <1>19 DEF UrlSkipToHttp09
<1>20. CASE UrlSkipLfToHttp09
  BY <1>20 DEF UrlSkipLfToHttp09
<1>21. CASE UrlSkipToHttp
  BY <1>21 DEF UrlSkipToHttp
<1>22. CASE ReqHttpStart
  BY <1>22 DEF ReqHttpStart
<1>23. CASE ReqHttpVersion
  BY <1>23 DEF ReqHttpVersion
<1>24. CASE ReqHttpEnd
  BY <1>24 DEF ReqHttpEnd
<1>25. CASE ReqHttpEnd1
  BY <1>25 DEF ReqHttpEnd1
<1>26. CASE ResHttpVersion
  BY <1>26 DEF ResHttpVersion
<1>27. CASE ResHttpEnd
  BY <1>27 DEF ResHttpEnd
<1>28. CASE ResStatusCode
  BY <1>28 DEF ResStatusCode
<1>29. CASE ResStatusStart
  BY <1>29 DEF ResStatusStart
<1>30. CASE ResStatus
  BY <1>30 DEF ResStatus
<1>31. CASE ResLineAlmostDone
  BY <1>31 DEF ResLineAlmostDone
<1> QED
  BY <1>1, <1>2, <1>3, <1>4, <1>5, <1>6, <1>7, <1>8, <1>9, <1>10, <1>11, <1>12, <1>13,
     <1>14, <1>15, <1>16, <1>17, <1>18, <1>19, <1>20, <1>21, <1>22, <1>23, <1>24, <1>25,
     <1>26, <1>27, <1>28, <1>29, <1>30, <1>31
     DEF StartLineStep

\* The nodes of the start line keep the flags and the finish mode to the node.
LEMMA StartLineKeepsFrame == IInv /\ StartLineStep => (FinishInv /\ FrameInv)'
<1> SUFFICES ASSUME IInv, StartLineStep PROVE (FinishInv /\ FrameInv)'
  OBVIOUS
<1> USE LexingKeeps, MessageKeeps, HttpAssumption
    DEF IInv, LexInv, ControlInv, FinishInv, FrameInv, At, AtByte, Advance, Goto, Return,
        Fail, Notify, SpanStart, SpanEnd, SpanEndAdvance, SpanEndGoto, MatchComplete,
        Matching, UrlEnd, UrlServer, HttpVersion, lexVars, lineVars, headVars, bodyVars,
        lifeVars, Failed, Pauses, Answers, NULL, End, LineEnd, UrlGap, UrlSpan, FieldSpan,
        ValueSpan, BodySpan, UrlNodes, ValueNodes, ChunkNodes, ChunkSizeNodes,
        ChunkDataNodes, ChunkEndNodes, LengthNodes, FieldsNodes, BeforeValue, BehindValue,
        RefusedNodes, CompleteNodes, EndOfHead, BehindHead, ReadingNodes, TrailingNodes
<1>1. CASE Start
  BY <1>1 DEF Start
<1>2. CASE OnMessageBegin
  BY <1>2 DEF OnMessageBegin
<1>3. CASE LoadType
  BY <1>3 DEF LoadType
<1>4. CASE StartReqOrRes
  BY <1>4 DEF StartReqOrRes
<1>5. CASE ReqOrResMethod
  BY <1>5 DEF ReqOrResMethod
<1>6. CASE StartReq
  BY <1>6 DEF StartReq
<1>7. CASE StartRes
  BY <1>7 DEF StartRes
<1>8. CASE ReqFirstSpaceBeforeUrl
  BY <1>8 DEF ReqFirstSpaceBeforeUrl
<1>9. CASE ReqSpacesBeforeUrl
  BY <1>9 DEF ReqSpacesBeforeUrl
<1>10. CASE UrlStart
  BY <1>10 DEF UrlStart
<1>11. CASE UrlSchema
  BY <1>11 DEF UrlSchema
<1>12. CASE UrlSchemaDelim
  BY <1>12 DEF UrlSchemaDelim
<1>13. CASE UrlServer("url_server")
  BY <1>13 DEF UrlServer
<1>14. CASE UrlServerWithAt
  BY <1>14 DEF UrlServerWithAt
<1>15. CASE UrlPath
  BY <1>15 DEF UrlPath
<1>16. CASE UrlQueryOrFragment
  BY <1>16 DEF UrlQueryOrFragment
<1>17. CASE UrlQuery
  BY <1>17 DEF UrlQuery
<1>18. CASE UrlFragment
  BY <1>18 DEF UrlFragment
<1>19. CASE UrlSkipToHttp09
  BY <1>19 DEF UrlSkipToHttp09
<1>20. CASE UrlSkipLfToHttp09
  BY <1>20 DEF UrlSkipLfToHttp09
<1>21. CASE UrlSkipToHttp
  BY <1>21 DEF UrlSkipToHttp
<1>22. CASE ReqHttpStart
  BY <1>22 DEF ReqHttpStart
<1>23. CASE ReqHttpVersion
  BY <1>23 DEF ReqHttpVersion
<1>24. CASE ReqHttpEnd
  BY <1>24 DEF ReqHttpEnd
<1>25. CASE ReqHttpEnd1
  BY <1>25 DEF ReqHttpEnd1
<1>26. CASE ResHttpVersion
  BY <1>26 DEF ResHttpVersion
<1>27. CASE ResHttpEnd
  BY <1>27 DEF ResHttpEnd
<1>28. CASE ResStatusCode
  BY <1>28 DEF ResStatusCode
<1>29. CASE ResStatusStart
  BY <1>29 DEF ResStatusStart
<1>30. CASE ResStatus
  BY <1>30 DEF ResStatus
<1>31. CASE ResLineAlmostDone
  BY <1>31 DEF ResLineAlmostDone
<1> QED
  BY <1>1, <1>2, <1>3, <1>4, <1>5, <1>6, <1>7, <1>8, <1>9, <1>10, <1>11, <1>12, <1>13,
     <1>14, <1>15, <1>16, <1>17, <1>18, <1>19, <1>20, <1>21, <1>22, <1>23, <1>24, <1>25,
     <1>26, <1>27, <1>28, <1>29, <1>30, <1>31
     DEF StartLineStep

\* The nodes of the start line keep the length, and what is owed of it.
LEMMA StartLineKeepsLength == IInv /\ StartLineStep => (HeadInv /\ BodyInv)'
<1> SUFFICES ASSUME IInv, StartLineStep PROVE (HeadInv /\ BodyInv)'
  OBVIOUS
<1> USE LexingKeeps, MessageKeeps, HttpAssumption
    DEF IInv, LexInv, ControlInv, MessageType, HeadType, BodyType, LifeType, FrameInv,
        HeadInv, BodyInv, At, AtByte, Advance, Goto, Return, Fail, Notify, SpanStart,
        SpanEnd, SpanEndAdvance, SpanEndGoto, MatchComplete, Matching, UrlEnd, UrlServer,
        HttpVersion, lexVars, lineVars, headVars, bodyVars, lifeVars, Failed, Pauses,
        Answers, NULL, End, LineEnd, UrlGap, UrlSpan, FieldSpan, ValueSpan, BodySpan,
        UrlNodes, ValueNodes, ChunkNodes, ChunkSizeNodes, ChunkDataNodes, ChunkEndNodes,
        LengthNodes, FieldsNodes, BeforeValue, BehindValue, RefusedNodes, CompleteNodes,
        EndOfHead, BehindHead, ReadingNodes, TrailingNodes
<1>1. CASE Start
  BY <1>1 DEF Start
<1>2. CASE OnMessageBegin
  BY <1>2 DEF OnMessageBegin
<1>3. CASE LoadType
  BY <1>3 DEF LoadType
<1>4. CASE StartReqOrRes
  BY <1>4 DEF StartReqOrRes
<1>5. CASE ReqOrResMethod
  BY <1>5 DEF ReqOrResMethod
<1>6. CASE StartReq
  BY <1>6 DEF StartReq
<1>7. CASE StartRes
  BY <1>7 DEF StartRes
<1>8. CASE ReqFirstSpaceBeforeUrl
  BY <1>8 DEF ReqFirstSpaceBeforeUrl
<1>9. CASE ReqSpacesBeforeUrl
  BY <1>9 DEF ReqSpacesBeforeUrl
<1>10. CASE UrlStart
  BY <1>10 DEF UrlStart
<1>11. CASE UrlSchema
  BY <1>11 DEF UrlSchema
<1>12. CASE UrlSchemaDelim
  BY <1>12 DEF UrlSchemaDelim
<1>13. CASE UrlServer("url_server")
  BY <1>13 DEF UrlServer
<1>14. CASE UrlServerWithAt
  BY <1>14 DEF UrlServerWithAt
<1>15. CASE UrlPath
  BY <1>15 DEF UrlPath
<1>16. CASE UrlQueryOrFragment
  BY <1>16 DEF UrlQueryOrFragment
<1>17. CASE UrlQuery
  BY <1>17 DEF UrlQuery
<1>18. CASE UrlFragment
  BY <1>18 DEF UrlFragment
<1>19. CASE UrlSkipToHttp09
  BY <1>19 DEF UrlSkipToHttp09
<1>20. CASE UrlSkipLfToHttp09
  BY <1>20 DEF UrlSkipLfToHttp09
<1>21. CASE UrlSkipToHttp
  BY <1>21 DEF UrlSkipToHttp
<1>22. CASE ReqHttpStart
  BY <1>22 DEF ReqHttpStart
<1>23. CASE ReqHttpVersion
  BY <1>23 DEF ReqHttpVersion
<1>24. CASE ReqHttpEnd
  BY <1>24 DEF ReqHttpEnd
<1>25. CASE ReqHttpEnd1
  BY <1>25 DEF ReqHttpEnd1
<1>26. CASE ResHttpVersion
  BY <1>26 DEF ResHttpVersion
<1>27. CASE ResHttpEnd
  BY <1>27 DEF ResHttpEnd
<1>28. CASE ResStatusCode
  BY <1>28 DEF ResStatusCode
<1>29. CASE ResStatusStart
  BY <1>29 DEF ResStatusStart
<1>30. CASE ResStatus
  BY <1>30 DEF ResStatus
<1>31. CASE ResLineAlmostDone
  BY <1>31 DEF ResLineAlmostDone
<1> QED
  BY <1>1, <1>2, <1>3, <1>4, <1>5, <1>6, <1>7, <1>8, <1>9, <1>10, <1>11, <1>12, <1>13,
     <1>14, <1>15, <1>16, <1>17, <1>18, <1>19, <1>20, <1>21, <1>22, <1>23, <1>24, <1>25,
     <1>26, <1>27, <1>28, <1>29, <1>30, <1>31
     DEF StartLineStep

\* The nodes of the start line report it in order.
LEMMA StartLineKeepsLine == IInv /\ StartLineStep => (LineOrder /\ FieldOrder)'
<1> SUFFICES ASSUME IInv, StartLineStep PROVE (LineOrder /\ FieldOrder)'
  OBVIOUS
<1> USE LexingKeeps, MessageKeeps, HttpAssumption
    DEF IInv, LexInv, ControlInv, SpanInv, FrameInv, OrderInv, LineOrder, FieldOrder,
        Going, At, AtByte, Advance, Goto, Return, Fail, Notify, SpanStart, SpanEnd,
        SpanEndAdvance, SpanEndGoto, MatchComplete, Matching, UrlEnd, UrlServer,
        HttpVersion, lexVars, lineVars, headVars, bodyVars, lifeVars, Failed, Pauses,
        Answers, NULL, End, LineEnd, UrlGap, UrlSpan, FieldSpan, ValueSpan, BodySpan,
        UrlNodes, ValueNodes, ChunkNodes, ChunkSizeNodes, ChunkDataNodes, ChunkEndNodes,
        LengthNodes, FieldsNodes, BeforeValue, BehindValue, RefusedNodes, CompleteNodes,
        EndOfHead, BehindHead, ReadingNodes, TrailingNodes, LineNodes, VersionLine
<1>1. CASE Start
  BY <1>1 DEF Start
<1>2. CASE OnMessageBegin
  BY <1>2 DEF OnMessageBegin
<1>3. CASE LoadType
  BY <1>3 DEF LoadType
<1>4. CASE StartReqOrRes
  BY <1>4 DEF StartReqOrRes
<1>5. CASE ReqOrResMethod
  BY <1>5 DEF ReqOrResMethod
<1>6. CASE StartReq
  BY <1>6 DEF StartReq
<1>7. CASE StartRes
  BY <1>7 DEF StartRes
<1>8. CASE ReqFirstSpaceBeforeUrl
  BY <1>8 DEF ReqFirstSpaceBeforeUrl
<1>9. CASE ReqSpacesBeforeUrl
  BY <1>9 DEF ReqSpacesBeforeUrl
<1>10. CASE UrlStart
  <2> HIDE DEF IInv, LineOrder, FieldOrder
  <2>1. executing /\ current \in UrlSpan /\ last' = last
    BY <1>10 DEF UrlStart
  <2>2. current' \in UrlSpan \/ Failed'
    BY <1>10 DEF UrlStart
  <2> QED
    BY <2>1, <2>2, UrlStepOrder
<1>11. CASE UrlSchema
  <2> HIDE DEF IInv, LineOrder, FieldOrder
  <2>1. executing /\ current \in UrlSpan /\ last' = last
    BY <1>11 DEF UrlSchema
  <2>2. current' \in UrlSpan \/ Failed'
    BY <1>11 DEF UrlSchema
  <2> QED
    BY <2>1, <2>2, UrlStepOrder
<1>12. CASE UrlSchemaDelim
  BY <1>12 DEF UrlSchemaDelim
<1>13. CASE UrlServer("url_server")
  <2> HIDE DEF IInv, LineOrder, FieldOrder, UrlEnd
  <2>1. executing /\ current \in UrlSpan
    BY <1>13 DEF UrlServer
  <2>2. CASE UrlEnd
    BY <2>1, <2>2, UrlEndOrder
  <2>3. CASE ~UrlEnd
    <3>1. last' = last
      BY <1>13, <2>3 DEF UrlServer
    <3>2. current' \in UrlSpan \/ Failed'
      BY <1>13, <2>3 DEF UrlServer
    <3> QED
      BY <2>1, <3>1, <3>2, UrlStepOrder
  <2> QED
    BY <2>2, <2>3
<1>14. CASE UrlServerWithAt
  <2> HIDE DEF IInv, LineOrder, FieldOrder, UrlEnd
  <2>1. executing /\ current \in UrlSpan
    BY <1>14 DEF UrlServerWithAt, UrlServer
  <2>2. CASE UrlEnd
    BY <2>1, <2>2, UrlEndOrder
  <2>3. CASE ~UrlEnd
    <3>1. last' = last
      BY <1>14, <2>3 DEF UrlServerWithAt, UrlServer
    <3>2. current' \in UrlSpan \/ Failed'
      BY <1>14, <2>3 DEF UrlServerWithAt, UrlServer
    <3> QED
      BY <2>1, <3>1, <3>2, UrlStepOrder
  <2> QED
    BY <2>2, <2>3
<1>15. CASE UrlPath
  <2> HIDE DEF IInv, LineOrder, FieldOrder
  <2>1. executing /\ current \in UrlSpan /\ last' = last
    BY <1>15 DEF UrlPath
  <2>2. current' \in UrlSpan \/ Failed'
    BY <1>15 DEF UrlPath
  <2> QED
    BY <2>1, <2>2, UrlStepOrder
<1>16. CASE UrlQueryOrFragment
  <2> HIDE DEF IInv, LineOrder, FieldOrder, UrlEnd
  <2>1. executing /\ current \in UrlSpan
    BY <1>16 DEF UrlQueryOrFragment
  <2>2. CASE UrlEnd
    BY <2>1, <2>2, UrlEndOrder
  <2>3. CASE ~UrlEnd
    <3>1. last' = last
      BY <1>16, <2>3 DEF UrlQueryOrFragment
    <3>2. current' \in UrlSpan \/ Failed'
      BY <1>16, <2>3 DEF UrlQueryOrFragment
    <3> QED
      BY <2>1, <3>1, <3>2, UrlStepOrder
  <2> QED
    BY <2>2, <2>3
<1>17. CASE UrlQuery
  <2> HIDE DEF IInv, LineOrder, FieldOrder, UrlEnd
  <2>1. executing /\ current \in UrlSpan
    BY <1>17 DEF UrlQuery
  <2>2. CASE UrlEnd
    BY <2>1, <2>2, UrlEndOrder
  <2>3. CASE ~UrlEnd
    <3>1. last' = last
      BY <1>17, <2>3 DEF UrlQuery
    <3>2. current' \in UrlSpan \/ Failed'
      BY <1>17, <2>3 DEF UrlQuery
    <3> QED
      BY <2>1, <3>1, <3>2, UrlStepOrder
  <2> QED
    BY <2>2, <2>3
<1>18. CASE UrlFragment
  <2> HIDE DEF IInv, LineOrder, FieldOrder, UrlEnd
  <2>1. executing /\ current \in UrlSpan
    BY <1>18 DEF UrlFragment
  <2>2. CASE UrlEnd
    BY <2>1, <2>2, UrlEndOrder
  <2>3. CASE ~UrlEnd
    <3>1. last' = last
      BY <1>18, <2>3 DEF UrlFragment
    <3>2. current' \in UrlSpan \/ Failed'
      BY <1>18, <2>3 DEF UrlFragment
    <3> QED
      BY <2>1, <3>1, <3>2, UrlStepOrder
  <2> QED
    BY <2>2, <2>3
<1>19. CASE UrlSkipToHttp09
  BY <1>19 DEF UrlSkipToHttp09
<1>20. CASE UrlSkipLfToHttp09
  BY <1>20 DEF UrlSkipLfToHttp09
<1>21. CASE UrlSkipToHttp
  BY <1>21 DEF UrlSkipToHttp
<1>22. CASE ReqHttpStart
  BY <1>22 DEF ReqHttpStart
<1>23. CASE ReqHttpVersion
  BY <1>23 DEF ReqHttpVersion
<1>24. CASE ReqHttpEnd
  BY <1>24 DEF ReqHttpEnd
<1>25. CASE ReqHttpEnd1
  BY <1>25 DEF ReqHttpEnd1
<1>26. CASE ResHttpVersion
  BY <1>26 DEF ResHttpVersion
<1>27. CASE ResHttpEnd
  BY <1>27 DEF ResHttpEnd
<1>28. CASE ResStatusCode
  BY <1>28 DEF ResStatusCode
<1>29. CASE ResStatusStart
  BY <1>29 DEF ResStatusStart
<1>30. CASE ResStatus
  <2>1. CASE at \notin LineEnd
    BY <1>30, <2>1 DEF ResStatus
  <2>2. CASE at \in LineEnd
    <3>1. /\ current = "res_status" /\ executing /\ last' = "status" /\ flags' = flags
          /\ current' \in {"header_field_start", "res_line_almost_done"}
      BY <1>30, <2>2 DEF ResStatus
    <3> QED
      BY <3>1
  <2> QED
    BY <2>1, <2>2
<1>31. CASE ResLineAlmostDone
  BY <1>31 DEF ResLineAlmostDone
<1> QED
  BY <1>1, <1>2, <1>3, <1>4, <1>5, <1>6, <1>7, <1>8, <1>9, <1>10, <1>11, <1>12, <1>13,
     <1>14, <1>15, <1>16, <1>17, <1>18, <1>19, <1>20, <1>21, <1>22, <1>23, <1>24, <1>25,
     <1>26, <1>27, <1>28, <1>29, <1>30, <1>31
     DEF StartLineStep

\* The nodes of the start line report in order.
LEMMA StartLineKeepsOrder == IInv /\ StartLineStep => OrderInv'
<1> SUFFICES ASSUME IInv, StartLineStep PROVE OrderInv'
  OBVIOUS
<1>1. current' \in StartLineNodes
  BY StartLineStays DEF StartLineMove
<1>2. BodyOrder'
  BY <1>1
     DEF BodyOrder, StartLineNodes, LineNodes, UrlSpan, UrlNodes, VersionLine,
         ChunkSizeNodes, ChunkDataNodes, ChunkEndNodes, LengthNodes
<1> QED
  BY <1>2, StartLineKeepsLine DEF OrderInv

-----------------------------------------------------------------------------
(* The nodes of the header fields.                                         *)

\* The nodes of the header fields lead to a node, with one of the errors.
LEMMA HeadersKeepNodes == IInv /\ HeadersStep => NodeType'
<1> SUFFICES ASSUME IInv, HeadersStep PROVE NodeType'
  OBVIOUS
<1> USE StepNodes
    DEF IInv, At, AtByte, Fail, SpanStart, SpanEnd, SpanEndAdvance, SpanEndGoto,
        SpanEndError, MatchComplete, MatchMismatch, Matching, HeaderUnchanged,
        SetHeaderState, Failed, Pauses, Answers, NULL, End, LineEnd, UrlGap, Nodes,
        Consuming, Errors, UrlNodes, VersionNodes, FieldNodes, ValueNodes, MatchNodes,
        SkipNodes, BodyNodes, SizeNodes
<1>1. CASE HeaderFieldStart
  BY <1>1 DEF HeaderFieldStart
<1>2. CASE HeaderField
  BY <1>2 DEF HeaderField
<1>3. CASE HeaderFieldGeneral
  BY <1>3 DEF HeaderFieldGeneral
<1>4. CASE HeaderFieldColon
  BY <1>4 DEF HeaderFieldColon
<1>5. CASE HeaderValueDiscardWs
  BY <1>5 DEF HeaderValueDiscardWs
<1>6. CASE HeaderValueDiscardWsAlmostDone
  BY <1>6 DEF HeaderValueDiscardWsAlmostDone
<1>7. CASE HeaderValueDiscardLws
  BY <1>7 DEF HeaderValueDiscardLws
<1>8. CASE LoadHeaderState1
  BY <1>8 DEF LoadHeaderState1
<1>9. CASE HeaderValue
  BY <1>9 DEF HeaderValue
<1>10. CASE HeaderValueConnection
  BY <1>10 DEF HeaderValueConnection
<1>11. CASE HeaderValueConnectionToken
  BY <1>11 DEF HeaderValueConnectionToken
<1>12. CASE HeaderValueConnectionWs
  BY <1>12 DEF HeaderValueConnectionWs
<1>13. CASE HeaderValueContentLength
  BY <1>13, ReadDigit DEF MessageType
<1>14. CASE HeaderValueContentLengthWs
  BY <1>14 DEF HeaderValueContentLengthWs
<1>15. CASE InvalidContentLength
  BY <1>15 DEF InvalidContentLength
<1>16. CASE HeaderValueTeChunked
  BY <1>16 DEF HeaderValueTeChunked
<1>17. CASE HeaderValueDiscardRws
  BY <1>17 DEF HeaderValueDiscardRws
<1>18. CASE HeaderValueOtherwise
  BY <1>18 DEF HeaderValueOtherwise
<1>19. CASE HeaderValueAlmostDone
  BY <1>19 DEF HeaderValueAlmostDone
<1>20. CASE HeaderValueLws
  BY <1>20 DEF HeaderValueLws
<1>21. CASE HeadersAlmostDone
  BY <1>21 DEF HeadersAlmostDone
<1> QED
  BY <1>1, <1>2, <1>3, <1>4, <1>5, <1>6, <1>7, <1>8, <1>9, <1>10, <1>11, <1>12, <1>13,
     <1>14, <1>15, <1>16, <1>17, <1>18, <1>19, <1>20, <1>21
     DEF HeadersStep

\* The nodes of the header fields keep the message well-typed.
LEMMA HeadersKeepTypes == IInv /\ HeadersStep => MessageType'
<1> SUFFICES ASSUME IInv, HeadersStep PROVE MessageType'
  OBVIOUS
<1> USE TypesKept, MessageTypeKept, HttpAssumption
    DEF IInv, Answers, At, AtByte, Advance, Goto, Return, Fail, SpanStart, SpanEnd,
        SpanEndAdvance, SpanEndGoto, SpanEndError, MatchComplete, MatchMismatch, Matching,
        HeaderUnchanged, SetHeaderState, Lexing
<1>1. CASE HeaderFieldStart
  BY <1>1 DEF HeaderFieldStart
<1>2. CASE HeaderField
  BY <1>2 DEF HeaderField, MessageType, HeadType, HeaderStates
<1>3. CASE HeaderFieldGeneral
  BY <1>3 DEF HeaderFieldGeneral
<1>4. CASE HeaderFieldColon
  BY <1>4 DEF HeaderFieldColon, MessageType, HeadType, HeaderStates
<1>5. CASE HeaderValueDiscardWs
  BY <1>5 DEF HeaderValueDiscardWs
<1>6. CASE HeaderValueDiscardWsAlmostDone
  BY <1>6 DEF HeaderValueDiscardWsAlmostDone
<1>7. CASE HeaderValueDiscardLws
  BY <1>7
     DEF HeaderValueDiscardLws, MessageType, HeadType, HeaderStates, Flags, ValueEnds,
         ValueFlag
<1>8. CASE LoadHeaderState1
  <2>1. CASE Fail("UNEXPECTED_CONTENT_LENGTH") /\ Lexing
    BY <1>8, LoadStep, <2>1
  <2>2. CASE /\ "CONTENT_LENGTH" \notin flags /\ owed' = 0 /\ Goto("header_value_content_length")
             /\ UNCHANGED <<lexVars, last, lineVars, headVars, content_length, lifeVars>>
    BY <1>8, LoadStep, <2>2 DEF MessageType, BodyType
  <2>3. CASE /\ flags' = flags \cup {"UPGRADE"} /\ header_state' = "general" /\ Goto("header_value")
             /\ UNCHANGED <<lexVars, last, lineVars, upgrade, bodyVars, lifeVars>>
    BY <1>8, LoadStep, <2>3 DEF MessageType, HeadType, Flags, HeaderStates
  <2>4. CASE /\ \E n \in {"header_value", "header_value_connection", "header_value_te_chunked"} : Goto(n)
             /\ Lexing
    BY <1>8, LoadStep, <2>4
  <2> QED
    BY <1>8, LoadStep, <2>1, <2>2, <2>3, <2>4
<1>9. CASE HeaderValue
  BY <1>9 DEF HeaderValue
<1>10. CASE HeaderValueConnection
  BY <1>10 DEF HeaderValueConnection, MessageType, HeadType, HeaderStates
<1>11. CASE HeaderValueConnectionToken
  BY <1>11 DEF HeaderValueConnectionToken
<1>12. CASE HeaderValueConnectionWs
  BY <1>12
     DEF HeaderValueConnectionWs, MessageType, HeadType, HeaderStates, Flags, ValueEnds,
         ValueFlag
<1>13. CASE HeaderValueContentLength
  BY <1>13, ReadDigit DEF MessageType, BodyType
<1>14. CASE HeaderValueContentLengthWs
  BY <1>14 DEF HeaderValueContentLengthWs, MessageType, HeadType, Flags
<1>15. CASE InvalidContentLength
  BY <1>15 DEF InvalidContentLength
<1>16. CASE HeaderValueTeChunked
  BY <1>16 DEF HeaderValueTeChunked, MessageType, HeadType, HeaderStates
<1>17. CASE HeaderValueDiscardRws
  BY <1>17 DEF HeaderValueDiscardRws, MessageType, HeadType, HeaderStates
<1>18. CASE HeaderValueOtherwise
  BY <1>18 DEF HeaderValueOtherwise
<1>19. CASE HeaderValueAlmostDone
  BY <1>19 DEF HeaderValueAlmostDone
<1>20. CASE HeaderValueLws
  BY <1>20
     DEF HeaderValueLws, MessageType, HeadType, HeaderStates, Flags, ValueEnds, ValueFlag
<1>21. CASE HeadersAlmostDone
  BY <1>21 DEF HeadersAlmostDone
<1> QED
  BY <1>1, <1>2, <1>3, <1>4, <1>5, <1>6, <1>7, <1>8, <1>9, <1>10, <1>11, <1>12, <1>13,
     <1>14, <1>15, <1>16, <1>17, <1>18, <1>19, <1>20, <1>21
     DEF HeadersStep

\* The nodes of the header fields open and close the span of the node.
LEMMA HeadersKeepLex == IInv /\ HeadersStep => LexInv'
<1> SUFFICES ASSUME IInv, HeadersStep PROVE LexInv'
  OBVIOUS
<1> USE LexingKeeps, MessageKeeps, ValueEndsFlags, HttpAssumption
    DEF IInv, LexInv, LexType, ControlInv, NothingStale, SpanInv, At, AtByte, Advance,
        Goto, Return, Fail, SpanStart, SpanEnd, SpanEndAdvance, SpanEndGoto, SpanEndError,
        MatchComplete, MatchMismatch, Matching, HeaderUnchanged, SetHeaderState, lexVars,
        lineVars, headVars, bodyVars, lifeVars, Failed, Pauses, Answers, NULL, End,
        LineEnd, UrlGap, UrlSpan, FieldSpan, ValueSpan, BodySpan, UrlNodes, ValueNodes,
        MatchNodes
<1>1. CASE HeaderFieldStart
  BY <1>1 DEF HeaderFieldStart
<1>2. CASE HeaderField
  BY <1>2 DEF HeaderField
<1>3. CASE HeaderFieldGeneral
  BY <1>3 DEF HeaderFieldGeneral
<1>4. CASE HeaderFieldColon
  BY <1>4 DEF HeaderFieldColon
<1>5. CASE HeaderValueDiscardWs
  BY <1>5 DEF HeaderValueDiscardWs
<1>6. CASE HeaderValueDiscardWsAlmostDone
  BY <1>6 DEF HeaderValueDiscardWsAlmostDone
<1>7. CASE HeaderValueDiscardLws
  BY <1>7 DEF HeaderValueDiscardLws, ValueEnds
<1>8. CASE LoadHeaderState1
  BY <1>8 DEF LoadHeaderState1
<1>9. CASE HeaderValue
  BY <1>9 DEF HeaderValue
<1>10. CASE HeaderValueConnection
  BY <1>10 DEF HeaderValueConnection
<1>11. CASE HeaderValueConnectionToken
  BY <1>11 DEF HeaderValueConnectionToken
<1>12. CASE HeaderValueConnectionWs
  BY <1>12 DEF HeaderValueConnectionWs, ValueEnds
<1>13. CASE HeaderValueContentLength
  BY <1>13, ReadDigit DEF MessageType
<1>14. CASE HeaderValueContentLengthWs
  BY <1>14 DEF HeaderValueContentLengthWs
<1>15. CASE InvalidContentLength
  BY <1>15 DEF InvalidContentLength
<1>16. CASE HeaderValueTeChunked
  BY <1>16 DEF HeaderValueTeChunked
<1>17. CASE HeaderValueDiscardRws
  BY <1>17 DEF HeaderValueDiscardRws
<1>18. CASE HeaderValueOtherwise
  BY <1>18 DEF HeaderValueOtherwise
<1>19. CASE HeaderValueAlmostDone
  BY <1>19 DEF HeaderValueAlmostDone
<1>20. CASE HeaderValueLws
  BY <1>20 DEF HeaderValueLws, ValueEnds
<1>21. CASE HeadersAlmostDone
  BY <1>21 DEF HeadersAlmostDone
<1> QED
  BY <1>1, <1>2, <1>3, <1>4, <1>5, <1>6, <1>7, <1>8, <1>9, <1>10, <1>11, <1>12, <1>13,
     <1>14, <1>15, <1>16, <1>17, <1>18, <1>19, <1>20, <1>21
     DEF HeadersStep

\* The nodes of the header fields lead to one another and to the end of the head, or fail.
LEMMA HeadersStay == IInv /\ HeadersStep => HeadersMove
<1> SUFFICES ASSUME IInv, HeadersStep PROVE HeadersMove
  OBVIOUS
<1> USE LexingKeeps, MessageKeeps, ValueEndsFlags, HttpAssumption
    DEF IInv, LexInv, ControlInv, SpanInv, HeadersMove, HeaderNodes, At, AtByte, Advance,
        Goto, Return, Fail, SpanStart, SpanEnd, SpanEndAdvance, SpanEndGoto, SpanEndError,
        MatchComplete, MatchMismatch, Matching, HeaderUnchanged, SetHeaderState, lexVars,
        lineVars, headVars, bodyVars, lifeVars, Failed, Pauses, Answers, NULL, End,
        LineEnd, UrlGap, UrlSpan, FieldSpan, ValueSpan, BodySpan, UrlNodes, ValueNodes,
        FieldsNodes, BeforeValue, BehindValue, RefusedNodes
<1>1. CASE HeaderFieldStart
  BY <1>1 DEF HeaderFieldStart
<1>2. CASE HeaderField
  BY <1>2 DEF HeaderField
<1>3. CASE HeaderFieldGeneral
  BY <1>3 DEF HeaderFieldGeneral
<1>4. CASE HeaderFieldColon
  BY <1>4 DEF HeaderFieldColon
<1>5. CASE HeaderValueDiscardWs
  BY <1>5 DEF HeaderValueDiscardWs
<1>6. CASE HeaderValueDiscardWsAlmostDone
  BY <1>6 DEF HeaderValueDiscardWsAlmostDone
<1>7. CASE HeaderValueDiscardLws
  BY <1>7 DEF HeaderValueDiscardLws
<1>8. CASE LoadHeaderState1
  <2>1. CASE Fail("UNEXPECTED_CONTENT_LENGTH") /\ Lexing
    BY <1>8, LoadStep, <2>1
  <2>2. CASE /\ "CONTENT_LENGTH" \notin flags /\ owed' = 0 /\ Goto("header_value_content_length")
             /\ UNCHANGED <<lexVars, last, lineVars, headVars, content_length, lifeVars>>
    BY <1>8, LoadStep, <2>2
  <2>3. CASE /\ flags' = flags \cup {"UPGRADE"} /\ header_state' = "general" /\ Goto("header_value")
             /\ UNCHANGED <<lexVars, last, lineVars, upgrade, bodyVars, lifeVars>>
    BY <1>8, LoadStep, <2>3
  <2>4. CASE /\ \E n \in {"header_value", "header_value_connection", "header_value_te_chunked"} : Goto(n)
             /\ Lexing
    BY <1>8, LoadStep, <2>4
  <2> QED
    BY <1>8, LoadStep, <2>1, <2>2, <2>3, <2>4
<1>9. CASE HeaderValue
  BY <1>9 DEF HeaderValue
<1>10. CASE HeaderValueConnection
  BY <1>10 DEF HeaderValueConnection
<1>11. CASE HeaderValueConnectionToken
  BY <1>11 DEF HeaderValueConnectionToken
<1>12. CASE HeaderValueConnectionWs
  BY <1>12 DEF HeaderValueConnectionWs
<1>13. CASE HeaderValueContentLength
  BY <1>13, ReadDigit DEF MessageType
<1>14. CASE HeaderValueContentLengthWs
  <2>1. CASE at \in LineEnd
    <3>1. /\ current = "header_value_content_length_ws" /\ executing /\ last' = last
          /\ current' = "header_value_discard_rws" /\ finished' = finished
          /\ flags' = flags \cup {"CONTENT_LENGTH"}
      BY <1>14, <2>1 DEF HeaderValueContentLengthWs
    <3> QED
      BY <3>1
  <2>2. CASE at = "SP"
    BY <1>14, <2>2 DEF HeaderValueContentLengthWs
  <2>3. CASE at \notin LineEnd \cup {"SP"}
    BY <1>14, <2>3 DEF HeaderValueContentLengthWs
  <2> QED
    BY <2>1, <2>2, <2>3
<1>15. CASE InvalidContentLength
  BY <1>15 DEF InvalidContentLength
<1>16. CASE HeaderValueTeChunked
  BY <1>16 DEF HeaderValueTeChunked
<1>17. CASE HeaderValueDiscardRws
  BY <1>17 DEF HeaderValueDiscardRws
<1>18. CASE HeaderValueOtherwise
  BY <1>18 DEF HeaderValueOtherwise
<1>19. CASE HeaderValueAlmostDone
  BY <1>19 DEF HeaderValueAlmostDone
<1>20. CASE HeaderValueLws
  BY <1>20 DEF HeaderValueLws
<1>21. CASE HeadersAlmostDone
  BY <1>21 DEF HeadersAlmostDone
<1> QED
  BY <1>1, <1>2, <1>3, <1>4, <1>5, <1>6, <1>7, <1>8, <1>9, <1>10, <1>11, <1>12, <1>13,
     <1>14, <1>15, <1>16, <1>17, <1>18, <1>19, <1>20, <1>21
     DEF HeadersStep

\* The nodes of the header fields keep the flags and the finish mode to the node.
LEMMA HeadersKeepFrame == IInv /\ HeadersStep => (FinishInv /\ FrameInv)'
<1> SUFFICES ASSUME IInv, HeadersStep PROVE (FinishInv /\ FrameInv)'
  OBVIOUS
<1> USE LexingKeeps, MessageKeeps, ValueEndsFlags, HttpAssumption
    DEF IInv, LexInv, ControlInv, FinishInv, FrameInv, At, AtByte, Advance, Goto, Return,
        Fail, SpanStart, SpanEnd, SpanEndAdvance, SpanEndGoto, SpanEndError,
        MatchComplete, MatchMismatch, Matching, HeaderUnchanged, SetHeaderState, lexVars,
        lineVars, headVars, bodyVars, lifeVars, Failed, Pauses, Answers, NULL, End,
        LineEnd, UrlGap, UrlSpan, FieldSpan, ValueSpan, BodySpan, UrlNodes, ValueNodes,
        ChunkNodes, ChunkSizeNodes, ChunkDataNodes, ChunkEndNodes, LengthNodes,
        FieldsNodes, BeforeValue, BehindValue, RefusedNodes, CompleteNodes, EndOfHead,
        BehindHead, ReadingNodes, TrailingNodes
<1>1. CASE HeaderFieldStart
  BY <1>1 DEF HeaderFieldStart
<1>2. CASE HeaderField
  BY <1>2 DEF HeaderField
<1>3. CASE HeaderFieldGeneral
  BY <1>3 DEF HeaderFieldGeneral
<1>4. CASE HeaderFieldColon
  BY <1>4 DEF HeaderFieldColon
<1>5. CASE HeaderValueDiscardWs
  BY <1>5 DEF HeaderValueDiscardWs
<1>6. CASE HeaderValueDiscardWsAlmostDone
  BY <1>6 DEF HeaderValueDiscardWsAlmostDone
<1>7. CASE HeaderValueDiscardLws
  BY <1>7 DEF HeaderValueDiscardLws
<1>8. CASE LoadHeaderState1
  <2>1. CASE Fail("UNEXPECTED_CONTENT_LENGTH") /\ Lexing
    BY <1>8, LoadStep, <2>1
  <2>2. CASE /\ "CONTENT_LENGTH" \notin flags /\ owed' = 0 /\ Goto("header_value_content_length")
             /\ UNCHANGED <<lexVars, last, lineVars, headVars, content_length, lifeVars>>
    BY <1>8, LoadStep, <2>2
  <2>3. CASE /\ flags' = flags \cup {"UPGRADE"} /\ header_state' = "general" /\ Goto("header_value")
             /\ UNCHANGED <<lexVars, last, lineVars, upgrade, bodyVars, lifeVars>>
    BY <1>8, LoadStep, <2>3
  <2>4. CASE /\ \E n \in {"header_value", "header_value_connection", "header_value_te_chunked"} : Goto(n)
             /\ Lexing
    BY <1>8, LoadStep, <2>4
  <2> QED
    BY <1>8, LoadStep, <2>1, <2>2, <2>3, <2>4
<1>9. CASE HeaderValue
  BY <1>9 DEF HeaderValue
<1>10. CASE HeaderValueConnection
  BY <1>10 DEF HeaderValueConnection
<1>11. CASE HeaderValueConnectionToken
  BY <1>11 DEF HeaderValueConnectionToken
<1>12. CASE HeaderValueConnectionWs
  BY <1>12 DEF HeaderValueConnectionWs
<1>13. CASE HeaderValueContentLength
  BY <1>13, ReadDigit DEF MessageType
<1>14. CASE HeaderValueContentLengthWs
  <2>1. CASE at \in LineEnd
    <3>1. /\ current = "header_value_content_length_ws" /\ finish' = finish /\ error' = error /\ executing
          /\ current' = "header_value_discard_rws" /\ flags' = flags \cup {"CONTENT_LENGTH"}
      BY <1>14, <2>1 DEF HeaderValueContentLengthWs
    <3> QED
      BY <3>1
  <2>2. CASE at = "SP"
    BY <1>14, <2>2 DEF HeaderValueContentLengthWs
  <2>3. CASE at \notin LineEnd \cup {"SP"}
    <3>1. /\ current = "header_value_content_length_ws" /\ finish' = finish /\ flags' = flags
          /\ executing
      BY <1>14, <2>3 DEF HeaderValueContentLengthWs
    <3>2. \/ current' = "error_15"
          \/ current' = "s_error" /\ error' = "INVALID_CONTENT_LENGTH"
      BY <1>14, <2>3 DEF HeaderValueContentLengthWs
    <3> QED
      BY <3>1, <3>2
  <2> QED
    BY <2>1, <2>2, <2>3
<1>15. CASE InvalidContentLength
  BY <1>15 DEF InvalidContentLength
<1>16. CASE HeaderValueTeChunked
  BY <1>16 DEF HeaderValueTeChunked
<1>17. CASE HeaderValueDiscardRws
  BY <1>17 DEF HeaderValueDiscardRws
<1>18. CASE HeaderValueOtherwise
  BY <1>18 DEF HeaderValueOtherwise
<1>19. CASE HeaderValueAlmostDone
  BY <1>19 DEF HeaderValueAlmostDone
<1>20. CASE HeaderValueLws
  BY <1>20 DEF HeaderValueLws
<1>21. CASE HeadersAlmostDone
  BY <1>21 DEF HeadersAlmostDone
<1> QED
  BY <1>1, <1>2, <1>3, <1>4, <1>5, <1>6, <1>7, <1>8, <1>9, <1>10, <1>11, <1>12, <1>13,
     <1>14, <1>15, <1>16, <1>17, <1>18, <1>19, <1>20, <1>21
     DEF HeadersStep

\* The nodes of the header fields keep the length, and what is owed of it.
LEMMA HeadersKeepLength == IInv /\ HeadersStep => (HeadInv /\ BodyInv)'
<1> SUFFICES ASSUME IInv, HeadersStep PROVE (HeadInv /\ BodyInv)'
  OBVIOUS
<1> USE LexingKeeps, MessageKeeps, ValueEndsFlags, HttpAssumption
    DEF IInv, LexInv, ControlInv, MessageType, HeadType, BodyType, LifeType, FrameInv,
        HeadInv, BodyInv, At, AtByte, Advance, Goto, Return, Fail, SpanStart, SpanEnd,
        SpanEndAdvance, SpanEndGoto, SpanEndError, MatchComplete, MatchMismatch, Matching,
        HeaderUnchanged, SetHeaderState, lexVars, lineVars, headVars, bodyVars, lifeVars,
        Failed, Pauses, Answers, NULL, End, LineEnd, UrlGap, UrlSpan, FieldSpan,
        ValueSpan, BodySpan, UrlNodes, ValueNodes, ChunkNodes, ChunkSizeNodes,
        ChunkDataNodes, ChunkEndNodes, LengthNodes, FieldsNodes, BeforeValue, BehindValue,
        RefusedNodes, CompleteNodes, EndOfHead, BehindHead, ReadingNodes, TrailingNodes
<1>1. CASE HeaderFieldStart
  BY <1>1 DEF HeaderFieldStart
<1>2. CASE HeaderField
  BY <1>2 DEF HeaderField
<1>3. CASE HeaderFieldGeneral
  BY <1>3 DEF HeaderFieldGeneral
<1>4. CASE HeaderFieldColon
  BY <1>4 DEF HeaderFieldColon
<1>5. CASE HeaderValueDiscardWs
  BY <1>5 DEF HeaderValueDiscardWs
<1>6. CASE HeaderValueDiscardWsAlmostDone
  BY <1>6 DEF HeaderValueDiscardWsAlmostDone
<1>7. CASE HeaderValueDiscardLws
  BY <1>7 DEF HeaderValueDiscardLws
<1>8. CASE LoadHeaderState1
  <2>1. CASE Fail("UNEXPECTED_CONTENT_LENGTH") /\ Lexing
    BY <1>8, LoadStep, <2>1
  <2>2. CASE /\ "CONTENT_LENGTH" \notin flags /\ owed' = 0 /\ Goto("header_value_content_length")
             /\ UNCHANGED <<lexVars, last, lineVars, headVars, content_length, lifeVars>>
    BY <1>8, LoadStep, <2>2
  <2>3. CASE /\ flags' = flags \cup {"UPGRADE"} /\ header_state' = "general" /\ Goto("header_value")
             /\ UNCHANGED <<lexVars, last, lineVars, upgrade, bodyVars, lifeVars>>
    BY <1>8, LoadStep, <2>3
  <2>4. CASE /\ \E n \in {"header_value", "header_value_connection", "header_value_te_chunked"} : Goto(n)
             /\ Lexing
    BY <1>8, LoadStep, <2>4
  <2> QED
    BY <1>8, LoadStep, <2>1, <2>2, <2>3, <2>4
<1>9. CASE HeaderValue
  BY <1>9 DEF HeaderValue
<1>10. CASE HeaderValueConnection
  BY <1>10 DEF HeaderValueConnection
<1>11. CASE HeaderValueConnectionToken
  BY <1>11 DEF HeaderValueConnectionToken
<1>12. CASE HeaderValueConnectionWs
  BY <1>12 DEF HeaderValueConnectionWs
<1>13. CASE HeaderValueContentLength
  BY <1>13, ReadDigit
<1>14. CASE HeaderValueContentLengthWs
  <2>1. /\ current = "header_value_content_length_ws" /\ executing
        /\ content_length' = content_length /\ owed' = owed /\ leftover' = leftover
    BY <1>14 DEF HeaderValueContentLengthWs
  <2>2. CASE at \in LineEnd
    <3>1. /\ current' = "header_value_discard_rws" /\ error' = error
          /\ flags' = flags \cup {"CONTENT_LENGTH"}
      BY <1>14, <2>2 DEF HeaderValueContentLengthWs
    <3> QED
      BY <2>1, <3>1
  <2>3. CASE at = "SP"
    <3>1. current' = current /\ error' = error /\ flags' = flags
      BY <1>14, <2>3 DEF HeaderValueContentLengthWs
    <3> QED
      BY <2>1, <3>1
  <2>4. CASE at \notin LineEnd \cup {"SP"}
    <3>1. \/ current' = "error_15"
          \/ current' = "s_error" /\ error' = "INVALID_CONTENT_LENGTH"
      BY <1>14, <2>4 DEF HeaderValueContentLengthWs
    <3> QED
      BY <2>1, <3>1
  <2> QED
    BY <2>2, <2>3, <2>4
<1>15. CASE InvalidContentLength
  BY <1>15 DEF InvalidContentLength
<1>16. CASE HeaderValueTeChunked
  <2>1. /\ current = "header_value_te_chunked" /\ executing /\ error' = error
        /\ current' \in {"header_value_discard_rws", "header_value", "header_value_te_chunked"}
        /\ flags' = flags /\ content_length' = content_length /\ owed' = owed
        /\ leftover' = leftover /\ upgrade' = upgrade
    BY <1>16 DEF HeaderValueTeChunked
  <2> QED
    BY <2>1
<1>17. CASE HeaderValueDiscardRws
  BY <1>17 DEF HeaderValueDiscardRws
<1>18. CASE HeaderValueOtherwise
  BY <1>18 DEF HeaderValueOtherwise
<1>19. CASE HeaderValueAlmostDone
  BY <1>19 DEF HeaderValueAlmostDone
<1>20. CASE HeaderValueLws
  BY <1>20 DEF HeaderValueLws
<1>21. CASE HeadersAlmostDone
  BY <1>21 DEF HeadersAlmostDone
<1> QED
  BY <1>1, <1>2, <1>3, <1>4, <1>5, <1>6, <1>7, <1>8, <1>9, <1>10, <1>11, <1>12, <1>13,
     <1>14, <1>15, <1>16, <1>17, <1>18, <1>19, <1>20, <1>21
     DEF HeadersStep

\* The nodes of the header fields report field and value in turn.
LEMMA HeadersKeepField == IInv /\ HeadersStep => FieldOrder'
<1> SUFFICES ASSUME IInv, HeadersStep PROVE FieldOrder'
  OBVIOUS
<1> USE LexingKeeps, MessageKeeps, ValueEndsFlags, HttpAssumption
    DEF IInv, LexInv, ControlInv, SpanInv, OrderInv, FieldOrder, Going, At, AtByte,
        Advance, Goto, Return, Fail, SpanStart, SpanEnd, SpanEndAdvance, SpanEndGoto,
        SpanEndError, MatchComplete, MatchMismatch, Matching, HeaderUnchanged,
        SetHeaderState, lexVars, lineVars, headVars, bodyVars, lifeVars, Failed, Pauses,
        Answers, NULL, End, LineEnd, UrlGap, UrlSpan, FieldSpan, ValueSpan, BodySpan,
        UrlNodes, ValueNodes, FieldsNodes, BeforeValue, BehindValue, RefusedNodes
<1>1. CASE HeaderFieldStart
  BY <1>1 DEF HeaderFieldStart
<1>2. CASE HeaderField
  BY <1>2 DEF HeaderField
<1>3. CASE HeaderFieldGeneral
  <2>1. CASE at \in {"word", "SP"}
    BY <1>3, <2>1 DEF HeaderFieldGeneral
  <2>2. CASE at = "colon"
    <3>1. /\ executing /\ last' = "header_field" /\ current' = "header_value_discard_ws"
      BY <1>3, <2>2 DEF HeaderFieldGeneral
    <3> QED
      BY <3>1
  <2>3. CASE at \notin {"word", "SP", "colon"}
    BY <1>3, <2>3 DEF HeaderFieldGeneral
  <2> QED
    BY <2>1, <2>2, <2>3
<1>4. CASE HeaderFieldColon
  BY <1>4 DEF HeaderFieldColon
<1>5. CASE HeaderValueDiscardWs
  BY <1>5 DEF HeaderValueDiscardWs
<1>6. CASE HeaderValueDiscardWsAlmostDone
  BY <1>6 DEF HeaderValueDiscardWsAlmostDone
<1>7. CASE HeaderValueDiscardLws
  BY <1>7 DEF HeaderValueDiscardLws
<1>8. CASE LoadHeaderState1
  BY <1>8 DEF LoadHeaderState1
<1>9. CASE HeaderValue
  BY <1>9 DEF HeaderValue
<1>10. CASE HeaderValueConnection
  BY <1>10 DEF HeaderValueConnection
<1>11. CASE HeaderValueConnectionToken
  BY <1>11 DEF HeaderValueConnectionToken
<1>12. CASE HeaderValueConnectionWs
  BY <1>12 DEF HeaderValueConnectionWs
<1>13. CASE HeaderValueContentLength
  BY <1>13, ReadDigit DEF MessageType
<1>14. CASE HeaderValueContentLengthWs
  BY <1>14 DEF HeaderValueContentLengthWs
<1>15. CASE InvalidContentLength
  BY <1>15 DEF InvalidContentLength
<1>16. CASE HeaderValueTeChunked
  BY <1>16 DEF HeaderValueTeChunked
<1>17. CASE HeaderValueDiscardRws
  BY <1>17 DEF HeaderValueDiscardRws
<1>18. CASE HeaderValueOtherwise
  <2>1. \/ current' = "header_value_almost_done" /\ last' = "header_value"
        \/ current' = "s_error"
    BY <1>18 DEF HeaderValueOtherwise
  <2> QED
    BY <2>1
<1>19. CASE HeaderValueAlmostDone
  BY <1>19 DEF HeaderValueAlmostDone
<1>20. CASE HeaderValueLws
  BY <1>20 DEF HeaderValueLws
<1>21. CASE HeadersAlmostDone
  BY <1>21 DEF HeadersAlmostDone
<1> QED
  BY <1>1, <1>2, <1>3, <1>4, <1>5, <1>6, <1>7, <1>8, <1>9, <1>10, <1>11, <1>12, <1>13,
     <1>14, <1>15, <1>16, <1>17, <1>18, <1>19, <1>20, <1>21
     DEF HeadersStep

\* The nodes of the header fields report in order.
LEMMA HeadersKeepOrder == IInv /\ HeadersStep => OrderInv'
<1> SUFFICES ASSUME IInv, HeadersStep PROVE OrderInv'
  OBVIOUS
<1>1. current' \in HeaderNodes
  BY HeadersStay DEF HeadersMove
<1>2. LineOrder' /\ BodyOrder'
  BY <1>1
     DEF LineOrder, BodyOrder, HeaderNodes, FieldsNodes, FieldSpan, ValueSpan, ValueNodes,
         BeforeValue, BehindValue, RefusedNodes, LineNodes, UrlSpan, UrlNodes,
         VersionLine, ChunkSizeNodes, ChunkDataNodes, ChunkEndNodes, LengthNodes
<1> QED
  BY <1>2, HeadersKeepField DEF OrderInv

-----------------------------------------------------------------------------
(* The nodes of the body.                                                  *)

\* The nodes of the body lead to a node, with one of the errors.
LEMMA BodyKeepsNodes == IInv /\ BodyStep => NodeType'
<1> SUFFICES ASSUME IInv, BodyStep PROVE NodeType'
  OBVIOUS
<1> USE StepNodes
    DEF IInv, At, AtByte, Fail, Notify, SpanStart, SpanEnd, SpanEndAdvance, ConsumeAll,
        ConsumePart, MessageUnchanged, Failed, Pauses, Answers, NULL, End, LineEnd,
        UrlGap, Nodes, Consuming, Errors, UrlNodes, VersionNodes, FieldNodes, ValueNodes,
        MatchNodes, SkipNodes, BodyNodes, SizeNodes
<1>1. CASE TestFlags
  BY <1>1 DEF TestFlags
<1>2. CASE BeforeHeadersComplete
  BY <1>2 DEF BeforeHeadersComplete
<1>3. CASE OnHeadersComplete
  BY <1>3 DEF OnHeadersComplete
<1>4. CASE AfterHeadersComplete
  BY <1>4 DEF AfterHeadersComplete, AfterHeaders, HasBody, MessageNeedsEof
<1>5. CASE SpanStartOnBody
  BY <1>5 DEF SpanStartOnBody
<1>6. CASE SpanStartOnBody1
  BY <1>6 DEF SpanStartOnBody1
<1>7. CASE ConsumeContentLength
  BY <1>7 DEF ConsumeContentLength
<1>8. CASE ConsumeContentLength1
  BY <1>8 DEF ConsumeContentLength1
<1>9. CASE SpanStartOnBody2
  BY <1>9 DEF SpanStartOnBody2
<1>10. CASE Eof
  BY <1>10 DEF Eof
<1>11. CASE UpdateContentLength
  BY <1>11 DEF UpdateContentLength
<1>12. CASE ChunkSize
  BY <1>12, ReadHexDigit DEF MessageType
<1>13. CASE ChunkParameters
  BY <1>13 DEF ChunkParameters
<1>14. CASE ChunkSizeAlmostDone
  BY <1>14 DEF ChunkSizeAlmostDone
<1>15. CASE OnChunkHeader
  BY <1>15 DEF OnChunkHeader
<1>16. CASE IsEqualContentLength
  BY <1>16 DEF IsEqualContentLength
<1>17. CASE ChunkDataAlmostDone
  BY <1>17 DEF ChunkDataAlmostDone
<1>18. CASE OnChunkComplete
  BY <1>18 DEF OnChunkComplete
<1>19. CASE OnChunkComplete1
  BY <1>19 DEF OnChunkComplete1
<1>20. CASE OnMessageComplete
  BY <1>20 DEF OnMessageComplete
<1>21. CASE OnMessageComplete2
  BY <1>21 DEF OnMessageComplete2
<1>22. CASE OnMessageComplete1
  BY <1>22 DEF OnMessageComplete1
<1>23. CASE IsEqualUpgrade
  BY <1>23 DEF IsEqualUpgrade
<1>24. CASE Pause1
  BY <1>24 DEF Pause1
<1>25. CASE AfterMessageComplete
  BY <1>25 DEF AfterMessageComplete
<1> QED
  BY <1>1, <1>2, <1>3, <1>4, <1>5, <1>6, <1>7, <1>8, <1>9, <1>10, <1>11, <1>12, <1>13,
     <1>14, <1>15, <1>16, <1>17, <1>18, <1>19, <1>20, <1>21, <1>22, <1>23, <1>24, <1>25
     DEF BodyStep

\* The nodes of the body keep the message well-typed.
LEMMA BodyKeepsTypes == IInv /\ BodyStep => MessageType'
<1> SUFFICES ASSUME IInv, BodyStep PROVE MessageType'
  OBVIOUS
<1> USE TypesKept, MessageTypeKept, HttpAssumption
    DEF IInv, Answers, At, AtByte, Advance, Goto, Return, Fail, Notify, SpanStart,
        SpanEnd, SpanEndAdvance, ConsumeAll, ConsumePart, MessageUnchanged, Lexing
<1>1. CASE TestFlags
  BY <1>1 DEF TestFlags
<1>2. CASE BeforeHeadersComplete
  BY <1>2 DEF BeforeHeadersComplete, MessageType, HeadType
<1>3. CASE OnHeadersComplete
  BY <1>3 DEF OnHeadersComplete, MessageType, HeadType, Flags
<1>4. CASE AfterHeadersComplete
  BY <1>4 DEF AfterHeadersComplete
<1>5. CASE SpanStartOnBody
  BY <1>5 DEF SpanStartOnBody
<1>6. CASE SpanStartOnBody1
  BY <1>6 DEF SpanStartOnBody1
<1>7. CASE ConsumeContentLength
  <2>1. BodyType
    BY DEF MessageType
  <2>2. /\ UNCHANGED <<lineVars, headVars, lifeVars>>
        /\ content_length' \in 0..MaxLength /\ owed' \in Int
    BY <1>7, <2>1, ConsumeLength DEF ConsumeContentLength
  <2> QED
    BY <2>2 DEF MessageType, BodyType
<1>8. CASE ConsumeContentLength1
  <2>1. BodyType
    BY DEF MessageType
  <2>2. /\ UNCHANGED <<lineVars, headVars, lifeVars>>
        /\ content_length' \in 0..MaxLength /\ owed' \in Int
    BY <1>8, <2>1, ConsumeLength DEF ConsumeContentLength1
  <2> QED
    BY <2>2 DEF MessageType, BodyType
<1>9. CASE SpanStartOnBody2
  BY <1>9 DEF SpanStartOnBody2, MessageType, LifeType
<1>10. CASE Eof
  BY <1>10 DEF Eof
<1>11. CASE UpdateContentLength
  BY <1>11 DEF UpdateContentLength, MessageType, BodyType
<1>12. CASE ChunkSize
  BY <1>12, ReadHexDigit DEF MessageType, BodyType
<1>13. CASE ChunkParameters
  BY <1>13 DEF ChunkParameters
<1>14. CASE ChunkSizeAlmostDone
  BY <1>14 DEF ChunkSizeAlmostDone
<1>15. CASE OnChunkHeader
  BY <1>15 DEF OnChunkHeader
<1>16. CASE IsEqualContentLength
  BY <1>16 DEF IsEqualContentLength, MessageType, HeadType, Flags
<1>17. CASE ChunkDataAlmostDone
  BY <1>17 DEF ChunkDataAlmostDone
<1>18. CASE OnChunkComplete
  BY <1>18 DEF OnChunkComplete
<1>19. CASE OnChunkComplete1
  BY <1>19 DEF OnChunkComplete1
<1>20. CASE OnMessageComplete
  BY <1>20 DEF OnMessageComplete
<1>21. CASE OnMessageComplete2
  BY <1>21 DEF OnMessageComplete2
<1>22. CASE OnMessageComplete1
  BY <1>22 DEF OnMessageComplete1
<1>23. CASE IsEqualUpgrade
  BY <1>23 DEF IsEqualUpgrade
<1>24. CASE Pause1
  BY <1>24 DEF Pause1
<1>25. CASE AfterMessageComplete
  BY <1>25 DEF AfterMessageComplete, MessageType, HeadType, LifeType
<1> QED
  BY <1>1, <1>2, <1>3, <1>4, <1>5, <1>6, <1>7, <1>8, <1>9, <1>10, <1>11, <1>12, <1>13,
     <1>14, <1>15, <1>16, <1>17, <1>18, <1>19, <1>20, <1>21, <1>22, <1>23, <1>24, <1>25
     DEF BodyStep

\* The nodes of the body open and close the span of the node.
LEMMA BodyKeepsLex == IInv /\ BodyStep => LexInv'
<1> SUFFICES ASSUME IInv, BodyStep PROVE LexInv'
  OBVIOUS
<1> USE LexingKeeps, MessageKeeps, HttpAssumption
    DEF IInv, LexInv, LexType, ControlInv, NothingStale, SpanInv, At, AtByte, Advance,
        Goto, Return, Fail, Notify, SpanStart, SpanEnd, SpanEndAdvance, ConsumeAll,
        ConsumePart, MessageUnchanged, lexVars, lineVars, headVars, bodyVars, lifeVars,
        Failed, Pauses, Answers, NULL, End, LineEnd, UrlGap, UrlSpan, FieldSpan,
        ValueSpan, BodySpan, UrlNodes, ValueNodes, MatchNodes
<1>1. CASE TestFlags
  BY <1>1 DEF TestFlags
<1>2. CASE BeforeHeadersComplete
  BY <1>2 DEF BeforeHeadersComplete
<1>3. CASE OnHeadersComplete
  BY <1>3 DEF OnHeadersComplete
<1>4. CASE AfterHeadersComplete
  BY <1>4 DEF AfterHeadersComplete, AfterHeaders, HasBody, MessageNeedsEof
<1>5. CASE SpanStartOnBody
  BY <1>5 DEF SpanStartOnBody
<1>6. CASE SpanStartOnBody1
  BY <1>6 DEF SpanStartOnBody1
<1>7. CASE ConsumeContentLength
  BY <1>7 DEF ConsumeContentLength
<1>8. CASE ConsumeContentLength1
  BY <1>8 DEF ConsumeContentLength1
<1>9. CASE SpanStartOnBody2
  BY <1>9 DEF SpanStartOnBody2
<1>10. CASE Eof
  BY <1>10 DEF Eof
<1>11. CASE UpdateContentLength
  BY <1>11 DEF UpdateContentLength
<1>12. CASE ChunkSize
  BY <1>12, ReadHexDigit DEF MessageType
<1>13. CASE ChunkParameters
  BY <1>13 DEF ChunkParameters
<1>14. CASE ChunkSizeAlmostDone
  BY <1>14 DEF ChunkSizeAlmostDone
<1>15. CASE OnChunkHeader
  BY <1>15 DEF OnChunkHeader
<1>16. CASE IsEqualContentLength
  BY <1>16 DEF IsEqualContentLength
<1>17. CASE ChunkDataAlmostDone
  BY <1>17 DEF ChunkDataAlmostDone
<1>18. CASE OnChunkComplete
  BY <1>18 DEF OnChunkComplete
<1>19. CASE OnChunkComplete1
  BY <1>19 DEF OnChunkComplete1
<1>20. CASE OnMessageComplete
  BY <1>20 DEF OnMessageComplete
<1>21. CASE OnMessageComplete2
  BY <1>21 DEF OnMessageComplete2
<1>22. CASE OnMessageComplete1
  BY <1>22 DEF OnMessageComplete1
<1>23. CASE IsEqualUpgrade
  BY <1>23 DEF IsEqualUpgrade
<1>24. CASE Pause1
  BY <1>24 DEF Pause1
<1>25. CASE AfterMessageComplete
  BY <1>25 DEF AfterMessageComplete
<1> QED
  BY <1>1, <1>2, <1>3, <1>4, <1>5, <1>6, <1>7, <1>8, <1>9, <1>10, <1>11, <1>12, <1>13,
     <1>14, <1>15, <1>16, <1>17, <1>18, <1>19, <1>20, <1>21, <1>22, <1>23, <1>24, <1>25
     DEF BodyStep

\* The nodes of the body keep the flags and the finish mode to the node.
LEMMA BodyKeepsFrame == IInv /\ BodyStep => (FinishInv /\ FrameInv)'
<1> SUFFICES ASSUME IInv, BodyStep PROVE (FinishInv /\ FrameInv)'
  OBVIOUS
<1> USE LexingKeeps, MessageKeeps, HttpAssumption
    DEF IInv, LexInv, ControlInv, FinishInv, FrameInv, At, AtByte, Advance, Goto, Return,
        Fail, Notify, SpanStart, SpanEnd, SpanEndAdvance, ConsumeAll, ConsumePart,
        MessageUnchanged, lexVars, lineVars, headVars, bodyVars, lifeVars, Failed, Pauses,
        Answers, NULL, End, LineEnd, UrlGap, UrlSpan, FieldSpan, ValueSpan, BodySpan,
        UrlNodes, ValueNodes, ChunkNodes, ChunkSizeNodes, ChunkDataNodes, ChunkEndNodes,
        LengthNodes, FieldsNodes, BeforeValue, BehindValue, RefusedNodes, CompleteNodes,
        EndOfHead, BehindHead, ReadingNodes, TrailingNodes
<1>1. CASE TestFlags
  BY <1>1 DEF TestFlags
<1>2. CASE BeforeHeadersComplete
  BY <1>2 DEF BeforeHeadersComplete
<1>3. CASE OnHeadersComplete
  BY <1>3 DEF OnHeadersComplete
<1>4. CASE AfterHeadersComplete
  BY <1>4 DEF AfterHeadersComplete, AfterHeaders, HasBody, MessageNeedsEof
<1>5. CASE SpanStartOnBody
  BY <1>5 DEF SpanStartOnBody
<1>6. CASE SpanStartOnBody1
  BY <1>6 DEF SpanStartOnBody1
<1>7. CASE ConsumeContentLength
  BY <1>7 DEF ConsumeContentLength
<1>8. CASE ConsumeContentLength1
  BY <1>8 DEF ConsumeContentLength1
<1>9. CASE SpanStartOnBody2
  BY <1>9 DEF SpanStartOnBody2
<1>10. CASE Eof
  BY <1>10 DEF Eof
<1>11. CASE UpdateContentLength
  BY <1>11 DEF UpdateContentLength
<1>12. CASE ChunkSize
  BY <1>12, ReadHexDigit DEF MessageType
<1>13. CASE ChunkParameters
  BY <1>13 DEF ChunkParameters
<1>14. CASE ChunkSizeAlmostDone
  BY <1>14 DEF ChunkSizeAlmostDone
<1>15. CASE OnChunkHeader
  BY <1>15 DEF OnChunkHeader
<1>16. CASE IsEqualContentLength
  BY <1>16 DEF IsEqualContentLength
<1>17. CASE ChunkDataAlmostDone
  BY <1>17 DEF ChunkDataAlmostDone
<1>18. CASE OnChunkComplete
  BY <1>18 DEF OnChunkComplete
<1>19. CASE OnChunkComplete1
  BY <1>19 DEF OnChunkComplete1
<1>20. CASE OnMessageComplete
  BY <1>20 DEF OnMessageComplete
<1>21. CASE OnMessageComplete2
  BY <1>21 DEF OnMessageComplete2
<1>22. CASE OnMessageComplete1
  BY <1>22 DEF OnMessageComplete1
<1>23. CASE IsEqualUpgrade
  BY <1>23 DEF IsEqualUpgrade
<1>24. CASE Pause1
  BY <1>24 DEF Pause1
<1>25. CASE AfterMessageComplete
  BY <1>25 DEF AfterMessageComplete
<1> QED
  BY <1>1, <1>2, <1>3, <1>4, <1>5, <1>6, <1>7, <1>8, <1>9, <1>10, <1>11, <1>12, <1>13,
     <1>14, <1>15, <1>16, <1>17, <1>18, <1>19, <1>20, <1>21, <1>22, <1>23, <1>24, <1>25
     DEF BodyStep

\* The nodes of the body keep the length, and what is owed of it.
LEMMA BodyKeepsLength == IInv /\ BodyStep => (HeadInv /\ BodyInv)'
<1> SUFFICES ASSUME IInv, BodyStep PROVE (HeadInv /\ BodyInv)'
  OBVIOUS
<1> USE LexingKeeps, MessageKeeps, HttpAssumption
    DEF IInv, LexInv, ControlInv, MessageType, HeadType, BodyType, LifeType, FrameInv,
        HeadInv, BodyInv, At, AtByte, Advance, Goto, Return, Fail, Notify, SpanStart,
        SpanEnd, SpanEndAdvance, ConsumeAll, ConsumePart, MessageUnchanged, lexVars,
        lineVars, headVars, bodyVars, lifeVars, Failed, Pauses, Answers, NULL, End,
        LineEnd, UrlGap, UrlSpan, FieldSpan, ValueSpan, BodySpan, UrlNodes, ValueNodes,
        ChunkNodes, ChunkSizeNodes, ChunkDataNodes, ChunkEndNodes, LengthNodes,
        FieldsNodes, BeforeValue, BehindValue, RefusedNodes, CompleteNodes, EndOfHead,
        BehindHead, ReadingNodes, TrailingNodes
<1>1. CASE TestFlags
  <2>1. /\ current = "test_flags" /\ executing /\ flags' = flags /\ upgrade' = upgrade
        /\ content_length' = content_length /\ owed' = owed /\ leftover' = leftover
        /\ \/ current' \in {"on_chunk_complete_1", "before_headers_complete"} /\ error' = error
           \/ current' = "s_error" /\ error' = "UNEXPECTED_CONTENT_LENGTH"
    BY <1>1 DEF TestFlags
  <2> QED
    BY <2>1
<1>2. CASE BeforeHeadersComplete
  BY <1>2 DEF BeforeHeadersComplete
<1>3. CASE OnHeadersComplete
  BY <1>3 DEF OnHeadersComplete
<1>4. CASE AfterHeadersComplete
  BY <1>4 DEF AfterHeadersComplete, AfterHeaders, HasBody, MessageNeedsEof
<1>5. CASE SpanStartOnBody
  BY <1>5 DEF SpanStartOnBody
<1>6. CASE SpanStartOnBody1
  BY <1>6 DEF SpanStartOnBody1
<1>7. CASE ConsumeContentLength
  <2>1. BodyType /\ At("consume_content_length")
    BY <1>7 DEF ConsumeContentLength
  <2>2. /\ UNCHANGED <<headVars, lifeVars>>
        /\ content_length = owed => content_length' = owed'
        /\ error' \in Answers \cup {error}
        /\ \/ current' = current
           \/ current' = "chunk_data_almost_done" /\ content_length' = 0
    BY <1>7, <2>1, ConsumeLength DEF ConsumeContentLength
  <2> QED
    BY <2>1, <2>2
<1>8. CASE ConsumeContentLength1
  <2>1. BodyType /\ At("consume_content_length_1")
    BY <1>8 DEF ConsumeContentLength1
  <2>2. /\ UNCHANGED <<headVars, lifeVars>>
        /\ content_length = owed => content_length' = owed'
        /\ error' \in Answers \cup {error}
        /\ \/ current' = current
           \/ current' = "on_message_complete_2" /\ content_length' = 0
    BY <1>8, <2>1, ConsumeLength DEF ConsumeContentLength1
  <2> QED
    BY <2>1, <2>2
<1>9. CASE SpanStartOnBody2
  BY <1>9 DEF SpanStartOnBody2
<1>10. CASE Eof
  BY <1>10 DEF Eof
<1>11. CASE UpdateContentLength
  BY <1>11 DEF UpdateContentLength
<1>12. CASE ChunkSize
  BY <1>12, ReadHexDigit
<1>13. CASE ChunkParameters
  BY <1>13 DEF ChunkParameters
<1>14. CASE ChunkSizeAlmostDone
  BY <1>14 DEF ChunkSizeAlmostDone
<1>15. CASE OnChunkHeader
  BY <1>15 DEF OnChunkHeader
<1>16. CASE IsEqualContentLength
  BY <1>16 DEF IsEqualContentLength
<1>17. CASE ChunkDataAlmostDone
  BY <1>17 DEF ChunkDataAlmostDone
<1>18. CASE OnChunkComplete
  BY <1>18 DEF OnChunkComplete
<1>19. CASE OnChunkComplete1
  BY <1>19 DEF OnChunkComplete1
<1>20. CASE OnMessageComplete
  BY <1>20 DEF OnMessageComplete
<1>21. CASE OnMessageComplete2
  BY <1>21 DEF OnMessageComplete2
<1>22. CASE OnMessageComplete1
  BY <1>22 DEF OnMessageComplete1
<1>23. CASE IsEqualUpgrade
  BY <1>23 DEF IsEqualUpgrade
<1>24. CASE Pause1
  BY <1>24 DEF Pause1
<1>25. CASE AfterMessageComplete
  BY <1>25 DEF AfterMessageComplete
<1> QED
  BY <1>1, <1>2, <1>3, <1>4, <1>5, <1>6, <1>7, <1>8, <1>9, <1>10, <1>11, <1>12, <1>13,
     <1>14, <1>15, <1>16, <1>17, <1>18, <1>19, <1>20, <1>21, <1>22, <1>23, <1>24, <1>25
     DEF BodyStep

\* The nodes of the body report in order.
LEMMA BodyKeepsOrder == IInv /\ BodyStep => OrderInv'
<1> SUFFICES ASSUME IInv, BodyStep PROVE OrderInv'
  OBVIOUS
<1> USE LexingKeeps, MessageKeeps, HttpAssumption
    DEF IInv, LexInv, ControlInv, SpanInv, FrameInv, OrderInv, LineOrder, FieldOrder,
        BodyOrder, Going, At, AtByte, Advance, Goto, Return, Fail, Notify, SpanStart,
        SpanEnd, SpanEndAdvance, ConsumeAll, ConsumePart, MessageUnchanged, lexVars,
        lineVars, headVars, bodyVars, lifeVars, Failed, Pauses, Answers, NULL, End,
        LineEnd, UrlGap, UrlSpan, FieldSpan, ValueSpan, BodySpan, UrlNodes, ValueNodes,
        ChunkNodes, ChunkSizeNodes, ChunkDataNodes, ChunkEndNodes, LengthNodes,
        FieldsNodes, BeforeValue, BehindValue, RefusedNodes, CompleteNodes, EndOfHead,
        BehindHead, ReadingNodes, TrailingNodes, LineNodes, VersionLine
<1>1. CASE TestFlags
  <2>1. /\ current = "test_flags" /\ executing /\ last' = last
        /\ \/ current' \in {"on_chunk_complete_1", "before_headers_complete"} /\ error' = error
           \/ error' = "UNEXPECTED_CONTENT_LENGTH"
    BY <1>1 DEF TestFlags
  <2> QED
    BY <2>1
<1>2. CASE BeforeHeadersComplete
  BY <1>2 DEF BeforeHeadersComplete
<1>3. CASE OnHeadersComplete
  BY <1>3 DEF OnHeadersComplete
<1>4. CASE AfterHeadersComplete
  BY <1>4 DEF AfterHeadersComplete, AfterHeaders, HasBody, MessageNeedsEof
<1>5. CASE SpanStartOnBody
  BY <1>5 DEF SpanStartOnBody
<1>6. CASE SpanStartOnBody1
  BY <1>6 DEF SpanStartOnBody1
<1>7. CASE ConsumeContentLength
  BY <1>7 DEF ConsumeContentLength
<1>8. CASE ConsumeContentLength1
  BY <1>8 DEF ConsumeContentLength1
<1>9. CASE SpanStartOnBody2
  BY <1>9 DEF SpanStartOnBody2
<1>10. CASE Eof
  BY <1>10 DEF Eof
<1>11. CASE UpdateContentLength
  BY <1>11 DEF UpdateContentLength
<1>12. CASE ChunkSize
  BY <1>12, ReadHexDigit DEF MessageType
<1>13. CASE ChunkParameters
  BY <1>13 DEF ChunkParameters
<1>14. CASE ChunkSizeAlmostDone
  BY <1>14 DEF ChunkSizeAlmostDone
<1>15. CASE OnChunkHeader
  BY <1>15 DEF OnChunkHeader
<1>16. CASE IsEqualContentLength
  BY <1>16 DEF IsEqualContentLength
<1>17. CASE ChunkDataAlmostDone
  BY <1>17 DEF ChunkDataAlmostDone
<1>18. CASE OnChunkComplete
  BY <1>18 DEF OnChunkComplete
<1>19. CASE OnChunkComplete1
  BY <1>19 DEF OnChunkComplete1
<1>20. CASE OnMessageComplete
  BY <1>20 DEF OnMessageComplete
<1>21. CASE OnMessageComplete2
  BY <1>21 DEF OnMessageComplete2
<1>22. CASE OnMessageComplete1
  BY <1>22 DEF OnMessageComplete1
<1>23. CASE IsEqualUpgrade
  BY <1>23 DEF IsEqualUpgrade
<1>24. CASE Pause1
  BY <1>24 DEF Pause1
<1>25. CASE AfterMessageComplete
  BY <1>25 DEF AfterMessageComplete
<1> QED
  BY <1>1, <1>2, <1>3, <1>4, <1>5, <1>6, <1>7, <1>8, <1>9, <1>10, <1>11, <1>12, <1>13,
     <1>14, <1>15, <1>16, <1>17, <1>18, <1>19, <1>20, <1>21, <1>22, <1>23, <1>24, <1>25
     DEF BodyStep

-----------------------------------------------------------------------------
(* The calls, and the end of a buffer.                                     *)

\* The calls lead to a node, with one of the errors.
LEMMA CallsKeepNodes == IInv /\ CallStep => NodeType'
<1> SUFFICES ASSUME IInv, CallStep PROVE NodeType'
  OBVIOUS
<1> USE LexingKeeps, MessageKeeps, HttpAssumption
    DEF IInv, NodeType, Between, Return, lexVars, lineVars, headVars, bodyVars, lifeVars,
        Failed, Pauses, Answers, NULL, End, LineEnd, UrlGap, Nodes, Consuming, Errors,
        UrlNodes, VersionNodes, FieldNodes, ValueNodes, MatchNodes, SkipNodes, BodyNodes,
        SizeNodes
<1>1. CASE Execute
  BY <1>1, BytesType DEF Execute
<1>2. CASE MatchPause
  BY <1>2 DEF MatchPause
<1>3. CASE EndOfBuffer
  BY <1>3 DEF EndOfBuffer
<1>4. CASE Pause
  BY <1>4 DEF Pause
<1>5. CASE Resume
  BY <1>5 DEF Resume
<1>6. CASE Finish
  BY <1>6 DEF Finish
<1>7. CASE Stopped
  BY <1>7, VarsKept DEF Stopped
<1> QED
  BY <1>1, <1>2, <1>3, <1>4, <1>5, <1>6, <1>7 DEF CallStep

\* The calls keep the message well-typed.
LEMMA CallsKeepTypes == IInv /\ CallStep => MessageType'
<1> SUFFICES ASSUME IInv, CallStep PROVE MessageType'
  OBVIOUS
<1> USE TypesKept, MessageTypeKept, HttpAssumption
    DEF IInv, Answers, Between, Return, Lexing
<1>1. CASE Execute
  BY <1>1 DEF Execute
<1>2. CASE MatchPause
  BY <1>2 DEF MatchPause
<1>3. CASE EndOfBuffer
  BY <1>3 DEF EndOfBuffer
<1>4. CASE Pause
  BY <1>4 DEF Pause
<1>5. CASE Resume
  BY <1>5 DEF Resume
<1>6. CASE Finish
  BY <1>6 DEF Finish, MessageType, LifeType
<1>7. CASE Stopped
  BY <1>7, VarsKept DEF Stopped, vars
<1> QED
  BY <1>1, <1>2, <1>3, <1>4, <1>5, <1>6, <1>7 DEF CallStep

\* The calls open and close the span of the node.
LEMMA CallsKeepLex == IInv /\ CallStep => LexInv'
<1> SUFFICES ASSUME IInv, CallStep PROVE LexInv'
  OBVIOUS
<1> USE LexingKeeps, MessageKeeps, HttpAssumption
    DEF IInv, LexInv, LexType, ControlInv, NothingStale, SpanInv, Between, Return,
        lexVars, lineVars, headVars, bodyVars, lifeVars, Failed, Pauses, Answers, NULL,
        End, LineEnd, UrlGap, UrlSpan, FieldSpan, ValueSpan, BodySpan, UrlNodes,
        ValueNodes, MatchNodes
<1>1. CASE Execute
  BY <1>1 DEF Execute
<1>2. CASE MatchPause
  BY <1>2 DEF MatchPause
<1>3. CASE EndOfBuffer
  <2>1. CASE span_pos0 = NULL
    BY <1>3, <2>1 DEF EndOfBuffer
  <2>2. CASE span_pos0 # NULL
    <3>1. /\ current' = current /\ executing' = FALSE /\ error' \in Answers /\ executing
          /\ span_pos0' = "gone" /\ UNCHANGED <<index, span_cb0>>
      BY <1>3, <2>2 DEF EndOfBuffer
    <3>2. LexType' /\ NothingStale' /\ ControlInv'
      BY <3>1
    <3>3. SpanInv'
      BY <2>2, <3>1
    <3> QED
      BY <3>2, <3>3
  <2> QED
    BY <2>1, <2>2
<1>4. CASE Pause
  BY <1>4 DEF Pause
<1>5. CASE Resume
  BY <1>5 DEF Resume
<1>6. CASE Finish
  BY <1>6 DEF Finish
<1>7. CASE Stopped
  BY <1>7, VarsKept DEF Stopped
<1> QED
  BY <1>1, <1>2, <1>3, <1>4, <1>5, <1>6, <1>7 DEF CallStep

\* The calls keep the flags and the finish mode to the node.
LEMMA CallsKeepFrame == IInv /\ CallStep => (FinishInv /\ FrameInv)'
<1> SUFFICES ASSUME IInv, CallStep PROVE (FinishInv /\ FrameInv)'
  OBVIOUS
<1> USE LexingKeeps, MessageKeeps, HttpAssumption
    DEF IInv, LexInv, ControlInv, FinishInv, FrameInv, Between, Return, lexVars, lineVars,
        headVars, bodyVars, lifeVars, Failed, Pauses, Answers, NULL, End, LineEnd, UrlGap,
        UrlSpan, FieldSpan, ValueSpan, BodySpan, UrlNodes, ValueNodes, ChunkNodes,
        ChunkSizeNodes, ChunkDataNodes, ChunkEndNodes, LengthNodes, FieldsNodes,
        BeforeValue, BehindValue, RefusedNodes, CompleteNodes, EndOfHead, BehindHead,
        ReadingNodes, TrailingNodes
<1>1. CASE Execute
  BY <1>1 DEF Execute
<1>2. CASE MatchPause
  BY <1>2 DEF MatchPause
<1>3. CASE EndOfBuffer
  BY <1>3 DEF EndOfBuffer
<1>4. CASE Pause
  BY <1>4 DEF Pause
<1>5. CASE Resume
  BY <1>5 DEF Resume
<1>6. CASE Finish
  BY <1>6 DEF Finish
<1>7. CASE Stopped
  BY <1>7, VarsKept DEF Stopped
<1> QED
  BY <1>1, <1>2, <1>3, <1>4, <1>5, <1>6, <1>7 DEF CallStep

\* The calls keep the length, and what is owed of it.
LEMMA CallsKeepLength == IInv /\ CallStep => (HeadInv /\ BodyInv)'
<1> SUFFICES ASSUME IInv, CallStep PROVE (HeadInv /\ BodyInv)'
  OBVIOUS
<1> USE LexingKeeps, MessageKeeps, HttpAssumption
    DEF IInv, LexInv, ControlInv, MessageType, HeadType, BodyType, LifeType, FrameInv,
        HeadInv, BodyInv, Between, Return, lexVars, lineVars, headVars, bodyVars,
        lifeVars, Failed, Pauses, Answers, NULL, End, LineEnd, UrlGap, UrlSpan, FieldSpan,
        ValueSpan, BodySpan, UrlNodes, ValueNodes, ChunkNodes, ChunkSizeNodes,
        ChunkDataNodes, ChunkEndNodes, LengthNodes, FieldsNodes, BeforeValue, BehindValue,
        RefusedNodes, CompleteNodes, EndOfHead, BehindHead, ReadingNodes, TrailingNodes
<1>1. CASE Execute
  BY <1>1 DEF Execute
<1>2. CASE MatchPause
  BY <1>2 DEF MatchPause
<1>3. CASE EndOfBuffer
  BY <1>3 DEF EndOfBuffer
<1>4. CASE Pause
  BY <1>4 DEF Pause
<1>5. CASE Resume
  BY <1>5 DEF Resume
<1>6. CASE Finish
  BY <1>6 DEF Finish
<1>7. CASE Stopped
  BY <1>7, VarsKept DEF Stopped
<1> QED
  BY <1>1, <1>2, <1>3, <1>4, <1>5, <1>6, <1>7 DEF CallStep

\* The calls report in order.
LEMMA CallsKeepOrder == IInv /\ CallStep => OrderInv'
<1> SUFFICES ASSUME IInv, CallStep PROVE OrderInv'
  OBVIOUS
<1> USE LexingKeeps, MessageKeeps, HttpAssumption
    DEF IInv, LexInv, ControlInv, SpanInv, FrameInv, OrderInv, LineOrder, FieldOrder,
        BodyOrder, Going, Between, Return, lexVars, lineVars, headVars, bodyVars,
        lifeVars, Failed, Pauses, Answers, NULL, End, LineEnd, UrlGap, UrlSpan, FieldSpan,
        ValueSpan, BodySpan, UrlNodes, ValueNodes, ChunkNodes, ChunkSizeNodes,
        ChunkDataNodes, ChunkEndNodes, LengthNodes, FieldsNodes, BeforeValue, BehindValue,
        RefusedNodes, CompleteNodes, EndOfHead, BehindHead, ReadingNodes, TrailingNodes,
        LineNodes, VersionLine
<1>1. CASE Execute
  BY <1>1 DEF Execute
<1>2. CASE MatchPause
  BY <1>2 DEF MatchPause
<1>3. CASE EndOfBuffer
  BY <1>3 DEF EndOfBuffer
<1>4. CASE Pause
  BY <1>4 DEF Pause
<1>5. CASE Resume
  BY <1>5 DEF Resume
<1>6. CASE Finish
  BY <1>6 DEF Finish
<1>7. CASE Stopped
  BY <1>7, VarsKept DEF Stopped
<1> QED
  BY <1>1, <1>2, <1>3, <1>4, <1>5, <1>6, <1>7 DEF CallStep

-----------------------------------------------------------------------------
(* Every step keeps the invariant.                                         *)

\* Every step keeps the invariant.
LEMMA NextIInv == IInv /\ [Next]_vars => IInv'
<1> SUFFICES ASSUME IInv, [Next]_vars PROVE IInv'
  OBVIOUS
<1>1. CASE StartLineStep
  BY <1>1, StartLineKeepsNodes, StartLineKeepsTypes, StartLineKeepsLex,
     StartLineKeepsFrame, StartLineKeepsLength, StartLineKeepsOrder
     DEF IInv
<1>2. CASE HeadersStep
  BY <1>2, HeadersKeepNodes, HeadersKeepTypes, HeadersKeepLex, HeadersKeepFrame,
     HeadersKeepLength, HeadersKeepOrder
     DEF IInv
<1>3. CASE BodyStep
  BY <1>3, BodyKeepsNodes, BodyKeepsTypes, BodyKeepsLex, BodyKeepsFrame, BodyKeepsLength,
     BodyKeepsOrder
     DEF IInv
<1>4. CASE CallStep
  BY <1>4, CallsKeepNodes, CallsKeepTypes, CallsKeepLex, CallsKeepFrame, CallsKeepLength,
     CallsKeepOrder
     DEF IInv
<1>5. CASE UNCHANGED vars
  <2>1. NodeType' /\ LexInv' /\ MessageType'
    BY <1>5, VarsKept
       DEF IInv, NodeType, LexInv, LexType, NothingStale, ControlInv, SpanInv, Failed,
           MessageType, LineType, HeadType, BodyType, LifeType
  <2>2. FinishInv' /\ FrameInv' /\ HeadInv' /\ BodyInv'
    BY <1>5, VarsKept DEF IInv, FinishInv, FrameInv, HeadInv, BodyInv, Failed
  <2>3. OrderInv'
    BY <1>5, VarsKept DEF IInv, OrderInv, LineOrder, FieldOrder, BodyOrder, Going, Failed
  <2> QED
    BY <2>1, <2>2, <2>3 DEF IInv
<1> QED
  BY <1>1, <1>2, <1>3, <1>4, <1>5 DEF Next, Run, CallStep

\* The invariant of all the nodes and calls: what each node may rely on.
THEOREM Invariant == Spec => []IInv
<1> QED
  BY InitIInv, NextIInv, PTL DEF Spec

-----------------------------------------------------------------------------
(* What follows from the invariant.                                        *)

\* Every variable keeps its type: the automaton never leaves its nodes, no length exceeds
\* its width, and no error is made up.
THEOREM TypeCorrect == Spec => []TypeOK
<1>1. IInv => TypeOK
  BY DEF IInv, NodeType, LexInv, LexType, MessageType, LineType, HeadType, BodyType,
         LifeType, TypeOK
<1> QED
  BY <1>1, Invariant, PTL

\* Nothing that is kept between two buffers is taken for something else.
THEOREM StaleNothing == Spec => []NothingStale
<1>1. IInv => NothingStale
  BY DEF IInv, LexInv
<1> QED
  BY <1>1, Invariant, PTL

\* The bytes of a body that are handed over and those still due make up its size.
THEOREM BodyExact == Spec => []BodyIsExact
<1>1. IInv => BodyIsExact
  BY DEF IInv, BodyInv, BodyIsExact
<1> QED
  BY <1>1, Invariant, PTL

\* A body is framed in one way.
THEOREM FramedOnce == Spec => []OneFrame
<1>1. IInv => OneFrame
  BY DEF IInv, FrameInv, OneFrame, ChunkNodes
<1> QED
  BY <1>1, Invariant, PTL

\* A node of the body is stepped from only during a call, which is not llhttp_finish.
LEMMA BodyStays == IInv /\ BodyStep => executing /\ finished' = finished
<1> SUFFICES ASSUME IInv, BodyStep PROVE executing /\ finished' = finished
  OBVIOUS
<1> USE LexingKeeps, MessageKeeps
    DEF IInv, At, AtByte, Advance, Goto, Return, Fail, Notify, SpanStart, SpanEnd,
        SpanEndAdvance, ConsumeAll, ConsumePart, MessageUnchanged, lifeVars
<1>1. CASE TestFlags
  BY <1>1 DEF TestFlags
<1>2. CASE BeforeHeadersComplete
  BY <1>2 DEF BeforeHeadersComplete
<1>3. CASE OnHeadersComplete
  BY <1>3 DEF OnHeadersComplete
<1>4. CASE AfterHeadersComplete
  BY <1>4 DEF AfterHeadersComplete
<1>5. CASE SpanStartOnBody
  BY <1>5 DEF SpanStartOnBody
<1>6. CASE SpanStartOnBody1
  BY <1>6 DEF SpanStartOnBody1
<1>7. CASE ConsumeContentLength
  BY <1>7, ConsumeLength DEF ConsumeContentLength, MessageType
<1>8. CASE ConsumeContentLength1
  BY <1>8, ConsumeLength DEF ConsumeContentLength1, MessageType
<1>9. CASE SpanStartOnBody2
  BY <1>9 DEF SpanStartOnBody2
<1>10. CASE Eof
  BY <1>10 DEF Eof
<1>11. CASE UpdateContentLength
  BY <1>11 DEF UpdateContentLength
<1>12. CASE ChunkSize
  BY <1>12, ReadHexDigit DEF MessageType
<1>13. CASE ChunkParameters
  BY <1>13 DEF ChunkParameters
<1>14. CASE ChunkSizeAlmostDone
  BY <1>14 DEF ChunkSizeAlmostDone
<1>15. CASE OnChunkHeader
  BY <1>15 DEF OnChunkHeader
<1>16. CASE IsEqualContentLength
  BY <1>16 DEF IsEqualContentLength
<1>17. CASE ChunkDataAlmostDone
  BY <1>17 DEF ChunkDataAlmostDone
<1>18. CASE OnChunkComplete
  BY <1>18 DEF OnChunkComplete
<1>19. CASE OnChunkComplete1
  BY <1>19 DEF OnChunkComplete1
<1>20. CASE OnMessageComplete
  BY <1>20 DEF OnMessageComplete
<1>21. CASE OnMessageComplete2
  BY <1>21 DEF OnMessageComplete2
<1>22. CASE OnMessageComplete1
  BY <1>22 DEF OnMessageComplete1
<1>23. CASE IsEqualUpgrade
  BY <1>23 DEF IsEqualUpgrade
<1>24. CASE Pause1
  BY <1>24 DEF Pause1
<1>25. CASE AfterMessageComplete
  BY <1>25 DEF AfterMessageComplete
<1> QED
  BY <1>1, <1>2, <1>3, <1>4, <1>5, <1>6, <1>7, <1>8, <1>9, <1>10, <1>11, <1>12, <1>13,
     <1>14, <1>15, <1>16, <1>17, <1>18, <1>19, <1>20, <1>21, <1>22, <1>23, <1>24, <1>25
     DEF BodyStep

\* What llhttp_finish has answered goes by finish, unless the parser was stopped.
AnswerInv ==
  finished # "no" /\ error = "OK" =>
    /\ finished = "OK" => finish # "UNSAFE"
    /\ finished = "INVALID_EOF_STATE" => finish = "UNSAFE"
    /\ finish = "SAFE_WITH_CB" => last = "message_complete"

\* Nothing happens after the answer.
LEMMA NextKeepsAnswer == IInv /\ AnswerInv /\ [Next]_vars => AnswerInv'
<1> SUFFICES ASSUME IInv, AnswerInv, [Next]_vars PROVE AnswerInv'
  OBVIOUS
<1>1. CASE Run \/ Execute \/ Pause \/ Resume
  <2>1. finished = "no" /\ finished' = finished
    <3>1. executing => finished = "no"
      BY DEF IInv, LexInv, ControlInv
    <3>2. CASE StartLineStep
      BY <3>1, <3>2, StartLineStays DEF StartLineMove
    <3>3. CASE HeadersStep
      BY <3>1, <3>3, HeadersStay DEF HeadersMove
    <3>4. CASE BodyStep
      BY <3>1, <3>4, BodyStays
    <3>5. CASE MatchPause \/ EndOfBuffer
      BY <3>1, <3>5, MessageKeeps DEF MatchPause, EndOfBuffer, At
    <3>6. CASE Execute \/ Pause \/ Resume
      BY <3>6, MessageKeeps DEF Execute, Pause, Resume, Between
    <3> QED
      BY <1>1, <3>2, <3>3, <3>4, <3>5, <3>6 DEF Run
  <2> QED
    BY <2>1 DEF AnswerInv
<1>2. CASE Finish
  <2>1. error' = error /\ finish' = finish
    BY <1>2 DEF Finish
  <2> QED
    BY <1>2, <2>1 DEF Finish, AnswerInv, Answers
<1>3. CASE UNCHANGED vars
  BY <1>3, VarsKept DEF AnswerInv
<1> QED
  BY <1>1, <1>2, <1>3 DEF Next, Stopped

\* llhttp_finish accepts the end of the input only where it may be, refuses it there only
\* at the RefusedEnds, and completes a message that goes on until then; a parser that is
\* paused or has failed is not asked.
THEOREM FinishCorrect == Spec => []FinishIsRight
<1>1. Init => AnswerInv
  BY DEF Init, AnswerInv
<1>2. IInv /\ AnswerInv => FinishIsRight
  <2> SUFFICES ASSUME IInv, AnswerInv, finished # "no", error = "OK"
               PROVE  /\ finished = "OK" => current \in MayEnd
                      /\ finished = "INVALID_EOF_STATE" => current \notin MayEnd \ RefusedEnds
                      /\ current = "eof" => last = "message_complete"
    BY DEF FinishIsRight
  <2>1. /\ finish \in {"SAFE", "SAFE_WITH_CB", "UNSAFE"}
        /\ finish = "SAFE" <=> current = "start"
        /\ finish = "SAFE_WITH_CB" <=> current = "eof"
    BY DEF IInv, MessageType, LifeType, FinishInv, Failed
  <2> QED
    BY <2>1 DEF AnswerInv, MayEnd, RefusedEnds
<1> QED
  BY <1>1, <1>2, NextKeepsAnswer, Invariant, PTL DEF Spec

-----------------------------------------------------------------------------
(* An upgrade is not forgotten.                                            *)

Forgets == /\ current # "after_message_complete" /\ current' = "after_message_complete"
           /\ upgrade /\ ~leftover /\ error' # "PAUSED_UPGRADE"

\* A step of the body leaves no message that upgrades without saying so.
LEMMA BodyForgetsNothing == IInv /\ BodyStep => ~Forgets
<1> SUFFICES ASSUME IInv, BodyStep PROVE ~Forgets
  OBVIOUS
<1> USE DEF Forgets, At, AtByte, Advance, Goto, Return, Fail, Notify, SpanStart, SpanEnd,
        SpanEndAdvance
<1>1. CASE TestFlags
  BY <1>1 DEF TestFlags
<1>2. CASE BeforeHeadersComplete
  BY <1>2 DEF BeforeHeadersComplete
<1>3. CASE OnHeadersComplete
  BY <1>3 DEF OnHeadersComplete
<1>4. CASE AfterHeadersComplete
  BY <1>4 DEF AfterHeadersComplete, AfterHeaders
<1>5. CASE SpanStartOnBody
  BY <1>5 DEF SpanStartOnBody
<1>6. CASE SpanStartOnBody1
  BY <1>6 DEF SpanStartOnBody1
<1>7. CASE ConsumeContentLength
  BY <1>7 DEF ConsumeContentLength, ConsumeAll, ConsumePart
<1>8. CASE ConsumeContentLength1
  BY <1>8 DEF ConsumeContentLength1, ConsumeAll, ConsumePart
<1>9. CASE SpanStartOnBody2
  BY <1>9 DEF SpanStartOnBody2
<1>10. CASE Eof
  BY <1>10 DEF Eof
<1>11. CASE UpdateContentLength
  BY <1>11 DEF UpdateContentLength
<1>12. CASE ChunkSize
  BY <1>12, ReadHexDigit DEF IInv, MessageType
<1>13. CASE ChunkParameters
  BY <1>13 DEF ChunkParameters
<1>14. CASE ChunkSizeAlmostDone
  BY <1>14 DEF ChunkSizeAlmostDone
<1>15. CASE OnChunkHeader
  BY <1>15 DEF OnChunkHeader
<1>16. CASE IsEqualContentLength
  BY <1>16 DEF IsEqualContentLength
<1>17. CASE ChunkDataAlmostDone
  BY <1>17 DEF ChunkDataAlmostDone
<1>18. CASE OnChunkComplete
  BY <1>18 DEF OnChunkComplete
<1>19. CASE OnChunkComplete1
  BY <1>19 DEF OnChunkComplete1
<1>20. CASE OnMessageComplete
  BY <1>20 DEF OnMessageComplete, IInv, BodyInv, LexInv, ControlInv, Failed, Pauses
<1>21. CASE OnMessageComplete2
  BY <1>21 DEF OnMessageComplete2
<1>22. CASE OnMessageComplete1
  BY <1>22 DEF OnMessageComplete1
<1>23. CASE IsEqualUpgrade
  BY <1>23 DEF IsEqualUpgrade
<1>24. CASE Pause1
  BY <1>24 DEF Pause1
<1>25. CASE AfterMessageComplete
  BY <1>25 DEF AfterMessageComplete
<1> QED
  BY <1>1, <1>2, <1>3, <1>4, <1>5, <1>6, <1>7, <1>8, <1>9, <1>10, <1>11, <1>12, <1>13,
     <1>14, <1>15, <1>16, <1>17, <1>18, <1>19, <1>20, <1>21, <1>22, <1>23, <1>24, <1>25
     DEF BodyStep

\* Nor does any other step.
LEMMA NextForgetsNothing == IInv /\ [Next]_vars => ~Forgets
<1> SUFFICES ASSUME IInv, [Next]_vars PROVE ~Forgets
  OBVIOUS
<1>1. CASE StartLineStep
  BY <1>1, StartLineStays
     DEF Forgets, StartLineMove, StartLineNodes, LineNodes, UrlSpan, UrlNodes, VersionLine
<1>2. CASE HeadersStep
  BY <1>2, HeadersStay
     DEF Forgets, HeadersMove, HeaderNodes, FieldsNodes, FieldSpan, ValueSpan, ValueNodes,
         BeforeValue, BehindValue, RefusedNodes
<1>3. CASE BodyStep
  BY <1>3, BodyForgetsNothing
<1>4. CASE CallStep \/ UNCHANGED vars
  <2>1. current' = current
    BY <1>4, VarsKept
       DEF CallStep, Execute, MatchPause, EndOfBuffer, Return, Pause, Resume, Finish,
           Between, Stopped
  <2> QED
    BY <2>1 DEF Forgets
<1> QED
  BY <1>1, <1>2, <1>3, <1>4 DEF Next, Run, CallStep

\* A message that asks for an upgrade ends in HPE_PAUSED_UPGRADE.
THEOREM UpgradeKept == Spec => UpgradePauses
<1>1. IInv /\ [Next]_vars =>
        [current # "after_message_complete" /\ current' = "after_message_complete" /\ upgrade
           => leftover \/ error' = "PAUSED_UPGRADE"]_vars
  BY NextForgetsNothing DEF Forgets
<1> QED
  BY <1>1, Invariant, PTL DEF Spec, UpgradePauses

-----------------------------------------------------------------------------
(* A length that is left over.                                             *)

\* The nodes behind a body, or behind a head that none follows.
EndNodes == CompleteNodes \cup {"on_chunk_complete_1", "on_message_complete", "on_message_complete_1"}

\* Why the length of a message is not read: the user or CONNECT rules out the body, or
\* the length stands in the trailing fields.
Unread == flags \cap {"SKIPBODY", "TRAILING"} # {} \/ (upgrade /\ method = "CONNECT")

LeftInv == ~Failed /\ ~leftover /\ current \in EndNodes /\ content_length # 0 => Unread

\* The nodes of the body.
LEMMA BodyKeepsLeft == IInv /\ LeftInv /\ BodyStep => LeftInv'
<1> SUFFICES ASSUME IInv, LeftInv, BodyStep PROVE LeftInv'
  OBVIOUS
<1> USE LexingKeeps, MessageKeeps
    DEF LeftInv, Unread, At, AtByte, Advance, Goto, Return, Fail, Notify, SpanStart, SpanEnd,
        SpanEndAdvance, MessageUnchanged, lexVars, lineVars, headVars, bodyVars, lifeVars, Failed,
        Pauses, Answers, EndNodes, CompleteNodes
<1>0. executing => error = "OK"
  BY DEF IInv, LexInv, ControlInv
<1>1. CASE TestFlags
  BY <1>1 DEF TestFlags
<1>2. CASE BeforeHeadersComplete
  BY <1>2 DEF BeforeHeadersComplete
<1>3. CASE OnHeadersComplete
  BY <1>3 DEF OnHeadersComplete
<1>4. CASE AfterHeadersComplete
  <2>1. /\ current = "after_headers_complete" /\ current' = AfterHeaders /\ error' = error /\ executing
        /\ flags' = flags /\ upgrade' = upgrade /\ method' = method
        /\ content_length' = content_length /\ leftover' = leftover
    BY <1>4 DEF AfterHeadersComplete
  <2>2. ~leftover /\ "CONTENT_LENGTH" \notin flags => content_length = 0
    BY <2>1 DEF IInv, LexInv, ControlInv, FrameInv, HeadInv, BehindHead, RefusedNodes, ReadingNodes,
                TrailingNodes, FieldsNodes, FieldSpan, ValueSpan, ValueNodes, BeforeValue, BehindValue,
                ChunkNodes, ChunkSizeNodes, ChunkDataNodes, ChunkEndNodes, LengthNodes
  <2>3. content_length \in Nat
    BY HttpAssumption DEF IInv, MessageType, BodyType
  <2> QED
    BY <2>1, <2>2, <2>3 DEF AfterHeaders, HasBody, MessageNeedsEof
<1>5. CASE SpanStartOnBody
  BY <1>5 DEF SpanStartOnBody
<1>6. CASE SpanStartOnBody1
  BY <1>6 DEF SpanStartOnBody1
<1>7. CASE ConsumeContentLength
  BY <1>7 DEF ConsumeContentLength, ConsumeAll, ConsumePart
<1>8. CASE ConsumeContentLength1
  BY <1>8 DEF ConsumeContentLength1, ConsumeAll, ConsumePart
<1>9. CASE SpanStartOnBody2
  BY <1>9 DEF SpanStartOnBody2
<1>10. CASE Eof
  BY <1>10 DEF Eof
<1>11. CASE UpdateContentLength
  BY <1>11 DEF UpdateContentLength
<1>12. CASE ChunkSize
  BY <1>12, ReadHexDigit DEF IInv, MessageType
<1>13. CASE ChunkParameters
  BY <1>13 DEF ChunkParameters
<1>14. CASE ChunkSizeAlmostDone
  BY <1>14 DEF ChunkSizeAlmostDone
<1>15. CASE OnChunkHeader
  BY <1>15 DEF OnChunkHeader
<1>16. CASE IsEqualContentLength
  BY <1>16 DEF IsEqualContentLength
<1>17. CASE ChunkDataAlmostDone
  BY <1>17 DEF ChunkDataAlmostDone
<1>18. CASE OnChunkComplete
  BY <1>18 DEF OnChunkComplete
<1>19. CASE OnChunkComplete1
  BY <1>0, <1>19 DEF OnChunkComplete1
<1>20. CASE OnMessageComplete
  BY <1>0, <1>20 DEF OnMessageComplete
<1>21. CASE OnMessageComplete2
  BY <1>0, <1>21 DEF OnMessageComplete2
<1>22. CASE OnMessageComplete1
  BY <1>0, <1>22 DEF OnMessageComplete1
<1>23. CASE IsEqualUpgrade
  BY <1>23 DEF IsEqualUpgrade
<1>24. CASE Pause1
  BY <1>0, <1>24 DEF Pause1
<1>25. CASE AfterMessageComplete
  BY <1>25 DEF AfterMessageComplete
<1> QED
  BY <1>1, <1>2, <1>3, <1>4, <1>5, <1>6, <1>7, <1>8, <1>9, <1>10, <1>11, <1>12, <1>13,
     <1>14, <1>15, <1>16, <1>17, <1>18, <1>19, <1>20, <1>21, <1>22, <1>23, <1>24, <1>25
     DEF BodyStep

\* The other nodes lead to none of these, and the calls change nothing.
LEMMA NextKeepsLeft == IInv /\ LeftInv /\ [Next]_vars => LeftInv'
<1> SUFFICES ASSUME IInv, LeftInv, [Next]_vars PROVE LeftInv'
  OBVIOUS
<1>1. CASE StartLineStep
  BY <1>1, StartLineStays
     DEF StartLineMove, StartLineNodes, LineNodes, UrlSpan, UrlNodes, VersionLine, LeftInv,
         EndNodes, CompleteNodes
<1>2. CASE HeadersStep
  BY <1>2, HeadersStay
     DEF HeadersMove, HeaderNodes, FieldsNodes, FieldSpan, ValueSpan, ValueNodes,
         BeforeValue, BehindValue, RefusedNodes, LeftInv, EndNodes, CompleteNodes
<1>3. CASE BodyStep
  BY <1>3, BodyKeepsLeft
<1>4. CASE CallStep \/ UNCHANGED vars
  <2>1. /\ current' = current /\ flags' = flags /\ upgrade' = upgrade /\ method' = method
        /\ content_length' = content_length /\ leftover' = leftover /\ (~Failed' => ~Failed)
    <3> USE VarsKept, MessageKeeps DEF Failed, Pauses
    <3>1. CASE Execute
      BY <3>1 DEF Execute
    <3>2. CASE MatchPause
      BY <3>2 DEF MatchPause
    <3>3. CASE EndOfBuffer
      BY <3>3 DEF EndOfBuffer, Return, IInv, LexInv, ControlInv
    <3>4. CASE Pause \/ Resume
      BY <3>4 DEF Pause, Resume, Between
    <3>5. CASE Finish
      BY <3>5 DEF Finish, Between, lineVars, headVars, bodyVars
    <3>6. CASE Stopped \/ UNCHANGED vars
      BY <3>6 DEF Stopped
    <3> QED
      BY <1>4, <3>1, <3>2, <3>3, <3>4, <3>5, <3>6 DEF CallStep
  <2> QED
    BY <2>1 DEF LeftInv, Unread
<1> QED
  BY <1>1, <1>2, <1>3, <1>4 DEF Next, Run, CallStep

\* A length that is still there when a message is over, and that the next message takes
\* for its own, has one of three reasons: on_headers_complete ruled out the body, the
\* message was CONNECT, or the length stood in the trailing fields of the last chunk.
THEOREM LeftoverHasAReason ==
  Spec => [][current = "after_message_complete" /\ current' = "start" /\ content_length' # 0
               => leftover \/ Unread]_vars
<1>1. Init => LeftInv
  BY DEF Init, LeftInv, EndNodes, CompleteNodes
<1>2. IInv /\ LeftInv /\ [Next]_vars =>
        [current = "after_message_complete" /\ current' = "start" /\ content_length' # 0
           => leftover \/ Unread]_vars
  <2> SUFFICES ASSUME IInv, LeftInv, Next,
                      current = "after_message_complete", current' = "start", ~leftover, ~Unread
               PROVE  content_length' = 0
    OBVIOUS
  <2>1. ~StartLineStep /\ ~HeadersStep
    BY StartLineStays, HeadersStay
       DEF StartLineMove, StartLineNodes, LineNodes, UrlSpan, UrlNodes, VersionLine, HeadersMove,
           HeaderNodes, FieldsNodes, FieldSpan, ValueSpan, ValueNodes, BeforeValue, BehindValue,
           RefusedNodes
  <2>2. ~CallStep
    BY VarsKept DEF CallStep, Execute, MatchPause, EndOfBuffer, Return, Pause, Resume, Finish,
                    Between, Stopped
  <2>3. BodyStep => AfterMessageComplete
    BY DEF BodyStep, TestFlags, BeforeHeadersComplete, OnHeadersComplete, AfterHeadersComplete,
           SpanStartOnBody, SpanStartOnBody1, ConsumeContentLength, ConsumeContentLength1,
           SpanStartOnBody2, Eof, UpdateContentLength, ChunkSize, ChunkParameters,
           ChunkSizeAlmostDone, OnChunkHeader, IsEqualContentLength, ChunkDataAlmostDone,
           OnChunkComplete, OnChunkComplete1, OnMessageComplete, OnMessageComplete2,
           OnMessageComplete1, IsEqualUpgrade, Pause1, At, AtByte
  <2>4. AfterMessageComplete => content_length' = content_length /\ executing
    BY DEF AfterMessageComplete, At, bodyVars
  <2> QED
    BY <2>1, <2>2, <2>3, <2>4
       DEF Next, Run, CallStep, LeftInv, EndNodes, CompleteNodes, IInv, LexInv, ControlInv, Failed,
           Pauses
<1> QED
  BY <1>1, <1>2, NextKeepsLeft, Invariant, PTL DEF Spec

-----------------------------------------------------------------------------
(* The callbacks come in their order.                                      *)

StageFacts ==
  /\ Failed => Stage = "failed"
  /\ ~Failed /\ current \in BetweenNodes => Stage = "between"
  /\ ~Failed /\ finished = "no" =>
       /\ current \in PlainNodes => Stage = "body"
       /\ current \in ChunkDataNodes \cup ChunkEndNodes \cup {"is_equal_content_length"} =>
            Stage = "chunk"
       /\ current \in HeaderNodes \cup {"on_chunk_complete_1"} /\ "TRAILING" \in flags =>
            Stage = "chunk"
       /\ current \in StartLineNodes \cup HeaderNodes \cup {"before_headers_complete", "on_headers_complete"}
          /\ "TRAILING" \notin flags /\ current \notin {"start", "on_message_begin"} =>
            Stage = "head"

\* The stage of the message at each group of nodes.
LEMMA StageNow == StageFacts
  BY DEF StageFacts, Stage, BetweenNodes, PlainNodes, ChunkSizeNodes, LengthNodes,
         ChunkDataNodes, ChunkEndNodes, HeaderNodes, StartLineNodes, LineNodes, UrlSpan,
         UrlNodes, VersionLine, FieldsNodes, FieldSpan, ValueSpan, ValueNodes,
         BeforeValue, BehindValue, RefusedNodes

\* The same for the state behind the step.
LEMMA StageThen == StageFacts'
  BY DEF StageFacts, Stage, BetweenNodes, PlainNodes, ChunkSizeNodes, LengthNodes,
         ChunkDataNodes, ChunkEndNodes, HeaderNodes, StartLineNodes, LineNodes, UrlSpan,
         UrlNodes, VersionLine, FieldsNodes, FieldSpan, ValueSpan, ValueNodes,
         BeforeValue, BehindValue, RefusedNodes

\* A step without a callback stays in its stage, or fails.
LEMMA QuietStep ==
  ASSUME last' = last, Stage' = Stage \/ Stage' = "failed"
  PROVE  [Callbacks!Next]_<<Stage, last>>
  BY DEF Callbacks!Next, Callbacks!Fail

\* A step of the start line reports only what the order of the callbacks allows.
LEMMA StartLineCalls == IInv /\ StartLineStep => [Callbacks!Next]_<<Stage, last>>
<1> SUFFICES ASSUME IInv, StartLineStep PROVE [Callbacks!Next]_<<Stage, last>>
  OBVIOUS
<1>1. StartLineMove
  BY StartLineStays
<1>2. /\ ~Failed /\ finished = "no" /\ finished' = "no"
  BY <1>1 DEF IInv, LexInv, ControlInv, Failed, Pauses, StartLineMove
<1>3. CASE current \in {"start", "on_message_begin"}
  <2>1. Stage = "between"
    BY <1>2, <1>3, StageNow DEF StageFacts, BetweenNodes
  <2>2. CASE current = "start"
    <3>1. last' = last /\ current' \in {"start", "on_message_begin"}
      BY <1>1, <2>2 DEF StartLineMove
    <3>2. Stage' = "between" \/ Stage' = "failed"
      BY <3>1, StageThen DEF StageFacts, BetweenNodes
    <3> QED
      BY <2>1, <3>1, <3>2, QuietStep
  <2>3. CASE current = "on_message_begin"
    <3>1. last' = "message_begin" /\ flags' = flags /\ (current' = "load_type" \/ Failed')
      BY <1>1, <2>3 DEF StartLineMove
    <3>2. "TRAILING" \notin flags
      BY <1>2, <1>3
         DEF IInv, FrameInv, TrailingNodes, FieldsNodes, FieldSpan, ValueSpan, ValueNodes,
             BeforeValue, BehindValue, RefusedNodes, CompleteNodes
    <3>3. Stage' \in {"head", "failed"}
      BY <1>2, <3>1, <3>2, StageThen DEF StageFacts, StartLineNodes, LineNodes
    <3> QED
      BY <2>1, <3>1, <3>3 DEF Callbacks!Next, Callbacks!MessageBegin, Callbacks!Call
  <2> QED
    BY <1>3, <2>2, <2>3
<1>4. CASE current \notin {"start", "on_message_begin"}
  <2>1. "TRAILING" \notin flags /\ flags' = flags
    BY <1>1, <1>2, <1>4
       DEF IInv, FrameInv, StartLineMove, StartLineNodes, LineNodes, UrlSpan, UrlNodes,
           VersionLine, TrailingNodes, FieldsNodes, FieldSpan, ValueSpan, ValueNodes,
           BeforeValue, BehindValue, RefusedNodes, CompleteNodes
  <2>2. Stage = "head"
    BY <1>1, <1>2, <1>4, <2>1, StageNow DEF StageFacts, StartLineMove
  <2>3. Stage' \in {"head", "failed"}
    BY <1>1, <1>2, <1>4, <2>1, StageThen DEF StageFacts, StartLineMove
  <2>4. CASE last' = last
    BY <2>2, <2>3, <2>4, QuietStep
  <2>5. CASE last' = "url" /\ current \in UrlSpan
    <3>1. last \in {"message_begin", "url"}
      BY <1>2, <2>5 DEF IInv, OrderInv, LineOrder, Going
    <3> QED
      BY <2>2, <2>3, <2>5, <3>1 DEF Callbacks!Next, Callbacks!Url, Callbacks!Call
  <2>6. CASE last' = "status" /\ current = "res_status"
    <3>1. last \in {"message_begin", "status"}
      BY <1>2, <2>6 DEF IInv, OrderInv, LineOrder, Going
    <3> QED
      BY <2>2, <2>3, <2>6, <3>1 DEF Callbacks!Next, Callbacks!Status, Callbacks!Call
  <2> QED
    BY <1>1, <1>4, <2>4, <2>5, <2>6 DEF StartLineMove
<1> QED
  BY <1>3, <1>4

\* So does a step of the header fields,
LEMMA HeadersCalls == IInv /\ HeadersStep => [Callbacks!Next]_<<Stage, last>>
<1> SUFFICES ASSUME IInv, HeadersStep PROVE [Callbacks!Next]_<<Stage, last>>
  OBVIOUS
<1>1. HeadersMove
  BY HeadersStay
<1>2. /\ ~Failed /\ finished = "no" /\ finished' = "no"
  BY <1>1 DEF IInv, LexInv, ControlInv, Failed, Pauses, HeadersMove
<1> DEFINE Part == IF "TRAILING" \in flags THEN "chunk" ELSE "head"
<1>3. Stage = Part
  BY <1>1, <1>2, StageNow
     DEF StageFacts, HeadersMove, HeaderNodes, FieldsNodes, FieldSpan, ValueSpan,
         ValueNodes, BeforeValue, BehindValue, RefusedNodes
<1>4. Stage' \in {Part, "failed"}
  BY <1>1, <1>2, StageThen
     DEF StageFacts, HeadersMove, HeaderNodes, FieldsNodes, FieldSpan, ValueSpan,
         ValueNodes, BeforeValue, BehindValue, RefusedNodes
<1>5. CASE last' = last
  BY <1>3, <1>4, <1>5, QuietStep
<1>6. CASE last' = "header_field" /\ current \in FieldSpan
  <2>1. /\ last # "none"
        /\ "TRAILING" \in flags => last \in {"chunk_header", "header_field", "header_value"}
    BY <1>2, <1>6 DEF IInv, OrderInv, FieldOrder, Going
  <2> QED
    BY <1>3, <1>4, <1>6, <2>1
       DEF Callbacks!Next, Callbacks!HeaderField, Callbacks!InFields, Callbacks!Call
<1>7. CASE last' = "header_value" /\ current \in ValueSpan \cup {"header_value_discard_lws"}
  <2>1. last \in {"header_field", "header_value"}
    BY <1>2, <1>7 DEF IInv, OrderInv, FieldOrder, Going, BeforeValue
  <2> QED
    BY <1>3, <1>4, <1>7, <2>1
       DEF Callbacks!Next, Callbacks!HeaderValue, Callbacks!InFields, Callbacks!Call
<1> QED
  BY <1>1, <1>5, <1>6, <1>7 DEF HeadersMove

\* a step of the body,
LEMMA BodyCalls == IInv /\ BodyStep => [Callbacks!Next]_<<Stage, last>>
<1> SUFFICES ASSUME IInv, BodyStep PROVE [Callbacks!Next]_<<Stage, last>>
  OBVIOUS
<1> USE StageNow, StageThen, LexingKeeps, MessageKeeps
    DEF IInv, LexInv, ControlInv, StageFacts, Failed, Pauses, Answers, At, AtByte,
        Advance, Goto, Return, Fail, Notify, SpanStart, SpanEnd, SpanEndAdvance,
        MessageUnchanged, lexVars, lineVars, headVars, bodyVars, lifeVars, BetweenNodes,
        PlainNodes, ChunkSizeNodes, ChunkDataNodes, ChunkEndNodes, LengthNodes,
        HeaderNodes, FieldsNodes
<1>1. CASE TestFlags
  <2>1. /\ executing /\ current = "test_flags" /\ finished' = finished /\ flags' = flags /\ last' = last
    BY <1>1 DEF TestFlags
  <2>2. CASE "TRAILING" \in flags
    <3>1. current' = "on_chunk_complete_1"
      BY <1>1, <2>2 DEF TestFlags
    <3>2. Stage = "chunk" /\ Stage' \in {"chunk", "failed"}
      BY <2>1, <2>2, <3>1
    <3> QED
      BY <2>1, <3>2, QuietStep
  <2>3. CASE "TRAILING" \notin flags
    <3>1. current' = "before_headers_complete" \/ Failed'
      BY <1>1, <2>3 DEF TestFlags
    <3>2. Stage = "head" /\ Stage' \in {"head", "failed"}
      BY <2>1, <2>3, <3>1
    <3> QED
      BY <2>1, <3>2, QuietStep
  <2> QED
    BY <2>2, <2>3
<1>2. CASE BeforeHeadersComplete
  <2>1. /\ executing /\ current = "before_headers_complete" /\ finished' = finished /\ flags' = flags
        /\ last' = last /\ (current' = "on_headers_complete" \/ Failed')
    BY <1>2 DEF BeforeHeadersComplete
  <2>2. Stage = "head" /\ Stage' \in {"head", "failed"}
    BY <2>1
       DEF FrameInv, TrailingNodes, FieldSpan, ValueSpan, ValueNodes, BeforeValue,
           BehindValue, RefusedNodes, CompleteNodes
  <2> QED
    BY <2>1, <2>2, QuietStep
<1>3. CASE OnHeadersComplete
  <2>1. /\ executing /\ current = "on_headers_complete" /\ finished' = finished
        /\ last' = "headers_complete" /\ (current' = "after_headers_complete" \/ Failed')
    BY <1>3 DEF OnHeadersComplete
  <2>2. Stage = "head" /\ Stage' \in {"body", "failed"}
    BY <2>1
       DEF FrameInv, TrailingNodes, FieldSpan, ValueSpan, ValueNodes, BeforeValue,
           BehindValue, RefusedNodes, CompleteNodes
  <2>3. last # "header_field"
    BY <2>1 DEF OrderInv, FieldOrder, Going
  <2> QED
    BY <2>1, <2>2, <2>3 DEF Callbacks!Next, Callbacks!HeadersComplete, Callbacks!Call
<1>4. CASE AfterHeadersComplete
  <2>1. /\ executing /\ current = "after_headers_complete" /\ finished' = finished
        /\ last' = last
        /\ current' \in {"on_message_complete_1", "on_message_complete", "update_content_length",
                        "span_start_on_body_1", "span_start_on_body_2"}
    BY <1>4 DEF AfterHeadersComplete, AfterHeaders
  <2>2. Stage = "body" /\ Stage' \in {"body", "failed"}
    BY <2>1
  <2> QED
    BY <2>1, <2>2, QuietStep
<1>5. CASE SpanStartOnBody
  <2>1. /\ executing /\ current = "span_start_on_body" /\ finished' = finished
        /\ last' = last /\ (current' = "consume_content_length" \/ Failed')
    BY <1>5 DEF SpanStartOnBody
  <2>2. Stage = "chunk" /\ Stage' \in {"chunk", "failed"}
    BY <2>1
  <2> QED
    BY <2>1, <2>2, QuietStep
<1>6. CASE SpanStartOnBody1
  <2>1. /\ executing /\ current = "span_start_on_body_1" /\ finished' = finished
        /\ last' = last /\ (current' = "consume_content_length_1" \/ Failed')
    BY <1>6 DEF SpanStartOnBody1
  <2>2. Stage = "body" /\ Stage' \in {"body", "failed"}
    BY <2>1
  <2> QED
    BY <2>1, <2>2, QuietStep
<1>7. CASE ConsumeContentLength
  <2>1. /\ executing /\ current = "consume_content_length" /\ finished' = finished
        /\ last' = "body"
        /\ current' \in {"consume_content_length", "chunk_data_almost_done"}
    BY <1>7 DEF ConsumeContentLength, ConsumeAll, ConsumePart, SpanInv, BodySpan
  <2>2. Stage = "chunk" /\ Stage' \in {"chunk", "failed"}
    BY <2>1
  <2>3. last \in {"chunk_header", "body"}
    BY <2>1 DEF OrderInv, BodyOrder, Going
  <2> QED
    BY <2>1, <2>2, <2>3 DEF Callbacks!Next, Callbacks!Body, Callbacks!Call
<1>8. CASE ConsumeContentLength1
  <2>1. /\ executing /\ current = "consume_content_length_1" /\ finished' = finished
        /\ last' = "body"
        /\ current' \in {"consume_content_length_1", "on_message_complete_2"}
    BY <1>8 DEF ConsumeContentLength1, ConsumeAll, ConsumePart, SpanInv, BodySpan
  <2>2. Stage = "body" /\ Stage' \in {"body", "failed"}
    BY <2>1
  <2>3. last \in {"headers_complete", "body"}
    BY <2>1 DEF OrderInv, BodyOrder, Going
  <2> QED
    BY <2>1, <2>2, <2>3 DEF Callbacks!Next, Callbacks!Body, Callbacks!Call
<1>9. CASE SpanStartOnBody2
  <2>1. /\ executing /\ current = "span_start_on_body_2" /\ finished' = finished
        /\ last' = last /\ (current' = "eof" \/ Failed')
    BY <1>9 DEF SpanStartOnBody2
  <2>2. Stage = "body" /\ Stage' \in {"body", "failed"}
    BY <2>1
  <2> QED
    BY <2>1, <2>2, QuietStep
<1>10. CASE Eof
  <2>1. /\ executing /\ current = "eof" /\ finished' = finished
        /\ last' = last /\ (current' = "eof" \/ Failed')
    BY <1>10 DEF Eof
  <2>2. Stage = "body" /\ Stage' \in {"body", "failed"}
    BY <2>1
  <2> QED
    BY <2>1, <2>2, QuietStep
<1>11. CASE UpdateContentLength
  <2>1. /\ executing /\ current = "update_content_length" /\ finished' = finished
        /\ last' = last /\ (current' = "chunk_size" \/ Failed')
    BY <1>11 DEF UpdateContentLength
  <2>2. Stage = "body" /\ Stage' \in {"body", "failed"}
    BY <2>1
  <2> QED
    BY <2>1, <2>2, QuietStep
<1>12. CASE ChunkSize
  <2>1. /\ executing /\ current = "chunk_size" /\ finished' = finished
        /\ last' = last
        /\ (current' \in {"chunk_size", "chunk_size_almost_done", "chunk_parameters"} \/ Failed')
    BY <1>12, ReadHexDigit DEF MessageType
  <2>2. Stage = "body" /\ Stage' \in {"body", "failed"}
    BY <2>1
  <2> QED
    BY <2>1, <2>2, QuietStep
<1>13. CASE ChunkParameters
  <2>1. /\ executing /\ current = "chunk_parameters" /\ finished' = finished
        /\ last' = last
        /\ current' \in {"chunk_parameters", "chunk_size_almost_done"}
    BY <1>13 DEF ChunkParameters
  <2>2. Stage = "body" /\ Stage' \in {"body", "failed"}
    BY <2>1
  <2> QED
    BY <2>1, <2>2, QuietStep
<1>14. CASE ChunkSizeAlmostDone
  <2>1. /\ executing /\ current = "chunk_size_almost_done" /\ finished' = finished
        /\ last' = last /\ (current' = "on_chunk_header" \/ Failed')
    BY <1>14 DEF ChunkSizeAlmostDone
  <2>2. Stage = "body" /\ Stage' \in {"body", "failed"}
    BY <2>1
  <2> QED
    BY <2>1, <2>2, QuietStep
<1>15. CASE OnChunkHeader
  <2>1. /\ executing /\ current = "on_chunk_header" /\ finished' = finished
        /\ last' = "chunk_header" /\ (current' = "is_equal_content_length" \/ Failed')
    BY <1>15 DEF OnChunkHeader
  <2>2. Stage = "body" /\ Stage' \in {"chunk", "failed"}
    BY <2>1
  <2>3. last \in {"headers_complete", "chunk_complete"}
    BY <2>1 DEF OrderInv, BodyOrder, Going
  <2> QED
    BY <2>1, <2>2, <2>3 DEF Callbacks!Next, Callbacks!ChunkHeader, Callbacks!Call
<1>16. CASE IsEqualContentLength
  <2>1. /\ executing /\ current = "is_equal_content_length" /\ finished' = finished /\ last' = last
        /\ \/ current' = "span_start_on_body"
           \/ current' = "header_field_start" /\ "TRAILING" \in flags'
    BY <1>16 DEF IsEqualContentLength
  <2>2. Stage = "chunk" /\ Stage' \in {"chunk", "failed"}
    BY <2>1
  <2> QED
    BY <2>1, <2>2, QuietStep
<1>17. CASE ChunkDataAlmostDone
  <2>1. /\ executing /\ finished' = finished /\ last' = last
        /\ current \in {"chunk_data_almost_done", "chunk_data_almost_done_skip"}
        /\ current' \in {"chunk_data_almost_done_skip", "on_chunk_complete"}
    BY <1>17 DEF ChunkDataAlmostDone
  <2>2. Stage = "chunk" /\ Stage' \in {"chunk", "failed"}
    BY <2>1
  <2> QED
    BY <2>1, <2>2, QuietStep
<1>18. CASE OnChunkComplete
  <2>1. /\ executing /\ current = "on_chunk_complete" /\ finished' = finished
        /\ last' = "chunk_complete" /\ (current' = "update_content_length" \/ Failed')
    BY <1>18 DEF OnChunkComplete
  <2>2. Stage = "chunk" /\ Stage' \in {"body", "failed"}
    BY <2>1
  <2>3. last # "header_field"
    BY <2>1 DEF OrderInv, BodyOrder, Going
  <2> QED
    BY <2>1, <2>2, <2>3 DEF Callbacks!Next, Callbacks!ChunkComplete, Callbacks!Call
<1>19. CASE OnChunkComplete1
  <2>1. /\ executing /\ current = "on_chunk_complete_1" /\ finished' = finished
        /\ last' = "chunk_complete" /\ (current' = "on_message_complete_2" \/ Failed')
    BY <1>19 DEF OnChunkComplete1
  <2>2. Stage = "chunk" /\ Stage' \in {"body", "failed"}
    BY <2>1 DEF FrameInv
  <2>3. last # "header_field"
    BY <2>1 DEF OrderInv, FieldOrder, Going
  <2> QED
    BY <2>1, <2>2, <2>3 DEF Callbacks!Next, Callbacks!ChunkComplete, Callbacks!Call
<1>20. CASE OnMessageComplete
  <2>1. /\ executing /\ current = "on_message_complete" /\ finished' = finished
        /\ last' = "message_complete" /\ (current' = "after_message_complete" \/ Failed')
    BY <1>20 DEF OnMessageComplete
  <2>2. Stage = "body" /\ Stage' \in {"between", "failed"}
    BY <2>1
  <2> QED
    BY <2>1, <2>2 DEF Callbacks!Next, Callbacks!MessageComplete, Callbacks!Call
<1>21. CASE OnMessageComplete2
  <2>1. /\ executing /\ current = "on_message_complete_2" /\ finished' = finished
        /\ last' = "message_complete" /\ (current' = "is_equal_upgrade" \/ Failed')
    BY <1>21 DEF OnMessageComplete2
  <2>2. Stage = "body" /\ Stage' \in {"between", "failed"}
    BY <2>1
  <2> QED
    BY <2>1, <2>2 DEF Callbacks!Next, Callbacks!MessageComplete, Callbacks!Call
<1>22. CASE OnMessageComplete1
  <2>1. /\ executing /\ current = "on_message_complete_1" /\ finished' = finished
        /\ last' = "message_complete" /\ (current' = "pause_1" \/ Failed')
    BY <1>22 DEF OnMessageComplete1
  <2>2. Stage = "body" /\ Stage' \in {"between", "failed"}
    BY <2>1
  <2> QED
    BY <2>1, <2>2 DEF Callbacks!Next, Callbacks!MessageComplete, Callbacks!Call
<1>23. CASE IsEqualUpgrade
  <2>1. /\ executing /\ current = "is_equal_upgrade" /\ finished' = finished
        /\ last' = last /\ (current' \in {"pause_1", "after_message_complete"} \/ Failed')
    BY <1>23 DEF IsEqualUpgrade
  <2>2. Stage = "between" /\ Stage' \in {"between", "failed"}
    BY <2>1
  <2> QED
    BY <2>1, <2>2, QuietStep
<1>24. CASE Pause1
  <2>1. /\ executing /\ current = "pause_1" /\ finished' = finished
        /\ last' = last /\ (current' = "after_message_complete" \/ Failed')
    BY <1>24 DEF Pause1
  <2>2. Stage = "between" /\ Stage' \in {"between", "failed"}
    BY <2>1
  <2> QED
    BY <2>1, <2>2, QuietStep
<1>25. CASE AfterMessageComplete
  <2>1. /\ executing /\ current = "after_message_complete" /\ finished' = finished
        /\ last' = last /\ (current' = "start" \/ Failed')
    BY <1>25 DEF AfterMessageComplete
  <2>2. Stage = "between" /\ Stage' \in {"between", "failed"}
    BY <2>1
  <2> QED
    BY <2>1, <2>2, QuietStep
<1> QED
  BY <1>1, <1>2, <1>3, <1>4, <1>5, <1>6, <1>7, <1>8, <1>9, <1>10, <1>11, <1>12, <1>13,
     <1>14, <1>15, <1>16, <1>17, <1>18, <1>19, <1>20, <1>21, <1>22, <1>23, <1>24, <1>25
     DEF BodyStep

\* A call that changes neither node nor error stays in its stage.
LEMMA StageKept ==
  ASSUME current' = current, flags' = flags, finish' = finish, finished' = finished,
         Failed' = Failed, finished = "no" \/ error' = error
  PROVE  Stage' = Stage
  BY DEF Stage

\* At the end of a buffer an open span is handed over in the node that began it.
LEMMA EndOfBufferCalls == IInv /\ EndOfBuffer => [Callbacks!Next]_<<Stage, last>>
<1> SUFFICES ASSUME IInv, EndOfBuffer PROVE [Callbacks!Next]_<<Stage, last>>
  OBVIOUS
<1>1. /\ ~Failed /\ finished = "no" /\ finished' = "no" /\ current' = current /\ flags' = flags
      /\ finish' = finish
  BY MessageKeeps
     DEF IInv, LexInv, ControlInv, EndOfBuffer, Return, Failed, Pauses, lifeVars, headVars
<1>2. Stage' = Stage \/ Stage' = "failed"
  <2>1. CASE Failed'
    BY <2>1, StageThen DEF StageFacts
  <2>2. CASE ~Failed'
    <3>1. Failed' = Failed
      BY <1>1, <2>2 DEF Failed
    <3> QED
      BY <1>1, <3>1, StageKept
  <2> QED
    BY <2>1, <2>2
<1>3. CASE span_pos0 = NULL
  BY <1>2, <1>3, QuietStep DEF EndOfBuffer
<1>4. CASE span_pos0 # NULL
  <2>1. last' = span_cb0
    BY <1>4 DEF EndOfBuffer
  <2>2. current \in UrlSpan \cup {"res_status"} \cup FieldSpan \cup ValueSpan \cup BodySpan
    BY <1>1, <1>4 DEF IInv, LexInv, SpanInv
  <2>3. CASE current \in UrlSpan \cup {"res_status"}
    <3>1. "TRAILING" \notin flags
      BY <1>1, <2>3
         DEF IInv, FrameInv, UrlSpan, UrlNodes, TrailingNodes, FieldsNodes, FieldSpan,
             ValueSpan, ValueNodes, BeforeValue, BehindValue, RefusedNodes, CompleteNodes
    <3>2. Stage = "head"
      BY <1>1, <2>3, <3>1, StageNow DEF StageFacts, StartLineNodes, UrlSpan, UrlNodes
    <3>3. CASE current \in UrlSpan
      <4>1. last' = "url" /\ last \in {"message_begin", "url"}
        BY <1>1, <2>1, <3>3 DEF IInv, LexInv, SpanInv, OrderInv, LineOrder, Going
      <4> QED
        BY <1>2, <3>2, <4>1 DEF Callbacks!Next, Callbacks!Url, Callbacks!Call
    <3>4. CASE current = "res_status"
      <4>1. last' = "status" /\ last \in {"message_begin", "status"}
        BY <1>1, <2>1, <3>4 DEF IInv, LexInv, SpanInv, OrderInv, LineOrder, Going
      <4> QED
        BY <1>2, <3>2, <4>1 DEF Callbacks!Next, Callbacks!Status, Callbacks!Call
    <3> QED
      BY <2>3, <3>3, <3>4
  <2>4. CASE current \in FieldSpan \cup ValueSpan
    <3>1. Stage = IF "TRAILING" \in flags THEN "chunk" ELSE "head"
      BY <1>1, <2>4, StageNow
         DEF StageFacts, HeaderNodes, FieldSpan, ValueSpan, ValueNodes
    <3>2. CASE current \in FieldSpan
      <4>1. /\ last' = "header_field" /\ last # "none"
            /\ "TRAILING" \in flags => last \in {"chunk_header", "header_field", "header_value"}
        BY <1>1, <2>1, <3>2 DEF IInv, LexInv, SpanInv, OrderInv, FieldOrder, Going
      <4> QED
        BY <1>2, <3>1, <4>1
           DEF Callbacks!Next, Callbacks!HeaderField, Callbacks!InFields, Callbacks!Call
    <3>3. CASE current \in ValueSpan
      <4>1. last' = "header_value" /\ last \in {"header_field", "header_value"}
        BY <1>1, <2>1, <3>3 DEF IInv, LexInv, SpanInv, OrderInv, FieldOrder, Going
      <4> QED
        BY <1>2, <3>1, <4>1
           DEF Callbacks!Next, Callbacks!HeaderValue, Callbacks!InFields, Callbacks!Call
    <3> QED
      BY <2>4, <3>2, <3>3
  <2>5. CASE current \in BodySpan
    <3>1. last' = "body"
      BY <2>1, <2>5 DEF IInv, LexInv, SpanInv
    <3>2. \/ Stage = "chunk" /\ last \in {"chunk_header", "body"}
          \/ Stage = "body" /\ last \in {"headers_complete", "body"}
      BY <1>1, <2>5, StageNow
         DEF StageFacts, BodySpan, PlainNodes, LengthNodes, ChunkDataNodes,
             ChunkSizeNodes, IInv, OrderInv, BodyOrder, Going
    <3> QED
      BY <1>2, <3>1, <3>2 DEF Callbacks!Next, Callbacks!Body, Callbacks!Call
  <2> QED
    BY <2>2, <2>3, <2>4, <2>5
<1> QED
  BY <1>3, <1>4

\* llhttp_finish,
LEMMA FinishCalls == IInv /\ Finish => [Callbacks!Next]_<<Stage, last>>
<1> SUFFICES ASSUME IInv, Finish PROVE [Callbacks!Next]_<<Stage, last>>
  OBVIOUS
<1>1. /\ current' = current /\ flags' = flags /\ finish' = finish /\ error' = error
      /\ finished = "no" /\ finished' # "no"
  BY DEF Finish, Between, headVars, Answers
<1>2. CASE error = "OK" /\ finish = "SAFE_WITH_CB"
  <2>1. current = "eof" /\ ~Failed /\ ~Failed' /\ last' = "message_complete"
    BY <1>1, <1>2 DEF IInv, FinishInv, Failed, Pauses, Finish
  <2>2. Stage = "body"
    BY <1>1, <2>1, StageNow DEF StageFacts, PlainNodes
  <2>3. Stage' = "between"
    BY <1>1, <1>2, <2>1 DEF Stage
  <2> QED
    BY <2>1, <2>2, <2>3 DEF Callbacks!Next, Callbacks!MessageComplete, Callbacks!Call
<1>3. CASE ~(error = "OK" /\ finish = "SAFE_WITH_CB")
  <2>1. last' = last
    BY <1>3 DEF Finish
  <2>2. Stage' = Stage
    BY <1>1, <1>3 DEF Stage, Failed
  <2> QED
    BY <2>1, <2>2, QuietStep
<1> QED
  BY <1>2, <1>3

\* and every other call.
LEMMA CallsCalls == IInv /\ CallStep => [Callbacks!Next]_<<Stage, last>>
<1> SUFFICES ASSUME IInv, CallStep PROVE [Callbacks!Next]_<<Stage, last>>
  OBVIOUS
<1>1. CASE Execute \/ MatchPause
  <2>1. /\ current' = current /\ flags' = flags /\ finish' = finish /\ finished' = finished
        /\ error' = error /\ last' = last
    BY <1>1, MessageKeeps DEF Execute, MatchPause
  <2> QED
    BY <2>1, StageKept, QuietStep DEF Failed
<1>2. CASE Pause \/ Resume
  <2>1. /\ current' = current /\ flags' = flags /\ finish' = finish /\ finished' = finished
        /\ finished = "no" /\ last' = last
    BY <1>2, MessageKeeps DEF Pause, Resume, Between
  <2>2. Failed' = Failed
    BY <1>2 DEF Pause, Resume, Failed, Pauses
  <2> QED
    BY <2>1, <2>2, StageKept, QuietStep
<1>3. CASE EndOfBuffer
  BY <1>3, EndOfBufferCalls
<1>4. CASE Finish
  BY <1>4, FinishCalls
<1>5. CASE Stopped
  <2>1. /\ current' = current /\ flags' = flags /\ finish' = finish /\ finished' = finished
        /\ error' = error /\ last' = last
    BY <1>5, VarsKept DEF Stopped
  <2> QED
    BY <2>1, StageKept, QuietStep DEF Failed
<1> QED
  BY <1>1, <1>2, <1>3, <1>4, <1>5 DEF CallStep

\* The callbacks come in the order of HttpCallbacks.
THEOREM OrderKept == Spec => CallbackOrder
<1>1. Init => Callbacks!Init
  BY DEF Init, Callbacks!Init, Stage, Failed, Pauses, BetweenNodes
<1>2. IInv /\ [Next]_vars => [Callbacks!Next]_<<Stage, last>>
  <2> SUFFICES ASSUME IInv, [Next]_vars PROVE [Callbacks!Next]_<<Stage, last>>
    OBVIOUS
  <2>1. CASE UNCHANGED vars
    <3>1. Stage' = Stage /\ last' = last
      BY <2>1, VarsKept, StageKept DEF Failed
    <3> QED
      BY <3>1
  <2> QED
    BY <2>1, StartLineCalls, HeadersCalls, BodyCalls, CallsCalls DEF Next, Run, CallStep
<1> QED
  BY <1>1, <1>2, Invariant, PTL DEF Spec, CallbackOrder, Callbacks!Spec

-----------------------------------------------------------------------------
(* llhttp_execute returns.                                                 *)

\* How many gotos at most lead on from node n when the buffer has ended.
Gotos(n) ==
  CASE n = "test_flags" -> 6
    [] n = "before_headers_complete" -> 5
    [] n \in {"on_headers_complete", "on_chunk_complete_1"} -> 4
    [] n \in {"after_headers_complete", "on_message_complete_2"} -> 3
    [] n \in {"on_message_begin", "on_chunk_header", "on_chunk_complete", "on_message_complete",
              "on_message_complete_1", "is_equal_upgrade"} -> 2
    [] n \in {"load_type", "load_header_state_1", "is_equal_content_length",
              "update_content_length", "pause_1", "after_message_complete"} -> 1
    [] OTHER -> 0

\* The run has come to the end of the buffer.
Ended == executing /\ at = End

\* A step at the end of the buffer returns, or it is a goto to a node with fewer to come.
GoesDown == ~executing' \/ (executing' /\ at' = End /\ Gotos(current') < Gotos(current))

\* The table, entry by entry.
LEMMA GotosOf ==
  /\ Gotos("test_flags") = 6 /\ Gotos("before_headers_complete") = 5
  /\ Gotos("on_headers_complete") = 4 /\ Gotos("on_chunk_complete_1") = 4
  /\ Gotos("after_headers_complete") = 3 /\ Gotos("on_message_complete_2") = 3
  /\ Gotos("on_message_begin") = 2 /\ Gotos("on_chunk_header") = 2
  /\ Gotos("on_chunk_complete") = 2 /\ Gotos("on_message_complete") = 2
  /\ Gotos("on_message_complete_1") = 2 /\ Gotos("is_equal_upgrade") = 2
  /\ Gotos("load_type") = 1 /\ Gotos("load_header_state_1") = 1
  /\ Gotos("is_equal_content_length") = 1 /\ Gotos("update_content_length") = 1
  /\ Gotos("pause_1") = 1 /\ Gotos("after_message_complete") = 1
  BY DEF Gotos

\* From a node the automaton returns, or goes to n, which has fewer gotos to come.
LEMMA LessToCome ==
  ASSUME NEW n, Ended, Gotos(n) < Gotos(current),
         ~executing' \/ (current' = n /\ UNCHANGED <<executing, at>>)
  PROVE  GoesDown
  BY DEF Ended, GoesDown

\* When a callback is called, and when it is not.
LEMMA NotifyGoesDown ==
  ASSUME NEW n, NEW m, NEW cb, NEW e, Ended, Gotos(m) < Gotos(n), At(n), Notify(cb, m, e)
  PROVE  GoesDown
  BY LessToCome DEF Notify, Goto, Return, Fail, At

LEMMA GotoGoesDown ==
  ASSUME NEW n, NEW m, Ended, Gotos(m) < Gotos(n), At(n), Goto(m)
  PROVE  GoesDown
  BY LessToCome DEF Goto, At

\* The nodes of the body.
LEMMA EndOfBodyGoesDown == Ended /\ BodyStep => GoesDown
<1> SUFFICES ASSUME Ended, BodyStep PROVE GoesDown
  OBVIOUS
<1> USE GotosOf
<1>1. CASE TestFlags
  <2>1. Goto("on_chunk_complete_1") \/ Goto("before_headers_complete") \/ ~executing'
    BY <1>1 DEF TestFlags, Fail, Return
  <2> QED
    BY <1>1, <2>1, GotoGoesDown DEF TestFlags, GoesDown
<1>2. CASE BeforeHeadersComplete
  BY <1>2, GotoGoesDown DEF BeforeHeadersComplete
<1>3. CASE OnHeadersComplete
  <2>1. \/ Notify("headers_complete", "after_headers_complete", "CB_HEADERS_COMPLETE")
        \/ Goto("after_headers_complete")
    BY <1>3 DEF OnHeadersComplete
  <2> QED
    BY <1>3, <2>1, GotoGoesDown, NotifyGoesDown DEF OnHeadersComplete
<1>4. CASE AfterHeadersComplete
  <2>1. Gotos(AfterHeaders) < 3
    BY DEF AfterHeaders, Gotos
  <2> QED
    BY <1>4, <2>1, GotoGoesDown DEF AfterHeadersComplete
<1>5. CASE \/ SpanStartOnBody \/ SpanStartOnBody1 \/ SpanStartOnBody2 \/ Eof
           \/ ConsumeContentLength \/ ConsumeContentLength1
           \/ ChunkSize \/ ChunkParameters \/ ChunkSizeAlmostDone \/ ChunkDataAlmostDone
  BY <1>5 DEF SpanStartOnBody, SpanStartOnBody1, SpanStartOnBody2, Eof, ConsumeContentLength,
              ConsumeContentLength1, ConsumeAll, ConsumePart, ChunkSize, ChunkParameters,
              ChunkSizeAlmostDone, ChunkDataAlmostDone, AtByte, Ended
<1>6. CASE UpdateContentLength
  <2>1. Gotos("chunk_size") = 0
    BY DEF Gotos
  <2> QED
    BY <1>6, <2>1, GotoGoesDown DEF UpdateContentLength
<1>7. CASE OnChunkHeader
  BY <1>7, NotifyGoesDown DEF OnChunkHeader
<1>8. CASE IsEqualContentLength
  <2>1. Gotos("span_start_on_body") = 0 /\ Gotos("header_field_start") = 0
    BY DEF Gotos
  <2>2. Goto("span_start_on_body") \/ Goto("header_field_start")
    BY <1>8 DEF IsEqualContentLength
  <2> QED
    BY <1>8, <2>1, <2>2, GotoGoesDown DEF IsEqualContentLength
<1>9. CASE OnChunkComplete
  BY <1>9, NotifyGoesDown DEF OnChunkComplete
<1>10. CASE OnChunkComplete1
  BY <1>10, NotifyGoesDown DEF OnChunkComplete1
<1>11. CASE OnMessageComplete
  BY <1>11, NotifyGoesDown DEF OnMessageComplete
<1>12. CASE OnMessageComplete2
  BY <1>12, NotifyGoesDown DEF OnMessageComplete2
<1>13. CASE OnMessageComplete1
  BY <1>13, NotifyGoesDown DEF OnMessageComplete1
<1>14. CASE IsEqualUpgrade
  <2>1. Goto("pause_1") \/ Goto("after_message_complete")
    BY <1>14 DEF IsEqualUpgrade
  <2> QED
    BY <1>14, <2>1, GotoGoesDown DEF IsEqualUpgrade
<1>15. CASE Pause1
  BY <1>15 DEF Pause1, Return, GoesDown
<1>16. CASE AfterMessageComplete
  <2>1. Gotos("start") = 0
    BY DEF Gotos
  <2> QED
    BY <1>16, <2>1, GotoGoesDown DEF AfterMessageComplete
<1> QED
  BY <1>1, <1>2, <1>3, <1>4, <1>5, <1>6, <1>7, <1>8, <1>9, <1>10, <1>11, <1>12, <1>13, <1>14,
     <1>15, <1>16 DEF BodyStep

\* Of the other nodes only four do not look at the byte.
LEMMA EndGoesDown == Ended /\ Run => GoesDown
<1> SUFFICES ASSUME Ended, Run PROVE GoesDown
  OBVIOUS
<1>1. CASE StartLineStep
  <2>1. OnMessageBegin \/ LoadType
    BY <1>1 DEF Ended, StartLineStep, AtByte, Start, StartReqOrRes, ReqOrResMethod, StartReq,
                StartRes, ReqFirstSpaceBeforeUrl, ReqSpacesBeforeUrl, UrlStart, UrlSchema,
                UrlSchemaDelim, UrlServer, UrlServerWithAt, UrlPath, UrlQueryOrFragment, UrlQuery,
                UrlFragment, UrlSkipToHttp09, UrlSkipLfToHttp09, UrlSkipToHttp, ReqHttpStart,
                ReqHttpVersion, HttpVersion, ReqHttpEnd, ReqHttpEnd1, ResHttpVersion, ResHttpEnd,
                ResStatusCode, ResStatusStart, ResStatus, ResLineAlmostDone
  <2>2. CASE OnMessageBegin
    BY <2>2, NotifyGoesDown, GotosOf DEF OnMessageBegin
  <2>3. CASE LoadType
    <3>1. PICK n \in {"start_req", "start_res", "start_req_or_res"} : Goto(n)
      BY <2>3 DEF LoadType
    <3>2. Gotos(n) = 0
      BY DEF Gotos
    <3> QED
      BY <2>3, <3>1, <3>2, GotoGoesDown, GotosOf DEF LoadType
  <2> QED
    BY <2>1, <2>2, <2>3
<1>2. CASE HeadersStep
  <2>1. LoadHeaderState1 \/ InvalidContentLength
    BY <1>2 DEF Ended, HeadersStep, AtByte, HeaderFieldStart, HeaderField, HeaderFieldGeneral,
                HeaderFieldColon, HeaderValueDiscardWs, HeaderValueDiscardWsAlmostDone,
                HeaderValueDiscardLws, HeaderValue, HeaderValueConnection,
                HeaderValueConnectionToken, HeaderValueConnectionWs, HeaderValueContentLength,
                HeaderValueContentLengthWs, HeaderValueTeChunked, HeaderValueDiscardRws,
                HeaderValueOtherwise, HeaderValueAlmostDone, HeaderValueLws, HeadersAlmostDone
  <2>2. CASE LoadHeaderState1
    <3>1. \/ ~executing'
          \/ \E n \in {"header_value", "header_value_connection", "header_value_te_chunked",
                       "header_value_content_length"} : Goto(n)
      BY <2>2, LoadStep DEF Fail, Return
    <3>2. \A n \in {"header_value", "header_value_connection", "header_value_te_chunked",
                   "header_value_content_length"} : Gotos(n) = 0
      BY DEF Gotos
    <3>3. At("load_header_state_1")
      BY <2>2, LoadStep
    <3> QED
      BY <3>1, <3>2, <3>3, GotoGoesDown, GotosOf DEF GoesDown
  <2>3. CASE InvalidContentLength
    BY <2>3 DEF InvalidContentLength, Fail, Return, GoesDown
  <2> QED
    BY <2>1, <2>2, <2>3
<1>3. CASE BodyStep
  BY <1>3, EndOfBodyGoesDown
<1>4. CASE MatchPause \/ EndOfBuffer
  BY <1>4 DEF MatchPause, MatchByte, EndOfBuffer, Return, Ended, GoesDown, End
<1> QED
  BY <1>1, <1>2, <1>3, <1>4 DEF Run

\* During a call nothing else than the automaton moves.
LEMMA OnlyRun == executing /\ [Next]_vars => (IInv => Run \/ UNCHANGED vars)
  BY DEF Next, Execute, Pause, Resume, Finish, Between, Stopped

\* The buffer has ended, and at most k gotos are to come.
Within(k) == Ended /\ Gotos(current) <= k

\* No step brings more of them, and each step of the automaton takes one.
LEMMA WithinStep ==
  \A k \in 0..6 :
    /\ IInv /\ Within(k) /\ [Next]_vars => Within(k)' \/ ~executing'
    /\ Within(k) /\ Run => (k # 0 /\ Within(k - 1)') \/ ~executing'
<1> SUFFICES ASSUME NEW k \in 0..6, Within(k)
             PROVE  /\ IInv /\ [Next]_vars => Within(k)' \/ ~executing'
                    /\ Run => (k # 0 /\ Within(k - 1)') \/ ~executing'
  BY DEF Within
<1>1. \A n : Gotos(n) \in 0..6
  BY DEF Gotos
<1>2. Run => (k # 0 /\ Within(k - 1)') \/ ~executing'
  BY <1>1, EndGoesDown DEF GoesDown, Within, Ended
<1>3. Run => Within(k)' \/ ~executing'
  BY <1>1, <1>2 DEF Within
<1>4. UNCHANGED vars => Within(k)'
  BY VarsKept DEF Within, Ended
<1> QED
  BY <1>2, <1>3, <1>4, OnlyRun DEF Within, Ended

\* The automaton has a step at the end of a buffer.
CanEnd == [](Ended => ENABLED <<at = End /\ Run>>_vars)

\* llhttp_execute returns, wherever the buffer ends and whatever the callbacks answer: the
\* gotos that follow the end of a buffer make no cycle, and at most six lead on.
THEOREM CallReturns == Spec /\ CanEnd => ExecuteReturns
<1>1. Ended => Within(6)
  BY DEF Within, Gotos
<1>2. Within(6) => Ended
  BY DEF Within
<1>3. IInv /\ [Next]_vars =>
        /\ Within(6) => Within(6)' \/ ~executing'
        /\ Within(5) => Within(5)' \/ ~executing'
        /\ Within(4) => Within(4)' \/ ~executing'
        /\ Within(3) => Within(3)' \/ ~executing'
        /\ Within(2) => Within(2)' \/ ~executing'
        /\ Within(1) => Within(1)' \/ ~executing'
        /\ Within(0) => Within(0)' \/ ~executing'
  BY WithinStep
<1>4. <<at = End /\ Run>>_vars =>
        /\ Within(6) => Within(5)' \/ ~executing'
        /\ Within(5) => Within(4)' \/ ~executing'
        /\ Within(4) => Within(3)' \/ ~executing'
        /\ Within(3) => Within(2)' \/ ~executing'
        /\ Within(2) => Within(1)' \/ ~executing'
        /\ Within(1) => Within(0)' \/ ~executing'
        /\ Within(0) => ~executing'
  BY WithinStep
<1>5. Within(0) \/ Within(1) \/ Within(2) \/ Within(3) \/ Within(4) \/ Within(5) => Ended
  BY DEF Within
<1>6. Ended <=> executing /\ at = End
  BY DEF Ended
<1> QED
  BY <1>1, <1>2, <1>3, <1>4, <1>5, <1>6, Invariant, PTL DEF Spec, CanEnd, ExecuteReturns
=============================================================================
