---------------------------- MODULE HttpStartLine ----------------------------
(***************************************************************************)
(* The HTTP parser, up to the first header: the nodes of the request line  *)
(* with its URL, and of the status line.                                   *)
(***************************************************************************)
EXTENDS HttpParserState

-----------------------------------------------------------------------------
(* The first bytes of a message.                                           *)

Start ==
  /\ AtByte("start")
  /\ IF at \in LineEnd
     THEN Advance("start") /\ Lexing
     ELSE /\ finish' = "UNSAFE" /\ leftover' = (content_length # 0) /\ owed' = 0
          /\ Goto("on_message_begin")
          /\ UNCHANGED <<lexVars, last, lineVars, headVars, content_length, finished>>

OnMessageBegin ==
  /\ At("on_message_begin")
  /\ Notify("message_begin", "load_type", "CB_MESSAGE_BEGIN")
  /\ UNCHANGED <<lexVars, messageVars>>

LoadType ==
  /\ At("load_type")
  /\ Goto(CASE type = "REQUEST" -> "start_req"
            [] type = "RESPONSE" -> "start_res"
            [] OTHER -> "start_req_or_res")
  /\ Lexing

\* A letter H leaves it open what comes; any other is of a request.
StartReqOrRes ==
  /\ AtByte("start_req_or_res")
  /\ \/ at = "word" /\ Goto("req_or_res_method") /\ UNCHANGED type
     \/ Goto("start_req") /\ type' = "REQUEST"
  /\ UNCHANGED <<lexVars, last, method, status_code, headVars, bodyVars, lifeVars>>

\* HEAD, HTTP/, or neither.
ReqOrResMethod ==
  /\ AtByte("req_or_res_method")
  /\ \/ /\ MatchComplete /\ Advance("req_first_space_before_url")
        /\ type' = "REQUEST" /\ method' = "other"
     \/ MatchComplete /\ Advance("res_http_major") /\ type' = "RESPONSE" /\ UNCHANGED method
     \/ index' = 0 /\ Fail("INVALID_CONSTANT") /\ UNCHANGED <<type, method>>
  /\ UNCHANGED <<status_code, headVars, bodyVars, lifeVars>> /\ Matching

StartReq ==
  /\ AtByte("start_req")
  /\ \/ /\ MatchComplete /\ method' \in Methods
        /\ Advance("req_first_space_before_url")
     \/ index' = 0 /\ Fail("INVALID_METHOD") /\ UNCHANGED method
  /\ UNCHANGED <<type, status_code, headVars, bodyVars, lifeVars>> /\ Matching

StartRes ==
  /\ AtByte("start_res")
  /\ \/ MatchComplete /\ Advance("res_http_major")
     \/ index' = 0 /\ Fail("INVALID_CONSTANT")
  /\ UNCHANGED messageVars /\ Matching

-----------------------------------------------------------------------------
(* The URL of a request, in one span.                                      *)

ReqFirstSpaceBeforeUrl ==
  /\ AtByte("req_first_space_before_url")
  /\ IF at = "SP" THEN Advance("req_spaces_before_url") ELSE Fail("INVALID_METHOD")
  /\ Lexing

\* CONNECT has a host where the others have a URL.
ReqSpacesBeforeUrl ==
  /\ AtByte("req_spaces_before_url")
  /\ IF at = "SP"
     THEN Advance("req_spaces_before_url") /\ Lexing
     ELSE /\ SpanStart("url", IF method = "CONNECT" THEN "url_server" ELSE "url_start")
          /\ UNCHANGED <<index, last, messageVars>>

UrlGap == LineEnd \cup {"SP"}

UrlStart ==
  /\ AtByte("url_start")
  /\ CASE at = "slash" -> Advance("url_path")
       [] at = "alpha" -> Goto("url_schema")
       [] OTHER -> Fail("INVALID_URL")
  /\ Lexing

UrlSchema ==
  /\ AtByte("url_schema")
  /\ CASE at = "alpha" -> Advance("url_schema")
       [] at = "colon" -> Advance("url_schema_delim")
       [] OTHER -> Fail("INVALID_URL")
  /\ Lexing

\* The two slashes.
UrlSchemaDelim ==
  /\ AtByte("url_schema_delim")
  /\ \/ at = "slash" /\ (Advance("url_schema_delim") \/ Advance("url_server"))
     \/ at # "slash" /\ Fail("INVALID_URL")
  /\ Lexing

\* The span ends before the byte that ends the URL.
UrlEnd ==
  /\ at \in UrlGap
  /\ SpanEndGoto(CASE at = "LF" -> "url_skip_to_http09"
                   [] at = "CR" -> "url_skip_lf_to_http09"
                   [] at = "SP" -> "url_skip_to_http")
  /\ UNCHANGED <<index, messageVars>>

\* Only two @ in a row are refused.
UrlServer(n) ==
  /\ AtByte(n)
  /\ \/ UrlEnd
     \/ /\ at \notin UrlGap
        /\ CASE at \in {"alpha", "digit", "colon"} -> Advance("url_server")
             [] at = "slash" -> Advance("url_path")
             [] at = "qmark" -> Advance("url_query")
             [] at = "at" /\ n = "url_server" -> Advance("url_server_with_at")
             [] OTHER -> Fail("INVALID_URL")
        /\ Lexing

UrlServerWithAt == UrlServer("url_server_with_at")

UrlPath ==
  /\ AtByte("url_path")
  /\ IF at \in {"slash", "alpha", "digit", "at", "colon"}
     THEN Advance("url_path")
     ELSE Goto("url_query_or_fragment")
  /\ Lexing

UrlQueryOrFragment ==
  /\ AtByte("url_query_or_fragment")
  /\ \/ UrlEnd
     \/ /\ at \notin UrlGap
        /\ CASE at = "hash" -> Advance("url_fragment")
             [] at = "qmark" -> Advance("url_query")
             [] OTHER -> Fail("INVALID_URL")
        /\ Lexing

UrlQuery ==
  /\ AtByte("url_query")
  /\ \/ UrlEnd
     \/ /\ at \notin UrlGap
        /\ CASE at = "hash" -> Advance("url_fragment")
             [] at = "bad" -> Fail("INVALID_URL")
             [] OTHER -> Advance("url_query")
        /\ Lexing

UrlFragment ==
  /\ AtByte("url_fragment")
  /\ \/ UrlEnd
     \/ /\ at \notin UrlGap
        /\ IF at = "bad" THEN Fail("INVALID_URL") ELSE Advance("url_fragment")
        /\ Lexing

-----------------------------------------------------------------------------
(* The rest of the request line.                                           *)

\* Without a version it is HTTP/0.9, after LF and after CR LF.
UrlSkipToHttp09 ==
  /\ AtByte("url_skip_to_http09") /\ Advance("header_field_start") /\ Lexing

UrlSkipLfToHttp09 ==
  /\ AtByte("url_skip_lf_to_http09")
  /\ \/ MatchComplete /\ Advance("header_field_start")
     \/ index' = 0 /\ Fail("INVALID_URL")
  /\ UNCHANGED messageVars /\ Matching

UrlSkipToHttp ==
  /\ AtByte("url_skip_to_http") /\ Advance("req_http_start") /\ Lexing

\* HTTP/, or ICE/ when the method is SOURCE.
ReqHttpStart ==
  /\ AtByte("req_http_start")
  /\ \/ at = "SP" /\ index = 0 /\ Advance("req_http_start") /\ UNCHANGED index
     \/ MatchComplete /\ Advance("req_http_major")
     \/ MatchComplete /\ method # "SOURCE" /\ Fail("INVALID_CONSTANT")
     \/ /\ at # "SP" \/ index = 1
        /\ index' = 0 /\ Fail("INVALID_CONSTANT")
  /\ UNCHANGED messageVars /\ Matching

\* A digit, a dot and a digit.
HttpVersion(major, dot, minor, next) ==
  /\ AtByte(current)
  /\ CASE current = major /\ at = "digit" -> Advance(dot)
       [] current = dot /\ at = "dot" -> Advance(minor)
       [] current = minor /\ at = "digit" -> Advance(next)
       [] OTHER -> Fail("INVALID_VERSION")
  /\ Lexing

ReqHttpVersion ==
  /\ current \in {"req_http_major", "req_http_dot", "req_http_minor"}
  /\ HttpVersion("req_http_major", "req_http_dot", "req_http_minor", "req_http_end")

ReqHttpEnd ==
  /\ AtByte("req_http_end")
  /\ CASE at = "LF" -> Advance("header_field_start")
       [] at = "CR" -> Advance("req_http_end_1")
       [] OTHER -> Fail("INVALID_VERSION")
  /\ Lexing

ReqHttpEnd1 ==
  /\ AtByte("req_http_end_1")
  /\ IF at = "LF" THEN Advance("header_field_start") ELSE Fail("INVALID_VERSION")
  /\ Lexing

-----------------------------------------------------------------------------
(* The status line.                                                        *)

ResHttpVersion ==
  /\ current \in {"res_http_major", "res_http_dot", "res_http_minor"}
  /\ HttpVersion("res_http_major", "res_http_dot", "res_http_minor", "res_http_end")

ResHttpEnd ==
  /\ AtByte("res_http_end")
  /\ \/ at = "SP" /\ Advance("res_status_code") /\ status_code' = 0
     \/ at # "SP" /\ Fail("INVALID_VERSION") /\ UNCHANGED status_code
  /\ UNCHANGED <<lexVars, last, type, method, headVars, bodyVars, lifeVars>>

\* The number that the digits make, at most 999, and what ends it.
ResStatusCode ==
  /\ AtByte("res_status_code")
  /\ \/ at = "digit" /\ status_code' \in StatusCodes /\ Advance("res_status_code")
     \/ at \in {"digit", "bad"} /\ Fail("INVALID_STATUS") /\ UNCHANGED status_code
     \/ at = "SP" /\ Advance("res_status_start") /\ UNCHANGED status_code
     \/ at \in LineEnd /\ Goto("res_status_start") /\ UNCHANGED status_code
  /\ UNCHANGED <<lexVars, last, type, method, headVars, bodyVars, lifeVars>>

ResStatusStart ==
  /\ AtByte("res_status_start")
  /\ \/ /\ at \notin LineEnd
        /\ SpanStart("status", "res_status")
        /\ UNCHANGED <<index, last, messageVars>>
     \/ /\ at \in LineEnd
        /\ Advance(IF at = "LF" THEN "header_field_start" ELSE "res_line_almost_done")
        /\ Lexing

ResStatus ==
  /\ AtByte("res_status")
  /\ \/ at \notin LineEnd /\ Advance("res_status") /\ Lexing
     \/ /\ at \in LineEnd
        /\ SpanEndAdvance(IF at = "LF" THEN "header_field_start" ELSE "res_line_almost_done")
        /\ UNCHANGED <<index, messageVars>>

ResLineAlmostDone ==
  /\ AtByte("res_line_almost_done") /\ Advance("header_field_start") /\ Lexing

StartLineStep ==
  \/ Start \/ OnMessageBegin \/ LoadType \/ StartReqOrRes \/ ReqOrResMethod
  \/ StartReq \/ StartRes
  \/ ReqFirstSpaceBeforeUrl \/ ReqSpacesBeforeUrl \/ UrlStart \/ UrlSchema \/ UrlSchemaDelim
  \/ UrlServer("url_server") \/ UrlServerWithAt \/ UrlPath \/ UrlQueryOrFragment
  \/ UrlQuery \/ UrlFragment
  \/ UrlSkipToHttp09 \/ UrlSkipLfToHttp09 \/ UrlSkipToHttp
  \/ ReqHttpStart \/ ReqHttpVersion \/ ReqHttpEnd \/ ReqHttpEnd1
  \/ ResHttpVersion \/ ResHttpEnd \/ ResStatusCode \/ ResStatusStart \/ ResStatus
  \/ ResLineAlmostDone
==============================================================================
