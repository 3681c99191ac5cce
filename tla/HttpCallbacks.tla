---------------------------- MODULE HttpCallbacks ----------------------------
(***************************************************************************)
(* What the user of the HTTP parser sees: the order of the callbacks.  A   *)
(* message has one beginning, a head, one end of the head, a body that is  *)
(* either plain or made of chunks, each with a beginning and an end, and   *)
(* one end.  The trailing fields belong to the last chunk.  After a        *)
(* failure nothing is called any more.                                     *)
(***************************************************************************)

VARIABLES
  stage,  \* "between" messages, "head", "body", "chunk" or "failed"
  last    \* the last callback, "none" before the first

Init == stage = "between" /\ last = "none"

\* Callback cb is called; it leads to stage next unless it, or what follows, fails.
Call(cb, next) == last' = cb /\ stage' \in {next, "failed"}

MessageBegin == /\ stage = "between"
                /\ Call("message_begin", "head")

Url == /\ stage = "head" /\ last \in {"message_begin", "url"}
       /\ Call("url", "head")

Status == /\ stage = "head" /\ last \in {"message_begin", "status"}
          /\ Call("status", "head")

\* Where a field may begin: in the head, or after the last chunk's size.
InFields == \/ stage = "head" /\ last # "none"
            \/ stage = "chunk" /\ last \in {"chunk_header", "header_field", "header_value"}

HeaderField == InFields /\ Call("header_field", stage)

HeaderValue == /\ InFields /\ last \in {"header_field", "header_value"}
               /\ Call("header_value", stage)

HeadersComplete == /\ stage = "head" /\ last # "header_field"
                   /\ Call("headers_complete", "body")

Body == /\ \/ stage = "body" /\ last \in {"headers_complete", "body"}
           \/ stage = "chunk" /\ last \in {"chunk_header", "body"}
        /\ Call("body", stage)

ChunkHeader == /\ stage = "body" /\ last \in {"headers_complete", "chunk_complete"}
               /\ Call("chunk_header", "chunk")

ChunkComplete == /\ stage = "chunk" /\ last # "header_field"
                 /\ Call("chunk_complete", "body")

MessageComplete == /\ stage = "body"
                   /\ Call("message_complete", "between")

\* The input is wrong, or the message is over without a callback.
Fail == stage # "failed" /\ stage' = "failed" /\ UNCHANGED last

Next == \/ MessageBegin \/ Url \/ Status \/ HeaderField \/ HeaderValue
        \/ HeadersComplete \/ Body \/ ChunkHeader \/ ChunkComplete
        \/ MessageComplete \/ Fail

Spec == Init /\ [][Next]_<<stage, last>>
==============================================================================
