---------------------------- MODULE MCClassMixin ----------------------------
(***************************************************************************)
(* A small instance of ClassMixin: Stream is the parent of Socket and of   *)
(* File, and Both inherits from Socket and File, hence from Stream twice.  *)
(* Logger is apart.  All but File export a name another class exports too. *)
(***************************************************************************)
EXTENDS ClassMixin

CONSTANTS Stream, Socket, File, Both, Logger, close, send, log, o1, o2, o3

MCParents == [c \in Classes |-> CASE c \in {Socket, File} -> <<Stream>>
                                  [] c = Both -> <<Socket, File>>
                                  [] OTHER -> <<>>]
MCAncestors == [c \in Classes |-> CASE c \in {Socket, File} -> {Stream}
                                    [] c = Both -> {Socket, File, Stream}
                                    [] OTHER -> {}]

method(n) == [name |-> n, kind |-> "method"]
MCMethods == [c \in Classes |-> CASE c = Stream -> <<method(close)>>
                                  [] c = Socket -> <<method(close), method(send)>>
                                  [] c = Logger -> <<method(log), method(close)>>
                                  [] OTHER -> <<>>]
MCFunctions == [c \in Classes |-> IF c \in {Both, Logger} THEN <<[name |-> log, kind |-> "function"]>>
                                                          ELSE <<>>]

\* Of each class the export that inheritance finds: Stream's close hides that of
\* Socket in Both, because File brings it again.
Found(o, c, n) ==
  LET m == "MIXIN_METHOD" \in o
      f == "MIXIN_FUNCTION" \in o
      of(k, kind) == [owner |-> k, kind |-> kind, clsid |-> k]
  IN CASE n = close /\ m -> of(IF c \in {Socket, Logger} THEN c ELSE Stream, "method")
       [] n = send /\ m /\ c \in {Socket, Both} -> of(Socket, "method")
       [] n = log /\ f /\ c \in {Both, Logger} -> of(c, "function")
       [] n = log /\ m /\ ~ f /\ c = Logger -> of(Logger, "method")
       [] OTHER -> Nobody
MCWinner == [o \in Options |-> [c \in Classes |-> [n \in Names |-> Found(o, c, n)]]]

MCClassOf == [x \in Objects |-> CASE x = o1 -> Stream [] x = o2 -> Socket [] OTHER -> Both]
=============================================================================
