---------------------------- MODULE MessageLink ----------------------------
(***************************************************************************)
(* What the websocket layer promises aiui_api.c (aiui_websocket_api.h): at  *)
(* most one connection at a time, each opened once, and a message is        *)
(* delivered only while its connection is the current one, at most once.    *)
(* In particular nothing is delivered on behalf of a connection that        *)
(* aiui_websocket_disconect has ended.                                      *)
(***************************************************************************)
CONSTANTS Conn, NoConn, Msg

VARIABLES cur,    \* the current connection
          used,   \* the connections opened so far
          seen    \* what was delivered for each connection

linkVars == <<cur, used, seen>>

Init ==
  /\ cur = NoConn
  /\ used = {}
  /\ seen = [c \in Conn |-> {}]

Open(c) ==
  /\ cur = NoConn
  /\ c \notin used
  /\ cur' = c
  /\ used' = used \cup {c}
  /\ UNCHANGED seen

Deliver(c, m) ==
  /\ cur = c
  /\ m \notin seen[c]
  /\ seen' = [seen EXCEPT ![c] = @ \cup {m}]
  /\ UNCHANGED <<cur, used>>

Close ==
  /\ cur # NoConn
  /\ cur' = NoConn
  /\ UNCHANGED <<used, seen>>

Next ==
  \/ \E c \in Conn : Open(c) \/ \E m \in Msg : Deliver(c, m)
  \/ Close

Spec == Init /\ [][Next]_linkVars
=============================================================================
