--------------------------- MODULE RuntimeSession ---------------------------
(***************************************************************************)
(* What the other end of the WebSocket can tell of one interactive session *)
(* of the runtime (interactive.py 30-153): it sends output, may announce a *)
(* failure or a timeout, sends at most one exit message, and nothing after *)
(* that but the close frame of the endpoint.  124 and 125 are the codes of *)
(* a session that announced why, 130 of one that was asked to stop; any    *)
(* other code is the command's.                                            *)
(*                                                                         *)
(* InteractiveSession implements this specification; SessionProxy is built *)
(* from its actions.                                                       *)
(***************************************************************************)
EXTENDS Integers, Sequences

CONSTANT ExitCodes     \* what the command can exit with

VARIABLES rt,          \* the session: "off", "open" or "ended"
          ended,       \* how it ended: Code(c), Failed, Dropped or NotYet
          asked,       \* a cancel or close message was received
          down         \* what was sent and not yet taken

rtVars == <<rt, ended, asked, down>>

Exit(c) == [type |-> "exit", code |-> c]
Text(type) == [type |-> type]

Code(c) == <<"code", c>>
Failed == <<"failed">>     \* an error or a timeout was sent, and no exit yet
Dropped == <<"dropped">>   \* nothing but output was sent before the close
NotYet == <<>>
Limits == {124, 125, 130}  \* TTL, output limit, cancel or close

RtInit == rt = "open" /\ ended = NotYet /\ asked = FALSE /\ down = <<>>

Speaking == rt = "open" /\ ended \in {NotYet, Failed}

RtOutput ==
    /\ Speaking /\ down' = Append(down, Text("output"))
    /\ UNCHANGED <<rt, ended, asked>>

(* An error or timeout message; the client treats them alike. *)
RtFails ==
    /\ Speaking /\ down' = Append(down, Text("error")) /\ ended' = Failed
    /\ UNCHANGED <<rt, asked>>

RtExits(c) ==
    /\ Speaking
    /\ \/ c \in ExitCodes
       \/ c \in {124, 125} /\ ended = Failed
       \/ c = 130 /\ asked
    /\ down' = Append(down, Exit(c)) /\ ended' = Code(c)
    /\ UNCHANGED <<rt, asked>>

(* receive_input returns. *)
RtAsked == rt = "open" /\ ~asked /\ asked' = TRUE /\ UNCHANGED <<rt, ended, down>>

(* The endpoint returns, or its pod stops: the connection is closed. *)
RtCloses ==
    /\ rt = "open" /\ rt' = "ended"
    /\ ended' = (IF ended = NotYet THEN Dropped ELSE ended)
    /\ down' = Append(down, Text("frame_8")) /\ UNCHANGED asked

RtTaken == down # <<>> /\ down' = Tail(down) /\ UNCHANGED <<rt, ended, asked>>

RtNext ==
    \/ RtOutput \/ RtFails \/ RtAsked \/ RtCloses \/ RtTaken
    \/ \E c \in ExitCodes \cup Limits : RtExits(c)

RtSpec == RtInit /\ [][RtNext]_rtVars
=============================================================================
