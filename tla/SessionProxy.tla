---------------------------- MODULE SessionProxy ----------------------------
(***************************************************************************)
(* One interactive session end to end: the terminal client of              *)
(* tools/hermes_demo.py (interactive_session), the WebSocket proxy of      *)
(* xolis-api (runtime.rs, RouterRuntimeClient::interactive) and the        *)
(* runtime's session as the other two see it (RuntimeSession, implemented  *)
(* by InteractiveSession).                                                 *)
(*                                                                         *)
(* The four hops are FIFO queues.  A party that leaves drops its           *)
(* connections: what it had not read is lost, what it had sent can still   *)
(* be read.  Abstracted: framing and masking, pings, payloads, terminal    *)
(* attributes, the window size.                                            *)
(***************************************************************************)
EXTENDS RuntimeSession

CONSTANTS MaxOutput,   \* bound: output messages of one session
          MaxInput     \* bound: messages the user's terminal causes

ASSUME SessionAssumption ==
    MaxOutput \in Nat /\ MaxInput \in Nat /\ ExitCodes \subseteq Int

VARIABLES client,     \* "off", "on" or "left"
          result,     \* of interactive_session: Code(c), Raised or NotYet
          proxy,      \* "off", "on" or "gone"
          up, upRt,   \* client -> proxy -> runtime
          downCl      \* proxy -> client; from the runtime to the proxy: down

sessionVars == <<client, result, proxy, rt, ended, asked, up, upRt, down, downCl>>

Raised == <<"raised">>
Ended(C) == {Code(c) : c \in C}

SessionInit ==
    /\ client = "off" /\ result = NotYet /\ proxy = "off" /\ rt = "off" /\ ended = NotYet
    /\ asked = FALSE /\ up = <<>> /\ upRt = <<>> /\ down = <<>> /\ downCl = <<>>

-----------------------------------------------------------------------------
(* The client. *)

(* websocket_connect, the start message and the first resize. *)
SessionBegin ==
    /\ client' = "on" /\ result' = NotYet /\ proxy' = "on" /\ rt' = "open" /\ ended' = NotYet
    /\ asked' = FALSE /\ up' = <<>> /\ upRt' = <<>> /\ down' = <<>> /\ downCl' = <<>>

Leave(r) == client' = "left" /\ result' = r

(* Input from the terminal, a resize, or its end, which is sent as "close" *)
(* each time select finds it readable.  Sending on a dropped connection    *)
(* raises.                                                                 *)
ClientSends(type) ==
    /\ client = "on" /\ Len(up) + Len(upRt) < MaxInput
    /\ \/ up' = Append(up, Text(type)) /\ UNCHANGED <<client, result>>
       \/ proxy = "gone" /\ Leave(Raised) /\ UNCHANGED up
    /\ UNCHANGED <<proxy, rtVars, upRt, downCl>>

ClientInterrupted ==
    /\ client = "on" /\ Leave(Code(130))
    /\ up' = Append(up, Text("cancel"))
    /\ UNCHANGED <<proxy, rtVars, upRt, downCl>>

(* The terminal is closed or the machine lost: nothing more is sent. *)
ClientKilled ==
    /\ client = "on" /\ Leave(Raised)
    /\ UNCHANGED <<proxy, rtVars, up, upRt, downCl>>

ClientReads ==
    /\ client = "on" /\ downCl # <<>>
    /\ downCl' = Tail(downCl)
    /\ LET m == Head(downCl)
       IN  \/ m.type = "output" /\ UNCHANGED <<client, result>>
           \/ m.type = "exit" /\ Leave(Code(m.code))
           \/ m.type = "frame_8" /\ Leave(Code(0))
           \/ m.type = "error" /\ Leave(Raised)
    /\ UNCHANGED <<proxy, rtVars, up, upRt>>

\* Slip: the end of the connection is taken for a normal close.
ClientDroppedSlip ==
    /\ client = "on" /\ downCl = <<>> /\ proxy = "gone" /\ Leave(Code(0))
    /\ UNCHANGED <<proxy, rtVars, up, upRt, downCl>>

(* read_exact finds the connection closed. *)
ClientDropped ==
    /\ client = "on" /\ downCl = <<>> /\ proxy = "gone" /\ Leave(Raised)
    /\ UNCHANGED <<proxy, rtVars, up, upRt, downCl>>

-----------------------------------------------------------------------------
(* The proxy: two loops under one select!, so the end of either ends both. *)

ProxyEnds == proxy' = "gone" /\ UNCHANGED <<client, result, rtVars, up, upRt, downCl>>

(* connect_async fails, or a connection breaks. *)
ProxyBreaks == proxy = "on" /\ ProxyEnds

client_to_runtime ==
    /\ proxy = "on" /\ up # <<>>
    /\ \/ /\ up' = Tail(up) /\ upRt' = Append(upRt, Head(up))
          /\ UNCHANGED <<client, result, proxy, rtVars, downCl>>
       \/ rt = "ended" /\ ProxyEnds

runtime_to_client ==
    /\ proxy = "on" /\ down # <<>>
    /\ \/ /\ client = "on"
          /\ RtTaken /\ downCl' = Append(downCl, Head(down))
          /\ UNCHANGED <<client, result, proxy, up, upRt>>
       \/ client = "left" /\ ProxyEnds

\* Slip: the two loops are joined, so the proxy ends when both have ended.
ReceiverEndsSlip ==
    /\ proxy = "on"
    /\ client = "left" /\ up = <<>> /\ rt = "ended" /\ down = <<>>
    /\ ProxyEnds

(* A receiver yields None: its peer has left and nothing is left to read. *)
ReceiverEnds ==
    /\ proxy = "on"
    /\ \/ client = "left" /\ up = <<>>
       \/ rt = "ended" /\ down = <<>>
    /\ ProxyEnds

-----------------------------------------------------------------------------
(* The runtime's session. *)

RtRest == UNCHANGED <<client, result, proxy, up, downCl>>

RtSpeaks ==
    /\ \/ Len(down) + Len(downCl) < MaxOutput /\ (RtOutput \/ RtFails)
       \/ \E c \in ExitCodes \cup Limits : RtExits(c)
    /\ RtRest /\ UNCHANGED upRt

(* receive_input takes the messages in turn until it is asked to stop. *)
RtReceives ==
    /\ rt = "open" /\ ~asked /\ upRt # <<>>
    /\ upRt' = Tail(upRt)
    /\ \/ Head(upRt).type = "input" /\ UNCHANGED rtVars
       \/ Head(upRt).type \in {"cancel", "close"} /\ RtAsked
    /\ RtRest

RtEnds == RtCloses /\ RtRest /\ UNCHANGED upRt

(* WebSocketDisconnect, a cancel or close, and the exit message are all    *)
(* followed by the finally block and the return of the endpoint.           *)
RtMustEnd ==
    asked \/ ended \in Ended(ExitCodes \cup Limits) \/ (proxy = "gone" /\ upRt = <<>>)

SessionStep ==
    \/ \E type \in {"input", "close"} : ClientSends(type)
    \/ ClientReads \/ ClientDropped
    \/ ProxyBreaks \/ client_to_runtime \/ runtime_to_client \/ ReceiverEnds
    \/ RtSpeaks \/ RtReceives \/ RtEnds

(* Every party keeps serving the connections it has open; nothing makes a  *)
(* command exit or a user type.                                            *)
SessionFair ==
    /\ WF_sessionVars(ClientReads) /\ WF_sessionVars(ClientDropped)
    /\ WF_sessionVars(client_to_runtime) /\ WF_sessionVars(runtime_to_client)
    /\ WF_sessionVars(ReceiverEnds)
    /\ WF_sessionVars(RtReceives) /\ WF_sessionVars(RtMustEnd /\ RtEnds)

-----------------------------------------------------------------------------
SessionTypeOK ==
    /\ client \in {"off", "on", "left"} /\ proxy \in {"off", "on", "gone"}
    /\ rt \in {"off", "open", "ended"} /\ asked \in BOOLEAN
    /\ result \in Ended(ExitCodes \cup Limits \cup {0}) \cup {Raised, NotYet}
    /\ ended \in Ended(ExitCodes \cup Limits) \cup {Failed, Dropped, NotYet}

(* The code the client reports is the command's: whatever is lost when the *)
(* proxy drops one direction, a missing exit message never turns into an   *)
(* exit code.  Only a runtime that closed without exit (its pod stopped)   *)
(* makes the client return 0, and only the user's interrupt 130            *)
(* (hermes_demo.py 485-505, runtime.rs 275-278).                           *)
SessionCodeIsTrue ==
    /\ result = Code(0) => ended \in {Code(0), Dropped}
    /\ result \in Ended((ExitCodes \cup Limits) \ {0, 130}) => ended = result

(* When the client leaves, the command does not go on without it: the end  *)
(* of one direction of the proxy ends the other, and the runtime notices   *)
(* (runtime.rs 275, interactive.py 137-145).                               *)
SessionStops == client = "left" ~> rt # "open"
=============================================================================
