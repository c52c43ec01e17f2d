------------------------------ MODULE CallPromise ------------------------------
(***************************************************************************)
(* What the service promises its users about a call, whatever its threads  *)
(* and the network do: a phone rings after a request that was sent to it,  *)
(* its user answers over a line that is up, it joins the call when the     *)
(* answer has left, and the caller when the answer arrives; a phone whose  *)
(* line is over is not in a call.                                          *)
(*                                                                         *)
(* A connection has a line at each end.  Messages are lost when a line     *)
(* breaks down, and a phone may leave a call at any time.                  *)
(***************************************************************************)
EXTENDS Naturals

CONSTANTS
    Phone,      \* the phones
    Conn,       \* the connections, each used once
    NoPhone     \* the phone of a connection that is not used

VARIABLES
    caller,     \* caller[c]: the phone that made the connection
    callee,     \* callee[c]: the phone it is made to
    line,       \* line[e]: whether there is a session at the end e
    onWay,      \* the ends that a request or an answer is on its way to
    ringing,    \* the phones that ring
    answered,   \* the connections over which the callee has answered
    inCall      \* the phones that are in a call

promiseVars == <<caller, callee, line, onWay, ringing, answered, inCall>>

CallerEnd(c) == <<c, "client">>
CalleeEnd(c) == <<c, "server">>
End == Conn \X {"client", "server"}
PhoneOf(e) == IF e[2] = "client" THEN caller[e[1]] ELSE callee[e[1]]

Init ==
    /\ caller = [c \in Conn |-> NoPhone]
    /\ callee = [c \in Conn |-> NoPhone]
    /\ line = [e \in End |-> "new"]
    /\ onWay = {}
    /\ ringing = {}
    /\ answered = {}
    /\ inCall = {}

\* p connects to q.
Call(p, q, c) ==
    /\ caller[c] = NoPhone
    /\ caller' = [caller EXCEPT ![c] = p]
    /\ callee' = [callee EXCEPT ![c] = q]
    /\ UNCHANGED <<line, onWay, ringing, answered, inCall>>

LineOpens(e) ==
    /\ line[e] = "new"
    /\ line' = [line EXCEPT ![e] = "up"]
    /\ UNCHANGED <<caller, callee, onWay, ringing, answered, inCall>>

\* The connection is given up before there was a session at this end.
LineMissed(e) ==
    /\ line[e] = "new"
    /\ line' = [line EXCEPT ![e] = "over"]
    /\ UNCHANGED <<caller, callee, onWay, ringing, answered, inCall>>

\* The line ends, and with it the call of its phone.
LineOver(e) ==
    /\ line[e] = "up"
    /\ line' = [line EXCEPT ![e] = "over"]
    /\ inCall' = inCall \ {PhoneOf(e)}
    /\ UNCHANGED <<caller, callee, onWay, ringing, answered>>

\* The caller's request leaves, and may get lost.
Ask(c) ==
    /\ line[CallerEnd(c)] = "up"
    /\ onWay' \in {onWay, onWay \cup {CalleeEnd(c)}}
    /\ UNCHANGED <<caller, callee, line, ringing, answered, inCall>>

Ring(c) ==
    /\ CalleeEnd(c) \in onWay
    /\ line[CalleeEnd(c)] = "up"
    /\ onWay' = onWay \ {CalleeEnd(c)}
    /\ ringing' = ringing \cup {callee[c]}
    /\ UNCHANGED <<caller, callee, line, answered, inCall>>

\* The user of the callee leaves the screen with the answer button.
Quiet(p) ==
    /\ ringing' = ringing \ {p}
    /\ UNCHANGED <<caller, callee, line, onWay, answered, inCall>>

Answer(c) ==
    /\ line[CalleeEnd(c)] = "up"
    /\ callee[c] \in ringing \ inCall
    /\ answered' = answered \cup {c}
    /\ UNCHANGED <<caller, callee, line, onWay, ringing, inCall>>

\* The answer leaves, and may get lost; the callee is in the call.
Confirm(c) ==
    /\ c \in answered
    /\ line[CalleeEnd(c)] = "up"
    /\ onWay' \in {onWay, onWay \cup {CallerEnd(c)}}
    /\ inCall' = inCall \cup {callee[c]}
    /\ UNCHANGED <<caller, callee, line, ringing, answered>>

\* The answer arrives; the caller is in the call.
Join(c) ==
    /\ CallerEnd(c) \in onWay
    /\ line[CallerEnd(c)] = "up"
    /\ onWay' = onWay \ {CallerEnd(c)}
    /\ inCall' = inCall \cup {caller[c]}
    /\ UNCHANGED <<caller, callee, line, ringing, answered>>

\* What is on its way to the end e is lost.
Lose(e) ==
    /\ onWay' = onWay \ {e}
    /\ UNCHANGED <<caller, callee, line, ringing, answered, inCall>>

\* p hangs up, fails, or dies.
Leave(p) ==
    /\ inCall' = inCall \ {p}
    /\ UNCHANGED <<caller, callee, line, onWay, ringing, answered>>

Next ==
    \/ \E c \in Conn : \/ \E p, q \in Phone : Call(p, q, c)
                       \/ Ask(c) \/ Ring(c) \/ Answer(c) \/ Confirm(c) \/ Join(c)
    \/ \E e \in End : LineOpens(e) \/ LineMissed(e) \/ LineOver(e) \/ Lose(e)
    \/ \E p \in Phone : Quiet(p) \/ Leave(p)

Spec == Init /\ [][Next]_promiseVars
=============================================================================
