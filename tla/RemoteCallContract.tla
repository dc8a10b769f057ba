------------------------- MODULE RemoteCallContract -------------------------
(***************************************************************************)
(* What a caller of a remote method or accessor is promised, without       *)
(* identifiers, messages, tables or threads: the peer runs a call at most  *)
(* once and only after it was made; the caller's task ends at most once,   *)
(* with the outcome of that very call or with an exception.  Only a call   *)
(* that is made while the session is being ended may get the result of     *)
(* another one, and the peer never runs such a call.                       *)
(***************************************************************************)
CONSTANTS Calls, NoAnswer, Fault

VARIABLES made,      \* calls the program has made
          executed,  \* calls the peer has run
          answer,    \* NoAnswer, Fault, or the call whose result this is
          ended,     \* somebody is ending the session
          late       \* calls that came too late for it

vars == <<made, executed, answer, ended, late>>

Init == /\ made = {} /\ executed = {} /\ late = {}
        /\ answer = [c \in Calls |-> NoAnswer]
        /\ ended = FALSE

Make(c) == /\ c \notin made
           /\ made' = made \cup {c}
           /\ UNCHANGED <<executed, answer, ended, late>>

\* The client is not connected: the call fails at once.
Refuse(c) == /\ c \notin made
             /\ made' = made \cup {c}
             /\ answer' = [answer EXCEPT ![c] = Fault]
             /\ UNCHANGED <<executed, ended, late>>

Execute(c) == /\ c \in made \ (executed \cup late)
              /\ executed' = executed \cup {c}
              /\ UNCHANGED <<made, answer, ended, late>>

Return(c) == /\ c \in executed /\ answer[c] = NoAnswer
             /\ answer' = [answer EXCEPT ![c] = c]
             /\ UNCHANGED <<made, executed, ended, late>>

Fail(c) == /\ c \in made /\ answer[c] = NoAnswer
           /\ answer' = [answer EXCEPT ![c] = Fault]
           /\ UNCHANGED <<made, executed, ended, late>>

EndSession == /\ ~ ended /\ ended' = TRUE
              /\ UNCHANGED <<made, executed, answer, late>>

ComeLate(c) == /\ ended /\ c \in made \ (executed \cup late)
               /\ late' = late \cup {c}
               /\ UNCHANGED <<made, executed, answer, ended>>

ReturnAnother(c) == /\ c \in late /\ answer[c] = NoAnswer
                    /\ \E d \in executed : answer' = [answer EXCEPT ![c] = d]
                    /\ UNCHANGED <<made, executed, ended, late>>

Next == \/ EndSession
        \/ \E c \in Calls : \/ Make(c) \/ Refuse(c) \/ Execute(c) \/ Return(c) \/ Fail(c)
                            \/ ComeLate(c) \/ ReturnAnother(c)

Spec == Init /\ [][Next]_vars
=============================================================================
