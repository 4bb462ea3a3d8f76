---------------------------- MODULE GuestSession ----------------------------
(***************************************************************************)
(* What the guest channel promises to the executor and to the agent: a     *)
(* session of whole frames.  The host asks, the agent answers the frames   *)
(* in their order, the host takes the answer to what it asked last, and    *)
(* either end may be gone at any time.                                     *)
(***************************************************************************)
EXTENDS Naturals, Sequences

CONSTANTS
    Messages,       \* what a frame may carry
    Replies(_)      \* the answers that a message may get

VARIABLES requests, answers, taken, open, serving

sessionVars == <<requests, answers, taken, open, serving>>

SessionInit ==
    /\ requests = << >> /\ answers = << >> /\ taken = << >>
    /\ open = TRUE /\ serving = TRUE

\* One frame at a time: the next one is asked when the last was answered.
Ask(message) ==
    /\ open /\ Len(taken) = Len(requests)
    /\ requests' = Append(requests, message)
    /\ UNCHANGED <<answers, taken, open, serving>>

Reply(message) ==
    /\ serving /\ Len(answers) < Len(requests)
    /\ message \in Replies(requests[Len(answers) + 1])
    /\ answers' = Append(answers, message)
    /\ UNCHANGED <<requests, taken, open, serving>>

Take ==
    /\ open /\ Len(taken) < Len(answers)
    /\ taken' = Append(taken, answers[Len(taken) + 1])
    /\ UNCHANGED <<requests, answers, open, serving>>

HostLeaves == open' = FALSE /\ UNCHANGED <<requests, answers, taken, serving>>
AgentLeaves == serving' = FALSE /\ UNCHANGED <<requests, answers, taken, open>>

SessionNext ==
    \/ \E message \in Messages : Ask(message) \/ Reply(message)
    \/ Take \/ HostLeaves \/ AgentLeaves

SessionSpec == SessionInit /\ [][SessionNext]_sessionVars
=============================================================================
