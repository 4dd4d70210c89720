------------------------------- MODULE Signal -------------------------------
(***************************************************************************)
(* DwmSignal.hh/.cc: an object for one signal of a process of one thread,  *)
(* with a stack of handlers.  The process is signalled at any moment, also *)
(* in the middle of PushHandler() and of PopHandler(): these two change    *)
(* the disposition and the stack one after the other.                      *)
(***************************************************************************)
EXTENDS Naturals, Sequences

CONSTANTS
    Handlers,       \* the functions that the program pushes
    MaxHandlers     \* bound on the stack

VARIABLES
    catchable,      \* not SIGKILL and not SIGSTOP
    handlers,       \* _handlers
    disposition,    \* what the system has for the signal
    blocked, pending,
    call,           \* the call that the program is in the middle of
    alive,          \* the signal has not ended the process
    ran             \* what the last signal ran, and what it could have run

signalVars == <<catchable, handlers, disposition, blocked, pending, call, alive, ran>>

Default == "default"
Outside == [of |-> "none", handler |-> Default]
OnTop(s) == IF s = <<>> THEN Default ELSE Head(s)

Init ==
    /\ catchable \in BOOLEAN
    /\ handlers = <<>> /\ disposition = Default
    /\ blocked = FALSE /\ pending = FALSE /\ alive = TRUE
    /\ call = Outside
    /\ ran = [by |-> Default, tops |-> {Default}]

\* The handlers that are on top now, or are so at the end or the beginning of
\* the call that the program is in the middle of.
Tops == {OnTop(handlers)} \cup (IF call = Outside THEN {} ELSE {call.handler})

\* The system runs the handler, or ends the process.
Deliver ==
    /\ ran' = [by |-> disposition, tops |-> Tops]
    /\ alive' = (disposition # Default)

Send ==
    /\ alive
    /\ IF blocked THEN pending' = TRUE /\ UNCHANGED <<alive, ran>>
       ELSE UNCHANGED pending /\ Deliver
    /\ UNCHANGED <<catchable, handlers, disposition, blocked, call>>

Calling == alive /\ call = Outside

\* A signal that cannot be caught cannot be blocked either; the call succeeds.
Block ==
    /\ Calling
    /\ blocked' = catchable
    /\ UNCHANGED <<catchable, handlers, disposition, pending, call, alive, ran>>

Unblock ==
    /\ Calling
    /\ blocked' = FALSE /\ pending' = FALSE
    /\ IF pending THEN Deliver ELSE UNCHANGED <<alive, ran>>
    /\ UNCHANGED <<catchable, handlers, disposition, call>>

IsBlocked == blocked
IsPending == pending

\* sigwait(3), which is defined for a blocked signal: takes one, runs nothing.
Wait ==
    /\ Calling /\ IsBlocked /\ IsPending
    /\ pending' = FALSE
    /\ UNCHANGED <<catchable, handlers, disposition, blocked, call, alive, ran>>

\* sigaction(2), and then the stack if that has not failed.
PushHandler(h) ==
    /\ Calling /\ catchable /\ Len(handlers) < MaxHandlers
    /\ disposition' = h
    /\ call' = [of |-> "PushHandler", handler |-> h]
    /\ UNCHANGED <<catchable, handlers, blocked, pending, alive, ran>>
PushReturns ==
    /\ alive /\ call.of = "PushHandler"
    /\ handlers' = <<call.handler>> \o handlers
    /\ call' = Outside
    /\ UNCHANGED <<catchable, disposition, blocked, pending, alive, ran>>

\* The stack, and then sigaction(2).
PopHandler ==
    /\ Calling /\ handlers # <<>>
    /\ handlers' = Tail(handlers)
    /\ call' = [of |-> "PopHandler", handler |-> Head(handlers)]
    /\ UNCHANGED <<catchable, disposition, blocked, pending, alive, ran>>
\* Mutant: only the default is restored.
PopReturnsAtLast ==
    /\ alive /\ call.of = "PopHandler"
    /\ disposition' = IF handlers = <<>> THEN Default ELSE disposition
    /\ call' = Outside
    /\ UNCHANGED <<catchable, handlers, blocked, pending, alive, ran>>
PopReturns ==
    /\ alive /\ call.of = "PopHandler"
    /\ disposition' = OnTop(handlers)
    /\ call' = Outside
    /\ UNCHANGED <<catchable, handlers, blocked, pending, alive, ran>>

Next ==
    \/ Send \/ Block \/ Unblock \/ Wait
    \/ PushReturns \/ PopHandler \/ PopReturns
    \/ \E h \in Handlers : PushHandler(h)

Spec == Init /\ [][Next]_signalVars

-----------------------------------------------------------------------------
\* "The handler on the top of the stack is the one which will be called on
\* reception of the signal" (DwmSignal.hh:98-99), whenever it comes, held back
\* while the signal was blocked or not: so a process that has a handler for the
\* signal is not ended by it.
TopIsCalled == ran.by \in ran.tops
=============================================================================
