------------------------------- MODULE Server -------------------------------
(***************************************************************************)
(* The life of the server process: StartServer in api/server.go, and main,   *)
(* which returns when StartServer does.  A signal makes a goroutine call     *)
(* http.Server.Shutdown, which closes the listener and waits for requests;   *)
(* ListenAndServe returns as soon as the listener is closed.                 *)
(***************************************************************************)
EXTENDS FiniteSets

CONSTANT Connections

VARIABLES
    listening,
    main,       \* where StartServer is: serving, stopped, redis closed, exited
    signal,     \* where the goroutine of the signal is
    request     \* of each connection: none yet, in progress, answered, cut off

vars == <<listening, main, signal, request>>

TypeOK ==
    /\ listening \in BOOLEAN
    /\ main \in {"serving", "stopped", "closed", "exited"}
    /\ signal \in {"none", "shutdown", "drained", "expired"}
    /\ request \in [Connections -> {"none", "running", "answered", "cut"}]

Init ==
    /\ listening = TRUE
    /\ main = "serving"
    /\ signal = "none"
    /\ request = [c \in Connections |-> "none"]

Running == {c \in Connections : request[c] = "running"}

Accept(c) ==
    /\ listening
    /\ request[c] = "none"
    /\ request' = [request EXCEPT ![c] = "running"]
    /\ UNCHANGED <<listening, main, signal>>

Answer(c) ==
    /\ main # "exited"
    /\ request[c] = "running"
    /\ request' = [request EXCEPT ![c] = "answered"]
    /\ UNCHANGED <<listening, main, signal>>

Shutdown ==
    /\ signal = "none" /\ main = "serving"
    /\ signal' = "shutdown"
    /\ listening' = FALSE
    /\ UNCHANGED <<main, request>>

\* Shutdown returns when no request is left, or after 30 seconds.
ShutdownReturns ==
    /\ signal = "shutdown"
    /\ main # "exited"
    /\ signal' \in IF Running = {} THEN {"drained"} ELSE {"expired"}
    /\ UNCHANGED <<listening, main, request>>

ListenAndServeReturns ==
    /\ main = "serving"
    /\ ~listening
    /\ main' = "stopped"
    /\ UNCHANGED <<listening, signal, request>>

CloseRedis ==
    /\ main = "stopped"
    /\ main' = "closed"
    /\ UNCHANGED <<listening, signal, request>>

\* main returns, and with it every goroutine.
Exit ==
    /\ main = "closed"
    /\ main' = "exited"
    /\ request' = [c \in Connections |-> IF request[c] = "running" THEN "cut" ELSE request[c]]
    /\ UNCHANGED <<listening, signal>>

Next ==
    \/ \E c \in Connections : Accept(c)
    \/ \E c \in Connections : Answer(c)
    \/ Shutdown
    \/ ShutdownReturns
    \/ ListenAndServeReturns
    \/ CloseRedis
    \/ Exit

Spec == Init /\ [][Next]_vars

-----------------------------------------------------------------------------
\* The shutdown is graceful: a request is cut off, or loses the store under it,
\* only when the 30 seconds are over.
ShutdownIsGraceful ==
    main \in {"closed", "exited"} /\ signal # "expired" =>
        \A c \in Connections : request[c] \in {"none", "answered"}
=============================================================================
