-------------------------- MODULE ServerLifecycle --------------------------
(***************************************************************************)
(* cmd/server from Listen to exit: run() selects between a signal and the  *)
(* error of ListenAndServe; a signal leads to Shutdown with ten seconds,   *)
(* either way the deferred Store.Close ends the pool and the process ends. *)
(* A handler works without the pool (decoding, the sidecar) and with a     *)
(* connection of it; its context is not cancelled by the signal.           *)
(*                                                                         *)
(* Shutdown closes the listener and waits for the handlers; Pool.Close     *)
(* refuses new acquisitions and waits for the connections in use.          *)
(***************************************************************************)
EXTENDS Naturals, FiniteSets

CONSTANTS Request, PoolSize

ASSUME LifecycleAssumption ==
    IsFiniteSet(Request) /\ PoolSize \in Nat \ {0}

VARIABLES
    main,       \* "select", "shutting", "closing" or "exited"
    signalled,  \* ctx.Done()
    errCh,      \* what ListenAndServe has returned: "none", "failed", "closed"
    open,       \* the listener accepts
    pool,       \* "open" or "closed"
    req,        \* stage of each request
    outcome     \* history: how run left the select, "none" before

vars == <<main, signalled, errCh, open, pool, req, outcome>>

Active  == {r \in Request : req[r] \in {"working", "querying"}}
Holding == {r \in Request : req[r] = "querying"}

TypeOK ==
    /\ main \in {"select", "shutting", "closing", "exited"}
    /\ signalled \in BOOLEAN /\ open \in BOOLEAN
    /\ errCh \in {"none", "failed", "closed"}
    /\ pool \in {"open", "closed"}
    /\ req \in [Request -> {"none", "working", "querying", "answered",
                            "no_pool", "cut"}]
    /\ outcome \in {"none", "drained", "timeout", "listen"}
    /\ Cardinality(Holding) <= PoolSize

Init ==
    /\ main = "select" /\ signalled = FALSE
    /\ errCh = "none" /\ open = TRUE /\ pool = "open"
    /\ req = [r \in Request |-> "none"]
    /\ outcome = "none"

(***************************************************************************)
(* Requests.                                                               *)
(***************************************************************************)
Move(r, s) == req' = [req EXCEPT ![r] = s]

Arrive(r) ==
    /\ open /\ req[r] = "none"
    /\ Move(r, "working")
    /\ UNCHANGED <<main, signalled, errCh, open, pool, outcome>>

\* An acquisition from a closed pool is an error, answered with a 500.
Acquire(r) ==
    /\ req[r] = "working"
    /\ IF pool = "closed" THEN Move(r, "no_pool")
       ELSE Cardinality(Holding) < PoolSize /\ Move(r, "querying")
    /\ UNCHANGED <<main, signalled, errCh, open, pool, outcome>>

\* The statement is done and the connection released.
Release(r) ==
    /\ req[r] = "querying"
    /\ Move(r, "working")
    /\ UNCHANGED <<main, signalled, errCh, open, pool, outcome>>

\* The reply is written, with no connection in hand.
Answer(r) ==
    /\ req[r] = "working"
    /\ Move(r, "answered")
    /\ UNCHANGED <<main, signalled, errCh, open, pool, outcome>>

(***************************************************************************)
(* ListenAndServe's goroutine and run().                                   *)
(***************************************************************************)
Signal ==
    /\ ~signalled /\ main # "exited" /\ signalled' = TRUE
    /\ UNCHANGED <<main, errCh, open, pool, req, outcome>>

ListenFails ==
    /\ open /\ errCh = "none"
    /\ errCh' = "failed" /\ open' = FALSE
    /\ UNCHANGED <<main, signalled, pool, req, outcome>>

ListenReturns ==
    /\ main # "exited" /\ ~open /\ errCh = "none"
    /\ errCh' = "closed"
    /\ UNCHANGED <<main, signalled, open, pool, req, outcome>>

\* mutant: the signal goes straight to the deferred calls
ExitOnSignal ==
    /\ main = "select" /\ signalled
    /\ main' = "closing" /\ open' = FALSE /\ pool' = "closed"
    /\ outcome' = "drained"
    /\ UNCHANGED <<signalled, errCh, req>>

\* case <-ctx.Done(): Shutdown closes the listener ...
SelectSignal ==
    /\ main = "select" /\ signalled
    /\ main' = "shutting" /\ open' = FALSE
    /\ UNCHANGED <<signalled, errCh, pool, req, outcome>>

\* mutant: Shutdown has no deadline
NoDeadline ==
    /\ main = "shutting" /\ Active = {}
    /\ outcome' = "drained"
    /\ main' = "closing" /\ pool' = "closed"
    /\ UNCHANGED <<signalled, errCh, open, req>>

\* ... and returns when the handlers have, or after ten seconds; its error is
\* ignored and the deferred Close begins.
ShutdownReturns ==
    /\ main = "shutting"
    /\ outcome' = IF Active = {} THEN "drained" ELSE "timeout"
    /\ main' = "closing" /\ pool' = "closed"
    /\ UNCHANGED <<signalled, errCh, open, req>>

\* case err := <-errCh
SelectError ==
    /\ main = "select" /\ errCh # "none"
    /\ outcome' = "listen"
    /\ main' = "closing" /\ pool' = "closed"
    /\ UNCHANGED <<signalled, errCh, open, req>>

PoolIdle == Holding = {}

\* Close returns, run returns, and the process ends with whatever is at work.
Exit ==
    /\ main = "closing" /\ PoolIdle
    /\ main' = "exited"
    /\ req' = [r \in Request |-> IF r \in Active THEN "cut" ELSE req[r]]
    /\ open' = FALSE
    /\ UNCHANGED <<signalled, errCh, pool, outcome>>

Handler(r) == Acquire(r) \/ Release(r) \/ Answer(r)
Run == SelectSignal \/ SelectError \/ ShutdownReturns \/ Exit
Next ==
    \/ Signal \/ ListenFails \/ ListenReturns \/ Run
    \/ \E r \in Request : Arrive(r) \/ Handler(r)

Spec == Init /\ [][Next]_vars
-----------------------------------------------------------------------------
\* A request that was accepted is lost, or refused by the closed pool, only
\* when it outlived the ten seconds of Shutdown or the listener failed.
Graceful ==
    (\E r \in Request : req[r] \in {"cut", "no_pool"}) =>
        outcome \in {"timeout", "listen"}

\* A signal, or a failure of the listener, ends the process, even if handlers
\* hold all connections or never finish without one.
Exits == (signalled \/ errCh # "none") ~> main = "exited"
=============================================================================
