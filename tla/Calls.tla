------------------------------- MODULE Calls -------------------------------
(***************************************************************************)
(* What a run asks of the endpoint: the pass over its records, which       *)
(* spends calls, and the adapter that makes them and may be bound to       *)
(* another endpoint meanwhile.                                             *)
(*                                                                         *)
(* The pass sees of a call how it ends and what it cost (RecordLoop), the  *)
(* adapter nothing of the pass: a behaviour of both is checked as one of   *)
(* each, the other at rest.                                                *)
(***************************************************************************)
EXTENDS RecordLoop

CONSTANTS Endpoints, Seed, NoRow, Runs, Savers, MaxRetries, Readers, Requests, NoRequest

ASSUME CallsAssumption ==
  /\ Seed \in Endpoints /\ NoRow \notin Endpoints
  /\ MaxRetries \in Nat /\ NoRequest \notin Requests

VARIABLES
  up, live, stored, saver, run, overlapped, call, tags, shared, reader,   \* of the adapter
  side   \* the one that moves

Adapter == INSTANCE OllamaAdapter

adapterVars == <<up, live, stored, saver, run, overlapped, call, tags, shared, reader>>
callsVars   == <<vars, adapterVars, side>>

CallsInit ==
  /\ Init /\ Adapter!AdapterInit
  /\ side \in {"pass", "adapter"}
  /\ side = "adapter" => committed = {} /\ pinned

InPass(A)    == side = "pass" /\ A /\ UNCHANGED <<adapterVars, side>>
InAdapter(A) == side = "adapter" /\ A /\ UNCHANGED <<vars, side>>

CallsNext == InPass(Next) \/ InAdapter(Adapter!AdapterNext)

\* The event loop runs whoever is ready, and every request has a timeout.
CallsSpec ==
  /\ CallsInit /\ [][CallsNext]_callsVars
  /\ WF_callsVars(InPass(Settle)) /\ \A w \in Workers : WF_callsVars(InPass(WorkerStep(w)))
  /\ \A p \in Readers : WF_callsVars(InAdapter(Adapter!Responds(p)))
-----------------------------------------------------------------------------
\* What is bound is what is stored, and a reader of the catalogue gets an
\* answer of its own time, from the endpoint bound when it asked
\* (ConnectionSettings, OllamaAdapter).
EndpointIsCurrent == Adapter!StoredIsCurrent /\ Adapter!AnswersAreOfTheirTime

\* The pass ends, however the endpoint behaves; and a reader whose page stays
\* open is answered, whoever else shared its request and left, and whatever is
\* rebound (_fetch_tags: "does not cancel the request the others await").
CallsEnd ==
  /\ <>(side = "pass" => outcome # "running")
  /\ Adapter!ReadersAreAnswered
=============================================================================
