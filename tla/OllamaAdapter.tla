---------------------------- MODULE OllamaAdapter ----------------------------
(***************************************************************************)
(* The adapter behind the connection (ra2/infra/ollama_client.py): one     *)
(* extraction call of a run with its bounded retries, and the catalogue    *)
(* request that concurrent readers of the Models card share.               *)
(*                                                                         *)
(* It runs beside ConnectionSettings: a rebind replaces both adapters      *)
(* under whoever is waiting on the old ones.                               *)
(***************************************************************************)
EXTENDS ConnectionSettings

CONSTANTS
  MaxRetries,  \* RA2_LLM_MAX_RETRIES, as clamped
  Readers,     \* callers of models() and reachable()
  Requests,    \* names for /api/tags requests
  NoRequest    \* _tags_in_flight is None

VARIABLES
  call,     \* the extraction call of each run
  tags,     \* requests for the catalogue
  shared,   \* _tags_in_flight of the catalogue bound now
  reader    \* callers of the catalogue

adapter == <<call, tags, shared, reader>>
allVars == <<vars, adapter>>

NoCall    == [pc |-> "none", retries |-> 0, made |-> 0, told |-> 0]
Unused    == [pc |-> "unused", at |-> Seed]
NoReading == [pc |-> "idle", req |-> NoRequest, asked |-> Seed, fresh |-> TRUE]

AdapterInit ==
  /\ Init
  /\ call = [r \in Runs |-> NoCall]
  /\ tags = [q \in Requests |-> Unused]
  /\ shared = NoRequest
  /\ reader = [p \in Readers |-> NoReading]

-----------------------------------------------------------------------------
(* extract: the endpoint answers, refuses for now, or fails the call.      *)

Calls(r, new) == /\ call' = [call EXCEPT ![r] = new]
                 /\ UNCHANGED <<vars, tags, shared, reader>>

CallStarts(r) ==
  /\ call[r].pc # "out"
  /\ Call(r)
  /\ call' = [call EXCEPT ![r] = [NoCall EXCEPT !.pc = "out", !.made = 1]]
  /\ UNCHANGED <<tags, shared, reader>>

\* Parsed or not, it is an answer; the retries it took go with it.
CallAnswered(r) ==
  /\ call[r].pc = "out"
  /\ Calls(r, [call[r] EXCEPT !.pc = "answered", !.told = call[r].retries])

\* Slip: a give-up always reports the bound.
CallGivesUpAtBound(r, retryable) ==
  /\ call[r].pc = "out"
  /\ ~retryable \/ call[r].retries >= MaxRetries
  /\ Calls(r, [call[r] EXCEPT !.pc = "silent", !.told = MaxRetries + 1])

\* LlmEndpointError: a timeout or a 4xx at once, anything else past the bound.
CallGivesUp(r, retryable) ==
  /\ call[r].pc = "out"
  /\ ~retryable \/ call[r].retries >= MaxRetries
  /\ Calls(r, [call[r] EXCEPT !.pc = "silent", !.told = call[r].retries + 1])

\* A connection error or a busy status is asked again.
CallRetries(r) ==
  /\ call[r].pc = "out" /\ call[r].retries < MaxRetries
  /\ Calls(r, [call[r] EXCEPT !.retries = @ + 1, !.made = @ + 1])

-----------------------------------------------------------------------------
(* _fetch_tags                                                             *)

\* Nobody waits on q: its name can stand for a new request.
Free(q)    == \A p \in Readers : reader[p].req # q
Flying(q)  == q # NoRequest /\ tags[q].pc = "flying"

\* Waits on q, which was in flight or had settled already.
Waits(p, q, fresh) ==
  reader' = [reader EXCEPT ![p] = [pc |-> "waiting", req |-> q, asked |-> live, fresh |-> fresh]]

AsksAnew(p) == \E q \in Requests :
  /\ Free(q)
  /\ tags' = [tags EXCEPT ![q] = [pc |-> "flying", at |-> live]]
  /\ shared' = q
  /\ Waits(p, q, TRUE)

\* Slip: a settled request is joined as well.
ReaderAsksKept(p) ==
  /\ up /\ reader[p].pc = "idle"
  /\ IF shared # NoRequest
     THEN Waits(p, shared, Flying(shared)) /\ UNCHANGED <<tags, shared>>
     ELSE AsksAnew(p)
  /\ UNCHANGED <<vars, call>>

\* Joins the request in flight, or makes one.
ReaderAsks(p) ==
  /\ up /\ reader[p].pc = "idle"
  /\ IF Flying(shared)
     THEN Waits(p, shared, TRUE) /\ UNCHANGED <<tags, shared>>
     ELSE AsksAnew(p)
  /\ UNCHANGED <<vars, call>>

\* Every failure settles as None, like an answer.
TagsSettle(q) ==
  /\ Flying(q)
  /\ tags' = [tags EXCEPT ![q].pc = "settled"]
  /\ UNCHANGED <<vars, call, shared, reader>>

ReaderIsTold(p) ==
  /\ reader[p].pc = "waiting" /\ tags[reader[p].req].pc = "settled"
  /\ reader' = [reader EXCEPT ![p] = NoReading]
  /\ UNCHANGED <<vars, call, tags, shared>>

\* Slip: without the shield the request is cancelled with its reader.
ReaderCancelledWithRequest(p) ==
  /\ reader[p].pc = "waiting"
  /\ reader' = [reader EXCEPT ![p] = NoReading]
  /\ tags' = [tags EXCEPT ![reader[p].req].pc = "unused"]
  /\ UNCHANGED <<vars, call, shared>>

\* A page closed while it loads.
ReaderCancelled(p) ==
  /\ reader[p].pc = "waiting"
  /\ reader' = [reader EXCEPT ![p] = NoReading]
  /\ UNCHANGED <<vars, call, tags, shared>>

-----------------------------------------------------------------------------
(* What ConnectionSettings does, and what becomes of the adapters.         *)

\* Slip: the new pair takes over the request in flight.
RebindKeepsRequest(s) == Rebind(s) /\ UNCHANGED adapter

\* A new client and a new catalogue; what is out stays with the old ones.
Rebinds(s) == /\ Rebind(s)
              /\ shared' = NoRequest
              /\ UNCHANGED <<call, tags, reader>>

RunEnds(r) == /\ End(r)
              /\ call' = [call EXCEPT ![r] = NoCall]
              /\ UNCHANGED <<tags, shared, reader>>

Dies == /\ Crash
        /\ call' = [r \in Runs |-> NoCall]
        /\ tags' = [q \in Requests |-> Unused]
        /\ shared' = NoRequest
        /\ reader' = [p \in Readers |-> NoReading]

Elsewhere ==
  /\ \/ \E s \in Savers : SaveCommits(s) \/ SaveFails(s) \/ \E e \in Endpoints : SaveChecks(s, e)
     \/ \E r \in Runs : LaunchAsks(r) \/ LaunchCommits(r) \/ LaunchRefused(r) \/ Start(r)
     \/ Restart
  /\ UNCHANGED adapter

Responds(p) == ReaderIsTold(p) \/ (reader[p].pc = "waiting" /\ TagsSettle(reader[p].req))
Ends(r)     == CallAnswered(r) \/ \E b \in BOOLEAN : CallGivesUp(r, b)

AdapterNext ==
  \/ Elsewhere \/ Dies
  \/ \E s \in Savers : Rebinds(s)
  \/ \E r \in Runs : CallStarts(r) \/ CallRetries(r) \/ Ends(r) \/ RunEnds(r)
  \/ \E q \in Requests : TagsSettle(q)
  \/ \E p \in Readers : ReaderAsks(p) \/ ReaderIsTold(p) \/ ReaderCancelled(p)

\* Every request has a timeout, and a reader that was told goes on.
AdapterSpec ==
  /\ AdapterInit /\ [][AdapterNext]_allVars
  /\ \A p \in Readers : WF_allVars(Responds(p))
-----------------------------------------------------------------------------
(* Properties.                                                             *)

\* What a call reports it cost is what the endpoint was asked, retried,
\* timed out or answered, and never more than the bound (extract: "bounded
\* and counted").
AttemptsAreTold ==
  \A r \in Runs :
    /\ call[r].made <= MaxRetries + 1
    /\ call[r].pc = "answered" => call[r].told + 1 = call[r].made
    /\ call[r].pc = "silent" => call[r].told = call[r].made

\* A reader waits on a request that was in flight when it asked, to the
\* endpoint that was bound then ("this is not a cache").
AnswersAreOfTheirTime ==
  \A p \in Readers : reader[p].pc = "waiting" =>
    /\ reader[p].fresh
    /\ tags[reader[p].req].at = reader[p].asked

\* A reader whose page stays open is answered, whoever else shared its
\* request and left, and whatever is rebound ("does not cancel the request
\* the others await").
ReadersAreAnswered ==
  \A p \in Readers : reader[p].pc = "waiting" ~> reader[p].pc = "idle"
=============================================================================
