------------------------------- MODULE Clients -------------------------------
(***************************************************************************)
(* One request of a client library: the asynchronous Python client, which  *)
(* repeats every method, and the Go and TypeScript clients, which repeat   *)
(* only what is idempotent.  A request is sent, the server applies it or   *)
(* does not, and the client sees a status, a transport error or a timeout. *)
(* Beside it the Python client's connection pool, opened and closed while  *)
(* calls sleep between attempts, and its polling subscription.             *)
(***************************************************************************)
EXTENDS Integers, Sequences, SequencesExt, FiniteSets

CONSTANTS
    CLCall,        \* concurrent calls of one client
    CLRetries,     \* max_retries
    CLMaxErrors,   \* max_consecutive_errors of subscribe_stream
    CLMaxEvents,   \* max_events of subscribe_stream
    CLMaxPools,    \* bound: open() calls
    CLMaxPolls     \* bound: polls of the subscription

ASSUME CLAssumption ==
    CLRetries \in Nat /\ CLMaxErrors \in Nat \ {0} /\ CLMaxEvents \in Nat

VARIABLES
    clLang,   \* which client: "python", "go", "ts"
    clC,      \* per call: [pc, method, attempt, applied, answers, pool]
    clPool,   \* python _client: 0 for None, else the number of the pool
    clShut,   \* pools that aclose() has closed
    clPools,  \* open() calls so far
    clClose,  \* close() in progress: the pool it awaits, or 0
    clSub     \* subscribe_stream: [pc, errors, count, polls]

clVars == <<clLang, clC, clPool, clShut, clPools, clClose, clSub>>
Statuses == {200, 401, 404, 429, 503}
NoAnswer == 0                       \* a transport error
TimedOut == 1
Cancelled == 2                      \* by the caller

CLInit ==
    /\ clLang \in {"python", "go", "ts"}
    /\ clC = [c \in CLCall |-> [pc |-> "idle", method |-> "GET", attempt |-> 0,
                                 applied |-> 0, answers |-> <<>>, pool |-> 0]]
    /\ clPool = 0 /\ clShut = {} /\ clPools = 0 /\ clClose = 0
    /\ clSub = [pc |-> "poll", errors |-> 0, count |-> 0, polls |-> <<>>]

-----------------------------------------------------------------------------
(* Which answers are worth another attempt.                                *)
AlwaysIdempotent(method) == TRUE
isIdempotent(method) == method \in {"GET", "PUT", "DELETE"}
Retryable(answer, method) ==
    IF clLang = "python" THEN answer \in {503, NoAnswer, TimedOut}
    ELSE /\ isIdempotent(method)
         /\ answer \in {503, 429, NoAnswer} \cup (IF clLang = "go" THEN {TimedOut} ELSE {})

(* A call starts: python refuses when the client is not open.              *)
CLBegin(c, method) ==
    /\ clC[c].pc = "idle" /\ clSub.polls = <<>>
    /\ clC' = [clC EXCEPT ![c] = [clC[c] EXCEPT !.method = method,
                 !.pc = IF clLang = "python" /\ clPool = 0 THEN "raised" ELSE "ready"]]
    /\ UNCHANGED <<clLang, clPool, clShut, clPools, clClose, clSub>>

(* One attempt goes out.  After close() the attribute is None and the next *)
(* attempt of a call that slept raises; so does a pool that was closed.    *)
CLSend(c) ==
    /\ clC[c].pc = "ready"
    /\ IF clLang = "python" /\ (clPool = 0 \/ clPool \in clShut)
       THEN clC' = [clC EXCEPT ![c].pc = "raised"]
       ELSE clC' = [clC EXCEPT ![c] = [clC[c] EXCEPT !.pc = "sent", !.attempt = @ + 1, !.pool = clPool]]
    /\ UNCHANGED <<clLang, clPool, clShut, clPools, clClose, clSub>>

(* The answer, or none: a status 2xx means the server has applied the      *)
(* request, silence may mean either.  The attempt counts from one, so      *)
(* CLRetries + 1 attempts are made at most; a caller that cancels ends it. *)
CLAnswered(x, answer, applied) ==
    [x EXCEPT
       !.applied = IF applied THEN @ + 1 ELSE @,
       !.answers = Append(IF Len(@) > CLRetries THEN Tail(@) ELSE @, answer),
       !.pc = IF answer = 200 THEN "returned"
              ELSE IF Retryable(answer, x.method) /\ x.attempt <= CLRetries
              THEN "ready" ELSE "raised"]
CLAnswer(c, answer, applied) ==
    /\ clC[c].pc = "sent"
    /\ answer = 200 => applied
    /\ answer \in {401, 404, 429} => ~applied
    /\ clC' = [clC EXCEPT ![c] = CLAnswered(@, answer, applied)]
    /\ UNCHANGED <<clLang, clPool, clShut, clPools, clClose, clSub>>

-----------------------------------------------------------------------------
(* open() and close() of the python client; close() awaits before it       *)
(* clears the attribute.                                                   *)
open ==
    /\ clLang = "python" /\ clPools < CLMaxPools
    /\ clPools' = clPools + 1 /\ clPool' = clPools + 1
    /\ UNCHANGED <<clLang, clC, clShut, clClose, clSub>>
CloseBegins ==
    /\ clLang = "python" /\ clClose = 0 /\ clPool # 0
    /\ clClose' = clPool /\ clShut' = clShut \cup {clPool}
    /\ UNCHANGED <<clLang, clC, clPool, clPools, clSub>>
CloseEnds ==
    /\ clClose # 0 /\ clClose' = 0 /\ clPool' = 0
    /\ UNCHANGED <<clLang, clC, clShut, clPools, clSub>>

(* subscribe_stream: one poll, which fails or brings n events, and the     *)
(* sleep after it.  The limit is tested after an event was handed over.    *)
(* It is explored apart from the calls, with which it shares no state.     *)
SubFails ==
    [clSub EXCEPT !.errors = @ + 1, !.polls = Append(@, "failed"),
                  !.pc = IF clSub.errors + 1 >= CLMaxErrors THEN "raised" ELSE "poll"]
SubGets(n) ==
    [clSub EXCEPT !.errors = 0, !.polls = Append(@, "ok"),
                  !.count = IF n = 0 THEN @ ELSE IF @ + n >= CLMaxEvents /\ @ < CLMaxEvents
                            THEN CLMaxEvents ELSE @ + n,
                  !.pc = IF n > 0 /\ clSub.count + n >= CLMaxEvents THEN "done" ELSE "poll"]
subscribe_stream ==
    /\ clLang = "python" /\ \A c \in CLCall : clC[c].pc = "idle"
    /\ clSub.pc = "poll" /\ Len(clSub.polls) < CLMaxPolls
    /\ clSub' \in {SubFails} \cup {SubGets(n) : n \in 0 .. 2}
    /\ UNCHANGED <<clLang, clC, clPool, clShut, clPools, clClose>>

CLStep(c) ==
    \/ CLSend(c)
    \/ \E answer \in Statuses \cup {NoAnswer, TimedOut, Cancelled}, applied \in BOOLEAN : CLAnswer(c, answer, applied)
CLNext ==
    \/ \E c \in CLCall : CLStep(c) \/ \E method \in {"GET", "POST"} : CLBegin(c, method)
    \/ open \/ CloseBegins \/ CloseEnds \/ subscribe_stream

-----------------------------------------------------------------------------
(* An ingest POST of the Go and TypeScript clients is applied at most once *)
(* whatever the network does, since a batch carries no idempotency key;    *)
(* the python client can apply it once per attempt, never more often.      *)
CLPostAtMostOnce ==
    \A c \in CLCall : clC[c].method = "POST" =>
        clC[c].applied <= IF clLang = "python" THEN CLRetries + 1 ELSE 1

(* A refusal is final: only the last attempt of a call can have met an     *)
(* answer that repeating cannot change, a call returns only after 2xx, and *)
(* a call that gave up on a passing fault had used all its attempts, was   *)
(* not idempotent, or lost its pool.                                       *)
CLVerdictFinal ==
    \A c \in CLCall :
        LET a == clC[c].answers IN
        /\ \A i \in DOMAIN a : i < Len(a) => a[i] \notin {200, 401, 404, Cancelled}
        /\ clC[c].pc = "returned" => Last(a) = 200 /\ clC[c].applied > 0
        /\ (clC[c].pc = "raised" /\ a # <<>> /\ Last(a) = 503 /\ clLang # "python"
            /\ clC[c].method = "GET") => Len(a) = CLRetries + 1

(* The subscription gives up exactly when its last CLMaxErrors polls all   *)
(* failed, so an outage that ends in time is survived however often it     *)
(* comes back.                                                             *)
CLSubscription ==
    LET p == clSub.polls
        outage(k) == k \in CLMaxErrors .. Len(p) /\ \A i \in (k - CLMaxErrors + 1) .. k : p[i] = "failed"
    IN  clSub.pc = "raised" <=> \E k \in DOMAIN p : outage(k)

(* A call that has neither returned nor raised, which it must.             *)
CLPending(c) == clC[c].pc \notin {"idle", "returned", "raised"}

(* What the clients' retries promise: a POST is applied no more often than *)
(* the language's policy allows, a refusal is not repeated, and a          *)
(* subscription dies only of errors in a row.                              *)
CLSafe == CLPostAtMostOnce /\ CLVerdictFinal /\ CLSubscription

=============================================================================
