----------------------------- MODULE AlertManager -----------------------------
(***************************************************************************)
(* The alert management center: a store of active alerts with a history    *)
(* and a JSON file, silences, routes, and a delivery engine that posts to  *)
(* the channels with retries.  ingest and resolve run in the threads of    *)
(* their callers and are not atomic: each lock region and each HTTP post   *)
(* is a step of its own.  A post that fails may or may not have reached    *)
(* the receiver; one that is given up is not delivered later.              *)
(***************************************************************************)
EXTENDS Naturals, Sequences, FiniteSets, SequencesExt

CONSTANTS
    AMThread,      \* the callers
    AMAlert,       \* alert ids
    AMSeverityOf,  \* AMSeverityOf[a]: the severity an alert is ingested with
    AMSilence,     \* the silences an operator may create
    AMRoute,       \* the routes an operator may add
    AMChannel,     \* AMChannel[c]: the ChannelConfig of a configured channel
    AMDefault,     \* default_channels
    AMMaxRetry,    \* _MAX_RETRY
    AMMaxRoutes,   \* bound: routes, added before the first call
    AMMaxWork,     \* bound: routes and calls of one behaviour
    AMMaxNow       \* bound: ticks of the clock

(* A route names at least one channel, and no thread is called "free".     *)
ASSUME AMAssumption ==
    /\ "free" \notin AMThread
    /\ AMDefault \in Seq(ToSet(AMDefault))
    /\ \A r \in AMRoute : /\ r.channels \in Seq(ToSet(r.channels)) /\ r.channels # <<>>
                          /\ r.continue \in BOOLEAN

VARIABLES
    amActive,   \* AlertStore._active: ids
    amHistory,  \* AlertStore._history: <<id, status>> in order
    amDisk,     \* the JSON file
    amLock,     \* AlertStore._lock: the thread that holds it
    amSilences, \* SilenceManager._silences
    amRoutes,   \* AlertRouter._routes
    amRec,      \* DeliveryEngine._records: status per alert and channel
    amAt,       \* what the receiver of a channel last heard of an alert
    amCall,     \* per thread: the call in progress
    amNow,      \* time.time()
    amCalls,    \* calls so far
    amLast,     \* ghost: status of the last upsert that was completed
    amOverlap   \* ghost: alerts that two calls worked on at once, or a crash cut

amStore == <<amActive, amHistory, amDisk, amLock, amLast>>
amSetup == <<amSilences, amRoutes, amNow>>
amOut == <<amRec, amAt>>
amThreads == <<amCall, amCalls, amOverlap>>
amVars == <<amStore, amSetup, amOut, amThreads>>

AMChannels == (UNION {ToSet(r.channels) : r \in AMRoute}) \cup ToSet(AMDefault)
AMStatus == {"firing", "resolved", "silenced"}
AMIdle == [pc |-> "idle"]

ValidAlert(a) == AMSeverityOf[a] \in {"critical", "warning", "info"}
ValidSilence(s) == s.ends > s.starts
Matches(m, a) == m = "" \/ m = AMSeverityOf[a]
is_silenced(a) ==
    \E s \in amSilences : s.starts <= amNow /\ amNow < s.ends /\ Matches(s.match, a)

(* resolve_channels: extend() consumes a generator that tests "not in      *)
(* matched" against the growing list.                                      *)
ExtendStep(matched, c) == IF c \in ToSet(matched) THEN matched ELSE Append(matched, c)
ExtendMatched(matched, channels) ==
    LET list[k \in 0 .. Len(channels)] == IF k = 0 THEN matched ELSE ExtendStep(list[k - 1], channels[k])
    IN  list[Len(channels)]
RouteStep(a, before, r) ==                     \* <<list, stopped>>
    IF before[2] \/ ~Matches(r.match, a) THEN before
    ELSE <<ExtendMatched(before[1], r.channels), ~r.continue>>
RouteWalk(a) ==
    LET walk[k \in 0 .. Len(amRoutes)] == IF k = 0 THEN <<<<>>, FALSE>>
                                          ELSE RouteStep(a, walk[k - 1], amRoutes[k])
    IN  walk[Len(amRoutes)]
resolve_channels(a) ==
    LET matched == RouteWalk(a)[1]
    IN  IF matched # <<>> THEN matched ELSE AMDefault

AMInit ==
    /\ amActive = {} /\ amHistory = <<>> /\ amDisk = [active |-> {}, history |-> <<>>]
    /\ amLock = "free" /\ amSilences = {} /\ amRoutes = <<>>
    /\ amRec = [a \in AMAlert |-> [c \in AMChannels |-> "none"]]
    /\ amAt = [a \in AMAlert |-> [c \in AMChannels |-> "none"]]
    /\ amCall = [t \in AMThread |-> AMIdle]
    /\ amNow = 0 /\ amCalls = 0
    /\ amLast = [a \in AMAlert |-> "none"] /\ amOverlap = {}

-----------------------------------------------------------------------------
(* Operator actions and the clock.                                         *)

add_silence(s) ==
    /\ ValidSilence(s) /\ s \notin amSilences
    /\ amSilences' = amSilences \cup {s}
    /\ UNCHANGED <<amStore, amRoutes, amNow, amOut, amThreads>>
remove_silence(s) ==
    /\ s \in amSilences
    /\ amSilences' = amSilences \ {s}
    /\ UNCHANGED <<amStore, amRoutes, amNow, amOut, amThreads>>
add_route(r) ==
    /\ Len(amRoutes) < AMMaxRoutes /\ amCalls = 0
    /\ amRoutes' = Append(amRoutes, r)
    /\ UNCHANGED <<amStore, amSilences, amNow, amOut, amThreads>>
AMTick ==
    /\ amNow < AMMaxNow
    /\ amNow' = amNow + 1
    /\ UNCHANGED <<amStore, amSilences, amRoutes, amOut, amThreads>>

(* The process dies and starts again: _load reads the file, everything     *)
(* that is only in memory (silences, records) is gone; the routes are      *)
(* those of the configuration again.                                       *)
AMCrash ==
    /\ amNow < AMMaxNow /\ amNow' = amNow + 1
    /\ amActive' = amDisk.active /\ amHistory' = amDisk.history
    /\ amLock' = "free" /\ amSilences' = {}
    /\ amRec' = [a \in AMAlert |-> [c \in AMChannels |-> "none"]]
    /\ amOverlap' = amOverlap \cup {amCall[t].alert : t \in {u \in AMThread : amCall[u].pc # "idle"}}
    /\ amCall' = [t \in AMThread |-> AMIdle]
    /\ UNCHANGED <<amDisk, amRoutes, amAt, amCalls, amLast>>

-----------------------------------------------------------------------------
(* ingest and resolve.                                                     *)

Begin(t, a, pc, status) ==
    /\ amCalls + Len(amRoutes) < AMMaxWork /\ amCalls' = amCalls + 1
    /\ amCall' = [amCall EXCEPT ![t] =
                    [pc |-> pc, alert |-> a, status |-> status, todo |-> <<>>,
                     attempt |-> 0, data |-> amDisk]]
    /\ amOverlap' = IF \E u \in AMThread \ {t} : amCall[u].pc # "idle" /\ amCall[u].alert = a
                    THEN amOverlap \cup {a} ELSE amOverlap

ingest(t, a, status) ==
    /\ amCall[t].pc = "idle" /\ ValidAlert(a)
    /\ Begin(t, a, "check", status)
    /\ UNCHANGED <<amStore, amSetup, amOut>>

(* resolve: get_active under the store's lock; None for an unknown id.     *)
resolve(t, a) ==
    /\ amCall[t].pc = "idle" /\ amLock = "free" /\ a \in amActive
    /\ Begin(t, a, "upsert", "resolved")
    /\ UNCHANGED <<amStore, amSetup, amOut>>

CheckSilenced(t) ==
    /\ amCall[t].pc = "check"
    /\ amCall' = [amCall EXCEPT ![t].pc = "upsert",
                                ![t].status = IF is_silenced(amCall[t].alert)
                                              THEN "silenced" ELSE @]
    /\ UNCHANGED <<amStore, amSetup, amOut, amCalls, amOverlap>>

(* upsert, up to the temporary file of _save_locked; the lock is kept.     *)
UpsertBody(t) ==
    /\ amCall[t].pc = "upsert"
    /\ LET a == amCall[t].alert
           st == amCall[t].status
       IN  IF st \in {"resolved", "silenced"}
           THEN amActive' = amActive \ {a} /\ amHistory' = Append(amHistory, <<a, st>>)
           ELSE amActive' = amActive \cup {a} /\ UNCHANGED amHistory
    /\ amCall' = [amCall EXCEPT ![t].pc = "save",
                                ![t].data = [active |-> amActive', history |-> amHistory']]
    /\ amLock' = t
    /\ UNCHANGED <<amDisk, amLast, amSetup, amOut, amCalls, amOverlap>>
UpsertWithoutLock(t) == UpsertBody(t)
upsert(t) == amLock = "free" /\ UpsertBody(t)

(* os.replace, the release of the lock, and then the routing.              *)
Replace(t) ==
    /\ amCall[t].pc = "save"
    /\ amDisk' = amCall[t].data /\ amLock' = "free"
    /\ amLast' = [amLast EXCEPT ![amCall[t].alert] = amCall[t].status]
    /\ LET channels == IF amCall[t].status = "silenced" THEN <<>>
                       ELSE resolve_channels(amCall[t].alert)
       IN  amCall' = [amCall EXCEPT ![t] = IF channels = <<>> THEN AMIdle
                                           ELSE [@ EXCEPT !.pc = "deliver", !.todo = channels]]
    /\ UNCHANGED <<amActive, amHistory, amSetup, amOut, amCalls, amOverlap>>

-----------------------------------------------------------------------------
(* DeliveryEngine.deliver, one channel after the other.                    *)

NextChannel(t) ==
    LET old == amCall[t]
    IN  amCall' = [amCall EXCEPT ![t] =
                     IF Len(old.todo) = 1 THEN AMIdle
                     ELSE [old EXCEPT !.pc = "deliver", !.todo = Tail(old.todo), !.attempt = 0]]
_store(t, status) ==
    amRec' = [amRec EXCEPT ![amCall[t].alert][Head(amCall[t].todo)] = status]

(* A channel that is not configured, one that does not want resolutions,   *)
(* or a pending record and its first attempt.                              *)
deliver(t) ==
    /\ amCall[t].pc = "deliver"
    /\ LET c == Head(amCall[t].todo)
       IN  \/ c \notin DOMAIN AMChannel /\ _store(t, "failed") /\ NextChannel(t)
           \/ /\ c \in DOMAIN AMChannel /\ amCall[t].status = "resolved"
              /\ ~AMChannel[c].send_resolved
              /\ _store(t, "skipped") /\ NextChannel(t)
           \/ /\ c \in DOMAIN AMChannel
              /\ amCall[t].status # "resolved" \/ AMChannel[c].send_resolved
              /\ _store(t, "pending")
              /\ amCall' = [amCall EXCEPT ![t].pc = "post", ![t].attempt = 1]
    /\ UNCHANGED <<amStore, amSetup, amAt, amCalls, amOverlap>>

(* Every adapter names the alert by its id and tells firing from resolved: *)
(* an event action, a close URL, or the status in the text.                *)
_deliver_to_channel(t, reached) ==
    amAt' = IF ~reached THEN amAt
            ELSE [amAt EXCEPT ![amCall[t].alert][Head(amCall[t].todo)] =
                    IF amCall[t].status = "resolved" THEN "closed" ELSE "open"]

Attempt(t, reached, answered) ==
    /\ amCall[t].pc = "post"
    /\ _deliver_to_channel(t, reached)
    /\ \/ answered /\ reached /\ _store(t, "sent") /\ NextChannel(t)
       \/ /\ ~answered /\ amCall[t].attempt < AMMaxRetry
          /\ amCall' = [amCall EXCEPT ![t].attempt = @ + 1]
          /\ UNCHANGED amRec
       \/ /\ ~answered /\ amCall[t].attempt >= AMMaxRetry
          /\ _store(t, "failed") /\ NextChannel(t)
    /\ UNCHANGED <<amStore, amSetup, amCalls, amOverlap>>

AMStep(t) == CheckSilenced(t) \/ upsert(t) \/ Replace(t) \/ deliver(t)
             \/ \E reached, answered \in BOOLEAN : Attempt(t, reached, answered)

AMNext ==
    \/ \E s \in AMSilence : add_silence(s) \/ remove_silence(s)
    \/ \E r \in AMRoute : add_route(r)
    \/ AMTick \/ AMCrash
    \/ \E t \in AMThread, a \in AMAlert :
           (\E st \in {"firing", "resolved"} : ingest(t, a, st)) \/ resolve(t, a)
    \/ \E t \in AMThread : AMStep(t)

-----------------------------------------------------------------------------
(* Properties.                                                             *)

AMQuiet(a) == \A t \in AMThread : amCall[t].pc # "idle" => amCall[t].alert # a

(* The file agrees with the last upsert that was completed, whatever the   *)
(* interleaving of upserts and crashes: an alert whose ingest or resolve   *)
(* has passed its upsert is not resurrected or forgotten by a restart.     *)
AMStoreDurable ==
    \A a \in AMAlert : amLast[a] # "none" =>
        /\ (a \in amDisk.active) = (amLast[a] = "firing")
        /\ amLast[a] # "firing" =>
             \E i \in DOMAIN amDisk.history : amDisk.history[i] = <<a, amLast[a]>>

(* No incident stays open behind a resolution that is recorded as sent:    *)
(* when no two calls on the alert overlapped, a channel whose record says  *)
(* "sent" for an alert last resolved has heard of the resolution last.     *)
AMNoStuckIncident ==
    \A a \in AMAlert \ amOverlap, c \in DOMAIN AMChannel \cap AMChannels :
        (AMQuiet(a) /\ amLast[a] = "resolved" /\ amRec[a][c] = "sent")
            => amAt[a][c] = "closed"

(* "First match wins unless continue_matching": the channels of an alert   *)
(* are those of the matching routes up to the first that does not          *)
(* continue, each once, or the defaults when no route matches.             *)
AMFirstMatchWins ==
    \A a \in AMAlert :
        LET got == resolve_channels(a)
            hit == {i \in DOMAIN amRoutes : Matches(amRoutes[i].match, a)}
            used == {i \in hit : \A j \in hit : j < i => amRoutes[j].continue}
        IN  IF hit = {} THEN got = AMDefault
            ELSE /\ ToSet(got) = UNION {ToSet(amRoutes[i].channels) : i \in used}
                 /\ IsInjective(got)

(* A call that has not returned.  It must end: a dead receiver costs a     *)
(* caller AMMaxRetry more attempts per channel, and never under the lock.  *)
AMPending(t) == amCall[t].pc # "idle"

(* What AlertManager promises of an alert: the store on disk follows every *)
(* upsert, a channel that is recorded as sent has the last word on the     *)
(* alert, and routing follows the order of the routes.                     *)
AMSafe == AMStoreDurable /\ AMNoStuckIncident /\ AMFirstMatchWins

=============================================================================
