-------------------------------- MODULE Petra --------------------------------
(***************************************************************************)
(* Petra's advisory ledger: chitra.petra beside the ownership providers.   *)
(* An observer cites an answer of a provider in an observation.  Petra     *)
(* asks again, and records the observation only beside a live answer that  *)
(* agrees with it.                                                         *)
(***************************************************************************)
EXTENDS Ownership

CONSTANTS
    EventIds,       \* event ids of observations
    Lifetime,       \* what an observation lives, in ticks
    Capacity        \* MAX_LEDGER_EVENTS

ASSUME PetraAssumption == Lifetime \in Nat /\ Validity \in Nat /\ MaxAge \in Nat

VARIABLES
    sent,           \* the observations the observer sent
    petra,          \* the request at hand
    rows, outbox,   \* petra_observations and petra_outbox
    health,         \* health.json
    past            \* history: what goals.json held at each tick

advisory == <<sent, petra, rows, outbox, health>>
petraVars == <<ownership, advisory, past>>

NoCitation == [sess |-> "", boot |-> 0, inst |-> <<>>, version |-> 0, gen |-> 0]
NoObservation == [id |-> "", cites |-> NoCitation, at |-> 0, expires |-> 0]
NoFenceAnswer == [sess |-> "", boot |-> 0, inst |-> <<>>, at |-> 0, until |-> 0, schema |-> "",
             sure |-> FALSE, gen |-> 0, heart |-> 0, version |-> 0]
NoCase == [pc |-> "idle", obs |-> NoObservation, to |-> "", ans |-> NoFenceAnswer, verdict |-> ""]
NotReady == [ready |-> FALSE, inst |-> <<>>, gen |-> 0]

LedgerInit ==
    /\ sent = {} /\ petra = NoCase /\ rows = {} /\ outbox = {} /\ health = NotReady
    /\ past = [t \in 0 .. MaxTime |-> IF t = 0 THEN {goals} ELSE {}]

PetraInit == OwnershipInit /\ LedgerInit

-----------------------------------------------------------------------------
\* What the providers and the files do meanwhile.

OutsideStep ==
    /\ Outside
    /\ past' = [past EXCEPT ![now'] = @ \cup {goals'}]
    /\ UNCHANGED advisory

ObserverAsks(p, s) == Query(p, "observer", s, boot) /\ UNCHANGED <<advisory, past>>

\* The observer cites an answer that says owned.
Observations(a) ==
    {[id |-> id, at |-> now, expires |-> now + Lifetime,
      cites |-> [sess |-> a.sess, boot |-> a.boot, inst |-> a.inst, version |-> a.version,
                 gen |-> a.gen]] : id \in EventIds}

AnswerObserver(p) ==
    LET a == Result(p) IN
    /\ prov[p].from = "observer" /\ Answer(p)
    /\ IF a.version # 0 THEN \E o \in Observations(a) : sent' = sent \cup {o} ELSE UNCHANGED sent
    /\ UNCHANGED <<petra, rows, outbox, health, past>>

\* Petra reads the answer, unless it gave up and closed the connection.
AnswerPetra(p) ==
    /\ prov[p].from = "petra" /\ Answer(p)
    /\ petra' = IF petra.pc = "waiting" /\ petra.to = p
                THEN [petra EXCEPT !.pc = "answered", !.ans = Result(p)] ELSE petra
    /\ UNCHANGED <<sent, rows, outbox, health, past>>

\* request_json_line fails with its provider.
ProviderStops(p) ==
    /\ ProviderRestarts(p)
    /\ petra' = IF petra.pc = "waiting" /\ petra.to = p
                THEN [petra EXCEPT !.pc = "done", !.verdict = "ownership_unavailable"] ELSE petra
    /\ UNCHANGED <<sent, rows, outbox, health, past>>

HostReboots ==
    /\ Reboot
    /\ petra' = NoCase /\ health' = NotReady
    /\ UNCHANGED <<sent, rows, outbox, past>>

-----------------------------------------------------------------------------
\* Petra, one request at a time.

\* validate_observation: what time decides of it.
Timely(o) == now < o.expires /\ now - o.at <= Lifetime

\* An observation arrives, for the first time or again.
Receive(o) ==
    /\ petra.pc = "idle" /\ Timely(o)
    /\ petra' = [NoCase EXCEPT !.pc = "asking", !.obs = o]
    /\ UNCHANGED <<ownership, sent, rows, outbox, health, past>>

\* ownership_query_for, sent to whichever provider has the socket.
AskProvider(p) ==
    /\ petra.pc = "asking"
    /\ Accept(p, "petra", petra.obs.cites.sess, petra.obs.cites.boot)
    /\ petra' = [petra EXCEPT !.pc = "waiting", !.to = p]
    /\ UNCHANGED <<now, boot, ownedFiles, fence, inst, answered, questioned, faults, sent, rows, outbox, health, past>>

\* The call fails, or times out while the provider is still at it.
AskFails ==
    /\ petra.pc \in {"asking", "waiting"} /\ Fault
    /\ petra' = [petra EXCEPT !.pc = "done", !.verdict = "ownership_unavailable"]
    /\ UNCHANGED <<now, boot, ownedFiles, services, questioned, sent, rows, outbox, health, past>>

\* validate_ownership_fence, in its order.
FenceChecks(o, a) ==
    << <<~a.sure, "ownership_not_authoritative">>,
       <<a.schema # "chitra.goals.v1", "ownership_not_ready">>,
       <<a.version = 0, "ownership_not_owned">>,
       <<a.inst # o.cites.inst, "ownership_instance_mismatch">>,
       <<a.version # o.cites.version \/ a.gen # o.cites.gen, "ownership_generation_mismatch">>,
       <<now - a.at > MaxAge, "ownership_unavailable">>,
       <<now - a.heart > MaxAge, "ownership_not_ready">>,
       <<a.until <= now, "ownership_expired">> >>

FirstOf(checks) ==
    LET raised == {i \in DOMAIN checks : checks[i][1]}
    IN  IF raised = {} THEN "ok" ELSE checks[Min(raised)][2]

\* Without the last three checks.
FenceVerdictTimeless(o, a) == FirstOf([i \in 1 .. 5 |-> FenceChecks(o, a)[i]])
FenceVerdict(o, a) == FirstOf(FenceChecks(o, a))

\* record_observation: what the transaction finds, in its order.
LedgerChecks(o) ==
    << <<\E r \in rows : r.obs.id = o.id /\ r.obs # o, "conflicting_duplicate">>,
       <<\E r \in rows : r.obs = o, "duplicate">>,
       <<Cardinality(rows) >= Capacity, "ledger_capacity">> >>

\* The second half of the handler: the observation and the answer are judged
\* at one time, after the round trip; then one transaction writes both rows.
Decide ==
    LET o == petra.obs
        a == petra.ans
        verdict == IF ~Timely(o) THEN "expired_observation"
                   ELSE IF FenceVerdict(o, a) # "ok" THEN FenceVerdict(o, a)
                   ELSE IF FirstOf(LedgerChecks(o)) # "ok" THEN FirstOf(LedgerChecks(o))
                   ELSE "accepted"
        Finish(v) == petra' = [petra EXCEPT !.pc = "done", !.verdict = v]
    IN  /\ petra.pc = "answered"
        /\ \/ /\ Finish(verdict)
              /\ rows' = IF verdict = "accepted" THEN rows \cup {[obs |-> o, ans |-> a, at |-> now]}
                         ELSE rows
              /\ outbox' = IF verdict = "accepted" THEN outbox \cup {o.id} ELSE outbox
              /\ UNCHANGED faults
           \/ /\ verdict \in {"accepted", "duplicate"} /\ Fault
              /\ Finish("ledger_unavailable")
              /\ UNCHANGED <<rows, outbox>>
        /\ UNCHANGED <<now, boot, ownedFiles, services, questioned, sent, health, past>>

\* publish_health, then the acknowledgement or the refusal.
PublishHealth ==
    /\ petra.pc = "done"
    /\ petra' = NoCase
    /\ health' = IF petra.verdict \in {"accepted", "duplicate"}
                 THEN [ready |-> TRUE, inst |-> petra.obs.cites.inst, gen |-> petra.obs.cites.gen]
                 ELSE NotReady
    /\ UNCHANGED <<ownership, sent, rows, outbox, past>>

\* Petra dies and starts again; what was committed stays.
PetraRestarts ==
    /\ Fault /\ petra' = NoCase /\ health' = NotReady
    /\ UNCHANGED <<now, boot, ownedFiles, services, questioned, sent, rows, outbox, past>>

PetraNext ==
    \/ OutsideStep \/ HostReboots
    \/ \E p \in Providers :
         \/ ProviderStep(p) /\ UNCHANGED <<advisory, past>>
         \/ AnswerObserver(p) \/ AnswerPetra(p) \/ ProviderStops(p) \/ AskProvider(p)
         \/ \E s \in SessionRefs : ObserverAsks(p, s)
    \/ \E o \in sent : Receive(o)
    \/ AskFails \/ Decide \/ PublishHealth \/ PetraRestarts

PetraSpec == PetraInit /\ [][PetraNext]_petraVars

-----------------------------------------------------------------------------
\* What Petra recorded was true a short time ago: at the manager's heartbeat,
\* at most MAX_OWNERSHIP_AGE_SECONDS before the record, the session was in
\* goals.json with the very goal version the observation cites.  One event id
\* has one row, and one entry in the outbox; health claims no readiness without
\* a row to show for it (observation_handler, record_observation).
RecordsAreGrounded ==
    /\ \A r \in rows :
         /\ r.at < r.obs.expires
         /\ r.at - r.ans.heart <= MaxAge
         /\ \E d \in past[r.ans.heart] : d[r.obs.cites.sess] = r.obs.cites.version /\ r.obs.cites.version # 0
    /\ \A q, r \in rows : q.obs.id = r.obs.id => q = r
    /\ outbox = {r.obs.id : r \in rows}
    /\ health.ready => \E r \in rows : r.obs.cites.inst = health.inst /\ r.obs.cites.gen = health.gen

\* Petra refuses no observation whose fresh answer says owned and agrees with
\* it, except for the state of its ledger.
AgreedOwnershipIsRecorded ==
    LET o == petra.obs
        a == petra.ans
    IN  petra.pc = "done" /\ petra.verdict = "ownership_not_ready" =>
            ~(a.sure /\ a.version # 0 /\ a.inst = o.cites.inst /\ a.version = o.cites.version
              /\ a.gen = o.cites.gen /\ now - a.heart <= MaxAge)
=============================================================================
