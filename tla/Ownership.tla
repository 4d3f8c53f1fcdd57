------------------------------ MODULE Ownership ------------------------------
(***************************************************************************)
(* Who owns a session: chitra.ownership_provider.  A manager marks         *)
(* goals.json as one complete snapshot, in a second file.  Providers read  *)
(* the two files one after the other, pass a fence they keep on disk, and  *)
(* answer.  Files change between any two steps, time passes, and the       *)
(* manager, the providers and the host restart.                            *)
(***************************************************************************)
EXTENDS Naturals, FiniteSets, FiniteSetsExt

CONSTANTS
    SessionRefs,    \* session references of this host
    LaneOf,         \* their lane ids
    Providers,      \* provider processes that share one fence file
    MaxAge,         \* state_max_age_seconds, in ticks
    Validity,       \* validity_seconds, in ticks
    AnswerSchema,   \* GOALS_SCHEMA of the provider that is deployed
    MaxRecordVersion, \* bound: goal_version of a record
    MaxTime,        \* bound: ticks
    MaxWrites,      \* bound: writes of goals.json, and markers built
    MaxAsks,        \* bound: questions of one caller
    MaxRestarts     \* bound: restarts, failed calls

ASSUME OwnershipAssumption == MaxRecordVersion \in Nat /\ MaxTime \in Nat

Docs == [SessionRefs -> 0 .. MaxRecordVersion] \* goal_version, 0 for no record
NoDoc == [s \in SessionRefs |-> 0]
NoMarker == [digest |-> NoDoc, gen |-> 0, heart |-> 0, boot |-> 0, complete |-> FALSE]
NoFence == [boot |-> 0, gen |-> 0, digest |-> NoDoc]

VARIABLES
    now, boot,
    goals,          \* goals.json
    marker,         \* goals.managed.json
    draft,          \* the marker the manager built and has not published yet
    counter,        \* the manager's generation
    fence,          \* ownership-generation.json
    prov, inst,     \* the providers, and their instance ids
    answered,       \* history: what authoritative answers were read from
    writes, questioned, faults

ownedFiles == <<goals, marker, draft, counter, writes>>
services == <<fence, prov, inst, answered>>
ownership == <<now, boot, ownedFiles, services, questioned, faults>>

NoWork == [pc |-> "idle", from |-> "", sess |-> "", boot |-> 0, given |-> {},
           doc |-> NoDoc, mark |-> NoMarker]

OwnershipInit ==
    /\ now = 0 /\ boot = 1
    /\ goals \in {d \in Docs : \E s \in SessionRefs : d[s] = 1 /\ \A r \in SessionRefs \ {s} : d[r] = 0}
    /\ marker = NoMarker /\ draft = NoMarker /\ counter = 0
    /\ fence = NoFence
    /\ prov = [p \in Providers |-> NoWork] /\ inst = [p \in Providers |-> 1]
    /\ answered = {}
    /\ writes = 0 /\ questioned = 0 /\ faults = 0

Fault == faults < MaxRestarts /\ faults' = faults + 1

Tick ==
    /\ now < MaxTime /\ now' = now + 1
    /\ UNCHANGED <<boot, ownedFiles, services, questioned, faults>>

-----------------------------------------------------------------------------
\* The manager and the writers of goals.json.

WriteGoals(d) ==
    /\ writes < MaxWrites /\ writes' = writes + 1
    /\ d # goals /\ goals' = d
    /\ UNCHANGED <<now, boot, marker, draft, counter, services, questioned, faults>>

\* managed_marker_for_state: the digest is taken of the bytes it is given.  The
\* manager counts a generation for every snapshot it has not marked last.
BuildMarker(complete) ==
    /\ draft = NoMarker /\ writes < MaxWrites /\ writes' = writes + 1
    /\ IF complete THEN UNCHANGED faults ELSE Fault
    /\ LET again == counter # 0 /\ marker.digest = goals /\ marker.gen = counter
           gen == IF again THEN counter ELSE counter + 1
       IN  /\ counter' = gen
           /\ draft' = [digest |-> goals, gen |-> gen, heart |-> now, boot |-> boot,
                        complete |-> complete]
    /\ UNCHANGED <<now, boot, goals, marker, services, questioned>>

PublishMarker ==
    /\ draft # NoMarker
    /\ marker' = draft /\ draft' = NoMarker
    /\ UNCHANGED <<now, boot, goals, counter, writes, services, questioned, faults>>

\* A manager that starts over counts its generations from the beginning.
ManagerRestarts ==
    /\ Fault /\ draft' = NoMarker /\ counter' = 0
    /\ UNCHANGED <<now, boot, goals, marker, writes, services, questioned>>

-----------------------------------------------------------------------------
\* The provider.

Does(p, x) == prov' = [prov EXCEPT ![p] = x]

\* The generations answered from in this boot.
Given == {x.gen : x \in {y \in answered : y.boot = boot}}

\* validate_query: a request names a host, a boot and a session of that host.
Accept(p, from, s, b) ==
    /\ prov[p].pc = "idle"
    /\ Does(p, [NoWork EXCEPT !.pc = "goals", !.from = from, !.sess = s, !.boot = b,
                              !.given = Given])

\* _read_bounded_regular_file: a read sees one published file, or fails.
ReadGoals(p) ==
    /\ prov[p].pc = "goals"
    /\ Does(p, [prov[p] EXCEPT !.pc = "marker", !.doc = goals])
    /\ UNCHANGED <<now, boot, ownedFiles, fence, inst, answered, questioned, faults>>

\* _validate_goals_document: no two records of one lane.
WellFormed(d) ==
    \A r, s \in SessionRefs : d[r] # 0 /\ d[s] # 0 /\ LaneOf[r] = LaneOf[s] => r = s

\* The checks of load_managed_state before the fence.
MarkedDocNoDigest(d, m) ==
    m.complete /\ m.boot = boot /\ now - m.heart <= MaxAge /\ WellFormed(d)
MarkedDoc(d, m) ==
    /\ m.complete
    /\ m.boot = boot
    /\ m.digest = d
    /\ now - m.heart <= MaxAge
    /\ WellFormed(d)

ReadMarker(p) ==
    /\ prov[p].pc = "marker"
    /\ Does(p, [prov[p] EXCEPT !.mark = marker,
                               !.pc = IF MarkedDoc(prov[p].doc, marker) THEN "fence" ELSE "unknown"])
    /\ UNCHANGED <<now, boot, ownedFiles, fence, inst, answered, questioned, faults>>

\* Either of the two reads can fail.
ReadFails(p) ==
    /\ prov[p].pc \in {"goals", "marker"} /\ Fault
    /\ Does(p, [prov[p] EXCEPT !.pc = "unknown"])
    /\ UNCHANGED <<now, boot, ownedFiles, fence, inst, answered, questioned>>

\* What the fence lets through in the boot it was written in.
MayPassAnyDigest(m, d) == fence.boot = boot => m.gen >= fence.gen
MayPass(m, d) ==
    fence.boot = boot =>
        m.gen > fence.gen \/ (m.gen = fence.gen /\ d = fence.digest)

\* _enforce_generation_fence, under the lock of the fence file.  It writes the
\* fence unless it stands at this generation already; a failed read or write
\* refuses.
EnforceFence(p) ==
    LET m == prov[p].mark
        d == prov[p].doc
        stands == fence.boot = boot /\ fence.gen = m.gen
    IN  /\ prov[p].pc = "fence"
        /\ \/ /\ MayPass(m, d)
              /\ fence' = IF stands THEN fence ELSE [boot |-> boot, gen |-> m.gen, digest |-> d]
              /\ Does(p, [prov[p] EXCEPT !.pc = "known"])
              /\ UNCHANGED faults
           \/ /\ ~MayPass(m, d)
              /\ Does(p, [prov[p] EXCEPT !.pc = "unknown"])
              /\ UNCHANGED <<fence, faults>>
           \/ /\ Fault
              /\ Does(p, [prov[p] EXCEPT !.pc = "unknown"])
              /\ UNCHANGED fence
        /\ UNCHANGED <<now, boot, ownedFiles, inst, answered, questioned>>

\* ownership_result: the state counts only for a request of this very boot.
Result(p) ==
    LET q == prov[p]
        sure == q.pc = "known" /\ q.boot = boot
    IN  [sess |-> q.sess, boot |-> q.boot, inst |-> <<p, inst[p]>>, at |-> now,
         until |-> now + Validity, schema |-> AnswerSchema, sure |-> sure,
         gen |-> q.mark.gen, heart |-> q.mark.heart,
         version |-> IF sure THEN q.doc[q.sess] ELSE 0]

\* The answer is written, to a caller that may be gone.
Answer(p) ==
    /\ prov[p].pc \in {"known", "unknown"}
    /\ Does(p, NoWork)
    /\ answered' = IF Result(p).sure
               THEN answered \cup {[boot |-> boot, gen |-> prov[p].mark.gen, doc |-> prov[p].doc]}
               ELSE answered
    /\ UNCHANGED <<now, boot, ownedFiles, fence, inst, questioned, faults>>

\* A provider starts over with another instance id; its caller gets nothing.
ProviderRestarts(p) ==
    /\ Fault /\ inst' = [inst EXCEPT ![p] = @ + 1]
    /\ Does(p, NoWork)
    /\ UNCHANGED <<now, boot, ownedFiles, fence, answered, questioned>>

\* Everything stops and another boot begins; files stay.
Reboot ==
    /\ Fault /\ boot' = boot + 1
    /\ draft' = NoMarker /\ counter' = 0
    /\ prov' = [p \in Providers |-> NoWork] /\ inst' = [p \in Providers |-> inst[p] + 1]
    /\ UNCHANGED <<now, goals, marker, writes, fence, answered, questioned>>

\* A caller asks; it may hold on to the id of an earlier boot.
Query(p, from, s, b) ==
    /\ questioned < MaxAsks /\ questioned' = questioned + 1
    /\ Accept(p, from, s, b)
    /\ UNCHANGED <<now, boot, ownedFiles, fence, inst, answered, faults>>

ProviderStep(p) == ReadGoals(p) \/ ReadMarker(p) \/ ReadFails(p) \/ EnforceFence(p)
Outside ==
    \/ Tick
    \/ \E d \in Docs : WriteGoals(d)
    \/ \E complete \in BOOLEAN : BuildMarker(complete)
    \/ PublishMarker \/ ManagerRestarts

OwnershipNext ==
    \/ Outside \/ Reboot
    \/ \E p \in Providers :
         \/ ProviderStep(p) \/ Answer(p) \/ ProviderRestarts(p)
         \/ \E s \in SessionRefs, b \in 1 .. boot : Query(p, "caller", s, b)

OwnershipSpec == OwnershipInit /\ [][OwnershipNext]_ownership

-----------------------------------------------------------------------------
\* Within a boot, all authoritative answers of one generation come from one
\* document, and no answer is from an older generation than one that had been
\* given when its question arrived: across providers, their restarts, and a
\* manager that counts from the beginning again (load_managed_state,
\* _enforce_generation_fence).
AnswersFollowOneHistory ==
    /\ \A x, y \in answered : x.boot = y.boot /\ x.gen = y.gen => x.doc = y.doc
    /\ \A p \in DOMAIN prov : prov[p].pc = "known" =>
         \A g \in prov[p].given : prov[p].mark.gen >= g
=============================================================================
