-------------------------------- MODULE Questions --------------------------------
(***************************************************************************)
(* The questions a lane asks in its final responses, from the monitor pass *)
(* that classifies them (monitord.handle_agent_question, question_handler) *)
(* to the operator's answer (operator_answer.record_operator_answer).      *)
(*                                                                         *)
(* A question stands for one final response that asks it.  The contract    *)
(* settles some, protected authority gates some, and the decisions log may *)
(* answer the rest.  The turn boundary of the supervision ledger is kept   *)
(* per goal version, because the code looks it up by the goal's digest.    *)
(***************************************************************************)
EXTENDS Naturals, Sequences

CONSTANTS
    Class,          \* per question: "protected" or other "denied" authority, "incomplete"
                    \* evidence, settled by the "contract", or "open"
    AnswerTexts,    \* what the operator may answer
    MaxContract,    \* goal versions
    MaxMishaps      \* crashes and failed deliveries

ASSUME QuestionsAssumption ==
    /\ Class \in Seq({"protected", "denied", "incomplete", "contract", "open"})
    /\ MaxContract \in Nat \ {0}

VARIABLES
    held,           \* "no", "question" (the gate's hold) or "other"
    asks,           \* open asks
    tasks,          \* open question tasks of the foreground
    ver,            \* the goal version
    asked,          \* questions asked so far
    upto,           \* turn boundary of each version
    ruling,         \* decisions.jsonl: the asks that a text answers, for a version
    answer,         \* order of the answer to each question, for this version
    relay,          \* operator_relay order of each (version, text)
    retired,        \* asks and tasks that an answer has retired
    mon,            \* the monitor pass
    oper,           \* record_operator_answer
    mishaps         \* faults so far

questionsVars == <<held, asks, tasks, ver, asked, upto, ruling, answer, relay, retired, mon, oper,
          mishaps>>

N == Len(Class)
Questions == 1..N
NoPass == [at |-> "idle", q |-> 0, v |-> 0, log |-> {}, mark |-> 0, whole |-> TRUE,
           to |-> 0]
NoAnswer == [at |-> "idle", text |-> "", v |-> 0, asks |-> {}, tasks |-> {}]

QuestionsInit ==
    /\ held = "no" /\ asks = {} /\ tasks = {} /\ ver = 1 /\ asked = 0
    /\ upto = [v \in 1..MaxContract |-> 0]
    /\ ruling = {}
    /\ answer = [q \in Questions |-> "none"]
    /\ relay = [k \in (1..MaxContract) \X AnswerTexts |-> "none"]
    /\ retired = {}
    /\ mon = NoPass /\ oper = NoAnswer /\ mishaps = 0

\* The lane ends a turn with a question.
Ask ==
    /\ asked < N
    /\ asked' = asked + 1
    /\ UNCHANGED <<held, asks, tasks, ver, upto, ruling, answer, relay, retired, mon, oper,
                   mishaps>>

---------------------------------------------------------------------------
(* handle_agent_question *)

\* The rulings that may answer a question of this version: bound to it, and
\* sharing its words, which here means that they answered the same question.
BoundToAny(v) == UNION {r.asks : r \in ruling}
BoundTo(v) == UNION {r.asks : r \in {r \in ruling : r.v = v}}

\* What authority the words of a question ask for, and what the frozen policy
\* says of it: denied, not provable from the evidence, or allowed.
Uses(q) == Class[q] \in {"protected", "denied", "incomplete"}
Granted(q) == Class[q] \notin {"protected", "denied"}
Authority(q) ==
    CASE ~Granted(q) -> "operator_required"
      [] Uses(q) /\ Granted(q) -> "foreground_residual"
      [] OTHER -> "allowed"

\* What the frozen goal's scope, finish line and next step settle.
ByContract(q) == Class[q] = "contract"

\* A ruling never stands in for protected authority.
Ruled(q, log) == Class[q] # "protected" /\ q \in log

\* handle_question
Disposition(q, log) ==
    CASE Authority(q) = "operator_required" /\ ~Ruled(q, log) -> "operator"
      [] Authority(q) = "foreground_residual" -> "residual"
      [] Authority(q) # "foreground_residual" /\ (ByContract(q) \/ Ruled(q, log)) -> "answered"
      [] OTHER -> "residual"

\* extract_questions, over the final responses after the boundary.
Unread(v) == (upto[v] + 1)..asked

\* A pass over a goal that is not held.  The questions after the boundary are
\* its window, and it reads the decisions log once.
Window(v) ==
    [at |-> "question", q |-> upto[v] + 1, v |-> v, log |-> BoundTo(v),
     mark |-> upto[v], whole |-> TRUE, to |-> asked]

MonBeginMarked ==
    /\ mon = NoPass /\ held = "no" /\ Unread(ver) # {}
    /\ mon' = Window(ver)
    /\ upto' = [upto EXCEPT ![ver] = asked]
    /\ UNCHANGED <<held, asks, tasks, ver, asked, ruling, answer, relay, retired, oper, mishaps>>

MonBegin ==
    /\ mon = NoPass /\ held = "no" /\ Unread(ver) # {}
    /\ mon' = Window(ver)
    /\ UNCHANGED <<held, asks, tasks, ver, asked, upto, ruling, answer, relay, retired, oper,
                   mishaps>>

\* On to the next question.  The boundary the pass will claim moves over
\* handled questions only, and not past one whose answer is still pending.
Handled(done) ==
    [mon EXCEPT !.at = IF mon.q = mon.to THEN "mark" ELSE "question",
                !.q = mon.q + 1,
                !.mark = IF done /\ mon.whole THEN mon.q ELSE mon.mark,
                !.whole = mon.whole /\ done]

\* add_foreground_task
MonResidual ==
    /\ mon.at = "question" /\ Disposition(mon.q, mon.log) = "residual"
    /\ tasks' = tasks \cup {mon.q}
    /\ mon' = Handled(TRUE)
    /\ UNCHANGED <<held, asks, ver, asked, upto, ruling, answer, relay, retired, oper, mishaps>>

\* add_ask, and only then hold_goal, over whatever hold there is.
MonAsk ==
    /\ mon.at = "question" /\ Disposition(mon.q, mon.log) = "operator"
    /\ asks' = asks \cup {mon.q}
    /\ mon' = [mon EXCEPT !.at = "hold"]
    /\ UNCHANGED <<held, tasks, ver, asked, upto, ruling, answer, relay, retired, oper, mishaps>>

MonHold ==
    /\ mon.at = "hold"
    /\ held' = "question"
    /\ mon' = Handled(TRUE)
    /\ UNCHANGED <<asks, tasks, ver, asked, upto, ruling, answer, relay, retired, oper, mishaps>>

\* reconcile_question_action: publishes the answer, or a failed one again under
\* its next attempt; done once its delivery and the turn that took it are
\* proven.  A pass that outlived its goal version publishes an order that the
\* dispatcher refuses.
MonAnswer ==
    /\ mon.at = "question" /\ Disposition(mon.q, mon.log) = "answered"
    /\ answer' = [answer EXCEPT ![mon.q] =
                     IF mon.v = ver /\ @ \in {"none", "failed"} THEN "queued" ELSE @]
    /\ mon' = Handled(mon.v = ver /\ answer[mon.q] = "taken")
    /\ UNCHANGED <<held, asks, tasks, ver, asked, upto, ruling, relay, retired, oper, mishaps>>

\* _mark_question_boundary; and in the same pass reconcile_corrective_action may
\* record the turn that took a corrective order, the last of the window.
MonMark ==
    /\ mon.at = "mark"
    /\ \E b \in {mon.mark, mon.to} : upto' = [upto EXCEPT ![mon.v] = b]
    /\ mon' = NoPass
    /\ UNCHANGED <<held, asks, tasks, ver, asked, ruling, answer, relay, retired, oper, mishaps>>

MonCrash ==
    /\ mon # NoPass /\ mishaps < MaxMishaps
    /\ mon' = NoPass /\ mishaps' = mishaps + 1
    /\ UNCHANGED <<held, asks, tasks, ver, asked, upto, ruling, answer, relay, retired, oper>>

---------------------------------------------------------------------------
(* record_operator_answer *)

\* get_goal: what the operator saw.
OperBegin(t) ==
    /\ oper = NoAnswer
    /\ oper' = [at |-> "rule", text |-> t, v |-> ver, asks |-> asks, tasks |-> tasks]
    /\ UNCHANGED <<held, asks, tasks, ver, asked, upto, ruling, answer, relay, retired, mon,
                   mishaps>>

Key == <<oper.v, oper.text>>

\* append_decision, unless this text is already a ruling on this version.
OperRule ==
    /\ oper.at = "rule"
    /\ ruling' = IF \E r \in ruling : <<r.v, r.text>> = Key THEN ruling
                 ELSE ruling \cup {[v |-> oper.v, text |-> oper.text, asks |-> oper.asks]}
    /\ oper' = [oper EXCEPT !.at = "retire"]
    /\ UNCHANGED <<held, asks, tasks, ver, asked, upto, answer, relay, retired, mon, mishaps>>

\* resolve_ask and resolve_foreground_task, for those in the snapshot that are
\* still open.
OperRetire ==
    /\ oper.at = "retire"
    /\ asks' = asks \ oper.asks /\ tasks' = tasks \ oper.tasks
    /\ retired' = retired \cup (asks \cap oper.asks) \cup (tasks \cap oper.tasks)
    /\ oper' = [oper EXCEPT !.at = "relay"]
    /\ UNCHANGED <<held, ver, asked, upto, ruling, answer, relay, mon, mishaps>>

\* _enqueue_relay_order: a live order stands, a delivered one is not repeated,
\* and a dead one is followed by the next attempt.
OperRelay ==
    /\ oper.at = "relay"
    /\ relay' = [relay EXCEPT ![Key] = IF @ \in {"none", "dead"} THEN "live" ELSE @]
    /\ oper' = [oper EXCEPT !.at = "look"]
    /\ UNCHANGED <<held, asks, tasks, ver, asked, upto, ruling, answer, retired, mon, mishaps>>

\* get_goal again; resume_goal looks at the status only.
OperLook ==
    /\ oper.at = "look"
    /\ oper' = [oper EXCEPT !.at = IF held = "question" /\ asks = {} THEN "resume" ELSE "requeue"]
    /\ UNCHANGED <<held, asks, tasks, ver, asked, upto, ruling, answer, relay, retired, mon,
                   mishaps>>

OperResume ==
    /\ oper.at = "resume"
    /\ held' = "no"
    /\ oper' = [oper EXCEPT !.at = "requeue"]
    /\ UNCHANGED <<asks, tasks, ver, asked, upto, ruling, answer, relay, retired, mon, mishaps>>

\* requeue_deferred_for_session
Requeued == [k \in DOMAIN relay |-> IF relay[k] = "deferred" THEN "live" ELSE relay[k]]

OperRequeue ==
    /\ oper.at = "requeue"
    /\ relay' = IF held = "no" THEN Requeued ELSE relay
    /\ oper' = NoAnswer
    /\ UNCHANGED <<held, asks, tasks, ver, asked, upto, ruling, answer, retired, mon, mishaps>>

OperCrash ==
    /\ oper # NoAnswer /\ mishaps < MaxMishaps
    /\ oper' = NoAnswer /\ mishaps' = mishaps + 1
    /\ UNCHANGED <<held, asks, tasks, ver, asked, upto, ruling, answer, relay, retired, mon>>

---------------------------------------------------------------------------
(* The queue, and the rest of the fleet *)

\* dispatchd delivers an answer to a lane that is not held, or the paste
\* fails; an answer that meets a hold is rejected.
DeliverAnswer(q) ==
    /\ answer[q] = "queued"
    /\ \/ held = "no" /\ answer' = [answer EXCEPT ![q] = "sent"] /\ UNCHANGED mishaps
       \/ held # "no" /\ answer' = [answer EXCEPT ![q] = "rejected"] /\ UNCHANGED mishaps
       \/ mishaps < MaxMishaps /\ answer' = [answer EXCEPT ![q] = "failed"] /\ mishaps' = mishaps + 1
    /\ UNCHANGED <<held, asks, tasks, ver, asked, upto, ruling, relay, retired, mon, oper>>

TakeAnswer(q) ==
    /\ answer[q] = "sent"
    /\ answer' = [answer EXCEPT ![q] = "taken"]
    /\ UNCHANGED <<held, asks, tasks, ver, asked, upto, ruling, relay, retired, mon, oper, mishaps>>

\* A relay order is rejected when its version is gone, parked while the goal is
\* held, and pasted otherwise.
DeliverRelay(k) ==
    /\ relay[k] = "live"
    /\ relay' = [relay EXCEPT ![k] = IF k[1] # ver THEN "dead"
                                     ELSE IF held # "no" THEN "deferred" ELSE "sent"]
    /\ UNCHANGED <<held, asks, tasks, ver, asked, upto, ruling, answer, retired, mon, oper, mishaps>>

\* Other holds, and the release that goes with them.
HoldOther ==
    /\ held = "no" /\ held' = "other"
    /\ UNCHANGED <<asks, tasks, ver, asked, upto, ruling, answer, relay, retired, mon, oper, mishaps>>

ResumeOther ==
    /\ held = "other" /\ held' = "no"
    /\ relay' = Requeued
    /\ UNCHANGED <<asks, tasks, ver, asked, upto, ruling, answer, retired, mon, oper, mishaps>>

\* redirect_goal: a new version, without the foreground tasks of the old one.
Redirect ==
    /\ ver < MaxContract
    /\ ver' = ver + 1
    /\ tasks' = {}
    /\ answer' = [q \in Questions |-> "none"]
    /\ UNCHANGED <<held, asks, asked, upto, ruling, relay, retired, mon, oper, mishaps>>

QuestionsNext ==
    \/ Ask \/ MonBegin \/ MonResidual \/ MonAsk \/ MonHold \/ MonAnswer \/ MonMark \/ MonCrash
    \/ \E t \in AnswerTexts : OperBegin(t)
    \/ OperRule \/ OperRetire \/ OperRelay \/ OperLook \/ OperResume \/ OperRequeue \/ OperCrash
    \/ \E q \in Questions : DeliverAnswer(q) \/ TakeAnswer(q)
    \/ \E k \in DOMAIN relay : DeliverRelay(k)
    \/ HoldOther \/ ResumeOther \/ Redirect

QuestionsSpec == QuestionsInit /\ [][QuestionsNext]_questionsVars

---------------------------------------------------------------------------
\* No question is dropped: from the final response that asks it, whatever
\* crashes and whichever turn the boundary is moved to, it is still in the
\* window of the next pass, or an open ask or task, or retired by an answer, or
\* an answer of this goal version was published (handle_agent_question: an
\* event is consumed once every question on it has reached durable state).
QuestionsAreTracked ==
    \A q \in 1..asked :
        q \in Unread(ver) \/ q \in asks \cup tasks \cup retired \/ answer[q] # "none"

\* The lane is told only what its own contract version settles: an answer to a
\* question that the contract leaves open is delivered only under a ruling the
\* operator made on the version in force (dispatch goal binding, decisions
\* matching in question_handler).
AnswersFollowRulings ==
    \A q \in Questions :
        answer[q] \in {"sent", "taken"} =>
            /\ Class[q] # "protected"
            /\ Class[q] = "contract" \/ \E r \in ruling : r.v = ver /\ q \in r.asks
=============================================================================
