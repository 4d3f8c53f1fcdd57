------------------------------- MODULE PaneSend -------------------------------
(***************************************************************************)
(* Typing orders into a lane's pane: dispatch_to_tmux of dispatch.py.  A   *)
(* capture shows what the terminal has painted, not what the composer      *)
(* holds; the operator types into the same composer, may scroll the pane   *)
(* into copy mode and may press Enter; a submitted text starts a turn or   *)
(* waits for the running one; and only the lane's transcript proves that   *)
(* an order was consumed.  Module Dispatchd abstracts all of this to its   *)
(* actions Paste and Confirm.                                              *)
(***************************************************************************)
EXTENDS Naturals, Sequences

CONSTANTS
    Orders,         \* orders of the lane, with distinct texts
    MaxPolls,       \* SUBMIT_VERIFY_MAX_POLLS
    MaxTyped,       \* bound: what the operator does
    MaxPaneFaults   \* bound: commands and captures that fail, keys without effect

VARIABLES
    backend,        \* whose composer it is: "claude", "codex" or "shell"
    governed,       \* the lane is reached through the governed remote grant
    composer,       \* the texts in it
    busy,           \* a turn is running
    copying,        \* the pane is in copy mode
    screen,         \* what was last painted: [texts, busy]
    queued,         \* submitted texts that wait for the running turn
    transcript,     \* the lane's records: [role, texts]
    pc, sendOrder, polls, seen, \* the send in progress and its last capture
    result,         \* order -> its DispatchResult
    typed, faults,
    raced,          \* history: the operator typed during this send, or unseen before it
    pasted,         \* history: orders that were pasted
    grabbed         \* history: the dispatcher submitted a draft it did not race with

pane == <<backend, governed, composer, busy, copying, screen, queued, transcript>>
send == <<pc, sendOrder, polls, seen>>
history == <<raced, pasted, grabbed>>
paneVars == <<pane, send, result, typed, faults, history>>

\* What the operator leaves in the composer; Claude Code folds a long paste.
Drafts == {"draft", "folded"}
NoOrder == "none"

\* An order's text is none of the operator's, and every order has a name.
ASSUME OrdersAreOrders == Orders \cap (Drafts \cup {NoOrder}) = {}

Blank == [texts |-> {}, busy |-> FALSE]
NoCapture == [texts |-> {"unavailable"}, busy |-> FALSE]

PaneInit ==
    /\ backend \in {"claude", "codex", "shell"}
    /\ governed \in BOOLEAN /\ (governed => backend = "codex")
    /\ composer = {} /\ busy = FALSE /\ copying = FALSE /\ screen = Blank
    /\ queued = {} /\ transcript = <<>>
    /\ pc = "idle" /\ sendOrder = NoOrder /\ polls = 0 /\ seen = Blank
    /\ result = [o \in Orders |-> "none"]
    /\ typed = 0 /\ faults = 0 /\ raced = FALSE /\ pasted = {} /\ grabbed = FALSE

Fault == faults < MaxPaneFaults /\ faults' = faults + 1
Works == UNCHANGED faults

\* A capture is what was painted last, or nothing.
Capture(s) == \/ s = screen /\ Works
              \/ s = NoCapture /\ Fault
Captures == {screen, NoCapture}

RowIdleAny(s) == s # NoCapture /\ (backend = "shell" => ~s.busy)

\* pane_input_check: the client's input row is empty or shows its dim hint, or
\* the last line is a bare prompt.
RowIdle(s) == s # NoCapture /\ s.texts = {} /\ (backend = "shell" => ~s.busy)

\* The input row a capture shows; only the two clients' are known.
InputRow(s) == IF backend = "shell" THEN {} ELSE s.texts

\* _composer_holds_marker: any folded paste in Claude Code's row counts as ours.
Holds(s) == sendOrder \in InputRow(s) \/ (backend = "claude" /\ "folded" \in InputRow(s))

Goes(step) == pc' = step /\ polls' = 0 /\ UNCHANGED <<sendOrder, seen, result>>
Polls == polls < MaxPolls /\ polls' = polls + 1 /\ UNCHANGED <<pc, sendOrder, seen, result>>
Ends(out) ==
    /\ result' = [result EXCEPT ![sendOrder] = out]
    /\ pc' = "idle" /\ sendOrder' = NoOrder /\ polls' = 0 /\ seen' = Blank

-----------------------------------------------------------------------------
\* The client: submitted texts become one user record and start a turn, or
\* wait for the one that runs.  A shell just runs them.
Submits(texts) ==
    /\ composer' = {}
    /\ IF texts = {} \/ backend = "shell" THEN UNCHANGED <<busy, queued, transcript>>
       ELSE IF busy THEN queued' = queued \cup texts /\ UNCHANGED <<busy, transcript>>
       ELSE /\ transcript' = Append(transcript, [role |-> "user", texts |-> texts])
            /\ busy' = TRUE /\ UNCHANGED queued
    /\ UNCHANGED <<backend, governed, copying, screen>>

\* A key of the dispatcher.  Copy mode swallows it, Codex's composer may, and
\* Tab queues only while a turn runs.
Press(key) ==
    \/ /\ copying \/ backend = "codex" \/ (key = "Tab" /\ ~busy)
       /\ Works /\ UNCHANGED <<pane, grabbed>>
    \/ Fault /\ UNCHANGED <<pane, grabbed>>
    \/ /\ ~copying /\ (key = "Tab" => busy)
       /\ Works /\ Submits(composer)
       /\ grabbed' = (grabbed \/ (composer \cap Drafts # {} /\ ~raced))

-----------------------------------------------------------------------------
\* dispatch_to_tmux.  An unsupported target, a banned phrase or a host that
\* is not allowed ends it before the pane is looked at.
Begin(o) ==
    /\ pc = "idle" /\ result[o] = "none"
    /\ \/ /\ sendOrder' = o /\ pc' = "check" /\ raced' = FALSE
          /\ UNCHANGED result
       \/ /\ \E out \in {"blocked", "failed"} : result' = [result EXCEPT ![o] = out]
          /\ UNCHANGED <<sendOrder, pc, raced>>
    /\ UNCHANGED <<pane, polls, seen, typed, faults, pasted, grabbed>>

\* The pane must look idle; the governed grant cannot queue behind a turn.
PreCheck ==
    /\ pc = "check"
    /\ \E s \in Captures :
         /\ Capture(s)
         /\ IF RowIdle(s) /\ ~(governed /\ s.busy) THEN Goes("mode") ELSE Ends("blocked")
    /\ raced' = (composer # screen.texts)
    /\ UNCHANGED <<pane, typed, pasted, grabbed>>

\* ensure_pane_not_in_mode
LeaveCopyMode ==
    /\ pc = "mode"
    /\ \/ /\ Works /\ Goes("paste")
          /\ copying' = (copying /\ governed)
       \/ /\ copying /\ ~governed /\ Fault /\ Ends("blocked")
          /\ UNCHANGED copying
    /\ UNCHANGED <<backend, governed, composer, busy, screen, queued, transcript, typed, history>>

\* load-buffer and paste-buffer, or the grant's lane-steer, which submits what
\* it types.  Copy mode swallows the text.
PasteText ==
    /\ pc = "paste"
    /\ \/ /\ Fault /\ Ends("failed")
          /\ UNCHANGED <<pane, pasted, grabbed>>
       \/ /\ Works /\ Goes("look")
          /\ pasted' = pasted \cup {sendOrder}
          /\ \/ /\ composer' = IF copying THEN composer ELSE composer \cup {sendOrder}
                /\ UNCHANGED <<backend, governed, busy, copying, screen, queued, transcript, grabbed>>
             \/ /\ governed /\ ~copying
                /\ Submits(composer \cup {sendOrder})
                /\ grabbed' = (grabbed \/ (composer \cap Drafts # {} /\ ~raced))
    /\ UNCHANGED <<typed, raced>>

\* ensure_nudge_submitted: wait until the paste is painted, then choose the
\* key by what the pane shows.
Look ==
    /\ pc = "look"
    /\ \E s \in Captures :
         LET bare == backend = "shell" /\ RowIdle(s) IN
         /\ Capture(s)
         /\ \/ ~Holds(s) /\ RowIdle(s) /\ Polls
            \/ /\ ~(~Holds(s) /\ RowIdle(s) /\ polls < MaxPolls)
               /\ IF s = NoCapture \/ (~Holds(s) /\ ~bare) \/ (s.busy /\ governed) THEN Goes("confirm")
                  ELSE /\ pc' = IF governed THEN "verify" ELSE "key"
                       /\ polls' = 0 /\ seen' = s /\ UNCHANGED <<sendOrder, result>>
    /\ UNCHANGED <<pane, typed, history>>

Key ==
    /\ pc = "key"
    /\ \/ Fault /\ Ends("failed") /\ UNCHANGED <<pane, grabbed>>
       \/ /\ Press(IF seen.busy /\ backend = "codex" THEN "Tab" ELSE "Enter")
          /\ Goes(IF backend = "shell" THEN "confirm" ELSE "verify")
    /\ UNCHANGED <<typed, raced, pasted>>

\* _capture_pane_until_composer_clears: Enter is repeated only when the text
\* is still there and no turn ran before or runs now.
Verify ==
    /\ pc = "verify"
    /\ \E s \in Captures :
         /\ Capture(s)
         /\ \/ Holds(s) /\ Polls
            \/ /\ ~Holds(s) \/ polls = MaxPolls
               /\ Goes(IF Holds(s) /\ ~seen.busy /\ ~s.busy THEN "fallback" ELSE "confirm")
    /\ UNCHANGED <<pane, typed, history>>

\* _send_submit_fallback
Fallback ==
    /\ pc = "fallback"
    /\ \/ Fault /\ Ends("failed") /\ UNCHANGED <<pane, grabbed>>
       \/ Press("Enter") /\ Goes("reverify")
    /\ UNCHANGED <<typed, raced, pasted>>

Reverify ==
    /\ pc = "reverify"
    /\ \E s \in Captures :
         /\ Capture(s)
         /\ \/ Holds(s) /\ Polls
            \/ Holds(s) /\ polls = MaxPolls /\ Ends("failed")
            \/ ~Holds(s) /\ Goes("confirm")
    /\ UNCHANGED <<pane, typed, history>>

\* _structural_transcript_confirms: the text in a user record, and the agent
\* at work after it.
Confirms(o) ==
    \E i, j \in DOMAIN transcript :
        i < j /\ transcript[i].role = "user" /\ o \in transcript[i].texts /\ transcript[j].role = "agent"

\* After the wait: sent on the transcript's word alone.
Confirm ==
    /\ pc = "confirm"
    /\ \/ Confirms(sendOrder) /\ Works /\ Ends("sent")
       \/ ~Confirms(sendOrder) /\ Works /\ Ends("unconfirmed")
       \/ Fault /\ Ends("unconfirmed")
    /\ UNCHANGED <<pane, typed, history>>

\* dispatchd's retry of an order with a nonce looks, and never types.
ReconcileSend(o) ==
    /\ pc = "idle" /\ result[o] = "unconfirmed" /\ Confirms(o)
    /\ result' = [result EXCEPT ![o] = "sent"]
    /\ UNCHANGED <<pane, send, typed, faults, history>>

-----------------------------------------------------------------------------
\* Around it: the operator, the terminal and the agent.
Operator ==
    /\ typed < MaxTyped /\ typed' = typed + 1
    /\ \/ /\ ~copying /\ composer' \in {composer \cup {d} : d \in Drafts}
          /\ raced' = (raced \/ pc # "idle")
          /\ UNCHANGED <<backend, governed, busy, copying, screen, queued, transcript>>
       \/ /\ ~copying /\ composer # {} /\ Submits(composer)
          /\ UNCHANGED raced
       \/ /\ copying' = ~copying
          /\ UNCHANGED <<backend, governed, composer, busy, screen, queued, transcript, raced>>
    /\ UNCHANGED <<send, result, faults, pasted, grabbed>>

Paint ==
    /\ screen # [texts |-> composer, busy |-> busy]
    /\ screen' = [texts |-> composer, busy |-> busy]
    /\ UNCHANGED <<backend, governed, composer, busy, copying, queued, transcript,
                   send, result, typed, faults, history>>

AgentActs ==
    /\ busy /\ transcript # <<>> /\ transcript[Len(transcript)].role = "user"
    /\ transcript' = Append(transcript, [role |-> "agent", texts |-> {}])
    /\ UNCHANGED <<backend, governed, composer, busy, copying, screen, queued,
                   send, result, typed, faults, history>>

TurnEnds ==
    /\ busy /\ busy' = (queued # {})
    /\ queued' = {}
    /\ transcript' = IF queued = {} THEN transcript
                     ELSE Append(transcript, [role |-> "user", texts |-> queued])
    /\ UNCHANGED <<backend, governed, composer, copying, screen, send, result, typed, faults, history>>

PaneNext ==
    \/ \E o \in Orders : Begin(o) \/ ReconcileSend(o)
    \/ PreCheck \/ LeaveCopyMode \/ PasteText \/ Look \/ Key \/ Verify \/ Fallback \/ Reverify
    \/ Confirm \/ Operator \/ Paint \/ AgentActs \/ TurnEnds

PaneSpec == PaneInit /\ [][PaneNext]_paneVars

-----------------------------------------------------------------------------
\* A blocked order never touched the pane; a sent one was consumed by the
\* lane, and nothing of it still waits in the composer or behind a turn
\* ("confirmed via lane transcript"); and no key of the dispatcher submits a
\* draft the operator had left in the pane when the send looked at it
\* (pane_input_check: "never silently overwrite a real, normal-intensity
\* draft"), whatever is painted late, swallowed or typed by others.
SendsAreHonest ==
    /\ \A o \in Orders :
         /\ result[o] = "blocked" => o \notin pasted
         /\ result[o] = "sent" => Confirms(o) /\ o \notin composer \cup queued
    /\ ~grabbed
=============================================================================
