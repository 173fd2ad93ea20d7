------------------------------ MODULE Routing -------------------------------
(***************************************************************************)
(* How the words of a message reach an LLM, and what comes back: the       *)
(* intent router, the choice between ops mode and tool mode, the providers *)
(* with their retries, and the check of staleness at the end.  What a      *)
(* router or a provider answers is any answer that the code tells apart.   *)
(* What happens to proposals and items then is the business of Proposals.  *)
(*                                                                         *)
(* The context of a message is what was said last in its conversation,     *)
(* ordered by created_at, which PostgreSQL takes at the beginning of the   *)
(* accepting transaction; versions follow the order of its commits.        *)
(***************************************************************************)
EXTENDS Ingest

CONSTANTS
    SoundsLike,     \* SoundsLike[m]: what classify_intent makes of its words
    Provider,       \* LLM_PROVIDER: "openai" or "gemini"
    McpEnabled,
    Nil

ASSUME RoutingAssumption ==
    /\ SoundsLike \in [Posts -> {"approve", "cancel", "tool", "ops"}]
    /\ Provider \in {"openai", "gemini"}
    /\ McpEnabled \in BOOLEAN
    /\ Nil \notin Posts \union {"ops", "tool", "settled", "offered", "no_op", "stale", "failed"}

VARIABLES
    bridge,     \* does the MCP server answer GET /health?
    job         \* the deliveries of the messages to workers

vars == <<ingestVars, bridge, job>>

RetryAttempts == 3

Decisions == {"confirm_proposal", "reject_proposal", "modify_proposal", "create_task_or_note",
              "tool_query", "chitchat"}
Outcomes == {"settled", "offered", "no_op", "stale", "failed"}

\* mode is what is resolved so far, last the message whose words the LLM takes
\* for the user's
Job == [pc : {"idle", "routing", "settling", "loading", "asking", "checking", "done"},
        active : BOOLEAN, mode : {"ops", "tool", Nil}, last : Posts \union {Nil},
        attempts : 0..RetryAttempts, outcome : Outcomes \union {Nil}]

Init ==
    /\ IngestInit
    /\ bridge \in BOOLEAN
    /\ job = [m \in Posts |-> [pc |-> "idle", active |-> FALSE, mode |-> Nil, last |-> Nil,
                               attempts |-> 0, outcome |-> Nil]]

At(m, pc) == job[m].pc = pc
Become(m, new) == job' = [job EXCEPT ![m] = new]
Finish(m, outcome) == Become(m, [job[m] EXCEPT !.pc = "done", !.outcome = outcome])

-----------------------------------------------------------------------------
(* POST messages, as Ingest promises it, and the MCP server *)

PostMessages ==
    /\ IngestNext
    /\ UNCHANGED <<bridge, job>>

BridgeTurns ==
    /\ bridge' = ~bridge
    /\ UNCHANGED <<ingestVars, job>>

-----------------------------------------------------------------------------
(* The intent router *)

\* the delivery finds out whether a proposal waits for an answer
Deliver(m) ==
    /\ At(m, "idle")
    /\ m \in sent
    /\ \E active \in BOOLEAN : Become(m, [job[m] EXCEPT !.pc = "routing", !.active = active])
    /\ UNCHANGED <<ingestVars, bridge>>

\* an answer that is no decision, an empty one included, is a failed call
OpenAIDecides == Decisions \union {"call_error"}

\* here an empty answer is a failed call, one out of schema a bad response, and
\* without the library the router cannot be asked at all
GeminiDecides == Decisions \union {"call_error", "response_error", "config_error"}

RouterAnswers == IF Provider = "openai" THEN OpenAIDecides ELSE GeminiDecides

\* The mode that a decision settles.  None is settled by chit-chat, by an answer
\* to a proposal that is not there, and by a failure: the fallback asks for a
\* decision type that does not exist, and the exception is caught.
ModeOf(answer) ==
    CASE answer \in {"modify_proposal", "create_task_or_note"} -> "ops"
      [] answer = "tool_query" -> "tool"
      [] OTHER -> Nil

Route(m) ==
    /\ At(m, "routing")
    /\ \E answer \in RouterAnswers :
          IF answer \in {"confirm_proposal", "reject_proposal"} /\ job[m].active
          THEN Become(m, [job[m] EXCEPT !.pc = "settling"])
          ELSE Become(m, [job[m] EXCEPT !.pc = "loading", !.mode = ModeOf(answer)])
    /\ UNCHANGED <<ingestVars, bridge>>

\* the active proposal is confirmed or rejected; when that fails, the message
\* goes on like any other
Settle(m) ==
    /\ At(m, "settling")
    /\ Finish(m, "settled") \/ Become(m, [job[m] EXCEPT !.pc = "loading"])
    /\ UNCHANGED <<ingestVars, bridge>>

-----------------------------------------------------------------------------
(* The pipeline *)

\* get_recent_context: of the stored messages the one with the greatest
\* created_at comes last
SaidLast(m) == Stored(m) /\ \A other \in Posts : Stored(other) => began[other] <= began[m]

\* LlmRouterService.process_message: anything but a tool word means ops
Classified(m) == IF SoundsLike[m] = "tool" THEN "tool" ELSE "ops"

LoadContext(m) ==
    /\ At(m, "loading")
    /\ \E last \in Posts :
          /\ SaidLast(last)
          /\ Become(m, [job[m] EXCEPT !.pc = "asking", !.last = last,
                                      !.mode = IF @ = Nil THEN Classified(last) ELSE @])
    /\ UNCHANGED <<ingestVars, bridge>>

\* generate_proposal of the OpenAI provider: what is not the promised JSON is a
\* bad response, anything unforeseen a failed call
OpenAIProposes == {"payload", "call_error", "response_error"}

\* without the library an exception handler itself fails, which nobody retries
GeminiProposes == OpenAIProposes \union {"crash"}

ProposalAnswers == IF Provider = "openai" THEN OpenAIProposes ELSE GeminiProposes

\* mutant: an attempt too many
Propose_Again(m) ==
    /\ At(m, "asking") /\ job[m].mode = "ops"
    /\ \E answer \in ProposalAnswers :
          IF answer = "payload"
          THEN Become(m, [job[m] EXCEPT !.pc = "checking"])
          ELSE IF answer = "call_error" /\ job[m].attempts <= RetryAttempts
          THEN Become(m, [job[m] EXCEPT !.attempts = @ + 1])
          ELSE Finish(m, "failed")
    /\ UNCHANGED <<ingestVars, bridge>>

\* only failed calls are repeated, twice
Propose(m) ==
    /\ At(m, "asking") /\ job[m].mode = "ops"
    /\ \E answer \in ProposalAnswers :
          IF answer = "payload"
          THEN Become(m, [job[m] EXCEPT !.pc = "checking"])
          ELSE IF answer = "call_error" /\ job[m].attempts + 1 < RetryAttempts
          THEN Become(m, [job[m] EXCEPT !.attempts = @ + 1])
          ELSE Finish(m, "failed")
    /\ UNCHANGED <<ingestVars, bridge>>

\* Gemini has no tool mode; OpenAI needs the MCP server switched on and healthy
ToolsAvailable == Provider = "openai" /\ McpEnabled /\ bridge

\* generate_tool_response: without tools the answer says so; a failed call is
\* not repeated
UseTools(m) ==
    /\ At(m, "asking") /\ job[m].mode = "tool"
    /\ \/ Become(m, [job[m] EXCEPT !.pc = "checking"])
       \/ ToolsAvailable /\ Finish(m, "failed")
    /\ UNCHANGED <<ingestVars, bridge>>

\* mutant: the version is not compared
CheckStale_Skipped(m) ==
    /\ At(m, "checking")
    /\ Finish(m, IF job[m].mode = "tool" THEN "no_op" ELSE "offered")
    /\ UNCHANGED <<ingestVars, bridge>>

\* the version is compared with the conversation's
CheckStale(m) ==
    /\ At(m, "checking")
    /\ IF stamp[m] # version THEN Finish(m, "stale")
       ELSE Finish(m, IF job[m].mode = "tool" THEN "no_op" ELSE "offered")
    /\ UNCHANGED <<ingestVars, bridge>>

Next ==
    \/ PostMessages
    \/ BridgeTurns
    \/ \E m \in Posts :
          \/ Deliver(m) \/ Route(m) \/ Settle(m)
          \/ LoadContext(m) \/ Propose(m) \/ UseTools(m) \/ CheckStale(m)

Spec == Init /\ [][Next]_vars

-----------------------------------------------------------------------------
(* Properties *)

\* TypeOK: the deliveries are well-formed; no call of a provider is made more
\* than RetryAttempts times.
TypeOK ==
    /\ version \in Nat
    /\ stamp \in [Posts -> 0..version]
    /\ began \in [Posts -> Nat]
    /\ sent \subseteq Posts
    /\ bridge \in BOOLEAN
    /\ job \in [Posts -> Job]
    /\ \A m \in Posts : job[m].outcome = "failed" => job[m].attempts < RetryAttempts

\* The requests overlapped: m began first and was accepted last.
Overtook(other, m) == began[m] < began[other] /\ stamp[other] < stamp[m]

\* What a message offers or answers came from an LLM that took the words of this
\* very message for the user's last ones, although the context is whatever was
\* said last by the time it is loaded, which may be somebody else's next
\* sentence: a message with a newer one in its context is stale at the end.  The
\* exception is real: of two overlapping requests the one accepted last may be
\* older by created_at, and is then answered in the words of the other.
OwnWords ==
    \A m \in Posts : job[m].outcome \in {"offered", "no_op"} =>
        job[m].last = m \/ Overtook(job[m].last, m)
=============================================================================
