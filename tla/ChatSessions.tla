---------------------------- MODULE ChatSessions ----------------------------
(***************************************************************************)
(* The planner chat beside the scans' loops.  Requests to /agent/chat run  *)
(* concurrently over the sessions of one in-memory repository: each writes *)
(* its message, reads the history, asks the model and writes the answer,   *)
(* with the repository's lock held only inside each of these calls.  The   *)
(* loops of running scans make their own calls, one after the other, under *)
(* a context that may be cancelled and that carries a token tally.  Both   *)
(* reach the model through ModelCall.                                      *)
(***************************************************************************)
EXTENDS ModelCall, Sequences, SequencesExt

CONSTANTS
  Requests,     \* requests to /chat and /agent/chat
  Loops,        \* the loops of running scans
  MaxSessions,  \* bounds the sessions of one process
  MaxCalls,     \* bounds the calls of one loop
  MaxRestarts   \* bounds the restarts of the process

Replies == {"bad request", "not found", "refused", "model error", "forbidden",
            "output", "tool_intent", "final_answer"}

ASSUME ChatAssumption == /\ Callers = Requests \cup Loops /\ Requests \cap Loops = {}
                         /\ Tallied = Loops
                         /\ {"answer", "tool", "forbidden"} \subseteq Texts
                         /\ None \notin Replies
                         /\ MaxSessions \in Nat \ {0} /\ MaxCalls \in Nat /\ MaxRestarts \in Nat

VARIABLES
  sessions,   \* the repository: sess-N is sessions[N], a sequence of messages
  req,        \* req[r]: where request r stands
  restarts

chatVars == <<sessions, req, restarts>>
vars == <<ctx, call, tally, charged, sessions, req, restarts>>

NoSession == 0
Message == [by : Requests, type : {"user_message", "tool_intent", "final_answer"}]

Fresh == [pc |-> "idle", kind |-> None, sid |-> NoSession, history |-> <<>>, reply |-> None]

(* Mutant: the type the model names is taken as it is.                      *)
PlannedUnchecked(a) == IF a.ok THEN a.text ELSE "model error"

(* runPlanner after the model answered: what its text amounts to. An empty  *)
(* text, text that is no JSON object and an unknown type are errors.        *)
Planned(a) == IF ~a.ok \/ a.text \notin {"answer", "tool", "forbidden"} THEN "model error"
              ELSE CASE a.text = "answer" -> "final_answer"
                     [] a.text = "tool" -> "tool_intent"
                     [] a.text = "forbidden" -> "forbidden"

Init == /\ CallInit
        /\ sessions = <<>>
        /\ req = [r \in Requests |-> Fresh]
        /\ restarts = 0

-----------------------------------------------------------------------------
Reply(r, answer) == req' = [req EXCEPT ![r] = [Fresh EXCEPT !.pc = "done", !.sid = req[r].sid,
                                                   !.reply = answer]]

(* POST /chat: no session. The selection is validated, then the model asked.*)
Chat(r) ==
  /\ req[r].pc = "idle"
  /\ \/ \E answer \in {"bad request", "refused"} : Reply(r, answer)
     \/ req' = [req EXCEPT ![r].pc = "ask", ![r].kind = "chat"]
  /\ UNCHANGED <<sessions, restarts, callVars>>

(* POST /agent/chat: the checks of prepareAgentRequest, then its session:   *)
(* a new one, or the one named, which must exist.                           *)
AgentChat(r) ==
  /\ req[r].pc = "idle"
  /\ \/ /\ Reply(r, "bad request")
        /\ UNCHANGED sessions
     \/ /\ Len(sessions) < MaxSessions
        /\ sessions' = Append(sessions, <<>>)
        /\ req' = [req EXCEPT ![r] = [@ EXCEPT !.pc = "prepared", !.kind = "agent",
                                               !.sid = Len(sessions) + 1]]
     \/ \E id \in 1 .. MaxSessions :
        /\ IF id \in DOMAIN sessions
           THEN req' = [req EXCEPT ![r] = [@ EXCEPT !.pc = "prepared", !.kind = "agent",
                                                    !.sid = id]]
           ELSE Reply(r, "not found")
        /\ UNCHANGED sessions
  /\ UNCHANGED <<restarts, callVars>>

(* Mutant: the message is added to the copy the request read, and the copy  *)
(* is stored.                                                               *)
WithMessageFromCopy(r, msg) == [sessions EXCEPT ![req[r].sid] = Append(req[r].history, msg)]

(* AddMessage: under the repository's lock.                                 *)
WithMessage(r, msg) == [sessions EXCEPT ![req[r].sid] = Append(@, msg)]

AddUserMessage(r) ==
  /\ req[r].pc = "prepared"
  /\ sessions' = WithMessage(r, [by |-> r, type |-> "user_message"])
  /\ req' = [req EXCEPT ![r].pc = "written"]
  /\ UNCHANGED <<restarts, callVars>>

(* The history is a copy of the session as it is now.                       *)
ReadHistory(r) ==
  /\ req[r].pc = "written"
  /\ req' = [req EXCEPT ![r].pc = "validate", ![r].history = sessions[req[r].sid]]
  /\ UNCHANGED <<sessions, restarts, callVars>>

(* The provider or model was refused: the message stays in the session.     *)
ValidateSelection(r) ==
  /\ req[r].pc = "validate"
  /\ \/ req' = [req EXCEPT ![r].pc = "ask"]
     \/ Reply(r, "refused")
  /\ UNCHANGED <<sessions, restarts, callVars>>

AskModel(r) ==
  /\ req[r].pc = "ask"
  /\ Ask(r)
  /\ req' = [req EXCEPT ![r].pc = "asked"]
  /\ UNCHANGED <<sessions, restarts>>

CallTaken(c) == /\ call' = [call EXCEPT ![c] = Idle]
                /\ UNCHANGED <<ctx, tally, charged>>

(* /chat answers with the text as it is, empty or not.                      *)
TakeOutput(r) ==
  /\ req[r].pc = "asked" /\ req[r].kind = "chat" /\ call[r].pc = "back"
  /\ Reply(r, IF call[r].answer.ok THEN "output" ELSE "model error")
  /\ CallTaken(r)
  /\ UNCHANGED <<sessions, restarts>>

(* Mutant: the answer is recorded before the policy is asked.               *)
RecordedUnasked(plan) == plan \in {"tool_intent", "final_answer", "forbidden"}

Recorded(plan) == plan \in {"tool_intent", "final_answer"}

(* /agent/chat: what the planner made of the text; an intent the policy     *)
(* refuses is not recorded.                                                 *)
TakePlan(r) ==
  /\ req[r].pc = "asked" /\ req[r].kind = "agent" /\ call[r].pc = "back"
  /\ LET plan == Planned(call[r].answer)
     IN  /\ sessions' = IF Recorded(plan)
                        THEN WithMessage(r, [by |-> r, type |-> IF plan = "final_answer"
                                                 THEN "final_answer" ELSE "tool_intent"])
                        ELSE sessions
         /\ Reply(r, plan)
  /\ CallTaken(r)
  /\ UNCHANGED restarts

(* POST /sessions.                                                          *)
CreateSession ==
  /\ Len(sessions) < MaxSessions
  /\ sessions' = Append(sessions, <<>>)
  /\ UNCHANGED <<req, restarts, callVars>>

-----------------------------------------------------------------------------
(* A scan's loop: the next call once the last one succeeded; a failed call  *)
(* ends the loop.                                                           *)
LoopAsks(l) ==
  /\ tally[l].calls < MaxCalls
  /\ Ask(l)
  /\ UNCHANGED chatVars

LoopTakes(l) ==
  /\ call[l].pc = "back" /\ call[l].answer.ok
  /\ CallTaken(l)
  /\ UNCHANGED chatVars

CallProceeds == /\ \E c \in Callers : CallStep(c)
                /\ UNCHANGED chatVars

LoopCancelled(l) == ContextEnds(l) /\ UNCHANGED chatVars

(* The process restarts: sessions live in memory only, and numbering them   *)
(* starts again. Requests in flight are lost; what was charged stays so.    *)
Restart ==
  /\ restarts < MaxRestarts
  /\ restarts' = restarts + 1
  /\ sessions' = <<>>
  /\ req' = [r \in Requests |-> IF req[r].pc \in {"idle", "done"} THEN req[r]
                                ELSE [Fresh EXCEPT !.pc = "lost"]]
  /\ ctx' = [c \in Callers |-> "live"]
  /\ call' = [c \in Callers |-> Idle]
  /\ tally' = [c \in Callers |-> EmptyTally]
  /\ UNCHANGED charged

RequestStep(r) == \/ Chat(r) \/ AgentChat(r) \/ AddUserMessage(r) \/ ReadHistory(r)
                  \/ ValidateSelection(r) \/ AskModel(r) \/ TakeOutput(r) \/ TakePlan(r)

Next == \/ \E r \in Requests : RequestStep(r)
        \/ \E l \in Loops : LoopAsks(l) \/ LoopTakes(l) \/ LoopCancelled(l)
        \/ CallProceeds
        \/ CreateSession
        \/ Restart

(* A handler that has begun runs on, and a call in flight is ended by the   *)
(* client's timeout at the latest. Nothing makes clients send requests,     *)
(* loops go on or scans be cancelled.                                       *)
Proceeds(r) == /\ req[r].pc # "idle"
               /\ RequestStep(r) \/ (CallStep(r) /\ UNCHANGED chatVars)

Spec == /\ Init /\ [][Next]_vars
        /\ \A r \in Requests : WF_vars(Proceeds(r))

-----------------------------------------------------------------------------
TypeOK ==
  /\ CallTypeOK
  /\ sessions \in Seq(Seq(Message))
  /\ Len(sessions) <= MaxSessions
  /\ req \in [Requests -> [pc : {"idle", "prepared", "written", "validate", "ask", "asked",
                                 "done", "lost"},
                           kind : {"chat", "agent", None}, sid : 0 .. MaxSessions,
                           history : Seq(Message), reply : Replies \cup {None}]]
  /\ restarts \in 0 .. MaxRestarts

(* MemorySessionRepository under concurrent requests: whatever was said in  *)
(* a session stays said, in the order it was said, until the process ends.  *)
SessionsOnlyGrow ==
  [][restarts' = restarts =>
       \A id \in DOMAIN sessions : /\ id \in DOMAIN sessions'
                                   /\ IsPrefix(sessions[id], sessions'[id])]_vars

Places == UNION {{id} \X DOMAIN sessions[id] : id \in DOMAIN sessions}
SaidBy(r) == {m \in Places : sessions[m[1]][m[2]].by = r}
TypeAt(m) == sessions[m[1]][m[2]].type

(* AgentChat: a session holds the answer of a request exactly when the      *)
(* client got that answer, once, behind the request's own message; an       *)
(* intent the policy refused and a model's failure leave only the message.  *)
RepliesAreRecorded ==
  \A r \in Requests :
    LET said == SaidBy(r)
        answers == {m \in said : TypeAt(m) # "user_message"}
    IN  /\ \A m \in answers : \E q \in said \ answers : q[1] = m[1] /\ q[2] < m[2]
        /\ \A m, k \in answers : m = k
        /\ \A m, k \in said \ answers : m = k
        /\ req[r].pc # "lost" /\ restarts = 0 =>
             (answers # {} <=> req[r].reply \in {"tool_intent", "final_answer"})
        /\ \A m \in answers : req[r].reply = TypeAt(m)

(* The planner always sees the message it is to answer, and a prefix of the *)
(* session as it now stands.                                                *)
HistoryIsCurrent ==
  \A r \in Requests : req[r].pc \in {"validate", "ask", "asked"} /\ req[r].kind = "agent" =>
    /\ \E i \in DOMAIN req[r].history : req[r].history[i] = [by |-> r, type |-> "user_message"]
    /\ IsPrefix(req[r].history, sessions[req[r].sid])

(* What a model call and the session behind it keep together: a call that   *)
(* waits, answers or gives up stays within its attempts (the type           *)
(* invariant), repeats no final answer, never waits longer than its cap     *)
(* whatever a Retry-After says, its planner read the session as it stands,  *)
(* and its answer is recorded as the client got it.                         *)
UseInv == /\ TypeOK /\ FinalAnswersAreFinal /\ WaitsAreBounded
          /\ RepliesAreRecorded /\ HistoryIsCurrent

(* A request that has begun is answered, whatever the provider does with    *)
(* its calls, unless the process restarts under it.                         *)
EveryRequestIsAnswered ==
  \A r \in Requests : req[r].pc \notin {"idle", "done", "lost"} ~> req[r].pc \in {"done", "lost"}
=============================================================================
