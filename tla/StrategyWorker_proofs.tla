----------------------- MODULE StrategyWorker_proofs -----------------------
(***************************************************************************)
(* Proofs about StrategyWorker, for every plan, budget and number of       *)
(* overlapping calls, in four parts that build on one another:             *)
(*   1. type correctness, which includes that nobody takes more than       *)
(*      MaxRounds rounds, and the bound on how far the agents of a wave    *)
(*      can overshoot the budget together;                                 *)
(*   2. the worker implements StrategyRpc, and never answers OK to a       *)
(*      cancelled call;                                                    *)
(*   3. a call answered OK left nothing behind;                            *)
(*   4. nobody works for a gated call before its approval.                 *)
(***************************************************************************)
EXTENDS StrategyWorker, TLAPS, FiniteSetTheorems

(* Where the actors are, by where the coroutine of the call stands.        *)
Phases(c) ==
    /\ pc[c] \in {"idle", "pausing", "approval"} =>
           \A x \in Actors : actor[c][x] = "idle"
    /\ pc[c] \in {"planned", "agents"} => actor[c][Lead] = "idle"
    /\ pc[c] = "planned" => \A x \in Agents : actor[c][x] \in {"idle", "done"}
    /\ pc[c] = "agents" /\ raised[c] = NoExc =>
           \A x \in Agents : actor[c][x] # "raised"
    /\ actor[c][Lead] # "idle" => \A x \in Agents : actor[c][x] \in {"idle", "done"}

(* An actor that is about to call the model has a round left.              *)
HasRounds(c) ==
    \A x \in Actors :
        /\ actor[c][x] \in {"idle", "ready"} => rounds[c][x] = 0
        /\ actor[c][x] = "starting" => rounds[c][x] < MaxRounds

Thinking(c) == {x \in Actors : actor[c][x] = "thinking"}

(* Every reply still awaited was asked for under the budget.               *)
Paid(c) ==
    /\ raised[c].used <= tokens[c]
    /\ Budget > 0 =>
           tokens[c] + Cardinality(Thinking(c)) * MaxUsage
               <= Budget - 1 + Fanout * MaxUsage

IInv == TypeOK /\ \A c \in Calls : Phases(c) /\ HasRounds(c) /\ Paid(c)

-----------------------------------------------------------------------------
(* Type correctness *)

LEMMA WaveIsOfAgents ==
    ASSUME NEW done, Agents \ done # {}
    PROVE  NextWave(done) \subseteq Agents \ done
BY DEF NextWave

LEMMA WavesAreOfAgents ==
    ASSUME NEW k, NEW done, Agents \ done # {}, NEW W \in Waves(k, done)
    PROVE  W \subseteq Agents \ done
BY WaveIsOfAgents DEF Waves

LEMMA LaunchTypes ==
    ASSUME TypeOK, NEW c \in Calls, NEW who, Launch(c, who)
    PROVE  actor' \in [Calls -> [Actors -> Places]]
BY DEF TypeOK, Launch, Places

LEMMA ExceptTypes ==
    ASSUME TypeOK, NEW c \in Calls, NEW exc, Except(c, exc), tokens' \in [Calls -> Nat]
    PROVE  /\ pc' \in [Calls -> Positions] /\ status' \in [Calls -> Statuses]
           /\ code' \in [Calls -> Codes]
           /\ answer' \in [Calls -> [code : Codes \cup {"none"}, tokens : Nat]]
           /\ UNCHANGED <<registered, kind, gated, cancelEvent, approval,
                          allowDangerous, rpc, stream>>
<1>1. UNCHANGED <<registered, kind, gated, cancelEvent, approval,
                  allowDangerous, rpc, stream>>
  BY DEF Except
<1>t. /\ status \in [Calls -> Statuses] /\ code \in [Calls -> Codes]
      /\ pc \in [Calls -> Positions] /\ tokens'[c] \in Nat
      /\ answer \in [Calls -> [code : Codes \cup {"none"}, tokens : Nat]]
  BY DEF TypeOK
<1>2. CASE exc.type = "InterruptedError"
  <2>1. SetTask(c, "cancelled", "CANCELLED") /\ Respond(c, "CANCELLED", tokens'[c])
    BY <1>2 DEF Except
  <2>2. status' \in [Calls -> Statuses] /\ code' \in [Calls -> Codes]
    BY <1>t, <2>1 DEF SetTask, Statuses, Codes
  <2>3. /\ pc' \in [Calls -> Positions]
        /\ answer' \in [Calls -> [code : Codes \cup {"none"}, tokens : Nat]]
    BY <1>t, <2>1 DEF Respond, Positions, Codes
  <2> QED BY <1>1, <2>2, <2>3
<1>3. CASE exc.type # "InterruptedError"
  <2>1. /\ \E cd \in {"BUDGET_EXCEEDED", "STRATEGY_FAILED"} : SetTask(c, "failed", cd)
        /\ pc' = [pc EXCEPT ![c] = "failing"]
        /\ answer' = answer
    BY <1>3 DEF Except
  <2>2. status' \in [Calls -> Statuses] /\ code' \in [Calls -> Codes]
    BY <1>t, <2>1 DEF SetTask, Statuses, Codes
  <2>3. pc' \in [Calls -> Positions]
    BY <1>t, <2>1 DEF Positions
  <2> QED BY <1>1, <1>t, <2>1, <2>2, <2>3
<1> QED BY <1>2, <1>3

LEMMA RaiseTypes ==
    ASSUME TypeOK, NEW c \in Calls, NEW x \in Actors, NEW type \in Excs,
           NEW used \in Nat, Raise(c, x, type, used)
    PROVE  TypeOK'
<1>1. /\ actor' \in [Calls -> [Actors -> Places]] /\ tokens' \in [Calls -> Nat]
      /\ UNCHANGED <<rounds, progress>>
  BY DEF TypeOK, Raise, Places
<1>2. CASE x = Lead
  <2>1. Except(c, [type |-> type, used |-> used]) /\ raised' = raised
    BY <1>2 DEF Raise
  <2> QED BY <1>1, <2>1, ExceptTypes DEF TypeOK, rpc, progress
<1>3. CASE x # Lead
  <2>1. raised' \in [Calls -> [type : Excs \cup {"none"}, used : Nat]]
    <3> DEFINE e == [type |-> type, used |-> used]
    <3>1. e \in [type : Excs \cup {"none"}, used : Nat]
      OBVIOUS
    <3>2. raised' = [raised EXCEPT ![c] = e] \/ raised' = raised
      BY <1>3 DEF Raise
    <3> HIDE DEF e
    <3> QED BY <3>1, <3>2 DEF TypeOK
  <2>2. UNCHANGED <<registered, pc, kind, gated, status, code, cancelEvent,
                    approval, allowDangerous, answer, rpc, stream>>
    BY <1>3 DEF Raise
  <2> QED BY <1>1, <2>1, <2>2 DEF TypeOK, rpc, progress
<1> QED BY <1>2, <1>3

(* What a turn that ends well does to its actor: the actor is done, begins *)
(* another turn, or has made the board.                                    *)
LEMMA EndTurnMoves ==
    ASSUME NEW c \in Calls, NEW x \in Actors, NEW used, EndTurn(c, x, used)
    PROVE  \/ cancelEvent[c] /\ Raise(c, x, "InterruptedError", used)
           \/ /\ tokens' = [tokens EXCEPT ![c] = used]
              /\ UNCHANGED <<registered, kind, gated, status, code, cancelEvent, approval,
                             allowDangerous, raised, waves, answer, rpc, stream>>
              /\ \/ /\ actor' = [actor EXCEPT ![c][x] = "done"]
                    /\ rounds' = rounds
                    /\ pc' = IF x = Lead THEN [pc EXCEPT ![c] = "output"] ELSE pc
                 \/ /\ actor' = [actor EXCEPT ![c][x] = "starting"]
                    /\ rounds' = [rounds EXCEPT ![c][x] = 0]
                    /\ pc' = pc
                 \/ /\ x = Lead
                    /\ actor' = [actor EXCEPT ![c][x] = "idle"]
                    /\ rounds' = [rounds EXCEPT ![c][x] = 0]
                    /\ pc' = [pc EXCEPT ![c] = "planned"]
<1>1. CASE cancelEvent[c] /\ Raise(c, x, "InterruptedError", used)
  BY <1>1
<1>2. CASE ~(cancelEvent[c] /\ Raise(c, x, "InterruptedError", used))
  <2>1. /\ tokens' = [tokens EXCEPT ![c] = used]
        /\ UNCHANGED <<registered, kind, gated, status, code, cancelEvent, approval,
                       allowDangerous, raised, waves, answer, rpc, stream>>
    BY <1>2 DEF EndTurn
  <2>2. TurnIsLast(c, x) \/ BoardIsMade(c, x) \/ NextNode(c, x) \/ AsksAgain(c, x)
    BY <1>2 DEF EndTurn
  <2> QED BY <2>1, <2>2 DEF TurnIsLast, BoardIsMade, NextNode, AsksAgain
<1> QED BY <1>1, <1>2

LEMMA EndTurnTypes ==
    ASSUME TypeOK, NEW c \in Calls, NEW x \in Actors, NEW used \in Nat,
           EndTurn(c, x, used)
    PROVE  TypeOK'
<1>1. CASE Raise(c, x, "InterruptedError", used)
  BY <1>1, RaiseTypes DEF Excs
<1>2. CASE ~Raise(c, x, "InterruptedError", used)
  <2>1. /\ tokens' = [tokens EXCEPT ![c] = used]
        /\ UNCHANGED <<registered, kind, gated, status, code, cancelEvent, approval,
                       allowDangerous, raised, waves, answer, rpc, stream>>
    BY <1>2, EndTurnMoves
  <2>2. /\ actor' \in [Calls -> [Actors -> Places]]
        /\ pc' \in [Calls -> Positions]
    <3>1. \E p \in {"done", "starting", "idle"} : actor' = [actor EXCEPT ![c][x] = p]
      BY <1>2, EndTurnMoves
    <3>2. pc' = pc \/ \E p \in {"output", "planned"} : pc' = [pc EXCEPT ![c] = p]
      BY <1>2, EndTurnMoves
    <3>3. actor \in [Calls -> [Actors -> Places]] /\ pc \in [Calls -> Positions]
      BY DEF TypeOK
    <3> QED BY <3>1, <3>2, <3>3 DEF Places, Positions
  <2>3. rounds' \in [Calls -> [Actors -> 0 .. MaxRounds]]
    <3>1. rounds' = rounds \/ rounds' = [rounds EXCEPT ![c][x] = 0]
      BY <1>2, EndTurnMoves
    <3>2. 0 \in 0 .. MaxRounds
      BY ConstantsAssumption DEF ConstantsAssumption
    <3>3. rounds \in [Calls -> [Actors -> 0 .. MaxRounds]]
      BY DEF TypeOK
    <3> QED BY <3>1, <3>2, <3>3
  <2>4. /\ stage' \in [Calls -> Stages]
        /\ turns' \in [Calls -> [Actors -> Nat]]
    <3>1. TurnIsLast(c, x) \/ BoardIsMade(c, x) \/ NextNode(c, x) \/ AsksAgain(c, x)
      BY <1>2 DEF EndTurn
    <3>2. CASE TurnIsLast(c, x)
      BY <3>2 DEF TurnIsLast, TypeOK
    <3>5. CASE AsksAgain(c, x)
      <4>1. turns \in [Calls -> [Actors -> Nat]] /\ stage \in [Calls -> Stages]
        BY DEF TypeOK
      <4>2. stage' = stage /\ turns' = [turns EXCEPT ![c][x] = @ + 1]
        BY <3>5 DEF AsksAgain
      <4> QED BY <4>1, <4>2
    <3>3. CASE BoardIsMade(c, x)
      BY <3>3 DEF BoardIsMade, TypeOK, Stages
    <3>4. CASE NextNode(c, x)
      <4>1. stage[c] \in {"plan", "investigate", "verify", "gaps"}
        BY <3>4 DEF NextNode, TypeOK, Stages
      <4>2. Follows[stage[c]] \subseteq Stages
        BY <4>1 DEF Follows, Stages
      <4>3. PICK s \in Follows[stage[c]] : stage' = [stage EXCEPT ![c] = s]
        BY <3>4 DEF NextNode
      <4> QED BY <3>4, <4>2, <4>3 DEF NextNode, TypeOK
    <3> QED BY <3>1, <3>2, <3>3, <3>4, <3>5
  <2> QED BY <2>1, <2>2, <2>3, <2>4 DEF TypeOK, rpc
<1> QED BY <1>1, <1>2

LEMMA RefuseTypes ==
    ASSUME TypeOK, NEW c \in Calls, NEW x \in Actors, Refuse(c, x)
    PROVE  TypeOK'
<1>1. tokens[c] \in Nat
  BY DEF TypeOK
<1> QED BY <1>1, RaiseTypes DEF Refuse, Excs

LEMMA ActorTypes ==
    ASSUME IInv, NEW c \in Calls, NEW x \in Actors, Actor(c, x)
    PROVE  TypeOK'
<1> USE ConstantsAssumption
<1>0. TypeOK /\ HasRounds(c) /\ tokens[c] \in Nat
  BY DEF IInv, TypeOK
<1>1. CASE StartAgent(c, x)
  <2>1. CASE Refuse(c, x)
    BY <1>0, <2>1, RefuseTypes
  <2>2. CASE ~Refuse(c, x)
    <3>1. /\ actor' = [actor EXCEPT ![c][x] = "starting"]
          /\ UNCHANGED <<registered, pc, task, rounds, raised, progress, answer, rpc, stream>>
      BY <1>1, <2>2 DEF StartAgent
    <3> QED BY <1>0, <3>1 DEF TypeOK, Places, rpc, task, progress
  <2> QED BY <2>1, <2>2
<1>2. CASE CallModel(c, x)
  <2>1. CASE Refuse(c, x)
    BY <1>0, <2>1, RefuseTypes
  <2>2. CASE ~Refuse(c, x)
    <3>1. rounds[c][x] < MaxRounds /\ rounds[c][x] \in 0 .. MaxRounds
      BY <1>0, <1>2 DEF CallModel, HasRounds, TypeOK
    <3>2. /\ rounds' = [rounds EXCEPT ![c][x] = @ + 1]
          /\ actor' = [actor EXCEPT ![c][x] = "thinking"]
          /\ UNCHANGED <<registered, pc, task, raised, progress, answer, rpc, stream>>
      BY <1>2, <2>2 DEF CallModel
    <3>3. rounds' \in [Calls -> [Actors -> 0 .. MaxRounds]]
      <4>1. rounds \in [Calls -> [Actors -> 0 .. MaxRounds]]
        BY <1>0 DEF TypeOK
      <4>2. rounds[c][x] + 1 \in 0 .. MaxRounds
        BY <3>1, ConstantsAssumption DEF ConstantsAssumption
      <4> QED BY <3>2, <4>1, <4>2
    <3>4. actor' \in [Calls -> [Actors -> Places]]
      BY <1>0, <3>2 DEF TypeOK, Places
    <3> QED BY <1>0, <3>2, <3>3, <3>4 DEF TypeOK, rpc, task, progress
  <2> QED BY <2>1, <2>2
<1>3. ASSUME NEW n \in 0 .. MaxUsage, NEW more \in BOOLEAN, ModelReplies(c, x, n, more)
      PROVE  TypeOK'
  <2>1. tokens[c] + n \in Nat
    BY <1>0
  <2>2. CASE \E type \in Excs : Raise(c, x, type, tokens[c] + n)
    BY <1>0, <2>1, <2>2, RaiseTypes
  <2>3. CASE EndTurn(c, x, tokens[c] + n)
    BY <1>0, <2>1, <2>3, EndTurnTypes
  <2>4. CASE /\ ~\E type \in Excs : Raise(c, x, type, tokens[c] + n)
             /\ ~EndTurn(c, x, tokens[c] + n)
    <3>1. /\ actor' = [actor EXCEPT ![c][x] = "acting"]
          /\ tokens' = [tokens EXCEPT ![c] = tokens[c] + n]
          /\ UNCHANGED <<registered, pc, kind, gated, status, code, cancelEvent,
                         approval, allowDangerous, rounds, raised, progress, answer,
                         rpc, stream>>
      BY <1>3, <2>4 DEF ModelReplies, Excs
    <3> QED BY <1>0, <2>1, <3>1 DEF TypeOK, Places, rpc, progress
  <2> QED BY <2>2, <2>3, <2>4
<1>4. CASE StepFails(c, x) \/ AnotherTool(c, x)
  BY <1>0, <1>4, RaiseTypes DEF StepFails, AnotherTool, Excs
<1>5. CASE ToolReturns(c, x)
  <2>1. CASE EndTurn(c, x, tokens[c])
    BY <1>0, <2>1, EndTurnTypes
  <2>2. CASE ~EndTurn(c, x, tokens[c])
    <3>1. /\ actor' = [actor EXCEPT ![c][x] = "starting"]
          /\ UNCHANGED <<registered, pc, task, rounds, raised, progress, answer, rpc, stream>>
      BY <1>5, <2>2 DEF ToolReturns
    <3> QED BY <1>0, <3>1 DEF TypeOK, Places, rpc, task, progress
  <2> QED BY <2>1, <2>2
<1> QED BY <1>1, <1>2, <1>3, <1>4, <1>5 DEF Actor

LEMMA BeginGraphTypes ==
    ASSUME TypeOK, NEW c \in Calls, BeginGraph(c)
    PROVE  pc' \in [Calls -> Positions] /\ actor' \in [Calls -> [Actors -> Places]]
<1>1. /\ pc' = [pc EXCEPT ![c] = "lead"] \/ pc' = [pc EXCEPT ![c] = "planned"]
      /\ actor' = actor \/ Launch(c, {Lead})
  BY DEF BeginGraph
<1>2. pc' \in [Calls -> Positions]
  BY <1>1 DEF TypeOK, Positions
<1> QED BY <1>1, <1>2, LaunchTypes DEF TypeOK

LEMMA HandlerTypes ==
    ASSUME TypeOK, NEW c \in Calls, Handler(c)
    PROVE  TypeOK'
<1>0. tokens[c] \in Nat /\ code[c] \in Codes /\ raised[c].used \in Nat
  BY DEF TypeOK
<1>1. CASE Pause(c)
  BY <1>1 DEF Pause, TypeOK, Positions, task, graph, progress, rpc
<1>2. CASE ApprovalGranted(c)
  <2>1. BeginGraph(c) /\ status' = [status EXCEPT ![c] = "running"]
        /\ allowDangerous' = [allowDangerous EXCEPT ![c] = TRUE]
        /\ UNCHANGED <<registered, kind, gated, code, cancelEvent, approval, tokens,
                       rounds, raised, progress, answer, rpc, stream>>
    BY <1>2 DEF ApprovalGranted
  <2> QED BY <2>1, BeginGraphTypes DEF TypeOK, Statuses, rpc, progress
<1>3. CASE ApprovalRejected(c)
  BY <1>0, <1>3 DEF ApprovalRejected, SetTask, Respond, TypeOK, Positions, Statuses,
                    Codes, graph, progress, rpc
<1>4. CASE ApprovalTimedOut(c)
  BY <1>0, <1>4 DEF ApprovalTimedOut, SetTask, Respond, TypeOK, Positions, Statuses,
                    Codes, graph, progress, rpc
<1>5. CASE WaveDone(c)
  <2>1. /\ pc' = [pc EXCEPT ![c] = "lead"] \/ pc' = [pc EXCEPT ![c] = "agents"]
        /\ \E who : Launch(c, who)
        /\ waves' = waves \/ waves' = [waves EXCEPT ![c] = @ + 1]
        /\ UNCHANGED <<registered, task, rounds, raised, stage, turns, answer, rpc, stream>>
    BY <1>5 DEF WaveDone
  <2>2. actor' \in [Calls -> [Actors -> Places]]
    BY <2>1, LaunchTypes
  <2>3. waves' \in [Calls -> Nat] /\ pc' \in [Calls -> Positions]
    <3>1. waves \in [Calls -> Nat] /\ pc \in [Calls -> Positions]
      BY DEF TypeOK
    <3> QED BY <2>1, <3>1 DEF Positions
  <2> QED BY <2>1, <2>2, <2>3 DEF TypeOK, task, rpc
<1>6. CASE WaveRaised(c)
  <2>1. tokens' \in [Calls -> Nat]
    BY <1>0, <1>6 DEF WaveRaised, TypeOK
  <2>2. Except(c, raised[c]) /\ UNCHANGED graph
    BY <1>6 DEF WaveRaised
  <2> QED BY <2>1, <2>2, ExceptTypes DEF TypeOK, graph, progress, rpc
<1>7. CASE AnswerFailure(c)
  <2>1. stream' \in Seq([type : {"COMPLETED", "FAILED"}, call : Calls])
    BY <1>7 DEF AnswerFailure, TypeOK
  <2> QED BY <1>0, <1>7, <2>1 DEF AnswerFailure, Respond, TypeOK, Positions, task, graph,
                                     progress, rpc
<1>8. CASE PublishCompleted(c)
  <2>1. stream' \in Seq([type : {"COMPLETED", "FAILED"}, call : Calls])
    BY <1>8 DEF PublishCompleted, TypeOK
  <2> QED BY <1>8, <2>1 DEF PublishCompleted, TypeOK, Positions, task, graph, progress, rpc
<1>9. CASE Finish(c)
  <2>1. \E cd \in {"CANCELLED", "OK"}, st \in {"cancelled", "completed"} :
           SetTask(c, st, cd) /\ Respond(c, cd, tokens[c])
    BY <1>9 DEF Finish
  <2>2. UNCHANGED <<registered, kind, gated, cancelEvent, approval, allowDangerous,
                    tokens, graph, rpc, stream>>
    BY <1>9 DEF Finish
  <2>3. /\ status' \in [Calls -> Statuses] /\ code' \in [Calls -> Codes]
        /\ pc' \in [Calls -> Positions]
        /\ answer' \in [Calls -> [code : Codes \cup {"none"}, tokens : Nat]]
    <3>1. /\ status \in [Calls -> Statuses] /\ code \in [Calls -> Codes]
          /\ pc \in [Calls -> Positions]
          /\ answer \in [Calls -> [code : Codes \cup {"none"}, tokens : Nat]]
      BY DEF TypeOK
    <3>2. PICK cd \in {"CANCELLED", "OK"}, st \in {"cancelled", "completed"} :
             SetTask(c, st, cd) /\ Respond(c, cd, tokens[c])
      BY <2>1
    <3>3. status' \in [Calls -> Statuses] /\ code' \in [Calls -> Codes]
      BY <3>1, <3>2 DEF SetTask, Statuses, Codes
    <3>4. /\ pc' \in [Calls -> Positions]
          /\ answer' \in [Calls -> [code : Codes \cup {"none"}, tokens : Nat]]
      BY <1>0, <3>1, <3>2 DEF Respond, Positions, Codes
    <3> QED BY <3>3, <3>4
  <2> QED BY <2>2, <2>3 DEF TypeOK, graph, progress, rpc
<1> QED BY <1>1, <1>2, <1>3, <1>4, <1>5, <1>6, <1>7, <1>8, <1>9 DEF Handler

LEMMA RpcTypes ==
    ASSUME TypeOK, NEW c \in Calls,
           \/ \E k \in Kinds, g \in BOOLEAN : RunStrategy(c, k, g)
           \/ PublishFails(c) \/ ClientGone(c) \/ PublishCancelled(c)
           \/ RequestCancel
           \/ \E d \in {"approved", "rejected"} : ApproveDecision(d)
    PROVE  TypeOK'
<1>1. ASSUME NEW k \in Kinds, NEW g \in BOOLEAN, RunStrategy(c, k, g)
      PROVE  TypeOK'
  <2>1. /\ registered' = c
        /\ kind' = [kind EXCEPT ![c] = k] /\ gated' = [gated EXCEPT ![c] = g]
        /\ UNCHANGED <<code, cancelEvent, approval, allowDangerous, tokens, rounds,
                       raised, waves, turns, answer, rpc, stream>>
    BY <1>1 DEF RunStrategy, Register
  <2>2. status' \in [Calls -> Statuses]
    BY <1>1 DEF RunStrategy, TypeOK, Statuses
  <2>3. pc' \in [Calls -> Positions] /\ actor' \in [Calls -> [Actors -> Places]]
    <3>1. CASE g
      BY <1>1, <3>1 DEF RunStrategy, TypeOK, Positions
    <3>2. CASE ~g
      BY <1>1, <3>2, BeginGraphTypes DEF RunStrategy
    <3> QED BY <3>1, <3>2
  <2>4. k \in Strategies
    BY ConstantsAssumption DEF ConstantsAssumption
  <2>5. stage' \in [Calls -> Stages]
    <3>1. \E s \in Stages : stage' = [stage EXCEPT ![c] = s]
      BY <1>1 DEF RunStrategy, Stages
    <3> QED BY <3>1 DEF TypeOK
  <2> QED BY <2>1, <2>2, <2>3, <2>4, <2>5 DEF TypeOK, rpc
<1>2. CASE PublishFails(c)
  <2>1. CASE Except(c, [type |-> "Exception", used |-> 0]) /\ UNCHANGED <<tokens, graph>>
    <3>1. tokens' \in [Calls -> Nat]
      BY <2>1 DEF TypeOK
    <3> QED BY <2>1, <3>1, ExceptTypes DEF TypeOK, graph, progress, rpc
  <2>2. CASE Respond(c, "UNKNOWN", 0) /\ UNCHANGED <<registered, task, graph, rpc, stream>>
    <3>1. /\ pc' \in [Calls -> Positions]
          /\ answer' \in [Calls -> [code : Codes \cup {"none"}, tokens : Nat]]
      BY <2>2 DEF Respond, TypeOK, Positions, Codes
    <3> QED BY <2>2, <3>1 DEF TypeOK, task, graph, progress, rpc
  <2> QED BY <1>2, <2>1, <2>2 DEF PublishFails
<1>3. CASE ClientGone(c)
  <2>1. actor' \in [Calls -> [Actors -> Places]]
    <3>1. actor \in [Calls -> [Actors -> Places]] /\ "raised" \in Places
      BY DEF TypeOK, Places
    <3>2. \/ actor' = actor
          \/ actor' = [actor EXCEPT ![c] =
                          [x \in Actors |-> IF Live(c, x) THEN "raised" ELSE actor[c][x]]]
      BY <1>3 DEF ClientGone
    <3> QED BY <3>1, <3>2
  <2>2. cancelEvent' \in [Calls -> BOOLEAN]
    BY <1>3 DEF ClientGone, TypeOK
  <2>3. /\ pc' = [pc EXCEPT ![c] = "aborted"]
        /\ UNCHANGED <<registered, kind, gated, status, code, approval, allowDangerous,
                       tokens, rounds, raised, progress, answer, rpc, stream>>
    BY <1>3 DEF ClientGone
  <2>4. pc' \in [Calls -> Positions]
    BY <2>3 DEF TypeOK, Positions
  <2> QED BY <2>1, <2>2, <2>3, <2>4 DEF TypeOK, progress, rpc
<1>4. CASE PublishCancelled(c)
  <2>1. stream' \in Seq([type : {"COMPLETED", "FAILED"}, call : Calls])
    BY <1>4 DEF PublishCancelled, TypeOK
  <2>2. /\ cancelling[c] > 0
        /\ cancelling' = [cancelling EXCEPT ![c] = @ - 1]
        /\ UNCHANGED <<registered, pc, task, graph, answer, cancels>>
    BY <1>4 DEF PublishCancelled
  <2>3. cancelling' \in [Calls -> Nat]
    BY <2>2 DEF TypeOK
  <2> QED BY <2>1, <2>2, <2>3 DEF TypeOK, task, graph, progress
<1>5. CASE RequestCancel
  <2>1. registered \in Calls
    BY <1>5 DEF RequestCancel, TypeOK
  <2>2. status' \in [Calls -> Statuses] /\ code' \in [Calls -> Codes]
    <3>1. \/ SetTask(registered, "cancelled", "CANCELLED")
          \/ UNCHANGED <<status, code>>
      BY <1>5 DEF RequestCancel
    <3> QED BY <2>1, <3>1 DEF SetTask, TypeOK, Statuses, Codes
  <2>3. cancels' \in 0 .. MaxCancels
    BY <1>5, ConstantsAssumption DEF RequestCancel, TypeOK, ConstantsAssumption
  <2>4. /\ cancelEvent' = [cancelEvent EXCEPT ![registered] = TRUE]
        /\ cancelling' = [cancelling EXCEPT ![registered] = @ + 1]
        /\ UNCHANGED <<registered, pc, kind, gated, approval, allowDangerous, tokens,
                       graph, answer, stream>>
    BY <1>5 DEF RequestCancel
  <2>5. cancelEvent' \in [Calls -> BOOLEAN] /\ cancelling' \in [Calls -> Nat]
    BY <2>1, <2>4 DEF TypeOK
  <2> QED BY <2>2, <2>3, <2>4, <2>5 DEF TypeOK, graph, progress
<1>6. ASSUME NEW d \in {"approved", "rejected"}, ApproveDecision(d)
      PROVE  TypeOK'
  <2>1. registered \in Calls
    BY <1>6 DEF ApproveDecision, TypeOK
  <2>2. /\ status' \in [Calls -> Statuses] /\ code' \in [Calls -> Codes]
        /\ cancelEvent' \in [Calls -> BOOLEAN]
    <3>1. CASE d = "approved"
      <4>1. /\ status' = [status EXCEPT ![registered] = "running"] \/ status' = status
            /\ UNCHANGED <<code, cancelEvent>>
        BY <1>6, <3>1 DEF ApproveDecision
      <4> QED BY <2>1, <4>1 DEF TypeOK, Statuses
    <3>2. CASE d # "approved"
      <4>1. /\ SetTask(registered, "cancelled", "CANCELLED")
            /\ cancelEvent' = [cancelEvent EXCEPT ![registered] = TRUE]
        BY <1>6, <3>2 DEF ApproveDecision
      <4> QED BY <2>1, <4>1 DEF SetTask, TypeOK, Statuses, Codes
    <3> QED BY <3>1, <3>2
  <2> QED BY <1>6, <2>1, <2>2 DEF ApproveDecision, TypeOK, graph, progress, rpc
<1> QED BY <1>1, <1>2, <1>3, <1>4, <1>5, <1>6

LEMMA TypeStep ==
    ASSUME IInv, [Next]_vars
    PROVE  TypeOK'
<1>0. TypeOK
  BY DEF IInv
<1>1. CASE UNCHANGED vars
  BY <1>0, <1>1 DEF TypeOK, vars, task, graph, progress, rpc
<1>2. ASSUME NEW c \in Calls,
             \/ \E k \in Kinds, g \in BOOLEAN : RunStrategy(c, k, g)
             \/ PublishFails(c) \/ ClientGone(c) \/ PublishCancelled(c)
      PROVE  TypeOK'
  BY <1>0, <1>2, RpcTypes
<1>3. CASE RequestCancel \/ \E d \in {"approved", "rejected"} : ApproveDecision(d)
  <2>1. registered \in Calls
    BY <1>0, <1>3 DEF RequestCancel, ApproveDecision, TypeOK
  <2> QED BY <1>0, <1>3, <2>1, RpcTypes
<1>4. ASSUME NEW c \in Calls, Handler(c)
      PROVE  TypeOK'
  BY <1>0, <1>4, HandlerTypes
<1>5. ASSUME NEW c \in Calls, NEW x \in Actors, Actor(c, x)
      PROVE  TypeOK'
  BY <1>5, ActorTypes
<1> QED BY <1>1, <1>2, <1>3, <1>4, <1>5 DEF Next

-----------------------------------------------------------------------------
(* Where the actors stand, and their rounds *)

(* What an actor's step does to the state of its call, as far as the       *)
(* invariant is concerned: it moves on, or it raises.                      *)
MovesOn(c, x) ==
    /\ \/ /\ actor[c][x] \in {"ready", "acting"}
          /\ actor' = [actor EXCEPT ![c][x] = "starting"]
          /\ actor[c][x] = "acting" => rounds[c][x] < MaxRounds
          /\ rounds' = rounds
       \/ /\ actor[c][x] = "starting"
          /\ actor' = [actor EXCEPT ![c][x] = "thinking"]
          /\ rounds' = [rounds EXCEPT ![c][x] = @ + 1]
       \/ /\ actor[c][x] \in {"thinking", "acting"}
          /\ \E p \in {"acting", "done"} : actor' = [actor EXCEPT ![c][x] = p]
          /\ rounds' = rounds
       \/ /\ actor[c][x] \in {"thinking", "acting"}
          /\ actor' = [actor EXCEPT ![c][x] = "starting"]
          /\ rounds' = [rounds EXCEPT ![c][x] = 0]
    /\ \/ pc' = pc
       \/ x = Lead /\ pc' = [pc EXCEPT ![c] = "output"]
    /\ raised' = raised

(* The lead of a swarm has made the board. *)
StepsBack(c, x) ==
    /\ x = Lead
    /\ actor[c][x] \in {"thinking", "acting"}
    /\ actor' = [actor EXCEPT ![c][x] = "idle"]
    /\ rounds' = [rounds EXCEPT ![c][x] = 0]
    /\ pc' = [pc EXCEPT ![c] = "planned"]
    /\ raised' = raised

GivesUp(c, x) ==
    /\ Live(c, x)
    /\ actor' = [actor EXCEPT ![c][x] = "raised"]
    /\ rounds' = rounds
    /\ \/ /\ x = Lead
          /\ \E p \in {"answered", "failing"} : pc' = [pc EXCEPT ![c] = p]
          /\ raised' = raised
       \/ /\ x # Lead
          /\ pc' = pc
          /\ raised'[c] # NoExc
          /\ \A e \in Calls \ {c} : raised'[e] = raised[e]

LEMMA RaiseGivesUp ==
    ASSUME TypeOK, NEW c \in Calls, NEW x \in Actors, NEW type \in Excs, NEW used,
           Live(c, x), Raise(c, x, type, used)
    PROVE  GivesUp(c, x)
<1>1. CASE x = Lead
  <2>1. Except(c, [type |-> type, used |-> used]) /\ raised' = raised
    BY <1>1 DEF Raise
  <2>2. \E p \in {"answered", "failing"} : pc' = [pc EXCEPT ![c] = p]
    BY <2>1 DEF Except, Respond
  <2> QED BY <1>1, <2>1, <2>2 DEF GivesUp, Raise
<1>2. CASE x # Lead
  <2>1. [type |-> type, used |-> used] # NoExc
    BY DEF Excs, NoExc
  <2>2. /\ pc' = pc
        /\ raised' = IF raised[c] = NoExc
                     THEN [raised EXCEPT ![c] = [type |-> type, used |-> used]]
                     ELSE raised
    BY <1>2 DEF Raise
  <2>3. raised'[c] # NoExc /\ \A e \in Calls \ {c} : raised'[e] = raised[e]
    BY <2>1, <2>2 DEF TypeOK
  <2> QED BY <1>2, <2>2, <2>3 DEF GivesUp, Raise
<1> QED BY <1>1, <1>2

LEMMA ActorMoves ==
    ASSUME TypeOK, NEW c \in Calls, NEW x \in Actors, Actor(c, x)
    PROVE  MovesOn(c, x) \/ StepsBack(c, x) \/ GivesUp(c, x)
<1>1. Live(c, x)
  BY DEF Live, Actor, StartAgent, CallModel, ModelReplies, StepFails, AnotherTool, ToolReturns
<1>2. CASE \E type \in Excs, used \in Int : Raise(c, x, type, used)
  BY <1>1, <1>2, RaiseGivesUp
<1>3. CASE ~\E type \in Excs, used \in Int : Raise(c, x, type, used)
  <2>0. tokens[c] \in Int /\ ~Refuse(c, x)
    BY <1>3 DEF Refuse, Excs, TypeOK
  <2>1. CASE StartAgent(c, x)
    BY <2>0, <2>1 DEF StartAgent, MovesOn
  <2>2. CASE CallModel(c, x)
    BY <2>0, <2>2 DEF CallModel, MovesOn
  <2>3. ASSUME NEW n \in 0 .. MaxUsage, NEW more \in BOOLEAN, ModelReplies(c, x, n, more)
        PROVE  MovesOn(c, x) \/ StepsBack(c, x)
    <3>1. tokens[c] + n \in Int
      BY <2>0
    <3>2. /\ actor[c][x] = "thinking"
          /\ \/ EndTurn(c, x, tokens[c] + n)
             \/ /\ actor' = [actor EXCEPT ![c][x] = "acting"]
                /\ UNCHANGED <<pc, rounds, raised>>
      BY <1>3, <2>3, <3>1 DEF ModelReplies, Excs
    <3>3. CASE EndTurn(c, x, tokens[c] + n)
      <4>1. ~Raise(c, x, "InterruptedError", tokens[c] + n)
        BY <1>3, <3>1 DEF Excs
      <4> QED BY <3>2, <3>3, <4>1, EndTurnMoves DEF MovesOn, StepsBack
    <3> QED BY <3>2, <3>3 DEF MovesOn
  <2>4. CASE StepFails(c, x) \/ AnotherTool(c, x)
    BY <1>3, <2>0, <2>4 DEF StepFails, AnotherTool, Excs
  <2>5. CASE ToolReturns(c, x)
    <3>1. CASE EndTurn(c, x, tokens[c])
      <4>1. ~Raise(c, x, "InterruptedError", tokens[c])
        BY <1>3, <2>0 DEF Excs
      <4> QED BY <2>5, <3>1, <4>1, EndTurnMoves DEF ToolReturns, MovesOn, StepsBack
    <3>2. CASE ~EndTurn(c, x, tokens[c])
      <4>1. rounds[c][x] < MaxRounds
        <5>1. rounds[c][x] < RoundLimit(c, x) /\ rounds[c][x] \in 0 .. MaxRounds
          BY <2>5, <3>2 DEF ToolReturns, RoundsLeft, TypeOK
        <5> QED BY <5>1, ConstantsAssumption DEF RoundLimit, ConstantsAssumption
      <4> QED BY <2>5, <3>2, <4>1 DEF ToolReturns, MovesOn
    <3> QED BY <3>1, <3>2
  <2> QED BY <2>1, <2>2, <2>3, <2>4, <2>5 DEF Actor
<1> QED BY <1>2, <1>3

LEMMA ActorPhases ==
    ASSUME IInv, NEW c \in Calls, NEW x \in Actors, Actor(c, x), NEW e \in Calls
    PROVE  Phases(e)' /\ HasRounds(e)'
<1>0. TypeOK /\ Phases(e) /\ HasRounds(e) /\ Phases(c) /\ HasRounds(c)
  BY DEF IInv
<1>1. Live(c, x)
  BY DEF Live, Actor, StartAgent, CallModel, ModelReplies, StepFails, AnotherTool, ToolReturns
<1>2. /\ x # Lead => actor[c][Lead] = "idle"
      /\ pc[c] \notin {"idle", "pausing", "approval"}
      /\ pc[c] \in {"planned", "agents"} => x # Lead
      /\ Lead \in Actors /\ Agents = Actors \ {Lead}
  BY <1>0, <1>1, ConstantsAssumption DEF Phases, Live, Actors, ConstantsAssumption
<1>3. MovesOn(c, x) \/ StepsBack(c, x) \/ GivesUp(c, x)
  BY <1>0, ActorMoves
<1>a. /\ \A y \in Actors \ {x} : actor'[c][y] = actor[c][y] /\ rounds'[c][y] = rounds[c][y]
      /\ e # c => actor'[e] = actor[e] /\ rounds'[e] = rounds[e] /\ pc'[e] = pc[e]
                 /\ raised'[e] = raised[e]
      /\ actor'[c][x] \in {"idle", "ready"} => actor'[c][x] = "idle" /\ rounds'[c][x] = 0
      /\ \/ pc'[c] = pc[c] /\ actor'[c][x] # "idle"
         \/ x = Lead /\ pc'[c] \in {"output", "answered", "failing"}
         \/ x = Lead /\ pc'[c] = "planned" /\ actor'[c][x] = "idle"
  <2>t. /\ actor \in [Calls -> [Actors -> Places]]
        /\ rounds \in [Calls -> [Actors -> 0 .. MaxRounds]]
        /\ pc \in [Calls -> Positions]
    BY <1>0 DEF TypeOK
  <2>1. CASE MovesOn(c, x)
    <3>1. \E p \in {"starting", "thinking", "acting", "done"} :
             actor' = [actor EXCEPT ![c][x] = p]
      BY <2>1 DEF MovesOn
    <3>2. rounds' = rounds \/ \E n \in {0, rounds[c][x] + 1} : rounds' = [rounds EXCEPT ![c][x] = n]
      BY <2>1 DEF MovesOn
    <3>3. raised' = raised /\ (pc' = pc \/ (x = Lead /\ pc' = [pc EXCEPT ![c] = "output"]))
      BY <2>1 DEF MovesOn
    <3>4. /\ \A y \in Actors \ {x} : actor'[c][y] = actor[c][y]
          /\ e # c => actor'[e] = actor[e]
          /\ actor'[c][x] \notin {"idle", "ready"}
      BY <2>t, <3>1
    <3>5. /\ \A y \in Actors \ {x} : rounds'[c][y] = rounds[c][y]
          /\ e # c => rounds'[e] = rounds[e]
      BY <2>t, <3>2
    <3>6. /\ e # c => pc'[e] = pc[e] /\ raised'[e] = raised[e]
          /\ pc'[c] = pc[c] \/ (x = Lead /\ pc'[c] \in {"output", "answered", "failing"})
      BY <2>t, <3>3
    <3> QED BY <3>4, <3>5, <3>6
  <2>2. CASE GivesUp(c, x)
    BY <2>t, <2>2 DEF GivesUp
  <2>3. CASE StepsBack(c, x)
    BY <2>t, <2>3 DEF StepsBack
  <2> QED BY <1>3, <2>1, <2>2, <2>3
<1>b. actor'[c][x] = "starting" => rounds'[c][x] < MaxRounds
  <2>1. CASE MovesOn(c, x)
    <3>1. actor[c][x] = "ready" => rounds[c][x] < MaxRounds
      BY <1>0, ConstantsAssumption DEF HasRounds, ConstantsAssumption
    <3>2. 0 < MaxRounds
      BY ConstantsAssumption DEF ConstantsAssumption
    <3>3. /\ actor \in [Calls -> [Actors -> Places]]
          /\ rounds \in [Calls -> [Actors -> 0 .. MaxRounds]]
      BY <1>0 DEF TypeOK
    <3> QED BY <2>1, <3>1, <3>2, <3>3 DEF MovesOn
  <2>t. actor \in [Calls -> [Actors -> Places]]
    BY <1>0 DEF TypeOK
  <2>2. CASE GivesUp(c, x)
    BY <2>t, <2>2 DEF GivesUp
  <2>3. CASE StepsBack(c, x)
    BY <2>t, <2>3 DEF StepsBack
  <2> QED BY <1>3, <2>1, <2>2, <2>3
<1>c. x # Lead /\ raised'[c] = NoExc => raised[c] = NoExc /\ actor'[c][x] # "raised"
  <2>t. actor \in [Calls -> [Actors -> Places]]
    BY <1>0 DEF TypeOK
  <2>1. CASE MovesOn(c, x)
    <3>1. actor'[c][x] # "raised" /\ raised' = raised
      BY <2>t, <2>1 DEF MovesOn
    <3> QED BY <3>1
  <2>2. CASE StepsBack(c, x) \/ GivesUp(c, x)
    BY <2>2 DEF StepsBack, GivesUp
  <2> QED BY <1>3, <2>1, <2>2
<1>d. HasRounds(e)'
  <2>1. CASE e # c
    BY <1>0, <1>a, <2>1 DEF HasRounds
  <2>2. CASE e = c
    BY <1>0, <1>a, <1>b, <2>2 DEF HasRounds
  <2> QED BY <2>1, <2>2
<1>e. Phases(e)'
  <2>1. CASE e # c
    BY <1>0, <1>a, <2>1 DEF Phases
  <2>2. CASE e = c /\ x = Lead
    BY <1>0, <1>1, <1>2, <1>a, <2>2 DEF Phases, Live
  <2>3. CASE e = c /\ x # Lead
    <3>1. pc[c] # "planned"
      BY <1>0, <1>1, <1>2, <2>3 DEF Phases, Live
    <3> QED BY <1>0, <1>1, <1>2, <1>a, <1>c, <2>3, <3>1 DEF Phases
  <2> QED BY <2>1, <2>2, <2>3
<1> QED BY <1>d, <1>e

(* A wave is launched only among idle actors, and never beside the lead.   *)
LEMMA LaunchPhases ==
    ASSUME IInv, NEW c \in Calls, NEW who, Launch(c, who),
           who = {Lead} \/ (who \subseteq Agents /\ actor[c][Lead] = "idle"),
           \A x \in who : actor[c][x] = "idle",
           who = {Lead} => \A x \in Agents : actor[c][x] \in {"idle", "done"},
           who = {Lead} => pc' = [pc EXCEPT ![c] = "lead"],
           who # {Lead} => pc' = [pc EXCEPT ![c] = "agents"],
           who # {Lead} /\ raised[c] = NoExc => \A x \in Agents : actor[c][x] # "raised",
           rounds' = rounds, raised' = raised, NEW e \in Calls
    PROVE  Phases(e)' /\ HasRounds(e)'
<1>0. TypeOK /\ Phases(e) /\ HasRounds(e) /\ Lead \in Actors /\ Agents = Actors \ {Lead}
  BY ConstantsAssumption DEF IInv, Actors, ConstantsAssumption
<1>1. CASE e = c
  <2>1. \A x \in Actors :
           actor'[c][x] = IF x \in who THEN IF x = Lead THEN "starting" ELSE "ready"
                          ELSE actor[c][x]
    BY <1>0 DEF Launch, TypeOK
  <2>2. HasRounds(e)'
    BY <1>0, <1>1, <2>1, ConstantsAssumption DEF HasRounds, ConstantsAssumption
  <2>3. pc'[c] = IF who = {Lead} THEN "lead" ELSE "agents"
    BY <1>0 DEF TypeOK
  <2>4. CASE who = {Lead}
    <3>1. \A x \in Agents : actor'[c][x] = actor[c][x]
      BY <1>0, <2>1, <2>4
    <3> QED BY <1>1, <2>2, <2>3, <2>4, <3>1 DEF Phases
  <2>5. CASE who # {Lead}
    <3>1. actor'[c][Lead] = "idle"
      BY <1>0, <2>1, <2>5
    <3>2. raised[c] = NoExc => \A x \in Agents : actor'[c][x] # "raised"
      BY <1>0, <2>1, <2>5
    <3> QED BY <1>1, <2>2, <2>3, <2>5, <3>1, <3>2 DEF Phases
  <2> QED BY <2>2, <2>4, <2>5
<1>2. CASE e # c
  <2>0. actor \in [Calls -> [Actors -> Places]] /\ pc \in [Calls -> Positions]
    BY <1>0 DEF TypeOK
  <2>1. actor'[e] = actor[e] /\ pc'[e] = pc[e]
    BY <1>2, <2>0 DEF Launch
  <2>2. HasRounds(e)'
    BY <1>0, <2>1 DEF HasRounds
  <2>3. Phases(e)'
    BY <1>0, <2>1 DEF Phases
  <2> QED BY <2>2, <2>3
<1> QED BY <1>1, <1>2

(* The steps that move no actor and leave the phases that speak of them.   *)
LEMMA QuietPhases ==
    ASSUME IInv, NEW c \in Calls, UNCHANGED <<actor, rounds, raised>>,
           NEW p, pc' = [pc EXCEPT ![c] = p],
           p \in {"idle", "pausing", "approval", "planned"} =>
               pc[c] \in {"idle", "pausing", "approval"},
           p # "agents",
           NEW e \in Calls
    PROVE  Phases(e)' /\ HasRounds(e)'
<1>1. Phases(e) /\ HasRounds(e) /\ pc \in [Calls -> Positions]
  BY DEF IInv, TypeOK
<1>2. Lead \in Actors /\ Agents \subseteq Actors
  BY DEF Actors
<1>3. CASE e # c
  BY <1>1, <1>3 DEF Phases, HasRounds
<1>4. CASE e = c /\ p \in {"idle", "pausing", "approval", "planned"}
  <2>1. \A x \in Actors : actor[c][x] = "idle"
    BY <1>1, <1>4 DEF Phases
  <2> QED BY <1>1, <1>2, <1>4, <2>1 DEF Phases, HasRounds
<1>5. CASE e = c /\ p \notin {"idle", "pausing", "approval", "planned"}
  <2>1. pc'[c] = p
    BY <1>1
  <2> QED BY <1>1, <1>5, <2>1 DEF Phases, HasRounds
<1> QED BY <1>3, <1>4, <1>5

LEMMA BeginGraphPhases ==
    ASSUME IInv, NEW c \in Calls, pc[c] \in {"idle", "approval"}, BeginGraph(c),
           rounds' = rounds, raised' = raised, NEW e \in Calls
    PROVE  Phases(e)' /\ HasRounds(e)'
<1>0. \A x \in Actors : actor[c][x] = "idle"
  BY DEF IInv, Phases
<1>1. Lead \in Actors /\ Agents \subseteq Actors /\ Lead \notin Agents
  BY ConstantsAssumption DEF Actors, ConstantsAssumption
<1>2. CASE pc' = [pc EXCEPT ![c] = "lead"] /\ Launch(c, {Lead})
  BY <1>0, <1>1, <1>2, LaunchPhases
<1>3. CASE pc' = [pc EXCEPT ![c] = "planned"] /\ UNCHANGED actor
  BY <1>3, QuietPhases
<1> QED BY <1>2, <1>3 DEF BeginGraph

LEMMA HandlerPhases ==
    ASSUME IInv, NEW c \in Calls, Handler(c), NEW e \in Calls
    PROVE  Phases(e)' /\ HasRounds(e)'
<1>1. CASE Pause(c)
  BY <1>1, QuietPhases DEF Pause, graph
<1>2. CASE ApprovalGranted(c)
  BY <1>2, BeginGraphPhases DEF ApprovalGranted
<1>3. CASE ApprovalRejected(c) \/ ApprovalTimedOut(c)
  <2>1. pc' = [pc EXCEPT ![c] = "answered"] /\ UNCHANGED <<actor, rounds, raised>>
    BY <1>3 DEF ApprovalRejected, ApprovalTimedOut, Respond, graph
  <2> QED BY <2>1, QuietPhases
<1>4. CASE WaveDone(c)
  <2>0. TypeOK /\ Phases(c)
    BY DEF IInv
  <2>1. /\ pc[c] \in {"planned", "agents"} /\ raised[c] = NoExc /\ Gathered(c)
        /\ rounds' = rounds /\ raised' = raised
    BY <1>4 DEF WaveDone
  <2>2. \A x \in Agents : actor[c][x] \in {"idle", "done"}
    <3>1. \A x \in Agents : actor[c][x] \in Places
      BY <2>0 DEF TypeOK, Actors
    <3>2. CASE pc[c] = "planned"
      BY <2>0, <3>2 DEF Phases
    <3>3. CASE pc[c] = "agents"
      <4>1. \A x \in Agents : actor[c][x] # "raised" /\ ~Live(c, x)
        BY <2>0, <2>1, <3>3 DEF Phases, Gathered
      <4> QED BY <3>1, <4>1 DEF Live, Places
    <3> QED BY <2>1, <3>2, <3>3
  <2>3. Lead \notin Agents /\ actor[c][Lead] = "idle"
    BY <2>0, <2>1, ConstantsAssumption DEF Phases, ConstantsAssumption
  <2>4. CASE WavesOver(c)
    <3>1. pc' = [pc EXCEPT ![c] = "lead"] /\ Launch(c, {Lead})
      BY <1>4, <2>4 DEF WaveDone
    <3>2. \A x \in {Lead} : actor[c][x] = "idle"
      BY <2>3
    <3> DEFINE W == {Lead}
    <3>3. W = {Lead} /\ Launch(c, W) /\ \A x \in W : actor[c][x] = "idle"
      BY <3>1, <3>2
    <3> HIDE DEF W
    <3> QED BY <2>1, <2>2, <3>1, <3>3, LaunchPhases
  <2>5. CASE ~WavesOver(c)
    <3>1. pc' = [pc EXCEPT ![c] = "agents"] /\ Agents \ DoneAgents(c) # {}
      BY <1>4, <2>5 DEF WaveDone, WavesOver, DoneAgents
    <3>2. PICK W \in Waves(kind[c], DoneAgents(c)) : Launch(c, W)
      BY <1>4, <2>5 DEF WaveDone
    <3>3. W \subseteq Agents \ DoneAgents(c)
      BY <3>1, WavesAreOfAgents
    <3>4. Launch(c, W)
      BY <3>2
    <3>5. \A x \in W : actor[c][x] = "idle"
      BY <2>2, <3>3 DEF DoneAgents
    <3>6. W # {Lead} /\ W \subseteq Agents
      BY <2>3, <3>3
    <3>7. \A x \in Agents : actor[c][x] # "raised"
      BY <2>2
    <3> QED BY <2>1, <2>3, <3>1, <3>4, <3>5, <3>6, <3>7, LaunchPhases
  <2> QED BY <2>4, <2>5
<1>5. CASE WaveRaised(c)
  <2>1. \E p \in {"answered", "failing"} : pc' = [pc EXCEPT ![c] = p]
    BY <1>5 DEF WaveRaised, Except, Respond
  <2>2. UNCHANGED <<actor, rounds, raised>>
    BY <1>5 DEF WaveRaised, graph
  <2> QED BY <2>1, <2>2, QuietPhases
<1>6. CASE AnswerFailure(c) \/ PublishCompleted(c) \/ Finish(c)
  <2>1. /\ \E p \in {"answered", "completed"} : pc' = [pc EXCEPT ![c] = p]
        /\ UNCHANGED <<actor, rounds, raised>>
    BY <1>6 DEF AnswerFailure, PublishCompleted, Finish, Respond, graph
  <2> QED BY <2>1, QuietPhases
<1> QED BY <1>1, <1>2, <1>3, <1>4, <1>5, <1>6 DEF Handler

LEMMA RpcPhases ==
    ASSUME IInv, NEW c \in Calls, NEW e \in Calls,
           \/ \E k \in Kinds, g \in BOOLEAN : RunStrategy(c, k, g)
           \/ PublishFails(c) \/ ClientGone(c) \/ PublishCancelled(c)
           \/ RequestCancel
           \/ \E d \in {"approved", "rejected"} : ApproveDecision(d)
    PROVE  Phases(e)' /\ HasRounds(e)'
<1>1. ASSUME NEW k \in Kinds, NEW g \in BOOLEAN, RunStrategy(c, k, g)
      PROVE  Phases(e)' /\ HasRounds(e)'
  <2>1. pc[c] = "idle" /\ rounds' = rounds /\ raised' = raised
    BY <1>1 DEF RunStrategy
  <2>2. CASE g
    <3>1. pc' = [pc EXCEPT ![c] = "pausing"] /\ actor' = actor
      BY <1>1, <2>2 DEF RunStrategy
    <3> QED BY <2>1, <3>1, QuietPhases
  <2>3. CASE ~g
    BY <1>1, <2>1, <2>3, BeginGraphPhases DEF RunStrategy
  <2> QED BY <2>2, <2>3
<1>2. CASE PublishFails(c)
  <2>1. /\ \E p \in {"answered", "failing"} : pc' = [pc EXCEPT ![c] = p]
        /\ UNCHANGED <<actor, rounds, raised>>
    BY <1>2 DEF PublishFails, Except, Respond, graph
  <2> QED BY <2>1, QuietPhases
<1>3. CASE ClientGone(c)
  <2>0. TypeOK /\ Phases(e) /\ HasRounds(e)
    BY DEF IInv
  <2>1. pc' = [pc EXCEPT ![c] = "aborted"] /\ rounds' = rounds /\ raised' = raised
    BY <1>3 DEF ClientGone
  <2>2. \A x \in Actors : \/ actor'[e][x] = actor[e][x]
                          \/ actor'[e][x] = "raised" /\ Live(e, x)
    BY <1>3, <2>0 DEF ClientGone, TypeOK
  <2>3. e # c => actor'[e] = actor[e]
    BY <1>3, <2>0 DEF ClientGone, TypeOK
  <2>4. Lead \in Actors /\ Agents \subseteq Actors
    BY DEF Actors
  <2>5. HasRounds(e)'
    BY <2>0, <2>1, <2>2 DEF HasRounds
  <2>6. CASE e # c
    <3>1. pc'[e] = pc[e] /\ raised'[e] = raised[e] /\ actor'[e] = actor[e]
      BY <2>0, <2>1, <2>3, <2>6 DEF TypeOK
    <3> QED BY <2>0, <2>5, <3>1 DEF Phases
  <2>7. CASE e = c
    <3>1. pc'[c] = "aborted"
      BY <2>0, <2>1 DEF TypeOK
    <3>2. actor'[c][Lead] # "idle" => \A x \in Agents : actor'[c][x] \in {"idle", "done"}
      BY <2>0, <2>2, <2>4, <2>7 DEF Phases, Live
    <3> QED BY <2>5, <2>7, <3>1, <3>2 DEF Phases
  <2> QED BY <2>6, <2>7
<1>4. CASE UNCHANGED <<pc, actor, rounds, raised>>
  BY <1>4 DEF IInv, Phases, HasRounds
<1> QED
  BY <1>1, <1>2, <1>3, <1>4 DEF PublishCancelled, RequestCancel, ApproveDecision, graph

LEMMA PhaseStep ==
    ASSUME IInv, [Next]_vars, NEW e \in Calls
    PROVE  Phases(e)' /\ HasRounds(e)'
<1>1. CASE UNCHANGED vars
  BY <1>1 DEF IInv, Phases, HasRounds, vars, graph
<1>2. ASSUME NEW c \in Calls,
             \/ \E k \in Kinds, g \in BOOLEAN : RunStrategy(c, k, g)
             \/ PublishFails(c) \/ ClientGone(c) \/ PublishCancelled(c)
      PROVE  Phases(e)' /\ HasRounds(e)'
  BY <1>2, RpcPhases
<1>3. CASE RequestCancel \/ \E d \in {"approved", "rejected"} : ApproveDecision(d)
  BY <1>3, RpcPhases
<1>4. ASSUME NEW c \in Calls, Handler(c)
      PROVE  Phases(e)' /\ HasRounds(e)'
  BY <1>4, HandlerPhases
<1>5. ASSUME NEW c \in Calls, NEW x \in Actors, Actor(c, x)
      PROVE  Phases(e)' /\ HasRounds(e)'
  BY <1>5, ActorPhases
<1> QED BY <1>1, <1>2, <1>3, <1>4, <1>5 DEF Next

-----------------------------------------------------------------------------
(* The budget *)

LEMMA MulMono ==
    ASSUME NEW a \in Nat, NEW b \in Nat, NEW m \in Nat, a <= b
    PROVE  a * m <= b * m
OBVIOUS

LEMMA MulPred ==
    ASSUME NEW a \in Nat, NEW m \in Nat
    PROVE  (a + 1) * m = a * m + m
OBVIOUS

(* At most one reply per agent of the wave is awaited, wherever f says the *)
(* actors are.                                                             *)
LEMMA WaveBound ==
    ASSUME NEW f, f[Lead] # "idle" => \A x \in Agents : f[x] \in {"idle", "done"},
           NEW T, T = {x \in Actors : f[x] = "thinking"}
    PROVE  /\ IsFiniteSet(T) /\ Cardinality(T) \in Nat
           /\ Cardinality(T) <= Fanout /\ Fanout \in Nat
<1>1. IsFiniteSet(Agents) /\ Cardinality(Agents) \in Nat
  BY ConstantsAssumption, FS_CardinalityType DEF ConstantsAssumption
<1>2. Fanout \in Nat /\ Fanout >= 1 /\ Fanout >= Cardinality(Agents)
  BY <1>1, FS_EmptySet DEF Fanout
<1>3. CASE f[Lead] # "idle"
  <2>1. T \subseteq {Lead}
    BY <1>3 DEF Actors
  <2>2. IsFiniteSet({Lead}) /\ Cardinality({Lead}) = 1
    BY FS_Singleton
  <2> QED BY <1>2, <2>1, <2>2, FS_Subset, FS_CardinalityType
<1>4. CASE f[Lead] = "idle"
  <2>1. T \subseteq Agents
    BY <1>4 DEF Actors
  <2> QED BY <1>1, <1>2, <2>1, FS_Subset, FS_CardinalityType
<1> QED BY <1>3, <1>4

LEMMA PaidKept ==
    ASSUME TypeOK, TypeOK', NEW e \in Calls, Phases(e), Phases(e)', Paid(e),
           tokens'[e] <= tokens[e], raised'[e].used <= tokens'[e],
           Thinking(e)' \subseteq Thinking(e)
    PROVE  Paid(e)'
<1>1. /\ IsFiniteSet(Thinking(e)) /\ Cardinality(Thinking(e)) \in Nat
      /\ Cardinality(Thinking(e)') \in Nat /\ Fanout \in Nat
  BY WaveBound DEF Phases, Thinking
<1>2. Cardinality(Thinking(e)') <= Cardinality(Thinking(e))
  BY <1>1, FS_Subset
<1>3. Cardinality(Thinking(e)') * MaxUsage <= Cardinality(Thinking(e)) * MaxUsage
  BY <1>1, <1>2, MulMono, ConstantsAssumption DEF ConstantsAssumption
<1>4. /\ Cardinality(Thinking(e)') * MaxUsage \in Nat
      /\ Cardinality(Thinking(e)) * MaxUsage \in Nat /\ Fanout * MaxUsage \in Nat
  BY <1>1, ConstantsAssumption DEF ConstantsAssumption
<1>5. tokens[e] \in Nat /\ tokens'[e] \in Nat /\ Budget \in Nat
  BY ConstantsAssumption DEF TypeOK, ConstantsAssumption
<1>6. (Cardinality(Thinking(e)))' = Cardinality(Thinking(e)')
  OBVIOUS
<1> QED BY <1>3, <1>4, <1>5, <1>6 DEF Paid

LEMMA PaidReply ==
    ASSUME TypeOK, TypeOK', NEW c \in Calls, Phases(c), Phases(c)', Paid(c),
           NEW x \in Thinking(c), NEW n \in 0 .. MaxUsage,
           tokens'[c] = tokens[c] + n, raised'[c].used <= tokens'[c],
           Thinking(c)' = Thinking(c) \ {x}
    PROVE  Paid(c)'
<1>1. /\ IsFiniteSet(Thinking(c)) /\ Cardinality(Thinking(c)) \in Nat
      /\ Cardinality(Thinking(c)') \in Nat /\ Fanout \in Nat
  BY WaveBound DEF Phases, Thinking
<1>2. Cardinality(Thinking(c)) = Cardinality(Thinking(c)') + 1
  <2>1. x \in Thinking(c)
    OBVIOUS
  <2>2. Cardinality(Thinking(c) \ {x}) = Cardinality(Thinking(c)) - 1
    BY <1>1, <2>1, FS_RemoveElement
  <2> QED BY <1>1, <2>2
<1>3. Cardinality(Thinking(c)) * MaxUsage = Cardinality(Thinking(c)') * MaxUsage + MaxUsage
  BY <1>1, <1>2, MulPred, ConstantsAssumption DEF ConstantsAssumption
<1>4. /\ Cardinality(Thinking(c)') * MaxUsage \in Nat /\ Fanout * MaxUsage \in Nat
      /\ MaxUsage \in Nat
  BY <1>1, ConstantsAssumption DEF ConstantsAssumption
<1>5. tokens[c] \in Nat /\ Budget \in Nat
  BY ConstantsAssumption DEF TypeOK, ConstantsAssumption
<1> QED BY <1>3, <1>4, <1>5 DEF Paid

LEMMA PaidCall ==
    ASSUME TypeOK', NEW c \in Calls, Phases(c)', tokens'[c] = tokens[c],
           tokens[c] \in Nat, ~OverBudget(tokens[c]), raised'[c].used <= tokens'[c]
    PROVE  Paid(c)'
<1>1. /\ Cardinality(Thinking(c)') \in Nat /\ Cardinality(Thinking(c)') <= Fanout
      /\ Fanout \in Nat
  BY WaveBound DEF Phases, Thinking
<1>2. Cardinality(Thinking(c)') * MaxUsage <= Fanout * MaxUsage
  BY <1>1, MulMono, ConstantsAssumption DEF ConstantsAssumption
<1>3. Cardinality(Thinking(c)') * MaxUsage \in Nat /\ Fanout * MaxUsage \in Nat
  BY <1>1, ConstantsAssumption DEF ConstantsAssumption
<1>4. Budget \in Nat /\ (Budget > 0 => tokens[c] <= Budget - 1)
  BY ConstantsAssumption DEF OverBudget, ConstantsAssumption
<1> QED BY <1>2, <1>3, <1>4 DEF Paid

(* The tokens an actor's step adds, and what becomes of the replies it     *)
(* waits for.                                                              *)
Pays(c, x, n) ==
    /\ tokens' = [tokens EXCEPT ![c] = @ + n]
    /\ raised'[c].used <= tokens'[c]
    /\ \A e \in Calls \ {c} : raised'[e] = raised[e]
    /\ \E p \in Places : actor' = [actor EXCEPT ![c][x] = p]

LEMMA RaisePays ==
    ASSUME TypeOK, NEW c \in Calls, Paid(c), NEW x \in Actors, NEW type \in Excs,
           NEW n \in Nat, Raise(c, x, type, tokens[c] + n)
    PROVE  Pays(c, x, n) /\ actor' = [actor EXCEPT ![c][x] = "raised"]
<1> DEFINE e == [type |-> type, used |-> tokens[c] + n]
<1>1. tokens' = [tokens EXCEPT ![c] = @ + n] /\ actor' = [actor EXCEPT ![c][x] = "raised"]
  BY DEF Raise
<1>2. raised' = raised \/ raised' = [raised EXCEPT ![c] = e]
  BY DEF Raise
<1>3. /\ tokens[c] \in Nat /\ tokens'[c] = tokens[c] + n /\ e.used = tokens[c] + n
      /\ raised[c].used \in Nat /\ raised[c].used <= tokens[c]
  BY <1>1 DEF TypeOK, Paid
<1> HIDE DEF e
<1>4. /\ raised'[c] \in {raised[c], e}
      /\ \A d \in Calls \ {c} : raised'[d] = raised[d]
  BY <1>2 DEF TypeOK
<1>5. raised'[c].used <= tokens'[c]
  BY <1>3, <1>4
<1> QED BY <1>1, <1>4, <1>5 DEF Pays, Places

LEMMA EndTurnPays ==
    ASSUME TypeOK, NEW c \in Calls, Paid(c), NEW x \in Actors, NEW n \in Nat,
           EndTurn(c, x, tokens[c] + n)
    PROVE  /\ Pays(c, x, n)
           /\ \E p \in {"raised", "done", "starting", "idle"} :
                  actor' = [actor EXCEPT ![c][x] = p]
<1>1. CASE Raise(c, x, "InterruptedError", tokens[c] + n)
  BY <1>1, RaisePays DEF Excs
<1>2. CASE ~Raise(c, x, "InterruptedError", tokens[c] + n)
  <2>1. /\ \E p \in {"done", "starting", "idle"} : actor' = [actor EXCEPT ![c][x] = p]
        /\ tokens' = [tokens EXCEPT ![c] = tokens[c] + n] /\ raised' = raised
    BY <1>2, EndTurnMoves
  <2>2. /\ tokens[c] \in Nat /\ tokens'[c] = tokens[c] + n
        /\ raised[c].used \in Nat /\ raised[c].used <= tokens[c]
    BY <2>1 DEF TypeOK, Paid
  <2>3. {"done", "starting", "idle"} \subseteq Places
    BY DEF Places
  <2>4. raised'[c].used <= tokens'[c]
    BY <2>1, <2>2
  <2>5. \E p \in Places : actor' = [actor EXCEPT ![c][x] = p]
    BY <2>1, <2>3
  <2>6. Pays(c, x, n)
    BY <2>1, <2>4, <2>5 DEF Pays
  <2> QED BY <2>1, <2>6
<1> QED BY <1>1, <1>2

LEMMA RefusePays ==
    ASSUME TypeOK, NEW c \in Calls, Paid(c), NEW x \in Actors, Refuse(c, x)
    PROVE  Pays(c, x, 0) /\ actor' = [actor EXCEPT ![c][x] = "raised"]
<1>1. tokens[c] \in Nat /\ tokens[c] + 0 = tokens[c]
  BY DEF TypeOK
<1> QED BY <1>1, RaisePays DEF Refuse, Excs

LEMMA ActorPays ==
    ASSUME TypeOK, NEW c \in Calls, Paid(c), NEW x \in Actors, Actor(c, x)
    PROVE  \/ /\ Pays(c, x, 0)
              /\ actor' = [actor EXCEPT ![c][x] = "thinking"] => ~OverBudget(tokens[c])
           \/ /\ x \in Thinking(c)
              /\ \E n \in 0 .. MaxUsage : Pays(c, x, n)
              /\ \E p \in Places \ {"thinking"} : actor' = [actor EXCEPT ![c][x] = p]
<1>0. /\ tokens[c] \in Nat /\ tokens[c] + 0 = tokens[c] /\ raised[c].used <= tokens[c]
      /\ tokens = [tokens EXCEPT ![c] = @ + 0]
  <2>1. tokens \in [Calls -> Nat]
    BY DEF TypeOK
  <2>2. tokens[c] \in Nat /\ tokens[c] + 0 = tokens[c]
    BY <2>1
  <2>3. tokens = [tokens EXCEPT ![c] = @ + 0]
    BY <2>1, <2>2
  <2> QED BY <2>2, <2>3 DEF Paid
<1>r. CASE Refuse(c, x)
  <2>1. Pays(c, x, 0) /\ actor' = [actor EXCEPT ![c][x] = "raised"]
    BY <1>r, RefusePays
  <2>2. actor'[c][x] = "raised" /\ actor \in [Calls -> [Actors -> Places]]
    BY <2>1 DEF TypeOK
  <2>3. actor' # [actor EXCEPT ![c][x] = "thinking"]
    BY <2>2
  <2> QED BY <2>1, <2>3
<1>1. CASE StartAgent(c, x)
  <2>1. CASE Refuse(c, x)
    BY <1>r, <2>1
  <2>2. CASE ~Refuse(c, x)
    <3>1. actor' = [actor EXCEPT ![c][x] = "starting"] /\ tokens' = tokens /\ raised' = raised
      BY <1>1, <2>2 DEF StartAgent, task
    <3> QED BY <1>0, <3>1 DEF Pays, Places, TypeOK
  <2> QED BY <2>1, <2>2
<1>2. CASE CallModel(c, x)
  <2>1. CASE Refuse(c, x)
    BY <1>r, <2>1
  <2>2. CASE ~Refuse(c, x)
    <3>1. /\ actor' = [actor EXCEPT ![c][x] = "thinking"] /\ tokens' = tokens
          /\ raised' = raised /\ ~OverBudget(tokens[c])
      BY <1>2, <2>2 DEF CallModel, MayProceed, task
    <3> QED BY <1>0, <3>1 DEF Pays, Places
  <2> QED BY <2>1, <2>2
<1>3. ASSUME NEW n \in 0 .. MaxUsage, NEW more \in BOOLEAN, ModelReplies(c, x, n, more)
      PROVE  /\ x \in Thinking(c)
             /\ Pays(c, x, n)
             /\ \E p \in Places \ {"thinking"} : actor' = [actor EXCEPT ![c][x] = p]
  <2>0. x \in Thinking(c) /\ n \in Nat
    BY <1>3, ConstantsAssumption DEF ModelReplies, Thinking, ConstantsAssumption
  <2>1. CASE \E type \in Excs : Raise(c, x, type, tokens[c] + n)
    <3>1. Pays(c, x, n) /\ actor' = [actor EXCEPT ![c][x] = "raised"]
      BY <2>0, <2>1, RaisePays
    <3> QED BY <2>0, <3>1 DEF Places
  <2>2. CASE EndTurn(c, x, tokens[c] + n)
    <3>1. /\ Pays(c, x, n)
          /\ \E p \in {"raised", "done", "starting", "idle"} :
                actor' = [actor EXCEPT ![c][x] = p]
      BY <2>0, <2>2, EndTurnPays
    <3> QED BY <2>0, <3>1 DEF Places
  <2>3. CASE /\ ~\E type \in Excs : Raise(c, x, type, tokens[c] + n)
             /\ ~EndTurn(c, x, tokens[c] + n)
    <3>1. /\ actor' = [actor EXCEPT ![c][x] = "acting"]
          /\ tokens' = [tokens EXCEPT ![c] = tokens[c] + n] /\ raised' = raised
      BY <1>3, <2>3 DEF ModelReplies, Excs
    <3>2. tokens'[c] = tokens[c] + n
      BY <3>1 DEF TypeOK
    <3>3. raised[c].used \in Nat
      BY DEF TypeOK
    <3>4. tokens' = [tokens EXCEPT ![c] = @ + n] /\ raised'[c].used <= tokens'[c]
      BY <1>0, <2>0, <3>1, <3>2, <3>3
    <3>5. "acting" \in Places \ {"thinking"}
      BY DEF Places
    <3>6. Pays(c, x, n)
      BY <3>1, <3>4, <3>5 DEF Pays
    <3> QED BY <2>0, <3>1, <3>5, <3>6
  <2> QED BY <2>1, <2>2, <2>3
<1>4. CASE StepFails(c, x) \/ AnotherTool(c, x)
  <2>1. PICK type \in {"Exception", "InterruptedError"} : Raise(c, x, type, tokens[c] + 0)
    BY <1>0, <1>4 DEF StepFails, AnotherTool
  <2>2. Pays(c, x, 0) /\ actor' = [actor EXCEPT ![c][x] = "raised"]
    BY <2>1, RaisePays DEF Excs
  <2> QED BY <2>2 DEF TypeOK
<1>5. CASE ToolReturns(c, x)
  <2>1. CASE EndTurn(c, x, tokens[c])
    <3>1. /\ Pays(c, x, 0)
          /\ \E p \in {"raised", "done", "starting", "idle"} :
                actor' = [actor EXCEPT ![c][x] = p]
      BY <1>0, <2>1, EndTurnPays
    <3>2. actor'[c][x] \in {"raised", "done", "starting", "idle"}
      BY <3>1 DEF TypeOK
    <3>3. actor' # [actor EXCEPT ![c][x] = "thinking"]
      BY <3>2 DEF TypeOK
    <3> QED BY <3>1, <3>3
  <2>2. CASE ~EndTurn(c, x, tokens[c])
    <3>1. actor' = [actor EXCEPT ![c][x] = "starting"] /\ tokens' = tokens /\ raised' = raised
      BY <1>5, <2>2 DEF ToolReturns, task
    <3> QED BY <1>0, <3>1 DEF Pays, Places, TypeOK
  <2> QED BY <2>1, <2>2
<1> QED BY <1>1, <1>2, <1>3, <1>4, <1>5 DEF Actor

LEMMA ActorPaid ==
    ASSUME IInv, TypeOK', NEW c \in Calls, NEW x \in Actors, Actor(c, x), Phases(c)',
           NEW e \in Calls
    PROVE  Paid(e)'
<1>0. TypeOK /\ Paid(e) /\ Paid(c) /\ Phases(c) /\ tokens[c] \in Nat
  BY DEF IInv, TypeOK
<1>1. PICK n \in 0 .. MaxUsage : Pays(c, x, n)
  BY <1>0, ActorPays, ConstantsAssumption DEF ConstantsAssumption
<1>2. CASE e # c
  <2>1. actor'[e] = actor[e] /\ tokens'[e] = tokens[e] /\ raised'[e] = raised[e]
    BY <1>0, <1>1, <1>2 DEF Pays, TypeOK
  <2> QED BY <1>0, <2>1 DEF Paid, Thinking
<1>3. CASE e = c
  <2>1. \A y \in Actors \ {x} : actor'[c][y] = actor[c][y]
    BY <1>0, <1>1 DEF Pays, TypeOK
  <2>2. CASE /\ Pays(c, x, 0)
             /\ actor' = [actor EXCEPT ![c][x] = "thinking"] => ~OverBudget(tokens[c])
    <3>1. tokens'[c] = tokens[c] /\ raised'[c].used <= tokens'[c]
      BY <1>0, <2>2 DEF Pays, TypeOK
    <3>2. CASE ~OverBudget(tokens[c])
      BY <1>0, <1>3, <3>1, <3>2, PaidCall
    <3>3. CASE actor' # [actor EXCEPT ![c][x] = "thinking"]
      <4>1. actor'[c][x] # "thinking"
        <5>1. PICK p \in Places : actor' = [actor EXCEPT ![c][x] = p]
          BY <2>2 DEF Pays
        <5>2. p # "thinking"
          BY <3>3, <5>1
        <5> QED BY <1>0, <5>1, <5>2 DEF TypeOK
      <4>2. Thinking(c)' \subseteq Thinking(c)
        BY <2>1, <4>1 DEF Thinking
      <4> QED BY <1>0, <1>3, <3>1, <4>2, PaidKept
    <3> QED BY <2>2, <3>2, <3>3
  <2>3. CASE /\ x \in Thinking(c)
             /\ \E m \in 0 .. MaxUsage : Pays(c, x, m)
             /\ \E p \in Places \ {"thinking"} : actor' = [actor EXCEPT ![c][x] = p]
    <3>1. PICK m \in 0 .. MaxUsage : Pays(c, x, m)
      BY <2>3
    <3>2. tokens'[c] = tokens[c] + m /\ raised'[c].used <= tokens'[c]
      BY <1>0, <3>1 DEF Pays, TypeOK
    <3>3. actor'[c][x] # "thinking"
      BY <1>0, <2>3 DEF TypeOK
    <3>4. Thinking(c)' = Thinking(c) \ {x}
      BY <2>1, <3>3 DEF Thinking
    <3> QED BY <1>0, <1>3, <2>3, <3>2, <3>4, PaidReply
  <2> QED BY <1>0, <2>2, <2>3, ActorPays
<1> QED BY <1>2, <1>3

LEMMA PaidStep ==
    ASSUME IInv, [Next]_vars, TypeOK', \A d \in Calls : Phases(d)', NEW e \in Calls
    PROVE  Paid(e)'
<1>0. TypeOK /\ Phases(e) /\ Paid(e)
  BY DEF IInv
<1>1. ASSUME NEW c \in Calls, NEW x \in Actors, Actor(c, x)
      PROVE  Paid(e)'
  BY <1>1, ActorPaid
<1>2. CASE /\ raised' = raised
           /\ \/ tokens' = tokens
              \/ tokens' = [tokens EXCEPT ![e] = raised[e].used]
              \/ \E c \in Calls \ {e}, n \in Nat : tokens' = [tokens EXCEPT ![c] = n]
           /\ \A x \in Actors : actor'[e][x] = "thinking" => actor[e][x] = "thinking"
  <2>1. tokens'[e] <= tokens[e] /\ raised'[e].used <= tokens'[e]
    BY <1>0, <1>2 DEF Paid, TypeOK
  <2>2. Thinking(e)' \subseteq Thinking(e)
    BY <1>2 DEF Thinking
  <2> QED BY <1>0, <2>1, <2>2, PaidKept
<1>3. ASSUME NEW c \in Calls, NEW who, Launch(c, who)
      PROVE  \A x \in Actors : actor'[e][x] = "thinking" => actor[e][x] = "thinking"
  BY <1>0, <1>3 DEF Launch, TypeOK
<1>4. ASSUME NEW c \in Calls, Handler(c)
      PROVE  Paid(e)'
  <2>1. raised' = raised
    BY <1>4 DEF Handler, Pause, ApprovalGranted, ApprovalRejected, ApprovalTimedOut, WaveDone,
                WaveRaised, AnswerFailure, PublishCompleted, Finish, graph
  <2>2. \/ tokens' = tokens
        \/ tokens' = [tokens EXCEPT ![c] = raised[c].used]
    BY <1>4 DEF Handler, Pause, ApprovalGranted, ApprovalRejected, ApprovalTimedOut, WaveDone,
                WaveRaised, AnswerFailure, PublishCompleted, Finish, task
  <2>3. actor' = actor \/ \E who : Launch(c, who)
    BY <1>4 DEF Handler, Pause, ApprovalGranted, ApprovalRejected, ApprovalTimedOut, WaveDone,
                WaveRaised, AnswerFailure, PublishCompleted, Finish, graph, BeginGraph
  <2>4. raised[c].used \in Nat
    BY <1>0 DEF TypeOK
  <2> QED BY <1>2, <1>3, <2>1, <2>2, <2>3, <2>4
<1>5. ASSUME NEW c \in Calls, NEW k \in Kinds, NEW g \in BOOLEAN, RunStrategy(c, k, g)
      PROVE  Paid(e)'
  <2>1. raised' = raised /\ tokens' = tokens
    BY <1>5 DEF RunStrategy
  <2>2. actor' = actor \/ \E who : Launch(c, who)
    BY <1>5 DEF RunStrategy, BeginGraph
  <2> QED BY <1>2, <1>3, <2>1, <2>2
<1>6. ASSUME NEW c \in Calls, ClientGone(c)
      PROVE  Paid(e)'
  <2>1. raised' = raised /\ tokens' = tokens
    BY <1>6 DEF ClientGone
  <2>2. \A x \in Actors : actor'[e][x] = "thinking" => actor[e][x] = "thinking"
    BY <1>0, <1>6 DEF ClientGone, TypeOK
  <2> QED BY <1>2, <2>1, <2>2
<1>7. CASE UNCHANGED <<tokens, raised, actor>>
  BY <1>2, <1>7
<1>8. ASSUME NEW c \in Calls, PublishFails(c)
      PROVE  UNCHANGED <<tokens, raised, actor>>
  BY <1>8 DEF PublishFails, graph, task
<1>9. CASE \/ \E c \in Calls : PublishCancelled(c)
           \/ RequestCancel \/ \E d \in {"approved", "rejected"} : ApproveDecision(d)
           \/ UNCHANGED vars
  BY <1>7, <1>9 DEF PublishCancelled, RequestCancel, ApproveDecision, graph, task, vars
<1> QED BY <1>1, <1>4, <1>5, <1>6, <1>7, <1>8, <1>9 DEF Next

-----------------------------------------------------------------------------
(* The theorems *)

LEMMA Initially == Init => IInv
<1> SUFFICES ASSUME Init PROVE IInv
  OBVIOUS
<1>1. TypeOK
  BY ConstantsAssumption DEF Init, TypeOK, ConstantsAssumption, Positions, Statuses, Codes,
                             Places, NoExc, NoAnswer, Excs, Stages, Strategies
<1>2. ASSUME NEW c \in Calls
      PROVE  Phases(c) /\ HasRounds(c) /\ Paid(c)
  <2>1. Phases(c) /\ HasRounds(c)
    BY DEF Init, Phases, HasRounds, Actors
  <2>2. tokens[c] = 0 /\ raised[c].used = 0 /\ Thinking(c) = {}
    BY DEF Init, NoExc, Thinking
  <2>3. Cardinality(Thinking(c)) = 0
    BY <2>2, FS_EmptySet
  <2>4. Fanout \in Nat /\ 0 * MaxUsage = 0 /\ Fanout * MaxUsage \in Nat
    <3>1. Thinking(c) = {x \in Actors : actor[c][x] = "thinking"}
      BY DEF Thinking
    <3>2. Fanout \in Nat
      BY <2>1, <3>1, WaveBound DEF Phases
    <3> QED BY <3>2, ConstantsAssumption DEF ConstantsAssumption
  <2>5. Paid(c)
    BY <2>2, <2>3, <2>4, ConstantsAssumption DEF Paid, ConstantsAssumption
  <2> QED BY <2>1, <2>5
<1> QED BY <1>1, <1>2 DEF IInv

LEMMA Inductive == IInv /\ [Next]_vars => IInv'
<1> SUFFICES ASSUME IInv, [Next]_vars PROVE IInv'
  OBVIOUS
<1>1. TypeOK'
  BY TypeStep
<1>2. \A c \in Calls : Phases(c)' /\ HasRounds(c)'
  BY PhaseStep
<1>3. \A c \in Calls : Paid(c)'
  BY <1>1, <1>2, PaidStep
<1> QED BY <1>1, <1>2, <1>3 DEF IInv

(* IInv is an invariant of the worker, whatever the plan and the budget.   *)
THEOREM Invariance == Spec => []IInv
BY Initially, Inductive, PTL DEF Spec

(* Type correctness: in particular rounds stays within MaxRounds, the      *)
(* max_rounds of run_llm_with_tools, for every agent and the lead.         *)
THEOREM TypeCorrect == Spec => []TypeOK
<1>1. IInv => TypeOK
  BY DEF IInv
<1> QED BY <1>1, Invariance, PTL

(* The agents of a wave check the budget before they ask the model and pay *)
(* after it replies: together they overshoot it by less than one reply     *)
(* each, and so does no sequence of waves, cancellations or failures.      *)
THEOREM Overshoot == Spec => []BoundedOvershoot
<1>1. IInv => BoundedOvershoot
  <2> SUFFICES ASSUME IInv, Budget > 0, NEW c \in Calls
               PROVE  tokens[c] <= Budget - 1 + Fanout * MaxUsage
    BY DEF BoundedOvershoot
  <2>1. Cardinality(Thinking(c)) \in Nat /\ Fanout \in Nat
    BY WaveBound DEF IInv, Phases, Thinking
  <2>2. Cardinality(Thinking(c)) * MaxUsage \in Nat /\ Fanout * MaxUsage \in Nat
    BY <2>1, ConstantsAssumption DEF ConstantsAssumption
  <2> QED BY <2>2, ConstantsAssumption DEF IInv, Paid, TypeOK, ConstantsAssumption
<1> QED BY <1>1, Invariance, PTL

-----------------------------------------------------------------------------
(***************************************************************************)
(* StrategyWorker implements StrategyRpc, for every plan, budget and       *)
(* number of overlapping calls, and never answers OK to a cancelled call.  *)
(*                                                                         *)
(* The response of a failed call is read off the task long after the       *)
(* exception was raised, while Cancel, approvals and other calls may write *)
(* to it: Lawful says what the task can have come to by then.              *)
(***************************************************************************)

Lawful(c) ==
    /\ approval[c] = "rejected" => cancelEvent[c]
    /\ raised[c].type = "InterruptedError" => cancelEvent[c]
    /\ code[c] = "CANCELLED" => cancelEvent[c]
    /\ pc[c] = "failing" => code[c] # "OK"
    /\ pc[c] \in {"idle", "pausing", "approval", "planned", "lead"} => raised[c] = NoExc
    /\ pc[c] = "lead" <=> Live(c, Lead)

LInv == \A c \in Calls : Lawful(c)

Inner == Positions \ {"idle", "answered", "aborted"}

-----------------------------------------------------------------------------
(* What a step can be to the orchestrator *)

(* The call goes on, unseen. *)
Inside(c) ==
    /\ pc[c] \in Inner
    /\ \E p \in Inner : pc' = [pc EXCEPT ![c] = p]
    /\ UNCHANGED <<registered, cancelEvent, answer>>

Opens(c) ==
    /\ pc[c] = "idle"
    /\ \E p \in Inner : pc' = [pc EXCEPT ![c] = p]
    /\ registered' = c
    /\ UNCHANGED <<cancelEvent, answer>>

Answers(c) ==
    /\ pc[c] \in Inner
    /\ \E cd \in Codes, used \in Nat : Respond(c, cd, used) /\ Rpc!Honest(c, cd)
    /\ UNCHANGED <<registered, cancelEvent>>

Aborts(c) ==
    /\ pc[c] \in Inner
    /\ pc' = [pc EXCEPT ![c] = "aborted"]
    /\ \E seen \in BOOLEAN :
          cancelEvent' = [cancelEvent EXCEPT ![c] = cancelEvent[c] \/ seen]
    /\ UNCHANGED <<registered, answer>>

Cancels ==
    /\ registered # NoCall
    /\ cancelEvent' = [cancelEvent EXCEPT ![registered] = TRUE]
    /\ UNCHANGED <<registered, pc, answer>>

Unseen == UNCHANGED <<registered, pc, cancelEvent, answer>>

Seen ==
    \/ \E c \in Calls : Inside(c) \/ Opens(c) \/ Answers(c) \/ Aborts(c)
    \/ Cancels
    \/ Unseen

LEMMA PhasesSeen ==
    /\ RpcPhase("idle") = "idle"
    /\ RpcPhase("answered") = "answered" /\ RpcPhase("aborted") = "aborted"
    /\ \A p \in Inner : RpcPhase(p) = "open"
BY DEF RpcPhase, Inner

(* Where the coroutine of one call moves, its phase does.                  *)
LEMMA PhaseMoves ==
    ASSUME TypeOK, NEW c \in Calls, NEW p, pc' = [pc EXCEPT ![c] = p]
    PROVE  /\ rpcPhase[c] = RpcPhase(pc[c])
           /\ rpcPhase' = [rpcPhase EXCEPT ![c] = RpcPhase(p)]
BY DEF TypeOK, rpcPhase

(* Each of these is a step of StrategyRpc, or none. *)
LEMMA SeenIsRpc ==
    ASSUME TypeOK, Seen
    PROVE  [Rpc!Next]_Rpc!vars
<1>1. ASSUME NEW c \in Calls, Inside(c) PROVE UNCHANGED Rpc!vars
  <2>1. PICK p \in Inner : pc' = [pc EXCEPT ![c] = p]
    BY <1>1 DEF Inside
  <2>2. rpcPhase[c] = RpcPhase(pc[c]) /\ rpcPhase' = [rpcPhase EXCEPT ![c] = RpcPhase(p)]
    BY <2>1, PhaseMoves
  <2>3. rpcPhase[c] = "open" /\ rpcPhase' = [rpcPhase EXCEPT ![c] = "open"]
    BY <1>1, <2>2, PhasesSeen DEF Inside
  <2>4. rpcPhase' = rpcPhase
    BY <2>3 DEF rpcPhase
  <2> QED BY <1>1, <2>4 DEF Inside, Rpc!vars, rpcAnswer
<1>2. ASSUME NEW c \in Calls, Opens(c) PROVE Rpc!Open(c)
  <2>1. PICK p \in Inner : pc' = [pc EXCEPT ![c] = p]
    BY <1>2 DEF Opens
  <2>2. rpcPhase[c] = RpcPhase(pc[c]) /\ rpcPhase' = [rpcPhase EXCEPT ![c] = RpcPhase(p)]
    BY <2>1, PhaseMoves
  <2>3. rpcPhase[c] = "idle" /\ rpcPhase' = [rpcPhase EXCEPT ![c] = "open"]
    BY <1>2, <2>2, PhasesSeen DEF Opens
  <2> QED BY <1>2, <2>3 DEF Opens, Rpc!Open, rpcAnswer
<1>3. ASSUME NEW c \in Calls, Answers(c) PROVE \E cd \in Codes : Rpc!Reply(c, cd)
  <2>1. PICK cd \in Codes, used \in Nat : Respond(c, cd, used) /\ Rpc!Honest(c, cd)
    BY <1>3 DEF Answers
  <2>2. pc' = [pc EXCEPT ![c] = "answered"]
        /\ answer' = [answer EXCEPT ![c] = [code |-> cd, tokens |-> used]]
    BY <2>1 DEF Respond
  <2>3. rpcPhase[c] = RpcPhase(pc[c])
        /\ rpcPhase' = [rpcPhase EXCEPT ![c] = RpcPhase("answered")]
    BY <2>2, PhaseMoves
  <2>4. rpcPhase[c] = "open" /\ rpcPhase' = [rpcPhase EXCEPT ![c] = "answered"]
    BY <1>3, <2>3, PhasesSeen DEF Answers
  <2>5. rpcAnswer' = [rpcAnswer EXCEPT ![c] = cd]
    BY <2>2 DEF rpcAnswer, TypeOK
  <2> QED BY <1>3, <2>1, <2>4, <2>5 DEF Answers, Rpc!Reply
<1>4. ASSUME NEW c \in Calls, Aborts(c) PROVE Rpc!Abandon(c)
  <2>1. rpcPhase[c] = RpcPhase(pc[c])
        /\ rpcPhase' = [rpcPhase EXCEPT ![c] = RpcPhase("aborted")]
    BY <1>4, PhaseMoves DEF Aborts
  <2>2. rpcPhase[c] = "open" /\ rpcPhase' = [rpcPhase EXCEPT ![c] = "aborted"]
    BY <1>4, <2>1, PhasesSeen DEF Aborts
  <2> QED BY <1>4, <2>2 DEF Aborts, Rpc!Abandon, rpcAnswer
<1>5. ASSUME Cancels PROVE Rpc!CancelHolder
  BY <1>5 DEF Cancels, Rpc!CancelHolder, rpcPhase, rpcAnswer
<1>6. ASSUME Unseen PROVE UNCHANGED Rpc!vars
  BY <1>6 DEF Unseen, Rpc!vars, rpcPhase, rpcAnswer
<1>7. Codes = Rpc!Codes
  BY DEF Codes, Rpc!Codes
<1> QED BY <1>1, <1>2, <1>3, <1>4, <1>5, <1>6, <1>7 DEF Seen, Rpc!Next

-----------------------------------------------------------------------------
(* What the task can have come to *)

RInv == IInv /\ LInv

(* A step that leaves the other calls alone is judged by its own call.     *)
LEMMA OthersLawful ==
    ASSUME LInv, NEW c \in Calls, Lawful(c)',
           \A d \in Calls \ {c} :
               /\ pc'[d] = pc[d] /\ raised'[d] = raised[d] /\ code'[d] = code[d]
               /\ approval'[d] = approval[d] /\ actor'[d] = actor[d]
               /\ cancelEvent'[d] = cancelEvent[d]
    PROVE  LInv'
BY DEF LInv, Lawful, Live

(* The except clauses answer a cancelled call CANCELLED, and leave any     *)
(* other with a failure to publish.                                        *)
LEMMA ExceptSeen ==
    ASSUME TypeOK, NEW c \in Calls, NEW exc, Except(c, exc), pc[c] \in Inner,
           tokens' \in [Calls -> Nat],
           exc.type = "InterruptedError" => cancelEvent[c]
    PROVE  /\ Inside(c) \/ Answers(c)
           /\ \E p \in {"answered", "failing"} : pc' = [pc EXCEPT ![c] = p]
           /\ \E cd \in Codes \ {"OK"} : /\ code' = [code EXCEPT ![c] = cd]
                                         /\ cd = "CANCELLED" => cancelEvent[c]
           /\ UNCHANGED <<registered, cancelEvent, approval>>
<1>1. UNCHANGED <<registered, cancelEvent, approval>>
  BY DEF Except
<1>2. CASE exc.type = "InterruptedError"
  <2>1. SetTask(c, "cancelled", "CANCELLED") /\ Respond(c, "CANCELLED", tokens'[c])
    BY <1>2 DEF Except
  <2>2. Answers(c)
    BY <1>1, <1>2, <2>1 DEF Answers, Codes, Rpc!Honest
  <2> QED BY <1>1, <1>2, <2>1, <2>2 DEF SetTask, Respond, Codes
<1>3. CASE exc.type # "InterruptedError"
  <2>1. /\ \E cd \in {"BUDGET_EXCEEDED", "STRATEGY_FAILED"} : SetTask(c, "failed", cd)
        /\ pc' = [pc EXCEPT ![c] = "failing"]
        /\ answer' = answer
    BY <1>3 DEF Except
  <2>2. Inside(c)
    BY <1>1, <2>1 DEF Inside, Inner, Positions
  <2> QED BY <1>1, <2>1, <2>2 DEF SetTask, Codes
<1> QED BY <1>2, <1>3

LEMMA RaiseLawful ==
    ASSUME RInv, NEW c \in Calls, NEW x \in Actors, NEW type \in Excs, NEW used \in Nat,
           Live(c, x), Raise(c, x, type, used),
           type = "InterruptedError" => cancelEvent[c]
    PROVE  Seen /\ LInv'
<1> DEFINE exc == [type |-> type, used |-> used]
<1>1. /\ actor' = [actor EXCEPT ![c][x] = "raised"] /\ tokens' = [tokens EXCEPT ![c] = used]
      /\ TypeOK /\ Lawful(c) /\ Phases(c)
  BY DEF Raise, RInv, IInv, LInv
<1>2. CASE x = Lead
  <2>1. Except(c, exc) /\ raised' = raised /\ pc[c] = "lead"
    BY <1>1, <1>2 DEF Raise, Lawful
  <2>2. tokens' \in [Calls -> Nat] /\ pc[c] \in Inner /\ exc.type = type
    BY <1>1, <2>1 DEF TypeOK, Inner, Positions
  <2> HIDE DEF exc
  <2>3. /\ Inside(c) \/ Answers(c)
        /\ \E p \in {"answered", "failing"} : pc' = [pc EXCEPT ![c] = p]
        /\ \E cd \in Codes \ {"OK"} : /\ code' = [code EXCEPT ![c] = cd]
                                      /\ cd = "CANCELLED" => cancelEvent[c]
        /\ UNCHANGED <<registered, cancelEvent, approval>>
    BY <1>1, <2>1, <2>2, ExceptSeen
  <2>4. Lawful(c)'
    BY <1>1, <1>2, <2>1, <2>3 DEF Lawful, Live, TypeOK, Actors
  <2>5. LInv'
    BY <1>1, <2>1, <2>3, <2>4, OthersLawful DEF RInv, TypeOK
  <2> QED BY <2>3, <2>5 DEF Seen
<1>3. CASE x # Lead
  <2>1. /\ raised' = [raised EXCEPT ![c] = exc] \/ raised' = raised
        /\ UNCHANGED <<registered, pc, code, cancelEvent, approval, answer>>
    BY <1>3 DEF Raise
  <2>2. x \in Agents /\ actor[c][x] \notin {"idle", "done"}
    BY <1>3 DEF Live, Actors
  <2>3. /\ actor[c][Lead] = "idle"
        /\ pc[c] \notin {"idle", "pausing", "approval", "planned", "lead"}
    <3>1. actor[c][Lead] = "idle"
      BY <1>1, <2>2 DEF Phases
    <3>2. pc[c] # "lead"
      BY <1>1, <3>1 DEF Lawful, Live
    <3>3. pc[c] \notin {"idle", "pausing", "approval"}
      BY <1>1, <2>2 DEF Phases
    <3>4. pc[c] # "planned"
      BY <1>1, <1>3, <2>2 DEF Phases, Lawful, Live
    <3> QED BY <3>1, <3>2, <3>3, <3>4
  <2>4. actor'[c][Lead] = actor[c][Lead]
    BY <1>1, <1>3 DEF TypeOK, Actors
  <2>5. raised'[c].type = "InterruptedError" => cancelEvent[c]
    <3>1. raised'[c] = exc \/ raised'[c] = raised[c]
      BY <1>1, <2>1 DEF TypeOK
    <3> QED BY <1>1, <3>1 DEF Lawful
  <2> HIDE DEF exc
  <2>6. Lawful(c)'
    BY <1>1, <2>1, <2>3, <2>4, <2>5 DEF Lawful, Live
  <2>7. LInv'
    BY <1>1, <2>1, <2>6, OthersLawful DEF RInv, TypeOK
  <2> QED BY <2>1, <2>7 DEF Seen, Unseen
<1> QED BY <1>2, <1>3

(* An actor that goes on is nobody's business. *)
LEMMA GoOnLawful ==
    ASSUME RInv, NEW c \in Calls, NEW x \in Actors, Live(c, x),
           NEW p \in {"starting", "thinking", "acting"},
           actor' = [actor EXCEPT ![c][x] = p],
           UNCHANGED <<registered, pc, raised, code, cancelEvent, approval, answer>>
    PROVE  Seen /\ LInv'
<1>1. TypeOK /\ Lawful(c)
  BY DEF RInv, IInv, LInv
<1>2. Live(c, Lead)' <=> Live(c, Lead)
  <2>1. actor \in [Calls -> [Actors -> Places]] /\ Lead \in Actors
    BY <1>1 DEF TypeOK, Actors
  <2>2. actor'[c][Lead] = IF x = Lead THEN p ELSE actor[c][Lead]
    BY <2>1
  <2> QED BY <2>2 DEF Live
<1>3. Lawful(c)'
  BY <1>1, <1>2 DEF Lawful
<1>4. LInv'
  BY <1>1, <1>3, OthersLawful DEF RInv, TypeOK
<1> QED BY <1>4 DEF Seen, Unseen

LEMMA RefuseLawful ==
    ASSUME RInv, NEW c \in Calls, NEW x \in Actors, Live(c, x), Refuse(c, x)
    PROVE  Seen /\ LInv'
<1>1. tokens[c] \in Nat
  BY DEF RInv, IInv, TypeOK
<1> QED BY <1>1, RaiseLawful DEF Refuse, Excs

LEMMA EndTurnLawful ==
    ASSUME RInv, NEW c \in Calls, NEW x \in Actors, NEW used \in Nat,
           Live(c, x), EndTurn(c, x, used)
    PROVE  Seen /\ LInv'
<1>1. CASE cancelEvent[c] /\ Raise(c, x, "InterruptedError", used)
  BY <1>1, RaiseLawful DEF Excs
<1>3. CASE /\ actor' = [actor EXCEPT ![c][x] = "starting"] /\ pc' = pc
           /\ UNCHANGED <<registered, raised, code, cancelEvent, approval, answer>>
  BY <1>3, GoOnLawful
<1>2. CASE /\ \/ /\ actor' = [actor EXCEPT ![c][x] = "done"]
                 /\ pc' = IF x = Lead THEN [pc EXCEPT ![c] = "output"] ELSE pc
              \/ /\ x = Lead
                 /\ actor' = [actor EXCEPT ![c][x] = "idle"]
                 /\ pc' = [pc EXCEPT ![c] = "planned"]
           /\ UNCHANGED <<registered, raised, code, cancelEvent, approval, answer>>
  <2>1. UNCHANGED <<registered, raised, code, cancelEvent, approval, answer>>
    BY <1>2
  <2>2. TypeOK /\ Lawful(c)
    BY DEF RInv, IInv, LInv
  <2>3. CASE x = Lead
    <3>1. pc[c] = "lead"
      BY <2>2, <2>3 DEF Lawful
    <3>5. PICK p \in {"output", "planned"}, a \in {"done", "idle"} :
             pc' = [pc EXCEPT ![c] = p] /\ actor' = [actor EXCEPT ![c][x] = a]
      BY <1>2, <2>3
    <3>6. /\ pc'[c] = p /\ actor'[c][Lead] = a
          /\ \A d \in Calls \ {c} : pc'[d] = pc[d] /\ actor'[d] = actor[d]
      <4>1. /\ actor \in [Calls -> [Actors -> Places]] /\ Lead \in Actors
            /\ pc \in [Calls -> Positions]
        BY <2>2 DEF TypeOK, Actors
      <4>2. pc'[c] = p /\ \A d \in Calls \ {c} : pc'[d] = pc[d]
        BY <3>5, <4>1
      <4>3. actor'[c][Lead] = a /\ \A d \in Calls \ {c} : actor'[d] = actor[d]
        BY <2>3, <3>5, <4>1
      <4> QED BY <4>2, <4>3
    <3>2. Lawful(c)'
      <4>1. ~Live(c, Lead)' /\ pc'[c] \notin {"idle", "pausing", "approval", "lead", "failing"}
        BY <3>6 DEF Live
      <4>2. raised[c] = NoExc
        BY <2>2, <3>1 DEF Lawful
      <4> QED BY <2>1, <2>2, <4>1, <4>2 DEF Lawful
    <3>3. LInv'
      BY <2>1, <3>2, <3>6, OthersLawful DEF RInv
    <3>4. Inside(c)
      BY <2>1, <3>1, <3>5 DEF Inside, Inner, Positions
    <3> QED BY <3>3, <3>4 DEF Seen
  <2>4. CASE x # Lead
    <3>1. /\ actor'[c][Lead] = actor[c][Lead] /\ pc' = pc
          /\ \A d \in Calls \ {c} : actor'[d] = actor[d]
      <4>1. actor \in [Calls -> [Actors -> Places]] /\ Lead \in Actors
        BY <2>2 DEF TypeOK, Actors
      <4>2. actor' = [actor EXCEPT ![c][x] = "done"] /\ pc' = pc
        BY <1>2, <2>4
      <4> QED BY <2>4, <4>1, <4>2
    <3>2. Lawful(c)'
      BY <2>1, <2>2, <3>1 DEF Lawful, Live
    <3>3. LInv'
      BY <2>1, <3>1, <3>2, OthersLawful DEF RInv
    <3> QED BY <2>1, <3>1, <3>3 DEF Seen, Unseen
  <2> QED BY <2>3, <2>4
<1> QED BY <1>1, <1>2, <1>3, EndTurnMoves

LEMMA ActorLawful ==
    ASSUME RInv, NEW c \in Calls, NEW x \in Actors, Actor(c, x)
    PROVE  Seen /\ LInv'
<1>0. Live(c, x) /\ tokens[c] \in Nat
  BY DEF Actor, StartAgent, CallModel, ModelReplies, StepFails, AnotherTool, ToolReturns, Live,
         RInv, IInv, TypeOK
<1>1. CASE StartAgent(c, x)
  <2>1. CASE Refuse(c, x)
    BY <1>0, <2>1, RefuseLawful
  <2>2. CASE ~Refuse(c, x)
    <3>1. /\ actor' = [actor EXCEPT ![c][x] = "starting"]
          /\ UNCHANGED <<registered, pc, raised, code, cancelEvent, approval, answer>>
      BY <1>1, <2>2 DEF StartAgent, task
    <3> QED BY <1>0, <3>1, GoOnLawful
  <2> QED BY <2>1, <2>2
<1>2. CASE CallModel(c, x)
  <2>1. CASE Refuse(c, x)
    BY <1>0, <2>1, RefuseLawful
  <2>2. CASE ~Refuse(c, x)
    <3>1. /\ actor' = [actor EXCEPT ![c][x] = "thinking"]
          /\ UNCHANGED <<registered, pc, raised, code, cancelEvent, approval, answer>>
      BY <1>2, <2>2 DEF CallModel, task
    <3> QED BY <1>0, <3>1, GoOnLawful
  <2> QED BY <2>1, <2>2
<1>3. ASSUME NEW n \in 0 .. MaxUsage, NEW more \in BOOLEAN, ModelReplies(c, x, n, more)
      PROVE  Seen /\ LInv'
  <2>1. tokens[c] + n \in Nat
    BY <1>0, ConstantsAssumption DEF ConstantsAssumption
  <2>2. CASE Raise(c, x, "BudgetExceeded", tokens[c] + n)
    BY <1>0, <2>1, <2>2, RaiseLawful DEF Excs
  <2>3. CASE EndTurn(c, x, tokens[c] + n)
    BY <1>0, <2>1, <2>3, EndTurnLawful
  <2>4. CASE cancelEvent[c] /\ Raise(c, x, "InterruptedError", tokens[c] + n)
    BY <1>0, <2>1, <2>4, RaiseLawful DEF Excs
  <2>5. CASE /\ actor' = [actor EXCEPT ![c][x] = "acting"]
             /\ UNCHANGED <<registered, pc, raised, code, cancelEvent, approval, answer>>
    BY <1>0, <2>5, GoOnLawful
  <2> QED BY <1>3, <2>2, <2>3, <2>4, <2>5 DEF ModelReplies
<1>4. CASE StepFails(c, x) \/ AnotherTool(c, x)
  BY <1>0, <1>4, RaiseLawful DEF StepFails, AnotherTool, Excs
<1>5. CASE ToolReturns(c, x)
  <2>1. CASE EndTurn(c, x, tokens[c])
    BY <1>0, <2>1, EndTurnLawful
  <2>2. CASE ~EndTurn(c, x, tokens[c])
    <3>1. /\ actor' = [actor EXCEPT ![c][x] = "starting"]
          /\ UNCHANGED <<registered, pc, raised, code, cancelEvent, approval, answer>>
      BY <1>5, <2>2 DEF ToolReturns, task
    <3> QED BY <1>0, <3>1, GoOnLawful
  <2> QED BY <2>1, <2>2
<1> QED BY <1>1, <1>2, <1>3, <1>4, <1>5 DEF Actor

-----------------------------------------------------------------------------
(* A task whose graph begins: the lead's turn, or a plan. *)
LEMMA BeginLawful ==
    ASSUME TypeOK, NEW c \in Calls, BeginGraph(c), \A x \in Actors : actor[c][x] = "idle"
    PROVE  /\ \E p \in {"lead", "planned"} : pc' = [pc EXCEPT ![c] = p]
           /\ pc'[c] = "lead" <=> Live(c, Lead)'
           /\ \A d \in Calls \ {c} : actor'[d] = actor[d]
<1>1. CASE pc' = [pc EXCEPT ![c] = "lead"] /\ Launch(c, {Lead})
  BY <1>1 DEF Launch, TypeOK, Actors, Live
<1>2. CASE pc' = [pc EXCEPT ![c] = "planned"] /\ UNCHANGED actor
  BY <1>2 DEF TypeOK, Actors, Live
<1> QED BY <1>1, <1>2 DEF BeginGraph

LEMMA HandlerLawful ==
    ASSUME RInv, TypeOK', NEW c \in Calls, Handler(c)
    PROVE  Seen /\ LInv'
<1>0. TypeOK /\ Lawful(c) /\ Phases(c) /\ tokens[c] \in Nat /\ code[c] \in Codes
  BY DEF RInv, IInv, LInv, TypeOK
<1>1. CASE Pause(c)
  <2>1. /\ pc[c] = "pausing" /\ pc' = [pc EXCEPT ![c] = "approval"]
        /\ UNCHANGED <<registered, actor, raised, code, cancelEvent, approval, answer>>
    BY <1>1 DEF Pause, task, graph
  <2>2. Lawful(c)' /\ Inside(c)
    BY <1>0, <2>1 DEF Lawful, Live, TypeOK, Inside, Inner, Positions
  <2>3. LInv'
    BY <1>0, <2>1, <2>2, OthersLawful DEF RInv, TypeOK
  <2> QED BY <2>2, <2>3 DEF Seen
<1>2. CASE ApprovalGranted(c)
  <2>1. /\ pc[c] = "approval" /\ BeginGraph(c)
        /\ UNCHANGED <<registered, raised, code, cancelEvent, approval, answer>>
    BY <1>2 DEF ApprovalGranted
  <2>2. /\ \E p \in {"lead", "planned"} : pc' = [pc EXCEPT ![c] = p]
        /\ pc'[c] = "lead" <=> Live(c, Lead)'
        /\ \A d \in Calls \ {c} : actor'[d] = actor[d]
    BY <1>0, <2>1, BeginLawful DEF Phases
  <2>3. Lawful(c)' /\ Inside(c)
    BY <1>0, <2>1, <2>2 DEF Lawful, TypeOK, Inside, Inner, Positions
  <2>4. LInv'
    BY <1>0, <2>1, <2>2, <2>3, OthersLawful DEF RInv, TypeOK
  <2> QED BY <2>3, <2>4 DEF Seen
<1>3. CASE ApprovalRejected(c)
  <2>1. /\ pc[c] = "approval" /\ approval[c] = "rejected"
        /\ code' = [code EXCEPT ![c] = "CANCELLED"]
        /\ Respond(c, "CANCELLED", tokens[c])
        /\ UNCHANGED <<registered, actor, raised, cancelEvent, approval>>
    BY <1>3 DEF ApprovalRejected, SetTask, graph
  <2>2. cancelEvent[c]
    BY <1>0, <2>1 DEF Lawful
  <2>3. Lawful(c)' /\ Answers(c)
    <3>1. pc' = [pc EXCEPT ![c] = "answered"]
      BY <2>1 DEF Respond
    <3>2. Lawful(c)'
      BY <1>0, <2>1, <2>2, <3>1 DEF Lawful, Live, TypeOK
    <3>3. Answers(c)
      BY <1>0, <2>1, <2>2 DEF Answers, Inner, Positions, Codes, Rpc!Honest
    <3> QED BY <3>2, <3>3
  <2>4. LInv'
    BY <1>0, <2>1, <2>3, OthersLawful DEF RInv, TypeOK, Respond
  <2> QED BY <2>3, <2>4 DEF Seen
<1>4. CASE ApprovalTimedOut(c)
  <2>1. /\ pc[c] = "approval"
        /\ code' = [code EXCEPT ![c] = "TIMEOUT"]
        /\ Respond(c, "TIMEOUT", tokens[c])
        /\ UNCHANGED <<registered, actor, raised, cancelEvent, approval>>
    BY <1>4 DEF ApprovalTimedOut, SetTask, graph
  <2>2. Lawful(c)'
    BY <1>0, <2>1 DEF Lawful, Live, Respond, TypeOK
  <2>3. Answers(c)
    BY <1>0, <2>1 DEF Answers, Inner, Positions, Codes, Rpc!Honest
  <2>4. LInv'
    BY <1>0, <2>1, <2>2, OthersLawful DEF RInv, TypeOK, Respond
  <2> QED BY <2>3, <2>4 DEF Seen
<1>5. CASE WaveDone(c)
  <2>1. /\ pc[c] \in {"planned", "agents"} /\ raised[c] = NoExc
        /\ UNCHANGED <<registered, raised, code, cancelEvent, approval, answer>>
    BY <1>5 DEF WaveDone, task
  <2>2. \/ pc' = [pc EXCEPT ![c] = "lead"] /\ Launch(c, {Lead})
        \/ /\ pc' = [pc EXCEPT ![c] = "agents"]
           /\ Agents \ DoneAgents(c) # {}
           /\ \E W \in Waves(kind[c], DoneAgents(c)) : Launch(c, W)
    BY <1>5 DEF WaveDone, WavesOver, DoneAgents
  <2>3. /\ \E p \in {"lead", "agents"} : pc' = [pc EXCEPT ![c] = p]
        /\ pc'[c] = "lead" <=> Live(c, Lead)'
        /\ \A d \in Calls \ {c} : actor'[d] = actor[d]
    <3>1. CASE pc' = [pc EXCEPT ![c] = "lead"] /\ Launch(c, {Lead})
      BY <1>0, <3>1 DEF Launch, TypeOK, Actors, Live
    <3>2. CASE /\ pc' = [pc EXCEPT ![c] = "agents"]
               /\ Agents \ DoneAgents(c) # {}
               /\ \E W \in Waves(kind[c], DoneAgents(c)) : Launch(c, W)
      <4>5. PICK W \in Waves(kind[c], DoneAgents(c)) : Launch(c, W)
        BY <3>2
      <4>1. Lead \notin W
        BY <3>2, <4>5, WavesAreOfAgents, ConstantsAssumption DEF ConstantsAssumption
      <4>2. actor[c][Lead] = "idle"
        BY <1>0, <2>1 DEF Phases
      <4>3. pc' = [pc EXCEPT ![c] = "agents"] /\ pc'[c] # "lead"
        BY <1>0, <2>1, <3>2 DEF TypeOK
      <4>4. /\ actor'[c][Lead] = "idle"
            /\ \A d \in Calls \ {c} : actor'[d] = actor[d]
        BY <1>0, <4>5, <4>1, <4>2 DEF Launch, TypeOK, Actors
      <4> QED BY <4>3, <4>4 DEF Live
    <3> QED BY <2>2, <3>1, <3>2
  <2>4. Lawful(c)' /\ Inside(c)
    BY <1>0, <2>1, <2>3 DEF Lawful, TypeOK, Inside, Inner, Positions
  <2>5. LInv'
    BY <1>0, <2>1, <2>3, <2>4, OthersLawful DEF RInv, TypeOK
  <2> QED BY <2>4, <2>5 DEF Seen
<1>6. CASE WaveRaised(c)
  <2>1. /\ pc[c] = "agents" /\ Except(c, raised[c]) /\ UNCHANGED <<actor, raised>>
        /\ raised[c].type = "InterruptedError" => cancelEvent[c]
        /\ actor[c][Lead] = "idle"
    BY <1>0, <1>6 DEF WaveRaised, Lawful, Phases, graph
  <2>2. pc[c] \in Inner /\ tokens' \in [Calls -> Nat]
    BY <2>1 DEF Inner, Positions, TypeOK
  <2>3. /\ Inside(c) \/ Answers(c)
        /\ \E p \in {"answered", "failing"} : pc' = [pc EXCEPT ![c] = p]
        /\ \E cd \in Codes \ {"OK"} : /\ code' = [code EXCEPT ![c] = cd]
                                      /\ cd = "CANCELLED" => cancelEvent[c]
        /\ UNCHANGED <<registered, cancelEvent, approval>>
    BY <1>0, <2>1, <2>2, ExceptSeen
  <2>4. Lawful(c)'
    BY <1>0, <2>1, <2>3 DEF Lawful, Live, TypeOK
  <2>5. LInv'
    BY <1>0, <2>1, <2>3, <2>4, OthersLawful DEF RInv, TypeOK
  <2> QED BY <2>3, <2>5 DEF Seen
<1>7. CASE AnswerFailure(c)
  <2>1. /\ pc[c] = "failing" /\ Respond(c, code[c], tokens[c])
        /\ UNCHANGED <<registered, actor, raised, code, cancelEvent, approval>>
    BY <1>7 DEF AnswerFailure, task, graph
  <2>2. code[c] # "OK" /\ (code[c] = "CANCELLED" => cancelEvent[c])
    BY <1>0, <2>1 DEF Lawful
  <2>3. Lawful(c)' /\ Answers(c)
    BY <1>0, <2>1, <2>2 DEF Lawful, Live, Respond, TypeOK, Answers, Inner, Positions, Rpc!Honest
  <2>4. LInv'
    BY <1>0, <2>1, <2>3, OthersLawful DEF RInv, TypeOK, Respond
  <2> QED BY <2>3, <2>4 DEF Seen
<1>8. CASE PublishCompleted(c)
  <2>1. /\ pc[c] = "output" /\ pc' = [pc EXCEPT ![c] = "completed"]
        /\ UNCHANGED <<registered, actor, raised, code, cancelEvent, approval, answer>>
    BY <1>8 DEF PublishCompleted, task, graph
  <2>2. Lawful(c)' /\ Inside(c)
    BY <1>0, <2>1 DEF Lawful, Live, TypeOK, Inside, Inner, Positions
  <2>3. LInv'
    BY <1>0, <2>1, <2>2, OthersLawful DEF RInv, TypeOK
  <2> QED BY <2>2, <2>3 DEF Seen
<1>9. CASE Finish(c)
  <2>1. PICK cd \in {"CANCELLED", "OK"} :
           /\ cd = "CANCELLED" <=> cancelEvent[c]
           /\ code' = [code EXCEPT ![c] = cd] /\ Respond(c, cd, tokens[c])
    BY <1>9 DEF Finish, SetTask
  <2>2. /\ pc[c] = "completed"
        /\ UNCHANGED <<registered, actor, raised, cancelEvent, approval>>
    BY <1>9 DEF Finish, graph
  <2>3. pc' = [pc EXCEPT ![c] = "answered"]
    BY <2>1 DEF Respond
  <2>4. Lawful(c)'
    BY <1>0, <2>1, <2>2, <2>3 DEF Lawful, Live, TypeOK
  <2>5. Rpc!Honest(c, cd) /\ cd \in Codes
    BY <2>1 DEF Rpc!Honest, Codes
  <2>6. Answers(c)
    BY <1>0, <2>1, <2>2, <2>5 DEF Answers, Inner, Positions
  <2>7. LInv'
    BY <1>0, <2>1, <2>2, <2>3, <2>4, OthersLawful DEF RInv, TypeOK
  <2> QED BY <2>6, <2>7 DEF Seen
<1> QED BY <1>1, <1>2, <1>3, <1>4, <1>5, <1>6, <1>7, <1>8, <1>9 DEF Handler

(* The RPCs that arrive, a publish that fails, and a client that goes.     *)
LEMMA RpcLawful ==
    ASSUME RInv, TypeOK', NEW c \in Calls,
           \/ \E k \in Kinds, g \in BOOLEAN : RunStrategy(c, k, g)
           \/ PublishFails(c) \/ ClientGone(c) \/ PublishCancelled(c)
    PROVE  Seen /\ LInv'
<1>0. TypeOK /\ Lawful(c) /\ Phases(c)
  BY DEF RInv, IInv, LInv
<1>1. ASSUME NEW k \in Kinds, NEW g \in BOOLEAN, RunStrategy(c, k, g)
      PROVE  Seen /\ LInv'
  <2>1. /\ pc[c] = "idle" /\ registered' = c
        /\ UNCHANGED <<raised, code, cancelEvent, approval, answer>>
    BY <1>1 DEF RunStrategy, Register
  <2>2. /\ \E p \in {"pausing", "lead", "planned"} : pc' = [pc EXCEPT ![c] = p]
        /\ pc'[c] = "lead" <=> Live(c, Lead)'
        /\ \A d \in Calls \ {c} : actor'[d] = actor[d]
    <3>1. CASE g
      <4>1. pc' = [pc EXCEPT ![c] = "pausing"] /\ actor' = actor
        BY <1>1, <3>1 DEF RunStrategy
      <4>2. actor[c][Lead] = "idle" /\ pc'[c] = "pausing"
        BY <1>0, <2>1, <4>1 DEF Phases, Actors, TypeOK
      <4> QED BY <4>1, <4>2 DEF Live
    <3>2. CASE ~g
      <4>1. BeginGraph(c)
        BY <1>1, <3>2 DEF RunStrategy
      <4> QED BY <1>0, <2>1, <4>1, BeginLawful DEF Phases
    <3> QED BY <3>1, <3>2
  <2>3. Lawful(c)'
    BY <1>0, <2>1, <2>2 DEF Lawful, TypeOK
  <2>4. Opens(c)
    BY <2>1, <2>2 DEF Opens, Inner, Positions
  <2>5. LInv'
    BY <1>0, <2>1, <2>2, <2>3, OthersLawful DEF RInv, TypeOK
  <2> QED BY <2>4, <2>5 DEF Seen
<1>2. CASE PublishFails(c)
  <2>1. CASE /\ pc[c] \in {"planned", "output", "completed"}
             /\ UNCHANGED <<tokens, graph>>
             /\ Except(c, [type |-> "Exception", used |-> 0])
    <3>1. pc[c] \in Inner /\ tokens' \in [Calls -> Nat] /\ UNCHANGED <<actor, raised>>
      BY <1>0, <2>1 DEF Inner, Positions, TypeOK, graph
    <3>2. /\ Inside(c) \/ Answers(c)
          /\ \E p \in {"answered", "failing"} : pc' = [pc EXCEPT ![c] = p]
          /\ \E cd \in Codes \ {"OK"} : /\ code' = [code EXCEPT ![c] = cd]
                                        /\ cd = "CANCELLED" => cancelEvent[c]
          /\ UNCHANGED <<registered, cancelEvent, approval>>
      BY <1>0, <2>1, <3>1, ExceptSeen
    <3>3. Lawful(c)'
      BY <1>0, <2>1, <3>1, <3>2 DEF Lawful, Live, TypeOK
    <3>4. LInv'
      BY <1>0, <3>1, <3>2, <3>3, OthersLawful DEF RInv, TypeOK
    <3> QED BY <3>2, <3>4 DEF Seen
  <2>2. CASE /\ pc[c] \in {"pausing", "failing"}
             /\ Respond(c, "UNKNOWN", 0)
             /\ UNCHANGED <<registered, task, graph, rpc, stream>>
    <3>1. UNCHANGED <<registered, actor, raised, code, cancelEvent, approval>>
      BY <2>2 DEF task, graph
    <3>2. Lawful(c)'
      BY <1>0, <2>2, <3>1 DEF Lawful, Live, Respond, TypeOK
    <3>3. Answers(c)
      BY <2>2, <3>1 DEF Answers, Inner, Positions, Codes, Rpc!Honest
    <3>4. LInv'
      BY <1>0, <2>2, <3>1, <3>2, OthersLawful DEF RInv, TypeOK, Respond
    <3> QED BY <3>3, <3>4 DEF Seen
  <2> QED BY <1>2, <2>1, <2>2 DEF PublishFails
<1>3. CASE ClientGone(c)
  <2>1. /\ pc[c] \in Inner /\ pc' = [pc EXCEPT ![c] = "aborted"]
        /\ \E seen \in BOOLEAN :
              cancelEvent' = [cancelEvent EXCEPT ![c] = cancelEvent[c] \/ seen]
        /\ UNCHANGED <<registered, raised, code, approval, answer>>
    BY <1>0, <1>3 DEF ClientGone, Inner, TypeOK
  <2>2. /\ \A d \in Calls \ {c} : actor'[d] = actor[d]
        /\ raised[c] = NoExc =>
              actor'[c][Lead] = IF Live(c, Lead) THEN "raised" ELSE actor[c][Lead]
        /\ raised[c] # NoExc => actor' = actor
    BY <1>0, <1>3 DEF ClientGone, TypeOK, Actors
  <2>3. ~Live(c, Lead)'
    BY <1>0, <2>2 DEF Lawful, Live
  <2>4. Lawful(c)'
    BY <1>0, <2>1, <2>3 DEF Lawful, TypeOK
  <2>5. Aborts(c)
    BY <2>1 DEF Aborts
  <2>6. LInv'
    BY <1>0, <2>1, <2>2, <2>4, OthersLawful DEF RInv, TypeOK
  <2> QED BY <2>5, <2>6 DEF Seen
<1>4. CASE PublishCancelled(c)
  <2>1. UNCHANGED <<registered, pc, actor, raised, code, cancelEvent, approval, answer>>
    BY <1>4 DEF PublishCancelled, task, graph
  <2> QED BY <2>1 DEF Seen, Unseen, RInv, LInv, Lawful, Live
<1> QED BY <1>1, <1>2, <1>3, <1>4

(* What Cancel and a decision do to the task the registry holds.           *)
LEMMA HolderLawful ==
    ASSUME RInv, RequestCancel \/ \E d \in {"approved", "rejected"} : ApproveDecision(d)
    PROVE  Seen /\ LInv'
<1> DEFINE h == registered
<1>0. TypeOK /\ h \in Calls /\ h # NoCall
  BY DEF RInv, IInv, TypeOK, RequestCancel, ApproveDecision
<1>1. Lawful(h)
  BY <1>0 DEF RInv, LInv
<1>2. UNCHANGED <<registered, pc, actor, raised, answer>>
  BY DEF RequestCancel, ApproveDecision, graph
<1>3. CASE RequestCancel
  <2>1. /\ cancelEvent' = [cancelEvent EXCEPT ![h] = TRUE]
        /\ code' = [code EXCEPT ![h] = "CANCELLED"] \/ code' = code
        /\ approval' = approval
    BY <1>3 DEF RequestCancel, SetTask
  <2>2. Lawful(h)'
    BY <1>0, <1>1, <1>2, <2>1 DEF Lawful, Live, TypeOK
  <2>3. \A d \in Calls \ {h} : Lawful(d)'
    BY <1>0, <1>2, <2>1 DEF Lawful, Live, TypeOK, RInv, LInv
  <2> QED BY <1>0, <1>2, <2>1, <2>2, <2>3 DEF LInv, Seen, Cancels
<1>4. ASSUME NEW d \in {"approved", "rejected"}, ApproveDecision(d)
      PROVE  Seen /\ LInv'
  <2>1. approval' = [approval EXCEPT ![h] = d]
    BY <1>4 DEF ApproveDecision
  <2>2. CASE d = "approved"
    <3>1. UNCHANGED <<code, cancelEvent>>
      BY <1>4, <2>2 DEF ApproveDecision
    <3>2. \A x \in Calls : Lawful(x)'
      BY <1>0, <1>2, <2>1, <2>2, <3>1 DEF Lawful, Live, TypeOK, RInv, LInv
    <3> QED BY <1>2, <3>1, <3>2 DEF LInv, Seen, Unseen
  <2>3. CASE d = "rejected"
    <3>1. /\ cancelEvent' = [cancelEvent EXCEPT ![h] = TRUE]
          /\ code' = [code EXCEPT ![h] = "CANCELLED"]
      BY <1>4, <2>3 DEF ApproveDecision, SetTask
    <3>2. Lawful(h)'
      BY <1>0, <1>1, <1>2, <2>1, <3>1 DEF Lawful, Live, TypeOK
    <3>3. \A x \in Calls \ {h} : Lawful(x)'
      BY <1>0, <1>2, <2>1, <3>1 DEF Lawful, Live, TypeOK, RInv, LInv
    <3> QED BY <1>0, <1>2, <3>1, <3>2, <3>3 DEF LInv, Seen, Cancels
  <2> QED BY <2>2, <2>3
<1> QED BY <1>3, <1>4

LEMMA StepLawful ==
    ASSUME RInv, [Next]_vars
    PROVE  Seen /\ RInv'
<1>1. IInv' /\ TypeOK'
  BY Inductive DEF RInv, IInv
<1>2. CASE UNCHANGED vars
  <2>1. UNCHANGED <<registered, pc, actor, raised, code, cancelEvent, approval, answer>>
    BY <1>2 DEF vars, task, graph
  <2>2. LInv'
    BY <2>1 DEF RInv, LInv, Lawful, Live
  <2> QED BY <1>1, <2>1, <2>2 DEF Seen, Unseen, RInv
<1>3. CASE Next
  <2> SUFFICES Seen /\ LInv'
    BY <1>1 DEF RInv
  <2>1. ASSUME NEW c \in Calls, Handler(c) PROVE Seen /\ LInv'
    BY <1>1, <2>1, HandlerLawful
  <2>2. ASSUME NEW c \in Calls, NEW x \in Actors, Actor(c, x) PROVE Seen /\ LInv'
    BY <2>2, ActorLawful
  <2>3. ASSUME NEW c \in Calls,
               \/ \E k \in Kinds, g \in BOOLEAN : RunStrategy(c, k, g)
               \/ PublishFails(c) \/ ClientGone(c) \/ PublishCancelled(c)
        PROVE  Seen /\ LInv'
    BY <1>1, <2>3, RpcLawful
  <2>4. CASE RequestCancel \/ \E d \in {"approved", "rejected"} : ApproveDecision(d)
    BY <2>4, HolderLawful
  <2>5. CASE \E c \in Calls, k \in Kinds, g \in BOOLEAN : RunStrategy(c, k, g)
    BY <2>3, <2>5
  <2>6. CASE \E c \in Calls : Handler(c) \/ PublishFails(c) \/ ClientGone(c)
                               \/ PublishCancelled(c)
    BY <2>1, <2>3, <2>6
  <2>7. CASE \E c \in Calls, x \in Actors : Actor(c, x)
    BY <2>2, <2>7
  <2> QED BY <1>3, <2>4, <2>5, <2>6, <2>7 DEF Next
<1> QED BY <1>2, <1>3

LEMMA InitLawful == Init => RInv /\ Rpc!Init
<1> SUFFICES ASSUME Init PROVE RInv /\ Rpc!Init
  OBVIOUS
<1>1. IInv
  BY Initially
<1>2. LInv
  BY DEF Init, LInv, Lawful, Live, NoExc, Actors
<1>3. Rpc!Init
  BY DEF Init, Rpc!Init, rpcPhase, RpcPhase, rpcAnswer, NoAnswer, Rpc!NoAnswer
<1> QED BY <1>1, <1>2, <1>3 DEF RInv

-----------------------------------------------------------------------------
(* The worker implements StrategyRpc: whatever plan runs inside, success   *)
(* is answered to a call nobody cancelled, CANCELLED to one somebody did,  *)
(* each call is answered once, and a cancellation reaches the call that    *)
(* holds the registry entry and no other.                                  *)
THEOREM Refinement == Spec => RpcSpec
<1>1. RInv /\ [Next]_vars => [Rpc!Next]_Rpc!vars
  <2> SUFFICES ASSUME RInv, [Next]_vars PROVE [Rpc!Next]_Rpc!vars
    OBVIOUS
  <2>1. TypeOK /\ Seen
    BY StepLawful DEF RInv, IInv
  <2> QED BY <2>1, SeenIsRpc
<1>2. RInv /\ [Next]_vars => RInv'
  BY StepLawful
<1> QED BY InitLawful, <1>1, <1>2, PTL DEF Spec, RpcSpec, Rpc!Spec

-----------------------------------------------------------------------------
(***************************************************************************)
(* A call answered OK left nothing behind: OkIsFinal, for every plan,      *)
(* budget and number of overlapping calls.                                 *)
(*                                                                         *)
(* The lead is alone when it ends its turn, and a lead that waits for a    *)
(* tool is under its budget still: nobody else pays tokens meanwhile.      *)
(* And a lead begins to write the answer of a dag or of a swarm only when  *)
(* the waves are over, which nothing undoes while it writes.               *)
(***************************************************************************)

Settled(c) == \A x \in Actors : actor[c][x] \in {"idle", "done"}

Published(c) == \E i \in DOMAIN stream : stream[i] = [type |-> "COMPLETED", call |-> c]

Final(c) ==
    /\ actor[c][Lead] = "acting" => ~OverBudget(tokens[c])
    /\ pc[c] \in {"output", "completed"} => Settled(c) /\ ~OverBudget(tokens[c])
    /\ pc[c] = "completed" => Published(c)
    /\ answer[c].code = "OK" =>
           /\ pc[c] = "answered" /\ Settled(c) /\ Published(c)
           /\ answer[c].tokens = tokens[c] /\ ~OverBudget(tokens[c])

(* The waves are over before the answer is written: where the lead is on   *)
(* its last turn, and from then on.                                        *)
Explored(c) == FansOut(c) => WavesOver(c)

Covers(c) ==
    /\ pc[c] \in {"pausing", "approval"} /\ kind[c] = "swarm" => stage[c] = "plan"
    /\ pc[c] = "lead" /\ stage[c] = "final" => Explored(c)
    /\ pc[c] \in {"output", "completed"} => Explored(c)
    /\ answer[c].code = "OK" => Explored(c)

FInv == \A c \in Calls : Final(c) /\ Covers(c)

Inv == RInv /\ FInv

-----------------------------------------------------------------------------
(* Nothing is taken out of the stream. *)
LEMMA StreamGrows ==
    ASSUME TypeOK, [Next]_vars, NEW c \in Calls, Published(c)
    PROVE  Published(c)'
<1>1. \/ stream' = stream
      \/ \E e \in [type : {"COMPLETED", "FAILED"}, call : Calls] : stream' = Append(stream, e)
  <2>1. CASE UNCHANGED vars
    BY <2>1 DEF vars
  <2>2. ASSUME NEW d \in Calls, NEW x \in Actors, Actor(d, x) PROVE stream' = stream
    BY <2>2 DEF Actor, StartAgent, CallModel, ModelReplies, StepFails, AnotherTool, ToolReturns,
                EndTurn, Refuse, Raise, Except
  <2>3. ASSUME NEW d \in Calls, Handler(d)
        PROVE  \/ stream' = stream
               \/ stream' = Append(stream, [type |-> "FAILED", call |-> d])
               \/ stream' = Append(stream, [type |-> "COMPLETED", call |-> d])
    BY <2>3 DEF Handler, Pause, ApprovalGranted, ApprovalRejected, ApprovalTimedOut,
                WaveDone, WaveRaised, AnswerFailure, PublishCompleted, Finish, Except
  <2>4. ASSUME NEW d \in Calls, PublishFails(d) \/ ClientGone(d) \/ PublishCancelled(d)
        PROVE  \/ stream' = stream
               \/ stream' = Append(stream, [type |-> "FAILED", call |-> d])
    BY <2>4 DEF PublishFails, ClientGone, PublishCancelled, Except
  <2>5. CASE \/ \E d \in Calls, k \in Kinds, g \in BOOLEAN : RunStrategy(d, k, g)
             \/ RequestCancel \/ \E d \in {"approved", "rejected"} : ApproveDecision(d)
    BY <2>5 DEF RunStrategy, RequestCancel, ApproveDecision
  <2> QED BY <2>1, <2>2, <2>3, <2>4, <2>5 DEF Next
<1>2. PICK i \in DOMAIN stream : stream[i] = [type |-> "COMPLETED", call |-> c]
  BY DEF Published
<1>3. i \in DOMAIN stream' /\ stream'[i] = stream[i]
  <2> DEFINE Entries == [type : {"COMPLETED", "FAILED"}, call : Calls]
  <2>1. stream \in Seq(Entries)
    BY DEF TypeOK
  <2>2. ASSUME NEW e \in Entries, stream' = Append(stream, e)
        PROVE  i \in DOMAIN stream' /\ stream'[i] = stream[i]
    <3> HIDE DEF Entries
    <3> QED BY <1>2, <2>1, <2>2
  <2> QED BY <1>1, <1>2, <2>2
<1> QED BY <1>2, <1>3 DEF Published

(* A step that leaves the rest of a call alone keeps it final. *)
LEMMA OthersFinal ==
    ASSUME TypeOK, [Next]_vars, NEW c \in Calls, Final(c),
           pc'[c] = pc[c], actor'[c] = actor[c], tokens'[c] = tokens[c],
           answer'[c] = answer[c]
    PROVE  Final(c)'
<1>1. Published(c) => Published(c)'
  BY StreamGrows
<1> QED BY <1>1 DEF Final, Settled, OverBudget

(* So does one that neither ends the strategy nor answers OK. *)
LEMMA ElsewhereFinal ==
    ASSUME NEW c \in Calls, Final(c), pc'[c] \notin {"output", "completed"},
           answer'[c].code # "OK",
           actor'[c][Lead] = "acting" => actor[c][Lead] = "acting" /\ tokens'[c] = tokens[c]
    PROVE  Final(c)'
BY DEF Final, OverBudget

(* The lead's turn ends under the budget and beside nobody. *)
LEMMA LeadDone ==
    ASSUME TypeOK, NEW c \in Calls, Phases(c), Live(c, Lead), NEW used,
           ~OverBudget(used), answer[c].code # "OK",
           actor' = [actor EXCEPT ![c][Lead] = "done"],
           tokens' = [tokens EXCEPT ![c] = used],
           pc' = [pc EXCEPT ![c] = "output"], answer' = answer
    PROVE  Final(c)'
<1>1. Settled(c)'
  BY DEF Settled, TypeOK, Phases, Live, Actors
<1>2. tokens'[c] = used /\ pc'[c] = "output" /\ actor'[c][Lead] = "done"
  BY DEF TypeOK, Actors
<1> QED BY <1>1, <1>2 DEF Final, OverBudget

-----------------------------------------------------------------------------
(* The actors *)

Unfinished(c) ==
    /\ TypeOK /\ Phases(c) /\ Final(c)
    /\ answer[c].code # "OK" /\ pc[c] \notin {"output", "completed"}

(* The lead has not begun while another actor is at work. *)
LEMMA LeadIdle ==
    ASSUME NEW c \in Calls, Unfinished(c), NEW x \in Actors \ {Lead}, Live(c, x),
           NEW p, actor' = [actor EXCEPT ![c][x] = p]
    PROVE  actor'[c][Lead] = "idle"
<1>1. x \in Agents /\ actor[c][x] \notin {"idle", "done"} /\ Lead \in Actors
  BY DEF Live, Actors
<1>2. actor[c][Lead] = "idle"
  BY <1>1 DEF Unfinished, Phases
<1>3. actor'[c][Lead] = actor[c][Lead]
  BY <1>1 DEF Unfinished, TypeOK
<1> QED BY <1>2, <1>3

LEMMA RaiseFinal ==
    ASSUME NEW c \in Calls, Unfinished(c), NEW x \in Actors, Live(c, x),
           NEW type, NEW used, Raise(c, x, type, used)
    PROVE  Final(c)'
<1>1. TypeOK /\ actor' = [actor EXCEPT ![c][x] = "raised"]
  BY DEF Unfinished, Raise
<1>2. CASE x = Lead
  <2>1. Except(c, [type |-> type, used |-> used])
    BY <1>2 DEF Raise
  <2>2. pc'[c] \in {"answered", "failing"} /\ answer'[c].code # "OK"
    BY <1>1, <2>1 DEF Except, Respond, Unfinished, TypeOK
  <2>3. actor'[c][Lead] = "raised"
    BY <1>1, <1>2 DEF TypeOK
  <2> QED BY <2>2, <2>3, ElsewhereFinal DEF Unfinished
<1>3. CASE x # Lead
  <2>1. pc' = pc /\ answer' = answer
    BY <1>3 DEF Raise
  <2>2. actor'[c][Lead] = "idle"
    BY <1>1, <1>3, LeadIdle
  <2> QED BY <2>1, <2>2, ElsewhereFinal DEF Unfinished
<1> QED BY <1>2, <1>3

LEMMA GoOnFinal ==
    ASSUME NEW c \in Calls, Unfinished(c), NEW x \in Actors, Live(c, x),
           NEW p \in Places, actor' = [actor EXCEPT ![c][x] = p],
           x = Lead /\ p = "acting" => ~OverBudget(tokens'[c]),
           pc' = pc, answer' = answer
    PROVE  Final(c)'
<1>1. CASE x = Lead
  <2>1. actor'[c][Lead] = p
    BY <1>1 DEF Unfinished, TypeOK
  <2> QED BY <1>1, <2>1 DEF Unfinished, Final, OverBudget
<1>2. CASE x # Lead
  <2>1. actor'[c][Lead] = "idle"
    BY <1>2, LeadIdle
  <2> QED BY <2>1, ElsewhereFinal DEF Unfinished
<1> QED BY <1>1, <1>2

LEMMA RefuseFinal ==
    ASSUME NEW c \in Calls, Unfinished(c), NEW x \in Actors, Live(c, x), Refuse(c, x)
    PROVE  Final(c)'
BY RaiseFinal DEF Refuse

LEMMA EndTurnFinal ==
    ASSUME NEW c \in Calls, Unfinished(c), NEW x \in Actors, Live(c, x),
           NEW used, x = Lead => ~OverBudget(used), EndTurn(c, x, used)
    PROVE  Final(c)'
<1>1. CASE Raise(c, x, "InterruptedError", used)
  BY <1>1, RaiseFinal
<1>2. CASE ~Raise(c, x, "InterruptedError", used)
  <2>1. tokens' = [tokens EXCEPT ![c] = used] /\ answer' = answer
    BY <1>2, EndTurnMoves
  <2>2. CASE /\ actor' = [actor EXCEPT ![c][x] = "done"]
             /\ pc' = IF x = Lead THEN [pc EXCEPT ![c] = "output"] ELSE pc
    <3>1. CASE x = Lead
      BY <2>1, <2>2, <3>1, LeadDone DEF Unfinished
    <3>2. CASE x # Lead
      <4>1. "done" \in Places /\ pc' = pc
        BY <2>2, <3>2 DEF Places
      <4> QED BY <2>1, <2>2, <3>2, <4>1, GoOnFinal
    <3> QED BY <3>1, <3>2
  <2>3. CASE actor' = [actor EXCEPT ![c][x] = "starting"] /\ pc' = pc
    BY <2>1, <2>3, GoOnFinal DEF Places
  <2>4. CASE /\ x = Lead
             /\ actor' = [actor EXCEPT ![c][x] = "idle"]
             /\ pc' = [pc EXCEPT ![c] = "planned"]
    <3>1. pc'[c] = "planned" /\ actor'[c][Lead] = "idle"
      BY <2>4 DEF Unfinished, TypeOK
    <3> QED BY <2>1, <3>1, ElsewhereFinal DEF Unfinished
  <2> QED BY <1>2, <2>2, <2>3, <2>4, EndTurnMoves
<1> QED BY <1>1, <1>2

LEMMA ActorFinal ==
    ASSUME Inv, NEW c \in Calls, NEW x \in Actors, Actor(c, x)
    PROVE  Final(c)'
<1>1. Live(c, x) /\ Final(c) /\ TypeOK /\ Phases(c)
  BY DEF Inv, RInv, IInv, FInv, Live, Actor, StartAgent, CallModel, ModelReplies,
         StepFails, AnotherTool, ToolReturns
<1>2. Unfinished(c)
  BY <1>1 DEF Unfinished, Final, Settled, Live
<1>3. CASE StartAgent(c, x)
  <2>1. CASE ~Refuse(c, x)
    <3>1. actor' = [actor EXCEPT ![c][x] = "starting"] /\ pc' = pc /\ answer' = answer
      BY <1>3, <2>1 DEF StartAgent
    <3> QED BY <1>1, <1>2, <3>1, GoOnFinal DEF Places
  <2> QED BY <1>1, <1>2, <2>1, RefuseFinal
<1>4. CASE CallModel(c, x)
  <2>1. CASE ~Refuse(c, x)
    <3>1. actor' = [actor EXCEPT ![c][x] = "thinking"] /\ pc' = pc /\ answer' = answer
      BY <1>4, <2>1 DEF CallModel
    <3> QED BY <1>1, <1>2, <3>1, GoOnFinal DEF Places
  <2> QED BY <1>1, <1>2, <2>1, RefuseFinal
<1>5. ASSUME NEW n \in 0 .. MaxUsage, NEW more \in BOOLEAN, ModelReplies(c, x, n, more)
      PROVE  Final(c)'
  <2> DEFINE used == tokens[c] + n
  <2>1. CASE \E type \in Excs : Raise(c, x, type, used)
    BY <1>1, <1>2, <2>1, RaiseFinal
  <2>2. CASE ~\E type \in Excs : Raise(c, x, type, used)
    <3>1. ~OverBudget(used)
      BY <1>5, <2>2 DEF ModelReplies, Excs
    <3>2. \/ EndTurn(c, x, used)
          \/ /\ actor' = [actor EXCEPT ![c][x] = "acting"]
             /\ tokens' = [tokens EXCEPT ![c] = used]
             /\ pc' = pc /\ answer' = answer
      BY <1>5, <2>2 DEF ModelReplies, Excs
    <3> HIDE DEF used
    <3>3. CASE EndTurn(c, x, used)
      BY <1>1, <1>2, <3>1, <3>3, EndTurnFinal
    <3>4. CASE /\ actor' = [actor EXCEPT ![c][x] = "acting"]
               /\ tokens' = [tokens EXCEPT ![c] = used]
               /\ pc' = pc /\ answer' = answer
      <4>1. tokens'[c] = used
        BY <1>1, <3>4 DEF TypeOK
      <4> QED BY <1>1, <1>2, <3>1, <3>4, <4>1, GoOnFinal DEF Places
    <3> QED BY <3>2, <3>3, <3>4
  <2> QED BY <2>1, <2>2
<1>6. CASE StepFails(c, x) \/ AnotherTool(c, x)
  BY <1>1, <1>2, <1>6, RaiseFinal DEF StepFails, AnotherTool, Excs
<1>7. CASE ToolReturns(c, x)
  <2>1. CASE EndTurn(c, x, tokens[c])
    <3>1. x = Lead => ~OverBudget(tokens[c])
      BY <1>1, <1>7 DEF ToolReturns, Final
    <3> QED BY <1>1, <1>2, <2>1, <3>1, EndTurnFinal
  <2>2. CASE ~EndTurn(c, x, tokens[c])
    <3>1. actor' = [actor EXCEPT ![c][x] = "starting"] /\ pc' = pc /\ answer' = answer
      BY <1>7, <2>2 DEF ToolReturns
    <3> QED BY <1>1, <1>2, <3>1, GoOnFinal DEF Places
  <2> QED BY <2>1, <2>2
<1> QED BY <1>3, <1>4, <1>5, <1>6, <1>7 DEF Actor

-----------------------------------------------------------------------------
(* A lead that is launched starts from the top. *)
LEMMA LaunchLead ==
    ASSUME TypeOK, NEW c \in Calls, NEW who, Launch(c, who), actor'[c][Lead] = "acting"
    PROVE  actor[c][Lead] = "acting"
BY DEF Launch, TypeOK, Actors

LEMMA BeginFinal ==
    ASSUME TypeOK, NEW c \in Calls, Final(c), BeginGraph(c), pc[c] \in {"idle", "approval"},
           UNCHANGED <<tokens, answer>>
    PROVE  Final(c)'
<1>1. answer'[c].code # "OK"
  BY DEF Final
<1>2. /\ \E p \in {"lead", "planned"} : pc' = [pc EXCEPT ![c] = p]
      /\ actor' = actor \/ \E who : Launch(c, who)
  BY DEF BeginGraph
<1>3. pc'[c] \in {"lead", "planned"}
  BY <1>2 DEF TypeOK
<1>4. actor'[c][Lead] = "acting" => actor[c][Lead] = "acting"
  BY <1>2, LaunchLead
<1> QED BY <1>1, <1>3, <1>4, ElsewhereFinal

(* The handler of a call *)

LEMMA HandlerFinal ==
    ASSUME Inv, [Next]_vars, NEW c \in Calls, Handler(c)
    PROVE  Final(c)'
<1>1. TypeOK /\ Final(c) /\ Lawful(c)
  BY DEF Inv, RInv, IInv, LInv, FInv
<1>2. CASE \/ Pause(c) \/ ApprovalRejected(c) \/ ApprovalTimedOut(c)
  <2>1. /\ pc[c] \in {"pausing", "approval"} /\ UNCHANGED <<actor, tokens>>
        /\ \/ pc' = [pc EXCEPT ![c] = "approval"] /\ answer' = answer
           \/ \E cd \in {"CANCELLED", "TIMEOUT"} : Respond(c, cd, tokens[c])
    BY <1>2 DEF Pause, ApprovalRejected, ApprovalTimedOut, task, graph
  <2>2. answer[c].code # "OK"
    BY <1>1, <2>1 DEF Final
  <2>3. pc'[c] \in {"approval", "answered"} /\ answer'[c].code # "OK"
    BY <1>1, <2>1, <2>2 DEF Respond, TypeOK
  <2> QED BY <1>1, <2>1, <2>3, ElsewhereFinal
<1>3. CASE ApprovalGranted(c)
  <2>1. pc[c] = "approval" /\ BeginGraph(c) /\ UNCHANGED <<tokens, answer>>
    BY <1>3 DEF ApprovalGranted
  <2> QED BY <1>1, <2>1, BeginFinal
<1>4. CASE WaveDone(c)
  <2>1. /\ pc[c] \in {"planned", "agents"} /\ answer' = answer
        /\ \E p \in {"lead", "agents"} : pc' = [pc EXCEPT ![c] = p]
        /\ \E who : Launch(c, who)
    BY <1>1, <1>4 DEF WaveDone, TypeOK
  <2>2. answer'[c].code # "OK" /\ pc'[c] \in {"lead", "agents"}
    BY <1>1, <2>1 DEF Final, TypeOK
  <2>3. actor'[c][Lead] = "acting" => actor[c][Lead] = "acting"
    BY <1>1, <2>1, LaunchLead
  <2>4. tokens' = tokens
    BY <1>4 DEF WaveDone, task
  <2> QED BY <1>1, <2>2, <2>3, <2>4, ElsewhereFinal
<1>5. CASE WaveRaised(c)
  <2>1. pc[c] = "agents" /\ actor' = actor /\ Except(c, raised[c])
    BY <1>5 DEF WaveRaised, graph
  <2>2. answer[c].code # "OK" /\ actor[c][Lead] = "idle"
    BY <1>1, <2>1 DEF Final, Inv, RInv, IInv, Phases
  <2>3. pc'[c] \in {"answered", "failing"} /\ answer'[c].code # "OK"
    BY <1>1, <2>1, <2>2 DEF Except, Respond, TypeOK
  <2> QED BY <1>1, <2>1, <2>2, <2>3, ElsewhereFinal
<1>6. CASE AnswerFailure(c)
  <2>1. /\ pc[c] = "failing" /\ Respond(c, code[c], tokens[c])
        /\ UNCHANGED <<actor, tokens>>
    BY <1>6 DEF AnswerFailure, task, graph
  <2>2. pc'[c] = "answered" /\ answer'[c].code # "OK"
    BY <1>1, <2>1 DEF Respond, Lawful, TypeOK
  <2> QED BY <1>1, <2>1, <2>2, ElsewhereFinal
<1>7. CASE PublishCompleted(c)
  <2>1. /\ pc[c] = "output" /\ pc' = [pc EXCEPT ![c] = "completed"]
        /\ stream' = Append(stream, [type |-> "COMPLETED", call |-> c])
        /\ UNCHANGED <<actor, tokens, answer>>
    BY <1>7 DEF PublishCompleted, task, graph
  <2>2. Published(c)'
    <3> DEFINE e == [type |-> "COMPLETED", call |-> c]
    <3>1. stream \in Seq([type : {"COMPLETED", "FAILED"}, call : Calls])
      BY <1>1 DEF TypeOK
    <3>2. stream' = Append(stream, e)
      BY <2>1
    <3> HIDE DEF e
    <3>3. Len(stream) + 1 \in DOMAIN stream' /\ stream'[Len(stream) + 1] = e
      BY <3>1, <3>2
    <3> QED BY <3>3 DEF Published, e
  <2>3. answer[c].code # "OK" /\ Settled(c) /\ ~OverBudget(tokens[c])
    BY <1>1, <2>1 DEF Final
  <2>4. pc'[c] = "completed"
    BY <1>1, <2>1 DEF TypeOK
  <2> QED BY <2>1, <2>2, <2>3, <2>4 DEF Final, Settled, OverBudget
<1>8. CASE Finish(c)
  <2>1. /\ pc[c] = "completed" /\ UNCHANGED <<actor, tokens, stream>>
        /\ \E cd \in Codes : Respond(c, cd, tokens[c])
    BY <1>8 DEF Finish, graph, Codes
  <2>2. pc'[c] = "answered" /\ answer'[c].tokens = tokens[c]
    BY <1>1, <2>1 DEF Respond, TypeOK
  <2>3. Settled(c) /\ Published(c) /\ ~OverBudget(tokens[c])
    BY <1>1, <2>1 DEF Final
  <2> QED BY <2>1, <2>2, <2>3 DEF Final, Settled, Published, OverBudget
<1> QED BY <1>2, <1>3, <1>4, <1>5, <1>6, <1>7, <1>8 DEF Handler

(* The RPCs that arrive, a publish that fails, and a client that goes.     *)
LEMMA RpcFinal ==
    ASSUME Inv, [Next]_vars, NEW c \in Calls,
           \/ \E k \in Kinds, g \in BOOLEAN : RunStrategy(c, k, g)
           \/ PublishFails(c) \/ ClientGone(c) \/ PublishCancelled(c)
    PROVE  Final(c)'
<1>1. TypeOK /\ Final(c)
  BY DEF Inv, RInv, IInv, FInv
<1>2. ASSUME NEW k \in Kinds, NEW g \in BOOLEAN, RunStrategy(c, k, g)
      PROVE  Final(c)'
  <2>1. pc[c] = "idle" /\ answer' = answer /\ tokens' = tokens
    BY <1>2 DEF RunStrategy
  <2>2. CASE g
    <3>1. pc' = [pc EXCEPT ![c] = "pausing"] /\ actor' = actor
      BY <1>2, <2>2 DEF RunStrategy
    <3>2. pc'[c] = "pausing" /\ answer'[c].code # "OK"
      BY <1>1, <2>1, <3>1 DEF Final, TypeOK
    <3> QED BY <1>1, <2>1, <3>1, <3>2, ElsewhereFinal
  <2>3. CASE ~g
    <3>1. BeginGraph(c)
      BY <1>2, <2>3 DEF RunStrategy
    <3> QED BY <1>1, <2>1, <3>1, BeginFinal
  <2> QED BY <2>2, <2>3
<1>3. CASE PublishFails(c)
  <2>1. /\ \/ /\ pc[c] \in {"planned", "output", "completed"}
              /\ Except(c, [type |-> "Exception", used |-> 0])
           \/ pc[c] \in {"pausing", "failing"} /\ Respond(c, "UNKNOWN", 0)
        /\ UNCHANGED <<actor, tokens>>
    BY <1>3 DEF PublishFails, task, graph
  <2>2. answer[c].code # "OK"
    BY <1>1, <2>1 DEF Final
  <2>3. pc'[c] \in {"answered", "failing"} /\ answer'[c].code # "OK"
    BY <1>1, <2>1, <2>2 DEF Except, Respond, TypeOK
  <2> QED BY <1>1, <2>1, <2>3, ElsewhereFinal
<1>4. CASE ClientGone(c)
  <2>1. /\ pc[c] # "answered" /\ pc' = [pc EXCEPT ![c] = "aborted"]
        /\ answer' = answer /\ tokens' = tokens
    BY <1>4 DEF ClientGone
  <2>2. pc'[c] = "aborted" /\ answer'[c].code # "OK"
    BY <1>1, <2>1 DEF Final, TypeOK
  <2>3. actor'[c][Lead] = "acting" => actor[c][Lead] = "acting"
    BY <1>1, <1>4 DEF ClientGone, Live, TypeOK, Actors
  <2> QED BY <1>1, <2>1, <2>2, <2>3, ElsewhereFinal
<1>5. CASE PublishCancelled(c)
  <2>1. UNCHANGED <<pc, actor, tokens, answer>>
    BY <1>5 DEF PublishCancelled, task, graph
  <2> QED BY <1>1, <2>1, OthersFinal
<1> QED BY <1>2, <1>3, <1>4, <1>5

-----------------------------------------------------------------------------
(* Every step is of one call, and leaves the others as they were.          *)
Kept(d) ==
    /\ pc'[d] = pc[d] /\ actor'[d] = actor[d]
    /\ tokens'[d] = tokens[d] /\ answer'[d] = answer[d]
    /\ kind'[d] = kind[d] /\ stage'[d] = stage[d] /\ waves'[d] = waves[d]

LEMMA ExceptKeeps ==
    ASSUME TypeOK, NEW c \in Calls, NEW exc, Except(c, exc), NEW d \in Calls \ {c}
    PROVE  pc'[d] = pc[d] /\ answer'[d] = answer[d]
BY DEF Except, Respond, TypeOK

LEMMA RaiseKeeps ==
    ASSUME TypeOK, NEW c \in Calls, NEW x \in Actors, NEW type, NEW used,
           Raise(c, x, type, used), NEW d \in Calls \ {c}
    PROVE  Kept(d)
<1>1. actor'[d] = actor[d] /\ tokens'[d] = tokens[d]
  BY DEF Raise, TypeOK
<1>2. pc'[d] = pc[d] /\ answer'[d] = answer[d]
  BY ExceptKeeps DEF Raise
<1>3. UNCHANGED <<kind, stage, waves>>
  BY DEF Raise, Except, progress
<1> QED BY <1>1, <1>2, <1>3 DEF Kept

LEMMA ActorKeeps ==
    ASSUME TypeOK, NEW c \in Calls, NEW x \in Actors, Actor(c, x), NEW d \in Calls \ {c}
    PROVE  Kept(d)
<1>1. CASE \E type \in Excs : \E used : Raise(c, x, type, used)
  BY <1>1, RaiseKeeps
<1>2. CASE ~\E type \in Excs : \E used : Raise(c, x, type, used)
  <2>1. /\ \E p : actor' = [actor EXCEPT ![c][x] = p]
        /\ tokens' = tokens \/ \E used : tokens' = [tokens EXCEPT ![c] = used]
        /\ pc' = pc \/ \E p : pc' = [pc EXCEPT ![c] = p]
        /\ stage' = stage \/ \E s : stage' = [stage EXCEPT ![c] = s]
        /\ answer' = answer /\ kind' = kind /\ waves' = waves
    BY <1>2 DEF Actor, StartAgent, CallModel, ModelReplies, StepFails, AnotherTool, ToolReturns,
                EndTurn, TurnIsLast, BoardIsMade, NextNode, AsksAgain, Refuse, task,
                progress, Excs
  <2> QED BY <2>1 DEF Kept, TypeOK
<1> QED BY <1>1, <1>2

LEMMA CallKeeps ==
    ASSUME TypeOK, NEW c \in Calls, NEW d \in Calls \ {c},
           \/ Handler(c)
           \/ \E k \in Kinds, g \in BOOLEAN : RunStrategy(c, k, g)
           \/ PublishFails(c) \/ ClientGone(c) \/ PublishCancelled(c)
    PROVE  Kept(d)
<1>1. /\ \/ \E p : pc' = [pc EXCEPT ![c] = p]
         \/ pc' = pc
         \/ \E exc : Except(c, exc)
      /\ \/ \E a : answer' = [answer EXCEPT ![c] = a]
         \/ answer' = answer
         \/ \E exc : Except(c, exc)
  BY DEF Handler, Pause, ApprovalGranted, ApprovalRejected, ApprovalTimedOut, WaveDone,
         WaveRaised, AnswerFailure, PublishCompleted, Finish, RunStrategy, PublishFails,
         ClientGone, PublishCancelled, BeginGraph, Respond
<1>2. /\ tokens' = tokens \/ \E used : tokens' = [tokens EXCEPT ![c] = used]
      /\ kind' = kind \/ \E k : kind' = [kind EXCEPT ![c] = k]
  BY DEF Handler, Pause, ApprovalGranted, ApprovalRejected, ApprovalTimedOut, WaveDone,
         WaveRaised, AnswerFailure, PublishCompleted, Finish, RunStrategy, PublishFails,
         ClientGone, PublishCancelled, Except, task
<1>3. /\ stage' = stage \/ \E s : stage' = [stage EXCEPT ![c] = s]
      /\ waves' = waves \/ \E w : waves' = [waves EXCEPT ![c] = w]
  BY DEF Handler, Pause, ApprovalGranted, ApprovalRejected, ApprovalTimedOut, WaveDone,
         WaveRaised, AnswerFailure, PublishCompleted, Finish, RunStrategy, PublishFails,
         ClientGone, PublishCancelled, graph, progress
<1>4. actor' = actor \/ \E a : actor' = [actor EXCEPT ![c] = a]
  BY DEF Handler, Pause, ApprovalGranted, ApprovalRejected, ApprovalTimedOut, WaveDone,
         WaveRaised, AnswerFailure, PublishCompleted, Finish, RunStrategy, PublishFails,
         ClientGone, PublishCancelled, BeginGraph, Launch, graph
<1>5. /\ pc'[d] = pc[d] /\ answer'[d] = answer[d]
      /\ tokens'[d] = tokens[d] /\ actor'[d] = actor[d]
  BY <1>1, <1>2, <1>4, ExceptKeeps DEF TypeOK
<1>6. kind'[d] = kind[d] /\ stage'[d] = stage[d] /\ waves'[d] = waves[d]
  BY <1>2, <1>3 DEF TypeOK
<1> QED BY <1>5, <1>6 DEF Kept

-----------------------------------------------------------------------------
(* The waves are over *)

(* Nothing is undone by a step that leaves the agents alone. *)
LEMMA ExploredKept ==
    ASSUME NEW c \in Calls, Explored(c), kind'[c] = kind[c], waves'[c] = waves[c],
           \A x \in Agents : actor'[c][x] = actor[c][x]
    PROVE  Explored(c)'
<1>1. DoneAgents(c)' = DoneAgents(c)
  BY DEF DoneAgents
<1> QED BY <1>1 DEF Explored, FansOut, WavesOver

LEMMA KeptCovers ==
    ASSUME NEW c \in Calls, Covers(c), Kept(c)
    PROVE  Covers(c)'
BY ExploredKept DEF Covers, Kept

(* Nor by one that neither begins nor ends the answer. *)
LEMMA ElsewhereCovers ==
    ASSUME NEW c \in Calls, answer'[c].code # "OK",
           pc'[c] \notin {"pausing", "approval", "lead", "output", "completed"}
    PROVE  Covers(c)'
BY DEF Covers

LEMMA RaiseCovers ==
    ASSUME NEW c \in Calls, Unfinished(c), NEW x \in Actors, NEW type, NEW used,
           Raise(c, x, type, used),
           x # Lead => pc[c] \notin {"pausing", "approval", "lead"}
    PROVE  Covers(c)'
<1>1. CASE x = Lead
  <2>1. Except(c, [type |-> type, used |-> used])
    BY <1>1 DEF Raise
  <2>2. pc'[c] \in {"answered", "failing"} /\ answer'[c].code # "OK"
    BY <2>1 DEF Except, Respond, Unfinished, TypeOK
  <2> QED BY <2>2, ElsewhereCovers
<1>2. CASE x # Lead
  <2>1. pc' = pc /\ answer' = answer
    BY <1>2 DEF Raise
  <2> QED BY <1>2, <2>1, ElsewhereCovers DEF Unfinished
<1> QED BY <1>1, <1>2

(* The lead ends its last turn where it began it, with the waves over.     *)
LEMMA LeadCovers ==
    ASSUME NEW c \in Calls, Unfinished(c), Covers(c), pc[c] = "lead", NEW p,
           actor' = [actor EXCEPT ![c][Lead] = p],
           UNCHANGED <<kind, waves, answer>>,
           \/ pc' = pc /\ stage' = stage
           \/ pc' = pc /\ kind[c] = "research"
           \/ pc' = [pc EXCEPT ![c] = "output"] /\ stage[c] = "final"
           \/ pc' = [pc EXCEPT ![c] = "planned"]
    PROVE  Covers(c)'
<1>1. /\ pc'[c] \in {"lead", "output", "planned"} /\ answer'[c].code # "OK"
      /\ \A x \in Agents : actor'[c][x] = actor[c][x]
  <2>1. pc \in [Calls -> Positions] /\ answer[c].code # "OK"
    BY DEF Unfinished, TypeOK
  <2>2. actor \in [Calls -> [Actors -> Places]]
    BY DEF Unfinished, TypeOK
  <2>5. Agents \subseteq Actors /\ Lead \notin Agents
    BY ConstantsAssumption DEF Actors, ConstantsAssumption
  <2>3. pc'[c] \in {"lead", "output", "planned"}
    BY <2>1
  <2>4. \A x \in Agents : actor'[c][x] = actor[c][x]
    BY <2>2, <2>5
  <2> QED BY <2>1, <2>3, <2>4
<1>2. Explored(c) => Explored(c)'
  BY <1>1, ExploredKept
<1>3. CASE pc' = pc /\ stage' = stage
  BY <1>1, <1>2, <1>3 DEF Covers
<1>4. CASE pc' = pc /\ kind[c] = "research"
  BY <1>1, <1>4 DEF Covers, Explored, FansOut
<1>5. CASE pc' = [pc EXCEPT ![c] = "output"] /\ stage[c] = "final"
  <2>1. pc'[c] = "output" /\ Explored(c)
    BY <1>5 DEF Covers, Unfinished, TypeOK
  <2> QED BY <1>1, <1>2, <2>1 DEF Covers
<1>6. CASE pc' = [pc EXCEPT ![c] = "planned"]
  <2>1. pc'[c] = "planned"
    BY <1>6 DEF Unfinished, TypeOK
  <2> QED BY <1>1, <2>1 DEF Covers
<1> QED BY <1>3, <1>4, <1>5, <1>6

LEMMA ActorCovers ==
    ASSUME Inv, NEW c \in Calls, NEW x \in Actors, Actor(c, x)
    PROVE  Covers(c)'
<1>1. /\ Live(c, x) /\ Final(c) /\ TypeOK /\ Phases(c) /\ Lawful(c) /\ Covers(c)
  BY DEF Inv, RInv, IInv, LInv, FInv, Live, Actor, StartAgent, CallModel, ModelReplies,
         StepFails, AnotherTool, ToolReturns
<1>2. Unfinished(c)
  BY <1>1 DEF Unfinished, Final, Settled, Live
<1>3. x # Lead => pc[c] \notin {"pausing", "approval", "lead"}
  <2> SUFFICES ASSUME x # Lead PROVE pc[c] \notin {"pausing", "approval", "lead"}
    OBVIOUS
  <2>1. x \in Agents /\ actor[c][x] \notin {"idle", "done"}
    BY <1>1 DEF Live, Actors
  <2>2. actor[c][Lead] = "idle"
    BY <1>1, <2>1 DEF Phases
  <2> QED BY <1>1, <2>1, <2>2 DEF Phases, Lawful, Live
<1>4. CASE \E type \in Excs : \E used : Raise(c, x, type, used)
  BY <1>2, <1>3, <1>4, RaiseCovers
<1>5. CASE ~\E type \in Excs : \E used : Raise(c, x, type, used)
  <2>1. /\ \E p : actor' = [actor EXCEPT ![c][x] = p]
        /\ UNCHANGED <<kind, waves, answer>>
        /\ \/ pc' = pc /\ stage' = stage
           \/ x = Lead /\ pc' = pc /\ kind[c] = "research"
           \/ x = Lead /\ pc' = [pc EXCEPT ![c] = "output"] /\ stage[c] = "final"
           \/ x = Lead /\ pc' = [pc EXCEPT ![c] = "planned"]
    BY <1>5 DEF Actor, StartAgent, CallModel, ModelReplies, StepFails, AnotherTool, ToolReturns,
                EndTurn, TurnIsLast, BoardIsMade, NextNode, AsksAgain, Refuse, task,
                progress, Excs
  <2>2. CASE x = Lead
    <3>1. pc[c] = "lead"
      BY <1>1, <2>2 DEF Lawful
    <3> QED BY <1>1, <1>2, <2>1, <2>2, <3>1, LeadCovers
  <2>3. CASE x # Lead
    BY <1>2, <1>3, <2>1, <2>3, ElsewhereCovers DEF Unfinished
  <2> QED BY <2>2, <2>3
<1> QED BY <1>4, <1>5

LEMMA BeginCovers ==
    ASSUME TypeOK, NEW c \in Calls, BeginGraph(c), answer'[c].code # "OK",
           kind'[c] = "swarm" => stage'[c] = "plan"
    PROVE  Covers(c)'
<1>1. CASE kind'[c] = "dag"
  <2>1. pc'[c] = "planned"
    BY <1>1 DEF BeginGraph, TypeOK
  <2> QED BY <2>1, ElsewhereCovers
<1>2. CASE kind'[c] # "dag"
  <2>1. pc'[c] = "lead"
    BY <1>2 DEF BeginGraph, TypeOK
  <2> QED BY <1>2, <2>1 DEF Covers, Explored, FansOut
<1> QED BY <1>1, <1>2

LEMMA HandlerCovers ==
    ASSUME Inv, NEW c \in Calls, Handler(c)
    PROVE  Covers(c)'
<1>1. TypeOK /\ Final(c) /\ Lawful(c) /\ Covers(c)
  BY DEF Inv, RInv, IInv, LInv, FInv
<1>2. CASE Pause(c)
  <2>1. /\ pc[c] = "pausing" /\ pc'[c] = "approval" /\ answer[c].code # "OK"
        /\ UNCHANGED <<kind, stage, answer>>
    BY <1>1, <1>2 DEF Pause, Final, TypeOK, task, graph, progress
  <2> QED BY <1>1, <2>1 DEF Covers
<1>3. CASE ApprovalGranted(c)
  <2>1. /\ pc[c] = "approval" /\ BeginGraph(c) /\ answer'[c].code # "OK"
        /\ UNCHANGED <<kind, stage>>
    BY <1>1, <1>3 DEF ApprovalGranted, Final, progress
  <2> QED BY <1>1, <2>1, BeginCovers DEF Covers
<1>4. CASE ApprovalRejected(c) \/ ApprovalTimedOut(c) \/ WaveRaised(c) \/ AnswerFailure(c)
  <2>1. pc'[c] \in {"answered", "failing"} /\ answer'[c].code # "OK"
    BY <1>1, <1>4 DEF ApprovalRejected, ApprovalTimedOut, WaveRaised, AnswerFailure, Except,
                      Respond, Final, Lawful, TypeOK
  <2> QED BY <2>1, ElsewhereCovers
<1>5. CASE WaveDone(c)
  <2>1. answer'[c].code # "OK" /\ UNCHANGED <<kind, stage>>
    BY <1>1, <1>5 DEF WaveDone, Final, task
  <2>2. CASE pc' = [pc EXCEPT ![c] = "agents"]
    <3>1. pc'[c] = "agents"
      BY <1>1, <2>2 DEF TypeOK
    <3> QED BY <2>1, <3>1, ElsewhereCovers
  <2>3. CASE /\ WavesOver(c) /\ pc' = [pc EXCEPT ![c] = "lead"]
             /\ Launch(c, {Lead}) /\ UNCHANGED waves
    <3>1. \A x \in Agents : actor'[c][x] = actor[c][x]
      BY <1>1, <2>3, ConstantsAssumption DEF Launch, TypeOK, Actors, ConstantsAssumption
    <3>2. Explored(c)'
      BY <2>1, <2>3, <3>1, ExploredKept DEF Explored
    <3>3. pc'[c] = "lead"
      BY <1>1, <2>3 DEF TypeOK
    <3> QED BY <2>1, <3>2, <3>3 DEF Covers
  <2> QED BY <1>5, <2>2, <2>3 DEF WaveDone
<1>6. CASE PublishCompleted(c) \/ Finish(c)
  <2>1. /\ pc[c] \in {"output", "completed"}
        /\ \E p \in {"completed", "answered"} : pc' = [pc EXCEPT ![c] = p]
        /\ UNCHANGED <<kind, waves, actor>>
    BY <1>6 DEF PublishCompleted, Finish, Respond, task, graph, progress
  <2>2. Explored(c)'
    BY <1>1, <2>1, ExploredKept DEF Covers
  <2>3. pc'[c] \in {"completed", "answered"}
    BY <1>1, <2>1 DEF TypeOK
  <2> QED BY <2>2, <2>3 DEF Covers
<1> QED BY <1>2, <1>3, <1>4, <1>5, <1>6 DEF Handler

LEMMA RpcCovers ==
    ASSUME Inv, NEW c \in Calls,
           \/ \E k \in Kinds, g \in BOOLEAN : RunStrategy(c, k, g)
           \/ PublishFails(c) \/ ClientGone(c) \/ PublishCancelled(c)
    PROVE  Covers(c)'
<1>1. TypeOK /\ Final(c) /\ Covers(c)
  BY DEF Inv, RInv, IInv, FInv
<1>2. ASSUME NEW k \in Kinds, NEW g \in BOOLEAN, RunStrategy(c, k, g)
      PROVE  Covers(c)'
  <2>1. /\ kind'[c] = k /\ (k = "swarm" => stage'[c] = "plan")
        /\ answer'[c].code # "OK"
    BY <1>1, <1>2 DEF RunStrategy, Final, TypeOK
  <2>2. CASE g
    <3>1. pc'[c] = "pausing"
      BY <1>1, <1>2, <2>2 DEF RunStrategy, TypeOK
    <3> QED BY <2>1, <3>1 DEF Covers
  <2>3. CASE ~g
    <3>1. BeginGraph(c)
      BY <1>2, <2>3 DEF RunStrategy
    <3> QED BY <1>1, <2>1, <3>1, BeginCovers
  <2> QED BY <2>2, <2>3
<1>3. CASE PublishFails(c) \/ ClientGone(c)
  <2>1. pc'[c] \in {"answered", "failing", "aborted"} /\ answer'[c].code # "OK"
    BY <1>1, <1>3 DEF PublishFails, ClientGone, Except, Respond, Final, TypeOK
  <2> QED BY <2>1, ElsewhereCovers
<1>4. CASE PublishCancelled(c)
  <2>1. Kept(c)
    BY <1>4 DEF PublishCancelled, Kept, task, graph, progress
  <2> QED BY <1>1, <2>1, KeptCovers
<1> QED BY <1>2, <1>3, <1>4

LEMMA StepFinal ==
    ASSUME Inv, [Next]_vars
    PROVE  Inv'
<1>1. RInv' /\ TypeOK
  BY StepLawful DEF Inv, RInv, IInv
<1> SUFFICES ASSUME NEW d \in Calls PROVE Final(d)' /\ Covers(d)'
  BY <1>1 DEF Inv, FInv
<1>2. CASE Kept(d)
  BY <1>1, <1>2, OthersFinal, KeptCovers DEF Kept, Inv, FInv
<1>3. CASE UNCHANGED vars
  BY <1>2, <1>3 DEF vars, task, graph, progress, Kept
<1>4. ASSUME NEW c \in Calls, NEW x \in Actors, Actor(c, x) PROVE Final(d)' /\ Covers(d)'
  BY <1>1, <1>2, <1>4, ActorFinal, ActorCovers, ActorKeeps
<1>5. ASSUME NEW c \in Calls, Handler(c) PROVE Final(d)' /\ Covers(d)'
  BY <1>1, <1>2, <1>5, HandlerFinal, HandlerCovers, CallKeeps
<1>6. ASSUME NEW c \in Calls,
             \/ \E k \in Kinds, g \in BOOLEAN : RunStrategy(c, k, g)
             \/ PublishFails(c) \/ ClientGone(c) \/ PublishCancelled(c)
      PROVE  Final(d)' /\ Covers(d)'
  BY <1>1, <1>2, <1>6, RpcFinal, RpcCovers, CallKeeps
<1>7. CASE RequestCancel \/ \E v \in {"approved", "rejected"} : ApproveDecision(v)
  <2>1. UNCHANGED <<pc, actor, tokens, answer, kind, stage, waves>>
    BY <1>7 DEF RequestCancel, ApproveDecision, graph, progress
  <2> QED BY <1>2, <2>1 DEF Kept
<1> QED BY <1>3, <1>4, <1>5, <1>6, <1>7 DEF Next

LEMMA InitFinal == Init => Inv
<1> SUFFICES ASSUME Init PROVE Inv
  OBVIOUS
<1>1. RInv
  BY InitLawful
<1>2. FInv
  BY DEF Init, FInv, Final, Covers, NoAnswer, Actors
<1> QED BY <1>1, <1>2 DEF Inv

(* A call answered OK left nothing running and nothing of its plan undone, *)
(* but for what its waves did not get to before their limit; its tokens    *)
(* are all in the response and under the budget, and WORKFLOW_COMPLETED is *)
(* in the stream.                                                          *)
THEOREM OkFinal == Spec => []OkIsFinal
<1>1. Inv => OkIsFinal
  <2> SUFFICES ASSUME Inv, NEW c \in Calls, answer[c].code = "OK"
               PROVE  /\ \A x \in Actors : actor[c][x] \in {"idle", "done"}
                      /\ FansOut(c) => WavesOver(c)
                      /\ answer[c].tokens = tokens[c]
                      /\ Budget > 0 => answer[c].tokens < Budget
                      /\ Published(c)
    BY DEF OkIsFinal, Published
  <2>1. /\ Settled(c) /\ Published(c)
        /\ answer[c].tokens = tokens[c] /\ ~OverBudget(tokens[c]) /\ tokens[c] \in Nat
    BY DEF Inv, FInv, Final, RInv, IInv, TypeOK
  <2>2. Budget > 0 => answer[c].tokens < Budget
    BY <2>1, ConstantsAssumption DEF OverBudget, ConstantsAssumption
  <2>3. FansOut(c) => WavesOver(c)
    BY DEF Inv, FInv, Covers, Explored
  <2> QED BY <2>1, <2>2, <2>3 DEF Settled
<1>2. Inv /\ [Next]_vars => Inv'
  BY StepFinal
<1> QED BY InitFinal, <1>1, <1>2, PTL DEF Spec

-----------------------------------------------------------------------------
(***************************************************************************)
(* Nobody works for a gated call before its approval: NoWorkBeforeApproval.*)
(*                                                                         *)
(* An actor leaves "idle" only when its call begins its graph or launches  *)
(* a wave.  A gated call begins its graph where it sees the approval, and  *)
(* remembers it in allow_dangerous_tools for all the waves to come.        *)
(***************************************************************************)
Gate(c) == gated[c] /\ pc[c] \in {"planned", "agents", "lead"} => allowDangerous[c]

GInv == RInv /\ \A c \in Calls : Gate(c)

Allowed(c) == allowDangerous[c] \/ approval[c] = "approved"

(* What a step of the graph must do for call c to keep both.               *)
Holds(c) ==
    /\ Gate(c)'
    /\ \A x \in Actors :
          gated'[c] /\ actor[c][x] = "idle" /\ actor'[c][x] # "idle" => Allowed(c)

LEMMA OthersHold ==
    ASSUME GInv, NEW d \in Calls, pc'[d] = pc[d], actor'[d] = actor[d],
           gated'[d] = gated[d], allowDangerous'[d] = allowDangerous[d]
    PROVE  Holds(d)
BY DEF GInv, Gate, Holds

(* The gate of a call is set when it arrives, and opened by its approval.  *)
LEMMA GateIsLeftAlone ==
    ASSUME Next, ~\E c \in Calls, k \in Kinds, g \in BOOLEAN : RunStrategy(c, k, g),
           ~\E c \in Calls : ApprovalGranted(c)
    PROVE  UNCHANGED <<gated, allowDangerous>>
<1>1. ASSUME NEW c \in Calls, NEW x \in Actors, Actor(c, x)
      PROVE  UNCHANGED <<gated, allowDangerous>>
  BY <1>1 DEF Actor, StartAgent, CallModel, ModelReplies, StepFails, AnotherTool, ToolReturns,
              EndTurn, Refuse, Raise, Except, task
<1>2. ASSUME NEW c \in Calls, Handler(c)
      PROVE  UNCHANGED <<gated, allowDangerous>>
  BY <1>2 DEF Handler, Pause, ApprovalRejected, ApprovalTimedOut, WaveDone, WaveRaised,
              AnswerFailure, PublishCompleted, Finish, Except, task
<1>3. ASSUME NEW c \in Calls, PublishFails(c) \/ ClientGone(c) \/ PublishCancelled(c)
      PROVE  UNCHANGED <<gated, allowDangerous>>
  BY <1>3 DEF PublishFails, ClientGone, PublishCancelled, Except, task
<1>4. ASSUME RequestCancel \/ \E v \in {"approved", "rejected"} : ApproveDecision(v)
      PROVE  UNCHANGED <<gated, allowDangerous>>
  BY <1>4 DEF RequestCancel, ApproveDecision
<1> QED BY <1>1, <1>2, <1>3, <1>4 DEF Next

LEMMA ActorHolds ==
    ASSUME GInv, NEW c \in Calls, NEW x \in Actors, Actor(c, x),
           UNCHANGED <<gated, allowDangerous>>
    PROVE  Holds(c)
<1>1. TypeOK /\ Lawful(c) /\ Gate(c)
  BY DEF GInv, RInv, IInv, LInv
<1>2. Live(c, x)
  BY DEF Live, Actor, StartAgent, CallModel, ModelReplies, StepFails, AnotherTool, ToolReturns
<1>3. /\ \E p : actor' = [actor EXCEPT ![c][x] = p]
      /\ \/ pc' = pc
         \/ \E p \in {"output", "answered", "failing"} : pc' = [pc EXCEPT ![c] = p]
         \/ x = Lead /\ pc' = [pc EXCEPT ![c] = "planned"]
  BY <1>1, ActorMoves DEF MovesOn, StepsBack, GivesUp
<1>4. /\ actor[c][x] # "idle"
      /\ \A y \in Actors \ {x} : actor'[c][y] = actor[c][y]
  BY <1>1, <1>2, <1>3 DEF Live, TypeOK
<1>5. Gate(c)'
  <2>1. CASE pc' = pc
    BY <1>1, <2>1 DEF Gate
  <2>2. CASE \E p \in {"output", "answered", "failing"} : pc' = [pc EXCEPT ![c] = p]
    BY <1>1, <2>2 DEF Gate, TypeOK
  <2>3. CASE x = Lead /\ pc' = [pc EXCEPT ![c] = "planned"]
    BY <1>1, <1>2, <2>3 DEF Gate, Lawful, TypeOK
  <2> QED BY <1>3, <2>1, <2>2, <2>3
<1> QED BY <1>4, <1>5 DEF Holds

LEMMA HandlerHolds ==
    ASSUME GInv, NEW c \in Calls, Handler(c) \/ PublishFails(c) \/ ClientGone(c)
    PROVE  Holds(c)
<1>1. TypeOK /\ Gate(c)
  BY DEF GInv, RInv, IInv
<1>2. CASE ApprovalGranted(c)
  BY <1>1, <1>2 DEF ApprovalGranted, Approved, Holds, Gate, Allowed, TypeOK
<1>3. CASE WaveDone(c)
  <2>1. /\ UNCHANGED <<gated, allowDangerous>>
        /\ pc[c] \in {"planned", "agents"}
    BY <1>3 DEF WaveDone, task
  <2> QED BY <1>1, <2>1 DEF Gate, Holds, Allowed
<1>4. CASE ClientGone(c)
  <2>1. /\ UNCHANGED <<gated, allowDangerous>>
        /\ pc' = [pc EXCEPT ![c] = "aborted"]
        /\ \/ actor' = actor
           \/ actor' = [actor EXCEPT ![c] =
                          [x \in Actors |-> IF Live(c, x) THEN "raised" ELSE actor[c][x]]]
    BY <1>4 DEF ClientGone
  <2>2. \A x \in Actors : actor[c][x] = "idle" => actor'[c][x] = "idle"
    <3>1. actor \in [Calls -> [Actors -> Places]]
      BY <1>1 DEF TypeOK
    <3>2. CASE actor' = actor
      BY <3>2
    <3>3. CASE actor' = [actor EXCEPT ![c] =
                          [x \in Actors |-> IF Live(c, x) THEN "raised" ELSE actor[c][x]]]
      <4>1. \A x \in Actors :
                actor'[c][x] = IF Live(c, x) THEN "raised" ELSE actor[c][x]
        BY <3>1, <3>3
      <4> QED BY <4>1 DEF Live
    <3> QED BY <2>1, <3>2, <3>3
  <2> QED BY <1>1, <2>1, <2>2 DEF Holds, Gate, TypeOK
<1>5. CASE \/ Pause(c) \/ ApprovalRejected(c) \/ ApprovalTimedOut(c) \/ WaveRaised(c)
           \/ AnswerFailure(c) \/ PublishCompleted(c) \/ Finish(c) \/ PublishFails(c)
  <2>1. /\ UNCHANGED <<gated, allowDangerous, actor>>
        /\ \E p \in Positions \ {"planned", "agents", "lead"} : pc' = [pc EXCEPT ![c] = p]
    BY <1>5 DEF Pause, ApprovalRejected, ApprovalTimedOut, WaveRaised, AnswerFailure,
                PublishCompleted, Finish, PublishFails, Except, Respond, Positions, task,
                graph
  <2> QED BY <1>1, <2>1 DEF Holds, Gate, TypeOK
<1> QED BY <1>2, <1>3, <1>4, <1>5 DEF Handler

LEMMA StepHolds ==
    ASSUME GInv, [Next]_vars, NEW d \in Calls
    PROVE  Holds(d)
<1>1. TypeOK
  BY DEF GInv, RInv, IInv
<1>2. CASE UNCHANGED vars
  BY <1>2, OthersHold DEF vars, task, graph
<1>3. ASSUME NEW c \in Calls, NEW k \in Kinds, NEW g \in BOOLEAN, RunStrategy(c, k, g)
      PROVE  Holds(d)
  <2>1. UNCHANGED allowDangerous /\ gated' = [gated EXCEPT ![c] = g]
    BY <1>3 DEF RunStrategy
  <2>2. CASE d # c
    <3>1. pc'[d] = pc[d] /\ actor'[d] = actor[d]
      BY <1>1, <1>3, <2>2, CallKeeps DEF Kept
    <3>2. gated'[d] = gated[d]
      BY <1>1, <2>1, <2>2 DEF TypeOK
    <3> QED BY <2>1, <3>1, <3>2, OthersHold
  <2>3. CASE d = c
    <3>1. CASE g
      BY <1>1, <1>3, <2>3, <3>1 DEF RunStrategy, Holds, Gate, TypeOK
    <3>2. CASE ~g
      BY <1>1, <2>1, <2>3, <3>2 DEF Holds, Gate, TypeOK
    <3> QED BY <3>1, <3>2
  <2> QED BY <2>2, <2>3
<1>4. ASSUME NEW c \in Calls, ApprovalGranted(c)
      PROVE  Holds(d)
  <2>1. /\ UNCHANGED gated
        /\ allowDangerous' = [allowDangerous EXCEPT ![c] = TRUE]
    BY <1>4 DEF ApprovalGranted
  <2>2. Handler(c)
    BY <1>4 DEF Handler
  <2>3. CASE d # c
    <3>1. pc'[d] = pc[d] /\ actor'[d] = actor[d]
      BY <1>1, <2>2, <2>3, CallKeeps DEF Kept
    <3>2. allowDangerous'[d] = allowDangerous[d]
      BY <1>1, <2>1, <2>3 DEF TypeOK
    <3> QED BY <2>1, <3>1, <3>2, OthersHold
  <2>4. CASE d = c
    BY <2>2, <2>4, HandlerHolds
  <2> QED BY <2>3, <2>4
<1>5. CASE /\ Next
           /\ ~\E c \in Calls, k \in Kinds, g \in BOOLEAN : RunStrategy(c, k, g)
           /\ ~\E c \in Calls : ApprovalGranted(c)
  <2>1. UNCHANGED <<gated, allowDangerous>>
    BY <1>5, GateIsLeftAlone
  <2>2. ASSUME NEW c \in Calls, NEW x \in Actors, Actor(c, x) PROVE Holds(d)
    BY <1>1, <2>1, <2>2, ActorHolds, ActorKeeps, OthersHold DEF Kept
  <2>3. ASSUME NEW c \in Calls, Handler(c) \/ PublishFails(c) \/ ClientGone(c)
        PROVE  Holds(d)
    BY <1>1, <2>1, <2>3, HandlerHolds, CallKeeps, OthersHold DEF Kept
  <2>4. ASSUME \/ \E c \in Calls : PublishCancelled(c)
               \/ RequestCancel
               \/ \E v \in {"approved", "rejected"} : ApproveDecision(v)
        PROVE  Holds(d)
    <3>1. UNCHANGED <<pc, actor>>
      BY <2>4 DEF PublishCancelled, RequestCancel, ApproveDecision, graph
    <3> QED BY <2>1, <3>1, OthersHold
  <2> QED BY <1>5, <2>2, <2>3, <2>4 DEF Next
<1> QED BY <1>2, <1>3, <1>4, <1>5

(* A strategy that asked for approval calls no model and no tool before a  *)
(* reviewer's approval reached this very call: no actor of a gated call    *)
(* leaves "idle" before it, whatever the other calls' decisions are.       *)
THEOREM WorkIsApproved == Spec => NoWorkBeforeApproval
<1>1. Init => GInv
  BY InitLawful DEF Init, GInv, Gate
<1>2. GInv /\ [Next]_vars => GInv'
  BY StepLawful, StepHolds DEF GInv, Holds
<1>3. GInv /\ [Next]_vars =>
          [\A c \in Calls, x \in Actors :
              gated'[c] /\ actor[c][x] = "idle" /\ actor'[c][x] # "idle" =>
                  allowDangerous[c] \/ approval[c] = "approved"]_vars
  BY StepHolds DEF Holds, Allowed
<1> QED BY <1>1, <1>2, <1>3, PTL DEF Spec, NoWorkBeforeApproval
=============================================================================
